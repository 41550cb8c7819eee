--------------------------- MODULE TranscodeProofs ---------------------------
(***************************************************************************)
(* Proofs about Transcode: a picture keeps its color space and its         *)
(* quantization tables through any number of re-encodings.                 *)
(*                                                                         *)
(* The argument looks at the file that is being written as it grows        *)
(* (Written: what each segment in it says agrees with what was read), and  *)
(* at the reader of such a file as it goes along it (its flags, tables and  *)
(* frame say what the segments behind it said).                            *)
(***************************************************************************)
EXTENDS Transcode, SelectionProofs

-----------------------------------------------------------------------------
(* The invariant.                                                          *)

States == {"reading", "read", "copied", "started", "framing", "scanning", "written", "error"}

(* What save_marker may put in the list.                                   *)
Kept == Saved \cup {JFIF, AdobeOf("RGB"), AdobeOf("YCCK")}

SpaceFits(space, n) ==
    CASE n = 1 -> space = "GRAYSCALE"
      [] n = 3 -> space \in {"RGB", "YCbCr"}
      [] n = 4 -> space \in {"CMYK", "YCCK"}
      [] OTHER -> space = "UNKNOWN"

HasJFIF(markers) == \E i \in 1 .. Len(markers) : WholeJFIF(markers[i])

(* What a segment e of a file says agrees with the picture: its color      *)
(* space, components and their tables, and the markers it was written      *)
(* with.                                                                   *)
Agrees(e, space, comps, tables, markers) ==
    /\ e.marker \in AppMarkers => e \in Kept
    /\ WholeJFIF(e) /\ space = "RGB" => HasJFIF(markers)
    /\ WholeAdobe(e) /\ space \in {"RGB", "CMYK", "YCCK"} => e.value = AdobeOf(space).value
    /\ e.marker = "SOF" => e.components = comps
    /\ e.marker = "DQT" =>
          /\ e.slot \in Slots => e.table \in Tables
          /\ \A c \in 1 .. Len(comps) :
                comps[c].quant_tbl_no = e.slot /\ tables[c] # None => e.table = tables[c]

BeforeScans(o, k) == \A m \in 1 .. k : o[m].marker # "SOS"

Written(o, space, comps, tables, markers) ==
    /\ IsSequence(o) /\ o # <<>>
    /\ \A k \in 1 .. Len(o) : Agrees(o[k], space, comps, tables, markers)
    /\ o[1].marker # "SOS"
    /\ space = "YCbCr" => \E k \in 1 .. Len(o) : WholeJFIF(o[k]) /\ BeforeScans(o, k)
    /\ space \in {"RGB", "CMYK", "YCCK"} =>
          \E k \in 1 .. Len(o) : WholeAdobe(o[k]) /\ BeforeScans(o, k)

Types ==
    /\ trip \in Nat /\ state \in States /\ next \in Nat /\ next > 0
    /\ saw_SOF \in BOOLEAN /\ inheaders \in BOOLEAN
    /\ saw_JFIF_marker \in BOOLEAN /\ saw_Adobe_marker \in BOOLEAN
    /\ quant_tbl_ptrs \in [Slots -> Tables \cup {None}]
    /\ comp_info \in Seq(Component)
    /\ quant_table \in [1 .. Len(comp_info) -> Tables \cup {None}]
    /\ marker_list \in Seq(Kept)
    /\ leading # <<>> => leading[1] \in Kept /\ leading[1].marker = "APP1"

(* The color space goes with the number of components.                     *)
Guessed == ~inheaders => saw_SOF /\ SpaceFits(jpeg_color_space, Len(comp_info))

Finished == state \in {"read", "copied", "started", "framing", "scanning", "written"} => ~inheaders

Writable ==
    state \in {"copied", "started", "framing", "scanning", "written"} =>
        \A c \in 1 .. Len(comp_info) : Copyable(c)

BeingWritten ==
    state \in {"started", "framing", "scanning", "written"} =>
        Written(output, jpeg_color_space, comp_info, quant_table, marker_list)

Behind == Len(source.output) - Len(input)

SourceWritten ==
    trip > 0 =>
        /\ Written(source.output, source.space, source.comp_info, source.quant_table, source.marker_list)
        /\ SpaceFits(source.space, Len(source.comp_info))
        /\ source.comp_info \in Seq(Component) /\ source.marker_list \in Seq(Kept)

(* What is left to read is the end of what was written.                    *)
Suffix ==
    trip > 0 =>
        /\ IsSequence(input) /\ Behind \in Nat
        /\ \A k \in 1 .. Len(input) : input[k] = source.output[k + Behind]

(* What the segments behind have told the reader.                          *)
FlagsKnown ==
    trip > 0 =>
        /\ saw_JFIF_marker => \E k \in 1 .. Behind : WholeJFIF(source.output[k])
        /\ saw_Adobe_marker =>
              \E k \in 1 .. Behind : WholeAdobe(source.output[k]) /\ Adobe_transform = source.output[k].value

FlagsSeen ==
    trip > 0 /\ state = "reading" => \A k \in 1 .. Behind :
        /\ WholeJFIF(source.output[k]) => saw_JFIF_marker
        /\ WholeAdobe(source.output[k]) => saw_Adobe_marker
        /\ inheaders => source.output[k].marker # "SOS"

FrameKnown == trip > 0 => comp_info = IF saw_SOF THEN source.comp_info ELSE <<>>

SlotsKnown ==
    trip > 0 => \A n \in Slots : quant_tbl_ptrs[n] # None =>
        \A c \in 1 .. Len(source.comp_info) :
            source.comp_info[c].quant_tbl_no = n /\ source.quant_table[c] # None =>
                quant_tbl_ptrs[n] = source.quant_table[c]

TablesAgree ==
    trip > 0 => \A c \in 1 .. Len(comp_info) :
        quant_table[c] # None /\ source.quant_table[c] # None => quant_table[c] = source.quant_table[c]

SpacesAgree == trip > 0 /\ ~inheaders /\ ~LateJFIF => jpeg_color_space = source.space

Inv ==
    /\ Types /\ Guessed /\ Finished /\ Writable
    /\ BeingWritten /\ SourceWritten
    /\ Suffix /\ FlagsKnown /\ FlagsSeen /\ FrameKnown /\ SlotsKnown
    /\ TablesAgree /\ SpacesAgree

(* What seg \in Ahead can be.                                              *)
LEMMA AheadFacts ==
    ASSUME Types, SourceWritten, Suffix, NEW seg \in Ahead
    PROVE  /\ state = "reading"
           /\ seg.marker \in AppMarkers => seg \in Kept
           /\ seg.marker = "SOF" => seg.components \in Seq(Component)
           /\ seg.marker = "DQT" /\ seg.slot \in Slots => seg.table \in Tables
           /\ trip > 0 =>
                 /\ input # <<>> /\ seg = source.output[Behind + 1]
                 /\ Behind + 1 \in 1 .. Len(source.output)
                 /\ Agrees(seg, source.space, source.comp_info, source.quant_table, source.marker_list)
  <1>1. state = "reading"
    BY DEF Ahead
  <1>2. CASE trip = 0
    <2>1. seg \in Segments
      BY <1>1, <1>2 DEF Ahead
    <2>2. seg.marker \in AppMarkers => seg \in Kept
      BY <2>1 DEF Segments, ScanHeader, Kept, AppMarkers
    <2>3. seg.marker = "SOF" => seg.components \in Seq(Component)
      BY <2>1, SegmentsAssumption DEF Segments, ScanHeader, AppMarkers
    <2>4. seg.marker = "DQT" => seg.table \in Tables
      BY <2>1, SegmentsAssumption DEF Segments, ScanHeader, AppMarkers
    <2>. QED
      BY <1>1, <1>2, <2>2, <2>3, <2>4
  <1>3. CASE trip > 0
    <2>1. 1 \in DOMAIN input /\ seg = input[1]
      BY <1>1, <1>3 DEF Ahead, Types
    <2>2. PICK S : input \in Seq(S)
      BY <1>3 DEF Suffix, IsSequence
    <2>3. input # <<>> /\ Len(input) \in Nat /\ 1 \in 1 .. Len(input)
      BY <2>1, <2>2
    <2>4. seg = source.output[Behind + 1] /\ Behind \in Nat
      BY <1>3, <2>1, <2>3 DEF Suffix
    <2>5. Len(source.output) \in Nat
      BY <1>3 DEF SourceWritten, Written, IsSequence
    <2>6. Behind + 1 \in 1 .. Len(source.output)
      BY <2>3, <2>4, <2>5 DEF Behind
    <2>7. Agrees(seg, source.space, source.comp_info, source.quant_table, source.marker_list)
      BY <1>3, <2>4, <2>6 DEF SourceWritten, Written
    <2>. QED
      BY <1>1, <1>3, <2>3, <2>4, <2>6, <2>7 DEF SourceWritten, Agrees
  <1>. QED
    BY <1>2, <1>3 DEF Types

(* Consuming a segment.                                                    *)
LEMMA TakeFacts ==
    ASSUME Types, SourceWritten, Suffix, NEW seg \in Ahead, Take(seg)
    PROVE  /\ Suffix' /\ SourceWritten' /\ source' = source /\ trip' = trip
           /\ trip > 0 => Behind' = Behind + 1 /\ Behind \in Nat
           /\ next' = next /\ progressive' = progressive
           /\ leading' # <<>> =>
                 \/ leading' = leading
                 \/ seg.marker = "APP1" /\ leading'[1] = seg
  <1>1. /\ source' = source /\ trip' = trip /\ next' = next /\ progressive' = progressive
        /\ SourceWritten'
    BY DEF Take, call, SourceWritten
  <1>2. CASE trip = 0
    BY <1>1, <1>2 DEF Take, Suffix
  <1>3. CASE trip > 0
    <2>1. input' = Tail(input) /\ input # <<>>
      BY <1>3, AheadFacts DEF Take
    <2>2. /\ IsSequence(input') /\ Len(input) \in Nat \ {0} /\ Len(input') = Len(input) - 1
          /\ \A k \in 1 .. Len(input) - 1 : input'[k] = input[k + 1]
      BY <1>3, <2>1, TailTaken DEF Suffix
    <2>3. Len(source.output) \in Nat
      BY <1>3 DEF SourceWritten, Written, IsSequence
    <2>4. Behind \in Nat /\ Behind' = Behind + 1
      BY <1>1, <1>3, <2>2, <2>3 DEF Behind, Suffix
    <2>5. \A k \in 1 .. Len(input') : input'[k] = source'.output[k + Behind']
      <3>. SUFFICES ASSUME NEW k \in 1 .. Len(input') PROVE input'[k] = source'.output[k + Behind']
        OBVIOUS
      <3>1. input'[k] = input[k + 1] /\ k + 1 \in 1 .. Len(input)
        BY <2>2
      <3>2. input[k + 1] = source.output[(k + 1) + Behind]
        BY <1>3, <3>1 DEF Suffix
      <3>3. (k + 1) + Behind = k + Behind'
        BY <2>2, <2>4
      <3>. QED
        BY <1>1, <3>1, <3>2, <3>3
    <2>. QED
      BY <1>1, <1>3, <2>2, <2>4, <2>5 DEF Suffix, Take
  <1>4. leading' # <<>> =>
                 \/ leading' = leading
                 \/ seg.marker = "APP1" /\ leading'[1] = seg
    BY DEF Take
  <1>. QED
    BY <1>1, <1>2, <1>3, <1>4 DEF Types

-----------------------------------------------------------------------------
(* Reading: what a step that consumes seg leaves alone.                    *)

LEMMA ReaderOnly ==
    ASSUME Inv, NEW seg \in Ahead, Take(seg), state' \in {"reading", "read", "error"},
           state' = "read" => ~inheaders'
    PROVE  Finished' /\ Writable' /\ BeingWritten' /\ SourceWritten' /\ Suffix'
  <1>1. SourceWritten' /\ Suffix'
    BY TakeFacts DEF Inv
  <1>. QED
    BY <1>1 DEF Finished, Writable, BeingWritten

LEMMA FlagsKnownStay ==
    ASSUME Inv, NEW seg \in Ahead, Take(seg), UNCHANGED flags
    PROVE  FlagsKnown'
  <1>. SUFFICES ASSUME trip > 0 PROVE FlagsKnown'
    BY TakeFacts DEF FlagsKnown, Inv
  <1>1. /\ source' = source /\ Behind' = Behind + 1 /\ Behind \in Nat
        /\ saw_JFIF_marker' = saw_JFIF_marker /\ saw_Adobe_marker' = saw_Adobe_marker
        /\ Adobe_transform' = Adobe_transform
    BY TakeFacts DEF Inv, flags
  <1>2. \A k \in 1 .. Behind : k \in 1 .. Behind'
    BY <1>1
  <1>3. saw_JFIF_marker' => \E k \in 1 .. Behind' : WholeJFIF(source'.output[k])
    BY <1>1, <1>2 DEF Inv, FlagsKnown
  <1>4. saw_Adobe_marker' =>
              \E k \in 1 .. Behind' :
                  WholeAdobe(source'.output[k]) /\ Adobe_transform' = source'.output[k].value
    BY <1>1, <1>2 DEF Inv, FlagsKnown
  <1>. QED
    BY <1>3, <1>4 DEF FlagsKnown, WholeJFIF, WholeAdobe, IsJFIF, IsAdobe

(* The flags of the reader once seg is behind it.                          *)
LEMMA FlagsSeenStay ==
    ASSUME Inv, NEW seg \in Ahead, Take(seg),
           saw_JFIF_marker => saw_JFIF_marker', saw_Adobe_marker => saw_Adobe_marker',
           WholeJFIF(seg) => saw_JFIF_marker', WholeAdobe(seg) => saw_Adobe_marker',
           inheaders' => inheaders /\ seg.marker # "SOS"
    PROVE  FlagsSeen'
  <1>. SUFFICES ASSUME trip > 0 PROVE FlagsSeen'
    BY TakeFacts DEF FlagsSeen, Inv
  <1>1. /\ source' = source /\ Behind' = Behind + 1 /\ Behind \in Nat
        /\ seg = source.output[Behind + 1] /\ state = "reading"
    BY TakeFacts, AheadFacts DEF Inv
  <1>2. ASSUME NEW k \in 1 .. Behind'
        PROVE  /\ WholeJFIF(source'.output[k]) => saw_JFIF_marker'
               /\ WholeAdobe(source'.output[k]) => saw_Adobe_marker'
               /\ inheaders' => source'.output[k].marker # "SOS"
    <2>1. k \in 1 .. Behind \/ k = Behind + 1
      BY <1>1
    <2>2. CASE k = Behind + 1
      BY <1>1, <2>2
    <2>3. CASE k \in 1 .. Behind
      BY <1>1, <2>3 DEF Inv, FlagsSeen
    <2>. QED
      BY <2>1, <2>2, <2>3
  <1>. QED
    BY <1>2 DEF FlagsSeen, WholeJFIF, WholeAdobe, IsJFIF, IsAdobe

LEMMA SlotsStay ==
    ASSUME SlotsKnown, UNCHANGED <<quant_tbl_ptrs, source, trip>>
    PROVE  SlotsKnown'
  BY DEF SlotsKnown

LEMMA FrameStays ==
    ASSUME FrameKnown, UNCHANGED <<frame, source, trip>>
    PROVE  FrameKnown'
  BY DEF FrameKnown, frame

LEMMA SpacesStay ==
    ASSUME SpacesAgree, UNCHANGED <<inheaders, jpeg_color_space, source, trip>>
    PROVE  SpacesAgree'
  BY DEF SpacesAgree, LateJFIF, WholeJFIF, IsJFIF

LEMMA TablesStay ==
    ASSUME TablesAgree, UNCHANGED <<comp_info, quant_table, source, trip>>
    PROVE  TablesAgree'
  BY DEF TablesAgree

(* A segment that tells the reader nothing of what the invariant is about. *)
LEMMA ReaderSame ==
    ASSUME Inv, NEW seg \in Ahead, Take(seg),
           UNCHANGED <<flags, frame, scans, quant_tbl_ptrs, marker_list>>,
           state' \in {"reading", "read", "error"},
           state' = "reading" => seg.marker \notin AppMarkers \cup {"SOS"},
           state' = "read" => ~inheaders
    PROVE  Inv'
  <1>1. /\ UNCHANGED <<source, trip, next>> /\ UNCHANGED flags /\ UNCHANGED frame
        /\ UNCHANGED <<inheaders, jpeg_color_space, comp_info, quant_table, saw_SOF,
                        saw_JFIF_marker, saw_Adobe_marker, marker_list>>
    BY TakeFacts DEF Inv, flags, frame, scans
  <1>2. Finished' /\ Writable' /\ BeingWritten' /\ SourceWritten' /\ Suffix'
    BY <1>1, ReaderOnly
  <1>3. leading' # <<>> => leading'[1] \in Kept /\ leading'[1].marker = "APP1"
    BY AheadFacts, TakeFacts DEF Inv, Types, AppMarkers
  <1>4. Types'
    BY <1>1, <1>3 DEF Inv, Types, States
  <1>5. Guessed'
    BY <1>1 DEF Inv, Guessed
  <1>6. FlagsKnown'
    BY FlagsKnownStay
  <1>7. FlagsSeen'
    <2>1. CASE state' = "reading"
      BY <1>1, <2>1, FlagsSeenStay DEF WholeJFIF, WholeAdobe, IsJFIF, IsAdobe, AppMarkers
    <2>2. CASE state' # "reading"
      BY <2>2 DEF FlagsSeen
    <2>. QED
      BY <2>1, <2>2
  <1>8. FrameKnown' /\ SlotsKnown' /\ TablesAgree' /\ SpacesAgree'
    BY <1>1, FrameStays, SlotsStay, TablesStay, SpacesStay DEF Inv
  <1>. QED
    BY <1>2, <1>4, <1>5, <1>6, <1>7, <1>8 DEF Inv

LEMMA ReaderFails ==
    ASSUME Inv, NEW seg \in Ahead, Take(seg), Fails
    PROVE  Inv'
  BY ReaderSame DEF Fails, reader

-----------------------------------------------------------------------------
(* Reading, segment by segment.                                            *)

LEMMA SOIStep ==
    ASSUME Inv, NEW seg \in Ahead, GetSOI(seg)
    PROVE  Inv'
  <1>1. CASE place = "first" /\ seg.marker = "SOI"
    BY <1>1, ReaderSame DEF GetSOI, reader, AppMarkers, Take
  <1>2. CASE ~(place = "first" /\ seg.marker = "SOI")
    BY <1>2, ReaderFails DEF GetSOI
  <1>. QED
    BY <1>1, <1>2

LEMMA TablesStep ==
    ASSUME Inv, NEW seg \in Ahead, GetTables(seg)
    PROVE  Inv'
  <1>1. CASE seg.sound
    BY <1>1, ReaderSame DEF GetTables, reader, AppMarkers, Take
  <1>2. CASE ~seg.sound
    BY <1>2, ReaderFails DEF GetTables
  <1>. QED
    BY <1>1, <1>2

LEMMA SkipStep ==
    ASSUME Inv, NEW seg \in Ahead, SkipOrRefuse(seg)
    PROVE  Inv'
  <1>1. CASE seg.marker = "DNL" /\ UNCHANGED <<state, reader>>
    BY <1>1, ReaderSame DEF SkipOrRefuse, reader, AppMarkers, Take
  <1>2. CASE seg.marker = "garbage" /\ UNCHANGED <<state, flags, frame, scans, quant_tbl_ptrs, marker_list>>
    BY <1>2, ReaderSame DEF SkipOrRefuse, AppMarkers, Take
  <1>3. CASE Fails
    BY <1>3, ReaderFails DEF SkipOrRefuse
  <1>. QED
    BY <1>1, <1>2, <1>3 DEF SkipOrRefuse

LEMMA EOIStep ==
    ASSUME Inv, NEW seg \in Ahead, GetEOI(seg)
    PROVE  Inv'
  <1>1. CASE inheaders
    BY <1>1, ReaderFails DEF GetEOI
  <1>2. CASE ~inheaders
    BY <1>2, ReaderSame DEF GetEOI, reader
  <1>. QED
    BY <1>1, <1>2

LEMMA SOFStep ==
    ASSUME Inv, NEW seg \in Ahead, GetSOF(seg)
    PROVE  Inv'
  <1>0. Take(seg) /\ seg.marker = "SOF"
    BY DEF GetSOF
  <1>1. CASE saw_SOF /\ Fails
    BY <1>0, <1>1, ReaderFails
  <1>2. CASE ~saw_SOF /\ ~(saw_SOF /\ Fails)
    <2>1. /\ saw_SOF' = TRUE /\ comp_info' = seg.components
          /\ quant_table' = [c \in DOMAIN seg.components |-> None]
          /\ UNCHANGED <<state, flags, inheaders, jpeg_color_space, quant_tbl_ptrs, marker_list>>
      BY <1>2 DEF GetSOF
    <2>2. /\ state = "reading" /\ seg.components \in Seq(Component)
          /\ trip > 0 => seg.components = source.comp_info
          /\ UNCHANGED <<source, trip, next>>
      BY <1>0, AheadFacts, TakeFacts DEF Inv, Agrees
    <2>3. inheaders
      BY <1>2 DEF Inv, Guessed, Types
    <2>4. Finished' /\ Writable' /\ BeingWritten' /\ SourceWritten' /\ Suffix'
      BY <1>0, <2>1, <2>2, ReaderOnly
    <2>5. Types'
      <3>1. leading' # <<>> => leading'[1] \in Kept /\ leading'[1].marker = "APP1"
        BY <1>0, TakeFacts, AheadFacts DEF Inv, Types, AppMarkers
      <3>2. quant_table' \in [1 .. Len(comp_info') -> Tables \cup {None}]
        BY <2>1, <2>2
      <3>. QED
        BY <2>1, <2>2, <3>1, <3>2 DEF Inv, Types, flags
    <2>6. Guessed' /\ SpacesAgree'
      BY <2>1, <2>3 DEF Guessed, SpacesAgree
    <2>7. FlagsKnown'
      BY <1>0, <2>1, FlagsKnownStay
    <2>8. FlagsSeen'
      BY <1>0, <2>1, <2>3, FlagsSeenStay DEF flags, WholeJFIF, WholeAdobe, IsJFIF, IsAdobe
    <2>9. FrameKnown' /\ SlotsKnown'
      BY <2>1, <2>2, SlotsStay DEF Inv, FrameKnown
    <2>10. TablesAgree'
      BY <2>1, <2>2 DEF TablesAgree
    <2>. QED
      BY <2>4, <2>5, <2>6, <2>7, <2>8, <2>9, <2>10 DEF Inv
  <1>. QED
    BY <1>1, <1>2 DEF GetSOF

LEMMA DQTStep ==
    ASSUME Inv, NEW seg \in Ahead, GetDQT(seg)
    PROVE  Inv'
  <1>0. Take(seg) /\ seg.marker = "DQT"
    BY DEF GetDQT
  <1>1. CASE seg.slot \notin Slots
    BY <1>0, <1>1, ReaderFails DEF GetDQT
  <1>2. CASE seg.slot \in Slots
    <2>1. /\ quant_tbl_ptrs' = [quant_tbl_ptrs EXCEPT ![seg.slot] = seg.table]
          /\ UNCHANGED <<state, flags, frame, scans, marker_list>>
      BY <1>2 DEF GetDQT
    <2>2. /\ state = "reading" /\ seg.table \in Tables
          /\ trip > 0 => Agrees(seg, source.space, source.comp_info, source.quant_table, source.marker_list)
          /\ UNCHANGED <<source, trip, next>>
      BY <1>0, <1>2, AheadFacts, TakeFacts DEF Inv
    <2>3. UNCHANGED <<inheaders, jpeg_color_space, comp_info, quant_table, saw_SOF,
                      saw_JFIF_marker, saw_Adobe_marker>>
      BY <2>1 DEF flags, frame, scans
    <2>4. Finished' /\ Writable' /\ BeingWritten' /\ SourceWritten' /\ Suffix'
      BY <1>0, <2>1, <2>2, ReaderOnly
    <2>5. Types'
      <3>1. leading' # <<>> => leading'[1] \in Kept /\ leading'[1].marker = "APP1"
        BY <1>0, TakeFacts, AheadFacts DEF Inv, Types, AppMarkers
      <3>2. quant_tbl_ptrs' \in [Slots -> Tables \cup {None}]
        BY <1>2, <2>1, <2>2 DEF Inv, Types
      <3>. QED
        BY <2>1, <2>2, <2>3, <3>1, <3>2 DEF Inv, Types
    <2>6. Guessed'
      BY <2>3 DEF Inv, Guessed
    <2>7. FlagsKnown'
      BY <1>0, <2>1, FlagsKnownStay
    <2>8. FlagsSeen'
      BY <1>0, <2>3, FlagsSeenStay DEF WholeJFIF, WholeAdobe, IsJFIF, IsAdobe
    <2>9. FrameKnown' /\ TablesAgree' /\ SpacesAgree'
      BY <2>1, <2>2, <2>3, FrameStays, TablesStay, SpacesStay DEF Inv
    <2>10. SlotsKnown'
      <3>. SUFFICES ASSUME trip > 0, NEW n \in Slots, quant_tbl_ptrs'[n] # None,
                           NEW c \in 1 .. Len(source.comp_info),
                           source.comp_info[c].quant_tbl_no = n, source.quant_table[c] # None
                    PROVE  quant_tbl_ptrs'[n] = source.quant_table[c]
        BY <2>2 DEF SlotsKnown
      <3>1. CASE n = seg.slot
        BY <1>0, <1>2, <2>1, <2>2, <3>1 DEF Agrees, Inv, Types
      <3>2. CASE n # seg.slot
        BY <2>1, <3>2 DEF Inv, Types, SlotsKnown
      <3>. QED
        BY <3>1, <3>2
    <2>. QED
      BY <2>4, <2>5, <2>6, <2>7, <2>8, <2>9, <2>10 DEF Inv
  <1>. QED
    BY <1>1, <1>2

LEMMA SaveStep ==
    ASSUME Inv, NEW seg \in Ahead, SaveMarker(seg)
    PROVE  Inv'
  <1>0. Take(seg) /\ seg.marker \in AppMarkers
    BY DEF SaveMarker
  <1>1. /\ marker_list' = Append(marker_list, seg)
        /\ saw_JFIF_marker' = (saw_JFIF_marker \/ WholeJFIF(seg))
        /\ saw_Adobe_marker' = (saw_Adobe_marker \/ WholeAdobe(seg))
        /\ Adobe_transform' = IF WholeAdobe(seg) THEN seg.value ELSE Adobe_transform
        /\ UNCHANGED <<state, frame, scans, quant_tbl_ptrs>>
    BY DEF SaveMarker
  <1>2. /\ state = "reading" /\ seg \in Kept /\ UNCHANGED <<source, trip, next>>
        /\ trip > 0 => /\ seg = source.output[Behind + 1]
                       /\ Behind \in Nat /\ Behind' = Behind + 1
    BY <1>0, AheadFacts, TakeFacts DEF Inv
  <1>3. UNCHANGED <<inheaders, jpeg_color_space, comp_info, quant_table, saw_SOF>>
    BY <1>1 DEF frame, scans
  <1>4. Finished' /\ Writable' /\ BeingWritten' /\ SourceWritten' /\ Suffix'
    BY <1>0, <1>1, <1>2, ReaderOnly
  <1>5. Types'
    <2>1. leading' # <<>> => leading'[1] \in Kept /\ leading'[1].marker = "APP1"
      BY <1>0, TakeFacts, AheadFacts DEF Inv, Types, AppMarkers
    <2>2. marker_list' \in Seq(Kept)
      BY <1>1, <1>2 DEF Inv, Types
    <2>3. saw_JFIF_marker' \in BOOLEAN /\ saw_Adobe_marker' \in BOOLEAN
      BY <1>1 DEF WholeJFIF, WholeAdobe, Inv, Types
    <2>. QED
      BY <1>1, <1>2, <1>3, <2>1, <2>2, <2>3 DEF Inv, Types
  <1>6. Guessed'
    BY <1>3 DEF Inv, Guessed
  <1>7. FlagsKnown'
    <2>. SUFFICES ASSUME trip > 0 PROVE FlagsKnown'
      BY <1>2 DEF FlagsKnown, Inv, Types
    <2>1. saw_JFIF_marker' => \E k \in 1 .. Behind' : WholeJFIF(source.output[k])
      <3>1. CASE WholeJFIF(seg)
        BY <1>2, <3>1
      <3>2. CASE ~WholeJFIF(seg)
        <4>1. \A k \in 1 .. Behind : k \in 1 .. Behind'
          BY <1>2
        <4>. QED
          BY <1>1, <3>2, <4>1 DEF Inv, FlagsKnown
      <3>. QED
        BY <3>1, <3>2
    <2>2. saw_Adobe_marker' => \E k \in 1 .. Behind' :
              WholeAdobe(source.output[k]) /\ Adobe_transform' = source.output[k].value
      <3>1. CASE WholeAdobe(seg)
        BY <1>1, <1>2, <3>1
      <3>2. CASE ~WholeAdobe(seg)
        <4>1. \A k \in 1 .. Behind : k \in 1 .. Behind'
          BY <1>2
        <4>. QED
          BY <1>1, <3>2, <4>1 DEF Inv, FlagsKnown
      <3>. QED
        BY <3>1, <3>2
    <2>. QED
      BY <1>2, <2>1, <2>2 DEF FlagsKnown, WholeJFIF, WholeAdobe, IsJFIF, IsAdobe
  <1>8. FlagsSeen'
    BY <1>0, <1>1, <1>3, FlagsSeenStay DEF AppMarkers
  <1>9. FrameKnown' /\ SlotsKnown' /\ TablesAgree' /\ SpacesAgree'
    BY <1>1, <1>2, <1>3, FrameStays, SlotsStay, TablesStay, SpacesStay DEF Inv
  <1>. QED
    BY <1>4, <1>5, <1>6, <1>7, <1>8, <1>9 DEF Inv

LEMMA EndOfFileStep ==
    ASSUME Inv, EndOfFile
    PROVE  Inv'
  <1>1. /\ state = "reading" /\ state' = IF inheaders THEN "error" ELSE "read"
        /\ UNCHANGED <<source, trip, next, input, leading, inheaders, jpeg_color_space, comp_info,
                       quant_table, saw_SOF, saw_JFIF_marker, saw_Adobe_marker, Adobe_transform,
                       marker_list, quant_tbl_ptrs>>
    BY DEF EndOfFile, call, flags, frame, scans
  <1>2. Types' /\ Guessed' /\ Finished' /\ Writable' /\ BeingWritten' /\ SourceWritten' /\ FlagsSeen'
    BY <1>1 DEF Inv, Types, States, Guessed, Finished, Writable, BeingWritten, SourceWritten, FlagsSeen
  <1>3. Suffix' /\ FlagsKnown'
    BY <1>1 DEF Inv, Suffix, FlagsKnown, Behind, WholeJFIF, WholeAdobe, IsJFIF, IsAdobe
  <1>4. FrameKnown' /\ SlotsKnown' /\ TablesAgree' /\ SpacesAgree'
    BY <1>1, SlotsStay, TablesStay, SpacesStay DEF Inv, FrameKnown
  <1>. QED
    BY <1>2, <1>3, <1>4 DEF Inv

-----------------------------------------------------------------------------
(* The first SOS: default_decompress_parms.                                *)

LEMMA GuessFits ==
    ASSUME Inv
    PROVE  SpaceFits(GuessedSpace, Len(comp_info))
  <1>1. Len(comp_info) \in Nat
    BY DEF Inv, Types
  <1>. QED
    BY <1>1 DEF SpaceFits, GuessedSpace

(* The reader has met the segment the writer put in front of the scans.    *)
LEMMA SegmentMet ==
    ASSUME Inv, trip > 0, inheaders, NEW seg \in Ahead, seg.marker = "SOS"
    PROVE  /\ source.space = "YCbCr" => saw_JFIF_marker
           /\ source.space \in {"RGB", "CMYK", "YCCK"} =>
                 /\ saw_Adobe_marker
                 /\ Adobe_transform = IF source.space = "YCCK" THEN 2 ELSE 0
           /\ source.space = "RGB" /\ ~LateJFIF => ~saw_JFIF_marker
  <1>1. /\ state = "reading" /\ seg = source.output[Behind + 1]
        /\ Behind \in Nat /\ Len(source.output) \in Nat
        /\ Behind + 1 \in 1 .. Len(source.output)
        /\ Written(source.output, source.space, source.comp_info, source.quant_table,
                   source.marker_list)
    BY AheadFacts DEF Inv, Suffix, SourceWritten, Written, IsSequence
  <1>2. ASSUME NEW k \in 1 .. Len(source.output), BeforeScans(source.output, k)
        PROVE  k \in 1 .. Behind
    <2>1. CASE k > Behind
      <3>1. Behind + 1 \in 1 .. k
        BY <1>1, <2>1
      <3>. QED
        BY <1>1, <1>2, <3>1 DEF BeforeScans
    <2>2. CASE k <= Behind
      BY <1>1, <2>2
    <2>. QED
      BY <1>1, <2>1, <2>2
  <1>3. source.space = "YCbCr" => saw_JFIF_marker
    BY <1>1, <1>2 DEF Written, Inv, FlagsSeen
  <1>4. source.space \in {"RGB", "CMYK", "YCCK"} => saw_Adobe_marker
    BY <1>1, <1>2 DEF Written, Inv, FlagsSeen
  <1>5. \A k \in 1 .. Behind : k \in 1 .. Len(source.output)
    BY <1>1
  <1>6. ASSUME source.space \in {"RGB", "CMYK", "YCCK"}
        PROVE  Adobe_transform = IF source.space = "YCCK" THEN 2 ELSE 0
    <2>1. PICK k \in 1 .. Behind :
              WholeAdobe(source.output[k]) /\ Adobe_transform = source.output[k].value
      BY <1>4, <1>6 DEF Inv, FlagsKnown
    <2>2. source.output[k].value = AdobeOf(source.space).value
      BY <1>1, <1>5, <1>6, <2>1 DEF Written, Agrees
    <2>. QED
      BY <2>1, <2>2 DEF AdobeOf
  <1>7. ASSUME source.space = "RGB", ~LateJFIF
        PROVE  ~saw_JFIF_marker
    <2>. SUFFICES ASSUME saw_JFIF_marker PROVE FALSE
      OBVIOUS
    <2>1. PICK k \in 1 .. Behind : WholeJFIF(source.output[k])
      BY DEF Inv, FlagsKnown
    <2>2. HasJFIF(source.marker_list)
      BY <1>1, <1>5, <1>7, <2>1 DEF Written, Agrees
    <2>3. source.marker_list \in Seq(Kept)
      BY DEF Inv, SourceWritten
    <2>. QED
      BY <1>7, <2>2, <2>3 DEF HasJFIF, LateJFIF
  <1>. QED
    BY <1>3, <1>4, <1>6, <1>7

LEMMA GuessIsRight ==
    ASSUME Inv, trip > 0, inheaders, saw_SOF, ~LateJFIF, NEW seg \in Ahead, seg.marker = "SOS"
    PROVE  GuessedSpace = source.space
  <1>1. comp_info = source.comp_info /\ SpaceFits(source.space, Len(comp_info)) /\ Len(comp_info) \in Nat
    BY DEF Inv, FrameKnown, SourceWritten, Types
  <1>2. /\ source.space = "YCbCr" => saw_JFIF_marker
        /\ source.space \in {"RGB", "CMYK", "YCCK"} =>
                 /\ saw_Adobe_marker
                 /\ Adobe_transform = IF source.space = "YCCK" THEN 2 ELSE 0
        /\ source.space = "RGB" => ~saw_JFIF_marker
    BY SegmentMet
  <1>3. CASE Len(comp_info) = 1
    BY <1>1, <1>3 DEF SpaceFits, GuessedSpace
  <1>4. CASE Len(comp_info) = 3
    BY <1>1, <1>2, <1>4 DEF SpaceFits, GuessedSpace
  <1>5. CASE Len(comp_info) = 4
    BY <1>1, <1>2, <1>5 DEF SpaceFits, GuessedSpace
  <1>6. CASE Len(comp_info) \notin {1, 3, 4}
    BY <1>1, <1>6 DEF SpaceFits, GuessedSpace
  <1>. QED
    BY <1>3, <1>4, <1>5, <1>6

LEMMA SOSStep ==
    ASSUME Inv, NEW seg \in Ahead, GetSOS(seg)
    PROVE  Inv'
  <1>0. Take(seg) /\ seg.marker = "SOS"
    BY DEF GetSOS
  <1>1. CASE ~ScanStarts(seg)
    BY <1>0, <1>1, ReaderFails DEF GetSOS
  <1>2. CASE ScanStarts(seg)
    <2> DEFINE selected == {InScan(seg.ids, i) : i \in DOMAIN seg.ids}
    <2>1. /\ inheaders' = FALSE
          /\ jpeg_color_space' = IF inheaders THEN GuessedSpace ELSE jpeg_color_space
          /\ quant_table' = [c \in DOMAIN comp_info |->
                      IF c \in selected THEN Latched(c) ELSE quant_table[c]]
          /\ UNCHANGED <<state, flags, frame, quant_tbl_ptrs, marker_list>>
      BY <1>2 DEF GetSOS
    <2>2. saw_SOF /\ \A c \in selected : Latchable(c)
      BY <1>2 DEF ScanStarts
    <2>. HIDE DEF selected
    <2>3. state = "reading" /\ UNCHANGED <<source, trip, next>>
      BY <1>0, AheadFacts, TakeFacts DEF Inv
    <2>4. UNCHANGED <<comp_info, saw_SOF, saw_JFIF_marker, saw_Adobe_marker>>
      BY <2>1 DEF flags, frame
    <2>5. DOMAIN comp_info = 1 .. Len(comp_info)
      BY DEF Inv, Types
    <2>6. Finished' /\ Writable' /\ BeingWritten' /\ SourceWritten' /\ Suffix'
      BY <1>0, <2>1, <2>3, ReaderOnly
    <2>7. Types'
      <3>1. leading' # <<>> => leading'[1] \in Kept /\ leading'[1].marker = "APP1"
        BY <1>0, TakeFacts, AheadFacts DEF Inv, Types, AppMarkers
      <3>2. \A c \in 1 .. Len(comp_info) : quant_table[c] \in Tables \cup {None}
        BY DEF Inv, Types
      <3>3. \A c \in selected \cap 1 .. Len(comp_info) : Latched(c) \in Tables \cup {None}
        BY <2>2, <3>2 DEF Latchable, Latched, Inv, Types
      <3>4. quant_table' \in [1 .. Len(comp_info') -> Tables \cup {None}]
        BY <2>1, <2>4, <2>5, <3>2, <3>3
      <3>. QED
        BY <2>1, <2>3, <2>4, <3>1, <3>4 DEF Inv, Types
    <2>8. Guessed'
      BY <2>1, <2>2, <2>4, GuessFits DEF Inv, Guessed
    <2>9. FlagsKnown' /\ FlagsSeen'
      BY <1>0, <2>1, <2>4, FlagsKnownStay, FlagsSeenStay DEF WholeJFIF, WholeAdobe, IsJFIF, IsAdobe,
         Inv, FlagsSeen, AppMarkers
    <2>10. FrameKnown' /\ SlotsKnown'
      BY <2>1, <2>3, FrameStays, SlotsStay DEF Inv
    <2>11. TablesAgree'
      <3>. SUFFICES ASSUME trip > 0, NEW c \in 1 .. Len(comp_info), quant_table'[c] # None,
                           source.quant_table[c] # None
                    PROVE  quant_table'[c] = source.quant_table[c]
        BY <2>3, <2>4 DEF TablesAgree
      <3>1. quant_table'[c] = IF c \in selected THEN Latched(c) ELSE quant_table[c]
        BY <2>1, <2>5
      <3>2. CASE quant_table[c] # None
        BY <3>1, <3>2 DEF Latched, Inv, TablesAgree
      <3>3. CASE quant_table[c] = None
        <4>1. c \in selected /\ Latched(c) = quant_tbl_ptrs[comp_info[c].quant_tbl_no]
          BY <3>1, <3>3 DEF Latched
        <4>2. comp_info[c].quant_tbl_no \in Slots /\ quant_tbl_ptrs[comp_info[c].quant_tbl_no] # None
          BY <2>2, <3>3, <4>1 DEF Latchable
        <4>3. comp_info = source.comp_info
          BY <2>2 DEF Inv, FrameKnown
        <4>. QED
          BY <3>1, <4>1, <4>2, <4>3 DEF Inv, SlotsKnown
      <3>. QED
        BY <3>2, <3>3
    <2>12. SpacesAgree'
      <3>. SUFFICES ASSUME trip > 0, ~LateJFIF PROVE jpeg_color_space' = source.space
        BY <2>3 DEF SpacesAgree, LateJFIF, WholeJFIF, IsJFIF
      <3>1. CASE inheaders
        BY <1>0, <2>1, <2>2, <3>1, GuessIsRight
      <3>2. CASE ~inheaders
        BY <2>1, <3>2 DEF Inv, SpacesAgree
      <3>. QED
        BY <3>1, <3>2
    <2>. QED
      BY <2>6, <2>7, <2>8, <2>9, <2>10, <2>11, <2>12 DEF Inv
  <1>. QED
    BY <1>1, <1>2

-----------------------------------------------------------------------------
(* Writing.                                                                *)

LEMMA WrittenOn ==
    ASSUME NEW o, NEW e, NEW space, NEW comps, NEW tables, NEW markers,
           Written(o, space, comps, tables, markers), Agrees(e, space, comps, tables, markers)
    PROVE  Written(Append(o, e), space, comps, tables, markers)
  <1> DEFINE a == Append(o, e)
  <1>1. /\ IsSequence(a) /\ Len(o) \in Nat /\ Len(a) = Len(o) + 1
        /\ \A k \in 1 .. Len(o) : a[k] = o[k]
        /\ a[Len(o) + 1] = e
    BY Appended DEF Written
  <1>2. Len(o) # 0
    <2>1. PICK S : o \in Seq(S)
      BY DEF Written, IsSequence
    <2>. QED
      BY <2>1 DEF Written
  <1>. HIDE DEF a
  <1>3. a # <<>>
    BY <1>1
  <1>4. \A k \in 1 .. Len(a) : Agrees(a[k], space, comps, tables, markers)
    <2>. SUFFICES ASSUME NEW k \in 1 .. Len(a) PROVE Agrees(a[k], space, comps, tables, markers)
      OBVIOUS
    <2>1. k \in 1 .. Len(o) \/ k = Len(o) + 1
      BY <1>1
    <2>. QED
      BY <1>1, <2>1 DEF Written
  <1>5. 1 \in 1 .. Len(o) /\ a[1].marker # "SOS"
    BY <1>1, <1>2 DEF Written
  <1>6. ASSUME NEW k \in 1 .. Len(o), BeforeScans(o, k)
        PROVE  k \in 1 .. Len(a) /\ a[k] = o[k] /\ BeforeScans(a, k)
    <2>1. k \in 1 .. Len(a) /\ \A m \in 1 .. k : m \in 1 .. Len(o)
      BY <1>1
    <2>. QED
      BY <1>1, <1>6, <2>1 DEF BeforeScans
  <1>7. space = "YCbCr" => \E k \in 1 .. Len(a) : WholeJFIF(a[k]) /\ BeforeScans(a, k)
    BY <1>6 DEF Written
  <1>8. space \in {"RGB", "CMYK", "YCCK"} =>
            \E k \in 1 .. Len(a) : WholeAdobe(a[k]) /\ BeforeScans(a, k)
    BY <1>6 DEF Written
  <1>9. Written(a, space, comps, tables, markers)
    BY <1>1, <1>3, <1>4, <1>5, <1>7, <1>8 DEF Written
  <1>. QED
    BY <1>9 DEF a

LEMMA WrittenWithExif ==
    ASSUME NEW o, NEW e, NEW space, NEW comps, NEW tables, NEW markers,
           Written(o, space, comps, tables, markers), Agrees(e, space, comps, tables, markers),
           e.marker # "SOS"
    PROVE  Written(<<o[1], e>> \o Tail(o), space, comps, tables, markers)
  <1> DEFINE a == <<o[1], e>> \o Tail(o)
  <1>1. /\ IsSequence(a) /\ Len(a) = Len(o) + 1 /\ a[1] = o[1] /\ a[2] = e
        /\ \A k \in 2 .. Len(o) : a[k + 1] = o[k]
    BY PutInFront DEF Written
  <1>2. Len(o) \in Nat \ {0} /\ 1 \in 1 .. Len(o)
    <2>1. PICK S : o \in Seq(S)
      BY DEF Written, IsSequence
    <2>. QED
      BY <2>1 DEF Written
  <1>. HIDE DEF a
  <1>3. a # <<>>
    BY <1>1, <1>2
  <1>4. \A k \in 1 .. Len(a) : Agrees(a[k], space, comps, tables, markers)
    <2>. SUFFICES ASSUME NEW k \in 1 .. Len(a) PROVE Agrees(a[k], space, comps, tables, markers)
      OBVIOUS
    <2>1. k = 1 \/ k = 2 \/ (k - 1 \in 2 .. Len(o) /\ (k - 1) + 1 = k)
      BY <1>1, <1>2
    <2>2. CASE k - 1 \in 2 .. Len(o) /\ (k - 1) + 1 = k
      <3>1. a[k] = o[k - 1] /\ k - 1 \in 1 .. Len(o)
        BY <1>1, <1>2, <2>2
      <3>. QED
        BY <3>1 DEF Written
    <2>. QED
      BY <1>1, <1>2, <2>1, <2>2 DEF Written
  <1>5. a[1].marker # "SOS"
    BY <1>1 DEF Written
  <1>6. ASSUME NEW k \in 1 .. Len(o), BeforeScans(o, k)
        PROVE  \E j \in 1 .. Len(a) : a[j] = o[k] /\ BeforeScans(a, j)
    <2>1. CASE k = 1
      <3>1. 1 \in 1 .. Len(a) /\ \A m \in 1 .. 1 : m = 1
        BY <1>1, <1>2
      <3>. QED
        BY <1>1, <1>5, <2>1, <3>1 DEF BeforeScans
    <2>2. CASE k # 1
      <3>1. k \in 2 .. Len(o) /\ k + 1 \in 1 .. Len(a)
        BY <1>1, <1>2, <2>2
      <3>2. ASSUME NEW m \in 1 .. k + 1 PROVE a[m].marker # "SOS"
        <4>1. m = 1 \/ m = 2 \/ (m - 1 \in 2 .. Len(o) /\ m - 1 \in 1 .. k /\ (m - 1) + 1 = m)
          BY <1>2, <3>1
        <4>2. CASE m - 1 \in 2 .. Len(o) /\ m - 1 \in 1 .. k /\ (m - 1) + 1 = m
          <5>1. a[m] = o[m - 1]
            BY <1>1, <4>2
          <5>. QED
            BY <1>6, <4>2, <5>1 DEF BeforeScans
        <4>. QED
          BY <1>1, <1>5, <4>1, <4>2
      <3>. QED
        BY <1>1, <3>1, <3>2 DEF BeforeScans
    <2>. QED
      BY <2>1, <2>2
  <1>7. space = "YCbCr" => \E k \in 1 .. Len(a) : WholeJFIF(a[k]) /\ BeforeScans(a, k)
    BY <1>6 DEF Written
  <1>8. space \in {"RGB", "CMYK", "YCCK"} =>
            \E k \in 1 .. Len(a) : WholeAdobe(a[k]) /\ BeforeScans(a, k)
    BY <1>6 DEF Written
  <1>9. Written(a, space, comps, tables, markers)
    BY <1>1, <1>3, <1>4, <1>5, <1>7, <1>8 DEF Written
  <1>. QED
    BY <1>9 DEF a

(* A step of the writer leaves what was read alone.                        *)
LEMMA WriterOnly ==
    ASSUME Inv, UNCHANGED <<reader, trip, source, input, leading>>,
           state \in States \ {"reading", "error"}, state' \in States \ {"reading", "read"},
           next' \in Nat \ {0}, Writable', BeingWritten'
    PROVE  Inv'
  <1>1. UNCHANGED <<saw_SOF, inheaders, saw_JFIF_marker, saw_Adobe_marker, Adobe_transform,
                    quant_tbl_ptrs, comp_info, quant_table, marker_list, jpeg_color_space>>
    BY DEF reader, flags, frame, scans
  <1>2. Types' /\ Guessed' /\ Finished' /\ SourceWritten' /\ FlagsSeen'
    BY <1>1 DEF Inv, Types, States, Guessed, Finished, SourceWritten, FlagsSeen
  <1>3. Suffix' /\ FlagsKnown'
    BY <1>1 DEF Inv, Suffix, FlagsKnown, Behind, WholeJFIF, WholeAdobe, IsJFIF, IsAdobe
  <1>4. FrameKnown' /\ SlotsKnown' /\ TablesAgree' /\ SpacesAgree'
    BY <1>1, SlotsStay, TablesStay, SpacesStay DEF Inv, FrameKnown
  <1>. QED
    BY <1>2, <1>3, <1>4 DEF Inv

(* The file grows by a segment that agrees with the picture.               *)
LEMMA WriterAppends ==
    ASSUME Inv, UNCHANGED <<reader, trip, source, input, leading>>,
           state \in {"started", "framing", "scanning"},
           state' \in {"started", "framing", "scanning", "written"},
           next' \in Nat \ {0}, NEW e,
           Agrees(e, jpeg_color_space, comp_info, quant_table, marker_list),
           output' \in {output, Append(output, e)}
    PROVE  Inv'
  <1>1. UNCHANGED <<quant_tbl_ptrs, comp_info, quant_table, marker_list, jpeg_color_space>>
    BY DEF reader, frame, scans
  <1>2. Written(output, jpeg_color_space, comp_info, quant_table, marker_list)
    BY DEF Inv, BeingWritten
  <1>3. Written(output', jpeg_color_space, comp_info, quant_table, marker_list)
    BY <1>2, WrittenOn
  <1>4. BeingWritten'
    BY <1>1, <1>3 DEF BeingWritten
  <1>5. Writable'
    BY <1>1 DEF Inv, Writable, Copyable
  <1>. QED
    BY <1>4, <1>5, WriterOnly DEF States

LEMMA CopyParametersStep ==
    ASSUME Inv, CopyCriticalParameters
    PROVE  Inv'
  <1>1. /\ UNCHANGED <<reader, trip, source, input, leading, next>>
        /\ state = "read"
        /\ state' = IF \A c \in DOMAIN comp_info : Copyable(c) THEN "copied" ELSE "error"
    BY DEF CopyCriticalParameters
  <1>2. UNCHANGED <<quant_tbl_ptrs, comp_info, quant_table>> /\ DOMAIN comp_info = 1 .. Len(comp_info)
    BY <1>1 DEF reader, frame, scans, Inv, Types
  <1>3. Writable'
    BY <1>1, <1>2 DEF Writable, Copyable
  <1>4. BeingWritten'
    BY <1>1 DEF BeingWritten
  <1>5. next' \in Nat \ {0}
    BY <1>1 DEF Inv, Types
  <1>. QED
    BY <1>1, <1>3, <1>4, <1>5, WriterOnly DEF States

LEMMA WriteCoefficientsStep ==
    ASSUME Inv, WriteCoefficients
    PROVE  Inv'
  <1>1. /\ UNCHANGED <<reader, trip, source, input, leading>>
        /\ state = "copied" /\ state' = "started" /\ next' = 1
        /\ output' = IF write_JFIF_header THEN <<SOI, JFIF>>
                     ELSE IF write_Adobe_marker THEN <<SOI, AdobeOf(jpeg_color_space)>>
                     ELSE <<SOI>>
    BY DEF WriteCoefficients
  <1>2. UNCHANGED <<quant_tbl_ptrs, comp_info, quant_table, marker_list, jpeg_color_space>>
    BY <1>1 DEF reader, frame, scans
  <1>3. Writable'
    BY <1>1, <1>2 DEF Inv, Writable, Copyable
  <1>4. ASSUME NEW e, e.marker = "APP0" \/ e.marker = "APP14"
        PROVE  /\ IsSequence(<<SOI, e>>) /\ <<SOI, e>> # <<>> /\ Len(<<SOI, e>>) = 2
               /\ BeforeScans(<<SOI, e>>, 2) /\ <<SOI, e>>[1] = SOI /\ <<SOI, e>>[2] = e
    <2>1. <<SOI, e>> \in Seq({SOI, e})
      OBVIOUS
    <2>2. \A m \in 1 .. 2 : m = 1 \/ m = 2
      OBVIOUS
    <2>3. IsSequence(<<SOI, e>>)
      BY <2>1 DEF IsSequence
    <2>4. Len(<<SOI, e>>) = 2 /\ <<SOI, e>> # <<>> /\ <<SOI, e>>[1] = SOI /\ <<SOI, e>>[2] = e
      OBVIOUS
    <2>5. BeforeScans(<<SOI, e>>, 2)
      BY <1>4, <2>2, <2>4 DEF BeforeScans, SOI
    <2>. QED
      BY <2>3, <2>4, <2>5
  <1>5. \A k \in 1 .. 2 : k = 1 \/ k = 2
    OBVIOUS
  <1>6. Agrees(SOI, jpeg_color_space, comp_info, quant_table, marker_list)
    BY DEF Agrees, SOI, AppMarkers, WholeJFIF, IsJFIF, WholeAdobe, IsAdobe
  <1>7. CASE write_JFIF_header
    <2>1. output' = <<SOI, JFIF>> /\ JFIF.marker = "APP0"
      BY <1>1, <1>7 DEF JFIF
    <2>2. WholeJFIF(JFIF) /\ ~WholeAdobe(JFIF)
      BY DEF JFIF, WholeJFIF, IsJFIF, WholeAdobe, IsAdobe
    <2>3. Agrees(JFIF, jpeg_color_space, comp_info, quant_table, marker_list)
      BY <1>7, <2>1, <2>2 DEF Agrees, Kept, write_JFIF_header
    <2>4. 2 \in 1 .. Len(output') /\ output'[2] = JFIF /\ BeforeScans(output', 2)
      BY <1>4, <2>1
    <2>5. Written(output', jpeg_color_space, comp_info, quant_table, marker_list)
      BY <1>4, <1>5, <1>6, <1>7, <2>1, <2>2, <2>3, <2>4 DEF Written, write_JFIF_header, SOI
    <2>6. BeingWritten'
      BY <1>2, <2>5 DEF BeingWritten
    <2>. QED
      BY <1>1, <1>3, <2>6, WriterOnly DEF States
  <1>8. CASE ~write_JFIF_header /\ write_Adobe_marker
    <2> DEFINE A == AdobeOf(jpeg_color_space)
    <2>1. output' = <<SOI, A>> /\ A.marker = "APP14"
      BY <1>1, <1>8 DEF AdobeOf
    <2>2. WholeAdobe(A) /\ ~WholeJFIF(A)
      BY DEF AdobeOf, WholeJFIF, IsJFIF, WholeAdobe, IsAdobe
    <2>3. A \in Kept
      BY <1>8 DEF Kept, AdobeOf, write_Adobe_marker
    <2>4. Agrees(A, jpeg_color_space, comp_info, quant_table, marker_list)
      BY <2>1, <2>2, <2>3 DEF Agrees
    <2>5. 2 \in 1 .. Len(output') /\ output'[2] = A /\ BeforeScans(output', 2)
      BY <1>4, <2>1
    <2>. HIDE DEF A
    <2>6. Written(output', jpeg_color_space, comp_info, quant_table, marker_list)
      BY <1>4, <1>5, <1>6, <1>8, <2>1, <2>2, <2>4, <2>5 DEF Written, write_Adobe_marker, SOI
    <2>7. BeingWritten'
      BY <1>2, <2>6 DEF BeingWritten
    <2>. QED
      BY <1>1, <1>3, <2>7, WriterOnly DEF States
  <1>9. CASE ~write_JFIF_header /\ ~write_Adobe_marker
    <2>1. output' = <<SOI>> /\ jpeg_color_space \notin {"YCbCr", "RGB", "CMYK", "YCCK"}
      BY <1>1, <1>9 DEF write_JFIF_header, write_Adobe_marker
    <2>2. <<SOI>> \in Seq({SOI}) /\ Len(<<SOI>>) = 1 /\ <<SOI>>[1] = SOI /\ <<SOI>> # <<>>
      OBVIOUS
    <2>3. IsSequence(output')
      BY <2>1, <2>2 DEF IsSequence
    <2>4. Written(output', jpeg_color_space, comp_info, quant_table, marker_list)
      BY <1>6, <2>1, <2>2, <2>3 DEF Written, SOI
    <2>5. BeingWritten'
      BY <1>2, <2>4 DEF BeingWritten
    <2>. QED
      BY <1>1, <1>3, <2>5, WriterOnly DEF States
  <1>. QED
    BY <1>7, <1>8, <1>9

LEMMA CopyMarkerStep ==
    ASSUME Inv, CopyMarker
    PROVE  Inv'
  <1> DEFINE e == marker_list[next]
  <1>1. /\ UNCHANGED <<reader, state, trip, source, input, leading>>
        /\ state = "started" /\ next <= Len(marker_list) /\ next' = next + 1
        /\ output' = IF Own(e) THEN output ELSE Append(output, e)
    BY DEF CopyMarker
  <1>2. next \in 1 .. Len(marker_list) /\ next' \in Nat \ {0} /\ e \in Kept
    BY <1>1 DEF Inv, Types
  <1>3. e.marker \in AppMarkers
    BY <1>2, SegmentsAssumption DEF Kept, JFIF, AdobeOf, AppMarkers
  <1>4. CASE Own(e)
    <2>1. Agrees(SOI, jpeg_color_space, comp_info, quant_table, marker_list)
      BY DEF Agrees, SOI, AppMarkers, WholeJFIF, IsJFIF, WholeAdobe, IsAdobe
    <2>. QED
      BY <1>1, <1>2, <1>4, <2>1, WriterAppends
  <1>5. CASE ~Own(e)
    <2>1. WholeJFIF(e) => HasJFIF(marker_list)
      BY <1>2 DEF HasJFIF
    <2>2. WholeAdobe(e) => jpeg_color_space \notin {"RGB", "CMYK", "YCCK"}
      BY <1>5 DEF Own, WholeAdobe, write_Adobe_marker
    <2>3. Agrees(e, jpeg_color_space, comp_info, quant_table, marker_list)
      BY <1>2, <1>3, <2>1, <2>2 DEF Agrees, AppMarkers
    <2>. HIDE DEF e
    <2>. QED
      BY <1>1, <1>2, <1>5, <2>3, WriterAppends
  <1>. QED
    BY <1>4, <1>5

LEMMA FinishStep ==
    ASSUME Inv, FinishCompress
    PROVE  Inv'
  <1>1. /\ UNCHANGED <<reader, trip, source, input, leading, output>>
        /\ state = "started" /\ state' \in {"framing", "error"} /\ next' = 1
    BY DEF FinishCompress
  <1>2. UNCHANGED <<quant_tbl_ptrs, comp_info, quant_table, marker_list, jpeg_color_space>>
    BY <1>1 DEF reader, frame, scans
  <1>3. Writable' /\ BeingWritten'
    BY <1>1, <1>2 DEF Inv, Writable, Copyable, BeingWritten
  <1>. QED
    BY <1>1, <1>3, WriterOnly DEF States

LEMMA EmitDQTStep ==
    ASSUME Inv, EmitDQT
    PROVE  Inv'
  <1>1. /\ UNCHANGED <<reader, state, trip, source, input, leading>>
        /\ state = "framing" /\ next <= Len(comp_info) /\ next' = next + 1
        /\ output' \in {output, Append(output, DQT(next))}
    BY DEF EmitDQT
  <1>2. next \in 1 .. Len(comp_info) /\ next' \in Nat \ {0}
    BY <1>1 DEF Inv, Types
  <1>3. \A c \in 1 .. Len(comp_info) : Copyable(c)
    BY <1>1 DEF Inv, Writable
  <1>4. DQT(next).marker = "DQT" /\ DQT(next).slot = comp_info[next].quant_tbl_no
        /\ DQT(next).table = quant_tbl_ptrs[comp_info[next].quant_tbl_no]
    BY DEF DQT
  <1>5. DQT(next).slot \in Slots /\ DQT(next).table \in Tables
    BY <1>2, <1>3, <1>4 DEF Copyable, Inv, Types
  <1>6. ASSUME NEW c \in 1 .. Len(comp_info), comp_info[c].quant_tbl_no = DQT(next).slot,
               quant_table[c] # None
        PROVE  DQT(next).table = quant_table[c]
    BY <1>3, <1>4, <1>6 DEF Copyable
  <1>7. Agrees(DQT(next), jpeg_color_space, comp_info, quant_table, marker_list)
    BY <1>4, <1>5, <1>6 DEF Agrees, AppMarkers, WholeJFIF, IsJFIF, WholeAdobe, IsAdobe
  <1>. QED
    BY <1>1, <1>2, <1>7, WriterAppends

LEMMA EmitSOFStep ==
    ASSUME Inv, EmitSOF
    PROVE  Inv'
  <1>1. Agrees(SOF, jpeg_color_space, comp_info, quant_table, marker_list)
    BY DEF SOF, Agrees, AppMarkers, WholeJFIF, IsJFIF, WholeAdobe, IsAdobe
  <1>. QED
    BY <1>1, WriterAppends DEF EmitSOF

LEMMA EmitScanStep ==
    ASSUME Inv, EmitScan
    PROVE  Inv'
  <1>1. SOSOf(next).marker = "SOS"
    BY DEF SOSOf, ScanHeader
  <1>2. Agrees(SOSOf(next), jpeg_color_space, comp_info, quant_table, marker_list)
    BY <1>1 DEF Agrees, AppMarkers, WholeJFIF, IsJFIF, WholeAdobe, IsAdobe
  <1>3. /\ UNCHANGED <<reader, state, trip, source, input, leading>>
        /\ state = "scanning" /\ next' = next + 1 /\ output' = Append(output, SOSOf(next))
    BY DEF EmitScan
  <1>4. next' \in Nat \ {0}
    BY <1>3 DEF Inv, Types
  <1>. QED
    BY <1>2, <1>3, <1>4, WriterAppends

LEMMA EmitEOIStep ==
    ASSUME Inv, EmitEOI
    PROVE  Inv'
  <1> DEFINE e == [marker |-> "EOI"]
  <1>1. Agrees(e, jpeg_color_space, comp_info, quant_table, marker_list)
    BY DEF Agrees, AppMarkers, WholeJFIF, IsJFIF, WholeAdobe, IsAdobe
  <1>2. /\ UNCHANGED <<reader, trip, source, input, leading, next>>
        /\ state = "scanning" /\ state' = "written" /\ output' = Append(output, e)
    BY DEF EmitEOI
  <1>3. next' \in Nat \ {0}
    BY <1>2 DEF Inv, Types
  <1>. HIDE DEF e
  <1>. QED
    BY <1>1, <1>2, <1>3, WriterAppends

LEMMA MergeStep ==
    ASSUME Inv, Merge
    PROVE  Inv'
  <1>1. /\ UNCHANGED <<reader, next, state, trip, source, input, leading>>
        /\ state = "written" /\ leading # <<>>
        /\ output' = <<output[1], leading[1]>> \o Tail(output)
    BY DEF Merge
  <1>2. UNCHANGED <<quant_tbl_ptrs, comp_info, quant_table, marker_list, jpeg_color_space>>
    BY <1>1 DEF reader, frame, scans
  <1>3. leading[1] \in Kept /\ leading[1].marker = "APP1" /\ next' \in Nat \ {0}
    BY <1>1 DEF Inv, Types
  <1>4. Agrees(leading[1], jpeg_color_space, comp_info, quant_table, marker_list)
    BY <1>3 DEF Agrees, AppMarkers, WholeJFIF, IsJFIF, WholeAdobe, IsAdobe
  <1>5. Written(output, jpeg_color_space, comp_info, quant_table, marker_list)
    BY <1>1 DEF Inv, BeingWritten
  <1>6. Written(output', jpeg_color_space, comp_info, quant_table, marker_list)
    BY <1>1, <1>3, <1>4, <1>5, WrittenWithExif
  <1>7. BeingWritten' /\ Writable'
    BY <1>1, <1>2, <1>6 DEF BeingWritten, Writable, Copyable, Inv
  <1>. QED
    BY <1>1, <1>3, <1>7, WriterOnly DEF States

LEMMA NoTables == \A S, n : n = 0 => <<>> \in [1 .. n -> S]
  OBVIOUS

(* What was written is the next file to be read, and nothing of it is      *)
(* behind the reader.                                                      *)
LEMMA AgainStep ==
    ASSUME Inv, Again
    PROVE  Inv'
  <1>1. /\ state = "written" /\ trip' = trip + 1 /\ input' = output /\ next' = 1
        /\ source' = ThisCall /\ state' = "reading" /\ leading' = <<>>
        /\ saw_JFIF_marker' = FALSE /\ saw_Adobe_marker' = FALSE /\ saw_SOF' = FALSE
        /\ comp_info' = <<>> /\ quant_table' = <<>> /\ marker_list' = <<>>
        /\ quant_tbl_ptrs' = [n \in Slots |-> None] /\ inheaders' = TRUE
    BY DEF Again
  <1>2. /\ source'.output = output /\ source'.space = jpeg_color_space
        /\ source'.comp_info = comp_info /\ source'.quant_table = quant_table
        /\ source'.marker_list = marker_list
    BY <1>1 DEF ThisCall
  <1>3. Written(output, jpeg_color_space, comp_info, quant_table, marker_list)
    BY <1>1 DEF Inv, BeingWritten
  <1>4. PICK S : output \in Seq(S)
    BY <1>3 DEF Written, IsSequence
  <1>5. Behind' = 0 /\ Len(output) \in Nat
    BY <1>1, <1>2, <1>4 DEF Behind
  <1>6. Types'
    <2>1. comp_info' \in Seq(Component) /\ marker_list' \in Seq(Kept) /\ Len(comp_info') = 0
      BY <1>1
    <2>2. quant_table' \in [1 .. Len(comp_info') -> Tables \cup {None}]
      BY <1>1, <2>1, NoTables
    <2>3. quant_tbl_ptrs' \in [Slots -> Tables \cup {None}]
      BY <1>1
    <2>4. leading' = <<>> /\ trip' \in Nat /\ next' \in Nat /\ next' > 0
      BY <1>1 DEF Inv, Types
    <2>5. state' \in States /\ inheaders' \in BOOLEAN /\ saw_SOF' \in BOOLEAN
          /\ saw_JFIF_marker' \in BOOLEAN /\ saw_Adobe_marker' \in BOOLEAN
      BY <1>1 DEF States
    <2>. QED
      BY <2>1, <2>2, <2>3, <2>4, <2>5 DEF Types
  <1>7. Guessed' /\ Finished' /\ Writable' /\ BeingWritten' /\ SpacesAgree'
    BY <1>1 DEF Guessed, Finished, Writable, BeingWritten, SpacesAgree
  <1>8. SourceWritten'
    BY <1>1, <1>2, <1>3 DEF SourceWritten, Inv, Guessed, Finished, Types
  <1>9. Suffix'
    <2>1. \A k \in 1 .. Len(output) : k + 0 = k
      BY <1>5
    <2>. QED
      BY <1>1, <1>2, <1>3, <1>5, <2>1 DEF Suffix, Written
  <1>10. FlagsKnown' /\ FlagsSeen'
    BY <1>1, <1>5 DEF FlagsKnown, FlagsSeen
  <1>11. FrameKnown' /\ TablesAgree' /\ SlotsKnown'
    BY <1>1 DEF FrameKnown, TablesAgree, SlotsKnown
  <1>. QED
    BY <1>6, <1>7, <1>8, <1>9, <1>10, <1>11 DEF Inv

-----------------------------------------------------------------------------
(* The invariant holds.                                                    *)

LEMMA InvInit == Init => Inv
  <1>. SUFFICES ASSUME Init PROVE Inv
    OBVIOUS
  <1>1. Types
    <2>1. comp_info \in Seq(Component) /\ marker_list \in Seq(Kept) /\ Len(comp_info) = 0
      BY DEF Init
    <2>2. quant_table \in [1 .. Len(comp_info) -> Tables \cup {None}]
      BY <2>1, NoTables DEF Init
    <2>3. quant_tbl_ptrs \in [Slots -> Tables \cup {None}]
      BY DEF Init
    <2>4. leading = <<>> /\ trip \in Nat /\ next \in Nat /\ next > 0
      BY DEF Init
    <2>5. state \in States /\ inheaders \in BOOLEAN /\ saw_SOF \in BOOLEAN
          /\ saw_JFIF_marker \in BOOLEAN /\ saw_Adobe_marker \in BOOLEAN
      BY DEF Init, States
    <2>. QED
      BY <2>1, <2>2, <2>3, <2>4, <2>5 DEF Types
  <1>2. Guessed /\ Finished /\ Writable /\ BeingWritten
    BY DEF Init, Guessed, Finished, Writable, BeingWritten
  <1>3. trip = 0
    BY DEF Init
  <1>4. SourceWritten /\ Suffix /\ FlagsKnown /\ FlagsSeen /\ FrameKnown /\ SlotsKnown
        /\ TablesAgree /\ SpacesAgree
    BY <1>3 DEF SourceWritten, Suffix, FlagsKnown, FlagsSeen, FrameKnown, SlotsKnown,
       TablesAgree, SpacesAgree
  <1>. QED
    BY <1>1, <1>2, <1>4 DEF Inv

LEMMA InvStutters == Inv /\ UNCHANGED vars => Inv'
  <1>. SUFFICES ASSUME Inv, UNCHANGED vars PROVE Inv'
    OBVIOUS
  <1>1. UNCHANGED <<trip, state, next, source, input, output, leading, saw_SOF, inheaders,
                    saw_JFIF_marker, saw_Adobe_marker, Adobe_transform, quant_tbl_ptrs,
                    comp_info, quant_table, marker_list, jpeg_color_space>>
    BY DEF vars, call, reader, flags, frame, scans
  <1>2. Types' /\ Guessed' /\ Finished'
    BY <1>1 DEF Inv, Types, Guessed, Finished
  <1>5. SourceWritten' /\ FlagsSeen'
    BY <1>1 DEF Inv, SourceWritten, FlagsSeen, Behind, WholeJFIF, WholeAdobe, IsJFIF, IsAdobe
  <1>3. Suffix' /\ FlagsKnown' /\ Writable' /\ BeingWritten'
    BY <1>1 DEF Inv, Suffix, FlagsKnown, Behind, Writable, Copyable, BeingWritten,
       WholeJFIF, WholeAdobe, IsJFIF, IsAdobe
  <1>4. FrameKnown' /\ SlotsKnown' /\ TablesAgree' /\ SpacesAgree'
    BY <1>1, SlotsStay, TablesStay, SpacesStay DEF Inv, FrameKnown
  <1>. QED
    BY <1>2, <1>3, <1>4, <1>5 DEF Inv

(* What was written agrees with what was read, and the reader knows of it  *)
(* what the segments behind it say.                                        *)
THEOREM ReaderFollowsWriter == Spec => []Inv
  <1>1. ASSUME Inv, [Next]_vars
        PROVE  Inv'
    <2>1. CASE \E seg \in Ahead : GetSOI(seg)
      BY <1>1, <2>1, SOIStep
    <2>2. CASE \E seg \in Ahead : GetSOF(seg)
      BY <1>1, <2>2, SOFStep
    <2>3. CASE \E seg \in Ahead : GetDQT(seg)
      BY <1>1, <2>3, DQTStep
    <2>4. CASE \E seg \in Ahead : GetTables(seg)
      BY <1>1, <2>4, TablesStep
    <2>5. CASE \E seg \in Ahead : SaveMarker(seg)
      BY <1>1, <2>5, SaveStep
    <2>6. CASE \E seg \in Ahead : SkipOrRefuse(seg)
      BY <1>1, <2>6, SkipStep
    <2>7. CASE \E seg \in Ahead : GetSOS(seg)
      BY <1>1, <2>7, SOSStep
    <2>8. CASE \E seg \in Ahead : GetEOI(seg)
      BY <1>1, <2>8, EOIStep
    <2>9. CASE EndOfFile
      BY <1>1, <2>9, EndOfFileStep
    <2>10. CASE CopyCriticalParameters \/ WriteCoefficients \/ CopyMarker
      BY <1>1, <2>10, CopyParametersStep, WriteCoefficientsStep, CopyMarkerStep
    <2>11. CASE FinishCompress \/ EmitDQT \/ EmitSOF \/ EmitScan \/ EmitEOI
      BY <1>1, <2>11, FinishStep, EmitDQTStep, EmitSOFStep, EmitScanStep, EmitEOIStep
    <2>12. CASE Merge \/ Again
      BY <1>1, <2>12, MergeStep, AgainStep
    <2>13. CASE UNCHANGED vars
      BY <1>1, <2>13, InvStutters
    <2>. QED
      BY <1>1, <2>1, <2>2, <2>3, <2>4, <2>5, <2>6, <2>7, <2>8, <2>9, <2>10, <2>11, <2>12, <2>13
         DEF Next
  <1>. QED
    BY <1>1, InvInit, PTL DEF Spec

(* The next reader of a file that was written finds the color space it was *)
(* written with, however many segments were copied into it                 *)
(* (jpeg_set_colorspace and jcopy_markers_execute against                  *)
(* default_decompress_parms).                                              *)
THEOREM ColorSpaceKept == Spec => []ColorsKept
  <1>1. Inv => ColorsKept
    BY DEF Inv, SpacesAgree, ColorsKept
  <1>. QED
    BY <1>1, ReaderFollowsWriter, PTL

(* The table that is latched for a component is the one it had, whichever  *)
(* slots the tables were in and whenever they were replaced                *)
(* (jpeg_copy_critical_parameters and emit_dqt against                     *)
(* latch_quant_tables).                                                    *)
THEOREM TablesKept == Spec => []QuantKept
  <1>1. Inv => QuantKept
    BY DEF Inv, Types, TablesAgree, QuantKept
  <1>. QED
    BY <1>1, ReaderFollowsWriter, PTL

=============================================================================
