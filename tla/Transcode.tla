------------------------------ MODULE Transcode ------------------------------
(***************************************************************************)
(* What is in a JPEG file and what becomes of it when reencode()           *)
(* (Bindings.c) reads it and writes it again, segment by segment:          *)
(* jpeg_read_header and jpeg_read_coefficients on one side,                *)
(* jpeg_copy_critical_parameters, jpeg_write_coefficients,                 *)
(* jcopy_markers_execute and jpeg_finish_compress on the other.            *)
(*                                                                         *)
(* The file read first is any sequence of segments.  What was written may  *)
(* have the EXIF of the file that was read put in front of it              *)
(* (mergeExifAndJpeg), and is then read and written once more.             *)
(*                                                                         *)
(* A segment is what lies between two markers: its length, an entropy-     *)
(* coded part, and the contents of a table are abstract.                   *)
(***************************************************************************)
EXTENDS Integers, Sequences, Selection

CONSTANTS
    Frames,       \* what the SOF of the first file may list: sequences of components
    ScanIds,      \* what an SOS of the first file may list: component ids
    Progressions, \* what an SOS of the first file may say of its coefficients
    Coefficients, \* the positions 0 .. 63 of a block to keep track of
    Saved,        \* the APPn and COM segments the first file may have
    Tables,       \* the contents of quantization tables
    TableSegments,  \* what a DQT of the first file may say: slot and contents
    None,         \* no table
    NUM_QUANT_TBLS,
    MaxMarkers,   \* bound: APPn and COM segments in the first file
    MaxScans,     \* bound: scans in the first file
    MaxTrips      \* bound: how often the picture is re-encoded

Component == [component_id : Nat, quant_tbl_no : Nat]

AppMarkers == {"APP0", "APP1", "APP14", "COM"}

ASSUME BoundsAssumption ==
    /\ NUM_QUANT_TBLS \in Nat /\ MaxMarkers \in Nat /\ MaxScans \in Nat /\ MaxTrips \in Nat
    /\ None \notin Tables

ASSUME SegmentsAssumption ==
    /\ Frames \subseteq Seq(Component)
    /\ ScanIds \subseteq Seq(Nat)
    /\ Progressions \subseteq [Ss : Nat, Se : Nat, Ah : Nat, Al : Nat]
    /\ \A m \in Saved : m.marker \in AppMarkers
    /\ \A t \in TableSegments : t[1] \in Nat /\ t[2] \in Tables

ASSUME PositionsAssumption == {0} \subseteq Coefficients /\ Coefficients \subseteq 0 .. 63

VARIABLES
    trip,                \* how often the picture has been re-encoded before
    state,               \* how far reencode() is
    input,               \* what is left of the file, when it is one of our own
    place,               \* whether the first, the second or a later segment is next
    leading,             \* the APP1 segment right behind the SOI, if there is one
    saw_SOF,
    saw_JFIF_marker,
    saw_Adobe_marker,
    Adobe_transform,
    progressive_mode,
    comp_info,           \* the components, as the SOF lists them
    quant_table,         \* by component: the table saved for it
    quant_tbl_ptrs,      \* the tables the slots have now
    marker_list,         \* the saved APPn and COM segments
    inheaders,           \* the first SOS has not been seen
    has_multiple_scans,
    input_scan_number,
    jpeg_color_space,
    coef,                \* by component: the pieces of scans that went into its coefficients
    coef_bits,           \* by component and position: the last bit it was sent to, or -1
    bogus,               \* there was a warning about a scan that does not carry on
    warned,              \* there was any other warning; both when the file is one of our own
    progressive,         \* the option of the call
    output,              \* the file that is written
    next,                \* the marker, component or scan that is written next
    merged,              \* EXIF was put in front of it
    source               \* what the call before read and wrote

flags == <<saw_JFIF_marker, saw_Adobe_marker, Adobe_transform>>
frame == <<saw_SOF, progressive_mode, comp_info>>
scans == <<inheaders, has_multiple_scans, input_scan_number, jpeg_color_space, quant_table, coef,
           coef_bits, bogus>>
call == <<trip, progressive, output, next, merged, source>>
reader == <<flags, frame, scans, quant_tbl_ptrs, marker_list, warned>>
vars == <<call, reader, state, input, place, leading>>

Script == INSTANCE ScanScript

MAX_COMPS_IN_SCAN == Script!MAX_COMPS_IN_SCAN
MAX_COMPONENTS == Script!MAX_COMPONENTS

Slots == 0 .. NUM_QUANT_TBLS - 1
Spaces == {"GRAYSCALE", "RGB", "YCbCr", "CMYK", "YCCK", "UNKNOWN"}

(* An SOS: the components by their ids, which coefficients are sent down   *)
(* to which bit, and what is sent of each component.                       *)
ScanHeader(ids, p, pieces) ==
    [marker |-> "SOS", ids |-> ids, Ss |-> p.Ss, Se |-> p.Se, Ah |-> p.Ah, Al |-> p.Al,
     pieces |-> pieces]

(* The segments a file may have, apart from those that are saved.  The     *)
(* slot of a DQT may be out of range; "DHT" stands for the tables of the   *)
(* entropy coder, "DNL" for what is skipped, "garbage" for bytes that      *)
(* belong to no segment, "SOF3" for a process or marker the library does   *)
(* not know.                                                               *)
Segments ==
    Saved
        \cup {[marker |-> m] : m \in {"SOI", "EOI", "DNL", "garbage", "SOF3"}}
        \cup {[marker |-> "DHT", sound |-> b] : b \in BOOLEAN}
        \cup {[marker |-> "DQT", slot |-> t[1], table |-> t[2]] : t \in TableSegments}
        \cup {[marker |-> "SOF", progressive |-> p, components |-> f] : p \in BOOLEAN, f \in Frames}
        \cup {ScanHeader(s, p, <<>>) : s \in ScanIds, p \in Progressions}

-----------------------------------------------------------------------------
(* Reading.                                                                *)

Ahead ==
    IF state # "reading" THEN {}
    ELSE IF trip = 0 THEN Segments
    ELSE {input[k] : k \in DOMAIN input \cap {1}}

InBounds(seg) ==
    trip = 0 =>
        /\ seg \in Saved => Len(marker_list) < MaxMarkers
        /\ seg.marker = "SOS" => input_scan_number < MaxScans

(* The next segment is seg and it is consumed.                             *)
Take(seg) ==
    /\ state = "reading"
    /\ InBounds(seg)
    /\ input' = IF trip = 0 THEN input ELSE Tail(input)
    /\ place' = IF place = "first" THEN "second" ELSE "later"
    /\ leading' = IF place = "second" /\ seg.marker = "APP1" THEN <<seg>> ELSE leading
    /\ UNCHANGED call

Warn(b) == warned' = (warned \/ (trip > 0 /\ b))

Fails == state' = "error" /\ UNCHANGED reader

(* first_marker and get_soi: the file has to begin with the SOI, and there *)
(* may be only one.                                                        *)
GetSOI(seg) ==
    /\ (place = "first") \/ (seg.marker = "SOI")
    /\ Take(seg)
    /\ IF place = "first" /\ seg.marker = "SOI" THEN UNCHANGED <<state, reader>> ELSE Fails

(* get_sof.                                                                *)
GetSOF(seg) ==
    /\ place # "first" /\ seg.marker = "SOF"
    /\ Take(seg)
    /\ \/ saw_SOF /\ Fails
       \/ /\ ~saw_SOF
          /\ saw_SOF' = TRUE
          /\ comp_info' = seg.components
          /\ quant_table' = [c \in DOMAIN seg.components |-> None]
          /\ progressive_mode' = seg.progressive
          /\ coef' = [c \in DOMAIN seg.components |-> {}]
          /\ coef_bits' = [c \in DOMAIN seg.components |-> [k \in Coefficients |-> -1]]
          /\ UNCHANGED <<state, flags, inheaders, has_multiple_scans, input_scan_number,
                         jpeg_color_space, quant_tbl_ptrs, marker_list, bogus, warned>>

(* get_dqt.                                                                *)
GetDQT(seg) ==
    /\ place # "first" /\ seg.marker = "DQT"
    /\ Take(seg)
    /\ IF seg.slot \in Slots
       THEN /\ quant_tbl_ptrs' = [quant_tbl_ptrs EXCEPT ![seg.slot] = seg.table]
            /\ UNCHANGED <<state, flags, frame, scans, marker_list, warned>>
       ELSE Fails

(* get_dht, get_dac and get_dri; which Huffman tables a scan needs and has *)
(* is in CompressMaster.                                                   *)
GetTables(seg) ==
    /\ place # "first" /\ seg.marker = "DHT"
    /\ Take(seg)
    /\ IF seg.sound THEN UNCHANGED <<state, reader>> ELSE Fails

(* save_marker with examine_app0 and examine_app14: the segment is kept;   *)
(* a whole JFIF or Adobe segment is taken note of as well.                 *)
IsJFIF(m) == m.marker = "APP0" /\ m.id = "JFIF"
IsAdobe(m) == m.marker = "APP14" /\ m.id = "Adobe"
WholeJFIF(m) == IsJFIF(m) /\ m.whole = TRUE
WholeAdobe(m) == IsAdobe(m) /\ m.whole = TRUE

(* Mutant: the list is built from its end.                                 *)
SaveMarkerInFront(seg) ==
    /\ place # "first" /\ seg.marker \in AppMarkers
    /\ Take(seg)
    /\ marker_list' = <<seg>> \o marker_list
    /\ saw_JFIF_marker' = (saw_JFIF_marker \/ WholeJFIF(seg))
    /\ saw_Adobe_marker' = (saw_Adobe_marker \/ WholeAdobe(seg))
    /\ Adobe_transform' = IF WholeAdobe(seg) THEN seg.value ELSE Adobe_transform
    /\ Warn(WholeJFIF(seg) /\ seg.value # 1)
    /\ UNCHANGED <<state, frame, scans, quant_tbl_ptrs>>

SaveMarker(seg) ==
    /\ place # "first" /\ seg.marker \in AppMarkers
    /\ Take(seg)
    /\ marker_list' = Append(marker_list, seg)
    /\ saw_JFIF_marker' = (saw_JFIF_marker \/ WholeJFIF(seg))
    /\ saw_Adobe_marker' = (saw_Adobe_marker \/ WholeAdobe(seg))
    /\ Adobe_transform' = IF WholeAdobe(seg) THEN seg.value ELSE Adobe_transform
    /\ Warn(WholeJFIF(seg) /\ seg.value # 1)
    /\ UNCHANGED <<state, frame, scans, quant_tbl_ptrs>>

(* skip_variable, next_marker over bytes that are not a marker, and the    *)
(* markers read_markers refuses.                                           *)
SkipOrRefuse(seg) ==
    /\ place # "first"
    /\ Take(seg)
    /\ \/ seg.marker = "DNL" /\ UNCHANGED <<state, reader>>
       \/ /\ seg.marker = "garbage"
          /\ Warn(TRUE)
          /\ UNCHANGED <<state, flags, frame, scans, quant_tbl_ptrs, marker_list>>
       \/ seg.marker = "SOF3" /\ Fails

-----------------------------------------------------------------------------
(* The first SOS, and the scans.                                           *)

(* default_decompress_parms.                                               *)
Ids == [c \in DOMAIN comp_info |-> comp_info[c].component_id]

GuessedSpace ==
    CASE Len(comp_info) = 1 -> "GRAYSCALE"
      [] Len(comp_info) = 3 ->
            IF saw_JFIF_marker THEN "YCbCr"
            ELSE IF saw_Adobe_marker THEN (IF Adobe_transform = 0 THEN "RGB" ELSE "YCbCr")
            ELSE IF Ids = <<82, 71, 66>> THEN "RGB" ELSE "YCbCr"
      [] Len(comp_info) = 4 ->
            IF saw_Adobe_marker /\ Adobe_transform # 0 THEN "YCCK" ELSE "CMYK"
      [] OTHER -> "UNKNOWN"

OddTransform ==
    /\ saw_Adobe_marker
    /\ \/ Len(comp_info) = 3 /\ ~saw_JFIF_marker /\ Adobe_transform \notin {0, 1}
       \/ Len(comp_info) = 4 /\ Adobe_transform \notin {0, 2}

(* get_sos: the components with the i-th id of the scan that are eligible. *)
(* cur_comp_info[ci] is still free just when ci is not below i.            *)
Named(ids, i) ==
    {c \in i .. Len(comp_info) : c <= MAX_COMPS_IN_SCAN /\ comp_info[c].component_id = ids[i]}

(* Mutant: the i-th component of the frame, whatever its id.               *)
InScanByPlace(ids, i) == i

InScan(ids, i) == CHOOSE c \in Named(ids, i) : \A d \in Named(ids, i) : c <= d

ScanFound(ids) ==
    /\ Len(ids) \in 1 .. MAX_COMPS_IN_SCAN
    /\ \A i \in DOMAIN ids : Named(ids, i) # {}
    /\ \A i, j \in DOMAIN ids : i # j => InScan(ids, i) # InScan(ids, j)

(* latch_quant_tables: a component keeps the table of its first scan.      *)
Latchable(c) ==
    \/ quant_table[c] # None
    \/ comp_info[c].quant_tbl_no \in Slots /\ quant_tbl_ptrs[comp_info[c].quant_tbl_no] # None

Latched(c) ==
    IF quant_table[c] # None THEN quant_table[c]
    ELSE quant_tbl_ptrs[comp_info[c].quant_tbl_no]

(* start_pass_phuff_decoder: what a scan of a progressive file may say at  *)
(* all.                                                                    *)
ValidProgression(seg) ==
    /\ IF seg.Ss = 0 THEN seg.Se = 0
       ELSE seg.Ss <= seg.Se /\ seg.Se < Script!DCTSIZE2 /\ Len(seg.ids) = 1
    /\ seg.Ah # 0 => seg.Al = seg.Ah - 1
    /\ seg.Al <= 13

(* The scan carries on where those before it left component c.             *)
CarriesOn(seg, c) ==
    /\ seg.Ss # 0 => coef_bits[c][0] >= 0
    /\ \A k \in Script!Band(seg) : seg.Ah = IF coef_bits[c][k] < 0 THEN 0 ELSE coef_bits[c][k]

(* start_pass_huff_decoder.                                                *)
IsSequential(seg) == seg.Ss = 0 /\ seg.Se = Script!DCTSIZE2 - 1 /\ seg.Ah = 0 /\ seg.Al = 0

(* Whether initial_setup and start_input_pass let the scan begin.          *)
ScanStarts(seg) ==
    /\ saw_SOF
    /\ ScanFound(seg.ids)
    /\ inheaders => Len(comp_info) <= MAX_COMPONENTS
    /\ ~inheaders => has_multiple_scans
    /\ \A i \in DOMAIN seg.ids : Latchable(InScan(seg.ids, i))
    /\ progressive_mode => ValidProgression(seg)

InOrder(seg, selected) ==
    IF progressive_mode THEN \A c \in selected : CarriesOn(seg, c) ELSE IsSequential(seg)

(* consume_markers at an SOS, jpeg_consume_input and                       *)
(* transdecode_master_selection at the first one, and consume_data for the *)
(* whole scan, damaged or not.                                             *)
GetSOS(seg) ==
    /\ place # "first" /\ seg.marker = "SOS"
    /\ Take(seg)
    /\ IF ScanStarts(seg)
       THEN LET selected == {InScan(seg.ids, i) : i \in DOMAIN seg.ids}
                IndexOf(c) == CHOOSE i \in DOMAIN seg.ids : InScan(seg.ids, i) = c
                Piece(c) == IF trip = 0 THEN [of |-> c, scan |-> 0]
                            ELSE seg.pieces[IndexOf(c)]
            IN  /\ inheaders' = FALSE
                /\ jpeg_color_space' = IF inheaders THEN GuessedSpace ELSE jpeg_color_space
                /\ has_multiple_scans' =
                      IF inheaders THEN Len(seg.ids) < Len(comp_info) \/ progressive_mode
                      ELSE has_multiple_scans
                /\ input_scan_number' = input_scan_number + 1
                /\ quant_table' = [c \in DOMAIN comp_info |->
                      IF c \in selected THEN Latched(c) ELSE quant_table[c]]
                /\ coef' = [c \in DOMAIN comp_info |->
                      IF c \in selected THEN coef[c] \cup {Piece(c)} ELSE coef[c]]
                /\ coef_bits' = [c \in DOMAIN comp_info |-> [k \in Coefficients |->
                      IF progressive_mode /\ c \in selected /\ k \in Script!Band(seg)
                      THEN seg.Al ELSE coef_bits[c][k]]]
                /\ bogus' = (bogus \/ (trip > 0 /\ ~InOrder(seg, selected)))
                /\ Warn(inheaders /\ OddTransform)
                /\ UNCHANGED <<state, flags, frame, quant_tbl_ptrs, marker_list>>
       ELSE Fails

(* Mutant: an EOI is an EOI.                                               *)
GetEOIAnywhere(seg) ==
    /\ place # "first" /\ seg.marker = "EOI"
    /\ Take(seg)
    /\ state' = "read" /\ UNCHANGED reader

(* An EOI before the first SOS is JERR_SOF_NO_SOS or JERR_NO_IMAGE.        *)
GetEOI(seg) ==
    /\ place # "first" /\ seg.marker = "EOI"
    /\ Take(seg)
    /\ IF inheaders THEN Fails ELSE state' = "read" /\ UNCHANGED reader

(* fill_input_buffer (jdatasrc.c): an empty file is an error, one that     *)
(* ends early gets an EOI and a warning.                                   *)
EndOfFile ==
    /\ state = "reading"
    /\ trip = 0 \/ input = <<>>
    /\ state' = IF inheaders THEN "error" ELSE "read"
    /\ Warn(TRUE)
    /\ UNCHANGED <<call, input, place, leading, flags, frame, scans, quant_tbl_ptrs, marker_list>>

-----------------------------------------------------------------------------
(* Writing.                                                                *)

(* Mutant: only the presence of the table is looked at.                    *)
CopyableAny(c) ==
    /\ comp_info[c].quant_tbl_no \in Slots
    /\ quant_tbl_ptrs[comp_info[c].quant_tbl_no] # None

(* jpeg_copy_critical_parameters: the tables are copied slot by slot, as   *)
(* they are at the end of the file; a component whose own table is another *)
(* one cannot be written.                                                  *)
Copyable(c) ==
    /\ comp_info[c].quant_tbl_no \in Slots
    /\ quant_tbl_ptrs[comp_info[c].quant_tbl_no] # None
    /\ quant_table[c] # None => quant_table[c] = quant_tbl_ptrs[comp_info[c].quant_tbl_no]

CopyCriticalParameters ==
    /\ state = "read"
    /\ state' = IF \A c \in DOMAIN comp_info : Copyable(c) THEN "copied" ELSE "error"
    /\ progressive' \in BOOLEAN   \* args.progressive, which counts from here on
    /\ UNCHANGED <<reader, next, trip, output, merged, source, input, place, leading>>

SOI == [marker |-> "SOI"]

(* jpeg_set_colorspace: which of its own segments the library writes.      *)
write_JFIF_header == jpeg_color_space \in {"GRAYSCALE", "YCbCr"}
write_Adobe_marker == jpeg_color_space \in {"RGB", "CMYK", "YCCK"}

JFIF == [marker |-> "APP0", id |-> "JFIF", whole |-> TRUE, value |-> 1]

(* Mutant: the transform is not told.                                      *)
AdobeOfNone(space) == [marker |-> "APP14", id |-> "Adobe", whole |-> TRUE, value |-> 0]

(* emit_adobe_app14.                                                       *)
AdobeOf(space) ==
    [marker |-> "APP14", id |-> "Adobe", whole |-> TRUE,
     value |-> IF space = "YCCK" THEN 2 ELSE 0]

(* jpeg_write_coefficients, which ends in write_file_header.               *)
WriteCoefficients ==
    /\ state = "copied"
    /\ output' = IF write_JFIF_header THEN <<SOI, JFIF>>
                 ELSE IF write_Adobe_marker THEN <<SOI, AdobeOf(jpeg_color_space)>>
                 ELSE <<SOI>>
    /\ state' = "started" /\ next' = 1
    /\ UNCHANGED <<reader, trip, progressive, merged, source, input, place, leading>>

(* jcopy_markers_execute: all that was saved but for what the library has  *)
(* written itself.                                                         *)
Own(m) == (write_JFIF_header /\ IsJFIF(m)) \/ (write_Adobe_marker /\ IsAdobe(m))

(* Mutant: nothing is left out.                                            *)
CopyMarkerAlways ==
    /\ state = "started" /\ next <= Len(marker_list)
    /\ output' = Append(output, marker_list[next])
    /\ next' = next + 1
    /\ UNCHANGED <<reader, state, trip, progressive, merged, source, input, place, leading>>

CopyMarker ==
    /\ state = "started" /\ next <= Len(marker_list)
    /\ output' = IF Own(marker_list[next]) THEN output ELSE Append(output, marker_list[next])
    /\ next' = next + 1
    /\ UNCHANGED <<reader, state, trip, progressive, merged, source, input, place, leading>>

(* jpeg_finish_compress.  Without a script all components have to fit one  *)
(* scan (select_scan_parameters).                                          *)
FinishCompress ==
    /\ state = "started" /\ next > Len(marker_list)
    /\ state' = IF progressive \/ Len(comp_info) <= MAX_COMPS_IN_SCAN THEN "framing" ELSE "error"
    /\ next' = 1
    /\ UNCHANGED <<reader, trip, progressive, merged, source, output, input, place, leading>>

(* Mutant: only the table of the first component is sent.                  *)
FirstUseOfAll(c) == c = 1

(* write_frame_header: emit_dqt sends each table once, for the first       *)
(* component that uses its slot, and the SOF comes after the tables.       *)
FirstUse(c) == \A d \in 1 .. c - 1 : comp_info[d].quant_tbl_no # comp_info[c].quant_tbl_no

DQT(c) ==
    [marker |-> "DQT", slot |-> comp_info[c].quant_tbl_no,
     table |-> quant_tbl_ptrs[comp_info[c].quant_tbl_no]]

SOF == [marker |-> "SOF", progressive |-> progressive, components |-> comp_info]

EmitDQT ==
    /\ state = "framing" /\ next <= Len(comp_info)
    /\ output' = IF FirstUse(next) THEN Append(output, DQT(next)) ELSE output
    /\ next' = next + 1
    /\ UNCHANGED <<reader, state, trip, progressive, merged, source, input, place, leading>>

EmitSOF ==
    /\ state = "framing" /\ next > Len(comp_info)
    /\ output' = Append(output, SOF)
    /\ state' = "scanning" /\ next' = 1
    /\ UNCHANGED <<reader, trip, progressive, merged, source, input, place, leading>>

(* What the scans of the file before say of its components.                *)
Pieces ==
    LET scanned == {k \in DOMAIN source.output : source.output[k].marker = "SOS"}
        Sent(s) == {s.pieces[i] : i \in DOMAIN s.pieces}
    IN  UNION {Sent(source.output[k]) : k \in scanned}

(* What a component is now: all the scans of one component give what they  *)
(* were written from; of any other mixture one only knows what it is made  *)
(* of.                                                                     *)
Content(c) ==
    IF \E p \in coef[c] : coef[c] = {q \in Pieces : q.of = p.of}
    THEN (CHOOSE p \in coef[c] : TRUE).data
    ELSE coef[c]

(* The scans of the script jpeg_simple_progression writes, or the one scan *)
(* of a sequential file; emit_sos names the components by their ids.  The  *)
(* Huffman tables in front of a scan are in CompressMaster.                *)
ImageScript ==
    LET image == [num_components |-> Len(comp_info), space |-> jpeg_color_space]
    IN  IF progressive THEN Script!ScriptOf(image) ELSE <<Script!SequentialScan(image)>>

SOSOf(n) ==
    LET comps == ImageScript[n].component_index
    IN  ScanHeader([i \in DOMAIN comps |-> comp_info[comps[i] + 1].component_id],
                   ImageScript[n],
                   [i \in DOMAIN comps |->
                      [of |-> comps[i] + 1, scan |-> n, data |-> Content(comps[i] + 1)]])

EmitScan ==
    /\ state = "scanning" /\ next <= Len(ImageScript)
    /\ output' = Append(output, SOSOf(next))
    /\ next' = next + 1
    /\ UNCHANGED <<reader, state, trip, progressive, merged, source, input, place, leading>>

EmitEOI ==
    /\ state = "scanning" /\ next > Len(ImageScript)
    /\ output' = Append(output, [marker |-> "EOI"])
    /\ state' = "written"
    /\ UNCHANGED <<reader, next, trip, progressive, merged, source, input, place, leading>>

-----------------------------------------------------------------------------
(* The caller.                                                             *)

(* mergeExifAndJpeg: an APP1 segment right behind the SOI of the file that *)
(* was read goes right behind the SOI of the one that was written.         *)
Merge ==
    /\ state = "written" /\ ~merged /\ leading # <<>>
    /\ output' = <<output[1], leading[1]>> \o Tail(output)
    /\ merged' = TRUE
    /\ UNCHANGED <<reader, next, state, trip, progressive, source, input, place, leading>>

(* What the next call is told of this one.                                 *)
ThisCall ==
    [comp_info |-> comp_info, quant_table |-> quant_table, marker_list |-> marker_list,
     space |-> jpeg_color_space, content |-> [c \in DOMAIN comp_info |-> Content(c)],
     progressive |-> progressive, leading |-> IF merged THEN leading ELSE <<>>,
     output |-> output]

NoCall ==
    [comp_info |-> <<>>, quant_table |-> <<>>, marker_list |-> <<>>, space |-> "UNKNOWN",
     content |-> <<>>, progressive |-> FALSE, leading |-> <<>>, output |-> <<>>]

(* A new object (jpeg_create_decompress, reset_input_controller,           *)
(* reset_marker_reader) and the defaults get_soi sets.                     *)
Init ==
    /\ trip = 0 /\ input = <<>> /\ output = <<>> /\ next = 1 /\ merged = FALSE /\ source = NoCall
    /\ progressive = FALSE
    /\ state = "reading" /\ place = "first" /\ leading = <<>>
    /\ saw_JFIF_marker = FALSE /\ saw_Adobe_marker = FALSE /\ Adobe_transform = 0
    /\ saw_SOF = FALSE /\ progressive_mode = FALSE /\ comp_info = <<>> /\ quant_table = <<>>
    /\ quant_tbl_ptrs = [n \in Slots |-> None] /\ marker_list = <<>>
    /\ inheaders = TRUE /\ has_multiple_scans = FALSE /\ input_scan_number = 0
    /\ jpeg_color_space = "UNKNOWN" /\ coef = <<>> /\ coef_bits = <<>>
    /\ bogus = FALSE /\ warned = FALSE

(* What was written is re-encoded.                                         *)
Again ==
    /\ state = "written" /\ trip < MaxTrips
    /\ trip' = trip + 1 /\ input' = output /\ output' = <<>> /\ next' = 1 /\ merged' = FALSE
    /\ source' = ThisCall
    /\ progressive' = FALSE
    /\ state' = "reading" /\ place' = "first" /\ leading' = <<>>
    /\ saw_JFIF_marker' = FALSE /\ saw_Adobe_marker' = FALSE /\ Adobe_transform' = 0
    /\ saw_SOF' = FALSE /\ progressive_mode' = FALSE /\ comp_info' = <<>> /\ quant_table' = <<>>
    /\ quant_tbl_ptrs' = [n \in Slots |-> None] /\ marker_list' = <<>>
    /\ inheaders' = TRUE /\ has_multiple_scans' = FALSE /\ input_scan_number' = 0
    /\ jpeg_color_space' = "UNKNOWN" /\ coef' = <<>> /\ coef_bits' = <<>>
    /\ bogus' = FALSE /\ warned' = FALSE

Next ==
    \/ \E seg \in Ahead : GetSOI(seg)
    \/ \E seg \in Ahead : GetSOF(seg)
    \/ \E seg \in Ahead : GetDQT(seg)
    \/ \E seg \in Ahead : GetTables(seg)
    \/ \E seg \in Ahead : SaveMarker(seg)
    \/ \E seg \in Ahead : SkipOrRefuse(seg)
    \/ \E seg \in Ahead : GetSOS(seg)
    \/ \E seg \in Ahead : GetEOI(seg)
    \/ EndOfFile
    \/ CopyCriticalParameters \/ WriteCoefficients \/ CopyMarker
    \/ FinishCompress \/ EmitDQT \/ EmitSOF \/ EmitScan \/ EmitEOI
    \/ Merge \/ Again

Spec == Init /\ [][Next]_vars

-----------------------------------------------------------------------------
(* Our own output, read again.                                             *)

TypeOK ==
    /\ trip \in 0 .. MaxTrips /\ progressive \in BOOLEAN /\ merged \in BOOLEAN
    /\ state \in {"reading", "read", "copied", "started", "framing", "scanning", "written", "error"}
    /\ place \in {"first", "second", "later"}
    /\ inheaders \in BOOLEAN /\ has_multiple_scans \in BOOLEAN /\ warned \in BOOLEAN
    /\ saw_JFIF_marker \in BOOLEAN /\ saw_Adobe_marker \in BOOLEAN
    /\ inheaders = (input_scan_number = 0)
    /\ ~inheaders => saw_SOF /\ comp_info # <<>>
    /\ state \notin {"reading", "error"} => ~inheaders
    /\ jpeg_color_space \in Spaces
    /\ quant_tbl_ptrs \in [Slots -> Tables \cup {None}]
    /\ comp_info \in Seq(Component)
    /\ quant_table \in [DOMAIN comp_info -> Tables \cup {None}]
    /\ DOMAIN coef = DOMAIN comp_info
    /\ DOMAIN coef_bits = DOMAIN comp_info /\ bogus \in BOOLEAN
    /\ Len(leading) <= 1

Read == trip > 0 /\ state \notin {"reading", "error"}

(* An RGB picture whose JFIF segment comes after the first scan: it is     *)
(* read as RGB, and written with the JFIF segment in front.                *)
LateJFIF ==
    /\ source.space = "RGB"
    /\ \E i \in DOMAIN source.marker_list : WholeJFIF(source.marker_list[i])

(* The segments that go in front of a picture, the library's own and those *)
(* that are copied, let the next reader find the same color space.         *)
ColorsKept == trip > 0 /\ ~inheaders /\ ~LateJFIF => jpeg_color_space = source.space

(* A table that is saved for a component is the one that was saved for it  *)
(* in the file that was read, whenever in that file the table came and was *)
(* replaced.                                                               *)
QuantKept ==
    trip > 0 => \A c \in DOMAIN comp_info :
        quant_table[c] # None /\ source.quant_table[c] # None => quant_table[c] = source.quant_table[c]

(* Every scan that was written is read into the components it was written  *)
(* from: their coefficients are what they were.                            *)
CoefficientsKept ==
    Read => \A c \in DOMAIN comp_info : coef[c] # {} /\ coef[c] = {p \in Pieces : p.of = c}

Distinct(comps) ==
    \A c, d \in DOMAIN comps : comps[c].component_id = comps[d].component_id => c = d

DistinctIds == Distinct(comp_info)

(* The same where no two components have one id.                           *)
CoefficientsKeptByIds == DistinctIds => CoefficientsKept

Foreign(markers) ==
    Picked(markers, {i \in DOMAIN markers : ~Own(markers[i])}, Len(markers))

(* Nothing that was saved is lost or moved but the segments the library    *)
(* writes itself; what mergeExifAndJpeg put in front is there once more.   *)
MarkersKept ==
    Read /\ ~LateJFIF => Foreign(marker_list) = source.leading \o Foreign(source.marker_list)

(* What was written can be read, unless the frame has more components than *)
(* get_sos looks at: each scan carries on where the scans before it        *)
(* stopped, unless it is one of a progressive file in which two components *)
(* have one id, and there is no other warning but for a JFIF segment of    *)
(* another version that had been there before.                             *)
OutputIsSound ==
    trip > 0 =>
        /\ state = "error" => Len(source.comp_info) > MAX_COMPS_IN_SCAN
        /\ bogus => source.progressive /\ ~Distinct(source.comp_info)
        /\ warned => \E i \in DOMAIN source.marker_list :
              IsJFIF(source.marker_list[i]) /\ source.marker_list[i].value # 1

(* The second re-encoding with the same option changes nothing, not the    *)
(* data of the scans either, where no two components have one id.          *)
SecondTripIsIdentity ==
    /\ trip > 0 /\ state = "written" /\ ~merged /\ ~LateJFIF /\ DistinctIds
    /\ source.leading = <<>> /\ progressive = source.progressive
    => output = source.output
=============================================================================
