--------------------------- MODULE CompressMaster ---------------------------
(***************************************************************************)
(* jpeg_write_coefficients and jpeg_finish_compress: the master control of *)
(* jcmaster.c walks the compressor through its passes over the coefficient *)
(* arrays.  With optimize_coding each scan takes a statistics pass, which  *)
(* makes Huffman tables, and an output pass, which uses them; a DC         *)
(* refinement scan needs no table and skips the statistics pass.           *)
(*                                                                         *)
(* What has been written is kept the way a progressive decoder sees it     *)
(* (jdphuff.c): how far each coefficient has been sent, and the Huffman    *)
(* tables the last DHT markers defined.                                    *)
(***************************************************************************)
EXTENDS ScanScript

CONSTANTS
    Images      \* the kinds of image: number of components, color space

Spaces == {"YCbCr", "YCCK", "other"}

ASSUME ImagesAssumption ==
    /\ Images \subseteq [num_components : 1 .. MAX_COMPONENTS, space : Spaces]
    /\ \A image \in Images : image.space = "YCbCr" => image.num_components = 3
    /\ \A image \in Images : image.space = "YCCK" => image.num_components = 4

VARIABLES
    image,            \* the image being written
    scan_info,        \* the scan script, <<>> for none
    num_scans,        \* how many scans the file has
    optimize_coding,  \* whether Huffman tables are made for each scan
    phase,            \* where jpeg_finish_compress is
    pass_type,        \* of the current pass
    pass_number,      \* how many passes are over
    scan_number,      \* the current index into scan_info
    is_last_pass,     \* whether the current pass is the last
    current,          \* comps_in_scan .. Al, what select_scan_parameters set
    tables,           \* for each Huffman table, the scan it was made for
    sent_table,       \* whether a table has been written since it was made
    known,            \* for each table, the scan of the one the decoder has
    coef_bits         \* down to which bit the decoder has each coefficient

setup == <<image, scan_info>>
script == <<num_scans, optimize_coding>>
master == <<pass_type, pass_number, scan_number, is_last_pass>>
huffman == <<tables, sent_table>>
decoder == <<known, coef_bits>>

vars == <<setup, script, phase, master, current, huffman, decoder>>

-----------------------------------------------------------------------------
Phases ==
    {"start",       \* parameters are set, jpeg_write_coefficients comes next
     "between",     \* at the head of the loop over passes
     "pass",        \* prepare_for_pass is done, finish_pass is not
     "done",        \* EOI written
     "rejected",    \* jpeg_write_coefficients raised an error
     "failed"}      \* an error came up in the middle of the file

PassTypes == {"huff_opt", "output"}

Tables == {"dc", "ac"} \X {0, 1}

(* jpeg_set_colorspace: chrominance has tables of its own.                 *)
TableNumber(c) ==
    IF image.space \in {"YCbCr", "YCCK"} /\ c \in {1, 2} THEN 1 ELSE 0

(* The tables a scan is coded with: none for DC refinement.                *)
Needs(scan) ==
    {<<"dc", TableNumber(c)>> : c \in IF scan.Ss = 0 /\ scan.Ah = 0
                                      THEN ComponentsOf(scan) ELSE {}} \cup
    {<<"ac", TableNumber(c)>> : c \in IF scan.Se # 0 THEN ComponentsOf(scan) ELSE {}}

MaxScans == 6 * MAX_COMPONENTS

TotalPasses == IF optimize_coding THEN 2 * num_scans ELSE num_scans

TypeOK ==
    /\ image \in Images
    /\ scan_info \in Seq(Scan)
    /\ num_scans \in 0 .. MaxScans
    /\ optimize_coding \in BOOLEAN
    /\ phase \in Phases
    /\ pass_type \in PassTypes
    /\ pass_number \in 0 .. 2 * MaxScans
    /\ scan_number \in 0 .. MaxScans
    /\ is_last_pass \in BOOLEAN
    /\ current \in Scan
    /\ tables \in [Tables -> 0 .. MaxScans]
    /\ sent_table \in [Tables -> BOOLEAN]
    /\ known \in [Tables -> -1 .. MaxScans]
    /\ coef_bits \in [Component \X Coefficients -> -1 .. MAX_AH_AL]

(* jpeg_simple_progression may have been called; the standard Huffman      *)
(* tables (number 0) are in place, and jpeg_suppress_tables(FALSE) has     *)
(* marked all of them unsent.                                              *)
Init ==
    /\ image \in Images
    /\ \/ scan_info = <<>> /\ num_scans = 0
       \/ scan_info = ScriptOf(image) /\ num_scans = ScriptSize(image)
    /\ optimize_coding \in BOOLEAN
    /\ phase = "start"
    /\ pass_type = "output"
    /\ pass_number = 0
    /\ scan_number = 0
    /\ is_last_pass = FALSE
    /\ current = SequentialScan(image)
    /\ tables = [t \in Tables |-> 0]
    /\ sent_table = [t \in Tables |-> FALSE]
    /\ known = [t \in Tables |-> -1]
    /\ coef_bits = [ck \in Component \X Coefficients |-> -1]

-----------------------------------------------------------------------------
(* jinit_c_master_control(cinfo, TRUE).  A progressive file is always      *)
(* optimized: the standard tables do not fit it.                           *)
StartCompress ==
    /\ phase = "start"
    /\ (scan_info = <<>> \/ ValidScript(scan_info, image.num_components)) = TRUE
    /\ num_scans' = IF scan_info = <<>> THEN 1 ELSE num_scans
    /\ optimize_coding' =
          (optimize_coding \/ (scan_info # <<>> /\ IsProgressive(scan_info)))
    /\ pass_type' = IF optimize_coding' THEN "huff_opt" ELSE "output"
    /\ pass_number' = 0
    /\ scan_number' = 0
    /\ is_last_pass' = FALSE
    /\ phase' = "between"
    /\ UNCHANGED <<setup, current, huffman, decoder>>

(* validate_script finds fault with the script, or memory runs out.        *)
Reject ==
    /\ phase = "start"
    /\ phase' = "rejected"
    /\ UNCHANGED <<setup, script, master, current, huffman, decoder>>

-----------------------------------------------------------------------------
(* prepare_for_pass.                                                       *)

(* select_scan_parameters and per_scan_setup; without a script more than   *)
(* four components are an error.                                           *)
Selectable == scan_info # <<>> \/ image.num_components <= MAX_COMPS_IN_SCAN

SelectedScan ==
    IF scan_info = <<>> THEN SequentialScan(image) ELSE scan_info[scan_number + 1]

NextPass ==
    /\ phase = "between"
    /\ ~is_last_pass
    /\ phase' = "pass"
    /\ UNCHANGED <<setup, script, scan_number>>

(* Mutant: no refinement scan is thought to need a table.                  *)
NeedsStatisticsDC(scan) == scan.Ah = 0

(* A DC refinement scan needs no Huffman table.                            *)
NeedsStatistics(scan) == scan.Ss # 0 \/ scan.Ah = 0

(* Mutant: off by one.                                                     *)
IsLastPassEarly(n) == n = TotalPasses - 2

IsLastPass(n) == n = TotalPasses - 1

PrepareHuffOpt ==
    /\ NextPass
    /\ pass_type = "huff_opt"
    /\ Selectable
    /\ NeedsStatistics(SelectedScan)
    /\ current' = SelectedScan
    /\ is_last_pass' = IsLastPass(pass_number)
    /\ UNCHANGED <<pass_type, pass_number, huffman, decoder>>

(* write_scan_header: the tables the scan needs and that have not been     *)
(* sent as they are now, then SOS.                                         *)
WriteScanHeader(scan) ==
    LET new == {t \in Needs(scan) : ~sent_table[t]}
    IN  /\ known' = [t \in Tables |-> IF t \in new THEN tables[t] ELSE known[t]]
        /\ sent_table' = [t \in Tables |-> t \in new \/ sent_table[t]]
        /\ UNCHANGED <<tables, coef_bits>>

(* Mutant: the skipped pass is not counted.                                *)
SkipHuffOptUncounted ==
    /\ NextPass
    /\ pass_type = "huff_opt"
    /\ Selectable
    /\ ~NeedsStatistics(SelectedScan)
    /\ current' = SelectedScan
    /\ pass_type' = "output"
    /\ is_last_pass' = IsLastPass(pass_number)
    /\ WriteScanHeader(SelectedScan)
    /\ UNCHANGED pass_number

(* A DC refinement scan falls through to its output pass.                  *)
SkipHuffOpt ==
    /\ NextPass
    /\ pass_type = "huff_opt"
    /\ Selectable
    /\ ~NeedsStatistics(SelectedScan)
    /\ current' = SelectedScan
    /\ pass_type' = "output"
    /\ pass_number' = pass_number + 1
    /\ is_last_pass' = IsLastPass(pass_number + 1)
    /\ WriteScanHeader(SelectedScan)

(* An output pass after a statistics pass keeps that pass's parameters.    *)
PrepareOutput ==
    /\ NextPass
    /\ pass_type = "output"
    /\ optimize_coding \/ Selectable
    /\ LET scan == IF optimize_coding THEN current ELSE SelectedScan
       IN  current' = scan /\ WriteScanHeader(scan)
    /\ is_last_pass' = IsLastPass(pass_number)
    /\ UNCHANGED <<pass_type, pass_number>>

-----------------------------------------------------------------------------
(* finish_pass.                                                            *)

(* Mutant: a new table keeps the mark of the old one.                      *)
FinishHuffOptUnmarked ==
    /\ phase = "pass"
    /\ pass_type = "huff_opt"
    /\ tables' = [t \in Tables |-> IF t \in Needs(current) THEN scan_number + 1 ELSE tables[t]]
    /\ pass_type' = "output"
    /\ pass_number' = pass_number + 1
    /\ phase' = "between"
    /\ UNCHANGED <<setup, script, scan_number, is_last_pass, current, sent_table, decoder>>

(* Mutant: every pass moves on to the next scan.                           *)
FinishHuffOptAdvancing ==
    /\ phase = "pass"
    /\ pass_type = "huff_opt"
    /\ tables' = [t \in Tables |-> IF t \in Needs(current) THEN scan_number + 1 ELSE tables[t]]
    /\ sent_table' = [t \in Tables |-> t \notin Needs(current) /\ sent_table[t]]
    /\ pass_type' = "output"
    /\ pass_number' = pass_number + 1
    /\ scan_number' = scan_number + 1
    /\ phase' = "between"
    /\ UNCHANGED <<setup, script, is_last_pass, current, decoder>>

(* jpeg_gen_optimal_table for each table of the scan.                      *)
FinishHuffOpt ==
    /\ phase = "pass"
    /\ pass_type = "huff_opt"
    /\ tables' = [t \in Tables |-> IF t \in Needs(current) THEN scan_number + 1 ELSE tables[t]]
    /\ sent_table' = [t \in Tables |-> t \notin Needs(current) /\ sent_table[t]]
    /\ pass_type' = "output"
    /\ pass_number' = pass_number + 1
    /\ phase' = "between"
    /\ UNCHANGED <<setup, script, scan_number, is_last_pass, current, decoder>>

(* The data of the scan has been written.                                  *)
Deliver(scan) ==
    coef_bits' = [ck \in Component \X Coefficients |->
                    IF ck[1] \in ComponentsOf(scan) /\ ck[2] \in Band(scan)
                    THEN scan.Al ELSE coef_bits[ck]]

(* Mutant: the scan number stays.                                          *)
FinishOutputRepeating ==
    /\ phase = "pass"
    /\ pass_type = "output"
    /\ Deliver(current)
    /\ pass_type' = IF optimize_coding THEN "huff_opt" ELSE "output"
    /\ pass_number' = pass_number + 1
    /\ phase' = "between"
    /\ UNCHANGED <<setup, script, scan_number, is_last_pass, current, huffman, known>>

FinishOutput ==
    /\ phase = "pass"
    /\ pass_type = "output"
    /\ Deliver(current)
    /\ pass_type' = IF optimize_coding THEN "huff_opt" ELSE "output"
    /\ scan_number' = scan_number + 1
    /\ pass_number' = pass_number + 1
    /\ phase' = "between"
    /\ UNCHANGED <<setup, script, is_last_pass, current, huffman, known>>

(* After the last pass: write_file_trailer, term_destination.              *)
WriteTrailer ==
    /\ phase = "between"
    /\ is_last_pass
    /\ phase' = "done"
    /\ UNCHANGED <<setup, script, master, current, huffman, decoder>>

(* Any call in between may end in an error: no memory, no space left, too  *)
(* many blocks in an MCU, a symbol without a code.                         *)
Abandon ==
    /\ phase \in {"between", "pass"}
    /\ phase' = "failed"
    /\ UNCHANGED <<setup, script, master, current, huffman, decoder>>

Ended == phase \in {"done", "rejected", "failed"}

Progress ==
    \/ StartCompress \/ PrepareHuffOpt \/ SkipHuffOpt \/ PrepareOutput
    \/ FinishHuffOpt \/ FinishOutput \/ WriteTrailer

Next == Progress \/ Reject \/ Abandon \/ (Ended /\ UNCHANGED vars)

Spec == Init /\ [][Next]_vars

-----------------------------------------------------------------------------
(* Properties.                                                             *)

Writing == phase = "pass" /\ pass_type = "output"

(* jcmaster.c:327 indexes the script without a check: whenever another     *)
(* pass is due, its scan is within the script jpeg_simple_progression      *)
(* wrote.                                                                  *)
ScanWithinScript ==
    /\ phase = "between" /\ ~is_last_pass => scan_number < num_scans
    /\ scan_info # <<>> => num_scans = Len(scan_info)

(* jcmaster.c:501-505 does not select the scan again after a statistics    *)
(* pass: the scan that is written is the one that is due.                  *)
WritesDueScan == Writing => current = SelectedScan

(* jcmaster.c:486 and 620: a progressive scan is coded with tables made    *)
(* from its own statistics, for other tables may lack its symbols.         *)
TablesFitScan ==
    Writing /\ optimize_coding => \A t \in Needs(current) : tables[t] = scan_number + 1

(* jcmarker.c:207 leaves out a table marked as sent: the decoder has the   *)
(* very tables the scan is coded with.                                     *)
TablesReachDecoder ==
    Writing => \A t \in Needs(current) : known[t] = tables[t]

(* jdphuff.c:126-144: a decoder finds each scan to carry on where the      *)
(* scans before it stopped, and never warns of a bogus progression.        *)
DecoderAccepts ==
    Writing => \A c \in ComponentsOf(current), k \in Band(current) :
        /\ current.Ss # 0 => coef_bits[c, 0] >= 0
        /\ current.Ah = IF coef_bits[c, k] < 0 THEN 0 ELSE coef_bits[c, k]

(* jcmaster.c:297 checks no more than that some DC bits are sent; yet a    *)
(* finished file has every coefficient of every component to its last bit, *)
(* so that re-encoding loses nothing.                                      *)
EverythingSent ==
    phase = "done" => \A c \in 0 .. image.num_components - 1, k \in Coefficients :
                          coef_bits[c, k] = 0

(* The scans are written one after the other, all of them before EOI.      *)
Sequence == INSTANCE ScanSequence WITH
    status <- CASE phase = "start" -> "idle"
                [] phase \in {"between", "pass"} -> "writing"
                [] phase = "done" -> "ended"
                [] phase \in {"rejected", "failed"} -> "abandoned",
    total <- IF phase \in {"start", "rejected"} THEN 0 ELSE num_scans,
    written <- scan_number

SequenceSpec == Sequence!Spec
=============================================================================
