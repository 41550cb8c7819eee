------------------------ MODULE CompressMasterProofs ------------------------
(***************************************************************************)
(* Proofs about CompressMaster for every set of images and every choice of *)
(* the coefficients that are tracked.                                      *)
(***************************************************************************)
EXTENDS CompressMaster, TLAPS, SequenceTheorems

-----------------------------------------------------------------------------
(* The script of jpeg_simple_progression.                                  *)

(* A function on 1 .. n is a sequence of length n.                         *)
LEMMA FunctionIsSequence ==
    ASSUME NEW S, NEW n \in Nat, NEW f \in [1 .. n -> S]
    PROVE  f \in Seq(S) /\ Len(f) = n
<1>1. f \in Seq(S)
  BY SeqDef
<1>2. DOMAIN f = 1 .. n /\ DOMAIN f = 1 .. Len(f) /\ Len(f) \in Nat
  BY <1>1, LenProperties
<1> QED
  BY <1>1, <1>2

(* s is a script of n scans.                                               *)
IsScript(s, n) == s \in Seq(Scan) /\ Len(s) = n

(* Scripts are put together one after the other.                           *)
LEMMA ScriptsJoined ==
    ASSUME NEW s, NEW t, NEW m \in Nat, NEW n \in Nat, IsScript(s, m), IsScript(t, n)
    PROVE  IsScript(s \o t, m + n)
  BY ConcatProperties DEF IsScript

(* fill_a_scan writes one entry.                                           *)
LEMMA OneScan ==
    ASSUME NEW ci \in Component, NEW Ss \in 0 .. DCTSIZE2 - 1, NEW Se \in 0 .. DCTSIZE2 - 1,
           NEW Ah \in 0 .. MAX_AH_AL, NEW Al \in 0 .. MAX_AH_AL
    PROVE  IsScript(fill_a_scan(ci, Ss, Se, Ah, Al), 1)
<1>1. <<ci>> \in Seq(Component)
  OBVIOUS
<1>2. ScanOf(<<ci>>, Ss, Se, Ah, Al) \in Scan
  BY <1>1 DEF ScanOf, Scan
<1> QED
  BY <1>2 DEF fill_a_scan, IsScript

(* fill_scans writes one entry for each component.                         *)
LEMMA ScanForEach ==
    ASSUME NEW n \in 1 .. MAX_COMPONENTS,
           NEW Ss \in 0 .. DCTSIZE2 - 1, NEW Se \in 0 .. DCTSIZE2 - 1,
           NEW Ah \in 0 .. MAX_AH_AL, NEW Al \in 0 .. MAX_AH_AL
    PROVE  IsScript(fill_scans(n, Ss, Se, Ah, Al), n)
<1>1. n \in Nat
  BY DEF MAX_COMPONENTS
<1>2. ASSUME NEW i \in 1 .. n
      PROVE  ScanOf(<<i - 1>>, Ss, Se, Ah, Al) \in Scan
  <2>1. i - 1 \in Component
    BY <1>1, <1>2 DEF Component, MAX_COMPONENTS
  <2>2. <<i - 1>> \in Seq(Component)
    BY <2>1
  <2> QED
    BY <2>2 DEF ScanOf, Scan
<1>3. fill_scans(n, Ss, Se, Ah, Al) \in [1 .. n -> Scan]
  BY <1>2 DEF fill_scans
<1> QED
  BY <1>1, <1>3, FunctionIsSequence DEF IsScript

(* fill_dc_scans writes one entry, or one for each component.              *)
LEMMA DCScans ==
    ASSUME NEW n \in 1 .. MAX_COMPONENTS,
           NEW Ah \in 0 .. MAX_AH_AL, NEW Al \in 0 .. MAX_AH_AL
    PROVE  IsScript(fill_dc_scans(n, Ah, Al), IF n <= MAX_COMPS_IN_SCAN THEN 1 ELSE n)
<1>1. n \in Nat
  BY DEF MAX_COMPONENTS
<1>2. CASE n <= MAX_COMPS_IN_SCAN
  <2> DEFINE comps == [i \in 1 .. n |-> i - 1]
  <2>1. comps \in [1 .. n -> Component]
    BY <1>1 DEF Component, MAX_COMPONENTS
  <2>2. comps \in Seq(Component)
    BY <1>1, <2>1, FunctionIsSequence
  <2> HIDE DEF comps
  <2>3. ScanOf(comps, 0, 0, Ah, Al) \in Scan
    BY <2>2 DEF ScanOf, Scan, DCTSIZE2
  <2>4. fill_dc_scans(n, Ah, Al) = <<ScanOf(comps, 0, 0, Ah, Al)>>
    BY <1>2 DEF fill_dc_scans, comps
  <2> QED
    BY <1>2, <2>3, <2>4 DEF IsScript
<1>3. CASE ~(n <= MAX_COMPS_IN_SCAN)
  <2>1. 0 \in 0 .. DCTSIZE2 - 1
    BY DEF DCTSIZE2
  <2>2. IsScript(fill_scans(n, 0, 0, Ah, Al), n)
    BY <2>1, ScanForEach
  <2> QED
    BY <1>3, <2>2 DEF fill_dc_scans
<1> QED
  BY <1>2, <1>3

(* The script is made of scans, and the count jpeg_simple_progression      *)
(* computes first, to allocate room, is the number of scans it fills in.   *)
LEMMA ScriptFits ==
    ASSUME NEW im \in [num_components : 1 .. MAX_COMPONENTS, space : Spaces],
           im.space = "YCbCr" => im.num_components = 3
    PROVE  /\ IsScript(ScriptOf(im), ScriptSize(im))
           /\ ScriptSize(im) \in 1 .. MaxScans
<1> DEFINE n == im.num_components
<1>1. n \in 1 .. MAX_COMPONENTS /\ n \in Nat
  BY DEF MAX_COMPONENTS
<1>2. /\ 0 \in Component /\ 1 \in Component /\ 2 \in Component
      /\ 1 \in 0 .. DCTSIZE2 - 1 /\ 5 \in 0 .. DCTSIZE2 - 1
      /\ 6 \in 0 .. DCTSIZE2 - 1 /\ 63 \in 0 .. DCTSIZE2 - 1
      /\ 0 \in 0 .. MAX_AH_AL /\ 1 \in 0 .. MAX_AH_AL /\ 2 \in 0 .. MAX_AH_AL
  BY DEF Component, DCTSIZE2, MAX_AH_AL, MAX_COMPONENTS
<1> HIDE DEF n
<1> DEFINE dc == IF n <= MAX_COMPS_IN_SCAN THEN 1 ELSE n
<1>3. IsScript(fill_dc_scans(n, 0, 1), dc) /\ IsScript(fill_dc_scans(n, 1, 0), dc)
  BY <1>1, <1>2, DCScans
<1>4. dc \in Nat
  BY <1>1
<1>5. CASE im.space = "YCbCr"
  <2>1. n = 3
    BY <1>5 DEF n
  <2> DEFINE a == fill_dc_scans(n, 0, 1)
             b == fill_a_scan(0, 1, 5, 0, 2)
             c == fill_a_scan(2, 1, 63, 0, 1)
             d == fill_a_scan(1, 1, 63, 0, 1)
             e == fill_a_scan(0, 6, 63, 0, 2)
             f == fill_a_scan(0, 1, 63, 2, 1)
             g == fill_dc_scans(n, 1, 0)
             h == fill_a_scan(2, 1, 63, 1, 0)
             i == fill_a_scan(1, 1, 63, 1, 0)
             j == fill_a_scan(0, 1, 63, 1, 0)
  <2>2. dc = 1
    BY <2>1 DEF MAX_COMPS_IN_SCAN
  <2>3. IsScript(a, 1) /\ IsScript(g, 1)
    BY <1>3, <2>2
  <2>4. IsScript(b, 1) /\ IsScript(c, 1) /\ IsScript(d, 1) /\ IsScript(e, 1)
    BY <1>2, OneScan, Zenon
  <2>5. IsScript(f, 1) /\ IsScript(h, 1) /\ IsScript(i, 1) /\ IsScript(j, 1)
    BY <1>2, OneScan, Zenon
  <2>6. ScriptOf(im) = a \o b \o c \o d \o e \o f \o g \o h \o i \o j
    BY <1>5 DEF ScriptOf, n
  <2> HIDE DEF a, b, c, d, e, f, g, h, i, j
  <2>7. \A s, t, m : m \in Nat /\ IsScript(s, m) /\ IsScript(t, 1) => IsScript(s \o t, m + 1)
    BY ScriptsJoined
  <2>8. IsScript(a \o b, 2)
    BY <2>3, <2>4, <2>7
  <2>9. IsScript(a \o b \o c, 3)
    BY <2>4, <2>7, <2>8
  <2>10. IsScript(a \o b \o c \o d, 4)
    BY <2>4, <2>7, <2>9
  <2>11. IsScript(a \o b \o c \o d \o e, 5)
    BY <2>4, <2>7, <2>10
  <2>12. IsScript(a \o b \o c \o d \o e \o f, 6)
    BY <2>5, <2>7, <2>11
  <2>13. IsScript(a \o b \o c \o d \o e \o f \o g, 7)
    BY <2>3, <2>7, <2>12
  <2>14. IsScript(a \o b \o c \o d \o e \o f \o g \o h, 8)
    BY <2>5, <2>7, <2>13
  <2>15. IsScript(a \o b \o c \o d \o e \o f \o g \o h \o i, 9)
    BY <2>5, <2>7, <2>14
  <2>16. IsScript(a \o b \o c \o d \o e \o f \o g \o h \o i \o j, 10)
    <3>1. 9 \in Nat /\ 9 + 1 = 10
      OBVIOUS
    <3>2. IsScript(j, 1)
      BY <2>5
    <3> QED
      BY <2>7, <2>15, <3>1, <3>2
  <2>17. ScriptSize(im) = 10 /\ 10 \in 1 .. MaxScans
    BY <1>5 DEF ScriptSize, MaxScans, MAX_COMPONENTS
  <2> QED
    BY <2>6, <2>16, <2>17
<1>6. CASE im.space # "YCbCr"
  <2> DEFINE a == fill_dc_scans(n, 0, 1)
             b == fill_scans(n, 1, 5, 0, 2)
             c == fill_scans(n, 6, 63, 0, 2)
             d == fill_scans(n, 1, 63, 2, 1)
             e == fill_dc_scans(n, 1, 0)
             f == fill_scans(n, 1, 63, 1, 0)
  <2>1. IsScript(a, dc) /\ IsScript(e, dc)
    BY <1>3
  <2>2. IsScript(b, n) /\ IsScript(c, n) /\ IsScript(d, n) /\ IsScript(f, n)
    BY <1>1, <1>2, ScanForEach, Zenon
  <2>3. ScriptOf(im) = a \o b \o c \o d \o e \o f
    BY <1>6 DEF ScriptOf, n
  <2>4. dc + n + n + n + dc + n = ScriptSize(im)
    BY <1>1, <1>6 DEF ScriptSize, n, MAX_COMPS_IN_SCAN
  <2>5. ScriptSize(im) \in 1 .. MaxScans
    <3>1. n <= 10 /\ n >= 1
      BY <1>1 DEF MAX_COMPONENTS
    <3> QED
      BY <1>1, <1>6, <3>1 DEF ScriptSize, n, MaxScans, MAX_COMPS_IN_SCAN, MAX_COMPONENTS
  <2> HIDE DEF dc, a, b, c, d, e, f
  <2>6. IsScript(a \o b, dc + n)
    BY <1>1, <1>4, <2>1, <2>2, ScriptsJoined
  <2>7. dc + n \in Nat /\ dc + n + n \in Nat /\ dc + n + n + n \in Nat
        /\ dc + n + n + n + dc \in Nat
    BY <1>1, <1>4
  <2>8. IsScript(a \o b \o c, dc + n + n)
    BY <1>1, <2>2, <2>6, <2>7, ScriptsJoined
  <2>9. IsScript(a \o b \o c \o d, dc + n + n + n)
    BY <1>1, <2>2, <2>7, <2>8, ScriptsJoined
  <2>10. IsScript(a \o b \o c \o d \o e, dc + n + n + n + dc)
    BY <1>4, <2>1, <2>7, <2>9, ScriptsJoined
  <2>11. IsScript(a \o b \o c \o d \o e \o f, dc + n + n + n + dc + n)
    BY <1>1, <2>2, <2>7, <2>10, ScriptsJoined
  <2> QED
    BY <2>3, <2>4, <2>5, <2>11
<1> QED
  BY <1>5, <1>6

-----------------------------------------------------------------------------
(* The passes.                                                             *)

(* The scan script and the options, before and after jinit_c_master_control *)
(* has looked at them.                                                     *)
SetupInv ==
    /\ image \in Images
    /\ scan_info \in Seq(Scan)
    /\ num_scans \in 0 .. MaxScans
    /\ scan_info # <<>> => num_scans = Len(scan_info)
    /\ optimize_coding \in BOOLEAN
    /\ phase \in Phases
    /\ pass_type \in PassTypes
    /\ phase \in {"between", "pass"} =>
          /\ num_scans # 0
          /\ scan_info = <<>> => num_scans = 1
          /\ scan_info # <<>> => ValidScript(scan_info, image.num_components)

(* Passes and scans are counted in step, and the last pass is the one that *)
(* writes the last scan.                                                   *)
PassInv ==
    /\ pass_number \in Nat
    /\ scan_number \in Nat
    /\ is_last_pass \in BOOLEAN
    /\ scan_number <= num_scans
    /\ pass_number <= 2 * num_scans
    /\ phase = "start" => scan_number = 0 /\ pass_number = 0
    /\ phase \in {"between", "pass"} =>
          IF optimize_coding
          THEN pass_number = 2 * scan_number + (IF pass_type = "output" THEN 1 ELSE 0)
          ELSE pass_type = "output" /\ pass_number = scan_number
    /\ phase = "pass" =>
          /\ scan_number < num_scans
          /\ is_last_pass <=> pass_number = TotalPasses - 1
    /\ phase = "between" =>
          /\ is_last_pass <=> scan_number = num_scans
          /\ optimize_coding /\ pass_type = "output" => scan_number < num_scans
    /\ phase = "done" => scan_number = num_scans

(* The initial states satisfy the invariant.                               *)
LEMMA InitSetup == Init => SetupInv /\ PassInv
<1> SUFFICES ASSUME Init PROVE SetupInv /\ PassInv
  OBVIOUS
<1>1. /\ image \in Images
      /\ image \in [num_components : 1 .. MAX_COMPONENTS, space : Spaces]
      /\ image.space = "YCbCr" => image.num_components = 3
  BY ImagesAssumption DEF Init
<1>2. IsScript(ScriptOf(image), ScriptSize(image)) /\ ScriptSize(image) \in 1 .. MaxScans
  BY <1>1, ScriptFits
<1>3. /\ scan_info \in Seq(Scan)
      /\ num_scans \in 0 .. MaxScans
      /\ scan_info # <<>> => num_scans = Len(scan_info)
  <2>1. CASE scan_info = <<>> /\ num_scans = 0
    BY <2>1 DEF MaxScans, MAX_COMPONENTS
  <2>2. CASE scan_info = ScriptOf(image) /\ num_scans = ScriptSize(image)
    BY <1>2, <2>2 DEF IsScript, MaxScans, MAX_COMPONENTS
  <2> QED
    BY <2>1, <2>2 DEF Init
<1>4. SetupInv
  BY <1>1, <1>3 DEF Init, SetupInv, Phases, PassTypes
<1>5. num_scans \in Nat
  BY <1>3 DEF MaxScans, MAX_COMPONENTS
<1>6. is_last_pass \in BOOLEAN /\ phase = "start" /\ pass_number = 0 /\ scan_number = 0
  BY DEF Init
<1>7. PassInv
  BY <1>5, <1>6 DEF PassInv
<1> QED
  BY <1>4, <1>7

(* Every step preserves the invariant of the setup.                        *)
LEMMA NextSetup == SetupInv /\ [Next]_vars => SetupInv'
<1> SUFFICES ASSUME SetupInv, [Next]_vars PROVE SetupInv'
  OBVIOUS
<1> USE DEF SetupInv, setup, script
<1>1. CASE StartCompress
  <2>1. (num_scans \in 0 .. MaxScans /\ num_scans # 0)'
    <3>1. scan_info # <<>> => num_scans # 0
      BY EmptySeq
    <3> QED
      BY <1>1, <3>1 DEF StartCompress, MaxScans, MAX_COMPONENTS
  <2>2. (scan_info # <<>> => ValidScript(scan_info, image.num_components))'
    BY <1>1 DEF StartCompress
  <2> QED
    BY <1>1, <2>1, <2>2 DEF StartCompress, Phases, PassTypes
<1>2. CASE Reject
  BY <1>2 DEF Reject, Phases, master
<1>3. CASE PrepareHuffOpt
  BY <1>3 DEF PrepareHuffOpt, NextPass, Phases
<1>4. CASE SkipHuffOpt
  BY <1>4 DEF SkipHuffOpt, NextPass, Phases, PassTypes
<1>5. CASE PrepareOutput
  BY <1>5 DEF PrepareOutput, NextPass, Phases
<1>6. CASE FinishHuffOpt
  BY <1>6 DEF FinishHuffOpt, Phases, PassTypes
<1>7. CASE FinishOutput
  BY <1>7 DEF FinishOutput, Phases, PassTypes
<1>8. CASE WriteTrailer
  BY <1>8 DEF WriteTrailer, Phases, master
<1>9. CASE Abandon
  BY <1>9 DEF Abandon, Phases, master
<1>10. CASE UNCHANGED vars
  BY <1>10 DEF vars, master
<1> QED
  BY <1>1, <1>2, <1>3, <1>4, <1>5, <1>6, <1>7, <1>8, <1>9, <1>10 DEF Next, Progress

(* Every step keeps the counts of passes and scans in step.                *)
LEMMA NextPasses == SetupInv /\ PassInv /\ [Next]_vars => PassInv'
<1> SUFFICES ASSUME SetupInv, PassInv, [Next]_vars PROVE PassInv'
  OBVIOUS
<1>0. num_scans \in Nat /\ optimize_coding \in BOOLEAN
  BY DEF SetupInv, MaxScans, MAX_COMPONENTS
<1> USE <1>0 DEF PassInv, TotalPasses, setup, script
<1>1. CASE StartCompress
  <2>1. num_scans' \in Nat /\ num_scans' # 0
    BY <1>1, EmptySeq DEF StartCompress, SetupInv
  <2>2. phase' = "between" /\ pass_number' = 0 /\ scan_number' = 0 /\ ~is_last_pass'
    BY <1>1 DEF StartCompress
  <2>3. pass_type' = IF optimize_coding' THEN "huff_opt" ELSE "output"
    BY <1>1 DEF StartCompress
  <2>4. is_last_pass' \in BOOLEAN
    BY <1>1 DEF StartCompress
  <2>5. 0 <= num_scans' /\ 0 <= 2 * num_scans' /\ 0 # num_scans'
    <3>1. \A n \in Nat \ {0} : 0 <= n /\ 0 <= 2 * n /\ 0 # n
      OBVIOUS
    <3> QED
      BY <2>1, <3>1
  <2> QED
    BY <2>2, <2>3, <2>4, <2>5
<1>2. CASE Reject
  BY <1>2 DEF Reject, master
<1>3. CASE PrepareHuffOpt
  BY <1>3 DEF PrepareHuffOpt, NextPass, IsLastPass
<1>4. CASE SkipHuffOpt
  BY <1>4 DEF SkipHuffOpt, NextPass, IsLastPass
<1>5. CASE PrepareOutput
  <2>1. /\ phase = "between" /\ ~is_last_pass /\ pass_type = "output"
        /\ phase' = "pass"
        /\ is_last_pass' = (pass_number = TotalPasses - 1)
        /\ UNCHANGED <<pass_type, pass_number, scan_number, num_scans, optimize_coding>>
    BY <1>5 DEF PrepareOutput, NextPass, IsLastPass
  <2>2. scan_number < num_scans
    BY <2>1
  <2>3. is_last_pass' \in BOOLEAN
    BY <2>1
  <2>4. IF optimize_coding THEN pass_number = 2 * scan_number + 1 ELSE pass_number = scan_number
    BY <2>1
  <2> QED
    BY <2>1, <2>2, <2>3, <2>4
<1>6. CASE FinishHuffOpt
  BY <1>6 DEF FinishHuffOpt
<1>7. CASE FinishOutput
  BY <1>7 DEF FinishOutput
<1>8. CASE WriteTrailer
  BY <1>8 DEF WriteTrailer, master
<1>9. CASE Abandon
  BY <1>9 DEF Abandon, master
<1>10. CASE UNCHANGED vars
  BY <1>10 DEF vars, master
<1> QED
  BY <1>1, <1>2, <1>3, <1>4, <1>5, <1>6, <1>7, <1>8, <1>9, <1>10 DEF Next, Progress

(* jinit_c_master_control, prepare_for_pass and finish_pass_master keep    *)
(* both invariants in every reachable state.                               *)
THEOREM PassesCounted == Spec => [](SetupInv /\ PassInv)
<1>1. SetupInv /\ PassInv /\ [Next]_vars => (SetupInv /\ PassInv)'
  BY NextSetup, NextPasses
<1> QED
  BY <1>1, InitSetup, PTL DEF Spec

(* Before another pass is prepared its scan is within the script, whatever *)
(* the script is: prepare_for_pass may index scan_info without a check.    *)
THEOREM IndexInBounds == Spec => []ScanWithinScript
<1>1. SetupInv /\ PassInv => ScanWithinScript
  <2> SUFFICES ASSUME SetupInv, PassInv, phase = "between", ~is_last_pass
               PROVE  scan_number < num_scans
    BY DEF ScanWithinScript, SetupInv
  <2> QED
    BY DEF SetupInv, PassInv, MaxScans, MAX_COMPONENTS
<1> QED
  BY <1>1, PassesCounted, PTL

-----------------------------------------------------------------------------
(* The Huffman tables.                                                     *)

(* What each table holds, what the decoder has of it, and which scan the   *)
(* parameters in the compressor are those of.                              *)
TablesInv ==
    /\ current \in Scan
    /\ tables \in [Tables -> 0 .. MaxScans]
    /\ sent_table \in [Tables -> BOOLEAN]
    /\ known \in [Tables -> -1 .. MaxScans]
    /\ coef_bits \in [Component \X Coefficients -> -1 .. MAX_AH_AL]
    /\ \A t \in Tables : sent_table[t] => known[t] = tables[t]
    /\ phase = "pass" => current = SelectedScan
    /\ phase = "between" /\ optimize_coding /\ pass_type = "output" => current = SelectedScan
    /\ phase \in {"between", "pass"} /\ optimize_coding /\ pass_type = "output" =>
          \A t \in Needs(current) : tables[t] = scan_number + 1
    /\ phase = "pass" /\ pass_type = "output" => \A t \in Needs(current) : sent_table[t]

(* A scan uses tables there are.                                           *)
LEMMA NeedsTables == \A scan : Needs(scan) \subseteq Tables
  BY DEF Needs, Tables, TableNumber

(* The one scan of a file without a script.                                *)
LEMMA SequentialScanType ==
    ASSUME NEW im, im.num_components \in 1 .. MAX_COMPONENTS
    PROVE  SequentialScan(im) \in Scan
<1> DEFINE n == im.num_components
           comps == [i \in 1 .. n |-> i - 1]
<1>1. n \in Nat /\ comps \in [1 .. n -> Component]
  BY DEF MAX_COMPONENTS, Component
<1>2. comps \in Seq(Component)
  BY <1>1, FunctionIsSequence
<1> HIDE DEF comps
<1>3. ScanOf(comps, 0, DCTSIZE2 - 1, 0, 0) \in Scan
  BY <1>2 DEF ScanOf, Scan, DCTSIZE2, MAX_AH_AL
<1> QED
  BY <1>3 DEF SequentialScan, comps

(* The scan that is due is a scan.                                         *)
LEMMA SelectedScanType ==
    ASSUME SetupInv, PassInv, scan_number < num_scans
    PROVE  SelectedScan \in Scan
<1>1. CASE scan_info = <<>>
  <2>1. image.num_components \in 1 .. MAX_COMPONENTS
    BY ImagesAssumption DEF SetupInv
  <2> QED
    BY <1>1, <2>1, SequentialScanType DEF SelectedScan
<1>2. CASE scan_info # <<>>
  <2>1. scan_number + 1 \in 1 .. Len(scan_info)
    BY <1>2 DEF SetupInv, PassInv, MaxScans, MAX_COMPONENTS
  <2>2. scan_info[scan_number + 1] \in Scan
    BY <2>1, ElementOfSeq DEF SetupInv
  <2> QED
    BY <1>2, <2>2 DEF SelectedScan
<1> QED
  BY <1>1, <1>2

(* prepare_for_pass may skip the statistics pass of a scan with Ss = 0 and *)
(* Ah # 0: since validate_script let the script pass, it sends DC bits     *)
(* only, and those are not coded with a table.                             *)
LEMMA SkippedScanNeedsNone ==
    ASSUME SetupInv, PassInv, phase = "between", scan_number < num_scans,
           ~NeedsStatistics(SelectedScan)
    PROVE  Needs(SelectedScan) = {}
<1>1. SelectedScan.Ss = 0 /\ SelectedScan.Ah # 0
  BY DEF NeedsStatistics
<1>2. scan_info # <<>>
  BY <1>1 DEF SelectedScan, SequentialScan, ScanOf
<1>3. scan_number + 1 \in DOMAIN scan_info
  BY <1>2, LenProperties DEF SetupInv, PassInv, MaxScans, MAX_COMPONENTS
<1>4. SelectedScan = scan_info[scan_number + 1]
  BY <1>2 DEF SelectedScan
<1>5. IF IsProgressive(scan_info) THEN ValidProgressiveScan(scan_info, scan_number + 1)
      ELSE ValidSequentialScan(scan_info, scan_number + 1)
  BY <1>2, <1>3 DEF SetupInv, ValidScript
<1>6. SelectedScan.Se = 0
  BY <1>1, <1>4, <1>5 DEF ValidProgressiveScan, ValidSequentialScan
<1> QED
  BY <1>1, <1>6 DEF Needs

(* No table has been written yet.                                          *)
LEMMA InitTables == Init => TablesInv
<1> SUFFICES ASSUME Init PROVE TablesInv
  OBVIOUS
<1>1. image.num_components \in 1 .. MAX_COMPONENTS
  BY ImagesAssumption DEF Init
<1>2. current \in Scan
  BY <1>1, SequentialScanType DEF Init
<1>3. /\ tables \in [Tables -> 0 .. MaxScans]
      /\ sent_table \in [Tables -> BOOLEAN]
      /\ known \in [Tables -> -1 .. MaxScans]
      /\ coef_bits \in [Component \X Coefficients -> -1 .. MAX_AH_AL]
  BY DEF Init, MaxScans, MAX_COMPONENTS, MAX_AH_AL
<1>4. \A t \in Tables : ~sent_table[t]
  BY DEF Init
<1> QED
  BY <1>2, <1>3, <1>4 DEF Init, TablesInv

(* write_scan_header leaves the decoder with every table the scan needs.   *)
LEMMA HeaderSendsTables ==
    ASSUME NEW scan, TablesInv, WriteScanHeader(scan)
    PROVE  /\ sent_table' \in [Tables -> BOOLEAN]
           /\ known' \in [Tables -> -1 .. MaxScans]
           /\ tables' = tables /\ coef_bits' = coef_bits
           /\ \A t \in Tables : sent_table'[t] => known'[t] = tables[t]
           /\ \A t \in Needs(scan) : sent_table'[t]
<1> DEFINE new == {t \in Needs(scan) : ~sent_table[t]}
<1>1. new \subseteq Tables
  BY NeedsTables
<1>2. known' = [t \in Tables |-> IF t \in new THEN tables[t] ELSE known[t]]
  BY DEF WriteScanHeader
<1>3. sent_table' = [t \in Tables |-> t \in new \/ sent_table[t]]
  BY DEF WriteScanHeader
<1>4. UNCHANGED <<tables, coef_bits>>
  BY DEF WriteScanHeader
<1>5. \A t \in Needs(scan) : t \in new \/ sent_table[t]
  OBVIOUS
<1> HIDE DEF new
<1>6. \A t \in Tables : sent_table'[t] <=> (t \in new \/ sent_table[t])
  BY <1>3
<1>7. sent_table' \in [Tables -> BOOLEAN]
  BY <1>3 DEF TablesInv
<1>8. known' \in [Tables -> -1 .. MaxScans]
  BY <1>2 DEF TablesInv, MaxScans, MAX_COMPONENTS
<1>9. \A t \in Tables : sent_table'[t] => known'[t] = tables[t]
  BY <1>2, <1>6 DEF TablesInv
<1> QED
  BY <1>4, <1>5, <1>6, <1>7, <1>8, <1>9, NeedsTables

(* A step that prepares a pass for the due scan, and writes no header.     *)
LEMMA NextTables == SetupInv /\ PassInv /\ TablesInv /\ [Next]_vars => TablesInv'
<1> SUFFICES ASSUME SetupInv, PassInv, TablesInv, [Next]_vars PROVE TablesInv'
  OBVIOUS
<1> USE DEF setup, script, decoder, huffman
<1>0. num_scans \in Nat /\ num_scans <= MaxScans /\ MaxScans \in Nat /\ scan_number \in Nat
  BY DEF SetupInv, PassInv, MaxScans, MAX_COMPONENTS
<1>1. CASE StartCompress
  <2>1. phase' = "between" /\ (pass_type' = "output" => ~optimize_coding')
    BY <1>1 DEF StartCompress
  <2>2. UNCHANGED <<current, tables, sent_table, known, coef_bits>>
    BY <1>1 DEF StartCompress
  <2> QED
    BY <2>1, <2>2 DEF TablesInv
<1>2. CASE Reject \/ WriteTrailer \/ Abandon
  <2>1. phase' \notin {"between", "pass"}
    BY <1>2 DEF Reject, WriteTrailer, Abandon
  <2>2. UNCHANGED <<current, tables, sent_table, known, coef_bits>>
    BY <1>2 DEF Reject, WriteTrailer, Abandon
  <2> QED
    BY <2>1, <2>2 DEF TablesInv
<1>3. CASE PrepareHuffOpt
  <2>1. scan_number < num_scans
    BY <1>0, <1>3 DEF PrepareHuffOpt, NextPass, SetupInv, PassInv
  <2>2. SelectedScan \in Scan
    BY <2>1, SelectedScanType
  <2>3. SelectedScan' = SelectedScan
    BY <1>3 DEF PrepareHuffOpt, NextPass, SelectedScan, SequentialScan
  <2>4. /\ phase' = "pass" /\ pass_type' = "huff_opt"
        /\ current' = SelectedScan
        /\ UNCHANGED <<tables, sent_table, known, coef_bits>>
    BY <1>3 DEF PrepareHuffOpt, NextPass
  <2> QED
    BY <2>2, <2>3, <2>4 DEF TablesInv
<1>4. CASE SkipHuffOpt
  <2>1. scan_number < num_scans
    BY <1>0, <1>4 DEF SkipHuffOpt, NextPass, SetupInv, PassInv
  <2>2. SelectedScan \in Scan
    BY <2>1, SelectedScanType
  <2>3. SelectedScan' = SelectedScan
    BY <1>4 DEF SkipHuffOpt, NextPass, SelectedScan, SequentialScan
  <2>4. phase = "between" /\ ~NeedsStatistics(SelectedScan)
    BY <1>4 DEF SkipHuffOpt, NextPass
  <2>5. Needs(SelectedScan) = {}
    BY <2>1, <2>4, SkippedScanNeedsNone
  <2>6. current' = SelectedScan /\ phase' = "pass" /\ UNCHANGED image
    BY <1>4 DEF SkipHuffOpt, NextPass
  <2>7. Needs(current)' = {}
    BY <2>5, <2>6 DEF Needs, TableNumber
  <2>8. WriteScanHeader(SelectedScan)
    BY <1>4 DEF SkipHuffOpt
  <2> QED
    BY <2>2, <2>3, <2>6, <2>7, <2>8, HeaderSendsTables DEF TablesInv
<1>5. CASE PrepareOutput
  <2> DEFINE scan == IF optimize_coding THEN current ELSE SelectedScan
  <2>1. /\ phase = "between" /\ ~is_last_pass /\ pass_type = "output"
        /\ phase' = "pass" /\ pass_type' = "output"
        /\ UNCHANGED <<image, scan_info, scan_number, num_scans, optimize_coding>>
        /\ current' = scan /\ WriteScanHeader(scan)
    BY <1>5 DEF PrepareOutput, NextPass
  <2>2. scan_number < num_scans
    BY <1>0, <2>1 DEF SetupInv, PassInv
  <2>3. SelectedScan \in Scan
    BY <2>2, SelectedScanType
  <2>4. scan = SelectedScan
    BY <2>1 DEF TablesInv
  <2>5. SelectedScan' = SelectedScan
    BY <2>1 DEF SelectedScan, SequentialScan
  <2>6. Needs(current)' = Needs(scan)
    BY <2>1 DEF Needs, TableNumber
  <2>7. optimize_coding => \A t \in Needs(scan) : tables[t] = scan_number + 1
    BY <2>1 DEF TablesInv
  <2> HIDE DEF scan
  <2>8. TablesInv!1' /\ TablesInv!7' /\ TablesInv!8'
    BY <2>1, <2>3, <2>4, <2>5
  <2>9. TablesInv!2' /\ TablesInv!3' /\ TablesInv!4' /\ TablesInv!5' /\ TablesInv!6'
    BY <2>1, HeaderSendsTables DEF TablesInv
  <2>10. TablesInv!9' /\ TablesInv!10'
    BY <2>1, <2>6, <2>7, HeaderSendsTables
  <2> QED
    BY <2>8, <2>9, <2>10 DEF TablesInv
<1>6. CASE FinishHuffOpt
  <2>1. scan_number < num_scans
    BY <1>6 DEF FinishHuffOpt, PassInv
  <2>2. scan_number + 1 \in 0 .. MaxScans
    BY <1>0, <2>1
  <2>3. /\ phase = "pass" /\ phase' = "between"
        /\ tables' = [t \in Tables |-> IF t \in Needs(current) THEN scan_number + 1 ELSE tables[t]]
        /\ sent_table' = [t \in Tables |-> t \notin Needs(current) /\ sent_table[t]]
        /\ UNCHANGED <<image, scan_info, scan_number, current, known, coef_bits>>
    BY <1>6 DEF FinishHuffOpt
  <2>4. SelectedScan' = SelectedScan /\ Needs(current)' = Needs(current)
    BY <2>3 DEF SelectedScan, SequentialScan, Needs, TableNumber
  <2>5. tables' \in [Tables -> 0 .. MaxScans] /\ sent_table' \in [Tables -> BOOLEAN]
    BY <2>2, <2>3 DEF TablesInv
  <2>6. \A t \in Tables : sent_table'[t] => known[t] = tables'[t]
    <3> SUFFICES ASSUME NEW t \in Tables, sent_table'[t] PROVE known[t] = tables'[t]
      OBVIOUS
    <3>1. t \notin Needs(current) /\ sent_table[t]
      BY <2>3
    <3> QED
      BY <2>3, <3>1 DEF TablesInv
  <2>7. \A t \in Needs(current) : tables'[t] = scan_number + 1
    BY <2>3, NeedsTables
  <2> QED
    BY <2>3, <2>4, <2>5, <2>6, <2>7 DEF TablesInv
<1>7. CASE FinishOutput
  <2>1. /\ phase' = "between" /\ (pass_type' = "output" => ~optimize_coding')
        /\ UNCHANGED <<current, tables, sent_table, known>>
        /\ Deliver(current)
    BY <1>7 DEF FinishOutput
  <2>2. current.Al \in 0 .. MAX_AH_AL
    BY DEF TablesInv, Scan
  <2>3. coef_bits' \in [Component \X Coefficients -> -1 .. MAX_AH_AL]
    BY <2>1, <2>2 DEF Deliver, TablesInv, MAX_AH_AL
  <2> QED
    BY <2>1, <2>3 DEF TablesInv
<1>8. CASE UNCHANGED vars
  <2>1. UNCHANGED <<image, scan_info, num_scans, optimize_coding, phase, pass_type, scan_number>>
    BY <1>8 DEF vars, master
  <2>2. UNCHANGED <<current, tables, sent_table, known, coef_bits>>
    BY <1>8 DEF vars
  <2>3. SelectedScan' = SelectedScan /\ Needs(current)' = Needs(current)
    BY <2>1, <2>2 DEF SelectedScan, SequentialScan, Needs, TableNumber
  <2> QED
    BY <2>1, <2>2, <2>3 DEF TablesInv
<1> QED
  BY <1>1, <1>2, <1>3, <1>4, <1>5, <1>6, <1>7, <1>8 DEF Next, Progress

(* The three parts together hold in every reachable state.                 *)
THEOREM TablesInStep == Spec => [](SetupInv /\ PassInv /\ TablesInv)
<1>1. SetupInv /\ PassInv /\ TablesInv /\ [Next]_vars => (SetupInv /\ PassInv /\ TablesInv)'
  BY NextSetup, NextPasses, NextTables
<1> QED
  BY <1>1, InitSetup, InitTables, PTL DEF Spec

(* Every variable has its type; in particular no pass and no table comes   *)
(* from beyond the largest script.                                         *)
THEOREM TypeCorrect == Spec => []TypeOK
<1>1. SetupInv /\ PassInv /\ TablesInv => TypeOK
  <2> SUFFICES ASSUME SetupInv, PassInv, TablesInv PROVE TypeOK
    OBVIOUS
  <2>1. pass_number \in 0 .. 2 * MaxScans /\ scan_number \in 0 .. MaxScans
    BY DEF SetupInv, PassInv, MaxScans, MAX_COMPONENTS
  <2>2. is_last_pass \in BOOLEAN
    BY DEF PassInv
  <2> QED
    BY <2>1, <2>2 DEF SetupInv, TablesInv, TypeOK
<1> QED
  BY <1>1, TablesInStep, PTL

(* The parameters the statistics pass selected are still those of the due  *)
(* scan when the output pass writes it.                                    *)
THEOREM OutputOfDueScan == Spec => []WritesDueScan
<1>1. TablesInv => WritesDueScan
  BY DEF TablesInv, WritesDueScan, Writing
<1> QED
  BY <1>1, TablesInStep, PTL

(* An optimized scan is coded with tables made from its own statistics.    *)
THEOREM OwnStatistics == Spec => []TablesFitScan
<1>1. TablesInv => TablesFitScan
  BY DEF TablesInv, TablesFitScan, Writing
<1> QED
  BY <1>1, TablesInStep, PTL

(* A table is left out of the file only if the decoder has it already.     *)
THEOREM DecoderHasTables == Spec => []TablesReachDecoder
<1>1. TablesInv => TablesReachDecoder
  BY NeedsTables DEF TablesInv, TablesReachDecoder, Writing
<1> QED
  BY <1>1, TablesInStep, PTL

-----------------------------------------------------------------------------
(* The passes implement the sequence of scans.                             *)

(* The walk over passes writes as many scans as it announced, and ends the *)
(* file after the last: every step is a step of ScanSequence or a stutter. *)
THEOREM WritesScanSequence == Spec => SequenceSpec
<1>1. Init => Sequence!Init
  BY DEF Init, Sequence!Init
<1>2. SetupInv /\ PassInv /\ [Next]_vars => [Sequence!Next]_Sequence!vars
  <2> SUFFICES ASSUME SetupInv, PassInv, [Next]_vars
               PROVE  [Sequence!Next]_Sequence!vars
    OBVIOUS
  <2> USE DEF Sequence!vars, setup, script
  <2>0. num_scans \in Nat /\ scan_number \in Nat
    BY DEF SetupInv, PassInv, MaxScans, MAX_COMPONENTS
  <2>1. CASE StartCompress
    <3>1. num_scans' \in Nat \ {0}
      BY <2>0, <2>1, EmptySeq DEF StartCompress, SetupInv
    <3>2. phase = "start" /\ phase' = "between" /\ scan_number' = 0 /\ scan_number = 0
      BY <2>1 DEF StartCompress, PassInv
    <3> QED
      BY <3>1, <3>2 DEF Sequence!Next, Sequence!Begin
  <2>2. CASE Reject
    BY <2>2 DEF Reject, master, Sequence!Next, Sequence!GiveUp
  <2>3. CASE PrepareHuffOpt
    BY <2>3 DEF PrepareHuffOpt, NextPass
  <2>4. CASE SkipHuffOpt
    BY <2>4 DEF SkipHuffOpt, NextPass
  <2>5. CASE PrepareOutput
    BY <2>5 DEF PrepareOutput, NextPass
  <2>6. CASE FinishHuffOpt
    BY <2>6 DEF FinishHuffOpt
  <2>7. CASE FinishOutput
    <3>1. scan_number < num_scans
      BY <2>7 DEF FinishOutput, PassInv
    <3>2. /\ phase = "pass" /\ phase' = "between"
          /\ scan_number' = scan_number + 1 /\ num_scans' = num_scans
      BY <2>7 DEF FinishOutput
    <3> QED
      BY <3>1, <3>2 DEF Sequence!Next, Sequence!WriteScan
  <2>8. CASE WriteTrailer
    <3>1. scan_number = num_scans
      BY <2>8 DEF WriteTrailer, PassInv
    <3>2. /\ phase = "between" /\ phase' = "done"
          /\ UNCHANGED <<scan_number, num_scans>>
      BY <2>8 DEF WriteTrailer, master
    <3> QED
      BY <3>1, <3>2 DEF Sequence!Next, Sequence!End
  <2>9. CASE Abandon
    BY <2>9 DEF Abandon, master, Sequence!Next, Sequence!GiveUp
  <2>10. CASE UNCHANGED vars
    BY <2>10 DEF vars, master
  <2> QED
    BY <2>1, <2>2, <2>3, <2>4, <2>5, <2>6, <2>7, <2>8, <2>9, <2>10 DEF Next, Progress
<1> QED
  BY <1>1, <1>2, PassesCounted, PTL DEF Spec, SequenceSpec, Sequence!Spec

-----------------------------------------------------------------------------
(* What the decoder makes of it.                                           *)

(* Where a coefficient stands before scan n + 1: scan n was the last to    *)
(* send it, or it stands where it stood.                                   *)
LEMMA LastBitposStep ==
    ASSUME NEW s, NEW n \in Nat \ {0}, NEW c, NEW k
    PROVE  LastBitpos(s, n + 1, c, k) =
              IF c \in ComponentsOf(s[n]) /\ k \in Band(s[n])
              THEN s[n].Al ELSE LastBitpos(s, n, c, k)
<1> DEFINE Sends(m) == c \in ComponentsOf(s[m]) /\ k \in Band(s[m])
           before == {m \in 1 .. n - 1 : Sends(m)}
           after  == {m \in 1 .. n : Sends(m)}
           latest == CHOOSE m \in after : \A l \in after : l <= m
<1>1. LastBitpos(s, n, c, k) =
         IF before = {} THEN -1 ELSE s[CHOOSE m \in before : \A l \in before : l <= m].Al
  BY DEF LastBitpos
<1>2. LastBitpos(s, n + 1, c, k) = IF after = {} THEN -1 ELSE s[latest].Al
  <2>1. (n + 1) - 1 = n
    OBVIOUS
  <2> QED
    BY <2>1 DEF LastBitpos
<1> HIDE DEF Sends
<1>3. CASE Sends(n)
  <2>1. n \in after /\ \A l \in after : l \in Nat /\ l <= n
    BY <1>3
  <2> HIDE DEF after
  <2>2. \E m \in after : \A l \in after : l <= m
    BY <2>1
  <2>3. latest \in after /\ \A l \in after : l <= latest
    BY <2>2
  <2> HIDE DEF latest
  <2>4. latest \in Nat /\ latest <= n /\ n <= latest
    BY <2>1, <2>3
  <2>5. latest = n
    BY <2>4
  <2> QED
    BY <1>2, <1>3, <2>1, <2>5 DEF Sends
<1>4. CASE ~Sends(n)
  <2>1. after = before
    BY <1>4
  <2> HIDE DEF after, before
  <2> QED
    BY <1>1, <1>2, <1>4, <2>1 DEF Sends
<1> QED
  BY <1>3, <1>4

(* No scan comes before the first.                                         *)
LEMMA LastBitposFirst ==
    ASSUME NEW s, NEW c, NEW k
    PROVE  LastBitpos(s, 1, c, k) = -1
<1>1. {m \in 1 .. 1 - 1 : c \in ComponentsOf(s[m]) /\ k \in Band(s[m])} = {}
  OBVIOUS
<1> QED
  BY <1>1 DEF LastBitpos

(* The decoder has of each coefficient what the scans of the script before *)
(* the current one send.                                                   *)
BitsInv ==
    /\ phase = "start" \/ (phase \in {"between", "pass"} /\ scan_info = <<>> /\ scan_number = 0) =>
          \A ck \in Component \X Coefficients : coef_bits[ck] = -1
    /\ phase \in {"between", "pass"} /\ scan_info # <<>> =>
          \A ck \in Component \X Coefficients :
              coef_bits[ck] = LastBitpos(scan_info, scan_number + 1, ck[1], ck[2])

(* Nothing has been sent yet.                                              *)
LEMMA InitBits == Init => BitsInv
  BY DEF Init, BitsInv

(* Each output pass adds what its scan sends.                              *)
LEMMA NextBits == SetupInv /\ PassInv /\ TablesInv /\ BitsInv /\ [Next]_vars => BitsInv'
<1> SUFFICES ASSUME SetupInv, PassInv, TablesInv, BitsInv, [Next]_vars PROVE BitsInv'
  OBVIOUS
<1> USE DEF setup, script, decoder, huffman
<1>1. CASE StartCompress
  <2>1. /\ phase = "start" /\ phase' = "between" /\ scan_number' = 0
        /\ UNCHANGED <<scan_info, coef_bits>>
    BY <1>1 DEF StartCompress
  <2>2. \A ck \in Component \X Coefficients : coef_bits[ck] = -1
    BY <2>1 DEF BitsInv
  <2>3. scan_number' + 1 = 1
    BY <2>1
  <2> QED
    BY <2>1, <2>2, <2>3, LastBitposFirst DEF BitsInv
<1>2. CASE Reject \/ WriteTrailer \/ Abandon
  <2>1. phase' \in {"rejected", "done", "failed"}
    BY <1>2 DEF Reject, WriteTrailer, Abandon
  <2> QED
    BY <2>1 DEF BitsInv
<1>3. CASE PrepareHuffOpt \/ SkipHuffOpt \/ PrepareOutput \/ FinishHuffOpt
  <2>1. /\ phase \in {"between", "pass"} /\ phase' \in {"between", "pass"}
        /\ UNCHANGED <<scan_info, scan_number, coef_bits>>
    BY <1>3 DEF PrepareHuffOpt, SkipHuffOpt, PrepareOutput, FinishHuffOpt, NextPass,
                WriteScanHeader
  <2> QED
    BY <2>1 DEF BitsInv
<1>4. CASE FinishOutput
  <2>1. /\ phase = "pass" /\ pass_type = "output" /\ phase' = "between"
        /\ scan_number' = scan_number + 1 /\ UNCHANGED scan_info /\ Deliver(current)
    BY <1>4 DEF FinishOutput
  <2>2. scan_number \in Nat
    BY DEF SetupInv, PassInv, MaxScans, MAX_COMPONENTS
  <2>3. ASSUME scan_info # <<>>, NEW ck \in Component \X Coefficients
        PROVE  coef_bits'[ck] = LastBitpos(scan_info, (scan_number + 1) + 1, ck[1], ck[2])
    <3> DEFINE n == scan_number + 1
    <3>1. n \in Nat \ {0}
      BY <2>2
    <3>2. current = scan_info[n]
      BY <2>1, <2>3 DEF TablesInv, SelectedScan
    <3>3. coef_bits[ck] = LastBitpos(scan_info, n, ck[1], ck[2])
      BY <2>1, <2>3 DEF BitsInv
    <3>4. coef_bits'[ck] = IF ck[1] \in ComponentsOf(current) /\ ck[2] \in Band(current)
                           THEN current.Al ELSE coef_bits[ck]
      BY <2>1, <2>3 DEF Deliver
    <3> HIDE DEF n
    <3>5. coef_bits'[ck] = LastBitpos(scan_info, n + 1, ck[1], ck[2])
      BY <3>1, <3>2, <3>3, <3>4, LastBitposStep
    <3> QED
      BY <3>5 DEF n
  <2>4. scan_number' # 0
    BY <2>1, <2>2
  <2> QED
    BY <2>1, <2>3, <2>4 DEF BitsInv
<1>5. CASE UNCHANGED vars
  BY <1>5 DEF vars, master, BitsInv
<1> QED
  BY <1>1, <1>2, <1>3, <1>4, <1>5 DEF Next, Progress

(* In a script that is not progressive a component is sent as a whole.     *)
LEMMA SentAsAWhole ==
    ASSUME NEW s, NEW n \in Nat \ {0}, NEW c, NEW k \in Coefficients,
           \A m \in 1 .. n - 1 : s[m].Ss = 0 /\ s[m].Se = DCTSIZE2 - 1
    PROVE  LastBitpos(s, n, c, k) = LastBitpos(s, n, c, 0)
<1>1. 0 \in Coefficients
  BY CoefficientsAssumption, Zenon
<1>2. \A m \in 1 .. n - 1 : k \in Band(s[m]) <=> 0 \in Band(s[m])
  <2>1. \A j \in Coefficients : 0 <= j /\ j <= DCTSIZE2 - 1
    BY CoefficientsAssumption DEF DCTSIZE2
  <2> QED
    BY <1>1, <2>1 DEF Band, DCTSIZE2
<1> DEFINE A == {m \in 1 .. n - 1 : c \in ComponentsOf(s[m]) /\ k \in Band(s[m])}
           B == {m \in 1 .. n - 1 : c \in ComponentsOf(s[m]) /\ 0 \in Band(s[m])}
<1>3. A = B
  BY <1>2
<1>4. /\ LastBitpos(s, n, c, k) = IF A = {} THEN -1 ELSE s[CHOOSE m \in A : \A l \in A : l <= m].Al
      /\ LastBitpos(s, n, c, 0) = IF B = {} THEN -1 ELSE s[CHOOSE m \in B : \A l \in B : l <= m].Al
  BY DEF LastBitpos
<1> HIDE DEF A, B
<1> QED
  BY <1>3, <1>4

(* Whatever the image, a decoder finds every scan to carry on where the    *)
(* scans before it stopped: what validate_script checked beforehand is     *)
(* what the decoder looks at.                                              *)
THEOREM ProgressionAccepted == Spec => []DecoderAccepts
<1>1. SetupInv /\ PassInv /\ TablesInv /\ BitsInv => DecoderAccepts
  <2> SUFFICES ASSUME SetupInv, PassInv, TablesInv, BitsInv, Writing,
                      NEW c \in ComponentsOf(current), NEW k \in Band(current)
               PROVE  /\ current.Ss # 0 => coef_bits[c, 0] >= 0
                      /\ current.Ah = IF coef_bits[c, k] < 0 THEN 0 ELSE coef_bits[c, k]
    BY DEF DecoderAccepts
  <2>1. phase = "pass" /\ pass_type = "output" /\ current = SelectedScan /\ current \in Scan
    BY DEF Writing, TablesInv
  <2>2. c \in Component /\ k \in Coefficients /\ 0 \in Coefficients
    <3>1. current.component_index \in Seq(Component)
      BY <2>1 DEF Scan
    <3>2. c \in Component
      BY <3>1 DEF ComponentsOf
    <3>3. 0 \in Coefficients
      BY CoefficientsAssumption, Zenon
    <3> QED
      BY <3>2, <3>3 DEF Band
  <2>3. scan_number \in Nat /\ scan_number < num_scans
    BY <2>1 DEF SetupInv, PassInv, MaxScans, MAX_COMPONENTS
  <2> DEFINE this  == <<c, k>>
             first == <<c, 0>>
  <2>6. /\ this \in Component \X Coefficients /\ this[1] = c /\ this[2] = k
        /\ first \in Component \X Coefficients /\ first[1] = c /\ first[2] = 0
    BY <2>2
  <2> SUFFICES /\ current.Ss # 0 => coef_bits[first] >= 0
               /\ current.Ah = IF coef_bits[this] < 0 THEN 0 ELSE coef_bits[this]
    OBVIOUS
  <2> HIDE DEF this, first
  <2>4. CASE scan_info = <<>>
    <3>1. scan_number = 0
      BY <2>1, <2>3, <2>4 DEF SetupInv
    <3>2. coef_bits[this] = -1
      BY <2>1, <2>4, <2>6, <3>1 DEF BitsInv
    <3>3. current.Ss = 0 /\ current.Ah = 0
      BY <2>1, <2>4 DEF SelectedScan, SequentialScan, ScanOf
    <3> QED
      BY <3>2, <3>3
  <2>5. CASE scan_info # <<>>
    <3> DEFINE n == scan_number + 1
    <3>1. n \in DOMAIN scan_info /\ n \in Nat \ {0}
      BY <2>3, <2>5, LenProperties DEF SetupInv
    <3>2. current = scan_info[n]
      BY <2>1, <2>5 DEF SelectedScan
    <3>3. /\ coef_bits[this] = LastBitpos(scan_info, n, c, k)
          /\ coef_bits[first] = LastBitpos(scan_info, n, c, 0)
      BY <2>1, <2>5, <2>6 DEF BitsInv
    <3>4. \A m \in DOMAIN scan_info :
             IF IsProgressive(scan_info) THEN ValidProgressiveScan(scan_info, m)
             ELSE ValidSequentialScan(scan_info, m)
      BY <2>1, <2>5 DEF SetupInv, ValidScript
    <3> HIDE DEF n
    <3>5. CASE IsProgressive(scan_info)
      <4>1. ValidProgressiveScan(scan_info, n)
        BY <3>1, <3>4, <3>5
      <4> QED
        BY <3>2, <3>3, <4>1 DEF ValidProgressiveScan
    <3>6. CASE ~IsProgressive(scan_info)
      <4>1. \A m \in DOMAIN scan_info : ValidSequentialScan(scan_info, m)
        BY <3>4, <3>6
      <4>2. \A m \in 1 .. n - 1 : m \in DOMAIN scan_info
        BY <3>1, LenProperties DEF SetupInv
      <4>3. \A m \in 1 .. n - 1 : scan_info[m].Ss = 0 /\ scan_info[m].Se = DCTSIZE2 - 1
        BY <4>1, <4>2 DEF ValidSequentialScan
      <4>4. coef_bits[this] = coef_bits[first]
        BY <2>2, <3>1, <3>3, <4>3, SentAsAWhole
      <4>5. current.Ss = 0 /\ current.Ah = 0 /\ LastBitpos(scan_info, n, c, 0) < 0
        BY <3>1, <3>2, <4>1 DEF ValidSequentialScan
      <4> QED
        BY <3>3, <4>4, <4>5
    <3> QED
      BY <3>5, <3>6
  <2> QED
    BY <2>4, <2>5
<1>2. SetupInv /\ PassInv /\ TablesInv /\ BitsInv /\ [Next]_vars => BitsInv'
  BY NextBits
<1> QED
  BY <1>1, <1>2, TablesInStep, InitBits, PTL DEF Spec

-----------------------------------------------------------------------------
(* Nothing is lost.                                                        *)

(* Some scan of a script sends a coefficient down to its last bit.         *)
Finishes(s, c, k) ==
    \E m \in 1 .. Len(s) :
        c \in ComponentsOf(s[m]) /\ k \in Band(s[m]) /\ s[m].Al = 0

(* It still does when other scans come before or after.                    *)
LEMMA FinishesJoined ==
    ASSUME NEW s \in Seq(Scan), NEW t \in Seq(Scan), NEW c, NEW k
    PROVE  /\ s \o t \in Seq(Scan)
           /\ Finishes(s, c, k) \/ Finishes(t, c, k) => Finishes(s \o t, c, k)
<1>1. /\ s \o t \in Seq(Scan) /\ Len(s) \in Nat /\ Len(t) \in Nat
      /\ Len(s \o t) = Len(s) + Len(t)
      /\ \A i \in 1 .. Len(s) + Len(t) :
            (s \o t)[i] = IF i <= Len(s) THEN s[i] ELSE t[i - Len(s)]
  BY ConcatProperties, LenProperties
<1> DEFINE u == s \o t
<1> HIDE DEF u
<1>2. ASSUME NEW m \in 1 .. Len(s)
      PROVE  m \in 1 .. Len(u) /\ u[m] = s[m]
  BY <1>1 DEF u
<1>3. ASSUME NEW m \in 1 .. Len(t)
      PROVE  m + Len(s) \in 1 .. Len(u) /\ u[m + Len(s)] = t[m]
  <2> DEFINE i == m + Len(s)
  <2>1. i \in 1 .. Len(s) + Len(t) /\ ~(i <= Len(s)) /\ i - Len(s) = m
    BY <1>1
  <2> HIDE DEF i
  <2>2. u[i] = t[m] /\ i \in 1 .. Len(u)
    BY <1>1, <2>1 DEF u
  <2> QED
    BY <2>2 DEF i
<1>4. Finishes(s, c, k) => Finishes(u, c, k)
  BY <1>2 DEF Finishes
<1>5. Finishes(t, c, k) => Finishes(u, c, k)
  BY <1>3 DEF Finishes
<1> QED
  BY <1>1, <1>4, <1>5 DEF u

(* What each part of the script finishes.                                  *)
LEMMA FillFinishes ==
    ASSUME NEW n \in 1 .. MAX_COMPONENTS, NEW c \in 0 .. n - 1, NEW k \in Coefficients,
           NEW Ss \in 0 .. DCTSIZE2 - 1, NEW Se \in 0 .. DCTSIZE2 - 1,
           NEW Ah \in 0 .. MAX_AH_AL, Ss <= k, k <= Se
    PROVE  Finishes(fill_scans(n, Ss, Se, Ah, 0), c, k)
<1>1. n \in Nat /\ c + 1 \in 1 .. n /\ (c + 1) - 1 = c
  BY DEF MAX_COMPONENTS
<1> DEFINE s == fill_scans(n, Ss, Se, Ah, 0)
           m == c + 1
<1>2. 0 \in 0 .. MAX_AH_AL
  BY DEF MAX_AH_AL
<1>3. Len(s) = n
  BY <1>2, ScanForEach DEF IsScript
<1>4. s[m] = ScanOf(<<c>>, Ss, Se, Ah, 0)
  BY <1>1 DEF fill_scans
<1> HIDE DEF s
<1>5. c \in ComponentsOf(s[m]) /\ k \in Band(s[m]) /\ s[m].Al = 0
  BY <1>4 DEF ScanOf, ComponentsOf, Band
<1> QED
  BY <1>1, <1>3, <1>5 DEF Finishes, s

LEMMA OneFinishes ==
    ASSUME NEW c, NEW k \in Coefficients, NEW Ss, NEW Se, NEW Ah, Ss <= k, k <= Se
    PROVE  Finishes(fill_a_scan(c, Ss, Se, Ah, 0), c, k)
<1> DEFINE s == fill_a_scan(c, Ss, Se, Ah, 0)
<1>1. Len(s) = 1 /\ s[1] = ScanOf(<<c>>, Ss, Se, Ah, 0)
  BY DEF fill_a_scan
<1> HIDE DEF s
<1>2. c \in ComponentsOf(s[1]) /\ k \in Band(s[1]) /\ s[1].Al = 0
  BY <1>1 DEF ScanOf, ComponentsOf, Band
<1> QED
  BY <1>1, <1>2 DEF Finishes, s

LEMMA DCFinishes ==
    ASSUME NEW n \in 1 .. MAX_COMPONENTS, NEW c \in 0 .. n - 1, NEW Ah \in 0 .. MAX_AH_AL
    PROVE  Finishes(fill_dc_scans(n, Ah, 0), c, 0)
<1>1. 0 \in Coefficients
  BY CoefficientsAssumption, Zenon
<1>2. CASE n <= MAX_COMPS_IN_SCAN
  <2> DEFINE comps == [i \in 1 .. n |-> i - 1]
             s == <<ScanOf(comps, 0, 0, Ah, 0)>>
  <2>1. c + 1 \in DOMAIN comps /\ comps[c + 1] = c
    BY DEF MAX_COMPONENTS
  <2>2. c \in {comps[i] : i \in DOMAIN comps}
    BY <2>1
  <2> HIDE DEF comps
  <2>3. Len(s) = 1 /\ s[1] = ScanOf(comps, 0, 0, Ah, 0)
    OBVIOUS
  <2>4. fill_dc_scans(n, Ah, 0) = s
    BY <1>2 DEF fill_dc_scans, comps
  <2> HIDE DEF s
  <2>5. c \in ComponentsOf(s[1]) /\ 0 \in Band(s[1]) /\ s[1].Al = 0
    BY <1>1, <2>2, <2>3 DEF ScanOf, ComponentsOf, Band
  <2> QED
    BY <2>3, <2>4, <2>5 DEF Finishes
<1>3. CASE ~(n <= MAX_COMPS_IN_SCAN)
  <2>1. 0 \in 0 .. DCTSIZE2 - 1 /\ 0 <= 0
    BY DEF DCTSIZE2
  <2>2. Finishes(fill_scans(n, 0, 0, Ah, 0), c, 0)
    BY <1>1, <2>1, FillFinishes
  <2> QED
    BY <1>3, <2>2 DEF fill_dc_scans
<1> QED
  BY <1>2, <1>3

(* jpeg_simple_progression sends every coefficient to its last bit.        *)
LEMMA ScriptFinishes ==
    ASSUME NEW im \in [num_components : 1 .. MAX_COMPONENTS, space : Spaces],
           im.space = "YCbCr" => im.num_components = 3,
           NEW c \in 0 .. im.num_components - 1, NEW k \in Coefficients
    PROVE  Finishes(ScriptOf(im), c, k)
<1> DEFINE n == im.num_components
<1>1. n \in 1 .. MAX_COMPONENTS /\ c \in 0 .. n - 1
  OBVIOUS
<1>2. /\ 0 \in Component /\ 1 \in Component /\ 2 \in Component
      /\ 0 \in 0 .. DCTSIZE2 - 1
      /\ 1 \in 0 .. DCTSIZE2 - 1 /\ 5 \in 0 .. DCTSIZE2 - 1
      /\ 6 \in 0 .. DCTSIZE2 - 1 /\ 63 \in 0 .. DCTSIZE2 - 1
      /\ 0 \in 0 .. MAX_AH_AL /\ 1 \in 0 .. MAX_AH_AL /\ 2 \in 0 .. MAX_AH_AL
  BY DEF Component, DCTSIZE2, MAX_AH_AL, MAX_COMPONENTS
<1>3. k = 0 \/ (1 <= k /\ k <= 63)
  BY CoefficientsAssumption DEF DCTSIZE2
<1> HIDE DEF n
<1>4. fill_dc_scans(n, 0, 1) \in Seq(Scan) /\ fill_dc_scans(n, 1, 0) \in Seq(Scan)
  BY <1>1, <1>2, DCScans DEF IsScript
<1>5. k = 0 => Finishes(fill_dc_scans(n, 1, 0), c, k)
  BY <1>1, <1>2, DCFinishes
<1>6. CASE im.space = "YCbCr"
  <2> DEFINE a == fill_dc_scans(n, 0, 1)
             b == fill_a_scan(0, 1, 5, 0, 2)
             cc == fill_a_scan(2, 1, 63, 0, 1)
             d == fill_a_scan(1, 1, 63, 0, 1)
             e == fill_a_scan(0, 6, 63, 0, 2)
             f == fill_a_scan(0, 1, 63, 2, 1)
             g == fill_dc_scans(n, 1, 0)
             h == fill_a_scan(2, 1, 63, 1, 0)
             i == fill_a_scan(1, 1, 63, 1, 0)
             j == fill_a_scan(0, 1, 63, 1, 0)
  <2>1. c = 0 \/ c = 1 \/ c = 2
    BY <1>1, <1>6 DEF n
  <2>2. b \in Seq(Scan) /\ cc \in Seq(Scan) /\ d \in Seq(Scan) /\ e \in Seq(Scan)
    BY <1>2, OneScan, Zenon DEF IsScript
  <2>3. f \in Seq(Scan) /\ h \in Seq(Scan) /\ i \in Seq(Scan) /\ j \in Seq(Scan)
    BY <1>2, OneScan, Zenon DEF IsScript
  <2>4. k # 0 => /\ c = 2 => Finishes(h, c, k)
                 /\ c = 1 => Finishes(i, c, k)
                 /\ c = 0 => Finishes(j, c, k)
    BY <1>3, OneFinishes
  <2>5. Finishes(g, c, k) \/ Finishes(h, c, k) \/ Finishes(i, c, k) \/ Finishes(j, c, k)
    BY <1>5, <2>1, <2>4
  <2>6. ScriptOf(im) = a \o b \o cc \o d \o e \o f \o g \o h \o i \o j
    BY <1>6 DEF ScriptOf, n
  <2>7. a \in Seq(Scan) /\ g \in Seq(Scan)
    BY <1>4
  <2> HIDE DEF a, b, cc, d, e, f, g, h, i, j
  <2> DEFINE start == a \o b \o cc \o d \o e \o f
  <2>8. start \in Seq(Scan)
    BY <2>2, <2>3, <2>7, FinishesJoined
  <2> HIDE DEF start
  <2>9. /\ start \o g \in Seq(Scan)
        /\ Finishes(g, c, k) => Finishes(start \o g, c, k)
    BY <2>7, <2>8, FinishesJoined
  <2>10. /\ start \o g \o h \in Seq(Scan)
         /\ Finishes(start \o g, c, k) \/ Finishes(h, c, k) => Finishes(start \o g \o h, c, k)
    BY <2>3, <2>9, FinishesJoined
  <2>11. /\ start \o g \o h \o i \in Seq(Scan)
         /\ Finishes(start \o g \o h, c, k) \/ Finishes(i, c, k)
               => Finishes(start \o g \o h \o i, c, k)
    BY <2>3, <2>10, FinishesJoined
  <2>12. Finishes(start \o g \o h \o i, c, k) \/ Finishes(j, c, k)
            => Finishes(start \o g \o h \o i \o j, c, k)
    BY <2>3, <2>11, FinishesJoined
  <2> QED
    BY <2>5, <2>6, <2>9, <2>10, <2>11, <2>12 DEF start
<1>7. CASE im.space # "YCbCr"
  <2> DEFINE a == fill_dc_scans(n, 0, 1)
             b == fill_scans(n, 1, 5, 0, 2)
             cc == fill_scans(n, 6, 63, 0, 2)
             d == fill_scans(n, 1, 63, 2, 1)
             g == fill_dc_scans(n, 1, 0)
             h == fill_scans(n, 1, 63, 1, 0)
  <2>1. b \in Seq(Scan) /\ cc \in Seq(Scan) /\ d \in Seq(Scan) /\ h \in Seq(Scan)
    BY <1>1, <1>2, ScanForEach, Zenon DEF IsScript
  <2>2. k # 0 => Finishes(h, c, k)
    BY <1>1, <1>2, <1>3, FillFinishes
  <2>3. Finishes(g, c, k) \/ Finishes(h, c, k)
    BY <1>5, <2>2
  <2>4. ScriptOf(im) = a \o b \o cc \o d \o g \o h
    BY <1>7 DEF ScriptOf, n
  <2>5. a \in Seq(Scan) /\ g \in Seq(Scan)
    BY <1>4
  <2> HIDE DEF a, b, cc, d, g, h
  <2> DEFINE start == a \o b \o cc \o d
  <2>6. start \in Seq(Scan)
    BY <2>1, <2>5, FinishesJoined
  <2> HIDE DEF start
  <2>7. /\ start \o g \in Seq(Scan)
        /\ Finishes(g, c, k) => Finishes(start \o g, c, k)
    BY <2>5, <2>6, FinishesJoined
  <2>8. Finishes(start \o g, c, k) \/ Finishes(h, c, k) => Finishes(start \o g \o h, c, k)
    BY <2>1, <2>7, FinishesJoined
  <2> QED
    BY <2>3, <2>4, <2>7, <2>8 DEF start
<1> QED
  BY <1>6, <1>7

(* The scan number m of the file.                                          *)
FileScan(m) == IF scan_info = <<>> THEN SequentialScan(image) ELSE scan_info[m]

Final(m, c, k) ==
    c \in ComponentsOf(FileScan(m)) /\ k \in Band(FileScan(m)) /\ FileScan(m).Al = 0

(* What a scan sends to its last bit stays sent to its last bit.           *)
FinalInv ==
    /\ scan_info = <<>> \/ scan_info = ScriptOf(image)
    /\ phase \in {"between", "pass", "done"} =>
          \A ck \in Component \X Coefficients, m \in 1 .. scan_number :
              Final(m, ck[1], ck[2]) => coef_bits[ck] = 0
    /\ phase = "done" /\ scan_info = <<>> => num_scans = 1

LEMMA InitFinal == Init => FinalInv
  BY DEF Init, FinalInv

(* A scan of a valid script does not send again what has been sent to its  *)
(* last bit, unless it sends it to its last bit.                           *)
LEMMA FinalStays ==
    ASSUME SetupInv, PassInv, TablesInv, BitsInv, phase = "pass", pass_type = "output",
           NEW ck \in Component \X Coefficients, coef_bits[ck] = 0,
           ck[1] \in ComponentsOf(current), ck[2] \in Band(current)
    PROVE  current.Al = 0
<1>1. current = SelectedScan /\ current \in Scan
  BY DEF TablesInv
<1>2. current.Al \in 0 .. MAX_AH_AL
  BY <1>1 DEF Scan
<1>3. CASE scan_info = <<>>
  BY <1>1, <1>3 DEF SelectedScan, SequentialScan, ScanOf
<1>4. CASE scan_info # <<>>
  <2> DEFINE n == scan_number + 1
  <2>1. scan_number \in Nat /\ scan_number < num_scans /\ num_scans = Len(scan_info)
    BY <1>4 DEF SetupInv, PassInv, MaxScans, MAX_COMPONENTS
  <2>2. n \in DOMAIN scan_info
    BY <2>1, LenProperties DEF SetupInv
  <2>3. current = scan_info[n]
    BY <1>1, <1>4 DEF SelectedScan
  <2>4. LastBitpos(scan_info, n, ck[1], ck[2]) = 0
    BY <1>4 DEF BitsInv
  <2>5. IF IsProgressive(scan_info) THEN ValidProgressiveScan(scan_info, n)
        ELSE ValidSequentialScan(scan_info, n)
    BY <1>4, <2>2 DEF SetupInv, ValidScript
  <2> HIDE DEF n
  <2>6. CASE IsProgressive(scan_info)
    <3>1. current.Ah = 0 /\ current.Al = current.Ah - 1
      BY <2>3, <2>4, <2>5, <2>6 DEF ValidProgressiveScan
    <3> QED
      BY <1>2, <3>1 DEF MAX_AH_AL
  <2>7. CASE ~IsProgressive(scan_info)
    BY <2>3, <2>5, <2>7 DEF ValidSequentialScan
  <2> QED
    BY <2>6, <2>7
<1> QED
  BY <1>3, <1>4

(* Every step keeps what has been finished.                                *)
LEMMA NextFinal ==
    SetupInv /\ PassInv /\ TablesInv /\ BitsInv /\ FinalInv /\ [Next]_vars => FinalInv'
<1> SUFFICES ASSUME SetupInv, PassInv, TablesInv, BitsInv, FinalInv, [Next]_vars
             PROVE  FinalInv'
  OBVIOUS
<1> USE DEF setup, script, decoder, huffman
<1>0. UNCHANGED <<image, scan_info>>
  BY DEF Next, Progress, StartCompress, Reject, PrepareHuffOpt, SkipHuffOpt, PrepareOutput,
         FinishHuffOpt, FinishOutput, WriteTrailer, Abandon, NextPass, vars
<1>6. \A m, c, k : Final(m, c, k)' = Final(m, c, k)
  BY <1>0 DEF Final, FileScan, SequentialScan, Band, ComponentsOf
<1>1. CASE StartCompress
  <2>1. phase' = "between" /\ scan_number' = 0
    BY <1>1 DEF StartCompress
  <2> QED
    BY <1>0, <2>1 DEF FinalInv
<1>2. CASE Reject \/ Abandon
  <2>1. phase' \in {"rejected", "failed"}
    BY <1>2 DEF Reject, Abandon
  <2> QED
    BY <1>0, <2>1 DEF FinalInv
<1>3. CASE PrepareHuffOpt \/ SkipHuffOpt \/ PrepareOutput \/ FinishHuffOpt
  <2>1. /\ phase \in {"between", "pass"} /\ phase' \in {"between", "pass"}
        /\ UNCHANGED <<scan_number, coef_bits>>
    BY <1>3 DEF PrepareHuffOpt, SkipHuffOpt, PrepareOutput, FinishHuffOpt, NextPass,
                WriteScanHeader
  <2> QED
    BY <1>0, <1>6, <2>1 DEF FinalInv
<1>4. CASE WriteTrailer
  <2>1. phase = "between" /\ phase' = "done" /\ UNCHANGED <<scan_number, coef_bits, num_scans>>
    BY <1>4 DEF WriteTrailer, master
  <2>2. scan_info = <<>> => num_scans = 1
    BY <2>1 DEF SetupInv
  <2> QED
    BY <1>0, <1>6, <2>1, <2>2 DEF FinalInv
<1>5. CASE FinishOutput
  <2>1. /\ phase = "pass" /\ pass_type = "output" /\ phase' = "between"
        /\ scan_number' = scan_number + 1 /\ Deliver(current)
    BY <1>5 DEF FinishOutput
  <2>2. scan_number \in Nat
    BY DEF SetupInv, PassInv, MaxScans, MAX_COMPONENTS
  <2>3. current = FileScan(scan_number + 1)
    BY <2>1 DEF TablesInv, SelectedScan, FileScan
  <2>4. ASSUME NEW ck \in Component \X Coefficients, NEW m \in 1 .. scan_number + 1,
               Final(m, ck[1], ck[2])
        PROVE  coef_bits'[ck] = 0
    <3>1. coef_bits'[ck] = IF ck[1] \in ComponentsOf(current) /\ ck[2] \in Band(current)
                           THEN current.Al ELSE coef_bits[ck]
      BY <2>1 DEF Deliver
    <3>2. CASE m = scan_number + 1
      BY <2>3, <2>4, <3>1, <3>2 DEF Final
    <3>3. CASE m # scan_number + 1
      <4>1. m \in 1 .. scan_number
        BY <2>2, <3>3
      <4>2. coef_bits[ck] = 0
        BY <2>1, <2>4, <4>1 DEF FinalInv
      <4> QED
        BY <2>1, <3>1, <4>2, FinalStays
    <3> QED
      BY <3>2, <3>3
  <2> QED
    BY <1>0, <1>6, <2>1, <2>4 DEF FinalInv
<1>7. CASE UNCHANGED vars
  BY <1>0, <1>6, <1>7 DEF vars, master, FinalInv
<1> QED
  BY <1>1, <1>2, <1>3, <1>4, <1>5, <1>7 DEF Next, Progress

(* Every scan of the file is written, and between them the scans of the    *)
(* script, or the single scan, send every coefficient to its last bit:     *)
(* whatever the image, a file that is finished has all of it.              *)
THEOREM EverythingIsSent == Spec => []EverythingSent
<1>1. SetupInv /\ PassInv /\ FinalInv => EverythingSent
  <2> SUFFICES ASSUME SetupInv, PassInv, FinalInv, phase = "done",
                      NEW c \in 0 .. image.num_components - 1, NEW k \in Coefficients
               PROVE  coef_bits[c, k] = 0
    BY DEF EverythingSent
  <2>1. /\ image \in [num_components : 1 .. MAX_COMPONENTS, space : Spaces]
        /\ image.space = "YCbCr" => image.num_components = 3
    BY ImagesAssumption DEF SetupInv
  <2>2. image.num_components \in 1 .. MAX_COMPONENTS /\ c \in Component
    BY <2>1 DEF MAX_COMPONENTS, Component
  <2>3. scan_number = num_scans /\ num_scans \in Nat
    BY DEF PassInv, SetupInv, MaxScans, MAX_COMPONENTS
  <2> DEFINE this == <<c, k>>
  <2>4. this \in Component \X Coefficients /\ this[1] = c /\ this[2] = k
    BY <2>2
  <2> HIDE DEF this
  <2>5. \E m \in 1 .. scan_number : Final(m, c, k)
    <3>1. CASE scan_info = <<>>
      <4> DEFINE comps == [i \in 1 .. image.num_components |-> i - 1]
      <4>1. c + 1 \in DOMAIN comps /\ comps[c + 1] = c
        BY <2>2 DEF MAX_COMPONENTS
      <4>2. c \in {comps[i] : i \in DOMAIN comps}
        BY <4>1
      <4>3. FileScan(1) = ScanOf(comps, 0, DCTSIZE2 - 1, 0, 0)
        BY <3>1 DEF FileScan, SequentialScan
      <4> HIDE DEF comps
      <4>4. 0 <= k /\ k <= DCTSIZE2 - 1
        BY CoefficientsAssumption DEF DCTSIZE2
      <4>5. Final(1, c, k)
        BY <4>2, <4>3, <4>4 DEF Final, ScanOf, ComponentsOf, Band
      <4>6. 1 \in 1 .. scan_number
        BY <2>3, <3>1 DEF FinalInv
      <4> QED
        BY <4>5, <4>6
    <3>2. CASE scan_info # <<>>
      <4>1. scan_info = ScriptOf(image) /\ scan_number = Len(scan_info)
        BY <2>3, <3>2 DEF FinalInv, SetupInv
      <4>2. Finishes(scan_info, c, k)
        BY <2>1, <4>1, ScriptFinishes
      <4> QED
        BY <3>2, <4>1, <4>2 DEF Finishes, Final, FileScan
    <3> QED
      BY <3>1, <3>2
  <2>6. coef_bits[this] = 0
    BY <2>4, <2>5 DEF FinalInv
  <2> QED
    BY <2>6 DEF this
<1>2. SetupInv /\ PassInv /\ TablesInv /\ BitsInv /\ FinalInv /\ [Next]_vars => FinalInv'
  BY NextFinal
<1>3. SetupInv /\ PassInv /\ TablesInv /\ BitsInv /\ [Next]_vars => BitsInv'
  BY NextBits
<1> QED
  BY <1>1, <1>2, <1>3, TablesInStep, InitBits, InitFinal, PTL DEF Spec
=============================================================================
