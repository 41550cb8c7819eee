----------------------------- MODULE ScanScript -----------------------------
(***************************************************************************)
(* The scans a JPEG file is made of: the script jpeg_simple_progression    *)
(* (jcparam.c) writes for the "progressive" option, the single scan of a   *)
(* sequential file, and what validate_script (jcmaster.c) demands.         *)
(*                                                                         *)
(* A scan sends, for some components, the coefficients Ss .. Se down to    *)
(* bit Al, refining what an earlier scan sent down to bit Ah.              *)
(***************************************************************************)
EXTENDS Integers, Sequences

CONSTANT
    Coefficients     \* the positions 0 .. 63 of a block to keep track of

DCTSIZE2 == 64
MAX_COMPS_IN_SCAN == 4
MAX_COMPONENTS == 10
MAX_AH_AL == 10

ASSUME CoefficientsAssumption == {0} \subseteq Coefficients /\ Coefficients \subseteq 0 .. DCTSIZE2 - 1

Component == 0 .. MAX_COMPONENTS - 1

Scan == [component_index : Seq(Component), Ss : 0 .. DCTSIZE2 - 1, Se : 0 .. DCTSIZE2 - 1,
         Ah : 0 .. MAX_AH_AL, Al : 0 .. MAX_AH_AL]

ComponentsOf(scan) == {scan.component_index[i] : i \in DOMAIN scan.component_index}

(* The positions a scan sends.                                             *)
Band(scan) == {k \in Coefficients : scan.Ss <= k /\ k <= scan.Se}

-----------------------------------------------------------------------------
(* jpeg_simple_progression.                                                *)

ScanOf(comps, Ss, Se, Ah, Al) ==
    [component_index |-> comps, Ss |-> Ss, Se |-> Se, Ah |-> Ah, Al |-> Al]

fill_a_scan(ci, Ss, Se, Ah, Al) == <<ScanOf(<<ci>>, Ss, Se, Ah, Al)>>

(* Mutant: components are counted from one.                                *)
fill_scansFromOne(ncomps, Ss, Se, Ah, Al) ==
    [i \in 1 .. ncomps |-> ScanOf(<<i>>, Ss, Se, Ah, Al)]

(* Mutant: the band stops short of the last coefficient.                   *)
fill_scansShort(ncomps, Ss, Se, Ah, Al) ==
    [i \in 1 .. ncomps |->
        ScanOf(<<i - 1>>, Ss, IF Se = DCTSIZE2 - 1 THEN Se - 1 ELSE Se, Ah, Al)]

fill_scans(ncomps, Ss, Se, Ah, Al) ==
    [i \in 1 .. ncomps |-> ScanOf(<<i - 1>>, Ss, Se, Ah, Al)]

fill_dc_scans(ncomps, Ah, Al) ==
    IF ncomps <= MAX_COMPS_IN_SCAN
    THEN <<ScanOf([i \in 1 .. ncomps |-> i - 1], 0, 0, Ah, Al)>>
    ELSE fill_scans(ncomps, 0, 0, Ah, Al)

ScriptOf(image) ==
    LET n == image.num_components
    IN  IF image.space = "YCbCr"
        THEN fill_dc_scans(n, 0, 1) \o fill_a_scan(0, 1, 5, 0, 2) \o
             fill_a_scan(2, 1, 63, 0, 1) \o fill_a_scan(1, 1, 63, 0, 1) \o
             fill_a_scan(0, 6, 63, 0, 2) \o fill_a_scan(0, 1, 63, 2, 1) \o
             fill_dc_scans(n, 1, 0) \o fill_a_scan(2, 1, 63, 1, 0) \o
             fill_a_scan(1, 1, 63, 1, 0) \o fill_a_scan(0, 1, 63, 1, 0)
        ELSE fill_dc_scans(n, 0, 1) \o fill_scans(n, 1, 5, 0, 2) \o
             fill_scans(n, 6, 63, 0, 2) \o fill_scans(n, 1, 63, 2, 1) \o
             fill_dc_scans(n, 1, 0) \o fill_scans(n, 1, 63, 1, 0)

(* The number of scans, computed apart from the script itself.             *)
ScriptSize(image) ==
    LET n == image.num_components
    IN  CASE image.space = "YCbCr" -> 10
          [] image.space # "YCbCr" /\ n > MAX_COMPS_IN_SCAN -> 6 * n
          [] OTHER -> 2 + 4 * n

(* select_scan_parameters without a script: all components in one scan.    *)
SequentialScan(image) ==
    ScanOf([i \in 1 .. image.num_components |-> i - 1], 0, DCTSIZE2 - 1, 0, 0)

-----------------------------------------------------------------------------
(* validate_script.                                                        *)

IsProgressive(script) == script[1].Ss # 0 \/ script[1].Se # DCTSIZE2 - 1

(* last_bitpos before scan n: down to which bit coefficient k of component *)
(* c has been sent, -1 if it has not.                                      *)
LastBitpos(script, n, c, k) ==
    LET earlier == {m \in 1 .. n - 1 : c \in ComponentsOf(script[m]) /\ k \in Band(script[m])}
    IN  IF earlier = {} THEN -1
        ELSE script[CHOOSE m \in earlier : \A l \in earlier : l <= m].Al

ValidComponents(scan, ncomps) ==
    LET s == scan.component_index
    IN  /\ Len(s) \in 1 .. MAX_COMPS_IN_SCAN
        /\ \A i \in DOMAIN s : s[i] < ncomps /\ (i > 1 => s[i] > s[i - 1])

ValidProgressiveScan(script, n) ==
    LET scan == script[n]
    IN  /\ scan.Ss <= scan.Se
        /\ IF scan.Ss = 0 THEN scan.Se = 0 ELSE Len(scan.component_index) = 1
        /\ \A c \in ComponentsOf(scan) :
              /\ scan.Ss # 0 => LastBitpos(script, n, c, 0) >= 0
              /\ \A k \in Band(scan) :
                    LET last == LastBitpos(script, n, c, k)
                    IN  IF last < 0 THEN scan.Ah = 0
                        ELSE scan.Ah = last /\ scan.Al = scan.Ah - 1

ValidSequentialScan(script, n) ==
    LET scan == script[n]
    IN  /\ scan.Ss = 0 /\ scan.Se = DCTSIZE2 - 1 /\ scan.Ah = 0 /\ scan.Al = 0
        /\ \A c \in ComponentsOf(scan) : LastBitpos(script, n, c, 0) < 0

ValidScript(script, ncomps) ==
    /\ script # <<>>
    /\ \A n \in DOMAIN script :
          /\ ValidComponents(script[n], ncomps)
          /\ IF IsProgressive(script) THEN ValidProgressiveScan(script, n)
             ELSE ValidSequentialScan(script, n)
    /\ \A c \in 0 .. ncomps - 1 : LastBitpos(script, Len(script) + 1, c, 0) >= 0
=============================================================================
