--------------------------- MODULE RoundTripProofs ---------------------------
(***************************************************************************)
(* Proofs about Transcode: what reencode() writes can be read again, with  *)
(* the coefficients and the markers it was written with.                   *)
(***************************************************************************)
EXTENDS TranscodeProofs

-----------------------------------------------------------------------------
(* Types.                                                                  *)

CallTypes == trip \in 0 .. MaxTrips /\ progressive \in BOOLEAN /\ merged \in BOOLEAN

LeadingTypes ==
    /\ place \in {"first", "second", "later"}
    /\ leading = <<>> \/ \E e : leading = <<e>>
    /\ place # "later" => leading = <<>>

ScanTypes ==
    /\ has_multiple_scans \in BOOLEAN /\ warned \in BOOLEAN
    /\ input_scan_number \in Nat /\ inheaders = (input_scan_number = 0)
    /\ jpeg_color_space \in Spaces
    /\ DOMAIN coef = DOMAIN comp_info
    /\ DOMAIN coef_bits = DOMAIN comp_info /\ bogus \in BOOLEAN

MoreTypes == CallTypes /\ LeadingTypes /\ ScanTypes

(* Reading a segment changes neither the call nor what stands in front.    *)
LEMMA TakeTypes ==
    ASSUME CallTypes, LeadingTypes, NEW seg, Take(seg)
    PROVE  CallTypes' /\ LeadingTypes'
  <1>1. CallTypes'
    BY DEF CallTypes, Take, call
  <1>2. LeadingTypes'
    BY DEF LeadingTypes, Take
  <1>. QED
    BY <1>1, <1>2

(* What is known of the scans keeps its types when it is left alone.       *)
LEMMA ScanTypesStay ==
    ASSUME ScanTypes, UNCHANGED <<frame, scans>>, warned' \in BOOLEAN
    PROVE  ScanTypes'
  BY DEF ScanTypes, frame, scans

(* The guess of the colour space is one of the colour spaces.              *)
LEMMA GuessedIsSpace == GuessedSpace \in Spaces
  BY DEF GuessedSpace, Spaces

(* A scan read keeps the types of what is known of the scans.              *)
LEMMA SOSTypes ==
    ASSUME Inv, ScanTypes, NEW seg \in Ahead, GetSOS(seg)
    PROVE  ScanTypes'
  <1>1. CASE ~ScanStarts(seg)
    BY <1>1, ScanTypesStay DEF GetSOS, Fails, reader, ScanTypes
  <1>2. CASE ScanStarts(seg)
    <2>1. /\ inheaders' = FALSE /\ UNCHANGED frame
          /\ jpeg_color_space' = IF inheaders THEN GuessedSpace ELSE jpeg_color_space
          /\ input_scan_number' = input_scan_number + 1
          /\ has_multiple_scans' = IF inheaders THEN Len(seg.ids) < Len(comp_info) \/ progressive_mode
                                   ELSE has_multiple_scans
          /\ DOMAIN coef' = DOMAIN comp_info /\ DOMAIN coef_bits' = DOMAIN comp_info
          /\ Warn(inheaders /\ OddTransform)
      BY <1>2 DEF GetSOS
    <2>2. warned' \in BOOLEAN
      BY <2>1, Zenon DEF Warn
    <2>8. bogus' \in BOOLEAN
      <3>1. \E b : bogus' = (bogus \/ b)
        BY <1>2 DEF GetSOS
      <3>. QED
        BY <3>1, Zenon
    <2>3. has_multiple_scans' \in BOOLEAN
      BY <2>1, Zenon DEF ScanTypes
    <2>4. UNCHANGED comp_info /\ jpeg_color_space' \in Spaces
      BY <2>1, GuessedIsSpace DEF ScanTypes, frame
    <2>5. input_scan_number' \in Nat /\ input_scan_number' # 0
      BY <2>1 DEF ScanTypes
    <2>6. inheaders' = (input_scan_number' = 0)
      BY <2>1, <2>5, Zenon
    <2>7. DOMAIN coef' = DOMAIN comp_info' /\ DOMAIN coef_bits' = DOMAIN comp_info'
      BY <2>1, <2>4
    <2>. QED
      BY <2>2, <2>3, <2>4, <2>5, <2>6, <2>7, <2>8, Zenon DEF ScanTypes
  <1>. QED
    BY <1>1, <1>2

(* The types hold at the start,                                            *)
LEMMA MoreTypesInit == Init => MoreTypes
  <1>. SUFFICES ASSUME Init PROVE MoreTypes
    OBVIOUS
  <1>0. trip \in 0 .. MaxTrips
    BY BoundsAssumption DEF Init
  <1>1. CallTypes /\ LeadingTypes
    BY <1>0, Zenon DEF Init, CallTypes, LeadingTypes
  <1>2. inheaders = (input_scan_number = 0) /\ input_scan_number \in Nat
    BY Zenon DEF Init
  <1>3. DOMAIN coef = DOMAIN comp_info /\ jpeg_color_space \in Spaces
        /\ has_multiple_scans \in BOOLEAN /\ warned \in BOOLEAN
        /\ DOMAIN coef_bits = DOMAIN comp_info /\ bogus \in BOOLEAN
    BY Zenon DEF Init, Spaces
  <1>. QED
    BY <1>1, <1>2, <1>3, Zenon DEF MoreTypes, ScanTypes

(* A step that only consumes, or only writes.                              *)
LEMMA ReadTypes ==
    ASSUME Inv, MoreTypes, NEW seg \in Ahead, Take(seg), UNCHANGED <<frame, scans>>,
           warned' \in BOOLEAN
    PROVE  MoreTypes'
  BY TakeTypes, ScanTypesStay DEF MoreTypes

(* steps of the writer leave what the reader noted alone,                  *)
LEMMA WriteTypes ==
    ASSUME MoreTypes, UNCHANGED <<reader, trip, place, leading>>,
           progressive' \in BOOLEAN, merged' \in BOOLEAN
    PROVE  MoreTypes'
  BY DEF MoreTypes, CallTypes, LeadingTypes, ScanTypes, reader, frame, scans

(* and every step keeps them.                                              *)
LEMMA MoreTypesNext ==
    ASSUME Inv, MoreTypes, [Next]_vars
    PROVE  MoreTypes'
  <1>0. warned \in BOOLEAN /\ progressive \in BOOLEAN /\ merged \in BOOLEAN
    BY DEF MoreTypes, ScanTypes, CallTypes
  <1>1. ASSUME NEW seg \in Ahead, Take(seg), Fails
        PROVE  MoreTypes'
    BY <1>0, <1>1, ReadTypes DEF Fails, reader
  <1>2. ASSUME NEW seg \in Ahead, GetSOI(seg)
        PROVE  MoreTypes'
    BY <1>0, <1>1, <1>2, ReadTypes DEF GetSOI, reader
  <1>3. ASSUME NEW seg \in Ahead, GetSOF(seg)
        PROVE  MoreTypes'
    <2>1. CASE saw_SOF /\ Fails
      BY <1>1, <1>3, <2>1 DEF GetSOF
    <2>2. CASE ~saw_SOF /\ ~(saw_SOF /\ Fails)
      <3>1. /\ DOMAIN coef' = DOMAIN comp_info' /\ DOMAIN coef_bits' = DOMAIN comp_info'
            /\ UNCHANGED <<inheaders, has_multiple_scans, input_scan_number, jpeg_color_space, bogus, warned>>
            /\ Take(seg)
        BY <1>3, <2>2 DEF GetSOF
      <3>. QED
        BY <3>1, TakeTypes DEF MoreTypes, ScanTypes
    <2>. QED
      BY <1>3, <2>1, <2>2 DEF GetSOF
  <1>4. ASSUME NEW seg \in Ahead, GetDQT(seg)
        PROVE  MoreTypes'
    BY <1>0, <1>1, <1>4, ReadTypes DEF GetDQT
  <1>5. ASSUME NEW seg \in Ahead, GetTables(seg)
        PROVE  MoreTypes'
    BY <1>0, <1>1, <1>5, ReadTypes DEF GetTables, reader
  <1>6. ASSUME NEW seg \in Ahead, SaveMarker(seg)
        PROVE  MoreTypes'
    <2>1. Take(seg) /\ UNCHANGED <<frame, scans>> /\ Warn(WholeJFIF(seg) /\ seg.value # 1)
      BY <1>6 DEF SaveMarker
    <2>2. warned' \in BOOLEAN
      BY <2>1, Zenon DEF Warn
    <2>. QED
      BY <2>1, <2>2, ReadTypes
  <1>7. ASSUME NEW seg \in Ahead, SkipOrRefuse(seg)
        PROVE  MoreTypes'
    <2>1. CASE Fails
      BY <1>1, <1>7, <2>1 DEF SkipOrRefuse
    <2>2. CASE UNCHANGED <<state, reader>>
      BY <1>0, <1>7, <2>2, ReadTypes DEF SkipOrRefuse, reader
    <2>3. CASE Warn(TRUE) /\ UNCHANGED <<state, flags, frame, scans, quant_tbl_ptrs, marker_list>>
      <3>1. warned' \in BOOLEAN
        BY <2>3, Zenon DEF Warn
      <3>. QED
        BY <1>7, <2>3, <3>1, ReadTypes DEF SkipOrRefuse
    <2>. QED
      BY <1>7, <2>1, <2>2, <2>3 DEF SkipOrRefuse
  <1>8. ASSUME NEW seg \in Ahead, GetSOS(seg)
        PROVE  MoreTypes'
    BY <1>8, SOSTypes, TakeTypes DEF MoreTypes, GetSOS
  <1>9. ASSUME NEW seg \in Ahead, GetEOI(seg)
        PROVE  MoreTypes'
    BY <1>0, <1>1, <1>9, ReadTypes DEF GetEOI, reader
  <1>10. ASSUME EndOfFile
         PROVE  MoreTypes'
    <2>1. UNCHANGED <<call, place, leading, frame, scans>> /\ Warn(TRUE)
      BY <1>10 DEF EndOfFile
    <2>2. warned' \in BOOLEAN
      BY <2>1, Zenon DEF Warn
    <2>. QED
      BY <2>1, <2>2, ScanTypesStay DEF MoreTypes, CallTypes, LeadingTypes, call
  <1>11. ASSUME CopyCriticalParameters \/ WriteCoefficients \/ CopyMarker
         PROVE  MoreTypes'
    BY <1>0, <1>11, WriteTypes DEF CopyCriticalParameters, WriteCoefficients, CopyMarker
  <1>12. ASSUME FinishCompress \/ EmitDQT \/ EmitSOF \/ EmitScan \/ EmitEOI
         PROVE  MoreTypes'
    BY <1>0, <1>12, WriteTypes DEF FinishCompress, EmitDQT, EmitSOF, EmitScan, EmitEOI
  <1>13. ASSUME Merge
         PROVE  MoreTypes'
    BY <1>0, <1>13, WriteTypes DEF Merge
  <1>14. ASSUME Again
         PROVE  MoreTypes'
    <2>0. trip' \in 0 .. MaxTrips
      BY <1>14, BoundsAssumption DEF Again, MoreTypes, CallTypes
    <2>1. CallTypes' /\ LeadingTypes'
      BY <1>14, <2>0, Zenon DEF Again, CallTypes, LeadingTypes
    <2>2. inheaders' = (input_scan_number' = 0) /\ input_scan_number' \in Nat
      BY <1>14, Zenon DEF Again
    <2>3. DOMAIN coef' = DOMAIN comp_info' /\ jpeg_color_space' \in Spaces
          /\ has_multiple_scans' \in BOOLEAN /\ warned' \in BOOLEAN
          /\ DOMAIN coef_bits' = DOMAIN comp_info' /\ bogus' \in BOOLEAN
      BY <1>14, Zenon DEF Again, Spaces
    <2>. QED
      BY <2>1, <2>2, <2>3, Zenon DEF MoreTypes, ScanTypes
  <1>15. CASE UNCHANGED vars
    BY <1>15 DEF vars, call, reader, frame, scans, MoreTypes, CallTypes, LeadingTypes, ScanTypes
  <1>. QED
    BY <1>2, <1>3, <1>4, <1>5, <1>6, <1>7, <1>8, <1>9, <1>10, <1>11, <1>12, <1>13, <1>14, <1>15
       DEF Next

-----------------------------------------------------------------------------
(* The scripts: a scan sends one component or all of them, and there is a  *)
(* scan of every component.                                                *)

Whole(n) == [i \in 1 .. n |-> i - 1]

ScansOf(n) ==
    [component_index : {<<c - 1>> : c \in 1 .. n} \cup {Whole(n)},
     Ss : Nat, Se : Nat, Ah : Nat, Al : Nat]

Covers(script, n) ==
    \A c \in 1 .. n : \E k \in 1 .. Len(script) :
        script[k].component_index \in {<<c - 1>>, Whole(n)}

(* Sequences over one set joined are one.                                  *)
LEMMA Joined ==
    ASSUME NEW S, NEW s, NEW t, s \in Seq(S), t \in Seq(S)
    PROVE  s \o t \in Seq(S)
  BY ConcatProperties

(* A script that covers all components still does with more behind it.     *)
LEMMA JoinedCovers ==
    ASSUME NEW S, NEW s, NEW t, NEW n, s \in Seq(S), t \in Seq(S), Covers(s, n)
    PROVE  s \o t \in Seq(S) /\ Covers(s \o t, n)
  <1>1. /\ s \o t \in Seq(S) /\ Len(s \o t) = Len(s) + Len(t)
        /\ \A i \in 1 .. Len(s) + Len(t) : (s \o t)[i] = IF i <= Len(s) THEN s[i] ELSE t[i - Len(s)]
        /\ Len(s) \in Nat /\ Len(t) \in Nat
    BY ConcatProperties, LenProperties
  <1>2. \A k \in 1 .. Len(s) : k \in 1 .. Len(s \o t) /\ (s \o t)[k] = s[k]
    BY <1>1
  <1>. QED
    BY <1>1, <1>2 DEF Covers

(* A function on 1 .. n is a sequence of length n.                         *)
LEMMA FunctionIsSequence ==
    ASSUME NEW S, NEW n \in Nat, NEW f \in [1 .. n -> S]
    PROVE  f \in Seq(S) /\ Len(f) = n
  <1>1. f \in Seq(S)
    BY SeqDef
  <1>2. DOMAIN f = 1 .. n /\ DOMAIN f = 1 .. Len(f) /\ Len(f) \in Nat
    BY <1>1, LenProperties
  <1>. QED
    BY <1>1, <1>2

(* fill_a_scan makes a scan of one component.                              *)
LEMMA OneScan ==
    ASSUME NEW n \in Nat, NEW c \in 1 .. n, NEW Ss \in Nat, NEW Se \in Nat, NEW Ah \in Nat, NEW Al \in Nat
    PROVE  Script!fill_a_scan(c - 1, Ss, Se, Ah, Al) \in Seq(ScansOf(n))
  <1>1. Script!ScanOf(<<c - 1>>, Ss, Se, Ah, Al) \in ScansOf(n)
    BY DEF Script!ScanOf, ScansOf
  <1>. QED
    BY <1>1 DEF Script!fill_a_scan

(* fill_scans makes a scan of each component,                              *)
LEMMA ScanForEach ==
    ASSUME NEW n \in Nat, NEW Ss \in Nat, NEW Se \in Nat, NEW Ah \in Nat, NEW Al \in Nat
    PROVE  /\ Script!fill_scans(n, Ss, Se, Ah, Al) \in Seq(ScansOf(n))
           /\ Covers(Script!fill_scans(n, Ss, Se, Ah, Al), n)
  <1> DEFINE s == Script!fill_scans(n, Ss, Se, Ah, Al)
  <1>1. \A c \in 1 .. n : Script!ScanOf(<<c - 1>>, Ss, Se, Ah, Al) \in ScansOf(n)
    BY DEF Script!ScanOf, ScansOf
  <1>2. s = [i \in 1 .. n |-> Script!ScanOf(<<i - 1>>, Ss, Se, Ah, Al)]
    BY DEF Script!fill_scans
  <1>3. s \in [1 .. n -> ScansOf(n)]
    BY <1>1, <1>2
  <1>4. s \in Seq(ScansOf(n)) /\ Len(s) = n
    BY <1>3, FunctionIsSequence
  <1>5. \A c \in 1 .. n : s[c].component_index = <<c - 1>>
    BY <1>2 DEF Script!ScanOf
  <1>. QED
    BY <1>4, <1>5 DEF Covers

(* and fill_dc_scans one of all of them, or one of each.                   *)
LEMMA DCScans ==
    ASSUME NEW n \in Nat, NEW Ah \in Nat, NEW Al \in Nat
    PROVE  /\ Script!fill_dc_scans(n, Ah, Al) \in Seq(ScansOf(n))
           /\ Covers(Script!fill_dc_scans(n, Ah, Al), n)
  <1> DEFINE scan == Script!ScanOf(Whole(n), 0, 0, Ah, Al)
  <1>1. scan \in ScansOf(n) /\ scan.component_index = Whole(n)
    BY DEF Script!ScanOf, ScansOf
  <1>2. Script!fill_dc_scans(n, Ah, Al) \in {<<scan>>, Script!fill_scans(n, 0, 0, Ah, Al)}
    BY DEF Script!fill_dc_scans, Whole
  <1>. HIDE DEF scan
  <1>3. <<scan>> \in Seq(ScansOf(n)) /\ Len(<<scan>>) = 1 /\ <<scan>>[1] = scan
    BY <1>1
  <1>4. Covers(<<scan>>, n)
    BY <1>1, <1>3 DEF Covers
  <1>5. /\ Script!fill_scans(n, 0, 0, Ah, Al) \in Seq(ScansOf(n))
        /\ Covers(Script!fill_scans(n, 0, 0, Ah, Al), n)
    BY ScanForEach
  <1>. QED
    BY <1>2, <1>3, <1>4, <1>5

(* jpeg_simple_progression.                                                *)
LEMMA ScriptCovers ==
    ASSUME NEW image, NEW n \in Nat, n = image.num_components, image.space = "YCbCr" => n >= 3
    PROVE  Script!ScriptOf(image) \in Seq(ScansOf(n)) /\ Covers(Script!ScriptOf(image), n)
  <1> DEFINE S == ScansOf(n)
             dc == Script!fill_dc_scans(n, 0, 1)
             dc2 == Script!fill_dc_scans(n, 1, 0)
  <1>1. dc \in Seq(S) /\ Covers(dc, n) /\ dc2 \in Seq(S)
    BY DCScans
  <1>2. CASE image.space = "YCbCr"
    <2>0. 1 \in 1 .. n /\ 2 \in 1 .. n /\ 3 \in 1 .. n /\ 1 - 1 = 0 /\ 2 - 1 = 1 /\ 3 - 1 = 2
      BY <1>2
    <2>1. \A Ss, Se, Ah, Al \in Nat :
             /\ Script!fill_a_scan(0, Ss, Se, Ah, Al) \in Seq(S)
             /\ Script!fill_a_scan(1, Ss, Se, Ah, Al) \in Seq(S)
             /\ Script!fill_a_scan(2, Ss, Se, Ah, Al) \in Seq(S)
      BY <2>0, OneScan
    <2> DEFINE a == Script!fill_a_scan(0, 1, 5, 0, 2)
               b == Script!fill_a_scan(2, 1, 63, 0, 1)
               c == Script!fill_a_scan(1, 1, 63, 0, 1)
               d == Script!fill_a_scan(0, 6, 63, 0, 2)
               e == Script!fill_a_scan(0, 1, 63, 2, 1)
               f == Script!fill_a_scan(2, 1, 63, 1, 0)
               g == Script!fill_a_scan(1, 1, 63, 1, 0)
               h == Script!fill_a_scan(0, 1, 63, 1, 0)
    <2>2. a \in Seq(S) /\ b \in Seq(S) /\ c \in Seq(S) /\ d \in Seq(S) /\ e \in Seq(S)
          /\ f \in Seq(S) /\ g \in Seq(S) /\ h \in Seq(S)
      BY <2>1
    <2>3. Script!ScriptOf(image) = dc \o a \o b \o c \o d \o e \o dc2 \o f \o g \o h
      BY <1>2 DEF Script!ScriptOf
    <2>. HIDE DEF S, dc, dc2, a, b, c, d, e, f, g, h
    <2>4. dc \o a \in Seq(S) /\ Covers(dc \o a, n)
      BY <1>1, <2>2, JoinedCovers
    <2>5. dc \o a \o b \in Seq(S) /\ Covers(dc \o a \o b, n)
      BY <2>2, <2>4, JoinedCovers
    <2>6. dc \o a \o b \o c \in Seq(S) /\ Covers(dc \o a \o b \o c, n)
      BY <2>2, <2>5, JoinedCovers
    <2>7. dc \o a \o b \o c \o d \in Seq(S) /\ Covers(dc \o a \o b \o c \o d, n)
      BY <2>2, <2>6, JoinedCovers
    <2>8. dc \o a \o b \o c \o d \o e \in Seq(S) /\ Covers(dc \o a \o b \o c \o d \o e, n)
      BY <2>2, <2>7, JoinedCovers
    <2>9. dc \o a \o b \o c \o d \o e \o dc2 \in Seq(S) /\ Covers(dc \o a \o b \o c \o d \o e \o dc2, n)
      BY <1>1, <2>8, JoinedCovers
    <2>10. dc \o a \o b \o c \o d \o e \o dc2 \o f \in Seq(S)
           /\ Covers(dc \o a \o b \o c \o d \o e \o dc2 \o f, n)
      BY <2>2, <2>9, JoinedCovers
    <2>11. dc \o a \o b \o c \o d \o e \o dc2 \o f \o g \in Seq(S)
           /\ Covers(dc \o a \o b \o c \o d \o e \o dc2 \o f \o g, n)
      BY <2>2, <2>10, JoinedCovers
    <2>12. dc \o a \o b \o c \o d \o e \o dc2 \o f \o g \o h \in Seq(S)
           /\ Covers(dc \o a \o b \o c \o d \o e \o dc2 \o f \o g \o h, n)
      BY <2>2, <2>11, JoinedCovers
    <2>. QED
      BY <2>3, <2>12 DEF S
  <1>3. CASE image.space # "YCbCr"
    <2> DEFINE a == Script!fill_scans(n, 1, 5, 0, 2)
               b == Script!fill_scans(n, 6, 63, 0, 2)
               c == Script!fill_scans(n, 1, 63, 2, 1)
               d == Script!fill_scans(n, 1, 63, 1, 0)
    <2>1. \A Ss, Se, Ah, Al \in Nat : Script!fill_scans(n, Ss, Se, Ah, Al) \in Seq(S)
      BY ScanForEach
    <2>2. a \in Seq(S) /\ b \in Seq(S) /\ c \in Seq(S) /\ d \in Seq(S)
      BY <2>1
    <2>3. Script!ScriptOf(image) = dc \o a \o b \o c \o dc2 \o d
      BY <1>3 DEF Script!ScriptOf
    <2>. HIDE DEF S, dc, dc2, a, b, c, d
    <2>4. dc \o a \in Seq(S) /\ Covers(dc \o a, n)
      BY <1>1, <2>2, JoinedCovers
    <2>5. dc \o a \o b \in Seq(S) /\ Covers(dc \o a \o b, n)
      BY <2>2, <2>4, JoinedCovers
    <2>6. dc \o a \o b \o c \in Seq(S) /\ Covers(dc \o a \o b \o c, n)
      BY <2>2, <2>5, JoinedCovers
    <2>7. dc \o a \o b \o c \o dc2 \in Seq(S) /\ Covers(dc \o a \o b \o c \o dc2, n)
      BY <1>1, <2>6, JoinedCovers
    <2>8. dc \o a \o b \o c \o dc2 \o d \in Seq(S) /\ Covers(dc \o a \o b \o c \o dc2 \o d, n)
      BY <2>2, <2>7, JoinedCovers
    <2>. QED
      BY <2>3, <2>8 DEF S
  <1>. QED
    BY <1>2, <1>3

(* Without a script there is one scan.                                     *)
LEMMA SequentialCovers ==
    ASSUME NEW image, NEW n \in Nat, n = image.num_components
    PROVE  /\ <<Script!SequentialScan(image)>> \in Seq(ScansOf(n))
           /\ Covers(<<Script!SequentialScan(image)>>, n)
           /\ Len(<<Script!SequentialScan(image)>>) = 1
  <1> DEFINE scan == Script!SequentialScan(image)
  <1>1. scan.component_index = Whole(n) /\ scan \in ScansOf(n)
    BY DEF Script!SequentialScan, Script!ScanOf, Script!DCTSIZE2, ScansOf, Whole
  <1>. HIDE DEF scan
  <1>2. <<scan>> \in Seq(ScansOf(n)) /\ Len(<<scan>>) = 1 /\ <<scan>>[1] = scan
    BY <1>1
  <1>3. Covers(<<scan>>, n)
    BY <1>1, <1>2 DEF Covers
  <1>. QED
    BY <1>2, <1>3 DEF scan

(* So the script of a picture sends every component.                       *)
LEMMA ImageScriptCovers ==
    ASSUME Types, jpeg_color_space = "YCbCr" => Len(comp_info) = 3
    PROVE  /\ ImageScript \in Seq(ScansOf(Len(comp_info)))
           /\ Covers(ImageScript, Len(comp_info))
           /\ ~progressive => Len(ImageScript) = 1
  <1> DEFINE image == [num_components |-> Len(comp_info), space |-> jpeg_color_space]
  <1>1. Len(comp_info) \in Nat
    BY DEF Types
  <1>2. Len(comp_info) = image.num_components /\ image.space = jpeg_color_space
    OBVIOUS
  <1>3. ImageScript = IF progressive THEN Script!ScriptOf(image) ELSE <<Script!SequentialScan(image)>>
    BY DEF ImageScript
  <1>. HIDE DEF image
  <1>4. image.space = "YCbCr" => Len(comp_info) >= 3
    BY <1>1, <1>2
  <1>5. CASE progressive
    BY <1>1, <1>2, <1>3, <1>4, <1>5, ScriptCovers
  <1>6. CASE ~progressive
    BY <1>1, <1>2, <1>3, <1>6, SequentialCovers
  <1>. QED
    BY <1>5, <1>6

-----------------------------------------------------------------------------
(* The scripts: each scan carries on where the scans before it stopped.    *)

(* A reader's coef_bits (x) after a scan p of the components in C, and     *)
(* what start_pass_phuff_decoder expects of them before it.                *)
After(x, C, p) ==
    [c \in DOMAIN x |-> [k \in Coefficients |->
        IF c \in C /\ k \in Script!Band(p) THEN p.Al ELSE x[c][k]]]

Continues(x, C, p) ==
    \A c \in C :
        /\ p.Ss # 0 => x[c][0] >= 0
        /\ \A k \in Script!Band(p) : p.Ah = IF x[c][k] < 0 THEN 0 ELSE x[c][k]

(* What the script may say at all.                                         *)
Permitted(p) ==
    /\ IF p.Ss = 0 THEN p.Se = 0
       ELSE p.Ss <= p.Se /\ p.Se < Script!DCTSIZE2 /\ Len(p.component_index) = 1
    /\ p.Ah # 0 => p.Al = p.Ah - 1
    /\ p.Al <= 13

(* The components of a scan, counted from one.                             *)
Places(scan) == {scan.component_index[i] + 1 : i \in DOMAIN scan.component_index}

(* f is what coef_bits are before, between and after the scans of s.       *)
Runs(s, f) ==
    \A m \in 1 .. Len(s) :
        /\ Permitted(s[m])
        /\ Continues(f[m - 1], Places(s[m]), s[m])
        /\ f[m] = After(f[m - 1], Places(s[m]), s[m])

Leads(s, x, y) == \E f : f[0] = x /\ f[Len(s)] = y /\ Runs(s, f)

(* One script and another behind it.                                       *)
LEMMA LeadsOn ==
    ASSUME NEW S, NEW s, NEW t, NEW x, NEW y, NEW z, s \in Seq(S), t \in Seq(S),
           Leads(s, x, y), Leads(t, y, z)
    PROVE  s \o t \in Seq(S) /\ Leads(s \o t, x, z)
  <1> DEFINE m == Len(s)
             n == Len(t)
  <1>1. /\ s \o t \in Seq(S) /\ Len(s \o t) = m + n
        /\ \A i \in 1 .. m + n : (s \o t)[i] = IF i <= m THEN s[i] ELSE t[i - m]
        /\ m \in Nat /\ n \in Nat
    BY ConcatProperties, LenProperties
  <1>2. PICK f : f[0] = x /\ f[m] = y /\ Runs(s, f)
    BY DEF Leads
  <1>3. PICK g : g[0] = y /\ g[n] = z /\ Runs(t, g)
    BY DEF Leads
  <1> DEFINE h == [i \in 0 .. m + n |-> IF i <= m THEN f[i] ELSE g[i - m]]
             u == s \o t
  <1>4. /\ \A i \in 1 .. m : /\ Permitted(s[i]) /\ Continues(f[i - 1], Places(s[i]), s[i])
                             /\ f[i] = After(f[i - 1], Places(s[i]), s[i])
        /\ \A i \in 1 .. n : /\ Permitted(t[i]) /\ Continues(g[i - 1], Places(t[i]), t[i])
                             /\ g[i] = After(g[i - 1], Places(t[i]), t[i])
    BY <1>2, <1>3 DEF Runs
  <1>. HIDE DEF m, n, u
  <1>5. h[0] = x /\ h[m + n] = z
    <2>1. n = 0 => h[m + n] = f[m]
      BY <1>1
    <2>2. n # 0 => h[m + n] = g[n]
      BY <1>1
    <2>3. h[0] = f[0]
      BY <1>1
    <2>. QED
      BY <1>2, <1>3, <2>1, <2>2, <2>3
  <1>6. ASSUME NEW i \in 1 .. m + n
        PROVE  /\ Permitted(u[i]) /\ Continues(h[i - 1], Places(u[i]), u[i])
               /\ h[i] = After(h[i - 1], Places(u[i]), u[i])
    <2>1. CASE i <= m
      <3>1. i \in 1 .. m /\ i - 1 \in 0 .. m + n /\ i - 1 <= m /\ i \in 0 .. m + n
        BY <1>1, <2>1
      <3>2. u[i] = s[i]
        BY <1>1, <2>1 DEF u
      <3>3. h[i] = f[i] /\ h[i - 1] = f[i - 1]
        BY <2>1, <3>1
      <3>. HIDE DEF h
      <3>. QED
        BY <1>4, <3>1, <3>2, <3>3
    <2>2. CASE i > m
      <3>1. /\ i - m \in 1 .. n /\ i - 1 \in 0 .. m + n /\ ~(i <= m) /\ i \in 0 .. m + n
            /\ (i - m) - 1 = (i - 1) - m /\ (i - 1 <= m => i - 1 = m /\ (i - m) - 1 = 0)
        BY <1>1, <2>2
      <3>2. u[i] = t[i - m]
        BY <1>1, <3>1 DEF u
      <3>3. h[i] = g[i - m]
        BY <3>1
      <3>4. h[i - 1] = g[(i - m) - 1]
        <4>1. CASE i - 1 <= m
          <5>1. h[i - 1] = f[m] /\ g[(i - m) - 1] = g[0]
            BY <3>1, <4>1
          <5>. QED
            BY <1>2, <1>3, <5>1
        <4>2. CASE ~(i - 1 <= m)
          BY <3>1, <4>2
        <4>. QED
          BY <4>1, <4>2
      <3>. HIDE DEF h
      <3>. QED
        BY <1>4, <3>1, <3>2, <3>3, <3>4
    <2>. QED
      BY <1>1, <2>1, <2>2
  <1>7. Len(u) = m + n
    BY <1>1 DEF u
  <1>. HIDE DEF h
  <1>8. Runs(u, h)
    BY <1>6, <1>7 DEF Runs
  <1>. QED
    BY <1>1, <1>5, <1>7, <1>8 DEF Leads, u

(* How far all components have been sent.                                  *)
Even(n, L) == [c \in 1 .. n |-> L]

(* A block that has been sent as L, sent once more by scan p.              *)
SentOnce(L, p) == [k \in Coefficients |-> IF k \in Script!Band(p) THEN p.Al ELSE L[k]]

Ready(L, p) ==
    /\ p.Ss # 0 => L[0] >= 0
    /\ \A k \in Script!Band(p) : p.Ah = IF L[k] < 0 THEN 0 ELSE L[k]

(* fill_a_scan.                                                            *)
LEMMA OneLeads ==
    ASSUME NEW n \in Nat, NEW c \in 1 .. n, NEW Ss, NEW Se, NEW Ah, NEW Al, NEW x,
           DOMAIN x = 1 .. n, x[c] \in [Coefficients -> Int], \A d \in 1 .. n : x[d] \in [Coefficients -> Int],
           Permitted(Script!ScanOf(<<c - 1>>, Ss, Se, Ah, Al)),
           Ready(x[c], Script!ScanOf(<<c - 1>>, Ss, Se, Ah, Al))
    PROVE  Leads(Script!fill_a_scan(c - 1, Ss, Se, Ah, Al), x,
                 [x EXCEPT ![c] = SentOnce(x[c], Script!ScanOf(<<c - 1>>, Ss, Se, Ah, Al))])
  <1> DEFINE p == Script!ScanOf(<<c - 1>>, Ss, Se, Ah, Al)
             y == [x EXCEPT ![c] = SentOnce(x[c], p)]
             f == [i \in 0 .. 1 |-> IF i = 0 THEN x ELSE y]
             s == <<p>>
  <1>1. p.component_index = <<c - 1>>
    BY DEF Script!ScanOf
  <1>2. Script!fill_a_scan(c - 1, Ss, Se, Ah, Al) = s
    BY DEF Script!fill_a_scan
  <1>. HIDE DEF p
  <1>3. Places(p) = {c}
    BY <1>1 DEF Places
  <1>4. Continues(x, {c}, p)
    BY DEF Continues, Ready, p
  <1>5. y = After(x, {c}, p)
    <2>1. \A d \in 1 .. n : y[d] = [k \in Coefficients |->
              IF d \in {c} /\ k \in Script!Band(p) THEN p.Al ELSE x[d][k]]
      BY DEF SentOnce
    <2>2. DOMAIN y = 1 .. n
      OBVIOUS
    <2>3. y = [d \in 1 .. n |-> y[d]]
      BY <2>2
    <2>. HIDE DEF y
    <2>. QED
      BY <2>1, <2>3 DEF After
  <1>6. Len(s) = 1 /\ s[1] = p
    OBVIOUS
  <1>7. f[0] = x /\ f[1] = y
    OBVIOUS
  <1>. HIDE DEF s, f, y
  <1>8. \A m \in 1 .. Len(s) : m = 1 /\ m - 1 = 0
    BY <1>6
  <1>9. Permitted(p)
    BY DEF p
  <1>10. Runs(s, f)
    BY <1>3, <1>4, <1>5, <1>6, <1>7, <1>8, <1>9 DEF Runs
  <1>11. Leads(s, x, y)
    BY <1>6, <1>7, <1>10 DEF Leads
  <1>. QED
    BY <1>2, <1>11 DEF y, p

(* fill_scans.                                                             *)
LEMMA EachLeads ==
    ASSUME NEW n \in Nat, NEW Ss, NEW Se, NEW Ah, NEW Al, NEW L \in [Coefficients -> Int],
           \A c \in 1 .. n : /\ Permitted(Script!ScanOf(<<c - 1>>, Ss, Se, Ah, Al))
                             /\ Ready(L, Script!ScanOf(<<c - 1>>, Ss, Se, Ah, Al)),
           NEW M, M = [k \in Coefficients |-> IF Ss <= k /\ k <= Se THEN Al ELSE L[k]]
    PROVE  Leads(Script!fill_scans(n, Ss, Se, Ah, Al), Even(n, L), Even(n, M))
  <1> DEFINE p(c) == Script!ScanOf(<<c - 1>>, Ss, Se, Ah, Al)
             s == Script!fill_scans(n, Ss, Se, Ah, Al)
             f == [i \in 0 .. n |-> [c \in 1 .. n |-> IF c <= i THEN M ELSE L]]
             S == {p(c) : c \in 1 .. n}
  <1>1. s = [c \in 1 .. n |-> p(c)]
    BY DEF Script!fill_scans
  <1>2. s \in [1 .. n -> S]
    BY <1>1
  <1>. HIDE DEF s, S
  <1>3. Len(s) = n
    BY <1>2, FunctionIsSequence
  <1>4. \A c \in 1 .. n : /\ p(c).component_index = <<c - 1>> /\ p(c).Ss = Ss /\ p(c).Se = Se
                          /\ p(c).Ah = Ah /\ p(c).Al = Al
    BY DEF Script!ScanOf
  <1>5. \A c \in 1 .. n : Permitted(p(c)) /\ Ready(L, p(c))
    OBVIOUS
  <1>6. \A c \in 1 .. n : s[c] = p(c)
    BY <1>1
  <1>. HIDE DEF p
  <1>7. \A c \in 1 .. n : Places(p(c)) = {c}
    BY <1>4 DEF Places
  <1>8. \A c \in 1 .. n : Script!Band(p(c)) = {k \in Coefficients : Ss <= k /\ k <= Se}
    BY <1>4 DEF Script!Band
  <1>9. f[0] = Even(n, L)
    <2>1. \A c \in 1 .. n : ~(c <= 0)
      OBVIOUS
    <2>2. f[0] = [c \in 1 .. n |-> IF c <= 0 THEN M ELSE L]
      OBVIOUS
    <2>. QED
      BY <2>1, <2>2 DEF Even
  <1>10. f[n] = Even(n, M)
    <2>1. \A c \in 1 .. n : c <= n
      OBVIOUS
    <2>2. f[n] = [c \in 1 .. n |-> IF c <= n THEN M ELSE L]
      OBVIOUS
    <2>. QED
      BY <2>1, <2>2 DEF Even
  <1>11. ASSUME NEW m \in 1 .. n
         PROVE  /\ Continues(f[m - 1], {m}, p(m))
                /\ f[m] = After(f[m - 1], {m}, p(m))
    <2>1. f[m - 1] = [c \in 1 .. n |-> IF c <= m - 1 THEN M ELSE L]
      BY m - 1 \in 0 .. n
    <2>2. f[m] = [c \in 1 .. n |-> IF c <= m THEN M ELSE L]
      OBVIOUS
    <2>. HIDE DEF f
    <2>3. f[m - 1][m] = L
      BY <2>1
    <2>4. Continues(f[m - 1], {m}, p(m))
      BY <1>5, <2>3 DEF Continues, Ready
    <2>5. DOMAIN f[m - 1] = 1 .. n
      BY <2>1
    <2>6. After(f[m - 1], {m}, p(m)) =
             [c \in 1 .. n |-> [k \in Coefficients |->
                IF c \in {m} /\ k \in Script!Band(p(m)) THEN p(m).Al ELSE f[m - 1][c][k]]]
      BY <2>5 DEF After
    <2>7. ASSUME NEW c \in 1 .. n
          PROVE  [k \in Coefficients |->
                    IF c \in {m} /\ k \in Script!Band(p(m)) THEN p(m).Al ELSE f[m - 1][c][k]]
                  = IF c <= m THEN M ELSE L
      <3>1. CASE c < m
        <4>1. f[m - 1][c] = M /\ c # m /\ c <= m
          BY <2>1, <3>1
        <4>2. M = [k \in Coefficients |-> M[k]]
          OBVIOUS
        <4>. QED
          BY <4>1, <4>2
      <3>2. CASE c = m
        <4>1. \A k \in Coefficients : k \in Script!Band(p(m)) <=> Ss <= k /\ k <= Se
          BY <1>8
        <4>2. p(m).Al = Al
          BY <1>4
        <4>3. c <= m
          BY <3>2
        <4>. QED
          BY <2>3, <3>2, <4>1, <4>2, <4>3
      <3>3. CASE c > m
        <4>1. f[m - 1][c] = L /\ c # m /\ ~(c <= m)
          BY <2>1, <3>3
        <4>2. L = [k \in Coefficients |-> L[k]]
          OBVIOUS
        <4>. QED
          BY <4>1, <4>2
      <3>. QED
        BY <3>1, <3>2, <3>3
    <2>8. f[m] = After(f[m - 1], {m}, p(m))
      BY <2>2, <2>6, <2>7
    <2>. QED
      BY <2>4, <2>8
  <1>. HIDE DEF f
  <1>12. Runs(s, f)
    BY <1>3, <1>5, <1>6, <1>7, <1>11 DEF Runs
  <1>13. Leads(s, Even(n, L), Even(n, M))
    BY <1>3, <1>9, <1>10, <1>12 DEF Leads
  <1>. QED
    BY <1>13 DEF s

(* fill_dc_scans.                                                          *)
LEMMA DCLeads ==
    ASSUME NEW n \in Nat \ {0}, NEW Ah \in Nat, NEW Al \in Nat, Ah # 0 => Al = Ah - 1, Al <= 13,
           NEW L \in [Coefficients -> Int], Ah = IF L[0] < 0 THEN 0 ELSE L[0],
           NEW M, M = [k \in Coefficients |-> IF k = 0 THEN Al ELSE L[k]]
    PROVE  Leads(Script!fill_dc_scans(n, Ah, Al), Even(n, L), Even(n, M))
  <1> DEFINE p == Script!ScanOf(Whole(n), 0, 0, Ah, Al)
             f == [i \in 0 .. 1 |-> IF i = 0 THEN Even(n, L) ELSE Even(n, M)]
             s == <<p>>
  <1>0. 0 \in Coefficients /\ \A k \in Coefficients : k \in Int /\ k >= 0
    BY PositionsAssumption
  <1>1. CASE n <= 4
    <2>1. Script!fill_dc_scans(n, Ah, Al) = s
      BY <1>1 DEF Script!fill_dc_scans, Script!MAX_COMPS_IN_SCAN, Whole
    <2>2. p.component_index = Whole(n) /\ p.Ss = 0 /\ p.Se = 0 /\ p.Ah = Ah /\ p.Al = Al
      BY DEF Script!ScanOf
    <2>. HIDE DEF p
    <2>3. Places(p) = 1 .. n
      <3>1. DOMAIN p.component_index = 1 .. n /\ \A i \in 1 .. n : p.component_index[i] + 1 = i
        BY <2>2 DEF Whole
      <3>. QED
        BY <3>1 DEF Places
    <2>4. Script!Band(p) = {0}
      BY <1>0, <2>2 DEF Script!Band
    <2>5. Permitted(p)
      BY <2>2 DEF Permitted
    <2>6. \A c \in 1 .. n : Even(n, L)[c] = L
      BY DEF Even
    <2>7. Continues(Even(n, L), 1 .. n, p)
      BY <2>2, <2>4, <2>6 DEF Continues
    <2>8. Even(n, M) = After(Even(n, L), 1 .. n, p)
      <3>1. DOMAIN Even(n, L) = 1 .. n
        BY DEF Even
      <3>2. ASSUME NEW c \in 1 .. n
            PROVE  [k \in Coefficients |->
                      IF c \in 1 .. n /\ k \in Script!Band(p) THEN p.Al ELSE Even(n, L)[c][k]] = M
        BY <2>2, <2>4, <2>6
      <3>. QED
        BY <3>1, <3>2 DEF After, Even
    <2>9. Len(s) = 1 /\ s[1] = p
      OBVIOUS
    <2>10. f[0] = Even(n, L) /\ f[1] = Even(n, M)
      OBVIOUS
    <2>. HIDE DEF s, f
    <2>11. \A m \in 1 .. Len(s) : m = 1 /\ m - 1 = 0
      BY <2>9
    <2>12. Runs(s, f)
      BY <2>3, <2>5, <2>7, <2>8, <2>9, <2>10, <2>11 DEF Runs
    <2>13. Leads(s, Even(n, L), Even(n, M))
      BY <2>9, <2>10, <2>12 DEF Leads
    <2>. QED
      BY <2>1, <2>13
  <1>2. CASE ~(n <= 4)
    <2>1. Script!fill_dc_scans(n, Ah, Al) = Script!fill_scans(n, 0, 0, Ah, Al)
      BY <1>2 DEF Script!fill_dc_scans, Script!MAX_COMPS_IN_SCAN
    <2>2. \A c \in 1 .. n : /\ Permitted(Script!ScanOf(<<c - 1>>, 0, 0, Ah, Al))
                            /\ Ready(L, Script!ScanOf(<<c - 1>>, 0, 0, Ah, Al))
      BY <1>0 DEF Permitted, Ready, Script!ScanOf, Script!Band
    <2>3. M = [k \in Coefficients |-> IF 0 <= k /\ k <= 0 THEN Al ELSE L[k]]
      BY <1>0
    <2>. QED
      BY <2>1, <2>2, <2>3, EachLeads
  <1>. QED
    BY <1>1, <1>2

(* The DC coefficient, the first five of the others, and the rest.         *)
Levels(a, b, d) == [k \in Coefficients |-> IF k = 0 THEN a ELSE IF k <= 5 THEN b ELSE d]

LEMMA LevelsType ==
    ASSUME NEW a \in Int, NEW b \in Int, NEW d \in Int
    PROVE  /\ Levels(a, b, d) \in [Coefficients -> Int] /\ Levels(a, b, d)[0] = a
           /\ \A k \in Coefficients : Levels(a, b, d)[k] = IF k = 0 THEN a ELSE IF k <= 5 THEN b ELSE d
  BY PositionsAssumption DEF Levels

(* A script for a picture that is not YCbCr.                               *)
LEMMA FullScriptLeads ==
    ASSUME NEW image, NEW n \in Nat \ {0}, n = image.num_components, image.space # "YCbCr"
    PROVE  Leads(Script!ScriptOf(image), Even(n, Levels(-1, -1, -1)), Even(n, Levels(0, 0, 0)))
  <1> DEFINE S == ScansOf(n)
             dc == Script!fill_dc_scans(n, 0, 1)
             dc2 == Script!fill_dc_scans(n, 1, 0)
             a == Script!fill_scans(n, 1, 5, 0, 2)
             b == Script!fill_scans(n, 6, 63, 0, 2)
             c == Script!fill_scans(n, 1, 63, 2, 1)
             d == Script!fill_scans(n, 1, 63, 1, 0)
             x0 == Even(n, Levels(-1, -1, -1))
             x1 == Even(n, Levels(1, -1, -1))
             x2 == Even(n, Levels(1, 2, -1))
             x3 == Even(n, Levels(1, 2, 2))
             x4 == Even(n, Levels(1, 1, 1))
             x5 == Even(n, Levels(0, 1, 1))
             x6 == Even(n, Levels(0, 0, 0))
  <1>0. 0 \in Coefficients /\ \A k \in Coefficients : k \in Int /\ k >= 0 /\ k <= 63
    BY PositionsAssumption
  <1>1. dc \in Seq(S) /\ dc2 \in Seq(S) /\ a \in Seq(S) /\ b \in Seq(S) /\ c \in Seq(S) /\ d \in Seq(S)
    BY DCScans, ScanForEach
  <1>2. Script!ScriptOf(image) = dc \o a \o b \o c \o dc2 \o d
    BY DEF Script!ScriptOf
  <1>3. Leads(dc, x0, x1)
    <2>1. Levels(1, -1, -1) = [k \in Coefficients |-> IF k = 0 THEN 1 ELSE Levels(-1, -1, -1)[k]]
      BY DEF Levels
    <2>2. Levels(-1, -1, -1) \in [Coefficients -> Int] /\ Levels(-1, -1, -1)[0] = -1
      BY LevelsType
    <2>. QED
      BY <2>1, <2>2, DCLeads
  <1>4. Leads(dc2, x4, x5)
    <2>1. Levels(0, 1, 1) = [k \in Coefficients |-> IF k = 0 THEN 0 ELSE Levels(1, 1, 1)[k]]
      BY DEF Levels
    <2>2. Levels(1, 1, 1) \in [Coefficients -> Int] /\ Levels(1, 1, 1)[0] = 1
      BY LevelsType
    <2>. QED
      BY <2>1, <2>2, DCLeads
  <1>5. Leads(a, x1, x2)
    <2>1. Levels(1, 2, -1) = [k \in Coefficients |-> IF 1 <= k /\ k <= 5 THEN 2 ELSE Levels(1, -1, -1)[k]]
      BY <1>0 DEF Levels
    <2>2. Levels(1, -1, -1) \in [Coefficients -> Int] /\ Levels(1, -1, -1)[0] = 1
          /\ \A k \in Coefficients : Levels(1, -1, -1)[k] = IF k = 0 THEN 1 ELSE IF k <= 5 THEN -1 ELSE -1
      BY LevelsType
    <2>3. \A e \in 1 .. n : /\ Permitted(Script!ScanOf(<<e - 1>>, 1, 5, 0, 2))
                            /\ Ready(Levels(1, -1, -1), Script!ScanOf(<<e - 1>>, 1, 5, 0, 2))
      BY <1>0, <2>2 DEF Permitted, Ready, Script!ScanOf, Script!Band, Script!DCTSIZE2
    <2>. QED
      BY <2>1, <2>2, <2>3, EachLeads
  <1>6. Leads(b, x2, x3)
    <2>1. Levels(1, 2, 2) = [k \in Coefficients |-> IF 6 <= k /\ k <= 63 THEN 2 ELSE Levels(1, 2, -1)[k]]
      BY <1>0 DEF Levels
    <2>2. Levels(1, 2, -1) \in [Coefficients -> Int] /\ Levels(1, 2, -1)[0] = 1
          /\ \A k \in Coefficients : Levels(1, 2, -1)[k] = IF k = 0 THEN 1 ELSE IF k <= 5 THEN 2 ELSE -1
      BY LevelsType
    <2>3. \A e \in 1 .. n : /\ Permitted(Script!ScanOf(<<e - 1>>, 6, 63, 0, 2))
                            /\ Ready(Levels(1, 2, -1), Script!ScanOf(<<e - 1>>, 6, 63, 0, 2))
      BY <1>0, <2>2 DEF Permitted, Ready, Script!ScanOf, Script!Band, Script!DCTSIZE2
    <2>. QED
      BY <2>1, <2>2, <2>3, EachLeads
  <1>7. Leads(c, x3, x4)
    <2>1. Levels(1, 1, 1) = [k \in Coefficients |-> IF 1 <= k /\ k <= 63 THEN 1 ELSE Levels(1, 2, 2)[k]]
      BY <1>0 DEF Levels
    <2>2. Levels(1, 2, 2) \in [Coefficients -> Int] /\ Levels(1, 2, 2)[0] = 1
          /\ \A k \in Coefficients : Levels(1, 2, 2)[k] = IF k = 0 THEN 1 ELSE IF k <= 5 THEN 2 ELSE 2
      BY LevelsType
    <2>3. \A e \in 1 .. n : /\ Permitted(Script!ScanOf(<<e - 1>>, 1, 63, 2, 1))
                            /\ Ready(Levels(1, 2, 2), Script!ScanOf(<<e - 1>>, 1, 63, 2, 1))
      BY <1>0, <2>2 DEF Permitted, Ready, Script!ScanOf, Script!Band, Script!DCTSIZE2
    <2>. QED
      BY <2>1, <2>2, <2>3, EachLeads
  <1>8. Leads(d, x5, x6)
    <2>1. Levels(0, 0, 0) = [k \in Coefficients |-> IF 1 <= k /\ k <= 63 THEN 0 ELSE Levels(0, 1, 1)[k]]
      BY <1>0 DEF Levels
    <2>2. Levels(0, 1, 1) \in [Coefficients -> Int] /\ Levels(0, 1, 1)[0] = 0
          /\ \A k \in Coefficients : Levels(0, 1, 1)[k] = IF k = 0 THEN 0 ELSE IF k <= 5 THEN 1 ELSE 1
      BY LevelsType
    <2>3. \A e \in 1 .. n : /\ Permitted(Script!ScanOf(<<e - 1>>, 1, 63, 1, 0))
                            /\ Ready(Levels(0, 1, 1), Script!ScanOf(<<e - 1>>, 1, 63, 1, 0))
      BY <1>0, <2>2 DEF Permitted, Ready, Script!ScanOf, Script!Band, Script!DCTSIZE2
    <2>. QED
      BY <2>1, <2>2, <2>3, EachLeads
  <1>. HIDE DEF S, dc, dc2, a, b, c, d, x0, x1, x2, x3, x4, x5, x6
  <1>9. dc \o a \in Seq(S) /\ Leads(dc \o a, x0, x2)
    BY <1>1, <1>3, <1>5, LeadsOn
  <1>10. dc \o a \o b \in Seq(S) /\ Leads(dc \o a \o b, x0, x3)
    BY <1>1, <1>6, <1>9, LeadsOn
  <1>11. dc \o a \o b \o c \in Seq(S) /\ Leads(dc \o a \o b \o c, x0, x4)
    BY <1>1, <1>7, <1>10, LeadsOn
  <1>12. dc \o a \o b \o c \o dc2 \in Seq(S) /\ Leads(dc \o a \o b \o c \o dc2, x0, x5)
    BY <1>1, <1>4, <1>11, LeadsOn
  <1>13. Leads(dc \o a \o b \o c \o dc2 \o d, x0, x6)
    BY <1>1, <1>8, <1>12, LeadsOn
  <1>. QED
    BY <1>2, <1>13 DEF x0, x6

(* What the three components of a YCbCr picture have got.                  *)
Three(a, b, d) == [c \in 1 .. 3 |-> IF c = 1 THEN a ELSE IF c = 2 THEN b ELSE d]

LEMMA ThreeLeads ==
    ASSUME NEW a \in [Coefficients -> Int], NEW b \in [Coefficients -> Int], NEW d \in [Coefficients -> Int],
           NEW Ss, NEW Se, NEW Ah, NEW Al, NEW p, p = [Ss |-> Ss, Se |-> Se, Ah |-> Ah, Al |-> Al],
           1 <= Ss, Ss \in Nat, Ss <= Se, Se <= 63, Se \in Nat, Ah # 0 => Al = Ah - 1, Al <= 13
    PROVE  /\ Ready(a, p) => Leads(Script!fill_a_scan(0, Ss, Se, Ah, Al), Three(a, b, d), Three(SentOnce(a, p), b, d))
           /\ Ready(b, p) => Leads(Script!fill_a_scan(1, Ss, Se, Ah, Al), Three(a, b, d), Three(a, SentOnce(b, p), d))
           /\ Ready(d, p) => Leads(Script!fill_a_scan(2, Ss, Se, Ah, Al), Three(a, b, d), Three(a, b, SentOnce(d, p)))
  <1> DEFINE x == Three(a, b, d)
             q(c) == Script!ScanOf(<<c - 1>>, Ss, Se, Ah, Al)
  <1>1. DOMAIN x = 1 .. 3 /\ x[1] = a /\ x[2] = b /\ x[3] = d /\ \A e \in 1 .. 3 : x[e] \in [Coefficients -> Int]
    BY DEF Three
  <1>2. \A c \in 1 .. 3 : Permitted(q(c))
    BY DEF Permitted, Script!ScanOf, Script!DCTSIZE2
  <1>3. \A c \in 1 .. 3 : q(c).Ss = p.Ss /\ q(c).Se = p.Se /\ q(c).Ah = p.Ah /\ q(c).Al = p.Al
    BY DEF Script!ScanOf
  <1>. HIDE DEF q
  <1>4. \A L : \A c \in 1 .. 3 : (Ready(L, q(c)) <=> Ready(L, p)) /\ SentOnce(L, q(c)) = SentOnce(L, p)
    BY <1>3 DEF Ready, SentOnce, Script!Band
  <1>5. /\ [x EXCEPT ![1] = SentOnce(a, p)] = Three(SentOnce(a, p), b, d)
        /\ [x EXCEPT ![2] = SentOnce(b, p)] = Three(a, SentOnce(b, p), d)
        /\ [x EXCEPT ![3] = SentOnce(d, p)] = Three(a, b, SentOnce(d, p))
    <2>1. ASSUME NEW v
          PROVE  /\ [x EXCEPT ![1] = v] = [c \in 1 .. 3 |-> IF c = 1 THEN v ELSE IF c = 2 THEN b ELSE d]
                 /\ [x EXCEPT ![2] = v] = [c \in 1 .. 3 |-> IF c = 1 THEN a ELSE IF c = 2 THEN v ELSE d]
                 /\ [x EXCEPT ![3] = v] = [c \in 1 .. 3 |-> IF c = 1 THEN a ELSE IF c = 2 THEN b ELSE v]
      <3>. HIDE DEF x
      <3>1. \A c \in 1 .. 3 : c = 1 \/ c = 2 \/ c = 3
        OBVIOUS
      <3>2. [x EXCEPT ![1] = v] = [c \in 1 .. 3 |-> IF c = 1 THEN v ELSE IF c = 2 THEN b ELSE d]
        <4>1. [x EXCEPT ![1] = v] = [c \in 1 .. 3 |-> IF c = 1 THEN v ELSE x[c]]
          BY <1>1
        <4>2. \A c \in 1 .. 3 : (IF c = 1 THEN v ELSE x[c]) = IF c = 1 THEN v ELSE IF c = 2 THEN b ELSE d
          BY <1>1, <3>1
        <4>. QED
          BY <4>1, <4>2
      <3>3. [x EXCEPT ![2] = v] = [c \in 1 .. 3 |-> IF c = 1 THEN a ELSE IF c = 2 THEN v ELSE d]
        <4>1. [x EXCEPT ![2] = v] = [c \in 1 .. 3 |-> IF c = 2 THEN v ELSE x[c]]
          BY <1>1
        <4>2. \A c \in 1 .. 3 : (IF c = 2 THEN v ELSE x[c]) = IF c = 1 THEN a ELSE IF c = 2 THEN v ELSE d
          BY <1>1, <3>1
        <4>. QED
          BY <4>1, <4>2
      <3>4. [x EXCEPT ![3] = v] = [c \in 1 .. 3 |-> IF c = 1 THEN a ELSE IF c = 2 THEN b ELSE v]
        <4>1. [x EXCEPT ![3] = v] = [c \in 1 .. 3 |-> IF c = 3 THEN v ELSE x[c]]
          BY <1>1
        <4>2. \A c \in 1 .. 3 : (IF c = 3 THEN v ELSE x[c]) = IF c = 1 THEN a ELSE IF c = 2 THEN b ELSE v
          BY <1>1, <3>1
        <4>. QED
          BY <4>1, <4>2
      <3>. QED
        BY <3>2, <3>3, <3>4
    <2>. HIDE DEF x
    <2>. QED
      BY <2>1 DEF Three
  <1>. HIDE DEF x
  <1>6. ASSUME NEW c \in 1 .. 3, Ready(x[c], p)
        PROVE  Leads(Script!fill_a_scan(c - 1, Ss, Se, Ah, Al), x, [x EXCEPT ![c] = SentOnce(x[c], p)])
    <2>1. Permitted(q(c)) /\ Ready(x[c], q(c)) /\ SentOnce(x[c], q(c)) = SentOnce(x[c], p)
      BY <1>2, <1>4, <1>6
    <2>2. 3 \in Nat
      OBVIOUS
    <2>3. Leads(Script!fill_a_scan(c - 1, Ss, Se, Ah, Al), x, [x EXCEPT ![c] = SentOnce(x[c], q(c))])
      BY <1>1, <2>1, <2>2, OneLeads DEF q
    <2>. QED
      BY <2>1, <2>3
  <1>7. /\ Ready(x[1], p) => Leads(Script!fill_a_scan(1 - 1, Ss, Se, Ah, Al), x, [x EXCEPT ![1] = SentOnce(x[1], p)])
        /\ Ready(x[2], p) => Leads(Script!fill_a_scan(2 - 1, Ss, Se, Ah, Al), x, [x EXCEPT ![2] = SentOnce(x[2], p)])
        /\ Ready(x[3], p) => Leads(Script!fill_a_scan(3 - 1, Ss, Se, Ah, Al), x, [x EXCEPT ![3] = SentOnce(x[3], p)])
    <2>1. 1 \in 1 .. 3 /\ 2 \in 1 .. 3 /\ 3 \in 1 .. 3
      OBVIOUS
    <2>. QED
      BY <1>6, <2>1, Zenon
  <1>8. 1 - 1 = 0 /\ 2 - 1 = 1 /\ 3 - 1 = 2
    OBVIOUS
  <1>. HIDE DEF x
  <1>9. /\ Ready(a, p) => Leads(Script!fill_a_scan(0, Ss, Se, Ah, Al), x, [x EXCEPT ![1] = SentOnce(a, p)])
        /\ Ready(b, p) => Leads(Script!fill_a_scan(1, Ss, Se, Ah, Al), x, [x EXCEPT ![2] = SentOnce(b, p)])
        /\ Ready(d, p) => Leads(Script!fill_a_scan(2, Ss, Se, Ah, Al), x, [x EXCEPT ![3] = SentOnce(d, p)])
    BY <1>1, <1>7, <1>8
  <1>. QED
    BY <1>5, <1>9 DEF x

(* The script of a YCbCr picture.                                          *)
LEMMA YCbCrScriptLeads ==
    ASSUME NEW image, image.num_components = 3, image.space = "YCbCr"
    PROVE  Leads(Script!ScriptOf(image), Even(3, Levels(-1, -1, -1)), Even(3, Levels(0, 0, 0)))
  <1> DEFINE S == ScansOf(3)
             a == Script!fill_dc_scans(3, 0, 1)
             b == Script!fill_a_scan(0, 1, 5, 0, 2)
             c == Script!fill_a_scan(2, 1, 63, 0, 1)
             d == Script!fill_a_scan(1, 1, 63, 0, 1)
             e == Script!fill_a_scan(0, 6, 63, 0, 2)
             f == Script!fill_a_scan(0, 1, 63, 2, 1)
             g == Script!fill_dc_scans(3, 1, 0)
             h == Script!fill_a_scan(2, 1, 63, 1, 0)
             i == Script!fill_a_scan(1, 1, 63, 1, 0)
             j == Script!fill_a_scan(0, 1, 63, 1, 0)
             x0 == Three(Levels(-1, -1, -1), Levels(-1, -1, -1), Levels(-1, -1, -1))
             x1 == Three(Levels(1, -1, -1), Levels(1, -1, -1), Levels(1, -1, -1))
             x2 == Three(Levels(1, 2, -1), Levels(1, -1, -1), Levels(1, -1, -1))
             x3 == Three(Levels(1, 2, -1), Levels(1, -1, -1), Levels(1, 1, 1))
             x4 == Three(Levels(1, 2, -1), Levels(1, 1, 1), Levels(1, 1, 1))
             x5 == Three(Levels(1, 2, 2), Levels(1, 1, 1), Levels(1, 1, 1))
             x6 == Three(Levels(1, 1, 1), Levels(1, 1, 1), Levels(1, 1, 1))
             x7 == Three(Levels(0, 1, 1), Levels(0, 1, 1), Levels(0, 1, 1))
             x8 == Three(Levels(0, 1, 1), Levels(0, 1, 1), Levels(0, 0, 0))
             x9 == Three(Levels(0, 1, 1), Levels(0, 0, 0), Levels(0, 0, 0))
             x10 == Three(Levels(0, 0, 0), Levels(0, 0, 0), Levels(0, 0, 0))
  <1>0. 0 \in Coefficients /\ \A k \in Coefficients : k \in Int /\ k >= 0 /\ k <= 63
    BY PositionsAssumption
  <1>1. Script!ScriptOf(image) = a \o b \o c \o d \o e \o f \o g \o h \o i \o j
    BY DEF Script!ScriptOf
  <1>2. /\ a \in Seq(S) /\ b \in Seq(S) /\ c \in Seq(S) /\ d \in Seq(S) /\ e \in Seq(S)
        /\ f \in Seq(S) /\ g \in Seq(S) /\ h \in Seq(S) /\ i \in Seq(S) /\ j \in Seq(S)
    <2>1. /\ 1 \in 1 .. 3 /\ 2 \in 1 .. 3 /\ 3 \in 1 .. 3 /\ 1 - 1 = 0 /\ 2 - 1 = 1 /\ 3 - 1 = 2
          /\ 3 \in Nat
      OBVIOUS
    <2>2. \A Ss, Se, Ah, Al \in Nat :
             /\ Script!fill_a_scan(0, Ss, Se, Ah, Al) \in Seq(S)
             /\ Script!fill_a_scan(1, Ss, Se, Ah, Al) \in Seq(S)
             /\ Script!fill_a_scan(2, Ss, Se, Ah, Al) \in Seq(S)
      BY <2>1, OneScan
    <2>3. a \in Seq(S) /\ g \in Seq(S)
      BY DCScans
    <2>. QED
      BY <2>2, <2>3
  <1>3. \A t \in [Coefficients -> Int] : Even(3, t) = Three(t, t, t)
    BY DEF Even, Three
  <1>4. Leads(a, x0, x1)
    <2>1. Levels(1, -1, -1) = [k \in Coefficients |-> IF k = 0 THEN 1 ELSE Levels(-1, -1, -1)[k]]
      BY DEF Levels
    <2>2. /\ Levels(-1, -1, -1) \in [Coefficients -> Int] /\ Levels(-1, -1, -1)[0] = -1
          /\ Levels(1, -1, -1) \in [Coefficients -> Int]
      BY LevelsType
    <2>3. Leads(a, Even(3, Levels(-1, -1, -1)), Even(3, Levels(1, -1, -1)))
      BY <2>1, <2>2, DCLeads
    <2>. QED
      BY <1>3, <2>2, <2>3
  <1>5. Leads(b, x1, x2)
    <2> DEFINE p == [Ss |-> 1, Se |-> 5, Ah |-> 0, Al |-> 2]
    <2>1. Levels(1, 2, -1) = SentOnce(Levels(1, -1, -1), p)
      BY <1>0 DEF Levels, SentOnce, Script!Band
    <2>2. /\ Levels(1, -1, -1) \in [Coefficients -> Int]
          /\ Levels(1, -1, -1)[0] = 1
          /\ \A k \in Coefficients : Levels(1, -1, -1)[k] = IF k = 0 THEN 1 ELSE IF k <= 5 THEN -1 ELSE -1
      BY LevelsType
    <2>3. Ready(Levels(1, -1, -1), p)
      BY <1>0, <2>2 DEF Ready, Script!Band
    <2>. QED
      BY <2>1, <2>2, <2>3, ThreeLeads
  <1>6. Leads(c, x2, x3)
    <2> DEFINE p == [Ss |-> 1, Se |-> 63, Ah |-> 0, Al |-> 1]
    <2>1. Levels(1, 1, 1) = SentOnce(Levels(1, -1, -1), p)
      BY <1>0 DEF Levels, SentOnce, Script!Band
    <2>2. /\ Levels(1, -1, -1) \in [Coefficients -> Int] /\ Levels(1, 2, -1) \in [Coefficients -> Int]
          /\ Levels(1, -1, -1)[0] = 1
          /\ \A k \in Coefficients : Levels(1, -1, -1)[k] = IF k = 0 THEN 1 ELSE IF k <= 5 THEN -1 ELSE -1
      BY LevelsType
    <2>3. Ready(Levels(1, -1, -1), p)
      BY <1>0, <2>2 DEF Ready, Script!Band
    <2>. QED
      BY <2>1, <2>2, <2>3, ThreeLeads
  <1>7. Leads(d, x3, x4)
    <2> DEFINE p == [Ss |-> 1, Se |-> 63, Ah |-> 0, Al |-> 1]
    <2>1. Levels(1, 1, 1) = SentOnce(Levels(1, -1, -1), p)
      BY <1>0 DEF Levels, SentOnce, Script!Band
    <2>2. /\ Levels(1, -1, -1) \in [Coefficients -> Int] /\ Levels(1, 1, 1) \in [Coefficients -> Int] /\ Levels(1, 2, -1) \in [Coefficients -> Int]
          /\ Levels(1, -1, -1)[0] = 1
          /\ \A k \in Coefficients : Levels(1, -1, -1)[k] = IF k = 0 THEN 1 ELSE IF k <= 5 THEN -1 ELSE -1
      BY LevelsType
    <2>3. Ready(Levels(1, -1, -1), p)
      BY <1>0, <2>2 DEF Ready, Script!Band
    <2>. QED
      BY <2>1, <2>2, <2>3, ThreeLeads
  <1>8. Leads(e, x4, x5)
    <2> DEFINE p == [Ss |-> 6, Se |-> 63, Ah |-> 0, Al |-> 2]
    <2>1. Levels(1, 2, 2) = SentOnce(Levels(1, 2, -1), p)
      BY <1>0 DEF Levels, SentOnce, Script!Band
    <2>2. /\ Levels(1, 1, 1) \in [Coefficients -> Int] /\ Levels(1, 2, -1) \in [Coefficients -> Int]
          /\ Levels(1, 2, -1)[0] = 1
          /\ \A k \in Coefficients : Levels(1, 2, -1)[k] = IF k = 0 THEN 1 ELSE IF k <= 5 THEN 2 ELSE -1
      BY LevelsType
    <2>3. Ready(Levels(1, 2, -1), p)
      BY <1>0, <2>2 DEF Ready, Script!Band
    <2>. QED
      BY <2>1, <2>2, <2>3, ThreeLeads
  <1>9. Leads(f, x5, x6)
    <2> DEFINE p == [Ss |-> 1, Se |-> 63, Ah |-> 2, Al |-> 1]
    <2>1. Levels(1, 1, 1) = SentOnce(Levels(1, 2, 2), p)
      BY <1>0 DEF Levels, SentOnce, Script!Band
    <2>2. /\ Levels(1, 1, 1) \in [Coefficients -> Int] /\ Levels(1, 2, 2) \in [Coefficients -> Int]
          /\ Levels(1, 2, 2)[0] = 1
          /\ \A k \in Coefficients : Levels(1, 2, 2)[k] = IF k = 0 THEN 1 ELSE IF k <= 5 THEN 2 ELSE 2
      BY LevelsType
    <2>3. Ready(Levels(1, 2, 2), p)
      BY <1>0, <2>2 DEF Ready, Script!Band
    <2>. QED
      BY <2>1, <2>2, <2>3, ThreeLeads
  <1>10. Leads(g, x6, x7)
    <2>1. Levels(0, 1, 1) = [k \in Coefficients |-> IF k = 0 THEN 0 ELSE Levels(1, 1, 1)[k]]
      BY DEF Levels
    <2>2. /\ Levels(1, 1, 1) \in [Coefficients -> Int] /\ Levels(1, 1, 1)[0] = 1
          /\ Levels(0, 1, 1) \in [Coefficients -> Int]
      BY LevelsType
    <2>3. Leads(g, Even(3, Levels(1, 1, 1)), Even(3, Levels(0, 1, 1)))
      BY <2>1, <2>2, DCLeads
    <2>. QED
      BY <1>3, <2>2, <2>3
  <1>11. Leads(h, x7, x8)
    <2> DEFINE p == [Ss |-> 1, Se |-> 63, Ah |-> 1, Al |-> 0]
    <2>1. Levels(0, 0, 0) = SentOnce(Levels(0, 1, 1), p)
      BY <1>0 DEF Levels, SentOnce, Script!Band
    <2>2. /\ Levels(0, 1, 1) \in [Coefficients -> Int]
          /\ Levels(0, 1, 1)[0] = 0
          /\ \A k \in Coefficients : Levels(0, 1, 1)[k] = IF k = 0 THEN 0 ELSE IF k <= 5 THEN 1 ELSE 1
      BY LevelsType
    <2>3. Ready(Levels(0, 1, 1), p)
      BY <1>0, <2>2 DEF Ready, Script!Band
    <2>. QED
      BY <2>1, <2>2, <2>3, ThreeLeads
  <1>12. Leads(i, x8, x9)
    <2> DEFINE p == [Ss |-> 1, Se |-> 63, Ah |-> 1, Al |-> 0]
    <2>1. Levels(0, 0, 0) = SentOnce(Levels(0, 1, 1), p)
      BY <1>0 DEF Levels, SentOnce, Script!Band
    <2>2. /\ Levels(0, 0, 0) \in [Coefficients -> Int] /\ Levels(0, 1, 1) \in [Coefficients -> Int]
          /\ Levels(0, 1, 1)[0] = 0
          /\ \A k \in Coefficients : Levels(0, 1, 1)[k] = IF k = 0 THEN 0 ELSE IF k <= 5 THEN 1 ELSE 1
      BY LevelsType
    <2>3. Ready(Levels(0, 1, 1), p)
      BY <1>0, <2>2 DEF Ready, Script!Band
    <2>. QED
      BY <2>1, <2>2, <2>3, ThreeLeads
  <1>13. Leads(j, x9, x10)
    <2> DEFINE p == [Ss |-> 1, Se |-> 63, Ah |-> 1, Al |-> 0]
    <2>1. Levels(0, 0, 0) = SentOnce(Levels(0, 1, 1), p)
      BY <1>0 DEF Levels, SentOnce, Script!Band
    <2>2. /\ Levels(0, 0, 0) \in [Coefficients -> Int] /\ Levels(0, 1, 1) \in [Coefficients -> Int]
          /\ Levels(0, 1, 1)[0] = 0
          /\ \A k \in Coefficients : Levels(0, 1, 1)[k] = IF k = 0 THEN 0 ELSE IF k <= 5 THEN 1 ELSE 1
      BY LevelsType
    <2>3. Ready(Levels(0, 1, 1), p)
      BY <1>0, <2>2 DEF Ready, Script!Band
    <2>. QED
      BY <2>1, <2>2, <2>3, ThreeLeads
  <1>. HIDE DEF S, a, b, c, d, e, f, g, h, i, j, x0, x1, x2, x3, x4, x5, x6, x7, x8, x9, x10
  <1>14. a \o b \in Seq(S) /\ Leads(a \o b, x0, x2)
    BY <1>2, <1>5, <1>4, LeadsOn
  <1>15. a \o b \o c \in Seq(S) /\ Leads(a \o b \o c, x0, x3)
    BY <1>2, <1>6, <1>14, LeadsOn
  <1>16. a \o b \o c \o d \in Seq(S) /\ Leads(a \o b \o c \o d, x0, x4)
    BY <1>2, <1>7, <1>15, LeadsOn
  <1>17. a \o b \o c \o d \o e \in Seq(S) /\ Leads(a \o b \o c \o d \o e, x0, x5)
    BY <1>2, <1>8, <1>16, LeadsOn
  <1>18. a \o b \o c \o d \o e \o f \in Seq(S) /\ Leads(a \o b \o c \o d \o e \o f, x0, x6)
    BY <1>2, <1>9, <1>17, LeadsOn
  <1>19. a \o b \o c \o d \o e \o f \o g \in Seq(S) /\ Leads(a \o b \o c \o d \o e \o f \o g, x0, x7)
    BY <1>2, <1>10, <1>18, LeadsOn
  <1>20. a \o b \o c \o d \o e \o f \o g \o h \in Seq(S) /\ Leads(a \o b \o c \o d \o e \o f \o g \o h, x0, x8)
    BY <1>2, <1>11, <1>19, LeadsOn
  <1>21. a \o b \o c \o d \o e \o f \o g \o h \o i \in Seq(S) /\ Leads(a \o b \o c \o d \o e \o f \o g \o h \o i, x0, x9)
    BY <1>2, <1>12, <1>20, LeadsOn
  <1>22. a \o b \o c \o d \o e \o f \o g \o h \o i \o j \in Seq(S) /\ Leads(a \o b \o c \o d \o e \o f \o g \o h \o i \o j, x0, x10)
    BY <1>2, <1>13, <1>21, LeadsOn
  <1>23. x0 = Even(3, Levels(-1, -1, -1)) /\ x10 = Even(3, Levels(0, 0, 0))
    <2>1. Levels(-1, -1, -1) \in [Coefficients -> Int] /\ Levels(0, 0, 0) \in [Coefficients -> Int]
      BY LevelsType
    <2>. QED
      BY <1>3, <2>1 DEF x0, x10
  <1>. QED
    BY <1>1, <1>22, <1>23

(* coef_bits of a reader that has seen the frame and no scan.              *)
Unsent(n) == [c \in 1 .. n |-> [k \in Coefficients |-> -1]]

(* So the script of a progressive file carries on from scan to scan,       *)
LEMMA ImageScriptRuns ==
    ASSUME Types, Len(comp_info) > 0, jpeg_color_space = "YCbCr" => Len(comp_info) = 3, progressive
    PROVE  \E f : f[0] = Unsent(Len(comp_info)) /\ Runs(ImageScript, f)
  <1> DEFINE image == [num_components |-> Len(comp_info), space |-> jpeg_color_space]
             n == Len(comp_info)
  <1>1. n \in Nat \ {0}
    BY DEF Types
  <1>2. image.num_components = n /\ image.space = jpeg_color_space /\ ImageScript = Script!ScriptOf(image)
    BY DEF ImageScript
  <1>3. Even(n, Levels(-1, -1, -1)) = Unsent(n)
    <2>1. Levels(-1, -1, -1) = [k \in Coefficients |-> -1]
      BY DEF Levels
    <2>. QED
      BY <2>1 DEF Even, Unsent
  <1>. HIDE DEF image, n
  <1>4. Leads(ImageScript, Even(n, Levels(-1, -1, -1)), Even(n, Levels(0, 0, 0)))
    <2>1. CASE jpeg_color_space = "YCbCr"
      <3>1. n = 3
        BY <2>1 DEF n
      <3>. QED
        BY <1>2, <2>1, <3>1, YCbCrScriptLeads
    <2>2. CASE jpeg_color_space # "YCbCr"
      BY <1>1, <1>2, <2>2, FullScriptLeads
    <2>. QED
      BY <2>1, <2>2
  <1>. QED
    BY <1>3, <1>4 DEF Leads, n

(* and each scan says what a reader lets pass.                             *)
LEMMA ImageScanPermitted ==
    ASSUME Types, Len(comp_info) > 0, jpeg_color_space = "YCbCr" => Len(comp_info) = 3,
           NEW n \in 1 .. Len(ImageScript)
    PROVE  IF progressive THEN Permitted(ImageScript[n]) ELSE IsSequential(ImageScript[n])
  <1>1. CASE progressive
    <2>1. PICK f : Runs(ImageScript, f)
      BY <1>1, ImageScriptRuns
    <2>. QED
      BY <1>1, <2>1 DEF Runs
  <1>2. CASE ~progressive
    <2> DEFINE image == [num_components |-> Len(comp_info), space |-> jpeg_color_space]
               scan == Script!SequentialScan(image)
    <2>1. ImageScript = <<scan>>
      BY <1>2 DEF ImageScript
    <2>2. IsSequential(scan)
      BY DEF IsSequential, Script!SequentialScan, Script!ScanOf, Script!DCTSIZE2
    <2>. HIDE DEF scan
    <2>3. Len(ImageScript) = 1 /\ ImageScript[1] = scan
      BY <2>1
    <2>4. n = 1
      BY <2>3
    <2>. QED
      BY <1>2, <2>2, <2>3, <2>4
  <1>. QED
    BY <1>1, <1>2

-----------------------------------------------------------------------------
(* A file that can be read again: what is said of its segments, of any two *)
(* of them in their order, and of what is among them.                      *)

FileMarkers == AppMarkers \cup {"SOI", "DQT", "SOF", "SOS", "EOI"}

(* A JFIF segment of another version than the library's own.               *)
OddJFIF(m) == IsJFIF(m) /\ m.value # 1
HasOddJFIF(markers) == \E i \in 1 .. Len(markers) : OddJFIF(markers[i])

(* A scan names components by the ids they have, one or all in order.      *)
ScanFits(e, comps) ==
    /\ e.ids \in Seq(Nat) /\ e.ids # <<>> /\ DOMAIN e.pieces = 1 .. Len(e.ids)
    /\ \A i \in 1 .. Len(e.ids) :
          /\ e.pieces[i].of \in 1 .. Len(comps)
          /\ e.ids[i] = comps[e.pieces[i].of].component_id
          /\ Len(e.ids) > 1 => e.pieces[i].of = i

Fits(e, comps, markers, prog) ==
    /\ e.marker \in FileMarkers
    /\ OddJFIF(e) => HasOddJFIF(markers)
    /\ e.marker = "DQT" => e.slot \in Slots
    /\ e.marker = "SOF" => e.progressive = prog
    /\ e.marker = "SOS" =>
          /\ ScanFits(e, comps)
          /\ IF prog THEN ValidProgression(e) ELSE IsSequential(e)

(* d is in front of e: the SOI is first and the EOI last, the tables come  *)
(* before the frame and say the same of one slot, the frame comes before   *)
(* the scans, and only a progressive file has many of these.               *)
Follows(d, e, prog) ==
    /\ e.marker # "SOI" /\ d.marker # "EOI"
    /\ e.marker \in {"SOF", "DQT"} => d.marker \notin {"SOF", "SOS"}
    /\ e.marker = "DQT" /\ d.marker = "DQT" /\ e.slot = d.slot => e.table = d.table
    /\ e.marker = "SOS" /\ d.marker = "SOS" => prog

Sound(o, comps, markers, prog) ==
    /\ IsSequence(o) /\ o # <<>> /\ o[1].marker = "SOI"
    /\ \A k \in 1 .. Len(o) : Fits(o[k], comps, markers, prog)
    /\ \A j, k \in 1 .. Len(o) : j < k => Follows(o[j], o[k], prog)

(* Among the first n segments.                                             *)
Has(o, n, marker) == \E k \in 1 .. n : o[k].marker = marker
Absent(o, n, markers) == \A k \in 1 .. n : o[k].marker \notin markers
TableSent(o, n, slot) == \E k \in 1 .. n : o[k].marker = "DQT" /\ o[k].slot = slot

Sends(e, c) == e.marker = "SOS" /\ \E i \in 1 .. Len(e.ids) : e.pieces[i].of = c
ComponentSent(o, c) == \E k \in 1 .. Len(o) : Sends(o[k], c)

Complete(o, comps, markers, prog) ==
    /\ Sound(o, comps, markers, prog)
    /\ Len(comps) > 0
    /\ Has(o, Len(o), "SOF") /\ Has(o, Len(o), "EOI")
    /\ \A c \in 1 .. Len(comps) :
          TableSent(o, Len(o), comps[c].quant_tbl_no) /\ ComponentSent(o, c)

-----------------------------------------------------------------------------
(* The invariant: what has been written is sound and on its way to be      *)
(* complete, and a reader of a complete file knows what is behind it.      *)

Writing == {"started", "framing", "scanning", "written"}

SoundSoFar ==
    /\ ~inheaders => Len(comp_info) > 0
    /\ state \in Writing => Sound(output, comp_info, marker_list, progressive)

MarkersFirst ==
    state = "started" => Absent(output, Len(output), {"DQT", "SOF", "SOS", "EOI"})

TablesSecond ==
    state = "framing" =>
        /\ Absent(output, Len(output), {"SOF", "SOS", "EOI"})
        /\ \A k \in 1 .. Len(output) :
              output[k].marker = "DQT" => output[k].table = quant_tbl_ptrs[output[k].slot]
        /\ \A c \in 1 .. Len(comp_info) :
              c < next => TableSent(output, Len(output), comp_info[c].quant_tbl_no)

ScansThird ==
    state = "scanning" =>
        /\ Absent(output, Len(output), {"EOI"}) /\ Has(output, Len(output), "SOF")
        /\ next = 1 => Absent(output, Len(output), {"SOS"})
        /\ \A c \in 1 .. Len(comp_info) : TableSent(output, Len(output), comp_info[c].quant_tbl_no)
        /\ \A n \in 1 .. Len(ImageScript) :
              n < next => \E k \in 1 .. Len(output) : output[k] = SOSOf(n)

CompleteAtLast ==
    state = "written" => Complete(output, comp_info, marker_list, progressive)

SourceComplete ==
    trip > 0 => Complete(source.output, source.comp_info, source.marker_list, source.progressive)

Rereading == trip > 0 /\ state # "error"

PlaceKnown ==
    Rereading =>
        /\ state = "reading" => (place = "first" <=> Behind = 0)
        /\ state = "reading" => Absent(source.output, Behind, {"EOI"})
        /\ state # "reading" => Behind = Len(source.output)

FrameRead ==
    Rereading =>
        /\ saw_SOF <=> Has(source.output, Behind, "SOF")
        /\ saw_SOF => progressive_mode = source.progressive
        /\ ~inheaders <=> Has(source.output, Behind, "SOS")
        /\ ~inheaders /\ progressive_mode => has_multiple_scans

SlotsRead ==
    Rereading =>
        /\ \A k \in 1 .. Behind : source.output[k].marker = "DQT" =>
              quant_tbl_ptrs[source.output[k].slot] = source.output[k].table
        /\ \A n \in Slots : quant_tbl_ptrs[n] # None => TableSent(source.output, Behind, n)
        /\ \A c \in 1 .. Len(comp_info) : quant_table[c] # None =>
              /\ comp_info[c].quant_tbl_no \in Slots
              /\ quant_table[c] = quant_tbl_ptrs[comp_info[c].quant_tbl_no]

(* The pieces of the scans among the first n segments.                     *)
SentBy(e) == {e.pieces[i] : i \in 1 .. Len(e.ids)}
SentAmong(o, n) == UNION {SentBy(o[k]) : k \in {j \in 1 .. n : o[j].marker = "SOS"}}

CoefficientsRead ==
    Rereading /\ saw_SOF /\ DistinctIds =>
        \A c \in 1 .. Len(comp_info) : coef[c] = {p \in SentAmong(source.output, Behind) : p.of = c}

Unharmed ==
    trip > 0 =>
        /\ state = "error" => Len(source.comp_info) > MAX_COMPS_IN_SCAN
        /\ warned => HasOddJFIF(source.marker_list)

-----------------------------------------------------------------------------
(* One segment more at the end.                                            *)

(* A segment that may follow all the others keeps the file sound.          *)
LEMMA SoundOn ==
    ASSUME NEW o, NEW e, NEW comps, NEW markers, NEW prog,
           Sound(o, comps, markers, prog), Fits(e, comps, markers, prog),
           \A k \in 1 .. Len(o) : Follows(o[k], e, prog)
    PROVE  Sound(Append(o, e), comps, markers, prog)
  <1> DEFINE a == Append(o, e)
  <1>1. /\ IsSequence(a) /\ Len(o) \in Nat /\ Len(a) = Len(o) + 1
        /\ \A k \in 1 .. Len(o) : a[k] = o[k]
        /\ a[Len(o) + 1] = e
    BY Appended DEF Sound
  <1>2. Len(o) # 0 /\ a # <<>>
    <2>1. PICK S : o \in Seq(S)
      BY DEF Sound, IsSequence
    <2>2. Len(o) # 0
      BY <2>1 DEF Sound
    <2>. QED
      BY <1>1, <2>2
  <1>. HIDE DEF a
  <1>3. a[1].marker = "SOI"
    BY <1>1, <1>2 DEF Sound
  <1>4. \A k \in 1 .. Len(a) : Fits(a[k], comps, markers, prog)
    <2>. SUFFICES ASSUME NEW k \in 1 .. Len(a) PROVE Fits(a[k], comps, markers, prog)
      OBVIOUS
    <2>1. k \in 1 .. Len(o) \/ k = Len(o) + 1
      BY <1>1
    <2>. QED
      BY <1>1, <2>1 DEF Sound
  <1>5. \A j, k \in 1 .. Len(a) : j < k => Follows(a[j], a[k], prog)
    <2>. SUFFICES ASSUME NEW j \in 1 .. Len(a), NEW k \in 1 .. Len(a), j < k
                  PROVE  Follows(a[j], a[k], prog)
      OBVIOUS
    <2>1. j \in 1 .. Len(o) /\ (k \in 1 .. Len(o) \/ k = Len(o) + 1)
      BY <1>1
    <2>. QED
      BY <1>1, <2>1 DEF Sound
  <1>. QED
    BY <1>1, <1>2, <1>3, <1>4, <1>5 DEF Sound, a

(* What is, and what is not, among the segments then.                      *)
LEMMA AmongOn ==
    ASSUME NEW o, NEW e, IsSequence(o)
    PROVE  LET a == Append(o, e)
           IN  /\ \A M : Absent(o, Len(o), M) /\ e.marker \notin M => Absent(a, Len(a), M)
               /\ \A m : Has(o, Len(o), m) \/ e.marker = m => Has(a, Len(a), m)
               /\ \A n : TableSent(o, Len(o), n) \/ (e.marker = "DQT" /\ e.slot = n)
                            => TableSent(a, Len(a), n)
               /\ \A x : (\E k \in 1 .. Len(o) : o[k] = x) \/ x = e => \E k \in 1 .. Len(a) : a[k] = x
               /\ \A c : ComponentSent(o, c) => ComponentSent(a, c)
  <1> DEFINE a == Append(o, e)
  <1>1. /\ Len(o) \in Nat /\ Len(a) = Len(o) + 1
        /\ \A k \in 1 .. Len(o) : a[k] = o[k]
        /\ a[Len(o) + 1] = e
    BY Appended
  <1>. HIDE DEF a
  <1>2. /\ \A k \in 1 .. Len(a) : k \in 1 .. Len(o) \/ k = Len(o) + 1
        /\ \A k \in 1 .. Len(o) : k \in 1 .. Len(a)
        /\ Len(o) + 1 \in 1 .. Len(a)
    BY <1>1
  <1>3. \A M : Absent(o, Len(o), M) /\ e.marker \notin M => Absent(a, Len(a), M)
    BY <1>1, <1>2 DEF Absent
  <1>4. \A m : Has(o, Len(o), m) \/ e.marker = m => Has(a, Len(a), m)
    BY <1>1, <1>2 DEF Has
  <1>5. \A n : TableSent(o, Len(o), n) \/ (e.marker = "DQT" /\ e.slot = n) => TableSent(a, Len(a), n)
    BY <1>1, <1>2 DEF TableSent
  <1>6. \A x : (\E k \in 1 .. Len(o) : o[k] = x) \/ x = e => \E k \in 1 .. Len(a) : a[k] = x
    BY <1>1, <1>2
  <1>7. \A c : ComponentSent(o, c) => ComponentSent(a, c)
    BY <1>1, <1>2 DEF ComponentSent
  <1>. QED
    BY <1>3, <1>4, <1>5, <1>6, <1>7 DEF a

(* A segment behind the first one.                                         *)
LEMMA SoundWithExif ==
    ASSUME NEW o, NEW e, NEW comps, NEW markers, NEW prog,
           Sound(o, comps, markers, prog), e.marker = "APP1"
    PROVE  Sound(<<o[1], e>> \o Tail(o), comps, markers, prog)
  <1> DEFINE a == <<o[1], e>> \o Tail(o)
  <1>1. /\ IsSequence(a) /\ Len(a) = Len(o) + 1 /\ a[1] = o[1] /\ a[2] = e
        /\ \A k \in 2 .. Len(o) : a[k + 1] = o[k]
    BY PutInFront DEF Sound
  <1>2. Len(o) \in Nat \ {0} /\ 1 \in 1 .. Len(o) /\ a # <<>>
    <2>1. PICK S : o \in Seq(S)
      BY DEF Sound, IsSequence
    <2>2. Len(o) \in Nat \ {0}
      BY <2>1 DEF Sound
    <2>. QED
      BY <1>1, <2>2
  <1>. HIDE DEF a
  <1>3. ASSUME NEW k \in 1 .. Len(a), k # 2
        PROVE  \E i \in 1 .. Len(o) : a[k] = o[i] /\ i = IF k = 1 THEN 1 ELSE k - 1
    <2>1. CASE k = 1
      BY <1>1, <1>2, <2>1
    <2>2. CASE k # 1
      <3>1. k - 1 \in 2 .. Len(o) /\ (k - 1) + 1 = k
        BY <1>1, <1>2, <1>3, <2>2
      <3>. QED
        BY <1>1, <2>2, <3>1
    <2>. QED
      BY <2>1, <2>2
  <1>4. Fits(e, comps, markers, prog)
    BY DEF Fits, FileMarkers, AppMarkers, OddJFIF, IsJFIF
  <1>5. \A k \in 1 .. Len(a) : Fits(a[k], comps, markers, prog)
    BY <1>1, <1>3, <1>4 DEF Sound
  <1>6. ASSUME NEW j \in 1 .. Len(a), NEW k \in 1 .. Len(a), j < k
        PROVE  Follows(a[j], a[k], prog)
    <2>1. CASE j = 2
      <3>1. k - 1 \in 1 .. Len(o) /\ 1 < k - 1 /\ a[k] = o[k - 1]
        BY <1>1, <1>2, <1>3, <1>6, <2>1
      <3>2. o[k - 1].marker # "SOI"
        BY <1>2, <3>1 DEF Sound, Follows
      <3>. QED
        BY <1>1, <2>1, <3>1, <3>2 DEF Follows
    <2>2. CASE k = 2
      <3>1. a[j] = o[1]
        BY <1>1, <1>6, <2>2
      <3>. QED
        BY <1>1, <2>2, <3>1 DEF Sound, Follows
    <2>3. CASE j # 2 /\ k # 2
      <3>1. PICK i \in 1 .. Len(o) : a[j] = o[i] /\ i = IF j = 1 THEN 1 ELSE j - 1
        BY <1>3, <2>3
      <3>2. PICK l \in 1 .. Len(o) : a[k] = o[l] /\ l = IF k = 1 THEN 1 ELSE k - 1
        BY <1>3, <2>3
      <3>3. i < l
        BY <1>1, <1>2, <1>6, <2>3, <3>1, <3>2
      <3>. QED
        BY <3>1, <3>2, <3>3 DEF Sound
    <2>. QED
      BY <2>1, <2>2, <2>3
  <1>. QED
    BY <1>1, <1>2, <1>5, <1>6 DEF Sound, a

(* An EXIF segment put in front keeps a complete file complete.            *)
LEMMA CompleteWithExif ==
    ASSUME NEW o, NEW e, NEW comps, NEW markers, NEW prog,
           Complete(o, comps, markers, prog), e.marker = "APP1"
    PROVE  Complete(<<o[1], e>> \o Tail(o), comps, markers, prog)
  <1> DEFINE a == <<o[1], e>> \o Tail(o)
  <1>1. /\ IsSequence(a) /\ Len(a) = Len(o) + 1 /\ a[1] = o[1] /\ a[2] = e
        /\ \A k \in 2 .. Len(o) : a[k + 1] = o[k]
    BY PutInFront DEF Sound, Complete
  <1>2. Sound(a, comps, markers, prog)
    BY SoundWithExif DEF Complete
  <1>3. Len(o) \in Nat
    BY DEF Complete, Sound, IsSequence
  <1>. HIDE DEF a
  <1>4. \A k \in 1 .. Len(o) : \E l \in 1 .. Len(a) : a[l] = o[k]
    <2>. TAKE k \in 1 .. Len(o)
    <2>1. CASE k = 1
      BY <1>1, <1>3, <2>1
    <2>2. CASE k # 1
      <3>1. k \in 2 .. Len(o) /\ k + 1 \in 1 .. Len(a)
        BY <1>1, <1>3, <2>2
      <3>. QED
        BY <1>1, <3>1
    <2>. QED
      BY <2>1, <2>2
  <1>5. Has(a, Len(a), "SOF") /\ Has(a, Len(a), "EOI")
    BY <1>4 DEF Complete, Has
  <1>6. \A c \in 1 .. Len(comps) : TableSent(a, Len(a), comps[c].quant_tbl_no) /\ ComponentSent(a, c)
    BY <1>4 DEF Complete, TableSent, ComponentSent
  <1>. QED
    BY <1>2, <1>5, <1>6 DEF Complete, a

-----------------------------------------------------------------------------
(* Writing.                                                                *)

WriterInv == SoundSoFar /\ MarkersFirst /\ TablesSecond /\ ScansThird /\ CompleteAtLast

(* The writer's part says nothing while it does not write.                 *)
LEMMA WriterRests ==
    ASSUME ~inheaders' => Len(comp_info') > 0, state' \in {"reading", "read", "copied", "error"}
    PROVE  WriterInv'
  BY DEF WriterInv, SoundSoFar, MarkersFirst, TablesSecond, ScansThird, CompleteAtLast, Writing

(* A JFIF or Adobe segment of the library's own, or one that is copied.    *)
LEMMA MarkerOn ==
    ASSUME NEW o, NEW e, NEW comps, NEW markers, NEW prog,
           Sound(o, comps, markers, prog), Absent(o, Len(o), {"DQT", "SOF", "SOS", "EOI"}),
           e.marker \in AppMarkers, OddJFIF(e) => HasOddJFIF(markers)
    PROVE  /\ Sound(Append(o, e), comps, markers, prog)
           /\ Absent(Append(o, e), Len(Append(o, e)), {"DQT", "SOF", "SOS", "EOI"})
  <1>1. Fits(e, comps, markers, prog)
    BY DEF Fits, FileMarkers, AppMarkers
  <1>2. \A k \in 1 .. Len(o) : Follows(o[k], e, prog)
    BY DEF Follows, Absent, AppMarkers
  <1>3. IsSequence(o)
    BY DEF Sound
  <1>4. e.marker \notin {"DQT", "SOF", "SOS", "EOI"}
    BY DEF AppMarkers
  <1>. QED
    BY <1>1, <1>2, <1>3, <1>4, SoundOn, AmongOn

(* A file that has only begun is sound.                                    *)
LEMMA JustSOI ==
    ASSUME NEW comps, NEW markers, NEW prog
    PROVE  /\ Sound(<<SOI>>, comps, markers, prog)
           /\ Absent(<<SOI>>, Len(<<SOI>>), {"DQT", "SOF", "SOS", "EOI"})
           /\ \A e : Append(<<SOI>>, e) = <<SOI, e>>
  <1>0. \A x : <<x>> \in Seq({x}) /\ Len(<<x>>) = 1 /\ <<x>>[1] = x /\ <<x>> # <<>>
    OBVIOUS
  <1>1. IsSequence(<<SOI>>) /\ Len(<<SOI>>) = 1 /\ <<SOI>>[1] = SOI /\ <<SOI>> # <<>>
    BY <1>0, Zenon DEF IsSequence
  <1>2. SOI.marker = "SOI"
    BY DEF SOI
  <1>3. Fits(SOI, comps, markers, prog)
    BY <1>2 DEF Fits, FileMarkers, OddJFIF, IsJFIF
  <1>4. \A k \in 1 .. 1 : k = 1
    OBVIOUS
  <1>. HIDE DEF SOI
  <1>5. ASSUME NEW e PROVE Append(<<SOI>>, e) = <<SOI, e>>
    <2> DEFINE a == Append(<<SOI>>, e)
               b == <<SOI, e>>
    <2>1. <<SOI>> \in Seq({SOI, e}) /\ e \in {SOI, e} /\ b \in Seq({SOI, e})
      OBVIOUS
    <2>2. a \in Seq({SOI, e}) /\ Len(a) = 2 /\ a[1] = SOI /\ a[2] = e
      BY <2>1, <1>0, AppendProperties
    <2>3. Len(b) = 2 /\ b[1] = SOI /\ b[2] = e
      OBVIOUS
    <2>4. \A i \in 1 .. 2 : i = 1 \/ i = 2
      OBVIOUS
    <2>. HIDE DEF a, b
    <2>5. Len(a) = Len(b) /\ \A i \in 1 .. Len(a) : a[i] = b[i]
      BY <2>2, <2>3, <2>4
    <2>6. a = b
      BY <2>1, <2>2, <2>5, SeqEqual
    <2>. QED
      BY <2>6 DEF a, b
  <1>. QED
    BY <1>1, <1>2, <1>3, <1>4, <1>5 DEF Sound, Absent

(* The step of the writer that starts the file,                            *)
LEMMA HeaderWriter ==
    ASSUME Inv, WriterInv, WriteCoefficients
    PROVE  WriterInv'
  <1>1. /\ UNCHANGED <<inheaders, comp_info, marker_list, progressive>> /\ state' = "started"
        /\ output' = IF write_JFIF_header THEN <<SOI, JFIF>>
                     ELSE IF write_Adobe_marker THEN <<SOI, AdobeOf(jpeg_color_space)>>
                     ELSE <<SOI>>
    BY DEF WriteCoefficients, reader, frame, scans
  <1>2. /\ JFIF.marker \in AppMarkers /\ ~OddJFIF(JFIF)
        /\ \A space : AdobeOf(space).marker \in AppMarkers /\ ~OddJFIF(AdobeOf(space))
    BY DEF JFIF, AdobeOf, AppMarkers, OddJFIF, IsJFIF
  <1>3. /\ Sound(output', comp_info, marker_list, progressive)
        /\ Absent(output', Len(output'), {"DQT", "SOF", "SOS", "EOI"})
    <2>1. /\ Sound(<<SOI>>, comp_info, marker_list, progressive)
          /\ Absent(<<SOI>>, Len(<<SOI>>), {"DQT", "SOF", "SOS", "EOI"})
          /\ \A e : Append(<<SOI>>, e) = <<SOI, e>>
      BY JustSOI
    <2>. HIDE DEF SOI, JFIF, AdobeOf, write_JFIF_header, write_Adobe_marker
    <2>2. CASE output' = <<SOI>>
      BY <2>1, <2>2
    <2>3. ASSUME NEW e, e.marker \in AppMarkers, ~OddJFIF(e), output' = <<SOI, e>>
          PROVE  /\ Sound(output', comp_info, marker_list, progressive)
                 /\ Absent(output', Len(output'), {"DQT", "SOF", "SOS", "EOI"})
      <3>1. output' = Append(<<SOI>>, e)
        BY <2>1, <2>3
      <3>. QED
        BY <2>1, <2>3, <3>1, MarkerOn
    <2>4. output' \in {<<SOI>>, <<SOI, JFIF>>, <<SOI, AdobeOf(jpeg_color_space)>>}
      BY <1>1
    <2>. QED
      BY <1>2, <2>2, <2>3, <2>4
  <1>. QED
    BY <1>1, <1>3 DEF WriterInv, SoundSoFar, MarkersFirst, TablesSecond, ScansThird, CompleteAtLast

(* that copies a segment,                                                  *)
LEMMA CopyMarkerWriter ==
    ASSUME Inv, WriterInv, CopyMarker
    PROVE  WriterInv'
  <1> DEFINE e == marker_list[next]
  <1>1. /\ UNCHANGED <<inheaders, comp_info, marker_list, progressive, state>> /\ state = "started"
        /\ next <= Len(marker_list)
        /\ output' = IF Own(e) THEN output ELSE Append(output, e)
    BY DEF CopyMarker, reader, frame, scans
  <1>2. next \in 1 .. Len(marker_list) /\ e \in Kept
    BY <1>1 DEF Inv, Types
  <1>3. e.marker \in AppMarkers /\ (OddJFIF(e) => HasOddJFIF(marker_list))
    BY <1>2, SegmentsAssumption DEF Kept, JFIF, AdobeOf, AppMarkers, HasOddJFIF
  <1>4. /\ Sound(output, comp_info, marker_list, progressive)
        /\ Absent(output, Len(output), {"DQT", "SOF", "SOS", "EOI"})
    BY <1>1 DEF WriterInv, SoundSoFar, Writing, MarkersFirst
  <1>. HIDE DEF e
  <1>5. /\ Sound(output', comp_info, marker_list, progressive)
        /\ Absent(output', Len(output'), {"DQT", "SOF", "SOS", "EOI"})
    BY <1>1, <1>3, <1>4, MarkerOn
  <1>. QED
    BY <1>1, <1>5 DEF WriterInv, SoundSoFar, MarkersFirst, TablesSecond, ScansThird, CompleteAtLast

(* that begins the frame,                                                  *)
LEMMA FinishWriter ==
    ASSUME Inv, WriterInv, FinishCompress
    PROVE  WriterInv'
  <1>1. /\ UNCHANGED <<inheaders, comp_info, marker_list, progressive, output, quant_tbl_ptrs>>
        /\ state = "started" /\ state' \in {"framing", "error"} /\ next' = 1
    BY DEF FinishCompress, reader, frame, scans
  <1>2. CASE state' = "error"
    BY <1>1, <1>2, WriterRests DEF WriterInv, SoundSoFar
  <1>3. CASE state' = "framing"
    <2>1. /\ Sound(output, comp_info, marker_list, progressive)
          /\ Absent(output, Len(output), {"DQT", "SOF", "SOS", "EOI"})
      BY <1>1 DEF WriterInv, SoundSoFar, Writing, MarkersFirst
    <2>2. \A c \in 1 .. Len(comp_info) : ~(c < 1)
      OBVIOUS
    <2>3. Absent(output, Len(output), {"SOF", "SOS", "EOI"})
          /\ \A k \in 1 .. Len(output) : output[k].marker # "DQT"
      BY <2>1 DEF Absent
    <2>. QED
      BY <1>1, <1>3, <2>1, <2>2, <2>3
         DEF WriterInv, SoundSoFar, MarkersFirst, TablesSecond, ScansThird, CompleteAtLast
  <1>. QED
    BY <1>1, <1>2, <1>3

(* that writes a table: no other table goes into its slot,                 *)
LEMMA DQTWriter ==
    ASSUME Inv, WriterInv, EmitDQT
    PROVE  WriterInv'
  <1> DEFINE e == DQT(next)
  <1>1. /\ UNCHANGED <<inheaders, comp_info, marker_list, progressive, quant_tbl_ptrs, state>>
        /\ state = "framing" /\ next <= Len(comp_info) /\ next' = next + 1
        /\ output' = IF FirstUse(next) THEN Append(output, e) ELSE output
    BY DEF EmitDQT, reader, frame, scans
  <1>2. next \in 1 .. Len(comp_info) /\ comp_info[next].quant_tbl_no \in Slots
    <2>1. next \in 1 .. Len(comp_info)
      BY <1>1 DEF Inv, Types
    <2>. QED
      BY <1>1, <2>1 DEF Inv, Writable, Copyable
  <1>3. /\ e.marker = "DQT" /\ e.slot = comp_info[next].quant_tbl_no
        /\ e.table = quant_tbl_ptrs[comp_info[next].quant_tbl_no]
    BY DEF DQT
  <1>. HIDE DEF e
  <1>4. /\ Sound(output, comp_info, marker_list, progressive) /\ IsSequence(output)
        /\ Absent(output, Len(output), {"SOF", "SOS", "EOI"})
        /\ \A k \in 1 .. Len(output) :
              output[k].marker = "DQT" => output[k].table = quant_tbl_ptrs[output[k].slot]
        /\ \A c \in 1 .. Len(comp_info) :
              c < next => TableSent(output, Len(output), comp_info[c].quant_tbl_no)
    BY <1>1 DEF WriterInv, SoundSoFar, Writing, TablesSecond, Sound
  <1>5. /\ Sound(output', comp_info, marker_list, progressive)
        /\ Absent(output', Len(output'), {"SOF", "SOS", "EOI"})
        /\ \A k \in 1 .. Len(output') :
              output'[k].marker = "DQT" => output'[k].table = quant_tbl_ptrs[output'[k].slot]
        /\ \A c \in 1 .. Len(comp_info) :
              c < next + 1 => TableSent(output', Len(output'), comp_info[c].quant_tbl_no)
    <2>0. \A c \in 1 .. Len(comp_info) : c < next + 1 => c < next \/ c = next
      BY <1>2
    <2>1. CASE FirstUse(next)
      <3>1. Fits(e, comp_info, marker_list, progressive)
        BY <1>2, <1>3 DEF Fits, FileMarkers, OddJFIF, IsJFIF
      <3>2. \A k \in 1 .. Len(output) : Follows(output[k], e, progressive)
        BY <1>3, <1>4 DEF Follows, Absent
      <3>3. output' = Append(output, e) /\ Sound(output', comp_info, marker_list, progressive)
        BY <1>1, <1>4, <2>1, <3>1, <3>2, SoundOn
      <3>4. /\ Absent(output', Len(output'), {"SOF", "SOS", "EOI"})
            /\ \A n : TableSent(output, Len(output), n) \/ n = comp_info[next].quant_tbl_no
                         => TableSent(output', Len(output'), n)
        BY <1>3, <1>4, <3>3, AmongOn
      <3>5. \A k \in 1 .. Len(output') :
              output'[k].marker = "DQT" => output'[k].table = quant_tbl_ptrs[output'[k].slot]
        <4>1. /\ Len(output) \in Nat /\ Len(output') = Len(output) + 1
              /\ \A k \in 1 .. Len(output) : output'[k] = output[k]
              /\ output'[Len(output) + 1] = e
          BY <1>4, <3>3, Appended
        <4>2. \A k \in 1 .. Len(output') : k \in 1 .. Len(output) \/ k = Len(output) + 1
          BY <4>1
        <4>. QED
          BY <1>3, <1>4, <4>1, <4>2
      <3>. QED
        BY <1>4, <2>0, <3>3, <3>4, <3>5
    <2>2. CASE ~FirstUse(next)
      <3>1. PICK d \in 1 .. next - 1 : comp_info[d].quant_tbl_no = comp_info[next].quant_tbl_no
        BY <2>2 DEF FirstUse
      <3>2. d \in 1 .. Len(comp_info) /\ d < next
        BY <1>2
      <3>. QED
        BY <1>1, <1>4, <2>0, <2>2, <3>1, <3>2
    <2>. QED
      BY <2>1, <2>2
  <1>. QED
    BY <1>1, <1>5 DEF WriterInv, SoundSoFar, MarkersFirst, TablesSecond, ScansThird, CompleteAtLast

(* that writes the frame: its tables are all there,                        *)
LEMMA SOFWriter ==
    ASSUME Inv, WriterInv, EmitSOF
    PROVE  WriterInv'
  <1> DEFINE e == SOF
  <1>1. /\ UNCHANGED <<inheaders, comp_info, marker_list, progressive>>
        /\ state = "framing" /\ state' = "scanning" /\ next > Len(comp_info) /\ next' = 1
        /\ output' = Append(output, e)
    BY DEF EmitSOF, reader, frame, scans
  <1>2. e.marker = "SOF" /\ e.progressive = progressive
    BY DEF SOF
  <1>. HIDE DEF e
  <1>3. /\ Sound(output, comp_info, marker_list, progressive) /\ IsSequence(output)
        /\ Absent(output, Len(output), {"SOF", "SOS", "EOI"})
        /\ \A c \in 1 .. Len(comp_info) :
              c < next => TableSent(output, Len(output), comp_info[c].quant_tbl_no)
    BY <1>1 DEF WriterInv, SoundSoFar, Writing, TablesSecond, Sound
  <1>4. \A c \in 1 .. Len(comp_info) : c < next
    BY <1>1 DEF Inv, Types
  <1>5. Fits(e, comp_info, marker_list, progressive)
    BY <1>2 DEF Fits, FileMarkers, OddJFIF, IsJFIF
  <1>6. \A k \in 1 .. Len(output) : Follows(output[k], e, progressive)
    BY <1>2, <1>3 DEF Follows, Absent
  <1>7. Sound(output', comp_info, marker_list, progressive)
    BY <1>1, <1>3, <1>5, <1>6, SoundOn
  <1>8. Absent(output, Len(output), {"EOI"}) /\ Absent(output, Len(output), {"SOS"})
    BY <1>3 DEF Absent
  <1>9. /\ Absent(output', Len(output'), {"EOI"}) /\ Absent(output', Len(output'), {"SOS"})
        /\ Has(output', Len(output'), "SOF")
        /\ \A c \in 1 .. Len(comp_info) :
              TableSent(output', Len(output'), comp_info[c].quant_tbl_no)
    BY <1>1, <1>2, <1>3, <1>4, <1>8, AmongOn
  <1>10. \A n \in Nat : 1 <= n => ~(n < 1)
    OBVIOUS
  <1>11. SoundSoFar' /\ MarkersFirst' /\ TablesSecond' /\ CompleteAtLast'
    BY <1>1, <1>7 DEF WriterInv, SoundSoFar, MarkersFirst, TablesSecond, CompleteAtLast
  <1>12. ScansThird'
    BY <1>1, <1>9 DEF ScansThird
  <1>. QED
    BY <1>11, <1>12 DEF WriterInv

(* The scripts of a picture that is being written.                         *)
LEMMA ScriptFacts ==
    ASSUME Inv, ~inheaders
    PROVE  /\ ImageScript \in Seq(ScansOf(Len(comp_info)))
           /\ Covers(ImageScript, Len(comp_info))
           /\ ~progressive => Len(ImageScript) = 1
  <1>1. Len(comp_info) \in Nat /\ SpaceFits(jpeg_color_space, Len(comp_info))
    BY DEF Inv, Types, Guessed
  <1>2. jpeg_color_space = "YCbCr" => Len(comp_info) = 3
    BY <1>1 DEF SpaceFits
  <1>3. Types
    BY DEF Inv
  <1>. QED
    BY <1>2, <1>3, ImageScriptCovers

(* emit_sos names the components of a scan by their ids.                   *)
LEMMA ScanIsFit ==
    ASSUME Inv, ~inheaders, Len(comp_info) > 0, NEW n \in 1 .. Len(ImageScript)
    PROVE  /\ SOSOf(n).marker = "SOS" /\ ScanFits(SOSOf(n), comp_info)
           /\ \A c \in 1 .. Len(comp_info) :
                 ImageScript[n].component_index \in {<<c - 1>>, Whole(Len(comp_info))}
                    => Sends(SOSOf(n), c)
  <1> DEFINE x == ImageScript[n].component_index
             m == Len(comp_info)
             e == SOSOf(n)
  <1>0. m \in Nat \ {0} /\ \A c \in 1 .. m : comp_info[c].component_id \in Nat
    <2>1. comp_info \in Seq(Component)
      BY DEF Inv, Types
    <2>2. m \in Nat \ {0} /\ \A c \in 1 .. m : comp_info[c] \in Component
      BY <2>1
    <2>. QED
      BY <2>2 DEF Component
  <1>1. ImageScript[n] \in ScansOf(m)
    BY ScriptFacts
  <1>2. x \in {<<c - 1>> : c \in 1 .. m} \cup {Whole(m)}
    BY <1>1 DEF ScansOf
  <1>3. /\ e.marker = "SOS"
        /\ e.ids = [i \in DOMAIN x |-> comp_info[x[i] + 1].component_id]
        /\ e.pieces = [i \in DOMAIN x |->
                          [of |-> x[i] + 1, scan |-> n, data |-> Content(x[i] + 1)]]
    BY DEF SOSOf, ScanHeader
  <1>. HIDE DEF x, e
  <1>4. CASE x = Whole(m)
    <2>1. DOMAIN x = 1 .. m /\ \A i \in 1 .. m : x[i] + 1 = i
      BY <1>0, <1>4 DEF Whole
    <2>. HIDE DEF m
    <2>2. e.ids \in [1 .. m -> Nat] /\ DOMAIN e.pieces = 1 .. m
      BY <1>0, <1>3, <2>1
    <2>3. e.ids \in Seq(Nat) /\ Len(e.ids) = m
      BY <1>0, <2>2, FunctionIsSequence
    <2>4. \A i \in 1 .. m : e.pieces[i].of = i /\ e.ids[i] = comp_info[i].component_id
      BY <1>3, <2>1
    <2>5. e.ids # <<>>
      BY <1>0, <2>3
    <2>6. ScanFits(e, comp_info)
      BY <2>2, <2>3, <2>4, <2>5 DEF ScanFits, m
    <2>7. \A c \in 1 .. m : Sends(e, c)
      BY <1>3, <2>3, <2>4 DEF Sends
    <2>. QED
      BY <1>3, <2>6, <2>7 DEF m, e
  <1>5. CASE x # Whole(m)
    <2>1. PICK c \in 1 .. m : x = <<c - 1>>
      BY <1>2, <1>5
    <2>2. DOMAIN x = 1 .. 1 /\ x[1] = c - 1 /\ (c - 1) + 1 = c
      BY <1>0, <2>1
    <2>3. \A i \in 1 .. 1 : i = 1
      OBVIOUS
    <2>. HIDE DEF m
    <2>4. e.ids \in [1 .. 1 -> Nat] /\ DOMAIN e.pieces = 1 .. 1
          /\ e.ids[1] = comp_info[c].component_id /\ e.pieces[1].of = c
      <3>1. 1 \in 1 .. 1 /\ comp_info[c].component_id \in Nat
        BY <1>0
      <3>2. e.ids[1] = comp_info[c].component_id /\ e.pieces[1].of = c
        BY <1>3, <2>2, <3>1
      <3>3. DOMAIN e.ids = 1 .. 1 /\ DOMAIN e.pieces = 1 .. 1
        BY <1>3, <2>2
      <3>4. e.ids \in [1 .. 1 -> Nat]
        BY <1>3, <2>2, <2>3, <3>1
      <3>. QED
        BY <3>2, <3>3, <3>4
    <2>5. e.ids \in Seq(Nat) /\ Len(e.ids) = 1 /\ e.ids # <<>>
      <3>1. 1 \in Nat
        OBVIOUS
      <3>2. e.ids \in Seq(Nat) /\ Len(e.ids) = 1
        BY <2>4, <3>1, FunctionIsSequence
      <3>. QED
        BY <3>2
    <2>6. ScanFits(e, comp_info)
      BY <2>3, <2>4, <2>5 DEF ScanFits, m
    <2>7. \A d \in 1 .. m : x = <<d - 1>> => d = c
      <3>. SUFFICES ASSUME NEW d \in 1 .. m, x = <<d - 1>> PROVE d = c
        OBVIOUS
      <3>1. x[1] = d - 1
        OBVIOUS
      <3>. QED
        BY <1>0, <2>2, <3>1
    <2>8. Sends(e, c)
      BY <1>3, <2>4, <2>5 DEF Sends
    <2>. QED
      BY <1>3, <1>5, <2>6, <2>7, <2>8 DEF m, e, x
  <1>. QED
    BY <1>4, <1>5

(* and its header is one a reader lets pass.                               *)
LEMMA ScanIsValid ==
    ASSUME Inv, ~inheaders, Len(comp_info) > 0, NEW n \in 1 .. Len(ImageScript)
    PROVE  /\ IF progressive THEN ValidProgression(SOSOf(n)) ELSE IsSequential(SOSOf(n))
           /\ {SOSOf(n).pieces[i].of : i \in 1 .. Len(SOSOf(n).ids)} = Places(ImageScript[n])
           /\ Script!Band(SOSOf(n)) = Script!Band(ImageScript[n])
           /\ SOSOf(n).Ss = ImageScript[n].Ss /\ SOSOf(n).Ah = ImageScript[n].Ah
           /\ SOSOf(n).Al = ImageScript[n].Al
  <1> DEFINE x == ImageScript[n].component_index
             m == Len(comp_info)
             e == SOSOf(n)
  <1>1. /\ DOMAIN e.ids = DOMAIN x /\ DOMAIN e.pieces = DOMAIN x
        /\ \A i \in DOMAIN x : e.pieces[i].of = x[i] + 1
        /\ e.Ss = ImageScript[n].Ss /\ e.Se = ImageScript[n].Se
        /\ e.Ah = ImageScript[n].Ah /\ e.Al = ImageScript[n].Al
    BY DEF SOSOf, ScanHeader
  <1>2. e.ids \in Seq(Nat)
    BY ScanIsFit DEF ScanFits
  <1>3. x \in {<<c - 1>> : c \in 1 .. m} \cup {Whole(m)} /\ m \in Nat
    <2>1. ImageScript[n] \in ScansOf(m)
      BY ScriptFacts
    <2>. QED
      BY <2>1 DEF ScansOf, Inv, Types
  <1>4. Types /\ (jpeg_color_space = "YCbCr" => Len(comp_info) = 3)
    <2>1. Len(comp_info) \in Nat /\ SpaceFits(jpeg_color_space, Len(comp_info))
      BY DEF Inv, Types, Guessed
    <2>. QED
      BY <2>1 DEF SpaceFits, Inv
  <1>5. IF progressive THEN Permitted(ImageScript[n]) ELSE IsSequential(ImageScript[n])
    BY <1>4, ImageScanPermitted
  <1>6. Len(x) = 1 => Len(e.ids) = 1
    <2>1. DOMAIN x = 1 .. Len(x)
      <3>1. CASE x = Whole(m)
        <4>1. Whole(m) \in [1 .. m -> Int]
          BY <1>3 DEF Whole
        <4>2. Whole(m) \in Seq(Int)
          BY <1>3, <4>1, FunctionIsSequence
        <4>. QED
          BY <3>1, <4>2
      <3>2. CASE x # Whole(m)
        <4>1. PICK c \in 1 .. m : x = <<c - 1>>
          BY <1>3, <3>2
        <4>. QED
          BY <4>1
      <3>. QED
        BY <3>1, <3>2
    <2>2. DOMAIN e.ids = 1 .. Len(e.ids) /\ Len(e.ids) \in Nat
      BY <1>2
    <2>3. DOMAIN e.ids = DOMAIN x
      BY <1>1
    <2>. HIDE DEF x, e
    <2>4. ASSUME Len(x) = 1
          PROVE  Len(e.ids) = 1
      <3>1. 1 .. Len(e.ids) = 1 .. 1
        BY <2>1, <2>2, <2>3, <2>4
      <3>2. 1 \in 1 .. Len(e.ids) /\ (Len(e.ids) > 1 => 2 \in 1 .. Len(e.ids)) /\ 2 \notin 1 .. 1
        BY <2>2, <3>1
      <3>3. ~(Len(e.ids) > 1)
        BY <3>1, <3>2, Zenon
      <3>4. Len(e.ids) >= 1
        BY <2>2, <3>2
      <3> DEFINE l == Len(e.ids)
      <3>5. l \in Nat /\ ~(l > 1) /\ l >= 1
        BY <2>2, <3>3, <3>4
      <3>. HIDE DEF l
      <3>6. l = 1
        BY <3>5
      <3>. QED
        BY <3>6 DEF l
    <2>. QED
      BY <2>4
  <1>7. DOMAIN e.ids = 1 .. Len(e.ids)
    BY <1>2
  <1>8. {e.pieces[i].of : i \in 1 .. Len(e.ids)} = Places(ImageScript[n])
    BY <1>1, <1>7 DEF Places
  <1>9. Script!Band(e) = Script!Band(ImageScript[n])
    BY <1>1 DEF Script!Band
  <1>. HIDE DEF e
  <1>10. IF progressive THEN ValidProgression(e) ELSE IsSequential(e)
    BY <1>1, <1>5, <1>6 DEF Permitted, ValidProgression, IsSequential
  <1>. QED
    BY <1>1, <1>8, <1>9, <1>10 DEF e

(* that writes a scan: the frame is there,                                 *)
LEMMA ScanWriter ==
    ASSUME Inv, WriterInv, EmitScan
    PROVE  WriterInv'
  <1> DEFINE e == SOSOf(next)
  <1>1. /\ UNCHANGED <<inheaders, comp_info, marker_list, progressive, state, jpeg_color_space,
                       coef, source>>
        /\ state = "scanning" /\ next <= Len(ImageScript) /\ next' = next + 1
        /\ output' = Append(output, e)
    BY DEF EmitScan, reader, frame, scans
  <1>2. ~inheaders /\ Len(comp_info) > 0
    BY <1>1 DEF Inv, Finished, WriterInv, SoundSoFar
  <1>3. next \in Nat /\ next > 0 /\ Len(ImageScript) \in Nat /\ next \in 1 .. Len(ImageScript)
    BY <1>1, <1>2, ScriptFacts DEF Inv, Types
  <1>4. ImageScript' = ImageScript
    BY <1>1 DEF ImageScript
  <1>5. \A n : SOSOf(n)' = SOSOf(n)
    BY <1>1, <1>4 DEF SOSOf, Content, Pieces
  <1>6. /\ e.marker = "SOS" /\ ScanFits(e, comp_info)
        /\ IF progressive THEN ValidProgression(e) ELSE IsSequential(e)
    BY <1>2, <1>3, ScanIsFit, ScanIsValid
  <1>. HIDE DEF e
  <1>7. /\ Sound(output, comp_info, marker_list, progressive) /\ IsSequence(output)
        /\ Absent(output, Len(output), {"EOI"}) /\ Has(output, Len(output), "SOF")
        /\ next = 1 => Absent(output, Len(output), {"SOS"})
        /\ \A c \in 1 .. Len(comp_info) : TableSent(output, Len(output), comp_info[c].quant_tbl_no)
        /\ \A n \in 1 .. Len(ImageScript) :
              n < next => \E k \in 1 .. Len(output) : output[k] = SOSOf(n)
    BY <1>1 DEF WriterInv, SoundSoFar, Writing, ScansThird, Sound
  <1>8. Fits(e, comp_info, marker_list, progressive)
    BY <1>6 DEF Fits, FileMarkers, OddJFIF, IsJFIF
  <1>9. \A k \in 1 .. Len(output) : Follows(output[k], e, progressive)
    <2>1. ~progressive => Len(ImageScript) = 1
      BY <1>2, ScriptFacts
    <2>2. ~progressive => next = 1
      <3>1. Len(ImageScript) = 1 => next = 1
        BY <1>1, <1>3
      <3>. QED
        BY <2>1, <3>1, Zenon
    <2>. QED
      BY <1>6, <1>7, <2>2 DEF Follows, Absent
  <1>10. Sound(output', comp_info, marker_list, progressive)
    BY <1>1, <1>7, <1>8, <1>9, SoundOn
  <1>11. /\ Absent(output', Len(output'), {"EOI"}) /\ Has(output', Len(output'), "SOF")
         /\ \A c \in 1 .. Len(comp_info) : TableSent(output', Len(output'), comp_info[c].quant_tbl_no)
    BY <1>1, <1>6, <1>7, AmongOn
  <1>12. \A x : (\E k \in 1 .. Len(output) : output[k] = x) \/ x = e
                   => \E k \in 1 .. Len(output') : output'[k] = x
    BY <1>1, <1>7, AmongOn
  <1>13. \A n \in 1 .. Len(ImageScript) :
              n < next + 1 => \E k \in 1 .. Len(output') : output'[k] = SOSOf(n)
    <2>. SUFFICES ASSUME NEW n \in 1 .. Len(ImageScript), n < next + 1
                  PROVE  \E k \in 1 .. Len(output') : output'[k] = SOSOf(n)
      OBVIOUS
    <2>1. n < next \/ n = next
      BY <1>3
    <2>. QED
      BY <1>7, <1>12, <2>1 DEF e
  <1>14. next' # 1
    BY <1>1, <1>3
  <1>15. ScansThird'
    BY <1>1, <1>4, <1>5, <1>11, <1>13, <1>14 DEF ScansThird
  <1>16. SoundSoFar' /\ MarkersFirst' /\ TablesSecond' /\ CompleteAtLast'
    BY <1>1, <1>10 DEF WriterInv, SoundSoFar, MarkersFirst, TablesSecond, CompleteAtLast
  <1>. QED
    BY <1>15, <1>16 DEF WriterInv

(* When the script is at its end, all of the picture is in the file.       *)
LEMMA EOIWriter ==
    ASSUME Inv, WriterInv, EmitEOI
    PROVE  WriterInv'
  <1> DEFINE e == [marker |-> "EOI"]
  <1>1. /\ UNCHANGED <<inheaders, comp_info, marker_list, progressive>>
        /\ state = "scanning" /\ state' = "written" /\ next > Len(ImageScript)
        /\ output' = Append(output, e)
    BY DEF EmitEOI, reader, frame, scans
  <1>2. ~inheaders /\ Len(comp_info) > 0
    BY <1>1 DEF Inv, Finished, WriterInv, SoundSoFar
  <1>3. /\ Sound(output, comp_info, marker_list, progressive) /\ IsSequence(output)
        /\ Absent(output, Len(output), {"EOI"}) /\ Has(output, Len(output), "SOF")
        /\ \A c \in 1 .. Len(comp_info) : TableSent(output, Len(output), comp_info[c].quant_tbl_no)
        /\ \A n \in 1 .. Len(ImageScript) :
              n < next => \E k \in 1 .. Len(output) : output[k] = SOSOf(n)
    BY <1>1 DEF WriterInv, SoundSoFar, Writing, ScansThird, Sound
  <1>4. e.marker = "EOI"
    OBVIOUS
  <1>. HIDE DEF e
  <1>5. Fits(e, comp_info, marker_list, progressive)
    BY <1>4 DEF Fits, FileMarkers, OddJFIF, IsJFIF
  <1>6. \A k \in 1 .. Len(output) : Follows(output[k], e, progressive)
    BY <1>3, <1>4 DEF Follows, Absent
  <1>7. Sound(output', comp_info, marker_list, progressive)
    BY <1>1, <1>3, <1>5, <1>6, SoundOn
  <1>8. \A c \in 1 .. Len(comp_info) : ComponentSent(output, c)
    <2>. SUFFICES ASSUME NEW c \in 1 .. Len(comp_info) PROVE ComponentSent(output, c)
      OBVIOUS
    <2>1. PICK n \in 1 .. Len(ImageScript) :
             ImageScript[n].component_index \in {<<c - 1>>, Whole(Len(comp_info))}
      BY <1>2, ScriptFacts DEF Covers
    <2>2. n < next
      BY <1>1, <1>2, ScriptFacts DEF Inv, Types
    <2>3. Sends(SOSOf(n), c)
      BY <1>2, <2>1, ScanIsFit
    <2>. QED
      BY <1>3, <2>2, <2>3 DEF ComponentSent
  <1>9. /\ Has(output', Len(output'), "SOF") /\ Has(output', Len(output'), "EOI")
        /\ \A c \in 1 .. Len(comp_info) :
              TableSent(output', Len(output'), comp_info[c].quant_tbl_no) /\ ComponentSent(output', c)
    BY <1>1, <1>3, <1>4, <1>8, AmongOn
  <1>10. Complete(output', comp_info, marker_list, progressive)
    BY <1>2, <1>7, <1>9 DEF Complete
  <1>. QED
    BY <1>1, <1>7, <1>10
       DEF WriterInv, SoundSoFar, MarkersFirst, TablesSecond, ScansThird, CompleteAtLast

(* and the merge of the EXIF segment.                                      *)
LEMMA MergeWriter ==
    ASSUME Inv, WriterInv, Merge
    PROVE  WriterInv'
  <1>1. /\ UNCHANGED <<inheaders, comp_info, marker_list, progressive, state>>
        /\ state = "written" /\ leading # <<>>
        /\ output' = <<output[1], leading[1]>> \o Tail(output)
    BY DEF Merge, reader, frame, scans
  <1>2. leading[1].marker = "APP1"
    BY <1>1 DEF Inv, Types
  <1>3. Complete(output', comp_info, marker_list, progressive)
    BY <1>1, <1>2, CompleteWithExif DEF WriterInv, CompleteAtLast
  <1>4. Sound(output', comp_info, marker_list, progressive)
    BY <1>3 DEF Complete
  <1>. QED
    BY <1>1, <1>3, <1>4
       DEF WriterInv, SoundSoFar, MarkersFirst, TablesSecond, ScansThird, CompleteAtLast

-----------------------------------------------------------------------------
(* Reading a file that was written.                                        *)

ReaderInv == PlaceKnown /\ FrameRead /\ SlotsRead /\ CoefficientsRead /\ Unharmed

SoundInv == WriterInv /\ SourceComplete /\ ReaderInv

(* Nothing is said of the reader of a first file.                          *)
LEMMA FirstTrip ==
    ASSUME trip' = 0, WriterInv'
    PROVE  SoundInv'
  BY DEF SoundInv, SourceComplete, ReaderInv, PlaceKnown, FrameRead, SlotsRead, CoefficientsRead,
         Unharmed, Rereading

(* What is next, and what is behind it.                                    *)
LEMMA NextSegment ==
    ASSUME Inv, SourceComplete, trip > 0, NEW seg \in Ahead, Take(seg)
    PROVE  /\ state = "reading" /\ source' = source /\ trip' = trip
           /\ Behind \in Nat /\ Len(source.output) \in Nat /\ Behind + 1 \in 1 .. Len(source.output)
           /\ Behind' = Behind + 1 /\ seg = source.output[Behind + 1]
           /\ Complete(source.output, source.comp_info, source.marker_list, source.progressive)
           /\ Fits(seg, source.comp_info, source.marker_list, source.progressive)
           /\ \A k \in 1 .. Behind : k \in 1 .. Len(source.output)
           /\ \A k \in 1 .. Behind :
                 /\ Follows(source.output[k], seg, source.progressive)
                 /\ Fits(source.output[k], source.comp_info, source.marker_list, source.progressive)
           /\ \A k \in 1 .. Len(source.output) :
                 \/ k \in 1 .. Behind
                 \/ k = Behind + 1
                 \/ k > Behind + 1 /\ Follows(seg, source.output[k], source.progressive)
  <1>1. /\ state = "reading" /\ source' = source /\ trip' = trip
        /\ Behind \in Nat /\ Behind' = Behind + 1 /\ seg = source.output[Behind + 1]
        /\ Behind + 1 \in 1 .. Len(source.output)
    BY AheadFacts, TakeFacts DEF Inv
  <1>2. Complete(source.output, source.comp_info, source.marker_list, source.progressive)
    BY DEF SourceComplete
  <1>3. Len(source.output) \in Nat
    BY <1>2 DEF Complete, Sound, IsSequence
  <1>4. \A k \in 1 .. Behind : k \in 1 .. Len(source.output) /\ k < Behind + 1
    BY <1>1, <1>3
  <1>5. \A k \in 1 .. Len(source.output) : k \in 1 .. Behind \/ k = Behind + 1 \/ k > Behind + 1
    BY <1>1, <1>3
  <1>6. \A k \in 1 .. Len(source.output) : k > Behind + 1 => Behind + 1 < k
    BY <1>1, <1>3
  <1>. QED
    BY <1>1, <1>2, <1>3, <1>4, <1>5, <1>6 DEF Complete, Sound

(* One more is behind.                                                     *)
LEMMA AmongNext ==
    ASSUME NEW o, NEW b \in Nat
    PROVE  /\ \A k \in 1 .. b + 1 : k \in 1 .. b \/ k = b + 1
           /\ \A m : Has(o, b + 1, m) <=> Has(o, b, m) \/ o[b + 1].marker = m
           /\ \A n : TableSent(o, b, n) \/ (o[b + 1].marker = "DQT" /\ o[b + 1].slot = n)
                        => TableSent(o, b + 1, n)
           /\ SentAmong(o, b + 1) = SentAmong(o, b)
                 \cup (IF o[b + 1].marker = "SOS" THEN SentBy(o[b + 1]) ELSE {})
  <1>1. /\ \A k \in 1 .. b + 1 : k \in 1 .. b \/ k = b + 1
        /\ \A k \in 1 .. b : k \in 1 .. b + 1
        /\ b + 1 \in 1 .. b + 1
    OBVIOUS
  <1>2. \A m : Has(o, b + 1, m) <=> Has(o, b, m) \/ o[b + 1].marker = m
    BY <1>1 DEF Has
  <1>3. \A n : TableSent(o, b, n) \/ (o[b + 1].marker = "DQT" /\ o[b + 1].slot = n)
                  => TableSent(o, b + 1, n)
    BY <1>1 DEF TableSent
  <1>4. SentAmong(o, b + 1) = SentAmong(o, b)
                 \cup (IF o[b + 1].marker = "SOS" THEN SentBy(o[b + 1]) ELSE {})
    BY <1>1 DEF SentAmong
  <1>. QED
    BY <1>1, <1>2, <1>3, <1>4

(* A reader of a written file does not fail but for too many components.   *)
LEMMA ReaderFailed ==
    ASSUME Inv, SoundInv, NEW seg \in Ahead, Take(seg), Fails,
           trip > 0 => Len(source.comp_info) > MAX_COMPS_IN_SCAN
    PROVE  SoundInv'
  <1>1. /\ UNCHANGED <<source, trip, inheaders, comp_info, warned, marker_list>> /\ state' = "error"
    BY DEF Fails, reader, frame, scans, Take, call
  <1>2. WriterInv'
    BY <1>1, WriterRests DEF SoundInv, WriterInv, SoundSoFar
  <1>3. SourceComplete'
    BY <1>1 DEF SoundInv, SourceComplete
  <1>4. Unharmed'
    BY <1>1 DEF SoundInv, ReaderInv, Unharmed
  <1>5. PlaceKnown' /\ FrameRead' /\ SlotsRead' /\ CoefficientsRead'
    BY <1>1 DEF PlaceKnown, FrameRead, SlotsRead, CoefficientsRead, Rereading
  <1>. QED
    BY <1>2, <1>3, <1>4, <1>5 DEF SoundInv, ReaderInv

(* A segment that is neither a table nor the frame nor a scan.             *)
LEMMA ReaderGoesOn ==
    ASSUME Inv, SoundInv, trip > 0, NEW seg \in Ahead, Take(seg),
           UNCHANGED <<frame, scans, quant_tbl_ptrs>>,
           seg.marker \notin {"DQT", "SOF", "SOS"},
           state' = IF seg.marker = "EOI" THEN "read" ELSE "reading",
           warned' => HasOddJFIF(source.marker_list)
    PROVE  SoundInv'
  <1> DEFINE o == source.output
             b == Behind
  <1>0. UNCHANGED <<saw_SOF, progressive_mode, comp_info, inheaders, has_multiple_scans,
                    quant_table, coef, quant_tbl_ptrs>>
    BY DEF frame, scans
  <1>1. /\ source' = source /\ trip' = trip /\ b \in Nat /\ Len(o) \in Nat
        /\ b + 1 \in 1 .. Len(o) /\ Behind' = b + 1 /\ seg = o[b + 1] /\ state = "reading"
        /\ \A k \in 1 .. Len(o) :
              \/ k \in 1 .. b
              \/ k = b + 1
              \/ k > b + 1 /\ Follows(seg, o[k], source.progressive)
    BY NextSegment DEF SoundInv
  <1>. HIDE DEF o, b
  <1>2. /\ \A k \in 1 .. b + 1 : k \in 1 .. b \/ k = b + 1
        /\ \A m : Has(o, b + 1, m) <=> Has(o, b, m) \/ seg.marker = m
        /\ \A n : TableSent(o, b, n) => TableSent(o, b + 1, n)
        /\ SentAmong(o, b + 1) = SentAmong(o, b)
    <2>1. b \in Nat /\ o[b + 1] = seg
      BY <1>1
    <2>2. /\ \A k \in 1 .. b + 1 : k \in 1 .. b \/ k = b + 1
          /\ \A m : Has(o, b + 1, m) <=> Has(o, b, m) \/ o[b + 1].marker = m
          /\ \A n : TableSent(o, b, n) => TableSent(o, b + 1, n)
      BY <2>1, AmongNext
    <2>3. SentAmong(o, b + 1) = SentAmong(o, b)
                 \cup (IF o[b + 1].marker = "SOS" THEN SentBy(o[b + 1]) ELSE {})
      BY <2>1, AmongNext
    <2>. QED
      BY <2>1, <2>2, <2>3
  <1>3. PlaceKnown'
    <2>1. state' = "reading" => place' # "first" /\ Behind' # 0
      BY <1>1 DEF Take
    <2>2. state' = "reading" => Absent(o, b + 1, {"EOI"})
      BY <1>1, <1>2 DEF SoundInv, ReaderInv, PlaceKnown, Rereading, Absent, o, b
    <2>3. state' # "reading" => b + 1 = Len(o)
      <3>. SUFFICES ASSUME seg.marker = "EOI", Len(o) # b + 1 PROVE FALSE
        OBVIOUS
      <3>1. Len(o) \in 1 .. Len(o) /\ Len(o) > b + 1 /\ Len(o) \notin 1 .. b
        BY <1>1
      <3>2. Follows(seg, o[Len(o)], source.progressive)
        BY <1>1, <3>1
      <3>. QED
        BY <3>2 DEF Follows
    <2>. QED
      BY <1>1, <2>1, <2>2, <2>3 DEF PlaceKnown, Rereading, o, b
  <1>4. FrameRead'
    BY <1>0, <1>1, <1>2 DEF SoundInv, ReaderInv, FrameRead, Rereading, o, b
  <1>5. SlotsRead'
    <2>1. /\ \A k \in 1 .. b : o[k].marker = "DQT" => quant_tbl_ptrs[o[k].slot] = o[k].table
          /\ \A n \in Slots : quant_tbl_ptrs[n] # None => TableSent(o, b, n)
          /\ \A c \in 1 .. Len(comp_info) : quant_table[c] # None =>
              /\ comp_info[c].quant_tbl_no \in Slots
              /\ quant_table[c] = quant_tbl_ptrs[comp_info[c].quant_tbl_no]
      BY <1>1 DEF SoundInv, ReaderInv, SlotsRead, Rereading, o, b
    <2>2. \A k \in 1 .. b + 1 : o[k].marker = "DQT" => quant_tbl_ptrs[o[k].slot] = o[k].table
      BY <1>1, <1>2, <2>1
    <2>3. source'.output = o
      BY <1>1 DEF o
    <2>. QED
      BY <1>0, <1>1, <1>2, <2>1, <2>2, <2>3 DEF SlotsRead
  <1>6. CoefficientsRead'
    <2>1. source'.output = o /\ (DistinctIds' <=> DistinctIds)
      BY <1>0, <1>1 DEF DistinctIds, Ids, o
    <2>2. saw_SOF /\ DistinctIds =>
             \A c \in 1 .. Len(comp_info) : coef[c] = {p \in SentAmong(o, b) : p.of = c}
      BY <1>1 DEF SoundInv, ReaderInv, CoefficientsRead, Rereading, o, b
    <2>. QED
      BY <1>0, <1>1, <1>2, <2>1, <2>2 DEF CoefficientsRead
  <1>7. Unharmed'
    BY <1>1 DEF Unharmed
  <1>8. SourceComplete'
    BY <1>1 DEF SoundInv, SourceComplete
  <1>9. WriterInv'
    BY <1>0, WriterRests DEF SoundInv, WriterInv, SoundSoFar
  <1>. QED
    BY <1>3, <1>4, <1>5, <1>6, <1>7, <1>8, <1>9 DEF SoundInv, ReaderInv

-----------------------------------------------------------------------------
(* Reading, segment by segment.                                            *)

(* Reading a first file keeps the invariant,                               *)
LEMMA FirstTripReads ==
    ASSUME Inv, SoundInv, trip = 0, NEW seg \in Ahead, Take(seg),
           state' \in {"reading", "read", "error"}, ~inheaders' => Len(comp_info') > 0
    PROVE  SoundInv'
  <1>1. trip' = 0
    BY DEF Take, call
  <1>. QED
    BY <1>1, WriterRests, FirstTrip

(* above all a step that leaves frame and scans alone.                     *)
LEMMA FirstTripSame ==
    ASSUME Inv, SoundInv, trip = 0, NEW seg \in Ahead, Take(seg),
           state' \in {"reading", "read", "error"}, UNCHANGED <<frame, scans>>
    PROVE  SoundInv'
  <1>1. ~inheaders' => Len(comp_info') > 0
    BY DEF frame, scans, SoundInv, WriterInv, SoundSoFar
  <1>. QED
    BY <1>1, FirstTripReads

(* There has been no odd JFIF segment, or there had been one in the file   *)
(* before.                                                                 *)
LEMMA NoWarningSoFar ==
    ASSUME SoundInv, trip > 0
    PROVE  warned => HasOddJFIF(source.marker_list)
  BY DEF SoundInv, ReaderInv, Unharmed

(* The reader takes SOI,                                                   *)
LEMMA SOISound ==
    ASSUME Inv, SoundInv, NEW seg \in Ahead, GetSOI(seg)
    PROVE  SoundInv'
  <1>0. Take(seg) /\ state = "reading"
    BY AheadFacts DEF GetSOI, Inv
  <1>1. CASE trip = 0
    <2>1. state' \in {"reading", "error"} /\ UNCHANGED <<frame, scans>>
      BY <1>0 DEF GetSOI, Fails, reader
    <2>. QED
      BY <1>0, <1>1, <2>1, FirstTripSame
  <1>2. CASE trip > 0
    <2>1. /\ Behind \in Nat /\ seg = source.output[Behind + 1]
          /\ Complete(source.output, source.comp_info, source.marker_list, source.progressive)
          /\ \A k \in 1 .. Behind : Follows(source.output[k], seg, source.progressive)
      BY <1>0, <1>2, NextSegment DEF SoundInv
    <2>2. place = "first" <=> Behind = 0
      BY <1>0, <1>2 DEF SoundInv, ReaderInv, PlaceKnown, Rereading
    <2>3. CASE Behind = 0
      <3>1. seg.marker = "SOI" /\ place = "first"
        BY <2>1, <2>2, <2>3 DEF Complete, Sound
      <3>2. UNCHANGED <<state, reader>>
        BY <3>1 DEF GetSOI
      <3>. QED
        BY <1>0, <1>2, <3>1, <3>2, NoWarningSoFar, ReaderGoesOn DEF reader
    <2>4. CASE Behind # 0
      <3>1. 1 \in 1 .. Behind
        BY <2>1, <2>4
      <3>. QED
        BY <2>1, <2>2, <2>4, <3>1 DEF Follows, GetSOI
    <2>. QED
      BY <2>3, <2>4
  <1>. QED
    BY <1>1, <1>2 DEF Inv, Types

(* A file that was written has no DHT in this model, and nothing that      *)
(* would be skipped or refused.                                            *)
LEMMA OtherSound ==
    ASSUME Inv, SoundInv, NEW seg \in Ahead, GetTables(seg) \/ SkipOrRefuse(seg)
    PROVE  SoundInv'
  <1>0. /\ Take(seg) /\ state = "reading"
        /\ seg.marker \in {"DHT", "DNL", "garbage", "SOF3"}
        /\ state' \in {state, "error"} /\ UNCHANGED <<frame, scans>>
    BY AheadFacts DEF GetTables, SkipOrRefuse, Fails, reader, Inv
  <1>1. CASE trip = 0
    BY <1>0, <1>1, FirstTripSame
  <1>2. CASE trip > 0
    <2>1. Fits(seg, source.comp_info, source.marker_list, source.progressive)
      BY <1>0, <1>2, NextSegment DEF SoundInv
    <2>. QED
      BY <1>0, <2>1 DEF Fits, FileMarkers, AppMarkers
  <1>. QED
    BY <1>1, <1>2 DEF Inv, Types

(* a segment it saves,                                                     *)
LEMMA SaveSound ==
    ASSUME Inv, SoundInv, NEW seg \in Ahead, SaveMarker(seg)
    PROVE  SoundInv'
  <1>0. /\ Take(seg) /\ state = "reading" /\ seg.marker \in AppMarkers
        /\ Warn(WholeJFIF(seg) /\ seg.value # 1)
        /\ UNCHANGED <<state, frame, scans, quant_tbl_ptrs>>
    BY AheadFacts DEF SaveMarker, Inv
  <1>1. CASE trip = 0
    BY <1>0, <1>1, FirstTripSame
  <1>2. CASE trip > 0
    <2>1. Fits(seg, source.comp_info, source.marker_list, source.progressive)
      BY <1>0, <1>2, NextSegment DEF SoundInv
    <2>2. WholeJFIF(seg) /\ seg.value # 1 => HasOddJFIF(source.marker_list)
      BY <2>1 DEF Fits, WholeJFIF, OddJFIF
    <2>3. warned => HasOddJFIF(source.marker_list)
      BY <1>2, NoWarningSoFar
    <2>4. warned' => HasOddJFIF(source.marker_list)
      BY <1>0, <2>2, <2>3, Zenon DEF Warn
    <2>5. seg.marker \notin {"DQT", "SOF", "SOS", "EOI"}
      BY <1>0 DEF AppMarkers
    <2>. QED
      BY <1>0, <1>2, <2>4, <2>5, ReaderGoesOn
  <1>. QED
    BY <1>1, <1>2 DEF Inv, Types

(* The EOI is the last segment, and the scans are all behind it.           *)
LEMMA EOISound ==
    ASSUME Inv, SoundInv, NEW seg \in Ahead, GetEOI(seg)
    PROVE  SoundInv'
  <1>0. /\ Take(seg) /\ state = "reading" /\ seg.marker = "EOI"
        /\ IF inheaders THEN Fails ELSE state' = "read" /\ UNCHANGED reader
    BY AheadFacts DEF GetEOI, Inv
  <1>1. CASE trip = 0
    <2>1. state' \in {"read", "error"} /\ UNCHANGED <<frame, scans>>
      BY <1>0 DEF Fails, reader
    <2>. QED
      BY <1>0, <1>1, <2>1, FirstTripSame
  <1>2. CASE trip > 0
    <2>1. /\ Complete(source.output, source.comp_info, source.marker_list, source.progressive)
          /\ seg = source.output[Behind + 1]
          /\ \A k \in 1 .. Len(source.output) :
                \/ k \in 1 .. Behind
                \/ k = Behind + 1
                \/ k > Behind + 1 /\ Follows(seg, source.output[k], source.progressive)
      BY <1>0, <1>2, NextSegment DEF SoundInv
    <2>2. ~inheaders
      <3>1. 1 \in 1 .. Len(source.comp_info)
        BY <1>2, <2>1 DEF Complete, Inv, SourceWritten
      <3>2. PICK k \in 1 .. Len(source.output) : source.output[k].marker = "SOS"
        BY <2>1, <3>1 DEF Complete, ComponentSent, Sends
      <3>3. k \in 1 .. Behind
        BY <1>0, <2>1, <3>2 DEF Follows
      <3>4. Has(source.output, Behind, "SOS")
        BY <3>2, <3>3 DEF Has
      <3>. QED
        BY <1>0, <1>2, <3>4 DEF SoundInv, ReaderInv, FrameRead, Rereading
    <2>3. state' = "read" /\ UNCHANGED <<frame, scans, quant_tbl_ptrs, warned>>
      BY <1>0, <2>2 DEF reader
    <2>. QED
      BY <1>0, <1>2, <2>3, NoWarningSoFar, ReaderGoesOn
  <1>. QED
    BY <1>1, <1>2 DEF Inv, Types

(* The end of the file never comes before the EOI.                         *)
LEMMA EndOfFileSound ==
    ASSUME Inv, SoundInv, EndOfFile
    PROVE  SoundInv'
  <1>0. /\ state = "reading" /\ state' \in {"read", "error"}
        /\ UNCHANGED <<trip, inheaders, comp_info>> /\ (trip = 0 \/ input = <<>>)
    BY DEF EndOfFile, call, frame, scans
  <1>1. CASE trip = 0
    <2>1. ~inheaders' => Len(comp_info') > 0
      BY <1>0 DEF SoundInv, WriterInv, SoundSoFar
    <2>. QED
      BY <1>0, <1>1, <2>1, WriterRests, FirstTrip
  <1>2. CASE trip > 0
    <2>1. Complete(source.output, source.comp_info, source.marker_list, source.progressive)
      BY <1>2 DEF SoundInv, SourceComplete
    <2>2. Behind = Len(source.output)
      <3>1. Len(input) = 0 /\ Len(source.output) \in Nat
        BY <1>0, <1>2, <2>1 DEF Complete, Sound, IsSequence
      <3>. QED
        BY <3>1 DEF Behind
    <2>3. Absent(source.output, Behind, {"EOI"})
      BY <1>0, <1>2 DEF SoundInv, ReaderInv, PlaceKnown, Rereading
    <2>. QED
      BY <2>1, <2>2, <2>3 DEF Complete, Has, Absent
  <1>. QED
    BY <1>1, <1>2 DEF Inv, Types

(* There is one SOF, and no scan in front of it.                           *)
LEMMA SOFSound ==
    ASSUME Inv, SoundInv, NEW seg \in Ahead, GetSOF(seg)
    PROVE  SoundInv'
  <1>0. Take(seg) /\ state = "reading" /\ seg.marker = "SOF"
    BY AheadFacts DEF GetSOF, Inv
  <1>1. CASE trip = 0
    <2>1. CASE saw_SOF /\ Fails
      BY <1>0, <1>1, <2>1, FirstTripSame DEF Fails, reader
    <2>2. CASE ~saw_SOF /\ ~(saw_SOF /\ Fails)
      <3>1. state' = "reading" /\ inheaders' = inheaders /\ inheaders
        BY <1>0, <2>2 DEF GetSOF, Inv, Guessed, Types
      <3>. QED
        BY <1>0, <1>1, <3>1, FirstTripReads
    <2>. QED
      BY <2>1, <2>2 DEF GetSOF
  <1>2. CASE trip > 0
    <2> DEFINE o == source.output
               b == Behind
    <2>1. /\ source' = source /\ trip' = trip /\ b \in Nat /\ Behind' = b + 1 /\ seg = o[b + 1]
          /\ Fits(seg, source.comp_info, source.marker_list, source.progressive)
          /\ \A k \in 1 .. b : Follows(o[k], seg, source.progressive)
      BY <1>0, <1>2, NextSegment DEF SoundInv
    <2>2. seg.components = source.comp_info /\ source.comp_info \in Seq(Component)
      BY <1>0, <1>2, AheadFacts DEF Inv, SourceWritten, Agrees
    <2>. HIDE DEF o, b
    <2>3. /\ \A k \in 1 .. b + 1 : k \in 1 .. b \/ k = b + 1
          /\ \A m : Has(o, b + 1, m) <=> Has(o, b, m) \/ o[b + 1].marker = m
          /\ \A n : TableSent(o, b, n) => TableSent(o, b + 1, n)
      BY <2>1, AmongNext
    <2>4. SentAmong(o, b + 1) = {}
      <3>1. \A k \in 1 .. b + 1 : o[k].marker # "SOS"
        BY <1>0, <2>1, <2>3 DEF Follows
      <3>. QED
        BY <3>1 DEF SentAmong
    <2>5. ~Has(o, b, "SOF") /\ ~Has(o, b + 1, "SOS") /\ Has(o, b + 1, "SOF")
          /\ Absent(o, b, {"EOI"})
      BY <1>0, <2>1, <2>3 DEF Has, Follows, Absent
    <2>6. ~saw_SOF /\ inheaders
      <3>1. ~saw_SOF
        BY <1>0, <1>2, <2>5 DEF SoundInv, ReaderInv, FrameRead, Rereading, o, b
      <3>. QED
        BY <3>1 DEF Inv, Guessed, Types
    <2>7. /\ saw_SOF' = TRUE /\ comp_info' = seg.components
          /\ quant_table' = [c \in DOMAIN seg.components |-> None]
          /\ progressive_mode' = seg.progressive
          /\ coef' = [c \in DOMAIN seg.components |-> {}]
          /\ UNCHANGED <<state, inheaders, has_multiple_scans, quant_tbl_ptrs, warned>>
      BY <2>6 DEF GetSOF
    <2>8. source'.output = o /\ Behind' = b + 1
      BY <2>1 DEF o
    <2>9. DOMAIN seg.components = 1 .. Len(comp_info')
      BY <2>2, <2>7
    <2>10. PlaceKnown'
      <3>1. place' # "first" /\ b + 1 # 0
        BY <1>0, <2>1 DEF Take
      <3>2. Absent(o, b + 1, {"EOI"})
        BY <1>0, <2>1, <2>3, <2>5 DEF Absent
      <3>. QED
        BY <1>0, <2>7, <2>8, <3>1, <3>2 DEF PlaceKnown
    <2>11. FrameRead'
      <3>1. progressive_mode' = source'.progressive
        BY <1>0, <2>1, <2>7 DEF Fits
      <3>. QED
        BY <2>5, <2>6, <2>7, <2>8, <3>1 DEF FrameRead
    <2>12. SlotsRead'
      <3>1. /\ \A k \in 1 .. b : o[k].marker = "DQT" => quant_tbl_ptrs[o[k].slot] = o[k].table
            /\ \A n \in Slots : quant_tbl_ptrs[n] # None => TableSent(o, b, n)
        BY <1>0, <1>2 DEF SoundInv, ReaderInv, SlotsRead, Rereading, o, b
      <3>2. \A k \in 1 .. b + 1 : o[k].marker = "DQT" => quant_tbl_ptrs[o[k].slot] = o[k].table
        BY <1>0, <2>1, <2>3, <3>1
      <3>3. \A c \in 1 .. Len(comp_info') : quant_table'[c] = None
        BY <2>7, <2>9
      <3>. QED
        BY <2>3, <2>7, <2>8, <3>1, <3>2, <3>3 DEF SlotsRead
    <2>13. CoefficientsRead'
      <3>1. \A c \in 1 .. Len(comp_info') : coef'[c] = {}
        BY <2>7, <2>9
      <3>. QED
        BY <2>4, <2>8, <3>1 DEF CoefficientsRead
    <2>14. SourceComplete' /\ Unharmed'
      BY <1>0, <2>1, <2>7 DEF SoundInv, SourceComplete, ReaderInv, Unharmed
    <2>15. WriterInv'
      BY <1>0, <2>6, <2>7, WriterRests
    <2>. QED
      BY <2>10, <2>11, <2>12, <2>13, <2>14, <2>15 DEF SoundInv, ReaderInv
  <1>. QED
    BY <1>1, <1>2 DEF Inv, Types

(* A table that is sent again is the one that had been sent.               *)
LEMMA DQTSound ==
    ASSUME Inv, SoundInv, NEW seg \in Ahead, GetDQT(seg)
    PROVE  SoundInv'
  <1>0. /\ Take(seg) /\ state = "reading" /\ seg.marker = "DQT"
        /\ state' \in {"reading", "error"} /\ UNCHANGED <<frame, scans>>
    BY AheadFacts DEF GetDQT, Fails, reader, Inv
  <1>1. CASE trip = 0
    BY <1>0, <1>1, FirstTripSame
  <1>2. CASE trip > 0
    <2> DEFINE o == source.output
               b == Behind
    <2>1. /\ source' = source /\ trip' = trip /\ b \in Nat /\ Behind' = b + 1 /\ seg = o[b + 1]
          /\ Fits(seg, source.comp_info, source.marker_list, source.progressive)
          /\ \A k \in 1 .. b : Follows(o[k], seg, source.progressive)
          /\ \A k \in 1 .. b : Fits(o[k], source.comp_info, source.marker_list, source.progressive)
      BY <1>0, <1>2, NextSegment DEF SoundInv
    <2>. HIDE DEF o, b
    <2>2. /\ \A k \in 1 .. b + 1 : k \in 1 .. b \/ k = b + 1
          /\ \A m : Has(o, b + 1, m) <=> Has(o, b, m) \/ o[b + 1].marker = m
          /\ \A n : TableSent(o, b, n) \/ (o[b + 1].marker = "DQT" /\ o[b + 1].slot = n)
                       => TableSent(o, b + 1, n)
      BY <2>1, AmongNext
    <2>3. SentAmong(o, b + 1) = SentAmong(o, b)
      <3>1. SentAmong(o, b + 1) = SentAmong(o, b)
                 \cup (IF o[b + 1].marker = "SOS" THEN SentBy(o[b + 1]) ELSE {})
        BY <2>1, AmongNext
      <3>. QED
        BY <1>0, <2>1, <3>1
    <2>4. /\ seg.slot \in Slots
          /\ quant_tbl_ptrs' = [quant_tbl_ptrs EXCEPT ![seg.slot] = seg.table]
          /\ quant_tbl_ptrs \in [Slots -> Tables \cup {None}]
          /\ UNCHANGED <<state, saw_SOF, progressive_mode, comp_info, inheaders, has_multiple_scans,
                         quant_table, coef, warned>>
      BY <1>0, <2>1 DEF Fits, GetDQT, frame, scans, Inv, Types
    <2>5. source'.output = o /\ Behind' = b + 1
      BY <2>1 DEF o
    <2>6. PlaceKnown'
      <3>1. place' # "first" /\ b + 1 # 0
        BY <1>0, <2>1 DEF Take
      <3>2. Absent(o, b, {"EOI"})
        BY <1>0, <1>2 DEF SoundInv, ReaderInv, PlaceKnown, Rereading, o, b
      <3>3. Absent(o, b + 1, {"EOI"})
        BY <1>0, <2>1, <2>2, <3>2 DEF Absent
      <3>. QED
        BY <1>0, <2>4, <2>5, <3>1, <3>3 DEF PlaceKnown
    <2>7. FrameRead'
      BY <1>0, <1>2, <2>1, <2>2, <2>4 DEF SoundInv, ReaderInv, FrameRead, Rereading, o, b
    <2>8. SlotsRead'
      <3>1. /\ \A k \in 1 .. b : o[k].marker = "DQT" => quant_tbl_ptrs[o[k].slot] = o[k].table
            /\ \A n \in Slots : quant_tbl_ptrs[n] # None => TableSent(o, b, n)
            /\ \A c \in 1 .. Len(comp_info) : quant_table[c] # None =>
                  /\ comp_info[c].quant_tbl_no \in Slots
                  /\ quant_table[c] = quant_tbl_ptrs[comp_info[c].quant_tbl_no]
        BY <1>0, <1>2 DEF SoundInv, ReaderInv, SlotsRead, Rereading, o, b
      <3>2. \A k \in 1 .. b : o[k].marker = "DQT" =>
               o[k].slot \in Slots /\ (o[k].slot = seg.slot => o[k].table = seg.table)
        BY <1>0, <2>1 DEF Fits, Follows
      <3>3. \A k \in 1 .. b + 1 : o[k].marker = "DQT" => quant_tbl_ptrs'[o[k].slot] = o[k].table
        BY <2>1, <2>2, <2>4, <3>1, <3>2
      <3>4. \A n \in Slots : quant_tbl_ptrs'[n] # None => TableSent(o, b + 1, n)
        BY <1>0, <2>1, <2>2, <2>4, <3>1
      <3>5. ASSUME NEW c \in 1 .. Len(comp_info), quant_table[c] # None
            PROVE  quant_table[c] = quant_tbl_ptrs'[comp_info[c].quant_tbl_no]
        <4>1. /\ comp_info[c].quant_tbl_no \in Slots
              /\ quant_table[c] = quant_tbl_ptrs[comp_info[c].quant_tbl_no]
          BY <3>1, <3>5
        <4>2. CASE comp_info[c].quant_tbl_no = seg.slot
          <5>1. PICK k \in 1 .. b : o[k].marker = "DQT" /\ o[k].slot = seg.slot
            BY <3>1, <3>5, <4>1, <4>2 DEF TableSent
          <5>. QED
            BY <2>4, <3>1, <3>2, <4>1, <4>2, <5>1
        <4>3. CASE comp_info[c].quant_tbl_no # seg.slot
          BY <2>4, <4>1, <4>3
        <4>. QED
          BY <4>2, <4>3
      <3>. QED
        BY <2>4, <2>5, <3>1, <3>3, <3>4, <3>5 DEF SlotsRead
    <2>9. CoefficientsRead'
      <3>1. DistinctIds' <=> DistinctIds
        BY <2>4 DEF DistinctIds, Ids
      <3>2. saw_SOF /\ DistinctIds =>
               \A c \in 1 .. Len(comp_info) : coef[c] = {p \in SentAmong(o, b) : p.of = c}
        BY <1>0, <1>2 DEF SoundInv, ReaderInv, CoefficientsRead, Rereading, o, b
      <3>. QED
        BY <2>3, <2>4, <2>5, <3>1, <3>2 DEF CoefficientsRead
    <2>10. SourceComplete' /\ Unharmed'
      BY <1>0, <2>1, <2>4 DEF SoundInv, SourceComplete, ReaderInv, Unharmed
    <2>11. WriterInv'
      BY <1>0, <2>4, WriterRests DEF SoundInv, WriterInv, SoundSoFar
    <2>. QED
      BY <2>6, <2>7, <2>8, <2>9, <2>10, <2>11 DEF SoundInv, ReaderInv
  <1>. QED
    BY <1>1, <1>2 DEF Inv, Types

(* What is behind a scan: the frame, and the tables of all components.     *)
LEMMA ScanFacts ==
    ASSUME Inv, SoundInv, trip > 0, NEW seg \in Ahead, Take(seg), seg.marker = "SOS"
    PROVE  /\ saw_SOF /\ comp_info = source.comp_info
           /\ Len(comp_info) \in Nat \ {0} /\ DOMAIN comp_info = 1 .. Len(comp_info)
           /\ ScanFits(seg, comp_info)
           /\ \A c \in 1 .. Len(comp_info) : Latchable(c)
           /\ ~inheaders => has_multiple_scans
  <1> DEFINE o == source.output
             b == Behind
  <1>1. /\ state = "reading"
        /\ Complete(o, source.comp_info, source.marker_list, source.progressive)
        /\ Fits(seg, source.comp_info, source.marker_list, source.progressive)
        /\ \A k \in 1 .. b : k \in 1 .. Len(o)
        /\ \A k \in 1 .. b :
              /\ Follows(o[k], seg, source.progressive)
              /\ Fits(o[k], source.comp_info, source.marker_list, source.progressive)
        /\ \A k \in 1 .. Len(o) :
              \/ k \in 1 .. b
              \/ k = b + 1
              \/ k > b + 1 /\ Follows(seg, o[k], source.progressive)
        /\ seg = o[b + 1]
    BY NextSegment DEF SoundInv
  <1>2. /\ saw_SOF <=> Has(o, b, "SOF")
        /\ saw_SOF => progressive_mode = source.progressive
        /\ ~inheaders <=> Has(o, b, "SOS")
        /\ ~inheaders /\ progressive_mode => has_multiple_scans
        /\ \A k \in 1 .. b : o[k].marker = "DQT" => quant_tbl_ptrs[o[k].slot] = o[k].table
    BY <1>1 DEF SoundInv, ReaderInv, FrameRead, SlotsRead, Rereading
  <1>3. \A k \in 1 .. Len(o) : o[k].marker = "DQT" /\ o[k].slot \in Slots => o[k].table \in Tables
    BY DEF Inv, SourceWritten, Written, Agrees
  <1>. HIDE DEF o, b
  <1>4. \A k \in 1 .. Len(o) : o[k].marker \in {"SOF", "DQT"} => k \in 1 .. b
    BY <1>1 DEF Follows
  <1>5. Has(o, b, "SOF")
    BY <1>1, <1>4 DEF Complete, Has
  <1>6. saw_SOF /\ comp_info = source.comp_info
    BY <1>2, <1>5 DEF Inv, FrameKnown
  <1>7. Len(comp_info) \in Nat \ {0} /\ DOMAIN comp_info = 1 .. Len(comp_info)
    BY <1>1, <1>6 DEF Complete, Inv, Types
  <1>8. ScanFits(seg, comp_info)
    BY <1>1, <1>6 DEF Fits
  <1>9. ASSUME NEW c \in 1 .. Len(comp_info)
        PROVE  Latchable(c)
    <2>1. TableSent(o, Len(o), comp_info[c].quant_tbl_no)
      BY <1>1, <1>6 DEF Complete
    <2>2. PICK k \in 1 .. Len(o) : o[k].marker = "DQT" /\ o[k].slot = comp_info[c].quant_tbl_no
      BY <2>1 DEF TableSent
    <2>3. k \in 1 .. b /\ o[k].slot \in Slots
      BY <1>1, <1>4, <2>2 DEF Fits
    <2>4. quant_tbl_ptrs[comp_info[c].quant_tbl_no] \in Tables
      BY <1>2, <1>3, <2>2, <2>3
    <2>. QED
      BY <2>2, <2>3, <2>4, BoundsAssumption DEF Latchable
  <1>10. ASSUME ~inheaders PROVE has_multiple_scans
    <2>1. PICK k \in 1 .. b : o[k].marker = "SOS"
      BY <1>2, <1>10 DEF Has
    <2>2. source.progressive
      BY <1>1, <2>1 DEF Follows
    <2>. QED
      BY <1>2, <1>6, <1>10, <2>2
  <1>. QED
    BY <1>6, <1>7, <1>8, <1>9, <1>10

(* get_sos takes the first component with the id.                          *)
LEMMA InScanNamed ==
    ASSUME Inv, NEW ids, NEW i \in Nat, Named(ids, i) # {}
    PROVE  InScan(ids, i) \in Named(ids, i) /\ \A d \in Named(ids, i) : InScan(ids, i) <= d
  <1>1. Len(comp_info) \in Nat
    BY DEF Inv, Types
  <1>2. Named(ids, i) \subseteq Nat
    BY <1>1 DEF Named
  <1>3. \E c \in Named(ids, i) : \A d \in Named(ids, i) : c <= d
    BY <1>2, LeastElement
  <1>. QED
    BY <1>3 DEF InScan

(* All ids are found when there are no more components than get_sos looks  *)
(* at.                                                                     *)
LEMMA ScanIsFound ==
    ASSUME Inv, NEW seg, ScanFits(seg, comp_info), Len(comp_info) \in 1 .. MAX_COMPS_IN_SCAN
    PROVE  ScanFound(seg.ids)
  <1> DEFINE ids == seg.ids
             n == Len(comp_info)
  <1>1. /\ n \in 1 .. MAX_COMPS_IN_SCAN /\ MAX_COMPS_IN_SCAN \in Nat \ {0}
        /\ ids \in Seq(Nat) /\ ids # <<>>
        /\ \A i \in 1 .. Len(ids) :
              /\ seg.pieces[i].of \in 1 .. n
              /\ ids[i] = comp_info[seg.pieces[i].of].component_id
              /\ Len(ids) > 1 => seg.pieces[i].of = i
    BY DEF ScanFits, MAX_COMPS_IN_SCAN, Script!MAX_COMPS_IN_SCAN
  <1>. HIDE DEF ids, n
  <1>2. Len(ids) \in Nat \ {0} /\ DOMAIN ids = 1 .. Len(ids)
    BY <1>1
  <1>3. CASE Len(ids) = 1
    <2>1. DOMAIN ids = {1}
      BY <1>2, <1>3
    <2>2. seg.pieces[1].of \in Named(ids, 1)
      BY <1>1, <1>3 DEF Named, n
    <2>. QED
      BY <1>1, <1>3, <2>1, <2>2 DEF ScanFound, ids
  <1>4. CASE Len(ids) > 1
    <2>1. \A i \in 1 .. Len(ids) : i \in 1 .. n /\ ids[i] = comp_info[i].component_id
      BY <1>1, <1>4
    <2>2. Len(ids) \in 1 .. MAX_COMPS_IN_SCAN
      <3>1. Len(ids) \in 1 .. n
        <4>1. Len(ids) \in 1 .. Len(ids)
          BY <1>2
        <4>. QED
          BY <2>1, <4>1
      <3>2. n \in 1 .. MAX_COMPS_IN_SCAN
        BY <1>1
      <3>. QED
        BY <1>1, <3>1, <3>2
    <2>3. \A i \in 1 .. Len(ids) : i \in Named(ids, i) /\ \A d \in Named(ids, i) : i <= d
      <3>. TAKE i \in 1 .. Len(ids)
      <3>1. i \in 1 .. n /\ i \in i .. n /\ i <= MAX_COMPS_IN_SCAN /\ n \in Nat
        BY <1>1, <2>1
      <3>2. i \in Named(ids, i)
        BY <1>1, <2>1, <3>1 DEF Named, n
      <3>3. \A d \in Named(ids, i) : i <= d
        BY <3>1 DEF Named, n
      <3>. QED
        BY <3>2, <3>3
    <2>4. \A i \in 1 .. Len(ids) : InScan(ids, i) = i
      <3>. TAKE i \in 1 .. Len(ids)
      <3>1. i \in Nat /\ Named(ids, i) # {} /\ i \in Named(ids, i)
        BY <1>2, <2>3
      <3>2. InScan(ids, i) \in Named(ids, i) /\ InScan(ids, i) <= i
        BY <3>1, InScanNamed
      <3>. QED
        BY <2>3, <3>1, <3>2 DEF Named
    <2>. QED
      BY <1>1, <1>2, <2>2, <2>3, <2>4 DEF ScanFound, ids
  <1>. QED
    BY <1>2, <1>3, <1>4

(* A written scan can be read if the frame has no more components than     *)
(* that.                                                                   *)
LEMMA ScanCanStart ==
    ASSUME Inv, SoundInv, trip > 0, NEW seg \in Ahead, Take(seg), seg.marker = "SOS",
           Len(source.comp_info) <= MAX_COMPS_IN_SCAN
    PROVE  ScanStarts(seg)
  <1>1. /\ saw_SOF /\ comp_info = source.comp_info
        /\ Len(comp_info) \in Nat \ {0} /\ DOMAIN comp_info = 1 .. Len(comp_info)
        /\ ScanFits(seg, comp_info)
        /\ \A c \in 1 .. Len(comp_info) : Latchable(c)
        /\ ~inheaders => has_multiple_scans
    BY ScanFacts
  <1>2. MAX_COMPS_IN_SCAN = 4 /\ MAX_COMPONENTS = 10
    BY DEF MAX_COMPS_IN_SCAN, Script!MAX_COMPS_IN_SCAN, MAX_COMPONENTS, Script!MAX_COMPONENTS
  <1>3. ScanFound(seg.ids)
    <2>1. Len(comp_info) \in 1 .. MAX_COMPS_IN_SCAN
      <3>1. /\ Len(comp_info) <= MAX_COMPS_IN_SCAN /\ Len(comp_info) \in Nat \ {0}
            /\ MAX_COMPS_IN_SCAN \in Nat
        BY <1>1, <1>2
      <3>. QED
        BY <3>1
    <2>. QED
      BY <1>1, <2>1, ScanIsFound
  <1>4. \A i \in DOMAIN seg.ids : Latchable(InScan(seg.ids, i))
    <2>. TAKE i \in DOMAIN seg.ids
    <2>1. i \in Nat \ {0} /\ Named(seg.ids, i) # {}
      BY <1>1, <1>3 DEF ScanFits, ScanFound
    <2>2. InScan(seg.ids, i) \in Named(seg.ids, i)
      BY <2>1, InScanNamed
    <2>3. InScan(seg.ids, i) \in 1 .. Len(comp_info)
      BY <1>1, <2>1, <2>2 DEF Named
    <2>. QED
      BY <1>1, <2>3
  <1>5. progressive_mode => ValidProgression(seg)
    <2>1. state = "reading" /\ Fits(seg, source.comp_info, source.marker_list, source.progressive)
      BY NextSegment DEF SoundInv
    <2>2. progressive_mode = source.progressive
      BY <1>1, <2>1 DEF SoundInv, ReaderInv, FrameRead, Rereading
    <2>. QED
      BY <2>1, <2>2 DEF Fits
  <1>. QED
    BY <1>1, <1>2, <1>3, <1>4, <1>5 DEF ScanStarts

(* Where no two components have one id, a piece goes to the component it   *)
(* was sent from.                                                          *)
LEMMA InScanIsSender ==
    ASSUME Inv, DistinctIds, NEW seg, ScanFits(seg, comp_info), ScanFound(seg.ids),
           NEW i \in DOMAIN seg.ids
    PROVE  i \in 1 .. Len(seg.ids) /\ InScan(seg.ids, i) = seg.pieces[i].of
  <1>1. /\ seg.ids \in Seq(Nat) /\ i \in 1 .. Len(seg.ids) /\ i \in Nat \ {0}
        /\ seg.pieces[i].of \in 1 .. Len(comp_info)
        /\ seg.ids[i] = comp_info[seg.pieces[i].of].component_id
        /\ Named(seg.ids, i) # {}
    BY DEF ScanFits, ScanFound
  <1>2. InScan(seg.ids, i) \in Named(seg.ids, i)
    BY <1>1, InScanNamed
  <1>3. DOMAIN comp_info = 1 .. Len(comp_info) /\ Len(comp_info) \in Nat
    BY DEF Inv, Types
  <1>4. /\ InScan(seg.ids, i) \in DOMAIN comp_info
        /\ comp_info[InScan(seg.ids, i)].component_id = seg.ids[i]
    BY <1>1, <1>2, <1>3 DEF Named
  <1>. QED
    BY <1>1, <1>3, <1>4 DEF DistinctIds, Distinct

(* With distinct ids a scan gives each component in it the piece sent.     *)
LEMMA PiecesRead ==
    ASSUME Inv, DistinctIds, NEW seg, ScanFits(seg, comp_info), ScanFound(seg.ids), NEW c
    PROVE  {p \in SentBy(seg) : p.of = c} =
              IF c \in {InScan(seg.ids, i) : i \in DOMAIN seg.ids}
              THEN {seg.pieces[CHOOSE i \in DOMAIN seg.ids : InScan(seg.ids, i) = c]}
              ELSE {}
  <1>1. DOMAIN seg.ids = 1 .. Len(seg.ids)
    BY DEF ScanFits
  <1>2. \A i \in DOMAIN seg.ids : InScan(seg.ids, i) = seg.pieces[i].of
    BY InScanIsSender
  <1>3. \A i, j \in DOMAIN seg.ids : i # j => InScan(seg.ids, i) # InScan(seg.ids, j)
    BY DEF ScanFound
  <1>4. SentBy(seg) = {seg.pieces[i] : i \in DOMAIN seg.ids}
    BY <1>1 DEF SentBy
  <1>5. CASE c \in {InScan(seg.ids, i) : i \in DOMAIN seg.ids}
    <2> DEFINE j == CHOOSE i \in DOMAIN seg.ids : InScan(seg.ids, i) = c
    <2>1. j \in DOMAIN seg.ids /\ InScan(seg.ids, j) = c
      BY <1>5
    <2>. HIDE DEF j
    <2>2. \A i \in DOMAIN seg.ids : seg.pieces[i].of = c => i = j
      BY <1>2, <1>3, <2>1
    <2>3. {p \in SentBy(seg) : p.of = c} = {seg.pieces[j]}
      BY <1>2, <1>4, <2>1, <2>2
    <2>. QED
      BY <1>5, <2>3 DEF j
  <1>6. CASE c \notin {InScan(seg.ids, i) : i \in DOMAIN seg.ids}
    <2>1. {p \in SentBy(seg) : p.of = c} = {}
      BY <1>2, <1>4, <1>6
    <2>. QED
      BY <1>6, <2>1
  <1>. QED
    BY <1>5, <1>6

(* The writer's Adobe segment has a transform the reader knows.            *)
LEMMA NoOddTransform ==
    ASSUME Inv, trip > 0, inheaders, saw_SOF, NEW seg \in Ahead, seg.marker = "SOS"
    PROVE  ~OddTransform
  <1>1. comp_info = source.comp_info /\ SpaceFits(source.space, Len(comp_info)) /\ Len(comp_info) \in Nat
    BY DEF Inv, FrameKnown, SourceWritten, Types
  <1>2. /\ source.space = "YCbCr" => saw_JFIF_marker
        /\ source.space \in {"RGB", "CMYK", "YCCK"} =>
                 /\ saw_Adobe_marker
                 /\ Adobe_transform = IF source.space = "YCCK" THEN 2 ELSE 0
    BY SegmentMet
  <1>3. CASE Len(comp_info) = 3
    <2>1. source.space \in {"RGB", "YCbCr"}
      BY <1>1, <1>3 DEF SpaceFits
    <2>2. saw_JFIF_marker \/ Adobe_transform = 0
      BY <1>2, <2>1
    <2>. QED
      BY <1>3, <2>2 DEF OddTransform
  <1>4. CASE Len(comp_info) = 4
    <2>1. source.space \in {"CMYK", "YCCK"}
      BY <1>1, <1>4 DEF SpaceFits
    <2>2. Adobe_transform = 0 \/ Adobe_transform = 2
      BY <1>2, <2>1
    <2>. QED
      BY <1>4, <2>2 DEF OddTransform
  <1>5. CASE Len(comp_info) \notin {3, 4}
    BY <1>5 DEF OddTransform
  <1>. QED
    BY <1>3, <1>4, <1>5

(* A scan of the first file.                                               *)
LEMMA FirstScans ==
    ASSUME Inv, SoundInv, trip = 0, NEW seg \in Ahead, GetSOS(seg)
    PROVE  SoundInv'
  <1>0. Take(seg) /\ state = "reading" /\ seg.marker = "SOS"
    BY AheadFacts DEF GetSOS, Inv
  <1>1. CASE ~ScanStarts(seg)
    BY <1>0, <1>1, FirstTripSame DEF GetSOS, Fails, reader
  <1>2. CASE ScanStarts(seg)
    <2>1. state' = "reading" /\ comp_info' = comp_info
      BY <1>0, <1>2 DEF GetSOS, frame
    <2>2. seg.ids \in Seq(Nat)
      <3>1. seg \in Segments
        BY <1>0 DEF Ahead
      <3>2. seg.ids \in ScanIds
        BY <1>0, <3>1, SegmentsAssumption DEF Segments, ScanHeader, AppMarkers
      <3>. QED
        BY <3>2, SegmentsAssumption
    <2>3. 1 \in DOMAIN seg.ids /\ Named(seg.ids, 1) # {}
      BY <1>2, <2>2 DEF ScanStarts, ScanFound
    <2>4. Len(comp_info) > 0
      BY <2>3 DEF Named, Inv, Types
    <2>. QED
      BY <1>0, <2>1, <2>4, FirstTripReads
  <1>. QED
    BY <1>1, <1>2

(* A scan of a file that was written, read into the components.            *)
LEMMA ScanRead ==
    ASSUME Inv, SoundInv, trip > 0, NEW seg \in Ahead, GetSOS(seg), ScanStarts(seg)
    PROVE  SoundInv'
  <1> DEFINE o == source.output
             b == Behind
             selected == {InScan(seg.ids, i) : i \in DOMAIN seg.ids}
             piece(c) == seg.pieces[CHOOSE i \in DOMAIN seg.ids : InScan(seg.ids, i) = c]
  <1>0. Take(seg) /\ state = "reading" /\ seg.marker = "SOS"
    BY AheadFacts DEF GetSOS, Inv
  <1>1. /\ source' = source /\ trip' = trip /\ b \in Nat /\ Behind' = b + 1 /\ seg = o[b + 1]
    BY <1>0, NextSegment DEF SoundInv
  <1>2. /\ saw_SOF /\ comp_info = source.comp_info
        /\ Len(comp_info) \in Nat \ {0} /\ DOMAIN comp_info = 1 .. Len(comp_info)
        /\ ScanFits(seg, comp_info)
        /\ \A c \in 1 .. Len(comp_info) : Latchable(c)
        /\ ~inheaders => has_multiple_scans
    BY <1>0, ScanFacts
  <1>3. ScanFound(seg.ids)
    BY DEF ScanStarts
  <1>4. /\ inheaders' = FALSE
        /\ has_multiple_scans' =
              IF inheaders THEN Len(seg.ids) < Len(comp_info) \/ progressive_mode
              ELSE has_multiple_scans
        /\ quant_table' = [c \in DOMAIN comp_info |->
              IF c \in selected THEN Latched(c) ELSE quant_table[c]]
        /\ coef' = [c \in DOMAIN comp_info |->
              IF c \in selected THEN coef[c] \cup {piece(c)} ELSE coef[c]]
        /\ Warn(inheaders /\ OddTransform)
        /\ UNCHANGED <<state, saw_SOF, progressive_mode, comp_info, quant_tbl_ptrs>>
    <2> DEFINE IndexOf(c) == CHOOSE i \in DOMAIN seg.ids : InScan(seg.ids, i) = c
               Piece(c) == IF trip = 0 THEN [of |-> c, scan |-> 0] ELSE seg.pieces[IndexOf(c)]
    <2>1. /\ inheaders' = FALSE
          /\ has_multiple_scans' =
                IF inheaders THEN Len(seg.ids) < Len(comp_info) \/ progressive_mode
                ELSE has_multiple_scans
          /\ quant_table' = [c \in DOMAIN comp_info |->
                IF c \in selected THEN Latched(c) ELSE quant_table[c]]
          /\ coef' = [c \in DOMAIN comp_info |->
                IF c \in selected THEN coef[c] \cup {Piece(c)} ELSE coef[c]]
          /\ Warn(inheaders /\ OddTransform)
          /\ UNCHANGED <<state, frame, quant_tbl_ptrs>>
      BY Zenon DEF GetSOS
    <2>2. \A c : Piece(c) = piece(c)
      BY DEF Inv, Types
    <2>. HIDE DEF Piece, piece, selected
    <2>3. coef' = [c \in DOMAIN comp_info |->
                IF c \in selected THEN coef[c] \cup {piece(c)} ELSE coef[c]]
      BY <2>1, <2>2
    <2>4. UNCHANGED <<state, saw_SOF, progressive_mode, comp_info, quant_tbl_ptrs>>
      BY <2>1 DEF frame
    <2>. QED
      BY <2>1, <2>3, <2>4, Zenon
  <1>5. DistinctIds => \A c : {p \in SentBy(seg) : p.of = c} = IF c \in selected THEN {piece(c)} ELSE {}
    BY <1>2, <1>3, PiecesRead
  <1>. HIDE DEF o, b, selected, piece
  <1>6. /\ \A k \in 1 .. b + 1 : k \in 1 .. b \/ k = b + 1
        /\ \A m : Has(o, b + 1, m) <=> Has(o, b, m) \/ o[b + 1].marker = m
        /\ \A n : TableSent(o, b, n) => TableSent(o, b + 1, n)
    BY <1>1, AmongNext
  <1>7. SentAmong(o, b + 1) = SentAmong(o, b) \cup SentBy(seg)
    <2>1. SentAmong(o, b + 1) = SentAmong(o, b)
                 \cup (IF o[b + 1].marker = "SOS" THEN SentBy(o[b + 1]) ELSE {})
      BY <1>1, AmongNext
    <2>. QED
      BY <1>0, <1>1, <2>1
  <1>8. source'.output = o /\ Behind' = b + 1
    BY <1>1 DEF o
  <1>9. PlaceKnown'
    <2>1. place' # "first" /\ b + 1 # 0
      BY <1>0, <1>1 DEF Take
    <2>2. Absent(o, b, {"EOI"})
      BY <1>0 DEF SoundInv, ReaderInv, PlaceKnown, Rereading, o, b
    <2>3. Absent(o, b + 1, {"EOI"})
      BY <1>0, <1>1, <1>6, <2>2 DEF Absent
    <2>. QED
      BY <1>0, <1>4, <1>8, <2>1, <2>3 DEF PlaceKnown
  <1>10. FrameRead'
    <2>1. /\ saw_SOF <=> Has(o, b, "SOF")
          /\ saw_SOF => progressive_mode = source.progressive
          /\ ~inheaders /\ progressive_mode => has_multiple_scans
      BY <1>0 DEF SoundInv, ReaderInv, FrameRead, Rereading, o, b
    <2>2. progressive_mode => has_multiple_scans'
      <3>1. CASE inheaders
        BY <1>4, <3>1, Zenon
      <3>2. CASE ~inheaders
        BY <1>4, <2>1, <3>2, Zenon
      <3>. QED
        BY <3>1, <3>2
    <2>3. Has(o, b + 1, "SOS") /\ Has(o, b + 1, "SOF")
      BY <1>0, <1>1, <1>2, <1>6, <2>1
    <2>4. progressive_mode' = source'.progressive
      BY <1>1, <1>2, <1>4, <2>1
    <2>. QED
      BY <1>2, <1>4, <1>8, <2>2, <2>3, <2>4 DEF FrameRead
  <1>11. SlotsRead'
    <2>1. /\ \A k \in 1 .. b : o[k].marker = "DQT" => quant_tbl_ptrs[o[k].slot] = o[k].table
          /\ \A n \in Slots : quant_tbl_ptrs[n] # None => TableSent(o, b, n)
          /\ \A c \in 1 .. Len(comp_info) : quant_table[c] # None =>
                /\ comp_info[c].quant_tbl_no \in Slots
                /\ quant_table[c] = quant_tbl_ptrs[comp_info[c].quant_tbl_no]
      BY <1>0 DEF SoundInv, ReaderInv, SlotsRead, Rereading, o, b
    <2>2. \A k \in 1 .. b + 1 : o[k].marker = "DQT" => quant_tbl_ptrs[o[k].slot] = o[k].table
      BY <1>0, <1>1, <1>6, <2>1
    <2>3. ASSUME NEW c \in 1 .. Len(comp_info), quant_table'[c] # None
          PROVE  /\ comp_info[c].quant_tbl_no \in Slots
                 /\ quant_table'[c] = quant_tbl_ptrs[comp_info[c].quant_tbl_no]
      <3>1. quant_table'[c] = IF c \in selected THEN Latched(c) ELSE quant_table[c]
        BY <1>2, <1>4
      <3>2. CASE quant_table[c] # None
        BY <2>1, <3>1, <3>2 DEF Latched
      <3>3. CASE quant_table[c] = None
        BY <1>2, <2>3, <3>1, <3>3 DEF Latched, Latchable
      <3>. QED
        BY <3>2, <3>3
    <2>. QED
      BY <1>4, <1>6, <1>8, <2>1, <2>2, <2>3 DEF SlotsRead
  <1>12. CoefficientsRead'
    <2>. SUFFICES ASSUME DistinctIds, NEW c \in 1 .. Len(comp_info)
                  PROVE  coef'[c] = {p \in SentAmong(o, b + 1) : p.of = c}
      BY <1>4, <1>8 DEF CoefficientsRead, DistinctIds, Distinct
    <2>1. coef[c] = {p \in SentAmong(o, b) : p.of = c}
      BY <1>0, <1>2 DEF SoundInv, ReaderInv, CoefficientsRead, Rereading, o, b
    <2>2. {p \in SentAmong(o, b + 1) : p.of = c}
             = {p \in SentAmong(o, b) : p.of = c} \cup {p \in SentBy(seg) : p.of = c}
      BY <1>7
    <2>3. {p \in SentBy(seg) : p.of = c} = IF c \in selected THEN {piece(c)} ELSE {}
      BY <1>5
    <2>4. coef'[c] = IF c \in selected THEN coef[c] \cup {piece(c)} ELSE coef[c]
      BY <1>2, <1>4
    <2>. QED
      BY <2>1, <2>2, <2>3, <2>4
  <1>13. Unharmed'
    <2>1. warned => HasOddJFIF(source.marker_list)
      BY NoWarningSoFar
    <2>2. ~(inheaders /\ OddTransform)
      BY <1>0, <1>2, NoOddTransform
    <2>3. warned' => HasOddJFIF(source.marker_list)
      BY <1>4, <2>1, <2>2, Zenon DEF Warn
    <2>. QED
      BY <1>0, <1>1, <1>4, <2>3 DEF Unharmed
  <1>14. SourceComplete'
    BY <1>1 DEF SoundInv, SourceComplete
  <1>15. WriterInv'
    BY <1>0, <1>2, <1>4, WriterRests
  <1>. QED
    BY <1>9, <1>10, <1>11, <1>12, <1>13, <1>14, <1>15 DEF SoundInv, ReaderInv

(* and a scan.                                                             *)
LEMMA SOSSound ==
    ASSUME Inv, SoundInv, NEW seg \in Ahead, GetSOS(seg)
    PROVE  SoundInv'
  <1>0. Take(seg) /\ seg.marker = "SOS"
    BY DEF GetSOS
  <1>1. CASE trip = 0
    BY <1>1, FirstScans
  <1>2. CASE trip > 0 /\ ScanStarts(seg)
    BY <1>2, ScanRead
  <1>3. CASE trip > 0 /\ ~ScanStarts(seg)
    <2>1. Fails
      BY <1>3 DEF GetSOS
    <2>2. Len(source.comp_info) > MAX_COMPS_IN_SCAN
      <3>1. Len(source.comp_info) \in Nat /\ MAX_COMPS_IN_SCAN \in Nat
        BY <1>3 DEF Inv, SourceWritten, MAX_COMPS_IN_SCAN, Script!MAX_COMPS_IN_SCAN
      <3>2. ~(Len(source.comp_info) <= MAX_COMPS_IN_SCAN)
        BY <1>0, <1>3, ScanCanStart
      <3>. QED
        BY <3>1, <3>2
    <2>. QED
      BY <1>0, <2>1, <2>2, ReaderFailed
  <1>. QED
    BY <1>1, <1>2, <1>3 DEF Inv, Types

-----------------------------------------------------------------------------
(* Writing what was read.                                                  *)

(* What the reader knows stays.                                            *)
LEMMA ReaderRests ==
    ASSUME Inv, SoundInv, UNCHANGED <<reader, trip, source, input>>,
           state # "reading", state' # "reading", state # "error",
           trip > 0 /\ state' = "error" => Len(source.comp_info) > MAX_COMPS_IN_SCAN
    PROVE  SourceComplete' /\ ReaderInv'
  <1>1. UNCHANGED <<trip, source, input, saw_SOF, progressive_mode, comp_info, inheaders,
                    has_multiple_scans, quant_table, coef, quant_tbl_ptrs, warned>>
    BY DEF reader, frame, scans
  <1>2. UNCHANGED Behind
    BY <1>1 DEF Behind
  <1>3. SourceComplete' /\ Unharmed'
    BY <1>1 DEF SoundInv, SourceComplete, ReaderInv, Unharmed
  <1>4. PlaceKnown' /\ FrameRead'
    BY <1>1, <1>2 DEF SoundInv, ReaderInv, PlaceKnown, FrameRead, Rereading
  <1>5. SlotsRead'
    BY <1>1, <1>2 DEF SoundInv, ReaderInv, SlotsRead, Rereading
  <1>6. CoefficientsRead'
    BY <1>1, <1>2 DEF SoundInv, ReaderInv, CoefficientsRead, Rereading, DistinctIds, Distinct
  <1>. QED
    BY <1>3, <1>4, <1>5, <1>6 DEF ReaderInv

(* At the end of the file all of it has been read.                         *)
LEMMA AllRead ==
    ASSUME Inv, SoundInv, trip > 0, state \notin {"reading", "error"}
    PROVE  /\ Complete(source.output, source.comp_info, source.marker_list, source.progressive)
           /\ Behind = Len(source.output) /\ Len(source.output) \in Nat
           /\ ~inheaders /\ saw_SOF /\ comp_info = source.comp_info
           /\ DOMAIN comp_info = 1 .. Len(comp_info)
  <1>1. Complete(source.output, source.comp_info, source.marker_list, source.progressive)
    BY DEF SoundInv, SourceComplete
  <1>2. Behind = Len(source.output) /\ Len(source.output) \in Nat
    BY <1>1 DEF SoundInv, ReaderInv, PlaceKnown, Rereading, Complete, Sound, IsSequence
  <1>3. ~inheaders /\ saw_SOF
    BY DEF Inv, Types, States, Finished, Guessed
  <1>4. comp_info = source.comp_info /\ DOMAIN comp_info = 1 .. Len(comp_info)
    BY <1>3 DEF Inv, FrameKnown, Types
  <1>. QED
    BY <1>1, <1>2, <1>3, <1>4

(* The slots have the tables the file was written with, and so have the    *)
(* components.                                                             *)
LEMMA AllCopyable ==
    ASSUME Inv, SoundInv, trip > 0, state \notin {"reading", "error"}
    PROVE  \A c \in DOMAIN comp_info : Copyable(c)
  <1> DEFINE o == source.output
  <1>1. /\ Complete(o, comp_info, source.marker_list, source.progressive)
        /\ Behind = Len(o) /\ DOMAIN comp_info = 1 .. Len(comp_info)
    BY AllRead
  <1>2. /\ \A k \in 1 .. Len(o) : o[k].marker = "DQT" => quant_tbl_ptrs[o[k].slot] = o[k].table
        /\ \A c \in 1 .. Len(comp_info) : quant_table[c] # None =>
              quant_table[c] = quant_tbl_ptrs[comp_info[c].quant_tbl_no]
    BY <1>1 DEF SoundInv, ReaderInv, SlotsRead, Rereading
  <1>3. \A k \in 1 .. Len(o) : o[k].marker = "DQT" /\ o[k].slot \in Slots => o[k].table \in Tables
    BY DEF Inv, SourceWritten, Written, Agrees
  <1>. HIDE DEF o
  <1>4. ASSUME NEW c \in 1 .. Len(comp_info)
        PROVE  Copyable(c)
    <2>1. TableSent(o, Len(o), comp_info[c].quant_tbl_no)
      BY <1>1 DEF Complete
    <2>2. PICK k \in 1 .. Len(o) : o[k].marker = "DQT" /\ o[k].slot = comp_info[c].quant_tbl_no
      BY <2>1 DEF TableSent
    <2>3. o[k].slot \in Slots
      BY <1>1, <2>2 DEF Complete, Sound, Fits
    <2>4. quant_tbl_ptrs[comp_info[c].quant_tbl_no] \in Tables
      BY <1>2, <1>3, <2>2, <2>3
    <2>. QED
      BY <1>2, <2>2, <2>3, <2>4, BoundsAssumption DEF Copyable
  <1>. QED
    BY <1>1, <1>4

(* The writer of the next file takes what the reader has read,             *)
LEMMA CopyParametersSound ==
    ASSUME Inv, SoundInv, CopyCriticalParameters
    PROVE  SoundInv'
  <1>1. /\ state = "read" /\ state' \in {"copied", "error"}
        /\ UNCHANGED <<reader, trip, source, input>>
        /\ state' = "error" => \E c \in DOMAIN comp_info : ~Copyable(c)
    BY DEF CopyCriticalParameters
  <1>2. trip > 0 => state' # "error"
    BY <1>1, AllCopyable
  <1>3. SourceComplete' /\ ReaderInv'
    BY <1>1, <1>2, ReaderRests
  <1>4. UNCHANGED <<inheaders, comp_info>>
    BY <1>1 DEF reader, frame, scans
  <1>5. WriterInv'
    BY <1>1, <1>4, WriterRests DEF SoundInv, WriterInv, SoundSoFar
  <1>. QED
    BY <1>3, <1>5 DEF SoundInv

(* begins its frame,                                                       *)
LEMMA FinishSound ==
    ASSUME Inv, SoundInv, FinishCompress
    PROVE  SoundInv'
  <1>1. /\ state = "started" /\ state' \in {"framing", "error"}
        /\ UNCHANGED <<reader, trip, source, input>>
        /\ state' = "error" => ~(Len(comp_info) <= MAX_COMPS_IN_SCAN)
    BY Zenon DEF FinishCompress
  <1>2. trip > 0 /\ state' = "error" => Len(source.comp_info) > MAX_COMPS_IN_SCAN
    <2>1. Len(comp_info) \in Nat /\ MAX_COMPS_IN_SCAN \in Nat
      BY DEF Inv, Types, MAX_COMPS_IN_SCAN, Script!MAX_COMPS_IN_SCAN
    <2>2. trip > 0 => comp_info = source.comp_info
      BY <1>1, AllRead
    <2>. QED
      BY <1>1, <2>1, <2>2
  <1>3. SourceComplete' /\ ReaderInv'
    BY <1>1, <1>2, ReaderRests
  <1>. QED
    BY <1>3, FinishWriter DEF SoundInv

(* and none of its steps touches the file it has read.                     *)
LEMMA WriterSound ==
    ASSUME Inv, SoundInv,
           \/ WriteCoefficients \/ CopyMarker \/ EmitDQT \/ EmitSOF \/ EmitScan \/ EmitEOI \/ Merge
    PROVE  SoundInv'
  <1>1. WriterInv'
    BY HeaderWriter, CopyMarkerWriter, DQTWriter, SOFWriter, ScanWriter, EOIWriter, MergeWriter
       DEF SoundInv
  <1>2. /\ state \notin {"reading", "error"} /\ state' \notin {"reading", "error"}
        /\ UNCHANGED <<reader, trip, source, input>>
    BY DEF WriteCoefficients, CopyMarker, EmitDQT, EmitSOF, EmitScan, EmitEOI, Merge
  <1>3. SourceComplete' /\ ReaderInv'
    BY <1>2, ReaderRests
  <1>. QED
    BY <1>1, <1>3 DEF SoundInv

(* The next call begins with all of the file ahead.                        *)
LEMMA AgainSound ==
    ASSUME Inv, SoundInv, Again
    PROVE  SoundInv'
  <1>1. /\ state = "written" /\ input' = output /\ source' = ThisCall /\ state' = "reading"
        /\ place' = "first" /\ saw_SOF' = FALSE /\ comp_info' = <<>>
        /\ quant_tbl_ptrs' = [n \in Slots |-> None] /\ inheaders' = TRUE /\ warned' = FALSE
    BY DEF Again
  <1>2. /\ source'.output = output /\ source'.comp_info = comp_info
        /\ source'.marker_list = marker_list /\ source'.progressive = progressive
    BY <1>1 DEF ThisCall
  <1>3. SourceComplete'
    BY <1>1, <1>2 DEF SourceComplete, SoundInv, WriterInv, CompleteAtLast
  <1>4. Behind' = 0
    <2>1. Len(output) \in Nat
      BY <1>1 DEF SoundInv, WriterInv, CompleteAtLast, Complete, Sound, IsSequence
    <2>. QED
      BY <1>1, <1>2, <2>1 DEF Behind
  <1>5. PlaceKnown' /\ FrameRead'
    BY <1>1, <1>4 DEF PlaceKnown, FrameRead, Absent, Has
  <1>6. SlotsRead'
    <2>1. Len(comp_info') = 0
      BY <1>1
    <2>2. \A n \in Slots : quant_tbl_ptrs'[n] = None
      BY <1>1
    <2>. QED
      BY <1>4, <2>1, <2>2 DEF SlotsRead
  <1>7. CoefficientsRead' /\ Unharmed'
    BY <1>1 DEF CoefficientsRead, Unharmed
  <1>8. WriterInv'
    BY <1>1, WriterRests
  <1>. QED
    BY <1>3, <1>5, <1>6, <1>7, <1>8 DEF SoundInv, ReaderInv

(* Nothing happens when nothing happens.                                   *)
LEMMA SoundStutters ==
    ASSUME Inv, SoundInv, UNCHANGED vars
    PROVE  SoundInv'
  <1>1. UNCHANGED <<trip, state, next, source, input, output, place, saw_SOF, progressive_mode,
                    comp_info, inheaders, has_multiple_scans, quant_table, coef, quant_tbl_ptrs,
                    marker_list, warned, progressive, jpeg_color_space>>
    BY DEF vars, call, reader, frame, scans
  <1>2. SoundSoFar' /\ MarkersFirst' /\ TablesSecond' /\ CompleteAtLast'
    BY <1>1 DEF SoundInv, WriterInv, SoundSoFar, MarkersFirst, TablesSecond, CompleteAtLast
  <1>3. ScansThird'
    <2>1. ImageScript' = ImageScript
      BY <1>1, Zenon DEF ImageScript
    <2>2. \A n : SOSOf(n)' = SOSOf(n)
      BY <1>1, <2>1 DEF SOSOf, Content, Pieces
    <2>. QED
      BY <1>1, <2>1, <2>2 DEF SoundInv, WriterInv, ScansThird
  <1>4. UNCHANGED Behind
    BY <1>1 DEF Behind
  <1>5. SourceComplete' /\ Unharmed' /\ PlaceKnown' /\ FrameRead'
    BY <1>1, <1>4 DEF SoundInv, SourceComplete, ReaderInv, Unharmed, PlaceKnown, FrameRead, Rereading
  <1>6. SlotsRead'
    BY <1>1, <1>4 DEF SoundInv, ReaderInv, SlotsRead, Rereading
  <1>7. CoefficientsRead'
    BY <1>1, <1>4 DEF SoundInv, ReaderInv, CoefficientsRead, Rereading, DistinctIds, Distinct
  <1>. QED
    BY <1>2, <1>3, <1>5, <1>6, <1>7 DEF SoundInv, WriterInv, ReaderInv

(* The invariant holds at the start,                                       *)
LEMMA SoundInit ==
    ASSUME Init
    PROVE  SoundInv
  <1>1. trip = 0 /\ inheaders /\ state = "reading"
    BY DEF Init
  <1>2. WriterInv
    BY <1>1 DEF WriterInv, SoundSoFar, MarkersFirst, TablesSecond, ScansThird, CompleteAtLast, Writing
  <1>3. SourceComplete /\ ReaderInv
    BY <1>1 DEF SourceComplete, ReaderInv, PlaceKnown, FrameRead, SlotsRead, CoefficientsRead,
       Unharmed, Rereading
  <1>. QED
    BY <1>2, <1>3 DEF SoundInv

(* and every step keeps it.                                                *)
LEMMA SoundNext ==
    ASSUME Inv, SoundInv, [Next]_vars
    PROVE  SoundInv'
  <1>1. CASE \E seg \in Ahead : GetSOI(seg)
    BY <1>1, SOISound
  <1>2. CASE \E seg \in Ahead : GetSOF(seg)
    BY <1>2, SOFSound
  <1>3. CASE \E seg \in Ahead : GetDQT(seg)
    BY <1>3, DQTSound
  <1>4. CASE \E seg \in Ahead : GetTables(seg)
    BY <1>4, OtherSound
  <1>5. CASE \E seg \in Ahead : SaveMarker(seg)
    BY <1>5, SaveSound
  <1>6. CASE \E seg \in Ahead : SkipOrRefuse(seg)
    BY <1>6, OtherSound
  <1>7. CASE \E seg \in Ahead : GetSOS(seg)
    BY <1>7, SOSSound
  <1>8. CASE \E seg \in Ahead : GetEOI(seg)
    BY <1>8, EOISound
  <1>9. CASE EndOfFile
    BY <1>9, EndOfFileSound
  <1>10. CASE CopyCriticalParameters \/ FinishCompress
    BY <1>10, CopyParametersSound, FinishSound
  <1>11. CASE \/ WriteCoefficients \/ CopyMarker \/ EmitDQT \/ EmitSOF \/ EmitScan \/ EmitEOI \/ Merge
    BY <1>11, WriterSound
  <1>12. CASE Again
    BY <1>12, AgainSound
  <1>13. CASE UNCHANGED vars
    BY <1>13, SoundStutters
  <1>. QED
    BY <1>1, <1>2, <1>3, <1>4, <1>5, <1>6, <1>7, <1>8, <1>9, <1>10, <1>11, <1>12, <1>13 DEF Next

-----------------------------------------------------------------------------
(* What is shown.                                                          *)

(* What is written is sound at every step, complete when it is finished,   *)
(* and a reader of it has got just what the segments behind it say.        *)
THEOREM WrittenFilesAreSound == Spec => [](Inv /\ MoreTypes /\ SoundInv)
  <1>1. Init => MoreTypes /\ SoundInv
    BY MoreTypesInit, SoundInit
  <1>2. Inv /\ MoreTypes /\ SoundInv /\ [Next]_vars => MoreTypes' /\ SoundInv'
    BY MoreTypesNext, SoundNext
  <1>. QED
    BY <1>1, <1>2, ReaderFollowsWriter, PTL DEF Spec

(* Where no two components have one id, the scans of the written file are  *)
(* read into the components they were written from, and none goes without  *)
(* (emit_sos against get_sos).                                             *)
THEOREM CoefficientsAreKept == Spec => []CoefficientsKeptByIds
  <1>1. ASSUME Inv, SoundInv, DistinctIds, Read, NEW c \in DOMAIN comp_info
        PROVE  coef[c] # {} /\ coef[c] = {p \in Pieces : p.of = c}
    <2> DEFINE o == source.output
    <2>1. trip > 0 /\ state \notin {"reading", "error"}
      BY <1>1 DEF Read
    <2>2. /\ Complete(o, comp_info, source.marker_list, source.progressive)
          /\ Behind = Len(o) /\ saw_SOF /\ c \in 1 .. Len(comp_info)
      BY <1>1, <2>1, AllRead
    <2>3. coef[c] = {p \in SentAmong(o, Len(o)) : p.of = c}
      BY <1>1, <2>1, <2>2 DEF SoundInv, ReaderInv, CoefficientsRead, Rereading
    <2>4. Pieces = UNION {{o[k].pieces[i] : i \in DOMAIN o[k].pieces} :
                             k \in {j \in DOMAIN o : o[j].marker = "SOS"}}
      BY DEF Pieces
    <2>. HIDE DEF o
    <2>5. DOMAIN o = 1 .. Len(o)
      BY <2>2 DEF Complete, Sound, IsSequence
    <2>6. \A k \in 1 .. Len(o) : o[k].marker = "SOS" => DOMAIN o[k].pieces = 1 .. Len(o[k].ids)
      BY <2>2 DEF Complete, Sound, Fits, ScanFits
    <2>7. Pieces = SentAmong(o, Len(o))
      BY <2>4, <2>5, <2>6 DEF SentAmong, SentBy
    <2>8. \E p \in SentAmong(o, Len(o)) : p.of = c
      <3>1. PICK k \in 1 .. Len(o) : Sends(o[k], c)
        BY <2>2 DEF Complete, ComponentSent
      <3>. QED
        BY <3>1 DEF Sends, SentAmong, SentBy
    <2>. QED
      BY <2>3, <2>7, <2>8
  <1>2. Inv /\ SoundInv => CoefficientsKeptByIds
    BY <1>1 DEF CoefficientsKeptByIds, CoefficientsKept
  <1>. QED
    BY <1>2, WrittenFilesAreSound, PTL

(* The variables have their types; a call that is past reading has seen a  *)
(* scan of a frame that has components.                                    *)
THEOREM TypeCorrect == Spec => []TypeOK
  <1>1. ASSUME Inv, MoreTypes, SoundInv
        PROVE  TypeOK
    <2>1. /\ trip \in 0 .. MaxTrips /\ progressive \in BOOLEAN /\ merged \in BOOLEAN
          /\ place \in {"first", "second", "later"}
          /\ has_multiple_scans \in BOOLEAN /\ warned \in BOOLEAN
          /\ inheaders = (input_scan_number = 0) /\ jpeg_color_space \in Spaces
          /\ DOMAIN coef = DOMAIN comp_info /\ DOMAIN coef_bits = DOMAIN comp_info
          /\ bogus \in BOOLEAN
      BY <1>1 DEF MoreTypes, CallTypes, LeadingTypes, ScanTypes
    <2>2. /\ inheaders \in BOOLEAN /\ saw_JFIF_marker \in BOOLEAN /\ saw_Adobe_marker \in BOOLEAN
          /\ quant_tbl_ptrs \in [Slots -> Tables \cup {None}] /\ comp_info \in Seq(Component)
          /\ quant_table \in [DOMAIN comp_info -> Tables \cup {None}]
          /\ state \in {"reading", "read", "copied", "started", "framing", "scanning", "written", "error"}
      BY <1>1 DEF Inv, Types, States
    <2>3. ~inheaders => saw_SOF /\ comp_info # <<>>
      BY <1>1, <2>2 DEF Inv, Guessed, SoundInv, WriterInv, SoundSoFar
    <2>4. state \notin {"reading", "error"} => ~inheaders
      BY <1>1, <2>2 DEF Inv, Finished
    <2>5. Len(leading) <= 1
      <3>1. CASE leading = <<>>
        BY <3>1
      <3>2. CASE \E e : leading = <<e>>
        BY <3>2
      <3>. QED
        BY <1>1, <3>1, <3>2 DEF MoreTypes, LeadingTypes
    <2>. QED
      BY <2>1, <2>2, <2>3, <2>4, <2>5, Zenon DEF TypeOK
  <1>. QED
    BY <1>1, WrittenFilesAreSound, PTL

-----------------------------------------------------------------------------
(* A reader of the file finds that each scan carries on: coef_bits are at  *)
(* every segment what the script has led to.                               *)

Senders(e) == {e.pieces[i].of : i \in 1 .. Len(e.ids)}

(* What segment e makes of coef_bits x.                                    *)
Tracked(e, x, y) ==
    IF e.marker = "SOS" THEN Continues(x, Senders(e), e) /\ y = After(x, Senders(e), e) ELSE y = x

(* f is what they are behind each segment of the file.                     *)
Tracks(o, n, f) ==
    /\ f[0] = Unsent(n)
    /\ \A m \in 1 .. Len(o) : Tracked(o[m], f[m - 1], f[m])

Reaches(o, n, x) == \E f : Tracks(o, n, f) /\ x = f[Len(o)]

WriterTracks ==
    state \in Writing /\ progressive =>
        \E x : /\ Reaches(output, Len(comp_info), x)
               /\ state \in {"started", "framing"} => x = Unsent(Len(comp_info))
               /\ state = "scanning" =>
                     \E g : g[0] = Unsent(Len(comp_info)) /\ Runs(ImageScript, g) /\ x = g[next - 1]

ReaderTracks ==
    Rereading /\ source.progressive =>
        \E f : /\ Tracks(source.output, Len(source.comp_info), f)
               /\ state = "reading" /\ Distinct(source.comp_info) =>
                     /\ inheaders => f[Behind] = Unsent(Len(source.comp_info))
                     /\ saw_SOF => coef_bits = f[Behind]

NotBogus == trip > 0 /\ bogus => source.progressive /\ ~Distinct(source.comp_info)

TracksInv == WriterTracks /\ ReaderTracks /\ NotBogus

(* One segment more at the end of the file,                                *)
LEMMA TracksOn ==
    ASSUME NEW o, NEW e, NEW n, NEW x, NEW y, IsSequence(o), Reaches(o, n, x), Tracked(e, x, y)
    PROVE  Reaches(Append(o, e), n, y)
  <1>. PICK f : Tracks(o, n, f) /\ x = f[Len(o)]
    BY DEF Reaches
  <1> DEFINE a == Append(o, e)
             l == Len(o)
             g == [m \in 0 .. l + 1 |-> IF m <= l THEN f[m] ELSE y]
  <1>1. l \in Nat /\ Len(a) = l + 1 /\ (\A k \in 1 .. l : a[k] = o[k]) /\ a[l + 1] = e
    BY Appended
  <1>2. f[0] = Unsent(n) /\ \A m \in 1 .. l : Tracked(o[m], f[m - 1], f[m])
    BY DEF Tracks
  <1>. HIDE DEF a
  <1>3. /\ g[0] = f[0] /\ g[l + 1] = y /\ g[(l + 1) - 1] = f[l]
        /\ \A m \in 1 .. l : g[m] = f[m] /\ g[m - 1] = f[m - 1]
    <2>. HIDE DEF l
    <2>1. /\ 0 \in 0 .. l + 1 /\ 0 <= l /\ l + 1 \in 0 .. l + 1 /\ ~(l + 1 <= l)
          /\ (l + 1) - 1 = l /\ l \in 0 .. l + 1 /\ l <= l
          /\ \A m \in 1 .. l : m \in 0 .. l + 1 /\ m - 1 \in 0 .. l + 1 /\ m <= l /\ m - 1 <= l
      BY <1>1
    <2>. QED
      BY <2>1
  <1>4. \A m \in 1 .. l + 1 : m \in 1 .. l \/ m = l + 1
    BY <1>1
  <1>5. Tracked(e, f[l], y)
    OBVIOUS
  <1>. HIDE DEF g, l
  <1>6. \A m \in 1 .. l + 1 : Tracked(a[m], g[m - 1], g[m])
    <2>. TAKE m \in 1 .. l + 1
    <2>1. CASE m \in 1 .. l
      BY <1>1, <1>2, <1>3, <2>1
    <2>2. CASE m = l + 1
      BY <1>1, <1>3, <1>5, <2>2
    <2>. QED
      BY <1>4, <2>1, <2>2
  <1>7. Tracks(a, n, g)
    BY <1>1, <1>2, <1>3, <1>6 DEF Tracks
  <1>. QED
    BY <1>1, <1>3, <1>7 DEF a, Reaches

(* or behind the first.                                                    *)
LEMMA TracksWithExif ==
    ASSUME NEW o, NEW e, NEW n, NEW f, Tracks(o, n, f), IsSequence(o), o # <<>>, e.marker = "APP1"
    PROVE  \E g : Tracks(<<o[1], e>> \o Tail(o), n, g)
  <1> DEFINE a == <<o[1], e>> \o Tail(o)
             l == Len(o)
             g == [m \in 0 .. l + 1 |-> IF m <= 1 THEN f[m] ELSE f[m - 1]]
  <1>1. /\ Len(a) = l + 1 /\ a[1] = o[1] /\ a[2] = e
        /\ \A k \in 2 .. l : a[k + 1] = o[k]
    BY PutInFront
  <1>2. l \in Nat \ {0}
    <2>1. PICK S : o \in Seq(S)
      BY DEF IsSequence
    <2>. QED
      BY <2>1
  <1>3. f[0] = Unsent(n) /\ \A m \in 1 .. l : Tracked(o[m], f[m - 1], f[m])
    BY DEF Tracks
  <1>. HIDE DEF a, l
  <1>4. g[0] = f[0] /\ g[1] = f[1] /\ \A m \in 2 .. l + 1 : g[m] = f[m - 1]
    BY <1>2
  <1>. HIDE DEF g
  <1>5. \A m \in 1 .. l + 1 : Tracked(a[m], g[m - 1], g[m])
    <2>. TAKE m \in 1 .. l + 1
    <2>1. CASE m = 1
      <3>1. 1 \in 1 .. l /\ 1 - 1 = 0
        BY <1>2
      <3>. QED
        BY <1>1, <1>3, <1>4, <2>1, <3>1
    <2>2. CASE m = 2
      <3>1. 2 \in 2 .. l + 1 /\ 2 - 1 = 1
        BY <1>2
      <3>2. g[2] = f[1]
        BY <1>4, <3>1
      <3>. QED
        BY <1>1, <1>4, <2>2, <3>1, <3>2 DEF Tracked
    <2>3. CASE m # 1 /\ m # 2
      <3>1. /\ m - 1 \in 2 .. l /\ (m - 1) + 1 = m /\ m - 1 \in 1 .. l
            /\ m - 1 \in 2 .. l + 1 /\ m \in 2 .. l + 1
        BY <1>2, <2>3
      <3>2. a[m] = o[m - 1] /\ g[m] = f[m - 1] /\ g[m - 1] = f[(m - 1) - 1]
        BY <1>1, <1>4, <3>1
      <3>. QED
        BY <1>3, <3>1, <3>2
    <2>. QED
      BY <2>1, <2>2, <2>3
  <1>6. Tracks(a, n, g)
    BY <1>1, <1>3, <1>4, <1>5 DEF Tracks
  <1>. QED
    BY <1>6 DEF a

(* What a reader knows of its file stays,                                  *)
LEMMA ReaderTracksOn ==
    ASSUME ReaderTracks, NotBogus, UNCHANGED <<trip, source, bogus>>, state # "error", state' # "reading"
    PROVE  ReaderTracks' /\ NotBogus'
  <1>1. ASSUME Rereading', source'.progressive
        PROVE  \E f : Tracks(source'.output, Len(source'.comp_info), f)
    BY <1>1 DEF ReaderTracks, Rereading
  <1>. QED
    BY <1>1 DEF ReaderTracks, NotBogus

(* and nothing is said of a writer that does not write.                    *)
LEMMA NothingWritten ==
    ASSUME state' \notin Writing
    PROVE  WriterTracks'
  BY DEF WriterTracks

(* The file begins without a scan,                                         *)
LEMMA HeaderTracks ==
    ASSUME Inv, TracksInv, WriteCoefficients
    PROVE  TracksInv'
  <1>1. /\ state = "copied" /\ state' = "started"
        /\ UNCHANGED <<trip, source, comp_info, bogus>>
        /\ output' = IF write_JFIF_header THEN <<SOI, JFIF>>
                     ELSE IF write_Adobe_marker THEN <<SOI, AdobeOf(jpeg_color_space)>>
                     ELSE <<SOI>>
    BY DEF WriteCoefficients, reader, frame, scans
  <1>2. IsSequence(<<SOI>>) /\ Len(<<SOI>>) = 1 /\ <<SOI>>[1] = SOI
        /\ \A e : Append(<<SOI>>, e) = <<SOI, e>>
    BY JustSOI DEF Sound
  <1>3. /\ SOI.marker # "SOS" /\ JFIF.marker # "SOS" /\ \A space : AdobeOf(space).marker # "SOS"
    BY DEF SOI, JFIF, AdobeOf
  <1> DEFINE n == Len(comp_info)
             f == [m \in 0 .. 1 |-> Unsent(n)]
  <1>4. f[0] = Unsent(n) /\ f[1] = Unsent(n)
    OBVIOUS
  <1>. HIDE DEF n, f
  <1>5. Reaches(<<SOI>>, n, Unsent(n))
    <2>1. \A m \in 1 .. Len(<<SOI>>) : m = 1 /\ m - 1 = 0
      BY <1>2
    <2>. QED
      <3>1. Tracks(<<SOI>>, n, f) /\ Unsent(n) = f[Len(<<SOI>>)]
        BY <1>2, <1>3, <1>4, <2>1 DEF Tracks, Tracked
      <3>. QED
        BY <3>1 DEF Reaches
  <1>6. ASSUME NEW e, e.marker # "SOS"
        PROVE  Reaches(<<SOI, e>>, n, Unsent(n))
    <2>1. Tracked(e, Unsent(n), Unsent(n))
      BY <1>6 DEF Tracked
    <2>2. Reaches(Append(<<SOI>>, e), n, Unsent(n))
      BY <1>2, <1>5, <2>1, TracksOn
    <2>. QED
      BY <1>2, <2>2
  <1>. HIDE DEF SOI, JFIF, AdobeOf, write_JFIF_header, write_Adobe_marker
  <1>7. Reaches(output', n, Unsent(n))
    <2>1. output' \in {<<SOI>>, <<SOI, JFIF>>, <<SOI, AdobeOf(jpeg_color_space)>>}
      BY <1>1
    <2>. QED
      BY <1>3, <1>5, <1>6, <2>1
  <1>8. WriterTracks'
    BY <1>1, <1>7 DEF WriterTracks, n
  <1>. QED
    BY <1>1, <1>8, ReaderTracksOn DEF TracksInv

(* and goes on without one until the frame is there.                       *)
LEMMA BeforeScansTracks ==
    ASSUME Inv, WriterInv, TracksInv, CopyMarker \/ FinishCompress \/ EmitDQT
    PROVE  TracksInv'
  <1>1. /\ UNCHANGED <<trip, source, comp_info, bogus, progressive>>
        /\ state \in {"started", "framing"} /\ state' \in {"started", "framing", "error"}
    BY DEF CopyMarker, FinishCompress, EmitDQT, reader, frame, scans
  <1>2. UNCHANGED output \/ \E e : e.marker # "SOS" /\ output' = Append(output, e)
    <2>1. CASE CopyMarker
      <3> DEFINE e == marker_list[next]
      <3>1. /\ next <= Len(marker_list) /\ output' = IF Own(e) THEN output ELSE Append(output, e)
        BY <2>1 DEF CopyMarker
      <3>2. next \in 1 .. Len(marker_list) /\ e \in Kept
        BY <3>1 DEF Inv, Types
      <3>3. e.marker # "SOS"
        BY <3>2, SegmentsAssumption DEF Kept, JFIF, AdobeOf, AppMarkers
      <3>. HIDE DEF e
      <3>. QED
        BY <3>1, <3>3
    <2>2. CASE FinishCompress
      BY <2>2 DEF FinishCompress
    <2>3. CASE EmitDQT
      <3>1. output' = IF FirstUse(next) THEN Append(output, DQT(next)) ELSE output
        BY <2>3 DEF EmitDQT
      <3>2. DQT(next).marker # "SOS"
        BY DEF DQT
      <3>. QED
        BY <3>1, <3>2
    <2>. QED
      BY <2>1, <2>2, <2>3
  <1>3. IsSequence(output)
    BY <1>1 DEF WriterInv, SoundSoFar, Writing, Sound
  <1>4. WriterTracks'
    <2>. SUFFICES ASSUME progressive
                  PROVE  Reaches(output', Len(comp_info), Unsent(Len(comp_info)))
      BY <1>1 DEF WriterTracks, Writing
    <2>1. Reaches(output, Len(comp_info), Unsent(Len(comp_info)))
      BY <1>1 DEF TracksInv, WriterTracks, Writing
    <2>2. CASE UNCHANGED output
      BY <2>1, <2>2
    <2>3. ASSUME NEW e, e.marker # "SOS", output' = Append(output, e)
          PROVE  Reaches(output', Len(comp_info), Unsent(Len(comp_info)))
      <3>1. Tracked(e, Unsent(Len(comp_info)), Unsent(Len(comp_info)))
        BY <2>3 DEF Tracked
      <3>2. Reaches(Append(output, e), Len(comp_info), Unsent(Len(comp_info)))
        BY <1>3, <2>1, <3>1, TracksOn
      <3>. QED
        BY <2>3, <3>2
    <2>. QED
      BY <1>2, <2>2, <2>3
  <1>. QED
    BY <1>1, <1>4, ReaderTracksOn DEF TracksInv

(* Behind the frame the script begins,                                     *)
LEMMA SOFTracks ==
    ASSUME Inv, WriterInv, TracksInv, EmitSOF
    PROVE  TracksInv'
  <1>1. /\ UNCHANGED <<trip, source, comp_info, bogus, progressive, jpeg_color_space, inheaders>>
        /\ state = "framing" /\ state' = "scanning" /\ next' = 1 /\ output' = Append(output, SOF)
    BY DEF EmitSOF, reader, frame, scans
  <1>2. ImageScript' = ImageScript /\ next' - 1 = 0
    BY <1>1 DEF ImageScript
  <1>3. IsSequence(output) /\ ~inheaders /\ Len(comp_info) > 0
    BY <1>1 DEF WriterInv, SoundSoFar, Writing, Sound, Inv, Finished
  <1>4. WriterTracks'
    <2>. SUFFICES ASSUME progressive
                  PROVE  \E x : /\ Reaches(output', Len(comp_info), x)
                                /\ \E g : g[0] = Unsent(Len(comp_info)) /\ Runs(ImageScript, g)
                                             /\ x = g[0]
      BY <1>1, <1>2 DEF WriterTracks
    <2>1. Reaches(output, Len(comp_info), Unsent(Len(comp_info)))
      BY <1>1 DEF TracksInv, WriterTracks, Writing
    <2>2. Tracked(SOF, Unsent(Len(comp_info)), Unsent(Len(comp_info)))
      BY DEF Tracked, SOF
    <2>3. Reaches(output', Len(comp_info), Unsent(Len(comp_info)))
      <3>1. Reaches(Append(output, SOF), Len(comp_info), Unsent(Len(comp_info)))
        BY <1>3, <2>1, <2>2, TracksOn
      <3>. QED
        BY <1>1, <3>1
    <2>4. \E g : g[0] = Unsent(Len(comp_info)) /\ Runs(ImageScript, g)
      <3>1. Len(comp_info) \in Nat /\ SpaceFits(jpeg_color_space, Len(comp_info)) /\ Types
        BY <1>3 DEF Inv, Types, Guessed
      <3>2. jpeg_color_space = "YCbCr" => Len(comp_info) = 3
        BY <3>1 DEF SpaceFits
      <3>. QED
        BY <1>3, <3>1, <3>2, ImageScriptRuns
    <2>. QED
      BY <2>3, <2>4
  <1>. QED
    BY <1>1, <1>4, ReaderTracksOn DEF TracksInv

(* each scan is the next of it,                                            *)
LEMMA ScanTracks ==
    ASSUME Inv, WriterInv, TracksInv, EmitScan
    PROVE  TracksInv'
  <1> DEFINE e == SOSOf(next)
             scan == ImageScript[next]
  <1>1. /\ UNCHANGED <<trip, source, comp_info, bogus, progressive, jpeg_color_space, inheaders>>
        /\ state = "scanning" /\ state' = "scanning" /\ next <= Len(ImageScript) /\ next' = next + 1
        /\ output' = Append(output, e)
    BY DEF EmitScan, reader, frame, scans
  <1>2. IsSequence(output) /\ ~inheaders /\ Len(comp_info) > 0
    BY <1>1 DEF WriterInv, SoundSoFar, Writing, Sound, Inv, Finished
  <1>3. next \in Nat /\ Len(ImageScript) \in Nat /\ next \in 1 .. Len(ImageScript)
    BY <1>1, <1>2, ScriptFacts DEF Inv, Types
  <1>4. ImageScript' = ImageScript /\ next' - 1 = next
    <2>1. ImageScript' = ImageScript
      BY <1>1 DEF ImageScript
    <2>. QED
      BY <1>1, <1>3, <2>1
  <1>5. /\ e.marker = "SOS" /\ Senders(e) = Places(scan)
        /\ Script!Band(e) = Script!Band(scan) /\ e.Ss = scan.Ss /\ e.Ah = scan.Ah /\ e.Al = scan.Al
    BY <1>2, <1>3, ScanIsFit, ScanIsValid DEF Senders
  <1>. HIDE DEF e, scan
  <1>6. WriterTracks'
    <2>. SUFFICES ASSUME progressive
                  PROVE  \E y : /\ Reaches(output', Len(comp_info), y)
                                /\ \E g : g[0] = Unsent(Len(comp_info)) /\ Runs(ImageScript, g)
                                             /\ y = g[next]
      BY <1>1, <1>4 DEF WriterTracks
    <2>1. PICK x : /\ Reaches(output, Len(comp_info), x)
                   /\ \E g : g[0] = Unsent(Len(comp_info)) /\ Runs(ImageScript, g)
                                /\ x = g[next - 1]
      BY <1>1 DEF TracksInv, WriterTracks, Writing
    <2>2. PICK g : /\ g[0] = Unsent(Len(comp_info)) /\ Runs(ImageScript, g)
                   /\ x = g[next - 1]
      BY <2>1
    <2>3. /\ Continues(g[next - 1], Places(scan), scan)
          /\ g[next] = After(g[next - 1], Places(scan), scan)
      BY <1>3, <2>2 DEF Runs, scan
    <2> DEFINE y == g[next]
    <2>4. Tracked(e, x, y)
      <3>1. Continues(x, Senders(e), e)
        BY <1>5, <2>2, <2>3 DEF Continues
      <3>2. After(x, Senders(e), e) = After(x, Places(scan), scan)
        BY <1>5 DEF After
      <3>3. y = After(x, Senders(e), e)
        BY <2>2, <2>3, <3>2
      <3>. HIDE DEF y
      <3>. QED
        BY <1>5, <3>1, <3>3 DEF Tracked
    <2>. HIDE DEF y
    <2>5. Reaches(output', Len(comp_info), y)
      <3>1. Reaches(Append(output, e), Len(comp_info), y)
        BY <1>2, <2>1, <2>4, TracksOn
      <3>. QED
        BY <1>1, <3>1
    <2>. USE DEF y
    <2>. QED
      BY <2>2, <2>5
  <1>. QED
    BY <1>1, <1>6, ReaderTracksOn DEF TracksInv

(* and the file is ended, or its EXIF put in front.                        *)
LEMMA EndTracks ==
    ASSUME Inv, WriterInv, TracksInv, EmitEOI \/ Merge
    PROVE  TracksInv'
  <1>1. /\ UNCHANGED <<trip, source, comp_info, bogus, progressive>>
        /\ state \in {"scanning", "written"} /\ state' = "written"
        /\ \/ output' = Append(output, [marker |-> "EOI"])
           \/ output' = <<output[1], leading[1]>> \o Tail(output) /\ leading # <<>>
    BY DEF EmitEOI, Merge, reader, frame, scans
  <1>2. IsSequence(output) /\ output # <<>>
    BY <1>1 DEF WriterInv, SoundSoFar, Writing, Sound
  <1>3. WriterTracks'
    <2>. SUFFICES ASSUME progressive
                  PROVE  \E x : Reaches(output', Len(comp_info), x)
      BY <1>1 DEF WriterTracks
    <2>1. PICK x : Reaches(output, Len(comp_info), x)
      BY <1>1 DEF TracksInv, WriterTracks, Writing
    <2>2. CASE output' = Append(output, [marker |-> "EOI"])
      <3> DEFINE e == [marker |-> "EOI"]
      <3>1. e.marker # "SOS"
        OBVIOUS
      <3>. HIDE DEF e
      <3>2. Tracked(e, x, x)
        BY <3>1 DEF Tracked
      <3>3. Reaches(Append(output, e), Len(comp_info), x)
        BY <1>2, <2>1, <3>2, TracksOn
      <3>. QED
        BY <2>2, <3>3 DEF e
    <2>3. CASE output' = <<output[1], leading[1]>> \o Tail(output) /\ leading # <<>>
      <3>1. leading[1].marker = "APP1"
        BY <2>3 DEF Inv, Types
      <3> DEFINE a == <<output[1], leading[1]>> \o Tail(output)
      <3>2. PICK f : Tracks(output, Len(comp_info), f)
        BY <2>1 DEF Reaches
      <3>3. PICK g : Tracks(a, Len(comp_info), g)
        BY <1>2, <3>1, <3>2, TracksWithExif
      <3>. HIDE DEF a
      <3>4. Reaches(a, Len(comp_info), g[Len(a)])
        BY <3>3 DEF Reaches
      <3>. QED
        BY <2>3, <3>4 DEF a
    <2>. QED
      BY <1>1, <2>2, <2>3
  <1>. QED
    BY <1>1, <1>3, ReaderTracksOn DEF TracksInv

(* The next reader begins where the file does.                             *)
LEMMA AgainTracks ==
    ASSUME Inv, SoundInv, TracksInv, Again
    PROVE  TracksInv'
  <1>1. /\ state = "written" /\ input' = output /\ source' = ThisCall /\ state' = "reading"
        /\ saw_SOF' = FALSE /\ inheaders' = TRUE /\ bogus' = FALSE
    BY DEF Again
  <1>2. /\ source'.output = output /\ source'.comp_info = comp_info
        /\ source'.progressive = progressive
    BY <1>1 DEF ThisCall
  <1>3. Behind' = 0
    <2>1. Len(output) \in Nat
      BY <1>1 DEF SoundInv, WriterInv, CompleteAtLast, Complete, Sound, IsSequence
    <2>. QED
      BY <1>1, <1>2, <2>1 DEF Behind
  <1>4. ReaderTracks'
    <2>. SUFFICES ASSUME progressive
                  PROVE  \E f : /\ Tracks(output, Len(comp_info), f)
                                /\ f[0] = Unsent(Len(comp_info))
      BY <1>1, <1>2, <1>3 DEF ReaderTracks
    <2>1. PICK f : Tracks(output, Len(comp_info), f)
      BY <1>1 DEF TracksInv, WriterTracks, Writing, Reaches
    <2>. QED
      BY <2>1 DEF Tracks
  <1>5. WriterTracks' /\ NotBogus'
    BY <1>1 DEF WriterTracks, Writing, NotBogus
  <1>. QED
    BY <1>4, <1>5 DEF TracksInv

(* The first reader is told nothing.                                       *)
LEMMA FirstTracks ==
    ASSUME trip = 0, UNCHANGED trip, state' \notin Writing
    PROVE  TracksInv'
  BY DEF TracksInv, WriterTracks, ReaderTracks, NotBogus, Rereading

(* A segment that is not a scan changes nothing of them but that the frame *)
(* gives each component its own.                                           *)
LEMMA SegmentTracks ==
    ASSUME Inv, SoundInv, TracksInv, trip > 0, NEW seg \in Ahead, Take(seg), seg.marker # "SOS",
           UNCHANGED <<inheaders, bogus>>, state' \notin Writing,
           \/ UNCHANGED <<saw_SOF, coef_bits>>
           \/ inheaders /\ coef_bits' = Unsent(Len(source.comp_info))
    PROVE  TracksInv'
  <1> DEFINE o == source.output
             b == Behind
             n == Len(source.comp_info)
  <1>1. /\ state = "reading" /\ source' = source /\ trip' = trip /\ Behind' = b + 1
        /\ b \in Nat /\ b + 1 \in 1 .. Len(o) /\ (b + 1) - 1 = b /\ seg = o[b + 1]
    BY NextSegment DEF SoundInv
  <1>2. ReaderTracks'
    <2>. SUFFICES ASSUME source.progressive
                  PROVE  \E f : /\ Tracks(o, n, f)
                                /\ state' = "reading" /\ Distinct(source.comp_info) =>
                                      /\ inheaders => f[b + 1] = Unsent(n)
                                      /\ saw_SOF' => coef_bits' = f[b + 1]
      BY <1>1 DEF ReaderTracks
    <2>1. PICK f : /\ Tracks(o, n, f)
                   /\ Distinct(source.comp_info) =>
                         /\ inheaders => f[b] = Unsent(n)
                         /\ saw_SOF => coef_bits = f[b]
      BY <1>1 DEF TracksInv, ReaderTracks, Rereading
    <2>. HIDE DEF o, b, n
    <2>2. f[b + 1] = f[b]
      BY <1>1, <2>1 DEF Tracks, Tracked
    <2>. QED
      BY <2>1, <2>2 DEF n
  <1>3. WriterTracks' /\ NotBogus'
    BY <1>1 DEF WriterTracks, TracksInv, NotBogus
  <1>. QED
    BY <1>2, <1>3 DEF TracksInv

(* A scan: the reader finds of it what the writer had made sure of.        *)
LEMMA ScanReadTracks ==
    ASSUME Inv, MoreTypes, SoundInv, TracksInv, trip > 0, NEW seg \in Ahead, GetSOS(seg),
           ScanStarts(seg)
    PROVE  TracksInv'
  <1> DEFINE o == source.output
             b == Behind
             n == Len(source.comp_info)
             selected == {InScan(seg.ids, i) : i \in DOMAIN seg.ids}
  <1>0. Take(seg) /\ seg.marker = "SOS"
    BY DEF GetSOS
  <1>1. /\ state = "reading" /\ source' = source /\ trip' = trip /\ Behind' = b + 1
        /\ b \in Nat /\ b + 1 \in 1 .. Len(o) /\ (b + 1) - 1 = b /\ seg = o[b + 1]
        /\ Fits(seg, source.comp_info, source.marker_list, source.progressive)
    BY <1>0, NextSegment DEF SoundInv
  <1>2. saw_SOF /\ comp_info = source.comp_info /\ ScanFits(seg, comp_info)
    BY <1>0, ScanFacts
  <1>3. progressive_mode = source.progressive
    BY <1>1, <1>2 DEF SoundInv, ReaderInv, FrameRead, Rereading
  <1>4. /\ inheaders' = FALSE /\ UNCHANGED <<state, saw_SOF>>
        /\ coef_bits' = [c \in DOMAIN comp_info |-> [k \in Coefficients |->
              IF progressive_mode /\ c \in selected /\ k \in Script!Band(seg)
              THEN seg.Al ELSE coef_bits[c][k]]]
        /\ bogus' = (bogus \/ (trip > 0 /\ ~InOrder(seg, selected)))
    <2>1. /\ inheaders' = FALSE /\ UNCHANGED <<state, frame>>
          /\ coef_bits' = [c \in DOMAIN comp_info |-> [k \in Coefficients |->
                IF progressive_mode /\ c \in selected /\ k \in Script!Band(seg)
                THEN seg.Al ELSE coef_bits[c][k]]]
          /\ bogus' = (bogus \/ (trip > 0 /\ ~InOrder(seg, selected)))
      BY Zenon DEF GetSOS
    <2>. QED
      BY <2>1 DEF frame
  <1>5. DOMAIN coef_bits = DOMAIN comp_info
    BY DEF MoreTypes, ScanTypes
  <1>6. WriterTracks'
    BY <1>1, <1>4 DEF WriterTracks, Writing
  <1>7. CASE ~source.progressive
    <2>1. InOrder(seg, selected)
      BY <1>0, <1>1, <1>3, <1>7 DEF Fits, InOrder
    <2>. HIDE DEF selected
    <2>2. NotBogus'
      BY <1>1, <1>4, <2>1 DEF TracksInv, NotBogus
    <2>3. ReaderTracks'
      BY <1>1, <1>7 DEF ReaderTracks
    <2>. QED
      BY <1>6, <2>2, <2>3 DEF TracksInv
  <1>8. CASE source.progressive /\ ~Distinct(source.comp_info)
    <2>1. NotBogus'
      BY <1>1, <1>8 DEF NotBogus
    <2>2. \E f : Tracks(o, n, f)
      BY <1>1, <1>8 DEF TracksInv, ReaderTracks, Rereading
    <2>3. ReaderTracks'
      BY <1>1, <1>8, <2>2 DEF ReaderTracks
    <2>. QED
      BY <1>6, <2>1, <2>3 DEF TracksInv
  <1>9. CASE source.progressive /\ Distinct(source.comp_info)
    <2>1. selected = Senders(seg)
      <3>1. ScanFound(seg.ids) /\ DistinctIds
        BY <1>2, <1>9 DEF ScanStarts, DistinctIds
      <3>2. \A i \in DOMAIN seg.ids : InScan(seg.ids, i) = seg.pieces[i].of
        BY <1>2, <3>1, InScanIsSender
      <3>3. DOMAIN seg.ids = 1 .. Len(seg.ids)
        BY <1>2 DEF ScanFits
      <3>. QED
        BY <3>2, <3>3 DEF Senders
    <2>. HIDE DEF selected
    <2>2. PICK f : Tracks(o, n, f) /\ coef_bits = f[b]
      BY <1>1, <1>2, <1>9 DEF TracksInv, ReaderTracks, Rereading
    <2>3. Continues(coef_bits, Senders(seg), seg) /\ f[b + 1] = After(coef_bits, Senders(seg), seg)
      <3>. HIDE DEF o, b, n
      <3>. QED
        BY <1>0, <1>1, <2>2 DEF Tracks, Tracked
    <2>4. InOrder(seg, selected)
      BY <1>3, <1>9, <2>1, <2>3 DEF InOrder, CarriesOn, Continues
    <2>5. coef_bits' = f[b + 1]
      BY <1>3, <1>4, <1>5, <1>9, <2>1, <2>3 DEF After
    <2>6. NotBogus'
      BY <1>1, <1>4, <2>4 DEF TracksInv, NotBogus
    <2>7. ReaderTracks'
      <3>1. /\ Tracks(source'.output, Len(source'.comp_info), f)
            /\ coef_bits' = f[Behind'] /\ ~inheaders'
        BY <1>1, <1>4, <2>2, <2>5
      <3>. QED
        BY <3>1 DEF ReaderTracks
    <2>. QED
      BY <1>6, <2>6, <2>7 DEF TracksInv
  <1>. QED
    BY <1>7, <1>8, <1>9

(* Reading, segment by segment,                                            *)
LEMMA ReadingTracks ==
    ASSUME Inv, MoreTypes, SoundInv, TracksInv, NEW seg \in Ahead,
           \/ GetSOI(seg) \/ GetSOF(seg) \/ GetDQT(seg) \/ GetTables(seg) \/ SaveMarker(seg)
           \/ SkipOrRefuse(seg) \/ GetSOS(seg) \/ GetEOI(seg)
    PROVE  TracksInv'
  <1>0. Take(seg) /\ state = "reading"
    BY AheadFacts DEF GetSOI, GetSOF, GetDQT, GetTables, SaveMarker, SkipOrRefuse, GetSOS, GetEOI, Inv
  <1>1. UNCHANGED trip /\ state' \in {"reading", "read", "error"}
    <2>1. UNCHANGED trip
      BY <1>0 DEF Take, call
    <2>2. CASE GetSOS(seg)
      <3>1. ScanStarts(seg) => UNCHANGED state
        BY <2>2, Zenon DEF GetSOS
      <3>2. ~ScanStarts(seg) => state' = "error"
        BY <2>2, Zenon DEF GetSOS, Fails
      <3>. QED
        BY <1>0, <2>1, <3>1, <3>2
    <2>3. CASE ~GetSOS(seg)
      <3>1. CASE GetSOI(seg) \/ GetSOF(seg) \/ GetDQT(seg) \/ GetTables(seg)
        BY <1>0, <2>1, <3>1 DEF GetSOI, GetSOF, GetDQT, GetTables, Fails
      <3>2. CASE SaveMarker(seg) \/ SkipOrRefuse(seg)
        BY <1>0, <2>1, <3>2 DEF SaveMarker, SkipOrRefuse, Fails, reader
      <3>3. CASE GetEOI(seg)
        BY <1>0, <2>1, <3>3 DEF GetEOI, Fails
      <3>. QED
        BY <2>3, <3>1, <3>2, <3>3
    <2>. QED
      BY <2>1, <2>2, <2>3
  <1>2. state' \notin Writing
    BY <1>1 DEF Writing
  <1>3. CASE trip = 0
    BY <1>1, <1>2, <1>3, FirstTracks
  <1>4. ASSUME trip > 0, seg.marker # "SOS", UNCHANGED <<saw_SOF, coef_bits, inheaders, bogus>>
        PROVE  TracksInv'
    BY <1>0, <1>2, <1>4, SegmentTracks
  <1>5. CASE trip > 0 /\ GetSOS(seg)
    <2>1. CASE ScanStarts(seg)
      BY <1>5, <2>1, ScanReadTracks
    <2>2. CASE ~ScanStarts(seg)
      <3>1. state' = "error" /\ UNCHANGED <<bogus, source, trip>>
        BY <1>5, <2>2 DEF GetSOS, Fails, reader, scans, Take, call
      <3>. QED
        BY <3>1 DEF TracksInv, WriterTracks, ReaderTracks, NotBogus, Rereading, Writing
    <2>. QED
      BY <2>1, <2>2
  <1>6. CASE trip > 0 /\ GetSOF(seg)
    <2>1. CASE saw_SOF
      <3>1. seg.marker # "SOS" /\ UNCHANGED <<saw_SOF, coef_bits, inheaders, bogus>>
        BY <1>6, <2>1 DEF GetSOF, Fails, reader, frame, scans
      <3>. QED
        BY <1>4, <1>6, <3>1
    <2>2. CASE ~saw_SOF
      <3>1. /\ seg.marker = "SOF" /\ UNCHANGED <<inheaders, bogus>>
            /\ coef_bits' = [c \in DOMAIN seg.components |-> [k \in Coefficients |-> -1]]
        BY <1>6, <2>2 DEF GetSOF
      <3>2. seg.components = source.comp_info /\ DOMAIN seg.components = 1 .. Len(source.comp_info)
        BY <1>6, <3>1, AheadFacts DEF Inv, SourceWritten, Agrees
      <3>3. inheaders
        BY <2>2 DEF Inv, Guessed, Types
      <3>4. coef_bits' = Unsent(Len(source.comp_info))
        BY <3>1, <3>2 DEF Unsent
      <3>. QED
        BY <1>0, <1>2, <1>6, <3>1, <3>3, <3>4, SegmentTracks
    <2>. QED
      BY <2>1, <2>2
  <1>7. CASE trip > 0 /\ (GetSOI(seg) \/ GetDQT(seg) \/ GetTables(seg) \/ SaveMarker(seg))
    <2>1. UNCHANGED <<saw_SOF, coef_bits, inheaders, bogus>>
      BY <1>7 DEF GetSOI, GetDQT, GetTables, SaveMarker, Fails, reader, frame, scans
    <2>2. CASE seg.marker # "SOS"
      BY <1>4, <1>7, <2>1, <2>2
    <2>3. CASE seg.marker = "SOS"
      <3>1. GetSOI(seg) /\ state' = "error" /\ UNCHANGED <<source, trip>>
        BY <1>0, <1>7, <2>3 DEF GetSOI, GetDQT, GetTables, SaveMarker, AppMarkers, Fails, Take, call
      <3>. QED
        BY <2>1, <3>1 DEF TracksInv, WriterTracks, ReaderTracks, NotBogus, Rereading, Writing
    <2>. QED
      BY <2>2, <2>3
  <1>8. CASE trip > 0 /\ (SkipOrRefuse(seg) \/ GetEOI(seg))
    <2>1. seg.marker # "SOS" /\ UNCHANGED <<saw_SOF, coef_bits, inheaders, bogus>>
      BY <1>8 DEF SkipOrRefuse, GetEOI, Fails, reader, frame, scans
    <2>. QED
      BY <1>4, <1>8, <2>1
  <1>. QED
    BY <1>3, <1>5, <1>6, <1>7, <1>8 DEF Inv, Types

(* and every other step.                                                   *)
LEMMA TracksNext ==
    ASSUME Inv, MoreTypes, SoundInv, TracksInv, [Next]_vars
    PROVE  TracksInv'
  <1>0. WriterInv
    BY DEF SoundInv
  <1>1. CASE \E seg \in Ahead :
               \/ GetSOI(seg) \/ GetSOF(seg) \/ GetDQT(seg) \/ GetTables(seg) \/ SaveMarker(seg)
               \/ SkipOrRefuse(seg) \/ GetSOS(seg) \/ GetEOI(seg)
    BY <1>1, ReadingTracks
  <1>2. CASE EndOfFile \/ CopyCriticalParameters
    <2>1. /\ UNCHANGED <<trip, source, bogus>> /\ state # "error"
          /\ state' \in {"read", "copied", "error"}
      BY <1>2 DEF EndOfFile, CopyCriticalParameters, call, reader, scans
    <2>2. state' # "reading" /\ state' \notin Writing
      BY <2>1 DEF Writing
    <2>. QED
      BY <2>1, <2>2, ReaderTracksOn, NothingWritten DEF TracksInv
  <1>3. CASE WriteCoefficients
    BY <1>3, HeaderTracks
  <1>4. CASE CopyMarker \/ FinishCompress \/ EmitDQT
    BY <1>0, <1>4, BeforeScansTracks
  <1>5. CASE EmitSOF
    BY <1>0, <1>5, SOFTracks
  <1>6. CASE EmitScan
    BY <1>0, <1>6, ScanTracks
  <1>7. CASE EmitEOI \/ Merge
    BY <1>0, <1>7, EndTracks
  <1>8. CASE Again
    BY <1>8, AgainTracks
  <1>9. CASE UNCHANGED vars
    <2>1. UNCHANGED <<trip, state, source, input, bogus, saw_SOF, inheaders, coef_bits, comp_info,
                      output, next, progressive, jpeg_color_space>>
      BY <1>9 DEF vars, call, reader, frame, scans
    <2>2. UNCHANGED <<ImageScript, Behind>>
      <3>1. UNCHANGED ImageScript
        BY <2>1, Zenon DEF ImageScript
      <3>2. UNCHANGED Behind
        BY <2>1 DEF Behind
      <3>. QED
        BY <3>1, <3>2
    <2>3. WriterTracks'
      BY <2>1, <2>2 DEF TracksInv, WriterTracks
    <2>4. ReaderTracks' /\ NotBogus'
      BY <2>1, <2>2 DEF TracksInv, ReaderTracks, NotBogus, Rereading
    <2>. QED
      BY <2>3, <2>4 DEF TracksInv
  <1>. QED
    BY <1>1, <1>2, <1>3, <1>4, <1>5, <1>6, <1>7, <1>8, <1>9 DEF Next

(* Each scan of a written file carries on where those before it stopped,   *)
(* and its reader has coef_bits to show it, but where it takes one         *)
(* component for another.                                                  *)
THEOREM ScansCarryOn == Spec => []TracksInv
  <1>1. Init => TracksInv
    BY DEF Init, TracksInv, WriterTracks, ReaderTracks, NotBogus, Rereading, Writing
  <1>2. Inv /\ MoreTypes /\ SoundInv /\ TracksInv /\ [Next]_vars => TracksInv'
    BY TracksNext
  <1>. QED
    BY <1>1, <1>2, WrittenFilesAreSound, PTL DEF Spec

(* reencode() can read what it has written, up to get_sos's limit on the   *)
(* components of a frame: it warns of no scan that does not carry on, but  *)
(* where two components of a progressive file have one id, and of nothing  *)
(* else that had not been in the file before.                              *)
THEOREM OutputCanBeRead == Spec => []OutputIsSound
  <1>1. ASSUME Inv, SoundInv, TracksInv
        PROVE  OutputIsSound
    <2>1. trip > 0 => DOMAIN source.marker_list = 1 .. Len(source.marker_list)
      BY <1>1 DEF Inv, SourceWritten
    <2>2. trip > 0 /\ bogus => source.progressive /\ ~Distinct(source.comp_info)
      BY <1>1 DEF TracksInv, NotBogus
    <2>. QED
      BY <1>1, <2>1, <2>2 DEF SoundInv, ReaderInv, Unharmed, HasOddJFIF, OddJFIF, OutputIsSound
  <1>. QED
    BY <1>1, ScansCarryOn, WrittenFilesAreSound, PTL

-----------------------------------------------------------------------------
(* The segments the library does not write itself: they are copied in      *)
(* their order, and read in their order.                                   *)

OwnOf(space, m) ==
    \/ space \in {"GRAYSCALE", "YCbCr"} /\ IsJFIF(m)
    \/ space \in {"RGB", "CMYK", "YCCK"} /\ IsAdobe(m)

Alien(space, e) == e.marker \in AppMarkers /\ ~OwnOf(space, e)

(* Among the first n members of s.                                         *)
Aliens(space, s, n) == Picked(s, {k \in Nat : Alien(space, s[k])}, n)

MergedLast == merged => state = "written" /\ leading # <<>>

MarkersCopied ==
    /\ state = "started" =>
          /\ next <= Len(marker_list) + 1
          /\ Aliens(jpeg_color_space, output, Len(output))
                = Aliens(jpeg_color_space, marker_list, next - 1)
    /\ state \in {"framing", "scanning", "written"} =>
          Aliens(jpeg_color_space, output, Len(output))
             = (IF merged THEN leading ELSE <<>>)
                   \o Aliens(jpeg_color_space, marker_list, Len(marker_list))

SourceMarkers ==
    trip > 0 =>
        Aliens(source.space, source.output, Len(source.output))
           = source.leading \o Aliens(source.space, source.marker_list, Len(source.marker_list))

MarkersRead ==
    Rereading =>
        Aliens(source.space, marker_list, Len(marker_list)) = Aliens(source.space, source.output, Behind)

MarkerInv == MergedLast /\ MarkersCopied /\ SourceMarkers /\ MarkersRead

(* Own, with the colour space as an argument.                              *)
LEMMA OwnIsOwn == \A m : Own(m) <=> OwnOf(jpeg_color_space, m)
  BY DEF Own, OwnOf, write_JFIF_header, write_Adobe_marker

(* Saved segments are APPn and COM segments.                               *)
LEMMA KeptAreMarkers ==
    ASSUME Inv
    PROVE  /\ Len(marker_list) \in Nat
           /\ \A k \in 1 .. Len(marker_list) : marker_list[k].marker \in AppMarkers
  <1>1. \A m \in Kept : m.marker \in AppMarkers
    BY SegmentsAssumption DEF Kept, JFIF, AdobeOf, AppMarkers
  <1>2. marker_list \in Seq(Kept)
    BY DEF Inv, Types
  <1>. QED
    BY <1>1, <1>2

(* The segments that are copied, of the first n:                           *)
LEMMA AliensSequence ==
    ASSUME NEW space, NEW s, NEW n \in Nat
    PROVE  IsSequence(Aliens(space, s, n))
  <1> DEFINE S == {s[i] : i \in 1 .. n}
             K == {k \in Nat : Alien(space, s[k])}
  <1>1. \A i \in 1 .. n : i \in K => s[i] \in S
    OBVIOUS
  <1>. HIDE DEF S, K
  <1>2. Picked(s, K, n) \in Seq(S)
    BY <1>1, PickedType
  <1>. QED
    BY <1>2 DEF IsSequence, Aliens, K

(* none of none,                                                           *)
LEMMA NoAliens ==
    ASSUME NEW space, NEW s
    PROVE  Aliens(space, s, 0) = <<>>
  BY PickedNone DEF Aliens

(* one more if the next is not the library's own,                          *)
LEMMA AliensNext ==
    ASSUME NEW space, NEW s, NEW n \in Nat
    PROVE  Aliens(space, s, n + 1) = IF Alien(space, s[n + 1]) THEN Append(Aliens(space, s, n), s[n + 1])
                                     ELSE Aliens(space, s, n)
  <1> DEFINE K == {k \in Nat : Alien(space, s[k])}
  <1>1. n + 1 \in K <=> Alien(space, s[n + 1])
    OBVIOUS
  <1>. HIDE DEF K
  <1>2. Picked(s, K, n + 1) = IF n + 1 \in K THEN Append(Picked(s, K, n), s[n + 1]) ELSE Picked(s, K, n)
    BY PickedNext
  <1>. QED
    BY <1>1, <1>2 DEF Aliens, K

(* the same if two lists have the same in the same places.                 *)
LEMMA AliensSame ==
    ASSUME NEW space, NEW s, NEW t, NEW n \in Nat, \A i \in 1 .. n : s[i] = t[i]
    PROVE  Aliens(space, s, n) = Aliens(space, t, n)
  <1> DEFINE K == {k \in Nat : Alien(space, s[k])}
             L == {k \in Nat : Alien(space, t[k])}
  <1>1. \A i \in 1 .. n : (i \in K <=> i \in L) /\ (i \in K => s[i] = t[i])
    OBVIOUS
  <1>. HIDE DEF K, L
  <1>2. Picked(s, K, n) = Picked(t, L, n)
    BY <1>1, PickedSame
  <1>. QED
    BY <1>2 DEF Aliens, K, L

(* One segment more at the end.                                            *)
LEMMA AliensOn ==
    ASSUME NEW space, NEW s, NEW e, IsSequence(s)
    PROVE  Aliens(space, Append(s, e), Len(Append(s, e)))
              = IF Alien(space, e) THEN Append(Aliens(space, s, Len(s)), e)
                ELSE Aliens(space, s, Len(s))
  <1> DEFINE a == Append(s, e)
  <1>1. /\ Len(s) \in Nat /\ Len(a) = Len(s) + 1
        /\ \A k \in 1 .. Len(s) : a[k] = s[k]
        /\ a[Len(s) + 1] = e
    BY Appended
  <1>. HIDE DEF a
  <1>2. Aliens(space, a, Len(s)) = Aliens(space, s, Len(s))
    BY <1>1, AliensSame
  <1>3. Aliens(space, a, Len(s) + 1) = IF Alien(space, a[Len(s) + 1])
                                       THEN Append(Aliens(space, a, Len(s)), a[Len(s) + 1])
                                       ELSE Aliens(space, a, Len(s))
    BY <1>1, AliensNext
  <1>. QED
    BY <1>1, <1>2, <1>3 DEF a

(* A copied segment put in front of the list is copied in front.           *)
LEMMA AliensInFront ==
    ASSUME NEW space, NEW s, NEW t, NEW e, NEW n \in Nat, n >= 1,
           ~Alien(space, s[1]), ~Alien(space, t[1]), Alien(space, e), t[2] = e,
           \A k \in 2 .. n : t[k + 1] = s[k]
    PROVE  Aliens(space, t, n + 1) = InFront(e, Aliens(space, s, n))
  <1> DEFINE K == {k \in Nat : Alien(space, s[k])}
             L == {k \in Nat : Alien(space, t[k])}
  <1>1. OneMore(s, K, t, L, e, n)
    BY DEF OneMore
  <1>. HIDE DEF K, L
  <1>2. Picked(t, L, n + 1) = InFront(e, Picked(s, K, n))
    BY <1>1, PickedWithOneInFront
  <1>. QED
    BY <1>2 DEF Aliens, K, L

(* The EXIF behind the first segment.                                      *)
LEMMA AliensWithExif ==
    ASSUME NEW space, NEW s, NEW e, IsSequence(s), s # <<>>, s[1].marker = "SOI", e.marker = "APP1"
    PROVE  LET m == <<s[1], e>> \o Tail(s)
           IN  Aliens(space, m, Len(m)) = <<e>> \o Aliens(space, s, Len(s))
  <1> DEFINE m == <<s[1], e>> \o Tail(s)
  <1>1. /\ Len(m) = Len(s) + 1 /\ m[1] = s[1] /\ m[2] = e
        /\ \A k \in 2 .. Len(s) : m[k + 1] = s[k]
    BY PutInFront
  <1>2. Len(s) \in Nat /\ Len(s) >= 1
    <2>1. PICK S : s \in Seq(S)
      BY DEF IsSequence
    <2>. QED
      BY <2>1
  <1>. HIDE DEF m
  <1>3. ~Alien(space, s[1]) /\ Alien(space, e)
    BY DEF Alien, OwnOf, IsJFIF, IsAdobe, AppMarkers
  <1>4. Aliens(space, m, Len(s) + 1) = InFront(e, Aliens(space, s, Len(s)))
    BY <1>1, <1>2, <1>3, AliensInFront
  <1>. QED
    BY <1>1, <1>4 DEF m, InFront

(* What jcopy_markers_execute copies.                                      *)
LEMMA ForeignAreAliens ==
    ASSUME NEW s, IsSequence(s), \A k \in 1 .. Len(s) : s[k].marker \in AppMarkers
    PROVE  Foreign(s) = Aliens(jpeg_color_space, s, Len(s))
  <1> DEFINE K == {i \in DOMAIN s : ~Own(s[i])}
             L == {k \in Nat : Alien(jpeg_color_space, s[k])}
  <1>1. DOMAIN s = 1 .. Len(s) /\ Len(s) \in Nat
    BY DEF IsSequence
  <1>2. \A i \in 1 .. Len(s) : i \in K <=> i \in L
    BY <1>1, OwnIsOwn DEF Alien
  <1>. HIDE DEF K, L
  <1>3. Picked(s, K, Len(s)) = Picked(s, L, Len(s))
    BY <1>1, <1>2, PickedSame
  <1>. QED
    BY <1>3 DEF Foreign, Aliens, K, L

(* Nothing is said while nothing is written.                               *)
LEMMA MarkersRest ==
    ASSUME ~merged', state' \in {"reading", "read", "copied", "error"}
    PROVE  MergedLast' /\ MarkersCopied'
  BY DEF MergedLast, MarkersCopied

(* Consuming a segment: one of those is put at the end of the list, and    *)
(* nothing else is.                                                        *)
LEMMA TakeMarkers ==
    ASSUME Inv, MarkerInv, NEW seg \in Ahead, Take(seg), state' \in {"reading", "read", "error"},
           \/ UNCHANGED marker_list /\ (state' # "error" => seg.marker \notin AppMarkers)
           \/ marker_list' = Append(marker_list, seg) /\ seg.marker \in AppMarkers
    PROVE  MarkerInv'
  <1>1. state = "reading" /\ UNCHANGED <<trip, source, merged>>
    BY AheadFacts DEF Inv, Take, call
  <1>2. MergedLast' /\ MarkersCopied'
    BY <1>1, MarkersRest DEF MarkerInv, MergedLast
  <1>3. SourceMarkers'
    BY <1>1 DEF MarkerInv, SourceMarkers
  <1>4. MarkersRead'
    <2>. SUFFICES ASSUME trip > 0, state' # "error"
                  PROVE  Aliens(source.space, marker_list', Len(marker_list'))
                            = Aliens(source.space, source.output, Behind')
      BY <1>1 DEF MarkersRead, Rereading
    <2> DEFINE sp == source.space
               o == source.output
               b == Behind
    <2>1. b \in Nat /\ Behind' = b + 1 /\ seg = o[b + 1]
      BY AheadFacts, TakeFacts DEF Inv
    <2>2. Aliens(sp, marker_list, Len(marker_list)) = Aliens(sp, o, b)
      BY <1>1 DEF MarkerInv, MarkersRead, Rereading
    <2>. HIDE DEF sp, o, b
    <2>3. Aliens(sp, o, b + 1) = IF Alien(sp, o[b + 1]) THEN Append(Aliens(sp, o, b), o[b + 1])
                                 ELSE Aliens(sp, o, b)
      BY <2>1, AliensNext
    <2>4. CASE UNCHANGED marker_list /\ seg.marker \notin AppMarkers
      BY <2>1, <2>2, <2>3, <2>4 DEF Alien, sp, o, b
    <2>5. CASE marker_list' = Append(marker_list, seg)
      <3>1. IsSequence(marker_list)
        BY DEF Inv, Types, IsSequence
      <3>2. Aliens(sp, marker_list', Len(marker_list'))
               = IF Alien(sp, seg) THEN Append(Aliens(sp, marker_list, Len(marker_list)), seg)
                 ELSE Aliens(sp, marker_list, Len(marker_list))
        BY <2>5, <3>1, AliensOn
      <3>. QED
        BY <2>1, <2>2, <2>3, <3>2 DEF sp, o, b
    <2>. QED
      BY <2>4, <2>5
  <1>. QED
    BY <1>2, <1>3, <1>4 DEF MarkerInv

(* Reading keeps what was copied before,                                   *)
LEMMA ReadingMarkers ==
    ASSUME Inv, MarkerInv, NEW seg \in Ahead,
           \/ GetSOI(seg) \/ GetSOF(seg) \/ GetDQT(seg) \/ GetTables(seg) \/ SaveMarker(seg)
           \/ SkipOrRefuse(seg) \/ GetSOS(seg) \/ GetEOI(seg)
    PROVE  MarkerInv'
  <1>0. state = "reading"
    BY AheadFacts DEF Inv
  <1>1. ASSUME Take(seg), Fails
        PROVE  MarkerInv'
    BY <1>1, TakeMarkers DEF Fails, reader
  <1>2. ASSUME Take(seg), UNCHANGED marker_list, state' \in {"reading", "read"},
               seg.marker \in {"SOI", "SOF", "DQT", "DHT", "DNL", "garbage", "SOS", "EOI"}
        PROVE  MarkerInv'
    <2>1. seg.marker \notin AppMarkers
      BY <1>2 DEF AppMarkers
    <2>. QED
      BY <1>2, <2>1, TakeMarkers
  <1>3. CASE GetSOI(seg)
    BY <1>0, <1>1, <1>2, <1>3 DEF GetSOI, reader
  <1>4. CASE GetSOF(seg)
    BY <1>0, <1>1, <1>2, <1>4 DEF GetSOF
  <1>5. CASE GetDQT(seg)
    BY <1>0, <1>1, <1>2, <1>5 DEF GetDQT
  <1>6. CASE GetTables(seg)
    BY <1>0, <1>1, <1>2, <1>6 DEF GetTables, reader
  <1>7. CASE SaveMarker(seg)
    BY <1>0, <1>7, TakeMarkers DEF SaveMarker
  <1>8. CASE SkipOrRefuse(seg)
    BY <1>0, <1>1, <1>2, <1>8 DEF SkipOrRefuse, reader
  <1>9. CASE GetSOS(seg)
    <2>1. Take(seg) /\ seg.marker = "SOS" /\ (Fails \/ UNCHANGED <<state, marker_list>>)
      BY <1>9 DEF GetSOS
    <2>. QED
      BY <1>0, <1>1, <1>2, <2>1
  <1>10. CASE GetEOI(seg)
    BY <1>0, <1>1, <1>2, <1>10 DEF GetEOI, reader
  <1>. QED
    BY <1>3, <1>4, <1>5, <1>6, <1>7, <1>8, <1>9, <1>10

(* What has been read stays.                                               *)
LEMMA MarkersStay ==
    ASSUME MarkerInv, UNCHANGED <<trip, source, input, marker_list>>, state # "error"
    PROVE  SourceMarkers' /\ MarkersRead'
  <1>1. UNCHANGED Behind
    BY DEF Behind
  <1>. QED
    BY <1>1 DEF MarkerInv, SourceMarkers, MarkersRead, Rereading

(* the file begins with nothing copied,                                    *)
LEMMA HeaderMarkers ==
    ASSUME Inv, MarkerInv, WriteCoefficients
    PROVE  MarkerInv'
  <1>1. /\ state = "copied" /\ state' = "started" /\ next' = 1
        /\ UNCHANGED <<trip, source, input, marker_list, jpeg_color_space, merged>>
        /\ output' = IF write_JFIF_header THEN <<SOI, JFIF>>
                     ELSE IF write_Adobe_marker THEN <<SOI, AdobeOf(jpeg_color_space)>>
                     ELSE <<SOI>>
    BY DEF WriteCoefficients, reader, scans
  <1> DEFINE sp == jpeg_color_space
  <1>2. IsSequence(<<SOI>>) /\ Len(<<SOI>>) = 1 /\ <<SOI>>[1] = SOI
        /\ \A e : Append(<<SOI>>, e) = <<SOI, e>>
    BY JustSOI DEF Sound
  <1>3. Aliens(sp, <<SOI>>, Len(<<SOI>>)) = <<>>
    <2>1. Aliens(sp, <<SOI>>, 0 + 1) = Aliens(sp, <<SOI>>, 0)
      BY <1>2, AliensNext DEF Alien, SOI, AppMarkers
    <2>2. 0 + 1 = 1
      OBVIOUS
    <2>. QED
      BY <1>2, <2>1, <2>2, NoAliens
  <1>4. /\ write_JFIF_header => ~Alien(sp, JFIF)
        /\ write_Adobe_marker => ~Alien(sp, AdobeOf(sp))
    BY DEF Alien, OwnOf, write_JFIF_header, write_Adobe_marker, IsJFIF, IsAdobe, JFIF, AdobeOf
  <1>5. \A e : ~Alien(sp, e) => Aliens(sp, <<SOI, e>>, Len(<<SOI, e>>)) = <<>>
    <2>. SUFFICES ASSUME NEW e, ~Alien(sp, e) PROVE Aliens(sp, <<SOI, e>>, Len(<<SOI, e>>)) = <<>>
      OBVIOUS
    <2>1. Aliens(sp, Append(<<SOI>>, e), Len(Append(<<SOI>>, e))) = Aliens(sp, <<SOI>>, Len(<<SOI>>))
      BY <1>2, AliensOn
    <2>. QED
      BY <1>2, <1>3, <2>1
  <1>6. Aliens(sp, output', Len(output')) = <<>>
    BY <1>1, <1>3, <1>4, <1>5
  <1>7. Aliens(sp, marker_list, next' - 1) = <<>> /\ next' <= Len(marker_list) + 1
    <2>1. next' - 1 = 0 /\ Len(marker_list) \in Nat
      BY <1>1, KeptAreMarkers
    <2>. QED
      BY <1>1, <2>1, NoAliens
  <1>8. MarkersCopied'
    BY <1>1, <1>6, <1>7 DEF MarkersCopied
  <1>9. MergedLast'
    BY <1>1 DEF MarkerInv, MergedLast
  <1>. QED
    BY <1>1, <1>8, <1>9, MarkersStay DEF MarkerInv

(* each saved segment is copied or is the library's own,                   *)
LEMMA CopyMarkers ==
    ASSUME Inv, WriterInv, MarkerInv, CopyMarker
    PROVE  MarkerInv'
  <1> DEFINE sp == jpeg_color_space
             e == marker_list[next]
  <1>1. /\ state = "started" /\ state' = "started" /\ next' = next + 1 /\ next <= Len(marker_list)
        /\ UNCHANGED <<trip, source, input, marker_list, jpeg_color_space, merged>>
        /\ output' = IF Own(e) THEN output ELSE Append(output, e)
    BY DEF CopyMarker, reader, scans
  <1>2. next \in Nat \ {0} /\ Len(marker_list) \in Nat /\ next \in 1 .. Len(marker_list)
    BY <1>1, KeptAreMarkers DEF Inv, Types
  <1>3. Own(e) <=> ~Alien(sp, e)
    BY <1>2, KeptAreMarkers, OwnIsOwn DEF Alien
  <1>4. IsSequence(output)
    BY <1>1 DEF WriterInv, SoundSoFar, Writing, Sound
  <1>5. Aliens(sp, output, Len(output)) = Aliens(sp, marker_list, next - 1)
    BY <1>1 DEF MarkerInv, MarkersCopied
  <1>6. Aliens(sp, marker_list, next) = IF Alien(sp, e) THEN Append(Aliens(sp, marker_list, next - 1), e)
                                        ELSE Aliens(sp, marker_list, next - 1)
    <2>1. next - 1 \in Nat /\ (next - 1) + 1 = next
      BY <1>2
    <2>2. Aliens(sp, marker_list, (next - 1) + 1)
             = IF Alien(sp, marker_list[(next - 1) + 1])
               THEN Append(Aliens(sp, marker_list, next - 1), marker_list[(next - 1) + 1])
               ELSE Aliens(sp, marker_list, next - 1)
      BY <2>1, AliensNext
    <2>. QED
      BY <2>1, <2>2
  <1>. HIDE DEF sp, e
  <1>7. Aliens(sp, output', Len(output')) = Aliens(sp, marker_list, next)
    <2>1. CASE Own(e)
      BY <1>1, <1>3, <1>5, <1>6, <2>1
    <2>2. CASE ~Own(e)
      <3>1. output' = Append(output, e) /\ Alien(sp, e)
        BY <1>1, <1>3, <2>2
      <3>2. Aliens(sp, Append(output, e), Len(Append(output, e)))
              = IF Alien(sp, e) THEN Append(Aliens(sp, output, Len(output)), e)
                ELSE Aliens(sp, output, Len(output))
        BY <1>4, AliensOn
      <3>. QED
        BY <1>5, <1>6, <3>1, <3>2
    <2>. QED
      BY <2>1, <2>2
  <1>8. next' - 1 = next /\ next' <= Len(marker_list) + 1
    BY <1>1, <1>2
  <1>9. MarkersCopied'
    BY <1>1, <1>7, <1>8 DEF MarkersCopied, sp
  <1>10. MergedLast'
    BY <1>1 DEF MarkerInv, MergedLast
  <1>. QED
    BY <1>1, <1>9, <1>10, MarkersStay DEF MarkerInv

(* all have been when the frame begins,                                    *)
LEMMA FinishMarkers ==
    ASSUME Inv, MarkerInv, FinishCompress
    PROVE  MarkerInv'
  <1> DEFINE sp == jpeg_color_space
             A == Aliens(sp, marker_list, Len(marker_list))
  <1>1. /\ state = "started" /\ state' \in {"framing", "error"} /\ next > Len(marker_list)
        /\ UNCHANGED <<trip, source, input, marker_list, jpeg_color_space, merged, output>>
    BY Zenon DEF FinishCompress, reader, scans
  <1>2. next - 1 = Len(marker_list) /\ Len(marker_list) \in Nat
    BY <1>1, KeptAreMarkers DEF MarkerInv, MarkersCopied, Inv, Types
  <1>3. ~merged
    BY <1>1 DEF MarkerInv, MergedLast
  <1>4. <<>> \o A = A
    <2>1. IsSequence(A)
      BY <1>2, AliensSequence
    <2>2. PICK S : A \in Seq(S)
      BY <2>1 DEF IsSequence
    <2>. HIDE DEF A
    <2>. QED
      BY <2>2, ConcatEmptySeq
  <1>5. Aliens(sp, output, Len(output)) = A
    BY <1>1, <1>2 DEF MarkerInv, MarkersCopied
  <1>6. MarkersCopied'
    BY <1>1, <1>3, <1>4, <1>5 DEF MarkersCopied
  <1>7. MergedLast'
    BY <1>1, <1>3 DEF MergedLast
  <1>. QED
    BY <1>1, <1>6, <1>7, MarkersStay DEF MarkerInv

(* The tables, the frame, the scans and the EOI are none of them.          *)
LEMMA EmitMarkers ==
    ASSUME Inv, WriterInv, MarkerInv, EmitDQT \/ EmitSOF \/ EmitScan \/ EmitEOI
    PROVE  MarkerInv'
  <1> DEFINE sp == jpeg_color_space
  <1>1. /\ state \in {"framing", "scanning"} /\ state' \in {"framing", "scanning", "written"}
        /\ UNCHANGED <<trip, source, input, marker_list, jpeg_color_space, merged, leading>>
        /\ output' = output \/ \E e : output' = Append(output, e) /\ e.marker \in {"DQT", "SOF", "SOS", "EOI"}
    <2>1. CASE EmitDQT
      BY <2>1 DEF EmitDQT, DQT, reader, scans
    <2>2. CASE EmitSOF
      BY <2>2 DEF EmitSOF, SOF, reader, scans
    <2>3. CASE EmitScan
      BY <2>3 DEF EmitScan, SOSOf, ScanHeader, reader, scans
    <2>4. CASE EmitEOI
      BY <2>4 DEF EmitEOI, reader, scans
    <2>. QED
      BY <2>1, <2>2, <2>3, <2>4
  <1>2. IsSequence(output)
    BY <1>1 DEF WriterInv, SoundSoFar, Writing, Sound
  <1>3. Aliens(sp, output', Len(output')) = Aliens(sp, output, Len(output))
    <2>1. CASE output' = output
      BY <2>1
    <2>2. ASSUME NEW e, output' = Append(output, e), e.marker \in {"DQT", "SOF", "SOS", "EOI"}
          PROVE  Aliens(sp, output', Len(output')) = Aliens(sp, output, Len(output))
      <3>1. ~Alien(sp, e)
        BY <2>2 DEF Alien, AppMarkers
      <3>2. Aliens(sp, Append(output, e), Len(Append(output, e))) = Aliens(sp, output, Len(output))
        BY <1>2, <3>1, AliensOn
      <3>. QED
        BY <2>2, <3>2
    <2>. QED
      BY <1>1, <2>1, <2>2
  <1>4. MarkersCopied'
    BY <1>1, <1>3 DEF MarkerInv, MarkersCopied
  <1>5. MergedLast'
    BY <1>1 DEF MarkerInv, MergedLast
  <1>. QED
    BY <1>1, <1>4, <1>5, MarkersStay DEF MarkerInv

(* the EXIF segment comes in front of them,                                *)
LEMMA MergeMarkers ==
    ASSUME Inv, LeadingTypes, WriterInv, MarkerInv, Merge
    PROVE  MarkerInv'
  <1> DEFINE sp == jpeg_color_space
             A == Aliens(sp, marker_list, Len(marker_list))
  <1>1. /\ state = "written" /\ state' = "written" /\ ~merged /\ merged' = TRUE /\ leading # <<>>
        /\ UNCHANGED <<trip, source, input, marker_list, jpeg_color_space, leading>>
        /\ output' = <<output[1], leading[1]>> \o Tail(output)
    BY DEF Merge, reader, scans
  <1>2. leading[1].marker = "APP1" /\ leading = <<leading[1]>>
    BY <1>1 DEF Inv, Types, LeadingTypes
  <1>3. IsSequence(output) /\ output # <<>> /\ output[1].marker = "SOI"
    BY <1>1 DEF WriterInv, SoundSoFar, Writing, Sound
  <1>4. Aliens(sp, output', Len(output')) = <<leading[1]>> \o Aliens(sp, output, Len(output))
    BY <1>1, <1>2, <1>3, AliensWithExif
  <1>5. Aliens(sp, output, Len(output)) = A
    <2>1. Aliens(sp, output, Len(output)) = <<>> \o A
      BY <1>1 DEF MarkerInv, MarkersCopied
    <2>2. IsSequence(A)
      BY KeptAreMarkers, AliensSequence
    <2>3. PICK S : A \in Seq(S)
      BY <2>2 DEF IsSequence
    <2>. HIDE DEF A
    <2>4. <<>> \o A = A
      BY <2>3, ConcatEmptySeq
    <2>. QED
      BY <2>1, <2>4
  <1>6. Aliens(sp, output', Len(output')) = leading \o A
    BY <1>2, <1>4, <1>5
  <1>7. MarkersCopied'
    BY <1>1, <1>6 DEF MarkersCopied
  <1>8. MergedLast'
    BY <1>1 DEF MergedLast
  <1>. QED
    BY <1>1, <1>7, <1>8, MarkersStay DEF MarkerInv

(* and the next reader has before it what was copied.                      *)
LEMMA AgainMarkers ==
    ASSUME Inv, WriterInv, MarkerInv, Again
    PROVE  MarkerInv'
  <1>1. /\ state = "written" /\ input' = output /\ source' = ThisCall /\ state' = "reading"
        /\ marker_list' = <<>> /\ merged' = FALSE
    BY DEF Again
  <1>2. /\ source'.output = output /\ source'.space = jpeg_color_space
        /\ source'.marker_list = marker_list
        /\ source'.leading = IF merged THEN leading ELSE <<>>
    BY <1>1 DEF ThisCall
  <1>3. SourceMarkers'
    BY <1>1, <1>2 DEF SourceMarkers, MarkerInv, MarkersCopied
  <1>4. Behind' = 0
    <2>1. Len(output) \in Nat
      BY <1>1 DEF WriterInv, CompleteAtLast, Complete, Sound, IsSequence
    <2>. QED
      BY <1>1, <1>2, <2>1 DEF Behind
  <1>5. MarkersRead'
    <2>1. Len(marker_list') = 0
      BY <1>1
    <2>2. Aliens(source'.space, marker_list', 0) = <<>> /\ Aliens(source'.space, source'.output, 0) = <<>>
      BY NoAliens
    <2>. QED
      BY <1>4, <2>1, <2>2 DEF MarkersRead
  <1>6. MergedLast' /\ MarkersCopied'
    BY <1>1, MarkersRest
  <1>. QED
    BY <1>3, <1>5, <1>6 DEF MarkerInv

(* The invariant holds at the start,                                       *)
LEMMA MarkerInit ==
    ASSUME Init
    PROVE  MarkerInv
  <1>1. trip = 0 /\ ~merged /\ state = "reading"
    BY DEF Init
  <1>. QED
    BY <1>1 DEF MarkerInv, MergedLast, MarkersCopied, SourceMarkers, MarkersRead, Rereading

(* and every step keeps it.                                                *)
LEMMA MarkerNext ==
    ASSUME Inv, MoreTypes, SoundInv, MarkerInv, [Next]_vars
    PROVE  MarkerInv'
  <1>0. WriterInv /\ LeadingTypes
    BY DEF SoundInv, MoreTypes
  <1>1. CASE \E seg \in Ahead :
                \/ GetSOI(seg) \/ GetSOF(seg) \/ GetDQT(seg) \/ GetTables(seg) \/ SaveMarker(seg)
                \/ SkipOrRefuse(seg) \/ GetSOS(seg) \/ GetEOI(seg)
    BY <1>1, ReadingMarkers
  <1>2. CASE EndOfFile \/ CopyCriticalParameters
    <2>1. /\ UNCHANGED <<trip, source, input, marker_list, merged>>
          /\ state \in {"reading", "read"} /\ state' \in {"read", "copied", "error"}
      BY <1>2 DEF EndOfFile, CopyCriticalParameters, call, reader
    <2>2. MergedLast' /\ MarkersCopied'
      BY <2>1, MarkersRest DEF MarkerInv, MergedLast
    <2>. QED
      BY <2>1, <2>2, MarkersStay DEF MarkerInv
  <1>3. CASE WriteCoefficients \/ CopyMarker \/ FinishCompress
    BY <1>0, <1>3, HeaderMarkers, CopyMarkers, FinishMarkers
  <1>4. CASE EmitDQT \/ EmitSOF \/ EmitScan \/ EmitEOI
    BY <1>0, <1>4, EmitMarkers
  <1>5. CASE Merge \/ Again
    BY <1>0, <1>5, MergeMarkers, AgainMarkers
  <1>6. CASE UNCHANGED vars
    <2>1. UNCHANGED <<trip, source, input, marker_list, merged, state, next, output, leading,
                      jpeg_color_space>>
      BY <1>6 DEF vars, call, reader, scans
    <2>2. UNCHANGED Behind
      BY <2>1 DEF Behind
    <2>3. MergedLast' /\ MarkersCopied'
      BY <2>1 DEF MarkerInv, MergedLast, MarkersCopied
    <2>. QED
      BY <2>1, <2>2, <2>3 DEF MarkerInv, SourceMarkers, MarkersRead, Rereading
  <1>. QED
    BY <1>1, <1>2, <1>3, <1>4, <1>5, <1>6 DEF Next

(* The segments the library does not write itself are copied in their      *)
(* order and read in their order, at every step.                           *)
THEOREM MarkersInStep == Spec => []MarkerInv
  <1>1. Init => MarkerInv
    BY MarkerInit
  <1>2. Inv /\ MoreTypes /\ SoundInv /\ MarkerInv /\ [Next]_vars => MarkerInv'
    BY MarkerNext
  <1>. QED
    BY <1>1, <1>2, WrittenFilesAreSound, PTL DEF Spec

(* When the color space was found.                                         *)
LEMMA KeptInStep ==
    ASSUME Inv, SoundInv, MarkerInv, Read, ~LateJFIF
    PROVE  /\ jpeg_color_space = source.space
           /\ Foreign(marker_list) = Aliens(jpeg_color_space, marker_list, Len(marker_list))
           /\ Foreign(source.marker_list)
                 = Aliens(jpeg_color_space, source.marker_list, Len(source.marker_list))
           /\ Foreign(marker_list) = source.leading \o Foreign(source.marker_list)
  <1>1. trip > 0 /\ state \notin {"reading", "error"}
    BY DEF Read
  <1>2. Behind = Len(source.output) /\ ~inheaders
    BY <1>1, AllRead
  <1>3. jpeg_color_space = source.space
    BY <1>1, <1>2 DEF Inv, SpacesAgree
  <1>4. Foreign(marker_list) = Aliens(jpeg_color_space, marker_list, Len(marker_list))
    <2>1. IsSequence(marker_list)
      BY DEF Inv, Types, IsSequence
    <2>. QED
      BY <2>1, KeptAreMarkers, ForeignAreAliens
  <1>5. Foreign(source.marker_list)
           = Aliens(jpeg_color_space, source.marker_list, Len(source.marker_list))
    <2>1. source.marker_list \in Seq(Kept)
      BY <1>1 DEF Inv, SourceWritten
    <2>2. \A m \in Kept : m.marker \in AppMarkers
      BY SegmentsAssumption DEF Kept, JFIF, AdobeOf, AppMarkers
    <2>3. /\ IsSequence(source.marker_list)
          /\ \A k \in 1 .. Len(source.marker_list) : source.marker_list[k].marker \in AppMarkers
      BY <2>1, <2>2 DEF IsSequence
    <2>. QED
      BY <2>3, ForeignAreAliens
  <1>. QED
    BY <1>1, <1>2, <1>3, <1>4, <1>5 DEF MarkerInv, SourceMarkers, MarkersRead, Rereading

(* No saved segment is lost, doubled or moved but for those the library    *)
(* writes itself, and the EXIF that mergeExifAndJpeg puts in front is one  *)
(* segment more (save_marker against jcopy_markers_execute).               *)
THEOREM MarkersAreKept == Spec => []MarkersKept
  <1>1. Inv /\ SoundInv /\ MarkerInv => MarkersKept
    BY KeptInStep DEF MarkersKept
  <1>. QED
    BY <1>1, WrittenFilesAreSound, MarkersInStep, PTL

-----------------------------------------------------------------------------
(* What the scans carry.                                                   *)

Contents == [c \in DOMAIN comp_info |-> Content(c)]

Tells(e, x) ==
    e.marker = "SOS" => \A i \in 1 .. Len(e.ids) : e.pieces[i].data = x[e.pieces[i].of]

Told(o, x) == \A k \in 1 .. Len(o) : Tells(o[k], x)

DataInv ==
    /\ state \in Writing => Told(output, Contents)
    /\ trip > 0 => Told(source.output, source.content)

LEMMA ContentsStay ==
    ASSUME UNCHANGED <<comp_info, coef, source>>
    PROVE  UNCHANGED Contents
  BY DEF Contents, Content, Pieces

(* One segment more at the end of the file,                                *)
LEMMA ToldOn ==
    ASSUME NEW o, NEW e, NEW x, IsSequence(o), Told(o, x), Tells(e, x)
    PROVE  Told(Append(o, e), x)
  <1> DEFINE a == Append(o, e)
  <1>1. /\ Len(o) \in Nat /\ Len(a) = Len(o) + 1 /\ a[Len(o) + 1] = e
        /\ \A k \in 1 .. Len(o) : a[k] = o[k]
    BY Appended
  <1>. HIDE DEF a
  <1>2. \A k \in 1 .. Len(a) : k \in 1 .. Len(o) \/ k = Len(o) + 1
    BY <1>1
  <1>3. Told(a, x)
    BY <1>1, <1>2 DEF Told
  <1>. QED
    BY <1>3 DEF a

(* or behind the first.                                                    *)
LEMMA ToldWithExif ==
    ASSUME NEW o, NEW e, NEW x, IsSequence(o), o # <<>>, Told(o, x), e.marker = "APP1"
    PROVE  Told(<<o[1], e>> \o Tail(o), x)
  <1> DEFINE a == <<o[1], e>> \o Tail(o)
  <1>1. /\ Len(a) = Len(o) + 1 /\ a[1] = o[1] /\ a[2] = e
        /\ \A k \in 2 .. Len(o) : a[k + 1] = o[k]
    BY PutInFront
  <1>2. Len(o) \in Nat \ {0}
    <2>1. PICK S : o \in Seq(S)
      BY DEF IsSequence
    <2>. QED
      BY <2>1
  <1>. HIDE DEF a
  <1>3. ASSUME NEW k \in 1 .. Len(a)
        PROVE  Tells(a[k], x)
    <2>1. CASE k = 1
      <3>1. 1 \in 1 .. Len(o)
        BY <1>2
      <3>. QED
        BY <1>1, <2>1, <3>1 DEF Told
    <2>2. CASE k = 2
      BY <1>1, <2>2 DEF Tells
    <2>3. CASE k # 1 /\ k # 2
      <3>1. k - 1 \in 2 .. Len(o) /\ k - 1 \in 1 .. Len(o) /\ (k - 1) + 1 = k
        BY <1>1, <1>2, <2>3
      <3>2. a[k] = o[k - 1]
        BY <1>1, <3>1
      <3>. QED
        BY <3>1, <3>2 DEF Told
    <2>. QED
      BY <2>1, <2>2, <2>3
  <1>4. Told(a, x)
    BY <1>3 DEF Told
  <1>. QED
    BY <1>4 DEF a

(* A scan carries what its components are.                                 *)
LEMMA ScanTells ==
    ASSUME Inv, ~inheaders, Len(comp_info) > 0, NEW n \in 1 .. Len(ImageScript)
    PROVE  Tells(SOSOf(n), Contents)
  <1> DEFINE x == ImageScript[n].component_index
             e == SOSOf(n)
  <1>1. /\ e.ids = [i \in DOMAIN x |-> comp_info[x[i] + 1].component_id]
        /\ e.pieces = [i \in DOMAIN x |->
                          [of |-> x[i] + 1, scan |-> n, data |-> Content(x[i] + 1)]]
    BY DEF SOSOf, ScanHeader
  <1>2. /\ DOMAIN e.pieces = 1 .. Len(e.ids)
        /\ \A i \in 1 .. Len(e.ids) : e.pieces[i].of \in 1 .. Len(comp_info)
    BY ScanIsFit DEF ScanFits
  <1>3. DOMAIN comp_info = 1 .. Len(comp_info)
    BY DEF Inv, Types
  <1>. HIDE DEF x, e
  <1>4. \A i \in 1 .. Len(e.ids) : e.pieces[i].data = Content(e.pieces[i].of)
    BY <1>1, <1>2
  <1>5. Tells(e, Contents)
    BY <1>2, <1>3, <1>4 DEF Tells, Contents
  <1>. QED
    BY <1>5 DEF e

(* What the writer adds.                                                   *)
LEMMA WriterTells ==
    ASSUME Inv, SoundInv, DataInv,
           \/ WriteCoefficients \/ CopyMarker \/ FinishCompress \/ EmitDQT \/ EmitSOF \/ EmitScan
           \/ EmitEOI \/ Merge
    PROVE  DataInv'
  <1>1. UNCHANGED <<trip, source, comp_info, coef>>
    BY DEF WriteCoefficients, CopyMarker, FinishCompress, EmitDQT, EmitSOF, EmitScan, EmitEOI, Merge,
           reader, frame, scans
  <1>2. UNCHANGED Contents
    BY <1>1, ContentsStay
  <1>3. ASSUME Told(output', Contents) PROVE DataInv'
    BY <1>1, <1>2, <1>3 DEF DataInv
  <1>4. CASE WriteCoefficients
    <2>1. output' \in {<<SOI>>, <<SOI, JFIF>>, <<SOI, AdobeOf(jpeg_color_space)>>}
      BY <1>4 DEF WriteCoefficients
    <2>2. SOI.marker # "SOS" /\ JFIF.marker # "SOS" /\ AdobeOf(jpeg_color_space).marker # "SOS"
      BY DEF SOI, JFIF, AdobeOf
    <2>. HIDE DEF SOI, JFIF, AdobeOf
    <2>3. \A k \in 1 .. Len(output') : output'[k].marker # "SOS"
      BY <2>1, <2>2
    <2>. QED
      BY <1>3, <2>3 DEF Told, Tells
  <1>5. CASE ~WriteCoefficients
    <2>1. state \in Writing
      BY <1>5 DEF CopyMarker, FinishCompress, EmitDQT, EmitSOF, EmitScan, EmitEOI, Merge, Writing
    <2>2. Told(output, Contents) /\ IsSequence(output) /\ output # <<>>
      BY <2>1 DEF DataInv, SoundInv, WriterInv, SoundSoFar, Sound
    <2>3. ASSUME NEW e, Tells(e, Contents), output' \in {output, Append(output, e)}
          PROVE  DataInv'
      BY <1>3, <2>2, <2>3, ToldOn
    <2>4. CASE CopyMarker
      <3> DEFINE e == marker_list[next]
      <3>1. next <= Len(marker_list) /\ output' \in {output, Append(output, e)}
        BY <2>4 DEF CopyMarker
      <3>2. next \in 1 .. Len(marker_list) /\ e \in Kept
        BY <3>1 DEF Inv, Types
      <3>3. e.marker # "SOS"
        BY <3>2, SegmentsAssumption DEF Kept, JFIF, AdobeOf, AppMarkers
      <3>. HIDE DEF e
      <3>. QED
        BY <2>3, <3>1, <3>3 DEF Tells
    <2>5. CASE FinishCompress
      <3>1. output' = output
        BY <2>5 DEF FinishCompress
      <3>. QED
        BY <1>3, <2>2, <3>1
    <2>6. CASE EmitDQT
      <3>1. output' \in {output, Append(output, DQT(next))} /\ DQT(next).marker # "SOS"
        BY <2>6 DEF EmitDQT, DQT
      <3>. QED
        BY <2>3, <3>1 DEF Tells
    <2>7. CASE EmitSOF
      <3>1. output' \in {output, Append(output, SOF)} /\ SOF.marker # "SOS"
        BY <2>7 DEF EmitSOF, SOF
      <3>. QED
        BY <2>3, <3>1 DEF Tells
    <2>8. CASE EmitScan
      <3>1. state = "scanning" /\ next <= Len(ImageScript) /\ output' = Append(output, SOSOf(next))
        BY <2>8 DEF EmitScan
      <3>2. ~inheaders /\ Len(comp_info) > 0
        BY <3>1 DEF SoundInv, WriterInv, SoundSoFar, Inv, Finished
      <3>3. next \in 1 .. Len(ImageScript)
        BY <3>1, <3>2, ScriptFacts DEF Inv, Types
      <3>. QED
        BY <2>3, <3>1, <3>2, <3>3, ScanTells
    <2>9. CASE EmitEOI
      <3> DEFINE e == [marker |-> "EOI"]
      <3>1. output' = Append(output, e) /\ e.marker # "SOS"
        BY <2>9 DEF EmitEOI
      <3>. HIDE DEF e
      <3>. QED
        BY <2>3, <3>1 DEF Tells
    <2>10. CASE Merge
      <3>1. leading # <<>> /\ output' = <<output[1], leading[1]>> \o Tail(output)
        BY <2>10 DEF Merge
      <3>2. leading[1].marker = "APP1"
        BY <3>1 DEF Inv, Types
      <3>. QED
        BY <1>3, <2>2, <3>1, <3>2, ToldWithExif
    <2>. QED
      BY <1>5, <2>4, <2>5, <2>6, <2>7, <2>8, <2>9, <2>10
  <1>. QED
    BY <1>4, <1>5

(* Reading and stopping add nothing.                                       *)
LEMMA DataNext ==
    ASSUME Inv, SoundInv, DataInv, [Next]_vars
    PROVE  DataInv'
  <1>0. ASSUME UNCHANGED <<trip, source>>, state' \notin Writing
        PROVE  DataInv'
    BY <1>0 DEF DataInv
  <1>1. ASSUME NEW seg \in Ahead,
               \/ GetSOI(seg) \/ GetSOF(seg) \/ GetDQT(seg) \/ GetTables(seg) \/ SaveMarker(seg)
               \/ SkipOrRefuse(seg) \/ GetSOS(seg) \/ GetEOI(seg)
        PROVE  DataInv'
    <2>1. Take(seg)
      BY <1>1 DEF GetSOI, GetSOF, GetDQT, GetTables, SaveMarker, SkipOrRefuse, GetSOS, GetEOI
    <2>2. state' \in {"reading", "read", "error"}
      BY <1>1, <2>1 DEF Take, GetSOI, GetSOF, GetDQT, GetTables, SaveMarker, SkipOrRefuse, GetSOS,
                        GetEOI, Fails
    <2>. QED
      BY <1>0, <2>1, <2>2 DEF Take, call, Writing
  <1>2. CASE EndOfFile \/ CopyCriticalParameters
    <2>1. UNCHANGED <<trip, source>> /\ state' \in {"read", "copied", "error"}
      BY <1>2 DEF EndOfFile, CopyCriticalParameters, call
    <2>. QED
      BY <1>0, <2>1 DEF Writing
  <1>3. CASE \/ WriteCoefficients \/ CopyMarker \/ FinishCompress \/ EmitDQT \/ EmitSOF \/ EmitScan
             \/ EmitEOI \/ Merge
    BY <1>3, WriterTells
  <1>4. CASE Again
    <2>1. state = "written" /\ source' = ThisCall /\ state' = "reading"
      BY <1>4 DEF Again
    <2>2. source'.output = output /\ source'.content = Contents
      BY <2>1 DEF ThisCall, Contents
    <2>. QED
      BY <2>1, <2>2 DEF DataInv, Writing
  <1>5. CASE UNCHANGED vars
    <2>1. UNCHANGED <<trip, source, state, output, comp_info, coef>>
      BY <1>5 DEF vars, call, reader, scans, frame
    <2>2. UNCHANGED Contents
      BY <2>1, ContentsStay
    <2>. QED
      BY <2>1, <2>2 DEF DataInv
  <1>. QED
    BY <1>1, <1>2, <1>3, <1>4, <1>5 DEF Next

(* Each scan of a written file carries what its components were read as.   *)
THEOREM ScansCarryContents == Spec => []DataInv
  <1>1. Init => DataInv
    BY DEF Init, DataInv, Writing
  <1>2. Inv /\ SoundInv /\ DataInv /\ [Next]_vars => DataInv'
    BY DataNext
  <1>. QED
    BY <1>1, <1>2, WrittenFilesAreSound, PTL DEF Spec

(* With distinct ids the components are what they were.                    *)
LEMMA SameContents ==
    ASSUME Inv, SoundInv, DataInv, CoefficientsKeptByIds, DistinctIds, Read,
           NEW c \in 1 .. Len(comp_info)
    PROVE  Contents[c] = source.content[c]
  <1> DEFINE o == source.output
  <1>1. c \in DOMAIN comp_info /\ trip > 0 /\ state \notin {"reading", "error"}
    BY DEF Inv, Types, Read
  <1>2. coef[c] # {} /\ coef[c] = {p \in Pieces : p.of = c}
    BY <1>1 DEF CoefficientsKeptByIds, CoefficientsKept
  <1>3. \A p \in coef[c] : coef[c] = {q \in Pieces : q.of = p.of}
    BY <1>2
  <1>4. Complete(o, comp_info, source.marker_list, source.progressive)
    BY <1>1, AllRead
  <1>5. Pieces = UNION {{o[k].pieces[i] : i \in DOMAIN o[k].pieces} :
                           k \in {j \in DOMAIN o : o[j].marker = "SOS"}}
    BY DEF Pieces
  <1>6. Told(o, source.content)
    BY <1>1 DEF DataInv
  <1>. HIDE DEF o
  <1>7. DOMAIN o = 1 .. Len(o)
    BY <1>4 DEF Complete, Sound, IsSequence
  <1>8. \A k \in 1 .. Len(o) : o[k].marker = "SOS" => DOMAIN o[k].pieces = 1 .. Len(o[k].ids)
    BY <1>4 DEF Complete, Sound, Fits, ScanFits
  <1>9. \A p \in Pieces : p.data = source.content[p.of]
    BY <1>5, <1>6, <1>7, <1>8 DEF Told, Tells
  <1>10. PICK q : q = CHOOSE p \in coef[c] : TRUE
    OBVIOUS
  <1>11. q \in coef[c] /\ Content(c) = q.data
    BY <1>2, <1>3, <1>10 DEF Content
  <1>12. q.data = source.content[c]
    BY <1>2, <1>9, <1>11
  <1>. QED
    BY <1>1, <1>11, <1>12 DEF Contents

-----------------------------------------------------------------------------
(* The whole file as a function of what was read: this is what the second  *)
(* re-encoding writes again.                                               *)

(* write_file_header.                                                      *)
FileHeader(space) ==
    IF space \in {"GRAYSCALE", "YCbCr"} THEN <<SOI, JFIF>>
    ELSE IF space \in {"RGB", "CMYK", "YCCK"} THEN <<SOI, AdobeOf(space)>>
    ELSE <<SOI>>

Front(space, aliens) == FileHeader(space) \o aliens

(* The DQT segments of the first n components; slots are the tables.       *)
TableOf(comps, slots, c) ==
    [marker |-> "DQT", slot |-> comps[c].quant_tbl_no, table |-> slots[comps[c].quant_tbl_no]]

FirstUseIn(comps, c) == \A d \in 1 .. c - 1 : comps[d].quant_tbl_no # comps[c].quant_tbl_no

TablesOf(comps, slots, n) ==
    Picked([c \in 1 .. Len(comps) |-> TableOf(comps, slots, c)],
           {c \in 1 .. Len(comps) : FirstUseIn(comps, c)}, n)

FrameOf(comps, prog) == [marker |-> "SOF", progressive |-> prog, components |-> comps]

(* The first n scans of a script.                                          *)
ScriptFor(space, comps, prog) ==
    LET image == [num_components |-> Len(comps), space |-> space]
    IN  IF prog THEN Script!ScriptOf(image) ELSE <<Script!SequentialScan(image)>>

ScanAt(comps, contents, script, n) ==
    LET index == script[n].component_index
    IN  ScanHeader([i \in DOMAIN index |-> comps[index[i] + 1].component_id], script[n],
                   [i \in DOMAIN index |->
                      [of |-> index[i] + 1, scan |-> n, data |-> contents[index[i] + 1]]])

ScansSent(comps, contents, script, n) ==
    Picked([k \in 1 .. Len(script) |-> ScanAt(comps, contents, script, k)], 1 .. Len(script), n)

Framed(front, comps, slots, prog) ==
    Append(front \o TablesOf(comps, slots, Len(comps)), FrameOf(comps, prog))

EOI == [marker |-> "EOI"]

File(space, aliens, comps, contents, slots, prog) ==
    LET script == ScriptFor(space, comps, prog)
    IN  Append(Framed(Front(space, aliens), comps, slots, prog)
                  \o ScansSent(comps, contents, script, Len(script)), EOI)

(* What is written is as much of it as has been reached.                   *)
Aside == Aliens(jpeg_color_space, marker_list, Len(marker_list))

BuiltSoFar ==
    /\ state = "started" =>
          output = Front(jpeg_color_space, Aliens(jpeg_color_space, marker_list, next - 1))
    /\ state = "framing" =>
          /\ next <= Len(comp_info) + 1
          /\ output = Front(jpeg_color_space, Aside) \o TablesOf(comp_info, quant_tbl_ptrs, next - 1)
    /\ state = "scanning" =>
          /\ next <= Len(ImageScript) + 1
          /\ output = Framed(Front(jpeg_color_space, Aside), comp_info, quant_tbl_ptrs, progressive)
                         \o ScansSent(comp_info, Contents, ImageScript, next - 1)
    /\ state = "written" /\ ~merged =>
          output = File(jpeg_color_space, Aside, comp_info, Contents, quant_tbl_ptrs, progressive)

SourceBuilt ==
    trip > 0 /\ source.leading = <<>> =>
        \E slots : source.output =
            File(source.space, Aliens(source.space, source.marker_list, Len(source.marker_list)),
                 source.comp_info, source.content, slots, source.progressive)

BuiltInv == BuiltSoFar /\ SourceBuilt

(* Joining with the empty sequence.                                        *)
LEMMA EmptyAtEnd ==
    ASSUME NEW s, IsSequence(s)
    PROVE  s \o <<>> = s
  <1>1. PICK S : s \in Seq(S)
    BY DEF IsSequence
  <1>. QED
    BY <1>1, ConcatEmptySeq

(* What stands before the frame is a sequence.                             *)
LEMMA FrontSequence ==
    ASSUME NEW space, NEW aliens, IsSequence(aliens)
    PROVE  IsSequence(FileHeader(space)) /\ IsSequence(Front(space, aliens))
  <1>1. \A x, y : IsSequence(<<x>>) /\ IsSequence(<<x, y>>)
    <2>. TAKE x, y
    <2>1. <<x>> \in Seq({x, y}) /\ <<x, y>> \in Seq({x, y})
      OBVIOUS
    <2>. QED
      BY <2>1 DEF IsSequence
  <1>2. IsSequence(FileHeader(space))
    BY <1>1, Zenon DEF FileHeader
  <1>. QED
    BY <1>2, OccursJoined DEF Front

(* The tables of one component more,                                       *)
LEMMA TablesNext ==
    ASSUME NEW comps, NEW slots, Len(comps) \in Nat
    PROVE  /\ TablesOf(comps, slots, 0) = <<>>
           /\ \A n \in Nat : IsSequence(TablesOf(comps, slots, n))
           /\ \A n \in 1 .. Len(comps) :
                 TablesOf(comps, slots, n) =
                    IF FirstUseIn(comps, n)
                    THEN Append(TablesOf(comps, slots, n - 1), TableOf(comps, slots, n))
                    ELSE TablesOf(comps, slots, n - 1)
  <1> DEFINE s == [c \in 1 .. Len(comps) |-> TableOf(comps, slots, c)]
             K == {c \in 1 .. Len(comps) : FirstUseIn(comps, c)}
  <1>1. \A n \in 1 .. Len(comps) :
           /\ (n \in K <=> FirstUseIn(comps, n)) /\ s[n] = TableOf(comps, slots, n)
           /\ n - 1 \in Nat /\ (n - 1) + 1 = n
    OBVIOUS
  <1>2. \A n : TablesOf(comps, slots, n) = Picked(s, K, n)
    BY DEF TablesOf
  <1>. HIDE DEF s, K
  <1>3. \A m \in Nat : Picked(s, K, m + 1) = IF m + 1 \in K THEN Append(Picked(s, K, m), s[m + 1])
                                             ELSE Picked(s, K, m)
    BY PickedNext
  <1>4. \A n \in 1 .. Len(comps) :
           Picked(s, K, n) = IF n \in K THEN Append(Picked(s, K, n - 1), s[n]) ELSE Picked(s, K, n - 1)
    <2>. TAKE n \in 1 .. Len(comps)
    <2>1. Picked(s, K, (n - 1) + 1) = IF (n - 1) + 1 \in K THEN Append(Picked(s, K, n - 1), s[(n - 1) + 1])
                                      ELSE Picked(s, K, n - 1)
      BY <1>1, <1>3
    <2>. QED
      BY <1>1, <2>1
  <1>5. TablesOf(comps, slots, 0) = <<>>
    BY <1>2, PickedNone
  <1>6. \A n \in Nat : IsSequence(TablesOf(comps, slots, n))
    BY <1>2, PickedSequence
  <1>. QED
    BY <1>1, <1>2, <1>4, <1>5, <1>6

(* and one scan more of the script.                                        *)
LEMMA ScansNext ==
    ASSUME NEW comps, NEW contents, NEW script, Len(script) \in Nat
    PROVE  /\ ScansSent(comps, contents, script, 0) = <<>>
           /\ \A n \in Nat : IsSequence(ScansSent(comps, contents, script, n))
           /\ \A n \in 1 .. Len(script) :
                 ScansSent(comps, contents, script, n)
                    = Append(ScansSent(comps, contents, script, n - 1), ScanAt(comps, contents, script, n))
  <1> DEFINE s == [k \in 1 .. Len(script) |-> ScanAt(comps, contents, script, k)]
             K == 1 .. Len(script)
  <1>1. \A n \in 1 .. Len(script) :
           n \in K /\ s[n] = ScanAt(comps, contents, script, n) /\ n - 1 \in Nat /\ (n - 1) + 1 = n
    OBVIOUS
  <1>2. \A n : ScansSent(comps, contents, script, n) = Picked(s, K, n)
    BY DEF ScansSent
  <1>. HIDE DEF s, K
  <1>3. \A m \in Nat : m + 1 \in K => Picked(s, K, m + 1) = Append(Picked(s, K, m), s[m + 1])
    BY PickedNext
  <1>4. \A n \in 1 .. Len(script) : Picked(s, K, n) = Append(Picked(s, K, n - 1), s[n])
    <2>. TAKE n \in 1 .. Len(script)
    <2>1. Picked(s, K, (n - 1) + 1) = Append(Picked(s, K, n - 1), s[(n - 1) + 1])
      BY <1>1, <1>3
    <2>. QED
      BY <1>1, <2>1
  <1>5. ScansSent(comps, contents, script, 0) = <<>>
    BY <1>2, PickedNone
  <1>6. \A n \in Nat : IsSequence(ScansSent(comps, contents, script, n))
    BY <1>2, PickedSequence
  <1>. QED
    BY <1>1, <1>2, <1>4, <1>5, <1>6

(* What stands before the scans is a sequence.                             *)
LEMMA FramedSequence ==
    ASSUME NEW front, NEW comps, NEW slots, NEW prog, IsSequence(front), Len(comps) \in Nat
    PROVE  /\ IsSequence(TablesOf(comps, slots, Len(comps)))
           /\ IsSequence(front \o TablesOf(comps, slots, Len(comps)))
           /\ IsSequence(Framed(front, comps, slots, prog))
  <1>1. IsSequence(TablesOf(comps, slots, Len(comps)))
    BY TablesNext
  <1>2. IsSequence(front \o TablesOf(comps, slots, Len(comps)))
    BY <1>1, OccursJoined
  <1>. QED
    BY <1>1, <1>2, Appended DEF Framed

(* The step of the writer that starts the file,                            *)
LEMMA HeaderBuilt ==
    ASSUME WriteCoefficients
    PROVE  BuiltSoFar'
  <1> DEFINE sp == jpeg_color_space
             none == Aliens(sp, marker_list, 0)
  <1>1. /\ state' = "started" /\ next' - 1 = 0 /\ UNCHANGED <<marker_list, jpeg_color_space>>
        /\ output' = FileHeader(sp)
    BY DEF WriteCoefficients, reader, scans, FileHeader, write_JFIF_header, write_Adobe_marker
  <1>2. none = <<>> /\ IsSequence(none)
    BY NoAliens, AliensSequence
  <1>3. IsSequence(FileHeader(sp))
    BY <1>2, FrontSequence
  <1>4. FileHeader(sp) \o <<>> = FileHeader(sp)
    BY <1>3, EmptyAtEnd
  <1>5. Front(sp, none) = FileHeader(sp)
    BY <1>2, <1>4 DEF Front
  <1>. QED
    BY <1>1, <1>5 DEF BuiltSoFar

(* that copies a segment,                                                  *)
LEMMA CopyBuilt ==
    ASSUME Inv, BuiltSoFar, CopyMarker
    PROVE  BuiltSoFar'
  <1> DEFINE sp == jpeg_color_space
             e == marker_list[next]
             a == Aliens(sp, marker_list, next - 1)
  <1>1. /\ state = "started" /\ state' = "started" /\ next' - 1 = next /\ next <= Len(marker_list)
        /\ UNCHANGED <<marker_list, jpeg_color_space>>
        /\ output' = IF Own(e) THEN output ELSE Append(output, e)
    BY DEF CopyMarker, reader, scans, Inv, Types
  <1>2. /\ next \in 1 .. Len(marker_list) /\ next - 1 \in Nat /\ (next - 1) + 1 = next
    BY <1>1, KeptAreMarkers DEF Inv, Types
  <1>3. Own(e) <=> ~Alien(sp, e)
    BY <1>2, KeptAreMarkers, OwnIsOwn DEF Alien
  <1>4. Aliens(sp, marker_list, next) = IF Alien(sp, e) THEN Append(a, e) ELSE a
    <2>1. Aliens(sp, marker_list, (next - 1) + 1)
             = IF Alien(sp, marker_list[(next - 1) + 1])
               THEN Append(a, marker_list[(next - 1) + 1]) ELSE a
      BY <1>2, AliensNext
    <2>. QED
      BY <1>2, <2>1
  <1>5. output = Front(sp, a)
    BY <1>1 DEF BuiltSoFar
  <1>6. IsSequence(a) /\ IsSequence(FileHeader(sp))
    BY <1>2, AliensSequence, FrontSequence
  <1>. HIDE DEF a, e
  <1>7. Append(Front(sp, a), e) = Front(sp, Append(a, e))
    BY <1>6, CatAppend DEF Front
  <1>8. output' = Front(sp, Aliens(sp, marker_list, next))
    BY <1>1, <1>3, <1>4, <1>5, <1>7
  <1>. QED
    BY <1>1, <1>8 DEF BuiltSoFar

(* that begins the frame,                                                  *)
LEMMA FinishBuilt ==
    ASSUME Inv, MarkerInv, BuiltSoFar, FinishCompress
    PROVE  BuiltSoFar'
  <1> DEFINE sp == jpeg_color_space
  <1>1. /\ state = "started" /\ state' \in {"framing", "error"} /\ next > Len(marker_list)
        /\ next' = 1
        /\ UNCHANGED <<marker_list, jpeg_color_space, output, comp_info, quant_tbl_ptrs>>
    BY Zenon DEF FinishCompress, reader, scans, frame
  <1>2. next - 1 = Len(marker_list) /\ Len(marker_list) \in Nat /\ Len(comp_info) \in Nat
    BY <1>1, KeptAreMarkers DEF MarkerInv, MarkersCopied, Inv, Types
  <1>3. output = Front(sp, Aside)
    BY <1>1, <1>2 DEF BuiltSoFar, Aside
  <1>4. IsSequence(Front(sp, Aside))
    BY <1>2, AliensSequence, FrontSequence DEF Aside
  <1>5. TablesOf(comp_info, quant_tbl_ptrs, 0) = <<>>
    BY <1>2, TablesNext
  <1>6. output = Front(sp, Aside) \o TablesOf(comp_info, quant_tbl_ptrs, 0)
    BY <1>3, <1>4, <1>5, EmptyAtEnd
  <1>7. UNCHANGED Aside
    BY <1>1 DEF Aside
  <1>8. next' - 1 = 0 /\ next' <= Len(comp_info) + 1
    BY <1>1, <1>2
  <1>. QED
    BY <1>1, <1>6, <1>7, <1>8 DEF BuiltSoFar

(* that writes a table,                                                    *)
LEMMA DQTBuilt ==
    ASSUME Inv, BuiltSoFar, EmitDQT
    PROVE  BuiltSoFar'
  <1> DEFINE F == Front(jpeg_color_space, Aside)
             t == TablesOf(comp_info, quant_tbl_ptrs, next - 1)
             e == TableOf(comp_info, quant_tbl_ptrs, next)
  <1>1. /\ state = "framing" /\ state' = "framing" /\ next' = next + 1 /\ next <= Len(comp_info)
        /\ UNCHANGED <<marker_list, jpeg_color_space, comp_info, quant_tbl_ptrs>>
        /\ output' = IF FirstUse(next) THEN Append(output, DQT(next)) ELSE output
    BY DEF EmitDQT, reader, scans, frame
  <1>2. /\ next \in 1 .. Len(comp_info) /\ next - 1 \in Nat /\ Len(marker_list) \in Nat
        /\ next' - 1 = next /\ next' <= Len(comp_info) + 1 /\ Len(comp_info) \in Nat
    BY <1>1, KeptAreMarkers DEF Inv, Types
  <1>3. DQT(next) = e /\ (FirstUse(next) <=> FirstUseIn(comp_info, next))
    BY DEF DQT, TableOf, FirstUse, FirstUseIn
  <1>4. output = F \o t
    BY <1>1 DEF BuiltSoFar
  <1>5. TablesOf(comp_info, quant_tbl_ptrs, next) = IF FirstUseIn(comp_info, next) THEN Append(t, e) ELSE t
    BY <1>2, TablesNext
  <1>6. IsSequence(F) /\ IsSequence(t)
    BY <1>2, AliensSequence, FrontSequence, TablesNext DEF Aside
  <1>7. UNCHANGED Aside
    BY <1>1 DEF Aside
  <1>. HIDE DEF F, t, e
  <1>8. F \o Append(t, e) = Append(F \o t, e)
    BY <1>6, CatAppend
  <1>9. output' = F \o TablesOf(comp_info, quant_tbl_ptrs, next)
    BY <1>1, <1>3, <1>4, <1>5, <1>8
  <1>. QED
    BY <1>1, <1>2, <1>7, <1>9 DEF BuiltSoFar, F

(* the frame,                                                              *)
LEMMA SOFBuilt ==
    ASSUME Inv, MoreTypes, SoundInv, BuiltSoFar, EmitSOF
    PROVE  BuiltSoFar'
  <1> DEFINE F == Front(jpeg_color_space, Aside)
             G == Framed(F, comp_info, quant_tbl_ptrs, progressive)
  <1>1. /\ state = "framing" /\ state' = "scanning" /\ next' = 1 /\ next' - 1 = 0
        /\ next > Len(comp_info)
        /\ UNCHANGED <<marker_list, jpeg_color_space, comp_info, coef, source, quant_tbl_ptrs,
                       progressive>>
        /\ output' = Append(output, SOF)
    BY DEF EmitSOF, reader, scans, frame
  <1>2. /\ next - 1 = Len(comp_info) /\ Len(marker_list) \in Nat /\ Len(comp_info) \in Nat
    BY <1>1, KeptAreMarkers DEF Inv, Types, BuiltSoFar
  <1>3. SOF = FrameOf(comp_info, progressive)
    BY DEF SOF, FrameOf
  <1>4. output' = G
    BY <1>1, <1>2, <1>3 DEF BuiltSoFar, Framed
  <1>5. IsSequence(F)
    BY <1>2, AliensSequence, FrontSequence DEF Aside
  <1>6. IsSequence(G)
    BY <1>2, <1>5, FramedSequence
  <1>7. Len(ImageScript) \in Nat
    <2>1. ~inheaders
      BY <1>1 DEF Inv, Finished
    <2>. QED
      BY <2>1, ScriptFacts
  <1>8. ScansSent(comp_info, Contents, ImageScript, 0) = <<>>
    BY <1>7, ScansNext
  <1>9. output' = G \o ScansSent(comp_info, Contents, ImageScript, 0)
    BY <1>4, <1>6, <1>8, EmptyAtEnd
  <1>10. UNCHANGED <<Aside, ImageScript, Contents>>
    <2>1. UNCHANGED Aside
      BY <1>1 DEF Aside
    <2>2. UNCHANGED ImageScript
      BY <1>1, Zenon DEF ImageScript
    <2>3. UNCHANGED Contents
      BY <1>1, ContentsStay
    <2>. QED
      BY <2>1, <2>2, <2>3
  <1>11. next' <= Len(ImageScript) + 1
    BY <1>1, <1>7
  <1>. QED
    BY <1>1, <1>9, <1>10, <1>11 DEF BuiltSoFar

(* (the script is a function of colour space, components and option)       *)
LEMMA ScriptIsFor == ImageScript = ScriptFor(jpeg_color_space, comp_info, progressive)
  BY DEF ImageScript, ScriptFor

(* a scan,                                                                 *)
LEMMA ScanBuilt ==
    ASSUME Inv, SoundInv, BuiltSoFar, EmitScan
    PROVE  BuiltSoFar'
  <1> DEFINE F == Front(jpeg_color_space, Aside)
             G == Framed(F, comp_info, quant_tbl_ptrs, progressive)
             t == ScansSent(comp_info, Contents, ImageScript, next - 1)
             e == ScanAt(comp_info, Contents, ImageScript, next)
  <1>1. /\ state = "scanning" /\ state' = "scanning" /\ next' = next + 1 /\ next <= Len(ImageScript)
        /\ UNCHANGED <<marker_list, jpeg_color_space, comp_info, coef, source, quant_tbl_ptrs,
                       progressive>>
        /\ output' = Append(output, SOSOf(next))
    BY DEF EmitScan, reader, scans, frame
  <1>2. ~inheaders /\ Len(comp_info) > 0
    BY <1>1 DEF Inv, Finished, SoundInv, WriterInv, SoundSoFar
  <1>3. Len(ImageScript) \in Nat
    BY <1>2, ScriptFacts
  <1>4. /\ next \in 1 .. Len(ImageScript) /\ next - 1 \in Nat /\ Len(marker_list) \in Nat
        /\ next' - 1 = next /\ next' <= Len(ImageScript) + 1 /\ Len(comp_info) \in Nat
    BY <1>1, <1>3, KeptAreMarkers DEF Inv, Types
  <1>5. SOSOf(next) = e
    <2> DEFINE x == ImageScript[next].component_index
    <2>1. \A i \in DOMAIN x : x[i] + 1 \in DOMAIN comp_info
      <3> DEFINE sent == SOSOf(next).pieces
      <3>1. /\ DOMAIN sent = 1 .. Len(SOSOf(next).ids)
            /\ \A i \in 1 .. Len(SOSOf(next).ids) : sent[i].of \in 1 .. Len(comp_info)
        BY <1>2, <1>4, ScanIsFit DEF ScanFits
      <3>2. sent = [i \in DOMAIN x |-> [of |-> x[i] + 1, scan |-> next, data |-> Content(x[i] + 1)]]
        BY DEF SOSOf, ScanHeader
      <3>3. DOMAIN comp_info = 1 .. Len(comp_info)
        BY DEF Inv, Types
      <3>. HIDE DEF x, sent
      <3>4. DOMAIN sent = DOMAIN x /\ \A i \in DOMAIN x : sent[i].of = x[i] + 1
        BY <3>2
      <3>. QED
        BY <3>1, <3>3, <3>4
    <2>2. [i \in DOMAIN x |-> [of |-> x[i] + 1, scan |-> next, data |-> Content(x[i] + 1)]]
             = [i \in DOMAIN x |-> [of |-> x[i] + 1, scan |-> next, data |-> Contents[x[i] + 1]]]
      <3>. HIDE DEF x
      <3>1. \A i \in DOMAIN x : Contents[x[i] + 1] = Content(x[i] + 1)
        BY <2>1 DEF Contents
      <3>. QED
        BY <3>1
    <2>. QED
      BY <2>2, Zenon DEF SOSOf, ScanAt
  <1>6. output = G \o t
    BY <1>1 DEF BuiltSoFar
  <1>7. /\ \A n \in Nat : IsSequence(ScansSent(comp_info, Contents, ImageScript, n))
        /\ \A n \in 1 .. Len(ImageScript) :
              ScansSent(comp_info, Contents, ImageScript, n)
                 = Append(ScansSent(comp_info, Contents, ImageScript, n - 1),
                          ScanAt(comp_info, Contents, ImageScript, n))
    BY <1>3, ScansNext
  <1>8. ScansSent(comp_info, Contents, ImageScript, next) = Append(t, e) /\ IsSequence(t)
    BY <1>4, <1>7
  <1>9. IsSequence(G)
    <2>1. IsSequence(F)
      BY <1>4, AliensSequence, FrontSequence DEF Aside
    <2>. HIDE DEF F
    <2>. QED
      BY <1>4, <2>1, FramedSequence
  <1>10. UNCHANGED <<Aside, ImageScript, Contents>>
    <2>1. UNCHANGED Aside
      BY <1>1 DEF Aside
    <2>2. UNCHANGED ImageScript
      BY <1>1, Zenon DEF ImageScript
    <2>3. UNCHANGED Contents
      BY <1>1, ContentsStay
    <2>. QED
      BY <2>1, <2>2, <2>3
  <1>. HIDE DEF F, G, t, e
  <1>11. G \o Append(t, e) = Append(G \o t, e)
    BY <1>8, <1>9, CatAppend
  <1>12. output' = G \o ScansSent(comp_info, Contents, ImageScript, next)
    BY <1>1, <1>5, <1>6, <1>8, <1>11
  <1>. QED
    BY <1>1, <1>4, <1>10, <1>12 DEF BuiltSoFar, F, G

(* and the end: each goes on as the function says.                         *)
LEMMA EOIBuilt ==
    ASSUME Inv, BuiltSoFar, EmitEOI
    PROVE  BuiltSoFar'
  <1> DEFINE G == Framed(Front(jpeg_color_space, Aside), comp_info, quant_tbl_ptrs, progressive)
  <1>1. /\ state = "scanning" /\ state' = "written" /\ next > Len(ImageScript)
        /\ UNCHANGED <<marker_list, jpeg_color_space, comp_info, coef, source, quant_tbl_ptrs,
                       progressive>>
        /\ output' = Append(output, EOI)
    BY DEF EmitEOI, EOI, reader, scans, frame
  <1>2. ~inheaders
    BY <1>1 DEF Inv, Finished
  <1>3. Len(ImageScript) \in Nat
    BY <1>2, ScriptFacts
  <1>4. next - 1 = Len(ImageScript)
    BY <1>1, <1>3 DEF BuiltSoFar, Inv, Types
  <1>5. output = G \o ScansSent(comp_info, Contents, ImageScript, Len(ImageScript))
    BY <1>1, <1>4 DEF BuiltSoFar
  <1>6. output' = File(jpeg_color_space, Aside, comp_info, Contents, quant_tbl_ptrs, progressive)
    BY <1>1, <1>5, ScriptIsFor DEF File
  <1>7. UNCHANGED <<Aside, Contents>>
    BY <1>1, ContentsStay DEF Aside
  <1>. QED
    BY <1>1, <1>6, <1>7 DEF BuiltSoFar

(* The next reader has that file before it.                                *)
LEMMA AgainBuilt ==
    ASSUME MarkerInv, BuiltSoFar, Again
    PROVE  BuiltInv'
  <1>1. /\ state = "written" /\ source' = ThisCall /\ state' = "reading"
    BY DEF Again
  <1>2. /\ source'.output = output /\ source'.space = jpeg_color_space
        /\ source'.marker_list = marker_list /\ source'.comp_info = comp_info
        /\ source'.progressive = progressive /\ source'.content = Contents
        /\ source'.leading = IF merged THEN leading ELSE <<>>
    BY <1>1 DEF ThisCall, Contents
  <1>3. ASSUME source'.leading = <<>>
        PROVE  output = File(jpeg_color_space, Aside, comp_info, Contents, quant_tbl_ptrs, progressive)
    <2>1. ~merged
      BY <1>2, <1>3 DEF MarkerInv, MergedLast
    <2>. QED
      BY <1>1, <2>1 DEF BuiltSoFar
  <1>4. SourceBuilt'
    BY <1>2, <1>3 DEF SourceBuilt, Aside
  <1>5. BuiltSoFar'
    BY <1>1 DEF BuiltSoFar
  <1>. QED
    BY <1>4, <1>5 DEF BuiltInv

(* The invariant holds at the start,                                       *)
LEMMA BuiltInit ==
    ASSUME Init
    PROVE  BuiltInv
  <1>1. trip = 0 /\ state = "reading"
    BY DEF Init
  <1>. QED
    BY <1>1 DEF BuiltInv, BuiltSoFar, SourceBuilt

(* and every step keeps it.                                                *)
LEMMA BuiltNext ==
    ASSUME Inv, MoreTypes, SoundInv, MarkerInv, BuiltInv, [Next]_vars
    PROVE  BuiltInv'
  <1>0. BuiltSoFar /\ (UNCHANGED <<trip, source>> => SourceBuilt')
    BY DEF BuiltInv, SourceBuilt
  <1>1. ASSUME NEW seg \in Ahead,
               \/ GetSOI(seg) \/ GetSOF(seg) \/ GetDQT(seg) \/ GetTables(seg) \/ SaveMarker(seg)
               \/ SkipOrRefuse(seg) \/ GetSOS(seg) \/ GetEOI(seg)
        PROVE  BuiltInv'
    <2>1. Take(seg)
      BY <1>1 DEF GetSOI, GetSOF, GetDQT, GetTables, SaveMarker, SkipOrRefuse, GetSOS, GetEOI
    <2>2. state' \in {"reading", "read", "error"}
      BY <1>1, <2>1 DEF Take, GetSOI, GetSOF, GetDQT, GetTables, SaveMarker, SkipOrRefuse, GetSOS,
                        GetEOI, Fails
    <2>3. BuiltSoFar'
      BY <2>2 DEF BuiltSoFar
    <2>. QED
      BY <1>0, <2>1, <2>3 DEF BuiltInv, Take, call
  <1>2. CASE EndOfFile \/ CopyCriticalParameters
    <2>1. UNCHANGED <<trip, source>> /\ state' \in {"read", "copied", "error"}
      BY <1>2 DEF EndOfFile, CopyCriticalParameters, call
    <2>2. BuiltSoFar'
      BY <2>1 DEF BuiltSoFar
    <2>. QED
      BY <1>0, <2>1, <2>2 DEF BuiltInv
  <1>3. CASE \/ WriteCoefficients \/ CopyMarker \/ FinishCompress \/ EmitDQT \/ EmitSOF \/ EmitScan
             \/ EmitEOI
    <2>1. UNCHANGED <<trip, source>>
      BY <1>3 DEF WriteCoefficients, CopyMarker, FinishCompress, EmitDQT, EmitSOF, EmitScan, EmitEOI
    <2>2. BuiltSoFar'
      BY <1>0, <1>3, HeaderBuilt, CopyBuilt, FinishBuilt, DQTBuilt, SOFBuilt, ScanBuilt, EOIBuilt
    <2>. QED
      BY <1>0, <2>1, <2>2 DEF BuiltInv
  <1>4. CASE Merge
    <2>1. UNCHANGED <<trip, source>> /\ state' = "written" /\ merged' = TRUE
      BY <1>4 DEF Merge
    <2>2. BuiltSoFar'
      BY <2>1 DEF BuiltSoFar
    <2>. QED
      BY <1>0, <2>1, <2>2 DEF BuiltInv
  <1>5. CASE Again
    BY <1>0, <1>5, AgainBuilt
  <1>6. CASE UNCHANGED vars
    <2>1. UNCHANGED <<trip, source, state, next, merged, output, marker_list, jpeg_color_space,
                      comp_info, coef, quant_tbl_ptrs, progressive>>
      BY <1>6 DEF vars, call, reader, scans, frame
    <2>2. UNCHANGED <<Aside, Contents>>
      BY <2>1, ContentsStay DEF Aside
    <2>3. UNCHANGED ImageScript
      BY <2>1, Zenon DEF ImageScript
    <2>4. BuiltSoFar'
      BY <1>0, <2>1, <2>2, <2>3 DEF BuiltSoFar
    <2>. QED
      BY <1>0, <2>1, <2>4 DEF BuiltInv
  <1>. QED
    BY <1>1, <1>2, <1>3, <1>4, <1>5, <1>6 DEF Next

(* At every step, what has been written is a function of what was read.    *)
THEOREM OutputIsDetermined == Spec => []BuiltInv
  <1>1. Init => BuiltInv
    BY BuiltInit
  <1>2. Inv /\ MoreTypes /\ SoundInv /\ MarkerInv /\ BuiltInv /\ [Next]_vars => BuiltInv'
    BY BuiltNext
  <1>. QED
    BY <1>1, <1>2, WrittenFilesAreSound, MarkersInStep, PTL DEF Spec

(* The tables, found again in the file.                                    *)
LEMMA TableInFile ==
    ASSUME NEW space, NEW aliens, NEW comps, NEW contents, NEW slots, NEW prog,
           NEW c \in 1 .. Len(comps),
           IsSequence(aliens), Len(comps) \in Nat, FirstUseIn(comps, c),
           Len(ScriptFor(space, comps, prog)) \in Nat
    PROVE  Occurs(TableOf(comps, slots, c), File(space, aliens, comps, contents, slots, prog))
  <1> DEFINE F == Front(space, aliens)
             T == TablesOf(comps, slots, Len(comps))
             G == Framed(F, comps, slots, prog)
             script == ScriptFor(space, comps, prog)
             S == ScansSent(comps, contents, script, Len(script))
             e == TableOf(comps, slots, c)
  <1>1. IsSequence(F)
    BY FrontSequence
  <1>2. IsSequence(S)
    <2>. HIDE DEF script
    <2>1. Len(script) \in Nat
      BY DEF script
    <2>. QED
      BY <2>1, ScansNext
  <1>3. Occurs(e, T)
    <2> DEFINE s == [d \in 1 .. Len(comps) |-> TableOf(comps, slots, d)]
               K == {d \in 1 .. Len(comps) : FirstUseIn(comps, d)}
    <2>1. c \in K /\ c \in Nat \ {0} /\ c <= Len(comps) /\ s[c] = e /\ T = Picked(s, K, Len(comps))
      BY DEF TablesOf
    <2>. HIDE DEF s, K, e, T
    <2>. QED
      BY <2>1, PickedHas
  <1>. HIDE DEF F, e
  <1>4. IsSequence(T) /\ IsSequence(F \o T) /\ IsSequence(G)
    BY <1>1, FramedSequence
  <1>5. G = Append(F \o T, FrameOf(comps, prog))
    BY DEF Framed
  <1>6. File(space, aliens, comps, contents, slots, prog) = Append(G \o S, EOI)
    BY DEF File, F
  <1>. HIDE DEF T, G, S
  <1>7. Occurs(e, F \o T)
    BY <1>1, <1>3, <1>4, OccursJoined
  <1>8. Occurs(e, G)
    BY <1>4, <1>5, <1>7, OccursAppended
  <1>9. Occurs(e, G \o S) /\ IsSequence(G \o S)
    BY <1>2, <1>4, <1>8, OccursJoined
  <1>10. Occurs(e, Append(G \o S, EOI))
    BY <1>9, OccursAppended
  <1>. QED
    BY <1>6, <1>10 DEF e

(* Equal tables at first uses make equal tables in the file.               *)
LEMMA SameTables ==
    ASSUME NEW comps, NEW slots, NEW others, Len(comps) \in Nat,
           \A c \in 1 .. Len(comps) :
              FirstUseIn(comps, c) => TableOf(comps, slots, c) = TableOf(comps, others, c)
    PROVE  TablesOf(comps, slots, Len(comps)) = TablesOf(comps, others, Len(comps))
  <1> DEFINE s == [c \in 1 .. Len(comps) |-> TableOf(comps, slots, c)]
             t == [c \in 1 .. Len(comps) |-> TableOf(comps, others, c)]
             K == {c \in 1 .. Len(comps) : FirstUseIn(comps, c)}
  <1>1. \A i \in 1 .. Len(comps) : (i \in K <=> i \in K) /\ (i \in K => s[i] = t[i])
    OBVIOUS
  <1>. HIDE DEF s, t, K
  <1>2. Picked(s, K, Len(comps)) = Picked(t, K, Len(comps))
    BY <1>1, PickedSame
  <1>. QED
    BY <1>2 DEF TablesOf, s, t, K

(* Equal contents of the components make equal scans.                      *)
LEMMA SameScans ==
    ASSUME NEW comps, NEW script, NEW contents, NEW others, Len(comps) \in Nat,
           \A n \in 1 .. Len(script) : script[n] \in ScansOf(Len(comps)),
           \A c \in 1 .. Len(comps) : others[c] = contents[c]
    PROVE  ScansSent(comps, contents, script, Len(script)) = ScansSent(comps, others, script, Len(script))
  <1>1. ASSUME NEW n \in 1 .. Len(script)
        PROVE  ScanAt(comps, contents, script, n) = ScanAt(comps, others, script, n)
    <2> DEFINE x == script[n].component_index
    <2>1. x \in {<<c - 1>> : c \in 1 .. Len(comps)} \cup {Whole(Len(comps))}
      BY DEF ScansOf
    <2>. HIDE DEF x
    <2>2. \A i \in DOMAIN x : x[i] + 1 \in 1 .. Len(comps)
      <3>1. CASE x = Whole(Len(comps))
        BY <3>1 DEF Whole
      <3>2. ASSUME NEW c \in 1 .. Len(comps), x = <<c - 1>>
            PROVE  \A i \in DOMAIN x : x[i] + 1 \in 1 .. Len(comps)
        <4>1. DOMAIN x = {1} /\ x[1] = c - 1 /\ (c - 1) + 1 = c
          BY <3>2
        <4>. QED
          BY <4>1
      <3>. QED
        BY <2>1, <3>1, <3>2
    <2>3. [i \in DOMAIN x |-> [of |-> x[i] + 1, scan |-> n, data |-> contents[x[i] + 1]]]
             = [i \in DOMAIN x |-> [of |-> x[i] + 1, scan |-> n, data |-> others[x[i] + 1]]]
      <3>1. \A i \in DOMAIN x : others[x[i] + 1] = contents[x[i] + 1]
        BY <2>2
      <3>. QED
        BY <3>1
    <2>. QED
      BY <2>3, Zenon DEF ScanAt, x
  <1>2. [n \in 1 .. Len(script) |-> ScanAt(comps, contents, script, n)]
           = [n \in 1 .. Len(script) |-> ScanAt(comps, others, script, n)]
    BY <1>1
  <1>. QED
    BY <1>2, Zenon DEF ScansSent

(* What is written from what was written is what was written.              *)
LEMMA WrittenAgain ==
    ASSUME Inv, MoreTypes, SoundInv, MarkerInv, DataInv, BuiltInv, CoefficientsKeptByIds,
           trip > 0, state = "written", ~merged, ~LateJFIF, DistinctIds,
           source.leading = <<>>, progressive = source.progressive
    PROVE  output = source.output
  <1> DEFINE sp == jpeg_color_space
             old == source.output
             prog == progressive
             A == Aside
  <1>1. Read
    BY DEF Read
  <1>2. /\ Behind = Len(old) /\ comp_info = source.comp_info /\ ~inheaders
        /\ Len(comp_info) \in Nat
    BY AllRead DEF Inv, Types
  <1>3. /\ sp = source.space
        /\ Foreign(marker_list) = A
        /\ Foreign(source.marker_list) = Aliens(sp, source.marker_list, Len(source.marker_list))
        /\ Foreign(marker_list) = <<>> \o Foreign(source.marker_list)
    BY <1>1, KeptInStep DEF Aside
  <1>4. IsSequence(A)
    BY KeptAreMarkers, AliensSequence DEF Aside
  <1>5. A = Aliens(sp, source.marker_list, Len(source.marker_list))
    <2>1. Len(source.marker_list) \in Nat
      BY DEF Inv, SourceWritten
    <2>2. IsSequence(Foreign(source.marker_list))
      BY <1>3, <2>1, AliensSequence
    <2>3. PICK S : Foreign(source.marker_list) \in Seq(S)
      BY <2>2 DEF IsSequence
    <2>4. <<>> \o Foreign(source.marker_list) = Foreign(source.marker_list)
      BY <2>3, ConcatEmptySeq
    <2>. QED
      BY <1>3, <2>4
  <1>6. PICK slots : old = File(sp, A, comp_info, source.content, slots, prog)
    <2>1. PICK slots : old = File(source.space, Aliens(source.space, source.marker_list,
                                                       Len(source.marker_list)),
                                  source.comp_info, source.content, slots, source.progressive)
      BY DEF BuiltInv, SourceBuilt
    <2>2. old = File(sp, A, comp_info, source.content, slots, prog)
      BY <1>2, <1>3, <1>5, <2>1
    <2>. QED
      BY <2>2
  <1>7. output = File(sp, A, comp_info, Contents, quant_tbl_ptrs, prog)
    BY DEF BuiltInv, BuiltSoFar
  <1>8. /\ Len(ScriptFor(sp, comp_info, prog)) \in Nat
        /\ \A n \in 1 .. Len(ScriptFor(sp, comp_info, prog)) :
              ScriptFor(sp, comp_info, prog)[n] \in ScansOf(Len(comp_info))
    BY <1>2, ScriptFacts, ScriptIsFor
  <1>. HIDE DEF sp, old, prog, A
  <1>9. ASSUME NEW c \in 1 .. Len(comp_info), FirstUseIn(comp_info, c)
        PROVE  TableOf(comp_info, slots, c) = TableOf(comp_info, quant_tbl_ptrs, c)
    <2> DEFINE e == TableOf(comp_info, slots, c)
    <2>1. Occurs(e, old)
      BY <1>2, <1>4, <1>6, <1>8, <1>9, TableInFile
    <2>2. PICK k \in 1 .. Len(old) : old[k] = e
      BY <2>1 DEF Occurs
    <2>3. e.marker = "DQT" /\ e.slot = comp_info[c].quant_tbl_no /\ e.table = slots[comp_info[c].quant_tbl_no]
      BY DEF TableOf
    <2>. HIDE DEF e
    <2>4. quant_tbl_ptrs[e.slot] = e.table
      BY <1>2, <2>2, <2>3 DEF SoundInv, ReaderInv, SlotsRead, Rereading, old
    <2>. QED
      BY <2>3, <2>4 DEF TableOf
  <1>10. TablesOf(comp_info, slots, Len(comp_info)) = TablesOf(comp_info, quant_tbl_ptrs, Len(comp_info))
    BY <1>2, <1>9, SameTables
  <1>11. \A front : Framed(front, comp_info, slots, prog) = Framed(front, comp_info, quant_tbl_ptrs, prog)
    BY <1>10 DEF Framed
  <1>12. \A c \in 1 .. Len(comp_info) : Contents[c] = source.content[c]
    BY <1>1, SameContents
  <1>13. File(sp, A, comp_info, source.content, slots, prog)
            = File(sp, A, comp_info, Contents, quant_tbl_ptrs, prog)
    <2> DEFINE script == ScriptFor(sp, comp_info, prog)
    <2>1. ScansSent(comp_info, source.content, script, Len(script))
             = ScansSent(comp_info, Contents, script, Len(script))
      <3>. HIDE DEF script
      <3>. QED
        BY <1>2, <1>8, <1>12, SameScans DEF script
    <2>. HIDE DEF script
    <2>. QED
      BY <1>11, <2>1 DEF File, script
  <1>. QED
    BY <1>6, <1>7, <1>13 DEF old

(* Re-encoding what reencode() has written, with the same option, no EXIF  *)
(* put in front and no two components of one id, gives the same file       *)
(* segment for segment, with the same data in its scans.                   *)
THEOREM SecondTripChangesNothing == Spec => []SecondTripIsIdentity
  <1>1. Inv /\ MoreTypes /\ SoundInv /\ MarkerInv /\ DataInv /\ BuiltInv /\ CoefficientsKeptByIds
           => SecondTripIsIdentity
    BY WrittenAgain DEF SecondTripIsIdentity
  <1>. QED
    BY <1>1, WrittenFilesAreSound, MarkersInStep, ScansCarryContents, OutputIsDetermined,
       CoefficientsAreKept, PTL

=============================================================================
