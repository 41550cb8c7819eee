-------------------------- MODULE MergeExifProofs --------------------------
(***************************************************************************)
(* Proofs about MergeExif for all files of bytes.                          *)
(***************************************************************************)
EXTENDS MergeExif, TLAPS, SequenceTheorems

-----------------------------------------------------------------------------
(* A number of two bytes is what its bytes say.                            *)
LEMMA TwoBytes ==
    ASSUME NEW s \in Nat, s < 65536
    PROVE  /\ s \div 256 \in Nat /\ s \div 256 < 256
           /\ s % 256 \in 0 .. 255
           /\ s % 256 = s - 256 * (s \div 256)
<1>1. s \div 256 \in Nat /\ s \div 256 < 256
  BY SMTT(10)
<1>2. s % 256 \in 0 .. 255
  BY SMTT(10)
<1>3. s % 256 = s - 256 * (s \div 256)
  BY SMTT(10)
<1> QED
  BY <1>1, <1>2, <1>3

(* The two bytes of a length are decoded to what was encoded.              *)
LEMMA SizeRoundTrip ==
    ASSUME NEW size \in Nat, size <= 65533
    PROVE  SegmentSize(EncodedSize(size)) = size + 2
<1> DEFINE s == size + 2
           q == s \div 256
           r == s % 256
<1>1. s \in Nat /\ s < 65536
  OBVIOUS
<1>2. q \in Nat /\ q < 256 /\ r \in 0 .. 255 /\ r = s - 256 * q
  BY <1>1, TwoBytes
<1>3. EncodedSize(size) = <<q % 256, r>>
  BY DEF EncodedSize
<1> HIDE DEF s, q, r
<1>4. \A n \in Nat : n < 256 => n % 256 = n
  BY SMTT(10)
<1>5. q % 256 = q
  BY <1>2, <1>4
<1>6. q * 256 + r = s
  BY <1>1, <1>2
<1> QED
  BY <1>3, <1>5, <1>6 DEF SegmentSize, s

(* A length read from a file has two bytes, so the payload is never longer *)
(* than can be encoded again.                                              *)
LEMMA SizeBounds ==
    ASSUME NEW bytes \in [1 .. 2 -> Bytes]
    PROVE  SegmentSize(bytes) \in Nat /\ SegmentSize(bytes) <= 65535
<1>1. bytes[1] \in Bytes /\ bytes[2] \in Bytes
  OBVIOUS
<1>2. /\ bytes[1] \in Nat /\ bytes[1] <= 255
      /\ bytes[2] \in Nat /\ bytes[2] <= 255
  <2>1. \A b \in 0 .. 255 : b \in Nat /\ b <= 255
    OBVIOUS
  <2> QED
    BY <1>1, <2>1, BytesAssumption
<1> DEFINE b1 == bytes[1]
           b2 == bytes[2]
<1> HIDE DEF b1, b2
<1>3. b1 * 256 + b2 \in Nat /\ b1 * 256 + b2 <= 65535
  <2>1. b1 \in Nat /\ b1 <= 255 /\ b2 \in Nat /\ b2 <= 255
    BY <1>2 DEF b1, b2
  <2> QED
    BY <2>1
<1> QED
  BY <1>3 DEF SegmentSize, b1, b2

(* fread leaves bytes in the buffer, wherever they come from.              *)
LEMMA ReadTwoType ==
    ASSUME NEW buffer \in [1 .. 2 -> Bytes], NEW f \in Seq(Bytes), NEW position \in Nat
    PROVE  ReadTwo(buffer, f, position) \in [1 .. 2 -> Bytes]
<1> SUFFICES ASSUME NEW i \in 1 .. 2, position + i <= Len(f)
             PROVE  f[position + i] \in Bytes
  BY DEF ReadTwo
<1>1. position + i \in 1 .. Len(f)
  BY LenProperties
<1> QED
  BY <1>1, ElementOfSeq

(* A payload is as long as it is said to be: what is not read is junk.     *)
LEMMA ReadPayloadType ==
    ASSUME NEW f \in Seq(Bytes), NEW size \in Nat \ {0}
    PROVE  /\ ReadPayload(f, size) \in Payloads
           /\ Len(ReadPayload(f, size).read) + ReadPayload(f, size).junk = size
<1> DEFINE last == IF Len(f) < 6 + size THEN Len(f) ELSE 6 + size
           read == SubSeq(f, 7, last)
<1>1. Len(f) \in Nat
  BY LenProperties
<1>2. last \in 0 .. Len(f) /\ last <= 6 + size
  BY <1>1
<1>3. read \in Seq(Bytes) /\ Len(read) = IF 7 <= last THEN last - 6 ELSE 0
  <2>1. CASE 7 <= last
    BY <1>1, <1>2, <2>1, SubSeqProperties
  <2>2. CASE ~(7 <= last)
    <3>1. read = <<>>
      BY <1>1, <1>2, <2>2, SubSeqEmpty
    <3> QED
      BY <2>2, <3>1
  <2> QED
    BY <2>1, <2>2
<1> HIDE DEF read
<1>4. size - Len(read) \in Nat /\ Len(read) + (size - Len(read)) = size
  BY <1>2, <1>3
<1>5. ReadPayload(f, size) = [read |-> read, junk |-> size - Len(read)]
  BY DEF ReadPayload, read
<1> QED
  BY <1>3, <1>4, <1>5 DEF Payloads

-----------------------------------------------------------------------------
(* The merge.                                                              *)

PieceSet == {Pieces[i] : i \in 1 .. 5}

(* The payload is as long as exif_size says, exif_size can be encoded, and *)
(* the pieces are written in their order.                                  *)
MergeInv ==
    /\ exif_file \in Seq(Bytes)
    /\ exif_size \in Int /\ exif_size <= 65533
    /\ exif_data \in Payloads
    /\ Len(exif_data.read) + exif_data.junk \in {0, exif_size}
    /\ "exif_data" \in heap => Len(exif_data.read) + exif_data.junk = exif_size
    /\ pc = "read_exif" => heap = {}
    /\ pc \in {"read_exif"} => exif_data = NoPayload /\ exif_size = 0
    /\ pc \in {"read_exif", "read_image", "choose"} => output.kind # "pieces"
    /\ output.kind = "pieces" =>
          exif_size > 0 /\ Len(exif_data.read) + exif_data.junk = exif_size
    /\ pc = "fwrite" => /\ Written \in 0 .. 4
                        /\ output.kind = "pieces"
                        /\ output.pieces \in Seq(PieceSet)
                        /\ \A i \in 1 .. Written : output.pieces[i] = Pieces[i]
    /\ pc \in {"fclose", "returned"} /\ output.kind = "pieces" /\ ~lost =>
          \A i \in 1 .. 5 : output.pieces[i] = Pieces[i]

(* Nothing has been read yet.                                              *)
LEMMA InitMerge == Init => MergeInv
  BY FilesAssumption DEF Init, MergeInv, NoPayload, Payloads, Previous

(* A length that is read is one of two bytes, less two.                    *)
LEMMA ExifSizeType ==
    ASSUME NEW f \in Seq(Bytes), NEW uninitialized \in Bytes \X Bytes
    PROVE  /\ ExifSize(f, uninitialized) \in Int
           /\ ExifSize(f, uninitialized) >= -2 /\ ExifSize(f, uninitialized) <= 65533
<1> DEFINE first  == ReadTwo(uninitialized, f, 0)
           second == ReadTwo(first, f, 2)
           third  == ReadTwo(second, f, 4)
<1>1. uninitialized \in [1 .. 2 -> Bytes]
  OBVIOUS
<1>2. third \in [1 .. 2 -> Bytes]
  BY <1>1, ReadTwoType
<1>3. ExifSize(f, uninitialized) =
         IF first = jpeg_marker /\ second = exif_marker THEN SegmentSize(third) - 2 ELSE 0
  BY DEF ExifSize
<1> HIDE DEF first, second, third
<1>4. SegmentSize(third) \in Nat /\ SegmentSize(third) <= 65535
  BY <1>2, SizeBounds
<1> QED
  BY <1>3, <1>4

(* The segment that is read is of the length exif_size gives.              *)
LEMMA ReadExifMerge == MergeInv /\ (ReadExif \/ NoExifMemory) => MergeInv'
<1> SUFFICES ASSUME MergeInv, ReadExif \/ NoExifMemory PROVE MergeInv'
  OBVIOUS
<1>1. /\ exif_file \in Seq(Bytes) /\ exif_data = NoPayload /\ heap = {}
      /\ output.kind # "pieces" /\ pc' \in {"read_image", "crashed"}
      /\ UNCHANGED <<exif_file, output>>
  BY DEF MergeInv, ReadExif, NoExifMemory, files
<1>2. PICK uninitialized \in Bytes \X Bytes : exif_size' = ExifSize(exif_file, uninitialized)
  BY DEF ReadExif, NoExifMemory
<1>3. exif_size' \in Int /\ exif_size' <= 65533
  BY <1>1, <1>2, ExifSizeType
<1>4. NoPayload \in Payloads /\ Len(NoPayload.read) + NoPayload.junk = 0
  BY DEF NoPayload, Payloads
<1>5. \/ exif_data' = NoPayload /\ heap' = {}
      \/ exif_size' > 0 /\ exif_data' = ReadPayload(exif_file, exif_size')
  BY <1>1 DEF ReadExif, NoExifMemory
<1>6. CASE exif_data' = NoPayload /\ heap' = {}
  BY <1>1, <1>3, <1>4, <1>6 DEF MergeInv
<1>7. CASE exif_size' > 0 /\ exif_data' = ReadPayload(exif_file, exif_size')
  <2> DEFINE size == exif_size'
  <2>1. size \in Nat \ {0}
    BY <1>3, <1>7
  <2> HIDE DEF size
  <2>2. /\ ReadPayload(exif_file, size) \in Payloads
        /\ Len(ReadPayload(exif_file, size).read) + ReadPayload(exif_file, size).junk = size
    BY <1>1, <2>1, ReadPayloadType
  <2>3. /\ exif_data' \in Payloads
        /\ Len(exif_data'.read) + exif_data'.junk = exif_size'
    BY <1>7, <2>2 DEF size
  <2> QED
    BY <1>1, <1>3, <2>3 DEF MergeInv
<1> QED
  BY <1>5, <1>6, <1>7

(* Every piece that is written is the next of them.                        *)
LEMMA FwriteMerge == MergeInv /\ Fwrite => MergeInv'
<1> SUFFICES ASSUME MergeInv, Fwrite PROVE MergeInv'
  OBVIOUS
<1> DEFINE n == Len(output.pieces)
           old == output.pieces
           new == Append(old, Pieces[n + 1])
<1>1. /\ pc = "fwrite" /\ output.kind = "pieces" /\ n \in 0 .. 4
      /\ old \in Seq(PieceSet)
      /\ \A i \in 1 .. n : old[i] = Pieces[i]
      /\ UNCHANGED <<exif_file, exif_size, exif_data, image_data, heap, lost>>
  BY DEF MergeInv, Fwrite, Written, files, exif
<1>2. pc' = IF n + 1 = Len(Pieces) THEN "fclose" ELSE "fwrite"
  BY DEF Fwrite, Written
<1>3. output' = [output EXCEPT !.pieces = new]
  BY DEF Fwrite, Written
<1>4. output'.kind = "pieces" /\ output'.pieces = new
  BY <1>1, <1>3
<1>5. Pieces' = Pieces /\ PieceSet' = PieceSet
  BY <1>1 DEF Pieces, PieceSet
<1>6. Len(Pieces) = 5
  BY DEF Pieces
<1>7. n + 1 \in 1 .. 5
  BY <1>1
<1>8. Pieces[n + 1] \in PieceSet
  BY <1>7 DEF PieceSet
<1>9. /\ new \in Seq(PieceSet) /\ Len(new) = n + 1
      /\ \A i \in 1 .. n : new[i] = old[i]
      /\ new[n + 1] = Pieces[n + 1]
  BY <1>1, <1>8, AppendProperties
<1> HIDE DEF n, old, new
<1>10. \A i \in 1 .. n + 1 : new[i] = Pieces[i]
  <2> SUFFICES ASSUME NEW i \in 1 .. n + 1 PROVE new[i] = Pieces[i]
    OBVIOUS
  <2>1. CASE i = n + 1
    BY <1>9, <2>1
  <2>2. CASE i # n + 1
    <3>1. i \in 1 .. n
      BY <1>1, <2>2
    <3>2. new[i] = old[i]
      BY <1>9, <3>1
    <3>3. old[i] = Pieces[i]
      BY <1>1, <3>1
    <3> QED
      BY <3>2, <3>3
  <2> QED
    BY <2>1, <2>2
<1>11. Written' = n + 1
  BY <1>4, <1>9 DEF Written
<1>12. CASE n = 4
  <2>1. pc' = "fclose"
    BY <1>2, <1>6, <1>12
  <2> QED
    BY <1>1, <1>4, <1>5, <1>10, <1>12, <2>1 DEF MergeInv
<1>13. CASE n # 4
  <2>1. pc' = "fwrite" /\ n + 1 \in 0 .. 4
    BY <1>1, <1>2, <1>6, <1>13
  <2> QED
    BY <1>1, <1>4, <1>5, <1>9, <1>10, <1>11, <2>1 DEF MergeInv
<1> QED
  BY <1>12, <1>13

(* Every step preserves the invariant.                                     *)
LEMMA NextMerge == MergeInv /\ [Next]_vars => MergeInv'
<1> SUFFICES ASSUME MergeInv, [Next]_vars PROVE MergeInv'
  OBVIOUS
<1> USE DEF files, exif
<1>1. CASE ReadExif \/ NoExifMemory
  BY <1>1, ReadExifMerge
<1>2. CASE NoExifFile \/ NoImageFile
  <2>1. /\ output.kind # "pieces" /\ pc' = "returned" /\ heap' = {}
        /\ UNCHANGED <<exif_file, exif_size, exif_data, output>>
    BY <1>2 DEF NoExifFile, NoImageFile, Return, MergeInv
  <2> QED
    BY <2>1 DEF MergeInv
<1>3. CASE ReadImage \/ NoImageMemory \/ NoOutput
  <2>1. /\ output.kind # "pieces" /\ pc' \in {"choose", "crashed"}
        /\ heap' \subseteq heap \cup {"image_data"}
        /\ UNCHANGED <<exif_file, exif_size, exif_data, output>>
    BY <1>3 DEF ReadImage, NoImageMemory, NoOutput, MergeInv
  <2> QED
    BY <2>1 DEF MergeInv
<1>4. CASE OpenOutput
  <2>1. /\ exif_size > 0 /\ "exif_data" \in heap /\ pc' = "fwrite"
        /\ output' = [kind |-> "pieces", pieces |-> <<>>]
        /\ UNCHANGED <<exif_file, exif_size, exif_data, heap>>
    BY <1>4 DEF OpenOutput, HasExif
  <2>2. Written' = 0 /\ output'.pieces \in Seq(PieceSet)' /\ output'.kind = "pieces"
    BY <2>1 DEF Written
  <2> QED
    BY <2>1, <2>2 DEF MergeInv
<1>5. CASE Fwrite
  BY <1>5, FwriteMerge
<1>6. CASE FwriteShort
  BY <1>6 DEF FwriteShort, MergeInv
<1>7. CASE Fclose
  <2>1. /\ pc = "fclose" /\ pc' = "returned" /\ heap' = {}
        /\ UNCHANGED <<exif_file, exif_size, exif_data, image_data, output, lost>>
    BY <1>7 DEF Fclose, Return
  <2>2. Pieces' = Pieces
    BY <2>1 DEF Pieces
  <2> QED
    BY <2>1, <2>2 DEF MergeInv
<1>8. CASE Rename
  <2>1. /\ output'.kind # "pieces" /\ pc' = "returned" /\ heap' = {}
        /\ UNCHANGED <<exif_file, exif_size, exif_data>>
    BY <1>8 DEF Rename, Return, MergeInv
  <2> QED
    BY <2>1 DEF MergeInv
<1>9. CASE UNCHANGED vars
  <2>1. UNCHANGED <<pc, exif_file, exif_size, exif_data, image_data, heap, output, lost>>
    BY <1>9 DEF vars
  <2>2. Pieces' = Pieces /\ PieceSet' = PieceSet /\ Written' = Written
    BY <2>1 DEF Pieces, PieceSet, Written
  <2> QED
    BY <2>1, <2>2 DEF MergeInv
<1> QED
  BY <1>1, <1>2, <1>3, <1>4, <1>5, <1>6, <1>7, <1>8, <1>9 DEF Next

(* For every file of bytes the length in the merged file is that of the    *)
(* segment that follows it, even when the EXIF file ends too soon.         *)
THEOREM LengthIsTrue == Spec => []SegmentLengthTrue
<1>1. MergeInv => SegmentLengthTrue
  <2> SUFFICES ASSUME MergeInv, Merged
               PROVE  SegmentSize(output.pieces[3]) =
                         2 + Len(output.pieces[4].read) + output.pieces[4].junk
    BY DEF SegmentLengthTrue
  <2>1. \A i \in 1 .. 5 : output.pieces[i] = Pieces[i]
    BY DEF Merged, MergeInv
  <2>2. output.pieces[3] = EncodedSize(exif_size) /\ output.pieces[4] = exif_data
    BY <2>1 DEF Pieces
  <2>3. exif_size \in Nat /\ exif_size <= 65533
        /\ Len(exif_data.read) + exif_data.junk = exif_size
    BY DEF Merged, MergeInv
  <2>4. Len(exif_data.read) \in Nat /\ exif_data.junk \in Nat
    BY DEF MergeInv, Payloads
  <2>5. SegmentSize(EncodedSize(exif_size)) = exif_size + 2
    BY <2>3, SizeRoundTrip
  <2> HIDE DEF Merged
  <2> QED
    BY <2>2, <2>3, <2>4, <2>5
<1> QED
  BY <1>1, InitMerge, NextMerge, PTL DEF Spec

-----------------------------------------------------------------------------
(* What is held while the calls are made: the output is open only while it *)
(* is written, and every return has been through ReleaseMemory.            *)

HeldInv ==
    /\ pc \in {"read_exif", "read_image", "choose", "returned"} => streams = {}
    /\ pc = "returned" => heap = {}

(* Every step keeps what is said of the open files and the memory.         *)
LEMMA NextHeld == HeldInv /\ [Next]_vars => HeldInv'
<1> SUFFICES ASSUME HeldInv, [Next]_vars PROVE HeldInv'
  OBVIOUS
<1>1. CASE ReadExif \/ ReadImage
  BY <1>1 DEF HeldInv, ReadExif, ReadImage, Return
<1>2. CASE NoExifFile \/ NoImageFile \/ Rename
  BY <1>2 DEF HeldInv, NoExifFile, NoImageFile, Rename, Return
<1>3. CASE NoExifMemory \/ NoImageMemory \/ NoOutput
  BY <1>3 DEF HeldInv, NoExifMemory, NoImageMemory, NoOutput
<1>4. CASE OpenOutput
  BY <1>4 DEF HeldInv, OpenOutput
<1>5. CASE Fwrite \/ FwriteShort
  BY <1>5 DEF HeldInv, Fwrite, FwriteShort
<1>6. CASE Fclose
  BY <1>6 DEF HeldInv, Fclose, Return
<1>7. CASE UNCHANGED vars
  BY <1>7 DEF HeldInv, vars
<1> QED
  BY <1>1, <1>2, <1>3, <1>4, <1>5, <1>6, <1>7 DEF Next

(* Every return, on every path, has closed the output and freed what was   *)
(* allocated for the segment and the picture.                              *)
THEOREM NothingIsHeld == Spec => []NothingHeld
<1>1. Init => HeldInv
  BY DEF Init, HeldInv
<1>2. HeldInv => NothingHeld
  BY DEF HeldInv, NothingHeld
<1> QED
  BY <1>1, <1>2, NextHeld, PTL DEF Spec

-----------------------------------------------------------------------------
(* What is merged is an APP1 segment with a payload.                       *)

(* Both markers are found only in a file that has them, whatever was in    *)
(* the buffer before, and the length is then read over the second.         *)
LEMMA ReadMarkers ==
    ASSUME NEW f \in Seq(Bytes), NEW uninitialized \in Bytes \X Bytes,
           ExifSize(f, uninitialized) > 0
    PROVE  /\ Len(f) >= 4
           /\ f[1] = 255 /\ f[2] = 216 /\ f[3] = 255 /\ f[4] = 225
           /\ ExifSize(f, uninitialized) = SegmentSize(ReadTwo(exif_marker, f, 4)) - 2
<1> DEFINE first  == ReadTwo(uninitialized, f, 0)
           second == ReadTwo(first, f, 2)
           third  == ReadTwo(second, f, 4)
<1>1. Len(f) \in Nat
  BY LenProperties
<1>2. ExifSize(f, uninitialized) =
         IF first = jpeg_marker /\ second = exif_marker THEN SegmentSize(third) - 2 ELSE 0
  BY DEF ExifSize
<1> HIDE DEF first, second, third
<1>3. first = jpeg_marker /\ second = exif_marker
  BY <1>2
<1>4. first[1] = 255 /\ first[2] = 216 /\ second[1] = 255 /\ second[2] = 225
  BY <1>3 DEF jpeg_marker, exif_marker
<1>5. second[2] = IF 4 <= Len(f) THEN f[4] ELSE first[2]
  BY <1>1 DEF second, ReadTwo
<1>6. 4 <= Len(f) /\ f[4] = 225
  BY <1>4, <1>5
<1>7. second[1] = f[3] /\ first[1] = f[1] /\ first[2] = f[2]
  BY <1>1, <1>6 DEF first, second, ReadTwo
<1>8. ExifSize(f, uninitialized) = SegmentSize(ReadTwo(exif_marker, f, 4)) - 2
  BY <1>2, <1>3 DEF third
<1> QED
  BY <1>1, <1>4, <1>6, <1>7, <1>8

(* What has been read is in the variables it was read into, and a segment  *)
(* with a payload was found behind SOI.                                    *)
SourceInv ==
    /\ exif_file \in Seq(Bytes) /\ image_file \in Seq(Bytes)
    /\ pc \in {"read_exif", "read_image"} => heap \subseteq {"exif_data"}
    /\ "image_data" \in heap => image_data = image_file
    /\ pc = "read_exif" => exif_size = 0
    /\ exif_size > 0 =>
          /\ Len(exif_file) >= 4
          /\ exif_file[1] = 255 /\ exif_file[2] = 216
          /\ exif_file[3] = 255 /\ exif_file[4] = 225
          /\ exif_size = SegmentSize(ReadTwo(exif_marker, exif_file, 4)) - 2
          /\ exif_data \in {NoPayload, ReadPayload(exif_file, exif_size)}
    /\ exif_size > 0 /\ "exif_data" \in heap => exif_data = ReadPayload(exif_file, exif_size)
    /\ output.kind = "pieces" =>
          /\ exif_size > 0 /\ pc # "choose"
          /\ image_data = image_file
          /\ exif_data = ReadPayload(exif_file, exif_size)
    /\ pc = "fwrite" => output.kind = "pieces"
    /\ pc \in {"read_exif", "read_image", "choose"} => output.kind = "previous"
    /\ output.kind = "renamed" => output.pieces = <<image_file>>

LEMMA ReadExifSource == SourceInv /\ MergeInv /\ (ReadExif \/ NoExifMemory) => SourceInv'
<1> SUFFICES ASSUME SourceInv, MergeInv, ReadExif \/ NoExifMemory PROVE SourceInv'
  OBVIOUS
<1>1. /\ exif_file \in Seq(Bytes) /\ exif_data = NoPayload /\ heap = {}
      /\ output.kind = "previous" /\ pc' \in {"read_image", "crashed"}
      /\ UNCHANGED <<exif_file, image_file, image_data, output>>
  BY DEF SourceInv, MergeInv, ReadExif, NoExifMemory, files
<1>2. PICK uninitialized \in Bytes \X Bytes : exif_size' = ExifSize(exif_file, uninitialized)
  BY DEF ReadExif, NoExifMemory
<1>3. exif_size' > 0 =>
         /\ Len(exif_file) >= 4
         /\ exif_file[1] = 255 /\ exif_file[2] = 216
         /\ exif_file[3] = 255 /\ exif_file[4] = 225
         /\ exif_size' = SegmentSize(ReadTwo(exif_marker, exif_file, 4)) - 2
  BY <1>1, <1>2, ReadMarkers
<1>4. \/ exif_data' = NoPayload /\ heap' = {}
      \/ exif_data' = ReadPayload(exif_file, exif_size') /\ heap' = {"exif_data"}
  BY <1>1 DEF ReadExif, NoExifMemory
<1> QED
  BY <1>1, <1>3, <1>4 DEF SourceInv

(* Every step preserves it: no other step writes exif_size, exif_data or   *)
(* a file, and the output is begun only with a segment found.              *)
LEMMA NextSource == SourceInv /\ MergeInv /\ [Next]_vars => SourceInv'
<1> SUFFICES ASSUME SourceInv, MergeInv, [Next]_vars PROVE SourceInv'
  OBVIOUS
<1> USE DEF files, exif
<1>1. CASE ReadExif \/ NoExifMemory
  BY <1>1, ReadExifSource
<1>2. CASE NoExifFile \/ NoImageFile
  BY <1>2 DEF SourceInv, NoExifFile, NoImageFile, Return
<1>3. CASE ReadImage
  BY <1>3 DEF SourceInv, ReadImage
<1>4. CASE NoImageMemory \/ NoOutput
  BY <1>4 DEF SourceInv, NoImageMemory, NoOutput
<1>5. CASE OpenOutput
  <2>1. /\ output'.kind = "pieces" /\ exif_size > 0
        /\ image_data = image_file /\ exif_data = ReadPayload(exif_file, exif_size)
    BY <1>5 DEF OpenOutput, HasExif, SourceInv
  <2> QED
    BY <1>5, <2>1 DEF SourceInv, OpenOutput
<1>6. CASE Fwrite
  <2>1. UNCHANGED <<files, exif, image_data, heap>> /\ pc = "fwrite" /\ pc' \in {"fwrite", "fclose"}
    BY <1>6 DEF Fwrite
  <2>2. output'.kind = output.kind
    BY <1>6 DEF Fwrite
  <2> QED
    BY <2>1, <2>2 DEF SourceInv
<1>7. CASE FwriteShort
  BY <1>7 DEF SourceInv, FwriteShort
<1>8. CASE Fclose
  BY <1>8 DEF SourceInv, Fclose, Return
<1>9. CASE Rename
  <2>1. /\ output' \in {output, [kind |-> "renamed", pieces |-> <<image_file>>]}
        /\ pc = "choose" /\ pc' = "returned" /\ heap' = {}
        /\ UNCHANGED <<files, exif, image_data>>
    BY <1>9 DEF Rename, Return
  <2> QED
    BY <2>1 DEF SourceInv
<1>10. CASE UNCHANGED vars
  BY <1>10 DEF SourceInv, vars
<1> QED
  BY <1>1, <1>2, <1>3, <1>4, <1>5, <1>6, <1>7, <1>8, <1>9, <1>10 DEF Next

LEMMA SourceKept == Spec => []SourceInv
<1>1. Init => SourceInv
  BY FilesAssumption DEF Init, SourceInv, Previous
<1> QED
  BY <1>1, NextSource, InitMerge, NextMerge, PTL DEF Spec

(* The start of a file and what follows it are a longer start of it.       *)
LEMMA LongerStart ==
    ASSUME NEW S, NEW f \in Seq(S)
    PROVE  \A k, l, n \in Nat : l = k + 1 /\ k <= n /\ n <= Len(f) =>
              SubSeq(f, 1, k) \o SubSeq(f, l, n) = SubSeq(f, 1, n)
<1> TAKE k, l, n \in Nat
<1> HAVE l = k + 1 /\ k <= n /\ n <= Len(f)
<1>1. Len(f) \in Nat
  BY LenProperties
<1>2. 1 \in 1 .. Len(f) + 1 /\ k \in 1 - 1 .. Len(f) /\ n \in k .. Len(f)
  BY <1>1
<1>3. SubSeq(f, 1, k) \o SubSeq(f, k + 1, n) = SubSeq(f, 1, n)
  BY <1>2, ConcatAdjacentSubSeq, Zenon
<1> QED
  BY <1>3

Octets == 0 .. 255

(* The bytes of a file and of a marker are numbers of one byte.            *)
LEMMA OctetValues ==
    /\ \A b \in Octets : b \in Nat /\ b <= 255
    /\ 255 \in Octets /\ 216 \in Octets /\ 225 \in Octets
    /\ Bytes \subseteq Octets
  BY BytesAssumption DEF Octets

LEMMA FilesOfBytes ==
    ASSUME NEW f \in Seq(Bytes)
    PROVE  f \in Seq(Octets) /\ Len(f) \in Nat
<1>1. Len(f) \in Nat /\ Bytes \subseteq Octets
  BY LenProperties, OctetValues
<1>2. \A i \in 1 .. Len(f) : f[i] \in Octets
  BY <1>1, ElementOfSeq
<1>3. f = [i \in 1 .. Len(f) |-> f[i]]
  OBVIOUS
<1> QED
  BY <1>1, <1>2, <1>3

(* What is taken for the start of a file is that of the file, two bytes of *)
(* a length included, and nothing is added to a file that has six.         *)
LEMMA CompletedStart ==
    ASSUME NEW f \in Seq(Bytes), Len(f) >= 4
    PROVE  /\ Completed(f) \in Seq(Octets)
           /\ Len(Completed(f)) = IF Len(f) < 6 THEN 6 ELSE Len(f)
           /\ \A i \in 1 .. Len(f) : Completed(f)[i] = f[i]
           /\ Completed(f)[5] = ReadTwo(exif_marker, f, 4)[1]
           /\ Completed(f)[6] = ReadTwo(exif_marker, f, 4)[2]
<1> DEFINE rest == SubSeq(exif_marker, Len(f) - 3, 2)
<1>1. f \in Seq(Octets) /\ Len(f) \in Nat
  BY FilesOfBytes
<1>2. exif_marker \in Seq(Octets) /\ Len(exif_marker) = 2
      /\ exif_marker[1] = 255 /\ exif_marker[2] = 225
  BY OctetValues DEF exif_marker
<1>3. /\ ReadTwo(exif_marker, f, 4)[1] = IF 5 <= Len(f) THEN f[5] ELSE 255
      /\ ReadTwo(exif_marker, f, 4)[2] = IF 6 <= Len(f) THEN f[6] ELSE 225
  BY <1>1, <1>2 DEF ReadTwo
<1>4. Completed(f) = f \o rest
  BY DEF Completed
<1>5. CASE Len(f) = 4
  <2>1. rest = SubSeq(exif_marker, 1, 2)
    BY <1>5
  <2> HIDE DEF rest
  <2>2. rest \in Seq(Octets) /\ Len(rest) = 2 /\ rest[1] = 255 /\ rest[2] = 225
    <3>1. 1 \in Int /\ 2 \in Int /\ \A i \in 1 .. 2 : exif_marker[i] \in Octets
      BY <1>2, OctetValues
    <3>2. /\ rest \in Seq(Octets) /\ Len(rest) = IF 1 <= 2 THEN 2 - 1 + 1 ELSE 0
          /\ \A i \in 1 .. 2 - 1 + 1 : rest[i] = exif_marker[1 + i - 1]
      BY <2>1, <3>1, SubSeqProperties
    <3> QED
      BY <1>2, <3>2
  <2>3. /\ f \o rest \in Seq(Octets)
        /\ Len(f \o rest) = Len(f) + Len(rest)
        /\ \A i \in 1 .. Len(f) + Len(rest) :
              (f \o rest)[i] = IF i <= Len(f) THEN f[i] ELSE rest[i - Len(f)]
    <3>1. f \in Seq(Octets) /\ rest \in Seq(Octets)
      BY <1>1, <2>2
    <3> HIDE DEF rest
    <3> QED
      BY ONLY <3>1, ConcatProperties
  <2> DEFINE c == f \o rest
  <2> HIDE DEF c
  <2>4. /\ c \in Seq(Octets) /\ Len(c) = 6
        /\ \A i \in 1 .. 6 : c[i] = IF i <= 4 THEN f[i] ELSE rest[i - 4]
    BY <1>5, <2>2, <2>3 DEF c
  <2>5. c[5] = 255 /\ c[6] = 225
    BY <2>2, <2>4
  <2>6. \A i \in 1 .. Len(f) : c[i] = f[i]
    BY <1>5, <2>4
  <2>7. ReadTwo(exif_marker, f, 4)[1] = 255 /\ ReadTwo(exif_marker, f, 4)[2] = 225
    BY <1>3, <1>5
  <2>8. Completed(f) = c
    BY <1>4 DEF c
  <2> QED
    BY <1>5, <2>4, <2>5, <2>6, <2>7, <2>8
<1>6. CASE Len(f) = 5
  <2>1. rest = SubSeq(exif_marker, 2, 2)
    BY <1>6
  <2> HIDE DEF rest
  <2>2. rest \in Seq(Octets) /\ Len(rest) = 1 /\ rest[1] = 225
    <3>1. 2 \in Int /\ \A i \in 2 .. 2 : exif_marker[i] \in Octets
      BY <1>2, OctetValues
    <3>2. /\ rest \in Seq(Octets) /\ Len(rest) = IF 2 <= 2 THEN 2 - 2 + 1 ELSE 0
          /\ \A i \in 1 .. 2 - 2 + 1 : rest[i] = exif_marker[2 + i - 1]
      BY <2>1, <3>1, SubSeqProperties
    <3> QED
      BY <1>2, <3>2
  <2>3. /\ f \o rest \in Seq(Octets)
        /\ Len(f \o rest) = Len(f) + Len(rest)
        /\ \A i \in 1 .. Len(f) + Len(rest) :
              (f \o rest)[i] = IF i <= Len(f) THEN f[i] ELSE rest[i - Len(f)]
    <3>1. f \in Seq(Octets) /\ rest \in Seq(Octets)
      BY <1>1, <2>2
    <3> HIDE DEF rest
    <3> QED
      BY ONLY <3>1, ConcatProperties
  <2> DEFINE c == f \o rest
  <2> HIDE DEF c
  <2>4. /\ c \in Seq(Octets) /\ Len(c) = 6
        /\ \A i \in 1 .. 6 : c[i] = IF i <= 5 THEN f[i] ELSE rest[i - 5]
    BY <1>6, <2>2, <2>3 DEF c
  <2>5. c[5] = f[5] /\ c[6] = 225
    BY <2>2, <2>4
  <2>6. \A i \in 1 .. Len(f) : c[i] = f[i]
    BY <1>6, <2>4
  <2>7. ReadTwo(exif_marker, f, 4)[1] = f[5] /\ ReadTwo(exif_marker, f, 4)[2] = 225
    BY <1>3, <1>6
  <2>8. Completed(f) = c
    BY <1>4 DEF c
  <2> QED
    BY <1>6, <2>4, <2>5, <2>6, <2>7, <2>8
<1>7. CASE Len(f) >= 6
  <2>1. rest = <<>>
    BY <1>1, <1>2, <1>7
  <2> HIDE DEF rest
  <2>2. Completed(f) = f
    BY <1>1, <1>4, <2>1, ConcatEmptySeq
  <2> QED
    BY <1>1, <1>3, <1>7, <2>2
<1>8. Len(f) = 4 \/ Len(f) = 5 \/ Len(f) >= 6
  <2> DEFINE n == Len(f)
  <2>1. n \in Nat /\ n >= 4
    BY <1>1
  <2> HIDE DEF n
  <2>2. n = 4 \/ n = 5 \/ n >= 6
    BY <2>1
  <2> QED
    BY <2>2 DEF n
<1> QED
  BY <1>5, <1>6, <1>7, <1>8, Zenon

(* The first bytes of what is taken for the start of a file with a         *)
(* segment, in the pieces they are read in.                                *)
LEMMA Starts ==
    ASSUME NEW f \in Seq(Bytes), Len(f) >= 4,
           f[1] = 255, f[2] = 216, f[3] = 255, f[4] = 225
    PROVE  LET c == Completed(f)
           IN  /\ SubSeq(f, 1, 4) = jpeg_marker \o exif_marker
               /\ SubSeq(c, 5, 6) = <<c[5], c[6]>>
               /\ c[5] \in Octets /\ c[6] \in Octets
               /\ SubSeq(c, 1, 6) = jpeg_marker \o exif_marker \o <<c[5], c[6]>>
               /\ SegmentSize(SubSeq(c, 5, 6)) = SegmentSize(ReadTwo(exif_marker, f, 4))
<1> DEFINE c == Completed(f)
<1>1. /\ c \in Seq(Octets) /\ Len(c) \in Nat /\ Len(c) >= 6
      /\ \A i \in 1 .. Len(f) : c[i] = f[i]
      /\ c[5] = ReadTwo(exif_marker, f, 4)[1]
      /\ c[6] = ReadTwo(exif_marker, f, 4)[2]
      /\ f \in Seq(Octets) /\ Len(f) \in Nat
  BY CompletedStart, FilesOfBytes
<1> HIDE DEF c
<1>2. c[5] \in Octets /\ c[6] \in Octets
  BY <1>1, ElementOfSeq
<1>3. c[1] = 255 /\ c[2] = 216 /\ c[3] = 255 /\ c[4] = 225
  <2>1. 1 \in 1 .. Len(f) /\ 2 \in 1 .. Len(f) /\ 3 \in 1 .. Len(f) /\ 4 \in 1 .. Len(f)
    BY <1>1
  <2>2. c[1] = f[1] /\ c[2] = f[2] /\ c[3] = f[3] /\ c[4] = f[4]
    BY <1>1, <2>1, Zenon
  <2> QED
    BY <2>2
<1>4. SubSeq(f, 1, 4) = jpeg_marker \o exif_marker
  <2> DEFINE s == SubSeq(f, 1, 4)
             t == jpeg_marker \o exif_marker
  <2>1. s \in Seq(Octets) /\ Len(s) = 4
        /\ s[1] = 255 /\ s[2] = 216 /\ s[3] = 255 /\ s[4] = 225
    BY <1>1
  <2>2. t \in Seq(Octets) /\ Len(t) = 4
        /\ t[1] = 255 /\ t[2] = 216 /\ t[3] = 255 /\ t[4] = 225
    BY OctetValues DEF jpeg_marker, exif_marker
  <2> HIDE DEF s, t
  <2>3. \A i \in 1 .. 4 : s[i] = t[i]
    <3> TAKE i \in 1 .. 4
    <3>1. i = 1 \/ i = 2 \/ i = 3 \/ i = 4
      OBVIOUS
    <3> QED
      BY <2>1, <2>2, <3>1
  <2>4. s = t
    BY <2>1, <2>2, <2>3, SeqEqual
  <2> QED
    BY <2>4 DEF s, t
<1>5. SubSeq(c, 5, 6) = <<c[5], c[6]>>
  <2> DEFINE s == SubSeq(c, 5, 6)
             t == <<c[5], c[6]>>
  <2>1. s \in Seq(Octets) /\ Len(s) = 2 /\ s[1] = c[5] /\ s[2] = c[6]
    BY <1>1
  <2>2. t \in Seq(Octets) /\ Len(t) = 2 /\ t[1] = c[5] /\ t[2] = c[6]
    BY <1>2
  <2> HIDE DEF s, t
  <2>3. \A i \in 1 .. 2 : s[i] = t[i]
    <3> TAKE i \in 1 .. 2
    <3>1. i = 1 \/ i = 2
      OBVIOUS
    <3> QED
      BY <2>1, <2>2, <3>1
  <2>4. s = t
    BY <2>1, <2>2, <2>3, SeqEqual
  <2> QED
    BY <2>4 DEF s, t
<1>6. SubSeq(c, 1, 6) = jpeg_marker \o exif_marker \o <<c[5], c[6]>>
  <2> DEFINE s == SubSeq(c, 1, 6)
             t == jpeg_marker \o exif_marker \o <<c[5], c[6]>>
  <2>1. s \in Seq(Octets) /\ Len(s) = 6
        /\ s[1] = 255 /\ s[2] = 216 /\ s[3] = 255 /\ s[4] = 225
        /\ s[5] = c[5] /\ s[6] = c[6]
    BY <1>1, <1>3
  <2>2. t \in Seq(Octets) /\ Len(t) = 6
        /\ t[1] = 255 /\ t[2] = 216 /\ t[3] = 255 /\ t[4] = 225
        /\ t[5] = c[5] /\ t[6] = c[6]
    BY <1>2, OctetValues DEF jpeg_marker, exif_marker
  <2> HIDE DEF s, t
  <2>3. \A i \in 1 .. 6 : s[i] = t[i]
    <3> TAKE i \in 1 .. 6
    <3>1. i = 1 \/ i = 2 \/ i = 3 \/ i = 4 \/ i = 5 \/ i = 6
      OBVIOUS
    <3> QED
      BY <2>1, <2>2, <3>1
  <2>4. s \in Seq(Octets) /\ t \in Seq(Octets) /\ Len(s) = 6 /\ Len(t) = 6
    BY <2>1, <2>2
  <2>5. s = t
    BY <2>3, <2>4, SeqEqual
  <2> QED
    BY <2>5 DEF s, t
<1>7. SegmentSize(SubSeq(c, 5, 6)) = SegmentSize(ReadTwo(exif_marker, f, 4))
  BY <1>1, <1>5 DEF SegmentSize
<1> QED
  BY <1>2, <1>4, <1>5, <1>6, <1>7 DEF c

(* For every pair of files: what is merged is an APP1 segment with a       *)
(* payload behind SOI, whatever two_bytes held before, and without one the *)
(* output is the picture as it is, or what was there before.               *)
THEOREM ExifAlone == Spec => []OnlyExifIsMerged
<1>1. SourceInv => OnlyExifIsMerged
  <2> SUFFICES ASSUME SourceInv, output.kind = "pieces"
               PROVE  /\ Len(exif_file) >= 4
                      /\ SubSeq(exif_file, 1, 4) = jpeg_marker \o exif_marker
                      /\ SegmentEnd(exif_file) > 6
    BY DEF OnlyExifIsMerged, SourceInv
  <2> DEFINE f == exif_file
             z == SegmentSize(SubSeq(Completed(f), 5, 6))
             x == Completed(f)[5]
             y == Completed(f)[6]
  <2>1. /\ f \in Seq(Bytes) /\ Len(f) >= 4 /\ exif_size > 0
        /\ f[1] = 255 /\ f[2] = 216 /\ f[3] = 255 /\ f[4] = 225
        /\ exif_size = SegmentSize(ReadTwo(exif_marker, f, 4)) - 2
    BY DEF SourceInv
  <2>2. /\ SubSeq(f, 1, 4) = jpeg_marker \o exif_marker
        /\ SubSeq(Completed(f), 5, 6) = <<x, y>> /\ x \in Octets /\ y \in Octets
        /\ z = SegmentSize(ReadTwo(exif_marker, f, 4))
    BY <2>1, Starts
  <2>3. z = x * 256 + y
    BY <2>2 DEF SegmentSize
  <2>4. z \in Int
    <3> HIDE DEF x, y
    <3>1. x \in Nat /\ y \in Nat
      BY <2>2, OctetValues
    <3> QED
      BY <2>3, <3>1
  <2>5. exif_size = z - 2
    BY <2>1, <2>2
  <2>6. SegmentEnd(f) = 4 + z
    BY DEF SegmentEnd
  <2> HIDE DEF f, z
  <2>7. SegmentEnd(f) > 6
    BY <2>1, <2>4, <2>5, <2>6
  <2> QED
    BY <2>1, <2>2, <2>7 DEF f
<1> QED
  BY <1>1, SourceKept, PTL

(* A length that was decoded is encoded to the bytes it was read from.     *)
LEMMA EncodedBack ==
    ASSUME NEW x \in Nat, x <= 255, NEW y \in Nat, y <= 255
    PROVE  EncodedSize(x * 256 + y - 2) = <<x, y>>
<1> DEFINE s == x * 256 + y
<1>1. s \in Nat /\ (s - 2) + 2 = s
  OBVIOUS
<1>2. s \div 256 = x /\ s % 256 = y
  BY SMTT(10)
<1>3. x % 256 = x
  BY SMTT(10)
<1> HIDE DEF s
<1>4. EncodedSize(s - 2) = <<(s \div 256) % 256, s % 256>>
  BY <1>1 DEF EncodedSize
<1>5. EncodedSize(s - 2) = <<x, y>>
  BY <1>2, <1>3, <1>4
<1> QED
  BY <1>5 DEF s

(* What is read of a payload is what the file has of it, and the rest of   *)
(* its length is junk.                                                     *)
LEMMA PayloadRead ==
    ASSUME NEW f \in Seq(Bytes), Len(f) >= 4, NEW z \in Nat, z > 2
    PROVE  LET c    == Completed(f)
               last == IF 4 + z < Len(c) THEN 4 + z ELSE Len(c)
           IN  /\ ReadPayload(f, z - 2).read = SubSeq(c, 7, last)
               /\ ReadPayload(f, z - 2).junk = z - 2 - Len(SubSeq(c, 7, last))
               /\ Len(c) \in Nat /\ last \in 6 .. Len(c)
               /\ c \in Seq(Octets)
<1> DEFINE c    == Completed(f)
           last == IF 4 + z < Len(c) THEN 4 + z ELSE Len(c)
           size == z - 2
           end  == IF Len(f) < 6 + size THEN Len(f) ELSE 6 + size
<1>1. /\ c \in Seq(Octets) /\ Len(f) \in Nat
      /\ Len(c) = IF Len(f) < 6 THEN 6 ELSE Len(f)
  BY CompletedStart, FilesOfBytes
<1>2. /\ ReadPayload(f, size).read = SubSeq(f, 7, end)
      /\ ReadPayload(f, size).junk = size - Len(SubSeq(f, 7, end))
  BY DEF ReadPayload
<1>3. SubSeq(f, 7, end) = SubSeq(c, 7, last)
  <2>1. CASE Len(f) < 6
    <3>1. end < 7 /\ last < 7
      BY <1>1, <2>1
    <3> HIDE DEF c, last, end
    <3>2. SubSeq(f, 7, end) = <<>> /\ SubSeq(c, 7, last) = <<>>
      BY <3>1, <1>1, SubSeqEmpty DEF end, last
    <3> QED
      BY <3>2
  <2>2. CASE Len(f) >= 6
    <3>1. SubSeq(exif_marker, Len(f) - 3, 2) = <<>>
      BY <1>1, <2>2 DEF exif_marker
    <3>2. c = f
      BY <1>1, <2>2, <3>1 DEF Completed
    <3>3. end = last
      BY <1>1, <2>2, <3>2
    <3> QED
      BY <3>2, <3>3
  <2> QED
    BY <1>1, <2>1, <2>2
<1>4. last \in 6 .. Len(c) /\ Len(c) \in Nat
  BY <1>1
<1> HIDE DEF c, last, end
<1>5. /\ ReadPayload(f, size).read = SubSeq(c, 7, last)
      /\ ReadPayload(f, size).junk = size - Len(SubSeq(c, 7, last))
  BY <1>2, <1>3
<1> QED
  BY <1>1, <1>4, <1>5 DEF c, last, size

(* For every pair of files: the merged file starts as the EXIF file, up to *)
(* the end of its segment or of the file, lacks only what the file lacks,  *)
(* and then comes the picture behind its SOI.                              *)
THEOREM ExifInFront == Spec => []ExifBeforePicture
<1>1. MergeInv /\ SourceInv => ExifBeforePicture
  <2> DEFINE f == exif_file
             c == Completed(f)
             z == SegmentSize(SubSeq(c, 5, 6))
             x == c[5]
             y == c[6]
             last == IF 4 + z < Len(c) THEN 4 + z ELSE Len(c)
             p == output.pieces
             front == p[1] \o p[2] \o p[3] \o p[4].read
             picture == SubSeq(image_file, 3, Len(image_file))
  <2> SUFFICES ASSUME MergeInv, SourceInv, Merged PROVE ExifBeforePicture
    BY DEF ExifBeforePicture
  <2>1. /\ f \in Seq(Bytes) /\ Len(f) >= 4 /\ exif_size > 0
        /\ f[1] = 255 /\ f[2] = 216 /\ f[3] = 255 /\ f[4] = 225
        /\ exif_size = SegmentSize(ReadTwo(exif_marker, f, 4)) - 2
        /\ exif_data = ReadPayload(f, exif_size) /\ image_data = image_file
        /\ \A i \in 1 .. 5 : p[i] = Pieces[i]
    BY DEF Merged, SourceInv, MergeInv
  <2>2. /\ SubSeq(c, 5, 6) = <<x, y>> /\ x \in Octets /\ y \in Octets
        /\ z = SegmentSize(ReadTwo(exif_marker, f, 4))
        /\ SubSeq(c, 1, 6) = jpeg_marker \o exif_marker \o <<x, y>>
    BY <2>1, Starts
  <2>3. z = x * 256 + y
    BY <2>2 DEF SegmentSize
  <2>4. /\ p[1] = jpeg_marker /\ p[2] = exif_marker
        /\ p[3] = EncodedSize(exif_size)
        /\ p[4] = exif_data /\ p[5] = picture
    BY <2>1 DEF Pieces
  <2>5. exif_size = z - 2
    BY <2>1, <2>2
  <2> HIDE DEF x, y, z, p, picture
  <2>6. x \in Nat /\ x <= 255 /\ y \in Nat /\ y <= 255
    BY <2>2, OctetValues
  <2>7. EncodedSize(exif_size) = <<x, y>>
    <3>1. EncodedSize(x * 256 + y - 2) = <<x, y>>
      BY <2>6, EncodedBack
    <3>2. exif_size = x * 256 + y - 2
      BY <2>3, <2>5, <2>6
    <3> QED
      BY <3>1, <3>2, Zenon
  <2>8. z \in Nat
    BY <2>3, <2>6
  <2>9. z > 2
    BY <2>1, <2>5, <2>8
  <2>10. /\ ReadPayload(f, z - 2).read = SubSeq(c, 7, last)
         /\ ReadPayload(f, z - 2).junk = z - 2 - Len(SubSeq(c, 7, last))
         /\ Len(c) \in Nat /\ last \in 6 .. Len(c)
         /\ c \in Seq(Octets)
    BY <2>1, <2>8, <2>9, PayloadRead
  <2>11. p[4].read = SubSeq(c, 7, last) /\ p[4].junk = z - 2 - Len(SubSeq(c, 7, last))
    <3>1. p[4] = ReadPayload(f, z - 2)
      BY <2>1, <2>4, <2>5, Zenon
    <3> QED
      BY <2>10, <3>1, Zenon
  <2> HIDE DEF c, last
  <2>12. SubSeq(c, 1, 6) \o SubSeq(c, 7, last) = SubSeq(c, 1, last)
    <3>1. 6 \in Nat /\ 7 \in Nat /\ last \in Nat /\ 7 = 6 + 1 /\ 6 <= last /\ last <= Len(c)
      BY <2>10
    <3> QED
      BY <2>10, <3>1, LongerStart
  <2>13. front = SubSeq(c, 1, last)
    BY <2>2, <2>4, <2>7, <2>11, <2>12, Zenon
  <2>14. Len(SubSeq(c, 7, last)) = last - 6 /\ Len(SubSeq(c, 1, last)) = last
    <3>1. CASE last = 6
      BY <2>10, <3>1
    <3>2. CASE last > 6
      BY <2>10, <3>2
    <3> QED
      BY <2>10, <3>1, <3>2
  <2> HIDE DEF front
  <2>15. p[4].junk = 4 + z - Len(front)
    BY <2>8, <2>10, <2>11, <2>13, <2>14
  <2>16. SegmentEnd(f) = 4 + z
    BY DEF SegmentEnd, z, c
  <2>17. front = SubSeq(c, 1, IF SegmentEnd(f) < Len(c) THEN SegmentEnd(f) ELSE Len(c))
    BY <2>13, <2>16 DEF last
  <2>18. p[4].junk = SegmentEnd(f) - Len(front)
    <3>1. Len(front) \in Nat
      BY <2>10, <2>13, <2>14
    <3> HIDE DEF last
    <3> QED
      BY <2>8, <2>15, <2>16, <3>1
  <2> HIDE DEF c
  <2> QED
    BY <2>4, <2>17, <2>18 DEF ExifBeforePicture, p, front, c, picture
<1>2. Spec => []MergeInv
  BY InitMerge, NextMerge, PTL DEF Spec
<1> QED
  BY <1>1, <1>2, SourceKept, PTL
-----------------------------------------------------------------------------
(* Types.                                                                  *)

(* No length of two bytes is below -2 when its own two bytes are taken     *)
(* off.                                                                    *)
SizeInv == exif_size \in Int /\ exif_size >= -2

LEMMA ReadExifSize ==
    MergeInv /\ (ReadExif \/ NoExifMemory) => SizeInv' /\ heap' \subseteq {"exif_data"}
<1> SUFFICES ASSUME MergeInv, ReadExif \/ NoExifMemory
             PROVE  SizeInv' /\ heap' \subseteq {"exif_data"}
  OBVIOUS
<1>1. exif_file \in Seq(Bytes) /\ heap = {}
  BY DEF MergeInv, ReadExif, NoExifMemory
<1>2. PICK uninitialized \in Bytes \X Bytes : exif_size' = ExifSize(exif_file, uninitialized)
  BY DEF ReadExif, NoExifMemory
<1>3. exif_size' \in Int /\ exif_size' >= -2
  BY <1>1, <1>2, ExifSizeType
<1> QED
  BY <1>1, <1>3 DEF SizeInv, ReadExif, NoExifMemory

(* Every step keeps the types.                                             *)
LEMMA NextTypes ==
    ASSUME MergeInv, SizeInv, StepTypes, OutputTypes,
           exif_file \in ExifFiles, image_file \in ImageFiles, image_data \in {<<>>, image_file},
           heap \subseteq {"exif_data", "image_data"}, [Next]_vars
    PROVE  /\ SizeInv' /\ StepTypes' /\ OutputTypes'
           /\ exif_file' \in ExifFiles /\ image_file' \in ImageFiles
           /\ image_data' \in {<<>>, image_file'}
           /\ heap' \subseteq {"exif_data", "image_data"}
<1> USE DEF files, exif
<1>1. CASE ReadExif \/ NoExifMemory
  <2>1. SizeInv' /\ heap' \subseteq {"exif_data"}
    BY <1>1, ReadExifSize
  <2> QED
    BY <1>1, <2>1 DEF ReadExif, NoExifMemory, StepTypes, OutputTypes, Ended
<1>2. CASE NoExifFile \/ NoImageFile
  BY <1>2 DEF NoExifFile, NoImageFile, Return, SizeInv, StepTypes, OutputTypes, Ended
<1>3. CASE ReadImage \/ NoImageMemory \/ NoOutput
  BY <1>3 DEF ReadImage, NoImageMemory, NoOutput, SizeInv, StepTypes, OutputTypes, Ended
<1>4. CASE OpenOutput
  <2>1. output'.kind = "pieces" /\ Len(output'.pieces) = 0
    BY <1>4 DEF OpenOutput
  <2> QED
    BY <1>4, <2>1 DEF OpenOutput, SizeInv, StepTypes, OutputTypes
<1>5. CASE Fwrite
  <2>1. /\ output' = [output EXCEPT !.pieces = Append(output.pieces, Pieces[Written + 1])]
        /\ pc = "fwrite" /\ pc' \in {"fclose", "fwrite"}
        /\ UNCHANGED <<files, exif, image_data, heap, streams, lost, result>>
    BY <1>5 DEF Fwrite
  <2>2. /\ Written \in 0 .. 4 /\ output.kind = "pieces" /\ output.pieces \in Seq(PieceSet)
        /\ Pieces[Written + 1] \in PieceSet
    BY <2>1 DEF MergeInv, PieceSet
  <2>3. Len(Append(output.pieces, Pieces[Written + 1])) = Written + 1
    BY <2>2 DEF Written
  <2>4. output'.kind = output.kind /\ output'.pieces = Append(output.pieces, Pieces[Written + 1])
    BY <2>1, <1>5 DEF Fwrite, OutputTypes
  <2>5. OutputTypes'
    BY <2>1, <2>2, <2>3, <2>4 DEF OutputTypes
  <2> QED
    BY <2>1, <2>5 DEF SizeInv, StepTypes
<1>6. CASE FwriteShort
  BY <1>6 DEF FwriteShort, SizeInv, StepTypes, OutputTypes
<1>7. CASE Fclose
  BY <1>7 DEF Fclose, Return, SizeInv, StepTypes, OutputTypes, Ended
<1>8. CASE Rename
  <2>1. /\ output' \in {output, [kind |-> "renamed", pieces |-> <<image_file>>]}
        /\ pc' = "returned" /\ heap' = {} /\ result' = "EXIT_SUCCESS"
        /\ UNCHANGED <<files, exif, image_data, streams, lost>>
    BY <1>8 DEF Rename, Return
  <2>2. output'.kind \in {"previous", "renamed", "pieces"} /\ Len(output'.pieces) <= 5
    <3> DEFINE renamed == [kind |-> "renamed", pieces |-> <<image_file>>]
    <3>1. renamed.kind = "renamed" /\ renamed.pieces = <<image_file>>
      OBVIOUS
    <3>2. Len(renamed.pieces) = 1
      OBVIOUS
    <3>3. output' = output \/ output' = renamed
      BY <2>1
    <3> HIDE DEF renamed
    <3>4. CASE output' = output
      BY <3>4 DEF OutputTypes
    <3>5. CASE output' = renamed
      <4>1. output'.kind = "renamed" /\ Len(output'.pieces) = 1
        BY <3>1, <3>2, <3>5, Zenon
      <4> QED
        BY <4>1
    <3> QED
      BY <3>3, <3>4, <3>5
  <2> QED
    BY <2>1, <2>2 DEF SizeInv, StepTypes, OutputTypes, Ended
<1>9. CASE UNCHANGED vars
  BY <1>9 DEF vars, SizeInv, StepTypes, OutputTypes
<1> QED
  BY <1>1, <1>2, <1>3, <1>4, <1>5, <1>6, <1>7, <1>8, <1>9 DEF Next

(* For every pair of files the segment that is read has the length its     *)
(* file gives, and no length is too long to be written again.              *)
THEOREM TypesKept == Spec => []TypeOK
<1> DEFINE More == /\ SizeInv /\ StepTypes /\ OutputTypes
                   /\ exif_file \in ExifFiles /\ image_file \in ImageFiles
                   /\ image_data \in {<<>>, image_file}
                   /\ heap \subseteq {"exif_data", "image_data"}
<1>1. Init => More
  <2> SUFFICES ASSUME Init PROVE More
    OBVIOUS
  <2>1. Len(output.pieces) = 0 /\ output.kind = "previous" /\ streams = {}
    BY DEF Init, Previous
  <2>2. OutputTypes
    BY <2>1 DEF OutputTypes
  <2>3. StepTypes
    BY DEF Init, StepTypes
  <2>4. SizeInv
    BY DEF Init, SizeInv
  <2> QED
    BY <2>2, <2>3, <2>4 DEF Init
<1>2. MergeInv /\ More /\ [Next]_vars => More'
  BY NextTypes
<1>3. MergeInv /\ More => TypeOK
  <2> SUFFICES ASSUME MergeInv, More PROVE TypeOK
    OBVIOUS
  <2>1. StepTypes /\ OutputTypes
    OBVIOUS
  <2>2. SizeType
    <3>1. exif_size \in Int /\ exif_size >= -2 /\ exif_size <= 65533
      BY DEF SizeInv, MergeInv
    <3> HIDE DEF More
    <3>2. exif_size <= MaxPayload /\ MaxPayload \in Int
      BY <3>1 DEF MaxPayload
    <3> QED
      BY <3>1, <3>2 DEF SizeType
  <2>3. /\ Len(exif_data.read) + exif_data.junk \in {0, exif_size}
        /\ "exif_data" \in heap => Len(exif_data.read) + exif_data.junk = exif_size
    BY DEF MergeInv
  <2>4. exif_data \in Payloads
    BY DEF MergeInv
  <2>5. DataTypes
    BY <2>3, <2>4 DEF DataTypes
  <2> HIDE DEF More
  <2> QED
    BY <2>1, <2>2, <2>5, Zenon DEF TypeOK
<1> HIDE DEF More
<1> QED
  BY <1>1, <1>2, <1>3, InitMerge, NextMerge, PTL DEF Spec
=============================================================================
