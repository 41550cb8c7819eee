----------------------------- MODULE MergeExif -----------------------------
(***************************************************************************)
(* mergeExifAndJpeg of Bindings.c: the first APP1 segment of one file is   *)
(* put in front of the picture in another.  Files are sequences of bytes.  *)
(* fread and fwrite are never asked how much they did: a short fread       *)
(* leaves what was in the buffer, a short fwrite goes unnoticed.           *)
(***************************************************************************)
EXTENDS Integers, Sequences

CONSTANTS
    Bytes,       \* the values bytes may have
    ExifFiles,   \* what the file with the EXIF segment may hold
    ImageFiles   \* what the file with the picture may hold

ASSUME BytesAssumption == Bytes \subseteq 0 .. 255

ASSUME FilesAssumption == ExifFiles \subseteq Seq(Bytes) /\ ImageFiles \subseteq Seq(Bytes)

jpeg_marker == <<255, 216>>
exif_marker == <<255, 225>>

VARIABLES
    pc,           \* what comes next
    exif_file,    \* the bytes of the input with the EXIF segment
    image_file,   \* the bytes of the input with the picture
    exif_size,    \* how long the payload of the segment is said to be
    exif_data,    \* what was read of it, and how much was not
    image_data,   \* what was read of the picture
    heap,         \* the allocations that are alive: these pointers are not NULL
    streams,      \* the files that are open
    output,       \* what is under the output's name
    lost,         \* whether some fwrite fell short
    result        \* what is returned

files == <<exif_file, image_file>>
exif == <<exif_size, exif_data>>

vars == <<pc, files, exif, image_data, heap, streams, output, lost, result>>

-----------------------------------------------------------------------------
Payloads == [read : Seq(Bytes), junk : Nat]

NoPayload == [read |-> <<>>, junk |-> 0]

(* The output is what was there before, the renamed picture, or the pieces *)
(* written to it so far; the fourth of them is a payload.                  *)
Previous == [kind |-> "previous", pieces |-> <<>>]

Ended == {"returned", "crashed"}

StepTypes ==
    /\ pc \in {"read_exif", "read_image", "choose", "fwrite", "fclose"} \cup Ended
    /\ lost \in BOOLEAN
    /\ result \in {"none", "EXIT_SUCCESS", "EXIT_FAILURE"}

(* The longest payload two bytes can give the length of.                   *)
MaxPayload == 65535 - 2

SizeType == exif_size \in -2 .. MaxPayload

DataTypes ==
    /\ exif_file \in ExifFiles
    /\ image_file \in ImageFiles
    /\ exif_data \in Payloads
    /\ Len(exif_data.read) + exif_data.junk \in {0, exif_size}
    /\ "exif_data" \in heap => Len(exif_data.read) + exif_data.junk = exif_size
    /\ image_data \in {<<>>, image_file}
    /\ heap \subseteq {"exif_data", "image_data"}

OutputTypes ==
    /\ streams \subseteq {"output_file"}
    /\ output.kind \in {"previous", "renamed", "pieces"}
    /\ Len(output.pieces) <= 5

(* How much is read of a payload and how much of it is junk adds up to     *)
(* the length the EXIF file gives, and no length is too long to be encoded *)
(* again.                                                                  *)
TypeOK == StepTypes /\ SizeType /\ DataTypes /\ OutputTypes

Init ==
    /\ pc = "read_exif"
    /\ exif_file \in ExifFiles
    /\ image_file \in ImageFiles
    /\ exif_size = 0
    /\ exif_data = NoPayload
    /\ image_data = <<>>
    /\ heap = {}
    /\ streams = {}
    /\ output = Previous
    /\ lost = FALSE
    /\ result = "none"

-----------------------------------------------------------------------------
SegmentSize(bytes) == bytes[1] * 256 + bytes[2]

(* Mutant: the length does not count its own two bytes.                    *)
EncodedSizeExclusive(size) == <<(size \div 256) % 256, size % 256>>

EncodedSize(size) == <<((size + 2) \div 256) % 256, (size + 2) % 256>>

(* fread of two bytes at a position: short at the end of the file.         *)
ReadTwo(buffer, file, position) ==
    [i \in 1 .. 2 |-> IF position + i <= Len(file) THEN file[position + i] ELSE buffer[i]]

(* Mutant: fread is taken to have read all.                                *)
ReadPayloadTrusting(file, size) ==
    [read |-> SubSeq(file, 7, IF Len(file) < 6 + size THEN Len(file) ELSE 6 + size), junk |-> 0]

(* fread of a payload of some size at position 6, into fresh memory.       *)
ReadPayload(file, size) ==
    LET read == SubSeq(file, 7, IF Len(file) < 6 + size THEN Len(file) ELSE 6 + size)
    IN  [read |-> read, junk |-> size - Len(read)]

(* What exif_size becomes when two_bytes starts out with anything in it.   *)
ExifSize(file, uninitialized) ==
    LET first  == ReadTwo(uninitialized, file, 0)
        second == ReadTwo(first, file, 2)
        third  == ReadTwo(second, file, 4)
    IN  IF first = jpeg_marker /\ second = exif_marker THEN SegmentSize(third) - 2 ELSE 0

ReadExif ==
    /\ pc = "read_exif"
    /\ pc' = "read_image"
    /\ \E uninitialized \in Bytes \X Bytes : exif_size' = ExifSize(exif_file, uninitialized)
    /\ IF exif_size' > 0
       THEN exif_data' = ReadPayload(exif_file, exif_size') /\ heap' = {"exif_data"}
       ELSE UNCHANGED <<exif_data, heap>>
    /\ UNCHANGED <<files, image_data, streams, output, lost, result>>

(* malloc gives NULL and is not asked.  Where bytes are read to it, that   *)
(* crashes or the bytes are lost; where none are left, nothing happens.    *)
NoExifMemory ==
    /\ pc = "read_exif"
    /\ pc' = "read_image" \/ (Len(exif_file) > 6 /\ pc' = "crashed")
    /\ \E uninitialized \in Bytes \X Bytes : exif_size' = ExifSize(exif_file, uninitialized)
    /\ exif_size' > 0
    /\ UNCHANGED <<files, exif_data, image_data, heap, streams, output, lost, result>>

(* ReleaseMemory and return.                                               *)
Return(code) ==
    /\ pc' = "returned"
    /\ heap' = {}
    /\ result' = code
    /\ UNCHANGED <<files, exif, image_data>>

NoExifFile ==
    /\ pc = "read_exif"
    /\ Return("EXIT_FAILURE")
    /\ UNCHANGED <<streams, output, lost>>

ReadImage ==
    /\ pc = "read_image"
    /\ pc' = "choose"
    /\ image_data' = image_file
    /\ heap' = heap \cup {"image_data"}
    /\ UNCHANGED <<files, exif, streams, output, lost, result>>

(* Mutant: return without ReleaseMemory.                                   *)
NoImageFileLeaking ==
    /\ pc = "read_image"
    /\ pc' = "returned"
    /\ result' = "EXIT_FAILURE"
    /\ UNCHANGED <<files, exif, image_data, heap, streams, output, lost>>

NoImageFile ==
    /\ pc = "read_image"
    /\ Return("EXIT_FAILURE")
    /\ UNCHANGED <<streams, output, lost>>

(* malloc finds no room for the picture, and fread writes to NULL.         *)
NoImageMemory ==
    /\ pc = "read_image"
    /\ pc' = "choose" \/ (image_file # <<>> /\ pc' = "crashed")
    /\ UNCHANGED <<files, exif, image_data, heap, streams, output, lost, result>>

-----------------------------------------------------------------------------
(* Mutant: an empty payload counts.                                        *)
HasExifAny == "image_data" \in heap /\ Len(image_file) > 2

HasExif ==
    /\ "exif_data" \in heap /\ exif_size > 0
    /\ "image_data" \in heap /\ Len(image_file) > 2

OpenOutput ==
    /\ pc = "choose"
    /\ HasExif
    /\ pc' = "fwrite"
    /\ streams' = {"output_file"}
    /\ output' = [kind |-> "pieces", pieces |-> <<>>]
    /\ UNCHANGED <<files, exif, image_data, heap, lost, result>>

(* fopen gives NULL and is not asked: fwrite to NULL.                      *)
NoOutput ==
    /\ pc = "choose"
    /\ HasExif
    /\ pc' = "crashed"
    /\ UNCHANGED <<files, exif, image_data, heap, streams, output, lost, result>>

(* Mutant: the picture goes in with its own SOI.                           *)
PiecesWithSOI ==
    <<jpeg_marker, exif_marker, EncodedSize(exif_size), exif_data, image_data>>

Pieces ==
    <<jpeg_marker, exif_marker, EncodedSize(exif_size), exif_data,
      SubSeq(image_data, 3, Len(image_data))>>

Written == Len(output.pieces)

Fwrite ==
    /\ pc = "fwrite"
    /\ output' = [output EXCEPT !.pieces = Append(@, Pieces[Written + 1])]
    /\ pc' = IF Written + 1 = Len(Pieces) THEN "fclose" ELSE "fwrite"
    /\ UNCHANGED <<files, exif, image_data, heap, streams, lost, result>>

(* The disk is full: the piece is missing in part, and so are the others.  *)
FwriteShort ==
    /\ pc = "fwrite"
    /\ pc' = "fclose"
    /\ lost' = TRUE
    /\ UNCHANGED <<files, exif, image_data, heap, streams, output, result>>

Fclose ==
    /\ pc = "fclose"
    /\ streams' = {}
    /\ Return("EXIT_SUCCESS")
    /\ UNCHANGED <<output, lost>>

(* Whether rename succeeds is not looked at.                               *)
Rename ==
    /\ pc = "choose"
    /\ ~HasExif
    /\ output' \in {output, [kind |-> "renamed", pieces |-> <<image_file>>]}
    /\ Return("EXIT_SUCCESS")
    /\ UNCHANGED <<streams, lost>>

Next ==
    \/ ReadExif \/ NoExifFile \/ NoExifMemory
    \/ ReadImage \/ NoImageFile \/ NoImageMemory
    \/ OpenOutput \/ NoOutput \/ Fwrite \/ FwriteShort \/ Fclose \/ Rename
    \/ pc \in Ended /\ UNCHANGED vars

Spec == Init /\ [][Next]_vars

-----------------------------------------------------------------------------
(* Properties.                                                             *)

Merged == pc = "returned" /\ output.kind = "pieces" /\ ~lost

(* What is taken for the start of a file of four bytes or more: where it   *)
(* ends before the length of its segment, two_bytes still holds the marker.*)
Completed(file) == file \o SubSeq(exif_marker, Len(file) - 3, 2)

(* Where the first segment of such a file says that it ends.               *)
SegmentEnd(file) == 4 + SegmentSize(SubSeq(Completed(file), 5, 6))

(* Bindings.c:272-308: every output of a merge starts as the EXIF file     *)
(* does, to the end of its first segment or, if that comes first, of the   *)
(* file; what the segment then lacks is bytes nothing was read into, of    *)
(* which there are none when it is whole; and then comes the picture       *)
(* behind its SOI.  A length of which the file lacks a byte is completed   *)
(* with the marker before it.                                              *)
ExifBeforePicture ==
    Merged => LET p     == output.pieces
                  front == p[1] \o p[2] \o p[3] \o p[4].read
                  start == Completed(exif_file)
                  end   == SegmentEnd(exif_file)
              IN  /\ front = SubSeq(start, 1, IF end < Len(start) THEN end ELSE Len(start))
                  /\ p[4].junk = end - Len(front)
                  /\ p[5] = SubSeq(image_file, 3, Len(image_file))

(* Bindings.c:301: the length in the output is that of the segment that    *)
(* follows, even when the EXIF file ends within its segment, so that a     *)
(* decoder finds the picture behind it.                                    *)
SegmentLengthTrue ==
    Merged => LET payload == output.pieces[4]
              IN  SegmentSize(output.pieces[3]) = 2 + Len(payload.read) + payload.junk

(* Every return has closed the files and freed the memory.                 *)
NothingHeld == pc = "returned" => heap = {} /\ streams = {}

(* Bindings.c:274-281 and 298: for files of any length, what is merged is  *)
(* an APP1 segment with a payload behind SOI, and otherwise the output is  *)
(* the picture as it is, or what was there before.  Markers are never made *)
(* up of stale bytes; a length is (Completed), and never one of nothing.   *)
OnlyExifIsMerged ==
    /\ output.kind = "renamed" => output.pieces = <<image_file>>
    /\ output.kind = "pieces" =>
          /\ Len(exif_file) >= 4
          /\ SubSeq(exif_file, 1, 4) = jpeg_marker \o exif_marker
          /\ SegmentEnd(exif_file) > 6
=============================================================================
