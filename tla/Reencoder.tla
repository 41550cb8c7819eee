------------------------------ MODULE Reencoder ------------------------------
(***************************************************************************)
(* JPEGTurbo.reencode / Mozjpeg.reencode, run by several threads at once:  *)
(* Reencoder.java and FileIOUtils.java on the calling thread, the thread   *)
(* FileIOUtils starts to feed the input pipe, and the native functions of  *)
(* Bindings.c the calling thread enters, as far as files, the pipe and     *)
(* result codes go (module NativeReencode looks inside reencode, module    *)
(* MergeExif inside mergeExifAndJpeg).                                     *)
(*                                                                         *)
(* A file holds a content: which image it shows, whose EXIF segment        *)
(* directly follows its SOI marker, and in which form it is.  Bytes are    *)
(* counted in blocks only where the pipe needs them.                       *)
(***************************************************************************)
EXTENDS Naturals

CONSTANTS
    Calls,       \* the threads that call reencode, one call each
    Files,       \* the files a user names as input or output
    Arguments,   \* the JPEGReencodeArgs a call may be made with
    Images,      \* the images the files hold
    NoImage,     \* stands for "no EXIF segment" and "nothing read yet"
    Flawed,      \* the images whose file makes the decoder warn or fail
    Hopeless,    \* the images whose file makes the decoder fail at once
    Trailing,    \* the images whose file goes on after its EOI marker
    Blocks,      \* how many blocks a file takes up to its EOI marker
    Capacity,    \* how many blocks a pipe buffers
    Faults       \* what may go wrong around the code in this instance

AllFaults ==
    {"mkfifo",      \* mkfifo fails
     "thread",      \* Thread.start throws (no memory for another thread)
     "unreadable",  \* Files.readAllBytes(input) throws an Exception
     "memory",      \* it throws OutOfMemoryError
     "errorFile",   \* the native code cannot create the error file
     "openPipe",    \* the native code cannot open the pipe
     "codec",       \* libjpeg raises an error on a sound image (no memory)
     "openMid",     \* the native code cannot create the intermediate file
     "diskFull",    \* writing the intermediate file fails
     "openExif",    \* mergeExifAndJpeg cannot open the input file
     "openImage",   \* nor the intermediate file (no permission, no descriptors)
     "mergeMemory", \* a malloc of mergeExifAndJpeg gives NULL
     "rename",      \* rename(intermediate, output) fails
     "openOutput",  \* mergeExifAndJpeg cannot open the output file
     "shortWrite",  \* mergeExifAndJpeg writes less than it should
     "readError"}   \* readFileToString(error file) throws

ArgsType == [input : Files, output : Files, verbose : BOOLEAN, throws : BOOLEAN]

ASSUME ArgumentsAssumption == Arguments \subseteq ArgsType
ASSUME ImagesAssumption ==
    /\ NoImage \notin Images
    /\ Flawed \subseteq Images
    /\ Hopeless \subseteq Images
    /\ Trailing \subseteq Images
ASSUME BlocksAssumption == Blocks \in Nat \ {0} /\ Capacity \in Nat \ {0}
ASSUME FaultsAssumption == Faults \subseteq AllFaults

VARIABLES
    alive,         \* FALSE once the process has been aborted
    args,          \* the JPEGReencodeArgs of each call
    disk,          \* the user's files
    fifo,          \* the input pipe of each call
    errorFile,     \* the error file of each call, by what it says
    intermediate,  \* the intermediate file of each call
    caller,        \* where the calling thread of each call is
    writer,        \* where the pipe-writing thread of each call is
    taken,         \* what the writer read from the input file
    unsent,        \* how many blocks of it are not in the pipe yet
    got,           \* how many blocks the native code took from the pipe
    result,        \* resultCode, the value the native reencode returned
    exifData,      \* mergeExifAndJpeg's exif_data
    mergeCode,     \* what it returned; its Java declaration drops that
    outcome,       \* how the call ended, or "none"
    logged         \* the loggers each call has used

settings == <<alive, args>>
temporaries == <<errorFile, intermediate>>
stream == <<taken, unsent>>
feeder == <<writer, stream>>
verdict == <<result, outcome>>
merging == <<exifData, mergeCode>>
progress == <<got, verdict, merging>>

vars == <<settings, disk, fifo, temporaries, caller, feeder, progress, logged>>

-----------------------------------------------------------------------------
(* Contents.  "partial": the beginning of a file; "damaged": a complete    *)
(* JPEG file whose picture the decoder had to make up in part; "coded": a  *)
(* complete re-encoding; "original": a file as the user supplied it.       *)

Content == [image : Images \cup {NoImage},
            exif : Images \cup {NoImage},
            form : {"original", "coded", "damaged", "partial", "absent"}]

Absent == [image |-> NoImage, exif |-> NoImage, form |-> "absent"]

(* What a user may have stored: a whole JPEG file or the beginning of one, *)
(* with its EXIF segment at the front or without.                          *)
Supplied == {[image |-> i, exif |-> e, form |-> f] :
                i \in Images, e \in Images \cup {NoImage}, f \in {"original", "partial"}}

IsOriginal(x) == x.form = "original"

(* The blocks of a file of content x; what trails may or may not fit in    *)
(* the pipe.                                                               *)
MaxSize == Blocks + Capacity + 1

Sizes(x) ==
    CASE x.form = "partial" -> 0 .. Blocks - 1
      [] IsOriginal(x) /\ x.image \in Trailing -> {Blocks + 1, MaxSize}
      [] OTHER -> {Blocks}

MayWarn(x) == IsOriginal(x) /\ x.image \in Flawed
MustFail(x) == IsOriginal(x) /\ x.image \in Hopeless

Input(c) == args[c].input
Output(c) == args[c].output

(* One pipe per call: the UUID names of temporary files never collide.     *)
Pipe == INSTANCE Fifo WITH Pipes <- Calls

-----------------------------------------------------------------------------
CallerLocations ==
    {"start", "mkfifo", "spawn",                              \* useInputPipeFile
     "errorFile", "openPipe", "opening", "reading",           \* reencode, reading
     "openMid", "encoding",                                   \* reencode, writing
     "unlink",                                                \* finally delete()
     "merge", "mergeExif", "mergeImage", "mergeWriting",      \* mergeExifAndJpeg
     "report", "catch", "finally", "returned"}

WriterLocations == {"off", "start", "open", "opening", "writing",
                    "ended", "failed"}

ErrorFileStates == {"absent", "silent", "other", "corrupt"}

Results == {"none", "success", "warning", "failure"}

MergeCodes == {"none", "success", "failure"}

Outcomes == {"none", "ok", "threw", "swallowed"}

TypeOK ==
    /\ alive \in BOOLEAN
    /\ args \in [Calls -> Arguments]
    /\ disk \in [Files -> Content]
    /\ Pipe!FifoTypeOK
    /\ errorFile \in [Calls -> ErrorFileStates]
    /\ intermediate \in [Calls -> Content]
    /\ caller \in [Calls -> CallerLocations]
    /\ writer \in [Calls -> WriterLocations]
    /\ taken \in [Calls -> Content]
    /\ unsent \in [Calls -> 0 .. MaxSize]
    /\ got \in [Calls -> 0 .. Blocks]
    /\ result \in [Calls -> Results]
    /\ exifData \in [Calls -> Images \cup {NoImage}]
    /\ mergeCode \in [Calls -> MergeCodes]
    /\ outcome \in [Calls -> Outcomes]
    /\ logged \in [Calls -> SUBSET {"error", "warning", "writer"}]

(* No two calls write the same output file.  Sharing an input, writing one *)
(* call's output over another's input, and re-encoding in place are all    *)
(* possible.                                                               *)
DistinctOutputs(a) == \A c, d \in Calls : c # d => a[c].output # a[d].output

Init ==
    /\ alive = TRUE
    /\ args \in {a \in [Calls -> Arguments] : DistinctOutputs(a)}
    /\ disk \in [Files -> {Absent} \cup {x \in Supplied : x.exif \in {x.image, NoImage}}]
    /\ Pipe!FifoInit
    /\ errorFile = [c \in Calls |-> "absent"]
    /\ intermediate = [c \in Calls |-> Absent]
    /\ caller = [c \in Calls |-> "start"]
    /\ writer = [c \in Calls |-> "off"]
    /\ taken = [c \in Calls |-> Absent]
    /\ unsent = [c \in Calls |-> 0]
    /\ got = [c \in Calls |-> 0]
    /\ result = [c \in Calls |-> "none"]
    /\ exifData = [c \in Calls |-> NoImage]
    /\ mergeCode = [c \in Calls |-> "none"]
    /\ outcome = [c \in Calls |-> "none"]
    /\ logged = [c \in Calls |-> {}]

-----------------------------------------------------------------------------
(* Steps of the calling thread are written as "at" a location and "goto".  *)

At(c, l) == alive /\ caller[c] = l
Goto(c, l) == caller' = [caller EXCEPT ![c] = l]
Log(c, l) == logged' = [logged EXCEPT ![c] = @ \cup {l}]

(* args.getInputFile(): throws unless the input file exists.               *)
GetInputFile(c) ==
    /\ At(c, "start")
    /\ Goto(c, IF disk[Input(c)] = Absent THEN "catch" ELSE "mkfifo")
    /\ UNCHANGED <<settings, disk, fifo, temporaries, feeder, progress, logged>>

(* createPipeFile().                                                       *)
CreatePipeFile(c) ==
    /\ At(c, "mkfifo")
    /\ \/ Pipe!MakeFifo(c) /\ Goto(c, "spawn")
       \/ "mkfifo" \in Faults /\ Goto(c, "catch") /\ UNCHANGED fifo
    /\ UNCHANGED <<settings, disk, temporaries, feeder, progress, logged>>

(* Mutant: the thread is made but not started.                             *)
StartWriterForgotten(c) ==
    /\ At(c, "spawn")
    /\ Goto(c, "errorFile")
    /\ UNCHANGED <<settings, disk, fifo, temporaries, feeder, progress, logged>>

(* new Thread(...).start() in createInputPipeFile.  What start throws      *)
(* leaves useInputPipeFile before its try, so that the pipe stays.         *)
StartWriter(c) ==
    /\ At(c, "spawn")
    /\ \/ /\ writer' = [writer EXCEPT ![c] = "start"]
          /\ Goto(c, "errorFile")
       \/ /\ "thread" \in Faults
          /\ Goto(c, "catch")
          /\ UNCHANGED writer
    /\ UNCHANGED <<settings, disk, fifo, temporaries, stream, progress, logged>>

-----------------------------------------------------------------------------
(* The native reencode.  What it prints to the error file, in the order    *)
(* that matters: nothing, some message, or one with "Corrupt JPEG data".   *)
(* libjpeg prints the first warning only.                                  *)

Say(c, message) ==
    errorFile' = [errorFile EXCEPT ![c] = IF @ = "silent" THEN message ELSE @]

Return(c, code) == result' = [result EXCEPT ![c] = code] /\ Goto(c, "unlink")

CreateErrorFile(c) ==
    /\ At(c, "errorFile")
    /\ \/ /\ errorFile' = [errorFile EXCEPT ![c] = "silent"]
          /\ Goto(c, "openPipe")
          /\ UNCHANGED result
       \/ /\ "errorFile" \in Faults
          /\ Return(c, "failure")
          /\ UNCHANGED errorFile
    /\ UNCHANGED <<settings, disk, fifo, intermediate, feeder, got, outcome, merging, logged>>

(* Mutant: the pipe is unlinked as soon as its reader has it.              *)
OpenInputUnlinking(c) ==
    /\ At(c, "openPipe")
    /\ fifo' = [fifo EXCEPT ![c].linked = FALSE, ![c].reader = "waiting"]
    /\ Goto(c, "opening")
    /\ UNCHANGED <<settings, disk, temporaries, feeder, progress, logged>>

(* fopen(input pipe): blocks until the writer thread opens the other end.  *)
OpenInput(c) ==
    /\ At(c, "openPipe")
    /\ \/ Pipe!CallOpenToRead(c) /\ Goto(c, "opening") /\ UNCHANGED result
       \/ "openPipe" \in Faults /\ Return(c, "failure") /\ UNCHANGED fifo
    /\ UNCHANGED <<settings, disk, temporaries, feeder, got, outcome, merging, logged>>

InputOpened(c) ==
    /\ At(c, "opening")
    /\ Pipe!OpenedToRead(c)
    /\ Goto(c, "reading")
    /\ UNCHANGED <<settings, disk, temporaries, feeder, progress, logged>>

(* jpeg_read_header and jpeg_read_coefficients take the file block by      *)
(* block up to its EOI marker, and may warn about a flawed one.            *)
DecodeBlock(c) ==
    /\ At(c, "reading")
    /\ got[c] < Blocks
    /\ Pipe!ReadBlock(c)
    /\ got' = [got EXCEPT ![c] = @ + 1]
    /\ \/ UNCHANGED errorFile
       \/ MayWarn(taken[c]) /\ \E m \in {"other", "corrupt"} : Say(c, m)
    /\ UNCHANGED <<settings, disk, intermediate, caller, feeder, verdict, merging, logged>>

(* Mutant: no warning for a file without EOI marker.                       *)
PrematureEndSilent(c) ==
    /\ At(c, "reading")
    /\ Pipe!EndOfFile(c)
    /\ got[c] \in 1 .. Blocks - 1
    /\ Pipe!CloseReader(c)
    /\ Goto(c, "openMid")
    /\ UNCHANGED <<settings, disk, temporaries, feeder, progress, logged>>

(* The writer closed the pipe before the EOI marker came: a warning, and   *)
(* a made-up EOI marker.                                                   *)
PrematureEnd(c) ==
    /\ At(c, "reading")
    /\ Pipe!EndOfFile(c)
    /\ got[c] \in 1 .. Blocks - 1
    /\ Pipe!CloseReader(c)
    /\ Say(c, "other")
    /\ Goto(c, "openMid")
    /\ UNCHANGED <<settings, disk, intermediate, feeder, progress, logged>>

(* Mutant: the input is closed one block early.                            *)
CloseInputEarly(c) ==
    /\ At(c, "reading")
    /\ got[c] = Blocks - 1
    /\ Pipe!CloseReader(c)
    /\ Goto(c, "openMid")
    /\ UNCHANGED <<settings, disk, temporaries, feeder, progress, logged>>

(* Mutant: the input stays open.                                           *)
CloseInputForgotten(c) ==
    /\ At(c, "reading")
    /\ got[c] = Blocks
    /\ ~MustFail(taken[c])
    /\ Goto(c, "openMid")
    /\ UNCHANGED <<settings, disk, fifo, temporaries, feeder, progress, logged>>

(* The EOI marker was reached: close_input_file.                           *)
CloseInput(c) ==
    /\ At(c, "reading")
    /\ got[c] = Blocks
    /\ ~MustFail(taken[c])
    /\ Pipe!CloseReader(c)
    /\ Goto(c, "openMid")
    /\ UNCHANGED <<settings, disk, temporaries, feeder, progress, logged>>

(* Mutant: the error path leaves the input open.                           *)
DecodeFailsLeaking(c) ==
    /\ At(c, "reading")
    /\ \/ "codec" \in Faults
       \/ got[c] > 0 /\ (MustFail(taken[c]) \/ MayWarn(taken[c]))
       \/ got[c] < Blocks /\ Pipe!EndOfFile(c)
    /\ Say(c, "other")
    /\ Return(c, "failure")
    /\ UNCHANGED <<settings, disk, fifo, intermediate, feeder, got, outcome, merging, logged>>

(* error_exit_mod while reading: on bad data, on an empty file, on a file  *)
(* that ends within its header, or for want of memory.                     *)
DecodeFails(c) ==
    /\ At(c, "reading")
    /\ \/ "codec" \in Faults
       \/ got[c] > 0 /\ (MustFail(taken[c]) \/ MayWarn(taken[c]))
       \/ got[c] < Blocks /\ Pipe!EndOfFile(c)
    /\ Say(c, "other")
    /\ Pipe!CloseReader(c)
    /\ Return(c, "failure")
    /\ UNCHANGED <<settings, disk, intermediate, feeder, got, outcome, merging, logged>>

CreateIntermediateFile(c) ==
    /\ At(c, "openMid")
    /\ \/ /\ intermediate' = [intermediate EXCEPT ![c] =
                [image |-> taken[c].image, exif |-> NoImage, form |-> "partial"]]
          /\ Goto(c, "encoding")
          /\ UNCHANGED result
       \/ /\ "openMid" \in Faults
          /\ Return(c, "failure")
          /\ UNCHANGED intermediate
    /\ UNCHANGED <<settings, disk, fifo, errorFile, feeder, got, outcome, merging, logged>>

(* jpeg_write_coefficients, jcopy_markers_execute, jpeg_finish_compress,   *)
(* jpeg_finish_decompress, release_memory.  The coefficients written are   *)
(* those read, made-up ones included; libjpeg writes its own JFIF or Adobe *)
(* segment first, so no EXIF segment follows SOI.                          *)
EncodedForm(c) ==
    IF errorFile[c] = "silent" /\ taken[c].form \in {"original", "coded"}
    THEN "coded"
    ELSE "damaged"

Encode(c) ==
    /\ At(c, "encoding")
    /\ \/ /\ intermediate' = [intermediate EXCEPT ![c].form = EncodedForm(c)]
          /\ Return(c, IF errorFile[c] = "silent" THEN "success" ELSE "warning")
          /\ UNCHANGED errorFile
       \/ /\ {"codec", "diskFull"} \cap Faults # {}
          /\ Say(c, "other")
          /\ Return(c, "failure")
          /\ UNCHANGED intermediate
    /\ UNCHANGED <<settings, disk, fifo, feeder, got, outcome, merging, logged>>

(* The finally of useInputPipeFile.                                        *)
DeletePipeFile(c) ==
    /\ At(c, "unlink")
    /\ Pipe!Unlink(c)
    /\ Goto(c, "merge")
    /\ UNCHANGED <<settings, disk, temporaries, feeder, progress, logged>>

-----------------------------------------------------------------------------
(* mergeExifAndJpeg(args.getInputFile(), intermediateFile, outputFile).    *)

GetInputFileAgain(c) ==
    /\ At(c, "merge")
    /\ Goto(c, IF disk[Input(c)] = Absent THEN "catch" ELSE "mergeExif")
    /\ UNCHANGED <<settings, disk, fifo, temporaries, feeder, progress, logged>>

(* Mutant: the output file is opened before the input file is read.        *)
ReadExifLate(c) ==
    /\ At(c, "mergeExif")
    /\ disk' = [disk EXCEPT ![Output(c)].form = "partial"]
    /\ exifData' = [exifData EXCEPT ![c] =
                       IF Input(c) = Output(c) THEN NoImage ELSE disk[Input(c)].exif]
    /\ Goto(c, "mergeImage")
    /\ UNCHANGED <<settings, fifo, temporaries, feeder, got, verdict, mergeCode, logged>>

(* fopen gives NULL: mergeExifAndJpeg returns EXIT_FAILURE and its caller  *)
(* goes on.                                                                *)
MergeFails(c) ==
    /\ mergeCode' = [mergeCode EXCEPT ![c] = "failure"]
    /\ Goto(c, "report")
    /\ UNCHANGED exifData

(* The native side reads the EXIF segment from the input file as it is by  *)
(* now.  Without memory for it there is none.                              *)
ReadExif(c) ==
    /\ At(c, "mergeExif")
    /\ LET x == disk[Input(c)]
       IN  \/ /\ x = Absent \/ "openExif" \in Faults
             /\ MergeFails(c)
          \/ /\ x # Absent
             /\ \E e \in IF x.form = "partial" \/ "mergeMemory" \in Faults
                         THEN {x.exif, NoImage} ELSE {x.exif} :
                    exifData' = [exifData EXCEPT ![c] = e]
             /\ Goto(c, "mergeImage")
             /\ UNCHANGED mergeCode
    /\ UNCHANGED <<settings, disk, fifo, temporaries, feeder, got, verdict, logged>>

NoIntermediateFile(c) ==
    /\ At(c, "mergeImage")
    /\ intermediate[c] = Absent \/ "openImage" \in Faults
    /\ MergeFails(c)
    /\ UNCHANGED <<settings, disk, fifo, temporaries, feeder, got, verdict, logged>>

(* malloc gives NULL and fread writes there.                               *)
MergeCrashes(c) ==
    /\ At(c, "mergeExif") \/ At(c, "mergeImage")
    /\ "mergeMemory" \in Faults
    /\ alive' = FALSE
    /\ UNCHANGED <<args, disk, fifo, temporaries, caller, feeder, progress, logged>>

(* Mutant: the intermediate file goes once its bytes are in memory.        *)
StartRewriteDeleting(c) ==
    /\ At(c, "mergeImage")
    /\ intermediate[c] # Absent
    /\ exifData[c] # NoImage
    /\ disk' = [disk EXCEPT ![Output(c)] =
          [image |-> intermediate[c].image, exif |-> exifData[c], form |-> "partial"]]
    /\ intermediate' = [intermediate EXCEPT ![c] = Absent]
    /\ Goto(c, "mergeWriting")
    /\ UNCHANGED <<settings, fifo, errorFile, feeder, progress, logged>>

(* There is an EXIF segment: the output file is rewritten from scratch.    *)
(* A NULL output_file reaches fwrite, which aborts the process.            *)
StartRewrite(c) ==
    /\ At(c, "mergeImage")
    /\ intermediate[c] # Absent
    /\ exifData[c] # NoImage
    /\ \/ /\ disk' = [disk EXCEPT ![Output(c)] =
                [image |-> intermediate[c].image, exif |-> exifData[c],
                 form |-> "partial"]]
          /\ Goto(c, "mergeWriting")
          /\ UNCHANGED alive
       \/ /\ "openOutput" \in Faults
          /\ alive' = FALSE
          /\ UNCHANGED <<disk, caller>>
    /\ UNCHANGED <<args, fifo, temporaries, feeder, progress, logged>>

MergeSucceeds(c) ==
    /\ mergeCode' = [mergeCode EXCEPT ![c] = "success"]
    /\ Goto(c, "report")
    /\ UNCHANGED exifData

FinishRewrite(c) ==
    /\ At(c, "mergeWriting")
    /\ \/ disk' = [disk EXCEPT ![Output(c)].form = intermediate[c].form]
       \/ "shortWrite" \in Faults /\ UNCHANGED disk
    /\ MergeSucceeds(c)
    /\ UNCHANGED <<settings, fifo, temporaries, feeder, got, verdict, logged>>

(* No EXIF segment, no memory for the picture, or an intermediate file of  *)
(* at most two bytes; nobody looks at what rename returns.                 *)
RenameIntermediate(c) ==
    /\ At(c, "mergeImage")
    /\ intermediate[c] # Absent
    /\ \/ exifData[c] = NoImage
       \/ intermediate[c].form = "partial"
       \/ "mergeMemory" \in Faults
    /\ \/ /\ disk' = [disk EXCEPT ![Output(c)] = intermediate[c]]
          /\ intermediate' = [intermediate EXCEPT ![c] = Absent]
       \/ "rename" \in Faults /\ UNCHANGED <<disk, intermediate>>
    /\ MergeSucceeds(c)
    /\ UNCHANGED <<settings, fifo, errorFile, feeder, got, verdict, logged>>

-----------------------------------------------------------------------------
(* The rest of the try block: the output file must exist, and a result     *)
(* other than EXIT_SUCCESS (or the verbose option) is turned into an       *)
(* exception or a call of the warning logger, by the text of the error     *)
(* file.                                                                   *)

Succeed(c) == outcome' = [outcome EXCEPT ![c] = "ok"] /\ Goto(c, "finally")

ReportNothing(c) ==
    /\ At(c, "report")
    /\ disk[Output(c)] # Absent
    /\ result[c] = "success"
    /\ ~args[c].verbose
    /\ Succeed(c)
    /\ UNCHANGED <<settings, disk, fifo, temporaries, feeder, got, result, merging, logged>>

ReportWarning(c) ==
    /\ At(c, "report")
    /\ disk[Output(c)] # Absent
    /\ result[c] = "warning" \/ (result[c] = "success" /\ args[c].verbose)
    /\ errorFile[c] # "corrupt" \/ "readError" \in Faults
    /\ Succeed(c)
    /\ Log(c, "warning")
    /\ UNCHANGED <<settings, disk, fifo, temporaries, feeder, got, result, merging>>

ThrowFromReport(c) ==
    /\ At(c, "report")
    /\ \/ /\ disk[Output(c)] = Absent \/ errorFile[c] = "corrupt" \/ result[c] = "failure"
          /\ UNCHANGED logged
       \/ /\ disk[Output(c)] # Absent /\ result[c] = "failure" /\ errorFile[c] # "absent"
          /\ "readError" \in Faults
          /\ Log(c, "warning")
    /\ Goto(c, "catch")
    /\ UNCHANGED <<settings, disk, fifo, temporaries, feeder, progress>>

(* Mutant: the output file of a failed call stays.                         *)
CatchKeeping(c) ==
    /\ At(c, "catch")
    /\ Log(c, "error")
    /\ outcome' = [outcome EXCEPT ![c] =
                      IF args[c].throws THEN "threw" ELSE "swallowed"]
    /\ Goto(c, "finally")
    /\ UNCHANGED <<settings, disk, fifo, temporaries, feeder, got, result, merging>>

(* catch (Throwable): the error logger, then the output file is deleted.   *)
Catch(c) ==
    /\ At(c, "catch")
    /\ Log(c, "error")
    /\ disk' = [disk EXCEPT ![Output(c)] = Absent]
    /\ outcome' = [outcome EXCEPT ![c] =
                      IF args[c].throws THEN "threw" ELSE "swallowed"]
    /\ Goto(c, "finally")
    /\ UNCHANGED <<settings, fifo, temporaries, feeder, got, result, merging>>

(* finally: the two temporary files go.                                    *)
Finally(c) ==
    /\ At(c, "finally")
    /\ intermediate' = [intermediate EXCEPT ![c] = Absent]
    /\ errorFile' = [errorFile EXCEPT ![c] = "absent"]
    /\ Goto(c, "returned")
    /\ UNCHANGED <<settings, disk, fifo, feeder, progress, logged>>

-----------------------------------------------------------------------------
(* The writer thread: Files.write(pipe, Files.readAllBytes(input), WRITE). *)

WriterAt(c, l) == alive /\ writer[c] = l
WriterGoto(c, l) == writer' = [writer EXCEPT ![c] = l]

(* readAllBytes comes first.  An exception ends the thread through the     *)
(* warning logger; an Error is not caught and takes the process down.      *)
ReadInput(c) ==
    /\ WriterAt(c, "start")
    /\ \/ /\ disk[Input(c)] # Absent
          /\ taken' = [taken EXCEPT ![c] = disk[Input(c)]]
          /\ \E n \in Sizes(disk[Input(c)]) : unsent' = [unsent EXCEPT ![c] = n]
          /\ WriterGoto(c, "open")
          /\ UNCHANGED <<alive, logged>>
       \/ /\ disk[Input(c)] = Absent \/ "unreadable" \in Faults
          /\ WriterGoto(c, "failed")
          /\ Log(c, "writer")
          /\ UNCHANGED <<alive, stream>>
       \/ /\ "memory" \in Faults
          /\ alive' = FALSE
          /\ UNCHANGED <<feeder, logged>>
    /\ UNCHANGED <<args, disk, fifo, temporaries, caller, progress>>

(* Mutant: StandardOpenOption.CREATE as well.                              *)
OpenPipeCreating(c) ==
    /\ WriterAt(c, "open")
    /\ \/ Pipe!CallOpenToWrite(c) /\ WriterGoto(c, "opening")
       \/ /\ ~fifo[c].linked
          /\ WriterGoto(c, "ended")
          /\ fifo' = [fifo EXCEPT ![c].linked = TRUE]
    /\ UNCHANGED <<settings, disk, temporaries, caller, stream, progress, logged>>

(* StandardOpenOption.WRITE without CREATE: a pipe deleted meanwhile is    *)
(* NoSuchFileException, not a new file.                                    *)
OpenPipe(c) ==
    /\ WriterAt(c, "open")
    /\ \/ Pipe!CallOpenToWrite(c) /\ WriterGoto(c, "opening") /\ UNCHANGED logged
       \/ ~fifo[c].linked /\ WriterGoto(c, "failed") /\ Log(c, "writer") /\ UNCHANGED fifo
    /\ UNCHANGED <<settings, disk, temporaries, caller, stream, progress>>

(* Mutant: the loop does not look whether anything is left.                *)
SendBlockUnguarded(c) ==
    /\ WriterAt(c, "writing")
    /\ Pipe!WriteBlock(c)
    /\ unsent' = [unsent EXCEPT ![c] = @ - 1]
    /\ UNCHANGED <<settings, disk, temporaries, caller, writer, taken, progress, logged>>

PipeOpened(c) ==
    /\ WriterAt(c, "opening")
    /\ Pipe!OpenedToWrite(c)
    /\ WriterGoto(c, "writing")
    /\ UNCHANGED <<settings, disk, temporaries, caller, stream, progress, logged>>

SendBlock(c) ==
    /\ WriterAt(c, "writing")
    /\ unsent[c] > 0
    /\ Pipe!WriteBlock(c)
    /\ unsent' = [unsent EXCEPT ![c] = @ - 1]
    /\ UNCHANGED <<settings, disk, temporaries, caller, writer, taken, progress, logged>>

(* Mutant: the last block is never flushed.                                *)
AllSentUnflushed(c) ==
    /\ WriterAt(c, "writing")
    /\ unsent[c] <= 1
    /\ Pipe!CloseWriter(c)
    /\ WriterGoto(c, "ended")
    /\ UNCHANGED <<settings, disk, temporaries, caller, stream, progress, logged>>

AllSent(c) ==
    /\ WriterAt(c, "writing")
    /\ unsent[c] = 0
    /\ Pipe!CloseWriter(c)
    /\ WriterGoto(c, "ended")
    /\ UNCHANGED <<settings, disk, temporaries, caller, stream, progress, logged>>

(* EPIPE: the native code has closed its end.                              *)
SendFails(c) ==
    /\ WriterAt(c, "writing")
    /\ unsent[c] > 0
    /\ Pipe!BrokenPipe(c)
    /\ Pipe!CloseWriter(c)
    /\ WriterGoto(c, "failed")
    /\ Log(c, "writer")
    /\ UNCHANGED <<settings, disk, temporaries, caller, stream, progress>>

-----------------------------------------------------------------------------
PipeFeeding(c) == GetInputFile(c) \/ CreatePipeFile(c) \/ StartWriter(c)

NativeReencode(c) ==
    \/ CreateErrorFile(c) \/ OpenInput(c) \/ InputOpened(c)
    \/ DecodeBlock(c) \/ PrematureEnd(c) \/ CloseInput(c) \/ DecodeFails(c)
    \/ CreateIntermediateFile(c) \/ Encode(c)

MergeExifAndJpeg(c) ==
    \/ GetInputFileAgain(c) \/ ReadExif(c) \/ NoIntermediateFile(c) \/ MergeCrashes(c)
    \/ StartRewrite(c) \/ FinishRewrite(c) \/ RenameIntermediate(c)

Report(c) == ReportNothing(c) \/ ReportWarning(c) \/ ThrowFromReport(c)

Caller(c) ==
    \/ PipeFeeding(c) \/ NativeReencode(c) \/ DeletePipeFile(c)
    \/ MergeExifAndJpeg(c) \/ Report(c) \/ Catch(c) \/ Finally(c)

Writer(c) ==
    \/ ReadInput(c) \/ OpenPipe(c) \/ PipeOpened(c)
    \/ SendBlock(c) \/ AllSent(c) \/ SendFails(c)

Returned(c) == caller[c] = "returned"
WriterIdle(c) == writer[c] \in {"off", "ended", "failed"}

(* Every call has returned and every thread has ended, or the process has. *)
Terminated ==
    /\ alive => \A c \in Calls : Returned(c) /\ WriterIdle(c)
    /\ UNCHANGED vars

Next == (\E c \in Calls : Caller(c) \/ Writer(c)) \/ Terminated

Spec == Init /\ [][Next]_vars

(* The operating system schedules every thread that can run.               *)
Fairness == \A c \in Calls : WF_vars(Caller(c)) /\ WF_vars(Writer(c))

FairSpec == Spec /\ Fairness

-----------------------------------------------------------------------------
(* Safety.                                                                 *)

Whole(x) == x.form \in {"original", "coded", "damaged"}

(* No other call writes the file this one reads.                           *)
InputStable(c) == \A d \in Calls \ {c} : Output(d) # Input(c)

(* Reencoder.java:74-81 and FileIOUtils.java:76-106: once reencode has     *)
(* returned, none of its three temporary files is left, and none comes     *)
(* back, although the writer thread may still be running and may reach its *)
(* Files.write of the pipe only now.  The one exception is a writer thread *)
(* that could not be started: createInputPipeFile throws between mkfifo    *)
(* and the try of useInputPipeFile, and the pipe stays.                    *)
NothingLeftBehind ==
    \A c \in Calls :
        Returned(c) =>
            /\ fifo[c].linked => "thread" \in Faults /\ writer[c] = "off"
            /\ intermediate[c] = Absent
            /\ errorFile[c] = "absent"

(* Reencoder.java:30-62: a call whose merge has said EXIT_SUCCESS, which   *)
(* returns normally and has told neither logger anything, has left a       *)
(* complete re-encoding of what its writer thread read, with nothing made  *)
(* up.  The condition on the merge is not one the caller can look at: an   *)
(* EXIT_FAILURE of mergeExifAndJpeg is dropped (its Java method is void),  *)
(* and the call passes for a success if an output file was there before.   *)
SilentSuccessIsComplete ==
    \A c \in Calls :
        outcome[c] = "ok" /\ logged[c] = {} /\ mergeCode[c] = "success" =>
            /\ disk[Output(c)].image = taken[c].image
            /\ disk[Output(c)].form =
                   IF taken[c].form = "damaged" THEN "damaged" ELSE "coded"

(* Bindings.c:247-317: the EXIF segment of the input survives the call,    *)
(* in-place calls and concurrent ones included, when nobody else writes    *)
(* that input meanwhile and the merge has returned EXIT_SUCCESS.  Without  *)
(* memory for the segment or the picture the merge returns EXIT_SUCCESS as *)
(* well and the segment is gone; nothing is said of that case.             *)
ExifSurvives ==
    \A c \in Calls :
        /\ outcome[c] = "ok"
        /\ mergeCode[c] = "success"
        /\ Whole(taken[c])
        /\ InputStable(c)
        /\ "mergeMemory" \notin Faults
        => disk[Output(c)].exif = taken[c].exif

(* FileIOUtils.java:87-94: the writer thread reports a failure of its own  *)
(* only when the native side gave up or the file goes on after its EOI     *)
(* marker; the races of the two ends of the pipe add none.                 *)
WriterFailsForAReason ==
    \A c \in Calls :
        writer[c] = "failed" /\ taken[c] # Absent =>
            \/ result[c] = "failure"
            \/ IsOriginal(taken[c]) /\ taken[c].image \in Trailing

(* Reencoder.java:17-73: without faults around it, a call only tells the   *)
(* error logger, or unasked the warning logger, of an input file that is   *)
(* missing, cut short or not sound.                                        *)
SoundInputSucceeds ==
    \A c \in Calls :
        /\ "error" \in logged[c] \/ ("warning" \in logged[c] /\ ~args[c].verbose)
        /\ Faults = {}
        /\ InputStable(c)
        =>  \/ taken[c].form \in {"absent", "partial"}
            \/ MustFail(taken[c])
            \/ MayWarn(taken[c])

(* Bindings.c:298-312: README.md:35 lets the output be the input file.     *)
(* Until the call fails, the picture is on disk as a whole at every moment *)
(* (should the process end there): in the file itself, or in the           *)
(* intermediate file while the file is being rewritten.                    *)
InPlaceKeepsPicture ==
    \A c \in Calls :
        /\ Input(c) = Output(c)
        /\ InputStable(c)
        /\ Whole(taken[c])
        /\ "error" \notin logged[c]
        /\ result[c] # "failure"
        /\ caller[c] # "catch"
        /\ "shortWrite" \notin Faults
        => Whole(disk[Input(c)]) \/ Whole(intermediate[c])

(* README.md:35, "outputFile may be same as inputFile": a call must not    *)
(* destroy the file it was given (it does: Reencoder.java:68-69 deletes    *)
(* the output of a failed call, whatever file that is).                    *)
InputFileSurvives ==
    \A c \in Calls :
        Returned(c) /\ InputStable(c) /\ taken[c] # Absent
            => disk[Input(c)] # Absent

-----------------------------------------------------------------------------
(* Liveness.                                                               *)

(* Every call returns, unless its input file is taken from it by another   *)
(* call: the blocking open of the pipe is always met by the writer's       *)
(* (Bindings.c:168, FileIOUtils.java:89).                                  *)
CallReturns ==
    \A c \in Calls : InputStable(c) ~> (Returned(c) \/ ~alive)

(* A writer thread whose pipe the native code has come to open ends:       *)
(* neither its open nor a write into a full pipe blocks it for good.       *)
WriterEnds ==
    \A c \in Calls : fifo[c].reader # "none" ~> (WriterIdle(c) \/ ~alive)

-----------------------------------------------------------------------------
(* What a call promises its user: see ReencodeService.                     *)
ServiceStatus(c) ==
    IF caller[c] # "returned" THEN "running"
    ELSE IF outcome[c] # "ok" THEN "failed"
    ELSE IF mergeCode[c] = "failure" THEN "unmerged" ELSE "ok"

Service == INSTANCE ReencodeService WITH
    NoImage <- NoImage,
    status <- [c \in Calls |-> ServiceStatus(c)],
    picture <- [c \in Calls |-> IF ServiceStatus(c) = "failed" THEN NoImage
                                ELSE taken[c].image],
    output <- [c \in Calls |-> IF ServiceStatus(c) = "running" THEN NoImage
                               ELSE IF Whole(disk[Output(c)])
                                    THEN disk[Output(c)].image
                                    ELSE NoImage]

ServiceSpec == Service!Spec
=============================================================================
