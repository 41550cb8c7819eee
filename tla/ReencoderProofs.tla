---------------------------- MODULE ReencoderProofs ----------------------------
(***************************************************************************)
(* Proofs about Reencoder, for any number of calls, files and images, any  *)
(* file size and pipe capacity, and every combination of faults.           *)
(***************************************************************************)
EXTENDS Reencoder, TLAPS

-----------------------------------------------------------------------------
(* Type correctness, in three parts.                                       *)

FilesOK ==
    /\ disk \in [Files -> Content]
    /\ intermediate \in [Calls -> Content]
    /\ taken \in [Calls -> Content]

LocalsOK ==
    /\ alive \in BOOLEAN
    /\ args \in [Calls -> Arguments]
    /\ errorFile \in [Calls -> ErrorFileStates]
    /\ caller \in [Calls -> CallerLocations]
    /\ writer \in [Calls -> WriterLocations]
    /\ unsent \in [Calls -> 0 .. MaxSize]
    /\ got \in [Calls -> 0 .. Blocks]
    /\ result \in [Calls -> Results]
    /\ exifData \in [Calls -> Images \cup {NoImage}]
    /\ mergeCode \in [Calls -> MergeCodes]
    /\ outcome \in [Calls -> Outcomes]
    /\ logged \in [Calls -> SUBSET {"error", "warning", "writer"}]

(* Every pipe operation keeps the pipes of the right type.                 *)
LEMMA PipeStep ==
    ASSUME Pipe!FifoTypeOK, NEW c \in Calls,
           \/ Pipe!MakeFifo(c) \/ Pipe!Unlink(c) \/ Pipe!CallOpenToRead(c)
           \/ Pipe!OpenedToRead(c) \/ Pipe!CallOpenToWrite(c) \/ Pipe!OpenedToWrite(c)
           \/ Pipe!WriteBlock(c) \/ Pipe!ReadBlock(c)
           \/ Pipe!CloseReader(c) \/ Pipe!CloseWriter(c)
           \/ UNCHANGED fifo
    PROVE  Pipe!FifoTypeOK'
<1> USE BlocksAssumption DEF Pipe!FifoTypeOK, Pipe!End
<1>1. CASE Pipe!MakeFifo(c)
  BY <1>1 DEF Pipe!MakeFifo
<1>2. CASE Pipe!Unlink(c)
  BY <1>2 DEF Pipe!Unlink
<1>3. CASE Pipe!CallOpenToRead(c)
  BY <1>3 DEF Pipe!CallOpenToRead
<1>4. CASE Pipe!OpenedToRead(c)
  BY <1>4 DEF Pipe!OpenedToRead
<1>5. CASE Pipe!CallOpenToWrite(c)
  BY <1>5 DEF Pipe!CallOpenToWrite
<1>6. CASE Pipe!OpenedToWrite(c)
  BY <1>6 DEF Pipe!OpenedToWrite
<1>7. CASE Pipe!WriteBlock(c)
  BY <1>7 DEF Pipe!WriteBlock
<1>8. CASE Pipe!ReadBlock(c)
  BY <1>8 DEF Pipe!ReadBlock
<1>9. CASE Pipe!CloseReader(c)
  BY <1>9 DEF Pipe!CloseReader
<1>10. CASE Pipe!CloseWriter(c)
  BY <1>10 DEF Pipe!CloseWriter
<1>11. CASE UNCHANGED fifo
  BY <1>11
<1> QED
  BY <1>1, <1>2, <1>3, <1>4, <1>5, <1>6, <1>7, <1>8, <1>9, <1>10, <1>11

(* Hence every step does: it makes one of these operations, or none.       *)
LEMMA PipeTypeStep == Pipe!FifoTypeOK /\ [Next]_vars => Pipe!FifoTypeOK'
<1> SUFFICES ASSUME Pipe!FifoTypeOK, NEW c \in Calls, Caller(c) \/ Writer(c)
             PROVE  Pipe!FifoTypeOK'
  BY PipeStep DEF Next, Terminated, vars, Pipe!FifoTypeOK
<1>1. CASE PipeFeeding(c) \/ DeletePipeFile(c)
  BY <1>1, PipeStep DEF PipeFeeding, GetInputFile, CreatePipeFile, StartWriter, DeletePipeFile
<1>2. CASE NativeReencode(c)
  BY <1>2, PipeStep DEF NativeReencode, CreateErrorFile, OpenInput, InputOpened,
     DecodeBlock, PrematureEnd, CloseInput, DecodeFails, CreateIntermediateFile, Encode
<1>3. CASE MergeExifAndJpeg(c)
  BY <1>3, PipeStep DEF MergeExifAndJpeg, GetInputFileAgain, ReadExif,
     NoIntermediateFile, MergeCrashes, MergeFails, MergeSucceeds, StartRewrite,
        FinishRewrite, RenameIntermediate
<1>4. CASE Report(c) \/ Catch(c) \/ Finally(c)
  BY <1>4, PipeStep DEF Report, ReportNothing, ReportWarning, ThrowFromReport, Catch, Finally
<1>5. CASE Writer(c)
  BY <1>5, PipeStep DEF Writer, ReadInput, OpenPipe, PipeOpened, SendBlock, AllSent, SendFails
<1> QED
  BY <1>1, <1>2, <1>3, <1>4, <1>5 DEF Caller

(* What the steps write into files are contents.                           *)
LEMMA ContentFacts ==
    /\ Absent \in Content
    /\ \A x \in Content : Sizes(x) \subseteq 0 .. MaxSize
    /\ \A x \in Content, e \in Images \cup {NoImage} :
          [image |-> x.image, exif |-> e, form |-> "partial"] \in Content
    /\ \A x, y \in Content : [x EXCEPT !.form = y.form] \in Content
    /\ \A x \in Content, f \in {"coded", "damaged"} : [x EXCEPT !.form = f] \in Content
  BY BlocksAssumption, ImagesAssumption DEF Absent, Content, Sizes, MaxSize, IsOriginal

(* The files, temporary files and bytes in memory stay contents.           *)
LEMMA FilesStep == FilesOK /\ LocalsOK /\ [Next]_vars => FilesOK'
<1> SUFFICES ASSUME FilesOK, LocalsOK, [Next]_vars PROVE FilesOK'
  OBVIOUS
<1> USE DEF FilesOK, settings, temporaries, stream, feeder
<1>a. \A c \in Calls : Input(c) \in Files /\ Output(c) \in Files
  BY ArgumentsAssumption DEF LocalsOK, ArgsType, Input, Output
<1>b. exifData \in [Calls -> Images \cup {NoImage}]
  BY DEF LocalsOK
<1> USE <1>a, <1>b, ContentFacts
<1>1. ASSUME NEW c \in Calls, CreateIntermediateFile(c) PROVE FilesOK'
  BY <1>1 DEF CreateIntermediateFile
<1>2. ASSUME NEW c \in Calls, Encode(c) PROVE FilesOK'
  <2>1. EncodedForm(c) \in {"coded", "damaged"}
    BY DEF EncodedForm
  <2>2. [intermediate[c] EXCEPT !.form = EncodedForm(c)] \in Content
    BY <2>1
  <2>3. UNCHANGED <<disk, taken>>
    BY <1>2 DEF Encode
  <2>4. intermediate' \in [Calls -> Content]
    <3>1. CASE UNCHANGED intermediate
      BY <3>1
    <3>2. CASE intermediate' = [intermediate EXCEPT ![c].form = EncodedForm(c)]
      BY <3>2, <2>2
    <3> QED
      BY <1>2, <3>1, <3>2 DEF Encode
  <2> QED
    BY <2>3, <2>4
<1>3. ASSUME NEW c \in Calls, StartRewrite(c) PROVE FilesOK'
  <2>1. [image |-> intermediate[c].image, exif |-> exifData[c], form |-> "partial"]
          \in Content
    OBVIOUS
  <2> QED
    BY <1>3, <2>1 DEF StartRewrite
<1>4. ASSUME NEW c \in Calls, FinishRewrite(c) PROVE FilesOK'
  BY <1>4 DEF FinishRewrite
<1>5. ASSUME NEW c \in Calls, RenameIntermediate(c) PROVE FilesOK'
  BY <1>5 DEF RenameIntermediate
<1>6. ASSUME NEW c \in Calls, Catch(c) \/ Finally(c) PROVE FilesOK'
  BY <1>6 DEF Catch, Finally
<1>7. ASSUME NEW c \in Calls, ReadInput(c) PROVE FilesOK'
  BY <1>7 DEF ReadInput
<1>8. ASSUME NEW c \in Calls,
             \/ PipeFeeding(c) \/ DeletePipeFile(c)
             \/ CreateErrorFile(c) \/ OpenInput(c) \/ InputOpened(c)
             \/ DecodeBlock(c) \/ PrematureEnd(c) \/ CloseInput(c) \/ DecodeFails(c)
      PROVE  FilesOK'
  BY <1>8 DEF PipeFeeding, GetInputFile, CreatePipeFile, StartWriter, DeletePipeFile,
     CreateErrorFile, OpenInput, InputOpened, DecodeBlock, PrematureEnd, CloseInput,
     DecodeFails
<1>9. ASSUME NEW c \in Calls,
             \/ GetInputFileAgain(c) \/ ReadExif(c) \/ NoIntermediateFile(c) \/ MergeCrashes(c) \/ Report(c)
             \/ OpenPipe(c) \/ PipeOpened(c) \/ SendBlock(c) \/ AllSent(c) \/ SendFails(c)
      PROVE  FilesOK'
  BY <1>9 DEF GetInputFileAgain, ReadExif, NoIntermediateFile, MergeCrashes, MergeFails,
     MergeSucceeds, Report, ReportNothing,
     ReportWarning, ThrowFromReport, OpenPipe, PipeOpened, SendBlock, AllSent, SendFails
<1>10. CASE UNCHANGED vars
  BY <1>10 DEF vars
<1> QED
  BY <1>1, <1>2, <1>3, <1>4, <1>5, <1>6, <1>7, <1>8, <1>9, <1>10
     DEF Next, Terminated, Caller, Writer, NativeReencode, MergeExifAndJpeg

(* So does everything else, action by action.                              *)
LEMMA LocalsStep == FilesOK /\ LocalsOK /\ [Next]_vars => LocalsOK'
<1> SUFFICES ASSUME FilesOK, LocalsOK, [Next]_vars PROVE LocalsOK'
  OBVIOUS
<1>a. \A f \in Files : disk[f].exif \in Images \cup {NoImage}
  BY DEF FilesOK, Content
<1>b. \A f \in Files : Sizes(disk[f]) \subseteq 0 .. MaxSize
  BY ContentFacts DEF FilesOK
<1>c. \A c \in Calls : Input(c) \in Files
  BY ArgumentsAssumption DEF LocalsOK, ArgsType, Input
<1> USE BlocksAssumption, ImagesAssumption
    DEF LocalsOK, CallerLocations, WriterLocations, ErrorFileStates, MaxSize,
        Results, MergeCodes, Outcomes, settings, temporaries, stream, feeder, verdict,
           merging, progress,
        At, Goto, Log, WriterAt, WriterGoto, Return, Say, Succeed
<1>1. ASSUME NEW c \in Calls, GetInputFile(c) PROVE LocalsOK'
  BY <1>1 DEF GetInputFile
<1>2. ASSUME NEW c \in Calls, CreatePipeFile(c) PROVE LocalsOK'
  BY <1>2 DEF CreatePipeFile
<1>3. ASSUME NEW c \in Calls, StartWriter(c) PROVE LocalsOK'
  BY <1>3 DEF StartWriter
<1>4. ASSUME NEW c \in Calls, CreateErrorFile(c) PROVE LocalsOK'
  BY <1>4 DEF CreateErrorFile
<1>5. ASSUME NEW c \in Calls, OpenInput(c) PROVE LocalsOK'
  BY <1>5 DEF OpenInput
<1>6. ASSUME NEW c \in Calls, InputOpened(c) PROVE LocalsOK'
  BY <1>6 DEF InputOpened
<1>7. ASSUME NEW c \in Calls, DecodeBlock(c) PROVE LocalsOK'
  BY <1>7 DEF DecodeBlock
<1>8. ASSUME NEW c \in Calls, PrematureEnd(c) PROVE LocalsOK'
  BY <1>8 DEF PrematureEnd
<1>9. ASSUME NEW c \in Calls, CloseInput(c) PROVE LocalsOK'
  BY <1>9 DEF CloseInput
<1>10. ASSUME NEW c \in Calls, DecodeFails(c) PROVE LocalsOK'
  BY <1>10 DEF DecodeFails
<1>11. ASSUME NEW c \in Calls, CreateIntermediateFile(c) PROVE LocalsOK'
  BY <1>11 DEF CreateIntermediateFile
<1>12. ASSUME NEW c \in Calls, Encode(c) PROVE LocalsOK'
  BY <1>12 DEF Encode
<1>13. ASSUME NEW c \in Calls, DeletePipeFile(c) PROVE LocalsOK'
  BY <1>13 DEF DeletePipeFile
<1>14. ASSUME NEW c \in Calls, GetInputFileAgain(c) PROVE LocalsOK'
  BY <1>14 DEF GetInputFileAgain
<1>15. ASSUME NEW c \in Calls, ReadExif(c) PROVE LocalsOK'
  BY <1>15, <1>a, <1>c DEF ReadExif, MergeFails
<1>16. ASSUME NEW c \in Calls, NoIntermediateFile(c) PROVE LocalsOK'
  BY <1>16 DEF NoIntermediateFile, MergeFails
<1>17. ASSUME NEW c \in Calls, StartRewrite(c) PROVE LocalsOK'
  BY <1>17 DEF StartRewrite
<1>18. ASSUME NEW c \in Calls, FinishRewrite(c) PROVE LocalsOK'
  BY <1>18 DEF FinishRewrite, MergeSucceeds
<1>19. ASSUME NEW c \in Calls, RenameIntermediate(c) PROVE LocalsOK'
  BY <1>19 DEF RenameIntermediate, MergeSucceeds
<1>20. ASSUME NEW c \in Calls, ReportNothing(c) PROVE LocalsOK'
  BY <1>20 DEF ReportNothing
<1>21. ASSUME NEW c \in Calls, ReportWarning(c) PROVE LocalsOK'
  BY <1>21 DEF ReportWarning
<1>22. ASSUME NEW c \in Calls, ThrowFromReport(c) PROVE LocalsOK'
  BY <1>22 DEF ThrowFromReport
<1>23. ASSUME NEW c \in Calls, Catch(c) PROVE LocalsOK'
  BY <1>23 DEF Catch
<1>24. ASSUME NEW c \in Calls, Finally(c) PROVE LocalsOK'
  BY <1>24 DEF Finally
<1>25. ASSUME NEW c \in Calls, ReadInput(c) PROVE LocalsOK'
  <2>1. unsent' \in [Calls -> 0 .. MaxSize]
    <3>1. ASSUME NEW n \in Sizes(disk[Input(c)])
          PROVE  [unsent EXCEPT ![c] = n] \in [Calls -> 0 .. MaxSize]
      BY <1>b, <1>c
    <3>2. unsent' = unsent \/ \E n \in Sizes(disk[Input(c)]) : unsent' = [unsent EXCEPT ![c] = n]
      BY <1>25 DEF ReadInput
    <3> QED
      BY <3>1, <3>2
  <2>2. writer' \in [Calls -> WriterLocations] /\ alive' \in BOOLEAN
    BY <1>25 DEF ReadInput
  <2>3. logged' \in [Calls -> SUBSET {"error", "warning", "writer"}]
    <3>1. logged' = logged \/ logged' = [logged EXCEPT ![c] = @ \cup {"writer"}]
      BY <1>25 DEF ReadInput
    <3> QED
      BY <3>1
  <2>4. UNCHANGED <<args, errorFile, caller, got, result, exifData, mergeCode, outcome>>
    BY <1>25 DEF ReadInput
  <2> QED
    BY <2>1, <2>2, <2>3, <2>4
<1>26. ASSUME NEW c \in Calls, OpenPipe(c) PROVE LocalsOK'
  BY <1>26 DEF OpenPipe
<1>27. ASSUME NEW c \in Calls, PipeOpened(c) PROVE LocalsOK'
  BY <1>27 DEF PipeOpened
<1>28. ASSUME NEW c \in Calls, SendBlock(c) PROVE LocalsOK'
  BY <1>28 DEF SendBlock
<1>29. ASSUME NEW c \in Calls, AllSent(c) PROVE LocalsOK'
  BY <1>29 DEF AllSent
<1>30. ASSUME NEW c \in Calls, SendFails(c) PROVE LocalsOK'
  BY <1>30 DEF SendFails
<1>31. ASSUME NEW c \in Calls, MergeCrashes(c) PROVE LocalsOK'
  BY <1>31 DEF MergeCrashes
<1>32. CASE UNCHANGED vars
  BY <1>32 DEF vars
<1> QED
  BY <1>1, <1>2, <1>3, <1>4, <1>5, <1>6, <1>7, <1>8, <1>9, <1>10,
     <1>11, <1>12, <1>13, <1>14, <1>15, <1>16, <1>17, <1>18, <1>19, <1>20,
     <1>21, <1>22, <1>23, <1>24, <1>25, <1>26, <1>27, <1>28, <1>29, <1>30,
     <1>31, <1>32
     DEF Next, Terminated, Caller, Writer, PipeFeeding, NativeReencode, MergeExifAndJpeg,
         Report

(* TypeOK is its three parts.                                              *)
LEMMA TypeParts == TypeOK <=> FilesOK /\ LocalsOK /\ Pipe!FifoTypeOK
  BY DEF TypeOK, FilesOK, LocalsOK

(* Every call starts with values of the right types.                       *)
LEMMA TypeInit == Init => TypeOK
<1> SUFFICES ASSUME Init PROVE FilesOK /\ LocalsOK /\ Pipe!FifoTypeOK
  BY TypeParts
<1> USE BlocksAssumption, ImagesAssumption DEF Init
<1>1. Pipe!FifoTypeOK
  BY DEF Pipe!FifoInit, Pipe!FifoTypeOK, Pipe!End
<1>2. FilesOK
  <2>1. {Absent} \cup {x \in Supplied : x.exif \in {x.image, NoImage}} \subseteq Content
    BY DEF Absent, Supplied, Content
  <2> QED
    BY <2>1, ContentFacts DEF FilesOK
<1>3. LocalsOK
  BY DEF LocalsOK, CallerLocations, WriterLocations, ErrorFileStates, MaxSize, Results,
     MergeCodes, Outcomes
<1> QED
  BY <1>1, <1>2, <1>3

(* Every step of every call keeps all three parts.                         *)
LEMMA TypeStep == TypeOK /\ [Next]_vars => TypeOK'
  BY PTL, TypeParts, PipeTypeStep, FilesStep, LocalsStep

(* TypeOK holds in every reachable state.                                  *)
THEOREM TypeCorrect == Spec => []TypeOK
  BY TypeInit, TypeStep, PTL DEF Spec

-----------------------------------------------------------------------------
(* The two ends of the pipe.  A call's part of the state is related by     *)
(* where its two threads are; nothing here looks at the user's files.      *)

Feeding == {"start", "mkfifo", "spawn"}
Native == {"errorFile", "openPipe", "opening", "reading", "openMid", "encoding"}
After == {"merge", "mergeExif", "mergeImage", "mergeWriting", "report",
          "catch", "finally", "returned"}

(* The pipe's name exists from mkfifo to the finally of useInputPipeFile,  *)
(* and for good if the writer thread could not be started.                 *)
Named == {"spawn", "unlink"} \cup Native

Unstarted(c) ==
    /\ "thread" \in Faults
    /\ writer[c] = "off"
    /\ caller[c] \in {"catch", "finally", "returned"}

NameInv(c) ==
    /\ caller[c] \in Named => fifo[c].linked
    /\ fifo[c].linked => caller[c] \in Named \/ Unstarted(c)
    /\ caller[c] \in Feeding => writer[c] = "off"
    /\ caller[c] \in Feeding \cup Native => result[c] = "none"
    /\ caller[c] \in {"unlink"} => result[c] # "none"
    /\ caller[c] \in After /\ writer[c] # "off" => result[c] # "none"

(* Each thread's location says how far it is with its end of the pipe.     *)
ReaderInv(c) ==
    /\ caller[c] \in Feeding \cup {"errorFile", "openPipe"} => fifo[c].reader = "none"
    /\ caller[c] = "opening" => fifo[c].reader = "waiting"
    /\ caller[c] = "reading" => fifo[c].reader = "open"
    /\ caller[c] \in {"openMid", "encoding"} => fifo[c].reader = "closed"
    /\ result[c] \in {"success", "warning"} => fifo[c].reader = "closed"
    /\ fifo[c].reader \in {"open", "closed"} => fifo[c].writer # "none"

WriterInv(c) ==
    /\ writer[c] \in {"off", "start", "open"} => fifo[c].writer = "none"
    /\ writer[c] = "opening" => fifo[c].writer = "waiting"
    /\ writer[c] = "writing" => fifo[c].writer = "open"

(* No block is lost or made up between the input file and the decoder.     *)
BlockInv(c) ==
    /\ writer[c] \in {"off", "start"} =>
          taken[c] = Absent /\ got[c] = 0 /\ fifo[c].buffer = 0
    /\ taken[c] # Absent => got[c] + fifo[c].buffer + unsent[c] \in Sizes(taken[c])
    /\ fifo[c].reader = "closed" =>
          \/ result[c] = "failure"
          \/ got[c] = Blocks
          \/ fifo[c].writer = "closed"

ReasonInv(c) ==
    writer[c] = "failed" /\ taken[c] # Absent =>
        \/ result[c] = "failure"
        \/ IsOriginal(taken[c]) /\ taken[c].image \in Trailing

CleanInv(c) ==
    caller[c] = "returned" => intermediate[c] = Absent /\ errorFile[c] = "absent"

CallInv(c) ==
    /\ NameInv(c)
    /\ ReaderInv(c)
    /\ WriterInv(c)
    /\ BlockInv(c)
    /\ ReasonInv(c)
    /\ CleanInv(c)

CallsInv == \A c \in Calls : CallInv(c)

(* A step of one call keeps the invariant of the others: the invariant does *)
(* not mention what calls share.                                           *)
LEMMA Frame ==
    ASSUME TypeOK, NEW c \in Calls, Caller(c) \/ Writer(c), NEW d \in Calls \ {c}, CallInv(d)
    PROVE  CallInv(d)'
<1>1. /\ fifo'[d] = fifo[d] /\ caller'[d] = caller[d] /\ writer'[d] = writer[d]
      /\ result'[d] = result[d] /\ got'[d] = got[d]
      /\ taken'[d] = taken[d] /\ unsent'[d] = unsent[d]
      /\ intermediate'[d] = intermediate[d] /\ errorFile'[d] = errorFile[d]
  <2> USE DEF TypeOK, Pipe!FifoTypeOK, settings, temporaries, stream, feeder, verdict, merging,
          progress, At, Goto, Log, WriterAt, WriterGoto, Return, Say, Succeed,
          Pipe!MakeFifo, Pipe!Unlink, Pipe!CallOpenToRead, Pipe!OpenedToRead,
          Pipe!CallOpenToWrite, Pipe!OpenedToWrite, Pipe!WriteBlock, Pipe!ReadBlock,
          Pipe!CloseReader, Pipe!CloseWriter
  <2>1. CASE PipeFeeding(c) \/ DeletePipeFile(c)
    BY <2>1 DEF PipeFeeding, GetInputFile, CreatePipeFile, StartWriter, DeletePipeFile
  <2>2. CASE \/ CreateErrorFile(c) \/ OpenInput(c) \/ InputOpened(c)
             \/ CreateIntermediateFile(c) \/ Encode(c)
    BY <2>2 DEF CreateErrorFile, OpenInput, InputOpened, CreateIntermediateFile, Encode
  <2>3. CASE DecodeBlock(c) \/ PrematureEnd(c) \/ CloseInput(c) \/ DecodeFails(c)
    BY <2>3 DEF DecodeBlock, PrematureEnd, CloseInput, DecodeFails
  <2>4. CASE MergeExifAndJpeg(c)
    BY <2>4 DEF MergeExifAndJpeg, GetInputFileAgain, ReadExif, NoIntermediateFile,
       MergeCrashes, MergeFails, MergeSucceeds,
       StartRewrite, FinishRewrite, RenameIntermediate
  <2>5. CASE Report(c) \/ Catch(c) \/ Finally(c)
    BY <2>5 DEF Report, ReportNothing, ReportWarning, ThrowFromReport, Catch, Finally
  <2>6. CASE ReadInput(c)
    BY <2>6 DEF ReadInput
  <2>7. CASE OpenPipe(c) \/ PipeOpened(c) \/ SendBlock(c) \/ AllSent(c) \/ SendFails(c)
    BY <2>7 DEF OpenPipe, PipeOpened, SendBlock, AllSent, SendFails
  <2> QED
    BY <2>1, <2>2, <2>3, <2>4, <2>5, <2>6, <2>7 DEF Caller, Writer, NativeReencode
<1> QED
  BY <1>1 DEF CallInv, NameInv, ReaderInv, WriterInv, BlockInv, ReasonInv, CleanInv,
     Unstarted, Sizes, IsOriginal

(* A step of a call keeps its own invariant, action by action.             *)
LEMMA Self ==
    ASSUME TypeOK, NEW c \in Calls, CallInv(c), Caller(c) \/ Writer(c)
    PROVE  CallInv(c)'
<1>f. fifo[c] \in [linked : BOOLEAN, reader : Pipe!End, writer : Pipe!End, buffer : 0 .. Capacity]
  BY DEF TypeOK, Pipe!FifoTypeOK
<1>g. TypeOK'
  BY TypeStep DEF Next
<1>h. unsent'[c] \in 0 .. MaxSize /\ MaxSize \in Nat
  BY <1>g, BlocksAssumption DEF TypeOK, MaxSize
<1> USE BlocksAssumption
    DEF TypeOK, Pipe!FifoTypeOK, CallInv, NameInv, ReaderInv, WriterInv, BlockInv,
        ReasonInv, CleanInv, Feeding, Native, After, Named, Unstarted,
        settings, temporaries, stream, feeder, verdict, merging, progress,
        At, Goto, Log, WriterAt, WriterGoto, Return, Say, Succeed,
        Pipe!MakeFifo, Pipe!Unlink, Pipe!CallOpenToRead, Pipe!OpenedToRead,
        Pipe!CallOpenToWrite, Pipe!OpenedToWrite, Pipe!WriteBlock, Pipe!ReadBlock,
        Pipe!CloseReader, Pipe!CloseWriter, Pipe!BrokenPipe, Pipe!EndOfFile
<1>1. CASE GetInputFile(c)
  BY <1>1 DEF GetInputFile
<1>2. CASE CreatePipeFile(c)
  BY <1>2 DEF CreatePipeFile
<1>3. CASE StartWriter(c)
  BY <1>3 DEF StartWriter
<1>4. CASE CreateErrorFile(c)
  BY <1>4 DEF CreateErrorFile
<1>5. CASE OpenInput(c)
  <2>1. CASE Pipe!CallOpenToRead(c) /\ Goto(c, "opening") /\ UNCHANGED result
    BY <1>5, <2>1 DEF OpenInput
  <2>2. CASE Return(c, "failure") /\ UNCHANGED fifo
    BY <1>5, <2>2 DEF OpenInput
  <2> QED
    BY <1>5, <2>1, <2>2 DEF OpenInput
<1>6. CASE InputOpened(c)
  BY <1>6 DEF InputOpened
<1>7. CASE DecodeBlock(c)
  <2>1. /\ got'[c] = got[c] + 1 /\ fifo'[c] = [fifo[c] EXCEPT !.buffer = @ - 1]
        /\ fifo[c].buffer > 0 /\ fifo[c].reader = "open" /\ caller[c] = "reading"
        /\ UNCHANGED <<caller, writer, taken, unsent, result, intermediate>>
    BY <1>7 DEF DecodeBlock, Pipe!ReadBlock
  <2>2. got'[c] + fifo'[c].buffer + unsent'[c] = got[c] + fifo[c].buffer + unsent[c]
    BY <1>f, <2>1
  <2>3. taken[c] # Absent => writer[c] \notin {"off", "start"}
    OBVIOUS
  <2>4. BlockInv(c)'
    BY <1>f, <2>1, <2>2 DEF Sizes, IsOriginal
  <2> QED
    BY <1>f, <2>1, <2>4 DEF IsOriginal
<1>8. CASE PrematureEnd(c)
  BY <1>8 DEF PrematureEnd
<1>9. CASE CloseInput(c)
  BY <1>9 DEF CloseInput
<1>10. CASE DecodeFails(c)
  BY <1>10 DEF DecodeFails
<1>11. CASE CreateIntermediateFile(c)
  BY <1>11 DEF CreateIntermediateFile
<1>12. CASE Encode(c)
  BY <1>12 DEF Encode
<1>13. CASE DeletePipeFile(c)
  BY <1>13 DEF DeletePipeFile
<1>14. CASE GetInputFileAgain(c)
  BY <1>14 DEF GetInputFileAgain
<1>15. CASE ReadExif(c)
  BY <1>15 DEF ReadExif, MergeFails
<1>16. CASE NoIntermediateFile(c)
  BY <1>16 DEF NoIntermediateFile, MergeFails
<1>17. CASE StartRewrite(c)
  BY <1>17 DEF StartRewrite
<1>18. CASE FinishRewrite(c)
  BY <1>18 DEF FinishRewrite, MergeSucceeds
<1>19. CASE RenameIntermediate(c)
  BY <1>19 DEF RenameIntermediate, MergeSucceeds
<1>20. CASE ReportNothing(c)
  BY <1>20 DEF ReportNothing
<1>21. CASE ReportWarning(c)
  BY <1>21 DEF ReportWarning
<1>22. CASE ThrowFromReport(c)
  BY <1>22 DEF ThrowFromReport
<1>23. CASE Catch(c)
  BY <1>23 DEF Catch
<1>24. CASE Finally(c)
  BY <1>24 DEF Finally
<1>25. CASE ReadInput(c)
  <2>1. /\ writer[c] = "start"
        /\ UNCHANGED <<fifo, caller, result, got, intermediate, errorFile>>
    BY <1>25 DEF ReadInput
  <2>2. \/ /\ taken'[c] # Absent /\ unsent'[c] \in Sizes(taken'[c]) /\ writer'[c] = "open"
        \/ UNCHANGED <<taken, unsent>> /\ writer'[c] \in {"start", "failed"}
    BY <1>25 DEF ReadInput
  <2>3. unsent'[c] \in Sizes(taken'[c]) => 0 + 0 + unsent'[c] \in Sizes(taken'[c])
    BY <1>h
  <2> QED
    BY <1>f, <2>1, <2>2, <2>3
<1>26. CASE OpenPipe(c)
  <2>1. /\ writer[c] = "open"
        /\ UNCHANGED <<caller, result, taken, unsent, got, intermediate, errorFile>>
    BY <1>26 DEF OpenPipe
  <2>2. CASE writer'[c] = "opening" /\ fifo'[c] = [fifo[c] EXCEPT !.writer = "waiting"]
    BY <1>f, <2>1, <2>2
  <2>3. CASE ~fifo[c].linked /\ writer'[c] = "failed" /\ UNCHANGED fifo
    <3>1. caller[c] \in After
      BY <2>1, <2>3 DEF CallerLocations
    <3>2. result[c] = "failure"
      BY <1>f, <2>1, <2>3, <3>1 DEF Results
    <3> QED
      BY <1>f, <2>1, <2>3, <3>2
  <2> QED
    BY <1>26, <2>2, <2>3 DEF OpenPipe, Pipe!CallOpenToWrite
<1>27. CASE PipeOpened(c)
  BY <1>27 DEF PipeOpened
<1>28. CASE SendBlock(c)
  BY <1>28 DEF SendBlock
<1>29. CASE AllSent(c)
  BY <1>29 DEF AllSent
<1>30. CASE SendFails(c)
  <2>1. /\ writer[c] = "writing" /\ writer'[c] = "failed"
        /\ fifo[c].reader = "closed" /\ unsent[c] > 0
        /\ fifo'[c] = [fifo[c] EXCEPT !.writer = "closed"]
        /\ UNCHANGED <<caller, result, taken, unsent, got, intermediate, errorFile>>
    BY <1>30 DEF SendFails, Pipe!BrokenPipe, Pipe!CloseWriter
  <2>2. result[c] = "failure" \/ got[c] = Blocks
    BY <1>f, <2>1
  <2>3. taken[c] # Absent /\ got[c] = Blocks => got[c] + fifo[c].buffer + unsent[c] > Blocks
    BY <1>f, <2>1
  <2>4. taken[c] # Absent /\ got[c] = Blocks
          => IsOriginal(taken[c]) /\ taken[c].image \in Trailing
    BY <2>3 DEF Sizes
  <2>5. ReasonInv(c)'
    BY <2>1, <2>2, <2>4 DEF IsOriginal
  <2> QED
    BY <1>f, <2>1, <2>5 DEF IsOriginal
<1>31. CASE MergeCrashes(c)
  BY <1>31 DEF MergeCrashes
<1> QED
  BY <1>1, <1>2, <1>3, <1>4, <1>5, <1>6, <1>7, <1>8, <1>9, <1>10,
     <1>11, <1>12, <1>13, <1>14, <1>15, <1>16, <1>17, <1>18, <1>19, <1>20,
     <1>21, <1>22, <1>23, <1>24, <1>25, <1>26, <1>27, <1>28, <1>29, <1>30,
     <1>31
     DEF Caller, Writer, PipeFeeding, NativeReencode, MergeExifAndJpeg, Report

(* At the start no call has touched its pipe yet.                          *)
LEMMA CallsInit == Init => CallsInv
<1> SUFFICES ASSUME Init, NEW c \in Calls PROVE CallInv(c)
  BY DEF CallsInv
<1> QED
  BY DEF Init, Pipe!FifoInit, CallInv, NameInv, ReaderInv, WriterInv, BlockInv,
     ReasonInv, CleanInv, Feeding, Native, After, Named, Unstarted

(* A step of one call keeps the invariant of all.                          *)
LEMMA CallsStep == TypeOK /\ CallsInv /\ [Next]_vars => CallsInv'
<1> SUFFICES ASSUME TypeOK, CallsInv, [Next]_vars, NEW d \in Calls PROVE CallInv(d)'
  BY DEF CallsInv
<1>1. CASE UNCHANGED vars
  BY <1>1 DEF vars, temporaries, feeder, stream, progress, verdict, merging, CallsInv, CallInv,
     NameInv, ReaderInv, WriterInv, BlockInv, ReasonInv, CleanInv, Unstarted, Sizes,
     IsOriginal
<1>2. ASSUME NEW c \in Calls, Caller(c) \/ Writer(c) PROVE CallInv(d)'
  <2>1. CASE c = d
    BY <1>2, <2>1, Self DEF CallsInv
  <2>2. CASE c # d
    BY <1>2, <2>2, Frame DEF CallsInv
  <2> QED
    BY <2>1, <2>2
<1> QED
  BY <1>1, <1>2 DEF Next, Terminated

(* In every reachable state the two threads of a call, the ends of its pipe*)
(* and its temporary files are where CallInv says.                         *)
THEOREM CallsInvariant == Spec => [](TypeOK /\ CallsInv)
  BY TypeInit, TypeStep, CallsInit, CallsStep, PTL DEF Spec

(* No temporary file outlives its call, and none reappears afterwards,     *)
(* whenever the writer thread of the call gets to its open; but a pipe     *)
(* whose writer thread could not be started stays.                         *)
THEOREM TemporariesGo == Spec => []NothingLeftBehind
<1>1. CallsInv => NothingLeftBehind
  BY DEF CallsInv, CallInv, NameInv, CleanInv, NothingLeftBehind, Returned, Native, Named,
     Unstarted
<1> QED
  BY <1>1, CallsInvariant, PTL

(* The writer thread of a call has no failure of its own making: however   *)
(* the two threads interleave, its pipe is there when it opens it, and is  *)
(* read to the end unless the native side gave up or data trails EOI.      *)
THEOREM WriterIsInnocent == Spec => []WriterFailsForAReason
<1>1. CallsInv => WriterFailsForAReason
  BY DEF CallsInv, CallInv, ReasonInv, WriterFailsForAReason
<1> QED
  BY <1>1, CallsInvariant, PTL

-----------------------------------------------------------------------------
(* What becomes of the picture.  Here the disk matters, and with it that   *)
(* no other call writes this call's output.                                *)

(* The merge has not come to an end yet, and the output is what it was.    *)
Unwritten == Feeding \cup Native \cup {"unlink", "merge", "mergeExif", "mergeImage"}

Coded == {"success", "warning"}

(* The picture the writer thread took, coded as the result code says.      *)
Made(c, x) ==
    /\ x.image = taken[c].image
    /\ x.form = IF result[c] = "success" /\ taken[c].form # "damaged" THEN "coded" ELSE "damaged"

(* A decoder that came to the end was given a file, and a file that is     *)
(* there is not the one that is absent.                                    *)
TakenInv(c) ==
    /\ fifo[c].writer # "none" => taken[c] # Absent
    /\ writer[c] \in {"open", "opening", "writing", "ended"} => taken[c] # Absent
    /\ taken[c] # Absent => taken[c].form # "absent"
    /\ intermediate[c] # Absent => intermediate[c].form # "absent"
    /\ caller[c] = "mergeWriting" => intermediate[c] # Absent

(* The intermediate file is what the decoder was given, coded.             *)
MadeInv(c) ==
    /\ caller[c] \in {"openMid", "encoding"} /\ errorFile[c] = "silent" => got[c] = Blocks
    /\ caller[c] = "encoding" =>
          intermediate[c].image = taken[c].image /\ intermediate[c].exif = NoImage
    /\ caller[c] \in {"unlink", "merge", "mergeExif", "mergeImage", "mergeWriting"}
          /\ result[c] \in Coded =>
          Made(c, intermediate[c]) /\ intermediate[c].exif = NoImage

(* The output file shows the picture once the merge has said EXIT_SUCCESS. *)
OutputInv(c) ==
    /\ caller[c] \in Unwritten \cup {"mergeWriting"} => mergeCode[c] = "none"
    /\ caller[c] = "report" => mergeCode[c] # "none"
    /\ caller[c] = "mergeWriting" /\ result[c] \in Coded =>
          disk[Output(c)].image = taken[c].image
    /\ caller[c] = "report" /\ mergeCode[c] = "success" /\ result[c] \in Coded =>
          Made(c, disk[Output(c)])
    /\ outcome[c] = "ok" => result[c] \in Coded /\ mergeCode[c] # "none"
    /\ outcome[c] = "ok" /\ mergeCode[c] = "success" => Made(c, disk[Output(c)])
    /\ outcome[c] = "ok" /\ logged[c] = {} => result[c] = "success"
    /\ caller[c] \in {"finally", "returned"} => outcome[c] = "ok" \/ "error" \in logged[c]
    /\ caller[c] \notin {"finally", "returned"} => outcome[c] = "none" /\ "error" \notin logged[c]

StoryInv(c) ==
    /\ TakenInv(c)
    /\ MadeInv(c)
    /\ OutputInv(c)

(* As long as no other call writes it, the input file is what the writer   *)
(* thread read: until the merge writes it, for good if that never does.    *)
SourceInv(c) ==
    /\ taken[c] # Absent =>
          /\ caller[c] \in Unwritten => disk[Input(c)] = taken[c]
          /\ mergeCode[c] = "failure" /\ (caller[c] = "report" \/ outcome[c] = "ok") =>
                disk[Input(c)] = taken[c]
    /\ caller[c] = "mergeExif" => disk[Input(c)] # Absent

(* Its EXIF segment goes into the output.                                  *)
ExifInv(c) ==
    Whole(taken[c]) /\ result[c] \in Coded /\ "mergeMemory" \notin Faults =>
        /\ caller[c] = "mergeImage" => exifData[c] = taken[c].exif
        /\ caller[c] = "mergeWriting" \/ (caller[c] = "report" /\ mergeCode[c] = "success") =>
              disk[Output(c)].exif = taken[c].exif
        /\ outcome[c] = "ok" /\ mergeCode[c] = "success" => disk[Output(c)].exif = taken[c].exif

Cause(c) ==
    \/ taken[c].form \in {"absent", "partial"}
    \/ MustFail(taken[c])
    \/ MayWarn(taken[c])

(* Whatever is reported has its cause in the picture.                      *)
CauseInv(c) ==
    Faults = {} =>
        /\ result[c] = "failure" \/ result[c] = "warning" => Cause(c)
        /\ errorFile[c] \in {"other", "corrupt"} => Cause(c)
        /\ caller[c] = "catch" \/ "error" \in logged[c] => Cause(c)
        /\ caller[c] \in Feeding \cup Native => "warning" \notin logged[c]
        /\ "warning" \in logged[c] /\ ~args[c].verbose => Cause(c)
        /\ mergeCode[c] = "failure" => result[c] = "failure"
        /\ writer[c] = "start" => caller[c] \in {"errorFile", "openPipe", "opening"}
        /\ caller[c] \in Feeding \cup {"errorFile"} => errorFile[c] = "absent"
        /\ caller[c] \in {"openPipe", "opening"} => errorFile[c] = "silent"
        /\ caller[c] \in {"reading", "openMid", "encoding"} => errorFile[c] # "absent"
        /\ caller[c] \in Native \cup {"unlink", "merge", "mergeExif", "mergeImage",
                                     "mergeWriting", "report"} => writer[c] # "off"
        /\ fifo[c].writer = "closed" /\ fifo[c].reader # "closed" => unsent[c] = 0

SourceStory(c) ==
    /\ SourceInv(c)
    /\ ExifInv(c)
    /\ CauseInv(c)

Written == \A f \in Files : disk[f] # Absent => disk[f].form # "absent"

(* The story of each call, with its beginning as far as others leave its   *)
(* input file alone.                                                       *)
StoriesInv ==
    /\ DistinctOutputs(args)
    /\ Written
    /\ \A c \in Calls : StoryInv(c) /\ (InputStable(c) => SourceStory(c))

(* Files that no call writes keep what they hold.                          *)
LEMMA DiskFrame ==
    ASSUME TypeOK, NEW c \in Calls, Caller(c) \/ Writer(c)
    PROVE  \A f \in Files : f # Output(c) => disk'[f] = disk[f]
<1> USE DEF TypeOK
<1>0. Output(c) \in Files
  BY ArgumentsAssumption DEF ArgsType, Output
<1>1. CASE PipeFeeding(c) \/ DeletePipeFile(c)
  BY <1>1 DEF PipeFeeding, GetInputFile, CreatePipeFile, StartWriter, DeletePipeFile
<1>2. CASE NativeReencode(c)
  BY <1>2 DEF NativeReencode, CreateErrorFile, OpenInput, InputOpened, CreateIntermediateFile,
     Encode, DecodeBlock, PrematureEnd, CloseInput, DecodeFails
<1>3. CASE MergeExifAndJpeg(c)
  BY <1>0, <1>3 DEF MergeExifAndJpeg, GetInputFileAgain, ReadExif, NoIntermediateFile,
     MergeCrashes, MergeFails, MergeSucceeds,
     StartRewrite, FinishRewrite, RenameIntermediate
<1>4. CASE Report(c) \/ Catch(c) \/ Finally(c)
  BY <1>0, <1>4 DEF Report, ReportNothing, ReportWarning, ThrowFromReport, Catch, Finally
<1>5. CASE Writer(c)
  BY <1>5 DEF Writer, ReadInput, OpenPipe, PipeOpened, SendBlock, AllSent, SendFails
<1> QED
  BY <1>1, <1>2, <1>3, <1>4, <1>5 DEF Caller

(* What a call has noted for itself is touched by no other call.           *)
LEMMA LocalFrame ==
    ASSUME TypeOK, NEW c \in Calls, Caller(c) \/ Writer(c), NEW d \in Calls \ {c}
    PROVE  /\ fifo'[d] = fifo[d] /\ caller'[d] = caller[d] /\ writer'[d] = writer[d]
           /\ result'[d] = result[d] /\ got'[d] = got[d]
           /\ taken'[d] = taken[d] /\ unsent'[d] = unsent[d]
           /\ intermediate'[d] = intermediate[d] /\ errorFile'[d] = errorFile[d]
           /\ exifData'[d] = exifData[d] /\ mergeCode'[d] = mergeCode[d] /\ outcome'[d] = outcome[d]
           /\ logged'[d] = logged[d] /\ args' = args
<1> USE DEF TypeOK, Pipe!FifoTypeOK, settings, temporaries, stream, feeder, verdict, merging,
        progress, At, Goto, Log, WriterAt, WriterGoto, Return, Say, Succeed,
        Pipe!MakeFifo, Pipe!Unlink, Pipe!CallOpenToRead, Pipe!OpenedToRead,
        Pipe!CallOpenToWrite, Pipe!OpenedToWrite, Pipe!WriteBlock, Pipe!ReadBlock,
        Pipe!CloseReader, Pipe!CloseWriter
<1>1. CASE PipeFeeding(c) \/ DeletePipeFile(c)
  BY <1>1 DEF PipeFeeding, GetInputFile, CreatePipeFile, StartWriter, DeletePipeFile
<1>2. CASE \/ CreateErrorFile(c) \/ OpenInput(c) \/ InputOpened(c)
           \/ CreateIntermediateFile(c) \/ Encode(c)
  BY <1>2 DEF CreateErrorFile, OpenInput, InputOpened, CreateIntermediateFile, Encode
<1>3. CASE DecodeBlock(c) \/ PrematureEnd(c) \/ CloseInput(c) \/ DecodeFails(c)
  BY <1>3 DEF DecodeBlock, PrematureEnd, CloseInput, DecodeFails
<1>4. CASE MergeExifAndJpeg(c)
  BY <1>4 DEF MergeExifAndJpeg, GetInputFileAgain, ReadExif, NoIntermediateFile,
     MergeCrashes, MergeFails, MergeSucceeds,
     StartRewrite, FinishRewrite, RenameIntermediate
<1>5. CASE Report(c) \/ Catch(c) \/ Finally(c)
  BY <1>5 DEF Report, ReportNothing, ReportWarning, ThrowFromReport, Catch, Finally
<1>6. CASE ReadInput(c)
  BY <1>6 DEF ReadInput
<1>7. CASE OpenPipe(c) \/ PipeOpened(c) \/ SendBlock(c) \/ AllSent(c) \/ SendFails(c)
  BY <1>7 DEF OpenPipe, PipeOpened, SendBlock, AllSent, SendFails
<1> QED
  BY <1>1, <1>2, <1>3, <1>4, <1>5, <1>6, <1>7 DEF Caller, Writer, NativeReencode

(* Where nothing goes wrong around a call, a pipe that ends before the EOI *)
(* marker has brought a file that is cut short.                            *)
LEMMA EarlyEnd ==
    ASSUME TypeOK, NEW c \in Calls, CallInv(c), StoryInv(c), CauseInv(c), Faults = {},
           caller[c] = "reading", got[c] < Blocks, Pipe!EndOfFile(c)
    PROVE  taken[c].form = "partial"
<1>1. fifo[c] \in [linked : BOOLEAN, reader : Pipe!End, writer : Pipe!End, buffer : 0 .. Capacity]
  BY DEF TypeOK, Pipe!FifoTypeOK
<1>2. fifo[c].buffer = 0 /\ fifo[c].writer = "closed" /\ fifo[c].reader = "open"
  BY DEF Pipe!EndOfFile, CallInv, ReaderInv
<1>3. unsent[c] = 0 /\ got[c] \in Nat /\ got[c] + 0 + 0 = got[c]
  BY <1>2 DEF CauseInv, TypeOK
<1>4. taken[c] # Absent /\ taken[c] \in Content
  BY <1>2 DEF StoryInv, TakenInv, TypeOK
<1>5. got[c] \in Sizes(taken[c])
  BY <1>2, <1>3, <1>4 DEF CallInv, BlockInv
<1> QED
  BY <1>3, <1>5, BlocksAssumption DEF Sizes, MaxSize

(* A step of a call goes on with its own story, action by action.          *)
LEMMA StorySelf ==
    ASSUME TypeOK, NEW c \in Calls, CallInv(c), Written, StoryInv(c),
           {"rename", "shortWrite"} \cap Faults = {}, Caller(c) \/ Writer(c)
    PROVE  StoryInv(c)'
<1>f. fifo[c] \in [linked : BOOLEAN, reader : Pipe!End, writer : Pipe!End, buffer : 0 .. Capacity]
  BY DEF TypeOK, Pipe!FifoTypeOK
<1>g. TypeOK'
  BY TypeStep DEF Next
<1>h. Input(c) \in Files /\ Output(c) \in Files
  BY ArgumentsAssumption DEF TypeOK, ArgsType, Input, Output
<1>i. Absent.form = "absent" /\ Absent \in Content
  BY DEF Absent, Content
<1> USE BlocksAssumption
    DEF TypeOK, Pipe!FifoTypeOK, CallInv, NameInv, ReaderInv, WriterInv, BlockInv,
        Feeding, Native, After, Unwritten, Coded, Made, Input, Output, Whole,
        StoryInv, TakenInv, MadeInv, OutputInv, Written,
        settings, temporaries, stream, feeder, verdict, merging, progress,
        At, Goto, Log, WriterAt, WriterGoto, Return, Say, Succeed,
        MergeFails, MergeSucceeds,
        Pipe!MakeFifo, Pipe!Unlink, Pipe!CallOpenToRead, Pipe!OpenedToRead,
        Pipe!CallOpenToWrite, Pipe!OpenedToWrite, Pipe!WriteBlock, Pipe!ReadBlock,
        Pipe!CloseReader, Pipe!CloseWriter, Pipe!BrokenPipe, Pipe!EndOfFile
<1>1. CASE GetInputFile(c)
  BY <1>f, <1>h, <1>i, <1>1 DEF GetInputFile
<1>2. CASE CreatePipeFile(c)
  BY <1>f, <1>h, <1>i, <1>2 DEF CreatePipeFile
<1>3. CASE StartWriter(c)
  BY <1>f, <1>h, <1>i, <1>3 DEF StartWriter
<1>4. CASE CreateErrorFile(c)
  BY <1>f, <1>h, <1>i, <1>4 DEF CreateErrorFile
<1>5. CASE OpenInput(c)
  BY <1>f, <1>h, <1>i, <1>5 DEF OpenInput
<1>6. CASE InputOpened(c)
  BY <1>f, <1>h, <1>i, <1>6 DEF InputOpened
<1>7. CASE DecodeBlock(c)
  BY <1>f, <1>h, <1>i, <1>7 DEF DecodeBlock
<1>8. CASE PrematureEnd(c)
  BY <1>f, <1>h, <1>i, <1>8 DEF PrematureEnd
<1>9. CASE CloseInput(c)
  BY <1>f, <1>h, <1>i, <1>9 DEF CloseInput
<1>10. CASE DecodeFails(c)
  BY <1>f, <1>h, <1>i, <1>10 DEF DecodeFails
<1>11. CASE CreateIntermediateFile(c)
  BY <1>f, <1>h, <1>i, <1>11 DEF CreateIntermediateFile
<1>12. CASE Encode(c)
  <2>1. /\ caller[c] = "encoding" /\ caller'[c] = "unlink"
        /\ UNCHANGED <<args, disk, fifo, writer, taken, unsent, got, outcome, exifData,
           mergeCode, logged>>
    BY <1>12 DEF Encode
  <2>2. taken[c] # Absent /\ taken[c] \in Content /\ taken[c].form # "absent"
    BY <1>f, <2>1
  <2>3. CASE /\ intermediate' = [intermediate EXCEPT ![c].form = EncodedForm(c)]
             /\ result'[c] = (IF errorFile[c] = "silent" THEN "success" ELSE "warning")
             /\ UNCHANGED errorFile
    <3>1. intermediate'[c] = [intermediate[c] EXCEPT !.form = EncodedForm(c)]
      BY <2>3
    <3>2. intermediate[c] \in Content
      OBVIOUS
    <3>3. /\ intermediate'[c].image = taken[c].image /\ intermediate'[c].exif = NoImage
          /\ intermediate'[c].form = EncodedForm(c)
      BY <2>1, <3>1, <3>2 DEF Content
    <3>4. EncodedForm(c) \in {"coded", "damaged"}
      BY DEF EncodedForm
    <3>5. errorFile[c] = "silent" => taken[c].form # "partial"
      <4> SUFFICES ASSUME errorFile[c] = "silent", taken[c].form = "partial" PROVE FALSE
        OBVIOUS
      <4>1. got[c] = Blocks /\ got[c] + fifo[c].buffer + unsent[c] \in 0 .. Blocks - 1
        <5>1. MadeInv(c)
          OBVIOUS
        <5>2. got[c] = Blocks
          BY <2>1, <5>1, Zenon DEF MadeInv
        <5>3. Sizes(taken[c]) = 0 .. Blocks - 1
          BY DEF Sizes, IsOriginal
        <5> QED
          BY <2>2, <5>2, <5>3
      <4> QED
        BY <1>f, <4>1
    <3>6. taken[c].form \in {"original", "coded", "damaged", "partial"}
      BY <2>2 DEF Content
    <3>7. EncodedForm(c) = IF errorFile[c] = "silent" /\ taken[c].form # "damaged"
                           THEN "coded" ELSE "damaged"
      BY <3>5, <3>6 DEF EncodedForm
    <3>8. Made(c, intermediate[c])'
      BY <2>1, <2>3, <3>3, <3>7
    <3> HIDE DEF EncodedForm
    <3>9. TakenInv(c)'
      BY <1>i, <2>1, <3>3, <3>4
    <3>10. MadeInv(c)' /\ OutputInv(c)'
      BY <2>1, <2>3, <3>3, <3>8
    <3> QED
      BY <3>9, <3>10
  <2>4. CASE /\ {"codec", "diskFull"} \cap Faults # {} /\ result'[c] = "failure"
             /\ UNCHANGED intermediate
    BY <1>f, <2>1, <2>4
  <2> QED
    BY <1>12, <2>3, <2>4 DEF Encode
<1>13. CASE DeletePipeFile(c)
  BY <1>f, <1>h, <1>i, <1>13 DEF DeletePipeFile
<1>14. CASE GetInputFileAgain(c)
  BY <1>f, <1>h, <1>i, <1>14 DEF GetInputFileAgain
<1>15. CASE ReadExif(c)
  BY <1>f, <1>h, <1>i, <1>15 DEF ReadExif
<1>16. CASE NoIntermediateFile(c)
  BY <1>f, <1>h, <1>i, <1>16 DEF NoIntermediateFile
<1>17. CASE StartRewrite(c)
  <2>1. CASE /\ disk' = [disk EXCEPT ![Output(c)] =
                  [image |-> intermediate[c].image, exif |-> exifData[c], form |-> "partial"]]
             /\ caller'[c] = "mergeWriting"
             /\ UNCHANGED alive
    <3>1. /\ caller[c] = "mergeImage" /\ intermediate[c] # Absent
          /\ UNCHANGED <<args, fifo, errorFile, intermediate, writer, taken, unsent, got, result,
                         outcome, exifData, mergeCode, logged>>
      BY <1>17 DEF StartRewrite
    <3>2. disk'[Output(c)].image = intermediate[c].image
      BY <1>h, <2>1
    <3>3. TakenInv(c)' /\ MadeInv(c)'
      BY <2>1, <3>1
    <3>4. OutputInv(c)'
      BY <2>1, <3>1, <3>2
    <3> QED
      BY <3>3, <3>4
  <2>2. CASE UNCHANGED <<disk, caller>>
    BY <1>17, <2>2 DEF StartRewrite
  <2> QED
    BY <1>17, <2>1, <2>2 DEF StartRewrite
<1>18. CASE FinishRewrite(c)
  <2>1. /\ caller[c] = "mergeWriting" /\ caller'[c] = "report" /\ mergeCode'[c] = "success"
        /\ disk' = [disk EXCEPT ![Output(c)].form = intermediate[c].form]
        /\ UNCHANGED <<args, fifo, errorFile, intermediate, writer, taken, unsent, got, result,
                       outcome, exifData, logged>>
    BY <1>18 DEF FinishRewrite
  <2>2. disk'[Output(c)] = [disk[Output(c)] EXCEPT !.form = intermediate[c].form]
    BY <1>h, <2>1
  <2>3. disk[Output(c)] \in Content
    BY <1>h
  <2>4. /\ disk'[Output(c)].image = disk[Output(c)].image
        /\ disk'[Output(c)].form = intermediate[c].form
    BY <2>2, <2>3 DEF Content
  <2>5. TakenInv(c)' /\ MadeInv(c)'
    BY <2>1
  <2>6. OutputInv(c)'
    BY <2>1, <2>4
  <2> QED
    BY <2>5, <2>6
<1>19. CASE RenameIntermediate(c)
  <2>1. /\ caller[c] = "mergeImage" /\ caller'[c] = "report" /\ intermediate[c] # Absent
        /\ mergeCode'[c] = "success"
        /\ disk' = [disk EXCEPT ![Output(c)] = intermediate[c]]
        /\ intermediate'[c] = Absent
        /\ UNCHANGED <<args, fifo, errorFile, writer, taken, unsent, got, result,
                       outcome, exifData, logged>>
    BY <1>19 DEF RenameIntermediate
  <2>2. disk'[Output(c)] = intermediate[c]
    BY <1>h, <2>1
  <2>3. TakenInv(c)' /\ MadeInv(c)'
    BY <1>i, <2>1
  <2>4. OutputInv(c)'
    BY <2>1, <2>2
  <2> QED
    BY <2>3, <2>4
<1>20. CASE ReportNothing(c)
  BY <1>f, <1>h, <1>i, <1>20 DEF ReportNothing
<1>21. CASE ReportWarning(c)
  BY <1>f, <1>h, <1>i, <1>21 DEF ReportWarning
<1>22. CASE ThrowFromReport(c)
  <2>1. /\ caller[c] = "report" /\ caller'[c] = "catch" /\ "error" \notin logged'[c]
        /\ UNCHANGED <<args, disk, fifo, errorFile, intermediate, writer, taken, unsent, got,
           result,
                       outcome, exifData, mergeCode>>
    BY <1>22 DEF ThrowFromReport
  <2> QED
    BY <2>1
<1>23. CASE Catch(c)
  BY <1>f, <1>h, <1>i, <1>23 DEF Catch
<1>24. CASE Finally(c)
  BY <1>f, <1>h, <1>i, <1>24 DEF Finally
<1>25. CASE ReadInput(c)
  <2>1. /\ writer[c] = "start"
        /\ UNCHANGED <<args, disk, fifo, errorFile, intermediate, caller, got, result, outcome,
                       exifData, mergeCode>>
    BY <1>25 DEF ReadInput
  <2>2. fifo[c].writer = "none" /\ taken[c] = Absent /\ result[c] \notin Coded
    BY <1>f, <2>1
  <2>3. outcome[c] # "ok"
    BY <2>2
  <2>4. CASE /\ disk[Input(c)] # Absent /\ taken'[c] = disk[Input(c)] /\ writer'[c] = "open"
             /\ UNCHANGED logged
    <3>1. TakenInv(c)'
      BY <1>h, <2>1, <2>2, <2>4
    <3>2. MadeInv(c)'
      BY <1>f, <2>1, <2>2, <2>4
    <3>3. OutputInv(c)'
      BY <2>1, <2>2, <2>3, <2>4
    <3> QED
      BY <3>1, <3>2, <3>3
  <2>5. CASE /\ taken' = taken /\ writer'[c] \in {"start", "failed"}
             /\ logged'[c] \in {logged[c], logged[c] \cup {"writer"}}
    <3>1. TakenInv(c)' /\ MadeInv(c)'
      BY <2>1, <2>2, <2>5
    <3>2. OutputInv(c)'
      BY <2>1, <2>2, <2>3, <2>5
    <3> QED
      BY <3>1, <3>2
  <2>6. \/ /\ disk[Input(c)] # Absent /\ taken'[c] = disk[Input(c)] /\ writer'[c] = "open"
           /\ UNCHANGED logged
        \/ /\ taken' = taken /\ writer'[c] \in {"start", "failed"}
           /\ logged'[c] \in {logged[c], logged[c] \cup {"writer"}}
    BY <1>25 DEF ReadInput
  <2> QED
    BY <2>4, <2>5, <2>6
<1>26. CASE OpenPipe(c)
  BY <1>f, <1>h, <1>i, <1>26 DEF OpenPipe
<1>27. CASE PipeOpened(c)
  BY <1>f, <1>h, <1>i, <1>27 DEF PipeOpened
<1>28. CASE SendBlock(c)
  BY <1>f, <1>h, <1>i, <1>28 DEF SendBlock
<1>29. CASE AllSent(c)
  BY <1>f, <1>h, <1>i, <1>29 DEF AllSent
<1>30. CASE SendFails(c)
  BY <1>f, <1>h, <1>i, <1>30 DEF SendFails
<1>31. CASE MergeCrashes(c)
  BY <1>f, <1>h, <1>i, <1>31 DEF MergeCrashes
<1> QED
  BY <1>1, <1>2, <1>3, <1>4, <1>5, <1>6, <1>7, <1>8, <1>9, <1>10,
     <1>11, <1>12, <1>13, <1>14, <1>15, <1>16, <1>17, <1>18, <1>19, <1>20,
     <1>21, <1>22, <1>23, <1>24, <1>25, <1>26, <1>27, <1>28, <1>29, <1>30,
     <1>31
     DEF Caller, Writer, PipeFeeding, NativeReencode, MergeExifAndJpeg, Report

(* So it does with its beginning.                                          *)
LEMMA SourceSelf ==
    ASSUME TypeOK, NEW c \in Calls, CallInv(c), StoryInv(c), SourceStory(c),
           {"rename", "shortWrite"} \cap Faults = {}, Caller(c) \/ Writer(c)
    PROVE  SourceStory(c)'
<1>f. fifo[c] \in [linked : BOOLEAN, reader : Pipe!End, writer : Pipe!End, buffer : 0 .. Capacity]
  BY DEF TypeOK, Pipe!FifoTypeOK
<1>g. TypeOK'
  BY TypeStep DEF Next
<1>h. Input(c) \in Files /\ Output(c) \in Files
  BY ArgumentsAssumption DEF TypeOK, ArgsType, Input, Output
<1>i. Absent.form = "absent" /\ Absent \in Content
  BY DEF Absent, Content
<1> USE BlocksAssumption
    DEF TypeOK, Pipe!FifoTypeOK, CallInv, NameInv, ReaderInv, WriterInv, BlockInv,
        Feeding, Native, After, Unwritten, Coded, Made, Input, Output, Whole,
        StoryInv, TakenInv, MadeInv, OutputInv, SourceStory, SourceInv, ExifInv, CauseInv, Cause,
        settings, temporaries, stream, feeder, verdict, merging, progress,
        At, Goto, Log, WriterAt, WriterGoto, Return, Say, Succeed,
        MergeFails, MergeSucceeds,
        Pipe!MakeFifo, Pipe!Unlink, Pipe!CallOpenToRead, Pipe!OpenedToRead,
        Pipe!CallOpenToWrite, Pipe!OpenedToWrite, Pipe!WriteBlock, Pipe!ReadBlock,
        Pipe!CloseReader, Pipe!CloseWriter, Pipe!BrokenPipe, Pipe!EndOfFile
<1>1. CASE GetInputFile(c)
  BY <1>f, <1>h, <1>i, <1>1 DEF GetInputFile, MayWarn, MustFail, IsOriginal
<1>2. CASE CreatePipeFile(c)
  BY <1>f, <1>h, <1>i, <1>2 DEF CreatePipeFile, MayWarn, MustFail, IsOriginal
<1>3. CASE StartWriter(c)
  BY <1>f, <1>h, <1>i, <1>3 DEF StartWriter, MayWarn, MustFail, IsOriginal
<1>4. CASE CreateErrorFile(c)
  BY <1>f, <1>h, <1>i, <1>4 DEF CreateErrorFile, MayWarn, MustFail, IsOriginal
<1>5. CASE OpenInput(c)
  BY <1>f, <1>h, <1>i, <1>5 DEF OpenInput, MayWarn, MustFail, IsOriginal
<1>6. CASE InputOpened(c)
  BY <1>f, <1>h, <1>i, <1>6 DEF InputOpened, MayWarn, MustFail, IsOriginal
<1>7. CASE DecodeBlock(c)
  BY <1>f, <1>h, <1>i, <1>7 DEF DecodeBlock, MayWarn, MustFail, IsOriginal
<1>8. CASE PrematureEnd(c)
  <2>1. /\ caller[c] = "reading" /\ caller'[c] = "openMid" /\ got[c] < Blocks /\ Pipe!EndOfFile(c)
        /\ fifo'[c] = [fifo[c] EXCEPT !.reader = "closed"]
        /\ UNCHANGED <<args, disk, writer, taken, unsent, got, intermediate, result, outcome,
                       exifData, mergeCode, logged>>
    BY <1>8 DEF PrematureEnd
  <2>2. errorFile'[c] = (IF errorFile[c] = "silent" THEN "other" ELSE errorFile[c])
    BY <1>8 DEF PrematureEnd
  <2>3. SourceInv(c)' /\ ExifInv(c)'
    BY <1>f, <2>1, <2>2
  <2>4. Faults = {} => Cause(c)
    BY <2>1, EarlyEnd
  <2>5. CauseInv(c)'
    BY <1>f, <2>1, <2>2, <2>4 DEF MayWarn, MustFail, IsOriginal
  <2> QED
    BY <2>3, <2>5
<1>9. CASE CloseInput(c)
  BY <1>f, <1>h, <1>i, <1>9 DEF CloseInput, MayWarn, MustFail, IsOriginal
<1>10. CASE DecodeFails(c)
  <2>1. /\ caller[c] = "reading" /\ caller'[c] = "unlink" /\ result'[c] = "failure"
        /\ fifo'[c] = [fifo[c] EXCEPT !.reader = "closed"]
        /\ UNCHANGED <<args, disk, writer, taken, unsent, got, intermediate, outcome, exifData,
                       mergeCode, logged>>
    BY <1>10 DEF DecodeFails
  <2>2. errorFile'[c] = (IF errorFile[c] = "silent" THEN "other" ELSE errorFile[c])
    BY <1>10 DEF DecodeFails
  <2>3. SourceInv(c)' /\ ExifInv(c)'
    BY <1>f, <2>1, <2>2
  <2>4. Faults = {} => Cause(c)
    <3>1. CASE got[c] > 0 /\ (MustFail(taken[c]) \/ MayWarn(taken[c]))
      BY <3>1
    <3>2. CASE got[c] < Blocks /\ Pipe!EndOfFile(c)
      BY <2>1, <3>2, EarlyEnd
    <3> QED
      BY <1>10, <3>1, <3>2 DEF DecodeFails
  <2>5. CauseInv(c)'
    BY <1>f, <2>1, <2>2, <2>4 DEF MayWarn, MustFail, IsOriginal
  <2> QED
    BY <2>3, <2>5
<1>11. CASE CreateIntermediateFile(c)
  BY <1>f, <1>h, <1>i, <1>11 DEF CreateIntermediateFile, MayWarn, MustFail, IsOriginal
<1>12. CASE Encode(c)
  <2>1. /\ caller[c] = "encoding" /\ caller'[c] = "unlink"
        /\ UNCHANGED <<args, disk, fifo, writer, taken, unsent, got, outcome, exifData, mergeCode,
                       logged>>
    BY <1>12 DEF Encode
  <2>2. \/ /\ result'[c] = (IF errorFile[c] = "silent" THEN "success" ELSE "warning")
           /\ UNCHANGED errorFile
        \/ "codec" \in Faults
        \/ "diskFull" \in Faults
    BY <1>12 DEF Encode
  <2>3. result'[c] \in Results /\ errorFile[c] \in ErrorFileStates
    BY <1>g
  <2>4. SourceInv(c)' /\ ExifInv(c)'
    BY <2>1
  <2>5. CauseInv(c)'
    BY <2>1, <2>2, <2>3 DEF ErrorFileStates, MayWarn, MustFail, IsOriginal
  <2> QED
    BY <2>4, <2>5
<1>13. CASE DeletePipeFile(c)
  BY <1>f, <1>h, <1>i, <1>13 DEF DeletePipeFile, MayWarn, MustFail, IsOriginal
<1>14. CASE GetInputFileAgain(c)
  BY <1>f, <1>h, <1>i, <1>14 DEF GetInputFileAgain, MayWarn, MustFail, IsOriginal
<1>15. CASE ReadExif(c)
  <2>1. /\ caller[c] = "mergeExif"
        /\ UNCHANGED <<args, disk, fifo, errorFile, intermediate, writer, taken, unsent, got,
                       result, outcome, logged>>
    BY <1>15 DEF ReadExif
  <2>2. \/ /\ disk[Input(c)] = Absent \/ "openExif" \in Faults
           /\ caller'[c] = "report" /\ mergeCode'[c] = "failure"
        \/ /\ caller'[c] = "mergeImage" /\ mergeCode'[c] = mergeCode[c]
           /\ disk[Input(c)].form # "partial" /\ "mergeMemory" \notin Faults =>
                 exifData'[c] = disk[Input(c)].exif
    BY <1>15 DEF ReadExif
  <2>3. taken[c] # Absent => disk[Input(c)] = taken[c]
    BY <2>1
  <2>4. SourceInv(c)'
    BY <2>1, <2>2, <2>3
  <2>5. ExifInv(c)'
    <3>1. result[c] \in Coded => taken[c] # Absent
      BY <1>f
    <3> QED
      BY <2>1, <2>2, <2>3, <3>1
  <2>6. CauseInv(c)'
    BY <2>1, <2>2 DEF MayWarn, MustFail, IsOriginal
  <2> QED
    BY <2>4, <2>5, <2>6
<1>16. CASE NoIntermediateFile(c)
  <2>1. /\ caller[c] = "mergeImage" /\ caller'[c] = "report" /\ mergeCode'[c] = "failure"
        /\ UNCHANGED <<args, disk, fifo, errorFile, intermediate, writer, taken, unsent, got,
                       result, outcome, exifData, logged>>
    BY <1>16 DEF NoIntermediateFile
  <2>2. Faults = {} => result[c] = "failure"
    <3>1. Faults = {} => intermediate[c] = Absent /\ writer[c] # "off"
      BY <1>16, <2>1 DEF NoIntermediateFile
    <3>2. result[c] \in Coded => intermediate[c].form # "absent"
      BY <2>1
    <3> QED
      BY <1>i, <2>1, <3>1, <3>2 DEF Results
  <2>3. SourceInv(c)' /\ ExifInv(c)'
    BY <2>1
  <2>4. CauseInv(c)'
    BY <2>1, <2>2 DEF MayWarn, MustFail, IsOriginal
  <2> QED
    BY <2>3, <2>4
<1>17. CASE StartRewrite(c)
  <2>1. CASE /\ disk' = [disk EXCEPT ![Output(c)] =
                  [image |-> intermediate[c].image, exif |-> exifData[c], form |-> "partial"]]
             /\ caller'[c] = "mergeWriting"
             /\ UNCHANGED alive
    <3>1. /\ caller[c] = "mergeImage"
          /\ UNCHANGED <<args, fifo, errorFile, intermediate, writer, taken, unsent, got, result,
                         outcome, exifData, mergeCode, logged>>
      BY <1>17 DEF StartRewrite
    <3>2. disk'[Output(c)].exif = exifData[c]
      BY <1>h, <2>1
    <3>3. SourceInv(c)'
      BY <2>1, <3>1
    <3>4. ExifInv(c)'
      BY <2>1, <3>1, <3>2
    <3>5. CauseInv(c)'
      BY <2>1, <3>1 DEF MayWarn, MustFail, IsOriginal
    <3> QED
      BY <3>3, <3>4, <3>5
  <2>2. CASE UNCHANGED <<disk, caller>>
    BY <1>17, <2>2 DEF StartRewrite, MayWarn, MustFail, IsOriginal
  <2> QED
    BY <1>17, <2>1, <2>2 DEF StartRewrite
<1>18. CASE FinishRewrite(c)
  <2>1. /\ caller[c] = "mergeWriting" /\ caller'[c] = "report" /\ mergeCode'[c] = "success"
        /\ disk' = [disk EXCEPT ![Output(c)].form = intermediate[c].form]
        /\ UNCHANGED <<args, fifo, errorFile, intermediate, writer, taken, unsent, got, result,
                       outcome, exifData, logged>>
    BY <1>18 DEF FinishRewrite
  <2>2. disk'[Output(c)] = [disk[Output(c)] EXCEPT !.form = intermediate[c].form]
    BY <1>h, <2>1
  <2>3. disk[Output(c)] \in Content
    BY <1>h
  <2>4. disk'[Output(c)].exif = disk[Output(c)].exif
    BY <2>2, <2>3 DEF Content
  <2>5. SourceInv(c)'
    BY <2>1
  <2>6. ExifInv(c)'
    BY <2>1, <2>4
  <2>7. CauseInv(c)'
    BY <2>1 DEF MayWarn, MustFail, IsOriginal
  <2> QED
    BY <2>5, <2>6, <2>7
<1>19. CASE RenameIntermediate(c)
  <2>1. /\ caller[c] = "mergeImage" /\ caller'[c] = "report"
        /\ mergeCode'[c] = "success"
        /\ exifData[c] = NoImage \/ intermediate[c].form = "partial" \/ "mergeMemory" \in Faults
        /\ disk' = [disk EXCEPT ![Output(c)] = intermediate[c]]
        /\ UNCHANGED <<args, fifo, errorFile, writer, taken, unsent, got, result,
                       outcome, exifData, logged>>
    BY <1>19 DEF RenameIntermediate
  <2>2. disk'[Output(c)] = intermediate[c]
    BY <1>h, <2>1
  <2>3. SourceInv(c)'
    BY <2>1
  <2>4. ExifInv(c)'
    BY <2>1, <2>2
  <2>5. CauseInv(c)'
    BY <2>1 DEF MayWarn, MustFail, IsOriginal
  <2> QED
    BY <2>3, <2>4, <2>5
<1>20. CASE ReportNothing(c)
  BY <1>f, <1>h, <1>i, <1>20 DEF ReportNothing, MayWarn, MustFail, IsOriginal
<1>21. CASE ReportWarning(c)
  <2>1. /\ caller[c] = "report" /\ caller'[c] = "finally" /\ outcome'[c] = "ok"
        /\ result[c] = "warning" \/ (result[c] = "success" /\ args[c].verbose)
        /\ logged'[c] = logged[c] \cup {"warning"}
        /\ UNCHANGED <<args, disk, fifo, errorFile, intermediate, writer, taken, unsent, got,
                       result, exifData, mergeCode>>
    BY <1>21 DEF ReportWarning
  <2>2. SourceInv(c)' /\ ExifInv(c)'
    BY <2>1
  <2>3. CauseInv(c)'
    BY <2>1 DEF MayWarn, MustFail, IsOriginal
  <2> QED
    BY <2>2, <2>3
<1>22. CASE ThrowFromReport(c)
  <2>1. /\ caller[c] = "report" /\ caller'[c] = "catch"
        /\ UNCHANGED <<args, disk, fifo, errorFile, intermediate, writer, taken, unsent, got,
           result,
                       outcome, exifData, mergeCode>>
    BY <1>22 DEF ThrowFromReport
  <2>2. \/ /\ disk[Output(c)] = Absent \/ errorFile[c] = "corrupt" \/ result[c] = "failure"
           /\ logged'[c] = logged[c]
        \/ "readError" \in Faults /\ logged'[c] = logged[c] \cup {"warning"}
    BY <1>22 DEF ThrowFromReport
  <2>3. SourceInv(c)' /\ ExifInv(c)'
    BY <2>1
  <2>4. Faults = {} => Cause(c)
    <3>1. CASE errorFile[c] = "corrupt" \/ result[c] = "failure"
      BY <3>1
    <3>2. CASE Faults = {} /\ disk[Output(c)] = Absent /\ result[c] # "failure"
      <4>1. writer[c] # "off"
        BY <2>1, <3>2
      <4>2. result[c] \in Coded
        BY <2>1, <3>2, <4>1 DEF Results
      <4>3. mergeCode[c] = "success"
        BY <2>1, <3>2 DEF MergeCodes
      <4> QED
        BY <1>i, <2>1, <3>2, <4>2, <4>3
    <3> QED
      BY <2>2, <3>1, <3>2
  <2>5. CauseInv(c)'
    BY <2>1, <2>2, <2>4 DEF MayWarn, MustFail, IsOriginal
  <2> QED
    BY <2>3, <2>5
<1>23. CASE Catch(c)
  BY <1>f, <1>h, <1>i, <1>23 DEF Catch, MayWarn, MustFail, IsOriginal
<1>24. CASE Finally(c)
  BY <1>f, <1>h, <1>i, <1>24 DEF Finally, MayWarn, MustFail, IsOriginal
<1>25. CASE ReadInput(c)
  <2>1. /\ writer[c] = "start"
        /\ UNCHANGED <<args, disk, fifo, errorFile, intermediate, caller, got, result, outcome,
                       exifData, mergeCode>>
    BY <1>25 DEF ReadInput
  <2>2. fifo[c].writer = "none" /\ taken[c] = Absent /\ result[c] \notin Coded
    BY <1>f, <2>1
  <2>3. outcome[c] # "ok"
    BY <2>2
  <2>4. CASE /\ disk[Input(c)] # Absent /\ taken'[c] = disk[Input(c)] /\ writer'[c] = "open"
             /\ UNCHANGED logged
    <3>1. SourceInv(c)' /\ ExifInv(c)'
      BY <2>1, <2>2, <2>3, <2>4
    <3>2. CauseInv(c)'
      BY <1>f, <2>1, <2>2, <2>4
    <3> QED
      BY <3>1, <3>2
  <2>5. CASE /\ taken' = taken /\ unsent' = unsent /\ writer'[c] \in {"start", "failed"}
             /\ logged'[c] \in {logged[c], logged[c] \cup {"writer"}}
    <3>1. SourceInv(c)' /\ ExifInv(c)'
      BY <2>1, <2>2, <2>3, <2>5
    <3>2. CauseInv(c)'
      BY <2>1, <2>2, <2>5 DEF MayWarn, MustFail, IsOriginal
    <3> QED
      BY <3>1, <3>2
  <2>6. \/ /\ disk[Input(c)] # Absent /\ taken'[c] = disk[Input(c)] /\ writer'[c] = "open"
           /\ UNCHANGED logged
        \/ /\ taken' = taken /\ unsent' = unsent /\ writer'[c] \in {"start", "failed"}
           /\ logged'[c] \in {logged[c], logged[c] \cup {"writer"}}
    BY <1>25 DEF ReadInput
  <2> QED
    BY <2>4, <2>5, <2>6
<1>26. CASE OpenPipe(c)
  BY <1>f, <1>h, <1>i, <1>26 DEF OpenPipe, MayWarn, MustFail, IsOriginal
<1>27. CASE PipeOpened(c)
  BY <1>f, <1>h, <1>i, <1>27 DEF PipeOpened, MayWarn, MustFail, IsOriginal
<1>28. CASE SendBlock(c)
  BY <1>f, <1>h, <1>i, <1>28 DEF SendBlock, MayWarn, MustFail, IsOriginal
<1>29. CASE AllSent(c)
  BY <1>f, <1>h, <1>i, <1>29 DEF AllSent, MayWarn, MustFail, IsOriginal
<1>30. CASE SendFails(c)
  BY <1>f, <1>h, <1>i, <1>30 DEF SendFails, MayWarn, MustFail, IsOriginal
<1>31. CASE MergeCrashes(c)
  BY <1>f, <1>h, <1>i, <1>31 DEF MergeCrashes, MayWarn, MustFail, IsOriginal
<1> QED
  BY <1>1, <1>2, <1>3, <1>4, <1>5, <1>6, <1>7, <1>8, <1>9, <1>10,
     <1>11, <1>12, <1>13, <1>14, <1>15, <1>16, <1>17, <1>18, <1>19, <1>20,
     <1>21, <1>22, <1>23, <1>24, <1>25, <1>26, <1>27, <1>28, <1>29, <1>30,
     <1>31
     DEF Caller, Writer, PipeFeeding, NativeReencode, MergeExifAndJpeg, Report

(* At the start there is nothing to tell.                                  *)
LEMMA StoriesInit == Init => StoriesInv
<1> SUFFICES ASSUME Init PROVE StoriesInv
  OBVIOUS
<1>1. DistinctOutputs(args)
  BY DEF Init
<1>2. Written
  BY DEF Init, Supplied, Written
<1> SUFFICES ASSUME NEW c \in Calls PROVE StoryInv(c) /\ SourceStory(c)
  BY <1>1, <1>2 DEF StoriesInv
<1>3. /\ fifo[c].writer = "none" /\ fifo[c].reader = "none" /\ writer[c] = "off"
      /\ caller[c] = "start" /\ result[c] = "none" /\ taken[c] = Absent
      /\ intermediate[c] = Absent /\ errorFile[c] = "absent" /\ mergeCode[c] = "none"
      /\ outcome[c] = "none" /\ logged[c] = {}
  BY DEF Init, Pipe!FifoInit
<1>4. StoryInv(c)
  BY <1>3 DEF StoryInv, TakenInv, MadeInv, OutputInv, Unwritten, Coded, Feeding, Native
<1>5. SourceInv(c) /\ ExifInv(c)
  BY <1>3 DEF SourceInv, ExifInv, Coded
<1>6. CauseInv(c)
  BY <1>3 DEF CauseInv, Feeding, Native
<1> QED
  BY <1>4, <1>5, <1>6 DEF SourceStory

(* What is on disk is there.                                               *)
LEMMA WrittenStep ==
    ASSUME TypeOK, NEW c \in Calls, Written, StoryInv(c), Caller(c) \/ Writer(c)
    PROVE  Written'
<1> SUFFICES ASSUME NEW f \in Files, disk'[f] # Absent PROVE disk'[f].form # "absent"
  BY DEF Written
<1>1. Output(c) \in Files
  BY ArgumentsAssumption DEF TypeOK, ArgsType, Output
<1>2. CASE f # Output(c)
  BY <1>2, DiskFrame DEF Written
<1>3. CASE UNCHANGED disk
  BY <1>3 DEF Written
<1>4. CASE StartRewrite(c) /\ f = Output(c)
  BY <1>1, <1>3, <1>4 DEF StartRewrite, TypeOK
<1>5. CASE FinishRewrite(c) /\ f = Output(c)
  <2>1. intermediate[c] # Absent
    BY <1>5 DEF FinishRewrite, At, StoryInv, TakenInv
  <2>2. disk'[f] = disk[f] \/ disk'[f] = [disk[f] EXCEPT !.form = intermediate[c].form]
    BY <1>1, <1>5 DEF FinishRewrite, TypeOK
  <2>3. disk[f] \in Content
    BY DEF TypeOK
  <2> QED
    BY <2>1, <2>2, <2>3 DEF Content, Written, StoryInv, TakenInv
<1>6. CASE RenameIntermediate(c) /\ f = Output(c)
  BY <1>1, <1>3, <1>6 DEF RenameIntermediate, TypeOK, StoryInv, TakenInv
<1>7. CASE Catch(c) /\ f = Output(c)
  BY <1>1, <1>7 DEF Catch, TypeOK
<1>8. \/ UNCHANGED disk
      \/ StartRewrite(c) \/ FinishRewrite(c) \/ RenameIntermediate(c) \/ Catch(c)
  BY DEF Caller, Writer, PipeFeeding, GetInputFile, CreatePipeFile, StartWriter,
     NativeReencode, CreateErrorFile, OpenInput, InputOpened, DecodeBlock, PrematureEnd,
     CloseInput, DecodeFails, CreateIntermediateFile, Encode, DeletePipeFile,
     MergeExifAndJpeg, GetInputFileAgain, ReadExif, NoIntermediateFile, MergeCrashes,
     Report, ReportNothing, ReportWarning, ThrowFromReport, Finally, ReadInput, OpenPipe,
     PipeOpened, SendBlock, AllSent, SendFails
<1> QED
  BY <1>2, <1>3, <1>4, <1>5, <1>6, <1>7, <1>8

(* Nobody changes the arguments of a call.                                 *)
LEMMA ArgumentsStay ==
    ASSUME NEW c \in Calls, Caller(c) \/ Writer(c)
    PROVE  args' = args
  BY DEF settings, Caller, Writer, PipeFeeding, GetInputFile, CreatePipeFile, StartWriter,
     NativeReencode, CreateErrorFile, OpenInput, InputOpened, DecodeBlock, PrematureEnd,
     CloseInput, DecodeFails, CreateIntermediateFile, Encode, DeletePipeFile,
     MergeExifAndJpeg, GetInputFileAgain, ReadExif, NoIntermediateFile, MergeCrashes,
     StartRewrite, FinishRewrite, RenameIntermediate, Report, ReportNothing, ReportWarning,
     ThrowFromReport, Catch, Finally, ReadInput, OpenPipe, PipeOpened, SendBlock, AllSent,
     SendFails

(* A step of one call goes on with the stories of all.                     *)
LEMMA StoriesStep ==
    ASSUME {"rename", "shortWrite"} \cap Faults = {}
    PROVE  TypeOK /\ CallsInv /\ StoriesInv /\ [Next]_vars => StoriesInv'
<1> SUFFICES ASSUME TypeOK, CallsInv, StoriesInv, [Next]_vars PROVE StoriesInv'
  OBVIOUS
<1> DEFINE Same(d) ==
      /\ fifo'[d] = fifo[d] /\ caller'[d] = caller[d] /\ writer'[d] = writer[d]
      /\ result'[d] = result[d] /\ got'[d] = got[d]
      /\ taken'[d] = taken[d] /\ unsent'[d] = unsent[d]
      /\ intermediate'[d] = intermediate[d] /\ errorFile'[d] = errorFile[d]
      /\ exifData'[d] = exifData[d] /\ mergeCode'[d] = mergeCode[d]
      /\ outcome'[d] = outcome[d] /\ logged'[d] = logged[d] /\ args' = args
<1>s. ASSUME NEW d \in Calls, Same(d), disk'[Output(d)] = disk[Output(d)]
      PROVE  /\ StoryInv(d)'
             /\ SourceStory(d) /\ disk'[Input(d)] = disk[Input(d)] => SourceStory(d)'
  <2>1. Input(d)' = Input(d) /\ Output(d)' = Output(d)
    BY <1>s DEF Input, Output
  <2>2. StoryInv(d)'
    BY <1>s, <2>1 DEF StoriesInv, StoryInv, TakenInv, MadeInv, OutputInv, Made
  <2>3. SourceStory(d) /\ disk'[Input(d)] = disk[Input(d)] => SourceStory(d)'
    BY <1>s, <2>1 DEF SourceStory, SourceInv, ExifInv, CauseInv, Cause,
       Whole, MayWarn, MustFail, IsOriginal
  <2> QED
    BY <2>2, <2>3
<1> HIDE DEF Same
<1>1. CASE UNCHANGED vars
  <2>1. UNCHANGED <<args, disk>> /\ \A d \in Calls : Same(d)
    BY <1>1 DEF vars, settings, temporaries, feeder, stream, progress, verdict, merging, Same
  <2>2. \A d \in Calls : InputStable(d)' = InputStable(d) /\ disk'[Input(d)] = disk[Input(d)]
                         /\ disk'[Output(d)] = disk[Output(d)]
    BY <2>1 DEF InputStable, Input, Output
  <2>3. DistinctOutputs(args)' /\ Written'
    BY <2>1 DEF StoriesInv, DistinctOutputs, Written
  <2> QED
    BY <1>s, <2>1, <2>2, <2>3 DEF StoriesInv
<1>2. ASSUME NEW c \in Calls, Caller(c) \/ Writer(c) PROVE StoriesInv'
  <2>1. args' = args
    BY <1>2, ArgumentsStay
  <2>2. DistinctOutputs(args)'
    BY <2>1 DEF StoriesInv, DistinctOutputs
  <2>3. Written'
    BY <1>2, WrittenStep DEF StoriesInv
  <2>4. ASSUME NEW d \in Calls
        PROVE  StoryInv(d)' /\ (InputStable(d)' => SourceStory(d)')
    <3>1. InputStable(d)' = InputStable(d)
      BY <2>1 DEF InputStable, Input, Output
    <3>2. CASE c = d
      <4>1. CallInv(c) /\ Written /\ StoryInv(c)
        BY DEF CallsInv, StoriesInv
      <4>2. StoryInv(c)'
        BY <1>2, <4>1, StorySelf
      <4>3. SourceStory(c) => SourceStory(c)'
        BY <1>2, <4>1, SourceSelf
      <4> QED
        BY <3>1, <3>2, <4>2, <4>3 DEF StoriesInv
    <3>3. CASE c # d
      <4>1. Output(c) # Output(d) /\ Output(d) \in Files /\ Input(d) \in Files
        BY <3>3, ArgumentsAssumption DEF StoriesInv, DistinctOutputs, Output, TypeOK,
           ArgsType, Input
      <4>2. disk'[Output(d)] = disk[Output(d)]
        BY <1>2, <4>1, DiskFrame
      <4>3. InputStable(d) => disk'[Input(d)] = disk[Input(d)]
        BY <1>2, <3>3, <4>1, DiskFrame DEF InputStable
      <4>4. Same(d)
        BY <1>2, <3>3, LocalFrame DEF Same
      <4> QED
        BY <1>s, <3>1, <4>2, <4>3, <4>4 DEF StoriesInv
    <3> QED
      BY <3>2, <3>3
  <2> QED
    BY <2>2, <2>3, <2>4 DEF StoriesInv
<1> QED
  BY <1>1, <1>2 DEF Next, Terminated

(* In every reachable state the story of each call is as StoriesInv tells, *)
(* whatever fails and whatever the calls do to each other's input files,   *)
(* but for rename and writes to the output file that come up short: those  *)
(* leave no trace in the program.                                          *)
THEOREM StoriesTold ==
    ASSUME {"rename", "shortWrite"} \cap Faults = {}
    PROVE  Spec => [](TypeOK /\ CallsInv /\ StoriesInv)
<1>1. TypeOK /\ CallsInv /\ StoriesInv /\ [Next]_vars => (TypeOK /\ CallsInv /\ StoriesInv)'
  BY TypeStep, CallsStep, StoriesStep
<1> QED
  BY <1>1, TypeInit, CallsInit, StoriesInit, PTL DEF Spec

(* Whatever else goes wrong, and however the threads interleave: a call    *)
(* that returns and has told no logger anything has left the whole picture *)
(* its writer thread read, if its merge has said EXIT_SUCCESS.             *)
THEOREM SilenceMeansComplete ==
    ASSUME {"rename", "shortWrite"} \cap Faults = {}
    PROVE  Spec => []SilentSuccessIsComplete
<1>1. StoriesInv => SilentSuccessIsComplete
  BY DEF StoriesInv, StoryInv, OutputInv, Made, SilentSuccessIsComplete
<1>2. Spec => [](TypeOK /\ CallsInv /\ StoriesInv)
  BY StoriesTold
<1> QED
  BY <1>1, <1>2, PTL

(* The EXIF segment of a whole input file that nobody else writes is in    *)
(* the output of every call that returns normally with a merge that has    *)
(* said EXIT_SUCCESS and had the memory for the segment and the picture.   *)
THEOREM ExifKept ==
    ASSUME {"rename", "shortWrite"} \cap Faults = {}
    PROVE  Spec => []ExifSurvives
<1>1. StoriesInv => ExifSurvives
  BY DEF StoriesInv, StoryInv, OutputInv, SourceStory, ExifInv, ExifSurvives
<1>2. Spec => [](TypeOK /\ CallsInv /\ StoriesInv)
  BY StoriesTold
<1> QED
  BY <1>1, <1>2, PTL

(* With nothing wrong around it, a call reports an error, or unasked a     *)
(* warning, only for a file that is missing, cut short or not sound.       *)
THEOREM ReportsHaveACause ==
    ASSUME {"rename", "shortWrite"} \cap Faults = {}
    PROVE  Spec => []SoundInputSucceeds
<1>1. StoriesInv => SoundInputSucceeds
  BY DEF StoriesInv, SourceStory, CauseInv, Cause, SoundInputSucceeds
<1>2. Spec => [](TypeOK /\ CallsInv /\ StoriesInv)
  BY StoriesTold
<1> QED
  BY <1>1, <1>2, PTL

(* A file that is re-encoded in place is whole at every moment until the   *)
(* call fails, itself or as the intermediate file.                         *)
THEOREM PictureKeptInPlace ==
    ASSUME {"rename", "shortWrite"} \cap Faults = {}
    PROVE  Spec => []InPlaceKeepsPicture
<1>1. TypeOK /\ CallsInv /\ StoriesInv => InPlaceKeepsPicture
  <2> SUFFICES ASSUME TypeOK, CallsInv, StoriesInv, NEW c \in Calls,
                      Input(c) = Output(c), InputStable(c), Whole(taken[c]),
                      "error" \notin logged[c], result[c] # "failure", caller[c] # "catch"
               PROVE  Whole(disk[Input(c)]) \/ Whole(intermediate[c])
    BY DEF InPlaceKeepsPicture
  <2>1. SourceInv(c) /\ MadeInv(c) /\ OutputInv(c) /\ NameInv(c) /\ BlockInv(c)
    BY DEF StoriesInv, StoryInv, SourceStory, CallsInv, CallInv
  <2>2. taken[c] # Absent
    BY DEF Whole, Absent
  <2>3. caller[c] \in CallerLocations /\ result[c] \in Results /\ mergeCode[c] \in MergeCodes
    BY DEF TypeOK
  <2>4. CASE caller[c] \in Unwritten
    BY <2>1, <2>2, <2>4 DEF SourceInv
  <2>5. CASE caller[c] \in {"mergeWriting", "report"}
    <3>1. writer[c] # "off"
      BY <2>1, <2>2 DEF BlockInv
    <3>2. result[c] \in Coded
      BY <2>1, <2>3, <2>5, <3>1 DEF NameInv, After, Results, Coded
    <3>3. \/ Made(c, intermediate[c]) \/ Made(c, disk[Output(c)])
          \/ disk[Input(c)] = taken[c]
      BY <2>1, <2>2, <2>3, <2>5, <3>2 DEF MadeInv, OutputInv, SourceInv, MergeCodes
    <3> QED
      BY <3>3 DEF Made, Whole
  <2>6. CASE caller[c] \in {"finally", "returned"}
    <3>1. outcome[c] = "ok"
      BY <2>1, <2>6 DEF OutputInv
    <3>2. Made(c, disk[Output(c)]) \/ disk[Input(c)] = taken[c]
      BY <2>1, <2>2, <2>3, <3>1 DEF OutputInv, SourceInv, MergeCodes
    <3> QED
      BY <3>2 DEF Made, Whole
  <2> QED
    BY <2>3, <2>4, <2>5, <2>6 DEF CallerLocations, Unwritten, Feeding, Native
<1>2. Spec => [](TypeOK /\ CallsInv /\ StoriesInv)
  BY StoriesTold
<1> QED
  BY <1>1, <1>2, PTL

-----------------------------------------------------------------------------
(* The promise to the caller, as ReencodeService states it.                *)

(* Whatever is not absent shows a picture.                                 *)
Shows(x) == x # Absent => x.image \in Images

PicturesKnown ==
    /\ \A f \in Files : Shows(disk[f])
    /\ \A c \in Calls : Shows(taken[c]) /\ Shows(intermediate[c])

(* A call that has failed leaves no output file.                           *)
EndInv(c) ==
    /\ caller[c] = "mergeWriting" => disk[Output(c)] # Absent
    /\ caller[c] \in {"finally", "returned"} /\ outcome[c] # "ok" => disk[Output(c)] = Absent

PromiseInv ==
    /\ PicturesKnown
    /\ \A c \in Calls : EndInv(c)

(* The steps that change a file or what is known of one, and the others.   *)
LEMMA PicturesStep ==
    ASSUME TypeOK, CallsInv, StoriesInv, PromiseInv, NEW c \in Calls, Caller(c) \/ Writer(c)
    PROVE  PicturesKnown'
<1>h. Input(c) \in Files /\ Output(c) \in Files
  BY ArgumentsAssumption DEF TypeOK, ArgsType, Input, Output
<1>s. PicturesKnown /\ EndInv(c) /\ TakenInv(c) /\ MadeInv(c) /\ ReaderInv(c)
  BY DEF PromiseInv, StoriesInv, StoryInv, CallsInv, CallInv
<1>t. /\ disk \in [Files -> Content] /\ taken \in [Calls -> Content]
      /\ intermediate \in [Calls -> Content]
  BY DEF TypeOK
<1> USE DEF PicturesKnown
<1>1. ASSUME UNCHANGED <<disk, taken, intermediate>> PROVE PicturesKnown'
  BY <1>s, <1>1 DEF Shows
<1>2. ASSUME NEW x, Shows(x), disk' = [disk EXCEPT ![Output(c)] = x] \/ UNCHANGED disk,
             UNCHANGED taken,
             intermediate' = [intermediate EXCEPT ![c] = Absent] \/ UNCHANGED intermediate
      PROVE  PicturesKnown'
  <2>1. \A f \in Files : disk'[f] = disk[f] \/ disk'[f] = x
    BY <1>2, <1>t
  <2>2. \A d \in Calls : taken'[d] = taken[d] /\ (intermediate'[d] = intermediate[d] \/ intermediate'[d] = Absent)
    BY <1>2, <1>t
  <2> QED
    BY <1>s, <1>2, <2>1, <2>2 DEF Shows
<1>3. ASSUME NEW x, Shows(x), UNCHANGED <<disk, taken>>,
             intermediate' = [intermediate EXCEPT ![c] = x]
      PROVE  PicturesKnown'
  <2>1. \A d \in Calls : taken'[d] = taken[d] /\ (intermediate'[d] = intermediate[d] \/ intermediate'[d] = x)
    BY <1>3, <1>t
  <2> QED
    BY <1>s, <1>3, <2>1 DEF Shows
<1>4. CASE CreateIntermediateFile(c)
  <2> DEFINE x == [image |-> taken[c].image, exif |-> NoImage, form |-> "partial"]
  <2>1. caller[c] = "openMid" /\ (UNCHANGED intermediate \/ intermediate' = [intermediate EXCEPT ![c] = x])
        /\ UNCHANGED <<disk, taken>>
    BY <1>4 DEF CreateIntermediateFile, At, feeder, stream
  <2>2. taken[c] # Absent
    BY <1>s, <2>1 DEF ReaderInv, TakenInv
  <2>3. Shows(x)
    BY <1>s, <2>2 DEF Shows
  <2> HIDE DEF x
  <2> QED
    BY <1>1, <1>3, <2>1, <2>3
<1>5. CASE Encode(c)
  <2> DEFINE x == [intermediate[c] EXCEPT !.form = EncodedForm(c)]
  <2>1. caller[c] = "encoding" /\ (UNCHANGED intermediate \/ intermediate' = [intermediate EXCEPT ![c] = x])
        /\ UNCHANGED <<disk, taken>>
    BY <1>5, <1>t DEF Encode, At, feeder, stream
  <2>2. taken[c] # Absent /\ intermediate[c].image = taken[c].image
    BY <1>s, <2>1 DEF ReaderInv, TakenInv, MadeInv
  <2>3. Shows(x)
    BY <1>s, <1>t, <2>2 DEF Shows, Content
  <2> HIDE DEF x
  <2> QED
    BY <1>1, <1>3, <2>1, <2>3
<1>6. CASE StartRewrite(c)
  <2> DEFINE x == [image |-> intermediate[c].image, exif |-> exifData[c], form |-> "partial"]
  <2>1. intermediate[c] # Absent /\ (UNCHANGED disk \/ disk' = [disk EXCEPT ![Output(c)] = x])
        /\ UNCHANGED <<taken, intermediate>>
    BY <1>6 DEF StartRewrite, temporaries, feeder, stream
  <2>2. Shows(x)
    BY <1>s, <2>1 DEF Shows
  <2> HIDE DEF x
  <2> QED
    BY <1>2, <2>1, <2>2
<1>7. CASE FinishRewrite(c)
  <2> DEFINE x == [disk[Output(c)] EXCEPT !.form = intermediate[c].form]
  <2>1. caller[c] = "mergeWriting" /\ (UNCHANGED disk \/ disk' = [disk EXCEPT ![Output(c)] = x])
        /\ UNCHANGED <<taken, intermediate>>
    BY <1>7, <1>t DEF FinishRewrite, At, temporaries, feeder, stream
  <2>2. disk[Output(c)] # Absent /\ disk[Output(c)] \in Content
    BY <1>s, <1>h, <1>t, <2>1 DEF EndInv
  <2>3. Shows(x)
    BY <1>s, <1>h, <2>2 DEF Shows, Content
  <2> HIDE DEF x
  <2> QED
    BY <1>2, <2>1, <2>3
<1>8. CASE RenameIntermediate(c)
  <2>1. /\ Shows(intermediate[c]) /\ UNCHANGED taken
        /\ disk' = [disk EXCEPT ![Output(c)] = intermediate[c]] \/ UNCHANGED disk
        /\ intermediate' = [intermediate EXCEPT ![c] = Absent] \/ UNCHANGED intermediate
    BY <1>s, <1>8 DEF RenameIntermediate, feeder, stream
  <2> QED
    BY <1>2, <2>1
<1>9. CASE Catch(c) \/ Finally(c)
  <2>1. /\ Shows(Absent) /\ UNCHANGED taken
        /\ disk' = [disk EXCEPT ![Output(c)] = Absent] \/ UNCHANGED disk
        /\ intermediate' = [intermediate EXCEPT ![c] = Absent] \/ UNCHANGED intermediate
    BY <1>9 DEF Shows, Catch, Finally, temporaries, feeder, stream
  <2> QED
    BY <1>2, <2>1
<1>10. CASE ReadInput(c)
  <2>1. \A d \in Calls : taken'[d] = taken[d] \/ taken'[d] = disk[Input(c)]
    BY <1>10, <1>t DEF ReadInput, feeder, stream
  <2>2. UNCHANGED <<disk, intermediate>>
    BY <1>10 DEF ReadInput, temporaries
  <2> QED
    BY <1>s, <1>h, <2>1, <2>2 DEF Shows
<1>11. CASE \/ PipeFeeding(c) \/ DeletePipeFile(c) \/ Report(c)
            \/ GetInputFileAgain(c) \/ ReadExif(c) \/ NoIntermediateFile(c) \/ MergeCrashes(c)
  BY <1>1, <1>11 DEF PipeFeeding, GetInputFile, CreatePipeFile, StartWriter, DeletePipeFile,
     Report, ReportNothing, ReportWarning, ThrowFromReport, GetInputFileAgain, ReadExif,
     NoIntermediateFile, MergeCrashes, MergeFails, MergeSucceeds, temporaries, feeder, stream
<1>12. CASE \/ CreateErrorFile(c) \/ OpenInput(c) \/ InputOpened(c)
            \/ DecodeBlock(c) \/ PrematureEnd(c) \/ CloseInput(c) \/ DecodeFails(c)
  BY <1>1, <1>12 DEF CreateErrorFile, OpenInput, InputOpened, DecodeBlock, PrematureEnd,
     CloseInput, DecodeFails, temporaries, feeder, stream
<1>13. CASE \/ OpenPipe(c) \/ PipeOpened(c) \/ SendBlock(c) \/ AllSent(c) \/ SendFails(c)
  BY <1>1, <1>13 DEF OpenPipe, PipeOpened, SendBlock, AllSent, SendFails, temporaries, stream
<1> QED
  BY <1>4, <1>5, <1>6, <1>7, <1>8, <1>9, <1>10, <1>11, <1>12, <1>13
     DEF Caller, Writer, NativeReencode, MergeExifAndJpeg

(* What a step of a call does to the end of the call.                      *)
LEMMA EndSelf ==
    ASSUME TypeOK, NEW c \in Calls, EndInv(c), Caller(c) \/ Writer(c)
    PROVE  EndInv(c)'
<1>h. Input(c) \in Files /\ Output(c) \in Files
  BY ArgumentsAssumption DEF TypeOK, ArgsType, Input, Output
<1>i. \A i, e : [image |-> i, exif |-> e, form |-> "partial"] # Absent
  BY DEF Absent
<1> USE DEF TypeOK, EndInv, Output, settings, temporaries, feeder, stream, verdict, merging,
   progress,
        At, Goto, Log, Return, Succeed, WriterAt, WriterGoto
<1>1. CASE PipeFeeding(c) \/ DeletePipeFile(c)
  BY <1>1 DEF PipeFeeding, GetInputFile, CreatePipeFile, StartWriter, DeletePipeFile
<1>2. CASE \/ CreateErrorFile(c) \/ OpenInput(c) \/ InputOpened(c)
           \/ CreateIntermediateFile(c) \/ Encode(c)
  BY <1>2 DEF CreateErrorFile, OpenInput, InputOpened, CreateIntermediateFile, Encode
<1>3. CASE DecodeBlock(c) \/ PrematureEnd(c) \/ CloseInput(c) \/ DecodeFails(c)
  BY <1>3 DEF DecodeBlock, PrematureEnd, CloseInput, DecodeFails
<1>4. CASE GetInputFileAgain(c) \/ ReadExif(c) \/ NoIntermediateFile(c) \/ MergeCrashes(c) \/ RenameIntermediate(c)
  BY <1>4 DEF GetInputFileAgain, ReadExif, NoIntermediateFile, MergeCrashes, MergeFails,
     MergeSucceeds, RenameIntermediate
<1>5. CASE StartRewrite(c)
  <2>1. CASE caller' = [caller EXCEPT ![c] = "mergeWriting"]
             /\ disk' = [disk EXCEPT ![Output(c)] = [image |-> intermediate[c].image,
                                                    exif |-> exifData[c], form |-> "partial"]]
    <3>1. caller'[c] = "mergeWriting" /\ args' = args
      BY <1>5, <2>1 DEF StartRewrite
    <3>2. disk'[Output(c)] # Absent
      BY <1>h, <1>i, <2>1
    <3> QED
      BY <3>1, <3>2
  <2>2. CASE UNCHANGED <<disk, caller>>
    BY <1>5, <2>2 DEF StartRewrite
  <2> QED
    BY <1>5, <2>1, <2>2 DEF StartRewrite
<1>6. CASE FinishRewrite(c)
  BY <1>6 DEF FinishRewrite, MergeSucceeds
<1>7. CASE Report(c)
  BY <1>7 DEF Report, ReportNothing, ReportWarning, ThrowFromReport
<1>8. CASE Catch(c)
  <2>1. caller'[c] = "finally" /\ disk'[Output(c)] = Absent /\ args' = args
    BY <1>h, <1>8 DEF Catch
  <2> QED
    BY <2>1
<1>9. CASE Finally(c)
  BY <1>9 DEF Finally
<1>10. CASE Writer(c)
  BY <1>10 DEF Writer, ReadInput, OpenPipe, PipeOpened, SendBlock, AllSent, SendFails
<1> QED
  BY <1>1, <1>2, <1>3, <1>4, <1>5, <1>6, <1>7, <1>8, <1>9, <1>10
     DEF Caller, NativeReencode, MergeExifAndJpeg

(* No call touches what another has come to.                               *)
LEMMA OtherCalls ==
    ASSUME TypeOK, StoriesInv, NEW c \in Calls, Caller(c) \/ Writer(c), NEW d \in Calls \ {c}
    PROVE  /\ caller'[d] = caller[d] /\ outcome'[d] = outcome[d] /\ taken'[d] = taken[d]
           /\ mergeCode'[d] = mergeCode[d]
           /\ disk'[Output(d)] = disk[Output(d)] /\ args' = args
<1>1. Output(d) \in Files
  BY ArgumentsAssumption DEF TypeOK, ArgsType, Output
<1>2. Output(d) # Output(c)
  BY DEF StoriesInv, DistinctOutputs, Output
<1>3. disk'[Output(d)] = disk[Output(d)]
  BY <1>1, <1>2, DiskFrame
<1> QED
  BY <1>3, LocalFrame

(* Every step keeps what the promise rests on.                             *)
LEMMA PromiseStep ==
    ASSUME TypeOK, CallsInv, StoriesInv, PromiseInv, [Next]_vars
    PROVE  PromiseInv'
<1>1. CASE UNCHANGED vars
  BY <1>1 DEF vars, settings, temporaries, feeder, stream, progress, verdict, merging, PromiseInv,
     Input, Output, PicturesKnown, Shows, EndInv
<1>2. ASSUME NEW c \in Calls, Caller(c) \/ Writer(c) PROVE PromiseInv'
  <2>2. PicturesKnown'
    BY <1>2, PicturesStep
  <2>3. ASSUME NEW d \in Calls PROVE EndInv(d)'
    <3>1. CASE d = c
      BY <1>2, <3>1, EndSelf DEF PromiseInv
    <3>2. CASE d # c
      <4>1. /\ caller'[d] = caller[d] /\ outcome'[d] = outcome[d]
            /\ disk'[Output(d)] = disk[Output(d)] /\ args' = args
        BY <1>2, <3>2, OtherCalls
      <4> QED
        BY <4>1 DEF PromiseInv, EndInv, Output
    <3> QED
      BY <3>1, <3>2
  <2> QED
    BY <2>2, <2>3 DEF PromiseInv
<1> QED
  BY <1>1, <1>2 DEF Next, Terminated

(* It holds before the first.                                              *)
LEMMA PromiseInit == Init => PromiseInv
<1> SUFFICES ASSUME Init PROVE PromiseInv
  OBVIOUS
<1>1. \A f \in Files : Shows(disk[f])
  BY DEF Init, Supplied, Shows
<1>2. \A c \in Calls : taken[c] = Absent /\ intermediate[c] = Absent /\ caller[c] = "start"
  BY DEF Init
<1> QED
  BY <1>1, <1>2 DEF PromiseInv, PicturesKnown, Shows, EndInv

(* Everything the promise rests on holds along the way.                    *)
THEOREM PromiseKept ==
    ASSUME {"rename", "shortWrite"} \cap Faults = {}
    PROVE  Spec => [](TypeOK /\ CallsInv /\ StoriesInv /\ PromiseInv)
<1>1. Init => TypeOK /\ CallsInv /\ StoriesInv /\ PromiseInv
  BY TypeInit, CallsInit, StoriesInit, PromiseInit
<1>2. TypeOK /\ CallsInv /\ StoriesInv /\ PromiseInv /\ [Next]_vars
         => (TypeOK /\ CallsInv /\ StoriesInv /\ PromiseInv)'
  BY TypeStep, CallsStep, StoriesStep, PromiseStep
<1> QED
  BY <1>1, <1>2, PTL DEF Spec

(* A step of the calling thread leaves alone what the writer thread read,  *)
(* and returns by the finally block only.                                  *)
LEMMA CallerMoves ==
    ASSUME TypeOK, NEW c \in Calls, Caller(c)
    PROVE  /\ caller[c] # "returned"
           /\ UNCHANGED taken
           /\ Finally(c) \/ caller'[c] # "returned"
<1> USE DEF TypeOK, feeder, stream, verdict, merging, progress, At, Goto, Return, Succeed
<1>1. CASE PipeFeeding(c) \/ DeletePipeFile(c)
  BY <1>1 DEF PipeFeeding, GetInputFile, CreatePipeFile, StartWriter, DeletePipeFile
<1>2. CASE \/ CreateErrorFile(c) \/ OpenInput(c) \/ InputOpened(c)
           \/ CreateIntermediateFile(c) \/ Encode(c)
  BY <1>2 DEF CreateErrorFile, OpenInput, InputOpened, CreateIntermediateFile, Encode
<1>3. CASE DecodeBlock(c) \/ PrematureEnd(c) \/ CloseInput(c) \/ DecodeFails(c)
  BY <1>3 DEF DecodeBlock, PrematureEnd, CloseInput, DecodeFails
<1>4. CASE MergeExifAndJpeg(c)
  BY <1>4 DEF MergeExifAndJpeg, GetInputFileAgain, ReadExif, NoIntermediateFile,
     MergeCrashes, MergeFails, MergeSucceeds,
     StartRewrite, FinishRewrite, RenameIntermediate
<1>5. CASE Report(c) \/ Catch(c) \/ Finally(c)
  BY <1>5 DEF Report, ReportNothing, ReportWarning, ThrowFromReport, Catch, Finally
<1> QED
  BY <1>1, <1>2, <1>3, <1>4, <1>5 DEF Caller, NativeReencode

(* A step of the writer thread reads the input file or nothing.            *)
LEMMA WriterMoves ==
    ASSUME NEW c \in Calls, Writer(c)
    PROVE  /\ UNCHANGED <<caller, outcome, mergeCode, disk, args>>
           /\ \/ UNCHANGED taken
              \/ /\ writer[c] = "start"
                 /\ disk[Input(c)] # Absent
                 /\ taken' = [taken EXCEPT ![c] = disk[Input(c)]]
  BY DEF Writer, ReadInput, OpenPipe, PipeOpened, SendBlock, AllSent, SendFails,
     settings, feeder, stream, verdict, merging, progress, WriterAt

(* The pictures ReencodeService speaks of.                                 *)
PictureOf(c) == IF ServiceStatus(c) = "failed" THEN NoImage ELSE taken[c].image

OutputOf(c) ==
    IF ServiceStatus(c) = "running" THEN NoImage
    ELSE IF Whole(disk[Output(c)]) THEN disk[Output(c)].image ELSE NoImage

SameService(c) ==
    /\ ServiceStatus(c)' = ServiceStatus(c)
    /\ PictureOf(c)' = PictureOf(c)
    /\ OutputOf(c)' = OutputOf(c)

Takes(c) ==
    /\ ServiceStatus(c) = "running" /\ ServiceStatus(c)' = "running"
    /\ PictureOf(c) = NoImage /\ PictureOf(c)' \in Images
    /\ OutputOf(c)' = OutputOf(c)

Succeeds(c) ==
    /\ ServiceStatus(c) = "running" /\ ServiceStatus(c)' = "ok"
    /\ PictureOf(c) # NoImage /\ PictureOf(c)' = PictureOf(c)
    /\ OutputOf(c)' = PictureOf(c)

Overlooks(c) ==
    /\ ServiceStatus(c) = "running" /\ ServiceStatus(c)' = "unmerged"
    /\ PictureOf(c) # NoImage /\ PictureOf(c)' = PictureOf(c)
    /\ OutputOf(c)' \in Images \cup {NoImage}

Fails(c) ==
    /\ ServiceStatus(c) = "running" /\ ServiceStatus(c)' = "failed"
    /\ PictureOf(c)' = NoImage
    /\ OutputOf(c)' = OutputOf(c)

(* A call that has returned normally has read a picture, and a merge that  *)
(* has said EXIT_SUCCESS has left it in the output.                        *)
LEMMA OkHasTaken ==
    ASSUME TypeOK, NEW c \in Calls, ReaderInv(c), WriterInv(c), TakenInv(c), OutputInv(c),
           outcome[c] = "ok"
    PROVE  /\ taken[c] # Absent
           /\ writer[c] # "start"
           /\ mergeCode[c] = "success" =>
                 Whole(disk[Output(c)]) /\ disk[Output(c)].image = taken[c].image
           /\ mergeCode[c] \in {"success", "failure"}
<1>1. result[c] \in Coded /\ (mergeCode[c] = "success" => Made(c, disk[Output(c)]))
  BY DEF OutputInv
<1>2. fifo[c].writer # "none"
  BY <1>1 DEF ReaderInv, Coded
<1>3. mergeCode[c] = "success" =>
         disk[Output(c)].image = taken[c].image /\ disk[Output(c)].form \in {"coded", "damaged"}
  BY <1>1 DEF Made
<1>4. mergeCode[c] \in {"success", "failure"}
  BY DEF OutputInv, TypeOK, MergeCodes
<1> QED
  BY <1>2, <1>3, <1>4 DEF TakenInv, WriterInv, Whole

(* What the others see of a step of a call, and what the call promised.    *)
LEMMA ServiceSelf ==
    ASSUME TypeOK, CallsInv, StoriesInv, PromiseInv, NEW c \in Calls, Caller(c) \/ Writer(c)
    PROVE  SameService(c) \/ Takes(c) \/ Succeeds(c) \/ Overlooks(c) \/ Fails(c)
<1>s. /\ ReaderInv(c) /\ WriterInv(c) /\ BlockInv(c) /\ TakenInv(c) /\ OutputInv(c)
      /\ EndInv(c) /\ PicturesKnown
  BY DEF PromiseInv, StoriesInv, StoryInv, CallsInv, CallInv
<1>a. args' = args
  BY ArgumentsStay
<1>n. Absent.image = NoImage /\ ~Whole(Absent) /\ NoImage \notin Images
  BY ImagesAssumption DEF Absent, Whole
<1>f. Input(c) \in Files /\ Output(c) \in Files
  BY ArgumentsAssumption DEF TypeOK, ArgsType, Input, Output
<1>1. CASE Finally(c)
  <2>1. /\ caller[c] = "finally" /\ caller'[c] = "returned"
        /\ UNCHANGED <<disk, taken, outcome, mergeCode>>
    BY <1>1 DEF TypeOK, Finally, At, Goto, feeder, stream, progress, verdict, merging
  <2>2. ServiceStatus(c) = "running" /\ OutputOf(c) = NoImage /\ PictureOf(c) = taken[c].image
    BY <2>1 DEF ServiceStatus, OutputOf, PictureOf
  <2>3. CASE outcome[c] = "ok" /\ mergeCode[c] = "success"
    <3>1. /\ taken[c] # Absent /\ Whole(disk[Output(c)])
          /\ disk[Output(c)].image = taken[c].image
      BY <1>s, <2>3, OkHasTaken
    <3>2. ServiceStatus(c)' = "ok"
      BY <2>1, <2>3 DEF ServiceStatus
    <3>3. PictureOf(c)' = taken[c].image
      BY <2>1, <3>2 DEF PictureOf
    <3>4. OutputOf(c)' = taken[c].image
      BY <1>a, <2>1, <3>1, <3>2 DEF OutputOf, Output, Whole
    <3>5. taken[c].image # NoImage
      BY <1>s, <1>n, <3>1 DEF PicturesKnown, Shows
    <3> QED
      BY <2>2, <3>2, <3>3, <3>4, <3>5 DEF Succeeds
  <2>4. CASE outcome[c] = "ok" /\ mergeCode[c] = "failure"
    <3>1. taken[c] # Absent
      BY <1>s, <2>4, OkHasTaken
    <3>2. ServiceStatus(c)' = "unmerged"
      BY <2>1, <2>4 DEF ServiceStatus
    <3>3. PictureOf(c)' = taken[c].image
      BY <2>1, <3>2 DEF PictureOf
    <3>4. OutputOf(c)' = IF Whole(disk[Output(c)]) THEN disk[Output(c)].image ELSE NoImage
      BY <1>a, <2>1, <3>2 DEF OutputOf, Output, Whole
    <3>5. taken[c].image # NoImage
      BY <1>s, <1>n, <3>1 DEF PicturesKnown, Shows
    <3>6. Whole(disk[Output(c)]) => disk[Output(c)].image \in Images
      BY <1>s, <1>n, <1>f DEF PicturesKnown, Shows
    <3> QED
      BY <2>2, <3>2, <3>3, <3>4, <3>5, <3>6 DEF Overlooks
  <2>5. CASE outcome[c] # "ok"
    <3>1. disk[Output(c)] = Absent
      BY <1>s, <2>1, <2>5 DEF EndInv
    <3>2. ServiceStatus(c)' = "failed"
      BY <2>1, <2>5 DEF ServiceStatus
    <3>3. PictureOf(c)' = NoImage
      BY <3>2 DEF PictureOf
    <3>4. OutputOf(c)' = NoImage
      BY <1>a, <1>n, <2>1, <3>1, <3>2 DEF OutputOf, Output, Whole
    <3> QED
      BY <2>2, <3>2, <3>3, <3>4 DEF Fails
  <2> QED
    BY <1>s, <2>3, <2>4, <2>5, OkHasTaken
<1>2. CASE Caller(c) /\ ~Finally(c)
  <2>1. caller[c] # "returned" /\ caller'[c] # "returned" /\ UNCHANGED taken
    BY <1>2, CallerMoves
  <2> QED
    BY <2>1 DEF SameService, ServiceStatus, PictureOf, OutputOf
<1>3. CASE Writer(c)
  <2>1. UNCHANGED <<caller, outcome, mergeCode, disk, args>>
    BY <1>3, WriterMoves
  <2>2. ServiceStatus(c)' = ServiceStatus(c)
    BY <2>1 DEF ServiceStatus
  <2>3. OutputOf(c)' = OutputOf(c)
    BY <2>1, <2>2 DEF OutputOf, Output, Whole
  <2>4. CASE UNCHANGED taken \/ ServiceStatus(c) = "failed"
    BY <2>2, <2>3, <2>4 DEF SameService, PictureOf
  <2>5. CASE ServiceStatus(c) # "failed" /\ ~UNCHANGED taken
    <3>1. /\ writer[c] = "start" /\ disk[Input(c)] # Absent
          /\ taken' = [taken EXCEPT ![c] = disk[Input(c)]]
      BY <1>3, <2>5, WriterMoves
    <3>2. outcome[c] # "ok"
      BY <1>s, <3>1, OkHasTaken
    <3>3. ServiceStatus(c) = "running"
      BY <2>5, <3>2 DEF ServiceStatus
    <3>4. PictureOf(c) = NoImage
      BY <1>s, <1>n, <3>1, <3>3 DEF PictureOf, BlockInv
    <3>5. PictureOf(c)' = disk[Input(c)].image
      BY <2>2, <3>1, <3>3 DEF PictureOf, TypeOK
    <3>6. disk[Input(c)].image \in Images
      BY <1>s, <1>f, <3>1 DEF PicturesKnown, Shows
    <3> QED
      BY <2>2, <2>3, <3>3, <3>4, <3>5, <3>6 DEF Takes
  <2> QED
    BY <2>4, <2>5
<1> QED
  BY <1>1, <1>2, <1>3

(* The other calls see nothing of it.                                      *)
LEMMA ServiceOthers ==
    ASSUME TypeOK, StoriesInv, NEW c \in Calls, Caller(c) \/ Writer(c), NEW d \in Calls \ {c}
    PROVE  SameService(d)
<1>1. /\ caller'[d] = caller[d] /\ outcome'[d] = outcome[d] /\ taken'[d] = taken[d]
      /\ mergeCode'[d] = mergeCode[d]
      /\ disk'[Output(d)] = disk[Output(d)] /\ args' = args
  BY OtherCalls
<1> QED
  BY <1>1 DEF SameService, ServiceStatus, PictureOf, OutputOf, Output, Whole

(* Every step of every call is a step of the abstract service, or none.    *)
LEMMA ServiceStep ==
    ASSUME TypeOK, CallsInv, StoriesInv, PromiseInv, [Next]_vars
    PROVE  [Service!Next]_Service!vars
<1>1. CASE UNCHANGED vars
  <2>1. \A d \in Calls : SameService(d)
    BY <1>1 DEF vars, settings, feeder, stream, progress, verdict, merging, SameService,
       ServiceStatus, PictureOf, OutputOf, Output, Whole
  <2> QED
    BY <2>1 DEF Service!vars, SameService, PictureOf, OutputOf
<1>2. ASSUME NEW c \in Calls, Caller(c) \/ Writer(c) PROVE [Service!Next]_Service!vars
  <2>1. \A d \in Calls : d # c => SameService(d)
    BY <1>2, ServiceOthers
  <2>2. SameService(c) \/ Takes(c) \/ Succeeds(c) \/ Overlooks(c) \/ Fails(c)
    BY <1>2, ServiceSelf
  <2>3. CASE SameService(c)
    BY <2>1, <2>3 DEF Service!vars, SameService, PictureOf, OutputOf
  <2>4. CASE Takes(c)
    <3>1. Service!Take(c)
      BY <2>1, <2>4 DEF Service!Take, SameService, Takes, PictureOf, OutputOf
    <3> QED
      BY <3>1 DEF Service!Next
  <2>5. CASE Succeeds(c)
    <3>1. Service!Succeed(c)
      BY <2>1, <2>5 DEF Service!Succeed, SameService, Succeeds, PictureOf, OutputOf
    <3> QED
      BY <3>1 DEF Service!Next
  <2>6. CASE Fails(c)
    <3>1. Service!Fail(c)
      BY <2>1, <2>6 DEF Service!Fail, SameService, Fails, PictureOf, OutputOf
    <3> QED
      BY <3>1 DEF Service!Next
  <2>7. CASE Overlooks(c)
    <3>1. Service!Overlook(c)
      BY <2>1, <2>7 DEF Service!Overlook, SameService, Overlooks, PictureOf, OutputOf
    <3> QED
      BY <3>1 DEF Service!Next
  <2> QED
    BY <2>2, <2>3, <2>4, <2>5, <2>6, <2>7
<1> QED
  BY <1>1, <1>2 DEF Next, Terminated

(* No call has read anything yet.                                          *)
LEMMA ServiceInit == Init => Service!Init
<1> SUFFICES ASSUME Init PROVE Service!Init
  OBVIOUS
<1>1. \A c \in Calls : taken[c] = Absent /\ caller[c] = "start"
  BY DEF Init
<1>2. \A c \in Calls : ServiceStatus(c) = "running" /\ taken[c].image = NoImage
  <2>1. Absent.image = NoImage
    BY DEF Absent
  <2>2. \A c \in Calls : taken[c].image = NoImage
    BY <1>1, <2>1
  <2> QED
    BY <1>1, <2>2 DEF ServiceStatus
<1> QED
  BY <1>2 DEF Service!Init

(* README.md:35-60 and Reencoder.java:17-82: what a caller may rely on.    *)
(* Whatever the calls do to each other's input files, and unless rename    *)
(* fails or a write to the output file comes up short without anybody      *)
(* noticing, every call reads one picture and either returns with it,      *)
(* complete, in the output file, or fails and leaves no output file, or    *)
(* returns although its merge has given up, with whatever was there;       *)
(* nothing changes any more once it has returned.                          *)
THEOREM ServiceKept ==
    ASSUME {"rename", "shortWrite"} \cap Faults = {}
    PROVE  Spec => ServiceSpec
<1>1. Spec => [](TypeOK /\ CallsInv /\ StoriesInv /\ PromiseInv)
  BY PromiseKept
<1>2. TypeOK /\ CallsInv /\ StoriesInv /\ PromiseInv /\ [Next]_vars => [Service!Next]_Service!vars
  BY ServiceStep
<1> QED
  BY <1>1, <1>2, ServiceInit, PTL DEF Spec, ServiceSpec, Service!Spec

-----------------------------------------------------------------------------
(* Who waits for whom.  Liveness itself is for the model checker; this is  *)
(* the reason for it.                                                      *)

(* The places where a thread that has not come to its end cannot go on:    *)
(* fopen of the pipe without a writer and fread of an empty pipe,          *)
CallerWaits(c) ==
    \/ caller[c] = "opening" /\ fifo[c].writer = "none"
    \/ /\ caller[c] = "reading"
       /\ got[c] < Blocks
       /\ fifo[c].buffer = 0
       /\ fifo[c].writer # "closed"

(* open of the pipe without a reader and write to a full pipe.             *)
WriterWaits(c) ==
    \/ writer[c] = "opening" /\ fifo[c].reader = "none"
    \/ /\ writer[c] = "writing"
       /\ unsent[c] > 0
       /\ fifo[c].buffer = Capacity
       /\ fifo[c].reader # "closed"

(* FileIOUtils.java:76-106 and Bindings.c:105-168: a caller that waits at  *)
(* the pipe has a writer thread that does not, if the input file can be    *)
(* read and stays; a writer thread that waits has a caller that does not,  *)
(* if the caller has come to the pipe at all.                              *)
NobodyWaitsInVain ==
    \A c \in Calls :
        /\ CallerWaits(c) /\ InputStable(c) /\ "unreadable" \notin Faults =>
              writer[c] \in {"start", "open", "opening", "writing"} /\ ~WriterWaits(c)
        /\ WriterWaits(c) /\ fifo[c].reader # "none" =>
              caller[c] \in {"opening", "reading"} /\ ~CallerWaits(c)

(* Each end of the pipe is in the hands of the thread that opened it, and  *)
(* the writer thread is there.                                             *)
EndsInv(c) ==
    /\ fifo[c].reader = "waiting" => caller[c] = "opening"
    /\ fifo[c].reader = "open" => caller[c] = "reading"
    /\ fifo[c].writer \in {"open", "closed"} => fifo[c].reader # "none"
    /\ writer[c] = "ended" => fifo[c].writer = "closed"
    /\ caller[c] \in Native => writer[c] # "off"

(* The input file is there until the native code has it, so that the       *)
(* writer thread does not fail before that.                                *)
FedInv(c) ==
    InputStable(c) /\ "unreadable" \notin Faults =>
        /\ caller[c] \in {"mkfifo", "spawn"} \cup Native => disk[Input(c)] # Absent
        /\ caller[c] \in {"errorFile", "openPipe", "opening", "reading"} => writer[c] # "failed"

WaitInv == \A c \in Calls : EndsInv(c) /\ FedInv(c)

(* A step of a call keeps the ends of its pipe in their hands.             *)
LEMMA EndsSelf ==
    ASSUME TypeOK, NEW c \in Calls, CallInv(c), EndsInv(c), Caller(c) \/ Writer(c)
    PROVE  EndsInv(c)'
<1>f. fifo[c] \in [linked : BOOLEAN, reader : Pipe!End, writer : Pipe!End, buffer : 0 .. Capacity]
  BY DEF TypeOK, Pipe!FifoTypeOK
<1> USE <1>f DEF TypeOK, Pipe!FifoTypeOK, CallInv, NameInv, ReaderInv, WriterInv, EndsInv,
        Feeding, Native, Named, settings, temporaries, stream, feeder, verdict, merging, progress,
        At, Goto, WriterAt, WriterGoto, Return, Succeed,
        Pipe!MakeFifo, Pipe!Unlink, Pipe!CallOpenToRead, Pipe!OpenedToRead,
        Pipe!CallOpenToWrite, Pipe!OpenedToWrite, Pipe!WriteBlock, Pipe!ReadBlock,
        Pipe!CloseReader, Pipe!CloseWriter, Pipe!BrokenPipe, Pipe!EndOfFile
<1>1. CASE PipeFeeding(c) \/ DeletePipeFile(c)
  BY <1>1 DEF PipeFeeding, GetInputFile, CreatePipeFile, StartWriter, DeletePipeFile
<1>2. CASE \/ CreateErrorFile(c) \/ OpenInput(c) \/ InputOpened(c)
           \/ CreateIntermediateFile(c) \/ Encode(c)
  BY <1>2 DEF CreateErrorFile, OpenInput, InputOpened, CreateIntermediateFile, Encode
<1>3. CASE DecodeBlock(c) \/ PrematureEnd(c) \/ CloseInput(c) \/ DecodeFails(c)
  BY <1>3 DEF DecodeBlock, PrematureEnd, CloseInput, DecodeFails
<1>4. CASE MergeExifAndJpeg(c)
  BY <1>4 DEF MergeExifAndJpeg, GetInputFileAgain, ReadExif, NoIntermediateFile,
     MergeCrashes, MergeFails, MergeSucceeds,
     StartRewrite, FinishRewrite, RenameIntermediate
<1>5. CASE Report(c) \/ Catch(c) \/ Finally(c)
  BY <1>5 DEF Report, ReportNothing, ReportWarning, ThrowFromReport, Catch, Finally
<1>6. CASE Writer(c)
  BY <1>6 DEF Writer, ReadInput, OpenPipe, PipeOpened, SendBlock, AllSent, SendFails
<1> QED
  BY <1>1, <1>2, <1>3, <1>4, <1>5, <1>6 DEF Caller, NativeReencode

(* It keeps the input file until the native code has read it.              *)
LEMMA FedSelf ==
    ASSUME TypeOK, NEW c \in Calls, CallInv(c), FedInv(c), Caller(c) \/ Writer(c)
    PROVE  FedInv(c)'
<1>a. args' = args
  BY ArgumentsStay
<1>b. InputStable(c)' = InputStable(c) /\ Input(c)' = Input(c)
  BY <1>a DEF InputStable, Input, Output
<1> SUFFICES ASSUME InputStable(c), "unreadable" \notin Faults
             PROVE  /\ caller'[c] \in {"mkfifo", "spawn"} \cup Native => disk'[Input(c)] # Absent
                    /\ caller'[c] \in {"errorFile", "openPipe", "opening", "reading"} =>
                          writer'[c] # "failed"
  BY <1>b DEF FedInv
<1>f. fifo[c] \in [linked : BOOLEAN, reader : Pipe!End, writer : Pipe!End, buffer : 0 .. Capacity]
  BY DEF TypeOK, Pipe!FifoTypeOK
<1> USE <1>f DEF TypeOK, CallInv, NameInv, ReaderInv, WriterInv, FedInv,
        Feeding, Native, Named, settings, temporaries, stream, feeder, verdict, merging, progress,
        At, Goto, WriterAt, WriterGoto, Return, Succeed, Pipe!BrokenPipe
<1>1. CASE PipeFeeding(c) \/ DeletePipeFile(c)
  BY <1>1 DEF PipeFeeding, GetInputFile, CreatePipeFile, StartWriter, DeletePipeFile
<1>2. CASE \/ CreateErrorFile(c) \/ OpenInput(c) \/ InputOpened(c)
           \/ CreateIntermediateFile(c) \/ Encode(c)
  BY <1>2 DEF CreateErrorFile, OpenInput, InputOpened, CreateIntermediateFile, Encode
<1>3. CASE DecodeBlock(c) \/ PrematureEnd(c) \/ CloseInput(c) \/ DecodeFails(c)
  BY <1>3 DEF DecodeBlock, PrematureEnd, CloseInput, DecodeFails
<1>4. CASE MergeExifAndJpeg(c)
  <2>1. caller'[c] \in {"mergeExif", "mergeImage", "mergeWriting", "report", "catch"}
        \/ UNCHANGED <<caller, disk, writer>>
    BY <1>4 DEF MergeExifAndJpeg, GetInputFileAgain, ReadExif, NoIntermediateFile,
       MergeCrashes, MergeFails, MergeSucceeds,
       StartRewrite, FinishRewrite, RenameIntermediate
  <2> QED
    BY <2>1
<1>5. CASE Report(c) \/ Catch(c) \/ Finally(c)
  <2>1. caller'[c] \in {"catch", "finally", "returned"}
    BY <1>5 DEF Report, ReportNothing, ReportWarning, ThrowFromReport, Catch, Finally
  <2> QED
    BY <2>1
<1>6. CASE Writer(c)
  BY <1>6 DEF Writer, ReadInput, OpenPipe, PipeOpened, SendBlock, AllSent, SendFails
<1> QED
  BY <1>1, <1>2, <1>3, <1>4, <1>5, <1>6 DEF Caller, NativeReencode

(* So does a step of any other call.                                       *)
LEMMA WaitStep == TypeOK /\ CallsInv /\ WaitInv /\ [Next]_vars => WaitInv'
<1> SUFFICES ASSUME TypeOK, CallsInv, WaitInv, [Next]_vars PROVE WaitInv'
  OBVIOUS
<1>1. CASE UNCHANGED vars
  BY <1>1 DEF vars, settings, temporaries, feeder, stream, progress, verdict, merging, WaitInv,
     EndsInv, FedInv, InputStable, Input, Output
<1>2. ASSUME NEW c \in Calls, Caller(c) \/ Writer(c), NEW d \in Calls
      PROVE  EndsInv(d)' /\ FedInv(d)'
  <2>1. CASE d = c
    BY <1>2, <2>1, EndsSelf, FedSelf DEF WaitInv, CallsInv
  <2>2. CASE d # c
    <3>1. /\ fifo'[d] = fifo[d] /\ caller'[d] = caller[d] /\ writer'[d] = writer[d]
          /\ args' = args
      BY <1>2, <2>2, LocalFrame
    <3>2. EndsInv(d)'
      BY <3>1 DEF WaitInv, EndsInv
    <3>3. Input(d) \in Files
      BY ArgumentsAssumption DEF TypeOK, ArgsType, Input
    <3>4. InputStable(d) => disk'[Input(d)] = disk[Input(d)]
      BY <1>2, <2>2, <3>3, DiskFrame DEF InputStable
    <3>5. InputStable(d)' = InputStable(d) /\ Input(d)' = Input(d)
      BY <3>1 DEF InputStable, Input, Output
    <3>6. FedInv(d)'
      BY <3>1, <3>4, <3>5 DEF WaitInv, FedInv
    <3> QED
      BY <3>2, <3>6
  <2> QED
    BY <2>1, <2>2
<1> QED
  BY <1>1, <1>2 DEF Next, Terminated, WaitInv

(* No pipe is there yet.                                                   *)
LEMMA WaitInit == Init => WaitInv
<1> SUFFICES ASSUME Init, NEW c \in Calls PROVE EndsInv(c) /\ FedInv(c)
  BY DEF WaitInv
<1>1. /\ fifo[c].reader = "none" /\ fifo[c].writer = "none"
      /\ caller[c] = "start" /\ writer[c] = "off"
  BY DEF Init, Pipe!FifoInit
<1> QED
  BY <1>1 DEF EndsInv, FedInv, Native

(* In no reachable state do the two threads of a call wait for each other, *)
(* nor either of them for one that has gone.                               *)
THEOREM NobodyIsStuck == Spec => []NobodyWaitsInVain
<1>1. TypeOK /\ CallsInv /\ WaitInv => NobodyWaitsInVain
  <2> SUFFICES ASSUME TypeOK, CallsInv, WaitInv, NEW c \in Calls
               PROVE  /\ CallerWaits(c) /\ InputStable(c) /\ "unreadable" \notin Faults =>
                            /\ writer[c] \in {"start", "open", "opening", "writing"}
                            /\ ~WriterWaits(c)
                      /\ WriterWaits(c) /\ fifo[c].reader # "none" =>
                            caller[c] \in {"opening", "reading"} /\ ~CallerWaits(c)
    BY DEF NobodyWaitsInVain
  <2>1. EndsInv(c) /\ FedInv(c) /\ ReaderInv(c) /\ WriterInv(c)
    BY DEF WaitInv, CallsInv, CallInv
  <2>2. writer[c] \in WriterLocations /\ fifo[c].reader \in Pipe!End
    BY DEF TypeOK, Pipe!FifoTypeOK
  <2>3. Capacity # 0
    BY BlocksAssumption
  <2>4. CallerWaits(c) /\ InputStable(c) /\ "unreadable" \notin Faults =>
            writer[c] \in {"start", "open", "opening", "writing"}
    BY <2>1, <2>2 DEF CallerWaits, EndsInv, FedInv, Native, WriterLocations
  <2>5. ~(CallerWaits(c) /\ WriterWaits(c))
    BY <2>1, <2>3 DEF CallerWaits, WriterWaits, ReaderInv, WriterInv
  <2>6. WriterWaits(c) /\ fifo[c].reader # "none" => caller[c] \in {"opening", "reading"}
    BY <2>1, <2>2 DEF WriterWaits, EndsInv, Pipe!End
  <2> QED
    BY <2>4, <2>5, <2>6
<1>2. Spec => []WaitInv
  BY CallsInvariant, WaitInit, WaitStep, PTL DEF Spec
<1> QED
  BY <1>1, <1>2, CallsInvariant, PTL
=============================================================================
