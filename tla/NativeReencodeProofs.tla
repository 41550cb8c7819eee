------------------------ MODULE NativeReencodeProofs ------------------------
(***************************************************************************)
(* Proofs about NativeReencode: what is released, and why no libjpeg call  *)
(* is made out of order or without a place to jump to.                     *)
(***************************************************************************)
EXTENDS NativeReencode, TLAPS

-----------------------------------------------------------------------------
(* The order of the calls.                                                 *)

BeforeHeader == {"jpeg_create_compress", "parse_options", "fopen_input_file",
                 "jpeg_stdio_src", "jpeg_read_header"}

AfterReading == {"jpeg_copy_critical_parameters", "close_input_file", "fopen_output_file",
                 "jpeg_simple_progression", "jpeg_stdio_dest", "jpeg_write_coefficients",
                 "jcopy_markers_execute", "jpeg_finish_compress", "jpeg_finish_decompress"}

BothObjects == (BeforeHeader \cup AfterReading \cup {"jpeg_read_coefficients"})
                 \ {"jpeg_create_compress"}

WritingCalls == {"jcopy_markers_execute", "jpeg_finish_compress"}

(* Where control is tells the state of both objects, which jump buffers    *)
(* are set, and that the error file is open.                               *)
OrderInv ==
    /\ file \in [Files -> {"none", "open", "closed"}]
    /\ memory \in [Objects -> {"garbage", "NULL", "pools"}]
    /\ global_state \in [Objects -> States]
    /\ pc \in BothObjects \cup {"jpeg_create_compress"} =>
          /\ file["error_file"] = "open"
          /\ "decompress_info" \in DOMAIN at_setjmp
          /\ memory["decompress_info"] = "pools"
    /\ pc \in BothObjects =>
          /\ "compress_info" \in DOMAIN at_setjmp
          /\ memory["compress_info"] = "pools"
    /\ pc = "jpeg_create_decompress" => file["error_file"] = "open"
    /\ pc \in BeforeHeader => global_state["decompress_info"] = "DSTATE_START"
    /\ pc = "jpeg_read_coefficients" => global_state["decompress_info"] = "DSTATE_READY"
    /\ pc \in AfterReading => global_state["decompress_info"] = "DSTATE_STOPPING"
    /\ pc \in BothObjects \ (WritingCalls \cup {"jpeg_finish_decompress"}) =>
          global_state["compress_info"] = "CSTATE_START"
    /\ pc \in WritingCalls => global_state["compress_info"] = "CSTATE_WRCOEFS"

(* Nothing has been called yet.                                            *)
LEMMA InitOrder == Init => OrderInv
  BY DEF Init, OrderInv, BothObjects, BeforeHeader, AfterReading, WritingCalls, Files,
         Objects, States, StatesOf

(* Every call leaves the objects as the next one wants them.               *)
LEMMA NextOrder == OrderInv /\ [Next]_vars => OrderInv'
<1> SUFFICES ASSUME OrderInv, [Next]_vars PROVE OrderInv'
  OBVIOUS
<1> USE DEF OrderInv, BothObjects, BeforeHeader, AfterReading, WritingCalls,
            resources, jumps, objects, Call
<1>0. /\ Files = {"error_file", "input_file", "output_file"}
      /\ Objects = {"decompress_info", "compress_info"}
      /\ States = {"0", "DSTATE_START", "DSTATE_READY", "DSTATE_STOPPING",
                   "CSTATE_START", "CSTATE_WRCOEFS"}
  BY DEF Files, Objects, States, StatesOf
<1>1. CASE FopenErrorFile
  BY <1>0, <1>1 DEF FopenErrorFile
<1>2. CASE CreateDecompress
  BY <1>0, <1>2 DEF CreateDecompress, Prepared, Created, CreateFails, Becomes
<1>3. CASE CreateCompress
  BY <1>0, <1>3 DEF CreateCompress, Prepared, Created, CreateFails, Becomes
<1>4. CASE ParseOptions
  BY <1>4 DEF ParseOptions
<1>5. ASSUME NEW call, CannotOpen(call)
      PROVE  OrderInv'
  BY <1>0, <1>5 DEF CannotOpen, Release
<1>6. CASE FopenInputFile
  BY <1>0, <1>5, <1>6 DEF FopenInputFile
<1>7. CASE StdioSrc
  BY <1>7 DEF StdioSrc, CallOn
<1>8. CASE ReadHeader
  BY <1>0, <1>8 DEF ReadHeader, CallOn, Becomes
<1>9. CASE ReadCoefficients
  BY <1>0, <1>9 DEF ReadCoefficients, CallOn, Becomes
<1>10. CASE CopyCriticalParameters
  BY <1>10 DEF CopyCriticalParameters, CallOn
<1>11. CASE CloseInputFile
  BY <1>0, <1>11 DEF CloseInputFile
<1>12. CASE FopenOutputFile
  BY <1>0, <1>5, <1>12 DEF FopenOutputFile
<1>13. CASE SimpleProgression
  BY <1>13 DEF SimpleProgression, CallOn
<1>14. CASE StdioDest
  BY <1>14 DEF StdioDest, CallOn
<1>15. CASE WriteCoefficients
  BY <1>0, <1>15 DEF WriteCoefficients, CallOn, Becomes
<1>16. CASE CopyMarkers
  BY <1>16 DEF CopyMarkers, CallOn
<1>17. CASE FinishCompress
  BY <1>0, <1>17 DEF FinishCompress, CallOn, Becomes
<1>18. CASE FinishDecompress
  BY <1>0, <1>18 DEF FinishDecompress, CallOn, Becomes
<1>19. CASE \E object \in Objects : Raise(object)
  BY <1>19 DEF Raise
<1>20. CASE ReleaseMemory
  BY <1>0, <1>20 DEF ReleaseMemory, Release
<1>21. CASE Complain
  BY <1>21 DEF Complain
<1>22. CASE UNCHANGED vars
  BY <1>22 DEF vars
<1> QED
  BY <1>1, <1>2, <1>3, <1>4, <1>6, <1>7, <1>8, <1>9, <1>10, <1>11, <1>12, <1>13, <1>14,
     <1>15, <1>16, <1>17, <1>18, <1>19, <1>20, <1>21, <1>22 DEF Next

(* No call ever finds its object in a state it does not accept: whatever   *)
(* has failed, JERR_BAD_STATE does not come up.                            *)
THEOREM NeverBadState == Spec => []CallsInOrder
<1>1. OrderInv => CallsInOrder
  <2> SUFFICES ASSUME OrderInv, NEW object \in Objects, pc \in CallsOn(object) \ Creating
               PROVE  memory[object] = "pools" /\ global_state[object] \in Demands(pc)
    BY DEF CallsInOrder
  <2> USE DEF OrderInv, BothObjects, BeforeHeader, AfterReading, WritingCalls, CallsOn,
              Creating, Objects
  <2>1. CASE object = "decompress_info"
    BY <2>1 DEF Demands
  <2>2. CASE object = "compress_info"
    BY <2>2 DEF Demands
  <2> QED
    BY <2>1, <2>2
<1> QED
  BY <1>1, InitOrder, NextOrder, PTL DEF Spec

(* An error is never raised before there is a place to jump to, nor        *)
(* printed to an error file that is not open.                              *)
THEOREM EveryErrorCaught == Spec => []ErrorsAreCaught
<1>1. OrderInv => ErrorsAreCaught
  BY DEF OrderInv, ErrorsAreCaught, BothObjects, BeforeHeader, AfterReading, WritingCalls,
         CallsOn, Creating, Objects
<1> QED
  BY <1>1, InitOrder, NextOrder, PTL DEF Spec

-----------------------------------------------------------------------------
(* What is to be released.                                                 *)

(* The fields of defer_memory_to_release name what is open and alive, all  *)
(* of it but what a jump has dropped; and no jump buffer remembers a field *)
(* that is not set, so that a jump brings none back.                       *)
ReleaseInv ==
    /\ file \in [Files -> {"none", "open", "closed"}]
    /\ memory \in [Objects -> {"garbage", "NULL", "pools"}]
    /\ \A f \in Files \cap defer : file[f] = "open"
    /\ Held \subseteq defer \cup lost
    /\ \A object \in Objects \cap defer : memory[object] # "garbage"
    /\ pc \in Stopped \cup {"fopen_error_file", "fprintf_error_file"} => defer = {}
    /\ lost \cap {"error_file", "decompress_info"} = {}
    /\ pc = "jpeg_create_decompress" => "error_file" \in defer
    /\ pc \in {"jpeg_create_decompress", "jpeg_create_compress"} => "input_file" \notin defer
    /\ pc \in BothObjects \cup {"jpeg_create_compress"} =>
          /\ {"error_file", "decompress_info"} \subseteq defer
          /\ \A object \in DOMAIN at_setjmp :
                /\ at_setjmp[object] \subseteq defer
                /\ {"error_file", "decompress_info"} \subseteq at_setjmp[object]
                /\ "input_file" \notin at_setjmp[object]
    /\ pc \in {"fopen_error_file", "jpeg_create_decompress"} => DOMAIN at_setjmp = {}
    /\ pc \in {"fopen_error_file", "jpeg_create_decompress"} \cup BothObjects \cup
              {"jpeg_create_compress", "fprintf_error_file"} => lost = {}

(* Nothing is open yet.                                                    *)
LEMMA InitRelease == Init => ReleaseInv
  BY DEF Init, ReleaseInv, Held, BothObjects, BeforeHeader, AfterReading, Stopped, Files, Objects

(* Files are opened and noted, closed and forgotten, together; a jump can  *)
(* only drop what was noted after its buffer was set.                      *)
LEMMA NextRelease == ReleaseInv /\ [Next]_vars => ReleaseInv'
<1> SUFFICES ASSUME ReleaseInv, [Next]_vars PROVE ReleaseInv'
  OBVIOUS
<1> USE DEF ReleaseInv, Held, BothObjects, BeforeHeader, AfterReading, resources, jumps, objects,
            Call, Stopped
<1>0. /\ Files = {"error_file", "input_file", "output_file"}
      /\ Objects = {"decompress_info", "compress_info"}
  BY DEF Files, Objects
<1>1. CASE FopenErrorFile
  BY <1>0, <1>1 DEF FopenErrorFile
<1>2. CASE CreateDecompress
  <2>1. /\ pc = "jpeg_create_decompress"
        /\ pc' \in {"jpeg_create_compress", "parse_options", "release_memory"}
        /\ pc' # "jpeg_create_compress" \/ pc = "jpeg_create_decompress"
    BY <1>2 DEF CreateDecompress
  <2>2. /\ defer' = defer \cup {"decompress_info"}
        /\ UNCHANGED <<file, lost>>
    BY <1>2 DEF CreateDecompress, Prepared
  <2>3. /\ DOMAIN at_setjmp' = DOMAIN at_setjmp \cup {"decompress_info"}
        /\ at_setjmp'["decompress_info"] = defer \cup {"decompress_info"}
        /\ \A object \in DOMAIN at_setjmp : object # "decompress_info" => at_setjmp'[object] = at_setjmp[object]
    BY <1>2 DEF CreateDecompress, Prepared
  <2>4. \E mem \in {"NULL", "pools"} : memory' = [memory EXCEPT !["decompress_info"] = mem]
    BY <1>2 DEF CreateDecompress, Created, CreateFails
  <2>5. /\ memory' \in [Objects -> {"garbage", "NULL", "pools"}]
        /\ memory'["decompress_info"] # "garbage"
        /\ \A object \in Objects : object # "decompress_info" => memory'[object] = memory[object]
    BY <1>0, <2>4
  <2>6. Held' \subseteq defer' \cup lost'
    BY <1>0, <2>2, <2>5
  <2>7. \A object \in Objects \cap defer' : memory'[object] # "garbage"
    BY <1>0, <2>2, <2>5
  <2>8. \A object \in DOMAIN at_setjmp' :
           /\ at_setjmp'[object] \subseteq defer'
           /\ {"error_file", "decompress_info"} \subseteq at_setjmp'[object]
           /\ "input_file" \notin at_setjmp'[object]
    BY <1>0, <2>1, <2>2, <2>3
  <2> QED
    BY <1>0, <2>1, <2>2, <2>5, <2>6, <2>7, <2>8
<1>3. CASE CreateCompress
  <2>1. /\ pc = "jpeg_create_compress"
        /\ pc' \in {"jpeg_create_compress", "parse_options", "release_memory"}
        /\ pc' # "jpeg_create_compress" \/ pc = "jpeg_create_decompress"
    BY <1>3 DEF CreateCompress
  <2>2. /\ defer' = defer \cup {"compress_info"}
        /\ UNCHANGED <<file, lost>>
    BY <1>3 DEF CreateCompress, Prepared
  <2>3. /\ DOMAIN at_setjmp' = DOMAIN at_setjmp \cup {"compress_info"}
        /\ at_setjmp'["compress_info"] = defer \cup {"compress_info"}
        /\ \A object \in DOMAIN at_setjmp : object # "compress_info" => at_setjmp'[object] = at_setjmp[object]
    BY <1>3 DEF CreateCompress, Prepared
  <2>4. \E mem \in {"NULL", "pools"} : memory' = [memory EXCEPT !["compress_info"] = mem]
    BY <1>3 DEF CreateCompress, Created, CreateFails
  <2>5. /\ memory' \in [Objects -> {"garbage", "NULL", "pools"}]
        /\ memory'["compress_info"] # "garbage"
        /\ \A object \in Objects : object # "compress_info" => memory'[object] = memory[object]
    BY <1>0, <2>4
  <2>6. Held' \subseteq defer' \cup lost'
    BY <1>0, <2>2, <2>5
  <2>7. \A object \in Objects \cap defer' : memory'[object] # "garbage"
    BY <1>0, <2>2, <2>5
  <2>8. \A object \in DOMAIN at_setjmp' :
           /\ at_setjmp'[object] \subseteq defer'
           /\ {"error_file", "decompress_info"} \subseteq at_setjmp'[object]
           /\ "input_file" \notin at_setjmp'[object]
    BY <1>0, <2>1, <2>2, <2>3
  <2> QED
    BY <1>0, <2>1, <2>2, <2>5, <2>6, <2>7, <2>8
<1>4. CASE ParseOptions
  BY <1>4 DEF ParseOptions
<1>5. ASSUME NEW call, CannotOpen(call), pc \in BothObjects
      PROVE  ReleaseInv'
  BY <1>0, <1>5 DEF CannotOpen, Release
<1>6. CASE FopenInputFile
  <2>1. pc = "fopen_input_file"
    BY <1>6 DEF FopenInputFile, CannotOpen
  <2>2. CASE CannotOpen("fopen_input_file")
    BY <1>5, <2>1, <2>2
  <2>3. CASE ~CannotOpen("fopen_input_file")
    <3>1. /\ pc' \in BothObjects
          /\ file' = [file EXCEPT !["input_file"] = "open"]
          /\ defer' = defer \cup {"input_file"}
          /\ UNCHANGED <<at_setjmp, lost, memory>>
      BY <1>6, <2>3 DEF FopenInputFile
    <3>2. /\ file' \in [Files -> {"none", "open", "closed"}]
          /\ file'["input_file"] = "open"
          /\ \A f \in Files : f # "input_file" => file'[f] = file[f]
      BY <1>0, <3>1
    <3> QED
      BY <1>0, <2>1, <3>1, <3>2
  <2> QED
    BY <2>2, <2>3
<1>7. CASE StdioSrc \/ CopyCriticalParameters \/ SimpleProgression \/ StdioDest \/ CopyMarkers
  BY <1>7 DEF StdioSrc, CopyCriticalParameters, SimpleProgression, StdioDest, CopyMarkers, CallOn
<1>8. CASE ReadHeader \/ ReadCoefficients \/ WriteCoefficients
  BY <1>8 DEF ReadHeader, ReadCoefficients, WriteCoefficients, CallOn
<1>9. CASE FinishCompress \/ FinishDecompress
  BY <1>9 DEF FinishCompress, FinishDecompress, CallOn
<1>10. CASE CloseInputFile
  BY <1>0, <1>10 DEF CloseInputFile
<1>11. CASE FopenOutputFile
  <2>1. pc = "fopen_output_file"
    BY <1>11 DEF FopenOutputFile, CannotOpen
  <2>2. CASE CannotOpen("fopen_output_file")
    BY <1>5, <2>1, <2>2
  <2>3. CASE ~CannotOpen("fopen_output_file")
    <3>1. /\ pc' \in BothObjects
          /\ file' = [file EXCEPT !["output_file"] = "open"]
          /\ defer' = defer \cup {"output_file"}
          /\ UNCHANGED <<at_setjmp, lost, memory>>
      BY <1>11, <2>3 DEF FopenOutputFile
    <3>2. /\ file' \in [Files -> {"none", "open", "closed"}]
          /\ file'["output_file"] = "open"
          /\ \A f \in Files : f # "output_file" => file'[f] = file[f]
      BY <1>0, <3>1
    <3> QED
      BY <1>0, <2>1, <3>1, <3>2
  <2> QED
    BY <2>2, <2>3
<1>12. CASE \E object \in Objects : Raise(object)
  <2>1. PICK object \in Objects : Raise(object)
    BY <1>12
  <2>2. pc \in BothObjects \cup {"jpeg_create_compress"} /\ object \in DOMAIN at_setjmp
    BY <2>1, <1>0 DEF Raise, CallsOn, Creating
  <2>3. /\ at_setjmp[object] \subseteq defer
        /\ {"error_file", "decompress_info"} \subseteq at_setjmp[object]
    BY <2>2
  <2>4. defer' \subseteq defer /\ {"error_file", "decompress_info"} \subseteq defer'
    BY <2>1, <2>3 DEF Raise, AfterJump
  <2>5. lost = {} /\ lost' = defer \ defer'
    BY <2>1, <2>2 DEF Raise
  <2>6. UNCHANGED <<file, memory, at_setjmp>> /\ pc' = "release_memory"
    BY <2>1 DEF Raise
  <2> QED
    BY <1>0, <2>4, <2>5, <2>6
<1>13. CASE ReleaseMemory
  BY <1>0, <1>13 DEF ReleaseMemory, Release
<1>14. CASE Complain
  BY <1>14 DEF Complain
<1>15. CASE UNCHANGED vars
  BY <1>15 DEF vars
<1> QED
  BY <1>1, <1>2, <1>3, <1>4, <1>6, <1>7, <1>8, <1>9, <1>10, <1>11, <1>12, <1>13, <1>14, <1>15
     DEF Next

(* Whatever call fails, and whatever a jump does to                        *)
(* defer_memory_to_release, in the end every file is closed and every      *)
(* object destroyed that the jump has not dropped from it, and it never    *)
(* drops the error file nor the decompressor.                              *)
THEOREM EverythingReleased == Spec => []AllReleased
<1>1. ReleaseInv => AllReleased
  BY DEF ReleaseInv, AllReleased
<1> QED
  BY <1>1, InitRelease, NextRelease, PTL DEF Spec

(* ... and closed or destroyed once, and only after it was opened or       *)
(* created: no jump brings back a field that was reset.                    *)
THEOREM ReleasedOnlyOnce == Spec => []ReleasesOnce
<1>1. ReleaseInv => ReleasesOnce
  BY DEF ReleaseInv, ReleasesOnce
<1> QED
  BY <1>1, InitRelease, NextRelease, PTL DEF Spec

-----------------------------------------------------------------------------
(* The data on its way from one file to the other.                         *)

Reading == {"jpeg_stdio_src", "jpeg_read_header", "jpeg_read_coefficients"}

Writing == {"jpeg_simple_progression", "jpeg_stdio_dest", "jpeg_write_coefficients",
            "jcopy_markers_execute", "jpeg_finish_compress"}

(* Where control is tells which files are open and whether the coefficients *)
(* are there.                                                              *)
DataInv ==
    /\ file \in [Files -> {"none", "open", "closed"}]
    /\ pc \in Reading => file["input_file"] = "open"
    /\ pc \in Writing => file["output_file"] = "open"
    /\ pc \in AfterReading => unread = "nothing"
    /\ pc \in AfterReading \ {"jpeg_finish_decompress"} => coefficients = "held"

(* Nothing is read yet.                                                    *)
LEMMA InitData == Init => DataInv
  BY DEF Init, DataInv, Reading, Writing, AfterReading

(* The input is closed once it has been read to its end, and the arrays    *)
(* are freed once the output is whole.                                     *)
LEMMA NextData == DataInv /\ [Next]_vars => DataInv'
<1> SUFFICES ASSUME DataInv, [Next]_vars PROVE DataInv'
  OBVIOUS
<1> USE DEF DataInv, Reading, Writing, AfterReading, resources, jumps, input, Call
<1>0. Files = {"error_file", "input_file", "output_file"}
  BY DEF Files
<1>1. CASE FopenErrorFile
  BY <1>0, <1>1 DEF FopenErrorFile
<1>2. CASE CreateDecompress
  BY <1>0, <1>2 DEF CreateDecompress, Prepared, Created, CreateFails, Becomes
<1>3. CASE CreateCompress
  BY <1>0, <1>3 DEF CreateCompress, Prepared, Created, CreateFails, Becomes
<1>4. CASE ParseOptions
  BY <1>0, <1>4 DEF ParseOptions
<1>5. ASSUME NEW call, CannotOpen(call)
      PROVE  DataInv'
  BY <1>0, <1>5 DEF CannotOpen, Release
<1>6. CASE FopenInputFile
  BY <1>0, <1>5, <1>6 DEF FopenInputFile
<1>7. CASE StdioSrc
  BY <1>0, <1>7 DEF StdioSrc, CallOn
<1>8. CASE ReadHeader
  BY <1>0, <1>8 DEF ReadHeader, CallOn, Becomes, MayWarn
<1>9. CASE ReadCoefficients
  BY <1>0, <1>9 DEF ReadCoefficients, CallOn, Becomes, MayWarn
<1>10. CASE CopyCriticalParameters
  BY <1>0, <1>10 DEF CopyCriticalParameters, CallOn
<1>11. CASE CloseInputFile
  BY <1>0, <1>11 DEF CloseInputFile
<1>12. CASE FopenOutputFile
  BY <1>0, <1>5, <1>12 DEF FopenOutputFile
<1>13. CASE SimpleProgression
  BY <1>0, <1>13 DEF SimpleProgression, CallOn
<1>14. CASE StdioDest
  BY <1>0, <1>14 DEF StdioDest, CallOn
<1>15. CASE WriteCoefficients
  BY <1>0, <1>15 DEF WriteCoefficients, CallOn, Becomes
<1>16. CASE CopyMarkers
  BY <1>0, <1>16 DEF CopyMarkers, CallOn
<1>17. CASE FinishCompress
  BY <1>0, <1>17 DEF FinishCompress, CallOn, Becomes
<1>18. CASE FinishDecompress
  BY <1>0, <1>18 DEF FinishDecompress, CallOn, Becomes
<1>19. CASE \E object \in Objects : Raise(object)
  BY <1>0, <1>19 DEF Raise
<1>20. CASE ReleaseMemory
  BY <1>0, <1>20 DEF ReleaseMemory, Release
<1>21. CASE Complain
  BY <1>0, <1>21 DEF Complain
<1>22. CASE UNCHANGED vars
  BY <1>22 DEF vars
<1> QED
  BY <1>1, <1>2, <1>3, <1>4, <1>6, <1>7, <1>8, <1>9, <1>10, <1>11, <1>12, <1>13, <1>14,
     <1>15, <1>16, <1>17, <1>18, <1>19, <1>20, <1>21, <1>22 DEF Next

(* Whatever fails, data is read from an open file, written to an open file *)
(* and taken from arrays that have not been freed, although the input is   *)
(* closed long before the decompressor is finished.                        *)
THEOREM DataAlwaysThere == Spec => []DataIsThere
<1>1. DataInv => DataIsThere
  BY DEF DataInv, DataIsThere, Reading, Writing, AfterReading
<1> QED
  BY <1>1, InitData, NextData, PTL DEF Spec

-----------------------------------------------------------------------------
(* What is returned.                                                       *)

Over == {"release_memory", "fprintf_error_file"} \cup Stopped

BeforeReading == {"fopen_error_file", "jpeg_create_decompress"} \cup BeforeHeader

(* A result is there only when it is over; the count of warnings tells     *)
(* whether there was one; a progressive script is the one that was asked   *)
(* for.                                                                    *)
ResultInv ==
    /\ num_warnings \in [Objects -> {0, 1}]
    /\ result \in Results
    /\ args \in [progressive : BOOLEAN, optimize : BOOLEAN]
    /\ scan_info \in BOOLEAN
    /\ pc \in Locations
    /\ pc \in BeforeReading => ~warned
    /\ warned => num_warnings["decompress_info"] = 1
    /\ pc \notin Over => result = "none"
    /\ pc = "fprintf_error_file" => result = "EXIT_FAILURE"
    /\ pc = "release_memory" => result \in {"none", "EXIT_FAILURE"}
    /\ pc = "returned" => result # "none"
    /\ pc \in {"jpeg_finish_decompress"} => written = "whole"
    /\ pc \in Over /\ result # "EXIT_FAILURE" => written = "whole"
    /\ pc = "returned" /\ result = "EXIT_SUCCESS" => ~warned
    /\ pc \in {"close_input_file", "fopen_output_file", "jpeg_simple_progression"} => ~scan_info
    /\ pc = "jpeg_simple_progression" => args.progressive
    /\ pc \in {"jpeg_stdio_dest", "jpeg_write_coefficients"} => scan_info = args.progressive
    /\ pc \in WritingCalls => coded.progressive = args.progressive
    /\ written = "whole" => coded.progressive = args.progressive

(* Nothing is said yet.                                                    *)
LEMMA InitResult == Init => ResultInv
  BY DEF Init, ResultInv, BeforeReading, BeforeHeader, Over, Stopped, WritingCalls, Objects,
         Results, Locations

(* The result is decided once, by the counts of warnings, and after the    *)
(* output is whole.                                                        *)
LEMMA NextResult == ResultInv /\ [Next]_vars => ResultInv'
<1> SUFFICES ASSUME ResultInv, [Next]_vars PROVE ResultInv'
  OBVIOUS
<1> USE DEF ResultInv, BeforeReading, BeforeHeader, Over, Stopped, WritingCalls, Results,
            Locations, CallsOn, jumps, objects, options, input, output, Call
<1>0. Objects = {"decompress_info", "compress_info"}
  BY DEF Objects
<1>1. CASE FopenErrorFile
  BY <1>0, <1>1 DEF FopenErrorFile
<1>2. CASE CreateDecompress
  BY <1>0, <1>2 DEF CreateDecompress, Prepared, Created, CreateFails, Becomes
<1>3. CASE CreateCompress
  BY <1>0, <1>3 DEF CreateCompress, Prepared, Created, CreateFails, Becomes
<1>4. CASE ParseOptions
  BY <1>0, <1>4 DEF ParseOptions
<1>5. ASSUME NEW call, CannotOpen(call)
      PROVE  ResultInv'
  BY <1>0, <1>5 DEF CannotOpen, Release
<1>6. CASE FopenInputFile
  BY <1>0, <1>5, <1>6 DEF FopenInputFile
<1>7. CASE StdioSrc
  BY <1>0, <1>7 DEF StdioSrc, CallOn
<1>8. CASE ReadHeader
  BY <1>0, <1>8 DEF ReadHeader, CallOn, Becomes, MayWarn
<1>9. CASE ReadCoefficients
  BY <1>0, <1>9 DEF ReadCoefficients, CallOn, Becomes, MayWarn
<1>10. CASE CopyCriticalParameters
  BY <1>0, <1>10 DEF CopyCriticalParameters, CallOn
<1>11. CASE CloseInputFile
  BY <1>0, <1>11 DEF CloseInputFile
<1>12. CASE FopenOutputFile
  BY <1>0, <1>5, <1>12 DEF FopenOutputFile
<1>13. CASE SimpleProgression
  BY <1>0, <1>13 DEF SimpleProgression, CallOn
<1>14. CASE StdioDest
  BY <1>0, <1>14 DEF StdioDest, CallOn
<1>15. CASE WriteCoefficients
  BY <1>0, <1>15 DEF WriteCoefficients, CallOn, Becomes
<1>16. CASE CopyMarkers
  BY <1>0, <1>16 DEF CopyMarkers, CallOn
<1>17. CASE FinishCompress
  BY <1>0, <1>17 DEF FinishCompress, CallOn, Becomes
<1>18. CASE FinishDecompress
  BY <1>0, <1>18 DEF FinishDecompress, CallOn, Becomes
<1>19. CASE \E object \in Objects : Raise(object)
  BY <1>0, <1>19 DEF Raise, CallsOn, Creating
<1>20. CASE ReleaseMemory
  BY <1>0, <1>20 DEF ReleaseMemory, Release, Verdict
<1>21. CASE Complain
  BY <1>0, <1>21 DEF Complain
<1>22. CASE UNCHANGED vars
  BY <1>22 DEF vars
<1> QED
  BY <1>1, <1>2, <1>3, <1>4, <1>6, <1>7, <1>8, <1>9, <1>10, <1>11, <1>12, <1>13, <1>14,
     <1>15, <1>16, <1>17, <1>18, <1>19, <1>20, <1>21, <1>22 DEF Next

(* EXIT_SUCCESS and EXIT_WARNING are only said of a whole file, and        *)
(* EXIT_SUCCESS never of an input libjpeg has warned about.                *)
THEOREM ResultAlwaysTrue == Spec => []ResultIsTrue
<1>1. ResultInv => ResultIsTrue
  BY DEF ResultInv, ResultIsTrue, Over, Stopped
<1> QED
  BY <1>1, InitResult, NextResult, PTL DEF Spec

(* A file that is whole is progressive if and only if that was asked for,  *)
(* although the parameters are reset in between.                           *)
THEOREM ProgressiveKept == Spec => []ProgressiveHonoured
<1>1. ResultInv => ProgressiveHonoured
  BY DEF ResultInv, ProgressiveHonoured
<1> QED
  BY <1>1, InitResult, NextResult, PTL DEF Spec

-----------------------------------------------------------------------------
(* Types.                                                                  *)

(* Nothing is set yet.                                                     *)
LEMMA InitType == Init => TypeOK
<1> SUFFICES ASSUME Init PROVE TypeOK
  OBVIOUS
<1>1. DOMAIN at_setjmp = {}
  BY DEF Init
<1>2. /\ memory \in [Objects -> {"garbage", "NULL", "pools"}]
      /\ file \in [Files -> {"none", "open", "closed"}]
      /\ num_warnings \in [Objects -> {0, 1}]
  BY DEF Init
<1>3. /\ global_state \in [Objects -> States]
      /\ \A object \in Objects : global_state[object] \in StatesOf(object)
  BY DEF Init, States, StatesOf, Objects
<1>4. pc \in Locations /\ result \in Results /\ coded \in [progressive : BOOLEAN, optimize : BOOLEAN]
  BY DEF Init, Locations, Results
<1> QED
  BY <1>1, <1>2, <1>3, <1>4 DEF Init, TypeOK

(* Every call, error and release leaves each variable among its values.    *)
LEMMA NextType == TypeOK /\ [Next]_vars => TypeOK'
<1> SUFFICES ASSUME TypeOK, [Next]_vars PROVE TypeOK'
  OBVIOUS
<1> USE DEF TypeOK, resources, jumps, objects, options, input, output, Call
<1>0. /\ Files = {"error_file", "input_file", "output_file"}
      /\ Objects = {"decompress_info", "compress_info"}
      /\ States = {"0", "DSTATE_START", "DSTATE_READY", "DSTATE_STOPPING",
                   "CSTATE_START", "CSTATE_WRCOEFS"}
      /\ Results = {"none", "EXIT_SUCCESS", "EXIT_FAILURE", "EXIT_WARNING"}
      /\ \A object : "0" \in StatesOf(object)
  BY DEF Files, Objects, States, StatesOf, Results
<1>l. Locations = CallsOn("decompress_info") \cup CallsOn("compress_info") \cup Stopped \cup
         {"fopen_error_file", "parse_options", "fopen_input_file", "close_input_file",
          "fopen_output_file", "release_memory", "fprintf_error_file"}
  BY DEF Locations
<1> USE DEF CallsOn, Stopped
<1>c. ASSUME NEW call, CannotOpen(call)
      PROVE  TypeOK'
  BY <1>0, <1>c, <1>l DEF CannotOpen, Release
<1>1. CASE FopenErrorFile
  <2>1. file' \in [Files -> {"none", "open", "closed"}] /\ defer' \subseteq Files \cup Objects
    BY <1>0, <1>1 DEF FopenErrorFile
  <2>2. pc' \in Locations /\ result' \in Results
    BY <1>0, <1>l, <1>1 DEF FopenErrorFile
  <2>3. UNCHANGED <<args, jumps, objects, options, input, output>>
    BY <1>1 DEF FopenErrorFile
  <2> QED
    BY <2>1, <2>2, <2>3
<1>2. CASE CreateDecompress
  <2>1. defer' \subseteq Files \cup Objects
    BY <1>0, <1>2 DEF CreateDecompress, Prepared
  <2>2. /\ DOMAIN at_setjmp' \subseteq Objects
        /\ \A object \in DOMAIN at_setjmp' : at_setjmp'[object] \subseteq Files \cup Objects
    BY <1>0, <1>2 DEF CreateDecompress, Prepared
  <2>3. memory' \in [Objects -> {"garbage", "NULL", "pools"}]
    BY <1>0, <1>2 DEF CreateDecompress, Created, CreateFails
  <2>4. /\ global_state' \in [Objects -> States]
        /\ \A object \in Objects : global_state'[object] \in StatesOf(object)
    BY <1>0, <1>2 DEF CreateDecompress, Created, CreateFails, Becomes, StatesOf
  <2>5. pc' \in Locations /\ result' \in Results
    BY <1>0, <1>l, <1>2 DEF CreateDecompress, Created, CreateFails
  <2>6. UNCHANGED <<args, file, lost, num_warnings, options, input, output>>
    BY <1>2 DEF CreateDecompress, Prepared
  <2> QED
    BY <2>1, <2>2, <2>3, <2>4, <2>5, <2>6
<1>3. CASE CreateCompress
  <2>1. defer' \subseteq Files \cup Objects
    BY <1>0, <1>3 DEF CreateCompress, Prepared
  <2>2. /\ DOMAIN at_setjmp' \subseteq Objects
        /\ \A object \in DOMAIN at_setjmp' : at_setjmp'[object] \subseteq Files \cup Objects
    BY <1>0, <1>3 DEF CreateCompress, Prepared
  <2>3. memory' \in [Objects -> {"garbage", "NULL", "pools"}]
    BY <1>0, <1>3 DEF CreateCompress, Created, CreateFails
  <2>4. /\ global_state' \in [Objects -> States]
        /\ \A object \in Objects : global_state'[object] \in StatesOf(object)
    BY <1>0, <1>3 DEF CreateCompress, Created, CreateFails, Becomes, StatesOf
  <2>5. pc' \in Locations /\ result' \in Results
    BY <1>0, <1>l, <1>3 DEF CreateCompress, Created, CreateFails
  <2>6. UNCHANGED <<args, file, lost, num_warnings, options, input, output>>
    BY <1>3 DEF CreateCompress, Prepared
  <2> QED
    BY <2>1, <2>2, <2>3, <2>4, <2>5, <2>6
<1>4. CASE ParseOptions
  BY <1>0, <1>l, <1>4 DEF ParseOptions
<1>5. CASE FopenInputFile
  BY <1>0, <1>l, <1>5, <1>c DEF FopenInputFile
<1>6. CASE StdioSrc
  BY <1>0, <1>l, <1>6 DEF StdioSrc, CallOn
<1>7. CASE ReadHeader
  BY <1>0, <1>l, <1>7 DEF ReadHeader, CallOn, Becomes, MayWarn, StatesOf
<1>8. CASE ReadCoefficients
  BY <1>0, <1>l, <1>8 DEF ReadCoefficients, CallOn, Becomes, MayWarn, StatesOf
<1>9. CASE CopyCriticalParameters
  BY <1>0, <1>l, <1>9 DEF CopyCriticalParameters, CallOn
<1>10. CASE CloseInputFile
  <2>1. file' \in [Files -> {"none", "open", "closed"}] /\ defer' \subseteq Files \cup Objects
    <3>1. CASE "input_file" \in defer
      <4>1. /\ file' = [file EXCEPT !["input_file"] = "closed"]
            /\ defer' = defer \ {"input_file"}
        BY <1>10, <3>1 DEF CloseInputFile
      <4>2. file \in [Files -> {"none", "open", "closed"}]
        OBVIOUS
      <4>3. defer' \subseteq Files \cup Objects
        BY <4>1
      <4> QED
        BY <4>1, <4>2, <4>3, Zenon
    <3>2. CASE "input_file" \notin defer
      BY <1>10, <3>2 DEF CloseInputFile
    <3> QED
      BY <3>1, <3>2
  <2>2. pc' \in Locations
    BY <1>l, <1>10 DEF CloseInputFile
  <2>3. UNCHANGED <<args, jumps, objects, options, input, output, result>>
    BY <1>10 DEF CloseInputFile
  <2> QED
    BY <2>1, <2>2, <2>3
<1>11. CASE FopenOutputFile
  BY <1>0, <1>l, <1>11, <1>c DEF FopenOutputFile
<1>12. CASE SimpleProgression
  BY <1>0, <1>l, <1>12 DEF SimpleProgression, CallOn
<1>13. CASE StdioDest
  BY <1>0, <1>l, <1>13 DEF StdioDest, CallOn
<1>14. CASE WriteCoefficients
  BY <1>0, <1>l, <1>14 DEF WriteCoefficients, CallOn, Becomes, StatesOf
<1>15. CASE CopyMarkers
  BY <1>0, <1>l, <1>15 DEF CopyMarkers, CallOn
<1>16. CASE FinishCompress
  BY <1>0, <1>l, <1>16 DEF FinishCompress, CallOn, Becomes, StatesOf
<1>17. CASE FinishDecompress
  BY <1>0, <1>l, <1>17 DEF FinishDecompress, CallOn, Becomes, StatesOf
<1>18. CASE \E object \in Objects : Raise(object)
  <2>1. PICK object \in Objects : Raise(object)
    BY <1>18
  <2>2. at_setjmp[object] \subseteq Files \cup Objects
    BY <2>1 DEF Raise
  <2>3. defer' \subseteq Files \cup Objects
    BY <2>1, <2>2 DEF Raise, AfterJump
  <2> QED
    BY <1>0, <1>l, <2>1, <2>3 DEF Raise
<1>19. CASE ReleaseMemory
  BY <1>0, <1>l, <1>19 DEF ReleaseMemory, Release, Verdict
<1>20. CASE Complain
  BY <1>l, <1>20 DEF Complain
<1>21. CASE UNCHANGED vars
  BY <1>21 DEF vars
<1> QED
  BY <1>1, <1>2, <1>3, <1>4, <1>5, <1>6, <1>7, <1>8, <1>9, <1>10, <1>11, <1>12, <1>13,
     <1>14, <1>15, <1>16, <1>17, <1>18, <1>19, <1>20, <1>21 DEF Next

(* Whatever fails, and wherever error_exit_mod jumps to, the state of      *)
(* reencode() stays within its types.                                      *)
THEOREM TypeCorrect == Spec => []TypeOK
  BY InitType, NextType, PTL DEF Spec
=============================================================================
