--------------------------- MODULE NativeReencode ---------------------------
(***************************************************************************)
(* reencode() of Bindings.c over the libjpeg calls it makes: two libjpeg   *)
(* objects with a state of their own, three files, what is to be released, *)
(* and the two places error_exit jumps to.  Any call on an object may      *)
(* raise an error, and then control is back at that object's setjmp.       *)
(*                                                                         *)
(* defer_memory_to_release is a local that changes between setjmp and      *)
(* longjmp and is not volatile, so C leaves its fields indeterminate after *)
(* the jump: a compiler may keep each of them in a register that longjmp   *)
(* restores, or in memory.  Each jump chooses.                             *)
(***************************************************************************)
EXTENDS Naturals

Files == {"error_file", "input_file", "output_file"}
Objects == {"decompress_info", "compress_info"}

VARIABLES
    args,             \* transform_args: progressive, optimize
    pc,               \* the call that comes next
    file,             \* for each FILE*, whether it is open
    defer,            \* defer_memory_to_release: the fields that are set
    at_setjmp,        \* for each jump_buffer that is set, defer at that time
    lost,             \* what the jump has dropped from defer: no code's variable
    memory,           \* for each object, its mem
    global_state,     \* for each object, its global_state
    optimize_coding,  \* of compress_info
    scan_info,        \* whether compress_info has a scan script
    num_warnings,     \* for each error manager
    unread,           \* what the decompressor has yet to read
    coefficients,     \* the coefficient arrays, in the decompressor's pool
    coded,            \* the options the output is written with
    written,          \* how much of the output is
    warned,           \* whether libjpeg has warned of the input's data
    result            \* what reencode() is going to return

options == <<optimize_coding, scan_info>>
input == <<unread, coefficients, warned>>
output == <<coded, written>>
objects == <<memory, global_state, num_warnings>>
jumps == <<at_setjmp, lost>>
resources == <<file, defer, jumps>>

vars == <<args, pc, resources, objects, options, input, output, result>>

-----------------------------------------------------------------------------
(* The calls on each object, in the order of the code.                     *)
CallsOn(object) ==
    IF object = "decompress_info"
    THEN {"jpeg_create_decompress", "jpeg_stdio_src", "jpeg_read_header",
          "jpeg_read_coefficients", "jpeg_finish_decompress"}
    ELSE {"jpeg_create_compress", "jpeg_copy_critical_parameters",
          "jpeg_simple_progression", "jpeg_stdio_dest", "jpeg_write_coefficients",
          "jcopy_markers_execute", "jpeg_finish_compress"}

Creating == {"jpeg_create_decompress", "jpeg_create_compress"}

Stopped == {"returned", "crashed"}

Locations ==
    CallsOn("decompress_info") \cup CallsOn("compress_info") \cup Stopped \cup
    {"fopen_error_file", "parse_options", "fopen_input_file", "close_input_file",
     "fopen_output_file", "release_memory", "fprintf_error_file"}

(* The states of jpegint.h an object can be in here; 0 is no object.       *)
StatesOf(object) ==
    IF object = "decompress_info" THEN {"0", "DSTATE_START", "DSTATE_READY", "DSTATE_STOPPING"}
    ELSE {"0", "CSTATE_START", "CSTATE_WRCOEFS"}

States == UNION {StatesOf(object) : object \in Objects}

(* The global_state a call demands, or raises JERR_BAD_STATE.              *)
Demands(call) ==
    CASE call = "jpeg_read_header" -> {"DSTATE_START"}
      [] call = "jpeg_read_coefficients" -> {"DSTATE_READY"}
      [] call = "jpeg_finish_decompress" -> {"DSTATE_STOPPING"}
      [] call \in {"jpeg_copy_critical_parameters", "jpeg_simple_progression",
                   "jpeg_write_coefficients"} -> {"CSTATE_START"}
      [] call \in {"jcopy_markers_execute", "jpeg_finish_compress"} -> {"CSTATE_WRCOEFS"}
      [] OTHER -> States

Results == {"none", "EXIT_SUCCESS", "EXIT_FAILURE", "EXIT_WARNING"}

TypeOK ==
    /\ args \in [progressive : BOOLEAN, optimize : BOOLEAN]
    /\ pc \in Locations
    /\ file \in [Files -> {"none", "open", "closed"}]
    /\ defer \subseteq Files \cup Objects
    /\ DOMAIN at_setjmp \subseteq Objects
    /\ \A object \in DOMAIN at_setjmp : at_setjmp[object] \subseteq Files \cup Objects
    /\ lost \subseteq Files \cup Objects
    /\ memory \in [Objects -> {"garbage", "NULL", "pools"}]
    /\ global_state \in [Objects -> States]
    /\ \A object \in Objects : global_state[object] \in StatesOf(object)
    /\ optimize_coding \in BOOLEAN
    /\ scan_info \in BOOLEAN
    /\ num_warnings \in [Objects -> {0, 1}]
    /\ unread \in {"all", "scans", "nothing"}
    /\ coefficients \in {"none", "held", "freed"}
    /\ coded \in [progressive : BOOLEAN, optimize : BOOLEAN]
    /\ written \in {"nothing", "part", "whole"}
    /\ warned \in BOOLEAN
    /\ result \in Results

Init ==
    /\ args \in [progressive : BOOLEAN, optimize : BOOLEAN]
    /\ pc = "fopen_error_file"
    /\ file = [f \in Files |-> "none"]
    /\ defer = {}
    /\ at_setjmp = [object \in {} |-> {}]
    /\ lost = {}
    /\ memory = [object \in Objects |-> "garbage"]
    /\ global_state = [object \in Objects |-> "0"]
    /\ optimize_coding = FALSE
    /\ scan_info = FALSE
    /\ num_warnings = [object \in Objects |-> 0]
    /\ unread = "all"
    /\ coefficients = "none"
    /\ coded = [progressive |-> FALSE, optimize |-> FALSE]
    /\ written = "nothing"
    /\ warned = FALSE
    /\ result = "none"

-----------------------------------------------------------------------------
(* A call that does what it should; Raise is what it does otherwise.       *)
Call(call, next) == pc = call /\ pc' = next

CallOn(object, call, next) ==
    /\ Call(call, next)
    /\ global_state[object] \in Demands(call)
    /\ UNCHANGED <<args, resources, result>>

Becomes(object, state) == global_state' = [global_state EXCEPT ![object] = state]

FopenErrorFile ==
    /\ \/ /\ Call("fopen_error_file", "jpeg_create_decompress")
          /\ file' = [file EXCEPT !["error_file"] = "open"]
          /\ defer' = {"error_file"}
          /\ UNCHANGED result
       \/ /\ Call("fopen_error_file", "returned")
          /\ result' = "EXIT_FAILURE"
          /\ UNCHANGED <<file, defer>>
    /\ UNCHANGED <<args, jumps, objects, options, input, output>>

(* Mutant: no jump buffer.                                                 *)
PreparedUnarmed(object) ==
    /\ defer' = defer \cup {object}
    /\ UNCHANGED <<args, file, jumps, num_warnings, options, input, output>>

(* The error manager is set up, the object is to be released from now on,  *)
(* the jump buffer is set.                                                 *)
Prepared(object) ==
    /\ defer' = defer \cup {object}
    /\ at_setjmp' = [o \in DOMAIN at_setjmp \cup {object} |->
                        IF o = object THEN defer \cup {object} ELSE at_setjmp[o]]
    /\ UNCHANGED <<args, file, lost, num_warnings, options, input, output>>

Created(object, state) ==
    /\ memory' = [memory EXCEPT ![object] = "pools"]
    /\ Becomes(object, state)
    /\ UNCHANGED result

(* An error from within jpeg_create: mem is NULL or was set up already.    *)
CreateFails(object) ==
    /\ \E mem \in {"NULL", "pools"} : memory' = [memory EXCEPT ![object] = mem]
    /\ result' = "EXIT_FAILURE"
    /\ UNCHANGED global_state

CreateDecompress ==
    /\ Prepared("decompress_info")
    /\ \/ /\ Call("jpeg_create_decompress", "jpeg_create_compress")
          /\ Created("decompress_info", "DSTATE_START")
       \/ /\ Call("jpeg_create_decompress", "release_memory")
          /\ CreateFails("decompress_info")

(* Mutant: copied from CreateDecompress, but for the name.                 *)
CreateCompressCopied ==
    /\ Prepared("compress_info")
    /\ \/ /\ Call("jpeg_create_compress", "parse_options")
          /\ Created("compress_info", "DSTATE_START")
       \/ /\ Call("jpeg_create_compress", "release_memory")
          /\ CreateFails("compress_info")

CreateCompress ==
    /\ Prepared("compress_info")
    /\ \/ /\ Call("jpeg_create_compress", "parse_options")
          /\ Created("compress_info", "CSTATE_START")
       \/ /\ Call("jpeg_create_compress", "release_memory")
          /\ CreateFails("compress_info")

ParseOptions ==
    /\ Call("parse_options", "fopen_input_file")
    /\ optimize_coding' = (optimize_coding \/ args.optimize)
    /\ UNCHANGED <<args, resources, objects, scan_info, input, output, result>>

-----------------------------------------------------------------------------
(* Reading.                                                                *)

(* release_memory, without a return.                                       *)
Release ==
    /\ file' = [f \in Files |-> IF f \in defer THEN "closed" ELSE file[f]]
    /\ memory' = [object \in Objects |-> IF object \in defer THEN "NULL" ELSE memory[object]]
    /\ global_state' = [object \in Objects |-> IF object \in defer THEN "0" ELSE global_state[object]]
    /\ coefficients' = IF coefficients = "held" /\ "decompress_info" \in defer
                       THEN "freed" ELSE coefficients
    /\ defer' = {}

(* The code says why only after it has closed the error file.              *)
CannotOpen(call) ==
    /\ Call(call, "fprintf_error_file")
    /\ Release
    /\ result' = "EXIT_FAILURE"
    /\ UNCHANGED <<args, jumps, num_warnings, options, unread, warned, output>>

FopenInputFile ==
    \/ /\ Call("fopen_input_file", "jpeg_stdio_src")
       /\ file' = [file EXCEPT !["input_file"] = "open"]
       /\ defer' = defer \cup {"input_file"}
       /\ UNCHANGED <<args, jumps, objects, options, input, output, result>>
    \/ CannotOpen("fopen_input_file")

(* jpeg_stdio_src and jcopy_markers_setup.                                 *)
StdioSrc ==
    /\ CallOn("decompress_info", "jpeg_stdio_src", "jpeg_read_header")
    /\ UNCHANGED <<objects, options, input, output>>

(* Reading may end in a warning: data that is corrupt or stops too early.  *)
MayWarn(before) ==
    \E w \in {before, 1} :
        /\ num_warnings' = [num_warnings EXCEPT !["decompress_info"] = w]
        /\ warned' = (warned \/ w = 1)

(* reset_input_controller resets the count of warnings first.              *)
ReadHeader ==
    /\ CallOn("decompress_info", "jpeg_read_header", "jpeg_read_coefficients")
    /\ Becomes("decompress_info", "DSTATE_READY")
    /\ unread' = "scans"
    /\ MayWarn(0)
    /\ UNCHANGED <<memory, options, coefficients, output>>

(* Mutant: reading stops with the last row, before EOI.                    *)
ReadCoefficientsShort ==
    /\ CallOn("decompress_info", "jpeg_read_coefficients", "jpeg_copy_critical_parameters")
    /\ Becomes("decompress_info", "DSTATE_STOPPING")
    /\ coefficients' = "held"
    /\ MayWarn(num_warnings["decompress_info"])
    /\ UNCHANGED <<memory, options, unread, output>>

(* The whole file is absorbed, to EOI, into arrays of the decompressor's   *)
(* image pool.                                                             *)
ReadCoefficients ==
    /\ CallOn("decompress_info", "jpeg_read_coefficients", "jpeg_copy_critical_parameters")
    /\ Becomes("decompress_info", "DSTATE_STOPPING")
    /\ unread' = "nothing"
    /\ coefficients' = "held"
    /\ MayWarn(num_warnings["decompress_info"])
    /\ UNCHANGED <<memory, options, output>>

(* jpeg_set_defaults, called from here, resets the options.                *)
CopyCriticalParameters ==
    /\ CallOn("compress_info", "jpeg_copy_critical_parameters", "close_input_file")
    /\ optimize_coding' = FALSE
    /\ scan_info' = FALSE
    /\ UNCHANGED <<objects, input, output>>

(* Mutant: the field keeps its value.                                      *)
CloseInputFileKept ==
    /\ Call("close_input_file", "fopen_output_file")
    /\ IF "input_file" \in defer
       THEN /\ file' = [file EXCEPT !["input_file"] = "closed"]
            /\ UNCHANGED defer
       ELSE UNCHANGED <<file, defer>>
    /\ UNCHANGED <<args, jumps, objects, options, input, output, result>>

CloseInputFile ==
    /\ Call("close_input_file", "fopen_output_file")
    /\ IF "input_file" \in defer
       THEN /\ file' = [file EXCEPT !["input_file"] = "closed"]
            /\ defer' = defer \ {"input_file"}
       ELSE UNCHANGED <<file, defer>>
    /\ UNCHANGED <<args, jumps, objects, options, input, output, result>>

-----------------------------------------------------------------------------
(* Writing.                                                                *)

(* Mutant: the file is not noted for release.                              *)
FopenOutputFileUnnoted ==
    \/ /\ Call("fopen_output_file",
               IF args.progressive THEN "jpeg_simple_progression" ELSE "jpeg_stdio_dest")
       /\ file' = [file EXCEPT !["output_file"] = "open"]
       /\ UNCHANGED <<args, defer, jumps, objects, options, input, output, result>>
    \/ CannotOpen("fopen_output_file")

(* Mutant: the wrong option decides.                                       *)
FopenOutputFileOptimize ==
    \/ /\ Call("fopen_output_file",
               IF args.optimize THEN "jpeg_simple_progression" ELSE "jpeg_stdio_dest")
       /\ file' = [file EXCEPT !["output_file"] = "open"]
       /\ defer' = defer \cup {"output_file"}
       /\ UNCHANGED <<args, jumps, objects, options, input, output, result>>
    \/ CannotOpen("fopen_output_file")

FopenOutputFile ==
    \/ /\ Call("fopen_output_file",
               IF args.progressive THEN "jpeg_simple_progression" ELSE "jpeg_stdio_dest")
       /\ file' = [file EXCEPT !["output_file"] = "open"]
       /\ defer' = defer \cup {"output_file"}
       /\ UNCHANGED <<args, jumps, objects, options, input, output, result>>
    \/ CannotOpen("fopen_output_file")

SimpleProgression ==
    /\ CallOn("compress_info", "jpeg_simple_progression", "jpeg_stdio_dest")
    /\ scan_info' = TRUE
    /\ UNCHANGED <<objects, optimize_coding, input, output>>

(* Mutant: markers before the file header.                                 *)
StdioDestSkipping ==
    /\ CallOn("compress_info", "jpeg_stdio_dest", "jcopy_markers_execute")
    /\ UNCHANGED <<objects, options, input, output>>

StdioDest ==
    /\ CallOn("compress_info", "jpeg_stdio_dest", "jpeg_write_coefficients")
    /\ UNCHANGED <<objects, options, input, output>>

(* The options take effect; a progressive file is optimized in any case.   *)
WriteCoefficients ==
    /\ CallOn("compress_info", "jpeg_write_coefficients", "jcopy_markers_execute")
    /\ Becomes("compress_info", "CSTATE_WRCOEFS")
    /\ num_warnings' = [num_warnings EXCEPT !["compress_info"] = 0]
    /\ coded' = [progressive |-> scan_info, optimize |-> optimize_coding \/ scan_info]
    /\ written' = "part"
    /\ UNCHANGED <<memory, options, input>>

CopyMarkers ==
    /\ CallOn("compress_info", "jcopy_markers_execute", "jpeg_finish_compress")
    /\ UNCHANGED <<objects, options, input, output>>

(* All passes, then term_destination, which writes and flushes what is     *)
(* left and raises an error when that fails.                               *)
FinishCompress ==
    /\ CallOn("compress_info", "jpeg_finish_compress", "jpeg_finish_decompress")
    /\ Becomes("compress_info", "CSTATE_START")
    /\ written' = "whole"
    /\ UNCHANGED <<memory, num_warnings, options, input, coded>>

(* jpeg_abort frees the image pool, and the coefficients with it.          *)
FinishDecompress ==
    /\ CallOn("decompress_info", "jpeg_finish_decompress", "release_memory")
    /\ Becomes("decompress_info", "DSTATE_START")
    /\ unread' = "nothing"
    /\ coefficients' = "freed"
    /\ UNCHANGED <<memory, num_warnings, options, warned, output>>

-----------------------------------------------------------------------------
(* Errors, and the end.                                                    *)

(* What is left of defer_memory_to_release once longjmp has gone back to   *)
(* the setjmp of an object: a field may have the value it had then.        *)
AfterJump(object) ==
    LET then == at_setjmp[object]
    IN  {d \in SUBSET (defer \cup then) : defer \cap then \subseteq d}

(* error_exit_mod.  A call that does not find the state it demands always  *)
(* ends this way.                                                          *)
Raise(object) ==
    /\ Call(pc, "release_memory")
    /\ pc \in CallsOn(object) \ Creating
    /\ object \in DOMAIN at_setjmp
    /\ defer' \in AfterJump(object)
    /\ lost' = defer \ defer'
    /\ written' \in {written} \cup
          {p \in {"part"} : object = "compress_info" /\ file["output_file"] = "open"}
    /\ result' = "EXIT_FAILURE"
    /\ UNCHANGED <<args, file, at_setjmp, objects, options, input, coded>>

(* Mutant: only the second count is looked at.                             *)
VerdictOfCompressor ==
    IF num_warnings["compress_info"] # 0 THEN "EXIT_WARNING" ELSE "EXIT_SUCCESS"

(* The sum of both counts of warnings decides.                             *)
Verdict ==
    IF num_warnings["decompress_info"] + num_warnings["compress_info"] # 0
    THEN "EXIT_WARNING" ELSE "EXIT_SUCCESS"

ReleaseMemory ==
    /\ Call("release_memory", "returned")
    /\ Release
    /\ result' = IF result = "EXIT_FAILURE" THEN result ELSE Verdict
    /\ UNCHANGED <<args, jumps, num_warnings, options, unread, warned, output>>

(* fprintf to a FILE that is closed: it may do nothing or bring the        *)
(* process down.                                                           *)
Complain ==
    /\ pc = "fprintf_error_file"
    /\ pc' \in {"returned", "crashed"}
    /\ UNCHANGED <<args, resources, objects, options, input, output, result>>

Next ==
    \/ FopenErrorFile \/ CreateDecompress \/ CreateCompress \/ ParseOptions
    \/ FopenInputFile \/ StdioSrc \/ ReadHeader \/ ReadCoefficients
    \/ CopyCriticalParameters \/ CloseInputFile
    \/ FopenOutputFile \/ SimpleProgression \/ StdioDest \/ WriteCoefficients
    \/ CopyMarkers \/ FinishCompress \/ FinishDecompress
    \/ \E object \in Objects : Raise(object)
    \/ ReleaseMemory \/ Complain
    \/ pc \in Stopped /\ UNCHANGED vars

Spec == Init /\ [][Next]_vars

-----------------------------------------------------------------------------
(* Properties.                                                             *)

(* Bindings.c:167-212 makes the libjpeg calls in an order in which no call *)
(* finds its object in the wrong state, so that JERR_BAD_STATE never comes *)
(* up, whatever failed before.                                             *)
CallsInOrder ==
    \A object \in Objects : pc \in CallsOn(object) \ Creating =>
        /\ memory[object] = "pools"
        /\ global_state[object] \in Demands(pc)

(* error_exit_mod prints to the error file and jumps: while a call on an   *)
(* object can fail, its jump buffer is set and the error file is open.     *)
ErrorsAreCaught ==
    \A object \in Objects : pc \in CallsOn(object) \ Creating =>
        object \in DOMAIN at_setjmp /\ file["error_file"] = "open"

(* Bindings.c:181 closes the input long before the decompressor is         *)
(* finished, and the compressor reads arrays the decompressor owns: data   *)
(* is read from an open file, written to an open file, and taken from      *)
(* arrays that are still there.                                            *)
DataIsThere ==
    /\ \/ pc \in {"jpeg_read_header", "jpeg_read_coefficients"}
       \/ pc = "jpeg_finish_decompress" /\ unread # "nothing"
       => file["input_file"] = "open"
    /\ pc \in {"jpeg_write_coefficients", "jcopy_markers_execute", "jpeg_finish_compress"} =>
          file["output_file"] = "open" /\ coefficients = "held"

(* release_memory closes nothing that is closed already and destroys no    *)
(* object that jpeg_create has not touched, whatever a jump has done to    *)
(* the fields of defer_memory_to_release.                                  *)
ReleasesOnce ==
    /\ \A f \in Files \cap defer : file[f] = "open"
    /\ pc = "release_memory" => \A object \in Objects \cap defer : memory[object] # "garbage"

(* What holds a descriptor or memory.                                      *)
Held == {f \in Files : file[f] = "open"} \cup {object \in Objects : memory[object] = "pools"}

(* Whatever call failed, when reencode() is over no file is open and no    *)
(* libjpeg object holds memory, but for what a jump made it forget.  That  *)
(* is never the error file nor the decompressor: Bindings.c:104 and 117    *)
(* note both before there is a place to jump to.                           *)
AllReleased ==
    pc \in Stopped => Held \subseteq lost \ {"error_file", "decompress_info"}

(* EXIT_SUCCESS and EXIT_WARNING are said of a complete file only, and     *)
(* EXIT_SUCCESS only if the input's data raised no warning.                *)
ResultIsTrue ==
    /\ pc = "returned" => result # "none"
    /\ pc = "returned" /\ result # "EXIT_FAILURE" => written = "whole"
    /\ pc = "returned" /\ result = "EXIT_SUCCESS" => ~warned

(* The progressive option reaches the file although parameters are reset   *)
(* on the way.                                                             *)
ProgressiveHonoured ==
    written = "whole" => coded.progressive = args.progressive

(* README.md:58: ".optimize() //optimize encoded JPEG".                    *)
OptimizeHonoured ==
    written = "whole" /\ args.optimize => coded.optimize
=============================================================================
