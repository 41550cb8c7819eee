# A verification project for libjpeg-turbo-android-bindings

The library re-encodes a JPEG file losslessly on Android: its coefficients are
decoded and coded again, as a baseline or a progressive file, by libjpeg-turbo
or mozjpeg, and the EXIF segment of the input is put back in front. This
directory holds TLA+ specifications of it, configurations that check them with
TLC, and theorems checked by TLAPS. Paths below are relative to the
repository; `L/` stands for `native/libjpeg-turbo-2.1.4/`.

## 1. The system

| Part | State it keeps | Operations | Talks to |
|---|---|---|---|
| `Reencoder.java` | the names of its temporary files, a result code | `reencode`: feed the pipe, call native, merge EXIF, report, clean up | all of the below, on the user's thread |
| `FileIOUtils.java` | the named pipe, a writer thread per call | `createPipeFile`, `createInputPipeFile`, `useInputPipeFile`, `readFileToString` | the kernel's FIFO; the warning logger |
| `JPEGReencodeArgs.java` | the arguments of a call, two loggers | builder, checked getters | the file system (`exists`) |
| `Bindings.c` `reencode()` | a decompressor, a compressor, three files, two jump buffers, the list of what to release | open, decode coefficients, encode, release | libjpeg; reads the pipe, writes the intermediate and the error file |
| `Bindings.c` `mergeExifAndJpeg()` | two heap blocks, one file at a time | take APP1 of the input, write it before the picture, or rename | input, intermediate, output file |
| libjpeg-turbo: compressor | `global_state`; scan script; pass, Huffman tables and their `sent_table` flags | `jpeg_simple_progression`, the pass loop of `jpeg_finish_compress` | the decoder of whoever reads the file |
| libjpeg-turbo: marker reader, input controller, marker writer | frame, JFIF and Adobe flags, quantization slots, the table of each component, the list of saved segments | `jpeg_read_header`, `jpeg_read_coefficients`, `jpeg_copy_critical_parameters`, `jpeg_write_coefficients`, `jcopy_markers_execute` | the file before and the file after; its own output in the next re-encoding |
| libjpeg-turbo: virtual arrays | a window of rows in memory, a dirty flag, the first undefined row, a backing store | `request_virt_barray`, `realize_virt_arrays`, `access_virt_barray`, `free_pool` | the coefficient controllers on both sides |
| mozjpeg, Jpegli backends; facades; sample app; build files | | | see "Not modelled" |

How they interact. The user's thread creates a FIFO and starts a thread that
reads the whole input and writes it into the FIFO; the user's thread enters
native code, which opens the FIFO (blocking until the writer opens it too),
decodes from it, and closes it when the coefficients are in memory. It then
writes an intermediate file, which `mergeExifAndJpeg` merges with the EXIF
bytes of the input, or renames to the output. Then Java looks at the result
code and at the text of the error file, and calls a logger, throws, or deletes
the output. Errors inside libjpeg are `longjmp`s.

What is hard about it:
 - two threads and a FIFO with blocking opens, a bounded buffer, end-of-file and
   EPIPE, and a pipe that is unlinked while one side may not have opened it;
 - the input is read twice, in two places and at two times;
 - the output may be the input;
 - every step may fail, some failures are looked at and some are not;
 - C error handling by jumps over locals, with two objects whose life cycles
   are coupled (the compressor writes arrays that live in the decompressor);
 - libjpeg's pass loop relies on what the pass before left behind;
 - the colour space of a picture is nowhere in the file: every reader guesses it from the segments and
   the component ids, so what is copied in front of a picture changes what it looks like;
 - quantization tables live in slots that a file may refill between scans, and are written once, at the end.

`PROJECT.json` lists under `hazards` each place where this bites, with the
properties that watch it.

## 2. The modules

**`Fifo`** is the kernel's named pipe: directory entry, two ends, a bounded
buffer. It is outside the repository except for `mkfifo`, which `Bindings.c`
calls. An end that waits in `open` is released once the other end has come,
even if that one has closed since, as on Linux.

**`Reencoder`** is the main module. Each call has a program counter `caller`
for the user's thread and `writer` for the thread `FileIOUtils` starts. A file
holds a content: which image, whose EXIF, and in which form (original, coded,
damaged, part of one, absent). An action is one step another thread or a crash
can come between: `OpenInput` and `InputOpened` are the two halves of a
blocking `fopen`; `DecodeBlock` is one `fread` of the pipe; `PrematureEnd` is
the end-of-file branch of `fill_input_buffer`, which warns and makes up an EOI;
`StartRewrite` / `FinishRewrite` are the truncation of the output and the end of
the writes to it. Groups (`PipeFeeding`, `NativeReencode`, `MergeExifAndJpeg`,
`Report`) follow the functions. What may go wrong around the code is the
constant `Faults`, so that each run names exactly what it lets happen: 16 faults, from `mkfifo` and `Thread.start` to each
`fopen`, `malloc` and write of the native code. `mergeCode` is what `mergeExifAndJpeg` returned; no code looks at it, since its Java
method is void, but the properties do.

**`ReencodeService`** is what a call promises: it takes one picture, and either
ends with that picture in the output, or fails. There is a third end (`Overlook`, status `unmerged`) because the code has it: the merge
returned `EXIT_FAILURE`, the call goes on, and an output file of long ago passes for its own; of the output nothing is said then. `Reencoder!ServiceSpec` is the
refinement: status from `caller`, `outcome` and `mergeCode`, the picture from what the writer
thread read, the output from the disk. What it forbids is any other way to a normal return without the picture, or to a failure with
an output file.

**`NativeReencode`** looks inside `reencode()`: one action per libjpeg call, with the
`global_state` the library demands, what the call does to the options, the
coefficients and the input, and `Raise`, the jump to the object's `setjmp` that
any call may make. `defer` is `defer_memory_to_release`; `at_setjmp` is its value
when each jump buffer was set. C leaves a non-volatile local that was changed
since `setjmp` indeterminate after the jump: `AfterJump` lets each of its fields have the value of now or of then, and
`lost`, which is not a variable of the code, keeps what the jump has dropped. `fprintf` to the closed error file (`Complain`) may
crash.

**`MergeExif`** is `mergeExifAndJpeg()` byte by byte: short `fread`s that leave
the buffer as it was, uninitialized bytes (any pair of bytes), the arithmetic of the segment
length, heap and file handles, and the five `fwrite`s. Each `fopen`, `malloc`, `fwrite` and the `rename` may fail: `NoExifMemory`
and `NoImageMemory` are the `malloc`s that give NULL, after which the `fread` to NULL crashes or reads nothing.

**`ScanScript`** has the script of `jpeg_simple_progression` and the rules of
`validate_script` as operators; **`CompressMaster`** is the loop over passes: which
pass comes, which scan it belongs to, which Huffman tables are made, sent and
known to a decoder, and to which bit each coefficient has been delivered. A pass is
two actions, its preparation and its end. **`ScanSequence`** is the abstract writer: a
number of scans is fixed, written one by one, and the file ends after the last.

**`Transcode`** is a file as a sequence of segments and what a re-encoding makes of it. `reader` is the state
of the marker reader and input controller: each segment is an action (`GetSOF`, `GetDQT`, `SaveMarker`, `GetSOS`,
`GetEOI`, `EndOfFile`, ...), with the refusals of the code as actions of their own. `GetSOS` is the whole scan: the
matching of ids to components, `latch_quant_tables`, and at the first scan the guess of the
colour space (`default_decompress_parms`). Then come the steps of the writer, segment by segment
(`CopyCriticalParameters`, `WriteCoefficients`, `CopyMarker`, `EmitDQT`, `EmitSOF`, `EmitScan`, `EmitEOI`), and `Merge`. The first
file is anything the constants allow, segment by segment (of `ScanIds` it is assumed that ids are numbers); `Again` hands the file that was written to the next
re-encoding, so that the reader is run on what the writer wrote. Which component's data a scan carries is part of the
segment, and so is what the writer's decoder had read of that component (`Content`), so that data put into another component show, in the
reader and in what it writes. A scan also says which coefficients it brings and to which bit (`ScanHeader`); `coef_bits` is what the
reader has of each, and `bogus` whether it was warned that a scan does not carry on from there (`JWRN_BOGUS_PROGRESSION`, `L/jdphuff.c:126-144`) or is
not the scan of a sequential file (`L/jdhuff.c:89-92`). `warned` is every other warning. **`Selection`** has the one helper of `Transcode` that is not in a library:
the members of a sequence whose positions are in a set. It is a recursive function where `SelectSeq` would do, because the
proofs must unfold it.

**`VirtualArray`** is one virtual array of `L/jmemmgr.c` with its window, dirty flag and backing store. `Access` is a whole call
of `access_virt_barray`: flush, move, load, pre-zero, define; `AccessRefused`, `AccessFails`, `StoreFails` are its
error exits, before and after the window has moved. The caller writes through the strip it was
given (`WriteRow`). **`RowStore`** is the abstract array, all in memory, and `VirtualArray!RowsSurvive` the refinement. `L/jmemnobs.c`, with which the
library is built, keeps everything in memory and raises an error when asked for a backing store, which happens only if the
environment variable `JPEGMEM` sets a limit; with `HasBackingStore = TRUE` the runs explore the interface behind it as well.

`MC*` modules only give constants their values; `*Proofs` modules hold the theorems.

| Code | Actions |
|---|---|
| `Reencoder.java:10-82` | `GetInputFile` ... `Finally` of `Reencoder` |
| `FileIOUtils.java:76-106` | `CreatePipeFile`, `StartWriter`, `ReadInput`, `OpenPipe`, `PipeOpened`, `SendBlock`, `AllSent`, `SendFails`, `DeletePipeFile` |
| `Bindings.c:91-216` | `CreateErrorFile` ... `Encode` of `Reencoder`; all of `NativeReencode` |
| `Bindings.c:247-317` | `ReadExif` ... `RenameIntermediate` of `Reencoder`; all of `MergeExif` |
| `L/jcmaster.c:450-642`, `L/jcphuff.c`, the tables of `L/jcmarker.c` | `CompressMaster` |
| `L/jdmarker.c`, `L/jdinput.c`, `L/jdapimin.c`, `L/jdtrans.c`, `L/jdatasrc.c` | the reading half of `Transcode` |
| `L/jctrans.c`, `L/jcmarker.c`, `L/transupp.c:2311-2375` | the writing half of `Transcode` |
| `L/jmemmgr.c:606-1052` | `VirtualArray` |

## 3. The runs

| Run | Question | Bounds | States |
|---|---|---|---|
| `reencoder_pair` | Two concurrent calls, each of which may read what the other writes: do they implement the service, and keep EXIF and picture of an input that is left alone? | 2 calls, 3 files, a picture of 2 blocks (3 with bytes after EOI), a pipe of 1 | 285 184 |
| `reencoder_faulty` | One call with every kind of file, option and fault: is nothing left behind, nothing lost in silence, and do call and writer thread end? | 1 call, 3 kinds of picture, 13 of 16 faults | 651 432 |
| `reencoder_unreadable`, `_in_place`, `_rename` | Three promises of `README.md` the code does not keep (section 6) | 1 call | |
| `compress_master` | Are all scans written once, in order, within the script, with the right tables, and does the decoder get everything? | 1 to 10 components, all colour spaces that matter; coefficients 0, 1, 5, 6, 63 | 2 822 |
| `native_reencode` | Whatever call fails: in a legal state, with a jump target, with the data in place, all released that a jump has not dropped, a true result | none: the state space is finite | 490 |
| `native_optimize` | A disagreement (section 6) | | |
| `merge_exif` | Is the output the segment that the EXIF file begins with, with a true length, and the picture, whatever the file is cut to and whatever fails? | EXIF files of up to 10 bytes cut at every byte, lengths at 0..4 and 256..260 | 8 250 |
| `transcode` | Whatever is in a file: does re-encoding keep colours, tables, coefficients and segments, can the result be read, and with which warnings, and does a second re-encoding change nothing? | 7 frames of 1 to 5 components, up to 2 scans, 2 saved segments of 6 kinds, 2 slots, 2 tables, one re-encoding of the result | 651 388 |
| `transcode_twin_ids` | A disagreement (section 6) | one frame of 4 components | |
| `virtual_array` | Can a caller tell an array behind a window from one in memory? | 3 or 4 rows, accesses of 1 or 2, every window size, any order of calls and failures | 98 025 |

Why the bounds are enough. *Blocks*: with a pipe of one block and a picture of
two the pipe runs full and empty, and a reader can be early and late; a third
block only comes with trailing bytes, which is how a reader that is done
meets a writer that is not. *Calls*: calls share nothing but files, so two show
every interference between them; which of two calls writes which
output is symmetric and fixed. *Coefficients*: every band of the script begins or ends at
one of the five. *Bytes*: the code compares with the marker bytes and computes
with two length bytes; the set has those, and lengths on both sides of 2 and of 256.
*Segments*: the reader keeps one flag per kind of saved segment and looks at the last of a kind, so two
segments show every order and every overriding; two scans and two contents of a slot show a table that is replaced between
them, a third slot one that is out of range; the frames have the ids each rule of the guess tells apart, with one component, with
more than a scan or the reader takes, and with an id that occurs twice. Two re-encodings suffice since the second reads what the first wrote
and `SecondTripIsIdentity` says that this is a fixed point. *Rows*: an array of four rows and a window of one access of one or two rows
has windows that overlap, that touch and that lie apart, before and behind each other, and one cut off by the end of the
array.

Restrictions. Two calls do not write the same output (`DistinctOutputs`): the repository promises
nothing for them. Some properties only speak of calls whose input no other
call writes (`InputStable`). A full `fread` may return fewer blocks than are there; the
model lets each read take one block, which includes those behaviours. `SilentSuccessIsComplete` and `ExifSurvives` are about
calls whose merge returned `EXIT_SUCCESS`: an `EXIT_FAILURE` is dropped, and with an older output file the call is one that promises nothing
(section 6). `ExifSurvives` leaves out a merge without memory, which returns `EXIT_SUCCESS` and no EXIF. In
`reencoder_faulty` the three faults the code does not notice in any way are left out:
`unreadable` and `rename` have runs of their own, and after
`shortWrite` (a full disk during the merge) the code promises nothing. `NothingLeftBehind` names the one pipe that may stay: when
`Thread.start` throws, between `mkfifo` and the `try` of `useInputPipeFile`.

Deadlock. `CHECK_DEADLOCK FALSE` is set for the runs of `Reencoder`:
in `reencoder_faulty` the writer thread of a call that failed before it opened the pipe stays blocked in `open`
for good once the pipe has been unlinked (`Bindings.c:102-103` returns before the `fopen` of the pipe); in `reencoder_pair` a call whose input the other
deletes or empties before its writer thread reads it waits for its pipe for ever (the finding of `reencoder_unreadable` again);
and the violation runs stop where their finding is. It is set for `transcode` and `virtual_array`
as well, where the process really ends: the last re-encoding has been made or has failed, the array has been freed. `compress_master`,
`native_reencode` and `merge_exif` check it; states in which the code has returned have an explicit
stuttering disjunct.

Fairness. `Reencoder` assumes weak fairness of each thread as a whole
(`WF_vars(Caller(c))`, `WF_vars(Writer(c))`): a runnable thread is scheduled eventually. No
single action is fair, so a thread that has a choice (a call fails or succeeds) may always take the same one.
Loggers are user code and taken to return. The other modules state
no liveness: a sequential function either returns or is stuck, and deadlock is checked.

What each property says, with the lines it is about, is in the comment above it. The ones that say most:
 - `WriterFailsForAReason`: the races at the two ends of the pipe never produce a spurious
   warning; a broken pipe needs a failed call or bytes after EOI.
 - `SoundInputSucceeds`: no interleaving makes a whole file look truncated; neither an error nor a warning nobody asked for is
   reported of it.
 - `NothingLeftBehind`: holds although the writer thread outlives the call, because
   `StandardOpenOption.WRITE` alone does not create the file again.
 - `AllReleased`: whatever call fails, only what a jump has dropped is left, and never the error file or the decompressor.
 - `ExifBeforePicture`: of every merge, the output is the first segment of the EXIF file as far as the file has it; what the file lacks
   of it is counted byte by byte (`junk`), and is nothing when the segment is whole. A length the file lacks a byte of is made up of the marker before
   it, which `Completed` spells out.
 - `InPlaceKeepsPicture`: an in-place call that has not failed has the picture on disk at every moment.
 - `DataIsThere`: the coefficients are alive when written, and the input has been read to its
   end when it is closed before `jpeg_finish_decompress`.
 - `TablesReachDecoder`, `TablesFitScan`, `DecoderAccepts`, `EverythingSent`: lossless, at the level of scans.
 - `ColorsKept`, `QuantKept`, `CoefficientsKeptByIds`: lossless, at the level of the file. The reader of the output guesses the same
   colour space, dequantizes each component with the table it had, and puts each scan where it came from.
   The exceptions are stated in the properties: an RGB file with a JFIF segment after its first scan (`LateJFIF`), and ids
   that occur twice.
 - `OutputIsSound`: what was written can be read, and each scan carries on where those before it stopped. There are two
   exceptions: a frame of five or more components, which the reader accepts and the writer writes, but whose scans of the fifth
   `get_sos` does not find (an error); and a progressive file with an id that occurs twice, whose scans go into the first component of that id (a
   warning).
 - `MarkersKept`: segments keep their order and contents, and an EXIF segment at the start of the input is there twice, once copied
   and once merged. `SecondTripIsIdentity`: without such a segment, a second re-encoding with the same option writes the same file, with the
   same data in each scan, unless an id occurs twice.
 - `RowsSurvive`: a caller sees in its strip what was last written to these rows, however the window moved.

Each property has a mutant: an operator defined before the one it stands in for, with a
comment `Mutant:` that says which slip it is. With it in place TLC finds the property violated.

## 4. What is proved

All theorems hold for every value of the constants under the named assumptions of
the modules (`ArgumentsAssumption`, `FaultsAssumption`, ... : constants are of
their type). None of the properties below is inductive; each paragraph names the invariant that is.

*`ReencoderProofs`*. `CallsInvariant` says for each call which program counters of the caller go with which state of the error
file, the intermediate file, the directory entry and the reader's end, and where the writer can be given its end of the pipe. From
it follow `TemporariesGo` (`[]NothingLeftBehind`, under all faults) and `WriterIsInnocent` (`[]WriterFailsForAReason`), which rests on one
fact: as long as the reader has not closed its end, a write cannot fail, and it closes it only when it has read everything up to
EOI or when it gives up. `StoriesTold` adds the contents of files, in two parts. `StoryInv(c)` holds for every call, whoever else writes its
input: what the writer thread took is what the decoder was given, which is in the intermediate file, and that is in the output
once the merge has returned `EXIT_SUCCESS`. `SourceStory(c)` holds for a call whose input nobody else writes: what the writer thread took is what
the input holds until the output is written (`SourceInv`), its EXIF segment is what the merge reads and writes (`ExifInv`), and,
without faults, every report has its cause in the picture (`CauseInv`). A step of a call preserves its own story; a step of another call
preserves the first part because outputs are distinct, and the second because the input is left alone. Hence `SilenceMeansComplete`, `ExifKept`,
`ReportsHaveACause` and `PictureKeptInPlace`, for any number of calls, files and blocks. `ServiceKept` (`Spec =>
ServiceSpec`) is the refinement: every step of every call is a step of `ReencodeService` or none. Writing, merging and reporting
stutter; the writer thread's `ReadInput` is `Take`, unless the call has failed already; `Finally` is `Succeed`, `Overlook` or `Fail`. It needs
`PromiseInv` (`PromiseKept`): whatever is not absent shows a picture, and a call that ends otherwise than `ok` has no output file.
All these assume that `rename` and
`shortWrite` are not among the faults: those are the two failures after which the merge returns `EXIT_SUCCESS` all the same without a complete output, and
with `rename` the first of the theorems is false (`reencoder_rename`). The other 14, an `fopen` or `malloc` of the merge included, may happen in any
combination.
`NobodyIsStuck` is what the liveness of a call rests on, as a safety property: `CallerWaits` and `WriterWaits` name the places where one
of the two threads cannot go on, and a thread that is at one has a partner that is not, as long as the input can be read
(`unreadable` is not among the faults, see section 6). It needs to know who has which end of the pipe (`EndsInv`) and that the
writer thread cannot have failed before the native code has opened the pipe (`FedInv`). It holds of every size of picture and pipe; that
a thread that can go on does, and that the call gets to its end in finitely many steps, is left to TLC.

*`CompressMasterProofs`*. `PassesCounted` is the arithmetic invariant (pass number against scan number, by pass
type, with and without optimization), which needs `ScriptFits`: the number of scans libjpeg computes is the
number of entries its script fills (`L/jcparam.c:481-490` against `509-540`, two pieces of code that must agree). From it follow
`IndexInBounds` (`[]ScanWithinScript`) and `WritesScanSequence` (`Spec => SequenceSpec`, the refinement). `TablesInStep`
is the invariant for tables, flags and the decoder's copies; from it `OutputOfDueScan`, `OwnStatistics`,
`DecoderHasTables`. The subtle case is the DC refinement scan, whose statistics pass is skipped:
it must need no table, in `prepare_for_pass` and in the entropy coder alike (`SkippedScanNeedsNone`).
`ProgressionAccepted` (`[]DecoderAccepts`) rests on `BitsInv`: what a decoder has of a coefficient is `last_bitpos` of
`validate_script` at the current scan, so that the check made beforehand is the one the decoder makes.
`EverythingIsSent` (`[]EverythingSent`) has two halves: the script of `jpeg_simple_progression` has, for each component and coefficient, a scan that
sends its last bit (`ScriptFinishes`), and what has been sent to the last bit stays so, since a valid
script could only refine it below bit 0 (`FinalInv`).

*`NativeReencodeProofs`*. `TypeCorrect`, `NeverBadState`, `EveryErrorCaught`, `EverythingReleased`
and `ReleasedOnlyOnce`, whatever a jump does to the locals. The invariant relates the next call to the state of both objects; for what is released (`ReleaseInv`), that
everything open or alive is noted or was dropped by the jump, that everything noted is open or alive, and that no jump buffer remembers a field that has been
reset since. The last is why nothing is closed twice: `input_file` is set after both `setjmp`s, so that no jump can bring it back. `DataAlwaysThere`,
`ResultAlwaysTrue` and `ProgressiveKept` add what has been read, what is held, what is written and which option reached the file.

*`MergeExifProofs`*, for files of any length over any set of bytes. `LengthIsTrue`: the size is read as
two bytes, two is taken off, and the same two bytes come out again, whether or not the payload is short. `ExifAlone`: only an APP1
segment with a payload is merged. A short `fread` leaves the buffer as it was, but neither uninitialized bytes nor the first marker can stand in for the
second; the second marker can stand in for a length, and the theorem says for which files. `ExifInFront`: the merged file is byte for byte the first segment of
one file, as far as it goes, and the rest of the other. `NothingIsHeld`:
every return has closed and freed. `TypesKept`: a size of two bytes less two is at most 65533, the size of the buffer.

*`TranscodeProofs`*. `ReaderFollowsWriter` is the invariant of two sides. A file being written agrees with the picture it is written from
(`Written`, `Agrees`: what each segment says is true of the picture, and the library's own segment for its colour space comes before the scans); and a reader that is in the middle of such a file
has before it a suffix of what the writer writes and knows what the segments behind it say (`Suffix`, `Behind`; `FlagsKnown`, `FlagsSeen`
for the colour space, `SlotsKnown` for tables). `ColorSpaceKept` (`[]ColorsKept`) then is a matter of the guess: for each colour space the library's own
segments, with any copied ones behind them, lead back to it. `TablesKept` (`[]QuantKept`) rests on
`Writable`: `jpeg_copy_critical_parameters` refuses a component whose own table is not the one left in its slot, so that a table in the file
is that of every component that uses the slot.

*`RoundTripProofs`* goes on from there to what a file says as a whole, in four layers.
 - *Soundness.* `Sound(output, ...)` says of each two segments of a file, in their order, that the second may follow the first (`Follows`: no
   second SOF, no table behind the frame, one table per slot, several scans only in a progressive file, nothing after EOI), and `Complete` that everything is among them: a
   frame, tables, a scan of each component. Both are properties of any two positions, so that a segment appended is compared once with each before it.
   The invariant `SoundInv` (`WrittenFilesAreSound`) is that what is being written is sound and on its way to be complete, and that a reader of a
   complete file knows what lies behind it: the frame, that its components have what the scans behind it have brought, and that
   there was nothing to refuse. `CoefficientsAreKept` (`[]CoefficientsKeptByIds`) follows. That
   the scan script sends every component (`ImageScriptCovers`) is taken from `ScanScript`.
 - *Progression.* Of the script it is proved that it runs (`Leads`, `Runs`): each scan says of each of its coefficients the bit to which the scans before it have
   sent it, and an AC scan comes after one that sent the DC coefficient. `TracksInv` (`ScansCarryOn`) carries this into files: what a writer has sent so far
   is what its file says, and a reader's `coef_bits` are where the scans behind it stop (`Tracks`), if ids are distinct. Each scan therefore finds
   what it expects, and `OutputCanBeRead` (`[]OutputIsSound`) follows from this and `SoundInv`.
 - *Segments.* `Aliens(space, markers, n)` are those of the first `n` saved segments that the library does not write itself. While
   the writer copies, the foreign segments in the output are `Aliens` of what it has gone through; while the next reader
   reads, the foreign ones in its list are those that lie behind it (`MarkersInStep`). Hence `MarkersAreKept` (`[]MarkersKept`). The EXIF
   segment that is merged comes in front of them, which needs `PickedWithOneInFront`.
 - *The file as a function.* `BuiltInv` (`OutputIsDetermined`): at each point of the writer the output is an explicit function of colour space, saved segments,
   components, tables, contents and option, and at the end it is `File(...)` of them. `SecondTripChangesNothing`
   (`[]SecondTripIsIdentity`) applies it twice: the second reader has the same colour space (`ColorsKept`), the same foreign segments
   (`MarkersKept`), frame and tables (`QuantKept`) as the first, and the same data in each component: `DataInv` (`ScansCarryContents`) says that
   every scan of a file holds what its writer had of the component, and `CoefficientsKeptByIds` that it arrives there. So the same function gives the same file.
`TypeCorrect` is the theorem of the types of `Transcode`.

*`SelectionProofs`* has the lemmas about `Picked` and about sequences whose members may be anything. What `Picked` computes for every length is induction; the library's
induction theorems need an operator as argument, which the provers cannot instantiate, so the induction
is done with sets: `LeastElement` (from the well-foundedness of `<`) gives `Climb`: a set that has 0 and with each `n` also `n + 1` has
all of `Nat`.

*`VirtualArrayProofs`*. `TypeCorrect`, `ArrayIsSound` (types, `NoVirtualBug`, `NoHoles`, `StoreClosedOnce`) and
`RowsAreKept` (`Spec => RowsSurvive`, the refinement), for any height, access size and window. The invariant: a window that is not dirty
agrees with the store wherever rows are defined, every defined row is in the window or in the store, and the strip lies in the window.

Proved although no run lists them: `ReleasesOnce`, `NothingHeld`, `NoVirtualBug`, `StoreClosedOnce`.

Every invariant, action property and refinement that a passing run checks is proved. Checked by TLC only: liveness under fairness
(`CallReturns`, `WriterEnds`) and deadlock, which are beyond the prover (`NobodyIsStuck` is the part of them that is not). That the Huffman
tables `jpeg_gen_optimal_table` makes are right is not modelled yet.

## 5. Not modelled

The repository vendors two complete codecs, libjpeg-turbo and mozjpeg, of some 85 000 lines each with their command line tools,
Java and TurboJPEG interfaces, bitmap readers and assembly. A call of this library executes a small part of one of
them: a transcoder never touches samples. What is modelled is what `reencode()` executes and what has control logic, about 1%
of all lines; most of the rest is not reached from this library, or is arithmetic over data that has no states to check.

 - Sample arithmetic: DCT, colour conversion, resampling, quantization, SIMD. Not executed.
 - The bits of entropy-coded data (`L/jchuff.c`, `L/jcphuff.c`, `L/jdhuff.c`, `L/jdphuff.c`): a scan is delivered as a whole, and what it brings of a component is a value. Which
   tables it needs, has and finds is in `CompressMaster`; how tables are made from symbol counts is planned. Arithmetic coding is not used.
 - In `Transcode`: dimensions, sampling factors, precision, restart intervals, thumbnails and the payload of segments. A file that
   disagrees with itself in one of these is one the action for that segment may refuse.
 - In `VirtualArray`: pools of small and large objects, and how memory is divided between arrays (any number of `minheights` is tried).
 - mozjpeg: `Bindings.c` is shared, and so, but for wording, are the reader, the writer and the memory manager. Its own are a scan search and
   trellis quantization, which choose by coded size, and `jpeg_set_defaults`, which makes every file progressive.
 - Jpegli (`JpegliNative.java`): another `reencode`, in one thread and without a pipe, over a library outside the repository.
 - `createOutputPipeFile` and `useOutputPipeFile` have no caller. Facades, sample app and build files have no state of interest.
 - `CompressMaster` with optimization but without a script is not reached through `Bindings.c` (see `optimize()` in section 6),
   but through `cjpeg` and `jpegtran`, which share the code.
 - Loggers that throw, a `File.delete` that fails, an allocation in the Java code that fails (but for the writer thread's copy of the picture), and
   unique names that collide.
 - Verbose mode only matters for what is reported.

## 6. Where code and documentation disagree

 - **A call may hang** (`reencoder_unreadable`). The writer thread reads the input before it opens the pipe. If reading
   fails it tells the warning logger and ends, and the caller waits in `fopen` of the pipe for ever.
 - **A failed in-place call deletes the input** (`reencoder_in_place`), by `Reencoder.java:68-69`.
 - **A failed rename passes for success** (`reencoder_rename`) if an older output file is there. The same holds for the
   `EXIT_FAILURE` of `mergeExifAndJpeg` when an `fopen` of it fails (`Bindings.c:270`, `290`), which the Java declaration drops: the third end
   of `ReencodeService`.
 - **`optimize()` is lost for baseline files** (`native_optimize`): `Bindings.c:150` sets it, line 181 resets it.
 - **A CMYK picture whose fourth component has the id of the first** (`transcode_twin_ids`). `L/ChangeLog.md:1611` says such pictures
   are decoded correctly, and they are as long as all components come in one scan. The progressive re-encoding has a scan per
   component; there `get_sos` (`L/jdmarker.c:336`) takes the first component of that id for the fourth, and the picture is no longer the same.

Others, without a run:

 - **Some warnings throw**, against `README.md:85`: `Reencoder.java:57` treats a warning that speaks of corrupt data as an error.
 - **A merge without memory loses the EXIF segment** in silence: with `exif_data` or `image_data` NULL line 298 takes the branch of the rename.
 - **A pipe that stays**: when `Thread.start` throws (`FileIOUtils.java:95`), the `try` that deletes the pipe has not been entered yet.
 - **Truncated EXIF files**: a segment that is longer than its file is merged with bytes `malloc` returned (`Bindings.c:282-283`), up to 65503 of them for
   a file of the four marker bytes alone, whose length is then the marker itself.
 - **Locals across `longjmp`**: `defer_memory_to_release` is changed between `setjmp` and `longjmp` and is not volatile, which C leaves undefined.
   If a compiler keeps its fields
   in registers or folds them to what they were at `setjmp`, as it may once `release_memory` is inlined, a file or
   the compressor is not released; `AllReleased` says that this is the worst of it. A mock-up of the function built with gcc at -O0 to -O3 kept them in memory; the NDK's clang has not been tried.

## 7. Plan

Done, in this order: the two-thread call with its pipe, the native function, the merge, the pass loop; the marker reader and writer of a
transcoder, closed to a loop in which the reader is run on the writer's file; virtual arrays; proofs of the safety properties of
each, refinements included. Left:

 1. `HuffmanTable`: `jpeg_gen_optimal_table` (lengths limited to 16, no all-ones code) against the Kraft sum, and
    `jpeg_make_c_derived_tbl` / `jpeg_make_d_derived_tbl` as inverse of each other, over bounded frequency tables.
 2. The pools of the memory manager (`alloc_small`, `alloc_large`, `free_pool`): space accounting and lifetimes of blocks.
 3. `MozjpegScans`: the scan search of `native/mozjpeg-4.1.1/jcmaster.c`, and progressive by default.
 4. `JpegliNative`: the order of output stream, decoding and the error file.
 5. Proofs: that the abstract service, and with it the code, returns at most once per call and each picture was in its input file
    (a history of the input in `ReencodeService`); the refusals of the reader as an `iff`.
