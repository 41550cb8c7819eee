--------------------------- MODULE ReencodeService ---------------------------
(***************************************************************************)
(* What a caller of reencode may rely on: the call reads one picture,      *)
(* then either returns normally with that picture, complete, in the output *)
(* file, or fails with no output file; once it has returned nothing        *)
(* changes any more.                                                       *)
(*                                                                         *)
(* There is a third end, which looks like the first from outside: the last *)
(* step, mergeExifAndJpeg, returned EXIT_FAILURE, and nobody asked.  Then  *)
(* the output file is whatever it was before.                              *)
(***************************************************************************)
CONSTANTS
    Calls,      \* the calls
    Images,     \* the pictures
    NoImage     \* none

VARIABLES
    status,     \* running, ok, failed or unmerged
    picture,    \* the picture the call has read
    output      \* the picture in its output file once it has returned

vars == <<status, picture, output>>

Init ==
    /\ status = [c \in Calls |-> "running"]
    /\ picture = [c \in Calls |-> NoImage]
    /\ output = [c \in Calls |-> NoImage]

Take(c) ==
    /\ status[c] = "running"
    /\ picture[c] = NoImage
    /\ \E i \in Images : picture' = [picture EXCEPT ![c] = i]
    /\ UNCHANGED <<status, output>>

Succeed(c) ==
    /\ status[c] = "running"
    /\ picture[c] # NoImage
    /\ status' = [status EXCEPT ![c] = "ok"]
    /\ output' = [output EXCEPT ![c] = picture[c]]
    /\ UNCHANGED picture

Overlook(c) ==
    /\ status[c] = "running"
    /\ picture[c] # NoImage
    /\ status' = [status EXCEPT ![c] = "unmerged"]
    /\ \E i \in Images \cup {NoImage} : output' = [output EXCEPT ![c] = i]
    /\ UNCHANGED picture

Fail(c) ==
    /\ status[c] = "running"
    /\ status' = [status EXCEPT ![c] = "failed"]
    /\ picture' = [picture EXCEPT ![c] = NoImage]
    /\ UNCHANGED output

Next == \E c \in Calls : Take(c) \/ Succeed(c) \/ Overlook(c) \/ Fail(c)

Spec == Init /\ [][Next]_vars
=============================================================================
