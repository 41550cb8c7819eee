-------------------------------- MODULE Fifo --------------------------------
(***************************************************************************)
(* The named pipes the reencoder feeds the native code through: one FIFO   *)
(* per call, made by mkfifo, opened once for writing by the Java writer    *)
(* thread and once for reading by the native code, and then unlinked.  The *)
(* kernel is not part of the repository; this module is what               *)
(* FileIOUtils.java and Bindings.c rely on.                                *)
(***************************************************************************)
EXTENDS Naturals

CONSTANTS
    Pipes,       \* the named pipes
    Capacity     \* how many blocks the kernel buffers in one pipe

VARIABLE
    fifo         \* for each pipe, its directory entry, its two ends, its buffer

(* An end is none before open is called, waiting while open blocks, then   *)
(* open, then closed.                                                      *)
End == {"none", "waiting", "open", "closed"}

FifoTypeOK ==
    fifo \in [Pipes -> [linked : BOOLEAN,
                        reader : End,
                        writer : End,
                        buffer : 0 .. Capacity]]

FifoInit ==
    fifo = [p \in Pipes |-> [linked |-> FALSE,
                             reader |-> "none",
                             writer |-> "none",
                             buffer |-> 0]]

-----------------------------------------------------------------------------
(* mkfifo and unlink.                                                      *)

MakeFifo(p) ==
    /\ ~fifo[p].linked
    /\ fifo' = [fifo EXCEPT ![p].linked = TRUE]

Unlink(p) == fifo' = [fifo EXCEPT ![p].linked = FALSE]

-----------------------------------------------------------------------------
(* open blocks until the other end is being opened too.  An end that came  *)
(* first is released even if the other one has been closed again since.    *)

CallOpenToRead(p) ==
    /\ fifo[p].linked
    /\ fifo' = [fifo EXCEPT ![p].reader = "waiting"]

OpenedToRead(p) ==
    /\ fifo[p].reader = "waiting"
    /\ fifo[p].writer # "none"
    /\ fifo' = [fifo EXCEPT ![p].reader = "open"]

CallOpenToWrite(p) ==
    /\ fifo[p].linked
    /\ fifo' = [fifo EXCEPT ![p].writer = "waiting"]

OpenedToWrite(p) ==
    /\ fifo[p].writer = "waiting"
    /\ fifo[p].reader # "none"
    /\ fifo' = [fifo EXCEPT ![p].writer = "open"]

-----------------------------------------------------------------------------
(* write blocks on a full buffer and fails with EPIPE once the reader has  *)
(* closed; read blocks on an empty buffer and returns end-of-file once the *)
(* writer has closed.                                                      *)

BrokenPipe(p) == fifo[p].reader = "closed"

WriteBlock(p) ==
    /\ ~BrokenPipe(p)
    /\ fifo[p].buffer < Capacity
    /\ fifo' = [fifo EXCEPT ![p].buffer = @ + 1]

ReadBlock(p) ==
    /\ fifo[p].buffer > 0
    /\ fifo' = [fifo EXCEPT ![p].buffer = @ - 1]

EndOfFile(p) == fifo[p].buffer = 0 /\ fifo[p].writer = "closed"

CloseReader(p) == fifo' = [fifo EXCEPT ![p].reader = "closed"]

CloseWriter(p) == fifo' = [fifo EXCEPT ![p].writer = "closed"]
=============================================================================
