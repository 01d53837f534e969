----------------------------- MODULE RpFileHdr -----------------------------
(***************************************************************************)
(* The two copies of the header of rp.dat: rp_write_file_hdr, and its      *)
(* recovery by rp_open_file and rp_read_and_verify_file_hdr.               *)
(*                                                                         *)
(* The process may be killed between any two calls: what it wrote is then  *)
(* in the page cache.  Power may fail: each header slot that the cache and *)
(* the disk differ in then keeps its old content, gets the new one, or is  *)
(* torn (its checksum is wrong), and any of the frames not yet synced may  *)
(* be on disk.  fdatasync is taken to succeed: the code does not look at   *)
(* what it returns.  The file may also fail to be read at a start; it is   *)
(* then unlinked, whatever is in it.  That a file was unlinked and another *)
(* created is taken to survive a power failure.  A frame is named by its   *)
(* number.                                                                 *)
(***************************************************************************)
EXTENDS Integers

CONSTANTS
  MaxFrames,   \* bound: frames recorded in one behaviour
  MaxCounter,  \* bound: value of update_counter
  MaxFiles     \* bound: files used in one behaviour

ASSUME HdrAssumption == MaxFrames \in Nat /\ MaxCounter \in Nat /\ MaxFiles \in Nat \ {0}

Slots == {0, 1}        \* RP_FILE_HDR_0_OFFSET and RP_FILE_HDR_1_OFFSET
NoSlot == 2
Numbers == 1 .. MaxFrames
NoHeader == -1

\* valid: magic, file_size and checksum are right; frame: the last frame
Header == [valid : BOOLEAN, counter : Nat, frame : Nat]
Bad == [valid |-> FALSE, counter |-> 0, frame |-> 0]

VARIABLES
  hdr,       \* rp_file_hdr: its update_counter and last frame
  lastSlot,  \* rp_file_hdr_last
  pc,        \* where the recording process is, or "down"
  cache,     \* the header slots as a read of the file sees them
  disk,      \* the header slots on the medium
  written,   \* frames recorded so far, lost ones included
  dirty,     \* frames in the cache only
  durable,   \* frames on the medium
  file,      \* history: files that could not be read were replaced file - 1 times
  acked      \* history: frame in the last header written to this file with success

vars == <<hdr, lastSlot, pc, cache, disk, written, dirty, durable, file, acked>>

\* Types; every header written names a frame or none.
TypeOK ==
  /\ hdr \in [counter : Nat, frame : 0 .. MaxFrames]
  /\ lastSlot \in Slots
  /\ pc \in {"down", "record", "create", "put", "flush", "exited"}
  /\ cache \in [Slots -> Header] /\ disk \in [Slots -> Header]
  /\ written \in 0 .. MaxFrames
  /\ dirty \in SUBSET Numbers /\ durable \in SUBSET Numbers
  /\ file \in 1 .. MaxFiles
  /\ acked \in {NoHeader} \cup (0 .. MaxFrames)

\* there is no file yet
Init ==
  /\ hdr = [counter |-> 0, frame |-> 0]
  /\ lastSlot = 0
  /\ pc = "down"
  /\ cache = [s \in Slots |-> Bad] /\ disk = [s \in Slots |-> Bad]
  /\ written = 0
  /\ dirty = {} /\ durable = {}
  /\ file = 1 /\ acked = NoHeader

-----------------------------------------------------------------------------
\* mutant: the copy with the lower update_counter is taken
BugChosen(h) ==
  IF h[0].valid /\ h[1].valid THEN IF h[0].counter <= h[1].counter THEN 0 ELSE 1
  ELSE IF h[0].valid THEN 0 ELSE IF h[1].valid THEN 1 ELSE NoSlot

\* the copy that rp_read_and_verify_file_hdr takes
Chosen(h) ==
  IF h[0].valid /\ h[1].valid THEN IF h[0].counter >= h[1].counter THEN 0 ELSE 1
  ELSE IF h[0].valid THEN 0 ELSE IF h[1].valid THEN 1 ELSE NoSlot

\* rp_open_file: an existing file is used
Open ==
  /\ pc = "down" /\ Chosen(cache) # NoSlot
  /\ LET s == Chosen(cache)
     IN  /\ hdr' = [counter |-> cache[s].counter, frame |-> cache[s].frame]
         /\ lastSlot' = s
  /\ pc' = "record"
  /\ UNCHANGED <<cache, disk, written, dirty, durable, file, acked>>

\* the file, if there is one, is unlinked and an empty one is made; that may
\* fail for want of space
Replace ==
  /\ hdr' = [counter |-> 0, frame |-> 0]
  /\ lastSlot' = 0
  /\ pc' \in {"create", "exited"}
  /\ cache' = [s \in Slots |-> Bad] /\ disk' = [s \in Slots |-> Bad]
  /\ dirty' = {} /\ durable' = {}
  /\ UNCHANGED written

\* rp_open_file: there is no file, or neither of its headers is valid
Create ==
  /\ pc = "down" /\ Chosen(cache) = NoSlot
  /\ Replace
  /\ UNCHANGED <<file, acked>>

\* rp_open_file: there is a valid header, but fstat or one of the two preads
\* fails, or the size of the file is not accepted: the recording is given up
ReadFails ==
  /\ pc = "down" /\ Chosen(cache) # NoSlot /\ file < MaxFiles
  /\ Replace
  /\ file' = file + 1 /\ acked' = NoHeader

\* rp_write_frame
RecordFrame ==
  /\ pc = "record" /\ written < MaxFrames
  /\ written' = written + 1
  /\ hdr' = [hdr EXCEPT !.frame = written + 1]
  /\ dirty' = dirty \cup {written + 1}
  /\ UNCHANGED <<lastSlot, pc, cache, disk, durable, file, acked>>

\* a write of a frame fails: the recording thread returns
RecordFails ==
  /\ pc = "record"
  /\ pc' = "exited"
  /\ UNCHANGED <<hdr, lastSlot, cache, disk, written, dirty, durable, file, acked>>

\* mutant: the data is not synced before the header is written
BugSyncData ==
  /\ pc \in {"record", "create"} /\ hdr.counter < MaxCounter
  /\ hdr' = [hdr EXCEPT !.counter = @ + 1]
  /\ pc' = "put"
  /\ UNCHANGED <<lastSlot, cache, disk, written, dirty, durable, file, acked>>

\* rp_write_file_hdr: update_counter is incremented, then fdatasync
SyncData ==
  /\ pc \in {"record", "create"} /\ hdr.counter < MaxCounter
  /\ hdr' = [hdr EXCEPT !.counter = @ + 1]
  /\ disk' = cache
  /\ durable' = durable \cup dirty /\ dirty' = {}
  /\ pc' = "put"
  /\ UNCHANGED <<lastSlot, cache, written, file, acked>>

\* the content of rp_file_hdr
NewHeader == [valid |-> TRUE, counter |-> hdr.counter, frame |-> hdr.frame]

\* mutant: the copy that was written last is overwritten
BugTarget == lastSlot

\* the copy that is not the last one written
Target == IF lastSlot = 0 THEN 1 ELSE 0

\* pwrite of the header
PutHeader ==
  /\ pc = "put"
  /\ cache' = [cache EXCEPT ![Target] = NewHeader]
  /\ pc' = "flush"
  /\ UNCHANGED <<hdr, lastSlot, disk, written, dirty, durable, file, acked>>

\* the pwrite fails or is short: the recording thread returns
PutFails ==
  /\ pc = "put"
  /\ \E h \in {cache[Target], Bad} : cache' = [cache EXCEPT ![Target] = h]
  /\ pc' = "exited"
  /\ UNCHANGED <<hdr, lastSlot, disk, written, dirty, durable, file, acked>>

\* fdatasync after the header; rp_file_hdr_last flips; success is returned
FlushHeader ==
  /\ pc = "flush"
  /\ disk' = cache
  /\ durable' = durable \cup dirty /\ dirty' = {}
  /\ lastSlot' = Target
  /\ acked' = hdr.frame
  /\ pc' = "record"
  /\ UNCHANGED <<hdr, cache, written, file>>

-----------------------------------------------------------------------------
(* Crashes. *)

Kill ==
  /\ pc # "down" /\ pc' = "down"
  /\ UNCHANGED <<hdr, lastSlot, cache, disk, written, dirty, durable, file, acked>>

\* what a slot may hold after power failed
Survives(s) == IF cache[s] = disk[s] THEN {disk[s]} ELSE {cache[s], disk[s], Bad}

PowerLoss ==
  /\ pc' = "down"
  /\ \E h0 \in Survives(0), h1 \in Survives(1) :
       disk' = [s \in Slots |-> IF s = 0 THEN h0 ELSE h1]
  /\ cache' = disk'
  /\ \E D \in SUBSET dirty : durable' = durable \cup D
  /\ dirty' = {}
  /\ UNCHANGED <<hdr, lastSlot, written, file, acked>>

Next ==
  \/ Open \/ Create \/ ReadFails \/ RecordFrame \/ RecordFails
  \/ SyncData \/ PutHeader \/ PutFails \/ FlushHeader
  \/ Kill \/ PowerLoss

Spec == Init /\ [][Next]_vars

-----------------------------------------------------------------------------
(* Properties. *)

\* The frame named by the header that a restart after a power failure reads.
Stored == IF Chosen(disk) = NoSlot THEN NoHeader ELSE disk[Chosen(disk)].frame

Store == INSTANCE HeaderStore WITH stored <- Stored, acked <- acked, file <- file

\* The two copies behave as one header that is replaced atomically: as long as
\* the file can be read it never goes back to an earlier frame, torn writes and
\* crashes included.
ImplementsHeaderStore == Store!Spec

\* Once rp_write_file_hdr has returned success the recording up to that frame
\* survives every later crash: it is there for as long as this file is used,
\* that is until a start fails to read the file.
AckedSurvives == acked <= Stored

\* The frame a recovered header names had reached the disk before the header.
NamedFrameDurable == Stored \in {NoHeader, 0} \cup durable

=============================================================================
