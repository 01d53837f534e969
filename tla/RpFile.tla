------------------------------- MODULE RpFile -------------------------------
(***************************************************************************)
(* What the ring file of recorded frames promises: frames are written one  *)
(* after the other round the file, a suffix first .. n of them can be      *)
(* looked up, and a frame that can be looked up is still whole.            *)
(*                                                                         *)
(* This is the abstract specification that RpRing implements with a table  *)
(* of contents of limited size.  A frame is named by its number, which     *)
(* stands for its time: rp_write_frame drops a frame that is not later     *)
(* than the last one.                                                      *)
(***************************************************************************)
EXTENDS RpGeometry

VARIABLES
  n,      \* frames written so far
  off,    \* file offset of each frame
  len,    \* length of each frame, its header included
  first   \* the oldest frame that can be looked up

vars == <<n, off, len, first>>

\* the last frame's end
EndOff == off[n] + len[n]

\* Types; a frame starts before RP_MAX_FRAME_FILE_OFFSET.
TypeOK ==
  /\ n \in 0 .. MaxWrites
  /\ off \in [Numbers -> 0 .. MaxOff - 1]
  /\ len \in [Numbers -> Nat]
  /\ first \in 1 .. MaxWrites + 1

Init ==
  /\ n = 0
  /\ off = [i \in Numbers |-> 0]
  /\ len = [i \in Numbers |-> 0]
  /\ first = 1

\* A frame is written only when each frame that can be looked up is far
\* enough from the end of the last one.
Write(l) ==
  /\ n < MaxWrites
  /\ \A i \in first .. n : Roomy(EndOff, off[i])
  /\ n' = n + 1
  /\ off' = [off EXCEPT ![n + 1] =
               IF n = 0 THEN MinOff ELSE NextOffset(off[n], len[n])]
  /\ len' = [len EXCEPT ![n + 1] = l]
  /\ UNCHANGED first

\* Frames before f can no longer be looked up.
Forget(f) ==
  /\ first' = f
  /\ UNCHANGED <<n, off, len>>

Next ==
  \/ \E l \in Lengths : Write(l)
  \/ \E f \in first + 1 .. n : Forget(f)

Spec == Init /\ [][Next]_vars

-----------------------------------------------------------------------------
(* Properties. *)

\* A frame that can be looked up has not been overwritten, not even in part,
\* by a later frame.
NotOverwritten ==
  \A i \in first .. n : \A j \in i + 1 .. n :
    ~Overlap(off[i], len[i], off[j], len[j])

\* Every frame lies between the headers and the end of the file, at an offset
\* that rp_read_frame_by_file_offset accepts: the file never grows.
InFile ==
  \A i \in 1 .. n :
    MinOff <= off[i] /\ off[i] < MaxOff /\ off[i] + len[i] <= FileSize

=============================================================================
