---------------------------- MODULE RpGeometry ----------------------------
(***************************************************************************)
(* Layout of the frames of rp.dat, the fixed-size ring file that           *)
(* wc_webcam.c records to.  Sizes and offsets are in abstract units; the   *)
(* code's values are in parentheses.                                       *)
(***************************************************************************)
EXTENDS Integers

CONSTANTS
  FileSize,   \* rp_file_size
  MinOff,     \* RP_MIN_FRAME_FILE_OFFSET (1024): the two headers are before
  TailSlack,  \* rp_file_size - RP_MAX_FRAME_FILE_OFFSET (1000000)
  MinFree,    \* RP_MIN_FILE_FREE_SIZE (2000000)
  Align,      \* alignment of a frame (32)
  MaxLen,     \* longest frame with its header; the code does not check it
  MaxWrites   \* bound: frames written in one behaviour

(* A frame fits in the tail slack, and the free space that is kept exceeds *)
(* what one write can cover, the slack skipped at a wrap included.         *)
ASSUME GeometryAssumption ==
  /\ FileSize \in Nat /\ MinOff \in Nat /\ TailSlack \in Nat
  /\ MinFree \in Nat /\ Align \in Nat /\ MaxLen \in Nat
  /\ MinOff > 0 /\ Align > 0 /\ MaxLen > 0
  /\ MinOff % Align = 0
  /\ MaxLen <= TailSlack
  /\ MinOff + MaxLen + Align + TailSlack <= MinFree
  /\ MinFree + MaxLen <= FileSize

ASSUME WritesAssumption == MaxWrites \in Nat

Lengths == 1 .. MaxLen
Numbers == 1 .. MaxWrites

MaxOff == FileSize - TailSlack

RoundUp(v) == v + ((-v) % Align)

\* where rp_write_frame puts the frame after the one at lastOff (0: none)
NextOffset(lastOff, lastLen) ==
  IF lastOff = 0 THEN MinOff
  ELSE LET o == RoundUp(lastOff + lastLen)
       IN  IF o >= MaxOff THEN MinOff ELSE o

\* RP_FILE_LENGTH: bytes from a frame forward, round the file, to the end of
\* the last frame
FileLength(endOff, frmOff) ==
  (IF endOff <= frmOff THEN endOff + FileSize ELSE endOff) - frmOff

\* mutant: the margin does not allow for the slack skipped at a wrap
BugRoomy(endOff, frmOff) == FileSize - FileLength(endOff, frmOff) >= MaxLen + Align

\* the frame is far enough ahead of the place that is written next
Roomy(endOff, frmOff) == FileSize - FileLength(endOff, frmOff) >= MinFree

\* two stretches of the file share a byte
Overlap(off1, len1, off2, len2) == off1 < off2 + len2 /\ off2 < off1 + len1

=============================================================================
