---------------------------- MODULE HeaderStore ----------------------------
(***************************************************************************)
(* What the header of rp.dat promises across crashes: it names the last    *)
(* frame of the recording, it never goes back to an earlier frame, and     *)
(* once a header write has returned the recording is not lost, unless the  *)
(* file it is in is given up as a whole.                                   *)
(***************************************************************************)
EXTENDS Integers

CONSTANT MaxFrames    \* bound: frames recorded in one behaviour

NoHeader == -1
Values == {NoHeader} \cup (0 .. MaxFrames)

VARIABLES
  stored,   \* the last frame named by the header that would be read back
  acked,    \* the one named by the last header write that returned success
  file      \* the file in use, counted from 1

vars == <<stored, acked, file>>

Init == stored = NoHeader /\ acked = NoHeader /\ file = 1

Store(v) == v >= stored /\ stored' = v /\ UNCHANGED <<acked, file>>

\* a write returns: what it wrote is stored
Ack == acked' = stored /\ UNCHANGED <<stored, file>>

StoreAck(v) == v >= stored /\ stored' = v /\ acked' = v /\ UNCHANGED file

\* the file is given up, and an empty one used
NewFile == stored' = NoHeader /\ acked' = NoHeader /\ file' = file + 1

Next == Ack \/ NewFile \/ \E v \in Values : Store(v) \/ StoreAck(v)

Spec == Init /\ [][Next]_vars

=============================================================================
