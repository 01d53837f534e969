------------------------------- MODULE RpRing -------------------------------
(***************************************************************************)
(* rp_write_frame and its table of contents rp_toc, with a playback thread *)
(* that reads a recorded frame at the same time.                           *)
(*                                                                         *)
(* Nothing locks rp_toc or the file.  The writing thread is split at its   *)
(* stores to the file, rp_file_hdr, rp_toc and rp_toc_idx_oldest; the      *)
(* reader at its look up in rp_toc and at its two preads.  The file starts *)
(* empty.  The writer's and the reader's view of one frame is its number,  *)
(* which stands for its real_time_us (see RpFile).                         *)
(***************************************************************************)
EXTENDS RpGeometry

CONSTANTS
  FrameLens,   \* lengths the camera's frames may have
  MaxToc,      \* RP_MAX_TOC (10000000)
  TocGap,      \* entries kept free after the newest (100)
  ReadLag      \* writes during a read that the free space still covers

ASSUME RingAssumption ==
  /\ FrameLens \subseteq Lengths
  /\ TocGap \in Nat /\ MaxToc \in Nat /\ ReadLag \in Nat
  /\ TocGap > 1 /\ MaxToc > TocGap + 1
  /\ (ReadLag + 1) * (MaxLen + Align) + TailSlack + MinOff <= MinFree

Indices == 0 .. MaxToc - 1
Empty == -1

VARIABLES
  n, off, len,   \* frames written to the file by pwritev, as in RpFile
  last,          \* the frame rp_file_hdr names as the last one (0: none)
  toc,           \* rp_toc
  next, oldest,  \* rp_toc_idx_next, rp_toc_idx_oldest
  wr,            \* pc of the writer
  rd             \* the reader: pc, toc entry found, header read, writes since

file == <<n, off, len>>
vars == <<n, off, len, last, toc, next, oldest, wr, rd>>

Reader == [pc : {"idle", "hdr", "data", "served"},
           time : {0} \cup Numbers, at : Nat, got : {0} \cup Numbers,
           lag : 0 .. ReadLag + 1, whole : BOOLEAN]

IdleReader ==
  [pc |-> "idle", time |-> 0, at |-> 0, got |-> 0, lag |-> 0, whole |-> TRUE]

\* Types; the indices of the table stay in it.
TypeOK ==
  /\ n \in 0 .. MaxWrites
  /\ off \in [Numbers -> 0 .. MaxOff - 1] /\ len \in [Numbers -> Nat]
  /\ last \in 0 .. n
  /\ toc \in [Indices -> [time : {0} \cup Numbers, div : Nat]]
  /\ next \in Indices /\ oldest \in {Empty} \cup Indices
  /\ wr \in {"idle", "hdr", "toc", "oldest", "exited"}
  /\ rd \in Reader

Init ==
  /\ n = 0
  /\ off = [i \in Numbers |-> 0] /\ len = [i \in Numbers |-> 0]
  /\ last = 0
  /\ toc = [i \in Indices |-> [time |-> 0, div |-> 0]]
  /\ next = 0 /\ oldest = Empty
  /\ wr = "idle"
  /\ rd = IdleReader

-----------------------------------------------------------------------------
(* The writer: rp_write_frame. *)

LastEnd == off[last] + len[last]

TocRoomy(i) == Roomy(LastEnd, toc[i].div * Align)

\* the frame hdr and image reach the file; a reader under way is counted
PutFrame(l) ==
  /\ n' = n + 1
  /\ off' = [off EXCEPT ![n + 1] =
               IF last = 0 THEN MinOff ELSE NextOffset(off[last], len[last])]
  /\ len' = [len EXCEPT ![n + 1] = l]
  /\ rd' = IF rd.pc \in {"hdr", "data"} /\ rd.lag <= ReadLag
           THEN [rd EXCEPT !.lag = @ + 1] ELSE rd
  /\ UNCHANGED <<last, toc, next, oldest>>

WritePwritev(l) ==
  /\ wr = "idle" /\ n < MaxWrites
  /\ PutFrame(l)
  /\ wr' = "hdr"

\* pwritev fails part way: the thread exits, the bytes are lost all the same
WriteFail(l) ==
  /\ wr = "idle" /\ n < MaxWrites
  /\ PutFrame(l)
  /\ wr' = "exited"

WriteHdr ==
  /\ wr = "hdr"
  /\ last' = n
  /\ wr' = "toc"
  /\ UNCHANGED <<n, off, len, toc, next, oldest, rd>>

WriteToc ==
  /\ wr = "toc"
  /\ toc' = [toc EXCEPT ![next] = [time |-> n, div |-> off[n] \div Align]]
  /\ next' = (next + 1) % MaxToc
  /\ wr' = "oldest"
  /\ UNCHANGED <<n, off, len, last, oldest, rd>>

\* mutant: rp_toc_idx_next is taken for the entry just added
BugTiLast == next

\* ti_last: the index of the entry just added
TiLast == (next + MaxToc - 1) % MaxToc

\* mutant: the oldest entry is moved past the gap when the table is not full
BugAlwaysGap == (TiLast + TocGap) % MaxToc

\* the first entry the loop over ti_oldest looks at
ScanStart ==
  LET o == IF oldest < TiLast THEN oldest + MaxToc ELSE oldest
  IN  (IF o - TiLast < TocGap THEN TiLast + TocGap ELSE o) % MaxToc

\* entries the loop passes over, from ScanStart on, before a roomy one
Passed ==
  CHOOSE k \in Indices :
    /\ TocRoomy((ScanStart + k) % MaxToc)
    /\ \A j \in 0 .. k - 1 : ~TocRoomy((ScanStart + j) % MaxToc)

\* mutant: the entry is tested and dropped in the wrong order
BugScanLate == (ScanStart + (IF Passed = 0 THEN 0 ELSE Passed - 1)) % MaxToc

\* mutant: one more entry than needed is dropped
BugScanEarly ==
  IF ScanStart = TiLast THEN ScanStart ELSE (ScanStart + Passed + 1) % MaxToc

\* where that loop ends: the first entry from ScanStart on that is roomy
ScanEnd == (ScanStart + Passed) % MaxToc

WriteOldest ==
  /\ wr = "oldest"
  /\ oldest' = IF oldest = Empty THEN TiLast ELSE ScanEnd
  /\ wr' = "idle"
  /\ UNCHANGED <<n, off, len, last, toc, next, rd>>

-----------------------------------------------------------------------------
(* The reader: rp_read_frame_by_real_time_us after its search, which ends  *)
(* on some entry of the table (see TocSearch).                             *)

\* the indices from rp_toc_idx_oldest to the one before rp_toc_idx_next
Window ==
  IF oldest = Empty THEN {}
  ELSE IF oldest < next THEN oldest .. next - 1
  ELSE Indices \ (next .. oldest - 1)

\* [o, o+l) of the file still holds what the write of frame i put there
Intact(i, o, l) == \A j \in i + 1 .. n : ~Overlap(o, l, off[j], len[j])

\* found_toc_entry is copied from the table
ReadToc(i) ==
  /\ rd.pc = "idle"
  /\ rd' = [IdleReader EXCEPT !.pc = "hdr", !.time = toc[i].time,
                              !.at = toc[i].div * Align]
  /\ UNCHANGED <<n, off, len, last, toc, next, oldest, wr>>

\* the header at the offset is read and its magic and checksum are right
ReadHdr ==
  /\ rd.pc = "hdr"
  /\ rd' = IF \E i \in 1 .. n : off[i] = rd.at /\ Intact(i, rd.at, 1)
           THEN LET i == CHOOSE k \in 1 .. n : off[k] = rd.at /\ Intact(k, rd.at, 1)
                IN  [rd EXCEPT !.pc = "data", !.got = i]
           ELSE IdleReader
  /\ UNCHANGED <<n, off, len, last, toc, next, oldest, wr>>

\* the image is read, then the time of the header is verified
ReadData ==
  /\ rd.pc = "data"
  /\ rd' = IF rd.got = rd.time
           THEN [rd EXCEPT !.pc = "served",
                           !.whole = Intact(rd.got, rd.at, len[rd.got])]
           ELSE IdleReader
  /\ UNCHANGED <<n, off, len, last, toc, next, oldest, wr>>

\* the frame has been sent to the viewer
ReadDone ==
  /\ rd.pc = "served"
  /\ rd' = IdleReader
  /\ UNCHANGED <<n, off, len, last, toc, next, oldest, wr>>

-----------------------------------------------------------------------------
WriterNext ==
  \/ \E l \in FrameLens : WritePwritev(l) \/ WriteFail(l)
  \/ WriteHdr \/ WriteToc \/ WriteOldest

ReaderNext ==
  \/ \E i \in Window : ReadToc(i)
  \/ ReadHdr \/ ReadData \/ ReadDone

Next == WriterNext \/ ReaderNext

Spec == Init /\ [][Next]_vars

-----------------------------------------------------------------------------
(* Properties. *)

\* The number of the oldest frame in the table.
First == IF oldest = Empty THEN 1 ELSE toc[oldest].time

File == INSTANCE RpFile WITH first <- First

\* The table with its wrapping indices is the suffix of the written frames
\* that RpFile describes, and writes happen only when RpFile allows them.
ImplementsRpFile == File!Spec

\* A frame that the table lists has not been overwritten, not even in part,
\* by a later one.
NotOverwritten == File!NotOverwritten

\* Every frame lies between the headers and the end of the file, at an offset
\* that rp_read_frame_by_file_offset accepts: the file never grows.
InFile == File!InFile

\* From rp_toc_idx_oldest to the entry before rp_toc_idx_next the table lists
\* consecutive frames, up to the newest, each with its place in the file: the
\* times increase, as the search of the reader needs.
WindowListsFrames ==
  /\ \A i \in Window :
       LET k == (i + MaxToc - oldest) % MaxToc
       IN  toc[i].time = First + k /\ toc[i].div * Align = off[First + k]
  /\ wr = "idle" /\ n > 0 => n = last /\ TiLast \in Window /\ toc[TiLast].time = n

\* The loop that moves rp_toc_idx_oldest only looks at entries in use and
\* ends: the asserts in RP_FILE_LENGTH cannot fail.
ScanStaysInWindow ==
  wr = "oldest" /\ oldest # Empty => ScanStart \in Window /\ TocRoomy(TiLast)

\* A frame leaves the table only when the file or the table is about to come
\* round to it: recorded history is not lost early.
HistoryKept ==
  [][\A i \in Numbers : First <= i /\ i < First' =>
       ~Roomy(LastEnd, off[i]) \/ n - i > MaxToc - TocGap]_vars

\* A frame given to a viewer is whole if no more than ReadLag frames were
\* written while it was being read.
ServedFrameWhole == rd.pc = "served" /\ rd.lag <= ReadLag => rd.whole

=============================================================================
