------------------------------ MODULE RpRecover ------------------------------
(***************************************************************************)
(* rp_toc_init_thread: after a restart the table of contents is filled     *)
(* from its end backwards by walking from frame to frame of rp.dat, while  *)
(* the recorder already adds frames to the front of the same table         *)
(* (RpRing).  Both threads store rp_toc_idx_oldest, and no lock is used.   *)
(*                                                                         *)
(* The process may be killed at any time.  The file then keeps what was    *)
(* written, and the header names the last frame of the time it was written *)
(* (RpFileHdr shows that it behaves as one value), so that frames written  *)
(* later are lost to the next process, but have overwritten older ones.    *)
(* The gap frame that is recorded for the time after the header's last     *)
(* frame is like any other here.                                           *)
(***************************************************************************)
EXTENDS RpRing, FiniteSets

CONSTANTS
  MaxUnsaved,   \* frames recorded in the 10 seconds between two headers
  MaxStarts,    \* bound: starts of the process
  MaxShort      \* bound: frames of another length than MaxLen

(* The frames of 10 seconds do not come round the file (of at least        *)
(* RP_MIN_FILE_SIZE), so that the frame a header names is still there.     *)
(* Those written while an entry is made use up neither the free space nor  *)
(* the gap in the table.                                                   *)
ASSUME UnsavedAssumption ==
  /\ 0 < ReadLag /\ ReadLag < TocGap
  /\ MaxUnsaved \in Nat /\ MaxStarts \in Nat \ {0} /\ MaxShort \in Nat
  /\ MaxUnsaved * (MaxLen + Align) + TailSlack + MinOff + MaxLen <= FileSize

VARIABLES
  prior,   \* prior_frame_file_offset of each frame, as a number (0: none)
  saved,   \* last frame named by the header in the file
  unsaved, \* frames recorded by this process since it was read or written
  ti,      \* ti_oldest, the value about to be stored
  ini,     \* rp_toc_init_thread
  starts,  \* starts of the process so far
  raced    \* history: its last store came between the recorder's read and store

recoverVars == <<vars, prior, saved, unsaved, ti, ini, starts, raced>>
ringVars == <<n, off, len, last, next, rd>>

InitThread == [pc : {"read", "store", "done"}, at : Nat, time : 1 .. MaxWrites + 1,
               idx : -1 .. MaxToc - 1, got : {0} \cup Numbers, lag : 0 .. ReadLag]

\* Types; the walk stays in the table and meets no more than ReadLag writes.
RecoverTypeOK ==
  /\ n \in 0 .. MaxWrites /\ last \in 0 .. n /\ saved \in 0 .. n
  /\ off \in [Numbers -> 0 .. MaxOff - 1] /\ len \in [Numbers -> Nat]
  /\ toc \in [Indices -> [time : {0} \cup Numbers, div : Nat]]
  /\ next \in Indices /\ oldest \in {Empty} \cup Indices /\ ti \in {Empty} \cup Indices
  /\ wr \in {"idle", "hdr", "toc", "oldest", "store", "exited"}
  /\ prior \in [Numbers -> {0} \cup Numbers] /\ unsaved \in 0 .. MaxUnsaved
  /\ ini \in InitThread /\ starts \in 0 .. MaxStarts /\ raced \in BOOLEAN

OffsetOf(i) == IF i = 0 THEN 0 ELSE off[i]

\* the thread as rp_open_file starts it, at the last frame of the header
StartedAt(i) ==
  [pc |-> "read", at |-> OffsetOf(i), time |-> MaxWrites + 1, idx |-> MaxToc - 1,
   got |-> 0, lag |-> 0]

RecoverInit ==
  /\ Init
  /\ prior = [i \in Numbers |-> 0]
  /\ saved = 0 /\ unsaved = 0 /\ ti = Empty
  /\ ini = [StartedAt(last) EXCEPT !.at = 0]
  /\ starts = 1 /\ raced = FALSE

-----------------------------------------------------------------------------
(* The recorder.  The update of rp_toc_idx_oldest is a read and a store.   *)

\* The other thread is not held up for long: ReadLag bounds the frames written
\* between its check of the free space and its store; it has read its first
\* frame 10 seconds after the start, and its walk is over before the recorder
\* comes to the end of the table.
Counted ==
  /\ ini.pc = "store" => ini.lag < ReadLag
  /\ ini.pc = "read" /\ ini.idx = MaxToc - 1 => next < MaxUnsaved
  /\ ini.pc # "done" => next < MaxToc - 1
  /\ ini' = IF ini.pc = "store" THEN [ini EXCEPT !.lag = @ + 1] ELSE ini

RecordFrame(l) ==
  /\ l = MaxLen \/ Cardinality({i \in 1 .. n : len[i] # MaxLen}) < MaxShort
  /\ unsaved < MaxUnsaved /\ unsaved' = unsaved + 1
  /\ WritePwritev(l) \/ WriteFail(l)
  /\ prior' = [prior EXCEPT ![n + 1] = last]
  /\ Counted
  /\ UNCHANGED <<saved, ti, starts, raced>>

RecordEntry == (WriteHdr \/ WriteToc) /\ UNCHANGED <<prior, saved, unsaved, ti, ini, starts, raced>>

ReadOldest ==
  /\ wr = "oldest" /\ wr' = "store"
  /\ ti' = IF oldest = Empty THEN TiLast ELSE ScanEnd
  /\ raced' = FALSE
  /\ UNCHANGED <<ringVars, toc, oldest, prior, saved, unsaved, ini, starts>>

StoreOldest ==
  /\ wr = "store" /\ wr' = "idle"
  /\ oldest' = ti
  /\ UNCHANGED <<ringVars, toc, prior, saved, unsaved, ti, ini, starts, raced>>

\* rp_write_file_hdr
SaveHdr ==
  /\ wr = "idle" /\ saved # last /\ saved' = last /\ unsaved' = 0
  /\ UNCHANGED <<vars, prior, ti, ini, starts, raced>>

-----------------------------------------------------------------------------
(* rp_toc_init_thread. *)

\* frames whose header is read at an offset
FramesAt(o) == {i \in 1 .. n : off[i] = o /\ Intact(i, o, 1)}

\* mutant: the time of the frame is not compared with the one before
BugEarlier(i) == TRUE

\* "if frame time is not less than our last frame then done"
Earlier(i) == i < ini.time

\* not too close to the new entries being added
ClearOfNew == ini.idx > next + TocGap

\* mutant: the walk goes on while the header of the frame is there
BugClearOfWrap == TRUE

\* not too close to the new file data being added
ClearOfWrap == Roomy(LastEnd, ini.at)

\* one turn of the loop, up to the store; a frame that rp_file_hdr does not
\* name yet is in the free space already
WalkReads ==
  /\ ini.pc = "read"
  /\ UNCHANGED <<vars, prior, saved, unsaved, ti, starts, raced>>
  /\ \/ \E i \in FramesAt(ini.at) :
          /\ Earlier(i) /\ ClearOfNew /\ ClearOfWrap
          /\ ini' = [ini EXCEPT !.pc = "store", !.got = i,
                                !.lag = IF wr \in {"hdr", "exited"} THEN 1 ELSE 0]
     \/ /\ ~\E i \in FramesAt(ini.at) : Earlier(i) /\ ClearOfNew /\ ClearOfWrap
        /\ ini' = [ini EXCEPT !.pc = "done"]

\* mutant: the index is stored after it is decremented
BugWalkedTo == ini.idx - 1

WalkedTo == ini.idx

\* the entry is made and the walk goes to the frame before
WalkStores ==
  /\ ini.pc = "store"
  /\ toc' = [toc EXCEPT ![ini.idx] = [time |-> ini.got, div |-> ini.at \div Align]]
  /\ oldest' = WalkedTo
  /\ ini' = [ini EXCEPT !.pc = "read", !.at = OffsetOf(prior[ini.got]), !.time = ini.got,
                        !.idx = @ - 1, !.lag = 0]
  /\ raced' = (wr = "store")
  /\ UNCHANGED <<ringVars, wr, prior, saved, unsaved, ti, starts>>

-----------------------------------------------------------------------------
\* the process is killed and started again
Restart ==
  /\ starts < MaxStarts /\ starts' = starts + 1
  /\ last' = saved /\ unsaved' = 0
  /\ toc' = [i \in Indices |-> [time |-> 0, div |-> 0]]
  /\ next' = 0 /\ oldest' = Empty /\ ti' = Empty
  /\ wr' = "idle"
  /\ ini' = StartedAt(saved)
  /\ raced' = FALSE
  /\ UNCHANGED <<n, off, len, rd, prior, saved>>

RecoverNext ==
  \/ \E l \in FrameLens : RecordFrame(l)
  \/ RecordEntry \/ ReadOldest \/ StoreOldest \/ SaveHdr
  \/ WalkReads \/ WalkStores
  \/ Restart

RecoverSpec == RecoverInit /\ [][RecoverNext]_recoverVars

-----------------------------------------------------------------------------
(* Properties. *)

\* The frame that comes before entry i of the table.
Before(i) == prior[toc[i].time]

\* What the two threads have put in the table is one stretch of the
\* recording: each entry names a frame and its place, and the frame recorded
\* before it is in the entry before, over restarts and lost frames.
WindowIsChain ==
  \A i \in Window :
    /\ toc[i].time \in 1 .. n /\ toc[i].div * Align = off[toc[i].time]
    /\ i # oldest => Before(i) = toc[(i + MaxToc - 1) % MaxToc].time

\* Every frame in the table is whole, though frames that no header names, of
\* processes that were killed, lie across what they have overwritten.
WindowIntact ==
  \A i \in Window :
    LET f == toc[i].time IN f > 0 => Intact(f, off[f], len[f])

\* The loop that moves rp_toc_idx_oldest meets only entries in use: the
\* asserts of RP_FILE_LENGTH cannot fail beside the other thread.
ScanMeetsFrames ==
  wr = "oldest" /\ oldest # Empty =>
    \A k \in 0 .. Passed : toc[(ScanStart + k) % MaxToc].time > 0

Listed == {toc[i].time : i \in Window}

\* A frame that was recovered stays in the table until the file or the table
\* comes round to it.  One order of the stores is excepted: a store of
\* rp_toc_init_thread comes between the recorder's read of rp_toc_idx_oldest
\* and its store, and is lost, until the walk stores again.
RecoveredKept ==
  [][~Restart /\ ~(raced /\ StoreOldest) =>
       \A f \in Listed : f \in Listed' \/ ~Roomy(LastEnd, off[f])
                         \/ Cardinality(Window) > MaxToc - TocGap]_recoverVars

=============================================================================
