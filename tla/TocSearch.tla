----------------------------- MODULE TocSearch -----------------------------
(***************************************************************************)
(* The search of rp_read_frame_by_real_time_us: which recorded frame was   *)
(* showing at a requested time.                                            *)
(*                                                                         *)
(* The table is a snapshot: the writer of rp_toc never touches an entry    *)
(* between the two indices that the search starts from, as it keeps a gap  *)
(* of entries (RpRing).  The snapshot may be taken between the update of   *)
(* rp_toc and that of last_frame_valid_through_real_time_us, so the latter *)
(* may be earlier than the newest entry, or later than the time at which   *)
(* the next frame is recorded.                                             *)
(***************************************************************************)
EXTENDS Integers

CONSTANTS
  MaxToc,     \* RP_MAX_TOC
  MaxCount,   \* iterations after which the search gives up (50)
  Tables,     \* snapshots [time, oldest, next, valid]
  Requests    \* requested times

Indices == 0 .. MaxToc - 1
NoEntry == -1

\* rp_toc[i % RP_MAX_TOC].real_time_us
TimeIn(tb, i) == tb.time[i % MaxToc]

\* index of the newest entry, not wrapped
NewestIn(tb) ==
  IF tb.next - 1 < tb.oldest THEN tb.next - 1 + MaxToc ELSE tb.next - 1

(* A snapshot is empty, or lists frames of increasing times.               *)
ASSUME SearchAssumption ==
  /\ MaxToc \in Nat \ {0} /\ MaxCount \in Nat
  /\ Requests \subseteq Nat
  /\ Tables \subseteq [time : [Indices -> Nat], oldest : {NoEntry} \cup Indices,
                       next : Indices, valid : Nat]
  /\ \A tb \in Tables : tb.oldest # NoEntry =>
       \A i \in tb.oldest .. NewestIn(tb) - 1 : TimeIn(tb, i) < TimeIn(tb, i + 1)

(* The distance of the bounds, MaxToc - 1 at most, can be halved down to   *)
(* one in MaxCount steps: it is at most 2^MaxCount.  span[k] bounds what   *)
(* is left after k halvings.                                               *)
ASSUME HalvingAssumption ==
  \E span \in [0 .. MaxCount -> 1 .. MaxToc] :
    /\ span[0] >= MaxToc - 1 /\ span[MaxCount] = 1
    /\ \A k \in 1 .. MaxCount : span[k - 1] <= 2 * span[k]

VARIABLES
  table,         \* rp_toc, its indices and the last frame's valid-through time
  request,       \* real_time_us
  first, last,   \* bounds of the binary search
  count,
  phase,         \* "start", "loop", "found" or "not_found"
  status,
  found,         \* index of found_toc_entry
  startTime, endTime   \* start_us and end_us

searchVars == <<table, request, first, last, count, phase, status, found, startTime, endTime>>

Statuses == {"GENERAL_FAILURE", "FILE_EMPTY", "BEFORE_BOD", "AFTER_EOD",
             "NOT_FOUND_1", "NOT_FOUND_2", "NOT_FOUND_3", "NOT_FOUND_4"}

\* Types; the search stays within one turn past the end of the table.
SearchTypeOK ==
  /\ table \in Tables /\ request \in Requests
  /\ first \in NoEntry .. 2 * MaxToc - 1 /\ last \in NoEntry .. 2 * MaxToc - 1
  /\ count \in Nat
  /\ phase \in {"start", "loop", "found", "not_found"}
  /\ status \in Statuses
  /\ found \in Int /\ startTime \in Nat /\ endTime \in Int

SearchInit ==
  /\ table \in Tables /\ request \in Requests
  /\ first = table.oldest /\ last = NewestIn(table)
  /\ count = 0
  /\ phase = "start" /\ status = "GENERAL_FAILURE"
  /\ found = NoEntry /\ startTime = 0 /\ endTime = 0

-----------------------------------------------------------------------------
Time(i) == TimeIn(table, i)

NotFound(s) ==
  /\ phase' = "not_found" /\ status' = s
  /\ UNCHANGED <<table, request, first, last, count, found, startTime, endTime>>

Found(i, e) ==
  /\ phase' = "found" /\ found' = i /\ startTime' = Time(i) /\ endTime' = e
  /\ UNCHANGED <<table, request, first, last, count, status>>

\* mutant: the last frame is taken to end with the newest entry's own time
BugInLast == request = Time(last) /\ request <= table.valid

\* the request falls in the newest frame
InLast == Time(last) <= request /\ request <= table.valid

\* the checks before the loop, in their order
Check ==
  /\ phase = "start"
  /\ \/ first = NoEntry /\ NotFound("FILE_EMPTY")
     \/ first # NoEntry /\ request < Time(first) /\ NotFound("BEFORE_BOD")
     \/ /\ first # NoEntry /\ Time(first) <= request
        /\ IF request > table.valid THEN NotFound("AFTER_EOD")
           ELSE IF InLast THEN Found(last, table.valid)
           ELSE IF first = last THEN NotFound("NOT_FOUND_1")
           ELSE /\ phase' = "loop"
                /\ UNCHANGED <<table, request, first, last, count, status, found,
                               startTime, endTime>>

Middle == (first + last) \div 2

Disordered == Time(Middle + 1) <= Time(Middle)

\* mutant: the end of an entry is taken to be part of it
BugCovers == Time(Middle) <= request /\ request <= Time(Middle + 1)

Covers == Time(Middle) <= request /\ request < Time(Middle + 1)

\* mutant: only the lower bound is moved
BugFirstOnly ==
  /\ first' = IF request > Time(Middle) THEN Middle ELSE first
  /\ UNCHANGED last

Narrow ==
  /\ first' = IF request > Time(Middle) THEN Middle ELSE first
  /\ last' = IF request > Time(Middle) THEN last ELSE Middle

\* an iteration that settles the search
LoopEnds ==
  /\ phase = "loop"
  /\ \/ Disordered /\ NotFound("NOT_FOUND_2")
     \/ ~Disordered /\ Covers /\ Found(Middle, Time(Middle + 1) - 1)
     \/ ~Disordered /\ ~Covers /\ first + 1 = last /\ NotFound("NOT_FOUND_3")

\* an iteration that goes on with half of the entries
LoopNarrows ==
  /\ phase = "loop" /\ ~Disordered /\ ~Covers /\ first + 1 # last
  /\ Narrow
  /\ count' = count + 1
  /\ IF count' > MaxCount THEN phase' = "not_found" /\ status' = "NOT_FOUND_4"
                          ELSE UNCHANGED <<phase, status>>
  /\ UNCHANGED <<table, request, found, startTime, endTime>>

\* the search is over: its caller goes on to read the frame
Done == phase \in {"found", "not_found"} /\ UNCHANGED searchVars

SearchNext == Check \/ LoopEnds \/ LoopNarrows \/ Done

SearchSpec == SearchInit /\ [][SearchNext]_searchVars

-----------------------------------------------------------------------------
(* Properties. *)

\* The frame found was showing at the requested time, and the interval given
\* to the caller, who uses it to skip reads, is the one the frame was showing.
FoundCovers ==
  phase = "found" =>
    /\ table.oldest <= found /\ found <= NewestIn(table)
    /\ startTime = Time(found) /\ startTime <= request /\ request <= endTime
    /\ endTime = IF found = NewestIn(table) THEN table.valid
                 ELSE Time(found + 1) - 1

\* A frame is not found only for a reason that holds: nothing is recorded, or
\* the time is before the first or after the last recorded frame.  The
\* statuses NOT_FOUND_1 to NOT_FOUND_3 never occur.
NotFoundJustified ==
  phase = "not_found" /\ status # "NOT_FOUND_4" =>
    \/ status = "FILE_EMPTY" /\ table.oldest = NoEntry
    \/ status = "BEFORE_BOD" /\ request < Time(table.oldest)
    \/ status = "AFTER_EOD" /\ request > table.valid

\* assert(middle != last), and the entry after the middle one is in the table.
MiddleBelowLast ==
  phase = "loop" => first <= Middle /\ Middle < last /\ last <= NewestIn(table)

\* The search never gives up: halving ends within MaxCount iterations.
NeverGivesUp == status # "NOT_FOUND_4"

=============================================================================
