---------------------------- MODULE MCTocSearch ----------------------------
(***************************************************************************)
(* Tables of every fill and every place in the ring.  Entries are two time *)
(* units apart, so that requests fall on entries and between them, before  *)
(* the first and after the last; the valid-through time lags behind, or is *)
(* ahead of, the newest entry.                                             *)
(***************************************************************************)
EXTENDS TocSearch

EntryTime(k) == 2 * k + 2

\* k entries from index o on; the other slots hold stale times
TableOf(o, k, v) ==
  [time |-> [i \in Indices |->
               LET d == (i + MaxToc - o) % MaxToc IN IF d < k THEN EntryTime(d) ELSE 1],
   oldest |-> IF k = 0 THEN NoEntry ELSE o,
   next |-> (o + k) % MaxToc,
   valid |-> v]

MCTables ==
  {TableOf(o, 0, 0) : o \in Indices} \cup
  UNION {{TableOf(o, k, EntryTime(k - 1) + d) : d \in {-1, 0, 3}}
           : o \in Indices, k \in 1 .. MaxToc - 1}

MCRequests == 0 .. 2 * MaxToc + 4
=============================================================================
