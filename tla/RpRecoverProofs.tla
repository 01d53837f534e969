--------------------------- MODULE RpRecoverProofs ---------------------------
(***************************************************************************)
(* After any number of restarts, wherever the process was killed and       *)
(* however the two threads take turns, the table lists one stretch of the  *)
(* recording whose frames are all whole: for every size of file, table and *)
(* frames.                                                                 *)
(*                                                                         *)
(* The invariant has two parts.  The first is about the file alone: the    *)
(* frames that follow from one to the one before, from the last one back,  *)
(* are the chain; those of them that are still there are the newest ones,  *)
(* and lie in the file in the order of the chain.  The second relates the  *)
(* table and the thread that fills it to the chain.                        *)
(***************************************************************************)
EXTENDS RpRecover, RpRingProofs

-----------------------------------------------------------------------------
(* The frames in the file. *)

\* the place after frame p
After(p) == IF p = 0 THEN MinOff ELSE NextOffset(off[p], len[p])

Whole(f) == Intact(f, off[f], len[f])
HeaderThere(f) == Intact(f, off[f], 1)

\* frame f was not lost at a restart: no later frame follows one before f
OnChain(f) == \A x \in 1 .. n : ~(prior[x] < f /\ f < x)
Chain == {f \in 1 .. last : OnChain(f)}

\* the frame written last is not named by rp_file_hdr yet
Putting == wr \in {"hdr", "exited"}
WrittenEnd == IF Putting THEN off[n] + len[n] ELSE LastEnd

\* f is whole, and stays so while k more frames are written
Clear(f, k) == Whole(f) /\ Margin(WrittenEnd, off[f], k)

\* each frame is put after the one it names; those lost in between are in
\* another place
Links ==
  /\ \A i \in 1 .. n : prior[i] \in 0 .. i - 1 /\ off[i] = After(prior[i])
  /\ \A i \in 1 .. n : OnChain(i) => OnChain(prior[i])
  /\ \A i \in 1 .. n : prior[i] > 0 =>
       \A x \in prior[i] + 1 .. i - 1 : ~Overlap(off[prior[i]], len[prior[i]], off[x], len[x])

Ends ==
  /\ Putting => n > 0 /\ prior[n] = last
  /\ wr = "idle" => last \in {n, saved}
  /\ wr \in {"toc", "oldest", "store"} => n > 0 /\ last = n
  /\ last <= n /\ saved <= last /\ OnChain(last) /\ OnChain(saved)

\* the frame that the header in the file names will be there at a restart
SavedClear == saved > 0 => Clear(saved, MaxUnsaved - unsaved)

\* what is left of the chain are its newest frames, one before the other
InTurn ==
  \A f, g \in Chain : f < g /\ HeaderThere(f) =>
    HeaderThere(g) /\ Room(LastEnd, off[f]) + len[f] <= Room(LastEnd, off[g])

FileInv == FramesOK /\ Links /\ Ends /\ SavedClear /\ InTurn

-----------------------------------------------------------------------------
(* Places in the file. *)

\* ROUND_UP ends on the first multiple of the alignment.
LEMMA RoundUpLeast ==
  ASSUME NEW v \in Nat, NEW a \in Nat, a % Align = 0, v <= a
  PROVE  RoundUp(v) <= a
<1>. DEFINE r == RoundUp(v)
            q == r \div Align
            k == a \div Align
            d == q - k
<1>1. r \in Nat /\ r < v + Align /\ r % Align = 0 /\ Align \in Nat /\ Align > 0
  BY RoundUpBounds, RoundUpAligned, GeometryAssumption
<1>. HIDE DEF r
<1>2. q \in Nat /\ k \in Nat /\ d \in Int /\ r = Align * q /\ a = Align * k
  BY <1>1
<1>3. r - a = Align * d
  BY <1>1, <1>2
<1>4. r - a < Align
  BY <1>1
<1>. HIDE DEF d
<1>5. d >= 1 => Align * d >= Align
  BY <1>1, <1>2
<1>6. d <= 0 => Align * d <= 0
  BY <1>1, <1>2
<1>7. r <= a
  BY <1>1, <1>2, <1>3, <1>4, <1>5, <1>6
<1>. QED
  BY <1>7 DEF r

\* A frame that is written over another one, before or after which the last
\* one ends, is written over its header.
LEMMA Covers ==
  ASSUME NEW o \in Nat, NEW l \in Nat, o # 0, NEW a \in Nat, NEW b \in Nat, a % Align = 0,
         MinOff <= a, a < MaxOff, a + b <= o + l \/ o + l <= a, NEW m \in Lengths,
         Overlap(a, b, NextOffset(o, l), m)
  PROVE  Overlap(a, 1, NextOffset(o, l), m)
<1>. DEFINE e == o + l
            r == RoundUp(e)
<1>1. e \in Nat /\ r \in Nat /\ e <= r /\ (e <= a => r <= a) /\ (a + b <= e \/ e <= a)
  BY RoundUpBounds, RoundUpLeast
<1>2. NextOffset(o, l) = IF r >= MaxOff THEN MinOff ELSE r
  BY DEF NextOffset
<1>. HIDE DEF r, e
<1>. QED
  BY <1>1, <1>2, GeometryAssumption DEF Overlap, Lengths, MaxOff

\* Of two frames that lie one before the other the next one is written over
\* the header of the first one before it comes to the second.
LEMMA FirstBefore ==
  ASSUME NEW o \in Nat, NEW l \in Nat, o # 0, o + l <= FileSize, NEW m \in Lengths,
         NEW a \in Nat, NEW b \in Nat, a % Align = 0, MinOff <= a, a < MaxOff,
         NEW c \in Nat, c % Align = 0, MinOff <= c, c < MaxOff,
         Room(o + l, a) + b <= Room(o + l, c), b > 0,
         ~Overlap(a, 1, NextOffset(o, l), m)
  PROVE  ~Overlap(c, 1, NextOffset(o, l), m)
<1>. DEFINE e == o + l
            r == RoundUp(e)
            q == NextOffset(o, l)
<1>1. /\ e \in Nat /\ e <= FileSize /\ r \in Nat /\ e <= r /\ r < e + Align
      /\ (e <= a => r <= a) /\ (e <= c => r <= c)
  BY RoundUpBounds, RoundUpLeast
<1>2. q = IF r >= MaxOff THEN MinOff ELSE r
  BY DEF NextOffset
<1>3. Room(e, a) + b <= Room(e, c)
  OBVIOUS
<1>. HIDE DEF q, r, e
<1>4. CASE r < MaxOff
  BY <1>1, <1>2, <1>3, <1>4, GeometryAssumption DEF Overlap, Lengths, MaxOff, Room, FileLength, q
<1>5. CASE r >= MaxOff
  BY <1>1, <1>2, <1>3, <1>5, GeometryAssumption DEF Overlap, Lengths, MaxOff, Room, FileLength, q
<1>. QED
  BY <1>1, <1>4, <1>5, GeometryAssumption DEF MaxOff

\* Room before a frame that the next one is not written over.
LEMMA RoomAfter ==
  ASSUME NEW o \in Nat, NEW l \in Nat, o # 0, o + l <= FileSize, NEW m \in Lengths,
         NEW a \in Nat, NEW b \in Nat, a % Align = 0, MinOff <= a, a < MaxOff,
         a + b <= FileSize, a + b <= o + l \/ o + l <= a,
         ~Overlap(a, 1, NextOffset(o, l), m)
  PROVE  /\ Room(NextOffset(o, l) + m, a) = Room(o + l, a) - Step(o + l, m)
         /\ Room(NextOffset(o, l) + m, a) + b <= FileSize - m
<1>. DEFINE e == o + l
            r == RoundUp(e)
            q == NextOffset(o, l)
<1>1. /\ e \in Nat /\ e <= FileSize /\ r \in Nat /\ e <= r /\ r < e + Align
      /\ (e <= a => r <= a) /\ (a + b <= e \/ e <= a)
  BY RoundUpBounds, RoundUpLeast
<1>2. q = IF r >= MaxOff THEN MinOff ELSE r
  BY DEF NextOffset
<1>3. Step(e, m) = IF r >= MaxOff THEN MinOff + m + FileSize - e ELSE r + m - e
  BY DEF Step
<1>. HIDE DEF q, r, e
<1>4. CASE r < MaxOff
  BY <1>1, <1>2, <1>3, <1>4, GeometryAssumption DEF Overlap, Lengths, MaxOff, Room, FileLength, q, e
<1>5. CASE r >= MaxOff
  BY <1>1, <1>2, <1>3, <1>5, GeometryAssumption DEF Overlap, Lengths, MaxOff, Room, FileLength, q, e
<1>. QED
  BY <1>1, <1>4, <1>5, GeometryAssumption DEF MaxOff

\* The same order, seen from the end of a frame that both come before.
LEMMA SeenFrom ==
  ASSUME NEW e \in Nat, e <= FileSize, NEW o \in Nat, NEW l \in Nat, l > 0, o + l <= FileSize,
         Room(e, o) + l <= FileSize,
         NEW a \in Nat, NEW b \in Nat, b > 0, a + b <= FileSize, Room(e, a) + b <= Room(e, o),
         a > 0, o > 0
  PROVE  Room(o + l, a) = Room(e, a) + FileSize - Room(e, o) - l
BY GeometryAssumption DEF Room, FileLength

-----------------------------------------------------------------------------
(* The steps of the file. *)

\* the place of a frame
LEMMA PlaceFacts ==
  ASSUME RecoverTypeOK, FramesOK, NEW i \in 1 .. n
  PROVE  /\ off[i] \in Nat /\ off[i] # 0 /\ len[i] \in Lengths /\ len[i] \in Nat /\ len[i] > 0
         /\ MinOff <= off[i] /\ off[i] < MaxOff /\ off[i] + len[i] <= FileSize
         /\ off[i] % Align = 0 /\ (off[i] \div Align) * Align = off[i]
<1>1. len[i] \in Lengths /\ MinOff <= off[i] /\ off[i] < MaxOff /\ off[i] % Align = 0
  BY DEF FramesOK
<1>2. off \in [Numbers -> 0 .. MaxOff - 1] /\ n \in 0 .. MaxWrites
  BY DEF RecoverTypeOK
<1>3. off[i] \in Nat
  BY <1>2, WritesAssumption, GeometryAssumption DEF Numbers, MaxOff
<1>4. (off[i] \div Align) * Align = off[i]
  BY <1>1, <1>3, DivAlign
<1>. PICK o \in Nat, l \in Lengths : o = off[i] /\ l = len[i]
  BY <1>1, <1>3
<1>5. l \in Nat /\ l > 0 /\ o # 0 /\ (MinOff <= o /\ o < MaxOff => o + l <= FileSize)
  BY <1>1, GeometryAssumption DEF Lengths, MaxOff
<1>. QED
  BY <1>1, <1>3, <1>4, <1>5

LEMMA CountFacts ==
  ASSUME RecoverTypeOK, FileInv
  PROVE  /\ n \in Nat /\ n <= MaxWrites /\ last \in Nat /\ saved \in Nat /\ last <= n /\ saved <= last
         /\ MaxWrites \in Nat /\ MaxUnsaved \in Nat /\ unsaved \in 0 .. MaxUnsaved
         /\ 1 .. n \subseteq Numbers
         /\ OnChain(last) /\ OnChain(saved) /\ FramesOK
         /\ \A i \in 1 .. n : prior[i] \in 0 .. i - 1
         /\ last > 0 => last \in Chain
         /\ saved > 0 => saved \in Chain
         /\ Chain \subseteq 1 .. last /\ Chain \subseteq 1 .. n
<1>1. /\ n \in Nat /\ n <= MaxWrites /\ last \in Nat /\ saved \in Nat /\ last <= n /\ saved <= last
      /\ MaxWrites \in Nat /\ MaxUnsaved \in Nat /\ unsaved \in 0 .. MaxUnsaved
      /\ OnChain(last) /\ OnChain(saved) /\ FramesOK
  BY WritesAssumption, UnsavedAssumption DEF RecoverTypeOK, FileInv, Ends
<1>2. 1 .. n \subseteq Numbers /\ 1 .. last \subseteq 1 .. n
  BY <1>1 DEF Numbers
<1>3. \A i \in 1 .. n : prior[i] \in 0 .. i - 1
  BY DEF FileInv, Links
<1>4. (last > 0 => last \in Chain) /\ (saved > 0 => saved \in Chain) /\ Chain \subseteq 1 .. last
  BY <1>1 DEF Chain
<1>. QED
  BY <1>1, <1>2, <1>3, <1>4

\* The end of a frame on the chain is before or after each newer frame.
LEMMA WholeBeside ==
  ASSUME RecoverTypeOK, FramesOK, NEW f \in 1 .. n, NEW j \in 1 .. n, f <= j,
         f = j \/ ~Overlap(off[f], len[f], off[j], len[j])
  PROVE  off[f] + len[f] <= off[j] + len[j] \/ off[j] + len[j] <= off[f]
<1>1. off[f] \in Nat /\ len[f] \in Nat /\ off[j] \in Nat /\ len[j] \in Nat
  BY PlaceFacts
<1>. QED
  BY <1>1 DEF Overlap

\* A frame on the chain whose header is there is whole: what was written over
\* it came over its header first.
LEMMA HeaderSuffices ==
  ASSUME RecoverTypeOK, FileInv, NEW f \in 1 .. n, OnChain(f), HeaderThere(f)
  PROVE  Whole(f)
<1>. DEFINE T == {x \in f + 1 .. n : Overlap(off[f], len[f], off[x], len[x])}
<1>1. n \in Nat /\ FramesOK /\ f \in Nat
  BY CountFacts
<1>2. ASSUME T # {} PROVE FALSE
  <2>1. T \in SUBSET Nat
    BY <1>1
  <2>. HIDE DEF T
  <2>2. PICK x \in T : \A k \in T : x <= k
    BY <1>2, <2>1, Least
  <2>. USE DEF T
  <2>3. x \in 1 .. n /\ x \in f + 1 .. n /\ Overlap(off[f], len[f], off[x], len[x])
    BY <1>1, <2>2
  <2>. PICK p \in Nat : p = prior[x]
    BY <1>1, <2>3, CountFacts
  <2>4. p \in 1 .. n /\ f <= p /\ p < x /\ off[x] = NextOffset(off[p], len[p])
    <3>1. p \in 0 .. x - 1 /\ off[x] = After(p) /\ ~(p < f /\ f < x)
      BY <2>3 DEF FileInv, Links, OnChain
    <3>. QED
      BY <1>1, <2>3, <3>1 DEF After
  <2>5. p = f \/ ~Overlap(off[f], len[f], off[p], len[p])
    BY <1>1, <2>2, <2>4
  <2>6. off[f] + len[f] <= off[p] + len[p] \/ off[p] + len[p] <= off[f]
    BY <1>1, <2>4, <2>5, WholeBeside
  <2>7. Overlap(off[f], 1, off[x], len[x])
    <3>1. /\ off[p] \in Nat /\ len[p] \in Nat /\ off[p] # 0 /\ off[f] \in Nat /\ len[f] \in Nat
          /\ off[f] % Align = 0 /\ MinOff <= off[f] /\ off[f] < MaxOff /\ len[x] \in Lengths
      BY <1>1, <2>3, <2>4, PlaceFacts
    <3>. QED
      BY <2>3, <2>4, <2>6, <3>1, Covers
  <2>. QED
    BY <2>3, <2>7 DEF HeaderThere, Intact
<1>. QED
  BY <1>2 DEF Whole, Intact

LEMMA WholeHeader ==
  ASSUME RecoverTypeOK, FramesOK, NEW f \in 1 .. n, Whole(f)
  PROVE  HeaderThere(f)
<1>1. \A j \in f + 1 .. n : j \in 1 .. n
  BY DEF RecoverTypeOK
<1>2. \A j \in f + 1 .. n : Overlap(off[f], 1, off[j], len[j]) => Overlap(off[f], len[f], off[j], len[j])
  BY <1>1, PlaceFacts DEF Overlap
<1>. QED
  BY <1>2 DEF Whole, HeaderThere, Intact

\* a frame is written
LEMMA PutFacts ==
  ASSUME RecoverTypeOK, FileInv, NEW l \in FrameLens, RecordFrame(l)
  PROVE  /\ n \in Nat /\ n' = n + 1 /\ n + 1 \in Numbers /\ l \in Lengths
         /\ wr = "idle" /\ wr' \in {"hdr", "exited"}
         /\ off'[n + 1] = After(last) /\ len'[n + 1] = l /\ prior'[n + 1] = last
         /\ \A i \in 1 .. n : off'[i] = off[i] /\ len'[i] = len[i] /\ prior'[i] = prior[i]
         /\ After(last) \in Nat /\ MinOff <= After(last) /\ After(last) < MaxOff
         /\ After(last) % Align = 0
         /\ unsaved' = unsaved + 1 /\ unsaved < MaxUnsaved
         /\ UNCHANGED <<last, toc, next, oldest, saved, ti, starts, raced>>
         /\ off' \in [Numbers -> 0 .. MaxOff - 1] /\ len' \in [Numbers -> Nat]
         /\ prior' \in [Numbers -> {0} \cup Numbers]
<1>1. /\ n \in Nat /\ n < MaxWrites /\ n + 1 \in Numbers /\ wr = "idle" /\ wr' \in {"hdr", "exited"}
      /\ PutFrame(l) /\ l \in Lengths /\ prior' = [prior EXCEPT ![n + 1] = last]
      /\ unsaved' = unsaved + 1 /\ unsaved < MaxUnsaved
      /\ UNCHANGED <<saved, ti, starts, raced>>
  <2>1. n \in Nat /\ MaxWrites \in Nat /\ l \in Lengths
    BY CountFacts, RingAssumption
  <2>2. /\ n < MaxWrites /\ wr = "idle" /\ wr' \in {"hdr", "exited"} /\ PutFrame(l)
    BY DEF RecordFrame, WritePwritev, WriteFail
  <2>3. n + 1 \in Numbers
    BY <2>1, <2>2 DEF Numbers
  <2>. QED
    BY <2>1, <2>2, <2>3 DEF RecordFrame
<1>2. After(last) \in Nat /\ MinOff <= After(last) /\ After(last) < MaxOff /\ After(last) % Align = 0
  <2>1. CASE last = 0
    BY <2>1, GeometryAssumption DEF After, MaxOff
  <2>2. CASE last # 0
    <3>1. last \in 1 .. n
      BY <1>1, <2>2, CountFacts
    <3>2. off[last] \in Nat /\ len[last] \in Nat /\ MinOff <= off[last]
      BY <3>1, CountFacts, PlaceFacts
    <3>. QED
      BY <2>2, <3>2, NextOffsetRange, NextOffsetAligned DEF After
  <2>. QED
    BY <2>1, <2>2
<1>3. /\ n' = n + 1 /\ off' = [off EXCEPT ![n + 1] = After(last)] /\ len' = [len EXCEPT ![n + 1] = l]
      /\ UNCHANGED <<last, toc, next, oldest>>
  BY <1>1 DEF PutFrame, After
<1>4. /\ off \in [Numbers -> 0 .. MaxOff - 1] /\ len \in [Numbers -> Nat] /\ last \in {0} \cup Numbers
      /\ prior \in [Numbers -> {0} \cup Numbers] /\ l \in Nat /\ After(last) \in 0 .. MaxOff - 1
  <2>1. off \in [Numbers -> 0 .. MaxOff - 1] /\ len \in [Numbers -> Nat]
        /\ prior \in [Numbers -> {0} \cup Numbers]
    BY DEF RecoverTypeOK
  <2>2. last \in {0} \cup Numbers
    BY CountFacts DEF Numbers
  <2>3. l \in Nat /\ After(last) \in 0 .. MaxOff - 1
    BY <1>1, <1>2, GeometryAssumption DEF Lengths, MaxOff
  <2>. QED
    BY <2>1, <2>2, <2>3
<1>. PICK a \in Nat : a = After(last)
  BY <1>2
<1>5. /\ off' \in [Numbers -> 0 .. MaxOff - 1] /\ len' \in [Numbers -> Nat]
      /\ prior' \in [Numbers -> {0} \cup Numbers]
      /\ off'[n + 1] = a /\ len'[n + 1] = l /\ prior'[n + 1] = last
  BY <1>1, <1>3, <1>4
<1>6. \A i \in 1 .. n : i \in Numbers /\ i # n + 1
  BY <1>1, CountFacts
<1>7. \A i \in 1 .. n : off'[i] = off[i] /\ len'[i] = len[i] /\ prior'[i] = prior[i]
  BY <1>1, <1>3, <1>4, <1>6
<1>. QED
  BY <1>1, <1>2, <1>3, <1>5, <1>7

\* the frames and their headers after the write
LEMMA PutThere ==
  ASSUME RecoverTypeOK, FileInv, NEW l \in FrameLens, RecordFrame(l), NEW f \in 1 .. n
  PROVE  /\ HeaderThere(f)' <=> HeaderThere(f) /\ ~Overlap(off[f], 1, After(last), l)
         /\ Whole(f)' <=> Whole(f) /\ ~Overlap(off[f], len[f], After(last), l)
<1>1. n \in Nat /\ n' = n + 1 /\ off'[f] = off[f] /\ len'[f] = len[f]
  BY PutFacts
<1>. PICK a : a = After(last)
  OBVIOUS
<1>2. off'[n + 1] = a /\ len'[n + 1] = l /\ \A j \in f + 1 .. n : off'[j] = off[j] /\ len'[j] = len[j]
  BY <1>1, PutFacts
<1>3. \A j : j \in f + 1 .. n' <=> j \in f + 1 .. n \/ j = n + 1
  BY <1>1
<1>4. ASSUME NEW b
      PROVE  (\A j \in f + 1 .. n' : ~Overlap(off[f], b, off'[j], len'[j]))
             <=> (\A j \in f + 1 .. n : ~Overlap(off[f], b, off[j], len[j])) /\ ~Overlap(off[f], b, a, l)
  BY <1>2, <1>3
<1>. QED
  BY <1>1, <1>4 DEF HeaderThere, Whole, Intact

\* Of what frames there is room for, one fewer after each write.
LEMMA ClearWrite ==
  ASSUME RecoverTypeOK, FileInv, NEW l \in FrameLens, RecordFrame(l),
         NEW f \in 1 .. last, NEW k \in Nat, k > 0, Clear(f, k)
  PROVE  Clear(f, k - 1)'
<1>1. last \in 1 .. n /\ f \in 1 .. n /\ f <= last /\ FramesOK /\ l \in Lengths /\ last \in Nat
  BY CountFacts, PutFacts
<1>. DEFINE o == off[last]
            m == len[last]
<1>2. /\ o \in Nat /\ m \in Nat /\ o # 0 /\ o + m <= FileSize
      /\ off[f] \in Nat /\ len[f] \in Nat /\ MinOff <= off[f] /\ off[f] < MaxOff
  BY <1>1, PlaceFacts
<1>3. off[f] + len[f] <= o + m \/ o + m <= off[f]
  <2>1. f = last \/ last \in f + 1 .. n
    BY <1>1
  <2>. QED
    BY <1>1, <2>1, WholeBeside DEF Clear, Whole, Intact
<1>4. Margin(o + m, off[f], k)
  BY PutFacts DEF Clear, WrittenEnd, Putting, LastEnd
<1>5. ~Overlap(off[f], len[f], NextOffset(o, m), l) /\ Margin(NextOffset(o, m) + l, off[f], k - 1)
  BY <1>1, <1>2, <1>3, <1>4, MarginStep
<1>6. After(last) = NextOffset(o, m)
  BY <1>1 DEF After
<1>7. Whole(f)'
  BY <1>1, <1>5, <1>6, PutThere DEF Clear
<1>8. off'[f] = off[f] /\ WrittenEnd' = After(last) + l
  BY <1>1, PutFacts DEF WrittenEnd, Putting
<1>. QED
  BY <1>5, <1>6, <1>7, <1>8 DEF Clear

\* The last frame is whole.
LEMMA LastWhole ==
  ASSUME RecoverTypeOK, FileInv, last > 0, ~Putting
  PROVE  Whole(last)
<1>1. last \in {n, saved}
  BY DEF FileInv, Ends, Putting, RecoverTypeOK
<1>2. CASE last = n
  BY <1>2, CountFacts DEF Whole, Intact
<1>3. CASE last = saved
  BY <1>3 DEF FileInv, SavedClear, Clear
<1>. QED
  BY <1>1, <1>2, <1>3

\* The frame after whose header nothing was written yet has room for those
\* of 10 seconds.
LEMMA NewestClear ==
  ASSUME NEW o \in Nat, NEW m \in Lengths
  PROVE  Margin(o + m, o, MaxUnsaved) /\ Room(o + m, o) = FileSize - m
<1>1. FileLength(o + m, o) = m /\ m \in Nat /\ m <= MaxLen
  BY NewestRoomy DEF Lengths
<1>2. MaxUnsaved * MaxStep + TailSlack + MinOff + MaxLen <= FileSize /\ MaxUnsaved * MaxStep \in Nat
  BY UnsavedAssumption, GeometryAssumption DEF MaxStep
<1>. QED
  BY <1>1, <1>2, GeometryAssumption DEF Margin, Room

\* WritePwritev, and WriteFail
LEMMA PutFile ==
  ASSUME RecoverTypeOK, FileInv, NEW l \in FrameLens, RecordFrame(l)
  PROVE  FileInv' /\ Chain' = Chain
<1>1. /\ n \in Nat /\ n' = n + 1 /\ last' = last /\ saved' = saved /\ last \in 0 .. n /\ saved \in 0 .. last
      /\ wr = "idle" /\ Putting' /\ Links /\ Ends /\ FramesOK /\ OnChain(last) /\ OnChain(saved)
  BY PutFacts, CountFacts DEF Putting, FileInv
<1>. PICK a \in Nat : a = After(last)
  BY PutFacts
<1>2. /\ off'[n + 1] = a /\ len'[n + 1] = l /\ prior'[n + 1] = last /\ l \in Lengths
      /\ \A i \in 1 .. n : off'[i] = off[i] /\ len'[i] = len[i] /\ prior'[i] = prior[i]
  BY PutFacts
<1>3. \A i : i \in 1 .. n' <=> i \in 1 .. n \/ i = n + 1
  BY <1>1
<1>4. \A i \in 0 .. n : OnChain(i)' <=> OnChain(i) /\ i <= last
  <2>1. \A i \in 0 .. n : ~(last < i /\ i < n + 1) <=> i <= last
    BY <1>1
  <2>. QED
    BY <1>2, <1>3, <2>1 DEF OnChain
<1>5. Chain' = Chain
  BY <1>1, <1>4 DEF Chain
<1>6. FramesOK'
  BY <1>1, <1>2, <1>3, PutFacts DEF FramesOK
<1>7. Links'
  <2>1. \A i \in 0 .. n : After(i)' = After(i)
    BY <1>2 DEF After
  <2>2. \A i \in 1 .. n' : prior'[i] \in 0 .. i - 1 /\ off'[i] = After(prior[i])'
    <3>1. last \in 0 .. n + 1 - 1
      BY <1>1
    <3>2. \A i \in 1 .. n : prior[i] \in 0 .. n
      BY <1>1 DEF Links
    <3>. QED
      BY <1>1, <1>2, <1>3, <2>1, <3>1, <3>2 DEF Links, After
  <2>3. ASSUME NEW i \in 1 .. n', OnChain(i)' PROVE OnChain(prior[i])'
    <3>1. CASE i = n + 1
      <4>. PICK c \in 0 .. n : c = last
        BY <1>1
      <4>1. OnChain(c)' /\ prior'[i] = c
        BY <1>1, <1>2, <1>4, <3>1
      <4>. QED
        BY <4>1 DEF OnChain
    <3>2. CASE i # n + 1
      <4>. PICK p \in 0 .. i - 1 : p = prior[i] /\ i \in 1 .. n
        BY <1>1, <1>3, <3>2 DEF Links
      <4>1. OnChain(i) /\ i <= last
        BY <1>1, <1>4, <2>3
      <4>2. OnChain(p) /\ p <= last /\ p \in 0 .. n
        BY <1>1, <4>1 DEF Links
      <4>3. OnChain(p)'
        BY <1>4, <4>2
      <4>. QED
        BY <1>2, <4>3 DEF OnChain
    <3>. QED
      BY <3>1, <3>2
  <2>4. ASSUME NEW i \in 1 .. n', prior'[i] > 0, NEW x \in prior'[i] + 1 .. i - 1
        PROVE  ~Overlap(off'[prior'[i]], len'[prior'[i]], off'[x], len'[x])
    <3>1. CASE i = n + 1
      <4>1. last > 0 /\ last \in 1 .. n /\ x \in last + 1 .. n /\ x \in 1 .. n
        BY <1>1, <1>2, <2>4, <3>1
      <4>2. Whole(last)
        BY <1>1, <4>1, LastWhole DEF Putting
      <4>. QED
        BY <1>2, <3>1, <4>1, <4>2 DEF Whole, Intact
    <3>2. CASE i # n + 1
      <4>. PICK p \in 0 .. i - 1 : p = prior[i] /\ i \in 1 .. n
        BY <1>1, <1>3, <3>2 DEF Links
      <4>1. p > 0 /\ x \in p + 1 .. i - 1 /\ x \in 1 .. n /\ p \in 1 .. n
        BY <1>1, <1>2, <2>4
      <4>. QED
        BY <1>1, <1>2, <4>1 DEF Links
    <3>. QED
      BY <3>1, <3>2
  <2>. QED
    BY <2>2, <2>3, <2>4 DEF Links
<1>8. Ends'
  <2>1. OnChain(last)' /\ OnChain(saved)'
    BY <1>1, <1>4
  <2>2. n' > 0 /\ prior'[n'] = last' /\ last' <= n' /\ saved' <= last'
    BY <1>1, <1>2
  <2>. QED
    BY <1>1, <2>1, <2>2 DEF Ends, Putting, OnChain
<1>9. SavedClear'
  <2>1. CASE saved = 0
    BY <1>1, <2>1 DEF SavedClear
  <2>2. CASE saved # 0
    <3>. PICK f \in 1 .. last, k \in Nat : f = saved /\ k = MaxUnsaved - unsaved
      BY <1>1, <2>2, CountFacts
    <3>1. k > 0 /\ k - 1 = MaxUnsaved - unsaved'
      BY PutFacts, CountFacts
    <3>2. Clear(f, k - 1)'
      BY <1>1, <2>2, <3>1, ClearWrite DEF FileInv, SavedClear
    <3>. QED
      BY <1>1, <3>1, <3>2 DEF SavedClear, Clear
  <2>. QED
    BY <2>1, <2>2
<1>10. ASSUME NEW f \in Chain, NEW g \in Chain, f < g, HeaderThere(f)'
       PROVE  HeaderThere(g)' /\ (Room(LastEnd, off[f]) + len[f] <= Room(LastEnd, off[g]))'
  <2>1. f \in 1 .. n /\ g \in 1 .. n /\ last \in 1 .. n
    BY <1>1, CountFacts
  <2>. DEFINE o == off[last]
              m == len[last]
  <2>2. HeaderThere(f) /\ ~Overlap(off[f], 1, a, l) /\ a = NextOffset(o, m)
    BY <1>10, <2>1, PutThere DEF After
  <2>3. HeaderThere(g) /\ Room(o + m, off[f]) + len[f] <= Room(o + m, off[g])
    BY <1>10, <2>2 DEF FileInv, InTurn, LastEnd
  <2>4. /\ o \in Nat /\ m \in Nat /\ o # 0 /\ o + m <= FileSize
        /\ off[f] \in Nat /\ len[f] \in Nat /\ len[f] > 0 /\ off[f] % Align = 0
        /\ MinOff <= off[f] /\ off[f] < MaxOff
        /\ off[g] \in Nat /\ off[g] % Align = 0 /\ MinOff <= off[g] /\ off[g] < MaxOff
    BY <1>1, <2>1, PlaceFacts
  <2>5. ~Overlap(off[g], 1, a, l)
    BY <1>2, <2>2, <2>3, <2>4, FirstBefore
  <2>6. HeaderThere(g)'
    BY <2>1, <2>3, <2>5, PutThere
  <2>7. LastEnd' = LastEnd /\ off'[f] = off[f] /\ off'[g] = off[g] /\ len'[f] = len[f]
    BY <1>1, <1>2, <2>1 DEF LastEnd
  <2>. QED
    BY <2>3, <2>6, <2>7 DEF LastEnd
<1>11. InTurn'
  BY <1>5, <1>10 DEF InTurn
<1>. QED
  BY <1>5, <1>6, <1>7, <1>8, <1>9, <1>11 DEF FileInv

\* WriteHdr: the frame joins the chain
LEMMA NameFile ==
  ASSUME RecoverTypeOK, FileInv, WriteHdr, UNCHANGED <<prior, saved, unsaved>>
  PROVE  FileInv' /\ Chain' = Chain \cup {n} /\ WrittenEnd' = WrittenEnd /\ n > last
<1>1. /\ n \in Nat /\ n > 0 /\ last \in 0 .. n - 1 /\ saved \in 0 .. last /\ prior[n] = last /\ n \in 1 .. n
      /\ last' = n /\ wr = "hdr" /\ wr' = "toc" /\ UNCHANGED <<n, off, len, prior, saved, unsaved>>
      /\ Links /\ FramesOK /\ OnChain(saved)
  <2>1. n > 0 /\ prior[n] = last
    BY DEF FileInv, Ends, Putting, WriteHdr
  <2>2. n \in 1 .. n
    BY <2>1, CountFacts
  <2>. QED
    BY <2>1, <2>2, CountFacts DEF WriteHdr, FileInv
<1>2. /\ \A i : OnChain(i)' <=> OnChain(i)
      /\ \A i : After(i)' = After(i)
      /\ \A i : HeaderThere(i)' <=> HeaderThere(i)
      /\ \A i : Whole(i)' <=> Whole(i)
      /\ WrittenEnd' = WrittenEnd
  BY <1>1 DEF OnChain, After, HeaderThere, Whole, Intact, WrittenEnd, Putting, LastEnd
<1>3. \A f \in 1 .. n - 1 : OnChain(f) => f <= last
  BY <1>1 DEF OnChain
<1>4. OnChain(n)
  BY <1>1 DEF OnChain
<1>5. Chain' = Chain \cup {n}
  <2>1. 1 .. n = 1 .. n - 1 \cup {n} /\ \A f \in 1 .. n - 1 : f <= last <=> f \in 1 .. last
    BY <1>1
  <2>2. \A f \in 1 .. last : f \in 1 .. n - 1
    BY <1>1
  <2>. QED
    BY <1>1, <1>2, <1>3, <1>4, <2>1, <2>2 DEF Chain
<1>6. FramesOK' /\ Links'
  BY <1>1, <1>2 DEF FramesOK, Links, After, OnChain
<1>7. Ends'
  <2>1. OnChain(n)' /\ OnChain(saved)' /\ saved <= n
    BY <1>1, <1>2, <1>4
  <2>. QED
    BY <1>1, <2>1 DEF Ends, Putting, OnChain
<1>8. SavedClear'
  BY <1>1, <1>2 DEF FileInv, SavedClear, Clear, Whole, Intact
<1>9. ASSUME NEW f \in Chain \cup {n}, NEW g \in Chain \cup {n}, f < g, HeaderThere(f)
      PROVE  HeaderThere(g) /\ Room(off[n] + len[n], off[f]) + len[f] <= Room(off[n] + len[n], off[g])
  <2>1. Chain \subseteq 1 .. last /\ Chain \subseteq 1 .. n
    BY CountFacts
  <2>2. f \in Chain /\ f \in 1 .. n /\ last \in 1 .. n /\ f < n /\ f \in 1 .. last /\ f <= last
    BY <1>1, <1>9, <2>1
  <2>. DEFINE o == off[last]
              l == len[last]
              m == len[n]
  <2>3. off[n] = NextOffset(o, l)
    BY <1>1, <2>2 DEF Links, After
  <2>4. o \in Nat /\ l \in Nat /\ o # 0 /\ o + l <= FileSize /\ m \in Lengths /\ off[n] \in Nat
    BY <1>1, <2>2, PlaceFacts
  <2>5. ASSUME NEW x \in Chain, HeaderThere(x)
        PROVE  /\ Room(off[n] + m, off[x]) = Room(o + l, off[x]) - Step(o + l, m)
               /\ Room(off[n] + m, off[x]) + len[x] <= FileSize - m
    <3>1. x \in 1 .. n /\ x <= last /\ x < n /\ n \in x + 1 .. n /\ OnChain(x)
      BY <1>1, <2>1 DEF Chain
    <3>2. /\ off[x] \in Nat /\ len[x] \in Nat /\ off[x] % Align = 0 /\ MinOff <= off[x]
          /\ off[x] < MaxOff /\ off[x] + len[x] <= FileSize
      BY <1>1, <3>1, PlaceFacts
    <3>3. Whole(x)
      BY <2>5, <3>1, HeaderSuffices
    <3>4. off[x] + len[x] <= o + l \/ o + l <= off[x]
      <4>1. x = last \/ last \in x + 1 .. n
        BY <2>2, <3>1
      <4>. QED
        BY <1>1, <2>2, <3>1, <3>3, <4>1, WholeBeside DEF Whole, Intact
    <3>5. ~Overlap(off[x], 1, off[n], m)
      BY <2>5, <3>1 DEF HeaderThere, Intact
    <3>. QED
      BY <2>3, <2>4, <3>2, <3>4, <3>5, RoomAfter
  <2>6. CASE g = n
    <3>1. HeaderThere(n)
      BY <1>1 DEF HeaderThere, Intact
    <3>2. Room(off[n] + m, off[n]) = FileSize - m
      BY <2>4, NewestClear
    <3>. QED
      BY <1>9, <2>2, <2>5, <2>6, <3>1, <3>2
  <2>7. CASE g # n
    <3>1. g \in Chain /\ HeaderThere(g) /\ Room(o + l, off[f]) + len[f] <= Room(o + l, off[g])
      BY <1>9, <2>2, <2>7 DEF FileInv, InTurn, LastEnd
    <3>2. /\ Room(off[n] + m, off[f]) = Room(o + l, off[f]) - Step(o + l, m)
          /\ Room(off[n] + m, off[g]) = Room(o + l, off[g]) - Step(o + l, m)
      BY <1>9, <2>2, <2>5, <3>1
    <3>3. off[f] \in Nat /\ len[f] \in Nat /\ off[g] \in Nat /\ m \in Nat
      BY <1>1, <2>1, <2>2, <3>1, PlaceFacts
    <3>4. Room(o + l, off[f]) \in Int /\ Room(o + l, off[g]) \in Int /\ Step(o + l, m) \in Int
      <4>1. o + l \in Nat /\ RoundUp(o + l) \in Nat
        BY <2>4, RoundUpBounds
      <4>. QED
        BY <3>3, <4>1, GeometryAssumption DEF Room, FileLength, Step
    <3>. QED
      BY <3>1, <3>2, <3>3, <3>4
  <2>. QED
    BY <2>6, <2>7
<1>10. InTurn'
  <2>1. LastEnd' = off[n] + len[n]
    BY <1>1 DEF LastEnd
  <2>. QED
    BY <1>1, <1>2, <1>5, <1>9, <2>1 DEF InTurn, HeaderThere, Intact
<1>. QED
  BY <1>1, <1>2, <1>5, <1>6, <1>7, <1>8, <1>10 DEF FileInv

\* the other steps of the recorder and those of the walk
LEMMA SameFrames ==
  ASSUME RecoverTypeOK, FileInv, UNCHANGED <<n, off, len, last, prior, saved, unsaved>>,
         wr' = wr \/ (wr \in {"toc", "oldest", "store"} /\ wr' \in {"oldest", "store", "idle"})
  PROVE  /\ FileInv' /\ Chain' = Chain /\ WrittenEnd' = WrittenEnd
         /\ \A f, k : Clear(f, k)' <=> Clear(f, k)
<1>1. Putting' <=> Putting
  BY DEF Putting
<1>2. Chain' = Chain /\ LastEnd' = LastEnd /\ WrittenEnd' = WrittenEnd
  BY <1>1 DEF Chain, OnChain, WrittenEnd, LastEnd
<1>3. \A f, k : Clear(f, k)' <=> Clear(f, k)
  BY <1>2 DEF Clear, Whole, Intact
<1>4. FramesOK' /\ Links' /\ SavedClear'
  BY <1>2 DEF FileInv, FramesOK, Links, After, OnChain, SavedClear, Clear, Whole, Intact
<1>5. Ends'
  <2>1. wr \in {"toc", "oldest", "store"} => ~Putting
    BY DEF Putting
  <2>2. wr' = "idle" => last \in {n, saved}
    BY DEF FileInv, Ends
  <2>3. wr' \in {"toc", "oldest", "store"} => n > 0 /\ last = n
    BY DEF FileInv, Ends
  <2>. QED
    BY <1>1, <2>2, <2>3 DEF FileInv, Ends, OnChain
<1>6. InTurn'
  BY <1>2 DEF FileInv, InTurn, HeaderThere, Intact
<1>. QED
  BY <1>2, <1>3, <1>4, <1>5, <1>6 DEF FileInv

LEMMA SaveFile ==
  ASSUME RecoverTypeOK, FileInv, SaveHdr
  PROVE  /\ FileInv' /\ Chain' = Chain /\ WrittenEnd' = WrittenEnd
         /\ \A f, k : Clear(f, k)' <=> Clear(f, k)
<1>1. /\ wr = "idle" /\ saved # last /\ saved' = last /\ unsaved' = 0
      /\ UNCHANGED <<n, off, len, last, prior, wr>> /\ last = n /\ n \in Nat
  BY CountFacts DEF SaveHdr, vars, FileInv, Ends
<1>2. Chain' = Chain /\ LastEnd' = LastEnd /\ WrittenEnd' = WrittenEnd
  BY <1>1 DEF Chain, OnChain, WrittenEnd, LastEnd, Putting
<1>3. \A f, k : Clear(f, k)' <=> Clear(f, k)
  BY <1>1, <1>2 DEF Clear, Whole, Intact
<1>4. FramesOK' /\ Links' /\ InTurn'
  BY <1>1, <1>2 DEF FileInv, FramesOK, Links, After, OnChain, InTurn, HeaderThere, Intact
<1>5. Ends'
  BY <1>1 DEF FileInv, Ends, OnChain, Putting
<1>6. n > 0 => Clear(n, MaxUnsaved)
  <2>. SUFFICES ASSUME n > 0 PROVE Clear(n, MaxUnsaved)
    OBVIOUS
  <2>1. n \in 1 .. n /\ off[n] \in Nat /\ len[n] \in Lengths
    <3>1. n \in 1 .. n
      BY <1>1
    <3>. QED
      BY <3>1, CountFacts, PlaceFacts
  <2>2. Whole(n)
    BY <1>1 DEF Whole, Intact
  <2>. QED
    BY <1>1, <2>1, <2>2, NewestClear DEF Clear, WrittenEnd, LastEnd, Putting
<1>7. SavedClear'
  <2>1. MaxUnsaved - 0 = MaxUnsaved
    BY CountFacts
  <2>. QED
    BY <1>1, <1>2, <1>6, <2>1 DEF SavedClear, Clear, Whole, Intact
<1>. QED
  BY <1>2, <1>3, <1>4, <1>5, <1>7 DEF FileInv

\* Restart: the chain goes back to the frame the header in the file names
LEMMA RestartFile ==
  ASSUME RecoverTypeOK, FileInv, Restart
  PROVE  FileInv' /\ (last' > 0 => Clear(last, MaxUnsaved)')
<1>1. /\ last' = saved /\ saved' = saved /\ unsaved' = 0 /\ wr' = "idle" /\ UNCHANGED <<n, off, len, prior>>
      /\ n \in Nat /\ saved \in 0 .. last /\ last \in 0 .. n /\ FramesOK /\ Links /\ OnChain(saved)
  BY CountFacts DEF Restart, FileInv
<1>2. Chain' = {f \in Chain : f <= saved}
  BY <1>1 DEF Chain, OnChain
<1>3. FramesOK' /\ Links' /\ Ends'
  BY <1>1 DEF FileInv, FramesOK, Links, After, OnChain, Ends, Putting
<1>4. saved > 0 => /\ saved \in Chain /\ saved \in 1 .. n /\ off[saved] \in Nat /\ len[saved] \in Lengths
                   /\ Whole(saved) /\ Margin(off[saved] + len[saved], off[saved], MaxUnsaved)
  <2>. SUFFICES ASSUME saved > 0
                PROVE  /\ saved \in Chain /\ saved \in 1 .. n /\ off[saved] \in Nat /\ len[saved] \in Lengths
                       /\ Whole(saved) /\ Margin(off[saved] + len[saved], off[saved], MaxUnsaved)
    OBVIOUS
  <2>1. saved \in Chain /\ saved \in 1 .. n /\ Whole(saved)
    BY <1>1, CountFacts DEF FileInv, SavedClear, Clear
  <2>2. off[saved] \in Nat /\ len[saved] \in Lengths
    BY <1>1, <2>1, PlaceFacts
  <2>. QED
    BY <2>1, <2>2, NewestClear
<1>5. WrittenEnd' = off[saved] + len[saved] /\ LastEnd' = off[saved] + len[saved]
  BY <1>1 DEF WrittenEnd, Putting, LastEnd
<1>6. saved > 0 => Clear(saved, MaxUnsaved)'
  BY <1>1, <1>4, <1>5 DEF Clear, Whole, Intact
<1>7. SavedClear'
  <2>1. MaxUnsaved - 0 = MaxUnsaved
    BY CountFacts
  <2>. QED
    BY <1>1, <1>6, <2>1 DEF SavedClear, Clear, Whole, Intact
<1>8. ASSUME NEW f \in Chain, NEW g \in Chain, f < g, g <= saved, HeaderThere(f)
      PROVE  /\ HeaderThere(g)
             /\ Room(off[saved] + len[saved], off[f]) + len[f] <= Room(off[saved] + len[saved], off[g])
  <2>1. Chain \subseteq 1 .. n /\ f \in Nat /\ g \in Nat /\ f < saved /\ 0 < f
    BY <1>1, <1>8, CountFacts
  <2>2. f \in 1 .. n /\ g \in 1 .. n /\ saved \in Chain /\ saved \in 1 .. n /\ last \in 1 .. n
    BY <1>1, <1>4, <2>1
  <2>. DEFINE e == off[last] + len[last]
              o == off[saved]
              l == len[saved]
  <2>3. /\ off[last] \in Nat /\ len[last] \in Nat /\ e \in Nat /\ e <= FileSize
        /\ o \in Nat /\ l \in Nat /\ l \in Lengths /\ l > 0 /\ o > 0 /\ o + l <= FileSize
        /\ off[f] \in Nat /\ len[f] \in Nat /\ len[f] > 0 /\ off[f] > 0 /\ off[f] + len[f] <= FileSize
        /\ off[g] \in Nat /\ len[g] \in Nat /\ len[g] > 0 /\ off[g] > 0 /\ off[g] + len[g] <= FileSize
    BY <1>1, <2>2, PlaceFacts
  <2>4. HeaderThere(g) /\ Room(e, off[f]) + len[f] <= Room(e, off[g])
    BY <1>8 DEF FileInv, InTurn, LastEnd
  <2>5. Room(e, off[f]) + len[f] <= Room(e, o)
    BY <1>8, <2>1, <2>2 DEF FileInv, InTurn, LastEnd
  <2>6. o + l <= e \/ e <= o
    <3>1. saved = last \/ last \in saved + 1 .. n
      BY <1>1, <2>2
    <3>. QED
      BY <1>1, <1>4, <2>2, <3>1, WholeBeside DEF Whole, Intact
  <2>. HIDE DEF e
  <2>7. Room(e, o) + l <= FileSize
    BY <2>3, <2>6, GeometryAssumption DEF Room, FileLength
  <2>8. Room(o + l, off[f]) = Room(e, off[f]) + FileSize - Room(e, o) - l
    BY <2>3, <2>5, <2>7, SeenFrom
  <2>9. /\ Room(e, off[f]) \in Int /\ Room(e, off[g]) \in Int /\ Room(e, o) \in Int /\ FileSize \in Nat
    BY <2>3, GeometryAssumption DEF Room, FileLength
  <2>10. CASE g = saved
    <3>1. Room(o + l, o) = FileSize - l
      BY <2>3, NewestClear
    <3>. QED
      BY <2>3, <2>4, <2>5, <2>8, <2>9, <2>10, <3>1
  <2>11. CASE g # saved
    <3>1. Room(e, off[g]) + len[g] <= Room(e, o)
      <4>1. g < saved
        BY <1>1, <1>8, <2>1, <2>11
      <4>. QED
        BY <2>2, <2>4, <4>1 DEF FileInv, InTurn, LastEnd, e
    <3>2. Room(o + l, off[g]) = Room(e, off[g]) + FileSize - Room(e, o) - l
      BY <2>3, <2>7, <3>1, SeenFrom
    <3>. QED
      BY <2>3, <2>4, <2>8, <2>9, <3>2
  <2>. QED
    BY <2>10, <2>11
<1>9. InTurn'
  BY <1>1, <1>2, <1>5, <1>8 DEF InTurn, HeaderThere, Intact
<1>10. last' > 0 => Clear(last, MaxUnsaved)'
  BY <1>1, <1>6 DEF Clear, Whole, Intact
<1>. QED
  BY <1>3, <1>7, <1>9, <1>10 DEF FileInv

-----------------------------------------------------------------------------
(* The table.  While rp_toc_init_thread has not come to the entries of this *)
(* process, the table is what both have made: from the entry it made last, *)
(* round the end of the table, to rp_toc_idx_next.                         *)

Pred(i) == IF i = 0 THEN MaxToc - 1 ELSE i - 1
Succ(i) == IF i = MaxToc - 1 THEN 0 ELSE i + 1

Walkable == ini.pc # "done" /\ ini.idx > next

\* entries made, of which Base is the first; those from oldest on when the
\* walk is over
Live == IF Walkable THEN {i \in Indices : i < next \/ i > ini.idx} ELSE Window
Base == IF Walkable THEN Succ(ini.idx) ELSE oldest

\* the newest frame in the table; the frame that the walk comes to
Newest == IF wr = "toc" THEN prior[last] ELSE last
AtFrame == IF Base \in Live THEN prior[toc[Base].time] ELSE Newest

\* the recorder has made an entry, which is not looked at as the oldest yet;
\* it is about to make one
Named == wr \in {"oldest", "store"}
Coming == IF wr \in {"hdr", "toc", "exited"} THEN 1 ELSE 0

\* the entries are the newest frames of the chain
Entries ==
  /\ \A i \in Live : toc[i].time \in Chain /\ toc[i] = Entry(toc[i].time)
  /\ \A i \in Live : i # Base => Pred(i) \in Live /\ prior[toc[i].time] = toc[Pred(i)].time
  /\ Pred(next) \in Live => toc[Pred(next)].time = Newest
  /\ Named => toc[Pred(next)] = Entry(last)

Oldest ==
  /\ oldest = Empty => ini.idx = MaxToc - 1 /\ next = (IF Named THEN 1 ELSE 0)
  /\ oldest # Empty =>
       /\ oldest \in Live /\ oldest # (IF Named THEN Pred(next) ELSE next)
       /\ Clear(toc[oldest].time, IF wr = "idle" THEN 1 ELSE 0)

\* the value that the recorder stores still names a frame after a store of
\* the walk
Storing ==
  wr = "store" =>
    /\ ti \in Window \/ (oldest = Empty /\ ti = Pred(next))
    /\ ti # next /\ Clear(toc[ti].time, 1)
    /\ ~raced => ti = IF oldest = Empty THEN TiLast ELSE ScanEnd

\* The walk is where it should be, and what it has found to be clear of the
\* recorder is so until its store.
Walk ==
  /\ Walkable =>
       /\ ini.at = OffsetOf(AtFrame)
       /\ ini.time = IF ini.idx = MaxToc - 1 THEN MaxWrites + 1 ELSE toc[Base].time
       /\ ini.idx = MaxToc - 1 /\ ini.pc = "read" /\ AtFrame > 0 =>
            next + Coming <= MaxUnsaved /\ Clear(AtFrame, MaxUnsaved - (next + Coming))
  /\ ini.pc = "store" =>
       /\ Walkable /\ ini.got > 0 /\ ini.got = AtFrame
       /\ Clear(ini.got, ReadLag + 1 - ini.lag)
       /\ ini.idx + ini.lag + 1 > next + TocGap + Coming
  /\ ini.pc # "done" => next + Coming < MaxToc

RecoverInv == RecoverTypeOK /\ FileInv /\ Entries /\ Oldest /\ Storing /\ Walk

LEMMA IndexFacts ==
  ASSUME RecoverTypeOK
  PROVE  /\ MaxToc \in Nat /\ TocGap \in Nat /\ ReadLag \in Nat /\ 1 < TocGap /\ TocGap + 1 < MaxToc
         /\ 0 < ReadLag /\ ReadLag < TocGap
         /\ next \in 0 .. MaxToc - 1 /\ oldest \in -1 .. MaxToc - 1 /\ ti \in -1 .. MaxToc - 1
         /\ oldest # Empty => oldest \in 0 .. MaxToc - 1
         /\ ini.pc \in {"read", "store", "done"} /\ ini.at \in Nat /\ ini.idx \in -1 .. MaxToc - 1
         /\ ini.time \in Nat /\ ini.lag \in 0 .. ReadLag /\ ini.got \in Nat
BY RingAssumption, UnsavedAssumption, WritesAssumption
   DEF RecoverTypeOK, InitThread, Indices, Empty, Numbers

\* indices that wrap
LEMMA WrapFacts ==
  ASSUME NEW i \in 0 .. MaxToc - 1
  PROVE  /\ (i + MaxToc - 1) % MaxToc = Pred(i) /\ (i + 1) % MaxToc = Succ(i)
         /\ Pred(i) \in 0 .. MaxToc - 1 /\ Succ(i) \in 0 .. MaxToc - 1
<1>1. MaxToc \in Nat /\ MaxToc > 2
  BY RingAssumption
<1>. PICK a \in 0 .. 2 * MaxToc - 1, b \in 0 .. 2 * MaxToc - 1 : a = i + MaxToc - 1 /\ b = i + 1
  BY <1>1
<1>2. MaxToc \in Nat \ {0}
  BY <1>1
<1>3. /\ a % MaxToc = IF a < MaxToc THEN a ELSE a - MaxToc
      /\ b % MaxToc = IF b < MaxToc THEN b ELSE b - MaxToc
  BY <1>2, Wrap
<1>. QED
  BY <1>1, <1>3 DEF Pred, Succ

LEMMA WindowIn ==
  ASSUME RecoverTypeOK
  PROVE  /\ Window \subseteq 0 .. MaxToc - 1
         /\ oldest = Empty => Window = {}
         /\ oldest # Empty =>
              /\ oldest \in Window
              /\ \A i \in 0 .. MaxToc - 1 :
                   i \in Window <=> IF oldest < next THEN oldest <= i /\ i < next
                                    ELSE i < next \/ oldest <= i
<1>1. /\ MaxToc \in Nat /\ MaxToc > 2 /\ next \in 0 .. MaxToc - 1
      /\ oldest # Empty => oldest \in 0 .. MaxToc - 1
  BY IndexFacts
<1>2. CASE oldest = Empty
  BY <1>2 DEF Window
<1>3. CASE oldest # Empty
  <2>1. Window = IF oldest < next THEN oldest .. next - 1 ELSE 0 .. MaxToc - 1 \ (next .. oldest - 1)
    BY <1>3 DEF Window, Indices
  <2>. HIDE DEF Window
  <2>2. CASE oldest < next
    BY <1>1, <1>3, <2>1, <2>2
  <2>3. CASE ~(oldest < next)
    BY <1>1, <1>3, <2>1, <2>3
  <2>. QED
    BY <2>2, <2>3
<1>. QED
  BY <1>2, <1>3

\* The window is a part of the entries made, and begins no earlier.
LEMMA WindowLive ==
  ASSUME RecoverTypeOK, Oldest
  PROVE  /\ Window \subseteq Live /\ Live \subseteq 0 .. MaxToc - 1
         /\ \A i \in Window : i # oldest => Pred(i) \in Window /\ i # Base
         /\ \A i \in 0 .. MaxToc - 1 : Walkable => (i \in Live <=> i < next \/ i > ini.idx)
<1>1. /\ MaxToc \in Nat /\ MaxToc > 2 /\ next \in 0 .. MaxToc - 1 /\ ini.idx \in -1 .. MaxToc - 1
      /\ oldest # Empty => oldest \in 0 .. MaxToc - 1
  BY IndexFacts
<1>2. Walkable => /\ Live = {i \in 0 .. MaxToc - 1 : i < next \/ i > ini.idx} /\ Base = Succ(ini.idx)
                  /\ next < ini.idx
  BY <1>1 DEF Live, Base, Walkable, Indices
<1>3. ~Walkable => Live = Window /\ Base = oldest
  BY DEF Live, Base
<1>4. oldest # Empty => oldest \in Live
  BY DEF Oldest
<1>5. Live \subseteq 0 .. MaxToc - 1
  BY <1>2, <1>3, WindowIn
<1>6. ASSUME oldest # Empty, NEW i \in Window, i # oldest PROVE Pred(i) \in Window
  <2>1. i \in 0 .. MaxToc - 1 /\ Pred(i) \in 0 .. MaxToc - 1
    BY <1>6, WindowIn, WrapFacts
  <2>2. IF oldest < next THEN oldest <= i /\ i < next ELSE i < next \/ oldest <= i
    BY <1>6, <2>1, WindowIn
  <2>3. IF oldest < next THEN oldest <= Pred(i) /\ Pred(i) < next ELSE Pred(i) < next \/ oldest <= Pred(i)
    BY <1>1, <1>6, <2>1, <2>2 DEF Pred
  <2>. QED
    BY <1>6, <2>1, <2>3, WindowIn
<1>7. ASSUME Walkable, oldest # Empty, NEW i \in Window PROVE i \in Live /\ (i # oldest => i # Base)
  <2>1. i \in 0 .. MaxToc - 1 /\ (oldest < next \/ ini.idx < oldest)
    BY <1>1, <1>2, <1>4, <1>7, WindowIn
  <2>2. IF oldest < next THEN oldest <= i /\ i < next ELSE i < next \/ oldest <= i
    BY <1>7, <2>1, WindowIn
  <2>3. i < next \/ i > ini.idx
    BY <1>1, <1>7, <2>1, <2>2
  <2>4. i # oldest => i # Succ(ini.idx)
    BY <1>1, <1>2, <1>7, <2>1, <2>2 DEF Succ
  <2>. QED
    BY <1>2, <1>7, <2>1, <2>3, <2>4
<1>8. oldest = Empty => Window = {}
  BY WindowIn
<1>. QED
  BY <1>2, <1>3, <1>5, <1>6, <1>7, <1>8

\* what the entries are, and the frame that the walk comes to
LEMMA LiveFacts ==
  ASSUME RecoverInv
  PROVE  /\ \A i \in Live :
              /\ i \in 0 .. MaxToc - 1 /\ toc[i] = Entry(toc[i].time)
              /\ toc[i].time \in Chain /\ toc[i].time \in 1 .. n /\ toc[i].time \in 1 .. last
              /\ toc[i].div * Align = off[toc[i].time]
         /\ Newest \in {0} \cup Chain /\ AtFrame \in {0} \cup Chain
         /\ Window \subseteq Live
<1>1. RecoverTypeOK /\ FileInv /\ Entries /\ Oldest /\ FramesOK
  BY DEF RecoverInv, FileInv
<1>2. Window \subseteq Live /\ Live \subseteq 0 .. MaxToc - 1
  BY <1>1, WindowLive
<1>3. Chain \subseteq 1 .. n /\ Chain \subseteq 1 .. last /\ n \in Nat /\ last \in 0 .. n
  BY <1>1, CountFacts
<1>4. ASSUME NEW f \in Chain PROVE prior[f] \in {0} \cup Chain
  <2>1. f \in 1 .. n /\ f \in 1 .. last /\ OnChain(f)
    BY <1>3, <1>4 DEF Chain
  <2>2. prior[f] \in 0 .. f - 1 /\ OnChain(prior[f])
    BY <1>1, <2>1 DEF FileInv, Links
  <2>3. prior[f] = 0 \/ prior[f] \in 1 .. last
    BY <1>3, <2>1, <2>2
  <2>. QED
    BY <2>2, <2>3 DEF Chain
<1>5. last \in {0} \cup Chain
  BY <1>1, <1>3, CountFacts
<1>6. Newest \in {0} \cup Chain
  <2>1. wr = "toc" => last \in Chain
    <3>1. wr = "toc" => last > 0
      BY <1>1, <1>3 DEF FileInv, Ends
    <3>. QED
      BY <1>5, <3>1
  <2>. QED
    BY <1>4, <1>5, <2>1 DEF Newest
<1>7. \A i \in Live : toc[i].time \in Chain /\ toc[i] = Entry(toc[i].time)
  BY <1>1 DEF Entries
<1>8. AtFrame \in {0} \cup Chain
  BY <1>4, <1>6, <1>7 DEF AtFrame
<1>9. ASSUME NEW i \in Live PROVE toc[i].div * Align = off[toc[i].time]
  <2>. PICK t \in 1 .. n : t = toc[i].time
    BY <1>3, <1>7
  <2>1. toc[i] = Entry(t)
    BY <1>7
  <2>2. toc[i].div = off[t] \div Align
    BY <2>1 DEF Entry
  <2>3. (off[t] \div Align) * Align = off[t]
    BY <1>1, PlaceFacts
  <2>. QED
    BY <2>2, <2>3
<1>. QED
  BY <1>2, <1>3, <1>6, <1>7, <1>8, <1>9

\* The newer frames of the chain are whole when an older one is.
LEMMA ChainWhole ==
  ASSUME RecoverTypeOK, FileInv, NEW f \in Chain, NEW g \in Chain, f <= g, Whole(f)
  PROVE  Whole(g)
<1>1. f \in 1 .. n /\ g \in 1 .. n /\ OnChain(g) /\ FramesOK
  BY CountFacts DEF Chain
<1>2. HeaderThere(f)
  BY <1>1, WholeHeader
<1>3. HeaderThere(g)
  BY <1>1, <1>2 DEF FileInv, InTurn
<1>. QED
  BY <1>1, <1>3, HeaderSuffices

\* entries of the table in use, and how many places after the oldest one an
\* entry is
Size == IF oldest < next THEN next - oldest ELSE next + MaxToc - oldest
PlaceOf(i) == IF oldest <= i THEN i - oldest ELSE i + MaxToc - oldest

LEMMA WindowPlaces ==
  ASSUME RecoverTypeOK, oldest # Empty
  PROVE  /\ Size \in 1 .. MaxToc /\ At(oldest, Size - 1) = Pred(next)
         /\ \A i \in 0 .. MaxToc - 1 :
              /\ PlaceOf(i) \in 0 .. MaxToc - 1 /\ At(oldest, PlaceOf(i)) = i
              /\ i \in Window <=> PlaceOf(i) < Size
         /\ \A k \in 0 .. MaxToc - 1 : At(oldest, k) \in 0 .. MaxToc - 1 /\ PlaceOf(At(oldest, k)) = k
<1>1. MaxToc \in Nat /\ MaxToc > 2 /\ next \in 0 .. MaxToc - 1 /\ oldest \in 0 .. MaxToc - 1
  BY IndexFacts
<1>2. \A i \in 0 .. MaxToc - 1 :
        i \in Window <=> IF oldest < next THEN oldest <= i /\ i < next ELSE i < next \/ oldest <= i
  BY WindowIn
<1>3. \A i \in 0 .. MaxToc - 1 : i \in Window <=> PlaceOf(i) < Size
  BY <1>1, <1>2 DEF PlaceOf, Size
<1>. QED
  BY <1>1, <1>3 DEF PlaceOf, Size, At, Pred

\* Every entry in use names a frame that is whole: the oldest does, and each
\* other one a newer frame than the entry before.
LEMMA WindowWhole ==
  ASSUME RecoverInv, NEW i \in Window
  PROVE  Whole(toc[i].time)
<1>1. RecoverTypeOK /\ FileInv /\ Entries /\ Oldest /\ oldest # Empty
  BY WindowIn DEF RecoverInv
<1>. DEFINE T == {PlaceOf(j) : j \in {k \in Window : ~Whole(toc[k].time)}}
<1>2. Window \subseteq 0 .. MaxToc - 1 /\ Window \subseteq Live
  BY <1>1, WindowIn, WindowLive
<1>3. ASSUME T # {} PROVE FALSE
  <2>1. T \in SUBSET Nat
    BY <1>1, <1>2, WindowPlaces
  <2>. HIDE DEF T
  <2>2. PICK m \in T : \A k \in T : m <= k
    BY <1>3, <2>1, Least
  <2>3. PICK j \in Window : m = PlaceOf(j) /\ ~Whole(toc[j].time)
    BY <2>2 DEF T
  <2>4. j # oldest
    BY <1>1, <2>3 DEF Oldest, Clear
  <2>5. Pred(j) \in Window /\ j # Base /\ PlaceOf(Pred(j)) < m
    <3>1. Pred(j) \in Window /\ j # Base
      BY <1>1, <2>3, <2>4, WindowLive
    <3>2. j \in 0 .. MaxToc - 1 /\ oldest \in 0 .. MaxToc - 1 /\ MaxToc \in Nat
      BY <1>1, <1>2, IndexFacts
    <3>. QED
      BY <2>3, <2>4, <3>1, <3>2 DEF PlaceOf, Pred
  <2>6. Whole(toc[Pred(j)].time)
    <3>1. PlaceOf(Pred(j)) \in Nat /\ m \in Nat
      <4>1. Pred(j) \in 0 .. MaxToc - 1 /\ m \in Nat
        BY <1>2, <2>1, <2>2, <2>5
      <4>2. PlaceOf(Pred(j)) \in 0 .. MaxToc - 1
        BY <1>1, <4>1, WindowPlaces
      <4>. QED
        BY <4>1, <4>2
    <3>2. PlaceOf(Pred(j)) \notin T
      BY <2>2, <2>5, <3>1
    <3>. QED
      BY <2>5, <3>2 DEF T
  <2>. PICK f, g : f = toc[Pred(j)].time /\ g = toc[j].time
    OBVIOUS
  <2>7. f \in Chain /\ g \in Chain /\ g \in 1 .. n /\ f = prior[g]
    <3>1. j \in Live /\ Pred(j) \in Live
      BY <1>2, <2>3, <2>5
    <3>2. f \in Chain /\ g \in Chain /\ f = prior[g]
      BY <1>1, <2>5, <3>1 DEF Entries
    <3>. QED
      BY <1>1, <3>2, CountFacts
  <2>8. f <= g
    <3>1. prior[g] \in 0 .. g - 1
      BY <1>1, <2>7, CountFacts
    <3>. QED
      BY <2>7, <3>1
  <2>. QED
    BY <1>1, <2>3, <2>6, <2>7, <2>8, ChainWhole
<1>. QED
  BY <1>3

\* entries passed over because the gap after the newest must stay free
Skip == IF Size > MaxToc - TocGap + 1 THEN Size - (MaxToc - TocGap + 1) ELSE 0

\* The loop that moves rp_toc_idx_oldest begins at an entry in use, and would
\* end at the newest one.
LEMMA ScanBegins ==
  ASSUME RecoverInv, Named, oldest # Empty
  PROVE  /\ Size \in 2 .. MaxToc /\ Skip \in 0 .. Size - 1 /\ (Size = MaxToc => Skip > 0)
         /\ ScanStart = At(oldest, Skip) /\ TiLast = At(oldest, Size - 1) /\ TocRoomy(TiLast)
<1>1. RecoverTypeOK /\ FileInv /\ Entries /\ Oldest /\ FramesOK
  BY DEF RecoverInv, FileInv
<1>2. /\ MaxToc \in Nat /\ TocGap \in Nat /\ 1 < TocGap /\ TocGap + 1 < MaxToc
      /\ next \in 0 .. MaxToc - 1 /\ oldest \in 0 .. MaxToc - 1
  BY <1>1, IndexFacts
<1>3. TiLast = Pred(next) /\ Pred(next) = At(oldest, Size - 1)
  BY <1>1, <1>2, WrapFacts, WindowPlaces DEF TiLast
<1>4. Size \in 2 .. MaxToc
  <2>1. Size \in 1 .. MaxToc /\ oldest # Pred(next)
    BY <1>1, WindowPlaces DEF Oldest
  <2>2. Size # 1
    BY <1>2, <2>1 DEF Size, Pred
  <2>. QED
    BY <1>2, <2>1, <2>2
<1>5. Skip \in 0 .. Size - 1 /\ (Size = MaxToc => Skip > 0)
  <2>. HIDE DEF Size
  <2>. QED
    BY <1>2, <1>4 DEF Skip
<1>6. ScanStart = At(oldest, Skip)
  <2>. DEFINE o == IF oldest < TiLast THEN oldest + MaxToc ELSE oldest
              a == IF o - TiLast < TocGap THEN TiLast + TocGap ELSE o
  <2>1. a \in 0 .. 2 * MaxToc - 1
        /\ (IF a < MaxToc THEN a ELSE a - MaxToc) = At(oldest, Skip)
    BY <1>2, <1>3, <1>4 DEF At, Skip, Size
  <2>2. ScanStart = a % MaxToc
    BY DEF ScanStart
  <2>. HIDE DEF a
  <2>. QED
    BY <2>1, <2>2, WrapIndex
<1>7. TocRoomy(TiLast)
  <2>1. last \in 1 .. n /\ toc[TiLast] = Entry(last)
    <3>1. last > 0 /\ last \in 0 .. n
      BY <1>1, CountFacts DEF FileInv, Ends, Named
    <3>. QED
      BY <1>1, <1>3, <3>1 DEF Entries
  <2>2. off[last] \in Nat /\ len[last] \in Lengths /\ toc[TiLast].div * Align = off[last]
    BY <1>1, <2>1, PlaceFacts DEF Entry
  <2>. QED
    BY <2>2, NewestRoomy DEF TocRoomy, LastEnd
<1>. QED
  BY <1>3, <1>4, <1>5, <1>6, <1>7

\* It ends at the first entry in use that is roomy, the gap apart.
LEMMA ScanTable ==
  ASSUME RecoverInv, Named, oldest # Empty
  PROVE  /\ Passed \in 0 .. MaxToc - 1
         /\ \A k \in 0 .. Passed : (ScanStart + k) % MaxToc \in Window
         /\ ScanEnd \in Window /\ ScanEnd # next /\ TocRoomy(ScanEnd)
         /\ \A i \in Window : PlaceOf(i) < PlaceOf(ScanEnd) => ~TocRoomy(i) \/ Size > MaxToc - TocGap
<1>. DEFINE g == Skip
            s == Size
            P(k) == /\ TocRoomy((ScanStart + k) % MaxToc)
                    /\ \A j \in 0 .. k - 1 : ~TocRoomy((ScanStart + j) % MaxToc)
            T == {j \in 0 .. s - 1 - g : TocRoomy((ScanStart + j) % MaxToc)}
<1>1. /\ s \in 2 .. MaxToc /\ g \in 0 .. s - 1 /\ (s = MaxToc => g > 0)
      /\ ScanStart = At(oldest, g) /\ TiLast = At(oldest, s - 1) /\ TocRoomy(TiLast)
      /\ g > 0 => s > MaxToc - TocGap
  BY ScanBegins, IndexFacts DEF Skip, RecoverInv
<1>2. /\ oldest \in 0 .. MaxToc - 1 /\ MaxToc \in Nat /\ TocGap \in Nat /\ next \in 0 .. MaxToc - 1
      /\ RecoverTypeOK /\ oldest \in Indices
  BY IndexFacts DEF RecoverInv, Indices
<1>3. /\ \A i \in 0 .. MaxToc - 1 :
           /\ PlaceOf(i) \in 0 .. MaxToc - 1 /\ At(oldest, PlaceOf(i)) = i
           /\ i \in Window <=> PlaceOf(i) < s
      /\ \A k \in 0 .. MaxToc - 1 : At(oldest, k) \in 0 .. MaxToc - 1 /\ PlaceOf(At(oldest, k)) = k
  BY <1>2, WindowPlaces
<1>4. s # MaxToc => PlaceOf(next) = s
  BY <1>2 DEF PlaceOf, Size
<1>5. s = MaxToc => PlaceOf(next) = 0
  BY <1>2 DEF PlaceOf, Size
<1>. HIDE DEF g, s
<1>6. ASSUME NEW j \in 0 .. s - 1 - g
      PROVE  (ScanStart + j) % MaxToc = At(oldest, g + j)
  <2>1. g \in 0 .. MaxToc /\ j \in 0 .. MaxToc /\ g + j <= MaxToc
    BY <1>1, <1>2
  <2>. QED
    BY <1>1, <1>2, <2>1, AtPlus
<1>7. s - 1 - g \in T
  <2>1. s - 1 - g \in 0 .. s - 1 - g /\ g + (s - 1 - g) = s - 1
    BY <1>1
  <2>2. (ScanStart + (s - 1 - g)) % MaxToc = TiLast
    BY <1>1, <1>6, <2>1
  <2>. QED
    BY <1>1, <2>1, <2>2
<1>8. PICK m \in T : \A k \in T : m <= k
  <2>1. T \in SUBSET Nat /\ T # {}
    BY <1>1, <1>7
  <2>. HIDE DEF T
  <2>. QED
    BY <2>1, Least
<1>9. m \in 0 .. s - 1 - g /\ P(m) /\ m \in Indices
  <2>1. m \in 0 .. s - 1 - g /\ TocRoomy((ScanStart + m) % MaxToc)
    BY <1>8
  <2>2. ASSUME NEW j \in 0 .. m - 1 PROVE ~TocRoomy((ScanStart + j) % MaxToc)
    <3>1. j \in 0 .. s - 1 - g /\ ~(m <= j)
      BY <1>1, <2>1
    <3>. QED
      BY <1>8, <3>1
  <2>3. m \in Indices
    BY <1>1, <1>2, <2>1 DEF Indices
  <2>. QED
    BY <2>1, <2>2, <2>3
<1>10. Passed \in Indices /\ P(Passed)
  BY <1>9 DEF Passed
<1>11. Passed \in 0 .. s - 1 - g
  <2>1. ~(m < Passed)
    BY <1>1, <1>9, <1>10 DEF Indices
  <2>. QED
    BY <1>1, <1>9, <1>10, <2>1 DEF Indices
<1>12. ASSUME NEW k \in 0 .. s - 1 - g PROVE (ScanStart + k) % MaxToc \in Window
  <2>1. g + k \in 0 .. MaxToc - 1 /\ g + k < s
    BY <1>1, <1>2
  <2>. QED
    BY <1>3, <1>6, <2>1
<1>13. \A k \in 0 .. Passed : (ScanStart + k) % MaxToc \in Window
  BY <1>1, <1>11, <1>12
<1>14. ScanEnd \in Window /\ TocRoomy(ScanEnd) /\ ScanEnd \in 0 .. MaxToc - 1
       /\ PlaceOf(ScanEnd) = g + Passed
  <2>1. g + Passed \in 0 .. MaxToc - 1
    BY <1>1, <1>2, <1>11
  <2>2. ScanEnd = At(oldest, g + Passed)
    BY <1>6, <1>11 DEF ScanEnd
  <2>. QED
    BY <1>3, <1>10, <1>11, <1>12, <2>1, <2>2 DEF ScanEnd
<1>15. ScanEnd # next
  BY <1>1, <1>3, <1>4, <1>5, <1>11, <1>14
<1>16. ASSUME NEW i \in Window, PlaceOf(i) < PlaceOf(ScanEnd), s <= MaxToc - TocGap PROVE ~TocRoomy(i)
  <2>1. i \in 0 .. MaxToc - 1 /\ g = 0 /\ PlaceOf(i) \in 0 .. Passed - 1
        /\ PlaceOf(i) \in 0 .. s - 1 - g /\ g + PlaceOf(i) = PlaceOf(i)
    <3>1. i \in 0 .. MaxToc - 1
      BY <1>2, WindowIn
    <3>2. PlaceOf(i) \in 0 .. MaxToc - 1 /\ g = 0
      BY <1>1, <1>2, <1>3, <1>16, <3>1
    <3>. QED
      BY <1>1, <1>11, <1>14, <1>16, <3>1, <3>2
  <2>2. (ScanStart + PlaceOf(i)) % MaxToc = i
    BY <1>3, <1>6, <2>1
  <2>. QED
    BY <1>10, <2>1, <2>2
<1>17. Size = s /\ (s <= MaxToc - TocGap \/ s > MaxToc - TocGap) /\ Passed \in 0 .. MaxToc - 1
  BY <1>1, <1>2, <1>10 DEF s, Indices
<1>. QED
  BY <1>13, <1>14, <1>15, <1>16, <1>17

-----------------------------------------------------------------------------
(* The steps of the recorder keep the invariant. *)

LEMMA PutStep ==
  ASSUME RecoverInv, NEW l \in FrameLens, RecordFrame(l)
  PROVE  RecoverInv'
<1>1. RecoverTypeOK /\ FileInv /\ Entries /\ Oldest /\ Storing /\ Walk /\ FramesOK
  BY DEF RecoverInv, FileInv
<1>2. /\ n \in Nat /\ n' = n + 1 /\ n + 1 \in Numbers /\ wr = "idle" /\ wr' \in {"hdr", "exited"}
      /\ \A i \in 1 .. n : off'[i] = off[i] /\ len'[i] = len[i] /\ prior'[i] = prior[i]
      /\ unsaved' = unsaved + 1 /\ unsaved < MaxUnsaved
      /\ UNCHANGED <<last, toc, next, oldest, saved, ti, starts, raced>>
      /\ off' \in [Numbers -> 0 .. MaxOff - 1] /\ len' \in [Numbers -> Nat]
      /\ prior' \in [Numbers -> {0} \cup Numbers]
  BY <1>1, PutFacts
<1>3. FileInv' /\ Chain' = Chain
  BY <1>1, PutFile
<1>4. /\ ini'.pc = ini.pc /\ ini'.at = ini.at /\ ini'.time = ini.time /\ ini'.idx = ini.idx
      /\ ini'.got = ini.got /\ ini' \in InitThread
      /\ ini.pc = "store" => ini'.lag = ini.lag + 1 /\ ini.lag < ReadLag
      /\ ini.pc = "read" /\ ini.idx = MaxToc - 1 => next < MaxUnsaved
      /\ ini.pc # "done" => next < MaxToc - 1
  BY <1>1, IndexFacts DEF RecordFrame, Counted, RecoverTypeOK, InitThread
<1>5. RecoverTypeOK'
  <2>1. n' \in 0 .. MaxWrites /\ last \in 0 .. n' /\ saved \in 0 .. n' /\ unsaved' \in 0 .. MaxUnsaved
    BY <1>1, <1>2, CountFacts DEF Numbers
  <2>. QED
    BY <1>1, <1>2, <1>4, <2>1 DEF RecoverTypeOK
<1>6. /\ Live' = Live /\ Base' = Base /\ Newest' = Newest /\ (Walkable' <=> Walkable)
      /\ ~Named /\ ~Named' /\ Coming = 0 /\ Coming' = 1 /\ Live \subseteq 0 .. MaxToc - 1
  <2>1. (Walkable' <=> Walkable) /\ Window' = Window
    BY <1>2, <1>4 DEF Walkable, Window
  <2>. QED
    BY <1>1, <1>2, <1>4, <2>1, WindowLive DEF Live, Base, Newest, Named, Coming
<1>7. \A i \in Live : /\ toc[i].time \in 1 .. n /\ toc[i].time \in 1 .. last /\ toc[i].time \in Chain
                      /\ prior'[toc[i].time] = prior[toc[i].time]
                      /\ off'[toc[i].time] = off[toc[i].time]
  BY <1>2, LiveFacts
<1>8. AtFrame' = AtFrame /\ OffsetOf(AtFrame)' = OffsetOf(AtFrame) /\ (AtFrame > 0 => AtFrame \in 1 .. last)
  <2>1. AtFrame' = AtFrame
    BY <1>2, <1>6, <1>7 DEF AtFrame
  <2>2. AtFrame \in {0} \cup Chain /\ Chain \subseteq 1 .. n /\ Chain \subseteq 1 .. last
    BY <1>1, LiveFacts, CountFacts
  <2>. PICK c \in {0} \cup Chain : c = AtFrame
    BY <2>2
  <2>3. OffsetOf(c)' = OffsetOf(c)
    BY <1>2, <2>2 DEF OffsetOf
  <2>. QED
    BY <2>1, <2>2, <2>3 DEF OffsetOf
<1>9. Entries'
  BY <1>2, <1>3, <1>6, <1>7, <1>1 DEF Entries, Entry, Pred
<1>10. Oldest'
  <2>1. oldest = Empty => ini.idx = MaxToc - 1 /\ next = 0
    BY <1>1, <1>6 DEF Oldest
  <2>2. ASSUME oldest # Empty PROVE oldest \in Live /\ oldest # next /\ Clear(toc[oldest].time, 0)'
    <3>1. oldest \in Live /\ oldest # next /\ Clear(toc[oldest].time, 1)
      BY <1>1, <1>2, <1>6, <2>2 DEF Oldest
    <3>. PICK f \in 1 .. last : f = toc[oldest].time
      BY <1>7, <3>1
    <3>2. Clear(f, 1 - 1)'
      BY <1>1, <3>1, ClearWrite
    <3>. QED
      BY <1>2, <3>1, <3>2 DEF Clear
  <2>. QED
    BY <1>2, <1>4, <1>6, <2>1, <2>2 DEF Oldest, Clear
<1>11. Storing'
  BY <1>2 DEF Storing
<1>12. Walk'
  <2>1. ASSUME Walkable, ini.idx = MaxToc - 1, ini.pc = "read", AtFrame > 0
        PROVE  next + 1 <= MaxUnsaved /\ Clear(AtFrame, MaxUnsaved - (next + 1))'
    <3>1. next \in Nat /\ next < MaxUnsaved /\ MaxUnsaved \in Nat
      BY <1>1, <1>4, <2>1, IndexFacts, CountFacts
    <3>2. Clear(AtFrame, MaxUnsaved - (next + 0))
      BY <1>1, <1>6, <2>1 DEF Walk
    <3>. PICK f \in 1 .. last, k \in Nat : f = AtFrame /\ k = MaxUnsaved - next /\ k > 0
      BY <1>8, <2>1, <3>1
    <3>3. Clear(f, k - 1)'
      <4>1. Clear(f, k)
        BY <3>1, <3>2
      <4>. QED
        BY <1>1, <4>1, ClearWrite
    <3>4. k - 1 = MaxUnsaved - (next + 1)
      BY <3>1
    <3>. QED
      BY <1>2, <1>8, <3>1, <3>3, <3>4 DEF Clear
  <2>2. ASSUME ini.pc = "store"
        PROVE  /\ Clear(ini.got, ReadLag + 1 - ini.lag)'
               /\ ini.idx + ini'.lag + 1 > next + TocGap + 1
    <3>1. /\ ini.got > 0 /\ ini.got = AtFrame /\ Clear(ini.got, ReadLag + 1 - ini.lag)
          /\ ini.idx + ini.lag + 1 > next + TocGap + 0
      BY <1>1, <1>6, <2>2 DEF Walk
    <3>2. ini.lag \in Nat /\ ini.lag < ReadLag /\ ReadLag \in Nat /\ ini'.lag = ini.lag + 1
          /\ ini.idx \in Int /\ next \in Nat /\ TocGap \in Nat
      BY <1>1, <1>4, <2>2, IndexFacts
    <3>. PICK f \in 1 .. last, k \in Nat : f = ini.got /\ k = ReadLag + 1 - ini.lag /\ k > 0
      BY <1>8, <3>1, <3>2
    <3>3. Clear(f, k - 1)'
      BY <1>1, <3>1, ClearWrite
    <3>4. ini'.got = f /\ ReadLag + 1 - ini'.lag = k - 1 /\ ini.idx + ini'.lag + 1 > next + TocGap + 1
      BY <1>4, <3>1, <3>2
    <3>. QED
      BY <3>3, <3>4 DEF Clear
  <2>4. ini.pc # "done" => next + 1 < MaxToc
    BY <1>1, <1>4, IndexFacts
  <2>5. Walkable => /\ ini.at = OffsetOf(AtFrame)
                    /\ ini.time = IF ini.idx = MaxToc - 1 THEN MaxWrites + 1 ELSE toc[Base].time
    BY <1>1 DEF Walk
  <2>6. ini.pc = "store" => Walkable /\ ini.got > 0 /\ ini.got = AtFrame
    BY <1>1 DEF Walk
  <2>7. Walkable' =>
       /\ ini'.at = OffsetOf(AtFrame)'
       /\ ini'.time = IF ini'.idx = MaxToc - 1 THEN MaxWrites + 1 ELSE toc'[Base'].time
       /\ ini'.idx = MaxToc - 1 /\ ini'.pc = "read" /\ AtFrame' > 0 =>
            next' + Coming' <= MaxUnsaved /\ Clear(AtFrame, MaxUnsaved - (next + Coming))'
    BY <1>2, <1>4, <1>6, <1>8, <2>1, <2>5 DEF Clear
  <2>8. ini'.pc = "store" =>
       /\ Walkable' /\ ini'.got > 0 /\ ini'.got = AtFrame'
       /\ Clear(ini.got, ReadLag + 1 - ini.lag)'
       /\ ini'.idx + ini'.lag + 1 > next' + TocGap + Coming'
    BY <1>2, <1>4, <1>6, <1>8, <2>2, <2>6
  <2>. QED
    BY <1>2, <1>4, <1>6, <2>4, <2>7, <2>8 DEF Walk
<1>. QED
  BY <1>3, <1>5, <1>9, <1>10, <1>11, <1>12 DEF RecoverInv

LEMMA NameStep ==
  ASSUME RecoverInv, WriteHdr, UNCHANGED <<prior, saved, unsaved, ti, ini, starts, raced>>
  PROVE  RecoverInv'
<1>1. RecoverTypeOK /\ FileInv /\ Entries /\ Oldest /\ Storing /\ Walk
  BY DEF RecoverInv
<1>2. /\ wr = "hdr" /\ wr' = "toc" /\ last' = n
      /\ UNCHANGED <<n, off, len, toc, next, oldest, prior, saved, unsaved, ti, ini, starts, raced>>
  BY DEF WriteHdr
<1>3. /\ FileInv' /\ Chain' = Chain \cup {n} /\ WrittenEnd' = WrittenEnd /\ prior[n] = last
      /\ n \in Nat /\ saved \in 0 .. n
  <2>1. saved \in Nat /\ saved <= last /\ last <= n /\ last \in Nat /\ n \in Nat
    BY <1>1, CountFacts
  <2>. QED
    BY <1>1, <1>2, <2>1, NameFile DEF FileInv, Ends, Putting
<1>4. RecoverTypeOK'
  BY <1>1, <1>2, <1>3 DEF RecoverTypeOK
<1>5. \A f, k : Clear(f, k)' <=> Clear(f, k)
  BY <1>2, <1>3 DEF Clear, Whole, Intact
<1>6. /\ Live' = Live /\ Base' = Base /\ Newest' = Newest /\ (Walkable' <=> Walkable)
      /\ ~Named /\ ~Named' /\ Coming = 1 /\ Coming' = 1
  <2>1. (Walkable' <=> Walkable) /\ Window' = Window
    BY <1>2 DEF Walkable, Window
  <2>. QED
    BY <1>2, <1>3, <2>1 DEF Live, Base, Newest, Named, Coming
<1>7. AtFrame' = AtFrame
  BY <1>2, <1>6 DEF AtFrame
<1>8. Entries'
  BY <1>1, <1>2, <1>3, <1>6 DEF Entries, Entry, Pred
<1>9. Oldest' /\ Storing'
  BY <1>1, <1>2, <1>5, <1>6 DEF Oldest, Storing, Clear, Whole, Intact
<1>10. Walk'
  BY <1>1, <1>2, <1>3, <1>6, <1>7 DEF Walk, OffsetOf, Clear, Whole, Intact
<1>. QED
  BY <1>3, <1>4, <1>8, <1>9, <1>10 DEF RecoverInv

\* SaveHdr, and steps of others
LEMMA SameTable ==
  ASSUME RecoverInv, FileInv', Chain' = Chain, WrittenEnd' = WrittenEnd, RecoverTypeOK',
         UNCHANGED <<n, off, len, last, toc, next, oldest, wr, prior, ti, ini, raced>>
  PROVE  RecoverInv'
<1>1. RecoverTypeOK /\ FileInv /\ Entries /\ Oldest /\ Storing /\ Walk
  BY DEF RecoverInv
<1>2. /\ Live' = Live /\ Base' = Base /\ Newest' = Newest /\ (Walkable' <=> Walkable)
      /\ (Named <=> Named') /\ Coming' = Coming /\ Window' = Window
      /\ TiLast' = TiLast /\ ScanEnd' = ScanEnd
  <2>1. (Walkable' <=> Walkable) /\ Window' = Window
    BY DEF Walkable, Window
  <2>2. TiLast' = TiLast /\ ScanEnd' = ScanEnd
    BY DEF TiLast, ScanEnd, ScanStart, Passed, TocRoomy, LastEnd
  <2>. QED
    BY <2>1, <2>2 DEF Live, Base, Newest, Named, Coming
<1>3. AtFrame' = AtFrame
  BY <1>2 DEF AtFrame
<1>4. Entries'
  BY <1>1, <1>2 DEF Entries, Entry, Pred
<1>5. Oldest' /\ Storing'
  BY <1>1, <1>2 DEF Oldest, Storing, Clear, Whole, Intact, Pred
<1>6. Walk'
  BY <1>1, <1>2, <1>3 DEF Walk, OffsetOf, Clear, Whole, Intact
<1>. QED
  BY <1>1, <1>4, <1>5, <1>6 DEF RecoverInv

LEMMA SaveStep ==
  ASSUME RecoverInv, SaveHdr
  PROVE  RecoverInv'
<1>1. RecoverTypeOK /\ FileInv
  BY DEF RecoverInv
<1>2. /\ saved' = last /\ unsaved' = 0
      /\ UNCHANGED <<n, off, len, last, toc, next, oldest, wr, rd, prior, ti, ini, starts, raced>>
  BY DEF SaveHdr, vars
<1>3. RecoverTypeOK'
  <2>1. last \in 0 .. n /\ 0 \in 0 .. MaxUnsaved
    BY <1>1, CountFacts
  <2>. QED
    BY <1>1, <1>2, <2>1 DEF RecoverTypeOK
<1>4. FileInv' /\ Chain' = Chain /\ WrittenEnd' = WrittenEnd
  BY <1>1, SaveFile
<1>. QED
  BY <1>2, <1>3, <1>4, SameTable

\* WriteToc: the entry joins those made
LEMMA EntryLive ==
  ASSUME RecoverInv, WriteToc, UNCHANGED ini
  PROVE  /\ next' = Succ(next) /\ Pred(next') = next /\ next \notin Live
         /\ (oldest = Empty => next = 0)
         /\ Live' \subseteq Live \cup {next}
         /\ \A i \in Live' : i # Base' /\ i # next => i \in Live /\ i # Base /\ Pred(i) \in Live'
         /\ next \in Live' /\ next # Base' => Pred(next) \in Live /\ Pred(next) \in Live'
         /\ oldest # Empty => oldest \in Live'
         /\ Walkable' => /\ Walkable /\ Base' = Base /\ next' = next + 1
                         /\ Live' = Live \cup {next} /\ (Base \notin Live => Base = next)
         /\ ini.pc = "store" => Walkable'
<1>1. RecoverTypeOK /\ FileInv /\ Entries /\ Oldest /\ Walk
  BY DEF RecoverInv
<1>2. /\ wr = "toc" /\ wr' = "oldest" /\ oldest' = oldest /\ ini' = ini /\ ~Named /\ Coming = 1
      /\ next' = (next + 1) % MaxToc
  BY DEF WriteToc, Named, Coming
<1>3. /\ MaxToc \in Nat /\ MaxToc > 2 /\ next \in 0 .. MaxToc - 1 /\ ini.idx \in -1 .. MaxToc - 1
      /\ oldest # Empty => oldest \in 0 .. MaxToc - 1
      /\ TocGap \in Nat /\ TocGap > 1 /\ ini.lag \in Nat /\ ini.lag < TocGap
  BY <1>1, IndexFacts
<1>4. next' = Succ(next) /\ Pred(next') = next /\ next' \in 0 .. MaxToc - 1
  BY <1>2, <1>3, WrapFacts DEF Pred, Succ
<1>5. /\ oldest = Empty => ini.idx = MaxToc - 1 /\ next = 0
      /\ oldest # Empty => oldest \in Live /\ oldest # next
      /\ ini.pc # "done" => next + 1 < MaxToc
      /\ ini.pc = "store" => ini.pc # "done" /\ ini.idx > next + 1
  BY <1>1, <1>2, <1>3 DEF Oldest, Walk
<1>6. ini.pc # "done" => next' = next + 1
  BY <1>3, <1>4, <1>5 DEF Succ
<1>7. /\ Walkable' => Walkable /\ next' = next + 1 /\ ini.idx > next + 1 /\ ini.pc # "done"
      /\ ini.pc = "store" => Walkable'
  BY <1>2, <1>3, <1>5, <1>6 DEF Walkable
<1>8. /\ Window \subseteq Live /\ Live \subseteq 0 .. MaxToc - 1
      /\ \A i \in Window : i # oldest => Pred(i) \in Window /\ i # Base
      /\ \A i \in 0 .. MaxToc - 1 : Walkable => (i \in Live <=> i < next \/ i > ini.idx)
  BY <1>1, WindowLive
<1>9. oldest # Empty => oldest \in Window /\ next \notin Window
      /\ \A i \in 0 .. MaxToc - 1 :
           i \in Window <=> IF oldest < next THEN oldest <= i /\ i < next ELSE i < next \/ oldest <= i
  <2>1. oldest # Empty => oldest \in Window
      /\ \A i \in 0 .. MaxToc - 1 :
           i \in Window <=> IF oldest < next THEN oldest <= i /\ i < next ELSE i < next \/ oldest <= i
    BY <1>1, WindowIn
  <2>. QED
    BY <1>3, <1>5, <2>1
<1>10. next \notin Live
  <2>1. CASE Walkable
    BY <1>3, <1>8, <2>1 DEF Walkable
  <2>2. CASE ~Walkable
    <3>1. Live = Window
      BY <2>2 DEF Live
    <3>. QED
      BY <1>1, <1>9, <3>1, WindowIn
  <2>. QED
    BY <2>1, <2>2
<1>11. CASE Walkable'
  <2>1. Base' = Base /\ Base = Succ(ini.idx) /\ Walkable
    BY <1>2, <1>7, <1>11 DEF Base
  <2>2. Live' = {i \in 0 .. MaxToc - 1 : i < next + 1 \/ i > ini.idx}
    BY <1>2, <1>7, <1>11 DEF Live, Indices
  <2>3. Live' = Live \cup {next}
    <3>1. \A i \in 0 .. MaxToc - 1 : i \in Live' <=> i \in Live \/ i = next
      BY <1>3, <1>8, <2>1, <2>2
    <3>. QED
      BY <1>3, <1>8, <2>2, <3>1
  <2>4. Base \notin Live => Base = next
    <3>1. Base \in 0 .. MaxToc - 1 /\ (Base > ini.idx \/ Base = 0)
      BY <1>3, <1>7, <1>11, <2>1 DEF Succ
    <3>. QED
      BY <1>3, <1>8, <2>1, <3>1
  <2>5. next # Base' => Pred(next) \in Live
    <3>1. Pred(next) \in 0 .. MaxToc - 1
      BY <1>3, WrapFacts
    <3>2. next # Base => Pred(next) < next \/ Pred(next) > ini.idx
      BY <1>3, <2>1 DEF Pred, Succ
    <3>. QED
      BY <1>8, <2>1, <3>1, <3>2
  <2>6. \A i \in Live : i # Base => Pred(i) \in Live
    BY <1>1 DEF Entries
  <2>. QED
    BY <1>4, <1>5, <1>7, <1>10, <1>11, <2>1, <2>3, <2>4, <2>5, <2>6
<1>12. CASE ~Walkable'
  <2>1. Live' = Window' /\ Base' = oldest
    BY <1>2, <1>12 DEF Live, Base
  <2>2. CASE oldest = Empty
    <3>1. Live' = {}
      BY <1>2, <2>1, <2>2 DEF Window
    <3>. QED
      BY <1>4, <1>5, <1>7, <1>10, <1>12, <2>2, <3>1
  <2>3. CASE oldest # Empty
    <3>1. Window' = IF oldest < next' THEN oldest .. next' - 1 ELSE 0 .. MaxToc - 1 \ (next' .. oldest - 1)
      BY <1>2, <2>3 DEF Window, Indices
    <3>. HIDE DEF Window
    <3>2. \A i \in 0 .. MaxToc - 1 : i \in Window' <=> i \in Window \/ i = next
      BY <1>3, <1>4, <1>5, <1>9, <2>3, <3>1 DEF Succ
    <3>3. Window' = Window \cup {next}
      <4>1. Window' \subseteq 0 .. MaxToc - 1
        BY <1>3, <1>4, <2>3, <3>1
      <4>. QED
        BY <1>3, <1>8, <3>2, <4>1
    <3>4. Pred(next) \in Window
      BY <1>1, <1>3, <2>3, WindowPlaces, WrapFacts
    <3>. QED
      BY <1>4, <1>5, <1>7, <1>8, <1>9, <1>10, <1>12, <2>1, <2>3, <3>3, <3>4
  <2>. QED
    BY <2>2, <2>3
<1>. QED
  BY <1>11, <1>12

LEMMA EntryStep ==
  ASSUME RecoverInv, WriteToc, UNCHANGED <<prior, saved, unsaved, ti, ini, starts, raced>>
  PROVE  RecoverInv'
<1>1. RecoverTypeOK /\ FileInv /\ Entries /\ Oldest /\ Storing /\ Walk
  BY DEF RecoverInv
<1>2. /\ wr = "toc" /\ wr' = "oldest" /\ toc' = [toc EXCEPT ![next] = Entry(n)]
      /\ UNCHANGED <<n, off, len, last, oldest, prior, saved, unsaved, ti, ini, starts, raced>>
      /\ ~Named /\ Named' /\ Coming = 1 /\ Coming' = 0
  BY DEF WriteToc, Entry, Named, Coming
<1>3. /\ FileInv' /\ Chain' = Chain /\ WrittenEnd' = WrittenEnd
      /\ \A f, k : Clear(f, k)' <=> Clear(f, k)
  BY <1>1, <1>2, SameFrames
<1>4. n > 0 /\ last = n /\ n \in Nat /\ n \in 1 .. n /\ n \in Chain /\ off[n] \div Align \in Nat
  <2>1. n > 0 /\ last = n /\ n \in Nat
    BY <1>1, <1>2, CountFacts DEF FileInv, Ends
  <2>2. n \in 1 .. n /\ n \in Chain
    BY <1>1, <2>1, CountFacts
  <2>. QED
    BY <1>1, <2>1, <2>2, PlaceFacts, DivAlign DEF FileInv
<1>5. /\ next \in Indices /\ next \in 0 .. MaxToc - 1 /\ toc \in [Indices -> [time : {0} \cup Numbers, div : Nat]]
      /\ next' \in 0 .. MaxToc - 1 /\ MaxToc \in Nat
  BY <1>1, IndexFacts, EntryLive, WrapFacts DEF RecoverTypeOK
<1>6. /\ next' = Succ(next) /\ Pred(next') = next /\ next \notin Live
      /\ (oldest = Empty => next = 0)
      /\ Live' \subseteq Live \cup {next}
      /\ \A i \in Live' : i # Base' /\ i # next => i \in Live /\ i # Base /\ Pred(i) \in Live'
      /\ next \in Live' /\ next # Base' => Pred(next) \in Live /\ Pred(next) \in Live'
      /\ oldest # Empty => oldest \in Live'
      /\ Walkable' => /\ Walkable /\ Base' = Base /\ next' = next + 1
                      /\ Live' = Live \cup {next} /\ (Base \notin Live => Base = next)
      /\ ini.pc = "store" => Walkable'
  BY <1>2, EntryLive
<1>7. Live \subseteq 0 .. MaxToc - 1 /\ Live \subseteq Indices
  BY <1>1, WindowLive DEF Indices
<1>8. toc'[next] = Entry(n) /\ \A i \in Live : toc'[i] = toc[i]
  BY <1>2, <1>5, <1>6, <1>7
<1>9. Entry(n).time = n /\ \A i : Entry(i)' = Entry(i)
  BY <1>2 DEF Entry
<1>10. RecoverTypeOK'
  <2>1. toc' \in [Indices -> [time : {0} \cup Numbers, div : Nat]]
    <3>1. Entry(n) \in [time : {0} \cup Numbers, div : Nat]
      BY <1>1, <1>4, CountFacts DEF Entry
    <3>. QED
      BY <1>2, <1>5, <3>1
  <2>2. next' \in Indices
    BY <1>5 DEF Indices
  <2>. QED
    BY <1>1, <1>2, <2>1, <2>2 DEF RecoverTypeOK
<1>11. Newest' = n /\ Newest = prior[n]
  BY <1>2, <1>4 DEF Newest
<1>12. Entries'
  <2>1. \A i \in Live' : toc'[i].time \in Chain /\ toc'[i] = Entry(toc'[i].time)
    BY <1>1, <1>4, <1>6, <1>8, <1>9 DEF Entries
  <2>2. ASSUME NEW i \in Live', i # Base'
        PROVE  Pred(i) \in Live' /\ prior[toc'[i].time] = toc'[Pred(i)].time
    <3>1. CASE i = next
      <4>1. Pred(next) \in Live /\ Pred(next) \in Live'
        BY <1>6, <2>2, <3>1
      <4>2. toc[Pred(next)].time = prior[n]
        BY <1>1, <1>11, <4>1 DEF Entries
      <4>. QED
        BY <1>8, <1>9, <3>1, <4>1, <4>2
    <3>2. CASE i # next
      <4>1. i \in Live /\ i # Base /\ Pred(i) \in Live'
        BY <1>6, <2>2, <3>2
      <4>2. Pred(i) \in Live /\ prior[toc[i].time] = toc[Pred(i)].time
        BY <1>1, <4>1 DEF Entries
      <4>. QED
        BY <1>8, <4>1, <4>2
    <3>. QED
      BY <3>1, <3>2
  <2>3. toc'[Pred(next')] = Entry(n)
    BY <1>6, <1>8
  <2>. QED
    BY <1>2, <1>3, <1>4, <1>9, <1>11, <2>1, <2>2, <2>3 DEF Entries, Entry, Pred
<1>13. Oldest'
  <2>1. oldest = Empty => ini.idx = MaxToc - 1 /\ next' = 1
    <3>1. oldest = Empty => ini.idx = MaxToc - 1 /\ next = 0
      BY <1>1, <1>6 DEF Oldest
    <3>2. MaxToc > 2
      BY RingAssumption
    <3>. QED
      BY <1>6, <3>1, <3>2 DEF Succ
  <2>2. oldest # Empty => oldest \in Live /\ oldest # next /\ Clear(toc[oldest].time, 0)
    BY <1>1, <1>2 DEF Oldest
  <2>3. oldest # Empty => oldest \in Live' /\ oldest # Pred(next') /\ Clear(toc'[oldest].time, 0)
    BY <1>6, <1>8, <2>2
  <2>. QED
    BY <1>2, <1>3, <2>1, <2>3 DEF Oldest, Clear, Whole, Intact, Pred
<1>14. Storing'
  BY <1>2 DEF Storing
<1>15. Walkable' => AtFrame' = AtFrame /\ (ini.idx # MaxToc - 1 => toc'[Base'] = toc[Base])
  <2>. SUFFICES ASSUME Walkable' PROVE AtFrame' = AtFrame /\ (ini.idx # MaxToc - 1 => toc'[Base'] = toc[Base])
    OBVIOUS
  <2>1. Base' = Base /\ Live' = Live \cup {next} /\ Walkable
    BY <1>6
  <2>2. CASE Base \in Live
    BY <1>2, <1>8, <2>1, <2>2 DEF AtFrame
  <2>3. CASE Base \notin Live
    <3>1. Base = next
      BY <1>6, <2>3
    <3>2. AtFrame' = prior[n] /\ AtFrame = prior[n]
      BY <1>2, <1>8, <1>9, <1>11, <2>1, <2>3, <3>1 DEF AtFrame
    <3>3. ini.idx = MaxToc - 1
      <4>1. Base = Succ(ini.idx) /\ ini.idx \in 0 .. MaxToc - 1 /\ ini.idx > next
        BY <1>1, <1>5, <2>1, IndexFacts DEF Base, Walkable
      <4>. QED
        BY <1>5, <3>1, <4>1 DEF Succ
    <3>. QED
      BY <3>2, <3>3
  <2>. QED
    BY <2>2, <2>3
<1>16. Walk'
  <2>1. ini.pc # "done" => next + 1 < MaxToc
    BY <1>1, <1>2 DEF Walk
  <2>2. ini.pc # "done" => next' = next + 1
    BY <1>5, <1>6, <2>1 DEF Succ
  <2>3. ini.pc # "done" => next' + Coming' = next + Coming
    <3>1. Coming = 1 /\ Coming' = 0 /\ next \in Int
      BY <1>2, <1>5
    <3>2. next + 1 + 0 = next + 1
      BY <3>1
    <3>. QED
      BY <2>2, <3>1, <3>2
  <2>4. Walkable' => /\ ini.at = OffsetOf(AtFrame')
                     /\ ini.time = IF ini.idx = MaxToc - 1 THEN MaxWrites + 1 ELSE toc'[Base'].time
    BY <1>1, <1>6, <1>15 DEF Walk
  <2>5. Walkable' /\ ini.idx = MaxToc - 1 /\ ini.pc = "read" /\ AtFrame > 0 =>
          next' + Coming' <= MaxUnsaved /\ Clear(AtFrame, MaxUnsaved - (next' + Coming'))
    BY <1>1, <1>6, <2>3 DEF Walk, Walkable
  <2>6. ini.pc = "store" =>
          /\ Walkable' /\ ini.got > 0 /\ ini.got = AtFrame'
          /\ Clear(ini.got, ReadLag + 1 - ini.lag)
          /\ ini.idx + ini.lag + 1 > next' + TocGap + Coming'
    <3>. SUFFICES ASSUME ini.pc = "store"
                  PROVE  /\ Walkable' /\ ini.got > 0 /\ ini.got = AtFrame'
                         /\ Clear(ini.got, ReadLag + 1 - ini.lag)
                         /\ ini.idx + ini.lag + 1 > next' + TocGap + Coming'
      OBVIOUS
    <3>1. /\ ini.got > 0 /\ ini.got = AtFrame /\ Clear(ini.got, ReadLag + 1 - ini.lag)
          /\ ini.idx + ini.lag + 1 > next + TocGap + 1
      BY <1>1, <1>2 DEF Walk
    <3>2. next' = next + 1 /\ next \in Int /\ TocGap \in Nat
      BY <1>5, <2>2, RingAssumption
    <3>. QED
      BY <1>2, <1>6, <1>15, <3>1, <3>2
  <2>7. ini.pc # "done" => next' + Coming' < MaxToc
    BY <1>2, <2>1, <2>3
  <2>. QED
    BY <1>2, <1>3, <1>15, <2>4, <2>5, <2>6, <2>7 DEF Walk, OffsetOf, Clear, Whole, Intact
<1>. QED
  BY <1>3, <1>10, <1>12, <1>13, <1>14, <1>16 DEF RecoverInv

\* An entry that is roomy stays clear of the next write.
LEMMA RoomyClear ==
  ASSUME RecoverInv, wr \in {"oldest", "store"}, NEW i \in Live, Whole(toc[i].time), TocRoomy(i)
  PROVE  Clear(toc[i].time, 1)
<1>1. RecoverTypeOK /\ FileInv /\ FramesOK /\ ReadLag \in Nat /\ WrittenEnd = LastEnd
  BY RingAssumption DEF RecoverInv, FileInv, WrittenEnd, Putting
<1>. PICK f \in 1 .. n : f = toc[i].time /\ toc[i].div * Align = off[f]
  BY LiveFacts
<1>2. off[f] \in Nat /\ LastEnd \in Nat
  <2>1. last \in 1 .. n
    BY <1>1, CountFacts DEF FileInv, Ends
  <2>. QED
    BY <1>1, <2>1, PlaceFacts DEF LastEnd
<1>3. Margin(LastEnd, off[f], ReadLag + 1)
  BY <1>2, RoomyMargin DEF TocRoomy
<1>4. Margin(LastEnd, off[f], 1)
  BY <1>1, <1>2, <1>3, MarginLess
<1>. QED
  BY <1>1, <1>4 DEF Clear

LEMMA ReadOldestStep ==
  ASSUME RecoverInv, ReadOldest
  PROVE  RecoverInv'
<1>1. RecoverTypeOK /\ FileInv /\ Entries /\ Oldest /\ Storing /\ Walk
  BY DEF RecoverInv
<1>2. /\ wr = "oldest" /\ wr' = "store" /\ ti' = IF oldest = Empty THEN TiLast ELSE ScanEnd
      /\ UNCHANGED <<n, off, len, last, toc, next, oldest, prior, saved, unsaved, ini, starts>>
      /\ Named /\ Named' /\ Coming = 0 /\ Coming' = 0 /\ raced' = FALSE
  BY DEF ReadOldest, ringVars, Named, Coming
<1>3. /\ FileInv' /\ Chain' = Chain
      /\ \A f, k : Clear(f, k)' <=> Clear(f, k)
  BY <1>1, <1>2, SameFrames
<1>4. /\ Live' = Live /\ Base' = Base /\ Newest' = Newest /\ (Walkable' <=> Walkable)
      /\ Window' = Window /\ TiLast' = TiLast /\ ScanEnd' = ScanEnd
  <2>1. (Walkable' <=> Walkable) /\ Window' = Window
    BY <1>2 DEF Walkable, Window
  <2>2. TiLast' = TiLast /\ ScanEnd' = ScanEnd
    BY <1>2 DEF TiLast, ScanEnd, ScanStart, Passed, TocRoomy, LastEnd
  <2>. QED
    BY <1>2, <2>1, <2>2 DEF Live, Base, Newest
<1>5. AtFrame' = AtFrame
  BY <1>2, <1>4 DEF AtFrame
<1>6. next \in 0 .. MaxToc - 1 /\ TiLast = Pred(next) /\ MaxToc \in Nat /\ MaxToc > 2
  BY <1>1, IndexFacts, WrapFacts DEF TiLast
<1>7. /\ ti' \in Window \/ (oldest = Empty /\ ti' = Pred(next))
      /\ ti' # next /\ ti' \in Indices /\ \E f : f = toc[ti'].time /\ Clear(f, 1)
  <2>1. CASE oldest = Empty
    <3>1. ti' = Pred(next) /\ Pred(next) # next /\ Pred(next) \in Indices
      BY <1>2, <1>6, <2>1, WrapFacts DEF Pred, Indices
    <3>2. toc[Pred(next)] = Entry(last) /\ last \in 1 .. n /\ last = n
      <4>1. n > 0 /\ last = n
        BY <1>1, <1>2 DEF FileInv, Ends
      <4>. QED
        BY <1>1, <1>2, <4>1, CountFacts DEF Entries
    <3>3. toc[Pred(next)].time = last
      BY <3>2 DEF Entry
    <3>4. Clear(last, 1)
      <4>1. off[last] \in Nat /\ len[last] \in Lengths /\ len[last] \in Nat
        BY <1>1, <3>2, PlaceFacts DEF FileInv
      <4>2. Roomy(off[last] + len[last], off[last]) /\ ReadLag \in Nat
        BY <4>1, NewestRoomy, RingAssumption
      <4>3. Margin(off[last] + len[last], off[last], ReadLag + 1)
        BY <4>1, <4>2, RoomyMargin
      <4>4. Margin(off[last] + len[last], off[last], 1)
        BY <4>1, <4>2, <4>3, MarginLess
      <4>5. Whole(last)
        BY <3>2 DEF Whole, Intact
      <4>. QED
        BY <1>2, <4>4, <4>5 DEF Clear, WrittenEnd, Putting, LastEnd
    <3>. QED
      BY <2>1, <3>1, <3>3, <3>4
  <2>2. CASE oldest # Empty
    <3>1. ScanEnd \in Window /\ ScanEnd # next /\ TocRoomy(ScanEnd)
      BY <1>2, <2>2, ScanTable
    <3>2. ScanEnd \in Live /\ ScanEnd \in Indices /\ Whole(toc[ScanEnd].time)
      BY <1>1, <3>1, LiveFacts, WindowIn, WindowWhole DEF Indices
    <3>3. Clear(toc[ScanEnd].time, 1)
      BY <1>2, <3>1, <3>2, RoomyClear
    <3>. QED
      BY <1>2, <2>2, <3>1, <3>2, <3>3
  <2>. QED
    BY <2>1, <2>2
<1>8. RecoverTypeOK'
  BY <1>1, <1>2, <1>7 DEF RecoverTypeOK
<1>9. Entries'
  BY <1>1, <1>2, <1>3, <1>4 DEF Entries, Entry, Pred
<1>10. Oldest'
  BY <1>1, <1>2, <1>3, <1>4 DEF Oldest, Clear, Whole, Intact, Pred
<1>11. Storing'
  <2>. PICK t, f : t = ti' /\ f = toc[ti'].time /\ Clear(f, 1)
    BY <1>7
  <2>1. Clear(f, 1)' /\ f = toc'[t].time
    BY <1>2, <1>3
  <2>. QED
    BY <1>2, <1>4, <1>7, <2>1 DEF Storing, Pred, Clear, Whole, Intact
<1>12. Walk'
  BY <1>1, <1>2, <1>3, <1>4, <1>5 DEF Walk, OffsetOf, Clear, Whole, Intact
<1>. QED
  BY <1>3, <1>8, <1>9, <1>10, <1>11, <1>12 DEF RecoverInv

\* The entries that are in use after the store were so before it.
LEMMA StoreWindow ==
  ASSUME RecoverInv, StoreOldest
  PROVE  /\ ti \in Indices /\ ti \in Window' /\ ti \in Live'
         /\ Window' \subseteq Window \cup {Pred(next)}
         /\ \A i \in Window' : i # ti => i \in Window /\ i # oldest /\ Pred(i) \in Window'
         /\ oldest # Empty => \A i \in Window : PlaceOf(i) >= PlaceOf(ti) => i \in Window'
<1>1. RecoverTypeOK /\ FileInv /\ Oldest /\ Storing
  BY DEF RecoverInv
<1>2. /\ wr = "store" /\ oldest' = ti /\ UNCHANGED <<next, ini>> /\ Named
  BY DEF StoreOldest, ringVars, Named
<1>3. /\ MaxToc \in Nat /\ MaxToc > 2 /\ next \in 0 .. MaxToc - 1
      /\ oldest # Empty => oldest \in 0 .. MaxToc - 1
  BY <1>1, IndexFacts
<1>4. /\ ti \in Window \/ (oldest = Empty /\ ti = Pred(next))
      /\ oldest = Empty => ini.idx = MaxToc - 1 /\ next = 1
  BY <1>1, <1>2 DEF Storing, Oldest
<1>5. ti \in 0 .. MaxToc - 1 /\ ti # next
  BY <1>1, <1>2, <1>3, <1>4, WindowIn, WrapFacts DEF Storing
<1>6. Window' = IF ti < next THEN ti .. next - 1 ELSE 0 .. MaxToc - 1 \ (next .. ti - 1)
  BY <1>2, <1>5 DEF Window, Indices, Empty
<1>7. oldest # Empty => oldest \in Window
      /\ \A i \in 0 .. MaxToc - 1 :
           i \in Window <=> IF oldest < next THEN oldest <= i /\ i < next ELSE i < next \/ oldest <= i
  BY <1>1, WindowIn
<1>8. Window \subseteq Live /\ \A i \in 0 .. MaxToc - 1 : Walkable => (i \in Live <=> i < next \/ i > ini.idx)
  BY <1>1, WindowLive
<1>. HIDE DEF Window
<1>9. /\ Window' \subseteq 0 .. MaxToc - 1
      /\ \A i \in 0 .. MaxToc - 1 :
           i \in Window' <=> IF ti < next THEN ti <= i /\ i < next ELSE i < next \/ ti <= i
  BY <1>3, <1>5, <1>6
<1>10. CASE oldest = Empty
  <2>1. ti = 0 /\ next = 1
    BY <1>1, <1>4, <1>10, WindowIn DEF Pred
  <2>2. Window' = {0}
    BY <1>6, <2>1
  <2>3. 0 \in Live'
    <3>1. CASE Walkable'
      BY <1>2, <1>3, <2>1, <3>1 DEF Live, Indices
    <3>2. CASE ~Walkable'
      BY <2>2, <3>2 DEF Live
    <3>. QED
      BY <3>1, <3>2
  <2>. QED
    BY <1>5, <1>10, <2>1, <2>2, <2>3 DEF Pred, Indices
<1>11. CASE oldest # Empty
  <2>1. ti \in Window
    BY <1>4, <1>11
  <2>2. \A i \in 0 .. MaxToc - 1 : i \in Window' => i \in Window /\ (i # ti => i # oldest)
    BY <1>3, <1>5, <1>7, <1>9, <1>11, <2>1
  <2>3. ASSUME NEW i \in Window', i # ti PROVE Pred(i) \in Window'
    <3>1. i \in 0 .. MaxToc - 1 /\ Pred(i) \in 0 .. MaxToc - 1
      BY <1>9, <2>3, WrapFacts
    <3>2. IF ti < next THEN ti <= i /\ i < next ELSE i < next \/ ti <= i
      BY <1>9, <2>3, <3>1
    <3>3. IF ti < next THEN ti <= Pred(i) /\ Pred(i) < next ELSE Pred(i) < next \/ ti <= Pred(i)
      BY <1>3, <1>5, <2>3, <3>1, <3>2 DEF Pred
    <3>. QED
      BY <1>9, <3>1, <3>3
  <2>4. ti \in Live'
    <3>1. CASE Walkable'
      BY <1>2, <1>8, <2>1, <3>1 DEF Live, Walkable, Indices
    <3>2. CASE ~Walkable'
      BY <1>5, <1>9, <3>2 DEF Live
    <3>. QED
      BY <3>1, <3>2
  <2>5. ASSUME NEW i \in Window, PlaceOf(i) >= PlaceOf(ti) PROVE i \in Window'
    <3>1. i \in 0 .. MaxToc - 1
      BY <1>1, <2>5, WindowIn
    <3>. QED
      BY <1>3, <1>5, <1>7, <1>9, <1>11, <2>1, <2>5, <3>1 DEF PlaceOf
  <2>. QED
    BY <1>5, <1>9, <2>2, <2>3, <2>4, <2>5 DEF Indices
<1>. QED
  BY <1>10, <1>11

LEMMA StoreOldestStep ==
  ASSUME RecoverInv, StoreOldest
  PROVE  RecoverInv'
<1>1. RecoverTypeOK /\ FileInv /\ Entries /\ Oldest /\ Storing /\ Walk
  BY DEF RecoverInv
<1>2. /\ wr = "store" /\ wr' = "idle" /\ oldest' = ti
      /\ UNCHANGED <<n, off, len, last, toc, next, prior, saved, unsaved, ti, ini, starts, raced>>
      /\ Named /\ ~Named' /\ Coming = 0 /\ Coming' = 0
  BY DEF StoreOldest, ringVars, Named, Coming
<1>3. /\ FileInv' /\ Chain' = Chain
      /\ \A f, k : Clear(f, k)' <=> Clear(f, k)
  BY <1>1, <1>2, SameFrames
<1>4. /\ ti \in Indices /\ ti \in Window' /\ ti \in Live'
      /\ Window' \subseteq Window \cup {Pred(next)}
      /\ \A i \in Window' : i # ti => i \in Window /\ i # oldest /\ Pred(i) \in Window'
  BY StoreWindow
<1>5. /\ ti # next /\ Clear(toc[ti].time, 1) /\ ti # Empty
  BY <1>1, <1>2, <1>4, RingAssumption DEF Storing, Indices, Empty
<1>6. (Walkable' <=> Walkable) /\ Newest' = last /\ Newest = last
      /\ (Walkable => Live' = Live /\ Base' = Base) /\ (~Walkable => Live' = Window' /\ Base' = ti)
  BY <1>2 DEF Walkable, Newest, Live, Base
<1>7. toc[Pred(next)] = Entry(last) /\ Entry(last).time = last /\ last \in Chain
  <2>1. last > 0
    BY <1>1, <1>2 DEF FileInv, Ends
  <2>. QED
    BY <1>1, <1>2, <2>1, CountFacts DEF Entries, Entry
<1>8. /\ Window \subseteq Live
      /\ \A i \in Window : i # oldest => Pred(i) \in Window /\ i # Base
  BY <1>1, WindowLive
<1>9. RecoverTypeOK'
  BY <1>1, <1>2, <1>4 DEF RecoverTypeOK
<1>10. Entries'
  <2>1. ASSUME NEW i \in Live' PROVE toc[i].time \in Chain /\ toc[i] = Entry(toc[i].time)
    <3>1. i \in Live \/ i = Pred(next)
      BY <1>4, <1>6, <1>8
    <3>. QED
      BY <1>1, <1>7, <3>1 DEF Entries
  <2>2. ASSUME NEW i \in Live', i # Base'
        PROVE  Pred(i) \in Live' /\ prior[toc[i].time] = toc[Pred(i)].time
    BY <1>1, <1>4, <1>6, <1>8, <2>2 DEF Entries
  <2>. QED
    BY <1>2, <1>3, <1>6, <1>7, <2>1, <2>2 DEF Entries, Entry, Pred
<1>11. Oldest'
  BY <1>2, <1>3, <1>4, <1>5 DEF Oldest, Clear, Whole, Intact
<1>12. Storing'
  BY <1>2 DEF Storing
<1>13. Walk'
  <2>1. Walkable => AtFrame' = AtFrame
    BY <1>2, <1>6 DEF AtFrame
  <2>2. ini.pc = "store" => Walkable
    BY <1>1 DEF Walk
  <2>. QED
    BY <1>1, <1>2, <1>3, <1>6, <2>1, <2>2 DEF Walk, OffsetOf, Clear, Whole, Intact
<1>. QED
  BY <1>3, <1>9, <1>10, <1>11, <1>12, <1>13 DEF RecoverInv

-----------------------------------------------------------------------------
(* The steps of the walk keep the invariant. *)

\* The frame whose header the walk finds is the one before the frame it found
\* last: one that was put in its place since is either not older, or one of
\* those of the last 10 seconds that the walk begins with.
LEMMA WalkFinds ==
  ASSUME RecoverInv, Walkable, ini.pc = "read", NEW i \in FramesAt(ini.at), Earlier(i)
  PROVE  i = AtFrame /\ i \in Chain /\ i > 0 /\ HeaderThere(i) /\ ini.at = off[i]
<1>1. RecoverTypeOK /\ FileInv /\ Entries /\ Oldest /\ Walk /\ FramesOK
  BY DEF RecoverInv, FileInv
<1>2. i \in 1 .. n /\ off[i] = ini.at /\ Intact(i, ini.at, 1) /\ i < ini.time
  BY DEF FramesAt, Earlier
<1>3. ini.at = OffsetOf(AtFrame) /\ AtFrame \in {0} \cup Chain /\ Chain \subseteq 1 .. n
  BY <1>1, LiveFacts, CountFacts DEF Walk
<1>4. AtFrame # 0
  <2>1. off[i] # 0
    BY <1>1, <1>2, PlaceFacts
  <2>. QED
    BY <1>2, <1>3, <2>1 DEF OffsetOf
<1>. PICK c \in 1 .. n : c = AtFrame /\ c \in Chain /\ off[c] = off[i] /\ c # 0
  BY <1>2, <1>3, <1>4 DEF OffsetOf
<1>5. /\ n \in Nat /\ off[i] \in Nat /\ len[i] \in Nat /\ len[i] > 0 /\ len[c] \in Nat /\ len[c] > 0
  BY <1>1, <1>2, CountFacts, PlaceFacts
<1>6. Overlap(off[i], 1, off[c], len[c]) /\ Overlap(off[c], len[c], off[i], len[i])
  BY <1>5 DEF Overlap
<1>7. ~(i < c)
  <2>1. i < c => c \in i + 1 .. n
    BY <1>2, <1>5
  <2>. QED
    BY <1>2, <1>6, <2>1 DEF Intact
<1>8. ~(c < i)
  <2>. SUFFICES ASSUME c < i PROVE FALSE
    OBVIOUS
  <2>1. CASE ini.idx = MaxToc - 1
    <3>1. Whole(c)
      BY <1>1, <2>1 DEF Walk, Clear
    <3>2. i \in c + 1 .. n
      BY <1>2, <1>5
    <3>. QED
      BY <1>6, <3>1, <3>2 DEF Whole, Intact
  <2>2. CASE ini.idx # MaxToc - 1
    <3>1. Base = Succ(ini.idx) /\ Base \in Live
      <4>1. ini.idx \in 0 .. MaxToc - 1 /\ MaxToc \in Nat /\ Base = Succ(ini.idx)
        BY <1>1, IndexFacts DEF Walkable, Base
      <4>2. Base \in 0 .. MaxToc - 1 /\ Base > ini.idx
        BY <2>2, <4>1 DEF Succ
      <4>. QED
        BY <1>1, <4>1, <4>2, WindowLive
    <3>. PICK b \in 1 .. n : b = toc[Base].time
      BY <3>1, LiveFacts
    <3>2. prior[b] = c /\ i < b
      BY <1>1, <1>2, <2>2, <3>1 DEF Walk, AtFrame
    <3>3. i \in prior[b] + 1 .. b - 1 /\ prior[b] > 0
      BY <1>2, <1>5, <3>2
    <3>4. ~Overlap(off[c], len[c], off[i], len[i])
      BY <1>1, <3>2, <3>3 DEF FileInv, Links
    <3>. QED
      BY <1>6, <3>4
  <2>. QED
    BY <2>1, <2>2
<1>9. i = c
  BY <1>2, <1>5, <1>7, <1>8
<1>. QED
  BY <1>2, <1>9 DEF HeaderThere

\* Found with room before it, the frame is clear of the writes during which
\* its entry is made.
LEMMA FoundClear ==
  ASSUME RecoverInv, NEW c \in Chain, HeaderThere(c), Roomy(LastEnd, off[c])
  PROVE  Clear(c, ReadLag + 1 - (IF Putting THEN 1 ELSE 0))
<1>1. RecoverTypeOK /\ FileInv /\ FramesOK /\ ReadLag \in Nat /\ n \in Nat
  BY RingAssumption, CountFacts DEF RecoverInv, FileInv
<1>2. c \in 1 .. n /\ c \in 1 .. last /\ last \in 1 .. n /\ OnChain(c)
  <2>1. c \in 1 .. n /\ c \in 1 .. last /\ last \in Nat /\ last <= n
    BY <1>1, CountFacts
  <2>. QED
    BY <1>1, <2>1 DEF Chain
<1>3. Whole(c)
  BY <1>1, <1>2, HeaderSuffices
<1>. DEFINE o == off[last]
            l == len[last]
<1>4. /\ o \in Nat /\ l \in Nat /\ o # 0 /\ o + l <= FileSize
      /\ off[c] \in Nat /\ len[c] \in Nat /\ MinOff <= off[c] /\ off[c] < MaxOff
  BY <1>1, <1>2, PlaceFacts
<1>5. Margin(o + l, off[c], ReadLag + 1)
  <2>1. o + l \in Nat /\ Roomy(o + l, off[c])
    BY <1>4 DEF LastEnd
  <2>. QED
    BY <1>4, <2>1, RoomyMargin
<1>6. CASE ~Putting
  <2>1. ReadLag + 1 - 0 = ReadLag + 1 /\ WrittenEnd = o + l
    BY <1>1, <1>6 DEF WrittenEnd, LastEnd
  <2>. QED
    BY <1>3, <1>5, <1>6, <2>1 DEF Clear
<1>7. CASE Putting
  <2>1. n > 0 /\ prior[n] = last
    BY <1>1, <1>7 DEF FileInv, Ends
  <2>2. off[n] = NextOffset(o, l) /\ len[n] \in Lengths
    <3>1. n \in 1 .. n
      BY <1>1, <2>1
    <3>2. off[n] = After(last)
      BY <1>1, <2>1, <3>1 DEF FileInv, Links
    <3>. QED
      BY <1>1, <1>2, <3>1, <3>2, PlaceFacts DEF After
  <2>3. off[c] + len[c] <= o + l \/ o + l <= off[c]
    <3>1. c = last \/ last \in c + 1 .. n
      BY <1>1, <1>2
    <3>2. c <= last
      BY <1>2
    <3>. QED
      BY <1>1, <1>2, <1>3, <3>1, <3>2, WholeBeside DEF Whole, Intact
  <2>4. Margin(NextOffset(o, l) + len[n], off[c], ReadLag + 1 - 1)
    <3>. PICK k \in Nat : k = ReadLag + 1 /\ k > 0
      BY <1>1
    <3>1. Margin(o + l, off[c], k)
      BY <1>5
    <3>2. Margin(NextOffset(o, l) + len[n], off[c], k - 1)
      BY <1>4, <2>2, <2>3, <3>1, MarginStep
    <3>. QED
      BY <1>1, <3>2
  <2>. QED
    BY <1>3, <1>7, <2>2, <2>4 DEF Clear, WrittenEnd
<1>. QED
  BY <1>6, <1>7

LEMMA WalkReadsStep ==
  ASSUME RecoverInv, WalkReads
  PROVE  RecoverInv'
<1>1. RecoverTypeOK /\ FileInv /\ Entries /\ Oldest /\ Storing /\ Walk
  BY DEF RecoverInv
<1>2. /\ ini.pc = "read" /\ UNCHANGED <<n, off, len, last, toc, next, oldest, wr>>
      /\ UNCHANGED <<prior, saved, unsaved, ti, starts, raced>>
  BY DEF WalkReads, vars
<1>3. /\ FileInv' /\ Chain' = Chain
      /\ \A f, k : Clear(f, k)' <=> Clear(f, k)
  BY <1>1, <1>2, SameFrames
<1>4. /\ Window' = Window /\ TiLast' = TiLast /\ ScanEnd' = ScanEnd /\ Newest' = Newest
      /\ (Named' <=> Named) /\ Coming' = Coming
  BY <1>2 DEF Window, TiLast, ScanEnd, ScanStart, Passed, TocRoomy, LastEnd, Newest, Named, Coming
<1>5. /\ ini \in InitThread /\ ini.idx \in Int /\ next \in Nat /\ TocGap \in Nat /\ ReadLag \in Nat /\ 0 < ReadLag
      /\ 1 < TocGap
  BY <1>1, IndexFacts DEF RecoverTypeOK
<1>6. Storing'
  BY <1>1, <1>2, <1>3, <1>4 DEF Storing, Clear, Whole, Intact, Pred
<1>7. ASSUME NEW i \in FramesAt(ini.at), Earlier(i), ClearOfNew, ClearOfWrap,
             ini' = [ini EXCEPT !.pc = "store", !.got = i,
                                !.lag = IF wr \in {"hdr", "exited"} THEN 1 ELSE 0]
      PROVE  RecoverInv'
  <2>. PICK p \in {0, 1} : p = IF wr \in {"hdr", "exited"} THEN 1 ELSE 0
    OBVIOUS
  <2>1. Walkable
    BY <1>2, <1>5, <1>7 DEF Walkable, ClearOfNew
  <2>2. i = AtFrame /\ i \in Chain /\ i > 0 /\ HeaderThere(i) /\ ini.at = off[i]
    BY <1>2, <1>7, <2>1, WalkFinds
  <2>3. Clear(i, ReadLag + 1 - p)
    BY <1>7, <2>2, FoundClear DEF ClearOfWrap, Putting
  <2>4. p \in 0 .. ReadLag /\ p \in Nat /\ (Coming = 1 /\ wr # "toc" => p = 1) /\ (Coming = 0 => p = 0)
    BY <1>5 DEF Coming
  <2>5. /\ ini'.pc = "store" /\ ini'.got = i /\ ini'.lag = p /\ ini'.at = ini.at
        /\ ini'.time = ini.time /\ ini'.idx = ini.idx /\ ini' \in InitThread
    <3>1. ini' = [ini EXCEPT !.pc = "store", !.got = i, !.lag = p]
      BY <1>7
    <3>2. i \in {0} \cup Numbers
      BY <1>1, <2>2, CountFacts
    <3>. QED
      BY <1>5, <2>4, <3>1, <3>2 DEF InitThread
  <2>6. Walkable' /\ Live' = Live /\ Base' = Base
    BY <1>2, <1>4, <2>1, <2>5 DEF Walkable, Live, Base
  <2>7. AtFrame' = AtFrame
    BY <1>2, <1>4, <2>6 DEF AtFrame
  <2>8. RecoverTypeOK'
    BY <1>1, <1>2, <2>5 DEF RecoverTypeOK
  <2>9. Entries'
    BY <1>1, <1>2, <1>3, <1>4, <2>6 DEF Entries, Entry, Pred
  <2>10. Oldest'
    BY <1>1, <1>2, <1>3, <1>4, <2>5, <2>6 DEF Oldest, Clear, Whole, Intact, Pred
  <2>11. Walk'
    <3>1. Clear(ini.got, ReadLag + 1 - ini.lag)'
      <4>1. Clear(i, ReadLag + 1 - p)'
        BY <1>3, <2>3
      <4>. QED
        BY <1>5, <2>4, <2>5, <4>1 DEF Clear
    <3>2. ini.idx + p + 1 > next + TocGap + Coming
      <4>1. ini.idx > next + TocGap /\ Coming \in 0 .. 1
        BY <1>7 DEF ClearOfNew, Coming
      <4>. QED
        BY <1>5, <2>4, <4>1
    <3>3. i # 0 /\ i = AtFrame' /\ OffsetOf(AtFrame)' = off[i]
      BY <1>1, <1>2, <2>2, <2>7, CountFacts DEF OffsetOf
    <3>4. /\ ini.time = IF ini.idx = MaxToc - 1 THEN MaxWrites + 1 ELSE toc[Base].time
          /\ next + Coming < MaxToc
      BY <1>1, <1>2, <2>1 DEF Walk
    <3>. QED
      BY <1>2, <1>4, <2>2, <2>5, <2>6, <3>1, <3>2, <3>3, <3>4 DEF Walk
  <2>. QED
    BY <1>3, <1>6, <2>8, <2>9, <2>10, <2>11 DEF RecoverInv
<1>8. ASSUME ini' = [ini EXCEPT !.pc = "done"] PROVE RecoverInv'
  <2>1. ini'.pc = "done" /\ ini'.idx = ini.idx /\ ini' \in InitThread
    BY <1>5, <1>8 DEF InitThread
  <2>2. ~Walkable' /\ Live' = Window /\ Base' = oldest
    BY <1>2, <1>4, <2>1 DEF Walkable, Live, Base
  <2>3. /\ Window \subseteq Live
        /\ \A i \in Window : i # oldest => Pred(i) \in Window /\ i # Base
    BY <1>1, WindowLive
  <2>4. RecoverTypeOK'
    BY <1>1, <1>2, <2>1 DEF RecoverTypeOK
  <2>5. Entries'
    <3>1. \A i \in Window : toc[i].time \in Chain /\ toc[i] = Entry(toc[i].time)
      BY <1>1, <2>3 DEF Entries
    <3>2. \A i \in Window : i # oldest => Pred(i) \in Window /\ prior[toc[i].time] = toc[Pred(i)].time
      BY <1>1, <2>3 DEF Entries
    <3>3. /\ Pred(next) \in Window => toc[Pred(next)].time = Newest
          /\ Named => toc[Pred(next)] = Entry(last)
      BY <1>1, <2>3 DEF Entries
    <3>. QED
      BY <1>2, <1>3, <1>4, <2>2, <3>1, <3>2, <3>3 DEF Entries, Entry, Pred
  <2>6. Oldest'
    <3>1. oldest # Empty => oldest \in Window
      BY <1>1, WindowIn
    <3>. QED
      BY <1>1, <1>2, <1>3, <1>4, <2>1, <2>2, <3>1 DEF Oldest, Clear, Whole, Intact, Pred
  <2>7. Walk'
    BY <2>1, <2>2 DEF Walk
  <2>. QED
    BY <1>3, <1>6, <2>4, <2>5, <2>6, <2>7 DEF RecoverInv
<1>. QED
  BY <1>7, <1>8 DEF WalkReads

LEMMA WalkStoresStep ==
  ASSUME RecoverInv, WalkStores
  PROVE  /\ RecoverInv' /\ Window \subseteq Window' /\ \A i \in Window : toc'[i] = toc[i]
<1>1. RecoverTypeOK /\ FileInv /\ Entries /\ Oldest /\ Storing /\ Walk
  BY DEF RecoverInv
<1>. PICK x : x = ini.idx
  OBVIOUS
<1>2. /\ ini.pc = "store" /\ oldest' = x /\ raced' = (wr = "store")
      /\ toc' = [toc EXCEPT ![x] = [time |-> ini.got, div |-> ini.at \div Align]]
      /\ ini' = [ini EXCEPT !.pc = "read", !.at = OffsetOf(prior[ini.got]), !.time = ini.got,
                            !.idx = x - 1, !.lag = 0]
      /\ UNCHANGED <<n, off, len, last, next, wr, prior, saved, unsaved, ti, starts>>
  BY DEF WalkStores, WalkedTo, ringVars
<1>3. /\ FileInv' /\ Chain' = Chain
      /\ \A f, k : Clear(f, k)' <=> Clear(f, k)
  BY <1>1, <1>2, SameFrames
<1>4. /\ Walkable /\ ini.got > 0 /\ ini.got = AtFrame /\ Clear(ini.got, ReadLag + 1 - ini.lag)
      /\ ini.at = OffsetOf(AtFrame) /\ next + Coming < MaxToc
  BY <1>1, <1>2 DEF Walk
<1>5. /\ ini \in InitThread /\ MaxToc \in Nat /\ MaxToc > 2 /\ ReadLag \in Nat /\ ini.lag \in 0 .. ReadLag
      /\ next \in 0 .. MaxToc - 1 /\ x \in 0 .. MaxToc - 1 /\ next < x
      /\ toc \in [Indices -> [time : {0} \cup Numbers, div : Nat]]
  BY <1>1, <1>4, IndexFacts DEF RecoverTypeOK, Walkable
<1>. PICK c \in Chain : c = ini.got
  BY <1>4, LiveFacts
<1>6. /\ c \in 1 .. n /\ c \in 1 .. last /\ c \in Numbers /\ c # 0 /\ ini.at = off[c] /\ c = AtFrame
      /\ prior[c] \in {0} \cup Numbers /\ OffsetOf(prior[c]) \in Nat /\ prior[c] \in 0 .. n
  <2>1. c \in 1 .. n /\ c \in 1 .. last /\ c \in Numbers /\ prior[c] \in 0 .. c - 1 /\ n \in Nat /\ n <= MaxWrites
        /\ MaxWrites \in Nat
    BY <1>1, CountFacts
  <2>2. prior[c] = 0 \/ prior[c] \in 1 .. n
    BY <2>1
  <2>3. OffsetOf(prior[c]) \in Nat
    BY <1>1, <2>2, PlaceFacts DEF OffsetOf, FileInv
  <2>. QED
    BY <1>4, <2>1, <2>3 DEF OffsetOf, Numbers
<1>7. /\ toc'[x] = Entry(c) /\ Entry(c).time = c /\ \A i \in 0 .. MaxToc - 1 : i # x => toc'[i] = toc[i]
  BY <1>2, <1>5, <1>6 DEF Indices, Entry
<1>8. /\ ini'.pc = "read" /\ ini'.at = OffsetOf(prior[c]) /\ ini'.time = c /\ ini'.idx = x - 1
      /\ ini' \in InitThread
  <2>1. c \in 1 .. MaxWrites + 1 /\ x - 1 \in -1 .. MaxToc - 1 /\ 0 \in 0 .. ReadLag
    <3>1. c \in Nat /\ c <= MaxWrites /\ c > 0 /\ MaxWrites \in Nat
      BY <1>6, WritesAssumption DEF Numbers
    <3>. QED
      BY <1>5, <3>1
  <2>. QED
    BY <1>2, <1>5, <1>6, <2>1 DEF InitThread
<1>9. RecoverTypeOK'
  <2>1. toc' \in [Indices -> [time : {0} \cup Numbers, div : Nat]]
    <3>1. [time |-> ini.got, div |-> ini.at \div Align] \in [time : {0} \cup Numbers, div : Nat]
      <4>1. off[c] \in Nat /\ off[c] % Align = 0
        BY <1>1, <1>6, PlaceFacts DEF FileInv
      <4>. QED
        BY <1>6, <4>1, DivAlign
    <3>. QED
      BY <1>2, <1>5, <3>1
  <2>2. oldest' \in Indices /\ raced' \in BOOLEAN
    BY <1>2, <1>5 DEF Indices
  <2>. QED
    BY <1>1, <1>2, <1>8, <2>1, <2>2 DEF RecoverTypeOK
<1>10. /\ Window \subseteq Live /\ Live \subseteq 0 .. MaxToc - 1 /\ x \notin Live /\ next \notin Live
       /\ \A i \in 0 .. MaxToc - 1 : i \in Live <=> i < next \/ i > x
  <2>1. Window \subseteq Live /\ Live \subseteq 0 .. MaxToc - 1
        /\ \A i \in 0 .. MaxToc - 1 : i \in Live <=> i < next \/ i > x
    BY <1>1, <1>4, WindowLive
  <2>. QED
    BY <1>5, <2>1
<1>11. Live' = Live \cup {x} /\ Window' = Live \cup {x} /\ Base' = x
  <2>1. Window' = 0 .. MaxToc - 1 \ (next .. x - 1)
    BY <1>2, <1>5 DEF Window, Indices, Empty
  <2>2. \A i \in 0 .. MaxToc - 1 : i \in Window' <=> i \in Live \/ i = x
    BY <1>5, <1>10, <2>1
  <2>3. Window' = Live \cup {x}
    BY <1>5, <1>10, <2>1, <2>2
  <2>4. CASE Walkable'
    <3>1. Live' = {i \in 0 .. MaxToc - 1 : i < next \/ i > x - 1}
      BY <1>2, <1>8, <2>4 DEF Live, Indices
    <3>2. \A i \in 0 .. MaxToc - 1 : i \in Live' <=> i \in Live \/ i = x
      BY <1>5, <1>10, <3>1
    <3>3. Live' = Live \cup {x}
      BY <1>5, <1>10, <3>1, <3>2
    <3>4. Base' = x
      BY <1>5, <1>8, <2>4 DEF Base, Succ
    <3>. QED
      BY <2>3, <3>3, <3>4
  <2>5. CASE ~Walkable'
    BY <1>2, <2>3, <2>5 DEF Live, Base
  <2>. QED
    BY <2>4, <2>5
<1>12. \A i \in Live : toc'[i] = toc[i]
  BY <1>7, <1>10
<1>13. Named => Pred(next) # x /\ Pred(next) \in Live
  <2>. SUFFICES ASSUME Named PROVE Pred(next) # x /\ Pred(next) \in Live
    OBVIOUS
  <2>1. ~(next = 0 /\ x = MaxToc - 1)
    <3>1. CASE oldest = Empty
      BY <1>1, <3>1 DEF Oldest
    <3>2. CASE oldest # Empty
      <4>1. oldest \in Live
        BY <1>1, <3>2 DEF Oldest
      <4>. QED
        BY <1>5, <1>10, <4>1
    <3>. QED
      BY <3>1, <3>2
  <2>. QED
    BY <1>5, <1>10, <2>1 DEF Pred
<1>14. Newest' = Newest /\ Coming' = Coming /\ (Named' <=> Named)
  BY <1>2 DEF Newest, Coming, Named
<1>15. Entries'
  <2>1. ASSUME NEW i \in Live' PROVE toc'[i].time \in Chain /\ toc'[i] = Entry(toc'[i].time)
    BY <1>1, <1>7, <1>11, <1>12 DEF Entries
  <2>2. ASSUME NEW i \in Live', i # x
        PROVE  Pred(i) \in Live' /\ prior[toc'[i].time] = toc'[Pred(i)].time
    <3>1. i \in Live
      BY <1>11, <2>2
    <3>2. CASE i # Base
      BY <1>1, <1>11, <1>12, <3>1, <3>2 DEF Entries
    <3>3. CASE i = Base
      <4>1. Pred(i) = x
        BY <1>4, <1>5, <3>3 DEF Base, Succ, Pred
      <4>2. prior[toc[i].time] = c
        BY <1>6, <3>1, <3>3 DEF AtFrame
      <4>. QED
        BY <1>7, <1>11, <1>12, <3>1, <4>1, <4>2
    <3>. QED
      BY <3>2, <3>3
  <2>3. Pred(next) \in Live' => toc'[Pred(next)].time = Newest
    <3>1. CASE Pred(next) = x
      <4>1. next = 0 /\ x = MaxToc - 1
        BY <1>5, <3>1 DEF Pred
      <4>2. Base = 0
        BY <1>4, <4>1 DEF Base, Succ
      <4>3. Base \notin Live
        BY <1>5, <1>10, <4>1, <4>2
      <4>4. c = Newest
        BY <1>6, <4>3 DEF AtFrame
      <4>. QED
        BY <1>7, <3>1, <4>4
    <3>2. CASE Pred(next) # x
      BY <1>1, <1>11, <1>12, <3>2 DEF Entries
    <3>. QED
      BY <3>1, <3>2
  <2>4. Named => toc'[Pred(next)] = Entry(last)
    BY <1>1, <1>12, <1>13 DEF Entries
  <2>. QED
    BY <1>2, <1>3, <1>11, <1>14, <2>1, <2>2, <2>3, <2>4 DEF Entries, Entry, Pred
<1>16. Clear(c, IF wr = "idle" THEN 1 ELSE 0)
  <2>1. ReadLag + 1 - ini.lag \in Nat /\ 1 \in 0 .. ReadLag + 1 - ini.lag /\ 0 \in 0 .. ReadLag + 1 - ini.lag
    BY <1>5
  <2>. PICK k \in Nat : k = ReadLag + 1 - ini.lag
    BY <2>1
  <2>2. off[c] \in Nat /\ WrittenEnd \in Nat
    <3>1. \A i \in 1 .. n : off[i] \in Nat /\ len[i] \in Nat
      BY <1>1, PlaceFacts DEF FileInv
    <3>2. last \in 1 .. n /\ n \in 1 .. n
      <4>1. last \in Nat /\ n \in Nat /\ last <= n
        BY <1>1, CountFacts
      <4>. QED
        BY <1>6, <4>1
    <3>. QED
      BY <1>6, <3>1, <3>2 DEF WrittenEnd, LastEnd
  <2>3. Whole(c) /\ Margin(WrittenEnd, off[c], k)
    BY <1>4 DEF Clear
  <2>4. Margin(WrittenEnd, off[c], 0) /\ Margin(WrittenEnd, off[c], 1)
    BY <2>1, <2>2, <2>3, MarginLess
  <2>. QED
    BY <2>3, <2>4 DEF Clear
<1>17. Oldest'
  <2>1. oldest' # Empty /\ oldest' \in Live' /\ x # (IF Named THEN Pred(next) ELSE next)
    BY <1>2, <1>5, <1>11, <1>13 DEF Empty
  <2>2. toc'[oldest'].time = c
    BY <1>2, <1>7
  <2>3. Clear(c, IF wr = "idle" THEN 1 ELSE 0)'
    BY <1>2, <1>3, <1>16
  <2>. QED
    BY <1>2, <1>14, <2>1, <2>2, <2>3 DEF Oldest, Clear, Whole, Intact, Pred
<1>18. Storing'
  <2>. SUFFICES ASSUME wr = "store" PROVE Storing'
    BY <1>2 DEF Storing
  <2>1. /\ ti \in Window \/ ti = Pred(next)
        /\ ti # next /\ Clear(toc[ti].time, 1) /\ Named
    BY <1>1 DEF Storing, Named
  <2>2. ti \in Live
    BY <1>10, <1>13, <2>1
  <2>3. ti \in Window' /\ toc'[ti] = toc[ti]
    BY <1>11, <1>12, <2>2
  <2>4. Clear(toc[ti].time, 1)'
    <3>. PICK f : f = toc[ti].time
      OBVIOUS
    <3>1. Clear(f, 1)' /\ toc'[ti'].time = f
      BY <1>2, <1>3, <2>1, <2>3
    <3>. QED
      BY <3>1 DEF Clear
  <2>. QED
    BY <1>2, <2>1, <2>3, <2>4 DEF Storing
<1>19. Walk'
  <2>1. Walkable' => AtFrame' = prior[c]
    BY <1>2, <1>7, <1>11 DEF AtFrame
  <2>2. ini'.at = OffsetOf(prior[c])' /\ x - 1 # MaxToc - 1 /\ toc'[Base'].time = c
    BY <1>2, <1>5, <1>7, <1>8, <1>11 DEF OffsetOf
  <2>. QED
    BY <1>2, <1>4, <1>8, <1>14, <2>1, <2>2 DEF Walk, OffsetOf
<1>. QED
  BY <1>3, <1>9, <1>10, <1>11, <1>12, <1>15, <1>17, <1>18, <1>19 DEF RecoverInv

-----------------------------------------------------------------------------
(* Starts of the process. *)

\* rp_toc_init_thread begins at the frame that the header names, which no
\* writes of the next 10 seconds come to.
LEMMA FreshTable ==
  ASSUME RecoverTypeOK, FileInv, wr = "idle", next = 0, oldest = Empty,
         ini.pc = "read", ini.idx = MaxToc - 1, ini.at = OffsetOf(last), ini.time = MaxWrites + 1,
         last > 0 => Clear(last, MaxUnsaved)
  PROVE  RecoverInv
<1>1. MaxToc \in Nat /\ MaxToc > 2 /\ MaxUnsaved \in Nat
  BY RingAssumption, CountFacts
<1>2. Walkable /\ Live = {} /\ Base = 0 /\ ~Named /\ Coming = 0
  BY <1>1 DEF Walkable, Live, Base, Succ, Named, Coming, Indices
<1>3. Newest = last /\ AtFrame = last
  BY <1>2 DEF Newest, AtFrame
<1>4. MaxUnsaved - (next + Coming) = MaxUnsaved /\ next + Coming <= MaxUnsaved /\ next + Coming < MaxToc
  BY <1>1, <1>2
<1>. QED
  BY <1>2, <1>3, <1>4 DEF RecoverInv, Entries, Oldest, Storing, Walk

LEMMA StartedFacts ==
  ASSUME NEW i
  PROVE  /\ StartedAt(i).pc = "read" /\ StartedAt(i).at = OffsetOf(i) /\ StartedAt(i).time = MaxWrites + 1
         /\ StartedAt(i).idx = MaxToc - 1
         /\ OffsetOf(i) \in Nat => StartedAt(i) \in InitThread
<1>1. MaxWrites + 1 \in 1 .. MaxWrites + 1 /\ MaxToc - 1 \in -1 .. MaxToc - 1 /\ 0 \in 0 .. ReadLag
  BY WritesAssumption, RingAssumption
<1>. QED
  BY <1>1 DEF StartedAt, InitThread

LEMMA InitRecover == RecoverInit => RecoverInv
<1>. SUFFICES ASSUME RecoverInit PROVE RecoverInv
  OBVIOUS
<1>1. /\ n = 0 /\ last = 0 /\ saved = 0 /\ unsaved = 0 /\ wr = "idle" /\ next = 0 /\ oldest = Empty
      /\ off = [i \in Numbers |-> 0] /\ len = [i \in Numbers |-> 0] /\ prior = [i \in Numbers |-> 0]
      /\ toc = [i \in Indices |-> [time |-> 0, div |-> 0]]
      /\ ti = Empty /\ starts = 1 /\ raced = FALSE /\ ini = [StartedAt(last) EXCEPT !.at = 0]
  BY DEF RecoverInit, Init
<1>2. StartedAt(0) \in InitThread /\ OffsetOf(0) = 0 /\ OffsetOf(last) = 0
  BY <1>1, StartedFacts DEF OffsetOf
<1>3. ini \in InitThread /\ ini.pc = "read" /\ ini.idx = MaxToc - 1 /\ ini.at = 0 /\ ini.time = MaxWrites + 1
  <2>1. [StartedAt(0) EXCEPT !.at = 0] = StartedAt(0)
    BY <1>2 DEF StartedAt
  <2>. QED
    BY <1>1, <1>2, <2>1, StartedFacts
<1>4. RecoverTypeOK
  <2>1. 0 \in 0 .. MaxWrites /\ 0 \in 0 .. MaxOff - 1 /\ 0 \in Indices /\ 0 \in 0 .. MaxUnsaved
    BY WritesAssumption, RingAssumption, UnsavedAssumption, GeometryAssumption DEF MaxOff, Indices
  <2>2. starts \in 0 .. MaxStarts
    BY <1>1, UnsavedAssumption
  <2>3. /\ n \in 0 .. MaxWrites /\ last \in 0 .. n /\ saved \in 0 .. n /\ next \in Indices
        /\ oldest \in {Empty} \cup Indices /\ ti \in {Empty} \cup Indices
        /\ unsaved \in 0 .. MaxUnsaved
    BY <1>1, <2>1
  <2>4. off \in [Numbers -> 0 .. MaxOff - 1]
    BY <1>1, <2>1
  <2>5. len \in [Numbers -> Nat]
    BY <1>1
  <2>6. prior \in [Numbers -> {0} \cup Numbers]
    BY <1>1
  <2>7. toc \in [Indices -> [time : {0} \cup Numbers, div : Nat]]
    BY <1>1
  <2>8. raced \in BOOLEAN /\ wr \in {"idle", "hdr", "toc", "oldest", "store", "exited"}
    BY <1>1
  <2>. QED
    BY <1>3, <2>2, <2>3, <2>4, <2>5, <2>6, <2>7, <2>8 DEF RecoverTypeOK
<1>5. FileInv
  BY <1>1 DEF FileInv, FramesOK, Links, Ends, SavedClear, InTurn, Chain, OnChain, Putting
<1>. QED
  BY <1>1, <1>2, <1>3, <1>4, <1>5, FreshTable

LEMMA RestartStep ==
  ASSUME RecoverInv, Restart
  PROVE  RecoverInv'
<1>1. RecoverTypeOK /\ FileInv
  BY DEF RecoverInv
<1>2. /\ last' = saved /\ unsaved' = 0 /\ toc' = [i \in Indices |-> [time |-> 0, div |-> 0]]
      /\ next' = 0 /\ oldest' = Empty /\ ti' = Empty /\ wr' = "idle" /\ ini' = StartedAt(saved)
      /\ raced' = FALSE /\ UNCHANGED <<n, off, len, rd, prior, saved>>
      /\ starts < MaxStarts /\ starts' = starts + 1
  BY DEF Restart
<1>3. FileInv' /\ (last' > 0 => Clear(last, MaxUnsaved)')
  BY <1>1, RestartFile
<1>4. OffsetOf(saved) \in Nat /\ saved \in 0 .. n
  <2>1. saved = 0 \/ saved \in 1 .. n
    BY <1>1, CountFacts
  <2>. QED
    BY <1>1, <2>1, PlaceFacts, CountFacts DEF OffsetOf, FileInv
<1>5. /\ ini' \in InitThread /\ ini'.pc = "read" /\ ini'.idx = MaxToc - 1 /\ ini'.at = OffsetOf(last)'
      /\ ini'.time = MaxWrites + 1
  BY <1>2, <1>4, StartedFacts DEF OffsetOf
<1>6. RecoverTypeOK'
  <2>1. 0 \in Indices /\ 0 \in 0 .. MaxUnsaved
    BY RingAssumption, UnsavedAssumption DEF Indices
  <2>2. starts' \in 0 .. MaxStarts
    BY <1>1, <1>2, UnsavedAssumption DEF RecoverTypeOK
  <2>3. n \in 0 .. MaxWrites /\ off \in [Numbers -> 0 .. MaxOff - 1] /\ len \in [Numbers -> Nat]
        /\ prior \in [Numbers -> {0} \cup Numbers]
    BY <1>1 DEF RecoverTypeOK
  <2>4. toc' \in [Indices -> [time : {0} \cup Numbers, div : Nat]]
    BY <1>2
  <2>. QED
    BY <1>2, <1>4, <1>5, <2>1, <2>2, <2>3, <2>4 DEF RecoverTypeOK
<1>7. MaxToc \in Nat /\ MaxToc > 2 /\ MaxUnsaved \in Nat
  BY RingAssumption, UnsavedAssumption
<1>8. Walkable' /\ Live' = {} /\ Base' = 0 /\ ~Named' /\ Coming' = 0
  BY <1>2, <1>5, <1>7 DEF Walkable, Live, Base, Succ, Named, Coming, Indices
<1>9. Newest' = last' /\ AtFrame' = last'
  BY <1>2, <1>8 DEF Newest, AtFrame
<1>10. MaxUnsaved - (next' + Coming') = MaxUnsaved /\ next' + Coming' <= MaxUnsaved /\ next' + Coming' < MaxToc
  BY <1>2, <1>7, <1>8
<1>11. Entries' /\ Oldest' /\ Storing'
  BY <1>2, <1>5, <1>8 DEF Entries, Oldest, Storing
<1>12. Walk'
  <2>1. OffsetOf(AtFrame)' = OffsetOf(last)'
    BY <1>9 DEF OffsetOf
  <2>2. AtFrame' > 0 => Clear(AtFrame, MaxUnsaved - (next + Coming))'
    BY <1>3, <1>9, <1>10 DEF Clear
  <2>. QED
    BY <1>5, <1>10, <2>1, <2>2 DEF Walk
<1>. QED
  BY <1>3, <1>6, <1>11, <1>12 DEF RecoverInv

LEMMA RecoverStep == RecoverInv /\ [RecoverNext]_recoverVars => RecoverInv'
<1>. SUFFICES ASSUME RecoverInv, [RecoverNext]_recoverVars PROVE RecoverInv'
  OBVIOUS
<1>1. ASSUME NEW l \in FrameLens, RecordFrame(l) PROVE RecoverInv'
  BY <1>1, PutStep
<1>2. CASE RecordEntry
  BY <1>2, NameStep, EntryStep DEF RecordEntry
<1>3. CASE ReadOldest
  BY <1>3, ReadOldestStep
<1>4. CASE StoreOldest
  BY <1>4, StoreOldestStep
<1>5. CASE SaveHdr
  BY <1>5, SaveStep
<1>6. CASE WalkReads
  BY <1>6, WalkReadsStep
<1>7. CASE WalkStores
  BY <1>7, WalkStoresStep
<1>8. CASE Restart
  BY <1>8, RestartStep
<1>9. CASE UNCHANGED recoverVars
  <2>1. /\ UNCHANGED <<n, off, len, last, toc, next, oldest, wr, rd>>
        /\ UNCHANGED <<prior, saved, unsaved, ti, ini, starts, raced>>
    BY <1>9 DEF recoverVars, vars
  <2>2. RecoverTypeOK'
    BY <2>1 DEF RecoverInv, RecoverTypeOK
  <2>3. FileInv' /\ Chain' = Chain /\ WrittenEnd' = WrittenEnd
    BY <2>1, SameFrames DEF RecoverInv
  <2>. QED
    BY <2>1, <2>2, <2>3, SameTable
<1>. QED
  BY <1>1, <1>2, <1>3, <1>4, <1>5, <1>6, <1>7, <1>8, <1>9 DEF RecoverNext

LEMMA Recovering == RecoverSpec => []RecoverInv
BY InitRecover, RecoverStep, PTL DEF RecoverSpec

-----------------------------------------------------------------------------
(* What follows. *)

\* Types; the walk stays in the table, and the writes it meets are counted.
THEOREM RecoverTyped == RecoverSpec => []RecoverTypeOK
<1>1. RecoverInv => RecoverTypeOK
  BY DEF RecoverInv
<1>. QED
  BY <1>1, Recovering, PTL

\* The entries that both threads have made are one stretch of the recording,
\* over restarts and lost frames.
THEOREM TableIsChain == RecoverSpec => []WindowIsChain
<1>1. ASSUME RecoverInv PROVE WindowIsChain
  <2>1. RecoverTypeOK /\ Oldest /\ Entries
    BY <1>1 DEF RecoverInv
  <2>2. ASSUME NEW i \in Window
        PROVE  /\ toc[i].time \in 1 .. n /\ toc[i].div * Align = off[toc[i].time]
               /\ i # oldest => Before(i) = toc[(i + MaxToc - 1) % MaxToc].time
    <3>1. i \in Live /\ i \in 0 .. MaxToc - 1
      BY <1>1, LiveFacts
    <3>2. (i + MaxToc - 1) % MaxToc = Pred(i)
      BY <3>1, WrapFacts
    <3>3. i # oldest => i # Base
      BY <2>1, WindowLive
    <3>. QED
      BY <1>1, <2>1, <3>1, <3>2, <3>3, LiveFacts DEF Entries, Before
  <2>. QED
    BY <2>2 DEF WindowIsChain
<1>. QED
  BY <1>1, Recovering, PTL

\* Every frame in the table is whole, whatever frames that no header names
\* lie across the older ones.
THEOREM TableIsWhole == RecoverSpec => []WindowIntact
<1>1. RecoverInv => WindowIntact
  BY WindowWhole DEF WindowIntact, Whole
<1>. QED
  BY <1>1, Recovering, PTL

\* The loop that moves rp_toc_idx_oldest meets only entries in use, beside
\* the thread that moves it too.
THEOREM ScanMeets == RecoverSpec => []ScanMeetsFrames
<1>1. ASSUME RecoverInv PROVE ScanMeetsFrames
  <2>1. ASSUME wr = "oldest", oldest # Empty, NEW k \in 0 .. Passed
        PROVE  toc[(ScanStart + k) % MaxToc].time > 0
    <3>1. Named
      BY <2>1 DEF Named
    <3>. PICK i \in Window : i = (ScanStart + k) % MaxToc
      BY <1>1, <2>1, <3>1, ScanTable
    <3>2. toc[i].time \in 1 .. n
      BY <1>1, LiveFacts
    <3>. QED
      BY <3>2
  <2>. QED
    BY <2>1 DEF ScanMeetsFrames
<1>. QED
  BY <1>1, Recovering, PTL

\* The entries in use, counted.
LEMMA WindowSize ==
  ASSUME RecoverTypeOK, oldest # Empty
  PROVE  Cardinality(Window) = Size /\ Size \in Nat
<1>1. /\ MaxToc \in Nat /\ next \in 0 .. MaxToc - 1 /\ oldest \in 0 .. MaxToc - 1
      /\ 0 \in Int /\ MaxToc - 1 \in Int /\ next - 1 \in Int /\ oldest - 1 \in Int
  BY IndexFacts
<1>2. CASE oldest < next
  <2>1. Cardinality(oldest .. next - 1) = next - oldest
    BY <1>1, <1>2, FS_Interval
  <2>. QED
    BY <1>1, <1>2, <2>1 DEF Window, Size
<1>3. CASE ~(oldest < next)
  <2>1. Window = (0 .. MaxToc - 1) \ (next .. oldest - 1)
    BY <1>3 DEF Window, Indices
  <2>2. IsFiniteSet(0 .. MaxToc - 1) /\ Cardinality(0 .. MaxToc - 1) = MaxToc
    BY <1>1, FS_Interval
  <2>3. Cardinality(next .. oldest - 1) = oldest - next
    <3>1. next \in Int /\ oldest \in Int /\ next <= oldest
      BY <1>1, <1>3
    <3>2. Cardinality(next .. oldest - 1) = IF next > oldest - 1 THEN 0 ELSE (oldest - 1) - next + 1
      BY <1>1, <3>1, FS_Interval
    <3>. QED
      BY <3>1, <3>2
  <2>4. (0 .. MaxToc - 1) \cap (next .. oldest - 1) = next .. oldest - 1
    BY <1>1
  <2>5. Cardinality(Window) = MaxToc - (oldest - next)
    <3>. DEFINE S == 0 .. MaxToc - 1
                T == next .. oldest - 1
    <3>1. IsFiniteSet(S) /\ Cardinality(S) = MaxToc /\ S \cap T = T /\ Cardinality(T) = oldest - next
      BY <2>2, <2>3, <2>4
    <3>. HIDE DEF S, T
    <3>2. Cardinality(S \ T) = Cardinality(S) - Cardinality(S \cap T)
      BY <3>1, FS_Difference
    <3>. QED
      BY <2>1, <3>1, <3>2 DEF S, T
  <2>. QED
    BY <1>1, <1>3, <2>5 DEF Size
<1>. QED
  BY <1>2, <1>3

\* A new entry pushes none out of use.
LEMMA EntryKeeps ==
  ASSUME RecoverInv, WriteToc, UNCHANGED ini
  PROVE  Window \subseteq Window' /\ \A i \in Window : toc'[i] = toc[i]
<1>1. RecoverTypeOK /\ Oldest
  BY DEF RecoverInv
<1>2. /\ oldest' = oldest /\ wr = "toc" /\ ~Named
      /\ next' = (next + 1) % MaxToc /\ toc' = [toc EXCEPT ![next] = Entry(n)]
  BY DEF WriteToc, Named, Entry
<1>3. /\ MaxToc \in Nat /\ MaxToc > 2 /\ next \in 0 .. MaxToc - 1
      /\ oldest # Empty => oldest \in 0 .. MaxToc - 1
  BY <1>1, IndexFacts
<1>4. next' = Succ(next) /\ next \notin Live
  BY EntryLive
<1>5. Window \subseteq Live /\ Window \subseteq 0 .. MaxToc - 1
  BY <1>1, WindowLive
<1>6. CASE oldest = Empty
  <2>1. Window = {}
    BY <1>6 DEF Window
  <2>. QED
    BY <2>1
<1>7. CASE oldest # Empty
  <2>1. oldest # next
    BY <1>1, <1>2, <1>7 DEF Oldest
  <2>2. \A i \in 0 .. MaxToc - 1 :
          i \in Window <=> IF oldest < next THEN oldest <= i /\ i < next ELSE i < next \/ oldest <= i
    BY <1>1, <1>7, WindowIn
  <2>3. Window' = IF oldest < next' THEN oldest .. next' - 1 ELSE 0 .. MaxToc - 1 \ (next' .. oldest - 1)
    BY <1>2, <1>7 DEF Window, Indices
  <2>. HIDE DEF Window
  <2>4. \A i \in 0 .. MaxToc - 1 : i \in Window => i \in Window'
    BY <1>3, <1>4, <1>7, <2>1, <2>2, <2>3 DEF Succ
  <2>5. \A i \in Window : i # next
    BY <1>4, <1>5
  <2>6. toc \in [Indices -> [time : {0} \cup Numbers, div : Nat]] /\ Indices = 0 .. MaxToc - 1
    BY <1>1 DEF RecoverTypeOK, Indices
  <2>7. \A i \in Window : toc'[i] = toc[i]
    BY <1>2, <1>5, <2>5, <2>6
  <2>. QED
    BY <1>5, <2>4, <2>7
<1>. QED
  BY <1>6, <1>7

\* The store of the recorder drops no entry that the file and the table do not
\* come to, unless the walk has stored in between.
LEMMA StoreKeeps ==
  ASSUME RecoverInv, StoreOldest, ~raced, NEW i \in Window
  PROVE  i \in Window' \/ ~Roomy(LastEnd, off[toc[i].time]) \/ Cardinality(Window) > MaxToc - TocGap
<1>1. RecoverTypeOK /\ Storing
  BY DEF RecoverInv
<1>2. wr = "store" /\ Named
  BY DEF StoreOldest, Named
<1>3. oldest # Empty
  BY <1>1, WindowIn
<1>4. ti = ScanEnd
  BY <1>1, <1>2, <1>3 DEF Storing
<1>5. \A j \in Window : PlaceOf(j) < PlaceOf(ti) => ~TocRoomy(j) \/ Size > MaxToc - TocGap
  BY <1>2, <1>3, <1>4, ScanTable
<1>6. PlaceOf(i) >= PlaceOf(ti) => i \in Window'
  BY <1>3, StoreWindow
<1>7. toc[i].div * Align = off[toc[i].time]
  BY LiveFacts
<1>8. PlaceOf(i) \in Nat /\ PlaceOf(ti) \in Nat
  <2>1. i \in 0 .. MaxToc - 1 /\ ti \in 0 .. MaxToc - 1 /\ MaxToc \in Nat
    BY <1>1, LiveFacts, StoreWindow, IndexFacts DEF Indices
  <2>. QED
    BY <1>1, <1>3, <2>1, WindowPlaces
<1>9. Cardinality(Window) = Size
  BY <1>1, <1>3, WindowSize
<1>10. PlaceOf(i) < PlaceOf(ti) \/ PlaceOf(i) >= PlaceOf(ti)
  BY <1>8
<1>11. TocRoomy(i) <=> Roomy(LastEnd, off[toc[i].time])
  BY <1>7 DEF TocRoomy
<1>. QED
  BY <1>5, <1>6, <1>9, <1>10, <1>11

\* A frame that was recovered stays in the table until the file or the table
\* comes round to it, but for the one lost store of the walk.
THEOREM KeepsRecovered == RecoverSpec => RecoveredKept
<1>1. ASSUME RecoverInv, [RecoverNext]_recoverVars
      PROVE  [~Restart /\ ~(raced /\ StoreOldest) =>
                \A f \in Listed : f \in Listed' \/ ~Roomy(LastEnd, off[f])
                                  \/ Cardinality(Window) > MaxToc - TocGap]_recoverVars
  <2>. SUFFICES ASSUME RecoverNext, ~Restart, ~(raced /\ StoreOldest), NEW f \in Listed
                PROVE  f \in Listed' \/ ~Roomy(LastEnd, off[f]) \/ Cardinality(Window) > MaxToc - TocGap
    BY <1>1
  <2>. PICK i \in Window : f = toc[i].time
    BY DEF Listed
  <2>1. i \in Window' /\ toc'[i] = toc[i] => f \in Listed'
    BY DEF Listed
  <2>2. CASE UNCHANGED <<toc, next, oldest>>
    BY <2>1, <2>2 DEF Window
  <2>3. CASE RecordEntry
    <3>1. CASE WriteHdr
      BY <1>1, <2>2, <3>1 DEF WriteHdr
    <3>2. CASE WriteToc
      BY <1>1, <2>1, <2>3, <3>2, EntryKeeps DEF RecordEntry
    <3>. QED
      BY <2>3, <3>1, <3>2 DEF RecordEntry
  <2>4. CASE StoreOldest
    <3>1. toc'[i] = toc[i]
      BY <2>4 DEF StoreOldest
    <3>. QED
      BY <1>1, <2>1, <2>4, <3>1, StoreKeeps
  <2>5. CASE WalkStores
    BY <1>1, <2>1, <2>5, WalkStoresStep
  <2>6. ASSUME NEW l \in FrameLens, RecordFrame(l) PROVE UNCHANGED <<toc, next, oldest>>
    BY <2>6 DEF RecordFrame, WritePwritev, WriteFail, PutFrame
  <2>7. ReadOldest => UNCHANGED <<toc, next, oldest>>
    BY DEF ReadOldest, ringVars
  <2>8. SaveHdr \/ WalkReads => UNCHANGED <<toc, next, oldest>>
    BY DEF SaveHdr, WalkReads, vars
  <2>. QED
    BY <2>2, <2>3, <2>4, <2>5, <2>6, <2>7, <2>8 DEF RecoverNext
<1>. QED
  BY <1>1, Recovering, PTL DEF RecoverSpec, RecoveredKept

=============================================================================
