---------------------------- MODULE RpRingProofs ----------------------------
(***************************************************************************)
(* The table of contents with its wrapping indices implements the abstract *)
(* ring file, for every size of file, table and frames, and any number of  *)
(* writes.                                                                 *)
(***************************************************************************)
EXTENDS RpRing, FiniteSetTheorems, WellFoundedInduction, TLAPS

-----------------------------------------------------------------------------
(* The places of frames in the file. *)

\* ROUND_UP moves forward by less than the alignment.
LEMMA RoundUpBounds ==
  ASSUME NEW v \in Nat
  PROVE  RoundUp(v) \in Nat /\ v <= RoundUp(v) /\ RoundUp(v) < v + Align
BY GeometryAssumption DEF RoundUp

\* A frame offset is in the part of the file that frames may start in.
LEMMA NextOffsetRange ==
  ASSUME NEW o \in Nat, NEW l \in Nat
  PROVE  /\ NextOffset(o, l) \in Nat
         /\ MinOff <= NextOffset(o, l)  \/ o # 0
         /\ o >= MinOff => MinOff <= NextOffset(o, l)
         /\ NextOffset(o, l) < MaxOff
BY RoundUpBounds, GeometryAssumption DEF NextOffset, MaxOff

\* A multiple of a number leaves no remainder.
LEMMA Multiple ==
  ASSUME NEW A \in Nat, A > 0, NEW q \in Int
  PROVE  (q * A) % A = 0
<1>. DEFINE p == q * A
            d == p \div A
            r == p % A
            k == q - d
<1>1. p \in Int /\ d \in Int /\ k \in Int
  OBVIOUS
<1>2. r \in 0 .. A - 1 /\ p = A * d + r
  BY <1>1
<1>3. r = A * k
  BY <1>1, <1>2
<1>. HIDE DEF k, d, r, p
<1>4. (k >= 1 => A * k >= A) /\ (k <= -1 => A * k <= -A)
  BY <1>1
<1>5. k = 0
  BY <1>1, <1>2, <1>3, <1>4
<1>6. r = 0
  BY <1>3, <1>5
<1>. QED
  BY <1>6 DEF r, p

\* ROUND_UP ends on a multiple of the alignment.
LEMMA RoundUpAligned ==
  ASSUME NEW v \in Nat
  PROVE  RoundUp(v) % Align = 0
<1>. DEFINE q == -((-v) \div Align)
<1>1. q \in Int /\ v + ((-v) % Align) = q * Align
  BY GeometryAssumption
<1>2. (q * Align) % Align = 0
  BY <1>1, Multiple, GeometryAssumption
<1>. HIDE DEF q
<1>. QED
  BY <1>1, <1>2 DEF RoundUp

\* A frame offset is a multiple of the alignment.
LEMMA NextOffsetAligned ==
  ASSUME NEW o \in Nat, NEW l \in Nat
  PROVE  NextOffset(o, l) % Align = 0
<1>1. RoundUp(o + l) % Align = 0
  BY RoundUpAligned
<1>. QED
  BY <1>1, GeometryAssumption DEF NextOffset

\* An offset can be stored as a multiple of the alignment.
LEMMA DivAlign ==
  ASSUME NEW o \in Nat, o % Align = 0
  PROVE  o \div Align \in Nat /\ (o \div Align) * Align = o
BY GeometryAssumption

\* What the next write adds to the distance from a frame to the end of the
\* last one.
Step(e, m) ==
  IF RoundUp(e) >= MaxOff THEN MinOff + m + FileSize - e ELSE RoundUp(e) + m - e

\* That is the same for all frames that are roomy.
LEMMA Advance ==
  ASSUME NEW o \in Nat, NEW l \in Nat, o # 0, o + l <= FileSize,
         NEW a \in Nat, MinOff <= a, a < MaxOff,
         Roomy(o + l, a),
         NEW m \in Lengths
  PROVE  /\ FileLength(NextOffset(o, l) + m, a) = FileLength(o + l, a) + Step(o + l, m)
         /\ m <= FileLength(NextOffset(o, l) + m, a)
<1>. DEFINE e == o + l
<1>1. e \in Nat /\ e <= RoundUp(e) /\ RoundUp(e) < e + Align /\ RoundUp(e) \in Nat
  BY RoundUpBounds
<1>2. CASE RoundUp(e) < MaxOff
  BY <1>1, <1>2, GeometryAssumption
     DEF NextOffset, MaxOff, Roomy, FileLength, Lengths, Step
<1>3. CASE RoundUp(e) >= MaxOff
  BY <1>1, <1>3, GeometryAssumption
     DEF NextOffset, MaxOff, Roomy, FileLength, Lengths, Step
<1>. QED
  BY <1>1, <1>2, <1>3, GeometryAssumption DEF MaxOff

\* The frame written last is roomy.
LEMMA NewestRoomy ==
  ASSUME NEW o \in Nat, NEW m \in Lengths
  PROVE  FileLength(o + m, o) = m /\ Roomy(o + m, o)
BY GeometryAssumption DEF FileLength, Roomy, Lengths

-----------------------------------------------------------------------------
(* The least number, and indices that wrap. *)

\* Every set of natural numbers that is not empty has a least member: of the
\* intervals from 0 to a member, one has none of the others within it.
LEMMA Least ==
  ASSUME NEW T \in SUBSET Nat, T # {}
  PROVE  \E m \in T : \A k \in T : m <= k
<1>. DEFINE F == {0 .. t : t \in T}
<1>1. F \subseteq FiniteSubsetsOf(Nat)
  <2>1. ASSUME NEW t \in T PROVE 0 .. t \in FiniteSubsetsOf(Nat)
    <3>1. IsFiniteSet(0 .. t)
      BY FS_Interval
    <3>2. 0 .. t \in SUBSET Nat
      OBVIOUS
    <3>. QED
      BY <3>1, <3>2 DEF FiniteSubsetsOf
  <2>. QED
    BY <2>1
<1>2. F # {}
  OBVIOUS
<1>3. \E x \in F : \A y \in F : ~ (<<y, x>> \in StrictSubsetOrdering(Nat))
  BY <1>1, <1>2, FS_StrictSubsetOrderingWellFounded, WFMin
<1>4. PICK m \in T : \A k \in T : <<0 .. k, 0 .. m>> \notin StrictSubsetOrdering(Nat)
  BY <1>3
<1>5. ASSUME NEW k \in T, k < m PROVE FALSE
  <2>1. 0 .. k \subseteq 0 .. m /\ 0 .. k # 0 .. m /\ 0 .. m \subseteq Nat
    BY <1>5
  <2>. QED BY <2>1, <1>4 DEF StrictSubsetOrdering
<1>. QED BY <1>4, <1>5

\* An index that is less than twice round the table.
LEMMA Wrap ==
  ASSUME NEW M \in Nat \ {0}, NEW a \in 0 .. 2 * M - 1
  PROVE  a % M = IF a < M THEN a ELSE a - M
OBVIOUS

-----------------------------------------------------------------------------
(* The invariant. *)

\* the newest frame in the table
Filed == IF wr \in {"hdr", "toc", "exited"} THEN n - 1 ELSE n

\* entries of the table in use
Count == Filed + 1 - First

\* the index k places after index o
At(o, k) == IF o + k < MaxToc THEN o + k ELSE o + k - MaxToc

Entry(i) == [time |-> i, div |-> off[i] \div Align]

EndOff == off[n] + len[n]

FramesOK ==
  \A i \in 1 .. n :
    len[i] \in Lengths /\ MinOff <= off[i] /\ off[i] < MaxOff /\ off[i] % Align = 0

Counters ==
  /\ last = IF wr \in {"hdr", "exited"} THEN n - 1 ELSE n
  /\ wr # "idle" => n > 0

\* before the first entry is named as the oldest
Starting ==
  oldest = Empty =>
    /\ n <= 1 /\ (wr = "idle" => n = 0)
    /\ next = IF wr = "oldest" THEN 1 ELSE 0
    /\ wr = "oldest" => toc[0] = Entry(1)

\* and afterwards
Table ==
  oldest # Empty =>
    /\ First \in 1 .. Filed
    /\ Count <= MaxToc - TocGap + (IF wr = "oldest" THEN 2 ELSE 1)
    /\ wr = "oldest" => First < n
    /\ next = At(oldest, Count)
    /\ \A k \in 0 .. Count - 1 : toc[At(oldest, k)] = Entry(First + k)

\* between two writes there is room before each listed frame
Fresh == wr = "idle" => \A i \in First .. n : Roomy(EndOff, off[i])

\* the older a frame, the farther it is behind the end of the last one
Ordered ==
  \A i, j \in First .. n :
    i < j => FileLength(EndOff, off[j]) <= FileLength(EndOff, off[i])

IInv == TypeOK /\ FramesOK /\ Counters /\ Starting /\ Table /\ Fresh /\ Ordered

-----------------------------------------------------------------------------
(* Indices of the table. *)

LEMMA AtIndex ==
  ASSUME NEW o \in Indices, NEW k \in 0 .. MaxToc
  PROVE  At(o, k) \in Indices /\ At(o, 0) = o
BY RingAssumption DEF At, Indices

LEMMA AtDiffers ==
  ASSUME NEW o \in Indices, NEW j \in 0 .. MaxToc - 1, NEW k \in 0 .. MaxToc - 1, j # k
  PROVE  At(o, j) # At(o, k)
BY RingAssumption DEF At, Indices

\* An index that is less than twice round the table.
LEMMA WrapIndex ==
  ASSUME NEW a \in 0 .. 2 * MaxToc - 1
  PROVE  a % MaxToc = IF a < MaxToc THEN a ELSE a - MaxToc
<1>1. MaxToc \in Nat \ {0}
  BY RingAssumption
<1>. QED
  BY <1>1, Wrap

LEMMA AtPlus ==
  ASSUME NEW o \in Indices, NEW j \in 0 .. MaxToc, NEW k \in 0 .. MaxToc,
         j + k <= MaxToc
  PROVE  /\ At(At(o, j), k) = At(o, j + k)
         /\ (At(o, j) + k) % MaxToc = At(o, j + k)
<1>. DEFINE a == At(o, j) + k
<1>1. a \in 0 .. 2 * MaxToc - 1
  BY RingAssumption DEF At, Indices
<1>2. At(At(o, j), k) = At(o, j + k) /\ At(o, j + k) = IF a < MaxToc THEN a ELSE a - MaxToc
  BY RingAssumption DEF At, Indices
<1>. HIDE DEF a
<1>3. a % MaxToc = IF a < MaxToc THEN a ELSE a - MaxToc
  BY <1>1, WrapIndex
<1>. QED
  BY <1>2, <1>3 DEF a

\* Every index is some places after o.
LEMMA AtOnto ==
  ASSUME NEW o \in Indices, NEW i \in Indices
  PROVE  (i + MaxToc - o) % MaxToc \in 0 .. MaxToc - 1 /\ At(o, (i + MaxToc - o) % MaxToc) = i
<1>. DEFINE a == i + MaxToc - o
<1>1. a \in 0 .. 2 * MaxToc - 1
  BY RingAssumption DEF Indices
<1>2. LET b == IF a < MaxToc THEN a ELSE a - MaxToc
      IN  b \in 0 .. MaxToc - 1 /\ At(o, b) = i
  BY RingAssumption DEF At, Indices
<1>. HIDE DEF a
<1>3. a % MaxToc = IF a < MaxToc THEN a ELSE a - MaxToc
  BY <1>1, WrapIndex
<1>4. a % MaxToc \in 0 .. MaxToc - 1 /\ At(o, a % MaxToc) = i
  BY <1>2, <1>3
<1>. QED
  BY <1>4 DEF a

\* the index before the next one
LEMMA TiLastAt ==
  ASSUME NEW o \in Indices, NEW c \in 1 .. MaxToc, next = At(o, c)
  PROVE  TiLast = At(o, c - 1)
<1>. DEFINE a == next + MaxToc - 1
<1>1. a \in 0 .. 2 * MaxToc - 1 /\ (IF a < MaxToc THEN a ELSE a - MaxToc) = At(o, c - 1)
  BY RingAssumption DEF At, Indices
<1>. HIDE DEF a
<1>2. a % MaxToc = IF a < MaxToc THEN a ELSE a - MaxToc
  BY <1>1, WrapIndex
<1>. QED
  BY <1>1, <1>2 DEF a, TiLast

-----------------------------------------------------------------------------
(* What the invariant says of the table and of the frames. *)

\* the place of a frame
LEMMA FrameFacts ==
  ASSUME IInv, NEW i \in 1 .. n
  PROVE  /\ off[i] \in Nat /\ off[i] # 0 /\ len[i] \in Lengths /\ len[i] \in Nat
         /\ MinOff <= off[i] /\ off[i] < MaxOff /\ off[i] + len[i] <= FileSize
         /\ (off[i] \div Align) * Align = off[i]
<1>1. len[i] \in Lengths /\ MinOff <= off[i] /\ off[i] < MaxOff /\ off[i] % Align = 0
  BY DEF IInv, FramesOK
<1>2. off \in [Numbers -> 0 .. MaxOff - 1] /\ n \in 0 .. MaxWrites
  BY DEF IInv, TypeOK
<1>3. off[i] \in Nat
  BY <1>2, WritesAssumption, GeometryAssumption DEF Numbers, MaxOff
<1>4. (off[i] \div Align) * Align = off[i]
  BY <1>1, <1>3, DivAlign
<1>. QED
  BY <1>1, <1>3, <1>4, GeometryAssumption DEF Lengths, MaxOff

\* the size of the table in use
LEMMA TableFacts ==
  ASSUME IInv, oldest # Empty
  PROVE  /\ oldest \in Indices /\ n \in Nat /\ Filed \in 1 .. n
         /\ First \in 1 .. Filed /\ Count \in 1 .. MaxToc
         /\ wr # "oldest" => Count <= MaxToc - 1
         /\ next = At(oldest, Count)
         /\ TiLast = At(oldest, Count - 1)
<1>1. /\ oldest \in Indices /\ n \in Nat /\ First \in 1 .. Filed
      /\ Filed \in Int /\ Filed <= n
      /\ Count <= MaxToc - TocGap + (IF wr = "oldest" THEN 2 ELSE 1)
      /\ next = At(oldest, Count)
  BY WritesAssumption DEF IInv, TypeOK, Table, Filed
<1>2. Count \in 1 .. MaxToc /\ (wr # "oldest" => Count <= MaxToc - 1)
  BY <1>1, RingAssumption DEF Count
<1>3. TiLast = At(oldest, Count - 1)
  BY <1>1, <1>2, TiLastAt
<1>. QED
  BY <1>1, <1>2, <1>3

\* each entry in use names its frame and the place of it
LEMMA EntryFacts ==
  ASSUME IInv, oldest # Empty, NEW k \in 0 .. Count - 1
  PROVE  /\ First + k \in 1 .. n
         /\ At(oldest, k) \in Indices
         /\ toc[At(oldest, k)].time = First + k
         /\ toc[At(oldest, k)].div * Align = off[First + k]
<1>1. First + k \in 1 .. n /\ k \in 0 .. MaxToc /\ oldest \in Indices
  <2>1. /\ oldest \in Indices /\ n \in Nat /\ Filed \in 1 .. n
        /\ First \in 1 .. Filed /\ Count \in 1 .. MaxToc /\ MaxToc \in Nat
    BY TableFacts, RingAssumption
  <2>. QED
    BY <2>1 DEF Count
<1>2. toc[At(oldest, k)] = Entry(First + k)
  BY DEF IInv, Table
<1>3. At(oldest, k) \in Indices
  BY <1>1, AtIndex
<1>. QED
  BY <1>1, <1>2, <1>3, FrameFacts DEF Entry

\* the indices a reader may look at are the entries in use
LEMMA WindowFacts ==
  ASSUME IInv
  PROVE  /\ oldest = Empty => Window = {}
         /\ oldest # Empty =>
              /\ \A i \in Window :
                   LET k == (i + MaxToc - oldest) % MaxToc
                   IN  k \in 0 .. Count - 1 /\ At(oldest, k) = i
              /\ \A k \in 0 .. Count - 1 : At(oldest, k) \in Window
<1>1. oldest = Empty => Window = {}
  BY DEF Window
<1>2. ASSUME oldest # Empty, NEW i \in Window
      PROVE  LET k == (i + MaxToc - oldest) % MaxToc
             IN  k \in 0 .. Count - 1 /\ At(oldest, k) = i
  <2>1. i \in Indices /\ oldest \in Indices /\ next = At(oldest, Count) /\ Count \in 1 .. MaxToc
    <3>1. oldest \in Indices /\ next = At(oldest, Count) /\ Count \in 0 .. MaxToc
          /\ Count \in 1 .. MaxToc
      BY <1>2, TableFacts, RingAssumption
    <3>2. next \in Indices
      BY <3>1, AtIndex
    <3>. QED
      BY <1>2, <3>1, <3>2, RingAssumption DEF Window, Indices
  <2>. DEFINE k == (i + MaxToc - oldest) % MaxToc
  <2>2. k \in 0 .. MaxToc - 1 /\ At(oldest, k) = i
    BY <2>1, AtOnto
  <2>. HIDE DEF k
  <2>3. k < Count
    BY <1>2, <2>1, <2>2, RingAssumption DEF Window, At, Indices
  <2>. QED
    BY <2>1, <2>2, <2>3 DEF k
<1>3. ASSUME oldest # Empty, NEW k \in 0 .. Count - 1 PROVE At(oldest, k) \in Window
  <2>1. oldest \in Indices /\ next = At(oldest, Count) /\ Count \in 1 .. MaxToc
    BY <1>3, TableFacts
  <2>. HIDE DEF Count
  <2>. QED
    BY <1>3, <2>1, RingAssumption DEF Window, At, Indices
<1>. QED
  BY <1>1, <1>2, <1>3

-----------------------------------------------------------------------------
(* The loop that moves rp_toc_idx_oldest. *)

\* entries passed over because the gap after the newest must stay free
GapSkip == IF Count > MaxToc - TocGap + 1 THEN 1 ELSE 0

\* The loop starts at an entry in use and would end at the newest.
LEMMA ScanStarts ==
  ASSUME IInv, wr = "oldest", oldest # Empty
  PROVE  /\ GapSkip \in 0 .. 1 /\ Count >= 2
         /\ ScanStart = At(oldest, GapSkip)
         /\ \A k \in 0 .. Count - 1 :
              TocRoomy(At(oldest, k)) <=> Roomy(EndOff, off[First + k])
         /\ TocRoomy(TiLast)
<1>1. /\ oldest \in Indices /\ Count \in 2 .. MaxToc - TocGap + 2
      /\ TiLast = At(oldest, Count - 1) /\ last = n /\ n \in 1 .. n /\ First + Count - 1 = n
  BY TableFacts DEF IInv, Table, Counters, Count, Filed
<1>2. ScanStart = At(oldest, GapSkip)
  <2>. DEFINE o == IF oldest < TiLast THEN oldest + MaxToc ELSE oldest
              a == IF o - TiLast < TocGap THEN TiLast + TocGap ELSE o
  <2>1. a \in 0 .. 2 * MaxToc - 1
        /\ (IF a < MaxToc THEN a ELSE a - MaxToc) = At(oldest, GapSkip)
    BY <1>1, RingAssumption DEF At, Indices, GapSkip
  <2>2. ScanStart = a % MaxToc
    BY DEF ScanStart
  <2>. HIDE DEF a
  <2>3. a % MaxToc = IF a < MaxToc THEN a ELSE a - MaxToc
    BY <2>1, WrapIndex
  <2>. QED
    BY <2>1, <2>2, <2>3
<1>3. ASSUME NEW k \in 0 .. Count - 1
      PROVE  TocRoomy(At(oldest, k)) <=> Roomy(EndOff, off[First + k])
  BY <1>1, EntryFacts DEF TocRoomy, LastEnd, EndOff
<1>4. Roomy(EndOff, off[n])
  BY <1>1, FrameFacts, NewestRoomy DEF EndOff
<1>5. TocRoomy(TiLast)
  <2>1. Count - 1 \in 0 .. Count - 1 /\ First + (Count - 1) = n
    BY <1>1, TableFacts
  <2>. QED
    BY <1>1, <1>3, <1>4, <2>1
<1>. QED
  BY <1>1, <1>2, <1>3, <1>5 DEF GapSkip

\* It ends at the first entry in use that is roomy, the gap apart.
LEMMA Scan ==
  ASSUME IInv, wr = "oldest", oldest # Empty
  PROVE  \E k \in 0 .. Count - 1 :
           /\ ScanEnd = At(oldest, k)
           /\ Roomy(EndOff, off[First + k])
           /\ Count - k <= MaxToc - TocGap + 1
           /\ \A j \in 0 .. k - 1 :
                ~Roomy(EndOff, off[First + j]) \/ n - (First + j) > MaxToc - TocGap
<1>. DEFINE g == GapSkip
            P(k) == /\ TocRoomy((ScanStart + k) % MaxToc)
                    /\ \A j \in 0 .. k - 1 : ~TocRoomy((ScanStart + j) % MaxToc)
            T == {j \in 0 .. Count - 1 - g : TocRoomy((ScanStart + j) % MaxToc)}
<1>1. /\ g \in 0 .. 1 /\ Count \in 2 .. MaxToc /\ Count <= MaxToc - TocGap + 2
      /\ oldest \in Indices /\ First \in 1 .. n /\ n \in Nat /\ First + Count - 1 = n
      /\ TiLast = At(oldest, Count - 1) /\ TocRoomy(TiLast) /\ ScanStart = At(oldest, g)
      /\ MaxToc \in Nat /\ TocGap \in Nat /\ (g = 1 <=> Count > MaxToc - TocGap + 1)
  BY ScanStarts, TableFacts, RingAssumption DEF IInv, Table, Count, Filed, GapSkip
<1>. HIDE DEF g
<1>2. ASSUME NEW j \in 0 .. Count - 1 - g
      PROVE  (ScanStart + j) % MaxToc = At(oldest, g + j)
  <2>1. g \in 0 .. MaxToc /\ j \in 0 .. MaxToc /\ g + j <= MaxToc
    BY <1>1
  <2>. QED
    BY <1>1, <2>1, AtPlus
<1>3. Count - 1 - g \in T
  <2>1. Count - 1 - g \in 0 .. Count - 1 - g /\ g + (Count - 1 - g) = Count - 1
    BY <1>1
  <2>2. (ScanStart + (Count - 1 - g)) % MaxToc = TiLast
    BY <1>1, <1>2, <2>1
  <2>. QED
    BY <1>1, <2>1, <2>2
<1>4. PICK m \in T : \A k \in T : m <= k
  <2>1. T \in SUBSET Nat /\ T # {}
    BY <1>1, <1>3
  <2>. HIDE DEF T
  <2>. QED
    BY <2>1, Least
<1>5. m \in Indices /\ P(m)
  BY <1>1, <1>4 DEF Indices
<1>6. Passed \in Indices /\ P(Passed)
  BY <1>5 DEF Passed
<1>7. Passed \in 0 .. Count - 1 - g
  <2>1. ~(m < Passed)
    BY <1>1, <1>4, <1>6 DEF Indices
  <2>. QED
    BY <1>1, <1>4, <1>6, <2>1 DEF Indices
<1>. DEFINE k1 == g + Passed
<1>8. k1 \in 0 .. Count - 1 /\ ScanEnd = At(oldest, k1) /\ Count - k1 <= MaxToc - TocGap + 1
  BY <1>1, <1>2, <1>7 DEF ScanEnd
<1>9. Roomy(EndOff, off[First + k1])
  BY <1>6, <1>7, <1>8, <1>2, ScanStarts
<1>10. ASSUME NEW j \in 0 .. k1 - 1
       PROVE  ~Roomy(EndOff, off[First + j]) \/ n - (First + j) > MaxToc - TocGap
  <2>1. CASE j < g
    BY <1>1, <2>1
  <2>2. CASE j >= g
    <3>1. j - g \in 0 .. Passed - 1 /\ j - g \in 0 .. Count - 1 - g /\ j \in 0 .. Count - 1
          /\ g + (j - g) = j
      BY <1>1, <1>7, <1>8, <2>2
    <3>2. ~TocRoomy(At(oldest, j))
      BY <1>2, <1>6, <3>1
    <3>. QED
      BY <3>1, <3>2, ScanStarts
  <2>. QED
    BY <1>1, <2>1, <2>2
<1>. QED
  BY <1>8, <1>9, <1>10

-----------------------------------------------------------------------------
(* The invariant holds initially and is kept by each step. *)

LEMMA InitIInv == Init => IInv
BY RingAssumption, GeometryAssumption, WritesAssumption
   DEF Init, IInv, TypeOK, FramesOK, Counters, Starting, Table, Fresh, Ordered, First, Filed,
       Reader, IdleReader, Indices, Empty, Numbers, MaxOff

\* what a write to the file may change
LEMMA PutFrameStep ==
  ASSUME IInv, wr = "idle", n < MaxWrites, NEW l \in Lengths, PutFrame(l),
         wr' \in {"hdr", "exited"}
  PROVE  IInv' /\ First' = First
<1>. DEFINE m == n + 1
<1>1. /\ n \in Nat /\ m \in 1 .. MaxWrites /\ m \in Nat /\ n' = m /\ last = n
      /\ off \in [Numbers -> 0 .. MaxOff - 1] /\ len \in [Numbers -> Nat]
  BY WritesAssumption DEF IInv, TypeOK, Counters, PutFrame
<1>. DEFINE o == IF n = 0 THEN MinOff ELSE NextOffset(off[n], len[n])
<1>2. o \in Nat /\ MinOff <= o /\ o < MaxOff /\ o % Align = 0
  <2>1. CASE n = 0
    BY <2>1, GeometryAssumption DEF MaxOff
  <2>2. CASE n # 0
    <3>1. off[n] \in Nat /\ len[n] \in Nat /\ MinOff <= off[n]
      BY <1>1, <2>2, FrameFacts
    <3>. QED
      BY <2>2, <3>1, NextOffsetRange, NextOffsetAligned
  <2>. QED
    BY <2>1, <2>2
<1>3. off' = [off EXCEPT ![m] = o] /\ len' = [len EXCEPT ![m] = l]
      /\ UNCHANGED <<last, toc, next, oldest>>
  BY <1>1 DEF PutFrame
<1>. HIDE DEF o
<1>4. off'[m] = o /\ len'[m] = l /\ \A i \in 1 .. n : off'[i] = off[i] /\ len'[i] = len[i]
  BY <1>1, <1>3 DEF Numbers
<1>5. TypeOK'
  <2>1. rd' \in Reader
    BY RingAssumption DEF PutFrame, IInv, TypeOK, Reader
  <2>2. off' \in [Numbers -> 0 .. MaxOff - 1] /\ len' \in [Numbers -> Nat]
    BY <1>1, <1>2, <1>3, GeometryAssumption DEF Numbers, Lengths, MaxOff
  <2>. QED
    BY <1>1, <1>3, <2>1, <2>2, WritesAssumption DEF IInv, TypeOK
<1>6. FramesOK'
  <2>1. ASSUME NEW i \in 1 .. m
        PROVE  /\ len'[i] \in Lengths /\ MinOff <= off'[i] /\ off'[i] < MaxOff
               /\ off'[i] % Align = 0
    <3>1. CASE i = m
      BY <1>2, <1>4, <3>1
    <3>2. CASE i \in 1 .. n
      BY <1>4, <3>2 DEF IInv, FramesOK
    <3>. QED
      BY <1>1, <3>1, <3>2
  <2>. QED
    BY <1>1, <2>1 DEF FramesOK
<1>7. Counters' /\ Starting' /\ Fresh'
  BY <1>1, <1>3 DEF IInv, Counters, Starting, Fresh, Empty
<1>8. First' = First /\ Filed' = Filed /\ Count' = Count
  BY <1>1, <1>3 DEF First, Filed, Count
<1>9. Table'
  <2>1. ASSUME oldest # Empty, NEW k \in 0 .. Count - 1 PROVE Entry(First + k)' = Entry(First + k)
    BY <1>4, <1>8, <2>1, EntryFacts DEF Entry
  <2>. QED
    BY <1>3, <1>8, <2>1 DEF IInv, Table, At
<1>10. Ordered'
  <2>1. EndOff' = o + l
    BY <1>1, <1>4 DEF EndOff
  <2>2. ASSUME NEW i \in First .. m, NEW j \in First .. m, i < j
        PROVE  FileLength(o + l, off'[j]) <= FileLength(o + l, off'[i])
    <3>1. First \in Nat /\ First >= 1 /\ i \in 1 .. n /\ i \in First .. n /\ n # 0
      BY <1>1, <2>2, TableFacts DEF First
    <3>2. /\ Roomy(EndOff, off[i]) /\ o = NextOffset(off[n], len[n])
          /\ n \in 1 .. n
      BY <1>1, <3>1 DEF IInv, Fresh, o
    <3>3. /\ FileLength(o + l, off[i]) = FileLength(EndOff, off[i]) + Step(EndOff, l)
          /\ l <= FileLength(o + l, off[i])
      BY <3>1, <3>2, FrameFacts, Advance DEF EndOff
    <3>4. CASE j = m
      BY <1>2, <1>4, <3>1, <3>3, <3>4, NewestRoomy
    <3>5. CASE j \in First .. n
      <4>1. FileLength(o + l, off[j]) = FileLength(EndOff, off[j]) + Step(EndOff, l)
        BY <3>1, <3>2, <3>5, FrameFacts, Advance DEF EndOff, IInv, Fresh
      <4>2. FileLength(EndOff, off[j]) <= FileLength(EndOff, off[i])
        BY <2>2, <3>1, <3>5 DEF IInv, Ordered
      <4>3. /\ FileLength(EndOff, off[i]) \in Int /\ FileLength(EndOff, off[j]) \in Int
            /\ Step(EndOff, l) \in Int /\ j \in 1 .. n
        <5>1. /\ off[i] \in Nat /\ off[j] \in Nat /\ EndOff \in Nat /\ j \in 1 .. n
              /\ l \in Nat
          BY <3>1, <3>2, <3>5, FrameFacts DEF EndOff, Lengths
        <5>2. RoundUp(EndOff) \in Nat
          BY <5>1, RoundUpBounds
        <5>. QED
          BY <5>1, <5>2, GeometryAssumption DEF FileLength, Step
      <4>4. off'[i] = off[i] /\ off'[j] = off[j]
        BY <1>4, <3>1, <4>3
      <4>. HIDE DEF EndOff
      <4>. QED
        BY <3>3, <4>1, <4>2, <4>3, <4>4
    <3>. QED
      BY <1>1, <2>2, <3>1, <3>4, <3>5
  <2>. QED
    BY <1>1, <1>8, <2>1, <2>2 DEF Ordered
<1>. QED
  BY <1>5, <1>6, <1>7, <1>8, <1>9, <1>10 DEF IInv

LEMMA WriteHdrStep ==
  ASSUME IInv, WriteHdr
  PROVE  IInv' /\ First' = First
<1>1. n \in Nat /\ n > 0
  BY WritesAssumption DEF IInv, TypeOK, Counters, WriteHdr
<1>2. First' = First /\ Filed' = Filed /\ Count' = Count
  BY DEF WriteHdr, First, Filed, Count
<1>3. TypeOK'
  BY <1>1 DEF WriteHdr, IInv, TypeOK
<1>4. FramesOK' /\ Counters' /\ Starting' /\ Fresh' /\ Ordered'
  BY <1>1, <1>2 DEF WriteHdr, IInv, FramesOK, Counters, Starting, Fresh, Ordered, EndOff
<1>5. Table'
  BY <1>2 DEF WriteHdr, IInv, Table, At, Entry
<1>. QED
  BY <1>2, <1>3, <1>4, <1>5 DEF IInv

LEMMA WriteTocStep ==
  ASSUME IInv, WriteToc
  PROVE  IInv' /\ First' = First
<1>1. /\ n \in Nat /\ n > 0 /\ n \in 1 .. n /\ next \in Indices /\ last = n /\ MaxToc \in Nat
      /\ toc \in [Indices -> [time : {0} \cup Numbers, div : Nat]]
  BY WritesAssumption, RingAssumption DEF IInv, TypeOK, Counters, WriteToc
<1>2. Entry(n) \in [time : {0} \cup Numbers, div : Nat]
  <2>1. n \in Numbers
    BY <1>1, WritesAssumption DEF IInv, TypeOK, Numbers
  <2>2. off[n] \in Nat /\ off[n] % Align = 0
    BY <1>1, FrameFacts DEF IInv, FramesOK
  <2>3. off[n] \div Align \in Nat
    BY <2>2, DivAlign
  <2>. QED
    BY <2>1, <2>3 DEF Entry
<1>3. toc' = [toc EXCEPT ![next] = Entry(n)] /\ UNCHANGED <<n, off, len, last, oldest, rd>>
  BY DEF WriteToc, Entry
<1>4. toc'[next] = Entry(n) /\ \A i \in Indices \ {next} : toc'[i] = toc[i]
  BY <1>1, <1>3
<1>5. next' \in Indices
  BY <1>1, RingAssumption DEF WriteToc, Indices
<1>6. TypeOK'
  BY <1>1, <1>2, <1>3, <1>5 DEF WriteToc, IInv, TypeOK
<1>7. CASE oldest = Empty
  <2>1. n = 1 /\ next = 0
    BY <1>1, <1>7 DEF IInv, Starting, WriteToc
  <2>2. next' = 1
    <3>1. 1 \in 0 .. 2 * MaxToc - 1 /\ 1 < MaxToc
      BY RingAssumption
    <3>. QED
      BY <2>1, <3>1, WrapIndex DEF WriteToc
  <2>3. First' = 1 /\ First = 1
    BY <1>3, <1>7 DEF First
  <2>4. FramesOK' /\ Counters' /\ Starting' /\ Fresh' /\ Ordered' /\ Table'
    BY <1>1, <1>3, <1>4, <1>7, <2>1, <2>2, <2>3
       DEF WriteToc, IInv, FramesOK, Counters, Starting, Fresh, Ordered, Table, EndOff, Entry
  <2>. QED
    BY <1>6, <2>3, <2>4 DEF IInv
<1>8. CASE oldest # Empty
  <2>1. /\ oldest \in Indices /\ First \in 1 .. n - 1 /\ Count = n - First
        /\ Count \in 1 .. MaxToc - TocGap + 1 /\ Count \in 1 .. MaxToc - 1
        /\ next = At(oldest, Count)
    BY <1>1, <1>8, TableFacts, RingAssumption DEF WriteToc, IInv, Table, Count, Filed
  <2>2. ASSUME NEW k \in 0 .. Count - 1
        PROVE  At(oldest, k) \in Indices /\ At(oldest, k) # next
    BY <1>1, <2>1, AtIndex, AtDiffers
  <2>3. At(oldest, 0) = oldest /\ oldest # next
    BY <1>1, <2>1, <2>2, AtIndex
  <2>4. First' = First
    BY <1>3, <1>4, <1>8, <2>1, <2>3 DEF First
  <2>5. Filed' = n /\ Count' = Count + 1 /\ wr' = "oldest"
    BY <1>1, <1>3, <2>1, <2>4 DEF Filed, Count, WriteToc
  <2>6. next' = At(oldest, Count + 1)
    <3>1. Count \in 0 .. MaxToc /\ 1 \in 0 .. MaxToc /\ Count + 1 <= MaxToc
      BY <1>1, <2>1
    <3>. QED
      BY <2>1, <3>1, AtPlus DEF WriteToc
  <2>7. ASSUME NEW k \in 0 .. Count PROVE toc'[At(oldest, k)] = Entry(First + k)
    <3>1. CASE k = Count
      BY <1>1, <1>4, <2>1, <3>1
    <3>2. CASE k \in 0 .. Count - 1
      BY <1>4, <1>8, <2>2, <3>2 DEF IInv, Table
    <3>. QED
      BY <2>1, <3>1, <3>2
  <2>8. Table'
    <3>1. ASSUME NEW k \in 0 .. Count' - 1 PROVE (toc[At(oldest, k)] = Entry(First + k))'
      <4>1. k \in 0 .. Count
        BY <2>1, <2>5
      <4>. QED
        BY <1>3, <2>4, <2>7, <4>1 DEF Entry, At
    <3>2. First' \in 1 .. Filed' /\ Count' <= MaxToc - TocGap + 2 /\ First' < n'
          /\ (next = At(oldest, Count))'
      BY <1>1, <1>3, <2>1, <2>4, <2>5, <2>6, RingAssumption DEF At
    <3>. QED
      BY <2>5, <3>1, <3>2 DEF Table
  <2>9. FramesOK' /\ Counters' /\ Starting' /\ Fresh' /\ Ordered'
    BY <1>1, <1>3, <1>8, <2>4, <2>5
       DEF WriteToc, IInv, FramesOK, Counters, Starting, Fresh, Ordered, EndOff
  <2>. QED
    BY <1>6, <2>4, <2>8, <2>9 DEF IInv
<1>. QED
  BY <1>7, <1>8

\* The oldest entry moves to one that is roomy, past none that need not go.
LEMMA WriteOldestStep ==
  ASSUME IInv, WriteOldest
  PROVE  /\ IInv'
         /\ First' \in First .. n
         /\ \A i \in First .. First' - 1 :
              ~Roomy(LastEnd, off[i]) \/ n - i > MaxToc - TocGap
<1>1. /\ n \in Nat /\ n > 0 /\ n \in 1 .. n /\ last = n /\ wr = "oldest" /\ wr' = "idle"
      /\ MaxToc \in Nat /\ TocGap \in Nat
      /\ UNCHANGED <<n, off, len, last, toc, next, rd>>
  BY WritesAssumption, RingAssumption DEF IInv, TypeOK, Counters, WriteOldest
<1>2. FramesOK' /\ Counters'
  BY <1>1 DEF IInv, FramesOK, Counters
<1>3. Roomy(EndOff, off[n])
  BY <1>1, FrameFacts, NewestRoomy DEF EndOff
<1>4. CASE oldest = Empty
  <2>1. n = 1 /\ next = 1 /\ toc[0] = Entry(1)
    BY <1>1, <1>4 DEF IInv, Starting
  <2>2. TiLast = 0
    <3>1. MaxToc \in 0 .. 2 * MaxToc - 1 /\ 1 + MaxToc - 1 = MaxToc
      BY RingAssumption
    <3>. QED
      BY <2>1, <3>1, WrapIndex DEF TiLast
  <2>3. oldest' = 0 /\ 0 # Empty /\ First' = 1 /\ First = 1
    BY <1>1, <1>4, <2>1, <2>2 DEF WriteOldest, First, Empty, Entry
  <2>4. TypeOK'
    BY <1>1, <2>3, RingAssumption DEF IInv, TypeOK, Indices
  <2>5. Starting' /\ Fresh' /\ Ordered'
    BY <1>1, <1>3, <2>1, <2>3 DEF Starting, Fresh, Ordered, EndOff
  <2>6. Table'
    BY <1>1, <2>1, <2>3, RingAssumption DEF Table, Count, Filed, At, Entry
  <2>. QED
    BY <1>1, <1>2, <2>1, <2>3, <2>4, <2>5, <2>6 DEF IInv
<1>5. CASE oldest # Empty
  <2>1. PICK k \in 0 .. Count - 1 :
           /\ ScanEnd = At(oldest, k)
           /\ Roomy(EndOff, off[First + k])
           /\ Count - k <= MaxToc - TocGap + 1
           /\ \A j \in 0 .. k - 1 :
                ~Roomy(EndOff, off[First + j]) \/ n - (First + j) > MaxToc - TocGap
    BY <1>1, <1>5, Scan
  <2>2. /\ oldest \in Indices /\ First \in 1 .. n /\ Count = n + 1 - First
        /\ Count \in 1 .. MaxToc /\ next = At(oldest, Count) /\ First + k \in 1 .. n
        /\ k \in 0 .. MaxToc
    BY <1>1, <1>5, TableFacts DEF Count, Filed
  <2>3. oldest' = At(oldest, k) /\ oldest' \in Indices /\ oldest' # Empty
    BY <1>5, <2>1, <2>2, AtIndex DEF WriteOldest, Empty, Indices
  <2>4. First' = First + k
    BY <1>1, <1>5, <2>3, EntryFacts DEF First
  <2>5. Filed' = n /\ Count' = Count - k
    BY <1>1, <2>2, <2>4 DEF Filed, Count
  <2>6. TypeOK'
    BY <1>1, <2>3 DEF IInv, TypeOK
  <2>7. Starting'
    BY <2>3 DEF Starting
  <2>8. Ordered'
    BY <1>1, <2>2, <2>4 DEF IInv, Ordered, EndOff
  <2>9. Fresh'
    <3>1. ASSUME NEW i \in First + k .. n PROVE Roomy(EndOff, off[i])
      <4>1. FileLength(EndOff, off[i]) <= FileLength(EndOff, off[First + k])
        <5>1. CASE i = First + k
          <6>1. FileLength(EndOff, off[i]) \in Int
            BY <1>1, <2>2, <5>1, FrameFacts, GeometryAssumption DEF FileLength, EndOff
          <6>. QED
            BY <5>1, <6>1
        <5>2. CASE i # First + k
          BY <2>2, <5>2 DEF IInv, Ordered
        <5>. QED
          BY <5>1, <5>2
      <4>2. FileLength(EndOff, off[i]) \in Int /\ FileLength(EndOff, off[First + k]) \in Int
        <5>1. i \in 1 .. n
          BY <2>2
        <5>. QED
          BY <1>1, <2>2, <5>1, FrameFacts, GeometryAssumption DEF FileLength, EndOff
      <4>. QED
        BY <2>1, <4>1, <4>2, GeometryAssumption DEF Roomy
    <3>. QED
      BY <1>1, <2>4, <3>1 DEF Fresh, EndOff
  <2>10. Table'
    <3>1. next' = At(oldest', Count')
      <4>1. Count - k \in 0 .. MaxToc /\ k + (Count - k) = Count
        BY <1>1, <2>1, <2>2
      <4>. QED
        BY <1>1, <2>2, <2>3, <2>5, <4>1, AtPlus
    <3>2. ASSUME NEW j \in 0 .. Count' - 1 PROVE (toc[At(oldest, j)] = Entry(First + j))'
      <4>1. j \in 0 .. MaxToc /\ k + j \in 0 .. Count - 1 /\ k + j <= MaxToc
        BY <1>1, <2>1, <2>2, <2>5
      <4>2. At(oldest', j) = At(oldest, k + j)
        BY <2>2, <2>3, <4>1, AtPlus
      <4>3. toc[At(oldest, k + j)] = Entry(First + (k + j))
        BY <1>5, <4>1 DEF IInv, Table
      <4>4. First + (k + j) = First' + j
        BY <2>2, <2>4, <4>1
      <4>. QED
        BY <1>1, <4>2, <4>3, <4>4 DEF Entry, At
    <3>3. First' \in 1 .. Filed' /\ Count' <= MaxToc - TocGap + 1
          /\ (next = At(oldest, Count))'
      BY <1>1, <2>1, <2>2, <2>4, <2>5, <3>1 DEF At
    <3>. QED
      BY <1>1, <3>2, <3>3 DEF Table
  <2>11. \A i \in First .. First' - 1 :
           ~Roomy(LastEnd, off[i]) \/ n - i > MaxToc - TocGap
    <3>1. ASSUME NEW i \in First .. First' - 1
          PROVE  ~Roomy(LastEnd, off[i]) \/ n - i > MaxToc - TocGap
      <4>1. i - First \in 0 .. k - 1 /\ First + (i - First) = i
        BY <2>2, <2>4
      <4>. QED
        BY <1>1, <2>1, <4>1 DEF LastEnd, EndOff
    <3>. QED
      BY <3>1
  <2>. QED
    BY <1>2, <2>2, <2>4, <2>6, <2>7, <2>8, <2>9, <2>10, <2>11 DEF IInv
<1>. QED
  BY <1>4, <1>5

\* The reader changes nothing but its own state.
LEMMA ReaderStep ==
  ASSUME IInv, ReaderNext
  PROVE  IInv' /\ UNCHANGED <<n, off, len, last, toc, next, oldest, wr>> /\ First' = First
<1>1. UNCHANGED <<n, off, len, last, toc, next, oldest, wr>>
  BY DEF ReaderNext, ReadToc, ReadHdr, ReadData, ReadDone
<1>2. First' = First
  BY <1>1 DEF First
<1>3. rd \in Reader /\ IdleReader \in Reader /\ n \in 0 .. MaxWrites /\ MaxWrites \in Nat
  BY RingAssumption, WritesAssumption DEF IInv, TypeOK, Reader, IdleReader
<1>4. rd' \in Reader
  <2>1. ASSUME NEW i \in Window, ReadToc(i) PROVE rd' \in Reader
    <3>1. oldest # Empty
      BY <2>1, WindowFacts
    <3>2. PICK k \in 0 .. Count - 1 : At(oldest, k) = i
      BY <2>1, <3>1, WindowFacts
    <3>3. toc[i].time \in Numbers /\ toc[i].div * Align \in Nat
      <4>1. First + k \in 1 .. n /\ toc[i].time = First + k /\ toc[i].div * Align = off[First + k]
        BY <3>1, <3>2, EntryFacts
      <4>. QED
        BY <1>3, <4>1, FrameFacts DEF Numbers
    <3>. QED
      BY <1>3, <2>1, <3>3 DEF ReadToc, Reader, IdleReader
  <2>2. CASE ReadHdr
    <3>1. CASE \E i \in 1 .. n : off[i] = rd.at /\ Intact(i, rd.at, 1)
      <4>. DEFINE i == CHOOSE k \in 1 .. n : off[k] = rd.at /\ Intact(k, rd.at, 1)
      <4>1. i \in 1 .. n
        BY <3>1
      <4>2. rd' = [rd EXCEPT !.pc = "data", !.got = i]
        BY <2>2, <3>1 DEF ReadHdr
      <4>. HIDE DEF i
      <4>3. i \in Numbers
        BY <1>3, <4>1 DEF Numbers
      <4>. QED
        BY <1>3, <4>2, <4>3 DEF Reader
    <3>2. CASE ~(\E i \in 1 .. n : off[i] = rd.at /\ Intact(i, rd.at, 1))
      BY <1>3, <2>2, <3>2 DEF ReadHdr
    <3>. QED
      BY <3>1, <3>2
  <2>3. CASE ReadData
    <3>. DEFINE w == Intact(rd.got, rd.at, len[rd.got])
    <3>1. w \in BOOLEAN
      BY DEF Intact
    <3>2. rd' = IF rd.got = rd.time THEN [rd EXCEPT !.pc = "served", !.whole = w]
                ELSE IdleReader
      BY <2>3 DEF ReadData
    <3>. HIDE DEF w
    <3>. QED
      BY <1>3, <3>1, <3>2 DEF Reader
  <2>4. CASE ReadDone
    BY <1>3, <2>4 DEF ReadDone
  <2>. QED
    BY <2>1, <2>2, <2>3, <2>4 DEF ReaderNext
<1>5. TypeOK'
  BY <1>1, <1>4 DEF IInv, TypeOK
<1>6. FramesOK' /\ Counters' /\ Starting' /\ Fresh' /\ Ordered' /\ Table'
  BY <1>1, <1>2 DEF IInv, FramesOK, Counters, Starting, Fresh, Ordered, Table, EndOff,
                    Entry, At, Filed, Count
<1>. QED
  BY <1>1, <1>2, <1>5, <1>6 DEF IInv

LEMMA Stutter ==
  ASSUME IInv, UNCHANGED vars
  PROVE  IInv' /\ First' = First
<1>1. First' = First
  BY DEF vars, First
<1>. QED
  BY <1>1 DEF vars, IInv, TypeOK, FramesOK, Counters, Starting, Fresh, Ordered, Table, EndOff,
              Entry, At, Filed, Count

LEMMA WriteSteps ==
  ASSUME IInv, NEW l \in FrameLens, WritePwritev(l) \/ WriteFail(l)
  PROVE  IInv' /\ First' = First /\ l \in Lengths /\ wr = "idle" /\ PutFrame(l)
<1>1. /\ l \in Lengths /\ wr = "idle" /\ n < MaxWrites /\ PutFrame(l)
      /\ wr' \in {"hdr", "exited"}
  BY RingAssumption DEF WritePwritev, WriteFail
<1>. QED
  BY <1>1, PutFrameStep

\* The invariant is inductive.
THEOREM Invariance == Spec => []IInv
<1>1. ASSUME IInv, [Next]_vars PROVE IInv'
  <2>1. ASSUME NEW l \in FrameLens, WritePwritev(l) \/ WriteFail(l) PROVE IInv'
    BY <1>1, <2>1, WriteSteps
  <2>2. CASE WriteHdr
    BY <1>1, <2>2, WriteHdrStep
  <2>3. CASE WriteToc
    BY <1>1, <2>3, WriteTocStep
  <2>4. CASE WriteOldest
    BY <1>1, <2>4, WriteOldestStep
  <2>5. CASE ReaderNext
    BY <1>1, <2>5, ReaderStep
  <2>6. CASE UNCHANGED vars
    BY <1>1, <2>6, Stutter
  <2>. QED
    BY <1>1, <2>1, <2>2, <2>3, <2>4, <2>5, <2>6 DEF Next, WriterNext
<1>. QED
  BY <1>1, InitIInv, PTL DEF Spec

-----------------------------------------------------------------------------
(* The properties. *)

\* The variables keep their types: in particular the indices of the table
\* that rp_write_frame computes stay in it.
THEOREM TypeCorrect == Spec => []TypeOK
<1>1. IInv => TypeOK
  BY DEF IInv
<1>. QED
  BY <1>1, Invariance, PTL

\* From rp_toc_idx_oldest to the entry before rp_toc_idx_next the table lists
\* consecutive frames up to the newest, with their places in the file.
THEOREM TableCorrect == Spec => []WindowListsFrames
<1>1. ASSUME IInv PROVE WindowListsFrames
  <2>1. ASSUME NEW i \in Window
        PROVE  LET k == (i + MaxToc - oldest) % MaxToc
               IN  toc[i].time = First + k /\ toc[i].div * Align = off[First + k]
    <3>. DEFINE k == (i + MaxToc - oldest) % MaxToc
    <3>1. oldest # Empty /\ k \in 0 .. Count - 1 /\ At(oldest, k) = i
      BY <1>1, <2>1, WindowFacts
    <3>. HIDE DEF k
    <3>2. toc[i].time = First + k /\ toc[i].div * Align = off[First + k]
      BY <1>1, <3>1, EntryFacts
    <3>. QED
      BY <3>2 DEF k
  <2>2. ASSUME wr = "idle", n > 0
        PROVE  n = last /\ TiLast \in Window /\ toc[TiLast].time = n
    <3>1. last = n /\ oldest # Empty
      BY <1>1, <2>2 DEF IInv, Counters, Starting
    <3>2. TiLast = At(oldest, Count - 1) /\ Count - 1 \in 0 .. Count - 1
          /\ First + (Count - 1) = n
      BY <1>1, <2>2, <3>1, TableFacts DEF Count, Filed
    <3>. QED
      BY <1>1, <3>1, <3>2, WindowFacts, EntryFacts
  <2>. QED
    BY <2>1, <2>2 DEF WindowListsFrames
<1>. QED
  BY <1>1, Invariance, PTL

\* The loop that moves rp_toc_idx_oldest looks only at entries in use, and
\* would end at the newest.
THEOREM ScanSafe == Spec => []ScanStaysInWindow
<1>1. ASSUME IInv PROVE ScanStaysInWindow
  <2>1. ASSUME wr = "oldest", oldest # Empty PROVE ScanStart \in Window /\ TocRoomy(TiLast)
    <3>1. GapSkip \in 0 .. Count - 1 /\ ScanStart = At(oldest, GapSkip) /\ TocRoomy(TiLast)
      <4>1. GapSkip \in 0 .. 1 /\ Count >= 2 /\ Count \in 1 .. MaxToc
        BY <1>1, <2>1, ScanStarts, TableFacts
      <4>. QED
        BY <1>1, <2>1, <4>1, ScanStarts, RingAssumption
    <3>. QED
      BY <1>1, <2>1, <3>1, WindowFacts
  <2>. QED
    BY <2>1 DEF ScanStaysInWindow
<1>. QED
  BY <1>1, Invariance, PTL

LEMMA Between ==
  ASSUME NEW a \in Int, NEW b \in Int, NEW i \in Int, a <= i, i < b
  PROVE  i \in a .. b - 1
OBVIOUS

\* A frame leaves the table only when the file or the table is about to come
\* round to it.
THEOREM HistoryIsKept == Spec => HistoryKept
<1>1. ASSUME IInv, [Next]_vars
      PROVE  [\A i \in Numbers : First <= i /\ i < First' =>
                ~Roomy(LastEnd, off[i]) \/ n - i > MaxToc - TocGap]_vars
  <2>1. CASE WriteOldest
    <3>1. First' \in First .. n /\ First \in Int
      BY <1>1, <2>1, WriteOldestStep, TableFacts DEF First
    <3>2. \A i \in First .. First' - 1 : ~Roomy(LastEnd, off[i]) \/ n - i > MaxToc - TocGap
      BY <1>1, <2>1, WriteOldestStep
    <3>3. n \in Int
      BY <1>1, WritesAssumption DEF IInv, TypeOK
    <3>4. First' \in Int
      BY <3>1, <3>3
    <3>5. ASSUME NEW i \in Numbers, First <= i, i < First' PROVE i \in First .. First' - 1
      <4>1. i \in Int
        BY WritesAssumption DEF Numbers
      <4>. QED
        BY <3>1, <3>4, <3>5, <4>1, Between
    <3>. QED
      BY <3>2, <3>5
  <2>2. CASE ~WriteOldest
    <3>1. First' = First
      BY <1>1, <2>2, WriteSteps, WriteHdrStep, WriteTocStep, ReaderStep, Stutter
         DEF Next, WriterNext
    <3>2. First \in Int
      BY <1>1, TableFacts DEF First
    <3>. QED
      BY <3>1, <3>2 DEF Numbers
  <2>. QED
    BY <2>1, <2>2
<1>. QED
  BY <1>1, Invariance, PTL DEF Spec, HistoryKept

\* The table of contents implements RpFile: a write to the file is a write of
\* the abstract ring file, made only when each frame that the table lists is
\* far enough away; a move of rp_toc_idx_oldest forgets frames; other steps
\* change nothing that RpFile speaks of.
THEOREM Refinement == Spec => ImplementsRpFile
<1>1. Init => File!Init
  BY DEF Init, File!Init, First, File!Numbers, Numbers
<1>2. ASSUME IInv, [Next]_vars PROVE [File!Next]_File!vars
  <2>1. ASSUME NEW l \in FrameLens, WritePwritev(l) \/ WriteFail(l) PROVE File!Next
    <3>1. First' = First /\ l \in Lengths /\ wr = "idle" /\ PutFrame(l) /\ n < MaxWrites
      BY <1>2, <2>1, WriteSteps DEF WritePwritev, WriteFail
    <3>2. last = n /\ \A i \in First .. n : Roomy(EndOff, off[i])
      BY <1>2, <3>1 DEF IInv, Counters, Fresh
    <3>3. File!Write(l)
      BY <3>1, <3>2
         DEF PutFrame, File!Write, File!EndOff, EndOff, File!Roomy, Roomy, File!FileLength,
             FileLength, File!NextOffset, NextOffset, File!RoundUp, RoundUp, File!MaxOff, MaxOff
    <3>. QED
      BY <3>1, <3>3 DEF File!Next, File!Lengths, Lengths
  <2>2. CASE WriteHdr \/ WriteToc
    <3>1. First' = First
      BY <1>2, <2>2, WriteHdrStep, WriteTocStep
    <3>. QED
      BY <2>2, <3>1 DEF WriteHdr, WriteToc, File!vars
  <2>3. CASE WriteOldest
    <3>1. First' \in First .. n /\ UNCHANGED <<n, off, len>> /\ First \in Int /\ n \in Int
      BY <1>2, <2>3, WriteOldestStep, TableFacts, WritesAssumption
         DEF First, WriteOldest, IInv, TypeOK
    <3>2. CASE First' = First
      BY <3>1, <3>2 DEF File!vars
    <3>3. CASE First' # First
      <4>1. First' \in First + 1 .. n
        BY <3>1, <3>3
      <4>. QED
        BY <3>1, <4>1 DEF File!Next, File!Forget
    <3>. QED
      BY <3>2, <3>3
  <2>4. CASE ReaderNext
    BY <1>2, <2>4, ReaderStep DEF File!vars
  <2>5. CASE UNCHANGED vars
    BY <1>2, <2>5, Stutter DEF File!vars, vars
  <2>. QED
    BY <1>2, <2>1, <2>2, <2>3, <2>4, <2>5 DEF Next, WriterNext
<1>. QED
  BY <1>1, <1>2, Invariance, PTL DEF Spec, ImplementsRpFile, File!Spec

Abstract == INSTANCE RpFileProofs WITH first <- First

LEMMA SameFile == File!Spec => Abstract!Spec
<1>1. File!Init => Abstract!Init
  BY DEF File!Init, Abstract!Init, File!Numbers, Abstract!Numbers
<1>2. [File!Next]_File!vars => [Abstract!Next]_Abstract!vars
  BY DEF File!Next, Abstract!Next, File!vars, Abstract!vars, File!Write, Abstract!Write,
         File!Forget, Abstract!Forget, File!EndOff, Abstract!EndOff, File!Lengths,
         Abstract!Lengths, File!Roomy, Abstract!Roomy, File!FileLength, Abstract!FileLength,
         File!NextOffset, Abstract!NextOffset, File!RoundUp, Abstract!RoundUp,
         File!MaxOff, Abstract!MaxOff
<1>. QED
  BY <1>1, <1>2, PTL DEF File!Spec, Abstract!Spec

\* So what is proved of RpFile holds here.  No frame that the table lists has
\* been overwritten, not even in part, by a later one.
THEOREM NeverOverwritten == Spec => []NotOverwritten
<1>1. Abstract!Spec => []Abstract!NotOverwritten
  BY Abstract!NeverOverwritten, GeometryAssumption, WritesAssumption
<1>2. Abstract!NotOverwritten => NotOverwritten
  BY DEF Abstract!NotOverwritten, NotOverwritten, File!NotOverwritten, Abstract!Overlap,
         File!Overlap
<1>. QED
  BY <1>1, <1>2, SameFile, Refinement, PTL DEF ImplementsRpFile

\* No write touches the headers or goes past the end of the file.
THEOREM StaysInFile == Spec => []InFile
<1>1. Abstract!Spec => []Abstract!InFile
  BY Abstract!StaysInFile, GeometryAssumption, WritesAssumption
<1>2. Abstract!InFile => InFile
  BY DEF Abstract!InFile, InFile, File!InFile, Abstract!MaxOff, File!MaxOff
<1>. QED
  BY <1>1, <1>2, SameFile, Refinement, PTL DEF ImplementsRpFile

-----------------------------------------------------------------------------
(* The reader.  A frame it has found in the table stays away from what is  *)
(* written for ReadLag more writes: one of them may be under way when it   *)
(* looks, and the file may come round once in the course of them.          *)

\* the most that a write takes up, the slack at the end of the file apart
MaxStep == MaxLen + Align

\* free bytes from the end of the last frame, at e, to a frame at a
Room(e, a) == FileSize - FileLength(e, a)

\* k writes from e on end before a frame at a
Margin(e, a, k) == Room(e, a) >= k * MaxStep + (IF a < e THEN TailSlack + MinOff ELSE 0)

\* A write misses a frame that has a margin of one write at least, and leaves
\* it the rest of its margin.
LEMMA MarginStep ==
  ASSUME NEW o \in Nat, NEW l \in Nat, o # 0, o + l <= FileSize,
         NEW a \in Nat, NEW b \in Nat, MinOff <= a, a < MaxOff,
         a + b <= o + l \/ o + l <= a,
         NEW k \in Nat, k > 0, Margin(o + l, a, k),
         NEW m \in Lengths
  PROVE  /\ ~Overlap(a, b, NextOffset(o, l), m)
         /\ Margin(NextOffset(o, l) + m, a, k - 1)
<1>. DEFINE e == o + l
            c == MaxStep
            j == (k - 1) * c
<1>1. e \in Nat /\ e <= RoundUp(e) /\ RoundUp(e) < e + Align /\ RoundUp(e) \in Nat
  BY RoundUpBounds
<1>2. c \in Nat /\ c = MaxLen + Align /\ m \in Nat /\ m > 0 /\ m <= MaxLen
  BY GeometryAssumption DEF Lengths, MaxStep
<1>. HIDE DEF c
<1>3. k * c = j + c /\ j >= 0 /\ j \in Int
  BY <1>2
<1>. HIDE DEF j
<1>4. Room(e, a) >= j + c + (IF a < e THEN TailSlack + MinOff ELSE 0)
  BY <1>3 DEF Margin, c
<1>5. CASE RoundUp(e) < MaxOff
  <2>1. NextOffset(o, l) = RoundUp(e)
    BY <1>1, <1>5, GeometryAssumption DEF NextOffset, MaxOff
  <2>. DEFINE r == RoundUp(e)
  <2>. HIDE DEF r, e
  <2>2. ~Overlap(a, b, r, m)
    BY <1>1, <1>2, <1>3, <1>4, GeometryAssumption DEF Room, FileLength, Overlap, r, e
  <2>3. Room(r + m, a) >= j + (IF a < r + m THEN TailSlack + MinOff ELSE 0)
    BY <1>1, <1>2, <1>3, <1>4, GeometryAssumption DEF Room, FileLength, r, e
  <2>. QED
    BY <2>1, <2>2, <2>3 DEF Margin, r, e, j, c
<1>6. CASE RoundUp(e) >= MaxOff
  <2>1. NextOffset(o, l) = MinOff
    BY <1>6, GeometryAssumption DEF NextOffset
  <2>. HIDE DEF e
  <2>2. FileSize - e < TailSlack + Align /\ e > a
    BY <1>1, <1>2, <1>3, <1>4, <1>6, GeometryAssumption DEF MaxOff, Room, FileLength
  <2>3. MinOff + m <= a /\ ~Overlap(a, b, MinOff, m)
    BY <1>1, <1>2, <1>3, <1>4, <2>2, GeometryAssumption DEF Room, FileLength, Overlap
  <2>4. Room(MinOff + m, a) >= j
    BY <1>1, <1>2, <1>3, <1>4, <2>2, <2>3, GeometryAssumption DEF Room, FileLength
  <2>. QED
    BY <2>1, <2>3, <2>4, <1>2, <1>3, GeometryAssumption DEF Margin, j, c
<1>. QED
  BY <1>1, <1>5, <1>6, GeometryAssumption DEF MaxOff

\* A margin is a margin for fewer writes.
LEMMA MarginLess ==
  ASSUME NEW e \in Nat, NEW a \in Nat, NEW k \in Nat, NEW i \in 0 .. k, Margin(e, a, k)
  PROVE  Margin(e, a, i)
<1>1. MaxStep \in Nat
  BY GeometryAssumption DEF MaxStep
<1>2. i * MaxStep <= k * MaxStep
  BY <1>1
<1>3. Room(e, a) \in Int /\ i * MaxStep \in Int /\ k * MaxStep \in Int
      /\ (IF a < e THEN TailSlack + MinOff ELSE 0) \in Int
  BY <1>1, GeometryAssumption DEF Room, FileLength
<1>. QED
  BY <1>2, <1>3 DEF Margin

\* A roomy frame has a margin of one write more than ReadLag.
LEMMA RoomyMargin ==
  ASSUME NEW e \in Nat, NEW a \in Nat, Roomy(e, a)
  PROVE  Margin(e, a, ReadLag + 1)
<1>1. (ReadLag + 1) * MaxStep \in Nat /\ (ReadLag + 1) * MaxStep + TailSlack + MinOff <= MinFree
  BY RingAssumption, GeometryAssumption DEF MaxStep
<1>. QED
  BY <1>1, GeometryAssumption DEF Margin, Room, Roomy, FileLength

\* a listed frame can still be read when the reader finds it
ListedMargin == \A i \in First .. n : Margin(EndOff, off[i], ReadLag)

\* the frame that the reader has found, and the one it gives to the viewer
ReadSafe ==
  rd.lag <= ReadLag =>
    /\ rd.pc \in {"hdr", "data"} =>
         /\ rd.time \in 1 .. n /\ rd.at = off[rd.time]
         /\ Margin(EndOff, off[rd.time], ReadLag - rd.lag)
         /\ Intact(rd.time, off[rd.time], len[rd.time])
    /\ rd.pc = "served" => rd.whole

ReadInv == ListedMargin /\ ReadSafe

\* A frame that is intact lies before the end of the last one or after it.
LEMMA IntactBehind ==
  ASSUME IInv, NEW i \in 1 .. n, Intact(i, off[i], len[i])
  PROVE  off[i] + len[i] <= EndOff \/ EndOff <= off[i]
<1>1. n \in Nat /\ n \in 1 .. n
  BY WritesAssumption DEF IInv, TypeOK
<1>2. off[i] \in Nat /\ len[i] \in Nat /\ off[n] \in Nat /\ len[n] \in Nat
  BY <1>1, FrameFacts
<1>3. CASE i = n
  BY <1>2, <1>3 DEF EndOff
<1>4. CASE i # n
  <2>1. n \in i + 1 .. n
    BY <1>1, <1>4
  <2>2. ~Overlap(off[i], len[i], off[n], len[n])
    BY <2>1 DEF Intact
  <2>. QED
    BY <1>2, <2>2 DEF EndOff, Overlap
<1>. QED
  BY <1>3, <1>4

\* What a write leaves of the margin of a frame.
LEMMA FrameStep ==
  ASSUME IInv, wr = "idle", n < MaxWrites, NEW l \in Lengths, PutFrame(l),
         wr' \in {"hdr", "exited"}, NEW i \in 1 .. n, NEW k \in Nat, k > 0,
         Margin(EndOff, off[i], k), Intact(i, off[i], len[i])
  PROVE  Margin(EndOff', off'[i], k - 1) /\ Intact(i, off[i], len[i])'
<1>1. /\ n \in Nat /\ n > 0 /\ n + 1 \in Numbers /\ n' = n + 1 /\ last = n
      /\ off \in [Numbers -> 0 .. MaxOff - 1] /\ len \in [Numbers -> Nat]
  BY WritesAssumption DEF IInv, TypeOK, Counters, PutFrame, Numbers
<1>. DEFINE o == NextOffset(off[n], len[n])
<1>2. off' = [off EXCEPT ![n + 1] = o] /\ len' = [len EXCEPT ![n + 1] = l]
  <2>1. o = IF last = 0 THEN MinOff ELSE NextOffset(off[last], len[last])
    BY <1>1
  <2>. HIDE DEF o
  <2>. QED
    BY <2>1 DEF PutFrame
<1>3. n \in 1 .. n
  BY <1>1
<1>4. /\ off[n] \in Nat /\ len[n] \in Nat /\ off[n] # 0 /\ off[n] + len[n] <= FileSize
      /\ off[i] \in Nat /\ len[i] \in Nat /\ MinOff <= off[i] /\ off[i] < MaxOff
  BY <1>3, FrameFacts
<1>5. ~Overlap(off[i], len[i], o, l) /\ Margin(o + l, off[i], k - 1)
  BY <1>4, IntactBehind, MarginStep DEF EndOff
<1>. HIDE DEF o
<1>6. off'[n + 1] = o /\ len'[n + 1] = l /\ \A j \in 1 .. n : off'[j] = off[j] /\ len'[j] = len[j]
  BY <1>1, <1>2 DEF Numbers
<1>7. EndOff' = o + l /\ off'[i] = off[i] /\ len'[i] = len[i]
  BY <1>1, <1>6 DEF EndOff
<1>8. ASSUME NEW j \in i + 1 .. n' PROVE ~Overlap(off'[i], len'[i], off'[j], len'[j])
  <2>1. CASE j = n + 1
    BY <1>5, <1>6, <1>7, <2>1
  <2>2. CASE j # n + 1
    <3>1. j \in i + 1 .. n /\ j \in 1 .. n
      BY <1>1, <2>2
    <3>. QED
      BY <1>6, <1>7, <3>1 DEF Intact
  <2>. QED
    BY <2>1, <2>2
<1>9. Intact(i, off[i], len[i])'
  BY <1>8 DEF Intact
<1>. QED
  BY <1>5, <1>7, <1>9

\* A write keeps both.
LEMMA WriteReadInv ==
  ASSUME IInv, NotOverwritten, ReadInv, NEW l \in FrameLens, WritePwritev(l) \/ WriteFail(l)
  PROVE  ReadInv'
<1>1. /\ First' = First /\ l \in Lengths /\ wr = "idle" /\ PutFrame(l) /\ n < MaxWrites
      /\ wr' \in {"hdr", "exited"} /\ IInv'
  BY WriteSteps DEF WritePwritev, WriteFail
<1>2. n \in Nat /\ n' = n + 1 /\ ReadLag \in Nat /\ First \in Int
  BY <1>1, WritesAssumption, RingAssumption, TableFacts DEF IInv, TypeOK, PutFrame, First
<1>3. ListedMargin'
  <2>1. ASSUME NEW i \in First .. n' PROVE Margin(EndOff', off'[i], ReadLag)
    <3>1. CASE i = n'
      <4>1. n' \in 1 .. n'
        BY <1>2
      <4>2. off'[n'] \in Nat /\ len'[n'] \in Lengths
        BY <1>1, <1>2, <4>1, WritesAssumption, GeometryAssumption
           DEF IInv, TypeOK, FramesOK, Numbers, MaxOff
      <4>3. Roomy(EndOff', off'[n'])
        BY <4>2, NewestRoomy DEF EndOff
      <4>4. EndOff' \in Nat
        BY <4>2, GeometryAssumption DEF EndOff, Lengths
      <4>5. Margin(EndOff', off'[n'], ReadLag + 1)
        BY <4>2, <4>3, <4>4, RoomyMargin
      <4>. QED
        BY <1>2, <3>1, <4>2, <4>4, <4>5, MarginLess
    <3>2. CASE i # n'
      <4>1. i \in First .. n /\ i \in 1 .. n
        BY <1>1, <1>2, <3>2, TableFacts DEF First
      <4>2. Roomy(EndOff, off[i])
        BY <1>1, <4>1 DEF IInv, Fresh
      <4>3. EndOff \in Nat /\ off[i] \in Nat
        BY <1>2, <4>1, FrameFacts DEF EndOff
      <4>4. Margin(EndOff, off[i], ReadLag + 1)
        BY <4>2, <4>3, RoomyMargin
      <4>5. Intact(i, off[i], len[i])
        BY <4>1 DEF NotOverwritten, File!NotOverwritten, File!Overlap, Overlap, Intact
      <4>. QED
        BY <1>1, <1>2, <4>1, <4>4, <4>5, FrameStep
    <3>. QED
      BY <3>1, <3>2
  <2>. QED
    BY <1>1, <2>1 DEF ListedMargin
<1>4. ReadSafe'
  <2>1. rd \in Reader /\ rd.lag \in 0 .. ReadLag + 1
    BY DEF IInv, TypeOK, Reader
  <2>2. CASE rd.pc \in {"hdr", "data"} /\ rd.lag < ReadLag
    <3>1. rd' = [rd EXCEPT !.lag = @ + 1]
      BY <1>1, <1>2, <2>1, <2>2 DEF PutFrame
    <3>2. /\ rd.time \in 1 .. n /\ rd.at = off[rd.time]
          /\ Margin(EndOff, off[rd.time], ReadLag - rd.lag)
          /\ Intact(rd.time, off[rd.time], len[rd.time])
      BY <1>2, <2>1, <2>2 DEF ReadInv, ReadSafe
    <3>3. /\ Margin(EndOff', off'[rd.time], ReadLag - rd.lag - 1)
          /\ Intact(rd.time, off[rd.time], len[rd.time])'
      <4>1. ReadLag - rd.lag \in Nat /\ ReadLag - rd.lag > 0
        BY <1>2, <2>1, <2>2
      <4>2. PICK t \in 1 .. n : t = rd.time
        BY <3>2
      <4>3. Margin(EndOff', off'[t], ReadLag - rd.lag - 1) /\ Intact(t, off[t], len[t])'
        BY <1>1, <3>2, <4>1, <4>2, FrameStep
      <4>4. rd'.time = t
        BY <2>1, <3>1, <4>2 DEF Reader
      <4>. QED
        BY <4>2, <4>3, <4>4
    <3>4. off'[rd.time] = off[rd.time]
      BY <1>1, <1>2, <3>2, WritesAssumption DEF PutFrame, IInv, TypeOK, Numbers
    <3>5. /\ rd'.lag = rd.lag + 1 /\ rd'.pc = rd.pc /\ rd'.time = rd.time /\ rd'.at = rd.at
      BY <2>1, <3>1 DEF Reader
    <3>6. ReadLag - rd'.lag = ReadLag - rd.lag - 1 /\ rd'.time \in 1 .. n'
      BY <1>2, <2>1, <3>2, <3>5
    <3>. QED
      BY <2>2, <3>2, <3>3, <3>4, <3>5, <3>6 DEF ReadSafe
  <2>3. CASE rd.pc \in {"hdr", "data"} /\ ~(rd.lag < ReadLag)
    <3>1. ~(rd'.lag <= ReadLag)
      BY <1>1, <1>2, <2>1, <2>3 DEF PutFrame, Reader
    <3>. QED
      BY <3>1 DEF ReadSafe
  <2>4. CASE rd.pc \notin {"hdr", "data"}
    BY <1>1, <2>4 DEF PutFrame, ReadInv, ReadSafe
  <2>. QED
    BY <2>2, <2>3, <2>4
<1>. QED
  BY <1>3, <1>4 DEF ReadInv

\* A step of the reader keeps both.
LEMMA ReaderReadInv ==
  ASSUME IInv, NotOverwritten, ReadInv, ReaderNext
  PROVE  ReadInv'
<1>1. UNCHANGED <<n, off, len, last, toc, next, oldest, wr>> /\ First' = First
  BY ReaderStep
<1>2. ListedMargin'
  BY <1>1 DEF ReadInv, ListedMargin, EndOff
<1>. SUFFICES ReadSafe'
  BY <1>2 DEF ReadInv
<1>3. rd \in Reader /\ ReadLag \in Nat
  BY RingAssumption DEF IInv, TypeOK
<1>4. ASSUME NEW i \in Window, ReadToc(i) PROVE ReadSafe'
  <2>1. oldest # Empty
    BY <1>4, WindowFacts
  <2>2. PICK k \in 0 .. Count - 1 : At(oldest, k) = i
    BY <1>4, <2>1, WindowFacts
  <2>3. /\ First + k \in 1 .. n /\ toc[i].time = First + k
        /\ toc[i].div * Align = off[First + k]
    BY <2>1, <2>2, EntryFacts
  <2>4. First + k \in First .. n
    <3>1. First \in Int /\ n \in Nat
      BY <2>1, TableFacts DEF First
    <3>. QED
      BY <2>3, <3>1
  <2>5. PICK t \in 1 .. n : t = First + k
    BY <2>3
  <2>6. Margin(EndOff, off[t], ReadLag) /\ Intact(t, off[t], len[t])
    BY <2>4, <2>5 DEF ReadInv, ListedMargin, NotOverwritten, File!NotOverwritten, File!Overlap,
                      Overlap, Intact
  <2>7. rd'.time = t /\ rd'.at = off[t] /\ rd'.pc = "hdr" /\ rd'.lag = 0
    BY <1>4, <2>3, <2>5 DEF ReadToc, IdleReader
  <2>8. ReadLag - rd'.lag = ReadLag
    BY <1>3, <2>7
  <2>. QED
    BY <1>1, <2>6, <2>7, <2>8 DEF ReadSafe, EndOff, Intact
<1>5. CASE ReadHdr
  <2>1. CASE rd' = IdleReader
    BY <2>1 DEF ReadSafe, IdleReader
  <2>2. CASE rd' # IdleReader
    <3>1. PICK i : rd' = [rd EXCEPT !.pc = "data", !.got = i]
      BY <1>5, <2>2 DEF ReadHdr
    <3>2. rd'.pc = "data" /\ rd.pc = "hdr" /\ rd'.time = rd.time /\ rd'.at = rd.at
          /\ rd'.lag = rd.lag
      BY <1>3, <1>5, <3>1 DEF Reader, ReadHdr
    <3>. QED
      BY <1>1, <3>2 DEF ReadInv, ReadSafe, EndOff, Intact
  <2>. QED
    BY <2>1, <2>2
<1>6. CASE ReadData
  <2>1. CASE rd.got = rd.time
    <3>. DEFINE w == Intact(rd.got, rd.at, len[rd.got])
    <3>1. rd' = [rd EXCEPT !.pc = "served", !.whole = w] /\ rd.pc = "data"
      BY <1>6, <2>1 DEF ReadData
    <3>2. rd.lag <= ReadLag => w
      BY <2>1, <3>1 DEF ReadInv, ReadSafe
    <3>. HIDE DEF w
    <3>3. rd'.pc = "served" /\ rd'.whole = w /\ rd'.lag = rd.lag
      BY <1>3, <3>1 DEF Reader
    <3>. QED
      BY <3>2, <3>3 DEF ReadSafe
  <2>2. CASE rd.got # rd.time
    BY <1>6, <2>2 DEF ReadData, ReadSafe, IdleReader
  <2>. QED
    BY <2>1, <2>2
<1>7. CASE ReadDone
  BY <1>7 DEF ReadDone, ReadSafe, IdleReader
<1>. QED
  BY <1>4, <1>5, <1>6, <1>7 DEF ReaderNext

LEMMA ReadInvStep == IInv /\ NotOverwritten /\ ReadInv /\ [Next]_vars => ReadInv'
<1>. SUFFICES ASSUME IInv, NotOverwritten, ReadInv, [Next]_vars PROVE ReadInv'
  OBVIOUS
<1>1. ASSUME UNCHANGED <<n, off, len, rd>>, First' \in First .. n' PROVE ReadInv'
  <2>1. First' .. n' \subseteq First .. n
    <3>1. First \in Int \/ First' .. n' = {}
      BY TableFacts DEF First
    <3>. QED
      BY <1>1, <3>1, WritesAssumption DEF IInv, TypeOK
  <2>. QED
    BY <1>1, <2>1 DEF ReadInv, ListedMargin, ReadSafe, EndOff, Intact
<1>2. ASSUME UNCHANGED <<n, off, len, rd>>, First' = First PROVE ReadInv'
  BY <1>2 DEF ReadInv, ListedMargin, ReadSafe, EndOff, Intact
<1>3. ASSUME NEW l \in FrameLens, WritePwritev(l) \/ WriteFail(l) PROVE ReadInv'
  BY <1>3, WriteReadInv
<1>4. CASE WriteHdr
  BY <1>2, <1>4, WriteHdrStep DEF WriteHdr
<1>5. CASE WriteToc
  BY <1>2, <1>5, WriteTocStep DEF WriteToc
<1>6. CASE WriteOldest
  BY <1>1, <1>6, WriteOldestStep DEF WriteOldest
<1>7. CASE ReaderNext
  BY <1>7, ReaderReadInv
<1>8. CASE UNCHANGED vars
  BY <1>2, <1>8, Stutter DEF vars
<1>. QED
  BY <1>3, <1>4, <1>5, <1>6, <1>7, <1>8 DEF Next, WriterNext

\* A frame given to a viewer is whole if no more than ReadLag frames were
\* written while it was being read, wherever the writer was when the reader
\* looked it up.
THEOREM ServedWhole == Spec => []ServedFrameWhole
<1>1. Init => ReadInv
  BY RingAssumption DEF Init, ReadInv, ListedMargin, ReadSafe, First, IdleReader
<1>2. ReadInv => ServedFrameWhole
  BY DEF ReadInv, ReadSafe, ServedFrameWhole
<1>. QED
  BY <1>1, <1>2, ReadInvStep, Invariance, NeverOverwritten, PTL DEF Spec

=============================================================================
