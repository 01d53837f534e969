----------------------------- MODULE SvcProofs ------------------------------
(***************************************************************************)
(* What the service threads of a webcam take frames from: the list of      *)
(* processed frames in live mode, and the table of contents of the         *)
(* recorded frames in playback.                                            *)
(***************************************************************************)
EXTENDS FrameList, TocSearch, FiniteSetTheorems, TLAPS

-----------------------------------------------------------------------------
(* FrameList, for any finite set of clients and any number of frames.  The *)
(* inductive invariant adds to the properties: a count for every frame     *)
(* number (also the freed ones, whose count is zero), frames leave the     *)
(* list only when old, and what a thread took is not newer than what it    *)
(* holds.                                                                  *)

ListInserted == \A f \in list : f <= inserted

FreedWereOld == \A f \in Frames : f <= inserted /\ f \notin list => f <= aged

CountsExact == \A f \in Frames : ref[f] = Cardinality(Holders(f))

TakenUpToHeld ==
  \A t \in Threads :
    /\ held[t] = NoFrame => taken[t] = {}
    /\ \A s \in taken[t] : s <= held[t]

IInv ==
  /\ TypeOK
  /\ ListInserted
  /\ FreedWereOld
  /\ CountsExact
  /\ TakenUpToHeld
  /\ NoUseAfterFree
  /\ MissedOnlyIfAged

-----------------------------------------------------------------------------
(* Lemmas. *)

\* The holders of a frame form a finite set, empty when the count is zero.
LEMMA HoldersFinite ==
  ASSUME NEW f
  PROVE  /\ IsFiniteSet(Holders(f))
         /\ Cardinality(Holders(f)) \in Nat
         /\ Cardinality(Holders(f)) = 0 <=> Holders(f) = {}
<1>1. IsFiniteSet(Threads)
  BY FrameListAssumption, FS_AddElement, FS_Singleton, FS_Union DEF Threads
<1>2. Holders(f) \in SUBSET Threads
  BY DEF Holders
<1>3. IsFiniteSet(Holders(f))
  BY <1>1, <1>2, FS_Subset
<1>. QED
  BY <1>3, FS_CardinalityType, FS_EmptySet

\* Giving thread t another frame (or none) changes the holders of the frame
\* it held and of the one it gets, by one each, and of no other.
LEMMA HoldersChange ==
  ASSUME TypeOK, CountsExact,
         NEW t \in Threads, NEW x \in {NoFrame} \cup Frames,
         held' = [held EXCEPT ![t] = x], held[t] # x,
         ref' = [g \in Frames |-> IF g = x THEN ref[g] + 1
                                  ELSE IF g = held[t] THEN ref[g] - 1 ELSE ref[g]]
  PROVE  CountsExact' /\ ref' \in [Frames -> Nat]
<1>. SUFFICES ASSUME NEW f \in Frames
              PROVE  ref'[f] = Cardinality(Holders(f)') /\ ref'[f] \in Nat
  BY DEF CountsExact
<1>0. ref[f] = Cardinality(Holders(f)) /\ IsFiniteSet(Holders(f))
      /\ Cardinality(Holders(f)) \in Nat
  BY HoldersFinite DEF CountsExact
<1>1. CASE f = x
  <2>1. Holders(f)' = Holders(f) \cup {t}
    BY <1>1 DEF Holders, TypeOK
  <2>2. t \notin Holders(f)
    BY <1>1 DEF Holders
  <2>3. Cardinality(Holders(f) \cup {t}) = Cardinality(Holders(f)) + 1
    BY <1>0, <2>2, FS_AddElement
  <2>. QED
    BY <1>0, <1>1, <2>1, <2>3
<1>2. CASE f # x /\ f = held[t]
  <2>1. Holders(f)' = Holders(f) \ {t}
    BY <1>2 DEF Holders, TypeOK
  <2>2. t \in Holders(f)
    BY <1>2 DEF Holders
  <2>3. /\ Cardinality(Holders(f) \ {t}) = Cardinality(Holders(f)) - 1
        /\ Cardinality(Holders(f) \ {t}) \in Nat
    BY <1>0, <2>2, FS_RemoveElement, FS_CardinalityType
  <2>. QED
    BY <1>0, <1>2, <2>1, <2>3
<1>3. CASE f # x /\ f # held[t]
  <2>1. Holders(f)' = Holders(f)
    BY <1>3 DEF Holders, TypeOK
  <2>. QED
    BY <1>0, <1>3, <2>1
<1>. QED
  BY <1>1, <1>2, <1>3

\* What a thread takes is in the list and is not the frame it holds.
LEMMA TakesNewer ==
  ASSUME TypeOK, NEW t \in Threads, NEW f \in Frames, Takes(t, f)
  PROVE  /\ f \in list
         /\ f > held[t]
BY DEF Takes, IsLast, IsNext, TypeOK, NoFrame, Frames

\* Collection keeps every frame in use and every young frame.
LEMMA CollectedKeeps ==
  ASSUME TypeOK, CountsExact, NEW l \in SUBSET Frames, NEW f \in l,
         f > aged \/ \E t \in Threads : held[t] = f
  PROVE  f \in Collected(l)
<1>1. CASE f > aged
  BY <1>1 DEF Collected
<1>2. CASE \E t \in Threads : held[t] = f
  <2>1. Holders(f) # {}
    BY <1>2 DEF Holders
  <2>2. ref[f] # 0
    BY <2>1, HoldersFinite DEF CountsExact
  <2>. QED
    BY <2>2 DEF Collected
<1>. QED
  BY <1>1, <1>2

\* The part of the invariant about frames and references.
ListInv ==
  /\ ListInserted
  /\ FreedWereOld
  /\ CountsExact
  /\ TakenUpToHeld
  /\ NoUseAfterFree
  /\ MissedOnlyIfAged

RefTypes ==
  /\ ref \in [Frames -> Nat]
  /\ held \in [Threads -> {NoFrame} \cup Frames]
  /\ taken \in [Threads -> SUBSET Frames]

\* Taking the next frame preserves the invariant.
LEMMA TakePreserves ==
  ASSUME IInv, NEW t \in Threads, NEW f \in Frames, Take(t, f),
         UNCHANGED <<inserted, list, aged>>
  PROVE  ListInv' /\ RefTypes'
<1>1. f \in list /\ f > held[t]
  BY TakesNewer DEF Take, IInv
<1>2. held[t] # f /\ f # NoFrame
  BY <1>1 DEF IInv, TypeOK, NoFrame, Frames
<1>3. CountsExact' /\ ref' \in [Frames -> Nat]
  <2>1. /\ held' = [held EXCEPT ![t] = f]
        /\ ref' = [g \in Frames |-> IF g = f THEN ref[g] + 1
                                    ELSE IF g = held[t] THEN ref[g] - 1 ELSE ref[g]]
    BY DEF Take
  <2>. QED
    BY <1>2, <2>1, HoldersChange DEF IInv
<1>4. RefTypes'
  BY <1>3 DEF Take, IInv, TypeOK, RefTypes
<1>5. ListInserted' /\ FreedWereOld'
  BY DEF IInv, ListInserted, FreedWereOld
<1>6. NoUseAfterFree'
  BY <1>1 DEF Take, IInv, TypeOK, NoUseAfterFree
<1>7. TakenUpToHeld'
  BY <1>1, <1>2 DEF Take, IInv, TypeOK, TakenUpToHeld, Frames, NoFrame
<1>8. MissedOnlyIfAged'
  <2>. SUFFICES ASSUME NEW u \in Threads, NEW s \in taken'[u], NEW g \in Frames,
                       s < g, g <= held'[u], g \notin taken'[u]
                PROVE  g <= aged
    BY DEF MissedOnlyIfAged
  <2>1. CASE u # t
    BY <2>1 DEF Take, IInv, TypeOK, MissedOnlyIfAged
  <2>2. CASE u = t
    <3>0. taken'[t] = taken[t] \cup {f} /\ held'[t] = f
      BY DEF Take, IInv, TypeOK
    <3>1. s \in taken[t]
      BY <2>2, <3>0 DEF Frames
    <3>2. held[t] # NoFrame /\ g # f /\ g < f
      BY <2>2, <3>0, <3>1 DEF IInv, TakenUpToHeld, Frames
    <3>3. CASE g <= held[t]
      BY <2>2, <3>0, <3>1, <3>3 DEF IInv, MissedOnlyIfAged
    <3>4. CASE ~(g <= held[t])
      <4>1. g \notin list
        BY <3>2, <3>4 DEF Take, Takes, IsNext, IInv, TypeOK, Frames, NoFrame
      <4>2. g <= inserted
        BY <1>1, <3>2 DEF IInv, TypeOK, ListInserted, Frames
      <4>. QED
        BY <4>1, <4>2 DEF IInv, FreedWereOld
    <3>. QED
      BY <3>3, <3>4
  <2>. QED
    BY <2>1, <2>2
<1>. QED
  BY <1>3, <1>4, <1>5, <1>6, <1>7, <1>8 DEF ListInv

\* Giving up the reference preserves the invariant.
LEMMA DropPreserves ==
  ASSUME IInv, NEW c \in Clients, DropReference(c),
         UNCHANGED <<inserted, list, aged>>
  PROVE  ListInv' /\ RefTypes'
<1>0. c \in Threads
  BY DEF Threads
<1>1. CountsExact' /\ ref' \in [Frames -> Nat]
  <2>1. CASE held[c] = NoFrame
    <3>1. ref' = ref /\ held' = held
      BY <1>0, <2>1 DEF DropReference, IInv, TypeOK, NoFrame, Frames
    <3>. QED
      BY <3>1 DEF IInv, TypeOK, CountsExact, Holders
  <2>2. CASE held[c] # NoFrame
    <3>1. /\ held' = [held EXCEPT ![c] = NoFrame]
          /\ ref' = [g \in Frames |-> IF g = NoFrame THEN ref[g] + 1
                                      ELSE IF g = held[c] THEN ref[g] - 1 ELSE ref[g]]
      BY DEF DropReference, NoFrame, Frames
    <3>. QED
      BY <1>0, <2>2, <3>1, HoldersChange DEF IInv
  <2>. QED
    BY <2>1, <2>2
<1>2. RefTypes'
  BY <1>0, <1>1 DEF DropReference, IInv, TypeOK, RefTypes
<1>3. ListInserted' /\ FreedWereOld'
  BY DEF IInv, ListInserted, FreedWereOld
<1>4. NoUseAfterFree' /\ TakenUpToHeld'
  BY <1>0 DEF DropReference, IInv, TypeOK, NoUseAfterFree, TakenUpToHeld
<1>5. MissedOnlyIfAged'
  BY <1>0 DEF DropReference, IInv, TypeOK, MissedOnlyIfAged
<1>. QED
  BY <1>1, <1>2, <1>3, <1>4, <1>5 DEF ListInv

\* A step that leaves frames and references alone preserves the invariant.
LEMMA QuietPreserves ==
  ASSUME IInv, UNCHANGED <<inserted, list, ref, aged, held, taken>>
  PROVE  ListInv' /\ RefTypes'
BY DEF IInv, ListInv, RefTypes, TypeOK, ListInserted, FreedWereOld, CountsExact,
       Holders, TakenUpToHeld, NoUseAfterFree, MissedOnlyIfAged

-----------------------------------------------------------------------------
\* The inductive invariant holds in every reachable state.
THEOREM Invariance == Spec => []IInv
<1>1. Init => IInv
  <2>. SUFFICES ASSUME Init PROVE IInv
    OBVIOUS
  <2>1. TypeOK
    BY FrameListAssumption DEF Init, TypeOK, Threads, Modes, ClientPCs, WriterPCs
  <2>2. CountsExact
    <3>. SUFFICES ASSUME NEW f \in Frames PROVE ref[f] = Cardinality(Holders(f))
      BY DEF CountsExact
    <3>1. Holders(f) = {}
      BY DEF Init, Holders, Frames, NoFrame
    <3>. QED
      BY <3>1, FS_EmptySet DEF Init
  <2>3. ListInserted /\ FreedWereOld /\ TakenUpToHeld /\ NoUseAfterFree /\ MissedOnlyIfAged
    BY DEF Init, ListInserted, FreedWereOld, TakenUpToHeld, NoUseAfterFree,
           MissedOnlyIfAged, Frames, NoFrame
  <2>. QED
    BY <2>1, <2>2, <2>3 DEF IInv
<1>2. IInv /\ [Next]_vars => IInv'
  <2>. SUFFICES ASSUME IInv, [Next]_vars PROVE IInv'
    OBVIOUS
  <2>0. Clients \subseteq Threads /\ Writer \in Threads
    BY DEF Threads
  <2>q. SUFFICES TypeOK' /\ ListInv'
    BY DEF IInv, ListInv
  <2>1. CASE Age
    <3>1. TypeOK'
      BY <2>1, FrameListAssumption DEF Age, IInv, TypeOK
    <3>2. CountsExact'
      BY <2>1 DEF Age, IInv, CountsExact, Holders
    <3>3. ListInserted' /\ NoUseAfterFree' /\ TakenUpToHeld'
      BY <2>1 DEF Age, IInv, ListInserted, NoUseAfterFree, TakenUpToHeld
    <3>4. FreedWereOld' /\ MissedOnlyIfAged'
      BY <2>1 DEF Age, IInv, TypeOK, FreedWereOld, MissedOnlyIfAged, Frames
    <3>. QED
      BY <3>1, <3>2, <3>3, <3>4 DEF ListInv
  <2>2. CASE CamInsert
    <3>. DEFINE n == inserted + 1
    <3>0. n \in Frames /\ IInv /\ n \notin list
      BY <2>2, FrameListAssumption DEF CamInsert, IInv, TypeOK, Frames, ListInserted
    <3>1. TypeOK'
      <4>1. Collected(list \cup {n}) \in SUBSET Frames
        BY <3>0 DEF IInv, TypeOK, Collected
      <4>2. n \in 0 .. MaxFrames
        BY <3>0, FrameListAssumption DEF Frames
      <4>. QED
        BY <2>2, <4>1, <4>2 DEF CamInsert, IInv, TypeOK
    <3>2. CountsExact'
      BY <2>2 DEF CamInsert, IInv, CountsExact, Holders
    <3>3. ListInserted'
      BY <2>2 DEF CamInsert, IInv, TypeOK, ListInserted, Collected, Frames
    <3>4. NoUseAfterFree'
      <4>. SUFFICES ASSUME NEW t \in Threads, held[t] # NoFrame
                    PROVE  held[t] \in Collected(list \cup {n})
        BY <2>2 DEF CamInsert, NoUseAfterFree
      <4>1. held[t] \in list
        BY DEF IInv, NoUseAfterFree
      <4>2. list \cup {n} \in SUBSET Frames
        BY <3>0 DEF IInv, TypeOK
      <4>. QED
        BY <4>1, <4>2, CollectedKeeps DEF IInv
    <3>5. TakenUpToHeld'
      BY <2>2 DEF CamInsert, IInv, TakenUpToHeld
    <3>6. FreedWereOld'
      <4>. SUFFICES ASSUME NEW f \in Frames, f <= n,
                           f \notin Collected(list \cup {n})
                    PROVE  f <= aged
        BY <2>2 DEF CamInsert, FreedWereOld
      <4>1. CASE f \in list \cup {n}
        BY <4>1 DEF Collected, IInv, TypeOK, Frames
      <4>2. CASE f \notin list \cup {n}
        BY <4>2 DEF IInv, TypeOK, FreedWereOld, Frames
      <4>. QED
        BY <4>1, <4>2
    <3>7. MissedOnlyIfAged'
      BY <2>2 DEF CamInsert, IInv, MissedOnlyIfAged
    <3>. QED
      BY <3>1, <3>2, <3>3, <3>4, <3>5, <3>6, <3>7 DEF ListInv
  <2>3. CASE CamCollect
    <3>1. TypeOK'
      BY <2>3 DEF CamCollect, IInv, TypeOK, Collected
    <3>2. CountsExact'
      BY <2>3 DEF CamCollect, IInv, CountsExact, Holders
    <3>3. ListInserted' /\ TakenUpToHeld' /\ MissedOnlyIfAged'
      BY <2>3 DEF CamCollect, IInv, ListInserted, TakenUpToHeld, MissedOnlyIfAged, Collected
    <3>4. NoUseAfterFree'
      BY <2>3, CollectedKeeps DEF CamCollect, IInv, TypeOK, NoUseAfterFree
    <3>5. FreedWereOld'
      <4>. SUFFICES ASSUME NEW f \in Frames, f <= inserted, f \notin Collected(list)
                    PROVE  f <= aged
        BY <2>3 DEF CamCollect, FreedWereOld
      <4>. QED
        BY DEF IInv, TypeOK, FreedWereOld, Collected, Frames
    <3>. QED
      BY <3>1, <3>2, <3>3, <3>4, <3>5 DEF ListInv
  <2>4. ASSUME NEW c \in Clients, SvcNext(c)
        PROVE  TypeOK' /\ ListInv'
    <3>. USE DEF ClientPCs, Modes, Goto
    <3>1. CASE SvcConnect(c)
      BY <2>0, <3>1, QuietPreserves DEF SvcConnect, IInv, TypeOK
    <3>2. CASE SvcNoCommand(c)
      BY <2>0, <3>2, QuietPreserves DEF SvcNoCommand, IInv, TypeOK
    <3>3. CASE SvcRecvFail(c)
      BY <2>0, <3>3, QuietPreserves DEF SvcRecvFail, IInv, TypeOK
    <3>4. CASE \E m \in Modes : SvcSetMode(c, m)
      BY <2>0, <3>4, QuietPreserves DEF SvcSetMode, IInv, TypeOK
    <3>5. CASE SvcEnterMode(c)
      <4>1. ListInv' /\ RefTypes'
        BY <3>5, DropPreserves DEF SvcEnterMode
      <4>. QED
        BY <3>5, <4>1 DEF SvcEnterMode, IInv, TypeOK, RefTypes
    <3>6. CASE SvcLiveSkip(c)
      BY <2>0, <3>6, QuietPreserves DEF SvcLiveSkip, IInv, TypeOK
    <3>7. CASE SvcOtherMode(c)
      BY <2>0, <3>7, QuietPreserves DEF SvcOtherMode, IInv, TypeOK
    <3>8. ASSUME NEW f \in Frames, SvcLiveTake(c, f)
          PROVE  TypeOK' /\ ListInv'
      <4>1. ListInv' /\ RefTypes'
        BY <2>0, <3>8, TakePreserves DEF SvcLiveTake
      <4>. QED
        BY <3>8, <4>1 DEF SvcLiveTake, IInv, TypeOK, RefTypes
    <3>9. CASE SvcSent(c)
      BY <2>0, <3>9, QuietPreserves DEF SvcSent, IInv, TypeOK
    <3>10. CASE SvcDone(c)
      <4>1. ListInv' /\ RefTypes'
        BY <3>10, DropPreserves DEF SvcDone
      <4>. QED
        BY <3>10, <4>1 DEF SvcDone, IInv, TypeOK, RefTypes
    <3>. QED
      BY <2>4, <3>1, <3>2, <3>3, <3>4, <3>5, <3>6, <3>7, <3>8, <3>9, <3>10 DEF SvcNext
  <2>5. CASE WriterNext
    <3>. USE DEF WriterPCs, Goto
    <3>1. CASE WriterStart
      BY <2>0, <3>1, QuietPreserves DEF WriterStart, IInv, TypeOK
    <3>2. CASE WriterWrote
      BY <2>0, <3>2, QuietPreserves DEF WriterWrote, IInv, TypeOK
    <3>3. CASE WriterFail
      BY <2>0, <3>3, QuietPreserves DEF WriterFail, IInv, TypeOK
    <3>4. ASSUME NEW f \in Frames, WriterTake(f)
          PROVE  TypeOK' /\ ListInv'
      <4>1. ListInv' /\ RefTypes'
        BY <2>0, <3>4, TakePreserves DEF WriterTake
      <4>. QED
        BY <3>4, <4>1 DEF WriterTake, IInv, TypeOK, RefTypes
    <3>. QED
      BY <2>5, <3>1, <3>2, <3>3, <3>4 DEF WriterNext
  <2>6. CASE UNCHANGED vars
    BY <2>6, QuietPreserves DEF vars, IInv, TypeOK
  <2>. QED
    BY <2>1, <2>2, <2>3, <2>4, <2>5, <2>6 DEF Next
<1>. QED
  BY <1>1, <1>2, PTL DEF Spec

\* Every variable keeps its type.
THEOREM TypeCorrect == Spec => []TypeOK
BY Invariance, PTL DEF IInv

\* The camera thread never frees a frame that a service thread is sending or
\* the recorder is writing, for any number of viewers.
THEOREM MemorySafe == Spec => []NoUseAfterFree
BY Invariance, PTL DEF IInv

\* The ref_count of a frame in the list is the number of threads holding it.
THEOREM CountsCorrect == Spec => []RefCountExact
<1>1. IInv => RefCountExact
  BY DEF IInv, TypeOK, CountsExact, RefCountExact
<1>. QED
  BY <1>1, Invariance, PTL

\* Neither a viewer nor the recorder skips a frame less than 2 seconds old.
THEOREM NothingSkipped == Spec => []MissedOnlyIfAged
BY Invariance, PTL DEF IInv

-----------------------------------------------------------------------------
(* TocSearch is correct for a table of any size and any recorded times.    *)
(* The loop invariant is that the request lies between the entries at the  *)
(* two bounds, both of them in the table.                                  *)

LoopInv ==
  /\ table.oldest # NoEntry
  /\ table.oldest <= first /\ first < last /\ last <= NewestIn(table)
  /\ Time(first) <= request /\ request < Time(last)

StartInv == first = table.oldest /\ last = NewestIn(table)

SearchInv ==
  /\ SearchTypeOK
  /\ phase = "start" => StartInv
  /\ phase = "loop" => LoopInv
  /\ FoundCovers
  /\ NotFoundJustified

-----------------------------------------------------------------------------
\* The bounds of a table, and the times in it, are numbers.
LEMMA TableTypes ==
  ASSUME NEW tb \in Tables
  PROVE  /\ tb.oldest \in Int /\ tb.oldest >= NoEntry /\ tb.oldest < MaxToc
         /\ NewestIn(tb) \in Int /\ NoEntry <= NewestIn(tb) /\ NewestIn(tb) < 2 * MaxToc
         /\ tb.valid \in Nat
         /\ tb.oldest # NoEntry => tb.oldest <= NewestIn(tb)
         /\ \A i \in Int : TimeIn(tb, i) \in Nat
<1>1. /\ tb.oldest \in {NoEntry} \cup Indices /\ tb.next \in Indices
      /\ tb.valid \in Nat /\ tb.time \in [Indices -> Nat]
  BY SearchAssumption
<1>2. ASSUME NEW i \in Int PROVE TimeIn(tb, i) \in Nat
  <2>1. i % MaxToc \in Indices
    BY SearchAssumption DEF Indices
  <2>. QED
    BY <1>1, <2>1 DEF TimeIn
<1>3. /\ tb.oldest \in Int /\ tb.oldest >= NoEntry /\ tb.oldest <= MaxToc - 1
      /\ tb.next \in Int /\ tb.next >= 0 /\ tb.next <= MaxToc - 1
      /\ MaxToc \in Nat /\ MaxToc > 0
  BY <1>1, SearchAssumption DEF Indices, NoEntry
<1>4. NewestIn(tb) \in Int /\ NoEntry <= NewestIn(tb) /\ NewestIn(tb) < 2 * MaxToc
      /\ tb.oldest <= NewestIn(tb)
  BY <1>3 DEF NewestIn, NoEntry
<1>. QED
  BY <1>1, <1>2, <1>3, <1>4

\* In the loop the middle entry and the one after it are in the table.
LEMMA MiddleBounds ==
  ASSUME SearchTypeOK, LoopInv
  PROVE  /\ Middle \in Int /\ first <= Middle /\ Middle < last
         /\ Middle + 1 <= last
         /\ Time(Middle) < Time(Middle + 1)
         /\ Time(Middle) \in Nat /\ Time(Middle + 1) \in Nat
         /\ Time(first) \in Nat /\ Time(last) \in Nat
         /\ request \in Nat
<1>. table \in Tables /\ request \in Nat /\ first \in Int /\ last \in Int
  BY SearchAssumption DEF SearchTypeOK
<1>1. Middle \in Int /\ first <= Middle /\ Middle < last
  BY DEF LoopInv, Middle
<1>2. Middle \in table.oldest .. NewestIn(table) - 1
  BY <1>1, TableTypes DEF LoopInv
<1>3. Time(Middle) < Time(Middle + 1)
  BY <1>2, SearchAssumption DEF LoopInv, Time
<1>. QED
  BY <1>1, <1>3, TableTypes DEF Time

-----------------------------------------------------------------------------
\* The inductive invariant holds in every reachable state.
THEOREM Searching == SearchSpec => []SearchInv
<1>1. SearchInit => SearchInv
  <2>. SUFFICES ASSUME SearchInit PROVE SearchInv
    OBVIOUS
  <2>1. SearchTypeOK
    BY TableTypes, SearchAssumption DEF SearchInit, SearchTypeOK, Statuses, NoEntry
  <2>. QED
    BY <2>1 DEF SearchInit, SearchInv, StartInv, FoundCovers, NotFoundJustified
<1>2. SearchInv /\ [SearchNext]_searchVars => SearchInv'
  <2>. SUFFICES ASSUME SearchInv, [SearchNext]_searchVars PROVE SearchInv'
    OBVIOUS
  <2>0. /\ table \in Tables /\ request \in Nat /\ first \in Int /\ last \in Int
        /\ table.valid \in Nat /\ NewestIn(table) \in Int /\ table.oldest \in Int
        /\ \A i \in Int : Time(i) \in Nat
    BY TableTypes, SearchAssumption DEF SearchInv, SearchTypeOK, Time
  <2>1. CASE Check
    <3>1. StartInv /\ phase = "start"
      BY <2>1 DEF Check, SearchInv
    <3>2. CASE first = NoEntry /\ NotFound("FILE_EMPTY")
      BY <3>1, <3>2 DEF NotFound, SearchInv, SearchTypeOK, Statuses, FoundCovers,
                        NotFoundJustified, StartInv
    <3>3. CASE request < Time(first) /\ NotFound("BEFORE_BOD")
      BY <3>1, <3>3 DEF NotFound, SearchInv, SearchTypeOK, Statuses, FoundCovers,
                        NotFoundJustified, StartInv, Time
    <3>4. CASE /\ first # NoEntry /\ Time(first) <= request
               /\ request > table.valid /\ NotFound("AFTER_EOD")
      BY <3>1, <3>4 DEF NotFound, SearchInv, SearchTypeOK, Statuses, FoundCovers,
                        NotFoundJustified, StartInv
    <3>5. CASE /\ first # NoEntry /\ InLast /\ Found(last, table.valid)
      <4>1. SearchTypeOK'
        BY <2>0, <3>5 DEF Found, SearchInv, SearchTypeOK
      <4>2. FoundCovers'
        BY <2>0, <3>1, <3>5, TableTypes
           DEF Found, FoundCovers, InLast, StartInv, Time
      <4>. QED
        BY <3>5, <4>1, <4>2 DEF Found, SearchInv, NotFoundJustified
    <3>6. CASE /\ first # NoEntry /\ Time(first) <= request
               /\ ~(request > table.valid) /\ ~InLast /\ first = last
      BY <2>0, <3>1, <3>6 DEF InLast
    <3>7. CASE /\ first # NoEntry /\ Time(first) <= request
               /\ ~(request > table.valid) /\ ~InLast /\ first # last
               /\ phase' = "loop"
               /\ UNCHANGED <<table, request, first, last, count, status, found,
                              startTime, endTime>>
      <4>1. LoopInv
        BY <2>0, <3>1, <3>7, TableTypes DEF LoopInv, InLast, StartInv
      <4>2. LoopInv'
        BY <3>7, <4>1 DEF LoopInv, Time
      <4>. QED
        BY <3>7, <4>2 DEF SearchInv, SearchTypeOK, FoundCovers, NotFoundJustified
    <3>. QED
      BY <2>1, <3>2, <3>3, <3>4, <3>5, <3>6, <3>7 DEF Check
  <2>2. CASE LoopEnds
    <3>1. phase = "loop" /\ LoopInv /\ SearchTypeOK
      BY <2>2 DEF LoopEnds, SearchInv
    <3>2. ~Disordered
      BY <3>1, MiddleBounds DEF Disordered
    <3>3. ~(first + 1 = last /\ ~Covers)
      BY <2>0, <3>1, MiddleBounds DEF Covers, LoopInv
    <3>4. Covers /\ Found(Middle, Time(Middle + 1) - 1)
      BY <2>2, <3>2, <3>3 DEF LoopEnds
    <3>5. SearchTypeOK'
      BY <2>0, <3>1, <3>4, MiddleBounds DEF Found, SearchTypeOK
    <3>6. FoundCovers'
      BY <2>0, <3>1, <3>4, MiddleBounds DEF Found, FoundCovers, Covers, LoopInv, Time
    <3>. QED
      BY <3>4, <3>5, <3>6 DEF Found, SearchInv, NotFoundJustified
  <2>3. CASE LoopNarrows
    <3>1. phase = "loop" /\ LoopInv /\ SearchTypeOK
      BY <2>3 DEF LoopNarrows, SearchInv
    <3>2. SearchTypeOK'
      <4>1. Middle \in NoEntry .. 2 * MaxToc - 1
        BY <2>0, <3>1, MiddleBounds, SearchAssumption DEF SearchTypeOK, NoEntry
      <4>. QED
        BY <2>3, <3>1, <4>1 DEF LoopNarrows, Narrow, SearchTypeOK, Statuses
    <3>3. /\ table.oldest <= first' /\ first' < last' /\ last' <= NewestIn(table)
          /\ Time(first') <= request /\ request < Time(last')
      BY <2>0, <2>3, <3>1, MiddleBounds DEF LoopNarrows, Narrow, Covers, LoopInv
    <3>4. LoopInv'
      BY <2>3, <3>1, <3>3 DEF LoopNarrows, LoopInv, Time
    <3>5. FoundCovers' /\ NotFoundJustified'
      BY <2>3, <3>1 DEF LoopNarrows, FoundCovers, NotFoundJustified, SearchInv
    <3>. QED
      BY <2>3, <3>1, <3>2, <3>4, <3>5 DEF LoopNarrows, SearchInv
  <2>4. CASE Done \/ UNCHANGED searchVars
    BY <2>4 DEF Done, searchVars, SearchInv, SearchTypeOK, StartInv, LoopInv, FoundCovers,
               NotFoundJustified, Time
  <2>. QED
    BY <2>1, <2>2, <2>3, <2>4 DEF SearchNext
<1>. QED
  BY <1>1, <1>2, PTL DEF SearchSpec

\* Every variable keeps its type: the bounds stay within twice the table.
THEOREM SearchTyped == SearchSpec => []SearchTypeOK
BY Searching, PTL DEF SearchInv

\* A frame that is found was showing at the requested time.
THEOREM SearchSound == SearchSpec => []FoundCovers
BY Searching, PTL DEF SearchInv

\* A frame is not found only when none was showing, for tables of any size.
THEOREM SearchComplete == SearchSpec => []NotFoundJustified
BY Searching, PTL DEF SearchInv

\* assert(middle != last) holds and the search reads only entries in the table.
THEOREM SearchInTable == SearchSpec => []MiddleBelowLast
<1>1. SearchInv => MiddleBelowLast
  BY MiddleBounds DEF SearchInv, LoopInv, MiddleBelowLast
<1>. QED
  BY <1>1, Searching, PTL

-----------------------------------------------------------------------------
(* The search never gives up: each iteration that goes on halves what is   *)
(* left between the bounds.                                                *)

\* a bound on what is left between the bounds after k iterations
Span ==
  CHOOSE span \in [0 .. MaxCount -> 1 .. MaxToc] :
    /\ span[0] >= MaxToc - 1 /\ span[MaxCount] = 1
    /\ \A k \in 1 .. MaxCount : span[k - 1] <= 2 * span[k]

LEMMA SpanHalves ==
  /\ Span \in [0 .. MaxCount -> 1 .. MaxToc]
  /\ Span[0] >= MaxToc - 1 /\ Span[MaxCount] = 1
  /\ \A k \in 1 .. MaxCount : Span[k - 1] <= 2 * Span[k]
BY HalvingAssumption DEF Span

HalvingInv ==
  /\ phase \in {"start", "loop"} => count \in 0 .. MaxCount /\ last - first <= Span[count]
  /\ phase = "start" => count = 0
  /\ status # "NOT_FOUND_4"

\* Halving ends within MaxCount iterations, for every table that can be
\* halved down to one entry in that many: after k iterations Span[k] entries
\* are left at most, and one entry settles the search.
THEOREM SearchEnds == SearchSpec => []NeverGivesUp
<1>. MaxCount \in Nat /\ MaxToc \in Nat \ {0}
  BY SearchAssumption
<1>1. SearchInit => HalvingInv
  <2>. SUFFICES ASSUME SearchInit PROVE HalvingInv
    OBVIOUS
  <2>1. last - first <= MaxToc - 1
    <3>1. table \in Tables /\ first = table.oldest /\ last = NewestIn(table)
      BY DEF SearchInit
    <3>2. table.oldest \in {NoEntry} \cup Indices /\ table.next \in Indices
      BY <3>1, SearchAssumption
    <3>. QED
      BY <3>1, <3>2 DEF NewestIn, Indices, NoEntry
  <2>2. 0 \in 0 .. MaxCount /\ Span[0] \in Nat /\ last - first \in Int
    <3>1. table \in Tables /\ first = table.oldest /\ last = NewestIn(table)
      BY DEF SearchInit
    <3>2. table.oldest \in Int /\ NewestIn(table) \in Int
      BY <3>1, TableTypes
    <3>3. 0 \in 0 .. MaxCount
      OBVIOUS
    <3>4. Span[0] \in 1 .. MaxToc
      BY <3>3, SpanHalves
    <3>. QED
      BY <3>1, <3>2, <3>3, <3>4
  <2>3. last - first <= Span[0]
    BY <2>1, <2>2, SpanHalves
  <2>. QED
    BY <2>2, <2>3 DEF SearchInit, HalvingInv
<1>2. SearchInv /\ HalvingInv /\ [SearchNext]_searchVars => HalvingInv'
  <2>. SUFFICES ASSUME SearchInv, HalvingInv, [SearchNext]_searchVars PROVE HalvingInv'
    OBVIOUS
  <2>1. CASE Check
    BY <2>1 DEF Check, NotFound, Found, HalvingInv
  <2>2. CASE LoopEnds
    BY <2>2 DEF LoopEnds, NotFound, Found, HalvingInv
  <2>3. CASE LoopNarrows
    <3>1. /\ phase = "loop" /\ LoopInv /\ SearchTypeOK /\ count' = count + 1 /\ first + 1 # last
          /\ first \in Int /\ last \in Int
      BY <2>3, SearchAssumption DEF LoopNarrows, SearchInv, SearchTypeOK
    <3>2. /\ count \in 0 .. MaxCount /\ last - first <= Span[count] /\ last - first >= 2
      BY <3>1 DEF HalvingInv, LoopInv
    <3>3. count' \in 1 .. MaxCount /\ count' - 1 = count
      <4>1. count # MaxCount
        BY <3>1, <3>2, SpanHalves
      <4>. QED
        BY <3>1, <3>2, <4>1
    <3>4. Span[count] <= 2 * Span[count'] /\ Span[count] \in Nat /\ Span[count'] \in Nat
      <4>1. Span[count' - 1] <= 2 * Span[count']
        BY <3>3, SpanHalves
      <4>2. Span[count] \in Nat /\ Span[count'] \in Nat
        BY <3>2, <3>3, SpanHalves
      <4>. QED
        BY <3>3, <4>1, <4>2
    <3>5. last' - first' <= Span[count']
      BY <2>3, <3>1, <3>2, <3>4 DEF LoopNarrows, Narrow, Middle
    <3>6. phase' = "loop" /\ status' = status
      BY <2>3, <3>1, <3>3 DEF LoopNarrows
    <3>. QED
      BY <3>1, <3>3, <3>5, <3>6 DEF HalvingInv
  <2>4. CASE Done \/ UNCHANGED searchVars
    BY <2>4 DEF Done, searchVars, HalvingInv
  <2>. QED
    BY <2>1, <2>2, <2>3, <2>4 DEF SearchNext
<1>3. HalvingInv => NeverGivesUp
  BY DEF HalvingInv, NeverGivesUp
<1>. QED
  BY <1>1, <1>2, <1>3, Searching, PTL DEF SearchSpec
=============================================================================
