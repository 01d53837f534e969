-------------------------- MODULE RpFileHdrProofs --------------------------
(***************************************************************************)
(* The header survives crashes, for any number of frames, header writes,   *)
(* crashes and files given up.                                             *)
(*                                                                         *)
(* The argument: once a header has been written, one of the two copies, an *)
(* anchor, is the same in the cache and on the disk, so that no power      *)
(* failure can harm it.  The other copy, in the cache or on the disk, is   *)
(* invalid, older than the anchor, or newer and naming a frame that is on  *)
(* the disk.                                                               *)
(***************************************************************************)
EXTENDS RpFileHdr, TLAPS

Other(a) == IF a = 0 THEN 1 ELSE 0

OnDisk(f) == f = 0 \/ f \in durable

Older(h, g) == h.counter < g.counter /\ h.frame <= g.frame

\* h is invalid, older than the anchor g, or newer and safe to be chosen
FitsBeside(h, g) ==
  h.valid => Older(h, g) \/ (Older(g, h) /\ OnDisk(h.frame))

Anchor(a) ==
  /\ cache[a] = disk[a] /\ disk[a].valid
  /\ acked <= disk[a].frame /\ OnDisk(disk[a].frame)
  /\ FitsBeside(cache[Other(a)], disk[a])
  /\ FitsBeside(disk[Other(a)], disk[a])
  /\ cache[Other(a)] # disk[Other(a)] /\ disk[Other(a)].valid =>
       Older(disk[Other(a)], disk[a])

\* no header write has returned yet, and no header is on the disk
NoHistory ==
  /\ acked = NoHeader
  /\ ~disk[0].valid /\ ~disk[1].valid
  /\ ~(cache[0].valid /\ cache[1].valid)
  /\ \A s \in Slots : cache[s].valid => OnDisk(cache[s].frame)

Recoverable == NoHistory \/ Anchor(0) \/ Anchor(1)

Bounded ==
  /\ hdr.frame <= written
  /\ \A s \in Slots : cache[s].frame <= written /\ disk[s].frame <= written
  /\ dirty \cup durable \subseteq 1 .. written

\* the copy that is going to be replaced is older than the one kept
TargetOlder(h) == h[Target].valid => h[lastSlot].valid /\ Older(h[Target], h[lastSlot])

\* the file exists and no header of it was written
Created ==
  /\ hdr.frame = 0 /\ hdr.counter = 0
  /\ NoHistory /\ ~cache[0].valid /\ ~cache[1].valid

\* frames are recorded after the header the file was opened with
Recording ==
  /\ cache[lastSlot].valid /\ TargetOlder(cache)
  /\ hdr.counter = cache[lastSlot].counter /\ hdr.frame >= cache[lastSlot].frame
  /\ hdr.frame = 0 \/ hdr.frame \in durable \cup dirty

\* a header is being written beside one that is not touched
Writing ==
  /\ OnDisk(hdr.frame)
  /\ cache[lastSlot] = disk[lastSlot]
  /\ Anchor(lastSlot) \/ (NoHistory /\ ~cache[lastSlot].valid)
  /\ cache[lastSlot].valid => Older(cache[lastSlot], hdr)
  /\ TargetOlder(disk)

\* what each place of the recording thread knows
Working ==
  /\ pc = "create" => Created
  /\ pc = "record" => Recording
  /\ pc = "put" => Writing /\ cache[Target] = disk[Target]
  /\ pc = "flush" => Writing /\ cache[Target] = NewHeader

IInv == TypeOK /\ Recoverable /\ Bounded /\ Working

-----------------------------------------------------------------------------
\* No file exists at first: the invariant holds.
LEMMA InitInv == Init => IInv
<1> SUFFICES ASSUME Init PROVE IInv
  OBVIOUS
<1>1. TypeOK
  BY HdrAssumption DEF Init, TypeOK, Slots, Header, Bad, NoHeader, Numbers
<1>2. Recoverable
  BY DEF Init, Recoverable, NoHistory, Slots, Bad
<1>3. Bounded
  BY DEF Init, Bounded, Slots, Bad
<1>4. Working
  BY DEF Init, Working
<1> QED
  BY <1>1, <1>2, <1>3, <1>4 DEF IInv

\* A slot that power failed on holds what the cache had, what the disk had, or
\* nothing valid; one that the two agree on is not touched.
LEMMA PowerLossSlots ==
  ASSUME TypeOK, PowerLoss
  PROVE  /\ disk' \in [Slots -> Header] /\ cache' = disk'
         /\ \A s \in Slots :
              /\ disk'[s] \in {cache[s], disk[s], Bad}
              /\ cache[s] = disk[s] => disk'[s] = disk[s]
         /\ durable \subseteq durable' /\ durable' \subseteq durable \cup dirty
         /\ dirty' = {} /\ file' = file /\ acked' = acked /\ pc' = "down"
         /\ hdr' = hdr /\ lastSlot' = lastSlot /\ written' = written
<1>1. PICK h0 \in Survives(0), h1 \in Survives(1) :
        disk' = [s \in Slots |-> IF s = 0 THEN h0 ELSE h1]
  BY DEF PowerLoss
<1>2. Bad \in Header
  BY DEF Bad, Header
<1>3. h0 \in Header /\ h1 \in Header
  BY <1>2 DEF Survives, TypeOK, Slots
<1>4. disk'[0] = h0 /\ disk'[1] = h1
  BY <1>1 DEF Slots
<1>5. \A s \in Slots : disk'[s] \in Survives(s)
  BY <1>4 DEF Slots
<1>6. disk' \in [Slots -> Header]
  BY <1>1, <1>3
<1>7. \A s \in Slots : /\ disk'[s] \in {cache[s], disk[s], Bad}
                       /\ cache[s] = disk[s] => disk'[s] = disk[s]
  BY <1>5 DEF Survives
<1>8. durable \subseteq durable' /\ durable' \subseteq durable \cup dirty
  BY DEF PowerLoss
<1> QED
  BY <1>6, <1>7, <1>8 DEF PowerLoss

\* Every step keeps the types.
LEMMA StepTypes == TypeOK /\ Bounded /\ [Next]_vars => TypeOK'
<1> SUFFICES ASSUME TypeOK, Bounded, [Next]_vars PROVE TypeOK'
  OBVIOUS
<1> USE HdrAssumption DEF Slots, Numbers, Bounded, TypeOK
<1>1. CASE Open
  BY <1>1 DEF Open, Chosen, NoSlot, Header
<1>2. CASE Create \/ ReadFails
  <2>1. Bad \in Header /\ Replace
    BY <1>2 DEF Create, ReadFails, Header, Bad
  <2>2. hdr' \in [counter : Nat, frame : 0 .. MaxFrames] /\ lastSlot' \in Slots
    BY <2>1 DEF Replace
  <2>3. cache' \in [Slots -> Header] /\ disk' \in [Slots -> Header]
    BY <2>1 DEF Replace
  <2>4. file' \in 1 .. MaxFiles /\ acked' \in {NoHeader} \cup (0 .. MaxFrames)
    BY <1>2 DEF Create, ReadFails
  <2> QED
    BY <2>1, <2>2, <2>3, <2>4 DEF Replace
<1>3. CASE RecordFrame
  BY <1>3 DEF RecordFrame
<1>4. CASE RecordFails
  BY <1>4 DEF RecordFails
<1>5. CASE SyncData
  BY <1>5 DEF SyncData
<1>6. CASE PutHeader
  BY <1>6 DEF PutHeader, Target, NewHeader, Header
<1>7. CASE PutFails
  <2>1. PICK h \in {cache[Target], Bad} : cache' = [cache EXCEPT ![Target] = h]
    BY <1>7 DEF PutFails
  <2>2. Target \in Slots /\ h \in Header
    <3>1. Target \in Slots
      BY DEF Target
    <3>2. cache[Target] \in Header
      BY <3>1
    <3>3. Bad \in Header
      BY DEF Bad, Header
    <3> QED
      BY <2>1, <3>1, <3>2, <3>3
  <2>3. cache' \in [Slots -> Header]
    BY <2>1, <2>2
  <2> QED
    BY <1>7, <2>3 DEF PutFails
<1>8. CASE FlushHeader
  BY <1>8 DEF FlushHeader, Target
<1>9. CASE Kill
  BY <1>9 DEF Kill
<1>10. CASE PowerLoss
  BY <1>10, PowerLossSlots
<1>11. CASE UNCHANGED vars
  BY <1>11 DEF vars
<1> QED
  BY <1>1, <1>2, <1>3, <1>4, <1>5, <1>6, <1>7, <1>8, <1>9, <1>10, <1>11 DEF Next

\* No header names a frame that was not recorded.
LEMMA StepBounded == IInv /\ [Next]_vars => Bounded'
<1> SUFFICES ASSUME IInv, [Next]_vars PROVE Bounded'
  OBVIOUS
<1> USE HdrAssumption DEF Slots, Numbers, Bounded, TypeOK, IInv
<1>1. CASE Open
  BY <1>1 DEF Open, Chosen, NoSlot, Header
<1>2. CASE Create \/ ReadFails
  BY <1>2 DEF Create, ReadFails, Replace, Header, Bad
<1>3. CASE RecordFrame
  BY <1>3 DEF RecordFrame, Header
<1>4. CASE RecordFails
  BY <1>4 DEF RecordFails
<1>5. CASE SyncData
  BY <1>5 DEF SyncData
<1>6. CASE PutHeader
  BY <1>6 DEF PutHeader, Target, NewHeader
<1>7. CASE PutFails
  BY <1>7 DEF PutFails, Target, Bad
<1>8. CASE FlushHeader
  BY <1>8 DEF FlushHeader
<1>9. CASE Kill
  BY <1>9 DEF Kill
<1>10. CASE PowerLoss
  <2>1. \A s \in Slots : cache'[s] \in {cache[s], disk[s], Bad}
                         /\ disk'[s] \in {cache[s], disk[s], Bad}
    BY <1>10, PowerLossSlots
  <2>2. \A s \in Slots : cache'[s].frame <= written /\ disk'[s].frame <= written
    BY <2>1 DEF Bad
  <2>3. dirty' \cup durable' \subseteq 1 .. written
    BY <1>10, PowerLossSlots
  <2> QED
    BY <1>10, <2>2, <2>3, PowerLossSlots
<1>11. CASE UNCHANGED vars
  BY <1>11 DEF vars
<1> QED
  BY <1>1, <1>2, <1>3, <1>4, <1>5, <1>6, <1>7, <1>8, <1>9, <1>10, <1>11 DEF Next

\* What the copies hold is all that Recoverable speaks of.
LEMMA RecoverableUnchanged ==
  ASSUME Recoverable, UNCHANGED <<cache, disk, acked>>, durable \subseteq durable'
  PROVE  Recoverable'
BY DEF Recoverable, NoHistory, Anchor, FitsBeside, Older, OnDisk

\* A restart goes on from the newest valid header.
LEMMA OpenStep == IInv /\ Open => Recoverable' /\ Working'
<1> SUFFICES ASSUME IInv, Open PROVE Recoverable' /\ Working'
  OBVIOUS
<1>1. Recoverable'
  BY RecoverableUnchanged DEF IInv, Open
<1>2. cache[lastSlot'].valid /\ lastSlot' \in Slots /\ lastSlot' = Chosen(cache)
  BY DEF Open, Chosen, NoSlot, Slots
<1>3. TargetOlder(cache)'
  <2>1. CASE NoHistory
    BY <1>2, <2>1 DEF Open, NoHistory, TargetOlder, Target, Slots
  <2>2. ASSUME NEW a \in Slots, Anchor(a) PROVE TargetOlder(cache)'
    BY <1>2, <2>2 DEF Open, Anchor, FitsBeside, Older, Other, TargetOlder, Target,
                      Chosen, NoSlot, Slots, IInv, TypeOK, Header
  <2> QED
    BY <2>1, <2>2 DEF IInv, Recoverable, Slots
<1>4. hdr'.frame = 0 \/ hdr'.frame \in durable
  <2>1. CASE NoHistory
    BY <1>2, <2>1 DEF Open, NoHistory, OnDisk
  <2>2. ASSUME NEW a \in Slots, Anchor(a) PROVE OnDisk(hdr'.frame)
    BY <1>2, <2>2 DEF Open, Anchor, FitsBeside, Older, Other, OnDisk,
                      Chosen, NoSlot, Slots, IInv, TypeOK, Header
  <2> QED
    BY <2>1, <2>2 DEF IInv, Recoverable, Slots, OnDisk
<1>5. hdr'.counter = cache[lastSlot'].counter /\ hdr'.frame >= cache[lastSlot'].frame
  BY <1>2 DEF Open, Slots, IInv, TypeOK, Header
<1> QED
  BY <1>1, <1>2, <1>3, <1>4, <1>5 DEF Open, Working, Recording

\* An empty file of which no header write is remembered fits the invariant.
LEMMA ReplaceStep ==
  ASSUME Replace, acked' = NoHeader
  PROVE  Recoverable' /\ Working' /\ NoHistory'
<1>1. ~cache'[0].valid /\ ~cache'[1].valid /\ ~disk'[0].valid /\ ~disk'[1].valid
  BY DEF Replace, Slots, Bad
<1>2. NoHistory'
  BY <1>1 DEF NoHistory, Slots
<1> QED
  BY <1>1, <1>2 DEF Replace, Recoverable, Working, Created

\* A file whose copies are both bad had none written with success: an empty
\* file in its place forgets nothing.
LEMMA CreateStep ==
  IInv /\ Create => Recoverable' /\ Working' /\ NoHistory /\ NoHistory'
<1> SUFFICES ASSUME IInv, Create
             PROVE  Recoverable' /\ Working' /\ NoHistory /\ NoHistory'
  OBVIOUS
<1>1. ~cache[0].valid /\ ~cache[1].valid
  BY DEF Create, Chosen, NoSlot
<1>2. NoHistory
  BY <1>1 DEF IInv, Recoverable, Anchor
<1> QED
  BY <1>2, ReplaceStep DEF Create, NoHistory

\* rp_write_frame touches neither copy of the header.
LEMMA RecordStep == IInv /\ RecordFrame => Recoverable' /\ Working'
<1> SUFFICES ASSUME IInv, RecordFrame PROVE Recoverable' /\ Working'
  OBVIOUS
<1>1. Recoverable'
  BY RecoverableUnchanged DEF IInv, RecordFrame
<1>2. Recording
  BY DEF IInv, Working, RecordFrame
<1>3. hdr'.frame = written + 1 /\ hdr'.counter = hdr.counter
  BY DEF RecordFrame, IInv, TypeOK
<1>4. hdr'.frame \in dirty'
  BY <1>3 DEF RecordFrame
<1>5. hdr'.frame >= cache[lastSlot].frame
  BY <1>3 DEF IInv, TypeOK, Bounded, Slots, Header
<1> QED
  BY <1>1, <1>2, <1>3, <1>4, <1>5
     DEF RecordFrame, Working, Recording, TargetOlder, Target

\* After the first sync the header that was written last cannot be harmed.
LEMMA SyncStep == IInv /\ SyncData => Recoverable' /\ Working'
<1> SUFFICES ASSUME IInv, SyncData PROVE Recoverable' /\ Working'
  OBVIOUS
<1>1. /\ hdr'.frame = hdr.frame /\ hdr'.counter = hdr.counter + 1
      /\ disk' = cache /\ cache' = cache /\ acked' = acked /\ lastSlot' = lastSlot
      /\ durable' = durable \cup dirty /\ Target' = Target
  BY DEF SyncData, IInv, TypeOK, Target
<1>2. CASE pc = "create"
  <2>1. Created
    BY <1>2 DEF IInv, Working
  <2>2. NoHistory'
    BY <2>1, <1>1 DEF Created, NoHistory, Slots
  <2>3. Writing' /\ cache'[Target'] = disk'[Target']
    BY <2>1, <2>2, <1>1 DEF Created, Writing, OnDisk, TargetOlder, Target, IInv, TypeOK, Slots
  <2> QED
    BY <2>2, <2>3 DEF SyncData, Recoverable, Working
<1>3. CASE pc = "record"
  <2>1. Recording
    BY <1>3 DEF IInv, Working
  <2>2. acked <= cache[lastSlot].frame
    <3>1. CASE NoHistory
      BY <3>1 DEF NoHistory, NoHeader, IInv, TypeOK, Header, Slots
    <3>2. ASSUME NEW a \in Slots, Anchor(a) PROVE acked <= cache[lastSlot].frame
      BY <2>1, <3>2 DEF Recording, TargetOlder, Target, Anchor, Other, FitsBeside, Older,
                        IInv, TypeOK, Header, Slots, NoHeader
    <3> QED
      BY <3>1, <3>2 DEF IInv, Recoverable, Slots
  <2>3. OnDisk(cache[lastSlot].frame)
    <3>1. CASE NoHistory
      BY <2>1, <3>1 DEF NoHistory, Recording, IInv, TypeOK
    <3>2. ASSUME NEW a \in Slots, Anchor(a) PROVE OnDisk(cache[lastSlot].frame)
      BY <2>1, <3>2 DEF Recording, TargetOlder, Target, Anchor, Other, FitsBeside, Older,
                        IInv, TypeOK, Header, Slots
    <3> QED
      BY <3>1, <3>2 DEF IInv, Recoverable, Slots
  <2>4. Anchor(lastSlot)'
    BY <2>1, <2>2, <2>3, <1>1
       DEF Anchor, Recording, TargetOlder, Target, Other, FitsBeside, OnDisk
  <2>5. Recoverable'
    BY <2>4, <1>1 DEF Recoverable, IInv, TypeOK, Slots
  <2>6. OnDisk(hdr.frame)'
    BY <2>1, <1>1 DEF Recording, OnDisk
  <2>7. Older(cache[lastSlot], hdr)'
    BY <2>1, <1>1 DEF Recording, Older, IInv, TypeOK, Header, Slots
  <2>8. Writing'
    BY <2>1, <2>4, <2>6, <2>7, <1>1 DEF Writing, Recording, TargetOlder, Older
  <2> QED
    BY <2>5, <2>8, <1>1 DEF SyncData, Working
<1> QED
  BY <1>2, <1>3 DEF SyncData

\* Writing the other copy leaves the anchor alone, whether the write is whole,
\* fails, or leaves a header that is not valid.
LEMMA PutStep ==
  ASSUME IInv, pc = "put", NEW h \in {NewHeader, cache[Target], Bad},
         cache' = [cache EXCEPT ![Target] = h],
         UNCHANGED <<hdr, lastSlot, disk, written, dirty, durable, file, acked>>
  PROVE  Recoverable' /\ Writing'
<1>1. Writing /\ cache[Target] = disk[Target]
  BY DEF IInv, Working
<1>2. /\ Target \in Slots /\ Target # lastSlot /\ lastSlot \in Slots
      /\ Target' = Target /\ Target = Other(lastSlot)
  BY DEF Target, Other, Slots, IInv, TypeOK
<1>3. cache'[Target] = h /\ cache'[lastSlot] = cache[lastSlot]
  BY <1>2 DEF IInv, TypeOK
<1>4. OnDisk(hdr.frame)' /\ cache'[lastSlot] = disk'[lastSlot]
  BY <1>1, <1>3 DEF Writing, OnDisk
<1>5. TargetOlder(disk)'
  BY <1>1, <1>2 DEF Writing, TargetOlder
<1>6. CASE Anchor(lastSlot)
  <2>1. FitsBeside(h, disk[lastSlot])'
    <3>1. CASE h = NewHeader
      BY <1>1, <1>6, <3>1 DEF Writing, NewHeader, FitsBeside, Older, Anchor, OnDisk
    <3>2. CASE h = cache[Target]
      BY <1>2, <1>6, <3>2 DEF Anchor, FitsBeside, Older, OnDisk
    <3>3. CASE h = Bad
      BY <3>3 DEF Bad, FitsBeside
    <3> QED
      BY <3>1, <3>2, <3>3
  <2>2. disk[Target].valid => Older(disk[Target], disk[lastSlot])
    BY <1>1 DEF Writing, TargetOlder
  <2>3. Anchor(lastSlot)'
    BY <1>2, <1>3, <1>6, <2>1, <2>2 DEF Anchor, FitsBeside, Older, OnDisk
  <2> QED
    BY <1>1, <1>2, <1>3, <1>4, <1>5, <2>3
       DEF Recoverable, Writing, Older, Slots
<1>7. CASE NoHistory /\ ~cache[lastSlot].valid
  <2>1. h.valid => OnDisk(h.frame)'
    BY <1>1, <1>2, <1>7 DEF Writing, NewHeader, Bad, NoHistory, OnDisk
  <2>2. NoHistory'
    BY <1>2, <1>3, <1>7, <2>1 DEF NoHistory, OnDisk, Slots
  <2> QED
    BY <1>3, <1>4, <1>5, <1>7, <2>2 DEF Recoverable, Writing
<1> QED
  BY <1>1, <1>6, <1>7 DEF Writing

\* Once the new copy is synced it is the anchor.
LEMMA FlushStep == IInv /\ FlushHeader => Recoverable' /\ Working'
<1> SUFFICES ASSUME IInv, FlushHeader PROVE Recoverable' /\ Working'
  OBVIOUS
<1>1. Writing /\ cache[Target] = NewHeader
  BY DEF IInv, Working, FlushHeader
<1>2. /\ lastSlot' = Target /\ Target' = lastSlot
      /\ Target \in Slots /\ lastSlot \in Slots /\ Other(Target) = lastSlot
  BY DEF Target, Other, Slots, IInv, TypeOK, FlushHeader
<1>3. /\ disk' = cache /\ cache' = cache /\ hdr' = hdr /\ acked' = hdr.frame
      /\ durable \subseteq durable'
  BY DEF FlushHeader
<1>4. OnDisk(hdr.frame)'
  BY <1>1, <1>3 DEF Writing, OnDisk
<1>5. cache[lastSlot].valid => Older(cache[lastSlot], cache[Target])
  BY <1>1 DEF Writing, NewHeader, Older
<1>6. cache[Target].valid /\ cache[Target].frame = hdr.frame
      /\ cache[Target].counter = hdr.counter /\ hdr.frame \in Int
  BY <1>1 DEF NewHeader, IInv, TypeOK
<1>7. Anchor(lastSlot)'
  BY <1>2, <1>3, <1>4, <1>5, <1>6 DEF Anchor, FitsBeside, Older, OnDisk
<1>8. Recoverable'
  BY <1>2, <1>7 DEF Recoverable, Slots
<1>9. Recording'
  BY <1>2, <1>3, <1>4, <1>5, <1>6 DEF Recording, TargetOlder, Older, OnDisk
<1> QED
  BY <1>8, <1>9 DEF FlushHeader, Working

\* No power failure harms the anchor, whichever of the other copy survives.
LEMMA PowerKeepsAnchor ==
  ASSUME IInv, PowerLoss, NEW a \in Slots, Anchor(a) PROVE Anchor(a)'
<1>1. /\ cache' = disk' /\ durable \subseteq durable' /\ acked' = acked
      /\ \A s \in Slots : disk'[s] \in {cache[s], disk[s], Bad}
                          /\ (cache[s] = disk[s] => disk'[s] = disk[s])
  BY PowerLossSlots DEF IInv
<1>2. Other(a) \in Slots
  BY DEF Other, Slots
<1>3. disk'[a] = disk[a]
  BY <1>1 DEF Anchor
<1>4. disk'[Other(a)] \in {cache[Other(a)], disk[Other(a)], Bad}
  BY <1>1, <1>2
<1>5. FitsBeside(disk[Other(a)], disk[a])'
  BY <1>1, <1>3, <1>4 DEF Anchor, FitsBeside, Older, OnDisk, Bad
<1> QED
  BY <1>1, <1>3, <1>5 DEF Anchor, OnDisk

\* After a power failure one sound copy remains, the newer one if both.
LEMMA PowerStep == IInv /\ PowerLoss => Recoverable' /\ Working'
<1> SUFFICES ASSUME IInv, PowerLoss PROVE Recoverable' /\ Working'
  OBVIOUS
<1>1. /\ cache' = disk' /\ durable \subseteq durable' /\ acked' = acked
      /\ \A s \in Slots : disk'[s] \in {cache[s], disk[s], Bad}
  BY PowerLossSlots DEF IInv
<1>2. ASSUME NoHistory PROVE Recoverable'
  <2>1. \A s \in Slots : disk'[s].valid => cache[s].valid /\ disk'[s] = cache[s]
    BY <1>1, <1>2 DEF NoHistory, Bad, Slots
  <2>2. CASE ~disk'[0].valid /\ ~disk'[1].valid
    <3>1. \A s \in Slots : ~cache'[s].valid /\ ~disk'[s].valid
      BY <1>1, <2>2 DEF Slots
    <3>2. NoHistory'
      BY <1>1, <1>2, <3>1 DEF NoHistory, Slots
    <3> QED
      BY <3>2 DEF Recoverable
  <2>3. ASSUME NEW s \in Slots, disk'[s].valid PROVE Anchor(s)'
    <3>1. ~disk'[Other(s)].valid
      BY <1>2, <2>1, <2>3 DEF NoHistory, Slots, Other
    <3>2. cache[s] \in Header
      BY DEF IInv, TypeOK
    <3>3. acked' <= disk'[s].frame /\ OnDisk(disk[s].frame)'
      BY <1>1, <1>2, <2>1, <2>3, <3>2 DEF NoHistory, NoHeader, OnDisk, Header
    <3> QED
      BY <1>1, <2>3, <3>1, <3>3 DEF Anchor, FitsBeside
  <2>4. (~disk'[0].valid /\ ~disk'[1].valid) \/ \E s \in Slots : disk'[s].valid
    BY DEF Slots
  <2>5. (\E s \in Slots : Anchor(s)') => Recoverable'
    BY DEF Recoverable, Slots
  <2> QED
    BY <2>2, <2>3, <2>4, <2>5
<1>3. Recoverable'
  BY <1>2, PowerKeepsAnchor DEF Recoverable, IInv, Slots
<1> QED
  BY <1>3 DEF PowerLoss, Working

\* Every call and every crash keeps the invariant.
LEMMA StepInv == IInv /\ [Next]_vars => IInv'
<1> SUFFICES ASSUME IInv, [Next]_vars PROVE IInv'
  OBVIOUS
<1>1. TypeOK' /\ Bounded'
  BY StepTypes, StepBounded DEF IInv
<1>2. CASE Open
  BY <1>1, <1>2, OpenStep DEF IInv
<1>3. CASE Create \/ ReadFails
  BY <1>1, <1>3, CreateStep, ReplaceStep DEF IInv, ReadFails
<1>4. CASE RecordFrame
  BY <1>1, <1>4, RecordStep DEF IInv
<1>5. CASE RecordFails \/ Kill
  <2>1. Recoverable'
    BY <1>5, RecoverableUnchanged DEF IInv, RecordFails, Kill
  <2> QED
    BY <1>1, <1>5, <2>1 DEF IInv, RecordFails, Kill, Working
<1>6. CASE SyncData
  BY <1>1, <1>6, SyncStep DEF IInv
<1>7. CASE PutHeader
  <2>1. Recoverable' /\ Writing'
    BY <1>7, PutStep DEF PutHeader
  <2>2. cache'[Target'] = NewHeader'
    BY <1>7 DEF PutHeader, Target, NewHeader, IInv, TypeOK, Slots
  <2> QED
    BY <1>1, <1>7, <2>1, <2>2 DEF IInv, PutHeader, Working
<1>8. CASE PutFails
  <2>1. Recoverable'
    BY <1>8, PutStep DEF PutFails
  <2> QED
    BY <1>1, <1>8, <2>1 DEF IInv, PutFails, Working
<1>9. CASE FlushHeader
  BY <1>1, <1>9, FlushStep DEF IInv
<1>10. CASE PowerLoss
  BY <1>1, <1>10, PowerStep DEF IInv
<1>11. CASE UNCHANGED vars
  <2>1. Recoverable'
    BY <1>11, RecoverableUnchanged DEF IInv, vars
  <2>2. Working'
    BY <1>11 DEF IInv, vars, Working, Created, Recording, Writing, TargetOlder, Target,
                 Older, NoHistory, Anchor, FitsBeside, OnDisk, NewHeader
  <2> QED
    BY <1>1, <2>1, <2>2 DEF IInv
<1> QED
  BY <1>2, <1>3, <1>4, <1>5, <1>6, <1>7, <1>8, <1>9, <1>10, <1>11 DEF Next

\* The anchor argument, as an invariant of every behaviour.
THEOREM Invariance == Spec => []IInv
BY InitInv, StepInv, PTL DEF Spec

-----------------------------------------------------------------------------
\* The variables of the model keep their types for every bound.
THEOREM TypeCorrect == Spec => []TypeOK
<1>1. IInv => TypeOK
  BY DEF IInv
<1> QED
  BY <1>1, Invariance, PTL

\* What is read back: nothing, an anchor, or a newer copy beside the anchor.
StoredIs ==
  /\ NoHistory => Stored = NoHeader
  /\ \A a \in Slots : Anchor(a) =>
       /\ Stored \in 0 .. MaxFrames /\ Stored >= disk[a].frame /\ OnDisk(Stored)
       /\ Stored # disk[a].frame =>
            /\ disk[Other(a)].valid /\ Stored = disk[Other(a)].frame
            /\ ~Older(disk[Other(a)], disk[a])

\* In a state of the invariant, what a recovery would read is known.
LEMMA StoredFacts == IInv => StoredIs
<1> SUFFICES ASSUME IInv PROVE StoredIs
  OBVIOUS
<1>1. NoHistory => Stored = NoHeader
  BY DEF NoHistory, Stored, Chosen, NoSlot
<1>2. ASSUME NEW a \in Slots, Anchor(a)
      PROVE  /\ Stored \in 0 .. MaxFrames /\ Stored >= disk[a].frame /\ OnDisk(Stored)
             /\ Stored # disk[a].frame =>
                  /\ disk[Other(a)].valid /\ Stored = disk[Other(a)].frame
                  /\ ~Older(disk[Other(a)], disk[a])
  <2>1. \A s \in Slots : disk[s].frame \in 0 .. MaxFrames /\ disk[s].counter \in Nat
    BY HdrAssumption DEF IInv, TypeOK, Bounded, Header, Slots
  <2>2. CASE Stored = disk[a].frame
    BY <1>2, <2>1, <2>2 DEF Anchor
  <2>3. CASE Stored # disk[a].frame
    <3>1. Chosen(disk) = Other(a) /\ disk[Other(a)].valid /\ Other(a) \in Slots
      <4>1. Other(a) \in Slots /\ disk[a].valid
        BY <1>2 DEF Other, Slots, Anchor
      <4>2. Chosen(disk) # a /\ Chosen(disk) # NoSlot
        BY <2>3, <4>1 DEF Stored, Chosen, NoSlot, Slots
      <4>3. Chosen(disk) = Other(a)
        BY <4>2 DEF Chosen, NoSlot, Other, Slots
      <4>4. Chosen(disk) \in Slots => disk[Chosen(disk)].valid
        BY DEF Chosen, NoSlot, Slots
      <4> QED
        BY <4>1, <4>3, <4>4
    <3>2. Stored = disk[Other(a)].frame
      BY <3>1 DEF Stored, NoSlot, Slots
    <3>3. ~Older(disk[Other(a)], disk[a])
      <4>1. disk[a].valid
        BY <1>2 DEF Anchor
      <4>2. disk[Other(a)].counter >= disk[a].counter
        <5>1. CASE a = 0
          BY <2>1, <3>1, <4>1, <5>1 DEF Chosen, NoSlot, Other, Slots
        <5>2. CASE a = 1
          BY <2>1, <3>1, <4>1, <5>2 DEF Chosen, NoSlot, Other, Slots
        <5> QED
          BY <5>1, <5>2 DEF Slots
      <4> QED
        BY <2>1, <3>1, <4>2 DEF Older
    <3>4. Older(disk[a], disk[Other(a)]) /\ OnDisk(disk[Other(a)].frame)
      BY <1>2, <3>1, <3>3 DEF Anchor, FitsBeside
    <3> QED
      BY <2>1, <3>1, <3>2, <3>3, <3>4 DEF Older
  <2> QED
    BY <2>2, <2>3
<1> QED
  BY <1>1, <1>2 DEF StoredIs

\* The same of the state after a step.
LEMMA StoredFactsNext == IInv' => StoredIs'
BY StoredFacts, PTL

\* For any number of frames and crashes, once rp_write_file_hdr has returned
\* success the recording up to that frame survives every later crash, until a
\* start fails to read the file.
THEOREM AckedKept == Spec => []AckedSurvives
<1>1. ASSUME IInv PROVE AckedSurvives
  <2>1. CASE NoHistory
    BY <1>1, <2>1, StoredFacts DEF StoredIs, NoHistory, AckedSurvives, NoHeader
  <2>2. ASSUME NEW a \in Slots, Anchor(a) PROVE AckedSurvives
    <3>1. Stored \in Int /\ Stored >= disk[a].frame
      BY <1>1, <2>2, StoredFacts DEF StoredIs
    <3>2. acked \in Int /\ disk[a].frame \in Int /\ acked <= disk[a].frame
      BY <1>1, <2>2 DEF IInv, TypeOK, Header, NoHeader, Anchor
    <3> QED
      BY <3>1, <3>2 DEF AckedSurvives
  <2> QED
    BY <1>1, <2>1, <2>2 DEF IInv, Recoverable, Slots
<1> QED
  BY <1>1, Invariance, PTL

\* For any number of frames and crashes, the frame that a recovered header
\* names had reached the disk before the header.
THEOREM NamedOnDisk == Spec => []NamedFrameDurable
<1>1. ASSUME IInv PROVE NamedFrameDurable
  <2>1. CASE NoHistory
    BY <1>1, <2>1, StoredFacts DEF StoredIs, NamedFrameDurable
  <2>2. ASSUME NEW a \in Slots, Anchor(a) PROVE NamedFrameDurable
    BY <1>1, <2>2, StoredFacts DEF StoredIs, NamedFrameDurable, OnDisk
  <2> QED
    BY <1>1, <2>1, <2>2 DEF IInv, Recoverable, Slots
<1> QED
  BY <1>1, Invariance, PTL

-----------------------------------------------------------------------------
(* The two copies implement one header that is replaced atomically.        *)

\* What a recovery would read is a value of the abstract header.
LEMMA StoredValue == IInv => Stored \in Store!Values
<1> SUFFICES ASSUME IInv PROVE Stored \in Store!Values
  OBVIOUS
<1>1. CASE NoHistory
  BY <1>1, StoredFacts DEF StoredIs, Store!Values, Store!NoHeader, NoHeader
<1>2. ASSUME NEW a \in Slots, Anchor(a) PROVE Stored \in Store!Values
  BY <1>2, StoredFacts DEF StoredIs, Store!Values
<1> QED
  BY <1>1, <1>2 DEF IInv, Recoverable, Slots

\* The same of the state after a step.
LEMMA StoredValueNext == IInv' => (Stored \in Store!Values)'
BY StoredValue, PTL

\* The first sync makes a newer header durable, or changes nothing.
LEMMA SyncAdvances == IInv /\ IInv' /\ SyncData => Stored' >= Stored
<1> SUFFICES ASSUME IInv, IInv', SyncData PROVE Stored' >= Stored
  OBVIOUS
<1>1. disk' = cache /\ Stored \in Int /\ Stored' \in Int
  BY StoredValue, StoredValueNext, HdrAssumption DEF SyncData, Store!Values, Store!NoHeader
<1>2. CASE NoHistory
  BY <1>1, <1>2, StoredFacts, StoredValueNext, HdrAssumption
     DEF StoredIs, Store!Values, Store!NoHeader, NoHeader
<1>3. ASSUME NEW a \in Slots, Anchor(a) PROVE Stored' >= Stored
  <2>1. Recording
    BY <1>3 DEF SyncData, IInv, Working, Created, NoHistory, Anchor, Slots
  <2>2. Other(a) \in Slots /\ lastSlot \in Slots /\ Target \in Slots
        /\ \A s \in Slots : /\ cache[s].frame \in Int /\ cache[s].counter \in Int
                            /\ disk[s].frame \in Int /\ disk[s].counter \in Int
    BY DEF IInv, TypeOK, Header, Slots, Other, Target
  <2>3. Stored' = cache[lastSlot].frame
    <3>1. CASE lastSlot = 0
      BY <1>1, <2>1, <2>2, <3>1
         DEF Stored, Chosen, NoSlot, Recording, TargetOlder, Target, Older, Slots
    <3>2. CASE lastSlot = 1
      BY <1>1, <2>1, <2>2, <3>2
         DEF Stored, Chosen, NoSlot, Recording, TargetOlder, Target, Older, Slots
    <3> QED
      BY <2>2, <3>1, <3>2 DEF Slots
  <2>4. CASE Stored = disk[a].frame
    <3>1. a = lastSlot \/ a = Target
      BY <2>2 DEF Target, Slots
    <3>2. disk[a].frame <= cache[lastSlot].frame
      BY <1>3, <2>1, <2>2, <3>1 DEF Anchor, Recording, TargetOlder, Older
    <3> QED
      BY <1>1, <2>3, <2>4, <3>2
  <2>5. CASE Stored # disk[a].frame
    <3>1. /\ disk[Other(a)].valid /\ Stored = disk[Other(a)].frame
          /\ ~Older(disk[Other(a)], disk[a])
      BY <1>3, <2>5, StoredFacts DEF StoredIs
    <3>2. cache[Other(a)] = disk[Other(a)] /\ cache[a] = disk[a]
      BY <1>3, <3>1 DEF Anchor
    <3>3. Other(a) = lastSlot \/ (Other(a) = Target /\ a = lastSlot)
      BY <2>2 DEF Target, Other, Slots
    <3>4. Other(a) = lastSlot
      BY <2>1, <3>1, <3>2, <3>3 DEF Recording, TargetOlder
    <3> QED
      BY <1>1, <2>2, <2>3, <3>1, <3>2, <3>4
  <2> QED
    BY <2>4, <2>5
<1> QED
  BY <1>2, <1>3 DEF IInv, Recoverable, Slots

\* A header write that returns has made its header the one read back.
LEMMA FlushStores ==
  IInv /\ FlushHeader => Stored' = hdr.frame /\ hdr.frame >= Stored
<1> SUFFICES ASSUME IInv, FlushHeader PROVE Stored' = hdr.frame /\ hdr.frame >= Stored
  OBVIOUS
<1>1. Writing /\ cache[Target] = NewHeader /\ disk' = cache
  BY DEF IInv, Working, FlushHeader
<1>2. lastSlot \in Slots /\ Target \in Slots
      /\ \A s \in Slots : /\ cache[s].frame \in Int /\ cache[s].counter \in Int
                          /\ disk[s].frame \in Int /\ disk[s].counter \in Int
      /\ hdr.frame \in Nat /\ hdr.counter \in Int
  BY HdrAssumption DEF IInv, TypeOK, Header, Slots, Target
<1>3. cache[Target].valid /\ cache[Target].counter = hdr.counter
      /\ cache[Target].frame = hdr.frame
  BY <1>1 DEF NewHeader
<1>4. cache[lastSlot].valid => cache[lastSlot].counter < hdr.counter
  BY <1>1 DEF Writing, Older
<1>5. Stored' = hdr.frame
  <2>1. CASE lastSlot = 0
    BY <1>1, <1>2, <1>3, <1>4, <2>1 DEF Stored, Chosen, NoSlot, Target, Slots
  <2>2. CASE lastSlot = 1
    BY <1>1, <1>2, <1>3, <1>4, <2>2 DEF Stored, Chosen, NoSlot, Target, Slots
  <2> QED
    BY <1>2, <2>1, <2>2 DEF Slots
<1>6. CASE NoHistory
  BY <1>2, <1>5, <1>6, StoredFacts DEF StoredIs, NoHeader
<1>7. CASE Anchor(lastSlot)
  <2>1. Other(lastSlot) = Target
    BY DEF Other, Target
  <2>2. Stored = disk[lastSlot].frame
    BY <1>1, <1>2, <1>7, <2>1, StoredFacts DEF StoredIs, Writing, TargetOlder
  <2> QED
    BY <1>1, <1>2, <1>5, <1>7, <2>2 DEF Writing, Older, Anchor
<1> QED
  BY <1>1, <1>6, <1>7 DEF Writing

\* A power failure may make a newer header durable and loses none.
LEMMA PowerAdvances == IInv /\ IInv' /\ PowerLoss => Stored' >= Stored
<1> SUFFICES ASSUME IInv, IInv', PowerLoss PROVE Stored' >= Stored
  OBVIOUS
<1>1. Stored \in Int /\ Stored' \in Int /\ Stored' >= NoHeader
  BY StoredValue, StoredValueNext, HdrAssumption DEF Store!Values, Store!NoHeader, NoHeader
<1>2. /\ disk' \in [Slots -> Header] /\ disk \in [Slots -> Header]
      /\ \A s \in Slots : disk'[s] \in {cache[s], disk[s], Bad}
                          /\ (cache[s] = disk[s] => disk'[s] = disk[s])
  BY PowerLossSlots DEF IInv, TypeOK
<1>3. CASE NoHistory
  BY <1>1, <1>3, StoredFacts DEF StoredIs
<1>4. ASSUME NEW a \in Slots, Anchor(a) PROVE Stored' >= Stored
  <2>1. disk'[a] = disk[a]
    BY <1>2, <1>4 DEF Anchor
  <2>2. CASE Stored = disk[a].frame
    <3>1. Anchor(a)'
      BY <1>4, PowerKeepsAnchor
    <3> QED
      BY <2>1, <2>2, <3>1, StoredFactsNext DEF StoredIs
  <2>3. CASE Stored # disk[a].frame
    <3>1. disk[Other(a)].valid /\ ~Older(disk[Other(a)], disk[a])
      BY <1>4, <2>3, StoredFacts DEF StoredIs
    <3>2. cache[Other(a)] = disk[Other(a)]
      BY <1>4, <3>1 DEF Anchor
    <3>3. disk'[Other(a)] = disk[Other(a)]
      BY <1>2, <3>2 DEF Other, Slots
    <3>4. disk'[0] = disk[0] /\ disk'[1] = disk[1]
      BY <2>1, <3>3 DEF Other, Slots
    <3>5. Stored' = Stored
      BY <1>2, <3>4 DEF Stored, Chosen, NoSlot, Slots
    <3> QED
      BY <1>1, <3>5
  <2> QED
    BY <2>2, <2>3
<1> QED
  BY <1>3, <1>4 DEF IInv, Recoverable, Slots

\* The header of rp.dat, kept in two copies, implements one that is replaced
\* atomically, that no crash takes back and that is kept once acknowledged; a
\* file that cannot be read is given up as a whole.
THEOREM Refinement == Spec => ImplementsHeaderStore
<1>1. Init => Store!Init
  BY DEF Init, Store!Init, Stored, Chosen, NoSlot, Bad, Slots, NoHeader, Store!NoHeader
<1>2. IInv /\ IInv' /\ [Next]_vars => [Store!Next]_(Store!vars)
  <2> SUFFICES ASSUME IInv, IInv', [Next]_vars PROVE [Store!Next]_(Store!vars)
    OBVIOUS
  <2>1. CASE Open \/ RecordFrame \/ RecordFails \/ PutHeader \/ PutFails \/ Kill
             \/ UNCHANGED vars
    BY <2>1 DEF Open, RecordFrame, RecordFails, PutHeader, PutFails, Kill, vars,
                Stored, Store!vars
  <2>2. CASE Create
    <3>1. NoHistory /\ NoHistory'
      BY <2>2, CreateStep
    <3>2. Stored = NoHeader /\ Stored' = NoHeader
      BY <3>1 DEF NoHistory, Stored, Chosen, NoSlot
    <3> QED
      BY <2>2, <3>2 DEF Create, Store!vars
  <2>6. CASE ReadFails
    <3>1. Stored' = NoHeader
      BY <2>6, ReplaceStep DEF ReadFails, NoHistory, Stored, Chosen, NoSlot
    <3> QED
      BY <2>6, <3>1 DEF ReadFails, NoHeader, Store!NoHeader, Store!NewFile, Store!Next
  <2>3. CASE SyncData
    BY <2>3, SyncAdvances, StoredValueNext DEF SyncData, Store!Next, Store!Store
  <2>4. CASE FlushHeader
    <3>1. Store!StoreAck(hdr.frame)
      BY <2>4, FlushStores DEF FlushHeader, Store!StoreAck
    <3>2. hdr.frame \in Store!Values
      BY DEF IInv, TypeOK, Store!Values
    <3> QED
      BY <3>1, <3>2 DEF Store!Next
  <2>5. CASE PowerLoss
    BY <2>5, PowerAdvances, StoredValueNext DEF PowerLoss, Store!Next, Store!Store
  <2> QED
    BY <2>1, <2>2, <2>3, <2>4, <2>5, <2>6 DEF Next
<1> QED
  BY <1>1, <1>2, Invariance, PTL DEF Spec, ImplementsHeaderStore, Store!Spec

=============================================================================
