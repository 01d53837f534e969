--------------------------- MODULE CamFramesProofs ---------------------------
(***************************************************************************)
(* The arrays of cam_thread, for groups of any size and any number of      *)
(* frames that motion or silence last.                                     *)
(***************************************************************************)
EXTENDS CamFrames, TLAPS

\* frames received and kept, but for one whose buffer could not be requeued
Kept == IF newArr[nfa] = None THEN recvd ELSE recvd - 1

\* the last frame of the last complete group
Group0 == Kept - nfa

NewOK ==
  /\ \A s \in Slots : s < nfa => newArr[s] = Group0 + 1 + s
  /\ \A s \in Slots : s > nfa => newArr[s] = None
  /\ newArr[nfa] \in {None, recvd}
  /\ newArr[nfa] # None => needed /\ pc = "run"
  /\ Group0 >= 0

\* what is left of the last group is at and after pfa_idx, its end included
ProcOf(arr, p, g) ==
  /\ \A s \in Slots : arr[s] = None \/ (s >= p /\ arr[s] = g - Interval + 1 + s)
  /\ p < Interval => arr[Interval - 1] = g /\ g >= Interval

InStep == pfa = Interval \/ pfa = nfa + 1

HeapOK == heap = Held(newArr) \cup Held(procArr)

\* how far the last frame handed over is behind
LastOK ==
  /\ lastProc <= Group0 /\ Group0 <= lastProc + Silence
  /\ pfa = Interval => last = lastProc
  /\ pfa < Interval => lastProc = Group0 /\ Group0 - Interval - Silence <= last
  /\ last = None \/ last + Interval - 1 <= recvd

ArraysOK == NewOK /\ ProcOf(procArr, pfa, Group0) /\ InStep /\ HeapOK /\ LastOK

IInv == TypeOK /\ ArraysOK

-----------------------------------------------------------------------------
(* The state after INIT_LOCAL_VARS. *)

Cleared ==
  /\ recvd = 0 /\ lastProc = 0 /\ newArr = NoFrames /\ nfa = 0 /\ procArr = NoFrames
  /\ pfa = Interval /\ heap = {} /\ last = None

LEMMA ClearedOK == Cleared => ArraysOK
<1>. SUFFICES ASSUME Cleared PROVE ArraysOK
  OBVIOUS
<1>1. Interval \in Nat /\ Interval > 0 /\ 0 \in Slots /\ Silence \in Nat
  BY CamAssumption DEF Slots
<1>2. \A s \in Slots : newArr[s] = None /\ procArr[s] = None
  BY DEF Cleared, NoFrames
<1>3. Group0 = 0
  BY <1>1, <1>2 DEF Group0, Kept, Cleared
<1>4. Held(newArr) = {} /\ Held(procArr) = {}
  BY <1>2 DEF Held
<1>. QED
  BY <1>1, <1>2, <1>3, <1>4 DEF Cleared, ArraysOK, NewOK, ProcOf, InStep, HeapOK, LastOK, None, Slots

\* the part of the types that the arrays make up
ArrayTypes ==
  /\ recvd \in 0 .. MaxFrames /\ lastProc \in 0 .. recvd
  /\ newArr \in [Slots -> {None} \cup Numbers] /\ nfa \in Slots
  /\ procArr \in [Slots -> {None} \cup Numbers] /\ pfa \in 0 .. Interval
  /\ heap \in SUBSET Numbers /\ last \in {None} \cup Numbers

\* and the rest
OtherTypes ==
  /\ pc \in {"open", "run"} /\ needed \in BOOLEAN
  /\ res \in {NoRes} \cup ResValues /\ format \in {NoRes} \cup ResValues
  /\ lastMotion \in 0 .. recvd
  /\ gs \in BOOLEAN
  /\ config \in ResValues
  /\ change \in [Clients -> [pc : {"idle", "test", "store"}, to : ResValues]]
  /\ changes \in Nat

LEMMA TypesSplit == TypeOK <=> ArrayTypes /\ OtherTypes
BY DEF TypeOK, ArrayTypes, OtherTypes

LEMMA ClearedTypes == Cleared => ArrayTypes
<1>. SUFFICES ASSUME Cleared PROVE ArrayTypes
  OBVIOUS
<1>1. 0 \in Slots /\ Interval \in 0 .. Interval /\ 0 \in 0 .. MaxFrames /\ 0 \in 0 .. 0
  BY CamAssumption DEF Slots
<1>2. NoFrames \in [Slots -> {None} \cup Numbers]
  BY DEF NoFrames
<1>. QED
  BY <1>1, <1>2 DEF Cleared, ArrayTypes

LEMMA InitIInv == Init => IInv
<1>. SUFFICES ASSUME Init PROVE IInv
  OBVIOUS
<1>1. Cleared
  BY DEF Init, Cleared
<1>2. lastMotion \in 0 .. recvd /\ changes \in Nat
  BY DEF Init
<1>3. change \in [Clients -> [pc : {"idle", "test", "store"}, to : ResValues]]
  BY DEF Init, ResValues
<1>4. pc \in {"open", "run"} /\ needed \in BOOLEAN /\ gs \in BOOLEAN /\ config \in ResValues
      /\ res \in {NoRes} \cup ResValues /\ format \in {NoRes} \cup ResValues
  BY DEF Init
<1>5. OtherTypes
  BY <1>2, <1>3, <1>4 DEF OtherTypes
<1>. QED
  BY <1>1, <1>5, ClearedOK, ClearedTypes, TypesSplit DEF IInv

\* The frames of the arrays are different.
LEMMA Disjoint ==
  ASSUME IInv
  PROVE  /\ Held(newArr) \cap Held(procArr) = {}
         /\ \A arr \in {newArr, procArr} : \A s, t \in Slots :
              arr[s] = arr[t] /\ arr[s] # None => s = t
         /\ Held(newArr) \cup Held(procArr) \subseteq 1 .. recvd
<1>1. /\ Interval \in Nat /\ Interval > 0 /\ nfa \in 0 .. Interval - 1 /\ recvd \in Nat
      /\ Group0 \in Int /\ Group0 >= 0 /\ Group0 + nfa <= recvd
      /\ newArr[nfa] # None => Group0 + nfa = recvd - 1
      /\ pfa \in 0 .. Interval
  BY CamAssumption DEF IInv, ArraysOK, TypeOK, NewOK, Slots, Kept, Group0
<1>2. \A s \in Slots : newArr[s] # None => newArr[s] = Group0 + 1 + s /\ Group0 + 1 + s <= recvd
  BY <1>1 DEF IInv, ArraysOK, NewOK, Slots
<1>3. \A s \in Slots : procArr[s] # None =>
        procArr[s] = Group0 - Interval + 1 + s /\ Group0 >= Interval
  BY <1>1 DEF IInv, ArraysOK, ProcOf, Slots
<1>. HIDE DEF Group0
<1>4. ASSUME NEW s \in Slots, NEW t \in Slots, newArr[s] # None PROVE newArr[s] # procArr[t]
  BY <1>1, <1>2, <1>3, <1>4 DEF Slots, None
<1>5. ASSUME NEW s \in Slots
      PROVE  /\ newArr[s] # None => newArr[s] \in 1 .. recvd
             /\ procArr[s] # None => procArr[s] \in 1 .. recvd
  BY <1>1, <1>2, <1>3 DEF Slots, None
<1>6. \A arr \in {newArr, procArr} : \A s, t \in Slots : arr[s] = arr[t] /\ arr[s] # None => s = t
  BY <1>1, <1>2, <1>3 DEF Slots
<1>. QED
  BY <1>4, <1>5, <1>6 DEF Held

\* Handing over an entry takes it out of its array and off the heap.
LEMMA HandedOver ==
  ASSUME NEW arr \in [Slots -> {None} \cup Numbers], NEW p \in 0 .. Interval, NEW h, NEW H,
         NEW g \in Nat, ProcOf(arr, p, g), h = H \cup Held(arr), H \cap Held(arr) = {},
         None \notin H,
         HandOver(arr, p, h)
  PROVE  /\ procArr' \in [Slots -> {None} \cup Numbers]
         /\ pfa' = (IF p = Interval THEN p ELSE p + 1) /\ pfa' \in 0 .. Interval
         /\ ProcOf(procArr', pfa', g)
         /\ heap' = H \cup Held(procArr')
         /\ last' = IF p = Interval \/ arr[p] = None THEN last ELSE arr[p]
<1>1. Interval \in Nat /\ Interval > 0
  BY CamAssumption
<1>2. CASE p = Interval
  BY <1>1, <1>2 DEF HandOver
<1>3. CASE p # Interval
  <2>1. p \in Slots /\ pfa' = p + 1 /\ procArr' = [arr EXCEPT ![p] = None]
        /\ heap' = h \ {arr[p]} /\ last' = IF arr[p] = None THEN last ELSE arr[p]
    BY <1>1, <1>3 DEF HandOver, Slots
  <2>2. procArr' \in [Slots -> {None} \cup Numbers]
    BY <2>1
  <2>3. procArr'[p] = None /\ \A s \in Slots \ {p} : procArr'[s] = arr[s]
    BY <2>1
  <2>4. ProcOf(procArr', pfa', g)
    BY <1>1, <1>3, <2>1, <2>3 DEF ProcOf, Slots
  <2>5. ASSUME NEW s \in Slots, NEW t \in Slots, arr[s] = arr[t], arr[s] # None PROVE s = t
    BY <1>1, <2>5 DEF ProcOf, Slots
  <2>6. Held(procArr') = Held(arr) \ {arr[p]}
    <3>1. ASSUME NEW s \in Slots, arr[s] # None, arr[s] # arr[p] PROVE procArr'[s] = arr[s]
      BY <2>3, <3>1
    <3>2. ASSUME NEW s \in Slots, procArr'[s] # None
          PROVE  procArr'[s] = arr[s] /\ arr[s] # arr[p]
      BY <2>1, <2>3, <2>5, <3>2
    <3>. QED
      BY <3>1, <3>2 DEF Held
  <2>7. arr[p] \notin H
    <3>1. CASE arr[p] = None
      BY <3>1
    <3>2. CASE arr[p] # None
      BY <2>1, <3>2 DEF Held
    <3>. QED
      BY <3>1, <3>2
  <2>8. heap' = H \cup Held(procArr')
    BY <2>1, <2>6, <2>7
  <2>9. last' = IF p = Interval \/ arr[p] = None THEN last ELSE arr[p]
    BY <1>3, <2>1
  <2>10. pfa' = (IF p = Interval THEN p ELSE p + 1) /\ pfa' \in 0 .. Interval
    BY <1>1, <1>3, <2>1
  <2>. QED
    BY <2>2, <2>4, <2>8, <2>9, <2>10
<1>. QED
  BY <1>2, <1>3

-----------------------------------------------------------------------------
(* Steps that leave the arrays alone, and the initialization. *)

LEMMA Untouched ==
  ASSUME IInv, UNCHANGED <<recvd, lastProc, arrays>>,
         newArr[nfa] # None => needed' /\ pc' = "run"
  PROVE  ArraysOK'
<1>1. UNCHANGED <<recvd, lastProc, newArr, nfa, procArr, pfa, heap, last>>
  BY DEF arrays
<1>2. Group0' = Group0 /\ Held(newArr)' = Held(newArr) /\ Held(procArr)' = Held(procArr)
  BY <1>1 DEF Group0, Kept, Held
<1>3. NewOK'
  BY <1>1, <1>2 DEF IInv, ArraysOK, NewOK
<1>4. ProcOf(procArr, pfa, Group0)'
  BY <1>1, <1>2 DEF IInv, ArraysOK, ProcOf
<1>5. InStep' /\ HeapOK' /\ LastOK'
  BY <1>1, <1>2 DEF IInv, ArraysOK, InStep, HeapOK, LastOK
<1>. QED
  BY <1>3, <1>4, <1>5 DEF ArraysOK

LEMMA ChangeStep ==
  ASSUME IInv, NEW c \in Clients, Change(c) PROVE IInv'
<1>. USE DEF IInv
<1>1. UNCHANGED <<cam, counts, arrays>>
  BY DEF Change, ChangeRes, ChangeTest, ChangeStore
<1>2. ArraysOK'
  BY <1>1, Untouched DEF cam, counts, ArraysOK, NewOK
<1>3. config' \in ResValues /\ changes' \in Nat
      /\ change' \in [Clients -> [pc : {"idle", "test", "store"}, to : ResValues]]
  <2>1. \A l \in {"idle", "test", "store"}, v \in ResValues :
          Goto(c, l, v) => change' \in [Clients -> [pc : {"idle", "test", "store"}, to : ResValues]]
    BY DEF TypeOK, Goto
  <2>2. 0 \in ResValues /\ 1 \in ResValues /\ 2 \in ResValues
    BY DEF ResValues
  <2>3. CASE ChangeRes(c)
    BY <2>1, <2>2, <2>3 DEF TypeOK, ChangeRes
  <2>4. CASE ChangeTest(c)
    BY <2>1, <2>2, <2>4 DEF TypeOK, ChangeTest
  <2>5. CASE ChangeStore(c)
    BY <2>1, <2>2, <2>5 DEF TypeOK, ChangeStore
  <2>. QED
    BY <2>3, <2>4, <2>5 DEF Change
<1>. QED
  BY <1>1, <1>2, <1>3 DEF TypeOK, cam, counts, arrays

LEMMA OpenStep == ASSUME IInv, CamOpen PROVE IInv'
<1>. USE DEF IInv
<1>1. Cleared'
  <2>1. heap' = {}
    BY DEF CamOpen, Freed, ArraysOK, HeapOK
  <2>. QED
    BY <2>1 DEF CamOpen, Cleared
<1>2. ArraysOK' /\ ArrayTypes'
  BY <1>1, ClearedOK, ClearedTypes, PTL
<1>3. OtherTypes'
  <2>1. lastMotion' \in 0 .. recvd'
    BY DEF CamOpen
  <2>2. OtherTypes
    BY TypesSplit
  <2>. QED
    BY <2>1, <2>2 DEF CamOpen, OtherTypes, setting
<1>4. TypeOK'
  BY <1>2, <1>3, TypesSplit, PTL
<1>. QED
  BY <1>2, <1>4

\* No pass is made and nothing else is done with the arrays.
LEMMA OtherStep ==
  ASSUME IInv, CamOpened \/ CamFails \/ UNCHANGED vars PROVE IInv'
<1>1. UNCHANGED <<counts, arrays, setting>>
  BY DEF CamOpened, CamFails, vars
<1>2. TypeOK'
  <2>. USE DEF TypeOK, counts, arrays, setting
  <2>1. CASE CamOpened
    BY <1>1, <2>1 DEF IInv, CamOpened
  <2>2. CASE CamFails
    BY <1>1, <2>2 DEF IInv, CamFails
  <2>3. CASE UNCHANGED vars
    BY <2>3 DEF IInv, vars, cam
  <2>. QED
    BY <2>1, <2>2, <2>3
<1>3. newArr[nfa] # None => needed' /\ pc' = "run"
  BY DEF IInv, ArraysOK, NewOK, CamOpened, CamFails, Ready, vars, cam
<1>. QED
  BY <1>1, <1>2, <1>3, Untouched DEF IInv, counts

-----------------------------------------------------------------------------
(* Passes that keep a frame. *)

\* what they find
LEMMA PassFacts ==
  ASSUME IInv, Ready, recvd < MaxFrames
  PROVE  /\ Interval \in Nat /\ Interval > 0 /\ nfa \in 0 .. Interval - 1 /\ nfa \in Slots
         /\ recvd \in Nat /\ lastProc \in Nat
         /\ recvd + 1 \in Numbers /\ recvd + 1 # None
         /\ newArr[nfa] = None /\ Group0 = recvd - nfa /\ Group0 \in Nat
         /\ Store(recvd + 1) \in [Slots -> {None} \cup Numbers]
         /\ \A s \in Slots : s <= nfa => Store(recvd + 1)[s] = Group0 + 1 + s
         /\ \A s \in Slots : s > nfa => Store(recvd + 1)[s] = None
         /\ Held(Store(recvd + 1)) = Held(newArr) \cup {recvd + 1}
         /\ recvd + 1 \notin heap
<1>1. Interval \in Nat /\ Interval > 0 /\ nfa \in Slots /\ nfa \in 0 .. Interval - 1
      /\ recvd \in Nat /\ lastProc \in Nat /\ MaxFrames \in Nat
  BY CamAssumption DEF IInv, TypeOK, Slots
<1>2. recvd + 1 \in Numbers /\ recvd + 1 # None
  BY <1>1 DEF Numbers, None
<1>3. newArr[nfa] = None
  BY DEF IInv, ArraysOK, NewOK, Ready, InitDue
<1>4. Group0 = recvd - nfa /\ Group0 \in Nat
  BY <1>1, <1>3 DEF Group0, Kept, IInv, ArraysOK, NewOK
<1>5. Store(recvd + 1) \in [Slots -> {None} \cup Numbers]
  BY <1>1, <1>2 DEF Store, IInv, TypeOK
<1>6. Store(recvd + 1)[nfa] = recvd + 1
      /\ \A s \in Slots \ {nfa} : Store(recvd + 1)[s] = newArr[s]
  BY <1>1 DEF Store, IInv, TypeOK
<1>7. /\ \A s \in Slots : s <= nfa => Store(recvd + 1)[s] = Group0 + 1 + s
      /\ \A s \in Slots : s > nfa => Store(recvd + 1)[s] = None
  BY <1>1, <1>4, <1>6 DEF IInv, ArraysOK, NewOK, Slots
<1>8. Held(Store(recvd + 1)) = Held(newArr) \cup {recvd + 1}
  <2>1. \A s \in Slots : Store(recvd + 1)[s] = IF s = nfa THEN recvd + 1 ELSE newArr[s]
    BY <1>6
  <2>. QED
    BY <1>1, <1>2, <1>3, <2>1 DEF Held
<1>9. recvd + 1 \notin heap
  BY <1>1, Disjoint DEF IInv, ArraysOK, HeapOK
<1>. QED
  BY <1>1, <1>2, <1>3, <1>4, <1>5, <1>7, <1>8, <1>9

LEMMA RequeueFailsStep == ASSUME IInv, CamRequeueFails PROVE IInv'
<1>1. Ready /\ recvd < MaxFrames /\ recvd' = recvd + 1 /\ newArr' = Store(recvd + 1)
      /\ heap' = heap \cup {recvd + 1} /\ needed' = TRUE /\ pc' = "run"
      /\ UNCHANGED <<lastProc, nfa, procArr, pfa, last>>
  BY DEF CamRequeueFails, Ready
<1>2. newArr'[nfa'] = recvd + 1 /\ Group0' = Group0
  BY <1>1, PassFacts DEF Group0, Kept
<1>. HIDE DEF Group0
<1>3. NewOK'
  <2>1. /\ \A s \in Slots : s < nfa' => newArr'[s] = Group0' + 1 + s
        /\ \A s \in Slots : s > nfa' => newArr'[s] = None
    BY <1>1, <1>2, PassFacts DEF Slots
  <2>2. newArr'[nfa'] \in {None, recvd'} /\ Group0' >= 0
    BY <1>1, <1>2, PassFacts
  <2>3. needed' /\ pc' = "run"
    BY <1>1
  <2>. QED
    BY <2>1, <2>2, <2>3 DEF NewOK
<1>4. ProcOf(procArr, pfa, Group0)' /\ InStep'
  BY <1>1, <1>2 DEF IInv, ArraysOK, ProcOf, InStep
<1>5. HeapOK'
  <2>1. Held(newArr)' = Held(newArr) \cup {recvd + 1}
    BY <1>1, PassFacts DEF Held
  <2>2. Held(procArr)' = Held(procArr)
    BY <1>1 DEF Held
  <2>. QED
    BY <1>1, <2>1, <2>2 DEF IInv, ArraysOK, HeapOK
<1>6. LastOK'
  BY <1>1, <1>2, PassFacts, CamAssumption DEF IInv, ArraysOK, LastOK, TypeOK, Numbers
<1>7. TypeOK'
  <2>1. ArrayTypes'
    BY <1>1, PassFacts, CamAssumption DEF IInv, TypeOK, ArrayTypes, Numbers
  <2>2. OtherTypes'
    <3>1. lastMotion' \in 0 .. recvd'
      BY <1>1, CamAssumption DEF CamRequeueFails, IInv, TypeOK
    <3>. QED
      BY <3>1 DEF CamRequeueFails, IInv, TypeOK, OtherTypes, setting
  <2>. QED
    BY <2>1, <2>2, TypesSplit, PTL
<1>. QED
  BY <1>3, <1>4, <1>5, <1>6, <1>7 DEF IInv, ArraysOK

\* What a pass does that keeps a frame and hands one over from arr at p: g is
\* the last frame of the last complete group afterwards.
Filled(arr, k, g) ==
  \A s \in Slots : arr[s] = IF s < k THEN g + 1 + s ELSE None

LEMMA KeptAndHandedOver ==
  ASSUME IInv, NEW arr \in [Slots -> {None} \cup Numbers], NEW p \in 0 .. Interval,
         NEW g \in Nat, NEW k \in Slots, NEW r \in Numbers, NEW lp \in Nat,
         NEW new \in [Slots -> {None} \cup Numbers],
         recvd' = r, nfa' = k, lastProc' = lp, newArr' = new,
         HandOver(arr, p, Held(new) \cup Held(arr)), ProcOf(arr, p, g),
         p = Interval \/ p = k, r = g + k, Filled(new, k, g),
         lp <= g, g <= lp + Silence,
         p = Interval => last = lp,
         p < Interval => lp = g /\ g - Interval - Silence <= last,
         last = None \/ last + Interval <= r
  PROVE  ArrayTypes' /\ ArraysOK'
<1>1. Interval \in Nat /\ Interval > 0 /\ Silence \in Nat /\ k \in 0 .. Interval - 1
      /\ MaxFrames \in Nat /\ r \in 1 .. MaxFrames /\ last \in Nat
  BY CamAssumption DEF Slots, Numbers, IInv, TypeOK, None
<1>2. new[k] = None /\ Group0' = g
  <2>1. new[k] = None
    BY <1>1 DEF Filled, Slots
  <2>. QED
    BY <1>1, <2>1 DEF Group0, Kept
<1>3. Held(new) \cap Held(arr) = {} /\ None \notin Held(new)
  <2>1. ASSUME NEW s \in Slots, NEW t \in Slots, new[s] # None
        PROVE  new[s] # arr[t]
    <3>1. new[s] = g + 1 + s
      BY <1>1, <2>1 DEF Slots, Filled
    <3>2. arr[t] = None \/ arr[t] = g - Interval + 1 + t
      BY DEF ProcOf
    <3>. QED
      BY <1>1, <2>1, <3>1, <3>2 DEF Slots
  <2>. QED
    BY <2>1 DEF Held
<1>4. /\ procArr' \in [Slots -> {None} \cup Numbers]
      /\ pfa' = (IF p = Interval THEN p ELSE p + 1) /\ pfa' \in 0 .. Interval
      /\ ProcOf(procArr', pfa', g)
      /\ heap' = Held(new) \cup Held(procArr')
      /\ last' = IF p = Interval \/ arr[p] = None THEN last ELSE arr[p]
  BY <1>3, HandedOver
<1>5. PICK l \in Nat, q \in 0 .. Interval : last' = l /\ pfa' = q
                                     /\ q = (IF p = Interval THEN p ELSE p + 1)
                                     /\ l \in {None} \cup Numbers
  <2>1. last' = last \/ (p \in Slots /\ last' = arr[p])
    BY <1>1, <1>4 DEF Slots
  <2>2. last' \in {None} \cup Numbers
    BY <2>1 DEF IInv, TypeOK
  <2>. QED
    BY <1>4, <2>2 DEF None, Numbers
<1>6. ArrayTypes'
  <2>1. heap' \in SUBSET Numbers
    BY <1>4 DEF Held
  <2>2. r \in 0 .. MaxFrames /\ lp \in 0 .. r
    BY <1>1
  <2>. QED
    BY <1>4, <1>5, <2>1, <2>2 DEF ArrayTypes
<1>7. NewOK'
  <2>1. \A s \in Slots : s < k => new[s] = g + 1 + s
    BY DEF Filled
  <2>2. \A s \in Slots : s > k => new[s] = None
    BY <1>1 DEF Slots, Filled
  <2>3. g >= 0
    OBVIOUS
  <2>. QED
    BY <1>2, <2>1, <2>2, <2>3 DEF NewOK
<1>8. ProcOf(procArr, pfa, Group0)'
  BY <1>2, <1>4 DEF ProcOf
<1>9. InStep'
  BY <1>1, <1>5 DEF InStep
<1>10. HeapOK'
  BY <1>4 DEF HeapOK, Held
<1>11. LastOK'
  <2>1. /\ q = Interval => l = lp
        /\ q < Interval => lp = g /\ g - Interval - Silence <= l
        /\ l = None \/ l + Interval - 1 <= r
    <3>1. CASE p = Interval
      BY <1>1, <1>4, <1>5, <3>1
    <3>2. CASE p < Interval
      <4>1. p = k /\ p \in Slots /\ q = p + 1
        BY <1>1, <1>5, <3>2 DEF Slots
      <4>2. arr[p] = None \/ arr[p] = g - Interval + 1 + p
        BY <4>1 DEF ProcOf
      <4>3. p = Interval - 1 => arr[p] = g /\ g # None
        BY <1>1, <3>2 DEF ProcOf, None
      <4>4. CASE arr[p] = None
        <5>1. l = last
          BY <1>4, <1>5, <4>4
        <5>. QED
          BY <1>1, <3>2, <4>1, <4>3, <4>4, <5>1
      <4>5. CASE arr[p] # None
        <5>1. l = g - Interval + 1 + p
          BY <1>4, <1>5, <3>2, <4>2, <4>5
        <5>. QED
          BY <1>1, <3>2, <4>1, <5>1
      <4>. QED
        BY <4>4, <4>5
    <3>. QED
      BY <1>1, <3>1, <3>2
  <2>. QED
    BY <1>2, <1>5, <2>1 DEF LastOK
<1>. QED
  BY <1>6, <1>7, <1>8, <1>9, <1>10, <1>11 DEF ArraysOK

LEMMA KeepStep == ASSUME IInv, CamKeep PROVE IInv'
<1>1. Ready /\ recvd < MaxFrames /\ nfa + 1 < Interval /\ recvd' = recvd + 1
      /\ nfa' = nfa + 1 /\ lastProc' = lastProc /\ newArr' = Store(recvd + 1)
      /\ HandOver(procArr, pfa, heap \cup {recvd + 1})
  BY DEF CamKeep
<1>2. Interval \in Nat /\ Silence \in Nat
  BY CamAssumption
<1>3. /\ procArr \in [Slots -> {None} \cup Numbers] /\ pfa \in 0 .. Interval
      /\ ProcOf(procArr, pfa, Group0) /\ last \in Nat /\ lastProc \in Nat
      /\ pfa = Interval \/ pfa = nfa + 1
  BY CamAssumption DEF IInv, TypeOK, ArraysOK, InStep, Numbers, None
<1>4. nfa + 1 \in Slots /\ recvd + 1 = Group0 + (nfa + 1)
  BY <1>1, <1>2, PassFacts DEF Slots
<1>5. heap \cup {recvd + 1} = Held(Store(recvd + 1)) \cup Held(procArr)
  BY <1>1, PassFacts DEF IInv, ArraysOK, HeapOK
<1>6. /\ lastProc <= Group0 /\ Group0 <= lastProc + Silence
      /\ pfa = Interval => last = lastProc
      /\ pfa < Interval => lastProc = Group0 /\ Group0 - Interval - Silence <= last
      /\ last = None \/ last + Interval - 1 <= recvd
  BY DEF IInv, ArraysOK, LastOK
<1>7. last = None \/ last + Interval <= recvd + 1
  BY <1>1, <1>2, <1>3, <1>6, PassFacts
<1>8. Filled(Store(recvd + 1), nfa + 1, Group0)
  <2>1. \A s \in Slots : (s < nfa + 1 <=> s <= nfa) /\ (~(s <= nfa) <=> s > nfa)
    BY <1>1, <1>2, PassFacts DEF Slots
  <2>. QED
    BY <1>1, <2>1, PassFacts DEF Filled
<1>9. ArrayTypes' /\ ArraysOK'
  BY <1>1, <1>3, <1>4, <1>5, <1>6, <1>7, <1>8, PassFacts, KeptAndHandedOver
<1>10. OtherTypes'
  <2>1. lastMotion' \in 0 .. recvd'
    BY <1>1 DEF CamKeep, counts, IInv, TypeOK
  <2>. QED
    BY <2>1 DEF CamKeep, cam, setting, IInv, TypeOK, OtherTypes
<1>. QED
  BY <1>9, <1>10, TypesSplit, PTL DEF IInv

\* The frame completes a group: the last one has been handed over, and what is
\* chosen of this one takes its place.
LEMMA GroupStep ==
  ASSUME IInv, NEW chosen \in {{}, {Interval - 1}, Slots}, NEW b,
         Group(Store(recvd + 1), chosen, b),
         IF chosen = {} THEN lastProc' = lastProc /\ ~Quiet ELSE lastProc' = recvd + 1
  PROVE  ArrayTypes' /\ ArraysOK'
<1>. DEFINE g == recvd + 1
            new == Store(g)
            kept == [s \in Slots |-> IF s \in chosen THEN new[s] ELSE procArr[s]]
            p == IF chosen = {} THEN pfa ELSE 0
            h == (heap \cup {g}) \ {new[s] : s \in Slots \ chosen}
            lp == IF chosen = {} THEN lastProc ELSE g
<1>1. Ready /\ recvd < MaxFrames /\ nfa + 1 = Interval /\ recvd' = g /\ newArr' = NoFrames
      /\ nfa' = 0 /\ HandOver(kept, p, h) /\ lastProc' = lp
  BY DEF Group
<1>2. Interval \in Nat /\ Interval > 0 /\ Silence \in Nat /\ recvd \in Nat
  BY CamAssumption DEF IInv, TypeOK
<1>3. pfa = Interval /\ last = lastProc /\ last \in Nat
  BY <1>1, <1>2 DEF IInv, TypeOK, ArraysOK, InStep, LastOK, Numbers, None
<1>4. g = Group0 + Interval /\ Group0 \in Nat /\ nfa = Interval - 1 /\ g \in Nat
  BY <1>1, <1>2, PassFacts
<1>5. \A s \in Slots : procArr[s] = None
  BY <1>2, <1>3 DEF IInv, ArraysOK, ProcOf, Slots
<1>6. \A s \in Slots : new[s] = g - Interval + 1 + s /\ new[s] # None
  <2>1. \A s \in Slots : s <= nfa /\ s \in Nat
    BY <1>2, <1>4 DEF Slots
  <2>2. \A s \in Slots : new[s] = Group0 + 1 + s
    BY <1>1, <2>1, PassFacts
  <2>. QED
    BY <1>2, <1>4, <2>1, <2>2 DEF None
<1>7. new \in [Slots -> {None} \cup Numbers] /\ Held(new) = Held(newArr) \cup {g}
  BY <1>1, PassFacts
<1>. HIDE DEF g, new
<1>8. kept \in [Slots -> {None} \cup Numbers]
      /\ \A s \in Slots : kept[s] = IF s \in chosen THEN new[s] ELSE None
  BY <1>5, <1>7 DEF IInv, TypeOK
<1>9. p \in 0 .. Interval /\ p = IF chosen = {} THEN Interval ELSE 0
  BY <1>2, <1>3
<1>10. ProcOf(kept, p, g)
  <2>1. \A s \in Slots : kept[s] = None \/ (s >= p /\ kept[s] = g - Interval + 1 + s)
    <3>1. \A s \in Slots : s >= 0 /\ (s \in chosen => chosen # {})
      BY <1>2 DEF Slots
    <3>. QED
      BY <1>6, <1>8, <1>9, <3>1
  <2>2. p < Interval => kept[Interval - 1] = g /\ g >= Interval
    <3>1. Interval - 1 \in Slots /\ (chosen # {} => Interval - 1 \in chosen)
      BY <1>2 DEF Slots
    <3>2. kept[Interval - 1] = IF chosen # {} THEN new[Interval - 1] ELSE None
      BY <1>8, <3>1
    <3>. QED
      BY <1>2, <1>4, <1>6, <1>9, <3>1, <3>2
  <2>. QED
    BY <2>1, <2>2 DEF ProcOf
<1>. HIDE DEF kept, p
<1>11. h = Held(NoFrames) \cup Held(kept)
  <2>1. Held(NoFrames) = {}
    BY DEF Held, NoFrames
  <2>2. Held(procArr) = {}
    BY <1>5 DEF Held
  <2>3. h = Held(new) \ {new[s] : s \in Slots \ chosen}
    BY <1>7, <2>2 DEF IInv, ArraysOK, HeapOK
  <2>4. \A s, t \in Slots : new[s] = new[t] => s = t
    BY <1>2, <1>4, <1>6 DEF Slots
  <2>5. chosen \subseteq Slots
    BY <1>2 DEF Slots
  <2>6. Held(kept) = {new[s] : s \in chosen}
    BY <1>6, <1>8, <2>5 DEF Held
  <2>7. Held(new) = {new[s] : s \in Slots}
    BY <1>6 DEF Held
  <2>. QED
    BY <2>1, <2>3, <2>4, <2>5, <2>6, <2>7
<1>12. lp \in Nat /\ lp <= g /\ g <= lp + Silence /\ (p = Interval => last = lp)
       /\ (p < Interval => lp = g /\ g - Interval - Silence <= last)
       /\ (last = None \/ last + Interval <= g)
  <2>1. lastProc <= Group0 /\ Group0 <= lastProc + Silence
        /\ (last = None \/ last + Interval - 1 <= recvd)
    BY DEF IInv, ArraysOK, LastOK
  <2>2. g = recvd + 1
    BY DEF g
  <2>3. chosen = {} => ~(g > lastProc + Silence)
    BY <2>2 DEF Quiet
  <2>4. CASE chosen = {}
    BY <1>2, <1>3, <1>4, <1>9, <2>1, <2>2, <2>3, <2>4
  <2>5. CASE chosen # {}
    BY <1>2, <1>3, <1>4, <1>9, <2>1, <2>2, <2>5
  <2>. QED
    BY <2>4, <2>5
<1>13. Filled(NoFrames, 0, g) /\ NoFrames \in [Slots -> {None} \cup Numbers]
  <2>1. \A s \in Slots : ~(s < 0)
    BY <1>2 DEF Slots
  <2>. QED
    BY <2>1 DEF Filled, NoFrames
<1>14. 0 \in Slots /\ g \in Numbers /\ g = g + 0 /\ (p = Interval \/ p = 0)
  <2>1. 0 \in Slots /\ g = g + 0 /\ (p = Interval \/ p = 0)
    BY <1>2, <1>4, <1>9 DEF Slots
  <2>2. g \in Numbers
    BY <1>1, PassFacts DEF g
  <2>. QED
    BY <2>1, <2>2
<1>. HIDE DEF h, lp
<1>. QED
  BY <1>1, <1>4, <1>8, <1>9, <1>10, <1>11, <1>12, <1>13, <1>14, KeptAndHandedOver

LEMMA GroupsStep ==
  ASSUME IInv, (\E d \in BOOLEAN : CamGroupAll(d)) \/ (\E b \in BOOLEAN : CamGroupLast(b))
               \/ CamGroupNone
  PROVE  IInv'
<1>1. PICK chosen \in {{}, {Interval - 1}, Slots}, b \in BOOLEAN :
        /\ Group(Store(recvd + 1), chosen, b)
        /\ IF chosen = {} THEN lastProc' = lastProc /\ ~Quiet ELSE lastProc' = recvd + 1
        /\ lastMotion' \in {lastMotion, recvd + 1}
  <2>1. Slots # {} /\ {Interval - 1} # {} /\ gs \in BOOLEAN
    BY CamAssumption DEF Slots, IInv, TypeOK
  <2>2. ASSUME NEW d \in BOOLEAN, CamGroupAll(d)
        PROVE  /\ Group(Store(recvd + 1), Slots, d) /\ lastProc' = recvd + 1
               /\ lastMotion' \in {lastMotion, recvd + 1}
    BY <2>2 DEF CamGroupAll
  <2>3. ASSUME NEW b \in BOOLEAN, CamGroupLast(b)
        PROVE  /\ Group(Store(recvd + 1), {Interval - 1}, TRUE) /\ lastProc' = recvd + 1
               /\ lastMotion' = lastMotion
    BY <2>3 DEF CamGroupLast
  <2>4. ASSUME CamGroupNone
        PROVE  /\ Group(Store(recvd + 1), {}, gs) /\ lastProc' = lastProc /\ ~Quiet
               /\ lastMotion' = lastMotion
    BY <2>4 DEF CamGroupNone
  <2>. QED
    BY <2>1, <2>2, <2>3, <2>4
<1>2. ArrayTypes' /\ ArraysOK'
  BY <1>1, GroupStep
<1>3. OtherTypes'
  <2>1. recvd' = recvd + 1 /\ gs' = b /\ UNCHANGED <<cam, setting>>
    BY <1>1 DEF Group
  <2>2. lastMotion' \in 0 .. recvd'
    BY <1>1, <2>1, CamAssumption DEF IInv, TypeOK
  <2>. QED
    BY <2>1, <2>2 DEF cam, setting, IInv, TypeOK, OtherTypes
<1>. QED
  BY <1>2, <1>3, TypesSplit, PTL DEF IInv

LEMMA NextIInv == IInv /\ [Next]_vars => IInv'
<1>. SUFFICES ASSUME IInv, [Next]_vars PROVE IInv'
  OBVIOUS
<1>1. CASE CamOpen
  BY <1>1, OpenStep
<1>2. CASE CamOpened \/ CamFails \/ UNCHANGED vars
  BY <1>2, OtherStep
<1>3. CASE CamOpenFails \/ CamSkips
  BY <1>3, OtherStep DEF CamOpenFails, CamSkips
<1>4. CASE CamRequeueFails
  BY <1>4, RequeueFailsStep
<1>5. CASE CamKeep
  BY <1>5, KeepStep
<1>6. CASE (\E d \in BOOLEAN : CamGroupAll(d)) \/ (\E b \in BOOLEAN : CamGroupLast(b))
           \/ CamGroupNone
  BY <1>6, GroupsStep
<1>7. CASE \E c \in Clients : Change(c)
  BY <1>7, ChangeStep
<1>. QED
  BY <1>1, <1>2, <1>3, <1>4, <1>5, <1>6, <1>7 DEF Next, CamPass

-----------------------------------------------------------------------------
(* The theorems. *)

\* The arrays of cam_thread and their indices stay in the form IInv says,
\* whatever passes fail between.
THEOREM Invariance == Spec => []IInv
<1>1. IInv /\ UNCHANGED vars => IInv'
  BY NextIInv
<1>. QED
  BY <1>1, InitIInv, NextIInv, PTL DEF Spec

\* All variables stay in their types, the indices in their arrays.
THEOREM TypeCorrect == Spec => []TypeOK
BY Invariance, PTL DEF IInv

\* When a group is completed the one before has been handed over.
THEOREM InStepAlways == Spec => []ArraysInStep
<1>1. IInv => ArraysInStep
  BY CamAssumption DEF IInv, TypeOK, ArraysOK, InStep, ArraysInStep
<1>. QED
  BY <1>1, Invariance, PTL

\* The frames allocated are those the arrays point to, each from one place.
THEOREM NoLeak == Spec => []NothingLeaked
<1>1. IInv => NothingLeaked
  BY Disjoint DEF IInv, ArraysOK, HeapOK, NothingLeaked
<1>. QED
  BY <1>1, Invariance, PTL

\* While the camera works, the silence is no longer than Silence and what a
\* group that is being handed over adds.
THEOREM SilenceEnds == Spec => []SilenceBounded
<1>1. ASSUME IInv PROVE SilenceBounded
  <2>1. ASSUME ~needed PROVE recvd - last <= Silence + 2 * Interval - 2
    <3>1. Interval \in Nat /\ Interval > 0 /\ Silence \in Nat /\ nfa \in 0 .. Interval - 1
          /\ pfa \in 0 .. Interval /\ recvd \in Nat /\ last \in Nat /\ lastProc \in Nat
      BY <1>1, CamAssumption DEF IInv, TypeOK, Slots, Numbers, None
    <3>2. Group0 = recvd - nfa
      BY <1>1, <2>1 DEF IInv, ArraysOK, NewOK, Group0, Kept
    <3>3. /\ Group0 <= lastProc + Silence /\ (pfa = Interval => last = lastProc)
          /\ (pfa < Interval => Group0 - Interval - Silence <= last)
          /\ pfa = Interval \/ pfa = nfa + 1
      BY <1>1 DEF IInv, ArraysOK, LastOK, InStep
    <3>. QED
      BY <3>1, <3>2, <3>3
  <2>. QED
    BY <2>1 DEF SilenceBounded
<1>. QED
  BY <1>1, Invariance, PTL

\* The frame a pass hands over is the one received four frames earlier.
LEMMA HandedFrame ==
  ASSUME IInv, [Next]_vars, last' # last, last' # None
  PROVE  last' \in Numbers /\ recvd' = recvd + 1 /\ recvd' - last' = Interval - 1
<1>1. Interval \in Nat /\ Interval > 0 /\ recvd \in Nat /\ pfa \in 0 .. Interval
  BY CamAssumption DEF IInv, TypeOK
<1>2. (pfa = Interval \/ pfa = nfa + 1) /\ ProcOf(procArr, pfa, Group0)
  BY DEF IInv, ArraysOK, InStep
<1>3. CASE CamKeep
  <2>1. Ready /\ recvd < MaxFrames /\ recvd' = recvd + 1
        /\ HandOver(procArr, pfa, heap \cup {recvd + 1})
    BY <1>3 DEF CamKeep
  <2>2. pfa # Interval /\ last' = procArr[pfa] /\ procArr[pfa] # None
    BY <2>1 DEF HandOver
  <2>3. pfa \in Slots /\ pfa = nfa + 1 /\ Group0 = recvd - nfa /\ nfa \in Nat
    BY <1>1, <1>2, <2>1, <2>2, PassFacts DEF Slots
  <2>4. procArr[pfa] \in Numbers /\ procArr[pfa] = Group0 - Interval + 1 + pfa
    BY <1>2, <2>2, <2>3 DEF ProcOf, IInv, TypeOK
  <2>. QED
    BY <1>1, <2>1, <2>2, <2>3, <2>4
<1>4. ASSUME NEW chosen, NEW b, Group(Store(recvd + 1), chosen, b)
      PROVE  last' \in Numbers /\ recvd' = recvd + 1 /\ recvd' - last' = Interval - 1
  <2>. DEFINE kept == [s \in Slots |-> IF s \in chosen THEN Store(recvd + 1)[s] ELSE procArr[s]]
              q == IF chosen = {} THEN pfa ELSE 0
              h == (heap \cup {recvd + 1}) \ {Store(recvd + 1)[s] : s \in Slots \ chosen}
  <2>1. Ready /\ recvd < MaxFrames /\ recvd' = recvd + 1 /\ nfa + 1 = Interval
        /\ HandOver(kept, q, h)
    BY <1>4 DEF Group
  <2>2. pfa = Interval /\ 0 \in Slots
    BY <1>1, <1>2, <2>1, PassFacts DEF Slots
  <2>3. q # Interval /\ last' = kept[q] /\ kept[q] # None
    <3>. HIDE DEF kept, q, h
    <3>. QED
      BY <2>1 DEF HandOver
  <2>4. q = 0
    BY <2>2, <2>3
  <2>5. procArr[0] = None
    BY <1>1, <1>2, <2>2 DEF ProcOf
  <2>6. last' = Store(recvd + 1)[0]
    BY <2>2, <2>3, <2>4, <2>5
  <2>7. Store(recvd + 1)[0] = Group0 + 1 + 0 /\ Group0 = recvd - nfa /\ nfa \in Nat
        /\ Store(recvd + 1) \in [Slots -> {None} \cup Numbers]
    BY <2>1, <2>2, PassFacts
  <2>8. last' \in Numbers
    BY <2>2, <2>6, <2>7
  <2>. QED
    BY <1>1, <2>1, <2>6, <2>7, <2>8
<1>5. CASE (\E d \in BOOLEAN : CamGroupAll(d)) \/ (\E b \in BOOLEAN : CamGroupLast(b))
           \/ CamGroupNone
  BY <1>4, <1>5 DEF CamGroupAll, CamGroupLast, CamGroupNone
<1>6. CASE CamOpen \/ CamOpenFails \/ CamOpened \/ CamFails \/ CamSkips \/ CamRequeueFails
           \/ (\E c \in Clients : Change(c)) \/ UNCHANGED vars
  BY <1>6 DEF CamOpen, CamOpenFails, CamOpened, CamFails, CamSkips, CamRequeueFails,
              Change, ChangeRes, ChangeTest, ChangeStore, arrays, vars
<1>. QED
  BY <1>3, <1>5, <1>6 DEF Next, CamPass

\* Frames are handed over in the order they were received, each Interval - 1
\* frames after it was received.
THEOREM HandedOverInTime == Spec => HandedInTime
<1>1. ASSUME IInv, [Next]_vars, last' \notin {None, last}
      PROVE  last' > last /\ recvd' - last' = Interval - 1
  <2>1. last' \in Numbers /\ recvd' = recvd + 1 /\ recvd' - last' = Interval - 1
    BY <1>1, HandedFrame
  <2>2. PICK l \in Numbers : l = last'
    BY <2>1
  <2>3. Interval \in Nat /\ recvd \in Nat /\ last \in Nat
        /\ (last = None \/ last + Interval - 1 <= recvd)
    BY <1>1, CamAssumption DEF IInv, TypeOK, ArraysOK, LastOK, None, Numbers
  <2>4. (recvd + 1) - l = Interval - 1 /\ l >= 1 /\ l \in Nat
    BY <2>1, <2>2, CamAssumption DEF Numbers
  <2>5. l > last
    BY <2>3, <2>4 DEF None
  <2>. QED
    BY <2>1, <2>2, <2>5
<1>2. IInv /\ [Next]_vars => [last' \notin {None, last} => last' > last /\ recvd' - last' = Interval - 1]_vars
  BY <1>1
<1>. QED
  BY <1>2, Invariance, PTL DEF HandedInTime, Spec

-----------------------------------------------------------------------------
(* What is dropped.  Motion is looked for once in a group, so that what is *)
(* known of it moves on by whole groups.                                   *)

WholeGroups(m) == \E k \in Nat : m = k * Interval

MotionInv == WholeGroups(lastMotion) /\ WholeGroups(Group0)

LEMMA OneMore ==
  ASSUME NEW m \in Nat, WholeGroups(m)
  PROVE  WholeGroups(m + Interval)
<1>1. PICK k \in Nat : m = k * Interval
  BY DEF WholeGroups
<1>2. k + 1 \in Nat /\ m + Interval = (k + 1) * Interval
  BY <1>1, CamAssumption
<1>. QED
  BY <1>2 DEF WholeGroups

\* Whole groups that differ by more than none differ by one at least.
LEMMA GroupsApart ==
  ASSUME NEW g \in Nat, NEW m \in Nat, NEW h \in Nat,
         WholeGroups(g), WholeGroups(m), WholeGroups(h), g + Interval - m > h
  PROVE  g - m >= h
<1>1. PICK i \in Nat, j \in Nat, k \in Nat :
        g = i * Interval /\ m = j * Interval /\ h = k * Interval
  BY DEF WholeGroups
<1>. DEFINE d == i - j - k
<1>2. d \in Int /\ g - m - h = d * Interval /\ Interval \in Nat /\ Interval > 0
  BY <1>1, CamAssumption
<1>. HIDE DEF d
<1>3. d <= -1 => d * Interval <= -Interval
  BY <1>2
<1>4. d >= 0 => d * Interval >= 0
  BY <1>2
<1>. QED
  BY <1>2, <1>3, <1>4

LEMMA MotionStep == IInv /\ MotionInv /\ [Next]_vars => MotionInv'
<1>. SUFFICES ASSUME IInv, MotionInv, [Next]_vars PROVE MotionInv'
  OBVIOUS
<1>1. CASE CamOpen
  <2>1. lastMotion' = 0 /\ Group0' = 0
    BY <1>1, CamAssumption DEF CamOpen, Group0, Kept, NoFrames, Slots
  <2>2. WholeGroups(0)
    BY CamAssumption DEF WholeGroups
  <2>. QED
    BY <2>1, <2>2 DEF MotionInv, WholeGroups
<1>2. CASE CamOpenFails \/ CamOpened \/ CamFails \/ CamSkips
           \/ (\E c \in Clients : Change(c)) \/ UNCHANGED vars
  <2>1. UNCHANGED <<recvd, nfa, newArr, lastMotion>>
    BY <1>2 DEF CamOpenFails, CamOpened, CamFails, CamSkips, Change, ChangeRes, ChangeTest,
                ChangeStore, vars, counts, arrays
  <2>. QED
    BY <2>1 DEF MotionInv, WholeGroups, Group0, Kept
<1>3. CASE CamRequeueFails
  <2>1. newArr'[nfa] = recvd + 1 /\ recvd + 1 # None /\ recvd' = recvd + 1 /\ nfa' = nfa
        /\ lastMotion' = lastMotion /\ Group0 = recvd - nfa /\ recvd \in Nat
    BY <1>3, PassFacts DEF CamRequeueFails
  <2>2. Group0' = Group0
    BY <2>1 DEF Group0, Kept
  <2>. QED
    BY <2>1, <2>2 DEF MotionInv, WholeGroups
<1>4. CASE CamKeep
  <2>1. /\ Ready /\ recvd < MaxFrames /\ nfa + 1 < Interval
        /\ newArr' = Store(recvd + 1) /\ recvd' = recvd + 1 /\ nfa' = nfa + 1
        /\ lastMotion' = lastMotion
    BY <1>4 DEF CamKeep
  <2>2. Group0 = recvd - nfa /\ recvd \in Nat /\ nfa + 1 \in Slots /\ nfa \in Nat
    BY <2>1, PassFacts DEF Slots
  <2>3. newArr'[nfa'] = None
    BY <2>1, <2>2, PassFacts
  <2>4. Group0' = Group0
    BY <2>1, <2>2, <2>3 DEF Group0, Kept
  <2>. QED
    BY <2>1, <2>4 DEF MotionInv, WholeGroups
<1>5. ASSUME NEW chosen, NEW b, Group(Store(recvd + 1), chosen, b),
             lastMotion' \in {lastMotion, recvd + 1}
      PROVE  MotionInv'
  <2>1. /\ Ready /\ recvd < MaxFrames /\ nfa + 1 = Interval /\ newArr' = NoFrames
        /\ recvd' = recvd + 1 /\ nfa' = 0
    BY <1>5 DEF Group
  <2>2. Group0 = recvd - nfa /\ Group0 \in Nat /\ recvd \in Nat /\ 0 \in Slots /\ nfa \in Nat
        /\ Interval \in Nat
    BY <2>1, PassFacts DEF Slots
  <2>3. newArr'[nfa'] = None
    BY <2>1, <2>2 DEF NoFrames
  <2>4. Group0' = Group0 + Interval /\ recvd + 1 = Group0 + Interval
    <3>1. Group0' = recvd'
      BY <2>1, <2>2, <2>3 DEF Group0, Kept
    <3>. QED
      BY <2>1, <2>2, <3>1
  <2>5. WholeGroups(Group0 + Interval)
    BY <2>2, OneMore DEF MotionInv
  <2>. QED
    BY <1>5, <2>4, <2>5 DEF MotionInv, WholeGroups
<1>6. CASE (\E d \in BOOLEAN : CamGroupAll(d)) \/ (\E b \in BOOLEAN : CamGroupLast(b))
           \/ CamGroupNone
  BY <1>5, <1>6 DEF CamGroupAll, CamGroupLast, CamGroupNone
<1>. QED
  BY <1>1, <1>2, <1>3, <1>4, <1>6 DEF Next, CamPass

LEMMA MotionInvariance == Spec => []MotionInv
<1>1. Init => MotionInv
  <2>1. ASSUME Init PROVE lastMotion = 0 /\ Group0 = 0
    BY <2>1, CamAssumption DEF Init, Group0, Kept, NoFrames, Slots
  <2>2. WholeGroups(0)
    BY CamAssumption DEF WholeGroups
  <2>. QED
    BY <2>1, <2>2 DEF MotionInv
<1>. QED
  BY <1>1, MotionStep, Invariance, PTL DEF Spec

\* The frames of a group that is not chosen were received when there was no
\* motion, nor in the Hold frames before each of them.
LEMMA DroppedOfGroup ==
  ASSUME IInv, MotionInv, Hold % Interval = 0, Ready, recvd < MaxFrames,
         nfa + 1 = Interval, ~InMotion(lastMotion), NEW s \in Slots
  PROVE  Store(recvd + 1)[s] > lastMotion + Hold
<1>1. /\ Group0 = recvd - nfa /\ Group0 \in Nat /\ recvd \in Nat /\ nfa \in Nat
      /\ Interval \in Nat /\ Interval > 0 /\ s \in Nat /\ s <= nfa
      /\ Store(recvd + 1)[s] = Group0 + 1 + s
  BY PassFacts DEF Slots
<1>2. Hold \in Nat /\ lastMotion \in Nat
  BY CamAssumption DEF IInv, TypeOK
<1>3. WholeGroups(Hold)
  <2>1. Hold \div Interval \in Nat /\ Hold = (Hold \div Interval) * Interval
    BY <1>1, <1>2
  <2>. QED
    BY <2>1 DEF WholeGroups
<1>4. Group0 + Interval - lastMotion > Hold
  BY <1>1, <1>2 DEF InMotion
<1>5. Group0 - lastMotion >= Hold
  BY <1>1, <1>2, <1>3, <1>4, GroupsApart DEF MotionInv
<1>. QED
  BY <1>1, <1>2, <1>5

\* If motion is taken to last a number of whole groups, as in the code (10
\* frames and groups of 5), a frame is dropped while the camera works only
\* if there was no motion when it was received nor in the Hold frames before.
THEOREM OnlyStillDropped ==
  ASSUME Hold % Interval = 0
  PROVE  Spec => DroppedOnlyStill
<1>1. ASSUME IInv, MotionInv, [Next]_vars, pc' = "run", NEW f \in heap \ heap'
      PROVE  f = last' \/ f > lastMotion + Hold
  <2>1. f \in Numbers /\ f # None
    BY <1>1, CamAssumption DEF IInv, TypeOK, Numbers, None
  <2>2. CASE CamKeep
    BY <1>1, <2>1, <2>2 DEF CamKeep, HandOver
  <2>3. ASSUME NEW chosen \in {{}, {Interval - 1}, Slots}, NEW b,
               Group(Store(recvd + 1), chosen, b),
               chosen = Slots \/ ~InMotion(lastMotion)
        PROVE  f = last' \/ f > lastMotion + Hold
    <3>. DEFINE new == Store(recvd + 1)
                kept == [s \in Slots |-> IF s \in chosen THEN new[s] ELSE procArr[s]]
                p == IF chosen = {} THEN pfa ELSE 0
                h == (heap \cup {recvd + 1}) \ {new[s] : s \in Slots \ chosen}
    <3>1. Ready /\ recvd < MaxFrames /\ nfa + 1 = Interval /\ HandOver(kept, p, h)
      BY <2>3 DEF Group
    <3>. HIDE DEF kept, p
    <3>2. CASE f \in h
      BY <1>1, <2>1, <3>1, <3>2 DEF HandOver
    <3>3. CASE f \notin h
      <4>1. PICK s \in Slots \ chosen : f = new[s]
        BY <1>1, <3>3
      <4>2. ~InMotion(lastMotion)
        BY <2>3, <4>1
      <4>. QED
        BY <1>1, <3>1, <4>1, <4>2, DroppedOfGroup
    <3>. QED
      BY <3>2, <3>3
  <2>4. CASE \E d \in BOOLEAN : CamGroupAll(d)
    BY <2>3, <2>4 DEF CamGroupAll
  <2>5. CASE (\E b \in BOOLEAN : CamGroupLast(b)) \/ CamGroupNone
    BY <2>3, <2>5 DEF CamGroupLast, CamGroupNone
  <2>6. CASE CamOpen
    BY <1>1, <2>6 DEF CamOpen
  <2>7. CASE CamOpenFails \/ CamOpened \/ CamFails \/ CamSkips \/ CamRequeueFails
             \/ (\E c \in Clients : Change(c)) \/ UNCHANGED vars
    BY <1>1, <2>7 DEF CamOpenFails, CamOpened, CamFails, CamSkips, CamRequeueFails, Change,
                      ChangeRes, ChangeTest, ChangeStore, arrays, vars
  <2>. QED
    BY <1>1, <2>2, <2>4, <2>5, <2>6, <2>7 DEF Next, CamPass
<1>2. IInv /\ MotionInv /\ [Next]_vars =>
        [pc' = "run" => \A f \in heap \ heap' : f = last' \/ f > lastMotion + Hold]_vars
  BY <1>1
<1>. QED
  BY <1>2, Invariance, MotionInvariance, PTL DEF DroppedOnlyStill, Spec

=============================================================================
