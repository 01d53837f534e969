---------------------------- MODULE RpFileProofs ----------------------------
(***************************************************************************)
(* The ring file is sound for every file size, frame size and number of    *)
(* writes that the assumption of RpGeometry allows.                        *)
(***************************************************************************)
EXTENDS RpFile, TLAPS

\* ROUND_UP moves forward by less than the alignment.
LEMMA RoundUpBounds ==
  ASSUME NEW v \in Nat
  PROVE  RoundUp(v) \in Nat /\ v <= RoundUp(v) /\ RoundUp(v) < v + Align
BY GeometryAssumption DEF RoundUp

\* A frame offset is in the part of the file that frames may start in.
LEMMA NextOffsetRange ==
  ASSUME NEW o \in Nat, NEW l \in Nat
  PROVE  /\ NextOffset(o, l) \in Nat
         /\ MinOff <= NextOffset(o, l)  \/ o # 0
         /\ o >= MinOff => MinOff <= NextOffset(o, l)
         /\ NextOffset(o, l) < MaxOff
BY RoundUpBounds, GeometryAssumption DEF NextOffset, MaxOff

\* The next write of at most MaxLen is wholly before, or wholly after, a frame
\* that is roomy and does not straddle the end of the last frame.
LEMMA WriteMisses ==
  ASSUME NEW o \in Nat, NEW l \in Nat, o # 0, o + l <= FileSize,
         NEW a \in Nat, NEW b \in Nat, MinOff <= a, a < MaxOff,
         a + b <= o + l \/ o + l <= a,
         Roomy(o + l, a),
         NEW m \in Lengths
  PROVE  \/ a + b <= NextOffset(o, l)
         \/ NextOffset(o, l) + m <= a
<1>. DEFINE e == o + l
<1>1. e \in Nat /\ e <= RoundUp(e) /\ RoundUp(e) < e + Align /\ RoundUp(e) \in Nat
  BY RoundUpBounds
<1>2. CASE RoundUp(e) < MaxOff
  BY <1>1, <1>2, GeometryAssumption
     DEF NextOffset, MaxOff, Roomy, FileLength, Lengths
<1>3. CASE RoundUp(e) >= MaxOff
  BY <1>1, <1>3, GeometryAssumption
     DEF NextOffset, MaxOff, Roomy, FileLength, Lengths
<1>. QED
  BY <1>1, <1>2, <1>3, GeometryAssumption DEF MaxOff

-----------------------------------------------------------------------------
\* A frame that can be looked up lies wholly before the end of the last frame
\* or wholly after it.
Behind ==
  \A i \in first .. n : off[i] + len[i] <= EndOff \/ EndOff <= off[i]

LengthsOK == \A i \in 1 .. n : len[i] \in Lengths

IInv == TypeOK /\ LengthsOK /\ InFile /\ Behind /\ NotOverwritten

-----------------------------------------------------------------------------
\* The inductive invariant holds in every reachable state.
THEOREM Invariance == Spec => []IInv
<1>1. Init => IInv
  BY WritesAssumption, GeometryAssumption
     DEF Init, IInv, TypeOK, LengthsOK, InFile, MaxOff, Behind, NotOverwritten, Numbers
<1>2. IInv /\ [Next]_vars => IInv'
  <2>. SUFFICES ASSUME IInv, [Next]_vars PROVE IInv'
    OBVIOUS
  <2>1. ASSUME NEW l \in Lengths, Write(l) PROVE IInv'
    <3>. DEFINE o == IF n = 0 THEN MinOff ELSE NextOffset(off[n], len[n])
    <3>. l \in Nat /\ n \in Nat /\ n + 1 \in Numbers /\ first \in Nat /\ first >= 1
      BY <2>1, GeometryAssumption, WritesAssumption
         DEF Write, IInv, TypeOK, Lengths, Numbers
    <3>1. n' = n + 1 /\ off'[n + 1] = o /\ len'[n + 1] = l /\ first' = first
      BY <2>1 DEF Write, IInv, TypeOK
    <3>2. \A i \in 1 .. n : off'[i] = off[i] /\ len'[i] = len[i]
                            /\ off[i] \in Nat /\ len[i] \in Nat
      <4>. SUFFICES ASSUME NEW i \in 1 .. n
                    PROVE  /\ off'[i] = off[i] /\ len'[i] = len[i]
                           /\ off[i] \in Nat /\ len[i] \in Nat
        OBVIOUS
      <4>1. i \in Numbers /\ i # n + 1
        BY WritesAssumption DEF Numbers
      <4>. QED
        BY <2>1, <4>1, GeometryAssumption DEF Write, IInv, TypeOK, MaxOff
    <3>3. o \in Nat /\ MinOff <= o /\ o < MaxOff
      <4>1. CASE n = 0
        BY <4>1, GeometryAssumption DEF MaxOff
      <4>2. CASE n # 0
        <5>1. off[n] \in Nat /\ len[n] \in Nat /\ MinOff <= off[n]
          BY <4>2, <3>2 DEF IInv, InFile
        <5>. QED
          BY <4>2, <5>1, NextOffsetRange
      <4>. QED
        BY <4>1, <4>2
    <3>4. TypeOK'
      <4>1. o \in 0 .. MaxOff - 1
        BY <3>3, GeometryAssumption DEF MaxOff
      <4>. QED
        BY <2>1, <3>1, <4>1 DEF Write, IInv, TypeOK, Numbers
    <3>5. LengthsOK'
      BY <3>1, <3>2 DEF IInv, LengthsOK
    <3>6. InFile'
      BY <3>1, <3>2, <3>3, GeometryAssumption DEF IInv, InFile, MaxOff, Lengths
    <3>7. \A i \in first .. n : off[i] + len[i] <= o \/ o + l <= off[i]
      <4>. SUFFICES ASSUME NEW i \in first .. n
                    PROVE  off[i] + len[i] <= o \/ o + l <= off[i]
        OBVIOUS
      <4>1. i \in 1 .. n /\ n \in 1 .. n /\ n # 0
        OBVIOUS
      <4>2. /\ off[n] \in Nat /\ len[n] \in Nat /\ off[n] # 0
            /\ off[n] + len[n] <= FileSize
            /\ off[i] \in Nat /\ len[i] \in Nat
            /\ MinOff <= off[i] /\ off[i] < MaxOff
        BY <3>2, <4>1, GeometryAssumption DEF IInv, InFile
      <4>3. /\ off[i] + len[i] <= off[n] + len[n] \/ off[n] + len[n] <= off[i]
            /\ Roomy(off[n] + len[n], off[i])
        BY <2>1 DEF IInv, Behind, EndOff, Write
      <4>. QED
        BY <4>1, <4>2, <4>3, WriteMisses
    <3>8. Behind'
      <4>. SUFFICES ASSUME NEW i \in first .. n + 1
                    PROVE  off'[i] + len'[i] <= o + l \/ o + l <= off'[i]
        BY <3>1 DEF Behind, EndOff
      <4>1. CASE i = n + 1
        BY <3>1, <3>3, <4>1
      <4>2. CASE i # n + 1
        <5>1. i \in first .. n /\ i \in 1 .. n
          BY <4>2
        <5>. QED
          BY <5>1, <3>2, <3>3, <3>7
      <4>. QED
        BY <4>1, <4>2
    <3>9. NotOverwritten'
      <4>. SUFFICES ASSUME NEW i \in first .. n + 1, NEW j \in i + 1 .. n + 1
                    PROVE  ~Overlap(off'[i], len'[i], off'[j], len'[j])
        BY <3>1 DEF NotOverwritten
      <4>0. i \in first .. n /\ i \in 1 .. n
        OBVIOUS
      <4>1. CASE j = n + 1
        BY <3>1, <3>2, <3>3, <3>7, <4>0, <4>1 DEF Overlap
      <4>2. CASE j # n + 1
        <5>1. j \in i + 1 .. n /\ j \in 1 .. n
          BY <4>2
        <5>2. ~Overlap(off[i], len[i], off[j], len[j])
          BY <4>0, <5>1 DEF IInv, NotOverwritten
        <5>. QED
          BY <3>2, <4>0, <5>1, <5>2
      <4>. QED
        BY <4>1, <4>2
    <3>. QED
      BY <3>4, <3>5, <3>6, <3>8, <3>9 DEF IInv
  <2>2. ASSUME NEW f \in first + 1 .. n, Forget(f) PROVE IInv'
    <3>1. n' = n /\ off' = off /\ len' = len /\ first' = f
      BY <2>2 DEF Forget
    <3>2. f \in 1 .. MaxWrites + 1 /\ f .. n \subseteq first .. n
      BY WritesAssumption DEF IInv, TypeOK
    <3>3. TypeOK' /\ LengthsOK' /\ InFile'
      BY <3>1, <3>2 DEF IInv, TypeOK, LengthsOK, InFile
    <3>4. Behind' /\ NotOverwritten'
      BY <3>1, <3>2 DEF IInv, Behind, NotOverwritten, EndOff
    <3>. QED
      BY <3>3, <3>4 DEF IInv
  <2>3. CASE UNCHANGED vars
    BY <2>3 DEF vars, IInv, TypeOK, LengthsOK, InFile, Behind, NotOverwritten, EndOff
  <2>. QED
    BY <2>1, <2>2, <2>3 DEF Next
<1>. QED
  BY <1>1, <1>2, PTL DEF Spec

\* Every variable keeps its type.
THEOREM TypeCorrect == Spec => []TypeOK
BY Invariance, PTL DEF IInv

\* A frame that can be looked up is never overwritten, whatever the sizes of
\* the file and of the frames.
THEOREM NeverOverwritten == Spec => []NotOverwritten
BY Invariance, PTL DEF IInv

\* No write touches the headers or goes past the end of the file.
THEOREM StaysInFile == Spec => []InFile
BY Invariance, PTL DEF IInv

=============================================================================
