----------------------------- MODULE CamFrames -----------------------------
(***************************************************************************)
(* cam_thread of wc_webcam.c: frames are received from the camera, kept    *)
(* back until FRAME_COMPARE_INTERVAL of them are there, compared for       *)
(* motion as a group, and then handed over one per pass to                 *)
(* proc_frame_list (see FrameList), all of them, the last one or none.     *)
(*                                                                         *)
(* One pass of the loop is one action: the arrays are locals of the        *)
(* thread.  Service threads change the resolution beside it.  A frame is   *)
(* named by its recvd_frame_count, which starts again with every           *)
(* initialization of the camera, as do all locals.                         *)
(***************************************************************************)
EXTENDS Integers, FiniteSets

CONSTANTS
  Interval,     \* FRAME_COMPARE_INTERVAL (5)
  Hold,         \* frames for which motion is taken to last (10)
  Silence,      \* frames received without handing one over (50)
  MaxFrames,    \* bound: frames received between two initializations
  Clients,      \* service threads
  MaxChanges    \* bound: changes of the resolution

ASSUME CamAssumption ==
  /\ Interval \in Nat \ {0} /\ Hold \in Nat /\ Silence \in Nat
  /\ MaxFrames \in Nat /\ MaxChanges \in Nat

Slots == 0 .. Interval - 1
Numbers == 1 .. MaxFrames
None == 0                      \* NULL
ResValues == 0 .. 2            \* '0', '1', '2'
NoRes == -1                    \* 'N': not initialized

VARIABLES
  pc,          \* "open" in cam_init_webcam, "run" at the head of the loop
  res,         \* curr_resolution, or the one being initialized
  format,      \* the resolution the camera was last set to
  needed,      \* cam_init_needed
  recvd,       \* recvd_frame_count
  lastProc,    \* last_proc_frame_count
  lastMotion,  \* last_motion_frame_count
  newArr,      \* new_frame_array
  nfa,         \* nfa_idx
  procArr,     \* proc_frame_array
  pfa,         \* pfa_idx
  gs,          \* curr_gs is there
  heap,        \* the frames malloc'ed and neither freed nor handed over
  last,        \* history: the last frame handed over (0: none)
  config,      \* CONFIG_RESOLUTION
  change,      \* a service thread in CHANGE_RES: where it is, value to store
  changes      \* changes of the resolution made so far

arrays == <<newArr, nfa, procArr, pfa, heap, last>>
counts == <<recvd, lastProc, lastMotion, gs>>
cam == <<pc, res, format, needed>>
setting == <<config, change, changes>>
vars == <<cam, counts, arrays, setting>>

NoFrames == [s \in Slots |-> None]

\* Types; the indices stay in their arrays.
TypeOK ==
  /\ pc \in {"open", "run"} /\ needed \in BOOLEAN
  /\ res \in {NoRes} \cup ResValues /\ format \in {NoRes} \cup ResValues
  /\ recvd \in 0 .. MaxFrames /\ lastProc \in 0 .. recvd /\ lastMotion \in 0 .. recvd
  /\ newArr \in [Slots -> {None} \cup Numbers] /\ nfa \in Slots
  /\ procArr \in [Slots -> {None} \cup Numbers] /\ pfa \in 0 .. Interval
  /\ gs \in BOOLEAN
  /\ heap \in SUBSET Numbers /\ last \in {None} \cup Numbers
  /\ config \in ResValues
  /\ change \in [Clients -> [pc : {"idle", "test", "store"}, to : ResValues]]
  /\ changes \in Nat

Init ==
  /\ pc = "run" /\ res = NoRes /\ format = NoRes /\ needed = TRUE
  /\ recvd = 0 /\ lastProc = 0 /\ lastMotion = 0 /\ gs = FALSE
  /\ newArr = NoFrames /\ nfa = 0
  /\ procArr = NoFrames /\ pfa = Interval
  /\ heap = {} /\ last = None
  /\ config \in ResValues
  /\ change = [c \in Clients |-> [pc |-> "idle", to |-> 0]]
  /\ changes = 0

-----------------------------------------------------------------------------
(* Initialization of the camera. *)

Held(arr) == {arr[s] : s \in Slots} \ {None}

\* mutant: the frames about to be handed over are forgotten, not freed
BugFreed == Held(newArr)

\* what FREE_LOCAL_VARS frees
Freed == Held(newArr) \cup Held(procArr)

\* the camera is not initialized, or not for the resolution wanted
InitDue == needed \/ config # res

\* FREE_LOCAL_VARS, INIT_LOCAL_VARS and the call of cam_init_webcam
CamOpen ==
  /\ pc = "run" /\ InitDue
  /\ pc' = "open" /\ res' = config
  /\ heap' = heap \ Freed
  /\ recvd' = 0 /\ lastProc' = 0 /\ lastMotion' = 0 /\ gs' = FALSE
  /\ newArr' = NoFrames /\ nfa' = 0
  /\ procArr' = NoFrames /\ pfa' = Interval
  /\ last' = None
  /\ UNCHANGED <<format, needed, setting>>

\* a step of cam_init_webcam fails: it starts again after 10 seconds
CamOpenFails == pc = "open" /\ UNCHANGED vars

\* mutant: the setting is read again once the camera has been set up
BugOpened ==
  /\ pc = "open"
  /\ pc' = "run" /\ needed' = FALSE /\ format' = res /\ res' = config
  /\ UNCHANGED <<counts, arrays, setting>>

CamOpened ==
  /\ pc = "open"
  /\ pc' = "run" /\ needed' = FALSE /\ format' = res
  /\ UNCHANGED <<res, counts, arrays, setting>>

-----------------------------------------------------------------------------
(* A pass of the loop. *)

Ready == pc = "run" /\ ~InitDue

\* no frame for 10 seconds, VIDIOC_DQBUF or VIDIOC_QBUF fails, a time out of
\* order, no memory: no frame was kept
CamFails ==
  /\ Ready /\ needed' = TRUE
  /\ UNCHANGED <<pc, res, format, counts, arrays, setting>>

\* V4L2_BUF_FLAG_ERROR: the buffer is given back, nothing else is done
CamSkips == Ready /\ UNCHANGED vars

\* new_frame is put in new_frame_array
Store(f) == [newArr EXCEPT ![nfa] = f]

\* the buffer of the frame just kept cannot be given back to the driver; in
\* a full array the index is past its end until CamOpen sets it again
CamRequeueFails ==
  /\ Ready /\ recvd < MaxFrames
  /\ needed' = TRUE
  /\ recvd' = recvd + 1
  /\ newArr' = Store(recvd + 1)
  /\ heap' = heap \cup {recvd + 1}
  /\ UNCHANGED <<pc, res, format, lastProc, lastMotion, gs, nfa, procArr, pfa, last, setting>>

\* mutant: the frames are handed over from the end of the array
BugFromEnd(arr, p, h) ==
  IF p = Interval THEN procArr' = arr /\ pfa' = p /\ heap' = h /\ UNCHANGED last
  ELSE LET q == Interval - 1 - p
       IN  /\ procArr' = [arr EXCEPT ![q] = None] /\ pfa' = p + 1
           /\ heap' = h \ {arr[q]}
           /\ last' = IF arr[q] = None THEN last ELSE arr[q]

\* the entry at index p of array arr, if there is one, goes to proc_frame_list
HandOver(arr, p, h) ==
  IF p = Interval THEN procArr' = arr /\ pfa' = p /\ heap' = h /\ UNCHANGED last
  ELSE /\ procArr' = [arr EXCEPT ![p] = None] /\ pfa' = p + 1
       /\ heap' = h \ {arr[p]}
       /\ last' = IF arr[p] = None THEN last ELSE arr[p]

\* mutant: a pass that completes no group hands nothing over
BugKeep ==
  /\ Ready /\ recvd < MaxFrames /\ nfa + 1 < Interval
  /\ recvd' = recvd + 1
  /\ newArr' = Store(recvd + 1) /\ nfa' = nfa + 1
  /\ heap' = heap \cup {recvd + 1}
  /\ UNCHANGED <<cam, lastProc, lastMotion, gs, procArr, pfa, last, setting>>

\* a frame is kept, and the group is not complete
CamKeep ==
  /\ Ready /\ recvd < MaxFrames /\ nfa + 1 < Interval
  /\ recvd' = recvd + 1
  /\ newArr' = Store(recvd + 1) /\ nfa' = nfa + 1
  /\ HandOver(procArr, pfa, heap \cup {recvd + 1})
  /\ UNCHANGED <<cam, lastProc, lastMotion, gs, setting>>

\* the frame completes a group: of the group arr, chosen is to be handed over
\* and the rest is freed; curr_gs is there afterwards if g
Group(arr, chosen, g) ==
  /\ Ready /\ recvd < MaxFrames /\ nfa + 1 = Interval
  /\ recvd' = recvd + 1
  /\ newArr' = NoFrames /\ nfa' = 0
  /\ gs' = g
  /\ LET kept == [s \in Slots |-> IF s \in chosen THEN arr[s] ELSE procArr[s]]
         h == (heap \cup {recvd + 1}) \ {arr[s] : s \in Slots \ chosen}
     IN  HandOver(kept, IF chosen = {} THEN pfa ELSE 0, h)
  /\ UNCHANGED <<cam, setting>>

\* mutant: motion is taken to last a group less
BugHeld(m) == recvd + 1 - m < Hold

\* motion, last detected at frame m, is taken to last until the present frame
InMotion(m) == recvd + 1 - m <= Hold

\* no frame was handed over for a while
Quiet == recvd + 1 > lastProc + Silence

\* what compare_gs_image may say of motion: with no image to compare, TRUE
Motions(decoded) == IF decoded /\ gs THEN BOOLEAN ELSE {TRUE}

\* motion now or a moment ago: the whole group is handed over
CamGroupAll(decoded) ==
  \E motion \in Motions(decoded) :
    LET m == IF motion THEN recvd + 1 ELSE lastMotion
    IN  /\ InMotion(m)
        /\ Group(Store(recvd + 1), Slots, decoded)
        /\ lastMotion' = m /\ lastProc' = recvd + 1

\* brightness has changed, or it has been quiet: only the last one is
CamGroupLast(brightness) ==
  /\ gs /\ ~InMotion(lastMotion) /\ (brightness \/ Quiet)
  /\ Group(Store(recvd + 1), {Interval - 1}, TRUE)
  /\ lastProc' = recvd + 1 /\ UNCHANGED lastMotion

\* mutant: last_proc_frame_count is set though nothing is handed over
BugGroupNone ==
  /\ gs /\ ~InMotion(lastMotion) /\ ~Quiet
  /\ Group(Store(recvd + 1), {}, gs)
  /\ lastProc' = recvd + 1 /\ UNCHANGED lastMotion

CamGroupNone ==
  /\ gs /\ ~InMotion(lastMotion) /\ ~Quiet
  /\ Group(Store(recvd + 1), {}, gs)
  /\ UNCHANGED <<lastProc, lastMotion>>

-----------------------------------------------------------------------------
(* Service threads: MSG_TYPE_CMD_LIVE_MODE_CHANGE_RES.  CONFIG_RESOLUTION  *)
(* is read once or twice, with no lock, and then stored.                   *)

Goto(c, l, v) == change' = [change EXCEPT ![c] = [pc |-> l, to |-> v]]

\* CONFIG_RESOLUTION is compared with '0'
ChangeRes(c) ==
  /\ change[c].pc = "idle" /\ changes < MaxChanges
  /\ IF config = 0 THEN Goto(c, "store", 1) ELSE Goto(c, "test", 0)
  /\ changes' = changes + 1
  /\ UNCHANGED <<cam, counts, arrays, config>>

\* and then with '1'
ChangeTest(c) ==
  /\ change[c].pc = "test"
  /\ Goto(c, "store", IF config = 1 THEN 2 ELSE 0)
  /\ UNCHANGED <<cam, counts, arrays, config, changes>>

ChangeStore(c) ==
  /\ change[c].pc = "store"
  /\ config' = change[c].to
  /\ Goto(c, "idle", 0)
  /\ UNCHANGED <<cam, counts, arrays, changes>>

-----------------------------------------------------------------------------
CamPass ==
  \/ CamFails \/ CamSkips \/ CamRequeueFails \/ CamKeep
  \/ \E d \in BOOLEAN : CamGroupAll(d)
  \/ \E b \in BOOLEAN : CamGroupLast(b)
  \/ CamGroupNone

Change(c) == ChangeRes(c) \/ ChangeTest(c) \/ ChangeStore(c)

Next ==
  \/ CamOpen \/ CamOpenFails \/ CamOpened \/ CamPass
  \/ \E c \in Clients : Change(c)

Spec == Init /\ [][Next]_vars

\* The loop turns at least every 10 seconds, frame or no frame, and the camera
\* is there again some time.
FairSpec == Spec /\ WF_vars(CamOpen) /\ WF_vars(CamOpened)

-----------------------------------------------------------------------------
(* Properties. *)

\* When a group is completed the one before has been handed over: the assert
\* of cam_thread holds.  The two arrays are used in step, whatever passes are
\* skipped or fail between.
ArraysInStep == nfa = Interval - 1 => pfa = Interval

\* No frame is lost or freed twice: the frames allocated are those the arrays
\* point to, each from one place, also after a failure in any pass.
NothingLeaked ==
  /\ heap = Held(newArr) \cup Held(procArr)
  /\ Held(newArr) \cap Held(procArr) = {}
  /\ \A arr \in {newArr, procArr} : \A s, t \in Slots :
       arr[s] = arr[t] /\ arr[s] # None => s = t

\* However still the picture, frames keep coming while the camera works: 58 at
\* most are received without one being handed over.  At 10 frames per second that is well below
\* the 10 seconds after which the recorder writes a gap frame.
SilenceBounded == ~needed => recvd - last <= Silence + 2 * Interval - 2

\* Frames are handed over in the order they were received, each 4 frames after
\* it was received: much less than the 2 seconds it stays in the list.
HandedInTime ==
  [][last' \notin {None, last} => last' > last /\ recvd' - last' = Interval - 1]_vars

\* As long as the camera works, a frame is dropped only if there was no motion
\* when it was received nor in the 10 frames before it, as far as groups tell.
DroppedOnlyStill ==
  [][pc' = "run" =>
       \A f \in heap \ heap' : f = last' \/ f > lastMotion + Hold]_vars

\* Whatever the service threads do to the setting at the same time, and however
\* often the camera fails, it ends up with the resolution that was set last.
ResolutionFollows ==
  \A r \in ResValues : <>[](config = r) => <>[](format = r)

=============================================================================
