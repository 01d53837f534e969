----------------------------- MODULE FrameList -----------------------------
(***************************************************************************)
(* proc_frame_list of wc_webcam.c: the list of camera frames shared by the *)
(* camera thread, which inserts and frees frames, one service thread per   *)
(* connected viewer (live mode) and the thread that records to rp.dat.     *)
(*                                                                         *)
(* A frame is named by its insertion number.  Frames are only ever added   *)
(* at the tail (TAILQ_INSERT_TAIL), so the order of the TAILQ is the order *)
(* of these numbers and the list is modelled by the set of its frames.     *)
(* Every access of the list and of a ref_count is made under               *)
(* proc_frame_list_mutex: one critical section is one step.  A frame is    *)
(* sent, or written to the file, outside the mutex: that is a pc of its    *)
(* own, during which the buffer of the held frame is being read.           *)
(***************************************************************************)
EXTENDS Integers, FiniteSets

CONSTANTS
  Clients,    \* connections a viewer may open to the server
  Writer,     \* rp_write_file_frame_thread
  MaxFrames   \* bound: frames inserted in one behaviour

ASSUME FrameListAssumption ==
  /\ IsFiniteSet(Clients)
  /\ Writer \notin Clients
  /\ MaxFrames \in Nat

Threads == Clients \cup {Writer}
Frames == 1 .. MaxFrames
NoFrame == 0

VARIABLES
  inserted,   \* frames inserted so far, by their numbers 1 .. inserted
  list,       \* the frames now in proc_frame_list
  ref,        \* frame_t.ref_count
  aged,       \* frames 1 .. aged were captured more than 2 seconds ago
  held,       \* live_frame of a client, record_frame of the writer
  pc,
  mode,       \* mode.mode of a service thread
  modeIsNew,  \* mode_is_new of a service thread
  taken       \* history: frames a thread took since it last held none

vars == <<inserted, list, ref, aged, held, pc, mode, modeIsNew, taken>>

Modes == {"NONE", "LIVE", "PLAYBACK"}
ClientPCs == {"off", "recv", "mode", "send", "done"}
WriterPCs == {"sync", "scan", "write", "exited"}

\* Types; a reference count is never negative.
TypeOK ==
  /\ inserted \in 0 .. MaxFrames
  /\ list \in SUBSET Frames
  /\ ref \in [Frames -> Nat]
  /\ aged \in 0 .. MaxFrames
  /\ held \in [Threads -> {NoFrame} \cup Frames]
  /\ pc \in [Threads -> ClientPCs \cup WriterPCs]
  /\ mode \in [Clients -> Modes]
  /\ modeIsNew \in [Clients -> BOOLEAN]
  /\ taken \in [Threads -> SUBSET Frames]

Init ==
  /\ inserted = 0
  /\ list = {}
  /\ ref = [f \in Frames |-> 0]
  /\ aged = 0
  /\ held = [t \in Threads |-> NoFrame]
  /\ pc = [t \in Threads |-> IF t = Writer THEN "sync" ELSE "off"]
  /\ mode = [c \in Clients |-> "NONE"]
  /\ modeIsNew = [c \in Clients |-> FALSE]
  /\ taken = [t \in Threads |-> {}]

-----------------------------------------------------------------------------
(* Helpers. *)

\* f is TAILQ_LAST of the list
IsLast(f) == f \in list /\ \A g \in list : g <= f

\* mutant: jump to the newest frame in place of the next one
BugJumpToNewest(t, f) == f > held[t] /\ IsLast(f)

\* f is TAILQ_NEXT of the frame that t holds
IsNext(t, f) ==
  f \in list /\ f > held[t] /\ \A g \in list : g > held[t] => f <= g

\* t finds nothing new in the list
AtEnd(t) == list = {} \/ IsLast(held[t])

\* mutant: a thread that holds a frame never moves on
BugNeverAdvance(t, f) == held[t] = NoFrame /\ IsLast(f)

\* the frame t takes: the newest when it holds none, else the one after its own
Takes(t, f) == IF held[t] = NoFrame THEN IsLast(f) ELSE IsNext(t, f)

\* the critical section that gives up the frame held and takes f
Take(t, f) ==
  /\ Takes(t, f)
  /\ held' = [held EXCEPT ![t] = f]
  /\ ref' = [g \in Frames |-> IF g = f THEN ref[g] + 1
                              ELSE IF g = held[t] THEN ref[g] - 1 ELSE ref[g]]
  /\ taken' = [taken EXCEPT ![t] = @ \cup {f}]

\* mutant: live_frame is cleared and its ref_count kept
BugKeepCount(c) ==
  /\ ref' = ref
  /\ held' = [held EXCEPT ![c] = NoFrame]
  /\ taken' = [taken EXCEPT ![c] = {}]

\* REMOVE_LIVE_FRAME_REFERENCE
DropReference(c) ==
  /\ ref' = [g \in Frames |-> IF g = held[c] THEN ref[g] - 1 ELSE ref[g]]
  /\ held' = [held EXCEPT ![c] = NoFrame]
  /\ taken' = [taken EXCEPT ![c] = {}]

Goto(t, l) == pc' = [pc EXCEPT ![t] = l]

-----------------------------------------------------------------------------
(* Time and the camera thread. *)

\* The oldest young frame becomes 2 seconds old; the frame about to be
\* inserted may already be, as the camera thread blocks in DQBUF and decode.
Age ==
  /\ aged < MaxFrames /\ aged <= inserted
  /\ aged' = aged + 1
  /\ UNCHANGED <<inserted, list, ref, held, pc, mode, modeIsNew, taken>>

\* mutant: frames in use are freed too
BugCollectInUse(l) == {f \in l : f > aged}

\* mutant: the collection loop stops at the first frame in use
BugStopAtInUse(l) == {f \in l : f > aged \/ \E g \in l : g <= f /\ ref[g] # 0}

\* what the collection loop leaves of a list l: young frames and those in use
Collected(l) == {f \in l : f > aged \/ ref[f] # 0}

\* one pass of the camera loop with a frame in proc_frame_array
CamInsert ==
  /\ inserted < MaxFrames
  /\ inserted' = inserted + 1
  /\ list' = Collected(list \cup {inserted + 1})
  /\ UNCHANGED <<ref, aged, held, pc, mode, modeIsNew, taken>>

\* one pass of the camera loop with no frame to insert
CamCollect ==
  /\ list' = Collected(list)
  /\ UNCHANGED <<inserted, ref, aged, held, pc, mode, modeIsNew, taken>>

-----------------------------------------------------------------------------
(* The service thread of a connection. *)

SvcConnect(c) ==
  /\ pc[c] = "off"
  /\ Goto(c, "recv")
  /\ mode' = [mode EXCEPT ![c] = "NONE"]
  /\ modeIsNew' = [modeIsNew EXCEPT ![c] = FALSE]
  /\ UNCHANGED <<inserted, list, ref, aged, held, taken>>

\* no command, or one that leaves the mode alone; the status message is sent
SvcNoCommand(c) ==
  /\ pc[c] = "recv"
  /\ Goto(c, "mode")
  /\ UNCHANGED <<inserted, list, ref, aged, held, mode, modeIsNew, taken>>

\* MSG_TYPE_CMD_SET_MODE
SvcSetMode(c, m) ==
  /\ pc[c] = "recv"
  /\ mode' = [mode EXCEPT ![c] = m]
  /\ modeIsNew' = [modeIsNew EXCEPT ![c] = TRUE]
  /\ Goto(c, "mode")
  /\ UNCHANGED <<inserted, list, ref, aged, held, taken>>

\* net_recv fails, the command is invalid, or sending the status fails
SvcRecvFail(c) ==
  /\ pc[c] = "recv"
  /\ Goto(c, "done")
  /\ UNCHANGED <<inserted, list, ref, aged, held, mode, modeIsNew, taken>>

\* every mode starts by giving up the live frame of the mode before
SvcEnterMode(c) ==
  /\ pc[c] = "mode" /\ modeIsNew[c]
  /\ DropReference(c)
  /\ modeIsNew' = [modeIsNew EXCEPT ![c] = FALSE]
  /\ UNCHANGED <<inserted, list, aged, pc, mode>>

SvcLiveTake(c, f) ==
  /\ pc[c] = "mode" /\ ~modeIsNew[c] /\ mode[c] = "LIVE"
  /\ Take(c, f)
  /\ Goto(c, "send")
  /\ UNCHANGED <<inserted, list, aged, mode, modeIsNew>>

\* too soon to send, or no new frame in the list
SvcLiveSkip(c) ==
  /\ pc[c] = "mode" /\ ~modeIsNew[c] /\ mode[c] = "LIVE"
  /\ Goto(c, "recv")
  /\ UNCHANGED <<inserted, list, ref, aged, held, mode, modeIsNew, taken>>

\* the playback and none branches do not touch the list; playback may fail
SvcOtherMode(c) ==
  /\ pc[c] = "mode" /\ ~modeIsNew[c] /\ mode[c] # "LIVE"
  /\ \/ Goto(c, "recv")
     \/ mode[c] = "PLAYBACK" /\ Goto(c, "done")
  /\ UNCHANGED <<inserted, list, ref, aged, held, mode, modeIsNew, taken>>

\* SEND_MSG_FRAME of live_frame has returned, with success or with failure
SvcSent(c) ==
  /\ pc[c] = "send"
  /\ Goto(c, "recv") \/ Goto(c, "done")
  /\ UNCHANGED <<inserted, list, ref, aged, held, mode, modeIsNew, taken>>

SvcDone(c) ==
  /\ pc[c] = "done"
  /\ DropReference(c)
  /\ Goto(c, "off")
  /\ UNCHANGED <<inserted, list, aged, mode, modeIsNew>>

-----------------------------------------------------------------------------
(* The thread that writes frames to rp.dat. *)

\* ntp_synced: recording starts
WriterStart ==
  /\ pc[Writer] = "sync"
  /\ Goto(Writer, "scan")
  /\ UNCHANGED <<inserted, list, ref, aged, held, mode, modeIsNew, taken>>

WriterTake(f) ==
  /\ pc[Writer] = "scan"
  /\ Take(Writer, f)
  /\ Goto(Writer, "write")
  /\ UNCHANGED <<inserted, list, aged, mode, modeIsNew>>

\* the frame is written, or skipped for its time
WriterWrote ==
  /\ pc[Writer] = "write"
  /\ Goto(Writer, "scan")
  /\ UNCHANGED <<inserted, list, ref, aged, held, mode, modeIsNew, taken>>

\* a frame, a gap frame or the file header cannot be written: the thread
\* returns with its reference to record_frame
WriterFail ==
  /\ pc[Writer] \in {"scan", "write"}
  /\ Goto(Writer, "exited")
  /\ UNCHANGED <<inserted, list, ref, aged, held, mode, modeIsNew, taken>>

-----------------------------------------------------------------------------
SvcNext(c) ==
  \/ SvcConnect(c) \/ SvcNoCommand(c) \/ SvcRecvFail(c)
  \/ \E m \in Modes : SvcSetMode(c, m)
  \/ SvcEnterMode(c) \/ SvcLiveSkip(c) \/ SvcOtherMode(c)
  \/ \E f \in Frames : SvcLiveTake(c, f)
  \/ SvcSent(c) \/ SvcDone(c)

WriterNext ==
  \/ WriterStart \/ WriterWrote \/ WriterFail
  \/ \E f \in Frames : WriterTake(f)

Next ==
  \/ Age \/ CamInsert \/ CamCollect
  \/ \E c \in Clients : SvcNext(c)
  \/ WriterNext

Spec == Init /\ [][Next]_vars

(* The camera loop turns with every frame received.  A connected service   *)
(* thread keeps looping, net_send returns within its 10 second timeout,    *)
(* and the minimum send interval of a live client runs out, so that a      *)
(* frame it could take again and again is taken (strong fairness).         *)
Fairness ==
  /\ WF_vars(CamCollect)
  /\ WF_vars(WriterStart) /\ WF_vars(WriterWrote)
  /\ WF_vars(\E f \in Frames : WriterTake(f))
  /\ \A c \in Clients :
       /\ WF_vars(SvcEnterMode(c) \/ SvcOtherMode(c) \/ SvcLiveSkip(c))
       /\ WF_vars(SvcNoCommand(c)) /\ WF_vars(SvcSent(c)) /\ WF_vars(SvcDone(c))
       /\ SF_vars(\E f \in Frames : SvcLiveTake(c, f))

FairSpec == Spec /\ Fairness

-----------------------------------------------------------------------------
(* Properties. *)

\* A buffer a thread holds, and reads without the mutex while it sends or
\* writes it, has not been freed by the camera thread.
NoUseAfterFree == \A t \in Threads : held[t] # NoFrame => held[t] \in list

Holders(f) == {t \in Threads : held[t] = f}

\* ref_count of a frame in the list counts the threads that hold it, whatever
\* they did: none is lost and none is kept after a mode change or disconnect.
RefCountExact == \A f \in list : ref[f] = Cardinality(Holders(f))

\* A thread that follows the list misses a frame only when the frame had been
\* there for more than 2 seconds: no frame is skipped or taken out of order.
MissedOnlyIfAged ==
  \A t \in Threads : \A s \in taken[t], f \in Frames :
    s < f /\ f <= held[t] /\ f \notin taken[t] => f <= aged

\* Memory does not leak: a frame more than 2 seconds old does not stay in the
\* list for good unless some thread holds it.
OldFramesReclaimed ==
  \A f \in Frames : []<>(f \in list /\ f <= aged => Holders(f) # {})

\* c is in live mode, has entered it, and has not taken the last frame yet.
Behind(c) ==
  pc[c] \in {"recv", "mode", "send"} /\ mode[c] = "LIVE" /\ ~modeIsNew[c] /\ ~AtEnd(c)

\* A client in live mode does not stay on one frame, or without one, while the
\* list has a newer one, however long its own frame is gone from the list.  It
\* need not come up with the camera: it takes one TAILQ_NEXT per send interval
\* (200 ms unless the viewer asks for another, frames come every 100 ms).
LiveAdvances ==
  \A c \in Clients, f \in {NoFrame} \cup Frames : []<>~(held[c] = f /\ Behind(c))

=============================================================================
