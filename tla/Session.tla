------------------------------ MODULE Session ------------------------------
(***************************************************************************)
(* One pane of the viewer and the webcam it is connected to: the control   *)
(* mode set by the user (display_handler of viewer.c), the thread of the   *)
(* pane (webcam_thread of viewer.c) and the thread that serves it on the   *)
(* webcam (wc_svc_webcam of wc_webcam.c).                                  *)
(*                                                                         *)
(* The threads share no memory but the control mode.  The pane sends the   *)
(* mode to the webcam under an increasing mode_id, the webcam answers with *)
(* frames stamped with that id, and the pane throws away frames of modes   *)
(* it has left.  The link may break at any time; the pane then reconnects. *)
(*                                                                         *)
(* A link carries whole messages in order (MsgRecv looks at messages that  *)
(* arrive in parts).  Time is counted in recorded frames.  Commands that   *)
(* only set the send interval or the resolution are left out: the interval *)
(* is a choice to skip a turn.                                             *)
(***************************************************************************)
EXTENDS Integers, Sequences

CONSTANTS
  MaxModes,   \* bound: changes of the control mode
  MaxTime,    \* bound: the clock
  MaxQueue,   \* messages to the pane that the link holds before net_send blocks
  Rates,      \* pb_dir and pb_speed, as one signed number
  Starts      \* kinds of mode the viewer may be in when the pane gets its webcam

ASSUME SessionAssumption ==
  /\ MaxModes \in Nat /\ MaxTime \in Nat /\ MaxQueue \in Nat
  /\ MaxModes > 1 /\ MaxTime > 1 /\ MaxQueue > 0
  /\ Rates \subseteq Int /\ 1 \in Rates
  /\ Starts \subseteq {"LIVE", "PLAY"}

VARIABLES
  now,      \* get_real_time_us
  eod,      \* time the newest recorded frame is valid through (0: none)
  rpOk,     \* rp_status of the webcam: OK, or SYSTEM_CLOCK_NOT_SET
  ctl,      \* mode, the control mode of the viewer
  wc,       \* the pane: webcam_t and the place of its thread
  shown,    \* the frame message the pane displays (NoFrame: text), and its mode then
  up,       \* commands on their way to the webcam
  down,     \* messages on their way to the pane
  svc       \* the service thread of the current connection

viewer == <<ctl, wc, shown>>
webcam == <<now, eod, rpOk>>
vars == <<now, eod, rpOk, ctl, wc, shown, up, down, svc>>

Bod == 1                        \* time of the oldest recorded frame
NoTime == -(MaxTime * MaxTime * MaxModes)   \* a time no mode reaches
Kinds == {"NONE", "LIVE", "STOP", "PAUSE", "PLAY"}
Mode == [id : 0 .. MaxModes, kind : Kinds, entry : Nat, time : Int, rate : Int]
NoMode == [id |-> 0, kind |-> "NONE", entry |-> 0, time |-> 0, rate |-> 1]

Statuses == {"OK", "STOPPED", "FILE_EMPTY", "BEFORE_BOD", "AFTER_EOD"}
Frame == [id : 0 .. MaxModes, status : Statuses, kind : Kinds, time : Int]
NoFrame == [id |-> 0, status |-> "STOPPED", kind |-> "NONE", time |-> 0]

Nothing == [frame |-> NoFrame, mode |-> NoMode]

Status(ok) == [type |-> "STATUS", rpOk |-> ok]
FrameMsg(f) == [type |-> "FRAME", frame |-> f]
Messages == [type : {"STATUS"}, rpOk : BOOLEAN] \cup [type : {"FRAME"}, frame : Frame]

\* live: mode.mode as read for a copy; histories: torn, it changed before the
\* rest was read; answered, frameStatus came in this mode
Pane == [state : {"idle", "connected"}, pc : {"check", "copy", "recv"}, mode : Mode,
         live : BOOLEAN, torn : BOOLEAN,
         rpOk : BOOLEAN, frameStatus : Statuses, answered : BOOLEAN]

SvcState == [pc : {"recv", "mode", "send", "done"}, out : Frame, mode : Mode, isNew : BOOLEAN,
             stopSent : BOOLEAN, pauseSent : BOOLEAN, pauseFailed : BOOLEAN,
             covered : Int]

NewService == [pc |-> "recv", out |-> NoFrame, mode |-> NoMode, isNew |-> FALSE,
               stopSent |-> FALSE, pauseSent |-> FALSE, pauseFailed |-> FALSE,
               covered |-> NoTime]

NoService == [NewService EXCEPT !.pc = "done"]

\* not connected: nothing else is read before a connection clears it
IdlePane == [state |-> "idle", pc |-> "check", mode |-> NoMode, live |-> FALSE, torn |-> FALSE,
             rpOk |-> TRUE, frameStatus |-> "OK", answered |-> FALSE]

\* Types; modes and queues stay within their bounds.
TypeOK ==
  /\ now \in 1 .. MaxTime /\ eod \in 0 .. now /\ rpOk \in BOOLEAN
  /\ ctl \in Mode /\ wc \in Pane /\ shown \in [frame : Frame, mode : Mode]
  /\ up \in Seq(Mode) /\ Len(up) <= MaxModes
  /\ down \in Seq(Messages) /\ Len(down) <= MaxQueue
  /\ svc \in SvcState

\* SET_CTL_MODE_LIVE by main; or playback, with other panes, before this one
\* had a webcam (modes are counted so that one more change is made)
FirstMode(kind) ==
  IF kind = "LIVE" THEN [id |-> 1, kind |-> "LIVE", entry |-> 0, time |-> 0, rate |-> 1]
  ELSE [id |-> MaxModes - 1, kind |-> kind, entry |-> 2, time |-> 1, rate |-> 1]

Init ==
  /\ now = 2 /\ eod \in {0, 1} /\ rpOk \in BOOLEAN
  /\ ctl \in {FirstMode(k) : k \in Starts}
  /\ wc = IdlePane
  /\ shown = Nothing
  /\ up = <<>> /\ down = <<>>
  /\ svc = NoService

-----------------------------------------------------------------------------
(* Time and recording. *)

Tick ==
  /\ now < MaxTime /\ now' = now + 1
  /\ UNCHANGED <<eod, rpOk, viewer, up, down, svc>>

\* rp_write_file_frame_thread records up to now, or a gap frame for the past
Record ==
  /\ rpOk /\ eod < now /\ eod' = now
  /\ UNCHANGED <<now, rpOk, viewer, up, down, svc>>

\* the webcam's clock is set
ClockSynced ==
  /\ ~rpOk /\ rpOk' = TRUE
  /\ UNCHANGED <<now, eod, viewer, up, down, svc>>

-----------------------------------------------------------------------------
(* The user: display_handler and the SET_CTL_MODE macros. *)

\* PB_SUBMODE_PLAY_REAL_TIME_US
Position(m) == m.time + (now - m.entry) * m.rate

\* the playback time at which a mode is left
TimeOf(m) == IF m.kind = "PLAY" THEN Position(m) ELSE m.time

SetCtl(kind, time, rate) ==
  /\ ctl.id < MaxModes
  /\ ctl' = [id |-> ctl.id + 1, kind |-> kind, entry |-> now, time |-> time, rate |-> rate]
  /\ UNCHANGED <<webcam, wc, shown, up, down, svc>>

Playback == ctl.kind \in {"STOP", "PAUSE", "PLAY"}

Least(a, b) == IF a <= b THEN a ELSE b

\* MOUSE_EVENT_MODE_SELECT: playback starts as a pause a moment ago
SelectMode ==
  IF Playback THEN SetCtl("LIVE", 0, 1) ELSE SetCtl("PAUSE", now - 1, 1)

\* SET_CTL_MODE_PLAYBACK_STOP(false)
StopPlayback == SetCtl("STOP", Least(TimeOf(ctl), now), ctl.rate)

SelectStop == Playback /\ ctl.kind # "STOP" /\ StopPlayback
SelectPause == Playback /\ ctl.kind # "PAUSE" /\ SetCtl("PAUSE", TimeOf(ctl), ctl.rate)
SelectPlay == Playback /\ ctl.kind # "PLAY" /\ SetCtl("PLAY", TimeOf(ctl), ctl.rate)

\* FORWARD, REVERSE, FASTER and SLOWER
SelectRate(r) == Playback /\ r # ctl.rate /\ SetCtl(ctl.kind, TimeOf(ctl), r)

\* HOUR and MINUTE, PLUS and MINUS
SelectTime(d) ==
  /\ Playback
  /\ SetCtl(IF ctl.kind = "STOP" THEN "PAUSE" ELSE ctl.kind,
            Least(TimeOf(ctl) + d, now - 1), ctl.rate)

\* "all connected webcam are eod or bod"
AtEnd ==
  wc.state = "connected" =>
    wc.frameStatus = (IF ctl.rate > 0 THEN "AFTER_EOD" ELSE "BEFORE_BOD")

AutoStop == ctl.kind = "PLAY" /\ AtEnd /\ StopPlayback

-----------------------------------------------------------------------------
(* The thread of the pane: webcam_thread. *)

\* mutant: the mode of the last connection is kept
BugFreshMode == wc.mode

\* bzero of wc->mode by a new connection
FreshMode == NoMode

ViewerConnect ==
  /\ wc.state = "idle"
  /\ wc' = [IdlePane EXCEPT !.state = "connected", !.mode = FreshMode]
  /\ shown' = Nothing
  /\ up' = <<>> /\ down' = <<>>
  /\ svc' = NewService
  /\ UNCHANGED <<webcam, ctl>>

\* CONNECT ERROR; it is tried again
ViewerConnectFails == wc.state = "idle" /\ UNCHANGED vars

\* net_send or net_recv fails or times out, or another webcam is selected;
\* the service thread of the connection ends too, and nobody hears of it again
ViewerDisconnect ==
  /\ wc.state = "connected" /\ wc.pc # "copy"
  /\ wc' = [IdlePane EXCEPT !.mode = wc.mode]
  /\ shown' = Nothing
  /\ up' = <<>> /\ down' = <<>>
  /\ svc' = NoService
  /\ UNCHANGED <<webcam, ctl>>

\* LIVE MODE or PLAYBACK MODE is displayed
Enters(m) == (m.kind = "LIVE") # (wc.mode.kind = "LIVE") \/ wc.mode.kind = "NONE"

InPlayback(m) == m.kind \in {"STOP", "PAUSE", "PLAY"}

\* the status of the recording is displayed while it is not OK
Covered(m, f) == IF InPlayback(m) /\ ~wc.rpOk THEN Nothing ELSE f

ModeChanged == wc.mode.id # ctl.id

\* the first half of a pass: the id is compared; if it changed mode.mode is read,
\* to see what is entered and as the first word of the copy
ViewerCheck ==
  /\ wc.state = "connected" /\ wc.pc = "check"
  /\ IF ModeChanged
     THEN /\ wc' = [wc EXCEPT !.pc = "copy", !.live = ctl.kind = "LIVE"]
          /\ UNCHANGED shown
     ELSE /\ wc' = [wc EXCEPT !.pc = "recv"]
          /\ shown' = Covered(wc.mode, shown)
  /\ UNCHANGED <<webcam, ctl, up, down, svc>>

\* the mode with a mode.mode read before; a live mode has pb_submode STOP
CopyOf(m, live) ==
  [m EXCEPT !.kind = IF live THEN "LIVE" ELSE IF @ = "LIVE" THEN "STOP" ELSE @]

\* the rest of the struct, from mode_id on, is copied, and the copy sent
ViewerCopy ==
  /\ wc.pc = "copy"
  /\ LET m == CopyOf(ctl, wc.live)
     IN  /\ wc' = [wc EXCEPT !.pc = "recv", !.mode = m, !.live = FALSE, !.answered = FALSE,
                             !.torn = wc.live # (ctl.kind = "LIVE")]
         /\ shown' = Covered(m, IF Enters(m) THEN Nothing ELSE shown)
         /\ up' = Append(up, m)
  /\ UNCHANGED <<webcam, ctl, down, svc>>

\* mutant: frames of modes that were left are displayed
BugDiscards(f) == InPlayback(wc.mode) /\ ~wc.rpOk

\* the frame is of another mode, or the status of this mode is not OK
Discards(f) == f.id # wc.mode.id \/ (InPlayback(wc.mode) /\ ~wc.rpOk)

Receiving == wc.state = "connected" /\ wc.pc = "recv"

ViewerNothing ==
  /\ Receiving /\ down = <<>>
  /\ wc' = [wc EXCEPT !.pc = "check"]
  /\ UNCHANGED <<webcam, ctl, shown, up, down, svc>>

ViewerStatus ==
  /\ Receiving /\ down # <<>> /\ Head(down).type = "STATUS"
  /\ wc' = [wc EXCEPT !.pc = "check", !.rpOk = Head(down).rpOk]
  /\ down' = Tail(down)
  /\ UNCHANGED <<webcam, ctl, shown, up, svc>>

ViewerFrame ==
  /\ Receiving /\ down # <<>> /\ Head(down).type = "FRAME"
  /\ LET f == Head(down).frame
     IN  IF Discards(f) THEN /\ wc' = [wc EXCEPT !.pc = "check"]
                             /\ UNCHANGED shown
         ELSE /\ wc' = [wc EXCEPT !.pc = "check", !.frameStatus = f.status,
                                  !.answered = TRUE]
              /\ shown' = [frame |-> f, mode |-> wc.mode]
  /\ down' = Tail(down)
  /\ UNCHANGED <<webcam, ctl, up, svc>>

-----------------------------------------------------------------------------
(* The service thread: wc_svc_webcam. *)

\* a command, if there is one, and once per second a status message
SvcRecv ==
  /\ svc.pc = "recv"
  /\ IF up = <<>> THEN svc' = [svc EXCEPT !.pc = "mode"] /\ UNCHANGED up
     ELSE /\ svc' = [svc EXCEPT !.pc = "mode", !.mode = Head(up), !.isNew = TRUE]
          /\ up' = Tail(up)
  /\ \/ UNCHANGED down
     \/ Len(down) < MaxQueue /\ down' = Append(down, Status(rpOk))
  /\ UNCHANGED <<webcam, viewer>>

\* mutant: what was sent in the mode before is not forgotten
BugEntered == [svc EXCEPT !.isNew = FALSE]

\* the state of the thread once a new mode has been entered
Entered ==
  IF svc.isNew /\ InPlayback(svc.mode)
  THEN [NewService EXCEPT !.pc = "mode", !.mode = svc.mode]
  ELSE [svc EXCEPT !.isNew = FALSE]

InMode(k) == svc.pc = "mode" /\ svc.mode.kind = k

\* SEND_MSG_FRAME is called; the thread has the state s then
SendFrame(status, time, s) ==
  /\ svc' = [s EXCEPT !.pc = "send",
                      !.out = [id |-> svc.mode.id, status |-> status,
                               kind |-> svc.mode.kind, time |-> time]]
  /\ UNCHANGED <<webcam, viewer, up, down>>

\* net_send returns: the link had room for the frame
SvcSent ==
  /\ svc.pc = "send" /\ Len(down) < MaxQueue
  /\ down' = Append(down, FrameMsg(svc.out))
  /\ svc' = [svc EXCEPT !.pc = "recv", !.out = NoFrame]
  /\ UNCHANGED <<webcam, viewer, up>>

\* the next pass, nothing being sent
Continue(s) ==
  /\ svc' = [s EXCEPT !.pc = "recv"]
  /\ UNCHANGED <<webcam, viewer, up, down>>

\* status of rp_read_frame_by_real_time_us
ReadStatus(t) ==
  IF eod = 0 THEN "FILE_EMPTY"
  ELSE IF t < Bod THEN "BEFORE_BOD" ELSE IF t > eod THEN "AFTER_EOD" ELSE "OK"

\* a new frame of the camera
SvcLive == InMode("LIVE") /\ SendFrame("OK", 0, Entered)

\* too soon to send, or no new frame
SvcLiveSkip == InMode("LIVE") /\ Continue(Entered)

SvcNone == InMode("NONE") /\ Continue(Entered)

SvcStop ==
  /\ InMode("STOP")
  /\ IF Entered.stopSent THEN Continue(Entered)
     ELSE SendFrame("STOPPED", 0, [Entered EXCEPT !.stopSent = TRUE])

\* mutant: the pause frame is not tried again after the end of data
BugSettles(st) == TRUE

\* "if status is AFTER_EOD then we'll continue to try"
Settles(st) == st # "AFTER_EOD"

SvcPause ==
  /\ InMode("PAUSE") /\ ~Entered.pauseSent
  /\ LET t == svc.mode.time
         st == ReadStatus(t)
         s == [Entered EXCEPT !.pauseSent = Settles(st),
                              !.pauseFailed = @ \/ st # "OK",
                              !.covered = IF st = "OK" THEN t ELSE @]
     IN  IF st # "OK" /\ Entered.pauseFailed THEN Continue(s) ELSE SendFrame(st, t, s)

\* the pause frame was sent, or failed to be read within the last second
SvcPauseSkip ==
  /\ InMode("PAUSE") /\ (Entered.pauseSent \/ Entered.pauseFailed)
  /\ Continue(Entered)

SvcPlay ==
  /\ InMode("PLAY") /\ Position(svc.mode) # Entered.covered
  /\ LET t == Position(svc.mode)
         st == ReadStatus(t)
     IN  SendFrame(st, t, [Entered EXCEPT !.covered = IF st = "OK" THEN t ELSE @])

\* the frame last read covers the time, or it is too soon to read or to send
SvcPlaySkip == InMode("PLAY") /\ Continue(Entered)

\* net_recv or net_send fails; commands on their way are lost
SvcFail ==
  /\ svc.pc # "done"
  /\ svc' = NoService /\ up' = <<>>
  /\ UNCHANGED <<webcam, viewer, down>>

-----------------------------------------------------------------------------
Control ==
  \/ SelectMode \/ SelectStop \/ SelectPause \/ SelectPlay
  \/ \E r \in Rates : SelectRate(r)
  \/ \E d \in {-1, 1} : SelectTime(d)

Viewer ==
  \/ ViewerConnect \/ ViewerConnectFails \/ ViewerDisconnect
  \/ ViewerCheck \/ ViewerCopy \/ ViewerNothing \/ ViewerStatus \/ ViewerFrame

Service ==
  \/ SvcRecv \/ SvcNone \/ SvcLive \/ SvcLiveSkip \/ SvcStop
  \/ SvcPause \/ SvcPauseSkip \/ SvcPlay \/ SvcPlaySkip
  \/ SvcSent \/ SvcFail

Next ==
  \/ Tick \/ Record \/ ClockSynced
  \/ Control \/ AutoStop \/ Viewer \/ Service

Spec == Init /\ [][Next]_vars

(* Both loops turn every few milliseconds, and their sends and receives     *)
(* have timeouts.  A service thread that ended is noticed by the pane at   *)
(* the latest when no status message came for 10 seconds.  The intervals   *)
(* between reads and between sends run out, so that a frame that could be  *)
(* sent again and again is sent (strong fairness).  The user, the clock    *)
(* and the link owe nothing.                                               *)
Fairness ==
  /\ WF_vars(Record) /\ WF_vars(AutoStop)
  /\ WF_vars(\/ ViewerConnect \/ ViewerCheck \/ ViewerCopy
             \/ ViewerNothing \/ ViewerStatus \/ ViewerFrame)
  /\ WF_vars(svc.pc = "done" /\ ViewerDisconnect)
  /\ WF_vars(\/ SvcRecv \/ SvcSent \/ SvcNone \/ SvcStop
             \/ SvcLiveSkip \/ SvcPauseSkip \/ SvcPlaySkip)
  /\ SF_vars(SvcLive) /\ SF_vars(SvcPause) /\ SF_vars(SvcPlay)

FairSpec == Spec /\ Fairness

-----------------------------------------------------------------------------
(* Properties. *)

\* A pane never shows, under a mode, a frame the webcam sent for another one:
\* whatever is in flight when the user changes the mode or the link breaks.
ShownFits ==
  shown # Nothing =>
    LET f == shown.frame  m == shown.mode
    IN  /\ f.kind = m.kind
        /\ m.kind = "STOP" <=> f.status = "STOPPED"
        /\ m.kind = "PAUSE" => f.time = m.time
        /\ m.kind = "PLAY" => (f.time - m.time) * m.rate >= 0

Running == wc.state = "connected" /\ svc.pc # "done"

\* The pane has the mode the user chose, or one that was torn when the user
\* switched between live and playback amid its copy.
Copied == wc.mode = ctl \/ wc.torn

\* The webcam gets to know the mode the user chose, on every connection.
ServerFollows == []<>(Running => svc.mode = wc.mode /\ Copied)

\* Once the clock of the webcam is set, a connected pane gets an answer in
\* every mode: it does not stay on what it showed before.  (The window is not
\* minimized: its text would replace an answer that is sent only once.)
PaneSettles == []rpOk => []<>(Running => shown.mode = wc.mode /\ Copied)

\* A pause at a time that is not recorded yet shows its frame once it is.  (In
\* an empty file the pause is not tried again: only AFTER_EOD is.)
PauseFrameArrives ==
  [](rpOk /\ eod > 0) => []<>(Running /\ ctl.kind = "PAUSE" /\ ctl.time \in Bod .. now
                   => wc.torn \/ (shown.mode = ctl /\ shown.frame.status = "OK"))

\* The display does not stop playback at the end of data unless the webcam
\* said, in this mode, that it is at the end, or it is there.
StopsOnlyAtEnd ==
  ctl.kind = "PLAY" /\ wc.state = "connected" /\ AtEnd =>
    (wc.answered /\ wc.mode.id = ctl.id) \/ ReadStatus(Position(ctl)) # "OK"

=============================================================================
