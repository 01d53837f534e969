# TLA+ specifications of proj_cam2

proj_cam2 is a webcam server (`wc`: `wc_main.c`, `wc_webcam.c`) and a viewer
(`viewer.c`) that talk over TCP (`net.c`). The server captures jpeg frames from
a camera, serves them live, records them to a fixed-size ring file `rp.dat`, and
plays the recording back. The viewer shows up to several panes, each connected
to one webcam, and lets the user go back and forth in time.

This directory holds TLA+ modules for the parts of that system whose
correctness depends on order, concurrency, failure or boundary arithmetic, TLC
configurations that check them on small instances, and TLAPS proofs of their
safety properties for all values of the constants.

- [1 Inventory](#1-inventory)
- [2 Modules and how they correspond to the code](#2-modules-and-how-they-correspond-to-the-code)
- [3 Runs](#3-runs)
- [4 Fairness](#4-fairness)
- [5 Proofs](#5-proofs)
- [6 Findings](#6-findings)
- [7 What is not modelled](#7-what-is-not-modelled)
- [8 Plan](#8-plan)

To check: `tlc -config MCRpRing.cfg MCRpRing`, `tlapm RpFileProofs.tla`, and so on.
Definitions whose comment starts with "mutant" are not part of a specification:
each is a wrong form of the definition after it, and putting it in that place
makes TLC report the property named in `PROJECT.json` ("mutants").

## 1 Inventory

| Component | State | Operations | Interacts with | What is hard | What makes it correct |
|---|---|---|---|---|---|
| Frame list (`wc_webcam.c`: `proc_frame_list`) | list of frames, `ref_count`, `live_frame` of each service thread, `record_frame` | insert, collect (camera); take next, drop reference (service); take next (recorder) | camera thread, service threads, recorder; one mutex | frames are sent and written outside the mutex; mode changes, disconnects, failed sends | no frame in use is freed; counts are exact; none skipped unless old; old frames are freed |
| Ring file, write (`rp_write_frame`) | `rp_file_hdr.last_frame_*`, the file, `rp_toc` and its two indices | append a frame; move the oldest index | recorder writes, service threads read; no lock | two rings (file and table) that wrap at different times | what the table lists is whole and in order; history is kept as long as there is room |
| Ring file, read (`rp_read_frame_by_real_time_us`, `..._by_file_offset`) | locals of the search | binary search, header check, read | shares `rp_toc` with the writer | wrapped indices, boundaries, a writer beside it | the frame found was showing at that time; nothing torn is served |
| Table recovery (`rp_toc_init_thread`) | `rp_toc` from the end backwards | walk back over `rp.dat` | runs beside `rp_write_frame` | race on `rp_toc_idx_oldest`; frames the header does not name yet | the table lists one whole stretch of the recording |
| File header (`rp_open_file`, `rp_read_and_verify_file_hdr`, `rp_write_file_hdr`) | two copies, `rp_file_hdr_last`, update counter | open or create, write in turn | recorder every 10 seconds | kill, power failure, torn write, failed write | never back to an earlier header, as long as the file can be read; names durable frames |
| Recorder (`rp_write_file_frame_thread`) | `record_frame`, times | take, write frame, gap frame, header | frame list, ring file, header | ends on an error | as above |
| Service thread (`wc_svc_webcam`) | mode, what was sent in it, interval of the last frame read | receive a command, status once per second, live / stop / pause / play | one viewer; frame list; ring file | retry of a pause at the end of data; blocking sends | follows the viewer's mode; every mode is answered |
| Pane thread (`webcam_thread`) | connection state, copied mode, image, frame status | connect, send a changed mode, receive | control mode (shared memory), a webcam (messages) | frames of modes already left, reconnection | never shows a frame of another mode; comes to show the present one |
| Control mode (`SET_CTL_MODE_*`, `display_handler`) | `mode` | the user's events; stop at the end of data | all panes | stale statuses | stops only at the end |
| Network (`net.c`) | `nb_recv_buff`, `nb_recv_xfered` | connect, accept, `net_send`, `net_recv` | all of the above | partial receives, timeouts, closed peer | messages whole and in order; a dead connection is given up |
| Camera thread (`cam_thread`) | arrays of frames under comparison, their indices and counts | initialize, receive, compare a group, hand over one per pass | frame list; CONFIG_RESOLUTION set by service threads | a pass may fail anywhere; two arrays used in turn; asserts | every frame is handed over once, in time, or freed; silence is bounded; the resolution set last is reached |
| Connection set-up (`net_connect`, `net_accept`, `main` of `wc_main.c`) | backlog, password, waits | connect, accept, check the password, create the service thread | panes, service threads | one peer after the other; late answers, panes that gave up, peers that say nothing | one service thread for a pane; a pane without one finds out; panes get through |
| Configuration of the viewer (`config_read`, `config_write`, `change_name_request`) | definitions, selections, zoom, font size, the file | choose another webcam, edit, zoom, font, write, start | display thread, pane threads; no lock | several writers; requests taken up late; failures nobody is told of | the pane shows the webcam chosen; a restart loses no definition, selection or zoom |
| Display, jpeg, sensor, log, time | | device I/O | | | |

The hazards this gives rise to, each with its line and the properties that
cover it, are listed in `PROJECT.json` ("hazards").

## 2 Modules and how they correspond to the code

```
CamFrames  <- MCCamFrames, CamFramesProofs
RpGeometry <- RpFile <- RpFileProofs
           <- RpRing <- MCRpRing, RpRingProofs    RpRing implements RpFile
                     <- RpRecover <- MCRpRecover, RpRecoverProofs
HeaderStore, RpFileHdr <- MCRpFileHdr, RpFileHdrProofs
                                                  RpFileHdr implements HeaderStore
FrameList  <- MCFrameList \
TocSearch  <- MCTocSearch / SvcProofs
MsgRecv    <- MCMsgRecv \
NetConnect <- MCNetConnect / NetProofs
PaneConfig <- MCPaneConfig \
Session    <- MCSession / ViewerProofs
                             Session composes control mode, pane and service thread
```

`PROJECT.json` ("map") gives the source lines of every definition.

### FrameList

Camera thread, service threads (`Clients`) and recorder (`Writer`) around
`proc_frame_list`. A critical section of `proc_frame_list_mutex` is one action;
a frame is read outside the mutex while the thread is at `send` or `write`. A
frame is its insertion number, so `TAILQ_NEXT` of f is the least larger number
in the list, and "no newer frame" is `AtEnd`. `ref`, `held`, `mode`,
`modeIsNew` are `ref_count`, `live_frame`/`record_frame`, `mode.mode` and
`mode_is_new`. `Age` lets a frame become 2 seconds old, which a frame may be
already when it is inserted. `CamInsert`
and `CamCollect` are the pass of `cam_thread` with and without a new frame,
each with the collection loop. `SvcEnterMode` is the
`REMOVE_LIVE_FRAME_REFERENCE` at the start of each mode branch, `SvcDone` the
one at the end of the thread. `WriterFail` is the `return` of the recorder that
keeps its reference. Entering the live branch with a new mode is two steps here
(drop, then take), as these are two critical sections.

### CamFrames

`cam_thread`, which feeds `FrameList`, and service threads in CHANGE_RES. One
pass of the loop is one action, as everything it changes is local to the thread
but `CONFIG_RESOLUTION`, which it reads once per pass. A frame is its
`recvd_frame_count`; `newArr`, `nfa`, `procArr`, `pfa` are `new_frame_array`,
`nfa_idx`, `proc_frame_array`, `pfa_idx`. `CamFails`, `CamSkips` and
`CamRequeueFails` are the failures before a frame is kept, a frame with
V4L2_BUF_FLAG_ERROR, and the VIDIOC_QBUF that fails after one was kept.
`CamKeep` and `CamGroupAll`, `CamGroupLast`, `CamGroupNone` are the passes that
keep a frame, each with the `HandOver` at its end; the last three are the three
outcomes of the comparison of a group. What `compare_gs_image` says of motion
and brightness is a choice, but for a first image, which is always motion.
`CamOpen` frees what is held and starts over. `last`, the last frame handed over,
and `heap`, the frames allocated, are histories of what `insert` and `free` do.

### RpGeometry, RpFile, RpRing

`RpGeometry` has the layout: where the next frame goes (`NextOffset`), the
distance `FileLength` (macro `RP_FILE_LENGTH`), and the margin test `Roomy`.
`GeometryAssumption` states what the constants of the code satisfy; the one
thing in it that the code does not enforce is `MaxLen <= TailSlack`, a frame of
at most 1000000 bytes.

`RpFile` is the abstract ring: frames are written round the file, a suffix of
them can be looked up, and a write needs every one of these to be `Roomy`. It is
checked and proved through `RpRing`, whose steps are its steps.

`RpRing` is the code: `rp_toc` with its wrapping indices, the writer split at
its stores (file, `rp_file_hdr`, `rp_toc` + next, oldest), and a reader split at
its look-up and its two reads. `ScanStart` and `Passed` are the initial value
and the number of iterations of the loop over `ti_oldest`. `WriteFail` is a
short or failed `pwritev`. `first <- First` is the refinement mapping to
`RpFile`: the time in the oldest entry of the table. The file starts empty.

### RpRecover

`RpRing` without its reader, with restarts. The process is killed between any
two steps; the file keeps its frames and each frame's `prior`, the header the
frame of the time it was written (`SaveHdr`), so frames after it lie in the
file without being named. `WalkReads` / `WalkStores` are a turn of the loop of
`rp_toc_init_thread`: the checks in one step, the entry and `rp_toc_idx_oldest`
in another. The recorder reads that index in `ReadOldest` and stores it in
`StoreOldest`. A failed `pwritev` is in `RecordFrame`. The gap frame recorded
after a start is a frame like any other, and the offset and length of the last
frame in `rp_file_hdr` change together.

Four things are assumed of time, which the code does not check but its sizes
make plain: no more than `MaxUnsaved` frames are recorded between two headers,
and these do not come round the file; no more than `ReadLag` frames are recorded
between the check of a turn and its store, fewer than the gap in the table; the
walk has read its first frame before `MaxUnsaved` are recorded, as it could
otherwise find the frame of the header overwritten in part; the walk is over
before the recorder comes to the end of the table (10000000 entries). `lag`
counts what is recorded since the check. It starts at one when the check comes
between the recorder's `pwritev` and its store of `rp_file_hdr`: the check then
sees the end of the file as it was before that frame.

### TocSearch

The search as a small state machine: the checks before the loop, the binary
search, its limit of iterations. The table is a constant snapshot: the writer
changes no entry of the window a reader starts from as long as the gap lasts
(`RpRing` models the two together after the look-up). Its
`SearchAssumption`, increasing times, is the invariant `WindowListsFrames` of
`RpRing`.

### RpFileHdr, HeaderStore

`SyncData`, `PutHeader` / `PutFails`, `FlushHeader` are the fdatasync, pwrite
and fdatasync of `rp_write_file_hdr`; `Open`, `Create` and `ReadFails` are
`rp_open_file`: a valid header is found, there is none, or there is one and the
file cannot be read (`fstat`, its size, `pread`) and is unlinked all the same.
The last two end in `Replace`, a new and empty file, whose creation may fail.
The file is two views, `cache` (what a read returns) and `disk`; `Kill` loses
the process only, `PowerLoss` lets each slot that differs keep the old content,
get the new, or be torn, and lets any subset of the unsynced frames survive.
`HeaderStore` is one header that is replaced atomically and never goes back
while the file is used; a new file (`file`) starts without one.
`fdatasync` is taken to work; the code does not look at its result.
A header that is torn is `Bad`: magic or checksum does not match. That a file
was unlinked and another made is taken to survive a power failure.

### MsgRecv

One end of a connection: `net_recv` non-blocking for the header (`RecvPart`,
`RecvHdr`), blocking for the data of a frame (`RecvData`), and the caller that
builds its own message in the same buffer between two calls (`SendOwn`). A
message is a sequence of parts, which TCP may deliver in any pieces; as in
`net_recv`, part k of a header is placed at `nb_recv_xfered` of the buffer.
`Overwritten` are the parts of the buffer that the caller's message covers: all
of it in `webcam_thread`, its beginning in `wc_svc_webcam`. `Timed` tells the
two modes of `net_recv` apart: the viewer's with a timeout, the webcam's
without. A receive of 0 bytes at the end of the stream is "no data", as in the
code. `net_send` is blocking and a message is put on the link whole.

### NetConnect

How panes come to be served. `Connect`, `ConnectFails`, `ConnectDone`,
`ConnectRefused`, `ConnectTimesOut` are `net_connect` and the states of
`webcam_thread` round it, `Leave` the macro DISCONNECT, `Reconnect` the return
to connecting after RECONNECT_TIME_US; `Accept`, `Answer`, `NoPassword`,
`CreateThread`, `Slept` are the loop of `main` and `net_accept`. A `Strangers`
peer connects once and sends nothing. A pane that gives up leaves its connection
in the backlog with the password in it: `net_accept` returns it all the same, and
the service thread (`stale`) ends with its first send. `net_accept` returns a
connection also when the password was wrong; the pane closes it. A service thread
may end (`ThreadEnds`) or not come to be (`CreateFails`) without its pane noticing,
which then waits for messages until `RecvTimesOut`; `LinkBreaks` is an error that
the pane does see, of a send or a receive. `behind` and `lost` are histories: what
was before a pane when it connected, and that it lost its thread. Time is
counted in ticks, and passes when no thread can go on without waiting:
`Working` says that one can, and is spelled out to be provable.

### PaneConfig

The viewer's `config[]`, `change_name_request` and configuration file. `Choose`,
`Zoom`, `Edit...` are events of the display thread; `EditAccept`, one
`AcceptPane` for each pane, and `AcceptWrite` are the steps of
MOUSE_EVENT_CONFIG_ACCEPT; `TakeUp`, `CopyDef`, `SetName` those of the thread of
a pane, which reads `change_name_request` more than once. `config_write` is
`Opened` (the file is empty), `Prints` (in the writer's buffer) and `Close`, or
`OpenFails`: fopen fails, the file stays as it is, and the writer goes on, as
CONFIG_WRITE does not look at the result. `Font` changes the size of the font
in `config[]` and writes nothing. `Restart` ends the viewer at any point and
reads the file, or takes the defaults if it is empty. `FirstDigit` is what a
start reads of a selection: all of it, as there are 8 definitions. A definition
is a name and the rest of it; of the zoom there are two values.

### Session

The control mode, one pane and the service thread of its connection. The pane
and the display share the control mode; pane and webcam exchange messages
through `up` and `down`; all threads interleave. Actions `Select*`, `AutoStop`
are the events of `display_handler`; `Viewer*` the passes of `webcam_thread`;
`Svc*` those of `wc_svc_webcam`; a service thread at pc `send` is in a blocking
`net_send` (the link holds `MaxQueue` messages). `ReadStatus` is what
`TocSearch` establishes of the read: OK when the time is recorded.

`wc->mode = mode` is a copy of a packed struct without a lock, in words from the
first member on: `ViewerCheck` reads `mode.mode`, `ViewerCopy` the rest, with
`mode_id`. As the display sets `mode_id` last, a copy of the rest that meets a
change half done has the old id and is made again in the next pass: it is taken
in one step.

Abstractions: messages are whole (`MsgRecv` is about parts); time is counted in recorded frames and is the same on both
sides; intervals between reads and sends are the choice to skip a turn; a gap
frame is a frame; the camera is always OK; one pane; the window is not
minimized. When a connection ends, its old service thread, of which nobody
hears again, is dropped with it. The pane may hear late: `SvcFail` leaves it
connected to nobody until it times out.

## 3 Runs

| Run | Instance | Distinct states | What it shows |
|---|---|---|---|
| frame_list | 1 viewer, recorder, 3 frames | 14424 | `NoUseAfterFree`, `RefCountExact`, `MissedOnlyIfAged`, `OldFramesReclaimed`, `LiveAdvances` |
| cam_frames | the constants of the code, 75 frames, 2 changes of the resolution by 2 threads | 659223 | `ArraysInStep`, `NothingLeaked`, `SilenceBounded`, `HandedInTime`, `DroppedOnlyStill`, `ResolutionFollows` |
| rp_ring | file of 34 units, table of 8, gap 2, 11 writes | 1380284 | `NotOverwritten`, `WindowListsFrames`, `ScanStaysInWindow`, `ServedFrameWhole`, `HistoryKept`, `ImplementsRpFile` |
| rp_recover | file of 17 units, table of 8, gap 2, 12 writes, 2 starts | 711363 | `WindowIsChain`, `WindowIntact`, `ScanMeetsFrames`, `RecoveredKept` |
| toc_search | tables of 0 to 8 entries at each place of a ring of 9 | 13536 | `FoundCovers`, `NotFoundJustified`, `NeverGivesUp` |
| rp_file_hdr | 4 frames, counter up to 5, 2 files, any crashes | 122856 | `AckedSurvives`, `NamedFrameDurable`, `ImplementsHeaderStore` |
| msg_recv | headers of 3 parts, 3 messages, up to 2 parts of data | 17786 | `ActedOnAsSent`, `CloseNoticed` |
| net_connect | 2 panes, one with a wrong password, 2 silent peers, backlog 3, pause 1, timeout 3 | 385366 | `ServedOnce`, `DelayedOnlyBehind`, `DeafPaneLeaves`, `PanesConnect` |
| pane_config | 1 pane, 3 definitions, 6 events, 2 starts | 3289218 | `KeepsChoice`, `SavedWhenQuiet` |
| session | 2 changes of mode from live or 1 from play, clock to 3, any number of connections, both directions | 348815 | `ShownFits`, `ServerFollows`, `PaneSettles`, `PauseFrameArrives` |
| session_stop | 3 changes of mode | violation | `StopsOnlyAtEnd` (section 6) |
| command_buffer | the webcam's end, 2 commands | violation | `ReceivedAsSent` (section 6) |

Why the bounds are enough:

- *frame_list*: 3 frames let one be held, one be collected before and one after
  it; viewer and recorder let counts exceed 1. The proofs take any number of
  viewers.
- *cam_frames*: 75 frames are more than the 58 of the longest silence and a
  group; two service threads can read the setting before either stores it.
- *rp_ring*: the file has place for 7 to 14 frames, so it wraps with lengths that
  leave different slack at the end. Frames of length 2 make the table wrap before
  the file and its gap drop the oldest, of length 4 the file before the table. The
  table could list a whole lap of the file, so only the free margin keeps its
  frames from being overwritten.
  `ReadLag = 1` means the free space covers one write more than the one a reader
  is known to meet; the reader may meet any number of writes.
- *rp_recover*: 12 writes come round the file with a kill before, between and
  after. 4 frames that no header names reach past the free margin, so that the
  walk meets their remains and the comparison of times is needed; one frame of
  another length makes these lie across older ones.
- *toc_search*: all fills and all places in the ring, requests at, between,
  before and after all entries, valid-through times behind and ahead. 9 slots
  need 3 halvings, and `MaxCount = 3` is exact; the code's 50 iterations are
  more than log2 of its 10000000 entries.
- *rp_file_hdr*: each slot is replaced twice with crashes between any two steps,
  and the second file follows one that could not be read.
- *msg_recv*: a first, a middle and a last part; frames of different data
  lengths, wanted or not.
- *net_connect*: the code's ratio, a backlog that takes exactly a timeout to go
  through when every `net_accept` in it fails (10 connections, 1 second each, 10
  seconds). Then the last place of a full backlog may time out with no silent
  peer before it: `DelayedOnlyBehind` names that case (`Crowded`), and TLC
  reaches it. A silent peer takes a timeout; two of them keep a pane out twice.
- *pane_config*: one of the three definitions is none, which a pane may have
  selected at the second start, as MAX_WC_DEF - 1 can be in the code; 6 events
  are a choice, an edit that moves definitions, an accept and another choice
  amid it; a name may be defined twice.
- *session*: 2 changes put another kind between live and playback, or a change
  of time between two pauses; a start from play stands for a pane that gets its
  webcam while others play. Clock 3 has times before, in and after the
  recording; a link that holds one message makes the webcam block.

`CHECK_DEADLOCK FALSE` is set where the system stops: in *rp_ring*, *rp_recover*
and *pane_config* at the bounds of writes, events and starts or when the
recorder has returned, in the MsgRecv runs when the connection has ended.

Each module has one type invariant. It is proved where the module has proofs
and needed by the other proofs, and is part of no run.

## 4 Fairness

- `FrameList`: the camera loop turns with every frame received; service threads
  loop every few milliseconds and `net_send` has a timeout; the recorder loops.
  A frame that a live client could take again and again is taken (strong
  fairness): between two passes there may be a minimum send interval, which
  runs out. Nothing is assumed of new frames, viewers or mode commands.
- `CamFrames`: `CamOpen`, as the loop turns at least every 10 seconds, frame or
  no frame, and `CamOpened`: the camera comes back some time. Without the second
  the resolution is never set. Nothing is assumed of frames or service threads.
- `NetConnect`: the loops of `main`, of panes and of service threads run, time
  passes (weak), and a pane that tries again and again finds room in the backlog
  some time (strong). Strangers and the password file are free.
- `Session`: the loops of pane and service thread with the reconnect attempts,
  and the recorder (weak). An ended service thread is noticed because status
  messages stop (10 second timeout of `NON_BLOCKING_WITH_TIMEOUT`). Sending is
  strongly fair where an interval may make a turn idle. The user, the clock and
  the breaking of the link are free; so that the bounds, after which these stop,
  are what makes "eventually" come true, properties are of the form
  `[]<>(connected => ...)`.
- `MsgRecv`: the caller asks again every millisecond; its timers run.
- Nothing else has liveness properties: `TocSearch` bounds its iterations by
  `NeverGivesUp`, a safety property.

## 5 Proofs

For every value of the constants that the named assumptions allow. A proof
module may be about two components; the lemmas on what each component's
operators compute stand before the theorems that use them.

| Module | Theorems | Argument |
|---|---|---|
| SvcProofs (FrameList) | `TypeCorrect`, `MemorySafe`, `CountsCorrect`, `NothingSkipped` | `IInv`: a count for every frame number equals the cardinality of its holders (freed ones have none), frames leave the list only when aged, what a thread took is not newer than what it holds. `RefCountExact` alone says nothing of frames outside the list, so a thread holding a freed frame could not be excluded. |
| SvcProofs (TocSearch) | `SearchTyped`, `SearchSound`, `SearchComplete`, `SearchInTable`, `SearchEnds` | `LoopInv`: the request lies between the times at the bounds, which stay in the window. The increase of times between neighbours, all the loop relies on, is the assumption. `HalvingInv`: after k iterations at most `Span[k]` entries are left; one entry settles the search. |
| CamFramesProofs | `TypeCorrect`, `InStepAlways`, `NoLeak`, `SilenceEnds`, `HandedOverInTime`, `OnlyStillDropped` | `IInv` says what is in each entry of the two arrays: the frames since the last complete group in `newArr` up to `nfa`, at most one more behind a failed requeue, and what is left of that group in `procArr` from `pfa` on, its last frame included. From this the frames of the arrays differ, `pfa` is either at the end or one ahead of `nfa`, and the last frame handed over is at most `Silence` and a group behind. `NothingLeaked` is not inductive: that no two entries name one frame follows from where they are. `OnlyStillDropped` adds that motion is known by whole groups (`MotionInv`), and has as hypothesis that the 10 frames of `Hold` are some number of whole groups, as in the code. |
| RpFileProofs | `TypeCorrect`, `NeverOverwritten`, `StaysInFile` | `IInv` adds `Behind`: each frame that can be looked up lies wholly before the end of the last frame or wholly after it. Without it the margin of `Roomy` says nothing about which side a frame is on. |
| RpRingProofs | `TableCorrect`, `ScanSafe`, `HistoryIsKept`, `Refinement`, `NeverOverwritten`, `StaysInFile`, `ServedWhole` | `Table`: the entries from `oldest` on, wrapped by `At`, list the frames from `First` on, and `next` is the place after them; `Starting`: the same before there is an oldest. `Ordered`: the older a frame, the farther it lies behind the end of the last, so that the first frame with room that the loop over `ti_oldest` meets has room behind it in all later ones; `Fresh`: between writes each listed frame has room. The scan is the least such index. Every step then is a write, a drop or a stutter of `RpFile`, and the theorems of `RpFileProofs` hold of the code's table (`Abstract`). `ReadInv`: what the reader found keeps room for as many writes as it may still meet, each of which uses up at most `MaxStep`. |
| RpRecoverProofs | `RecoverTyped`, `TableIsChain`, `TableIsWhole`, `ScanMeets`, `KeepsRecovered` | See below. |
| RpFileHdrProofs | `TypeCorrect`, `AckedKept`, `NamedOnDisk`, `Refinement` | `IInv`: there is an `Anchor`, a slot equal in cache and on disk, at least as new as any acknowledged header; the other slot is bad, older, or newer and naming a frame on disk. Then each step maps to a step of `HeaderStore` or a stutter; a start that cannot read the file to its `NewFile`. |
| NetProofs (MsgRecv) | `ActsInOrder` | `RecvInv`: what is in the stream are parts that follow each other (`InOrder`), the first of them is the one expected next (`StreamFits`), and a buffer whose first part is not the caller's own holds the parts received of the present message (`BufferFits`). The caller's message covers the first part whatever else it covers, and the first part tells that the header is wrong. |
| NetProofs (NetConnect) | `ServedByOne`, `NotDelayed` | `ConnectInv`: the open connection of a pane is in one place, the backlog, main's hands or a service thread, and what the pane was told says which (`OneConnection`, `Told`); a waiting pane that had no silent peer and no crowd before it when it connected has more time left than main needs for what is `Ahead` of it (`InTime`). |
| ViewerProofs (PaneConfig) | `ConfigSaved`, `ChoiceKept` | `PaneInv`: a request stands for the webcam last chosen until the thread of the pane has selected and shown it, in this order (`ChoiceOK`); a writer that was alone and has printed holds the present definitions, selections and zoom (`Printed`); a failed fopen leaves no writer alone. |
| ViewerProofs (Session) | `SessionTyped`, `ShowsFitting` | `SessionInv`: on a connection modes go out under increasing ids, so each mode on the link or with the service thread is older than the pane's, or is that mode (`SentMode`), and each frame coming back carries the id of an older mode or fits the pane's (`Stamped`). The pane compares ids only; `ShownFits` alone says nothing about frames in flight. |

**RpRecover.** The properties are about a table that two threads fill from both
ends and that lists frames of several processes, some of whose frames have been
lost. The invariant `RecoverInv` has a part about the file and a part about the
table.

- The file (`FileInv`). The *chain* are the frames met from `last` by `prior`;
  `OnChain` says it without recursion: no later frame was put behind an
  earlier one. `Links`: each frame lies behind the one it names, and lost frames
  lie elsewhere. `InTurn`: what is left of the chain are its newest frames, each
  with more room than the one before by at least its length. This is not true of
  all frames in the file, only of the chain, and is what lets the walk stop at the
  first frame without room. `SavedClear`: the frame the header names outlasts the
  frames that may still be written before the next header, so a restart finds it.
- The table. While the walk goes on, `oldest` says little: the recorder may just
  have stored it over the walk's, or the walk over the recorder's. So the
  invariant is about all entries made (`Live`), from `Base`, where the walk is, up
  to `next`; they are the newest frames of the chain, one after the other
  (`Entries`), and `oldest` is one of them (`Oldest`). When the walk is over, or
  the recorder has come round to it, `Live` is the window from `oldest` on.
- Between a check and a store. What the walk found clear stays so for
  `ReadLag - lag` more writes (`Walk`); what the recorder is about to store is
  still in the window with room (`Storing`), and is the result of the scan unless
  the walk stored in between (`raced`).

Two weaknesses of the model came out of this proof and were mended: without a
bound on when the walk reads its first frame, that frame may be gone in part, and a
check of the walk between `pwritev` and the header's change is one frame behind.

Assumptions, each evaluated by TLC in a run of its module: `FrameListAssumption`
(finitely many clients), `GeometryAssumption` (with a file that holds a frame
beside its margin), `WritesAssumption`, `RingAssumption` (the table keeps more
than one entry free), `UnsavedAssumption` (section 2, RpRecover),
`SearchAssumption`, `HalvingAssumption` (the table's size can be halved down to
one in `MaxCount` steps; stated by a function, as there is no power in the
prover's arithmetic), `HdrAssumption`, `CamAssumption`, `MsgAssumption`,
`NetAssumption` (main sleeps no longer than a pane waits),
`ConfigAssumption` (a selection is one digit), `SessionAssumption`.

Only model-checked: liveness, which is out of the prover's reach
(`OldFramesReclaimed`, `LiveAdvances`, `CloseNoticed`, `ServerFollows`,
`PaneSettles`, `PauseFrameArrives`, `ResolutionFollows`, `PanesConnect`,
`DeafPaneLeaves`), and the
two runs of section 6 that show a violation. Every invariant and every action
property of the other runs is proved. That `WindowListsFrames` gives
`SearchAssumption` to the search is an argument between two modules, not a theorem.

## 6 Findings

- **Playback stops on a stale status** (`session_stop`). The display stops
  playback when every connected pane's `frame_status` is AFTER_EOD (BEFORE_BOD),
  but that status is kept over a change of mode. TLC shows: the user plays from a
  time that is not recorded yet and moves the time back before the webcam has
  answered; its AFTER_EOD arrives before the pane has copied the new mode, and the
  display stops that mode at once although the webcam has frames there. It takes
  clicks that outrun the replies: the frame that answers a stop or a pause
  replaces the old status (`wc_webcam.c:449`, `viewer.c:2173`, `2190`). The
  comment at `viewer.c:1103` says "if playback mode and all connected webcam are
  eod or bod then stop playback".
- **A message is built in the receive buffer** (`command_buffer`). `net.c:325-330`
  requires the caller to keep its buffer over the calls of one header;
  `wc_svc_webcam` builds its status message in it (and `webcam_thread` its
  commands). A command that arrives in two parts round that is received with a
  wrong first part. `msg_recv` shows that no wrong message is ever acted on: the
  connection ends with an invalid `msg_type` and the viewer reconnects.

Met on the way, without a property: a pause at a time before anything is
recorded (FILE_EMPTY) is not tried again, only AFTER_EOD is; a pause frame is
sent once, so a pane that is minimized when it comes keeps its text. A store of
`rp_toc_idx_oldest` by `rp_toc_init_thread` between the recorder's read of it
(`wc_webcam.c:1961`) and its store is lost; if it was the walk's last, the
table starts with the recorder's entry and the recovered recording cannot be
played until the next start. `RecoveredKept` excepts this order and no other
(`raced`), and is violated without the exception.

Met in the same way, each excepted by name where a property would otherwise fail,
and the property violated without the exception:

- *Torn control mode* (`torn` in `Session`). If the user switches between live and
  playback after the pane has copied `mode.mode` and before it copies `mode_id`,
  the copy has the new id with the old mode, and is not made again: the pane and
  its webcam stay in the old mode until the user's next change. A build that
  copies the first 16 bytes of the struct at once does not show it.
- *Choices that are lost* (`excused` in `PaneConfig`). `change_name_request` is
  read several times and cleared at the end (`viewer.c:1924`): a webcam chosen
  meanwhile is forgotten, or shown and not selected. Definitions accepted while a
  choice is pending shift its index.
- *The configuration file* (`unsure`). Writes of two threads may overlap, and the
  one that closes last may hold the older configuration; fopen may fail
  (`util.c:70`), of which CONFIG_WRITE takes no notice; a kill while the file is
  empty loses it.
- *The font* (not in `Kept`). F+ and F- (`viewer.c:1027-1035`) write nothing: the
  size is in the file only as of the next change of something else.
- *Delays of others* (`behind`). A silent peer holds up all others for its timeout,
  and so does a full backlog for which `net_accept` fails each time, as it does
  when the password file cannot be read (10 connections, 1 second each; the panes
  wait 10 seconds). The kernel may hold one connection more than `listen` asks for,
  which makes the crowd one larger. A silent peer connects once in the model;
  peers that come again and again keep the panes out.
- *A pane that nobody serves* (`lost`). The end of the service thread, or a failing
  `pthread_create` (`wc_main.c:89`), of which `main` takes no notice, is no error to
  the pane: recv returns 0, taken as no data (`net.c:392-408`), and it stays
  connected for up to 10 seconds (`DeafPaneLeaves`). After a failed
  `pthread_create` nobody closes the server's end.
- *A recording that is given up* (`ReadFails`). If fstat or pread fails at a start,
  or the size of the file is not accepted (`wc_webcam.c:1585-1609`), a good
  recording is unlinked (1271). No text says whether it should be.
- *A live viewer lags* (`LiveAdvances`). It takes one `TAILQ_NEXT` per send interval,
  200 ms unless set otherwise, of a camera with 10 frames per second: in
  continuous motion it stays about 2 seconds behind, and misses frames that age.
- *Silence.* The 58 frames of `SilenceBounded` take more than 10 seconds below 5.8
  frames per second: the recorder then writes gap frames, and the viewer
  reports a dead webcam, of a camera that works.

## 7 What is not modelled

- The order in which data blocks of frames reach the disk before a power failure.
- V4L2 device I/O, which `CamFrames` takes to succeed or fail as a whole, and the
  comparison of images, whose outcome is a choice there.
- The server's options and configuration file; `net_init`.
- Camera status, minimized windows and zoom intervals in the pane.
- The stores of the control mode one by one: of the orders a build can produce
  only the one of the source is modelled.
- A rotation of the resolution lost between two viewers, or a mixture of their
  writes: `ResolutionFollows` starts from what was stored.
- A pane minimized, or of a webcam without a set clock, when its pause frame comes.
- Failing `fdatasync`; frames longer than `MaxLen`; the wall clock set back.
- Display, sound, jpeg, temperature sensor, logging, time queries: I/O or pure
  conversion.

## 8 Plan

Done: all modules of section 2, and the proofs of section 5, which cover every
invariant and every action property of the runs, and both refinements.

Next:

1. The insertions of `CamFrames` as those of `FrameList`: `last` of the one is
   `inserted` of the other, renumbered; a refinement of a common abstract queue.
2. `HeaderStore` below `RpRecover`: that `saved` is the header `RpFileHdr` recovers.
3. Camera status and minimized windows in the pane.
