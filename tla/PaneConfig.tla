----------------------------- MODULE PaneConfig -----------------------------
(***************************************************************************)
(* The configuration of the viewer: the definitions of webcams, the one    *)
(* selected for each pane, and the file they are kept in.  The display     *)
(* thread edits definitions and asks a pane for another webcam; the thread *)
(* of the pane takes that up when it gets to it, which may be after        *)
(* net_connect has waited for its timeouts.  Both write the file.  Nothing *)
(* locks config[], change_name_request or the file.                        *)
(***************************************************************************)
EXTENDS Integers

CONSTANTS
  Panes,      \* MAX_WEBCAM panes
  Names,      \* names of webcams
  Addrs,      \* the rest of a definition: address, port, password
  None,       \* the definition "none"
  MaxDef,     \* MAX_WC_DEF (8)
  Base,       \* the base numbers are written in (10)
  Defaults,   \* the definitions in the program, ...
  DefaultSel, \* its selections ...
  DefaultFont,\* and its size of the font
  Display,    \* the display thread, as a writer of the file
  MaxEvents,  \* bound: events of the user
  MaxStarts   \* bound: starts of the viewer

Indices == 0 .. MaxDef - 1
Definitions == [name : Names, addr : Addrs] \cup {None}

\* lists of definitions, the last of which is none; contents of the file
Defs == {d \in [Indices -> Definitions] : d[MaxDef - 1] = None}
Configs == [def : Defs, sel : [Panes -> Indices], zoom : BOOLEAN, font : Int]

ASSUME ConfigAssumption ==
  /\ MaxDef \in Nat \ {0} /\ Base \in Nat /\ MaxDef <= Base
  /\ MaxEvents \in Nat /\ MaxStarts \in Nat
  /\ Defaults \in Defs
  /\ DefaultSel \in [Panes -> Indices] /\ DefaultFont \in Int
  /\ Display \notin Panes /\ None \notin Configs

Writers == Panes \cup {Display}

VARIABLES
  def, sel, zoom, font,  \* config[]: definitions, selection of each pane, zoom, size of the font
  req,             \* change_name_request of each pane (-1: none)
  defStr,          \* def_str of each pane
  name,            \* name of each pane
  pc,              \* where each pane and the display are
  togo,            \* panes that the display has still to look at
  edit,            \* config_mode.wc_def, None when not editing
  file, buf,       \* the file (None: empty) and what each writer has printed
  alone,           \* ghost: no other writer since this one opened the file
  unsure,          \* ghost: the last write overlapped with another, or could not be done
  chosen,          \* ghost: the name that the user chose
  excused,         \* ghost: a choice or new definitions came amid a request
  events, starts

config == <<def, sel, zoom, font>>
saved == <<file, buf, alone, unsure>>
bounds == <<events, starts>>
configVars == <<def, sel, zoom, font, req, defStr, name, pc, togo, edit, file, buf, alone,
                unsure, chosen, excused, events, starts>>

NameOf(d) == IF d = None THEN None ELSE d.name

Config == [def |-> def, sel |-> sel, zoom |-> zoom, font |-> font]

\* CONFIG_WC_SELECT(id)[0]-'0': of a selection, the first digit is read
FirstDigit(i) == IF i < Base THEN i ELSE i \div Base

\* what the program starts with: the file, or the defaults
Started(c) ==
  /\ def' = c.def /\ sel' = c.sel /\ zoom' = c.zoom /\ font' = c.font
  /\ req' = [p \in Panes |-> FirstDigit(c.sel[p])]
  /\ defStr' = [p \in Panes |-> None] /\ name' = [p \in Panes |-> None]
  /\ pc' = [w \in Writers |-> "loop"] /\ togo' = {} /\ edit' = None
  /\ file' = c /\ buf' = [w \in Writers |-> None]
  /\ alone' = [w \in Writers |-> TRUE] /\ unsure' = FALSE
  /\ chosen' = [p \in Panes |-> NameOf(c.def[c.sel[p]])]
  /\ excused' = [p \in Panes |-> FALSE]

DefaultConfig == [def |-> Defaults, sel |-> DefaultSel, zoom |-> FALSE, font |-> DefaultFont]

ConfigInit ==
  /\ def = Defaults /\ sel = DefaultSel /\ zoom = FALSE /\ font = DefaultFont
  /\ req = [p \in Panes |-> FirstDigit(DefaultSel[p])]
  /\ defStr = [p \in Panes |-> None] /\ name = [p \in Panes |-> None]
  /\ pc = [w \in Writers |-> "loop"] /\ togo = {} /\ edit = None
  /\ file = DefaultConfig /\ buf = [w \in Writers |-> None]
  /\ alone = [w \in Writers |-> TRUE] /\ unsure = FALSE
  /\ chosen = [p \in Panes |-> NameOf(Defaults[DefaultSel[p]])]
  /\ excused = [p \in Panes |-> FALSE]
  /\ events = 0 /\ starts = 1

\* The viewer ends or is killed at any moment and is started again.
Restart ==
  /\ starts < MaxStarts
  /\ Started(IF file = None THEN DefaultConfig ELSE file)
  /\ starts' = starts + 1 /\ UNCHANGED events

-----------------------------------------------------------------------------
(* config_write: the file is emptied by fopen and filled by fclose.        *)

Writing(w) == pc[w] \in {"print", "close"}

\* what writer w goes on with: the display with its events, a pane with the change
Resumed(w) == [pc EXCEPT ![w] = IF w = Display THEN "loop" ELSE "copy"]

\* fopen, by a writer w ...
Opened(w) ==
  /\ file' = None
  /\ alone' = [v \in Writers |-> IF v = w THEN \A u \in Writers \ {w} : ~Writing(u)
                                 ELSE alone[v] /\ ~Writing(v)]
  /\ pc' = [pc EXCEPT ![w] = "print"]
  /\ UNCHANGED <<buf, unsure>>

\* ... when it fails nothing is written, and the writer is not told
OpenFails(w) ==
  /\ alone' = [v \in Writers |-> alone[v] /\ ~Writing(v)]
  /\ unsure' = TRUE
  /\ pc' = Resumed(w)
  /\ UNCHANGED <<file, buf>>

Opens(w) == Opened(w) \/ OpenFails(w)

\* the fprintf calls
Prints(w) ==
  /\ pc[w] = "print"
  /\ buf' = [buf EXCEPT ![w] = Config]
  /\ pc' = [pc EXCEPT ![w] = "close"]
  /\ UNCHANGED <<config, req, defStr, name, togo, edit, file, alone, unsure, chosen, excused,
                 bounds>>

\* fclose
Close(w) ==
  /\ pc[w] = "close"
  /\ file' = buf[w] /\ buf' = [buf EXCEPT ![w] = None]
  /\ unsure' = ~alone[w]
  /\ pc' = Resumed(w)
  /\ UNCHANGED <<config, req, defStr, name, togo, edit, alone, chosen, excused, bounds>>

-----------------------------------------------------------------------------
(* The display thread: events of the user. *)

Event ==
  /\ pc[Display] = "loop" /\ events < MaxEvents
  /\ events' = events + 1 /\ UNCHANGED starts

\* a list of definitions is displayed as far as the first that is none
Listed(d) == {i \in Indices : \A k \in 0 .. i - 1 : d[k] # None}

\* MOUSE_EVENT_WC_NAME_LIST: another webcam for pane p
Choose(p, i) ==
  /\ Event /\ edit = None /\ i \in Listed(def)
  /\ req' = [req EXCEPT ![p] = i]
  /\ chosen' = [chosen EXCEPT ![p] = NameOf(def[i])]
  /\ excused' = [excused EXCEPT ![p] = pc[p] # "loop"]
  /\ UNCHANGED <<config, defStr, name, pc, togo, edit, saved>>

\* mutant: the change is not written, as changes of the font are not
BugZoomed == UNCHANGED <<pc, saved>>

\* CONFIG_WRITE after a change of the zoom
Zoomed == Opens(Display)

\* MOUSE_EVENT_WC_ZOOM
Zoom ==
  /\ Event /\ edit = None
  /\ zoom' = ~zoom
  /\ Zoomed
  /\ UNCHANGED <<def, sel, font, req, defStr, name, togo, edit, chosen, excused>>

\* MOUSE_EVENT_CONFIG_FONT_PLUS and _MINUS, of the pane where definitions are
\* edited: the change is not written
Font ==
  /\ Event /\ edit # None
  /\ font' \in {font - 1, font + 1}
  /\ UNCHANGED <<def, sel, zoom, req, defStr, name, pc, togo, edit, saved, chosen, excused>>

\* MOUSE_EVENT_CONFIG_MODE_ENTER
EditEnter ==
  /\ Event /\ edit = None
  /\ edit' = def
  /\ UNCHANGED <<config, req, defStr, name, pc, togo, saved, chosen, excused>>

\* MOUSE_EVENT_CONFIG_CANCEL
EditCancel ==
  /\ Event /\ edit # None
  /\ edit' = None
  /\ UNCHANGED <<config, req, defStr, name, pc, togo, saved, chosen, excused>>

\* entry i of the edited list d becomes v; the last stays none, and an entry
\* that is deleted has those after it moved up
Edited(d, i, v) ==
  IF i = MaxDef - 1 THEN [d EXCEPT ![i] = None]
  ELSE IF v = None THEN [k \in Indices |-> IF i <= k /\ k < MaxDef - 1 THEN d[k + 1] ELSE d[k]]
  ELSE [d EXCEPT ![i] = v]

\* MOUSE_EVENT_CONFIG_SELECT, the keyboard, MOUSE_EVENT_CONFIG_KEYBD_ACCEPT
EditEntry(i, v) ==
  /\ Event /\ edit # None /\ i \in Listed(edit)
  /\ edit' = Edited(edit, i, v)
  /\ UNCHANGED <<config, req, defStr, name, pc, togo, saved, chosen, excused>>

\* MOUSE_EVENT_CONFIG_ACCEPT: the definitions are replaced ...
EditAccept ==
  /\ Event /\ edit # None
  /\ def' = edit
  /\ pc' = [pc EXCEPT ![Display] = "panes"] /\ togo' = Panes
  /\ excused' = [p \in Panes |-> excused[p] \/ req[p] # -1]
  /\ UNCHANGED <<sel, zoom, font, req, defStr, name, edit, saved, chosen>>

\* the first definition with the name of a pane, or the last one
IndexOf(m) ==
  LET same == {i \in Indices : NameOf(def[i]) = m}
  IN  IF same = {} THEN MaxDef - 1
      ELSE CHOOSE i \in same : \A k \in same : i <= k

\* mutant: the selection is only changed with the definition
BugReselect(p, i) == sel' = IF def[i] = defStr[p] THEN sel ELSE [sel EXCEPT ![p] = i]

Reselect(p, i) == sel' = [sel EXCEPT ![p] = i]

\* ... then each pane is given the definition of the webcam it is watching
AcceptPane(p) ==
  /\ pc[Display] = "panes" /\ p \in togo
  /\ togo' = togo \ {p}
  /\ LET i == IndexOf(name[p])
     IN  /\ Reselect(p, i)
         /\ req' = IF def[i] # defStr[p] THEN [req EXCEPT ![p] = i] ELSE req
  /\ chosen' = IF \E i \in Indices : NameOf(def[i]) = name[p] THEN chosen
               ELSE [chosen EXCEPT ![p] = None]
  /\ UNCHANGED <<def, zoom, font, defStr, name, pc, edit, saved, excused, bounds>>

\* ... and the file is written
AcceptWrite ==
  /\ pc[Display] = "panes" /\ togo = {}
  /\ Opens(Display)
  /\ edit' = None
  /\ UNCHANGED <<config, req, defStr, name, togo, chosen, excused, bounds>>

-----------------------------------------------------------------------------
(* The thread of a pane: the change_name_request part of webcam_thread. *)

\* the request is seen; the selection is changed and the file opened, or not
TakeUp(p) ==
  /\ pc[p] = "loop" /\ req[p] # -1
  /\ sel' = [sel EXCEPT ![p] = req[p]]
  /\ Opens(p)
  /\ UNCHANGED <<def, zoom, font, req, defStr, name, togo, edit, chosen, excused, bounds>>

\* after CONFIG_WRITE the request is read again; name is cleared first
CopyDef(p) ==
  /\ pc[p] = "copy"
  /\ defStr' = [defStr EXCEPT ![p] = def[req[p]]]
  /\ name' = [name EXCEPT ![p] = ""]
  /\ pc' = [pc EXCEPT ![p] = "name"]
  /\ UNCHANGED <<config, req, togo, edit, saved, chosen, excused, bounds>>

\* name is taken from def_str, and the request of this moment is cleared
SetName(p) ==
  /\ pc[p] = "name"
  /\ name' = [name EXCEPT ![p] = NameOf(defStr[p])]
  /\ req' = [req EXCEPT ![p] = -1]
  /\ pc' = [pc EXCEPT ![p] = "loop"]
  /\ UNCHANGED <<config, defStr, togo, edit, saved, chosen, excused, bounds>>

-----------------------------------------------------------------------------
DisplayNext ==
  \/ \E p \in Panes : AcceptPane(p) \/ \E i \in Indices : Choose(p, i)
  \/ \E i \in Indices, v \in Definitions : EditEntry(i, v)
  \/ Zoom \/ Font \/ EditEnter \/ EditCancel \/ EditAccept \/ AcceptWrite

PaneNext == \E p \in Panes : TakeUp(p) \/ CopyDef(p) \/ SetName(p)

ConfigNext ==
  \/ DisplayNext \/ PaneNext \/ Restart
  \/ \E w \in Writers : Prints(w) \/ Close(w)

ConfigSpec == ConfigInit /\ [][ConfigNext]_configVars

-----------------------------------------------------------------------------
(* Properties. *)

\* A pane with no request under way shows what its selection says, and that is
\* the webcam the user chose, also when other definitions were deleted, added
\* or moved since, or none if its own was deleted or renamed.  Excused are
\* panes of which the user asked something amid a request.
KeepsChoice ==
  \A p \in Panes :
    pc[p] = "loop" /\ req[p] = -1 /\ pc[Display] # "panes" /\ ~excused[p] =>
      defStr[p] = def[sel[p]] /\ name[p] = chosen[p]

\* what is meant to be written whenever it changes: all but the font
Kept(c) == <<c.def, c.sel, c.zoom>>

\* When nobody is writing it, the file holds the definitions, the selections
\* and the zoom of the viewer, so that a restart loses none of them; unless the
\* last write overlapped with another or the file could not be opened for it.
\* The size of the font is not promised: it is in the file only as of the last
\* change of something else.
SavedWhenQuiet ==
  pc[Display] = "loop" /\ (\A w \in Writers : ~Writing(w)) /\ ~unsure =>
    file # None /\ Kept(file) = Kept(Config)

=============================================================================
