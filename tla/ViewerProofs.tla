---------------------------- MODULE ViewerProofs ----------------------------
(***************************************************************************)
(* The viewer, for any number of panes, definitions, events of the user    *)
(* and changes of the mode: the configuration, which the display thread    *)
(* and the threads of the panes change and write without a lock, and what  *)
(* a pane shows of the frames that a webcam sends it.                      *)
(***************************************************************************)
EXTENDS Session, PaneConfig, FiniteSetTheorems, WellFoundedInduction,
        SequenceTheorems, TLAPS

-----------------------------------------------------------------------------
(* PaneConfig. *)

\* the name of a pane while it takes up a request
Cleared == ""

PaneTypes ==
  /\ def \in Defs /\ sel \in [Panes -> Indices] /\ zoom \in BOOLEAN /\ font \in Int
  /\ req \in [Panes -> {-1} \cup Indices]
  /\ defStr \in [Panes -> Definitions] /\ name \in [Panes -> Names \cup {None, Cleared}]
  /\ pc \in [Writers -> {"loop", "print", "close", "copy", "name", "panes"}]
  /\ pc[Display] \in {"loop", "print", "close", "panes"}
  /\ \A p \in Panes : pc[p] # "panes"
  /\ togo \subseteq Panes /\ edit \in Defs \cup {None}
  /\ file \in Configs \cup {None} /\ buf \in [Writers -> Configs \cup {None}]
  /\ alone \in [Writers -> BOOLEAN] /\ unsure \in BOOLEAN
  /\ chosen \in [Panes -> Names \cup {None}] /\ excused \in [Panes -> BOOLEAN]

\* a request stands until it has been taken up, and is for what was chosen;
\* the thread of the pane, when it takes it up, selects and then shows it
ChoiceOK(p) ==
  /\ pc[p] = "loop" => name[p] = NameOf(defStr[p])
  /\ pc[p] # "loop" => req[p] # -1
  /\ ~excused[p] =>
       /\ p \in togo => req[p] = -1
       /\ req[p] # -1 => chosen[p] = NameOf(def[req[p]])
       /\ req[p] = -1 => name[p] = chosen[p] /\ (p \notin togo => defStr[p] = def[sel[p]])
       /\ pc[p] # "loop" => sel[p] = req[p]
       /\ pc[p] = "name" => defStr[p] = def[req[p]]

\* contents of the file that a start finds what it needs in
UpToDate(c) == c # None /\ Kept(c) = Kept(Config)

\* what a writer that was alone is about to put in the file is up to date
Printed ==
  pc[Display] # "panes" => \A w \in Writers : pc[w] = "close" /\ alone[w] => UpToDate(buf[w])

PaneInv ==
  /\ PaneTypes /\ Printed /\ SavedWhenQuiet
  /\ pc[Display] # "panes" => togo = {}
  /\ \A p \in Panes : ChoiceOK(p)

-----------------------------------------------------------------------------
(* Operators. *)

LEMMA ConfigFacts ==
  /\ MaxDef \in Nat /\ MaxDef - 1 \in Indices /\ 0 \in Indices /\ -1 \notin Indices
  /\ Display \notin Panes /\ Display \in Writers /\ Panes \subseteq Writers
  /\ \A w \in Writers : w # Display => w \in Panes
  /\ \A i \in Indices : i \in Nat
  /\ Defaults \in Defs /\ DefaultConfig \in Configs /\ None \notin Configs
<1>1. /\ MaxDef \in Nat /\ MaxDef - 1 \in Indices /\ 0 \in Indices /\ -1 \notin Indices
      /\ \A i \in Indices : i \in Nat
  BY ConfigAssumption DEF Indices
<1>2. Defaults \in Defs /\ None \notin Configs
  BY ConfigAssumption
<1>3. DefaultConfig \in Configs
  BY <1>2, ConfigAssumption DEF DefaultConfig, Configs
<1>. QED
  BY <1>1, <1>2, <1>3, ConfigAssumption DEF Writers

LEMMA NameFacts ==
  /\ NameOf(None) = None
  /\ \A d \in Definitions : NameOf(d) \in Names \cup {None}
BY DEF NameOf, Definitions

\* A selection is read as it was written.
LEMMA DigitFacts ==
  ASSUME NEW i \in Indices
  PROVE  FirstDigit(i) = i
BY ConfigAssumption DEF FirstDigit, Indices

\* The last definition of an edited list stays none.
LEMMA EditedDefs ==
  ASSUME NEW d \in Defs, NEW i \in Indices, NEW v \in Definitions
  PROVE  Edited(d, i, v) \in Defs
<1>1. /\ MaxDef \in Nat /\ MaxDef - 1 \in Indices /\ d \in [Indices -> Definitions]
      /\ d[MaxDef - 1] = None /\ None \in Definitions
  BY ConfigFacts DEF Defs, Definitions
<1>2. CASE i = MaxDef - 1
  BY <1>1, <1>2 DEF Edited, Defs
<1>3. CASE i # MaxDef - 1 /\ v = None
  <2>1. Edited(d, i, v)
          = [k \in Indices |-> IF i <= k /\ k < MaxDef - 1 THEN d[k + 1] ELSE d[k]]
    BY <1>3 DEF Edited
  <2>2. \A k \in Indices : k < MaxDef - 1 => k + 1 \in Indices
    BY <1>1 DEF Indices
  <2>3. Edited(d, i, v) \in [Indices -> Definitions]
    BY <1>1, <2>1, <2>2
  <2>4. Edited(d, i, v)[MaxDef - 1] = None
    BY <1>1, <2>1
  <2>. QED
    BY <2>3, <2>4 DEF Defs
<1>4. CASE i # MaxDef - 1 /\ v # None
  <2>1. Edited(d, i, v) = [d EXCEPT ![i] = v]
    BY <1>4 DEF Edited
  <2>. QED
    BY <1>1, <1>4, <2>1 DEF Defs
<1>. QED
  BY <1>2, <1>3, <1>4

\* Every set of natural numbers that is not empty has a first member: of the
\* intervals from 0 to a member, one has no other of them within it.
LEMMA FirstMember ==
  ASSUME NEW T \in SUBSET Nat, T # {}
  PROVE  \E m \in T : \A k \in T : m <= k
<1>. DEFINE upTo == {0 .. t : t \in T}
<1>1. upTo \subseteq FiniteSubsetsOf(Nat)
  <2>1. ASSUME NEW t \in T PROVE 0 .. t \in FiniteSubsetsOf(Nat)
    <3>1. IsFiniteSet(0 .. t) /\ 0 .. t \in SUBSET Nat
      BY FS_Interval
    <3>. QED
      BY <3>1 DEF FiniteSubsetsOf
  <2>. QED
    BY <2>1
<1>2. \E x \in upTo : \A y \in upTo : <<y, x>> \notin StrictSubsetOrdering(Nat)
  <2>1. upTo # {}
    OBVIOUS
  <2>. HIDE DEF upTo
  <2>2. \E x \in upTo : \A y \in upTo : ~ (<<y, x>> \in StrictSubsetOrdering(Nat))
    BY <1>1, <2>1, FS_StrictSubsetOrderingWellFounded, WFMin
  <2>. QED
    BY <2>2
<1>3. PICK m \in T : \A k \in T : <<0 .. k, 0 .. m>> \notin StrictSubsetOrdering(Nat)
  BY <1>2
<1>4. ASSUME NEW k \in T, k < m PROVE FALSE
  <2>1. 0 .. k \subseteq 0 .. m /\ 0 .. k # 0 .. m /\ 0 .. m \subseteq Nat
    BY <1>4
  <2>. QED
    BY <2>1, <1>3 DEF StrictSubsetOrdering
<1>. QED
  BY <1>3, <1>4

\* A pane is given a definition of its name, or none when there is no such one.
LEMMA IndexFacts ==
  ASSUME PaneTypes, NEW m
  PROVE  /\ IndexOf(m) \in Indices
         /\ (\E i \in Indices : NameOf(def[i]) = m) => NameOf(def[IndexOf(m)]) = m
         /\ ~(\E i \in Indices : NameOf(def[i]) = m) => NameOf(def[IndexOf(m)]) = None
<1>. DEFINE same == {i \in Indices : NameOf(def[i]) = m}
<1>1. def[MaxDef - 1] = None /\ MaxDef - 1 \in Indices /\ same \in SUBSET Nat
  BY ConfigFacts DEF PaneTypes, Defs
<1>2. CASE same = {}
  <2>1. IndexOf(m) = MaxDef - 1
    BY <1>2 DEF IndexOf
  <2>. QED
    BY <1>1, <1>2, <2>1, NameFacts
<1>3. CASE same # {}
  <2>1. IndexOf(m) = CHOOSE i \in same : \A k \in same : i <= k
    BY <1>3 DEF IndexOf
  <2>2. \E i \in same : \A k \in same : i <= k
    <3>. HIDE DEF same
    <3>. QED
      BY <1>1, <1>3, FirstMember
  <2>3. IndexOf(m) \in same
    BY <2>1, <2>2
  <2>. QED
    BY <2>3
<1>. QED
  BY <1>2, <1>3

-----------------------------------------------------------------------------
(* The steps. *)

\* A start of the viewer, with what the file holds or with the defaults.
LEMMA Starting ==
  ASSUME NEW c \in Configs, Started(c)
  PROVE  PaneInv'
<1>1. c.def \in Defs /\ c.sel \in [Panes -> Indices] /\ c.zoom \in BOOLEAN
      /\ c.font \in Int /\ c # None
  BY ConfigFacts DEF Configs
<1>2. /\ def' = c.def /\ sel' = c.sel /\ zoom' = c.zoom /\ font' = c.font
      /\ req' = [p \in Panes |-> FirstDigit(c.sel[p])]
      /\ defStr' = [p \in Panes |-> None] /\ name' = [p \in Panes |-> None]
      /\ pc' = [w \in Writers |-> "loop"] /\ togo' = {} /\ edit' = None
      /\ file' = c /\ buf' = [w \in Writers |-> None]
      /\ alone' = [w \in Writers |-> TRUE] /\ unsure' = FALSE
      /\ chosen' = [p \in Panes |-> NameOf(c.def[c.sel[p]])]
      /\ excused' = [p \in Panes |-> FALSE]
  BY DEF Started
<1>3. \A p \in Panes : c.def[c.sel[p]] \in Definitions /\ c.sel[p] \in Indices
  BY <1>1 DEF Defs
<1>4. /\ req' \in [Panes -> {-1} \cup Indices]
      /\ \A p \in Panes : req'[p] \in Indices /\ req'[p] = c.sel[p]
  BY <1>2, <1>3, DigitFacts
<1>5. PaneTypes'
  <2>1. chosen' \in [Panes -> Names \cup {None}]
    BY <1>2, <1>3, NameFacts
  <2>2. excused' \in [Panes -> BOOLEAN]
    BY <1>2
  <2>3. \A w \in Writers : pc'[w] = "loop"
    BY <1>2
  <2>4. pc' \in [Writers -> {"loop", "print", "close", "copy", "name", "panes"}]
    BY <1>2
  <2>5. defStr' \in [Panes -> Definitions] /\ name' \in [Panes -> Names \cup {None, Cleared}]
    BY <1>2 DEF Definitions
  <2>6. buf' \in [Writers -> Configs \cup {None}] /\ alone' \in [Writers -> BOOLEAN]
    BY <1>2
  <2>. QED
    BY <1>1, <1>2, <1>4, <2>1, <2>2, <2>3, <2>4, <2>5, <2>6, ConfigFacts DEF PaneTypes
<1>6. Printed' /\ SavedWhenQuiet'
  <2>1. Kept(file)' = Kept(Config)' /\ file' # None
    BY <1>1, <1>2 DEF Kept, Config
  <2>2. \A w \in Writers : pc'[w] = "loop"
    BY <1>2
  <2>. QED
    BY <2>1, <2>2 DEF Printed, SavedWhenQuiet
<1>7. ASSUME NEW p \in Panes PROVE ChoiceOK(p)'
  <2>1. /\ pc'[p] = "loop" /\ name'[p] = None /\ defStr'[p] = None /\ req'[p] \in Indices
        /\ chosen'[p] = NameOf(c.def[c.sel[p]]) /\ p \notin togo'
    BY <1>2, <1>4, ConfigFacts
  <2>2. req'[p] = c.sel[p]
    BY <1>4
  <2>. QED
    BY <1>2, <2>1, <2>2, NameFacts, ConfigFacts DEF ChoiceOK
<1>. QED
  BY <1>2, <1>5, <1>6, <1>7 DEF PaneInv

LEMMA InitPanes == ConfigInit => PaneInv
<1>. SUFFICES ASSUME ConfigInit PROVE PaneInv
  OBVIOUS
<1>1. /\ def = Defaults /\ sel = DefaultSel /\ zoom = FALSE /\ font = DefaultFont
      /\ req = [p \in Panes |-> FirstDigit(DefaultSel[p])]
      /\ defStr = [p \in Panes |-> None] /\ name = [p \in Panes |-> None]
      /\ pc = [w \in Writers |-> "loop"] /\ togo = {} /\ edit = None
      /\ file = DefaultConfig /\ buf = [w \in Writers |-> None]
      /\ alone = [w \in Writers |-> TRUE] /\ unsure = FALSE
      /\ chosen = [p \in Panes |-> NameOf(Defaults[DefaultSel[p]])]
      /\ excused = [p \in Panes |-> FALSE]
  BY DEF ConfigInit
<1>2. /\ DefaultSel \in [Panes -> Indices] /\ DefaultFont \in Int
      /\ \A p \in Panes : /\ Defaults[DefaultSel[p]] \in Definitions
                          /\ req[p] = DefaultSel[p] /\ req[p] \in Indices
  <2>1. DefaultSel \in [Panes -> Indices] /\ DefaultFont \in Int
    BY ConfigAssumption
  <2>2. \A p \in Panes : req[p] = DefaultSel[p]
    BY <1>1, <2>1, DigitFacts
  <2>. QED
    BY <2>1, <2>2, ConfigFacts DEF Defs
<1>3. PaneTypes
  <2>1. chosen \in [Panes -> Names \cup {None}]
    BY <1>1, <1>2, NameFacts
  <2>2. excused \in [Panes -> BOOLEAN] /\ alone \in [Writers -> BOOLEAN]
    BY <1>1
  <2>3. \A w \in Writers : pc[w] = "loop"
    BY <1>1
  <2>4. pc \in [Writers -> {"loop", "print", "close", "copy", "name", "panes"}]
    BY <1>1
  <2>5. defStr \in [Panes -> Definitions] /\ name \in [Panes -> Names \cup {None, Cleared}]
    BY <1>1 DEF Definitions
  <2>6. sel \in [Panes -> Indices] /\ req \in [Panes -> {-1} \cup Indices]
    BY <1>1, <1>2
  <2>7. buf \in [Writers -> Configs \cup {None}]
    BY <1>1
  <2>. QED
    BY <1>1, <1>2, <2>1, <2>2, <2>3, <2>4, <2>5, <2>6, <2>7, ConfigFacts DEF PaneTypes
<1>4. Printed /\ SavedWhenQuiet
  <2>1. Kept(file) = Kept(Config) /\ file # None
    BY <1>1, ConfigFacts DEF Kept, Config, DefaultConfig
  <2>2. \A w \in Writers : pc[w] = "loop"
    BY <1>1
  <2>. QED
    BY <2>1, <2>2 DEF Printed, SavedWhenQuiet
<1>5. ASSUME NEW p \in Panes PROVE ChoiceOK(p)
  BY <1>1, <1>2, NameFacts, ConfigFacts DEF ChoiceOK
<1>. QED
  BY <1>1, <1>3, <1>4, <1>5 DEF PaneInv

\* A writer that opens the file is the only one whose writing counts; when it
\* cannot open it, nobody's does.
LEMMA OpenStep ==
  ASSUME PaneTypes, NEW w \in Writers, Opens(w)
  PROVE  /\ Printed' /\ SavedWhenQuiet'
         /\ file' \in Configs \cup {None} /\ buf' \in [Writers -> Configs \cup {None}]
         /\ alone' \in [Writers -> BOOLEAN] /\ unsure' \in BOOLEAN
         /\ pc' \in [Writers -> {"loop", "print", "close", "copy", "name", "panes"}]
         /\ pc'[w] = "print" \/ pc'[w] = IF w = Display THEN "loop" ELSE "copy"
         /\ \A v \in Writers : v # w => pc'[v] = pc[v]
<1>1. pc \in [Writers -> {"loop", "print", "close", "copy", "name", "panes"}]
  BY DEF PaneTypes
<1>2. CASE Opened(w)
  <2>1. /\ file' = None /\ UNCHANGED <<buf, unsure>> /\ pc' = [pc EXCEPT ![w] = "print"]
        /\ alone' = [v \in Writers |-> IF v = w THEN \A u \in Writers \ {w} : ~Writing(u)
                                       ELSE alone[v] /\ ~Writing(v)]
    BY <1>2 DEF Opened
  <2>2. pc'[w] = "print" /\ \A v \in Writers : v # w => pc'[v] = pc[v]
    BY <1>1, <2>1
  <2>3. ASSUME NEW v \in Writers, pc'[v] = "close" PROVE ~alone'[v]
    <3>1. v # w /\ pc[v] = "close"
      BY <2>2, <2>3
    <3>2. alone'[v] = (alone[v] /\ ~Writing(v)) /\ Writing(v)
      BY <2>1, <3>1 DEF Writing
    <3>. QED
      BY <3>2
  <2>4. Printed'
    BY <2>3 DEF Printed
  <2>5. SavedWhenQuiet'
    BY <2>2 DEF SavedWhenQuiet, Writing
  <2>6. alone' \in [Writers -> BOOLEAN]
    BY <2>1
  <2>7. pc' \in [Writers -> {"loop", "print", "close", "copy", "name", "panes"}]
    BY <1>1, <2>1
  <2>. QED
    BY <2>1, <2>2, <2>4, <2>5, <2>6, <2>7 DEF PaneTypes
<1>3. CASE OpenFails(w)
  <2>. DEFINE to == IF w = Display THEN "loop" ELSE "copy"
  <2>1. /\ UNCHANGED <<file, buf>> /\ unsure' = TRUE /\ pc' = [pc EXCEPT ![w] = to]
        /\ alone' = [v \in Writers |-> alone[v] /\ ~Writing(v)]
    BY <1>3 DEF OpenFails, Resumed
  <2>2. pc'[w] = to /\ pc'[w] # "close" /\ \A v \in Writers : v # w => pc'[v] = pc[v]
    BY <1>1, <2>1
  <2>3. ASSUME NEW v \in Writers, pc'[v] = "close" PROVE ~alone'[v]
    <3>1. pc[v] = "close"
      BY <2>2, <2>3
    <3>2. alone'[v] = (alone[v] /\ ~Writing(v)) /\ Writing(v)
      BY <2>1, <3>1 DEF Writing
    <3>. QED
      BY <3>2
  <2>4. Printed'
    BY <2>3 DEF Printed
  <2>5. SavedWhenQuiet'
    BY <2>1 DEF SavedWhenQuiet
  <2>6. alone' \in [Writers -> BOOLEAN]
    BY <2>1
  <2>7. pc' \in [Writers -> {"loop", "print", "close", "copy", "name", "panes"}]
    BY <1>1, <2>1
  <2>. QED
    BY <2>1, <2>2, <2>4, <2>5, <2>6, <2>7 DEF PaneTypes
<1>. QED
  BY <1>2, <1>3 DEF Opens

LEMMA SameChoice ==
  ASSUME NEW p \in Panes, ChoiceOK(p),
         def' = def, sel'[p] = sel[p], req'[p] = req[p], defStr'[p] = defStr[p], name'[p] = name[p],
         chosen'[p] = chosen[p], excused'[p] = excused[p], p \in togo' <=> p \in togo,
         pc'[p] = "loop" <=> pc[p] = "loop", pc'[p] = "name" => pc[p] = "name"
  PROVE  ChoiceOK(p)'
BY DEF ChoiceOK

\* The configuration and the file are left alone.
LEMMA SameFile ==
  ASSUME PaneInv, UNCHANGED <<config, pc, saved>>
  PROVE  Printed' /\ SavedWhenQuiet'
<1>1. Config' = Config
  BY DEF Config, config
<1>. QED
  BY <1>1 DEF PaneInv, Printed, UpToDate, Kept, SavedWhenQuiet, Writing, saved

LEMMA PrintsStep ==
  ASSUME PaneInv, NEW w \in Writers, Prints(w)
  PROVE  PaneInv'
<1>1. PaneTypes /\ Printed /\ SavedWhenQuiet /\ \A p \in Panes : ChoiceOK(p)
  BY DEF PaneInv
<1>2. /\ pc[w] = "print"
      /\ buf' = [buf EXCEPT ![w] = Config] /\ pc' = [pc EXCEPT ![w] = "close"]
      /\ UNCHANGED <<def, sel, zoom, font, req, defStr, name, togo, edit, file, alone, unsure, chosen, excused>>
  BY DEF Prints, config
<1>3. Config \in Configs /\ Config' = Config /\ Config # None
  BY <1>1, <1>2, ConfigFacts DEF Config, Configs, PaneTypes
<1>4. /\ pc \in [Writers -> {"loop", "print", "close", "copy", "name", "panes"}]
      /\ buf \in [Writers -> Configs \cup {None}]
  BY <1>1 DEF PaneTypes
<1>5. /\ pc'[w] = "close" /\ \A v \in Writers : v # w => pc'[v] = pc[v] /\ buf'[v] = buf[v]
      /\ buf'[w] = Config
  BY <1>2, <1>4
<1>6. PaneTypes'
  <2>1. /\ pc' \in [Writers -> {"loop", "print", "close", "copy", "name", "panes"}]
        /\ buf' \in [Writers -> Configs \cup {None}]
    BY <1>2, <1>3, <1>4
  <2>2. /\ pc'[Display] \in {"loop", "print", "close", "panes"}
        /\ \A p \in Panes : pc'[p] # "panes"
    BY <1>1, <1>5, ConfigFacts DEF PaneTypes
  <2>. QED
    BY <1>1, <1>2, <2>1, <2>2 DEF PaneTypes
<1>7. Printed' /\ SavedWhenQuiet'
  <2>1. pc'[Display] # "panes" => pc[Display] # "panes"
    BY <1>2, <1>5, ConfigFacts
  <2>2. Printed'
    BY <1>1, <1>2, <1>3, <1>5, <2>1 DEF Printed, UpToDate
  <2>. QED
    BY <1>5, <2>2 DEF SavedWhenQuiet, Writing
<1>8. ASSUME NEW p \in Panes PROVE ChoiceOK(p)'
  <2>1. (pc'[p] = "loop" <=> pc[p] = "loop") /\ (pc'[p] = "name" => pc[p] = "name")
    BY <1>2, <1>5, ConfigFacts
  <2>. QED
    BY <1>1, <1>2, <2>1, SameChoice
<1>9. pc'[Display] # "panes" => togo' = {}
  BY <1>2, <1>5, ConfigFacts DEF PaneInv
<1>. QED
  BY <1>6, <1>7, <1>8, <1>9 DEF PaneInv

LEMMA CloseStep ==
  ASSUME PaneInv, NEW w \in Writers, Close(w)
  PROVE  PaneInv'
<1>1. PaneTypes /\ Printed /\ SavedWhenQuiet /\ \A p \in Panes : ChoiceOK(p)
  BY DEF PaneInv
<1>. DEFINE to == IF w = Display THEN "loop" ELSE "copy"
<1>2. /\ pc[w] = "close" /\ file' = buf[w] /\ buf' = [buf EXCEPT ![w] = None]
      /\ unsure' = ~alone[w] /\ pc' = [pc EXCEPT ![w] = to]
      /\ UNCHANGED <<def, sel, zoom, font, req, defStr, name, togo, edit, alone, chosen, excused>>
  BY DEF Close, Resumed, config
<1>3. Config' = Config
  BY <1>2 DEF Config
<1>4. /\ pc \in [Writers -> {"loop", "print", "close", "copy", "name", "panes"}]
      /\ buf \in [Writers -> Configs \cup {None}] /\ alone \in [Writers -> BOOLEAN]
  BY <1>1 DEF PaneTypes
<1>5. pc'[w] = to /\ \A v \in Writers : v # w => pc'[v] = pc[v] /\ buf'[v] = buf[v]
  BY <1>2, <1>4
<1>6. PaneTypes'
  <2>1. /\ pc' \in [Writers -> {"loop", "print", "close", "copy", "name", "panes"}]
        /\ buf' \in [Writers -> Configs \cup {None}]
    BY <1>2, <1>4
  <2>2. /\ pc'[Display] \in {"loop", "print", "close", "panes"}
        /\ \A p \in Panes : pc'[p] # "panes"
    BY <1>1, <1>5, ConfigFacts DEF PaneTypes
  <2>3. file' \in Configs \cup {None} /\ unsure' \in BOOLEAN
    BY <1>2, <1>4
  <2>. QED
    BY <1>1, <1>2, <2>1, <2>2, <2>3 DEF PaneTypes
<1>7. pc'[Display] # "panes" => pc[Display] # "panes"
  BY <1>2, <1>5, ConfigFacts
<1>8. Printed'
  <2>1. \A v \in Writers : pc'[v] = "close" => v # w
    BY <1>5
  <2>. QED
    BY <1>1, <1>2, <1>3, <1>5, <1>7, <2>1 DEF Printed, UpToDate
<1>9. SavedWhenQuiet'
  <2>1. ASSUME pc'[Display] = "loop", ~unsure' PROVE UpToDate(file')
    <3>1. pc[Display] # "panes" /\ alone[w]
      BY <1>2, <1>4, <1>7, <2>1
    <3>. QED
      BY <1>1, <1>2, <3>1 DEF Printed
  <2>. QED
    BY <1>3, <2>1 DEF SavedWhenQuiet, UpToDate, Kept
<1>10. ASSUME NEW p \in Panes PROVE ChoiceOK(p)'
  <2>1. (pc'[p] = "loop" <=> pc[p] = "loop") /\ (pc'[p] = "name" => pc[p] = "name")
    BY <1>2, <1>5, ConfigFacts
  <2>. QED
    BY <1>1, <1>2, <2>1, SameChoice
<1>11. pc'[Display] # "panes" => togo' = {}
  BY <1>2, <1>7 DEF PaneInv
<1>. QED
  BY <1>6, <1>8, <1>9, <1>10, <1>11 DEF PaneInv

\* The user chooses a webcam for a pane: the request is new, unless the pane
\* is still taking up the one before.
LEMMA ChooseStep ==
  ASSUME PaneInv, NEW q \in Panes, NEW i \in Indices, Choose(q, i)
  PROVE  PaneInv'
<1>1. PaneTypes /\ \A p \in Panes : ChoiceOK(p)
  BY DEF PaneInv
<1>2. /\ pc[Display] = "loop" /\ togo = {}
      /\ req' = [req EXCEPT ![q] = i] /\ chosen' = [chosen EXCEPT ![q] = NameOf(def[i])]
      /\ excused' = [excused EXCEPT ![q] = pc[q] # "loop"]
      /\ UNCHANGED <<config, defStr, name, pc, togo, edit, saved>>
      /\ UNCHANGED <<def, sel, zoom, font, file, buf, alone, unsure>>
  BY DEF Choose, Event, PaneInv, config, saved
<1>3. /\ req \in [Panes -> {-1} \cup Indices] /\ chosen \in [Panes -> Names \cup {None}]
      /\ excused \in [Panes -> BOOLEAN] /\ def[i] \in Definitions /\ i # -1
  BY <1>1, ConfigFacts DEF PaneTypes, Defs
<1>4. /\ req'[q] = i /\ chosen'[q] = NameOf(def[i]) /\ excused'[q] = (pc[q] # "loop")
      /\ \A p \in Panes : p # q => req'[p] = req[p] /\ chosen'[p] = chosen[p] /\ excused'[p] = excused[p]
  BY <1>2, <1>3
<1>5. PaneTypes'
  <2>1. /\ req' \in [Panes -> {-1} \cup Indices] /\ excused' \in [Panes -> BOOLEAN]
        /\ chosen' \in [Panes -> Names \cup {None}]
    BY <1>2, <1>3, NameFacts
  <2>. QED
    BY <1>1, <1>2, <2>1 DEF PaneTypes
<1>6. ASSUME NEW p \in Panes PROVE ChoiceOK(p)'
  <2>1. CASE p = q
    BY <1>1, <1>2, <1>3, <1>4, <2>1 DEF ChoiceOK
  <2>2. CASE p # q
    BY <1>1, <1>2, <1>4, <2>2, SameChoice
  <2>. QED
    BY <2>1, <2>2
<1>. QED
  BY <1>2, <1>5, <1>6, SameFile DEF PaneInv

LEMMA ZoomStep ==
  ASSUME PaneInv, Zoom
  PROVE  PaneInv'
<1>1. PaneTypes /\ \A p \in Panes : ChoiceOK(p)
  BY DEF PaneInv
<1>2. /\ pc[Display] = "loop" /\ togo = {} /\ zoom' = ~zoom /\ Opens(Display)
      /\ UNCHANGED <<def, sel, font, req, defStr, name, togo, edit, chosen, excused>>
  BY DEF Zoom, Zoomed, Event, PaneInv
<1>3. /\ pc \in [Writers -> {"loop", "print", "close", "copy", "name", "panes"}]
      /\ Display \in Writers /\ Panes \subseteq Writers /\ Display \notin Panes
  BY <1>1, ConfigFacts DEF PaneTypes
<1>4. /\ Printed' /\ SavedWhenQuiet'
      /\ file' \in Configs \cup {None} /\ buf' \in [Writers -> Configs \cup {None}]
      /\ alone' \in [Writers -> BOOLEAN] /\ unsure' \in BOOLEAN
      /\ pc' \in [Writers -> {"loop", "print", "close", "copy", "name", "panes"}]
      /\ pc'[Display] \in {"print", "loop"}
      /\ \A v \in Writers : v # Display => pc'[v] = pc[v]
  BY <1>1, <1>2, <1>3, OpenStep
<1>5. \A p \in Panes : pc'[p] = pc[p]
  BY <1>3, <1>4
<1>6. PaneTypes'
  BY <1>1, <1>2, <1>4, <1>5 DEF PaneTypes
<1>7. ASSUME NEW p \in Panes PROVE ChoiceOK(p)'
  BY <1>1, <1>2, <1>5, SameChoice
<1>. QED
  BY <1>2, <1>4, <1>6, <1>7 DEF PaneInv

\* Definitions are edited in a copy.
LEMMA EditStep ==
  ASSUME PaneInv,
         EditEnter \/ EditCancel \/ \E i \in Indices, v \in Definitions : EditEntry(i, v)
  PROVE  PaneInv'
<1>1. PaneTypes /\ \A p \in Panes : ChoiceOK(p)
  BY DEF PaneInv
<1>2. /\ UNCHANGED <<config, pc, saved>>
      /\ UNCHANGED <<def, sel, zoom, font, req, defStr, name, pc, togo, file, buf, alone, unsure,
                     chosen, excused>>
  BY DEF EditEnter, EditCancel, EditEntry, config, saved
<1>3. edit' \in Defs \cup {None}
  <2>1. CASE EditEnter
    BY <1>1, <2>1 DEF EditEnter, PaneTypes
  <2>2. CASE EditCancel
    BY <2>2 DEF EditCancel
  <2>3. ASSUME NEW i \in Indices, NEW v \in Definitions, EditEntry(i, v) PROVE edit' \in Defs
    <3>1. edit \in Defs /\ edit' = Edited(edit, i, v)
      BY <1>1, <2>3 DEF EditEntry, PaneTypes
    <3>. QED
      BY <3>1, EditedDefs
  <2>. QED
    BY <2>1, <2>2, <2>3
<1>4. PaneTypes'
  BY <1>1, <1>2, <1>3 DEF PaneTypes
<1>5. ASSUME NEW p \in Panes PROVE ChoiceOK(p)'
  BY <1>1, <1>2, SameChoice
<1>. QED
  BY <1>2, <1>4, <1>5, SameFile DEF PaneInv

\* The size of the font is changed, and not written.
LEMMA FontStep ==
  ASSUME PaneInv, Font
  PROVE  PaneInv'
<1>1. PaneTypes /\ Printed /\ SavedWhenQuiet /\ \A p \in Panes : ChoiceOK(p)
  BY DEF PaneInv
<1>2. /\ font' \in {font - 1, font + 1} /\ togo = {}
      /\ UNCHANGED <<def, sel, zoom, req, defStr, name, pc, togo, edit, file, buf, alone, unsure,
                     chosen, excused>>
  BY DEF Font, Event, PaneInv, saved
<1>3. PaneTypes'
  BY <1>1, <1>2 DEF PaneTypes
<1>4. Kept(Config)' = Kept(Config)
  BY <1>2 DEF Kept, Config
<1>5. Printed' /\ SavedWhenQuiet'
  BY <1>1, <1>2, <1>4 DEF Printed, UpToDate, Kept, SavedWhenQuiet, Writing
<1>6. ASSUME NEW p \in Panes PROVE ChoiceOK(p)'
  BY <1>1, <1>2, SameChoice
<1>. QED
  BY <1>2, <1>3, <1>5, <1>6 DEF PaneInv

\* New definitions excuse the panes with a request; what the other panes show
\* is looked up in them next.
LEMMA EditAcceptStep ==
  ASSUME PaneInv, EditAccept
  PROVE  PaneInv'
<1>1. PaneTypes /\ \A p \in Panes : ChoiceOK(p)
  BY DEF PaneInv
<1>2. /\ pc[Display] = "loop" /\ togo = {} /\ edit # None /\ def' = edit
      /\ pc' = [pc EXCEPT ![Display] = "panes"] /\ togo' = Panes
      /\ excused' = [p \in Panes |-> excused[p] \/ req[p] # -1]
      /\ UNCHANGED <<sel, zoom, font, req, defStr, name, edit, file, buf, alone, unsure, chosen>>
  BY DEF EditAccept, Event, PaneInv, saved
<1>3. /\ pc \in [Writers -> {"loop", "print", "close", "copy", "name", "panes"}]
      /\ Display \in Writers /\ Panes \subseteq Writers /\ Display \notin Panes
  BY <1>1, ConfigFacts DEF PaneTypes
<1>4. /\ pc' \in [Writers -> {"loop", "print", "close", "copy", "name", "panes"}]
      /\ pc'[Display] = "panes" /\ \A p \in Panes : pc'[p] = pc[p]
  BY <1>2, <1>3
<1>5. PaneTypes'
  <2>1. def' \in Defs
    BY <1>1, <1>2 DEF PaneTypes
  <2>2. excused' \in [Panes -> BOOLEAN]
    BY <1>1, <1>2 DEF PaneTypes
  <2>. QED
    BY <1>1, <1>2, <1>4, <2>1, <2>2 DEF PaneTypes
<1>6. Printed' /\ SavedWhenQuiet'
  BY <1>4 DEF Printed, SavedWhenQuiet
<1>7. ASSUME NEW p \in Panes PROVE ChoiceOK(p)'
  <2>1. excused'[p] <=> excused[p] \/ req[p] # -1
    BY <1>2
  <2>. QED
    BY <1>1, <1>2, <1>4, <2>1 DEF ChoiceOK
<1>. QED
  BY <1>4, <1>5, <1>6, <1>7 DEF PaneInv

\* The pane is given the definition of its name; when it has changed, as a
\* request.
LEMMA AcceptPaneStep ==
  ASSUME PaneInv, NEW q \in Panes, AcceptPane(q)
  PROVE  PaneInv'
<1>. PICK i : i = IndexOf(name[q])
  OBVIOUS
<1>1. PaneTypes /\ \A p \in Panes : ChoiceOK(p)
  BY DEF PaneInv
<1>2. /\ pc[Display] = "panes" /\ q \in togo /\ togo' = togo \ {q}
      /\ sel' = [sel EXCEPT ![q] = i]
      /\ req' = IF def[i] # defStr[q] THEN [req EXCEPT ![q] = i] ELSE req
      /\ chosen' = IF \E k \in Indices : NameOf(def[k]) = name[q] THEN chosen
                   ELSE [chosen EXCEPT ![q] = None]
      /\ UNCHANGED <<def, zoom, font, defStr, name, pc, edit, file, buf, alone, unsure, excused>>
  BY DEF AcceptPane, Reselect, saved
<1>3. /\ i \in Indices /\ i # -1
      /\ (\E k \in Indices : NameOf(def[k]) = name[q]) => NameOf(def[i]) = name[q]
      /\ ~(\E k \in Indices : NameOf(def[k]) = name[q]) => NameOf(def[i]) = None
  BY <1>1, IndexFacts, ConfigFacts
<1>4. /\ req \in [Panes -> {-1} \cup Indices] /\ chosen \in [Panes -> Names \cup {None}]
      /\ sel \in [Panes -> Indices] /\ excused \in [Panes -> BOOLEAN]
  BY <1>1 DEF PaneTypes
<1>5. /\ sel'[q] = i /\ req'[q] = IF def[i] # defStr[q] THEN i ELSE req[q]
      /\ \A p \in Panes : p # q => sel'[p] = sel[p] /\ req'[p] = req[p] /\ chosen'[p] = chosen[p]
  BY <1>2, <1>4
<1>6. PaneTypes'
  <2>1. req' \in [Panes -> {-1} \cup Indices] /\ sel' \in [Panes -> Indices]
    BY <1>2, <1>3, <1>4
  <2>2. chosen' \in [Panes -> Names \cup {None}]
    BY <1>2, <1>4
  <2>3. togo' \subseteq Panes
    BY <1>1, <1>2 DEF PaneTypes
  <2>. QED
    BY <1>1, <1>2, <2>1, <2>2, <2>3 DEF PaneTypes
<1>7. Printed' /\ SavedWhenQuiet'
  BY <1>2 DEF Printed, SavedWhenQuiet
<1>8. ASSUME NEW p \in Panes PROVE ChoiceOK(p)'
  <2>1. CASE p # q
    <3>1. p \in togo' <=> p \in togo
      BY <1>2, <2>1
    <3>. QED
      BY <1>1, <1>2, <1>5, <2>1, <3>1, SameChoice
  <2>2. CASE p = q /\ ~excused[q]
    <3>1. req[q] = -1 /\ pc[q] = "loop" /\ name[q] = chosen[q] /\ name[q] = NameOf(defStr[q])
      BY <1>1, <1>2, <2>2 DEF ChoiceOK
    <3>2. q \notin togo'
      BY <1>2
    <3>3. CASE \E k \in Indices : NameOf(def[k]) = name[q]
      <4>1. chosen'[q] = name[q] /\ NameOf(def[i]) = name[q]
        BY <1>2, <1>3, <3>1, <3>3
      <4>. QED
        BY <1>2, <1>3, <1>5, <2>2, <3>1, <3>2, <4>1 DEF ChoiceOK
    <3>4. CASE ~\E k \in Indices : NameOf(def[k]) = name[q]
      <4>1. chosen'[q] = None /\ NameOf(def[i]) = None
        BY <1>2, <1>3, <1>4, <3>4
      <4>2. def[i] # defStr[q]
        BY <1>3, <3>1, <3>4
      <4>. QED
        BY <1>2, <1>3, <1>5, <2>2, <3>1, <3>2, <4>1, <4>2 DEF ChoiceOK
    <3>. QED
      BY <3>3, <3>4
  <2>3. CASE p = q /\ excused[q]
    <3>1. pc[q] # "loop" => req'[q] # -1
      BY <1>1, <1>3, <1>5 DEF ChoiceOK
    <3>. QED
      BY <1>1, <1>2, <2>3, <3>1 DEF ChoiceOK
  <2>. QED
    BY <2>1, <2>2, <2>3
<1>. QED
  BY <1>2, <1>6, <1>7, <1>8 DEF PaneInv

LEMMA AcceptWriteStep ==
  ASSUME PaneInv, AcceptWrite
  PROVE  PaneInv'
<1>1. PaneTypes /\ \A p \in Panes : ChoiceOK(p)
  BY DEF PaneInv
<1>2. /\ togo = {} /\ edit' = None /\ Opens(Display)
      /\ UNCHANGED <<def, sel, zoom, font, req, defStr, name, togo, chosen, excused>>
  BY DEF AcceptWrite, config
<1>3. /\ pc \in [Writers -> {"loop", "print", "close", "copy", "name", "panes"}]
      /\ Display \in Writers /\ Panes \subseteq Writers /\ Display \notin Panes
  BY <1>1, ConfigFacts DEF PaneTypes
<1>4. /\ Printed' /\ SavedWhenQuiet'
      /\ file' \in Configs \cup {None} /\ buf' \in [Writers -> Configs \cup {None}]
      /\ alone' \in [Writers -> BOOLEAN] /\ unsure' \in BOOLEAN
      /\ pc' \in [Writers -> {"loop", "print", "close", "copy", "name", "panes"}]
      /\ pc'[Display] \in {"print", "loop"}
      /\ \A v \in Writers : v # Display => pc'[v] = pc[v]
  BY <1>1, <1>2, <1>3, OpenStep
<1>5. \A p \in Panes : pc'[p] = pc[p]
  BY <1>3, <1>4
<1>6. PaneTypes'
  BY <1>1, <1>2, <1>4, <1>5 DEF PaneTypes
<1>7. ASSUME NEW p \in Panes PROVE ChoiceOK(p)'
  BY <1>1, <1>2, <1>5, SameChoice
<1>. QED
  BY <1>2, <1>4, <1>6, <1>7 DEF PaneInv

LEMMA TakeUpStep ==
  ASSUME PaneInv, NEW q \in Panes, TakeUp(q)
  PROVE  PaneInv'
<1>1. PaneTypes /\ \A p \in Panes : ChoiceOK(p)
  BY DEF PaneInv
<1>2. /\ pc[q] = "loop" /\ req[q] # -1 /\ sel' = [sel EXCEPT ![q] = req[q]]
      /\ Opens(q)
      /\ UNCHANGED <<def, zoom, font, req, defStr, name, togo, edit, chosen, excused>>
  BY DEF TakeUp
<1>3. /\ pc \in [Writers -> {"loop", "print", "close", "copy", "name", "panes"}]
      /\ sel \in [Panes -> Indices] /\ req[q] \in Indices
      /\ Display \in Writers /\ Panes \subseteq Writers /\ Display # q
  BY <1>1, <1>2, ConfigFacts DEF PaneTypes
<1>4. /\ Printed' /\ SavedWhenQuiet'
      /\ file' \in Configs \cup {None} /\ buf' \in [Writers -> Configs \cup {None}]
      /\ alone' \in [Writers -> BOOLEAN] /\ unsure' \in BOOLEAN
      /\ pc' \in [Writers -> {"loop", "print", "close", "copy", "name", "panes"}]
      /\ pc'[q] \in {"print", "copy"} /\ \A v \in Writers : v # q => pc'[v] = pc[v]
  BY <1>1, <1>2, <1>3, OpenStep
<1>5. /\ sel' \in [Panes -> Indices] /\ sel'[q] = req[q] /\ pc'[Display] = pc[Display]
      /\ \A p \in Panes : p # q => pc'[p] = pc[p] /\ sel'[p] = sel[p]
  BY <1>2, <1>3, <1>4
<1>6. \A p \in Panes : pc'[p] # "panes"
  BY <1>1, <1>4, <1>5 DEF PaneTypes
<1>7. PaneTypes'
  BY <1>1, <1>2, <1>4, <1>5, <1>6 DEF PaneTypes
<1>8. ASSUME NEW p \in Panes PROVE ChoiceOK(p)'
  <2>1. CASE p = q
    BY <1>1, <1>2, <1>4, <1>5, <2>1 DEF ChoiceOK
  <2>2. CASE p # q
    BY <1>1, <1>2, <1>5, <2>2, SameChoice
  <2>. QED
    BY <2>1, <2>2
<1>. QED
  BY <1>2, <1>4, <1>5, <1>7, <1>8 DEF PaneInv

\* The pane goes on from where a request has been written to one of the steps
\* that make it take effect; its thread is no writer then.
LEMMA PaneMoves ==
  ASSUME PaneInv, NEW q \in Panes, NEW to \in {"loop", "name"}, pc[q] \in {"copy", "name"},
         pc' = [pc EXCEPT ![q] = to], UNCHANGED <<config, saved>>
  PROVE  /\ Printed' /\ SavedWhenQuiet'
         /\ pc' \in [Writers -> {"loop", "print", "close", "copy", "name", "panes"}]
         /\ pc'[q] = to /\ \A w \in Writers : w # q => pc'[w] = pc[w]
         /\ pc'[Display] = pc[Display] /\ \A p \in Panes : pc'[p] # "panes"
<1>1. PaneTypes /\ Printed /\ SavedWhenQuiet
  BY DEF PaneInv
<1>2. /\ pc \in [Writers -> {"loop", "print", "close", "copy", "name", "panes"}]
      /\ Display \in Writers /\ Panes \subseteq Writers /\ Display # q
      /\ \A p \in Panes : pc[p] # "panes"
  BY <1>1, ConfigFacts DEF PaneTypes
<1>3. /\ pc' \in [Writers -> {"loop", "print", "close", "copy", "name", "panes"}]
      /\ pc'[q] = to /\ \A w \in Writers : w # q => pc'[w] = pc[w]
  BY <1>2
<1>4. /\ pc'[Display] = pc[Display] /\ \A p \in Panes : pc'[p] # "panes"
  BY <1>2, <1>3
<1>5. Config' = Config /\ UNCHANGED <<file, buf, alone, unsure>>
  BY DEF Config, config, saved
<1>6. \A w \in Writers : pc'[w] = "close" => pc[w] = "close"
  BY <1>3
<1>7. Printed'
  BY <1>1, <1>4, <1>5, <1>6 DEF Printed, UpToDate, Kept
<1>8. \A w \in Writers : Writing(w) => Writing(w)'
  BY <1>2, <1>3 DEF Writing
<1>9. SavedWhenQuiet'
  BY <1>1, <1>4, <1>5, <1>8 DEF SavedWhenQuiet, Kept
<1>. QED
  BY <1>3, <1>4, <1>7, <1>9

LEMMA CopyDefStep ==
  ASSUME PaneInv, NEW q \in Panes, CopyDef(q)
  PROVE  PaneInv'
<1>1. PaneTypes /\ \A p \in Panes : ChoiceOK(p)
  BY DEF PaneInv
<1>2. /\ pc[q] = "copy" /\ defStr' = [defStr EXCEPT ![q] = def[req[q]]]
      /\ name' = [name EXCEPT ![q] = Cleared] /\ pc' = [pc EXCEPT ![q] = "name"]
      /\ UNCHANGED <<def, sel, zoom, font, req, togo, edit, file, buf, alone, unsure, chosen, excused>>
      /\ UNCHANGED <<config, saved>>
  BY DEF CopyDef, Cleared, config, saved
<1>3. /\ Printed' /\ SavedWhenQuiet'
      /\ pc' \in [Writers -> {"loop", "print", "close", "copy", "name", "panes"}]
      /\ pc'[q] = "name" /\ \A w \in Writers : w # q => pc'[w] = pc[w]
      /\ pc'[Display] = pc[Display] /\ \A p \in Panes : pc'[p] # "panes"
  BY <1>2, PaneMoves
<1>4. req[q] # -1 /\ def[req[q]] \in Definitions
  <2>1. req[q] # -1
    BY <1>1, <1>2 DEF ChoiceOK
  <2>. QED
    BY <1>1, <2>1 DEF PaneTypes, Defs
<1>5. /\ defStr \in [Panes -> Definitions] /\ name \in [Panes -> Names \cup {None, Cleared}]
      /\ Panes \subseteq Writers
  BY <1>1, ConfigFacts DEF PaneTypes
<1>6. /\ defStr' \in [Panes -> Definitions] /\ name' \in [Panes -> Names \cup {None, Cleared}]
      /\ defStr'[q] = def[req[q]]
      /\ \A p \in Panes : p # q => defStr'[p] = defStr[p] /\ name'[p] = name[p] /\ pc'[p] = pc[p]
  BY <1>2, <1>3, <1>4, <1>5
<1>7. PaneTypes'
  BY <1>1, <1>2, <1>3, <1>6 DEF PaneTypes
<1>8. ASSUME NEW p \in Panes PROVE ChoiceOK(p)'
  <2>1. CASE p = q
    BY <1>1, <1>2, <1>3, <1>4, <1>6, <2>1 DEF ChoiceOK
  <2>2. CASE p # q
    BY <1>1, <1>2, <1>6, <2>2, SameChoice
  <2>. QED
    BY <2>1, <2>2
<1>. QED
  BY <1>2, <1>3, <1>7, <1>8 DEF PaneInv

LEMMA SetNameStep ==
  ASSUME PaneInv, NEW q \in Panes, SetName(q)
  PROVE  PaneInv'
<1>1. PaneTypes /\ \A p \in Panes : ChoiceOK(p)
  BY DEF PaneInv
<1>2. /\ pc[q] = "name" /\ name' = [name EXCEPT ![q] = NameOf(defStr[q])]
      /\ req' = [req EXCEPT ![q] = -1] /\ pc' = [pc EXCEPT ![q] = "loop"]
      /\ UNCHANGED <<def, sel, zoom, font, defStr, togo, edit, file, buf, alone, unsure, chosen, excused>>
      /\ UNCHANGED <<config, saved>>
  BY DEF SetName, config, saved
<1>3. /\ Printed' /\ SavedWhenQuiet'
      /\ pc' \in [Writers -> {"loop", "print", "close", "copy", "name", "panes"}]
      /\ pc'[q] = "loop" /\ \A w \in Writers : w # q => pc'[w] = pc[w]
      /\ pc'[Display] = pc[Display] /\ \A p \in Panes : pc'[p] # "panes"
  BY <1>2, PaneMoves
<1>4. /\ name \in [Panes -> Names \cup {None, Cleared}] /\ req \in [Panes -> {-1} \cup Indices]
      /\ Panes \subseteq Writers /\ NameOf(defStr[q]) \in Names \cup {None}
  BY <1>1, ConfigFacts, NameFacts DEF PaneTypes
<1>5. /\ name' \in [Panes -> Names \cup {None, Cleared}] /\ req' \in [Panes -> {-1} \cup Indices]
      /\ name'[q] = NameOf(defStr[q]) /\ req'[q] = -1
      /\ \A p \in Panes : p # q => name'[p] = name[p] /\ req'[p] = req[p] /\ pc'[p] = pc[p]
  BY <1>2, <1>3, <1>4
<1>6. PaneTypes'
  BY <1>1, <1>2, <1>3, <1>5 DEF PaneTypes
<1>7. ASSUME NEW p \in Panes PROVE ChoiceOK(p)'
  <2>1. CASE p = q
    BY <1>1, <1>2, <1>3, <1>5, <2>1 DEF ChoiceOK
  <2>2. CASE p # q
    BY <1>1, <1>2, <1>5, <2>2, SameChoice
  <2>. QED
    BY <2>1, <2>2
<1>. QED
  BY <1>2, <1>3, <1>6, <1>7 DEF PaneInv

LEMMA PaneStep == PaneInv /\ [ConfigNext]_configVars => PaneInv'
<1>. SUFFICES ASSUME PaneInv, [ConfigNext]_configVars PROVE PaneInv'
  OBVIOUS
<1>1. CASE DisplayNext
  <2>1. ASSUME NEW p \in Panes, AcceptPane(p) PROVE PaneInv'
    BY <2>1, AcceptPaneStep
  <2>2. ASSUME NEW p \in Panes, NEW i \in Indices, Choose(p, i) PROVE PaneInv'
    BY <2>2, ChooseStep
  <2>3. CASE EditEnter \/ EditCancel \/ \E i \in Indices, v \in Definitions : EditEntry(i, v)
    BY <2>3, EditStep
  <2>4. CASE Zoom
    BY <2>4, ZoomStep
  <2>5. CASE EditAccept
    BY <2>5, EditAcceptStep
  <2>6. CASE AcceptWrite
    BY <2>6, AcceptWriteStep
  <2>7. CASE Font
    BY <2>7, FontStep
  <2>. QED
    BY <1>1, <2>1, <2>2, <2>3, <2>4, <2>5, <2>6, <2>7 DEF DisplayNext
<1>2. CASE PaneNext
  BY <1>2, TakeUpStep, CopyDefStep, SetNameStep DEF PaneNext
<1>3. CASE Restart
  <2>1. (IF file = None THEN DefaultConfig ELSE file) \in Configs
    BY ConfigFacts DEF PaneInv, PaneTypes
  <2>. QED
    BY <1>3, <2>1, Starting DEF Restart
<1>4. CASE \E w \in Writers : Prints(w) \/ Close(w)
  BY <1>4, PrintsStep, CloseStep
<1>5. CASE UNCHANGED configVars
  <2>1. UNCHANGED <<def, sel, zoom, font, req, defStr, name, pc, togo, edit, file, buf, alone, unsure,
                    chosen, excused>>
    BY <1>5 DEF configVars
  <2>2. Printed' /\ SavedWhenQuiet'
    BY <2>1, SameFile DEF config, saved
  <2>3. \A p \in Panes : ChoiceOK(p)'
    BY <2>1, SameChoice DEF PaneInv
  <2>4. PaneTypes'
    BY <2>1 DEF PaneInv, PaneTypes
  <2>. QED
    BY <2>1, <2>2, <2>3, <2>4 DEF PaneInv
<1>. QED
  BY <1>1, <1>2, <1>3, <1>4, <1>5 DEF ConfigNext

LEMMA PanesInvariance == ConfigSpec => []PaneInv
BY InitPanes, PaneStep, PTL DEF ConfigSpec

\* A restart loses no definition, selection or zoom when the file was last
\* written by one thread at a time and could be opened, for any number of panes
\* and whatever the user does.
THEOREM ConfigSaved == ConfigSpec => []SavedWhenQuiet
<1>1. PaneInv => SavedWhenQuiet
  BY DEF PaneInv
<1>. QED
  BY <1>1, PanesInvariance, PTL

\* A pane with no request under way shows the webcam that the user chose.
THEOREM ChoiceKept == ConfigSpec => []KeepsChoice
<1>1. ASSUME PaneInv PROVE KeepsChoice
  BY <1>1 DEF PaneInv, ChoiceOK, KeepsChoice
<1>. QED
  BY <1>1, PanesInvariance, PTL

-----------------------------------------------------------------------------
(* Session.  The argument: on a connection the modes are sent under        *)
(* increasing ids, so that what is under way is older than the mode of the *)
(* pane, or of that mode.                                                  *)

\* the frame f is one that the webcam sends in mode m
Fits(f, m) ==
  /\ f.kind = m.kind
  /\ m.kind = "STOP" <=> f.status = "STOPPED"
  /\ m.kind = "PAUSE" => f.time = m.time
  /\ m.kind = "PLAY" => (f.time - m.time) * m.rate >= 0

Stamped(f) == f.id <= wc.mode.id /\ (f.id = wc.mode.id => Fits(f, wc.mode))

\* a mode that was sent on this connection
SentMode(m) == m.entry <= now /\ m.id <= wc.mode.id /\ (m.id = wc.mode.id => m = wc.mode)

SessionInv ==
  /\ TypeOK
  /\ ctl.entry <= now /\ wc.mode.entry <= now
  /\ wc.mode.id <= ctl.id /\ (wc.pc = "copy" => wc.mode.id < ctl.id)
  /\ Len(up) <= wc.mode.id /\ \A i \in 1 .. Len(up) : SentMode(up[i])
  /\ svc.pc # "done" => SentMode(svc.mode)
  /\ svc.pc = "send" => Stamped(svc.out)
  /\ \A i \in 1 .. Len(down) : down[i].type = "FRAME" => Stamped(down[i].frame)
  /\ ShownFits

LEMMA SessionFacts ==
  /\ MaxModes \in Nat /\ MaxModes > 1 /\ MaxTime \in Nat /\ MaxTime > 1
  /\ MaxQueue \in Nat /\ MaxQueue > 0 /\ Rates \subseteq Int
  /\ NoMode \in Mode /\ NoMode.id = 0 /\ NoMode.entry = 0 /\ NoMode.kind = "NONE"
  /\ NoFrame \in Frame /\ Nothing \in [frame : Frame, mode : Mode]
  /\ IdlePane \in Pane /\ IdlePane.mode = NoMode /\ IdlePane.pc = "check"
  /\ NewService \in SvcState /\ NewService.pc = "recv" /\ NewService.mode = NoMode
  /\ NoService \in SvcState /\ NoService.pc = "done"
<1>1. /\ MaxModes \in Nat /\ MaxModes > 1 /\ MaxTime \in Nat /\ MaxTime > 1
      /\ MaxQueue \in Nat /\ MaxQueue > 0 /\ Rates \subseteq Int
  BY SessionAssumption
<1>2. NoMode \in Mode /\ NoMode.id = 0 /\ NoMode.entry = 0 /\ NoMode.kind = "NONE"
  BY <1>1 DEF NoMode, Mode, Kinds
<1>3. NoFrame \in Frame
  BY <1>1 DEF NoFrame, Frame, Kinds, Statuses
<1>4. Nothing \in [frame : Frame, mode : Mode]
  BY <1>2, <1>3 DEF Nothing
<1>5. IdlePane \in Pane /\ IdlePane.mode = NoMode /\ IdlePane.pc = "check"
  BY <1>2 DEF IdlePane, Pane, Statuses
<1>6. NoTime \in Int
  <2>1. MaxTime * MaxTime \in Int
    BY <1>1
  <2>2. MaxTime * MaxTime * MaxModes \in Int
    BY <1>1, <2>1
  <2>. QED
    BY <2>2 DEF NoTime
<1>7. NewService \in SvcState /\ NewService.pc = "recv" /\ NewService.mode = NoMode
  BY <1>2, <1>3, <1>6 DEF NewService, SvcState
<1>8. NoService \in SvcState /\ NoService.pc = "done"
  BY <1>7 DEF NoService, SvcState
<1>. QED
  BY <1>1, <1>2, <1>3, <1>4, <1>5, <1>7, <1>8

\* A message taken from, or put in, what a link carries.
LEMMA Taken ==
  ASSUME NEW S, NEW s \in Seq(S), s # <<>>
  PROVE  /\ Len(s) \in Nat /\ 1 \in 1 .. Len(s) /\ Head(s) = s[1] /\ Head(s) \in S
         /\ Tail(s) \in Seq(S) /\ Len(Tail(s)) = Len(s) - 1
         /\ \A i \in 1 .. Len(Tail(s)) : i + 1 \in 1 .. Len(s) /\ Tail(s)[i] = s[i + 1]
<1>1. Len(s) \in Nat /\ Len(s) > 0
  BY EmptySeq
<1>2. Head(s) \in S /\ Tail(s) \in Seq(S) /\ Len(Tail(s)) = Len(s) - 1
      /\ \A i \in 1 .. Len(Tail(s)) : Tail(s)[i] = s[i + 1]
  BY HeadTailProperties
<1>. QED
  BY <1>1, <1>2

LEMMA Put ==
  ASSUME NEW S, NEW s \in Seq(S), NEW e \in S
  PROVE  /\ Len(s) \in Nat /\ Append(s, e) \in Seq(S) /\ Len(Append(s, e)) = Len(s) + 1
         /\ \A i \in 1 .. Len(Append(s, e)) :
              (i \in 1 .. Len(s) /\ Append(s, e)[i] = s[i]) \/ Append(s, e)[i] = e
<1>1. Len(s) \in Nat /\ Append(s, e) \in Seq(S) /\ Len(Append(s, e)) = Len(s) + 1
      /\ \A i \in 1 .. Len(s) : Append(s, e)[i] = s[i]
      /\ Append(s, e)[Len(s) + 1] = e
  BY AppendProperties
<1>. QED
  BY <1>1

\* Types, field by field.
LEMMA SessionTypes ==
  ASSUME TypeOK
  PROVE  /\ now \in Nat /\ now >= 1 /\ eod \in Nat /\ rpOk \in BOOLEAN
         /\ ctl \in Mode /\ ctl.id \in 0 .. MaxModes /\ ctl.kind \in Kinds /\ ctl.entry \in Nat
         /\ ctl.time \in Int /\ ctl.rate \in Int
         /\ wc \in Pane /\ wc.mode \in Mode /\ wc.mode.id \in 0 .. MaxModes /\ wc.mode.entry \in Nat
         /\ wc.mode.time \in Int /\ wc.mode.rate \in Int /\ wc.mode.kind \in Kinds
         /\ svc \in SvcState /\ svc.mode \in Mode /\ svc.mode.id \in 0 .. MaxModes
         /\ svc.mode.entry \in Nat /\ svc.mode.time \in Int /\ svc.mode.rate \in Int
         /\ svc.mode.kind \in Kinds /\ svc.out \in Frame
         /\ up \in Seq(Mode) /\ down \in Seq(Messages) /\ Len(up) \in Nat /\ Len(down) \in Nat
<1>1. /\ now \in 1 .. MaxTime /\ eod \in 0 .. now /\ rpOk \in BOOLEAN
      /\ ctl \in Mode /\ wc \in Pane /\ svc \in SvcState /\ up \in Seq(Mode) /\ down \in Seq(Messages)
      /\ MaxTime \in Nat /\ MaxModes \in Nat
  BY SessionFacts DEF TypeOK
<1>2. wc.mode \in Mode
  BY <1>1 DEF Pane
<1>3. svc.mode \in Mode /\ svc.out \in Frame
  BY <1>1 DEF SvcState
<1>4. \A m \in Mode : /\ m.id \in 0 .. MaxModes /\ m.kind \in Kinds /\ m.entry \in Nat
                      /\ m.time \in Int /\ m.rate \in Int
  BY DEF Mode
<1>5. now \in Nat /\ now >= 1 /\ eod \in Nat
  BY <1>1
<1>6. Len(up) \in Nat /\ Len(down) \in Nat
  BY <1>1, LenProperties
<1>. QED
  BY <1>1, <1>2, <1>3, <1>4, <1>5, <1>6

LEMMA InitSession == Init => SessionInv
<1>. SUFFICES ASSUME Init PROVE SessionInv
  OBVIOUS
<1>. PICK k \in Starts : ctl = FirstMode(k)
  BY DEF Init
<1>1. /\ now = 2 /\ eod \in {0, 1} /\ rpOk \in BOOLEAN /\ wc = IdlePane /\ shown = Nothing
      /\ up = <<>> /\ down = <<>> /\ svc = NoService
  BY DEF Init
<1>2. k \in {"LIVE", "PLAY"} /\ MaxModes \in Nat /\ MaxModes > 1
  BY SessionAssumption
<1>3. ctl \in Mode /\ ctl.entry <= 2 /\ 0 <= ctl.id
  BY <1>2 DEF FirstMode, Mode, Kinds
<1>4. Len(up) = 0 /\ Len(down) = 0 /\ up \in Seq(Mode) /\ down \in Seq(Messages)
  BY <1>1
<1>5. TypeOK
  BY <1>1, <1>3, <1>4, SessionFacts DEF TypeOK
<1>. QED
  BY <1>1, <1>3, <1>4, <1>5, SessionFacts DEF SessionInv, ShownFits

-----------------------------------------------------------------------------
(* The steps of time, the recorder and the user. *)

LEMMA TimeStep ==
  ASSUME SessionInv, Tick \/ Record \/ ClockSynced
  PROVE  SessionInv'
<1>1. TypeOK /\ ShownFits
  BY DEF SessionInv
<1>2. /\ UNCHANGED <<ctl, wc, shown, up, down, svc>>
      /\ now' \in 1 .. MaxTime /\ now <= now' /\ eod' \in 0 .. now' /\ rpOk' \in BOOLEAN
  <2>1. UNCHANGED <<ctl, wc, shown, up, down, svc>>
    BY DEF Tick, Record, ClockSynced, viewer
  <2>2. now \in 1 .. MaxTime /\ eod \in 0 .. now /\ MaxTime \in Nat
    BY <1>1, SessionFacts DEF TypeOK
  <2>3. rpOk' = rpOk \/ rpOk' = TRUE
    BY DEF Tick, Record, ClockSynced
  <2>4. /\ now' = now \/ (now < MaxTime /\ now' = now + 1)
        /\ eod' = eod \/ (eod' = now /\ now' = now)
    BY DEF Tick, Record, ClockSynced
  <2>5. now' \in 1 .. MaxTime /\ now <= now' /\ eod' \in 0 .. now'
    BY <2>2, <2>4
  <2>6. rpOk' \in BOOLEAN
    BY <1>1, <2>3 DEF TypeOK
  <2>. QED
    BY <2>1, <2>5, <2>6
<1>3. TypeOK'
  BY <1>1, <1>2 DEF TypeOK
<1>4. now \in Nat /\ now' \in Nat /\ ctl.entry \in Nat /\ wc.mode.entry \in Nat
  BY <1>1, <1>2, SessionTypes
<1>5. ASSUME NEW m \in Mode, SentMode(m)
      PROVE  m.entry <= now' /\ m.id <= wc.mode.id /\ (m.id = wc.mode.id => m = wc.mode)
  BY <1>2, <1>4, <1>5 DEF SentMode, Mode
<1>6. ctl.entry <= now' /\ wc.mode.entry <= now'
  BY <1>2, <1>4 DEF SessionInv
<1>7. ASSUME NEW i \in 1 .. Len(up)
      PROVE  /\ up[i].entry <= now' /\ up[i].id <= wc.mode.id
             /\ up[i].id = wc.mode.id => up[i] = wc.mode
  <2>1. up[i] \in Mode /\ SentMode(up[i])
    BY <1>1, SessionTypes, ElementOfSeq DEF SessionInv
  <2>. QED
    BY <1>5, <2>1
<1>8. ASSUME svc.pc # "done"
      PROVE  /\ svc.mode.entry <= now' /\ svc.mode.id <= wc.mode.id
             /\ svc.mode.id = wc.mode.id => svc.mode = wc.mode
  BY <1>1, <1>5, <1>8, SessionTypes DEF SessionInv
<1>9. \A f : Stamped(f) => Stamped(f)'
  BY <1>2 DEF Stamped, Fits
<1>. QED
  BY <1>2, <1>3, <1>6, <1>7, <1>8, <1>9 DEF SessionInv, ShownFits, SentMode

LEMMA SetCtlStep ==
  ASSUME SessionInv, NEW kind \in Kinds, NEW time \in Int, NEW rate \in Int, SetCtl(kind, time, rate)
  PROVE  SessionInv'
<1>1. TypeOK /\ ctl.id < MaxModes
  BY DEF SessionInv, SetCtl
<1>2. /\ ctl' = [id |-> ctl.id + 1, kind |-> kind, entry |-> now, time |-> time, rate |-> rate]
      /\ UNCHANGED <<now, eod, rpOk, wc, shown, up, down, svc>>
  BY DEF SetCtl, webcam
<1>3. /\ ctl.id \in 0 .. MaxModes /\ MaxModes \in Nat /\ now \in Nat /\ wc.mode.id \in 0 .. MaxModes
  BY <1>1, SessionFacts, SessionTypes
<1>4. ctl' \in Mode /\ ctl'.entry = now /\ ctl'.id = ctl.id + 1
  BY <1>1, <1>2, <1>3 DEF Mode
<1>5. TypeOK'
  BY <1>1, <1>2, <1>4 DEF TypeOK
<1>6. ctl'.entry <= now /\ wc.mode.id <= ctl'.id /\ wc.mode.id < ctl'.id
  BY <1>3, <1>4 DEF SessionInv
<1>7. /\ \A f : Stamped(f)' <=> Stamped(f)
      /\ \A m : SentMode(m)' <=> SentMode(m)
      /\ ShownFits' <=> ShownFits
  BY <1>2 DEF Stamped, Fits, SentMode, ShownFits
<1>. QED
  BY <1>2, <1>5, <1>6, <1>7 DEF SessionInv

LEMMA ControlStep ==
  ASSUME SessionInv, Control \/ AutoStop
  PROVE  SessionInv'
<1>1. /\ now \in Int /\ ctl.time \in Int /\ ctl.rate \in Int /\ ctl.kind \in Kinds /\ ctl.entry \in Int
      /\ 1 \in Int /\ 0 \in Int /\ Rates \subseteq Int
  BY SessionTypes, SessionFacts DEF SessionInv
<1>2. TimeOf(ctl) \in Int
  <2>1. (now - ctl.entry) * ctl.rate \in Int
    BY <1>1
  <2>. QED
    BY <1>1, <2>1 DEF TimeOf, Position
<1>3. {"LIVE", "PAUSE", "STOP", "PLAY"} \subseteq Kinds
  BY DEF Kinds
<1>4. CASE SelectMode
  BY <1>1, <1>3, <1>4, SetCtlStep DEF SelectMode
<1>5. StopPlayback => SessionInv'
  BY <1>1, <1>2, <1>3, SetCtlStep DEF StopPlayback, Least
<1>6. CASE SelectPause \/ SelectPlay
  BY <1>1, <1>2, <1>3, <1>6, SetCtlStep DEF SelectPause, SelectPlay
<1>7. CASE \E r \in Rates : SelectRate(r)
  BY <1>1, <1>2, <1>7, SetCtlStep DEF SelectRate
<1>8. CASE \E d \in {-1, 1} : SelectTime(d)
  <2>. PICK d \in {-1, 1} : SelectTime(d)
    BY <1>8
  <2>1. Least(TimeOf(ctl) + d, now - 1) \in Int
    BY <1>1, <1>2 DEF Least
  <2>. QED
    BY <1>1, <1>3, <2>1, SetCtlStep DEF SelectTime
<1>. QED
  BY <1>4, <1>5, <1>6, <1>7, <1>8 DEF Control, AutoStop, SelectStop

-----------------------------------------------------------------------------
(* The steps of the pane. *)

LEMMA ConnectStep ==
  ASSUME SessionInv, ViewerConnect \/ ViewerDisconnect
  PROVE  SessionInv'
<1>1. TypeOK
  BY DEF SessionInv
<1>2. /\ UNCHANGED <<now, eod, rpOk, ctl>> /\ shown' = Nothing
      /\ up' = <<>> /\ down' = <<>>
      /\ wc' \in Pane /\ wc'.mode \in {NoMode, wc.mode} /\ wc'.pc = "check"
      /\ svc' = NoService \/ (svc' = NewService /\ wc'.mode = NoMode)
  <2>1. CASE ViewerConnect
    <3>1. wc' = [IdlePane EXCEPT !.state = "connected", !.mode = NoMode]
      BY <2>1 DEF ViewerConnect, FreshMode
    <3>2. wc' \in Pane /\ wc'.mode = NoMode /\ wc'.pc = "check"
      BY <3>1, SessionFacts DEF Pane
    <3>. QED
      BY <2>1, <3>2 DEF ViewerConnect, webcam
  <2>2. CASE ViewerDisconnect
    <3>1. wc' = [IdlePane EXCEPT !.mode = wc.mode] /\ wc.mode \in Mode
      BY <1>1, <2>2, SessionTypes DEF ViewerDisconnect
    <3>2. wc' \in Pane /\ wc'.mode = wc.mode /\ wc'.pc = "check"
      BY <3>1, SessionFacts DEF Pane
    <3>. QED
      BY <2>2, <3>2 DEF ViewerDisconnect, webcam
  <2>. QED
    BY <2>1, <2>2
<1>3. /\ now \in Nat /\ ctl.id \in 0 .. MaxModes /\ MaxModes \in Nat /\ wc.mode.id \in 0 .. MaxModes
      /\ MaxQueue \in Nat
  BY <1>1, SessionFacts, SessionTypes
<1>4. Len(up') = 0 /\ Len(down') = 0 /\ up' \in Seq(Mode) /\ down' \in Seq(Messages)
  BY <1>2
<1>5. wc'.mode.id \in 0 .. ctl.id /\ wc'.mode.entry <= now
  BY <1>2, <1>3, SessionFacts DEF SessionInv
<1>6. TypeOK'
  <2>1. svc' \in SvcState /\ shown' \in [frame : Frame, mode : Mode]
    BY <1>2, SessionFacts
  <2>2. Len(up') <= MaxModes /\ Len(down') <= MaxQueue
    BY <1>3, <1>4
  <2>. QED
    BY <1>1, <1>2, <1>4, <2>1, <2>2 DEF TypeOK
<1>7. svc'.pc # "done" => SentMode(svc.mode)'
  BY <1>2, <1>3, SessionFacts DEF SentMode
<1>8. svc'.pc # "send"
  BY <1>2, SessionFacts
<1>. QED
  BY <1>2, <1>3, <1>4, <1>5, <1>6, <1>7, <1>8 DEF SessionInv, ShownFits

\* A frame or the text is on display, as it was or as it has arrived.
LEMMA ShowStep ==
  ASSUME SessionInv, shown' = Nothing \/ shown' = shown \/
           \E f \in Frame : shown' = [frame |-> f, mode |-> wc.mode] /\ Fits(f, wc.mode)
  PROVE  ShownFits' /\ shown' \in [frame : Frame, mode : Mode]
<1>1. shown \in [frame : Frame, mode : Mode] /\ wc.mode \in Mode /\ ShownFits
  BY SessionTypes DEF SessionInv, TypeOK
<1>2. CASE shown' = Nothing
  BY <1>2, SessionFacts DEF ShownFits
<1>3. CASE shown' = shown
  BY <1>1, <1>3 DEF ShownFits
<1>4. ASSUME NEW f \in Frame, shown' = [frame |-> f, mode |-> wc.mode], Fits(f, wc.mode)
      PROVE  ShownFits' /\ shown' \in [frame : Frame, mode : Mode]
  BY <1>1, <1>4 DEF ShownFits, Fits
<1>. QED
  BY <1>2, <1>3, <1>4

\* The pane has the same mode: what is under way is as it was.
LEMMA SameMode ==
  ASSUME SessionInv, UNCHANGED <<now, eod, rpOk, ctl, up, svc>>,
         wc' \in Pane, wc'.mode = wc.mode, wc'.pc = "copy" => wc.mode.id < ctl.id,
         down' = down \/ (down # <<>> /\ down' = Tail(down)),
         shown' = Nothing \/ shown' = shown \/
           \E f \in Frame : shown' = [frame |-> f, mode |-> wc.mode] /\ Fits(f, wc.mode)
  PROVE  SessionInv'
<1>1. TypeOK
  BY DEF SessionInv
<1>2. down' \in Seq(Messages) /\ Len(down') <= MaxQueue
      /\ \A i \in 1 .. Len(down') : \E k \in 1 .. Len(down) : down'[i] = down[k]
  <2>1. CASE down' = down
    BY <1>1, <2>1 DEF TypeOK
  <2>2. CASE down # <<>> /\ down' = Tail(down)
    <3>1. down \in Seq(Messages) /\ Len(down) <= MaxQueue /\ MaxQueue \in Nat
      BY <1>1, SessionFacts DEF TypeOK
    <3>2. /\ Len(down) \in Nat /\ down' \in Seq(Messages) /\ Len(down') = Len(down) - 1
          /\ \A i \in 1 .. Len(down') : i + 1 \in 1 .. Len(down) /\ down'[i] = down[i + 1]
      BY <2>2, <3>1, Taken
    <3>. QED
      BY <3>1, <3>2
  <2>. QED
    BY <2>1, <2>2
<1>3. /\ \A f : Stamped(f)' <=> Stamped(f)
      /\ \A m : SentMode(m)' <=> SentMode(m)
  BY DEF Stamped, Fits, SentMode
<1>4. ShownFits' /\ shown' \in [frame : Frame, mode : Mode]
  BY ShowStep
<1>5. TypeOK'
  BY <1>1, <1>2, <1>4 DEF TypeOK
<1>6. ASSUME NEW i \in 1 .. Len(down'), down'[i].type = "FRAME" PROVE Stamped(down[i].frame)'
  <2>. PICK k \in 1 .. Len(down) : down'[i] = down[k]
    BY <1>2
  <2>1. Stamped(down[k].frame)
    BY <1>6 DEF SessionInv
  <2>. QED
    BY <2>1 DEF Stamped, Fits
<1>. QED
  BY <1>3, <1>4, <1>5, <1>6 DEF SessionInv

LEMMA CheckStep ==
  ASSUME SessionInv, ViewerCheck \/ ViewerNothing \/ ViewerStatus \/ ViewerFrame
  PROVE  SessionInv'
<1>1. TypeOK /\ wc \in Pane /\ UNCHANGED <<now, eod, rpOk, ctl, up, svc>>
  BY SessionTypes DEF SessionInv, ViewerCheck, ViewerNothing, ViewerStatus, ViewerFrame, webcam
<1>2. CASE ViewerCheck
  <2>1. CASE ModeChanged
    <3>1. wc' = [wc EXCEPT !.pc = "copy", !.live = (ctl.kind = "LIVE")] /\ UNCHANGED <<shown, down>>
      BY <1>2, <2>1 DEF ViewerCheck
    <3>2. (ctl.kind = "LIVE") \in BOOLEAN
      OBVIOUS
    <3>3. wc' \in Pane /\ wc'.mode = wc.mode
      BY <1>1, <3>1, <3>2 DEF Pane
    <3>4. wc.mode.id < ctl.id
      <4>1. wc.mode.id # ctl.id /\ wc.mode.id <= ctl.id
        BY <2>1 DEF ModeChanged, SessionInv
      <4>2. wc.mode.id \in 0 .. MaxModes /\ ctl.id \in 0 .. MaxModes /\ MaxModes \in Nat
        BY <1>1, SessionTypes, SessionFacts
      <4>. QED
        BY <4>1, <4>2
    <3>. QED
      BY <1>1, <3>1, <3>3, <3>4, SameMode
  <2>2. CASE ~ModeChanged
    <3>1. /\ wc' = [wc EXCEPT !.pc = "recv"] /\ down' = down
          /\ shown' = Nothing \/ shown' = shown
      BY <1>2, <2>2 DEF ViewerCheck, Covered
    <3>2. wc' \in Pane /\ wc'.mode = wc.mode /\ wc'.pc = "recv"
      BY <1>1, <3>1 DEF Pane
    <3>. QED
      BY <1>1, <3>1, <3>2, SameMode
  <2>. QED
    BY <2>1, <2>2
<1>3. CASE ViewerNothing
  <2>1. wc' = [wc EXCEPT !.pc = "check"] /\ UNCHANGED <<shown, down>>
    BY <1>3 DEF ViewerNothing
  <2>2. wc' \in Pane /\ wc'.mode = wc.mode /\ wc'.pc = "check"
    BY <1>1, <2>1 DEF Pane
  <2>. QED
    BY <1>1, <2>1, <2>2, SameMode
<1>4. down # <<>> => /\ Head(down) \in Messages /\ Head(down) = down[1] /\ 1 \in 1 .. Len(down)
  BY <1>1, SessionTypes, Taken
<1>5. CASE ViewerStatus
  <2>1. /\ wc' = [wc EXCEPT !.pc = "check", !.rpOk = Head(down).rpOk]
        /\ down # <<>> /\ down' = Tail(down) /\ shown' = shown /\ Head(down).type = "STATUS"
    BY <1>5 DEF ViewerStatus
  <2>2. Head(down).rpOk \in BOOLEAN
    BY <1>4, <2>1 DEF Messages
  <2>3. wc' \in Pane /\ wc'.mode = wc.mode /\ wc'.pc = "check"
    BY <1>1, <2>1, <2>2 DEF Pane
  <2>. QED
    BY <1>1, <2>1, <2>3, SameMode
<1>6. CASE ViewerFrame
  <2>. PICK f : f = Head(down).frame
    OBVIOUS
  <2>1. /\ down # <<>> /\ down' = Tail(down) /\ Head(down).type = "FRAME"
        /\ IF Discards(f) THEN wc' = [wc EXCEPT !.pc = "check"] /\ shown' = shown
           ELSE /\ wc' = [wc EXCEPT !.pc = "check", !.frameStatus = f.status, !.answered = TRUE]
                /\ shown' = [frame |-> f, mode |-> wc.mode]
    BY <1>6 DEF ViewerFrame
  <2>2. f \in Frame /\ f.status \in Statuses
    BY <1>4, <2>1 DEF Messages, Frame
  <2>3. Stamped(f)
    BY <1>4, <2>1 DEF SessionInv
  <2>4. wc' \in Pane /\ wc'.mode = wc.mode /\ wc'.pc = "check"
    <3>1. CASE Discards(f)
      BY <1>1, <2>1, <3>1 DEF Pane
    <3>2. CASE ~Discards(f)
      BY <1>1, <2>1, <2>2, <3>2 DEF Pane
    <3>. QED
      BY <3>1, <3>2
  <2>5. ~Discards(f) => Fits(f, wc.mode)
    BY <2>3 DEF Discards, Stamped
  <2>. QED
    BY <1>1, <2>1, <2>2, <2>4, <2>5, SameMode
<1>. QED
  BY <1>2, <1>3, <1>5, <1>6

\* The copy has a later id than all that is under way.
LEMMA CopyStep ==
  ASSUME SessionInv, ViewerCopy
  PROVE  SessionInv'
<1>. PICK m : m = CopyOf(ctl, wc.live)
  OBVIOUS
<1>1. TypeOK /\ wc.mode.id < ctl.id /\ wc.pc = "copy"
  BY DEF SessionInv, ViewerCopy
<1>2. /\ wc' = [wc EXCEPT !.pc = "recv", !.mode = m, !.live = FALSE, !.answered = FALSE,
                          !.torn = wc.live # (ctl.kind = "LIVE")]
      /\ shown' = Nothing \/ shown' = shown
      /\ up' = Append(up, m) /\ UNCHANGED <<now, eod, rpOk, ctl, down, svc>>
  BY DEF ViewerCopy, Covered, webcam
<1>3. m \in Mode /\ m.id = ctl.id /\ m.entry = ctl.entry
  <2>1. ctl \in Mode /\ "LIVE" \in Kinds /\ "STOP" \in Kinds
    BY <1>1, SessionTypes DEF Kinds
  <2>2. m = [ctl EXCEPT !.kind = IF wc.live THEN "LIVE" ELSE IF ctl.kind = "LIVE" THEN "STOP"
                                 ELSE ctl.kind]
    BY <2>1 DEF CopyOf, Mode
  <2>. QED
    BY <2>1, <2>2 DEF Mode
<1>4. wc' \in Pane /\ wc'.mode = m /\ wc'.pc = "recv"
  <2>1. (wc.live # (ctl.kind = "LIVE")) \in BOOLEAN /\ wc \in Pane
    BY <1>1, SessionTypes
  <2>. QED
    BY <1>2, <1>3, <2>1 DEF Pane
<1>5. /\ wc.mode.id \in 0 .. MaxModes /\ ctl.id \in 0 .. MaxModes /\ MaxModes \in Nat /\ now \in Nat
      /\ ctl.entry \in Nat /\ ctl.entry <= now
      /\ Len(up) \in Nat /\ Len(up) <= wc.mode.id /\ up \in Seq(Mode)
  BY <1>1, SessionTypes, SessionFacts DEF SessionInv
<1>6. /\ up' \in Seq(Mode) /\ Len(up') = Len(up) + 1
      /\ \A i \in 1 .. Len(up') : (i \in 1 .. Len(up) /\ up'[i] = up[i]) \/ up'[i] = m
  BY <1>2, <1>3, <1>5, Put
<1>7. Len(up') <= wc'.mode.id /\ wc'.mode.id <= ctl'.id /\ Len(up') <= MaxModes
  BY <1>1, <1>2, <1>3, <1>4, <1>5, <1>6
<1>8. ShownFits' /\ shown' \in [frame : Frame, mode : Mode]
  BY <1>2, ShowStep
<1>9. TypeOK'
  BY <1>1, <1>2, <1>4, <1>6, <1>7, <1>8 DEF TypeOK
<1>10. \A k \in Mode : SentMode(k) => k.entry <= now /\ k.id <= m.id /\ k.id # m.id
  <2>1. \A k \in Mode : k.id \in Nat
    BY SessionFacts DEF Mode
  <2>. QED
    BY <1>1, <1>3, <1>5, <2>1 DEF SentMode
<1>11. \A f \in Frame : Stamped(f) => f.id <= m.id /\ f.id # m.id
  <2>1. \A f \in Frame : f.id \in Nat
    BY SessionFacts DEF Frame
  <2>. QED
    BY <1>1, <1>3, <1>5, <2>1 DEF Stamped
<1>12. ASSUME NEW i \in 1 .. Len(up') PROVE SentMode(up[i])'
  <2>1. CASE up'[i] = m
    BY <1>2, <1>3, <1>4, <1>5, <2>1 DEF SentMode
  <2>2. CASE i \in 1 .. Len(up) /\ up'[i] = up[i]
    <3>1. up[i] \in Mode /\ SentMode(up[i])
      BY <1>5, <2>2, ElementOfSeq DEF SessionInv
    <3>2. up[i].entry <= now /\ up[i].id <= m.id /\ up[i].id # m.id
      BY <1>10, <3>1
    <3>. QED
      BY <1>2, <1>4, <2>2, <3>2 DEF SentMode
  <2>. QED
    BY <1>6, <2>1, <2>2
<1>13. svc'.pc # "done" => SentMode(svc.mode)'
  <2>. SUFFICES ASSUME svc'.pc # "done" PROVE SentMode(svc.mode)'
    OBVIOUS
  <2>1. svc.mode \in Mode /\ SentMode(svc.mode)
    BY <1>1, <1>2, SessionTypes DEF SessionInv
  <2>2. svc.mode.entry <= now /\ svc.mode.id <= m.id /\ svc.mode.id # m.id
    BY <1>10, <2>1
  <2>. QED
    BY <1>2, <1>4, <2>2 DEF SentMode
<1>14. svc'.pc = "send" => Stamped(svc.out)'
  <2>. SUFFICES ASSUME svc'.pc = "send" PROVE Stamped(svc.out)'
    OBVIOUS
  <2>1. svc.out \in Frame /\ Stamped(svc.out)
    BY <1>1, <1>2, SessionTypes DEF SessionInv
  <2>2. svc.out.id <= m.id /\ svc.out.id # m.id
    BY <1>11, <2>1
  <2>. QED
    BY <1>2, <1>4, <2>2 DEF Stamped
<1>15. ASSUME NEW i \in 1 .. Len(down'), down'[i].type = "FRAME" PROVE Stamped(down[i].frame)'
  <2>1. down[i].frame \in Frame /\ Stamped(down[i].frame)
    <3>1. down[i] \in Messages
      BY <1>1, <1>2, <1>15, SessionTypes, ElementOfSeq
    <3>. QED
      BY <1>2, <1>15, <3>1 DEF SessionInv, Messages
  <2>2. down[i].frame.id <= m.id /\ down[i].frame.id # m.id
    BY <1>11, <2>1
  <2>. QED
    BY <1>2, <1>4, <2>2 DEF Stamped
<1>16. ctl'.entry <= now' /\ wc'.mode.entry <= now'
  BY <1>2, <1>3, <1>4, <1>5
<1>. QED
  BY <1>4, <1>7, <1>8, <1>9, <1>12, <1>13, <1>14, <1>15, <1>16 DEF SessionInv

-----------------------------------------------------------------------------
(* The steps of the service thread. *)

\* The service thread goes on in a mode that was sent; it may take a command,
\* or put a message on the link.
LEMMA SvcMoves ==
  ASSUME SessionInv, UNCHANGED <<now, eod, rpOk, ctl, wc, shown>>,
         svc' \in SvcState, NEW m \in Mode, svc'.pc # "done" => svc'.mode = m /\ SentMode(m),
         NEW o \in Frame, svc'.pc = "send" => svc'.out = o /\ Stamped(o),
         up' = up \/ up' = <<>> \/ (up # <<>> /\ up' = Tail(up)),
         down' = down \/ \E e \in Messages : /\ Len(down) < MaxQueue /\ down' = Append(down, e)
                                             /\ e.type = "FRAME" => Stamped(e.frame)
  PROVE  SessionInv'
<1>1. TypeOK
  BY DEF SessionInv
<1>2. /\ up \in Seq(Mode) /\ down \in Seq(Messages) /\ Len(up) \in Nat /\ Len(down) \in Nat
      /\ wc.mode.id \in 0 .. MaxModes /\ MaxModes \in Nat /\ MaxQueue \in Nat
      /\ Len(up) <= wc.mode.id /\ Len(down) <= MaxQueue
  BY <1>1, SessionTypes, SessionFacts DEF SessionInv, TypeOK
<1>3. /\ \A f : Stamped(f)' <=> Stamped(f)
      /\ \A k : SentMode(k)' <=> SentMode(k)
      /\ ShownFits' <=> ShownFits
  BY DEF Stamped, Fits, SentMode, ShownFits
<1>4. /\ up' \in Seq(Mode) /\ Len(up') <= wc.mode.id
      /\ \A i \in 1 .. Len(up') : SentMode(up'[i])
  <2>1. CASE up' = up
    BY <1>2, <2>1 DEF SessionInv
  <2>2. CASE up' = <<>>
    BY <1>2, <2>2
  <2>3. CASE up # <<>> /\ up' = Tail(up)
    <3>1. /\ up' \in Seq(Mode) /\ Len(up') = Len(up) - 1
          /\ \A i \in 1 .. Len(up') : i + 1 \in 1 .. Len(up) /\ up'[i] = up[i + 1]
      BY <1>2, <2>3, Taken
    <3>2. Len(up') <= wc.mode.id
      <4>1. wc.mode.id \in Nat /\ Len(up') \in Nat
        BY <1>2, <3>1, LenProperties
      <4>. QED
        BY <1>2, <3>1, <4>1
    <3>3. ASSUME NEW i \in 1 .. Len(up')
          PROVE  SentMode(up'[i])
      <4>1. i + 1 \in 1 .. Len(up) /\ up'[i] = up[i + 1]
        BY <3>1
      <4>. QED
        BY <4>1 DEF SessionInv
    <3>. QED
      BY <3>1, <3>2, <3>3
  <2>. QED
    BY <2>1, <2>2, <2>3
<1>5. /\ down' \in Seq(Messages) /\ Len(down') <= MaxQueue
      /\ \A i \in 1 .. Len(down') : down'[i].type = "FRAME" => Stamped(down'[i].frame)
  <2>1. CASE down' = down
    BY <1>2, <2>1 DEF SessionInv
  <2>2. ASSUME NEW e \in Messages, Len(down) < MaxQueue, down' = Append(down, e),
               e.type = "FRAME" => Stamped(e.frame)
        PROVE  /\ down' \in Seq(Messages) /\ Len(down') <= MaxQueue
               /\ \A i \in 1 .. Len(down') : down'[i].type = "FRAME" => Stamped(down'[i].frame)
    <3>1. /\ down' \in Seq(Messages) /\ Len(down') = Len(down) + 1
          /\ \A i \in 1 .. Len(down') : (i \in 1 .. Len(down) /\ down'[i] = down[i]) \/ down'[i] = e
      BY <1>2, <2>2, Put
    <3>. QED
      BY <1>2, <2>2, <3>1 DEF SessionInv
  <2>. QED
    BY <2>1, <2>2
<1>6. TypeOK'
  <2>1. Len(up') <= MaxModes
    BY <1>2, <1>4, LenProperties
  <2>. QED
    BY <1>1, <1>4, <1>5, <2>1 DEF TypeOK
<1>7. \A i \in 1 .. Len(up') : SentMode(up[i])'
  BY <1>4 DEF SentMode
<1>8. \A i \in 1 .. Len(down') : down'[i].type = "FRAME" => Stamped(down[i].frame)'
  BY <1>5 DEF Stamped, Fits
<1>9. svc'.pc # "done" => SentMode(svc.mode)'
  BY DEF SentMode
<1>10. svc'.pc = "send" => Stamped(svc.out)'
  BY DEF Stamped, Fits
<1>. QED
  BY <1>3, <1>4, <1>6, <1>7, <1>8, <1>9, <1>10 DEF SessionInv

LEMMA RecvStep ==
  ASSUME SessionInv, SvcRecv
  PROVE  SessionInv'
<1>1. /\ svc.pc = "recv" /\ svc \in SvcState /\ svc.mode \in Mode /\ SentMode(svc.mode)
      /\ svc.out \in Frame /\ UNCHANGED <<now, eod, rpOk, ctl, wc, shown>>
      /\ rpOk \in BOOLEAN /\ up \in Seq(Mode)
  BY SessionTypes DEF SessionInv, SvcRecv, webcam, viewer
<1>2. PICK m \in Mode, isNew \in BOOLEAN :
        /\ svc' = [svc EXCEPT !.pc = "mode", !.mode = m, !.isNew = isNew] /\ SentMode(m)
        /\ up' = up \/ (up # <<>> /\ up' = Tail(up))
  <2>1. CASE up = <<>>
    <3>1. svc' = [svc EXCEPT !.pc = "mode"] /\ up' = up
      BY <2>1 DEF SvcRecv
    <3>2. svc' = [svc EXCEPT !.pc = "mode", !.mode = svc.mode, !.isNew = svc.isNew]
          /\ svc.isNew \in BOOLEAN
      BY <1>1, <3>1 DEF SvcState
    <3>. QED
      BY <1>1, <3>1, <3>2
  <2>2. CASE up # <<>>
    <3>1. /\ svc' = [svc EXCEPT !.pc = "mode", !.mode = Head(up), !.isNew = TRUE]
          /\ up' = Tail(up)
      BY <2>2 DEF SvcRecv
    <3>2. Head(up) \in Mode /\ SentMode(Head(up))
      BY <1>1, <2>2, Taken DEF SessionInv
    <3>. QED
      BY <2>2, <3>1, <3>2
  <2>. QED
    BY <2>1, <2>2
<1>3. svc' \in SvcState /\ svc'.mode = m /\ svc'.pc = "mode"
  BY <1>1, <1>2 DEF SvcState
<1>4. down' = down \/ (Len(down) < MaxQueue /\ down' = Append(down, Status(rpOk)))
  BY DEF SvcRecv
<1>5. Status(rpOk) \in Messages /\ Status(rpOk).type # "FRAME"
  BY <1>1 DEF Status, Messages
<1>. QED
  BY <1>1, <1>2, <1>3, <1>4, <1>5, SvcMoves

LEMMA EnteredFacts ==
  ASSUME SessionInv, svc.pc = "mode"
  PROVE  /\ Entered \in SvcState /\ Entered.mode = svc.mode
         /\ svc.mode \in Mode /\ SentMode(svc.mode) /\ svc.out \in Frame
<1>1. svc \in SvcState /\ svc.mode \in Mode /\ SentMode(svc.mode) /\ svc.out \in Frame
  BY SessionTypes DEF SessionInv
<1>2. CASE svc.isNew /\ InPlayback(svc.mode)
  <2>1. Entered = [NewService EXCEPT !.pc = "mode", !.mode = svc.mode]
    BY <1>2 DEF Entered
  <2>. QED
    BY <1>1, <2>1, SessionFacts DEF SvcState
<1>3. CASE ~(svc.isNew /\ InPlayback(svc.mode))
  <2>1. Entered = [svc EXCEPT !.isNew = FALSE]
    BY <1>3 DEF Entered
  <2>. QED
    BY <1>1, <2>1 DEF SvcState
<1>. QED
  BY <1>1, <1>2, <1>3

LEMMA ContinueStep ==
  ASSUME SessionInv, svc.pc = "mode", NEW s \in SvcState, s.mode = svc.mode, Continue(s)
  PROVE  SessionInv'
<1>1. /\ svc' = [s EXCEPT !.pc = "recv"]
      /\ UNCHANGED <<now, eod, rpOk, ctl, wc, shown, up, down>>
  BY DEF Continue, webcam, viewer
<1>2. svc' \in SvcState /\ svc'.mode = svc.mode /\ svc'.pc = "recv"
  BY <1>1 DEF SvcState
<1>. QED
  BY <1>1, <1>2, EnteredFacts, SvcMoves

\* A frame is stamped with the id of the mode it is sent for.
LEMMA SendStep ==
  ASSUME SessionInv, svc.pc = "mode", NEW s \in SvcState, s.mode = svc.mode,
         NEW st \in Statuses, NEW t \in Int, SendFrame(st, t, s),
         svc.mode.kind = "STOP" <=> st = "STOPPED",
         svc.mode.kind = "PAUSE" => t = svc.mode.time,
         svc.mode.kind = "PLAY" => (t - svc.mode.time) * svc.mode.rate >= 0
  PROVE  SessionInv'
<1>. DEFINE o == [id |-> svc.mode.id, status |-> st, kind |-> svc.mode.kind, time |-> t]
<1>1. /\ svc' = [s EXCEPT !.pc = "send", !.out = o]
      /\ UNCHANGED <<now, eod, rpOk, ctl, wc, shown, up, down>>
  BY DEF SendFrame, webcam, viewer
<1>2. svc.mode \in Mode /\ SentMode(svc.mode)
  BY EnteredFacts
<1>3. o \in Frame
  BY <1>2 DEF Frame, Mode
<1>4. Stamped(o)
  BY <1>2 DEF Stamped, SentMode, Fits
<1>. HIDE DEF o
<1>5. svc' \in SvcState /\ svc'.mode = svc.mode /\ svc'.pc = "send" /\ svc'.out = o
  BY <1>1, <1>3 DEF SvcState
<1>. QED
  BY <1>1, <1>2, <1>3, <1>4, <1>5, SvcMoves

\* Playback has moved in the direction of the mode since it was entered.
LEMMA Played ==
  ASSUME NEW d \in Nat, NEW r \in Int
  PROVE  d * r \in Int /\ (d * r) * r >= 0
<1>1. r * r \in Int /\ r * r >= 0
  OBVIOUS
<1>2. d * (r * r) >= 0
  BY <1>1
<1>3. (d * r) * r = d * (r * r)
  OBVIOUS
<1>. QED
  BY <1>2, <1>3

LEMMA ServeStep ==
  ASSUME SessionInv, svc.pc = "mode",
         \/ SvcNone \/ SvcLive \/ SvcLiveSkip \/ SvcStop
         \/ SvcPause \/ SvcPauseSkip \/ SvcPlay \/ SvcPlaySkip
  PROVE  SessionInv'
<1>1. /\ Entered \in SvcState /\ Entered.mode = svc.mode /\ svc.mode \in Mode /\ SentMode(svc.mode)
      /\ 0 \in Int /\ {"OK", "STOPPED"} \subseteq Statuses
  BY EnteredFacts DEF Statuses
<1>2. /\ now \in Nat /\ svc.mode.entry \in Nat /\ svc.mode.entry <= now
      /\ svc.mode.time \in Int /\ svc.mode.rate \in Int
  BY <1>1, SessionTypes DEF SessionInv, SentMode
<1>3. \A t : ReadStatus(t) \in Statuses /\ ReadStatus(t) # "STOPPED" /\ Settles(ReadStatus(t)) \in BOOLEAN
  BY DEF ReadStatus, Statuses, Settles
<1>4. CASE SvcNone \/ SvcLiveSkip \/ SvcPauseSkip \/ SvcPlaySkip
  BY <1>1, <1>4, ContinueStep DEF SvcNone, SvcLiveSkip, SvcPauseSkip, SvcPlaySkip
<1>5. CASE SvcLive
  BY <1>1, <1>5, SendStep DEF SvcLive, InMode
<1>6. CASE SvcStop
  <2>1. CASE Entered.stopSent
    BY <1>1, <1>6, <2>1, ContinueStep DEF SvcStop
  <2>2. CASE ~Entered.stopSent
    <3>. PICK s : s = [Entered EXCEPT !.stopSent = TRUE]
      OBVIOUS
    <3>1. s \in SvcState /\ s.mode = svc.mode
      BY <1>1 DEF SvcState
    <3>2. SendFrame("STOPPED", 0, s) /\ svc.mode.kind = "STOP"
      BY <1>6, <2>2 DEF SvcStop, InMode
    <3>. QED
      BY <1>1, <3>1, <3>2, SendStep
  <2>. QED
    BY <2>1, <2>2
<1>7. CASE SvcPause
  <2>. PICK t, st : t = svc.mode.time /\ st = ReadStatus(t)
    OBVIOUS
  <2>. PICK s : s = [Entered EXCEPT !.pauseSent = Settles(st),
                                    !.pauseFailed = Entered.pauseFailed \/ st # "OK",
                                    !.covered = IF st = "OK" THEN t ELSE Entered.covered]
    OBVIOUS
  <2>1. st \in Statuses /\ st # "STOPPED" /\ Settles(st) \in BOOLEAN /\ t \in Int
    BY <1>2, <1>3
  <2>2. s \in SvcState /\ s.mode = svc.mode
    <3>1. (Entered.pauseFailed \/ st # "OK") \in BOOLEAN
      OBVIOUS
    <3>2. (IF st = "OK" THEN t ELSE Entered.covered) \in Int
      BY <1>1, <2>1 DEF SvcState
    <3>. QED
      BY <1>1, <2>1, <3>1, <3>2 DEF SvcState
  <2>3. svc.mode.kind = "PAUSE" /\ (Continue(s) \/ SendFrame(st, t, s))
    BY <1>1, <1>7 DEF SvcPause, InMode
  <2>. QED
    BY <2>1, <2>2, <2>3, ContinueStep, SendStep
<1>8. CASE SvcPlay
  <2>. PICK t, st : t = Position(svc.mode) /\ st = ReadStatus(t)
    OBVIOUS
  <2>. PICK s : s = [Entered EXCEPT !.covered = IF st = "OK" THEN t ELSE Entered.covered]
    OBVIOUS
  <2>1. PICK d \in Nat : d = now - svc.mode.entry
    BY <1>2
  <2>2. t = svc.mode.time + d * svc.mode.rate /\ d * svc.mode.rate \in Int
        /\ (d * svc.mode.rate) * svc.mode.rate >= 0
    BY <1>2, <2>1, Played DEF Position
  <2>3. t \in Int /\ (t - svc.mode.time) * svc.mode.rate >= 0
    <3>1. t \in Int /\ t - svc.mode.time = d * svc.mode.rate
      BY <1>2, <2>2
    <3>. QED
      BY <2>2, <3>1
  <2>4. st \in Statuses /\ st # "STOPPED"
    BY <1>3
  <2>5. s \in SvcState /\ s.mode = svc.mode
    <3>1. (IF st = "OK" THEN t ELSE Entered.covered) \in Int
      BY <1>1, <2>3 DEF SvcState
    <3>. QED
      BY <1>1, <3>1 DEF SvcState
  <2>6. svc.mode.kind = "PLAY" /\ SendFrame(st, t, s)
    BY <1>1, <1>8 DEF SvcPlay, InMode
  <2>. QED
    BY <2>3, <2>4, <2>5, <2>6, SendStep
<1>. QED
  BY <1>4, <1>5, <1>6, <1>7, <1>8

LEMMA SentStep ==
  ASSUME SessionInv, SvcSent \/ SvcFail
  PROVE  SessionInv'
<1>1. CASE SvcSent
  <2>. PICK e : e = FrameMsg(svc.out)
    OBVIOUS
  <2>1. /\ svc.pc = "send" /\ Len(down) < MaxQueue /\ down' = Append(down, e)
        /\ svc' = [svc EXCEPT !.pc = "recv", !.out = NoFrame]
        /\ UNCHANGED <<now, eod, rpOk, ctl, wc, shown, up>>
    BY <1>1 DEF SvcSent, webcam, viewer
  <2>2. /\ svc \in SvcState /\ svc.mode \in Mode /\ svc.out \in Frame
        /\ SentMode(svc.mode) /\ Stamped(svc.out)
    BY <2>1, SessionTypes DEF SessionInv
  <2>3. svc' \in SvcState /\ svc'.mode = svc.mode /\ svc'.pc = "recv"
    BY <2>1, <2>2, SessionFacts DEF SvcState
  <2>4. e \in Messages /\ e.frame = svc.out
    BY <2>2 DEF FrameMsg, Messages
  <2>. QED
    BY <2>1, <2>2, <2>3, <2>4, SvcMoves
<1>2. CASE SvcFail
  <2>1. /\ svc' = NoService /\ up' = <<>>
        /\ UNCHANGED <<now, eod, rpOk, ctl, wc, shown, down>>
    BY <1>2 DEF SvcFail, webcam, viewer
  <2>2. svc' \in SvcState /\ svc'.pc = "done" /\ NoMode \in Mode /\ NoFrame \in Frame
    BY <2>1, SessionFacts
  <2>. QED
    BY <2>1, <2>2, SvcMoves
<1>. QED
  BY <1>1, <1>2

LEMMA SessionStep == SessionInv /\ [Next]_vars => SessionInv'
<1>. SUFFICES ASSUME SessionInv, [Next]_vars PROVE SessionInv'
  OBVIOUS
<1>1. UNCHANGED vars => SessionInv'
  <2>. SUFFICES ASSUME UNCHANGED vars PROVE SessionInv'
    OBVIOUS
  <2>1. UNCHANGED <<now, eod, rpOk, ctl, wc, shown, up, down, svc>>
    BY DEF vars
  <2>. QED
    BY <2>1 DEF SessionInv, TypeOK, SentMode, Stamped, Fits, ShownFits
<1>2. CASE Tick \/ Record \/ ClockSynced
  BY <1>2, TimeStep
<1>3. CASE Control \/ AutoStop
  BY <1>3, ControlStep
<1>4. CASE Viewer
  BY <1>1, <1>4, ConnectStep, CheckStep, CopyStep DEF Viewer, ViewerConnectFails
<1>5. CASE Service
  <2>1. (\/ SvcNone \/ SvcLive \/ SvcLiveSkip \/ SvcStop
         \/ SvcPause \/ SvcPauseSkip \/ SvcPlay \/ SvcPlaySkip) => svc.pc = "mode"
    BY DEF SvcNone, SvcLive, SvcLiveSkip, SvcStop, SvcPause, SvcPauseSkip, SvcPlay, SvcPlaySkip, InMode
  <2>. QED
    BY <1>5, <2>1, RecvStep, ServeStep, SentStep DEF Service
<1>. QED
  BY <1>1, <1>2, <1>3, <1>4, <1>5 DEF Next

LEMMA SessionInvariance == Spec => []SessionInv
BY InitSession, SessionStep, PTL DEF Spec

\* Types; the modes on their way to the webcam are no more than the changes.
THEOREM SessionTyped == Spec => []TypeOK
<1>1. SessionInv => TypeOK
  BY DEF SessionInv
<1>. QED
  BY <1>1, SessionInvariance, PTL

\* What a pane shows is a frame of the mode it is shown in, for any number of
\* changes of the mode, any rates and any times, over broken connections.
THEOREM ShowsFitting == Spec => []ShownFits
<1>1. SessionInv => ShownFits
  BY DEF SessionInv
<1>. QED
  BY <1>1, SessionInvariance, PTL

=============================================================================
