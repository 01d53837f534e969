----------------------------- MODULE NetConnect -----------------------------
(***************************************************************************)
(* How a pane comes to be served: net_connect (net.c) in the thread of the *)
(* pane (viewer.c), and on the webcam the loop of main (wc_main.c) that    *)
(* calls net_accept (net.c), which deals with one peer after the other:    *)
(* accept, wait for the password, answer, create the service thread.       *)
(*                                                                         *)
(* A peer may send nothing, and main waits for it until the timeout while  *)
(* the panes behind it run into theirs, leave their connections in the     *)
(* backlog of the listening socket and come again.                         *)
(*                                                                         *)
(* A service thread may end, or never be created, while its pane is        *)
(* connected.  The pane does not see that: recv returns 0, which is taken  *)
(* for no data, until net_recv has waited for a message for TIMEOUT_US, or *)
(* a send of the pane's fails before.                                      *)
(*                                                                         *)
(* Time is counted in ticks; a tick is long enough for whatever needs no   *)
(* waiting, and for a service thread, which sends a status message every   *)
(* second, to reach its pane or to find it gone.                           *)
(***************************************************************************)
EXTENDS Integers, Sequences

CONSTANTS
  Panes,      \* the panes that connect to this webcam
  Knowing,    \* those of them whose password is right
  Strangers,  \* peers that connect once and send nothing
  Timeout,    \* TIMEOUT_US and RECONNECT_TIME_US (10 seconds)
  Pause,      \* what main sleeps when net_accept has failed (1 second)
  Backlog     \* connections the kernel holds for accept (10)

ASSUME NetAssumption ==
  /\ Knowing \subseteq Panes /\ Panes \cap Strangers = {} /\ Panes # {}
  /\ Timeout \in Nat /\ Pause \in Nat /\ Backlog \in Nat
  /\ Pause > 0 /\ Backlog > 0 /\ Pause <= Timeout

Peers == Panes \cup Strangers

VARIABLES
  pane,      \* each pane: its state, and the time left of its wait
  answer,    \* the answer on its way to each pane
  behind,    \* history: a stranger, or a crowd, was before the pane when it connected
  lost,      \* history: the thread for the pane's connection ended or was not created
  fresh,     \* the strangers still to come
  backlog,   \* connections not accepted yet: the peer, and if it still is there
  main,      \* the loop of main: pc, connection, time left
  readable,  \* the password file can be read
  served,    \* number of service threads with an open connection, by pane
  stale      \* number of service threads whose peer is gone

webcam == <<backlog, main, served, stale>>
vars == <<pane, answer, behind, lost, fresh, backlog, main, readable, served, stale>>

Connection == [peer : Peers, open : BOOLEAN]
NoConnection == [peer |-> CHOOSE q \in Peers : TRUE, open |-> FALSE]

\* Types; the backlog stays within its bound.
TypeOK ==
  /\ pane \in [Panes -> [state : {"connecting", "wait", "connected", "error"},
                         left : 0 .. Timeout]]
  /\ answer \in [Panes -> {"none", "okay", "notokay", "closed"}]
  /\ behind \in [Panes -> BOOLEAN] /\ lost \in [Panes -> BOOLEAN] /\ fresh \subseteq Strangers
  /\ backlog \in Seq(Connection) /\ Len(backlog) <= Backlog
  /\ main \in [pc : {"accept", "password", "create", "sleep"}, conn : Connection,
                left : 0 .. Timeout]
  /\ readable \in BOOLEAN /\ served \in [Panes -> Nat] /\ stale \in Nat

Init ==
  /\ pane = [p \in Panes |-> [state |-> "connecting", left |-> 0]]
  /\ answer = [p \in Panes |-> "none"]
  /\ behind = [p \in Panes |-> FALSE] /\ lost = [p \in Panes |-> FALSE]
  /\ fresh = Strangers
  /\ backlog = <<>>
  /\ main = [pc |-> "accept", conn |-> NoConnection, left |-> 0]
  /\ readable \in BOOLEAN
  /\ served = [p \in Panes |-> 0] /\ stale = 0

-----------------------------------------------------------------------------
(* Connections. *)

\* mutant: net_connect returns with an error and leaves the socket open
BugWithout(c, q) == c

\* the connection once peer q has closed
Without(c, q) == IF c.peer = q THEN [c EXCEPT !.open = FALSE] ELSE c

\* peer q closes: what is left of it is known to be gone when it is used
Close(q) ==
  /\ backlog' = [i \in 1 .. Len(backlog) |-> Without(backlog[i], q)]
  /\ main' = [main EXCEPT !.conn = Without(@, q)]
  /\ served' = [p \in Panes |-> IF p = q THEN 0 ELSE served[p]]
  /\ stale' = IF q \in Panes THEN stale + served[q] ELSE stale

\* a connection whose peer is there and says nothing
Mute(c) == c.peer \in Strangers /\ c.open

\* a stranger is waited for, or may be before the last of the backlog
StrangerAhead ==
  (main.pc = "password" /\ Mute(main.conn)) \/ \E i \in 1 .. Len(backlog) : Mute(backlog[i])

\* sleeping after each of the connections before the next one, and the one main
\* is dealing with, takes a timeout: with the code's 10 places of 1 second each
\* it does for the last place
Crowded == (Len(backlog) + 1) * Pause >= Timeout

Arrives(q) ==
  /\ Len(backlog) < Backlog
  /\ backlog' = Append(backlog, [peer |-> q, open |-> TRUE])

-----------------------------------------------------------------------------
(* The thread of a pane: net_connect, and the states of webcam_thread. *)

Becomes(p, state, left) ==
  pane' = [pane EXCEPT ![p] = [state |-> state, left |-> left]]

\* connect, and the password is sent; in a full backlog connect waits
Connect(p) ==
  /\ pane[p].state = "connecting"
  /\ Arrives(p)
  /\ Becomes(p, "wait", Timeout)
  /\ answer' = [answer EXCEPT ![p] = "none"]
  /\ behind' = [behind EXCEPT ![p] = StrangerAhead \/ Crowded]
  /\ lost' = [lost EXCEPT ![p] = FALSE]
  /\ UNCHANGED <<fresh, main, readable, served, stale>>

\* no address, or no connection
ConnectFails(p) ==
  /\ pane[p].state = "connecting"
  /\ Becomes(p, "error", Timeout)
  /\ UNCHANGED <<answer, behind, lost, fresh, webcam, readable>>

\* the password was right
ConnectDone(p) ==
  /\ pane[p].state = "wait" /\ answer[p] = "okay"
  /\ Becomes(p, "connected", Timeout)
  /\ UNCHANGED <<answer, behind, lost, fresh, webcam, readable>>

\* DISCONNECT: the pane tries again after RECONNECT_TIME_US
Leave(p) ==
  /\ Becomes(p, "error", Timeout)
  /\ Close(p)
  /\ UNCHANGED <<answer, behind, lost, fresh, readable>>

ConnectRefused(p) ==
  pane[p].state = "wait" /\ answer[p] \in {"notokay", "closed"} /\ Leave(p)

\* no answer in time; one may be arriving just then
ConnectTimesOut(p) == pane[p].state = "wait" /\ pane[p].left = 0 /\ Leave(p)

\* net_send or net_recv fails
LinkBreaks(p) == pane[p].state = "connected" /\ Leave(p)

\* mutant: net_recv takes the 0 of recv for no data, however long that lasts
BugDeafened(p) == FALSE

\* no message was received for TIMEOUT_US
Deafened(p) == pane[p].left = 0

\* net_recv fails with a timeout
RecvTimesOut(p) == pane[p].state = "connected" /\ Deafened(p) /\ Leave(p)

Reconnect(p) ==
  /\ pane[p].state = "error" /\ pane[p].left = 0
  /\ Becomes(p, "connecting", 0)
  /\ UNCHANGED <<answer, behind, lost, fresh, webcam, readable>>

-----------------------------------------------------------------------------
(* Strangers, and the password file. *)

StrangerArrives(s) ==
  /\ s \in fresh /\ fresh' = fresh \ {s}
  /\ Arrives(s)
  /\ UNCHANGED <<pane, answer, behind, lost, main, readable, served, stale>>

StrangerLeaves(s) ==
  /\ s \notin fresh
  /\ Close(s)
  /\ UNCHANGED <<pane, answer, behind, lost, fresh, readable>>

FileChanges ==
  /\ readable' = ~readable
  /\ UNCHANGED <<pane, answer, behind, lost, fresh, webcam>>

-----------------------------------------------------------------------------
(* The loop of main and net_accept. *)

Goto(pc, conn, left) == main' = [pc |-> pc, conn |-> conn, left |-> left]

\* the peer's end of the connection main is dealing with hears v
Tell(c, v) ==
  answer' = IF c.open /\ c.peer \in Panes THEN [answer EXCEPT ![c.peer] = v] ELSE answer

\* mutant: main sleeps as long as a pane waits
BugFails(c) == Goto("sleep", NoConnection, Timeout) /\ Tell(c, "closed")

\* net_accept fails: the connection is closed, main sleeps
Fails(c) == Goto("sleep", NoConnection, Pause) /\ Tell(c, "closed")

\* a connection is accepted and the password file read
Accept ==
  /\ main.pc = "accept" /\ backlog # <<>>
  /\ backlog' = Tail(backlog)
  /\ IF readable THEN Goto("password", Head(backlog), Timeout) /\ UNCHANGED answer
     ELSE Fails(Head(backlog))
  /\ UNCHANGED <<pane, behind, lost, fresh, readable, served, stale>>

\* the password is there to be read, also if its sender has left
SentPassword(c) == c.peer \in Panes

\* the password is received and the answer sent; to a peer that is gone the
\* send may fail
Answer ==
  /\ main.pc = "password" /\ SentPassword(main.conn)
  /\ \/ /\ Goto("create", main.conn, 0)
        /\ Tell(main.conn, IF main.conn.peer \in Knowing THEN "okay" ELSE "notokay")
     \/ ~main.conn.open /\ Fails(main.conn)
  /\ UNCHANGED <<pane, behind, lost, fresh, backlog, readable, served, stale>>

\* mutant: the socket of an accepted connection has no receive timeout
BugGivesUp == FALSE

\* the timeout of the receive has expired
GivesUp == main.left = 0

\* the peer has sent nothing, or has closed
NoPassword ==
  /\ main.pc = "password" /\ main.conn.peer \in Strangers
  /\ GivesUp \/ ~main.conn.open
  /\ Fails(main.conn)
  /\ UNCHANGED <<pane, behind, lost, fresh, backlog, readable, served, stale>>

\* pthread_create
CreateThread ==
  /\ main.pc = "create"
  /\ Goto("accept", NoConnection, 0)
  /\ IF main.conn.open
     THEN served' = [served EXCEPT ![main.conn.peer] = @ + 1] /\ UNCHANGED stale
     ELSE stale' = stale + 1 /\ UNCHANGED served
  /\ UNCHANGED <<pane, answer, behind, lost, fresh, backlog, readable>>

\* pthread_create fails, which main does not look at: the connection is open
\* and nobody has it
CreateFails ==
  /\ main.pc = "create"
  /\ Goto("accept", NoConnection, 0)
  /\ lost' = IF main.conn.open THEN [lost EXCEPT ![main.conn.peer] = TRUE] ELSE lost
  /\ UNCHANGED <<pane, answer, behind, fresh, backlog, readable, served, stale>>

Slept ==
  /\ main.pc = "sleep" /\ main.left = 0
  /\ Goto("accept", main.conn, 0)
  /\ UNCHANGED <<pane, answer, behind, lost, fresh, backlog, readable, served, stale>>

\* the service thread of pane p ends, with an error the pane does not see
ThreadEnds(p) ==
  /\ served[p] > 0 /\ served' = [served EXCEPT ![p] = 0]
  /\ lost' = [lost EXCEPT ![p] = TRUE]
  /\ UNCHANGED <<pane, answer, behind, fresh, backlog, main, readable, stale>>

\* one whose peer is gone fails to send its status message, or to receive
SvcEnds ==
  /\ stale > 0 /\ stale' = stale - 1
  /\ UNCHANGED <<pane, answer, behind, lost, fresh, backlog, main, readable, served>>

-----------------------------------------------------------------------------
(* Time passes when all that can be done without waiting is done. *)

PaneSteps(p) ==
  ConnectDone(p) \/ ConnectRefused(p) \/ ConnectTimesOut(p) \/ RecvTimesOut(p) \/ Reconnect(p)
MainSteps == Accept \/ Answer \/ NoPassword \/ CreateThread \/ CreateFails \/ Slept

\* one of these steps, or SvcEnds, can be taken
Working ==
  \/ \E p \in Panes :
       \/ pane[p].state = "wait" /\ answer[p] # "none"
       \/ pane[p].state \in {"wait", "error"} /\ pane[p].left = 0
       \/ pane[p].state = "connected" /\ Deafened(p)
  \/ main.pc = "accept" /\ backlog # <<>>
  \/ main.pc = "password" /\ (SentPassword(main.conn) \/ GivesUp \/ ~main.conn.open)
  \/ main.pc = "create"
  \/ main.pc = "sleep" /\ main.left = 0
  \/ stale > 0

Sooner(t) == IF t > 0 THEN t - 1 ELSE 0

\* the time left of p's wait; each message of its service thread starts it anew
Waited(p) ==
  IF pane[p].state = "connected" /\ served[p] > 0 THEN Timeout ELSE Sooner(pane[p].left)

Tick ==
  /\ ~Working
  /\ pane' = [p \in Panes |-> [pane[p] EXCEPT !.left = Waited(p)]]
  /\ main' = [main EXCEPT !.left = Sooner(@)]
  /\ UNCHANGED <<answer, behind, lost, fresh, backlog, readable, served, stale>>

Next ==
  \/ \E p \in Panes : Connect(p) \/ ConnectFails(p) \/ PaneSteps(p) \/ LinkBreaks(p) \/ ThreadEnds(p)
  \/ \E s \in Strangers : StrangerArrives(s) \/ StrangerLeaves(s)
  \/ FileChanges \/ MainSteps \/ SvcEnds \/ Tick

Spec == Init /\ [][Next]_vars

\* The threads run and time passes.  A pane that tries again and again gets
\* through to the webcam some time.
FairSpec ==
  /\ Spec
  /\ WF_vars(Tick) /\ WF_vars(MainSteps) /\ WF_vars(SvcEnds)
  /\ \A p \in Panes : WF_vars(PaneSteps(p)) /\ SF_vars(Connect(p))

-----------------------------------------------------------------------------
(* Properties. *)

\* The service threads about to be created for pane p.
Created(p) == IF main.pc = "create" /\ main.conn = [peer |-> p, open |-> TRUE] THEN 1 ELSE 0

\* However often a pane gave up and came again, one thread at most serves it;
\* and once it was told that its password is right one does, or is about to be
\* created, unless the thread for this connection ended or was not created.
ServedOnce ==
  \A p \in Panes :
    /\ served[p] + Created(p) <= 1
    /\ pane[p].state = "connected" /\ ~lost[p] => served[p] + Created(p) = 1

\* The wait of a pane is over without an answer only if, when it connected, a
\* silent peer was in front of it, or so many connections that what main sleeps
\* after failures takes a timeout: wrong passwords, and panes and strangers that
\* are gone, do not hold it up that long.
DelayedOnlyBehind ==
  \A p \in Panes : pane[p].state = "wait" /\ pane[p].left = 0 => behind[p]

\* A pane whose service thread has ended, or was never created, does not stay
\* connected to nobody: it finds out and comes again.
DeafPaneLeaves ==
  \A p \in Panes : []<>(pane[p].state = "connected" => served[p] + Created(p) = 1)

\* A pane whose password is right is connected again and again, whatever the
\* silent peers and the other panes do, once the password file can be read.
PanesConnect ==
  <>[]readable => \A p \in Knowing : []<>(pane[p].state = "connected")

=============================================================================
