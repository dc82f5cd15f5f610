--------------------------- MODULE WsocksSessions ---------------------------
(***************************************************************************)
(* The sessions of the wsocks server (src/src/bin.todo/wsocks.rs): the     *)
(* loop that accepts pipes and gives each to the multiplexer (Multiplex)   *)
(* of its client, and for each multiplexer the session loop, the pipe      *)
(* manager that declares the session dead, and the forwarding loops of its *)
(* streams.  All of them are tasks of a multi-threaded executor.           *)
(*                                                                         *)
(* mux_sessions holds weak references: a multiplexer lives as long as its  *)
(* session loop or its pipe manager runs, the only holders of strong ones. *)
(* The deadline of a session is one message in a channel of capacity 1     *)
(* whose receiver is cloned into every forwarding loop, and a message is   *)
(* received once.                                                          *)
(*                                                                         *)
(* A client is identified with the hash its pipes' metadata decodes to.    *)
(* An error of accept_pipe ends the whole process, which here is stopping. *)
(***************************************************************************)
EXTENDS Integers, FiniteSets

CONSTANTS Client,
          Pipe,       \* pipes, each used once
          Stream,     \* relconns, each used once
          MaxMux,     \* bound: multiplexers created
          Deadline    \* seconds without a pipe after which a session is dead
                      \* (100 in the code)

ASSUME SessionsAssumption == Client # {} /\ MaxMux \in Nat /\ Deadline \in Nat

Mux  == 1..MaxMux
Half == {"up", "down"}   \* the two loops that tcp_forward_loop races

VARIABLES
  apc,       \* the accept loop: about to "retain", waiting to "accept"
  entry,     \* mux_sessions: each client's multiplexer (0: no entry)
  made,      \* how many multiplexers have been created: they are 1..made
  owner,     \* the client for which each was created
  used,      \* pipes accepted so far
  open,      \* those of them that are not closed
  pipes,     \* the pipes in each multiplexer
  mgr,       \* each pipe manager: about to "prune" or to "decide"; "done"
  idle,      \* seconds since its last_alive
  token,     \* whether the deadline message is in each session's channel
  loop,      \* each session loop: about to "check", waiting to "accept"; "done"
  stream,    \* each stream: "none", "request", "forward"; "done", or "bailed" if
             \* it ended by the deadline
  home,      \* its multiplexer
  half,      \* each half of a forwarding loop: about to "check", or to "wait"
  lost       \* history: for each multiplexer, how many pipes were dropped because
             \* the entry found was that of this dead multiplexer

acceptVars  == <<apc, entry, made, owner, used, lost>>
pipeVars    == <<open, pipes>>
sessionVars == <<mgr, idle, token, loop>>
streamVars  == <<stream, home, half>>
vars        == <<acceptVars, pipeVars, sessionVars, streamVars>>

\* Strong references to multiplexer m.
Strong(m) == m <= made /\ (mgr[m] # "done" \/ loop[m] # "done")

Init == /\ apc = "retain" /\ entry = [c \in Client |-> 0]
        /\ made = 0 /\ owner = [m \in Mux |-> CHOOSE c \in Client : TRUE]
        /\ used = {} /\ open = {}
        /\ pipes = [m \in Mux |-> {}]
        /\ mgr = [m \in Mux |-> "prune"] /\ loop = [m \in Mux |-> "check"]
        /\ idle = [m \in Mux |-> 0] /\ token = [m \in Mux |-> FALSE]
        /\ stream = [s \in Stream |-> "none"]
        /\ home = [s \in Stream |-> 0]
        /\ half = [s \in Stream |-> [h \in Half |-> "check"]]
        /\ lost = [m \in Mux |-> 0]

-----------------------------------------------------------------------------
(* The accept loop of server.                                              *)

\* mux_sessions.retain: forget the dead multiplexers.
RetainNothing == apc = "retain" /\ apc' = "accept"
                 /\ UNCHANGED <<entry, made, owner, used, lost, pipeVars, sessionVars, streamVars>>
RetainShared ==
  /\ apc = "retain" /\ apc' = "accept"
  /\ entry' = [c \in Client |-> IF \E m \in Mux : m = entry[c] /\ mgr[m] # "done" /\ loop[m] # "done"
                                THEN entry[c] ELSE 0]
  /\ UNCHANGED <<made, owner, used, lost, pipeVars, sessionVars, streamVars>>
Retain ==
  /\ apc = "retain" /\ apc' = "accept"
  /\ entry' = [c \in Client |-> IF \E m \in Mux : m = entry[c] /\ Strong(m)
                                THEN entry[c] ELSE 0]
  /\ UNCHANGED <<made, owner, used, lost, pipeVars, sessionVars, streamVars>>

\* accept_pipe returns pipe p of client c, which may be closed already.  The
\* client's entry is found or made, and its multiplexer upgraded.
Accepted(c, p) == /\ apc = "accept" /\ apc' = "retain"
                  /\ p \in Pipe \ used
                  /\ used' = used \cup {p}

AcceptNew(c, p) ==
  /\ Accepted(c, p) /\ entry[c] = 0 /\ made < MaxMux
  /\ made' = made + 1
  /\ entry' = [entry EXCEPT ![c] = made']
  /\ owner' = [owner EXCEPT ![made'] = c]
  /\ pipes' = [pipes EXCEPT ![made'] = {p}]
  /\ open' \in {open, open \cup {p}}
  /\ UNCHANGED <<lost, sessionVars, streamVars>>

AcceptKnownDead(c, p) ==
  /\ Accepted(c, p) /\ entry[c] # 0
  /\ pipes' = [pipes EXCEPT ![entry[c]] = @ \cup {p}]
  /\ open' \in {open, open \cup {p}}
  /\ UNCHANGED <<entry, made, owner, lost, sessionVars, streamVars>>
AcceptKnown(c, p) ==
  /\ Accepted(c, p) /\ entry[c] # 0 /\ Strong(entry[c])
  /\ pipes' = [pipes EXCEPT ![entry[c]] = @ \cup {p}]
  /\ open' \in {open, open \cup {p}}
  /\ UNCHANGED <<entry, made, owner, lost, sessionVars, streamVars>>

\* The upgrade fails: the pipe is dropped.
AcceptStale(c, p) ==
  /\ Accepted(c, p) /\ entry[c] # 0 /\ ~Strong(entry[c])
  /\ lost' = [lost EXCEPT ![entry[c]] = @ + 1]
  /\ UNCHANGED <<entry, made, owner, pipeVars, sessionVars, streamVars>>

AcceptPipe(c, p) == AcceptNew(c, p) \/ AcceptKnown(c, p) \/ AcceptStale(c, p)

\* The websocket of a pipe is lost, or its client closes it.
ClosePipe(p) == /\ p \in open
                /\ open' = open \ {p}
                /\ UNCHANGED <<acceptVars, pipes, sessionVars, streamVars>>

\* When its last strong reference goes, a multiplexer drops its pipes.
Release(m, last) ==
  IF last THEN /\ open' = open \ pipes[m]
               /\ pipes' = [pipes EXCEPT ![m] = {}]
          ELSE UNCHANGED pipeVars

-----------------------------------------------------------------------------
(* server_session_loop of multiplexer m: its pipe manager.                 *)

\* Once a second: remove closed pipes; if one remains, last_alive is now.
PruneCountingClosed(m) ==
  /\ m <= made /\ mgr[m] = "prune"
  /\ idle' = [idle EXCEPT ![m] = IF pipes[m] # {} THEN 0 ELSE @ + 1]
  /\ mgr' = [mgr EXCEPT ![m] = "decide"]
  /\ UNCHANGED <<acceptVars, pipeVars, token, loop, streamVars>>
Prune(m) ==
  /\ m <= made /\ mgr[m] = "prune"
  /\ pipes' = [pipes EXCEPT ![m] = @ \cap open]
  /\ idle' = [idle EXCEPT ![m] = IF pipes'[m] # {} THEN 0 ELSE @ + 1]
  /\ mgr' = [mgr EXCEPT ![m] = "decide"]
  /\ UNCHANGED <<acceptVars, open, token, loop, streamVars>>

StayAliveTooLong(m) ==
  /\ m <= made /\ mgr[m] = "decide" /\ idle[m] <= Deadline + 1
  /\ mgr' = [mgr EXCEPT ![m] = "prune"]
  /\ UNCHANGED <<acceptVars, pipeVars, idle, token, loop, streamVars>>
StayAlive(m) ==
  /\ m <= made /\ mgr[m] = "decide" /\ idle[m] <= Deadline
  /\ mgr' = [mgr EXCEPT ![m] = "prune"]
  /\ UNCHANGED <<acceptVars, pipeVars, idle, token, loop, streamVars>>

\* The holders of a receiver of the deadline.
Listeners(m) == {s \in Stream : home[s] = m /\ stream[s] \in {"request", "forward"}}
                \cup (IF loop[m] = "done" THEN {} ELSE {m})

\* The deadline: one message, and the pipe manager ends.  (With no receiver
\* left the send panics, which ends it as well.)
DeclareDead(m) ==
  /\ m <= made /\ mgr[m] = "decide" /\ idle[m] > Deadline
  /\ mgr' = [mgr EXCEPT ![m] = "done"]
  /\ token' = [token EXCEPT ![m] = Listeners(m) # {}]
  /\ Release(m, loop[m] = "done")
  /\ UNCHANGED <<acceptVars, idle, loop, streamVars>>

-----------------------------------------------------------------------------
(* server_session_loop of multiplexer m: its own loop.                     *)

SessionEnds(m) == /\ loop' = [loop EXCEPT ![m] = "done"]
                  /\ Release(m, mgr[m] = "done")

\* deadline_rx.try_recv.
SessionBails(m) == /\ m <= made /\ loop[m] = "check" /\ token[m]
                   /\ token' = [token EXCEPT ![m] = FALSE]
                   /\ SessionEnds(m)
                   /\ UNCHANGED <<acceptVars, mgr, idle, streamVars>>

SessionWaits(m) == /\ m <= made /\ loop[m] = "check" /\ ~token[m]
                   /\ loop' = [loop EXCEPT ![m] = "accept"]
                   /\ UNCHANGED <<acceptVars, pipeVars, mgr, idle, token, streamVars>>

\* accept_conn returns a stream, which some pipe has carried.
SessionAccepts(m, s) == /\ m <= made /\ loop[m] = "accept"
                        /\ stream[s] = "none" /\ pipes[m] # {}
                        /\ loop' = [loop EXCEPT ![m] = "check"]
                        /\ stream' = [stream EXCEPT ![s] = "request"]
                        /\ home' = [home EXCEPT ![s] = m]
                        /\ UNCHANGED <<acceptVars, pipeVars, mgr, idle, token, half>>

\* accept_conn takes more than 5 seconds.
SessionTimeout(m) == /\ m <= made /\ loop[m] = "accept"
                     /\ loop' = [loop EXCEPT ![m] = "check"]
                     /\ UNCHANGED <<acceptVars, pipeVars, mgr, idle, token, streamVars>>

\* accept_conn fails.
SessionFails(m) == /\ m <= made /\ loop[m] = "accept"
                   /\ SessionEnds(m)
                   /\ UNCHANGED <<acceptVars, mgr, idle, token, streamVars>>

-----------------------------------------------------------------------------
(* A stream: its request, then tcp_forward_loop.                           *)

\* TcpConnect, and the remote is reached; any other frame, an unreachable
\* remote or a failing relconn ends the stream.
StreamRequest(s) == /\ stream[s] = "request"
                    /\ stream' = [stream EXCEPT ![s] = "forward"]
                    /\ UNCHANGED <<acceptVars, pipeVars, sessionVars, home, half>>

StreamEnds(s) == /\ stream[s] \in {"request", "forward"}
                 /\ stream' = [stream EXCEPT ![s] = "done"]
                 /\ UNCHANGED <<acceptVars, pipeVars, sessionVars, home, half>>

\* Either half receives the deadline, and the race ends the stream.
ForwardBails(s, h) == /\ stream[s] = "forward" /\ half[s][h] = "check"
                      /\ token[home[s]]
                      /\ token' = [token EXCEPT ![home[s]] = FALSE]
                      /\ stream' = [stream EXCEPT ![s] = "bailed"]
                      /\ UNCHANGED <<acceptVars, pipeVars, mgr, idle, loop, home, half>>

ForwardWaits(s, h) == /\ stream[s] = "forward" /\ half[s][h] = "check"
                      /\ ~token[home[s]]
                      /\ half' = [half EXCEPT ![s][h] = "wait"]
                      /\ UNCHANGED <<acceptVars, pipeVars, sessionVars, stream, home>>

\* Data from the remote, or a frame from the client, is passed on.
ForwardData(s, h) == /\ stream[s] = "forward" /\ half[s][h] = "wait"
                     /\ half' = [half EXCEPT ![s][h] = "check"]
                     /\ UNCHANGED <<acceptVars, pipeVars, sessionVars, stream, home>>

-----------------------------------------------------------------------------
Session(m) == \/ Prune(m) \/ StayAlive(m) \/ DeclareDead(m)
              \/ SessionBails(m) \/ SessionWaits(m) \/ SessionTimeout(m) \/ SessionFails(m)
              \/ \E s \in Stream : SessionAccepts(m, s)

Forward(s) == \/ StreamRequest(s) \/ StreamEnds(s)
              \/ \E h \in Half : ForwardBails(s, h) \/ ForwardWaits(s, h) \/ ForwardData(s, h)

Next == \/ Retain
        \/ \E c \in Client, p \in Pipe : AcceptPipe(c, p)
        \/ \E p \in Pipe : ClosePipe(p)
        \/ \E m \in Mux : Session(m)
        \/ \E s \in Stream : Forward(s)

Spec == Init /\ [][Next]_vars

(* The executor runs every task that can make progress; the timers of the  *)
(* pipe manager and of the session loop go off.  Nothing is assumed of the *)
(* clients, of the remotes or of accept_conn.                              *)
Fairness ==
  /\ \A m \in Mux : /\ WF_vars(Prune(m)) /\ WF_vars(StayAlive(m) \/ DeclareDead(m))
                    /\ WF_vars(SessionBails(m) \/ SessionWaits(m))
                    /\ WF_vars(SessionTimeout(m))
  /\ \A s \in Stream, h \in Half : WF_vars(ForwardBails(s, h) \/ ForwardWaits(s, h))

FairSpec == Spec /\ Fairness

-----------------------------------------------------------------------------
(* Properties.                                                             *)

TypeOK == /\ apc \in {"retain", "accept"}
          /\ made \in 0..MaxMux
          /\ entry \in [Client -> 0..made]
          /\ owner \in [Mux -> Client]
          /\ used \subseteq Pipe /\ open \subseteq used
          /\ pipes \in [Mux -> SUBSET used]
          /\ mgr \in [Mux -> {"prune", "decide", "done"}]
          /\ idle \in [Mux -> 0..(Deadline + 1)]
          /\ token \in [Mux -> BOOLEAN]
          /\ loop \in [Mux -> {"check", "accept", "done"}]
          /\ stream \in [Stream -> {"none", "request", "forward", "done", "bailed"}]
          /\ home \in [Stream -> 0..made]
          /\ half \in [Stream -> [Half -> {"check", "wait"}]]
          /\ lost \in [Mux -> Nat]

(* A client comes back to its session: as long as anything keeps a         *)
(* multiplexer alive its client's entry is that multiplexer, so a client   *)
(* never has two of them, its streams in one and its pipes in the other.   *)
OneSessionPerClient == \A m \in Mux : Strong(m) => entry[owner[m]] = m

\* The sessions as a client sees them.
Alive(c)  == entry[c] # 0 /\ Strong(entry[c])
MuxesOf(c) == {m \in 1..made : owner[m] = c}
SessionOf == [c \in Client |-> IF Alive(c) THEN entry[c] ELSE 0]
PipesOf   == [c \in Client |-> IF Alive(c) THEN pipes[entry[c]] \cap open ELSE {}]
LastPipe  == [c \in Client |->
               IF MuxesOf(c) = {} THEN "none"
               ELSE IF \E m \in MuxesOf(c) : lost[m] # 0 /\ \A n \in MuxesOf(c) : n <= m
                    THEN "refused" ELSE "attached"]

(* The weak references of mux_sessions, upgraded after the accept loop has *)
(* waited and the session's tasks have run on, behave as a table of        *)
(* sessions: a pipe opens or joins its client's only session or, if that   *)
(* died meanwhile, is dropped; the next one finds a new session, and what  *)
(* ends one client's session leaves the pipes of the others alone.         *)
Table == INSTANCE SessionTable WITH session <- SessionOf, holds <- PipesOf, last <- LastPipe,
                                    count <- made, seen <- used
SessionsAreTable == Table!Spec

(* Every open pipe that was accepted belongs to a living multiplexer: a    *)
(* client is never left with a websocket that nobody reads.                *)
OpenPipesAreHeld ==
  \A p \in open : \E m \in Mux : Strong(m) /\ p \in pipes[m]

(* "Notify this mux session dead": the session whose pipe manager has      *)
(* given it up ends.                                                       *)
DeadlineEndsSession == \A m \in Mux : (m <= made /\ mgr[m] = "done") ~> (loop[m] = "done")

\* A stream has received the deadline in place of the session loop.
StreamBailed(m) == \E s \in Stream : home[s] = m /\ stream[s] = "bailed"

(* A session none of whose pipes stays open is given up, and then dropped: *)
(* nothing can keep it alive but the loss of its one deadline message to a *)
(* stream, whose forwarding loop bails for it.                             *)
IdleSessionIsReclaimed ==
  \A m \in Mux : (<>[](m <= made /\ pipes[m] \cap open = {}))
                   => <>(m <= made /\ mgr[m] = "done" /\ (loop[m] = "done" \/ StreamBailed(m)))

(* "Remove all dead multiplex session": a pipe that the server accepts is  *)
(* given to a multiplexer.                                                 *)
AcceptedPipeIsAdded ==
  [][\A p \in Pipe : p \in used' \ used => \E m \in Mux : p \in pipes'[m]]_vars
=============================================================================
