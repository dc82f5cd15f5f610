------------------------ MODULE WsocksSessions_proofs ------------------------
(***************************************************************************)
(* The safety of the sessions of the wsocks server, for any set of         *)
(* clients, pipes and streams.                                             *)
(***************************************************************************)
EXTENDS WsocksSessions, TLAPS

-----------------------------------------------------------------------------
(* Types.                                                                  *)

\* A multiplexer that has not been made is as Init leaves it.
Fresh == \A m \in Mux : m > made => mgr[m] = "prune" /\ loop[m] = "check"

\* A pipe manager that goes round again has not found its session idle for
\* longer than Deadline.
IdleWithin == \A m \in Mux : mgr[m] = "prune" => idle[m] <= Deadline

TypeInv == TypeOK /\ Fresh /\ IdleWithin

\* The types hold when the server starts.
LEMMA TypeInit == ASSUME Init PROVE TypeInv
<1> USE SessionsAssumption DEF Init
<1>1. Fresh /\ IdleWithin
  BY DEF Fresh, IdleWithin, Mux
<1>2. (CHOOSE c \in Client : TRUE) \in Client
  OBVIOUS
<1>3. owner \in [Mux -> Client]
  BY <1>2
<1>4. made \in 0..MaxMux /\ entry \in [Client -> 0..made] /\ home \in [Stream -> 0..made]
  OBVIOUS
<1>5. half \in [Stream -> [Half -> {"check", "wait"}]]
  OBVIOUS
<1>6. idle \in [Mux -> 0..(Deadline + 1)] /\ lost \in [Mux -> Nat]
  OBVIOUS
<1>7. QED
  BY <1>1, <1>3, <1>4, <1>5, <1>6 DEF TypeInv, TypeOK

\* What happens at the accept loop, or to a pipe, keeps the types.
LEMMA AcceptTypes ==
  ASSUME TypeInv,
         \/ Retain
         \/ \E c \in Client, p \in Pipe : AcceptPipe(c, p)
         \/ \E p \in Pipe : ClosePipe(p)
  PROVE  TypeInv'
<1> USE SessionsAssumption DEF TypeInv, TypeOK, Fresh, IdleWithin, Mux, pipeVars, sessionVars, streamVars, acceptVars
<1>1. CASE Retain
  <2>1. entry' \in [Client -> 0..made']
    BY <1>1 DEF Retain
  <2>2. /\ apc' = "accept"
        /\ UNCHANGED <<made, owner, used, lost, pipeVars, sessionVars, streamVars>>
    BY <1>1 DEF Retain
  <2>3. Fresh' /\ IdleWithin'
    BY <2>2
  <2> HIDE DEF Fresh, IdleWithin, Mux
  <2>4. QED
    BY <2>1, <2>2, <2>3
<1>2. ASSUME NEW c \in Client, NEW p \in Pipe, AcceptPipe(c, p)
      PROVE  TypeInv'
  <2>1. CASE AcceptNew(c, p)
    <3>1. made' = made + 1 /\ made' \in 0..MaxMux /\ used' = used \cup {p}
      BY <2>1 DEF AcceptNew, Accepted
    <3>2. entry' \in [Client -> 0..made'] /\ owner' \in [Mux -> Client]
      <4>1. entry' = [entry EXCEPT ![c] = made'] /\ owner' = [owner EXCEPT ![made'] = c]
        BY <2>1 DEF AcceptNew
      <4>2. entry \in [Client -> 0..made'] /\ made' \in 0..made'
        BY <3>1
      <4>3. owner \in [Mux -> Client]
        OBVIOUS
      <4> HIDE DEF TypeInv, TypeOK, Mux
      <4>4. QED
        BY <4>1, <4>2, <4>3
    <3>3. pipes' \in [Mux -> SUBSET used'] /\ open' \subseteq used'
      BY <2>1, <3>1 DEF AcceptNew
    <3>4. home' \in [Stream -> 0..made']
      BY <2>1, <3>1 DEF AcceptNew
    <3>5. Fresh' /\ IdleWithin'
      BY <2>1, <3>1 DEF AcceptNew
    <3> HIDE DEF Fresh, IdleWithin, Mux
    <3>6. apc' \in {"retain", "accept"} /\ used' \subseteq Pipe
      BY <2>1, <3>1 DEF AcceptNew, Accepted
    <3>7. QED
      BY <2>1, <3>1, <3>2, <3>3, <3>4, <3>5, <3>6 DEF AcceptNew
  <2>2. CASE AcceptKnown(c, p)
    BY <2>2 DEF AcceptKnown, Accepted
  <2>3. CASE AcceptStale(c, p)
    <3>1. lost' \in [Mux -> Nat]
      <4> DEFINE e == entry[c]
      <4>1. lost' = [lost EXCEPT ![e] = lost[e] + 1] /\ e \in Mux
        <5>1. e \in 0..made /\ e # 0 /\ made \in 0..MaxMux
          BY <2>3 DEF AcceptStale
        <5>2. e \in Mux
          BY <5>1
        <5>3. QED
          BY <2>3, <5>2 DEF AcceptStale
      <4>2. lost \in [Mux -> Nat]
        OBVIOUS
      <4> HIDE DEF Mux, e, TypeInv, TypeOK
      <4>3. lost[e] \in Nat /\ lost[e] + 1 \in Nat
        BY <4>1, <4>2
      <4>4. QED
        BY <4>1, <4>2, <4>3
    <3>2. apc' \in {"retain", "accept"} /\ used' \subseteq Pipe /\ used \subseteq used'
      BY <2>3 DEF AcceptStale, Accepted
    <3>3. Fresh' /\ IdleWithin'
      BY <2>3 DEF AcceptStale
    <3> HIDE DEF Fresh, IdleWithin, Mux
    <3>4. QED
      BY <2>3, <3>1, <3>2, <3>3 DEF AcceptStale
  <2>4. QED
    BY <1>2, <2>1, <2>2, <2>3 DEF AcceptPipe
<1>3. ASSUME NEW p \in Pipe, ClosePipe(p)
      PROVE  TypeInv'
  BY <1>3 DEF ClosePipe
<1>4. QED
  BY <1>1, <1>2, <1>3

\* What the session loop of a multiplexer that has been made does to itself.
LEMMA LoopTypes ==
  ASSUME TypeInv, NEW m \in Mux, m <= made,
         NEW l \in {"check", "accept", "done"}, loop' = [loop EXCEPT ![m] = l],
         UNCHANGED <<made, mgr, idle>>
  PROVE  loop' \in [Mux -> {"check", "accept", "done"}] /\ Fresh' /\ IdleWithin'
<1>1. loop \in [Mux -> {"check", "accept", "done"}] /\ made \in Nat
  BY SessionsAssumption DEF TypeInv, TypeOK
<1>2. loop' \in [Mux -> {"check", "accept", "done"}]
  BY <1>1
<1>3. Fresh'
  BY <1>1 DEF TypeInv, Fresh, Mux
<1>4. IdleWithin'
  BY DEF TypeInv, IdleWithin
<1>5. QED
  BY <1>2, <1>3, <1>4

\* What happens in the tasks of a multiplexer keeps the types.
LEMMA SessionTypes ==
  ASSUME TypeInv, NEW m \in Mux, Session(m)
  PROVE  TypeInv'
<1> USE SessionsAssumption DEF TypeInv, TypeOK, Fresh, IdleWithin, Mux, pipeVars, sessionVars, streamVars, acceptVars
<1>1. CASE Prune(m)
  <2>1. pipes' = [pipes EXCEPT ![m] = @ \cap open] /\ used' = used
    BY <1>1 DEF Prune
  <2>2. pipes' \in [Mux -> SUBSET used']
    BY <2>1
  <2>3. idle[m] \in 0..Deadline /\ m <= made
    BY <1>1 DEF Prune
  <2>4. \E n \in 0..(Deadline + 1) : idle' = [idle EXCEPT ![m] = n]
    <3> DEFINE n == IF pipes'[m] # {} THEN 0 ELSE idle[m] + 1
    <3>1. n \in 0..(Deadline + 1)
      <4> HIDE DEF TypeInv, TypeOK, Fresh, IdleWithin, Mux
      <4>1. 0 \in 0..(Deadline + 1) /\ idle[m] + 1 \in 0..(Deadline + 1)
        BY <2>3
      <4>2. QED
        BY <4>1
    <3>2. idle' = [idle EXCEPT ![m] = n]
      BY <1>1 DEF Prune
    <3>3. QED
      BY <3>1, <3>2
  <2>5. idle' \in [Mux -> 0..(Deadline + 1)] /\ mgr' = [mgr EXCEPT ![m] = "decide"]
    BY <1>1, <2>4 DEF Prune
  <2>6. Fresh' /\ IdleWithin'
    <3>1. made' = made /\ loop' = loop /\ \A n \in Mux \ {m} : idle'[n] = idle[n]
      BY <1>1, <2>4 DEF Prune
    <3>2. \A n \in Mux \ {m} : mgr'[n] = mgr[n]
      BY <2>5
    <3>3. mgr'[m] = "decide"
      BY <2>5
    <3>4. Fresh
      OBVIOUS
    <3>5. IdleWithin /\ made \in Nat
      OBVIOUS
    <3> HIDE DEF TypeInv, TypeOK
    <3>6. Fresh'
      BY <2>3, <3>1, <3>2, <3>4, <3>5
    <3>7. IdleWithin'
      BY <3>1, <3>2, <3>3, <3>5
    <3>8. QED
      BY <3>6, <3>7
  <2> HIDE DEF Fresh, IdleWithin, Mux
  <2>7. QED
    BY <1>1, <2>2, <2>5, <2>6 DEF Prune
<1>2. CASE StayAlive(m)
  BY <1>2 DEF StayAlive
<1>3. CASE DeclareDead(m)
  <2>1. open' \subseteq used' /\ pipes' \in [Mux -> SUBSET used']
    BY <1>3 DEF DeclareDead, Release
  <2>2. Fresh' /\ IdleWithin'
    BY <1>3 DEF DeclareDead
  <2> HIDE DEF Fresh, IdleWithin, Mux
  <2>3. QED
    BY <1>3, <2>1, <2>2 DEF DeclareDead
<1>4. CASE SessionBails(m) \/ SessionFails(m)
  <2>1. SessionEnds(m) /\ m <= made
    BY <1>4 DEF SessionBails, SessionFails
  <2>2. UNCHANGED <<acceptVars, mgr, idle, streamVars>> /\ token' \in [Mux -> BOOLEAN]
    BY <1>4 DEF SessionBails, SessionFails
  <2>3. open' \subseteq used' /\ pipes' \in [Mux -> SUBSET used']
    BY <2>1, <2>2 DEF SessionEnds, Release
  <2>4. loop' \in [Mux -> {"check", "accept", "done"}] /\ Fresh' /\ IdleWithin'
    <3>1. loop' = [loop EXCEPT ![m] = "done"]
      BY <2>1 DEF SessionEnds
    <3>2. QED
      BY <2>1, <2>2, <3>1, LoopTypes
  <2> HIDE DEF Fresh, IdleWithin, Mux
  <2>5. QED
    BY <2>2, <2>3, <2>4
<1>5. CASE SessionWaits(m) \/ SessionTimeout(m)
  <2>1. /\ m <= made /\ \E l \in {"accept", "check"} : loop' = [loop EXCEPT ![m] = l]
        /\ UNCHANGED <<acceptVars, pipeVars, mgr, idle, token, streamVars>>
    BY <1>5 DEF SessionWaits, SessionTimeout
  <2>2. loop' \in [Mux -> {"check", "accept", "done"}] /\ Fresh' /\ IdleWithin'
    BY <2>1, LoopTypes
  <2> HIDE DEF Fresh, IdleWithin, Mux
  <2>3. QED
    BY <2>1, <2>2
<1>6. ASSUME NEW s \in Stream, SessionAccepts(m, s)
      PROVE  TypeInv'
  <2>1. /\ m <= made /\ loop' = [loop EXCEPT ![m] = "check"]
        /\ UNCHANGED <<acceptVars, pipeVars, mgr, idle, token, half>>
        /\ stream' = [stream EXCEPT ![s] = "request"]
        /\ home' = [home EXCEPT ![s] = m]
    BY <1>6 DEF SessionAccepts
  <2>2. loop' \in [Mux -> {"check", "accept", "done"}] /\ Fresh' /\ IdleWithin'
    BY <2>1, LoopTypes
  <2>3. home' \in [Stream -> 0..made']
    BY <2>1
  <2> HIDE DEF Fresh, IdleWithin, Mux
  <2>4. QED
    BY <2>1, <2>2, <2>3
<1>7. QED
  BY <1>1, <1>2, <1>3, <1>4, <1>5, <1>6 DEF Session

\* What happens to a stream keeps the types.
LEMMA ForwardTypes ==
  ASSUME TypeInv, NEW s \in Stream, Forward(s)
  PROVE  TypeInv'
<1> USE DEF TypeInv, TypeOK, Fresh, IdleWithin, Mux, pipeVars, sessionVars, streamVars, acceptVars
<1>1. CASE StreamRequest(s) \/ StreamEnds(s)
  BY <1>1 DEF StreamRequest, StreamEnds
<1>2. ASSUME NEW h \in Half, ForwardBails(s, h)
      PROVE  TypeInv'
  <2>1. /\ UNCHANGED <<acceptVars, pipeVars, mgr, idle, loop, home, half>>
        /\ \E n : token' = [token EXCEPT ![n] = FALSE]
        /\ stream' = [stream EXCEPT ![s] = "bailed"]
    BY <1>2 DEF ForwardBails
  <2>2. token' \in [Mux -> BOOLEAN] /\ stream' \in [Stream -> {"none", "request", "forward", "done", "bailed"}]
    BY <2>1
  <2>3. Fresh' /\ IdleWithin'
    BY <2>1
  <2> HIDE DEF Fresh, IdleWithin, Mux
  <2>4. QED
    BY <2>1, <2>2, <2>3
<1>3. ASSUME NEW h \in Half, ForwardWaits(s, h) \/ ForwardData(s, h)
      PROVE  TypeInv'
  <2>1. /\ UNCHANGED <<acceptVars, pipeVars, sessionVars, stream, home>>
        /\ \E w \in {"check", "wait"} : half' = [half EXCEPT ![s][h] = w]
    BY <1>3 DEF ForwardWaits, ForwardData
  <2>2. half' \in [Stream -> [Half -> {"check", "wait"}]]
    BY <2>1
  <2>3. QED
    BY <2>1, <2>2
<1>4. QED
  BY <1>1, <1>2, <1>3 DEF Forward

\* Every step keeps the types.
LEMMA TypeStep == ASSUME TypeInv, [Next]_vars PROVE TypeInv'
<1>1. CASE UNCHANGED vars
  BY <1>1 DEF TypeInv, TypeOK, Fresh, IdleWithin, vars, pipeVars, sessionVars, streamVars, acceptVars
<1>2. CASE Next
  BY <1>2, AcceptTypes, SessionTypes, ForwardTypes DEF Next
<1>3. QED
  BY <1>1, <1>2

-----------------------------------------------------------------------------
(* What the tasks do to the references to multiplexers and to pipes.       *)

\* Nothing at all.
Quiet == /\ UNCHANGED <<acceptVars, pipeVars>>
         /\ \A n \in Mux : Strong(n)' <=> Strong(n)

\* The session loop or the pipe manager of m ends, perhaps as the last of them.
Ends(m) == /\ UNCHANGED acceptVars
           /\ Strong(m)
           /\ \A n \in Mux \ {m} : Strong(n)' <=> Strong(n)
           /\ \/ Strong(m)' /\ UNCHANGED pipeVars
              \/ /\ ~Strong(m)'
                 /\ open' = open \ pipes[m] /\ pipes' = [pipes EXCEPT ![m] = {}]

\* The tasks of a multiplexer prune its pipes, end, or do nothing to these.
LEMMA SessionSteps ==
  ASSUME TypeInv, NEW m \in Mux, Session(m)
  PROVE  Quiet \/ Prune(m) \/ Ends(m)
<1>1. /\ mgr \in [Mux -> {"prune", "decide", "done"}]
      /\ loop \in [Mux -> {"check", "accept", "done"}]
  BY DEF TypeInv, TypeOK
<1>2. CASE StayAlive(m)
  BY <1>1, <1>2 DEF StayAlive, Quiet, Strong, acceptVars, pipeVars
<1>3. CASE DeclareDead(m)
  <2>1. /\ UNCHANGED acceptVars /\ UNCHANGED loop /\ m <= made /\ mgr[m] = "decide"
        /\ mgr' = [mgr EXCEPT ![m] = "done"]
    BY <1>3 DEF DeclareDead
  <2>2. /\ Strong(m)
        /\ \A n \in Mux \ {m} : Strong(n)' <=> Strong(n)
        /\ loop[m] # "done" <=> Strong(m)'
    BY <1>1, <2>1 DEF Strong, acceptVars
  <2>3. Release(m, loop[m] = "done")
    BY <1>3 DEF DeclareDead
  <2>4. QED
    BY <2>1, <2>2, <2>3 DEF Ends, Release
<1>4. CASE SessionBails(m) \/ SessionFails(m)
  <2>1. /\ UNCHANGED acceptVars /\ UNCHANGED mgr /\ m <= made /\ loop[m] # "done"
        /\ loop' = [loop EXCEPT ![m] = "done"]
    BY <1>4 DEF SessionBails, SessionFails, SessionEnds
  <2>2. /\ Strong(m)
        /\ \A n \in Mux \ {m} : Strong(n)' <=> Strong(n)
        /\ mgr[m] # "done" <=> Strong(m)'
    BY <1>1, <2>1 DEF Strong, acceptVars
  <2>3. Release(m, mgr[m] = "done")
    BY <1>4 DEF SessionBails, SessionFails, SessionEnds
  <2>4. QED
    BY <2>1, <2>2, <2>3 DEF Ends, Release
<1>5. CASE SessionWaits(m) \/ SessionTimeout(m) \/ \E s \in Stream : SessionAccepts(m, s)
  <2>1. /\ UNCHANGED <<acceptVars, pipeVars, mgr>>
        /\ loop[m] # "done"
        /\ \E l \in {"check", "accept"} : loop' = [loop EXCEPT ![m] = l]
    BY <1>5 DEF SessionWaits, SessionTimeout, SessionAccepts
  <2>2. QED
    BY <1>1, <2>1 DEF Quiet, Strong, acceptVars
<1>6. QED
  BY <1>2, <1>3, <1>4, <1>5 DEF Session

\* The forwarding loops do nothing to these.
LEMMA ForwardSteps ==
  ASSUME NEW s \in Stream, Forward(s)
  PROVE  Quiet
<1>1. UNCHANGED <<acceptVars, pipeVars, mgr, loop>>
  BY DEF Forward, StreamRequest, StreamEnds, ForwardBails, ForwardWaits, ForwardData,
         sessionVars, streamVars
<1>2. QED
  BY <1>1 DEF Quiet, Strong, acceptVars

\* Every step, as the properties below see it.
LEMMA Steps ==
  ASSUME TypeInv, [Next]_vars
  PROVE  \/ Quiet
         \/ Retain
         \/ \E c \in Client, p \in Pipe : AcceptPipe(c, p)
         \/ \E p \in Pipe : ClosePipe(p)
         \/ \E m \in Mux : Prune(m) \/ Ends(m)
<1>1. CASE UNCHANGED vars
  BY <1>1 DEF vars, Quiet, Strong, acceptVars, pipeVars, sessionVars
<1>2. CASE Next
  BY <1>2, SessionSteps, ForwardSteps DEF Next
<1>3. QED
  BY <1>1, <1>2

-----------------------------------------------------------------------------
(* The invariant.                                                          *)

\* A multiplexer that has cost a client a pipe is dead; it has done so once;
\* and when the accept loop next waits for a pipe it is forgotten.
DeadIsForgotten ==
  \A m \in Mux : lost[m] # 0 =>
    /\ m <= made /\ ~Strong(m) /\ lost[m] = 1
    /\ apc = "accept" => \A c \in Client : entry[c] # m

SessionInv == /\ TypeInv
              /\ OneSessionPerClient
              /\ OpenPipesAreHeld
              /\ DeadIsForgotten

\* It holds when the server starts.
LEMMA SessionInit == ASSUME Init PROVE SessionInv
<1>1. TypeInv
  BY TypeInit
<1>2. QED
  BY <1>1 DEF Init, SessionInv, OneSessionPerClient, OpenPipesAreHeld, DeadIsForgotten,
              Strong, Mux

\* Retain forgets the dead and nothing else.
LEMMA RetainKeeps == ASSUME SessionInv, Retain PROVE SessionInv'
<1>1. TypeInv'
  BY AcceptTypes DEF SessionInv
<1>2. /\ UNCHANGED <<made, owner, lost, open, pipes, mgr, loop>>
      /\ entry' = [c \in Client |-> IF \E m \in Mux : m = entry[c] /\ Strong(m)
                                    THEN entry[c] ELSE 0]
  BY DEF Retain, pipeVars, sessionVars
<1>3. \A m \in Mux : (Strong(m)' <=> Strong(m)) /\ owner[m] \in Client /\ m # 0
  <2>1. \A m \in Mux : owner[m] \in Client
    BY DEF SessionInv, TypeInv, TypeOK
  <2>2. \A m \in Mux : Strong(m)' <=> Strong(m)
    BY <1>2 DEF Strong
  <2>3. \A m \in Mux : m # 0
    BY SessionsAssumption DEF Mux
  <2>4. QED
    BY <2>1, <2>2, <2>3
<1>4. OneSessionPerClient' /\ OpenPipesAreHeld'
  BY <1>2, <1>3 DEF SessionInv, OneSessionPerClient, OpenPipesAreHeld
<1>5. DeadIsForgotten'
  BY <1>2, <1>3 DEF SessionInv, DeadIsForgotten
<1>6. QED
  BY <1>1, <1>4, <1>5 DEF SessionInv

\* An accepted pipe goes to a living multiplexer or is dropped.
LEMMA AcceptKeeps ==
  ASSUME SessionInv, NEW c \in Client, NEW p \in Pipe, AcceptPipe(c, p)
  PROVE  SessionInv'
<1>1. TypeInv'
  BY AcceptTypes DEF SessionInv
<1>2. apc = "accept" /\ apc' = "retain" /\ UNCHANGED <<mgr, loop>>
  BY DEF AcceptPipe, AcceptNew, AcceptKnown, AcceptStale, Accepted, sessionVars
<1>3. /\ made \in Nat /\ entry \in [Client -> 0..made] /\ owner \in [Mux -> Client]
      /\ pipes \in [Mux -> SUBSET used] /\ open \subseteq used
      /\ lost \in [Mux -> Nat] /\ made <= MaxMux
  BY SessionsAssumption DEF SessionInv, TypeInv, TypeOK
<1>4. CASE AcceptNew(c, p)
  <2>1. PICK new \in Mux : new = made + 1 /\ made' = new
    BY <1>3, <1>4, SessionsAssumption DEF AcceptNew, Mux
  <2>2. /\ entry[c] = 0 /\ UNCHANGED lost
        /\ entry' = [entry EXCEPT ![c] = new]
        /\ owner' = [owner EXCEPT ![new] = c]
        /\ pipes' = [pipes EXCEPT ![new] = {p}]
        /\ open' \in {open, open \cup {p}} /\ p \notin open
    BY <1>3, <1>4, <2>1 DEF AcceptNew, Accepted
  <2>3. /\ \A m \in Mux \ {new} : (Strong(m)' <=> Strong(m)) /\ (Strong(m) => m <= made)
        /\ Strong(new)' /\ ~Strong(new)
    BY <1>2, <1>3, <2>1 DEF Strong, SessionInv, TypeInv, Fresh, Mux
  <2>4. OneSessionPerClient'
    BY <1>3, <2>1, <2>2, <2>3 DEF SessionInv, OneSessionPerClient, Mux
  <2>5. OpenPipesAreHeld'
    BY <1>3, <2>1, <2>2, <2>3 DEF SessionInv, OpenPipesAreHeld
  <2>6. DeadIsForgotten'
    BY <1>2, <1>3, <2>1, <2>2, <2>3 DEF SessionInv, DeadIsForgotten, Mux
  <2>7. QED
    BY <1>1, <2>4, <2>5, <2>6 DEF SessionInv
<1>5. CASE AcceptKnown(c, p)
  <2>1. /\ UNCHANGED <<made, entry, owner, lost>> /\ Strong(entry[c]) /\ entry[c] \in Mux
        /\ pipes' = [pipes EXCEPT ![entry[c]] = @ \cup {p}]
        /\ open' \in {open, open \cup {p}}
    BY <1>3, <1>5, SessionsAssumption DEF AcceptKnown, Mux
  <2>2. \A m \in Mux : Strong(m)' <=> Strong(m)
    BY <1>2, <2>1 DEF Strong
  <2>3. OneSessionPerClient' /\ DeadIsForgotten'
    BY <1>2, <2>1, <2>2 DEF SessionInv, OneSessionPerClient, DeadIsForgotten
  <2>4. OpenPipesAreHeld'
    BY <1>3, <2>1, <2>2 DEF SessionInv, OpenPipesAreHeld
  <2>5. QED
    BY <1>1, <2>3, <2>4 DEF SessionInv
<1>6. CASE AcceptStale(c, p)
  <2>1. /\ UNCHANGED <<made, entry, owner, pipes, open>> /\ ~Strong(entry[c])
        /\ entry[c] \in Mux /\ entry[c] <= made
        /\ lost' = [lost EXCEPT ![entry[c]] = @ + 1]
    BY <1>3, <1>6, SessionsAssumption DEF AcceptStale, Mux, pipeVars
  <2>2. \A m \in Mux : Strong(m)' <=> Strong(m)
    BY <1>2, <2>1 DEF Strong
  <2>3. OneSessionPerClient' /\ OpenPipesAreHeld'
    BY <1>2, <2>1, <2>2 DEF SessionInv, OneSessionPerClient, OpenPipesAreHeld
  <2>4. lost[entry[c]] = 0
    BY <1>2, <2>1 DEF SessionInv, DeadIsForgotten
  <2>5. DeadIsForgotten'
    BY <1>2, <1>3, <2>1, <2>2, <2>4 DEF SessionInv, DeadIsForgotten
  <2>6. QED
    BY <1>1, <2>3, <2>5 DEF SessionInv
<1>7. QED
  BY <1>4, <1>5, <1>6 DEF AcceptPipe

\* The end of a session loop or of a pipe manager.
LEMMA EndsKeeps == ASSUME SessionInv, TypeInv', NEW m \in Mux, Ends(m) PROVE SessionInv'
<1>1. UNCHANGED <<apc, entry, made, owner, lost>>
  BY DEF Ends, acceptVars
<1>2. \A n \in Mux : Strong(n)' => Strong(n)
  BY DEF Ends
<1>3. OneSessionPerClient' /\ DeadIsForgotten'
  BY <1>1, <1>2 DEF SessionInv, OneSessionPerClient, DeadIsForgotten
<1>4. OpenPipesAreHeld'
  <2>1. CASE Strong(m)' /\ UNCHANGED pipeVars
    BY <2>1 DEF Ends, SessionInv, OpenPipesAreHeld, pipeVars
  <2>2. CASE open' = open \ pipes[m] /\ pipes' = [pipes EXCEPT ![m] = {}]
    <3>1. SUFFICES ASSUME NEW p \in open'
                   PROVE  \E n \in Mux : Strong(n)' /\ p \in pipes'[n]
      BY DEF OpenPipesAreHeld
    <3>2. PICK n \in Mux : Strong(n) /\ p \in pipes[n]
      BY <2>2, <3>1 DEF SessionInv, OpenPipesAreHeld
    <3>3. n # m
      BY <2>2, <3>1, <3>2
    <3>4. Strong(n)' /\ pipes'[n] = pipes[n]
      BY <2>2, <3>2, <3>3 DEF Ends, SessionInv, TypeInv, TypeOK
    <3>5. QED
      BY <3>2, <3>4
  <2>3. QED
    BY <2>1, <2>2 DEF Ends
<1>5. QED
  BY <1>3, <1>4 DEF SessionInv

\* Every step keeps the invariant.
LEMMA SessionStep == ASSUME SessionInv, [Next]_vars PROVE SessionInv'
<1>1. TypeInv /\ TypeInv'
  BY TypeStep DEF SessionInv
<1>2. CASE Quiet
  <2>1. UNCHANGED <<apc, entry, made, owner, lost, open, pipes>>
    BY <1>2 DEF Quiet, acceptVars, pipeVars
  <2>2. QED
    BY <1>1, <1>2, <2>1 DEF Quiet, SessionInv, OneSessionPerClient, OpenPipesAreHeld, DeadIsForgotten
<1>3. ASSUME NEW p \in Pipe, ClosePipe(p) PROVE SessionInv'
  <2>1. /\ UNCHANGED <<apc, entry, made, owner, lost, pipes, mgr, loop>>
        /\ open' \subseteq open
    BY <1>3 DEF ClosePipe, acceptVars, sessionVars
  <2>2. QED
    BY <1>1, <2>1 DEF SessionInv, OneSessionPerClient, OpenPipesAreHeld, DeadIsForgotten, Strong
<1>4. ASSUME NEW m \in Mux, Prune(m) PROVE SessionInv'
  <2>1. /\ UNCHANGED <<apc, entry, made, owner, lost, open, loop>>
        /\ pipes' = [pipes EXCEPT ![m] = @ \cap open]
        /\ mgr[m] = "prune" /\ mgr' = [mgr EXCEPT ![m] = "decide"]
    BY <1>4 DEF Prune, acceptVars
  <2>2. \A n \in Mux : (Strong(n)' <=> Strong(n)) /\ pipes[n] \cap open \subseteq pipes'[n]
    BY <1>1, <2>1 DEF Strong, TypeInv, TypeOK
  <2>3. QED
    BY <1>1, <2>1, <2>2 DEF SessionInv, OneSessionPerClient, OpenPipesAreHeld, DeadIsForgotten
<1>5. QED
  BY <1>1, <1>2, <1>3, <1>4, Steps, RetainKeeps, AcceptKeeps, EndsKeeps

\* So it always holds.
LEMMA SessionsInv == Spec => []SessionInv
<1>1. Init => SessionInv
  BY SessionInit
<1>2. SessionInv /\ [Next]_vars => SessionInv'
  BY SessionStep
<1>3. QED
  BY <1>1, <1>2, PTL DEF Spec

-----------------------------------------------------------------------------
(* The types of every variable, for any set of clients, pipes and streams: *)
(* the pipe manager's last_alive in particular is never more than one pass *)
(* behind its deadline.                                                    *)
THEOREM TypeCorrect == Spec => []TypeOK
<1>1. SessionInv => TypeOK
  BY DEF SessionInv, TypeInv
<1>2. QED
  BY <1>1, SessionsInv, PTL

(* A client has no more than one living multiplexer, the one its entry in  *)
(* mux_sessions is about.                                                  *)
THEOREM OneSessionCorrect == Spec => []OneSessionPerClient
<1>1. SessionInv => OneSessionPerClient
  BY DEF SessionInv
<1>2. QED
  BY <1>1, SessionsInv, PTL

\* lost[m] counts the pipes accepted for m and dropped because m had died.
AtMostOneLost == \A m \in Mux : lost[m] <= 1

(* A dead multiplexer costs its client at most one accepted pipe, since    *)
(* the accept loop retains between any two pipes.                          *)
THEOREM AtMostOneLostCorrect == Spec => []AtMostOneLost
<1>1. SessionInv => AtMostOneLost
  BY DEF SessionInv, TypeInv, TypeOK, DeadIsForgotten, AtMostOneLost
<1>2. QED
  BY <1>1, SessionsInv, PTL

(* An open pipe that was accepted belongs to a multiplexer that somebody   *)
(* holds: dropping the last reference closes the pipes.                    *)
THEOREM OpenPipesCorrect == Spec => []OpenPipesAreHeld
<1>1. SessionInv => OpenPipesAreHeld
  BY DEF SessionInv
<1>2. QED
  BY <1>1, SessionsInv, PTL
-----------------------------------------------------------------------------
(* The table of sessions.                                                  *)

\* The entry of a client is the last multiplexer made for it.
LatestEntry ==
  \A c \in Client : entry[c] # 0 =>
    entry[c] \in MuxesOf(c) /\ \A n \in MuxesOf(c) : n <= entry[c]

\* No pipe is in two multiplexers.
PipesApart == \A m, n \in Mux : m # n => pipes[m] \cap pipes[n] = {}

TableInv == LatestEntry /\ PipesApart

LEMMA TableInit == ASSUME Init PROVE TableInv
BY DEF Init, TableInv, LatestEntry, PipesApart

\* What a client's last pipe came to shows at its entry.
LEMMA EntryTells ==
  ASSUME TypeInv, LatestEntry, NEW c \in Client, entry[c] # 0
  PROVE  LastPipe[c] = IF lost[entry[c]] # 0 THEN "refused" ELSE "attached"
<1>1. entry[c] \in MuxesOf(c) /\ \A n \in MuxesOf(c) : n <= entry[c]
  BY DEF LatestEntry
<1>2. MuxesOf(c) \subseteq Nat
  BY SessionsAssumption DEF MuxesOf, TypeInv, TypeOK
<1>3. \A m \in MuxesOf(c) : (\A n \in MuxesOf(c) : n <= m) <=> m = entry[c]
  BY <1>1, <1>2
<1>4. QED
  BY <1>1, <1>3 DEF LastPipe

\* A step that leaves the entries and the pipes' places alone.
LEMMA TableKept ==
  ASSUME TableInv, UNCHANGED <<entry, owner, made>>,
         \A m \in Mux : pipes'[m] \subseteq pipes[m]
  PROVE  TableInv'
BY DEF TableInv, LatestEntry, PipesApart, MuxesOf

LEMMA TableAccepts ==
  ASSUME SessionInv, TableInv, NEW c \in Client, NEW p \in Pipe, AcceptPipe(c, p)
  PROVE  TableInv'
<1>1. /\ entry \in [Client -> 0..made] /\ owner \in [Mux -> Client] /\ made \in 0..MaxMux
      /\ pipes \in [Mux -> SUBSET used] /\ MaxMux \in Nat
  BY SessionsAssumption DEF SessionInv, TypeInv, TypeOK
<1>2. \A m \in Mux : p \notin pipes[m]
  BY <1>1 DEF AcceptPipe, AcceptNew, AcceptKnown, AcceptStale, Accepted
<1>3. ASSUME NEW k \in Mux, NEW q, q = pipes[k] \cup {p} \/ q = {p}, pipes' = [pipes EXCEPT ![k] = q]
      PROVE  PipesApart'
  BY <1>1, <1>2, <1>3 DEF TableInv, PipesApart
<1>4. CASE AcceptNew(c, p)
  <2>1. /\ made' = made + 1 /\ made' \in Mux /\ entry' = [entry EXCEPT ![c] = made']
        /\ owner' = [owner EXCEPT ![made'] = c] /\ pipes' = [pipes EXCEPT ![made'] = {p}]
    BY <1>1, <1>4 DEF AcceptNew, Mux
  <2>2. PipesApart'
    BY <1>3, <2>1
  <2>3. ASSUME NEW d \in Client
        PROVE  MuxesOf(d)' = IF d = c THEN MuxesOf(d) \cup {made'} ELSE MuxesOf(d)
    <3>1. \A n \in 1..made' : n = made' \/ n \in 1..made
      BY <1>1, <2>1
    <3>2. \A n \in 1..made : n \in Mux /\ n # made' /\ n \in 1..made'
      BY <1>1, <2>1 DEF Mux
    <3>3. made' \in 1..made'
      BY <1>1, <2>1
    <3>4. owner'[made'] = c /\ \A n \in 1..made : owner'[n] = owner[n]
      BY <1>1, <2>1, <3>2
    <3>5. QED
      BY <3>1, <3>2, <3>3, <3>4 DEF MuxesOf
  <2>4. ASSUME NEW d \in Client, entry'[d] # 0
        PROVE  entry'[d] \in MuxesOf(d)' /\ \A n \in MuxesOf(d)' : n <= entry'[d]
    <3>1. CASE d = c
      <4>1. entry'[d] = made' /\ MuxesOf(d)' = MuxesOf(d) \cup {made'}
        BY <1>1, <2>1, <2>3, <3>1
      <4>2. \A n \in MuxesOf(d) : n <= made'
        BY <1>1, <2>1 DEF MuxesOf
      <4>3. made' <= made'
        BY <1>1, <2>1
      <4>4. QED
        BY <4>1, <4>2, <4>3
    <3>2. CASE d # c
      BY <1>1, <2>1, <2>3, <2>4, <3>2 DEF TableInv, LatestEntry
    <3>3. QED
      BY <3>1, <3>2
  <2>5. QED
    BY <2>2, <2>4 DEF TableInv, LatestEntry
<1>5. CASE AcceptKnown(c, p)
  <2>1. /\ UNCHANGED <<entry, owner, made>> /\ entry[c] \in Mux
        /\ pipes' = [pipes EXCEPT ![entry[c]] = pipes[entry[c]] \cup {p}]
    BY <1>1, <1>5 DEF AcceptKnown, Mux
  <2>2. PipesApart'
    BY <1>3, <2>1
  <2>3. QED
    BY <2>1, <2>2 DEF TableInv, LatestEntry, MuxesOf
<1>6. CASE AcceptStale(c, p)
  <2>1. UNCHANGED <<entry, owner, made, pipes>>
    BY <1>6 DEF AcceptStale, pipeVars
  <2>2. QED
    BY <2>1, TableKept
<1>7. QED
  BY <1>4, <1>5, <1>6 DEF AcceptPipe

LEMMA TableInvStep == ASSUME SessionInv, TableInv, [Next]_vars PROVE TableInv'
<1>1. TypeInv
  BY DEF SessionInv
<1>2. CASE Quiet \/ (\E p \in Pipe : ClosePipe(p)) \/ \E m \in Mux : Prune(m) \/ Ends(m)
  <2>1. UNCHANGED <<entry, owner, made>>
    BY <1>2 DEF Quiet, ClosePipe, Prune, Ends, acceptVars
  <2>2. \A m \in Mux : pipes'[m] \subseteq pipes[m]
    BY <1>1, <1>2 DEF Quiet, ClosePipe, Prune, Ends, pipeVars, TypeInv, TypeOK
  <2>3. QED
    BY <2>1, <2>2, TableKept
<1>3. CASE Retain
  <2>1. /\ UNCHANGED <<owner, made, pipes>>
        /\ \A c \in Client : entry'[c] \in {0, entry[c]}
    BY <1>3 DEF Retain, pipeVars
  <2>2. QED
    BY <2>1 DEF TableInv, LatestEntry, PipesApart, MuxesOf
<1>4. QED
  BY <1>1, <1>2, <1>3, Steps, TableAccepts

\* What the clients see of a step, one client at a time.
Sees(c, s, h) == /\ (IF Alive(c)' THEN entry'[c] ELSE 0) = s
                 /\ (IF Alive(c)' THEN pipes'[entry'[c]] \cap open' ELSE {}) = h

LEMMA SeenIs ==
  ASSUME NEW S, NEW H, \A c \in Client : Sees(c, S[c], H[c])
  PROVE  /\ SessionOf' = [c \in Client |-> S[c]]
         /\ PipesOf' = [c \in Client |-> H[c]]
BY DEF Sees, SessionOf, PipesOf

\* A step that no client sees.
LEMMA Unseen ==
  ASSUME \A c \in Client : Sees(c, SessionOf[c], PipesOf[c]),
         UNCHANGED <<made, owner, lost, used>>
  PROVE  UNCHANGED Table!vars
<1>1. SessionOf' = [c \in Client |-> SessionOf[c]] /\ PipesOf' = [c \in Client |-> PipesOf[c]]
  BY SeenIs
<1>2. SessionOf' = SessionOf /\ PipesOf' = PipesOf
  BY <1>1 DEF SessionOf, PipesOf
<1>3. LastPipe' = LastPipe
  BY DEF LastPipe, MuxesOf
<1>4. QED
  BY <1>2, <1>3 DEF Table!vars

LEMMA InnerIsUnseen ==
  ASSUME SessionInv, TableInv,
         Quiet \/ Retain \/ (\E m \in Mux : Prune(m) \/ (Ends(m) /\ Strong(m)'))
  PROVE  UNCHANGED Table!vars
<1>1. /\ entry \in [Client -> 0..made] /\ made \in 0..MaxMux /\ MaxMux \in Nat
      /\ pipes \in [Mux -> SUBSET used]
      /\ mgr \in [Mux -> {"prune", "decide", "done"}]
  BY SessionsAssumption DEF SessionInv, TypeInv, TypeOK
<1>2. UNCHANGED <<made, owner, lost, used, open>>
  <2>1. CASE Quiet \/ Retain \/ \E m \in Mux : Prune(m)
    BY <2>1 DEF Quiet, Retain, Prune, acceptVars, pipeVars
  <2>2. CASE \E m \in Mux : Ends(m) /\ Strong(m)'
    BY <2>2 DEF Ends, acceptVars, pipeVars
  <2>3. QED
    BY <2>1, <2>2
<1>3. \A m \in Mux : (Strong(m)' <=> Strong(m)) /\ pipes'[m] \cap open' = pipes[m] \cap open
  <2>1. CASE Quiet
    BY <2>1 DEF Quiet, pipeVars
  <2>2. CASE Retain
    BY <2>2 DEF Retain, Strong, pipeVars, sessionVars
  <2>3. ASSUME NEW n \in Mux, Prune(n)
        PROVE  \A m \in Mux : (Strong(m)' <=> Strong(m))
                              /\ pipes'[m] \cap open' = pipes[m] \cap open
    <3>1. /\ mgr[n] = "prune" /\ mgr' = [mgr EXCEPT ![n] = "decide"] /\ loop' = loop
          /\ pipes' = [pipes EXCEPT ![n] = pipes[n] \cap open] /\ made' = made /\ open' = open
      BY <2>3 DEF Prune, acceptVars
    <3>2. \A m \in Mux : Strong(m)' <=> Strong(m)
      BY <1>1, <3>1 DEF Strong
    <3>3. \A m \in Mux : pipes'[m] \cap open' = pipes[m] \cap open
      BY <1>1, <3>1
    <3>4. QED
      BY <3>2, <3>3
  <2>4. CASE \E m \in Mux : Ends(m) /\ Strong(m)'
    BY <2>4 DEF Ends, pipeVars
  <2>5. QED
    BY <2>1, <2>2, <2>3, <2>4
<1>4. ASSUME NEW c \in Client PROVE Sees(c, SessionOf[c], PipesOf[c])
  <2>1. entry[c] # 0 => entry[c] \in Mux
    BY <1>1 DEF Mux
  <2>2. entry'[c] = entry[c] \/ (entry'[c] = 0 /\ ~Alive(c))
    <3>1. CASE Retain
      BY <2>1, <3>1 DEF Retain, Alive
    <3>2. CASE ~Retain
      <4>1. entry' = entry
        BY <3>2 DEF Quiet, Prune, Ends, acceptVars
      <4>2. QED
        BY <4>1
    <3>3. QED
      BY <3>1, <3>2
  <2>3. Alive(c)' <=> Alive(c)
    BY <1>3, <2>1, <2>2 DEF Alive
  <2>4. Alive(c) => entry'[c] = entry[c] /\ entry[c] \in Mux
    BY <2>1, <2>2 DEF Alive
  <2>5. QED
    BY <1>3, <2>3, <2>4 DEF Sees, SessionOf, PipesOf
<1>5. QED
  BY <1>2, <1>4, Unseen

LEMMA ClosePipeIsClose ==
  ASSUME NEW p \in Pipe, ClosePipe(p)
  PROVE  Table!Close(p)
<1>1. /\ open' = open \ {p}
      /\ UNCHANGED <<entry, made, owner, used, lost, pipes, mgr, loop>>
  BY DEF ClosePipe, acceptVars, sessionVars
<1>2. \A c \in Client : Alive(c)' <=> Alive(c)
  BY <1>1 DEF Alive, Strong
<1>3. SessionOf' = SessionOf /\ LastPipe' = LastPipe
  BY <1>1, <1>2 DEF SessionOf, LastPipe, MuxesOf
<1>4. PipesOf' = [c \in Client |-> PipesOf[c] \ {p}]
  BY <1>1, <1>2 DEF PipesOf
<1>5. QED
  BY <1>1, <1>3, <1>4 DEF Table!Close

LEMMA LastEndIsEnd ==
  ASSUME SessionInv, TableInv, NEW m \in Mux, Ends(m), ~Strong(m)',
         NEW c \in Client, owner[m] = c
  PROVE  Table!End(c)
<1>1. /\ owner \in [Mux -> Client] /\ entry \in [Client -> 0..made] /\ made \in 0..MaxMux
      /\ MaxMux \in Nat /\ pipes \in [Mux -> SUBSET used]
  BY SessionsAssumption DEF SessionInv, TypeInv, TypeOK
<1>2. /\ UNCHANGED <<entry, made, owner, used, lost>> /\ Strong(m)
      /\ \A n \in Mux \ {m} : Strong(n)' <=> Strong(n)
      /\ open' = open \ pipes[m] /\ pipes' = [pipes EXCEPT ![m] = {}]
  BY DEF Ends, acceptVars
<1>3. entry[c] = m /\ m # 0
  BY <1>1, <1>2 DEF SessionInv, OneSessionPerClient, Mux
<1>4. Alive(c) /\ ~Alive(c)'
  <2>1. ~Strong(m)' /\ entry'[c] = m
    BY <1>2, <1>3
  <2>2. QED
    BY <1>2, <1>3, <2>1 DEF Alive, Strong
<1>5. ASSUME NEW d \in Client, d # c
      PROVE  Sees(d, SessionOf[d], PipesOf[d])
  <2>1. entry[d] # 0 => entry[d] \in Mux /\ entry[d] # m
    <3>1. entry[d] # 0 => owner[entry[d]] = d
      BY DEF TableInv, LatestEntry, MuxesOf
    <3>2. QED
      BY <1>1, <1>5, <3>1 DEF Mux
  <2>2. Alive(d)' <=> Alive(d)
    BY <1>2, <2>1 DEF Alive
  <2>3. Alive(d) => pipes'[entry[d]] \cap open' = pipes[entry[d]] \cap open
    <3>1. Alive(d) => pipes[entry[d]] \cap pipes[m] = {} /\ pipes'[entry[d]] = pipes[entry[d]]
      BY <1>1, <1>2, <2>1 DEF Alive, TableInv, PipesApart
    <3>2. QED
      BY <1>2, <3>1
  <2>4. QED
    BY <1>2, <1>5, <2>2, <2>3 DEF Sees, SessionOf, PipesOf
<1>6. Sees(c, 0, {})
  BY <1>4 DEF Sees
<1> DEFINE S == [SessionOf EXCEPT ![c] = 0]
           H == [PipesOf EXCEPT ![c] = {}]
<1>7. /\ \A d \in Client : S[d] = IF d = c THEN 0 ELSE SessionOf[d]
      /\ \A d \in Client : H[d] = IF d = c THEN {} ELSE PipesOf[d]
      /\ S = [d \in Client |-> S[d]] /\ H = [d \in Client |-> H[d]]
  BY <1>3 DEF SessionOf, PipesOf
<1> HIDE DEF S, H
<1>8. \A d \in Client : Sees(d, S[d], H[d])
  BY <1>5, <1>6, <1>7
<1>9. SessionOf' = S /\ PipesOf' = H
  BY <1>7, <1>8, SeenIs
<1>10. LastPipe' = LastPipe
  BY <1>2 DEF LastPipe, MuxesOf
<1>11. SessionOf[c] # 0
  BY <1>3, <1>4 DEF SessionOf
<1>12. QED
  BY <1>2, <1>9, <1>10, <1>11 DEF Table!End, S, H

\* A client whose pipe arrives, the others being left alone.
LEMMA OneSees ==
  ASSUME NEW c \in Client, NEW s, NEW h, Sees(c, s, h),
         \A d \in Client \ {c} : Sees(d, SessionOf[d], PipesOf[d])
  PROVE  SessionOf' = [SessionOf EXCEPT ![c] = s] /\ PipesOf' = [PipesOf EXCEPT ![c] = h]
<1> DEFINE S == [SessionOf EXCEPT ![c] = s]
           H == [PipesOf EXCEPT ![c] = h]
<1>1. /\ \A d \in Client : S[d] = IF d = c THEN s ELSE SessionOf[d]
      /\ \A d \in Client : H[d] = IF d = c THEN h ELSE PipesOf[d]
      /\ S = [d \in Client |-> S[d]] /\ H = [d \in Client |-> H[d]]
  BY DEF SessionOf, PipesOf
<1> HIDE DEF S, H
<1>2. \A d \in Client : Sees(d, S[d], H[d])
  BY <1>1
<1>3. QED
  BY <1>1, <1>2, SeenIs DEF S, H

LEMMA AcceptNewIsOpen ==
  ASSUME SessionInv, TableInv, NEW c \in Client, NEW p \in Pipe, AcceptNew(c, p)
  PROVE  Table!Open(c, p)
<1>1. /\ entry \in [Client -> 0..made] /\ owner \in [Mux -> Client] /\ made \in 0..MaxMux
      /\ pipes \in [Mux -> SUBSET used] /\ MaxMux \in Nat /\ open \subseteq used
      /\ mgr \in [Mux -> {"prune", "decide", "done"}]
  BY SessionsAssumption DEF SessionInv, TypeInv, TypeOK
<1>2. /\ entry[c] = 0 /\ made' = made + 1 /\ made' \in Mux /\ p \in Pipe \ used
      /\ used' = used \cup {p} /\ entry' = [entry EXCEPT ![c] = made']
      /\ owner' = [owner EXCEPT ![made'] = c] /\ pipes' = [pipes EXCEPT ![made'] = {p}]
      /\ open' \in {open, open \cup {p}}
      /\ UNCHANGED <<lost, mgr, loop>>
  BY <1>1 DEF AcceptNew, Accepted, Mux, sessionVars
<1>3. \A n \in Mux : n <= made => n # made'
  BY <1>1, <1>2 DEF Mux
<1>4. \A n \in Mux : n <= made => (Strong(n)' <=> Strong(n)) /\ pipes'[n] = pipes[n]
  BY <1>1, <1>2, <1>3 DEF Strong, Mux
<1>5. Sees(c, made', open' \cap {p})
  <2>1. entry'[c] = made' /\ pipes'[made'] = {p} /\ made' # 0 /\ made' <= made'
    BY <1>1, <1>2
  <2>2. mgr'[made'] # "done"
    <3>1. made' > made
      BY <1>1, <1>2
    <3>2. QED
      BY <1>2, <3>1 DEF SessionInv, TypeInv, Fresh
  <2>3. Alive(c)'
    BY <2>1, <2>2 DEF Alive, Strong
  <2>4. QED
    BY <2>1, <2>3 DEF Sees
<1>6. ASSUME NEW d \in Client \ {c} PROVE Sees(d, SessionOf[d], PipesOf[d])
  <2>1. entry'[d] = entry[d] /\ (entry[d] # 0 => entry[d] \in Mux /\ entry[d] <= made)
    BY <1>1, <1>2 DEF Mux
  <2>2. Alive(d)' <=> Alive(d)
    BY <1>4, <2>1 DEF Alive
  <2>3. Alive(d) => pipes'[entry[d]] \cap open' = pipes[entry[d]] \cap open
    BY <1>1, <1>2, <1>4, <2>1 DEF Alive
  <2>4. QED
    BY <2>1, <2>2, <2>3 DEF Sees, SessionOf, PipesOf
<1>7. /\ SessionOf' = [SessionOf EXCEPT ![c] = made']
      /\ PipesOf' = [PipesOf EXCEPT ![c] = open' \cap {p}]
  BY <1>5, <1>6, OneSees
<1>8. SessionOf[c] = 0 /\ PipesOf[c] = {}
  BY <1>2 DEF SessionOf, PipesOf, Alive
<1>9. PipesOf' \in {PipesOf, [PipesOf EXCEPT ![c] = @ \cup {p}]}
  <2>1. open' \cap {p} = {} \/ open' \cap {p} = {p}
    OBVIOUS
  <2>2. PipesOf = [PipesOf EXCEPT ![c] = {}]
    BY <1>8 DEF PipesOf
  <2>3. QED
    BY <1>7, <1>8, <2>1, <2>2
<1>10. LastPipe' = [LastPipe EXCEPT ![c] = "attached"]
  <2>1. ASSUME NEW d \in Client
        PROVE  MuxesOf(d)' = IF d = c THEN MuxesOf(d) \cup {made'} ELSE MuxesOf(d)
    <3>1. \A n \in 1..made' : n = made' \/ n \in 1..made
      BY <1>1, <1>2
    <3>2. \A n \in 1..made : n \in Mux /\ n # made' /\ n \in 1..made'
      BY <1>1, <1>2 DEF Mux
    <3>3. made' \in 1..made'
      BY <1>1, <1>2
    <3>4. owner'[made'] = c /\ \A n \in 1..made : owner'[n] = owner[n]
      BY <1>1, <1>2, <3>2
    <3>5. QED
      BY <3>1, <3>2, <3>3, <3>4 DEF MuxesOf
  <2>2. lost'[made'] = 0
    <3>1. ~(made' <= made)
      BY <1>1, <1>2
    <3>2. QED
      BY <1>2, <3>1 DEF SessionInv, DeadIsForgotten
  <2>3. LastPipe'[c] = "attached"
    <3>1. ASSUME NEW m \in MuxesOf(c)', lost'[m] # 0, \A n \in MuxesOf(c)' : n <= m PROVE FALSE
      <4>1. m # made' /\ m \in MuxesOf(c) /\ made' <= m
        BY <2>1, <2>2, <3>1
      <4>2. m \in Nat /\ m <= made
        BY <1>1, <4>1 DEF MuxesOf
      <4>3. QED
        BY <1>1, <1>2, <4>1, <4>2
    <3>2. MuxesOf(c)' # {}
      BY <2>1
    <3>3. QED
      BY <3>1, <3>2 DEF LastPipe
  <2>4. \A d \in Client \ {c} : LastPipe'[d] = LastPipe[d]
    BY <1>2, <2>1 DEF LastPipe
  <2>5. QED
    BY <2>3, <2>4 DEF LastPipe
<1>11. QED
  BY <1>2, <1>7, <1>8, <1>9, <1>10 DEF Table!Open, Table!Attached, Table!Arrives

LEMMA AcceptKnownIsJoin ==
  ASSUME SessionInv, TableInv, NEW c \in Client, NEW p \in Pipe, AcceptKnown(c, p)
  PROVE  Table!Join(c, p)
<1>1. /\ entry \in [Client -> 0..made] /\ owner \in [Mux -> Client] /\ made \in 0..MaxMux
      /\ pipes \in [Mux -> SUBSET used] /\ MaxMux \in Nat /\ open \subseteq used
  BY SessionsAssumption DEF SessionInv, TypeInv, TypeOK
<1> DEFINE e == entry[c]
<1>2. /\ e \in Mux /\ e # 0 /\ Strong(e) /\ p \in Pipe \ used /\ used' = used \cup {p}
      /\ pipes' = [pipes EXCEPT ![e] = pipes[e] \cup {p}]
      /\ open' \in {open, open \cup {p}}
      /\ UNCHANGED <<entry, made, owner, lost, mgr, loop>>
  BY <1>1 DEF AcceptKnown, Accepted, Mux, sessionVars
<1>3. \A n \in Mux : Strong(n)' <=> Strong(n)
  BY <1>2 DEF Strong
<1>4. \A d \in Client : /\ entry[d] # 0 => entry[d] \in Mux
                        /\ Alive(d)' <=> Alive(d)
  BY <1>1, <1>2, <1>3 DEF Alive, Mux
<1>5. Alive(c)
  BY <1>2 DEF Alive
<1>6. Sees(c, e, (pipes[e] \cup {p}) \cap open')
  BY <1>1, <1>2, <1>4, <1>5 DEF Sees
<1>7. ASSUME NEW d \in Client \ {c} PROVE Sees(d, SessionOf[d], PipesOf[d])
  <2>1. entry[d] # 0 => entry[d] # e
    BY <1>1, <1>2 DEF TableInv, LatestEntry, MuxesOf
  <2>2. Alive(d) => pipes'[entry[d]] \cap open' = pipes[entry[d]] \cap open
    <3>1. Alive(d) => entry[d] \in Mux /\ pipes'[entry[d]] = pipes[entry[d]]
      BY <1>1, <1>2, <1>4, <2>1 DEF Alive
    <3>2. Alive(d) => p \notin pipes[entry[d]]
      BY <1>1, <1>2, <3>1
    <3>3. QED
      BY <1>2, <3>1, <3>2
  <2>3. QED
    BY <1>2, <1>4, <2>2 DEF Sees, SessionOf, PipesOf
<1> HIDE DEF e
<1>8. /\ SessionOf' = [SessionOf EXCEPT ![c] = e]
      /\ PipesOf' = [PipesOf EXCEPT ![c] = (pipes[e] \cup {p}) \cap open']
  BY <1>6, <1>7, OneSees
<1>9. SessionOf[c] = e /\ PipesOf[c] = pipes[e] \cap open
  BY <1>5 DEF SessionOf, PipesOf, e
<1>10. SessionOf' = SessionOf
  BY <1>8, <1>9 DEF SessionOf
<1>11. PipesOf' \in {PipesOf, [PipesOf EXCEPT ![c] = @ \cup {p}]}
  <2>1. \/ (pipes[e] \cup {p}) \cap open' = PipesOf[c]
        \/ (pipes[e] \cup {p}) \cap open' = PipesOf[c] \cup {p}
    BY <1>1, <1>2, <1>9
  <2>2. PipesOf = [PipesOf EXCEPT ![c] = PipesOf[c]]
    BY DEF PipesOf
  <2>3. QED
    BY <1>8, <2>1, <2>2
<1>12. LastPipe' = LastPipe /\ LastPipe[c] = "attached"
  <2>1. LastPipe' = LastPipe
    BY <1>2 DEF LastPipe, MuxesOf
  <2>2. lost[e] = 0
    BY <1>2 DEF SessionInv, DeadIsForgotten
  <2>3. QED
    BY <1>2, <2>1, <2>2, EntryTells DEF SessionInv, TableInv, e
<1>13. LastPipe = [LastPipe EXCEPT ![c] = "attached"]
  BY <1>12 DEF LastPipe
<1>14. QED
  BY <1>2, <1>9, <1>10, <1>11, <1>12, <1>13
     DEF Table!Join, Table!Attached, Table!Arrives

LEMMA AcceptStaleIsRefuse ==
  ASSUME SessionInv, TableInv, NEW c \in Client, NEW p \in Pipe, AcceptStale(c, p)
  PROVE  Table!Refuse(c, p)
<1>1. /\ entry \in [Client -> 0..made] /\ lost \in [Mux -> Nat]
      /\ made \in 0..MaxMux /\ MaxMux \in Nat
  BY SessionsAssumption DEF SessionInv, TypeInv, TypeOK
<1> DEFINE e == entry[c]
<1>2. /\ e # 0 /\ e \in Mux /\ ~Strong(e) /\ apc = "accept" /\ p \in Pipe \ used
      /\ used' = used \cup {p} /\ lost' = [lost EXCEPT ![e] = lost[e] + 1]
      /\ UNCHANGED <<entry, made, owner, open, pipes, mgr, loop>>
  BY <1>1 DEF AcceptStale, Accepted, Mux, pipeVars, sessionVars
<1>3. \A d \in Client : Alive(d)' <=> Alive(d)
  BY <1>2 DEF Alive, Strong
<1>4. SessionOf' = SessionOf /\ PipesOf' = PipesOf /\ SessionOf[c] = 0
  BY <1>2, <1>3 DEF SessionOf, PipesOf, Alive
<1>5. lost[e] = 0
  BY <1>2 DEF SessionInv, DeadIsForgotten
<1>6. LastPipe[c] = "attached"
  BY <1>2, <1>5, EntryTells DEF SessionInv, TableInv
<1>7. e \in MuxesOf(c) /\ \A n \in MuxesOf(c) : n <= e
  BY <1>2 DEF TableInv, LatestEntry
<1> HIDE DEF e
<1>8. lost'[e] # 0 /\ \A m \in Mux \ {e} : lost'[m] = lost[m]
  BY <1>1, <1>2, <1>5
<1>9. \A d \in Client : MuxesOf(d)' = MuxesOf(d) /\ MuxesOf(d) \subseteq Mux
                        /\ (d # c => e \notin MuxesOf(d))
  BY <1>1, <1>2, <1>7 DEF MuxesOf, Mux
<1>10. LastPipe'[c] = "refused"
  BY <1>7, <1>8, <1>9 DEF LastPipe
<1>11. \A d \in Client \ {c} : LastPipe'[d] = LastPipe[d]
  BY <1>8, <1>9 DEF LastPipe
<1>12. LastPipe' = [LastPipe EXCEPT ![c] = "refused"]
  BY <1>10, <1>11 DEF LastPipe
<1>13. QED
  BY <1>2, <1>4, <1>6, <1>12 DEF Table!Refuse, Table!Arrives

LEMMA TableStep == ASSUME SessionInv, TableInv, [Next]_vars PROVE [Table!Next]_Table!vars
<1>1. TypeInv
  BY DEF SessionInv
<1>2. CASE Quiet \/ Retain \/ \E m \in Mux : Prune(m) \/ (Ends(m) /\ Strong(m)')
  BY <1>2, InnerIsUnseen
<1>3. ASSUME NEW c \in Client, NEW p \in Pipe, AcceptPipe(c, p) PROVE Table!Next
  BY <1>3, AcceptNewIsOpen, AcceptKnownIsJoin, AcceptStaleIsRefuse DEF AcceptPipe, Table!Next
<1>4. ASSUME NEW p \in Pipe, ClosePipe(p) PROVE Table!Next
  BY <1>4, ClosePipeIsClose DEF Table!Next
<1>5. ASSUME NEW m \in Mux, Ends(m), ~Strong(m)' PROVE Table!Next
  <2>1. owner[m] \in Client
    BY <1>1 DEF TypeInv, TypeOK
  <2>2. QED
    BY <1>5, <2>1, LastEndIsEnd DEF Table!Next
<1>6. QED
  BY <1>1, <1>2, <1>3, <1>4, <1>5, Steps

(* The sessions of the server are a table of sessions, for any clients and *)
(* pipes: although the entries are weak references, upgraded after a wait  *)
(* in which the tasks that hold the multiplexers run on, each pipe opens   *)
(* or joins its client's one session, or is the only one in a row to be    *)
(* dropped, and a session's end takes the pipes of no other client.        *)
THEOREM SessionTableCorrect == Spec => SessionsAreTable
<1>1. Init => TableInv
  BY TableInit
<1>2. SessionInv /\ TableInv /\ [Next]_vars => TableInv'
  BY TableInvStep
<1>3. Init => Table!Init
  BY DEF Init, Table!Init, SessionOf, PipesOf, LastPipe, Alive, MuxesOf
<1>4. SessionInv /\ TableInv /\ [Next]_vars => [Table!Next]_Table!vars
  BY TableStep
<1>5. QED
  BY <1>1, <1>2, <1>3, <1>4, SessionsInv, PTL DEF Spec, SessionsAreTable, Table!Spec

-----------------------------------------------------------------------------
(* The deadline.                                                           *)

\* A session is given up only by its own pipe manager, after Deadline seconds
\* without an open pipe, and only then is there a message.
OnlyIdleGivenUp ==
  \A m \in Mux : token[m] \/ mgr[m] = "done" =>
    m <= made /\ mgr[m] = "done" /\ idle[m] = Deadline + 1

\* Once it is, the message is in the channel, or the session loop has ended,
\* or a stream has that received the message in its place.
DeadlineIsReceived ==
  \A m \in Mux : m <= made /\ mgr[m] = "done" =>
    token[m] \/ loop[m] = "done" \/ StreamBailed(m)

\* The passes of the pipe manager before it gives up m, if it finds no open
\* pipe in any of them: two steps a second.
PassesLeft(m) == IF mgr[m] = "done" THEN 0
                 ELSE 2 * (Deadline + 1 - idle[m]) + (IF mgr[m] = "prune" THEN 1 ELSE 2)

PassesBounded == \A m \in Mux : /\ PassesLeft(m) \in 0..(2 * Deadline + 4)
                                /\ PassesLeft(m) = 0 => mgr[m] = "done"

FindsPipe(m) == Prune(m) /\ pipes[m] \cap open # {}

\* Only a pass that finds an open pipe adds to them, and any other takes one.
PassesCount(m) ==
  /\ PassesLeft(m)' <= PassesLeft(m) \/ FindsPipe(m)
  /\ (Prune(m) /\ ~FindsPipe(m)) \/ StayAlive(m) \/ DeclareDead(m)
       => PassesLeft(m)' < PassesLeft(m)

IdleIsGivenUp == [][\A m \in Mux : PassesCount(m)]_vars

DeadlineInv == OnlyIdleGivenUp /\ DeadlineIsReceived

LEMMA PassesLeftBounded == TypeInv => PassesBounded
<1> SUFFICES ASSUME TypeInv, NEW m \in Mux
             PROVE  /\ PassesLeft(m) \in 0..(2 * Deadline + 4)
                    /\ PassesLeft(m) = 0 => mgr[m] = "done"
  BY DEF PassesBounded
<1>1. idle[m] \in 0..(Deadline + 1) /\ Deadline \in Nat
  BY SessionsAssumption DEF TypeInv, TypeOK
<1>2. CASE mgr[m] = "done"
  BY <1>1, <1>2 DEF PassesLeft
<1>3. CASE mgr[m] # "done"
  <2>1. \E k \in 1..2 : PassesLeft(m) = 2 * (Deadline + 1 - idle[m]) + k
    BY <1>3 DEF PassesLeft
  <2>2. QED
    BY <1>1, <2>1
<1>4. QED
  BY <1>2, <1>3

\* The pipe manager of m.
LEMMA ManagerCounts ==
  ASSUME TypeInv, NEW m \in Mux, Prune(m) \/ StayAlive(m) \/ DeclareDead(m)
  PROVE  /\ m <= made /\ made' = made /\ mgr[m] # "done"
         /\ \A n \in Mux \ {m} : mgr'[n] = mgr[n] /\ idle'[n] = idle[n]
         /\ mgr'[m] = "done" => DeclareDead(m) /\ idle'[m] = Deadline + 1
         /\ FindsPipe(m) \/ PassesLeft(m)' < PassesLeft(m)
<1>1. /\ idle[m] \in 0..(Deadline + 1) /\ Deadline \in Nat /\ idle \in [Mux -> 0..(Deadline + 1)]
      /\ mgr \in [Mux -> {"prune", "decide", "done"}] /\ pipes \in [Mux -> SUBSET used]
  BY SessionsAssumption DEF TypeInv, TypeOK
<1>2. CASE Prune(m)
  <2>1. /\ mgr[m] = "prune" /\ mgr' = [mgr EXCEPT ![m] = "decide"] /\ m <= made /\ made' = made
        /\ pipes'[m] = pipes[m] \cap open
        /\ idle' = [idle EXCEPT ![m] = IF pipes'[m] # {} THEN 0 ELSE @ + 1]
    BY <1>1, <1>2 DEF Prune, acceptVars
  <2>2. /\ mgr'[m] = "decide" /\ \A n \in Mux \ {m} : mgr'[n] = mgr[n] /\ idle'[n] = idle[n]
    BY <1>1, <2>1
  <2>3. CASE pipes[m] \cap open = {}
    <3>1. idle'[m] = idle[m] + 1
      BY <1>1, <2>1, <2>3
    <3>2. /\ PassesLeft(m) = 2 * (Deadline + 1 - idle[m]) + 1
          /\ PassesLeft(m)' = 2 * (Deadline + 1 - idle'[m]) + 2
      BY <2>1, <2>2 DEF PassesLeft
    <3>3. PassesLeft(m)' < PassesLeft(m)
      BY <1>1, <3>1, <3>2
    <3>4. QED
      BY <2>1, <2>2, <3>3
  <2>4. CASE pipes[m] \cap open # {}
    BY <1>2, <2>1, <2>2, <2>4 DEF FindsPipe
  <2>5. QED
    BY <2>3, <2>4
<1>3. CASE StayAlive(m)
  <2>1. /\ mgr[m] = "decide" /\ mgr'[m] = "prune" /\ m <= made /\ made' = made
        /\ idle' = idle /\ \A n \in Mux \ {m} : mgr'[n] = mgr[n]
    BY <1>1, <1>3 DEF StayAlive, acceptVars
  <2>2. /\ PassesLeft(m) = 2 * (Deadline + 1 - idle[m]) + 2
        /\ PassesLeft(m)' = 2 * (Deadline + 1 - idle[m]) + 1
    BY <2>1 DEF PassesLeft
  <2>3. PassesLeft(m)' < PassesLeft(m)
    BY <1>1, <2>2
  <2>4. QED
    BY <2>1, <2>3
<1>4. CASE DeclareDead(m)
  <2>1. /\ mgr[m] = "decide" /\ mgr'[m] = "done" /\ m <= made /\ made' = made
        /\ idle' = idle /\ idle[m] > Deadline /\ \A n \in Mux \ {m} : mgr'[n] = mgr[n]
    BY <1>1, <1>4 DEF DeclareDead, acceptVars
  <2>2. PassesLeft(m)' = 0 /\ PassesLeft(m) = 2 * (Deadline + 1 - idle[m]) + 2
    BY <2>1 DEF PassesLeft
  <2>3. PassesLeft(m)' < PassesLeft(m) /\ idle[m] = Deadline + 1
    BY <1>1, <2>1, <2>2
  <2>4. QED
    BY <1>4, <2>1, <2>3
<1>5. QED
  BY <1>2, <1>3, <1>4

\* Nobody else touches its account.
LEMMA OthersDoNotCount ==
  ASSUME [Next]_vars,
         ~\E m \in Mux : Prune(m) \/ StayAlive(m) \/ DeclareDead(m)
  PROVE  UNCHANGED <<mgr, idle>>
BY DEF Next, vars, Retain, AcceptPipe, AcceptNew, AcceptKnown, AcceptStale, ClosePipe, Session,
       SessionBails, SessionWaits, SessionAccepts, SessionTimeout, SessionFails, Forward,
       StreamRequest, StreamEnds, ForwardBails, ForwardWaits, ForwardData, sessionVars

\* Each step, as the account of every multiplexer sees it.
LEMMA CountStep == ASSUME TypeInv, [Next]_vars, NEW m \in Mux PROVE PassesCount(m)
<1>1. PassesLeft(m) \in Nat
  BY PassesLeftBounded, SessionsAssumption DEF PassesBounded
<1>2. CASE Prune(m) \/ StayAlive(m) \/ DeclareDead(m)
  <2>1. FindsPipe(m) \/ PassesLeft(m)' < PassesLeft(m)
    BY <1>2, ManagerCounts
  <2>2. FindsPipe(m) => ~StayAlive(m) /\ ~DeclareDead(m)
    BY DEF FindsPipe, Prune, StayAlive, DeclareDead
  <2>3. PassesLeft(m)' \in Int
    <3>1. idle'[m] \in Int /\ Deadline \in Int
      BY TypeStep, SessionsAssumption DEF TypeInv, TypeOK
    <3>2. QED
      BY <3>1 DEF PassesLeft
  <2>4. PassesLeft(m)' < PassesLeft(m) => PassesLeft(m)' <= PassesLeft(m)
    BY <1>1, <2>3
  <2>5. QED
    BY <2>1, <2>2, <2>4 DEF PassesCount
<1>3. CASE ~(Prune(m) \/ StayAlive(m) \/ DeclareDead(m))
  <2>1. mgr'[m] = mgr[m] /\ idle'[m] = idle[m]
    BY <1>3, ManagerCounts, OthersDoNotCount
  <2>2. PassesLeft(m)' = PassesLeft(m)
    BY <2>1 DEF PassesLeft
  <2>3. QED
    BY <1>1, <1>3, <2>2 DEF PassesCount
<1>4. QED
  BY <1>2, <1>3

\* The steps that give away the message, and those that do not.
LEMMA MessageSteps ==
  ASSUME TypeInv, [Next]_vars, NEW m \in Mux
  PROVE  /\ token'[m] => token[m] \/ DeclareDead(m)
         /\ DeclareDead(m) => token'[m] \/ loop'[m] = "done"
         /\ token[m] => token'[m] \/ loop'[m] = "done" \/ StreamBailed(m)' \/ DeclareDead(m)
         /\ loop[m] = "done" => loop'[m] = "done"
         /\ StreamBailed(m) => StreamBailed(m)'
<1>1. /\ token \in [Mux -> BOOLEAN] /\ loop \in [Mux -> {"check", "accept", "done"}]
      /\ stream \in [Stream -> {"none", "request", "forward", "done", "bailed"}]
  BY DEF TypeInv, TypeOK
<1>2. ASSUME token' = token, UNCHANGED streamVars, loop[m] = "done" => loop'[m] = "done",
             ~DeclareDead(m)
      PROVE  /\ token'[m] = token[m] /\ (StreamBailed(m) <=> StreamBailed(m)')
  BY <1>2 DEF StreamBailed, streamVars
<1>3. ASSUME \A s \in Stream : stream[s] = "bailed" => stream'[s] = "bailed" /\ home'[s] = home[s]
      PROVE  StreamBailed(m) => StreamBailed(m)'
  BY <1>3 DEF StreamBailed
<1>4. ASSUME NEW n \in Mux, DeclareDead(n) PROVE
        /\ n = m \/ token'[m] = token[m]
        /\ loop' = loop /\ (StreamBailed(m) <=> StreamBailed(m)')
        /\ n = m => token'[m] \/ loop'[m] = "done"
  <2>1. loop' = loop /\ UNCHANGED streamVars /\ token' = [token EXCEPT ![n] = Listeners(n) # {}]
    BY <1>4 DEF DeclareDead
  <2>2. loop[n] # "done" => n \in Listeners(n)
    BY DEF Listeners
  <2>3. QED
    BY <1>1, <2>1, <2>2 DEF StreamBailed, streamVars
<1>5. ASSUME NEW n \in Mux, SessionBails(n) PROVE
        /\ \/ token'[m] = token[m]
           \/ ~token'[m] /\ loop'[m] = "done"
        /\ loop[m] = "done" => loop'[m] = "done"
        /\ StreamBailed(m) <=> StreamBailed(m)'
  BY <1>1, <1>5 DEF SessionBails, SessionEnds, StreamBailed, streamVars
<1>6. ASSUME NEW s \in Stream, NEW h \in Half, ForwardBails(s, h) PROVE
        /\ \/ token'[m] = token[m]
           \/ ~token'[m] /\ StreamBailed(m)'
        /\ loop' = loop
        /\ StreamBailed(m) => StreamBailed(m)'
  <2>1. /\ token' = [token EXCEPT ![home[s]] = FALSE] /\ loop' = loop /\ home' = home
        /\ stream' = [stream EXCEPT ![s] = "bailed"]
    BY <1>6 DEF ForwardBails
  <2>2. stream'[s] = "bailed" /\ \A t \in Stream : stream[t] = "bailed" => stream'[t] = "bailed"
    BY <1>1, <2>1
  <2>3. CASE home[s] = m
    BY <1>1, <2>1, <2>2, <2>3 DEF StreamBailed
  <2>4. CASE home[s] # m
    BY <1>1, <2>1, <2>2, <2>4 DEF StreamBailed
  <2>5. QED
    BY <2>3, <2>4
<1>7. ASSUME token' = token, loop[m] = "done" => loop'[m] = "done",
             \A s \in Stream : stream[s] = "bailed" => stream'[s] = "bailed" /\ home'[s] = home[s],
             ~DeclareDead(m)
      PROVE  /\ token'[m] => token[m] \/ DeclareDead(m)
             /\ DeclareDead(m) => token'[m] \/ loop'[m] = "done"
             /\ token[m] => token'[m] \/ loop'[m] = "done" \/ StreamBailed(m)' \/ DeclareDead(m)
             /\ loop[m] = "done" => loop'[m] = "done"
             /\ StreamBailed(m) => StreamBailed(m)'
  BY <1>3, <1>7
<1>8. CASE \/ UNCHANGED vars
           \/ Retain
           \/ \E c \in Client, p \in Pipe : AcceptPipe(c, p)
           \/ \E p \in Pipe : ClosePipe(p)
  <2>1. UNCHANGED <<sessionVars, streamVars>>
    BY <1>8 DEF vars, Retain, AcceptPipe, AcceptNew, AcceptKnown, AcceptStale, ClosePipe
  <2>2. ~DeclareDead(m)
    BY <1>1, <2>1 DEF DeclareDead, sessionVars, TypeInv, TypeOK
  <2>3. QED
    BY <1>7, <2>1, <2>2 DEF sessionVars, streamVars
<1>9. ASSUME NEW n \in Mux, \/ Prune(n) \/ StayAlive(n) \/ SessionWaits(n) \/ SessionTimeout(n)
                            \/ SessionFails(n) \/ \E s \in Stream : SessionAccepts(n, s),
             ~DeclareDead(m)
      PROVE  /\ token' = token /\ (loop[m] = "done" => loop'[m] = "done")
             /\ \A s \in Stream : stream[s] = "bailed" => stream'[s] = "bailed" /\ home'[s] = home[s]
  BY <1>1, <1>9 DEF Prune, StayAlive, SessionWaits, SessionTimeout, SessionFails, SessionEnds,
                    SessionAccepts, streamVars, TypeInv, TypeOK
<1>10. ASSUME NEW s \in Stream, \/ StreamRequest(s) \/ StreamEnds(s)
                                \/ \E h \in Half : ForwardWaits(s, h) \/ ForwardData(s, h),
              ~DeclareDead(m)
       PROVE  /\ token' = token /\ (loop[m] = "done" => loop'[m] = "done")
              /\ \A t \in Stream : stream[t] = "bailed" => stream'[t] = "bailed" /\ home'[t] = home[t]
  BY <1>1, <1>10 DEF StreamRequest, StreamEnds, ForwardWaits, ForwardData, sessionVars
<1>11. CASE DeclareDead(m)
  BY <1>4, <1>11
<1>12. CASE ~DeclareDead(m)
  <2>1. CASE \E n \in Mux : DeclareDead(n)
    BY <1>4, <1>12, <2>1
  <2>2. CASE \E n \in Mux : SessionBails(n)
    BY <1>5, <1>12, <2>2
  <2>3. CASE \E s \in Stream, h \in Half : ForwardBails(s, h)
    BY <1>6, <1>12, <2>3
  <2>4. QED
    BY <1>7, <1>8, <1>9, <1>10, <1>12, <2>1, <2>2, <2>3 DEF Next, Session, Forward
<1>13. QED
  BY <1>11, <1>12

LEMMA DeadlineStep == ASSUME TypeInv, DeadlineInv, [Next]_vars PROVE DeadlineInv'
<1>1. \A m \in Mux : m <= made => m <= made'
  BY DEF Next, vars, acceptVars, Retain, AcceptPipe, AcceptNew, AcceptKnown, AcceptStale,
         ClosePipe, Session, Prune, StayAlive, DeclareDead, SessionBails, SessionWaits,
         SessionAccepts, SessionTimeout, SessionFails, Forward, StreamRequest, StreamEnds,
         ForwardBails, ForwardWaits, ForwardData, TypeInv, TypeOK, Mux
<1>2. ASSUME NEW m \in Mux
      PROVE  \/ DeclareDead(m) /\ m <= made /\ mgr'[m] = "done" /\ idle'[m] = Deadline + 1
             \/ ~DeclareDead(m) /\ mgr[m] # "done" /\ mgr'[m] # "done"
             \/ ~DeclareDead(m) /\ mgr[m] = "done" /\ mgr'[m] = "done" /\ idle'[m] = idle[m]
  <2>1. DeclareDead(m) => mgr'[m] = "done" /\ m <= made
    BY DEF DeclareDead, TypeInv, TypeOK
  <2>2. CASE Prune(m) \/ StayAlive(m) \/ DeclareDead(m)
    BY <2>1, <2>2, ManagerCounts
  <2>3. CASE ~(Prune(m) \/ StayAlive(m) \/ DeclareDead(m))
    <3>1. mgr'[m] = mgr[m] /\ idle'[m] = idle[m]
      BY <2>3, ManagerCounts, OthersDoNotCount
    <3>2. QED
      BY <2>3, <3>1
  <2>4. QED
    BY <2>2, <2>3
<1>3. ASSUME NEW m \in Mux, token'[m] \/ mgr'[m] = "done"
      PROVE  m <= made' /\ mgr'[m] = "done" /\ idle'[m] = Deadline + 1
  <2>1. CASE DeclareDead(m)
    BY <1>1, <1>2, <2>1
  <2>2. CASE ~DeclareDead(m)
    <3>1. token[m] \/ mgr[m] = "done"
      BY <1>2, <1>3, <2>2, MessageSteps
    <3>2. m <= made /\ mgr[m] = "done" /\ idle[m] = Deadline + 1
      BY <3>1 DEF DeadlineInv, OnlyIdleGivenUp
    <3>3. QED
      BY <1>1, <1>2, <2>2, <3>2
  <2>3. QED
    BY <2>1, <2>2
<1>4. ASSUME NEW m \in Mux, mgr'[m] = "done"
      PROVE  token'[m] \/ loop'[m] = "done" \/ StreamBailed(m)'
  <2>1. CASE DeclareDead(m)
    BY <2>1, MessageSteps
  <2>2. CASE ~DeclareDead(m)
    <3>1. mgr[m] = "done" /\ m <= made
      BY <1>2, <1>4, <2>2 DEF DeadlineInv, OnlyIdleGivenUp
    <3>2. token[m] \/ loop[m] = "done" \/ StreamBailed(m)
      BY <3>1 DEF DeadlineInv, DeadlineIsReceived
    <3>3. QED
      BY <2>2, <3>2, MessageSteps
  <2>3. QED
    BY <2>1, <2>2
<1>5. OnlyIdleGivenUp'
  BY <1>3 DEF OnlyIdleGivenUp
<1>6. DeadlineIsReceived'
  BY <1>4 DEF DeadlineIsReceived
<1>7. QED
  BY <1>5, <1>6 DEF DeadlineInv

(* The deadline of a session: given up by its pipe manager and by nothing  *)
(* else, never before Deadline seconds without an open pipe; and then the  *)
(* one message is not lost, whatever the session loop and the forwarding   *)
(* loops do at the time: it waits to be received, or has ended the session *)
(* loop, or has ended a stream.                                            *)
THEOREM DeadlineCorrect == Spec => []OnlyIdleGivenUp /\ []DeadlineIsReceived
<1>1. Init => DeadlineInv
  <2>1. Init => \A m \in Mux : ~token[m] /\ mgr[m] # "done"
    BY DEF Init
  <2>2. QED
    BY <2>1 DEF DeadlineInv, OnlyIdleGivenUp, DeadlineIsReceived
<1>2. SessionInv => TypeInv
  BY DEF SessionInv
<1>3. TypeInv /\ DeadlineInv /\ [Next]_vars => DeadlineInv'
  BY DeadlineStep
<1>4. DeadlineInv => OnlyIdleGivenUp /\ DeadlineIsReceived
  BY DEF DeadlineInv
<1>5. QED
  BY <1>1, <1>2, <1>3, <1>4, SessionsInv, PTL DEF Spec

(* A session without a pipe is a bounded number of passes from its end:    *)
(* each pass of its pipe manager takes one, and only a pass that finds an  *)
(* open pipe gives any back; a pipe that came and went in between does     *)
(* not, and no step of a session loop, a stream or another session does.   *)
THEOREM IdleIsGivenUpCorrect == Spec => []PassesBounded /\ IdleIsGivenUp
<1>1. SessionInv => TypeInv
  BY DEF SessionInv
<1>2. TypeInv /\ [Next]_vars => [\A m \in Mux : PassesCount(m)]_vars
  BY CountStep
<1>3. QED
  BY <1>1, <1>2, PassesLeftBounded, SessionsInv, PTL DEF Spec, IdleIsGivenUp
=============================================================================
