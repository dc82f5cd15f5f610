---------------------------- MODULE WsocksClient ----------------------------
(***************************************************************************)
(* The wsocks client (src/src/bin.todo/wsocks.rs): the pipe manager that   *)
(* keeps remote_pipes_max pipes to the server in one multiplexer, the two  *)
(* local proxies (SOCKS and HTTP) with a handler per connection, and the   *)
(* request loop with a task per request, which opens a relconn and waits   *)
(* for the server's TcpOffer.                                              *)
(*                                                                         *)
(* A handler and its request task share a channel: resp_tx travels with    *)
(* the request, and the handler learns of a failed task only because the   *)
(* task drops it.  The multiplexer and the server are external: a relconn  *)
(* makes progress only through an open pipe, and may fail at any time.     *)
(***************************************************************************)
EXTENDS Integers, Sequences, FiniteSets

CONSTANTS Request,    \* local connections, each with one request
          Http,       \* those made to the HTTP proxy; the others are SOCKS
          Pipe,       \* pipes, each used once
          PipesMax    \* remote_pipes_max

ASSUME ClientAssumption == Http \subseteq Request /\ PipesMax \in Nat

VARIABLES
  mgr,       \* the pipe manager: about to "prune", "dial" or "upgrade" a
             \* connection, or asleep ("rest")
  pipes,     \* pipes in the multiplexer
  open,      \* those of all pipes that are not closed
  used,      \* pipes connected so far
  proxy,     \* the proxies whose accept loops run
  handler,   \* each connection: "new", "parse", "await" an offer, "forward", "done"
  reqq,      \* the requests in the channel to the request loop
  task,      \* each request's task: "none", "open" a relconn, await the "offer"; "done"
  resp,      \* what it sent to the handler: "none", "ok", "error"
  told       \* what the application has been told: "nothing", "granted", "refused"

pipeVars == <<mgr, pipes, open, used>>
vars     == <<pipeVars, proxy, handler, reqq, task, resp, told>>

ProxyOf(r) == IF r \in Http THEN "http" ELSE "socks"

Init == /\ mgr = "prune" /\ pipes = {} /\ open = {} /\ used = {}
        /\ proxy = {"http", "socks"}
        /\ handler = [r \in Request |-> "new"]
        /\ reqq = <<>>
        /\ task = [r \in Request |-> "none"]
        /\ resp = [r \in Request |-> "none"]
        /\ told = [r \in Request |-> "nothing"]

-----------------------------------------------------------------------------
(* pipemgr_fut, and ObfsWsPipe::connect within it.                         *)

EnoughTooLate(ps) == Cardinality(ps) > PipesMax
Enough(ps) == Cardinality(ps) >= PipesMax

Prune == /\ mgr = "prune"
         /\ pipes' = pipes \cap open
         /\ mgr' = IF Enough(pipes') THEN "rest" ELSE "dial"
         /\ UNCHANGED <<open, used, proxy, handler, reqq, task, resp, told>>

\* The URL is parsed and the TCP connection made.
Dial == /\ mgr = "dial"
        /\ mgr' = "upgrade"
        /\ UNCHANGED <<pipes, open, used, proxy, handler, reqq, task, resp, told>>

\* The websocket handshake, ObfsWsPipe::new and add_pipe.
Upgrade(p) == /\ mgr = "upgrade" /\ p \notin used
              /\ pipes' = pipes \cup {p} /\ open' = open \cup {p} /\ used' = used \cup {p}
              /\ mgr' = "prune"
              /\ UNCHANGED <<proxy, handler, reqq, task, resp, told>>

ConnectFails == /\ mgr \in {"dial", "upgrade"}
                /\ mgr' = "rest"
                /\ UNCHANGED <<pipes, open, used, proxy, handler, reqq, task, resp, told>>

\* The sleep ends: one second with enough pipes, three after a failure.
RestedUntilFirstFilled == /\ mgr = "rest" /\ Cardinality(used) < PipesMax
                          /\ mgr' = "prune"
                          /\ UNCHANGED <<pipes, open, used, proxy, handler, reqq, task, resp, told>>
Rested == /\ mgr = "rest"
          /\ mgr' = "prune"
          /\ UNCHANGED <<pipes, open, used, proxy, handler, reqq, task, resp, told>>

ClosePipe(p) == /\ p \in open
                /\ open' = open \ {p}
                /\ UNCHANGED <<mgr, pipes, used, proxy, handler, reqq, task, resp, told>>

-----------------------------------------------------------------------------
(* socks_fut and http_fut: the accept loops, and the handler of request r. *)

Arrive(r) == /\ handler[r] = "new" /\ ProxyOf(r) \in proxy
             /\ handler' = [handler EXCEPT ![r] = "parse"]
             /\ UNCHANGED <<pipeVars, proxy, reqq, task, resp, told>>

\* An accept error ends the proxy for good; the rest of the client runs on.
ProxyEnds(x) == /\ x \in proxy
                /\ proxy' = proxy \ {x}
                /\ UNCHANGED <<pipeVars, handler, reqq, task, resp, told>>

\* The application sends something else than a proxy request, or goes away;
\* an HTTP request other than CONNECT is answered 400.
ParseFails(r) == /\ handler[r] = "parse"
                 /\ handler' = [handler EXCEPT ![r] = "done"]
                 /\ \/ UNCHANGED told
                    \/ r \in Http /\ told' = [told EXCEPT ![r] = "refused"]
                 /\ UNCHANGED <<pipeVars, proxy, reqq, task, resp>>

SubmitTwice(r) == /\ handler[r] = "parse"
                  /\ handler' = [handler EXCEPT ![r] = "await"]
                  /\ reqq' = reqq \o <<r, r>>
                  /\ UNCHANGED <<pipeVars, proxy, task, resp, told>>
Submit(r) == /\ handler[r] = "parse"
             /\ handler' = [handler EXCEPT ![r] = "await"]
             /\ reqq' = Append(reqq, r)
             /\ UNCHANGED <<pipeVars, proxy, task, resp, told>>

\* The offer is Ok: the application is told, and its traffic forwarded.
Granted(r) == /\ handler[r] = "await" /\ resp[r] = "ok"
              /\ handler' = [handler EXCEPT ![r] = "forward"]
              /\ told' = [told EXCEPT ![r] = "granted"]
              /\ UNCHANGED <<pipeVars, proxy, reqq, task, resp>>

\* The offer is an error: SOCKS reports it; HTTP has a todo!(), which panics.
Refused(r) == /\ handler[r] = "await" /\ resp[r] = "error"
              /\ handler' = [handler EXCEPT ![r] = "done"]
              /\ told' = IF r \in Http THEN told ELSE [told EXCEPT ![r] = "refused"]
              /\ UNCHANGED <<pipeVars, proxy, reqq, task, resp>>

\* The request task has dropped resp_tx: the connection is dropped.
AbandonedUnseen(r) == handler[r] = "await" /\ UNCHANGED vars
Abandoned(r) == /\ handler[r] = "await" /\ task[r] = "done" /\ resp[r] = "none"
                /\ handler' = [handler EXCEPT ![r] = "done"]
                /\ UNCHANGED <<pipeVars, proxy, reqq, task, resp, told>>

\* The application cannot be written to.
WriteFails(r) == /\ handler[r] = "await" /\ resp[r] # "none"
                 /\ handler' = [handler EXCEPT ![r] = "done"]
                 /\ UNCHANGED <<pipeVars, proxy, reqq, task, resp, told>>

ForwardEnds(r) == /\ handler[r] = "forward"
                  /\ handler' = [handler EXCEPT ![r] = "done"]
                  /\ UNCHANGED <<pipeVars, proxy, reqq, task, resp, told>>

-----------------------------------------------------------------------------
(* request_fut: the request loop, and the task of request r.               *)

TakeRequest == /\ reqq # <<>>
               /\ reqq' = Tail(reqq)
               /\ task' = [task EXCEPT ![Head(reqq)] = "open"]
               /\ UNCHANGED <<pipeVars, proxy, handler, resp, told>>

Connected == pipes \cap open # {}

\* open_conn returns a relconn and the request is sent on it.
OpenConn(r) == /\ task[r] = "open" /\ Connected
               /\ task' = [task EXCEPT ![r] = "offer"]
               /\ UNCHANGED <<pipeVars, proxy, handler, reqq, resp, told>>

\* The server's TcpOffer is passed to the handler.
Offer(r, answer) == /\ task[r] = "offer" /\ Connected
                    /\ resp' = [resp EXCEPT ![r] = answer]
                    /\ task' = [task EXCEPT ![r] = "done"]
                    /\ UNCHANGED <<pipeVars, proxy, handler, reqq, told>>

\* The relconn fails, or the answer is another frame: resp_tx is dropped.
TaskFails(r) == /\ task[r] \in {"open", "offer"}
                /\ task' = [task EXCEPT ![r] = "done"]
                /\ UNCHANGED <<pipeVars, proxy, handler, reqq, resp, told>>

-----------------------------------------------------------------------------
Manager == Prune \/ Dial \/ ConnectFails \/ Rested \/ \E p \in Pipe : Upgrade(p)

Handler(r) == \/ Arrive(r) \/ ParseFails(r) \/ Submit(r) \/ ForwardEnds(r)
              \/ Granted(r) \/ Refused(r) \/ Abandoned(r) \/ WriteFails(r)

Task(r) == OpenConn(r) \/ TaskFails(r) \/ \E answer \in {"ok", "error"} : Offer(r, answer)

Next == \/ Manager \/ TakeRequest
        \/ \E p \in Pipe : ClosePipe(p)
        \/ \E x \in {"http", "socks"} : ProxyEnds(x)
        \/ \E r \in Request : Handler(r) \/ Task(r)

Spec == Init /\ [][Next]_vars

(* The executor runs the client's tasks.  A connection attempt returns (TCP*)
(* gives up in the end; a server that answers the connection and then not  *)
(* the handshake would break this), and so does a call on a relconn that   *)
(* has a pipe.                                                             *)
Fairness == /\ WF_vars(Prune) /\ WF_vars(Rested)
            /\ WF_vars(Dial \/ ConnectFails \/ \E p \in Pipe : Upgrade(p))
            /\ WF_vars(TakeRequest)
            /\ \A r \in Request :
                 /\ WF_vars(Granted(r) \/ Refused(r) \/ WriteFails(r))
                 /\ WF_vars(Abandoned(r))
                 /\ WF_vars(OpenConn(r))
                 /\ WF_vars(\E answer \in {"ok", "error"} : Offer(r, answer))

FairSpec == Spec /\ Fairness

-----------------------------------------------------------------------------
(* Properties.                                                             *)

TypeOK == /\ mgr \in {"prune", "dial", "upgrade", "rest"}
          /\ pipes \subseteq used /\ open \subseteq used /\ used \subseteq Pipe
          /\ proxy \subseteq {"http", "socks"}
          /\ handler \in [Request -> {"new", "parse", "await", "forward", "done"}]
          /\ reqq \in Seq(Request)
          /\ \A i, j \in DOMAIN reqq : reqq[i] = reqq[j] => i = j
          /\ task \in [Request -> {"none", "open", "offer", "done"}]
          /\ resp \in [Request -> {"none", "ok", "error"}]
          /\ told \in [Request -> {"nothing", "granted", "refused"}]

(* remote_pipes_max is "the max limit of opened websocket connection":     *)
(* however pipes close and attempts to connect end, the client has no more *)
(* than that, and none that its multiplexer does not know.                 *)
PipesAreLimited == open \subseteq pipes /\ Cardinality(pipes) <= PipesMax

(* Each request is settled: if the client has a pipe from some time on, or *)
(* the relconn fails, no handler waits for ever.                           *)
RequestIsSettled ==
  <>[]Connected => \A r \in Request : (handler[r] = "await") ~> (handler[r] # "await")

(* However often the client had its pipes and lost them again: when        *)
(* connecting works from some time on and pipes stop closing, it comes to  *)
(* have all the pipes it wants and keeps them (or has used up the bound on *)
(* pipes).                                                                 *)
PipesAreRestored ==
  <>[][mgr' # "rest" \/ Enough(pipes')]_vars /\ <>[][open \subseteq open']_vars
    => <>[](Cardinality(pipes \cap open) = PipesMax) \/ <>(used = Pipe)
=============================================================================
