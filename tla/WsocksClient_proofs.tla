------------------------ MODULE WsocksClient_proofs ------------------------
(***************************************************************************)
(* That the wsocks client keeps to its limit of pipes, and that every      *)
(* request is answered for, whatever the limit, the requests and the pipes.*)
(***************************************************************************)
EXTENDS WsocksClient, FiniteSetTheorems, TLAPS

\* The manager connects only when there is room, and nobody else adds a pipe.
LimitInv == /\ PipesAreLimited
            /\ IsFiniteSet(pipes)
            /\ mgr \in {"dial", "upgrade"} => Cardinality(pipes) < PipesMax

\* The sizes of what Prune leaves and of what Upgrade makes.
LEMMA PipeCount ==
  ASSUME NEW S, IsFiniteSet(S)
  PROVE  /\ Cardinality(S) \in Nat
         /\ \A T : IsFiniteSet(S \cap T) /\ Cardinality(S \cap T) <= Cardinality(S)
         /\ \A p : /\ IsFiniteSet(S \cup {p})
                   /\ Cardinality(S \cup {p}) <= Cardinality(S) + 1
<1>1. Cardinality(S) \in Nat
  BY FS_CardinalityType
<1>2. ASSUME NEW T PROVE IsFiniteSet(S \cap T) /\ Cardinality(S \cap T) <= Cardinality(S)
  <2>1. S \cap T \subseteq S
    OBVIOUS
  <2>2. QED
    BY <2>1, FS_Subset
<1>3. ASSUME NEW p
      PROVE  IsFiniteSet(S \cup {p}) /\ Cardinality(S \cup {p}) <= Cardinality(S) + 1
  <2>1. /\ IsFiniteSet(S \cup {p})
        /\ Cardinality(S \cup {p}) = IF p \in S THEN Cardinality(S) ELSE Cardinality(S) + 1
    BY FS_AddElement
  <2>2. QED
    BY <1>1, <2>1
<1>4. QED
  BY <1>1, <1>2, <1>3

\* The limit holds when the client starts.
LEMMA LimitInit == ASSUME Init PROVE LimitInv
<1>1. IsFiniteSet({}) /\ Cardinality({}) = 0
  BY FS_EmptySet
<1>2. QED
  BY <1>1, ClientAssumption DEF Init, LimitInv, PipesAreLimited

\* A pass of the pipe manager, which counts what the pruning has left.
LEMMA PruneKeepsLimit == ASSUME LimitInv, Prune PROVE LimitInv'
<1>1. /\ pipes' = pipes \cap open /\ open' = open
      /\ mgr' = IF Cardinality(pipes') >= PipesMax THEN "rest" ELSE "dial"
  BY DEF Prune, Enough
<1>2. /\ IsFiniteSet(pipes') /\ Cardinality(pipes') <= Cardinality(pipes)
      /\ Cardinality(pipes) \in Nat /\ Cardinality(pipes') \in Nat
  BY <1>1, PipeCount DEF LimitInv
<1>3. PipesAreLimited'
  BY <1>1, <1>2, ClientAssumption DEF LimitInv, PipesAreLimited
<1>4. mgr' \in {"dial", "upgrade"} => Cardinality(pipes') < PipesMax
  BY <1>1, <1>2, ClientAssumption
<1>5. QED
  BY <1>2, <1>3, <1>4 DEF LimitInv

\* A new pipe.
LEMMA UpgradeKeepsLimit ==
  ASSUME LimitInv, NEW p \in Pipe, Upgrade(p)
  PROVE  LimitInv'
<1>1. /\ mgr = "upgrade" /\ mgr' = "prune"
      /\ pipes' = pipes \cup {p} /\ open' = open \cup {p}
  BY DEF Upgrade
<1>2. /\ IsFiniteSet(pipes') /\ Cardinality(pipes') <= Cardinality(pipes) + 1
      /\ Cardinality(pipes) \in Nat /\ Cardinality(pipes) < PipesMax
      /\ Cardinality(pipes') \in Nat
  BY <1>1, PipeCount DEF LimitInv
<1>3. Cardinality(pipes') <= PipesMax
  BY <1>2, ClientAssumption
<1>4. QED
  BY <1>1, <1>2, <1>3 DEF LimitInv, PipesAreLimited

\* Every step keeps it.
LEMMA LimitStep == ASSUME LimitInv, [Next]_vars PROVE LimitInv'
<1>1. CASE Dial \/ ConnectFails \/ Rested
  BY <1>1 DEF Dial, ConnectFails, Rested, LimitInv, PipesAreLimited
<1>2. ASSUME NEW p \in Pipe, ClosePipe(p) PROVE LimitInv'
  BY <1>2 DEF ClosePipe, LimitInv, PipesAreLimited
<1>3. CASE UNCHANGED pipeVars
  BY <1>3 DEF pipeVars, LimitInv, PipesAreLimited
<1>4. ASSUME NEW r \in Request, Handler(r) \/ Task(r) PROVE UNCHANGED pipeVars
  <2>1. CASE Handler(r)
    BY <2>1 DEF Handler, Arrive, ParseFails, Submit, ForwardEnds, Granted, Refused,
                Abandoned, WriteFails
  <2>2. CASE Task(r)
    BY <2>2 DEF Task, OpenConn, TaskFails, Offer
  <2>3. QED
    BY <1>4, <2>1, <2>2
<1>5. CASE UNCHANGED vars
  BY <1>3, <1>5 DEF vars
<1>6. CASE Manager
  BY <1>1, <1>6, PruneKeepsLimit, UpgradeKeepsLimit DEF Manager
<1>7. CASE TakeRequest \/ \E x \in {"http", "socks"} : ProxyEnds(x)
  BY <1>3, <1>7 DEF TakeRequest, ProxyEnds
<1>8. QED
  BY <1>2, <1>3, <1>4, <1>5, <1>6, <1>7 DEF Next

(* remote_pipes_max is kept, although pipes close while a connection is    *)
(* being made and the manager learns of it only in its next pass.          *)
THEOREM LimitCorrect == Spec => []PipesAreLimited
<1>1. Init => LimitInv
  BY LimitInit
<1>2. LimitInv /\ [Next]_vars => LimitInv'
  BY LimitStep
<1>3. LimitInv => PipesAreLimited
  BY DEF LimitInv
<1>4. QED
  BY <1>1, <1>2, <1>3, PTL DEF Spec

-----------------------------------------------------------------------------
(* Types, and no request queued twice: a request is queued by its handler  *)
(* on the way from "parse" to "await", and a handler never comes back.     *)
TypeInv == /\ TypeOK
           /\ \A i \in DOMAIN reqq : handler[reqq[i]] \notin {"new", "parse"}

\* A step that leaves the queue alone, and takes no handler back.
LEMMA QueueUntouched ==
  ASSUME TypeInv, TypeOK', reqq' = reqq,
         \A r \in Request : handler'[r] \in {"new", "parse"} => handler[r] \in {"new", "parse"}
  PROVE  TypeInv'
BY DEF TypeInv, TypeOK

\* Queueing a request that is not queued yet.
LEMMA QueueGrows ==
  ASSUME NEW q \in Seq(Request), NEW r \in Request, \A i \in DOMAIN q : q[i] # r,
         \A i, j \in DOMAIN q : q[i] = q[j] => i = j
  PROVE  /\ Append(q, r) \in Seq(Request)
         /\ \A i, j \in DOMAIN Append(q, r) : Append(q, r)[i] = Append(q, r)[j] => i = j
         /\ \A i \in DOMAIN Append(q, r) :
              Append(q, r)[i] = r \/ (i \in DOMAIN q /\ Append(q, r)[i] = q[i])
<1> DEFINE a == Append(q, r)
<1>1. a \in Seq(Request) /\ Len(a) = Len(q) + 1 /\ Len(q) \in Nat
  OBVIOUS
<1>2. DOMAIN q = 1..Len(q) /\ DOMAIN a = 1..(Len(q) + 1)
  OBVIOUS
<1>3. (\A i \in 1..Len(q) : a[i] = q[i]) /\ a[Len(q) + 1] = r
  OBVIOUS
<1> HIDE DEF a
<1>4. \A i \in DOMAIN a : (i \in DOMAIN q /\ a[i] = q[i]) \/ (i = Len(q) + 1 /\ a[i] = r)
  <2> SUFFICES ASSUME NEW i \in 1..(Len(q) + 1)
               PROVE  (i \in 1..Len(q) /\ a[i] = q[i]) \/ (i = Len(q) + 1 /\ a[i] = r)
    BY <1>2
  <2>1. i \in 1..Len(q) \/ i = Len(q) + 1
    BY <1>1
  <2>2. QED
    BY <1>3, <2>1
<1>5. ASSUME NEW i \in DOMAIN a, NEW j \in DOMAIN a, a[i] = a[j] PROVE i = j
  <2>1. CASE i \in DOMAIN q /\ a[i] = q[i]
    BY <1>4, <1>5, <2>1
  <2>2. CASE i = Len(q) + 1 /\ a[i] = r
    BY <1>4, <1>5, <2>2
  <2>3. QED
    BY <1>4, <2>1, <2>2
<1>6. QED
  BY <1>1, <1>4, <1>5 DEF a

\* Taking the first one.
LEMMA QueueShrinks ==
  ASSUME NEW q \in Seq(Request), q # <<>>,
         \A i, j \in DOMAIN q : q[i] = q[j] => i = j
  PROVE  /\ Head(q) \in Request /\ Tail(q) \in Seq(Request)
         /\ \A i, j \in DOMAIN Tail(q) : Tail(q)[i] = Tail(q)[j] => i = j
         /\ \A i \in DOMAIN Tail(q) : i + 1 \in DOMAIN q /\ Tail(q)[i] = q[i + 1]
<1> DEFINE t == Tail(q)
<1>1. Head(q) \in Request /\ t \in Seq(Request) /\ Len(q) \in Nat \ {0}
  OBVIOUS
<1>2. DOMAIN q = 1..Len(q) /\ DOMAIN t = 1..(Len(q) - 1)
  OBVIOUS
<1>3. \A i \in 1..(Len(q) - 1) : t[i] = q[i + 1]
  OBVIOUS
<1> HIDE DEF t
<1>4. \A i \in DOMAIN t : i \in Int /\ i + 1 \in DOMAIN q /\ t[i] = q[i + 1]
  BY <1>1, <1>2, <1>3
<1>5. ASSUME NEW i \in DOMAIN t, NEW j \in DOMAIN t, t[i] = t[j] PROVE i = j
  <2>1. i + 1 = j + 1
    BY <1>4, <1>5
  <2>2. QED
    BY <1>4, <2>1
<1>6. QED
  BY <1>1, <1>4, <1>5 DEF t

LEMMA TypeInit == ASSUME Init PROVE TypeInv
BY DEF Init, TypeInv, TypeOK

\* The pipe manager, and the end of a pipe.
LEMMA PipesKeepTypes ==
  ASSUME TypeInv, Manager \/ \E p \in Pipe : ClosePipe(p)
  PROVE  TypeInv'
<1>1. UNCHANGED <<proxy, handler, reqq, task, resp, told>>
  BY DEF Manager, Prune, Dial, ConnectFails, Rested, Upgrade, ClosePipe
<1>2. /\ mgr' \in {"prune", "dial", "upgrade", "rest"}
      /\ pipes' \subseteq used' /\ open' \subseteq used' /\ used' \subseteq Pipe
  BY DEF Manager, Prune, Dial, ConnectFails, Rested, Upgrade, ClosePipe, TypeInv, TypeOK
<1>3. TypeOK'
  BY <1>1, <1>2 DEF TypeInv, TypeOK
<1>4. QED
  BY <1>1, <1>3, QueueUntouched

\* The handler of a connection queues its request once.
LEMMA SubmitKeepsTypes ==
  ASSUME TypeInv, NEW r \in Request, Submit(r)
  PROVE  TypeInv'
<1>1. /\ handler[r] = "parse" /\ handler' = [handler EXCEPT ![r] = "await"]
      /\ reqq' = Append(reqq, r)
      /\ UNCHANGED <<pipeVars, proxy, task, resp, told>>
  BY DEF Submit
<1>2. \A i \in DOMAIN reqq : reqq[i] # r
  BY <1>1 DEF TypeInv
<1>3. /\ reqq' \in Seq(Request)
      /\ \A i, j \in DOMAIN reqq' : reqq'[i] = reqq'[j] => i = j
      /\ \A i \in DOMAIN reqq' : reqq'[i] = r \/ (i \in DOMAIN reqq /\ reqq'[i] = reqq[i])
  BY <1>1, <1>2, QueueGrows DEF TypeInv, TypeOK
<1>4. /\ handler' \in [Request -> {"new", "parse", "await", "forward", "done"}]
      /\ handler'[r] = "await" /\ \A x \in Request : x # r => handler'[x] = handler[x]
  BY <1>1 DEF TypeInv, TypeOK
<1>5. TypeOK'
  BY <1>1, <1>3, <1>4 DEF TypeInv, TypeOK, pipeVars
<1>6. \A i \in DOMAIN reqq : reqq[i] \in Request
  BY DEF TypeInv, TypeOK
<1>7. \A i \in DOMAIN reqq' : handler'[reqq'[i]] \notin {"new", "parse"}
  BY <1>2, <1>3, <1>4, <1>6 DEF TypeInv
<1>8. QED
  BY <1>5, <1>7 DEF TypeInv

LEMMA HandlersKeepTypes ==
  ASSUME TypeInv, NEW r \in Request, Handler(r)
  PROVE  TypeInv'
<1>1. CASE Submit(r)
  BY <1>1, SubmitKeepsTypes
<1>2. CASE ~Submit(r)
  <2>1. UNCHANGED <<pipeVars, proxy, reqq, task, resp>>
    BY <1>2 DEF Handler, Arrive, ParseFails, ForwardEnds, Granted, Refused, Abandoned, WriteFails
  <2>2. /\ handler' \in [Request -> {"new", "parse", "await", "forward", "done"}]
        /\ told' \in [Request -> {"nothing", "granted", "refused"}]
    BY <1>2 DEF Handler, Arrive, ParseFails, ForwardEnds, Granted, Refused, Abandoned, WriteFails,
                TypeInv, TypeOK
  <2>3. \A x \in Request : handler'[x] \in {"new", "parse"} => handler[x] \in {"new", "parse"}
    BY <1>2 DEF Handler, Arrive, ParseFails, ForwardEnds, Granted, Refused, Abandoned, WriteFails,
                TypeInv, TypeOK
  <2>4. TypeOK'
    BY <2>1, <2>2 DEF TypeInv, TypeOK, pipeVars
  <2>5. QED
    BY <2>1, <2>3, <2>4, QueueUntouched
<1>3. QED
  BY <1>1, <1>2

LEMMA TakeKeepsTypes == ASSUME TypeInv, TakeRequest PROVE TypeInv'
<1>1. /\ reqq # <<>> /\ reqq' = Tail(reqq) /\ task' = [task EXCEPT ![Head(reqq)] = "open"]
      /\ UNCHANGED <<pipeVars, proxy, handler, resp, told>>
  BY DEF TakeRequest
<1>2. /\ Head(reqq) \in Request /\ reqq' \in Seq(Request)
      /\ \A i, j \in DOMAIN reqq' : reqq'[i] = reqq'[j] => i = j
      /\ \A i \in DOMAIN reqq' : i + 1 \in DOMAIN reqq /\ reqq'[i] = reqq[i + 1]
  BY <1>1, QueueShrinks DEF TypeInv, TypeOK
<1>3. task' \in [Request -> {"none", "open", "offer", "done"}]
  BY <1>1, <1>2 DEF TypeInv, TypeOK
<1>4. TypeOK'
  BY <1>1, <1>2, <1>3 DEF TypeInv, TypeOK, pipeVars
<1>5. QED
  BY <1>1, <1>2, <1>4 DEF TypeInv

LEMMA TasksKeepTypes ==
  ASSUME TypeInv, NEW r \in Request, Task(r)
  PROVE  TypeInv'
<1>1. UNCHANGED <<pipeVars, proxy, handler, reqq, told>>
  BY DEF Task, OpenConn, TaskFails, Offer
<1>2. /\ task' \in [Request -> {"none", "open", "offer", "done"}]
      /\ resp' \in [Request -> {"none", "ok", "error"}]
  BY DEF Task, OpenConn, TaskFails, Offer, TypeInv, TypeOK
<1>3. TypeOK'
  BY <1>1, <1>2 DEF TypeInv, TypeOK, pipeVars
<1>4. QED
  BY <1>1, <1>3, QueueUntouched

LEMMA TypeStep == ASSUME TypeInv, [Next]_vars PROVE TypeInv'
<1>1. ASSUME NEW x \in {"http", "socks"}, ProxyEnds(x) PROVE TypeInv'
  <2>1. UNCHANGED <<pipeVars, handler, reqq, task, resp, told>> /\ proxy' \subseteq proxy
    BY <1>1 DEF ProxyEnds
  <2>2. TypeOK'
    BY <2>1 DEF TypeInv, TypeOK, pipeVars
  <2>3. QED
    BY <2>1, <2>2, QueueUntouched
<1>2. CASE UNCHANGED vars
  BY <1>2 DEF vars, pipeVars, TypeInv, TypeOK
<1>3. QED
  BY <1>1, <1>2, PipesKeepTypes, HandlersKeepTypes, TakeKeepsTypes, TasksKeepTypes DEF Next

(* Types of the client, and the request loop's channel holds no request    *)
(* twice, so that a handler is never answered for by two tasks.            *)
THEOREM ClientTypeCorrect == Spec => []TypeOK
<1>1. Init => TypeInv
  BY TypeInit
<1>2. TypeInv /\ [Next]_vars => TypeInv'
  BY TypeStep
<1>3. TypeInv => TypeOK
  BY DEF TypeInv
<1>4. QED
  BY <1>1, <1>2, <1>3, PTL DEF Spec
-----------------------------------------------------------------------------
(* What becomes of a request.                                              *)

In(r, q) == \E i \in DOMAIN q : q[i] = r

\* A handler that waits has its request in the channel, or a task at it, or a
\* task that is done; and nobody is at the request of a handler that does not.
Owed(r) == /\ In(r, reqq) <=> handler[r] = "await" /\ task[r] = "none"
           /\ task[r] \in {"open", "offer"} => handler[r] = "await"
           /\ task[r] = "done" => handler[r] \in {"await", "forward", "done"}
           /\ resp[r] # "none" => task[r] = "done"

AnswerIsOwed == \A r \in Request : Owed(r)

\* What an application is told is what the server answered, or that the HTTP
\* proxy has no use for its request.
Truth(r) == /\ handler[r] = "forward" => told[r] = "granted"
            /\ told[r] = "granted" => resp[r] = "ok" /\ handler[r] \in {"forward", "done"}
            /\ told[r] = "refused" => /\ handler[r] = "done"
                                      /\ resp[r] = "error" \/ (r \in Http /\ task[r] = "none")

ToldTruly == \A r \in Request : Truth(r)

\* A request is taken on once, answered once, and its application told once.
AnsweredOnce ==
  [][\A r \in Request :
       /\ task[r] = "done" => task[r]' = "done" /\ resp[r]' = resp[r]
       /\ told[r] # "nothing" => told[r]' = told[r]
       /\ handler[r] = "done" => handler[r]' = "done"]_vars

RequestInv == TypeInv /\ AnswerIsOwed /\ ToldTruly

\* What is in the channel behind a submission, and behind the loop's recv.
LEMMA QueueMembers ==
  ASSUME NEW q \in Seq(Request), \A i, j \in DOMAIN q : q[i] = q[j] => i = j
  PROVE  /\ \A r \in Request : \A x : In(x, Append(q, r)) <=> In(x, q) \/ x = r
         /\ q # <<>> => \A x : In(x, Tail(q)) <=> In(x, q) /\ x # Head(q)
<1>1. Len(q) \in Nat /\ DOMAIN q = 1..Len(q)
  OBVIOUS
<1>2. ASSUME NEW r \in Request, NEW x PROVE In(x, Append(q, r)) <=> In(x, q) \/ x = r
  <2> DEFINE a == Append(q, r)
  <2>1. /\ DOMAIN a = 1..(Len(q) + 1)
        /\ (\A i \in 1..Len(q) : a[i] = q[i]) /\ a[Len(q) + 1] = r
    OBVIOUS
  <2> HIDE DEF a
  <2>2. ASSUME In(x, a) PROVE In(x, q) \/ x = r
    <3>1. PICK i \in 1..(Len(q) + 1) : a[i] = x
      BY <2>1, <2>2 DEF In
    <3>2. i \in 1..Len(q) \/ i = Len(q) + 1
      BY <1>1
    <3>3. QED
      BY <1>1, <2>1, <3>1, <3>2 DEF In
  <2>3. ASSUME In(x, q) PROVE In(x, a)
    <3>1. PICK i \in 1..Len(q) : q[i] = x
      BY <1>1, <2>3 DEF In
    <3>2. i \in 1..(Len(q) + 1) /\ a[i] = x
      BY <1>1, <2>1, <3>1
    <3>3. QED
      BY <2>1, <3>2 DEF In
  <2>4. In(r, a)
    <3>1. Len(q) + 1 \in 1..(Len(q) + 1)
      BY <1>1
    <3>2. QED
      BY <2>1, <3>1 DEF In
  <2>5. QED
    BY <2>2, <2>3, <2>4 DEF a
<1>3. ASSUME q # <<>>, NEW x PROVE In(x, Tail(q)) <=> In(x, q) /\ x # Head(q)
  <2> DEFINE t == Tail(q)
  <2>1. /\ DOMAIN t = 1..(Len(q) - 1) /\ Head(q) = q[1] /\ Len(q) >= 1
        /\ \A i \in 1..(Len(q) - 1) : t[i] = q[i + 1]
    BY <1>3
  <2> HIDE DEF t
  <2>2. ASSUME In(x, t) PROVE In(x, q) /\ x # Head(q)
    <3>1. PICK i \in 1..(Len(q) - 1) : t[i] = x
      BY <2>1, <2>2 DEF In
    <3>2. i + 1 \in 1..Len(q) /\ 1 \in 1..Len(q) /\ i + 1 # 1 /\ q[i + 1] = x
      BY <1>1, <2>1, <3>1
    <3>3. QED
      BY <1>1, <2>1, <3>2 DEF In
  <2>3. ASSUME In(x, q), x # Head(q) PROVE In(x, t)
    <3>1. PICK i \in 1..Len(q) : q[i] = x
      BY <1>1, <2>3 DEF In
    <3>2. i # 1
      BY <2>1, <2>3, <3>1
    <3>3. i - 1 \in 1..(Len(q) - 1) /\ (i - 1) + 1 = i
      BY <1>1, <3>2
    <3>4. t[i - 1] = x
      BY <2>1, <3>1, <3>3
    <3>5. QED
      BY <2>1, <3>3, <3>4 DEF In
  <2>4. QED
    BY <2>2, <2>3 DEF t
<1>4. QED
  BY <1>2, <1>3

LEMMA RequestInit == ASSUME Init PROVE RequestInv
<1>1. \A r \in Request : ~In(r, reqq)
  BY DEF Init, In
<1>2. QED
  BY <1>1, TypeInit DEF Init, RequestInv, AnswerIsOwed, Owed, ToldTruly, Truth

\* What a step keeps for one request.
Kept(r) == Owed(r)' /\ Truth(r)'
Once(r) == /\ task[r] = "done" => task[r]' = "done" /\ resp[r]' = resp[r]
           /\ told[r] # "nothing" => told[r]' = told[r]
           /\ handler[r] = "done" => handler[r]' = "done"

\* A step that is not about the request r.
LEMMA RequestUntouched ==
  ASSUME RequestInv, NEW r \in Request, In(r, reqq)' <=> In(r, reqq),
         handler'[r] = handler[r], task'[r] = task[r], resp'[r] = resp[r], told'[r] = told[r]
  PROVE  Kept(r) /\ Once(r)
BY DEF RequestInv, AnswerIsOwed, ToldTruly, Owed, Truth, Kept, Once

LEMMA HandlerSettles ==
  ASSUME RequestInv, NEW x \in Request, Handler(x), NEW r \in Request
  PROVE  Kept(r) /\ Once(r)
<1>1. UNCHANGED <<task, resp>>
  BY DEF Handler, Arrive, ParseFails, Submit, ForwardEnds, Granted, Refused, Abandoned,
         WriteFails
<1>2. TypeOK /\ Owed(r) /\ Truth(r)
  BY DEF RequestInv, TypeInv, AnswerIsOwed, ToldTruly
<1>3. CASE Submit(x)
  <2>1. In(r, reqq)' <=> In(r, reqq) \/ r = x
    <3>1. reqq' = Append(reqq, x) /\ (In(r, reqq)' <=> In(r, reqq'))
      BY <1>3 DEF Submit, In
    <3>2. In(r, Append(reqq, x)) <=> In(r, reqq) \/ r = x
      BY <1>2, QueueMembers DEF TypeOK
    <3>3. QED
      BY <3>1, <3>2
  <2>2. CASE r = x
    <3>1. handler[r] = "parse" /\ handler'[r] = "await" /\ told' = told
      BY <1>2, <1>3, <2>2 DEF Submit, TypeOK
    <3>2. QED
      BY <1>1, <1>2, <2>1, <2>2, <3>1 DEF TypeOK, Owed, Truth, Kept, Once
  <2>3. CASE r # x
    <3>1. handler'[r] = handler[r] /\ told' = told
      BY <1>2, <1>3, <2>3 DEF Submit, TypeOK
    <3>2. QED
      BY <1>1, <2>1, <2>3, <3>1, RequestUntouched
  <2>4. QED
    BY <2>2, <2>3
<1>4. CASE ~Submit(x)
  <2>1. reqq' = reqq /\ (In(r, reqq)' <=> In(r, reqq))
    BY <1>4 DEF Handler, Arrive, ParseFails, ForwardEnds, Granted, Refused, Abandoned,
                WriteFails, In
  <2>2. CASE r # x
    <3>1. handler'[r] = handler[r] /\ told'[r] = told[r]
      BY <1>2, <1>4, <2>2 DEF Handler, Arrive, ParseFails, ForwardEnds, Granted, Refused,
                              Abandoned, WriteFails, TypeOK
    <3>2. QED
      BY <1>1, <2>1, <3>1, RequestUntouched
  <2>3. CASE r = x
    <3>1. CASE Arrive(r)
      <4>1. handler[r] = "new" /\ handler'[r] = "parse" /\ told' = told
        BY <1>2, <3>1 DEF Arrive, TypeOK
      <4>2. QED
        BY <1>1, <1>2, <2>1, <4>1 DEF Owed, Truth, Kept, Once
    <3>2. CASE ParseFails(r)
      <4>1. /\ handler[r] = "parse" /\ handler'[r] = "done"
            /\ told'[r] = told[r] \/ (r \in Http /\ told'[r] = "refused")
        BY <1>2, <3>2 DEF ParseFails, TypeOK
      <4>2. QED
        BY <1>1, <1>2, <2>1, <4>1 DEF TypeOK, Owed, Truth, Kept, Once
    <3>3. CASE Granted(r)
      <4>1. /\ handler[r] = "await" /\ handler'[r] = "forward" /\ resp[r] = "ok"
            /\ told'[r] = "granted"
        BY <1>2, <3>3 DEF Granted, TypeOK
      <4>2. QED
        BY <1>1, <1>2, <2>1, <4>1 DEF TypeOK, Owed, Truth, Kept, Once
    <3>4. CASE Refused(r)
      <4>1. /\ handler[r] = "await" /\ handler'[r] = "done" /\ resp[r] = "error"
            /\ told'[r] \in {told[r], "refused"}
        BY <1>2, <3>4 DEF Refused, TypeOK
      <4>2. QED
        BY <1>1, <1>2, <2>1, <4>1 DEF TypeOK, Owed, Truth, Kept, Once
    <3>5. CASE Abandoned(r) \/ WriteFails(r)
      <4>1. /\ handler[r] = "await" /\ handler'[r] = "done" /\ task[r] # "none"
            /\ task[r] \notin {"open", "offer"} /\ told' = told
        BY <1>2, <3>5 DEF Abandoned, WriteFails, TypeOK, Owed
      <4>2. QED
        BY <1>1, <1>2, <2>1, <4>1 DEF TypeOK, Owed, Truth, Kept, Once
    <3>6. CASE ForwardEnds(r)
      <4>1. handler[r] = "forward" /\ handler'[r] = "done" /\ told' = told
        BY <1>2, <3>6 DEF ForwardEnds, TypeOK
      <4>2. QED
        BY <1>1, <1>2, <2>1, <4>1 DEF TypeOK, Owed, Truth, Kept, Once
    <3>7. QED
      BY <1>4, <2>3, <3>1, <3>2, <3>3, <3>4, <3>5, <3>6 DEF Handler
  <2>4. QED
    BY <2>2, <2>3
<1>5. QED
  BY <1>3, <1>4

LEMMA TakeSettles ==
  ASSUME RequestInv, TakeRequest, NEW r \in Request
  PROVE  Kept(r) /\ Once(r)
<1>1. TypeOK /\ Owed(r) /\ Truth(r)
  BY DEF RequestInv, TypeInv, AnswerIsOwed, ToldTruly
<1>2. /\ reqq # <<>> /\ reqq' = Tail(reqq) /\ task' = [task EXCEPT ![Head(reqq)] = "open"]
      /\ UNCHANGED <<handler, resp, told>>
  BY DEF TakeRequest
<1>3. In(r, reqq)' <=> In(r, reqq) /\ r # Head(reqq)
  <2>1. In(r, reqq)' <=> In(r, reqq')
    BY DEF In
  <2>2. In(r, Tail(reqq)) <=> In(r, reqq) /\ r # Head(reqq)
    BY <1>1, <1>2, QueueMembers DEF TypeOK
  <2>3. QED
    BY <1>2, <2>1, <2>2
<1>4. CASE r # Head(reqq)
  <2>1. task'[r] = task[r]
    BY <1>1, <1>2, <1>4 DEF TypeOK
  <2>2. QED
    BY <1>2, <1>3, <1>4, <2>1, RequestUntouched
<1>5. CASE r = Head(reqq)
  <2>1. In(r, reqq)
    <3>1. 1 \in DOMAIN reqq /\ Head(reqq) = reqq[1]
      BY <1>1, <1>2 DEF TypeOK
    <3>2. QED
      BY <1>5, <3>1 DEF In
  <2>2. task'[r] = "open"
    BY <1>1, <1>2, <1>5 DEF TypeOK
  <2>3. QED
    BY <1>1, <1>2, <1>3, <1>5, <2>1, <2>2 DEF TypeOK, Owed, Truth, Kept, Once
<1>6. QED
  BY <1>4, <1>5

LEMMA TaskSettles ==
  ASSUME RequestInv, NEW x \in Request, Task(x), NEW r \in Request
  PROVE  Kept(r) /\ Once(r)
<1>1. UNCHANGED <<handler, reqq, told>> /\ (In(r, reqq)' <=> In(r, reqq))
  BY DEF Task, OpenConn, TaskFails, Offer, In
<1>2. TypeOK /\ Owed(r) /\ Truth(r)
  BY DEF RequestInv, TypeInv, AnswerIsOwed, ToldTruly
<1>3. CASE r # x
  <2>1. task'[r] = task[r] /\ resp'[r] = resp[r]
    BY <1>2, <1>3 DEF Task, OpenConn, TaskFails, Offer, TypeOK
  <2>2. QED
    BY <1>1, <2>1, RequestUntouched
<1>4. CASE r = x
  <2>1. task[r] \in {"open", "offer"} /\ task'[r] \in {"offer", "done"}
    BY <1>2, <1>4 DEF Task, OpenConn, TaskFails, Offer, TypeOK
  <2>2. resp'[r] = resp[r] \/ task'[r] = "done"
    BY <1>2, <1>4 DEF Task, OpenConn, TaskFails, Offer, TypeOK
  <2>3. QED
    BY <1>1, <1>2, <2>1, <2>2 DEF TypeOK, Owed, Truth, Kept, Once
<1>5. QED
  BY <1>3, <1>4

LEMMA RequestStep ==
  ASSUME RequestInv, [Next]_vars, NEW r \in Request
  PROVE  Kept(r) /\ Once(r)
<1>1. CASE Manager \/ (\E p \in Pipe : ClosePipe(p)) \/ (\E y \in {"http", "socks"} : ProxyEnds(y))
           \/ UNCHANGED vars
  <2>1. UNCHANGED <<handler, reqq, task, resp, told>> /\ (In(r, reqq)' <=> In(r, reqq))
    BY <1>1 DEF Manager, Prune, Dial, ConnectFails, Rested, Upgrade, ClosePipe, ProxyEnds, vars, In
  <2>2. QED
    BY <2>1, RequestUntouched
<1>2. QED
  BY <1>1, HandlerSettles, TakeSettles, TaskSettles DEF Next

LEMMA RequestAlways == Spec => []RequestInv
<1>1. Init => RequestInv
  BY RequestInit
<1>2. RequestInv /\ [Next]_vars => RequestInv'
  BY RequestStep, TypeStep DEF RequestInv, AnswerIsOwed, ToldTruly, Kept
<1>3. QED
  BY <1>1, <1>2, PTL DEF Spec

(* A handler waits for an offer only while its answer is owed: its request *)
(* is in the channel or with a task, or the task is done and the handler   *)
(* has its answer or its dropped channel to go on with.  No request is     *)
(* worked on for a handler that is gone, none is answered twice, and an    *)
(* application is told that it is connected only after the server's Ok.    *)
THEOREM AnswerIsOwedCorrect == Spec => []AnswerIsOwed /\ []ToldTruly /\ AnsweredOnce
<1>1. RequestInv /\ [Next]_vars
        => [\A r \in Request :
              /\ task[r] = "done" => task[r]' = "done" /\ resp[r]' = resp[r]
              /\ told[r] # "nothing" => told[r]' = told[r]
              /\ handler[r] = "done" => handler[r]' = "done"]_vars
  BY RequestStep DEF Once
<1>2. RequestInv => AnswerIsOwed /\ ToldTruly
  BY DEF RequestInv
<1>3. QED
  BY <1>1, <1>2, RequestAlways, PTL DEF Spec, AnsweredOnce
=============================================================================
