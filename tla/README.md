# A verification development of sosistab2-obfsws

The repository implements a pluggable transport that carries sosistab pipes in
websockets (`src/src`), and holds `wsocks`, a SOCKS/HTTP proxy over that
transport (`src/src/bin.todo/wsocks.rs`, written for an older sosistab2 and not
built at this commit; it is modelled as it is written). The modules here are
TLA+ models of that code, checked with TLC on small instances and, where a
theorem is listed, proved with TLAPS for every value of the constants.

## The system

| Component | State | Operations | Modules |
|---|---|---|---|
| **ObfsWsPipe** (`pipe.rs`) | handles (each with a `recv_buf`), two bounded channels, a `closed` flag, a background task racing `send_loop` against `recv_loop` | `new`, `poll_write`, `poll_read`, `poll_close`, clone, drop; the two loops; two pipes over one websocket | `ObfsWsPipe`, `PipePair`, `LossyStream`, `ObfsWsPipe_proofs`, `Streams_proofs`, `SequenceFacts` |
| **ObfsWsListener** (`listener.rs`) | accept loop, a handler per connection, a bounded queue of pipes | `bind`/`from`, handshake with metadata check, `accept`, drop | `ObfsWsListener`, `ObfsWsListener_proofs` |
| **wsocks server sessions** (`server`, `server_session_loop`) | `mux_sessions` (weak references), per multiplexer a session loop, a pipe manager, a deadline channel, forwarding loops | accept a pipe, retain, prune, declare dead, accept a stream | `WsocksSessions`, `SessionTable`, `WsocksSessions_proofs` |
| **wsocks client** (`client`) | a multiplexer and its pipes, two local proxies, a request queue, a task per request | connect/prune pipes, accept, submit, open, offer | `WsocksClient`, `WsocksClient_proofs` |
| **tcp_forward_loop data path** (with the handshake of the request before it) | at each end of a relconn two loops over a TCP connection, with the bytes each holds; the frames on the way | offer or refuse, read, send a frame, receive, write, bail at the deadline | `WsocksForward`, `CutStream`, `WsocksForward_proofs`, `Streams_proofs` |
| **server key** (`server`, its first lines) | the key file; a counted loop | read, generate, write, give up | `WsocksKey`, `WsocksKey_proofs` |
| Frame/Protocol codec, Etag | none | serialize with a 16-bit length; hash | frames as `WsocksForward` sees them; Etag left out |
| `lib.rs`, `env_info`, command line, examples, build | none | | left out |

How they interact. A listener handler makes an `ObfsWsPipe` and sends it over
the listener's queue to `accept`; the wsocks server takes it from there, decodes
the metadata to a client's hash and adds the pipe to that client's multiplexer
(sosistab2, external). The client makes pipes with `ObfsWsPipe::connect` and adds
them to its own multiplexer. Handles of a pipe run on any thread, concurrently
with its background task; a task is told to stop by a flag it must come round to
look at, or by the end of a channel.

What is hard here: loops that stop each other by being dropped at an `await`;
flags and channels read in one step and used in the next; queues at their limit;
`Poll::Pending` without a waker; channels that end only when the last of many
holders goes; one message meant for many receivers; references held weakly over
an `await`. `PROJECT.json` lists each of these hazards at its line, with the
properties that watch it, or the reason why none does.

What makes each component correct:

* a pipe never reorders, repeats or invents data in either direction, loses
  nothing that it need not lose, wakes its reader, and ends its task when it is
  abandoned or cut off;
* the listener serves every client it has said 101 to, reports its end once and
  truthfully, and passes on only pipes whose key decodes;
* a client of the server has one session, comes back to it, and an abandoned
  session is dropped;
* the wsocks client keeps its number of pipes within the limit and up to it,
  and every local request comes to an end;
* a proxied connection loses no bytes in the middle, its loops meet no frame they
  have no case for, the two directions do not wait for each other, and the end of
  one side ends the other;
* the server's key is the same after every restart, and whole, unless the file
  could not be read or a write was stopped.

## Modules and how they correspond to the code

`PROJECT.json`'s `map` gives the lines behind each definition.

**`LossyStream`** is what one direction of a pipe promises: numbered elements
that are put, may be lost, and are got in order. `ObfsWsPipe` implements it
twice: `OutgoingStream` (messages from `poll_write` to the websocket) and
`IncomingStream` (bytes from the websocket to the reader of the one handle).

**`ObfsWsPipe`.** Every access to shared state is a step. `poll_write` is
`PollWrite` (the load of `closed`) then `TrySend` (which reports Ok even when the
channel refuses the message); `poll_read` runs without an await and only it
touches its handle's `recv_buf`, so each of its outcomes is one step
(`ReadLeftover`, `ReadPending`, `ReadMessage`). The loops have program counters
`spc` and `rpc` with a value per await; either loop's return is `Exit`, which ends
both, as `race` does. The atomics are `Relaxed`; there is one flag, set once and
never cleared, so the models treat it as a single variable. The websocket is
`link`: a lost connection lets `send` fail or still succeed locally, and lets the
reader deliver what was buffered before its error and its end. `sent`,
`accepted`, `refused`, `incoming`, `got`, `lateSent` and `lateQueued` are history.
`poll_flush`, `is_closed` and `remote_addr` only read the flag.

**`PipePair`** puts two `ObfsWsPipe`s (the module itself, and an instance of it
with the variables `f_...`) on one connection of `WireRoom` messages, and decides
by the other end what a single pipe leaves open: a send completes only if there
is room (`Transmit`), a message arrives if it was sent (`Deliver`), and a
connection is lost when the other end's task has ended (`PeerGone`). One end
writes, the other reads, and either may be dropped. `poll_close`, clones and
messages of more than one byte are left to `ObfsWsPipe`.

**`ObfsWsListener`.** `handler[c]` is the place of connection `c` in the accept
loop's backlog or in its handler. The loop ends on any accept error
(`AcceptError`) or when its dropped `Task` is cancelled, some time after the
listener was dropped (`CancelLoop`). `reply` is the answer a client was sent in
full: if the write of a 101 fails after the callback has said Ok, the handler ends as
by any other error of the handshake (`HandshakeError`). A sender of the queue lives in the loop and
in each handler: `SendersGone`. Clients may stall in the handshake for ever.

**`WsocksSessions`.** The accept loop alternates `Retain` and `AcceptPipe`, with
the await in between. A multiplexer is alive while its session loop or pipe
manager runs (`Strong`). One pass of the pipe manager is `Prune` then
`StayAlive` or `DeclareDead`; between them other tasks move. `idle` counts seconds
without a pipe, one per pass. The deadline is one message, which the session
loop (`SessionBails`) or either half of a forwarding loop (`ForwardBails`)
receives. sosistab2's `Multiplex` is external: it drops its pipes with its last
reference, and `accept_conn` yields a stream only of a multiplexer that has
pipes, or fails.

**`SessionTable`** is what the sessions promise a client, without tasks, weak
references or a deadline: a client has at most one session, a pipe opens one or
joins it, the end of a session takes its own pipes and no others, and a pipe may
be refused for a session that has just died, but never two in a row.
`WsocksSessions` implements it (`SessionsAreTable`): a client's session is the
multiplexer of its entry as long as something keeps that alive (`SessionOf`), and
what became of its last pipe is read off its newest multiplexer (`LastPipe`).
That pipes of one multiplexer may be refused only once is an invariant of its own,
`AtMostOneLost`, and follows from the table.

**`WsocksClient`.** The pipe manager with `ObfsWsPipe::connect` as two steps that
may fail, the handlers of the SOCKS and HTTP proxies, the request loop, and a
task per request. The handler of an HTTP request whose offer is an error panics
(`todo!()`); the model drops the connection without an answer.

**`WsocksForward`** is one proxied connection at both ends of its relconn: the
client's half (`TakeOffer`, then its proxy's `Reply`, then the forwarding loops) and
the server's (`Connect`, then the same loops). Either loop has a program counter with a
value per await. A frame is on the relconn from the first part of its
`write_all`, and received when it is complete; a return of either loop
(`Drop`) leaves a half-written frame behind and forgets what the other loop
held. The relconn, a stream of the multiplexer, is external: it holds `Window`
frames, is reliable while both ends hold it, and may lose the last frames of an
end that is gone. The TCP connections are external too: a peer may stop
reading, end its stream (`read` gives 0 from then on, which is forwarded as an
empty frame) or fail. `phase` says how an end is over. `tcp_forward_loop` returns
nothing but errors: the client's handler passes one on by `?` ("done"), but the
server's task unwraps it (`wsocks.rs:797`), and the result of its sends (795, 813), so
every end of a forwarded connection at the server, ordinary ones included, is a panic of
its task ("unwrap", `OnError`). Unwinding drops what the task holds as a return
would; what the executor does about a panicking task is external. Any
frame but `TcpData` would make a down loop panic of its own accord, at `assert_eq!`
or `todo!()` ("todo"); that this does not happen is `OnlyDataIsReceived`.

**`CutStream`** is what a direction of that connection promises: the bytes
that come out are the first ones that went in, and all of them until it is cut.
`WsocksForward` implements it twice.

**`WsocksKey`** is the boot of the server, with the file as a prefix of what was
last written. The loop's passes are `NextPass` or `GiveUp`, `ReadKey` or
`ReadFails` (which draws new random bytes), `Create` and `WritePart`; `Kill` may
come anywhere and `Start` follows. Random bytes are never drawn twice among those
that matter, as 256 random bits are not.

`MC*` modules only add symmetry or a bound for TLC. An operator standing just
before a definition and named after a slip in it (`FullOffByOne`,
`WriteOnce`...) is a broken variant that a property must detect; no
specification uses it.

## Runs

| Run | Bounds | Shows |
|---|---|---|
| `MCPipe` | 2 handles, channels of 2, messages of 0 and 2 bytes read by 1 and 2, 3 messages out, 4 bytes in | Types; a dead task is marked closed; an open pipe loses only refused messages; at most one late message each way; incoming bytes in order, over leftovers, queued messages and clones |
| `MCPipeFair` | 1 handle, channels of 2, messages of 2 and 3 read by 1 and 3, 2 out, 6 bytes in | both directions implement `LossyStream`; only a read's leftover is lost; queued data is read; a dropped handle and a lost link end the task |
| `MCPipeSmallReads` | 1 handle, one 2-byte message, 1-byte reads | *violated*: `poll_read` loses bytes |
| `MCPipeWaker` | 1 handle, one message | *violated*: a parked reader is never woken |
| `MCListener` | 4 clients, one without a proper key, queue of 1 | established clients are kept and served; BrokenPipe is reported and final; dropping releases pipes |
| `MCPair` | a near and a far end with one handle each, channels and connection of 1, 4 messages | end to end a `LossyStream`; what is not refused is read; dropping either end ends both tasks |
| `MCSessions` | 1 client, 4 pipes, 1 stream, 3 multiplexers, deadline of 1 | the sessions implement `SessionTable`: one per client, never two pipes in a row lost to dead ones; open pipes are held; an idle session is dropped unless a stream ended by receiving its deadline |
| `MCSessionsStolen` | 1 client, 1 pipe, 1 stream | *violated*: a session survives its deadline |
| `MCSessionsStale` | 2 clients, 2 pipes, no stream | *violated*: an accepted pipe is dropped |
| `MCClient` | 2 requests (one of each proxy), 4 pipes, at most 2 at a time | the limit; requests settle; pipes are restored each time they are lost |
| `MCForward` | relconn of 1 frame, reads of 1 or 2 bytes, 2 bytes up and 1 down | only data frames reach a down loop; both directions implement `CutStream`, do not wait for each other, and end together |
| `MCKey` | 3 random values, 10 passes (the code's), files of 2 parts | the key is long-term and whole; a start comes to an end |

Why the bounds are enough: the channels hold 100000 and 1000 entries in the
code, but a channel behaves differently only when it is empty, in between and
full, which one entry already shows against loops that hold another one. For
the order of messages, and for a leftover before the next one, `MCPipe` has room for
two messages of 2 bytes: read by 1 and 2, alone or behind a leftover, they give
leftovers longer than, equal to and shorter than a buffer, and 0 gives the empty
message. Two handles give the sharing of a clone; four pipes let a session die, lose a pipe and be replaced,
and its successor do the same; that clients do not disturb each other is in the
theorems, which hold for any set of them, and two take part in
`MCSessionsStale`. `Deadline` stands for 100 seconds: only zero, reached and
exceeded are told apart. Four messages are what it takes to stall a pair: one in
the far queue, one held by the far loop, one on the connection and one held by
the near loop. A relconn of one frame makes both ends of a proxied connection
wait for each other as soon as they can; two bytes are read, framed, sent and
written in one piece or in two (upstream; that the same code keeps the order of
more than one byte downstream is in the theorems). A file of two parts has a whole, a torn and an
empty form. With four pipes a client that wants two loses one and restores it twice.
`MaxOut`, `MaxIn` and `MaxMux`, and the finite sets of pipes,
streams, connections and requests, bound what would otherwise grow. Deadlock is
not checked: each of these systems may stop (everything closed, the bounds used
up).

### Fairness

The executor polls a task that can make progress, so every loop's own steps are
weakly fair. A websocket `send` on a live or dead connection completes (TCP
gives up in the end), and the reader of a lost connection reports its end.
Timers go off. Nothing is assumed of clients, remotes, messages arriving,
connections being lost or `accept_conn`. In `PipePair` a send completes only
once there is room, what is on the connection arrives, and an end hears of the
other's end: a peer whose host vanishes without a word is outside the
assumption, since the code sets no keepalive. In `WsocksForward` the executor
polls both loops of an end, the relconn delivers and reports its end, and a TCP
connection whose peer reads takes what is written; nothing is assumed of what a
connection gives to read. In `WsocksKey` the first task runs and its file
operations return. Three assumptions are about users, and are named:
`ObfsWsPipe!WakerSpec` (a pipe with a reader that is not parked is read),
`ObfsWsPipe!PollingSpec` (a parked reader polls again on its own account, which
the pipe does not provide for; `PairSpec` assumes the same) and the listener's
`accept` being called again. `WsocksClient` assumes that attempts to connect
return and that a relconn with a pipe makes progress; `connect` itself has no
timeout.

### Findings

1. `poll_read` clears `recv_buf` before it may return `Pending` (`pipe.rs:257-271`).
2. `poll_read` returns `Pending` without registering a waker (`pipe.rs:269-271`),
   which matches the "flow cut-offs" of the repository's README and BUG.txt.
3. One deadline message for many receivers (`wsocks.rs:736, 753, 838, 863`):
   a session outlives its deadline.
4. `retain` runs before the await whose result uses it (`wsocks.rs:693-722`):
   a pipe is accepted and dropped.

## Proofs

Every invariant, action property and refinement that a run checks is also a
theorem, for all values of the constants; the liveness properties are TLC's. Each
theorem rests on the named assumption of its module (capacities and limits at
least 1, lengths and bounds natural numbers), which TLC evaluates on its runs.

Of six liveness properties the part that does not depend on fairness is a theorem
too (below, "the safety half of..."). Two forms occur. Where a task has to finish
something, a measure says how much is left of it: it is bounded, each step of that
task lowers it, no step of another task raises it, and at nothing left the task is
done. Where many tasks could be the one that has to act, an invariant says that
exactly one of them owes it, or that what is to be delivered is always with one of
them. What remains for TLC is that the task can take its
step, and does.

### The pipe

`ObfsWsPipe_proofs`, for any set of handles, capacity, and lengths of messages and
buffers:

* `TypeCorrect`: `TypeOK` is inductive; the bounds on both channels come from the
  guards of `TrySend` and `RecvPush`.
* `DeadTaskCorrect`: `DeadTaskIsClosed` is inductive. Each way to `Exit` sets the
  flag, has found it set, or has no handle left (`ExitIsSeen`); handles are made
  only from handles, and the flag is never cleared.
* `AtMostOneLateCorrect`: `AtMostOneLate` is not inductive, since a loop that has
  moved a late message could be anywhere. `LateInv` adds that nothing is late
  before closing, and that a loop which moved its one is at its check of the
  flag or done.
* `OpenLosesOnlyRefusedCorrect`: the account of messages is kept by each step,
  given `TypeOK` (a new number is not among the refused ones) and
  `DeadTaskIsClosed` (the task of an open, held pipe is alive, so only a full
  queue refuses).
* `OutgoingCorrect`: the outgoing direction implements `LossyStream`. `OutMoves`
  says what a step does to the messages between `poll_write` and the websocket
  (`OutKept`, `OutPut`, `SendDone`, `OutEnded`), and each is a step of the stream.
* `IncomingOrderCorrect`: `IncomingOrder` is not inductive, for two reasons.
  Handles that do not exist must be covered, since a clone starts from another
  handle's `recv_buf`, and the numbers must stay below `incoming`, or the next
  message could repeat one. `IncomingInv` says both, and that `recv_loop` holds
  nothing when it waits for more. A read then only moves bytes along the
  sequence or leaves a piece of it out (`PiecesOfMessage`, `PieceLeftOut`).
* `LosesOnlyLeftoverCorrect` and `IncomingCorrect`: the action property, and that
  the incoming direction implements `LossyStream`. A step takes bytes at the front
  of what is unread (`Taken`), brings new ones to its back (`Came`), loses what
  `recv_buf` held (`LeftoverLost`), or ends the task (`UnsharedStep`). They assume
  `Unshared`, that the pipe has one handle, as the properties do: they speak of
  the one reader.
* `FittingIsIntactCorrect`, the counterpart of the first finding: where every message
  fits every buffer (`MessagesFit`), a pipe with one handle loses nothing while its
  task lives, which is the `StreamIntact` that `MCPipeSmallReads` refutes without
  that hypothesis. No read then leaves anything in `recv_buf` (`FitsInv`), so there
  is never a leftover to lose.
* `DropDrainsCorrect`, the safety half of `DropEndsTask`: once the last handle is
  dropped none comes back, and `SendsLeft` is what `send_loop` still has to do,
  three steps a queued message. `recv_loop` may go on as long as it likes: it does
  not add to it, and ends with the other loop.

`Streams_proofs` proves what the two abstract streams are worth: whatever is put
into a `LossyStream` leaves it in order, without repetition or invention
(`StreamInOrder`; the argument is that `output \o chan` is ascending); of a
`CutStream`, what came out and is still on its way is `1..n` for some `n`, and all
of the input before a cut (`FirstBytesFirst`, by `CutInv`); and a `CutStream` is
a `LossyStream` (`CutStreamIsLossy`). An abstract stream is taken
by itself there, over variables of its own.

It then proves `EndToEndCorrect`: from `poll_write` at one end to
`poll_read` at the other, two pipes over one websocket implement `LossyStream`,
for any capacities, room on the connection and buffers of the reader. It is
composed from what is known of one pipe: each step of the pair is a step of the
near end, of the far end or of the connection (`PairStep`), so each end keeps the
invariants of a pipe (`FarFacts` is `ObfsWsPipe_proofs` at the far end's variables).
The far end numbers messages as they arrive, the near end as they are accepted.
`PairInv` relates the two: what has arrived, what is on the connection and what
the near end has not sent are one increasing sequence (`Named` translates the far
end's numbers through it). It too has `Unshared`; `PairNext` makes no clones.

`NothingMissingCorrect` is the safety half of `AcceptedIsRead`: as long as both ends
are held and the connection stands, each message that `poll_write` accepted and did
not refuse was read at the far end or is in a queue, in a loop or on the connection
before it. It joins the near end's account (`OpenLosesOnlyRefused`), the far end's
`StreamIntact` and the numbering of `PairInv`. `Linked` adds that while the
connection stands everything the near end sent is on it or has arrived. Like
`AcceptedIsRead`'s run it has `MessagesFit`, and `Unshared`.

### The listener

`ObfsWsListener_proofs`, for any set of clients and capacity of the queue:

* `ListenerTypeCorrect` and `EstablishedCorrect`: `TypeOK` and
  `EstablishedIsKept`, by an invariant that adds that a client is never answered
  before its handshake.
* `BrokenIsFinalCorrect`: the action property `BrokenIsFinal`. After
  `BrokenPipe` the queue is empty and no sender exists (`Ended`), and only a
  sender could make another or fill the queue (`SendersStayGone`).
* `KeysCorrect`: `KeysDecode`. A handler past its check of the metadata belongs
  to a client whose key decodes (`KeyedInv`); so does what it queues.
* `BrokenSettlesCorrect`: `accept` never reports its end too early. When a listener
  that is held says `BrokenPipe`, the clients that were told 101 are just those whose
  pipes it has returned.
* `NoPipeTwiceCorrect`: it never returns a client's pipe twice. A handler that has
  queued its pipe is done, although it holds the same connection while it waits for
  room.

### wsocks

`WsocksSessions_proofs`, for any number of clients, pipes, streams and
multiplexers:

* `TypeCorrect`: `TypeOK`, with `Fresh` (a multiplexer that has not been made is as
  it starts) and `IdleWithin` (a manager that goes round has not found its session
  idle for longer than the deadline).
* `OneSessionCorrect` and `OpenPipesCorrect`: `OneSessionPerClient` and
  `OpenPipesAreHeld` are inductive given the types: `Retain` removes the entries
  of the dead only, and what ends a multiplexer closes its pipes.
* `AtMostOneLostCorrect`: `AtMostOneLost` is not inductive, since it does not say
  why the next pipe is safe. `DeadIsForgotten` does: a multiplexer that has cost a
  pipe is dead, has cost one, and has no entry when the accept loop waits again.
* `SessionTableCorrect`: the refinement of `SessionTable`. It needs two facts more
  (`TableInv`): an entry is about the newest of its client's multiplexers
  (`LatestEntry`), so that the last pipe's fate is found there; and two multiplexers
  have no pipe in common (`PipesApart`), so that the end of one closes none of
  another's. `SeenIs` reduces each step to what it changes for one client; a step of
  a task that is not the last to hold its multiplexer changes nothing
  (`InnerIsUnseen`), and the last one ends the session (`LastEndIsEnd`).
* `DeadlineCorrect`: only its own pipe manager gives a session up, after the deadline,
  and nobody can end by a deadline that was not sent; and the message is then in the
  channel, or has ended the session loop, or (finding 3) a stream in its place.
* `IdleIsGivenUpCorrect`, the safety half of `IdleSessionIsReclaimed`: `PassesLeft`
  counts the manager's steps to the deadline; only a pass that finds an open pipe
  adds to them.

`WsocksClient_proofs`: `ClientTypeCorrect` (`TypeOK`, which says that no request is
queued twice: a handler submits its request once, and waits), and `LimitCorrect`
(`PipesAreLimited`). The limit alone is not inductive: `LimitInv` adds that a
manager that is dialing counted fewer pipes than the limit, and that nobody else
adds one. `AnswerIsOwedCorrect` is the safety half of `RequestIsSettled`: a waiting
handler's request is in the queue, or at the one task it was given to, or that task
is done and its answer (or the end of its channel) is there (`Owed`); an
application is told that it is connected only after the server said Ok (`Truth`);
and no answer, and nothing an application was told, is taken back (`AnsweredOnce`).

`WsocksForward_proofs`, for any window, lengths of reads and amounts of data:

* `ForwardTypeCorrect` and `OnlyDataIsReceivedCorrect`. `OnlyDataIsReceived` depends
  on what is on the relconn: `OneAnswer` says that the client sends data only, and that the server
  sends one other frame, the first, which is gone from the relconn once the client
  forwards. `Shrinks` is what every loss and every receipt does to the frames.
* `UpstreamCorrect` and `DownstreamCorrect`: both directions implement
  `CutStream`. `Way(s)` is what is between the two TCP connections: the payload
  that the far loop still has to write, the complete frames of the relconn, and
  the chunk that the near loop holds. Of a half-written frame only one copy may
  count, and a chunk must not be left over from before; neither is in `TypeOK`.
  `HoldInv` says it: a loop holds bytes only while it has to pass them on
  (`Idle`), the half-written frame is the last one and a copy of what the loop
  holds (`HalfWritten`), an answer carries no bytes (`Bare`), and it comes first
  (`AnswerFirst`), so that taking it off the relconn loses none. Each action then
  leaves `Way(s)` as it is, puts bytes at its back, gets them from its front, or
  cuts it (`DirectionStep`).
* `EndDrainsCorrect`, the safety half of `EndsTogether`: an end that is over stays so,
  and the other one has finitely many frames and bytes left. `Nearer` orders what is
  left by frames, then bytes of the last one, then the loop's place, so every step
  of its down loop brings it nearer to its end and no other step takes it further.

`WsocksKey_proofs` proves `KeyTypeCorrect`, `WholeKeyCorrect`
(`ServedKeyIsWhole`) and the action property `LongTermCorrect`
(`KeyIsLongTerm`), for any number of passes, parts and random values, and
`StartIsBoundedCorrect`, the safety half of `StartEnds`: a start has no more passes
than the counter allows, each of a bounded number of steps (`Left`). `KeyInv`
adds where a write may be under way (`WriteInv`), that the announced key is in
the file and nobody is about to write over it unless it was misread (`KeptInv`),
and that a file which is not being written is whole unless torn (`WholeInv`).

### How the sequences are handled

`SequenceFacts` has the facts the refinements share. `Cat` is concatenation with
its associativity (`CatAssociative`) as all that is known of it, which keeps the
provers from looking into sequences when pieces are only regrouped. `FlattenSeq`
(the contents of a queue of messages, of the frames on a relconn) is defined by a
recursive function over a sequence of sequences; that it is the sequence of
partial concatenations (`FlattenIsFold`) is shown by taking the least position at
which it would not be (`LeastNumber`), as the library's induction theorems take
an operator, which the installed provers cannot instantiate. From it follow what
pushing and popping do to it (`FlattenAppend`, `FlattenHead`).

### Only model-checked

The liveness properties: `DropEndsTask`, `LinkDownEndsTask`, `QueuedDataIsRead`,
`DropEndsBoth`, `AcceptedIsRead`, `EstablishedIsServed`, `EndIsReported`,
`DropReleasesPipes`, `IdleSessionIsReclaimed`, `RequestIsSettled`,
`PipesAreRestored`, `BothWaysFlow`, `EndsTogether` and `StartEnds`. They need
fairness, and so ENABLED, which is beyond TLAPS; the theorems called a safety half
above say of six of them why they hold once the tasks run. The four findings are
TLC's counterexamples.

## Not modelled, and why

Etag is cryptography over opaque bytes; `env_info`, option parsing, logging
and the build have no state; TLS, HTTP and websocket framing, the SOCKS wire
format and sosistab2 are libraries, modelled by how the code uses them.

## Plan

Done: the pipe, alone and as a pair (`LossyStream`, `ObfsWsPipe`, `PipePair`), the
listener, the server's sessions (`SessionTable`), the client, the data path of a proxied
connection (`CutStream`, `WsocksForward`), the server's key, and the proofs above.

What could follow:

1. The safety half of the remaining liveness properties as theorems, first that the
   two directions of a proxied connection do not wait for each other
   (`BothWaysFlow`).
2. A refinement of `WsocksClient` and `WsocksForward` by one request from `accept`
   to its end.
3. Both directions at once in `PipePair`, with larger messages: today its bounds
   are what TLC can do with the liveness properties.
