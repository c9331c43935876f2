# net-demo: specification, model checking and proofs

The repository holds several small network servers and thread programs in C.
Two of them have state that is hard to get right: `skynet_net_demo/`, a socket
server with a control pipe, an epoll loop and a table of socket slots, and
`net/`, a server of two threads that hand data over through queues. Six smaller
servers are loops over epoll or libevent. This directory specifies them in TLA+,
checks the specifications with TLC on small instances, and proves some of the
results for all instances with TLAPS.

## Inventory

### skynet_net_demo: the socket server

*State* (`socket_server.c`): `slot[MAX_SOCKET]`, each with `type`, `id`, `fd`,
two write buffer lists and `wb_size`; `alloc_id`; the control pipe; the epoll
set; the events of the last `sp_wait` not yet dispatched (`evs`,
`event_index`, `event_n`); `check_ctrl`.

*Operations.* Any thread may call `socket_server_listen`, `_connect`, `_start`,
`_send`, `_send_lowpriority`, `_close`, `_shutdown`, `_nodelay`. The first two
reserve a slot in the calling thread (`reserve_id`, lock-free); each then
writes a request to the pipe (`send_request`). One thread calls
`socket_server_poll`, which handles a request (`ctrl_cmd`) or dispatches an
event (`report_accept`, `forword_message_tcp`, `send_buffer`) and returns when
there is a message (open, accept, data, close, error). `skynet_socket.c` only
passes calls on; `test.c` listens, starts, and polls for ever.

*Interaction.* Callers and the polling thread share the slots (unlocked: `type`
by compare-and-swap, `id` and `fd` by plain stores), `alloc_id` and the pipe.

*Hard.* A request is handled long after its caller looked at the slot; events
collected by one `sp_wait` are dispatched across many calls, between which
requests close sockets and slots and descriptors are reused; half a message may
be written, in two priorities; a close with data left lingers; any step may
fail half way, and several forget a descriptor or a slot when it does.

*What makes it correct.* A reserved slot stays reserved until its request is
handled; a leftover event never reaches another socket; descriptors, epoll set
and table agree; no socket disappears without a message and none speaks after
its close; messages reach the peer whole and in order per priority; a close
ends; callers do not block for ever.

### net: a server of two threads

*State*: `slot[MAX_SOCKETS]`, the epoll set, one `message_queue` (a growing
ring, a spinlock, `in_global`, `next`) per connection, and the global list
`Q`. *Operations*: the socket thread accepts, reads into the connection's queue,
links the queue into `Q` unless `in_global` is set, and writes a reply; the
message thread sleeps and polls until `Q` is not empty, unlinks one queue,
clears `in_global` and empties the queue. *Hard*: `in_global` is read and
written outside every lock; the ring grows while the other thread empties it; a
queue outlives its socket, whose slot is reused; a reply may end both threads by
SIGPIPE. *Correct*: what is read is printed once, in order, and eventually,
while the process lives; the list stays a list; no descriptor is lost but for
want of a slot; the assertions hold.

### thread_demo/thread_main.c: taking turns

Four threads, a mutex, a condition variable and `global_id`. *Hard*: spurious
wake-ups, and a broadcast that comes after the mutex is released. *Correct*:
the log has the ids in turn, and every thread finishes.

### The small servers

`net_demo2/sp_main.c`, `net_demo2/k_server.c` and `net/test_server.c` (a loop
over the events of one `epoll_wait`), `event_net/` (the same with callbacks) and
`libevent_demo/server.c` and `server_demo_1.c` (callbacks of libevent). One
thread each, and hardly any state of their own: the listening socket, the
descriptors, the epoll set, and the batch of events being worked off.
*Operations*: accept, read, answer, close, and what an error event does.
*Hard*: a batch goes on after a close, and descriptors are reused; results of
`epoll_ctl`, `read` and `write` are ignored, each program ignoring others;
some connections block; a write to a reset connection is SIGPIPE. *Correct*: an
event reaches the connection it was reported for; no connection is forgotten; a
client that behaves does not take the server away from the others; whoever
sends is read and whoever goes is closed.

### The rest

Not modelled: see the end.

## The modules

| module | models | state and actions |
| --- | --- | --- |
| `SocketServer` | `socket_server.c`, `socket_epoll.h` | A variable for each field of the slots (`type`, `sid`, `sfd`, `out`), for the epoll set (`reg`, `epollout`), the open descriptors, the pipe, the request in each caller's hands (`req`), and the local state of `socket_server_poll` (`pc`, `check_ctrl`, `evs`, `result`). One action per call, request and event handler, named as in the code. |
| `WriteLists` | the write lists of a socket from outside | `Left` and `Lingers`: which lists `send_list` can leave. Used by `SocketServer` and `WriteSide`. |
| `WriteSide` | — | Abstract: what `SocketServer` assumes of the write side of one slot. `WriteQueue` implements it. |
| `WriteQueue` | the write side of one socket | `list.high` and `list.low` as sequences of buffers, `wb_size`, the bytes the kernel took. Actions `send_socket`, `close_socket`, `send_buffer`, `forword_message_tcp`. |
| `ReserveId` | `reserve_id` | A thread's position between the atomic operations; `int` arithmetic wraps. |
| `CtrlPipe` | `send_request`, `block_readpipe`, `ctrl_cmd` | The bytes in the pipe and the locals of `ctrl_cmd`. |
| `SpQueue` | `net/sp_queue.c` | Operators on the value of a ring. |
| `NetServer` | `net/sp_server.c` and the global queue | Two threads; each access to `in_global` is a step. Extends `SpQueue`. |
| `Mailbox` | — | Abstract: per connection a mailbox, posted to and taken from, until the process is ended. `NetServer` implements it. |
| `TurnTaking` | `thread_demo/thread_main.c` | Mutex, waiters, the position of each thread. |
| `Peers` | clients, sockets and epoll (external), and the loop all small servers share | A client's connection (`link`, `unread`, `full`), the descriptors (`owner`, `nonblock`), the epoll set (`watch`), the batch. `server` is the program that runs, chosen at the start with the number of descriptors it has (`limit`). |
| `EpollServers` | `sp_main.c`, `k_server.c`, `test_server.c` | One action per branch of the loop. |
| `EventNet` | `event_net/` | One action per callback. |
| `LibeventServers` | `server.c`, `server_demo_1.c` of `libevent_demo/` | One action per callback. |
| `DemoServers` | — | The programs and `Peers` composed, and what they can be relied on for. |
| `*Proofs` | — | Theorems, see below. |
| `MC*` | — | What TLC needs besides the `.cfg` files. |

How the models of `socket_server.c` fit together: `SocketServer` takes
`reserve_id` as one step, which `ReserveId` justifies (`SlotsExclusive`,
`IdMatchesSlot`); the pipe as a queue of whole requests, which `CtrlPipe`
justifies for short ones (`FramingKept`, and for these proved); and a write buffer list as empty or
not, whose contents `WriteQueue` has. That last step is a refinement: `WriteSide` has the steps of
`SocketServer`'s `send_socket`, `close_socket`, `send_buffer` and
`forword_message_tcp` for one slot, built from the same `Left` and `Lingers`, and
`WriteQueue` implements it with `out` the set of its lists that are not empty
(`ImplementsWriteSide`).

The types of `WriteQueue`, `NetServer` and `TurnTaking` are conjuncts of
`WbSizeIsBacklog`, `GlobalListSound` and `InTurn`, which mean nothing without
them.

`PROJECT.json` ("map") gives the lines of every definition.

### What is abstracted

- Descriptors are small numbers, lowest free first. The descriptors of the pipe
  and of epoll itself are not counted.
- What kernel and network answer is nondeterministic: how much a write takes,
  which events are reported, whether `sp_add`, `connect`, `accept` or a read
  fails. `epollout` is exact, so that a write event is only reported for a
  descriptor whose EPOLLOUT is on.
- An event that reports neither reading nor writing is skipped by
  `socket_server_poll`, so `sp_wait` does not return one.
- Texts, `opaque`, buffer sizes, log output and the UDP fields (no code path
  sets them) are left out.
- SIGPIPE, which no program here blocks, ends the process. In `SocketServer` any
  write may raise it (`Killed`), in `NetServer` the reply of `write_info`; when a
  client brings it about is worked out in `Peers`. To `WriteQueue` it is a
  socket that takes no further step.
- Undefined behaviour is a choice: the double free in `forword_message_tcp`
  (EAGAIN on a HALFCLOSE socket) may stop the process or not, and so may the
  `freeaddrinfo` of an `ai_list` that a failed `getaddrinfo` never set (`:718`
  and in `do_bind`); a `result` that was never filled in has the id `NoId`.
- In `Peers` data is counted, not looked at; `accept` fails for want of a
  descriptor only; clients do in any order what a TCP peer can do, which covers
  the client programs. A reset is seen as Linux shows it: after the client's own
  close `read` reports the end and the next `write` is SIGPIPE; otherwise one
  `read` or `write` reports ECONNRESET first.
- The events of closed connections, which the libevent programs never delete,
  are libevent's business: whether it registers the next connection with the
  same descriptor is a choice. The two functions of `event_net/` that end
  without a return statement are a choice between a crash and going on.
- A message of `WriteQueue` has at least one byte; one of none is written at
  once and changes nothing.
- In `NetServer` the plain accesses to `in_global` are interleaved, not
  reordered: on both sides they lie between operations on the queue's and the
  list's spinlocks, which are full barriers where the code is built.

## The runs

| run | question | bounds |
| --- | --- | --- |
| `server_same` | Does a leftover event reach the wrong socket when the server is called between polls (as `test.c` does), and what becomes of an accepted socket that is started? `NoStaleDispatch`, `AcceptedNeverConnected`, `TypeOK` | 2 slots, 2 events per `sp_wait`, 3 ids, 2 descriptors: two sockets with an event each, and a third id that reuses a slot |
| `server_threads` | Do table, epoll set and messages agree when another thread calls while this one polls, and does anything but further closes and errors follow a close? | 2 slots, 3 ids, 2 descriptors; not followed beyond the loss of a descriptor (`NothingLost`) |
| `server_callers` | With two callers: does the reserved slot survive until `new_fd`, does a request for an id long closed leave the slot's next owner alone, when can an event outlive its socket, and which descriptors does a listen lose? | 1 slot, so that every reservation competes for it and a listen may find none; 2 ids, 2 events per `sp_wait` |
| `server_liveness` | With two callers: does a shutdown take effect, do blocked callers return, and does a half-closed socket only drain? | 1 slot, 1 id, 2 callers, 2 descriptors (one a failed bind may lose), a pipe of 1 request |
| `server_start` | Does the assertion of `socket_server_start` hold? **It does not.** | as `server_same`, 1 event |
| `write_queue` | Are messages delivered whole, in order, and all; does a lingering close end; do the lists behave as `SocketServer` assumes? | 5 messages of sizes 1 to 3 |
| `reserve_id` | Are slots handed out once? | 3 threads, 2 slots, ids wrap after 3 |
| `pipe_short` | Does the pipe keep requests apart? | `char` up to 3, all lengths up to it |
| `pipe_long` | … with longer requests? **It does not.** | all lengths a byte can hold |
| `net_server` | Do queues outlive sockets safely, do rings grow correctly, is no queue with messages left out of the list, and which descriptors are lost? `ImplementsMailbox`, `GlobalListSound`, `AssertsHold`, `DescriptorsOwned` | 2 slots besides the listening one, 4 descriptors, one more than slots, so that an accept may find no slot, 3 connections (the third reuses the slot of the first), 3 messages in all, rings of 2 cells: they grow at the second message |
| `turn_taking` | Are turns taken in order, and by all? | 4 threads as in the code, 2 rounds |
| `demo_servers` | Which connection does an event reach, what ends a server, who is served and closed in the end? | 6 programs, 2 clients that may come back, 1 or 2 descriptors (accept fails, or a batch has two connections), 1 chunk waiting, 2 events in a batch |

In the runs of `SocketServer`, `WriteQueue`, `NetServer` and `DemoServers`
deadlock is not checked: the ids are bounded, an assertion or a signal may have
stopped the process, threads end, and a blocking write may wait for ever. Elsewhere it is.
`server_callers` takes the two callers for interchangeable (`Symmetry`), which no
action and no property of it contradicts; the liveness run does not. `server_threads` does
not explore on from a state in which the process has stopped, where no action is
enabled, or in which a descriptor was lost (the constraint `NothingLost`): such a
state is checked, what follows it is left to `server_callers` and
`server_liveness`, and the proofs of its five properties do not exclude it.

*Are the bounds enough?* The hazards come from reuse: a slot taken by a second
id, a descriptor taken by a second socket, a ring that wraps, a flag set again.
Each bound is the least with room for one more owner after the first. Every
property has a mutant of the code, in `PROJECT.json`, that violates it under the
same bounds.

*Fairness.* `SocketServer`: weak fairness of polling, because `test.c` polls in
an endless loop; strong fairness of each pipe write, because the kernel serves
blocked writers in turn while the pipe is read again and again. `WriteQueue`:
the kernel reports EPOLLOUT while it has room, and a peer that keeps reading
makes room, so that a write event takes at least a byte (`Progress`).
`NetServer`: each thread is scheduled while the process lives; nothing is assumed
of the network or the clients, and `Mailbox` owes nothing after a SIGPIPE.
`DemoServers`: the program is scheduled; the backlog is served in order, and
epoll rotates its ready list, so that no connection waits for ever behind
others (strong fairness for each client and each descriptor); nothing is assumed
of the clients. `TurnTaking`: each thread is scheduled, and the
mutex does not pass a waiter over for ever (strong fairness).

### Disagreements found

- `StartAssertHolds`: `socket_server_start` asserts (`:1051`) that the slot
  still has the caller's id; a caller that starts a socket closed meanwhile,
  whose slot was reserved again, stops the process. `start_socket` has an answer
  for that caller, "invalid socket" (`:400`).
- `PipeAssertHolds` with long requests: the length byte is a signed `char` on
  both sides (`:250`, `:740`), the guard of `open_request` (`:1116`) lets
  lengths up to 255 through, and the assertion of `block_readpipe` (`:294`)
  fails after the framing is lost.

Some properties say what the code does although it is hardly meant:
`StaleOnlyIfTaken` (an event does outlive its socket when another thread's
`reserve_id` takes the slot before `clear_close_event` looks: the event is then
dispatched to a slot that is being opened, the read from descriptor -1 fails, and
the caller is told SOCKET_ERROR for the new id),
`SignalOnlyAfterFailedReply` (what still ends the small servers by SIGPIPE),
`AcceptedNeverConnected` (`report_accept` registers the accepted descriptor, so
`start_socket` gets EEXIST and closes it) and `FailedOpenKeepsSlot` (a failed
connect leaves its slot reserved for ever). `FdOwnership` and
`DescriptorsOwned` allow for descriptors that are forgotten: by
`socket_server_listen` when bind fails (`:994`, past the `close` at `:1002`) or no
id is free (`:1031`), by `do_accept` when no slot is (`net/sp_server.c:275`).

## The proofs

Every safety property that a passing run checks, invariant or action property,
is also a theorem, for every value of the constants that satisfies the named
assumptions below. A run shows that the statement is not empty (each property
has a mutant that breaks it); the theorem shows that the bounds of the run hid
nothing.

*Assumptions.* `SlotsAssumption`: at least one slot (`net`: two). The bounds of
a model (`MaxId`, `MaxFd`, `MaxPipe`, `MaxEvents`, `MaxReads`, `MaxUnread`) are
natural numbers, with room for one element where the code has an array or a
pipe, and for the listening socket in `net`. `NobodyAssumption`: the mark for "no connection" is not a
connection. `SizeAssumption`: a message has at least one byte (`WriteQueue`), a
ring at least one cell (`SpQueue`). `ThreadAssumption`: at least one thread, of
which one begins. `RoundAssumption`, `SocketAssumption`, `IntAssumption`,
`CharAssumption`, `LengthAssumption`, `PipeAssumption`: the types of what they
name. Three theorems have a hypothesis of their own: `NoStaleEvents` (`SameThread`),
and `Framing` and `ReadsComplete` (no payload longer than `CharMax`). Both
hypotheses are needed: see
`StaleOnlyIfTaken` and `pipe_long` above.

| module | proves | inductive invariant |
| --- | --- | --- |
| `SocketServerProofs` | `TypeOK`, `ReservedUntilHandled`, `NewFdAssertHolds` | `IInv` |
| `SocketTableProofs` | `FdOwnership`, `EpollMatchesTable`, `WriteInterestKept`, `StaleOnlyIfTaken`, `NoStaleDispatch`; `NoSilentClose`, `RequestsKeepToTheirId`, `AcceptedNeverConnected`, `FailedOpenKeepsSlot`, `HalfCloseOnlyCloses`, `CloseIsFinal` | `TableInv`; for `CloseIsFinal` with `InOrder` and `Told` |
| `ReserveIdProofs` | `TypeOK`, `SlotsExclusive`, `IdMatchesSlot` | their conjunction |
| `WriteQueueProofs` | `WbSizeIsBacklog`, `OnlyHighHeadPartial`, `MessagesNotInterleaved`, `NothingLost`, `FifoPerPriority`, `GracefulCloseDelivers`, and the refinement `ImplementsWriteSide` | `WInv` |
| `CtrlPipeProofs` | `FramingKept`, and `PipeAssertHolds` for short payloads | `PipeInv` |
| `NetServerProofs` | `AssertsHold`, `DescriptorsOwned`, `GlobalListSound`, and the safety part of the refinement of `Mailbox` | `NInv` |
| `TurnTakingProofs` | `InTurn` | `TInv` |
| `DemoServersProofs` | `TypeOK`, `EventsCurrent`, `OnlyResetsEnd`, `SignalOnlyAfterFailedReply` | `DInv` |

**`SocketServerProofs`.** `TypeOK` is inductive. Besides types it couples
fields: a slot without a socket has empty write lists, one with a socket has a
descriptor. There is a lemma per handler; `force_close`, `new_fd` and the ways to
answer have lemmas of their own, which every handler cites. That the assertion
of `new_fd` (`:302`) never fails is not inductive, and neither is "the slot of
each request is reserved": two requests for one id could both claim it, and the
first handled would break the second. `IInv` adds `ReservedUntilHandled`: each
listen or open request on its way, in a caller's hands or in the pipe, has a
slot RESERVE under its id, and no two such requests have the same id. The last
argument is that `reserve_id` only takes an INVALID slot and no handler touches
a RESERVE slot but the one that opens it.

**`SocketTableProofs`.** Each step has one of a few effects on the table: a slot
is taken, given back, opened, started, closed, or has its buffers changed
(`Effect`, `StepEffect`). The parts of `TableInv` are shown for each effect, not for
each handler. They are `FdsOwned` (descriptors have one owner; those listen
requests carry and those that were forgotten included, without which
`FdOwnership` is not inductive), `IdsFit`, `EpollMatchesTable`,
`WriteInterestKept`, and `EventsFit`: what may have become of the slot of an
event that is left. In particular a closed slot of a leftover event still has
the id it was closed under and `clear_close_event` is the next to run; that is
why an event can reach another socket only if another thread's `reserve_id` comes
in between. The action properties follow from the same effects, with what each
handler answers (`Loud`). `CloseIsFinal` is about messages of several calls: it
needs that no request precedes the one that opens its id (`InOrder`) and that
the message being returned is still true of its id (`Told`). What it excludes
after a close is an open, an accept or data: a second close says SOCKET_CLOSE
again (`:617`), and a start SOCKET_ERROR (`:400`). `HalfCloseOnlyCloses` says of
the write lists of a lingering socket that a step takes from them what
`send_list` takes, and that a send handled meanwhile leaves them as
they are (`ListsDrain`, `HalfClosedRefuses`); a further close may drain them, and
so may write.

**`ReserveIdProofs`.** Exclusion needs that an owned slot is not INVALID, so that
the compare-and-swap of another thread fails.

**`WriteQueueProofs`.** None of the properties is inductive: each speaks of the
wire alone, or of the lists alone. `WInv` says what the three are together: wire, high and
low, one after the other, are whole messages (`Layout`: a position for each
message, its bytes from there on, nothing else, messages of one priority in
order), and each lies before the place between high and low, or behind it and
is one of low priority (`Cut`). A closed socket keeps the
beginning of such a layout on the wire (`Begun`), all of it if it drained
(`Complete`). A send inserts a message at that place or at the end (`Insert`); a
write only moves bytes to the wire (`WrittenSplits`), and the place between the
lists moves from one end of a message to another's, just because
`raise_uncomplete` puts a low buffer cut short into high (`FlushKeeps`). The
properties are then read off the layout. `Bytes` is a fold over a list of any
length; its equations (`BytesAppended`, `BytesConcat`) rest on `LeastNat`, the
least element of a set of numbers, and on `Induction` from it, which has a set
where the library's theorems have an operator. `WriteSideImplemented` shows that every step is a step of
`WriteSide` or a stutter (`FlushedSide`).

**`CtrlPipeProofs`.** The bytes in the pipe are the requests written and not yet
handled, one after the other, less what `ctrl_cmd` has read of the first
(`Framed`, `At`). The positions go down as bytes are read, below zero for the
request being read.

**`NetServerProofs`.** `PushAppends` and `PopTakes` show what `sp_queue.c` does to
the contents of a ring that wraps and, at its limit, grows. `NInv`: slots,
descriptors and epoll set agree (`Table`); the events left fit them (`Pending`);
there is a sequence of queues of which `head`, `tail` and the `next` pointers are
the links (`Chain`), and `in_global` is 1 for exactly the queues in it, the one
the socket thread is about to link and the one in the message thread's hands,
each in one of these places (`Flags`); and what the message thread has tested
stays true (`Holding`). The flag's two owners between the locks are why a queue
is never linked twice. `Implements` shows each step to be a step of `Mailbox` or a
stutter, with the contents of the rings as the mailboxes; that only a reply to a
message that was read ends the process rests on `Answers`, an invariant beside
`NInv`.

**`TurnTakingProofs`.** `TInv`: `global_id` is the number of turns taken, modulo
the threads; who is between lock and unlock holds the mutex; who saw its turn
still has it.

**`DemoServersProofs`.** As with the socket server, the steps of six programs are
instances of a few effects, and `DInv` is shown for these: an event that is left
is of the connection that has the descriptor (`BatchFits`), which holds because a
program closes only the descriptor of the event it handles, and a connection
reset under a program's write is kept only by programs known to keep it
(`DeadKnown`).

*Only model-checked.* What needs fairness: `ShutdownTakesEffect` and
`CallsReturn` (`SocketServer`), `HalfCloseEnds` (`WriteQueue`), `Terminates`
(`TurnTaking`), `EveryPeerServed` and `PeerGoneThenClosed` (`DemoServers`), and
that `NetServer` takes every message `Mailbox` has (the fairness in
`ImplementsMailbox`): the prover does not handle ENABLED. The two properties
TLC refutes, `StartAssertHolds` and `PipeAssertHolds` with long payloads, have no
proof, of course.

## Not modelled

- The clients (`net/sp_client.c`, `net/test_client.c`, those of `net_demo1/`,
  `net_demo2/` and `libevent_demo/`): connect, write and read a few times, close.
  What servers see of them is among what the clients of `Peers` do.
- `net_demo1/server.c` and `sp_server.c`: one accept, one read, at most one
  write, return. Nothing outlives a call.
- `thread_demo/sp_server.c` and `thread_server.c` do not compile; `thread1.c`
  never starts its thread function.
- `libevent_demo/event_timer.c`, `test.c`, `dlfcn.c`, `sort.c` and `redis-demo/`:
  straight-line calls of libraries that are not in the repository.
- `malloc_hook.c` and the logging: allocation and output.
- Of the modelled programs: the UDP branches of `socket_server.c`, which nothing
  reaches; contents and sizes of buffers; a thread that calls the socket server
  between its own polls while the pipe is full, which blocks itself for ever
  (with `SameThread` the model lets a call start only when there is room); ids
  after 2^31 connections in `net/` (`reserve_id` of the socket server is checked
  with wrapping ids).

## Plan

Done: the socket server with its pipe, its write buffers and `reserve_id`; its
view of the write side as an abstraction that `WriteQueue` implements; leftover
events with callers in other threads; the two-thread server and its refinement
of `Mailbox`; turn taking; the small servers under common clients; every safety
property of these proved.

Next: that a slot of `SocketServer`, seen alone, takes only the steps of
`WriteSide`, so that the two refinements meet at a theorem and not only at the
operators they share; that `ReserveId` implements the one step `SocketServer` has
for it; and shorter proofs of the layouts of `WriteQueue` and `CtrlPipe`, which
have the same shape.
