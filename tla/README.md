# A verification of cli-chat-app in TLA+

`cli-chat-app` is a chat room for the terminal: one server process and any
number of client processes that exchange length-prefixed packets over TCP, the
server's loop built on `epoll`, the client's screen on ncurses, the secrecy of
the text on libsodium. This directory models the server and the client in TLA+,
model-checks them with TLC, and proves every safety property and every refinement the
passing runs check, for every number of clients and any packets, with TLAPS.

- [Inventory](#inventory)
- [Modules](#modules)
- [How the models correspond to the code](#how-the-models-correspond-to-the-code)
- [Runs](#runs)
- [Fairness](#fairness)
- [Proofs](#proofs)
- [What the models found](#what-the-models-found)
- [What is not modelled](#what-is-not-modelled)
- [Plan](#plan)
- [Running it](#running-it)

## Inventory

| Part | Source | State it keeps | Operations |
| --- | --- | --- | --- |
| Server | `server/src/server.cpp`, `headers/server.hpp`, `server/src/main.cpp` | `m_clients` (descriptor -> `ClientInfo`: session, `key_exchanged`, `registered`, `username`), `m_usernames`, `m_clientsMutex`, the listening and the epoll descriptor, the keys | `Start`, `Stop`, `SetupListener`, `EventLoop`, `HandleNewConnection`, `HandleClientEvent`, `DisconnectClient`, `BroadcastEncrypted`, `SendSecretbox` |
| Client | `client/src/client.cpp`, `headers/client.hpp` | the session, the keys, `m_stopping`, `m_running`, `m_uiActive`, `m_exitReason`, three threads | `Start`, `Stop`, `CreateSession`, `CloseSession`, `ClientLoop`, `HandleBroadcast`, `SendEncrypted`, `RecvDecrypted` |
| NcursesUI | `client/src/ncursesUI.cpp` | the windows, `running`, `m_mutex`, `m_queueMutex`, `m_msgQueue` | `Init`, `Cleanup`, `PushMessage`, `PrintBufferedMessages`, `UIUpdateLoop`, `PromptInput`, `RedrawInputLine` |
| NetworkSession | `common/src/network_session.cpp` | `m_socketfd` | `SendPacket`, `RecvPacket`, `CloseSession`, and `send_all`/`recv_all` below them |
| Debug | `common/src/debug.cpp` | a bounded queue of log lines and its mutex | `Log` and `m_log`, `DumpToFile`, `Flush` (which nobody calls) |
| Style, the two `main.cpp` | `common/src/style.cpp` | none | escape sequences; parsing of `argv` |
| libsodium, TCP, ncurses | outside the sources | | used through calls |

**How they interact.** A client connects, sends its public key as a packet, and
gets the server's public key and the group key sealed for it; then it sends a
sealed username. From there on every packet of a registered client is forwarded,
unopened, to all registered clients, its sender included. The server announces
arrivals and departures with packets of its own. Server and clients share
nothing but the TCP connections. Within the server there is a single thread
(`m_clientsMutex` is never contended; it can only be locked twice by the same
thread). Within a client three threads share the session, four flags, the
queue of messages and the screen, and the main thread waits for them.

**What is hard, and what makes each part correct.**

- *Server: nested disconnects.* `BroadcastEncrypted` iterates over `m_clients`;
  a failed send makes it call `DisconnectClient`, which erases from `m_clients`
  and calls `BroadcastEncrypted` again. Correct if nothing is erased under an
  iterator, if the recursion ends, and if whatever fails half way through a
  loop the surviving members still see the same messages in the same order.
- *Server: old events.* The events of one `epoll_wait` are handled one after
  another while each handler may disconnect the clients of later ones.
  Correct if no handler uses the `ClientInfo` of a client that is gone, and
  if such an event is harmless.
- *Server: two sets that must agree.* `m_usernames` duplicates what the
  registered entries of `m_clients` say, and descriptors are reused by the
  kernel. Correct if names and descriptors are neither leaked nor shared.
- *Server: failures of the peer.* A peer may stop in the middle of a packet,
  close, or reset at any moment, and each send or receive may be the one that
  learns of it. Correct if the departed client is removed and announced and the
  server goes on.
- *Client: stopping.* Any of the three threads may decide to stop, two at the
  same time, while another sits in `recv()`, waits for a lock or is about to
  send. Correct if everything ends, the session is closed, the windows are
  deleted after their last use, and the reason reported is the real one.
- *Server: setting up.* A failed step of `Start` or `SetupListener` calls `Stop`
  and goes on. Correct if the event loop only ever runs with a listening socket
  and an epoll instance, and a server that could not be set up ends.
- *Client: the screen.* Two threads draw, one of them also reads keys; messages
  wait in a queue between the thread that receives and the one that prints.
  Correct if they appear once, in order, and the log tells the whole story.
- *Client: the input line.* A string and an index edited key by key, with key
  codes that are also letters, and returned unfinished when the client stops.
  Correct if it is the line the user believes to be editing.
- *NetworkSession.* A packet is a length and a body, read and written in pieces.
  Correct if whatever the cuts, the buffers and the moment at which a connection
  ends, nobody sees a part of a packet or two mixed.
- *Everything together.* Every write blocks when the other side does not read.
  Correct if blocked writes never wait for each other in a circle.

The list with the exact line of each hazard, and the properties that would catch
it, is `hazards` in `PROJECT.json`.

## Modules

| Module | What it is |
| --- | --- |
| `TcpEndpoint` | One end of a TCP connection as `send`, `recv` and `close` can tell its states apart (external). |
| `ChatMessages` | What a member of the room can receive. |
| `Server` | The server, from `main` to its end, and its peers: the detailed model. |
| `ChatRoom` | What the server promises its members: the abstract specification. |
| `ServerRoom` | The refinement mapping from `Server` to `ChatRoom`. |
| `ServerProofs` | Theorems about `Server`. |
| `ChatRoomProofs` | Theorems about `ChatRoom`. |
| `ServerRoomProofs` | The proof that `Server` implements `ChatRoom`, and what follows. |
| `MCServer` | Instances of the server for TLC. |
| `Client` | One client process with its four threads. |
| `ClientProofs` | Theorems about `Client`. |
| `MCClient` | Instances of the client for TLC. |
| `Framing` | The packets of `network_session.cpp` as operators on sequences of bytes. |
| `PacketChannel` | What `NetworkSession`s promise of the packets on a connection: an abstract specification. |
| `Relay` | Several clients and the server, byte for byte, over connections of bounded capacity; implements a `PacketChannel` in every direction. |
| `FramingProofs` | Theorems about `Framing`: what a header decodes to, and streams made of frames. |
| `RelayProofs` | Theorems about `Relay`: its invariants, and that it implements `PacketChannel`. |
| `MCRelay` | Its instance for TLC. |
| `LineEdit` | A line with a cursor as the user understands it: an abstract specification. |
| `LineInput` | `PromptInput` with its string and its index; implements `LineEdit`. |
| `LineInputProofs` | Theorems about `LineInput`: the index stays in the string, and it implements `LineEdit`. |
| `MCLineInput` | Its instance for TLC. |
| `DebugLog` | The class `Debug`. |
| `Terminal` | The messages, the screen and the log of one client, on top of `DebugLog`. |
| `TerminalProofs` | Theorems about `Terminal` and `DebugLog`. |

`Server` and `Client` are the two processes with their system calls and threads;
both use `TcpEndpoint`, and packets are atomic in them. `Relay` composes the two
sides below that level: it has the bytes, the buffers and the blocking calls, and
leaves out what the other two have (the handshake, threads inside the client,
events). `LineInput` and `Terminal` refine the data of two of the client's
threads, which `Client` abstracts. No module has a recursive operator: the
mutual recursion of the broadcasts is an explicit stack, and the powers of the base in
`Framing` are a recursive function.

## How the models correspond to the code

### TcpEndpoint

The states are those the two programs can distinguish on Linux with blocking
sockets, `send()` with flags 0, and SIGPIPE at its default: open; closed by the
peer (reads drain and then return 0, sends succeed and are lost); reset with the
error not yet reported (the next send, or the read that has drained what arrived,
returns -1); and dead (reads drain and return 0, a send raises SIGPIPE). `shutdown()` by the process itself, which only the client
does while it may still send, is a flag beside it (`SendKillsShut`).

### Server

| Model | Code |
| --- | --- |
| `m_clients`, `key_exchanged`, `registered`, `username` | the map `m_clients` and the fields of its entries; as the map is keyed by descriptor, each field is a set of, or a function on, descriptors |
| `m_usernames`, `m_clientsMutex` | the members of the same names |
| `pc`, `cur`, `pkt`, `batch` | where the thread is; the `ClientInfo&` and the packet of the handler; the events of `epoll_wait` not handled yet |
| `fwd` | the rest of the forwarding loop at the end of `HandleClientEvent` |
| `stack` | the activations of `BroadcastEncrypted`, innermost first: the text, the rest of its first loop, the rest of its `removeList` |
| `tcp`, `inbox`, `half`, `backlog` | the kernel: the endpoint of each descriptor, packets that arrived in full, descriptors on which a packet is arriving, connections not accepted yet |
| `got` | the packets the kernel took for each client, i.e. what that client can ever have seen |

A handler is cut into actions where a system call, whose result depends on what
the peers did meanwhile, separates two effects; between two such calls the code
runs in one action. In detail:

- `EpollWait` returns all ready descriptors, or `MAX_EXENTS` of them; each later
  step picks any event of the batch, which covers every order of the array.
  `DispatchListen`, `DispatchClient`, `StaleEvent` and `EndOfBatch` are the body
  and the end of the `for` loop.
- `Accept`, `AcceptUnwatched` (`epoll_ctl` failed) and `AcceptFails` are the loop
  of `HandleNewConnection`. A descriptor can be returned as soon as it is closed,
  so the reuse of descriptors within a batch is covered. `accept()` may fail at any
  time, with the connection in front left in the queue (no descriptor, no memory) or
  taken off it (aborted).
- After a reset the beginning of a packet stays readable (`half`). If a send whose
  result is ignored took the error, as in the forwarding loop, `RecvPacket` reaches an
  ordinary end and returns that packet padded.
- `RecvPacket`, then by the state of the client and the packet: `BadPublicKey`,
  `SendServerKey`, `SendGroupKey`, `BadHandshake` (key exchange);
  `BadUsername`, `UsernameUnderflow`, `UsernameTaken` with `RefuseUsername`, and
  `Register` with `PrintConnected` (username); `LostMember`; `StartForward`,
  `ForwardSend`, `ForwardDone` (forwarding).
- `DisconnectClient` is `CloseSession` and `EraseClient`; the announcement that
  follows in the code is the frame the calling action pushes.
  `BroadcastSend`, `BroadcastRemove` and `BroadcastReturn` are the two loops of
  `BroadcastEncrypted` and its return.
- `SigPipe` is the other outcome of every send: the process is killed.
- `Main` is `main.cpp` up to the call of `Start`; `CreateSocket`, `Bind` and `Listening`
  (each a `SetupStep`), `CreateEpoll` and `WatchListener` are `SetupListener` with the
  set-up of epoll. Each call may fail, and a failure runs `Stop` and goes on with the
  next call, as the code does; the result of the `epoll_ctl` for the listener is not looked
  at, so `watched` may stay FALSE. `EpollError` is an `epoll_wait` that fails, a stop signal
  included, and `NotRunning` the loop that is not entered without `m_running`.
- A packet is one of: 32 bytes that `crypto_box_easy` takes as a key or
  rejects, too few bytes for a nonce, a box that does not open, or a text. For a
  registered client only its sender matters, as the server forwards it unopened.
- `MutexBlocks` chooses what locking a mutex the thread already owns does: TRUE
  is what glibc does, FALSE lets the code behind it run, so that the other
  properties are also checked on the state it would leave.

### ChatRoom and ServerRoom

`ChatRoom` has seats with a name and the list of messages the member received.
Every action tells a message to all members in one step. A member whose
connection is dead is `lost`: it keeps its name and receives nothing until the
server announces its departure. In `ServerRoom` the messages of a member are
those its socket took plus the one that the running loop still owes it. A
broadcast that is interrupted by failures, by resets or by the end of the
process is thus still one step of the room, and `ImplementsRoom` says that every
step of the server is a step of the room or none.

### Client

| Model | Code |
| --- | --- |
| `m_stopping`, `m_running`, `m_uiActive`, `m_exitReason`, `running`, `m_mutex`, `m_queueMutex`, `m_msgQueue` | the members of the same names of `Client` and `NcursesUI` |
| `m_socketfd`, `fdOpen`, `shut` | the field of `NetworkSession`; the descriptor in the kernel; the effect of `shutdown()` |
| `tcp`, `inbox`, `srv`, `served` | the connection and the server at its other end |
| `windows`, `dumped`, `ended` | the life of the windows, `log.txt`, how the process ended |
| `pc[t]` | where each of the threads `main`, `net`, `input` and `ui` is |
| `faults` | history: what the server did that the user should hear of |

A step ends before every access to something that another thread writes. So
`Stop` is `StopEnter` (the test), `SetStopping`, `ClearRunning`,
`ClearUiRunning`, `Shutdown`, `Close` and `Forget`, on whichever thread runs it;
the read of `m_socketfd` and `fdOpen` by a thread that is about to send or
receive may fall between any two of them. A call that is blocked in `recv()`
keeps its socket when the descriptor is closed, and a second `recv()` for the
body of the packet finds it closed (`ReturnRecv`). `RedrawInputLine`/`Draw` and
`LockBoth` to `Unlock` hold the mutexes as `lock_guard` and `std::lock` do;
`GetChar` holds none, as in the code. `PrintThrows` is `from_utf8` throwing on a
text that is not UTF-8. `StartFailed` is the `catch` of `Start`.
The line editor is abstracted to what `PromptInput` would return: nothing, a text
or `/exit`; `LineInput` has the editor itself.

### Framing, PacketChannel and Relay

`Framing` says what `SendPacket` writes (`Frame`), how many bytes `RecvPacket` still
waits for (`Wanted`) and what it returns if the stream ends early (`ReturnedAtEnd`).
The last one is not what one expects: `recv_all` returns the number of bytes it has
got when `recv` returns 0, and `RecvPacket` only tests for a result that is not
positive. So a header cut short leaves the rest of `netLen` zero, and a body
cut short is returned at its full length with zeroes at the end.

A byte is a record: a digit of a length, or the i-th byte of a certain sealed text.
The bytes of a sealed text are thus never mistaken for those of another or for a
zero, which is what the MAC of `crypto_secretbox_easy` gives. `Header` writes the digits
of a length, most significant first, as `htonl` lays them out. `Length` is the number
whose header the given bytes are, which is what `ntohl` computes. In the run the scale is
reduced: `HeaderSize` is two digits in base 2 instead of four in base 256, so that a
truncated header can mean each of the things it may mean.

In `Relay`, `SubmitLine` and `ClientSend` are `SendEncrypted` with the loop of
`send_all`; `ClientRecv`, `ClientPacket` and `ClientEof` are `HandleBroadcast` over
`RecvPacket`. The server is one thread: `Dispatch`, `ServerRecv`,
`ForwardPacket`/`ForwardDamaged`/`LostClient` are `EventLoop` and the receiving end of
`HandleClientEvent`, where the server stays until the packet is complete;
`NextMember`, `ServerSend`, `ServerSendLost`, `ServerSendFails` and `SendDone` are the
forwarding loop and that of `BroadcastEncrypted`; `RemoveFailed` is its `removeList`. A
send to a full buffer is simply not enabled. The server forwards packets unopened,
damaged ones included. `Leave` ends a client anywhere, also in the middle of a packet.

There are two kinds of RST. `Reset` answers a `close()` that left bytes unread: what had
not reached the server is lost, what had stays readable, and the error is reported
once, by a `recv()` that has read the rest or by a send. A send of the forwarding loop
ignores it (`ServerSendFails`), and then the rest ends like after a FIN: a packet cut short
comes out padded (`ForwardDamaged`). `ResetLate` answers bytes that arrive after the close;
the connection is shut in both directions by then, so the next send raises SIGPIPE
(`dead`, `ServerKilled`). `ServerEnds` is the end of the server's process at any moment, by a
signal above all, also with a packet half sent; where it leaves bytes unread its own kernel
resets the connection, and the client loses what it had not got.

A client shows what it reads (`Shown`) up to the first packet that does not open, where
`HandleBroadcast` ends. `DamagedForms` has all that may become of a packet that is cut
short.

`PacketChannel` is instantiated once with a link per direction and client. Links take
steps independently, since forwarding to one member is a step on one link.

### LineInput and LineEdit

`input` and `cursorPos` are `PromptInput`'s. `wget_wch` returns a code and, beside it,
whether it is that of a key (`KEY_CODE_YES`); the code drops the second, and `Switch`
has what it does with the first. `LineEdit` has the text on the left and on the
right of the cursor instead of an index, and does what each stroke means. `TakenFor`
names the exceptions, which are what the code does and a user would not expect: the
letter with the code point 263 erases, and the unnamed key 410 (the one curses reports
when the window is resized) inserts a letter. Every other stroke must do what it
means, and the line returned must be the one shown.

### Terminal and DebugLog

`DebugLog` is the queue of `debug.cpp`: every operation is one action, because each
holds the mutex from beginning to end. `Terminal` has the calls of `Log` by all
four threads from `StartThreads` to `DumpLog`, at the places where they stand, those of
`RecvDecrypted` for a packet that does not open included (`UnreadablePacket`; the two texts
are one), and the way of a message from `RecvDecrypted` through `m_msgQueue` to the window.
Every test of `running` is a step of its own (`TestRunning`, `PushMessage`), so what follows
it may find the flag cleared; `PushToQueue` and `PrintBufferedMessages` are one action each,
because they run under their locks.
`PrintThrows` leaves the queue as the exception does: what came before the
offending message has been popped and added to the window but never refreshed.

## Runs

All of these finish within four minutes each on two workers, most of them in one.

| Run | Instance | What it shows |
| --- | --- | --- |
| `server_any` | 2 descriptors, 3 connections, any packet, batches cut by `MAX_EXENTS` = 2, the mutex not blocking | `TypeOK`, `DescriptorsOwned`, `NamesOwned`, `HandlerRefLive`, `ServesWhenSetUp`: the registry is exact under peers that send anything, close in the middle of a packet and reset, with descriptors reused; and no failure of the set-up lets the loop run without what it needs |
| `server_nested` | 3 clients that behave until they leave or reset | `IterationSafe`, `NestingBounded`: broadcasts nest three deep and nothing is erased under a loop |
| `server_room` | 2 descriptors, 3 connections | `ImplementsRoom`, `MembersAgree`, `NoGhostMembers`: one total order of messages, and nobody believes in a member whose departure was handled |
| `server_live` | 2 descriptors, 3 connections, `FairSpec`, the mutex not blocking | `DepartedRemoved`, `ConnectionsServed`: who leaves is removed, and who finds no descriptor left, or an `accept()` that fails, is accepted after a departure |
| `server_taken`, `server_stale`, `server_sigpipe` | 2 clients, fairness in the first and the last | three disagreements with what the code says of itself, below |
| `client` | any packets from the server, 2 after the handshake, 2 unread, `FairSpec` | `TypeOK`, `LogOnlyOnError`, `JoinedIsStopped`, `WindowsOutliveThreads`, `StopEnds`, `ServerGoneEnds`: concurrent calls of `Stop` end in a closed session, and there is no deadlock among the locks, the joins and `recv()` |
| `client_terminal` | well-behaved room | a disagreement, below |
| `relay` | 2 members, 3 lines, buffers of 2 bytes, `FairSpec` | `ImplementsChannels`, `SameLines`, `ToldOnce`, `LinesAsTyped`, `EndsOnlyByCut`, `Delivered`: whole packets in order on every connection; everybody shows the same lines; each packet is told once, in the order of its sender, and nothing after its farewell; what is shown of a user is what was typed; a client is told that the server is gone only if it is or a member was cut off; blocking writes do not wait for each other |
| `line_input` | 15 strokes, 6 of them in a row | `ImplementsEditor`: the string and the index are the line the user edits |
| `terminal` | 3 messages, a log of 4 entries | `MessagesInOrder`, `LogKeepsNewest`, `DumpIsComplete`: nothing is shown twice, out of order or forgotten, and the file ends with why the client ended |

**Bounds.** `MaxConns`, `MaxPackets`, `MaxInbox` bound what the peers do, never
what the server does: the server's data is bounded by the descriptors. Two
descriptors with three connections give reuse of a descriptor within a batch,
a name taken, refused and given again, and a broadcast that loses one of its
recipients. The third client in `server_nested` is what a nested broadcast
needs to fail in its turn: the first departure is announced to two, of whom
one is dead, whose departure is announced to the last, dead as well. Six
packets there are three handshakes and three usernames or lines. One unread
packet per connection is enough to have
an event wait behind the handler that makes it stale. For the client, two unread
packets let a message be behind the one that ends the session; the queue of the
code has no bound. The theorems below do not depend on any of these bounds.

In `relay` a connection holds two bytes, less than the shortest packet, so every send
needs several rounds and blocks, and every read crosses the bytes in flight; with
two members both directions of both connections can be full at once, which is the
circle `Delivered` excludes. One client has two lines to say, so that one can
be submitted while the other is forwarded; the texts have one or two bytes, so that
a header of which only the first digit arrived is a length of zero for one and of
two for the other. In `line_input` six strokes are two letters, two movements, an
editing key and Enter, or an editing key at either end of a line that others have
edited. In `terminal` a client logs at least twelve entries, so a log of four
overflows in every behaviour that reaches the end.

**Symmetry** of descriptors and names is used only in runs of invariants, and in
`server_room`, whose property is a `[][Next]` without fairness. The order in which
`m_clients` is iterated, the only place where the code could tell descriptors
apart, is arbitrary in the model.

**Deadlock** is not checked: a process ends, and the peers are bounded. That
nothing waits for ever is what the liveness properties say.

**Mutants.** Beside the code's own definitions the modules hold a few marked
`Mutant`: the same definition with a plausible slip (a forgotten guard, a
missing erase, an announcement before the flag is set). They are not part of
`Next`; put in the place of the original each makes TLC find the property that
`PROJECT.json` pairs it with violated.

## Fairness

*Server.* `WF(ServerStep)`: the single thread runs whenever it can, and each
action of it is a call that returns. A receive returns only when a packet is
complete or the connection ended, and `RecvPacket` in the code does wait for that
without a timeout; so `FairSpec` also has a peer that began a packet finish it or
leave, and one that connected send its key or leave, as `Client::Start` does. `Accept` gets
strong fairness: an error of `accept()` passes, and the listener is level-triggered, so the
call is repeated until one succeeds. The
code itself does not enforce this: a peer that stays silent half way through a
packet blocks the server for everybody. Nothing is asked of peers otherwise; they
need not send, close or read.

*Client.* Weak fairness of each thread, which the scheduler gives, and of the
main thread's last steps. Taking `m_queueMutex` in `PushMessage` gets strong
fairness: `UIUpdateLoop` locks it again and again, but sleeps 50 ms with the
mutex free in every round, so a waiting thread gets it. Nothing is asked of the
server or the user, hence `ServerGoneEnds` starts from the state in which the
connection has ended; and no key need ever be typed: `wget_wch` has a timeout.

*Relay.* Weak fairness of the server's thread, and of the sending and the receiving
thread of every client: both may always take another step of their own. Users need not
type or leave, nothing has to end the server, and a RST may take any time.

`ConnectionsServed` excuses the server in three cases which the code does not handle: all
descriptors stay taken for ever (by clients that stay, or that ended before the key
exchange), the listener is not watched because its `epoll_ctl` failed, or the server has
ended or blocked on its own mutex (the finding below). That there is no descriptor at the
moment is no excuse. A connection that `AcceptUnwatched` closes, or that an error of `accept()`
takes off the queue, counts as served: the peer gets its answer. `Delivered` excuses a sender that leaves and a server that ends.

## Proofs

`ServerProofs` proves, for all finite sets of descriptors, all sets of names and
packets, either meaning of the mutex and all bounds (`ServerAssumption`):

| Theorem | Statement |
| --- | --- |
| `TypeCorrect` | `Spec => []TypeOK` |
| `DescriptorsAreOwned` | `Spec => []DescriptorsOwned` |
| `NamesAreOwned` | `Spec => []NamesOwned` |
| `LoopsAreSafe` | `Spec => []IterationSafe` |
| `HandlerRefsAreLive` | `Spec => []HandlerRefLive` |
| `NestingIsBounded` | `Spec => []NestingBounded` |
| `ServesOnlySetUp` | `Spec => []ServesWhenSetUp` |

The argument for the first five is one inductive invariant,

    SafeInv == TypeOK /\ DescriptorsOwned /\ NamesOwned /\ IterationSafe
               /\ HandlerRefLive /\ Control

None of its parts is inductive alone. A broadcast frame may only name registered
clients, which an erase preserves only because the erase happens when the
first loop of every frame is over (`IterationSafe`); the name removed is
that of the client erased and no other's because names are unique
(`NamesOwned`); a handler's client exists because the events before it are done
with theirs. `Control` ties the program counter to the
locals: the stack is empty exactly outside a broadcast, `fwd` is empty except
while forwarding, and the sender of what is forwarded is registered. There is one lemma per group of actions
(peers, loop, handlers, broadcasts) and one for `DisconnectClient`; `PushFrame`,
`PopFrame` and `ChangeTop` say what the three operations on the stack do.
`NestingIsBounded` has a step lemma of its own on top of `SafeInv`
(`NestingStep`): the first activation starts on an empty stack, every later
push comes with an erase, and a client is accepted only on an empty stack, so
the depth of the stack and the number of clients together stay within one more
than the number of descriptors. `ServesOnlySetUp` rests on `SetupInv`, which follows
`SetupListener` call by call: while `m_running` holds, the descriptor is in the state that
the calls so far have brought it to, and no client exists before the loop begins.

`ChatRoomProofs` proves of the room, for all sets of seats and names:

| Theorem | Statement |
| --- | --- |
| `RoomIsOrdered` | `Spec => []OneOrder` |
| `RoomHasNoGhosts` | `Spec => [](NoGhosts /\ UniqueNames)` |

Together with `RoomType` they are inductive as they stand (`RoomInvariant`). `TellSafe` is
the one lemma behind every action in which all members hear the same message: feeds that
agreed still do (`AgreeAppend`), and who is believed present changes only as the message
says (`PresentAppend`). A new member is its own case (`JoinSafe`): its only message
is the latest one of everybody else.

`ServerRoomProofs` proves that the server is such a room, under `ServerAssumption`:

| Theorem | Statement |
| --- | --- |
| `ServerImplementsRoom` | `Spec => ImplementsRoom` |
| `MembersAlwaysAgree` | `Spec => []MembersAgree` |
| `MembersSeeNoGhosts` | `Spec => []NoGhostMembers` |

The first is a step simulation under `MapInv`, which adds two facts to `SafeInv`: a client
whose handshake or name is being refused is no member, and a client that is no member has
received nothing of the room. Few steps are steps of the room: the first step of a
broadcast or of a forwarding loop is the whole message (`RegisterMapped`, `StartForwardMapped`,
`MemberLeaves`), and the step in which a connection dies is the loss of its member
(`ConnectionStep`). A send moves a message from what a member is owed to what it has
received, so the sum stays (`SendMapped`); when an activation of `BroadcastEncrypted` removes
a client or returns, nobody is owed anything, and the activations
below it owe nothing either, which is `IterationSafe` (`BroadcastRemoveMapped`,
`BroadcastReturnMapped`). The other two theorems are those of `ChatRoomProofs`, instantiated
with the mapping.

`ClientProofs` proves, for every set of packets the room may send and all bounds
(`ClientAssumption`):

| Theorem | Statement |
| --- | --- |
| `ClientTypeCorrect` | `Spec => []TypeOK` |
| `JoinedAreStopped` | `Spec => []JoinedIsStopped` |
| `WindowsOutlive` | `Spec => []WindowsOutliveThreads` |
| `LogsOnlyOnError` | `Spec => []LogOnlyOnError` |

Again there is one inductive invariant,

    ClientInv == TypeOK /\ Phases /\ StopOrder /\ Screen /\ Blame

`Phases` says which threads exist while `main` is where it is. `StopOrder` is why two
unsynchronised calls of `Stop` are enough: a thread that finds `m_stopping` set and leaves
at once may do so only because another one is still in the part of `Stop` that clears
whatever is not cleared yet, or is about to close what is not closed yet; when all three
are done nobody is in that part, so nothing is left. `Screen` ties the mutex of the
screen and the windows to the threads that use them. `Blame` is the argument that an
ordinary exit looks ordinary: a receive that fails, a packet that does not open and
an end of the connection each imply that the server did something wrong or that this process
had begun to stop, which it says (`m_stopping`) before it shuts the socket down.
The lemmas are one per thread (`MainSafe`, `NetSafe`, `InputSafe`, `UISafe`), one for the
server (`ServerSafe`) and one for `Stop` on any thread (`StopSafe`).

`LineInputProofs` proves, for every set of strokes in which keys have the codes that
`ncurses.h` gives them, above 256, and any number of them (`InputAssumption`):

| Theorem | Statement |
| --- | --- |
| `CursorInLine` | `Spec => []TypeOK` |
| `InputImplementsEditor` | `Spec => ImplementsEditor` |

The first says that the index `PromptInput` passes to `insert` and `erase` is one of its
string. It is inductive as it stands; the lemmas `Inserted` and `Removed` give the length of
the string after either call and `SwitchSafe` compares it with the cursor, case by case.
The second shows that every step of `PromptInput` is an edit of `LineEdit` or none. A string and
an index determine the text on either side (`SplitParts`) and the other way round
(`SplitConcat`), so each operation on them has a lemma that says what it does to the two
sides (`Erasing`, `MovingLeft`, `RightPart`, `Deleting`, `Inserting`, `Ends`). `SwitchDoes`
pairs the cases of the switch with the meanings of the strokes; those at
the ends of the line, where nothing happens, are included.

`TerminalProofs` proves every property of `Terminal`, for any number of messages and any
limit of the log of at least the two entries made before the threads start
(`TerminalAssumption`; the code has 10000):

| Theorem | Statement |
| --- | --- |
| `TerminalTypeCorrect` | `Spec => []TypeOK` |
| `MessagesStayInOrder` | `Spec => []MessagesInOrder` |
| `LogKeepsTheNewest` | `Spec => []LogKeepsNewest` |
| `DumpsAreComplete` | `Spec => []DumpIsComplete` |

There are two inductive invariants. `MessageInv` adds to `MessagesInOrder` that
`HandleBroadcast` holds a message only between `RecvDecrypted` and `PushMessage`, so that the
screen, the queue and that message together are always what was received
(`MessagesMove`); every other step leaves the messages alone (`OthersKeepMessages`).
`LogInv` adds to the two properties of the log that the file is empty until `Start` writes it,
and that the threads have ended by then (`LogIsOver`), which is why nobody logs afterwards.
`LogOne` is the one lemma for each of the calls of `Log`: a suffix stays one when both ends
grow and the oldest entry goes (`SuffixAppend`).

`FramingProofs` and `RelayProofs` prove the byte level, for every set of clients, any lines,
any width and base of the header, any lengths that fit into it and any capacity of the
connections (`FramingAssumption`, `RelayAssumption`):

| Theorem | Statement |
| --- | --- |
| `LengthOfHeader` | `Length(Header(n)) = n` for every length that fits |
| `StreamsReadOneWay` | `Framed(bs, ps) /\ Framed(bs, qs) => ps = qs`: a stream is the frames of one sequence of packets only |
| `RelayTypeCorrect` | `Spec => []TypeOK` |
| `RelayImplementsChannels` | `Spec => ImplementsChannels` |
| `MembersShowSameLines` | `Spec => []SameLines` |
| `MembersToldOnce` | `Spec => []ToldOnce` |
| `LinesArriveAsTyped` | `Spec => []LinesAsTyped` |
| `ChannelsKeepOrder` | `Channels!Spec => []Channels!InOrder` |
| `PacketsArriveInOrder` | `Spec => []Channels!InOrder` |
| `RelayEndsOnlyByCut` | `Spec => []EndsOnlyByCut` |

The inductive invariant is

    IndInv == TypeOK /\ ControlInv /\ PacketInv /\ UpInv /\ DownInv /\ OrderInv

Its core is one statement about streams, `Flow(rx, rest, ps)`: what `RecvPacket` has got of
a packet (`rx`) and what is still to come (`rest`) are together the frames of the packets
`ps`, one after the other, and `rx` is no more than the first of them. `UpInv` says it of
the way from each registered client to the server, `DownInv` of the way back, where `rest` is what
the connection holds, followed by what `send_all` has yet to send, and `ps` are the packets
the receiver has yet to return. There is a third part, the bytes that are lost: on the way up
because the client closed its socket in the middle of a packet or a RST dropped what had not
reached the server, on the way down because the server ended. Packets are intact, but for the
last one made of a stream that lost something, behind which nothing is left to read. The
lemmas about `Flow` are one for each thing that happens to a stream: `FlowSend` (a frame is
appended), `FlowRecv` (a byte moves from `rest` to `rx`), `FlowReturn` (nothing is wanted any
more, so `Body(rx)` is the first packet), `FlowEnd` and `FlowDry` (the stream ends early, and
what `RecvPacket` makes of that is one of `DamagedForms` of the packet that was under way).
They rest on `LengthOfHeader`: the receiver waits for exactly the bytes the sender put
behind the header (`FlowWanted`). `ClientSend` and `ServerSend` need no lemma of their own: a byte that
goes from `send_all` to the connection leaves the concatenation of the two as it was
(`MoveHead`).

`PacketInv` says that every packet the server is sending, or has sent, opens unless some
client was cut off, from which `EndsOnlyByCut` follows. `OrderInv` says that there is one
log of packets: while the server runs, members that are registered have been told all of
it, but for the packet the running loop has yet to give them; everybody else has been told
a beginning. Every
client reads a beginning of what it was told, so any two of them show beginnings of the
same log (`ShownOfLog`, `PartsOfLog`), which is `SameLines`. The log also has an account
(`Accounted`): an injection that gives each of its packets the client and the place among
what the server heard from it, or the client's farewell; and everything the server heard is
in it. `AccountMore` is the step in which the log grows: what is forwarded has just been heard,
and a farewell is that of a client that is erased in the same step, so neither was in the
account before. A beginning of the log has a beginning of the account (`TracedPart`), which
is `ToldOnce`. With `SameLines` and `Delivered` that is a total order broadcast: one order,
nothing invented or repeated, and everything delivered that can be.

For the refinement,
`FromStep` and `ToStep` say what a step does to the packets sent and returned on either
link of a client, and `LinkStep` is the same in terms of `PacketChannel`. What a client
returns of the packet that was under way when the server ended is a case of its own
(`LastRead`).

The refinement is then put to use. What a receiver may rely on is a property of the abstract
channels alone (`InOrder`): the i-th packet it got is the i-th that was sent, or a damaged form
of the last one of an end that was closed. `ChannelsKeepOrder` proves it of `PacketChannel`,
with one lemma for each step of a link, and the refinement carries it over to the bytes
(`PacketsArriveInOrder`). `LinesArriveAsTyped` joins the two halves of the way: what the server
heard from a user and opens is the line of that number (`HeardWasTyped`), as damage does not
open (`DamagedDoesNotOpen`); and the account of `OrderInv` leads from what a member shows to
what the server heard. So nothing made of a truncated packet is ever shown, although the server
forwards it.

The library's induction theorems take a predicate as a parameter, which these provers
cannot instantiate. `LengthOfHeader` needs induction over the natural numbers twice, for the
powers of the base and for the digits of a number, and `StreamsReadOneWay` once, for the number
of packets; `AllNaturals` supplies it in the form of a statement about sets: a set of naturals
with 0 and all successors is `Nat`, because the least number missing could be neither. The
steps of `Relay` need no induction over the packets of a stream: `Framed` has the remainders
of the stream behind each packet as one function.

**Only model-checked:** the liveness properties `DepartedRemoved`,
`ConnectionsServed`, `StopEnds`, `ServerGoneEnds` and `Delivered`, as fairness and ENABLED
are outside what the provers here do. Every other property of a passing run is the
statement of a theorem.

## What the models found

Four disagreements between the code and what it says of itself have a run whose
counterexample shows them:

1. `server_taken` (`server.cpp:376`): refusing a name in use disconnects the
   client while `m_clientsMutex` is held, and `DisconnectClient` locks it again.
   The thread waits for itself, and the server serves nobody any more.
2. `server_stale` (`server.cpp:189`): an event whose client was disconnected
   earlier in the batch makes `EventLoop` *return* where it should go on to the
   next event; the server ends for everybody. It takes a send to one client that fails
   in a broadcast in the same batch that reports its end.
3. `server_sigpipe` (`network_session.cpp:114`): `send()` without
   `MSG_NOSIGNAL` on a connection whose reset was reported already kills the server,
   where `BroadcastEncrypted` would put the member on its `removeList` and go on. In the
   run a client is reset while it joins, a handshake send (whose result is ignored) takes
   the error, and the broadcast of its arrival is the send that kills.
4. `client_terminal` (`ncursesUI.cpp:239`): a client that another thread stops while a
   line is half typed sends that line. The property is restricted to a server that stays
   (neither closes nor resets the connection), so what kills the process is its own
   `shutdown()`: the network thread stops because of the name, shuts the socket down, and
   the send of the half line raises SIGPIPE with ncurses still active. (A connection that
   the server reset does the same.)

Further remarks from reading, which the models take into account but no run is
about: a client that ends before the key exchange is never removed
(`server.cpp:281`), its descriptor stays open and, being readable for ever, keeps
the loop busy; a username packet of 24 to 39 bytes makes a length wrap around
(`server.cpp:349`, `UsernameUnderflow`); the line after the connect broadcast uses
a reference the broadcast may have erased (`server.cpp:386`, `PrintConnected`);
with no descriptors left `accept` fails and the level-triggered listener keeps the
loop busy until one is free (`server.cpp:211`, `AcceptFails`); `Client::Stop` ignores its argument.
A client that dies in the middle of a packet makes the server forward a damaged one
(`network_session.cpp:91`), on which every other client reports that the server closed the
connection (`client.cpp:338`): `EndsOnlyByCut` and `DamagedForms` say exactly when.
Some letters edit and some keys type (`ncursesUI.cpp:198`, `TakenFor`). A message that
is not UTF-8 takes those waiting in front of it off the queue unseen (`PrintThrows` of
`Terminal`).

## What is not modelled

- About three quarters of the lines of C and C++ under `src/` are the headers of
  libsodium in `vcpkg_installed`: declarations of functions whose code is not here. Of
  libsodium the models use only that a box opens under its key or does not.
- A client that never reads, on which the server's `send()` blocks for ever: clients of this
  repository do read (`HandleBroadcast`), and `Relay` has them do so under fairness. In
  `Server` sends take no time.
- The bytes of the handshake and of the username packet: `Server` has what the checks on
  their lengths tell apart, and packets cut short as `Framing` derives them.
- What the windows look like: widths, wrapping, scrolling, colours and the horizontal
  scroll of the input line; `Style`, which only builds escape sequences and keeps no state.
- The data races on plain variables as such (the flags are atomics; the
  descriptor in `NetworkSession` is not): the model gives every access the
  values another thread may have written, which is what the compiled code does.
  `wget_wch` refreshing the screen while another thread draws, and the static buffer behind
  `localtime` in the log, race on data the models do not have.
- `argv` of the client, parsed before anything else runs; `Debug::Flush` and
  `NcursesUI::GetInputChar`, which nobody calls.

## Plan

Done: the server with its life cycle, the room and the refinement between them; the
client; the byte level (`Framing`, `Relay`); the input line; the screen and the log; the
safety proofs of all of them, and the proofs of the refinements of the room, of the line
editor and of the packet channels, with what follows from them. What is left: the composition
of `Server` with the handshake at the byte level, which is out of TLC's reach at a size where
anything interesting happens.

## Running it

    tlc -workers 2 -config MCServer_room.cfg MCServer
    tlc -workers 2 -config MCClient.cfg MCClient
    tlc -workers 2 -config MCRelay.cfg MCRelay
    tlc -workers 2 -config MCTerminal.cfg Terminal
    tlapm ServerProofs.tla
    tlapm ChatRoomProofs.tla
    tlapm ServerRoomProofs.tla
    tlapm ClientProofs.tla
    tlapm LineInputProofs.tla
    tlapm TerminalProofs.tla
    tlapm FramingProofs.tla
    tlapm RelayProofs.tla

The runs, the definitions they check, the theorems, and the lines of
code each definition stands for are listed in `PROJECT.json`.
