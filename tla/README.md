# YFTP in TLA+

YFTP is a small file-transfer service: a server that executes file commands for
its clients over one TCP connection each, and a command-line client. This
directory holds TLA+ modules of its concurrent core and of its command handlers,
TLC configurations that check them on small instances, and TLAPS proofs of the safety
of every component for all instances.

* [1 The system](#1-the-system): components, state, interactions, what is hard
* [2 Modules](#2-modules): which module models which code, and how
* [3 Runs](#3-runs): what each run checks, its bounds, what it shows
* [4 Fairness](#4-fairness)
* [5 Proofs](#5-proofs)
* [6 Findings](#6-findings)
* [7 Abstractions and what is not modelled](#7-abstractions-and-what-is-not-modelled)
* [8 Plan](#8-plan)
* [9 Using the project](#9-using-the-project)

Paths such as `server/src/Session.cpp:105` are relative to the repository.

---

## 1 The system

### 1.1 Threads and the way of a request

```
 client process                            server process
 --------------                            --------------------------------------------
 main thread      io thread                io thread (one per io_context of the pool)
 CommandLine  --> ClientSession ==TCP==>   Session::handleRead
 Interface        handleWrite                 | postMsgToQue
 YFTPClient       handleRead                  v
     ^                |                    LogicSystem::msg_que_ (mutex_, consume_)
     | waiting_       |                       v
     +-- response_ <--+                    worker thread: LogicSystem::dealMsg, handlers
                      ^                       | Session::send
                      |                       v
                      +=========TCP======  Session::send_que_ -> async_write, handleWrite

                                           main thread: ioc.run() (accepts, signals),
                                           shutdown and destructors
```

All sessions of one `io_context` share its one thread; the handlers of one
session never overlap. One worker executes the commands of *all* sessions and
holds `mutex_` while it does so. The worker and the session's io thread share
the session's send queue and its socket.

### 1.2 Server components

| Component | State | Operations | Correct when |
|---|---|---|---|
| **LogicSystem** (`server/src/LogicSystem.cpp`) | `msg_que_`, `b_stop_`, `worker_thread_`, `mutex_`, `consume_`, `fun_callbacks_` | `postMsgToQue`, `dealMsg`, `~LogicSystem`, one handler per message id | no wakeup is lost; `front()` is never taken of an empty queue; requests are executed once and in order; a shutdown loses none and ends; an exception of a handler ends in an answer, not in `std::terminate` |
| **Session, sending** (`Session::send`, `handleWrite`, `close`) | `send_que_`, `send_lock_`, `socket_` | `send`, `handleWrite`, `close` | at most one write at a time, of the front; whole frames in order on the wire; no reply stuck; a dead peer is noticed; the queue is bounded |
| **Session, receiving** (`Session::start`, `handleRead`) | `data_`, `recv_head_node_`, `recv_msg_node_`, `b_head_parse_` | `handleRead` | the frames posted are those sent, however TCP cuts the stream; a copy leaves its buffer only for a header that says so; a read is always armed while the session lives; it ends only for a cause |
| **Server** (`server/src/Server.cpp`) | `sessions_`, `session_mutex_`, the acceptor | `startAccept`, `handleAccept`, `clearSession`, destruction | a session that ended is removed and destroyed; no handler uses the server after its destruction |
| **AsioIOServicePool** | `ioServices_`, `threads_`, `nextIOService_` | `getIOService`, `stop`, destruction | sessions spread evenly; the index stays in range; the threads are joined before what they use is destroyed |
| **main** (`server/src/main.cpp`) | - | start, signal handler, `ioc.run()` | shutdown in the right order |
| **Command handlers** (in `LogicSystem.cpp`) | the file system, the session's current path | hello, list, mkdir, rmdir, upload, download, cd, pwd, cat, exit | one reply for each command but exit; the effect it names, or none and an error |
| **Session path** (`resolvePath`, `getCurrentPath`, `setCurrentPath`) | `user_current_path_` | as named | a relative path resolves against the session's directory, with `.` and `..` taken out |
| **MsgNode** (`MsgNode.hpp`, `MsgNode.cpp`) | `data_`, `cur_len_`, `total_len_`, `msg_id_` | constructors of `RecvNode`, `SendNode` | the length survives its 16 bits |
| **CompressUtil, FileUtil, Lister** | - | encodings, file-system calls, layout | inverses; errors reported |
| **ConfigManager** (`server/include/ConfigManager.hpp`) | `data_` (values, callbacks, `mtx`, `last_write_time`), `enable_autosave_`, `autosave_thread_` | `load`, `reload`, `get`, `set`, `saveToFile`, `enableAutoSave`, callbacks, `clear`, `reset` | the file is not overwritten with something else than the values; autosave saves; turning it off ends; the process does not end through it |
| **logger, Singleton** | the spdlog registry; a function-local static | - | - |

### 1.3 Client components

| Component | State | Operations | Correct when |
|---|---|---|---|
| **ClientSession** (`client/include/ClientSession.hpp`) | `socket_`, `connected_`, `send_que_`, the framing state | `connect`, `send`, `close`, `handleRead`, `handleWrite`, `processMessage` | as Session; a lost server is noticed |
| **YFTPClient** | `io_context_`, `io_thread_`, `current_download_file_` | `connect`, `disconnect`, one function per command | a download is saved under the name its command gave; `disconnect` ends |
| **CommandLineInterface** (`cli.hpp`) | `waiting_response_` | `start`, the command table | the prompt is held back only for a reply that is due, and comes back |

### 1.4 Interactions and shared state

* `handleRead` (io thread) → `LogicSystem::postMsgToQue`; under `mutex_`, the
  notification after it. While a handler runs every poster waits.
* handler (worker) → `Session::send`, under `send_lock_`; the same lock is taken
  by `handleWrite` (io thread), which pops the front and starts the next write.
* `MSG_EXIT` (worker) → `Session::close`, while the io thread uses the socket.
* `handleRead` and `handleWrite` → `Server::clearSession`, under
  `session_mutex_`; `handleAccept` (main) inserts under the same mutex, *after*
  it has armed the session's first read.
* signal (main) → `ioc.stop()`, `pool.stop()` (joins), then `~Server`, then the
  statics: `~LogicSystem` sets `b_stop_`, notifies and joins the worker, which
  drains its queue into sessions whose io threads have ended.
* client main → `waiting_response_ = true`, then send; client io thread →
  `waiting_response_ = false` after it has processed a reply.

### 1.5 What is hard

`PROJECT.json` lists 40 hazards, each at its line, with the properties that
would catch it going wrong or the reason why none does. The ones that shaped
the models:

* **Two threads, one queue, no notification to spare.** `postMsgToQue` notifies
  only for the first message and only after `unlock()`; `send()` starts a write
  only for the first frame and leaves the rest to `handleWrite`. Both rest on
  the other side looking again under the lock.
* **Shutdown.** `b_stop_` is a plain `bool` written without the mutex, read
  twice by the worker; three destructors and two joins follow each other, and an
  exception out of `ioc.run()` skips one of the joins.
* **The byte stream.** The framing loop has two states, two buffers, three early
  returns and a `catch`; a header or a body may be cut anywhere.
* **Lifetime.** A session lives as long as `sessions_`, a handler or a request
  holds it; the registry may learn of a session after the session has ended.
* **Failure inside failure.** The catch block of a handler may throw; a failed
  write leaves its frame in front of the queue.
* **Widths.** A message's length is a `size_t` where it is made and a `short` on
  the wire, in its node and on the other side.
* **Paths and files.** A session's path is checked once and used for ever, while
  other sessions change the tree; the file-system calls fail in different ways,
  and not all of them are asked.
* **Autosave.** A thread that is joined on one path, forgotten on another and
  wakes between two steps of `load`.

---

## 2 Modules

```
FifoChannel                  abstract: what each queue promises
  ^  ^  ^   (INSTANCE ... WITH, checked by TLC and proved)
  |  |  +--- SessionRead     Session::handleRead
  |  +------ SessionSend     Session::send, handleWrite, close
  +--------- LogicSystem     the request queue, its worker, shutdown
Server                       accepts, the registry, lifetimes, shutdown
Client                       command line + YFTPClient + ClientSession
ConfigManager                the configuration, its autosave thread
Commands                     what each handler does to files, paths, process
  +-- Codec                  a length through SendNode and RecvNode
  +-- Paths                  Session::resolvePath
Base64                       base64_encode, base64_decode (checked by MCCommands)
MC<module>                   each module for TLC
LogicSystemProofs, SessionSendProofs, SessionReadProofs, ServerProofs, ClientProofs,
ConfigManagerProofs          the theorems, beside the module of the same name
CommandsProofs               those of Commands, Codec and Paths
  ^--- MCCommandsProofs      those of Base64, and of the instance that feeds it
```

In every module a variable that a comment calls *history* is only recorded,
never read by a guard (but for the numbering of requests), and speaks for the
properties. A definition marked `Slip` is a plausible mistake in the code it
stands beside; no specification uses it. Replacing the definition it belongs to
by it makes the property named in `PROJECT.json` ("mutants") fail.

### 2.1 FifoChannel

The abstract specification: what enters leaves at most once, unchanged and in
order. `entered` and `left` are sequences; `Leave` takes the oldest item inside.
Three components implement it:

| Component | `entered` | `left` |
|---|---|---|
| LogicSystem | the requests posted | the requests executed |
| SessionSend | the frames `send()` accepted | the frames wholly on the wire |
| SessionRead | the bodies the peer sent | the bodies posted (on the client: processed) |

Chained, they say that the requests of a client are executed in the order it
sent them and its replies reach the wire in the order they were made.

### 2.2 LogicSystem

| Code | Module |
|---|---|
| `postMsgToQue` up to `unlock()` (`LogicSystem.cpp:20-26`) | `Post`, with `NeedsNotify` |
| its `notify_one` after `unlock()` | `PostNotify` |
| `dealMsg`: take the lock, test the `while` condition | `WorkerCheck` |
| `consume_.wait`: release and block | `WorkerBlock`, `SpuriousWakeup` |
| `dealMsg`: `b_stop_` false, callback, `pop` | `WorkerDeliver` (`Deliver`, `PopFront`) |
| `dealMsg`: `b_stop_` true, the second loop, `break` | `WorkerStop`, `WorkerDrain` |
| `~LogicSystem`: store, notify, join | `DtorSetStop`, `DtorNotify`, `DtorJoin` |
| signal handler, `pool.stop()` | `SignalStop`, `PoolJoin` |
| exception out of `ioc.run()`, `~AsioIOServicePool` | `MainThrows`, `PoolDtor` |
| `handleRead` with an error; the peer's reset | `ReadFails`, `PeerResets` |

`mutex_` is not a variable: it is held exactly while the worker is at `"wait"`,
`"test"` or `"drain"` (`WorkerHoldsMutex`), and a poster's critical section is
one step. A step is what the other threads can observe as one.

A handler is reduced to how it *ends*, because that is what the worker and the
process see of it: it replies and is popped; it throws twice (see finding 1) and
the process ends; its `assert` fails and the process ends; it closes the session
(`MSG_EXIT`); or no callback has its id.

### 2.3 SessionSend

`writes` is the set of asynchronous writes whose handler has not run. In the
code there is never more than one; that is a property (`OneWriteOfFront`), not
an assumption. A write records its frame and how many of its `Parts` pieces are
out, so that a torn or interleaved frame would be seen on `wire`.

| Code | Module |
|---|---|
| `send()` (both overloads: same control) | `Send`, with `QueueFull` and `StartIfAlone` |
| `async_write` going on | `WriteSome`, `WriteFails` |
| `handleWrite` without error | `WriteDone`, with `Continue` |
| `handleWrite` with an error | `WriteError` |
| `close()` from either thread | `Close` |
| `AsioIOServicePool::stop`; the peer | `IoStop`, `PeerGone` |

The first attempt of a write is made by the calling thread, hence `WriteSome`
may run with `io = "stopped"` for a write of which nothing is out: the worker
that drains its queue at shutdown still sends one frame per idle session.

### 2.4 SessionRead

A byte is a pair of a frame number and a position, so that the model can tell
whether the reader has lost its place. One step is one iteration of the loop of
`handleRead`: the branches `HeadPartial`, `HeadRejected`, `HeadThrows`,
`BodyBegins`, `BodyWhole` on a header, `BodyPartial`, `BodyEnds` on a body.
`ReadSome(n)` is the kernel's delivery of any `n` bytes up to `MAX_LENGTH`. What
the code reads from four bytes that are not a header is *anything*
(`Decoded`): should the reader lose its place, TLC would follow every header it
might then see.

`side` says whose `handleRead` it is. The client's (`ClientSession.hpp:149-276`)
is the same loop with two tests left out (`Rejected`): it takes any id and any
length. The map names the server's lines.

A negative length (a 16-bit length read as a `short`) passes the test
`msg_len > MAX_LENGTH`. `RecvNode` then allocates `msg_len + 1` bytes
(`Allocated`), and there are two outcomes:

* below -1 `new[]` throws; the exception is caught in `handleRead`, which neither
  arms a read nor clears the session (`HeadThrows`, reader `"stalled"`);
* for -1 it is `new char[0]`, which succeeds. The comparisons of
  `bytes_transferred`, a `size_t`, with the length and with what is left of it
  (`Session.cpp:169`, `:209`) take a negative number for a huge one (`Fewer`), so
  the rest of the chunk and all that follows is copied behind a buffer of no bytes:
  `BodyBegins`, then `BodyPartial` again and again, and no frame is ever posted
  any more. Writing there is undefined, so the process may also die of it, then
  or later (`Crashes`, reader `"crashed"`).

`cur_len_` is a `short` and would wrap after 32767 bytes of such a body: the
model stops there (`MaxCurLen`, a named bound).

### 2.5 Server

A session is the number of the `startAccept()` call that made it.
`handleAccept` is three steps where the io thread can see it: `AcceptStarts`
(`start()` arms the first read), `AcceptRegisters` (the insertion and the next
`startAccept()`); `AcceptThrows` is `remote_endpoint()` failing before. The
session's own handlers are reduced to what they do to the registry and to the
session's lifetime (`ReadPosts`, `ReadFails`, `ReadRejects`, `ReadThrows`,
`WriteDone`, `WriteFails`), the worker to `WorkerReplies` and `WorkerCloses`; each
handles one request of the session, which may have more of them queued.
`missed` holds the sessions that `clearSession` was called for while they were
`Unregistered`, between `start()` and the insertion. A second `clearSession` of a
session that is already erased (a failed write, then the failing read) changes nothing.
`Exists(s)` is the reference count: the session is in `sessions_`, or held by an
outstanding read, a write, a request in the queue or the accept in progress.

### 2.6 Client

The command line, `YFTPClient` and `ClientSession` in one module, because what is
hard is between them: `waiting_response_` is set by the main thread and cleared
by the io thread, `current_download_file_` is written by one and read by the
other. The user may type while a reply is due. The commands are those that
differ: hello (no reply is waited for), upload (may not be sent, or throw), download
(stores its local path), and any other. `send()` drops a command when the queue
holds more than `MAX_SENDQUE` messages (`Full`, `CommandDropped`), and its caller does not
learn of it. The connection is two FIFO sequences; that
is what SessionSend, SessionRead and LogicSystem establish.

### 2.7 ConfigManager

One caller, the autosave thread and whoever edits the file. One key is enough:
keys interact only in a save, which writes all or fails. `load()` is two steps
(`Load` publishes an empty `ConfigData`, `ParseFile` fills it under `mtx`)
because the worker can run in between; `set()` is two (`Set`, `NotifyChanges`)
for the callback that runs with `mtx` held. `fate` is how the process ended: a
null `data_` was used, or `std::terminate` was called for a joinable
`std::thread`. A caller that locks `mtx` twice is `"deadlocked"`, and so is the
worker behind it.

### 2.8 Commands, with Codec, Paths and Base64

`LogicSystem` decides *when* a handler runs; `Commands` says what it does. One
worker runs all handlers, so each is one action, and the steps of two sessions
interleave in any order.

| Code | Module |
|---|---|
| `Session::Session`: `HOME` | `Connect` |
| `handleListCallBack`, `DirectoryLister` | `List`, `ListLen` |
| `handleMkdirCallBack`, `create_directories` | `Mkdir`, `Missing`, `CanMake` |
| `handleRmdirCallBack`, `remove_all` | `Rmdir`, `Stuck`, `RemovedBefore`, `Unlink` |
| client `uploadFile` + `SendNode`, the length test of `handleRead`, `handleUploadCallBack` | `Upload`, `CanWrite` |
| `handleDownloadCallBack`, `handleCATCallBack`, `FileUtil::readFile` | `Download`, `Cat`, `ReadFile` |
| `handleCDCallBack`; `handlePWDCallBack`, `helloWordCallBack` | `Cd`; `HelloOrPwd` |
| `handleUserExitCallBack`, or any other end of a session | `Ends` |
| `Session::send` of a reply, and the handler's `catch` | `Replies` |

`tree` is a total function from places (sequences of names) to nothing, a
directory or a content. A content is a name with the lengths of the three
messages that carry it, which is all the handlers' outcome depends on. What a
call of `std::filesystem` does is modelled from its documented behaviour and
marked external in the map: `create_directories` makes every missing directory or
none; `remove_all` works upwards, in no particular order, until it meets an entry
it cannot remove, so that `RemovedBefore` has every set it may have removed by then.
A file in the middle of a path makes `remove_all` throw or return 0, by the version of
the library; both are possible. `stale` is the only history variable.

**Codec** has the C++ conversions with their real widths: the message's length is
cut to a `short`, the header is added in a `short`, `new char[total_len_ + 1]` throws if
that is negative, and `memcpy` of a negative length runs away. So a message of up to
32763 bytes is sent; up to 65530 the node's constructor throws (in a handler the
exception is answered with an error); from 65531 to 65535 the process crashes; from
65536 on the pattern repeats, and what is sent is cut.

**Paths** has both branches of `resolvePath`. In the relative one `..` pops the last
part, and the root `/` is a part: a path that climbs beyond the root becomes the
empty path, which names nothing, or a relative one, which `FileUtil::standardizePath`
takes from the directory the server was started in.

**Base64** is the two loops with their accumulator `val` as a signed word that wraps.
The number of values of an `int` is the constant `WordSize`. TLC's integers have 32 bits
themselves, so it is 65536 in the run: the word overflows earlier than the program's, which is the
harder case, and holds the 12 bits that are ever due. The theorems hold for every multiple of
65536, so for the 2^32 of the builds.

---

## 3 Runs

All runs give the constants only values; no definition is replaced. States are
distinct states found by TLC.

| Run | Instance | States | Checks |
|---|---|---|---|
| `logic_safety` | 2 clients, 2 requests each, 4 kinds of request | 885,251 | `TypeOK`, `NoLostWakeup`, `FrontExists`, `DrainedAtExit`, `HandledInOrder` |
| `logic_live` | 2 clients, 1 request each, fair | 40,241 | `EveryRequestHandled`, `ShutdownCompletes` |
| `logic_throw` | 2 clients, 1 request each | finding | `HandlersContainExceptions` |
| `send` | limit 2, frames of 2 pieces, 6 sends, fair | 2,256 | `TypeOK`, `OneWriteOfFront`, `WireIsAcceptedFrames`, `NoStall`, `SentInOrder`, `EveryFrameWritten`, `DeadPeerCleared` |
| `read` | header of 2 bytes, body up to 4, lengths -2, -1, 0, 1, 4, 5, 3 frames, server and client, fair | 253,691 | `TypeOK`, `PostedAreSent`, `OverrunExplained`, `DroppedForACause`, `FramesInOrder`, `EveryFramePosted` |
| `server` | pool of 2, 4 `startAccept()` calls, 2 sessions, fair | 91,712 | `TypeOK`, `DeadEntriesExplained`, `PoolBalanced`, `ServerOutlivesHandlers`, `ClearedIsReleased` |
| `client` | 3 requests, send queue limit 1, fair | 436,316 | `TypeOK`, `WaitingExplained`, `PromptReturns`, `ServerLossNoticed`, `ExitCompletes` |
| `client_download` | 3 requests, 2 local paths | finding | `SavedAsAsked` |
| `config` | 3 values, one of which JSON cannot save, file times to 4, fair | 122,600 | `TypeOK`, `WipedOnlyIfExcused`, `TerminationExplained`, `DisableCompletes` |
| `config_autosave` | 2 values, file times to 4, nobody else writes the file, fair | finding | `AutoSaved` |
| `commands` | 2 sessions, 2 names, depth 2, 10 paths, 4 contents; paths of 4 parts; strings of 4 bytes | 5,484 | `TypeOK`, `CwdExplained`, `UnsuccessfulChangesLittle`, `HarmOnlyBeyondShort`, `ResolvesLikeShell`, `Base64Right` |
| `upload_reported` | as `commands` | finding | `StoredAsReported` |

### What they show, and why the bounds are enough

**logic_safety.** A wakeup is lost, if ever, when one poster pushes while the
worker goes to sleep and a second pushes behind it without notifying: that takes
two posters and two messages. The run also has a second message of the same
client, which may find its own first one still queued, and every moment at
which main can set `b_stop_`. Symmetry exchanges the clients (they differ only
in name; all properties are symmetric and none is a liveness property).

**logic_live.** One request per client: a request that is never handled would be
the second one of two posters, which is there. No symmetry, because TLC does
not combine it with liveness. `ShutdownCompletes` names the one case in which
`~LogicSystem` hangs: its notification falls between the worker's evaluation of
the wait condition and its blocking (`worker = "wait"`). In that window the
worker sleeps on; outside it the destructor returns. The window is there
because `b_stop_` is stored without `mutex_`.

**send.** A queue limit of 2 allows three queued frames, because `send()` tests with `>` before
its push (`Session.cpp:48`; `TypeOK` has the bound as it is); six sends fill the
queue, have one rejected, and refill it after completions. Two pieces per frame
make every partial write visible. The state space is small because there is one
session; nothing larger shows a new order of the two threads.

**read.** A header of two bytes can be cut at every place it can be cut at; a body
of four likewise, over up to six chunks. The lengths are the boundary classes: none,
one, exactly `MAX_LENGTH`, one more, -1, and below. Three frames let a fault that
the second frame causes (a header not reset) be seen in the third. Both sides are checked
in the same run: on the client the frame of five bytes is longer than a chunk may be, and is taken. `OverrunExplained` shows that a copy leaves
its buffer only for a frame that announces -1, the other classes keep within;
`DroppedForACause` that which way a session ends (cleared, stalled, crashed) is decided by the
header of the frame it has come to, and by nothing else.

**server.** Two sessions over a pool of two, four `startAccept()` calls so that
failed accepts also move the round robin past its wrap. Two accepts succeed, so that
one session may be ending while another is starting. The property
`DeadEntriesExplained` shows that `sessions_` keeps an ended session in exactly
two situations: `handleRead` caught an exception, or the session ended between
`start()` and its insertion. `ClearedIsReleased` shows that a cleared session is destroyed
in the end, and names what may keep it: an entry inserted after the session was cleared, a
write to a peer that does not read on a socket that nobody closed (a refused header clears the
session and leaves its socket open), or the end of the pool's threads.

**client.** Three requests: one whose reply is due, one queued behind its write
and one typed meanwhile. With a limit of 1 the queue takes two messages, as `send()` tests with `>`
before its push, and the third may be dropped. Replies parse or not, the server answers or goes.
`PromptReturns` names the cases in which the prompt does not come back: a command
that was not sent (an upload without its file, or any command that a full queue drops), a reply that did not parse, the end of the connection.

**config.** Three values tell a value set, a value edited by others and a value that cannot be
saved apart; four file times allow a parse, an autosave, an edit and a save.
`DisableCompletes` has the escape `file.time = MaxTime`: at its bound the model
cannot save any more and a worker in the middle of a save has no step; the code
has no such bound. `config_autosave` has a specification of its own in MCConfigManager, `AloneSpec`: only what the test
`AUTO_SAVE` does before its `reset()`, on a file that parses and that nobody else
writes. Its counterexample is the finding step by step (load, enable, set, notify, the
worker looks and waits again) and ends below the bound.

**commands.** Two names and depth two give every relation between two paths (same,
parent, child, sibling, unrelated); the asked paths go down, up, beyond the root, into the protected directory and
to the session's own. The lengths are one of every class of Codec, for uploads, downloads, cat
and list. `/y` is protected and is also the directory of the server process, so that a removal
of `/` stops half-way. `ResolvesLikeShell` tries every relative path of
up to four parts from every path a session ever has; `Base64Right` is checked after every byte that `Feed`
of MCCommands gives to the encoder, for every string of up to four of the bytes 0, 97 and 255 (every length
modulo three, overflow included); MCCommands keeps the text and the commands apart, since neither reads the other. `CwdExplained` shows that a current path stays a directory unless it is
removed, although `cd` is the only check; `UnsuccessfulChangesLittle` that an answer other than success
means that nothing was changed, except by a removal that stopped.

`CHECK_DEADLOCK FALSE` is in every cfg, because every modelled process may really
stop: the server exits, a session ends, the client leaves, a caller deadlocks on
its own mutex. What must *not* stop is stated by a liveness property of the run.

---

## 4 Fairness

Weak fairness only, of what a thread of a live process does when it can:

| Module | Weakly fair | Because | Nothing assumed of |
|---|---|---|---|
| LogicSystem | the worker; each poster between `unlock()` and its notification; main once it is shutting down | the operating system schedules runnable threads | clients, signals, spurious wakeups, exceptions |
| SessionSend | the io thread: a write makes progress or fails, and a handler that is due runs | a connected socket takes bytes, a dead one reports it; `io_context::run` runs handlers | `send()`, `close()`, the peer, shutdown |
| SessionRead | the kernel delivers bytes of a live connection; the loop goes on | as above | the peer, read errors |
| Server | `handleAccept` goes on after `start()`; on a closed socket a write ends and a read fails; the worker empties its queue of a session | an operation on a closed socket is cancelled and its handler runs; `EveryRequestHandled` | clients (a write on an open socket may stay outstanding for ever), accepts, signals |
| Client | main in the middle of a call; the io thread; the server answers while it is there | as above; `EveryRequestHandled` and `EveryFrameWritten` | the user, the end of the server |
| ConfigManager | the autosave thread; the caller in the middle of a call | as above | what the caller calls, who edits the file |

---

## 5 Proofs

Checked by TLAPS for **every** value of the constants: any set of clients, any
number of requests, sessions, frames and accepts, any queue limit, header size
and chunk size, any tree of any names. They assume only the named `ASSUME`s of
the modules: bounds are natural numbers, sizes are at least what the code makes
them, a path's names are finitely many and finitely deep (`BoundAssumption` of
Commands: a listing has a length) and none of them is `.`, `..` or the root
(`NamesAssumption`: no directory entry is named so), an `int` has a number of values that
is a multiple of 65536 (`WordSizeAssumption`), the pool has at least one context. The
theorems are of `SafetySpec` (or `Spec` where there is no fairness), so they
hold with and without fairness.

| Module | Theorem | States |
|---|---|---|
| LogicSystemProofs | `Invariance` | the inductive invariant below |
| | `TypeCorrect` | `[]TypeOK` |
| | `NoWakeupIsLost` | `[]NoLostWakeup` |
| | `FrontAlwaysExists` | `[]FrontExists` |
| | `NothingLeftAtExit` | `[]DrainedAtExit` |
| | `Refinement` | LogicSystem implements FifoChannel |
| SessionSendProofs | `Invariance`, `TypeCorrect`, `SingleWrite`, `NeverStalls` | `[]TypeOK`, `[]OneWriteOfFront`, `[]NoStall` |
| | `WireCorrect` | `[]WireIsAcceptedFrames` |
| | `Refinement` | SessionSend implements FifoChannel |
| SessionReadProofs | `Invariance` | no frame ever loses its place |
| | `TypeCorrect` | `[]TypeOK` |
| | `FramesPosted` | `[]PostedAreSent` |
| | `Overruns` | `[]OverrunExplained` |
| | `DroppedForCause` | `[]DroppedForACause` |
| | `Refinement` | SessionRead implements FifoChannel |
| ServerProofs | `Invariance`, `TypeCorrect` | `[]TypeOK` |
| | `DeadEntries` | `[]DeadEntriesExplained` |
| | `NoDanglingServer` | `[]ServerOutlivesHandlers` |
| | `Balanced` | `[]PoolBalanced` |
| ClientProofs | `Invariance`, `TypeCorrect` | `[]TypeOK` |
| | `PromptHeldForACause` | `[]WaitingExplained` |
| ConfigManagerProofs | `Invariance`, `TypeCorrect` | `[]TypeOK` |
| | `NoUnexcusedWipe` | `[]WipedOnlyIfExcused` |
| | `NoUnexplainedTermination` | `[]TerminationExplained` |
| CommandsProofs | `WholeUpToLimit` | a message is sent whole exactly up to 32763 bytes |
| | `HarmBeyondSixteenBits` | the copy runs away only from 65531, a cut only from 65536 bytes on |
| | `SentIsReceivable` | no frame of a `SendNode` announces a negative length |
| | `Invariance`, `TypeCorrect` | `[]TypeOK` |
| | `PathsExplained` | `[]CwdExplained` |
| | `HarmExplained` | `[]HarmOnlyBeyondShort` |
| | `FailureChangesLittle` | the action property `UnsuccessfulChangesLittle` |
| | `EveryPathLikeShell` | `resolvePath` leads where a shell leads, for a path of any length |
| MCCommandsProofs | `EncodeStandard` | `base64_encode` is the standard encoding, for a text of any length |
| | `DecodeRestores` | `base64_decode` gives that text back |
| | `MCInvariance`, `PathsLikeShell` | `[]ResolvesLikeShell` |
| | `EncodingRight` | `[]Base64Right` |

Every safety property that a passing run checks is proved: all invariants, the one
action property and the three refinements.

**LogicSystem.** None of the four invariants is inductive alone. `Inv` adds:
*the queue is the rest* (`posted = handled \o msg_que`), which turns "all were
handled" into "the queue is empty" and is what the refinement needs; *what the
worker knows* (`WorkerKnows`): having seen an empty queue it still is empty
while the mutex is held, having seen `b_stop_` it stays set, and a worker that is
done after the pool was joined has left nothing; and *what main knows*
(`MainKnows`): `b_stop_` is set exactly from `DtorSetStop` on, and only after
the io threads were joined, unless main left by an exception. The unlocked write of
`b_stop_` is harmless to `FrontExists` because it only ever goes from false
to true: a worker at `"test"` that sees it false had found the queue non-empty.
`Refinement` maps `Post` to `Enter`, a pop to `Leave`, and everything else to
stuttering.

**SessionSend.** `Inv` is `TypeOK`, `OneWriteOfFront` and `NoStall`: a write
is started on an empty queue (where, by `OneWriteOfFront`, none is outstanding) or by
the handler of the only one.

For the wire `WireInv` is added, which counts: `Done` frames have left the
queue, the queue is the rest of what was accepted, and the wire holds
`Done * Parts + p` pieces, `p` being how far the outstanding write has come. It
speaks of frame `d` and piece `j` instead of dividing positions by `Parts`;
`PositionOrder`, `PositionUnique` and `NextMultiple` connect the two.

**SessionRead.** That the posted bodies are those sent says nothing of the bytes
not yet read, so it is not inductive. `InPlace` lays every frame sent along them: there are
offsets `off` such that frame `i` occupies the positions from `off[i] + 1` on of
the rest of the chunk followed by the pipe, one frame ends where the next begins,
the last ends at their end, and what was consumed of the current frame lies before position 1. The
offsets are an existential witness instead of a sum of sizes, which would be a recursion.
`Advance` is the heart of it: consuming `n` bytes moves every frame back by `n`,
whatever the reader then did with them, so that a branch of `handleRead` has only to
say how many bytes it took and what it kept (`HeadBegun`, `BodyBegun`). A header that is
complete is the one its peer sent (`HeaderOfCurrent`), hence the nondeterminism of
`Decoded` for bytes that are not a header is never reached. `reader` in `"cleared"`,
`"stalled"` or `"crashed"` is exempt: that session reads no more. A body of length -1 is not: it
keeps the place of its frame while it consumes the bytes of the frames after it, and
`BodyBegun` remembers that its length is the one its peer sent, which is what
`OverrunExplained` says of every copy that leaves its buffer. `TypeOK` of SessionRead says more of `msg` and
`posted` than TLC needs; without it a body could not be told to consist of bytes.

**Server.** `Inv` adds to the properties: *the session being accepted is not registered yet*, and
once started it reads, is stalled or was missed by its own `clearSession`
(`CurrentUnregistered`), without which the insertion would make an unexplained dead entry; *main leaves
with the pool joined or by an exception* (`StoppedOrThrew`); and `Loaded`, which says
where the round robin stands: the contexts before `nextIOService_` have one session more
than the others. `PoolBalanced` alone is not inductive: it does not say which context is next.

**Client.** `WaitingExplained` needs `UnderWayWasSent`: every frame queued, every request on
the wire and every reply answers to a request that was sent, so that a reply that
arrives ends a wait that its own request may have begun; and that nothing is awaited before the first
prompt.

**ConfigManager.** `UnparsedExplained`: values that were not parsed belong to a null `data_`, to a load in
progress while no worker runs, or to an excuse, which is what the worker and `saveToFile` find when
they save. `HandleExplained`: a joinable handle without `enable_autosave_` is being joined, or was left behind by
`clear()`.

**Commands.** `CwdExplained` is carried by the tree: what exists is in a directory (`WellFormed`), so a removal takes
whole subtrees (`Uprooted`, which `WholeUprooted` and `PartUprooted` give for both ways
`remove_all` can end) and whoever was in one is marked, and only a place that is no directory is ever written over
(`WriteGood`). `FailureChangesLittle` comes from the same step lemmas. The lengths
are decided by their 16 low bits: `ShortCongruent` (a `short` differs from its origin by a multiple of 65536)
and `ShortRange` give `TotalValue`, by the two cases of the second wrap, `OutcomeByBody`
says which lengths throw, crash and are sent, and `BodyByLowBits` translates it to `n % 65536`.
`HarmOnlyBeyondShort` speaks of the 16 low bits because the pattern repeats at every multiple of 65536; said
of the length itself ("crashed only from 65531 to 65535") it would hold for the lengths of the run and
not for all.
`SentIsReceivable` is why the readers `"stalled"` and `"crashed"` of SessionRead, and a copy past a buffer, need a peer that is not this program's `SendNode`.

**Loops over an input of any length** (`EveryPathLikeShell`, `EncodeStandard`, `DecodeRestores`). The
three loops are folds over a sequence, and what they compute is an induction over its length. The induction
theorems of the library take an operator, which the provers cannot instantiate, so the induction is
an argument about sets: `LeastNumber` says that a set of natural numbers that is not empty has a least one (from
the well-foundedness of strict inclusion between finite sets), and `InductionTo` that a set which holds 0 and,
with a `k < n`, `k + 1`, holds `0..n`. `Rounds` is the sequence of the accumulator's values,
and a lemma for each fold operator (`FoldOfPart`, `FoldOfEncodeByte`, `FoldOfDecodeDigit`) says that the fold
is its last one: one lemma each, since a theorem cannot be about all operators.

**Paths.** `Height` is how many parts of a path went down, less those that went up. `PathRounds`
is the invariant of the loop: while no prefix has had a negative height, the parts kept are
the root followed by the shell's place, which is exactly as deep as the height; from the round that goes below zero on
the root has been popped and never comes back, because it is no name of a path (`NamesAssumption`), so that the
result is empty or relative. That `Height` is the depth of the place is what connects `ClimbsBeyondRoot`, which
counts, to the `out = <<>>` that the code tests.

**Base64.** `val` overflows, so nothing is said of it but its low bits: what overflow takes away is a multiple of
`WordSize`, which 65536 divides. After `n` bytes its low 16 bits are the last two bytes
(`LowBytes`), at most 12 of them are due, and the characters written are the standard ones; how many, and how many
bits are due, goes by `n % 3`. After `k` characters of the decoder its low 12 bits are the last two of them, and
the bytes written are those of the text, by `k % 4`. The tail and the padding are the three cases of the length modulo
three, and the decoder stops at the first pad, which is the end of what the encoder wrote.

**Only model-checked:** all liveness properties (`EveryRequestHandled`, `ShutdownCompletes`,
`EveryFrameWritten`, `DeadPeerCleared`, `EveryFramePosted`, `ClearedIsReleased`,
`PromptReturns`, `ServerLossNoticed`, `ExitCompletes`, `DisableCompletes`): fairness and
ENABLED are out of the prover's reach.

---

## 6 Findings

1. **A handler's catch block throws** (`logic_throw`, code). The handlers log
   `session->getRemoteIp()` first; when the client has gone it throws, the catch
   block logs `getRemoteIp()` again (`LogicSystem.cpp:163`), and the second exception
   leaves the worker thread. A client that sends a command and resets its
   connection before the command is executed ends the server for everyone.
2. **An upload that was not stored is reported as successful** (`upload_reported`, code
   against its own answer): the `ofstream` of `handleUploadCallBack` is never tested
   (`LogicSystem.cpp:279-285`).
3. **Two downloads typed one after the other** (`client_download`, code against its
   comment): the first file is saved under the second name
   (`YFTPClient.hpp:116`).
4. **Autosave does not save** (`config_autosave`, code against the test
   `AUTO_SAVE`): the worker saves when the *file* has changed since it was parsed
   (`ConfigManager.hpp:416`), and `set()` does not change the file. The run: load,
   enable, set, and the worker wakes, finds the file's time unchanged and waits again, for ever.

Met while modelling, and not stated as findings because nothing in the
repository promises otherwise: the send queue grows to `MAX_SENDQUE + 1` (`Session.cpp:48`);
a header that announces a length of -1 is accepted, and what follows it is copied past a buffer of
no bytes (`MsgNode.hpp:15`, `Session.cpp:169`; section 2.4); the client's `send()` drops a command when its queue is
full, while `waiting_response_` stays set (`ClientSession.hpp:69`);
a download or `cat` of a file that does not exist is answered like one of an empty file
(`FileUtil.hpp:69`), and the client saves it; an upload of 64 KiB and more can be cut to a length
the server accepts, and its `assert` ends the server; `cat` of a file whose reply has 65531 to
65535 bytes crashes it (both are outcomes of Commands); `~LogicSystem` may miss its worker (section 3);
`sessions_` may keep ended sessions (`DeadEntriesExplained`);
`saveToFile(path)` and a callback that calls back lock a held mutex;
`clear()` forgets the autosave thread; `get<short>("port")` never
matches the `int` a JSON number is stored as, so the configured port is not used
(`main.cpp:86`); the reply to hello names its id `"id"` where the client looks for
`"msg_id"`; `MAX_RECVQUE` is unused; the client waits for ever when its
connection is refused, and spins at the end of its input (`cli.hpp:39`).

---

## 7 Abstractions and what is not modelled

* **`b_stop_`** is a data race in C++. The model takes it for an atomic boolean:
  each access is one step. A compiler that hoisted the read out of the loop would
  be worse; the calls of the mutex between the reads keep it from doing so.
* **Socket calls** are atomic; a race inside boost::asio between `close()` on
  the worker and an operation on the io thread is not modelled.
* **`Session::b_close_`** is written and never read; it is left out.
* **After a copy past its buffer** (a length of -1, section 2.4) the model has two outcomes: the
  process dies, or goes on reading. What else overwritten memory may change is not told apart, nor is
  what happens when `cur_len_` wraps (`MaxCurLen`).
* **Handlers** are how they end in LogicSystem and what they do in Commands; the two are not
  composed. A request's JSON is well-formed unless it was cut.
* **The file system** has no links, no other processes that change it and no permissions but
  `Protected`; a protected directory of the instance holds files only. Symbolic links would make
  `weakly_canonical` differ from `Normal`.
* **Signed overflow** in base64 is undefined before C++20; the model has what builds do, wrapping.
* **zlib** is external: a download is decompressed to what was compressed.
* **`ConfigManager::data_`** is a `shared_ptr` used without a lock, and `clear()`
  releases the mutex it holds: undefined behaviour of which the model has one
  outcome, a null `data_`. Calls from several threads at once are not modelled.
* **`hardware_concurrency()` = 0** is excluded by `PoolSizeAssumption`.
* **The client's connection** is two FIFO channels, one per direction; its framing loop is checked in SessionRead. `MSG_EXIT` is never sent by the command line.
* **Time** is not modelled: autosave's interval may end at any moment, file times
  are a counter.
* **Not modelled:** the layout and order of a listing, zlib, the functions of FileUtil without a caller,
  loggers, the singleton template, reading the configuration at start-up, and the tests.
  `CommandParser`, which one test tests, is not in the repository.

---

## 8 Plan

The modules were built in this order, the most important behaviour first: LogicSystem, its
proofs, SessionSend, its proofs, SessionRead (then for both sides), Server, Client,
ConfigManager, Codec with its proofs, Paths, Base64, Commands; then the proofs of Server,
ConfigManager, Client, SessionRead and Commands; then those of Paths and Base64.

What could be added:

1. **System**: client, SessionSend, LogicSystem and SessionRead as one end-to-end
   FIFO channel of requests and replies, with FifoChannel as the abstract
   specification of each direction, and the theorem that two channels in a row are a channel.
2. **Liveness proofs**, once the prover knows ENABLED.

No module that is proved about, or that is reached from one, declares a
RECURSIVE operator.

---

## 9 Using the project

```
tlc -config MCLogicSystem.cfg MCLogicSystem      # any run: module and cfg as in PROJECT.json
tlapm LogicSystemProofs.tla                      # and the other modules *Proofs.tla, at most five minutes each
```

The runs that are findings end with a counterexample; the others end without an
error, each in two minutes or less. `PROJECT.json` maps every definition to the
lines it models and lists the mutants.
