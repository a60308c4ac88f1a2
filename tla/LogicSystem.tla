---------------------------- MODULE LogicSystem ----------------------------
(***************************************************************************)
(* LogicSystem (server/src/LogicSystem.cpp): the single worker thread that *)
(* executes every client's commands, the mutex and condition variable that *)
(* guard its queue, the io threads that post to it from Session::handleRead*)
(* and the main thread that shuts it down (server/src/main.cpp).           *)
(*                                                                         *)
(* Threads: one worker; one poster per session (a session's handlers all   *)
(* run on the io thread of its io_context, one at a time); main.  A step   *)
(* is what the other threads can observe as one: everything a poster does  *)
(* under mutex_ is one step, the notify_one after unlock() is another.     *)
(***************************************************************************)
EXTENDS Naturals, Sequences, FiniteSets

CONSTANTS Sessions,  (* the connected clients                              *)
          MaxPosts   (* bound: requests one client sends                   *)

ASSUME MaxPostsAssumption == MaxPosts \in Nat

VARIABLES
  msg_que,   (* LogicSystem::msg_que_                                      *)
  b_stop,    (* LogicSystem::b_stop_ (a plain bool, written without mutex_)*)
  worker,    (* where worker_thread_ is in dealMsg                         *)
  poster,    (* session -> "idle", or "notify" between unlock and notify   *)
  reading,   (* sessions whose read loop is still armed                    *)
  remote,    (* sessions whose remote_endpoint() still succeeds            *)
  main,      (* where the main thread is between serving and exit          *)
  io,        (* the threads of AsioIOServicePool: "running" or "joined"    *)
  fate,      (* the process: "alive", or why std::terminate ended it       *)
  posted,    (* history: every LogicNode pushed, in order                  *)
  handled    (* history: every LogicNode popped, in order                  *)

vars == <<msg_que, b_stop, worker, poster, reading, remote, main, io, fate,
          posted, handled>>

-----------------------------------------------------------------------------
(* Requests.  A command is any id registered by registerCallBacks whose    *)
(* handler replies through Session::send; MSG_EXIT closes the session and  *)
(* replies nothing; any other id has no entry in fun_callbacks_.  The body *)
(* of a garbled one, whose handler asserts that it names its own id, does  *)
(* not parse to the header's id: an upload whose length the client's       *)
(* SendNode cut to 16 bits is one.                                         *)
Command == "command"
Exit    == "exit"
Unknown == "unknown"
Garbled == "garbled"

Kinds == {Command, Exit, Unknown, Garbled}

LogicNode == [session : Sessions, kind : Kinds, n : 1..MaxPosts]

PostedBy(s) == {i \in DOMAIN posted : posted[i].session = s}

TypeOK ==
  /\ msg_que \in Seq(LogicNode)
  /\ b_stop \in BOOLEAN
  /\ worker \in {"lock", "wait", "blocked", "test", "drain", "done"}
  /\ poster \in [Sessions -> {"idle", "notify"}]
  /\ reading \subseteq Sessions
  /\ remote \subseteq Sessions
  /\ main \in {"serving", "stopping", "dtor", "notify", "join", "exited"}
  /\ io \in {"running", "joined"}
  /\ fate \in {"alive", "handler_threw", "assert_failed", "threads_unjoined"}
  /\ posted \in Seq(LogicNode)
  /\ handled \in Seq(LogicNode)

(* The constructor has run (the first request constructs the singleton),   *)
(* every session is connected and reading.                                 *)
Init ==
  /\ msg_que = <<>>
  /\ b_stop = FALSE
  /\ worker = "lock"
  /\ poster = [s \in Sessions |-> "idle"]
  /\ reading = Sessions
  /\ remote = Sessions
  /\ main = "serving"
  /\ io = "running"
  /\ fate = "alive"
  /\ posted = <<>>
  /\ handled = <<>>

-----------------------------------------------------------------------------
(* mutex_ is held by the worker from the moment it has evaluated the wait  *)
(* condition until it blocks, finishes a message, or returns: the callback *)
(* runs with the mutex held.                                               *)
WorkerHoldsMutex == worker \in {"wait", "test", "drain"}

(* consume_.notify_one(): only the worker ever waits.  A notification that *)
(* finds it not blocked is lost.                                           *)
NotifyOne == worker' = IF worker = "blocked" THEN "lock" ELSE worker

(* Slip: the size is tested before the push and never adapted to it.       *)
NotifyUnlessFirst(q) == Len(q) > 1

(* postMsgToQue notifies only when the push made the queue non-empty.      *)
NeedsNotify(q) == Len(q) = 1

-----------------------------------------------------------------------------
(* The io threads.                                                         *)

(* postMsgToQue up to unlock(): handleRead posts one complete frame.       *)
Post(s, k) ==
  /\ io = "running"
  /\ s \in reading
  /\ poster[s] = "idle"
  /\ ~WorkerHoldsMutex
  /\ Cardinality(PostedBy(s)) < MaxPosts
  /\ LET node == [session |-> s, kind |-> k, n |-> Cardinality(PostedBy(s)) + 1]
     IN  /\ msg_que' = Append(msg_que, node)
         /\ posted' = Append(posted, node)
  /\ poster' = [poster EXCEPT ![s] = IF NeedsNotify(msg_que') THEN "notify"
                                                             ELSE "idle"]
  /\ UNCHANGED <<b_stop, worker, reading, remote, main, io, fate, handled>>

(* The notify_one after unlock().                                          *)
PostNotify(s) ==
  /\ poster[s] = "notify"
  /\ poster' = [poster EXCEPT ![s] = "idle"]
  /\ NotifyOne
  /\ UNCHANGED <<msg_que, b_stop, reading, remote, main, io, fate, posted, handled>>

(* handleRead with an error: the socket is closed and no read is re-armed. *)
ReadFails(s) ==
  /\ io = "running"
  /\ s \in reading
  /\ poster[s] = "idle"
  /\ reading' = reading \ {s}
  /\ remote' = remote \ {s}
  /\ UNCHANGED <<msg_que, b_stop, worker, poster, main, io, fate, posted, handled>>

(* The peer resets the connection: from then on the kernel no longer knows *)
(* the remote endpoint, whether or not the server has noticed.             *)
PeerResets(s) ==
  /\ s \in remote
  /\ remote' = remote \ {s}
  /\ UNCHANGED <<msg_que, b_stop, worker, poster, reading, main, io, fate, posted, handled>>

-----------------------------------------------------------------------------
(* The worker thread.                                                      *)

(* Lock mutex_ (at the top of the loop or on return from wait) and         *)
(* evaluate the condition of the while around consume_.wait.               *)
WorkerCheck ==
  /\ worker = "lock"
  /\ worker' = IF msg_que = <<>> /\ ~b_stop THEN "wait" ELSE "test"
  /\ UNCHANGED <<msg_que, b_stop, poster, reading, remote, main, io, fate, posted, handled>>

(* Inside consume_.wait: release the mutex and block, atomically.          *)
WorkerBlock ==
  /\ worker = "wait"
  /\ worker' = "blocked"
  /\ UNCHANGED <<msg_que, b_stop, poster, reading, remote, main, io, fate, posted, handled>>

(* Slip: if instead of while around consume_.wait.                         *)
WakeupWithoutRecheck ==
  /\ worker = "blocked"
  /\ worker' = "test"
  /\ UNCHANGED <<msg_que, b_stop, poster, reading, remote, main, io, fate, posted, handled>>

(* std::condition_variable may return from wait without a notification.    *)
SpuriousWakeup ==
  /\ worker = "blocked"
  /\ worker' = "lock"
  /\ UNCHANGED <<msg_que, b_stop, poster, reading, remote, main, io, fate, posted, handled>>

(* Slip: pop() before front().                                             *)
PopThenFront ==
  /\ msg_que' = Tail(msg_que)
  /\ handled' = Append(handled, IF Len(msg_que) > 1 THEN msg_que[2] ELSE <<>>)

(* Slip: the message is delivered and not popped.                          *)
FrontWithoutPop ==
  /\ UNCHANGED msg_que
  /\ handled' = Append(handled, Head(msg_que))

(* The front message is delivered, then popped.                            *)
PopFront ==
  /\ msg_que' = Tail(msg_que)
  /\ handled' = Append(handled, Head(msg_que))

(* The callback of the front message, then the pop.  Every command handler *)
(* calls getRemoteIp() for its log line, again in its catch block: without *)
(* a remote endpoint the second throw leaves the handler and dealMsg, and  *)
(* std::terminate ends the process.  The assert at the top of a handler    *)
(* aborts it on a garbled body.  An id without callback is just popped.    *)
Deliver(next) ==
  LET m == Head(msg_que)
  IN  \/ /\ m.kind = Command /\ m.session \notin remote
         /\ fate' = "handler_threw"
         /\ UNCHANGED <<worker, msg_que, handled, remote>>
      \/ /\ m.kind = Garbled
         /\ fate' = "assert_failed"
         /\ UNCHANGED <<worker, msg_que, handled, remote>>
      \/ /\ m.kind # Garbled
         /\ m.kind = Command => m.session \in remote
         /\ PopFront
         /\ worker' = next
         /\ remote' = IF m.kind = Exit THEN remote \ {m.session} ELSE remote
         /\ UNCHANGED fate

(* The normal path of the loop body: deliver one message, then unlock.     *)
WorkerDeliver ==
  /\ worker = "test"
  /\ ~b_stop
  /\ Deliver("lock")
  /\ UNCHANGED <<b_stop, poster, reading, main, io, posted>>

(* b_stop_ was seen: enter the drain loop, the mutex held throughout.      *)
WorkerStop ==
  /\ worker = "test"
  /\ b_stop
  /\ worker' = "drain"
  /\ UNCHANGED <<msg_que, b_stop, poster, reading, remote, main, io, fate, posted, handled>>

(* Slip: break without the drain loop.                                     *)
StopWithoutDrain ==
  /\ worker = "drain"
  /\ worker' = "done"
  /\ UNCHANGED <<msg_que, b_stop, poster, reading, remote, main, io, fate, posted, handled>>

(* The drain loop: deliver what is left, then return.                      *)
WorkerDrain ==
  /\ worker = "drain"
  /\ IF msg_que # <<>>
       THEN Deliver("drain")
       ELSE worker' = "done" /\ UNCHANGED <<msg_que, handled, remote, fate>>
  /\ UNCHANGED <<b_stop, poster, reading, main, io, posted>>

-----------------------------------------------------------------------------
(* The main thread.                                                        *)

(* SIGINT or SIGTERM: ioc.stop(), then pool.stop() starts to wait for the  *)
(* io threads, each of which finishes the handler it is in.                *)
SignalStop ==
  /\ main = "serving"
  /\ main' = "stopping"
  /\ UNCHANGED <<msg_que, b_stop, worker, poster, reading, remote, io, fate, posted, handled>>

PoolIdle == \A s \in Sessions : poster[s] = "idle"

PoolJoin ==
  /\ main = "stopping"
  /\ PoolIdle
  /\ io' = "joined"
  /\ main' = "dtor"
  /\ UNCHANGED <<msg_que, b_stop, worker, poster, reading, remote, fate, posted, handled>>

(* An exception out of ioc.run() (handleAccept calls remote_endpoint() on  *)
(* a connection that may be gone): main returns without pool.stop().       *)
MainThrows ==
  /\ main = "serving"
  /\ main' = "dtor"
  /\ UNCHANGED <<msg_que, b_stop, worker, poster, reading, remote, io, fate, posted, handled>>

(* ~LogicSystem: b_stop_ is set without taking mutex_, ...                 *)
DtorSetStop ==
  /\ main = "dtor"
  /\ b_stop' = TRUE
  /\ main' = "notify"
  /\ UNCHANGED <<msg_que, worker, poster, reading, remote, io, fate, posted, handled>>

(* Slip: ~LogicSystem joins without notifying.                             *)
DtorWithoutNotify ==
  /\ main = "notify"
  /\ main' = "join"
  /\ UNCHANGED <<msg_que, b_stop, worker, poster, reading, remote, io, fate, posted, handled>>

(* ... the worker is notified, once, ...                                   *)
DtorNotify ==
  /\ main = "notify"
  /\ main' = "join"
  /\ NotifyOne
  /\ UNCHANGED <<msg_que, b_stop, poster, reading, remote, io, fate, posted, handled>>

(* ... and joined.                                                         *)
DtorJoin ==
  /\ main = "join"
  /\ worker = "done"
  /\ main' = "exited"
  /\ UNCHANGED <<msg_que, b_stop, worker, poster, reading, remote, io, fate, posted, handled>>

(* ~AsioIOServicePool destroys std::threads nobody joined.                 *)
PoolDtor ==
  /\ main = "exited"
  /\ io = "running"
  /\ fate' = "threads_unjoined"
  /\ UNCHANGED <<msg_que, b_stop, worker, poster, reading, remote, main, io, posted, handled>>

-----------------------------------------------------------------------------
IoThreads ==
  \E s \in Sessions :
    \/ \E k \in Kinds : Post(s, k)
    \/ PostNotify(s)
    \/ ReadFails(s)
    \/ PeerResets(s)

Worker == WorkerCheck \/ WorkerBlock \/ WorkerDeliver \/ WorkerStop \/ WorkerDrain

Shutdown == PoolJoin \/ DtorSetStop \/ DtorNotify \/ DtorJoin \/ PoolDtor

Next ==
  /\ fate = "alive"
  /\ \/ IoThreads
     \/ Worker
     \/ SpuriousWakeup
     \/ SignalStop
     \/ MainThrows
     \/ Shutdown

(* The threads of a live process are scheduled: the worker, a poster about *)
(* to notify, and main once it is shutting down.  Nothing is assumed of    *)
(* clients, signals or spurious wakeups.                                   *)
Fairness ==
  /\ WF_vars(fate = "alive" /\ Worker)
  /\ \A s \in Sessions : WF_vars(fate = "alive" /\ PostNotify(s))
  /\ WF_vars(fate = "alive" /\ Shutdown)

SafetySpec == Init /\ [][Next]_vars

Spec == SafetySpec /\ Fairness

-----------------------------------------------------------------------------
(* Properties.                                                             *)

(* The worker never sleeps on a non-empty queue unless the poster that     *)
(* filled it is about to notify: postMsgToQue notifies only for the first  *)
(* message and only after unlock(), and dealMsg tests the queue and blocks *)
(* under the same mutex.                                                   *)
NoLostWakeup ==
  worker = "blocked" /\ msg_que # <<>> => \E s \in Sessions : poster[s] = "notify"

(* dealMsg reads b_stop_ once in the wait condition and once after it: the *)
(* front() that follows is never taken of an empty queue.                  *)
FrontExists == worker = "test" /\ ~b_stop => msg_que # <<>>

(* A shutdown by signal loses no request: when ~LogicSystem has returned   *)
(* every request ever posted was handled, those queued behind b_stop_ too. *)
DrainedAtExit == main = "exited" /\ io = "joined" => handled = posted

(* Requests are handled once each and in the order they were posted, over  *)
(* all sessions, across the normal loop and the drain loop.                *)
Channel == INSTANCE FifoChannel WITH Items <- LogicNode, entered <- posted, left <- handled
HandledInOrder == Channel!Spec

(* Every request is eventually handled, whatever the other sessions do,    *)
(* unless the process dies or the worker has returned.                     *)
EveryRequestHandled ==
  \A i \in 1..(MaxPosts * Cardinality(Sessions)) :
    Len(posted) >= i ~> (Len(handled) >= i \/ fate # "alive" \/ worker = "done")

(* ~LogicSystem terminates when its notify_one does not fall between the   *)
(* worker's evaluation of the wait condition and its blocking: b_stop_ is  *)
(* set without mutex_, so in that window, and only there, the wakeup is    *)
(* lost and join() waits for a spurious one.                               *)
ShutdownCompletes ==
  (main = "notify" /\ worker # "wait") ~> (main = "exited" \/ fate # "alive")

(* The catch blocks of every command handler answer the client with        *)
(* "Exception occurred: ..." or "Unknown exception occurred": no exception *)
(* of a handler is meant to leave the worker thread.                       *)
HandlersContainExceptions == fate # "handler_threw"
=============================================================================
