------------------------------- MODULE Server -------------------------------
(***************************************************************************)
(* Server and AsioIOServicePool: the main thread accepts connections,      *)
(* gives each Session an io_context of the pool in turn, starts it and     *)
(* registers it in sessions_; the pool's threads run the sessions'         *)
(* handlers, which remove them with clearSession; a signal stops the pool  *)
(* and the Server is destroyed when main() leaves its scope.               *)
(*                                                                         *)
(* A session is the number of the startAccept() call that created it.  It  *)
(* exists as long as something holds a shared_ptr to it: sessions_, the    *)
(* accept handler, an outstanding read or write, a LogicNode.              *)
(***************************************************************************)
EXTENDS Integers, Sequences, FiniteSets

CONSTANTS PoolSize,    (* std::thread::hardware_concurrency()              *)
          MaxSessions, (* bound: calls of startAccept()                    *)
          MaxAccepts   (* bound: accepts that succeed                      *)

ASSUME PoolSizeAssumption == PoolSize \in Nat \ {0}
ASSUME MaxSessionsAssumption == MaxSessions \in Nat \ {0}
ASSUME MaxAcceptsAssumption == MaxAccepts \in Nat

VARIABLES
  nextIOService,  (* AsioIOServicePool::nextIOService_                     *)
  service,        (* session -> the index of its io_context                *)
  main,           (* the main thread: "accepting", "starting" (between     *)
                  (* start() and the insertion), "joining", "leaving",     *)
                  (* "destroyed" (after ~Server)                           *)
  threw,          (* an exception left ioc.run()                           *)
  io,             (* the threads of the pool: "running" or "stopped"       *)
  sessions,       (* Server::sessions_                                     *)
  reading,        (* sessions with a read outstanding                      *)
  writing,        (* sessions with a write outstanding                     *)
  queued,         (* sessions with LogicNodes in LogicSystem's queue       *)
  closed,         (* sessions whose socket close() has closed              *)
  cleared,        (* history: sessions clearSession was called for ...     *)
  missed,         (* ... before their insertion, finding nothing to erase  *)
  stalled,        (* history: sessions whose handleRead caught an exception*)
  dangling        (* clearSession was called on a destroyed Server         *)

acceptVars == <<nextIOService, service, main, threw, io>>
vars == <<nextIOService, service, main, threw, io, sessions, reading, writing,
          queued, closed, cleared, missed, stalled, dangling>>

-----------------------------------------------------------------------------
Sessions == 1..MaxSessions

TypeOK ==
  /\ nextIOService \in 0..(PoolSize - 1)
  /\ service \in Seq(0..(PoolSize - 1)) /\ Len(service) \in Sessions
  /\ main \in {"accepting", "starting", "joining", "leaving", "destroyed"}
  /\ threw \in BOOLEAN /\ dangling \in BOOLEAN
  /\ io \in {"running", "stopped"}
  /\ \A set \in {sessions, reading, writing, queued, closed, cleared, missed, stalled} :
       set \subseteq 1..Len(service)

(* The session the accept in progress is for; between start() and the      *)
(* insertion it is not in sessions_ yet.                                   *)
Current == Len(service)
Unregistered == IF main = "starting" THEN {Current} ELSE {}

(* The sessions start() was called for.                                    *)
Started == sessions \cup reading \cup cleared \cup stalled

(* Something holds a shared_ptr to the session.                            *)
Exists(s) ==
  \/ s \in sessions \cup reading \cup writing \cup queued
  \/ s = Current /\ main \in {"accepting", "starting"}

(* The constructor of Server has called startAccept().                     *)
Init ==
  /\ nextIOService = 1 % PoolSize
  /\ service = <<0>>
  /\ main = "accepting"
  /\ threw = FALSE
  /\ io = "running"
  /\ sessions = {} /\ reading = {} /\ writing = {} /\ queued = {}
  /\ closed = {} /\ cleared = {} /\ missed = {} /\ stalled = {}
  /\ dangling = FALSE

-----------------------------------------------------------------------------
(* Slip: the wrap-around is tested before the increment.                   *)
WrapLate(i) == IF i = PoolSize THEN 0 ELSE i + 1

(* Slip: the index is never moved on.                                      *)
WrapNever(i) == i

(* AsioIOServicePool::getIOService: the next context, round robin.         *)
Wrap(i) == IF i + 1 = PoolSize THEN 0 ELSE i + 1

(* startAccept: a new Session on the next context, an accept for it.       *)
StartAccept ==
  /\ Len(service) < MaxSessions
  /\ service' = Append(service, nextIOService)
  /\ nextIOService' = Wrap(nextIOService)

(* handleAccept with an error: accept again.                               *)
AcceptFails ==
  /\ main = "accepting"
  /\ StartAccept
  /\ UNCHANGED <<main, threw, io, sessions, reading, writing, queued, closed,
                 cleared, missed, stalled, dangling>>

(* handleAccept up to the insertion: start() arms the first read, and from *)
(* then on the session's io thread runs.                                   *)
AcceptStarts ==
  /\ main = "accepting"
  /\ Len(service) < MaxSessions
  /\ Cardinality(Started) < MaxAccepts
  /\ main' = "starting"
  /\ reading' = reading \cup {Current}
  /\ UNCHANGED <<nextIOService, service, threw, io, sessions, writing, queued,
                 closed, cleared, missed, stalled, dangling>>

(* The insertion under session_mutex_, and startAccept.                    *)
AcceptRegisters ==
  /\ main = "starting"
  /\ main' = "accepting"
  /\ sessions' = sessions \cup {Current}
  /\ StartAccept
  /\ UNCHANGED <<threw, io, reading, writing, queued, closed, cleared, missed,
                 stalled, dangling>>

(* remote_endpoint(), for the log line of handleAccept, throws when the    *)
(* client has already gone: ioc.run() throws, main() leaves its try block. *)
AcceptThrows ==
  /\ main = "accepting"
  /\ main' = "leaving"
  /\ threw' = TRUE
  /\ UNCHANGED <<nextIOService, service, io, sessions, reading, writing, queued,
                 closed, cleared, missed, stalled, dangling>>

-----------------------------------------------------------------------------
(* Slip: the entry is found and not erased.                                *)
ClearWithoutErase(s) ==
  /\ cleared' = cleared \cup {s}
  /\ missed' = IF s \in Unregistered THEN missed \cup {s} ELSE missed
  /\ dangling' = (dangling \/ main = "destroyed")
  /\ UNCHANGED sessions

(* Server::clearSession, under session_mutex_.                             *)
ClearSession(s) ==
  /\ cleared' = cleared \cup {s}
  /\ missed' = IF s \in Unregistered THEN missed \cup {s} ELSE missed
  /\ dangling' = (dangling \/ main = "destroyed")
  /\ sessions' = sessions \ {s}

(* handleRead posts a frame and arms the next read.                        *)
ReadPosts(s) ==
  /\ s \in reading
  /\ queued' = queued \cup {s}
  /\ UNCHANGED <<acceptVars, sessions, reading, writing, closed, cleared, missed,
                 stalled, dangling>>

(* handleRead with an error: close() and clearSession.                     *)
ReadFails(s) ==
  /\ s \in reading
  /\ reading' = reading \ {s}
  /\ closed' = closed \cup {s}
  /\ ClearSession(s)
  /\ UNCHANGED <<acceptVars, writing, queued, stalled>>

(* handleRead refuses a header: clearSession alone.                        *)
ReadRejects(s) ==
  /\ s \in reading
  /\ reading' = reading \ {s}
  /\ ClearSession(s)
  /\ UNCHANGED <<acceptVars, writing, queued, closed, stalled>>

(* handleRead catches an exception: nothing is armed, nothing cleared.     *)
ReadThrows(s) ==
  /\ s \in reading
  /\ reading' = reading \ {s}
  /\ stalled' = stalled \cup {s}
  /\ UNCHANGED <<acceptVars, sessions, writing, queued, closed, cleared, missed,
                 dangling>>

(* handleWrite without an error, the send queue empty.                     *)
WriteDone(s) ==
  /\ s \in writing
  /\ writing' = writing \ {s}
  /\ UNCHANGED <<acceptVars, sessions, reading, queued, closed, cleared, missed,
                 stalled, dangling>>

(* Slip: handleWrite with an error clears the session and leaves the socket*)
(* open, its read armed.                                                   *)
WriteFailsUnclosed(s) ==
  /\ s \in writing
  /\ writing' = writing \ {s}
  /\ ClearSession(s)
  /\ UNCHANGED <<acceptVars, reading, queued, closed, stalled>>

(* handleWrite with an error: close() and clearSession.                    *)
WriteFails(s) ==
  /\ s \in writing
  /\ writing' = writing \ {s}
  /\ closed' = closed \cup {s}
  /\ ClearSession(s)
  /\ UNCHANGED <<acceptVars, reading, queued, stalled>>

(* The LogicSystem worker pops a session's LogicNode, perhaps not its last.*)
(* The reply, if there is one, may start a write: it does not when it is   *)
(* queued behind another or dropped ...                                    *)
WorkerReplies(s) ==
  /\ s \in queued
  /\ \E left \in {queued, queued \ {s}} : queued' = left
  /\ \E started \in {writing, writing \cup {s}} : writing' = started
  /\ UNCHANGED <<acceptVars, sessions, reading, closed, cleared, missed, stalled,
                 dangling>>

(* ... or, on MSG_EXIT, closes the session.                                *)
WorkerCloses(s) ==
  /\ s \in queued
  /\ \E left \in {queued, queued \ {s}} : queued' = left
  /\ closed' = closed \cup {s}
  /\ UNCHANGED <<acceptVars, sessions, reading, writing, cleared, missed, stalled,
                 dangling>>

-----------------------------------------------------------------------------
(* SIGINT or SIGTERM: ioc.stop() and, in pool.stop(), every context's.     *)
Signal ==
  /\ main = "accepting"
  /\ main' = "joining"
  /\ UNCHANGED <<nextIOService, service, threw, io, sessions, reading, writing,
                 queued, closed, cleared, missed, stalled, dangling>>

(* Slip: the signal handler stops ioc only.                                *)
PoolStopWithoutJoin ==
  /\ main = "joining"
  /\ main' = "leaving"
  /\ UNCHANGED <<nextIOService, service, threw, io, sessions, reading, writing,
                 queued, closed, cleared, missed, stalled, dangling>>

(* pool.stop() has joined the pool's threads, ioc.run() returns.           *)
PoolStop ==
  /\ main = "joining"
  /\ main' = "leaving"
  /\ io' = "stopped"
  /\ UNCHANGED <<nextIOService, service, threw, sessions, reading, writing, queued,
                 closed, cleared, missed, stalled, dangling>>

(* main() leaves the try block: ~Server destroys sessions_.                *)
ServerDtor ==
  /\ main = "leaving"
  /\ main' = "destroyed"
  /\ sessions' = {}
  /\ UNCHANGED <<nextIOService, service, threw, io, reading, writing, queued,
                 closed, cleared, missed, stalled, dangling>>

-----------------------------------------------------------------------------
Accept == AcceptFails \/ AcceptStarts \/ AcceptRegisters \/ AcceptThrows

IoThread(s) ==
  /\ io = "running"
  /\ \/ ReadPosts(s) \/ ReadFails(s) \/ ReadRejects(s) \/ ReadThrows(s)
     \/ WriteDone(s) \/ WriteFails(s)

Worker(s) == WorkerReplies(s) \/ WorkerCloses(s)

Next ==
  \/ Accept
  \/ \E s \in Sessions : IoThread(s) \/ Worker(s)
  \/ Signal \/ PoolStop \/ ServerDtor

(* What must go on: a handler of the main thread once it has begun; on a   *)
(* closed socket, where neither a read nor a write can stay outstanding, the*)
(* handler of each; the worker, until it has emptied its queue.  Nothing is*)
(* assumed of clients, who may never take the bytes of a write or send any,*)
(* of signals or of accepts.                                               *)
Fairness ==
  /\ WF_vars(AcceptRegisters)
  /\ \A s \in Sessions :
       /\ WF_vars(io = "running" /\ s \in closed /\ (WriteDone(s) \/ WriteFails(s)))
       /\ WF_vars(io = "running" /\ s \in closed /\ ReadFails(s))
       /\ WF_vars(Worker(s) /\ s \notin queued')

SafetySpec == Init /\ [][Next]_vars

Spec == SafetySpec /\ Fairness

-----------------------------------------------------------------------------
(* Properties.                                                             *)

(* sessions_ keeps a session that reads nothing any more only if its       *)
(* handleRead caught an exception, or ended between start() and the        *)
(* insertion, when clearSession had nothing to erase.                      *)
DeadEntriesExplained == sessions \ reading \subseteq stalled \cup missed

(* Sessions are spread evenly: the io_contexts differ by at most one in    *)
(* the number of sessions they were given, whichever accepts failed.       *)
Load(i) == Cardinality({s \in DOMAIN service : service[s] = i})
PoolBalanced == \A i, j \in 0..(PoolSize - 1) : Load(i) <= Load(j) + 1

(* No handler uses server_ after ~Server: pool.stop() has joined the       *)
(* threads that run them, unless main() was left by an exception.          *)
ServerOutlivesHandlers == dangling => threw

(* A cleared session is eventually destroyed, its socket with it: reads,   *)
(* writes and queued requests let go of it.  There are three exceptions: an*)
(* entry inserted after the session was cleared, which nothing erases any  *)
(* more; a write on the socket that a refused header leaves open, when the *)
(* peer does not read; and the pool's threads stopped.                     *)
ClearedIsReleased ==
  \A s \in Sessions :
    s \in cleared ~> \/ ~Exists(s)
                      \/ s \in missed \cap sessions
                      \/ s \in writing \ closed
                      \/ io = "stopped"
=============================================================================
