------------------------------- MODULE Client -------------------------------
(***************************************************************************)
(* The client (client/include): the main thread runs the command line of   *)
(* CommandLineInterface, which sends commands through YFTPClient; the io   *)
(* thread runs the handlers of ClientSession, whose processMessage answers *)
(* them.  The user types ahead: no command waits for the one before.       *)
(*                                                                         *)
(* The connection carries requests one way and replies the other, each in  *)
(* order; modules SessionSend and SessionRead say how.  The server answers *)
(* each request once and in order (modules LogicSystem and SessionSend),   *)
(* or the connection ends.                                                 *)
(***************************************************************************)
EXTENDS Naturals, Sequences

CONSTANTS Locals,      (* local paths a download may be saved as           *)
          NoLocal,     (* of a request that is not a download              *)
          MaxSendQue,  (* MAX_SENDQUE                                      *)
          MaxRequests  (* bound: requests sent                             *)

ASSUME NoLocalAssumption == NoLocal \notin Locals
ASSUME MaxSendQueAssumption == MaxSendQue \in Nat
ASSUME MaxRequestsAssumption == MaxRequests \in Nat

VARIABLES
  main,       (* the main thread: "connecting" (waits for isConnected()),  *)
              (* "prompt" (in getline), "sending" (a command that waits    *)
              (* for its reply is about to be sent), then disconnect():    *)
              (* "closing", "stopping", "joining"; "done"                  *)
  io,         (* io_thread_: "running", or "returned" from run()           *)
  waiting,    (* waiting_response_                                         *)
  connected,  (* ClientSession::connected_                                 *)
  socket,     (* ClientSession::socket_: "open" or "closed"                *)
  reader,     (* "connecting", "armed" (a read is outstanding) or "off"    *)
  write,      (* the write of the front of send_que: "none", "pending",    *)
              (* or with its handler due: "out" (sent) or "failed"         *)
  send_que,   (* ClientSession::send_que_                                  *)
  current_download_file,
  requests,   (* on their way to the server                                *)
  replies,    (* on their way to the client                                *)
  server,     (* the server's end of the connection: "up" or "gone"        *)
  sent,       (* history: request -> the local path it was to be saved as  *)
  answered,   (* history: the requests whose reply parsed                  *)
  lost,       (* history: why no reply is due, since the last callback: a  *)
              (* command was "unsent", a "reply" did not parse             *)
  saved       (* history: <<request, local path>> of downloads saved       *)

mainVars == <<main, waiting, current_download_file, sent>>
netVars == <<requests, replies, server>>
sessionVars == <<connected, socket, reader, write, send_que>>
history == <<answered, lost, saved>>
vars == <<mainVars, io, netVars, sessionVars, history>>

-----------------------------------------------------------------------------
Requests == 1..MaxRequests

TypeOK ==
  /\ main \in {"connecting", "prompt", "sending", "closing", "stopping", "joining", "done"}
  /\ io \in {"running", "returned"}
  /\ waiting \in BOOLEAN /\ connected \in BOOLEAN
  /\ socket \in {"open", "closed"}
  /\ reader \in {"connecting", "armed", "off"}
  /\ write \in {"none", "pending", "out", "failed"}
  /\ send_que \in Seq(Requests) /\ requests \in Seq(Requests)
  /\ write \in {"pending", "out", "failed"} => send_que # <<>>
  /\ replies \in Seq([request : Requests, parses : BOOLEAN, content : BOOLEAN])
  /\ server \in {"up", "gone"}
  /\ current_download_file \in Locals \cup {NoLocal}
  /\ sent \in Seq(Locals \cup {NoLocal}) /\ Len(sent) <= MaxRequests
  /\ answered \subseteq DOMAIN sent
  /\ lost \subseteq {"unsent", "reply"}
  /\ saved \subseteq (DOMAIN sent) \X (Locals \cup {NoLocal})

(* connect() has started the connection and the io thread.                 *)
Init ==
  /\ main = "connecting"
  /\ io = "running"
  /\ waiting = FALSE
  /\ connected = FALSE
  /\ socket = "open"
  /\ reader = "connecting"
  /\ write = "none"
  /\ send_que = <<>>
  /\ current_download_file = NoLocal
  /\ requests = <<>> /\ replies = <<>>
  /\ server = "up"
  /\ sent = <<>>
  /\ answered = {} /\ lost = {} /\ saved = {}

-----------------------------------------------------------------------------
(* The main thread.                                                        *)

(* start(): the poll of isConnected() succeeds.                            *)
MainConnected ==
  /\ main = "connecting"
  /\ connected
  /\ main' = "prompt"
  /\ UNCHANGED <<io, waiting, current_download_file, sent, netVars, sessionVars, history>>

(* A command that expects a reply sets waiting_response_ first.            *)
CommandWaits ==
  /\ main = "prompt"
  /\ main' = "sending"
  /\ waiting' = TRUE
  /\ UNCHANGED <<io, current_download_file, sent, netVars, sessionVars, history>>

(* The queue holds more than MAX_SENDQUE messages: send() takes no more.   *)
Full == Len(send_que) > MaxSendQue

(* ClientSession::send, on the main thread: the write it starts on an idle *)
(* session may already put the request on the wire.                        *)
Send(local) ==
  /\ ~Full
  /\ Len(sent) < MaxRequests
  /\ sent' = Append(sent, local)
  /\ send_que' = Append(send_que, Len(sent'))
  /\ \/ /\ send_que = <<>> => write' = "pending"
        /\ send_que # <<>> => UNCHANGED write
        /\ UNCHANGED requests
     \/ /\ send_que = <<>> /\ socket = "open" /\ server = "up"
        /\ write' = "out"
        /\ requests' = Append(requests, Len(sent'))
  /\ UNCHANGED <<connected, socket, reader, replies, server>>

(* hello expects no reply; any other command has set waiting_response_.    *)
(* (A hello that a full queue drops changes nothing.)                      *)
Hello ==
  /\ main = "prompt"
  /\ Send(NoLocal)
  /\ UNCHANGED <<main, io, waiting, current_download_file, history>>

CommandSends ==
  /\ main = "sending"
  /\ Send(NoLocal)
  /\ main' = "prompt"
  /\ UNCHANGED <<io, waiting, current_download_file, history>>

(* A download: the local path is stored where processMessage finds it.     *)
Download(local) ==
  /\ main = "sending"
  /\ current_download_file' = local
  /\ Send(local)
  /\ main' = "prompt"
  /\ UNCHANGED <<io, waiting, history>>

(* An upload whose local file is missing or empty is not sent.             *)
UploadNotSent ==
  /\ main = "sending"
  /\ main' = "prompt"
  /\ lost' = lost \cup {"unsent"}
  /\ UNCHANGED <<io, waiting, current_download_file, sent, netVars, sessionVars,
                 answered, saved>>

(* send() drops the command: the main thread goes on as if it were sent. A *)
(* download has stored its local path by then.                             *)
CommandDropped ==
  /\ main = "sending"
  /\ Full
  /\ main' = "prompt"
  /\ lost' = lost \cup {"unsent"}
  /\ \E local \in Locals \cup {current_download_file} : current_download_file' = local
  /\ UNCHANGED <<io, waiting, sent, netVars, sessionVars, answered, saved>>

(* SendNode throws on an upload of 32 KiB and more: start() is left by the *)
(* exception, and ~YFTPClient disconnects.                                 *)
UploadThrows ==
  /\ main = "sending"
  /\ ~Full
  /\ main' = "closing"
  /\ UNCHANGED <<io, waiting, current_download_file, sent, netVars, sessionVars, history>>

(* The exit command: start() leaves its loop.                              *)
ExitCommand ==
  /\ main = "prompt"
  /\ main' = "closing"
  /\ UNCHANGED <<io, waiting, current_download_file, sent, netVars, sessionVars, history>>

(* ClientSession::close, by either thread.                                 *)
Close ==
  /\ socket' = "closed"
  /\ connected' = FALSE

(* Slip: disconnect() joins the io thread, and closes and stops nothing.   *)
DisconnectJoinsOnly ==
  /\ main = "closing"
  /\ io = "returned"
  /\ main' = "done"
  /\ UNCHANGED <<io, waiting, current_download_file, sent, netVars, sessionVars, history>>

(* disconnect(): close the session, ...                                    *)
DisconnectCloses ==
  /\ main = "closing"
  /\ main' = "stopping"
  /\ Close
  /\ UNCHANGED <<io, waiting, current_download_file, sent, netVars, reader, write,
                 send_que, history>>

(* ... stop the io_context ...                                             *)
DisconnectStops ==
  /\ main = "stopping"
  /\ main' = "joining"
  /\ UNCHANGED <<io, waiting, current_download_file, sent, netVars, sessionVars, history>>

(* ... and join its thread.                                                *)
DisconnectJoins ==
  /\ main = "joining"
  /\ io = "returned"
  /\ main' = "done"
  /\ UNCHANGED <<io, waiting, current_download_file, sent, netVars, sessionVars, history>>

-----------------------------------------------------------------------------
(* The io thread.                                                          *)

(* async_connect ends: the first read is armed ...                         *)
ConnectSucceeds ==
  /\ io = "running"
  /\ reader = "connecting"
  /\ server = "up"
  /\ reader' = "armed"
  /\ connected' = TRUE
  /\ UNCHANGED <<mainVars, io, netVars, socket, write, send_que, history>>

(* ... or an error is printed, and nothing else.                           *)
ConnectFails ==
  /\ io = "running"
  /\ reader = "connecting"
  /\ reader' = "off"
  /\ UNCHANGED <<mainVars, io, netVars, connected, socket, write, send_que, history>>

(* The outstanding write puts the front on the wire, or fails.             *)
FrontOut ==
  /\ io = "running"
  /\ write = "pending"
  /\ socket = "open" /\ server = "up"
  /\ write' = "out"
  /\ requests' = Append(requests, Head(send_que))
  /\ UNCHANGED <<mainVars, io, replies, server, connected, socket, reader, send_que, history>>

FrontFails ==
  /\ io = "running"
  /\ write = "pending"
  /\ socket = "closed" \/ server = "gone"
  /\ write' = "failed"
  /\ UNCHANGED <<mainVars, io, netVars, connected, socket, reader, send_que, history>>

(* Slip: the next write is started without a look at the queue.            *)
WriteDoneUntested ==
  /\ io = "running"
  /\ write = "out"
  /\ send_que' = Tail(send_que)
  /\ write' = "pending"
  /\ UNCHANGED <<mainVars, io, netVars, connected, socket, reader, history>>

(* handleWrite without an error.                                           *)
WriteDone ==
  /\ io = "running"
  /\ write = "out"
  /\ send_que' = Tail(send_que)
  /\ write' = IF send_que' = <<>> THEN "none" ELSE "pending"
  /\ UNCHANGED <<mainVars, io, netVars, connected, socket, reader, history>>

(* handleWrite with an error: close().                                     *)
WriteError ==
  /\ io = "running"
  /\ write = "failed"
  /\ write' = "none"
  /\ Close
  /\ UNCHANGED <<mainVars, io, netVars, reader, send_que, history>>

(* Slip: on_response_callback_ is called for the replies that are shown,   *)
(* and not for a file that is saved.                                       *)
CallbackUnlessSaved(r) ==
  IF sent[r.request] # NoLocal /\ r.content
    THEN UNCHANGED <<waiting, lost>>
    ELSE waiting' = FALSE /\ lost' = {}

(* on_response_callback_ after a reply was processed.                      *)
Callback(r) ==
  /\ waiting' = FALSE
  /\ lost' = {}

(* handleRead and processMessage: a reply that does not parse is only      *)
(* reported; the content of a download is saved under the current name.    *)
(* A chunk that was received is handled even if close() has run meanwhile. *)
ReadReply ==
  /\ io = "running"
  /\ reader = "armed"
  /\ replies # <<>>
  /\ LET r == Head(replies)
     IN  IF r.parses
           THEN /\ saved' = IF sent[r.request] # NoLocal /\ r.content
                              THEN saved \cup {<<r.request, current_download_file>>}
                              ELSE saved
                /\ answered' = answered \cup {r.request}
                /\ Callback(r)
           ELSE lost' = lost \cup {"reply"} /\ UNCHANGED <<saved, waiting, answered>>
  /\ replies' = Tail(replies)
  /\ UNCHANGED <<main, current_download_file, sent, io, requests, server, sessionVars>>

(* Slip: handleRead reports an error and does not close the session.       *)
ReadErrorNotClosed ==
  /\ io = "running"
  /\ reader = "armed"
  /\ socket = "closed" \/ server = "gone"
  /\ reader' = "off"
  /\ UNCHANGED <<mainVars, io, netVars, connected, socket, write, send_que, history>>

(* handleRead with an error: close().                                      *)
ReadError ==
  /\ io = "running"
  /\ reader = "armed"
  /\ socket = "closed" \/ server = "gone"
  /\ reader' = "off"
  /\ Close
  /\ UNCHANGED <<mainVars, io, netVars, write, send_que, history>>

(* run() returns when stop() was called or nothing is outstanding.         *)
RunReturns ==
  /\ io = "running"
  /\ main \in {"joining", "done"} \/ (reader = "off" /\ write = "none")
  /\ io' = "returned"
  /\ UNCHANGED <<mainVars, netVars, sessionVars, history>>

-----------------------------------------------------------------------------
(* The server.                                                             *)

(* It answers the oldest request; a download with the content or an error. *)
(* SendNode cuts a reply of 64 KiB and more: it does not parse.  A closed  *)
(* socket receives nothing more.                                           *)
ServerReplies ==
  /\ server = "up"
  /\ requests # <<>>
  /\ \E parses, content \in BOOLEAN :
       LET r == [request |-> Head(requests), parses |-> parses, content |-> content]
       IN  replies' = IF socket = "open" THEN Append(replies, r) ELSE replies
  /\ requests' = Tail(requests)
  /\ UNCHANGED <<mainVars, io, server, sessionVars, history>>

(* The server ends the connection, or itself.                              *)
ServerGone ==
  /\ server = "up"
  /\ server' = "gone"
  /\ UNCHANGED <<mainVars, io, requests, replies, sessionVars, history>>

-----------------------------------------------------------------------------
User ==
  \/ CommandWaits
  \/ Hello
  \/ ExitCommand

Main ==
  \/ MainConnected
  \/ CommandSends \/ (\E local \in Locals : Download(local))
  \/ UploadNotSent \/ UploadThrows \/ CommandDropped
  \/ DisconnectCloses \/ DisconnectStops \/ DisconnectJoins

Io ==
  \/ ConnectSucceeds \/ ConnectFails
  \/ FrontOut \/ FrontFails \/ WriteDone \/ WriteError
  \/ ReadReply \/ ReadError
  \/ RunReturns

Next == User \/ Main \/ Io \/ ServerReplies \/ ServerGone

(* Both threads are scheduled, and the server answers as long as it is     *)
(* there (properties EveryRequestHandled and EveryFrameWritten).  Nothing  *)
(* is assumed of the user.                                                 *)
Fairness == WF_vars(Main) /\ WF_vars(Io) /\ WF_vars(ServerReplies)

SafetySpec == Init /\ [][Next]_vars

Spec == SafetySpec /\ Fairness

-----------------------------------------------------------------------------
(* Properties.                                                             *)

Unanswered == DOMAIN sent \ answered

(* The prompt is held back only while a reply is due, or because a command *)
(* was not sent: the main thread sets waiting_response_ before it sends,   *)
(* so that the io thread, which clears it, cannot be overtaken.            *)
WaitingExplained ==
  main = "prompt" /\ waiting => Unanswered # {} \/ "unsent" \in lost

(* The prompt comes back after every command, unless the connection ends,  *)
(* the command was not sent or its reply did not parse.                    *)
PromptReturns ==
  main = "prompt" /\ waiting ~>
    (~waiting \/ lost # {} \/ server = "gone" \/ socket = "closed" \/ main = "closing")

(* The client notices that its server has gone, even one that it is not    *)
(* waiting for.                                                            *)
ServerLossNoticed == server = "gone" /\ connected ~> ~connected

(* disconnect() ends, whatever the io thread is doing or has stopped doing.*)
ExitCompletes == main = "closing" ~> main = "done"

(* Each downloaded file is saved under the name its own command gave: "save*)
(* the name of the file being downloaded, to save it when it is received"  *)
(* (YFTPClient.hpp:115).                                                   *)
SavedAsAsked == \A s \in saved : s[2] = sent[s[1]]
=============================================================================
