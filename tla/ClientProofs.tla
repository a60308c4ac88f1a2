---------------------------- MODULE ClientProofs ---------------------------
(***************************************************************************)
(* Proofs about Client, for any local paths and any number of requests.    *)
(* Whatever is queued, on its way or answered is a request that was sent:  *)
(* that is what makes a new request unanswered when the prompt comes back, *)
(* however the io thread overtakes the main thread.                        *)
(***************************************************************************)
EXTENDS Client, TLAPS

Reply == [request : Requests, parses : BOOLEAN, content : BOOLEAN]

(* What is under way was sent.                                             *)
UnderWayWasSent ==
  /\ \A i \in DOMAIN send_que : send_que[i] \in DOMAIN sent
  /\ \A i \in DOMAIN requests : requests[i] \in DOMAIN sent
  /\ \A i \in DOMAIN replies : replies[i].request \in DOMAIN sent

(* Nothing is awaited before the first prompt.                             *)
ConnectingWaitsForNothing == main = "connecting" => ~waiting

Inv ==
  /\ TypeOK
  /\ UnderWayWasSent
  /\ ConnectingWaitsForNothing
  /\ WaitingExplained

-----------------------------------------------------------------------------
(* A queue whose elements satisfy a condition still does when one that does*)
(* is appended, or when its head is taken.                                 *)
LEMMA AppendWithin ==
  ASSUME NEW T, NEW S, S \subseteq T, NEW q \in Seq(T), \A i \in DOMAIN q : q[i] \in S, NEW e \in S
  PROVE  /\ Append(q, e) \in Seq(T)
         /\ \A i \in DOMAIN Append(q, e) : Append(q, e)[i] \in S
OBVIOUS

LEMMA TailWithin ==
  ASSUME NEW T, NEW S, NEW q \in Seq(T), \A i \in DOMAIN q : q[i] \in S, q # <<>>
  PROVE  /\ Tail(q) \in Seq(T)
         /\ Head(q) \in S /\ Head(q) \in T
         /\ \A i \in DOMAIN Tail(q) : Tail(q)[i] \in S
OBVIOUS

-----------------------------------------------------------------------------
LEMMA InitInv == Init => Inv
<1> SUFFICES ASSUME Init PROVE Inv
  OBVIOUS
<1>1. TypeOK
  <2>1. /\ sent \in Seq(Locals \cup {NoLocal}) /\ Len(sent) <= MaxRequests
        /\ send_que \in Seq(Requests) /\ requests \in Seq(Requests) /\ replies \in Seq(Reply)
    BY MaxRequestsAssumption DEF Init
  <2>2. answered \subseteq DOMAIN sent /\ saved \subseteq (DOMAIN sent) \X (Locals \cup {NoLocal})
    BY DEF Init
  <2> QED
    BY <2>1, <2>2 DEF Init, TypeOK, Reply
<1>2. UnderWayWasSent /\ ConnectingWaitsForNothing /\ WaitingExplained
  BY DEF Init, UnderWayWasSent, ConnectingWaitsForNothing, WaitingExplained
<1> QED
  BY <1>1, <1>2 DEF Inv

(* send(): the request is new, and so unanswered, whatever has already been*)
(* answered.                                                               *)
LEMMA SendNew ==
  ASSUME Inv, NEW local \in Locals \cup {NoLocal}, Send(local), UNCHANGED answered
  PROVE  /\ sent' \in Seq(Locals \cup {NoLocal}) /\ Len(sent') <= MaxRequests
         /\ DOMAIN sent \subseteq DOMAIN sent'
         /\ send_que' \in Seq(Requests) /\ requests' \in Seq(Requests)
         /\ write' \in {"none", "pending", "out", "failed"} /\ send_que' # <<>>
         /\ UnderWayWasSent'
         /\ Unanswered' # {}
<1> DEFINE n == Len(sent')
<1>1. /\ sent \in Seq(Locals \cup {NoLocal}) /\ sent' = Append(sent, local)
      /\ Len(sent) < MaxRequests
      /\ send_que \in Seq(Requests) /\ requests \in Seq(Requests)
  BY DEF Inv, TypeOK, Send
<1>2. /\ sent' \in Seq(Locals \cup {NoLocal}) /\ n = Len(sent) + 1
      /\ DOMAIN sent' = 1..n /\ DOMAIN sent = 1..Len(sent)
      /\ Len(sent) \in Nat
  BY <1>1
<1>3. n \in DOMAIN sent' /\ n \notin DOMAIN sent /\ n \in Requests /\ n <= MaxRequests
  BY <1>1, <1>2, MaxRequestsAssumption DEF Requests
<1>4. DOMAIN sent \subseteq DOMAIN sent'
  BY <1>2
<1>5. send_que' = Append(send_que, n) /\ requests' \in {requests, Append(requests, n)}
  BY DEF Send
<1>6. write' \in {"none", "pending", "out", "failed"}
  BY DEF Send, Inv, TypeOK
<1> HIDE DEF n
<1>7. DOMAIN sent' \subseteq Requests
  BY <1>2, <1>3, MaxRequestsAssumption DEF Requests
<1>8. /\ send_que' \in Seq(Requests)
      /\ \A i \in DOMAIN send_que' : send_que'[i] \in DOMAIN sent'
  <2>1. \A i \in DOMAIN send_que : send_que[i] \in DOMAIN sent'
    BY <1>4 DEF Inv, UnderWayWasSent
  <2> QED
    BY <1>1, <1>3, <1>5, <1>7, <2>1, AppendWithin
<1>9. /\ requests' \in Seq(Requests)
      /\ \A i \in DOMAIN requests' : requests'[i] \in DOMAIN sent'
  <2>1. \A i \in DOMAIN requests : requests[i] \in DOMAIN sent'
    BY <1>4 DEF Inv, UnderWayWasSent
  <2>2. /\ Append(requests, n) \in Seq(Requests)
        /\ \A i \in DOMAIN Append(requests, n) : Append(requests, n)[i] \in DOMAIN sent'
    BY <1>1, <1>3, <1>7, <2>1, AppendWithin
  <2> QED
    BY <1>1, <1>5, <2>1, <2>2
<1>10. \A i \in DOMAIN replies' : replies'[i].request \in DOMAIN sent'
  BY <1>4 DEF Send, Inv, UnderWayWasSent
<1>11. send_que' # <<>>
  BY <1>1, <1>3, <1>5, SMTT(40)
<1>12. n \in Unanswered'
  BY <1>3 DEF Unanswered, Inv, TypeOK
<1> QED
  BY <1>2, <1>3, <1>4, <1>6, <1>8, <1>9, <1>10, <1>11, <1>12 DEF UnderWayWasSent, n

(* The steps of the main thread that send.                                 *)
LEMMA SendingInv ==
  Inv /\ (Hello \/ CommandSends \/ \E local \in Locals : Download(local)) => Inv'
<1> SUFFICES ASSUME Inv, Hello \/ CommandSends \/ \E local \in Locals : Download(local)
             PROVE  Inv'
  OBVIOUS
<1>1. PICK local \in Locals \cup {NoLocal} :
        /\ Send(local)
        /\ current_download_file' \in {current_download_file, local}
        /\ main' = "prompt"
        /\ UNCHANGED <<io, waiting, answered, lost, saved>>
  BY DEF Hello, CommandSends, Download, history
<1>2. /\ sent' \in Seq(Locals \cup {NoLocal}) /\ Len(sent') <= MaxRequests
      /\ DOMAIN sent \subseteq DOMAIN sent'
      /\ send_que' \in Seq(Requests) /\ requests' \in Seq(Requests)
      /\ write' \in {"none", "pending", "out", "failed"} /\ send_que' # <<>>
      /\ UnderWayWasSent'
      /\ Unanswered' # {}
  BY <1>1, SendNew
<1>3. UNCHANGED <<connected, socket, reader, replies, server>>
  BY <1>1 DEF Send
<1>4. TypeOK'
  <2>1. answered' \subseteq DOMAIN sent'
    BY <1>1, <1>2 DEF Inv, TypeOK
  <2>2. saved' \subseteq (DOMAIN sent') \X (Locals \cup {NoLocal})
    <3>1. saved \subseteq (DOMAIN sent) \X (Locals \cup {NoLocal})
      BY DEF Inv, TypeOK
    <3> QED
      BY <1>1, <1>2, <3>1
  <2>3. current_download_file' \in Locals \cup {NoLocal}
    BY <1>1 DEF Inv, TypeOK
  <2> QED
    BY <1>1, <1>2, <1>3, <2>1, <2>2, <2>3 DEF Inv, TypeOK
<1>5. ConnectingWaitsForNothing' /\ WaitingExplained'
  BY <1>1, <1>2 DEF ConnectingWaitsForNothing, WaitingExplained
<1> QED
  BY <1>2, <1>4, <1>5 DEF Inv

(* Its other steps.                                                        *)
LEMMA MainInv ==
  Inv /\ (CommandWaits \/ ExitCommand \/ MainConnected \/ UploadNotSent \/ UploadThrows
          \/ CommandDropped \/ DisconnectCloses \/ DisconnectStops \/ DisconnectJoins) => Inv'
<1> SUFFICES ASSUME Inv,
                    \/ CommandWaits \/ ExitCommand \/ MainConnected \/ UploadNotSent
                    \/ UploadThrows \/ CommandDropped \/ DisconnectCloses \/ DisconnectStops \/ DisconnectJoins
             PROVE  Inv'
  OBVIOUS
<1> USE DEF Inv, CommandWaits, ExitCommand, MainConnected, UploadNotSent, UploadThrows,
            CommandDropped, DisconnectCloses, DisconnectStops, DisconnectJoins, Close, netVars, sessionVars,
            history
<1>1. TypeOK'
  <2>1. /\ UNCHANGED <<io, sent, requests, replies, server>>
        /\ UNCHANGED <<reader, write, send_que, answered, saved>>
        /\ current_download_file' \in Locals \cup {current_download_file}
    OBVIOUS
  <2>2. main' \in {"connecting", "prompt", "sending", "closing", "stopping", "joining", "done"}
    OBVIOUS
  <2>3. waiting' \in BOOLEAN /\ connected' \in BOOLEAN
    BY DEF TypeOK
  <2>4. socket' \in {"open", "closed"} /\ lost' \subseteq {"unsent", "reply"}
    BY DEF TypeOK
  <2> HIDE DEF CommandWaits, ExitCommand, MainConnected, UploadNotSent, UploadThrows,
               CommandDropped, DisconnectCloses, DisconnectStops, DisconnectJoins
  <2> QED
    BY <2>1, <2>2, <2>3, <2>4 DEF TypeOK
<1>2. UnderWayWasSent'
  BY DEF UnderWayWasSent
<1>3. ConnectingWaitsForNothing' /\ WaitingExplained'
  BY DEF ConnectingWaitsForNothing, WaitingExplained, Unanswered
<1> QED
  BY <1>1, <1>2, <1>3

(* The io thread, but for replies: only the session's own state changes,   *)
(* and what is on its way out.                                             *)
LEMMA IoInv ==
  Inv /\ (ConnectSucceeds \/ ConnectFails \/ FrontOut \/ FrontFails \/ WriteDone
          \/ WriteError \/ ReadError \/ RunReturns) => Inv'
<1> SUFFICES ASSUME Inv,
                    \/ ConnectSucceeds \/ ConnectFails \/ FrontOut \/ FrontFails \/ WriteDone
                    \/ WriteError \/ ReadError \/ RunReturns
             PROVE  Inv'
  OBVIOUS
<1>1. UNCHANGED mainVars /\ UNCHANGED <<replies, server>> /\ UNCHANGED history
  BY DEF ConnectSucceeds, ConnectFails, FrontOut, FrontFails, WriteDone, WriteError,
         ReadError, RunReturns, netVars
<1>2. DOMAIN sent \subseteq Requests
  BY MaxRequestsAssumption DEF Inv, TypeOK, Requests
<1>3. /\ requests' \in Seq(Requests)
      /\ \A i \in DOMAIN requests' : requests'[i] \in DOMAIN sent
  <2>0. /\ requests \in Seq(Requests) /\ send_que \in Seq(Requests)
        /\ \A i \in DOMAIN requests : requests[i] \in DOMAIN sent
        /\ \A i \in DOMAIN send_que : send_que[i] \in DOMAIN sent
    BY DEF Inv, TypeOK, UnderWayWasSent
  <2>1. CASE FrontOut
    <3>1. send_que # <<>> /\ requests' = Append(requests, Head(send_que))
      BY <2>1 DEF FrontOut, Inv, TypeOK
    <3>2. Head(send_que) \in DOMAIN sent
      BY <2>0, <3>1, TailWithin
    <3> QED
      BY <1>2, <2>0, <3>1, <3>2, AppendWithin
  <2>2. CASE ~FrontOut
    <3>1. UNCHANGED requests
      BY <2>2 DEF ConnectSucceeds, ConnectFails, FrontFails, WriteDone, WriteError,
                  ReadError, RunReturns, netVars
    <3> QED
      BY <2>0, <3>1
  <2> QED
    BY <2>1, <2>2
<1>4. /\ send_que' \in Seq(Requests)
      /\ \A i \in DOMAIN send_que' : send_que'[i] \in DOMAIN sent
      /\ write' \in {"none", "pending", "out", "failed"}
      /\ write' \in {"pending", "out", "failed"} => send_que' # <<>>
  <2>0. /\ send_que \in Seq(Requests)
        /\ \A i \in DOMAIN send_que : send_que[i] \in DOMAIN sent
        /\ write \in {"none", "pending", "out", "failed"}
        /\ write \in {"pending", "out", "failed"} => send_que # <<>>
    BY DEF Inv, TypeOK, UnderWayWasSent
  <2>1. CASE WriteDone
    <3>1. /\ send_que # <<>> /\ send_que' = Tail(send_que)
          /\ write' = IF send_que' = <<>> THEN "none" ELSE "pending"
      BY <2>0, <2>1 DEF WriteDone
    <3>2. /\ Tail(send_que) \in Seq(Requests)
          /\ \A i \in DOMAIN Tail(send_que) : Tail(send_que)[i] \in DOMAIN sent
      BY <2>0, <3>1, TailWithin
    <3> QED
      BY <3>1, <3>2
  <2>2. CASE ~WriteDone
    <3>1. UNCHANGED send_que
      BY <2>2 DEF ConnectSucceeds, ConnectFails, FrontOut, FrontFails, WriteError,
                  ReadError, RunReturns, sessionVars
    <3>2. write' \in {"none", "pending", "out", "failed"}
      BY <2>0, <2>2 DEF ConnectSucceeds, ConnectFails, FrontOut, FrontFails, WriteError,
                  ReadError, RunReturns, sessionVars
    <3>3. write' # "none" => write # "none"
      BY <2>0, <2>2 DEF ConnectSucceeds, ConnectFails, FrontOut, FrontFails, WriteError,
                  ReadError, RunReturns, sessionVars
    <3> QED
      BY <2>0, <3>1, <3>2, <3>3
  <2> QED
    BY <2>1, <2>2
<1>5. /\ io' \in {"running", "returned"}
      /\ connected' \in BOOLEAN /\ socket' \in {"open", "closed"}
      /\ reader' \in {"connecting", "armed", "off"}
  BY DEF Inv, TypeOK, ConnectSucceeds, ConnectFails, FrontOut, FrontFails, WriteDone,
         WriteError, ReadError, RunReturns, Close, sessionVars
<1> USE DEF mainVars, history
<1>6. TypeOK'
  BY <1>1, <1>3, <1>4, <1>5 DEF Inv, TypeOK
<1>7. UnderWayWasSent'
  BY <1>1, <1>3, <1>4 DEF Inv, UnderWayWasSent
<1>8. ConnectingWaitsForNothing' /\ WaitingExplained'
  BY <1>1 DEF Inv, ConnectingWaitsForNothing, WaitingExplained, Unanswered
<1> QED
  BY <1>6, <1>7, <1>8 DEF Inv

(* A reply clears waiting_response_ in the step in which its request counts*)
(* as answered.                                                            *)
LEMMA ReadReplyInv == Inv /\ ReadReply => Inv'
<1> SUFFICES ASSUME Inv, ReadReply PROVE Inv'
  OBVIOUS
<1> DEFINE r == Head(replies)
<1>1. /\ replies \in Seq(Reply) /\ replies # <<>> /\ replies' = Tail(replies)
      /\ \A i \in DOMAIN replies : replies[i].request \in DOMAIN sent
  BY DEF Inv, TypeOK, ReadReply, Reply, UnderWayWasSent
<1>2. /\ replies' \in Seq(Reply) /\ r.request \in DOMAIN sent
      /\ \A i \in DOMAIN replies' : replies'[i].request \in DOMAIN sent
  BY <1>1
<1>3. /\ UNCHANGED <<main, current_download_file, sent, io, requests, server>>
      /\ UNCHANGED sessionVars
  BY DEF ReadReply
<1>4. \/ /\ answered' = answered \cup {r.request} /\ ~waiting' /\ waiting' \in BOOLEAN /\ lost' = {}
         /\ saved' \in {saved, saved \cup {<<r.request, current_download_file>>}}
      \/ /\ UNCHANGED <<waiting, answered, saved>>
         /\ lost' = lost \cup {"reply"}
  BY DEF ReadReply, Callback
<1> HIDE DEF r
<1>5. TypeOK'
  <2>1. answered' \subseteq DOMAIN sent /\ lost' \subseteq {"unsent", "reply"}
    BY <1>2, <1>4 DEF Inv, TypeOK
  <2>2. saved' \subseteq (DOMAIN sent) \X (Locals \cup {NoLocal})
    <3>1. <<r.request, current_download_file>> \in (DOMAIN sent) \X (Locals \cup {NoLocal})
      BY <1>2 DEF Inv, TypeOK
    <3>2. saved \subseteq (DOMAIN sent) \X (Locals \cup {NoLocal})
      BY DEF Inv, TypeOK
    <3> QED
      BY <1>4, <3>1, <3>2
  <2>3. waiting' \in BOOLEAN
    BY <1>4 DEF Inv, TypeOK
  <2> QED
    BY <1>2, <1>3, <2>1, <2>2, <2>3 DEF Inv, TypeOK, sessionVars, Reply
<1>6. UnderWayWasSent'
  BY <1>2, <1>3 DEF Inv, UnderWayWasSent, sessionVars
<1>7. ConnectingWaitsForNothing' /\ WaitingExplained'
  BY <1>3, <1>4 DEF Inv, ConnectingWaitsForNothing, WaitingExplained, Unanswered
<1> QED
  BY <1>5, <1>6, <1>7 DEF Inv

LEMMA ServerInv == Inv /\ (ServerReplies \/ ServerGone) => Inv'
<1> SUFFICES ASSUME Inv, ServerReplies \/ ServerGone PROVE Inv'
  OBVIOUS
<1>1. UNCHANGED mainVars /\ UNCHANGED io /\ UNCHANGED sessionVars /\ UNCHANGED history
  BY DEF ServerReplies, ServerGone
<1>2. server' \in {"up", "gone"}
  BY DEF ServerReplies, ServerGone, Inv, TypeOK
<1>3. /\ requests \in Seq(Requests) /\ replies \in Seq(Reply)
      /\ \A i \in DOMAIN requests : requests[i] \in DOMAIN sent
      /\ \A i \in DOMAIN replies : replies[i].request \in DOMAIN sent
  BY DEF Inv, TypeOK, UnderWayWasSent, Reply
<1>4. /\ requests' \in Seq(Requests) /\ replies' \in Seq(Reply)
      /\ \A i \in DOMAIN requests' : requests'[i] \in DOMAIN sent
      /\ \A i \in DOMAIN replies' : replies'[i].request \in DOMAIN sent
  <2>1. CASE ServerReplies
    <3>1. PICK parses \in BOOLEAN, content \in BOOLEAN :
            replies' \in {replies, Append(replies,
                [request |-> Head(requests), parses |-> parses, content |-> content])}
      BY <2>1 DEF ServerReplies
    <3>2. requests # <<>> /\ requests' = Tail(requests)
      BY <2>1 DEF ServerReplies
    <3>3. /\ requests' \in Seq(Requests)
          /\ Head(requests) \in Requests /\ Head(requests) \in DOMAIN sent
          /\ \A i \in DOMAIN requests' : requests'[i] \in DOMAIN sent
      BY <1>3, <3>2, TailWithin
    <3> DEFINE e == [request |-> Head(requests), parses |-> parses, content |-> content]
    <3>4. e \in Reply /\ e.request \in DOMAIN sent
      BY <3>3 DEF Reply
    <3> HIDE DEF e
    <3>5. /\ Append(replies, e) \in Seq(Reply)
          /\ \A i \in DOMAIN Append(replies, e) : Append(replies, e)[i].request \in DOMAIN sent
      BY <1>3, <3>4
    <3> QED
      BY <1>3, <3>1, <3>3, <3>5 DEF e
  <2>2. CASE ServerGone
    BY <1>3, <2>2 DEF ServerGone
  <2> QED
    BY <2>1, <2>2
<1> USE DEF mainVars, sessionVars, history
<1>5. TypeOK'
  BY <1>1, <1>2, <1>4 DEF Inv, TypeOK, Reply
<1>6. UnderWayWasSent'
  BY <1>1, <1>4 DEF Inv, UnderWayWasSent
<1>7. ConnectingWaitsForNothing' /\ WaitingExplained'
  BY <1>1 DEF Inv, ConnectingWaitsForNothing, WaitingExplained, Unanswered
<1> QED
  BY <1>5, <1>6, <1>7 DEF Inv

LEMMA NextInv == Inv /\ [Next]_vars => Inv'
<1> SUFFICES ASSUME Inv, [Next]_vars PROVE Inv'
  OBVIOUS
<1>1. CASE UNCHANGED vars
  BY <1>1 DEF vars, mainVars, netVars, sessionVars, history, Inv, TypeOK, UnderWayWasSent,
              ConnectingWaitsForNothing, WaitingExplained, Unanswered
<1> QED
  BY <1>1, SendingInv, MainInv, IoInv, ReadReplyInv, ServerInv DEF Next, User, Main, Io

(* Inv is an invariant of the client.                                      *)
THEOREM Invariance == SafetySpec => []Inv
<1> QED
  BY InitInv, NextInv, PTL DEF SafetySpec

(* The types: a write under way has its frame at the front of the queue,   *)
(* and answers are answers to requests that were sent.                     *)
THEOREM TypeCorrect == SafetySpec => []TypeOK
<1>1. Inv => TypeOK
  BY DEF Inv
<1> QED
  BY <1>1, Invariance, PTL

(* The prompt is never held back without a request that is unanswered, or  *)
(* a command that was not sent.                                            *)
THEOREM PromptHeldForACause == SafetySpec => []WaitingExplained
<1>1. Inv => WaitingExplained
  BY DEF Inv
<1> QED
  BY <1>1, Invariance, PTL
=============================================================================
