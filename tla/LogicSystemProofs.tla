------------------------- MODULE LogicSystemProofs -------------------------
(***************************************************************************)
(* Proofs about LogicSystem, for any set of sessions and any bound on the  *)
(* requests they post.  The safety properties follow from one inductive    *)
(* invariant, Inv: the types, what each position of the worker tells about *)
(* the queue and b_stop_, what each position of main tells about the other *)
(* threads, and that the queue is what was posted and not yet handled.     *)
(***************************************************************************)
EXTENDS LogicSystem, FiniteSetTheorems, SequenceTheorems, TLAPS

(* Nothing posted is lost, altered or reordered.                           *)
QueueIsRest == posted = handled \o msg_que

(* What the worker has found out stays true while it holds the mutex.      *)
WorkerKnows ==
  /\ worker = "wait" => msg_que = <<>>
  /\ worker \in {"drain", "done"} => b_stop
  /\ worker = "done" /\ io = "joined" => msg_que = <<>>

(* Where main is in its shutdown.                                          *)
MainKnows ==
  /\ b_stop <=> main \in {"notify", "join", "exited"}
  /\ io = "joined" => main \in {"dtor", "notify", "join", "exited"}
  /\ main = "exited" => worker = "done"

Inv ==
  /\ TypeOK
  /\ QueueIsRest
  /\ WorkerKnows
  /\ MainKnows
  /\ FrontExists
  /\ NoLostWakeup

-----------------------------------------------------------------------------
(* The requests of one session are a finite set, and numbering them stays  *)
(* within the bound as long as the guard of Post holds.                    *)
LEMMA PostedByFinite ==
  ASSUME posted \in Seq(LogicNode), NEW s \in Sessions
  PROVE  Cardinality(PostedBy(s)) \in Nat
<1>1. IsFiniteSet(1..Len(posted)) /\ PostedBy(s) \subseteq 1..Len(posted)
  BY FS_Interval DEF PostedBy
<1>2. IsFiniteSet(PostedBy(s))
  BY <1>1, FS_Subset
<1> QED
  BY <1>2, FS_CardinalityType

(* What Post appends is a LogicNode.                                       *)
LEMMA NodeType ==
  ASSUME posted \in Seq(LogicNode), NEW s \in Sessions, NEW k \in Kinds,
         Cardinality(PostedBy(s)) < MaxPosts
  PROVE  [session |-> s, kind |-> k, n |-> Cardinality(PostedBy(s)) + 1] \in LogicNode
<1>1. Cardinality(PostedBy(s)) + 1 \in 1..MaxPosts
  BY PostedByFinite, MaxPostsAssumption
<1> QED
  BY <1>1 DEF LogicNode

(* Popping moves the front of the queue to the end of what was handled.    *)
LEMMA PopKeepsRest ==
  ASSUME msg_que \in Seq(LogicNode), handled \in Seq(LogicNode), msg_que # <<>>,
         QueueIsRest, PopFront, UNCHANGED posted
  PROVE  /\ QueueIsRest'
         /\ msg_que' \in Seq(LogicNode)
         /\ handled' \in Seq(LogicNode)
         /\ Len(handled) < Len(posted)
         /\ handled' = Append(handled, posted[Len(handled) + 1])
<1>1. /\ Head(msg_que) \in LogicNode
      /\ Tail(msg_que) \in Seq(LogicNode)
      /\ msg_que = <<Head(msg_que)>> \o Tail(msg_que)
  OBVIOUS
<1>2. handled \o msg_que = Append(handled, Head(msg_que)) \o Tail(msg_que)
  BY <1>1
<1>3. Len(msg_que) > 0 /\ Len(posted) = Len(handled) + Len(msg_que)
  BY DEF QueueIsRest
<1>4. posted[Len(handled) + 1] = Head(msg_que)
  BY <1>3 DEF QueueIsRest
<1> QED
  BY <1>1, <1>2, <1>3, <1>4 DEF QueueIsRest, PopFront

-----------------------------------------------------------------------------
LEMMA InitInv == Init => Inv
<1> SUFFICES ASSUME Init PROVE Inv
  OBVIOUS
<1>1. TypeOK
  <2>1. <<>> \in Seq(LogicNode)
    OBVIOUS
  <2>2. poster \in [Sessions -> {"idle", "notify"}]
    BY DEF Init
  <2> QED
    BY <2>1, <2>2 DEF Init, TypeOK
<1>2. QueueIsRest /\ WorkerKnows /\ MainKnows /\ FrontExists /\ NoLostWakeup
  BY DEF Init, QueueIsRest, WorkerKnows, MainKnows, FrontExists, NoLostWakeup
<1> QED
  BY <1>1, <1>2 DEF Inv

-----------------------------------------------------------------------------
(* The poster's steps.  A push on a queue that the worker may be sleeping  *)
(* on leaves a notification pending: the pusher's own if the queue was     *)
(* empty, by NoLostWakeup another poster's if it was not.                  *)
LEMMA PostInv ==
  ASSUME Inv, NEW s \in Sessions, NEW k \in Kinds, Post(s, k)
  PROVE  Inv'
<1> DEFINE node == [session |-> s, kind |-> k, n |-> Cardinality(PostedBy(s)) + 1]
<1>1. node \in LogicNode
  BY NodeType DEF Inv, TypeOK, Post
<1>2. msg_que' = Append(msg_que, node) /\ posted' = Append(posted, node)
  BY DEF Post
<1>3. msg_que \in Seq(LogicNode) /\ posted \in Seq(LogicNode) /\ handled \in Seq(LogicNode)
  BY DEF Inv, TypeOK
<1> HIDE DEF node
<1>4. TypeOK'
  <2>1. msg_que' \in Seq(LogicNode) /\ posted' \in Seq(LogicNode)
    BY <1>1, <1>2, <1>3
  <2>2. poster' \in [Sessions -> {"idle", "notify"}]
    BY DEF Inv, TypeOK, Post
  <2> QED
    BY <2>1, <2>2 DEF Inv, TypeOK, Post
<1>5. QueueIsRest'
  <2>1. Append(handled \o msg_que, node) = handled \o Append(msg_que, node)
    BY <1>1, <1>3
  <2> QED
    BY <2>1, <1>2 DEF Inv, QueueIsRest, Post
<1>6. WorkerKnows' /\ MainKnows' /\ FrontExists'
  BY <1>1, <1>2, <1>3 DEF Inv, WorkerKnows, MainKnows, FrontExists, Post, WorkerHoldsMutex
<1>7. NoLostWakeup'
  <2> SUFFICES ASSUME worker = "blocked" PROVE \E t \in Sessions : poster'[t] = "notify"
    BY DEF NoLostWakeup, Post
  <2>1. CASE msg_que = <<>>
    <3>1. Len(msg_que') = 1
      BY <2>1, <1>1, <1>2, <1>3
    <3>2. poster'[s] = "notify"
      BY <3>1 DEF Post, NeedsNotify, Inv, TypeOK
    <3> QED
      BY <3>2
  <2>2. CASE msg_que # <<>>
    <3>1. PICK t \in Sessions : poster[t] = "notify"
      BY <2>2 DEF Inv, NoLostWakeup
    <3>2. poster'[t] = "notify"
      BY <3>1 DEF Post, Inv, TypeOK
    <3> QED
      BY <3>2
  <2> QED
    BY <2>1, <2>2
<1> QED
  BY <1>4, <1>5, <1>6, <1>7 DEF Inv

(* The notification wakes the worker if it sleeps: NoLostWakeup needs no   *)
(* poster any more.                                                        *)
LEMMA NotifyInv ==
  ASSUME Inv, NEW s \in Sessions, PostNotify(s)
  PROVE  Inv'
<1>1. TypeOK'
  <2>1. poster' \in [Sessions -> {"idle", "notify"}]
    BY DEF Inv, TypeOK, PostNotify
  <2> QED
    BY <2>1 DEF Inv, TypeOK, PostNotify, NotifyOne
<1>2. QueueIsRest' /\ WorkerKnows' /\ MainKnows' /\ FrontExists'
  BY DEF Inv, QueueIsRest, WorkerKnows, MainKnows, FrontExists, PostNotify, NotifyOne
<1>3. worker' # "blocked"
  BY DEF PostNotify, NotifyOne
<1> QED
  BY <1>1, <1>2, <1>3 DEF Inv, NoLostWakeup

(* What a session's connection goes through concerns no one else.          *)
LEMMA ConnectionInv ==
  ASSUME Inv, NEW s \in Sessions, ReadFails(s) \/ PeerResets(s)
  PROVE  Inv'
<1>1. TypeOK'
  BY DEF Inv, TypeOK, ReadFails, PeerResets
<1>2. UNCHANGED <<msg_que, b_stop, worker, poster, main, io, posted, handled>>
  BY DEF ReadFails, PeerResets
<1>3. QueueIsRest' /\ WorkerKnows' /\ MainKnows' /\ FrontExists' /\ NoLostWakeup'
  BY <1>2 DEF Inv, QueueIsRest, WorkerKnows, MainKnows, FrontExists, NoLostWakeup
<1> QED
  BY <1>1, <1>3 DEF Inv

-----------------------------------------------------------------------------
(* The worker's steps.                                                     *)
LEMMA WorkerMovesInv ==
  ASSUME Inv, WorkerCheck \/ WorkerBlock \/ SpuriousWakeup \/ WorkerStop
  PROVE  Inv'
<1>1. TypeOK'
  BY DEF Inv, TypeOK, WorkerCheck, WorkerBlock, SpuriousWakeup, WorkerStop
<1>2. UNCHANGED <<msg_que, b_stop, poster, main, io, posted, handled>>
  BY DEF WorkerCheck, WorkerBlock, SpuriousWakeup, WorkerStop
<1>3. QueueIsRest' /\ MainKnows'
  BY <1>2 DEF Inv, QueueIsRest, WorkerKnows, MainKnows, WorkerCheck, WorkerBlock,
              SpuriousWakeup, WorkerStop
<1>4. WorkerKnows'
  BY <1>2 DEF Inv, WorkerKnows, WorkerCheck, WorkerBlock, SpuriousWakeup, WorkerStop
<1>5. FrontExists'
  BY <1>2 DEF Inv, FrontExists, WorkerCheck, WorkerBlock, SpuriousWakeup, WorkerStop
<1>6. worker' = "blocked" => msg_que' = <<>>
  BY <1>2 DEF Inv, WorkerKnows, WorkerCheck, WorkerBlock, SpuriousWakeup, WorkerStop
<1> QED
  BY <1>1, <1>3, <1>4, <1>5, <1>6 DEF Inv, NoLostWakeup

(* Delivering from a non-empty queue, in either loop.                      *)
LEMMA DeliverInv ==
  ASSUME Inv, NEW next \in {"lock", "drain"}, msg_que # <<>>, Deliver(next),
         worker = "test" \/ (worker = "drain" /\ next = "drain"),
         worker = "test" => (next = "lock" /\ ~b_stop),
         UNCHANGED <<b_stop, poster, reading, main, io, posted>>
  PROVE  Inv'
<1> DEFINE m == Head(msg_que)
<1>1. CASE UNCHANGED <<worker, msg_que, handled, remote>> /\ fate' \in {"handler_threw", "assert_failed"}
  <2>1. TypeOK'
    BY <1>1 DEF Inv, TypeOK
  <2> QED
    BY <1>1, <2>1 DEF Inv, QueueIsRest, WorkerKnows, MainKnows, FrontExists, NoLostWakeup
<1>2. CASE /\ PopFront
           /\ worker' = next
           /\ remote' = IF m.kind = Exit THEN remote \ {m.session} ELSE remote
           /\ UNCHANGED fate
  <2>1. /\ QueueIsRest'
        /\ msg_que' \in Seq(LogicNode)
        /\ handled' \in Seq(LogicNode)
    BY <1>2, PopKeepsRest DEF Inv, TypeOK
  <2>2. TypeOK'
    BY <1>2, <2>1 DEF Inv, TypeOK
  <2>3. WorkerKnows' /\ MainKnows' /\ FrontExists' /\ NoLostWakeup'
    BY <1>2 DEF Inv, WorkerKnows, MainKnows, FrontExists, NoLostWakeup
  <2> QED
    BY <2>1, <2>2, <2>3 DEF Inv
<1> QED
  BY <1>1, <1>2 DEF Deliver

LEMMA WorkerDeliverInv == ASSUME Inv, WorkerDeliver PROVE Inv'
<1>1. msg_que # <<>>
  BY DEF Inv, FrontExists, WorkerDeliver
<1>2. Deliver("lock")
  BY DEF WorkerDeliver
<1> QED
  BY <1>1, <1>2, DeliverInv DEF WorkerDeliver

LEMMA WorkerDrainInv == ASSUME Inv, WorkerDrain PROVE Inv'
<1>1. CASE msg_que # <<>>
  BY <1>1, DeliverInv DEF WorkerDrain
<1>2. CASE msg_que = <<>>
  <2>1. TypeOK'
    BY <1>2 DEF Inv, TypeOK, WorkerDrain
  <2> QED
    BY <1>2, <2>1 DEF Inv, QueueIsRest, WorkerKnows, MainKnows, FrontExists,
                      NoLostWakeup, WorkerDrain
<1> QED
  BY <1>1, <1>2

-----------------------------------------------------------------------------
(* The steps of the main thread.                                           *)
LEMMA MainInv ==
  ASSUME Inv, SignalStop \/ MainThrows \/ Shutdown
  PROVE  Inv'
<1> USE DEF Inv, QueueIsRest, WorkerKnows, MainKnows, FrontExists, NoLostWakeup
<1>1. CASE SignalStop \/ MainThrows \/ PoolJoin
  <2>1. TypeOK'
    BY <1>1 DEF TypeOK, SignalStop, MainThrows, PoolJoin
  <2> QED
    BY <1>1, <2>1 DEF TypeOK, SignalStop, MainThrows, PoolJoin
<1>2. CASE DtorSetStop
  <2>1. TypeOK'
    BY <1>2 DEF TypeOK, DtorSetStop
  <2> QED
    BY <1>2, <2>1 DEF TypeOK, DtorSetStop
<1>3. CASE DtorNotify
  <2>1. TypeOK'
    BY <1>3 DEF TypeOK, DtorNotify, NotifyOne
  <2> QED
    BY <1>3, <2>1 DEF TypeOK, DtorNotify, NotifyOne
<1>4. CASE DtorJoin \/ PoolDtor
  <2>1. TypeOK'
    BY <1>4 DEF TypeOK, DtorJoin, PoolDtor
  <2> QED
    BY <1>4, <2>1 DEF TypeOK, DtorJoin, PoolDtor
<1> QED
  BY <1>1, <1>2, <1>3, <1>4 DEF Shutdown

-----------------------------------------------------------------------------
LEMMA NextInv == Inv /\ [Next]_vars => Inv'
<1> SUFFICES ASSUME Inv, [Next]_vars PROVE Inv'
  OBVIOUS
<1>1. CASE \E s \in Sessions, k \in Kinds : Post(s, k)
  BY <1>1, PostInv
<1>2. CASE \E s \in Sessions : PostNotify(s)
  BY <1>2, NotifyInv
<1>3. CASE \E s \in Sessions : ReadFails(s) \/ PeerResets(s)
  BY <1>3, ConnectionInv
<1>4. CASE WorkerCheck \/ WorkerBlock \/ SpuriousWakeup \/ WorkerStop
  BY <1>4, WorkerMovesInv
<1>5. CASE WorkerDeliver
  BY <1>5, WorkerDeliverInv
<1>6. CASE WorkerDrain
  BY <1>6, WorkerDrainInv
<1>7. CASE SignalStop \/ MainThrows \/ Shutdown
  BY <1>7, MainInv
<1>8. CASE UNCHANGED vars
  BY <1>8 DEF vars, Inv, TypeOK, QueueIsRest, WorkerKnows, MainKnows, FrontExists,
              NoLostWakeup
<1> QED
  BY <1>1, <1>2, <1>3, <1>4, <1>5, <1>6, <1>7, <1>8 DEF Next, IoThreads, Worker

(* Inv is an invariant of the worker, its posters and the shutdown.        *)
THEOREM Invariance == SafetySpec => []Inv
<1> QED
  BY InitInv, NextInv, PTL DEF SafetySpec

(* The types of LogicSystem's state.                                       *)
THEOREM TypeCorrect == SafetySpec => []TypeOK
<1>1. Inv => TypeOK
  BY DEF Inv
<1> QED
  BY <1>1, Invariance, PTL

(* dealMsg blocks on a non-empty queue only while a notification is due:   *)
(* notifying for the first message alone, and after unlock(), is enough,   *)
(* for any number of sessions.                                             *)
THEOREM NoWakeupIsLost == SafetySpec => []NoLostWakeup
<1>1. Inv => NoLostWakeup
  BY DEF Inv
<1> QED
  BY <1>1, Invariance, PTL

(* dealMsg never takes the front of an empty queue.                        *)
THEOREM FrontAlwaysExists == SafetySpec => []FrontExists
<1>1. Inv => FrontExists
  BY DEF Inv
<1> QED
  BY <1>1, Invariance, PTL

(* When ~LogicSystem has returned after pool.stop(), every request posted  *)
(* has been handled.                                                       *)
THEOREM NothingLeftAtExit == SafetySpec => []DrainedAtExit
<1>1. Inv => DrainedAtExit
  <2> SUFFICES ASSUME Inv, main = "exited", io = "joined" PROVE handled = posted
    BY DEF DrainedAtExit
  <2>1. msg_que = <<>>
    BY DEF Inv, MainKnows, WorkerKnows
  <2> QED
    BY <2>1 DEF Inv, QueueIsRest, TypeOK
<1> QED
  BY <1>1, Invariance, PTL

-----------------------------------------------------------------------------
(* A step of LogicSystem is a step of the channel or leaves it alone.      *)
LEMMA StepRefines == Inv /\ [Next]_vars => [Channel!Next]_(Channel!channel)
<1> SUFFICES ASSUME Inv, [Next]_vars PROVE [Channel!Next]_(Channel!channel)
  OBVIOUS
<1> USE DEF Channel!channel
<1>1. CASE \E s \in Sessions, k \in Kinds : Post(s, k)
  <2>1. PICK s \in Sessions, k \in Kinds : Post(s, k)
    BY <1>1
  <2> DEFINE node == [session |-> s, kind |-> k, n |-> Cardinality(PostedBy(s)) + 1]
  <2>2. node \in LogicNode
    BY <2>1, NodeType DEF Inv, TypeOK, Post
  <2>3. posted' = Append(posted, node) /\ UNCHANGED handled
    BY <2>1 DEF Post
  <2> QED
    BY <2>2, <2>3 DEF Channel!Next, Channel!Enter
<1>2. CASE msg_que # <<>> /\ PopFront /\ UNCHANGED posted
  BY <1>2, PopKeepsRest DEF Inv, TypeOK, Channel!Next, Channel!Leave
<1>3. CASE UNCHANGED <<posted, handled>>
  BY <1>3
<1>4. CASE WorkerDeliver \/ WorkerDrain
  <2>1. UNCHANGED posted
    BY <1>4 DEF WorkerDeliver, WorkerDrain
  <2>2. UNCHANGED handled \/ (msg_que # <<>> /\ PopFront)
    BY <1>4 DEF Inv, FrontExists, WorkerDeliver, WorkerDrain, Deliver
  <2> QED
    BY <2>1, <2>2, <1>2, <1>3
<1>5. CASE UNCHANGED vars
  BY <1>5 DEF vars
<1> QED
  BY <1>1, <1>3, <1>4, <1>5
  DEF Next, IoThreads, PostNotify, ReadFails, PeerResets, Worker, WorkerCheck,
      WorkerBlock, WorkerStop, SpuriousWakeup, SignalStop, MainThrows, Shutdown,
      PoolJoin, DtorSetStop, DtorNotify, DtorJoin, PoolDtor

(* LogicSystem implements the abstract channel: each request is handled at *)
(* most once, unchanged and in the order of posting, through shutdown.     *)
THEOREM Refinement == SafetySpec => HandledInOrder
<1>1. Init => Channel!Init
  BY DEF Init, Channel!Init
<1> QED
  BY <1>1, Invariance, StepRefines, PTL DEF SafetySpec, HandledInOrder, Channel!Spec
=============================================================================
