---------------------------- MODULE ServerProofs ---------------------------
(***************************************************************************)
(* Proofs about Server, for any size of the pool and any bound on the      *)
(* sessions.  The invariant adds to the types what the insertion finds     *)
(* (the session it registers still reads, or has already been missed), what*)
(* has stopped when the Server is destroyed, and the exact load of each    *)
(* io_context.                                                             *)
(***************************************************************************)
EXTENDS Server, FiniteSetTheorems, TLAPS

(* The session that is being accepted is not in sessions_ yet; once it is  *)
(* started it reads, or its handler has ended without finding it there.    *)
CurrentUnregistered ==
  /\ main \in {"accepting", "starting"} => Current \notin sessions
  /\ main = "starting" => Current \in reading \cup stalled \cup missed

(* main() leaves the try block with the pool's threads joined, or threw.   *)
StoppedOrThrew == main \in {"leaving", "destroyed"} => io = "stopped" \/ threw

(* The contexts before nextIOService have one session more than the others.*)
Loaded == 
  \E l \in Nat : \A i \in 0..(PoolSize - 1) :
    Load(i) = IF i < nextIOService THEN l + 1 ELSE l

Inv ==
  /\ TypeOK
  /\ CurrentUnregistered
  /\ DeadEntriesExplained
  /\ StoppedOrThrew
  /\ ServerOutlivesHandlers
  /\ Loaded

USE PoolSizeAssumption, MaxSessionsAssumption, MaxAcceptsAssumption

-----------------------------------------------------------------------------
(* One more session on context c: the load of c grows by one.              *)
LEMMA LoadGrows ==
  ASSUME service \in Seq(0..(PoolSize - 1)), NEW c \in 0..(PoolSize - 1),
         service' = Append(service, c), NEW i \in 0..(PoolSize - 1)
  PROVE  /\ Load(i) \in Nat
         /\ Load(i)' = IF i = c THEN Load(i) + 1 ELSE Load(i)
<1> DEFINE on == {s \in DOMAIN service : service[s] = i}
           n  == Len(service) + 1
<1>0. Len(service) \in Nat
  OBVIOUS
<1>1. IsFiniteSet(1..Len(service)) /\ on \in SUBSET (1..Len(service))
  <2>1. IsFiniteSet(1..Len(service))
    BY <1>0, FS_Interval
  <2>2. on \in SUBSET (1..Len(service))
    OBVIOUS
  <2> QED
    BY <2>1, <2>2
<1>2. IsFiniteSet(on) /\ Cardinality(on) \in Nat
  BY <1>1, FS_Subset, FS_CardinalityType
<1>3. n \notin on
  BY <1>1
<1>4. {s \in DOMAIN service' : service'[s] = i} = IF i = c THEN on \cup {n} ELSE on
  OBVIOUS
<1> HIDE DEF on, n
<1>5. Cardinality(on \cup {n}) = Cardinality(on) + 1
  BY <1>2, <1>3, FS_AddElement
<1>6. Load(i) = Cardinality(on)
  BY DEF Load, on
<1>7. Load(i)' = Cardinality(IF i = c THEN on \cup {n} ELSE on)
  BY <1>4 DEF Load
<1> QED
  BY <1>2, <1>5, <1>6, <1>7

(* startAccept keeps the loads as even as they can be.                     *)
LEMMA StartAcceptLoaded ==
  ASSUME TypeOK, Loaded, StartAccept
  PROVE  /\ nextIOService' \in 0..(PoolSize - 1)
         /\ service' \in Seq(0..(PoolSize - 1)) /\ Len(service') \in Sessions
         /\ Len(service') = Len(service) + 1
         /\ Loaded'
<1>1. /\ service \in Seq(0..(PoolSize - 1)) /\ nextIOService \in 0..(PoolSize - 1)
      /\ service' = Append(service, nextIOService)
      /\ nextIOService' = IF nextIOService + 1 = PoolSize THEN 0 ELSE nextIOService + 1
  BY DEF TypeOK, StartAccept, Wrap
<1>2. PICK l \in Nat : \A i \in 0..(PoolSize - 1) :
        Load(i) = IF i < nextIOService THEN l + 1 ELSE l
  BY DEF Loaded
<1>3. \A i \in 0..(PoolSize - 1) :
        Load(i)' = IF i = nextIOService THEN Load(i) + 1 ELSE Load(i)
  BY <1>1, LoadGrows
<1>4. \A i \in 0..(PoolSize - 1) : Load(i)' = IF i <= nextIOService THEN l + 1 ELSE l
  BY <1>1, <1>2, <1>3
<1>5. Loaded'
  <2>1. CASE nextIOService + 1 = PoolSize
    <3>1. nextIOService' = 0 /\ l + 1 \in Nat
      BY <1>1, <2>1
    <3>2. \A i \in 0..(PoolSize - 1) : Load(i)' = IF i < 0 THEN (l + 1) + 1 ELSE l + 1
      BY <1>1, <1>4, <2>1
    <3> QED
      BY <3>1, <3>2 DEF Loaded
  <2>2. CASE nextIOService + 1 # PoolSize
    <3>1. nextIOService' = nextIOService + 1
      BY <1>1, <2>2
    <3>2. \A i \in 0..(PoolSize - 1) : Load(i)' = IF i < nextIOService' THEN l + 1 ELSE l
      BY <1>1, <1>4, <3>1
    <3> QED
      BY <3>2 DEF Loaded
  <2> QED
    BY <2>1, <2>2
<1> QED
  BY <1>1, <1>5 DEF StartAccept, Sessions, TypeOK

(* Whatever leaves service and nextIOService alone leaves the loads alone. *)
LEMMA SameLoads ==
  ASSUME Loaded, UNCHANGED <<nextIOService, service>>
  PROVE  Loaded'
BY DEF Loaded, Load

-----------------------------------------------------------------------------
LEMMA InitInv == Init => Inv
<1> SUFFICES ASSUME Init PROVE Inv
  OBVIOUS
<1>1. TypeOK
  <2>1. /\ nextIOService \in 0..(PoolSize - 1)
        /\ service \in Seq(0..(PoolSize - 1)) /\ Len(service) \in Sessions
    BY DEF Init, Sessions
  <2> QED
    BY <2>1 DEF Init, TypeOK
<1>2. Loaded
  <2>1. \A i \in 0..(PoolSize - 1) : Load(i) = IF i = 0 THEN 1 ELSE 0
    <3> SUFFICES ASSUME NEW i \in 0..(PoolSize - 1)
                 PROVE  Load(i) = IF i = 0 THEN 1 ELSE 0
      OBVIOUS
    <3>1. {s \in DOMAIN service : service[s] = i} = IF i = 0 THEN {1} ELSE {}
      BY DEF Init
    <3> QED
      BY <3>1, FS_EmptySet, FS_Singleton DEF Load
  <2>2. CASE PoolSize = 1
    BY <2>1, <2>2 DEF Init, Loaded
  <2>3. CASE PoolSize # 1
    <3>1. nextIOService = 1
      BY <2>3 DEF Init
    <3>2. \A i \in 0..(PoolSize - 1) : Load(i) = IF i < nextIOService THEN 0 + 1 ELSE 0
      BY <2>1, <3>1
    <3> QED
      BY <3>2 DEF Loaded
  <2> QED
    BY <2>2, <2>3
<1>3. CurrentUnregistered /\ DeadEntriesExplained /\ StoppedOrThrew /\ ServerOutlivesHandlers
  BY DEF Init, CurrentUnregistered, DeadEntriesExplained, StoppedOrThrew,
         ServerOutlivesHandlers
<1> QED
  BY <1>1, <1>2, <1>3 DEF Inv

-----------------------------------------------------------------------------
(* The main thread: an insertion meets a session that still reads, or whose*)
(* handler has missed it.                                                  *)
LEMMA AcceptInv == Inv /\ Accept => Inv'
<1> SUFFICES ASSUME Inv, Accept PROVE Inv'
  OBVIOUS
<1> USE DEF Inv
<1>1. CASE AcceptFails \/ AcceptRegisters
  <2>1. /\ StartAccept
        /\ UNCHANGED <<threw, io, reading, writing, queued, closed, cleared, missed,
                       stalled, dangling>>
        /\ sessions' \in {sessions, sessions \cup {Current}}
        /\ main' = "accepting"
    BY <1>1 DEF AcceptFails, AcceptRegisters
  <2>2. /\ nextIOService' \in 0..(PoolSize - 1)
        /\ service' \in Seq(0..(PoolSize - 1)) /\ Len(service') \in Sessions
        /\ Len(service') = Len(service) + 1
        /\ Loaded'
    BY <2>1, StartAcceptLoaded
  <2>3. Len(service) \in Nat /\ 1..Len(service) \subseteq 1..Len(service')
    BY <2>2 DEF TypeOK
  <2>4. sessions' \subseteq 1..Len(service)
    BY <2>1 DEF TypeOK, Current, Sessions
  <2>5. TypeOK'
    BY <2>1, <2>2, <2>3, <2>4 DEF TypeOK
  <2>6. CurrentUnregistered'
    BY <2>1, <2>2, <2>3, <2>4 DEF CurrentUnregistered, Current
  <2>7. DeadEntriesExplained'
    BY <1>1, <2>1 DEF DeadEntriesExplained, CurrentUnregistered, AcceptFails, AcceptRegisters
  <2>8. StoppedOrThrew' /\ ServerOutlivesHandlers'
    BY <2>1 DEF StoppedOrThrew, ServerOutlivesHandlers
  <2> QED
    BY <2>2, <2>5, <2>6, <2>7, <2>8
<1>2. CASE AcceptStarts
  <2>1. Loaded'
    BY <1>2, SameLoads DEF AcceptStarts
  <2>2. TypeOK'
    BY <1>2 DEF AcceptStarts, TypeOK, Current, Sessions
  <2>3. CurrentUnregistered' /\ DeadEntriesExplained'
    BY <1>2 DEF AcceptStarts, CurrentUnregistered, DeadEntriesExplained, Current
  <2>4. StoppedOrThrew' /\ ServerOutlivesHandlers'
    BY <1>2 DEF AcceptStarts, StoppedOrThrew, ServerOutlivesHandlers
  <2> QED
    BY <2>1, <2>2, <2>3, <2>4
<1>3. CASE AcceptThrows
  <2>1. Loaded'
    BY <1>3, SameLoads DEF AcceptThrows
  <2>2. TypeOK'
    BY <1>3 DEF AcceptThrows, TypeOK
  <2>3. CurrentUnregistered' /\ DeadEntriesExplained'
    BY <1>3 DEF AcceptThrows, CurrentUnregistered, DeadEntriesExplained
  <2>4. StoppedOrThrew' /\ ServerOutlivesHandlers'
    BY <1>3 DEF AcceptThrows, StoppedOrThrew, ServerOutlivesHandlers
  <2> QED
    BY <2>1, <2>2, <2>3, <2>4
<1> QED
  BY <1>1, <1>2, <1>3 DEF Accept

(* clearSession takes the entry out, or notes that it came before the      *)
(* insertion, and runs on an io thread: the Server is there unless main()  *)
(* threw.                                                                  *)
LEMMA ClearSessionInv ==
  ASSUME Inv, io = "running", NEW s \in 1..Len(service), ClearSession(s),
         UNCHANGED acceptVars, UNCHANGED stalled, UNCHANGED queued,
         reading' \in {reading, reading \ {s}}, writing' \in {writing, writing \ {s}},
         closed' \in {closed, closed \cup {s}}
  PROVE  Inv'
<1> USE DEF Inv, acceptVars, ClearSession
<1>1. Loaded'
  BY SameLoads
<1>2. TypeOK'
  <2>1. dangling' \in BOOLEAN
    BY DEF TypeOK
  <2>2. \A set \in {sessions', reading', writing', closed', cleared', missed'} :
          set \subseteq 1..Len(service)
    BY DEF TypeOK
  <2> QED
    BY <2>1, <2>2 DEF TypeOK
<1>3. CurrentUnregistered'
  BY DEF CurrentUnregistered, Current, Unregistered
<1>4. DeadEntriesExplained'
  BY DEF DeadEntriesExplained
<1>5. StoppedOrThrew' /\ ServerOutlivesHandlers'
  BY DEF StoppedOrThrew, ServerOutlivesHandlers
<1> QED
  BY <1>1, <1>2, <1>3, <1>4, <1>5

LEMMA IoThreadInv == ASSUME Inv, NEW s \in Sessions, IoThread(s) PROVE Inv'
<1> USE DEF Inv
<1>1. s \in 1..Len(service) /\ io = "running"
  BY DEF IoThread, ReadPosts, ReadFails, ReadRejects, ReadThrows, WriteDone, WriteFails, TypeOK
<1>2. CASE ReadFails(s) \/ ReadRejects(s) \/ WriteFails(s)
  BY <1>1, <1>2, ClearSessionInv DEF ReadFails, ReadRejects, WriteFails
<1>3. CASE ReadPosts(s) \/ ReadThrows(s) \/ WriteDone(s)
  <2>1. /\ UNCHANGED acceptVars /\ UNCHANGED <<sessions, closed, cleared, missed, dangling>>
        /\ queued' \in {queued, queued \cup {s}}
        /\ writing' \in {writing, writing \ {s}}
        /\ \/ UNCHANGED <<reading, stalled>>
           \/ reading' = reading \ {s} /\ stalled' = stalled \cup {s}
    BY <1>3 DEF ReadPosts, ReadThrows, WriteDone
  <2>2. Loaded'
    BY <2>1, SameLoads DEF acceptVars
  <2>3. TypeOK'
    <3>1. \A set \in {queued', writing', reading', stalled'} : set \subseteq 1..Len(service)
      BY <1>1, <2>1 DEF TypeOK
    <3> QED
      BY <2>1, <3>1 DEF TypeOK, acceptVars
  <2>4. CurrentUnregistered' /\ DeadEntriesExplained'
    BY <2>1 DEF CurrentUnregistered, DeadEntriesExplained, Current, acceptVars
  <2>5. StoppedOrThrew' /\ ServerOutlivesHandlers'
    BY <2>1 DEF StoppedOrThrew, ServerOutlivesHandlers, acceptVars
  <2> QED
    BY <2>2, <2>3, <2>4, <2>5
<1> QED
  BY <1>2, <1>3 DEF IoThread

(* The worker touches neither sessions_ nor the reads.                     *)
LEMMA WorkerInv == ASSUME Inv, NEW s \in Sessions, Worker(s) PROVE Inv'
<1> USE DEF Inv
<1>1. /\ s \in 1..Len(service)
      /\ UNCHANGED acceptVars
      /\ UNCHANGED <<sessions, reading, cleared, missed, stalled, dangling>>
      /\ queued' \in {queued, queued \ {s}}
      /\ writing' \in {writing, writing \cup {s}}
      /\ closed' \in {closed, closed \cup {s}}
  BY DEF Worker, WorkerReplies, WorkerCloses, TypeOK
<1>2. Loaded'
  BY <1>1, SameLoads DEF acceptVars
<1>3. TypeOK'
  <2>1. \A set \in {queued', writing', closed'} : set \subseteq 1..Len(service)
    BY <1>1 DEF TypeOK
  <2> QED
    BY <1>1, <2>1 DEF TypeOK, acceptVars
<1>4. CurrentUnregistered' /\ DeadEntriesExplained'
  BY <1>1 DEF CurrentUnregistered, DeadEntriesExplained, Current, acceptVars
<1>5. StoppedOrThrew' /\ ServerOutlivesHandlers'
  BY <1>1 DEF StoppedOrThrew, ServerOutlivesHandlers, acceptVars
<1> QED
  BY <1>2, <1>3, <1>4, <1>5

(* The shutdown: pool.stop() joins the io threads before main() goes on.   *)
LEMMA ShutdownInv == Inv /\ (Signal \/ PoolStop \/ ServerDtor) => Inv'
<1> SUFFICES ASSUME Inv, Signal \/ PoolStop \/ ServerDtor PROVE Inv'
  OBVIOUS
<1> USE DEF Inv, Signal, PoolStop, ServerDtor
<1>1. Loaded'
  BY SameLoads
<1>2. TypeOK'
  BY DEF TypeOK
<1>3. CurrentUnregistered' /\ DeadEntriesExplained'
  BY DEF CurrentUnregistered, DeadEntriesExplained
<1>4. StoppedOrThrew' /\ ServerOutlivesHandlers'
  BY DEF StoppedOrThrew, ServerOutlivesHandlers
<1> QED
  BY <1>1, <1>2, <1>3, <1>4

LEMMA NextInv == Inv /\ [Next]_vars => Inv'
<1> SUFFICES ASSUME Inv, [Next]_vars PROVE Inv'
  OBVIOUS
<1>1. CASE UNCHANGED vars
  <2>1. Loaded'
    BY <1>1, SameLoads DEF Inv, vars
  <2> QED
    BY <1>1, <2>1 DEF Inv, vars, TypeOK, CurrentUnregistered, Current, DeadEntriesExplained,
                      StoppedOrThrew, ServerOutlivesHandlers
<1> QED
  BY <1>1, AcceptInv, IoThreadInv, WorkerInv, ShutdownInv DEF Next

(* Inv is an invariant of the server.                                      *)
THEOREM Invariance == SafetySpec => []Inv
<1> QED
  BY InitInv, NextInv, PTL DEF SafetySpec

(* The types: nextIOService_ never leaves the vector of contexts, and only *)
(* sessions that startAccept() has made are anywhere.                      *)
THEOREM TypeCorrect == SafetySpec => []TypeOK
<1>1. Inv => TypeOK
  BY DEF Inv
<1> QED
  BY <1>1, Invariance, PTL

(* A dead entry of sessions_ has one of two causes: an exception that      *)
(* handleRead caught, or a handler that ended before the insertion.        *)
THEOREM DeadEntries == SafetySpec => []DeadEntriesExplained
<1>1. Inv => DeadEntriesExplained
  BY DEF Inv
<1> QED
  BY <1>1, Invariance, PTL

(* No handler runs on a destroyed Server, unless main() was left by an     *)
(* exception.                                                              *)
THEOREM NoDanglingServer == SafetySpec => []ServerOutlivesHandlers
<1>1. Inv => ServerOutlivesHandlers
  BY DEF Inv
<1> QED
  BY <1>1, Invariance, PTL

(* Two io_contexts never differ by more than one session.                  *)
THEOREM Balanced == SafetySpec => []PoolBalanced
<1>1. Inv => PoolBalanced
  <2> SUFFICES ASSUME Inv, NEW i \in 0..(PoolSize - 1), NEW j \in 0..(PoolSize - 1)
               PROVE  Load(i) <= Load(j) + 1
    BY DEF PoolBalanced
  <2>1. PICK l \in Nat : \A k \in 0..(PoolSize - 1) :
          Load(k) = IF k < nextIOService THEN l + 1 ELSE l
    BY DEF Inv, Loaded
  <2>2. Load(i) \in {l, l + 1} /\ Load(j) \in {l, l + 1}
    BY <2>1
  <2> QED
    BY <2>2
<1> QED
  BY <1>1, Invariance, PTL
=============================================================================
