------------------------ MODULE ConfigManagerProofs ------------------------
(***************************************************************************)
(* Proofs about ConfigManager, for any values and any format.  A save that *)
(* wipes the file needs values that were never parsed; the invariant says  *)
(* when there are any: between load() and its parse with no worker about,  *)
(* or after an excuse.  Likewise for the thread handle: when it may be     *)
(* joinable with autosave disabled.                                        *)
(***************************************************************************)
EXTENDS ConfigManager, TLAPS

(* Values that were not parsed: there is no data_, or they are about to be *)
(* parsed and nobody else can save them, or there is an excuse.            *)
UnparsedExplained ==
  ~parsed => \/ data = "null"
             \/ caller = "parsing" /\ ~WorkerRuns
             \/ excused

(* The handle of a thread that is not wanted: it is being joined, or clear *)
(* has left it behind.                                                     *)
HandleExplained == handle => enable \/ orphaned \/ caller = "joining"

Inv ==
  /\ TypeOK
  /\ UnparsedExplained
  /\ WipedOnlyIfExcused
  /\ HandleExplained
  /\ TerminationExplained

USE ContentAssumption, MaxTimeAssumption

-----------------------------------------------------------------------------
LEMMA InitInv == Init => Inv
<1> SUFFICES ASSUME Init PROVE Inv
  OBVIOUS
<1>1. TypeOK
  <2>1. 1 \in 1..MaxTime /\ 0 \in 0..MaxTime
    OBVIOUS
  <2>2. file \in [content : Contents, time : 1..MaxTime]
    BY <2>1 DEF Init
  <2>3. handle <=> worker # "none"
    BY DEF Init
  <2> QED
    BY <2>1, <2>2, <2>3 DEF Init, TypeOK
<1>2. UnparsedExplained /\ WipedOnlyIfExcused /\ HandleExplained /\ TerminationExplained
  BY DEF Init, UnparsedExplained, WipedOnlyIfExcused, HandleExplained, TerminationExplained
<1> QED
  BY <1>1, <1>2 DEF Inv

(* A change of the file, by anybody, keeps its type.                       *)
LEMMA FileType ==
  ASSUME TypeOK, NEW content \in Contents, FileChanges(content)
  PROVE  file' \in [content : Contents, time : 1..MaxTime]
<1>1. file.time \in 1..MaxTime /\ file.time + 1 \in 1..MaxTime
  BY DEF TypeOK, FileChanges
<1> QED
  BY <1>1 DEF FileChanges

(* A save writes values that are in order, or notes that it wipes; it does *)
(* so only when the values had been excused.                               *)
LEMMA SaveFileInv ==
  ASSUME Inv, SaveFile, data = "set", caller # "parsing" \/ WorkerRuns
  PROVE  /\ file' \in [content : Contents, time : 1..MaxTime]
         /\ wiped' \in BOOLEAN
         /\ wiped' => excused
<1>1. file' \in [content : Contents, time : 1..MaxTime]
  <2>1. CASE value \notin Unsavable
    <3>1. value \in Contents /\ FileChanges(value)
      BY <2>1 DEF Inv, TypeOK, SaveFile, Contents
    <3> QED
      BY <3>1, FileType DEF Inv
  <2>2. CASE value \in Unsavable /\ Format = "JSON"
    <3>1. Broken \in Contents /\ FileChanges(Broken)
      BY <2>2 DEF SaveFile, Contents
    <3> QED
      BY <3>1, FileType DEF Inv
  <2>3. CASE value \in Unsavable /\ Format # "JSON"
    BY <2>3 DEF SaveFile, Inv, TypeOK
  <2> QED
    BY <2>1, <2>2, <2>3
<1>2. wiped' \in BOOLEAN
  BY DEF SaveFile, Inv, TypeOK
<1>3. wiped' => excused
  BY DEF SaveFile, Inv, WipedOnlyIfExcused, UnparsedExplained
<1> QED
  BY <1>1, <1>2, <1>3

-----------------------------------------------------------------------------
(* The caller, but for saves and the autosave switch.                      *)
LEMMA LoadInv == Inv /\ (Load \/ Reload \/ ParseFile) => Inv'
<1> SUFFICES ASSUME Inv, Load \/ Reload \/ ParseFile PROVE Inv'
  OBVIOUS
<1> USE DEF Inv, Load, Reload, ParseFile, dataVars, autosaveVars, history
<1>1. TypeOK'
  <2>1. file.content \in Contents /\ file.time \in 1..MaxTime
    BY DEF TypeOK
  <2>2. file.content \notin {Broken, Missing} => file.content \in Values \cup {NoValue}
    BY <2>1 DEF Contents
  <2>3. CASE Load
    <3>1. excused' \in BOOLEAN
      BY <2>3
    <3>2. /\ data' = "set" /\ value' = NoValue /\ last_write_time' = 0
          /\ callback' = "none" /\ parsed' = FALSE /\ caller' = "parsing"
          /\ UNCHANGED <<autosaveVars, fate, file, orphaned, wiped>>
      BY <2>3
    <3>3. 0 \in 0..MaxTime
      OBVIOUS
    <3> HIDE DEF Load, Reload, ParseFile
    <3> QED
      BY <3>1, <3>2, <3>3 DEF TypeOK
  <2>4. CASE Reload
    BY <2>4 DEF TypeOK
  <2>5. CASE ParseFile
    <3>1. CASE file.content \in {Broken, Missing}
      BY <2>5, <3>1 DEF TypeOK
    <3>2. CASE file.content \notin {Broken, Missing}
      <4>1. value' \in Values \cup {NoValue} /\ last_write_time' \in 0..MaxTime
        BY <2>1, <2>2, <2>5, <3>2 DEF TypeOK
      <4> QED
        BY <2>5, <3>2, <4>1 DEF TypeOK
    <3> QED
      BY <3>1, <3>2
  <2> QED
    BY <2>3, <2>4, <2>5
<1>2. UnparsedExplained'
  BY DEF UnparsedExplained, WorkerRuns
<1>3. WipedOnlyIfExcused'
  BY DEF WipedOnlyIfExcused
<1>4. HandleExplained'
  BY DEF HandleExplained
<1>5. TerminationExplained'
  BY DEF TerminationExplained
<1> QED
  BY <1>1, <1>2, <1>3, <1>4, <1>5

LEMMA UseInv ==
  Inv /\ ((\E v \in Values : Set(v)) \/ NotifyChanges
          \/ (\E c \in {"none", "plain", "reenters"} : Register(c))
          \/ UseWithoutData \/ SaveAs) => Inv'
<1> SUFFICES ASSUME Inv,
                    \/ \E v \in Values : Set(v)
                    \/ NotifyChanges
                    \/ \E c \in {"none", "plain", "reenters"} : Register(c)
                    \/ UseWithoutData \/ SaveAs
             PROVE  Inv'
  OBVIOUS
<1> USE DEF Inv, Set, NotifyChanges, Register, UseWithoutData, SaveAs, Crash, dataVars,
            autosaveVars, history
<1>1. TypeOK'
  BY DEF TypeOK
<1>2. UnparsedExplained'
  BY DEF UnparsedExplained, WorkerRuns
<1>3. WipedOnlyIfExcused'
  BY DEF WipedOnlyIfExcused
<1>4. HandleExplained'
  BY DEF HandleExplained
<1>5. TerminationExplained'
  BY DEF TerminationExplained
<1> QED
  BY <1>1, <1>2, <1>3, <1>4, <1>5

LEMMA SaveInv == Inv /\ (Save \/ WorkerSaves) => Inv'
<1> SUFFICES ASSUME Inv, Save \/ WorkerSaves PROVE Inv'
  OBVIOUS
<1>1. SaveFile /\ data = "set" /\ (caller # "parsing" \/ WorkerRuns)
  BY DEF Save, WorkerSaves, WorkerRuns
<1>2. /\ file' \in [content : Contents, time : 1..MaxTime]
      /\ wiped' \in BOOLEAN
      /\ wiped' => excused
  BY <1>1, SaveFileInv
<1>3. /\ UNCHANGED <<dataVars, enable, handle, caller, fate, excused, orphaned>>
      /\ \/ UNCHANGED worker
         \/ worker = "saving" /\ worker' = "waiting"
  BY DEF Save, WorkerSaves, autosaveVars
<1> USE DEF Inv, dataVars
<1>4. TypeOK'
  BY <1>2, <1>3 DEF TypeOK
<1>5. UnparsedExplained'
  BY <1>3 DEF UnparsedExplained, WorkerRuns
<1>6. WipedOnlyIfExcused'
  BY <1>2, <1>3 DEF WipedOnlyIfExcused
<1>7. HandleExplained' /\ TerminationExplained'
  BY <1>3 DEF HandleExplained, TerminationExplained
<1> QED
  BY <1>4, <1>5, <1>6, <1>7

(* The autosave switch and the end of the process: the only steps that make*)
(* or drop the handle, and those that terminate.                           *)
LEMMA AutoSaveInv ==
  Inv /\ fate = "alive" /\ (EnableAutoSave \/ DisableAutoSave \/ Join \/ Clear \/ Exit) => Inv'
<1> SUFFICES ASSUME Inv, fate = "alive",
                    EnableAutoSave \/ DisableAutoSave \/ Join \/ Clear \/ Exit
             PROVE  Inv'
  OBVIOUS
<1> USE DEF Inv, EnableAutoSave, DisableAutoSave, Join, Clear, Exit, dataVars, autosaveVars,
            history
<1>1. TypeOK'
  <2>1. CASE EnableAutoSave
    <3>1. enable' \in BOOLEAN /\ handle' \in BOOLEAN
      BY <2>1
    <3>2. handle' <=> worker' # "none"
      BY <2>1 DEF TypeOK
    <3> QED
      BY <2>1, <3>1, <3>2 DEF TypeOK
  <2>2. CASE DisableAutoSave \/ Join
    <3>1. enable' \in BOOLEAN /\ handle' \in BOOLEAN
      BY <2>2 DEF TypeOK
    <3>2. handle' <=> worker' # "none"
      BY <2>2 DEF TypeOK
    <3> QED
      BY <2>2, <3>1, <3>2 DEF TypeOK
  <2>3. CASE Clear
    BY <2>3, ZenonT(60) DEF TypeOK
  <2>4. CASE Exit
    BY <2>4 DEF TypeOK
  <2> QED
    BY <2>1, <2>2, <2>3, <2>4
<1>2. UnparsedExplained'
  BY DEF UnparsedExplained, WorkerRuns
<1>3. WipedOnlyIfExcused'
  BY DEF WipedOnlyIfExcused
<1>4. HandleExplained'
  BY DEF HandleExplained
<1>5. TerminationExplained'
  BY DEF TerminationExplained, HandleExplained, TypeOK
<1> QED
  BY <1>1, <1>2, <1>3, <1>4, <1>5

(* The worker's other steps, and whoever edits the file.                   *)
LEMMA WorkerInv == Inv /\ (WorkerWakes \/ WorkerChecks \/ WorkerWithoutData) => Inv'
<1> SUFFICES ASSUME Inv, WorkerWakes \/ WorkerChecks \/ WorkerWithoutData PROVE Inv'
  OBVIOUS
<1> USE DEF Inv, WorkerWakes, WorkerChecks, WorkerWithoutData, Crash, dataVars, autosaveVars,
            history
<1>1. TypeOK'
  BY DEF TypeOK
<1>2. UnparsedExplained'
  BY DEF UnparsedExplained, WorkerRuns
<1>3. WipedOnlyIfExcused' /\ HandleExplained' /\ TerminationExplained'
  BY DEF WipedOnlyIfExcused, HandleExplained, TerminationExplained
<1> QED
  BY <1>1, <1>2, <1>3

LEMMA EditInv == ASSUME Inv, NEW content \in Contents, Edit(content) PROVE Inv'
<1> USE DEF Inv, Edit, dataVars, autosaveVars, history
<1>1. TypeOK'
  BY FileType DEF TypeOK
<1>2. UnparsedExplained'
  BY DEF UnparsedExplained, WorkerRuns
<1>3. WipedOnlyIfExcused' /\ HandleExplained' /\ TerminationExplained'
  BY DEF WipedOnlyIfExcused, HandleExplained, TerminationExplained
<1> QED
  BY <1>1, <1>2, <1>3

LEMMA NextInv == Inv /\ [Next]_vars => Inv'
<1> SUFFICES ASSUME Inv, [Next]_vars PROVE Inv'
  OBVIOUS
<1>1. CASE UNCHANGED vars
  BY <1>1 DEF vars, dataVars, autosaveVars, history, Inv, TypeOK, UnparsedExplained,
              WorkerRuns, WipedOnlyIfExcused, HandleExplained, TerminationExplained
<1> QED
  BY <1>1, LoadInv, UseInv, SaveInv, AutoSaveInv, WorkerInv, EditInv
  DEF Next, Alive, Caller, Worker

(* Inv is an invariant of the configuration and its two threads.           *)
THEOREM Invariance == SafetySpec => []Inv
<1> QED
  BY InitInv, NextInv, PTL DEF SafetySpec

(* The types; a thread handle is there exactly as long as a worker is.     *)
THEOREM TypeCorrect == SafetySpec => []TypeOK
<1>1. Inv => TypeOK
  BY DEF Inv
<1> QED
  BY <1>1, Invariance, PTL

(* The configuration file is overwritten with values that were not read    *)
(* from it only after a load that failed, or one that met a running worker.*)
THEOREM NoUnexcusedWipe == SafetySpec => []WipedOnlyIfExcused
<1>1. Inv => WipedOnlyIfExcused
  BY DEF Inv
<1> QED
  BY <1>1, Invariance, PTL

(* std::terminate is called for the thread handle only with autosave       *)
(* enabled, or after clear() has left the thread behind.                   *)
THEOREM NoUnexplainedTermination == SafetySpec => []TerminationExplained
<1>1. Inv => TerminationExplained
  BY DEF Inv
<1> QED
  BY <1>1, Invariance, PTL
=============================================================================
