--------------------------- MODULE ConfigManager ---------------------------
(***************************************************************************)
(* ConfigManager (server/include/ConfigManager.hpp): the values read from  *)
(* one configuration file, the thread of the application that uses them    *)
(* (the caller), the autosave thread, and whoever else edits the file.     *)
(*                                                                         *)
(* One key is enough: keys do not interact, but for a save, which writes   *)
(* all or fails.  What a thread does under data_->mtx is one step.  The    *)
(* shared_ptr data_ itself is read and replaced without a lock.            *)
(***************************************************************************)
EXTENDS Naturals

CONSTANTS Values,     (* what the key may be set to                        *)
          Unsavable,  (* those of a type the format cannot save            *)
          NoValue,    (* the key is not there                              *)
          Broken,     (* content of a file that does not parse             *)
          Missing,    (* content of a file that is not there               *)
          Format,     (* ConfigData::format                                *)
          MaxTime     (* bound: changes of the file                        *)

ASSUME UnsavableAssumption == Unsavable \subseteq Values
ASSUME ContentAssumption ==
  /\ NoValue \notin Values /\ Broken \notin Values /\ Missing \notin Values
  /\ NoValue # Broken /\ NoValue # Missing /\ Broken # Missing
ASSUME FormatAssumption == Format \in {"JSON", "XML", "YAML", "INI"}
ASSUME MaxTimeAssumption == MaxTime \in Nat \ {0}

VARIABLES
  data,      (* data_: "null" or "set"                                     *)
  value,     (* data_->values                                              *)
  last_write_time,  (* data_->last_write_time, 0 before the first parse    *)
  callback,  (* data_->callbacks: "none", "plain", or "reenters" (it calls *)
             (* the ConfigManager)                                         *)
  enable,    (* enable_autosave_                                           *)
  handle,    (* autosave_thread_.joinable()                                *)
  worker,    (* autoSaveWorker: "none", "waiting", "checking", "saving" or *)
             (* "ended"                                                    *)
  caller,    (* "idle", "loading", "parsing", "notifying", "joining",      *)
             (* "deadlocked" (on mtx, which it holds), "exited"            *)
  fate,      (* the process: "alive", "crashed", "terminated"              *)
  file,      (* the configuration file: its content and its time           *)
  parsed,    (* history: values come from a file that was parsed           *)
  excused,   (* history: a load met a running worker, or did not parse     *)
  orphaned,  (* history: clear() left a worker behind                      *)
  wiped      (* history: a save wrote values that were never parsed        *)

dataVars == <<data, value, last_write_time, callback, parsed>>
autosaveVars == <<enable, handle, worker>>
history == <<excused, orphaned, wiped>>
vars == <<dataVars, autosaveVars, caller, fate, file, history>>

Contents == (Values \ Unsavable) \cup {NoValue, Broken, Missing}

TypeOK ==
  /\ data \in {"null", "set"}
  /\ value \in Values \cup {NoValue}
  /\ last_write_time \in 0..MaxTime
  /\ callback \in {"none", "plain", "reenters"}
  /\ enable \in BOOLEAN /\ handle \in BOOLEAN
  /\ worker \in {"none", "waiting", "checking", "saving", "ended"}
  /\ handle <=> worker # "none"
  /\ caller \in {"idle", "loading", "parsing", "notifying", "joining", "deadlocked", "exited"}
  /\ fate \in {"alive", "crashed", "terminated"}
  /\ file \in [content : Contents, time : 1..MaxTime]
  /\ parsed \in BOOLEAN /\ excused \in BOOLEAN /\ orphaned \in BOOLEAN /\ wiped \in BOOLEAN

Init ==
  /\ data = "null" /\ value = NoValue /\ last_write_time = 0 /\ callback = "none"
  /\ enable = FALSE /\ handle = FALSE /\ worker = "none"
  /\ caller = "idle"
  /\ fate = "alive"
  /\ file \in [content : Contents, time : {1}]
  /\ parsed = FALSE /\ excused = FALSE /\ orphaned = FALSE /\ wiped = FALSE

-----------------------------------------------------------------------------
WorkerRuns == worker \notin {"none", "ended"}

FileChanges(content) ==
  /\ file.time < MaxTime
  /\ file' = [content |-> content, time |-> file.time + 1]

(* saveToFile() under mtx.  A value it cannot save makes it throw: saveJson*)
(* has emptied the file by then, the others have not opened it.            *)
SaveFile ==
  /\ IF value \notin Unsavable THEN FileChanges(value)
     ELSE IF Format = "JSON" THEN FileChanges(Broken) ELSE UNCHANGED file
  /\ wiped' = (wiped \/ ~parsed)

(* A null data_ is dereferenced.                                           *)
Crash == fate' = "crashed" /\ UNCHANGED <<dataVars, autosaveVars, caller, file, history>>

-----------------------------------------------------------------------------
(* The caller.                                                             *)

(* Slip: the file is parsed at the first get.                              *)
LoadUnparsed ==
  /\ caller \in {"idle", "loading"}
  /\ data' = "set" /\ value' = NoValue /\ last_write_time' = 0 /\ callback' = "none"
  /\ parsed' = FALSE
  /\ excused' = (excused \/ WorkerRuns)
  /\ caller' = "idle"
  /\ UNCHANGED <<autosaveVars, fate, file, orphaned, wiped>>

(* load(), up to parseFile: data_ is replaced by an empty ConfigData.      *)
Load ==
  /\ caller \in {"idle", "loading"}
  /\ data' = "set" /\ value' = NoValue /\ last_write_time' = 0 /\ callback' = "none"
  /\ parsed' = FALSE
  /\ excused' = (excused \/ WorkerRuns)
  /\ caller' = "parsing"
  /\ UNCHANGED <<autosaveVars, fate, file, orphaned, wiped>>

(* reload(), up to parseFile.                                              *)
Reload ==
  /\ caller = "idle"
  /\ data = "set"
  /\ caller' = "parsing"
  /\ UNCHANGED <<dataVars, autosaveVars, fate, file, history>>

(* parseFile under mtx.  A key the file no longer has keeps its value; an  *)
(* exception leaves values and last_write_time alone.                      *)
ParseFile ==
  /\ caller = "parsing"
  /\ caller' = "idle"
  /\ IF file.content \in {Broken, Missing}
       THEN excused' = TRUE /\ UNCHANGED <<value, last_write_time, parsed>>
       ELSE /\ value' = IF file.content = NoValue THEN value ELSE file.content
            /\ last_write_time' = file.time
            /\ parsed' = TRUE
            /\ UNCHANGED excused
  /\ UNCHANGED <<data, callback, autosaveVars, fate, file, orphaned, wiped>>

(* set(), then notifyChanges: the callbacks run with mtx held.             *)
Set(v) ==
  /\ caller = "idle"
  /\ data = "set"
  /\ value' = v
  /\ caller' = "notifying"
  /\ UNCHANGED <<data, last_write_time, callback, parsed, autosaveVars, fate, file, history>>

NotifyChanges ==
  /\ caller = "notifying"
  /\ caller' = IF callback = "reenters" THEN "deadlocked" ELSE "idle"
  /\ UNCHANGED <<dataVars, autosaveVars, fate, file, history>>

(* registerChangeCallback and unregisterChangeCallback.                    *)
Register(c) ==
  /\ caller = "idle"
  /\ data = "set"
  /\ callback' = c
  /\ UNCHANGED <<data, value, last_write_time, parsed, autosaveVars, caller, fate, file, history>>

(* get() and saveToFile() do not test data_.                               *)
UseWithoutData ==
  /\ caller = "idle"
  /\ data = "null"
  /\ Crash

Save ==
  /\ caller = "idle"
  /\ data = "set"
  /\ SaveFile
  /\ UNCHANGED <<dataVars, autosaveVars, caller, fate, excused, orphaned>>

(* saveToFile(path) calls saveToFile() with mtx, not recursive, held.      *)
SaveAs ==
  /\ caller = "idle"
  /\ data = "set"
  /\ caller' = "deadlocked"
  /\ UNCHANGED <<dataVars, autosaveVars, fate, file, history>>

(* enableAutoSave(true): assigning to a joinable std::thread terminates.   *)
EnableAutoSave ==
  /\ caller = "idle"
  /\ ~enable
  /\ enable' = TRUE
  /\ handle' = TRUE
  /\ IF handle THEN fate' = "terminated" /\ UNCHANGED worker
               ELSE worker' = "waiting" /\ UNCHANGED fate
  /\ UNCHANGED <<dataVars, caller, file, history>>

(* Slip: the worker is notified and joined, enable_autosave_ not stored.   *)
DisableWithoutStore ==
  /\ caller = "idle"
  /\ enable
  /\ caller' = "joining"
  /\ UNCHANGED <<dataVars, autosaveVars, fate, file, history>>

(* Slip: the worker is told to stop and not joined.                        *)
DisableWithoutJoin ==
  /\ caller = "idle"
  /\ enable
  /\ enable' = FALSE
  /\ UNCHANGED <<dataVars, handle, worker, caller, fate, file, history>>

(* enableAutoSave(false): the worker is told to stop, ...                  *)
DisableAutoSave ==
  /\ caller = "idle"
  /\ enable
  /\ enable' = FALSE
  /\ caller' = "joining"
  /\ UNCHANGED <<dataVars, handle, worker, fate, file, history>>

(* Slip: the thread is detached, not joined.                               *)
DetachInstead ==
  /\ caller = "joining"
  /\ caller' = "idle"
  /\ handle' = FALSE
  /\ UNCHANGED <<dataVars, enable, worker, fate, file, history>>

(* ... and joined.                                                         *)
Join ==
  /\ caller = "joining"
  /\ worker = "ended"
  /\ caller' = "idle"
  /\ handle' = FALSE
  /\ worker' = "none"
  /\ UNCHANGED <<dataVars, enable, fate, file, history>>

(* clear(), and reset(), which loads next: the worker is not joined.       *)
Clear ==
  /\ caller = "idle"
  /\ data = "set"
  /\ data' = "null"
  /\ enable' = FALSE
  /\ orphaned' = (orphaned \/ handle)
  /\ caller' \in {"idle", "loading"}
  /\ UNCHANGED <<value, last_write_time, callback, parsed, handle, worker, fate, file,
                 excused, wiped>>

(* The process ends: destroying a joinable std::thread terminates.         *)
Exit ==
  /\ caller = "idle"
  /\ IF handle THEN fate' = "terminated" /\ UNCHANGED caller
               ELSE caller' = "exited" /\ UNCHANGED fate
  /\ UNCHANGED <<dataVars, autosaveVars, file, history>>

-----------------------------------------------------------------------------
(* autoSaveWorker.                                                         *)

(* wait_for ends, by the timeout or because autosave was disabled.         *)
WorkerWakes ==
  /\ worker = "waiting"
  /\ worker' = IF enable THEN "checking" ELSE "ended"
  /\ UNCHANGED <<dataVars, enable, handle, caller, fate, file, history>>

(* needsSave: the file is not the one that was parsed.  A missing file is  *)
(* an exception, which is caught.                                          *)
WorkerChecks ==
  /\ worker = "checking"
  /\ data = "set" /\ caller # "deadlocked"
  /\ worker' = IF file.content # Missing /\ file.time # last_write_time
                 THEN "saving" ELSE "waiting"
  /\ UNCHANGED <<dataVars, enable, handle, caller, fate, file, history>>

WorkerSaves ==
  /\ worker = "saving"
  /\ data = "set" /\ caller # "deadlocked"
  /\ SaveFile
  /\ worker' = "waiting"
  /\ UNCHANGED <<dataVars, enable, handle, caller, fate, excused, orphaned>>

WorkerWithoutData ==
  /\ worker \in {"checking", "saving"}
  /\ data = "null"
  /\ Crash

-----------------------------------------------------------------------------
(* Somebody else writes or deletes the file.                               *)
Edit(content) ==
  /\ FileChanges(content)
  /\ UNCHANGED <<dataVars, autosaveVars, caller, fate, history>>

Caller ==
  \/ Load \/ Reload \/ ParseFile
  \/ (\E v \in Values : Set(v)) \/ NotifyChanges
  \/ \E c \in {"none", "plain", "reenters"} : Register(c)
  \/ UseWithoutData \/ Save \/ SaveAs
  \/ EnableAutoSave \/ DisableAutoSave \/ Join \/ Clear \/ Exit

Worker == WorkerWakes \/ WorkerChecks \/ WorkerSaves \/ WorkerWithoutData

Alive == fate = "alive" /\ caller # "exited"

Next ==
  /\ Alive
  /\ \/ Caller
     \/ Worker
     \/ \E content \in Contents : Edit(content)

(* Both threads are scheduled, once the caller is in the middle of a call. *)
Fairness ==
  /\ WF_vars(Alive /\ Worker)
  /\ WF_vars(Alive /\ (ParseFile \/ NotifyChanges \/ Join))

SafetySpec == Init /\ [][Next]_vars

Spec == SafetySpec /\ Fairness

-----------------------------------------------------------------------------
(* Properties.                                                             *)

(* The file is never overwritten with values that were not read from it:   *)
(* a load that parses, with no autosave thread about, comes before any     *)
(* save.  (With the thread about, it finds the new ConfigData, whose time  *)
(* differs from the file's, and saves it empty.)                           *)
WipedOnlyIfExcused == wiped => excused

(* The process is not terminated by its autosave thread unless autosave is *)
(* still enabled when it exits, or clear() left the thread behind.         *)
TerminationExplained == fate = "terminated" => enable \/ orphaned

(* enableAutoSave(false) returns: the worker ends, whatever it was doing,  *)
(* even a save of its own (which the bound on the file's time may block).  *)
DisableCompletes ==
  caller = "joining" ~> (caller # "joining" \/ fate # "alive" \/ file.time = MaxTime)

(* With the file loaded and autosave enabled a value that was set reaches  *)
(* the file, as the test AUTO_SAVE expects (test_ConfigManager.cpp:40-49). *)
AutoSaved ==
  \A v \in Values \ Unsavable :
    (parsed /\ ~excused /\ enable /\ caller = "notifying" /\ value = v) ~>
      (file.content = v \/ value # v \/ ~enable \/ fate # "alive"
         \/ caller = "deadlocked" \/ file.time = MaxTime)
=============================================================================
