-------------------------- MODULE MCConfigManager --------------------------
(* ConfigManager for TLC: the constants have their values in the cfg files.*)
EXTENDS ConfigManager

(* What the test AUTO_SAVE does before it calls reset(): the configuration *)
(* is loaded once, from a file that parses, autosave is enabled and values *)
(* are set.  Nobody else writes the file.                                  *)
TestStep ==
  \/ data = "null" /\ Load
  \/ ParseFile
  \/ EnableAutoSave
  \/ \E v \in Values \ {value} : Set(v)
  \/ NotifyChanges

AloneSpec ==
  /\ Init /\ file.content \in Values
  /\ [][Alive /\ (TestStep \/ Worker)]_vars
  /\ Fairness
=============================================================================
