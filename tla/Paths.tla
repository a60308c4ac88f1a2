------------------------------- MODULE Paths -------------------------------
(***************************************************************************)
(* Session::resolvePath (server/src/Session.cpp).  A place of the file     *)
(* system is the sequence of names that leads to it from the root; a path, *)
(* as a client writes one, is absolute or not and has parts, "." and ".."  *)
(* among them.  There are no symbolic links.                               *)
(***************************************************************************)
EXTENDS SequencesExt

CONSTANTS ServerDir,  (* the directory the server process was started in   *)
          Nowhere     (* the empty path: no place                          *)

Root == "/"

(* Slip: "." is taken for a name.                                          *)
PartKeepingDots(out, part) ==
  CASE part = ".." -> IF out = <<>> THEN out ELSE Front(out)
    [] OTHER       -> Append(out, part)

(* One round of the loop over the parts.  ".." pops whatever is last, the  *)
(* root included, which is a part like the others.                         *)
Part(out, part) ==
  CASE part = "."  -> out
    [] part = ".." -> IF out = <<>> THEN out ELSE Front(out)
    [] OTHER       -> Append(out, part)

(* The place that a path from the root names; ".." at the root stays there *)
(* (std::filesystem::weakly_canonical).                                    *)
Normal(parts) ==
  LET Enter(at, part) == CASE part = "."  -> at
                           [] part = ".." -> IF at = <<>> THEN at ELSE Front(at)
                           [] OTHER       -> Append(at, part)
  IN  FoldLeft(Enter, <<>>, parts)

(* Without its root the result is a relative path, which every use of it   *)
(* takes from the directory of the server process; an empty one names      *)
(* nothing.                                                                *)
PlaceOf(parts) ==
  CASE parts = <<>>                           -> Nowhere
    [] parts # <<>> /\ Head(parts) = Root -> Tail(parts)
    [] parts # <<>> /\ Head(parts) # Root -> ServerDir \o parts

ResolvePath(cwd, path) ==
  IF path.abs THEN Normal(path.parts)
              ELSE PlaceOf(FoldLeft(Part, <<Root>>, cwd \o path.parts))

-----------------------------------------------------------------------------
(* A relative path climbs beyond the root if at some point it has gone up  *)
(* more often than down.                                                   *)
ClimbsBeyondRoot(parts) ==
  \E k \in DOMAIN parts :
    LET ups   == {i \in 1..k : parts[i] = ".."}
        downs == {i \in 1..k : parts[i] \notin {".", ".."}}
    IN  Cardinality(ups) > Cardinality(downs)

(* A relative path resolves as a shell resolves it, and one that climbs    *)
(* beyond the root names nothing or a place under the server's directory.  *)
ResolvesLikeShellFrom(cwd, parts) ==
  LET at == ResolvePath(cwd, [abs |-> FALSE, parts |-> parts]) IN
    IF ClimbsBeyondRoot(cwd \o parts)
    THEN at = Nowhere \/ IsPrefix(ServerDir, at)
    ELSE at = Normal(cwd \o parts)
=============================================================================
