----------------------------- MODULE MCCommands ----------------------------
(* Commands for TLC, and what of its parts is a function of its input.     *)
EXTENDS Commands, Base64, TLC

CONSTANTS MaxParts,   (* bound: parts of a path                            *)
          MaxBytes    (* bound: bytes of a string                          *)

ASSUME PartsAssumption == MaxParts \in Nat

Symmetry == Permutations(Sessions)

(* The server may write everywhere but in /y, where somebody has put two   *)
(* long files and which is also the directory it was started in.           *)
MCHome == <<"x">>
MCServerDir == <<"y">>
MCProtected == {<<"y">>}
MCInitialTree ==
  [p \in Places |->
     CASE p \in {<<>>, <<"x">>, <<"y">>} -> "dir"
       [] p = <<"y", "x">> -> "big"
       [] p = <<"y", "y">> -> "huge"
       [] OTHER -> "none"]

(* Messages of every length class: short; beyond MAX_LENGTH; beyond a      *)
(* short, where SendNode throws or the copy fails; beyond 16 bits.         *)
MCUploadLen == [tiny |-> 90, medium |-> 3000, big |-> 40000, huge |-> 66000]
MCDownloadLen == [tiny |-> 100, medium |-> 3000, big |-> 40000, huge |-> 66000]
MCCatLen == [tiny |-> 50, medium |-> 4000, big |-> 65533, huge |-> 140000]

Absolute(parts) == [abs |-> TRUE, parts |-> parts]
Relative(parts) == [abs |-> FALSE, parts |-> parts]
MCAsked ==
  {Absolute(<<>>), Absolute(<<"y">>), Absolute(<<"x", "y">>),
   Relative(<<>>), Relative(<<".", "x">>), Relative(<<"y">>), Relative(<<"..">>),
   Relative(<<"..", "x">>),
   Relative(<<"..", "..", "x">>), Relative(<<"..", "y", "y">>)}

(* From where a session is, every relative path resolves as in a shell, and*)
(* one that climbs beyond the root names nothing or a place under the      *)
(* directory of the server (Session::resolvePath).                         *)
RelativePaths == BoundedSeq(Names \cup {".", ".."}, MaxParts)
ResolvesLikeShell ==
  \A s \in live : \A parts \in RelativePaths : ResolvesLikeShellFrom(cwd[s], parts)

(* Beside the commands, and apart from them to keep the runs small: a text *)
(* that is given to base64_encode, byte by byte.                           *)
VARIABLE text

Bytes == {0, 97, 255}

Feed ==
  /\ Init /\ Len(text) < MaxBytes
  /\ \E b \in Bytes : text' = Append(text, b)
  /\ UNCHANGED vars

MCInit == Init /\ text = <<>>
MCNext == (text = <<>> /\ Next /\ UNCHANGED text) \/ Feed
MCSpec == MCInit /\ [][MCNext]_<<vars, text>>

(* However many bytes base64_encode has been given, and although its       *)
(* accumulator has overflowed, its result is the standard encoding, and    *)
(* base64_decode restores the text.                                        *)
Base64Right == Base64RightOf(text)
=============================================================================
