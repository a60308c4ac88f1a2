------------------------------ MODULE Commands -----------------------------
(***************************************************************************)
(* The command handlers of LogicSystem: what each does to the file system, *)
(* to its session's current path and to the process, and how it answers.   *)
(* One worker executes the commands of all sessions one after the other    *)
(* (module LogicSystem), so a handler is one step.  How a handler fails    *)
(* when its client has gone is LogicSystem's.                              *)
(*                                                                         *)
(* The file system is a tree of directories and files without links or     *)
(* other users.  A file's content is a name; what matters of it is how     *)
(* long the messages are that carry it.                                    *)
(***************************************************************************)
EXTENDS Codec, Paths

CONSTANTS Sessions,
          Names,        (* names of files and directories                  *)
          MaxDepth,     (* bound: names in a place                         *)
          Contents,     (* contents of files                               *)
          UploadLen,    (* length of the client's message with a content   *)
          DownloadLen,  (* of the reply to a download of it                *)
          CatLen,       (* of the reply to cat                             *)
          ListHead,     (* of the reply to list: its head,                 *)
          EntryLen,     (* and each entry                                  *)
          Home,         (* HOME of the server process                      *)
          Protected,    (* directories the server may not change           *)
          InitialTree,
          Asked         (* the paths clients ask for                       *)

Places == BoundedSeq(Names, MaxDepth)

VARIABLES
  tree,    (* what is at each place: "none", "dir" or a content            *)
  live,    (* sessions that are open                                       *)
  cwd,     (* Session::user_current_path_                                  *)
  stale,   (* history: open sessions whose directory has been removed, or  *)
           (* was not there when they began                                *)
  answer,  (* the last answer: its status, the length of the message that  *)
           (* was to carry it (of a short one 0), and what it claims to    *)
           (* have stored                                                  *)
  fate     (* how the server process is                                    *)

vars == <<tree, live, cwd, stale, answer, fate>>

-----------------------------------------------------------------------------
Kinds == {"none", "dir"} \cup Contents

(* What is at a place, if it is one.                                       *)
At(p) == IF p \in Places THEN tree[p] ELSE "none"

Beneath(p)   == {q \in Places : IsPrefix(p, q)}
Ancestors(p) == {q \in Places : IsPrefix(q, p)}
Existing(S)  == {q \in S : tree[q] # "none"}
Entries(p)   == {q \in Existing(Places) : q # <<>> /\ Front(q) = p}

(* Every entry is in a directory.                                          *)
WellFormed(t) ==
  /\ t[<<>>] = "dir"
  /\ \A p \in Places \ {<<>>} : t[p] # "none" => t[Front(p)] = "dir"

ASSUME TreeAssumption ==
  /\ InitialTree \in [Places -> Kinds] /\ WellFormed(InitialTree)
  /\ Home \in Places /\ ServerDir \in Places /\ Nowhere \notin Places
  /\ Contents \cap {"none", "dir"} = {}

ASSUME BoundAssumption == IsFiniteSet(Names) /\ MaxDepth \in Nat

ASSUME NamesAssumption == Names \cap {".", "..", Root} = {}

ASSUME LengthAssumption ==
  /\ UploadLen \in [Contents -> Nat] /\ DownloadLen \in [Contents -> Nat]
  /\ CatLen \in [Contents -> Nat]
  /\ ListHead \in Nat /\ EntryLen \in Nat

NoClaim == [at |-> <<>>, content |-> "none"]
Statuses == {"none", "ok", "failed", "error", "dropped", "cut"}

TypeOK ==
  /\ tree \in [Places -> Kinds] /\ WellFormed(tree)
  /\ live \subseteq Sessions /\ stale \subseteq live
  /\ cwd \in [Sessions -> Places]
  /\ answer.status \in Statuses /\ answer.len \in Nat
  /\ fate \in {"alive", "crashed", "aborted"}

Init ==
  /\ tree = InitialTree
  /\ live = {}
  /\ cwd = [s \in Sessions |-> Home]
  /\ stale = {}
  /\ answer = [status |-> "none", len |-> 0, claims |-> NoClaim]
  /\ fate = "alive"

-----------------------------------------------------------------------------
(* A message of n bytes with the given status is handed to Session::send.  *)
Answer(status, n) == answer' = [status |-> status, len |-> n, claims |-> NoClaim]

(* A short answer always fits.  A long one goes through SendNode: what it  *)
(* throws is caught in the handler and answered with an error, and what it *)
(* cuts does not parse at the client.                                      *)
Replies(status, n) ==
  \/ /\ Sends(n)
     /\ Answer(IF Cut(n) THEN "cut" ELSE status, n)
     /\ UNCHANGED fate
  \/ /\ Throws(n)
     /\ Answer("error", n)
     /\ UNCHANGED fate
  \/ /\ Crashes(n)
     /\ Answer("none", n)
     /\ fate' = "crashed"

Serving(s) == fate = "alive" /\ s \in live

(* The place a session's path names, within the bounds of the model.       *)
Named(s, path) == ResolvePath(cwd[s], path)
Within(at) == at = Nowhere \/ at \in Places

-----------------------------------------------------------------------------
(* A session begins in the home directory, whether it is there or not.     *)
Connect(s) ==
  /\ fate = "alive" /\ s \notin live
  /\ live' = live \cup {s}
  /\ cwd' = [cwd EXCEPT ![s] = Home]
  /\ stale' = IF At(Home) = "dir" THEN stale ELSE stale \cup {s}
  /\ Answer("none", 0)
  /\ UNCHANGED <<tree, fate>>

(* It ends: MSG_EXIT, or its client goes (modules Server, LogicSystem).    *)
Leaves(s) ==
  /\ live' = live \ {s}
  /\ stale' = stale \ {s}
  /\ cwd' = [cwd EXCEPT ![s] = Home]

Ends(s) ==
  /\ Serving(s)
  /\ Leaves(s)
  /\ Answer("none", 0)
  /\ UNCHANGED <<tree, fate>>

(* Hello and pwd read nothing that can fail.                               *)
HelloOrPwd(s) ==
  /\ Serving(s)
  /\ Answer("ok", 0)
  /\ UNCHANGED <<tree, live, cwd, stale, fate>>

(* A listing has a head and a line for every entry.                        *)
ListLen(at) == ListHead + EntryLen * Cardinality(Entries(at))

(* What is not a directory is listed as a text that says so.               *)
List(s, path) ==
  /\ Serving(s)
  /\ LET at == Named(s, path) IN
       /\ Within(at)
       /\ \/ At(at) = "dir" /\ Replies("ok", ListLen(at))
          \/ At(at) # "dir" /\ Answer("ok", 0) /\ UNCHANGED fate
  /\ UNCHANGED <<tree, live, cwd, stale>>

-----------------------------------------------------------------------------
(* Slip: create_directory instead, which makes only the last one.          *)
MissingLast(at) == {at} \ Existing(Places)

(* std::filesystem::create_directories: every directory that is missing on *)
(* the way; nothing if a file is in the way or the first missing one may   *)
(* not be created.                                                         *)
Missing(at) == Ancestors(at) \ Existing(Places)

CanMake(at) ==
  /\ at \in Places
  /\ \A q \in Ancestors(at) : At(q) \in {"none", "dir"}
  /\ \A q \in Missing(at) : Front(q) \notin Protected

Mkdir(s, path) ==
  /\ Serving(s)
  /\ LET at == Named(s, path) IN
       /\ Within(at)
       /\ \/ /\ At(at) = "dir"
             /\ Answer("failed", 0)
             /\ UNCHANGED tree
          \/ /\ At(at) # "dir" /\ CanMake(at)
             /\ tree' = [q \in Places |-> IF q \in Missing(at) THEN "dir" ELSE tree[q]]
             /\ Answer("ok", 0)
          \/ /\ At(at) # "dir" /\ ~CanMake(at)
             /\ Answer("error", 0)
             /\ UNCHANGED tree
  /\ UNCHANGED <<live, cwd, stale, fate>>

-----------------------------------------------------------------------------
(* std::filesystem::remove_all.  What cannot be removed: the root, and the *)
(* entries of a protected directory.                                       *)
Stuck(at) == {q \in Existing(Beneath(at)) : q = <<>> \/ Front(q) \in Protected}

(* It works upwards and in no particular order, and throws at the first    *)
(* entry it cannot remove: until then it has removed what is in that       *)
(* entry, and some of what lies beside the way to it.                      *)
RemovedBefore(stuck, at) ==
  LET beside == {q \in Existing(Beneath(at)) \ Ancestors(stuck) :
                   Front(q) \in Ancestors(stuck)}
      under(tops) == Existing(UNION {Beneath(q) : q \in tops})
  IN  {gone \in {under(tops) : tops \in SUBSET beside} :
         Entries(stuck) \subseteq gone /\ gone \cap Stuck(at) = {}}

(* A file is in the way: an error or nothing to remove, by the version of  *)
(* the library.                                                            *)
FileOnTheWay(at) == at \in Places /\ \E q \in Ancestors(at) \ {at} : tree[q] \in Contents

Unlink(gone) ==
  /\ tree' = [q \in Places |-> IF q \in gone THEN "none" ELSE tree[q]]
  /\ stale' = stale \cup {s \in live : cwd[s] \in gone}

Rmdir(s, path) ==
  /\ Serving(s)
  /\ LET at == Named(s, path) IN
       /\ Within(at)
       /\ \/ /\ At(at) = "none"
             /\ Answer("failed", 0)
             /\ UNCHANGED <<tree, stale>>
          \/ /\ At(at) = "none" /\ FileOnTheWay(at)
             /\ Answer("error", 0)
             /\ UNCHANGED <<tree, stale>>
          \/ /\ At(at) # "none" /\ Stuck(at) = {}
             /\ Unlink(Existing(Beneath(at)))
             /\ Answer("ok", 0)
          \/ /\ At(at) # "none"
             /\ \E stuck \in Stuck(at) : \E gone \in RemovedBefore(stuck, at) : Unlink(gone)
             /\ Answer("error", 0)
  /\ UNCHANGED <<live, cwd, fate>>

-----------------------------------------------------------------------------
(* An ofstream on a place opens, and so empties, a file that may be        *)
(* written; otherwise its writes do nothing and nobody asks.               *)
CanWrite(at) ==
  /\ at \in Places \ {<<>>}
  /\ tree[Front(at)] = "dir" /\ Front(at) \notin Protected
  /\ tree[at] # "dir"

(* The client's message: longer than MAX_LENGTH, and the session is        *)
(* dropped; cut by its SendNode, and the handler's assert fails.  A        *)
(* message that SendNode does not survive stays with the client.           *)
Upload(s, path, c) ==
  /\ Serving(s)
  /\ LET at == Named(s, path)
         n  == UploadLen[c]
     IN  /\ Within(at)
         /\ Sends(n)
         /\ \/ /\ Refused(BodyLen(n))
               /\ Leaves(s)
               /\ Answer("dropped", n)
               /\ UNCHANGED <<tree, fate>>
            \/ /\ ~Refused(BodyLen(n)) /\ Cut(n)
               /\ fate' = "aborted"
               /\ Answer("none", n)
               /\ UNCHANGED <<tree, live, cwd, stale>>
            \/ /\ ~Refused(BodyLen(n)) /\ ~Cut(n)
               /\ tree' = IF CanWrite(at) THEN [tree EXCEPT ![at] = c] ELSE tree
               /\ answer' = [status |-> "ok", len |-> 0,
                             claims |-> [at |-> at, content |-> c]]
               /\ UNCHANGED <<live, cwd, stale, fate>>

(* FileUtil::readFile: nothing of a file that cannot be opened, an         *)
(* exception of a directory.  Length gives the reply to a content.         *)
ReadFile(s, path, Length) ==
  /\ Serving(s)
  /\ LET at == Named(s, path) IN
       /\ Within(at)
       /\ \/ At(at) \in Contents /\ Replies("ok", Length[At(at)])
          \/ At(at) = "none" /\ Answer("ok", 0) /\ UNCHANGED fate
          \/ At(at) = "dir" /\ Answer("error", 0) /\ UNCHANGED fate
  /\ UNCHANGED <<tree, live, cwd, stale>>

Download(s, path) == ReadFile(s, path, DownloadLen)
Cat(s, path) == ReadFile(s, path, CatLen)

-----------------------------------------------------------------------------
(* Slip: the path is set whatever it names.                                *)
CdUnchecked(s, path) ==
  /\ Serving(s)
  /\ LET at == Named(s, path) IN
       /\ at \in Places
       /\ cwd' = [cwd EXCEPT ![s] = at]
       /\ stale' = stale \ {s}
       /\ Answer("ok", 0)
  /\ UNCHANGED <<tree, live, fate>>

(* Slip: the path is set before it is tested.                              *)
CdSetsFirst(s, path) ==
  /\ Serving(s)
  /\ LET at == Named(s, path) IN
       /\ at \in Places
       /\ cwd' = [cwd EXCEPT ![s] = at]
       /\ stale' = IF At(at) = "dir" THEN stale \ {s} ELSE stale \cup {s}
       /\ Answer(IF At(at) = "dir" THEN "ok" ELSE "error", 0)
  /\ UNCHANGED <<tree, live, fate>>

Cd(s, path) ==
  /\ Serving(s)
  /\ LET at == Named(s, path) IN
       /\ Within(at)
       /\ \/ /\ At(at) = "dir"
             /\ cwd' = [cwd EXCEPT ![s] = at]
             /\ stale' = stale \ {s}
             /\ Answer("ok", 0)
          \/ /\ At(at) # "dir"
             /\ Answer("error", 0)
             /\ UNCHANGED <<cwd, stale>>
  /\ UNCHANGED <<tree, live, fate>>

-----------------------------------------------------------------------------
Command(s, path) ==
  \/ List(s, path) \/ Mkdir(s, path) \/ Rmdir(s, path)
  \/ \E c \in Contents : Upload(s, path, c)
  \/ Download(s, path) \/ Cat(s, path) \/ Cd(s, path)

Next ==
  \E s \in Sessions :
    \/ Connect(s) \/ Ends(s) \/ HelloOrPwd(s)
    \/ \E path \in Asked : Command(s, path)

Spec == Init /\ [][Next]_vars

-----------------------------------------------------------------------------
(* Properties.                                                             *)

(* The current path of a session is a directory, whatever the other        *)
(* sessions have made, written over or removed since it went there, unless *)
(* the directory was removed or is a HOME that was not there: cd is the    *)
(* only check, made once (LogicSystem.cpp:379), and never repeated.        *)
CwdExplained == \A s \in live \ stale : tree[cwd[s]] = "dir"

(* A command that does not succeed leaves the files and the current paths  *)
(* alone, but for a removal that stopped half-way: that has only removed,  *)
(* and nothing that is protected.                                          *)
UnsuccessfulChangesLittle ==
  [][answer'.status # "ok" =>
       /\ \A s \in live \cap live' : cwd'[s] = cwd[s]
       /\ \A q \in Places : tree'[q] # tree[q] =>
            answer'.status = "error" /\ tree'[q] = "none" /\ Front(q) \notin Protected]_vars

(* The lengths whose total is negative, so that resize throws, and those   *)
(* whose copy runs away, by their 16 low bits.                             *)
Overflows(n) == 32764 <= n % 65536 /\ n % 65536 <= 65530
RunAway(n) == n % 65536 >= 65531

(* What a length does, by its 16 low bits: a message that a short holds    *)
(* arrives whole or is refused, the copy runs away for the five lengths    *)
(* below a multiple of 65536 and never below 65531, any other beyond 32763 *)
(* is answered with an error, and only from 65536 bytes on does one arrive *)
(* cut, or abort the server.                                               *)
HarmOnlyBeyondShort ==
  /\ answer.status = "cut" \/ fate = "aborted" => answer.len >= 65536
  /\ fate = "crashed" => RunAway(answer.len)
  /\ Overflows(answer.len) => answer.status = "error"

(* An upload that is answered with "File uploaded successfully" has stored *)
(* the content where the client asked.                                     *)
StoredAsReported ==
  answer.claims # NoClaim => At(answer.claims.at) = answer.claims.content
=============================================================================
