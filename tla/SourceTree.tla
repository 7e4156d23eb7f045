----------------------------- MODULE SourceTree -----------------------------
(***************************************************************************)
(* How `skillctl lock' makes a snapshot of a source directory that people  *)
(* edit meanwhile.                                                         *)
(*                                                                         *)
(* Nothing freezes the directory.  A resolver walks it once for its hash,  *)
(* walks it again to copy it, and publishes the copy under the hash only   *)
(* when both walks saw the same tree.  One walk lists a directory, reads   *)
(* its entries one by one, and lists it again; edits fall between any two  *)
(* of those steps.  One file is read in one step, because the code compares *)
(* its metadata before and behind the read.                                *)
(*                                                                         *)
(* The root holds files and directories of files.  Its ignore file, which  *)
(* is read once for its rules and once more as an entry, hides entries.    *)
(* An editor does not bring back bytes that a file had before.             *)
(***************************************************************************)
EXTENDS Naturals

CONSTANTS
    Resolvers,   \* runs that resolve the source
    Root, Dirs,  \* the source directory, and the directories in it
    Files,       \* files that may exist
    In,          \* In[f]: the directory of file f
    Rank,        \* the order of names: files and directories of one listing
    Ignore,      \* the .gitignore of the root
    Hides,       \* Hides[b]: what an ignore file of bytes b hides
    Contents,    \* what a file may contain
    NoContent,   \* a file that is not there
    FirstTrees,  \* what the source may hold at the start
    MaxWrites    \* how often files are written, added and removed

Bytes == Contents \cup {NoContent}
Tree == [Files -> Bytes]
Empty == [f \in Files |-> NoContent]

(* Rules hide a directory with all that is in it, and never an ignore file  *)
(* (IgnoreRules._direct_match).                                             *)
ASSUME SourceAssumption ==
    /\ Root \notin Dirs /\ Files \cap (Dirs \cup {Root}) = {}
    /\ In \in [Files -> Dirs \cup {Root}]
    /\ Rank \in [Files \cup Dirs -> Nat]
    /\ \A e, o \in Files \cup Dirs : Rank[e] = Rank[o] => e = o
    /\ Ignore \in Files /\ In[Ignore] = Root
    /\ NoContent \notin Contents
    /\ Hides \in [Contents -> SUBSET (Files \cup Dirs)]
    /\ \A b \in Contents : Ignore \notin Hides[b]
    /\ \A b \in Contents : \A f \in Files : In[f] \in Hides[b] => f \in Hides[b]
    /\ FirstTrees \subseteq Tree
    /\ MaxWrites \in Nat

VARIABLES
    source,   \* what the source holds now
    past,     \* past[f]: bytes that f held and does not hold any more
    held,     \* every tree that the source has held
    stamp,    \* stamp[d]: the modification time of directory d
    writes,   \* how often anything was written
    cache,    \* entries of the content-addressed cache: [key, tree]
    pc,       \* pc[r]: what resolver r does next
    walk,     \* which walk it is on: "hash" or "copy"
    here,     \* the directory it is in
    opened,   \* the modification time of that directory when it got there
    names,    \* files that its listings of this walk have shown
    todo,     \* listed entries that it has not looked at
    rules,    \* bytes of the ignore file, as read for the rules
    got,      \* files that this walk has read
    revision  \* what its first walk read

world == <<source, past, held, stamp, writes>>
place == <<here, opened, names, todo, rules, got>>
sourceVars == <<world, cache, pc, walk, place, revision>>

Hidden(b) == IF b = NoContent THEN {} ELSE Hides[b]

(* What a walk would give if nobody wrote meanwhile.                        *)
Visible(s) == [f \in Files |-> IF f \in Hidden(s[Ignore]) THEN NoContent ELSE s[f]]

SourceTypeOK ==
    /\ source \in Tree /\ past \in [Files -> SUBSET Contents] /\ held \subseteq Tree
    /\ stamp \in [Dirs -> Nat] /\ writes \in Nat
    /\ cache \subseteq [key : Tree, tree : Tree]
    /\ pc \in [Resolvers -> {"idle", "list", "rules", "walk", "probe", "publish",
                             "resolved", "done", "failed"}]
    /\ walk \in [Resolvers -> {"hash", "copy"}]
    /\ here \in [Resolvers -> Dirs \cup {Root}] /\ opened \in [Resolvers -> Nat]
    /\ names \in [Resolvers -> SUBSET Files] /\ todo \in [Resolvers -> SUBSET (Files \cup Dirs)]
    /\ rules \in [Resolvers -> Bytes]
    /\ got \in [Resolvers -> Tree] /\ revision \in [Resolvers -> Tree]

SourceInit ==
    /\ source \in FirstTrees /\ held = {source}
    /\ past = [f \in Files |-> {}] /\ stamp = [d \in Dirs |-> 0] /\ writes = 0
    /\ cache \in {{}, {[key |-> Visible(source), tree |-> Visible(source)]}}
    /\ pc = [r \in Resolvers |-> "idle"] /\ walk = [r \in Resolvers |-> "hash"]
    /\ here = [r \in Resolvers |-> Root] /\ opened = [r \in Resolvers |-> 0]
    /\ names = [r \in Resolvers |-> {}] /\ todo = [r \in Resolvers |-> {}]
    /\ rules = [r \in Resolvers |-> NoContent] /\ got = [r \in Resolvers |-> Empty]
    /\ revision = [r \in Resolvers |-> Empty]

------------------------------------------------------------------------------
Goto(r, step) == pc' = [pc EXCEPT ![r] = step]
FilesIn(d) == {f \in Files : In[f] = d}
WithDirectories(d) == Dirs  \* mutant: directories are listed as files
Listed(d) == {f \in FilesIn(d) : source[f] # NoContent}

(* What is left of the directory r is in, and the entry whose turn it is.   *)
Left(r) == {e \in todo[r] : IF e \in Dirs THEN here[r] = Root ELSE In[e] = here[r]}
Turn(r, e) == e \in Left(r) /\ \A o \in Left(r) : Rank[e] <= Rank[o]

(* _walk_at on the root: the first listing.                                 *)
ListRoot(r) ==
    /\ pc[r] = "list"
    /\ here' = [here EXCEPT ![r] = Root]
    /\ names' = [names EXCEPT ![r] = Listed(Root)]
    /\ todo' = [todo EXCEPT ![r] = Listed(Root) \cup Dirs]
    /\ rules' = [rules EXCEPT ![r] = NoContent]
    /\ got' = [got EXCEPT ![r] = Empty]
    /\ Goto(r, IF Ignore \in Listed(Root) THEN "rules" ELSE "walk")
    /\ UNCHANGED <<world, cache, walk, opened, revision>>

(* The rules are read before the entries.                                   *)
ReadRules(r) ==
    /\ pc[r] = "rules" /\ source[Ignore] # NoContent
    /\ rules' = [rules EXCEPT ![r] = source[Ignore]]
    /\ Goto(r, "walk")
    /\ UNCHANGED <<world, cache, walk, here, opened, names, todo, got, revision>>

(* Each listed file is skipped when the rules hide it, and read otherwise.  *)
VisitFile(r) ==
    /\ pc[r] = "walk"
    /\ \E f \in Files :
        /\ Turn(r, f)
        /\ todo' = [todo EXCEPT ![r] = @ \ {f}]
        /\ \/ f \in Hidden(rules[r]) /\ UNCHANGED got
           \/ /\ f \notin Hidden(rules[r]) /\ source[f] # NoContent
              /\ got' = [got EXCEPT ![r][f] = source[f]]
    /\ UNCHANGED <<world, cache, pc, walk, here, opened, names, rules, revision>>

(* Each directory is skipped as a whole, or entered and listed.             *)
VisitDirectory(r) ==
    /\ pc[r] = "walk"
    /\ \E d \in Dirs :
        /\ Turn(r, d)
        /\ \/ /\ d \in Hidden(rules[r])
              /\ todo' = [todo EXCEPT ![r] = @ \ {d}]
              /\ UNCHANGED <<here, opened, names>>
           \/ /\ d \notin Hidden(rules[r])
              /\ here' = [here EXCEPT ![r] = d]
              /\ opened' = [opened EXCEPT ![r] = stamp[d]]
              /\ names' = [names EXCEPT ![r] = @ \cup Listed(d)]
              /\ todo' = [todo EXCEPT ![r] = (@ \ {d}) \cup Listed(d)]
    /\ UNCHANGED <<world, cache, pc, walk, rules, got, revision>>

(* The second listing, and for a directory below the root its metadata,     *)
(* must be those of the start.                                              *)
Relisted(r) ==
    /\ names[r] \cap FilesIn(here[r]) = Listed(here[r])
    /\ here[r] \in Dirs => opened[r] = stamp[here[r]]

LeaveDirectory(r) ==
    /\ pc[r] = "walk" /\ here[r] \in Dirs /\ Left(r) = {} /\ Relisted(r)
    /\ here' = [here EXCEPT ![r] = Root]
    /\ UNCHANGED <<world, cache, pc, walk, opened, names, todo, rules, got, revision>>

(* The first walk gives the revision to look for in the cache, the second   *)
(* one the tree in the staging directory.                                   *)
EndWalk(r) ==
    /\ pc[r] = "walk" /\ here[r] = Root /\ Left(r) = {} /\ Relisted(r)
    /\ IF walk[r] = "hash"
       THEN Goto(r, "probe") /\ revision' = [revision EXCEPT ![r] = got[r]]
       ELSE Goto(r, "publish") /\ UNCHANGED revision
    /\ UNCHANGED <<world, cache, walk, place>>

------------------------------------------------------------------------------
Cached(key) == \E e \in cache : e.key = key

(* _resolve_filesystem.  (Earlier walks only validate the tree.)            *)
BeginResolve(r) ==
    /\ pc[r] = "idle"
    /\ Goto(r, "list")
    /\ UNCHANGED <<world, cache, walk, place, revision>>

(* _cache_snapshot: a good entry of that key spares the second walk.        *)
UseOneWalk(r) ==  \* mutant: the tree is hashed once
    /\ pc[r] = "probe"
    /\ IF Cached(revision[r]) THEN Goto(r, "resolved") ELSE Goto(r, "publish")
    /\ UNCHANGED <<world, cache, walk, place, revision>>
ProbeCache(r) ==
    /\ pc[r] = "probe"
    /\ IF Cached(revision[r]) THEN Goto(r, "resolved") /\ UNCHANGED walk
       ELSE Goto(r, "list") /\ walk' = [walk EXCEPT ![r] = "copy"]
    /\ UNCHANGED <<world, cache, place, revision>>

(* The staged copy must have the hash of the first walk; the loser of a     *)
(* race uses the entry that is there.                                       *)
CopyUnhashed(r) == TRUE  \* mutant: the staged tree is not hashed
CopyMatches(r) == got[r] = revision[r]
PublishSnapshot(r) ==
    /\ pc[r] = "publish" /\ CopyMatches(r)
    /\ cache' = IF Cached(revision[r]) THEN cache
                ELSE cache \cup {[key |-> revision[r], tree |-> got[r]]}
    /\ Goto(r, "resolved")
    /\ UNCHANGED <<world, walk, place, revision>>

(* A resolver ends, and forgets what it saw.                                *)
Leave(r, how) ==
    /\ Goto(r, how)
    /\ walk' = [walk EXCEPT ![r] = "hash"] /\ here' = [here EXCEPT ![r] = Root]
    /\ opened' = [opened EXCEPT ![r] = 0] /\ rules' = [rules EXCEPT ![r] = NoContent]
    /\ names' = [names EXCEPT ![r] = {}] /\ todo' = [todo EXCEPT ![r] = {}]
    /\ got' = [got EXCEPT ![r] = Empty] /\ revision' = [revision EXCEPT ![r] = Empty]

(* A listed file is gone, a listing differs, or the second walk gave        *)
(* another tree.  A validating walk in front may fail for any of these.     *)
Mutated(r) ==
    \/ pc[r] = "idle"
    \/ pc[r] = "rules" /\ source[Ignore] = NoContent
    \/ /\ pc[r] = "walk"
       /\ \/ \E f \in Files : Turn(r, f) /\ f \notin Hidden(rules[r]) /\ source[f] = NoContent
          \/ Left(r) = {} /\ ~Relisted(r)
    \/ pc[r] = "publish" /\ ~CopyMatches(r)
FailResolve(r) == Mutated(r) /\ Leave(r, "failed") /\ UNCHANGED <<world, cache>>

ResolveStep(r) ==
    \/ ListRoot(r) \/ ReadRules(r) \/ VisitFile(r) \/ VisitDirectory(r) \/ LeaveDirectory(r)
    \/ EndWalk(r) \/ ProbeCache(r) \/ PublishSnapshot(r) \/ FailResolve(r)

------------------------------------------------------------------------------
(* Somebody writes, adds or removes a file.  Adding and removing changes    *)
(* the modification time of the directory.                                  *)
Writes(f) == (Contents \ past[f]) \cup {NoContent}
WriteSource(f) ==
    /\ writes < MaxWrites /\ writes' = writes + 1
    /\ \E b \in Writes(f) \ {source[f]} :
        /\ source' = [source EXCEPT ![f] = b]
        /\ held' = held \cup {source'}
        /\ past' = [past EXCEPT ![f] = @ \cup ({source[f]} \ {NoContent})]
        /\ stamp' = IF In[f] # Root /\ NoContent \in {b, source[f]}
                    THEN [stamp EXCEPT ![In[f]] = @ + 1] ELSE stamp
    /\ UNCHANGED <<cache, pc, walk, place, revision>>

SourceNext == (\E r \in Resolvers : BeginResolve(r) \/ ResolveStep(r)) \/ (\E f \in Files : WriteSource(f))
SourceSpec == SourceInit /\ [][SourceNext]_sourceVars
=============================================================================
