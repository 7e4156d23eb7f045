---------------------------- MODULE Verification ----------------------------
(***************************************************************************)
(* `skillctl verify': load a configuration of several files, verify        *)
(* sources and targets against it, bind the result to the bytes and the    *)
(* commit of the configuration, and publish a content-addressed receipt.   *)
(* A configuration is a fixed set of files and a directory of delegation   *)
(* files, of which there are as many as the directory lists.               *)
(*                                                                         *)
(* Verifications take no lock.  They run beside each other, beside an      *)
(* editor or a `git checkout' that replaces the files one after the other, *)
(* and beside commits.  `status' is a verification that stops before the   *)
(* receipt, as one that found drift does.                                  *)
(*                                                                         *)
(* A version of a file is its bytes with the identity of the inode that    *)
(* holds them.  Every write is assumed to make a new version: a file that  *)
(* gets back both the bytes and the inode it had before, within one        *)
(* verification, is outside of the model.                                  *)
(***************************************************************************)
EXTENDS Naturals, FiniteSets

CONSTANTS
    Verifiers,  \* invocations of skillctl verify
    Files,      \* names of configuration files
    Optional,   \* those in the directory delegations/
    Listing,    \* the names in that directory, as an input of a pass
    FileRank,   \* the order in which they are read
    Contents,   \* what a file may say
    Commits,    \* commits of the configuration's repository
    Blobs,      \* Blobs[h]: the files in commit h
    Spoiled,    \* receipts whose name is taken by other bytes
    FaultPoints, MaxFaults,  \* where errors strike, and how many
    MaxWrites,  \* how often somebody writes a configuration file
    MaxMoves,   \* how often HEAD moves
    MaxCrashes, \* how many verifications are killed
    NoContent, NoCommit

(* A receipt stands for its bytes and its name.  The fingerprints of sources *)
(* and targets are left out: two verifications of one configuration see the *)
(* same targets, so that they meet at the same name.                        *)
Configs == [Files -> Contents \cup {NoContent}]
Receipts == [config : Configs, commit : Commits \cup {NoCommit}]
Version == [bytes : Contents \cup {NoContent}, id : Nat]

ASSUME VerificationAssumption ==
    /\ IsFiniteSet(Files) /\ Optional \subseteq Files /\ Listing \notin Files
    /\ FileRank \in [Files -> Nat]
    /\ \A f, g \in Files : FileRank[f] = FileRank[g] => f = g
    /\ Blobs \in [Commits -> Configs]
    /\ Spoiled \subseteq Receipts
    /\ NoContent \notin Contents /\ NoCommit \notin Commits
    /\ MaxFaults \in Nat /\ MaxWrites \in Nat /\ MaxMoves \in Nat /\ MaxCrashes \in Nat

VARIABLES
    disk,    \* disk[f]: the version of file f
    head,    \* HEAD of the repository
    store,   \* receipts in var/receipts
    pc,
    unread,  \* inputs that the pass at hand has still to look at
    snap,    \* the versions that load_config captured
    verdict, \* whether the targets converged
    commit,  \* the commit that the receipt will name
    linked,  \* whether this verification made the receipt public
    outcome,
    steady,  \* history: the captured configuration was the one on disk when the
             \* load ended, its files were there during all of the scan, and it was
             \* the one on disk at a moment after that
    faults, writes, moves, crashes

world == <<disk, head, store>>
control == <<pc, unread>>
work == <<snap, verdict, commit, linked>>
budget == <<faults, writes, moves, crashes>>
vars == <<world, control, work, outcome, steady, budget>>

(* The passes over all files: one that checks the load, one before and one  *)
(* after the evidence is bound, the last before the receipt; and the two    *)
(* around the questions to git, which only decide whether a commit is named. *)
Strict == {"recheck", "bind", "bound", "final"}
Lexical == {"lexical", "relexical"}
Steps == {"idle", "load", "relist", "scan", "targets", "resolve", "compare", "lookup", "link", "sync",
          "rollback", "done"} \cup Strict \cup Lexical

TypeOK ==
    /\ disk \in [Files -> Version] /\ head \in Commits /\ store \subseteq Receipts
    /\ pc \in [Verifiers -> Steps] /\ unread \in [Verifiers -> SUBSET (Files \cup {Listing})]
    /\ snap \in [Verifiers -> [Files -> Version]]
    /\ verdict \in [Verifiers -> BOOLEAN] /\ linked \in [Verifiers -> BOOLEAN]
    /\ commit \in [Verifiers -> Commits \cup {NoCommit}]
    /\ outcome \in [Verifiers -> {"none", "ok", "drift", "blocked", "failed", "stuck", "crashed"}]
    /\ steady \in [Verifiers -> BOOLEAN]
    /\ faults \in Nat /\ writes \in Nat /\ moves \in Nat /\ crashes \in Nat
    /\ \A v \in Verifiers : pc[v] \in Strict \cup Lexical => unread[v] # {}

NoVersion == [bytes |-> NoContent, id |-> 0]

Init ==
    /\ head \in Commits
    /\ disk = [f \in Files |-> [bytes |-> Blobs[head][f], id |-> 1]]
    /\ store = {}
    /\ pc = [v \in Verifiers |-> "idle"] /\ unread = [v \in Verifiers |-> {}]
    /\ snap = [v \in Verifiers |-> [f \in Files |-> NoVersion]]
    /\ verdict = [v \in Verifiers |-> FALSE] /\ linked = [v \in Verifiers |-> FALSE]
    /\ commit = [v \in Verifiers |-> NoCommit]
    /\ outcome = [v \in Verifiers |-> "none"]
    /\ steady = [v \in Verifiers |-> FALSE]
    /\ faults = 0 /\ writes = 0 /\ moves = 0 /\ crashes = 0

------------------------------------------------------------------------------
Goto(v, step) == pc' = [pc EXCEPT ![v] = step]
End(v, how) ==
    /\ Goto(v, "done")
    /\ outcome' = [outcome EXCEPT ![v] = how]
    /\ unread' = [unread EXCEPT ![v] = {}]
Fault(point) == point \in FaultPoints /\ faults < MaxFaults /\ faults' = faults + 1

(* The names that a state of the files, or a capture of them, holds, and    *)
(* what a listing of the directory of delegations tells of it.              *)
Named(files) == {f \in Files : files[f].bytes # NoContent}
Listed(files) == Named(files) \cap Optional

ReadNothing(v) == {}  \* mutant: the input names of a pass are lost
AllInputs(v) == Named(snap[v])
InputsOf(v, step) ==
    CASE step \in Lexical -> AllInputs(v)
      [] step \in Strict -> AllInputs(v) \cup {Listing}
      [] OTHER -> {}

(* The listing comes first, then the files in their order.                  *)
Reads(v, x) ==
    /\ x \in unread[v]
    /\ \/ x = Listing
       \/ Listing \notin unread[v] /\ \A g \in unread[v] : FileRank[x] <= FileRank[g]

Config(v) == [f \in Files |-> snap[v][f].bytes]
Receipt(v) == [config |-> Config(v), commit |-> commit[v]]

(* The directory is listed before anything is read, with the identity of    *)
(* each entry; without any entry there is nothing to load.                  *)
Begin(v) ==
    /\ pc[v] = "idle"
    /\ \/ /\ Listed(disk) # {}
          /\ snap' = [snap EXCEPT ![v] = disk]
          /\ unread' = [unread EXCEPT ![v] = (Files \ Optional) \cup Listed(disk)]
          /\ Goto(v, "load")
          /\ UNCHANGED outcome
       \/ Listed(disk) = {} /\ End(v, "failed") /\ UNCHANGED snap
    /\ UNCHANGED <<world, verdict, commit, linked, steady, budget>>

(* load_config reads the files one after the other.  It refuses one that is *)
(* gone, and a delegation that another file has replaced since the listing, *)
(* but not one that was written in place.                                   *)
Load(v) ==
    /\ pc[v] = "load"
    /\ \E f \in Files :
        /\ Reads(v, f)
        /\ \/ /\ disk[f].bytes # NoContent
              /\ snap' = [snap EXCEPT ![v][f] = disk[f]]
              /\ unread' = [unread EXCEPT ![v] = @ \ {f}]
              /\ Goto(v, IF unread[v] = {f} THEN "relist" ELSE "load")
              /\ UNCHANGED outcome
           \/ /\ \/ disk[f].bytes = NoContent
                 \/ f \in Optional /\ disk[f] # snap[v][f]
              /\ End(v, "failed")
              /\ UNCHANGED snap
    /\ UNCHANGED <<world, verdict, commit, linked, steady, budget>>

(* It lists the directory again, refuses other names or replaced entries,   *)
(* and then checks all it captured once more.                               *)
Captured(v) == \A f \in Named(snap[v]) : disk[f] = snap[v][f]
Unchecked == "scan"  \* mutant: no second pass
AfterLoad == "recheck"
Relist(v) ==
    /\ pc[v] = "relist"
    /\ \/ /\ Listed(disk) = Listed(snap[v])
          /\ steady' = [steady EXCEPT ![v] = Captured(v)]
          /\ unread' = [unread EXCEPT ![v] = InputsOf(v, AfterLoad)]
          /\ Goto(v, AfterLoad)
          /\ UNCHANGED outcome
       \/ /\ \/ Listed(disk) # Listed(snap[v])
             \/ \E f \in Listed(snap[v]) : disk[f] # snap[v][f]
          /\ End(v, "failed")
          /\ UNCHANGED steady
    /\ UNCHANGED <<world, work, budget>>

(* One input of a pass: names, or bytes, inode, type and size of a file,    *)
(* are the captured ones.                                                   *)
SameBytes(v, x) == \* mutant: only the bytes are compared
    IF x = Listing THEN Listed(disk) = Listed(snap[v]) ELSE disk[x].bytes = snap[v][x].bytes
SameInput(v, x) ==
    IF x = Listing THEN Listed(disk) = Listed(snap[v]) ELSE disk[x] = snap[v][x]
Following ==
    [recheck |-> "scan", bind |-> "lexical", lexical |-> "resolve",
     relexical |-> "bound", bound |-> "final", final |-> "lookup"]

Check(v) ==
    /\ pc[v] \in Strict \cup Lexical
    /\ \E x \in Files \cup {Listing} :
        /\ Reads(v, x) /\ SameInput(v, x)
        /\ \/ /\ unread[v] # {x}
              /\ unread' = [unread EXCEPT ![v] = @ \ {x}]
              /\ UNCHANGED <<pc, outcome>>
           \/ /\ unread[v] = {x}
              /\ pc[v] = "final" => verdict[v]
              /\ unread' = [unread EXCEPT ![v] = InputsOf(v, Following[pc[v]])]
              /\ Goto(v, Following[pc[v]])
              /\ UNCHANGED outcome
           \/ /\ unread[v] = {x}
              /\ pc[v] = "final" /\ ~verdict[v]
              /\ End(v, "drift")
        /\ steady' = IF pc[v] = "final" /\ x = Listing
                     THEN [steady EXCEPT ![v] = @ /\ Captured(v)] ELSE steady
    /\ UNCHANGED <<world, work, budget>>

(* An input that differs ends the verification, or only means that no       *)
(* commit is named.                                                         *)
Refuse(v) ==
    /\ pc[v] \in Strict \cup Lexical
    /\ \E x \in Files \cup {Listing} : Reads(v, x) /\ ~SameInput(v, x)
    /\ \/ pc[v] \in Strict /\ End(v, "blocked") /\ UNCHANGED commit
       \/ /\ pc[v] \in Lexical
          /\ commit' = [commit EXCEPT ![v] = NoCommit]
          /\ unread' = [unread EXCEPT ![v] = InputsOf(v, "bound")]
          /\ Goto(v, "bound")
          /\ UNCHANGED outcome
    /\ UNCHANGED <<world, snap, verdict, linked, steady, budget>>

(* verify_state: sources first, then targets, all afresh; what it finds is  *)
(* left open.  The history notes whether the captured files are the ones on *)
(* disk from the beginning to the end.                                      *)
ScanSources(v) ==
    /\ pc[v] = "scan"
    /\ steady' = [steady EXCEPT ![v] = Captured(v)]
    /\ Goto(v, "targets")
    /\ UNCHANGED <<world, unread, work, outcome, budget>>

ScanTargets(v) ==
    /\ pc[v] = "targets"
    /\ \E b \in BOOLEAN : verdict' = [verdict EXCEPT ![v] = b]
    /\ unread' = [unread EXCEPT ![v] = InputsOf(v, "bind")]
    /\ Goto(v, "bind")
    /\ UNCHANGED <<world, snap, commit, linked, outcome, steady, budget>>

(* _repository_commit: ask git for HEAD once, then compare the names and    *)
(* the blobs of exactly that commit with the captured ones.                 *)
ResolveHead(v) ==
    /\ pc[v] = "resolve"
    /\ \/ commit' = [commit EXCEPT ![v] = head] /\ Goto(v, "compare") /\ UNCHANGED <<unread, faults>>
       \/ /\ Fault("git")
          /\ unread' = [unread EXCEPT ![v] = InputsOf(v, "bound")]
          /\ Goto(v, "bound")
          /\ UNCHANGED commit
    /\ UNCHANGED <<world, snap, verdict, linked, outcome, steady, writes, moves, crashes>>

BlobsOfHead(v) == Blobs[head]  \* mutant: git is asked for HEAD again
BlobsOf(v) == Blobs[commit[v]]
CompareBlobs(v) ==
    /\ pc[v] = "compare"
    /\ \/ /\ BlobsOf(v) = Config(v)
          /\ unread' = [unread EXCEPT ![v] = InputsOf(v, "relexical")]
          /\ Goto(v, "relexical")
          /\ UNCHANGED commit
       \/ /\ BlobsOf(v) # Config(v)
          /\ commit' = [commit EXCEPT ![v] = NoCommit]
          /\ unread' = [unread EXCEPT ![v] = InputsOf(v, "bound")]
          /\ Goto(v, "bound")
    /\ UNCHANGED <<world, snap, verdict, linked, outcome, steady, budget>>

------------------------------------------------------------------------------
(* write_receipt: a receipt that is there already is the result, other      *)
(* bytes under its name are an error; else the bytes are staged ...         *)
Lookup(v) ==
    /\ pc[v] = "lookup"
    /\ \/ Receipt(v) \in store /\ End(v, "ok") /\ UNCHANGED faults
       \/ Receipt(v) \in Spoiled \ store /\ End(v, "failed") /\ UNCHANGED faults
       \/ /\ Receipt(v) \notin store \cup Spoiled
          /\ Goto(v, "link")
          /\ UNCHANGED <<unread, outcome, faults>>
       \/ Fault("stage") /\ End(v, "failed")
    /\ UNCHANGED <<world, work, steady, writes, moves, crashes>>

(* ... and linked, which fails if the name is taken by now.                 *)
Link(v) ==
    /\ pc[v] = "link"
    /\ \/ /\ store' = store \cup {Receipt(v)}
          /\ linked' = [linked EXCEPT ![v] = Receipt(v) \notin store]
          /\ Goto(v, "sync")
          /\ UNCHANGED <<unread, outcome, faults>>
       \/ Fault("link") /\ End(v, "failed") /\ UNCHANGED <<store, linked>>
    /\ UNCHANGED <<disk, head, snap, verdict, commit, steady, writes, moves, crashes>>

(* The directory is synced, and staging is removed; an error in either      *)
(* undoes the publication.                                                  *)
Sync(v) ==
    /\ pc[v] = "sync"
    /\ \/ End(v, "ok") /\ UNCHANGED faults
       \/ Fault("sync") /\ Goto(v, "rollback") /\ UNCHANGED <<unread, outcome>>
    /\ UNCHANGED <<world, work, steady, writes, moves, crashes>>

Always(v) == TRUE  \* mutant: whoever fails removes the receipt
Never(v) == FALSE  \* mutant: whoever fails leaves the receipt
Published(v) == linked[v]
Rollback(v) ==
    /\ pc[v] = "rollback"
    /\ \/ /\ Published(v)
          /\ store' = store \ {Receipt(v)}
          /\ End(v, "failed")
          /\ UNCHANGED faults
       \/ ~Published(v) /\ End(v, "failed") /\ UNCHANGED <<store, faults>>
       \/ Published(v) /\ Fault("unlink") /\ End(v, "stuck") /\ UNCHANGED store
    /\ UNCHANGED <<disk, head, work, steady, writes, moves, crashes>>

------------------------------------------------------------------------------
(* SIGKILL.  A verification that is killed before it links leaves at most a *)
(* file with a temporary name: it is one that takes no further step.        *)
Crash(v) ==
    /\ pc[v] \in {"sync", "rollback"}
    /\ crashes < MaxCrashes
    /\ crashes' = crashes + 1
    /\ End(v, "crashed")
    /\ UNCHANGED <<world, work, steady, faults, writes, moves>>

(* An editor or a checkout writes, adds or removes one file.                *)
WriteFile(f) ==
    /\ writes < MaxWrites
    /\ writes' = writes + 1
    /\ \E b \in Contents \cup {NoContent} :
          disk' = [disk EXCEPT ![f] = [bytes |-> b, id |-> disk[f].id + 1]]
    /\ steady' = [v \in Verifiers |-> steady[v] /\ ~(pc[v] = "targets" /\ f \in Named(snap[v]))]
    /\ UNCHANGED <<head, store, control, work, outcome, faults, moves, crashes>>

MoveHead ==
    /\ moves < MaxMoves
    /\ moves' = moves + 1
    /\ \E h \in Commits \ {head} : head' = h
    /\ UNCHANGED <<disk, store, control, work, outcome, steady, faults, writes, crashes>>

Step(v) ==
    \/ Begin(v) \/ Load(v) \/ Relist(v) \/ Check(v) \/ Refuse(v)
    \/ ScanSources(v) \/ ScanTargets(v) \/ ResolveHead(v) \/ CompareBlobs(v)
    \/ Lookup(v) \/ Link(v) \/ Sync(v) \/ Rollback(v) \/ Crash(v)

Finished == (\A v \in Verifiers : pc[v] = "done") /\ UNCHANGED vars

Next ==
    \/ \E v \in Verifiers : Step(v)
    \/ \E f \in Files : WriteFile(f)
    \/ MoveHead
    \/ Finished

Spec == Init /\ [][Next]_vars
=============================================================================
