------------------------------- MODULE Planner -------------------------------
(***************************************************************************)
(* Scanning and planning, the two pure halves of the manager.              *)
(*                                                                         *)
(* managed_state.scan_target reads one target directory into a view: does  *)
(* the root exist, which cache root and links does .skill-delegator/       *)
(* managed.json record, and which other entries does the tree hold.        *)
(* planner.build_plan compares such views with the desired links of every  *)
(* selected target.                                                        *)
(*                                                                         *)
(* A path relative to a target root is an element of Paths; Above[x] is    *)
(* the set of its strict ancestors, PathRank the lexical order in which    *)
(* operations are sorted.  A source stands for a source path inside a      *)
(* cache root together with the hash of its content, so two entries agree  *)
(* on path and hash exactly when they are the same source.                 *)
(***************************************************************************)
EXTENDS Naturals, FiniteSets

CONSTANTS
    Paths,      \* every position a target tree can hold an entry at
    Artifacts,  \* the positions that are artifact ids
    Above,      \* strict ancestors of each path
    PathRank,   \* lexical order of paths; an ancestor sorts first
    Sources,    \* (source path, content hash) pairs
    Caches,     \* cache roots, one per authority
    CacheOf,    \* the cache root a source lies in
    Unsafe,     \* sources that are missing, not directories or symlinked
    Makers,     \* who may have made a tree entry (link identity)
    NoSource, NoCache, NoFile

ASSUME PlannerAssumption ==
    /\ Artifacts \subseteq Paths
    /\ Above \in [Paths -> SUBSET Paths]
    /\ PathRank \in [Paths -> Nat]
    /\ \A x \in Paths : \A y \in Above[x] :
          PathRank[y] < PathRank[x] /\ Above[y] \subseteq Above[x]
    /\ CacheOf \in [Sources -> Caches]
    /\ Unsafe \subseteq Sources
    /\ NoSource \notin Sources
    /\ NoCache \notin Caches

Kinds == {"absent", "dir", "file", "link"}

(* An entry of a tree: its kind, the target of a link, and its maker, which *)
(* stands for the (st_dev, st_ino) identity the rollback compares.          *)
Node == [kind : Kinds, to : Sources \cup {NoSource}, by : Makers]

(* The part of an entry that a scan reports and a fingerprint covers.       *)
Shape == [kind : Kinds, to : Sources \cup {NoSource}]

Nothing == [kind |-> "absent", to |-> NoSource]

(* A set of links: the source each artifact is linked to, or NoSource.      *)
Links == [Artifacts -> Sources \cup {NoSource}]
NoLinks == [x \in Artifacts |-> NoSource]

(* The content of managed.json.                                             *)
Record == [cache : Caches, entries : Links]

ASSUME RecordAssumption == NoFile \notin Record

(* The manager namespace .skill-delegator of one root.                      *)
Namespace == [exists : BOOLEAN, managed : Record \cup {NoFile}, failure : BOOLEAN]
NoNamespace == [exists |-> FALSE, managed |-> NoFile, failure |-> FALSE]

(* CurrentTargetState without the constant id and root.                     *)
View == [exists : BOOLEAN, cache : Caches \cup {NoCache},
         entries : Links, unmanaged : [Paths -> Shape]]

------------------------------------------------------------------------------
(* _parse_managed, first half: what the namespace records, and whether it   *)
(* can be read at all.  A namespace without managed.json is accepted only   *)
(* beside a well formed failure receipt.                                    *)
RecordReadable(n) == ~n.exists \/ n.managed # NoFile \/ n.failure

HasRecord(n) == n.exists /\ n.managed # NoFile
RecordedCache(n) == IF HasRecord(n) THEN n.managed.cache ELSE NoCache
RecordedLinks(n) == IF HasRecord(n) THEN n.managed.entries ELSE NoLinks

(* _parse_managed, second half: every recorded link is confined by real     *)
(* directories, is a symlink, and points at its recorded, existing source.  *)
LinksSound(entries, nodes) ==
    \A x \in Artifacts : entries[x] # NoSource =>
        /\ entries[x] \notin Unsafe
        /\ \A y \in Above[x] : nodes[y].kind = "dir"
        /\ nodes[x].kind = "link"
        /\ nodes[x].to = entries[x]

(* _scan_unmanaged: everything in the tree that no recorded link accounts   *)
(* for, the directories above managed links included.                       *)
Managed(entries) == {x \in Artifacts : entries[x] # NoSource}
Unmanaged(entries, nodes) ==
    [x \in Paths |-> IF x \in Managed(entries) THEN Nothing
                     ELSE [kind |-> nodes[x].kind, to |-> nodes[x].to]]

AbsentView == [exists |-> FALSE, cache |-> NoCache, entries |-> NoLinks,
               unmanaged |-> [x \in Paths |-> Nothing]]

Scannable(n, nodes) == RecordReadable(n) /\ LinksSound(RecordedLinks(n), nodes)

(* scan_target on an existing root that is Scannable.                       *)
Scan(n, nodes) == [exists |-> TRUE, cache |-> RecordedCache(n),
                   entries |-> RecordedLinks(n),
                   unmanaged |-> Unmanaged(RecordedLinks(n), nodes)]

(* _fresh_fingerprint: the view of a root under lock, with the effects of   *)
(* preparing the transaction (a created root, an initial empty record)      *)
(* taken out again.                                                         *)
AsReviewed(view, created, initialized) ==
    [view EXCEPT !.exists = ~created,
                 !.cache = IF initialized THEN NoCache ELSE @,
                 !.entries = IF initialized THEN NoLinks ELSE @]

------------------------------------------------------------------------------
(* build_plan for one target.                                               *)
SourceUsable(s, cache) == s \notin Unsafe /\ CacheOf[s] = cache

AnyCache(view, cache) == FALSE  \* mutant: the recorded cache root is not compared
ForeignCache(view, cache) == view.cache \notin {NoCache, cache}

NestedDesired(want) ==
    \E x \in Managed(want) : \E y \in Managed(want) : y \in Above[x]

(* The desired path is taken by an unmanaged entry, or one of its parents   *)
(* is an unmanaged entry that is not a directory.                           *)
Obstructed(view, x) ==
    \/ view.unmanaged[x].kind # "absent"
    \/ \E y \in Above[x] : view.unmanaged[y].kind \notin {"absent", "dir"}

Blocked(view, want, cache) ==
    \/ ForeignCache(view, cache)
    \/ NestedDesired(want)
    \/ \E x \in Managed(want) : ~SourceUsable(want[x], cache) \/ Obstructed(view, x)

(* The mutation an artifact needs; KEEP and PRESERVE_UNMANAGED change       *)
(* nothing and are not operations of the transaction.                       *)
Action(view, want, x) ==
    CASE view.entries[x] = want[x] -> "KEEP"
      [] view.entries[x] = NoSource /\ want[x] # NoSource -> "CREATE"
      [] view.entries[x] # NoSource /\ want[x] = NoSource -> "REMOVE"
      [] OTHER -> "REPLACE"

Mutations(view, want) == {x \in Artifacts : Action(view, want, x) # "KEEP"}
==============================================================================
