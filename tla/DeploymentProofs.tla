-------------------------- MODULE DeploymentProofs --------------------------
(***************************************************************************)
(* From source to links, for any number of commands, targets and skills.   *)
(*                                                                         *)
(* A snapshot shows its source: bytes that a file had and lost do not      *)
(* return, so what both walks read was there all the time between the two  *)
(* reads.  The moment at which the second walk lists the root lies between *)
(* them for every file, and the moment at which it lists a directory for   *)
(* every file of that directory; and of a directory it also knows at that  *)
(* moment which files are absent.  The rules were read between the two     *)
(* reads of the ignore file, so they are the rules of the snapshot.        *)
(*                                                                         *)
(* Links show snapshots: what an apply loaded was on disk and resolved     *)
(* when it was loaded, and neither changes afterwards; its plan is those   *)
(* links.  While it is at work each link of its targets is the old or the  *)
(* new one, and both revisions are keys of the cache, from which nothing   *)
(* is removed.  A target that nobody works on, and at which nobody was     *)
(* killed, links what its record names.                                    *)
(***************************************************************************)
EXTENDS DeploymentProperties, TLAPS

------------------------------------------------------------------------------
(* The resolvers beside the editor.                                         *)
(* b, once read from f, is what tree s has there, unless it is lost.        *)
Kept(f, b, s) == b = NoContent \/ s[f] = b \/ b \in past[f]

(* Moment s goes with the second walk of r on files F.                      *)
Agrees(r, s, F) ==
    \A f \in F : /\ Kept(f, revision[r][f], s)
                 /\ got[r][f] # NoContent /\ got[r][f] = revision[r][f] => s[f] = got[r][f]
Lists(r, s, F) == \A f \in F : f \in names[r] <=> s[f] # NoContent

NothingReturns == source \in held /\ \A f \in Files : source[f] \notin past[f]
ReadFromSource(r) ==
    \A f \in Files : Kept(f, got[r][f], source) /\ Kept(f, revision[r][f], source)

Walking(r) == pc[r] \in {"rules", "walk", "publish"}
WalkProgress(r) == Walking(r) =>
    /\ \A f \in Files \ names[r] : got[r][f] = NoContent
    /\ \A f \in names[r] : f \in todo[r] \/ f \in Hidden(rules[r]) \/ got[r][f] # NoContent
    /\ \A f \in Files \cap Hidden(rules[r]) : got[r][f] = NoContent
    /\ \A f \in Files \cap todo[r] : f \in names[r] /\ In[f] \in {Root, here[r]}
    /\ \A d \in Dirs : d \in todo[r] \/ d \in Hidden(rules[r]) => names[r] \cap FilesIn(d) = {}
    /\ pc[r] = "rules" => /\ Dirs \subseteq todo[r] /\ Ignore \in names[r]
                          /\ got[r] = Empty /\ names[r] \subseteq todo[r]
    /\ pc[r] # "rules" => (Ignore \in names[r] <=> rules[r] # NoContent)
    /\ pc[r] = "publish" => todo[r] = {} /\ walk[r] = "copy"

Reached(r) == {Root} \cup (Dirs \ (todo[r] \cup Hidden(rules[r])))
CopyProgress(r) == Walking(r) /\ walk[r] = "copy" =>
    /\ \E s \in held : Agrees(r, s, Files)
    /\ \A d \in Reached(r) : \E s \in held : Agrees(r, s, FilesIn(d)) /\ Lists(r, s, FilesIn(d))
    /\ pc[r] # "rules" => \/ revision[r][Ignore] \in {NoContent, rules[r]}
                          \/ revision[r][Ignore] \in past[Ignore]
    /\ got[r][Ignore] # NoContent /\ got[r][Ignore] = revision[r][Ignore] =>
          rules[r] = revision[r][Ignore]

ResolvedIsCached(r) ==
    pc[r] = "resolved" => [key |-> revision[r], tree |-> revision[r]] \in cache

ResolverInv(r) == ReadFromSource(r) /\ WalkProgress(r) /\ CopyProgress(r) /\ ResolvedIsCached(r)

SourceInv == NothingReturns /\ (\A r \in Resolvers : ResolverInv(r)) /\ SnapshotsHeld

------------------------------------------------------------------------------
(* Types of the source, the cache and the resolvers.                        *)
LEMMA SourceTypesInit == SourceInit => SourceTypeOK
BY SourceAssumption DEF SourceInit, SourceTypeOK, Tree, Bytes, Empty, Visible, Hidden

LEMMA LeaveTypes ==
    ASSUME SourceTypeOK, NEW r \in Resolvers, NEW how \in {"failed", "done"}, Leave(r, how),
           UNCHANGED <<world, cache>>
    PROVE  SourceTypeOK'
BY DEF SourceTypeOK, Leave, Goto, world, Tree, Bytes, Empty

LEMMA BeginTypes ==
    ASSUME SourceTypeOK, NEW r \in Resolvers, BeginResolve(r)
    PROVE  SourceTypeOK'
BY DEF SourceTypeOK, BeginResolve, Goto, world, place

LEMMA ResolveTypes ==
    ASSUME SourceTypeOK, NEW r \in Resolvers, ResolveStep(r)
    PROVE  SourceTypeOK'
<1>1. CASE ListRoot(r)
      BY <1>1, SourceAssumption
      DEF SourceTypeOK, ListRoot, Goto, Listed, FilesIn, world, Tree, Bytes, Empty
<1>2. CASE ReadRules(r)
      BY <1>2, SourceAssumption DEF SourceTypeOK, ReadRules, Goto, world, Tree, Bytes
<1>3. CASE VisitFile(r)
  <2>1. PICK f \in Files : /\ todo' = [todo EXCEPT ![r] = @ \ {f}]
                           /\ got' = got \/ got' = [got EXCEPT ![r][f] = source[f]]
        BY <1>3 DEF VisitFile
  <2>2. source[f] \in Bytes BY DEF SourceTypeOK, Tree
  <2>3. [got[r] EXCEPT ![f] = source[f]] \in Tree BY <2>2 DEF SourceTypeOK, Tree
  <2>5. got' = got \/ got' = [got EXCEPT ![r] = [got[r] EXCEPT ![f] = source[f]]] BY <2>1
  <2>6. got' \in [Resolvers -> Tree] BY <2>3, <2>5 DEF SourceTypeOK
  <2>4. todo' \in [Resolvers -> SUBSET (Files \cup Dirs)] BY <2>1 DEF SourceTypeOK
  <2> QED BY <1>3, <2>6, <2>4 DEF SourceTypeOK, VisitFile, world
<1>4. CASE VisitDirectory(r)
  <2>1. PICK d \in Dirs :
          \/ /\ todo' = [todo EXCEPT ![r] = @ \ {d}]
             /\ UNCHANGED <<here, opened, names>>
          \/ /\ here' = [here EXCEPT ![r] = d]
             /\ opened' = [opened EXCEPT ![r] = stamp[d]]
             /\ names' = [names EXCEPT ![r] = @ \cup Listed(d)]
             /\ todo' = [todo EXCEPT ![r] = (@ \ {d}) \cup Listed(d)]
        BY <1>4 DEF VisitDirectory
  <2>2. Listed(d) \subseteq Files /\ stamp[d] \in Nat BY DEF Listed, FilesIn, SourceTypeOK
  <2>3. todo' \in [Resolvers -> SUBSET (Files \cup Dirs)] BY <2>1, <2>2 DEF SourceTypeOK
  <2>4. /\ here' \in [Resolvers -> Dirs \cup {Root}] /\ opened' \in [Resolvers -> Nat]
        /\ names' \in [Resolvers -> SUBSET Files]
        BY <2>1, <2>2 DEF SourceTypeOK
  <2> QED BY <1>4, <2>3, <2>4 DEF SourceTypeOK, VisitDirectory, world
<1>5. CASE LeaveDirectory(r) BY <1>5 DEF SourceTypeOK, LeaveDirectory, world
<1>6. CASE EndWalk(r) BY <1>6 DEF SourceTypeOK, EndWalk, Goto, world, place
<1>7. CASE ProbeCache(r) BY <1>7 DEF SourceTypeOK, ProbeCache, Goto, world, place
<1>8. CASE PublishSnapshot(r)
      BY <1>8 DEF SourceTypeOK, PublishSnapshot, Goto, world, place
<1>9. CASE FailResolve(r) BY <1>9, LeaveTypes DEF FailResolve
<1> QED BY <1>1, <1>2, <1>3, <1>4, <1>5, <1>6, <1>7, <1>8, <1>9 DEF ResolveStep

LEMMA WriteTypes ==
    ASSUME SourceTypeOK, NEW f \in Files, WriteSource(f)
    PROVE  SourceTypeOK'
<1>1. PICK b \in Writes(f) \ {source[f]} :
          /\ source' = [source EXCEPT ![f] = b]
          /\ held' = held \cup {source'}
          /\ past' = [past EXCEPT ![f] = @ \cup ({source[f]} \ {NoContent})]
          /\ stamp' = IF In[f] # Root /\ NoContent \in {b, source[f]}
                      THEN [stamp EXCEPT ![In[f]] = @ + 1] ELSE stamp
      BY DEF WriteSource
<1>2. b \in Bytes /\ source[f] \in Bytes BY DEF Writes, Bytes, SourceTypeOK, Tree
<1>3. source' \in Tree BY <1>1, <1>2 DEF SourceTypeOK, Tree
<1>4. past' \in [Files -> SUBSET Contents] BY <1>1, <1>2 DEF SourceTypeOK, Bytes
<1>5. stamp' \in [Dirs -> Nat]
  <2>1. CASE In[f] \in Dirs
    <3>1. stamp[In[f]] + 1 \in Nat BY <2>1 DEF SourceTypeOK
    <3>2. [stamp EXCEPT ![In[f]] = @ + 1] \in [Dirs -> Nat] BY <3>1 DEF SourceTypeOK
    <3> QED BY <1>1, <3>2 DEF SourceTypeOK
  <2>2. CASE In[f] = Root BY <1>1, <2>2 DEF SourceTypeOK
  <2> QED BY <2>1, <2>2, SourceAssumption
<1>6. writes' \in Nat BY DEF WriteSource, SourceTypeOK
<1> QED BY <1>1, <1>3, <1>4, <1>5, <1>6 DEF SourceTypeOK, WriteSource, place

------------------------------------------------------------------------------
(* A resolver that takes no step keeps its part, while others publish.      *)
Untouched(q) ==
    /\ pc'[q] = pc[q] /\ walk'[q] = walk[q] /\ here'[q] = here[q] /\ names'[q] = names[q]
    /\ todo'[q] = todo[q] /\ rules'[q] = rules[q] /\ got'[q] = got[q]
    /\ revision'[q] = revision[q]

LEMMA UntouchedInv ==
    ASSUME NEW q \in Resolvers, ResolverInv(q), Untouched(q), UNCHANGED world,
           cache \subseteq cache'
    PROVE  ResolverInv(q)'
<1>1. ReadFromSource(q)' BY DEF ResolverInv, ReadFromSource, Kept, Untouched, world
<1>2. WalkProgress(q)'
      BY DEF ResolverInv, WalkProgress, Walking, Untouched
<1>3. CopyProgress(q)'
  <2> SUFFICES ASSUME Walking(q), walk[q] = "copy"
               PROVE  CopyProgress(q)'
      BY DEF CopyProgress, Walking, Untouched
  <2>1. Reached(q)' = Reached(q) BY DEF Reached, Untouched
  <2>2. \A s, F : /\ Agrees(q, s, F) => Agrees(q, s, F)'
                  /\ Lists(q, s, F) => Lists(q, s, F)'
        BY DEF Agrees, Lists, Kept, Untouched, world
  <2>3. CopyProgress(q) BY DEF ResolverInv
  <2>4. (\E s \in held : Agrees(q, s, Files))'
        BY <2>2, <2>3 DEF CopyProgress, world
  <2>5. (\A d \in Reached(q) : \E s \in held :
             Agrees(q, s, FilesIn(d)) /\ Lists(q, s, FilesIn(d)))'
    <3>1. \A d : FilesIn(d)' = FilesIn(d) BY DEF FilesIn
    <3> QED BY <2>1, <2>2, <2>3, <3>1 DEF CopyProgress, world
  <2> QED BY <2>3, <2>4, <2>5 DEF CopyProgress, Untouched, world
<1>4. ResolvedIsCached(q)' BY DEF ResolverInv, ResolvedIsCached, Untouched
<1> QED BY <1>1, <1>2, <1>3, <1>4 DEF ResolverInv

(* What a resolver holds when it is not walking claims nothing.             *)
LEMMA RestInv ==
    ASSUME NEW r \in Resolvers, ~Walking(r)', pc'[r] # "resolved", ReadFromSource(r)'
    PROVE  ResolverInv(r)'
BY DEF ResolverInv, WalkProgress, CopyProgress, ResolvedIsCached

LEMMA LeaveInv ==
    ASSUME SourceTypeOK, NEW r \in Resolvers, NEW how \in {"failed", "done"}, Leave(r, how)
    PROVE  ResolverInv(r)'
<1>1. pc'[r] = how /\ got'[r] = Empty /\ revision'[r] = Empty
      BY DEF Leave, Goto, SourceTypeOK
<1>2. ~Walking(r)' /\ pc'[r] # "resolved" BY <1>1 DEF Walking
<1>3. ReadFromSource(r)' BY <1>1 DEF ReadFromSource, Kept, Empty
<1> QED BY <1>2, <1>3, RestInv

------------------------------------------------------------------------------
(* The first listing starts the second walk at a moment that fits all the   *)
(* first one read.                                                          *)
LEMMA ListRootInv ==
    ASSUME SourceTypeOK, NothingReturns, NEW r \in Resolvers, ResolverInv(r), ListRoot(r)
    PROVE  ResolverInv(r)'
<1>1. /\ names'[r] = Listed(Root) /\ todo'[r] = Listed(Root) \cup Dirs
      /\ rules'[r] = NoContent /\ got'[r] = Empty /\ here'[r] = Root
      /\ pc'[r] = IF Ignore \in Listed(Root) THEN "rules" ELSE "walk"
      /\ revision'[r] = revision[r] /\ walk'[r] = walk[r]
      /\ UNCHANGED world
      BY DEF ListRoot, Goto, SourceTypeOK
<1>2. ReadFromSource(r)'
      BY <1>1 DEF ReadFromSource, ResolverInv, Kept, Empty, world
<1>3. \A f \in Files : got'[r][f] = NoContent BY <1>1 DEF Empty
<1>4. Listed(Root) \subseteq FilesIn(Root) /\ Hidden(rules'[r]) = {}
      BY <1>1 DEF Listed, Hidden
<1>5. \A d \in Dirs : FilesIn(d) \cap FilesIn(Root) = {} BY SourceAssumption DEF FilesIn
<1>6. WalkProgress(r)'
  <2>1. \A f \in Files \cap todo'[r] : f \in names'[r] /\ In[f] \in {Root, here'[r]}
        BY <1>1, <1>4, SourceAssumption DEF FilesIn
  <2>2. \A d \in Dirs : d \in todo'[r] \/ d \in Hidden(rules'[r]) => names'[r] \cap FilesIn(d) = {}
        BY <1>1, <1>4, <1>5
  <2>3. FilesIn(Root) \subseteq Files BY DEF FilesIn
  <2> QED BY <1>1, <1>3, <1>4, <2>1, <2>2, <2>3 DEF WalkProgress, Walking, FilesIn
<1>7. CopyProgress(r)'
  <2>1. Reached(r)' = {Root} BY <1>1 DEF Reached
  <2>2. source \in held' BY <1>1 DEF NothingReturns, world
  <2>3. Agrees(r, source, Files)'
        BY <1>1, <1>3 DEF Agrees, ResolverInv, ReadFromSource, Kept, world
  <2>4. Agrees(r, source, FilesIn(Root))' /\ Lists(r, source, FilesIn(Root))'
        BY <2>3, <1>1 DEF Agrees, FilesIn, Lists, Listed, world
  <2>5. pc'[r] = "walk" => \/ revision'[r][Ignore] \in {NoContent, rules'[r]}
                           \/ revision'[r][Ignore] \in past'[Ignore]
    <3>1. SUFFICES ASSUME Ignore \notin Listed(Root), revision[r][Ignore] # NoContent
                   PROVE  revision[r][Ignore] \in past[Ignore]
          BY <1>1 DEF world
    <3>2. source[Ignore] = NoContent BY <3>1, SourceAssumption DEF Listed, FilesIn
    <3> QED BY <3>1, <3>2, SourceAssumption DEF ResolverInv, ReadFromSource, Kept
  <2>6. got'[r][Ignore] = NoContent BY <1>3, SourceAssumption
  <2>7. source' = source BY <1>1 DEF world
  <2> QED BY <1>1, <2>1, <2>2, <2>3, <2>4, <2>5, <2>6, <2>7 DEF CopyProgress, Walking
<1>8. ResolvedIsCached(r)' BY <1>1 DEF ResolvedIsCached
<1> QED BY <1>2, <1>6, <1>7, <1>8 DEF ResolverInv

(* The rules are bytes between the two reads of the ignore file.            *)
LEMMA ReadRulesInv ==
    ASSUME SourceTypeOK, NEW r \in Resolvers, ResolverInv(r), ReadRules(r)
    PROVE  ResolverInv(r)'
<1>1. /\ pc[r] = "rules" /\ pc'[r] = "walk"
      /\ rules'[r] = source[Ignore] /\ rules'[r] # NoContent
      /\ UNCHANGED <<world, walk, here, names, todo, got, revision>>
      BY DEF ReadRules, Goto, SourceTypeOK
<1>2. WalkProgress(r) /\ CopyProgress(r) BY DEF ResolverInv
<1>3. got[r] = Empty /\ Dirs \subseteq todo[r] /\ Ignore \in names[r] /\ names[r] \subseteq todo[r]
      BY <1>1, <1>2 DEF WalkProgress, Walking
<1>4. ReadFromSource(r)' BY <1>1 DEF ResolverInv, ReadFromSource, Kept, world
<1>5. WalkProgress(r)'
      BY <1>1, <1>2, <1>3 DEF WalkProgress, Walking, Empty, FilesIn
<1>6. CopyProgress(r)'
  <2> SUFFICES ASSUME walk[r] = "copy" PROVE CopyProgress(r)'
      BY <1>1 DEF CopyProgress
  <2>1. Reached(r)' = {Root} /\ Reached(r) = {Root} BY <1>1, <1>3 DEF Reached
  <2>2. \A s, F : /\ Agrees(r, s, F) => Agrees(r, s, F)'
                  /\ Lists(r, s, F) => Lists(r, s, F)'
        BY <1>1 DEF Agrees, Lists, Kept, world
  <2>3. \A d : FilesIn(d)' = FilesIn(d) BY DEF FilesIn
  <2>4. \/ revision'[r][Ignore] \in {NoContent, rules'[r]}
        \/ revision'[r][Ignore] \in past'[Ignore]
        BY <1>1, SourceAssumption DEF ResolverInv, ReadFromSource, Kept, world
  <2>5. got'[r][Ignore] = NoContent BY <1>1, <1>3, SourceAssumption DEF Empty
  <2> QED BY <1>1, <1>2, <2>1, <2>2, <2>3, <2>4, <2>5 DEF CopyProgress, Walking, world
<1>7. ResolvedIsCached(r)' BY <1>1 DEF ResolvedIsCached
<1> QED BY <1>4, <1>5, <1>6, <1>7 DEF ResolverInv

(* What a file holds now is not lost: if it is what the first walk read, it *)
(* was there at every moment in between.                                    *)
LEMMA VisitFileInv ==
    ASSUME SourceTypeOK, NothingReturns, NEW r \in Resolvers, ResolverInv(r), VisitFile(r)
    PROVE  ResolverInv(r)'
<1>1. PICK f \in Files :
        /\ f \in todo[r]
        /\ todo' = [todo EXCEPT ![r] = @ \ {f}]
        /\ \/ f \in Hidden(rules[r]) /\ UNCHANGED got
           \/ /\ f \notin Hidden(rules[r]) /\ source[f] # NoContent
              /\ got' = [got EXCEPT ![r][f] = source[f]]
      BY DEF VisitFile, Turn, Left
<1>2. /\ pc[r] = "walk" /\ pc'[r] = "walk" /\ todo'[r] = todo[r] \ {f}
      /\ UNCHANGED <<world, walk, here, names, rules, revision>>
      BY <1>1 DEF VisitFile, SourceTypeOK
<1>3. /\ \A g \in Files \ {f} : got'[r][g] = got[r][g]
      /\ got'[r][f] = got[r][f] \/ (f \notin Hidden(rules[r]) /\ got'[r][f] = source[f])
      /\ f \in Hidden(rules[r]) \/ got'[r][f] # NoContent
  <2>1. f \in DOMAIN got[r] /\ r \in DOMAIN got
    <3>1. got[r] \in Tree /\ DOMAIN got = Resolvers BY DEF SourceTypeOK
    <3> QED BY <1>1, <3>1 DEF Tree
  <2>2. CASE f \in Hidden(rules[r]) /\ UNCHANGED got BY <2>2
  <2>3. CASE /\ f \notin Hidden(rules[r]) /\ source[f] # NoContent
             /\ got' = [got EXCEPT ![r][f] = source[f]]
    <3>1. got'[r] = [got[r] EXCEPT ![f] = source[f]] BY <2>1, <2>3
    <3> QED BY <2>1, <2>3, <3>1 DEF SourceTypeOK, Tree
  <2> QED BY <1>1, <2>2, <2>3
<1>4. WalkProgress(r) /\ CopyProgress(r) /\ ReadFromSource(r) BY DEF ResolverInv
<1>5. ReadFromSource(r)' BY <1>2, <1>3, <1>4 DEF ReadFromSource, Kept, world
<1>6. f \in names[r]
      BY <1>2, <1>4, <1>1 DEF WalkProgress, Walking
<1>7. WalkProgress(r)'
  <2>1. WalkProgress(r)!2 BY <1>2, <1>4 DEF WalkProgress, Walking
  <2>2. \A g \in Files \ names'[r] : got'[r][g] = NoContent BY <1>2, <1>3, <1>6, <2>1
  <2>3. \A g \in names'[r] : g \in todo'[r] \/ g \in Hidden(rules'[r]) \/ got'[r][g] # NoContent
    <3>1. names[r] \subseteq Files BY DEF SourceTypeOK
    <3>2. TAKE g \in names'[r]
    <3>3. CASE g = f BY <3>3, <1>2, <1>3
    <3>4. CASE g # f BY <3>1, <3>2, <3>4, <1>2, <1>3, <2>1
    <3> QED BY <3>3, <3>4
  <2>4. \A g \in Files \cap Hidden(rules'[r]) : got'[r][g] = NoContent BY <1>2, <1>3, <2>1
  <2>5. \A g \in Files \cap todo'[r] : g \in names'[r] /\ In[g] \in {Root, here'[r]}
        BY <1>2, <2>1
  <2>6. \A d \in Dirs : d \in todo'[r] \/ d \in Hidden(rules'[r]) => names'[r] \cap FilesIn(d)' = {}
        BY <1>2, <2>1 DEF FilesIn
  <2> QED BY <1>2, <2>1, <2>2, <2>3, <2>4, <2>5, <2>6 DEF WalkProgress
<1>8. CopyProgress(r)'
  <2> SUFFICES ASSUME walk[r] = "copy" PROVE CopyProgress(r)'
      BY <1>2 DEF CopyProgress
  <2>1. Reached(r)' = Reached(r) BY <1>2, SourceAssumption DEF Reached
  <2>2. ASSUME NEW s, NEW F \in SUBSET Files, Agrees(r, s, F) PROVE Agrees(r, s, F)'
        BY <2>2, <1>2, <1>3 DEF Agrees, Kept, NothingReturns, world
  <2>3. \A s, F : Lists(r, s, F) => Lists(r, s, F)' BY <1>2 DEF Lists
  <2>4. \A d : FilesIn(d)' = FilesIn(d) /\ FilesIn(d) \subseteq Files BY DEF FilesIn
  <2>5. got'[r][Ignore] # NoContent /\ got'[r][Ignore] = revision'[r][Ignore] =>
            rules'[r] = revision'[r][Ignore]
    <3>1. CASE f = Ignore /\ got'[r][f] = source[f]
          BY <3>1, <1>2, <1>4 DEF CopyProgress, Walking, NothingReturns, world
    <3>2. CASE got'[r][Ignore] = got[r][Ignore]
          BY <3>2, <1>2, <1>4 DEF CopyProgress, Walking
    <3> QED BY <3>1, <3>2, <1>3, SourceAssumption
  <2>6. /\ (\E s \in held : Agrees(r, s, Files))'
        /\ (\A d \in Reached(r) : \E s \in held :
               Agrees(r, s, FilesIn(d)) /\ Lists(r, s, FilesIn(d)))'
        BY <1>2, <1>4, <2>1, <2>2, <2>3, <2>4 DEF CopyProgress, Walking, world
  <2> QED BY <1>2, <1>4, <2>5, <2>6 DEF CopyProgress, Walking, world
<1>9. ResolvedIsCached(r)' BY <1>2 DEF ResolvedIsCached
<1> QED BY <1>5, <1>7, <1>8, <1>9 DEF ResolverInv

(* A directory below the root gets its moment when it is entered.           *)
LEMMA VisitDirectoryInv ==
    ASSUME SourceTypeOK, NothingReturns, NEW r \in Resolvers, ResolverInv(r), VisitDirectory(r)
    PROVE  ResolverInv(r)'
<1>1. PICK d \in Dirs :
        /\ d \in todo[r] /\ here[r] = Root
        /\ \/ /\ d \in Hidden(rules[r])
              /\ todo' = [todo EXCEPT ![r] = @ \ {d}]
              /\ UNCHANGED <<here, names>>
           \/ /\ d \notin Hidden(rules[r])
              /\ here' = [here EXCEPT ![r] = d]
              /\ names' = [names EXCEPT ![r] = @ \cup Listed(d)]
              /\ todo' = [todo EXCEPT ![r] = (@ \ {d}) \cup Listed(d)]
      BY DEF VisitDirectory, Turn, Left
<1>2. pc[r] = "walk" /\ UNCHANGED <<world, cache, pc, walk, rules, got, revision>>
      BY DEF VisitDirectory
<1>3. WalkProgress(r)!2 /\ CopyProgress(r) BY <1>2 DEF ResolverInv, WalkProgress, Walking
<1>4. ReadFromSource(r)' BY <1>2 DEF ResolverInv, ReadFromSource, Kept, world
<1>5. ResolvedIsCached(r)' BY <1>2 DEF ResolvedIsCached
<1>6. \A s, F : Agrees(r, s, F) => Agrees(r, s, F)' BY <1>2 DEF Agrees, Kept, world
<1>7. \A e : FilesIn(e)' = FilesIn(e) BY DEF FilesIn
<1>8. CASE d \in Hidden(rules[r])
  <2>1. /\ todo'[r] = todo[r] \ {d} /\ UNCHANGED <<here, names>>
        BY <1>1, <1>8 DEF SourceTypeOK
  <2>2. WalkProgress(r)'
    <3>1. \A f \in Files \cap todo'[r] : f \in names'[r] /\ In[f] \in {Root, here'[r]}
          BY <1>3, <2>1
    <3>2. \A f \in names'[r] : f \in todo'[r] \/ f \in Hidden(rules'[r]) \/ got'[r][f] # NoContent
      <4>1. d \notin names[r] BY <1>1, SourceAssumption DEF SourceTypeOK
      <4> QED BY <1>2, <1>3, <2>1, <4>1
    <3>3. \A e \in Dirs : e \in todo'[r] \/ e \in Hidden(rules'[r]) => names'[r] \cap FilesIn(e)' = {}
          BY <1>2, <1>3, <1>7, <2>1
    <3> QED BY <1>2, <1>3, <2>1, <3>1, <3>2, <3>3 DEF WalkProgress
  <2>3. Reached(r)' = Reached(r) BY <1>2, <1>8, <2>1 DEF Reached
  <2>4. \A s, F : Lists(r, s, F) => Lists(r, s, F)' BY <2>1 DEF Lists
  <2>5. CopyProgress(r)'
        BY <1>2, <1>3, <1>6, <1>7, <2>3, <2>4 DEF CopyProgress, Walking, world
  <2> QED BY <1>4, <1>5, <2>2, <2>5 DEF ResolverInv
<1>9. CASE d \notin Hidden(rules[r])
  <2>1. /\ here'[r] = d /\ names'[r] = names[r] \cup Listed(d)
        /\ todo'[r] = (todo[r] \ {d}) \cup Listed(d)
        BY <1>1, <1>9 DEF SourceTypeOK
  <2>2. Listed(d) \subseteq FilesIn(d) /\ names[r] \cap FilesIn(d) = {} /\ FilesIn(d) \subseteq Files
        BY <1>1, <1>3 DEF Listed, FilesIn
  <2>3. \A e \in (Dirs \cup {Root}) \ {d} : FilesIn(e) \cap FilesIn(d) = {} BY DEF FilesIn
  <2>4. d \notin Files /\ d # Root /\ \A f \in FilesIn(d) : In[f] = d
        BY SourceAssumption, <1>1 DEF FilesIn
  <2>5. WalkProgress(r)'
    <3>1. \A f \in Files \cap todo'[r] : f \in names'[r] /\ In[f] \in {Root, here'[r]}
          BY <1>1, <1>3, <2>1, <2>2, <2>4
    <3>2. \A f \in names'[r] : f \in todo'[r] \/ f \in Hidden(rules'[r]) \/ got'[r][f] # NoContent
      <4>1. names[r] \subseteq Files BY DEF SourceTypeOK
      <4> QED BY <1>2, <1>3, <2>1, <2>4, <4>1
    <3>3. \A e \in Dirs : e \in todo'[r] \/ e \in Hidden(rules'[r]) => names'[r] \cap FilesIn(e)' = {}
      <4>1. TAKE e \in Dirs
      <4>2. HAVE e \in todo'[r] \/ e \in Hidden(rules'[r])
      <4>3. e # d BY <1>2, <1>9, <2>1, <2>2, <2>4, <4>2
      <4>4. e \notin Listed(d) BY <2>2, <4>1, SourceAssumption
      <4>5. e \in todo[r] \/ e \in Hidden(rules[r]) BY <1>2, <2>1, <4>2, <4>4
      <4> QED BY <1>3, <1>7, <2>1, <2>2, <2>3, <4>1, <4>3, <4>5
    <3>4. Ignore \notin Listed(d) BY <2>2, <2>4, SourceAssumption
    <3>5. \A f \in Files \ names'[r] : got'[r][f] = NoContent BY <1>2, <1>3, <2>1
    <3> QED BY <1>2, <1>3, <2>1, <3>1, <3>2, <3>3, <3>4, <3>5 DEF WalkProgress
  <2>6. CopyProgress(r)'
    <3> SUFFICES ASSUME walk[r] = "copy" PROVE CopyProgress(r)'
        BY <1>2 DEF CopyProgress
    <3>1. Reached(r)' = Reached(r) \cup {d}
          BY <1>1, <1>2, <1>9, <2>1, <2>2, SourceAssumption DEF Reached
    <3>2. \A e \in Reached(r) \ {d} : \A s : Lists(r, s, FilesIn(e)) => Lists(r, s, FilesIn(e))'
          BY <1>7, <2>1, <2>2, <2>3 DEF Lists, Reached
    <3>3. d \notin Reached(r) BY <1>1, <2>4 DEF Reached
    <3>4. \A f \in FilesIn(d) : got'[r][f] = NoContent BY <1>2, <1>3, <2>2
    <3>5. Agrees(r, source, FilesIn(d))' /\ Lists(r, source, FilesIn(d))'
      <4>1. Agrees(r, source, FilesIn(d))'
            BY <1>2, <1>7, <2>2, <3>4 DEF Agrees, ResolverInv, ReadFromSource, Kept, world
      <4>2. Lists(r, source, FilesIn(d))'
            BY <1>2, <1>7, <2>1, <2>2 DEF Lists, Listed, world
      <4> QED BY <4>1, <4>2
    <3>6. source \in held' /\ source' = source BY <1>2 DEF NothingReturns, world
    <3>7. (\E s \in held : Agrees(r, s, Files))'
          BY <1>2, <1>3, <1>6 DEF CopyProgress, Walking, world
    <3>8. (\A e \in Reached(r) : \E s \in held :
               Agrees(r, s, FilesIn(e)) /\ Lists(r, s, FilesIn(e)))'
      <4>1. SUFFICES ASSUME NEW e \in Reached(r)'
                     PROVE  (\E s \in held : Agrees(r, s, FilesIn(e)) /\ Lists(r, s, FilesIn(e)))'
            OBVIOUS
      <4>2. CASE e = d BY <4>2, <3>5, <3>6
      <4>3. CASE e \in Reached(r)
        <5>1. PICK s \in held : Agrees(r, s, FilesIn(e)) /\ Lists(r, s, FilesIn(e))
              BY <1>2, <1>3, <4>3 DEF CopyProgress, Walking
        <5> QED BY <1>2, <1>6, <1>7, <3>2, <3>3, <4>3, <5>1 DEF world
      <4> QED BY <3>1, <4>1, <4>2, <4>3
    <3> QED BY <1>2, <1>3, <3>7, <3>8 DEF CopyProgress, Walking, world
  <2> QED BY <1>4, <1>5, <2>5, <2>6 DEF ResolverInv
<1> QED BY <1>8, <1>9

LEMMA LeaveDirectoryInv ==
    ASSUME SourceTypeOK, NEW r \in Resolvers, ResolverInv(r), LeaveDirectory(r)
    PROVE  ResolverInv(r)'
<1>1. /\ pc[r] = "walk" /\ here[r] \in Dirs /\ Left(r) = {} /\ here'[r] = Root
      /\ UNCHANGED <<world, cache, pc, walk, names, todo, rules, got, revision>>
      BY DEF LeaveDirectory, SourceTypeOK
<1>2. WalkProgress(r)!2 /\ CopyProgress(r) BY <1>1 DEF ResolverInv, WalkProgress, Walking
<1>3. ReadFromSource(r)' BY <1>1 DEF ResolverInv, ReadFromSource, Kept, world
<1>4. ResolvedIsCached(r)' BY <1>1 DEF ResolvedIsCached, ResolverInv
<1>5. \A f \in Files \cap todo[r] : In[f] = Root
      BY <1>1, <1>2, SourceAssumption DEF Left
<1>6. WalkProgress(r)'
      BY <1>1, <1>2, <1>5 DEF WalkProgress, Walking, FilesIn
<1>7. CopyProgress(r)'
  <2>1. \A s, F : Agrees(r, s, F)' = Agrees(r, s, F) /\ Lists(r, s, F)' = Lists(r, s, F)
        BY <1>1 DEF Agrees, Lists, Kept, world
  <2>2. Reached(r)' = Reached(r) BY <1>1 DEF Reached
  <2>3. \A d : FilesIn(d)' = FilesIn(d) BY DEF FilesIn
  <2> QED BY <1>1, <1>2, <2>1, <2>2, <2>3 DEF CopyProgress, Walking, world
<1> QED BY <1>3, <1>4, <1>6, <1>7 DEF ResolverInv

LEMMA EndWalkInv ==
    ASSUME SourceTypeOK, NEW r \in Resolvers, ResolverInv(r), EndWalk(r)
    PROVE  ResolverInv(r)'
<1>1. /\ pc[r] = "walk" /\ here[r] = Root /\ Left(r) = {}
      /\ UNCHANGED <<world, cache, walk, here, names, todo, rules, got>>
      /\ \/ walk[r] = "hash" /\ pc'[r] = "probe" /\ revision'[r] = got[r]
         \/ walk[r] # "hash" /\ pc'[r] = "publish" /\ revision'[r] = revision[r]
      BY DEF EndWalk, Goto, SourceTypeOK, place
<1>2. WalkProgress(r)!2 /\ CopyProgress(r) BY <1>1 DEF ResolverInv, WalkProgress, Walking
<1>3. ReadFromSource(r)' BY <1>1 DEF ResolverInv, ReadFromSource, Kept, world
<1>4. CASE walk[r] = "hash" BY <1>1, <1>3, <1>4, RestInv DEF Walking
<1>5. CASE walk[r] # "hash"
  <2>1. todo[r] = {}
        BY <1>1, <1>2, SourceAssumption DEF Left, SourceTypeOK
  <2>2. WalkProgress(r)'
        BY <1>1, <1>2, <1>5, <2>1 DEF WalkProgress, Walking, FilesIn, SourceTypeOK
  <2>3. CopyProgress(r)'
    <3>1. \A s, F : Agrees(r, s, F)' = Agrees(r, s, F) /\ Lists(r, s, F)' = Lists(r, s, F)
          BY <1>1, <1>5 DEF Agrees, Lists, Kept, world
    <3>2. Reached(r)' = Reached(r) BY <1>1 DEF Reached
    <3>3. \A d : FilesIn(d)' = FilesIn(d) BY DEF FilesIn
    <3> QED BY <1>1, <1>2, <1>5, <3>1, <3>2, <3>3 DEF CopyProgress, Walking, world
  <2>4. ResolvedIsCached(r)' BY <1>1, <1>5 DEF ResolvedIsCached
  <2> QED BY <1>3, <2>2, <2>3, <2>4 DEF ResolverInv
<1> QED BY <1>4, <1>5

LEMMA BeginInv ==
    ASSUME SourceTypeOK, NEW r \in Resolvers, ResolverInv(r), BeginResolve(r)
    PROVE  ResolverInv(r)'
<1>1. pc'[r] = "list" BY DEF BeginResolve, Goto, SourceTypeOK
<1>2. ReadFromSource(r)'
      BY DEF BeginResolve, ResolverInv, ReadFromSource, Kept, world, place
<1> QED BY <1>1, <1>2, RestInv DEF Walking

(* An entry that was found is the tree of its key.                          *)
LEMMA ProbeInv ==
    ASSUME SourceTypeOK, SnapshotsHeld, NEW r \in Resolvers, ResolverInv(r), ProbeCache(r)
    PROVE  ResolverInv(r)'
<1>1. /\ UNCHANGED <<world, cache, place, revision>>
      /\ \/ Cached(revision[r]) /\ pc'[r] = "resolved"
         \/ pc'[r] = "list"
      BY DEF ProbeCache, Goto, SourceTypeOK
<1>2. ReadFromSource(r)'
      BY <1>1 DEF ResolverInv, ReadFromSource, Kept, world, place
<1>3. CASE pc'[r] = "list" BY <1>2, <1>3, RestInv DEF Walking
<1>4. CASE Cached(revision[r]) /\ pc'[r] = "resolved"
  <2>1. PICK e \in cache : e.key = revision[r] BY <1>4 DEF Cached
  <2>2. e = [key |-> revision[r], tree |-> revision[r]]
        BY <2>1 DEF SnapshotsHeld, SourceTypeOK
  <2>3. ResolvedIsCached(r)' BY <1>1, <2>2 DEF ResolvedIsCached
  <2> QED BY <1>2, <1>4, <2>3 DEF ResolverInv, WalkProgress, CopyProgress, Walking
<1> QED BY <1>1, <1>3, <1>4

------------------------------------------------------------------------------
(* A staged tree that matches the first walk shows its source.              *)
LEMMA CopyShowsSource ==
    ASSUME SourceTypeOK, NothingReturns, NEW r \in Resolvers, ResolverInv(r),
           pc[r] = "publish", walk[r] = "copy", got[r] = revision[r]
    PROVE  FilesHeld(got[r]) /\ \A d \in Dirs \cup {Root} : PartHeld(got[r], d)
<1>1. WalkProgress(r)!2 /\ CopyProgress(r)!2
      BY DEF ResolverInv, WalkProgress, CopyProgress, Walking
<1>2. FilesHeld(got[r]) BY <1>1 DEF FilesHeld, Agrees
<1>3. Hidden(got[r][Ignore]) = Hidden(rules[r])
  <2>1. CASE Ignore \in names[r]
    <3>1. Ignore \notin Hidden(rules[r])
          BY SourceAssumption DEF Hidden, SourceTypeOK, Bytes
    <3> QED BY <1>1, <2>1, <3>1, SourceAssumption
  <2>2. CASE Ignore \notin names[r] BY <1>1, <2>2, SourceAssumption
  <2> QED BY <2>1, <2>2
<1>4. ASSUME NEW d \in Dirs \cup {Root} PROVE PartHeld(got[r], d)
  <2>1. CASE d \in Reached(r)
    <3>1. PICK s \in held : Agrees(r, s, FilesIn(d)) /\ Lists(r, s, FilesIn(d))
          BY <1>1, <2>1
    <3>2. ASSUME NEW f \in FilesIn(d)
          PROVE  got[r][f] = IF f \in Hidden(rules[r]) THEN NoContent ELSE s[f]
      <4>1. f \in Files BY DEF FilesIn
      <4>2. CASE f \in Hidden(rules[r]) BY <1>1, <4>1, <4>2
      <4>3. CASE f \notin Hidden(rules[r]) /\ f \in names[r]
        <5>1. got[r][f] # NoContent BY <1>1, <4>3
        <5> QED BY <3>1, <4>3, <5>1 DEF Agrees
      <4>4. CASE f \notin Hidden(rules[r]) /\ f \notin names[r]
            BY <1>1, <3>1, <4>1, <4>4 DEF Lists
      <4> QED BY <4>2, <4>3, <4>4
    <3> QED BY <1>3, <3>1, <3>2 DEF PartHeld
  <2>2. CASE d \notin Reached(r)
    <3>1. d \in Dirs /\ d \in Hidden(rules[r]) BY <1>1, <2>2 DEF Reached
    <3>2. \A f \in FilesIn(d) : f \in Hidden(rules[r]) /\ f \in Files
          BY <3>1, SourceAssumption DEF FilesIn, Hidden, SourceTypeOK, Bytes
    <3>3. \A f \in FilesIn(d) : got[r][f] = NoContent BY <1>1, <3>2
    <3> QED BY <1>3, <3>2, <3>3 DEF PartHeld, NothingReturns
  <2> QED BY <2>1, <2>2
<1> QED BY <1>2, <1>4

(* More trees have been held, and the snapshots stay what they are.         *)
LEMMA HeldGrows ==
    ASSUME held \subseteq held'
    PROVE  /\ \A tree : FilesHeld(tree) => FilesHeld(tree)'
           /\ \A tree, d : PartHeld(tree, d) => PartHeld(tree, d)'
BY DEF FilesHeld, PartHeld, FilesIn, Hidden

LEMMA SnapshotsKept ==
    ASSUME SnapshotsHeld, held \subseteq held', cache' \subseteq cache
    PROVE  SnapshotsHeld'
BY HeldGrows DEF SnapshotsHeld

LEMMA PublishInv ==
    ASSUME SourceTypeOK, NothingReturns, SnapshotsHeld, NEW r \in Resolvers, ResolverInv(r),
           PublishSnapshot(r)
    PROVE  ResolverInv(r)' /\ SnapshotsHeld'
<1>1. /\ pc[r] = "publish" /\ pc'[r] = "resolved" /\ got[r] = revision[r]
      /\ cache' = IF Cached(revision[r]) THEN cache
                  ELSE cache \cup {[key |-> revision[r], tree |-> got[r]]}
      /\ UNCHANGED <<world, walk, place, revision>>
      BY DEF PublishSnapshot, CopyMatches, Goto, SourceTypeOK
<1>2. FilesHeld(got[r]) /\ \A d \in Dirs \cup {Root} : PartHeld(got[r], d)
  <2>1. walk[r] = "copy" BY <1>1 DEF ResolverInv, WalkProgress, Walking
  <2> QED BY <1>1, <2>1, CopyShowsSource
<1>3. SnapshotsHeld'
  <2>1. \A e \in cache' : e \in cache \/ e = [key |-> revision[r], tree |-> got[r]]
        BY <1>1
  <2>2. held' = held BY <1>1 DEF world
  <2> QED BY <1>1, <1>2, <2>1, <2>2, HeldGrows DEF SnapshotsHeld
<1>4. [key |-> revision[r], tree |-> revision[r]] \in cache'
  <2>1. CASE Cached(revision[r])
    <3>1. PICK e \in cache : e.key = revision[r] BY <2>1 DEF Cached
    <3>2. e = [key |-> revision[r], tree |-> revision[r]]
          BY <3>1 DEF SnapshotsHeld, SourceTypeOK
    <3> QED BY <1>1, <2>1, <3>2
  <2>2. CASE ~Cached(revision[r]) BY <1>1, <2>2
  <2> QED BY <2>1, <2>2
<1>5. ReadFromSource(r)'
      BY <1>1 DEF ResolverInv, ReadFromSource, Kept, world, place
<1> QED BY <1>1, <1>3, <1>4, <1>5
        DEF ResolverInv, WalkProgress, CopyProgress, ResolvedIsCached, Walking

(* An edit loses bytes for good, and changes no moment that has been.       *)
LEMMA WriteInv ==
    ASSUME SourceTypeOK, SourceInv, NEW g \in Files, WriteSource(g)
    PROVE  SourceInv'
<1>1. PICK b \in Writes(g) \ {source[g]} :
        /\ source' = [source EXCEPT ![g] = b]
        /\ held' = held \cup {source'}
        /\ past' = [past EXCEPT ![g] = @ \cup ({source[g]} \ {NoContent})]
      BY DEF WriteSource
<1>2. UNCHANGED <<cache, pc, walk, place, revision>> BY DEF WriteSource
<1>3. /\ source'[g] = b /\ past'[g] = past[g] \cup ({source[g]} \ {NoContent})
      /\ \A f \in Files \ {g} : source'[f] = source[f] /\ past'[f] = past[f]
      BY <1>1 DEF SourceTypeOK, Tree
<1>4. held \subseteq held' /\ source' \in held' BY <1>1
<1>5. \A f \in Files : past[f] \subseteq past'[f] BY <1>3
<1>6. \A f \in Files : past[f] \subseteq Contents BY DEF SourceTypeOK
<1>7. NothingReturns'
  <2>1. source'[g] \notin past'[g]
        BY <1>1, <1>3, <1>6, SourceAssumption DEF Writes, SourceInv, NothingReturns
  <2> QED BY <1>3, <1>4, <2>1 DEF SourceInv, NothingReturns
<1>8. ASSUME NEW r \in Resolvers PROVE ResolverInv(r)'
  <2>1. ResolverInv(r) BY DEF SourceInv
  <2>2. ReadFromSource(r)'
    <3>1. \A f \in Files : \A c : Kept(f, c, source) => Kept(f, c, source)'
          BY <1>3, <1>5 DEF Kept
    <3> QED BY <1>2, <2>1, <3>1 DEF ResolverInv, ReadFromSource, place
  <2>3. WalkProgress(r)' BY <1>2, <2>1 DEF ResolverInv, WalkProgress, Walking, FilesIn, place
  <2>4. CopyProgress(r)'
    <3>1. \A s : \A F \in SUBSET Files : Agrees(r, s, F) => Agrees(r, s, F)'
          BY <1>2, <1>5 DEF Agrees, Kept, place
    <3>2. \A s, F : Lists(r, s, F) => Lists(r, s, F)' BY <1>2 DEF Lists, place
    <3>3. \A d : FilesIn(d)' = FilesIn(d) /\ FilesIn(d) \subseteq Files BY DEF FilesIn
    <3>4. Reached(r)' = Reached(r) BY <1>2 DEF Reached, place
    <3>5. SUFFICES ASSUME Walking(r), walk[r] = "copy" PROVE CopyProgress(r)'
          BY <1>2 DEF CopyProgress, Walking
    <3>6. CopyProgress(r)!2 BY <2>1, <3>5 DEF ResolverInv, CopyProgress
    <3>7. (\E s \in held : Agrees(r, s, Files))' BY <1>4, <3>1, <3>6
    <3>8. (\A d \in Reached(r) : \E s \in held :
               Agrees(r, s, FilesIn(d)) /\ Lists(r, s, FilesIn(d)))'
          BY <1>4, <3>1, <3>2, <3>3, <3>4, <3>6
    <3> QED BY <1>2, <1>5, <3>6, <3>7, <3>8, SourceAssumption DEF CopyProgress, place
  <2>5. ResolvedIsCached(r)' BY <1>2, <2>1 DEF ResolverInv, ResolvedIsCached
  <2> QED BY <2>2, <2>3, <2>4, <2>5 DEF ResolverInv
<1>9. SnapshotsHeld' BY <1>2, <1>4, SnapshotsKept DEF SourceInv
<1> QED BY <1>7, <1>8, <1>9 DEF SourceInv


------------------------------------------------------------------------------
(* The invariant of the system: a step is an edit, or one resolver's, and   *)
(* then the others are untouched while the cache may grow.                  *)
LEMMA InitInv == SourceInit => SourceInv
<1> SUFFICES ASSUME SourceInit PROVE SourceInv OBVIOUS
<1>1. SourceTypeOK BY SourceTypesInit
<1>2. NothingReturns BY DEF SourceInit, NothingReturns
<1>3. \A r \in Resolvers : ResolverInv(r)
      BY DEF SourceInit, ResolverInv, ReadFromSource, Kept, Empty, WalkProgress, CopyProgress,
             Walking, ResolvedIsCached
<1>4. ASSUME NEW e \in cache
      PROVE  e.key = e.tree /\ FilesHeld(e.tree) /\ \A d \in Dirs \cup {Root} : PartHeld(e.tree, d)
  <2>1. e.key = Visible(source) /\ e.tree = Visible(source) BY DEF SourceInit
  <2>2. e.tree[Ignore] = source[Ignore]
        BY <2>1, SourceAssumption, <1>1 DEF Visible, Hidden, SourceTypeOK, Tree, Bytes
  <2>3. FilesHeld(e.tree) BY <2>1, <1>2 DEF FilesHeld, Visible, NothingReturns
  <2>4. \A d \in Dirs \cup {Root} : PartHeld(e.tree, d)
        BY <2>1, <2>2, <1>2 DEF PartHeld, Visible, FilesIn, NothingReturns
  <2> QED BY <2>1, <2>3, <2>4
<1> QED BY <1>2, <1>3, <1>4 DEF SourceInv, SnapshotsHeld

(* One resolver steps: it changes neither the source nor another resolver,  *)
(* and takes nothing from the cache.                                        *)
LEMMA StepLeavesOthers ==
    ASSUME SourceTypeOK, NEW r \in Resolvers,
           \/ BeginResolve(r) \/ ResolveStep(r)
           \/ (\E how \in {"failed", "done"} : Leave(r, how)) /\ UNCHANGED <<world, cache>>
    PROVE  /\ UNCHANGED world /\ cache \subseteq cache'
           /\ \A q \in Resolvers \ {r} : Untouched(q)
<1>1. CASE BeginResolve(r) BY <1>1 DEF SourceTypeOK, BeginResolve, Goto, Untouched, place
<1>2. CASE ListRoot(r) BY <1>2 DEF SourceTypeOK, ListRoot, Goto, Untouched
<1>3. CASE ReadRules(r) BY <1>3 DEF SourceTypeOK, ReadRules, Goto, Untouched
<1>4. CASE VisitFile(r)
  <2>1. PICK f \in Files : /\ todo' = [todo EXCEPT ![r] = @ \ {f}]
                           /\ got' = got \/ got' = [got EXCEPT ![r][f] = source[f]]
        BY <1>4 DEF VisitFile
  <2>2. \A q \in Resolvers \ {r} : todo'[q] = todo[q] /\ got'[q] = got[q]
        BY <2>1 DEF SourceTypeOK
  <2> QED BY <1>4, <2>2 DEF VisitFile, Untouched
<1>5. CASE VisitDirectory(r)
  <2>1. PICK d \in Dirs :
          \/ /\ todo' = [todo EXCEPT ![r] = @ \ {d}]
             /\ UNCHANGED <<here, opened, names>>
          \/ /\ here' = [here EXCEPT ![r] = d]
             /\ opened' = [opened EXCEPT ![r] = stamp[d]]
             /\ names' = [names EXCEPT ![r] = @ \cup Listed(d)]
             /\ todo' = [todo EXCEPT ![r] = (@ \ {d}) \cup Listed(d)]
        BY <1>5 DEF VisitDirectory
  <2>2. \A q \in Resolvers \ {r} : todo'[q] = todo[q] /\ here'[q] = here[q] /\ names'[q] = names[q]
        BY <2>1 DEF SourceTypeOK
  <2> QED BY <1>5, <2>2 DEF VisitDirectory, Untouched
<1>6. CASE LeaveDirectory(r) BY <1>6 DEF SourceTypeOK, LeaveDirectory, Untouched
<1>7. CASE EndWalk(r) BY <1>7 DEF SourceTypeOK, EndWalk, Goto, Untouched, place
<1>8. CASE ProbeCache(r) BY <1>8 DEF SourceTypeOK, ProbeCache, Goto, Untouched, place
<1>9. CASE PublishSnapshot(r)
      BY <1>9 DEF SourceTypeOK, PublishSnapshot, Goto, Untouched, place
<1>10. CASE (\E how \in {"failed", "done"} : Leave(r, how)) /\ UNCHANGED <<world, cache>>
      BY <1>10 DEF SourceTypeOK, Leave, Goto, Untouched
<1>11. CASE FailResolve(r) BY <1>10, <1>11 DEF FailResolve
<1> QED BY <1>1, <1>2, <1>3, <1>4, <1>5, <1>6, <1>7, <1>8, <1>9, <1>10, <1>11 DEF ResolveStep

LEMMA StepInv ==
    ASSUME SourceTypeOK, SourceInv, NEW r \in Resolvers, BeginResolve(r) \/ ResolveStep(r)
    PROVE  SourceInv'
<1>1. /\ UNCHANGED world /\ cache \subseteq cache'
      /\ \A q \in Resolvers \ {r} : Untouched(q)
      BY StepLeavesOthers
<1>2. NothingReturns' BY <1>1 DEF SourceInv, NothingReturns, world
<1>3. \A q \in Resolvers \ {r} : ResolverInv(q)' BY <1>1, UntouchedInv DEF SourceInv
<1>4. NothingReturns /\ SnapshotsHeld /\ ResolverInv(r) BY DEF SourceInv
<1>5. ResolverInv(r)' /\ SnapshotsHeld'
  <2>1. CASE PublishSnapshot(r) BY <1>4, <2>1, PublishInv
  <2>2. ASSUME cache' = cache PROVE SnapshotsHeld' BY <1>1, <1>4, <2>2, SnapshotsKept DEF world
  <2>3. CASE BeginResolve(r) BY <1>4, <2>2, <2>3, BeginInv DEF BeginResolve
  <2>4. CASE ListRoot(r) BY <1>4, <2>2, <2>4, ListRootInv DEF ListRoot
  <2>5. CASE ReadRules(r) BY <1>4, <2>2, <2>5, ReadRulesInv DEF ReadRules
  <2>6. CASE VisitFile(r) BY <1>4, <2>2, <2>6, VisitFileInv DEF VisitFile
  <2>7. CASE VisitDirectory(r) BY <1>4, <2>2, <2>7, VisitDirectoryInv DEF VisitDirectory
  <2>8. CASE LeaveDirectory(r) BY <1>4, <2>2, <2>8, LeaveDirectoryInv DEF LeaveDirectory
  <2>9. CASE EndWalk(r) BY <1>4, <2>2, <2>9, EndWalkInv DEF EndWalk
  <2>10. CASE ProbeCache(r) BY <1>4, <2>2, <2>10, ProbeInv DEF ProbeCache
  <2>11. CASE FailResolve(r) BY <1>4, <2>2, <2>11, LeaveInv DEF FailResolve
  <2> QED BY <2>1, <2>3, <2>4, <2>5, <2>6, <2>7, <2>8, <2>9, <2>10, <2>11 DEF ResolveStep
<1> QED BY <1>2, <1>3, <1>5 DEF SourceInv

(* A run that ended keeps no claim.                                         *)
LEMMA LeftInv ==
    ASSUME SourceTypeOK, SourceInv, NEW r \in Resolvers, NEW how \in {"failed", "done"},
           Leave(r, how), UNCHANGED <<world, cache>>
    PROVE  SourceInv'
<1>1. \A q \in Resolvers \ {r} : Untouched(q) BY StepLeavesOthers
<1>2. NothingReturns' BY DEF SourceInv, NothingReturns, world
<1>3. \A q \in Resolvers \ {r} : ResolverInv(q)' BY <1>1, UntouchedInv DEF SourceInv
<1>4. ResolverInv(r)' BY LeaveInv
<1>5. SnapshotsHeld' BY SnapshotsKept DEF SourceInv, world
<1> QED BY <1>2, <1>3, <1>4, <1>5 DEF SourceInv

LEMMA StutterInv ==
    ASSUME SourceTypeOK, SourceInv, UNCHANGED sourceVars
    PROVE  SourceInv'
<1>1. UNCHANGED world /\ cache' = cache BY DEF sourceVars
<1>2. \A q \in Resolvers : Untouched(q) BY DEF sourceVars, Untouched, place
<1>3. \A q \in Resolvers : ResolverInv(q)' BY <1>1, <1>2, UntouchedInv DEF SourceInv
<1>4. NothingReturns' BY <1>1 DEF SourceInv, NothingReturns, world
<1>5. SnapshotsHeld' BY <1>1, SnapshotsKept DEF SourceInv, world
<1> QED BY <1>3, <1>4, <1>5 DEF SourceInv

------------------------------------------------------------------------------
(* For every source that is edited while any number of runs resolve it: an  *)
(* entry of the cache (source_store) is what its key says, all its files    *)
(* were in the source together, and each directory of it is complete.       *)
THEOREM SnapshotsShowTheSource == SourceSpec => [](SourceTypeOK /\ SnapshotsHeld)
<1>1. SourceInit => SourceTypeOK /\ SourceInv BY SourceTypesInit, InitInv
<1>2. SourceTypeOK /\ SourceInv /\ [SourceNext]_sourceVars => SourceTypeOK' /\ SourceInv'
  <2> SUFFICES ASSUME SourceTypeOK, SourceInv, [SourceNext]_sourceVars
               PROVE  SourceTypeOK' /\ SourceInv'
      OBVIOUS
  <2>1. ASSUME NEW r \in Resolvers, BeginResolve(r) PROVE SourceTypeOK' /\ SourceInv'
        BY <2>1, BeginTypes, StepInv
  <2>2. ASSUME NEW r \in Resolvers, ResolveStep(r) PROVE SourceTypeOK' /\ SourceInv'
        BY <2>2, ResolveTypes, StepInv
  <2>3. ASSUME NEW f \in Files, WriteSource(f) PROVE SourceTypeOK' /\ SourceInv'
        BY <2>3, WriteTypes, WriteInv
  <2>4. CASE UNCHANGED sourceVars
    <3>1. SourceTypeOK' BY <2>4 DEF SourceTypeOK, sourceVars, world, place
    <3> QED BY <2>4, <3>1, StutterInv
  <2> QED BY <2>1, <2>2, <2>3, <2>4 DEF SourceNext
<1>3. SourceInv => SnapshotsHeld BY DEF SourceInv
<1> QED BY <1>1, <1>2, <1>3, PTL DEF SourceSpec

------------------------------------------------------------------------------
(* The commands on top of the cache.                                        *)
Granting(p) == loaded[p] \in inputs /\ Resolves(loaded[p])
PlanOf(p) == [t \in scope[p] |-> LinksOf(loaded[p], t)]
Snapshot(tree) == [key |-> tree, tree |-> tree]

(* A configuration of links that a target may be given and be taken back    *)
(* to.                                                                      *)
Distinct(L) == \A d, e \in Linked(L) : RuntimeName(L[d], d) = RuntimeName(L[e], e) => d = e
LinksCached(L, c) == \A d \in Linked(L) : Snapshot(L[d]) \in c
Good(L, c) == L \in Links /\ Distinct(L) /\ LinksCached(L, c)

(* What is true of a target that run p is at work on: each link is the old  *)
(* or the new one, what is kept is there, and at a target that was never    *)
(* torn there is nothing else.                                              *)
Working(p, t) ==
    /\ Good(Base(p, t), cache) /\ Good(Goal(p, t), cache)
    /\ ledger[t] \in {Base(p, t), Goal(p, t)}
    /\ \A d \in Ops(p, t) : links[t][d] \in {Base(p, t)[d], Goal(p, t)[d]}
    /\ \A d \in Dirs \ Ops(p, t) :
          t \notin torn \/ Base(p, t)[d] # NoLink => links[t][d] = Base(p, t)[d]

Active == {"loaded", "planned", "promoting", "undoing"}
RunInv(p) ==
    /\ stage[p] \in Active => Granting(p)
    /\ stage[p] \in Active \ {"loaded"} => intent[p].next = PlanOf(p)
    /\ p \in AtWork => \A t \in scope[p] : Working(p, t)

PairKnown == lock # NoLock => [policy |-> policy, lock |-> lock] \in inputs
Exclusive == \A p, q \in AtWork : p # q => scope[p] \cap scope[q] = {}
AtRestSettled == \A t \in Targets : AtRest(t) => links[t] = ledger[t]
TargetsGood == \A t \in Targets : Good(ledger[t], cache) /\ LinksCached(links[t], cache)
ApplyInv ==
    /\ PairKnown
    /\ \A p \in Applies : RunInv(p)
    /\ TargetsGood /\ Exclusive /\ AtRestSettled

Inv == TypeOK /\ SourceInv /\ ApplyInv

------------------------------------------------------------------------------
LEMMA LinksAreLinks ==
    ASSUME NEW i \in Input, NEW t \in Targets
    PROVE  LinksOf(i, t) \in Links
<1>1. i.lock \in Tree BY DEF Input
<1> QED BY <1>1 DEF LinksOf, Links

(* What a configuration resolves to has no two skills of one name.          *)
LEMMA ResolvedIsDistinct ==
    ASSUME NEW i \in Input, Resolves(i), NEW t \in Targets
    PROVE  Distinct(LinksOf(i, t))
<1> SUFFICES ASSUME NEW d \in Linked(LinksOf(i, t)), NEW e \in Linked(LinksOf(i, t)),
                    RuntimeName(LinksOf(i, t)[d], d) = RuntimeName(LinksOf(i, t)[e], e)
             PROVE  d = e
    BY DEF Distinct
<1>1. d \in i.policy.grants[t] /\ e \in i.policy.grants[t] BY DEF Linked, LinksOf
<1>2. LinksOf(i, t)[d] = i.lock /\ LinksOf(i, t)[e] = i.lock BY <1>1 DEF LinksOf, Linked
<1> QED BY <1>1, <1>2 DEF Resolves, NamesDiffer

LEMMA TypesInit == Init => TypeOK
<1> SUFFICES ASSUME Init PROVE TypeOK OBVIOUS
<1>1. SourceTypeOK BY SourceTypesInit DEF Init
<1>2. policy \in Policy BY DeploymentAssumption DEF Init
<1>3. lock \in Tree \cup {NoLock} BY <1>1 DEF Init, SourceTypeOK
<1>4. inputs \subseteq Input BY <1>2, <1>3 DEF Init, Input
<1>5. NoLinks \in Links BY DEF NoLinks, Links
<1>6. /\ edits \in Nat /\ wanted \in [Resolvers -> SUBSET Dirs]
      /\ stage \in [Applies -> {"idle", "loaded", "planned", "promoting", "undoing", "ended"}]
      /\ loaded \in [Applies -> Input \cup {NoInput}]
      /\ scope \in [Applies -> SUBSET Targets]
      /\ torn \subseteq Targets /\ kills \in Nat
      BY DEF Init
<1>7. ledger \in [Targets -> Links] /\ links \in [Targets -> Links] BY <1>5 DEF Init
<1>8. DOMAIN intent = Applies /\ \A p \in Applies : intent[p] = NoIntent BY DEF Init
<1> QED BY <1>1, <1>2, <1>3, <1>4, <1>6, <1>7, <1>8 DEF TypeOK

(* Links stay good while the cache grows.                                   *)
LEMMA GoodStays ==
    ASSUME NEW c, NEW e, c \subseteq e, NEW L
    PROVE  (Good(L, c) => Good(L, e)) /\ (LinksCached(L, c) => LinksCached(L, e))
BY DEF Good, LinksCached

(* A run that does nothing keeps its part, also while other runs change     *)
(* other targets.                                                           *)
Apart(q) == /\ stage'[q] = stage[q] /\ loaded'[q] = loaded[q]
            /\ scope'[q] = scope[q] /\ intent'[q] = intent[q]
Aside(t) == links'[t] = links[t] /\ ledger'[t] = ledger[t] /\ (t \in torn' <=> t \in torn)

LEMMA WorkingStays ==
    ASSUME NEW q \in Applies, Apart(q), NEW t \in Targets, Aside(t), Working(q, t),
           cache \subseteq cache'
    PROVE  Working(q, t)'
<1>1. Base(q, t)' = Base(q, t) /\ Goal(q, t)' = Goal(q, t) BY DEF Apart, Base, Goal
<1>2. Ops(q, t)' = Ops(q, t) BY <1>1 DEF Ops
<1>3. Good(Base(q, t), cache') /\ Good(Goal(q, t), cache') BY GoodStays DEF Working
<1>4. /\ Good(Base(q, t)', cache') /\ Good(Goal(q, t)', cache')
      /\ ledger'[t] \in {Base(q, t)', Goal(q, t)'}
      /\ \A d \in Ops(q, t)' : links'[t][d] \in {Base(q, t)'[d], Goal(q, t)'[d]}
      /\ \A d \in Dirs \ Ops(q, t)' :
            t \notin torn' \/ Base(q, t)'[d] # NoLink => links'[t][d] = Base(q, t)'[d]
      BY <1>1, <1>2, <1>3 DEF Working, Aside
<1> QED BY <1>4 DEF Working

LEMMA ApartInv ==
    ASSUME TypeOK, NEW q \in Applies, RunInv(q), Apart(q),
           inputs \subseteq inputs', cache \subseteq cache',
           q \in AtWork => \A t \in scope[q] : Aside(t)
    PROVE  RunInv(q)'
<1>1. stage'[q] \in Active => Granting(q)'
      BY DEF RunInv, Apart, Granting, Resolves, Granted, NamesDiffer, SkillsOf, RuntimeName
<1>2. stage'[q] \in Active \ {"loaded"} => intent'[q].next = PlanOf(q)'
      BY DEF RunInv, Apart, PlanOf, LinksOf
<1>3. q \in AtWork' => q \in AtWork BY DEF AtWork, Apart
<1>4. ASSUME q \in AtWork, NEW t \in scope[q] PROVE Working(q, t)'
      BY <1>4, WorkingStays DEF RunInv, TypeOK
<1>5. q \in AtWork' => \A t \in scope'[q] : Working(q, t)' BY <1>3, <1>4 DEF Apart
<1> QED BY <1>1, <1>2, <1>5 DEF RunInv, Active

(* Lock commands and edits leave the applies and their targets alone, and   *)
(* only add inputs and snapshots.                                           *)
LEMMA LoadedStays ==
    ASSUME TypeOK, ApplyInv, UNCHANGED <<runs, targets>>,
           inputs \subseteq inputs', cache \subseteq cache', PairKnown'
    PROVE  ApplyInv'
<1>1. \A p \in Applies : RunInv(p)'
  <2> SUFFICES ASSUME NEW p \in Applies PROVE RunInv(p)' OBVIOUS
  <2>1. Apart(p) /\ \A t \in scope[p] : Aside(t) BY DEF Apart, Aside, runs, targets
  <2> QED BY <2>1, ApartInv DEF ApplyInv
<1>2. TargetsGood'
  <2>1. \A t \in Targets : Good(ledger[t], cache') /\ LinksCached(links[t], cache')
        BY GoodStays DEF ApplyInv, TargetsGood
  <2> QED BY <2>1 DEF TargetsGood, targets
<1>3. Exclusive' /\ AtRestSettled' BY DEF ApplyInv, Exclusive, AtRestSettled, AtRest, AtWork, runs, targets
<1> QED BY <1>1, <1>2, <1>3 DEF ApplyInv

LEMMA RunTypesKept ==
    ASSUME TypeOK, UNCHANGED <<runs, targets>>
    PROVE  /\ stage' \in [Applies -> {"idle", "loaded", "planned", "promoting", "undoing", "ended"}]
           /\ loaded' \in [Applies -> Input \cup {NoInput}]
           /\ scope' \in [Applies -> SUBSET Targets]
           /\ DOMAIN intent' = Applies
           /\ (\A p \in Applies : intent[p] = NoIntent \/ IsIntent(intent[p]))'
           /\ ledger' \in [Targets -> Links] /\ links' \in [Targets -> Links]
           /\ torn' \subseteq Targets /\ kills' \in Nat
BY DEF TypeOK, runs, targets, IsIntent

------------------------------------------------------------------------------
(* One lemma per action.                                                    *)
LEMMA BeginLockInv ==
    ASSUME Inv, NEW r \in Resolvers, BeginLock(r)
    PROVE  Inv'
<1>1. BeginResolve(r) /\ UNCHANGED <<configuration, runs, targets>> BY DEF BeginLock
<1>2. SourceTypeOK' /\ SourceInv' BY <1>1, BeginTypes, StepInv DEF Inv, TypeOK
<1>3. ApplyInv'
      BY <1>1, LoadedStays DEF Inv, ApplyInv, PairKnown, BeginResolve, configuration
<1>4. wanted' \in [Resolvers -> SUBSET Dirs]
  <2>1. policy.pool \in SUBSET Dirs BY DEF Inv, TypeOK, Policy
  <2> QED BY <2>1 DEF Inv, TypeOK, BeginLock
<1>5. TypeOK' BY <1>1, <1>2, <1>4, RunTypesKept DEF Inv, TypeOK, configuration
<1> QED BY <1>2, <1>3, <1>5 DEF Inv

LEMMA ResolveSourceInv ==
    ASSUME Inv, NEW r \in Resolvers, ResolveSource(r)
    PROVE  Inv'
<1>1. ResolveStep(r) /\ UNCHANGED <<configuration, wanted, runs, targets>> BY DEF ResolveSource
<1>2. SourceTypeOK' /\ SourceInv' BY <1>1, ResolveTypes, StepInv DEF Inv, TypeOK
<1>3. cache \subseteq cache' BY <1>1, StepLeavesOthers DEF Inv, TypeOK
<1>4. ApplyInv' BY <1>1, <1>3, LoadedStays DEF Inv, ApplyInv, PairKnown, configuration
<1>5. TypeOK' BY <1>1, <1>2, RunTypesKept DEF Inv, TypeOK, configuration
<1> QED BY <1>2, <1>4, <1>5 DEF Inv

LEMMA PublishLockInv ==
    ASSUME Inv, NEW r \in Resolvers, PublishLock(r)
    PROVE  Inv'
<1>1. /\ \E how \in {"failed", "done"} : Leave(r, how)
      /\ \/ lock' = lock /\ inputs' = inputs
         \/ lock' = revision[r] /\ inputs' = inputs \cup {[policy |-> policy, lock |-> revision[r]]}
      /\ wanted' = [wanted EXCEPT ![r] = {}]
      /\ UNCHANGED <<world, cache, policy, edits, runs, targets>>
      BY DEF PublishLock
<1>2. SourceTypeOK' /\ SourceInv' BY <1>1, LeaveTypes, LeftInv DEF Inv, TypeOK
<1>3. ApplyInv' BY <1>1, LoadedStays DEF Inv, ApplyInv, PairKnown
<1>4. revision[r] \in Tree /\ policy \in Policy BY DEF Inv, TypeOK, SourceTypeOK
<1>5. lock' \in Tree \cup {NoLock} /\ inputs' \subseteq Input
      BY <1>1, <1>4 DEF Inv, TypeOK, Input
<1>6. wanted' \in [Resolvers -> SUBSET Dirs] BY <1>1 DEF Inv, TypeOK
<1>7. TypeOK' BY <1>1, <1>2, <1>5, <1>6, RunTypesKept DEF Inv, TypeOK
<1> QED BY <1>2, <1>3, <1>7 DEF Inv

LEMMA EditSourceInv ==
    ASSUME Inv, NEW f \in Files, EditSource(f)
    PROVE  Inv'
<1>1. WriteSource(f) /\ UNCHANGED <<configuration, wanted, runs, targets>> BY DEF EditSource
<1>2. SourceTypeOK' /\ SourceInv' BY <1>1, WriteTypes, WriteInv DEF Inv, TypeOK
<1>3. ApplyInv' BY <1>1, LoadedStays DEF Inv, ApplyInv, PairKnown, WriteSource, configuration
<1>4. TypeOK' BY <1>1, <1>2, RunTypesKept DEF Inv, TypeOK, configuration
<1> QED BY <1>2, <1>3, <1>4 DEF Inv

LEMMA EditPolicyInv ==
    ASSUME Inv, NEW q \in Policies, EditPolicy(q)
    PROVE  Inv'
<1>1. /\ policy' = q /\ edits' = edits + 1
      /\ inputs' = IF lock = NoLock THEN inputs
                   ELSE inputs \cup {[policy |-> q, lock |-> lock]}
      /\ UNCHANGED <<sourceVars, lock, wanted, runs, targets>>
      BY DEF EditPolicy
<1>2. SourceInv' BY <1>1, StutterInv DEF Inv, TypeOK
<1>3. SourceTypeOK' BY <1>1 DEF Inv, TypeOK, SourceTypeOK, sourceVars, world, place
<1>4. ApplyInv' BY <1>1, LoadedStays DEF Inv, ApplyInv, PairKnown, sourceVars
<1>5. q \in Policy BY DeploymentAssumption
<1>6. inputs' \subseteq Input BY <1>1, <1>5 DEF Inv, TypeOK, Input
<1>7. TypeOK' BY <1>1, <1>3, <1>5, <1>6, RunTypesKept DEF Inv, TypeOK
<1> QED BY <1>2, <1>4, <1>7 DEF Inv

------------------------------------------------------------------------------
(* The applies leave the source and the cache alone.                        *)
LEMMA SourceFrame ==
    ASSUME Inv, UNCHANGED <<sourceVars, configuration, wanted>>
    PROVE  /\ SourceTypeOK' /\ SourceInv' /\ cache' = cache /\ inputs' = inputs /\ PairKnown'
           /\ policy' \in Policy /\ lock' \in Tree \cup {NoLock} /\ inputs' \subseteq Input
           /\ edits' \in Nat /\ wanted' \in [Resolvers -> SUBSET Dirs]
<1>1. SourceInv' BY StutterInv DEF Inv, TypeOK
<1>2. SourceTypeOK' BY DEF Inv, TypeOK, SourceTypeOK, sourceVars, world, place
<1> QED BY <1>1, <1>2 DEF Inv, TypeOK, ApplyInv, PairKnown, configuration, sourceVars

LEMMA IntentsKept ==
    ASSUME TypeOK, UNCHANGED intent
    PROVE  DOMAIN intent' = Applies /\ (\A p \in Applies : intent[p] = NoIntent \/ IsIntent(intent[p]))'
BY DEF TypeOK, IsIntent

LEMMA TargetsKept ==
    ASSUME ApplyInv, UNCHANGED <<cache, ledger, links>>
    PROVE  TargetsGood'
BY DEF ApplyInv, TargetsGood

(* The pair that is loaded is the one on disk, and it resolves.             *)
LEMMA LoadApplyInv ==
    ASSUME Inv, NEW p \in Applies, LoadApply(p)
    PROVE  Inv'
<1> DEFINE i == [policy |-> policy, lock |-> lock]
<1>1. /\ stage[p] = "idle" /\ lock # NoLock
      /\ \/ /\ Resolves(i) /\ stage' = [stage EXCEPT ![p] = "loaded"]
            /\ loaded' = [loaded EXCEPT ![p] = i]
            /\ \E T \in SUBSET Targets : scope' = [scope EXCEPT ![p] = T]
         \/ stage' = [stage EXCEPT ![p] = "ended"] /\ UNCHANGED <<loaded, scope>>
      /\ UNCHANGED <<sourceVars, configuration, wanted, intent, targets>>
      BY DEF LoadApply
<1>2. i \in inputs /\ i \in Input
  <2>1. i \in inputs BY <1>1 DEF Inv, ApplyInv, PairKnown
  <2> QED BY <2>1 DEF Inv, TypeOK
<1>3. /\ stage' \in [Applies -> {"idle", "loaded", "planned", "promoting", "undoing", "ended"}]
      /\ loaded' \in [Applies -> Input \cup {NoInput}]
      /\ scope' \in [Applies -> SUBSET Targets]
      /\ stage'[p] \in {"loaded", "ended"}
      BY <1>1, <1>2 DEF Inv, TypeOK
<1>4. TypeOK'
  <2>1. /\ ledger' \in [Targets -> Links] /\ links' \in [Targets -> Links]
        /\ torn' \subseteq Targets /\ kills' \in Nat
        BY <1>1 DEF Inv, TypeOK, targets
  <2> QED BY <1>1, <1>3, <2>1, SourceFrame, IntentsKept DEF Inv, TypeOK
<1>5. \A q \in Applies \ {p} : RunInv(q)'
  <2>1. \A q \in Applies \ {p} : Apart(q) BY <1>1 DEF Inv, TypeOK, Apart
  <2>2. \A t : Aside(t) BY <1>1 DEF Aside, targets
  <2> QED BY <1>1, <2>1, <2>2, ApartInv, SourceFrame DEF Inv, ApplyInv
<1>6. RunInv(p)'
  <2>1. p \notin AtWork' /\ stage'[p] \notin Active \ {"loaded"} BY <1>3 DEF AtWork, Active
  <2>2. CASE stage' = [stage EXCEPT ![p] = "ended"]
        BY <2>1, <2>2 DEF Inv, TypeOK, RunInv, Active
  <2>3. CASE Resolves(i) /\ loaded' = [loaded EXCEPT ![p] = i]
    <3>1. loaded'[p] = i BY <2>3 DEF Inv, TypeOK
    <3>2. Granting(p)'
          BY <1>1, <1>2, <2>3, <3>1 DEF Granting, Resolves, Granted, NamesDiffer, SkillsOf,
                                         RuntimeName, configuration
    <3> QED BY <2>1, <3>2 DEF RunInv
  <2> QED BY <1>1, <2>2, <2>3
<1>7. TargetsGood' BY <1>1, TargetsKept DEF Inv, targets, sourceVars
<1>8. AtWork' = AtWork /\ \A q \in AtWork : scope'[q] = scope[q]
      BY <1>1, <1>3 DEF AtWork, Inv, TypeOK
<1>9. Exclusive' /\ AtRestSettled'
      BY <1>1, <1>8 DEF Inv, ApplyInv, Exclusive, AtRestSettled, AtRest, targets
<1> QED BY <1>1, <1>4, <1>5, <1>6, <1>7, <1>9, SourceFrame DEF Inv, ApplyInv

(* The plan is made from what was loaded.                                   *)
LEMMA PlanApplyInv ==
    ASSUME Inv, NEW p \in Applies, PlanApply(p)
    PROVE  Inv'
<1> DEFINE plan == [base |-> [t \in scope[p] |-> ledger[t]],
                    next |-> [t \in scope[p] |-> LinksOf(loaded[p], t)]]
<1>1. /\ stage[p] = "loaded" /\ stage' = [stage EXCEPT ![p] = "planned"]
      /\ intent' = [intent EXCEPT ![p] = plan]
      /\ UNCHANGED <<sourceVars, configuration, wanted, loaded, scope, targets>>
      BY DEF PlanApply, Desired
<1>2. Granting(p) BY <1>1 DEF Inv, ApplyInv, RunInv, Active
<1>3. IsIntent(plan)
  <2>1. loaded[p] \in Input BY <1>2 DEF Granting, Inv, TypeOK
  <2>2. scope[p] \in SUBSET Targets /\ \A t \in scope[p] : ledger[t] \in Links BY DEF Inv, TypeOK
  <2>3. \A t \in scope[p] : LinksOf(loaded[p], t) \in Links BY <2>1, <2>2, LinksAreLinks
  <2>4. plan \in [base : [scope[p] -> Links], next : [scope[p] -> Links]] BY <2>2, <2>3
  <2> QED BY <2>2, <2>4 DEF IsIntent
<1>4. TypeOK'
  <2>1. (\A q \in Applies : intent[q] = NoIntent \/ IsIntent(intent[q]))'
    <3> SUFFICES ASSUME NEW q \in Applies PROVE intent'[q] = NoIntent \/ IsIntent(intent'[q])
        BY DEF IsIntent
    <3> HIDE DEF plan
    <3>1. CASE q = p BY <1>1, <1>3, <3>1 DEF Inv, TypeOK
    <3>2. CASE q # p
      <4>1. intent'[q] = intent[q] BY <1>1, <3>2 DEF Inv, TypeOK
      <4> QED BY <4>1 DEF Inv, TypeOK
    <3> QED BY <3>1, <3>2
  <2>2. /\ stage' \in [Applies -> {"idle", "loaded", "planned", "promoting", "undoing", "ended"}]
        /\ loaded' \in [Applies -> Input \cup {NoInput}] /\ scope' \in [Applies -> SUBSET Targets]
        /\ DOMAIN intent' = Applies
        /\ ledger' \in [Targets -> Links] /\ links' \in [Targets -> Links]
        /\ torn' \subseteq Targets /\ kills' \in Nat
        BY <1>1 DEF Inv, TypeOK, targets
  <2> QED BY <1>1, <2>1, <2>2, SourceFrame DEF TypeOK
<1>5. \A q \in Applies \ {p} : RunInv(q)'
  <2>1. \A q \in Applies \ {p} : Apart(q) BY <1>1 DEF Inv, TypeOK, Apart
  <2>2. \A t : Aside(t) BY <1>1 DEF Aside, targets
  <2> QED BY <1>1, <2>1, <2>2, ApartInv, SourceFrame DEF Inv, ApplyInv
<1>6. RunInv(p)'
  <2>1. stage'[p] = "planned" /\ intent'[p] = plan BY <1>1 DEF Inv, TypeOK
  <2>2. PlanOf(p)' = plan.next BY <1>1 DEF PlanOf, LinksOf
  <2>3. Granting(p)'
        BY <1>1, <1>2 DEF Granting, Resolves, Granted, NamesDiffer, SkillsOf, RuntimeName,
                          configuration
  <2>4. p \notin AtWork' BY <2>1 DEF AtWork
  <2> QED BY <2>1, <2>2, <2>3, <2>4 DEF RunInv
<1>7. TargetsGood' BY <1>1, TargetsKept DEF Inv, targets, sourceVars
<1>8. AtWork' = AtWork BY <1>1 DEF AtWork, Inv, TypeOK
<1>9. Exclusive' /\ AtRestSettled'
      BY <1>1, <1>8 DEF Inv, ApplyInv, Exclusive, AtRestSettled, AtRest, targets
<1> QED BY <1>1, <1>4, <1>5, <1>6, <1>7, <1>9, SourceFrame DEF Inv, ApplyInv

------------------------------------------------------------------------------
(* Steps of p that change only its stage.                                   *)
LEMMA StageInv ==
    ASSUME Inv, NEW p \in Applies, NEW to \in {"promoting", "undoing"},
           stage[p] \in {"planned", "promoting"}, stage' = [stage EXCEPT ![p] = to],
           UNCHANGED <<sourceVars, configuration, wanted, loaded, scope, intent, targets>>,
           \A t \in scope[p] : Working(p, t),
           p \notin AtWork => \A q \in AtWork : scope[p] \cap scope[q] = {}
    PROVE  Inv'
<1>1. TypeOK'
  <2>1. /\ stage' \in [Applies -> {"idle", "loaded", "planned", "promoting", "undoing", "ended"}]
        /\ loaded' \in [Applies -> Input \cup {NoInput}] /\ scope' \in [Applies -> SUBSET Targets]
        /\ ledger' \in [Targets -> Links] /\ links' \in [Targets -> Links]
        /\ torn' \subseteq Targets /\ kills' \in Nat
        BY DEF Inv, TypeOK, targets
  <2> QED BY <2>1, SourceFrame, IntentsKept DEF Inv, TypeOK
<1>2. \A t : Aside(t) BY DEF Aside, targets
<1>3. \A q \in Applies \ {p} : RunInv(q)'
  <2>1. \A q \in Applies \ {p} : Apart(q) BY DEF Inv, TypeOK, Apart
  <2> QED BY <1>2, <2>1, ApartInv, SourceFrame DEF Inv, ApplyInv
<1>4. RunInv(p)'
  <2>1. Granting(p) /\ intent[p].next = PlanOf(p) BY DEF Inv, ApplyInv, RunInv, Active
  <2>2. Granting(p)'
        BY <2>1 DEF Granting, Resolves, Granted, NamesDiffer, SkillsOf, RuntimeName, configuration
  <2>3. PlanOf(p)' = PlanOf(p) BY DEF PlanOf, LinksOf
  <2>4. ASSUME NEW t \in scope[p] PROVE Working(p, t)'
    <3>1. Base(p, t)' = Base(p, t) /\ Goal(p, t)' = Goal(p, t) BY DEF Base, Goal
    <3>2. Ops(p, t)' = Ops(p, t) BY <3>1 DEF Ops
    <3>3. cache' = cache BY SourceFrame
    <3> QED BY <3>1, <3>2, <3>3 DEF Working, targets
  <2> QED BY <2>1, <2>2, <2>3, <2>4 DEF RunInv
<1>5. TargetsGood' BY TargetsKept DEF Inv, targets, sourceVars
<1>6. AtWork' = AtWork \cup {p} BY DEF AtWork, Inv, TypeOK
<1>7. Exclusive' BY <1>6 DEF Inv, ApplyInv, Exclusive
<1>8. AtRestSettled' BY <1>6 DEF Inv, ApplyInv, AtRestSettled, AtRest, targets
<1> QED BY <1>1, <1>3, <1>4, <1>5, <1>7, <1>8, SourceFrame DEF Inv, ApplyInv

(* The goal of a plan is what was loaded resolves to.                       *)
LEMMA GoalIs ==
    ASSUME Inv, NEW p \in Applies, stage[p] \in Active \ {"loaded"}, NEW t \in scope[p]
    PROVE  /\ loaded[p] \in inputs /\ loaded[p] \in Input /\ Resolves(loaded[p])
           /\ Goal(p, t) = LinksOf(loaded[p], t) /\ Goal(p, t) \in Links /\ Distinct(Goal(p, t))
<1>1. Granting(p) /\ intent[p].next = PlanOf(p) BY DEF Inv, ApplyInv, RunInv
<1>2. loaded[p] \in Input BY <1>1 DEF Granting, Inv, TypeOK
<1>3. Goal(p, t) = LinksOf(loaded[p], t) BY <1>1 DEF Goal, PlanOf
<1>4. t \in Targets BY DEF Inv, TypeOK
<1> QED BY <1>1, <1>2, <1>3, <1>4, LinksAreLinks, ResolvedIsDistinct DEF Granting

LEMMA StartApplyInv ==
    ASSUME Inv, NEW p \in Applies, StartApply(p)
    PROVE  Inv'
<1>1. stage[p] = "planned" /\ Deployable(p) /\ AsPlanned(p) BY DEF StartApply
<1>2. ASSUME NEW t \in scope[p] PROVE Working(p, t)
  <2>1. t \in Targets BY DEF Inv, TypeOK
  <2>2. Good(Goal(p, t), cache)
    <3>1. LinksCached(Goal(p, t), cache) BY <1>1 DEF Deployable, LinksCached, Snapshot
    <3> QED BY <1>1, <3>1, GoalIs DEF Good, Active
  <2>3. ledger[t] = Base(p, t) /\ Good(Base(p, t), cache)
        BY <1>1, <2>1 DEF AsPlanned, Inv, ApplyInv, TargetsGood
  <2>4. \A d \in Ops(p, t) : links[t][d] = Base(p, t)[d] BY <1>1 DEF AsPlanned
  <2>5. ASSUME t \notin torn PROVE links[t] = Base(p, t)
    <3>1. AtRest(t) BY <1>1, <2>5 DEF AsPlanned, AtRest
    <3> QED BY <2>1, <2>3, <3>1 DEF Inv, ApplyInv, AtRestSettled
  <2>6. ASSUME NEW d \in Dirs, Base(p, t)[d] # NoLink PROVE links[t][d] = Base(p, t)[d]
        BY <1>1, <2>6 DEF AsPlanned, Linked
  <2> QED BY <2>2, <2>3, <2>4, <2>5, <2>6 DEF Working
<1>3. \A q \in AtWork : scope[p] \cap scope[q] = {} BY <1>1 DEF AsPlanned
<1> QED BY <1>1, <1>2, <1>3, StageInv DEF StartApply

LEMMA FailApplyInv ==
    ASSUME Inv, NEW p \in Applies, FailApply(p)
    PROVE  Inv'
<1>1. stage[p] = "promoting" /\ p \in AtWork BY DEF FailApply, AtWork
<1>2. \A t \in scope[p] : Working(p, t) BY <1>1 DEF Inv, ApplyInv, RunInv
<1> QED BY <1>1, <1>2, StageInv DEF FailApply

------------------------------------------------------------------------------
(* Steps of p at one of its targets.                                        *)
LEMMA OthersAside ==
    ASSUME Inv, NEW p \in Applies, p \in AtWork, UNCHANGED <<sourceVars, configuration, wanted, runs>>,
           \A t \in Targets \ scope[p] : Aside(t)
    PROVE  /\ \A q \in Applies \ {p} : RunInv(q)'
           /\ Exclusive'
           /\ (\A t \in scope[p] : Working(p, t)') => RunInv(p)'
           /\ AtRestSettled'
<1>1. \A q \in Applies : Apart(q) BY DEF Apart, runs
<1>2. AtWork' = AtWork BY DEF AtWork, runs
<1>3. ASSUME NEW q \in Applies \ {p} PROVE RunInv(q)'
  <2>1. q \in AtWork => \A t \in scope[q] : Aside(t)
    <3>1. q \in AtWork => scope[q] \cap scope[p] = {} /\ scope[q] \subseteq Targets
          BY DEF Inv, ApplyInv, Exclusive, TypeOK
    <3> QED BY <3>1
  <2> QED BY <1>1, <2>1, ApartInv, SourceFrame DEF Inv, ApplyInv
<1>4. Exclusive' BY <1>2 DEF Inv, ApplyInv, Exclusive, runs
<1>5. ASSUME \A t \in scope[p] : Working(p, t)' PROVE RunInv(p)'
  <2>1. Granting(p) /\ intent[p].next = PlanOf(p)
        BY DEF Inv, ApplyInv, RunInv, Active, AtWork
  <2>2. Granting(p)'
        BY <2>1 DEF Granting, Resolves, Granted, NamesDiffer, SkillsOf, RuntimeName, configuration, runs
  <2>3. PlanOf(p)' = PlanOf(p) BY DEF PlanOf, LinksOf, runs
  <2> QED BY <1>5, <2>1, <2>2, <2>3 DEF RunInv, runs
<1>6. AtRestSettled'
  <2> SUFFICES ASSUME NEW t \in Targets, AtRest(t)' PROVE links'[t] = ledger'[t]
      BY DEF AtRestSettled
  <2>1. t \notin scope[p] BY <1>2 DEF AtRest, runs
  <2>2. Aside(t) BY <2>1
  <2>3. AtRest(t) BY <1>2, <2>2 DEF AtRest, Aside, runs
  <2> QED BY <2>2, <2>3 DEF Aside, Inv, ApplyInv, AtRestSettled
<1> QED BY <1>3, <1>4, <1>5, <1>6

LEMMA RelinkInv ==
    ASSUME Inv, NEW p \in Applies, p \in AtWork, NEW t \in scope[p], NEW d \in Ops(p, t),
           NEW to \in {Base(p, t)[d], Goal(p, t)[d]}, Relink(t, d, to), AtTargets, UNCHANGED ledger
    PROVE  Inv'
<1>1. /\ UNCHANGED <<sourceVars, configuration, wanted, runs, torn, kills>>
      /\ links' = [links EXCEPT ![t][d] = to]
      BY DEF AtTargets, Relink
<1>2. t \in Targets /\ d \in Dirs BY DEF Inv, TypeOK, Ops
<1>3. \A s \in scope[p] : Working(p, s) BY DEF Inv, ApplyInv, RunInv
<1>4. /\ Base(p, t) \in Links /\ Goal(p, t) \in Links
      /\ LinksCached(Base(p, t), cache) /\ LinksCached(Goal(p, t), cache)
      BY <1>3 DEF Working, Good
<1>5. to \in Tree \cup {NoLink} BY <1>2, <1>4 DEF Links
<1>6. /\ links' \in [Targets -> Links] /\ links'[t][d] = to
      /\ \A e \in Dirs \ {d} : links'[t][e] = links[t][e]
      /\ \A s \in Targets \ {t} : links'[s] = links[s]
      BY <1>1, <1>2, <1>5 DEF Inv, TypeOK, Links
<1>7. TypeOK'
  <2>1. /\ stage' \in [Applies -> {"idle", "loaded", "planned", "promoting", "undoing", "ended"}]
        /\ loaded' \in [Applies -> Input \cup {NoInput}] /\ scope' \in [Applies -> SUBSET Targets]
        /\ ledger' \in [Targets -> Links] /\ torn' \subseteq Targets /\ kills' \in Nat
        /\ intent' = intent
        BY <1>1 DEF Inv, TypeOK, runs
  <2> QED BY <1>1, <1>6, <2>1, SourceFrame, IntentsKept DEF Inv, TypeOK
<1>8. cache' = cache BY <1>1, SourceFrame
<1>9. TargetsGood'
  <2>1. ASSUME NEW s \in Targets PROVE LinksCached(links'[s], cache)
    <3>1. LinksCached(links[s], cache) BY DEF Inv, ApplyInv, TargetsGood
    <3>2. CASE s # t BY <1>6, <3>1, <3>2
    <3>3. CASE s = t
      <4> SUFFICES ASSUME NEW e \in Linked(links'[t]) PROVE Snapshot(links'[t][e]) \in cache
          BY <3>3 DEF LinksCached
      <4>1. CASE e = d BY <1>2, <1>4, <1>6, <4>1 DEF LinksCached, Linked
      <4>2. CASE e # d BY <1>6, <3>1, <3>3, <4>2 DEF LinksCached, Linked
      <4> QED BY <4>1, <4>2
    <3> QED BY <3>2, <3>3
  <2> QED BY <1>8, <2>1 DEF Inv, ApplyInv, TargetsGood
<1>10. ASSUME NEW s \in scope[p] PROVE Working(p, s)'
  <2>1. Base(p, s)' = Base(p, s) /\ Goal(p, s)' = Goal(p, s) BY <1>1 DEF Base, Goal, runs
  <2>2. Ops(p, s)' = Ops(p, s) BY <2>1 DEF Ops
  <2>3. s \in Targets BY DEF Inv, TypeOK
  <2>4. Working(p, s) BY <1>3
  <2>5. \A e \in Ops(p, s) : links'[s][e] \in {Base(p, s)[e], Goal(p, s)[e]}
    <3>1. CASE s # t BY <1>6, <2>3, <2>4, <3>1 DEF Working
    <3>2. CASE s = t
      <4> SUFFICES ASSUME NEW e \in Ops(p, t) PROVE links'[t][e] \in {Base(p, t)[e], Goal(p, t)[e]}
          BY <3>2
      <4>1. CASE e = d BY <1>6, <4>1
      <4>2. CASE e # d
        <5>1. links'[t][e] = links[t][e] BY <1>6, <4>2 DEF Ops
        <5> QED BY <2>4, <3>2, <5>1 DEF Working
      <4> QED BY <4>1, <4>2
    <3> QED BY <3>1, <3>2
  <2>6. \A e \in Dirs \ Ops(p, s) : links'[s][e] = links[s][e] BY <1>6, <2>3
  <2> QED BY <1>1, <1>8, <2>1, <2>2, <2>4, <2>5, <2>6 DEF Working
<1>11. \A s \in Targets \ scope[p] : Aside(s) BY <1>1, <1>6 DEF Aside
<1> QED BY <1>1, <1>7, <1>9, <1>10, <1>11, OthersAside, SourceFrame DEF Inv, ApplyInv

LEMMA RewriteInv ==
    ASSUME Inv, NEW p \in Applies, p \in AtWork, NEW t \in scope[p],
           NEW to \in {Base(p, t), Goal(p, t)}, Rewrite(t, to), AtTargets, UNCHANGED links
    PROVE  Inv'
<1>1. /\ UNCHANGED <<sourceVars, configuration, wanted, runs, torn, kills>>
      /\ ledger' = [ledger EXCEPT ![t] = to]
      BY DEF AtTargets, Rewrite
<1>2. t \in Targets BY DEF Inv, TypeOK
<1>3. \A s \in scope[p] : Working(p, s) BY DEF Inv, ApplyInv, RunInv
<1>4. Good(to, cache) BY <1>3 DEF Working
<1>5. /\ ledger' \in [Targets -> Links] /\ ledger'[t] = to
      /\ \A s \in Targets \ {t} : ledger'[s] = ledger[s]
      BY <1>1, <1>2, <1>4 DEF Inv, TypeOK, Good
<1>6. TypeOK'
  <2>1. /\ stage' \in [Applies -> {"idle", "loaded", "planned", "promoting", "undoing", "ended"}]
        /\ loaded' \in [Applies -> Input \cup {NoInput}] /\ scope' \in [Applies -> SUBSET Targets]
        /\ links' \in [Targets -> Links] /\ torn' \subseteq Targets /\ kills' \in Nat
        /\ intent' = intent
        BY <1>1 DEF Inv, TypeOK, runs
  <2> QED BY <1>1, <1>5, <2>1, SourceFrame, IntentsKept DEF Inv, TypeOK
<1>7. cache' = cache BY <1>1, SourceFrame
<1>8. TargetsGood'
  <2>1. \A s \in Targets : Good(ledger'[s], cache) /\ LinksCached(links'[s], cache)
        BY <1>4, <1>5 DEF Inv, ApplyInv, TargetsGood
  <2> QED BY <1>7, <2>1 DEF TargetsGood
<1>9. ASSUME NEW s \in scope[p] PROVE Working(p, s)'
  <2>1. Base(p, s)' = Base(p, s) /\ Goal(p, s)' = Goal(p, s) BY <1>1 DEF Base, Goal, runs
  <2>2. Ops(p, s)' = Ops(p, s) BY <2>1 DEF Ops
  <2>3. s \in Targets BY DEF Inv, TypeOK
  <2>4. Working(p, s) BY <1>3
  <2>5. ledger'[s] \in {Base(p, s), Goal(p, s)}
    <3>1. CASE s = t BY <1>5, <3>1
    <3>2. CASE s # t BY <1>5, <2>3, <2>4, <3>2 DEF Working
    <3> QED BY <3>1, <3>2
  <2> QED BY <1>1, <1>7, <2>1, <2>2, <2>4, <2>5 DEF Working
<1>10. \A s \in Targets \ scope[p] : Aside(s) BY <1>1, <1>5 DEF Aside
<1> QED BY <1>1, <1>6, <1>8, <1>9, <1>10, OthersAside, SourceFrame DEF Inv, ApplyInv

LEMMA AtTargetsInv ==
    ASSUME Inv, NEW p \in Applies,
           PromoteLink(p) \/ UndoLink(p) \/ WriteRecord(p) \/ RestoreRecord(p)
    PROVE  Inv'
<1>1. p \in AtWork BY DEF AtWork, PromoteLink, UndoLink, WriteRecord, RestoreRecord
<1>2. CASE PromoteLink(p) \/ UndoLink(p)
      BY <1>1, <1>2, RelinkInv DEF PromoteLink, UndoLink
<1>3. CASE WriteRecord(p) \/ RestoreRecord(p)
      BY <1>1, <1>3, RewriteInv DEF WriteRecord, RestoreRecord
<1> QED BY <1>2, <1>3

------------------------------------------------------------------------------
(* A run that ends: a target that it gives up is torn, or links what its    *)
(* record names.                                                            *)
LEMMA EndApplyInv ==
    ASSUME Inv, NEW p \in Applies, EndApply(p), kills' \in Nat,
           torn' = torn \/ (p \in AtWork /\ torn' = torn \cup scope[p]),
           p \in AtWork => \A t \in scope[p] : t \in torn' \/ links[t] = ledger[t]
    PROVE  Inv'
<1>1. /\ stage' = [stage EXCEPT ![p] = "ended"] /\ loaded' = [loaded EXCEPT ![p] = NoInput]
      /\ scope' = [scope EXCEPT ![p] = {}] /\ intent' = [intent EXCEPT ![p] = NoIntent]
      /\ UNCHANGED <<sourceVars, configuration, wanted, ledger, links>>
      BY DEF EndApply
<1>2. TypeOK'
  <2>1. (\A q \in Applies : intent[q] = NoIntent \/ IsIntent(intent[q]))'
    <3> SUFFICES ASSUME NEW q \in Applies PROVE intent'[q] = NoIntent \/ IsIntent(intent'[q])
        BY DEF IsIntent
    <3>1. CASE q = p BY <1>1, <3>1 DEF Inv, TypeOK
    <3>2. CASE q # p
      <4>1. intent'[q] = intent[q] BY <1>1, <3>2 DEF Inv, TypeOK
      <4> QED BY <4>1 DEF Inv, TypeOK
    <3> QED BY <3>1, <3>2
  <2>2. /\ stage' \in [Applies -> {"idle", "loaded", "planned", "promoting", "undoing", "ended"}]
        /\ loaded' \in [Applies -> Input \cup {NoInput}] /\ scope' \in [Applies -> SUBSET Targets]
        /\ DOMAIN intent' = Applies
        /\ ledger' \in [Targets -> Links] /\ links' \in [Targets -> Links]
        /\ torn' \subseteq Targets /\ kills' \in Nat
        BY <1>1 DEF Inv, TypeOK
  <2> QED BY <1>1, <2>1, <2>2, SourceFrame DEF TypeOK
<1>3. ASSUME NEW q \in Applies \ {p} PROVE RunInv(q)'
  <2>1. Apart(q) BY <1>1 DEF Inv, TypeOK, Apart
  <2>2. q \in AtWork => \A t \in scope[q] : Aside(t)
    <3> SUFFICES ASSUME q \in AtWork, NEW t \in scope[q] PROVE Aside(t) OBVIOUS
    <3>1. t \in torn' <=> t \in torn BY DEF Inv, ApplyInv, Exclusive
    <3> QED BY <1>1, <3>1 DEF Aside
  <2> QED BY <1>1, <2>1, <2>2, ApartInv, SourceFrame DEF Inv, ApplyInv
<1>4. stage'[p] = "ended" /\ scope'[p] = {} BY <1>1 DEF Inv, TypeOK
<1>5. RunInv(p)' BY <1>4 DEF RunInv, Active, AtWork
<1>6. TargetsGood' BY <1>1, TargetsKept DEF Inv, sourceVars
<1>7. AtWork' = AtWork \ {p} /\ \A q \in AtWork \ {p} : scope'[q] = scope[q]
      BY <1>1 DEF AtWork, Inv, TypeOK
<1>8. Exclusive' BY <1>7 DEF Inv, ApplyInv, Exclusive
<1>9. AtRestSettled'
  <2> SUFFICES ASSUME NEW t \in Targets, AtRest(t)' PROVE links[t] = ledger[t]
      BY <1>1 DEF AtRestSettled
  <2>1. CASE p \in AtWork /\ t \in scope[p] BY <2>1 DEF AtRest
  <2>2. CASE ~(p \in AtWork /\ t \in scope[p])
    <3>1. t \notin torn BY DEF AtRest
    <3>2. AtRest(t) BY <1>7, <2>2, <3>1 DEF AtRest
    <3> QED BY <3>2 DEF Inv, ApplyInv, AtRestSettled
  <2> QED BY <2>1, <2>2
<1> QED BY <1>1, <1>2, <1>3, <1>5, <1>6, <1>8, <1>9, SourceFrame DEF Inv, ApplyInv

(* Links that are all old or all new are what the record of then names.     *)
LEMMA LinksSettled ==
    ASSUME Inv, NEW p \in Applies, p \in AtWork, NEW t \in scope[p],
           NEW L \in {Base(p, t), Goal(p, t)}, ledger[t] = L, \A d \in Ops(p, t) : links[t][d] = L[d]
    PROVE  /\ t \in torn \/ links[t] = ledger[t]
           /\ \A d \in Linked(ledger[t]) : links[t][d] = ledger[t][d]
<1>1. t \in Targets BY DEF Inv, TypeOK
<1>2. Working(p, t) BY DEF Inv, ApplyInv, RunInv
<1>3. \A d \in Dirs \ Ops(p, t) : Base(p, t)[d] = Goal(p, t)[d] BY DEF Ops
<1>4. \A d \in Dirs \ Ops(p, t) : t \notin torn \/ L[d] # NoLink => links[t][d] = L[d]
      BY <1>2, <1>3 DEF Working
<1>5. \A d \in Linked(ledger[t]) : links[t][d] = ledger[t][d] BY <1>4 DEF Linked
<1>6. ASSUME t \notin torn PROVE links[t] = ledger[t]
  <2>1. \A d \in Dirs : links[t][d] = ledger[t][d] BY <1>4, <1>6
  <2>2. links[t] \in Links /\ ledger[t] \in Links BY <1>1 DEF Inv, TypeOK
  <2> QED BY <2>1, <2>2 DEF Links
<1> QED BY <1>5, <1>6

LEMMA CommitApplyInv ==
    ASSUME Inv, NEW p \in Applies, CommitApply(p)
    PROVE  Inv' /\ CommitShows(p)
<1>1. /\ stage[p] = "promoting" /\ EndApply(p) /\ UNCHANGED <<torn, kills>>
      /\ \A t \in scope[p] : Promoted(p, t) /\ ledger[t] = Goal(p, t)
      BY DEF CommitApply
<1>2. p \in AtWork BY <1>1 DEF AtWork
<1>3. \A t \in scope[p] : /\ t \in torn \/ links[t] = ledger[t]
                          /\ \A d \in Linked(ledger[t]) : links[t][d] = ledger[t][d]
      BY <1>1, <1>2, LinksSettled DEF Promoted
<1>4. Inv' BY <1>1, <1>3, EndApplyInv DEF Inv, TypeOK
<1>5. loaded[p] \in inputs BY <1>1 DEF Inv, ApplyInv, RunInv, Active, Granting
<1>6. \A t \in scope[p] : ledger[t] = LinksOf(loaded[p], t) BY <1>1, GoalIs DEF Active
<1> QED BY <1>3, <1>4, <1>5, <1>6 DEF CommitShows

LEMMA AbortApplyInv ==
    ASSUME Inv, NEW p \in Applies, AbortApply(p)
    PROVE  Inv'
<1>1. /\ EndApply(p) /\ UNCHANGED <<torn, kills>>
      /\ p \in AtWork => \A t \in scope[p] : Undone(p, t) /\ ledger[t] = Base(p, t)
      BY DEF AbortApply, AtWork
<1>2. p \in AtWork => \A t \in scope[p] : t \in torn \/ links[t] = ledger[t]
      BY <1>1, LinksSettled DEF Undone
<1> QED BY <1>1, <1>2, EndApplyInv DEF Inv, TypeOK

LEMMA KillApplyInv ==
    ASSUME Inv, NEW p \in Applies, KillApply(p)
    PROVE  Inv'
<1>1. kills' \in Nat BY DEF KillApply, Inv, TypeOK
<1> QED BY <1>1, EndApplyInv DEF KillApply

LEMMA IdleInv ==
    ASSUME Inv, UNCHANGED vars
    PROVE  Inv'
<1>1. UNCHANGED <<sourceVars, configuration, wanted, runs, targets>> BY DEF vars
<1>2. ApplyInv' BY <1>1, SourceFrame, LoadedStays DEF Inv
<1>3. TypeOK' BY <1>1, SourceFrame, RunTypesKept DEF Inv, TypeOK
<1> QED BY <1>1, <1>2, <1>3, SourceFrame DEF Inv

------------------------------------------------------------------------------
LEMMA InvInit == Init => Inv
<1> SUFFICES ASSUME Init PROVE Inv OBVIOUS
<1>1. TypeOK /\ SourceInv BY TypesInit, InitInv DEF Init
<1>2. \A p \in Applies : RunInv(p) BY DEF Init, RunInv, Active, AtWork
<1>3. PairKnown BY DEF Init, PairKnown
<1>4. \A t \in Targets : ledger[t] = NoLinks /\ links[t] = NoLinks BY DEF Init
<1>5. Good(NoLinks, cache) BY DEF Good, NoLinks, Links, Distinct, LinksCached, Linked
<1>6. TargetsGood BY <1>4, <1>5 DEF TargetsGood, Good
<1>7. Exclusive /\ AtRestSettled BY <1>4 DEF Exclusive, AtRestSettled, AtWork, Init
<1> QED BY <1>1, <1>2, <1>3, <1>6, <1>7 DEF Inv, ApplyInv

LEMMA InvStep == Inv /\ [Next]_vars => Inv'
<1> SUFFICES ASSUME Inv, [Next]_vars PROVE Inv' OBVIOUS
<1>1. ASSUME NEW r \in Resolvers, BeginLock(r) \/ ResolveSource(r) \/ PublishLock(r) PROVE Inv'
      BY <1>1, BeginLockInv, ResolveSourceInv, PublishLockInv
<1>2. ASSUME NEW f \in Files, EditSource(f) PROVE Inv' BY <1>2, EditSourceInv
<1>3. ASSUME NEW q \in Policies, EditPolicy(q) PROVE Inv' BY <1>3, EditPolicyInv
<1>4. ASSUME NEW p \in Applies, ApplyStep(p) PROVE Inv'
      BY <1>4, LoadApplyInv, PlanApplyInv, StartApplyInv, AtTargetsInv, CommitApplyInv,
         FailApplyInv, AbortApplyInv, KillApplyInv DEF ApplyStep
<1>5. CASE UNCHANGED vars BY <1>5, IdleInv
<1> QED BY <1>1, <1>2, <1>3, <1>4, <1>5 DEF Next

LEMMA Invariance == Spec => []Inv
BY InvInit, InvStep, PTL DEF Spec

------------------------------------------------------------------------------
(* Locks, applies and edits in any order keep every variable in its type.   *)
THEOREM DeploymentTypes == Spec => []TypeOK
<1>1. Inv => TypeOK BY DEF Inv
<1> QED BY <1>1, Invariance, PTL

(* What the cache holds shows its source also when applies read it          *)
(* (source_store.resolve).                                                  *)
THEOREM DeployedSnapshotsHeld == Spec => []SnapshotsHeld
<1>1. Inv => SnapshotsHeld BY DEF Inv, SourceInv
<1> QED BY <1>1, Invariance, PTL

(* A linked skill is one version of its directory, however the source was   *)
(* edited while it was locked, at every moment of every transaction and     *)
(* after a kill (main, "lock" and "apply", _promote, _rollback_entry).      *)
THEOREM LinkedSkillsAreWhole == Spec => []LinkedSkillsHeld
<1>1. Inv => LinkedSkillsHeld
  <2> SUFFICES ASSUME Inv, NEW t \in Targets, NEW d \in Linked(links[t])
               PROVE  PartHeld(links[t][d], d)
      BY DEF LinkedSkillsHeld
  <2>1. Snapshot(links[t][d]) \in cache BY DEF Inv, ApplyInv, TargetsGood, LinksCached
  <2>2. d \in Dirs BY DEF Linked
  <2>3. Snapshot(links[t][d]).tree = links[t][d] BY DEF Snapshot
  <2> QED BY <2>1, <2>2, <2>3 DEF Inv, SourceInv, SnapshotsHeld
<1> QED BY <1>1, Invariance, PTL

(* Where no apply is at work and none was killed, no rename of a skill      *)
(* makes two of the same runtime name meet in a target                      *)
(* (resolve_desired_state, apply_plan).                                     *)
THEOREM NamesStayUnique == Spec => []RuntimeNamesUnique
<1>1. Inv => RuntimeNamesUnique
  <2> SUFFICES ASSUME Inv, NEW t \in Targets, AtRest(t) PROVE Distinct(links[t])
      BY DEF RuntimeNamesUnique, Distinct
  <2> QED BY DEF Inv, ApplyInv, AtRestSettled, TargetsGood, Good
<1> QED BY <1>1, Invariance, PTL

(* A commit leaves its targets with one policy and one lock that were on    *)
(* disk together, in their records and in their links (main, "apply", and   *)
(* apply_plan).                                                             *)
THEOREM CommitsOneInput == Spec => OneInputCommits
<1> DEFINE Commits(p) == stage[p] = "promoting" /\ stage'[p] = "ended" /\ kills' = kills
<1>1. Inv /\ [Next]_vars => \A p \in Applies : Commits(p) => CommitShows(p)
  <2> SUFFICES ASSUME Inv, [Next]_vars, NEW p \in Applies, Commits(p) PROVE CommitShows(p)
      OBVIOUS
  <2>1. CASE UNCHANGED runs BY <2>1 DEF runs
  <2>2. ASSUME NEW q \in Applies, ApplyStep(q) PROVE CommitApply(q) /\ q = p
    <3>1. /\ \A x \in Applies \ {q} : stage'[x] = stage[x]
          BY <2>2 DEF ApplyStep, LoadApply, PlanApply, StartApply, PromoteLink, WriteRecord,
                      CommitApply, FailApply, UndoLink, RestoreRecord, AbortApply, KillApply,
                      EndApply, AtTargets, runs, Inv, TypeOK
    <3>2. q = p BY <3>1
    <3>3. ~LoadApply(p) /\ ~PlanApply(p) /\ ~StartApply(p) /\ ~UndoLink(p) /\ ~RestoreRecord(p)
          /\ ~AbortApply(p)
          BY DEF LoadApply, PlanApply, StartApply, UndoLink, RestoreRecord, AbortApply
    <3>4. ~PromoteLink(p) /\ ~WriteRecord(p) BY DEF PromoteLink, WriteRecord, AtTargets, runs
    <3>5. ~FailApply(p) BY DEF FailApply, Inv, TypeOK
    <3>6. ~KillApply(p) BY DEF KillApply, Inv, TypeOK
    <3> QED BY <2>2, <3>2, <3>3, <3>4, <3>5, <3>6 DEF ApplyStep
  <2>3. CASE \E q \in Applies : ApplyStep(q) BY <2>2, <2>3, CommitApplyInv
  <2>4. UNCHANGED runs \/ \E q \in Applies : ApplyStep(q)
        BY DEF Next, vars, BeginLock, ResolveSource, PublishLock, EditSource, EditPolicy
  <2> QED BY <2>1, <2>3, <2>4
<1>2. Inv /\ [Next]_vars => [\A p \in Applies : Commits(p) => CommitShows(p)]_vars
      BY <1>1
<1> QED BY <1>2, Invariance, PTL DEF Spec, OneInputCommits
=============================================================================
