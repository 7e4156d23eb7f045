-------------------------- MODULE VerificationProofs --------------------------
(***************************************************************************)
(* Proofs of what VerificationProperties states, for any number of         *)
(* verifications, files, writes, errors and kills.                         *)
(***************************************************************************)
EXTENDS VerificationProperties, TLAPS

------------------------------------------------------------------------------
(* The inductive invariant.                                                 *)

(* Versions only grow: what was captured is on disk, or never will be again. *)
Fresh(v) == \A f \in Files :
    /\ snap[v][f].id <= disk[f].id
    /\ snap[v][f].id = disk[f].id => snap[v][f] = disk[f]

Differs(v, f) == f \in Named(snap[v]) /\ disk[f] # snap[v][f]

(* The pass at hand has still to look at a file that differs.               *)
Lagging(v) == \E f \in unread[v] : Differs(v, f)

(* Each pass either vouches for the history, or will not get through.       *)
Passes(v) ==
    /\ pc[v] \in {"recheck", "bind"} => steady[v] \/ Lagging(v)
    /\ pc[v] = "targets" => steady[v] \/ \E f \in Files : Differs(v, f)
    /\ pc[v] \in {"scan", "lexical", "resolve", "compare", "relexical", "bound", "lookup", "link"}
          => steady[v]
    /\ pc[v] = "final" => \/ Listing \in unread[v] /\ steady[v] /\ Named(snap[v]) \subseteq unread[v]
                          \/ Listing \notin unread[v] /\ (steady[v] \/ Lagging(v))

(* A commit is named only after it was compared.                            *)
Early == {"idle", "load", "relist", "recheck", "scan", "targets", "bind", "lexical", "resolve"}
Compared(v) ==
    /\ pc[v] \in Early => commit[v] = NoCommit
    /\ pc[v] \in {"relexical", "bound", "final", "lookup", "link"} /\ commit[v] # NoCommit
          => Blobs[commit[v]] = Config(v)

(* Whoever got past the first listing has captured a name.                  *)
HasNames(v) == pc[v] \notin {"idle", "done"} => Named(snap[v]) # {}

Settled(v) ==
    /\ linked[v] => pc[v] \in {"sync", "rollback", "done"}
    /\ pc[v] # "done" => outcome[v] = "none"

(* A receipt that a verification found, or made, has not silently gone.     *)
Kept(v) ==
    outcome[v] = "ok" \/ pc[v] = "sync" =>
        \/ Receipt(v) \in store
        \/ \E w \in Verifiers : linked[w] /\ outcome[w] = "failed" /\ Receipt(w) = Receipt(v)

Local(v) == Fresh(v) /\ HasNames(v) /\ Passes(v) /\ Compared(v) /\ Settled(v)

VInv ==
    /\ TypeOK
    /\ \A v \in Verifiers : Local(v)
    /\ CommitExact
    /\ StoredIsVouched
    /\ \A v \in Verifiers : Kept(v)

------------------------------------------------------------------------------
(* Types.                                                                   *)

(* The inputs of a pass over a capture with names are some of the inputs,   *)
(* and there is one.                                                        *)
LEMMA Inputs ==
    ASSUME TypeOK, NEW v \in Verifiers, NEW step \in Steps
    PROVE  /\ InputsOf(v, step) \in SUBSET (Files \cup {Listing})
           /\ step \in Strict \cup Lexical /\ Named(snap[v]) # {} => InputsOf(v, step) # {}
BY DEF TypeOK, InputsOf, AllInputs, Named, Strict, Lexical, Steps

(* Each pass is followed by a step of the verification.                     *)
LEMMA Order ==
    ASSUME NEW step \in Strict \cup Lexical
    PROVE  Following[step] \in Steps
BY DEF Following, Strict, Lexical, Steps

(* What a receipt says is a configuration and a commit.                     *)
LEMMA ReceiptType ==
    ASSUME TypeOK, NEW v \in Verifiers
    PROVE  Receipt(v) \in Receipts
<1>1. Config(v) \in Configs  BY DEF TypeOK, Config, Configs, Version
<1>. QED  BY <1>1 DEF TypeOK, Receipt, Receipts

LEMMA TypeInit == Init => TypeOK
<1>. SUFFICES ASSUME Init PROVE TypeOK  OBVIOUS
<1>1. \A f \in Files : [bytes |-> Blobs[head][f], id |-> 1] \in Version
    BY VerificationAssumption DEF Init, Version, Configs
<1>2. NoVersion \in Version  BY DEF NoVersion, Version
<1>. QED  BY <1>1, <1>2 DEF Init, TypeOK, Steps, Strict, Lexical

(* What keeps the passes typed: where a pass begins, it has an input left.   *)
Pending(v) == pc[v] \in Strict \cup Lexical => unread[v] # {}

LEMMA TypeStep ==
    ASSUME TypeOK, NEW v \in Verifiers, HasNames(v), Step(v)
    PROVE  TypeOK'
<1>. USE DEF Goto, End, Fault
<1>1. disk' \in [Files -> Version] /\ head' \in Commits /\ store' \subseteq Receipts
    <2>1. disk' = disk /\ head' = head
        BY DEF Step, Begin, Load, Relist, Check, Refuse, ScanSources, ScanTargets, ResolveHead,
               CompareBlobs, Lookup, Link, Sync, Rollback, Crash, world
    <2>2. store' \subseteq store \cup {Receipt(v)}
        BY DEF Step, Begin, Load, Relist, Check, Refuse, ScanSources, ScanTargets, ResolveHead,
               CompareBlobs, Lookup, Link, Sync, Rollback, Crash, world
    <2>. QED  BY <2>1, <2>2, ReceiptType DEF TypeOK
<1>2. pc' \in [Verifiers -> Steps] /\ outcome' \in [Verifiers -> {"none", "ok", "drift", "blocked", "failed", "stuck", "crashed"}]
    <2>1. CASE Check(v)
        BY <2>1, Order DEF Check, TypeOK, Steps
    <2>2. CASE ~Check(v)
        <3>. DEFINE Moved == \E step \in Steps : pc' = [pc EXCEPT ![v] = step]
                    Told == \/ outcome' = outcome
                            \/ \E how \in {"ok", "blocked", "failed", "stuck", "crashed"} :
                                    outcome' = [outcome EXCEPT ![v] = how]
        <3>1. ASSUME Begin(v) PROVE Moved /\ Told  BY <3>1 DEF Begin, Steps
        <3>2. ASSUME Load(v) PROVE Moved /\ Told  BY <3>2 DEF Load, Steps
        <3>3. ASSUME Relist(v) PROVE Moved /\ Told  BY <3>3 DEF Relist, AfterLoad, Steps, Strict
        <3>4. ASSUME Refuse(v) PROVE Moved /\ Told  BY <3>4 DEF Refuse, Steps, Strict
        <3>5. ASSUME ScanSources(v) \/ ScanTargets(v) \/ ResolveHead(v) \/ CompareBlobs(v) PROVE Moved /\ Told
            BY <3>5 DEF ScanSources, ScanTargets, ResolveHead, CompareBlobs, Steps, Strict, Lexical
        <3>6. ASSUME Lookup(v) \/ Link(v) \/ Sync(v) \/ Rollback(v) \/ Crash(v) PROVE Moved /\ Told
            BY <3>6 DEF Lookup, Link, Sync, Rollback, Crash, Steps
        <3>7. Moved /\ Told  BY <2>2, <3>1, <3>2, <3>3, <3>4, <3>5, <3>6 DEF Step
        <3>. QED  BY <3>7 DEF TypeOK
    <2>. QED  BY <2>1, <2>2
<1>3. snap' \in [Verifiers -> [Files -> Version]]
    <2>1. CASE Begin(v)  BY <2>1 DEF Begin, TypeOK
    <2>2. CASE Load(v)
        <3>1. PICK f \in Files : snap' = [snap EXCEPT ![v] = [@ EXCEPT ![f] = disk[f]]] \/ snap' = snap
            BY <2>2 DEF Load
        <3>2. [snap[v] EXCEPT ![f] = disk[f]] \in [Files -> Version]
            BY DEF TypeOK
        <3>. QED  BY <3>1, <3>2 DEF TypeOK
    <2>3. CASE ~Begin(v) /\ ~Load(v)
        <3>1. snap' = snap
            BY <2>3 DEF Step, Relist, Check, Refuse, ScanSources, ScanTargets, ResolveHead,
                   CompareBlobs, Lookup, Link, Sync, Rollback, Crash, work
        <3>. QED  BY <3>1 DEF TypeOK
    <2>. QED  BY <2>1, <2>2, <2>3
<1>4. /\ verdict' \in [Verifiers -> BOOLEAN] /\ linked' \in [Verifiers -> BOOLEAN]
      /\ commit' \in [Verifiers -> Commits \cup {NoCommit}]
    BY DEF TypeOK, Step, Begin, Load, Relist, Check, Refuse, ScanSources, ScanTargets, ResolveHead,
           CompareBlobs, Lookup, Link, Sync, Rollback, Crash, work
<1>5. steady' \in [Verifiers -> BOOLEAN]
    <2>1. Captured(v) \in BOOLEAN  BY DEF Captured
    <2>2. steady' = steady \/ \E b \in BOOLEAN : steady' = [steady EXCEPT ![v] = b]
        BY <2>1 DEF TypeOK, Step, Begin, Load, Relist, Check, Refuse, ScanSources, ScanTargets, ResolveHead,
               CompareBlobs, Lookup, Link, Sync, Rollback, Crash
    <2>. QED  BY <2>2 DEF TypeOK
<1>6. faults' \in Nat /\ writes' \in Nat /\ moves' \in Nat /\ crashes' \in Nat
    BY DEF TypeOK, Step, Begin, Load, Relist, Check, Refuse, ScanSources, ScanTargets, ResolveHead,
           CompareBlobs, Lookup, Link, Sync, Rollback, Crash, budget
<1>7. /\ unread' \in [Verifiers -> SUBSET (Files \cup {Listing})]
      /\ \A w \in Verifiers : Pending(w)'
    <2>. DEFINE All == Files \cup {Listing}
    <2>1. ASSUME NEW U \in SUBSET All, NEW step \in Steps,
                 unread' = [unread EXCEPT ![v] = U], pc' = [pc EXCEPT ![v] = step],
                 step \in Strict \cup Lexical => U # {}
          PROVE  <1>7
        BY <2>1 DEF TypeOK, Pending
    <2>2. ASSUME unread' = unread, NEW step \in Steps \ (Strict \cup Lexical), 
                 pc' = [pc EXCEPT ![v] = step]
          PROVE  <1>7
        BY <2>2 DEF TypeOK, Pending
    <2>3. \A step \in Steps : InputsOf(v, step) \in SUBSET All
                /\ (step \in Strict \cup Lexical /\ pc[v] \notin {"idle", "done"} => InputsOf(v, step) # {})
        BY Inputs DEF HasNames
    <2>4. CASE Begin(v)
        <3>1. (Files \ Optional) \cup Listed(disk) \in SUBSET All  BY DEF Listed, Named
        <3>2. CASE Listed(disk) # {}
            BY <2>4, <3>1, <3>2, <2>1 DEF Begin, Steps, Strict, Lexical
        <3>3. CASE Listed(disk) = {}
            BY <2>4, <3>3, <2>1 DEF Begin, Steps, Strict, Lexical
        <3>. QED  BY <3>2, <3>3
    <2>5. CASE Load(v)
        <3>1. PICK f \in Files : \/ unread' = [unread EXCEPT ![v] = @ \ {f}]
                                     /\ Goto(v, IF unread[v] = {f} THEN "relist" ELSE "load")
                                 \/ End(v, "failed")
            BY <2>5 DEF Load
        <3>2. unread[v] \ {f} \in SUBSET All  BY DEF TypeOK
        <3>. QED  BY <3>1, <3>2, <2>1 DEF Steps, Strict, Lexical, TypeOK
    <2>6. CASE Relist(v)
        <3>1. pc[v] \notin {"idle", "done"} /\ AfterLoad \in Steps
            BY <2>6 DEF Relist, AfterLoad, Steps, Strict
        <3>2. CASE unread' = [unread EXCEPT ![v] = InputsOf(v, AfterLoad)] /\ Goto(v, AfterLoad)
            BY <3>1, <3>2, <2>1, <2>3
        <3>3. CASE End(v, "failed")
            BY <3>3, <2>1 DEF Steps, Strict, Lexical
        <3>. QED  BY <2>6, <3>2, <3>3 DEF Relist
    <2>7. CASE Check(v)
        <3>1. PICK x \in All :
                 /\ Reads(v, x)
                 /\ \/ unread[v] # {x} /\ unread' = [unread EXCEPT ![v] = @ \ {x}] /\ pc' = pc
                    \/ /\ unread' = [unread EXCEPT ![v] = InputsOf(v, Following[pc[v]])]
                       /\ Goto(v, Following[pc[v]])
                    \/ End(v, "drift")
            BY <2>7 DEF Check
        <3>2. pc[v] \in Strict \cup Lexical /\ Following[pc[v]] \in Steps /\ pc[v] \notin {"idle", "done"}
            BY <2>7, Order DEF Check, Strict, Lexical
        <3>3. CASE unread[v] # {x} /\ unread' = [unread EXCEPT ![v] = @ \ {x}] /\ pc' = pc
            <4>1. unread[v] \ {x} \in SUBSET All /\ unread[v] \ {x} # {} /\ pc' = [pc EXCEPT ![v] = pc[v]]
                BY <3>1, <3>3 DEF Reads, TypeOK
            <4>. QED  BY <3>3, <4>1, <2>1 DEF TypeOK
        <3>4. CASE unread' = [unread EXCEPT ![v] = InputsOf(v, Following[pc[v]])] /\ Goto(v, Following[pc[v]])
            BY <3>2, <3>4, <2>1, <2>3
        <3>5. CASE End(v, "drift")
            BY <3>5, <2>1 DEF Steps, Strict, Lexical
        <3>. QED  BY <3>1, <3>3, <3>4, <3>5
    <2>8. CASE Refuse(v)
        <3>1. pc[v] \notin {"idle", "done"} /\ "bound" \in Steps
            BY <2>8 DEF Refuse, Steps, Strict, Lexical
        <3>2. CASE unread' = [unread EXCEPT ![v] = InputsOf(v, "bound")] /\ Goto(v, "bound")
            BY <3>1, <3>2, <2>1, <2>3
        <3>3. CASE End(v, "blocked")
            BY <3>3, <2>1 DEF Steps, Strict, Lexical
        <3>. QED  BY <2>8, <3>2, <3>3 DEF Refuse
    <2>9. CASE ScanSources(v) \/ Lookup(v) \/ Link(v) \/ Sync(v) \/ Rollback(v) \/ Crash(v)
        <3>1. \/ \E step \in {"targets", "link", "sync", "rollback"} : unread' = unread /\ Goto(v, step)
              \/ \E how \in {"ok", "failed", "stuck", "crashed"} : End(v, how)
            BY <2>9 DEF ScanSources, Lookup, Link, Sync, Rollback, Crash
        <3>2. CASE \E step \in {"targets", "link", "sync", "rollback"} : unread' = unread /\ Goto(v, step)
            BY <3>2, <2>2 DEF Steps, Strict, Lexical
        <3>3. CASE \E how \in {"ok", "failed", "stuck", "crashed"} : End(v, how)
            BY <3>3, <2>1 DEF Steps, Strict, Lexical
        <3>. QED  BY <3>1, <3>2, <3>3
    <2>10. CASE ScanTargets(v) \/ ResolveHead(v) \/ CompareBlobs(v)
        <3>1. pc[v] \notin {"idle", "done"} /\ {"bind", "bound", "relexical"} \subseteq Steps
            BY <2>10 DEF ScanTargets, ResolveHead, CompareBlobs, Steps, Strict, Lexical
        <3>2. \/ \E step \in {"bind", "bound", "relexical"} :
                    unread' = [unread EXCEPT ![v] = InputsOf(v, step)] /\ Goto(v, step)
              \/ unread' = unread /\ Goto(v, "compare")
            BY <2>10 DEF ScanTargets, ResolveHead, CompareBlobs
        <3>3. CASE unread' = unread /\ Goto(v, "compare")
            BY <3>3, <2>2 DEF Steps, Strict, Lexical
        <3>4. CASE \E step \in {"bind", "bound", "relexical"} :
                    unread' = [unread EXCEPT ![v] = InputsOf(v, step)] /\ Goto(v, step)
            <4>1. PICK step \in {"bind", "bound", "relexical"} :
                    unread' = [unread EXCEPT ![v] = InputsOf(v, step)] /\ Goto(v, step)
                BY <3>4
            <4>. QED  BY <3>1, <4>1, <2>1, <2>3
        <3>. QED  BY <3>2, <3>3, <3>4
    <2>. QED  BY <2>4, <2>5, <2>6, <2>7, <2>8, <2>9, <2>10 DEF Step
<1>. QED  BY <1>1, <1>2, <1>3, <1>4, <1>5, <1>6, <1>7 DEF TypeOK, Pending
------------------------------------------------------------------------------
(* One verification.                                                        *)

(* A step of one verification leaves the files and all others alone.        *)
SameAt(w) ==
    /\ pc'[w] = pc[w] /\ unread'[w] = unread[w] /\ snap'[w] = snap[w] /\ commit'[w] = commit[w]
    /\ linked'[w] = linked[w] /\ outcome'[w] = outcome[w] /\ steady'[w] = steady[w]

LEMMA OnlyOwn ==
    ASSUME TypeOK, NEW v \in Verifiers, Step(v)
    PROVE  disk' = disk /\ \A w \in Verifiers \ {v} : SameAt(w)
<1>. USE DEF TypeOK, SameAt, Goto, End, world, work
<1>1. CASE Begin(v) \/ Load(v) \/ Relist(v)  BY <1>1 DEF Begin, Load, Relist
<1>2. CASE Check(v)
    <2>1. steady' = steady \/ \E b \in BOOLEAN : steady' = [steady EXCEPT ![v] = b]
        BY <1>2 DEF Check, Captured
    <2>2. \/ unread' = [unread EXCEPT ![v] = {}]
          \/ \E U \in SUBSET (Files \cup {Listing}) : unread' = [unread EXCEPT ![v] = U]
          \/ \E U : unread' = [unread EXCEPT ![v] = U]
        BY <1>2 DEF Check
    <2>3. pc' = pc \/ \E step : pc' = [pc EXCEPT ![v] = step]
        BY <1>2 DEF Check
    <2>. QED  BY <1>2, <2>1, <2>2, <2>3 DEF Check
<1>3. CASE Refuse(v) \/ ScanSources(v) \/ ScanTargets(v) \/ ResolveHead(v) \/ CompareBlobs(v)
    BY <1>3 DEF Refuse, ScanSources, ScanTargets, ResolveHead, CompareBlobs
<1>4. CASE Lookup(v) \/ Link(v) \/ Sync(v) \/ Rollback(v) \/ Crash(v)
    BY <1>4 DEF Lookup, Link, Sync, Rollback, Crash
<1>. QED  BY <1>1, <1>2, <1>3, <1>4 DEF Step

LEMMA Frame ==
    ASSUME NEW w \in Verifiers, disk' = disk, SameAt(w), Local(w)
    PROVE  Local(w)'
BY DEF SameAt, Local, Fresh, HasNames, Passes, Compared, Settled, Lagging, Differs, Named, Config

(* What the actor of a step keeps.                                          *)
LEMMA FreshStep ==
    ASSUME TypeOK, NEW v \in Verifiers, Local(v), Step(v)
    PROVE  Fresh(v)'
<1>1. disk' = disk  BY OnlyOwn
<1>2. CASE Begin(v)  BY <1>1, <1>2 DEF Begin, Fresh, Local, TypeOK, Version
<1>3. CASE Load(v)
    <2>1. PICK f \in Files : snap' = [snap EXCEPT ![v][f] = disk[f]] \/ snap' = snap
        BY <1>3 DEF Load
    <2>2. \A g \in Files : snap'[v][g] = snap[v][g] \/ snap'[v][g] = disk[g]
        BY <2>1 DEF TypeOK
    <2>3. \A g \in Files : disk[g].id \in Nat  BY DEF TypeOK, Version
    <2>. QED  BY <1>1, <2>2, <2>3 DEF Fresh, Local
<1>4. CASE ~Begin(v) /\ ~Load(v)
    <2>1. snap' = snap
        BY <1>4 DEF Step, Relist, Check, Refuse, ScanSources, ScanTargets, ResolveHead,
               CompareBlobs, Lookup, Link, Sync, Rollback, Crash, work
    <2>. QED  BY <1>1, <2>1 DEF Fresh, Local
<1>. QED  BY <1>2, <1>3, <1>4

LEMMA NamesStep ==
    ASSUME TypeOK, NEW v \in Verifiers, Local(v), Step(v)
    PROVE  HasNames(v)'
<1>. USE DEF Goto, End
<1>1. CASE Begin(v)
    <2>1. Listed(disk) # {} => Named(disk) # {}  BY DEF Listed
    <2>. QED  BY <1>1, <2>1 DEF Begin, HasNames, TypeOK, Named
<1>2. CASE Load(v)
    <2>1. PICK f \in Files : \/ disk[f].bytes # NoContent /\ snap' = [snap EXCEPT ![v][f] = disk[f]]
                             \/ pc' = [pc EXCEPT ![v] = "done"]
        BY <1>2 DEF Load
    <2>2. CASE snap' = [snap EXCEPT ![v][f] = disk[f]] /\ disk[f].bytes # NoContent
        <3>1. snap'[v][f] = disk[f]  BY <2>2 DEF TypeOK
        <3>. QED  BY <2>2, <3>1 DEF HasNames, Named
    <2>3. CASE pc' = [pc EXCEPT ![v] = "done"]  BY <2>3 DEF HasNames, TypeOK
    <2>. QED  BY <2>1, <2>2, <2>3
<1>3. CASE ~Begin(v) /\ ~Load(v)
    <2>1. snap' = snap /\ pc[v] \notin {"idle", "done"}
        BY <1>3 DEF Step, Relist, Check, Refuse, ScanSources, ScanTargets, ResolveHead,
               CompareBlobs, Lookup, Link, Sync, Rollback, Crash, work, Strict, Lexical
    <2>. QED  BY <2>1 DEF HasNames, Local, Named
<1>. QED  BY <1>1, <1>2, <1>3

LEMMA SettledStep ==
    ASSUME TypeOK, NEW v \in Verifiers, Local(v), Step(v)
    PROVE  Settled(v)'
<1>. USE DEF Goto, End, TypeOK, Local, Settled
<1>1. CASE Begin(v) \/ Load(v) \/ Relist(v)
    BY <1>1 DEF Begin, Load, Relist, AfterLoad, work
<1>2. CASE Check(v)
    <2>1. linked' = linked /\ ~linked[v] /\ outcome[v] = "none"
        BY <1>2 DEF Check, work, Strict, Lexical
    <2>2. outcome' = outcome \/ pc'[v] = "done"
        BY <1>2 DEF Check
    <2>. QED  BY <2>1, <2>2
<1>3. CASE Refuse(v)
    BY <1>3 DEF Refuse, Strict, Lexical
<1>4. CASE ScanSources(v) \/ ScanTargets(v) \/ ResolveHead(v) \/ CompareBlobs(v)
    BY <1>4 DEF ScanSources, ScanTargets, ResolveHead, CompareBlobs, work
<1>5. CASE Lookup(v) \/ Link(v) \/ Sync(v) \/ Rollback(v) \/ Crash(v)
    BY <1>5 DEF Lookup, Link, Sync, Rollback, Crash, work
<1>. QED  BY <1>1, <1>2, <1>3, <1>4, <1>5 DEF Step

LEMMA ComparedStep ==
    ASSUME TypeOK, NEW v \in Verifiers, Local(v), Step(v)
    PROVE  Compared(v)'
<1>. USE DEF Goto, End, TypeOK, Local, Compared, Early, Config
<1>1. CASE Begin(v) \/ Relist(v)
    BY <1>1 DEF Begin, Relist, AfterLoad, work
<1>2. CASE Load(v)
    <2>1. commit' = commit /\ commit[v] = NoCommit  BY <1>2 DEF Load
    <2>. QED  BY <2>1
<1>3. CASE Check(v)
    <2>1. commit' = commit /\ snap' = snap  BY <1>3 DEF Check, work
    <2>2. \/ pc'[v] = pc[v]
          \/ pc[v] = "recheck" /\ pc'[v] = "scan"
          \/ pc[v] = "bind" /\ pc'[v] = "lexical"
          \/ pc[v] = "lexical" /\ pc'[v] = "resolve"
          \/ pc[v] = "relexical" /\ pc'[v] = "bound"
          \/ pc[v] = "bound" /\ pc'[v] = "final"
          \/ pc[v] = "final" /\ pc'[v] = "lookup"
          \/ pc'[v] = "done"
        BY <1>3 DEF Check, Following, Strict, Lexical
    <2>. QED  BY <2>1, <2>2
<1>4. CASE Refuse(v)  BY <1>4 DEF Refuse, Strict, Lexical
<1>5. CASE ScanSources(v) \/ ScanTargets(v)  BY <1>5 DEF ScanSources, ScanTargets, work
<1>6. CASE ResolveHead(v)  BY <1>6 DEF ResolveHead
<1>7. CASE CompareBlobs(v)  BY <1>7 DEF CompareBlobs, BlobsOf
<1>8. CASE Lookup(v) \/ Link(v) \/ Sync(v) \/ Rollback(v) \/ Crash(v)
    BY <1>8 DEF Lookup, Link, Sync, Rollback, Crash, work
<1>. QED  BY <1>1, <1>2, <1>3, <1>4, <1>5, <1>6, <1>7, <1>8 DEF Step
(* A pass starts with all names, so that one that differs is still ahead.   *)
LEMMA StartOfPass ==
    ASSUME NEW v \in Verifiers, NEW step \in Strict \cup Lexical
    PROVE  Named(snap[v]) \subseteq InputsOf(v, step)
BY DEF InputsOf, AllInputs

LEMMA PassesCheck ==
    ASSUME TypeOK, NEW v \in Verifiers, Local(v), Check(v)
    PROVE  Passes(v)'
<1>. USE DEF Goto, End
<1>1. disk' = disk /\ snap' = snap  BY DEF Check, world, work
<1>2. \A f : Differs(v, f)' = Differs(v, f)  BY <1>1 DEF Differs, Named
<1>3. PICK x \in Files \cup {Listing} :
         /\ Reads(v, x) /\ SameInput(v, x)
         /\ \/ unread[v] # {x} /\ unread' = [unread EXCEPT ![v] = @ \ {x}] /\ pc' = pc
            \/ /\ unread[v] = {x} /\ unread' = [unread EXCEPT ![v] = InputsOf(v, Following[pc[v]])]
               /\ pc' = [pc EXCEPT ![v] = Following[pc[v]]]
            \/ pc' = [pc EXCEPT ![v] = "done"]
         /\ steady' = IF pc[v] = "final" /\ x = Listing
                      THEN [steady EXCEPT ![v] = @ /\ Captured(v)] ELSE steady
    BY DEF Check
<1>4. ~Differs(v, x)
    <2>1. x = Listing => x \notin Named(snap[v])
        BY VerificationAssumption DEF Named
    <2>. QED  BY <1>3, <2>1 DEF SameInput, Differs
<1>5. pc[v] \in Strict \cup Lexical  BY DEF Check
(* The history after the step, and that nothing that differs gets through.  *)
<1>6. CASE pc[v] = "final" /\ x = Listing
    <2>1. steady[v] /\ Named(snap[v]) \subseteq unread[v]
        BY <1>3, <1>6 DEF Local, Passes, Reads
    <2>2. steady'[v] = Captured(v)
        <3>1. steady' = [steady EXCEPT ![v] = steady[v] /\ Captured(v)]  BY <1>3, <1>6
        <3>2. (steady[v] /\ Captured(v)) = Captured(v)  BY <2>1 DEF Captured
        <3>3. steady'[v] = (steady[v] /\ Captured(v))  BY <3>1 DEF TypeOK
        <3>. QED  BY <3>2, <3>3
    <2>3. steady'[v] \/ \E f \in unread[v] \ {x} : Differs(v, f)
        <3>1. x \notin Named(snap[v])  BY <1>6, VerificationAssumption DEF Named
        <3>. QED  BY <2>1, <2>2, <3>1 DEF Captured, Differs
    <2>4. CASE unread[v] # {x} /\ unread' = [unread EXCEPT ![v] = @ \ {x}] /\ pc' = pc
        <3>1. unread'[v] = unread[v] \ {x}  BY <2>4 DEF TypeOK
        <3>2. Listing \notin unread'[v] /\ (steady'[v] \/ Lagging(v)')
            BY <3>1, <1>6, <2>3, <1>2 DEF Lagging
        <3>. QED  BY <3>2, <2>4, <1>6 DEF Passes
    <2>5. CASE unread[v] = {x} /\ pc' = [pc EXCEPT ![v] = Following[pc[v]]]
        <3>1. pc'[v] = "lookup" /\ steady'[v]
            BY <2>5, <1>6, <2>3 DEF TypeOK, Following
        <3>. QED  BY <3>1 DEF Passes
    <2>6. CASE pc' = [pc EXCEPT ![v] = "done"]
        BY <2>6 DEF Passes, TypeOK
    <2>. QED  BY <1>3, <2>4, <2>5, <2>6
<1>7. CASE ~(pc[v] = "final" /\ x = Listing)
    <2>1. steady' = steady  BY <1>3, <1>7
    <2>2. pc[v] \in {"recheck", "bind", "final"} => steady[v] \/ \E f \in unread[v] \ {x} : Differs(v, f)
        BY <1>3, <1>4, <1>7 DEF Local, Passes, Lagging, Reads
    <2>3. CASE unread[v] # {x} /\ unread' = [unread EXCEPT ![v] = @ \ {x}] /\ pc' = pc
        <3>1. unread'[v] = unread[v] \ {x}  BY <2>3 DEF TypeOK
        <3>2. steady[v] \/ Lagging(v)' \/ pc[v] \notin {"recheck", "bind", "final"}
            BY <3>1, <2>2, <1>2 DEF Lagging
        <3>3. pc[v] = "final" => Listing \notin unread[v]
            BY <1>3, <1>7 DEF Reads
        <3>. QED  BY <2>1, <2>3, <3>1, <3>2, <3>3, <1>5 DEF Passes, Local, Strict, Lexical
    <2>4. CASE /\ unread[v] = {x} /\ unread' = [unread EXCEPT ![v] = InputsOf(v, Following[pc[v]])]
               /\ pc' = [pc EXCEPT ![v] = Following[pc[v]]]
        <3>1. steady[v]
            BY <2>2, <2>4, <1>5 DEF Local, Passes, Strict, Lexical
        <3>2. pc'[v] = Following[pc[v]] /\ unread'[v] = InputsOf(v, Following[pc[v]])
            BY <2>4 DEF TypeOK
        <3>3. pc'[v] = "final" => Listing \in unread'[v] /\ Named(snap[v]) \subseteq unread'[v]
            BY <3>2 DEF InputsOf, AllInputs, Strict, Lexical
        <3>. QED  BY <2>1, <3>1, <3>3, <1>1 DEF Passes, Named
    <2>5. CASE pc' = [pc EXCEPT ![v] = "done"]
        BY <2>5 DEF Passes, TypeOK
    <2>. QED  BY <1>3, <2>3, <2>4, <2>5
<1>. QED  BY <1>6, <1>7

LEMMA PassesStep ==
    ASSUME TypeOK, NEW v \in Verifiers, Local(v), Step(v)
    PROVE  Passes(v)'
<1>. USE DEF Goto, End
<1>1. CASE Begin(v) \/ Load(v)
    <2>1. pc'[v] \in {"load", "relist", "done"}  BY <1>1 DEF Begin, Load, TypeOK
    <2>. QED  BY <2>1 DEF Passes
<1>2. CASE Relist(v)
    <2>1. CASE /\ steady' = [steady EXCEPT ![v] = Captured(v)]
               /\ unread' = [unread EXCEPT ![v] = InputsOf(v, AfterLoad)]
               /\ pc' = [pc EXCEPT ![v] = AfterLoad]
        <3>1. disk' = disk /\ snap' = snap  BY <1>2 DEF Relist, world, work
        <3>2. pc'[v] = "recheck" /\ unread'[v] = InputsOf(v, "recheck") /\ steady'[v] = Captured(v)
            BY <2>1 DEF TypeOK, AfterLoad
        <3>3. Named(snap[v]) \subseteq unread'[v]
            BY <3>2, StartOfPass DEF Strict
        <3>4. steady'[v] \/ Lagging(v)'
            BY <3>1, <3>2, <3>3 DEF Captured, Lagging, Differs, Named
        <3>. QED  BY <3>2, <3>4 DEF Passes
    <2>2. CASE pc' = [pc EXCEPT ![v] = "done"]
        BY <2>2 DEF Passes, TypeOK
    <2>. QED  BY <1>2, <2>1, <2>2 DEF Relist
<1>3. CASE Check(v)  BY <1>3, PassesCheck
<1>4. CASE Refuse(v)
    <2>1. CASE pc[v] \in Lexical /\ pc' = [pc EXCEPT ![v] = "bound"]
        <3>1. steady[v] /\ steady' = steady /\ pc'[v] = "bound"
            BY <1>4, <2>1 DEF Refuse, Local, Passes, Lexical, TypeOK
        <3>. QED  BY <3>1 DEF Passes
    <2>2. CASE pc' = [pc EXCEPT ![v] = "done"]
        BY <2>2 DEF Passes, TypeOK
    <2>. QED  BY <1>4, <2>1, <2>2 DEF Refuse
<1>5. CASE ScanSources(v)
    <2>1. disk' = disk /\ snap' = snap  BY <1>5 DEF ScanSources, world, work
    <2>2. pc'[v] = "targets" /\ steady'[v] = Captured(v)  BY <1>5 DEF ScanSources, TypeOK
    <2>3. steady'[v] \/ \E f \in Files : Differs(v, f)'
        BY <2>1, <2>2 DEF Captured, Differs, Named
    <2>. QED  BY <2>2, <2>3 DEF Passes
<1>6. CASE ScanTargets(v)
    <2>1. disk' = disk /\ snap' = snap /\ steady' = steady  BY <1>6 DEF ScanTargets, world
    <2>2. pc'[v] = "bind" /\ unread'[v] = InputsOf(v, "bind")  BY <1>6 DEF ScanTargets, TypeOK
    <2>3. Named(snap[v]) \subseteq unread'[v]  BY <2>2, StartOfPass DEF Strict
    <2>4. steady[v] \/ \E f \in Files : Differs(v, f)
        BY <1>6 DEF ScanTargets, Local, Passes
    <2>5. steady'[v] \/ Lagging(v)'
        BY <2>1, <2>3, <2>4 DEF Lagging, Differs, Named
    <2>. QED  BY <2>2, <2>5 DEF Passes
<1>7. CASE ResolveHead(v) \/ CompareBlobs(v)
    <2>1. steady[v] /\ steady' = steady
        BY <1>7 DEF ResolveHead, CompareBlobs, Local, Passes
    <2>2. pc'[v] \in {"compare", "bound", "relexical"}
        BY <1>7 DEF ResolveHead, CompareBlobs, TypeOK
    <2>. QED  BY <2>1, <2>2 DEF Passes
<1>8. CASE Lookup(v)
    <2>1. steady[v] /\ steady' = steady /\ pc'[v] \in {"link", "done"}
        BY <1>8 DEF Lookup, Local, Passes, TypeOK
    <2>. QED  BY <2>1 DEF Passes
<1>9. CASE Link(v) \/ Sync(v) \/ Rollback(v) \/ Crash(v)
    <2>1. pc'[v] \in {"sync", "rollback", "done"}
        BY <1>9 DEF Link, Sync, Rollback, Crash, TypeOK
    <2>. QED  BY <2>1 DEF Passes
<1>. QED  BY <1>1, <1>2, <1>3, <1>4, <1>5, <1>6, <1>7, <1>8, <1>9 DEF Step

LEMMA LocalStep ==
    ASSUME TypeOK, NEW v \in Verifiers, \A w \in Verifiers : Local(w), Step(v)
    PROVE  \A w \in Verifiers : Local(w)'
<1>1. Local(v)'
    BY FreshStep, NamesStep, PassesStep, ComparedStep, SettledStep DEF Local
<1>2. ASSUME NEW w \in Verifiers \ {v} PROVE Local(w)'
    BY OnlyOwn, Frame
<1>. QED  BY <1>1, <1>2

------------------------------------------------------------------------------
(* The world outside.                                                       *)

LEMMA WriteKeepsTypes ==
    ASSUME TypeOK, NEW f \in Files, WriteFile(f)
    PROVE  TypeOK'
<1>1. PICK b \in Contents \cup {NoContent} : disk' = [disk EXCEPT ![f] = [bytes |-> b, id |-> disk[f].id + 1]]
    BY DEF WriteFile
<1>2. [bytes |-> b, id |-> disk[f].id + 1] \in Version
    BY DEF TypeOK, Version
<1>3. disk' \in [Files -> Version]  BY <1>1, <1>2 DEF TypeOK
<1>4. steady' \in [Verifiers -> BOOLEAN]  BY DEF WriteFile, TypeOK
<1>. QED  BY <1>3, <1>4 DEF WriteFile, TypeOK, control, work

LEMMA WriteKeepsLocal ==
    ASSUME TypeOK, NEW f \in Files, WriteFile(f), NEW v \in Verifiers, Local(v)
    PROVE  Local(v)'
<1>1. PICK b : disk' = [disk EXCEPT ![f] = [bytes |-> b, id |-> disk[f].id + 1]]
    BY DEF WriteFile
<1>2. /\ pc' = pc /\ unread' = unread /\ snap' = snap /\ commit' = commit /\ linked' = linked
      /\ outcome' = outcome
      /\ steady'[v] = (steady[v] /\ ~(pc[v] = "targets" /\ f \in Named(snap[v])))
    BY DEF WriteFile, control, work
<1>3. disk'[f].id = disk[f].id + 1 /\ \A g \in Files \ {f} : disk'[g] = disk[g]
    BY <1>1 DEF TypeOK
<1>4. \A g \in Files : disk[g].id \in Nat /\ snap[v][g].id \in Nat
    BY DEF TypeOK, Version
<1>5. Fresh(v)'
    BY <1>2, <1>3, <1>4 DEF Fresh, Local
<1>6. \A g : Differs(v, g) => Differs(v, g)'
    <2>1. snap[v][f].id < disk'[f].id  BY <1>3, <1>4 DEF Fresh, Local
    <2>2. f \in Named(snap[v]) => Differs(v, f)'
        BY <1>2, <1>4, <2>1 DEF Differs, Named
    <2>. QED  BY <1>2, <1>3, <2>2 DEF Differs, Named
<1>7. f \in Named(snap[v]) => Differs(v, f)'
    <2>1. snap[v][f].id < disk'[f].id  BY <1>3, <1>4 DEF Fresh, Local
    <2>. QED  BY <1>2, <1>4, <2>1 DEF Differs, Named
<1>8. Lagging(v) => Lagging(v)'  BY <1>2, <1>6 DEF Lagging
<1>9. Passes(v)'
    <2>1. pc[v] = "targets" => steady'[v] \/ \E g \in Files : Differs(v, g)'
        BY <1>2, <1>6, <1>7 DEF Passes, Local
    <2>2. pc[v] # "targets" => steady'[v] = steady[v]  BY <1>2 DEF TypeOK
    <2>3. Named(snap[v])' = Named(snap[v])  BY <1>2 DEF Named
    <2>. QED  BY <1>2, <1>8, <2>1, <2>2, <2>3 DEF Passes, Local
<1>10. HasNames(v)' /\ Compared(v)' /\ Settled(v)'
    BY <1>2 DEF HasNames, Compared, Settled, Named, Config, Local
<1>. QED  BY <1>5, <1>9, <1>10 DEF Local

------------------------------------------------------------------------------
(* The store of receipts.                                                   *)

(* The receipt of a verification that may have linked it is fixed.          *)
LEMMA ReceiptFixed ==
    ASSUME TypeOK, NEW v \in Verifiers, Step(v), \A w \in Verifiers : Settled(w)
    PROVE  /\ \A w \in Verifiers : linked[w] => Receipt(w)' = Receipt(w)
           /\ \A w \in Verifiers : pc[w] \in {"lookup", "link", "sync", "rollback", "done"}
                  => Receipt(w)' = Receipt(w)
<1>1. ASSUME NEW w \in Verifiers, pc[w] \in {"lookup", "link", "sync", "rollback", "done"}
      PROVE  Receipt(w)' = Receipt(w)
    <2>1. snap'[w] = snap[w] /\ commit'[w] = commit[w]
        <3>1. CASE w # v  BY <3>1, OnlyOwn DEF SameAt
        <3>2. CASE w = v
            BY <3>2, <1>1 DEF Step, Begin, Load, Relist, Check, Refuse, ScanSources, ScanTargets,
                   ResolveHead, CompareBlobs, Lookup, Link, Sync, Rollback, Crash, work, Strict, Lexical
        <3>. QED  BY <3>1, <3>2
    <2>. QED  BY <2>1 DEF Receipt, Config
<1>. QED  BY <1>1 DEF Settled

LEMMA StoreStep ==
    ASSUME TypeOK, TypeOK', NEW v \in Verifiers, Step(v),
           \A w \in Verifiers : Local(w), \A w \in Verifiers : Local(w)',
           CommitExact, StoredIsVouched, \A w \in Verifiers : Kept(w)
    PROVE  CommitExact' /\ StoredIsVouched' /\ \A w \in Verifiers : Kept(w)'
<1>. USE DEF Goto, End
<1>1. \A w \in Verifiers \ {v} : SameAt(w)  BY OnlyOwn
<1>2. /\ \A w \in Verifiers : linked[w] => Receipt(w)' = Receipt(w)
      /\ \A w \in Verifiers : pc[w] \in {"lookup", "link", "sync", "rollback", "done"}
             => Receipt(w)' = Receipt(w)
    BY ReceiptFixed DEF Local
<1>3. \A w \in Verifiers : Settled(w) /\ Settled(w)'  BY DEF Local
(* Witnesses: who linked a receipt and failed stays so.                     *)
<1>4. ASSUME NEW w \in Verifiers, linked[w], outcome[w] = "failed"
      PROVE  linked'[w] /\ outcome'[w] = "failed" /\ Receipt(w)' = Receipt(w)
    <2>1. pc[w] = "done"  BY <1>4, <1>3 DEF Settled
    <2>2. w # v
        BY <2>1 DEF Step, Begin, Load, Relist, Check, Refuse, ScanSources, ScanTargets,
               ResolveHead, CompareBlobs, Lookup, Link, Sync, Rollback, Crash, Strict, Lexical
    <2>. QED  BY <2>2, <1>1, <1>2, <1>4 DEF SameAt
<1>5. CASE ~Link(v) /\ ~Rollback(v)
    <2>1. store' = store /\ linked' = linked
        BY <1>5 DEF Step, Begin, Load, Relist, Check, Refuse, ScanSources, ScanTargets,
               ResolveHead, CompareBlobs, Lookup, Sync, Crash, world, work
    <2>2. linked[v] => outcome'[v] # "failed" \/ outcome'[v] = outcome[v]
        BY <1>5, <1>3 DEF Settled, Step, Begin, Load, Relist, Check, Refuse, ScanSources, ScanTargets,
               ResolveHead, CompareBlobs, Lookup, Sync, Crash, Strict, Lexical, TypeOK
    <2>3. CommitExact'  BY <2>1 DEF CommitExact
    <2>4. StoredIsVouched'
        BY <2>1, <2>2, <1>1, <1>2 DEF StoredIsVouched, SameAt
    <2>5. outcome'[v] = "ok" \/ pc'[v] = "sync" =>
              /\ pc[v] \in {"lookup", "link", "sync", "rollback", "done"}
              /\ outcome[v] = "ok" \/ pc[v] = "sync" \/ Receipt(v) \in store
        <3>1. CASE Lookup(v) \/ Sync(v) \/ Crash(v)
            BY <3>1, <1>3 DEF Lookup, Sync, Crash, Settled, TypeOK
        <3>2. CASE Check(v)
            <4>1. outcome'[v] # "ok" /\ pc'[v] # "sync"
                BY <3>2, <1>3 DEF Check, Settled, TypeOK, Strict, Lexical, Following
            <4>. QED  BY <4>1
        <3>3. CASE Begin(v) \/ Load(v) \/ Relist(v) \/ Refuse(v) \/ ScanSources(v) \/ ScanTargets(v)
                   \/ ResolveHead(v) \/ CompareBlobs(v)
            <4>1. outcome'[v] # "ok" /\ pc'[v] # "sync"
                BY <3>3, <1>3 DEF Begin, Load, Relist, Refuse, ScanSources, ScanTargets, ResolveHead,
                       CompareBlobs, Settled, TypeOK, AfterLoad, Strict, Lexical
            <4>. QED  BY <4>1
        <3>. QED  BY <3>1, <3>2, <3>3, <1>5 DEF Step
    <2>6. ASSUME NEW w \in Verifiers, outcome'[w] = "ok" \/ pc'[w] = "sync"
          PROVE  \/ Receipt(w)' \in store'
                 \/ \E u \in Verifiers : linked'[u] /\ outcome'[u] = "failed" /\ Receipt(u)' = Receipt(w)'
        <3>1. /\ Receipt(w)' = Receipt(w)
              /\ outcome[w] = "ok" \/ pc[w] = "sync" \/ Receipt(w) \in store
            <4>1. CASE w = v  BY <4>1, <2>5, <2>6, <1>2
            <4>2. CASE w # v
                <5>1. outcome[w] = "ok" \/ pc[w] = "sync"  BY <4>2, <2>6, <1>1 DEF SameAt
                <5>2. pc[w] \in {"sync", "done"}  BY <5>1, <1>3 DEF Settled
                <5>. QED  BY <5>1, <5>2, <1>2
            <4>. QED  BY <4>1, <4>2
        <3>2. \/ Receipt(w) \in store
              \/ \E u \in Verifiers : linked[u] /\ outcome[u] = "failed" /\ Receipt(u) = Receipt(w)
            BY <3>1 DEF Kept
        <3>. QED  BY <3>1, <3>2, <2>1, <1>4
    <2>. QED  BY <2>3, <2>4, <2>6 DEF Kept
<1>6. CASE Link(v)
    <2>1. \/ store' = store \cup {Receipt(v)} /\ linked' = [linked EXCEPT ![v] = Receipt(v) \notin store]
             /\ outcome' = outcome /\ pc'[v] = "sync"
          \/ store' = store /\ linked' = linked /\ outcome'[v] = "failed" /\ pc'[v] = "done"
        BY <1>6 DEF Link, TypeOK
    <2>2. ~linked[v] /\ outcome[v] = "none" /\ pc[v] = "link"  BY <1>6, <1>3 DEF Link, Settled
    <2>3. \A w \in Verifiers \ {v} : linked'[w] = linked[w] /\ outcome'[w] = outcome[w] /\ pc'[w] = pc[w]
        BY <1>1 DEF SameAt
    <2>4. CommitExact'
        <3>1. commit[v] # NoCommit => Blobs[commit[v]] = Config(v)
            BY <2>2 DEF Local, Compared
        <3>. QED  BY <2>1, <3>1 DEF CommitExact, Receipt
    <2>5. StoredIsVouched'
        <3>1. SUFFICES ASSUME NEW r \in store'
              PROVE \E w \in Verifiers : linked'[w] /\ Receipt(w)' = r /\ outcome'[w] # "failed"
            BY DEF StoredIsVouched
        <3>2. CASE r \in store
            <4>1. PICK w \in Verifiers : linked[w] /\ Receipt(w) = r /\ outcome[w] # "failed"
                BY <3>2 DEF StoredIsVouched
            <4>. QED  BY <4>1, <2>2, <2>3, <1>2
        <3>3. CASE r \notin store
            <4>1. r = Receipt(v) /\ linked'[v] /\ outcome'[v] = "none"
                BY <3>3, <2>1, <2>2 DEF TypeOK
            <4>. QED  BY <4>1, <2>2, <1>2
        <3>. QED  BY <3>2, <3>3
    <2>6. \A w \in Verifiers : Kept(w)'
        <3>1. ASSUME NEW w \in Verifiers, outcome'[w] = "ok" \/ pc'[w] = "sync"
              PROVE  \/ Receipt(w)' \in store'
                     \/ \E u \in Verifiers : linked'[u] /\ outcome'[u] = "failed" /\ Receipt(u)' = Receipt(w)'
            <4>1. CASE w = v  BY <4>1, <3>1, <2>1, <2>2, <1>2
            <4>2. CASE w # v
                <5>1. (outcome[w] = "ok" \/ pc[w] = "sync") /\ pc[w] \in {"sync", "done"}
                    BY <4>2, <3>1, <2>3, <1>3 DEF Settled
                <5>2. Receipt(w)' = Receipt(w)  BY <5>1, <1>2
                <5>3. store \subseteq store'  BY <2>1
                <5>. QED  BY <5>1, <5>2, <5>3, <1>4 DEF Kept
            <4>. QED  BY <4>1, <4>2
        <3>. QED  BY <3>1 DEF Kept
    <2>. QED  BY <2>4, <2>5, <2>6
<1>7. CASE Rollback(v)
    <2>1. \/ linked[v] /\ store' = store \ {Receipt(v)} /\ outcome'[v] = "failed"
          \/ ~linked[v] /\ store' = store /\ outcome'[v] = "failed"
          \/ linked[v] /\ store' = store /\ outcome'[v] = "stuck"
        BY <1>7 DEF Rollback, Published, TypeOK
    <2>2. linked' = linked /\ pc[v] = "rollback" /\ pc'[v] = "done"
        BY <1>7 DEF Rollback, work, TypeOK
    <2>3. \A w \in Verifiers \ {v} : outcome'[w] = outcome[w] /\ pc'[w] = pc[w]
        BY <1>1 DEF SameAt
    <2>4. CommitExact'  BY <2>1 DEF CommitExact
    <2>5. StoredIsVouched'
        <3>1. SUFFICES ASSUME NEW r \in store'
              PROVE \E w \in Verifiers : linked'[w] /\ Receipt(w)' = r /\ outcome'[w] # "failed"
            BY DEF StoredIsVouched
        <3>2. PICK w \in Verifiers : linked[w] /\ Receipt(w) = r /\ outcome[w] # "failed"
            BY <2>1 DEF StoredIsVouched
        <3>3. w = v => outcome'[v] # "failed"  BY <2>1, <3>2
        <3>. QED  BY <3>2, <3>3, <2>2, <2>3, <1>2
    <2>6. ASSUME NEW w \in Verifiers, outcome'[w] = "ok" \/ pc'[w] = "sync"
          PROVE  \/ Receipt(w)' \in store'
                 \/ \E u \in Verifiers : linked'[u] /\ outcome'[u] = "failed" /\ Receipt(u)' = Receipt(w)'
        <3>1. w # v  BY <2>1, <2>2, <2>6
        <3>2. (outcome[w] = "ok" \/ pc[w] = "sync") /\ pc[w] \in {"sync", "done"}
            BY <3>1, <2>3, <2>6, <1>3 DEF Settled
        <3>3. Receipt(w)' = Receipt(w) /\ Receipt(v)' = Receipt(v)  BY <3>2, <2>2, <1>2
        <3>4. CASE Receipt(w) \in store
            BY <3>3, <3>4, <2>1, <2>2
        <3>5. CASE \E u \in Verifiers : linked[u] /\ outcome[u] = "failed" /\ Receipt(u) = Receipt(w)
            BY <3>3, <3>5, <1>4
        <3>. QED  BY <3>2, <3>4, <3>5 DEF Kept
    <2>. QED  BY <2>4, <2>5, <2>6 DEF Kept
<1>. QED  BY <1>5, <1>6, <1>7

------------------------------------------------------------------------------
LEMMA StoreFrame ==
    ASSUME store' = store, snap' = snap, commit' = commit, linked' = linked, outcome' = outcome,
           pc' = pc, CommitExact, StoredIsVouched, \A v \in Verifiers : Kept(v)
    PROVE  CommitExact' /\ StoredIsVouched' /\ \A v \in Verifiers : Kept(v)'
<1>1. \A v : Receipt(v)' = Receipt(v)  BY DEF Receipt, Config
<1>2. CommitExact'  BY DEF CommitExact
<1>3. StoredIsVouched'  BY <1>1 DEF StoredIsVouched
<1>4. \A v \in Verifiers : Kept(v)'  BY <1>1 DEF Kept
<1>. QED  BY <1>2, <1>3, <1>4

LEMMA InvInit == Init => VInv
<1>. SUFFICES ASSUME Init PROVE VInv  OBVIOUS
<1>1. \A v \in Verifiers : Local(v)
    BY DEF Init, Local, Fresh, HasNames, Passes, Compared, Settled, Early, NoVersion
<1>2. CommitExact /\ StoredIsVouched /\ \A v \in Verifiers : Kept(v)
    BY DEF Init, CommitExact, StoredIsVouched, Kept
<1>. QED  BY <1>1, <1>2, TypeInit DEF VInv

LEMMA InvNext == VInv /\ [Next]_vars => VInv'
<1>. SUFFICES ASSUME VInv, [Next]_vars PROVE VInv'  OBVIOUS
<1>. USE DEF VInv
<1>1. ASSUME NEW v \in Verifiers, Step(v) PROVE VInv'
    <2>1. TypeOK'  BY <1>1, TypeStep DEF Local
    <2>2. \A w \in Verifiers : Local(w)'  BY <1>1, LocalStep
    <2>. QED  BY <1>1, <2>1, <2>2, StoreStep
<1>2. ASSUME NEW f \in Files, WriteFile(f) PROVE VInv'
    <2>1. TypeOK' /\ \A v \in Verifiers : Local(v)'
        BY <1>2, WriteKeepsTypes, WriteKeepsLocal
    <2>2. UNCHANGED <<store, control, work, outcome>>  BY <1>2 DEF WriteFile
    <2>3. CommitExact' /\ StoredIsVouched' /\ \A v \in Verifiers : Kept(v)'
        BY <2>2, StoreFrame DEF control, work
    <2>. QED  BY <2>1, <2>3
<1>3. CASE MoveHead
    <2>1. UNCHANGED <<disk, store, control, work, outcome, steady>> /\ head' \in Commits
        BY <1>3 DEF MoveHead
    <2>2. TypeOK'  BY <1>3, <2>1 DEF MoveHead, TypeOK, control, work
    <2>3. \A v \in Verifiers : Local(v)'
        BY <2>1, Frame DEF SameAt, control, work
    <2>4. CommitExact' /\ StoredIsVouched' /\ \A v \in Verifiers : Kept(v)'
        BY <2>1, StoreFrame DEF control, work
    <2>. QED  BY <2>2, <2>3, <2>4
<1>4. CASE UNCHANGED vars
    <2>1. UNCHANGED <<disk, head, store, control, work, outcome, steady, budget>>
        BY <1>4 DEF vars, world
    <2>2. TypeOK'  BY <2>1 DEF TypeOK, control, work, budget
    <2>3. \A v \in Verifiers : Local(v)'
        BY <2>1, Frame DEF SameAt, control, work
    <2>4. CommitExact' /\ StoredIsVouched' /\ \A v \in Verifiers : Kept(v)'
        BY <2>1, StoreFrame DEF control, work
    <2>. QED  BY <2>2, <2>3, <2>4
<1>. QED  BY <1>1, <1>2, <1>3, <1>4 DEF Next, Finished

LEMMA Invariant == Spec => []VInv
BY InvInit, InvNext, PTL DEF Spec

------------------------------------------------------------------------------
(* In every behaviour the variables of `skillctl verify' have the types the *)
(* code gives them, and no pass of the configuration is ever without input. *)
THEOREM VerificationTypes == Spec => []TypeOK
BY Invariant, PTL DEF VInv

(* What load_config returns was on disk as a whole at one moment, whatever  *)
(* was written, added or removed while it read (config.load_config).        *)
THEOREM LoadedAtOneMoment == Spec => []ConsistentConfig
<1>1. VInv => ConsistentConfig  BY DEF VInv, Local, Passes, ConsistentConfig
<1>. QED  BY <1>1, Invariant, PTL

(* A verification that gets to publish its receipt scanned under files that *)
(* were in place all the time (cli.main, bind_verification_evidence).       *)
THEOREM ScannedInPlace == Spec => []ScannedUnderSnapshot
<1>1. VInv => ScannedUnderSnapshot  BY DEF VInv, Local, Passes, ScannedUnderSnapshot
<1>. QED  BY <1>1, Invariant, PTL

(* A receipt names a commit only if that commit holds exactly the captured  *)
(* configuration (verifier._repository_commit).                             *)
THEOREM NamedCommits == Spec => []CommitExact
<1>1. VInv => CommitExact  BY DEF VInv
<1>. QED  BY <1>1, Invariant, PTL

(* A receipt that a run reported only goes away with the failure of the run *)
(* that made it (receipts.write_receipt).                                   *)
THEOREM ReceiptsStay == Spec => []ReportedStays
<1>1. VInv => ReportedStays  BY DEF VInv, Kept, ReportedStays
<1>. QED  BY <1>1, Invariant, PTL

(* Every receipt has a maker that did not fail (receipts.write_receipt).    *)
THEOREM ReceiptsVouched == Spec => []StoredIsVouched
<1>1. VInv => StoredIsVouched  BY DEF VInv
<1>. QED  BY <1>1, Invariant, PTL
===============================================================================
