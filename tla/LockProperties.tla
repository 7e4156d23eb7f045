--------------------------- MODULE LockProperties ---------------------------
(***************************************************************************)
(* What lock and update promise about the cache, the published lock and    *)
(* their own outcome.  The type invariant is LockPipeline!TypeOK.          *)
(***************************************************************************)
EXTENDS LockPipeline

(* The cache is content-addressed: however commands race to publish an      *)
(* entry and sources change under them, an entry some command put there is  *)
(* the tree its name says.                                                  *)
ContentAddressed ==
    \A s \in Sources : \A r \in Revisions : cache[s][r] \in Revisions => cache[s][r] = r

(* Every revision that a command resolved for the lock it published has its *)
(* snapshot in the cache, unless somebody removed it; never a corrupt one.  *)
LockedIsCached ==
    lock # NoLock /\ lock.by # NoCommand =>
        \A s \in chosen[lock.by] : cache[s][lock.rev[s]] \in {lock.rev[s], "deleted"}

(* What an update publishes is what its proposal showed for review, however *)
(* the source moved between the check and the snapshot.                     *)
ReviewedIsLocked ==
    lock # NoLock /\ lock.by # NoCommand /\ kind[lock.by] = "update" =>
        \A s \in chosen[lock.by] : lock.rev[s] = reviewed[lock.by][s]

(* A published lock serves every skill of the pool, also when it mixes      *)
(* sources of an old lock with new ones.                                    *)
LockServesPool == lock # NoLock /\ lock.by # NoCommand => Offered(lock.rev)

(* What an update publishes can be applied: no target gets two skills of    *)
(* one name, although every other source stays where it was locked before.  *)
(* (A lock command promises no such thing.)                                 *)
UpdateResolves ==
    lock # NoLock /\ lock.by # NoCommand /\ kind[lock.by] = "update" => Resolves(lock.rev)

(* A command that reports a failure has not published anything; one that    *)
(* reports success after an error has its own candidate in public.          *)
OutcomeTruthful ==
    [][\A c \in Commands : outcome'[c] # outcome[c] =>
          /\ outcome'[c] \in {"blocked", "failed"} => lock = NoLock \/ lock.by # c
          /\ outcome'[c] = "ok" /\ faults' # faults => lock.by = c]_vars

(* No update is lost: a command that publishes changes the sources it was   *)
(* asked for, and leaves the others as they are in the lock it replaces.    *)
NoLostUpdate ==
    [][\A c \in Commands : pc[c] = "replace" /\ pc'[c] = "sync" /\ lock # NoLock =>
          \A s \in Sources \ chosen[c] : lock'.rev[s] = lock.rev[s]]_vars
=============================================================================
