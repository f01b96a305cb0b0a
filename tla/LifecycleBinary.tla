--------------------------- MODULE LifecycleBinary ---------------------------
(***************************************************************************)
(* How a Pod's preparation installs the lifecycle binary, and the cache of *)
(* it that the Pods of one host share                                      *)
(* (InstallLifecycleBinaryWithCache in internal/directruntime/lifecycle.go *)
(* and lifecycle_cache_linux.go).                                          *)
(*                                                                         *)
(* A file's content is the version of the binary it holds whole, Partial,  *)
(* Unsafe (not a regular file), or Absent.  Installer i is a record: pc,   *)
(* ver (the version of its image), tmp (its temporary file), fd (what it   *)
(* holds open of the cache), dst (the Pod's binary) and links.  The cache  *)
(* is a record: entries by version, staged, lock, order (the versions from *)
(* the oldest to the newest) and before (the entries it began with).       *)
(***************************************************************************)
EXTENDS Integers, Sequences, Functions

CONSTANT KeptVersions       \* versions the cache keeps, the newest included

Absent == 0
Partial == -1
Unsafe == -2

VARIABLES inst, cache

NewInstaller(ver) ==
  [pc |-> "idle", ver |-> ver, tmp |-> Absent, fd |-> Absent, dst |-> Absent, links |-> FALSE]

Moves(i, r) == inst' = [inst EXCEPT ![i] = r]

Go(i, pc) == Moves(i, [inst[i] EXCEPT !.pc = pc])

BeginInstall(i) ==
  /\ inst[i].pc = "idle"
  /\ Moves(i, [inst[i] EXCEPT !.pc = "clone", !.tmp = Partial])
  /\ UNCHANGED cache

\* The file system may clone the image's own file ("direct"), a file of the
\* cache ("cache") or none.
CloneLifecycleBinary(i, reflink) ==
  /\ inst[i].pc = "clone"
  /\ IF reflink = "direct"
     THEN Moves(i, [inst[i] EXCEPT !.pc = "finish", !.tmp = inst[i].ver])
     ELSE Go(i, "verify")
  /\ UNCHANGED cache

\* Mutant: the content of the cache's file is not verified.
TrustsCache(ver) == IF cache.entries[ver] = Unsafe THEN Absent ELSE cache.entries[ver]

\* What is in the cache under a version's name, if it is that version.
VerifiedLifecycleCache(ver) == IF cache.entries[ver] = ver THEN ver ELSE Absent

VerifyCache(i) ==
  /\ inst[i].pc = "verify"
  /\ LET ver == inst[i].ver
         found == VerifiedLifecycleCache(ver)
     IN Moves(i, [inst[i] EXCEPT !.fd = found,
                      !.pc = IF found # Absent THEN "fromCache"
                             ELSE IF cache.entries[ver] = Unsafe THEN "copy" ELSE "lock"])
  /\ UNCHANGED cache

\* populateLifecycleCache: who does not get the lock copies the binary itself.
LockCache(i) ==
  /\ inst[i].pc = "lock"
  /\ Go(i, IF cache.lock = 0 THEN "recheck" ELSE "copy")
  /\ cache' = [cache EXCEPT !.lock = IF @ = 0 THEN i ELSE @]

RecheckCache(i) ==
  /\ inst[i].pc = "recheck"
  /\ LET ver == inst[i].ver
         found == VerifiedLifecycleCache(ver)
         unsafe == cache.entries[ver] = Unsafe
     IN /\ Moves(i, [inst[i] EXCEPT !.fd = found,
                         !.pc = IF found # Absent THEN "fromCache"
                                ELSE IF unsafe THEN "copy" ELSE "stage"])
        /\ cache' = [cache EXCEPT !.lock = IF found # Absent \/ unsafe THEN 0 ELSE @]

\* publishLifecycleCache.  A file an earlier installer left is removed.
StageCache(i) ==
  /\ inst[i].pc = "stage"
  /\ Go(i, "fill")
  /\ cache' = [cache EXCEPT !.staged = Partial]

FillCache(i) ==
  /\ inst[i].pc = "fill"
  /\ Go(i, "publish")
  /\ cache' = [cache EXCEPT !.staged = inst[i].ver]

PublishCache(i) ==
  /\ inst[i].pc = "publish"
  /\ Go(i, "prune")
  /\ cache' = [cache EXCEPT
                 !.entries = [cache.entries EXCEPT ![inst[i].ver] = cache.staged], !.staged = Absent,
                 !.order = Append(SelectSeq(cache.order, LAMBDA v : v # inst[i].ver), inst[i].ver)]

\* Keep the newest.  Files that are not regular are left alone.
PruneLifecycleCache(keep) ==
  LET others == SelectSeq(cache.order, LAMBDA v : v # keep)
      kept == { others[k] : k \in { k \in DOMAIN others : k > Len(others) - (KeptVersions - 1) } }
  IN [cache EXCEPT
        !.entries = [v \in DOMAIN cache.entries |->
                       IF v = keep \/ v \in kept \/ cache.entries[v] = Unsafe
                       THEN cache.entries[v] ELSE Absent],
        !.order = SelectSeq(cache.order, LAMBDA v : v = keep \/ v \in kept)]

PruneCache(i) ==
  /\ inst[i].pc = "prune"
  /\ LET pruned == PruneLifecycleCache(inst[i].ver)
     IN /\ Moves(i, [inst[i] EXCEPT !.pc = "fromCache", !.fd = pruned.entries[inst[i].ver]])
        /\ cache' = [pruned EXCEPT !.staged = Absent, !.lock = 0]

CloneFromCache(i, reflink) ==
  /\ inst[i].pc = "fromCache"
  /\ IF reflink = "cache"
     THEN Moves(i, [inst[i] EXCEPT !.pc = "finish", !.tmp = inst[i].fd])
     ELSE Go(i, "copy")
  /\ UNCHANGED cache

CopyBinary(i) ==
  /\ inst[i].pc = "copy"
  /\ Moves(i, [inst[i] EXCEPT !.pc = "finish", !.tmp = inst[i].ver])
  /\ UNCHANGED cache

\* The temporary file is renamed over the destination.
FinishInstall(i) ==
  /\ inst[i].pc = "finish"
  /\ Moves(i, [inst[i] EXCEPT !.pc = "links", !.dst = inst[i].tmp, !.tmp = Absent, !.fd = Absent])
  /\ UNCHANGED cache

LinkRuntimeCLI(i) ==
  /\ inst[i].pc = "links"
  /\ Moves(i, [inst[i] EXCEPT !.pc = "done", !.links = TRUE])
  /\ UNCHANGED cache

InstallStep(i, reflink) ==
  \/ BeginInstall(i)
  \/ CloneLifecycleBinary(i, reflink)
  \/ VerifyCache(i)
  \/ LockCache(i)
  \/ RecheckCache(i)
  \/ StageCache(i)
  \/ FillCache(i)
  \/ PublishCache(i)
  \/ PruneCache(i)
  \/ CloneFromCache(i, reflink)
  \/ CopyBinary(i)
  \/ FinishInstall(i)
  \/ LinkRuntimeCLI(i)

\* A killed installer loses its lock with its process; its files stay.
Unlocked(i) == [cache EXCEPT !.lock = IF @ = i THEN 0 ELSE @]

Kill(i) ==
  /\ Moves(i, [inst[i] EXCEPT !.pc = "idle", !.tmp = Absent, !.fd = Absent])
  /\ cache' = Unlocked(i)

\* The Pod is replaced by a new one, with volumes of its own.
Recreate(i) ==
  /\ Moves(i, NewInstaller(inst[i].ver))
  /\ cache' = Unlocked(i)

\* The Pods of a host, by the versions in their images, and the cache as it was
\* left to them.
InstallInit(vers, before, staged, order) ==
  /\ inst = [i \in DOMAIN vers |-> NewInstaller(vers[i])]
  /\ cache = [entries |-> before, staged |-> staged, lock |-> 0, order |-> order, before |-> before]

InstallNext ==
  \E i \in DOMAIN inst : \/ \E reflink \in {"direct", "cache", "none"} : InstallStep(i, reflink)
                        \/ Kill(i) \/ Recreate(i)

\* What any number of Pods do to the cache of their host, whatever was in it.
InstallSpec ==
  /\ \E vers \in Seq(Nat \ {0}) :
     \E before \in [Range(vers) -> Int], staged \in Int, order \in Seq(Nat \ {0}) :
        InstallInit(vers, before, staged, order)
  /\ [][InstallNext]_<<inst, cache>>

\* The lifecycle binary a Pod has is the whole binary of its own image, and so is
\* what it takes from the cache; the cache offers no version under another's name
\* or in part unless it was damaged before.  So it is with Pods of one version and
\* of several installing at once, any of them killed at any step, and a version
\* pruned while a Pod installs it (lifecycle_cache_linux.go).
BinaryIntact ==
  /\ \A i \in DOMAIN inst : /\ inst[i].dst \in {Absent, inst[i].ver}
                            /\ inst[i].pc = "done" => inst[i].dst = inst[i].ver /\ inst[i].links
                            /\ inst[i].fd \in {Absent, inst[i].ver}
  /\ \A v \in DOMAIN cache.entries : cache.entries[v] \in {Absent, v, cache.before[v]}
=============================================================================
