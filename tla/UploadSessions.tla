--------------------------- MODULE UploadSessions ---------------------------
(***************************************************************************)
(* The registry of resumable (v2) uploads: service/file_upload.go.         *)
(*                                                                         *)
(* A session ("generation") collects the chunks of one upload in a staging *)
(* directory and publishes the assembled file under its target name.  The  *)
(* registry has two kinds of lock: sessionsMu, and one lock per session    *)
(* which a holder of sessionsMu only ever tries.  A request never asks for *)
(* sessionsMu while it holds a session lock.                               *)
(*                                                                         *)
(* Every request first sweeps expired and terminal sessions.  The removal  *)
(* of a staging directory happens under sessionsMu but without the session *)
(* lock, so a late request can take that lock in between.                  *)
(*                                                                         *)
(* A directory inode is named by the generation that created it: dir[k] is *)
(* the inode found under the staging name of key k, staged[g] its chunks.  *)
(* A body stands for the bytes of a chunk and for their digest.            *)
(***************************************************************************)
EXTENDS Integers, FiniteSets

CONSTANTS
    Requests,       \* goroutines that serve an upload request
    Keys,           \* boundUploadIdentifier: principal, identifier, target
    Targets,        \* canonical target paths
    TargetOf,       \* the target path a key is bound to
    Bodies,         \* contents of a chunk
    None,           \* no request, no chunk
    MaxChunks,      \* the largest totalChunks
    MaxActive,      \* maxActiveUploadSessions (16)
    MaxTombstones,  \* maxCompletedUploadTombstones (128)
    MaxGen,         \* bound on the sessions ever made
    MaxCalls,       \* bound on the requests ever served
    MaxCrashes,     \* bound on restarts of the service
    MaxTampers      \* bound on outside interference

ASSUME KeyAssumption ==
    TargetOf \in [Keys -> Targets] /\ None \notin Requests /\ None \notin Bodies
ASSUME BoundAssumption ==
    /\ {MaxChunks, MaxActive, MaxGen, MaxCalls} \subseteq Nat \ {0}
    /\ {MaxTombstones, MaxCrashes, MaxTampers} \subseteq Nat

Gens == 1..MaxGen
Chunks == 1..MaxChunks
NoGen == 0
Blank == [c \in Chunks |-> None]

\* What a request asks for; count is its totalChunks.
Uploads == [op : {"upload"}, key : Keys, chunk : Chunks, count : Chunks,
            body : Bodies]
Tests == [op : {"test"}, key : Keys, chunk : Chunks]
Calls == {x \in Uploads : x.chunk <= x.count} \union Tests
NoCall == [op |-> "none"]

VARIABLES
    \* the requests
    pc, call, gen,
    \* FileUploadService
    mu,         \* the holder of sessionsMu
    todo,       \* keys the running sweep has still to look at
    table,      \* uploadStatus
    made,       \* sessions made so far
    \* FileInfo
    keyOf, total, lock, init, completed, clean, failed, pinned, rec,
    idle,       \* more than uploadSessionTTL since lastActivity
    aged,       \* more than uploadCompletionTTL since completedAt
    doneAt,     \* the order of completedAt
    \* the file system
    dir, staged,
    target,     \* the generation that published each target
    content,    \* and the chunks it published
    \* history
    wrote,      \* the body each generation last recorded for a chunk
    told,       \* chunks for which a generation has answered success
    disturbed,  \* generations whose staging was changed from outside
    orphans,    \* generations forgotten in a restart
    calls, crashes, tampers

reqVars == <<pc, call, gen>>
infoVars == <<keyOf, total, lock, init, completed, clean, failed, pinned, rec,
              idle, aged, doneAt>>
fsVars == <<dir, staged, target, content>>
histVars == <<wrote, told, disturbed, orphans>>
bounds == <<calls, crashes, tampers>>
vars == <<reqVars, mu, todo, table, made, infoVars, fsVars, histVars, bounds>>

States == {"idle", "sweep", "swept", "admit", "lock", "locked",
           "chunk", "assemble", "delete", "settle", "prune", "find",
           "testlock", "test"}

\* The type invariant of the registry, its sessions and the staging area.
TypeOK ==
    /\ pc \in [Requests -> States]
    /\ call \in [Requests -> Calls \union {NoCall}]
    /\ gen \in [Requests -> Gens \union {NoGen}]
    /\ mu \in Requests \union {None}
    /\ todo \in SUBSET Keys
    /\ table \in [Keys -> Gens \union {NoGen}]
    /\ made \in 0..MaxGen
    /\ keyOf \in [Gens -> Keys]
    /\ total \in [Gens -> Chunks]
    /\ lock \in [Gens -> Requests \union {None}]
    /\ {init, completed, clean, failed, pinned, idle, aged}
         \subseteq [Gens -> BOOLEAN]
    /\ rec \in [Gens -> [Chunks -> Bodies \union {None}]]
    /\ doneAt \in [Gens -> Nat]
    /\ dir \in [Keys -> Gens \union {NoGen}]
    /\ staged \in [Gens -> [Chunks -> Bodies \union {None}]]
    /\ target \in [Targets -> Gens \union {NoGen}]
    /\ content \in [Targets -> [Chunks -> Bodies \union {None}]]
    /\ wrote \in [Gens -> [Chunks -> Bodies \union {None}]]
    /\ told \in [Gens -> SUBSET Chunks]
    /\ {disturbed, orphans} \subseteq SUBSET Gens
    /\ {calls, crashes, tampers} \subseteq Nat

(***************************************************************************)
(* Helpers.                                                                *)
(***************************************************************************)
Live == {k \in Keys : table[k] # NoGen}

\* TryLock on the session of a registered key succeeds.
Free(g) == lock[g] = None

Present(f) == {c \in Chunks : f[c] # None}

\* pruneCompletedUploadTombstonesLocked: what it leaves of the table t.
Pruned(t) ==
    LET seen == {k \in Keys : t[k] # NoGen /\ Free(t[k]) /\ completed[t[k]]}
        gone == {k \in seen : clean[t[k]] /\ aged[t[k]]}
        cleaned == {k \in seen \ gone : clean[t[k]]}
        excess == Cardinality(seen \ gone) - MaxTombstones
        older(k) == {j \in cleaned : doneAt[t[j]] < doneAt[t[k]]}
        evicted == {k \in cleaned : Cardinality(older(k)) < excess}
    IN [k \in Keys |-> IF k \in gone \union evicted THEN NoGen ELSE t[k]]

\* The sessions getOrCreateUploadSession counts as active.
Active(t) ==
    {k \in Keys : t[k] # NoGen /\ (~Free(t[k]) \/ ~completed[t[k]])}

\* cleanupUploadStaging of a registered session: RemoveHeldTree moves the
\* pinned directory to a quarantine name first, removeUploadTree removes by
\* path.  Removed: it returned nil.
Removed(g) ==
    /\ pinned[g] => dir[keyOf[g]] \in {g, NoGen}
    /\ dir' = [dir EXCEPT ![keyOf[g]] = NoGen]
    /\ staged' = [h \in Gens |-> IF h = dir[keyOf[g]] THEN Blank ELSE staged[h]]
    /\ pinned' = [pinned EXCEPT ![g] = FALSE]

\* It returned an error: before the move, or after it, in the recursion.
NotRemoved(g) ==
    /\ UNCHANGED pinned
    /\ \/ UNCHANGED <<dir, staged>>
       \/ /\ pinned[g]
          /\ dir[keyOf[g]] = g
          /\ dir' = [dir EXCEPT ![keyOf[g]] = NoGen]
          /\ UNCHANGED staged

Return(r) ==
    /\ pc' = [pc EXCEPT ![r] = "idle"]
    /\ call' = [call EXCEPT ![r] = NoCall]
    /\ gen' = [gen EXCEPT ![r] = NoGen]
GoTo(r, state) == pc' = [pc EXCEPT ![r] = state]
Unlock(g) == lock' = [lock EXCEPT ![g] = None]
Tell(g, c) == told' = [told EXCEPT ![g] = @ \union {c}]

identity == <<keyOf, total>>

Init ==
    /\ pc = [r \in Requests |-> "idle"]
    /\ call = [r \in Requests |-> NoCall]
    /\ gen = [r \in Requests |-> NoGen]
    /\ mu = None
    /\ todo = {}
    /\ table = [k \in Keys |-> NoGen]
    /\ made = 0
    /\ keyOf \in {[g \in Gens |-> k] : k \in Keys}
    /\ total = [g \in Gens |-> 1]
    /\ lock = [g \in Gens |-> None]
    /\ init = [g \in Gens |-> FALSE]
    /\ completed = [g \in Gens |-> FALSE]
    /\ clean = [g \in Gens |-> FALSE]
    /\ failed = [g \in Gens |-> FALSE]
    /\ pinned = [g \in Gens |-> FALSE]
    /\ rec = [g \in Gens |-> Blank]
    /\ idle = [g \in Gens |-> FALSE]
    /\ aged = [g \in Gens |-> FALSE]
    /\ doneAt = [g \in Gens |-> 0]
    /\ dir = [k \in Keys |-> NoGen]
    /\ staged = [g \in Gens |-> Blank]
    /\ target = [t \in Targets |-> NoGen]
    /\ content = [t \in Targets |-> Blank]
    /\ wrote = [g \in Gens |-> Blank]
    /\ told = [g \in Gens |-> {}]
    /\ disturbed = {}
    /\ orphans = {}
    /\ calls = 0 /\ crashes = 0 /\ tampers = 0

(***************************************************************************)
(* A request arrives, and sweeps: cleanupExpiredUploads.                   *)
(***************************************************************************)
Arrive(r) ==
    /\ pc[r] = "idle" /\ mu = None
    /\ calls < MaxCalls
    /\ made + Cardinality({q \in Requests : pc[q] # "idle"}) < MaxGen
    /\ \E x \in Calls : call' = [call EXCEPT ![r] = x]
    /\ calls' = calls + 1
    /\ mu' = r
    /\ todo' = Live
    /\ GoTo(r, "sweep")
    /\ UNCHANGED <<gen, table, made, infoVars, fsVars, histVars, crashes,
                   tampers>>

SweepSkips(r, k) ==
    /\ pc[r] = "sweep" /\ k \in todo
    /\ LET g == table[k] IN
         \/ ~Free(g)
         \/ completed[g] /\ clean[g] /\ ~aged[g]
         \/ ~(completed[g] /\ clean[g]) /\ ~idle[g] /\ init[g]
    /\ todo' = todo \ {k}
    /\ UNCHANGED <<reqVars, mu, table, made, infoVars, fsVars, histVars,
                   bounds>>

SweepForgets(r, k) ==
    /\ pc[r] = "sweep" /\ k \in todo
    /\ LET g == table[k] IN Free(g) /\ completed[g] /\ clean[g] /\ aged[g]
    /\ table' = [table EXCEPT ![k] = NoGen]
    /\ todo' = todo \ {k}
    /\ UNCHANGED <<reqVars, mu, made, infoVars, fsVars, histVars, bounds>>

\* An expired or terminal session: its staging is removed.
Terminal(g) ==
    Free(g) /\ ~(completed[g] /\ clean[g]) /\ (idle[g] \/ ~init[g])

SweepRemoves(r, k) ==
    /\ pc[r] = "sweep" /\ k \in todo
    /\ LET g == table[k] IN
         /\ Terminal(g)
         /\ init' = [init EXCEPT ![g] = FALSE]
         /\ Removed(g)
         /\ IF completed[g]
            THEN /\ GoTo(r, "swept")
                 /\ gen' = [gen EXCEPT ![r] = g]
                 /\ UNCHANGED table
            ELSE /\ table' = [table EXCEPT ![k] = NoGen]
                 /\ UNCHANGED <<pc, gen>>
    /\ todo' = todo \ {k}
    /\ UNCHANGED <<call, mu, made, identity, lock, completed, clean, failed,
                   rec, idle, aged, doneAt, target, content, histVars, bounds>>

\* Mutant: an expired session whose removal fails stays open.
SweepFailsAlive(r, k) ==
    /\ pc[r] = "sweep" /\ k \in todo
    /\ LET g == table[k] IN
         /\ Terminal(g)
         /\ NotRemoved(g)
    /\ todo' = todo \ {k}
    /\ UNCHANGED <<reqVars, mu, table, made, identity, lock, init, completed, clean,
                   failed, rec, idle, aged, doneAt, target, content, histVars,
                   bounds>>

SweepRemoveFails(r, k) ==
    /\ pc[r] = "sweep" /\ k \in todo
    /\ LET g == table[k] IN
         /\ Terminal(g)
         /\ init' = [init EXCEPT ![g] = FALSE]
         /\ NotRemoved(g)
    /\ todo' = todo \ {k}
    /\ UNCHANGED <<reqVars, mu, table, made, identity, lock, completed, clean,
                   failed, rec, idle, aged, doneAt, target, content, histVars,
                   bounds>>

\* The second TryLock: the tombstone is clean unless a request holds it.
SweepMarks(r) ==
    /\ pc[r] = "swept"
    /\ clean' = [clean EXCEPT ![gen[r]] = @ \/ Free(gen[r])]
    /\ gen' = [gen EXCEPT ![r] = NoGen]
    /\ GoTo(r, "sweep")
    /\ UNCHANGED <<call, mu, todo, table, made, identity, lock, init,
                   completed, failed, pinned, rec, idle, aged, doneAt, fsVars,
                   histVars, bounds>>

SweepEnds(r) ==
    /\ pc[r] = "sweep" /\ todo = {}
    /\ table' = Pruned(table)
    /\ mu' = None
    /\ GoTo(r, IF call[r].op = "upload" THEN "admit" ELSE "find")
    /\ UNCHANGED <<call, gen, todo, made, infoVars, fsVars, histVars,
                   bounds>>

(***************************************************************************)
(* getOrCreateUploadSession.                                               *)
(***************************************************************************)
JoinSession(r) ==
    /\ pc[r] = "admit" /\ mu = None
    /\ LET t == Pruned(table) IN
         /\ t[call[r].key] # NoGen
         /\ table' = t
         /\ gen' = [gen EXCEPT ![r] = t[call[r].key]]
    /\ GoTo(r, "lock")
    /\ UNCHANGED <<call, mu, todo, made, infoVars, fsVars, histVars, bounds>>

Full(t) ==
    \/ Cardinality(Active(t)) >= MaxActive
    \/ Cardinality({k \in Keys : t[k] # NoGen}) >= MaxActive + MaxTombstones

RefuseSession(r) ==
    /\ pc[r] = "admit" /\ mu = None
    /\ LET t == Pruned(table) IN
         /\ t[call[r].key] = NoGen /\ Full(t)
         /\ table' = t
    /\ Return(r)
    /\ UNCHANGED <<mu, todo, made, infoVars, fsVars, histVars,
                   bounds>>

\* The candidate enters the table before the old tree is removed by path.
CreateSession(r) ==
    LET t == Pruned(table)  g == made + 1  k == call[r].key IN
    /\ pc[r] = "admit" /\ mu = None
    /\ t[k] = NoGen /\ ~Full(t)
    /\ table' = [t EXCEPT ![k] = g]
    /\ made' = g
    /\ keyOf' = [keyOf EXCEPT ![g] = k]
    /\ total' = [total EXCEPT ![g] = call[r].count]
    /\ \/ /\ dir' = [dir EXCEPT ![k] = NoGen]
          /\ staged' = [h \in Gens |-> IF h = dir[k] THEN Blank ELSE staged[h]]
          /\ init' = [init EXCEPT ![g] = TRUE]
          /\ clean' = [clean EXCEPT ![g] = TRUE]
          /\ gen' = [gen EXCEPT ![r] = g]
          /\ GoTo(r, "lock")
          /\ UNCHANGED call
       \/ /\ Return(r)
          /\ UNCHANGED <<dir, staged, init, clean>>
    /\ UNCHANGED <<mu, todo, lock, completed, failed, pinned, rec,
                   idle, aged, doneAt, target, content, histVars,
                   bounds>>

(***************************************************************************)
(* UploadFile, from the session lock to the end of the critical section.   *)
(***************************************************************************)
LockSession(r) ==
    /\ pc[r] = "lock" /\ Free(gen[r])
    /\ lock' = [lock EXCEPT ![gen[r]] = r]
    /\ GoTo(r, "locked")
    /\ UNCHANGED <<call, gen, mu, todo, table, made, identity, init,
                   completed, clean, failed, pinned, rec, idle, aged, doneAt,
                   fsVars, histVars, bounds>>

SameMetadata(r) == total[gen[r]] = call[r].count

\* verifyCompletedServiceUpload: the target is still the published file.
Verified(g) == target[TargetOf[keyOf[g]]] = g

\* A completed session answers for its target.
Replay(r) ==
    LET g == gen[r]  good == SameMetadata(r) /\ Verified(g) IN
    /\ pc[r] = "locked" /\ completed[g]
    /\ idle' = [idle EXCEPT ![g] = @ /\ ~good]
    /\ told' = [told EXCEPT ![g] =
                  @ \union (IF good /\ ~failed[g] THEN {call[r].chunk} ELSE {})]
    /\ Unlock(g)
    /\ Return(r)
    /\ UNCHANGED <<mu, todo, table, made, identity, init,
                   completed, clean, failed, pinned, rec, aged, doneAt, fsVars,
                   wrote, disturbed, orphans, bounds>>

\* Cleanup is pending, or the identifier is bound to other metadata.
Reject(r) ==
    /\ pc[r] = "locked" /\ ~completed[gen[r]]
    /\ ~init[gen[r]] \/ ~SameMetadata(r)
    /\ Unlock(gen[r])
    /\ Return(r)
    /\ UNCHANGED <<mu, todo, table, made, identity, init,
                   completed, clean, failed, pinned, rec, idle, aged, doneAt,
                   fsVars, histVars, bounds>>

Accepted(r) ==
    pc[r] = "locked" /\ ~completed[gen[r]] /\ init[gen[r]] /\ SameMetadata(r)

\* The target parent and the staging directory are made and pinned.
PrepareStaging(r) ==
    LET g == gen[r]  k == call[r].key IN
    /\ Accepted(r)
    /\ dir' = [dir EXCEPT ![k] = IF @ = NoGen THEN g ELSE @]
    /\ pinned' = [pinned EXCEPT ![g] = TRUE]
    /\ clean' = [clean EXCEPT ![g] = FALSE]
    /\ idle' = [idle EXCEPT ![g] = FALSE]
    /\ GoTo(r, "chunk")
    /\ UNCHANGED <<call, gen, mu, todo, table, made, identity, lock, init,
                   completed, failed, rec, aged, doneAt, staged,
                   target, content, histVars, bounds>>

\* One of them fails, before or after the staging directory was made.
PrepareFails(r) ==
    LET g == gen[r]  k == call[r].key IN
    /\ Accepted(r)
    /\ \/ UNCHANGED dir
       \/ dir[k] = NoGen /\ dir' = [dir EXCEPT ![k] = g]
    /\ init' = [init EXCEPT ![g] = FALSE]
    /\ Unlock(g)
    /\ GoTo(r, "delete")
    /\ UNCHANGED <<call, gen, mu, todo, table, made, identity, completed,
                   clean, failed, pinned, rec, idle, aged, doneAt, staged, target, content, histVars, bounds>>

\* The chunk of this request is recorded in f: assemble, or answer it.
Advance(r, f, good) ==
    LET g == gen[r] IN
    IF Cardinality(Present(f)) = total[g]
    THEN GoTo(r, "assemble") /\ UNCHANGED <<call, gen, lock, told>>
    ELSE /\ Unlock(g)
         /\ Return(r)
         /\ IF good THEN Tell(g, call[r].chunk) ELSE UNCHANGED told

\* Mutant: a duplicate of a recorded chunk is always answered at once.
ReconciledAnswers(r) ==
    LET g == gen[r]  c == call[r].chunk IN
    /\ pc[r] = "chunk"
    /\ rec[g][c] # None /\ staged[g][c] = rec[g][c]
    /\ Unlock(g)
    /\ Return(r)
    /\ Tell(g, c)
    /\ UNCHANGED <<mu, todo, table, made, identity, init, completed, clean,
                   failed, pinned, rec, idle, aged, doneAt, fsVars, wrote,
                   disturbed, orphans, bounds>>

\* reconcileRecordedServiceChunk finds the recorded bytes.
ChunkReconciled(r) ==
    LET g == gen[r]  c == call[r].chunk IN
    /\ pc[r] = "chunk"
    /\ rec[g][c] # None /\ staged[g][c] = rec[g][c]
    /\ Advance(r, rec[g], TRUE)
    /\ UNCHANGED <<mu, todo, table, made, identity, init,
                   completed, clean, failed, pinned, rec, idle, aged, doneAt,
                   fsVars, wrote, disturbed, orphans, bounds>>

\* It finds the chunk missing and forgets it.
Lost(r) ==
    LET g == gen[r]  c == call[r].chunk IN
    rec[g][c] # None /\ staged[g][c] = None

\* The reconciliation, the space admission or the write fails.
ChunkRefused(r) ==
    LET g == gen[r]  c == call[r].chunk IN
    /\ pc[r] = "chunk"
    /\ \/ UNCHANGED rec
       \/ Lost(r) /\ rec' = [rec EXCEPT ![g][c] = None]
    /\ Unlock(g)
    /\ Return(r)
    /\ UNCHANGED <<mu, todo, table, made, identity, init,
                   completed, clean, failed, pinned, idle, aged, doneAt, fsVars,
                   histVars, bounds>>

\* writeValidatedServiceChunkIn publishes the chunk; its directory sync may
\* fail after that.
ChunkWritten(r) ==
    LET g == gen[r]  c == call[r].chunk  f == [rec[g] EXCEPT ![c] = call[r].body] IN
    /\ pc[r] = "chunk"
    /\ rec[g][c] = None \/ Lost(r)
    /\ staged[g][c] = None
    /\ staged' = [staged EXCEPT ![g][c] = call[r].body]
    /\ rec' = [rec EXCEPT ![g] = f]
    /\ wrote' = [wrote EXCEPT ![g][c] = call[r].body]
    /\ \E good \in BOOLEAN : Advance(r, f, good)
    /\ UNCHANGED <<mu, todo, table, made, identity, init,
                   completed, clean, failed, pinned, idle, aged, doneAt, dir, target, content, disturbed, orphans, bounds>>

\* No space for the assembly: the session stays, for a retry.
AssembleDenied(r) ==
    /\ pc[r] = "assemble"
    /\ Unlock(gen[r])
    /\ Return(r)
    /\ UNCHANGED <<mu, todo, table, made, identity, init,
                   completed, clean, failed, pinned, rec, idle, aged, doneAt,
                   fsVars, histVars, bounds>>

AssembleFails(r) ==
    /\ pc[r] = "assemble"
    /\ init' = [init EXCEPT ![gen[r]] = FALSE]
    /\ Unlock(gen[r])
    /\ GoTo(r, "delete")
    /\ UNCHANGED <<call, gen, mu, todo, table, made, identity, completed,
                   clean, failed, pinned, rec, idle, aged, doneAt, fsVars,
                   histVars, bounds>>

\* Every staged chunk has the recorded digest.
Intact(g) == \A c \in 1..total[g] : staged[g][c] # None /\ staged[g][c] = rec[g][c]

\* assembleServiceUpload commits under the target name, which must be free;
\* with good = FALSE the target is published but its durability is unknown.
AssemblePublishes(r) ==
    LET g == gen[r]  t == TargetOf[call[r].key] IN
    /\ pc[r] = "assemble"
    /\ Intact(g) /\ target[t] = NoGen
    /\ target' = [target EXCEPT ![t] = g]
    /\ content' = [content EXCEPT ![t] = staged[g]]
    /\ completed' = [completed EXCEPT ![g] = TRUE]
    /\ doneAt' = [doneAt EXCEPT ![g] = Cardinality({h \in Gens : completed[h]})]
    /\ rec' = [rec EXCEPT ![g] = Blank]
    /\ init' = [init EXCEPT ![g] = FALSE]
    /\ \E good \in BOOLEAN :
         /\ failed' = [failed EXCEPT ![g] = ~good]
         /\ IF good THEN Tell(g, call[r].chunk) ELSE UNCHANGED told
    /\ Unlock(g)
    /\ GoTo(r, "delete")
    /\ UNCHANGED <<call, gen, mu, todo, table, made, identity, clean, pinned,
                   idle, aged, dir, staged, wrote, disturbed, orphans,
                   bounds>>

(***************************************************************************)
(* deleteUploadSession.                                                    *)
(***************************************************************************)
DeleteStale(r) ==
    /\ pc[r] = "delete" /\ mu = None
    /\ table[call[r].key] # gen[r]
    /\ Return(r)
    /\ UNCHANGED <<mu, todo, table, made, infoVars, fsVars,
                   histVars, bounds>>

DeleteRemoves(r) ==
    /\ pc[r] = "delete" /\ mu = None
    /\ table[call[r].key] = gen[r]
    /\ Removed(gen[r])
    /\ mu' = r
    /\ GoTo(r, "settle")
    /\ UNCHANGED <<call, gen, todo, table, made, identity, lock, init,
                   completed, clean, failed, rec, idle, aged, doneAt, target,
                   content, histVars, bounds>>

DeleteFails(r) ==
    /\ pc[r] = "delete" /\ mu = None
    /\ table[call[r].key] = gen[r]
    /\ NotRemoved(gen[r])
    /\ Return(r)
    /\ UNCHANGED <<mu, todo, table, made, identity, lock, init,
                   completed, clean, failed, rec, idle, aged, doneAt, target,
                   content, histVars, bounds>>

\* TryLock: a session that a late request holds keeps its key.
DeleteSettles(r) ==
    LET g == gen[r] IN
    /\ pc[r] = "settle"
    /\ IF Free(g)
       THEN /\ clean' = [clean EXCEPT ![g] = TRUE]
            /\ table' = IF completed[g] THEN table
                        ELSE [table EXCEPT ![call[r].key] = NoGen]
       ELSE UNCHANGED <<clean, table>>
    /\ GoTo(r, "prune")
    /\ UNCHANGED <<call, gen, mu, todo, made, identity, lock, init,
                   completed, failed, pinned, rec, idle, aged, doneAt, fsVars,
                   histVars, bounds>>

DeleteEnds(r) ==
    /\ pc[r] = "prune"
    /\ table' = Pruned(table)
    /\ mu' = None
    /\ Return(r)
    /\ UNCHANGED <<todo, made, infoVars, fsVars, histVars, bounds>>

(***************************************************************************)
(* TestChunk: is this chunk already there?                                 *)
(***************************************************************************)
TestFind(r) ==
    /\ pc[r] = "find" /\ mu = None
    /\ IF table[call[r].key] = NoGen THEN Return(r)
       ELSE /\ gen' = [gen EXCEPT ![r] = table[call[r].key]]
            /\ GoTo(r, "testlock")
            /\ UNCHANGED call
    /\ UNCHANGED <<mu, todo, table, made, infoVars, fsVars, histVars,
                   bounds>>

TestLock(r) ==
    /\ pc[r] = "testlock" /\ Free(gen[r])
    /\ lock' = [lock EXCEPT ![gen[r]] = r]
    /\ GoTo(r, "test")
    /\ UNCHANGED <<call, gen, mu, todo, table, made, identity, init,
                   completed, clean, failed, pinned, rec, idle, aged, doneAt,
                   fsVars, histVars, bounds>>

\* The answer that makes the client skip the chunk.
TestSucceeds(g, c) ==
    IF completed[g] THEN Verified(g) /\ ~failed[g]
    ELSE /\ init[g]
         /\ Cardinality(Present(rec[g])) # total[g]
         /\ rec[g][c] # None

TestAnswer(r) ==
    LET g == gen[r]  c == call[r].chunk IN
    /\ pc[r] = "test"
    /\ idle' = [idle EXCEPT ![g] = @ /\ ~(init[g] \/ completed[g])]
    /\ told' = [told EXCEPT ![g] =
                  @ \union (IF c <= total[g] /\ TestSucceeds(g, c)
                            THEN {c} ELSE {})]
    /\ Unlock(g)
    /\ Return(r)
    /\ UNCHANGED <<mu, todo, table, made, identity, init,
                   completed, clean, failed, pinned, rec, aged, doneAt, fsVars,
                   wrote, disturbed, orphans, bounds>>

(***************************************************************************)
(* Time, outside changes to the managed tree, and restarts.                *)
(***************************************************************************)
Expire(g) ==
    /\ g \in {table[k] : k \in Live} /\ ~idle[g] /\ ~(completed[g] /\ clean[g])
    /\ idle' = [idle EXCEPT ![g] = TRUE]
    /\ UNCHANGED <<reqVars, mu, todo, table, made, identity, lock, init,
                   completed, clean, failed, pinned, rec, aged, doneAt, fsVars,
                   histVars, bounds>>

Age(g) ==
    /\ g \in {table[k] : k \in Live} /\ completed[g] /\ ~aged[g]
    /\ aged' = [aged EXCEPT ![g] = TRUE]
    /\ UNCHANGED <<reqVars, mu, todo, table, made, identity, lock, init,
                   completed, clean, failed, pinned, rec, idle, doneAt, fsVars,
                   histVars, bounds>>

\* A staged chunk is deleted or overwritten by someone else.
TamperChunk(g, c) ==
    /\ tampers < MaxTampers
    /\ dir[keyOf[g]] = g /\ staged[g][c] # None
    /\ \E b \in (Bodies \union {None}) \ {staged[g][c]} :
         staged' = [staged EXCEPT ![g][c] = b]
    /\ disturbed' = disturbed \union {g}
    /\ tampers' = tampers + 1
    /\ UNCHANGED <<reqVars, mu, todo, table, made, infoVars, dir,
                   target, content, wrote, told, orphans, calls, crashes>>

\* A published file is moved away.
TamperTarget(t) ==
    /\ tampers < MaxTampers
    /\ target[t] # NoGen
    /\ disturbed' = disturbed \union {target[t]}
    /\ target' = [target EXCEPT ![t] = NoGen]
    /\ content' = [content EXCEPT ![t] = Blank]
    /\ tampers' = tampers + 1
    /\ UNCHANGED <<reqVars, mu, todo, table, made, infoVars, dir, staged, wrote, told, orphans, calls, crashes>>

\* The service restarts: what is in memory is lost.
Crash ==
    /\ crashes < MaxCrashes
    /\ crashes' = crashes + 1
    /\ pc' = [r \in Requests |-> "idle"]
    /\ call' = [r \in Requests |-> NoCall]
    /\ gen' = [r \in Requests |-> NoGen]
    /\ mu' = None
    /\ todo' = {}
    /\ table' = [k \in Keys |-> NoGen]
    /\ lock' = [g \in Gens |-> None]
    /\ init' = [g \in Gens |-> FALSE]
    /\ pinned' = [g \in Gens |-> FALSE]
    /\ orphans' = 1..made
    /\ UNCHANGED <<made, identity, completed, clean, failed, rec, idle,
                   aged, doneAt, fsVars, wrote, told, disturbed, calls, tampers>>

Sweep(r) ==
    \/ SweepMarks(r) \/ SweepEnds(r)
    \/ \E k \in Keys : \/ SweepSkips(r, k) \/ SweepForgets(r, k)
                       \/ SweepRemoves(r, k) \/ SweepRemoveFails(r, k)

Upload(r) ==
    \/ JoinSession(r) \/ RefuseSession(r) \/ CreateSession(r)
    \/ LockSession(r) \/ Replay(r) \/ Reject(r)
    \/ PrepareStaging(r) \/ PrepareFails(r)
    \/ ChunkReconciled(r) \/ ChunkRefused(r) \/ ChunkWritten(r)
    \/ AssembleDenied(r) \/ AssembleFails(r) \/ AssemblePublishes(r)

Delete(r) ==
    \/ DeleteStale(r) \/ DeleteRemoves(r) \/ DeleteFails(r)
    \/ DeleteSettles(r) \/ DeleteEnds(r)

Test(r) == TestFind(r) \/ TestLock(r) \/ TestAnswer(r)

Serve(r) == Sweep(r) \/ Upload(r) \/ Delete(r) \/ Test(r)

Environment ==
    \/ \E g \in Gens : Expire(g) \/ Age(g) \/ \E c \in Chunks : TamperChunk(g, c)
    \/ \E t \in Targets : TamperTarget(t)
    \/ Crash

Next ==
    \/ \E r \in Requests : Arrive(r) \/ Serve(r)
    \/ Environment

Spec == Init /\ [][Next]_vars

(***************************************************************************)
(* Properties.                                                             *)
(***************************************************************************)
\* Chunks a live session has recorded are in its staging directory with the
\* recorded bytes: no sweep, no late deleteUploadSession and no creation of
\* another generation removes the staging of a session that still accepts
\* chunks.
LiveChunksStaged ==
    \A k \in Live :
      LET g == table[k] IN
      init[g] /\ g \notin disturbed =>
        \A c \in Present(rec[g]) : dir[k] = g /\ staged[g][c] = rec[g][c]

\* A staging directory has an owner: while the service runs, a key becomes
\* free for a new generation only after the old generation's directory is
\* gone, and a session that accepts chunks never shares a directory left by
\* another one.
StagingOwned ==
    \A k \in Keys :
      dir[k] \notin {NoGen, table[k]} =>
        /\ dir[k] \in orphans
        /\ k \in Live => ~init[table[k]]

\* The caps of getOrCreateUploadSession hold although sessions in flight are
\* only tried, never waited for.
CapacityBound ==
    /\ Cardinality({k \in Live : ~completed[table[k]]}) <= MaxActive
    /\ Cardinality(Live) <= MaxActive + MaxTombstones

\* A client that was answered success for every chunk by one session, through
\* any mix of POSTs and chunk tests, finds its target published by it.
ToldMeansPublished ==
    \A g \in 1..made :
      told[g] = 1..total[g] /\ g \notin disturbed =>
        target[TargetOf[keyOf[g]]] = g

\* What is published under a target is exactly the chunks one generation
\* recorded, each with the bytes received for it, whatever was left in the
\* staging area by an earlier generation or changed there meanwhile.
PublishedIsRecorded ==
    \A t \in Targets :
      target[t] # NoGen =>
        /\ content[t] = wrote[target[t]]
        /\ Present(content[t]) = 1..total[target[t]]

\* The answers of a resumable upload are true of what is published.
UploadHonest == PublishedIsRecorded /\ ToldMeansPublished

\* A session keeps what it took: its directory, its chunks and its place in the
\* table, whatever sweeps, late deletions and new generations do.
StagingKept == LiveChunksStaged /\ StagingOwned /\ CapacityBound

===============================================================================
