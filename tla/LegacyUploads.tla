--------------------------- MODULE LegacyUploads ---------------------------
(***************************************************************************)
(* The version 1 chunked upload (route/v1/file.go, GetFileUpload and       *)
(* PostFileUpload): one target and its staging directory.  The registry    *)
(* maps the staging directory to the session, here the generation, that    *)
(* owns it; its mutex covers the registry and the removal of staging, and  *)
(* a lock per generation covers a chunk's whole request.  A request holds  *)
(* its generation by pointer, so it may wait for one the registry no       *)
(* longer has.  A restart forgets the registry and leaves the directory.   *)
(***************************************************************************)
EXTENDS Integers, FiniteSets

CONSTANTS Posters,       \* concurrent chunk requests
          ChunkCount,    \* totalChunks
          MaxSessions, \* bound: generations
          MaxPosts       \* bound: requests

ASSUME LegacyConstants ==
  ChunkCount \in Nat \ {0} /\ MaxSessions \in Nat /\ MaxPosts \in Nat /\ "free" \notin Posters

LegacyChunks == 1 .. ChunkCount
Generations == 1 .. MaxSessions
LegacyFree == "free"
Foreign == -1

VARIABLES registered,  \* the generation in the registry, or 0
          newest,        \* the newest generation
          sessions,         \* generation -> [closed, completed, failed (completionErr), clean]
          keeper,      \* generation -> the request that holds its lock
          stagedChunks,      \* chunk -> the generation whose file is in the directory, or 0
          legacyTarget,      \* what the target names: 0, Foreign or a generation's file
          assembled,        \* history: generation -> the chunks that its file was put together from
          acked,       \* history: <<generation, chunk>> answered with success
          reported,    \* history: <<generation, chunk>> that a GET found in the directory
          post,        \* request -> [pc, gen, chunk, error]
          posts

legacyVars == <<registered, newest, sessions, keeper, stagedChunks, legacyTarget, assembled, acked, reported, post, posts>>

NewGeneration == [closed |-> FALSE, completed |-> FALSE, failed |-> FALSE, clean |-> TRUE]
NoPost == [pc |-> "idle", gen |-> 0, chunk |-> 0, error |-> FALSE]
Emptied == [c \in LegacyChunks |-> 0]

LegacyInit ==
  /\ registered = 0 /\ newest = 0 /\ sessions = [g \in Generations |-> NewGeneration]
  /\ keeper = [g \in Generations |-> LegacyFree] /\ stagedChunks \in {Emptied, [Emptied EXCEPT ![1] = Foreign]}
  /\ legacyTarget \in {0, Foreign} /\ assembled = [g \in Generations |-> Emptied] /\ acked = {} /\ reported = {}
  /\ post = [r \in Posters |-> NoPost] /\ posts = 0

Moves(r, pc) == post' = [post EXCEPT ![r].pc = pc]
Replies(r) == post' = [post EXCEPT ![r] = NoPost]
\* What a recursive removal leaves when it fails.
Remnants == {[c \in LegacyChunks |-> IF c \in gone THEN 0 ELSE stagedChunks[c]] : gone \in SUBSET LegacyChunks}
Unlocked(r) == keeper' = [keeper EXCEPT ![post[r].gen] = LegacyFree]

(***************************************************************************)
(* The registry.                                                           *)
(***************************************************************************)
\* cleanup and pruneCompletedLocked pass over a generation whose lock is held.
\* The age and the number of the tombstones are left open, and so is the TryLock
\* that records that staging is clean.
SweepsTombstone(g) == sessions[g].completed /\ sessions[g].clean /\ registered' = 0 /\ UNCHANGED <<sessions, stagedChunks>>
SweepsStaging(g) ==
  /\ stagedChunks' = Emptied
  /\ \/ ~sessions[g].completed /\ sessions' = [sessions EXCEPT ![g].closed = TRUE] /\ registered' = 0
     \/ sessions[g].completed /\ sessions' \in {sessions, [sessions EXCEPT ![g].clean = TRUE]} /\ UNCHANGED registered
SweepFails(g) == stagedChunks' \in Remnants /\ sessions' = [sessions EXCEPT ![g].closed = TRUE] /\ UNCHANGED registered
SweepForgetsToClose(g) == g # 0 /\ keeper[g] = LegacyFree /\ stagedChunks' \in Remnants /\ UNCHANGED <<sessions, registered>>
SweepRegistered(g) ==
  /\ g # 0 /\ keeper[g] = LegacyFree
  /\ \/ SweepsTombstone(g)
     \/ ~(sessions[g].completed /\ sessions[g].clean) /\ (SweepsStaging(g) \/ SweepFails(g))
LegacySweep == SweepRegistered(registered) \/ UNCHANGED <<registered, sessions, stagedChunks>>

\* Every request sweeps first: acquire and lockCompleted.
BeginPost(r, c) ==
  /\ post[r].pc = "idle" /\ posts < MaxPosts /\ posts' = posts + 1
  /\ LegacySweep
  /\ post' = [post EXCEPT ![r] = [NoPost EXCEPT !.pc = "acquire", !.chunk = c]]
  /\ UNCHANGED <<newest, keeper, legacyTarget, assembled, acked, reported>>

(***************************************************************************)
(* A GET asks whether a chunk need not be sent.  It sweeps too, and looks  *)
(* at the tombstone, the target and the chunk, one after the other.        *)
(***************************************************************************)
GetFileUpload(r, c) ==
  /\ post[r].pc = "idle" /\ posts < MaxPosts /\ posts' = posts + 1
  /\ LegacySweep
  /\ post' = [post EXCEPT ![r] = [NoPost EXCEPT !.pc = "completed", !.chunk = c]]
  /\ UNCHANGED <<newest, keeper, legacyTarget, assembled, acked, reported>>

\* lockCompleted: a generation whose lock is held is left to the probes.
Tombstone == registered # 0 /\ keeper[registered] = LegacyFree /\ sessions[registered].completed
GetCompleted(r) ==
  /\ post[r].pc = "completed"
  /\ \/ /\ Tombstone /\ Replies(r)
        /\ \/ /\ ~sessions[registered].failed /\ legacyTarget = registered
              /\ acked' = acked \cup {<<registered, post[r].chunk>>}
           \/ UNCHANGED acked
     \/ ~Tombstone /\ Moves(r, "statTarget") /\ UNCHANGED acked
  /\ UNCHANGED <<registered, newest, sessions, keeper, stagedChunks, legacyTarget, assembled, reported, posts>>

\* A target that exists is a conflict; either look may fail.
GetTarget(r) ==
  /\ post[r].pc = "statTarget"
  /\ (legacyTarget = 0 /\ Moves(r, "statChunk")) \/ Replies(r)
  /\ UNCHANGED <<registered, newest, sessions, keeper, stagedChunks, legacyTarget, assembled, acked, reported, posts>>

\* The answer is 200 for whatever file has the chunk's name.
GetChunk(r) ==
  /\ post[r].pc = "statChunk" /\ Replies(r)
  /\ LET c == post[r].chunk
     IN reported' \in {reported} \cup (IF stagedChunks[c] = 0 THEN {} ELSE {reported \cup {<<stagedChunks[c], c>>}})
  /\ UNCHANGED <<registered, newest, sessions, keeper, stagedChunks, legacyTarget, assembled, acked, posts>>

Cleared == Emptied
Acquire(r) ==
  /\ post[r].pc = "acquire"
  /\ \/ /\ registered # 0 /\ post' = [post EXCEPT ![r].pc = "lock", ![r].gen = registered]
        /\ UNCHANGED <<registered, newest, sessions, stagedChunks>>
     \/ /\ registered = 0 /\ newest < MaxSessions /\ registered' = newest + 1 /\ newest' = newest + 1
        /\ \/ stagedChunks' = Cleared /\ post' = [post EXCEPT ![r].pc = "lock", ![r].gen = newest + 1] /\ UNCHANGED sessions
           \/ stagedChunks' \in Remnants /\ Replies(r) /\ sessions' = [sessions EXCEPT ![newest + 1].closed = TRUE]
     \/ registered = 0 /\ Replies(r) /\ UNCHANGED <<registered, newest, sessions, stagedChunks>>
  /\ UNCHANGED <<keeper, legacyTarget, assembled, acked, reported, posts>>

\* A generation that was closed meanwhile refuses; one that is complete answers
\* once its target is still the file it published.
Lock(r) ==
  /\ post[r].pc = "lock" /\ keeper[post[r].gen] = LegacyFree
  /\ LET g == post[r].gen IN
     \/ /\ ~sessions[g].closed /\ ~sessions[g].completed
        /\ keeper' = [keeper EXCEPT ![g] = r] /\ Moves(r, "write") /\ UNCHANGED acked
     \/ sessions[g].completed /\ ~sessions[g].failed /\ legacyTarget = g /\ Replies(r) /\ acked' = acked \cup {<<g, post[r].chunk>>} /\ UNCHANGED keeper
     \/ (sessions[g].completed \/ sessions[g].closed) /\ Replies(r) /\ UNCHANGED <<keeper, acked>>
  /\ UNCHANGED <<registered, newest, sessions, stagedChunks, legacyTarget, assembled, reported, posts>>

(***************************************************************************)
(* The chunk, the assembly and the end.                                    *)
(***************************************************************************)
\* The parents, the pinned staging directory, and writeUploadChunkWithSpaceIn,
\* which publishes with NOREPLACE and may fail before or after it did.
Written(r) == [stagedChunks EXCEPT ![post[r].chunk] = IF @ = 0 THEN post[r].gen ELSE @]
WriteChunk(r) ==
  /\ post[r].pc = "write" /\ sessions' \in {sessions, [sessions EXCEPT ![post[r].gen].clean = FALSE]}
  /\ \/ stagedChunks[post[r].chunk] = 0 /\ stagedChunks' = Written(r) /\ Moves(r, "probe") /\ ~sessions'[post[r].gen].clean /\ UNCHANGED keeper
     \/ stagedChunks' \in {stagedChunks, Written(r)} /\ Replies(r) /\ Unlocked(r)
  /\ UNCHANGED <<registered, newest, legacyTarget, assembled, acked, reported, posts>>

\* allV1ChunksPresentIn.
AllPresent == \A c \in LegacyChunks : stagedChunks[c] # 0

\* The last chunk goes on to the assembly, unless the probe or the admission of
\* its space fails: then the chunks stay and the request fails.
Probe(r) ==
  /\ post[r].pc = "probe"
  /\ \/ AllPresent /\ Moves(r, "assemble") /\ UNCHANGED <<keeper, acked>>
     \/ ~AllPresent /\ Replies(r) /\ Unlocked(r) /\ acked' = acked \cup {<<post[r].gen, post[r].chunk>>}
     \/ Replies(r) /\ Unlocked(r) /\ UNCHANGED acked
  /\ UNCHANGED <<registered, newest, sessions, stagedChunks, legacyTarget, assembled, reported, posts>>

\* assembleV1UploadIn: the chunks in the pinned directory become the target.
PublishesTarget(g) ==
  legacyTarget = 0 /\ legacyTarget' = g /\ assembled' = [assembled EXCEPT ![g] = stagedChunks]

\* A commit that failed after the rename counts as published.
Assemble(r) ==
  /\ post[r].pc = "assemble"
  /\ LET g == post[r].gen IN
     \/ /\ PublishesTarget(g)
        /\ \E e \in BOOLEAN : /\ sessions' = [sessions EXCEPT ![g].completed = TRUE, ![g].failed = e]
                            /\ post' = [post EXCEPT ![r].pc = "finish", ![r].error = e]
     \/ post' = [post EXCEPT ![r].pc = "finish", ![r].error = TRUE] /\ UNCHANGED <<legacyTarget, assembled, sessions>>
  /\ UNCHANGED <<registered, newest, keeper, stagedChunks, acked, reported, posts>>

\* finishSession: the generation is closed and unlocked, then staging goes.
FinishSession(r) ==
  /\ post[r].pc = "finish" /\ sessions' = [sessions EXCEPT ![post[r].gen].closed = TRUE] /\ Unlocked(r) /\ Moves(r, "remove")
  /\ UNCHANGED <<registered, newest, stagedChunks, legacyTarget, assembled, acked, reported, posts>>
FinishRemoves(r) ==
  /\ post[r].pc = "remove" /\ Replies(r)
  /\ LET g == post[r].gen IN
     /\ \/ /\ registered = g /\ stagedChunks' = Emptied /\ sessions' \in {sessions, [sessions EXCEPT ![g].clean = TRUE]}
           /\ registered' = IF sessions[g].completed THEN g ELSE 0
        \/ registered = g /\ stagedChunks' \in Remnants /\ UNCHANGED <<sessions, registered>>
        \/ registered # g /\ UNCHANGED <<stagedChunks, sessions, registered>>
     /\ acked' = IF post[r].error THEN acked ELSE acked \cup {<<g, post[r].chunk>>}
  /\ UNCHANGED <<newest, keeper, legacyTarget, assembled, reported, posts>>

StrangerTakesTarget ==
  /\ legacyTarget' \in {0, Foreign} \ {legacyTarget} /\ UNCHANGED <<registered, newest, sessions, keeper, stagedChunks, assembled, acked, reported, post, posts>>
Restart ==
  /\ registered' = 0 /\ keeper' = [g \in Generations |-> LegacyFree] /\ post' = [r \in Posters |-> NoPost]
  /\ sessions' = [g \in Generations |-> [NewGeneration EXCEPT !.closed = g <= newest]]
  /\ UNCHANGED <<newest, stagedChunks, legacyTarget, assembled, acked, reported, posts>>

LegacyNext ==
  \/ \E r \in Posters : \/ \E c \in LegacyChunks : BeginPost(r, c) \/ GetFileUpload(r, c)
                        \/ GetCompleted(r) \/ GetTarget(r) \/ GetChunk(r)
                        \/ Acquire(r) \/ Lock(r) \/ WriteChunk(r) \/ Probe(r) \/ Assemble(r) \/ FinishSession(r) \/ FinishRemoves(r)
  \/ StrangerTakesTarget \/ Restart

LegacySpec == LegacyInit /\ [][LegacyNext]_legacyVars

(***************************************************************************)
(* Properties.                                                             *)
(***************************************************************************)
\* A published file is put together from chunks of its own generation only: none
\* that an earlier upload, an earlier process or a failed removal left in the
\* directory; and once every chunk was acknowledged, by a POST or from the
\* tombstone, the file is published.
LegacyUploadWhole ==
  \A g \in Generations :
    /\ assembled[g] \in {Emptied, [c \in LegacyChunks |-> g]}
    /\ (\A c \in LegacyChunks : <<g, c>> \in acked) => assembled[g] # Emptied

\* A chunk that was acknowledged, or that a GET found while its generation was the
\* registered one, is there for as long as that generation takes chunks: no sweep,
\* no finishing request and no new generation removes it.
LegacyChunksKept ==
  \A a \in acked \cup reported : registered = a[1] /\ ~sessions[a[1]].closed => stagedChunks[a[2]] = a[1]

\* What a POST was told is kept: its chunk while the upload lasts, and the whole
\* file once all were accepted.  A GET's 200 is kept only in the first sense.  It
\* looks at the directory alone, so a leftover of an earlier process, or a chunk
\* whose assembly was refused for lack of space, is reported and yet need not
\* ever be part of a published file.
LegacyUploadKept == LegacyUploadWhole /\ LegacyChunksKept

=============================================================================
