----------------------------- MODULE UploadSpace -----------------------------
(***************************************************************************)
(* Space admission for upload writes (pkg/filesecurity/upload_space.go):   *)
(* chunk writes and assemblies reserve their size, against the free space  *)
(* of their disk, before they write, and give the reservation back when    *)
(* the file is closed or removed.  One counter serves all disks.           *)
(***************************************************************************)
EXTENDS Naturals

CONSTANTS SpaceWriters, Disks,
          Headroom,      \* DefaultUploadReservedFreeBytes
          SpaceSizes,    \* sizes of a write
          MaxFree,       \* bound of the free space at the start
          MaxForeign,    \* bound: blocks that other programs take
          Word           \* 2^64: sizes and free space are uint64

ASSUME SpaceConstants ==
  /\ Word \in Nat /\ MaxForeign \in Nat
  /\ {Headroom, MaxFree} \subseteq 0 .. Word - 1 /\ SpaceSizes \subseteq 1 .. Word - 1

VARIABLES freeBlocks,    \* disk -> blocks available
          reserved,      \* UploadSpaceAdmission.reserved
          spaceJob,      \* writer -> its write
          foreign,       \* disk -> blocks taken by others
          atFirst        \* disk -> blocks available at the start

spaceVars == <<freeBlocks, reserved, spaceJob, foreign, atFirst>>

NoWrite == [step |-> "idle", disk |-> "none", size |-> 0, wrote |-> 0]

SpaceInit ==
  /\ freeBlocks \in [Disks -> 0 .. MaxFree] /\ atFirst = freeBlocks
  /\ reserved = 0 /\ spaceJob = [w \in SpaceWriters |-> NoWrite]
  /\ foreign = [d \in Disks |-> 0]

(* The unsigned subtraction of the language: it wraps. *)
Minus(a, b) == (a + Word - b) % Word
SpaceAdmitsUnguarded(d, size) ==
  freeBlocks[d] >= Headroom /\ size <= Minus(Minus(freeBlocks[d], Headroom), reserved)
(* The comparisons guard the subtractions from left to right. *)
SpaceAdmits(d, size) ==
  /\ freeBlocks[d] >= Headroom
  /\ reserved <= Minus(freeBlocks[d], Headroom)
  /\ size <= Minus(Minus(freeBlocks[d], Headroom), reserved)
  /\ size <= Minus(Word - 1, reserved)

(* Reserve reads the free space and adds to the counter under one lock; a  *)
(* refused writer stays idle.                                              *)
Reserve(w, d, size) ==
  /\ spaceJob[w].step = "idle" /\ SpaceAdmits(d, size)
  /\ reserved' = (reserved + size) % Word
  /\ spaceJob' = [spaceJob EXCEPT ![w] = [step |-> "write", disk |-> d, size |-> size, wrote |-> 0]]
  /\ UNCHANGED <<freeBlocks, foreign, atFirst>>

WriteBlock(w) ==
  LET j == spaceJob[w] IN
  /\ j.step = "write" /\ j.wrote < j.size /\ freeBlocks[j.disk] > 0
  /\ freeBlocks' = [freeBlocks EXCEPT ![j.disk] = @ - 1]
  /\ spaceJob' = [spaceJob EXCEPT ![w].wrote = @ + 1]
  /\ UNCHANGED <<reserved, foreign, atFirst>>

(* writeUploadChunkTo: a closed file stays, an aborted one is removed; both *)
(* before the deferred release.                                             *)
WriteEnds(w) ==
  LET j == spaceJob[w] IN
  /\ j.step = "write"
  /\ \/ j.wrote = j.size /\ UNCHANGED freeBlocks
     \/ freeBlocks' = [freeBlocks EXCEPT ![j.disk] = @ + j.wrote]
  /\ spaceJob' = [spaceJob EXCEPT ![w].step = "release"]
  /\ UNCHANGED <<reserved, foreign, atFirst>>

Release(w) ==
  /\ spaceJob[w].step = "release"
  /\ reserved' = IF spaceJob[w].size <= reserved THEN Minus(reserved, spaceJob[w].size) ELSE 0
  /\ spaceJob' = [spaceJob EXCEPT ![w] = NoWrite]
  /\ UNCHANGED <<freeBlocks, foreign, atFirst>>

OthersTake(d) ==
  /\ freeBlocks[d] > 0 /\ foreign[d] < MaxForeign
  /\ freeBlocks' = [freeBlocks EXCEPT ![d] = @ - 1]
  /\ foreign' = [foreign EXCEPT ![d] = @ + 1]
  /\ UNCHANGED <<reserved, spaceJob, atFirst>>

SpaceNext ==
  \/ \E w \in SpaceWriters :
        \/ \E d \in Disks, size \in SpaceSizes : Reserve(w, d, size)
        \/ WriteBlock(w) \/ WriteEnds(w) \/ Release(w)
  \/ \E d \in Disks : OthersTake(d)

SpaceSpec == SpaceInit /\ [][SpaceNext]_spaceVars

----------------------------------------------------------------------------
(* Uploads alone never take a disk below its headroom, however many write   *)
(* at once: "the requested write would consume the reserved system headroom *)
(* or overlap another admitted write" is refused.  A disk that was below it *)
(* at the start gets no further down.  What others take does not count.     *)
HeadroomKept ==
  \A d \in Disks : \/ freeBlocks[d] + foreign[d] >= Headroom
                   \/ freeBlocks[d] + foreign[d] >= atFirst[d]

(* An idle service reserves nothing: each reservation is given back once.   *)
NothingReserved == (\A w \in SpaceWriters : spaceJob[w].step = "idle") => reserved = 0

(* The two promises of the admission.                                       *)
SpaceKept == HeadroomKept /\ NothingReserved

=============================================================================
