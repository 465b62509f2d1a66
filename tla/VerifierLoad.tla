---------------------------- MODULE VerifierLoad ----------------------------
(***************************************************************************)
(* Reading the portal's verifier file (pkg/publicfiles/fs_linux.go and     *)
(* verifier_acl_linux.go) while the file is edited, replaced, linked and   *)
(* has its permissions changed: the name is pinned without opening it, the *)
(* pinned file is inspected, reopened through /proc, inspected again, read *)
(* and inspected once more, and at last the name is pinned a second time.  *)
(*                                                                         *)
(* A file's metadata is its inode and a stamp (mode, links, owner, size    *)
(* and times) that every change advances.                                  *)
(***************************************************************************)
EXTENDS Integers

CONSTANTS Files,       \* inodes
          Contents,    \* verifiers a file may hold, and "malformed"
          MaxChanges   \* bound: changes of the world

ASSUME VerifierConstants == MaxChanges \in Nat

VARIABLES disk,     \* inode -> [content, stamp, links, private]
          path,     \* the inode the configured path names
          loader,   \* [pc, pin, seen, value]: where, the pinned inode, its metadata, the bytes
          current,  \* history: what the path held when it was pinned again
          changes

verifierVars == <<disk, path, loader, current, changes>>

Fresh == [pc |-> "parent", pin |-> "none", seen |-> <<"none", 0>>, value |-> "none"]

VerifierInit ==
  /\ disk \in [Files -> [content : Contents, stamp : {0}, links : {1}, private : {TRUE}]]
  /\ path \in Files
  /\ loader = Fresh /\ current = "none" /\ changes = 0

fileVars == <<disk, path, changes>>
Metadata(i) == <<i, disk[i].stamp>>
SameMetadata(i, seen) == Metadata(i) = seen

SingleLink(i) == disk[i].links = 1
\* Owner, permissions and the access ACL, the latter bracketed by metadata.
DescriptorValid(i) == SingleLink(i) /\ disk[i].private

LoaderAt(pc) == loader.pc = pc
Fails == loader' = [Fresh EXCEPT !.pc = "failed"]
Passes(pc) == loader' = [loader EXCEPT !.pc = pc]
CheckThen(ok, pc) == (IF ok THEN Passes(pc) ELSE Fails) /\ UNCHANGED current /\ UNCHANGED fileVars

ParentChecked ==
  /\ LoaderAt("parent") /\ (Passes("pin") \/ Fails)
  /\ UNCHANGED current /\ UNCHANGED fileVars

\* The O_PATH descriptor and the metadata it is judged by.
PinPath ==
  /\ LoaderAt("pin")
  /\ loader' = IF DescriptorValid(path)
               THEN [loader EXCEPT !.pc = "reopen", !.pin = path, !.seen = Metadata(path)]
               ELSE [Fresh EXCEPT !.pc = "failed"]
  /\ UNCHANGED current /\ UNCHANGED fileVars

Reopen ==
  /\ LoaderAt("reopen")
  /\ CheckThen(SameMetadata(loader.pin, loader.seen) /\ SingleLink(loader.pin), "acl")

DescriptorValidated ==
  /\ LoaderAt("acl")
  /\ CheckThen(SameMetadata(loader.pin, loader.seen) /\ DescriptorValid(loader.pin), "read")

\* ReadAll and parsePublicVerifier.
ReadVerifier ==
  /\ LoaderAt("read")
  /\ loader' = IF disk[loader.pin].content = "malformed"
               THEN [Fresh EXCEPT !.pc = "failed"]
               ELSE [loader EXCEPT !.pc = "after", !.value = disk[loader.pin].content]
  /\ UNCHANGED current /\ UNCHANGED fileVars

AfterRead ==
  /\ LoaderAt("after")
  /\ CheckThen(SameMetadata(loader.pin, loader.seen) /\ DescriptorValid(loader.pin), "again")

\* revalidateVerifierPath: the name must still lead to the file that was read.
PathIsThere == DescriptorValid(path)
PathStillLeads == SameMetadata(path, loader.seen) /\ DescriptorValid(path)
RevalidatePath ==
  /\ LoaderAt("again")
  /\ (IF PathStillLeads THEN Passes("final") ELSE Fails)
  /\ current' = disk[path].content
  /\ UNCHANGED fileVars

FinalDescriptor ==
  /\ LoaderAt("final")
  /\ CheckThen(SameMetadata(loader.pin, loader.seen) /\ DescriptorValid(loader.pin), "loaded")

(***************************************************************************)
(* The administrator.                                                      *)
(***************************************************************************)
Changes == changes < MaxChanges /\ changes' = changes + 1
Touch(i, f) == /\ Changes /\ disk' = [disk EXCEPT ![i] = [f EXCEPT !.stamp = @ + 1]]
               /\ UNCHANGED <<path, loader, current>>
Edit(i, c) == Touch(i, [disk[i] EXCEPT !.content = c])
Link(i) == Touch(i, [disk[i] EXCEPT !.links = 3 - @])
Chmod(i) == Touch(i, [disk[i] EXCEPT !.private = ~@])
Repoint(i) == Changes /\ path' = i /\ UNCHANGED <<disk, loader, current>>

VerifierNext ==
  \/ ParentChecked \/ PinPath \/ Reopen \/ DescriptorValidated \/ ReadVerifier
  \/ AfterRead \/ RevalidatePath \/ FinalDescriptor
  \/ \E i \in Files : Link(i) \/ Chmod(i) \/ Repoint(i) \/ \E c \in Contents : Edit(i, c)

VerifierSpec == VerifierInit /\ [][VerifierNext]_verifierVars

(***************************************************************************)
(* Properties.                                                             *)
(***************************************************************************)
\* The verifier the portal starts with is one whole version of the file, and the
\* version the configured path held when the load finished, not one that was
\* edited or replaced while it was being read.
VerifierCurrent ==
  loader.pc \in {"final", "loaded"} => loader.value = current /\ current # "malformed"

=============================================================================
