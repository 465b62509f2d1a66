--------------------------- MODULE WorkerDialogue ---------------------------
(***************************************************************************)
(* One storage worker of the public file portal and the parent that talks  *)
(* to it over a SEQPACKET socket pair (pkg/publicfiles/worker_child_linux, *)
(* worker_ipc_linux, worker_protocol, and the dialogues of                 *)
(* worker_parent_linux): bootstrap, listing in frames, and a file that is  *)
(* opened once and then read, sought and closed by the HTTP handler.       *)
(*                                                                         *)
(* StorageWorkers models the pool around this dialogue.  Here either side  *)
(* may stall, the child may die, run out of its idle time or be killed by  *)
(* the request's context at any moment, and the served file may shrink.    *)
(***************************************************************************)
EXTENDS Integers, Sequences

CONSTANTS FileSize,    \* bytes of the served file when it is opened
          FramePayload,\* storageWorkerMaxFramePayload, storageWorkerMaxReadBytes
          ListBytes,   \* the encoded lengths a directory may have
          MaxListPayload, \* storageWorkerMaxListPayload
          MaxCalls,    \* bound: Read and Seek calls of the handler
          Memory,      \* virtual sizes a child may start with, in reserves
          Headroom, Ceiling \* address-space limits, in minimum reserves

ASSUME DialogueConstants ==
  /\ FileSize \in Nat /\ FramePayload \in Nat \ {0} /\ ListBytes \subseteq Nat
  /\ MaxListPayload \in Nat /\ Headroom \in Nat /\ Ceiling \in Nat

VARIABLES mode,      \* "bootstrap", "list" or "file"
          parent,    \* the handler: [pc, id, ask] of the call it is in
          worker,     \* the worker: [pc, id, left, whole]
          toChild, toParent, \* frames in flight
          size,      \* the file's present size
          file,      \* the parent's isolatedStorageFile
          encoded,   \* bytes of the listing received so far
          killed,    \* abort has signalled the child
          roots,     \* who has the root descriptor open
          served,    \* history: what the last successful call returned
          calls

dialogueVars == <<mode, parent, worker, toChild, toParent, size, file, encoded,
                  killed, roots, served, calls>>

Frame(op, id, status, more, off, len) ==
  [op |-> op, id |-> id, status |-> status, more |-> more, off |-> off, len |-> len]
ReadRequest(id, off, len) == Frame("read", id, "ok", FALSE, off, len)
OpenResponse(id, len) == Frame("open", id, "ok", FALSE, 0, len)
BootstrapResponse(id, status) == Frame("bootstrap", id, status, FALSE, 0, 0)
NoFile == [offset |-> 0, size |-> 0, failed |-> FALSE, closed |-> TRUE]
Nothing == [kind |-> "nothing", off |-> 0, len |-> 0, ask |-> 0, want |-> 0]

DialogueInit ==
  /\ mode \in {"bootstrap", "list", "file"}
  /\ parent = [pc |-> "start", id |-> 1, ask |-> 0]
  /\ worker = [pc |-> "boot", id |-> 0, left |-> 0, whole |-> 0]
  /\ toChild = << >> /\ toParent = << >>
  /\ size = FileSize /\ file = NoFile /\ encoded = 0
  /\ killed = FALSE /\ roots = {} /\ served = Nothing /\ calls = 0

(***************************************************************************)
(* The child.                                                              *)
(***************************************************************************)
ChildGoes(pc) == worker' = [worker EXCEPT !.pc = pc]
\* The process ends: the kernel closes what it had open.
ChildExits == ChildGoes("gone") /\ roots' = roots \ {"child"}
\* sendStorageWorkerFrame: one packet, whole; SCM_RIGHTS travels with it.
Replies(f) == toParent' = Append(toParent, f)
RepliesError(op, status) == Replies(Frame(op, worker.id, status, FALSE, 0, 0))
\* Descriptors of a frame that is refused are closed.
RightsClosed == roots \ {"flight"}
ParentSide == <<mode, parent, size, file, encoded, killed, served, calls>>

\* calculateStorageWorkerAddressSpaceLimit and the checks around Setrlimit.
AddressSpaceAdmitted(before, after) ==
  /\ before > 0 /\ before <= Ceiling - Headroom
  /\ after <= before + Headroom /\ before + Headroom - after >= 1

\* RunInternalStorageWorker: the environment, the runtime and the fixed limits,
\* then the inherited socket and its peer, then the address space.
ChildValidates ==
  /\ worker.pc = "boot" /\ ChildGoes("connect")
  /\ UNCHANGED <<toChild, toParent, roots>> /\ UNCHANGED ParentSide

ChildConnects ==
  /\ worker.pc = "connect" /\ ChildGoes("limit")
  /\ UNCHANGED <<toChild, toParent, roots>> /\ UNCHANGED ParentSide

ChildLimits ==
  /\ worker.pc = "limit"
  /\ \E before, after \in Memory :
        IF AddressSpaceAdmitted(before, after)
        THEN ChildGoes("ready") /\ UNCHANGED roots
        ELSE ChildExits
  /\ UNCHANGED <<toChild, toParent>> /\ UNCHANGED ParentSide

\* An error of the environment, the runtime check, a limit, a frame or a send,
\* the idle timeout, or a signal.
ChildDies ==
  /\ worker.pc # "gone" /\ ChildExits
  /\ UNCHANGED <<toChild, toParent>> /\ UNCHANGED ParentSide

Expected == CASE mode = "bootstrap" -> "bootstrap" [] mode = "list" -> "list" [] OTHER -> "open"

\* runStorageBootstrapWorker: the verifier and the root, then the descriptor.
ChildBootstraps ==
  /\ worker.pc = "ready" /\ mode = "bootstrap" /\ toChild # << >>
  /\ toChild' = Tail(toChild)
  /\ \E status \in {"ok", "invalid", "internal", "unsupported"} :
        /\ Replies(BootstrapResponse(Head(toChild).id, status))
        /\ roots' = IF status = "ok" THEN roots \cup {"flight"} ELSE roots
  /\ ChildGoes("gone")
  /\ UNCHANGED ParentSide

\* receiveStorageRootRequest: the frame and its one descriptor.
ChildReceivesRoot ==
  /\ worker.pc = "ready" /\ mode # "bootstrap" /\ toChild # << >>
  /\ toChild' = Tail(toChild)
  /\ \/ /\ Head(toChild).op = Expected
        /\ worker' = [worker EXCEPT !.pc = "rooted", !.id = Head(toChild).id]
        /\ roots' = RightsClosed \cup {"child"}
     \/ ChildGoes("gone") /\ roots' = RightsClosed
  /\ UNCHANGED toParent /\ UNCHANGED ParentSide

Refused == {"hidden", "limit", "invalid", "internal", "unsupported"}

\* runStorageListWorker: an error, or the encoded entries.
ChildLists ==
  /\ worker.pc = "rooted" /\ mode = "list"
  /\ \/ \E status \in Refused :
           /\ RepliesError("list", status)
           /\ ChildExits
     \/ \E n \in ListBytes :
           IF n \in 1 .. MaxListPayload
           THEN /\ worker' = [worker EXCEPT !.pc = "listing", !.left = n, !.whole = n]
                /\ UNCHANGED <<toParent, roots>>
           ELSE /\ RepliesError("list", "internal")
                /\ ChildExits
  /\ UNCHANGED toChild /\ UNCHANGED ParentSide

More(left) == left > FramePayload

ChildSendsList ==
  LET n == IF worker.left > FramePayload THEN FramePayload ELSE worker.left
  IN /\ worker.pc = "listing"
     /\ Replies(Frame("list", worker.id, "ok", More(worker.left), 0, n))
     /\ IF worker.left = n THEN ChildExits
        ELSE worker' = [worker EXCEPT !.left = @ - n] /\ UNCHANGED roots
     /\ UNCHANGED toChild /\ UNCHANGED ParentSide

\* runStorageFileWorker up to the response; the root is closed first.
ChildOpens ==
  /\ worker.pc = "rooted" /\ mode = "file"
  /\ roots' = roots \ {"child"}
  /\ \/ /\ Replies(OpenResponse(worker.id, size))
        /\ worker' = [worker EXCEPT !.pc = "serving", !.id = @ + 1]
     \/ \E status \in Refused :
           RepliesError("open", status) /\ ChildGoes("gone")
  /\ UNCHANGED toChild /\ UNCHANGED ParentSide

Least(a, b) == IF a < b THEN a ELSE b
Positive(n) == IF n < 0 THEN 0 ELSE n
\* Pread may return less than asked, and nothing at the end of the file.
PreadCounts(req) == LET most == Least(req.len, Positive(size - req.off))
                    IN IF most = 0 THEN {0} ELSE 1 .. most

\* The loop of runStorageFileWorker; a frame with another identifier ends the
\* worker without an answer (ChildDies).
ChildServes ==
  /\ worker.pc = "serving" /\ toChild # << >>
  /\ toChild' = Tail(toChild)
  /\ LET req == Head(toChild) IN
     \/ /\ req.id = worker.id /\ req.op = "read"
        /\ \E n \in PreadCounts(req) :
              Replies(Frame("read", req.id, IF n = 0 THEN "eof" ELSE "ok", FALSE, req.off, n))
        /\ worker' = [worker EXCEPT !.id = @ + 1]
     \/ /\ req.id = worker.id /\ req.op = "read"
        /\ RepliesError("read", "internal") /\ ChildGoes("gone")
     \/ /\ req.id = worker.id /\ req.op = "close"
        /\ Replies(Frame("close", req.id, "ok", FALSE, 0, 0)) /\ ChildGoes("gone")
  /\ UNCHANGED roots /\ UNCHANGED ParentSide

(***************************************************************************)
(* The parent.                                                             *)
(***************************************************************************)
ChildSide == <<mode, worker, size>>
ParentGoes(pc) == parent' = [parent EXCEPT !.pc = pc]
Awaits(pc, ask) == parent' = [pc |-> pc, id |-> parent.id, ask |-> ask]
Aborts == killed' = TRUE
Asks(f) == toChild' = Append(toChild, f)
\* finishNormally may find that the child does not exit in time.
Finishes == \/ ParentGoes("done") /\ UNCHANGED killed
            \/ ParentGoes("failed") /\ Aborts

\* bootstrap, list and openRegular: the first frame, with the root's descriptor.
ParentSends ==
  /\ parent.pc = "start"
  /\ Asks(Frame(Expected, parent.id, "ok", FALSE, 0, 0))
  /\ roots' = IF mode = "bootstrap" THEN roots ELSE roots \cup {"flight"}
  /\ Awaits(Expected, 0)
  /\ UNCHANGED <<toParent, file, encoded, killed, served, calls>> /\ UNCHANGED ChildSide

\* A send or receive error, the deadline, or a context that expired.
ParentFails ==
  /\ parent.pc \in {"start", "bootstrap", "list", "open"}
  /\ ParentGoes("failed") /\ Aborts
  /\ roots' = RightsClosed
  /\ UNCHANGED <<toChild, toParent, file, encoded, served, calls>> /\ UNCHANGED ChildSide

Receives(op) == /\ parent.pc = op /\ toParent # << >>
                /\ toParent' = Tail(toParent)

ClosesRoot == roots' = RightsClosed
BootstrapAnswered ==
  LET f == Head(toParent)
  IN /\ Receives("bootstrap")
     /\ \/ f.status # "ok" /\ Finishes /\ UNCHANGED <<roots, served>>
        \/ /\ f.status = "ok" /\ ParentGoes("done") /\ UNCHANGED killed
           /\ roots' = RightsClosed \cup {"parent"}
           /\ served' = [Nothing EXCEPT !.kind = "root"]
        \/ /\ f.status = "ok" /\ ParentGoes("failed") /\ Aborts
           /\ ClosesRoot /\ UNCHANGED served
     /\ UNCHANGED <<toChild, file, encoded, calls>> /\ UNCHANGED ChildSide

\* A frame without bytes, a listing over its limit, and a whole one that
\* decodeStorageWorkerEntries finds not to be canonical.
ListingRefusable(f, total) == f.len = 0 \/ total > MaxListPayload \/ ~f.more

ListAnswered ==
  LET f == Head(toParent)
      total == encoded + f.len
  IN /\ Receives("list")
     /\ \/ f.status # "ok" /\ Finishes /\ UNCHANGED <<encoded, served>>
        \/ /\ f.status = "ok" /\ ListingRefusable(f, total)
           /\ ParentGoes("failed") /\ Aborts /\ UNCHANGED <<encoded, served>>
        \/ /\ f.status = "ok" /\ f.len > 0 /\ total <= MaxListPayload
           /\ encoded' = total
           /\ \/ f.more /\ UNCHANGED <<parent, killed, served>>
              \/ /\ ~f.more /\ ParentGoes("done") /\ UNCHANGED killed
                 /\ served' = [Nothing EXCEPT !.kind = "list", !.len = total]
     /\ UNCHANGED <<toChild, file, roots, calls>> /\ UNCHANGED ChildSide

OpenAnswered ==
  LET f == Head(toParent)
  IN /\ Receives("open")
     /\ \/ f.status # "ok" /\ Finishes /\ UNCHANGED file
        \/ /\ f.status = "ok"
           /\ file' = [offset |-> 0, size |-> f.len, failed |-> FALSE, closed |-> FALSE]
           /\ parent' = [pc |-> "idle", id |-> parent.id + 1, ask |-> 0] /\ UNCHANGED killed
     /\ UNCHANGED <<toChild, encoded, roots, served, calls>> /\ UNCHANGED ChildSide

Calls == parent.pc = "idle" /\ calls < MaxCalls /\ calls' = calls + 1
FileFails(kind) ==
  /\ file' = [file EXCEPT !.failed = TRUE] /\ Aborts /\ ParentGoes("idle")
  /\ served' = [Nothing EXCEPT !.kind = kind]

\* isolatedStorageFile.Read before its request: the sticky error, the end of the
\* advertised size, and the clipped length.
ReadStarts(ask) ==
  LET len == Least(ask, Least(FramePayload, file.size - file.offset))
  IN /\ Calls /\ ~file.closed
     /\ \/ /\ file.failed
           /\ served' = [Nothing EXCEPT !.kind = "error"]
           /\ UNCHANGED <<parent, toChild, file, killed>>
        \/ ~file.failed /\ FileFails("error") /\ UNCHANGED toChild
        \/ /\ ~file.failed /\ file.offset >= file.size
           /\ served' = [Nothing EXCEPT !.kind = "eof", !.off = file.offset]
           /\ UNCHANGED <<parent, toChild, file, killed>>
        \/ /\ ~file.failed /\ file.offset < file.size
           /\ Asks(ReadRequest(parent.id, file.offset, len))
           /\ parent' = [pc |-> "read", id |-> parent.id + 1, ask |-> len]
           /\ UNCHANGED <<file, served, killed>>
     /\ UNCHANGED <<toParent, encoded, roots>> /\ UNCHANGED ChildSide

Answer(f, id) == f.op = "read" /\ f.id = id

EarlyEOFEnds == /\ served' = [Nothing EXCEPT !.kind = "eof", !.off = file.offset]
                /\ ParentGoes("idle") /\ UNCHANGED <<file, killed>>

\* The response: an early end of file is an error, never an end.
EarlyEOFFails == FileFails("error")
ReadAnswered ==
  LET f == Head(toParent)
  IN /\ Receives("read")
     /\ \/ Answer(f, parent.id - 1) /\ f.status = "eof" /\ EarlyEOFFails
        \/ /\ \/ ~Answer(f, parent.id - 1)
              \/ f.status # "eof" /\ (f.status # "ok" \/ f.len \notin 1 .. parent.ask)
           /\ FileFails("error")
        \/ /\ Answer(f, parent.id - 1) /\ f.status = "ok" /\ f.len \in 1 .. parent.ask
           /\ file' = [file EXCEPT !.offset = @ + f.len]
           /\ served' = [kind |-> "bytes", off |-> f.off, len |-> f.len,
                         ask |-> parent.ask, want |-> file.offset]
           /\ ParentGoes("idle") /\ UNCHANGED killed
     /\ UNCHANGED <<toChild, encoded, roots, calls>> /\ UNCHANGED ChildSide

ReadTimesOut ==
  /\ parent.pc = "read" /\ FileFails("error")
  /\ UNCHANGED <<toChild, toParent, encoded, roots, calls>> /\ UNCHANGED ChildSide

Seek(off) ==
  /\ Calls /\ ~file.closed /\ ~file.failed
  /\ file' = [file EXCEPT !.offset = off]
  /\ served' = [Nothing EXCEPT !.kind = "sought"]
  /\ UNCHANGED <<parent, toChild, toParent, encoded, killed, roots>> /\ UNCHANGED ChildSide

\* isolatedStorageFile.Close: a failed file is aborted, a healthy one told.
CloseFile ==
  /\ parent.pc = "idle" /\ ~file.closed
  /\ file' = [file EXCEPT !.closed = TRUE]
  /\ \/ /\ ~file.failed
        /\ Asks(Frame("close", parent.id, "ok", FALSE, 0, 0))
        /\ Awaits("close", 0) /\ UNCHANGED killed
     \/ UNCHANGED toChild /\ ParentGoes("failed") /\ Aborts
  /\ UNCHANGED <<toParent, encoded, roots, served, calls>> /\ UNCHANGED ChildSide

CloseAnswered ==
  /\ \/ /\ Receives("close")
        /\ Head(toParent).op = "close" /\ Head(toParent).id = parent.id /\ Finishes
     \/ parent.pc = "close" /\ UNCHANGED toParent /\ ParentGoes("failed") /\ Aborts
  /\ UNCHANGED <<toChild, file, encoded, roots, served, calls>> /\ UNCHANGED ChildSide

(***************************************************************************)
(* The world.                                                              *)
(***************************************************************************)
Shrink ==
  /\ size > 0 /\ size' = size - 1
  /\ UNCHANGED <<mode, parent, worker, toChild, toParent, file, encoded, killed, roots, served, calls>>

\* context.AfterFunc(ctx, process.abort) while the handler is in a call.
ContextEnds ==
  /\ ~killed /\ Aborts
  /\ UNCHANGED <<mode, parent, worker, toChild, toParent, size, file, encoded, roots, served, calls>>

ChildNext == \/ ChildValidates \/ ChildConnects \/ ChildLimits \/ ChildDies \/ ChildBootstraps \/ ChildReceivesRoot \/ ChildLists
             \/ ChildSendsList \/ ChildOpens \/ ChildServes
ParentNext == \/ ParentSends \/ ParentFails \/ BootstrapAnswered \/ ListAnswered \/ OpenAnswered
              \/ ReadAnswered \/ ReadTimesOut \/ CloseFile \/ CloseAnswered
DialogueNext == \/ ChildNext \/ ParentNext \/ Shrink \/ ContextEnds
                \/ \E ask \in 1 .. FileSize : ReadStarts(ask)
                \/ \E off \in 0 .. FileSize : Seek(off)

DialogueSpec == DialogueInit /\ [][DialogueNext]_dialogueVars

(***************************************************************************)
(* Properties.                                                             *)
(***************************************************************************)
\* What Read hands to the handler are bytes of the file from the offset it stood
\* at, however calls, seeks, timeouts and late answers interleave; and it
\* reports the end of the file only at the size that was advertised, so that a
\* file that shrank is an error and not a shorter file.
BytesFaithful ==
  /\ served.kind = "bytes" => served.off = served.want /\ served.len \in 1 .. served.ask
  /\ served.kind = "eof" => served.off >= file.size

\* A listing that succeeds is all of what the worker encoded, no frame missing.
ListWhole ==
  served.kind = "list" => served.len = worker.whole

\* The root's descriptor is open in the parent only after a bootstrap that
\* succeeded, and a child that is gone or serves a file no longer has it.
RootOwned ==
  /\ "parent" \in roots => served.kind = "root" /\ parent.pc = "done"
  /\ "child" \in roots => worker.pc \in {"rooted", "listing"}

\* The dialogue with a worker hands out exactly what was asked for: bytes from
\* their offset, listings whole, and the root to its one owner.
DialogueFaithful == BytesFaithful /\ ListWhole /\ RootOwned

=============================================================================
