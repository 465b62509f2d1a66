---------------------------- MODULE TerminalDial ----------------------------
(***************************************************************************)
(* DialLocalContext of pkg/sshsecurity/client.go: a handshake with the     *)
(* local SSH daemon under one deadline, which a cancelled request also     *)
(* ends.  The deadline sits on the connection, so it must be taken off     *)
(* before it passes under the client's reader, and the callback that       *)
(* closes the connection must be stopped, or waited for.                   *)
(***************************************************************************)
EXTENDS Integers

CONSTANT DialSlots    \* maxConcurrentLocalSSHHandshakes

ASSUME DialConstants == DialSlots \in Nat \ {0}

VARIABLES dial,        \* place in DialLocalContext
          admitted,    \* handshakes admitted, ours among them
          connection,  \* "none", "open", "closed"
          timed,       \* a deadline is set on the connection
          overdue,     \* the deadline has passed
          cancelled,   \* the context is done
          abortCall,    \* the AfterFunc: "none", "waiting", "running", "done", "stopped"
          clientReader,\* the mux reader: "none", "reads", "failed"
          inTime       \* clearedBeforeDeadline

dialVars == <<dial, admitted, connection, timed, overdue, cancelled, abortCall, clientReader, inTime>>

DialInit ==
  /\ dial = "start" /\ admitted \in 0 .. DialSlots /\ connection = "none" /\ timed = FALSE /\ overdue = FALSE
  /\ cancelled = FALSE /\ abortCall = "none" /\ clientReader = "none" /\ inTime = FALSE

DialAt(pc, next) == dial = pc /\ dial' = next
\* Every way out gives the slot back and, by the deferred cancel, ends the context.
Leaves(pc, result) == DialAt(pc, result) /\ admitted' = admitted - 1 /\ cancelled' = TRUE

\* A cancelled request and a full admission go no further.
Admit ==
  /\ \/ cancelled /\ DialAt("start", "failed") /\ UNCHANGED admitted
     \/ ~cancelled /\ admitted < DialSlots /\ DialAt("start", "keys") /\ admitted' = admitted + 1
     \/ ~cancelled /\ admitted = DialSlots /\ DialAt("start", "busy") /\ UNCHANGED admitted
  /\ UNCHANGED <<connection, timed, overdue, cancelled, abortCall, clientReader, inTime>>

\* LoadHostKeyCallback: only root-owned public keys that are there already.
LoadKeys ==
  /\ \/ DialAt("keys", "connect") /\ UNCHANGED <<admitted, cancelled>>
     \/ Leaves("keys", "failed")
  /\ UNCHANGED <<connection, timed, overdue, abortCall, clientReader, inTime>>

Connect ==
  /\ \/ /\ DialAt("connect", "handshake") /\ ~cancelled /\ connection' = "open" /\ timed' = TRUE /\ abortCall' = "waiting"
        /\ UNCHANGED <<admitted, cancelled>>
     \/ Leaves("connect", "failed") /\ connection' \in {"none", "closed"} /\ UNCHANGED <<timed, abortCall>>
  /\ UNCHANGED <<overdue, clientReader, inTime>>

\* ssh.NewClientConn starts the reader before it returns.
Handshake ==
  /\ \/ DialAt("handshake", "clear") /\ connection = "open" /\ ~(timed /\ overdue) /\ clientReader' = "reads"
     \/ DialAt("handshake", "rejected") /\ UNCHANGED clientReader
  /\ UNCHANGED <<admitted, connection, timed, overdue, cancelled, abortCall, inTime>>

ClearDeadline ==
  /\ \/ DialAt("clear", "clocked") /\ timed' = FALSE
     \/ DialAt("clear", "unclocked") /\ UNCHANGED timed
  /\ UNCHANGED <<admitted, connection, overdue, cancelled, abortCall, clientReader, inTime>>

\* The clock is read after the deadline has been taken off.
ReadClockNever == DialAt("clocked", "unclocked") /\ inTime' = TRUE
ReadClock == DialAt("clocked", "unclocked") /\ inTime' = ~overdue
ReadsClock == ReadClock /\ UNCHANGED <<admitted, connection, timed, overdue, cancelled, abortCall, clientReader>>

\* stopCancellation; when it is too late, the callback is waited for.
StopCallback ==
  /\ \E pc \in {"unclocked", "rejected"} : DialAt(pc, IF pc = "unclocked" THEN "decide" ELSE "reject")
  /\ \/ abortCall = "waiting" /\ abortCall' = "stopped"
     \/ abortCall = "done" /\ UNCHANGED abortCall
  /\ UNCHANGED <<admitted, connection, timed, overdue, cancelled, clientReader, inTime>>

Reject ==
  /\ Leaves("reject", "failed") /\ connection' = "closed"
  /\ UNCHANGED <<timed, overdue, abortCall, clientReader, inTime>>

Usable == abortCall = "stopped" /\ ~cancelled /\ ~timed /\ inTime
Decide ==
  /\ IF Usable THEN Leaves("decide", "client") /\ UNCHANGED connection
               ELSE Leaves("decide", "failed") /\ connection' = "closed"
  /\ UNCHANGED <<timed, overdue, abortCall, clientReader, inTime>>

(***************************************************************************)
(* The clock, the request's context, the callback and the reader.          *)
(***************************************************************************)
\* The deadline is set with the context, after the admission.
DeadlinePasses ==
  /\ dial \notin {"start", "busy"} /\ ~overdue /\ overdue' = TRUE
  /\ UNCHANGED <<dial, admitted, connection, timed, cancelled, abortCall, clientReader, inTime>>
\* By its caller, or by the context's own timer some time after the deadline.
RequestCancelled ==
  /\ ~cancelled /\ cancelled' = TRUE
  /\ UNCHANGED <<dial, admitted, connection, timed, overdue, abortCall, clientReader, inTime>>
CallbackStarts ==
  /\ abortCall = "waiting" /\ cancelled /\ abortCall' = "running"
  /\ UNCHANGED <<dial, admitted, connection, timed, overdue, cancelled, clientReader, inTime>>
CallbackCloses ==
  /\ abortCall = "running" /\ abortCall' = "done" /\ connection' = "closed"
  /\ UNCHANGED <<dial, admitted, timed, overdue, cancelled, clientReader, inTime>>
ReaderFails ==
  /\ clientReader = "reads" /\ (connection = "closed" \/ (timed /\ overdue)) /\ clientReader' = "failed"
  /\ UNCHANGED <<dial, admitted, connection, timed, overdue, cancelled, abortCall, inTime>>

DialNext ==
  \/ Admit \/ LoadKeys \/ Connect \/ Handshake \/ ClearDeadline \/ ReadsClock \/ StopCallback \/ Reject \/ Decide
  \/ DeadlinePasses \/ RequestCancelled \/ CallbackStarts \/ CallbackCloses \/ ReaderFails

DialSpec == DialInit /\ [][DialNext]_dialVars

\* A client that is returned works for as long as its user likes: the handshake's
\* deadline is off, it did not pass under the client's reader, and neither the
\* cancelled request nor the deferred cancel closes the connection later.
ClientUsable ==
  dial = "client" => /\ connection = "open" /\ clientReader = "reads"
                     /\ ~timed /\ abortCall \notin {"waiting", "running"}

=============================================================================
