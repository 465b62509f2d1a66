-------------------------- MODULE TerminalSession --------------------------
(***************************************************************************)
(* The goroutines of a terminal session (runSSHWebSocketSession of         *)
(* route/v1/ssh.go): two copy the shell's output to a bounded channel, one *)
(* writes it to the WebSocket, one reads the WebSocket for the shell, one  *)
(* waits for the shell, and the handler waits for the first to stop.       *)
(***************************************************************************)
EXTENDS Integers, FiniteSets

CONSTANT OutputCap    \* capacity of the output channel

ASSUME SessionConstants == OutputCap \in Nat \ {0}

Copiers == {"stdout", "stderr"}

VARIABLES session,    \* the handler: "none", "running", "over"
          copier, writer, reader, waiter,
          queue,      \* chunks in the output channel
          stopped,    \* done is closed
          shell, peer \* "up" or "down"; a peer may also be "stalled"

sessionVars == <<session, copier, writer, reader, waiter, queue, stopped, shell, peer>>

SessionInit ==
  /\ session = "none" /\ copier = [c \in Copiers |-> "none"] /\ writer = "none" /\ reader = "none" /\ waiter = "none"
  /\ queue = 0 /\ stopped = FALSE /\ shell = "up" /\ peer = "up"

\* runSSHWebSocketSession starts its goroutines.
StartSession ==
  /\ session = "none" /\ session' = "running"
  /\ copier' = [c \in Copiers |-> "read"] /\ writer' = "wait" /\ reader' = "read" /\ waiter' = "wait"
  /\ UNCHANGED <<queue, stopped, shell, peer>>

\* It returns when done is closed or its lifetime is over, and its defers and
\* WsSsh's close the session, the client and the socket.
EndSession ==
  /\ session = "running" /\ session' = "over" /\ stopped' = TRUE
  /\ UNCHANGED <<copier, writer, reader, waiter, queue, shell, peer>>

Closed == session = "over"

\* copySSHOutput.
CopyReads(c) ==
  /\ copier[c] = "read"
  /\ \/ ~Closed /\ copier' = [copier EXCEPT ![c] = "send"]
     \/ (shell = "down" \/ Closed) /\ copier' = [copier EXCEPT ![c] = "end"]
  /\ UNCHANGED <<session, writer, reader, waiter, queue, stopped, shell, peer>>
CopySendsRegardless(c) ==
  /\ copier[c] = "send" /\ queue < OutputCap /\ queue' = queue + 1
  /\ copier' = [copier EXCEPT ![c] = "read"]
  /\ UNCHANGED <<session, writer, reader, waiter, stopped, shell, peer>>
CopySends(c) ==
  /\ copier[c] = "send"
  /\ \/ queue < OutputCap /\ queue' = queue + 1 /\ copier' = [copier EXCEPT ![c] = "read"]
     \/ stopped /\ copier' = [copier EXCEPT ![c] = "end"] /\ UNCHANGED queue
  /\ UNCHANGED <<session, writer, reader, waiter, stopped, shell, peer>>

\* writeSSHWebSocketOutput; a write to a stalled peer ends with its deadline.
WriterSelects ==
  /\ writer = "wait"
  /\ \/ stopped /\ writer' = "end" /\ UNCHANGED queue
     \/ queue > 0 /\ queue' = queue - 1 /\ writer' = "write"
  /\ UNCHANGED <<session, copier, reader, waiter, stopped, shell, peer>>
WriterWrites ==
  /\ writer = "write"
  /\ IF peer = "up" /\ ~Closed THEN writer' = "wait" /\ UNCHANGED stopped
                               ELSE writer' = "end" /\ stopped' = TRUE
  /\ UNCHANGED <<session, copier, reader, waiter, queue, shell, peer>>

\* readSSHWebSocketInput: a message, a resize or a command for the shell, whose
\* pipe may block until the session is closed.
ReaderReads ==
  /\ reader = "read"
  /\ \/ peer = "up" /\ ~Closed /\ reader' \in {"read", "stdin"} /\ UNCHANGED stopped
     \/ (peer = "down" \/ Closed) /\ reader' = "end" /\ stopped' = TRUE
  /\ UNCHANGED <<session, copier, writer, waiter, queue, shell, peer>>
ReaderWritesStdin ==
  /\ reader = "stdin"
  /\ \/ shell = "up" /\ ~Closed /\ reader' = "read" /\ UNCHANGED stopped
     \/ (shell = "down" \/ Closed) /\ reader' = "end" /\ stopped' = TRUE
  /\ UNCHANGED <<session, copier, writer, waiter, queue, shell, peer>>
ReaderEnds == (ReaderReads \/ ReaderWritesStdin) /\ reader' = "end"

\* session.Wait.
WaiterEnds ==
  /\ waiter = "wait" /\ (shell = "down" \/ Closed) /\ waiter' = "end" /\ stopped' = TRUE
  /\ UNCHANGED <<session, copier, writer, reader, queue, shell, peer>>

ShellExits == shell = "up" /\ shell' = "down" /\ UNCHANGED <<session, copier, writer, reader, waiter, queue, stopped, peer>>
PeerChanges == /\ peer # "down" /\ peer' \in {"down", "stalled"} \ {peer}
               /\ UNCHANGED <<session, copier, writer, reader, waiter, queue, stopped, shell>>

SessionNext ==
  \/ StartSession \/ EndSession
  \/ \E c \in Copiers : CopyReads(c) \/ CopySends(c)
  \/ WriterSelects \/ WriterWrites \/ ReaderReads \/ ReaderWritesStdin \/ WaiterEnds
  \/ ShellExits \/ PeerChanges

\* Every blocking call of a goroutine comes back: the lifetime timer bounds the
\* session, the write deadline a write, and closing ends the reads.
SessionFairness ==
  /\ WF_sessionVars(EndSession)
  /\ \A c \in Copiers : WF_sessionVars((CopyReads(c) \/ CopySends(c)))
  /\ WF_sessionVars((WriterSelects \/ WriterWrites))
  /\ WF_sessionVars(ReaderEnds)
  /\ WF_sessionVars(WaiterEnds)

\* Once a session has started, it ends, and every goroutine of it ends with it,
\* be it the shell, the peer, a failed write or the lifetime that stops it:
\* none stays at a full output channel, and no pipe holds the reader.
SessionDrains ==
  (session = "running") ~>
     (session = "over" /\ {writer, reader, waiter} = {"end"} /\ \A c \in Copiers : copier[c] = "end")

=============================================================================
