------------------------------ MODULE PeerHub ------------------------------
(***************************************************************************)
(* The file WebSocket hub (route/v1/file.go): clients that take a seat,    *)
(* greet themselves and start a reader and a writer; one broadcast channel *)
(* and the monitor that copies from it into each client's own channel, and *)
(* drops what does not fit.  Channels are bounded and a plain send blocks. *)
(* Of a client's own channel only the length is kept.                      *)
(***************************************************************************)
EXTENDS Integers, Sequences

CONSTANTS Clients,
          BroadcastCap,  \* bound of handler.broadcast
          SendCap,       \* bound of a client's send channel
          NoClient       \* a message that is nobody's departure

VARIABLES seated,     \* handler.clients
          broadcast,  \* the channel: departures, or NoClient for any other message
          sent,       \* client -> what is in its send channel
          joining,    \* client -> how far ConnectWebSocket is
          peerReader, peerWriter,
          open,       \* client -> its connection is open
          departed,    \* client -> shutdown has run
          announced   \* departures that the monitor has handed out

hubVars == <<seated, broadcast, sent, joining, peerReader, peerWriter, open, departed, announced>>
pumpVars == <<peerReader, peerWriter, open, departed>>

HubInit ==
  /\ seated = {} /\ broadcast = <<>> /\ sent = [c \in Clients |-> 0] /\ joining = [c \in Clients |-> "new"]
  /\ peerReader = [c \in Clients |-> "off"] /\ peerWriter = [c \in Clients |-> "off"] /\ open = [c \in Clients |-> FALSE]
  /\ departed = [c \in Clients |-> FALSE] /\ announced = {}

Broadcasts(m) == Len(broadcast) < BroadcastCap /\ broadcast' = Append(broadcast, m)
Sends(c) == sent[c] < SendCap /\ sent' = [sent EXCEPT ![c] = @ + 1]

(***************************************************************************)
(* ConnectWebSocket.                                                       *)
(***************************************************************************)
\* tryAdd: the seats may be taken, by clients other than these; who has none is closed.
TryAdd(c) ==
  /\ joining[c] = "new"
  /\ \/ /\ seated' = seated \cup {c} /\ joining' = [joining EXCEPT ![c] = "join"]
        /\ open' = [open EXCEPT ![c] = TRUE]
     \/ joining' = [joining EXCEPT ![c] = "refused"] /\ UNCHANGED <<seated, open>>
  /\ UNCHANGED <<broadcast, sent, peerReader, peerWriter, departed, announced>>
Join(c) ==
  /\ joining[c] = "join" /\ Broadcasts(NoClient) /\ joining' = [joining EXCEPT ![c] = "peers"]
  /\ UNCHANGED <<seated, sent, announced, pumpVars>>
\* peers, ping and display-name, before anyone receives from the channel.
Greeting == [peers |-> "ping", ping |-> "name", name |-> "start"]
Greet(c) ==
  /\ joining[c] \in DOMAIN Greeting /\ Sends(c) /\ joining' = [joining EXCEPT ![c] = Greeting[@]]
  /\ UNCHANGED <<seated, broadcast, announced, pumpVars>>
StartPumps(c) ==
  /\ joining[c] = "start" /\ joining' = [joining EXCEPT ![c] = "connected"]
  /\ peerReader' = [peerReader EXCEPT ![c] = "reading"] /\ peerWriter' = [peerWriter EXCEPT ![c] = "writing"]
  /\ UNCHANGED <<seated, broadcast, sent, open, departed, announced>>

(***************************************************************************)
(* The pumps and the monitor.                                              *)
(***************************************************************************)
ShutdownKeepsConnection(c) ==
  /\ seated' = seated \ {c} /\ departed' = [departed EXCEPT ![c] = TRUE] /\ UNCHANGED open
\* shutdown runs once: the seat, the done channel and the connection.
Shutdown(c) ==
  /\ seated' = seated \ {c} /\ open' = [open EXCEPT ![c] = FALSE] /\ departed' = [departed EXCEPT ![c] = TRUE]

Write(c) ==
  /\ peerWriter[c] = "writing" /\ sent[c] > 0 /\ sent' = [sent EXCEPT ![c] = @ - 1]
  /\ UNCHANGED <<seated, broadcast, joining, announced, pumpVars>>
\* done, a write that fails, or the end of the lifetime.
WriterEnds(c) ==
  /\ peerWriter[c] = "writing" /\ peerWriter' = [peerWriter EXCEPT ![c] = "off"] /\ Shutdown(c)
  /\ UNCHANGED <<broadcast, sent, joining, peerReader, announced>>

\* A message that normalizeClientPeerMessage refuses, or a pong, changes nothing;
\* one with a target is dropped when the target is gone or full.
ReadTargeted(c, to) ==
  /\ peerReader[c] = "reading" /\ open[c] /\ to \in seated /\ Sends(to)
  /\ UNCHANGED <<seated, broadcast, joining, announced, pumpVars>>
ReadBroadcast(c) ==
  /\ peerReader[c] = "reading" /\ open[c] /\ Broadcasts(NoClient)
  /\ UNCHANGED <<seated, sent, joining, announced, pumpVars>>
\* ReadMessage fails: the connection closed, the peer went or the deadline passed;
\* or the peer disconnects.
ReadEnds(c) ==
  /\ peerReader[c] = "reading" /\ peerReader' = [peerReader EXCEPT ![c] = "leaving"]
  /\ UNCHANGED <<seated, broadcast, sent, joining, peerWriter, open, departed, announced>>
Leave(c) ==
  /\ peerReader[c] = "leaving" /\ Broadcasts(c) /\ peerReader' = [peerReader EXCEPT ![c] = "left"]
  /\ UNCHANGED <<seated, sent, joining, peerWriter, open, departed, announced>>
PeerReaderEnds(c) ==
  /\ peerReader[c] = "left" /\ peerReader' = [peerReader EXCEPT ![c] = "off"] /\ Shutdown(c)
  /\ UNCHANGED <<broadcast, sent, joining, peerWriter, announced>>

Monitor ==
  /\ broadcast # <<>> /\ broadcast' = Tail(broadcast)
  /\ sent' = [c \in Clients |-> IF c \in seated /\ sent[c] < SendCap THEN sent[c] + 1 ELSE sent[c]]
  /\ announced' = announced \cup ({Head(broadcast)} \ {NoClient})
  /\ UNCHANGED <<seated, joining, pumpVars>>
\* The cron job: every 30 seconds.
Ping == Broadcasts(NoClient) /\ UNCHANGED <<seated, sent, joining, announced, pumpVars>>

HubNext ==
  \/ Monitor \/ Ping
  \/ \E c \in Clients : \/ TryAdd(c) \/ Join(c) \/ Greet(c) \/ StartPumps(c)
                        \/ Write(c) \/ WriterEnds(c) \/ ReadBroadcast(c) \/ ReadEnds(c) \/ Leave(c) \/ PeerReaderEnds(c)
                        \/ \E to \in Clients : ReadTargeted(c, to)

\* The monitor and the pumps are goroutines that run; a blocked send is served in
\* turn; a reader fails once its connection is closed, and only then for sure,
\* and a writer sees the done channel once it is closed.
HubFairness ==
  /\ WF_hubVars(Monitor)
  /\ \A c \in Clients : /\ WF_hubVars(~open[c] /\ ReadEnds(c))
                        /\ SF_hubVars(Leave(c))
                        /\ WF_hubVars(PeerReaderEnds(c))
                        /\ WF_hubVars(departed[c] /\ WriterEnds(c))

\* A client that either pump has shut down is announced as gone, and both its
\* pumps end, however full the channels are and whatever the others send.
DepartureTold ==
  \A c \in Clients : departed[c] ~> c \in announced /\ peerReader[c] = "off" /\ peerWriter[c] = "off"

=============================================================================
