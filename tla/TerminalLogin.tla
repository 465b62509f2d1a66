--------------------------- MODULE TerminalLogin ---------------------------
(***************************************************************************)
(* Logging in to a terminal (route/v1/ssh.go): an authenticated POST leaves*)
(* a one-use ticket with the password, and a WebSocket request consumes it,*)
(* takes one of the slots and dials the local SSH daemon.                  *)
(***************************************************************************)
EXTENDS Integers, FiniteSets

CONSTANTS Sockets,     \* WebSocket requests
          Tickets,     \* ticket values that are issued
          Slots,       \* sshWebSocketSlots
          MaxTickets,  \* maxPendingSSHTickets
          Lifetime,    \* of a ticket
          LastTick     \* bound: the clock

ASSUME LoginConstants == Slots \in Nat \ {0} /\ MaxTickets \in Nat /\ Lifetime \in Nat \ {0} /\ LastTick \in Nat

Principals == {"alice", "bob"}

VARIABLES clock,
          registry,   \* ticket -> [owner, expires], or absent
          granted,     \* ticket -> what it was issued as
          opened,     \* history: the terminals that tickets opened
          socket,     \* request -> its place in WsSsh
          slotsUsed

loginVars == <<clock, registry, granted, opened, socket, slotsUsed>>

NoTicket == [owner |-> "nobody", expires |-> 0]

LoginInit ==
  /\ clock = 0 /\ registry = [t \in Tickets |-> NoTicket] /\ granted = registry /\ opened = {}
  /\ socket = [s \in Sockets |-> "idle"] /\ slotsUsed = 0

Expired(t) == clock >= registry[t].expires
\* cleanupLocked.
Cleaned == [t \in Tickets |-> IF Expired(t) THEN NoTicket ELSE registry[t]]
Pending(r) == {t \in Tickets : r[t] # NoTicket}

\* PostSshLogin, once the local SSH daemon has accepted the password; issue,
\* which cleans up even when it refuses.
IssueTicket(t, p) ==
  /\ granted[t] = NoTicket
  /\ \/ /\ Cardinality(Pending(Cleaned)) < MaxTickets
        /\ registry' = [Cleaned EXCEPT ![t] = [owner |-> p, expires |-> clock + Lifetime]]
        /\ granted' = [granted EXCEPT ![t] = [owner |-> p, expires |-> clock + Lifetime]]
     \/ Cardinality(Pending(Cleaned)) >= MaxTickets /\ registry' = Cleaned /\ UNCHANGED granted
  /\ UNCHANGED <<clock, opened, socket, slotsUsed>>

\* The AfterFunc of the ticket, at its time or later.
Expire(t) ==
  /\ t \in Pending(registry) /\ Expired(t) /\ registry' = [registry EXCEPT ![t] = NoTicket]
  /\ UNCHANGED <<clock, granted, opened, socket, slotsUsed>>

\* consume: a ticket that is presented is gone, whoever presents it.  One that is
\* refused ends a request that has credentials in its query, and no other.
RedeemedByOwner(t, p) == Cleaned
Redeemed(t, p) == [Cleaned EXCEPT ![t] = NoTicket]
Accepts(t, p) == t \in Pending(Cleaned) /\ registry[t].owner = p
ConsumeTicket(s, t, p) ==
  /\ socket[s] = "idle" /\ granted[t] # NoTicket
  /\ registry' = Redeemed(t, p)
  /\ IF Accepts(t, p)
     THEN /\ opened' = opened \cup {[ticket |-> t, by |-> p, at |-> clock, on |-> s]}
          /\ socket' = [socket EXCEPT ![s] = "admitted"]
     ELSE UNCHANGED opened /\ \E at \in {"admitted", "over"} : socket' = [socket EXCEPT ![s] = at]
  /\ UNCHANGED <<clock, granted, slotsUsed>>

\* A request without ticket: credentials in its query end it, otherwise they
\* come in the first frame.
WithoutTicket(s) ==
  /\ socket[s] = "idle" /\ \E at \in {"admitted", "over"} : socket' = [socket EXCEPT ![s] = at]
  /\ UNCHANGED <<clock, registry, granted, opened, slotsUsed>>

TakeSlot(s) ==
  /\ socket[s] = "admitted"
  /\ IF slotsUsed < Slots
     THEN socket' = [socket EXCEPT ![s] = "upgraded"] /\ slotsUsed' = slotsUsed + 1
     ELSE socket' = [socket EXCEPT ![s] = "over"] /\ UNCHANGED slotsUsed
  /\ UNCHANGED <<clock, registry, granted, opened>>

\* Upgrade, first frame, dial and the session: wherever it ends, the slot is
\* given back.
FreeSlot(s) ==
  /\ socket[s] = "upgraded" /\ socket' = [socket EXCEPT ![s] = "over"] /\ slotsUsed' = slotsUsed - 1
  /\ UNCHANGED <<clock, registry, granted, opened>>

LoginTick == clock < LastTick /\ clock' = clock + 1 /\ UNCHANGED <<registry, granted, opened, socket, slotsUsed>>

LoginNext ==
  \/ \E t \in Tickets : Expire(t) \/ \E p \in Principals : IssueTicket(t, p) \/ \E s \in Sockets : ConsumeTicket(s, t, p)
  \/ \E s \in Sockets : WithoutTicket(s) \/ TakeSlot(s) \/ FreeSlot(s)
  \/ LoginTick

LoginSpec == LoginInit /\ [][LoginNext]_loginVars

\* A ticket opens at most one terminal, for the principal that logged in and
\* within its lifetime, in whatever order requests, its timer and the cleanup
\* made by other requests come.
TicketOnce ==
  \A a \in opened : /\ a.by = granted[a.ticket].owner /\ a.at < granted[a.ticket].expires
                    /\ \A b \in opened : a.ticket = b.ticket => a = b

=============================================================================
