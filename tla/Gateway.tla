------------------------------- MODULE Gateway -------------------------------
(***************************************************************************)
(* How a client gets in: the TLS gateway issues a ticket, the session      *)
(* listener hands it to the next connection from that address, and the     *)
(* session goes through its phases, encrypted from the second one on.      *)
(* Gateway and session listener are one thread each; every session has     *)
(* its own.  A client speaks one request at a time, like SessionClient in  *)
(* the tests.                                                              *)
(***************************************************************************)
EXTENDS Naturals, Sequences, SequencesExt

CONSTANTS
    Clients,
    Address,        \* function: the address a client comes from
    Weathers,       \* functions: what may befall each client of a run, of the faults below
    NoAddress,      \* the address of a connection that has been reset: an empty string
    None,
    MaxKeys         \* bound: session keys issued

VARIABLES
    faults,         \* the weather of this run
    client,         \* how far a client has come
    given,          \* the session key it was given last; 0 before
    asking,         \* connections the gateway has yet to accept
    gateway,        \* the client the gateway is busy with, its key if issued, and
                    \* whether it talks, is silent or is cut off
    tickets,        \* PendingTicketStore
    next_session_key,
    backlog,        \* connections the session listener has yet to accept; some
                    \* have been closed by the client meanwhile, or reset
    session,        \* server side of a client's connection
    link,           \* the message under way on it
    met             \* faults a client that is alone at its address has met: no
                    \* state of the program

state == <<client, given, asking, gateway, tickets, next_session_key, backlog, session, link>>
vars == <<faults, state, met>>

\* A request the gateway rejects, a client that says nothing to the gateway or is
\* cut off from it after its request, a gateway response that is lost, a client that
\* goes with a ticket it never uses, one that closes its session's connection, and
\* such a connection reset before the listener has accepted it.
AllFaults == {"bad", "silent", "cut", "lost", "abandon", "leave", "reset"}

ASSUME WeatherAssumption == Weathers \subseteq [Clients -> SUBSET AllFaults]

\* What inet_ntop() makes of an address is never empty.
ASSUME AddressAssumption == \A c \in Clients : Address[c] # NoAddress

Places == {"new", "asking", "holding", "connected", "ready"}
Phases == {"await_secure_box_registration", "await_box_sign_on", "await_login", "ready"}
Lines == {"open", "silent", "cut"}

ASSUME NoneAssumption ==
    /\ None \notin [client : Clients, key : Nat, line : Lines]
    /\ None \notin [session_key : Nat, phase : Phases, encryption_enabled : BOOLEAN]

\* A message is encrypted under a key, or under 0: sent as it is.
Message(from, phase, under, key) ==
    [from |-> from, phase |-> phase, under |-> under, session_key |-> key]

Init ==
    /\ faults \in Weathers
    /\ client = [c \in Clients |-> "new"]
    /\ given = [c \in Clients |-> 0]
    /\ asking = <<>>
    /\ gateway = None
    /\ tickets = <<>>
    /\ next_session_key = 1
    /\ backlog = <<>>
    /\ session = [c \in Clients |-> None]
    /\ link = [c \in Clients |-> None]
    /\ met = [c \in Clients |-> {}]

\* Nobody else comes from c's address.
Alone(c) == \A d \in Clients \ {c} : Address[d] # Address[c]

\* Fault f strikes client c.
Meet(c, f) ==
    /\ f \in faults[c]
    /\ met' = [met EXCEPT ![c] = IF Alone(c) THEN @ \cup {f} ELSE @]

Place(c, place) == client' = [client EXCEPT ![c] = place]

-----------------------------------------------------------------------------
(* The gateway thread: one client after the other.                         *)

Ask(c) ==
    /\ client[c] = "new"
    /\ next_session_key <= MaxKeys
    /\ asking' = Append(asking, c)
    /\ Place(c, "asking")
    /\ UNCHANGED <<given, gateway, tickets, next_session_key, backlog, session, link>>

Accept ==
    /\ gateway = None /\ asking # <<>>
    /\ gateway' = [client |-> Head(asking), key |-> 0, line |-> "open"]
    /\ asking' = Tail(asking)
    /\ UNCHANGED <<client, given, tickets, next_session_key, backlog, session, link>>

\* No TLS, or a request cut short or of the wrong length, digest or code.
Reject ==
    /\ gateway # None /\ gateway.key = 0 /\ gateway.line = "open"
    /\ Meet(gateway.client, "bad")
    /\ gateway' = None
    /\ Place(gateway.client, "new")
    /\ UNCHANGED <<given, asking, tickets, next_session_key, backlog, session, link>>

\* The client stops talking, before TLS or after.  Nothing limits the wait.
FallSilent ==
    /\ gateway # None /\ gateway.key = 0 /\ gateway.line = "open"
    /\ Meet(gateway.client, "silent")
    /\ gateway' = [gateway EXCEPT !.line = "silent"]
    /\ UNCHANGED <<client, given, asking, tickets, next_session_key, backlog, session, link>>

\* It hangs up, if it ever does, and the gateway's read fails.
SilenceEnds ==
    /\ gateway # None /\ gateway.line = "silent"
    /\ gateway' = None
    /\ Place(gateway.client, "new")
    /\ UNCHANGED <<given, asking, tickets, next_session_key, backlog, session, link, met>>

\* The connection is reset when the gateway has read the request.
Cut ==
    /\ gateway # None /\ gateway.key = 0 /\ gateway.line = "open"
    /\ Meet(gateway.client, "cut")
    /\ gateway' = [gateway EXCEPT !.line = "cut"]
    /\ UNCHANGED <<client, given, asking, tickets, next_session_key, backlog, session, link>>

\* peerIpAddress: a connection that has been reset has no peer any more.
Peer(c, reset) == IF reset THEN NoAddress ELSE Address[c]

IssueTicket ==
    /\ gateway # None /\ gateway.key = 0 /\ gateway.line # "silent"
    /\ gateway' = [gateway EXCEPT !.key = next_session_key]
    /\ tickets' = Append(tickets, [peer_ip |-> Peer(gateway.client, gateway.line = "cut"),
                                   session_key |-> next_session_key])
    /\ next_session_key' = next_session_key + 1
    /\ UNCHANGED <<client, given, asking, backlog, session, link>>

Answer ==
    /\ gateway # None /\ gateway.key # 0 /\ gateway.line = "open"
    /\ given' = [given EXCEPT ![gateway.client] = gateway.key]
    /\ Place(gateway.client, "holding")
    /\ gateway' = None
    /\ UNCHANGED <<asking, tickets, next_session_key, backlog, session, link>>

\* The response cannot be written.
FailAnswer ==
    /\ gateway # None /\ gateway.key # 0 /\ gateway.line = "cut"
    /\ Place(gateway.client, "new")
    /\ gateway' = None
    /\ UNCHANGED <<given, asking, tickets, next_session_key, backlog, session, link>>

\* The ticket is stored before the response is written, and stays.
LoseAnswer ==
    /\ gateway # None /\ gateway.key # 0 /\ gateway.line = "open"
    /\ Meet(gateway.client, "lost")
    /\ Place(gateway.client, "new")
    /\ gateway' = None
    /\ UNCHANGED <<given, asking, tickets, next_session_key, backlog, session, link>>

-----------------------------------------------------------------------------
(* The session listener.                                                   *)

\* The client connects and sends its first request.
Connect(c) ==
    /\ client[c] = "holding"
    /\ backlog' = Append(backlog, [client |-> c, end |-> "open"])
    /\ link' = [link EXCEPT ![c] = Message("client", "await_secure_box_registration", 0, 0)]
    /\ Place(c, "connected")
    /\ UNCHANGED <<given, asking, gateway, tickets, next_session_key, session>>

\* claimForPeer: the first ticket of an address.
Claims(address) == {i \in DOMAIN tickets : tickets[i].peer_ip = address}

Opened(ticket) ==
    [session_key |-> ticket.session_key, phase |-> "await_secure_box_registration",
     encryption_enabled |-> FALSE]

\* The connection at the head of the backlog gets a session.  One its client has
\* closed meanwhile takes a ticket with it: the session ends with its first read.
Open(ticket) ==
    session' = IF Head(backlog).end = "open"
               THEN [session EXCEPT ![Head(backlog).client] = Opened(ticket)] ELSE session

\* Mutant of ClaimTicket: the ticket stays in the store.
ClaimTicketAndKeep(peer) ==
    \E i \in Claims(peer) :
        /\ \A j \in Claims(peer) : i <= j
        /\ Open(tickets[i])
        /\ UNCHANGED <<client, tickets, link>>

\* Mutant of ClaimTicket: the first ticket is taken, whose ever it is.
ClaimAnyTicket(peer) ==
    /\ tickets # <<>>
    /\ Open(Head(tickets))
    /\ tickets' = Tail(tickets)
    /\ UNCHANGED <<client, link>>

ClaimTicket(peer) ==
    \E i \in Claims(peer) :
        /\ \A j \in Claims(peer) : i <= j
        /\ Open(tickets[i])
        /\ tickets' = RemoveAt(tickets, i)
        /\ UNCHANGED <<client, link>>

TurnAway(peer) ==
    /\ Claims(peer) = {}
    /\ IF Head(backlog).end = "open"
       THEN /\ Place(Head(backlog).client, "new")
            /\ link' = [link EXCEPT ![Head(backlog).client] = None]
       ELSE UNCHANGED <<client, link>>
    /\ UNCHANGED <<session, tickets>>

\* The address of the connection at the head of the backlog.  Nobody has a ticket for
\* one that was reset, so it is turned away and the ticket meant for it stays; unless
\* the gateway issued one to a client it was cut off from.
HeadPeer == Peer(Head(backlog).client, Head(backlog).end = "reset")

\* Mutant of AcceptSession: a connection that has been closed is passed over too.
AcceptSessionUnlessClosed ==
    /\ backlog # <<>>
    /\ backlog' = Tail(backlog)
    /\ IF Head(backlog).end = "closed" THEN UNCHANGED <<client, session, tickets, link>>
       ELSE ClaimTicket(HeadPeer) \/ TurnAway(HeadPeer)
    /\ UNCHANGED <<given, asking, gateway, next_session_key>>

\* Mutant of AcceptSession: the gateway's thread does it, between two clients.
AcceptSessionBetween ==
    /\ backlog # <<>> /\ gateway = None
    /\ backlog' = Tail(backlog)
    /\ ClaimTicket(HeadPeer) \/ TurnAway(HeadPeer)
    /\ UNCHANGED <<given, asking, gateway, next_session_key>>

AcceptSession ==
    /\ backlog # <<>>
    /\ backlog' = Tail(backlog)
    /\ ClaimTicket(HeadPeer) \/ TurnAway(HeadPeer)
    /\ UNCHANGED <<given, asking, gateway, next_session_key>>

-----------------------------------------------------------------------------
(* A session's thread.                                                     *)

\* What each end decrypts with; 0 before the switch.
ServerCipher(c) ==
    IF session[c] # None /\ session[c].encryption_enabled THEN session[c].session_key ELSE 0
ClientCipher(c) ==
    IF link[c].phase = "await_secure_box_registration" THEN 0 ELSE given[c]

\* A request that decrypts to its digest and is the one the phase waits for.
Heard(c, phase) ==
    /\ session[c] # None /\ link[c] # None /\ link[c].from = "client"
    /\ link[c].under = ServerCipher(c)
    /\ session[c].phase = phase /\ link[c].phase = phase

\* The response to the request of this phase, as encrypted by now.
Reply(c, under) ==
    link' = [link EXCEPT ![c] = Message("server", session[c].phase, under, 0)]

Others == UNCHANGED <<client, given, asking, gateway, tickets, next_session_key, backlog>>

\* Mutant of HandleSecureBoxRegistration: the response is encrypted already.
HandleRegistrationEncrypted(c) ==
    /\ Heard(c, "await_secure_box_registration")
    /\ Reply(c, session[c].session_key)
    /\ session' = [session EXCEPT ![c].encryption_enabled = TRUE,
                                  ![c].phase = "await_box_sign_on"]
    /\ Others

\* Every ticket has the same box id.  The response goes out before the switch.
HandleSecureBoxRegistration(c) ==
    /\ Heard(c, "await_secure_box_registration")
    /\ Reply(c, 0)
    /\ session' = [session EXCEPT ![c].encryption_enabled = TRUE,
                                  ![c].phase = "await_box_sign_on"]
    /\ Others

HandleBoxSignOn(c) ==
    /\ Heard(c, "await_box_sign_on")
    /\ link[c].session_key = session[c].session_key
    /\ Reply(c, ServerCipher(c))
    /\ session' = [session EXCEPT ![c].phase = "await_login"]
    /\ Others

HandleLogin(c) ==
    /\ Heard(c, "await_login")
    /\ Reply(c, ServerCipher(c))
    /\ session' = [session EXCEPT ![c].phase = "ready"]
    /\ Others

\* The connection comes to an end and the client starts over.  If the listener has
\* yet to accept it, it stays in the backlog.
Close(c, end) ==
    /\ session' = [session EXCEPT ![c] = None]
    /\ link' = [link EXCEPT ![c] = None]
    /\ Place(c, "new")
    /\ backlog' = [i \in DOMAIN backlog |->
            IF backlog[i].client = c /\ backlog[i].end = "open"
            THEN [backlog[i] EXCEPT !.end = end] ELSE backlog[i]]
    /\ UNCHANGED <<given, asking, gateway, tickets, next_session_key>>

\* Mutant of Refuse: a request that cannot be read is skipped.
RefuseSilently(c) ==
    /\ session[c] # None /\ link[c] # None /\ link[c].from = "client"
    /\ \/ link[c].under # ServerCipher(c)
       \/ /\ session[c].phase = "await_box_sign_on"
          /\ link[c].session_key # session[c].session_key
    /\ link' = [link EXCEPT ![c] = None]
    /\ UNCHANGED session
    /\ Others

\* Anything else ends the session: a bad digest, or another ticket's key.
Refuse(c) ==
    /\ session[c] # None /\ link[c] # None /\ link[c].from = "client"
    /\ \/ link[c].under # ServerCipher(c)
       \/ /\ session[c].phase = "await_box_sign_on"
          /\ link[c].session_key # session[c].session_key
    /\ Close(c, "closed")

-----------------------------------------------------------------------------
(* The client's side of a session.                                         *)

After(phase) ==
    CASE phase = "await_secure_box_registration" -> "await_box_sign_on"
      [] phase = "await_box_sign_on" -> "await_login"
      [] phase = "await_login" -> "ready"

\* It reads a response and sends its next request, or is in.
Proceed(c) ==
    /\ link[c] # None /\ link[c].from = "server"
    /\ link[c].under = ClientCipher(c)
    /\ LET next == After(link[c].phase)
       IN  IF next = "ready"
           THEN /\ Place(c, "ready")
                /\ link' = [link EXCEPT ![c] = None]
           ELSE /\ link' = [link EXCEPT ![c] = Message("client", next, given[c], given[c])]
                /\ UNCHANGED client
    /\ UNCHANGED <<given, asking, gateway, tickets, next_session_key, backlog, session>>

\* It cannot read the response and hangs up.
HangUp(c) ==
    /\ link[c] # None /\ link[c].from = "server"
    /\ link[c].under # ClientCipher(c)
    /\ Close(c, "closed")

\* It goes, with a key in hand or with its connection open.
Abandon(c) ==
    /\ client[c] = "holding"
    /\ Place(c, "new")
    /\ Meet(c, "abandon")
    /\ UNCHANGED <<given, asking, gateway, tickets, next_session_key, backlog, session, link>>

LeaveSession(c) ==
    /\ client[c] \in {"connected", "ready"}
    /\ Close(c, "closed")
    /\ Meet(c, "leave")

\* Its connection is reset before the listener has accepted it.  (Later it makes no
\* difference to the program whether it is reset or closed.)
Reset(c) ==
    /\ \E i \in DOMAIN backlog : backlog[i] = [client |-> c, end |-> "open"]
    /\ Close(c, "reset")
    /\ Meet(c, "reset")

-----------------------------------------------------------------------------
GatewayLoop == Accept \/ IssueTicket \/ Answer \/ FailAnswer

Session(c) ==
    \/ HandleSecureBoxRegistration(c) \/ HandleBoxSignOn(c) \/ HandleLogin(c) \/ Refuse(c)

Client(c) == Connect(c) \/ Proceed(c) \/ HangUp(c)

Work ==
    \/ GatewayLoop \/ AcceptSession
    \/ \E c \in Clients : Ask(c) \/ Client(c) \/ Session(c)

Fault ==
    \/ Reject \/ FallSilent \/ SilenceEnds \/ Cut \/ LoseAnswer
    \/ \E c \in Clients : Abandon(c) \/ LeaveSession(c) \/ Reset(c)

Next ==
    /\ Fault \/ (Work /\ UNCHANGED met)
    /\ UNCHANGED faults

Spec == Init /\ [][Next]_vars

\* The program's threads run, and clients that have a ticket go through with it.
\* Nobody has to ask, and one that has fallen silent need not hang up.
FairSpec ==
    /\ Spec
    /\ WF_state(GatewayLoop) /\ WF_state(AcceptSession)
    /\ \A c \in Clients : WF_state(Session(c)) /\ WF_state(Client(c))

-----------------------------------------------------------------------------
(* Properties.                                                             *)

TypeOK ==
    /\ client \in [Clients -> Places]
    /\ given \in [Clients -> 0 .. next_session_key - 1]
    /\ \A i \in DOMAIN tickets : tickets[i].session_key \in 1 .. next_session_key - 1
    /\ next_session_key \in Nat \ {0}
    /\ \A c \in Clients : session[c] # None =>
        session[c].phase \in Phases /\ session[c].session_key \in 1 .. next_session_key - 1
    /\ met \in [Clients -> SUBSET AllFaults] /\ faults \in Weathers

\* A session key, and the key stream that comes with it, is used by one session
\* at most (336-344, 1682-1688): never by two at once nor by a session while its
\* ticket can still be claimed.
KeyUsedOnce ==
    /\ \A i, j \in DOMAIN tickets : tickets[i].session_key = tickets[j].session_key => i = j
    /\ \A c \in Clients : session[c] # None =>
        /\ \A i \in DOMAIN tickets : tickets[i].session_key # session[c].session_key
        /\ \A d \in Clients \ {c} : session[d] # None =>
                session[d].session_key # session[c].session_key

\* What is under way to c or from it can be read by the one it is for.
Legible(c) ==
    link[c] # None /\ session[c] # None =>
        link[c].under = IF link[c].from = "client" THEN ServerCipher(c) ELSE ClientCipher(c)

\* What leaves a ticket of a client in the store, to be handed to its next connection:
\* the client never learns of it, never comes for it, or comes on a connection that is
\* reset before it is accepted, so that its address can no longer be read (187-188).
Stranding == {"lost", "abandon", "reset"}

\* Both ends switch the cipher on at the same message, under the same key
\* (claimForPeer, 333-343; 1413-1417), for a client with an address to itself, as
\* long as nothing has stranded a ticket of its.  Rejected requests, connections to
\* the gateway that are reset, connections closed before they were accepted, and all
\* that befalls the other clients do not matter.
Readable ==
    \A c \in Clients : Alone(c) /\ met[c] \cap Stranding = {} => Legible(c)

\* Tickets have no expiry (326-348).  Only the three causes above leave one behind: any
\* other is on its way to the client that was given it or to a connection the listener
\* has yet to accept, closed meanwhile or not.
NoneLeftBehind ==
    \A c \in Clients :
        /\ Alone(c) /\ met[c] \cap Stranding = {}
        /\ Claims(Address[c]) # {}
        => \/ client[c] = "holding"
           \/ gateway # None /\ gateway.client = c /\ gateway.key # 0
           \/ \E i \in DOMAIN backlog : backlog[i].client = c

\* The gateway serves one client at a time and waits for it without a limit
\* (1638-1666).
Blocked == gateway # None /\ gateway.line = "silent"

\* Such a client, if it meets no fault of its own, gets in whenever it asks,
\* unless another one has the gateway wait for ever.
SignedOn ==
    \A c \in {d \in Clients : Alone(d)} :
        client[c] = "asking" ~> client[c] = "ready" \/ met[c] # {} \/ Blocked

\* A silent client keeps askers out but nobody who holds a ticket: the session
\* listener shares nothing with the gateway but the ticket store (1712-1736).
HoldersGetIn ==
    \A c \in {d \in Clients : Alone(d)} :
        client[c] = "holding" ~> client[c] = "ready" \/ met[c] # {}

\* Whatever goes wrong, a connection comes to an end: ready or closed.
HandshakeEnds == \A c \in Clients : client[c] = "connected" ~> client[c] \in {"ready", "new"}

=============================================================================
