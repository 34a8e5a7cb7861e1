----------------------------- MODULE GatewayProofs -----------------------------
(***************************************************************************)
(* Session keys serve once, tickets stay behind only where a response was  *)
(* lost, a client never came or its connection was reset unaccepted, and   *)
(* the two ends of a session can read each other, for any number of        *)
(* clients, addresses and keys.                                            *)
(***************************************************************************)
EXTENDS Gateway, FiniteSetTheorems, SequenceTheorems, TLAPS

-----------------------------------------------------------------------------
(* The invariant.                                                          *)

Tickets(n) ==
    [peer_ip : {Address[c] : c \in Clients} \cup {NoAddress}, session_key : 1 .. n - 1]
Served(n) == [client : Clients, key : 0 .. n - 1, line : Lines]
Entries == [client : Clients, end : {"open", "closed", "reset"}]
Sessions(n) == [session_key : 1 .. n - 1, phase : Phases, encryption_enabled : BOOLEAN]
Links(n) == [from : {"client", "server"}, phase : Phases \ {"ready"}, under : 0 .. n - 1,
             session_key : 0 .. n - 1]

StateOK ==
    /\ next_session_key \in Nat \ {0}
    /\ client \in [Clients -> Places]
    /\ given \in [Clients -> 0 .. next_session_key - 1]
    /\ asking \in Seq(Clients)
    /\ gateway \in Served(next_session_key) \cup {None}
    /\ tickets \in Seq(Tickets(next_session_key))
    /\ backlog \in Seq(Entries)
    /\ session \in [Clients -> Sessions(next_session_key) \cup {None}]
    /\ link \in [Clients -> Links(next_session_key) \cup {None}]
    /\ met \in [Clients -> SUBSET AllFaults]
    /\ faults \in Weathers

\* c's connections the gateway has yet to accept.
Queued(c) == {i \in DOMAIN asking : asking[i] = c}

\* The gateway is busy with c, and has issued a ticket to it and not answered yet.
Busy(c) == gateway # None /\ gateway.client = c
Answering(c) == Busy(c) /\ gateway.key # 0 /\ gateway.line = "open"

\* c's connections in the listener's backlog, the one that is still open, and that
\* none of them has been reset.
Waiting(c) == {i \in DOMAIN backlog : backlog[i].client = c}
Live(c) == {i \in Waiting(c) : backlog[i].end = "open"}
NoneReset(c) == \A i \in Waiting(c) : backlog[i].end # "reset"

\* Where a client is, by its own account, is where the program has it.
InPlace(c) ==
    /\ Queued(c) # {} => client[c] = "asking" /\ ~Busy(c)
    /\ \A i, j \in Queued(c) : i = j
    /\ Busy(c) => client[c] = "asking"
    /\ session[c] # None => client[c] \in {"connected", "ready"}
    /\ \A i \in Live(c) : \A j \in Waiting(c) : j <= i
    /\ Live(c) # {} => client[c] = "connected" /\ session[c] = None
    /\ link[c] # None => client[c] = "connected"
    /\ link[c] # None /\ session[c] = None =>
        link[c] = Message("client", "await_secure_box_registration", 0, 0)

\* The phases of both ends and the message between them.
InPhase(c) ==
    session[c] # None =>
        /\ session[c].encryption_enabled
                <=> session[c].phase # "await_secure_box_registration"
        /\ link[c] # None /\ link[c].from = "client" =>
            /\ link[c].phase = session[c].phase
            /\ link[c].under = IF link[c].phase = "await_secure_box_registration"
                               THEN 0 ELSE given[c]
        /\ link[c] # None /\ link[c].from = "server" =>
            /\ session[c].phase = After(link[c].phase)
            /\ link[c].under = IF link[c].phase = "await_secure_box_registration"
                               THEN 0 ELSE session[c].session_key

\* Nobody else comes from c's address, and no ticket of its has been stranded.
Clean(c) == Alone(c) /\ met[c] \cap Stranding = {}

\* The ticket that came last for c has this key.
Latest(c, key) ==
    \E i \in Claims(Address[c]) :
        /\ \A j \in Claims(Address[c]) : j <= i
        /\ tickets[i].session_key = key

\* One ticket per connection that is waiting, and one for the client that has none yet.
Matched(c) ==
    /\ Cardinality(Claims(Address[c])) =
            Cardinality(Waiting(c)) + (IF client[c] = "holding" \/ Answering(c) THEN 1 ELSE 0)
    /\ client[c] = "holding" \/ Live(c) # {} => Latest(c, given[c])
    /\ Answering(c) => Latest(c, gateway.key)
    /\ session[c] # None => session[c].session_key = given[c]
    /\ NoneReset(c)

Good(c) == InPlace(c) /\ InPhase(c) /\ (Clean(c) => Matched(c))

IInv ==
    /\ StateOK
    /\ KeyUsedOnce
    /\ gateway # None /\ gateway.line = "silent" => gateway.key = 0
    /\ \A c \in Clients : Good(c)

LEMMA InitIInv == Init => IInv
<1>1. SUFFICES ASSUME Init PROVE IInv
  OBVIOUS
<1>2. StateOK
  <2>1. met = [c \in Clients |-> {}] /\ {} \in SUBSET AllFaults
    BY <1>1 DEF Init
  <2>2. <<>> \in Seq(Clients) /\ <<>> \in Seq(Tickets(1)) /\ <<>> \in Seq(Entries)
    OBVIOUS
  <2> QED
    BY <1>1, <2>1, <2>2 DEF Init, StateOK, Places
<1>3. ASSUME NEW c \in Clients
      PROVE  Good(c)
  <2>1. Claims(Address[c]) = {} /\ Waiting(c) = {} /\ Live(c) = {} /\ Queued(c) = {}
    BY <1>1 DEF Init, Claims, Waiting, Live, Queued
  <2>2. Cardinality({}) = 0
    BY FS_EmptySet
  <2> QED
    BY <1>1, <2>1, <2>2 DEF Init, Good, InPlace, InPhase, Matched, Answering, Busy, NoneReset
<1>4. KeyUsedOnce
  BY <1>1 DEF Init, KeyUsedOnce
<1> QED
  BY <1>1, <1>2, <1>3, <1>4 DEF IInv, Init

-----------------------------------------------------------------------------
(* Indexes of sequences.                                                   *)

\* Taking one element out moves the places behind it and keeps the count of the others.
LEMMA ShiftOut ==
    ASSUME NEW n \in Nat, NEW X \in SUBSET (1 .. n), NEW k \in 1 .. n,
           NEW Y \in SUBSET (1 .. n - 1),
           \A j \in 1 .. n - 1 : j \in Y <=> IF j < k THEN j \in X ELSE j + 1 \in X
    PROVE  /\ IsFiniteSet(X) /\ IsFiniteSet(Y)
           /\ Cardinality(X) \in Nat /\ Cardinality(Y) \in Nat
           /\ Cardinality(X) = Cardinality(Y) + (IF k \in X THEN 1 ELSE 0)
<1>1. IsFiniteSet(X) /\ IsFiniteSet(Y)
  <2>1. IsFiniteSet(1 .. n) /\ Y \in SUBSET (1 .. n)
    BY FS_Interval
  <2> QED
    BY <2>1, FS_Subset
<1>2. Cardinality(X) \in Nat /\ Cardinality(Y) \in Nat
  BY <1>1, FS_CardinalityType
<1>3. Cardinality(X \ {k}) = Cardinality(Y)
  <2> DEFINE f == [j \in Y |-> IF j < k THEN j ELSE j + 1]
  <2>1. f \in Bijection(Y, X \ {k})
    <3>1. f \in [Y -> X \ {k}]
      OBVIOUS
    <3>2. ASSUME NEW i \in Y, NEW j \in Y, f[i] = f[j] PROVE i = j
      BY <3>2
    <3>3. ASSUME NEW x \in X \ {k} PROVE \E j \in Y : f[j] = x
      <4>1. CASE x < k
        <5>1. x \in Y /\ f[x] = x
          BY <4>1, <3>3
        <5> QED
          BY <5>1
      <4>2. CASE ~(x < k)
        <5>1. x - 1 \in Y /\ f[x - 1] = x
          BY <4>2, <3>3
        <5> QED
          BY <5>1
      <4> QED
        BY <4>1, <4>2
    <3> HIDE DEF f
    <3> QED
      BY <3>1, <3>2, <3>3 DEF Bijection, Injection, Surjection, IsInjective
  <2>2. ExistsBijection(Y, X \ {k})
    BY <2>1 DEF ExistsBijection
  <2> QED
    BY <1>1, <2>2, FS_Bijection
<1>4. Cardinality(X \ {k}) = IF k \in X THEN Cardinality(X) - 1 ELSE Cardinality(X)
  BY <1>1, FS_RemoveElement
<1> QED
  BY <1>1, <1>2, <1>3, <1>4

LEMMA FiniteQueues ==
    ASSUME StateOK, NEW c \in Clients
    PROVE  /\ Waiting(c) \subseteq 1 .. Len(backlog) /\ Len(backlog) \in Nat
           /\ Claims(Address[c]) \subseteq 1 .. Len(tickets) /\ Len(tickets) \in Nat
           /\ IsFiniteSet(Waiting(c)) /\ Cardinality(Waiting(c)) \in Nat
           /\ IsFiniteSet(Claims(Address[c])) /\ Cardinality(Claims(Address[c])) \in Nat
<1>1. /\ Waiting(c) \subseteq 1 .. Len(backlog) /\ Len(backlog) \in Nat
      /\ Claims(Address[c]) \subseteq 1 .. Len(tickets) /\ Len(tickets) \in Nat
  BY DEF StateOK, Waiting, Claims
<1>2. IsFiniteSet(1 .. Len(backlog)) /\ IsFiniteSet(1 .. Len(tickets))
  BY <1>1, FS_Interval
<1>3. IsFiniteSet(Waiting(c)) /\ IsFiniteSet(Claims(Address[c]))
  BY <1>1, <1>2, FS_Subset
<1> QED
  BY <1>1, <1>3, FS_CardinalityType

LEMMA RemoveIndex ==
    ASSUME NEW S, NEW s \in Seq(S), NEW k \in 1 .. Len(s)
    PROVE  /\ RemoveAt(s, k) \in Seq(S)
           /\ Len(RemoveAt(s, k)) = Len(s) - 1
           /\ \A j \in 1 .. Len(s) - 1 :
                RemoveAt(s, k)[j] = IF j < k THEN s[j] ELSE s[j + 1]
<1> DEFINE a == SubSeq(s, 1, k - 1)
           b == SubSeq(s, k + 1, Len(s))
<1>1. a \in Seq(S) /\ Len(a) = k - 1 /\ \A j \in 1 .. k - 1 : a[j] = s[j]
  BY SMT
<1>2. b \in Seq(S) /\ Len(b) = Len(s) - k /\ \A j \in 1 .. Len(s) - k : b[j] = s[k + j]
  BY SMT
<1>3. RemoveAt(s, k) = a \o b
  BY DEF RemoveAt
<1> HIDE DEF a, b
<1>4. a \o b \in Seq(S) /\ Len(a \o b) = Len(s) - 1
  <2>1. a \o b \in Seq(S) /\ Len(a \o b) = Len(a) + Len(b)
    BY <1>1, <1>2, ConcatProperties
  <2>2. Len(s) \in Nat
    BY LenProperties
  <2> QED
    BY <1>1, <1>2, <2>1, <2>2
<1>5. ASSUME NEW j \in 1 .. Len(s) - 1
      PROVE  (a \o b)[j] = IF j < k THEN s[j] ELSE s[j + 1]
  <2>1. CASE j < k
    BY <1>1, <1>2, <2>1
  <2>2. CASE ~(j < k)
    <3>1. (a \o b)[j] = b[j - (k - 1)] /\ j - (k - 1) \in 1 .. Len(s) - k
      BY <1>1, <1>2, <2>2
    <3> QED
      BY <1>2, <2>2, <3>1
  <2> QED
    BY <2>1, <2>2
<1> QED
  BY <1>3, <1>4, <1>5

-----------------------------------------------------------------------------
(* Steps that are about somebody else.                                     *)

LEMMA Bystander ==
    ASSUME NEW d \in Clients, Good(d),
           client'[d] = client[d], given'[d] = given[d], session'[d] = session[d],
           link'[d] = link[d], met[d] \subseteq met'[d],
           Queued(d)' # {} => Queued(d) # {}, \A i, j \in Queued(d)' : i = j,
           Busy(d)' <=> Busy(d), Busy(d) => gateway' = gateway,
           Cardinality(Waiting(d)') = Cardinality(Waiting(d)),
           Live(d)' # {} => Live(d) # {}, \A i \in Live(d)' : \A j \in Waiting(d)' : j <= i,
           Alone(d) => Cardinality(Claims(Address[d])') = Cardinality(Claims(Address[d])),
           Alone(d) => \A key \in Nat : Latest(d, key) => Latest(d, key)',
           NoneReset(d) => NoneReset(d)',
           given[d] \in Nat, Busy(d) => gateway.key \in Nat
    PROVE  Good(d)'
<1>1. InPlace(d)'
  BY DEF Good, InPlace, Message
<1>2. InPhase(d)'
  BY DEF Good, InPhase, After
<1>3. ASSUME Clean(d)' PROVE Matched(d)'
  <2>1. Clean(d) /\ Alone(d)
    BY <1>3 DEF Clean, Alone
  <2>2. Matched(d)
    BY <2>1 DEF Good
  <2>3. Answering(d)' <=> Answering(d)
    BY DEF Answering
  <2>4. Cardinality(Claims(Address[d])') = Cardinality(Claims(Address[d])')
    OBVIOUS
  <2>5. Answering(d) => gateway'.key = gateway.key /\ gateway.key \in Nat
    BY DEF Answering
  <2> QED
    BY <2>1, <2>2, <2>3, <2>5 DEF Matched
<1> QED
  BY <1>1, <1>2, <1>3 DEF Good

\* What a step leaves alone of d's places in the three queues.
LEMMA SameQueues ==
    ASSUME NEW d \in Clients, Good(d)
    PROVE  /\ asking' = asking => Queued(d)' = Queued(d)
           /\ backlog' = backlog =>
                /\ Waiting(d)' = Waiting(d) /\ Live(d)' = Live(d)
                /\ NoneReset(d) => NoneReset(d)'
           /\ tickets' = tickets =>
                /\ Claims(Address[d])' = Claims(Address[d])
                /\ \A key \in Nat : Latest(d, key) => Latest(d, key)'
           /\ \A i, j \in Queued(d) : i = j
           /\ \A i \in Live(d) : \A j \in Waiting(d) : j <= i
  BY DEF Good, InPlace, Queued, Waiting, Live, NoneReset, Claims, Latest

-----------------------------------------------------------------------------
(* Types.                                                                  *)

LEMMA MeetType ==
    ASSUME StateOK, NEW c, NEW f \in AllFaults, Meet(c, f)
    PROVE  /\ met' \in [Clients -> SUBSET AllFaults]
           /\ \A d \in Clients : met[d] \subseteq met'[d]
<1>1. met' = [met EXCEPT ![c] = IF Alone(c) THEN @ \cup {f} ELSE @]
  BY DEF Meet
<1>2. met \in [Clients -> SUBSET AllFaults]
  BY DEF StateOK
<1> QED
  BY <1>1, <1>2

LEMMA CloseType ==
    ASSUME StateOK, NEW c \in Clients, NEW end \in {"closed", "reset"}, Close(c, end)
    PROVE  /\ client' \in [Clients -> Places]
           /\ backlog' \in Seq(Entries) /\ Len(backlog') = Len(backlog)
           /\ session' \in [Clients -> Sessions(next_session_key) \cup {None}]
           /\ link' \in [Clients -> Links(next_session_key) \cup {None}]
<1>1. backlog \in Seq(Entries) /\ Len(backlog) \in Nat /\ DOMAIN backlog = 1 .. Len(backlog)
  BY DEF StateOK
<1>2. \A i \in 1 .. Len(backlog) : backlog[i] \in Entries
  BY <1>1
<1>3. backlog' = [i \in 1 .. Len(backlog) |->
            IF backlog[i].client = c /\ backlog[i].end = "open"
            THEN [backlog[i] EXCEPT !.end = end] ELSE backlog[i]]
  BY <1>1 DEF Close
<1>4. \A i \in 1 .. Len(backlog) : backlog'[i] \in Entries
  BY <1>2, <1>3 DEF Entries
<1>5. backlog' \in Seq(Entries) /\ Len(backlog') = Len(backlog)
  BY <1>1, <1>3, <1>4
<1> QED
  BY <1>5 DEF Close, StateOK, Place, Places

\* The state with one more key given out.
LEMMA MoreKeys ==
    ASSUME StateOK, next_session_key' = next_session_key + 1
    PROVE  /\ given \in [Clients -> 0 .. next_session_key' - 1]
           /\ tickets \in Seq(Tickets(next_session_key'))
           /\ session \in [Clients -> Sessions(next_session_key') \cup {None}]
           /\ link \in [Clients -> Links(next_session_key') \cup {None}]
<1>1. next_session_key \in Nat
  BY DEF StateOK
<1>2. /\ Tickets(next_session_key) \subseteq Tickets(next_session_key')
      /\ Sessions(next_session_key) \subseteq Sessions(next_session_key')
      /\ Links(next_session_key) \subseteq Links(next_session_key')
  BY <1>1 DEF Tickets, Sessions, Links
<1>3. given \in [Clients -> 0 .. next_session_key' - 1]
  BY <1>1 DEF StateOK
<1>4. tickets \in Seq(Tickets(next_session_key'))
  BY <1>2 DEF StateOK
<1> QED
  BY <1>2, <1>3, <1>4 DEF StateOK

LEMMA TypeStep ==
    ASSUME StateOK, [Next]_vars
    PROVE  StateOK'
<1> USE DEF Place, Places
<1>0. faults' = faults
  BY DEF Next, vars
<1>1. ASSUME NEW c \in Clients, Ask(c), UNCHANGED met PROVE StateOK'
  BY <1>0, <1>1 DEF StateOK, Ask
<1>2. CASE Accept /\ UNCHANGED met
  <2>1. Head(asking) \in Clients /\ Tail(asking) \in Seq(Clients)
    BY <1>2 DEF StateOK, Accept
  <2>2. [client |-> Head(asking), key |-> 0, line |-> "open"] \in Served(next_session_key)
    BY <2>1 DEF Served, StateOK, Lines
  <2> QED
    BY <1>0, <1>2, <2>1, <2>2 DEF StateOK, Accept
<1>3. CASE Reject
  <2>1. met' \in [Clients -> SUBSET AllFaults]
    BY <1>3, MeetType DEF Reject, AllFaults
  <2> QED
    BY <1>0, <1>3, <2>1 DEF StateOK, Reject
<1>4. CASE FallSilent \/ Cut
  <2>1. met' \in [Clients -> SUBSET AllFaults]
    BY <1>4, MeetType DEF FallSilent, Cut, AllFaults
  <2>2. gateway' \in Served(next_session_key)
    BY <1>4 DEF StateOK, FallSilent, Cut, Served, Lines
  <2> QED
    BY <1>0, <1>4, <2>1, <2>2 DEF StateOK, FallSilent, Cut
<1>5. CASE SilenceEnds
  BY <1>0, <1>5 DEF StateOK, SilenceEnds
<1>6. CASE IssueTicket /\ UNCHANGED met
  <2>1. next_session_key' \in Nat \ {0} /\ next_session_key' = next_session_key + 1
    BY <1>6 DEF IssueTicket, StateOK
  <2>2. gateway \in Served(next_session_key)
    BY <1>6 DEF IssueTicket, StateOK
  <2>3. gateway' \in Served(next_session_key')
    <3>1. next_session_key \in 0 .. next_session_key' - 1
      BY <2>1 DEF StateOK
    <3>2. gateway' = [gateway EXCEPT !.key = next_session_key]
      BY <1>6 DEF IssueTicket
    <3> QED
      BY <2>2, <3>1, <3>2 DEF Served
  <2>4. [peer_ip |-> Peer(gateway.client, gateway.line = "cut"), session_key |-> next_session_key]
            \in Tickets(next_session_key')
    BY <2>1, <2>2 DEF Served, Tickets, StateOK, Peer
  <2>5. tickets' \in Seq(Tickets(next_session_key'))
    BY <1>6, <2>1, <2>4, MoreKeys DEF IssueTicket
  <2> QED
    BY <1>0, <1>6, <2>1, <2>3, <2>5, MoreKeys DEF IssueTicket, StateOK
<1>7. CASE Answer /\ UNCHANGED met
  <2>1. gateway.key \in 0 .. next_session_key - 1
    BY <1>7 DEF Answer, StateOK, Served
  <2> QED
    BY <1>0, <1>7, <2>1 DEF StateOK, Answer
<1>f. CASE FailAnswer /\ UNCHANGED met
  BY <1>0, <1>f DEF StateOK, FailAnswer
<1>8. CASE LoseAnswer
  <2>1. met' \in [Clients -> SUBSET AllFaults]
    BY <1>8, MeetType DEF LoseAnswer, AllFaults
  <2> QED
    BY <1>0, <1>8, <2>1 DEF StateOK, LoseAnswer
<1>9. ASSUME NEW c \in Clients, Connect(c), UNCHANGED met PROVE StateOK'
  <2>1. /\ [client |-> c, end |-> "open"] \in Entries
        /\ Message("client", "await_secure_box_registration", 0, 0) \in Links(next_session_key)
    BY DEF Entries, Message, Links, Phases, StateOK
  <2> QED
    BY <1>0, <1>9, <2>1 DEF StateOK, Connect
<1>10. CASE AcceptSession /\ UNCHANGED met
  <2> DEFINE c == Head(backlog).client
  <2>1. Head(backlog) \in Entries /\ Tail(backlog) \in Seq(Entries)
    BY <1>10 DEF AcceptSession, StateOK
  <2>2. c \in Clients
    BY <2>1 DEF Entries
  <2>3. CASE ClaimTicket(HeadPeer)
    <3>1. PICK i \in Claims(HeadPeer) :
            /\ Open(tickets[i]) /\ tickets' = RemoveAt(tickets, i) /\ UNCHANGED <<client, link>>
      BY <2>3 DEF ClaimTicket
    <3>2. i \in 1 .. Len(tickets) /\ tickets \in Seq(Tickets(next_session_key))
      BY DEF StateOK, Claims
    <3>3. tickets[i] \in Tickets(next_session_key)
      BY <3>2
    <3>4. Opened(tickets[i]) \in Sessions(next_session_key)
      BY <3>3 DEF Opened, Sessions, Tickets, Phases
    <3>5. session' \in [Clients -> Sessions(next_session_key) \cup {None}]
      BY <3>1, <3>4 DEF Open, StateOK
    <3>6. tickets' \in Seq(Tickets(next_session_key))
      BY <3>1, <3>2, RemoveIndex
    <3> QED
      BY <1>0, <1>10, <2>1, <3>1, <3>5, <3>6 DEF StateOK, AcceptSession
  <2>4. CASE TurnAway(HeadPeer)
    BY <1>0, <1>10, <2>1, <2>4 DEF StateOK, AcceptSession, TurnAway
  <2> QED
    BY <1>10, <2>3, <2>4 DEF AcceptSession
<1>11. ASSUME NEW c \in Clients, Session(c), UNCHANGED met PROVE StateOK'
  <2>1. CASE Refuse(c)
    BY <1>0, <1>11, <2>1, CloseType DEF StateOK, Refuse, Close
  <2>2. ASSUME NEW phase \in Phases, session[c] # None, NEW r \in {0, ServerCipher(c)},
               session[c].phase # "ready", Reply(c, r), Others,
               session' = [session EXCEPT ![c].phase = phase]
                 \/ session' = [session EXCEPT ![c].encryption_enabled = TRUE, ![c].phase = phase]
        PROVE  StateOK'
    <3>1. session[c] \in Sessions(next_session_key)
      BY <2>2 DEF StateOK
    <3>2. [session[c] EXCEPT !.phase = phase] \in Sessions(next_session_key)
          /\ [session[c] EXCEPT !.encryption_enabled = TRUE, !.phase = phase]
                \in Sessions(next_session_key)
      BY <3>1, <2>2 DEF Sessions
    <3>3. session' = [session EXCEPT ![c] = [session[c] EXCEPT !.phase = phase]]
            \/ session' = [session EXCEPT ![c] =
                    [session[c] EXCEPT !.encryption_enabled = TRUE, !.phase = phase]]
      BY <2>2 DEF StateOK
    <3>4. session' \in [Clients -> Sessions(next_session_key) \cup {None}]
      BY <3>2, <3>3 DEF StateOK
    <3>5. r \in 0 .. next_session_key - 1
      BY <3>1, <2>2 DEF Sessions, ServerCipher, StateOK
    <3>6. Message("server", session[c].phase, r, 0) \in Links(next_session_key)
      BY <3>1, <3>5, <2>2 DEF Message, Links, Sessions, StateOK
    <3>7. link' \in [Clients -> Links(next_session_key) \cup {None}]
      BY <2>2, <3>6 DEF Reply, StateOK
    <3> QED
      BY <1>0, <1>11, <2>2, <3>4, <3>7 DEF StateOK, Others
  <2>3. CASE HandleSecureBoxRegistration(c)
    BY <2>2, <2>3 DEF HandleSecureBoxRegistration, Heard, Phases
  <2>4. CASE HandleBoxSignOn(c)
    BY <2>2, <2>4 DEF HandleBoxSignOn, Heard, Phases
  <2>5. CASE HandleLogin(c)
    BY <2>2, <2>5 DEF HandleLogin, Heard, Phases
  <2> QED
    BY <1>11, <2>1, <2>3, <2>4, <2>5 DEF Session
<1>12. ASSUME NEW c \in Clients, Proceed(c), UNCHANGED met PROVE StateOK'
  <2> DEFINE next == After(link[c].phase)
  <2>1. link[c] \in Links(next_session_key) /\ given[c] \in 0 .. next_session_key - 1
    BY <1>12 DEF StateOK, Proceed
  <2>2. next \in Phases
    BY <2>1 DEF Links, Phases, After
  <2>3. CASE next = "ready"
    BY <1>0, <1>12, <2>3 DEF StateOK, Proceed
  <2>4. CASE next # "ready"
    <3>1. Message("client", next, given[c], given[c]) \in Links(next_session_key)
      BY <2>1, <2>2, <2>4 DEF Message, Links
    <3> QED
      BY <1>0, <1>12, <2>4, <3>1 DEF StateOK, Proceed
  <2> QED
    BY <2>3, <2>4
<1>13. ASSUME NEW c \in Clients, HangUp(c), UNCHANGED met PROVE StateOK'
  BY <1>0, <1>13, CloseType DEF StateOK, HangUp, Close
<1>14. ASSUME NEW c \in Clients, Abandon(c) PROVE StateOK'
  <2>1. met' \in [Clients -> SUBSET AllFaults]
    BY <1>14, MeetType DEF Abandon, AllFaults
  <2> QED
    BY <1>0, <1>14, <2>1 DEF StateOK, Abandon
<1>15. ASSUME NEW c \in Clients, LeaveSession(c) \/ Reset(c) PROVE StateOK'
  <2>1. met' \in [Clients -> SUBSET AllFaults]
    BY <1>15, MeetType DEF LeaveSession, Reset, AllFaults
  <2> QED
    BY <1>0, <1>15, <2>1, CloseType DEF StateOK, LeaveSession, Reset, Close
<1>16. CASE UNCHANGED vars
  BY <1>16 DEF vars, state, StateOK
<1> QED
  BY <1>1, <1>2, <1>3, <1>4, <1>5, <1>6, <1>7, <1>8, <1>9, <1>10, <1>11, <1>12, <1>13, <1>14,
     <1>15, <1>16, <1>f DEF Next, Fault, Work, GatewayLoop, Client

-----------------------------------------------------------------------------
(* Keys.                                                                   *)

LEMMA SameKeys ==
    ASSUME KeyUsedOnce, tickets' = tickets,
           \A c \in Clients : session'[c] # None =>
                session[c] # None /\ session'[c].session_key = session[c].session_key
    PROVE  KeyUsedOnce'
  BY DEF KeyUsedOnce

\* A step of c's thread leaves the key of its session alone.
LEMMA SessionKeysStay ==
    ASSUME StateOK, NEW c \in Clients, NEW end,
           \/ Close(c, end) \/ HandleSecureBoxRegistration(c) \/ HandleBoxSignOn(c) \/ HandleLogin(c)
    PROVE  /\ tickets' = tickets
           /\ \A d \in Clients : session'[d] # None =>
                session[d] # None /\ session'[d].session_key = session[d].session_key
<1>1. CASE Close(c, end)
  BY <1>1 DEF Close, StateOK
<1>2. ASSUME session[c] # None, tickets' = tickets, NEW phase,
             session' = [session EXCEPT ![c].phase = phase]
               \/ session' = [session EXCEPT ![c].encryption_enabled = TRUE, ![c].phase = phase]
      PROVE  \A d \in Clients : session'[d] # None =>
                session[d] # None /\ session'[d].session_key = session[d].session_key
  <2>1. session[c] \in Sessions(next_session_key)
    BY <1>2 DEF StateOK
  <2>2. PICK s : session' = [session EXCEPT ![c] = s] /\ s.session_key = session[c].session_key
    <3>1. [session[c] EXCEPT !.phase = phase].session_key = session[c].session_key
      BY <2>1 DEF Sessions
    <3>2. [session[c] EXCEPT !.encryption_enabled = TRUE, !.phase = phase].session_key
            = session[c].session_key
      BY <2>1 DEF Sessions
    <3>3. \/ session' = [session EXCEPT ![c] = [session[c] EXCEPT !.phase = phase]]
          \/ session' = [session EXCEPT ![c] =
                [session[c] EXCEPT !.encryption_enabled = TRUE, !.phase = phase]]
      BY <1>2 DEF StateOK
    <3> QED
      BY <3>1, <3>2, <3>3
  <2> QED
    BY <1>2, <2>2 DEF StateOK
<1>3. CASE HandleSecureBoxRegistration(c)
  BY <1>2, <1>3 DEF HandleSecureBoxRegistration, Heard, Others
<1>4. CASE HandleBoxSignOn(c)
  BY <1>2, <1>4 DEF HandleBoxSignOn, Heard, Others
<1>5. CASE HandleLogin(c)
  BY <1>2, <1>5 DEF HandleLogin, Heard, Others
<1> QED
  BY <1>1, <1>3, <1>4, <1>5

LEMMA KeysStep ==
    ASSUME StateOK, KeyUsedOnce, [Next]_vars
    PROVE  KeyUsedOnce'
<1>1. ASSUME UNCHANGED <<tickets, session>> PROVE KeyUsedOnce'
  BY <1>1, SameKeys
<1>2. CASE IssueTicket
  <2> DEFINE ticket == [peer_ip |-> Peer(gateway.client, gateway.line = "cut"),
                        session_key |-> next_session_key]
  <2>1. /\ tickets \in Seq(Tickets(next_session_key)) /\ Len(tickets) \in Nat
        /\ tickets' = Append(tickets, ticket) /\ session' = session
    BY <1>2 DEF IssueTicket, StateOK
  <2>2. \A i \in 1 .. Len(tickets) : tickets[i].session_key < next_session_key
    <3>1. \A i \in 1 .. Len(tickets) : tickets[i] \in Tickets(next_session_key)
      BY <2>1
    <3> QED
      BY <3>1 DEF Tickets, StateOK
  <2>3. \A c \in Clients : session[c] # None => session[c].session_key < next_session_key
    BY DEF StateOK, Sessions
  <2>4. /\ DOMAIN tickets' = 1 .. Len(tickets) + 1 /\ DOMAIN tickets = 1 .. Len(tickets)
        /\ \A i \in 1 .. Len(tickets) : tickets'[i] = tickets[i]
        /\ tickets'[Len(tickets) + 1].session_key = next_session_key
    BY <2>1
  <2>5. next_session_key \in Nat
    BY DEF StateOK
  <2>6. \A i \in DOMAIN tickets' : \/ i \in DOMAIN tickets /\ tickets'[i] = tickets[i]
                                 \/ i = Len(tickets) + 1
    BY <2>1, <2>4
  <2> QED
    BY <2>1, <2>2, <2>3, <2>4, <2>5, <2>6 DEF KeyUsedOnce
<1>3. CASE AcceptSession
  <2> DEFINE c == Head(backlog).client
  <2>1. CASE TurnAway(HeadPeer)
    BY <1>1, <2>1 DEF TurnAway
  <2>2. CASE ClaimTicket(HeadPeer)
    <3>1. PICK i \in Claims(HeadPeer) : Open(tickets[i]) /\ tickets' = RemoveAt(tickets, i)
      BY <2>2 DEF ClaimTicket
    <3>2. i \in 1 .. Len(tickets) /\ tickets \in Seq(Tickets(next_session_key))
      BY DEF StateOK, Claims
    <3>3. /\ DOMAIN tickets = 1 .. Len(tickets) /\ DOMAIN tickets' = 1 .. Len(tickets) - 1
          /\ \A j \in 1 .. Len(tickets) - 1 :
                tickets'[j] = IF j < i THEN tickets[j] ELSE tickets[j + 1]
          /\ Len(tickets) \in Nat
      <4> DEFINE rest == RemoveAt(tickets, i)
      <4>1. /\ rest \in Seq(Tickets(next_session_key)) /\ Len(rest) = Len(tickets) - 1
            /\ \A j \in 1 .. Len(tickets) - 1 :
                    rest[j] = IF j < i THEN tickets[j] ELSE tickets[j + 1]
        BY <3>2, RemoveIndex
      <4> HIDE DEF rest
      <4>2. DOMAIN rest = 1 .. Len(tickets) - 1
        BY <4>1
      <4>3. tickets' = rest
        BY <3>1 DEF rest
      <4> QED
        BY <3>2, <4>1, <4>2, <4>3
    <3>4. \A j \in DOMAIN tickets' : \E k \in DOMAIN tickets :
            k # i /\ tickets'[j] = tickets[k] /\ k = IF j < i THEN j ELSE j + 1
      BY <3>2, <3>3
    <3>5. \A j, k \in DOMAIN tickets' : tickets'[j].session_key = tickets'[k].session_key => j = k
      BY <3>2, <3>3, <3>4 DEF KeyUsedOnce
    <3>6. \A d \in Clients : session'[d] # None =>
            \/ d = c /\ session'[d].session_key = tickets[i].session_key
            \/ session[d] # None /\ session'[d] = session[d]
      BY <3>1 DEF Open, Opened, StateOK
    <3> HIDE DEF c
    <3>7. ASSUME NEW d \in Clients, session'[d] # None
          PROVE  /\ \A j \in DOMAIN tickets' : tickets'[j].session_key # session'[d].session_key
                 /\ \A e \in Clients \ {d} : session'[e] # None =>
                        session'[e].session_key # session'[d].session_key
      BY <3>2, <3>3, <3>4, <3>6, <3>7 DEF KeyUsedOnce
    <3> QED
      BY <3>5, <3>7 DEF KeyUsedOnce
  <2> QED
    BY <1>3, <2>1, <2>2 DEF AcceptSession
<1>4. ASSUME NEW c \in Clients, Session(c) \/ HangUp(c) \/ LeaveSession(c) \/ Reset(c)
      PROVE  KeyUsedOnce'
  BY <1>4, SessionKeysStay, SameKeys DEF Session, HangUp, LeaveSession, Reset, Refuse
<1> QED
  BY <1>1, <1>2, <1>3, <1>4 DEF Next, Fault, Work, GatewayLoop, Client, vars, state, Ask, Accept,
     Reject, FallSilent, SilenceEnds, Cut, Answer, FailAnswer, LoseAnswer, Connect, Proceed, Abandon

\* Who is silent in the gateway has no ticket.
LEMMA SilentStep ==
    ASSUME gateway # None /\ gateway.line = "silent" => gateway.key = 0, StateOK, [Next]_vars
    PROVE  (gateway # None /\ gateway.line = "silent" => gateway.key = 0)'
<1>1. CASE FallSilent \/ Cut
  BY <1>1 DEF FallSilent, Cut, StateOK, Served
<1>2. CASE IssueTicket
  <2>1. gateway' = [gateway EXCEPT !.key = next_session_key] /\ gateway.line # "silent"
    BY <1>2 DEF IssueTicket
  <2>2. gateway \in Served(next_session_key)
    BY <1>2 DEF IssueTicket, StateOK
  <2> QED
    BY <2>1, <2>2 DEF Served
<1>3. CASE gateway' = gateway
  BY <1>3
<1>4. CASE Accept
  BY <1>4 DEF Accept
<1>5. CASE gateway' = None
  BY <1>5
<1>6. ASSUME NEW c \in Clients, Session(c) PROVE gateway' = gateway
  BY <1>6 DEF Session, HandleSecureBoxRegistration, HandleBoxSignOn, HandleLogin, Refuse, Others,
     Close
<1> QED
  BY <1>1, <1>2, <1>3, <1>4, <1>5, <1>6 DEF Next, Fault, Work, GatewayLoop, Client, vars, state,
     Ask, Reject, SilenceEnds, Answer, FailAnswer, LoseAnswer, AcceptSession, Connect, Proceed,
     HangUp, Abandon, LeaveSession, Reset, Close

-----------------------------------------------------------------------------
(* The clients, one action at a time.                                      *)

\* Nothing moves in any queue, and d is not the one the step is about.
LEMMA Untouched ==
    ASSUME StateOK, NEW d \in Clients, Good(d), UNCHANGED <<asking, backlog, tickets>>,
           client'[d] = client[d], given'[d] = given[d], session'[d] = session[d],
           link'[d] = link[d], met[d] \subseteq met'[d],
           Busy(d)' <=> Busy(d), Busy(d) => gateway' = gateway
    PROVE  Good(d)'
<1>1. given[d] \in Nat /\ (Busy(d) => gateway.key \in Nat)
  BY DEF StateOK, Busy, Served
<1> QED
  BY <1>1, SameQueues, Bystander

LEMMA AskKeeps ==
    ASSUME StateOK, NEW c \in Clients, NEW d \in Clients, Good(c), Good(d), Ask(c), UNCHANGED met
    PROVE  Good(d)'
<1>1. /\ DOMAIN asking = 1 .. Len(asking) /\ DOMAIN asking' = 1 .. Len(asking) + 1
      /\ \A i \in 1 .. Len(asking) : asking'[i] = asking[i]
      /\ asking'[Len(asking) + 1] = c /\ Len(asking) \in Nat
  BY DEF Ask, StateOK
<1>2. /\ client[c] = "new" /\ client' = [client EXCEPT ![c] = "asking"]
      /\ UNCHANGED <<given, gateway, tickets, backlog, session, link, met>>
  BY DEF Ask, Place
<1>3. given[d] \in Nat /\ (Busy(d) => gateway.key \in Nat)
  BY DEF StateOK, Busy, Served
<1>4. CASE d # c
  <2>1. Queued(d)' = Queued(d)
    BY <1>1, <1>4 DEF Queued
  <2>2. client'[d] = client[d]
    BY <1>2, <1>4 DEF StateOK
  <2> QED
    BY <1>2, <1>3, <2>1, <2>2, SameQueues, Bystander DEF Busy
<1>5. CASE d = c
  <2>1. client'[c] = "asking" /\ client[c] = "new"
    BY <1>2 DEF StateOK
  <2>2. Queued(c) = {} /\ ~Busy(c) /\ ~Busy(c)' /\ session[c] = None /\ Live(c) = {} /\ link[c] = None
    BY <1>2, <2>1 DEF Good, InPlace, Busy
  <2>3. Queued(c)' = {Len(asking) + 1}
    BY <1>1, <2>2 DEF Queued
  <2>4. /\ Live(c)' = {} /\ Waiting(c)' = Waiting(c) /\ Claims(Address[c])' = Claims(Address[c])
        /\ NoneReset(c) => NoneReset(c)'
    BY <1>2, <2>2 DEF Live, Waiting, NoneReset, Claims
  <2>5. InPlace(c)' /\ InPhase(c)'
    BY <1>2, <2>1, <2>2, <2>3, <2>4 DEF InPlace, InPhase
  <2>6. Clean(c)' => Matched(c)'
    BY <1>2, <2>1, <2>2, <2>4 DEF Good, Clean, Alone, Matched, Answering
  <2> QED
    BY <1>5, <2>5, <2>6 DEF Good
<1> QED
  BY <1>4, <1>5

LEMMA AcceptKeeps ==
    ASSUME StateOK, NEW d \in Clients, Good(d), Accept, UNCHANGED met
    PROVE  Good(d)'
<1> DEFINE c == Head(asking)
<1>1. /\ DOMAIN asking = 1 .. Len(asking) /\ DOMAIN asking' = 1 .. Len(asking) - 1
      /\ \A i \in 1 .. Len(asking) - 1 : asking'[i] = asking[i + 1]
      /\ asking[1] = c /\ Len(asking) \in Nat \ {0}
  BY DEF Accept, StateOK
<1>2. /\ gateway = None /\ gateway' = [client |-> c, key |-> 0, line |-> "open"]
      /\ UNCHANGED <<client, given, tickets, backlog, session, link, met>>
  BY DEF Accept
<1>3. given[d] \in Nat /\ ~Busy(d)
  BY <1>2 DEF StateOK, Busy
<1>4. 1 \in Queued(c)
  BY <1>1 DEF Queued
<1>5. \A i \in Queued(d)' : i + 1 \in Queued(d) /\ i \in Nat \ {0}
  BY <1>1 DEF Queued
<1> HIDE DEF c
<1>6. CASE d # c
  <2>1. ~Busy(d)'
    BY <1>2, <1>6 DEF Busy
  <2>2. (Queued(d)' # {} => Queued(d) # {}) /\ \A i, j \in Queued(d)' : i = j
    BY <1>5, SameQueues
  <2> QED
    BY <1>2, <1>3, <2>1, <2>2, SameQueues, Bystander
<1>7. CASE d = c
  <2>1. Queued(d)' = {}
    BY <1>4, <1>5, <1>7, SameQueues
  <2>2. client[d] = "asking"
    BY <1>4, <1>7 DEF Good, InPlace
  <2>3. /\ Live(d)' = Live(d) /\ Waiting(d)' = Waiting(d)
        /\ Claims(Address[d])' = Claims(Address[d])
        /\ NoneReset(d) => NoneReset(d)'
    BY <1>2 DEF Live, Waiting, NoneReset, Claims
  <2>4. InPlace(d)' /\ InPhase(d)'
    BY <1>2, <2>1, <2>2, <2>3 DEF Good, InPlace, InPhase, After, Message
  <2>5. ~Answering(d) /\ ~Answering(d)'
    BY <1>2, <1>3 DEF Answering
  <2>6. Clean(d)' => Matched(d)'
    BY <1>2, <2>2, <2>3, <2>5 DEF Good, Clean, Alone, Matched, Latest
  <2> QED
    BY <2>4, <2>6 DEF Good
<1> QED
  BY <1>6, <1>7

\* The gateway is rid of a client that has no ticket, or none at its address, or loses
\* it with its answer.
LEMMA DismissKeeps ==
    ASSUME StateOK, gateway # None, NEW d \in Clients, Good(d),
           gateway' = None, client' = [client EXCEPT ![gateway.client] = "new"],
           UNCHANGED <<given, asking, tickets, backlog, session, link>>,
           met[d] \subseteq met'[d],
           d = gateway.client /\ Alone(d) /\ gateway.key # 0 /\ gateway.line = "open"
                => "lost" \in met'[d]
    PROVE  Good(d)'
<1>1. CASE d # gateway.client
  <2>1. client'[d] = client[d] /\ ~Busy(d) /\ ~Busy(d)'
    BY <1>1 DEF StateOK, Busy
  <2> QED
    BY <2>1, Untouched
<1>2. CASE d = gateway.client
  <2>1. client'[d] = "new" /\ Busy(d) /\ ~Busy(d)' /\ client[d] = "asking"
    BY <1>2 DEF StateOK, Busy, Good, InPlace
  <2>2. /\ Queued(d) = {} /\ session[d] = None /\ Live(d) = {} /\ link[d] = None
    BY <2>1 DEF Good, InPlace
  <2>3. /\ Queued(d)' = {} /\ session'[d] = None /\ Live(d)' = {} /\ link'[d] = None
        /\ Waiting(d)' = Waiting(d) /\ Claims(Address[d])' = Claims(Address[d])
        /\ NoneReset(d) => NoneReset(d)'
    BY <2>2, SameQueues
  <2>4. InPlace(d)' /\ InPhase(d)'
    BY <2>1, <2>3 DEF InPlace, InPhase
  <2>5. ASSUME Clean(d)' PROVE Matched(d)'
    <3>1. Clean(d) /\ (gateway.key = 0 \/ gateway.line # "open")
      BY <1>2, <2>5 DEF Clean, Alone, Stranding
    <3>2. ~Answering(d) /\ ~Answering(d)'
      BY <2>1, <3>1 DEF Answering
    <3> QED
      BY <2>1, <2>3, <3>1, <3>2 DEF Good, Matched
  <2> QED
    BY <2>4, <2>5 DEF Good
<1> QED
  BY <1>1, <1>2

\* The client the gateway waits for falls silent or is cut off.
LEMMA LineKeeps ==
    ASSUME StateOK, NEW d \in Clients, Good(d), FallSilent \/ Cut
    PROVE  Good(d)'
<1>1. PICK line \in Lines :
        /\ gateway # None /\ gateway.key = 0 /\ gateway' = [gateway EXCEPT !.line = line]
        /\ UNCHANGED <<client, given, asking, tickets, backlog, session, link>>
  BY DEF FallSilent, Cut, Lines
<1>2. met[d] \subseteq met'[d]
  BY MeetType DEF FallSilent, Cut, AllFaults
<1>3. /\ gateway \in Served(next_session_key)
      /\ gateway' = [client |-> gateway.client, key |-> 0, line |-> line]
  BY <1>1 DEF StateOK, Served
<1>4. gateway' # None
  <2>1. gateway' \in [client : Clients, key : Nat, line : Lines]
    BY <1>1, <1>3 DEF Served
  <2> QED
    BY <2>1, NoneAssumption
<1>5. (Busy(d)' <=> Busy(d)) /\ ~Answering(d) /\ ~Answering(d)'
  BY <1>1, <1>3, <1>4 DEF Busy, Answering
<1>6. /\ Queued(d)' = Queued(d) /\ Live(d)' = Live(d) /\ Waiting(d)' = Waiting(d)
      /\ Claims(Address[d])' = Claims(Address[d])
      /\ \A key \in Nat : Latest(d, key) => Latest(d, key)'
      /\ NoneReset(d) => NoneReset(d)'
  BY <1>1, SameQueues
<1>7. InPlace(d)' /\ InPhase(d)'
  BY <1>1, <1>5, <1>6 DEF Good, InPlace, InPhase, After, Message
<1>8. given[d] \in Nat
  BY DEF StateOK
<1>9. Clean(d)' => Matched(d)'
  BY <1>1, <1>2, <1>5, <1>6, <1>8 DEF Good, Clean, Alone, Matched
<1> QED
  BY <1>7, <1>9 DEF Good

\* A ticket is added behind all others.
LEMMA TicketAdded ==
    ASSUME StateOK, NEW a, NEW ticket, tickets' = Append(tickets, ticket)
    PROVE  /\ Claims(a)' = IF ticket.peer_ip = a THEN Claims(a) \cup {Len(tickets) + 1} ELSE Claims(a)
           /\ \A i \in Claims(a) : tickets'[i] = tickets[i] /\ i <= Len(tickets)
           /\ tickets'[Len(tickets) + 1] = ticket
           /\ Claims(a) \subseteq 1 .. Len(tickets) /\ Len(tickets) \in Nat
<1>1. /\ DOMAIN tickets = 1 .. Len(tickets) /\ DOMAIN tickets' = 1 .. Len(tickets) + 1
      /\ \A i \in 1 .. Len(tickets) : tickets'[i] = tickets[i]
      /\ tickets'[Len(tickets) + 1] = ticket /\ Len(tickets) \in Nat
  BY DEF StateOK
<1> QED
  BY <1>1 DEF Claims

LEMMA IssueTicketKeeps ==
    ASSUME StateOK, NEW d \in Clients, Good(d), IssueTicket, UNCHANGED met
    PROVE  Good(d)'
<1> DEFINE c == gateway.client
           ticket == [peer_ip |-> Peer(c, gateway.line = "cut"), session_key |-> next_session_key]
<1>1. /\ gateway # None /\ gateway.key = 0 /\ gateway.line # "silent"
      /\ gateway' = [gateway EXCEPT !.key = next_session_key]
      /\ UNCHANGED <<client, given, asking, backlog, session, link, met>>
      /\ tickets' = Append(tickets, ticket)
  BY DEF IssueTicket
<1>2. /\ gateway \in Served(next_session_key) /\ c \in Clients
      /\ gateway' = [client |-> c, key |-> next_session_key, line |-> gateway.line]
      /\ next_session_key \in Nat \ {0} /\ given[d] \in Nat
  <2>1. gateway \in Served(next_session_key)
    BY <1>1 DEF StateOK
  <2>2. next_session_key \in Nat \ {0} /\ given[d] \in Nat
    BY DEF StateOK
  <2>3. c \in Clients /\ gateway' = [client |-> c, key |-> next_session_key, line |-> gateway.line]
    BY <1>1, <2>1 DEF Served
  <2> QED
    BY <2>1, <2>2, <2>3
<1>3. /\ gateway' # None /\ gateway'.client = c /\ gateway'.key = next_session_key
      /\ gateway'.line = gateway.line /\ gateway.line \in {"open", "cut"}
  <2>1. gateway' \in [client : Clients, key : Nat, line : Lines]
    BY <1>2 DEF Served
  <2> QED
    BY <1>1, <1>2, <2>1, NoneAssumption DEF Served, Lines
<1> HIDE DEF c, ticket
<1>4. /\ ticket.peer_ip = IF gateway.line = "cut" THEN NoAddress ELSE Address[c]
      /\ ticket.session_key = next_session_key
  BY DEF ticket, Peer
<1>5. /\ Queued(d)' = Queued(d) /\ Live(d)' = Live(d) /\ Waiting(d)' = Waiting(d)
      /\ NoneReset(d) => NoneReset(d)'
  BY <1>1, SameQueues
<1>6. InPlace(d)' /\ InPhase(d)'
  <2>1. Busy(d)' <=> Busy(d)
    BY <1>1, <1>3 DEF Busy, c
  <2> QED
    BY <1>1, <1>5, <2>1 DEF Good, InPlace, InPhase, After, Message
<1>7. ASSUME Clean(d)' PROVE Matched(d)'
  <2>0. Clean(d) /\ Alone(d) /\ Matched(d)
    BY <1>1, <1>7 DEF Clean, Alone, Good
  <2>1. CASE d # c \/ gateway.line = "cut"
    <3>1. ticket.peer_ip # Address[d]
      BY <1>2, <1>4, <2>0, <2>1, AddressAssumption DEF Alone
    <3>2. Claims(Address[d])' = Claims(Address[d])
      BY <1>1, <1>4, <3>1, TicketAdded
    <3>3. \A key : Latest(d, key) => Latest(d, key)'
      BY <1>1, <3>2, TicketAdded DEF Latest
    <3>4. ~Answering(d) /\ ~Answering(d)'
      BY <1>3, <2>1 DEF Answering, Busy, c
    <3> QED
      BY <1>1, <1>5, <2>0, <3>2, <3>3, <3>4 DEF Matched
  <2>2. CASE d = c /\ gateway.line = "open"
    <3>1. /\ Busy(d) /\ client[d] = "asking" /\ Live(d) = {} /\ session[d] = None
          /\ ~Answering(d) /\ Answering(d)'
      BY <1>1, <1>2, <1>3, <2>2 DEF Busy, Good, InPlace, Answering, c
    <3>2. /\ Claims(Address[d])' = Claims(Address[d]) \cup {Len(tickets) + 1}
          /\ Claims(Address[d]) \subseteq 1 .. Len(tickets) /\ Len(tickets) \in Nat
          /\ tickets'[Len(tickets) + 1] = ticket
      BY <1>1, <1>4, <2>2, TicketAdded
    <3>3. IsFiniteSet(Claims(Address[d])) /\ Len(tickets) + 1 \notin Claims(Address[d])
      <4>1. IsFiniteSet(1 .. Len(tickets))
        BY <3>2, FS_Interval
      <4> QED
        BY <3>2, <4>1, FS_Subset
    <3>4. Cardinality(Claims(Address[d])') = Cardinality(Claims(Address[d])) + 1
      BY <3>2, <3>3, FS_AddElement
    <3>5. Latest(d, gateway.key)'
      BY <1>3, <1>4, <3>2 DEF Latest
    <3>6. Cardinality(Claims(Address[d])) = Cardinality(Waiting(d))
      BY <2>0, <3>1, FiniteQueues DEF Matched
    <3>7. Cardinality(Waiting(d)) \in Nat
      BY FiniteQueues
    <3>8. NoneReset(d)'
      BY <1>5, <2>0 DEF Matched
    <3> QED
      BY <1>1, <1>5, <3>1, <3>4, <3>5, <3>6, <3>7, <3>8 DEF Matched
  <2> QED
    BY <1>3, <2>1, <2>2
<1> QED
  BY <1>6, <1>7 DEF Good

LEMMA AnswerKeeps ==
    ASSUME StateOK, NEW d \in Clients, Good(d), Answer, UNCHANGED met
    PROVE  Good(d)'
<1>1. /\ gateway # None /\ gateway.key # 0 /\ gateway.line = "open" /\ gateway' = None
      /\ given' = [given EXCEPT ![gateway.client] = gateway.key]
      /\ client' = [client EXCEPT ![gateway.client] = "holding"]
      /\ UNCHANGED <<asking, tickets, backlog, session, link, met>>
  BY DEF Answer, Place
<1>2. CASE d # gateway.client
  <2>1. client'[d] = client[d] /\ given'[d] = given[d] /\ ~Busy(d) /\ ~Busy(d)'
    BY <1>1, <1>2 DEF StateOK, Busy
  <2> QED
    BY <1>1, <2>1, Untouched
<1>3. CASE d = gateway.client
  <2>1. /\ client'[d] = "holding" /\ given'[d] = gateway.key /\ Busy(d) /\ ~Busy(d)'
        /\ client[d] = "asking" /\ Answering(d) /\ ~Answering(d)' /\ gateway.key \in Nat
    BY <1>1, <1>3 DEF StateOK, Busy, Good, InPlace, Answering, Served
  <2>2. Queued(d) = {} /\ session[d] = None /\ Live(d) = {} /\ link[d] = None
    BY <2>1 DEF Good, InPlace
  <2>3. /\ Queued(d)' = {} /\ session'[d] = None /\ Live(d)' = {} /\ link'[d] = None
        /\ Waiting(d)' = Waiting(d) /\ Claims(Address[d])' = Claims(Address[d])
        /\ \A key \in Nat : Latest(d, key) => Latest(d, key)'
        /\ NoneReset(d) => NoneReset(d)'
    BY <1>1, <2>2, SameQueues
  <2>4. InPlace(d)' /\ InPhase(d)'
    BY <2>1, <2>3 DEF InPlace, InPhase
  <2>5. Clean(d)' => Matched(d)'
    <3>1. Latest(d, gateway.key) => Latest(d, given[d])'
      BY <1>1, <2>1, <2>3 DEF Latest
    <3> QED
      BY <1>1, <2>1, <2>3, <3>1 DEF Good, Clean, Alone, Matched
  <2> QED
    BY <2>4, <2>5 DEF Good
<1> QED
  BY <1>2, <1>3

LEMMA AbandonKeeps ==
    ASSUME StateOK, NEW c \in Clients, NEW d \in Clients, Good(d), Abandon(c)
    PROVE  Good(d)'
<1>1. /\ client[c] = "holding" /\ client' = [client EXCEPT ![c] = "new"] /\ Meet(c, "abandon")
      /\ UNCHANGED <<given, asking, gateway, tickets, backlog, session, link>>
  BY DEF Abandon, Place
<1>2. met[d] \subseteq met'[d] /\ met' = [met EXCEPT ![c] = IF Alone(c) THEN @ \cup {"abandon"} ELSE @]
  BY <1>1, MeetType DEF AllFaults, Meet
<1>3. CASE d # c
  BY <1>1, <1>2, <1>3, Untouched DEF StateOK, Busy
<1>4. CASE d = c
  <2>1. client'[d] = "new" /\ client[d] = "holding"
    BY <1>1, <1>4 DEF StateOK
  <2>2. Queued(d) = {} /\ ~Busy(d) /\ session[d] = None /\ Live(d) = {} /\ link[d] = None
    BY <2>1 DEF Good, InPlace
  <2>3. Queued(d)' = {} /\ ~Busy(d)' /\ session'[d] = None /\ Live(d)' = {} /\ link'[d] = None
    BY <1>1, <2>2, SameQueues DEF Busy
  <2>4. InPlace(d)' /\ InPhase(d)'
    BY <2>1, <2>3 DEF InPlace, InPhase
  <2>5. ~Clean(d)'
    BY <1>2, <1>4 DEF StateOK, Clean, Alone, Stranding
  <2> QED
    BY <2>4, <2>5 DEF Good
<1> QED
  BY <1>3, <1>4

LEMMA ConnectKeeps ==
    ASSUME StateOK, NEW c \in Clients, NEW d \in Clients, Good(d), Connect(c), UNCHANGED met
    PROVE  Good(d)'
<1> DEFINE entry == [client |-> c, end |-> "open"]
           first == Message("client", "await_secure_box_registration", 0, 0)
<1>1. /\ client[c] = "holding" /\ client' = [client EXCEPT ![c] = "connected"]
      /\ backlog' = Append(backlog, entry)
      /\ link' = [link EXCEPT ![c] = first]
      /\ UNCHANGED <<given, asking, gateway, tickets, session, met>>
  BY DEF Connect, Place
<1>2. /\ DOMAIN backlog = 1 .. Len(backlog) /\ DOMAIN backlog' = 1 .. Len(backlog) + 1
      /\ \A i \in 1 .. Len(backlog) : backlog'[i] = backlog[i]
      /\ backlog'[Len(backlog) + 1] = entry /\ Len(backlog) \in Nat
  BY <1>1 DEF StateOK
<1>3. given[d] \in Nat /\ (Busy(d) => gateway.key \in Nat)
  BY DEF StateOK, Busy, Served
<1>4. entry.client = c /\ entry.end = "open"
  OBVIOUS
<1> HIDE DEF entry
<1>5. CASE d # c
  <2>1. Waiting(d)' = Waiting(d) /\ Live(d)' = Live(d) /\ (NoneReset(d) => NoneReset(d)')
    BY <1>2, <1>4, <1>5 DEF Waiting, Live, NoneReset
  <2>2. client'[d] = client[d] /\ link'[d] = link[d]
    BY <1>1, <1>5 DEF StateOK
  <2> QED
    BY <1>1, <1>3, <2>1, <2>2, SameQueues, Bystander DEF Busy
<1>6. CASE d = c
  <2>1. client'[d] = "connected" /\ link'[d] = first
    BY <1>1, <1>6 DEF StateOK
  <2>2. Queued(d) = {} /\ ~Busy(d) /\ session[d] = None /\ Live(d) = {} /\ link[d] = None
    BY <1>1, <1>6 DEF Good, InPlace
  <2>3. Queued(d)' = {} /\ ~Busy(d)' /\ session'[d] = None
    BY <1>1, <2>2, SameQueues DEF Busy
  <2>4. Waiting(d)' = Waiting(d) \cup {Len(backlog) + 1} /\ Live(d)' = {Len(backlog) + 1}
    BY <1>2, <1>4, <1>6, <2>2 DEF Waiting, Live
  <2>5. Waiting(d) \subseteq 1 .. Len(backlog) /\ IsFiniteSet(Waiting(d))
    BY FiniteQueues
  <2>6. \A i \in Live(d)' : \A j \in Waiting(d)' : j <= i
    BY <1>2, <2>4, <2>5
  <2>7. InPlace(d)' /\ InPhase(d)'
    BY <2>1, <2>3, <2>6 DEF InPlace, InPhase
  <2>8. ASSUME Clean(d)' PROVE Matched(d)'
    <3>1. Clean(d) /\ Matched(d)
      BY <1>1, <2>8 DEF Clean, Alone, Good
    <3>2. Cardinality(Waiting(d)') = Cardinality(Waiting(d)) + 1
      BY <1>2, <2>4, <2>5, FS_AddElement
    <3>3. /\ Claims(Address[d])' = Claims(Address[d])
          /\ Latest(d, given[d]) => Latest(d, given[d])'
      BY <1>1 DEF Claims, Latest
    <3>4. Cardinality(Claims(Address[d])) = Cardinality(Waiting(d)) + 1 /\ Latest(d, given[d])
      BY <1>1, <1>6, <3>1 DEF Matched
    <3>5. Cardinality(Waiting(d)) \in Nat /\ ~Answering(d)'
      BY <2>3, FiniteQueues DEF Answering
    <3>6. NoneReset(d)'
      BY <1>2, <1>4, <2>4, <2>5, <3>1 DEF Matched, NoneReset
    <3> QED
      BY <2>1, <2>3, <3>2, <3>3, <3>4, <3>5, <3>6 DEF Matched
  <2> QED
    BY <2>7, <2>8 DEF Good
<1> QED
  BY <1>5, <1>6

LEMMA CloseKeeps ==
    ASSUME StateOK, NEW c \in Clients, NEW d \in Clients, Good(c), Good(d),
           NEW end \in {"closed", "reset"}, Close(c, end),
           client[c] \in {"connected", "ready"}, met[d] \subseteq met'[d],
           d = c /\ Alone(d) /\ end = "reset" => "reset" \in met'[d]
    PROVE  Good(d)'
<1>1. /\ session' = [session EXCEPT ![c] = None] /\ link' = [link EXCEPT ![c] = None]
      /\ client' = [client EXCEPT ![c] = "new"]
      /\ UNCHANGED <<given, asking, gateway, tickets>>
  BY DEF Close, Place
<1>2. /\ DOMAIN backlog' = DOMAIN backlog
      /\ \A i \in DOMAIN backlog : /\ backlog[i] \in Entries
                                 /\ backlog'[i] =
                                        IF backlog[i].client = c /\ backlog[i].end = "open"
                                        THEN [backlog[i] EXCEPT !.end = end] ELSE backlog[i]
  BY DEF Close, StateOK
<1>3. \A i \in DOMAIN backlog :
        /\ backlog'[i].client = backlog[i].client
        /\ backlog'[i].end = IF backlog[i].client = c /\ backlog[i].end = "open"
                             THEN end ELSE backlog[i].end
  BY <1>2 DEF Entries
<1>4. Waiting(d)' = Waiting(d)
  BY <1>2, <1>3 DEF Waiting
<1>5. given[d] \in Nat /\ (Busy(d) => gateway.key \in Nat)
  BY DEF StateOK, Busy, Served
<1>6. CASE d # c
  <2>1. Live(d)' = Live(d) /\ (NoneReset(d) => NoneReset(d)')
    BY <1>3, <1>4, <1>6 DEF Waiting, Live, NoneReset
  <2>2. client'[d] = client[d] /\ link'[d] = link[d] /\ session'[d] = session[d]
    BY <1>1, <1>6 DEF StateOK
  <2> QED
    BY <1>1, <1>4, <1>5, <2>1, <2>2, SameQueues, Bystander DEF Busy
<1>7. CASE d = c
  <2>1. client'[d] = "new" /\ link'[d] = None /\ session'[d] = None
    BY <1>1, <1>7 DEF StateOK
  <2>2. Queued(d) = {} /\ ~Busy(d)
    BY <1>7 DEF Good, InPlace
  <2>3. Queued(d)' = {} /\ ~Busy(d)' /\ Claims(Address[d])' = Claims(Address[d])
    BY <1>1, <2>2, SameQueues DEF Busy
  <2>4. Live(d)' = {}
    BY <1>3, <1>4, <1>7 DEF Waiting, Live
  <2>5. InPlace(d)' /\ InPhase(d)'
    BY <2>1, <2>3, <2>4 DEF InPlace, InPhase
  <2>6. ASSUME Clean(d)' PROVE Matched(d)'
    <3>1. end = "closed" /\ Matched(d)
      BY <1>7, <2>6 DEF Good, Clean, Alone, Stranding
    <3>2. NoneReset(d)'
      BY <1>3, <1>4, <3>1 DEF Matched, NoneReset, Waiting
    <3> QED
      BY <1>4, <1>7, <2>1, <2>2, <2>3, <2>4, <3>1, <3>2 DEF Matched, Answering
  <2> QED
    BY <2>5, <2>6 DEF Good
<1> QED
  BY <1>6, <1>7

LEMMA ProceedKeeps ==
    ASSUME StateOK, NEW c \in Clients, NEW d \in Clients, Good(d), Proceed(c), UNCHANGED met
    PROVE  Good(d)'
<1> DEFINE next == After(link[c].phase)
<1>1. /\ link[c] # None /\ link[c].from = "server"
      /\ UNCHANGED <<given, asking, gateway, tickets, backlog, session, met>>
      /\ \/ /\ next = "ready" /\ client' = [client EXCEPT ![c] = "ready"]
            /\ link' = [link EXCEPT ![c] = None]
         \/ /\ next # "ready" /\ client' = client
            /\ link' = [link EXCEPT ![c] = Message("client", next, given[c], given[c])]
  BY DEF Proceed, Place
<1>2. CASE d # c
  <2>1. client'[d] = client[d] /\ link'[d] = link[d] /\ (Busy(d)' <=> Busy(d))
    BY <1>1, <1>2 DEF StateOK, Busy
  <2> QED
    BY <1>1, <2>1, Untouched
<1>3. CASE d = c
  <2>1. link[c] \in Links(next_session_key) /\ link[c].phase \in Phases \ {"ready"}
    BY <1>1 DEF StateOK, Links
  <2>2. next \in {"await_box_sign_on", "await_login", "ready"}
    BY <2>1 DEF Phases, After
  <2>3. client[d] = "connected" /\ Queued(d) = {} /\ ~Busy(d) /\ session[d] # None /\ Live(d) = {}
    BY <1>1, <1>3 DEF Good, InPlace, Message
  <2>4. session[d].phase = next
    BY <1>1, <1>3, <2>3 DEF Good, InPhase
  <2>5. /\ Queued(d)' = {} /\ ~Busy(d)' /\ session'[d] = session[d] /\ session'[d] # None
        /\ Live(d)' = {} /\ Waiting(d)' = Waiting(d) /\ Claims(Address[d])' = Claims(Address[d])
        /\ NoneReset(d) => NoneReset(d)'
    BY <1>1, <2>3, SameQueues DEF Busy
  <2> HIDE DEF next
  <2>6. client'[d] \in {"connected", "ready"} /\ (link'[d] # None => client'[d] = "connected")
    BY <1>1, <1>3, <2>3 DEF StateOK
  <2>7. link'[d] # None => link'[d] = Message("client", next, given[d], given[d])
    BY <1>1, <1>3 DEF StateOK
  <2>8. InPlace(d)'
    BY <2>5, <2>6 DEF InPlace
  <2>9. InPhase(d)'
    BY <1>1, <2>2, <2>3, <2>4, <2>5, <2>7 DEF Good, InPhase, Message
  <2>10. Clean(d)' => Matched(d)'
    BY <1>1, <2>3, <2>5, <2>6 DEF Good, Clean, Alone, Matched, Answering
  <2> QED
    BY <2>8, <2>9, <2>10 DEF Good
<1> QED
  BY <1>2, <1>3

LEMMA HandleKeeps ==
    ASSUME StateOK, NEW c \in Clients, NEW d \in Clients, Good(c), Good(d), UNCHANGED met,
           \/ HandleSecureBoxRegistration(c) \/ HandleBoxSignOn(c) \/ HandleLogin(c)
    PROVE  Good(d)'
<1>1. PICK s, p, r :
        /\ session[c] # None /\ link[c] # None /\ session[c].phase = p /\ p \in Phases \ {"ready"}
        /\ session' = [session EXCEPT ![c] = s]
        /\ s \in Sessions(next_session_key) /\ s.session_key = session[c].session_key
        /\ s.phase = After(p) /\ s.encryption_enabled
        /\ link' = [link EXCEPT ![c] = Message("server", p, r, 0)]
        /\ r = IF p = "await_secure_box_registration" THEN 0 ELSE session[c].session_key
        /\ UNCHANGED <<client, given, asking, gateway, tickets, backlog>>
  <2>0. session[c] # None /\ session[c] \in Sessions(next_session_key)
    BY DEF StateOK, Heard, HandleSecureBoxRegistration, HandleBoxSignOn, HandleLogin
  <2>e. session[c].phase # "await_secure_box_registration" => session[c].encryption_enabled
    BY <2>0 DEF Good, InPhase
  <2>1. CASE HandleSecureBoxRegistration(c)
    <3> DEFINE s == [session[c] EXCEPT !.encryption_enabled = TRUE, !.phase = "await_box_sign_on"]
    <3>1. /\ s \in Sessions(next_session_key) /\ s.session_key = session[c].session_key
          /\ s.phase = "await_box_sign_on" /\ s.encryption_enabled
      BY <2>0 DEF Sessions, Phases
    <3>2. session' = [session EXCEPT ![c] = s]
      BY <2>1 DEF HandleSecureBoxRegistration, StateOK
    <3> HIDE DEF s
    <3> QED
      BY <2>0, <2>1, <3>1, <3>2 DEF HandleSecureBoxRegistration, Heard, Reply, Others, After, Phases
  <2>2. CASE HandleBoxSignOn(c)
    <3> DEFINE s == [session[c] EXCEPT !.phase = "await_login"]
    <3>1. /\ s \in Sessions(next_session_key) /\ s.session_key = session[c].session_key
          /\ s.phase = "await_login" /\ s.encryption_enabled = session[c].encryption_enabled
      BY <2>0 DEF Sessions, Phases
    <3>2. session' = [session EXCEPT ![c] = s] /\ session[c].phase = "await_box_sign_on"
      BY <2>2 DEF HandleBoxSignOn, Heard, StateOK
    <3> HIDE DEF s
    <3> QED
      BY <2>0, <2>e, <2>2, <3>1, <3>2
         DEF HandleBoxSignOn, Heard, Reply, Others, After, Phases, ServerCipher
  <2>3. CASE HandleLogin(c)
    <3> DEFINE s == [session[c] EXCEPT !.phase = "ready"]
    <3>1. /\ s \in Sessions(next_session_key) /\ s.session_key = session[c].session_key
          /\ s.phase = "ready" /\ s.encryption_enabled = session[c].encryption_enabled
      BY <2>0 DEF Sessions, Phases
    <3>2. session' = [session EXCEPT ![c] = s] /\ session[c].phase = "await_login"
      BY <2>3 DEF HandleLogin, Heard, StateOK
    <3> HIDE DEF s
    <3> QED
      BY <2>0, <2>e, <2>3, <3>1, <3>2
         DEF HandleLogin, Heard, Reply, Others, After, Phases, ServerCipher
  <2> QED
    BY <2>1, <2>2, <2>3
<1>2. CASE d # c
  <2>1. session'[d] = session[d] /\ link'[d] = link[d] /\ (Busy(d)' <=> Busy(d))
    BY <1>1, <1>2 DEF StateOK, Busy
  <2> QED
    BY <1>1, <2>1, Untouched
<1>3. CASE d = c
  <2>1. session'[d] = s /\ link'[d] = Message("server", p, r, 0)
    BY <1>1, <1>3 DEF StateOK
  <2>2. s # None
    <3>1. s \in [session_key : Nat, phase : Phases, encryption_enabled : BOOLEAN]
      BY <1>1 DEF Sessions, StateOK
    <3> QED
      BY <3>1, NoneAssumption
  <2>3. client[d] = "connected" /\ Queued(d) = {} /\ ~Busy(d) /\ Live(d) = {}
    BY <1>1, <1>3 DEF Good, InPlace
  <2>4. /\ Queued(d)' = {} /\ ~Busy(d)' /\ Live(d)' = {} /\ Waiting(d)' = Waiting(d)
        /\ Claims(Address[d])' = Claims(Address[d]) /\ (NoneReset(d) => NoneReset(d)')
    BY <1>1, <2>3, SameQueues DEF Busy
  <2>5. InPlace(d)'
    BY <1>1, <2>1, <2>2, <2>3, <2>4 DEF InPlace
  <2>6. InPhase(d)'
    BY <1>1, <2>1 DEF InPhase, Message, After, Phases
  <2>7. Clean(d)' => Matched(d)'
    BY <1>1, <1>3, <2>1, <2>3, <2>4 DEF Good, Clean, Alone, Matched, Answering
  <2> QED
    BY <2>5, <2>6, <2>7 DEF Good
<1> QED
  BY <1>2, <1>3

\* What is left of d's tickets when the one at place i is taken.
LEMMA TicketTaken ==
    ASSUME StateOK, NEW d \in Clients, NEW i \in 1 .. Len(tickets), tickets' = RemoveAt(tickets, i)
    PROVE  /\ Cardinality(Claims(Address[d])) =
                Cardinality(Claims(Address[d])') + (IF i \in Claims(Address[d]) THEN 1 ELSE 0)
           /\ IsFiniteSet(Claims(Address[d])') /\ Cardinality(Claims(Address[d])') \in Nat
           /\ \A m \in Claims(Address[d]) \ {i} : \A key \in Nat :
                (\A j \in Claims(Address[d]) : j <= m) /\ tickets[m].session_key = key
                => Latest(d, key)'
<1> DEFINE n == Len(tickets)
           X == Claims(Address[d])
           Y == {j \in 1 .. n - 1 : IF j < i THEN j \in X ELSE j + 1 \in X}
<1>1. n \in Nat /\ X \in SUBSET (1 .. n)
  BY FiniteQueues
<1>2. /\ tickets \in Seq(Tickets(next_session_key)) /\ tickets' \in Seq(Tickets(next_session_key))
      /\ Len(tickets') = n - 1
      /\ \A j \in 1 .. n - 1 : tickets'[j] = IF j < i THEN tickets[j] ELSE tickets[j + 1]
  BY RemoveIndex DEF StateOK
<1>3. X = {j \in 1 .. n : tickets[j].peer_ip = Address[d]}
  BY <1>2 DEF Claims
<1>4. Claims(Address[d])' = {j \in 1 .. n - 1 : tickets'[j].peer_ip = Address[d]}
  BY <1>2 DEF Claims
<1>5. Claims(Address[d])' = Y
  BY <1>1, <1>2, <1>3, <1>4
<1> HIDE DEF X, Y, n
<1>6. /\ IsFiniteSet(Y) /\ Cardinality(Y) \in Nat
      /\ Cardinality(X) = Cardinality(Y) + (IF i \in X THEN 1 ELSE 0)
  <2>1. /\ Y \in SUBSET (1 .. n - 1) /\ i \in 1 .. n
        /\ \A j \in 1 .. n - 1 : j \in Y <=> IF j < i THEN j \in X ELSE j + 1 \in X
    BY DEF Y, n
  <2> QED
    BY <1>1, <2>1, ShiftOut
<1>7. ASSUME NEW m \in X \ {i}, \A j \in X : j <= m, NEW key \in Nat, tickets[m].session_key = key
      PROVE  Latest(d, key)'
  <2> DEFINE k == IF m < i THEN m ELSE m - 1
  <2>1. k \in Y /\ tickets'[k] = tickets[m]
    BY <1>1, <1>2, <1>7 DEF Y, n
  <2>2. \A j \in Y : j <= k
    BY <1>1, <1>7 DEF Y, n
  <2> HIDE DEF k
  <2> QED
    BY <1>5, <1>7, <2>1, <2>2 DEF Latest
<1> QED
  BY <1>5, <1>6, <1>7 DEF X

\* What is left of d's connections when the listener takes the first one.
LEMMA HeadOut ==
    ASSUME StateOK, NEW d \in Clients, Good(d), backlog # <<>>, backlog' = Tail(backlog)
    PROVE  /\ Cardinality(Waiting(d)) =
                Cardinality(Waiting(d)') + (IF Head(backlog).client = d THEN 1 ELSE 0)
           /\ IsFiniteSet(Waiting(d)') /\ Cardinality(Waiting(d)') \in Nat
           /\ Live(d)' # {} => Live(d) # {} /\ Waiting(d)' # {}
           /\ \A i \in Live(d)' : \A j \in Waiting(d)' : j <= i
           /\ NoneReset(d) => NoneReset(d)'
           /\ Head(backlog).client = d /\ NoneReset(d) => Head(backlog).end # "reset"
           /\ Head(backlog).client = d /\ Head(backlog).end = "open" =>
                1 \in Live(d) /\ Waiting(d)' = {} /\ Live(d)' = {}
<1> DEFINE n == Len(backlog)
           X == Waiting(d)
           Y == {j \in 1 .. n - 1 : IF j < 1 THEN j \in X ELSE j + 1 \in X}
<1>1. n \in Nat /\ X \in SUBSET (1 .. n) /\ 1 \in 1 .. n
  BY FiniteQueues DEF StateOK
<1>2. /\ Len(backlog') = n - 1 /\ DOMAIN backlog' = 1 .. n - 1 /\ DOMAIN backlog = 1 .. n
      /\ \A j \in 1 .. n - 1 : backlog'[j] = backlog[j + 1]
      /\ Head(backlog) = backlog[1]
  BY DEF StateOK
<1>3. X = {j \in 1 .. n : backlog[j].client = d}
  BY <1>2 DEF Waiting
<1>4. Waiting(d)' = Y
  BY <1>1, <1>2, <1>3 DEF Waiting
<1>5. ASSUME NEW j \in Live(d)' PROVE j \in 1 .. n - 1 /\ j + 1 \in Live(d)
  BY <1>1, <1>2 DEF Live, Waiting
<1>6. \A j \in Y : j \in 1 .. n - 1 /\ j + 1 \in X
  BY <1>1
<1>r. (NoneReset(d) => NoneReset(d)') /\ (1 \in X /\ NoneReset(d) => backlog[1].end # "reset")
  BY <1>2, <1>4, <1>6 DEF NoneReset
<1> HIDE DEF X, Y, n
<1>7. /\ IsFiniteSet(Y) /\ Cardinality(Y) \in Nat
      /\ Cardinality(X) = Cardinality(Y) + (IF 1 \in X THEN 1 ELSE 0)
  <2>1. /\ Y \in SUBSET (1 .. n - 1)
        /\ \A j \in 1 .. n - 1 : j \in Y <=> IF j < 1 THEN j \in X ELSE j + 1 \in X
    BY DEF Y
  <2> QED
    BY <1>1, <2>1, ShiftOut
<1>8. 1 \in X <=> Head(backlog).client = d
  BY <1>1, <1>2, <1>3
<1>9. Live(d)' # {} => Live(d) # {} /\ Y # {}
  BY <1>4, <1>5 DEF Live
<1>10. \A i \in Live(d) : \A j \in X : j <= i
  BY SameQueues DEF X
<1>11. \A i \in Live(d)' : \A j \in Y : j <= i
  BY <1>1, <1>5, <1>6, <1>10
<1>12. ASSUME Head(backlog).client = d, Head(backlog).end = "open"
       PROVE  1 \in Live(d) /\ Y = {} /\ Live(d)' = {}
  <2>1. 1 \in Live(d)
    BY <1>2, <1>8, <1>12 DEF Live, X
  <2>2. \A j \in X : j <= 1
    BY <1>10, <2>1
  <2>3. Y = {}
    BY <1>6, <2>2
  <2> QED
    BY <1>9, <2>1, <2>3
<1> QED
  BY <1>2, <1>4, <1>7, <1>8, <1>9, <1>11, <1>12, <1>r DEF X

LEMMA AcceptSessionKeeps ==
    ASSUME StateOK, NEW d \in Clients, Good(d), AcceptSession, UNCHANGED met
    PROVE  Good(d)'
<1> DEFINE c == Head(backlog).client
<1>1. /\ backlog # <<>> /\ backlog' = Tail(backlog)
      /\ ClaimTicket(HeadPeer) \/ TurnAway(HeadPeer)
      /\ UNCHANGED <<given, asking, gateway, next_session_key, met>>
  BY DEF AcceptSession
<1>2. Head(backlog) \in Entries
  BY <1>1 DEF StateOK
<1>3. c \in Clients
  BY <1>2 DEF Entries
<1>4. given[d] \in Nat /\ (Busy(d) => gateway.key \in Nat)
  BY DEF StateOK, Busy, Served
<1>5. /\ Queued(d)' = Queued(d) /\ (Busy(d)' <=> Busy(d)) /\ (Answering(d)' <=> Answering(d))
      /\ \A i, j \in Queued(d) : i = j
  BY <1>1, SameQueues DEF Busy, Answering
<1>p. HeadPeer = IF Head(backlog).end = "reset" THEN NoAddress ELSE Address[c]
  BY DEF HeadPeer, Peer
<1>6. CASE ClaimTicket(HeadPeer)
  <2>1. PICK i \in Claims(HeadPeer) :
            /\ \A j \in Claims(HeadPeer) : i <= j
            /\ session' = IF Head(backlog).end = "open"
                          THEN [session EXCEPT ![c] = Opened(tickets[i])] ELSE session
            /\ tickets' = RemoveAt(tickets, i)
            /\ UNCHANGED <<client, link>>
    BY <1>6 DEF ClaimTicket, Open
  <2>2. i \in 1 .. Len(tickets) /\ tickets[i].peer_ip = HeadPeer
    BY <2>1 DEF StateOK, Claims
  <2>3. tickets[i] \in Tickets(next_session_key)
    BY <2>2 DEF StateOK
  <2>t. /\ Claims(Address[d]) \subseteq 1 .. Len(tickets)
        /\ IsFiniteSet(Claims(Address[d])) /\ Cardinality(Claims(Address[d])) \in Nat
    BY FiniteQueues
  <2> HIDE DEF c
  <2>4. CASE d # c
    <3>1. session'[d] = session[d]
      BY <1>3, <2>1, <2>4 DEF StateOK
    <3>2. Alone(d) => i \notin Claims(Address[d])
      BY <1>3, <1>p, <2>2, <2>4, AddressAssumption DEF Alone, Claims
    <3>3. Alone(d) => Cardinality(Claims(Address[d])') = Cardinality(Claims(Address[d]))
      BY <2>1, <2>2, <3>2, TicketTaken
    <3>4. ASSUME Alone(d), NEW key \in Nat, Latest(d, key) PROVE Latest(d, key)'
      <4>1. PICK m \in Claims(Address[d]) :
                (\A j \in Claims(Address[d]) : j <= m) /\ tickets[m].session_key = key
        BY <3>4 DEF Latest
      <4>2. m # i
        BY <3>2, <3>4
      <4> QED
        BY <2>1, <2>2, <4>1, <4>2, TicketTaken
    <3>5. Cardinality(Waiting(d)') = Cardinality(Waiting(d))
      BY <1>1, <2>4, HeadOut DEF c
    <3> QED
      BY <1>1, <1>4, <1>5, <2>1, <3>1, <3>3, <3>4, <3>5, HeadOut, Bystander DEF Busy
  <2>5. CASE d = c /\ Head(backlog).end # "open"
    <3>1. UNCHANGED <<client, session, link, given, gateway>>
      BY <1>1, <2>1, <2>5
    <3>2. InPlace(d)' /\ InPhase(d)'
      <4>1. InPlace(d) /\ InPhase(d)
        BY DEF Good
      <4>2. /\ Live(d)' # {} => Live(d) # {}
            /\ \A i_1 \in Live(d)' : \A j \in Waiting(d)' : j <= i_1
        BY <1>1, HeadOut
      <4> QED
        BY <1>1, <1>5, <3>1, <4>1, <4>2 DEF InPlace, InPhase
    <3>3. ASSUME Clean(d)' PROVE Matched(d)'
      <4>1. Matched(d) /\ NoneReset(d)
        BY <1>1, <3>3 DEF Good, Clean, Alone, Matched
      <4>p. Claims(HeadPeer) = Claims(Address[d])
        BY <1>1, <1>p, <2>5, <4>1, HeadOut DEF c
      <4>2. /\ Cardinality(Waiting(d)) = Cardinality(Waiting(d)') + 1
            /\ Cardinality(Waiting(d)') \in Nat /\ IsFiniteSet(Waiting(d)')
            /\ Live(d)' # {} => Live(d) # {} /\ Waiting(d)' # {}
            /\ NoneReset(d) => NoneReset(d)'
        BY <1>1, <2>5, HeadOut DEF c
      <4>3. /\ Cardinality(Claims(Address[d])) = Cardinality(Claims(Address[d])') + 1
            /\ Cardinality(Claims(Address[d])') \in Nat
        BY <2>1, <2>2, <4>p, TicketTaken
      <4>4. Cardinality(Claims(Address[d])') = Cardinality(Waiting(d)')
                + (IF client[d] = "holding" \/ Answering(d) THEN 1 ELSE 0)
        BY <4>1, <4>2, <4>3 DEF Matched
      <4>5. Waiting(d)' # {} => Cardinality(Waiting(d)') # 0
        BY <4>2, FS_EmptySet
      <4>6. ASSUME NEW key \in Nat, Latest(d, key),
                   client[d] = "holding" \/ Answering(d) \/ Live(d)' # {}
            PROVE  Latest(d, key)'
        <5>1. PICK m \in Claims(Address[d]) :
                (\A j \in Claims(Address[d]) : j <= m) /\ tickets[m].session_key = key
          BY <4>6 DEF Latest
        <5>2. Cardinality(Claims(Address[d])) # 1
          BY <4>2, <4>3, <4>4, <4>5, <4>6
        <5>3. m # i
          <6>1. SUFFICES ASSUME m = i PROVE FALSE
            OBVIOUS
          <6>2. Claims(Address[d]) = {i}
            BY <2>1, <2>t, <4>p, <5>1, <6>1
          <6> QED
            BY <5>2, <6>2, FS_Singleton
        <5> QED
          BY <2>1, <2>2, <5>1, <5>3, TicketTaken
      <4>7. Answering(d) => gateway.key \in Nat
        BY <1>4 DEF Answering
      <4>8. client[d] = "holding" \/ Live(d)' # {} => Latest(d, given[d])'
        BY <1>4, <3>1, <4>1, <4>2, <4>6 DEF Matched, Latest
      <4>9. Answering(d) => Latest(d, gateway.key)'
        BY <3>1, <4>1, <4>6, <4>7 DEF Matched, Latest
      <4> QED
        BY <1>5, <3>1, <4>1, <4>2, <4>4, <4>8, <4>9 DEF Matched, Latest
    <3> QED
      BY <3>2, <3>3 DEF Good
  <2>6. CASE d = c /\ Head(backlog).end = "open"
    <3>p. Claims(HeadPeer) = Claims(Address[d])
      BY <1>p, <2>6
    <3> DEFINE s == Opened(tickets[i])
    <3>1. session'[d] = s
      BY <1>3, <2>1, <2>6 DEF StateOK
    <3>2. /\ s \in Sessions(next_session_key)
          /\ s.session_key = tickets[i].session_key /\ ~s.encryption_enabled
          /\ s.phase = "await_secure_box_registration"
      BY <2>3 DEF Opened, Sessions, Tickets, Phases
    <3> HIDE DEF s
    <3>3. s # None
      <4>1. s \in [session_key : Nat, phase : Phases, encryption_enabled : BOOLEAN]
        BY <3>2 DEF Sessions, StateOK
      <4> QED
        BY <4>1, NoneAssumption
    <3>4. Live(d) # {} /\ Waiting(d)' = {} /\ Live(d)' = {}
      BY <1>1, <2>6, HeadOut DEF c
    <3>5. client[d] = "connected" /\ session[d] = None /\ Queued(d) = {} /\ ~Busy(d)
      BY <3>4 DEF Good, InPlace
    <3>6. link[d] # None => link[d] = Message("client", "await_secure_box_registration", 0, 0)
      BY <3>5 DEF Good, InPlace
    <3>7. client'[d] = "connected" /\ link'[d] = link[d] /\ given'[d] = given[d]
      BY <1>1, <2>1, <3>5
    <3>8. InPlace(d)'
      BY <1>5, <3>1, <3>3, <3>4, <3>5, <3>7 DEF InPlace
    <3>9. InPhase(d)'
      BY <3>1, <3>2, <3>6, <3>7 DEF InPhase, Message
    <3>10. ASSUME Clean(d)' PROVE Matched(d)'
      <4>1. Matched(d)
        BY <1>1, <3>10 DEF Good, Clean, Alone
      <4>2. Cardinality(Waiting(d)) = 1 /\ Cardinality(Waiting(d)') = 0
        BY <1>1, <2>6, <3>4, HeadOut, FS_EmptySet DEF c
      <4>3. Cardinality(Claims(Address[d])) = 1
        BY <3>5, <4>1, <4>2 DEF Matched, Answering
      <4>4. Cardinality(Claims(Address[d])') = 0
        BY <2>1, <2>2, <3>p, <4>3, TicketTaken
      <4>5. PICK m \in Claims(Address[d]) : tickets[m].session_key = given[d]
        BY <3>4, <4>1 DEF Matched, Latest
      <4>6. m = i
        BY <2>1, <2>t, <3>p, <4>3, FS_Singleton
      <4>7. s.session_key = given[d]
        BY <3>2, <4>5, <4>6
      <4> QED
        BY <1>5, <3>1, <3>4, <3>5, <3>7, <4>2, <4>4, <4>7 DEF Matched, Answering, NoneReset
    <3> QED
      BY <3>8, <3>9, <3>10 DEF Good
  <2> QED
    BY <2>4, <2>5, <2>6
<1>7. CASE TurnAway(HeadPeer)
  <2>1. /\ Claims(HeadPeer) = {} /\ UNCHANGED <<session, tickets>>
        /\ IF Head(backlog).end = "open"
           THEN client' = [client EXCEPT ![c] = "new"] /\ link' = [link EXCEPT ![c] = None]
           ELSE UNCHANGED <<client, link>>
    BY <1>7 DEF TurnAway, Place
  <2> HIDE DEF c
  <2>2. CASE d # c
    <3>1. client'[d] = client[d] /\ link'[d] = link[d]
      BY <1>3, <2>1, <2>2 DEF StateOK
    <3>2. Cardinality(Waiting(d)') = Cardinality(Waiting(d))
      BY <1>1, <2>2, HeadOut DEF c
    <3> QED
      BY <1>1, <1>4, <1>5, <2>1, <3>1, <3>2, HeadOut, SameQueues, Bystander DEF Busy
  <2>3. CASE d = c
    <3>1. ~Clean(d)
      <4>1. SUFFICES ASSUME Matched(d) PROVE FALSE
        BY DEF Good
      <4>p. HeadPeer = Address[d]
        BY <1>1, <1>p, <2>3, <4>1, HeadOut DEF c, Matched
      <4>2. Cardinality(Claims(Address[d])) = 0
        BY <2>1, <4>p, FS_EmptySet
      <4>3. /\ Cardinality(Waiting(d)) = Cardinality(Waiting(d)') + 1
            /\ Cardinality(Waiting(d)') \in Nat
        BY <1>1, <2>3, HeadOut DEF c
      <4> QED
        BY <4>1, <4>2, <4>3 DEF Matched
    <3>2. ~Clean(d)'
      BY <1>1, <3>1 DEF Clean, Alone
    <3>3. InPlace(d)' /\ InPhase(d)'
      <4>1. InPlace(d) /\ InPhase(d)
        BY DEF Good
      <4>2. CASE Head(backlog).end # "open"
        BY <1>1, <1>5, <2>1, <4>1, <4>2, HeadOut DEF InPlace, InPhase
      <4>3. CASE Head(backlog).end = "open"
        <5>1. Live(d) # {} /\ Live(d)' = {}
          BY <1>1, <2>3, <4>3, HeadOut DEF c
        <5>2. session[d] = None /\ Queued(d) = {} /\ ~Busy(d)
          BY <4>1, <5>1 DEF InPlace
        <5>3. client'[d] = "new" /\ link'[d] = None /\ session'[d] = None
          BY <1>3, <2>1, <2>3, <4>3, <5>2 DEF StateOK
        <5> QED
          BY <1>5, <5>1, <5>2, <5>3 DEF InPlace, InPhase
      <4> QED
        BY <4>2, <4>3
    <3> QED
      BY <3>2, <3>3 DEF Good
  <2> QED
    BY <2>2, <2>3
<1> QED
  BY <1>1, <1>6, <1>7

-----------------------------------------------------------------------------
(* The invariant holds.                                                    *)

LEMMA NextIInv == IInv /\ [Next]_vars => IInv'
<1>1. SUFFICES ASSUME IInv, [Next]_vars PROVE IInv'
  OBVIOUS
<1>2. StateOK /\ KeyUsedOnce /\ \A c \in Clients : Good(c)
  BY <1>1 DEF IInv
<1>3. StateOK' /\ KeyUsedOnce' /\ (gateway # None /\ gateway.line = "silent" => gateway.key = 0)'
  <2>1. gateway # None /\ gateway.line = "silent" => gateway.key = 0
    BY <1>1 DEF IInv
  <2> QED
    BY <1>1, <1>2, <2>1, TypeStep, KeysStep, SilentStep
<1>4. ASSUME NEW d \in Clients PROVE Good(d)'
  <2>0. Good(d)
    BY <1>2
  <2>1. CASE UNCHANGED vars
    <3>1. Busy(d)' <=> Busy(d)
      BY <2>1 DEF vars, state, Busy
    <3> QED
      BY <1>2, <2>0, <2>1, <3>1, Untouched DEF vars, state
  <2>2. CASE Fault
    <3>1. CASE Reject
      <4>1. met[d] \subseteq met'[d]
        BY <1>2, <3>1, MeetType DEF Reject, AllFaults
      <4> QED
        BY <1>2, <2>0, <3>1, <4>1, DismissKeeps DEF Reject, Place
    <3>2. CASE FallSilent \/ Cut
      BY <1>2, <2>0, <3>2, LineKeeps
    <3>3. CASE SilenceEnds
      <4>1. gateway.key = 0
        BY <1>1, <3>3 DEF SilenceEnds, IInv
      <4> QED
        BY <1>2, <2>0, <3>3, <4>1, DismissKeeps DEF SilenceEnds, Place
    <3>4. CASE LoseAnswer
      <4>1. met[d] \subseteq met'[d]
        BY <1>2, <3>4, MeetType DEF LoseAnswer, AllFaults
      <4>2. d = gateway.client /\ Alone(d) => "lost" \in met'[d]
        BY <1>2, <3>4 DEF LoseAnswer, Meet, StateOK
      <4> QED
        BY <1>2, <2>0, <3>4, <4>1, <4>2, DismissKeeps DEF LoseAnswer, Place
    <3>5. ASSUME NEW c \in Clients, Abandon(c) PROVE Good(d)'
      BY <1>2, <2>0, <3>5, AbandonKeeps
    <3>6. ASSUME NEW c \in Clients, LeaveSession(c) PROVE Good(d)'
      <4>1. met[d] \subseteq met'[d]
        BY <1>2, <3>6, MeetType DEF LeaveSession, AllFaults
      <4> QED
        BY <1>2, <2>0, <3>6, <4>1, CloseKeeps DEF LeaveSession
    <3>7. ASSUME NEW c \in Clients, Reset(c) PROVE Good(d)'
      <4>1. met[d] \subseteq met'[d]
        BY <1>2, <3>7, MeetType DEF Reset, AllFaults
      <4>2. d = c /\ Alone(d) => "reset" \in met'[d]
        BY <1>2, <3>7 DEF Reset, Meet, StateOK
      <4>3. client[c] = "connected"
        <5>1. Live(c) # {}
          BY <3>7 DEF Reset, Live, Waiting
        <5> QED
          BY <1>2, <5>1 DEF Good, InPlace
      <4> QED
        BY <1>2, <2>0, <3>7, <4>1, <4>2, <4>3, CloseKeeps DEF Reset
    <3> QED
      BY <2>2, <3>1, <3>2, <3>3, <3>4, <3>5, <3>6, <3>7 DEF Fault
  <2>3. CASE Work /\ UNCHANGED met
    <3>1. CASE Accept
      BY <1>2, <2>0, <2>3, <3>1, AcceptKeeps
    <3>2. CASE IssueTicket
      BY <1>2, <2>0, <2>3, <3>2, IssueTicketKeeps
    <3>3. CASE Answer
      BY <1>2, <2>0, <2>3, <3>3, AnswerKeeps
    <3>f. CASE FailAnswer
      BY <1>2, <2>0, <2>3, <3>f, DismissKeeps DEF FailAnswer, Place
    <3>4. CASE AcceptSession
      BY <1>2, <2>0, <2>3, <3>4, AcceptSessionKeeps
    <3>5. ASSUME NEW c \in Clients, Ask(c) PROVE Good(d)'
      BY <1>2, <2>0, <2>3, <3>5, AskKeeps
    <3>6. ASSUME NEW c \in Clients, Connect(c) PROVE Good(d)'
      BY <1>2, <2>0, <2>3, <3>6, ConnectKeeps
    <3>7. ASSUME NEW c \in Clients, Proceed(c) PROVE Good(d)'
      BY <1>2, <2>0, <2>3, <3>7, ProceedKeeps
    <3>8. ASSUME NEW c \in Clients, HangUp(c) PROVE Good(d)'
      <4>1. client[c] = "connected"
        BY <1>2, <3>8 DEF HangUp, Good, InPlace
      <4> QED
        BY <1>2, <2>0, <2>3, <3>8, <4>1, CloseKeeps DEF HangUp
    <3>9. ASSUME NEW c \in Clients, Session(c) PROVE Good(d)'
      <4>1. CASE Refuse(c)
        <5>1. client[c] = "connected"
          BY <1>2, <4>1 DEF Refuse, Good, InPlace
        <5> QED
          BY <1>2, <2>0, <2>3, <4>1, <5>1, CloseKeeps DEF Refuse
      <4>2. CASE HandleSecureBoxRegistration(c) \/ HandleBoxSignOn(c) \/ HandleLogin(c)
        BY <1>2, <2>0, <2>3, <4>2, HandleKeeps
      <4> QED
        BY <3>9, <4>1, <4>2 DEF Session
    <3> QED
      BY <2>3, <3>1, <3>2, <3>3, <3>4, <3>5, <3>6, <3>7, <3>8, <3>9, <3>f
         DEF Work, GatewayLoop, Client
  <2> QED
    BY <1>1, <2>1, <2>2, <2>3 DEF Next
<1> QED
  BY <1>3, <1>4 DEF IInv

-----------------------------------------------------------------------------
(* What follows from it.                                                   *)

\* Every variable keeps its type; no key is given out that was not issued.
THEOREM TypeCorrect == Spec => []TypeOK
<1>1. IInv => TypeOK
  <2>1. SUFFICES ASSUME IInv PROVE TypeOK
    OBVIOUS
  <2>2. StateOK
    BY <2>1 DEF IInv
  <2>3. ASSUME NEW i \in DOMAIN tickets
        PROVE  tickets[i].session_key \in 1 .. next_session_key - 1
    <3>1. tickets[i] \in Tickets(next_session_key)
      BY <2>2 DEF StateOK
    <3> QED
      BY <3>1 DEF Tickets
  <2>4. ASSUME NEW c \in Clients, session[c] # None
        PROVE  session[c].phase \in Phases /\ session[c].session_key \in 1 .. next_session_key - 1
    BY <2>2, <2>4 DEF StateOK, Sessions
  <2> QED
    BY <2>2, <2>3, <2>4 DEF TypeOK, StateOK
<1> QED
  BY <1>1, InitIInv, NextIInv, PTL DEF Spec

\* claimForPeer takes the ticket out as it hands it over (336-344): no two
\* sessions, and no session and no ticket, ever have the same key.
THEOREM EveryKeyOnce == Spec => []KeyUsedOnce
<1>1. IInv => KeyUsedOnce
  BY DEF IInv
<1> QED
  BY <1>1, InitIInv, NextIInv, PTL DEF Spec

\* The session listener hands tickets out by address, in the order the gateway
\* issued them (333-343).  To a client that shares its address with nobody this is
\* always the one it means, unless an earlier one of its has been stranded: by a lost
\* response, by a client that did not come, or by a connection reset before it was
\* accepted (187-188, 1722-1726).
THEOREM BothEndsRead == Spec => []Readable
<1>1. IInv => Readable
  <2>1. SUFFICES ASSUME IInv, NEW c \in Clients, Clean(c), link[c] # None, session[c] # None
                 PROVE  link[c].under = IF link[c].from = "client"
                                        THEN ServerCipher(c) ELSE ClientCipher(c)
    BY DEF Readable, Legible, Clean
  <2>2. InPhase(c) /\ session[c].session_key = given[c]
    BY <2>1 DEF IInv, Good, Matched
  <2>3. link[c].from \in {"client", "server"}
    BY <2>1 DEF IInv, StateOK, Links
  <2> QED
    BY <2>1, <2>2, <2>3 DEF InPhase, ServerCipher, ClientCipher
<1> QED
  BY <1>1, InitIInv, NextIInv, PTL DEF Spec

\* Nothing removes a ticket but the connection it was meant for (326-348): save for
\* the three ways it is stranded, one is in the store only while its client or one of
\* its connections is on the way.
THEOREM NoTicketBehind == Spec => []NoneLeftBehind
<1>1. IInv => NoneLeftBehind
  <2>1. SUFFICES ASSUME IInv, NEW c \in Clients, Clean(c), Claims(Address[c]) # {},
                        client[c] # "holding", ~Answering(c)
                 PROVE  Waiting(c) # {}
    BY DEF NoneLeftBehind, Clean, Answering, Busy, Waiting
  <2>2. StateOK /\ Matched(c)
    BY <2>1 DEF IInv, Good
  <2>3. Cardinality(Claims(Address[c])) # 0
    BY <2>1, <2>2, FiniteQueues, FS_EmptySet
  <2>4. Cardinality(Waiting(c)) # 0
    BY <2>1, <2>2, <2>3, FiniteQueues DEF Matched
  <2> QED
    BY <2>4, FS_EmptySet
<1> QED
  BY <1>1, InitIInv, NextIInv, PTL DEF Spec

=============================================================================
