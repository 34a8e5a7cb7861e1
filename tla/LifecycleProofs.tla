--------------------------- MODULE LifecycleProofs ---------------------------
(***************************************************************************)
(* stop() leaves nothing of the app behind and frees the TLS context only  *)
(* when nobody uses it, for any number of clients, streams and restarts.   *)
(***************************************************************************)
EXTENDS Lifecycle, SequenceTheorems, TLAPS

-----------------------------------------------------------------------------
(* The statements of stop().                                               *)

LEMMA StoppingOrder ==
    /\ After("shut_gateway") = "shut_sessions"
    /\ After("shut_sessions") = "close_feeds"
    /\ After("close_feeds") = "join_gateway"
    /\ After("join_gateway") = "join_acceptor"
    /\ After("join_acceptor") = "join_feeds"
    /\ After("join_feeds") = "swap_workers"
    /\ After("swap_workers") = "join_workers"
    /\ After("join_workers") = "cleanup"
    /\ After("cleanup") = "down"
    /\ Head(Stopping) = "shut_gateway"
<1>1. /\ Stopping[1] = "shut_gateway" /\ Stopping[2] = "shut_sessions" /\ Stopping[3] = "close_feeds"
      /\ Stopping[4] = "join_gateway" /\ Stopping[5] = "join_acceptor" /\ Stopping[6] = "join_feeds"
      /\ Stopping[7] = "swap_workers" /\ Stopping[8] = "join_workers" /\ Stopping[9] = "cleanup"
      /\ DOMAIN Stopping = 1 .. 9 /\ Len(Stopping) = 9
  BY DEF Stopping
<1>2. Last(Stopping) = "cleanup" /\ Head(Stopping) = "shut_gateway"
  BY <1>1 DEF Last, Stopping
<1>3. ASSUME NEW k \in 1 .. 8 PROVE After(Stopping[k]) = Stopping[k + 1]
  <2> DEFINE i == CHOOSE i \in DOMAIN Stopping : Stopping[i] = Stopping[k]
  <2>1. i \in 1 .. 9 /\ Stopping[i] = Stopping[k]
    BY <1>1
  <2>2. i = k
    BY <1>1, <2>1
  <2>3. Stopping[k] # Last(Stopping)
    BY <1>1, <1>2
  <2>4. After(Stopping[k]) = Stopping[1 + i]
    BY <2>3 DEF After
  <2> HIDE DEF i
  <2> QED
    BY <2>2, <2>4
<1> QED
  BY <1>1, <1>2, <1>3 DEF After

LEMMA StageNames ==
    Stages = {"down", "up", "shut_gateway", "shut_sessions", "close_feeds", "join_gateway",
              "join_acceptor", "join_feeds", "swap_workers", "join_workers", "cleanup"}
<1>1. /\ Stopping[1] = "shut_gateway" /\ Stopping[2] = "shut_sessions" /\ Stopping[3] = "close_feeds"
      /\ Stopping[4] = "join_gateway" /\ Stopping[5] = "join_acceptor" /\ Stopping[6] = "join_feeds"
      /\ Stopping[7] = "swap_workers" /\ Stopping[8] = "join_workers" /\ Stopping[9] = "cleanup"
      /\ DOMAIN Stopping = 1 .. 9
  BY DEF Stopping
<1>2. \A s : s \in Range(Stopping) <=> \E i \in 1 .. 9 : s = Stopping[i]
  BY <1>1 DEF Range
<1>3. \A i : i \in 1 .. 9 <=> i \in {1, 2, 3, 4, 5, 6, 7, 8, 9}
  OBVIOUS
<1> HIDE DEF Stopping
<1> QED
  BY <1>1, <1>2, <1>3 DEF Stages

-----------------------------------------------------------------------------
(* The invariant: what each statement of stop() has brought to its end.    *)

\* Where stop() may be while the gateway, the listener or a stream's thread still
\* runs, and while session_workers_ holds the workers.
GatewayRuns == {"up", "shut_gateway", "shut_sessions", "close_feeds", "join_gateway"}
AcceptorRuns == GatewayRuns \cup {"join_acceptor"}
FeedsRun == AcceptorRuns \cup {"join_feeds"}
WorkersHeld == FeedsRun \cup {"swap_workers"}

Threads == [state : States, client : Clients \cup {None}]

StateOK ==
    /\ stage \in Stages /\ running \in BOOLEAN /\ ctx \in BOOLEAN
    /\ listening \subseteq {"gateway", "session"}
    /\ market_data_fds \in Seq({"open", "closed"}) /\ Len(market_data_fds) <= Streams * starts
    /\ gateway \in Threads /\ acceptor \in Threads
    /\ feeds \in Seq(Threads) /\ Len(feeds) <= Streams * starts
    /\ alive \subseteq Clients /\ session_workers \subseteq Clients
    /\ joining \subseteq Clients /\ tickets \subseteq Clients
    /\ at \in [Clients -> Places]
    /\ starts \in 0 .. MaxStarts

Owned ==
    /\ running <=> stage = "up"
    /\ stage # "down" => ctx
    /\ gateway # Ended => stage \in GatewayRuns
    /\ acceptor # Ended => stage \in AcceptorRuns
    /\ stage \notin FeedsRun => \A i \in DOMAIN feeds : feeds[i] = Ended

Joined ==
    /\ stage \in WorkersHeld => alive \subseteq session_workers
    /\ stage = "join_workers" => alive \subseteq joining
    /\ stage \in {"cleanup", "down"} => alive = {}

Closed ==
    /\ "gateway" \in listening => stage \in {"up", "shut_gateway"}
    /\ "session" \in listening => stage \in {"up", "shut_gateway", "shut_sessions"}
    /\ stage \notin {"up", "shut_gateway", "shut_sessions", "close_feeds"} =>
        \A i \in DOMAIN market_data_fds : market_data_fds[i] = "closed"

IInv == StateOK /\ Owned /\ Joined /\ Closed

\* Who still has the socket of a session: its own thread or a stream's.
SocketsHeld ==
    \A c \in Clients :
        /\ at[c] = "in_session" => c \in alive
        /\ at[c] = "dropped" => \E i \in DOMAIN feeds : feeds[i] = Busy(c)

LEMMA InitIInv == Init => IInv /\ SocketsHeld
<1>1. SUFFICES ASSUME Init PROVE IInv /\ SocketsHeld
  OBVIOUS
<1>2. StateOK
  <2>1. <<>> \in Seq(Threads) /\ <<>> \in Seq({"open", "closed"}) /\ Len(<<>>) = 0
    OBVIOUS
  <2>2. Streams * 0 = 0
    BY LifecycleAssumption
  <2>3. Ended \in Threads
    BY DEF Ended, States, Threads
  <2>4. Len(feeds) <= Streams * starts /\ Len(market_data_fds) <= Streams * starts
    BY <1>1, <2>1, <2>2 DEF Init
  <2>5. running \in BOOLEAN /\ ctx \in BOOLEAN
    BY <1>1, Zenon DEF Init
  <2>6. starts \in 0 .. MaxStarts /\ stage \in Stages /\ at \in [Clients -> Places]
    BY <1>1, StageNames, LifecycleAssumption DEF Init, Places
  <2> QED
    BY <1>1, <2>1, <2>3, <2>4, <2>5, <2>6, Zenon DEF Init, StateOK
<1>3. Owned /\ Joined /\ Closed
  BY <1>1 DEF Init, Owned, Joined, Closed, FeedsRun, AcceptorRuns, GatewayRuns, WorkersHeld
<1>4. SocketsHeld
  BY <1>1 DEF Init, SocketsHeld
<1> QED
  BY <1>2, <1>3, <1>4 DEF IInv

-----------------------------------------------------------------------------
(* The thread that owns the app.                                           *)

LEMMA StartKeeps == IInv /\ Start => IInv'
<1>1. SUFFICES ASSUME IInv, Start PROVE IInv'
  OBVIOUS
<1> DEFINE new == [i \in 1 .. Streams |-> "open"]
<1>2. new \in Seq({"open", "closed"}) /\ Len(new) = Streams
  BY LifecycleAssumption
<1>3. market_data_fds' = market_data_fds \o new
  BY <1>1 DEF Start
<1> HIDE DEF new
<1>4. market_data_fds' \in Seq({"open", "closed"})
  BY <1>1, <1>2, <1>3 DEF IInv, StateOK
<1>5. Len(market_data_fds') = Len(market_data_fds) + Streams
  BY <1>1, <1>2, <1>3, ConcatProperties DEF IInv, StateOK
<1>6. Streams * (starts + 1) = Streams * starts + Streams
  BY <1>1, LifecycleAssumption DEF IInv, StateOK
<1>7. Len(market_data_fds') <= Streams * starts' /\ Len(market_data_fds') \in Nat
  BY <1>1, <1>4, <1>5, <1>6, LifecycleAssumption DEF IInv, StateOK, Start
<1>8. feeds' = [i \in 1 .. Len(market_data_fds') |-> Thread("top")]
  <2>1. feeds' = [i \in DOMAIN market_data_fds' |-> Thread("top")]
    BY <1>1 DEF Start
  <2>2. DOMAIN market_data_fds' = 1 .. Len(market_data_fds')
    BY <1>4
  <2> QED
    BY <2>1, <2>2
<1>9. feeds' \in Seq(Threads) /\ Len(feeds') = Len(market_data_fds')
  <2>1. Thread("top") \in Threads
    BY DEF Thread, Threads, States
  <2> QED
    BY <1>7, <1>8, <2>1
<1>10. StateOK'
  BY <1>1, <1>4, <1>7, <1>9, StageNames, LifecycleAssumption
     DEF IInv, StateOK, Start, Thread, States, Threads
<1>11. Owned' /\ Joined' /\ Closed'
  BY <1>1 DEF IInv, Start, Owned, Joined, Closed, FeedsRun, AcceptorRuns, GatewayRuns, WorkersHeld
<1> QED
  BY <1>10, <1>11 DEF IInv

\* start() and stop() called, and a start() that throws.
LEMMA OwnerKeeps == IInv /\ Owner => IInv'
<1>1. SUFFICES ASSUME IInv, Owner PROVE IInv'
  OBVIOUS
<1>2. CASE FailToStart
  <2>1. StateOK'
    <3>1. Streams * starts <= Streams * MaxStarts
      BY <1>1, LifecycleAssumption DEF IInv, StateOK
    <3>2. Len(feeds) <= Streams * MaxStarts /\ Len(market_data_fds) <= Streams * MaxStarts
      <4>1. Streams * starts \in Nat /\ Streams * MaxStarts \in Nat
        BY <1>1, LifecycleAssumption DEF IInv, StateOK
      <4> QED
        BY <1>1, <3>1, <4>1 DEF IInv, StateOK
    <3>3. starts' = MaxStarts /\ starts' \in 0 .. MaxStarts
      BY <1>2, LifecycleAssumption DEF FailToStart
    <3>4. ctx' \in BOOLEAN
      BY <1>2, Zenon DEF FailToStart
    <3> QED
      BY <1>1, <1>2, <3>2, <3>3, <3>4 DEF IInv, StateOK, FailToStart, threads
  <2> QED
    BY <1>1, <1>2, <2>1 DEF IInv, FailToStart, threads, Owned, Joined, Closed
<1>3. CASE Stop
  <2>1. stage' = "shut_gateway"
    BY <1>3, StoppingOrder DEF Stop
  <2>2. StateOK'
    BY <1>1, <1>3, <2>1, StageNames DEF IInv, StateOK, Stop, resources, threads
  <2> QED
    BY <1>1, <1>3, <2>1, <2>2
       DEF IInv, Stop, resources, threads, Owned, Joined, Closed,
           FeedsRun, AcceptorRuns, GatewayRuns, WorkersHeld
<1> QED
  BY <1>1, <1>2, <1>3, StartKeeps DEF Owner

LEMMA StopStepsKeep == IInv /\ StopSteps => IInv'
<1>1. SUFFICES ASSUME IInv, StopSteps PROVE IInv'
  OBVIOUS
<1> USE DEF FeedsRun, AcceptorRuns, GatewayRuns, WorkersHeld
<1>2. CASE ShutGateway
  <2>1. stage = "shut_gateway" /\ stage' = "shut_sessions"
    BY <1>2, StoppingOrder DEF ShutGateway, Shut
  <2>2. at' \in [Clients -> Places]
    BY <1>1, <1>2 DEF ShutGateway, Shut, IInv, StateOK, Places
  <2> QED
    BY <1>1, <1>2, <2>1, <2>2, StageNames
       DEF ShutGateway, Shut, IInv, StateOK, threads, Owned, Joined, Closed
<1>3. CASE ShutSessions
  <2>1. stage = "shut_sessions" /\ stage' = "close_feeds"
    BY <1>3, StoppingOrder DEF ShutSessions, Shut
  <2>2. at' \in [Clients -> Places]
    BY <1>1, <1>3 DEF ShutSessions, Shut, IInv, StateOK, Places
  <2> QED
    BY <1>1, <1>3, <2>1, <2>2, StageNames
       DEF ShutSessions, Shut, IInv, StateOK, threads, Owned, Joined, Closed
<1>4. CASE CloseFeeds
  <2>1. stage = "close_feeds" /\ stage' = "join_gateway"
    BY <1>4, StoppingOrder DEF CloseFeeds
  <2>2. market_data_fds' = [i \in 1 .. Len(market_data_fds) |-> "closed"]
    BY <1>1, <1>4 DEF CloseFeeds, IInv, StateOK
  <2>3. /\ market_data_fds' \in Seq({"open", "closed"})
        /\ Len(market_data_fds') = Len(market_data_fds)
        /\ \A i \in DOMAIN market_data_fds' : market_data_fds'[i] = "closed"
    BY <1>1, <2>2 DEF IInv, StateOK
  <2> QED
    BY <1>1, <1>4, <2>1, <2>3, StageNames
       DEF CloseFeeds, IInv, StateOK, threads, Owned, Joined, Closed
<1>5. CASE Join
  <2>1. /\ UNCHANGED <<running, resources, threads, session_workers, joining, at, tickets, starts>>
        /\ \/ stage = "join_gateway" /\ stage' = "join_acceptor" /\ gateway = Ended
           \/ stage = "join_acceptor" /\ stage' = "join_feeds" /\ acceptor = Ended
           \/ /\ stage = "join_feeds" /\ stage' = "swap_workers"
              /\ \A i \in DOMAIN feeds : feeds[i] = Ended
           \/ stage = "join_workers" /\ stage' = "cleanup" /\ joining \cap alive = {}
    BY <1>5, StoppingOrder DEF Join
  <2>2. StateOK'
    BY <1>1, <2>1, StageNames DEF IInv, StateOK, resources, threads
  <2>3. Owned' /\ Closed'
    BY <1>1, <2>1 DEF IInv, resources, threads, Owned, Closed
  <2>4. Joined'
    BY <1>1, <2>1 DEF IInv, threads, Joined
  <2> QED
    BY <2>2, <2>3, <2>4 DEF IInv
<1>6. CASE SwapWorkers
  <2>1. stage = "swap_workers" /\ stage' = "join_workers"
    BY <1>6, StoppingOrder DEF SwapWorkers
  <2> QED
    BY <1>1, <1>6, <2>1, StageNames
       DEF SwapWorkers, IInv, StateOK, resources, threads, Owned, Joined, Closed
<1>7. CASE Cleanup
  <2>1. stage = "cleanup" /\ stage' = "down"
    BY <1>7, StoppingOrder DEF Cleanup
  <2> QED
    BY <1>1, <1>7, <2>1, StageNames
       DEF Cleanup, IInv, StateOK, threads, Owned, Joined, Closed
<1> QED
  BY <1>1, <1>2, <1>3, <1>4, <1>5, <1>6, <1>7 DEF StopSteps

-----------------------------------------------------------------------------
(* The threads of the app and its clients.                                 *)

LEMMA ThreadTypes ==
    /\ \A s \in States : Thread(s) \in Threads
    /\ \A c \in Clients : Busy(c) \in Threads
    /\ \A s : \A c \in Clients : Thread(s) # Busy(c)
    /\ Thread("ended") = Ended
    /\ \A c : Busy(c) # Ended
    /\ Turn \in States /\ AfterError \in States
<1>1. \A s : \A c \in Clients : Thread(s) # Busy(c)
  <2>1. SUFFICES ASSUME NEW s, NEW c \in Clients PROVE Thread(s).client # Busy(c).client
    OBVIOUS
  <2> QED
    BY LifecycleAssumption DEF Thread, Busy
<1> QED
  BY <1>1 DEF Thread, Busy, Ended, States, Turn, AfterError, Threads

LEMMA GatewayKeeps == IInv /\ GatewayThread => IInv'
<1>1. SUFFICES ASSUME IInv, GatewayThread PROVE IInv'
  OBVIOUS
<1> DEFINE Moved ==
        /\ gateway.state \in {"top", "blocked"}
        /\ gateway' \in Threads
        /\ at' \in [Clients -> Places]
        /\ UNCHANGED <<stage, running, resources, acceptor, feeds, alive, session_workers, joining,
                       tickets, starts>>
<1>2. Moved
  <2>1. CASE GatewayTop
    BY <1>1, <2>1, ThreadTypes DEF GatewayTop, IInv, StateOK
  <2>2. CASE GatewayWoken
    BY <1>1, <2>2, ThreadTypes DEF GatewayWoken, IInv, StateOK
  <2>3. ASSUME NEW c \in Clients, GatewayAccept(c)
        PROVE  Moved
    BY <1>1, <2>3, ThreadTypes DEF GatewayAccept, IInv, StateOK, Places
  <2> QED
    BY <1>1, <2>1, <2>2, <2>3 DEF GatewayThread
<1>3. stage \in GatewayRuns
  BY <1>1, <1>2 DEF IInv, Owned, Ended
<1> QED
  BY <1>1, <1>2, <1>3 DEF IInv, StateOK, Owned, Joined, Closed, resources

LEMMA AcceptorKeeps == IInv /\ AcceptorThread => IInv'
<1>1. SUFFICES ASSUME IInv, AcceptorThread PROVE IInv'
  OBVIOUS
<1> DEFINE Moved ==
        /\ acceptor.state # "ended"
        /\ acceptor' \in Threads
        /\ at' \in [Clients -> Places]
        /\ tickets' \subseteq tickets
        /\ \/ UNCHANGED <<alive, session_workers>>
           \/ \E c \in Clients : /\ alive' = alive \cup {c}
                                 /\ session_workers' = session_workers \cup {c}
        /\ UNCHANGED <<stage, running, resources, gateway, feeds, joining, starts>>
<1>2. Moved
  <2>1. CASE AcceptorTop
    BY <1>1, <2>1, ThreadTypes DEF AcceptorTop, IInv, StateOK
  <2>2. CASE AcceptorWoken
    BY <1>1, <2>2, ThreadTypes DEF AcceptorWoken, IInv, StateOK
  <2>3. ASSUME NEW c \in Clients, AcceptorAccept(c)
        PROVE  Moved
    BY <1>1, <2>3, ThreadTypes DEF AcceptorAccept, IInv, StateOK, Places
  <2>4. ASSUME NEW c \in Clients, TurnAway(c)
        PROVE  Moved
    BY <1>1, <2>4, ThreadTypes DEF TurnAway, IInv, StateOK, Places, Busy, States
  <2>5. ASSUME NEW c \in Clients, Spawn(c)
        PROVE  Moved
    BY <1>1, <2>5, ThreadTypes DEF Spawn, IInv, StateOK, Places, Busy, States
  <2> QED
    BY <1>1, <2>1, <2>2, <2>3, <2>4, <2>5 DEF AcceptorThread
<1>3. stage \in AcceptorRuns
  BY <1>1, <1>2 DEF IInv, Owned, Ended
<1>4. StateOK'
  BY <1>1, <1>2 DEF IInv, StateOK, resources
<1>5. Owned' /\ Closed'
  BY <1>1, <1>2, <1>3 DEF IInv, Owned, Closed, resources
<1>6. Joined'
  BY <1>1, <1>2, <1>3 DEF IInv, Joined, WorkersHeld, FeedsRun, AcceptorRuns, GatewayRuns
<1> QED
  BY <1>4, <1>5, <1>6 DEF IInv

LEMMA FeedKeeps ==
    ASSUME IInv, NEW i \in DOMAIN feeds, FeedThread(i) \/ Datagram(i)
    PROVE  IInv'
<1>1. PICK to \in Threads :
        /\ feeds[i] # Ended
        /\ feeds' = [feeds EXCEPT ![i] = to]
        /\ UNCHANGED <<stage, running, resources, gateway, acceptor, alive, session_workers,
                       joining, at, tickets, starts>>
  <2>1. \A s \in {"top", "blocked", "busy"} : Thread(s) # Ended /\ Thread(s) \in Threads
    BY ThreadTypes DEF Thread, Ended, States
  <2>2. ASSUME NEW c \in Clients, Send(i, c)
        PROVE  /\ feeds[i] # Ended
               /\ feeds' = [feeds EXCEPT ![i] = Busy(c)]
               /\ UNCHANGED <<stage, running, resources, gateway, acceptor, alive,
                              session_workers, joining, at, tickets, starts>>
    BY <2>1, <2>2 DEF Send, Feed
  <2> QED
    BY <2>1, <2>2, ThreadTypes DEF FeedThread, FeedTop, TimeOut, Dispatch, Datagram, Feed
<1>2. stage \in FeedsRun
  BY <1>1 DEF IInv, Owned
<1>3. feeds \in Seq(Threads) /\ i \in 1 .. Len(feeds)
  BY DEF IInv, StateOK
<1>4. feeds' \in Seq(Threads) /\ Len(feeds') = Len(feeds)
  BY <1>1, <1>3
<1> QED
  BY <1>1, <1>2, <1>4 DEF IInv, StateOK, Owned, Joined, Closed, resources

LEMMA ClientKeeps ==
    ASSUME IInv, NEW c \in Clients, Client(c)
    PROVE  IInv'
<1>1. CASE Ask(c) \/ Connect(c)
  <2>1. at' \in [Clients -> Places]
    BY <1>1 DEF Ask, Connect, IInv, StateOK, Places
  <2>2. UNCHANGED <<stage, running, resources, threads, session_workers, joining, tickets, starts>>
    BY <1>1 DEF Ask, Connect
  <2>3. StateOK'
    BY <2>1, <2>2 DEF IInv, StateOK, resources, threads
  <2> QED
    BY <2>2, <2>3 DEF IInv, Owned, Joined, Closed, resources, threads
<1>2. CASE HangUp(c) \/ Issue(c)
  <2>1. /\ gateway = Busy(c) /\ gateway' = Thread("top") /\ tickets' \subseteq tickets \cup {c}
        /\ at' = [at EXCEPT ![c] = "away"]
        /\ UNCHANGED <<stage, running, resources, acceptor, feeds, alive, session_workers,
                       joining, starts>>
    BY <1>2 DEF HangUp, Issue
  <2>2. stage \in GatewayRuns
    BY <2>1, ThreadTypes DEF IInv, Owned
  <2>3. gateway' \in Threads
    BY <2>1, ThreadTypes DEF States
  <2>4. at' \in [Clients -> Places] /\ tickets' \subseteq Clients
    BY <2>1 DEF IInv, StateOK, Places
  <2> QED
    BY <2>1, <2>2, <2>3, <2>4 DEF IInv, StateOK, Owned, Joined, Closed, resources
<1>3. CASE Leave(c)
  <2>1. /\ alive' \subseteq alive
        /\ acceptor' = IF acceptor = Busy(c) THEN Thread("top") ELSE acceptor
        /\ feeds' = [i \in DOMAIN feeds |->
                        IF feeds[i] = Busy(c) THEN Thread("busy") ELSE feeds[i]]
        /\ at' = [at EXCEPT ![c] = "away"]
        /\ UNCHANGED <<stage, running, resources, gateway, session_workers, joining,
                       tickets, starts>>
    BY <1>3 DEF Leave
  <2>2. acceptor = Busy(c) => stage \in AcceptorRuns
    BY ThreadTypes DEF IInv, Owned
  <2>3. acceptor' \in Threads
    BY <2>1, ThreadTypes DEF IInv, StateOK, States
  <2>4. /\ feeds' \in Seq(Threads) /\ Len(feeds') = Len(feeds)
        /\ stage \notin FeedsRun => \A i \in DOMAIN feeds' : feeds'[i] = Ended
    <3>1. feeds \in Seq(Threads) /\ Thread("busy") \in Threads
      BY ThreadTypes DEF IInv, StateOK, States
    <3>2. feeds' \in Seq(Threads) /\ Len(feeds') = Len(feeds)
      BY <2>1, <3>1
    <3> QED
      BY <2>1, <3>1, <3>2, ThreadTypes DEF IInv, Owned
  <2>5. StateOK'
    BY <2>1, <2>3, <2>4 DEF IInv, StateOK, Places, resources
  <2>6. Owned'
    BY <2>1, <2>2, <2>4 DEF IInv, Owned, resources
  <2> QED
    BY <2>1, <2>5, <2>6 DEF IInv, Joined, Closed, resources
<1>4. CASE Drop(c)
  <2>1. /\ alive' \subseteq alive
        /\ at' \in [Clients -> Places]
        /\ UNCHANGED <<stage, running, resources, gateway, acceptor, feeds, session_workers,
                       joining, tickets, starts>>
    BY <1>4 DEF Drop, IInv, StateOK, Places
  <2> QED
    BY <2>1 DEF IInv, StateOK, Owned, Joined, Closed, resources
<1>5. ASSUME NEW i \in DOMAIN feeds, Take(i, c)
      PROVE  IInv'
  <2>1. /\ feeds[i] # Ended
        /\ feeds' = [feeds EXCEPT ![i] = Thread("busy")]
        /\ at' \in [Clients -> Places]
        /\ UNCHANGED <<stage, running, resources, gateway, acceptor, alive, session_workers,
                       joining, tickets, starts>>
    BY <1>5, ThreadTypes DEF Take, IInv, StateOK, Places
  <2>2. stage \in FeedsRun
    BY <2>1 DEF IInv, Owned
  <2>3. feeds \in Seq(Threads) /\ i \in 1 .. Len(feeds) /\ Thread("busy") \in Threads
    BY ThreadTypes DEF IInv, StateOK, States
  <2>4. feeds' \in Seq(Threads) /\ Len(feeds') = Len(feeds)
    BY <2>1, <2>3
  <2> QED
    BY <2>1, <2>2, <2>4 DEF IInv, StateOK, Owned, Joined, Closed, resources
<1> QED
  BY <1>1, <1>2, <1>3, <1>4, <1>5 DEF Client

LEMMA NextIInv == IInv /\ [Next]_vars => IInv'
<1>1. SUFFICES ASSUME IInv, [Next]_vars PROVE IInv'
  OBVIOUS
<1>2. CASE UNCHANGED vars
  BY <1>1, <1>2 DEF vars, resources, threads, IInv, StateOK, Owned, Joined, Closed
<1> QED
  BY <1>1, <1>2, OwnerKeeps, StopStepsKeep, GatewayKeeps, AcceptorKeeps, FeedKeeps, ClientKeeps
     DEF Next

\* Most steps open no session, and leave its thread and the streams' alone.
LEMMA SocketsKept ==
    ASSUME SocketsHeld, UNCHANGED <<alive, feeds>>,
           \A c \in Clients : at'[c] \in {"in_session", "dropped"} => at'[c] = at[c]
    PROVE  SocketsHeld'
  BY DEF SocketsHeld

LEMMA NextSocketsHeld == IInv /\ SocketsHeld /\ [Next]_vars => SocketsHeld'
<1>1. SUFFICES ASSUME IInv, SocketsHeld, [Next]_vars PROVE SocketsHeld'
  OBVIOUS
<1>2. at \in [Clients -> Places] /\ feeds \in Seq(Threads)
  BY <1>1 DEF IInv, StateOK
<1>3. CASE Start
  <2>1. \A c \in Clients : at[c] \notin {"in_session", "dropped"}
    BY <1>1, <1>3, ThreadTypes
       DEF Start, IInv, Owned, Joined, SocketsHeld, FeedsRun, AcceptorRuns, GatewayRuns
  <2>2. at' = at
    BY <1>3 DEF Start
  <2> QED
    BY <2>1, <2>2 DEF SocketsHeld
<1>4. CASE FailToStart \/ Stop \/ StopSteps \/ UNCHANGED vars
  <2>1. UNCHANGED <<alive, feeds>>
    BY <1>4 DEF FailToStart, Stop, StopSteps, ShutGateway, ShutSessions, Shut, CloseFeeds, Join,
                SwapWorkers, Cleanup, threads, vars
  <2>2. \A c \in Clients : at'[c] = at[c] \/ at'[c] = "away"
    BY <1>4 DEF FailToStart, Stop, StopSteps, ShutGateway, ShutSessions, Shut, CloseFeeds, Join,
                SwapWorkers, Cleanup, threads, vars
  <2> QED
    BY <1>1, <2>1, <2>2, SocketsKept
<1>5. CASE GatewayThread
  <2>1. UNCHANGED <<alive, feeds>>
    BY <1>5 DEF GatewayThread, GatewayTop, GatewayWoken, GatewayAccept
  <2>2. \A c \in Clients : at'[c] = at[c] \/ at'[c] = "at_gateway"
    BY <1>2, <1>5 DEF GatewayThread, GatewayTop, GatewayWoken, GatewayAccept
  <2> QED
    BY <1>1, <2>1, <2>2, SocketsKept
<1>6. CASE AcceptorTop \/ AcceptorWoken \/ \E c \in Clients : AcceptorAccept(c) \/ TurnAway(c)
  <2>1. UNCHANGED <<alive, feeds>>
    BY <1>6 DEF AcceptorTop, AcceptorWoken, AcceptorAccept, TurnAway
  <2>2. \A c \in Clients : at'[c] = at[c] \/ at'[c] \in {"accepted", "away"}
    BY <1>2, <1>6 DEF AcceptorTop, AcceptorWoken, AcceptorAccept, TurnAway
  <2> QED
    BY <1>1, <2>1, <2>2, SocketsKept
<1>7. ASSUME NEW c \in Clients, Spawn(c)
      PROVE  SocketsHeld'
  BY <1>1, <1>2, <1>7 DEF Spawn, SocketsHeld
<1>8. ASSUME NEW i \in DOMAIN feeds, FeedThread(i) \/ Datagram(i)
      PROVE  SocketsHeld'
  <2>1. UNCHANGED <<alive, at>>
    BY <1>8 DEF FeedThread, FeedTop, TimeOut, Dispatch, Datagram, Send, Feed
  <2>2. \A c \in Clients : feeds[i] # Busy(c)
    BY <1>8, ThreadTypes DEF FeedThread, FeedTop, TimeOut, Dispatch, Datagram, Send, Feed
  <2>3. PICK to : feeds' = [feeds EXCEPT ![i] = to]
    BY <1>8 DEF FeedThread, FeedTop, TimeOut, Dispatch, Datagram, Send, Feed
  <2>4. \A j \in DOMAIN feeds : \A c \in Clients :
            feeds[j] = Busy(c) => j \in DOMAIN feeds' /\ feeds'[j] = Busy(c)
    BY <2>2, <2>3
  <2> QED
    BY <1>1, <2>1, <2>4 DEF SocketsHeld
<1>9. ASSUME NEW c \in Clients, Client(c)
      PROVE  SocketsHeld'
  <2>1. CASE Ask(c) \/ Connect(c) \/ HangUp(c) \/ Issue(c)
    <3>1. UNCHANGED <<alive, feeds>>
      BY <2>1 DEF Ask, Connect, HangUp, Issue, threads
    <3>2. \A d \in Clients : at'[d] = at[d] \/ at'[d] \in {"asking", "waiting", "away"}
      BY <1>2, <2>1 DEF Ask, Connect, HangUp, Issue
    <3> QED
      BY <1>1, <3>1, <3>2, SocketsKept
  <2>2. CASE Drop(c)
    BY <1>1, <1>2, <2>2 DEF Drop, SocketsHeld
  <2>3. CASE Leave(c)
    <3>1. \A d \in Clients \ {c} : Busy(d) # Busy(c)
      BY DEF Busy
    <3>2. \A d \in Clients \ {c} : \A i \in DOMAIN feeds :
              feeds[i] = Busy(d) => i \in DOMAIN feeds' /\ feeds'[i] = Busy(d)
      BY <2>3, <3>1 DEF Leave
    <3> QED
      BY <1>1, <1>2, <2>3, <3>2 DEF Leave, SocketsHeld
  <2>4. ASSUME NEW i \in DOMAIN feeds, Take(i, c)
        PROVE  SocketsHeld'
    <3>1. \A d \in Clients \ {c} : Busy(d) # Busy(c)
      BY DEF Busy
    <3>2. \A j \in DOMAIN feeds : \A d \in Clients :
              /\ feeds[j] = Busy(d)
              /\ d # c \/ j # i
              => j \in DOMAIN feeds' /\ feeds'[j] = Busy(d)
      BY <2>4, <3>1 DEF Take
    <3>3. UNCHANGED alive /\ \A d \in Clients \ {c} : at'[d] = at[d]
      BY <1>2, <2>4 DEF Take
    <3>4. at'[c] = "dropped" => /\ at[c] = "dropped"
                               /\ \E j \in DOMAIN feeds \ {i} : feeds[j] = Busy(c)
      BY <1>2, <2>4 DEF Take
    <3>5. at'[c] = "in_session" => at[c] = "in_session"
      BY <1>2, <2>4 DEF Take
    <3> QED
      BY <1>1, <3>2, <3>3, <3>4, <3>5 DEF SocketsHeld
  <2> QED
    BY <1>9, <2>1, <2>2, <2>3, <2>4 DEF Client
<1> QED
  BY <1>1, <1>3, <1>4, <1>5, <1>6, <1>7, <1>8, <1>9 DEF Next, Owner, AcceptorThread

-----------------------------------------------------------------------------
(* What follows from it.                                                   *)

\* Every variable keeps its type; restarts add descriptors and threads, no more
\* than one per stream and start (1551-1559).
THEOREM TypeCorrect == Spec => []TypeOK
<1>1. IInv => TypeOK
  <2>1. SUFFICES ASSUME IInv PROVE TypeOK
    OBVIOUS
  <2>2. StateOK
    BY <2>1 DEF IInv
  <2>3. Streams * starts <= Streams * MaxStarts /\ Streams * MaxStarts \in Nat
    BY <2>2, LifecycleAssumption DEF StateOK
  <2>4. Streams * starts \in Nat
    BY <2>2, LifecycleAssumption DEF StateOK
  <2> DEFINE bound == Streams * MaxStarts
  <2>5. bound \in Nat /\ Len(feeds) <= bound /\ Len(market_data_fds) <= bound
    BY <2>2, <2>3, <2>4 DEF StateOK
  <2> HIDE DEF bound
  <2>6. feeds \in [1 .. Len(feeds) -> Threads] /\ Len(feeds) \in 0 .. bound
    BY <2>2, <2>5 DEF StateOK
  <2>7. /\ market_data_fds \in [1 .. Len(market_data_fds) -> {"open", "closed"}]
        /\ Len(market_data_fds) \in 0 .. bound
    BY <2>2, <2>5 DEF StateOK
  <2>8. feeds \in BoundedSeq(Threads, bound) /\ market_data_fds \in BoundedSeq({"open", "closed"}, bound)
    BY <2>6, <2>7 DEF BoundedSeq, SeqOf
  <2> QED
    BY <2>2, <2>8 DEF TypeOK, StateOK, bound, Threads
<1> QED
  BY <1>1, InitIInv, NextIInv, PTL DEF Spec

\* When stop() has returned (1561-1610) the app may be destroyed: no thread of it
\* runs and none of its sockets is open, whatever connections and datagrams came
\* while it was stopping.
THEOREM NothingStays == Spec => []NothingLeft
<1>1. IInv /\ SocketsHeld => NothingLeft
  BY ThreadTypes
     DEF IInv, StateOK, Owned, Joined, Closed, SocketsHeld, NothingLeft, FeedsRun, AcceptorRuns,
         GatewayRuns, Range
<1> QED
  BY <1>1, InitIInv, NextIInv, NextSocketsHeld, PTL DEF Spec

\* cleanup() frees the TLS context (1609, 1620-1626) after the gateway thread is
\* joined (1585-1587) and not before: no handshake ever uses freed memory.
THEOREM ContextOutlivesUse == Spec => []ContextInUse
<1>1. IInv => ContextInUse
  BY DEF IInv, Owned, ContextInUse, GatewayRuns, Ended
<1> QED
  BY <1>1, InitIInv, NextIInv, PTL DEF Spec

=============================================================================
