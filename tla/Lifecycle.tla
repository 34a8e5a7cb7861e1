------------------------------ MODULE Lifecycle ------------------------------
(***************************************************************************)
(* Starting and stopping the simulator around its threads: the gateway     *)
(* thread, the session listener, a worker per session and a thread per     *)
(* market-data stream.  What the threads do with a client or a message is  *)
(* the other modules' subject; here they are busy, blocked or gone.        *)
(***************************************************************************)
EXTENDS Naturals, Sequences, SequencesExt

CONSTANTS
    Clients,
    Streams,        \* number of market_data_streams in the configuration
    None,
    MaxStarts       \* bound: calls of start()

ASSUME LifecycleAssumption == Streams \in Nat /\ MaxStarts \in Nat /\ None \notin Clients

VARIABLES
    stage,          \* where the thread that starts and stops the app is
    running,
    ctx,            \* is gateway_ssl_ctx_ allocated
    listening,      \* listeners that still wake their accept()
    market_data_fds,
    gateway,        \* gateway_thread_, and who it is busy with
    acceptor,       \* session_thread_, the same
    feeds,          \* market_data_threads_, and whose socket each is sending to
    session_workers,
    joining,        \* workers: the threads stop() has taken over
    alive,          \* clients whose worker thread runs
    at,             \* where a client is
    tickets,
    starts

resources == <<ctx, listening, market_data_fds>>
threads == <<gateway, acceptor, feeds, alive>>
vars == <<stage, running, resources, threads, session_workers, joining, at, tickets, starts>>

\* Mutant of Stopping: the workers are taken over while the listener still runs.
StoppingSwapFirst == <<"shut_gateway", "swap_workers", "shut_sessions", "close_feeds",
                       "join_gateway", "join_acceptor", "join_feeds", "join_workers", "cleanup">>

\* stop(), statement by statement.
Stopping == <<"shut_gateway", "shut_sessions", "close_feeds", "join_gateway", "join_acceptor",
              "join_feeds", "swap_workers", "join_workers", "cleanup">>
Stages == Range(Stopping) \cup {"down", "up"}
After(s) == IF s = Last(Stopping) THEN "down"
            ELSE Stopping[1 + CHOOSE i \in DOMAIN Stopping : Stopping[i] = s]

\* A session whose thread has ended is "dropped" as long as a stream's thread still
\* sends to it: the connection is open until the last of them lets go of it.
Places == {"away", "asking", "at_gateway", "waiting", "accepted", "in_session", "dropped"}

\* A thread waits in a blocking call, is busy, tests running_ at the top of its
\* loop, or has ended.
States == {"top", "blocked", "busy", "ended"}
Ended == [state |-> "ended", client |-> None]
Thread(state) == [state |-> state, client |-> None]
Busy(c) == [state |-> "busy", client |-> c]

Init ==
    /\ stage = "down" /\ running = FALSE
    /\ ctx = FALSE /\ listening = {} /\ market_data_fds = <<>>
    /\ gateway = Ended /\ acceptor = Ended /\ feeds = <<>> /\ alive = {}
    /\ session_workers = {} /\ joining = {}
    /\ at = [c \in Clients |-> "away"]
    /\ tickets = {}
    /\ starts = 0

-----------------------------------------------------------------------------
(* The thread that owns the app: main(), or a test.                        *)

\* The descriptors of earlier runs stay in market_data_fds_, as -1, and get a
\* thread as well.
Start ==
    /\ stage = "down" /\ ~running /\ starts < MaxStarts
    /\ starts' = starts + 1
    /\ ctx' = TRUE
    /\ listening' = {"gateway", "session"}
    /\ market_data_fds' = market_data_fds \o [i \in 1..Streams |-> "open"]
    /\ running' = TRUE
    /\ gateway' = Thread("top") /\ acceptor' = Thread("top")
    /\ feeds' = [i \in DOMAIN market_data_fds' |-> Thread("top")]
    /\ stage' = "up"
    /\ UNCHANGED <<alive, session_workers, joining, at, tickets>>

\* A socket cannot be bound: start() throws, the app is destroyed and with it the
\* TLS context, and main() returns.
FailToStart ==
    /\ stage = "down" /\ ~running /\ starts < MaxStarts
    /\ starts' = MaxStarts
    /\ ctx' = FALSE
    /\ UNCHANGED <<stage, running, listening, market_data_fds, threads, session_workers,
                   joining, at, tickets>>

Stop ==
    /\ stage = "up"
    /\ running' = FALSE
    /\ stage' = Head(Stopping)
    /\ UNCHANGED <<resources, threads, session_workers, joining, at, tickets, starts>>

\* Whoever the listener has not yet accepted is reset.
Shut(listener, place) ==
    /\ listening' = listening \ {listener}
    /\ at' = [c \in Clients |-> IF at[c] = place THEN "away" ELSE at[c]]
    /\ stage' = After(stage)
    /\ UNCHANGED <<running, ctx, market_data_fds, threads, session_workers, joining, tickets, starts>>

ShutGateway == stage = "shut_gateway" /\ Shut("gateway", "asking")

\* Mutant of ShutSessions: close() without shutdown() leaves accept() waiting.
ShutSessionsCloseOnly ==
    /\ stage = "shut_sessions"
    /\ stage' = After(stage)
    /\ UNCHANGED <<running, resources, threads, session_workers, joining, at, tickets, starts>>

ShutSessions == stage = "shut_sessions" /\ Shut("session", "waiting")

CloseFeeds ==
    /\ stage = "close_feeds"
    /\ market_data_fds' = [i \in DOMAIN market_data_fds |-> "closed"]
    /\ stage' = After(stage)
    /\ UNCHANGED <<running, ctx, listening, threads, session_workers, joining, at, tickets, starts>>

\* Mutant of Join: a thread busy with a client is not waited for.
JoinIdle ==
    /\ \/ stage = "join_gateway" /\ gateway.state \in {"ended", "busy"}
       \/ stage = "join_acceptor" /\ acceptor.state \in {"ended", "busy"}
       \/ stage = "join_feeds" /\ \A i \in DOMAIN feeds : feeds[i] = Ended
       \/ stage = "join_workers" /\ joining \cap alive = {}
    /\ stage' = After(stage)
    /\ UNCHANGED <<running, resources, threads, session_workers, joining, at, tickets, starts>>

Join ==
    /\ \/ stage = "join_gateway" /\ gateway = Ended
       \/ stage = "join_acceptor" /\ acceptor = Ended
       \/ stage = "join_feeds" /\ \A i \in DOMAIN feeds : feeds[i] = Ended
       \/ stage = "join_workers" /\ joining \cap alive = {}
    /\ stage' = After(stage)
    /\ UNCHANGED <<running, resources, threads, session_workers, joining, at, tickets, starts>>

SwapWorkers ==
    /\ stage = "swap_workers"
    /\ joining' = session_workers
    /\ session_workers' = {}
    /\ stage' = After(stage)
    /\ UNCHANGED <<running, resources, threads, at, tickets, starts>>

Cleanup ==
    /\ stage = "cleanup"
    /\ ctx' = FALSE
    /\ joining' = {}
    /\ stage' = After(stage)
    /\ UNCHANGED <<running, listening, market_data_fds, threads, session_workers, at, tickets, starts>>

Owner == Start \/ FailToStart \/ Stop
StopSteps == ShutGateway \/ ShutSessions \/ CloseFeeds \/ Join \/ SwapWorkers \/ Cleanup

-----------------------------------------------------------------------------
(* The threads of the app.                                                 *)

\* What the top of a loop, and a failed call, make of running_.
Turn == IF running THEN "blocked" ELSE "ended"
AfterError == IF running THEN "top" ELSE "ended"

GatewayTop ==
    /\ gateway.state = "top"
    /\ gateway' = Thread(Turn)
    /\ UNCHANGED <<stage, running, resources, acceptor, feeds, alive, session_workers, joining,
                   at, tickets, starts>>

GatewayAccept(c) ==
    /\ gateway.state = "blocked" /\ "gateway" \in listening
    /\ at[c] = "asking"
    /\ gateway' = Busy(c)
    /\ at' = [at EXCEPT ![c] = "at_gateway"]
    /\ UNCHANGED <<stage, running, resources, acceptor, feeds, alive, session_workers, joining,
                   tickets, starts>>

GatewayWoken ==
    /\ gateway.state = "blocked" /\ "gateway" \notin listening
    /\ gateway' = Thread(AfterError)
    /\ UNCHANGED <<stage, running, resources, acceptor, feeds, alive, session_workers, joining,
                   at, tickets, starts>>

\* The client gets its ticket; the thread waits for it until then, however long.
Issue(c) ==
    /\ gateway = Busy(c)
    /\ tickets' = tickets \cup {c}
    /\ at' = [at EXCEPT ![c] = "away"]
    /\ gateway' = Thread("top")
    /\ UNCHANGED <<stage, running, resources, acceptor, feeds, alive, session_workers, joining, starts>>

AcceptorTop ==
    /\ acceptor.state = "top"
    /\ acceptor' = Thread(Turn)
    /\ UNCHANGED <<stage, running, resources, gateway, feeds, alive, session_workers, joining,
                   at, tickets, starts>>

AcceptorAccept(c) ==
    /\ acceptor.state = "blocked" /\ "session" \in listening
    /\ at[c] = "waiting"
    /\ acceptor' = Busy(c)
    /\ at' = [at EXCEPT ![c] = "accepted"]
    /\ UNCHANGED <<stage, running, resources, gateway, feeds, alive, session_workers, joining,
                   tickets, starts>>

AcceptorWoken ==
    /\ acceptor.state = "blocked" /\ "session" \notin listening
    /\ acceptor' = Thread(AfterError)
    /\ UNCHANGED <<stage, running, resources, gateway, feeds, alive, session_workers, joining,
                   at, tickets, starts>>

\* There is no ticket for its address; or the connection has been reset, and the
\* address cannot be had.
TurnAway(c) ==
    /\ acceptor = Busy(c) /\ at[c] = "accepted"
    /\ at' = [at EXCEPT ![c] = "away"]
    /\ acceptor' = Thread("top")
    /\ UNCHANGED <<stage, running, resources, gateway, feeds, alive, session_workers, joining,
                   tickets, starts>>

\* Mutant of Spawn: the session runs in the listener's own thread.
SpawnInline(c) ==
    /\ acceptor = Busy(c) /\ c \in tickets
    /\ tickets' = tickets \ {c}
    /\ at' = [at EXCEPT ![c] = "in_session"]
    /\ UNCHANGED <<stage, running, resources, threads, session_workers, joining, starts>>

Spawn(c) ==
    /\ acceptor = Busy(c) /\ c \in tickets
    /\ tickets' = tickets \ {c}
    /\ session_workers' = session_workers \cup {c}
    /\ alive' = alive \cup {c}
    /\ at' = [at EXCEPT ![c] = "in_session"]
    /\ acceptor' = Thread("top")
    /\ UNCHANGED <<stage, running, resources, gateway, feeds, joining, starts>>

Feed(i, from, to) ==
    /\ feeds[i] = from
    /\ feeds' = [feeds EXCEPT ![i] = to]
    /\ UNCHANGED <<stage, running, resources, gateway, acceptor, alive, session_workers,
                   joining, at, tickets, starts>>

FeedTop(i) == Feed(i, Thread("top"), Thread(Turn))

\* A close() elsewhere does not wake recvfrom(), which still returns what comes in.
Datagram(i) == Feed(i, Thread("blocked"), Thread("busy"))

\* After the socket's 200 ms, or at once when the descriptor is closed.
TimeOut(i) == Feed(i, Thread("blocked"), Thread(AfterError))

\* An event of the datagram goes to c's session, unless that is closed.  send() may
\* wait for the client for ever.
Send(i, c) == c \in alive /\ Feed(i, Thread("busy"), Busy(c))

\* No event is left.
Dispatch(i) == Feed(i, Thread("busy"), Thread("top"))

-----------------------------------------------------------------------------
(* The clients.                                                            *)

Ask(c) ==
    /\ at[c] = "away" /\ "gateway" \in listening /\ c \notin tickets
    /\ at' = [at EXCEPT ![c] = "asking"]
    /\ UNCHANGED <<stage, running, resources, threads, session_workers, joining, tickets, starts>>

\* With the ticket or without.
Connect(c) ==
    /\ at[c] = "away" /\ "session" \in listening
    /\ c \notin alive
    /\ at' = [at EXCEPT ![c] = "waiting"]
    /\ UNCHANGED <<stage, running, resources, threads, session_workers, joining, tickets, starts>>

\* The gateway's client breaks off, before it has a ticket or after.
HangUp(c) ==
    /\ gateway = Busy(c)
    /\ \E issued \in BOOLEAN : tickets' = IF issued THEN tickets \cup {c} ELSE tickets
    /\ at' = [at EXCEPT ![c] = "away"]
    /\ gateway' = Thread("top")
    /\ UNCHANGED <<stage, running, resources, acceptor, feeds, alive, session_workers, joining, starts>>

\* The client reads what thread i sends it.  If its session is over and nobody else
\* sends to it, the connection is closed with the last reference.
Take(i, c) ==
    /\ feeds[i] = Busy(c)
    /\ feeds' = [feeds EXCEPT ![i] = Thread("busy")]
    /\ at' = IF at[c] = "dropped" /\ \A j \in DOMAIN feeds \ {i} : feeds[j] # Busy(c)
             THEN [at EXCEPT ![c] = "away"] ELSE at
    /\ UNCHANGED <<stage, running, resources, gateway, acceptor, alive, session_workers,
                   joining, tickets, starts>>

\* The session's thread gives up, on a message it does not accept, but the client
\* stays connected.
Drop(c) ==
    /\ c \in alive
    /\ alive' = alive \ {c}
    /\ at' = [at EXCEPT ![c] = IF \E i \in DOMAIN feeds : feeds[i] = Busy(c)
                              THEN "dropped" ELSE "away"]
    /\ UNCHANGED <<stage, running, resources, gateway, acceptor, feeds, session_workers,
                   joining, tickets, starts>>

\* The client closes the connection: the session's thread cannot read, nor anyone send.
\* (The listener's thread is in a session only in the mutant of Spawn.)
Leave(c) ==
    /\ at[c] \in {"in_session", "dropped"}
    /\ alive' = alive \ {c}
    /\ at' = [at EXCEPT ![c] = "away"]
    /\ feeds' = [i \in DOMAIN feeds |-> IF feeds[i] = Busy(c) THEN Thread("busy") ELSE feeds[i]]
    /\ acceptor' = IF acceptor = Busy(c) THEN Thread("top") ELSE acceptor
    /\ UNCHANGED <<stage, running, resources, gateway, session_workers, joining, tickets, starts>>

-----------------------------------------------------------------------------
GatewayThread == GatewayTop \/ GatewayWoken \/ \E c \in Clients : GatewayAccept(c)
AcceptorThread ==
    \/ AcceptorTop \/ AcceptorWoken
    \/ \E c \in Clients : AcceptorAccept(c) \/ TurnAway(c) \/ Spawn(c)
FeedThread(i) ==
    \/ FeedTop(i) \/ TimeOut(i) \/ Dispatch(i)
    \/ \E c \in Clients : Send(i, c)
Client(c) ==
    \/ Ask(c) \/ Connect(c) \/ HangUp(c) \/ Issue(c) \/ Drop(c) \/ Leave(c)
    \/ \E i \in DOMAIN feeds : Take(i, c)

\* The descriptors there can be.
Indexes == 1..(Streams * MaxStarts)

Next ==
    \/ Owner \/ StopSteps
    \/ GatewayThread \/ AcceptorThread
    \/ \E i \in DOMAIN feeds : FeedThread(i) \/ Datagram(i)
    \/ \E c \in Clients : Client(c)

Spec == Init /\ [][Next]_vars

\* The threads run and stop() goes on when it can.  Nobody makes a client finish
\* with the gateway, read what it is sent, leave its session or come at all, and
\* nobody has to call stop(): a stream's thread that sends may do so for ever.
FairSpec ==
    /\ Spec
    /\ WF_vars(StopSteps)
    /\ WF_vars(GatewayThread) /\ WF_vars(AcceptorThread)
    /\ \A i \in Indexes : WF_vars(i \in DOMAIN feeds /\ FeedThread(i))
    /\ \A c \in Clients : SF_vars(AcceptorAccept(c))

-----------------------------------------------------------------------------
TypeOK ==
    /\ stage \in Stages /\ running \in BOOLEAN /\ ctx \in BOOLEAN
    /\ listening \subseteq {"gateway", "session"}
    /\ market_data_fds \in BoundedSeq({"open", "closed"}, Streams * MaxStarts)
    /\ {gateway, acceptor} \subseteq [state : States, client : Clients \cup {None}]
    /\ feeds \in BoundedSeq([state : States, client : Clients \cup {None}], Streams * MaxStarts)
    /\ {alive, session_workers, joining, tickets} \subseteq SUBSET Clients
    /\ at \in [Clients -> Places]
    /\ starts \in 0..MaxStarts

\* When stop() has returned nothing of the app runs any more, so that the caller may
\* destroy it: every thread is gone, the sessions accepted after running_ was cleared
\* included, and no socket of a listener, a stream or a session is open.
NothingLeft ==
    stage = "down" =>
        /\ gateway = Ended /\ acceptor = Ended /\ alive = {}
        /\ \A i \in DOMAIN feeds : feeds[i] = Ended
        /\ listening = {} /\ "open" \notin Range(market_data_fds)
        /\ \A c \in Clients : at[c] \notin {"in_session", "dropped"}

\* The gateway never uses the TLS context after cleanup() has freed it: it is there
\* as long as a client is being handled.
ContextInUse == gateway.state = "busy" => ctx

\* stop() returns, unless some client stays with the gateway, in its session, or
\* connected without reading what a stream's thread sends it although its session is
\* over: no listener, stream or worker without a client can hold it.
StopReturns ==
    [](stage \in Range(Stopping) =>
        <>(\/ stage = "down"
           \/ \E c \in Clients : at[c] \in {"at_gateway", "in_session", "dropped"}))

\* The session listener is never held up: whoever connects gets its session or is
\* turned away while others stay in theirs, or the app stops.
ListenerFree ==
    \A c \in Clients : at[c] = "waiting" ~> (at[c] # "waiting" \/ ~running)

=============================================================================
