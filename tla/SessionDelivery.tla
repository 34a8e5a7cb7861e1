--------------------------- MODULE SessionDelivery ---------------------------
(***************************************************************************)
(* What happens to the engine's replies after its lock is released:        *)
(* SessionConnection::dispatchEvent and sendPayload, called by the thread  *)
(* of the session and by the market-data threads at once, with sockets     *)
(* that break and connections that go away meanwhile.  The engine is       *)
(* OrderLife, which MatchingEngine implements.                             *)
(***************************************************************************)
EXTENDS Naturals, Sequences, FiniteSetsExt

CONSTANTS
    Sessions,       \* connections, each named like the thread in its run()
    Feeds,          \* market-data threads
    Volumes, FirstOrder,    \* see OrderLife
    Habits,         \* function: what a session's client may do besides sending orders
    None,           \* no thread
    MaxOrders,      \* bound: orders entered
    MaxRef,         \* bound: calls stop once a reference is beyond it
    MaxRefusals,    \* bound: frames a session sends before no more is refused to it
    MaxInquiries    \* bound: frames a session sends before it inquires no more

VARIABLES
    open, next_order, next_ref, reply,      \* the engine
    pending,        \* events a thread has still to dispatch; the first is in hand
    at,             \* where a thread is in dispatchEvent, sendPayload or run
    frame,          \* the header and body it is sending
    write_mutex,    \* its holder, per session
    closed,         \* closed_
    running,        \* is run() in its loop?
    sequence_number, cipher,    \* of the last frame; position of outbound_crypto_
    socket,         \* "open", "reset" by the client, or "shut" by the destructor
    wire,           \* what has been written to it
    full,           \* does its client leave so much unread that send() blocks?
    alive           \* FALSE once SIGPIPE has ended the process

\* Ask for system information or a download, send a packet with a bad length,
\* digest, size or code, go away, or stop reading.
AllHabits == {"inquire", "garbage", "break", "stall"}

ASSUME HabitAssumption == Habits \in [Sessions -> SUBSET AllHabits]
ASSUME ThreadAssumption == Sessions \cap Feeds = {} /\ None \notin Sessions \cup Feeds
ASSUME VolumeAssumption == Volumes \subseteq Nat /\ FirstOrder \in Nat

engine == <<open, next_order, next_ref, reply>>
threads == <<pending, at, frame>>
sending == <<sequence_number, cipher, wire>>
vars == <<engine, threads, sending, write_mutex, closed, running, socket, full, alive>>

Engine == INSTANCE OrderLife

Threads == Sessions \cup Feeds

Info == [type |-> "info"]

Init ==
    /\ Engine!Init
    /\ pending = [t \in Threads |-> <<>>]
    /\ at = [t \in Threads |-> "idle"]
    /\ frame = [t \in Threads |-> <<>>]
    /\ write_mutex = [s \in Sessions |-> None]
    /\ closed = [s \in Sessions |-> FALSE]
    /\ running = [s \in Sessions |-> TRUE]
    /\ sequence_number = [s \in Sessions |-> 0]
    /\ cipher = [s \in Sessions |-> 0]
    /\ socket = [s \in Sessions |-> "open"]
    /\ wire = [s \in Sessions |-> <<>>]
    /\ full = [s \in Sessions |-> FALSE]
    /\ alive = TRUE

-----------------------------------------------------------------------------
(* Helpers.                                                                *)

\* The session a thread is busy with: its own, or its first event's.
Of(t) == IF t \in Sessions THEN t ELSE Head(pending[t]).session

\* shared_ptrs to the connection: one in run() and one in each market-data
\* thread that has locked an event's weak_ptr.
Referenced(s) ==
    running[s] \/ \E f \in Feeds : at[f] # "idle" /\ Head(pending[f]).session = s

\* The destructor closes the socket with the last reference.
Release == socket' = [s \in Sessions |-> IF Referenced(s)' THEN socket[s] ELSE "shut"]

Move(t, place) == at' = [at EXCEPT ![t] = place]

\* dispatchEvent returns: on to the next event.
Return(t) ==
    /\ pending' = [pending EXCEPT ![t] = Tail(@)]
    /\ Move(t, "idle")
    /\ frame' = [frame EXCEPT ![t] = <<>>]

Unlock(t) == write_mutex' = [s \in Sessions |->
                IF write_mutex[s] = t THEN None ELSE write_mutex[s]]

-----------------------------------------------------------------------------
(* Calls of the engine.                                                    *)

\* handleReadyPayload: the session's thread has read a request.
Ask(s) ==
    /\ running[s] /\ at[s] = "idle" /\ pending[s] = <<>>
    /\ \/ /\ next_ref <= MaxRef
          /\ \/ /\ next_order < FirstOrder + MaxOrders
                /\ \E volume \in Volumes : \E traded \in 0 .. volume, stays \in BOOLEAN :
                        Engine!Accept(s, volume, traded, stays)
             \/ \E n \in {m \in DOMAIN open : open[m].session = s} :
                    \/ \E left \in Volumes : \E traded \in 0 .. left :
                            Engine!Modify(n, left, traded)
                    \/ Engine!Cancel(n)
       \/ sequence_number[s] < MaxRefusals /\ Engine!Pass /\ reply' # <<>>
    /\ pending' = [pending EXCEPT ![s] = reply']
    /\ UNCHANGED <<at, frame, sending, write_mutex, closed, running, socket, alive>>

\* The answers that are not the engine's are sent as they are: no look at
\* closed_, no mutex.
Inquire(s) ==
    /\ "inquire" \in Habits[s]
    /\ running[s] /\ at[s] = "idle" /\ pending[s] = <<>>
    /\ sequence_number[s] < MaxInquiries
    /\ pending' = [pending EXCEPT ![s] = <<Info>>]
    /\ Move(s, "clear")
    /\ UNCHANGED <<engine, frame, sending, write_mutex, closed, running, socket, alive>>

\* marketDataLoop: a datagram that fills orders.
Tick(f) ==
    /\ at[f] = "idle" /\ pending[f] = <<>>
    /\ next_ref <= MaxRef
    /\ \E S \in SUBSET DOMAIN open : Engine!Match(S)
    /\ pending' = [pending EXCEPT ![f] = reply']
    /\ UNCHANGED <<at, frame, sending, write_mutex, closed, running, socket, alive>>

-----------------------------------------------------------------------------
(* dispatchEvent.                                                          *)

\* Mutant of Skip: one session that is gone ends the whole round.
SkipAll(t) ==
    /\ at[t] = "idle" /\ pending[t] # <<>>
    /\ socket[Of(t)] = "shut" \/ closed[Of(t)]
    /\ pending' = [pending EXCEPT ![t] = <<>>]
    /\ UNCHANGED <<engine, at, frame, sending, write_mutex, closed, running, socket, alive>>

\* The connection has expired, or the first look at closed_ says so.
Skip(t) ==
    /\ at[t] = "idle" /\ pending[t] # <<>>
    /\ socket[Of(t)] = "shut" \/ closed[Of(t)]
    /\ Return(t)
    /\ UNCHANGED <<engine, sending, write_mutex, closed, running, alive>>
    /\ Release

\* Past the first look; fill_delay_us may pass before the next step.
Begin(t) ==
    /\ at[t] = "idle" /\ pending[t] # <<>>
    /\ socket[Of(t)] # "shut" /\ ~closed[Of(t)]
    /\ Move(t, "begun")
    /\ UNCHANGED <<engine, pending, frame, sending, write_mutex, closed, running, socket, alive>>

\* Mutant of Lock: the lock is given up again before anything is sent.
LockAndLetGo(t) ==
    /\ at[t] = "begun"
    /\ write_mutex[Of(t)] = None
    /\ ~closed[Of(t)]
    /\ Move(t, "clear")
    /\ UNCHANGED <<engine, pending, frame, sending, write_mutex, closed, running, socket, alive>>

\* Mutant of Lock: one mutex for all sessions.
LockForAll(t) ==
    /\ at[t] = "begun"
    /\ \A s \in Sessions : write_mutex[s] = None
    /\ \/ /\ closed[Of(t)]
          /\ Return(t)
          /\ UNCHANGED write_mutex
       \/ /\ ~closed[Of(t)]
          /\ Move(t, "clear")
          /\ write_mutex' = [write_mutex EXCEPT ![Of(t)] = t]
          /\ UNCHANGED <<pending, frame>>
    /\ UNCHANGED <<engine, sending, closed, running, alive>>
    /\ Release

Lock(t) ==
    /\ at[t] = "begun"
    /\ write_mutex[Of(t)] = None
    /\ \/ /\ closed[Of(t)]
          /\ Return(t)
          /\ UNCHANGED write_mutex
       \/ /\ ~closed[Of(t)]
          /\ Move(t, "clear")
          /\ write_mutex' = [write_mutex EXCEPT ![Of(t)] = t]
          /\ UNCHANGED <<pending, frame>>
    /\ UNCHANGED <<engine, sending, closed, running, alive>>
    /\ Release

\* sendPayload up to the write: the body is encrypted from where the key stream
\* is, the header gets its digest and the next number.
Encrypt(t) ==
    /\ at[t] = "clear"
    /\ frame' = [frame EXCEPT ![t] =
            [number |-> sequence_number[Of(t)] + 1, position |-> cipher[Of(t)],
             event |-> Head(pending[t])]]
    /\ Move(t, "encrypted")
    /\ UNCHANGED <<engine, pending, sending, write_mutex, closed, running, socket, alive>>

\* send() returns, or waits for the client to read.
MayWrite(t) == socket[Of(t)] = "open" => ~full[Of(t)]

\* A write to a socket the client has left may still be taken by the kernel.
Write(t, part) ==
    wire' = [wire EXCEPT ![Of(t)] = IF socket[Of(t)] = "open" THEN Append(@, part) ELSE @]

\* Or it throws: whoever holds the mutex is in dispatchEvent, which catches it;
\* without the mutex only run() does.
Throw(t) ==
    /\ socket[Of(t)] = "reset"
    /\ closed' = [closed EXCEPT ![Of(t)] = TRUE]
    /\ Move(t, IF write_mutex[Of(t)] = t THEN "failed" ELSE "leaving")
    /\ UNCHANGED wire

WriteHeader(t) ==
    /\ at[t] = "encrypted" /\ MayWrite(t)
    /\ sequence_number' = [sequence_number EXCEPT ![Of(t)] = frame[t].number]
    /\ cipher' = [cipher EXCEPT ![Of(t)] = frame[t].position + 1]
    /\ \/ /\ Write(t, [number |-> frame[t].number, digest |-> frame[t].event])
          /\ Move(t, "header")
          /\ UNCHANGED closed
       \/ Throw(t)
    /\ UNCHANGED <<engine, pending, frame, write_mutex, running, socket, alive>>

WriteBody(t) ==
    /\ at[t] = "header" /\ MayWrite(t)
    /\ \/ /\ Write(t, [position |-> frame[t].position, event |-> frame[t].event])
          /\ Return(t)
          /\ Unlock(t)
          /\ UNCHANGED closed
       \/ /\ Throw(t)
          /\ UNCHANGED <<pending, frame, write_mutex>>
    /\ UNCHANGED <<engine, sequence_number, cipher, running, alive>>
    /\ Release

\* The write raises SIGPIPE, which nothing in the program handles.
Die(t) ==
    /\ at[t] \in {"encrypted", "header"} /\ socket[Of(t)] = "reset"
    /\ alive' = FALSE
    /\ UNCHANGED <<engine, threads, sending, write_mutex, closed, running, socket>>

\* The handler in dispatchEvent, still under the mutex.
ReportClosed(t) ==
    /\ at[t] = "failed"
    /\ Engine!Drop(Of(t))
    /\ Return(t)
    /\ Unlock(t)
    /\ UNCHANGED <<sending, closed, running, alive>>
    /\ Release

-----------------------------------------------------------------------------
(* run() ends.                                                             *)

\* Reading fails.
Leave(s) ==
    /\ running[s] /\ at[s] = "idle" /\ pending[s] = <<>>
    /\ closed' = [closed EXCEPT ![s] = TRUE]
    /\ Move(s, "leaving")
    /\ UNCHANGED <<engine, pending, frame, sending, write_mutex, running, socket, alive>>

ReadFails(s) == socket[s] = "reset" /\ Leave(s)

ReadGarbage(s) == "garbage" \in Habits[s] /\ socket[s] = "open" /\ Leave(s)

\* Mutant of ReportLeft: run() closes the socket itself.
ReportLeftShutting(s) ==
    /\ at[s] = "leaving"
    /\ Engine!Drop(s)
    /\ running' = [running EXCEPT ![s] = FALSE]
    /\ pending' = [pending EXCEPT ![s] = <<>>]
    /\ frame' = [frame EXCEPT ![s] = <<>>]
    /\ Move(s, "idle")
    /\ socket' = [socket EXCEPT ![s] = "shut"]
    /\ UNCHANGED <<sending, write_mutex, closed, alive>>

\* Mutant of ReportLeft: the handler is inside the loop, which goes on.
ReportLeftAndStay(s) ==
    /\ at[s] = "leaving"
    /\ Engine!Drop(s)
    /\ pending' = [pending EXCEPT ![s] = <<>>]
    /\ frame' = [frame EXCEPT ![s] = <<>>]
    /\ Move(s, "idle")
    /\ UNCHANGED <<sending, write_mutex, closed, running, alive>>
    /\ Release

ReportLeft(s) ==
    /\ at[s] = "leaving"
    /\ Engine!Drop(s)
    /\ running' = [running EXCEPT ![s] = FALSE]
    /\ pending' = [pending EXCEPT ![s] = <<>>]
    /\ frame' = [frame EXCEPT ![s] = <<>>]
    /\ Move(s, "idle")
    /\ UNCHANGED <<sending, write_mutex, closed, alive>>
    /\ Release

\* The client goes away.
Break(s) ==
    /\ "break" \in Habits[s] /\ socket[s] = "open"
    /\ socket' = [socket EXCEPT ![s] = "reset"]
    /\ UNCHANGED <<engine, threads, sending, write_mutex, closed, running, alive>>

\* Or stops reading, and perhaps goes on later.
Stall(s) ==
    /\ "stall" \in Habits[s] /\ socket[s] = "open"
    /\ full' = [full EXCEPT ![s] = ~@]
    /\ UNCHANGED <<engine, threads, sending, write_mutex, closed, running, socket, alive>>

-----------------------------------------------------------------------------
Dispatch(t) ==
    \/ Skip(t) \/ Begin(t) \/ Lock(t) \/ Encrypt(t)
    \/ WriteHeader(t) \/ WriteBody(t) \/ Die(t) \/ ReportClosed(t)

Step ==
    \/ \E t \in Threads : Dispatch(t)
    \/ \E f \in Feeds : Tick(f)
    \/ \E s \in Sessions :
        Ask(s) \/ Inquire(s) \/ Break(s) \/ ReadFails(s) \/ ReadGarbage(s) \/ ReportLeft(s)

Next ==
    /\ alive
    /\ (Step /\ UNCHANGED full) \/ \E s \in Sessions : Stall(s)

Spec == Init /\ [][Next]_vars

\* Threads keep running.  A client need not ask, send, read or leave; but the
\* requests a reset socket still holds run out, and then reading fails.
Fairness ==
    /\ \A t \in Threads : WF_vars(alive /\ Dispatch(t) /\ UNCHANGED full)
    /\ \A s \in Sessions :
        /\ SF_vars(alive /\ ReadFails(s) /\ UNCHANGED full)
        /\ WF_vars(alive /\ ReportLeft(s) /\ UNCHANGED full)

FairSpec == Spec /\ Fairness

-----------------------------------------------------------------------------
(* Properties.                                                             *)

\* Sessions whose clients read what they are sent.
Readers == {s \in Sessions : "stall" \notin Habits[s]}

Places == {"idle", "begun", "clear", "encrypted", "header", "failed", "leaving"}

TypeOK ==
    /\ \A n \in DOMAIN open : n < next_order /\ open[n].session \in Sessions /\ open[n].left > 0
    /\ next_order \in Nat /\ next_ref \in Nat
    /\ DOMAIN pending = Threads /\ DOMAIN frame = Threads
    /\ at \in [Threads -> Places]
    /\ write_mutex \in [Sessions -> Threads \cup {None}]
    /\ closed \in [Sessions -> BOOLEAN] /\ running \in [Sessions -> BOOLEAN]
    /\ sequence_number \in [Sessions -> Nat] /\ cipher \in [Sessions -> Nat]
    /\ socket \in [Sessions -> {"open", "reset", "shut"}]
    /\ full \in [Sessions -> BOOLEAN] /\ alive \in BOOLEAN

Whole(s) ==
    \A i \in DOMAIN wire[s] :
        LET nth == (i + 1) \div 2
            part == wire[s][i]
        IN  IF i % 2 = 1 THEN "number" \in DOMAIN part /\ part.number = nth
            ELSE /\ "position" \in DOMAIN part /\ part.position = nth - 1
                 /\ part.event = wire[s][i - 1].digest

\* A client can read what it gets (tests/test_main.cpp:297-315 is one that does):
\* headers and bodies alternate, every digest is that of the body behind it,
\* frames are numbered one by one and bodies take up the key stream in order,
\* whichever threads wrote them (1187-1234).
WholeFrames == \A s \in Sessions : Whole(s)

\* A socket is closed only when no thread is about to use it, since another
\* connection may get its number next, and when it is, the session has no order
\* left in the engine that could still trade (1154-1158, 1180-1184,
\* 1206-1209).
NothingBehindShut ==
    \A s \in Sessions : socket[s] = "shut" =>
        /\ \A t \in Threads : at[t] # "idle" => Of(t) # s
        /\ \A n \in DOMAIN open : open[n].session # s

Received(s) ==
    {wire[s][i].event : i \in {j \in DOMAIN wire[s] : "position" \in DOMAIN wire[s][j]}}

\* Those that are about orders, and carry a reference.
Heard(s) == {e \in Received(s) : "ref" \in DOMAIN e}

\* What a client that sorts the events it has heard by reference thinks is left of
\* order n.
Tally(heard, n) ==
    LET states == {e \in heard : e.order = n /\ e.type # "trade"}
        last == CHOOSE e \in states : \A d \in states : d.ref <= e.ref
        since == {e \in heard : e.order = n /\ e.type = "trade" /\ e.ref > last.ref}
    IN  IF states = {} THEN 0
        ELSE last.quantity - SumFunctionOnSet([e \in since |-> e.quantity], since)

Believed(s, n) == Tally(Heard(s), n)

\* No event gets lost or is sent twice on the way, even if other sessions named
\* in the same reply break: once nothing is under way to an open session whose
\* frames are whole, its client knows what the engine has open for it.
ClientAgrees ==
    \A s \in Sessions :
        LET settled == /\ socket[s] = "open" /\ ~closed[s] /\ Whole(s)
                       /\ pending[s] = <<>>
                       /\ \A f \in Feeds : \A i \in DOMAIN pending[f] : pending[f][i].session # s
            mine == {n \in DOMAIN open : open[n].session = s}
            heard == {e.order : e \in Heard(s)}
        IN  settled => \A n \in mine \cup heard :
                Believed(s, n) = IF n \in mine THEN open[n].left ELSE 0

\* Every event is dispatched or given up: no thread waits for a mutex that is
\* never released, whoever fails while holding it (1199, 1206-1209).  A client that
\* does not read blocks send() under the mutex (253), but it holds up only its own
\* session and the market-data threads: the thread of another session goes on.
Dispatched ==
    /\ \A s \in Readers : pending[s] # <<>> ~> pending[s] = <<>> \/ ~alive
    /\ \A f \in Feeds :
        pending[f] # <<>> ~> pending[f] = <<>> \/ ~alive \/ \E s \in Sessions : full[s]

\* A session that breaks, or is told to go ("session should close on bad MD5",
\* tests/test_main.cpp:912), comes to its end: the socket is closed, even while a
\* market-data thread is stuck at another session's client.
Released ==
    \A s \in Readers :
        socket[s] = "reset" \/ closed[s] ~> socket[s] = "shut" \/ ~alive

=============================================================================
