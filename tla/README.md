# A TLA+ model of the NSE FO exchange simulator

This directory specifies `nse_fo_exchange_sim`: a simulator of an exchange's
order gateway. Clients get a ticket from a TLS gateway, open an encrypted
session, and enter, modify and cancel orders. UDP threads build order books from
a market-data feed. A matching engine fills the clients' orders against the top
of those books.

All paths below are under `src/nse_fo_exchange_sim/`; a bare line number is a line of
`src/runtime.cpp`, the live program. `src/simulator.cpp` is an earlier version which
is no longer compiled.

## The system

| Part | State | Operations | Talks to |
| --- | --- | --- | --- |
| `ExternalBook` (417-538) | levels per side, known market orders | new, modify, cancel, trade, best bid and ask | a value inside the engine |
| `MatchingEngine` (540-1139) | books, open orders with two indexes, three counters, one mutex | `onNewOrder`, `onModifyOrder`, `onCancelOrder`, `onTbtOrderMessage`, `onTbtTradeMessage`, `onSessionClosed` | returns events; its caller dispatches them |
| `SessionConnection` (1141-1510) | socket, phase, ciphers, sequence number, `closed_`, write mutex | `run` (reads and handles requests), `dispatchEvent` (writes engine events, from any thread) | engine, client |
| `PendingTicketStore`, gateway (326-348, 1628-1710) | tickets by peer address | handshake adds a ticket, the session listener claims the first one of that address | clients, session listener |
| `SimulatorApp` (1522-1806) | sockets, threads, `running_` | `start`, `stop`, the accept loops, `marketDataLoop` | everything |
| cipher (`src/crypto.cpp`) | block counter, block and offset, one each way | `initialize`, `xorData` | sessions |
| replay tool (`src/replay.cpp`) | one reader per capture file, a queue by time | merge and send | the simulator's UDP ports |
| configuration (`src/config.cpp`) | one record | read line by line, cast, check | everything |

What makes it hard:

- Threads. Each session has one, each market-data stream has one, and there are
  two accept loops. The engine is one critical section, but the events it returns are
  dispatched after the lock is released, by whichever thread made the call.
- Failure. A session breaks while another thread is writing to it; its orders have
  to go and nobody else's may.
- The feed. Datagrams are lost, repeated and reordered and the sequence numbers
  are not looked at.
- Stale data. Clients modify orders by what they last heard; market-data messages
  name orders the book does not know.
- Width. Quantities, volumes and fill numbers are 32 bits, level quantities 64,
  and the top of book is cut from one to the other.

What makes each part correct is said by the properties in the modules; the list of
hazards in `PROJECT.json` says at which line each of them can go wrong.

## The modules

| Module | Models | Extends or instantiates |
| --- | --- | --- |
| `ExternalBook` | one token's book as a value; the four handlers as operators | |
| `BookFeed` | an exchange, a network that misbehaves and one book | `ExternalBook` |
| `MatchingEngine` | the engine; one action per public method and outcome | `ExternalBook` |
| `OrderLife` | what the engine promises of an order, without books or prices | |
| `EngineLife` | the engine implements `OrderLife`: the refinement mapping | `MatchingEngine`, `OrderLife` |
| `SessionDelivery` | threads that dispatch replies to sessions that break | `OrderLife` |
| `Gateway` | tickets and the handshake of several clients | |
| `Lifecycle` | `start()`, `stop()` and all threads | |
| `Startup` | the configuration file, the token file, and a `start()` that may fail anywhere | |
| `CtrStream` | the byte-wise cipher at both ends of a connection | |
| `Replay` | the replay tool | |
| `BookFeedProofs` (with `ExternalBook`), `MatchingEngineProofs`, `SessionDeliveryProofs`, `GatewayProofs`, `LifecycleProofs`, `StartupProofs`, `CtrStreamProofs`, `ReplayProofs` | theorems | the modules they are about |
| `MC...` | constants of the TLC runs | the module named |

`SessionDelivery` composes the sessions with the engine (through `OrderLife`), `Gateway`
the TLS gateway with the session listener and the handshake, `BookFeed` the feed with the
book, `Lifecycle` all threads with their owner.

### How state and actions correspond to the code

**ExternalBook.** `bids_`, `asks_` and `orders_` are the fields `buy`, `sell` and
`orders`; a map is a function on the keys it holds. Each handler is an operator from
book to book. A level's 64-bit quantity is a natural number, cut to `uint32_t` where the
code cuts it (`TopQuantity`); `U32` is the modulus, small in the runs so that wrapping
happens.

**MatchingEngine.** Every public method takes the engine's mutex at the start and holds
it to the end, so each is one action, and `reply` is the vector of events it returns.
The validation before the lock reads nothing shared. `NewOrder` has one disjunct per
outcome (`FillAtOnce`, `ImmediateOrCancel`, `RestDayOrder`); refusals are
actions of their own. `FillResting` says what the loop of
`maybeFillRestingOrdersLocked` computes: `Leftovers` is the one function that gives each
order what the orders before it left of the top. `eraseOpenOrderLocked` reads the order
through a reference after it has been freed: if `FreedNodeReused`, a fill or a close may
leave any of the freed numbers behind in either index. That is all that is modelled of what
freed memory may hold: that it happens to name another order is not. `worker` is the life of
a session's thread and object, needed for the `expired()` branches and for calls that
come after a close. Two variables have no counterpart in the engine: `reply`, and
`market_data`, the configuration's choice, made in `Init`.

**OrderLife.** Six calls on three variables, `open`, `next_order`, `next_ref`, and their
reply. It says that every confirmed unit is traded, rests or is cancelled, and
that events carry consecutive references. `EngineLife` maps the engine's
tables to it, and `SessionDelivery` uses it in place of the engine.

**SessionDelivery.** The points a thread can be interrupted at are the values of `at`:
before the first look at `closed_`, before the lock, before and between the two
writes, and in the two handlers. The number and the position in the key stream are
read in `Encrypt` and written in `WriteHeader`, which lets two threads without
the mutex take the same ones. `Release` is the destructor: it shuts the socket with
the last reference. `Die` is SIGPIPE. `full` is a socket whose client does not read:
`send()` waits until it does. `Habits` says what each client of a run may do: break off,
send garbage, inquire, stop reading.

**CtrStream.** A key byte is named by its block and its place in it, so that two bytes are
the same key only if the code makes them so. `refills`, and `first` in a message, count
key bytes for the properties; the program has neither. A body is ciphered one byte per
step, while the other end may work on its own.

**Gateway.** The store is a sequence, claimed by address from the front. A message
carries the key it is encrypted under; whoever holds another one cannot read it.
`faults` is what may befall each client in a run, chosen once from `Weathers`, and `met`
what has befallen it so far, so that properties can be stated for clients that met
nothing. `gateway.line` says whether the client in the gateway talks, is silent, so that the
gateway waits, or has been cut off after its request. `Peer` is `peerIpAddress`: a connection that
has been reset has `NoAddress`, the empty string (187-188). So a connection in the backlog that
its client has closed takes a ticket when it is accepted, and one that has been reset takes none, except one
that was issued to a client that had been cut off.

**Lifecycle.** `stop()` is the sequence `Stopping`, one step per statement. A thread is at
the top of its loop, blocked, busy, with a client or without, or gone. A stream's thread that
dispatches a datagram's events sends each to a client (`Send`) and goes on when that has
read it (`Take`) or has closed the connection (`Leave`). A session whose thread has ended (`Drop`) stays
connected, as `"dropped"`, while a stream's thread still sends to it. A session's own thread sends to
its own client only. The mutex
around the worker list is left out: the listener is joined before `stop()` takes the
list, so nobody contends for it.

**Startup.** `stage` walks through the program text: the loop over lines, the final checks,
the engine's constructor with its token file, then the statements of `start()`. The kernel is
the set `sockets` and the number `contexts` of TLS contexts; a listener's port is taken as
long as its socket is open, whoever still knows the descriptor. `TlsFails` and
`SocketFails` are the throws, which leave everything made so far as it is.

**Replay.** `record_index` and `queue` are the readers and the priority queue, which holds
at most one record per file; `Before` is its comparison. A thrown exception is the
phase `failed`.

### What is abstracted everywhere

Names, accounts, times, trader ids and flag words are left out; a request is
supported or not. AES and MD5 are ideal: a message under another key, or at
another position of the key stream, is not readable, and nothing else is not. Order numbers travel as doubles (777-779): exact below 2^53,
and taken to be the identity. Memory and
descriptors do not run out. Log lines are left out.

## The runs

Every run ends by itself with the bounds given. Deadlock checking is off where clients
may just stop asking.

| Run | Question | Instance |
| --- | --- | --- |
| `book_feed` | Does the book follow its feed, and never overstate on a bad one? | 3 market orders, 2 prices, 2 sizes, 2 datagrams under way; under faults a run goes on with 2 orders or with 1 price |
| `engine_matching` | Are fills priced, shared and accounted for? Is an order passed over? Is every call one of `OrderLife`? | 1 session, 1 token, 2 prices, `U32` = 4; 2 client orders with 1 market order, or 1 with 2, among them levels of 2^32 |
| `engine_sessions` | Are orders lost or orphaned, is the cap kept? | 2 sessions, 2 tokens for 1 book, freed nodes overwritten, feed or no feed |
| `delivery_threads` | Do frames stay whole, is anything lost, is a socket shut too early? | 1 session, 1 order and 2 feeds, calls until reference 4 is given out; or 2 sessions with an order each, filled by 1 feed at a time |
| `delivery_live` | Is every event dispatched, does every broken session end? | 2 sessions, 1 feed; one client stops reading, the other inquires, sends garbage or breaks off |
| `gateway_faults` | Is a key used twice, is a ticket left behind, does a handshake hang, who gets in? | 3 clients, 2 behind one address, 3 keys; either the lone one meets bad requests, resets and a silent neighbour, or lost responses and abandoned tickets, or leaves and is cut off; or one neighbour is cut off and the other's connections are reset |
| `replay` | Is the merge right, are pacing and limits? | 2 files with every tie of time, stream and number; 3 with broken or undeliverable records; 2 looped up to 4 records |
| `lifecycle` | Does `stop()` leave nothing behind and return, and whom may it wait for? Are new clients let in meanwhile? | 2 clients, 1 stream, 2 starts |
| `ctr_stream` | Can both ends always read each other, and is it CTR mode? | bodies of 1 and 3 bytes, blocks of 2, a counter of 3 values started at the last |
| `startup` | Is the app what the file says? What does a failed start leave? | files of up to 7 lines of every kind, 3 token files, ports of 2 bits, 3 starts |
| `filled_update` | violated | see findings |
| `delivery_inquiry` | violated | see findings |

Why the bounds are enough: sharing a top needs two orders and a top smaller than both;
a level counted wrongly needs two orders at one price and a third that trades with
them; wrapping needs a modulus smaller than two fills; an index entry left behind
needs a later order or call that would find it; mixing frames needs two writers of
one session; one session spoiling another's events needs one reply that names two; a
key stream that is cut wrongly needs a body that ends inside a block and one that spans
two; a leaked socket shows at the second start.
All of these occur. Bounds that stop a run are constants of the modules: `MaxWire`,
`MaxOrders`, `MaxActivity`, `MaxRef`, `MaxRefusals`, `MaxInquiries`, `MaxKeys`,
`MaxTotal`, `MaxStarts`, `MaxBytes`. Three runs (`book_feed`, `engine_matching`,
`delivery_threads`) have a constraint `Small` on top, in their MC module, that joins two
small instances in one run.

Symmetry is used for market order ids (`book_feed`, `engine_matching`), sessions
(`engine_sessions`) and feeds (`delivery_threads`): their specifications only compare these
values, and the runs check no liveness. The view `ButReply` leaves out the engine's last
reply, which no action reads: states that differ in nothing else are one, and what
properties say of a reply is checked on the step that makes it.

Each property was also checked against a bug in the code it is about, planted in one
definition: the mutants stand next to the definitions they replace. The type invariants of
`SessionDelivery`, `Gateway`, `Lifecycle` and `Replay` are proved and not run.

### Fairness

- `SessionDelivery`: threads go on with what they dispatch (weak). A session's
  read fails in the end once its socket is reset (strong, since requests
  still buffered are answered first). Clients need not ask, send, read or leave: a full
  socket may stay full, and `Dispatched` and `Released` say whom that holds up.
- `Gateway`: the gateway, the listener and the sessions go on (weak), and so does a client
  that has been given a ticket or has connected. A client need not ask, and one that has
  fallen silent in the gateway need not ever hang up: `SignedOn` excludes those that ask
  behind it, `HoldersGetIn` and `HandshakeEnds` exclude nobody.
- `Lifecycle`: threads and `stop()` go on when they can (weak); a connection waiting at
  the listener is accepted in the end although others come (strong: the kernel's backlog is
  first in, first out). Nobody has to leave its session, or to read what it is sent: a stream's
  thread may stay in `send()` for ever (253), also when the session it sends to is over. `StopReturns` excludes
  exactly that, a client that stays with the gateway and one that stays in its session.
- `Replay`: one thread that goes on.

### Findings

1. `filled_update`: a filled order is forgotten at once, and later updates of it are
   refused as of an unknown order. `README.md:86` promises error 20042 and
   `tests/test_main.cpp:848-851, 884-891` requires that and a confirmed cancellation.
2. `delivery_inquiry`: answers to inquiries (1278-1292) are sent without the write mutex that fills are
   sent under. Numbers, key stream and bytes of two frames can mix, and the client's
   digest check fails.

Four more things the models show that contradict no sentence of the repository:

- A ticket whose response was lost, which a client never used, or whose connection was reset
  before the listener accepted it (187-188, 1722-1726) waits for the same
  address's next connection (1688, 333-343), which then signs on with another key and is
  closed. `NoneLeftBehind` says that only these tickets stay, and `Readable` that all other
  clients with an address to themselves are not affected.
- Two clients behind one address can likewise be given each other's tickets.
  `KeyUsedOnce` and `HandshakeEnds` hold for them as well; `Readable` and `SignedOn` are
  stated for clients with an address of their own.
- `stop()` never returns while a client that is sent a fill does not read, even if that
  client's session is over already: the stream's thread holds the last reference and waits in `send()`
  (253, 1591-1595).
- A `start()` that throws half way leaves its sockets open (1536-1552). With a fixed
  listener port no later call of the same object gets through; with port 0 for both listeners
  one does, and then `market_data_fds_` holds every stream twice: two threads apply the
  same datagrams. `StreamsServed` and `NothingLeaked` say exactly when this is so. `main()`
  gives up after one call, so the program itself does not get there.

## The proofs

All theorems hold for every value of the constants the named assumptions allow, so for any
number of sessions, clients, orders, messages and files.

**The book and its feed** (`BookFeedProofs`, whose names begin with `Feed` where the engine's
proofs, which use the lemmas on books and sums, have their own). Every handler keeps a book a book
(`HandlersKeepBook`). `FeedSound` is what any datagram leaves a book: no level shows more
quantity or orders than the known orders at its price add up to, so `NeverOverstates` holds on any network. On a good network `BookFollowsFeed` needs an
equation about all that is under way: `CaughtUp`, the book after every datagram in flight, is
`BookOfOrders` of the exchange's orders. `CaughtUp` is a recursive function over the
datagrams; `Trail` lists its intermediate books, is shown to be unique, and lets a datagram be added
behind (`CaughtUpAppend`) or taken off the front (`CaughtUpTail`) without an induction over
sequences. One lemma per datagram (`NewExact`, `ModifyExact`, `CancelExact`, `TradeExact`) says
that the book does exactly what the exchange did.

Sums over sets, which levels and trades are, are defined by a fold. `SumSplit`, `SumTakeOut`,
`SumAgree` and `SumRenamed` give what these proofs, the engine's and the sessions' use: a counterexample
has a least one by cardinality, and a set less one element is smaller.

**The engine** (`MatchingEngineProofs`). Every behaviour keeps
`TypeOK`, `OrdersIndexed`, `NoOrphans`, `RestingOrdersServed` and `BooksCapped`. The
assumptions say that quantities fit 32 bits, that no price is 0 (the engine refuses
such orders), and that the token file lists tokens.

None of these is inductive alone, so they are proved together as `IInv`:

- `NoOrphans` needs `OrdersIndexed`: a close drops the orders it finds in the index, and
  leaves none if all are there.
- `OrdersIndexed` needs `RestingOrdersServed` and the types: a fill keeps entries
  right because it removes exactly the orders with nothing left, and what is left is
  computed from a volume and a quantity that are in range. Numbers left in an index by a read of freed
  memory do no harm since they are never given out again (`Numbers`).
- `RestingOrdersServed` needs `BooksCapped`'s neighbour, that books are never removed.
- `BooksCapped` needs the set of books to be finite, so that adding one adds one.

`StateOK` is `TypeOK` without the configuration's choice. The lemmas go along the code: arithmetic
(`ApplyFillType`), the tables (`StoreKeepsIndexes`), a stored order that is filled
(`FillStoredKeeps`), then one lemma per action, `RequestKeeps`, `CloseKeeps`,
`MarketMessageKeeps`, and `NextIInv`. `Disassemble` and `Assemble` turn `IInv` into facts
about the tables and back.

What a step does is proved from the invariants before it (`NextFair`, with one lemma per action):
`TopSharedOnce`, `NoneLeftBehind` and `AcceptedInFull`, over all orders at once. The argument is
`SharedOut`: at each place in the line, what `Leftovers` leaves and what the orders before took
add up to the top, so that all together take no more, and whoever is left crossing has met an
empty top. A round of fills is put into one form, `Round`, which names what each order takes and
the place of its trade in the reply. The orders in the line must be of the token whose book
has changed, which needs `Own` below, for tokens.

**The refinement** (`MatchingEngineProofs`). `EngineKeepsLife` proves `Spec => LifeKept`: every
step of the engine is, under the mapping of `EngineLife`, a step of `OrderLife` or a stutter.
It rests on `IInv`, which gives fills between nothing and what is left and makes the
`expired()` branch of a book update empty, and on one more invariant, `Own`: the orders a
session's index finds are its own, and those a token's index finds are of that token, although
erased numbers may stay in either. Without it a close could drop another session's order. `Passes`, `Drops`, `Cancels`, `Modifies`,
`Accepts` and `Matches` restate the actions of `OrderLife` in the engine's words; then there
is one lemma per action of the engine.

**Sessions** (`SessionDeliveryProofs`). `IInv` says who holds a write mutex (`Mutex`: whoever is
between lock and return of `dispatchEvent`, nobody else), how long a connection lives
(`Lifetimes`: its socket is shut only when neither `run()` nor a feed refers to it, and its orders
are gone then), and what has been written (`Wires`: numbers and positions are those of the
frames sent, with at most one frame half written). From it follow `TypeOK`,
`NothingBehindShut`, and `WholeFrames` for sessions whose clients do not inquire
(`FramesWhole`). That condition is exactly what `delivery_inquiry` violates.

`ClientAgrees` looks only at a moment when nothing is under way, which no step leads to by
itself. `Informed`, its invariant, speaks of every moment: for each open session, what its client has heard
together with what is coming to it, in a frame or in a thread's hands (`Told`), makes a client
that sorts by reference right about every order (`Right`). A thread that sends, or gives up an event
of a broken session, moves an event from coming to heard or loses one of a session that is not
open, which needs `Attentive`: a thread with a frame holds the event it sends. A call of the
engine adds events and changes what is open by as much (`Word`, `Carries`). Events of
several references may be added to a client's knowledge in any order since references only grow.

**The gateway** (`GatewayProofs`). `KeyUsedOnce` needs that keys grow; `Readable` and
`NoneLeftBehind` need to know which ticket a connection will be given. `Matched` says it: for
a client alone at its address that has lost and abandoned nothing and had no connection reset
unaccepted (`Clean`), none of its connections in the backlog is reset (`NoneReset`), and the tickets of that address
are as many as its waiting connections, plus the one in its hand or in the gateway, and the
last ticket is the key it was given last. The lemmas count what a claim and an accept take
from the front. `AddressAssumption` says that no client comes from `NoAddress`, so that what is
issued to and claimed by connections without an address is never another's.

**The life cycle** (`LifecycleProofs`). `Owned`, `Joined` and `Closed` say, for every
statement of `stop()`, which threads may still run, which have been joined and which sockets are closed, and
`SocketsHeld` that a session's socket is open only while its worker runs or a stream's thread sends to it;
`NothingLeft` and `ContextInUse` are what they say at its end and at `cleanup()`.

**Configuration and start** (`StartupProofs`): `TypeOK`, `FileObeyed`, `StreamsServed` and
`NothingLeaked`. `FileRead` is `FileObeyed` for the lines read so far. `Counted` bounds the TLS contexts by the failed calls and
the current one. For sockets there are three parts:

- `StreamsOpened`: the current call has opened its streams in order.
- `PortsTaken`: a stream's socket left behind means that both listeners of its call still hold
  their ports, if fixed. So a call that gets past its listeners finds no such stream, and the
  streams that are open are its own; this is why no datagram is applied twice.
- `Leftovers`: all but what the current call has opened was left by failed calls, two listeners and
  a socket per stream for each.

`StartupAssumption` says what the parser can meet: lines in a sequence, and numbers, or texts that
are none, where a key wants a number.

**The cipher** (`CtrStreamProofs`). For each direction: what is on the wire is CTR mode
(`WireOK`), the writer stands where the wire ends (`WriterOK`), the reader where the
last body it has heard ends (`ReaderOK`). The lemmas on division say that block and offset
are the quotient and rest of the position, the wrap of the counter included.

**The replay tool** (`ReplayProofs`). What has been sent is a prefix of every file in that
file's order, at most one record of each is in the queue, and all that is yet to come is
after what was sent, if files run forward in time. From this follow `LimitKept`,
`FileOrderKept`, `MergedInOrder` and `PacedForward`. `ReplayAssumption` says that times fit
64 bits.

Only model-checked: everything under fairness (`Dispatched`, `Released`, `SignedOn`,
`HandshakeEnds`, `HoldersGetIn`, `StopReturns`, `ListenerFree`, `Finishes`), which is out of the prover's
reach. Every safety property the passing runs check is a theorem.

## What is not modelled

- AES, MD5 and TLS themselves (OpenSSL), and the wire structures: they have no state that
  several steps share.
- The characters of a configuration file: a line is a key and a value, or none.
- What a response says beyond type, order, session, volumes, price and reference.
- The command lines, the choice of replay files by name, the interface address of a
  multicast socket (`interface_ip`), and `src/replay_main.cpp`.
- `src/simulator.cpp`: not compiled.

Four hazards are in the models but no property forbids them, since no sentence of the repository
does: a level of 2^32 shows as empty (471), a replayed file that runs backwards makes the wait wrap (`replay.cpp:617`),
threads spin on descriptors of -1 after a restart (1555), and settings are cut to their width
(`config.cpp:80`). 
A write may fail at any time, so `OrderLife` lets a session's orders be dropped at any time. `LifeKept` does
not say that the session was closed; that none of its orders stay once it has ended is `NoOrphans`.

## Plan

The modules above cover what the program keeps state for. What could still be added:

1. `OrderLife` on its own: that a client which follows the events of any engine that implements it
   can tell what is open, which `ClientAgrees` uses inside the proof about sessions.
2. The assumptions of `MatchingEngine` on its constants from what the parser accepts
   (`FileObeyed`), and `Lifecycle`'s `Start` and `FailToStart` from `Startup`'s steps.
3. Lemmas that carry liveness so far: that `StopReturns` can only be held up by a client is an
   invariant about who waits for whom.
