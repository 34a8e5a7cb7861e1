------------------------------- MODULE Startup -------------------------------
(***************************************************************************)
(* From a configuration file to a running app: Config::loadFromFile line   *)
(* by line, the engine's token file, and start() statement by statement,   *)
(* any of which may fail.  The owner is main(), which gives up then, or a  *)
(* caller of SimulatorApp, who may call start() and stop() again.          *)
(***************************************************************************)
EXTENDS Naturals, Sequences, SequencesExt

CONSTANTS
    Files,          \* configurations: sequences of lines
    TokenFiles,     \* what the token file may be: "good", "missing" or "bad", with a line
                    \* that is no number
    U16, U32, U8,   \* moduli: 2^16, 2^32, 2^8
    NaN,            \* a text std::stoul throws on
    MaxStarts       \* bound: calls of start()

\* Keys, as in struct Config.
Numbers == {"gr_tls_port", "session_port", "box_id", "default_stream_no",
            "exchange_order_number_start", "fill_number_start", "fill_delay_us",
            "max_book_contracts"}
Strings == {"listen_host", "tls_cert_pem", "tls_key_pem", "token_filter_file"}

\* A line is "blank" (or a comment), "junk" without an equals sign, or a key with its
\* value, which for market_data_stream has a host, a port and perhaps no colon.
Line(key, value) == [key |-> key, value |-> value]

\* The parser of a file meets texts, which it takes as they are, and numbers.
ASSUME StartupAssumption ==
    /\ {U16, U32, U8} \subseteq Nat \ {0} /\ NaN \notin Nat /\ MaxStarts \in Nat
    /\ \A f \in Files :
        /\ f \in Seq(Range(f))
        /\ \A i \in DOMAIN f :
            /\ f[i].key \in Numbers => f[i].value \in Nat \cup {NaN}
            /\ f[i].key = "market_data_stream" => f[i].value.port \in Nat \cup {NaN}

VARIABLES
    file, token_file,   \* what the program finds
    line,           \* the next line
    config,
    stage,          \* how far the owner is
    ctx,            \* gateway_ssl_ctx_ is set
    contexts,       \* TLS contexts allocated
    gateway_listen_fd, session_listen_fd, market_data_fds,
    sockets,        \* open descriptors, with the port each is bound to; 0: any
    next_fd,
    starts, failed  \* calls of start(), and how many threw

reading == <<file, token_file, line, config>>
fds == <<gateway_listen_fd, session_listen_fd, market_data_fds>>
kernel == <<contexts, sockets, next_fd>>
vars == <<reading, stage, ctx, fds, kernel, starts, failed>>

\* config.h:14-28.
Defaults ==
    [gr_tls_port |-> 24443, session_port |-> 25000, box_id |-> 1, default_stream_no |-> 1,
     exchange_order_number_start |-> 1000000, fill_number_start |-> 1, fill_delay_us |-> 0,
     max_book_contracts |-> 1024, listen_host |-> "127.0.0.1", tls_cert_pem |-> "",
     tls_key_pem |-> "", token_filter_file |-> "", market_data_streams |-> <<>>]

Init ==
    /\ file \in Files /\ token_file \in TokenFiles
    /\ line = 1 /\ config = Defaults
    /\ stage = "reading"
    /\ ctx = FALSE /\ contexts = 0
    /\ gateway_listen_fd = 0 /\ session_listen_fd = 0 /\ market_data_fds = <<>>
    /\ sockets = {} /\ next_fd = 1
    /\ starts = 0 /\ failed = 0

-----------------------------------------------------------------------------
(* Config::loadFromFile.                                                   *)

\* Mutant of Cast: numbers are stored as they are read.
CastUncut(key, value) == value

\* The casts cut what std::stoul returns to the width of the field.
Cast(key, value) ==
    CASE key \in {"gr_tls_port", "session_port", "box_id"} -> value % U16
      [] key = "default_stream_no" -> value % U8
      [] key = "fill_number_start" -> value % U32
      [] OTHER -> value

\* parseMarketDataEndpoint goes through.
GoodStream(value) ==
    /\ value.colon /\ value.host # ""
    /\ value.port # NaN /\ value.port % U16 # 0

Good(l) ==
    \/ l.key = "blank" \/ l.key \in Strings
    \/ l.key \in Numbers /\ l.value # NaN
    \/ l.key = "market_data_stream" /\ GoodStream(l.value)

Endpoint(value) == [host |-> value.host, port |-> value.port % U16]

\* Mutant of Assign: a stream takes the place of the one before.
AssignOver(l) ==
    CASE l.key = "blank" -> config
      [] l.key \in Strings -> [config EXCEPT ![l.key] = l.value]
      [] l.key \in Numbers -> [config EXCEPT ![l.key] = Cast(l.key, l.value)]
      [] OTHER -> [config EXCEPT !.market_data_streams = <<Endpoint(l.value)>>]

Assign(l) ==
    CASE l.key = "blank" -> config
      [] l.key \in Strings -> [config EXCEPT ![l.key] = l.value]
      [] l.key \in Numbers -> [config EXCEPT ![l.key] = Cast(l.key, l.value)]
      [] OTHER -> [config EXCEPT !.market_data_streams = Append(@, Endpoint(l.value))]

ReadLine ==
    /\ stage = "reading" /\ line <= Len(file)
    /\ IF Good(file[line])
       THEN /\ config' = Assign(file[line]) /\ line' = line + 1
            /\ UNCHANGED stage
       ELSE /\ stage' = "rejected"
            /\ UNCHANGED <<config, line>>
    /\ UNCHANGED <<file, token_file, ctx, fds, kernel, starts, failed>>

Complete ==
    /\ config.tls_cert_pem # "" /\ config.tls_key_pem # ""
    /\ config.market_data_streams # <<>> =>
        config.token_filter_file # "" /\ config.max_book_contracts > 0

EndOfFile ==
    /\ stage = "reading" /\ line > Len(file)
    /\ stage' = IF Complete THEN "loaded" ELSE "rejected"
    /\ UNCHANGED <<reading, ctx, fds, kernel, starts, failed>>

\* The engine is constructed, which reads the token file.
Construct ==
    /\ stage = "loaded"
    /\ stage' = IF config.token_filter_file # "" /\ token_file \in {"missing", "bad"}
                THEN "rejected" ELSE "down"
    /\ UNCHANGED <<reading, ctx, fds, kernel, starts, failed>>

-----------------------------------------------------------------------------
(* SimulatorApp: start(), stop() and the destructor.                       *)

BeginStart ==
    /\ stage = "down" /\ starts < MaxStarts
    /\ starts' = starts + 1
    /\ stage' = "tls"
    /\ UNCHANGED <<reading, ctx, fds, kernel, failed>>

\* SSL_CTX_new fails, or the certificate or the key is refused.  What an earlier call
\* has left in gateway_ssl_ctx_ is overwritten.
TlsFails ==
    /\ stage = "tls"
    /\ \/ ctx' = FALSE /\ UNCHANGED contexts
       \/ ctx' = TRUE /\ contexts' = contexts + 1
    /\ stage' = "down" /\ failed' = failed + 1
    /\ UNCHANGED <<reading, fds, sockets, next_fd, starts>>

InitializeTls ==
    /\ stage = "tls"
    /\ ctx' = TRUE /\ contexts' = contexts + 1
    /\ stage' = "gateway"
    /\ UNCHANGED <<reading, fds, sockets, next_fd, starts, failed>>

\* Mutant of Free: sockets share a port, as with SO_REUSEPORT.
FreeShared(port) == TRUE

\* Listeners have a TCP port to themselves: SO_REUSEADDR does not let two share one.
Free(port) == port = 0 \/ \A s \in sockets : s.kind = "tcp" => s.port # port

NewSocket(kind, port) ==
    /\ sockets' = sockets \cup {[fd |-> next_fd, kind |-> kind, port |-> port]}
    /\ next_fd' = next_fd + 1

ListenGateway ==
    /\ stage = "gateway" /\ Free(config.gr_tls_port)
    /\ NewSocket("tcp", config.gr_tls_port)
    /\ gateway_listen_fd' = next_fd
    /\ stage' = "session"
    /\ UNCHANGED <<reading, ctx, contexts, session_listen_fd, market_data_fds, starts, failed>>

ListenSession ==
    /\ stage = "session" /\ Free(config.session_port)
    /\ NewSocket("tcp", config.session_port)
    /\ session_listen_fd' = next_fd
    /\ stage' = "streams"
    /\ UNCHANGED <<reading, ctx, contexts, gateway_listen_fd, market_data_fds, starts, failed>>

\* The stream start() is at: those of earlier calls are still in market_data_fds_.
NextStream == 1 + Cardinality({s \in sockets : s.kind = "udp" /\ s.start = starts})

\* A listener's or a stream's socket cannot be made, whatever the reason: the host's
\* address, the port, the multicast group.  Everything made so far stays.
SocketFails ==
    /\ stage \in {"gateway", "session", "streams"}
    /\ stage = "streams" => NextStream <= Len(config.market_data_streams)
    /\ stage' = "down" /\ failed' = failed + 1
    /\ UNCHANGED <<reading, ctx, fds, kernel, starts>>

OpenStream ==
    /\ stage = "streams" /\ NextStream <= Len(config.market_data_streams)
    /\ sockets' = sockets \cup {[fd |-> next_fd, kind |-> "udp", start |-> starts,
                                 port |-> config.market_data_streams[NextStream].port]}
    /\ next_fd' = next_fd + 1
    /\ market_data_fds' = Append(market_data_fds, next_fd)
    /\ UNCHANGED <<reading, stage, ctx, contexts, gateway_listen_fd, session_listen_fd,
                   starts, failed>>

\* running_ is set and the threads run.
Run ==
    /\ stage = "streams" /\ NextStream > Len(config.market_data_streams)
    /\ stage' = "up"
    /\ UNCHANGED <<reading, ctx, fds, kernel, starts, failed>>

Cleanup ==
    /\ ctx' = FALSE
    /\ contexts' = IF ctx THEN contexts - 1 ELSE contexts

Closed(numbers) == {s \in sockets : s.fd \notin numbers}

\* Mutant of Stop: the streams are left to the destructor.
StopListenersOnly ==
    /\ stage = "up"
    /\ sockets' = Closed({gateway_listen_fd, session_listen_fd})
    /\ gateway_listen_fd' = 0 /\ session_listen_fd' = 0
    /\ Cleanup
    /\ stage' = "down"
    /\ UNCHANGED <<reading, market_data_fds, next_fd, starts, failed>>

\* Descriptors of -1, 0 here, stay in market_data_fds_.
Stop ==
    /\ stage = "up"
    /\ sockets' = Closed({gateway_listen_fd, session_listen_fd} \cup Range(market_data_fds))
    /\ gateway_listen_fd' = 0 /\ session_listen_fd' = 0
    /\ market_data_fds' = [i \in DOMAIN market_data_fds |-> 0]
    /\ Cleanup
    /\ stage' = "down"
    /\ UNCHANGED <<reading, next_fd, starts, failed>>

\* The destructor calls stop(), which only cleans up if the app does not run.
Destroy ==
    /\ stage = "down"
    /\ Cleanup
    /\ stage' = "destroyed"
    /\ UNCHANGED <<reading, fds, sockets, next_fd, starts, failed>>

Next ==
    \/ ReadLine \/ EndOfFile \/ Construct
    \/ BeginStart \/ InitializeTls \/ TlsFails \/ ListenGateway \/ ListenSession \/ OpenStream
    \/ SocketFails \/ Run \/ Stop \/ Destroy

Spec == Init /\ [][Next]_vars

-----------------------------------------------------------------------------
(* Properties.                                                             *)

TypeOK ==
    /\ line \in 1 .. Len(file) + 1
    /\ DOMAIN config = DOMAIN Defaults
    /\ config.gr_tls_port \in 0 .. U16 - 1 \/ config.gr_tls_port = Defaults.gr_tls_port
    /\ \A i \in DOMAIN config.market_data_streams :
        config.market_data_streams[i].port \in 1 .. U16 - 1
    /\ ctx \in BOOLEAN /\ contexts \in 0 .. starts
    /\ \A s \in sockets : s.fd \in 1 .. next_fd - 1
    /\ gateway_listen_fd \in 0 .. next_fd - 1 /\ session_listen_fd \in 0 .. next_fd - 1
    /\ failed \in 0 .. starts

Given(key) == {i \in DOMAIN file : file[i].key = key}

\* What the file says of a key: its last line counts.
Said(key) ==
    IF Given(key) = {} THEN Defaults[key] ELSE Cast(key, file[Max(Given(key))].value)

\* `streams` are the endpoints of the file's stream lines in their order.
Listed(streams) ==
    LET lines == Given("market_data_stream")
    IN  /\ Len(streams) = Cardinality(lines)
        /\ \E at \in [DOMAIN streams -> lines] :
            /\ \A i, j \in DOMAIN at : i < j => at[i] < at[j]
            /\ \A i \in DOMAIN at : streams[i] = Endpoint(file[at[i]].value)

\* An app is made from the whole file, the last line of every key and all streams in
\* their order, or, for one bad line anywhere or one thing missing, not at all
\* (config.cpp:57-121, runtime.cpp:786-808).
FileObeyed ==
    LET sound == \A i \in DOMAIN file : Good(file[i])
        complete ==
            /\ Said("tls_cert_pem") # "" /\ Said("tls_key_pem") # ""
            /\ Given("market_data_stream") # {} =>
                Said("token_filter_file") # "" /\ Said("max_book_contracts") # 0
            /\ Said("token_filter_file") # "" => token_file \notin {"missing", "bad"}
    IN  /\ stage = "rejected" => ~sound \/ ~complete
        /\ stage \notin {"reading", "loaded", "rejected"} =>
            /\ sound /\ complete
            /\ Listed(config.market_data_streams)
            /\ \A key \in Numbers \cup Strings : config[key] = Said(key)

Udp == {s \in sockets : s.kind = "udp"}

\* While the app runs every configured stream has a socket that a thread reads, and, if a
\* listener's port is fixed, one only, so that no datagram is applied twice, however
\* many calls of start() have failed or were stopped before (1550-1552, 1555, 1578-1583):
\* the socket a failed call leaves listening lets no later one through.
StreamsServed ==
    stage = "up" =>
        /\ \A i \in DOMAIN config.market_data_streams : \E s \in Udp :
                s.port = config.market_data_streams[i].port /\ s.fd \in Range(market_data_fds)
        /\ config.gr_tls_port # 0 \/ config.session_port # 0 =>
                Cardinality(Udp) = Len(config.market_data_streams)

\* An app that has been stopped keeps nothing open and no TLS context, but for what calls
\* of start() that threw have left: each a listener of either kind, a socket per stream and
\* a context at most.  When main() gives up after its one call, the context goes too
\* (1536-1552, 1567-1583, 1617-1622).
NothingLeaked ==
    stage \in {"down", "destroyed"} =>
        /\ Cardinality(sockets) <= failed * (2 + Len(config.market_data_streams))
        /\ contexts <= failed
        /\ stage = "destroyed" /\ starts <= 1 => contexts = 0

=============================================================================
