------------------------------ MODULE CtrStream ------------------------------
(***************************************************************************)
(* The cipher of a session: CtrCryptoStream, byte by byte, in the four     *)
(* streams of a connection, two at each end.  Every stream counts blocks   *)
(* and bytes on its own and goes on where the last message ended; the two  *)
(* ends turn their ciphers on after the first message each way.  AES is    *)
(* ideal: a key byte is named by its block and its place in it.            *)
(***************************************************************************)
EXTENDS Integers, Sequences

CONSTANTS
    BlockSize,      \* 16
    CounterMod,     \* 2^32
    FirstCounter,   \* 2
    Sizes,          \* of bodies
    MaxBytes,       \* bound: key bytes an end takes before it sends no more
    None, Plain, Garbled

ASSUME CtrAssumption ==
    /\ BlockSize \in Nat \ {0} /\ CounterMod \in Nat \ {0}
    /\ FirstCounter \in 0 .. CounterMod - 1
    /\ Sizes \subseteq Nat \ {0}
    /\ MaxBytes \in Nat

KeyBytes == (0 .. CounterMod - 1) \X (0 .. BlockSize - 1)

\* A byte in a message: as it was, under a key byte, or under more than one.
Bytes == KeyBytes \cup {Plain, Garbled}

\* Bodies at their ends, and on their way.
Writings == [bytes : Seq(Bytes), done : Nat, first : Nat]
Readings == [bytes : Seq(Bytes), done : Nat]
Messages == [bytes : Seq(Bytes), first : Nat]

ASSUME ByteAssumption ==
    /\ Plain \notin KeyBytes /\ Garbled \notin KeyBytes /\ Plain # Garbled
    /\ None \notin Writings /\ None \notin Readings

VARIABLES
    inbound, outbound,  \* the streams of an end; None before initialize
    encryption_enabled,
    writing,        \* the body an end has in sendPayload, or None
    reading,        \* the body it has in run, or None
    wire,           \* all an end has sent: bodies, with the number of key bytes
                    \* taken before, which is no part of them
    heard           \* how many of its peer's bodies an end has taken in

vars == <<inbound, outbound, encryption_enabled, writing, reading, wire, heard>>

Ends == {"client", "server"}
Peer(e) == IF e = "client" THEN "server" ELSE "client"

-----------------------------------------------------------------------------
(* CtrCryptoStream.                                                        *)

\* `refills` counts blocks and is no state of the program.
Initialized ==
    [counter |-> FirstCounter, block |-> 0, offset |-> BlockSize, refills |-> 0]

\* Mutant of Refill: the counter goes up before the block is made.
RefillFirst(s) ==
    [counter |-> (s.counter + 1) % CounterMod, block |-> (s.counter + 1) % CounterMod,
     offset |-> 0, refills |-> s.refills + 1]

Refill(s) ==
    [counter |-> (s.counter + 1) % CounterMod, block |-> s.counter,
     offset |-> 0, refills |-> s.refills + 1]

\* Mutant of Filled: a block is used one byte too far.
FilledLate(s) == IF s.offset > BlockSize THEN Refill(s) ELSE s

Filled(s) == IF s.offset = BlockSize THEN Refill(s) ELSE s

KeyByte(s) == <<Filled(s).block, Filled(s).offset>>
Advance(s) == [Filled(s) EXCEPT !.offset = @ + 1]

\* Key bytes taken from s so far.
Taken(s) == s.refills * BlockSize + s.offset - BlockSize

Xor(byte, key) == IF byte = Plain THEN key ELSE IF byte = key THEN Plain ELSE Garbled

\* xorData, one turn of its loop.
XorNext(body, s) ==
    LET at == body.done + 1
        byte == Xor(body.bytes[at], KeyByte(s))
    IN  [body EXCEPT !.bytes = [body.bytes EXCEPT ![at] = byte], !.done = at]

-----------------------------------------------------------------------------
Init ==
    /\ inbound = [e \in Ends |-> None] /\ outbound = [e \in Ends |-> None]
    /\ encryption_enabled = [e \in Ends |-> FALSE]
    /\ writing = [e \in Ends |-> None] /\ reading = [e \in Ends |-> None]
    /\ wire = [e \in Ends |-> <<>>]
    /\ heard = [e \in Ends |-> 0]

Finished(e, body) == encryption_enabled[e] => body.done = Len(body.bytes)

\* sendPayload begins: the client's registration, the server's answer to it, and
\* after the switch anything at any time.
Begin(e) ==
    /\ writing[e] = None
    /\ \/ /\ encryption_enabled[e]
          /\ Taken(outbound[e]) < MaxBytes
       \/ /\ ~encryption_enabled[e] /\ wire[e] = <<>>
          /\ e = "server" => heard[e] = 1
    /\ \E size \in Sizes :
        writing' = [writing EXCEPT ![e] =
            [bytes |-> [i \in 1 .. size |-> Plain], done |-> 0,
             first |-> IF encryption_enabled[e] THEN Taken(outbound[e]) ELSE 0]]
    /\ UNCHANGED <<inbound, outbound, encryption_enabled, reading, wire, heard>>

Encrypt(e) ==
    /\ writing[e] # None /\ ~Finished(e, writing[e])
    /\ writing' = [writing EXCEPT ![e] = XorNext(@, outbound[e])]
    /\ outbound' = [outbound EXCEPT ![e] = Advance(@)]
    /\ UNCHANGED <<inbound, encryption_enabled, reading, wire, heard>>

Send(e) ==
    /\ writing[e] # None /\ Finished(e, writing[e])
    /\ wire' = [wire EXCEPT ![e] =
            Append(@, [bytes |-> writing[e].bytes, first |-> writing[e].first])]
    /\ writing' = [writing EXCEPT ![e] = None]
    /\ UNCHANGED <<inbound, outbound, encryption_enabled, reading, heard>>

\* Mutant of MaySwitch: the server turns its cipher on before it answers.
MaySwitchEarly(e) == heard[e] = 1

\* The server's answer is written, or the client has read it.
MaySwitch(e) == heard[e] = 1 /\ (e = "server" => Len(wire[e]) = 1)

Switch(e) ==
    /\ ~encryption_enabled[e] /\ MaySwitch(e)
    /\ writing[e] = None
    /\ inbound' = [inbound EXCEPT ![e] = Initialized]
    /\ outbound' = [outbound EXCEPT ![e] = Initialized]
    /\ encryption_enabled' = [encryption_enabled EXCEPT ![e] = TRUE]
    /\ UNCHANGED <<writing, reading, wire, heard>>

\* run() reads a header and its body.
Read(e) ==
    /\ reading[e] = None
    /\ heard[e] = 0 \/ encryption_enabled[e]
    /\ heard[e] < Len(wire[Peer(e)])
    /\ reading' = [reading EXCEPT ![e] =
            [bytes |-> wire[Peer(e)][heard[e] + 1].bytes, done |-> 0]]
    /\ UNCHANGED <<inbound, outbound, encryption_enabled, writing, wire, heard>>

Decrypt(e) ==
    /\ reading[e] # None /\ ~Finished(e, reading[e])
    /\ reading' = [reading EXCEPT ![e] = XorNext(@, inbound[e])]
    /\ inbound' = [inbound EXCEPT ![e] = Advance(@)]
    /\ UNCHANGED <<outbound, encryption_enabled, writing, wire, heard>>

Clear(body) == \A i \in DOMAIN body.bytes : body.bytes[i] = Plain

\* The digest is that of what was sent.  Otherwise the session would end.
Hear(e) ==
    /\ reading[e] # None /\ Finished(e, reading[e]) /\ Clear(reading[e])
    /\ heard' = [heard EXCEPT ![e] = @ + 1]
    /\ reading' = [reading EXCEPT ![e] = None]
    /\ UNCHANGED <<inbound, outbound, encryption_enabled, writing, wire>>

End(e) == Begin(e) \/ Encrypt(e) \/ Send(e) \/ Switch(e) \/ Read(e) \/ Decrypt(e) \/ Hear(e)

Next == \E e \in Ends : End(e)

Spec == Init /\ [][Next]_vars

-----------------------------------------------------------------------------
(* Properties.                                                             *)

Streams ==
    [counter : 0 .. CounterMod - 1, block : 0 .. CounterMod - 1,
     offset : 0 .. BlockSize, refills : Nat]

TypeOK ==
    /\ inbound \in [Ends -> Streams \cup {None}]
    /\ outbound \in [Ends -> Streams \cup {None}]
    /\ encryption_enabled \in [Ends -> BOOLEAN]
    /\ writing \in [Ends -> Writings \cup {None}]
    /\ reading \in [Ends -> Readings \cup {None}]
    /\ wire \in [Ends -> Seq(Messages)]
    /\ heard \in [Ends -> Nat]

\* Both ends can always read each other: once a body is decrypted it is what was
\* sent, however the messages cut the key stream, wherever a block ends or the
\* counter wraps, and whoever turned the cipher on first
\* (crypto.cpp:33-74, runtime.cpp:1172-1177, 1220-1246).
Readable ==
    \A e \in Ends : reading[e] # None /\ Finished(e, reading[e]) => Clear(reading[e])

\* What goes over the wire after the first message is CTR mode by the book: the nth
\* byte of a direction is under byte n % 16 of block 2 + n / 16, whatever messages it was
\* sent in (crypto.cpp:38-46, 48-61).
ByTheBook ==
    \A e \in Ends : \A i \in 2 .. Len(wire[e]) :
        \A j \in DOMAIN wire[e][i].bytes :
            LET n == wire[e][i].first + j - 1
            IN  wire[e][i].bytes[j] =
                    <<(FirstCounter + n \div BlockSize) % CounterMod, n % BlockSize>>

=============================================================================
