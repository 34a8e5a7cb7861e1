--------------------------- MODULE CtrStreamProofs ---------------------------
(***************************************************************************)
(* Both ends of a connection stay in step, for all sizes of blocks,        *)
(* counters and messages.                                                  *)
(***************************************************************************)
EXTENDS CtrStream, SequenceTheorems, TLAPS

-----------------------------------------------------------------------------
(* Arithmetic.                                                             *)

\* Division finds the block and the offset of a position.
LEMMA DivMod ==
    ASSUME NEW B \in Nat \ {0}, NEW m \in Nat, NEW o \in 0 .. B - 1
    PROVE  (m * B + o) \div B = m /\ (m * B + o) % B = o
  OBVIOUS

\* Increment and modulus: the counter's step.
LEMMA ModStep ==
    ASSUME NEW a \in Nat, NEW M \in Nat \ {0}
    PROVE  /\ a % M \in 0 .. M - 1
           /\ ((a % M) + 1) % M = (a + 1) % M
<1>1. PICK q \in Nat, r \in 0 .. M - 1 : a = q * M + r /\ a % M = r
  <2>1. a \div M \in Nat /\ a % M \in 0 .. M - 1
    OBVIOUS
  <2>2. a = (a \div M) * M + (a % M)
    BY SMT
  <2> QED
    BY <2>1, <2>2
<1>2. CASE r + 1 = M
  <2>1. a + 1 = (q + 1) * M + 0 /\ r + 1 = 1 * M + 0
    BY <1>1, <1>2
  <2>2. ((q + 1) * M + 0) % M = 0 /\ (1 * M + 0) % M = 0
    BY DivMod
  <2> QED
    BY <1>1, <2>1, <2>2
<1>3. CASE r + 1 \in 0 .. M - 1
  <2>1. a + 1 = q * M + (r + 1) /\ r + 1 = 0 * M + (r + 1)
    BY <1>1
  <2>2. (q * M + (r + 1)) % M = r + 1 /\ (0 * M + (r + 1)) % M = r + 1
    BY <1>3, DivMod
  <2> QED
    BY <1>1, <2>1, <2>2
<1> QED
  BY <1>1, <1>2, <1>3

LEMMA ProductGrows ==
    ASSUME NEW a \in Nat, NEW b \in Nat, NEW B \in Nat \ {0}, a < b
    PROVE  a * B + B <= b * B
<1>1. PICK c \in Nat : b = a + 1 + c
  <2>1. b - a - 1 \in Nat /\ b = a + 1 + (b - a - 1)
    OBVIOUS
  <2> QED
    BY <2>1
<1>2. b * B = a * B + B + c * B
  BY <1>1
<1>3. c * B \in Nat /\ a * B \in Nat
  BY <1>1
<1> QED
  BY <1>2, <1>3

\* A position has one block and one offset.
LEMMA OneBlock ==
    ASSUME NEW B \in Nat \ {0}, NEW m \in Nat, NEW n \in Nat,
           NEW o \in 0 .. B - 1, NEW p \in 0 .. B - 1, m * B + o = n * B + p
    PROVE  m = n /\ o = p
<1>0. m * B \in Nat /\ n * B \in Nat
  OBVIOUS
<1>1. ~(m < n)
  <2>1. SUFFICES ASSUME m < n PROVE FALSE
    OBVIOUS
  <2>2. m * B + B <= n * B
    BY <2>1, ProductGrows
  <2> QED
    BY <2>2, <1>0
<1>2. ~(n < m)
  <2>1. SUFFICES ASSUME n < m PROVE FALSE
    OBVIOUS
  <2>2. n * B + B <= m * B
    BY <2>1, ProductGrows
  <2> QED
    BY <2>2, <1>0
<1>3. m = n
  BY <1>1, <1>2
<1> QED
  BY <1>3, <1>0

-----------------------------------------------------------------------------
(* One stream.                                                             *)

\* Key byte n of the book.
IsKey(key, n) ==
    \E m \in Nat, o \in 0 .. BlockSize - 1 :
        n = m * BlockSize + o /\ key = <<(FirstCounter + m) % CounterMod, o>>

StreamOK(s) ==
    /\ s \in Streams
    /\ s.counter = (FirstCounter + s.refills) % CounterMod
    /\ s.refills = 0 => s.offset = BlockSize
    /\ s.refills # 0 =>
        s.offset # 0 /\ s.block = (FirstCounter + (s.refills - 1)) % CounterMod

\* One position has one key byte (crypto.cpp:48-61).
LEMMA KeyUnique ==
    ASSUME NEW n, NEW key, NEW other, IsKey(key, n), IsKey(other, n)
    PROVE  key = other
<1>1. PICK m \in Nat, o \in 0 .. BlockSize - 1 :
        n = m * BlockSize + o /\ key = <<(FirstCounter + m) % CounterMod, o>>
  BY DEF IsKey
<1>2. PICK q \in Nat, p \in 0 .. BlockSize - 1 :
        n = q * BlockSize + p /\ other = <<(FirstCounter + q) % CounterMod, p>>
  BY DEF IsKey
<1>3. m = q /\ o = p
  BY <1>1, <1>2, OneBlock, CtrAssumption
<1> QED
  BY <1>1, <1>2, <1>3

LEMMA KeyIsKeyByte ==
    ASSUME NEW n, NEW key, IsKey(key, n)
    PROVE  /\ key \in KeyBytes
           /\ key = <<(FirstCounter + (n \div BlockSize)) % CounterMod, n % BlockSize>>
<1>1. PICK m \in Nat, o \in 0 .. BlockSize - 1 :
        n = m * BlockSize + o /\ key = <<(FirstCounter + m) % CounterMod, o>>
  BY DEF IsKey
<1>2. n \div BlockSize = m /\ n % BlockSize = o
  BY <1>1, DivMod, CtrAssumption
<1>3. (FirstCounter + m) % CounterMod \in 0 .. CounterMod - 1
  BY ModStep, CtrAssumption
<1> QED
  BY <1>1, <1>2, <1>3 DEF KeyBytes

\* A stream gives the key bytes of the book one by one (crypto.cpp:48-73).
LEMMA StreamStep ==
    ASSUME NEW s, StreamOK(s)
    PROVE  /\ StreamOK(Advance(s))
           /\ Taken(s) \in Nat
           /\ Taken(Advance(s)) = Taken(s) + 1
           /\ IsKey(KeyByte(s), Taken(s))
<1> USE CtrAssumption
<1>1. s \in Streams /\ s.refills \in Nat /\ s.offset \in 0 .. BlockSize
  BY DEF StreamOK, Streams
<1>2. CASE s.offset = BlockSize
  <2> DEFINE f == Refill(s)
  <2>1. Filled(s) = f
    BY <1>2 DEF Filled
  <2>2. /\ f.counter = (FirstCounter + (s.refills + 1)) % CounterMod
        /\ f.counter \in 0 .. CounterMod - 1
    <3> DEFINE a == FirstCounter + s.refills
    <3>1. a \in Nat /\ a + 1 \in Nat /\ a + 1 = FirstCounter + (s.refills + 1)
      BY <1>1
    <3>2. f.counter = ((a % CounterMod) + 1) % CounterMod
      BY DEF Refill, StreamOK
    <3> HIDE DEF a, f
    <3>3. ((a % CounterMod) + 1) % CounterMod = (a + 1) % CounterMod
      BY <3>1, ModStep
    <3>4. (a + 1) % CounterMod \in 0 .. CounterMod - 1
      BY <3>1, ModStep
    <3> QED
      BY <3>1, <3>2, <3>3, <3>4
  <2>3. /\ Advance(s) = [counter |-> f.counter, block |-> s.counter, offset |-> 1,
                         refills |-> s.refills + 1]
        /\ KeyByte(s) = <<s.counter, 0>>
    BY <2>1 DEF Advance, KeyByte, Refill
  <2>4. Taken(s) = s.refills * BlockSize + 0
    BY <1>1, <1>2 DEF Taken
  <2>5. Taken(Advance(s)) = Taken(s) + 1
    BY <1>1, <2>3, <2>4 DEF Taken
  <2>6. StreamOK(Advance(s))
    BY <1>1, <2>2, <2>3 DEF StreamOK, Streams
  <2>7. IsKey(KeyByte(s), Taken(s))
    <3>1. KeyByte(s) = <<(FirstCounter + s.refills) % CounterMod, 0>>
      BY <2>3 DEF StreamOK
    <3>2. 0 \in 0 .. BlockSize - 1
      OBVIOUS
    <3> QED
      BY <1>1, <2>4, <3>1, <3>2 DEF IsKey
  <2> QED
    BY <1>1, <2>4, <2>5, <2>6, <2>7
<1>3. CASE s.offset # BlockSize
  <2>1. Filled(s) = s /\ s.refills # 0 /\ s.offset \in 0 .. BlockSize - 1
    BY <1>1, <1>3 DEF Filled, StreamOK
  <2>2. /\ Advance(s) = [counter |-> s.counter, block |-> s.block, offset |-> s.offset + 1,
                         refills |-> s.refills]
        /\ KeyByte(s) = <<s.block, s.offset>>
    BY <2>1, <1>1 DEF Advance, KeyByte, Streams
  <2>3. s.refills - 1 \in Nat /\ Taken(s) = (s.refills - 1) * BlockSize + s.offset
    BY <1>1, <2>1 DEF Taken
  <2>4. Taken(s) \in Nat
    BY <2>1, <2>3
  <2>5. Taken(Advance(s)) = Taken(s) + 1
    BY <1>1, <2>2 DEF Taken
  <2>6. StreamOK(Advance(s))
    BY <1>1, <2>1, <2>2 DEF StreamOK, Streams
  <2>7. IsKey(KeyByte(s), Taken(s))
    BY <2>1, <2>2, <2>3 DEF IsKey, StreamOK
  <2> QED
    BY <2>4, <2>5, <2>6, <2>7
<1> QED
  BY <1>2, <1>3

LEMMA FreshStream == StreamOK(Initialized) /\ Taken(Initialized) = 0
<1>1. FirstCounter % CounterMod = FirstCounter
  BY CtrAssumption, DivMod
<1> QED
  BY <1>1, CtrAssumption DEF StreamOK, Initialized, Streams, Taken

-----------------------------------------------------------------------------
(* The two ends of one direction: the invariant.                           *)

\* Key bytes used by the messages up to the ith.
Upto(w, i) == IF i <= 1 THEN 0 ELSE w[i].first + Len(w[i].bytes)

\* Behind the first, messages take up the key stream one after the other.
WireOK(w) ==
    /\ w \in Seq(Messages)
    /\ w # <<>> => Clear(w[1])
    /\ \A i \in 2 .. Len(w) :
        /\ w[i].first = Upto(w, i - 1)
        /\ \A j \in 1 .. Len(w[i].bytes) : IsKey(w[i].bytes[j], w[i].first + (j - 1))

\* The part of a body before `done` is encrypted.
Written(s, body, w) ==
    /\ body.first = Upto(w, Len(w))
    /\ body.done \in 0 .. Len(body.bytes)
    /\ Taken(s) = body.first + body.done
    /\ \A j \in 1 .. Len(body.bytes) :
        IF j <= body.done THEN IsKey(body.bytes[j], body.first + (j - 1))
        ELSE body.bytes[j] = Plain

WriterOK(on, s, body, w) ==
    IF on THEN /\ w # <<>> /\ StreamOK(s)
               /\ body = None => Taken(s) = Upto(w, Len(w))
               /\ body # None => Written(s, body, w)
    ELSE /\ Len(w) <= 1
         /\ body # None => w = <<>> /\ Clear(body)

\* The part of a body before `done` is decrypted.
HalfRead(s, body, message) ==
    /\ Len(body.bytes) = Len(message.bytes)
    /\ body.done \in 0 .. Len(body.bytes)
    /\ Taken(s) = message.first + body.done
    /\ \A j \in 1 .. Len(body.bytes) :
        body.bytes[j] = IF j <= body.done THEN Plain ELSE message.bytes[j]

ReaderOK(on, s, body, h, w) ==
    /\ h \in 0 .. Len(w)
    /\ IF on THEN /\ h >= 1 /\ StreamOK(s)
                  /\ body = None => Taken(s) = Upto(w, h)
                  /\ body # None => h < Len(w) /\ HalfRead(s, body, w[h + 1])
       ELSE /\ h <= 1
            /\ body # None => h = 0 /\ w # <<>> /\ body.bytes = w[1].bytes

-----------------------------------------------------------------------------
(* Steps of one end, as facts about values.                                *)

LEMMA XorBytes ==
    ASSUME NEW byte \in Bytes, NEW key \in KeyBytes
    PROVE  /\ Xor(byte, key) \in Bytes
           /\ byte = Plain => Xor(byte, key) = key
           /\ byte = key => Xor(byte, key) = Plain
  BY ByteAssumption DEF Xor, Bytes

LEMMA XorNextBytes ==
    ASSUME NEW body, body.bytes \in Seq(Bytes), body.done \in Nat,
           body.done < Len(body.bytes), NEW s, StreamOK(s),
           body \in Writings \/ body \in Readings
    PROVE  LET new == XorNext(body, s)
               at == body.done + 1
           IN  /\ new.done = at
               /\ new.bytes \in Seq(Bytes) /\ Len(new.bytes) = Len(body.bytes)
               /\ new.bytes[at] = Xor(body.bytes[at], KeyByte(s))
               /\ \A j \in 1 .. Len(body.bytes) : j # at => new.bytes[j] = body.bytes[j]
               /\ body \in Writings => new \in Writings /\ new.first = body.first
               /\ body \in Readings => new \in Readings
<1> DEFINE at == body.done + 1
           byte == Xor(body.bytes[at], KeyByte(s))
           bytes == [body.bytes EXCEPT ![at] = byte]
<1>1. at \in 1 .. Len(body.bytes) /\ body.bytes[at] \in Bytes
  OBVIOUS
<1>2. byte \in Bytes
  BY <1>1, StreamStep, KeyIsKeyByte, XorBytes
<1>3. /\ bytes \in Seq(Bytes) /\ Len(bytes) = Len(body.bytes)
      /\ bytes[at] = byte
      /\ \A j \in 1 .. Len(body.bytes) : j # at => bytes[j] = body.bytes[j]
  <2> HIDE DEF byte
  <2> QED
    BY <1>1, <1>2, ExceptSeq
<1> DEFINE new == XorNext(body, s)
<1>4. ASSUME body \in Writings
      PROVE  new.bytes = bytes /\ new.done = at /\ new.first = body.first /\ new \in Writings
  <2>1. new = [bytes |-> bytes, done |-> at, first |-> body.first]
    <3>1. new = [body EXCEPT !.bytes = bytes, !.done = at]
      BY DEF XorNext
    <3> QED
      BY <1>4, <3>1 DEF Writings
  <2>2. body.first \in Nat
    BY <1>4 DEF Writings
  <2> QED
    BY <1>1, <1>3, <2>1, <2>2 DEF Writings
<1>5. ASSUME body \in Readings
      PROVE  new.bytes = bytes /\ new.done = at /\ new \in Readings
  <2>1. new = [bytes |-> bytes, done |-> at]
    <3>1. new = [body EXCEPT !.bytes = bytes, !.done = at]
      BY DEF XorNext
    <3> QED
      BY <1>5, <3>1 DEF Readings
  <2> QED
    BY <1>1, <1>3, <2>1 DEF Readings
<1> HIDE DEF new, bytes, byte
<1>6. new.bytes = bytes /\ new.done = at
  BY <1>4, <1>5
<1> QED
  BY <1>3, <1>4, <1>5, <1>6 DEF new, byte

LEMMA EncryptKeeps ==
    ASSUME NEW s, NEW body \in Writings, NEW w, WireOK(w), WriterOK(TRUE, s, body, w),
           body.done # Len(body.bytes)
    PROVE  /\ WriterOK(TRUE, Advance(s), XorNext(body, s), w)
           /\ XorNext(body, s) \in Writings
<1> DEFINE new == XorNext(body, s)
           at == body.done + 1
<1>1. body # None /\ StreamOK(s) /\ w # <<>> /\ Written(s, body, w)
  BY ByteAssumption DEF WriterOK
<1>2. /\ body.bytes \in Seq(Bytes) /\ body.done \in Nat /\ body.first \in Nat
      /\ Len(body.bytes) \in Nat /\ body.done < Len(body.bytes)
      /\ body.bytes[at] = Plain
  BY <1>1 DEF Writings, Written
<1>3. /\ new.done = at /\ new \in Writings /\ new.first = body.first
      /\ Len(new.bytes) = Len(body.bytes)
      /\ new.bytes[at] = Xor(body.bytes[at], KeyByte(s))
      /\ \A j \in 1 .. Len(body.bytes) : j # at => new.bytes[j] = body.bytes[j]
  BY <1>1, <1>2, XorNextBytes
<1>4. /\ StreamOK(Advance(s)) /\ Taken(Advance(s)) = Taken(s) + 1
      /\ IsKey(KeyByte(s), body.first + (at - 1))
  <2>1. Taken(s) = body.first + (at - 1)
    BY <1>1, <1>2 DEF Written
  <2> QED
    BY <1>1, <2>1, StreamStep
<1>5. new.bytes[at] = KeyByte(s)
  BY <1>2, <1>3, <1>4, KeyIsKeyByte, XorBytes DEF Bytes
<1> HIDE DEF new
<1>6. ASSUME NEW j \in 1 .. Len(new.bytes)
      PROVE  IF j <= new.done THEN IsKey(new.bytes[j], new.first + (j - 1))
             ELSE new.bytes[j] = Plain
  <2>1. CASE j = at
    BY <2>1, <1>2, <1>3, <1>4, <1>5
  <2>2. CASE j # at
    BY <2>2, <1>1, <1>2, <1>3 DEF Written
  <2> QED
    BY <2>1, <2>2
<1>7. Written(Advance(s), new, w)
  BY <1>1, <1>2, <1>3, <1>4, <1>6 DEF Written
<1>8. new # None
  BY <1>3, ByteAssumption
<1> QED
  BY <1>1, <1>3, <1>4, <1>7, <1>8 DEF WriterOK, new

LEMMA UptoAppended ==
    ASSUME NEW w \in Seq(Messages), NEW message \in Messages, NEW i \in 0 .. Len(w)
    PROVE  Upto(Append(w, message), i) = Upto(w, i)
  BY AppendProperties DEF Upto

LEMMA UptoNumber ==
    ASSUME NEW w \in Seq(Messages), NEW i \in 0 .. Len(w)
    PROVE  Upto(w, i) \in Nat
<1>1. CASE i <= 1
  BY <1>1 DEF Upto
<1>2. CASE i > 1
  <2>1. w[i] \in Messages
    BY <1>2
  <2> QED
    BY <1>2, <2>1 DEF Upto, Messages
<1> QED
  BY <1>1, <1>2

LEMMA SendKeeps ==
    ASSUME NEW on \in BOOLEAN, NEW s, NEW body \in Writings, NEW w, WireOK(w),
           WriterOK(on, s, body, w), on => body.done = Len(body.bytes)
    PROVE  LET more == Append(w, [bytes |-> body.bytes, first |-> body.first])
           IN  /\ WireOK(more)
               /\ WriterOK(on, s, None, more)
<1> DEFINE message == [bytes |-> body.bytes, first |-> body.first]
           more == Append(w, message)
<1>1. body # None /\ message \in Messages /\ Len(message.bytes) \in Nat /\ message.first \in Nat
      /\ w \in Seq(Messages) /\ Len(w) \in Nat
  BY ByteAssumption DEF Writings, Messages, WireOK
<1>2. /\ more \in Seq(Messages) /\ Len(more) = Len(w) + 1 /\ more # <<>>
      /\ more[Len(w) + 1] = message
      /\ \A i \in 1 .. Len(w) : more[i] = w[i]
  BY <1>1, AppendProperties
<1>3. CASE on
  <2>1. w # <<>> /\ StreamOK(s) /\ Written(s, body, w)
    BY <1>1, <1>3 DEF WriterOK
  <2>2. Len(w) >= 1
    BY <1>1, <2>1
  <2>3. Upto(more, Len(more)) = Taken(s)
    BY <1>1, <1>2, <1>3, <2>1, <2>2 DEF Upto, Written
  <2>4. ASSUME NEW i \in 2 .. Len(more)
        PROVE  /\ more[i].first = Upto(more, i - 1)
               /\ \A j \in 1 .. Len(more[i].bytes) :
                    IsKey(more[i].bytes[j], more[i].first + (j - 1))
    <3>1. i - 1 \in 0 .. Len(w) /\ Upto(more, i - 1) = Upto(w, i - 1)
      BY <1>1, <1>2, UptoAppended
    <3>2. CASE i = Len(w) + 1
      BY <1>1, <1>2, <1>3, <2>1, <3>1, <3>2 DEF Written
    <3>3. CASE i \in 2 .. Len(w)
      <4>1. more[i] = w[i]
        BY <1>1, <1>2, <3>3
      <4> QED
        BY <3>1, <3>3, <4>1 DEF WireOK
    <3> QED
      BY <1>1, <1>2, <3>2, <3>3
  <2>5. Clear(more[1])
    BY <1>1, <1>2, <2>1, <2>2 DEF WireOK
  <2> QED
    BY <1>2, <1>3, <2>1, <2>3, <2>4, <2>5 DEF WireOK, WriterOK
<1>4. CASE ~on
  <2>1. w = <<>> /\ Clear(body)
    BY <1>1, <1>4 DEF WriterOK
  <2>2. Len(more) = 1 /\ more[1] = message
    BY <1>2, <2>1
  <2>3. Clear(message)
    BY <2>1 DEF Clear
  <2> QED
    BY <1>2, <1>4, <2>2, <2>3 DEF WireOK, WriterOK
<1> QED
  BY <1>3, <1>4

\* The other end of a longer wire.
LEMMA AppendKeepsReader ==
    ASSUME NEW on \in BOOLEAN, NEW s, NEW body, NEW h, NEW w \in Seq(Messages),
           NEW message \in Messages, ReaderOK(on, s, body, h, w)
    PROVE  ReaderOK(on, s, body, h, Append(w, message))
<1> DEFINE more == Append(w, message)
<1>1. /\ Len(more) = Len(w) + 1 /\ more # <<>> /\ Len(w) \in Nat
      /\ \A i \in 1 .. Len(w) : more[i] = w[i]
  BY AppendProperties
<1>2. h \in 0 .. Len(w) /\ h \in 0 .. Len(more) /\ Upto(more, h) = Upto(w, h)
  BY <1>1, UptoAppended DEF ReaderOK
<1> HIDE DEF more
<1>3. h < Len(w) => more[h + 1] = w[h + 1] /\ h < Len(more)
  BY <1>1, <1>2
<1>4. w # <<>> => more[1] = w[1]
  BY <1>1
<1> QED
  BY <1>1, <1>2, <1>3, <1>4 DEF ReaderOK, more

LEMMA ReadKeeps ==
    ASSUME NEW on \in BOOLEAN, NEW s, NEW h, NEW w, WireOK(w), ReaderOK(on, s, None, h, w),
           h < Len(w), h = 0 \/ on
    PROVE  LET body == [bytes |-> w[h + 1].bytes, done |-> 0]
           IN  ReaderOK(on, s, body, h, w) /\ body \in Readings
<1> DEFINE body == [bytes |-> w[h + 1].bytes, done |-> 0]
<1>1. /\ w \in Seq(Messages) /\ Len(w) \in Nat /\ h \in Nat /\ h + 1 \in 1 .. Len(w)
      /\ w[h + 1] \in Messages /\ w # <<>>
  BY DEF WireOK, ReaderOK
<1>2. /\ w[h + 1].bytes \in Seq(Bytes) /\ Len(w[h + 1].bytes) \in Nat
      /\ w[h + 1].first \in Nat /\ body \in Readings
  BY <1>1 DEF Messages, Readings
<1>3. CASE on
  <2>1. h >= 1 /\ StreamOK(s) /\ Taken(s) = Upto(w, h)
    BY <1>3 DEF ReaderOK
  <2>2. w[h + 1].first = Upto(w, h)
    <3>1. h + 1 \in 2 .. Len(w) /\ (h + 1) - 1 = h
      BY <1>1, <2>1
    <3> QED
      BY <3>1 DEF WireOK
  <2>3. HalfRead(s, body, w[h + 1])
    BY <1>2, <2>1, <2>2 DEF HalfRead
  <2>4. body # None
    BY <1>2, ByteAssumption
  <2> QED
    BY <1>1, <1>2, <1>3, <2>1, <2>3, <2>4 DEF ReaderOK
<1>4. CASE ~on
  BY <1>1, <1>2, <1>4 DEF ReaderOK
<1> QED
  BY <1>3, <1>4

LEMMA DecryptKeeps ==
    ASSUME NEW s, NEW body \in Readings, NEW h, NEW w, WireOK(w), ReaderOK(TRUE, s, body, h, w),
           body.done # Len(body.bytes)
    PROVE  /\ ReaderOK(TRUE, Advance(s), XorNext(body, s), h, w)
           /\ XorNext(body, s) \in Readings
<1> DEFINE new == XorNext(body, s)
           at == body.done + 1
           message == w[h + 1]
<1>1. /\ body # None /\ StreamOK(s) /\ h < Len(w) /\ HalfRead(s, body, message)
      /\ h >= 1 /\ h \in 0 .. Len(w)
  BY ByteAssumption DEF ReaderOK
<1>2. /\ w \in Seq(Messages) /\ h + 1 \in 2 .. Len(w) /\ message \in Messages
  BY <1>1 DEF WireOK
<1>3. /\ body.bytes \in Seq(Bytes) /\ body.done \in Nat /\ message.first \in Nat
      /\ Len(body.bytes) \in Nat /\ body.done < Len(body.bytes)
      /\ at \in 1 .. Len(message.bytes) /\ body.bytes[at] = message.bytes[at]
  <2>1. body.bytes \in Seq(Bytes) /\ body.done \in Nat /\ Len(body.bytes) \in Nat
    BY DEF Readings
  <2>2. message.first \in Nat
    BY <1>2 DEF Messages
  <2> HIDE DEF message
  <2>3. body.done < Len(body.bytes) /\ at \in 1 .. Len(body.bytes)
    BY <1>1, <2>1 DEF HalfRead
  <2> QED
    BY <1>1, <2>1, <2>2, <2>3 DEF HalfRead
<1>4. /\ new.done = at /\ new \in Readings
      /\ Len(new.bytes) = Len(body.bytes)
      /\ new.bytes[at] = Xor(body.bytes[at], KeyByte(s))
      /\ \A j \in 1 .. Len(body.bytes) : j # at => new.bytes[j] = body.bytes[j]
  BY <1>1, <1>3, XorNextBytes
<1>5. /\ StreamOK(Advance(s)) /\ Taken(Advance(s)) = Taken(s) + 1
      /\ IsKey(KeyByte(s), message.first + (at - 1))
  <2>1. Taken(s) = message.first + (at - 1)
    BY <1>1, <1>3 DEF HalfRead
  <2> QED
    BY <1>1, <2>1, StreamStep
<1>6. message.bytes[at] = KeyByte(s)
  <2>1. IsKey(message.bytes[at], message.first + (at - 1))
    BY <1>2, <1>3 DEF WireOK
  <2> QED
    BY <1>5, <2>1, KeyUnique
<1>7. new.bytes[at] = Plain
  BY <1>3, <1>4, <1>5, <1>6, KeyIsKeyByte, XorBytes DEF Bytes
<1> HIDE DEF new, message
<1>8. ASSUME NEW j \in 1 .. Len(new.bytes)
      PROVE  new.bytes[j] = IF j <= new.done THEN Plain ELSE message.bytes[j]
  <2>1. CASE j = at
    BY <2>1, <1>3, <1>4, <1>7
  <2>2. CASE j # at
    BY <2>2, <1>1, <1>3, <1>4 DEF HalfRead
  <2> QED
    BY <2>1, <2>2
<1>9. HalfRead(Advance(s), new, message)
  BY <1>1, <1>3, <1>4, <1>5, <1>8 DEF HalfRead
<1>10. new # None
  BY <1>4, ByteAssumption
<1>11. ReaderOK(TRUE, Advance(s), new, h, w)
  <2> HIDE DEF HalfRead
  <2> QED
    BY <1>1, <1>5, <1>9, <1>10 DEF ReaderOK, message
<1> QED
  BY <1>4, <1>11 DEF new

\* A body that has been read is what was sent.
LEMMA ReadClear ==
    ASSUME NEW on \in BOOLEAN, NEW s, NEW body \in Readings, NEW h, NEW w, WireOK(w),
           ReaderOK(on, s, body, h, w), on => body.done = Len(body.bytes)
    PROVE  Clear(body)
<1>1. body # None /\ body.bytes \in Seq(Bytes) /\ Len(body.bytes) \in Nat
  BY ByteAssumption DEF Readings
<1>2. CASE on
  BY <1>1, <1>2 DEF ReaderOK, HalfRead, Clear
<1>3. CASE ~on
  BY <1>1, <1>3 DEF ReaderOK, WireOK, Clear
<1> QED
  BY <1>2, <1>3

LEMMA HearKeeps ==
    ASSUME NEW on \in BOOLEAN, NEW s, NEW body \in Readings, NEW h, NEW w, WireOK(w),
           ReaderOK(on, s, body, h, w), on => body.done = Len(body.bytes)
    PROVE  ReaderOK(on, s, None, h + 1, w)
<1>1. body # None /\ h \in 0 .. Len(w) /\ w \in Seq(Messages) /\ Len(w) \in Nat
  BY ByteAssumption DEF ReaderOK, WireOK
<1>2. CASE on
  <2>1. h >= 1 /\ StreamOK(s) /\ h < Len(w) /\ HalfRead(s, body, w[h + 1])
    BY <1>1, <1>2 DEF ReaderOK
  <2>2. Taken(s) = Upto(w, h + 1)
    BY <1>1, <1>2, <2>1 DEF HalfRead, Upto
  <2> QED
    BY <1>1, <1>2, <2>1, <2>2 DEF ReaderOK
<1>3. CASE ~on
  <2>1. h = 0 /\ w # <<>>
    BY <1>1, <1>3 DEF ReaderOK
  <2> QED
    BY <1>1, <1>3, <2>1 DEF ReaderOK
<1> QED
  BY <1>2, <1>3

-----------------------------------------------------------------------------
(* The invariant of the specification.                                     *)

\* The server sends nothing before it has read the registration.
AnswersOnly ==
    wire["server"] # <<>> \/ writing["server"] # None => heard["server"] >= 1

InStep ==
    \A e \in Ends :
        /\ WireOK(wire[e])
        /\ WriterOK(encryption_enabled[e], outbound[e], writing[e], wire[e])
        /\ ReaderOK(encryption_enabled[e], inbound[e], reading[e], heard[e], wire[Peer(e)])

IInv == TypeOK /\ AnswersOnly /\ InStep

LEMMA Peers == \A e \in Ends : Peer(e) \in Ends /\ Peer(e) # e /\ Peer(Peer(e)) = e
  BY DEF Ends, Peer

LEMMA NonEmpty ==
    ASSUME NEW S, NEW w \in Seq(S)
    PROVE  Len(w) \in Nat /\ (w # <<>> <=> Len(w) >= 1)
  BY EmptySeq

LEMMA InitIInv == Init => IInv
<1>1. SUFFICES ASSUME Init PROVE IInv
  OBVIOUS
<1>2. TypeOK
  BY <1>1 DEF Init, TypeOK
<1>3. AnswersOnly
  BY <1>1 DEF Init, AnswersOnly, Ends
<1>4. InStep
  BY <1>1, Peers DEF Init, InStep, WireOK, WriterOK, ReaderOK
<1> QED
  BY <1>2, <1>3, <1>4 DEF IInv

LEMMA BeginKeeps ==
    ASSUME IInv, NEW e \in Ends, Begin(e)
    PROVE  IInv'
<1>0. TypeOK /\ AnswersOnly /\ InStep
  BY DEF IInv
<1>1. PICK size \in Sizes :
        writing' = [writing EXCEPT ![e] =
            [bytes |-> [i \in 1 .. size |-> Plain], done |-> 0,
             first |-> IF encryption_enabled[e] THEN Taken(outbound[e]) ELSE 0]]
  BY DEF Begin
<1> DEFINE body == [bytes |-> [i \in 1 .. size |-> Plain], done |-> 0,
                    first |-> IF encryption_enabled[e] THEN Taken(outbound[e]) ELSE 0]
<1>2. /\ writing[e] = None
      /\ encryption_enabled[e] \/ (wire[e] = <<>> /\ (e = "server" => heard[e] = 1))
      /\ UNCHANGED <<inbound, outbound, encryption_enabled, reading, wire, heard>>
  BY DEF Begin
<1>3. /\ WireOK(wire[e])
      /\ WriterOK(encryption_enabled[e], outbound[e], None, wire[e])
      /\ encryption_enabled[e] \in BOOLEAN
  BY <1>0, <1>2 DEF InStep, TypeOK
<1>4. encryption_enabled[e] => Taken(outbound[e]) \in Nat
  BY <1>3, StreamStep DEF WriterOK
<1>5. body \in Writings /\ body # None
  <2> DEFINE bytes == [i \in 1 .. size |-> Plain]
             first == IF encryption_enabled[e] THEN Taken(outbound[e]) ELSE 0
  <2>1. bytes \in Seq(Bytes)
    BY CtrAssumption DEF Bytes
  <2>2. first \in Nat
    BY <1>3, <1>4
  <2>3. body = [bytes |-> bytes, done |-> 0, first |-> first]
    OBVIOUS
  <2> HIDE DEF bytes, first, body
  <2>4. body \in Writings
    BY <2>1, <2>2, <2>3 DEF Writings
  <2> QED
    BY <2>4, ByteAssumption
<1>6. WriterOK(encryption_enabled[e], outbound[e], body, wire[e])
  <2>1. Len(body.bytes) = size /\ Clear(body) /\ size \in Nat
    BY CtrAssumption DEF Clear
  <2>2. CASE encryption_enabled[e]
    BY <1>3, <1>4, <2>1, <2>2 DEF WriterOK, Written
  <2>3. CASE ~encryption_enabled[e]
    <3>1. wire[e] = <<>> /\ Len(wire[e]) <= 1
      BY <1>2, <2>3
    <3> QED
      BY <2>1, <2>3, <3>1 DEF WriterOK
  <2> QED
    BY <1>3, <2>2, <2>3
<1> HIDE DEF body
<1>7. writing' = [writing EXCEPT ![e] = body]
  BY <1>1 DEF body
<1>8. TypeOK'
  BY <1>0, <1>2, <1>5, <1>7 DEF TypeOK
<1>9. InStep'
  BY <1>0, <1>2, <1>6, <1>7 DEF InStep, TypeOK
<1>10. AnswersOnly'
  <2>1. e = "server" => heard[e] >= 1
    BY <1>0, <1>2 DEF InStep, ReaderOK
  <2> QED
    BY <1>0, <1>2, <1>7, <2>1 DEF AnswersOnly, TypeOK, Ends
<1> QED
  BY <1>8, <1>9, <1>10 DEF IInv

LEMMA EncryptStep ==
    ASSUME IInv, NEW e \in Ends, Encrypt(e)
    PROVE  IInv'
<1>0. TypeOK /\ AnswersOnly /\ InStep
  BY DEF IInv
<1>1. /\ writing[e] \in Writings /\ writing[e] # None /\ encryption_enabled[e] = TRUE
      /\ writing[e].done # Len(writing[e].bytes)
  BY <1>0 DEF Encrypt, Finished, TypeOK
<1>2. WireOK(wire[e]) /\ WriterOK(TRUE, outbound[e], writing[e], wire[e])
  BY <1>0, <1>1 DEF InStep
<1> DEFINE s == Advance(outbound[e])
           body == XorNext(writing[e], outbound[e])
<1>3. WriterOK(TRUE, s, body, wire[e]) /\ body \in Writings
  BY <1>1, <1>2, EncryptKeeps
<1>4. body # None /\ s \in Streams
  <2>1. body # None
    BY <1>3, ByteAssumption
  <2>2. StreamOK(s)
    BY <1>3 DEF WriterOK
  <2> QED
    BY <2>1, <2>2 DEF StreamOK
<1>5. /\ writing' = [writing EXCEPT ![e] = body]
      /\ outbound' = [outbound EXCEPT ![e] = s]
      /\ UNCHANGED <<inbound, encryption_enabled, reading, wire, heard>>
  BY DEF Encrypt
<1> HIDE DEF s, body
<1>6. TypeOK'
  BY <1>0, <1>3, <1>4, <1>5 DEF TypeOK
<1>7. InStep'
  BY <1>0, <1>1, <1>3, <1>5 DEF InStep, TypeOK
<1>8. AnswersOnly'
  BY <1>0, <1>1, <1>5 DEF AnswersOnly, TypeOK
<1> QED
  BY <1>6, <1>7, <1>8 DEF IInv

LEMMA SendStep ==
    ASSUME IInv, NEW e \in Ends, Send(e)
    PROVE  IInv'
<1>0. TypeOK /\ AnswersOnly /\ InStep
  BY DEF IInv
<1> DEFINE body == writing[e]
           message == [bytes |-> body.bytes, first |-> body.first]
           more == Append(wire[e], message)
<1>1. /\ body \in Writings /\ body # None /\ encryption_enabled[e] \in BOOLEAN
      /\ encryption_enabled[e] => body.done = Len(body.bytes)
      /\ wire[e] \in Seq(Messages)
  BY <1>0 DEF Send, Finished, TypeOK
<1>2. WireOK(wire[e]) /\ WriterOK(encryption_enabled[e], outbound[e], body, wire[e])
  BY <1>0 DEF InStep
<1>3. message \in Messages /\ more \in Seq(Messages)
  BY <1>1, AppendProperties DEF Writings, Messages
<1>4. WireOK(more) /\ WriterOK(encryption_enabled[e], outbound[e], None, more)
  BY <1>1, <1>2, SendKeeps
<1>5. \A d \in Ends : Peer(d) = e =>
        ReaderOK(encryption_enabled[d], inbound[d], reading[d], heard[d], more)
  <2>1. TAKE d \in Ends
  <2>2. HAVE Peer(d) = e
  <2>3. /\ ReaderOK(encryption_enabled[d], inbound[d], reading[d], heard[d], wire[e])
        /\ encryption_enabled[d] \in BOOLEAN
    BY <1>0, <2>2 DEF InStep, TypeOK
  <2> HIDE DEF message
  <2> QED
    BY <1>1, <1>3, <2>3, AppendKeepsReader
<1>6. /\ writing' = [writing EXCEPT ![e] = None]
      /\ wire' = [wire EXCEPT ![e] = more]
      /\ UNCHANGED <<inbound, outbound, encryption_enabled, reading, heard>>
  BY DEF Send
<1> HIDE DEF more
<1>7. TypeOK'
  BY <1>0, <1>3, <1>6 DEF TypeOK
<1>8. InStep'
  BY <1>0, <1>4, <1>5, <1>6, Peers DEF InStep, TypeOK
<1>9. AnswersOnly'
  BY <1>0, <1>1, <1>6 DEF AnswersOnly, TypeOK, Ends
<1> QED
  BY <1>7, <1>8, <1>9 DEF IInv

LEMMA SwitchStep ==
    ASSUME IInv, NEW e \in Ends, Switch(e)
    PROVE  IInv'
<1>0. TypeOK /\ AnswersOnly /\ InStep
  BY DEF IInv
<1>1. /\ ~encryption_enabled[e] /\ heard[e] = 1 /\ writing[e] = None
      /\ e = "server" => Len(wire[e]) = 1
  BY DEF Switch, MaySwitch
<1>2. /\ WireOK(wire[e]) /\ WriterOK(FALSE, outbound[e], None, wire[e])
      /\ ReaderOK(FALSE, inbound[e], reading[e], 1, wire[Peer(e)])
  BY <1>0, <1>1 DEF InStep, TypeOK
<1>3. reading[e] = None /\ Len(wire[e]) <= 1 /\ 1 \in 0 .. Len(wire[Peer(e)])
  BY <1>2 DEF ReaderOK, WriterOK
<1> DEFINE length == Len(wire[e])
<1>4. length \in Nat /\ (wire[e] # <<>> <=> length >= 1) /\ length <= 1
  BY <1>2, <1>3, NonEmpty DEF WireOK
<1> HIDE DEF length
<1>5. length >= 1
  <2>1. CASE e = "server"
    <3>1. length = 1
      BY <1>1, <2>1 DEF length
    <3> QED
      BY <3>1
  <2>2. CASE e = "client"
    <3>1. wire["server"] # <<>>
      BY <1>3, <2>2 DEF Peer
    <3>2. heard["server"] >= 1
      BY <1>0, <3>1 DEF AnswersOnly
    <3>3. heard["server"] \in 0 .. length
      BY <1>0, <2>2 DEF InStep, ReaderOK, Ends, Peer, length
    <3> QED
      BY <1>4, <3>2, <3>3
  <2> QED
    BY <2>1, <2>2 DEF Ends
<1>6. wire[e] # <<>> /\ Len(wire[e]) = 1
  <2>1. length = 1
    BY <1>4, <1>5
  <2> QED
    BY <1>4, <1>5, <2>1 DEF length
<1>7. /\ WriterOK(TRUE, Initialized, None, wire[e])
      /\ ReaderOK(TRUE, Initialized, None, 1, wire[Peer(e)])
  BY <1>3, <1>6, FreshStream DEF WriterOK, ReaderOK, Upto
<1>8. /\ inbound' = [inbound EXCEPT ![e] = Initialized]
      /\ outbound' = [outbound EXCEPT ![e] = Initialized]
      /\ encryption_enabled' = [encryption_enabled EXCEPT ![e] = TRUE]
      /\ UNCHANGED <<writing, reading, wire, heard>>
  BY DEF Switch
<1>9. Initialized \in Streams
  BY FreshStream DEF StreamOK
<1>10. TypeOK'
  BY <1>0, <1>8, <1>9 DEF TypeOK
<1>11. InStep'
  <2> HIDE DEF Initialized
  <2> QED
    BY <1>0, <1>1, <1>3, <1>7, <1>8 DEF InStep, TypeOK
<1>12. AnswersOnly'
  BY <1>0, <1>8 DEF AnswersOnly
<1> QED
  BY <1>10, <1>11, <1>12 DEF IInv

LEMMA ReadStep ==
    ASSUME IInv, NEW e \in Ends, Read(e)
    PROVE  IInv'
<1>0. TypeOK /\ AnswersOnly /\ InStep
  BY DEF IInv
<1> DEFINE w == wire[Peer(e)]
           body == [bytes |-> w[heard[e] + 1].bytes, done |-> 0]
<1>1. /\ reading[e] = None /\ encryption_enabled[e] \in BOOLEAN
      /\ heard[e] = 0 \/ encryption_enabled[e]
      /\ heard[e] < Len(w)
  BY <1>0 DEF Read, TypeOK
<1>2. WireOK(w) /\ ReaderOK(encryption_enabled[e], inbound[e], None, heard[e], w)
  BY <1>0, <1>1, Peers DEF InStep
<1>3. /\ ReaderOK(encryption_enabled[e], inbound[e], body, heard[e], w)
      /\ body \in Readings
  <2> HIDE DEF w
  <2> QED
    BY <1>1, <1>2, ReadKeeps
<1>4. /\ reading' = [reading EXCEPT ![e] = body]
      /\ UNCHANGED <<inbound, outbound, encryption_enabled, writing, wire, heard>>
  BY DEF Read
<1> HIDE DEF body
<1>5. TypeOK'
  BY <1>0, <1>3, <1>4 DEF TypeOK
<1>6. InStep'
  BY <1>0, <1>3, <1>4 DEF InStep, TypeOK
<1>7. AnswersOnly'
  BY <1>0, <1>4 DEF AnswersOnly
<1> QED
  BY <1>5, <1>6, <1>7 DEF IInv

LEMMA DecryptStep ==
    ASSUME IInv, NEW e \in Ends, Decrypt(e)
    PROVE  IInv'
<1>0. TypeOK /\ AnswersOnly /\ InStep
  BY DEF IInv
<1> DEFINE w == wire[Peer(e)]
           s == Advance(inbound[e])
           body == XorNext(reading[e], inbound[e])
<1>1. /\ reading[e] \in Readings /\ encryption_enabled[e] = TRUE
      /\ reading[e].done # Len(reading[e].bytes)
  BY <1>0 DEF Decrypt, Finished, TypeOK
<1>2. WireOK(w) /\ ReaderOK(TRUE, inbound[e], reading[e], heard[e], w)
  BY <1>0, <1>1, Peers DEF InStep
<1>3. ReaderOK(TRUE, s, body, heard[e], w) /\ body \in Readings
  <2> HIDE DEF w
  <2> QED
    BY <1>1, <1>2, DecryptKeeps
<1>4. s \in Streams
  BY <1>3 DEF ReaderOK, StreamOK
<1>5. /\ reading' = [reading EXCEPT ![e] = body]
      /\ inbound' = [inbound EXCEPT ![e] = s]
      /\ UNCHANGED <<outbound, encryption_enabled, writing, wire, heard>>
  BY DEF Decrypt
<1> HIDE DEF s, body
<1>6. TypeOK'
  BY <1>0, <1>3, <1>4, <1>5 DEF TypeOK
<1>7. InStep'
  BY <1>0, <1>1, <1>3, <1>5 DEF InStep, TypeOK
<1>8. AnswersOnly'
  BY <1>0, <1>5 DEF AnswersOnly
<1> QED
  BY <1>6, <1>7, <1>8 DEF IInv

LEMMA HearStep ==
    ASSUME IInv, NEW e \in Ends, Hear(e)
    PROVE  IInv'
<1>0. TypeOK /\ AnswersOnly /\ InStep
  BY DEF IInv
<1> DEFINE w == wire[Peer(e)]
<1>1. /\ reading[e] \in Readings /\ encryption_enabled[e] \in BOOLEAN
      /\ encryption_enabled[e] => reading[e].done = Len(reading[e].bytes)
  BY <1>0 DEF Hear, Finished, TypeOK
<1>2. WireOK(w) /\ ReaderOK(encryption_enabled[e], inbound[e], reading[e], heard[e], w)
  BY <1>0, Peers DEF InStep
<1>3. ReaderOK(encryption_enabled[e], inbound[e], None, heard[e] + 1, w)
  <2> HIDE DEF w
  <2> QED
    BY <1>1, <1>2, HearKeeps
<1>4. /\ heard' = [heard EXCEPT ![e] = @ + 1]
      /\ reading' = [reading EXCEPT ![e] = None]
      /\ UNCHANGED <<inbound, outbound, encryption_enabled, writing, wire>>
  BY DEF Hear
<1>5. TypeOK'
  BY <1>0, <1>4 DEF TypeOK
<1>6. InStep'
  BY <1>0, <1>3, <1>4 DEF InStep, TypeOK
<1>7. AnswersOnly'
  BY <1>0, <1>4 DEF AnswersOnly, TypeOK, Ends
<1> QED
  BY <1>5, <1>6, <1>7 DEF IInv

LEMMA NextIInv == IInv /\ [Next]_vars => IInv'
<1>1. SUFFICES ASSUME IInv, [Next]_vars PROVE IInv'
  OBVIOUS
<1>2. CASE Next
  <2>1. PICK e \in Ends : End(e)
    BY <1>2 DEF Next
  <2> QED
    BY <1>1, <2>1, BeginKeeps, EncryptStep, SendStep, SwitchStep, ReadStep, DecryptStep,
       HearStep DEF End
<1>3. CASE UNCHANGED vars
  BY <1>1, <1>3 DEF vars, IInv, TypeOK, AnswersOnly, InStep
<1> QED
  BY <1>1, <1>2, <1>3

LEMMA IInvReadable == IInv => TypeOK /\ Readable /\ ByTheBook
<1>1. SUFFICES ASSUME IInv PROVE TypeOK /\ Readable /\ ByTheBook
  OBVIOUS
<1>2. TypeOK /\ InStep
  BY <1>1 DEF IInv
<1>3. Readable
  <2>1. SUFFICES ASSUME NEW e \in Ends, reading[e] # None, Finished(e, reading[e])
                 PROVE  Clear(reading[e])
    BY DEF Readable
  <2>2. /\ reading[e] \in Readings /\ encryption_enabled[e] \in BOOLEAN
        /\ encryption_enabled[e] => reading[e].done = Len(reading[e].bytes)
    BY <1>2, <2>1 DEF TypeOK, Finished
  <2>3. /\ WireOK(wire[Peer(e)])
        /\ ReaderOK(encryption_enabled[e], inbound[e], reading[e], heard[e], wire[Peer(e)])
    BY <1>2, Peers DEF InStep
  <2> QED
    BY <2>2, <2>3, ReadClear
<1>4. ByTheBook
  <2> DEFINE n(e, i, j) == wire[e][i].first + j - 1
             Book(m) == <<(FirstCounter + m \div BlockSize) % CounterMod, m % BlockSize>>
  <2>1. ASSUME NEW e \in Ends, NEW i \in 2 .. Len(wire[e]), NEW j \in DOMAIN wire[e][i].bytes
        PROVE  wire[e][i].bytes[j] = Book(n(e, i, j))
    <3>0. WireOK(wire[e])
      BY <1>2 DEF InStep
    <3>1. WireOK(wire[e]) /\ wire[e][i] \in Messages
      <4>1. wire[e] \in Seq(Messages) /\ i \in 1 .. Len(wire[e])
        BY <3>0, NonEmpty DEF WireOK
      <4> QED
        BY <3>0, <4>1, ElementOfSeq
    <3>2. j \in 1 .. Len(wire[e][i].bytes) /\ wire[e][i].first \in Nat
      BY <3>1 DEF Messages
    <3>3. IsKey(wire[e][i].bytes[j], wire[e][i].first + (j - 1))
      BY <3>1, <3>2 DEF WireOK
    <3>4. n(e, i, j) = wire[e][i].first + (j - 1)
      BY <3>2
    <3> QED
      BY <3>3, <3>4, KeyIsKeyByte
  <2> QED
    BY <2>1, Zenon DEF ByTheBook
<1> QED
  BY <1>2, <1>3, <1>4

-----------------------------------------------------------------------------
\* Types are kept, the counter's wrap included.
THEOREM TypeCorrect == Spec => []TypeOK
<1> QED
  BY InitIInv, NextIInv, IInvReadable, PTL DEF Spec

\* Both ends can always read each other, however messages cut the key stream,
\* whichever end turns its cipher on first (runtime.cpp:1172-1177, 1220-1246).
THEOREM AlwaysReadable == Spec => []Readable
<1> QED
  BY InitIInv, NextIInv, IInvReadable, PTL DEF Spec

\* The stream on the wire is CTR mode (crypto.cpp:38-46, 48-61).
THEOREM CtrMode == Spec => []ByTheBook
<1> QED
  BY InitIInv, NextIInv, IInvReadable, PTL DEF Spec

=============================================================================
