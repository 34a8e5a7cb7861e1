---------------------------- MODULE StartupProofs ----------------------------
(***************************************************************************)
(* From a configuration file to a running app, whole or not at all: for    *)
(* all files, ports, streams, failures and calls of start() and stop().    *)
(***************************************************************************)
EXTENDS Startup, SequenceTheorems, FiniteSetTheorems, TLAPS

-----------------------------------------------------------------------------
(* Reading the file.                                                       *)

Begun == {"down", "tls", "gateway", "session", "streams", "up", "destroyed"}

\* What the lines before line n say.
GivenBefore(key, n) == {i \in 1 .. n - 1 : file[i].key = key}

SaidBefore(key, n) ==
    IF GivenBefore(key, n) = {} THEN Defaults[key]
    ELSE Cast(key, file[Max(GivenBefore(key, n))].value)

ListedBefore(streams, n) ==
    LET lines == GivenBefore("market_data_stream", n)
    IN  /\ IsFiniteSet(lines) /\ Len(streams) = Cardinality(lines)
        /\ \E at \in [DOMAIN streams -> lines] :
            /\ \A i, j \in DOMAIN at : i < j => at[i] < at[j]
            /\ \A i \in DOMAIN at : streams[i] = Endpoint(file[at[i]].value)

Hosts == {file[i].value.host : i \in DOMAIN file}

FileRead ==
    /\ file \in Files /\ line \in 1 .. Len(file) + 1
    /\ DOMAIN config = DOMAIN Defaults
    /\ config.market_data_streams \in Seq([host : Hosts, port : 1 .. U16 - 1])
    /\ config.max_book_contracts \in Nat
    /\ config.gr_tls_port \in 0 .. U16 - 1 \/ config.gr_tls_port = Defaults.gr_tls_port
    /\ \A i \in 1 .. line - 1 : Good(file[i])
    /\ \A key \in Numbers \cup Strings : config[key] = SaidBefore(key, line)
    /\ ListedBefore(config.market_data_streams, line)

Tokens == config.token_filter_file # "" => token_file \notin {"missing", "bad"}

Verdict ==
    /\ stage \in Begun \cup {"reading", "loaded", "rejected"}
    /\ stage = "rejected" =>
        \/ line \in DOMAIN file /\ ~Good(file[line])
        \/ line = Len(file) + 1 /\ ~(Complete /\ Tokens)
    /\ stage \in Begun \cup {"loaded"} => line = Len(file) + 1 /\ Complete
    /\ stage \in Begun => Tokens

LEMMA FileIs ==
    ASSUME file \in Files
    PROVE  /\ Len(file) \in Nat /\ DOMAIN file = 1 .. Len(file)
           /\ \A i \in DOMAIN file :
                /\ file[i].key \in Numbers => file[i].value \in Nat \cup {NaN}
                /\ file[i].key = "market_data_stream" => file[i].value.port \in Nat \cup {NaN}
<1>1. file \in Seq(Range(file))
  BY StartupAssumption
<1>2. Len(file) \in Nat /\ DOMAIN file = 1 .. Len(file)
  BY <1>1
<1>3. \A i \in DOMAIN file :
        /\ file[i].key \in Numbers => file[i].value \in Nat \cup {NaN}
        /\ file[i].key = "market_data_stream" => file[i].value.port \in Nat \cup {NaN}
  <2> HIDE DEF Numbers
  <2> QED BY StartupAssumption
<1> QED BY <1>2, <1>3

LEMMA KeysAre ==
    /\ Numbers \cup Strings \subseteq DOMAIN Defaults
    /\ "market_data_streams" \in DOMAIN Defaults
    /\ "market_data_streams" \notin Numbers \cup Strings
    /\ "market_data_stream" \notin Numbers \cup Strings
    /\ "blank" \notin Numbers \cup Strings
    /\ Numbers \cap Strings = {}
BY DEF Numbers, Strings, Defaults

\* What a good line does to the configuration.
LEMMA Assigned ==
    ASSUME DOMAIN config = DOMAIN Defaults, NEW l, Good(l), config' = Assign(l)
    PROVE  /\ DOMAIN config' = DOMAIN Defaults
           /\ \A key \in Numbers \cup Strings :
                config'[key] = IF key = l.key THEN Cast(key, l.value) ELSE config[key]
           /\ config'.market_data_streams =
                IF l.key = "market_data_stream"
                THEN Append(config.market_data_streams, Endpoint(l.value))
                ELSE config.market_data_streams
           /\ l.key = "market_data_stream" => GoodStream(l.value)
<1>1. CASE l.key = "blank"
  BY <1>1, KeysAre DEF Assign
<1>2. CASE l.key \in Strings
  <2>1. config' = [config EXCEPT ![l.key] = l.value]
    BY <1>2, KeysAre DEF Assign
  <2>2. \A key \in Strings : Cast(key, l.value) = l.value
    BY DEF Cast, Strings
  <2> QED BY <1>2, <2>1, <2>2, KeysAre
<1>3. CASE l.key \in Numbers
  <2>1. config' = [config EXCEPT ![l.key] = Cast(l.key, l.value)]
    BY <1>3, KeysAre DEF Assign
  <2> QED BY <1>3, <2>1, KeysAre
<1>4. CASE l.key = "market_data_stream"
  <2>1. config' = [config EXCEPT !.market_data_streams = Append(@, Endpoint(l.value))]
    BY <1>4, KeysAre DEF Assign
  <2>2. GoodStream(l.value)
    BY <1>4, KeysAre DEF Good
  <2> QED BY <1>4, <2>1, <2>2, KeysAre
<1> QED BY <1>1, <1>2, <1>3, <1>4 DEF Good

\* The line that is read is the last of its key so far.
LEMMA SaidLast ==
    ASSUME file \in Files, line \in 1 .. Len(file), NEW key
    PROVE  SaidBefore(key, line + 1) =
                IF file[line].key = key THEN Cast(key, file[line].value)
                ELSE SaidBefore(key, line)
<1>1. line \in Nat /\ line >= 1 /\ line + 1 - 1 = line /\ 1 .. line = (1 .. line - 1) \cup {line}
  BY FileIs
<1>2. CASE file[line].key # key
  <2>1. GivenBefore(key, line + 1) = GivenBefore(key, line)
    BY <1>1, <1>2 DEF GivenBefore
  <2> QED BY <1>2, <2>1 DEF SaidBefore
<1>3. CASE file[line].key = key
  <2>1. PICK S : S = GivenBefore(key, line + 1)
    OBVIOUS
  <2>2. line \in S /\ \A i \in S : i \in Nat /\ i <= line
    BY <1>1, <1>3, <2>1 DEF GivenBefore
  <2>3. Max(S) = line
    <3>1. line \in S /\ \A i \in S : line >= i
      BY <1>1, <2>2
    <3>2. Max(S) \in S /\ \A i \in S : Max(S) >= i
      BY <3>1 DEF Max
    <3>3. Max(S) \in Nat /\ Max(S) <= line /\ Max(S) >= line
      BY <2>2, <3>1, <3>2
    <3> QED BY <1>1, <3>3
  <2> QED BY <1>3, <2>1, <2>2, <2>3 DEF SaidBefore
<1> QED BY <1>2, <1>3

LEMMA ListedLast ==
    ASSUME FileRead, line \in 1 .. Len(file),
           NEW streams \in Seq([host : Hosts, port : 1 .. U16 - 1]),
           ListedBefore(streams, line)
    PROVE  /\ file[line].key # "market_data_stream" => ListedBefore(streams, line + 1)
           /\ file[line].key = "market_data_stream" /\ GoodStream(file[line].value) =>
                /\ ListedBefore(Append(streams, Endpoint(file[line].value)), line + 1)
                /\ Append(streams, Endpoint(file[line].value))
                        \in Seq([host : Hosts, port : 1 .. U16 - 1])
<1>1. /\ line \in Nat /\ line >= 1 /\ line + 1 - 1 = line
      /\ 1 .. line = (1 .. line - 1) \cup {line} /\ line \notin 1 .. line - 1
      /\ line \in DOMAIN file
  BY FileIs DEF FileRead
<1> DEFINE lines == GivenBefore("market_data_stream", line)
           e == Endpoint(file[line].value)
<1>2. CASE file[line].key # "market_data_stream"
  <2>1. GivenBefore("market_data_stream", line + 1) = lines
    BY <1>1, <1>2 DEF GivenBefore
  <2> QED BY <1>2, <2>1 DEF ListedBefore
<1>3. ASSUME file[line].key = "market_data_stream", GoodStream(file[line].value)
      PROVE  ListedBefore(Append(streams, e), line + 1)
  <2>1. PICK more : more = GivenBefore("market_data_stream", line + 1)
    OBVIOUS
  <2>2. more = lines \cup {line} /\ line \notin lines /\ \A i \in lines : i \in Nat /\ i < line
    BY <1>1, <1>3, <2>1 DEF GivenBefore
  <2>3. PICK at \in [DOMAIN streams -> lines] :
            /\ \A i, j \in DOMAIN at : i < j => at[i] < at[j]
            /\ \A i \in DOMAIN at : streams[i] = Endpoint(file[at[i]].value)
    BY DEF ListedBefore
  <2>4. IsFiniteSet(lines) /\ Len(streams) = Cardinality(lines)
    BY DEF ListedBefore
  <2>5. PICK k \in Nat : k = Len(streams)
    OBVIOUS
  <2>6. IsFiniteSet(more) /\ Cardinality(more) = k + 1
    <3> HIDE DEF lines
    <3> QED BY <2>2, <2>4, <2>5, FS_AddElement
  <2>7. PICK longer : longer = Append(streams, e)
    OBVIOUS
  <2>8. /\ Len(longer) = k + 1 /\ DOMAIN longer = 1 .. k + 1 /\ DOMAIN streams = 1 .. k
        /\ \A i \in 1 .. k : longer[i] = streams[i]
        /\ longer[k + 1] = e
    <3> HIDE DEF e
    <3> QED BY <2>5, <2>7
  <2>9. PICK to : to = [i \in 1 .. k + 1 |-> IF i <= k THEN at[i] ELSE line]
    OBVIOUS
  <2>10. \A i \in 1 .. k + 1 : i \in 1 .. k \/ (i = k + 1 /\ ~ (i <= k))
    OBVIOUS
  <2>11. to \in [DOMAIN longer -> more]
    <3>1. \A i \in 1 .. k + 1 : to[i] \in more
      <4> HIDE DEF lines
      <4> QED BY <2>2, <2>3, <2>8, <2>9, <2>10
    <3> QED BY <2>8, <2>9, <3>1
  <2>12. ASSUME NEW i \in 1 .. k + 1, NEW j \in 1 .. k + 1, i < j
         PROVE  to[i] < to[j]
    <3>1. i \in 1 .. k /\ to[i] = at[i]
      BY <2>9, <2>10, <2>12
    <3>2. CASE j \in 1 .. k
      <4>1. to[j] = at[j]
        BY <2>9, <3>2
      <4> QED BY <2>3, <2>8, <2>12, <3>1, <3>2, <4>1
    <3>3. CASE j = k + 1
      <4>1. to[j] = line /\ at[i] \in lines
        <5> HIDE DEF lines
        <5> QED BY <2>3, <2>8, <2>9, <2>10, <3>1, <3>3
      <4> HIDE DEF lines
      <4> QED BY <2>2, <3>1, <4>1
    <3> QED BY <2>10, <3>2, <3>3
  <2>13. ASSUME NEW i \in 1 .. k + 1 PROVE longer[i] = Endpoint(file[to[i]].value)
    <3>1. CASE i \in 1 .. k
      <4>1. to[i] = at[i]
        BY <2>9, <3>1
      <4> QED BY <2>3, <2>8, <3>1, <4>1
    <3>2. CASE i = k + 1
      <4>1. to[i] = line
        BY <2>9, <2>10, <3>2
      <4> QED BY <2>8, <3>2, <4>1
    <3> QED BY <2>10, <3>1, <3>2
  <2>14. DOMAIN to = 1 .. k + 1
    BY <2>9
  <2>15. ListedBefore(longer, line + 1)
    <3> HIDE DEF Endpoint
    <3> QED BY <2>1, <2>6, <2>8, <2>11, <2>12, <2>13, <2>14 DEF ListedBefore
  <2> QED BY <2>7, <2>15
<1>4. ASSUME file[line].key = "market_data_stream", GoodStream(file[line].value)
      PROVE  Append(streams, e) \in Seq([host : Hosts, port : 1 .. U16 - 1])
  <2>1. /\ file[line].value.port \in Nat /\ file[line].value.port % U16 # 0 /\ U16 \in Nat \ {0}
        /\ file[line].value.host \in Hosts
    <3>1. file[line].value.port \in Nat \cup {NaN}
      <4>1. file \in Files
        BY DEF FileRead
      <4> QED BY <1>1, <1>4, <4>1, FileIs
    <3> QED BY <1>1, <1>4, <3>1, StartupAssumption DEF GoodStream, Hosts
  <2>2. file[line].value.port % U16 \in 1 .. U16 - 1
    BY <2>1
  <2>3. e \in [host : Hosts, port : 1 .. U16 - 1]
    <3> HIDE DEF Hosts
    <3> QED BY <2>1, <2>2 DEF Endpoint
  <2> HIDE DEF e, Hosts
  <2> QED BY <2>3
<1> QED BY <1>2, <1>3, <1>4

LEMMA InitRead == Init => FileRead /\ Verdict
<1> SUFFICES ASSUME Init PROVE FileRead /\ Verdict
  OBVIOUS
<1>0. Defaults.market_data_streams = <<>> /\ Defaults.max_book_contracts \in Nat
  BY SMT DEF Defaults
<1>1. /\ file \in Files /\ line = 1 /\ config = Defaults /\ stage = "reading"
      /\ config.market_data_streams = <<>>
  BY <1>0, SMT DEF Init
<1>2. \A key : GivenBefore(key, 1) = {}
  BY DEF GivenBefore
<1>3. Len(file) \in Nat
  BY <1>1, FileIs
<1>4. ListedBefore(<<>>, 1)
  <2>1. PICK at : at = [i \in {} |-> i]
    OBVIOUS
  <2>2. at \in [DOMAIN <<>> -> {}] /\ DOMAIN at = {}
    BY <2>1
  <2>3. IsFiniteSet({}) /\ Len(<<>>) = Cardinality({})
    BY FS_EmptySet
  <2> QED BY <1>2, <2>2, <2>3 DEF ListedBefore
<1>5. FileRead
  <2>1. line \in 1 .. Len(file) + 1 /\ \A i \in 1 .. line - 1 : Good(file[i])
    BY <1>1, <1>3
  <2>2. \A key \in Numbers \cup Strings : config[key] = SaidBefore(key, line)
    BY <1>1, <1>2 DEF SaidBefore
  <2>3. <<>> \in Seq([host : Hosts, port : 1 .. U16 - 1])
    OBVIOUS
  <2> QED BY <1>0, <1>1, <1>4, <2>1, <2>2, <2>3 DEF FileRead
<1>6. Verdict
  BY <1>1 DEF Verdict, Begun
<1> QED BY <1>5, <1>6

LEMMA SameRead ==
    ASSUME FileRead, UNCHANGED <<file, line, config>>
    PROVE  FileRead'
BY DEF FileRead, ListedBefore, SaidBefore, GivenBefore, Hosts

\* Everything that FileRead and Verdict speak of stays.
LEMMA ReadKept ==
    ASSUME FileRead, Verdict, UNCHANGED reading, stage \in Begun, stage' \in Begun
    PROVE  FileRead' /\ Verdict'
<1>1. UNCHANGED <<file, token_file, line, config>>
  BY DEF reading
<1>2. FileRead'
  BY <1>1, SameRead
<1>3. Verdict'
  BY <1>1 DEF Verdict, Complete, Tokens, Begun
<1> QED BY <1>2, <1>3

LEMMA LineRead ==
    ASSUME FileRead, Verdict, ReadLine
    PROVE  FileRead' /\ Verdict'
<1>1. /\ stage = "reading" /\ line <= Len(file) /\ UNCHANGED <<file, token_file>>
      /\ line \in Nat /\ Len(file) \in Nat /\ line \in 1 .. Len(file) /\ line \in DOMAIN file
  BY FileIs DEF ReadLine, FileRead
<1>2. CASE Good(file[line]) /\ config' = Assign(file[line]) /\ line' = line + 1 /\ UNCHANGED stage
  <2>1. PICK l : l = file[line]
    OBVIOUS
  <2>2. /\ DOMAIN config' = DOMAIN Defaults
        /\ \A key \in Numbers \cup Strings :
            config'[key] = IF key = l.key THEN Cast(key, l.value) ELSE config[key]
        /\ config'.market_data_streams =
            IF l.key = "market_data_stream"
            THEN Append(config.market_data_streams, Endpoint(l.value))
            ELSE config.market_data_streams
        /\ l.key = "market_data_stream" => GoodStream(l.value)
    <3>1. DOMAIN config = DOMAIN Defaults
      BY DEF FileRead
    <3> HIDE DEF Defaults
    <3> QED BY <1>2, <2>1, <3>1, Assigned
  <2>3. \A key \in Numbers \cup Strings : config'[key] = SaidBefore(key, line + 1)
    <3>1. \A key \in Numbers \cup Strings : config[key] = SaidBefore(key, line)
      BY DEF FileRead
    <3>2. file \in Files
      BY DEF FileRead
    <3> HIDE DEF Numbers, Strings, SaidBefore
    <3> QED BY <1>1, <2>1, <2>2, <3>1, <3>2, SaidLast
  <2>4. /\ ListedBefore(config'.market_data_streams, line + 1)
        /\ config'.market_data_streams \in Seq([host : Hosts, port : 1 .. U16 - 1])
    <3>1. /\ config.market_data_streams \in Seq([host : Hosts, port : 1 .. U16 - 1])
          /\ ListedBefore(config.market_data_streams, line)
      BY DEF FileRead
    <3> HIDE DEF ListedBefore, Hosts, Endpoint
    <3> QED BY <1>1, <2>1, <2>2, <3>1, ListedLast
  <2>5. Hosts' = Hosts
    BY <1>1 DEF Hosts
  <2>6. ListedBefore(config'.market_data_streams, line + 1)
            <=> ListedBefore(config.market_data_streams, line)'
    BY <1>1, <1>2 DEF ListedBefore, GivenBefore
  <2>7. \A i \in 1 .. line' - 1 : Good(file'[i])
    <3>1. \A i \in 1 .. line' - 1 : i \in 1 .. line - 1 \/ i = line
      BY <1>1, <1>2
    <3>2. \A i \in 1 .. line - 1 : Good(file[i])
      BY DEF FileRead
    <3> HIDE DEF Good
    <3> QED BY <1>1, <1>2, <3>1, <3>2
  <2>8. line' \in 1 .. Len(file') + 1 /\ file' \in Files
    BY <1>1, <1>2 DEF FileRead
  <2>9. \A key \in Numbers \cup Strings : config'[key] = SaidBefore(key, line)'
    BY <1>1, <1>2, <2>3 DEF SaidBefore, GivenBefore
  <2>10. /\ config'.max_book_contracts \in Nat
         /\ config'.gr_tls_port \in 0 .. U16 - 1 \/ config'.gr_tls_port = Defaults.gr_tls_port
    <3>1. /\ "max_book_contracts" \in Numbers /\ "gr_tls_port" \in Numbers
          /\ \A v : Cast("max_book_contracts", v) = v /\ Cast("gr_tls_port", v) = v % U16
      BY DEF Numbers, Cast
    <3>2. l.key \in Numbers => l.value \in Nat
      <4>1. l.key \in Numbers => l.value \in Nat \cup {NaN}
        <5> HIDE DEF Numbers
        <5> QED BY <1>1, <2>1, FileIs DEF FileRead
      <4>2. l.key \in Numbers => l.value # NaN
        BY <1>2, <2>1, KeysAre DEF Good
      <4> QED BY <4>1, <4>2
    <3>3. U16 \in Nat \ {0}
      BY StartupAssumption
    <3>4. /\ config.max_book_contracts \in Nat
          /\ config.gr_tls_port \in 0 .. U16 - 1 \/ config.gr_tls_port = Defaults.gr_tls_port
      BY DEF FileRead
    <3>5. config'.max_book_contracts = IF l.key = "max_book_contracts" THEN l.value
                                       ELSE config.max_book_contracts
      <4> HIDE DEF Numbers
      <4> QED BY <2>2, <3>1
    <3>6. config'.gr_tls_port = IF l.key = "gr_tls_port" THEN l.value % U16 ELSE config.gr_tls_port
      <4> HIDE DEF Numbers
      <4> QED BY <2>2, <3>1
    <3>7. l.key = "gr_tls_port" => l.value % U16 \in 0 .. U16 - 1
      BY <3>1, <3>2, <3>3
    <3> HIDE DEF Numbers, Defaults
    <3> QED BY <3>1, <3>2, <3>4, <3>5, <3>6, <3>7
  <2>11. FileRead'
    <3> HIDE DEF Good, SaidBefore, ListedBefore, Hosts, Numbers, Strings, Defaults
    <3> QED BY <1>1, <2>2, <2>4, <2>5, <2>6, <2>7, <2>8, <2>9, <2>10 DEF FileRead
  <2>12. Verdict'
    BY <1>1, <1>2 DEF Verdict, Begun
  <2> QED BY <2>11, <2>12
<1>3. CASE ~Good(file[line]) /\ stage' = "rejected" /\ UNCHANGED <<config, line>>
  <2>1. FileRead'
    <3>1. UNCHANGED <<file, line, config>>
      BY <1>1, <1>3
    <3> QED BY <3>1, SameRead
  <2>2. Verdict'
    <3> HIDE DEF Good
    <3>1. line' \in DOMAIN file' /\ ~Good(file'[line'])
      BY <1>1, <1>3
    <3> QED BY <1>3, <3>1 DEF Verdict, Begun
  <2> QED BY <2>1, <2>2
<1> QED BY <1>2, <1>3 DEF ReadLine

LEMMA ReadStep == FileRead /\ Verdict /\ [Next]_vars => FileRead' /\ Verdict'
<1> SUFFICES ASSUME FileRead, Verdict, [Next]_vars PROVE FileRead' /\ Verdict'
  OBVIOUS
<1>1. CASE ReadLine
  BY <1>1, LineRead
<1>2. CASE EndOfFile \/ Construct
  <2>1. UNCHANGED <<file, token_file, line, config>>
    BY <1>2 DEF EndOfFile, Construct, reading
  <2>2. FileRead'
    BY <2>1, SameRead
  <2>3. Complete' = Complete /\ Tokens' = Tokens
    BY <2>1 DEF Complete, Tokens
  <2>4. line \in Nat /\ Len(file) \in Nat /\ line <= Len(file) + 1
    BY FileIs DEF FileRead
  <2> HIDE DEF Complete
  <2>5. CASE EndOfFile
    <3>1. line = Len(file) + 1 /\ stage' = IF Complete THEN "loaded" ELSE "rejected"
      BY <2>4, <2>5 DEF EndOfFile
    <3> HIDE DEF Tokens
    <3>2. Verdict'
      BY <2>1, <2>3, <3>1 DEF Verdict, Begun
    <3> QED BY <2>2, <3>2
  <2>6. CASE Construct
    <3>1. line = Len(file) + 1 /\ Complete /\ stage' = IF Tokens THEN "down" ELSE "rejected"
      BY <2>6 DEF Construct, Verdict, Tokens
    <3> HIDE DEF Tokens
    <3>2. Verdict'
      BY <2>1, <2>3, <3>1 DEF Verdict, Begun
    <3> QED BY <2>2, <3>2
  <2> QED BY <1>2, <2>5, <2>6
<1>3. CASE \/ BeginStart \/ InitializeTls \/ TlsFails \/ ListenGateway \/ ListenSession \/ OpenStream
           \/ SocketFails \/ Run \/ Stop \/ Destroy
  <2>1. UNCHANGED reading /\ stage \in Begun /\ stage' \in Begun
    BY <1>3 DEF BeginStart, InitializeTls, TlsFails, ListenGateway, ListenSession, OpenStream,
          SocketFails, Run, Stop, Destroy, Begun
  <2> QED BY <2>1, ReadKept
<1>4. CASE UNCHANGED vars
  <2>1. UNCHANGED <<file, token_file, line, config, stage>>
    BY <1>4 DEF vars, reading
  <2>2. FileRead'
    BY <2>1, SameRead
  <2>3. Verdict'
    BY <2>1 DEF Verdict, Complete, Tokens, Begun
  <2> QED BY <2>2, <2>3
<1> QED BY <1>1, <1>2, <1>3, <1>4 DEF Next

LEMMA Obeyed ==
    ASSUME FileRead, Verdict
    PROVE  FileObeyed
<1>1. /\ Len(file) \in Nat /\ DOMAIN file = 1 .. Len(file) /\ line \in 1 .. Len(file) + 1
      /\ \A i \in DOMAIN file : file[i].key \in Numbers => file[i].value \in Nat \cup {NaN}
  BY FileIs DEF FileRead
<1> DEFINE sound == \A i \in DOMAIN file : Good(file[i])
           complete ==
            /\ Said("tls_cert_pem") # "" /\ Said("tls_key_pem") # ""
            /\ Given("market_data_stream") # {} =>
                Said("token_filter_file") # "" /\ Said("max_book_contracts") # 0
            /\ Said("token_filter_file") # "" => token_file \notin {"missing", "bad"}
<1>2. ASSUME line = Len(file) + 1
      PROVE  /\ sound
             /\ Listed(config.market_data_streams)
             /\ \A key \in Numbers \cup Strings : config[key] = Said(key)
             /\ complete <=> Complete /\ Tokens
  <2>1. 1 .. line - 1 = DOMAIN file
    BY <1>1, <1>2
  <2>2. \A key : GivenBefore(key, line) = Given(key)
    BY <2>1 DEF GivenBefore, Given
  <2>3. sound
    BY <2>1 DEF FileRead
  <2>4. \A key \in Numbers \cup Strings : config[key] = Said(key)
    BY <2>2 DEF FileRead, SaidBefore, Said
  <2>5. Listed(config.market_data_streams)
    BY <2>2 DEF FileRead, ListedBefore, Listed
  <2>6. config.market_data_streams # <<>> <=> Given("market_data_stream") # {}
    <3>1. /\ IsFiniteSet(Given("market_data_stream"))
          /\ Len(config.market_data_streams) = Cardinality(Given("market_data_stream"))
          /\ config.market_data_streams \in Seq([host : Hosts, port : 1 .. U16 - 1])
      BY <2>2 DEF FileRead, ListedBefore
    <3>2. config.market_data_streams = <<>> <=> Len(config.market_data_streams) = 0
      <4>1. PICK q \in Seq([host : Hosts, port : 1 .. U16 - 1]) : q = config.market_data_streams
        BY <3>1
      <4>2. q = <<>> <=> Len(q) = 0
        BY EmptySeq
      <4> QED BY <4>1, <4>2
    <3>3. Cardinality(Given("market_data_stream")) = 0 <=> Given("market_data_stream") = {}
      BY <3>1, FS_EmptySet
    <3> QED BY <3>1, <3>2, <3>3
  <2>7. /\ config.tls_cert_pem = Said("tls_cert_pem") /\ config.tls_key_pem = Said("tls_key_pem")
        /\ config.token_filter_file = Said("token_filter_file")
        /\ config.max_book_contracts = Said("max_book_contracts")
    BY <2>4 DEF Numbers, Strings
  <2>8. config.max_book_contracts > 0 <=> Said("max_book_contracts") # 0
    <3>1. Said("max_book_contracts") \in Nat
      BY <2>7 DEF FileRead
    <3> QED BY <2>7, <3>1
  <2>9. complete <=> Complete /\ Tokens
    BY <2>6, <2>7, <2>8 DEF Complete, Tokens
  <2> QED BY <2>3, <2>4, <2>5, <2>9
<1> HIDE DEF sound, complete
<1>3. stage = "rejected" => ~sound \/ ~complete
  <2>1. ASSUME line \in DOMAIN file, ~Good(file[line]) PROVE ~sound
    BY <2>1 DEF sound
  <2> HIDE DEF Good, Complete, Tokens
  <2> QED BY <1>2, <2>1 DEF Verdict
<1>4. stage \notin {"reading", "loaded", "rejected"} =>
        /\ sound /\ complete /\ Listed(config.market_data_streams)
        /\ \A key \in Numbers \cup Strings : config[key] = Said(key)
  <2>1. ASSUME stage \notin {"reading", "loaded", "rejected"}
        PROVE  line = Len(file) + 1 /\ Complete /\ Tokens
    <3> HIDE DEF Complete, Tokens
    <3> QED BY <2>1 DEF Verdict
  <2> HIDE DEF Complete, Tokens, Listed, Said
  <2> QED BY <1>2, <2>1
<1> QED BY <1>3, <1>4 DEF FileObeyed, sound, complete

-----------------------------------------------------------------------------
(* The invariant of start() and stop().                                    *)

Trying == {"tls", "gateway", "session", "streams", "up"}
Keyed == {"gateway", "session", "streams", "up"}

\* Every failed call may have left a context; the current one has its own.
Counted ==
    /\ starts \in Nat /\ failed \in Nat /\ contexts \in Nat /\ ctx \in BOOLEAN
    /\ stage \in {"reading", "loaded", "rejected"} =>
        starts = 0 /\ failed = 0 /\ contexts = 0 /\ ~ctx /\ sockets = {}
    /\ failed + (IF stage \in Trying THEN 1 ELSE 0) <= starts
    /\ contexts <= failed + (IF stage \in Keyed THEN 1 ELSE 0)
    /\ stage \in Keyed => ctx
    /\ ctx => contexts >= 1
    /\ starts <= 1 /\ contexts = 1 => ctx
    /\ stage = "destroyed" => ~ctx

\* The streams this call of start() has opened.
Ours == {s \in sockets : s.kind = "udp" /\ s.start = starts}
StreamCount == Len(config.market_data_streams)

SocketsSound ==
    /\ next_fd \in Nat \ {0}
    /\ gateway_listen_fd \in 0 .. next_fd - 1 /\ session_listen_fd \in 0 .. next_fd - 1
    /\ market_data_fds \in Seq(Nat)
    /\ IsFiniteSet(sockets)
    /\ \A s \in sockets : s.fd \in 1 .. next_fd - 1 /\ s.kind \in {"tcp", "udp"}
    /\ \A s, t \in sockets : s.fd = t.fd => s = t
    /\ \A s \in Udp : s.start \in Nat /\ s.start <= starts /\ s.fd \in Range(market_data_fds)

StreamsOpened ==
    /\ stage \in {"tls", "gateway", "session"} => Ours = {}
    /\ stage \in {"streams", "up"} =>
        /\ Cardinality(Ours) <= StreamCount
        /\ \A i \in 1 .. Cardinality(Ours) :
            \E s \in Ours : s.port = config.market_data_streams[i].port
    /\ stage = "up" => Cardinality(Ours) = StreamCount

Listening(port) == port # 0 => \E s \in sockets : s.kind = "tcp" /\ s.port = port

\* A stream that is open keeps its call's listeners company, and no later call gets past
\* a listener whose port is fixed.
PortsTaken ==
    /\ Udp # {} => Listening(config.gr_tls_port) /\ Listening(config.session_port)
    /\ stage \in {"session", "streams", "up"} => Listening(config.gr_tls_port)
    /\ stage \in {"streams", "up"} => Listening(config.session_port)
    /\ stage = "session" /\ config.gr_tls_port # 0 => Udp = {}
    /\ stage \in {"streams", "up"} /\ (config.gr_tls_port # 0 \/ config.session_port # 0) =>
        Udp = Ours

\* What this call of start() has opened.
Current ==
    {s \in sockets :
        \/ stage \in {"session", "streams", "up"} /\ s.fd = gateway_listen_fd
        \/ stage \in {"streams", "up"} /\ (s.fd = session_listen_fd \/ s \in Ours)}

Leftovers ==
    \E left \in SUBSET sockets :
        /\ Cardinality(left) <= failed * (2 + StreamCount)
        /\ sockets \ left \subseteq Current

Sockets == SocketsSound /\ StreamsOpened /\ PortsTaken /\ Leftovers

LEMMA CountKept == Counted /\ [Next]_vars => Counted'
<1> SUFFICES ASSUME Counted, [Next]_vars PROVE Counted'
  OBVIOUS
<1>1. CASE ReadLine \/ EndOfFile \/ Construct
  <2>1. /\ UNCHANGED <<starts, failed, contexts, ctx, sockets>>
        /\ stage \in {"reading", "loaded"} /\ stage' \in {"reading", "loaded", "rejected", "down"}
    BY <1>1 DEF ReadLine, EndOfFile, Construct, kernel
  <2>2. starts = 0 /\ failed = 0 /\ contexts = 0 /\ ~ctx /\ sockets = {}
    BY <2>1 DEF Counted
  <2>3. stage' \notin Trying /\ stage' \notin Keyed /\ stage' # "destroyed"
    BY <2>1 DEF Trying, Keyed
  <2>4. starts' = 0 /\ failed' = 0 /\ contexts' = 0 /\ ~ctx' /\ sockets' = {}
    BY <2>1, <2>2
  <2>5. starts' \in Nat /\ failed' \in Nat /\ contexts' \in Nat
    BY <2>4
  <2>6. ctx' \in BOOLEAN
    BY <2>1 DEF Counted
  <2>7. failed' + (IF stage' \in Trying THEN 1 ELSE 0) <= starts'
    BY <2>3, <2>4
  <2>8. contexts' <= failed' + (IF stage' \in Keyed THEN 1 ELSE 0)
    BY <2>3, <2>4
  <2>9. starts' <= 1 /\ contexts' = 1 => ctx'
    BY <2>4
  <2>10. ctx' => contexts' >= 1
    BY <2>4
  <2>11. /\ stage' \in Keyed => ctx'
         /\ stage' = "destroyed" => ~ctx'
         /\ stage' \in {"reading", "loaded", "rejected"} =>
                starts' = 0 /\ failed' = 0 /\ contexts' = 0 /\ ~ctx' /\ sockets' = {}
    BY <2>3, <2>4
  <2> QED BY <2>5, <2>6, <2>7, <2>8, <2>9, <2>10, <2>11, Zenon DEF Counted
<1>2. CASE BeginStart
  BY <1>2 DEF Counted, Trying, Keyed, BeginStart, kernel
<1>3. CASE TlsFails
  <2>1. stage = "tls" /\ stage' = "down" /\ failed' = failed + 1 /\ starts' = starts
    BY <1>3 DEF TlsFails
  <2>2. CASE ctx' = FALSE /\ UNCHANGED contexts
    <3>1. ~ctx' /\ ctx' \in BOOLEAN
      BY <2>2, Zenon
    <3>2. contexts' = contexts
      BY <2>2
    <3>3. contexts = 1 => starts > 1
      BY <2>1 DEF Counted, Trying, Keyed
    <3> HIDE <2>2
    <3> QED BY <2>1, <3>1, <3>2, <3>3 DEF Counted, Trying, Keyed
  <2>3. CASE ctx' = TRUE /\ contexts' = contexts + 1
    BY <2>1, <2>3 DEF Counted, Trying, Keyed
  <2> QED BY <1>3, <2>2, <2>3 DEF TlsFails
<1>4. CASE InitializeTls
  BY <1>4 DEF Counted, Trying, Keyed, InitializeTls
<1>5. CASE ListenGateway \/ ListenSession \/ OpenStream \/ Run
  <2>1. /\ UNCHANGED <<starts, failed, contexts, ctx>>
        /\ stage \in Keyed /\ stage' \in Keyed
    BY <1>5 DEF ListenGateway, ListenSession, OpenStream, Run, kernel, Keyed
  <2>2. stage \in Trying /\ stage' \in Trying
    BY <2>1 DEF Keyed, Trying
  <2>3. stage' \notin {"reading", "loaded", "rejected", "destroyed"}
    BY <2>1 DEF Keyed
  <2> QED BY <2>1, <2>2, <2>3 DEF Counted
<1>6. CASE SocketFails
  <2>1. /\ UNCHANGED <<starts, contexts, ctx>> /\ failed' = failed + 1
        /\ stage \in Keyed /\ stage' = "down"
    BY <1>6 DEF SocketFails, kernel, Keyed
  <2>2. stage \in Trying /\ stage' \notin Trying /\ stage' \notin Keyed
    BY <2>1 DEF Trying, Keyed
  <2>3. /\ starts \in Nat /\ failed \in Nat /\ contexts \in Nat /\ ctx
        /\ failed + 1 <= starts /\ contexts <= failed + 1
    BY <2>1, <2>2 DEF Counted
  <2> QED BY <2>1, <2>2, <2>3 DEF Counted
<1>7. CASE Stop
  <2>1. /\ UNCHANGED <<starts, failed>> /\ stage = "up" /\ stage' = "down"
        /\ ctx /\ contexts' = contexts - 1
    BY <1>7 DEF Stop, Cleanup, Counted, Keyed
  <2>2. stage \in Trying /\ stage \in Keyed /\ stage' \notin Trying /\ stage' \notin Keyed
    BY <2>1 DEF Trying, Keyed
  <2>3. /\ starts \in Nat /\ failed \in Nat /\ contexts \in Nat /\ contexts >= 1
        /\ failed + 1 <= starts /\ contexts <= failed + 1
    BY <2>1, <2>2 DEF Counted
  <2>4. ~(starts <= 1 /\ contexts - 1 = 1)
    BY <2>3
  <2>5. ctx' = FALSE
    BY <1>7 DEF Stop, Cleanup
  <2>6. ~ctx' /\ ctx' \in BOOLEAN
    BY <2>5, Zenon
  <2> HIDE <2>5
  <2> QED BY <2>1, <2>2, <2>3, <2>4, <2>6 DEF Counted
<1>8. CASE Destroy
  <2>1. /\ UNCHANGED <<starts, failed>> /\ stage = "down" /\ stage' = "destroyed"
        /\ contexts' = IF ctx THEN contexts - 1 ELSE contexts
    BY <1>8 DEF Destroy, Cleanup
  <2>4. ctx' = FALSE
    BY <1>8 DEF Destroy, Cleanup
  <2>5. ~ctx' /\ ctx' \in BOOLEAN
    BY <2>4, Zenon
  <2> HIDE <2>4
  <2>2. CASE ctx
    BY <2>1, <2>2, <2>5 DEF Counted, Trying, Keyed
  <2>3. CASE ~ctx
    BY <2>1, <2>3, <2>5 DEF Counted, Trying, Keyed
  <2> QED BY <2>2, <2>3
<1>9. CASE UNCHANGED vars
  BY <1>9 DEF vars, kernel, Counted
<1> QED BY <1>1, <1>2, <1>3, <1>4, <1>5, <1>6, <1>7, <1>8, <1>9 DEF Next

LEMMA RangeAppend ==
    ASSUME NEW S, NEW s \in Seq(S), NEW e \in S
    PROVE  Range(Append(s, e)) = Range(s) \cup {e}
<1>1. PICK t : t = Append(s, e)
  OBVIOUS
<1>2. /\ DOMAIN t = 1 .. Len(s) + 1 /\ DOMAIN s = 1 .. Len(s) /\ Len(s) \in Nat
      /\ \A i \in 1 .. Len(s) : t[i] = s[i]
      /\ t[Len(s) + 1] = e
  BY <1>1
<1>3. ASSUME NEW x \in Range(t) PROVE x \in Range(s) \cup {e}
  BY <1>2, <1>3 DEF Range
<1>4. ASSUME NEW x \in Range(s) \cup {e} PROVE x \in Range(t)
  <2>1. CASE x = e
    BY <1>2, <2>1 DEF Range
  <2>2. CASE x \in Range(s)
    <3>1. PICK i \in 1 .. Len(s) : x = s[i]
      BY <1>2, <2>2 DEF Range
    <3>2. i \in DOMAIN t /\ t[i] = x
      BY <1>2, <3>1
    <3> QED BY <3>2 DEF Range
  <2> QED BY <1>4, <2>1, <2>2
<1> QED BY <1>1, <1>3, <1>4

\* While the file is read there is nothing yet.
LEMMA NothingYet ==
    ASSUME Counted, SocketsSound, UNCHANGED <<fds, kernel, starts, failed>>,
           stage \in {"reading", "loaded"}, stage' \in {"reading", "loaded", "rejected", "down"},
           StreamCount' \in Nat
    PROVE  Sockets'
<1>1. sockets = {} /\ sockets' = {} /\ failed = 0 /\ failed' = 0 /\ starts' = starts
  BY DEF Counted, kernel
<1>2. SocketsSound'
  BY <1>1 DEF SocketsSound, Udp, fds, kernel
<1>3. StreamsOpened'
  BY DEF StreamsOpened
<1>4. PortsTaken'
  BY <1>1 DEF PortsTaken, Udp
<1>5. Leftovers'
  <2>1. Cardinality({}) = 0
    BY FS_EmptySet
  <2>2. failed' * (2 + StreamCount') = 0
    <3> HIDE DEF StreamCount
    <3>1. PICK n \in Nat : n = StreamCount'
      OBVIOUS
    <3>2. 0 * (2 + n) = 0
      OBVIOUS
    <3> QED BY <1>1, <3>1, <3>2
  <2>3. {} \in SUBSET sockets' /\ sockets' \ {} \subseteq Current'
    BY <1>1
  <2>4. Cardinality({}) <= failed' * (2 + StreamCount')
    BY <2>1, <2>2
  <2> HIDE DEF Current, StreamCount
  <2> QED BY <2>3, <2>4 DEF Leftovers
<1> QED BY <1>2, <1>3, <1>4, <1>5 DEF Sockets

\* The counts that a step leaves alone.
LEMMA SameSockets ==
    ASSUME SocketsSound, UNCHANGED <<fds, sockets, next_fd>>, starts' >= starts,
           starts \in Nat, starts' \in Nat
    PROVE  SocketsSound'
BY DEF SocketsSound, Udp, fds

LEMMA TimesGrows ==
    ASSUME NEW a \in Nat, NEW b \in Nat, NEW n \in Nat, a <= b
    PROVE  a * n \in Nat /\ b * n \in Nat /\ a * n <= b * n
<1>1. PICK more \in Nat : b = a + more
  <2>1. b - a \in Nat /\ b = a + (b - a)
    OBVIOUS
  <2> QED BY <2>1
<1>2. a * n \in Nat /\ more * n \in Nat /\ b * n = a * n + more * n
  BY <1>1
<1> QED BY <1>2

LEMMA LeftoversKept ==
    ASSUME SocketsSound, Leftovers, sockets \subseteq sockets', sockets' \ sockets \subseteq Current',
           Current \subseteq Current', UNCHANGED config, failed \in Nat, failed' \in Nat,
           StreamCount \in Nat, failed' >= failed
    PROVE  Leftovers'
<1>1. PICK left \in SUBSET sockets :
        Cardinality(left) <= failed * (2 + StreamCount) /\ sockets \ left \subseteq Current
  BY DEF Leftovers
<1>2. left \in SUBSET sockets' /\ sockets' \ left \subseteq Current'
  <2> HIDE DEF Current
  <2> QED BY <1>1
<1>3. Cardinality(left) <= failed' * (2 + StreamCount')
  <2>1. StreamCount' = StreamCount
    BY DEF StreamCount
  <2> HIDE DEF StreamCount
  <2>2. PICK n \in Nat : n = 2 + StreamCount
    OBVIOUS
  <2>3. PICK c \in Nat : c = Cardinality(left)
    <3>1. IsFiniteSet(left)
      BY FS_Subset DEF SocketsSound
    <3> QED BY <3>1, FS_CardinalityType
  <2>4. failed * n \in Nat /\ failed' * n \in Nat /\ failed * n <= failed' * n
    BY TimesGrows
  <2> QED BY <1>1, <2>1, <2>2, <2>3, <2>4
<1> HIDE DEF Current, StreamCount
<1> QED BY <1>2, <1>3 DEF Leftovers

LEMMA OneSocket ==
    ASSUME SocketsSound, NEW n
    PROVE  LET here == {s \in sockets : s.fd = n}
           IN  IsFiniteSet(here) /\ Cardinality(here) \in 0 .. 1
<1> DEFINE here == {s \in sockets : s.fd = n}
<1>1. \A s, t \in here : s = t
  BY DEF SocketsSound
<1> HIDE DEF here
<1>2. CASE here = {}
  BY <1>2, FS_EmptySet DEF here
<1>3. CASE here # {}
  <2>1. PICK s : here = {s}
    BY <1>1, <1>3
  <2>2. IsFiniteSet({s}) /\ Cardinality({s}) = 1
    BY FS_Singleton
  <2> QED BY <2>1, <2>2 DEF here
<1> QED BY <1>2, <1>3

\* One call of start() opens two listeners and the configured streams at most.
LEMMA CurrentFew ==
    ASSUME SocketsSound, StreamsOpened, StreamCount \in Nat
    PROVE  IsFiniteSet(Current) /\ Cardinality(Current) \in 0 .. 2 + StreamCount
<1> DEFINE g == {s \in sockets : s.fd = gateway_listen_fd}
           l == {s \in sockets : s.fd = session_listen_fd}
           o == IF stage \in {"streams", "up"} THEN Ours ELSE {}
<1>1. IsFiniteSet(g) /\ Cardinality(g) \in 0 .. 1 /\ IsFiniteSet(l) /\ Cardinality(l) \in 0 .. 1
  BY OneSocket
<1>2. IsFiniteSet(o) /\ Cardinality(o) \in 0 .. StreamCount
  <2>1. IsFiniteSet(Ours) /\ Cardinality(Ours) \in Nat
    <3>1. IsFiniteSet(sockets) /\ Ours \subseteq sockets
      BY DEF SocketsSound, Ours
    <3> HIDE DEF Ours
    <3>2. IsFiniteSet(Ours)
      BY <3>1, FS_Subset
    <3> QED BY <3>2, FS_CardinalityType
  <2>2. IsFiniteSet({}) /\ Cardinality({}) = 0
    BY FS_EmptySet
  <2> HIDE DEF Ours, StreamCount
  <2>3. stage \in {"streams", "up"} => Cardinality(Ours) <= StreamCount
    BY DEF StreamsOpened
  <2> QED BY <2>1, <2>2, <2>3
<1>3. Current \subseteq (g \cup l) \cup o
  BY DEF Current
<1> HIDE DEF g, l, o, Current, StreamCount
<1>4. IsFiniteSet(g \cup l) /\ Cardinality(g \cup l) \in 0 .. 2
  <2>1. /\ IsFiniteSet(g \cup l)
        /\ Cardinality(g \cup l) = Cardinality(g) + Cardinality(l) - Cardinality(g \cap l)
    BY <1>1, FS_Union
  <2>2. IsFiniteSet(g \cap l) /\ Cardinality(g \cap l) \in Nat
    <3>1. IsFiniteSet(g \cap l)
      BY <1>1, FS_Intersection
    <3> QED BY <3>1, FS_CardinalityType
  <2>3. Cardinality(g \cup l) \in Nat
    BY <2>1, FS_CardinalityType
  <2> QED BY <1>1, <2>1, <2>2, <2>3
<1>5. IsFiniteSet((g \cup l) \cup o) /\ Cardinality((g \cup l) \cup o) \in 0 .. 2 + StreamCount
  <2> DEFINE b == g \cup l
  <2> HIDE DEF b
  <2>0. IsFiniteSet(b) /\ Cardinality(b) \in 0 .. 2
    BY <1>4 DEF b
  <2>1. /\ IsFiniteSet(b \cup o)
        /\ Cardinality(b \cup o) = Cardinality(b) + Cardinality(o) - Cardinality(b \cap o)
    BY <2>0, <1>2, FS_Union
  <2>2. IsFiniteSet(b \cap o) /\ Cardinality(b \cap o) \in Nat
    <3>1. IsFiniteSet(b \cap o)
      BY <2>0, <1>2, FS_Intersection
    <3> QED BY <3>1, FS_CardinalityType
  <2>3. Cardinality(b \cup o) \in Nat
    BY <2>1, FS_CardinalityType
  <2>4. Cardinality(b \cup o) \in 0 .. 2 + StreamCount
    BY <2>0, <1>2, <2>1, <2>2, <2>3
  <2> QED BY <2>1, <2>4 DEF b
<1>6. /\ IsFiniteSet(Current) /\ Cardinality(Current) <= Cardinality((g \cup l) \cup o)
  BY <1>3, <1>5, FS_Subset
<1>7. Cardinality(Current) \in Nat
  BY <1>6, FS_CardinalityType
<1> QED BY <1>5, <1>6, <1>7

\* Steps that open and close nothing.
LEMMA SocketsStay ==
    ASSUME Counted, Counted', Sockets, StreamCount \in Nat,
           BeginStart \/ InitializeTls \/ TlsFails \/ SocketFails \/ Run \/ Destroy
    PROVE  Sockets'
<1>1. /\ UNCHANGED <<fds, sockets, next_fd, config>>
      /\ starts \in Nat /\ starts' \in Nat /\ starts' >= starts
      /\ failed \in Nat /\ failed' \in Nat /\ failed' >= failed
  <2>1. UNCHANGED <<fds, sockets, next_fd, config>>
    BY DEF BeginStart, InitializeTls, TlsFails, SocketFails, Run, Destroy, kernel, reading
  <2>2. starts \in Nat /\ failed \in Nat /\ starts' \in Nat /\ failed' \in Nat
    BY DEF Counted
  <2>3. starts' \in {starts, starts + 1} /\ failed' \in {failed, failed + 1}
    BY DEF BeginStart, InitializeTls, TlsFails, SocketFails, Run, Destroy
  <2> QED BY <2>1, <2>2, <2>3
<1>2. SocketsSound'
  BY <1>1, SameSockets DEF Sockets
<1>3. Udp' = Udp /\ StreamCount' = StreamCount
  BY <1>1 DEF Udp, StreamCount
<1>4. CASE BeginStart
  <2>1. stage = "down" /\ stage' = "tls" /\ starts' = starts + 1
    BY <1>4 DEF BeginStart
  <2>2. Ours' = {}
    <3>1. \A s \in Udp : s.start \in Nat /\ s.start <= starts
      BY DEF Sockets, SocketsSound
    <3> QED BY <1>1, <2>1, <3>1 DEF Ours, Udp
  <2>3. StreamsOpened'
    BY <2>1, <2>2 DEF StreamsOpened
  <2>4. PortsTaken'
    BY <1>1, <1>3, <2>1 DEF Sockets, PortsTaken, Listening
  <2>5. Current = {}
    BY <2>1 DEF Current
  <2>6. Leftovers'
    BY <1>1, <2>5, LeftoversKept DEF Sockets
  <2> QED BY <1>2, <2>3, <2>4, <2>6 DEF Sockets
<1>5. CASE InitializeTls \/ Run
  <2>1. /\ UNCHANGED starts /\ UNCHANGED failed
        /\ \/ stage = "tls" /\ stage' = "gateway"
           \/ stage = "streams" /\ stage' = "up" /\ NextStream > StreamCount
    BY <1>5 DEF InitializeTls, Run, StreamCount
  <2>2. Ours' = Ours
    BY <1>1, <2>1 DEF Ours
  <2>3. StreamsOpened'
    <3>1. CASE stage = "tls"
      BY <2>1, <2>2, <3>1 DEF Sockets, StreamsOpened
    <3>2. CASE stage = "streams"
      <4>1. /\ Cardinality(Ours) <= StreamCount
            /\ \A i \in 1 .. Cardinality(Ours) :
                \E s \in Ours : s.port = config.market_data_streams[i].port
        BY <3>2 DEF Sockets, StreamsOpened
      <4>2. Cardinality(Ours) \in Nat
        <5>1. IsFiniteSet(sockets) /\ Ours \subseteq sockets
          BY DEF Sockets, SocketsSound, Ours
        <5> HIDE DEF Ours
        <5> QED BY <5>1, FS_Subset, FS_CardinalityType
      <4>3. NextStream = 1 + Cardinality(Ours)
        BY DEF NextStream, Ours
      <4>4. Cardinality(Ours) = StreamCount
        <5> HIDE DEF StreamCount, Ours
        <5> QED BY <2>1, <3>2, <4>1, <4>2, <4>3
      <4> QED BY <1>1, <1>3, <2>1, <2>2, <3>2, <4>1, <4>4 DEF StreamsOpened
    <3> QED BY <2>1, <3>1, <3>2
  <2>4. PortsTaken'
    <3>1. CASE stage = "tls"
      BY <1>1, <1>3, <2>1, <3>1 DEF Sockets, PortsTaken, Listening
    <3>2. CASE stage = "streams"
      BY <1>1, <1>3, <2>1, <2>2, <3>2 DEF Sockets, PortsTaken, Listening
    <3> QED BY <2>1, <3>1, <3>2
  <2>5. Current \subseteq Current'
    BY <1>1, <2>1, <2>2 DEF Current, fds
  <2>6. Leftovers'
    BY <1>1, <2>5, LeftoversKept DEF Sockets
  <2> QED BY <1>2, <2>3, <2>4, <2>6 DEF Sockets
<1>6. CASE TlsFails \/ SocketFails \/ Destroy
  <2>1. stage' \in {"down", "destroyed"}
    BY <1>6 DEF TlsFails, SocketFails, Destroy
  <2>2. StreamsOpened'
    BY <2>1 DEF StreamsOpened
  <2>3. PortsTaken'
    BY <1>1, <1>3, <2>1 DEF Sockets, PortsTaken, Listening
  <2>4. Leftovers'
    <3>1. CASE TlsFails \/ Destroy
      <4>1. Current = {}
        BY <3>1 DEF Current, TlsFails, Destroy
      <4> QED BY <1>1, <4>1, LeftoversKept DEF Sockets
    <3>2. CASE SocketFails
      <4>1. PICK left \in SUBSET sockets :
              Cardinality(left) <= failed * (2 + StreamCount) /\ sockets \ left \subseteq Current
        BY DEF Sockets, Leftovers
      <4>2. IsFiniteSet(Current) /\ Cardinality(Current) \in 0 .. 2 + StreamCount
        BY CurrentFew DEF Sockets
      <4>3. IsFiniteSet(sockets) /\ sockets = left \cup Current
        <5>1. Current \subseteq sockets
          BY DEF Current
        <5> HIDE DEF Current
        <5> QED BY <4>1, <5>1 DEF Sockets, SocketsSound
      <4> HIDE DEF Current, StreamCount
      <4>4. IsFiniteSet(left)
        BY <4>3, FS_Subset
      <4>5. PICK a \in Nat, b \in Nat, c \in Nat :
                /\ a = Cardinality(left) /\ b = Cardinality(Current)
                /\ c = Cardinality(left \cap Current)
        <5>1. IsFiniteSet(left \cap Current)
          BY <4>4, FS_Subset
        <5> QED BY <4>2, <4>4, <5>1, FS_CardinalityType
      <4>6. Cardinality(sockets) = a + b - c
        BY <4>2, <4>3, <4>4, <4>5, FS_Union
      <4>7. PICK n \in Nat : n = 2 + StreamCount
        OBVIOUS
      <4>8. failed' = failed + 1
        BY <3>2 DEF SocketFails
      <4>9. (failed + 1) * n = failed * n + n /\ failed * n \in Nat
        BY <1>1, <4>7
      <4>10. a <= failed * n /\ b <= n
        BY <4>1, <4>2, <4>5, <4>7
      <4>11. Cardinality(sockets) <= (failed + 1) * n
        BY <4>6, <4>9, <4>10
      <4>12. Cardinality(sockets') <= failed' * (2 + StreamCount')
        BY <1>1, <1>3, <4>7, <4>8, <4>11
      <4>13. sockets' \in SUBSET sockets' /\ sockets' \ sockets' \subseteq Current'
        OBVIOUS
      <4> QED BY <4>12, <4>13 DEF Leftovers
    <3> QED BY <1>6, <3>1, <3>2
  <2> QED BY <1>2, <2>2, <2>3, <2>4 DEF Sockets
<1> QED BY <1>4, <1>5, <1>6

\* A socket more.
LEMMA NewSound ==
    ASSUME SocketsSound, NEW s, s.fd = next_fd, s.kind \in {"tcp", "udp"},
           sockets' = sockets \cup {s}, next_fd' = next_fd + 1,
           gateway_listen_fd' \in {gateway_listen_fd, next_fd},
           session_listen_fd' \in {session_listen_fd, next_fd},
           market_data_fds' \in Seq(Nat), Range(market_data_fds) \subseteq Range(market_data_fds'),
           UNCHANGED starts,
           s.kind = "udp" => s.start \in Nat /\ s.start <= starts /\ s.fd \in Range(market_data_fds')
    PROVE  SocketsSound' /\ s \notin sockets
<1>1. next_fd \in Nat \ {0} /\ s \notin sockets /\ \A t \in sockets : t.fd # next_fd
  BY DEF SocketsSound
<1>2. /\ next_fd' \in Nat \ {0}
      /\ gateway_listen_fd' \in 0 .. next_fd' - 1 /\ session_listen_fd' \in 0 .. next_fd' - 1
  BY DEF SocketsSound
<1>3. IsFiniteSet(sockets')
  BY FS_AddElement DEF SocketsSound
<1>4. \A t \in sockets' : t.fd \in 1 .. next_fd' - 1 /\ t.kind \in {"tcp", "udp"}
  BY <1>1 DEF SocketsSound
<1>5. \A t, u \in sockets' : t.fd = u.fd => t = u
  BY <1>1 DEF SocketsSound
<1>6. \A t \in Udp' : t.start \in Nat /\ t.start <= starts' /\ t.fd \in Range(market_data_fds')
  BY DEF SocketsSound, Udp
<1> QED BY <1>1, <1>2, <1>3, <1>4, <1>5, <1>6 DEF SocketsSound

\* A listener shuts out every stream of an earlier call, if its port is fixed.
LEMMA ShutsOut ==
    ASSUME PortsTaken, NEW port \in {config.gr_tls_port, config.session_port},
           Free(port), port # 0
    PROVE  Udp = {}
BY DEF PortsTaken, Free, Listening

LEMMA ListenerOpened ==
    ASSUME Counted, Counted', Sockets, StreamCount \in Nat, ListenGateway \/ ListenSession
    PROVE  Sockets'
<1>1. PICK port, s :
        /\ s = [fd |-> next_fd, kind |-> "tcp", port |-> port] /\ Free(port)
        /\ sockets' = sockets \cup {s} /\ next_fd' = next_fd + 1
        /\ UNCHANGED <<market_data_fds, starts, failed, config>>
        /\ \/ /\ stage = "gateway" /\ stage' = "session" /\ port = config.gr_tls_port
              /\ gateway_listen_fd' = next_fd /\ UNCHANGED session_listen_fd
           \/ /\ stage = "session" /\ stage' = "streams" /\ port = config.session_port
              /\ session_listen_fd' = next_fd /\ UNCHANGED gateway_listen_fd
  <2>1. CASE ListenGateway
    BY <2>1 DEF ListenGateway, NewSocket, reading
  <2>2. CASE ListenSession
    BY <2>2 DEF ListenSession, NewSocket, reading
  <2> QED BY <2>1, <2>2
<1>2. s.fd = next_fd /\ s.kind = "tcp" /\ s.port = port
  BY <1>1
<1>3. SocketsSound' /\ s \notin sockets
  <2>1. /\ SocketsSound /\ market_data_fds' \in Seq(Nat)
        /\ Range(market_data_fds) \subseteq Range(market_data_fds')
        /\ gateway_listen_fd' \in {gateway_listen_fd, next_fd}
        /\ session_listen_fd' \in {session_listen_fd, next_fd}
    BY <1>1 DEF Sockets, SocketsSound
  <2>2. s.kind \in {"tcp", "udp"} /\ s.kind # "udp"
    BY <1>2
  <2> QED BY <1>1, <1>2, <2>1, <2>2, NewSound
<1>4. Ours' = Ours /\ Ours = {} /\ Udp' = Udp
  <2>1. Ours' = Ours /\ Udp' = Udp
    BY <1>1, <1>2 DEF Ours, Udp
  <2>2. Ours = {}
    BY <1>1 DEF Sockets, StreamsOpened
  <2> QED BY <2>1, <2>2
<1>5. StreamsOpened'
  <2>1. Cardinality(Ours') = 0
    BY <1>4, FS_EmptySet
  <2>2. StreamCount' = StreamCount
    BY <1>1 DEF StreamCount
  <2> HIDE DEF Ours, StreamCount
  <2>3. Cardinality(Ours') <= StreamCount' /\ \A i \in 1 .. Cardinality(Ours') : FALSE
    BY <2>1, <2>2
  <2>4. stage' \in {"session", "streams"}
    BY <1>1
  <2> QED BY <1>4, <2>3, <2>4 DEF StreamsOpened
<1>6. PortsTaken'
  <2>1. \A p : Listening(p) => Listening(p)'
    BY <1>1 DEF Listening
  <2>2. Listening(port)'
    BY <1>1, <1>2 DEF Listening
  <2>3. port # 0 => Udp = {}
    BY <1>1, ShutsOut DEF Sockets
  <2>4. PortsTaken
    BY DEF Sockets
  <2>5. CASE stage = "gateway"
    <3>1. stage' = "session" /\ port = config.gr_tls_port
      BY <1>1, <2>5
    <3> HIDE DEF Listening, Udp, Ours
    <3> QED BY <1>1, <1>4, <2>1, <2>2, <2>3, <2>4, <3>1 DEF PortsTaken
  <2>6. CASE stage = "session"
    <3>1. stage' = "streams" /\ port = config.session_port
      BY <1>1, <2>6
    <3> HIDE DEF Listening, Udp, Ours
    <3> QED BY <1>1, <1>4, <2>1, <2>2, <2>3, <2>4, <2>6, <3>1 DEF PortsTaken
  <2> QED BY <1>1, <2>5, <2>6
<1>7. Leftovers'
  <2>1. s \in Current'
    BY <1>1, <1>2 DEF Current
  <2>2. Current \subseteq Current'
    <3>1. CASE stage = "gateway"
      BY <3>1 DEF Current
    <3>2. CASE stage = "session"
      BY <1>1, <1>4, <3>2 DEF Current
    <3> QED BY <1>1, <3>1, <3>2
  <2>3. sockets \subseteq sockets' /\ sockets' \ sockets \subseteq Current'
    BY <1>1, <2>1
  <2>4. failed \in Nat /\ failed' \in Nat /\ failed' >= failed
    BY <1>1 DEF Counted
  <2> HIDE DEF Current
  <2> QED BY <1>1, <2>2, <2>3, <2>4, LeftoversKept DEF Sockets
<1> QED BY <1>3, <1>5, <1>6, <1>7 DEF Sockets

LEMMA StreamOpened ==
    ASSUME Counted, Counted', Sockets, StreamCount \in Nat, OpenStream
    PROVE  Sockets'
<1>1. /\ stage = "streams" /\ stage' = "streams" /\ NextStream <= StreamCount
      /\ sockets' = sockets \cup {[fd |-> next_fd, kind |-> "udp", start |-> starts,
                                   port |-> config.market_data_streams[NextStream].port]}
      /\ next_fd' = next_fd + 1 /\ market_data_fds' = Append(market_data_fds, next_fd)
      /\ UNCHANGED <<gateway_listen_fd, session_listen_fd, starts, failed, config>>
  BY DEF OpenStream, reading, StreamCount
<1>2. PICK s : s = [fd |-> next_fd, kind |-> "udp", start |-> starts,
                    port |-> config.market_data_streams[NextStream].port]
  OBVIOUS
<1>3. /\ s.fd = next_fd /\ s.kind = "udp" /\ s.start = starts
      /\ s.port = config.market_data_streams[NextStream].port
  BY <1>2
<1>4. sockets' = sockets \cup {s}
  BY <1>1, <1>2
<1>5. SocketsSound /\ starts \in Nat /\ failed \in Nat
  BY DEF Sockets, Counted
<1>6. SocketsSound' /\ s \notin sockets
  <2>1. next_fd \in Nat /\ market_data_fds \in Seq(Nat)
    BY <1>5 DEF SocketsSound
  <2>2. Range(market_data_fds') = Range(market_data_fds) \cup {next_fd}
    BY <1>1, <2>1, RangeAppend
  <2>3. market_data_fds' \in Seq(Nat)
    BY <1>1, <2>1
  <2>4. s.kind \in {"tcp", "udp"} /\ s.start <= starts
    BY <1>3, <1>5
  <2>5. /\ gateway_listen_fd' \in {gateway_listen_fd, next_fd}
        /\ session_listen_fd' \in {session_listen_fd, next_fd}
        /\ Range(market_data_fds) \subseteq Range(market_data_fds')
        /\ s.fd \in Range(market_data_fds') /\ s.start \in Nat
        /\ next_fd' = next_fd + 1 /\ UNCHANGED starts
    BY <1>1, <1>3, <1>5, <2>2
  <2> QED BY <1>3, <1>4, <1>5, <2>3, <2>4, <2>5, NewSound
<1>7. Ours' = Ours \cup {s} /\ Udp' = Udp \cup {s} /\ s \notin Ours
  BY <1>1, <1>3, <1>4, <1>6 DEF Ours, Udp
<1>8. PICK k \in Nat : k = Cardinality(Ours) /\ NextStream = 1 + k /\ Cardinality(Ours') = k + 1
  <2>1. IsFiniteSet(sockets) /\ Ours \subseteq sockets
    BY <1>5 DEF SocketsSound, Ours
  <2>2. NextStream = 1 + Cardinality(Ours)
    BY DEF NextStream, Ours
  <2> HIDE DEF Ours
  <2>3. IsFiniteSet(Ours) /\ Cardinality(Ours) \in Nat
    BY <2>1, FS_Subset, FS_CardinalityType
  <2>4. Cardinality(Ours \cup {s}) = Cardinality(Ours) + 1
    BY <1>7, <2>3, FS_AddElement
  <2> QED BY <1>7, <2>2, <2>3, <2>4
<1>9. StreamsOpened'
  <2>1. StreamCount' = StreamCount
    BY <1>1 DEF StreamCount
  <2>2. Cardinality(Ours') <= StreamCount'
    <3> HIDE DEF Ours, StreamCount, NextStream
    <3> QED BY <1>1, <1>8, <2>1
  <2>3. ASSUME NEW i \in 1 .. k + 1
        PROVE  \E t \in Ours' : t.port = config'.market_data_streams[i].port
    <3>1. CASE i = k + 1
      <4>1. s \in Ours' /\ NextStream = i
        <5> HIDE DEF Ours, NextStream
        <5> QED BY <1>7, <1>8, <3>1
      <4> QED BY <1>1, <1>3, <4>1
    <3>2. CASE i # k + 1
      <4>1. i \in 1 .. k
        BY <3>2
      <4>2. \A j \in 1 .. Cardinality(Ours) :
                \E t \in Ours : t.port = config.market_data_streams[j].port
        BY <1>1 DEF Sockets, StreamsOpened
      <4>3. PICK t \in Ours : t.port = config.market_data_streams[i].port
        <5> HIDE DEF Ours
        <5> QED BY <1>8, <4>1, <4>2
      <4>4. t \in Ours'
        BY <1>7, <4>3
      <4> QED BY <1>1, <4>3, <4>4
    <3> QED BY <3>1, <3>2
  <2> HIDE DEF Ours, StreamCount
  <2> QED BY <1>1, <1>8, <2>2, <2>3 DEF StreamsOpened
<1>10. PortsTaken'
  <2>1. \A p : Listening(p) => Listening(p)'
    BY <1>4 DEF Listening
  <2>2. PortsTaken
    BY DEF Sockets
  <2> HIDE DEF Listening, Udp, Ours
  <2> QED BY <1>1, <1>7, <2>1, <2>2 DEF PortsTaken
<1>11. Leftovers'
  <2>1. s \in Current' /\ Current \subseteq Current'
    BY <1>1, <1>4, <1>7 DEF Current
  <2>2. sockets \subseteq sockets' /\ sockets' \ sockets \subseteq Current'
    BY <1>4, <2>1
  <2>3. failed' \in Nat /\ failed' >= failed
    BY <1>1, <1>5
  <2> HIDE DEF Current
  <2> QED BY <1>1, <1>5, <2>1, <2>2, <2>3, LeftoversKept DEF Sockets
<1> QED BY <1>6, <1>9, <1>10, <1>11 DEF Sockets

LEMMA StopCloses ==
    ASSUME Counted, Counted', Sockets, StreamCount \in Nat, Stop
    PROVE  Sockets'
<1>1. /\ stage = "up" /\ stage' = "down"
      /\ sockets' = Closed({gateway_listen_fd, session_listen_fd} \cup Range(market_data_fds))
      /\ gateway_listen_fd' = 0 /\ session_listen_fd' = 0
      /\ market_data_fds' = [i \in DOMAIN market_data_fds |-> 0]
      /\ UNCHANGED <<next_fd, starts, failed, config>>
  BY DEF Stop, reading
<1>2. SocketsSound /\ failed \in Nat
  BY DEF Sockets, Counted
<1>3. sockets' \subseteq sockets
  BY <1>1 DEF Closed
<1>4. Udp' = {}
  <2>1. \A s \in Udp : s.fd \in Range(market_data_fds)
    BY <1>2 DEF SocketsSound
  <2> QED BY <1>1, <2>1 DEF Udp, Closed
<1>5. SocketsSound'
  <2>1. market_data_fds' \in Seq(Nat)
    <3>1. market_data_fds \in Seq(Nat)
      BY <1>2 DEF SocketsSound
    <3> QED BY <1>1, <3>1
  <2>2. IsFiniteSet(sockets')
    BY <1>2, <1>3, FS_Subset DEF SocketsSound
  <2>3. next_fd' \in Nat \ {0} /\ 0 \in 0 .. next_fd' - 1
    BY <1>1, <1>2 DEF SocketsSound
  <2>4. /\ \A s \in sockets' : s.fd \in 1 .. next_fd' - 1 /\ s.kind \in {"tcp", "udp"}
        /\ \A s, t \in sockets' : s.fd = t.fd => s = t
    BY <1>1, <1>2, <1>3 DEF SocketsSound
  <2> QED BY <1>1, <1>4, <2>1, <2>2, <2>3, <2>4 DEF SocketsSound
<1>6. StreamsOpened' /\ PortsTaken'
  BY <1>1, <1>4 DEF StreamsOpened, PortsTaken
<1>7. Leftovers'
  <2>1. PICK left \in SUBSET sockets :
          Cardinality(left) <= failed * (2 + StreamCount) /\ sockets \ left \subseteq Current
    BY DEF Sockets, Leftovers
  <2>2. ASSUME NEW s \in sockets' PROVE s \in left
    <3>1. /\ s \in sockets /\ s.fd # gateway_listen_fd /\ s.fd # session_listen_fd
          /\ s.fd \notin Range(market_data_fds)
      BY <1>1 DEF Closed
    <3>2. s \notin Ours
      BY <1>2, <3>1 DEF SocketsSound, Ours, Udp
    <3>3. s \notin Current
      BY <3>1, <3>2 DEF Current
    <3> QED BY <2>1, <3>1, <3>3
  <2>3. IsFiniteSet(left) /\ sockets' \subseteq left
    <3>1. IsFiniteSet(left)
      BY <1>2, <2>1, FS_Subset DEF SocketsSound
    <3> QED BY <2>2, <3>1
  <2>4. IsFiniteSet(sockets') /\ Cardinality(sockets') <= Cardinality(left)
    BY <2>3, FS_Subset
  <2>5. Cardinality(sockets') \in Nat /\ Cardinality(left) \in Nat
    BY <2>3, <2>4, FS_CardinalityType
  <2>6. StreamCount' = StreamCount
    BY <1>1 DEF StreamCount
  <2> HIDE DEF StreamCount, Current
  <2>7. PICK m \in Nat : m = failed * (2 + StreamCount)
    BY <1>2
  <2>8. Cardinality(sockets') <= m
    BY <2>1, <2>4, <2>5, <2>7
  <2>9. Cardinality(sockets') <= failed' * (2 + StreamCount')
    BY <1>1, <2>6, <2>7, <2>8
  <2>10. sockets' \in SUBSET sockets' /\ sockets' \ sockets' \subseteq Current'
    OBVIOUS
  <2> QED BY <2>9, <2>10 DEF Leftovers
<1> QED BY <1>5, <1>6, <1>7 DEF Sockets

-----------------------------------------------------------------------------
(* The theorems.                                                           *)

IInv == FileRead /\ Verdict /\ Counted /\ Sockets

LEMMA StreamsAreSequence ==
    ASSUME FileRead
    PROVE  /\ StreamCount \in Nat /\ DOMAIN config.market_data_streams = 1 .. StreamCount
           /\ \A i \in 1 .. StreamCount : config.market_data_streams[i].port \in 1 .. U16 - 1
<1>1. PICK S : S = [host : Hosts, port : 1 .. U16 - 1]
  OBVIOUS
<1>2. config.market_data_streams \in Seq(S)
  BY <1>1 DEF FileRead
<1>3. /\ Len(config.market_data_streams) \in Nat
      /\ config.market_data_streams \in [1 .. Len(config.market_data_streams) -> S]
      /\ DOMAIN config.market_data_streams = 1 .. Len(config.market_data_streams)
  BY <1>2, LenProperties
<1>4. \A x \in S : x.port \in 1 .. U16 - 1
  BY <1>1
<1> QED BY <1>3, <1>4 DEF StreamCount

LEMMA InitInv == Init => IInv
<1> SUFFICES ASSUME Init PROVE IInv
  OBVIOUS
<1>1. FileRead /\ Verdict
  BY InitRead
<1>2. /\ stage = "reading" /\ ctx = FALSE /\ contexts = 0 /\ gateway_listen_fd = 0
      /\ session_listen_fd = 0 /\ market_data_fds = <<>> /\ sockets = {} /\ next_fd = 1
      /\ starts = 0 /\ failed = 0
  BY SMT DEF Init
<1>3. Counted
  <2>1. ~ctx /\ ctx \in BOOLEAN
    BY <1>2, Zenon
  <2> QED BY <1>2, <2>1 DEF Counted, Trying, Keyed
<1>4. SocketsSound
  BY <1>2, FS_EmptySet DEF SocketsSound, Udp
<1>5. StreamsOpened /\ PortsTaken
  BY <1>2 DEF StreamsOpened, PortsTaken, Udp
<1>6. Leftovers
  <2>1. StreamCount \in Nat
    BY <1>1, StreamsAreSequence
  <2> HIDE DEF StreamCount
  <2>2. PICK n \in Nat : n = 2 + StreamCount
    BY <2>1
  <2>3. 0 * n = 0 /\ Cardinality({}) = 0
    BY FS_EmptySet
  <2>4. Cardinality({}) <= failed * (2 + StreamCount)
    BY <1>2, <2>2, <2>3
  <2>5. {} \in SUBSET sockets /\ sockets \ {} \subseteq Current
    BY <1>2
  <2> HIDE DEF Current
  <2> QED BY <2>4, <2>5 DEF Leftovers
<1> QED BY <1>1, <1>3, <1>4, <1>5, <1>6 DEF IInv, Sockets

LEMMA NextInv == IInv /\ [Next]_vars => IInv'
<1> SUFFICES ASSUME IInv, [Next]_vars PROVE IInv'
  OBVIOUS
<1>1. FileRead' /\ Verdict'
  BY ReadStep DEF IInv
<1>2. Counted'
  BY CountKept DEF IInv
<1>3. StreamCount \in Nat /\ StreamCount' \in Nat
  <2>1. FileRead
    BY DEF IInv
  <2>2. PICK S : config'.market_data_streams \in Seq(S)
    BY <1>1 DEF FileRead
  <2>3. Len(config'.market_data_streams) \in Nat
    BY <2>2, LenProperties
  <2>4. StreamCount' \in Nat
    BY <2>3 DEF StreamCount
  <2> QED BY <2>1, <2>4, StreamsAreSequence
<1>4. Sockets'
  <2>1. Counted /\ Sockets
    BY DEF IInv
  <2>2. CASE ReadLine \/ EndOfFile \/ Construct
    <3>1. /\ UNCHANGED <<fds, kernel, starts, failed>>
          /\ stage \in {"reading", "loaded"} /\ stage' \in {"reading", "loaded", "rejected", "down"}
      BY <2>2 DEF ReadLine, EndOfFile, Construct
    <3> QED BY <1>3, <2>1, <3>1, NothingYet DEF Sockets
  <2>3. CASE BeginStart \/ InitializeTls \/ TlsFails \/ SocketFails \/ Run \/ Destroy
    BY <1>2, <1>3, <2>1, <2>3, SocketsStay
  <2>4. CASE ListenGateway \/ ListenSession
    BY <1>2, <1>3, <2>1, <2>4, ListenerOpened
  <2>5. CASE OpenStream
    BY <1>2, <1>3, <2>1, <2>5, StreamOpened
  <2>6. CASE Stop
    BY <1>2, <1>3, <2>1, <2>6, StopCloses
  <2>7. CASE UNCHANGED vars
    <3>1. UNCHANGED <<config, stage, gateway_listen_fd, session_listen_fd, market_data_fds,
                      sockets, next_fd, starts, failed>>
      BY <2>7 DEF vars, reading, fds, kernel
    <3>2. SocketsSound' /\ StreamsOpened' /\ PortsTaken' /\ Leftovers'
      BY <2>1, <3>1 DEF Sockets, SocketsSound, StreamsOpened, PortsTaken, Leftovers, Udp, Ours,
            Listening, Current, StreamCount
    <3> QED BY <3>2 DEF Sockets
  <2> QED BY <2>2, <2>3, <2>4, <2>5, <2>6, <2>7 DEF Next
<1> QED BY <1>1, <1>2, <1>4 DEF IInv

THEOREM Invariance == Spec => []IInv
<1>1. Init => IInv
  BY InitInv
<1>2. IInv /\ [Next]_vars => IInv'
  BY NextInv
<1> QED BY <1>1, <1>2, PTL DEF Spec

\* The variables keep their types, a port fits into its 16 bits unless it is the default,
\* and every descriptor has been handed out.
THEOREM TypeCorrect == Spec => []TypeOK
<1>1. ASSUME IInv PROVE TypeOK
  <2>1. FileRead /\ Counted /\ SocketsSound
    BY <1>1 DEF IInv, Sockets
  <2>2. contexts \in 0 .. starts /\ failed \in 0 .. starts /\ ctx \in BOOLEAN
    <3>1. Keyed \subseteq Trying
      BY DEF Keyed, Trying
    <3>2. CASE stage \in Keyed
      BY <2>1, <3>1, <3>2 DEF Counted
    <3>3. CASE stage \notin Keyed
      <4>1. failed <= starts /\ contexts <= failed
        <5>1. CASE stage \in Trying
          BY <2>1, <3>3, <5>1 DEF Counted
        <5>2. CASE stage \notin Trying
          BY <2>1, <3>3, <5>2 DEF Counted
        <5> QED BY <5>1, <5>2
      <4> QED BY <2>1, <4>1 DEF Counted
    <3> QED BY <3>2, <3>3
  <2>3. \A i \in DOMAIN config.market_data_streams :
            config.market_data_streams[i].port \in 1 .. U16 - 1
    BY <2>1, StreamsAreSequence
  <2>4. /\ line \in 1 .. Len(file) + 1 /\ DOMAIN config = DOMAIN Defaults
        /\ config.gr_tls_port \in 0 .. U16 - 1 \/ config.gr_tls_port = Defaults.gr_tls_port
    <3> HIDE DEF Defaults
    <3> QED BY <2>1 DEF FileRead
  <2>5. /\ \A s \in sockets : s.fd \in 1 .. next_fd - 1
        /\ gateway_listen_fd \in 0 .. next_fd - 1 /\ session_listen_fd \in 0 .. next_fd - 1
    BY <2>1 DEF SocketsSound
  <2> HIDE DEF Defaults
  <2> QED BY <2>2, <2>3, <2>4, <2>5 DEF TypeOK
<1> QED BY <1>1, Invariance, PTL

\* Whatever the file says, in whatever order: the app is made from all of it or not at all
\* (config.cpp:57-121).
THEOREM FileIsObeyed == Spec => []FileObeyed
<1>1. ASSUME IInv PROVE FileObeyed
  BY <1>1, Obeyed DEF IInv
<1> QED BY <1>1, Invariance, PTL

\* However many calls of start() fail or are stopped, and however many streams there are:
\* an app that runs has a socket for each, and one only if a listener's port is fixed
\* (runtime.cpp:1536-1583).
THEOREM AllStreamsServed == Spec => []StreamsServed
<1>1. ASSUME IInv PROVE StreamsServed
  <2> SUFFICES ASSUME stage = "up" PROVE StreamsServed
    BY DEF StreamsServed
  <2>1. /\ Cardinality(Ours) = StreamCount
        /\ \A i \in 1 .. Cardinality(Ours) :
            \E s \in Ours : s.port = config.market_data_streams[i].port
    BY <1>1 DEF IInv, Sockets, StreamsOpened
  <2>2. DOMAIN config.market_data_streams = 1 .. StreamCount
    BY <1>1, StreamsAreSequence DEF IInv
  <2>3. \A s \in Ours : s \in Udp /\ s.fd \in Range(market_data_fds)
    BY <1>1 DEF IInv, Sockets, SocketsSound, Ours, Udp
  <2>4. config.gr_tls_port # 0 \/ config.session_port # 0 => Udp = Ours
    BY <1>1 DEF IInv, Sockets, PortsTaken
  <2>5. \A i \in DOMAIN config.market_data_streams : \E s \in Udp :
            s.port = config.market_data_streams[i].port /\ s.fd \in Range(market_data_fds)
    <3> HIDE DEF Ours, Udp, StreamCount
    <3> QED BY <2>1, <2>2, <2>3
  <2>6. config.gr_tls_port # 0 \/ config.session_port # 0 =>
            Cardinality(Udp) = Len(config.market_data_streams)
    <3> HIDE DEF Ours, Udp
    <3> QED BY <2>1, <2>4 DEF StreamCount
  <2> QED BY <2>5, <2>6 DEF StreamsServed
<1> QED BY <1>1, Invariance, PTL

\* What an app leaves behind grows with the calls of start() that threw and with nothing
\* else (runtime.cpp:1536-1552, 1567-1583, 1617-1622).
THEOREM OnlyFailuresLeak == Spec => []NothingLeaked
<1>1. ASSUME IInv PROVE NothingLeaked
  <2> SUFFICES ASSUME stage \in {"down", "destroyed"} PROVE NothingLeaked
    BY DEF NothingLeaked
  <2>1. Cardinality(sockets) <= failed * (2 + Len(config.market_data_streams))
    <3>1. PICK left \in SUBSET sockets :
            Cardinality(left) <= failed * (2 + StreamCount) /\ sockets \ left \subseteq Current
      BY <1>1 DEF IInv, Sockets, Leftovers
    <3>2. Current = {}
      BY DEF Current
    <3>3. left = sockets
      BY <3>1, <3>2
    <3> QED BY <3>1, <3>3 DEF StreamCount
  <2>2. Counted /\ stage \notin Trying /\ stage \notin Keyed
    BY <1>1 DEF IInv, Trying, Keyed
  <2>3. contexts <= failed /\ failed <= starts /\ contexts \in Nat /\ failed \in Nat /\ starts \in Nat
    BY <2>2 DEF Counted
  <2>4. stage = "destroyed" /\ starts <= 1 => contexts = 0
    <3>1. stage = "destroyed" /\ starts <= 1 => contexts # 1
      BY <2>2 DEF Counted
    <3> QED BY <2>3, <3>1
  <2> QED BY <2>1, <2>3, <2>4 DEF NothingLeaked
<1> QED BY <1>1, Invariance, PTL

=============================================================================
