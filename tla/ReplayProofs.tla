----------------------------- MODULE ReplayProofs -----------------------------
(***************************************************************************)
(* What is sent, in which order and when, for any number of files, any     *)
(* records and any limit.                                                  *)
(***************************************************************************)
EXTENDS Replay, SequenceTheorems, TLAPS

-----------------------------------------------------------------------------
(* Places in the input and their order.                                    *)

LEMMA RecordType ==
    ASSUME call \in Calls, NEW p \in All
    PROVE  /\ p.reader \in Readers /\ p.index \in DOMAIN input[p.reader]
           /\ p = At(p.reader, p.index) /\ p.reader \in Nat /\ p.index \in Nat
           /\ Record(p).time \in 0 .. U64 - 1 /\ Record(p).stream \in Nat
           /\ Record(p).sequence \in Nat
<1>0. PICK r \in Readers : \E i \in DOMAIN input[r] : p = At(r, i)
  BY DEF All
<1>1. PICK i \in DOMAIN input[r] : p = At(r, i)
  BY <1>0
<1>2. p.reader = r /\ p.index = i
  BY <1>1 DEF At
<1>3. input[r] \in Seq(Records) /\ r \in Nat
  BY ReplayAssumption DEF input, Readers
<1>4. DOMAIN input[r] = 1 .. Len(input[r]) /\ input[r][i] \in Records
  <2> HIDE DEF Records
  <2> QED
    BY <1>3, LenProperties, ElementOfSeq
<1> QED
  BY <1>1, <1>2, <1>3, <1>4 DEF Record, Records

LEMMA AllPlaces ==
    ASSUME NEW r \in Readers, NEW i \in DOMAIN input[r]
    PROVE  At(r, i) \in All /\ At(r, i).reader = r /\ At(r, i).index = i
  BY DEF All, At

LEMMA Lexical ==
    ASSUME call \in Calls, NEW p \in All, NEW q \in All, NEW a, NEW b, a = Record(p), b = Record(q)
    PROVE  Precedes(p, q) <=>
            \/ a.time < b.time
            \/ a.time = b.time /\ a.stream < b.stream
            \/ a.time = b.time /\ a.stream = b.stream /\ a.sequence < b.sequence
            \/ /\ a.time = b.time /\ a.stream = b.stream /\ a.sequence = b.sequence
               /\ p.reader < q.reader
            \/ /\ a.time = b.time /\ a.stream = b.stream /\ a.sequence = b.sequence
               /\ p.reader = q.reader /\ p.index < q.index
<1>1. /\ Key(p) = <<a.time, a.stream, a.sequence, p.reader, p.index>>
      /\ Key(q) = <<b.time, b.stream, b.sequence, q.reader, q.index>>
  BY DEF Key
<1>2. Precedes(p, q) <=>
        \E i \in {1, 2, 3, 4, 5} : /\ Key(p)[i] < Key(q)[i]
                                   /\ \A j \in 1 .. i - 1 : Key(p)[j] = Key(q)[j]
  BY DEF Precedes
<1>3. /\ 1 .. 1 - 1 = {} /\ 1 .. 2 - 1 = {1} /\ 1 .. 3 - 1 = {1, 2} /\ 1 .. 4 - 1 = {1, 2, 3}
      /\ 1 .. 5 - 1 = {1, 2, 3, 4}
  OBVIOUS
<1> QED
  BY <1>1, <1>2, <1>3

LEMMA Ordered ==
    ASSUME call \in Calls, NEW p \in All, NEW q \in All
    PROVE  /\ ~(Precedes(p, q) /\ Precedes(q, p))
           /\ \A o \in All : Precedes(p, q) /\ Precedes(q, o) => Precedes(p, o)
           /\ p.reader # q.reader /\ Before(p, q) => Precedes(p, q)
           /\ Precedes(p, q) => Record(p).time <= Record(q).time
<1>1. ~(Precedes(p, q) /\ Precedes(q, p))
  BY RecordType, Lexical
<1>2. ASSUME NEW o \in All, Precedes(p, q), Precedes(q, o) PROVE Precedes(p, o)
  BY <1>2, RecordType, Lexical
<1>3. p.reader # q.reader /\ Before(p, q) => Precedes(p, q)
  BY RecordType, Lexical DEF Before
<1>4. Precedes(p, q) => Record(p).time <= Record(q).time
  BY RecordType, Lexical
<1> QED
  BY <1>1, <1>2, <1>3, <1>4

\* The command line stays what it is.
LEMMA SameCall ==
    ASSUME call' = call
    PROVE  /\ input' = input /\ Readers' = Readers /\ All' = All
           /\ max_records' = max_records /\ loop' = loop
           /\ \A p : Record(p)' = Record(p)
           /\ \A p, q : Precedes(p, q)' <=> Precedes(p, q)
           /\ Chronological' <=> Chronological
<1>1. /\ input' = input /\ Readers' = Readers /\ All' = All /\ max_records' = max_records
      /\ loop' = loop
  BY DEF input, Readers, All, max_records, loop
<1>2. \A p : Record(p)' = Record(p) /\ Key(p)' = Key(p)
  BY <1>1 DEF Record, Key
<1>3. \A p, q : Precedes(p, q)' <=> Precedes(p, q)
  BY <1>2 DEF Precedes
<1>4. Chronological' <=> Chronological
  BY <1>1, <1>3 DEF Chronological
<1> QED
  BY <1>1, <1>2, <1>3, <1>4

-----------------------------------------------------------------------------
(* The invariant.                                                          *)

Waits == 0 .. U64 - 1
Sendings == [place : All, wait : Waits]

StateOK ==
    /\ call \in Calls
    /\ phase \in {"opening", "sending", "done", "failed"}
    /\ record_index \in [Readers -> Nat]
    /\ \A r \in Readers : record_index[r] <= Len(input[r])
    /\ queue \subseteq {r \in Readers : record_index[r] > 0}
    /\ first_capture_time \in Waits \cup {Nothing}
    /\ sent \in Seq(Sendings)
    /\ total_sent \in Nat

Took(p) == \E j \in DOMAIN sent : sent[j].place = p

\* Of each file a beginning has been sent, up to the record in the queue.
Progress ==
    \A r \in Readers :
        /\ \A i \in DOMAIN input[r] :
            Took(At(r, i)) <=> i < record_index[r] \/ (i = record_index[r] /\ r \notin queue)
        /\ r \notin queue => record_index[r] = Len(input[r])

InFileOrder ==
    /\ \A i, j \in DOMAIN sent :
        i < j /\ sent[i].place.reader = sent[j].place.reader =>
            sent[i].place.index < sent[j].place.index
    /\ \A i \in DOMAIN sent : \A n \in 1 .. sent[i].place.index :
        \E j \in 1 .. i : sent[j].place = At(sent[i].place.reader, n)
    /\ phase \in {"sending", "done"} => Progress
    /\ phase = "done" /\ max_records = 0 => queue = {}

\* What is sent is in order and before all that is not.
InMergeOrder ==
    Chronological =>
        \A i \in DOMAIN sent :
            /\ \A j \in DOMAIN sent : i < j => Precedes(sent[i].place, sent[j].place)
            /\ \A p \in All : ~Took(p) => Precedes(sent[i].place, p)

\* All waits are counted from the first record of the pass.
Paced ==
    /\ phase = "sending" => (first_capture_time = Nothing <=> sent = <<>>)
    /\ phase = "sending" /\ sent # <<>> => first_capture_time = Record(sent[1].place).time
    /\ Chronological => \A i \in DOMAIN sent :
            sent[i].wait = Record(sent[i].place).time - Record(sent[1].place).time

IInv == StateOK /\ LimitKept /\ InFileOrder /\ InMergeOrder /\ Paced

LEMMA InputType ==
    ASSUME call \in Calls, NEW r \in Readers
    PROVE  /\ Len(input[r]) \in Nat /\ DOMAIN input[r] = 1 .. Len(input[r])
           /\ max_records \in Nat /\ loop \in BOOLEAN
<1>1. input[r] \in Seq(Records) /\ max_records \in Nat /\ loop \in BOOLEAN
  BY ReplayAssumption DEF input, Readers, max_records, loop
<1> HIDE DEF Records
<1> QED
  BY <1>1, LenProperties

LEMMA InitIInv == Init => IInv
<1> SUFFICES ASSUME Init PROVE IInv
  OBVIOUS
<1>1. /\ call \in Calls /\ phase = "opening" /\ record_index = [r \in Readers |-> 0] /\ queue = {}
      /\ first_capture_time = Nothing /\ sent = <<>> /\ total_sent = 0
  BY DEF Init
<1>2. max_records \in Nat
  BY <1>1, ReplayAssumption DEF max_records
<1>3. StateOK
  <2>1. <<>> \in Seq(Sendings)
    OBVIOUS
  <2> HIDE DEF Sendings
  <2> QED
    BY <1>1, <2>1, InputType DEF StateOK
<1> QED
  BY <1>1, <1>2, <1>3 DEF IInv, LimitKept, InFileOrder, InMergeOrder, Paced

-----------------------------------------------------------------------------
(* Sending a record.                                                       *)

LEMMA WaitType ==
    ASSUME StateOK, NEW p \in All
    PROVE  /\ Wait(Record(p)) \in Waits
           /\ first_capture_time \in Nat /\ first_capture_time <= Record(p).time =>
                Wait(Record(p)) = Record(p).time - first_capture_time
           /\ first_capture_time = Nothing => Wait(Record(p)) = 0
<1>1. Record(p).time \in Waits /\ U64 \in Nat \ {0} /\ first_capture_time \in Waits \cup {Nothing}
      /\ Nothing \notin Nat
  BY RecordType, ReplayAssumption DEF StateOK, Waits
<1>2. \A d \in Nat : d % U64 \in Waits
  BY <1>1 DEF Waits
<1>3. \A d \in Waits : (U64 + d) % U64 = d
  BY <1>1 DEF Waits
<1>4. CASE first_capture_time = Nothing
  BY <1>1, <1>4 DEF Wait, Waits
<1>5. CASE first_capture_time # Nothing
  <2> DEFINE t == Record(p).time
             f == first_capture_time
  <2>1. Wait(Record(p)) = (U64 + t - f) % U64 /\ f \in Waits /\ t \in Waits
    BY <1>1, <1>5 DEF Wait
  <2> HIDE DEF t, f
  <2>2. U64 + t - f \in Nat
    BY <1>1, <2>1 DEF Waits
  <2>3. f <= t => t - f \in Waits /\ U64 + t - f = U64 + (t - f)
    BY <1>1, <2>1 DEF Waits
  <2>4. Wait(Record(p)) \in Waits /\ (f <= t => Wait(Record(p)) = t - f)
    BY <1>2, <1>3, <2>1, <2>2, <2>3
  <2> QED
    BY <1>5, <2>4 DEF t, f
<1> QED
  BY <1>4, <1>5

LEMMA SendFacts ==
    ASSUME StateOK, NEW r \in Readers, NEW c, c = Cursor(r), NEW e,
           e = [place |-> c, wait |-> Wait(Record(c))], Send(r)
    PROVE  /\ c \in All /\ c = At(r, record_index[r]) /\ c.reader = r /\ c.index = record_index[r]
           /\ record_index[r] \in DOMAIN input[r] /\ e \in Sendings /\ e.place = c
           /\ phase = "sending" /\ ~LimitReached /\ r \in queue
           /\ \A q \in queue \ {r} : Before(c, Cursor(q))
           /\ UNCHANGED <<call, total_sent>>
           /\ first_capture_time' =
                IF first_capture_time = Nothing THEN Record(c).time ELSE first_capture_time
           /\ \/ /\ phase' = "failed" /\ UNCHANGED <<queue, record_index>>
                 /\ sent' = sent \/ sent' = Append(sent, e)
              \/ /\ phase' = "sending" /\ sent' = Append(sent, e)
                 /\ record_index[r] = Len(input[r])
                 /\ queue' = queue \ {r} /\ record_index' = record_index
              \/ /\ phase' = "sending" /\ sent' = Append(sent, e)
                 /\ record_index[r] < Len(input[r])
                 /\ queue' = queue /\ record_index' = [record_index EXCEPT ![r] = @ + 1]
<1>1. r \in queue /\ record_index[r] \in DOMAIN input[r]
  BY InputType DEF Send, StateOK
<1>2. c = At(r, record_index[r]) /\ c \in All /\ c.reader = r /\ c.index = record_index[r]
  BY <1>1, AllPlaces DEF Cursor
<1>3. e \in Sendings /\ e.place = c
  BY <1>2, WaitType DEF Sendings
<1>4. ~AtEnd(r, record_index[r]) => record_index[r] < Len(input[r])
  BY <1>1, InputType DEF AtEnd
<1> QED
  BY <1>1, <1>2, <1>3, <1>4 DEF Send, Refill, AtEnd

LEMMA Appended ==
    ASSUME NEW S, NEW q \in Seq(S), NEW e \in S, NEW r, r = Append(q, e)
    PROVE  /\ r \in Seq(S) /\ r # <<>> /\ Len(q) \in Nat /\ DOMAIN q = 1 .. Len(q)
           /\ Len(r) = Len(q) + 1 /\ DOMAIN r = 1 .. Len(q) + 1
           /\ \A i \in 1 .. Len(q) : r[i] = q[i]
           /\ r[Len(q) + 1] = e
<1>1. /\ r \in Seq(S) /\ Len(r) = Len(q) + 1 /\ r[Len(q) + 1] = e
      /\ \A i \in 1 .. Len(q) : r[i] = q[i]
  BY AppendProperties
<1> QED
  BY <1>1, LenProperties

-----------------------------------------------------------------------------
(* Types and the limit.                                                    *)

LEMMA OpenFacts ==
    ASSUME StateOK, OpenPass
    PROVE  /\ phase = "opening" /\ first_capture_time' = Nothing /\ sent' = <<>>
           /\ UNCHANGED <<call, total_sent>>
           /\ \/ phase' = "failed" /\ UNCHANGED <<record_index, queue>>
              \/ /\ phase' = "sending"
                 /\ queue' = {r \in Readers : input[r] # <<>>}
                 /\ record_index' = [r \in Readers |-> IF input[r] = <<>> THEN 0 ELSE 1]
                 /\ \A r \in Readers : input[r] = <<>> <=> Len(input[r]) = 0
<1>1. \A r \in Readers : AtEnd(r, 0) <=> input[r] = <<>>
  <2>1. \A r \in Readers : input[r] \in Seq(Records)
    BY ReplayAssumption DEF StateOK, input, Readers
  <2> HIDE DEF Records
  <2> QED
    BY <2>1, EmptySeq DEF AtEnd
<1> QED
  BY <1>1 DEF OpenPass, AtEnd

LEMMA TypeStep ==
    ASSUME StateOK, [Next]_vars
    PROVE  StateOK'
<1>1. CASE OpenPass
  <2>1. /\ call \in Calls /\ call' = call /\ sent' = <<>> /\ total_sent' \in Nat
        /\ first_capture_time' = Nothing /\ phase' \in {"failed", "sending"}
    BY <1>1, OpenFacts DEF StateOK
  <2>2. sent' \in Seq(Sendings)'
    <3> HIDE DEF Sendings
    <3> QED
      BY <2>1
  <2>3. Readers' = Readers /\ input' = input
    BY <2>1, SameCall
  <2>4. /\ record_index' \in [Readers -> Nat]
        /\ \A r \in Readers : record_index'[r] <= Len(input[r])
        /\ queue' \subseteq {r \in Readers : record_index'[r] > 0}
    BY <1>1, <2>1, OpenFacts, InputType DEF StateOK
  <2> QED
    BY <2>1, <2>2, <2>3, <2>4 DEF StateOK
<1>2. CASE EndPass
  <2>1. /\ UNCHANGED <<call, record_index, queue, first_capture_time, sent>>
        /\ phase' \in {"done", "opening"} /\ total_sent' = total_sent + Len(sent)
    BY <1>2 DEF EndPass
  <2>2. Len(sent) \in Nat
    BY LenProperties DEF StateOK
  <2>3. Readers' = Readers /\ input' = input /\ Sendings' = Sendings
    BY <2>1, SameCall DEF Sendings
  <2> QED
    BY <2>1, <2>2, <2>3 DEF StateOK
<1>3. ASSUME NEW r \in Readers, Send(r) PROVE StateOK'
  <2>1. PICK c, e : c = Cursor(r) /\ e = [place |-> c, wait |-> Wait(Record(c))]
    OBVIOUS
  <2>2. /\ call' = call /\ total_sent' = total_sent /\ e \in Sendings /\ c \in All /\ phase = "sending"
        /\ first_capture_time' \in {first_capture_time, Record(c).time}
        /\ phase' \in {"failed", "sending"} /\ (sent' = sent \/ sent' = Append(sent, e))
    BY <1>3, <2>1, SendFacts
  <2>3. Readers' = Readers /\ input' = input /\ Sendings' = Sendings
    BY <2>2, SameCall DEF Sendings
  <2>4. sent' \in Seq(Sendings)
    <3> HIDE DEF Sendings
    <3> QED
      BY <2>2, Appended DEF StateOK
  <2>5. first_capture_time' \in Waits \cup {Nothing}
    BY <2>2, RecordType DEF StateOK, Waits
  <2>6. /\ record_index' \in [Readers -> Nat]
        /\ \A q \in Readers : record_index'[q] <= Len(input[q])
        /\ queue' \subseteq {q \in Readers : record_index'[q] > 0}
    <3>1. \A q \in Readers : Len(input[q]) \in Nat
      BY InputType DEF StateOK
    <3>2. /\ queue' \subseteq queue
          /\ \/ record_index' = record_index
             \/ record_index[r] < Len(input[r])
                /\ record_index' = [record_index EXCEPT ![r] = @ + 1]
      BY <1>3, <2>1, SendFacts
    <3> QED
      BY <3>1, <3>2 DEF StateOK
  <2> QED
    BY <2>2, <2>3, <2>4, <2>5, <2>6 DEF StateOK
<1>4. CASE UNCHANGED vars
  <2>1. call' = call
    BY <1>4 DEF vars
  <2>2. Readers' = Readers /\ input' = input /\ Sendings' = Sendings
    BY <2>1, SameCall DEF Sendings
  <2> QED
    BY <1>4, <2>2 DEF StateOK, vars
<1> QED
  BY <1>1, <1>2, <1>3, <1>4 DEF Next

LEMMA LimitStep ==
    ASSUME StateOK, LimitKept, [Next]_vars
    PROVE  LimitKept'
<1>1. Len(sent) \in Nat /\ total_sent \in Nat /\ max_records \in Nat
  BY LenProperties, ReplayAssumption DEF StateOK, max_records
<1>2. CASE OpenPass
  <2>1. /\ max_records' = max_records /\ total_sent' = total_sent /\ sent' = <<>>
        /\ phase' \in {"failed", "sending"}
    BY <1>2, OpenFacts, SameCall
  <2> QED
    BY <1>1, <2>1 DEF LimitKept
<1>3. CASE EndPass
  <2>1. /\ phase = "sending" /\ max_records' = max_records /\ loop' = loop
        /\ sent' = sent /\ total_sent' = total_sent + Len(sent)
        /\ phase' = IF LimitReached \/ ~loop THEN "done" ELSE "opening"
    BY <1>3, SameCall DEF EndPass
  <2> QED
    BY <1>1, <2>1 DEF LimitKept, LimitReached
<1>4. ASSUME NEW r \in Readers, Send(r) PROVE LimitKept'
  <2>1. PICK c, e : c = Cursor(r) /\ e = [place |-> c, wait |-> Wait(Record(c))]
    OBVIOUS
  <2>2. /\ max_records' = max_records /\ total_sent' = total_sent /\ e \in Sendings
        /\ phase = "sending" /\ phase' \in {"failed", "sending"} /\ ~LimitReached
        /\ (sent' = sent \/ sent' = Append(sent, e))
    BY <1>4, <2>1, SendFacts, SameCall
  <2>3. Len(sent') \in {Len(sent), Len(sent) + 1}
    <3> HIDE DEF Sendings
    <3> QED
      BY <2>2, Appended DEF StateOK
  <2> QED
    BY <1>1, <2>2, <2>3 DEF LimitKept, LimitReached
<1>5. CASE UNCHANGED vars
  <2>1. call' = call
    BY <1>5 DEF vars
  <2> QED
    BY <1>5, <2>1, SameCall DEF vars, LimitKept
<1> QED
  BY <1>2, <1>3, <1>4, <1>5 DEF Next

-----------------------------------------------------------------------------
(* The order within a file.                                                *)

LEMMA TookSame == sent' = sent => \A p : Took(p)' <=> Took(p)
  BY DEF Took

LEMMA TookMore ==
    ASSUME StateOK, NEW e \in Sendings, sent' = Append(sent, e)
    PROVE  \A p : Took(p)' <=> Took(p) \/ p = e.place
<1>1. /\ Len(sent) \in Nat /\ DOMAIN sent = 1 .. Len(sent) /\ DOMAIN sent' = 1 .. Len(sent) + 1
      /\ \A i \in 1 .. Len(sent) : sent'[i] = sent[i]
      /\ sent'[Len(sent) + 1] = e
  <2> HIDE DEF Sendings
  <2> QED
    BY Appended DEF StateOK
<1>2. ASSUME NEW p, Took(p) PROVE Took(p)'
  BY <1>1, <1>2 DEF Took
<1>3. ASSUME NEW p, p = e.place PROVE Took(p)'
  BY <1>1, <1>3 DEF Took
<1>4. ASSUME NEW p, Took(p)' PROVE Took(p) \/ p = e.place
  <2>1. PICK j \in 1 .. Len(sent) + 1 : sent'[j].place = p
    BY <1>1, <1>4 DEF Took
  <2>2. CASE j = Len(sent) + 1
    BY <1>1, <2>1, <2>2
  <2>3. CASE j # Len(sent) + 1
    <3>1. j \in 1 .. Len(sent)
      BY <1>1, <2>3
    <3> QED
      BY <1>1, <2>1, <3>1 DEF Took
  <2> QED
    BY <2>2, <2>3
<1> QED
  BY <1>2, <1>3, <1>4

LEMMA FileSend ==
    ASSUME StateOK, InFileOrder, NEW r \in Readers, Send(r)
    PROVE  InFileOrder'
<1> DEFINE k == record_index[r]
<1>1. PICK c, e : c = Cursor(r) /\ e = [place |-> c, wait |-> Wait(Record(c))]
  OBVIOUS
<1>2. /\ c = At(r, k) /\ c.reader = r /\ c.index = k /\ k \in DOMAIN input[r] /\ c \in All
      /\ e \in Sendings /\ e.place = c /\ phase = "sending" /\ r \in queue /\ call' = call
      /\ phase' \in {"failed", "sending"}
      /\ sent' = sent \/ sent' = Append(sent, e)
  BY <1>1, SendFacts
<1>3. /\ Readers' = Readers /\ input' = input
      /\ k \in Nat \ {0} /\ k <= Len(input[r]) /\ DOMAIN input[r] = 1 .. Len(input[r])
  BY <1>2, SameCall, InputType DEF StateOK
<1>4. /\ \A i \in DOMAIN input[r] : Took(At(r, i)) <=> i < k
      /\ Progress
  <2>1. Progress
    BY <1>2 DEF InFileOrder
  <2> QED
    BY <1>2, <1>3, <2>1 DEF Progress, StateOK
<1>5. \A j \in DOMAIN sent : sent[j].place \in All /\ DOMAIN sent = 1 .. Len(sent) /\ Len(sent) \in Nat
  <2>1. DOMAIN sent = 1 .. Len(sent) /\ Len(sent) \in Nat
    BY LenProperties DEF StateOK
  <2>2. \A j \in 1 .. Len(sent) : sent[j] \in Sendings
    <3> HIDE DEF Sendings
    <3> QED
      BY ElementOfSeq DEF StateOK
  <2> QED
    BY <2>1, <2>2 DEF Sendings
<1>6. \A j \in DOMAIN sent : sent[j].place.reader = r => sent[j].place.index < k
  <2> SUFFICES ASSUME NEW j \in DOMAIN sent, sent[j].place.reader = r PROVE sent[j].place.index < k
    OBVIOUS
  <2>1. /\ sent[j].place = At(r, sent[j].place.index) /\ sent[j].place.index \in DOMAIN input[r]
    BY <1>5, RecordType DEF StateOK
  <2>2. Took(At(r, sent[j].place.index))
    BY <2>1 DEF Took
  <2> QED
    BY <1>4, <2>1, <2>2
<1>7. CASE sent' = sent /\ phase' = "failed"
  BY <1>7 DEF InFileOrder
<1>8. CASE sent' = Append(sent, e)
  <2>1. /\ Len(sent) \in Nat /\ DOMAIN sent = 1 .. Len(sent) /\ DOMAIN sent' = 1 .. Len(sent) + 1
        /\ \A i \in 1 .. Len(sent) : sent'[i] = sent[i]
        /\ sent'[Len(sent) + 1].place = c
    <3>1. sent \in Seq(Sendings)
      BY DEF StateOK
    <3> HIDE DEF Sendings
    <3> QED
      BY <1>2, <1>8, <3>1, Appended
  <2>2. \A i \in DOMAIN sent' : i \in DOMAIN sent \/ i = Len(sent) + 1
    BY <2>1
  <2>3. \A i, j \in DOMAIN sent' :
            i < j /\ sent'[i].place.reader = sent'[j].place.reader =>
                sent'[i].place.index < sent'[j].place.index
    <3> SUFFICES ASSUME NEW i \in DOMAIN sent', NEW j \in DOMAIN sent', i < j,
                        sent'[i].place.reader = sent'[j].place.reader
                 PROVE  sent'[i].place.index < sent'[j].place.index
      OBVIOUS
    <3>1. i \in DOMAIN sent /\ sent'[i] = sent[i]
      BY <2>1
    <3>2. CASE j = Len(sent) + 1
      BY <1>2, <1>6, <2>1, <3>1, <3>2
    <3>3. CASE j # Len(sent) + 1
      BY <2>1, <2>2, <3>1, <3>3 DEF InFileOrder
    <3> QED
      BY <3>2, <3>3
  <2>4. ASSUME NEW i \in DOMAIN sent', NEW n \in 1 .. sent'[i].place.index
        PROVE  \E j \in 1 .. i : sent'[j].place = At(sent'[i].place.reader, n)
    <3>1. CASE i = Len(sent) + 1
      <4>1. sent'[i].place = c /\ n \in 1 .. k
        BY <1>2, <2>1, <2>4, <3>1
      <4>2. CASE n = k
        BY <1>2, <2>1, <3>1, <4>1, <4>2
      <4>3. CASE n # k
        <5>1. n < k /\ n \in DOMAIN input[r]
          BY <1>3, <4>1, <4>3
        <5>2. PICK j \in DOMAIN sent : sent[j].place = At(r, n)
          BY <1>4, <5>1 DEF Took
        <5>3. j \in 1 .. i /\ sent'[j] = sent[j]
          BY <2>1, <3>1
        <5> QED
          BY <1>2, <4>1, <5>2, <5>3
      <4> QED
        BY <4>2, <4>3
    <3>2. CASE i # Len(sent) + 1
      <4>1. i \in DOMAIN sent /\ sent'[i] = sent[i]
        BY <2>1, <2>2, <3>2
      <4>2. PICK j \in 1 .. i : sent[j].place = At(sent[i].place.reader, n)
        BY <2>4, <4>1 DEF InFileOrder
      <4>3. sent'[j] = sent[j]
        BY <2>1, <4>1, <4>2
      <4> QED
        BY <4>1, <4>2, <4>3
    <3> QED
      BY <3>1, <3>2
  <2>5. CASE phase' = "sending"
    <3>1. \/ record_index[r] = Len(input[r]) /\ queue' = queue \ {r} /\ record_index' = record_index
          \/ /\ record_index[r] < Len(input[r])
             /\ queue' = queue /\ record_index' = [record_index EXCEPT ![r] = @ + 1]
      BY <1>1, <2>5, SendFacts
    <3>2. \A p : Took(p)' <=> Took(p) \/ p = c
      BY <1>2, <1>8, TookMore
    <3>3. ASSUME NEW q \in Readers
          PROVE  /\ \A i \in DOMAIN input[q] :
                    Took(At(q, i))' <=> i < record_index'[q] \/ (i = record_index'[q] /\ q \notin queue')
                 /\ q \notin queue' => record_index'[q] = Len(input[q])
      <4>1. CASE q = r
        <5>1. \A i \in DOMAIN input[r] : Took(At(r, i))' <=> i < k \/ i = k
          BY <1>2, <1>4, <3>2, AllPlaces
        <5> QED
          BY <1>2, <1>3, <3>1, <4>1, <5>1 DEF StateOK
      <4>2. CASE q # r
        <5>1. \A i \in DOMAIN input[q] : Took(At(q, i))' <=> Took(At(q, i))
          BY <1>2, <3>2, <4>2, AllPlaces
        <5>2. record_index'[q] = record_index[q] /\ (q \in queue' <=> q \in queue)
          BY <3>1, <4>2 DEF StateOK
        <5> QED
          BY <1>4, <5>1, <5>2 DEF Progress
      <4> QED
        BY <4>1, <4>2
    <3>4. Progress'
      BY <1>3, <3>3 DEF Progress
    <3> QED
      BY <2>3, <2>4, <2>5, <3>4 DEF InFileOrder
  <2>6. CASE phase' # "sending"
    BY <1>2, <2>3, <2>4, <2>6 DEF InFileOrder
  <2> QED
    BY <2>5, <2>6
<1> QED
  BY <1>1, <1>7, <1>8, SendFacts

LEMMA FileStep ==
    ASSUME StateOK, InFileOrder, [Next]_vars
    PROVE  InFileOrder'
<1>1. CASE OpenPass
  <2>1. /\ sent' = <<>> /\ Readers' = Readers /\ input' = input /\ call \in Calls
        /\ phase' \in {"failed", "sending"}
    BY <1>1, OpenFacts, SameCall DEF StateOK
  <2>2. DOMAIN sent' = {}
    BY <2>1
  <2>3. CASE phase' = "sending"
    <3>1. /\ queue' = {r \in Readers : input[r] # <<>>}
          /\ record_index' = [r \in Readers |-> IF input[r] = <<>> THEN 0 ELSE 1]
          /\ \A r \in Readers : input[r] = <<>> <=> Len(input[r]) = 0
      BY <1>1, <2>3, OpenFacts
    <3>2. \A p : ~Took(p)'
      BY <2>2 DEF Took
    <3>3. Progress'
      BY <2>1, <3>1, <3>2, InputType DEF Progress
    <3> QED
      BY <2>2, <2>3, <3>3 DEF InFileOrder
  <2> QED
    BY <2>1, <2>2, <2>3 DEF InFileOrder
<1>2. CASE EndPass
  <2>1. /\ phase = "sending" /\ phase' \in {"done", "opening"} /\ max_records' = max_records
        /\ UNCHANGED <<record_index, queue, sent>> /\ Readers' = Readers /\ input' = input
        /\ queue = {} \/ LimitReached
    BY <1>2, SameCall DEF EndPass
  <2>2. Progress /\ (\A p : Took(p)' <=> Took(p))
    BY <2>1, TookSame DEF InFileOrder
  <2>3. Progress'
    BY <2>1, <2>2 DEF Progress
  <2> QED
    BY <2>1, <2>3 DEF InFileOrder, LimitReached
<1>3. CASE UNCHANGED vars
  <2>1. /\ UNCHANGED <<phase, record_index, queue, sent>>
        /\ Readers' = Readers /\ input' = input /\ max_records' = max_records
    BY <1>3, SameCall DEF vars
  <2>2. \A p : Took(p)' <=> Took(p)
    BY <2>1, TookSame
  <2>3. Progress => Progress'
    BY <2>1, <2>2 DEF Progress
  <2> QED
    BY <2>1, <2>3 DEF InFileOrder
<1> QED
  BY <1>1, <1>2, <1>3, FileSend DEF Next

-----------------------------------------------------------------------------
(* The order of all files together, and the time of each record.           *)

\* Of what is still to be sent, the cursor that leaves the queue comes first.
LEMMA NextComesFirst ==
    ASSUME StateOK, Progress, Chronological, NEW r \in Readers, r \in queue, NEW c, c = Cursor(r),
           \A q \in queue \ {r} : Before(c, Cursor(q)), c \in All,
           NEW p \in All, ~Took(p), p # c
    PROVE  Precedes(c, p)
<1>1. PICK q \in Readers : \E i \in DOMAIN input[q] : p = At(q, i)
  BY DEF All
<1>2. PICK i \in DOMAIN input[q] : p = At(q, i)
  BY <1>1
<1> DEFINE k == record_index[q]
<1>3. /\ q \in queue /\ k \in DOMAIN input[q] /\ k <= i /\ k \in Nat /\ i \in Nat
      /\ call \in Calls
  BY <1>2, InputType DEF Progress, StateOK
<1>4. PICK d \in All : d = At(q, k) /\ d.reader = q /\ d = Cursor(q)
  BY <1>3, AllPlaces DEF Cursor
<1>5. k < i => Precedes(d, p)
  BY <1>2, <1>3, <1>4 DEF Chronological
<1>6. k = i => d = p
  BY <1>2, <1>4
<1>7. CASE q = r
  <2>1. c = d
    BY <1>4, <1>7
  <2> QED
    BY <1>3, <1>5, <1>6, <2>1
<1>8. CASE q # r
  <2>1. Before(c, d) /\ c.reader = r
    BY <1>3, <1>4, <1>8 DEF Cursor, At
  <2>2. Precedes(c, d)
    BY <1>3, <1>4, <1>8, <2>1, Ordered
  <2>3. k < i \/ k = i
    BY <1>3
  <2> QED
    BY <1>3, <1>5, <1>6, <2>2, <2>3, Ordered
<1> QED
  BY <1>7, <1>8

LEMMA SentPlaces ==
    ASSUME StateOK
    PROVE  /\ Len(sent) \in Nat /\ DOMAIN sent = 1 .. Len(sent)
           /\ \A i \in DOMAIN sent : sent[i].place \in All
           /\ sent # <<>> => 1 \in DOMAIN sent
<1>1. DOMAIN sent = 1 .. Len(sent) /\ Len(sent) \in Nat
  BY LenProperties DEF StateOK
<1>2. \A j \in 1 .. Len(sent) : sent[j] \in Sendings
  <2> HIDE DEF Sendings
  <2> QED
    BY ElementOfSeq DEF StateOK
<1>3. sent # <<>> => Len(sent) # 0
  <2>1. sent \in Seq(Sendings)
    BY DEF StateOK
  <2> HIDE DEF Sendings
  <2> QED
    BY <2>1, EmptySeq
<1> QED
  BY <1>1, <1>2, <1>3 DEF Sendings

LEMMA OrderSend ==
    ASSUME StateOK, InFileOrder, InMergeOrder, Paced, NEW r \in Readers, Send(r)
    PROVE  InMergeOrder' /\ Paced'
<1>1. PICK c, e : c = Cursor(r) /\ e = [place |-> c, wait |-> Wait(Record(c))]
  OBVIOUS
<1>2. /\ c \in All /\ e \in Sendings /\ e.place = c /\ e.wait = Wait(Record(c))
      /\ phase = "sending" /\ r \in queue /\ call' = call /\ call \in Calls
      /\ \A q \in queue \ {r} : Before(c, Cursor(q))
      /\ phase' \in {"failed", "sending"}
      /\ \/ sent' = sent /\ phase' = "failed"
         \/ sent' = Append(sent, e)
      /\ first_capture_time' =
            IF first_capture_time = Nothing THEN Record(c).time ELSE first_capture_time
      /\ c = At(r, record_index[r]) /\ record_index[r] \in DOMAIN input[r]
  BY <1>1, SendFacts DEF StateOK
<1>3. Progress /\ ~Took(c)
  <2>1. Progress /\ record_index[r] \in Nat
    BY <1>2 DEF InFileOrder, StateOK
  <2> QED
    BY <1>2, <2>1 DEF Progress
<1>4. /\ All' = All /\ \A p : Record(p)' = Record(p)
      /\ \A p, q : Precedes(p, q)' <=> Precedes(p, q)
      /\ Chronological' <=> Chronological
  BY <1>2, SameCall
<1>5. Record(c).time \in Waits /\ Nothing \notin Nat
  BY <1>2, RecordType, ReplayAssumption DEF Waits
<1>6. CASE sent' = sent /\ phase' = "failed"
  <2>1. \A p : Took(p)' <=> Took(p)
    BY <1>6, TookSame
  <2> QED
    BY <1>4, <1>6, <2>1 DEF InMergeOrder, Paced
<1>7. CASE sent' = Append(sent, e)
  <2>1. /\ Len(sent) \in Nat /\ DOMAIN sent = 1 .. Len(sent) /\ DOMAIN sent' = 1 .. Len(sent) + 1
        /\ \A i \in 1 .. Len(sent) : sent'[i] = sent[i]
        /\ sent'[Len(sent) + 1] = e /\ sent' # <<>>
        /\ sent = <<>> => Len(sent) = 0
    <3>1. sent \in Seq(Sendings)
      BY DEF StateOK
    <3> HIDE DEF Sendings
    <3> QED
      BY <1>2, <1>7, <3>1, Appended
  <2>2. \A i \in DOMAIN sent' : i \in DOMAIN sent \/ i = Len(sent) + 1
    BY <2>1
  <2>3. \A p : Took(p)' <=> Took(p) \/ p = c
    BY <1>2, <1>7, TookMore
  <2>4. ASSUME Chronological, NEW i \in DOMAIN sent'
        PROVE  /\ \A j \in DOMAIN sent' : i < j => Precedes(sent'[i].place, sent'[j].place)
               /\ \A p \in All : ~Took(p)' => Precedes(sent'[i].place, p)
    <3>1. CASE i = Len(sent) + 1
      <4>1. \A p \in All : ~Took(p)' => Precedes(c, p)
        BY <1>1, <1>2, <1>3, <2>3, <2>4, NextComesFirst
      <4> QED
        BY <1>2, <2>1, <3>1, <4>1
    <3>2. CASE i # Len(sent) + 1
      <4>1. i \in DOMAIN sent /\ sent'[i] = sent[i]
        BY <2>1, <2>2, <3>2
      <4>2. Precedes(sent[i].place, c)
        BY <1>2, <1>3, <2>4, <4>1 DEF InMergeOrder
      <4>3. \A j \in DOMAIN sent' : i < j => Precedes(sent'[i].place, sent'[j].place)
        BY <1>2, <2>1, <2>2, <2>4, <4>1, <4>2 DEF InMergeOrder
      <4> QED
        BY <2>3, <2>4, <4>1, <4>3 DEF InMergeOrder
    <3> QED
      BY <3>1, <3>2
  <2>5. InMergeOrder'
    BY <1>4, <2>4 DEF InMergeOrder
  <2>6. CASE sent = <<>>
    <3>1. /\ first_capture_time = Nothing /\ first_capture_time' = Record(c).time /\ e.wait = 0
          /\ DOMAIN sent' = {1} /\ sent'[1] = e
      BY <1>2, <2>1, <2>6, WaitType DEF Paced
    <3> QED
      BY <1>2, <1>4, <1>5, <2>1, <2>5, <3>1 DEF Paced, Waits
  <2>7. CASE sent # <<>>
    <3>1. /\ 1 \in DOMAIN sent /\ sent'[1] = sent[1] /\ sent[1].place \in All
          /\ first_capture_time = Record(sent[1].place).time
          /\ Record(sent[1].place).time \in Waits
      BY <1>2, <2>1, <2>7, SentPlaces, RecordType DEF Paced, Waits
    <3>2. first_capture_time' = first_capture_time /\ first_capture_time \in Nat
      BY <1>2, <1>5, <3>1 DEF Waits
    <3>3. Chronological => e.wait = Record(c).time - Record(sent[1].place).time
      <4>1. Chronological => Precedes(sent[1].place, c)
        BY <1>2, <1>3, <3>1 DEF InMergeOrder
      <4>2. Chronological => Record(sent[1].place).time <= Record(c).time
        BY <1>2, <3>1, <4>1, Ordered
      <4> QED
        BY <1>2, <3>1, <3>2, <4>2, WaitType
    <3>4. Chronological => \A i \in DOMAIN sent' :
            sent'[i].wait = Record(sent'[i].place).time - Record(sent'[1].place).time
      BY <1>2, <2>1, <2>2, <3>1, <3>3 DEF Paced
    <3> QED
      BY <1>4, <1>5, <2>1, <2>5, <3>1, <3>2, <3>4 DEF Paced
  <2> QED
    BY <2>5, <2>6, <2>7
<1> QED
  BY <1>2, <1>6, <1>7

LEMMA OrderStep ==
    ASSUME StateOK, InFileOrder, InMergeOrder, Paced, [Next]_vars
    PROVE  InMergeOrder' /\ Paced'
<1>1. CASE OpenPass
  <2>1. sent' = <<>> /\ first_capture_time' = Nothing
    BY <1>1, OpenFacts
  <2> QED
    BY <2>1 DEF InMergeOrder, Paced
<1>2. CASE EndPass \/ UNCHANGED vars
  <2>1. /\ UNCHANGED <<sent, first_capture_time, call>>
        /\ phase' = "sending" => phase = "sending"
    BY <1>2 DEF EndPass, vars
  <2>2. /\ All' = All /\ (\A p : Record(p)' = Record(p))
        /\ (\A p, q : Precedes(p, q)' <=> Precedes(p, q))
        /\ (Chronological' <=> Chronological)
    BY <2>1, SameCall
  <2>3. \A p : Took(p)' <=> Took(p)
    BY <2>1, TookSame
  <2>4. InMergeOrder'
    BY <2>1, <2>2, <2>3 DEF InMergeOrder
  <2> QED
    BY <2>1, <2>2, <2>4 DEF Paced
<1> QED
  BY <1>1, <1>2, OrderSend DEF Next

-----------------------------------------------------------------------------
(* Theorems.                                                               *)

LEMMA Invariant == Spec => []IInv
<1>1. IInv /\ [Next]_vars => IInv'
  BY TypeStep, LimitStep, FileStep, OrderStep DEF IInv
<1> QED
  BY <1>1, InitIInv, PTL DEF Spec

\* Indexes stay within the files and waits within 64 bits (593-631).
THEOREM TypeCorrect == Spec => []TypeOK
<1>1. IInv => TypeOK
  <2>1. SUFFICES ASSUME IInv PROVE TypeOK
    OBVIOUS
  <2>2. \A i \in DOMAIN sent : sent[i].place \in All /\ sent[i].wait \in 0 .. U64 - 1
    <3>1. \A i \in 1 .. Len(sent) : sent[i] \in Sendings
      <4> HIDE DEF Sendings
      <4> QED
        BY <2>1, ElementOfSeq DEF IInv, StateOK
    <3> QED
      BY <2>1, <3>1, SentPlaces DEF IInv, Sendings, Waits
  <2> QED
    BY <2>1, <2>2, InputType DEF IInv, StateOK, TypeOK
<1> QED
  BY <1>1, Invariant, PTL

\* --max-records (531-532, 571-576, 605) counts over all passes and is never overrun,
\* and a replay that loops ends only when it is reached.
THEOREM LimitHolds == Spec => []LimitKept
<1>1. IInv => LimitKept
  BY DEF IInv
<1> QED
  BY <1>1, Invariant, PTL

\* Whatever order a file is in, the queue (604-631) sends its records in that
\* order and misses none.
THEOREM FilesInOrder == Spec => []FileOrderKept
<1>1. IInv => FileOrderKept
  <2>1. SUFFICES ASSUME IInv PROVE FileOrderKept
    OBVIOUS
  <2>2. ASSUME phase = "done", max_records = 0, NEW p \in All PROVE Took(p)
    <3>1. Progress /\ queue = {}
      BY <2>1, <2>2 DEF IInv, InFileOrder
    <3>2. /\ p.reader \in Readers /\ p.index \in DOMAIN input[p.reader] /\ p = At(p.reader, p.index)
      BY <2>1, RecordType DEF IInv, StateOK
    <3>3. /\ record_index[p.reader] = Len(input[p.reader])
          /\ DOMAIN input[p.reader] = 1 .. Len(input[p.reader]) /\ Len(input[p.reader]) \in Nat
      BY <2>1, <3>1, <3>2, InputType DEF IInv, StateOK, Progress
    <3> QED
      BY <3>1, <3>2, <3>3 DEF Progress
  <2> QED
    BY <2>1, <2>2 DEF IInv, InFileOrder, FileOrderKept, Took
<1> QED
  BY <1>1, Invariant, PTL

\* Of files that run forward, what is sent is merged by capture time, stream,
\* sequence number and file (360-373), though only one record of each is known.
THEOREM FilesMerged == Spec => []MergedInOrder
<1>1. IInv => MergedInOrder
  <2>1. SUFFICES ASSUME IInv, Chronological, NEW i \in DOMAIN sent, NEW p \in All,
                        Precedes(p, sent[i].place)
                 PROVE  Took(p)
    BY DEF IInv, InMergeOrder, MergedInOrder, Took
  <2>2. ~Took(p) => Precedes(sent[i].place, p)
    BY <2>1 DEF IInv, InMergeOrder
  <2>3. sent[i].place \in All /\ call \in Calls
    BY <2>1, SentPlaces DEF IInv, StateOK
  <2> QED
    BY <2>1, <2>2, <2>3, Ordered
<1> QED
  BY <1>1, Invariant, PTL

\* Of such files no record is due before the one sent ahead of it: the unsigned
\* difference of times (612-621) never wraps.
THEOREM PaceForward == Spec => []PacedForward
<1>1. IInv => PacedForward
  <2>1. SUFFICES ASSUME IInv, Chronological, NEW i \in DOMAIN sent, NEW j \in i .. Len(sent)
                 PROVE  sent[i].wait <= sent[j].wait
    BY DEF PacedForward
  <2>2. /\ j \in DOMAIN sent /\ i \in Nat /\ j \in Nat /\ (i = j \/ i < j)
        /\ sent[1].place \in All /\ sent[i].place \in All /\ sent[j].place \in All
        /\ call \in Calls
    BY <2>1, SentPlaces DEF IInv, StateOK
  <2>3. /\ Record(sent[1].place).time \in Nat /\ Record(sent[i].place).time \in Nat
        /\ Record(sent[j].place).time \in Nat
    BY <2>2, RecordType
  <2>4. i < j => Record(sent[i].place).time <= Record(sent[j].place).time
    BY <2>1, <2>2, Ordered DEF IInv, InMergeOrder
  <2>5. /\ sent[i].wait = Record(sent[i].place).time - Record(sent[1].place).time
        /\ sent[j].wait = Record(sent[j].place).time - Record(sent[1].place).time
    BY <2>1, <2>2 DEF IInv, Paced
  <2> QED
    BY <2>2, <2>3, <2>4, <2>5
<1> QED
  BY <1>1, Invariant, PTL

=============================================================================
