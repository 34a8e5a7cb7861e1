------------------------------- MODULE Replay -------------------------------
(***************************************************************************)
(* The replay tool: one reader per capture file, a queue with the next     *)
(* record of each, and a sender that takes the earliest, over one pass or  *)
(* several (replay.cpp).  A record is what the merge looks at; one that is *)
(* not `valid` is short, truncated or has impossible sizes or times.       *)
(***************************************************************************)
EXTENDS Naturals, Sequences

CONSTANTS
    Calls,          \* command lines: the records of each file, sorted and made
                    \* unique by collectInputFiles, --loop and --max-records
    Route,          \* streams with a destination
    Nothing,        \* no record yet
    U64,            \* 2^64
    MaxTotal        \* bound: records sent before a looping run is left alone

Records == [time : 0 .. U64 - 1, stream : Nat, sequence : Nat, valid : BOOLEAN]

ASSUME ReplayAssumption ==
    /\ U64 \in Nat \ {0} /\ Nothing \notin Nat
    /\ \A c \in Calls :
        /\ c.loop \in BOOLEAN /\ c.max_records \in Nat
        /\ DOMAIN c.input \subseteq Nat
        /\ \A r \in DOMAIN c.input : c.input[r] \in Seq(Records)

VARIABLES
    call,           \* the one the program was started with
    phase,          \* "opening" a pass, "sending", "done" or "failed"
    record_index,   \* records read per file in this pass
    queue,          \* readers that have a record in the queue
    first_capture_time,
    sent,           \* of this pass: reader, index and wait since the first
    total_sent      \* by the passes before

vars == <<call, phase, record_index, queue, first_capture_time, sent, total_sent>>

input == call.input
loop == call.loop
max_records == call.max_records     \* 0: no limit

Readers == DOMAIN input

Init ==
    /\ call \in Calls
    /\ phase = "opening"
    /\ record_index = [r \in Readers |-> 0]
    /\ queue = {}
    /\ first_capture_time = Nothing
    /\ sent = <<>>
    /\ total_sent = 0

-----------------------------------------------------------------------------
\* A place in the input, and the record at it.
At(r, i) == [reader |-> r, index |-> i]
Record(place) == input[place.reader][place.index]

\* Mutant of Before: ties are left to the order of the files.
BeforeByTime(p, q) ==
    LET a == Record(p)
        b == Record(q)
    IN  a.time < b.time \/ (a.time = b.time /\ p.reader < q.reader)

\* Mutant of Before: latest first, as a priority_queue does without a comparison.
BeforeReversed(p, q) ==
    LET a == Record(p)
        b == Record(q)
    IN  a.time > b.time \/ (a.time = b.time /\ p.reader < q.reader)

\* ReplayCursorCompare, the other way round: p leaves the queue before q.
Before(p, q) ==
    LET a == Record(p)
        b == Record(q)
    IN  \/ a.time < b.time
        \/ /\ a.time = b.time /\ a.stream < b.stream
        \/ /\ a.time = b.time /\ a.stream = b.stream /\ a.sequence < b.sequence
        \/ /\ a.time = b.time /\ a.stream = b.stream /\ a.sequence = b.sequence
           /\ p.reader < q.reader

Cursor(r) == At(r, record_index[r])

\* readNext for reader r once it has read i records: the end of the file, a
\* record, or an exception.
AtEnd(r, i) == i = Len(input[r])
Bad(r, i) == ~AtEnd(r, i) /\ ~input[r][i + 1].valid

\* Mutant of LimitReached: one record more.
LimitReachedLate == max_records # 0 /\ total_sent + Len(sent) > max_records

LimitReached == max_records # 0 /\ total_sent + Len(sent) >= max_records

-----------------------------------------------------------------------------
\* Every file is opened and its first record read before anything is sent.
OpenPass ==
    /\ phase = "opening"
    /\ total_sent <= MaxTotal
    /\ first_capture_time' = Nothing
    /\ sent' = <<>>
    /\ IF \E r \in Readers : Bad(r, 0)
       THEN phase' = "failed" /\ UNCHANGED <<record_index, queue>>
       ELSE /\ phase' = "sending"
            /\ queue' = {r \in Readers : ~AtEnd(r, 0)}
            /\ record_index' = [r \in Readers |-> IF AtEnd(r, 0) THEN 0 ELSE 1]
    /\ UNCHANGED <<call, total_sent>>

\* sleep_until, for --pace captured: how long after the first record.
Wait(record) ==
    IF first_capture_time = Nothing THEN 0
    ELSE (U64 + record.time - first_capture_time) % U64

\* Mutant of Refill: the next record but one.
RefillSkipping(r) ==
    IF Len(input[r]) <= record_index[r] + 1
    THEN queue' = queue \ {r} /\ UNCHANGED <<record_index, phase>>
    ELSE /\ record_index' = [record_index EXCEPT ![r] = @ + 2]
         /\ UNCHANGED <<queue, phase>>

\* The next record of the file that has just been sent from.
Refill(r) ==
    IF AtEnd(r, record_index[r]) THEN queue' = queue \ {r} /\ UNCHANGED <<record_index, phase>>
    ELSE IF Bad(r, record_index[r])
    THEN phase' = "failed" /\ UNCHANGED <<record_index, queue>>
    ELSE /\ record_index' = [record_index EXCEPT ![r] = @ + 1]
         /\ UNCHANGED <<queue, phase>>

\* UdpReplaySender::send knows where a record goes.
Destined(place) == Record(place).stream \in Route

Send(r) ==
    /\ phase = "sending" /\ ~LimitReached
    /\ r \in queue
    /\ \A q \in queue \ {r} : Before(Cursor(r), Cursor(q))
    /\ first_capture_time' =
            IF first_capture_time = Nothing THEN Record(Cursor(r)).time ELSE first_capture_time
    /\ IF Destined(Cursor(r))
       THEN /\ sent' = Append(sent, [place |-> Cursor(r), wait |-> Wait(Record(Cursor(r)))])
            /\ Refill(r)
       ELSE phase' = "failed" /\ UNCHANGED <<sent, queue, record_index>>
    /\ UNCHANGED <<call, total_sent>>

\* Mutant of EndPass: the limit is only looked at within a pass.
EndPassUnlimited ==
    /\ phase = "sending"
    /\ queue = {} \/ LimitReached
    /\ total_sent' = total_sent + Len(sent)
    /\ phase' = IF loop THEN "opening" ELSE "done"
    /\ UNCHANGED <<call, record_index, queue, first_capture_time, sent>>

EndPass ==
    /\ phase = "sending"
    /\ queue = {} \/ LimitReached
    /\ total_sent' = total_sent + Len(sent)
    /\ phase' = IF LimitReached \/ ~loop THEN "done" ELSE "opening"
    /\ UNCHANGED <<call, record_index, queue, first_capture_time, sent>>

Next == OpenPass \/ EndPass \/ \E r \in Readers : Send(r)

Spec == Init /\ [][Next]_vars

\* One thread, which nothing stops.
FairSpec == Spec /\ WF_vars(Next)

-----------------------------------------------------------------------------
(* Properties.                                                             *)

All == UNION {{At(r, i) : i \in DOMAIN input[r]} : r \in Readers}

TypeOK ==
    /\ phase \in {"opening", "sending", "done", "failed"}
    /\ \A r \in Readers : record_index[r] \in 0 .. Len(input[r])
    /\ queue \subseteq {r \in Readers : record_index[r] > 0}
    /\ \A i \in DOMAIN sent : sent[i].place \in All /\ sent[i].wait \in 0 .. U64 - 1
    /\ total_sent \in Nat

\* What a record is merged by: p belongs before q.
Key(p) == LET record == Record(p)
          IN  <<record.time, record.stream, record.sequence, p.reader, p.index>>
Precedes(p, q) ==
    \E i \in 1 .. 5 : /\ Key(p)[i] < Key(q)[i]
                     /\ \A j \in 1 .. i - 1 : Key(p)[j] = Key(q)[j]

\* Do all files run forward, as a capture does?
Chronological ==
    \A r \in Readers : \A i, j \in DOMAIN input[r] : i < j => Precedes(At(r, i), At(r, j))

\* "The replay tool streams token files directly and merge-orders them by the
\* capture timestamp prefix" (README.md:89): with one record per file in memory,
\* what has been sent of a pass is in order, and nothing that is still to be sent
\* belongs before any of it.
MergedInOrder ==
    Chronological =>
        /\ \A i, j \in DOMAIN sent : i < j => Precedes(sent[i].place, sent[j].place)
        /\ \A i \in DOMAIN sent : \A p \in All :
            Precedes(p, sent[i].place) => \E j \in DOMAIN sent : sent[j].place = p

\* "Replay using the capture timestamps" (README.md:38): no record is due before
\* the one sent ahead of it, and the unsigned difference never wraps.
PacedForward ==
    Chronological => \A i \in DOMAIN sent : \A j \in i .. Len(sent) :
        sent[i].wait <= sent[j].wait

\* In whatever order a file is, its records are sent in that order, each after the
\* one ahead of it, and all of them when the replay ends without a limit.
FileOrderKept ==
    /\ \A i, j \in DOMAIN sent :
        i < j /\ sent[i].place.reader = sent[j].place.reader =>
            sent[i].place.index < sent[j].place.index
    /\ \A i \in DOMAIN sent : \A n \in 1 .. sent[i].place.index :
        \E j \in 1 .. i : sent[j].place = At(sent[i].place.reader, n)
    /\ phase = "done" /\ max_records = 0 =>
        \A p \in All : \E j \in DOMAIN sent : sent[j].place = p

\* --max-records counts over all passes, and is reached exactly.
LimitKept ==
    max_records # 0 =>
        /\ total_sent <= max_records
        /\ phase = "sending" => total_sent + Len(sent) <= max_records
        /\ phase = "done" /\ loop => total_sent = max_records

\* A run that can end does.  One that loops over empty files has no end, limit or
\* not (571-576).
Finishes ==
    ~loop \/ (max_records # 0 /\ \E r \in Readers : input[r] # <<>>)
        ~> phase \in {"done", "failed"}

=============================================================================
