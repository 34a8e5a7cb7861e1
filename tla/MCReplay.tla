------------------------------- MODULE MCReplay -------------------------------
(* TLC instances of Replay.                                                *)
EXTENDS Replay, SequencesExt

Valid(times, streams, numbers) ==
    [time : times, stream : streams, sequence : numbers, valid : {TRUE}]
Invalid == [time |-> 0, stream |-> 0, sequence |-> 0, valid |-> FALSE]

\* What one file holds: every tie of time, stream and sequence number; streams with
\* no destination and broken records; times in any order.
Ties == SeqOf(Valid({1, 2}, {15, 18}, {1, 2}), 2)
Broken == SeqOf(Valid({1, 3}, {15, 20}, {1}) \cup {Invalid}, 2)
Times == SeqOf(Valid({1, 2, 3}, {15}, {1}) \cup {Invalid}, 3)

\* Replays of so many files.
Replays(files, captures, again, limit) ==
    [input : [1 .. files -> captures], loop : {again}, max_records : {limit}]

MCCalls ==
    Replays(2, Ties, FALSE, 0) \cup Replays(3, Broken, FALSE, 0)
      \cup Replays(2, Times, TRUE, 4)
MCRoute == {15, 18}

=============================================================================
