------------------------ MODULE SessionDeliveryProofs ------------------------
(***************************************************************************)
(* Frames reach a client whole, and a socket is closed only when no thread *)
(* is about to use it, for any number of sessions, market-data threads,    *)
(* orders and events.                                                      *)
(***************************************************************************)
EXTENDS SessionDelivery, SequenceTheorems, FiniteSetTheorems, TLAPS

-----------------------------------------------------------------------------
(* Calls of the engine.                                                    *)

OrderEvents == [type : {"confirmed", "modified", "trade", "cancelled"}, order : Nat,
                session : Sessions, quantity : Nat, ref : Nat]

\* What a thread of a session or of a market-data stream may have to send.
AllEvents == OrderEvents \cup {Engine!Refusal, Info}

EngineOK ==
    /\ next_order \in Nat /\ next_ref \in Nat
    /\ \A n \in DOMAIN open :
        n \in Nat /\ n < next_order /\ open[n] \in [session : Sessions, left : Nat \ {0}]

\* Sessions with an order in the engine.
Owners == {open[n].session : n \in DOMAIN open}

LEMMA KeepOK ==
    ASSUME EngineOK, NEW n \in Nat, NEW s \in Sessions, NEW left \in Nat, Engine!Keep(n, s, left),
           next_order' \in Nat, next_order <= next_order', n < next_order'
    PROVE  /\ \A m \in DOMAIN open' :
                m \in Nat /\ m < next_order' /\ open'[m] \in [session : Sessions, left : Nat \ {0}]
           /\ Owners' \subseteq Owners \cup {s}
<1>1. open' = [m \in (DOMAIN open \cup {n}) \ (IF left = 0 THEN {n} ELSE {}) |->
                IF m = n THEN [session |-> s, left |-> left] ELSE open[m]]
  BY DEF Engine!Keep
<1>2. ASSUME NEW m \in DOMAIN open'
      PROVE  /\ m \in Nat /\ m < next_order' /\ open'[m] \in [session : Sessions, left : Nat \ {0}]
             /\ open'[m].session \in Owners \cup {s}
  <2>1. CASE m = n
    <3>1. left # 0 /\ open'[m] = [session |-> s, left |-> left]
      BY <1>1, <1>2, <2>1
    <3> QED
      BY <2>1, <3>1
  <2>2. CASE m # n
    <3>1. m \in DOMAIN open /\ open'[m] = open[m]
      BY <1>1, <1>2, <2>2
    <3> QED
      BY <3>1 DEF EngineOK, Owners
  <2> QED
    BY <2>1, <2>2
<1> QED
  BY <1>2 DEF Owners

LEMMA EventOK ==
    ASSUME NEW type \in {"confirmed", "modified", "trade", "cancelled"}, NEW n \in Nat,
           NEW s \in Sessions, NEW quantity \in Nat, NEW ref \in Nat
    PROVE  /\ Engine!Event(type, n, s, quantity, ref) \in OrderEvents
           /\ <<Engine!Event(type, n, s, quantity, ref)>> \in Seq(OrderEvents)
           /\ Engine!TradeOf(n, s, quantity, ref) \in Seq(OrderEvents)
<1>1. \A type_1 \in {"confirmed", "modified", "trade", "cancelled"} :
        Engine!Event(type_1, n, s, quantity, ref) \in OrderEvents
  BY DEF Engine!Event, OrderEvents
<1> HIDE DEF OrderEvents
<1>2. \A e \in OrderEvents : <<e>> \in Seq(OrderEvents)
  OBVIOUS
<1> QED
  BY <1>1, <1>2 DEF Engine!TradeOf

LEMMA AcceptOK ==
    ASSUME EngineOK, NEW s \in Sessions, NEW volume \in Nat, NEW traded, NEW stays \in BOOLEAN,
           Engine!Accept(s, volume, traded, stays)
    PROVE  EngineOK' /\ reply' \in Seq(OrderEvents) /\ Owners' \subseteq Owners \cup {s}
<1> DEFINE n == next_order
           first == <<Engine!Event("confirmed", n, s, volume, next_ref)>>
           trade == Engine!TradeOf(n, s, traded, next_ref + 1)
           ref == next_ref + IF traded = 0 THEN 1 ELSE 2
           rest == IF stays \/ traded = volume THEN <<>>
                   ELSE <<Engine!Event("cancelled", n, s, 0, ref)>>
           left == IF stays THEN volume - traded ELSE 0
<1>1. /\ next_order' = next_order + 1 /\ traded \in 0 .. volume
      /\ reply' = first \o trade \o rest
      /\ next_ref' = next_ref + Len(reply')
      /\ Engine!Keep(n, s, left)
  BY DEF Engine!Accept
<1>2. n \in Nat /\ next_ref \in Nat /\ ref \in Nat /\ traded \in Nat /\ left \in Nat
  BY <1>1 DEF EngineOK
<1>3. first \in Seq(OrderEvents) /\ trade \in Seq(OrderEvents) /\ rest \in Seq(OrderEvents)
  <2>1. <<Engine!Event("cancelled", n, s, 0, ref)>> \in Seq(OrderEvents)
    BY <1>2, EventOK
  <2>2. <<>> \in Seq(OrderEvents)
    OBVIOUS
  <2>3. first \in Seq(OrderEvents)
    BY <1>2, EventOK
  <2>4. trade \in Seq(OrderEvents)
    BY <1>2, EventOK
  <2> QED
    BY <2>1, <2>2, <2>3, <2>4
<1> HIDE DEF n, first, trade, rest, left
<1>4. reply' \in Seq(OrderEvents)
  BY <1>1, <1>3, ConcatProperties
<1>5. next_ref' \in Nat
  BY <1>1, <1>2, <1>4, LenProperties
<1>6. next_order' \in Nat /\ next_order <= next_order' /\ n < next_order'
  BY <1>1, <1>2 DEF n
<1> QED
  BY <1>1, <1>2, <1>4, <1>5, <1>6, KeepOK DEF EngineOK

LEMMA ModifyOK ==
    ASSUME EngineOK, NEW n \in DOMAIN open, NEW volume \in Nat, NEW traded \in 0 .. volume,
           Engine!Modify(n, volume, traded)
    PROVE  EngineOK' /\ reply' \in Seq(OrderEvents) /\ Owners' \subseteq Owners
<1> DEFINE s == open[n].session
<1>1. /\ next_order' = next_order
      /\ next_ref' = next_ref + (IF traded = 0 THEN 1 ELSE 2)
      /\ reply' = <<Engine!Event("modified", n, s, volume, next_ref)>>
                    \o Engine!TradeOf(n, s, traded, next_ref + 1)
      /\ Engine!Keep(n, s, volume - traded)
  BY DEF Engine!Modify
<1>2. /\ n \in Nat /\ n < next_order /\ s \in Sessions /\ next_ref \in Nat /\ next_order \in Nat
      /\ s \in Owners /\ volume - traded \in Nat /\ traded \in Nat /\ next_ref + 1 \in Nat
  BY DEF EngineOK, Owners
<1> HIDE DEF s
<1>3. <<Engine!Event("modified", n, s, volume, next_ref)>> \in Seq(OrderEvents)
  BY <1>2, EventOK
<1>4. Engine!TradeOf(n, s, traded, next_ref + 1) \in Seq(OrderEvents)
  BY <1>2, EventOK
<1>5. reply' \in Seq(OrderEvents)
  BY <1>1, <1>3, <1>4, ConcatProperties
<1>6. next_ref' \in Nat
  BY <1>1, <1>2
<1> QED
  BY <1>1, <1>2, <1>5, <1>6, KeepOK DEF EngineOK

LEMMA CancelOK ==
    ASSUME EngineOK, NEW n \in DOMAIN open, Engine!Cancel(n)
    PROVE  EngineOK' /\ reply' \in Seq(OrderEvents) /\ Owners' \subseteq Owners
<1> DEFINE s == open[n].session
<1>1. /\ next_order' = next_order /\ next_ref' = next_ref + 1
      /\ reply' = <<Engine!Event("cancelled", n, s, 0, next_ref)>>
      /\ Engine!Keep(n, s, 0)
  BY DEF Engine!Cancel
<1>2. /\ n \in Nat /\ n < next_order /\ s \in Sessions /\ next_ref \in Nat /\ next_order \in Nat
      /\ s \in Owners
  BY DEF EngineOK, Owners
<1> HIDE DEF s
<1>3. reply' \in Seq(OrderEvents)
  BY <1>1, <1>2, EventOK
<1> QED
  BY <1>1, <1>2, <1>3, KeepOK DEF EngineOK

LEMMA EngineCardinality == \A S : Engine!Cardinality(S) = Cardinality(S)
  BY DEF Engine!Cardinality, Cardinality

LEMMA MatchOK ==
    ASSUME EngineOK, NEW S \in SUBSET DOMAIN open, Engine!Match(S)
    PROVE  EngineOK' /\ reply' \in Seq(OrderEvents) /\ Owners' \subseteq Owners
<1> DEFINE k == Cardinality(S)
<1>1. PICK traded \in [S -> Volumes], nth \in [1 .. k -> S] :
        /\ \A n \in S : traded[n] <= open[n].left
        /\ open' = [n \in {m \in DOMAIN open :
                        (IF m \in S THEN open[m].left - traded[m] ELSE open[m].left) > 0} |->
                [open[n] EXCEPT !.left =
                    IF n \in S THEN open[n].left - traded[n] ELSE open[n].left]]
        /\ reply' = [i \in DOMAIN nth |->
                Engine!Event("trade", nth[i], open[nth[i]].session, traded[nth[i]],
                             next_ref + i - 1)]
  BY EngineCardinality DEF Engine!Match
<1>2. next_order' = next_order /\ next_ref' = next_ref + k
  BY EngineCardinality DEF Engine!Match
<1>3. k \in Nat
  <2>1. next_order \in Nat /\ \A n \in DOMAIN open : n \in 0 .. next_order
    BY DEF EngineOK
  <2>2. IsFiniteSet(0 .. next_order)
    BY <2>1, FS_Interval
  <2>3. S \subseteq 0 .. next_order
    BY <2>1
  <2> QED
    BY <2>2, <2>3, FS_Subset, FS_CardinalityType
<1> HIDE DEF k
<1>4. ASSUME NEW n \in DOMAIN open'
      PROVE  /\ n \in DOMAIN open /\ open'[n].session = open[n].session
             /\ open'[n] \in [session : Sessions, left : Nat \ {0}]
  <2> DEFINE left == IF n \in S THEN open[n].left - traded[n] ELSE open[n].left
  <2>1. n \in DOMAIN open /\ left > 0 /\ open'[n] = [open[n] EXCEPT !.left = left]
    BY <1>1
  <2>2. open[n] \in [session : Sessions, left : Nat \ {0}]
    BY <2>1 DEF EngineOK
  <2>3. left \in Nat \ {0}
    <3>1. n \in S => traded[n] \in Nat /\ traded[n] <= open[n].left
      BY <1>1, VolumeAssumption
    <3> QED
      BY <2>1, <2>2, <3>1
  <2> HIDE DEF left
  <2> QED
    BY <2>1, <2>2, <2>3
<1>5. ASSUME NEW i \in 1 .. k
      PROVE  reply'[i] \in OrderEvents
  <2> DEFINE n == nth[i]
             s == open[n].session
             quantity == traded[n]
             ref == next_ref + i - 1
  <2>1. n \in DOMAIN open /\ quantity \in Nat
    BY <1>1, VolumeAssumption
  <2>2. n \in Nat /\ s \in Sessions /\ ref \in Nat
    BY <1>3, <2>1 DEF EngineOK
  <2>3. reply'[i] = Engine!Event("trade", n, s, quantity, ref)
    BY <1>1
  <2> HIDE DEF n, s, quantity, ref
  <2>4. Engine!Event("trade", n, s, quantity, ref) \in OrderEvents
    BY <2>1, <2>2, EventOK
  <2> QED
    BY <2>3, <2>4, Zenon
<1>6. reply' \in Seq(OrderEvents)
  <2>1. reply' = [i \in 1 .. k |-> reply'[i]]
    BY <1>1
  <2> HIDE DEF OrderEvents
  <2> QED
    BY <1>3, <1>5, <2>1
<1>7. next_ref' \in Nat /\ next_order' \in Nat
  BY <1>2, <1>3 DEF EngineOK
<1> QED
  BY <1>2, <1>4, <1>6, <1>7 DEF EngineOK, Owners

LEMMA DropOK ==
    ASSUME EngineOK, NEW s \in Sessions, Engine!Drop(s)
    PROVE  EngineOK' /\ Owners' \subseteq Owners \ {s}
  BY DEF Engine!Drop, EngineOK, Owners

LEMMA PassOK ==
    ASSUME EngineOK, Engine!Pass
    PROVE  EngineOK' /\ Owners' = Owners /\ reply' \in Seq(AllEvents)
<1>1. Engine!Refusal \in AllEvents
  BY DEF AllEvents
<1> HIDE DEF AllEvents
<1>2. <<Engine!Refusal>> \in Seq(AllEvents) /\ <<>> \in Seq(AllEvents)
  BY <1>1
<1> QED
  BY <1>2 DEF Engine!Pass, EngineOK, Owners

-----------------------------------------------------------------------------
(* The invariant.                                                          *)

Frames == [number : Nat, position : Nat, event : AllEvents]
Parts == [number : Nat, digest : AllEvents] \cup [position : Nat, event : AllEvents]

\* Where a thread has the mutex of its session, unless it answers an inquiry.
Held == {"clear", "encrypted", "header", "failed"}

StateOK ==
    /\ EngineOK
    /\ pending \in [Threads -> Seq(AllEvents)]
    /\ \A f \in Feeds : pending[f] \in Seq(OrderEvents)
    /\ at \in [Threads -> Places]
    /\ \A t \in Threads : at[t] \in Held \cup {"begun"} => pending[t] # <<>>
    /\ frame \in [Threads -> Frames \cup {<<>>}]
    /\ \A t \in Threads : at[t] \in {"encrypted", "header"} => frame[t] \in Frames
    /\ write_mutex \in [Sessions -> Threads \cup {None}]
    /\ closed \in [Sessions -> BOOLEAN] /\ running \in [Sessions -> BOOLEAN]
    /\ sequence_number \in [Sessions -> Nat] /\ cipher \in [Sessions -> Nat]
    /\ socket \in [Sessions -> {"open", "reset", "shut"}]
    /\ wire \in [Sessions -> Seq(Parts)]
    /\ full \in [Sessions -> BOOLEAN] /\ alive \in BOOLEAN

\* A thread that sends has the mutex, and who has it is sending.
Inquirer(t) == t \in Sessions /\ "inquire" \in Habits[t]
Mutex ==
    /\ \A t \in Threads : at[t] \in Held /\ ~Inquirer(t) => write_mutex[Of(t)] = t
    /\ \A t \in Threads : at[t] = "failed" => write_mutex[Of(t)] = t
    /\ \A s \in Sessions : \A t \in Threads : write_mutex[s] = t => at[t] \in Held /\ Of(t) = s
    /\ \A t \in Threads : at[t] = "leaving" => t \in Sessions

\* A session that has left run() has no orders, and its socket is closed only
\* when no thread refers to it.
Lifetimes ==
    /\ \A s \in Sessions : ~running[s] =>
        at[s] = "idle" /\ pending[s] = <<>> /\ s \notin Owners
    /\ \A s \in Sessions : Referenced(s) => socket[s] # "shut"

\* What a session that never inquires has sent, and what is being sent to it.
Sending(t) ==
    LET s == Of(t)
    IN  /\ at[t] = "encrypted" =>
            frame[t].number = sequence_number[s] + 1 /\ frame[t].position = cipher[s]
        /\ at[t] = "header" =>
            /\ frame[t].number = sequence_number[s]
            /\ frame[t].position + 1 = cipher[s]
            /\ socket[s] = "open" =>
                /\ Len(wire[s]) + 1 = 2 * sequence_number[s]
                /\ Len(wire[s]) > 0
                /\ wire[s][Len(wire[s])].digest = frame[t].event
Silent(s) == \A t \in Threads : at[t] = "header" => Of(t) # s
Sent(s) ==
    /\ Whole(s)
    /\ cipher[s] = sequence_number[s]
    /\ socket[s] = "open" /\ Silent(s) => Len(wire[s]) = 2 * sequence_number[s]

Quiet == {s \in Sessions : "inquire" \notin Habits[s]}
Wires ==
    /\ \A t \in Threads : at[t] \in {"encrypted", "header"} /\ Of(t) \in Quiet => Sending(t)
    /\ \A s \in Quiet : Sent(s)

IInv == StateOK /\ Mutex /\ Lifetimes /\ Wires

LEMMA InitIInv == Init => IInv
<1>1. SUFFICES ASSUME Init PROVE IInv
  OBVIOUS
<1> USE DEF Init
<1>2. EngineOK /\ Owners = {}
  BY <1>1, VolumeAssumption DEF Engine!Init, EngineOK, Owners
<1>3. StateOK
  <2>1. /\ <<>> \in Seq(AllEvents) /\ <<>> \in Seq(OrderEvents) /\ <<>> \in Seq(Parts)
    OBVIOUS
  <2>2. FALSE \in BOOLEAN /\ TRUE \in BOOLEAN
    OBVIOUS
  <2>3. /\ pending \in [Threads -> Seq(AllEvents)]
        /\ \A f \in Feeds : pending[f] \in Seq(OrderEvents)
        /\ wire \in [Sessions -> Seq(Parts)]
    <3> HIDE DEF AllEvents, OrderEvents, Parts
    <3> QED
      BY <1>1, <2>1 DEF Threads
  <2>4. /\ closed \in [Sessions -> BOOLEAN] /\ running \in [Sessions -> BOOLEAN]
        /\ full \in [Sessions -> BOOLEAN] /\ alive \in BOOLEAN
    BY <1>1, Zenon
  <2> QED
    BY <1>1, <1>2, <2>3, <2>4 DEF StateOK, Places, Held
<1>4. Mutex
  BY <1>1, ThreadAssumption DEF Mutex, Held, Threads
<1>5. Lifetimes
  BY <1>1, <1>2 DEF Lifetimes
<1>6. Wires
  BY <1>1 DEF Wires, Sent, Whole, Silent, Quiet
<1> QED
  BY <1>3, <1>4, <1>5, <1>6 DEF IInv

-----------------------------------------------------------------------------
(* Types.                                                                  *)

\* The session a thread is busy with is one.
LEMMA OfType ==
    ASSUME StateOK, NEW t \in Threads, pending[t] # <<>>
    PROVE  Of(t) \in Sessions
<1>1. CASE t \in Sessions
  BY <1>1 DEF Of
<1>2. CASE t \notin Sessions
  <2>1. pending[t] \in Seq(OrderEvents)
    BY <1>2 DEF StateOK, Threads
  <2>2. Head(pending[t]) \in OrderEvents
    <3> HIDE DEF OrderEvents
    <3> QED
      BY <2>1
  <2> QED
    BY <1>2, <2>2 DEF Of, OrderEvents
<1> QED
  BY <1>1, <1>2

LEMMA ReturnType ==
    ASSUME StateOK, NEW t \in Threads, pending[t] # <<>>, Return(t)
    PROVE  /\ pending' \in [Threads -> Seq(AllEvents)]
           /\ \A f \in Feeds : pending'[f] \in Seq(OrderEvents)
           /\ at' \in [Threads -> Places]
           /\ \A u \in Threads : at'[u] \in Held \cup {"begun"} => pending'[u] # <<>>
           /\ frame' \in [Threads -> Frames \cup {<<>>}]
           /\ \A u \in Threads : at'[u] \in {"encrypted", "header"} => frame'[u] \in Frames
<1>1. /\ pending' = [pending EXCEPT ![t] = Tail(@)]
      /\ at' = [at EXCEPT ![t] = "idle"] /\ frame' = [frame EXCEPT ![t] = <<>>]
  BY DEF Return, Move
<1>2. Tail(pending[t]) \in Seq(AllEvents) /\ (t \in Feeds => Tail(pending[t]) \in Seq(OrderEvents))
  <2> HIDE DEF AllEvents, OrderEvents
  <2> QED
    BY DEF StateOK
<1>3. \A f \in Feeds : f \in Threads
  BY DEF Threads
<1> QED
  BY <1>1, <1>2, <1>3 DEF StateOK, Places, Held

\* A thread goes from one place to another with the same event in hand.
LEMMA MoveType ==
    ASSUME StateOK, NEW t \in Threads, NEW p \in Places, Move(t, p), UNCHANGED <<pending, frame>>,
           p \in Held \cup {"begun"} => pending[t] # <<>>,
           p \in {"encrypted", "header"} => frame[t] \in Frames
    PROVE  /\ pending' \in [Threads -> Seq(AllEvents)]
           /\ \A f \in Feeds : pending'[f] \in Seq(OrderEvents)
           /\ at' \in [Threads -> Places]
           /\ \A u \in Threads : at'[u] \in Held \cup {"begun"} => pending'[u] # <<>>
           /\ frame' \in [Threads -> Frames \cup {<<>>}]
           /\ \A u \in Threads : at'[u] \in {"encrypted", "header"} => frame'[u] \in Frames
<1>1. at' = [at EXCEPT ![t] = p]
  BY DEF Move
<1> QED
  BY <1>1 DEF StateOK

LEMMA ReleaseType ==
    ASSUME StateOK, Release
    PROVE  socket' \in [Sessions -> {"open", "reset", "shut"}]
  BY DEF StateOK, Release

LEMMA UnlockType ==
    ASSUME StateOK, NEW t, Unlock(t)
    PROVE  write_mutex' \in [Sessions -> Threads \cup {None}]
  BY DEF StateOK, Unlock

\* What the engine does at a session's request.
LEMMA AskOK ==
    ASSUME StateOK, NEW s \in Sessions, Ask(s)
    PROVE  /\ EngineOK' /\ Owners' \subseteq Owners \cup {s}
           /\ pending' = [pending EXCEPT ![s] = reply'] /\ reply' \in Seq(AllEvents)
           /\ running[s] /\ at[s] = "idle" /\ pending[s] = <<>>
           /\ UNCHANGED <<at, frame, sending, write_mutex, closed, running, socket, alive>>
<1>1. EngineOK
  BY DEF StateOK
<1>2. Seq(OrderEvents) \subseteq Seq(AllEvents)
  <2>1. OrderEvents \subseteq AllEvents
    BY DEF AllEvents
  <2> HIDE DEF OrderEvents, AllEvents
  <2> QED
    BY <2>1
<1>3. CASE Engine!Pass
  BY <1>1, <1>3, PassOK DEF Ask
<1>4. ASSUME NEW volume \in Volumes, NEW traded \in 0 .. volume, NEW stays \in BOOLEAN,
             Engine!Accept(s, volume, traded, stays)
      PROVE  EngineOK' /\ Owners' \subseteq Owners \cup {s} /\ reply' \in Seq(OrderEvents)
  <2>1. volume \in Nat
    BY VolumeAssumption
  <2> QED
    BY <1>1, <1>4, <2>1, AcceptOK
<1>5. ASSUME NEW n \in DOMAIN open, NEW left \in Volumes, NEW traded \in 0 .. left,
             Engine!Modify(n, left, traded)
      PROVE  EngineOK' /\ Owners' \subseteq Owners /\ reply' \in Seq(OrderEvents)
  <2>1. left \in Nat
    BY VolumeAssumption
  <2> QED
    BY <1>1, <1>5, <2>1, ModifyOK
<1>6. ASSUME NEW n \in DOMAIN open, Engine!Cancel(n)
      PROVE  EngineOK' /\ Owners' \subseteq Owners /\ reply' \in Seq(OrderEvents)
  BY <1>1, <1>6, CancelOK
<1>7. \/ Engine!Pass
      \/ \E volume \in Volumes : \E traded \in 0 .. volume, stays \in BOOLEAN :
            Engine!Accept(s, volume, traded, stays)
      \/ \E n \in DOMAIN open :
            \/ \E left \in Volumes : \E traded \in 0 .. left : Engine!Modify(n, left, traded)
            \/ Engine!Cancel(n)
  BY Zenon DEF Ask
<1>8. EngineOK' /\ Owners' \subseteq Owners \cup {s} /\ reply' \in Seq(AllEvents)
  BY <1>1, <1>2, <1>3, <1>4, <1>5, <1>6, <1>7, PassOK
<1> QED
  BY <1>8 DEF Ask

LEMMA TickOK ==
    ASSUME StateOK, NEW f \in Feeds, Tick(f)
    PROVE  /\ EngineOK' /\ Owners' \subseteq Owners
           /\ pending' = [pending EXCEPT ![f] = reply'] /\ reply' \in Seq(OrderEvents)
           /\ reply' \in Seq(AllEvents)
           /\ at[f] = "idle" /\ pending[f] = <<>>
           /\ UNCHANGED <<at, frame, sending, write_mutex, closed, running, socket, alive>>
<1>1. PICK S \in SUBSET DOMAIN open : Engine!Match(S)
  BY DEF Tick
<1>2. EngineOK' /\ Owners' \subseteq Owners /\ reply' \in Seq(OrderEvents)
  BY <1>1, MatchOK DEF StateOK
<1>3. reply' \in Seq(AllEvents)
  <2>1. OrderEvents \subseteq AllEvents
    BY DEF AllEvents
  <2> HIDE DEF OrderEvents, AllEvents
  <2> QED
    BY <1>2, <2>1
<1> QED
  BY <1>2, <1>3 DEF Tick

LEMMA EngineSame ==
    ASSUME EngineOK, UNCHANGED engine
    PROVE  EngineOK' /\ Owners' = Owners
  BY DEF EngineOK, Owners, engine

LEMMA DispatchType ==
    ASSUME StateOK, Mutex, NEW t \in Threads, Dispatch(t), UNCHANGED full
    PROVE  StateOK'
<1> USE DEF sending, threads
<1>0. EngineOK /\ t \in Threads
  BY DEF StateOK
<1>1. CASE Skip(t)
  <2>1. Return(t) /\ Release /\ pending[t] # <<>>
        /\ UNCHANGED <<engine, sending, write_mutex, closed, running, alive>>
    BY <1>1 DEF Skip
  <2> QED
    BY <1>0, <2>1, ReturnType, ReleaseType, EngineSame DEF StateOK
<1>2. CASE Begin(t)
  <2>1. /\ Move(t, "begun") /\ pending[t] # <<>>
        /\ UNCHANGED <<engine, pending, frame, sending, write_mutex, closed, running, socket, alive>>
    BY <1>2 DEF Begin
  <2>2. "begun" \in Places
    BY DEF Places
  <2> QED
    BY <1>0, <2>1, <2>2, MoveType, EngineSame DEF StateOK
<1>3. CASE Lock(t)
  <2>1. /\ at[t] = "begun" /\ pending[t] # <<>> /\ Release
        /\ UNCHANGED <<engine, sending, closed, running, alive>>
    BY <1>3 DEF Lock, StateOK
  <2>2. CASE Return(t) /\ UNCHANGED write_mutex
    BY <1>0, <2>1, <2>2, ReturnType, ReleaseType, EngineSame DEF StateOK
  <2>3. CASE /\ Move(t, "clear") /\ write_mutex' = [write_mutex EXCEPT ![Of(t)] = t]
             /\ UNCHANGED <<pending, frame>>
    <3>1. "clear" \in Places
      BY DEF Places
    <3>2. write_mutex' \in [Sessions -> Threads \cup {None}]
      BY <2>3 DEF StateOK
    <3> QED
      BY <1>0, <2>1, <2>3, <3>1, <3>2, MoveType, ReleaseType, EngineSame DEF StateOK
  <2> QED
    BY <1>3, <2>2, <2>3 DEF Lock
<1>4. CASE Encrypt(t)
  <2>1. /\ at[t] = "clear" /\ pending[t] # <<>>
        /\ UNCHANGED <<engine, pending, sending, write_mutex, closed, running, socket, alive>>
        /\ at' = [at EXCEPT ![t] = "encrypted"]
        /\ frame' = [frame EXCEPT ![t] =
                [number |-> sequence_number[Of(t)] + 1, position |-> cipher[Of(t)],
                 event |-> Head(pending[t])]]
    BY <1>4 DEF Encrypt, Move, StateOK, Held
  <2>2. Of(t) \in Sessions
    BY <2>1, OfType
  <2>3. Head(pending[t]) \in AllEvents
    <3> HIDE DEF AllEvents
    <3> QED
      BY <2>1 DEF StateOK
  <2>4. [number |-> sequence_number[Of(t)] + 1, position |-> cipher[Of(t)],
         event |-> Head(pending[t])] \in Frames
    BY <2>2, <2>3 DEF StateOK, Frames
  <2>5. /\ at' \in [Threads -> Places]
        /\ frame' \in [Threads -> Frames \cup {<<>>}]
        /\ \A u \in Threads : at'[u] \in {"encrypted", "header"} => frame'[u] \in Frames
    BY <2>1, <2>4 DEF StateOK, Places
  <2>6. \A u \in Threads : at'[u] \in Held \cup {"begun"} => pending'[u] # <<>>
    BY <2>1 DEF StateOK
  <2> QED
    BY <1>0, <2>1, <2>5, <2>6, EngineSame DEF StateOK
<1>5. CASE WriteHeader(t)
  <2>1. /\ at[t] = "encrypted" /\ pending[t] # <<>> /\ frame[t] \in Frames
        /\ UNCHANGED <<engine, pending, frame, write_mutex, running, socket, alive>>
        /\ sequence_number' = [sequence_number EXCEPT ![Of(t)] = frame[t].number]
        /\ cipher' = [cipher EXCEPT ![Of(t)] = frame[t].position + 1]
    BY <1>5 DEF WriteHeader, StateOK, Held
  <2>2. Of(t) \in Sessions
    BY <2>1, OfType
  <2>3. sequence_number' \in [Sessions -> Nat] /\ cipher' \in [Sessions -> Nat]
    <3>1. frame[t].number \in Nat /\ frame[t].position + 1 \in Nat
      BY <2>1 DEF Frames
    <3>2. sequence_number \in [Sessions -> Nat] /\ cipher \in [Sessions -> Nat]
      BY DEF StateOK
    <3> QED
      BY <2>1, <3>1, <3>2
  <2>4. PICK p \in {"header", "failed", "leaving"} : Move(t, p)
    BY <1>5 DEF WriteHeader, Throw
  <2>5. p \in Places
    BY DEF Places
  <2>6. /\ wire' \in [Sessions -> Seq(Parts)]
        /\ closed' \in [Sessions -> BOOLEAN]
    <3>1. CASE Write(t, [number |-> frame[t].number, digest |-> frame[t].event]) /\ UNCHANGED closed
      <4>1. [number |-> frame[t].number, digest |-> frame[t].event] \in Parts
        BY <2>1 DEF Frames, Parts
      <4> HIDE DEF Parts
      <4> QED
        BY <2>2, <3>1, <4>1 DEF Write, StateOK
    <3>2. CASE Throw(t)
      BY <3>2 DEF Throw, StateOK
    <3> QED
      BY <1>5, <3>1, <3>2 DEF WriteHeader
  <2> QED
    BY <1>0, <2>1, <2>3, <2>4, <2>5, <2>6, MoveType, EngineSame DEF StateOK
<1>6. CASE WriteBody(t)
  <2>1. /\ at[t] = "header" /\ pending[t] # <<>> /\ frame[t] \in Frames /\ Release
        /\ UNCHANGED <<engine, sequence_number, cipher, running, alive>>
    BY <1>6 DEF WriteBody, StateOK, Held
  <2>2. Of(t) \in Sessions
    BY <2>1, OfType
  <2>3. CASE /\ Write(t, [position |-> frame[t].position, event |-> frame[t].event])
             /\ Return(t) /\ Unlock(t) /\ UNCHANGED closed
    <3>1. [position |-> frame[t].position, event |-> frame[t].event] \in Parts
      BY <2>1 DEF Frames, Parts
    <3>2. wire' \in [Sessions -> Seq(Parts)]
      <4> HIDE DEF Parts
      <4> QED
        BY <2>2, <2>3, <3>1 DEF Write, StateOK
    <3> QED
      BY <1>0, <2>1, <2>3, <3>2, ReturnType, UnlockType, ReleaseType, EngineSame DEF StateOK
  <2>4. CASE Throw(t) /\ UNCHANGED <<pending, frame, write_mutex>>
    <3>1. PICK p \in {"failed", "leaving"} : Move(t, p)
      BY <2>4 DEF Throw
    <3>2. p \in Places
      BY DEF Places
    <3>3. closed' \in [Sessions -> BOOLEAN] /\ UNCHANGED wire
      BY <2>4 DEF Throw, StateOK
    <3> QED
      BY <1>0, <2>1, <2>4, <3>1, <3>2, <3>3, MoveType, ReleaseType, EngineSame DEF StateOK
  <2> QED
    BY <1>6, <2>3, <2>4 DEF WriteBody
<1>7. CASE Die(t)
  <2>1. alive' \in BOOLEAN
    BY <1>7, Zenon DEF Die
  <2> QED
    BY <1>0, <1>7, <2>1, EngineSame DEF Die, StateOK
<1>8. CASE ReportClosed(t)
  <2>1. /\ pending[t] # <<>> /\ Return(t) /\ Unlock(t) /\ Release /\ Engine!Drop(Of(t))
        /\ UNCHANGED <<sending, closed, running, alive>>
    BY <1>8 DEF ReportClosed, StateOK, Held
  <2>2. EngineOK'
    BY <1>0, <2>1, OfType, DropOK
  <2> QED
    BY <2>1, <2>2, ReturnType, UnlockType, ReleaseType DEF StateOK
<1> QED
  BY <1>1, <1>2, <1>3, <1>4, <1>5, <1>6, <1>7, <1>8 DEF Dispatch

LEMMA TypeStep ==
    ASSUME StateOK, Mutex, [Next]_vars
    PROVE  StateOK'
<1> USE DEF sending, threads
<1>0. EngineOK
  BY DEF StateOK
<1>1. ASSUME NEW t \in Threads, NEW reply_1 \in Seq(AllEvents), t \in Feeds => reply_1 \in Seq(OrderEvents),
             at[t] = "idle", EngineOK', pending' = [pending EXCEPT ![t] = reply_1],
             UNCHANGED <<at, frame, sending, write_mutex, closed, running, socket, full, alive>>
      PROVE  StateOK'
  <2>1. \A f \in Feeds : f \in Threads
    BY DEF Threads
  <2> QED
    BY <1>1, <2>1 DEF StateOK, Held
<1>2. ASSUME NEW s \in Sessions, Leave(s), UNCHANGED full
      PROVE  StateOK'
  <2>1. /\ closed' \in [Sessions -> BOOLEAN] /\ Move(s, "leaving")
        /\ UNCHANGED <<engine, pending, frame, sending, write_mutex, running, socket, alive>>
    BY <1>2 DEF Leave, StateOK
  <2>2. s \in Threads /\ "leaving" \in Places
    BY DEF Threads, Places
  <2> QED
    BY <1>0, <1>2, <2>1, <2>2, MoveType, EngineSame DEF StateOK, Held
<1>3. ASSUME NEW s \in Sessions,
             Ask(s) \/ Inquire(s) \/ Break(s) \/ ReadFails(s) \/ ReadGarbage(s) \/ ReportLeft(s),
             UNCHANGED full
      PROVE  StateOK'
  <2>0. s \in Threads /\ s \notin Feeds
    BY ThreadAssumption DEF Threads
  <2>1. CASE Ask(s)
    <3>1. /\ EngineOK' /\ reply' \in Seq(AllEvents) /\ at[s] = "idle"
          /\ pending' = [pending EXCEPT ![s] = reply']
          /\ UNCHANGED <<at, frame, sending, write_mutex, closed, running, socket, alive>>
      BY <2>1, AskOK
    <3> QED
      BY <1>1, <1>3, <2>0, <3>1
  <2>2. CASE Inquire(s)
    <3>1. /\ pending' = [pending EXCEPT ![s] = <<Info>>] /\ at' = [at EXCEPT ![s] = "clear"]
          /\ UNCHANGED <<engine, frame, sending, write_mutex, closed, running, socket, alive>>
      BY <2>2 DEF Inquire, Move
    <3>2. <<Info>> \in Seq(AllEvents) /\ <<Info>> # <<>>
      <4>1. Info \in AllEvents
        BY DEF AllEvents
      <4> HIDE DEF AllEvents, Info
      <4> QED
        BY <4>1
    <3> HIDE DEF Info
    <3>3. /\ pending' \in [Threads -> Seq(AllEvents)] /\ at' \in [Threads -> Places]
          /\ \A f \in Feeds : pending'[f] \in Seq(OrderEvents)
      BY <2>0, <3>1, <3>2 DEF StateOK, Places, Threads
    <3>4. \A u \in Threads : at'[u] \in Held \cup {"begun"} => pending'[u] # <<>>
      BY <2>0, <3>1, <3>2 DEF StateOK
    <3>5. \A u \in Threads : at'[u] \in {"encrypted", "header"} => frame'[u] \in Frames
      BY <2>0, <3>1 DEF StateOK
    <3> QED
      BY <1>0, <1>3, <3>1, <3>3, <3>4, <3>5, EngineSame DEF StateOK
  <2>3. CASE Break(s)
    BY <1>0, <1>3, <2>3, EngineSame DEF Break, StateOK
  <2>4. CASE ReadFails(s) \/ ReadGarbage(s)
    BY <1>2, <1>3, <2>4 DEF ReadFails, ReadGarbage
  <2>5. CASE ReportLeft(s)
    <3>1. /\ pending' = [pending EXCEPT ![s] = <<>>] /\ at' = [at EXCEPT ![s] = "idle"]
          /\ frame' = [frame EXCEPT ![s] = <<>>] /\ running' = [running EXCEPT ![s] = FALSE]
          /\ Engine!Drop(s) /\ Release /\ UNCHANGED <<sending, write_mutex, closed, alive>>
      BY <2>5 DEF ReportLeft, Move
    <3>2. EngineOK'
      BY <1>0, <3>1, DropOK
    <3>3. /\ pending' \in [Threads -> Seq(AllEvents)] /\ at' \in [Threads -> Places]
          /\ \A f \in Feeds : pending'[f] \in Seq(OrderEvents)
          /\ frame' \in [Threads -> Frames \cup {<<>>}] /\ running' \in [Sessions -> BOOLEAN]
      BY <2>0, <3>1 DEF StateOK, Places, Threads
    <3>4. \A u \in Threads :
            /\ at'[u] \in Held \cup {"begun"} => pending'[u] # <<>>
            /\ at'[u] \in {"encrypted", "header"} => frame'[u] \in Frames
      BY <2>0, <3>1 DEF StateOK, Held
    <3> QED
      BY <1>3, <3>1, <3>2, <3>3, <3>4, ReleaseType DEF StateOK
  <2> QED
    BY <1>3, <2>1, <2>2, <2>3, <2>4, <2>5
<1>4. ASSUME NEW f \in Feeds, Tick(f), UNCHANGED full PROVE StateOK'
  BY <1>1, <1>4, TickOK DEF Threads
<1>5. ASSUME NEW s \in Sessions, Stall(s) PROVE StateOK'
  BY <1>0, <1>5, EngineSame DEF Stall, StateOK
<1>6. CASE UNCHANGED vars
  BY <1>0, <1>6, EngineSame DEF vars, StateOK
<1> QED
  BY <1>3, <1>4, <1>5, <1>6, DispatchType DEF Next, Step

-----------------------------------------------------------------------------
(* The mutex.                                                              *)

\* Everything but thread t stays where it is with what it has.
OnlyMoves(t) ==
    \A u \in Threads \ {t} : at'[u] = at[u] /\ pending'[u] = pending[u] /\ frame'[u] = frame[u]

LEMMA OfSame == \A t : pending'[t] = pending[t] => Of(t)' = Of(t)
  BY DEF Of

\* A thread that did not send and does not now.
LEMMA MutexIdle ==
    ASSUME StateOK, Mutex, NEW t \in Threads, OnlyMoves(t), at[t] \notin Held, at'[t] \notin Held,
           UNCHANGED write_mutex, at'[t] = "leaving" => t \in Sessions
    PROVE  Mutex'
<1>1. \A u \in Threads \ {t} : at'[u] = at[u] /\ Of(u)' = Of(u)
  BY OfSame DEF OnlyMoves
<1>2. ASSUME NEW u \in Threads
      PROVE  /\ at'[u] \in Held /\ ~Inquirer(u) => write_mutex'[Of(u)'] = u
             /\ at'[u] = "failed" => write_mutex'[Of(u)'] = u
             /\ at'[u] = "leaving" => u \in Sessions
  BY <1>1 DEF Mutex, Held
<1>3. \A s \in Sessions : \A u \in Threads : write_mutex'[s] = u => at'[u] \in Held /\ Of(u)' = s
  BY <1>1 DEF Mutex
<1> QED
  BY <1>2, <1>3 DEF Mutex, Inquirer

\* One that goes on sending.
LEMMA MutexKept ==
    ASSUME StateOK, Mutex, NEW t \in Threads, OnlyMoves(t), at[t] \in Held, at'[t] \in Held,
           pending'[t] = pending[t], UNCHANGED write_mutex,
           at'[t] = "failed" => write_mutex[Of(t)] = t
    PROVE  Mutex'
<1>1. \A u \in Threads : Of(u)' = Of(u) /\ (at'[u] \in Held <=> at[u] \in Held)
  BY OfSame DEF OnlyMoves
<1>2. \A u \in Threads \ {t} : at'[u] = at[u]
  BY DEF OnlyMoves
<1>4. /\ \A u \in Threads : at'[u] \in Held /\ ~Inquirer(u) => write_mutex'[Of(u)'] = u
      /\ \A u \in Threads : at'[u] = "failed" => write_mutex'[Of(u)'] = u
      /\ \A u \in Threads : at'[u] = "leaving" => u \in Sessions
  BY <1>1, <1>2 DEF Mutex, Held
<1>5. \A s \in Sessions : \A u \in Threads : write_mutex'[s] = u => at'[u] \in Held /\ Of(u)' = s
  BY <1>1 DEF Mutex
<1> QED
  BY <1>4, <1>5 DEF Mutex, Inquirer

\* One that takes the mutex, which is free, or has an inquiry to answer.
LEMMA MutexTaken ==
    ASSUME StateOK, Mutex, NEW t \in Threads, OnlyMoves(t), at[t] \notin Held, at'[t] = "clear",
           Of(t)' \in Sessions,
           \/ write_mutex[Of(t)'] = None /\ write_mutex' = [write_mutex EXCEPT ![Of(t)'] = t]
           \/ Inquirer(t) /\ UNCHANGED write_mutex
    PROVE  Mutex'
<1>1. \A u \in Threads \ {t} : at'[u] = at[u] /\ Of(u)' = Of(u)
  BY OfSame DEF OnlyMoves
<1>2. \A s \in Sessions : \A u \in Threads : write_mutex[s] = u =>
        u # t /\ write_mutex'[s] = u
  BY ThreadAssumption DEF StateOK, Mutex, Threads
<1>3. \A s \in Sessions : \A u \in Threads : write_mutex'[s] = u =>
        write_mutex[s] = u \/ (s = Of(t)' /\ u = t)
  BY DEF StateOK
<1>4. ASSUME NEW u \in Threads
      PROVE  /\ at'[u] \in Held /\ ~Inquirer(u) => write_mutex'[Of(u)'] = u
             /\ at'[u] = "failed" => write_mutex'[Of(u)'] = u
             /\ at'[u] = "leaving" => u \in Sessions
  <2>1. CASE u = t
    BY <2>1 DEF StateOK
  <2>2. CASE u # t
    <3>1. at'[u] = at[u] /\ Of(u)' = Of(u) /\ (at[u] \in Held => Of(u) \in Sessions)
      BY <1>1, <2>2, OfType DEF StateOK
    <3>2. u # None
      BY ThreadAssumption DEF Threads
    <3> QED
      BY <1>2, <3>1, <3>2 DEF Mutex, Held
  <2> QED
    BY <2>1, <2>2
<1>5. \A s \in Sessions : \A u \in Threads : write_mutex'[s] = u => at'[u] \in Held /\ Of(u)' = s
  BY <1>1, <1>2, <1>3 DEF Mutex, Held
<1> QED
  BY <1>4, <1>5 DEF Mutex, Inquirer

\* One that stops sending: it gives the mutex up, or never had it.
LEMMA MutexGiven ==
    ASSUME StateOK, Mutex, NEW t \in Threads, OnlyMoves(t), at[t] \in Held, at'[t] \notin Held,
           \/ Unlock(t) /\ at'[t] # "leaving"
           \/ write_mutex[Of(t)] # t /\ UNCHANGED write_mutex
    PROVE  Mutex'
<1>1. \A u \in Threads \ {t} : at'[u] = at[u] /\ Of(u)' = Of(u)
  BY OfSame DEF OnlyMoves
<1>2. \A s \in Sessions : /\ write_mutex'[s] # t
                          /\ write_mutex'[s] # None => write_mutex'[s] = write_mutex[s]
                          /\ write_mutex[s] # t => write_mutex'[s] = write_mutex[s]
  <2>1. CASE Unlock(t)
    BY <2>1, ThreadAssumption DEF Unlock, Threads
  <2>2. CASE write_mutex[Of(t)] # t /\ UNCHANGED write_mutex
    BY <2>2, ThreadAssumption DEF Mutex, Threads
  <2> QED
    BY <2>1, <2>2
<1>3. ASSUME NEW u \in Threads
      PROVE  /\ at'[u] \in Held /\ ~Inquirer(u) => write_mutex'[Of(u)'] = u
             /\ at'[u] = "failed" => write_mutex'[Of(u)'] = u
             /\ at'[u] = "leaving" => u \in Sessions
  <2>1. CASE u = t
    BY <2>1 DEF Mutex, Held, Inquirer
  <2>2. CASE u # t
    <3>1. at'[u] = at[u] /\ Of(u)' = Of(u) /\ (at[u] \in Held => Of(u) \in Sessions)
      BY <1>1, <2>2, OfType DEF StateOK
    <3> QED
      BY <1>2, <2>2, <3>1 DEF Mutex, Held
  <2> QED
    BY <2>1, <2>2
<1>4. \A s \in Sessions : \A u \in Threads : write_mutex'[s] = u => at'[u] \in Held /\ Of(u)' = s
  BY <1>1, <1>2, ThreadAssumption DEF Mutex, Threads
<1> QED
  BY <1>3, <1>4 DEF Mutex, Inquirer

\* Who moves in a step, and how.
LEMMA DispatchMoves ==
    ASSUME StateOK, Mutex, NEW t \in Threads, Dispatch(t)
    PROVE  OnlyMoves(t)
  BY DEF Dispatch, Skip, Begin, Lock, Encrypt, WriteHeader, WriteBody, Die, ReportClosed,
         Throw, Return, Move, OnlyMoves, StateOK, threads

LEMMA SessionMoves ==
    ASSUME StateOK, NEW s \in Sessions,
           Ask(s) \/ Inquire(s) \/ ReadFails(s) \/ ReadGarbage(s) \/ ReportLeft(s)
    PROVE  OnlyMoves(s)
  BY DEF Ask, Inquire, ReadFails, ReadGarbage, Leave, ReportLeft, Move, OnlyMoves, StateOK

LEMMA MutexStep ==
    ASSUME StateOK, StateOK', Mutex, [Next]_vars
    PROVE  Mutex'
<1>1. ASSUME UNCHANGED <<at, pending, write_mutex>> PROVE Mutex'
  <2>1. \A t : Of(t)' = Of(t)
    BY <1>1 DEF Of
  <2> QED
    BY <1>1, <2>1 DEF Mutex, Inquirer
<1>2. ASSUME NEW t \in Threads, Dispatch(t) PROVE Mutex'
  <2>1. OnlyMoves(t)
    BY <1>2, DispatchMoves
  <2>2. at \in [Threads -> Places]
    BY DEF StateOK
  <2>3. CASE Skip(t) \/ Begin(t)
    <3>1. at[t] = "idle" /\ at'[t] \in {"idle", "begun"} /\ UNCHANGED write_mutex
      BY <2>2, <2>3 DEF Skip, Begin, Return, Move
    <3> QED
      BY <2>1, <3>1, MutexIdle DEF Held
  <2>4. CASE Lock(t)
    <3>1. at[t] = "begun"
      BY <2>4 DEF Lock
    <3>2. CASE Return(t) /\ UNCHANGED write_mutex
      <4>1. at'[t] = "idle"
        BY <2>2, <3>2 DEF Return, Move
      <4> QED
        BY <2>1, <3>1, <3>2, <4>1, MutexIdle DEF Held
    <3>3. CASE /\ Move(t, "clear") /\ write_mutex' = [write_mutex EXCEPT ![Of(t)] = t]
               /\ UNCHANGED <<pending, frame>>
      <4>1. at'[t] = "clear" /\ Of(t)' = Of(t) /\ write_mutex[Of(t)] = None
        BY <2>2, <2>4, <3>3, OfSame DEF Move, Lock
      <4>2. Of(t) \in Sessions
        BY <3>1, OfType DEF StateOK
      <4> QED
        BY <2>1, <3>1, <3>3, <4>1, <4>2, MutexTaken DEF Held
    <3> QED
      BY <2>4, <3>2, <3>3 DEF Lock
  <2>5. CASE Encrypt(t)
    <3>1. at[t] = "clear" /\ at'[t] = "encrypted" /\ UNCHANGED <<pending, write_mutex>>
      BY <2>2, <2>5 DEF Encrypt, Move
    <3> QED
      BY <2>1, <3>1, MutexKept DEF Held
  <2>6. CASE WriteHeader(t)
    <3>1. /\ at[t] = "encrypted" /\ UNCHANGED <<pending, write_mutex>>
          /\ at'[t] \in {"header", "failed", "leaving"}
          /\ at'[t] = "failed" => write_mutex[Of(t)] = t
          /\ at'[t] = "leaving" => write_mutex[Of(t)] # t
      BY <2>2, <2>6 DEF WriteHeader, Throw, Move
    <3>2. CASE at'[t] = "leaving"
      BY <2>1, <3>1, <3>2, MutexGiven DEF Held
    <3>3. CASE at'[t] # "leaving"
      BY <2>1, <3>1, <3>3, MutexKept DEF Held
    <3> QED
      BY <3>2, <3>3
  <2>7. CASE WriteBody(t)
    <3>1. at[t] = "header"
      BY <2>7 DEF WriteBody
    <3>2. CASE Return(t) /\ Unlock(t)
      <4>1. at'[t] = "idle"
        BY <2>2, <3>2 DEF Return, Move
      <4> QED
        BY <2>1, <3>1, <3>2, <4>1, MutexGiven DEF Held
    <3>3. CASE Throw(t) /\ UNCHANGED <<pending, frame, write_mutex>>
      <4>1. /\ at'[t] \in {"failed", "leaving"}
            /\ at'[t] = "failed" => write_mutex[Of(t)] = t
            /\ at'[t] = "leaving" => write_mutex[Of(t)] # t
        BY <2>2, <3>3 DEF Throw, Move
      <4>2. CASE at'[t] = "leaving"
        BY <2>1, <3>1, <3>3, <4>1, <4>2, MutexGiven DEF Held
      <4>3. CASE at'[t] # "leaving"
        BY <2>1, <3>1, <3>3, <4>1, <4>3, MutexKept DEF Held
      <4> QED
        BY <4>2, <4>3
    <3> QED
      BY <2>7, <3>2, <3>3 DEF WriteBody
  <2>8. CASE Die(t)
    BY <1>1, <2>8 DEF Die, threads
  <2>9. CASE ReportClosed(t)
    <3>1. at[t] = "failed" /\ at'[t] = "idle" /\ Unlock(t)
      BY <2>2, <2>9 DEF ReportClosed, Return, Move
    <3> QED
      BY <2>1, <3>1, MutexGiven DEF Held
  <2> QED
    BY <1>2, <2>3, <2>4, <2>5, <2>6, <2>7, <2>8, <2>9 DEF Dispatch
<1>3. ASSUME NEW f \in Feeds, Tick(f) PROVE Mutex'
  <2>1. f \in Threads /\ OnlyMoves(f) /\ at'[f] = "idle" /\ at[f] = "idle" /\ UNCHANGED write_mutex
    BY <1>3, TickOK DEF Threads, OnlyMoves, StateOK
  <2> QED
    BY <2>1, MutexIdle DEF Held
<1>4. ASSUME NEW s \in Sessions,
             Ask(s) \/ Inquire(s) \/ ReadFails(s) \/ ReadGarbage(s) \/ ReportLeft(s)
      PROVE  Mutex'
  <2>1. s \in Threads /\ OnlyMoves(s)
    BY <1>4, SessionMoves DEF Threads
  <2>2. at \in [Threads -> Places]
    BY DEF StateOK
  <2>3. CASE Inquire(s)
    <3>1. /\ at[s] = "idle" /\ at'[s] = "clear" /\ Inquirer(s) /\ UNCHANGED write_mutex
          /\ Of(s)' \in Sessions
      BY <2>1, <2>2, <2>3 DEF Inquire, Move, Inquirer, Of
    <3> QED
      BY <2>1, <3>1, MutexTaken DEF Held
  <2>4. CASE Ask(s) \/ ReadFails(s) \/ ReadGarbage(s) \/ ReportLeft(s)
    <3>1. /\ at[s] \in {"idle", "leaving"} /\ at'[s] \in {"idle", "leaving"}
          /\ UNCHANGED write_mutex
      BY <2>1, <2>2, <2>4 DEF Ask, ReadFails, ReadGarbage, Leave, ReportLeft, Move
    <3> QED
      BY <2>1, <3>1, MutexIdle DEF Held
  <2> QED
    BY <1>4, <2>3, <2>4
<1>5. ASSUME NEW s \in Sessions, Break(s) \/ Stall(s) PROVE Mutex'
  BY <1>1, <1>5 DEF Break, Stall, threads
<1>6. CASE UNCHANGED vars
  BY <1>1, <1>6 DEF vars, threads
<1> QED
  BY <1>2, <1>3, <1>4, <1>5, <1>6 DEF Next, Step

-----------------------------------------------------------------------------
(* Connections and their sockets.                                          *)

LEMMA LifetimesKept ==
    ASSUME Lifetimes,
           \A f \in Feeds : at'[f] # "idle" => at[f] # "idle" /\ pending'[f] = pending[f],
           \A s \in Sessions : running'[s] => running[s],
           \A s \in Sessions : socket'[s] = "shut" => socket[s] = "shut" \/ ~Referenced(s)',
           \A s \in Sessions : ~running'[s] =>
                at'[s] = "idle" /\ pending'[s] = <<>> /\ s \notin Owners'
    PROVE  Lifetimes'
<1>1. \A s \in Sessions : Referenced(s)' => Referenced(s)
  BY DEF Referenced
<1> QED
  BY <1>1 DEF Lifetimes

LEMMA ReleaseShuts ==
    ASSUME Release \/ UNCHANGED socket
    PROVE  \A s \in Sessions : socket'[s] = "shut" => socket[s] = "shut" \/ ~Referenced(s)'
  BY DEF Release

LEMMA DispatchLifetimes ==
    ASSUME StateOK, Mutex, Lifetimes, NEW t \in Threads, Dispatch(t), UNCHANGED full
    PROVE  Lifetimes'
<1>1. OnlyMoves(t)
  BY DispatchMoves
<1>2. at \in [Threads -> Places] /\ (at[t] = "idle" => pending[t] # <<>>)
  BY DEF StateOK, Dispatch, Skip, Begin, Lock, Encrypt, WriteHeader, WriteBody, Die, ReportClosed
<1>3. running' = running
  BY DEF Dispatch, Skip, Begin, Lock, Encrypt, WriteHeader, WriteBody, Die, ReportClosed
<1>4. Owners' \subseteq Owners
  <2>1. CASE ReportClosed(t)
    <3>1. pending[t] # <<>> /\ Engine!Drop(Of(t))
      BY <2>1 DEF ReportClosed, StateOK, Held
    <3> QED
      BY <3>1, OfType, DropOK DEF StateOK
  <2>2. CASE ~ReportClosed(t)
    <3>1. UNCHANGED engine
      BY <2>2 DEF Dispatch, Skip, Begin, Lock, Encrypt, WriteHeader, WriteBody, Die
    <3> QED
      BY <3>1, EngineSame DEF StateOK
  <2> QED
    BY <2>1, <2>2
<1>5. ASSUME NEW s \in Sessions, ~running'[s]
      PROVE  at'[s] = "idle" /\ pending'[s] = <<>> /\ s \notin Owners'
  <2>1. at[s] = "idle" /\ pending[s] = <<>> /\ s \notin Owners
    BY <1>3, <1>5 DEF Lifetimes
  <2>2. s # t /\ s \in Threads
    BY <1>2, <2>1 DEF Threads
  <2> QED
    BY <1>1, <1>4, <2>1, <2>2 DEF OnlyMoves
<1>6. CASE Begin(t)
  <2>1. /\ socket' = socket /\ socket[Of(t)] # "shut"
        /\ pending' = pending /\ at' = [at EXCEPT ![t] = "begun"]
    BY <1>6 DEF Begin, Move
  <2>2. ASSUME NEW s \in Sessions, Referenced(s)' PROVE socket'[s] # "shut"
    <3>1. CASE Referenced(s)
      BY <2>1, <3>1 DEF Lifetimes
    <3>2. CASE ~Referenced(s)
      <4>1. PICK f \in Feeds : at'[f] # "idle" /\ Head(pending[f]).session = s
        BY <1>3, <2>1, <2>2, <3>2 DEF Referenced
      <4>2. f \in Threads /\ f \notin Sessions
        BY ThreadAssumption DEF Threads
      <4>3. f = t
        BY <1>2, <2>1, <3>2, <4>1, <4>2 DEF Referenced
      <4> QED
        BY <2>1, <4>1, <4>2, <4>3 DEF Of
    <3> QED
      BY <3>1, <3>2
  <2> QED
    BY <1>5, <2>2 DEF Lifetimes
<1>7. CASE ~Begin(t)
  <2>1. Release \/ UNCHANGED socket
    BY <1>7 DEF Dispatch, Skip, Lock, Encrypt, WriteHeader, WriteBody, Die, ReportClosed
  <2>2. at'[t] # "idle" => at[t] # "idle" /\ pending'[t] = pending[t]
    BY <1>2, <1>7 DEF Dispatch, Skip, Lock, Encrypt, WriteHeader, WriteBody, Die, ReportClosed,
                      Return, Throw, Move, threads
  <2>3. \A f \in Feeds : at'[f] # "idle" => at[f] # "idle" /\ pending'[f] = pending[f]
    BY <1>1, <2>2 DEF OnlyMoves, Threads
  <2> QED
    BY <1>3, <1>5, <2>1, <2>3, ReleaseShuts, LifetimesKept
<1> QED
  BY <1>6, <1>7

LEMMA LifetimesStep ==
    ASSUME StateOK, Mutex, Lifetimes, [Next]_vars
    PROVE  Lifetimes'
<1>1. ASSUME UNCHANGED <<engine, at, pending, running>>,
             \A s \in Sessions : socket'[s] = "shut" => socket[s] = "shut"
      PROVE  Lifetimes'
  <2>1. Owners' = Owners
    BY <1>1, EngineSame DEF StateOK
  <2> QED
    BY <1>1, <2>1, LifetimesKept DEF Lifetimes
<1>2. ASSUME NEW s \in Sessions, UNCHANGED running, running[s], OnlyMoves(s),
             Owners' \subseteq Owners \cup {s}, UNCHANGED socket
      PROVE  Lifetimes'
  <2>1. \A f \in Feeds : at'[f] = at[f] /\ pending'[f] = pending[f]
    BY <1>2, ThreadAssumption DEF OnlyMoves, Threads
  <2>2. ASSUME NEW u \in Sessions, ~running'[u]
        PROVE  at'[u] = "idle" /\ pending'[u] = <<>> /\ u \notin Owners'
    <3>1. u # s /\ u \in Threads /\ at[u] = "idle" /\ pending[u] = <<>> /\ u \notin Owners
      BY <1>2, <2>2 DEF Lifetimes, Threads
    <3> QED
      BY <1>2, <3>1 DEF OnlyMoves
  <2> QED
    BY <1>2, <2>1, <2>2, LifetimesKept
<1>3. ASSUME NEW s \in Sessions, Ask(s) \/ Inquire(s) \/ ReadFails(s) \/ ReadGarbage(s)
      PROVE  Lifetimes'
  <2>1. OnlyMoves(s) /\ running[s] /\ UNCHANGED <<running, socket>>
    BY <1>3, SessionMoves DEF Ask, Inquire, ReadFails, ReadGarbage, Leave
  <2>2. Owners' \subseteq Owners \cup {s}
    <3>1. CASE Ask(s)
      BY <3>1, AskOK
    <3>2. CASE Inquire(s) \/ ReadFails(s) \/ ReadGarbage(s)
      BY <3>2, EngineSame DEF Inquire, ReadFails, ReadGarbage, Leave, StateOK
    <3> QED
      BY <1>3, <3>1, <3>2
  <2> QED
    BY <1>2, <2>1, <2>2
<1>4. ASSUME NEW s \in Sessions, ReportLeft(s) PROVE Lifetimes'
  <2>1. /\ pending' = [pending EXCEPT ![s] = <<>>] /\ at' = [at EXCEPT ![s] = "idle"]
        /\ running' = [running EXCEPT ![s] = FALSE]
        /\ Release /\ Engine!Drop(s) /\ OnlyMoves(s)
    BY <1>4, SessionMoves DEF ReportLeft, Move
  <2>2. Owners' \subseteq Owners \ {s}
    BY <2>1, DropOK DEF StateOK
  <2>3. \A f \in Feeds : at'[f] = at[f] /\ pending'[f] = pending[f]
    BY <2>1, ThreadAssumption DEF OnlyMoves, Threads
  <2>4. ASSUME NEW u \in Sessions, ~running'[u]
        PROVE  at'[u] = "idle" /\ pending'[u] = <<>> /\ u \notin Owners'
    <3>1. CASE u = s
      BY <2>1, <2>2, <3>1 DEF StateOK, Threads
    <3>2. CASE u # s
      <4>1. ~running[u] /\ u \in Threads
        BY <2>1, <2>4, <3>2 DEF Threads, StateOK
      <4> QED
        BY <2>1, <2>2, <3>2, <4>1 DEF Lifetimes, OnlyMoves
    <3> QED
      BY <3>1, <3>2
  <2>5. \A u \in Sessions : running'[u] => running[u]
    BY <2>1 DEF StateOK
  <2> QED
    BY <2>1, <2>3, <2>4, <2>5, ReleaseShuts, LifetimesKept
<1>5. ASSUME NEW f \in Feeds, Tick(f) PROVE Lifetimes'
  <2>1. /\ Owners' \subseteq Owners /\ UNCHANGED <<at, running, socket>>
        /\ pending' = [pending EXCEPT ![f] = reply'] /\ at[f] = "idle"
    BY <1>5, TickOK
  <2>2. \A u \in Feeds : at'[u] # "idle" => at[u] # "idle" /\ pending'[u] = pending[u]
    BY <2>1
  <2>3. \A s \in Sessions : pending'[s] = pending[s]
    BY <2>1, ThreadAssumption
  <2> QED
    BY <2>1, <2>2, <2>3, LifetimesKept DEF Lifetimes
<1>6. ASSUME NEW s \in Sessions, Break(s) \/ Stall(s) PROVE Lifetimes'
  <2>1. UNCHANGED <<engine, at, pending, running>>
    BY <1>6 DEF Break, Stall, threads
  <2>2. \A u \in Sessions : socket'[u] = "shut" => socket[u] = "shut"
    BY <1>6 DEF Break, Stall, StateOK
  <2> QED
    BY <1>1, <2>1, <2>2
<1>7. CASE UNCHANGED vars
  BY <1>1, <1>7 DEF vars, threads
<1> QED
  BY <1>3, <1>4, <1>5, <1>6, <1>7, DispatchLifetimes DEF Next, Step

-----------------------------------------------------------------------------
(* What is on the wire.                                                    *)

LEMMA Appended ==
    ASSUME NEW S, NEW q \in Seq(S), NEW e \in S, NEW r, r = Append(q, e)
    PROVE  /\ Len(q) \in Nat /\ DOMAIN q = 1 .. Len(q)
           /\ Len(r) = Len(q) + 1 /\ DOMAIN r = 1 .. Len(q) + 1
           /\ \A i \in 1 .. Len(q) : r[i] = q[i]
           /\ r[Len(q) + 1] = e
<1>1. /\ r \in Seq(S) /\ Len(r) = Len(q) + 1 /\ r[Len(q) + 1] = e
      /\ \A i \in 1 .. Len(q) : r[i] = q[i]
  BY AppendProperties
<1> QED
  BY <1>1, LenProperties

\* A header with the next number, and then a body that goes with it.
LEMMA WholeHeader ==
    ASSUME NEW s \in Sessions, wire[s] \in Seq(Parts), Whole(s), NEW n \in Nat,
           Len(wire[s]) = 2 * n, NEW e, NEW part \in Parts, part = [number |-> n + 1, digest |-> e],
           wire'[s] = Append(wire[s], part)
    PROVE  /\ Whole(s)'
           /\ Len(wire'[s]) = 2 * n + 1 /\ wire'[s][2 * n + 1].digest = e
<1>1. /\ Len(wire'[s]) = 2 * n + 1 /\ DOMAIN wire'[s] = 1 .. 2 * n + 1 /\ DOMAIN wire[s] = 1 .. 2 * n
      /\ \A i \in 1 .. 2 * n : wire'[s][i] = wire[s][i]
      /\ wire'[s][2 * n + 1] = part
  <2> HIDE DEF Parts
  <2> QED
    BY Appended
<1>2. part.number = n + 1 /\ "number" \in DOMAIN part /\ part.digest = e
  OBVIOUS
<1>3. ASSUME NEW i \in 1 .. 2 * n + 1
      PROVE  IF i % 2 = 1 THEN "number" \in DOMAIN wire'[s][i] /\ wire'[s][i].number = (i + 1) \div 2
             ELSE /\ "position" \in DOMAIN wire'[s][i] /\ wire'[s][i].position = (i + 1) \div 2 - 1
                  /\ wire'[s][i].event = wire'[s][i - 1].digest
  <2>1. CASE i = 2 * n + 1
    <3>1. i % 2 = 1 /\ (i + 1) \div 2 = n + 1
      BY <2>1
    <3> QED
      BY <1>1, <1>2, <2>1, <3>1
  <2>2. CASE i # 2 * n + 1
    <3>1. i \in 1 .. 2 * n /\ (i % 2 # 1 => i - 1 \in 1 .. 2 * n)
      BY <2>2
    <3> QED
      BY <1>1, <3>1 DEF Whole
  <2> QED
    BY <2>1, <2>2
<1> QED
  BY <1>1, <1>2, <1>3 DEF Whole

LEMMA WholeBody ==
    ASSUME NEW s \in Sessions, wire[s] \in Seq(Parts), Whole(s), NEW n \in Nat, NEW e, NEW part \in Parts,
           Len(wire[s]) + 1 = 2 * n, n > 0, wire[s][Len(wire[s])].digest = e,
           part = [position |-> n - 1, event |-> e],
           wire'[s] = Append(wire[s], part)
    PROVE  Whole(s)' /\ Len(wire'[s]) = 2 * n
<1>1. /\ Len(wire'[s]) = 2 * n /\ DOMAIN wire'[s] = 1 .. 2 * n /\ DOMAIN wire[s] = 1 .. 2 * n - 1
      /\ \A i \in 1 .. 2 * n - 1 : wire'[s][i] = wire[s][i]
      /\ wire'[s][2 * n] = part
  <2>1. /\ DOMAIN wire[s] = 1 .. Len(wire[s]) /\ Len(wire'[s]) = Len(wire[s]) + 1
        /\ DOMAIN wire'[s] = 1 .. Len(wire[s]) + 1
        /\ \A i \in 1 .. Len(wire[s]) : wire'[s][i] = wire[s][i]
        /\ wire'[s][Len(wire[s]) + 1] = part /\ Len(wire[s]) \in Nat
    BY Appended
  <2>2. Len(wire[s]) = 2 * n - 1
    BY <2>1
  <2> QED
    BY <2>1, <2>2
<1>2. /\ part.position = n - 1 /\ "position" \in DOMAIN part
      /\ part.event = wire'[s][2 * n - 1].digest
  <2>1. Len(wire[s]) = 2 * n - 1 /\ Len(wire[s]) \in 1 .. 2 * n - 1
    BY Appended
  <2>2. wire'[s][2 * n - 1].digest = e
    BY <1>1, <2>1
  <2> QED
    BY <2>2
<1>3. ASSUME NEW i \in 1 .. 2 * n
      PROVE  IF i % 2 = 1 THEN "number" \in DOMAIN wire'[s][i] /\ wire'[s][i].number = (i + 1) \div 2
             ELSE /\ "position" \in DOMAIN wire'[s][i] /\ wire'[s][i].position = (i + 1) \div 2 - 1
                  /\ wire'[s][i].event = wire'[s][i - 1].digest
  <2>1. CASE i = 2 * n
    <3>1. i % 2 = 0 /\ (i + 1) \div 2 = n /\ i - 1 = 2 * n - 1
      BY <2>1
    <3>2. wire'[s][i] = part /\ wire'[s][i - 1] = wire'[s][2 * n - 1]
      BY <1>1, <2>1, <3>1
    <3>3. /\ "position" \in DOMAIN wire'[s][i] /\ wire'[s][i].position = n - 1
          /\ wire'[s][i].event = wire'[s][i - 1].digest
      BY <1>2, <3>2
    <3>4. ~ (i % 2 = 1)
      BY <3>1
    <3> QED
      BY <3>1, <3>3, <3>4
  <2>2. CASE i # 2 * n
    <3>1. i \in 1 .. 2 * n - 1 /\ (i % 2 # 1 => i - 1 \in 1 .. 2 * n - 1)
      BY <2>2
    <3> QED
      <4>1. i \in DOMAIN wire[s] /\ wire'[s][i] = wire[s][i]
        BY <1>1, <3>1
      <4>2. i % 2 # 1 => wire'[s][i - 1] = wire[s][i - 1]
        BY <1>1, <3>1
      <4>3. IF i % 2 = 1
            THEN "number" \in DOMAIN wire[s][i] /\ wire[s][i].number = (i + 1) \div 2
            ELSE /\ "position" \in DOMAIN wire[s][i]
                 /\ wire[s][i].position = (i + 1) \div 2 - 1
                 /\ wire[s][i].event = wire[s][i - 1].digest
        BY <4>1 DEF Whole
      <4> QED
        BY <4>1, <4>2, <4>3
  <2> QED
    BY <2>1, <2>2
<1> QED
  BY <1>1, <1>3 DEF Whole

\* One thread at most is sending to a session that never inquires.
LEMMA Alone ==
    ASSUME StateOK, Mutex, NEW t \in Threads, NEW u \in Threads, at[t] \in Held, at[u] \in Held,
           Of(t) = Of(u), Of(t) \in Quiet
    PROVE  t = u
<1>1. ~Inquirer(t) /\ ~Inquirer(u)
  BY DEF Inquirer, Of, Quiet
<1> QED
  BY <1>1 DEF Mutex

\* No thread starts or ends a frame, and nothing is written.
LEMMA WiresKept ==
    ASSUME Wires, UNCHANGED sending,
           \A u \in Threads : at[u] \in {"encrypted", "header"} \/ at'[u] \in {"encrypted", "header"} =>
                at'[u] = at[u] /\ frame'[u] = frame[u] /\ pending'[u] = pending[u],
           \A s \in Sessions : socket'[s] = "open" => socket[s] = "open"
    PROVE  Wires'
<1>1. /\ sequence_number' = sequence_number /\ cipher' = cipher /\ wire' = wire
  BY DEF sending
<1>2. \A u \in Threads : at'[u] \in {"encrypted", "header"} => Of(u)' = Of(u)
  BY OfSame
<1>3. \A s \in Sessions : (Whole(s) => Whole(s)') /\ (Silent(s)' => Silent(s))
  BY <1>1, <1>2 DEF Whole, Silent
<1>4. \A s \in Quiet : Sent(s)'
  BY <1>1, <1>3 DEF Wires, Sent, Quiet
<1>5. ASSUME NEW u \in Threads, at'[u] \in {"encrypted", "header"}, Of(u)' \in Quiet
      PROVE  Sending(u)'
  <2>1. at'[u] = at[u] /\ frame'[u] = frame[u] /\ Of(u)' = Of(u) /\ Sending(u) /\ Of(u) \in Sessions
    BY <1>2, <1>5 DEF Wires, Quiet
  <2> QED
    BY <1>1, <2>1 DEF Sending
<1> QED
  BY <1>4, <1>5 DEF Wires, Quiet

\* A thread that sends does its part, and nobody else is at the same session.
LEMMA WiresMoved ==
    ASSUME StateOK, Mutex, Wires, NEW t \in Threads, NEW s \in Sessions, s = Of(t), at[t] \in Held,
           OnlyMoves(t),
           \A r \in Sessions \ {s} : /\ sequence_number'[r] = sequence_number[r]
                                     /\ cipher'[r] = cipher[r] /\ wire'[r] = wire[r],
           \A r \in Sessions : socket'[r] = "open" => socket[r] = "open",
           at'[t] \in {"encrypted", "header"} => Of(t)' = s,
           s \in Quiet => Sent(s)' /\ (at'[t] \in {"encrypted", "header"} => Sending(t)')
    PROVE  Wires'
<1>1. \A u \in Threads \ {t} : at'[u] = at[u] /\ frame'[u] = frame[u] /\ Of(u)' = Of(u)
  BY OfSame DEF OnlyMoves
<1>2. ASSUME NEW r \in Quiet, r # s PROVE Sent(r)'
  <2>1. Sent(r) /\ r \in Sessions
    BY DEF Wires, Quiet
  <2>2. Whole(r) => Whole(r)'
    BY <1>2, <2>1 DEF Whole
  <2>3. Silent(r)' => Silent(r)
    BY <1>1, <1>2 DEF Silent
  <2> QED
    BY <1>2, <2>1, <2>2, <2>3 DEF Sent
<1>3. ASSUME NEW u \in Threads, u # t, at'[u] \in {"encrypted", "header"}, Of(u)' \in Quiet
      PROVE  Sending(u)'
  <2>1. /\ at'[u] = at[u] /\ frame'[u] = frame[u] /\ Of(u)' = Of(u) /\ Sending(u)
        /\ Of(u) \in Sessions /\ at[u] \in Held
    BY <1>1, <1>3 DEF Wires, Quiet, Held
  <2>2. Of(u) # s
    BY <1>3, <2>1, Alone
  <2> QED
    BY <2>1, <2>2 DEF Sending
<1> QED
  BY <1>2, <1>3 DEF Wires, Quiet

LEMMA EncryptWires ==
    ASSUME StateOK, Mutex, Wires, NEW t \in Threads, Encrypt(t)
    PROVE  Wires'
<1>0. PICK s \in Sessions : s = Of(t)
  <2>1. at[t] = "clear" /\ pending[t] # <<>>
    BY DEF Encrypt, StateOK, Held
  <2> QED
    BY <2>1, OfType
<1>1. /\ at[t] = "clear" /\ pending[t] # <<>> /\ at[t] \in Held
      /\ UNCHANGED <<pending, sequence_number, cipher, wire, socket>>
      /\ at' = [at EXCEPT ![t] = "encrypted"]
      /\ frame' = [frame EXCEPT ![t] = [number |-> sequence_number[s] + 1, position |-> cipher[s],
                                        event |-> Head(pending[t])]]
  BY <1>0 DEF Encrypt, Move, StateOK, Held, sending
<1>2. OnlyMoves(t) /\ Of(t)' = s
  BY <1>0, <1>1, OfType, OfSame, DispatchMoves DEF Dispatch
<1>3. /\ at'[t] = "encrypted" /\ frame'[t].number = sequence_number[s] + 1
      /\ frame'[t].position = cipher[s]
  BY <1>1 DEF StateOK
<1>4. Sending(t)'
  BY <1>1, <1>2, <1>3 DEF Sending
<1>5. s \in Quiet => Sent(s)'
  <2>1. Whole(s) => Whole(s)'
    BY <1>1 DEF Whole
  <2>2. Silent(s)' => Silent(s)
    <3>1. \A u \in Threads : at[u] = "header" => at'[u] = "header" /\ Of(u)' = Of(u)
      BY <1>1, OfSame DEF StateOK
    <3> QED
      BY <3>1 DEF Silent
  <2> QED
    BY <1>1, <2>1, <2>2 DEF Wires, Sent
<1> QED
  BY <1>0, <1>1, <1>2, <1>4, <1>5, WiresMoved

LEMMA HeaderWires ==
    ASSUME StateOK, Mutex, Wires, NEW t \in Threads, WriteHeader(t)
    PROVE  Wires'
<1>0. PICK s \in Sessions : s = Of(t)
  <2>1. at[t] = "encrypted" /\ pending[t] # <<>>
    BY <1>0 DEF WriteHeader, StateOK, Held
  <2> QED
    BY <2>1, OfType
<1> DEFINE part == [number |-> frame[t].number, digest |-> frame[t].event]
<1>1. /\ at[t] = "encrypted" /\ at[t] \in Held /\ pending[t] # <<>> /\ frame[t] \in Frames
      /\ UNCHANGED <<pending, frame, socket>>
      /\ sequence_number' = [sequence_number EXCEPT ![s] = frame[t].number]
      /\ cipher' = [cipher EXCEPT ![s] = frame[t].position + 1]
      /\ \/ /\ wire' = [wire EXCEPT ![s] = IF socket[s] = "open" THEN Append(@, part) ELSE @]
            /\ at' = [at EXCEPT ![t] = "header"]
         \/ /\ socket[s] = "reset" /\ wire' = wire
            /\ at'[t] \in {"failed", "leaving"}
  BY <1>0 DEF WriteHeader, Write, Throw, Move, StateOK, Held
<1>2. OnlyMoves(t) /\ Of(t)' = s
  BY <1>0, <1>1, OfType, OfSame, DispatchMoves DEF Dispatch
<1>3. part \in Parts /\ frame[t].number \in Nat /\ frame[t].position \in Nat
  BY <1>1 DEF Frames, Parts
<1>4. /\ sequence_number'[s] = frame[t].number /\ cipher'[s] = frame[t].position + 1
      /\ \A r \in Sessions \ {s} : /\ sequence_number'[r] = sequence_number[r]
                                   /\ cipher'[r] = cipher[r] /\ wire'[r] = wire[r]
      /\ wire[s] \in Seq(Parts) /\ sequence_number[s] \in Nat /\ Of(t)' = s /\ frame' = frame
  BY <1>1, <1>2 DEF StateOK
<1>5. ASSUME s \in Quiet
      PROVE  Sent(s)' /\ (at'[t] \in {"encrypted", "header"} => Sending(t)')
  <2> DEFINE n == sequence_number[s]
  <2>1. /\ Whole(s) /\ cipher[s] = n /\ frame[t].number = n + 1 /\ frame[t].position = n
        /\ socket[s] = "open" => Len(wire[s]) = 2 * n
    <3>1. Sent(s) /\ Sending(t)
      BY <1>0, <1>1, <1>5 DEF Wires
    <3>2. Silent(s)
      BY <1>0, <1>1, <1>5, Alone DEF Silent, Held
    <3> QED
      BY <1>0, <1>1, <3>1, <3>2 DEF Sent, Sending
  <2>2. cipher'[s] = sequence_number'[s]
    BY <1>3, <1>4, <2>1
  <2>3. CASE socket[s] = "open" /\ at'[t] = "header"
    <3>1. wire'[s] = Append(wire[s], part) /\ part = [number |-> n + 1, digest |-> frame[t].event]
      BY <1>1, <1>2, <2>1, <2>3 DEF StateOK
    <3>2. n \in Nat /\ Len(wire[s]) = 2 * n
      BY <1>4, <2>1, <2>3
    <3> HIDE DEF n, part
    <3>3. /\ Whole(s)' /\ Len(wire'[s]) = 2 * n + 1
          /\ wire'[s][2 * n + 1].digest = frame[t].event
      BY <1>2, <1>3, <1>4, <2>1, <3>1, <3>2, WholeHeader
    <3>4. ~Silent(s)'
      BY <1>4, <2>3 DEF Silent
    <3>5. Sending(t)'
      BY <1>3, <1>4, <2>1, <2>2, <2>3, <3>2, <3>3 DEF Sending
    <3> QED
      BY <2>2, <3>3, <3>4, <3>5 DEF Sent
  <2>4. CASE ~(socket[s] = "open" /\ at'[t] = "header")
    <3>1. wire' = wire /\ socket'[s] # "open"
      BY <1>1, <1>2, <2>4 DEF StateOK
    <3>2. at'[t] \in {"encrypted", "header"} => Sending(t)'
      <4>1. at'[t] # "encrypted"
        BY <1>1 DEF StateOK
      <4> HIDE DEF n
      <4> QED
        BY <1>3, <1>4, <2>1, <2>2, <3>1, <4>1 DEF Sending
    <3>3. Whole(s)'
      BY <2>1, <3>1 DEF Whole
    <3> QED
      BY <2>2, <3>1, <3>2, <3>3 DEF Sent
  <2> QED
    BY <2>3, <2>4
<1> HIDE DEF part
<1>7. at'[t] \in {"encrypted", "header"} => Of(t)' = s
  BY <1>4
<1> QED
  BY <1>1, <1>2, <1>0, <1>4, <1>5, <1>7, WiresMoved

LEMMA BodyWires ==
    ASSUME StateOK, Mutex, Wires, NEW t \in Threads, WriteBody(t)
    PROVE  Wires'
<1>0. PICK s \in Sessions : s = Of(t)
  <2>1. at[t] = "header" /\ pending[t] # <<>>
    BY <1>0 DEF WriteBody, StateOK, Held
  <2> QED
    BY <2>1, OfType
<1> DEFINE part == [position |-> frame[t].position, event |-> frame[t].event]
<1>1. /\ at[t] = "header" /\ at[t] \in Held /\ pending[t] # <<>> /\ frame[t] \in Frames
      /\ UNCHANGED <<sequence_number, cipher>> /\ Release
      /\ \/ wire' = [wire EXCEPT ![s] = IF socket[s] = "open" THEN Append(@, part) ELSE @]
         \/ socket[s] = "reset" /\ wire' = wire
      /\ at'[t] \notin {"encrypted", "header"}
  BY <1>0 DEF WriteBody, Write, Throw, Return, Move, StateOK, Held
<1>2. OnlyMoves(t)
  BY <1>1, OfType, DispatchMoves DEF Dispatch
<1>3. part \in Parts
  BY <1>1 DEF Frames, Parts
<1>4. /\ \A r \in Sessions \ {s} : /\ sequence_number'[r] = sequence_number[r]
                                   /\ cipher'[r] = cipher[r] /\ wire'[r] = wire[r]
      /\ wire[s] \in Seq(Parts) /\ sequence_number[s] \in Nat
      /\ \A r \in Sessions : socket'[r] = "open" => socket[r] = "open"
  BY <1>1, <1>2 DEF StateOK, Release
<1>5. ASSUME s \in Quiet
      PROVE  Sent(s)'
  <2> DEFINE n == sequence_number[s]
  <2>1. Sent(s) /\ Sending(t)
    BY <1>0, <1>1, <1>5 DEF Wires
  <2>2. /\ Whole(s) /\ cipher[s] = n /\ frame[t].position + 1 = n
        /\ socket[s] = "open" => /\ Len(wire[s]) + 1 = 2 * n /\ Len(wire[s]) > 0
                                 /\ wire[s][Len(wire[s])].digest = frame[t].event
    BY <1>0, <1>1, <2>1 DEF Sent, Sending
  <2>3. CASE socket[s] = "open"
    <3>1. frame[t].position = n - 1 /\ n \in Nat /\ n > 0
      BY <1>1, <1>4, <2>2 DEF Frames
    <3>2. wire'[s] = Append(wire[s], part)
      BY <1>1, <1>2, <2>3 DEF StateOK
    <3>3. part = [position |-> n - 1, event |-> frame[t].event]
      BY <3>1
    <3> HIDE DEF n, part
    <3>4. Whole(s)' /\ Len(wire'[s]) = 2 * n
      BY <1>2, <1>3, <1>4, <2>2, <2>3, <3>1, <3>2, <3>3, WholeBody
    <3> QED
      BY <1>1, <2>2, <3>4 DEF Sent, n
  <2>4. CASE socket[s] # "open"
    <3>1. wire' = wire /\ socket'[s] # "open"
      BY <1>1, <1>2, <1>4, <2>4 DEF StateOK
    <3>2. Whole(s)'
      BY <2>2, <3>1 DEF Whole
    <3> QED
      BY <1>1, <2>2, <3>1, <3>2 DEF Sent
  <2> QED
    BY <2>3, <2>4
<1> HIDE DEF part
<1> QED
  BY <1>1, <1>2, <1>0, <1>4, <1>5, WiresMoved

LEMMA WiresStep ==
    ASSUME StateOK, Mutex, Wires, [Next]_vars
    PROVE  Wires'
<1>1. ASSUME UNCHANGED <<at, frame, pending, sending>>,
             \A s \in Sessions : socket'[s] = "open" => socket[s] = "open"
      PROVE  Wires'
  BY <1>1, WiresKept
<1>2. ASSUME NEW t \in Threads, OnlyMoves(t), UNCHANGED sending,
             at[t] \notin {"encrypted", "header"}, at'[t] \notin {"encrypted", "header"},
             Release \/ UNCHANGED socket
      PROVE  Wires'
  <2>1. \A u \in Threads : at[u] \in {"encrypted", "header"} \/ at'[u] \in {"encrypted", "header"} =>
            at'[u] = at[u] /\ frame'[u] = frame[u] /\ pending'[u] = pending[u]
    BY <1>2 DEF OnlyMoves
  <2>2. \A s \in Sessions : socket'[s] = "open" => socket[s] = "open"
    BY <1>2 DEF Release
  <2> QED
    BY <1>2, <2>1, <2>2, WiresKept
<1>3. ASSUME NEW t \in Threads, Dispatch(t) PROVE Wires'
  <2>1. CASE Skip(t) \/ Begin(t) \/ Lock(t) \/ ReportClosed(t)
    <3>1. /\ OnlyMoves(t) /\ UNCHANGED sending
          /\ (Release \/ UNCHANGED socket)
          /\ at[t] \in {"idle", "begun", "failed"} /\ at'[t] \in {"idle", "begun", "clear"}
      <4>1. OnlyMoves(t)
        BY <1>3, DispatchMoves
      <4> QED
        BY <2>1, <4>1 DEF Skip, Begin, Lock, ReportClosed, Return, Move, StateOK
    <3>2. at[t] \notin {"encrypted", "header"} /\ at'[t] \notin {"encrypted", "header"}
      BY <3>1
    <3> QED
      BY <1>2, <3>1, <3>2
  <2>2. CASE Die(t)
    BY <1>1, <2>2 DEF Die, threads
  <2> QED
    BY <1>3, <2>1, <2>2, EncryptWires, HeaderWires, BodyWires DEF Dispatch
<1>4. ASSUME NEW s \in Sessions,
             Ask(s) \/ Inquire(s) \/ ReadFails(s) \/ ReadGarbage(s) \/ ReportLeft(s)
      PROVE  Wires'
  <2>1. s \in Threads /\ OnlyMoves(s)
    BY <1>4, SessionMoves DEF Threads
  <2>2. /\ UNCHANGED sending
        /\ (Release \/ UNCHANGED socket)
        /\ at[s] \in {"idle", "leaving"} /\ at'[s] \in {"idle", "clear", "leaving"}
    BY <1>4, <2>1 DEF Ask, Inquire, ReadFails, ReadGarbage, Leave, ReportLeft, Move, StateOK
  <2>3. at[s] \notin {"encrypted", "header"} /\ at'[s] \notin {"encrypted", "header"}
    BY <2>2
  <2> QED
    BY <1>2, <2>1, <2>2, <2>3
<1>5. ASSUME NEW f \in Feeds, Tick(f) PROVE Wires'
  <2>1. /\ f \in Threads /\ at[f] = "idle" /\ UNCHANGED <<at, frame, sending, socket>>
        /\ pending' = [pending EXCEPT ![f] = reply']
    BY <1>5, TickOK DEF Threads
  <2>2. OnlyMoves(f)
    BY <2>1 DEF OnlyMoves, StateOK
  <2> QED
    BY <1>2, <2>1, <2>2
<1>6. ASSUME NEW s \in Sessions, Break(s) \/ Stall(s) PROVE Wires'
  BY <1>1, <1>6 DEF Break, Stall, threads, StateOK
<1>7. CASE UNCHANGED vars
  BY <1>1, <1>7 DEF vars, threads
<1> QED
  BY <1>3, <1>4, <1>5, <1>6, <1>7 DEF Next, Step

-----------------------------------------------------------------------------
(* Theorems.                                                               *)

LEMMA NextIInv == IInv /\ [Next]_vars => IInv'
  BY TypeStep, MutexStep, LifetimesStep, WiresStep DEF IInv

LEMMA Invariant == Spec => []IInv
  BY InitIInv, NextIInv, PTL DEF Spec

\* Threads, events, numbers and sockets have the types the code gives them
\* (runtime.cpp:1117-1234), whatever the clients send and whenever they go.
THEOREM TypeCorrect == Spec => []TypeOK
<1>1. IInv => TypeOK
  BY DEF IInv, StateOK, EngineOK, TypeOK
<1> QED
  BY <1>1, Invariant, PTL

\* Where no client asks for system information or a download after logon, every
\* frame arrives whole, numbered and with its place in the key stream, whichever
\* threads send it and wherever sockets break: dispatchEvent has write_mutex_ from
\* the encryption to the last byte (1187-1199).  An inquiry is answered without
\* the mutex, and then it is not so.
THEOREM FramesWhole ==
    ASSUME \A s \in Sessions : "inquire" \notin Habits[s]
    PROVE  Spec => []WholeFrames
<1>1. Quiet = Sessions
  BY DEF Quiet
<1>2. IInv => WholeFrames
  BY <1>1 DEF IInv, Wires, Sent, WholeFrames
<1> QED
  BY <1>2, Invariant, PTL

\* The destructor (1154-1158) closes a socket when run() has returned and no
\* market-data thread has locked the weak_ptr of an event of that connection, so
\* no thread writes to a descriptor that another connection may have got; and the
\* orders of the session have left the engine by then.
THEOREM SocketsOutliveUse == Spec => []NothingBehindShut
<1>1. IInv => NothingBehindShut
  <2>1. SUFFICES ASSUME IInv, NEW s \in Sessions, socket[s] = "shut"
                 PROVE  /\ \A t \in Threads : at[t] # "idle" => Of(t) # s
                        /\ \A n \in DOMAIN open : open[n].session # s
    BY DEF NothingBehindShut
  <2>2. /\ ~running[s] /\ at[s] = "idle" /\ s \notin Owners
        /\ \A f \in Feeds : at[f] # "idle" => Head(pending[f]).session # s
    BY <2>1 DEF IInv, Lifetimes, Referenced
  <2>3. \A t \in Threads : at[t] # "idle" => Of(t) # s
    BY <2>2, ThreadAssumption DEF Of, Threads
  <2> QED
    BY <2>2, <2>3 DEF Owners
<1> QED
  BY <1>1, Invariant, PTL

-----------------------------------------------------------------------------
(* Sums, as BookFeedProofs has them; the books and the feed play no part.  *)

Sums == INSTANCE BookFeedProofs WITH
            Prices <- {}, MarketIds <- {}, U32 <- 1, Sizes <- {}, Networks <- {}, MaxWire <- 0,
            faults <- {}, market <- {}, used <- {}, wire <- {}, book <- {}

LEMMA SumsHere ==
    /\ Sums!BookAssumption
    /\ \A f, S : Sums!SumFunctionOnSet(f, S) = SumFunctionOnSet(f, S)
    /\ \A S : Sums!IsFiniteSet(S) <=> IsFiniteSet(S)
<1>1. \A f, S : Sums!SumFunctionOnSet(f, S) = SumFunctionOnSet(f, S)
  BY DEF Sums!SumFunctionOnSet, Sums!FoldFunctionOnSet, Sums!MapThenFoldSet,
         SumFunctionOnSet, FoldFunctionOnSet, MapThenFoldSet
<1>2. \A S : Sums!IsFiniteSet(S) <=> IsFiniteSet(S)
  BY DEF Sums!IsFiniteSet, IsFiniteSet
<1> QED BY <1>1, <1>2 DEF Sums!BookAssumption

\* What a set of trades comes to.
Traded(T) == SumFunctionOnSet([e \in T |-> e.quantity], T)

LEMMA TradedOf ==
    ASSUME NEW T, IsFiniteSet(T), \A e \in T : e.quantity \in Nat
    PROVE  /\ Traded(T) \in Nat
           /\ \A y : y \notin T /\ y.quantity \in Nat =>
                Traded(T \cup {y}) = y.quantity + Traded(T)
<1>1. PICK f : f = [e \in T |-> e.quantity]
  OBVIOUS
<1>2. \A e \in T : f[e] \in Nat /\ f[e] = e.quantity
  BY <1>1
<1>3. Traded(T) \in Nat
  BY <1>1, <1>2, SumsHere, Sums!SumNat DEF Traded
<1>4. ASSUME NEW y, y \notin T, y.quantity \in Nat
      PROVE  Traded(T \cup {y}) = y.quantity + Traded(T)
  <2>1. PICK g : g = [e \in T \cup {y} |-> e.quantity]
    OBVIOUS
  <2>2. \A e \in T \cup {y} : g[e] \in Nat /\ g[e] = e.quantity
    BY <1>4, <2>1
  <2>3. \A e \in T \cup {y} : g[e] \in Int
    BY <2>2
  <2>4. SumFunctionOnSet(g, T \cup {y}) = g[y] + SumFunctionOnSet(g, T)
    BY <1>4, <2>3, SumsHere, Sums!SumPutIn
  <2>5. SumFunctionOnSet(g, T) = SumFunctionOnSet(f, T)
    <3>1. \A e \in T : f[e] \in Int /\ g[e] = f[e]
      BY <1>2, <2>2
    <3> QED BY <3>1, SumsHere, Sums!SumAgree
  <2>6. g[y] = y.quantity
    BY <2>2
  <2> QED BY <1>1, <2>1, <2>4, <2>5, <2>6 DEF Traded
<1> QED BY <1>3, <1>4

LEMMA TradedNone == Traded({}) = 0
<1>1. PICK f : f = [e \in {} |-> e.quantity]
  OBVIOUS
<1>2. SumFunctionOnSet(f, {}) = 0
  BY SumsHere, Sums!SumEmpty
<1> QED BY <1>1, <1>2 DEF Traded

-----------------------------------------------------------------------------
(* What events say of an order.                                            *)

\* Events of calls before reference r.
Known(E, r) == IsFiniteSet(E) /\ \A e \in E : e \in OrderEvents /\ e.ref < r

States(E, n) == {e \in E : e.order = n /\ e.type # "trade"}
Latest(S) == CHOOSE e \in S : \A d \in S : d.ref <= e.ref
Since(E, n, r) == {e \in E : e.order = n /\ e.type = "trade" /\ e.ref > r}

LEMMA TallyIs ==
    \A E, n : Tally(E, n) =
        IF States(E, n) = {} THEN 0
        ELSE Latest(States(E, n)).quantity - Traded(Since(E, n, Latest(States(E, n)).ref))
BY DEF Tally, States, Latest, Since, Traded

\* There is a latest event in a finite set of them.
LEMMA LatestIs ==
    ASSUME NEW E, NEW r \in Nat, Known(E, r), NEW S \in SUBSET E, S # {}
    PROVE  Latest(S) \in S /\ \A d \in S : d.ref <= Latest(S).ref
<1> DEFINE refs == {e.ref : e \in S}
<1>1. refs \in SUBSET (0 .. r) /\ refs # {}
  BY DEF Known, OrderEvents
<1>2. PICK m \in refs : \A x \in refs : x <= m
  <2> HIDE DEF refs
  <2> QED BY <1>1, SumsHere, Sums!MaxOfNaturals
<1>3. PICK e \in S : e.ref = m
  BY <1>2
<1>4. \A d \in S : d.ref <= e.ref
  BY <1>2, <1>3
<1> QED BY <1>4 DEF Latest

\* A tally looks at the events of its order.
LEMMA TallyOwn ==
    ASSUME NEW E, NEW D, NEW n, {e \in E : e.order = n} = {e \in D : e.order = n}
    PROVE  Tally(E, n) = Tally(D, n) /\ States(E, n) = States(D, n)
<1>1. States(E, n) = States(D, n)
  BY DEF States
<1>2. \A r : Since(E, n, r) = Since(D, n, r)
  BY DEF Since
<1> QED BY <1>1, <1>2, TallyIs

\* Nothing heard of an order; a word on what is left of it; a trade.
LEMMA TallyGrows ==
    ASSUME NEW E, NEW r \in Nat, Known(E, r), NEW x \in OrderEvents, x.ref >= r
    PROVE  LET n == x.order
               F == E \cup {x}
           IN  /\ Known(F, x.ref + 1)
               /\ x.type # "trade" => Tally(F, n) = x.quantity /\ States(F, n) # {}
               /\ x.type = "trade" =>
                    /\ States(F, n) = States(E, n)
                    /\ States(E, n) # {} => Tally(F, n) = Tally(E, n) - x.quantity
               /\ Tally(E, n) \in Int
<1> DEFINE n == x.order
           F == E \cup {x}
<1>1. /\ n \in Nat /\ x.ref \in Nat /\ x.quantity \in Nat
      /\ \A e \in E : e \in OrderEvents /\ e.ref < r /\ e.ref \in Nat /\ e.quantity \in Nat
  BY DEF OrderEvents, Known
<1>2. x \notin E
  BY <1>1
<1>3. IsFiniteSet(E) /\ IsFiniteSet(F)
  BY FS_AddElement DEF Known
<1>4. Known(F, x.ref + 1)
  BY <1>1, <1>3 DEF Known
<1>5. \A q : IsFiniteSet(Since(E, n, q)) /\ \A e \in Since(E, n, q) : e.quantity \in Nat
  <2>1. \A q : Since(E, n, q) \in SUBSET E
    BY DEF Since
  <2> QED BY <1>1, <1>3, <2>1, FS_Subset
<1>6. ASSUME x.type # "trade"
      PROVE  Tally(F, n) = x.quantity /\ States(F, n) # {}
  <2>1. PICK S : S = States(F, n)
    OBVIOUS
  <2>2. x \in S /\ \A d \in S : d = x \/ d.ref < x.ref
    BY <2>1, <1>1, <1>6 DEF States
  <2>3. S \in SUBSET F /\ x.ref + 1 \in Nat
    BY <2>1, <1>1 DEF States
  <2>4. Latest(S) \in S /\ \A d \in S : d.ref <= Latest(S).ref
    BY <1>4, <2>2, <2>3, LatestIs
  <2>5. Latest(S) = x
    <3>1. PICK l : l = Latest(S)
      OBVIOUS
    <3>2. l \in S /\ x.ref <= l.ref /\ (l = x \/ l.ref < x.ref)
      BY <2>2, <2>4, <3>1
    <3>3. l.ref \in Nat /\ x.ref \in Nat
      BY <1>1, <2>3, <3>2
    <3> QED BY <3>1, <3>2, <3>3
  <2>6. Since(F, n, x.ref) = {}
    BY <1>1, <1>6 DEF Since
  <2>7. Tally(F, n) = x.quantity - 0
    BY <2>1, <2>2, <2>5, <2>6, TallyIs, TradedNone
  <2>8. x.quantity - 0 = x.quantity
    BY <1>1
  <2>9. States(F, n) # {}
    BY <2>1, <2>2
  <2> QED BY <2>7, <2>8, <2>9
<1>7. ASSUME x.type = "trade"
      PROVE  /\ States(F, n) = States(E, n)
             /\ States(E, n) # {} => Tally(F, n) = Tally(E, n) - x.quantity
  <2>1. States(F, n) = States(E, n)
    BY <1>7 DEF States
  <2>2. ASSUME States(E, n) # {} PROVE Tally(F, n) = Tally(E, n) - x.quantity
    <3>1. PICK S : S = States(E, n)
      OBVIOUS
    <3>2. S \in SUBSET E
      BY <3>1 DEF States
    <3>3. PICK last : last = Latest(S)
      OBVIOUS
    <3>4. last \in E /\ last.ref < x.ref /\ last.ref \in Nat /\ last.quantity \in Nat
      <4>1. last \in E
        BY <2>2, <3>1, <3>2, <3>3, LatestIs
      <4> QED BY <4>1, <1>1
    <3>5. PICK T : T = Since(E, n, last.ref)
      OBVIOUS
    <3>6. Since(F, n, last.ref) = T \cup {x} /\ x \notin T
      BY <3>4, <3>5, <1>2, <1>7 DEF Since
    <3>7. IsFiniteSet(T) /\ \A e \in T : e.quantity \in Nat
      BY <3>5, <1>5
    <3>8. Traded(T \cup {x}) = x.quantity + Traded(T) /\ Traded(T) \in Nat
      BY <3>6, <3>7, <1>1, TradedOf
    <3>9. Tally(E, n) = last.quantity - Traded(T)
      BY <2>2, <3>1, <3>3, <3>5, TallyIs
    <3>10. Tally(F, n) = last.quantity - Traded(T \cup {x})
      BY <2>1, <2>2, <3>1, <3>3, <3>6, TallyIs
    <3> QED BY <1>1, <3>4, <3>8, <3>9, <3>10
  <2> QED BY <2>1, <2>2
<1>8. Tally(E, n) \in Int
  <2>1. CASE States(E, n) = {}
    BY <2>1, TallyIs
  <2>2. CASE States(E, n) # {}
    <3>1. PICK last : last = Latest(States(E, n))
      OBVIOUS
    <3>2. last \in E
      <4>1. States(E, n) \in SUBSET E
        BY DEF States
      <4> QED BY <4>1, <2>2, <3>1, LatestIs
    <3>3. Traded(Since(E, n, last.ref)) \in Nat /\ last.quantity \in Nat
      BY <1>1, <1>5, <3>2, TradedOf
    <3> QED BY <2>2, <3>1, <3>3, TallyIs
  <2> QED BY <2>1, <2>2
<1> QED BY <1>4, <1>6, <1>7, <1>8

-----------------------------------------------------------------------------
(* Calls of the engine, and what their events say.                         *)

\* What is left of order n if it is one of session s.
Left(orders, s, n) ==
    IF n \in DOMAIN orders /\ orders[n].session = s THEN orders[n].left ELSE 0

\* Session s, knowing the events E, is right about all its orders.
Right(E, s, orders, limit, r) ==
    /\ Known(E, r)
    /\ \A e \in E : e.order < limit
    /\ \A n : Tally(E, n) = Left(orders, s, n)

\* The events for session s in a reply.
To(events, s) ==
    {e \in OrderEvents : e.session = s /\ \E i \in DOMAIN events : events[i] = e}

LEMMA ToOf ==
    /\ \A s : To(<<>>, s) = {}
    /\ \A e \in OrderEvents : \A s : To(<<e>>, s) = IF e.session = s THEN {e} ELSE {}
    /\ \A p, q \in Seq(OrderEvents) : \A s : To(p \o q, s) = To(p, s) \cup To(q, s)
<1>1. \A s : To(<<>>, s) = {}
  BY DEF To
<1>2. ASSUME NEW e \in OrderEvents, NEW s
      PROVE  To(<<e>>, s) = IF e.session = s THEN {e} ELSE {}
  <2>1. DOMAIN <<e>> = {1} /\ <<e>>[1] = e
    OBVIOUS
  <2> HIDE DEF OrderEvents
  <2> QED BY <2>1 DEF To
<1>3. ASSUME NEW p \in Seq(OrderEvents), NEW q \in Seq(OrderEvents), NEW s
      PROVE  To(p \o q, s) = To(p, s) \cup To(q, s)
  <2>1. ASSUME NEW e
        PROVE  (\E i \in DOMAIN (p \o q) : (p \o q)[i] = e)
                 <=> (\E i \in DOMAIN p : p[i] = e) \/ (\E i \in DOMAIN q : q[i] = e)
    <3> HIDE DEF OrderEvents
    <3>1. /\ Len(p \o q) = Len(p) + Len(q) /\ Len(p) \in Nat /\ Len(q) \in Nat
          /\ DOMAIN p = 1 .. Len(p) /\ DOMAIN q = 1 .. Len(q)
          /\ DOMAIN (p \o q) = 1 .. Len(p) + Len(q)
          /\ \A i \in 1 .. Len(p) + Len(q) :
                (p \o q)[i] = IF i <= Len(p) THEN p[i] ELSE q[i - Len(p)]
      OBVIOUS
    <3>2. ASSUME NEW i \in DOMAIN (p \o q), (p \o q)[i] = e
          PROVE  (\E k \in DOMAIN p : p[k] = e) \/ (\E k \in DOMAIN q : q[k] = e)
      <4>1. CASE i <= Len(p)
        BY <3>1, <3>2, <4>1
      <4>2. CASE ~ (i <= Len(p))
        <5>1. i - Len(p) \in DOMAIN q /\ q[i - Len(p)] = e
          BY <3>1, <3>2, <4>2
        <5> QED BY <5>1
      <4> QED BY <4>1, <4>2
    <3>3. ASSUME NEW i \in DOMAIN p, p[i] = e
          PROVE  \E k \in DOMAIN (p \o q) : (p \o q)[k] = e
      BY <3>1, <3>3
    <3>4. ASSUME NEW i \in DOMAIN q, q[i] = e
          PROVE  \E k \in DOMAIN (p \o q) : (p \o q)[k] = e
      <4>1. /\ i + Len(p) \in DOMAIN (p \o q) /\ ~ (i + Len(p) <= Len(p))
            /\ i + Len(p) - Len(p) = i
        BY <3>1
      <4>2. (p \o q)[i + Len(p)] = e
        BY <3>1, <3>4, <4>1
      <4> QED BY <4>1, <4>2
    <3> QED BY <3>2, <3>3, <3>4
  <2> QED BY <2>1 DEF To
<1> QED BY <1>1, <1>2, <1>3

LEMMA KnownLater ==
    ASSUME NEW E, NEW r \in Nat, NEW q \in Nat, r <= q, Known(E, r)
    PROVE  Known(E, q)
BY DEF Known, OrderEvents

\* One more event of order n of session s: other orders stay as they were.
LEMMA TallyOthers ==
    ASSUME NEW E, NEW x, NEW m, m # x.order
    PROVE  Tally(E \cup {x}, m) = Tally(E, m)
<1>1. {e \in E \cup {x} : e.order = m} = {e \in E : e.order = m}
  OBVIOUS
<1> QED BY <1>1, TallyOwn

\* The events of a word on what is left of order n and of a trade that takes some
\* of it, what they add to E, and the next reference.
Word(type, n, s, volume, traded, r) ==
    <<Engine!Event(type, n, s, volume, r)>> \o Engine!TradeOf(n, s, traded, r + 1)

After(traded, r) == r + IF traded = 0 THEN 1 ELSE 2

Carries(q, E, n, s, left, r, next) ==
    /\ q \in Seq(OrderEvents) /\ Len(q) = next - r
    /\ \A u : u # s => To(q, u) = {}
    /\ \A e \in To(q, s) : e.order = n
    /\ Known(E \cup To(q, s), next) /\ next \in Nat
    /\ Tally(E \cup To(q, s), n) = left
    /\ \A m : m # n => Tally(E \cup To(q, s), m) = Tally(E, m)

LEMMA SaidAndTraded ==
    ASSUME NEW E, NEW r \in Nat, Known(E, r), NEW n \in Nat, NEW s \in Sessions,
           NEW volume \in Nat, NEW traded \in 0 .. volume, NEW type \in {"confirmed", "modified"}
    PROVE  Carries(Word(type, n, s, volume, traded, r), E, n, s, volume - traded, r,
                   After(traded, r))
<1> DEFINE p == Engine!TradeOf(n, s, traded, r + 1)
<1>1. PICK x : x = Engine!Event(type, n, s, volume, r)
  OBVIOUS
<1>2. PICK y : y = Engine!Event("trade", n, s, traded, r + 1)
  OBVIOUS
<1>3. /\ x \in OrderEvents /\ x.order = n /\ x.session = s /\ x.type # "trade"
      /\ x.quantity = volume /\ x.ref = r
  BY <1>1 DEF Engine!Event, OrderEvents
<1>4. traded \in Nat /\ r + 1 \in Nat /\ r + 2 \in Nat
  OBVIOUS
<1>5. /\ y \in OrderEvents /\ y.order = n /\ y.session = s /\ y.type = "trade"
      /\ y.quantity = traded /\ y.ref = r + 1
  BY <1>2, <1>4 DEF Engine!Event, OrderEvents
<1> HIDE DEF OrderEvents
<1>6. PICK E1 : E1 = E \cup {x}
  OBVIOUS
<1>7. Known(E1, r + 1) /\ Tally(E1, n) = volume /\ States(E1, n) # {}
  <2>1. x.ref >= r
    BY <1>3
  <2> QED BY <1>3, <1>6, <2>1, TallyGrows
<1>8. \A m : m # n => Tally(E1, m) = Tally(E, m)
  BY <1>3, <1>6, TallyOthers
<1>9. <<x>> \in Seq(OrderEvents) /\ <<y>> \in Seq(OrderEvents) /\ <<>> \in Seq(OrderEvents)
      /\ Len(<<x>>) = 1 /\ Len(<<y>>) = 1 /\ Len(<<>>) = 0
  BY <1>3, <1>5
<1>10. CASE traded = 0
  <2>1. p = <<>>
    BY <1>10 DEF Engine!TradeOf
  <2>2. PICK q : q = <<x>> \o p
    OBVIOUS
  <2>3. q = <<x>>
    <3> HIDE DEF p
    <3> QED BY <1>9, <2>1, <2>2, ConcatEmptySeq
  <2>4. \A u : To(q, u) = IF u = s THEN {x} ELSE {}
    BY <1>3, <2>3, ToOf
  <2>5. E \cup To(q, s) = E1
    BY <1>6, <2>4
  <2>6. q \in Seq(OrderEvents) /\ Len(q) = 1 /\ After(traded, r) = r + 1
    BY <1>9, <1>10, <2>3 DEF After
  <2>7. \A e \in To(q, s) : e.order = n
    BY <1>3, <2>4
  <2>8. /\ \A u : u # s => To(q, u) = {}
        /\ volume - traded = volume
    BY <1>10, <2>4
  <2>9. q = Word(type, n, s, volume, traded, r)
    BY <1>1, <2>2 DEF Word
  <2>10. Len(q) = After(traded, r) - r
    BY <2>6
  <2>11. Carries(q, E, n, s, volume - traded, r, After(traded, r))
    <3> HIDE DEF p
    <3> QED BY <1>4, <1>7, <1>8, <2>5, <2>6, <2>7, <2>8, <2>10 DEF Carries
  <2> QED BY <2>9, <2>11
<1>11. CASE traded # 0
  <2>1. p = <<y>>
    BY <1>2, <1>11 DEF Engine!TradeOf
  <2>2. PICK q : q = <<x>> \o p
    OBVIOUS
  <2>3. q \in Seq(OrderEvents) /\ Len(q) = 2
    BY <1>9, <2>1, <2>2, ConcatProperties
  <2>4. \A u : To(q, u) = IF u = s THEN {x, y} ELSE {}
    <3>1. \A u : To(q, u) = To(<<x>>, u) \cup To(<<y>>, u)
      <4>1. PICK a \in Seq(OrderEvents), b \in Seq(OrderEvents) : a = <<x>> /\ b = <<y>>
        BY <1>9
      <4>2. q = a \o b
        BY <2>1, <2>2, <4>1
      <4> HIDE DEF p
      <4>3. \A u : To(a \o b, u) = To(a, u) \cup To(b, u)
        BY ToOf
      <4> QED BY <4>1, <4>2, <4>3
    <3>2. \A u : /\ To(<<x>>, u) = IF u = s THEN {x} ELSE {}
                 /\ To(<<y>>, u) = IF u = s THEN {y} ELSE {}
      <4>1. \A u : To(<<x>>, u) = IF x.session = u THEN {x} ELSE {}
        BY <1>3, ToOf
      <4>2. \A u : To(<<y>>, u) = IF y.session = u THEN {y} ELSE {}
        BY <1>5, ToOf
      <4> QED BY <1>3, <1>5, <4>1, <4>2
    <3> QED BY <3>1, <3>2
  <2>5. PICK E2 : E2 = E1 \cup {y}
    OBVIOUS
  <2>6. E \cup To(q, s) = E2
    BY <1>6, <2>4, <2>5
  <2>7. Known(E2, y.ref + 1) /\ Tally(E2, n) = Tally(E1, n) - y.quantity
    <3>1. y.ref >= r + 1
      BY <1>4, <1>5
    <3> QED BY <1>4, <1>5, <1>7, <2>5, <3>1, TallyGrows
  <2>8. Known(E2, r + 2) /\ Tally(E2, n) = volume - traded
    <3>1. y.ref + 1 = r + 2
      BY <1>5
    <3> QED BY <1>5, <1>7, <2>7, <3>1
  <2>9. \A m : m # n => Tally(E2, m) = Tally(E, m)
    BY <1>5, <1>8, <2>5, TallyOthers
  <2>10. \A e \in To(q, s) : e.order = n
    BY <1>3, <1>5, <2>4
  <2>11. \A u : u # s => To(q, u) = {}
    BY <2>4
  <2>12. q = Word(type, n, s, volume, traded, r)
    BY <1>1, <2>2 DEF Word
  <2>13. After(traded, r) = r + 2 /\ Len(q) = After(traded, r) - r
    BY <1>11, <2>3 DEF After
  <2>14. Carries(q, E, n, s, volume - traded, r, After(traded, r))
    <3> HIDE DEF p
    <3> QED BY <1>4, <2>3, <2>6, <2>8, <2>9, <2>10, <2>11, <2>13 DEF Carries
  <2> QED BY <2>12, <2>14
<1> QED BY <1>10, <1>11

LEMMA KeepLeft ==
    ASSUME NEW n, NEW s, NEW left \in Nat, Engine!Keep(n, s, left)
    PROVE  \A u, m : Left(open', u, m) = IF m # n THEN Left(open, u, m)
                                         ELSE IF u = s THEN left ELSE 0
BY DEF Engine!Keep, Left

LEMMA AcceptTells ==
    ASSUME EngineOK, NEW s \in Sessions, NEW volume \in Nat, NEW traded, NEW stays \in BOOLEAN,
           Engine!Accept(s, volume, traded, stays), NEW u \in Sessions, NEW E,
           Right(E, u, open, next_order, next_ref)
    PROVE  Right(E \cup To(reply', u), u, open', next_order', next_ref')
<1> DEFINE first == Word("confirmed", next_order, s, volume, traded, next_ref)
           next == After(traded, next_ref)
           rest == IF stays \/ traded = volume THEN <<>>
                   ELSE <<Engine!Event("cancelled", next_order, s, 0, next)>>
           left == IF stays THEN volume - traded ELSE 0
           F == E \cup To(first, s)
<1>1. /\ next_order' = next_order + 1 /\ traded \in 0 .. volume
      /\ reply' = first \o rest
      /\ next_ref' = next_ref + Len(reply')
      /\ Engine!Keep(next_order, s, left)
  BY DEF Engine!Accept, Word, After
<1>2. PICK n \in Nat : n = next_order
  BY DEF EngineOK
<1>3. PICK r \in Nat : r = next_ref
  BY DEF EngineOK
<1>4. Known(E, r) /\ (\A e \in E : e.order < n) /\ \A m : Tally(E, m) = Left(open, u, m)
  BY <1>2, <1>3 DEF Right
<1>5. n \notin DOMAIN open
  BY <1>2 DEF EngineOK
<1>6. left \in Nat /\ traded \in Nat
  BY <1>1
<1>7. \A m : Left(open', u, m) = IF m # n THEN Left(open, u, m) ELSE IF u = s THEN left ELSE 0
  <2> HIDE DEF left
  <2> QED BY <1>1, <1>2, <1>6, KeepLeft
<1>8. /\ first \in Seq(OrderEvents) /\ Len(first) = next - r
      /\ \A v : v # s => To(first, v) = {}
      /\ \A e \in To(first, s) : e.order = n
      /\ Known(F, next) /\ next \in Nat
      /\ Tally(F, n) = volume - traded
      /\ \A m : m # n => Tally(F, m) = Tally(E, m)
  <2>1. Carries(Word("confirmed", n, s, volume, traded, r), E, n, s, volume - traded, r,
                After(traded, r))
    BY <1>1, <1>4, SaidAndTraded
  <2>2. Carries(first, E, n, s, volume - traded, r, next)
    <3> HIDE DEF Carries
    <3> QED BY <1>2, <1>3, <2>1
  <2> HIDE DEF first, next
  <2> QED BY <2>2 DEF Carries
<1>9. PICK z : z = Engine!Event("cancelled", n, s, 0, next)
  OBVIOUS
<1> HIDE DEF first, F
<1>10. /\ z \in OrderEvents /\ z.order = n /\ z.session = s /\ z.type # "trade"
       /\ z.quantity = 0 /\ z.ref = next
  BY <1>8, <1>9 DEF Engine!Event, OrderEvents
<1> HIDE DEF OrderEvents, next
<1>11. CASE stays \/ traded = volume
  <2>1. rest = <<>> /\ left = volume - traded
    BY <1>1, <1>6, <1>11
  <2>2. reply' = first
    <3> HIDE DEF rest
    <3> QED BY <1>1, <1>8, <2>1, ConcatEmptySeq
  <2>3. next_ref' = next
    <3>1. Len(first) = next - r /\ next_ref' = r + Len(first) /\ next \in Nat
      BY <1>1, <1>3, <1>8, <2>2
    <3> HIDE DEF next
    <3> QED BY <3>1
  <2> HIDE DEF rest, left
  <2>4. CASE u = s
    <3>1. E \cup To(reply', u) = F
      BY <2>2, <2>4 DEF F
    <3>2. \A m : Tally(F, m) = Left(open', u, m)
      BY <1>4, <1>7, <1>8, <2>1, <2>4
    <3>3. \A e \in F : e.order < next_order'
      <4>1. \A e \in F : e \in E \/ e.order = n
        BY <1>8 DEF F
      <4>2. \A e \in E : e.order < n + 1
        <5>1. \A e \in E : e.order \in Nat
          BY <1>4 DEF Known, OrderEvents
        <5> QED BY <5>1, <1>4
      <4> QED BY <1>1, <1>2, <4>1, <4>2
    <3> QED BY <1>8, <2>3, <3>1, <3>2, <3>3 DEF Right
  <2>5. CASE u # s
    <3>1. E \cup To(reply', u) = E
      BY <1>8, <2>2, <2>5
    <3>2. Known(E, next)
      BY <1>3, <1>4, <1>8, KnownLater DEF next, After
    <3>3. \A m : Tally(E, m) = Left(open', u, m)
      BY <1>4, <1>5, <1>7, <2>5 DEF Left
    <3>4. \A e \in E : e.order < next_order'
      <4>1. \A e \in E : e.order \in Nat
        BY <1>4 DEF Known, OrderEvents
      <4> QED BY <1>1, <1>2, <1>4, <4>1
    <3> QED BY <2>3, <3>1, <3>2, <3>3, <3>4 DEF Right
  <2> QED BY <2>4, <2>5
<1>12. CASE ~ (stays \/ traded = volume)
  <2>1. rest = <<z>> /\ left = 0
    BY <1>2, <1>9, <1>12 DEF next, After
  <2>2. <<z>> \in Seq(OrderEvents) /\ Len(<<z>>) = 1
    BY <1>10
  <2>3. reply' = first \o <<z>>
    <3> HIDE DEF rest
    <3> QED BY <1>1, <2>1
  <2>4. Len(reply') = Len(first) + 1
    BY <1>8, <2>2, <2>3, ConcatProperties
  <2>5. next_ref' = next + 1
    BY <1>1, <1>3, <1>8, <2>4 DEF next, After
  <2>6. \A v : To(reply', v) = To(first, v) \cup To(<<z>>, v)
    <3>1. PICK a \in Seq(OrderEvents), b \in Seq(OrderEvents) : a = first /\ b = <<z>>
      BY <1>8, <2>2
    <3>2. \A v : To(a \o b, v) = To(a, v) \cup To(b, v)
      BY ToOf
    <3> QED BY <2>3, <3>1, <3>2
  <2>7. \A v : To(<<z>>, v) = IF v = s THEN {z} ELSE {}
    BY <1>10, ToOf
  <2> HIDE DEF rest, left
  <2>8. CASE u = s
    <3>1. E \cup To(reply', u) = F \cup {z}
      BY <2>6, <2>7, <2>8 DEF F
    <3>2. Known(F \cup {z}, next + 1) /\ Tally(F \cup {z}, n) = 0
      <4>1. z.ref >= next
        BY <1>8, <1>10
      <4> QED BY <1>8, <1>10, <4>1, TallyGrows
    <3>3. \A m : m # n => Tally(F \cup {z}, m) = Tally(E, m)
      BY <1>8, <1>10, TallyOthers
    <3>4. \A m : Tally(F \cup {z}, m) = Left(open', u, m)
      BY <1>4, <1>7, <2>1, <2>8, <3>2, <3>3
    <3>5. \A e \in F \cup {z} : e.order < next_order'
      <4>1. \A e \in F \cup {z} : e \in E \/ e.order = n
        BY <1>8, <1>10 DEF F
      <4>2. \A e \in E : e.order < n + 1
        <5>1. \A e \in E : e.order \in Nat
          BY <1>4 DEF Known, OrderEvents
        <5> QED BY <5>1, <1>4
      <4> QED BY <1>1, <1>2, <4>1, <4>2
    <3> QED BY <2>5, <3>1, <3>2, <3>4, <3>5 DEF Right
  <2>9. CASE u # s
    <3>1. E \cup To(reply', u) = E
      BY <1>8, <2>6, <2>7, <2>9
    <3>2. Known(E, next + 1)
      <4>1. r <= next + 1 /\ next + 1 \in Nat
        BY <1>3, <1>8 DEF next, After
      <4> QED BY <1>4, <4>1, KnownLater
    <3>3. \A m : Tally(E, m) = Left(open', u, m)
      BY <1>4, <1>5, <1>7, <2>9 DEF Left
    <3>4. \A e \in E : e.order < next_order'
      <4>1. \A e \in E : e.order \in Nat
        BY <1>4 DEF Known, OrderEvents
      <4> QED BY <1>1, <1>2, <1>4, <4>1
    <3> QED BY <2>5, <3>1, <3>2, <3>3, <3>4 DEF Right
  <2> QED BY <2>8, <2>9
<1> QED BY <1>11, <1>12

LEMMA ModifyTells ==
    ASSUME EngineOK, NEW n \in DOMAIN open, NEW volume \in Nat, NEW traded \in 0 .. volume,
           Engine!Modify(n, volume, traded), NEW u \in Sessions, NEW E,
           Right(E, u, open, next_order, next_ref)
    PROVE  Right(E \cup To(reply', u), u, open', next_order', next_ref')
<1>1. PICK s : s = open[n].session
  OBVIOUS
<1> DEFINE events == Word("modified", n, s, volume, traded, next_ref)
           next == After(traded, next_ref)
           F == E \cup To(events, s)
<1>2. /\ next_order' = next_order /\ next_ref' = next /\ reply' = events
      /\ Engine!Keep(n, s, volume - traded)
  BY <1>1 DEF Engine!Modify, Word, After
<1>3. /\ n \in Nat /\ n < next_order /\ s \in Sessions /\ next_order \in Nat
      /\ volume - traded \in Nat
  BY <1>1 DEF EngineOK
<1>4. PICK r \in Nat : r = next_ref
  BY DEF EngineOK
<1>5. /\ Known(E, r) /\ (\A e \in E : e.order < next_order)
      /\ \A m : Tally(E, m) = Left(open, u, m)
  BY <1>4 DEF Right
<1>6. \A m : Left(open', u, m) = IF m # n THEN Left(open, u, m)
                                 ELSE IF u = s THEN volume - traded ELSE 0
  BY <1>2, <1>3, KeepLeft
<1>7. /\ \A v : v # s => To(events, v) = {}
      /\ \A e \in To(events, s) : e.order = n
      /\ Known(F, next) /\ next \in Nat
      /\ Tally(F, n) = volume - traded
      /\ \A m : m # n => Tally(F, m) = Tally(E, m)
  <2>1. Carries(Word("modified", n, s, volume, traded, r), E, n, s, volume - traded, r,
                After(traded, r))
    BY <1>3, <1>5, SaidAndTraded
  <2>2. Carries(events, E, n, s, volume - traded, r, next)
    <3> HIDE DEF Carries
    <3> QED BY <1>4, <2>1
  <2> HIDE DEF events, next
  <2> QED BY <2>2 DEF Carries
<1> HIDE DEF events, F
<1>8. CASE u = s
  <2>1. E \cup To(reply', u) = F
    BY <1>2, <1>8 DEF F
  <2>2. \A m : Tally(F, m) = Left(open', u, m)
    BY <1>5, <1>6, <1>7, <1>8
  <2>3. \A e \in F : e.order < next_order'
    BY <1>2, <1>3, <1>5, <1>7 DEF F
  <2> QED BY <1>2, <1>7, <2>1, <2>2, <2>3 DEF Right
<1>9. CASE u # s
  <2>1. E \cup To(reply', u) = E
    BY <1>2, <1>7, <1>9
  <2>2. Known(E, next)
    BY <1>4, <1>5, <1>7, KnownLater DEF After
  <2>3. \A m : Tally(E, m) = Left(open', u, m)
    BY <1>1, <1>5, <1>6, <1>9 DEF Left
  <2> QED BY <1>2, <1>5, <2>1, <2>2, <2>3 DEF Right
<1> QED BY <1>8, <1>9

LEMMA CancelTells ==
    ASSUME EngineOK, NEW n \in DOMAIN open, Engine!Cancel(n), NEW u \in Sessions, NEW E,
           Right(E, u, open, next_order, next_ref)
    PROVE  Right(E \cup To(reply', u), u, open', next_order', next_ref')
<1>1. PICK s : s = open[n].session
  OBVIOUS
<1>2. PICK z : z = Engine!Event("cancelled", n, s, 0, next_ref)
  OBVIOUS
<1>3. /\ next_order' = next_order /\ next_ref' = next_ref + 1 /\ reply' = <<z>>
      /\ Engine!Keep(n, s, 0)
  BY <1>1, <1>2 DEF Engine!Cancel
<1>4. n \in Nat /\ n < next_order /\ s \in Sessions /\ next_order \in Nat
  BY <1>1 DEF EngineOK
<1>5. PICK r \in Nat : r = next_ref
  BY DEF EngineOK
<1>6. /\ Known(E, r) /\ (\A e \in E : e.order < next_order)
      /\ \A m : Tally(E, m) = Left(open, u, m)
  BY <1>5 DEF Right
<1>7. \A m : Left(open', u, m) = IF m # n THEN Left(open, u, m) ELSE 0
  BY <1>3, KeepLeft
<1>8. /\ z \in OrderEvents /\ z.order = n /\ z.session = s /\ z.type # "trade"
      /\ z.quantity = 0 /\ z.ref = r
  BY <1>2, <1>4, <1>5 DEF Engine!Event, OrderEvents
<1> HIDE DEF OrderEvents
<1>9. To(reply', u) = IF u = s THEN {z} ELSE {}
  BY <1>3, <1>8, ToOf
<1>10. CASE u = s
  <2>1. Known(E \cup {z}, r + 1) /\ Tally(E \cup {z}, n) = 0
    <3>1. z.ref >= r
      BY <1>8
    <3> QED BY <1>6, <1>8, <3>1, TallyGrows
  <2>2. \A m : m # n => Tally(E \cup {z}, m) = Tally(E, m)
    BY <1>8, TallyOthers
  <2>3. \A m : Tally(E \cup {z}, m) = Left(open', u, m)
    BY <1>6, <1>7, <2>1, <2>2
  <2> QED BY <1>3, <1>4, <1>5, <1>6, <1>8, <1>9, <1>10, <2>1, <2>3 DEF Right
<1>11. CASE u # s
  <2>1. Known(E, r + 1)
    BY <1>6, KnownLater
  <2>2. \A m : Tally(E, m) = Left(open', u, m)
    BY <1>1, <1>6, <1>7, <1>11 DEF Left
  <2>3. E \cup To(reply', u) = E
    BY <1>9, <1>11
  <2> QED BY <1>3, <1>5, <1>6, <2>1, <2>2, <2>3 DEF Right
<1> QED BY <1>10, <1>11

LEMMA PassTells ==
    ASSUME Engine!Pass, NEW u \in Sessions, NEW E, Right(E, u, open, next_order, next_ref)
    PROVE  Right(E \cup To(reply', u), u, open', next_order', next_ref')
<1>1. reply' \in {<<Engine!Refusal>>, <<>>} /\ UNCHANGED <<open, next_order, next_ref>>
  BY DEF Engine!Pass
<1>2. Engine!Refusal \notin OrderEvents
  BY DEF Engine!Refusal, OrderEvents
<1> HIDE DEF OrderEvents
<1>3. To(reply', u) = {}
  BY <1>1, <1>2 DEF To
<1> QED BY <1>1, <1>3

LEMMA DropTells ==
    ASSUME NEW s \in Sessions, Engine!Drop(s), NEW u \in Sessions \ {s}, NEW E,
           Right(E, u, open, next_order, next_ref)
    PROVE  Right(E, u, open', next_order', next_ref')
<1>1. \A m : Left(open', u, m) = Left(open, u, m)
  BY DEF Engine!Drop, Left
<1> QED BY <1>1 DEF Right, Engine!Drop

\* A numbering in ascending order of a finite set leaves none of it out.
LEMMA NumbersAll ==
    ASSUME NEW S \in SUBSET Nat, IsFiniteSet(S), NEW nth \in [1 .. Cardinality(S) -> S],
           \A i, j \in DOMAIN nth : i < j => nth[i] < nth[j]
    PROVE  /\ Cardinality(S) \in Nat
           /\ \A i, j \in DOMAIN nth : nth[i] = nth[j] => i = j
           /\ \A n \in S : \E i \in DOMAIN nth : nth[i] = n
<1> DEFINE N == Cardinality(S)
           I == 1 .. N
<1>1. N \in Nat
  BY FS_CardinalityType
<1>2. \A i, j \in I : nth[i] = nth[j] => i = j
  <2>1. ASSUME NEW i \in I, NEW j \in I, nth[i] = nth[j] PROVE i = j
    <3>1. nth[i] \in Nat
      <4>1. nth[i] \in S
        OBVIOUS
      <4>2. \A x \in S : x \in Nat
        OBVIOUS
      <4> QED BY <4>1, <4>2
    <3>2. i \in Int /\ j \in Int
      <4> HIDE DEF N
      <4> QED BY <1>1
    <3>3. ~ (i < j) /\ ~ (j < i)
      BY <2>1, <3>1
    <3> QED BY <3>2, <3>3
  <2> QED BY <2>1
<1>3. Cardinality(I) = N
  <2>1. 1 \in Int /\ N \in Int
    BY <1>1
  <2>2. Cardinality(1 .. N) = IF 1 > N THEN 0 ELSE N - 1 + 1
    <3> HIDE DEF N
    <3> QED BY <2>1, FS_Interval
  <2> QED BY <1>1, <2>2
<1>4. nth \in Injection(I, S)
  BY <1>2 DEF Injection, IsInjective
<1>5. nth \in Surjection(I, S)
  <2>1. Cardinality(I) = Cardinality(S)
    BY <1>3
  <2> HIDE DEF I
  <2> QED BY <1>4, <2>1, FS_Injection
<1> QED BY <1>1, <1>2, <1>5 DEF Surjection

\* A round of trades: one for each order of S, with its own reference.
LEMMA MatchTells ==
    ASSUME EngineOK, NEW S \in SUBSET DOMAIN open, Engine!Match(S), NEW u \in Sessions, NEW E,
           Right(E, u, open, next_order, next_ref)
    PROVE  Right(E \cup To(reply', u), u, open', next_order', next_ref')
<1> DEFINE k == Cardinality(S)
<1>1. PICK traded \in [S -> Volumes], nth \in [1 .. k -> S] :
        /\ \A n \in S : traded[n] <= open[n].left
        /\ open' = [n \in {m \in DOMAIN open :
                        (IF m \in S THEN open[m].left - traded[m] ELSE open[m].left) > 0} |->
                [open[n] EXCEPT !.left =
                    IF n \in S THEN open[n].left - traded[n] ELSE open[n].left]]
        /\ \A i, j \in DOMAIN nth : i < j => nth[i] < nth[j]
        /\ reply' = [i \in DOMAIN nth |->
                Engine!Event("trade", nth[i], open[nth[i]].session, traded[nth[i]],
                             next_ref + i - 1)]
  BY EngineCardinality DEF Engine!Match
<1>2. next_order' = next_order /\ next_ref' = next_ref + k
  BY EngineCardinality DEF Engine!Match
<1>3. S \in SUBSET Nat /\ IsFiniteSet(S)
  <2>1. next_order \in Nat /\ \A n \in DOMAIN open : n \in 0 .. next_order
    BY DEF EngineOK
  <2>2. IsFiniteSet(0 .. next_order)
    BY <2>1, FS_Interval
  <2>3. S \subseteq 0 .. next_order
    BY <2>1
  <2>4. IsFiniteSet(S)
    BY <2>2, <2>3, FS_Subset
  <2>5. S \in SUBSET Nat
    BY DEF EngineOK
  <2> QED BY <2>4, <2>5
<1>4. /\ k \in Nat
      /\ \A i, j \in 1 .. k : nth[i] = nth[j] => i = j
      /\ \A n \in S : \E i \in 1 .. k : nth[i] = n
  BY <1>1, <1>3, NumbersAll
<1> HIDE DEF k
<1>5. PICK r \in Nat : r = next_ref
  BY DEF EngineOK
<1>6. /\ Known(E, r) /\ (\A e \in E : e.order < next_order)
      /\ \A m : Tally(E, m) = Left(open, u, m)
  BY <1>5 DEF Right
<1>7. \A i \in 1 .. k :
        /\ reply'[i] \in OrderEvents /\ reply'[i].order = nth[i] /\ reply'[i].type = "trade"
        /\ reply'[i].session = open[nth[i]].session /\ reply'[i].quantity = traded[nth[i]]
        /\ reply'[i].ref = r + i - 1
  <2>1. ASSUME NEW i \in 1 .. k
        PROVE  /\ reply'[i] \in OrderEvents /\ reply'[i].order = nth[i] /\ reply'[i].type = "trade"
               /\ reply'[i].session = open[nth[i]].session /\ reply'[i].quantity = traded[nth[i]]
               /\ reply'[i].ref = r + i - 1
    <3>1. reply'[i] = Engine!Event("trade", nth[i], open[nth[i]].session, traded[nth[i]],
                                   r + i - 1)
      BY <1>1, <1>5
    <3>2. nth[i] \in DOMAIN open /\ traded[nth[i]] \in Nat /\ r + i - 1 \in Nat
      <4>1. r + i - 1 \in Nat
        BY <1>4
      <4>2. nth[i] \in S
        OBVIOUS
      <4>3. traded[nth[i]] \in Nat
        BY <4>2, VolumeAssumption
      <4> QED BY <4>1, <4>2, <4>3
    <3>3. nth[i] \in Nat /\ open[nth[i]].session \in Sessions
      BY <3>2 DEF EngineOK
    <3> QED BY <3>1, <3>2, <3>3 DEF Engine!Event, OrderEvents
  <2> QED BY <2>1
<1>8. DOMAIN reply' = 1 .. k
  BY <1>1
<1> DEFINE R == {reply'[i] : i \in 1 .. k}
           F == E \cup To(reply', u)
<1>9. \A e \in To(reply', u) : e \in R /\ e \in OrderEvents /\ e.session = u
  BY <1>8 DEF To
<1>10. IsFiniteSet(To(reply', u))
  <2>1. PICK g : g = [i \in 1 .. k |-> reply'[i]]
    OBVIOUS
  <2>2. g \in Surjection(1 .. k, R)
    BY <2>1 DEF Surjection
  <2>3. IsFiniteSet(1 .. k)
    <3>1. 1 \in Int /\ k \in Int
      BY <1>4
    <3> QED BY <3>1, FS_Interval
  <2>4. IsFiniteSet(R)
    <3> HIDE DEF R
    <3> QED BY <2>2, <2>3, FS_Surjection
  <2>5. To(reply', u) \subseteq R
    BY <1>9
  <2> HIDE DEF R
  <2> QED BY <2>4, <2>5, FS_Subset
<1>11. Known(F, r + k)
  <2>1. IsFiniteSet(F)
    BY <1>6, <1>10, FS_Union DEF Known
  <2>2. \A e \in E : e \in OrderEvents /\ e.ref < r + k
    BY <1>4, <1>6 DEF Known, OrderEvents
  <2>3. \A e \in R : e.ref < r + k
    BY <1>4, <1>7
  <2> QED BY <1>9, <2>1, <2>2, <2>3 DEF Known
<1>12. \A e \in F : e.order < next_order'
  <2>1. \A e \in R : e.order \in S
    BY <1>7
  <2>2. \A n \in S : n < next_order
    BY DEF EngineOK
  <2> QED BY <1>2, <1>6, <1>9, <2>1, <2>2
<1>13. ASSUME NEW m, m \notin S \/ open[m].session # u
       PROVE  Tally(F, m) = Left(open', u, m)
  <2>1. \A e \in To(reply', u) : e.order # m
    BY <1>7, <1>9, <1>13
  <2>2. {e \in F : e.order = m} = {e \in E : e.order = m}
    BY <2>1
  <2>3. Tally(F, m) = Tally(E, m)
    <3> HIDE DEF F
    <3> QED BY <2>2, TallyOwn
  <2>4. Left(open', u, m) = Left(open, u, m)
    <3>1. CASE m \notin DOMAIN open
      BY <1>1, <3>1 DEF Left
    <3>2. CASE m \in DOMAIN open /\ m \notin S
      <4>1. open[m].left > 0 /\ open[m] \in [session : Sessions, left : Nat \ {0}]
        BY <3>2 DEF EngineOK
      <4>2. m \in DOMAIN open' /\ open'[m] = [open[m] EXCEPT !.left = open[m].left]
        BY <1>1, <3>2, <4>1
      <4>3. open'[m] = open[m]
        BY <4>1, <4>2
      <4> QED BY <3>2, <4>2, <4>3 DEF Left
    <3>3. CASE m \in S
      <4>1. m \in DOMAIN open /\ open[m].session # u /\ open[m] \in [session : Sessions, left : Nat \ {0}]
        BY <1>13, <3>3 DEF EngineOK
      <4>2. m \in DOMAIN open' => open'[m].session = open[m].session
        BY <1>1, <4>1
      <4> QED BY <4>1, <4>2 DEF Left
    <3> QED BY <3>1, <3>2, <3>3
  <2> QED BY <1>6, <2>3, <2>4
<1>14. ASSUME NEW m \in S, open[m].session = u
       PROVE  Tally(F, m) = Left(open', u, m)
  <2>1. PICK i \in 1 .. k : nth[i] = m
    BY <1>4
  <2>2. PICK y : y = reply'[i]
    OBVIOUS
  <2>3. /\ y \in OrderEvents /\ y.order = m /\ y.type = "trade" /\ y.session = u
        /\ y.quantity = traded[m] /\ y.ref = r + i - 1
    BY <1>7, <1>14, <2>1, <2>2
  <2>4. y \in To(reply', u)
    BY <1>8, <2>2, <2>3 DEF To
  <2>5. \A e \in R : e.order = m => e = y
    BY <1>4, <1>7, <2>1, <2>2
  <2>6. PICK G : G = E \cup {y}
    OBVIOUS
  <2>7. {e \in F : e.order = m} = {e \in G : e.order = m}
    BY <1>9, <2>4, <2>5, <2>6
  <2>8. Tally(F, m) = Tally(G, m)
    <3> HIDE DEF F
    <3> QED BY <2>7, TallyOwn
  <2>9. /\ m \in DOMAIN open /\ open[m] \in [session : Sessions, left : Nat \ {0}]
        /\ traded[m] \in Nat /\ traded[m] <= open[m].left
    BY <1>1, VolumeAssumption DEF EngineOK
  <2>10. Tally(E, m) = open[m].left
    BY <1>6, <1>14, <2>9 DEF Left
  <2>11. States(E, m) # {}
    <3>1. Tally(E, m) # 0
      BY <2>9, <2>10
    <3> QED BY <3>1, TallyIs
  <2>12. Tally(G, m) = Tally(E, m) - y.quantity
    <3>1. y.ref >= r
      BY <1>4, <2>3
    <3> HIDE DEF OrderEvents
    <3> QED BY <1>6, <2>3, <2>6, <2>11, <3>1, TallyGrows
  <2>13. Left(open', u, m) = open[m].left - traded[m]
    <3>1. m \in DOMAIN open' <=> open[m].left - traded[m] > 0
      BY <1>1, <2>9
    <3>2. m \in DOMAIN open' => open'[m] = [open[m] EXCEPT !.left = open[m].left - traded[m]]
      BY <1>1, <2>9
    <3>3. m \in DOMAIN open' => open'[m].session = u /\ open'[m].left = open[m].left - traded[m]
      BY <1>14, <2>9, <3>2
    <3>4. m \notin DOMAIN open' => open[m].left - traded[m] = 0
      BY <2>9, <3>1
    <3> QED BY <3>3, <3>4 DEF Left
  <2> QED BY <2>3, <2>8, <2>10, <2>12, <2>13
<1>15. \A m : Tally(F, m) = Left(open', u, m)
  <2> HIDE DEF F
  <2> QED BY <1>13, <1>14
<1>16. next_ref' = r + k
  BY <1>2, <1>5
<1> HIDE DEF F
<1>17. Right(F, u, open', next_order', next_ref')
  BY <1>11, <1>12, <1>15, <1>16 DEF Right
<1> QED BY <1>17 DEF F

-----------------------------------------------------------------------------
(* What a client has been told and what is on its way.                     *)

Carried(events, e) == \E i \in DOMAIN events : events[i] = e

Coming(s) == {e \in OrderEvents : e.session = s /\ \E t \in Threads : Carried(pending[t], e)}

Told(s) == Heard(s) \cup Coming(s)

\* A thread with a frame sends the event in hand; one that has failed has closed
\* its session.
Attentive ==
    /\ \A t \in Threads : at[t] \in {"encrypted", "header"} => frame[t].event = Head(pending[t])
    /\ \A t \in Threads : at[t] \in {"failed", "leaving"} => closed[Of(t)]
    /\ \A s \in Sessions : \A e \in OrderEvents : Carried(pending[s], e) => e.session = s

\* An open session will be right about its orders when it has heard all.
Current(s) ==
    socket[s] = "open" /\ ~closed[s] => Right(Told(s), s, open, next_order, next_ref)

Informed == Attentive /\ \A s \in Sessions : Current(s)

\* The order events among the bodies of a wire.
Bodies(w) ==
    {e \in OrderEvents : \E i \in DOMAIN w : "position" \in DOMAIN w[i] /\ w[i].event = e}

LEMMA BodiesAre ==
    ASSUME NEW w \in Seq(Parts)
    PROVE  {e \in {w[i].event : i \in {j \in DOMAIN w : "position" \in DOMAIN w[j]}} :
                "ref" \in DOMAIN e} = Bodies(w)
<1>1. \A i \in DOMAIN w : w[i] \in Parts
  <2> HIDE DEF Parts
  <2> QED OBVIOUS
<1>2. \A p \in Parts : "position" \in DOMAIN p => p.event \in AllEvents
  BY DEF Parts
<1>3. \A e \in AllEvents : "ref" \in DOMAIN e <=> e \in OrderEvents
  <2>1. \A e \in OrderEvents : "ref" \in DOMAIN e
    BY DEF OrderEvents
  <2>2. Engine!Refusal \notin OrderEvents /\ Info \notin OrderEvents
    BY DEF Engine!Refusal, Info, OrderEvents
  <2>3. "ref" \notin DOMAIN Engine!Refusal /\ "ref" \notin DOMAIN Info
    BY DEF Engine!Refusal, Info
  <2> QED BY <2>1, <2>2, <2>3 DEF AllEvents
<1> HIDE DEF OrderEvents, AllEvents, Parts
<1>4. OrderEvents \subseteq AllEvents
  BY DEF AllEvents
<1> QED BY <1>1, <1>2, <1>3, <1>4 DEF Bodies

LEMMA HeardIs ==
    ASSUME StateOK, NEW s \in Sessions
    PROVE  Heard(s) = Bodies(wire[s])
<1> HIDE DEF Parts
<1>1. wire[s] \in Seq(Parts)
  BY DEF StateOK
<1> QED BY <1>1, BodiesAre DEF Heard, Received

LEMMA HeardThen ==
    ASSUME StateOK', NEW s \in Sessions
    PROVE  Heard(s)' = Bodies(wire'[s])
<1> HIDE DEF Parts
<1>1. wire'[s] \in Seq(Parts)
  BY DEF StateOK
<1> QED BY <1>1, BodiesAre DEF Heard, Received

LEMMA HeardMore ==
    ASSUME StateOK, StateOK', NEW s \in Sessions, NEW part \in Parts,
           wire'[s] = Append(wire[s], part)
    PROVE  /\ "position" \notin DOMAIN part => Heard(s)' = Heard(s)
           /\ "position" \in DOMAIN part =>
                Heard(s)' = Heard(s) \cup ({part.event} \cap OrderEvents)
<1> DEFINE Body(p, e) == "position" \in DOMAIN p /\ p.event = e
<1>1. wire[s] \in Seq(Parts)
  BY DEF StateOK
<1>2. ASSUME NEW e
      PROVE  (\E i \in DOMAIN wire'[s] : Body(wire'[s][i], e))
               <=> (\E i \in DOMAIN wire[s] : Body(wire[s][i], e)) \/ Body(part, e)
  <2> HIDE DEF Parts, Body
  <2>1. PICK w \in Seq(Parts) : w = wire[s]
    BY <1>1
  <2>2. PICK v : v = Append(w, part)
    OBVIOUS
  <2>3. /\ DOMAIN v = 1 .. Len(w) + 1 /\ DOMAIN w = 1 .. Len(w) /\ Len(w) \in Nat
        /\ v[Len(w) + 1] = part /\ \A i \in 1 .. Len(w) : v[i] = w[i]
    BY <2>2
  <2>4. (\E i \in DOMAIN v : Body(v[i], e)) <=> (\E i \in DOMAIN w : Body(w[i], e)) \/ Body(part, e)
    <3>1. ASSUME NEW i \in DOMAIN v, Body(v[i], e)
          PROVE  (\E j \in DOMAIN w : Body(w[j], e)) \/ Body(part, e)
      <4>1. i = Len(w) + 1 \/ i \in 1 .. Len(w)
        BY <2>3
      <4> QED BY <2>3, <3>1, <4>1
    <3>2. ASSUME NEW i \in DOMAIN w, Body(w[i], e) PROVE \E j \in DOMAIN v : Body(v[j], e)
      <4>1. i \in DOMAIN v /\ v[i] = w[i]
        BY <2>3
      <4> QED BY <3>2, <4>1
    <3>3. ASSUME Body(part, e) PROVE \E j \in DOMAIN v : Body(v[j], e)
      <4>1. Len(w) + 1 \in DOMAIN v
        BY <2>3
      <4> QED BY <2>3, <3>3, <4>1
    <3> QED BY <3>1, <3>2, <3>3
  <2> QED BY <2>1, <2>2, <2>4
<1>3. Heard(s) = {e \in OrderEvents : \E i \in DOMAIN wire[s] : Body(wire[s][i], e)}
  BY HeardIs DEF Bodies
<1>4. Heard(s)' = {e \in OrderEvents : \E i \in DOMAIN wire'[s] : Body(wire'[s][i], e)}
  BY HeardThen DEF Bodies
<1> HIDE DEF OrderEvents, Parts
<1>5. Heard(s)' = Heard(s) \cup {e \in OrderEvents : Body(part, e)}
  <2> HIDE DEF Body
  <2> QED BY <1>2, <1>3, <1>4
<1>6. "position" \notin DOMAIN part => {e \in OrderEvents : Body(part, e)} = {}
  OBVIOUS
<1>7. "position" \in DOMAIN part => {e \in OrderEvents : Body(part, e)} = {part.event} \cap OrderEvents
  OBVIOUS
<1> QED BY <1>5, <1>6, <1>7

-----------------------------------------------------------------------------
(* Events on their way.                                                    *)

LEMMA CarriedTail ==
    ASSUME NEW A, NEW q \in Seq(A), q # <<>>
    PROVE  \A e : Carried(q, e) <=> e = Head(q) \/ Carried(Tail(q), e)
<1>1. /\ Len(q) \in Nat /\ Len(q) > 0 /\ Head(q) = q[1] /\ DOMAIN q = 1 .. Len(q)
      /\ DOMAIN Tail(q) = 1 .. Len(q) - 1
      /\ \A i \in 1 .. Len(q) - 1 : Tail(q)[i] = q[i + 1]
  OBVIOUS
<1>2. ASSUME NEW i \in DOMAIN q PROVE q[i] = Head(q) \/ Carried(Tail(q), q[i])
  <2>1. CASE i = 1
    BY <1>1, <2>1
  <2>2. CASE i # 1
    <3>1. PICK j \in 1 .. Len(q) - 1 : j + 1 = i
      <4>1. i - 1 \in 1 .. Len(q) - 1 /\ i - 1 + 1 = i
        BY <1>1, <2>2
      <4> QED BY <4>1
    <3>2. Tail(q)[j] = q[i] /\ j \in DOMAIN Tail(q)
      BY <1>1, <3>1
    <3> QED BY <3>2 DEF Carried
  <2> QED BY <2>1, <2>2
<1>3. Carried(q, Head(q))
  <2>1. 1 \in DOMAIN q
    BY <1>1
  <2> QED BY <1>1, <2>1 DEF Carried
<1>4. ASSUME NEW i \in DOMAIN Tail(q) PROVE Carried(q, Tail(q)[i])
  <2>1. i + 1 \in DOMAIN q /\ q[i + 1] = Tail(q)[i]
    BY <1>1
  <2> QED BY <2>1 DEF Carried
<1>5. ASSUME NEW e, Carried(q, e) PROVE e = Head(q) \/ Carried(Tail(q), e)
  <2>1. PICK i \in DOMAIN q : q[i] = e
    BY <1>5 DEF Carried
  <2> QED BY <1>2, <2>1
<1>6. ASSUME NEW e, Carried(Tail(q), e) PROVE Carried(q, e)
  <2>1. PICK i \in DOMAIN Tail(q) : Tail(q)[i] = e
    BY <1>6 DEF Carried
  <2> QED BY <1>4, <2>1
<1> QED BY <1>3, <1>5, <1>6

\* A thread is done with its first event.
LEMMA ComingLess ==
    ASSUME StateOK, NEW t \in Threads, pending[t] # <<>>,
           pending' = [pending EXCEPT ![t] = Tail(@)], NEW s
    PROVE  /\ Coming(s)' \subseteq Coming(s)
           /\ Coming(s) \subseteq Coming(s)' \cup {Head(pending[t])}
<1>1. \A e : Carried(pending[t], e) <=> e = Head(pending[t]) \/ Carried(pending'[t], e)
  <2>1. pending[t] \in Seq(AllEvents) /\ pending'[t] = Tail(pending[t])
    BY DEF StateOK
  <2> HIDE DEF AllEvents
  <2> QED BY <2>1, CarriedTail
<1>2. \A u \in Threads \ {t} : pending'[u] = pending[u]
  BY DEF StateOK
<1> HIDE DEF OrderEvents, Carried
<1>3. ASSUME NEW e, NEW u \in Threads, Carried(pending'[u], e)
      PROVE  \E v \in Threads : Carried(pending[v], e)
  <2>1. CASE u = t
    BY <1>1, <1>3, <2>1
  <2>2. CASE u # t
    BY <1>2, <1>3, <2>2
  <2> QED BY <2>1, <2>2
<1>4. ASSUME NEW e, NEW u \in Threads, Carried(pending[u], e)
      PROVE  e = Head(pending[t]) \/ \E v \in Threads : Carried(pending'[v], e)
  <2>1. CASE u = t
    BY <1>1, <1>4, <2>1
  <2>2. CASE u # t
    BY <1>2, <1>4, <2>2
  <2> QED BY <2>1, <2>2
<1>5. Coming(s)' \subseteq Coming(s)
  BY <1>3 DEF Coming
<1>6. Coming(s) \subseteq Coming(s)' \cup {Head(pending[t])}
  BY <1>4 DEF Coming
<1> QED BY <1>5, <1>6

\* A thread without events gets some.
LEMMA ComingMore ==
    ASSUME StateOK, NEW t \in Threads, pending[t] = <<>>, NEW q,
           pending' = [pending EXCEPT ![t] = q], NEW s
    PROVE  Coming(s)' = Coming(s) \cup To(q, s)
<1>1. \A e : ~Carried(pending[t], e)
  BY DEF Carried
<1>2. pending'[t] = q /\ \A u \in Threads \ {t} : pending'[u] = pending[u]
  BY DEF StateOK
<1> HIDE DEF OrderEvents, Carried
<1>3. ASSUME NEW e
      PROVE  (\E u \in Threads : Carried(pending'[u], e))
               <=> (\E u \in Threads : Carried(pending[u], e)) \/ Carried(q, e)
  <2>1. ASSUME NEW u \in Threads, Carried(pending'[u], e)
        PROVE  (\E v \in Threads : Carried(pending[v], e)) \/ Carried(q, e)
    <3>1. CASE u = t
      BY <1>2, <2>1, <3>1
    <3>2. CASE u # t
      BY <1>2, <2>1, <3>2
    <3> QED BY <3>1, <3>2
  <2>2. ASSUME NEW u \in Threads, Carried(pending[u], e)
        PROVE  \E v \in Threads : Carried(pending'[v], e)
    <3>1. u # t
      BY <1>1, <2>2
    <3> QED BY <1>2, <2>2, <3>1
  <2>3. Carried(q, e) => \E v \in Threads : Carried(pending'[v], e)
    BY <1>2
  <2> QED BY <2>1, <2>2, <2>3
<1>4. To(q, s) = {e \in OrderEvents : e.session = s /\ Carried(q, e)}
  BY DEF To, Carried
<1> QED BY <1>3, <1>4 DEF Coming

\* The engine does nothing that session s should be told.
Quietly(s) ==
    \A E : Right(E, s, open, next_order, next_ref) => Right(E, s, open', next_order', next_ref')

LEMMA QuietlySame ==
    ASSUME UNCHANGED engine, NEW s
    PROVE  Quietly(s)
BY DEF engine, Quietly

LEMMA QuietlyDropped ==
    ASSUME NEW d \in Sessions, Engine!Drop(d), NEW s \in Sessions \ {d}
    PROVE  Quietly(s)
<1> HIDE DEF Right
<1> QED BY DropTells DEF Quietly

\* What is known stays known, and of a closed session nothing is claimed.
LEMMA CurrentKept ==
    ASSUME NEW s \in Sessions, Current(s), Quietly(s), Told(s)' = Told(s),
           socket'[s] = "open" /\ ~closed'[s] => socket[s] = "open" /\ ~closed[s]
    PROVE  Current(s)'
<1> HIDE DEF Told, Right
<1>1. Right(Told(s), s, open, next_order, next_ref) =>
        Right(Told(s)', s, open', next_order', next_ref')
  BY DEF Quietly
<1> QED BY <1>1 DEF Current

LEMMA CurrentClosed ==
    ASSUME NEW s \in Sessions, socket'[s] = "open" => closed'[s]
    PROVE  Current(s)'
<1> HIDE DEF Told, Right
<1> QED BY DEF Current

LEMMA ToldSame ==
    ASSUME UNCHANGED <<pending, wire>>, NEW s
    PROVE  Told(s)' = Told(s)
BY DEF Told, Heard, Received, Coming

LEMMA InitInformed == Init => Informed
<1> SUFFICES ASSUME Init PROVE Informed
  OBVIOUS
<1>1. Attentive
  <2>1. \A s \in Sessions : s \in Threads /\ pending[s] = <<>>
    BY DEF Init, Threads
  <2>2. \A e : ~Carried(<<>>, e)
    BY DEF Carried
  <2>3. \A t \in Threads : at[t] = "idle"
    BY DEF Init
  <2> HIDE DEF OrderEvents, Carried
  <2>4. \A s \in Sessions : \A e \in OrderEvents : Carried(pending[s], e) => e.session = s
    BY <2>1, <2>2
  <2> QED BY <2>3, <2>4 DEF Attentive
<1>2. ASSUME NEW s \in Sessions PROVE Current(s)
  <2>1. Told(s) = {}
    <3>1. wire[s] = <<>> /\ \A t \in Threads : pending[t] = <<>>
      BY DEF Init
    <3>2. Heard(s) = {}
      BY <3>1 DEF Heard, Received
    <3>3. Coming(s) = {}
      BY <3>1 DEF Coming, Carried
    <3> QED BY <3>2, <3>3 DEF Told
  <2>2. \A n : Tally({}, n) = 0
    BY TallyIs DEF States
  <2>3. \A n : Left(open, s, n) = 0
    BY DEF Init, Engine!Init, Left
  <2>4. Known({}, next_ref)
    BY FS_EmptySet DEF Known
  <2>5. Right({}, s, open, next_order, next_ref)
    BY <2>2, <2>3, <2>4 DEF Right
  <2> QED BY <2>1, <2>5 DEF Current
<1> QED BY <1>1, <1>2 DEF Informed

-----------------------------------------------------------------------------
(* Steps.                                                                  *)

\* The event a thread has in hand is for the session it is busy with.
LEMMA HeadOwn ==
    ASSUME StateOK, Attentive, NEW t \in Threads, pending[t] # <<>>,
           Head(pending[t]) \in OrderEvents
    PROVE  Head(pending[t]).session = Of(t)
<1>1. Carried(pending[t], Head(pending[t]))
  <2>1. pending[t] \in Seq(AllEvents)
    BY DEF StateOK
  <2> HIDE DEF AllEvents
  <2> QED BY <2>1, CarriedTail
<1> HIDE DEF OrderEvents, Carried
<1> QED BY <1>1 DEF Attentive, Of

\* A thread gives its event up; only the session it was for could have missed it.
LEMMA GivenUp ==
    ASSUME StateOK, Informed, NEW s \in Sessions, NEW t \in Threads, pending[t] # <<>>,
           s # Of(t) => Quietly(s),
           pending' = [pending EXCEPT ![t] = Tail(@)], UNCHANGED <<wire, closed>>,
           Release, socket[Of(t)] = "shut" \/ closed[Of(t)]
    PROVE  Current(s)'
<1>1. socket'[s] = "open" => socket[s] = "open"
  BY DEF Release
<1>2. CASE s = Of(t)
  <2>1. socket'[s] = "open" => closed'[s]
    BY <1>1, <1>2
  <2> QED BY <2>1, CurrentClosed
<1>3. CASE s # Of(t)
  <2>1. Coming(s)' = Coming(s)
    <3>1. Head(pending[t]) \notin Coming(s)
      BY <1>3, HeadOwn DEF Coming, Informed
    <3> HIDE DEF Coming
    <3> QED BY <3>1, ComingLess
  <2>2. Heard(s)' = Heard(s)
    BY DEF Heard, Received
  <2>3. Told(s)' = Told(s)
    <3> HIDE DEF Coming, Heard
    <3> QED BY <2>1, <2>2 DEF Told
  <2> HIDE DEF Told, Quietly, Current
  <2> QED BY <1>1, <1>3, <2>3, CurrentKept DEF Informed
<1> QED BY <1>2, <1>3

\* What thread t does while it has the same event in hand.
LEMMA InHand ==
    ASSUME Informed, NEW s \in Sessions, UNCHANGED <<engine, pending>>, Heard(s)' = Heard(s),
           socket'[s] = "open" /\ ~closed'[s] => socket[s] = "open" /\ ~closed[s]
    PROVE  Current(s)'
<1>1. Told(s)' = Told(s)
  BY DEF Told, Coming
<1>2. Quietly(s)
  BY QuietlySame
<1> HIDE DEF Told, Quietly, Current
<1> QED BY <1>1, <1>2, CurrentKept DEF Informed

LEMMA HeardSame == ASSUME UNCHANGED wire, NEW s PROVE Heard(s)' = Heard(s)
BY DEF Heard, Received

LEMMA DispatchCurrent ==
    ASSUME StateOK, StateOK', Informed, NEW t \in Threads, Dispatch(t), NEW s \in Sessions
    PROVE  Current(s)'
<1> HIDE DEF Current, Informed, Quietly
<1>0. at[t] \in Held \cup {"begun"} => pending[t] # <<>> /\ Of(t) \in Sessions
  BY OfType DEF StateOK
<1>1. CASE Skip(t)
  <2>1. /\ pending[t] # <<>> /\ pending' = [pending EXCEPT ![t] = Tail(@)] /\ Release
        /\ UNCHANGED <<engine, wire, closed>>
        /\ socket[Of(t)] = "shut" \/ closed[Of(t)]
    BY <1>1 DEF Skip, Return, sending
  <2> QED BY <2>1, GivenUp, QuietlySame
<1>2. CASE Begin(t) \/ Encrypt(t) \/ Die(t)
  <2>1. UNCHANGED <<engine, pending, wire, socket, closed>>
    BY <1>2 DEF Begin, Encrypt, Die, threads, sending
  <2> QED BY <2>1, HeardSame, InHand
<1>3. CASE Lock(t)
  <2>1. at[t] = "begun" /\ Release /\ UNCHANGED <<engine, wire, closed>>
    BY <1>3 DEF Lock, sending
  <2>2. CASE closed[Of(t)] /\ Return(t)
    <3>1. pending[t] # <<>> /\ pending' = [pending EXCEPT ![t] = Tail(@)]
      BY <1>0, <2>1, <2>2 DEF Return
    <3> QED BY <2>1, <2>2, <3>1, GivenUp, QuietlySame
  <2>3. CASE UNCHANGED pending
    <3>1. socket'[s] = "open" => socket[s] = "open"
      BY <2>1 DEF Release
    <3> QED BY <2>1, <2>3, <3>1, HeardSame, InHand
  <2> QED BY <1>3, <2>2, <2>3 DEF Lock
<1>4. ASSUME Throw(t), at[t] \in Held, UNCHANGED <<engine, pending>>, Release \/ UNCHANGED socket
      PROVE  Current(s)'
  <2>1. /\ socket'[s] = "open" => socket[s] = "open"
        /\ ~closed'[s] => ~closed[s]
        /\ UNCHANGED wire
    BY <1>4 DEF Release, Throw, StateOK
  <2> QED BY <1>4, <2>1, HeardSame, InHand
<1>5. CASE WriteHeader(t)
  <2>1. at[t] \in Held /\ frame[t] \in Frames /\ UNCHANGED <<engine, pending, socket>>
    BY <1>5 DEF WriteHeader, Held, StateOK
  <2>2. PICK part : part = [number |-> frame[t].number, digest |-> frame[t].event]
    OBVIOUS
  <2>3. part \in Parts /\ "position" \notin DOMAIN part
    BY <2>1, <2>2 DEF Frames, Parts
  <2>4. CASE Write(t, part) /\ UNCHANGED closed
    <3>1. Heard(s)' = Heard(s)
      <4>1. CASE wire'[s] = Append(wire[s], part)
        <5> HIDE DEF Parts
        <5> QED BY <2>3, <4>1, HeardMore
      <4>2. CASE wire'[s] = wire[s]
        BY <4>2 DEF Heard, Received
      <4> QED BY <2>4, <4>1, <4>2 DEF Write, StateOK
    <3> QED BY <2>1, <2>4, <3>1, InHand
  <2> QED BY <1>4, <1>5, <2>1, <2>2, <2>4 DEF WriteHeader
<1>6. CASE WriteBody(t)
  <2>1. at[t] \in Held /\ frame[t] \in Frames /\ UNCHANGED engine /\ Release
    BY <1>6 DEF WriteBody, Held, StateOK
  <2>2. PICK part : part = [position |-> frame[t].position, event |-> frame[t].event]
    OBVIOUS
  <2>3. part \in Parts /\ "position" \in DOMAIN part /\ part.event = Head(pending[t])
    <3>1. frame[t].event = Head(pending[t])
      BY <1>6 DEF WriteBody, Informed, Attentive
    <3>2. part \in Parts /\ "position" \in DOMAIN part
      BY <2>1, <2>2 DEF Frames, Parts
    <3> QED BY <2>2, <3>1, <3>2
  <2>4. CASE Write(t, part) /\ Return(t) /\ UNCHANGED closed
    <3>1. pending[t] # <<>> /\ pending' = [pending EXCEPT ![t] = Tail(@)]
      BY <1>0, <2>1, <2>4 DEF Return
    <3>2. socket'[s] = "open" => socket[s] = "open"
      BY <2>1 DEF Release
    <3>3. Coming(s)' \subseteq Coming(s) /\ Coming(s) \subseteq Coming(s)' \cup {Head(pending[t])}
      BY <3>1, ComingLess
    <3>4. Quietly(s)
      BY <2>1, QuietlySame
    <3>5. CASE s = Of(t) /\ socket[s] = "open"
      <4>1. wire'[s] = Append(wire[s], part)
        BY <2>4, <3>5 DEF Write, StateOK
      <4>2. Heard(s)' = Heard(s) \cup ({Head(pending[t])} \cap OrderEvents)
        <5> HIDE DEF Parts, Heard, OrderEvents
        <5> QED BY <2>3, <4>1, HeardMore
      <4>3. Head(pending[t]) \in OrderEvents => Head(pending[t]) \in Coming(s)
        <5>1. Carried(pending[t], Head(pending[t]))
          <6>1. pending[t] \in Seq(AllEvents)
            BY DEF StateOK
          <6> HIDE DEF AllEvents, Carried
          <6> QED BY <3>1, <6>1, CarriedTail
        <5>2. Head(pending[t]) \in OrderEvents => Head(pending[t]).session = s
          BY <3>1, <3>5, HeadOwn DEF Informed
        <5> HIDE DEF OrderEvents, Carried
        <5> QED BY <5>1, <5>2 DEF Coming
      <4>4. Coming(s) \subseteq OrderEvents
        BY DEF Coming
      <4>5. Told(s)' = Told(s)
        <5> HIDE DEF OrderEvents, Heard, Coming
        <5> QED BY <3>3, <4>2, <4>3, <4>4 DEF Told
      <4> QED BY <2>4, <3>2, <3>4, <4>5, CurrentKept DEF Informed
    <3>6. CASE s # Of(t)
      <4>1. wire'[s] = wire[s]
        BY <2>4, <3>6 DEF Write, StateOK
      <4>2. Heard(s)' = Heard(s)
        BY <4>1 DEF Heard, Received
      <4>3. Head(pending[t]) \notin Coming(s)
        BY <3>1, <3>6, HeadOwn DEF Coming, Informed
      <4>4. Told(s)' = Told(s)
        <5> HIDE DEF Heard, Coming
        <5> QED BY <3>3, <4>2, <4>3 DEF Told
      <4> QED BY <2>4, <3>2, <3>4, <4>4, CurrentKept DEF Informed
    <3>7. CASE socket[s] # "open"
      BY <3>2, <3>7, CurrentClosed
    <3> QED BY <3>5, <3>6, <3>7
  <2> QED BY <1>4, <1>6, <2>1, <2>2, <2>4 DEF WriteBody
<1>7. CASE ReportClosed(t)
  <2>1. /\ at[t] = "failed" /\ pending' = [pending EXCEPT ![t] = Tail(@)] /\ Release
        /\ UNCHANGED <<wire, closed>> /\ Engine!Drop(Of(t))
    BY <1>7 DEF ReportClosed, Return, sending
  <2>2. closed[Of(t)] /\ pending[t] # <<>> /\ Of(t) \in Sessions
    BY <1>0, <2>1 DEF Informed, Attentive, Held
  <2>3. s # Of(t) => Quietly(s)
    BY <2>1, <2>2, QuietlyDropped
  <2> QED BY <2>1, <2>2, <2>3, GivenUp
<1> QED BY <1>1, <1>2, <1>3, <1>5, <1>6, <1>7 DEF Dispatch

LEMMA DispatchAttentive ==
    ASSUME StateOK, StateOK', Mutex, Attentive, NEW t \in Threads, Dispatch(t)
    PROVE  Attentive'
<1>1. \A u \in Threads \ {t} :
        at'[u] = at[u] /\ pending'[u] = pending[u] /\ frame'[u] = frame[u] /\ Of(u)' = Of(u)
  BY DispatchMoves, OfSame DEF OnlyMoves
<1>2. at[t] \in Held \cup {"begun"} => pending[t] # <<>> /\ Of(t) \in Sessions
  BY OfType DEF StateOK
<1>3. /\ \A s \in Sessions : closed[s] => closed'[s]
      /\ \/ UNCHANGED closed
         \/ Throw(t) /\ closed' = [closed EXCEPT ![Of(t)] = TRUE] /\ UNCHANGED pending
            /\ Of(t) \in Sessions
  <2>1. Throw(t) => closed' = [closed EXCEPT ![Of(t)] = TRUE]
    BY DEF Throw
  <2>2. CASE WriteHeader(t) \/ WriteBody(t)
    <3>1. at[t] \in Held /\ (UNCHANGED closed \/ (Throw(t) /\ UNCHANGED pending))
      BY <2>2 DEF WriteHeader, WriteBody, Held
    <3> QED BY <1>2, <2>1, <3>1 DEF StateOK
  <2>3. CASE ~ (WriteHeader(t) \/ WriteBody(t))
    <3>1. UNCHANGED closed
      BY <2>3 DEF Dispatch, Skip, Begin, Lock, Encrypt, Die, ReportClosed
    <3> QED BY <3>1
  <2> QED BY <2>2, <2>3
<1>4. \A u \in Threads : at'[u] \in {"encrypted", "header"} => frame'[u].event = Head(pending'[u])
  <2>1. ASSUME NEW u \in Threads, at'[u] \in {"encrypted", "header"}
        PROVE  frame'[u].event = Head(pending'[u])
    <3>1. CASE u # t
      BY <1>1, <2>1, <3>1 DEF Attentive
    <3>2. CASE u = t /\ Encrypt(t)
      BY <3>2 DEF Encrypt, StateOK
    <3>3. CASE u = t /\ WriteHeader(t)
      <4>1. at[t] = "encrypted" /\ UNCHANGED <<pending, frame>>
        BY <3>3 DEF WriteHeader
      <4> QED BY <3>3, <4>1 DEF Attentive
    <3>4. CASE u = t /\ Die(t)
      <4>1. UNCHANGED <<at, pending, frame>>
        BY <3>4 DEF Die, threads
      <4> QED BY <2>1, <3>4, <4>1 DEF Attentive
    <3>5. CASE u = t /\ (Skip(t) \/ Begin(t) \/ Lock(t) \/ WriteBody(t) \/ ReportClosed(t))
      BY <2>1, <3>5 DEF Skip, Begin, Lock, WriteBody, ReportClosed, Throw, Return, Move, StateOK
    <3> QED BY <3>1, <3>2, <3>3, <3>4, <3>5 DEF Dispatch
  <2> QED BY <2>1
<1>5. \A u \in Threads : at'[u] \in {"failed", "leaving"} => closed'[Of(u)']
  <2>1. ASSUME NEW u \in Threads, at'[u] \in {"failed", "leaving"} PROVE closed'[Of(u)']
    <3>1. CASE u # t
      <4>1. at[u] \in {"failed", "leaving"} /\ Of(u)' = Of(u)
        BY <1>1, <2>1, <3>1
      <4>2. closed[Of(u)]
        BY <4>1 DEF Attentive
      <4>3. Of(u) \in Sessions
        <5>1. CASE at[u] = "failed"
          BY <5>1, OfType DEF StateOK, Held
        <5>2. CASE at[u] = "leaving"
          BY <5>2 DEF Mutex, Of
        <5> QED BY <4>1, <5>1, <5>2
      <4> QED BY <1>3, <4>1, <4>2, <4>3
    <3>2. CASE u = t /\ Throw(t) /\ closed' = [closed EXCEPT ![Of(t)] = TRUE] /\ UNCHANGED pending
               /\ Of(t) \in Sessions
      <4>1. Of(u)' = Of(t)
        BY <3>2, OfSame
      <4> QED BY <3>2, <4>1 DEF StateOK
    <3>3. CASE u = t /\ UNCHANGED closed
      <4>1. CASE Throw(t)
        <5>1. at[t] \in Held /\ pending' = pending
          BY <4>1, <3>3, <2>1 DEF Dispatch, Skip, Begin, Lock, Encrypt, WriteHeader, WriteBody,
                Die, ReportClosed, Throw, Return, Move, Held, StateOK, threads
        <5>2. Of(u)' = Of(t)
          BY <3>3, <5>1, OfSame
        <5> QED BY <1>2, <4>1, <5>1, <5>2 DEF Throw, StateOK
      <4>2. CASE ~Throw(t)
        <5>1. UNCHANGED at /\ UNCHANGED pending
          BY <2>1, <3>3, <4>2 DEF Dispatch, Skip, Begin, Lock, Encrypt, WriteHeader, WriteBody,
                Die, ReportClosed, Return, Move, StateOK, threads
        <5>2. Of(u)' = Of(t)
          BY <3>3, <5>1, OfSame
        <5> QED BY <2>1, <3>3, <5>1, <5>2 DEF Attentive
      <4> QED BY <4>1, <4>2
    <3> QED BY <1>3, <3>1, <3>2, <3>3
  <2> QED BY <2>1
<1>6. \A s \in Sessions : \A e \in OrderEvents : Carried(pending'[s], e) => e.session = s
  <2>1. ASSUME NEW s \in Sessions, NEW e, Carried(pending'[s], e) PROVE Carried(pending[s], e)
    <3>1. CASE UNCHANGED pending
      BY <2>1, <3>1
    <3>2. CASE s # t
      <4>1. pending'[s] = pending[s]
        BY <1>1, <3>2 DEF Threads
      <4> QED BY <2>1, <4>1
    <3>3. CASE s = t /\ pending[t] # <<>> /\ pending'[t] = Tail(pending[t])
      <4>1. pending[t] \in Seq(AllEvents)
        BY DEF StateOK
      <4> HIDE DEF AllEvents, Carried
      <4> QED BY <2>1, <3>3, <4>1, CarriedTail
    <3>4. UNCHANGED pending \/ (pending[t] # <<>> /\ pending'[t] = Tail(pending[t]))
      <4>1. at[t] \in {"begun", "header", "failed"} => pending[t] # <<>>
        BY <1>2 DEF Held
      <4>2. Return(t) => pending'[t] = Tail(pending[t])
        BY DEF Return, StateOK
      <4> QED BY <4>1, <4>2 DEF Dispatch, Skip, Begin, Lock, Encrypt, WriteHeader, WriteBody,
                  Die, ReportClosed, threads
    <3> QED BY <3>1, <3>2, <3>3, <3>4
  <2> HIDE DEF Carried, OrderEvents
  <2> QED BY <2>1 DEF Attentive
<1> HIDE DEF Carried, OrderEvents
<1> QED BY <1>4, <1>5, <1>6 DEF Attentive

\* What the engine tells session s is about its own orders.
Own(s) == {e \in OrderEvents : e.session = s}

LEMMA EventOwn ==
    ASSUME NEW type \in {"confirmed", "modified", "trade", "cancelled"}, NEW n \in Nat,
           NEW s \in Sessions, NEW quantity \in Nat, NEW ref \in Nat
    PROVE  /\ <<Engine!Event(type, n, s, quantity, ref)>> \in Seq(Own(s))
           /\ Engine!TradeOf(n, s, quantity, ref) \in Seq(Own(s))
<1>1. /\ Engine!Event(type, n, s, quantity, ref) \in Own(s)
      /\ Engine!Event("trade", n, s, quantity, ref) \in Own(s)
  BY DEF Engine!Event, OrderEvents, Own
<1> HIDE DEF Own
<1>2. /\ \A e \in Own(s) : <<e>> \in Seq(Own(s))
      /\ <<>> \in Seq(Own(s))
  OBVIOUS
<1> QED BY <1>1, <1>2 DEF Engine!TradeOf

LEMMA AskOwn ==
    ASSUME EngineOK, NEW s \in Sessions, Ask(s)
    PROVE  \A e \in OrderEvents : Carried(reply', e) => e.session = s
<1>1. ASSUME reply' \in Seq(Own(s)), NEW e \in OrderEvents, Carried(reply', e)
      PROVE  e.session = s
  <2>1. e \in Own(s)
    <3> HIDE DEF Own
    <3> QED BY <1>1 DEF Carried
  <2> QED BY <2>1 DEF Own
<1>2. ASSUME NEW volume \in Volumes, NEW traded \in 0 .. volume, NEW stays \in BOOLEAN,
             Engine!Accept(s, volume, traded, stays)
      PROVE  reply' \in Seq(Own(s))
  <2>1. PICK ref : ref = next_ref + IF traded = 0 THEN 1 ELSE 2
    OBVIOUS
  <2>2. PICK rest : rest = IF stays \/ traded = volume THEN <<>>
                           ELSE <<Engine!Event("cancelled", next_order, s, 0, ref)>>
    OBVIOUS
  <2>3. reply' = <<Engine!Event("confirmed", next_order, s, volume, next_ref)>>
                    \o Engine!TradeOf(next_order, s, traded, next_ref + 1) \o rest
    BY <1>2, <2>1, <2>2 DEF Engine!Accept
  <2>4. /\ next_order \in Nat /\ next_ref \in Nat /\ next_ref + 1 \in Nat /\ ref \in Nat
        /\ volume \in Nat /\ traded \in Nat
    BY <2>1, VolumeAssumption DEF EngineOK
  <2>5. <<Engine!Event("confirmed", next_order, s, volume, next_ref)>> \in Seq(Own(s))
    BY <2>4, EventOwn
  <2>6. Engine!TradeOf(next_order, s, traded, next_ref + 1) \in Seq(Own(s))
    BY <2>4, EventOwn
  <2>7. rest \in Seq(Own(s))
    <3>1. <<Engine!Event("cancelled", next_order, s, 0, ref)>> \in Seq(Own(s))
      BY <2>4, EventOwn
    <3> QED BY <2>2, <3>1
  <2> HIDE DEF Own
  <2> QED BY <2>3, <2>5, <2>6, <2>7, ConcatProperties
<1>3. ASSUME NEW n \in DOMAIN open, open[n].session = s, NEW left \in Volumes,
             NEW traded \in 0 .. left, Engine!Modify(n, left, traded)
      PROVE  reply' \in Seq(Own(s))
  <2>1. reply' = <<Engine!Event("modified", n, s, left, next_ref)>>
                    \o Engine!TradeOf(n, s, traded, next_ref + 1)
    BY <1>3 DEF Engine!Modify
  <2>2. /\ n \in Nat /\ next_ref \in Nat /\ next_ref + 1 \in Nat
        /\ left \in Nat /\ traded \in Nat
    BY VolumeAssumption DEF EngineOK
  <2>3. <<Engine!Event("modified", n, s, left, next_ref)>> \in Seq(Own(s))
    BY <2>2, EventOwn
  <2>4. Engine!TradeOf(n, s, traded, next_ref + 1) \in Seq(Own(s))
    BY <2>2, EventOwn
  <2> HIDE DEF Own
  <2> QED BY <2>1, <2>3, <2>4, ConcatProperties
<1>4. ASSUME NEW n \in DOMAIN open, open[n].session = s, Engine!Cancel(n)
      PROVE  reply' \in Seq(Own(s))
  <2>1. n \in Nat /\ next_ref \in Nat
    BY DEF EngineOK
  <2> QED BY <1>4, <2>1, EventOwn DEF Engine!Cancel
<1>5. ASSUME Engine!Pass, NEW e \in OrderEvents, Carried(reply', e) PROVE FALSE
  <2>1. Engine!Refusal \notin OrderEvents
    BY DEF Engine!Refusal, OrderEvents
  <2> HIDE DEF OrderEvents
  <2> QED BY <1>5, <2>1 DEF Engine!Pass, Carried
<1>6. \/ Engine!Pass
      \/ \E volume \in Volumes : \E traded \in 0 .. volume, stays \in BOOLEAN :
            Engine!Accept(s, volume, traded, stays)
      \/ \E n \in {m \in DOMAIN open : open[m].session = s} :
            \/ \E left \in Volumes : \E traded \in 0 .. left : Engine!Modify(n, left, traded)
            \/ Engine!Cancel(n)
  BY Zenon DEF Ask
<1>7. Engine!Pass \/ reply' \in Seq(Own(s))
  <2> HIDE DEF Own
  <2> QED BY <1>2, <1>3, <1>4, <1>6
<1> HIDE DEF OrderEvents, Own, Carried
<1> QED BY <1>1, <1>5, <1>7

LEMMA AskTells ==
    ASSUME EngineOK, NEW s \in Sessions, Ask(s), NEW u \in Sessions, NEW E,
           Right(E, u, open, next_order, next_ref)
    PROVE  Right(E \cup To(reply', u), u, open', next_order', next_ref')
<1>1. \/ Engine!Pass
      \/ \E volume \in Volumes : \E traded \in 0 .. volume, stays \in BOOLEAN :
            Engine!Accept(s, volume, traded, stays)
      \/ \E n \in DOMAIN open :
            \/ \E left \in Volumes : \E traded \in 0 .. left : Engine!Modify(n, left, traded)
            \/ Engine!Cancel(n)
  BY Zenon DEF Ask
<1>2. \A volume \in Volumes : volume \in Nat
  BY VolumeAssumption
<1> HIDE DEF Right, To
<1>3. CASE Engine!Pass
  BY <1>3, PassTells
<1>4. ASSUME NEW volume \in Volumes, NEW traded \in 0 .. volume, NEW stays \in BOOLEAN,
             Engine!Accept(s, volume, traded, stays)
      PROVE  Right(E \cup To(reply', u), u, open', next_order', next_ref')
  BY <1>2, <1>4, AcceptTells
<1>5. ASSUME NEW n \in DOMAIN open, NEW left \in Volumes, NEW traded \in 0 .. left,
             Engine!Modify(n, left, traded)
      PROVE  Right(E \cup To(reply', u), u, open', next_order', next_ref')
  BY <1>2, <1>5, ModifyTells
<1>6. ASSUME NEW n \in DOMAIN open, Engine!Cancel(n)
      PROVE  Right(E \cup To(reply', u), u, open', next_order', next_ref')
  BY <1>6, CancelTells
<1> QED BY <1>1, <1>3, <1>4, <1>5, <1>6

\* A reply that has been given to a thread.
LEMMA CurrentTold ==
    ASSUME StateOK, NEW u \in Sessions, Current(u), NEW t \in Threads, pending[t] = <<>>,
           pending' = [pending EXCEPT ![t] = reply'], UNCHANGED <<wire, socket, closed>>,
           \A E : Right(E, u, open, next_order, next_ref) =>
                    Right(E \cup To(reply', u), u, open', next_order', next_ref')
    PROVE  Current(u)'
<1>1. Coming(u)' = Coming(u) \cup To(reply', u)
  BY ComingMore
<1>2. Heard(u)' = Heard(u)
  BY HeardSame
<1>3. Told(u)' = Told(u) \cup To(reply', u)
  <2> HIDE DEF Heard, Coming, To
  <2> QED BY <1>1, <1>2 DEF Told
<1> HIDE DEF Told, Right, To
<1> QED BY <1>3 DEF Current

\* All but closed stays as it was for an attentive thread.
LEMMA AttentiveKept ==
    ASSUME StateOK, Attentive, NEW t \in Threads, OnlyMoves(t), UNCHANGED closed,
           at'[t] \in {"idle", "clear"},
           t \in Sessions => \A e \in OrderEvents : Carried(pending'[t], e) => e.session = t
    PROVE  Attentive'
<1>1. \A u \in Threads \ {t} :
        at'[u] = at[u] /\ pending'[u] = pending[u] /\ frame'[u] = frame[u] /\ Of(u)' = Of(u)
  BY OfSame DEF OnlyMoves
<1>2. \A u \in Threads : at'[u] \in {"encrypted", "header"} => frame'[u].event = Head(pending'[u])
  BY <1>1 DEF Attentive
<1>3. \A u \in Threads : at'[u] \in {"failed", "leaving"} => closed'[Of(u)']
  BY <1>1 DEF Attentive
<1>4. \A s \in Sessions : s \in Threads
  BY DEF Threads
<1> HIDE DEF OrderEvents, Carried
<1>5. \A s \in Sessions : \A e \in OrderEvents : Carried(pending'[s], e) => e.session = s
  BY <1>1, <1>4 DEF Attentive
<1> QED BY <1>2, <1>3, <1>5 DEF Attentive

LEMMA SessionInformed ==
    ASSUME StateOK, StateOK', Mutex, Informed, NEW s \in Sessions,
           \/ Ask(s) \/ Inquire(s) \/ Break(s) \/ ReadFails(s) \/ ReadGarbage(s) \/ ReportLeft(s)
           \/ Stall(s)
    PROVE  Informed'
<1>1. s \in Threads /\ Of(s) = s /\ Of(s)' = s
  BY DEF Threads, Of
<1>2. Attentive /\ \A u \in Sessions : Current(u)
  BY DEF Informed
<1>3. \A e \in OrderEvents : ~Carried(<<>>, e)
  BY DEF Carried
<1> HIDE DEF Current, OrderEvents, Carried
<1>4. CASE Ask(s)
  <2>1. EngineOK
    BY DEF StateOK
  <2>2. /\ pending' = [pending EXCEPT ![s] = reply'] /\ pending[s] = <<>> /\ at[s] = "idle"
        /\ UNCHANGED <<at, frame, wire, socket, closed>>
    BY <1>4, AskOK DEF sending
  <2>3. ASSUME NEW u \in Sessions PROVE Current(u)'
    <3>1. \A E : Right(E, u, open, next_order, next_ref) =>
                Right(E \cup To(reply', u), u, open', next_order', next_ref')
      <4> HIDE DEF Right, To
      <4> QED BY <1>4, <2>1, AskTells
    <3> HIDE DEF Right, To
    <3> QED BY <1>1, <1>2, <2>2, <3>1, CurrentTold
  <2>4. Attentive'
    <3>1. OnlyMoves(s)
      BY <1>4, SessionMoves
    <3>2. pending'[s] = reply'
      BY <1>1, <2>2 DEF StateOK
    <3>3. \A e \in OrderEvents : Carried(pending'[s], e) => e.session = s
      BY <1>4, <2>1, <3>2, AskOwn
    <3> QED BY <1>1, <1>2, <2>2, <3>1, <3>3, AttentiveKept
  <2> QED BY <2>3, <2>4 DEF Informed
<1>5. CASE Inquire(s)
  <2>1. /\ pending' = [pending EXCEPT ![s] = <<Info>>] /\ pending[s] = <<>>
        /\ at' = [at EXCEPT ![s] = "clear"] /\ UNCHANGED <<engine, frame, wire, socket, closed>>
    BY <1>5 DEF Inquire, Move, sending
  <2>2. \A e \in OrderEvents : ~Carried(<<Info>>, e)
    <3>1. Info \notin OrderEvents
      BY DEF Info, OrderEvents
    <3>2. \A e : Carried(<<Info>>, e) => e = Info
      BY DEF Carried
    <3> QED BY <3>1, <3>2
  <2>3. ASSUME NEW u \in Sessions PROVE Current(u)'
    <3>1. To(<<Info>>, u) = {}
      BY <2>2 DEF To, Carried
    <3>2. Coming(u)' = Coming(u)
      <4>1. Coming(u)' = Coming(u) \cup To(<<Info>>, u)
        <5>1. PICK q : q = <<Info>>
          OBVIOUS
        <5> HIDE DEF Info
        <5> QED BY <1>1, <2>1, <5>1, ComingMore
      <4> QED BY <3>1, <4>1
    <3>3. Heard(u)' = Heard(u)
      BY <2>1, HeardSame
    <3>4. Told(u)' = Told(u)
      <4> HIDE DEF Heard, Coming
      <4> QED BY <3>2, <3>3 DEF Told
    <3>5. Quietly(u)
      BY <2>1, QuietlySame
    <3> HIDE DEF Told, Quietly
    <3> QED BY <1>2, <2>1, <3>4, <3>5, CurrentKept
  <2>4. Attentive'
    <3>1. OnlyMoves(s)
      BY <1>5, SessionMoves
    <3>2. pending'[s] = <<Info>> /\ at'[s] = "clear"
      BY <1>1, <2>1 DEF StateOK
    <3> QED BY <1>1, <1>2, <2>1, <2>2, <3>1, <3>2, AttentiveKept
  <2> QED BY <2>3, <2>4 DEF Informed
<1>6. CASE Break(s) \/ Stall(s)
  <2>1. /\ UNCHANGED <<engine, at, pending, frame, wire, closed>>
        /\ \A u \in Sessions : socket'[u] = "open" => socket[u] = "open"
    BY <1>6 DEF Break, Stall, threads, sending, StateOK
  <2>2. Attentive'
    <3>1. \A t : Of(t)' = Of(t)
      BY <2>1, OfSame
    <3> QED BY <1>2, <2>1, <3>1 DEF Attentive
  <2>3. ASSUME NEW u \in Sessions PROVE Current(u)'
    BY <2>1, HeardSame, InHand
  <2> QED BY <2>2, <2>3 DEF Informed
<1>7. CASE ReadFails(s) \/ ReadGarbage(s)
  <2>1. /\ closed' = [closed EXCEPT ![s] = TRUE] /\ at' = [at EXCEPT ![s] = "leaving"]
        /\ UNCHANGED <<engine, pending, frame, wire, socket>>
    BY <1>7 DEF ReadFails, ReadGarbage, Leave, Move, sending
  <2>2. closed'[s] /\ \A u \in Sessions : closed[u] => closed'[u]
    BY <2>1 DEF StateOK
  <2>3. \A t : Of(t)' = Of(t)
    BY <2>1, OfSame
  <2>4. \A t \in Threads : t # s => at'[t] = at[t]
    BY <2>1 DEF StateOK
  <2>5. at'[s] = "leaving"
    BY <1>1, <2>1 DEF StateOK
  <2>6. \A t \in Threads : at'[t] \in {"failed", "leaving"} => closed'[Of(t)']
    <3>1. ASSUME NEW t \in Threads, t # s, at[t] \in {"failed", "leaving"} PROVE closed'[Of(t)]
      <4>1. closed[Of(t)]
        BY <1>2, <3>1 DEF Attentive
      <4>2. Of(t) \in Sessions
        <5>1. CASE at[t] = "failed"
          BY <5>1, OfType DEF StateOK, Held
        <5>2. CASE at[t] = "leaving"
          BY <5>2 DEF Mutex, Of
        <5> QED BY <3>1, <5>1, <5>2
      <4> QED BY <2>2, <4>1, <4>2
    <3> QED BY <1>1, <2>2, <2>3, <2>4, <3>1
  <2>7. Attentive'
    BY <1>2, <2>1, <2>4, <2>5, <2>6 DEF Attentive
  <2>8. ASSUME NEW u \in Sessions PROVE Current(u)'
    BY <2>1, <2>2, HeardSame, InHand
  <2> QED BY <2>7, <2>8 DEF Informed
<1>8. CASE ReportLeft(s)
  <2>1. /\ pending' = [pending EXCEPT ![s] = <<>>] /\ at' = [at EXCEPT ![s] = "idle"]
        /\ Engine!Drop(s) /\ Release /\ UNCHANGED <<wire, closed>> /\ at[s] = "leaving"
    BY <1>8 DEF ReportLeft, Move, sending
  <2>2. closed'[s]
    BY <1>1, <1>2, <2>1 DEF Attentive
  <2>3. /\ \A u \in Sessions : socket'[u] = "open" => socket[u] = "open"
        /\ pending'[s] = <<>> /\ \A t \in Threads \ {s} : pending'[t] = pending[t]
        /\ at'[s] = "idle"
    BY <1>1, <2>1 DEF Release, StateOK
  <2>4. ASSUME NEW u \in Sessions, u # s PROVE Current(u)'
    <3>1. ASSUME NEW e \in OrderEvents, e.session = u
          PROVE  (\E t \in Threads : Carried(pending'[t], e)) <=> \E t \in Threads : Carried(pending[t], e)
      <4>1. ~Carried(pending[s], e) /\ ~Carried(pending'[s], e)
        BY <1>2, <1>3, <2>3, <2>4, <3>1 DEF Attentive
      <4> QED BY <2>3, <4>1
    <3>2. Coming(u)' = Coming(u)
      BY <3>1 DEF Coming
    <3>3. Heard(u)' = Heard(u)
      BY <2>1, HeardSame
    <3>4. Told(u)' = Told(u)
      <4> HIDE DEF Heard, Coming
      <4> QED BY <3>2, <3>3 DEF Told
    <3>5. Quietly(u)
      BY <2>1, <2>4, QuietlyDropped
    <3> HIDE DEF Told, Quietly
    <3> QED BY <1>2, <2>1, <2>3, <3>4, <3>5, CurrentKept
  <2>5. Current(s)'
    BY <2>2, CurrentClosed
  <2>6. Attentive'
    <3>1. OnlyMoves(s)
      BY <1>8, SessionMoves
    <3> QED BY <1>1, <1>2, <1>3, <2>1, <2>3, <3>1, AttentiveKept
  <2> QED BY <2>4, <2>5, <2>6 DEF Informed
<1> QED BY <1>4, <1>5, <1>6, <1>7, <1>8

LEMMA TickInformed ==
    ASSUME StateOK, StateOK', Informed, NEW f \in Feeds, Tick(f)
    PROVE  Informed'
<1>1. f \in Threads /\ f \notin Sessions
  BY ThreadAssumption DEF Threads
<1>2. /\ pending' = [pending EXCEPT ![f] = reply'] /\ pending[f] = <<>> /\ at[f] = "idle"
      /\ UNCHANGED <<at, frame, wire, socket, closed>>
  BY TickOK DEF sending
<1>3. PICK S \in SUBSET DOMAIN open : Engine!Match(S)
  BY DEF Tick
<1>4. EngineOK
  BY DEF StateOK
<1> HIDE DEF Current
<1>5. ASSUME NEW u \in Sessions PROVE Current(u)'
  <2>1. \A E : Right(E, u, open, next_order, next_ref) =>
            Right(E \cup To(reply', u), u, open', next_order', next_ref')
    <3> HIDE DEF Right, To
    <3> QED BY <1>3, <1>4, MatchTells
  <2> HIDE DEF Right, To
  <2> QED BY <1>1, <1>2, <2>1, CurrentTold DEF Informed
<1>6. Attentive'
  <2>1. OnlyMoves(f)
    BY <1>2 DEF OnlyMoves, StateOK
  <2> QED BY <1>1, <1>2, <2>1, AttentiveKept DEF Informed
<1> QED BY <1>5, <1>6 DEF Informed

LEMMA InformedStep == IInv /\ IInv' /\ Informed /\ [Next]_vars => Informed'
<1> SUFFICES ASSUME IInv, IInv', Informed, [Next]_vars PROVE Informed'
  OBVIOUS
<1>1. StateOK /\ StateOK' /\ Mutex
  BY DEF IInv
<1>2. ASSUME NEW t \in Threads, Dispatch(t) PROVE Informed'
  <2>1. Attentive
    BY DEF Informed
  <2>2. Attentive'
    BY <1>1, <1>2, <2>1, DispatchAttentive
  <2>3. \A s \in Sessions : Current(s)'
    BY <1>1, <1>2, DispatchCurrent
  <2> HIDE DEF Attentive, Current
  <2> QED BY <2>2, <2>3 DEF Informed
<1>3. CASE UNCHANGED vars
  <2>1. /\ \A t : Of(t)' = Of(t)
        /\ UNCHANGED <<engine, at, pending, frame, wire, socket, closed>>
    BY <1>3, OfSame DEF vars, threads, sending
  <2>2. Attentive'
    BY <2>1 DEF Informed, Attentive
  <2>3. ASSUME NEW s \in Sessions PROVE Current(s)'
    BY <2>1, HeardSame, InHand
  <2> QED BY <2>2, <2>3 DEF Informed
<1> QED BY <1>1, <1>2, <1>3, SessionInformed, TickInformed DEF Next, Step

\* No event gets lost or is sent twice on the way, even if other sessions named
\* in the same reply break: once nothing is under way to an open session whose
\* frames are whole, its client knows what the engine has open for it, however many
\* threads serve it (src/runtime.cpp:1180-1212).
THEOREM ClientsAgree == Spec => []ClientAgrees
<1>1. ASSUME IInv, Informed PROVE ClientAgrees
  <2>1. ASSUME NEW s \in Sessions, socket[s] = "open", ~closed[s], pending[s] = <<>>,
               \A f \in Feeds : \A i \in DOMAIN pending[f] : pending[f][i].session # s, NEW n
        PROVE  Believed(s, n) = Left(open, s, n)
    <3>1. Coming(s) = {}
      <4>1. ASSUME NEW e \in OrderEvents, e.session = s, NEW t \in Threads, Carried(pending[t], e)
            PROVE  FALSE
        <5>1. CASE t \in Feeds
          BY <2>1, <4>1, <5>1 DEF Carried
        <5>2. CASE t \in Sessions
          <6>1. t = s
            <7> HIDE DEF OrderEvents, Carried
            <7> QED BY <1>1, <4>1, <5>2 DEF Informed, Attentive
          <6> QED BY <2>1, <4>1, <6>1 DEF Carried
        <5> QED BY <5>1, <5>2 DEF Threads
      <4> HIDE DEF OrderEvents, Carried
      <4> QED BY <4>1 DEF Coming
    <3>2. Right(Told(s), s, open, next_order, next_ref)
      BY <1>1, <2>1 DEF Informed, Current
    <3>3. Told(s) = Heard(s)
      <4> HIDE DEF Coming, Heard
      <4> QED BY <3>1 DEF Told
    <3> QED BY <3>2, <3>3 DEF Right, Believed
  <2>2. \A s \in Sessions : \A n :
            Left(open, s, n) = IF n \in {m \in DOMAIN open : open[m].session = s}
                               THEN open[n].left ELSE 0
    BY DEF Left
  <2> HIDE DEF Believed, Left, Whole
  <2> QED BY <2>1, <2>2 DEF ClientAgrees
<1>2. Spec => []Informed
  <2> HIDE DEF Informed
  <2> QED BY InitInformed, InformedStep, Invariant, PTL DEF Spec
<1>3. IInv /\ Informed => ClientAgrees
  BY <1>1
<1> QED BY <1>2, <1>3, Invariant, PTL

=============================================================================
