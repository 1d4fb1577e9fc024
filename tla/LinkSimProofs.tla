---------------------------- MODULE LinkSimProofs ----------------------------
(***************************************************************************)
(* LinkSim for every set of hosts, options and bounds: its types, that it  *)
(* is a Relay, that delayed datagrams leave near their dates and, when the *)
(* delay is constant, in the order of their dates.  LinkInv is inductive.  *)
(***************************************************************************)
EXTENDS LinkSim, WellFoundedInduction, TLAPS

Clocks == [sec : Nat, usec : 0..(Second - 1)]
Dates  == [sec : Nat, usec : 0..(2 * Second - 2)]

LEMMA SecondPositive == Second \in Nat \ {0} /\ Second >= 2
BY LinkSimAssumption

\* Division with remainder.
LEMMA DivMod ==
  ASSUME NEW x \in Int, NEW S \in Nat \ {0}
  PROVE  /\ x % S \in 0..(S - 1)
         /\ x \div S \in Int
         /\ x = S * (x \div S) + (x % S)
  OBVIOUS

\* A positive multiple of S is at least S.
LEMMA MultipleAtLeast ==
  ASSUME NEW q \in Int, NEW S \in Nat \ {0}, q >= 1
  PROVE  S * q >= S
  OBVIOUS

\* Multiplication distributes over a difference.
LEMMA Distr == ASSUME NEW a \in Int, NEW b \in Int, NEW S \in Int
  PROVE S * (a - b) = S * a - S * b
  OBVIOUS

-----------------------------------------------------------------------------
(* Dates and their order. *)

\* One second more in the seconds is at least a second more in ticks.
LEMMA SecondsApart ==
  ASSUME NEW a \in Nat, NEW b \in Nat, a < b
  PROVE  a * Second \in Nat /\ b * Second \in Nat /\ a * Second + Second <= b * Second
<1>1. Second \in Nat \ {0} /\ Second \in Int
  BY SecondPositive
<1>2. Second * (b - a) >= Second
  BY <1>1, MultipleAtLeast
<1>3. Second * (b - a) = Second * b - Second * a
  BY <1>1, Distr
<1>4. a * Second = Second * a /\ b * Second = Second * b
  BY <1>1
<1>5. a * Second \in Nat /\ b * Second \in Nat
  BY <1>1
<1> QED
  BY <1>1, <1>2, <1>3, <1>4, <1>5

LEMMA TicksType ==
  ASSUME NEW ts \in Dates
  PROVE  Ticks(ts) \in Nat /\ ts.sec * Second \in Nat /\ ts.sec \in Nat
         /\ ts.usec \in 0..(2 * Second - 2)
         /\ Ticks(ts) = ts.sec * Second + ts.usec
<1>1. ts.sec \in Nat /\ ts.usec \in 0..(2 * Second - 2) /\ Second \in Nat
  BY SecondPositive DEF Dates
<1>2. ts.sec * Second \in Nat
  BY <1>1
<1> QED
  BY <1>1, <1>2 DEF Ticks

LEMMA ClocksAreDates == Clocks \subseteq Dates
BY SecondPositive DEF Clocks, Dates

\* A date that is not later in the order of timeval_cmp may be later in time,
\* but by less than a second; ...
LEMMA NotLater ==
  ASSUME NEW p \in Dates, NEW q \in Dates, ~timeval_cmp(p, q)
  PROVE  Ticks(p) < Ticks(q) + Second
<1>1. CASE p.sec = q.sec
  BY <1>1, TicksType, SecondPositive DEF timeval_cmp
<1>2. CASE p.sec # q.sec
  <2>1. p.sec \in Nat /\ q.sec \in Nat /\ p.sec < q.sec
    BY <1>2 DEF timeval_cmp, Dates
  <2>2. p.sec * Second + Second <= q.sec * Second
    BY <2>1, SecondsApart
  <2> QED
    BY <2>2, TicksType, SecondPositive
<1> QED
  BY <1>1, <1>2

\* ... it is not if the fractions are less than a second above a common base.
LEMMA NotLaterNear ==
  ASSUME NEW p \in Dates, NEW q \in Dates, ~timeval_cmp(p, q),
         p.usec < q.usec + Second
  PROVE  Ticks(p) <= Ticks(q)
<1>1. CASE p.sec = q.sec
  BY <1>1, TicksType, SecondPositive DEF timeval_cmp
<1>2. CASE p.sec # q.sec
  <2>1. p.sec \in Nat /\ q.sec \in Nat /\ p.sec < q.sec
    BY <1>2 DEF timeval_cmp, Dates
  <2>2. p.sec * Second + Second <= q.sec * Second
    BY <2>1, SecondsApart
  <2> QED
    BY <2>2, TicksType, SecondPositive
<1> QED
  BY <1>1, <1>2

\* An expired date lies less than a second ahead.
LEMMA LaterThan ==
  ASSUME NEW c \in Clocks, NEW q \in Dates, timeval_cmp(c, q)
  PROVE  Ticks(q) < Ticks(c) + Second
<1>0. c \in Dates
  BY ClocksAreDates
<1>1. CASE c.sec = q.sec
  BY <1>0, <1>1, TicksType, SecondPositive DEF timeval_cmp
<1>2. CASE c.sec # q.sec
  <2>1. c.sec \in Nat /\ q.sec \in Nat /\ q.sec < c.sec
    BY <1>2 DEF timeval_cmp, Clocks, Dates
  <2>2. q.sec * Second + Second <= c.sec * Second
    BY <2>1, SecondsApart
  <2> QED
    BY <1>0, <2>2, TicksType, SecondPositive
<1> QED
  BY <1>1, <1>2

\* timeval(t) is t, normalised.
LEMMA TimevalTicks ==
  ASSUME NEW t \in Nat
  PROVE  timeval(t) \in Clocks /\ Ticks(timeval(t)) = t
<1> DEFINE q == t \div Second
           r == t % Second
<1>1. r \in 0..(Second - 1) /\ q \in Int /\ t = Second * q + r
  BY SecondPositive, DivMod
<1>2. q \in Nat
  BY SecondPositive
<1>3. timeval(t) = [sec |-> q, usec |-> r]
  BY DEF timeval
<1> HIDE DEF q, r
<1>4. timeval(t) \in Clocks
  BY <1>1, <1>2, <1>3 DEF Clocks
<1>5. Second * q = q * Second
  BY <1>2, SecondPositive
<1> QED
  BY <1>1, <1>3, <1>4, <1>5 DEF Ticks

\* The wait for the date of the first slot is what is missing to it, or a tick.
LEMMA TimeoutLength ==
  ASSUME NEW ts \in Dates, last_clock \in Clocks
  PROVE  LET t == get_queue_timeout(ts)
         IN  t \in Nat \ {0} /\ (t = 1 \/ t = Ticks(ts) - Ticks(last_clock))
<1> DEFINE sec == ts.sec - last_clock.sec
           usec == ts.usec - last_clock.usec
           d == timeval_diff(ts, last_clock)
<1>1. sec \in Int /\ usec \in Int /\ usec > -Second /\ Second \in Nat /\ Second >= 2
      /\ last_clock.sec \in Nat /\ ts.sec \in Nat /\ last_clock.usec \in Nat /\ ts.usec \in Nat
  BY SecondPositive DEF Clocks, Dates
<1>2. sec * Second = ts.sec * Second - last_clock.sec * Second
  BY <1>1, Distr
<1>3. sec * Second + usec = Ticks(ts) - Ticks(last_clock)
  <2>1. ts.sec * Second \in Int /\ last_clock.sec * Second \in Int
    BY <1>1
  <2> QED
    BY <1>1, <1>2, <2>1 DEF Ticks
<1>4. d = IF usec >= 0 THEN [sec |-> sec, usec |-> usec]
          ELSE [sec |-> sec - 1, usec |-> IF sec - 1 # 0 THEN usec + Second ELSE usec]
  BY DEF timeval_diff
<1>5. get_queue_timeout(ts) = IF d.sec < 0 \/ (d.sec = 0 /\ d.usec <= 0) THEN 1
                              ELSE Ticks(d)
  BY DEF get_queue_timeout
<1> HIDE DEF d, sec, usec
<1>6. CASE d.sec < 0 \/ (d.sec = 0 /\ d.usec <= 0)
  BY <1>5, <1>6
<1>7. CASE ~(d.sec < 0 \/ (d.sec = 0 /\ d.usec <= 0)) /\ usec >= 0
  <2>1. d.sec = sec /\ d.usec = usec /\ sec \in Nat
    BY <1>1, <1>4, <1>7
  <2>2. sec * Second \in Nat /\ (sec = 0 => sec * Second = 0)
    BY <1>1, <2>1
  <2>3. sec = 0 \/ sec * Second >= Second
    BY <1>1, <2>1, SecondsApart
  <2> QED
    BY <1>1, <1>3, <1>5, <1>7, <2>1, <2>2, <2>3 DEF Ticks
<1>8. CASE ~(d.sec < 0 \/ (d.sec = 0 /\ d.usec <= 0)) /\ usec < 0
  <2>1. d.sec = sec - 1 /\ sec - 1 \in Nat /\ sec - 1 # 0 /\ d.usec = usec + Second
    BY <1>1, <1>4, <1>8
  <2>2. (sec - 1) * Second = sec * Second - 1 * Second
    BY <1>1, <2>1, Distr
  <2>3. (sec - 1) * Second \in Nat /\ sec * Second \in Int /\ 1 * Second = Second
    BY <1>1, <2>1
  <2> QED
    BY <1>1, <1>3, <1>5, <1>8, <2>1, <2>2, <2>3 DEF Ticks
<1> QED
  BY <1>1, <1>6, <1>7, <1>8

-----------------------------------------------------------------------------
(* What is queued, and when it is due. *)

Slots == [ts : Dates, direction : {"forward", "reverse"}, buf : Bufs]
Passed == [direction : {"forward", "reverse"}, buf : Bufs]

LEMMA OptionsType ==
  ASSUME options \in Options
  PROVE  options.delay \in Nat /\ options.jitter \in Nat
BY LinkSimAssumption

\* The delay applied is not negative; without jitter there is one.
LEMMA DelayType ==
  ASSUME options \in Options,
         NEW x \in AppliedDelays(options.delay, options.jitter)
  PROVE  /\ x \in Nat
         /\ options.jitter = 0 => x = options.delay % DelayModulus
<1>1. options.delay \in Nat /\ options.jitter \in Nat
  BY OptionsType
<1>2. PICK y \in Int : x = y % DelayModulus /\ (options.jitter = 0 => y = options.delay)
  BY <1>1 DEF AppliedDelays
<1>3. DelayModulus \in Nat \ {0}
  BY LinkSimAssumption
<1>4. x \in 0..(DelayModulus - 1)
  BY <1>2, <1>3, DivMod
<1> QED
  BY <1>2, <1>3, <1>4

\* The date of a slot is the delay after last_clock.
LEMMA ExpirationTicks ==
  ASSUME last_clock \in Clocks, NEW x \in Nat
  PROVE  /\ ExpirationDate(x) \in Dates
         /\ ExpirationDate(x).usec = last_clock.usec + (x % Second)
         /\ Ticks(ExpirationDate(x)) = Ticks(last_clock) + x
<1> DEFINE q == x \div Second
           r == x % Second
<1>1. r \in 0..(Second - 1) /\ q \in Int /\ x = Second * q + r
  BY SecondPositive, DivMod
<1>2. q \in Nat
  BY SecondPositive
<1>3. ExpirationDate(x) = [sec |-> last_clock.sec + q, usec |-> last_clock.usec + r]
  BY DEF ExpirationDate
<1>4. last_clock.sec \in Nat /\ last_clock.usec \in 0..(Second - 1) /\ Second \in Nat
  BY SecondPositive DEF Clocks
<1> HIDE DEF q, r
<1>5. ExpirationDate(x) \in Dates /\ ExpirationDate(x).usec = last_clock.usec + r
  BY <1>1, <1>2, <1>3, <1>4 DEF Dates
<1>6. Ticks(ExpirationDate(x)) = (last_clock.sec + q) * Second + (last_clock.usec + r)
  BY <1>3 DEF Ticks
<1>7. (last_clock.sec + q) * Second = last_clock.sec * Second + q * Second
      /\ q * Second = Second * q
      /\ last_clock.sec * Second \in Nat /\ q * Second \in Nat
  BY <1>2, <1>4
<1>8. Ticks(last_clock) = last_clock.sec * Second + last_clock.usec
  BY DEF Ticks
<1>9. Ticks(ExpirationDate(x)) = Ticks(last_clock) + x
  BY <1>1, <1>2, <1>4, <1>6, <1>7, <1>8
<1> QED
  BY <1>5, <1>9 DEF r

-----------------------------------------------------------------------------
(* process_incoming_pkt in the terms that the invariants need. *)

\* b is d as it is kept: whole, truncated, or with a byte inverted.
Outcome(d, b) ==
  \/ b \in {d, [d EXCEPT !.flipped = TRUE]}
  \/ d.len > MIN_PKT_LEN /\ b = [d EXCEPT !.len = MIN_PKT_LEN, !.tr = TRUE]

SentNow(b, direction) ==
  /\ UNCHANGED pkt_queue
  /\ sent' = sent \cup {[buf |-> b, direction |-> direction]}

QueuedNow(b, direction) ==
  /\ UNCHANGED sent
  /\ \E x \in AppliedDelays(options.delay, options.jitter) :
       pkt_queue' = pkt_queue \cup
         {[ts |-> ExpirationDate(x), direction |-> direction, buf |-> b]}

LEMMA DamagedOutcomes ==
  ASSUME NEW d, NEW b \in Damaged(d)
  PROVE  Outcome(d, b)
BY DEF Damaged, Outcome

LEMMA Processed ==
  ASSUME process_incoming_pkt
  PROVE  LET d == Head(socket)
             direction == DirectionOf(d.from, src_addr')
         IN  /\ pc = "process" /\ readable /\ pc' \in {"select", "stopped"}
             /\ socket' = Tail(socket)
             /\ src_addr' = IF src_addr = NoHost /\ ~(d.len < MIN_PKT_LEN)
                            THEN d.from ELSE src_addr
             /\ UNCHANGED <<options, clock, last_clock, wake, readable, arrived,
                            delays, slack>>
             /\ \/ UNCHANGED <<pkt_queue, sent>>
                \/ /\ ~(d.len < MIN_PKT_LEN) /\ direction # "none"
                   /\ \E b : Outcome(d, b) /\ (SentNow(b, direction) \/ QueuedNow(b, direction))
<1> DEFINE d == Head(socket)
           direction == DirectionOf(d.from, src_addr')
           source == IF src_addr = NoHost THEN d.from ELSE src_addr
<1>1. /\ pc = "process" /\ readable /\ socket' = Tail(socket)
      /\ UNCHANGED <<options, clock, last_clock, wake, readable, arrived, delays, slack>>
  BY DEF process_incoming_pkt
<1>2. CASE d.len < MIN_PKT_LEN /\ Drop /\ UNCHANGED src_addr
  BY <1>1, <1>2 DEF Drop
<1>3. CASE ~(d.len < MIN_PKT_LEN) /\ src_addr' = source /\ Drop
  BY <1>1, <1>3 DEF Drop
<1>4. Outcome(d, d)
  BY DEF Outcome
<1>5. CASE /\ ~(d.len < MIN_PKT_LEN) /\ src_addr' = source
           /\ direction # "none" /\ WriteOut(d, direction)
  <2>1. pc' \in {"select", "stopped"}
        /\ (UNCHANGED <<pkt_queue, sent>> \/ SentNow(d, direction))
    BY <1>5 DEF WriteOut, SentNow
  <2> QED
    BY <1>1, <1>4, <1>5, <2>1
<1>6. CASE /\ ~(d.len < MIN_PKT_LEN) /\ src_addr' = source
           /\ direction # "none" /\ simulate_link(d, direction)
  <2>1. CASE pc' = "select" /\ UNCHANGED <<pkt_queue, sent>>
    BY <1>1, <1>6, <2>1
  <2>2. CASE \E b \in Damaged(d) : Enqueue(b, direction) \/ WriteOut(b, direction)
    <3>1. PICK b \in Damaged(d) : Enqueue(b, direction) \/ WriteOut(b, direction)
      BY <2>2
    <3>2. pc' \in {"select", "stopped"}
          /\ (UNCHANGED <<pkt_queue, sent>> \/ SentNow(b, direction) \/ QueuedNow(b, direction))
      BY <3>1 DEF Enqueue, WriteOut, SentNow, QueuedNow
    <3>3. Outcome(d, b)
      BY DamagedOutcomes
    <3> QED
      BY <1>1, <1>6, <3>2, <3>3
  <2> QED
    BY <1>6, <2>1, <2>2 DEF simulate_link
<1> QED
  BY <1>2, <1>3, <1>5, <1>6 DEF process_incoming_pkt

-----------------------------------------------------------------------------
(* LinkInv holds initially, and every step keeps it. *)

LEMMA InitInv == Init => LinkInv
<1> SUFFICES ASSUME Init PROVE LinkInv
  OBVIOUS
<1>1. clock \in Nat /\ Second \in Nat
  BY SecondPositive DEF Init
<1>2. last_clock \in Clocks /\ Ticks(last_clock) = clock
  BY <1>1, TimevalTicks DEF Init
<1>3. TypeOK
  <2>1. last_clock \in [sec : Nat, usec : 0..(Second - 1)]
    BY <1>2 DEF Clocks
  <2>2. socket \in Seq(Bufs)
    BY DEF Init
  <2> QED
    BY <1>1, <2>1, <2>2 DEF Init, TypeOK
<1>4. IdInv
  BY LinkSimAssumption DEF Init, IdInv
<1>5. DateInv
  BY <1>1, <1>2 DEF Init, DateInv, InTime
<1>6. ConstantDelayInv
  BY DEF Init, ConstantDelayInv
<1> QED
  BY <1>3, <1>4, <1>5, <1>6 DEF LinkInv

\* What TypeOK says of the queue, in the names used here.
LEMMA QueueType ==
  ASSUME TypeOK
  PROVE  pkt_queue \subseteq Slots /\ sent \subseteq Passed /\ last_clock \in Clocks
BY DEF TypeOK, Slots, Passed, Dates, Clocks

LEMMA SeqGrows ==
  ASSUME NEW S, NEW T, S \subseteq T, NEW s \in Seq(S)
  PROVE  s \in Seq(T)
OBVIOUS

\* What is kept of a datagram is one.
LEMMA OutcomeType ==
  ASSUME NEW d \in Bufs, NEW b, Outcome(d, b)
  PROVE  b \in Bufs /\ b.id = d.id
<1>1. CASE b = d
  BY <1>1
<1>2. CASE b = [d EXCEPT !.flipped = TRUE]
  BY <1>2 DEF Bufs
<1>3. CASE b = [d EXCEPT !.len = MIN_PKT_LEN, !.tr = TRUE]
  BY <1>3, LinkSimAssumption DEF Bufs
<1> QED
  BY <1>1, <1>2, <1>3 DEF Outcome

LEMMA HeadType ==
  ASSUME TypeOK, IdInv, process_incoming_pkt
  PROVE  /\ socket # <<>> /\ Head(socket) = socket[1] /\ 1 \in DOMAIN socket
         /\ Head(socket) \in Bufs /\ Tail(socket) \in Seq(Bufs)
<1>1. socket \in Seq(Bufs)
  BY DEF TypeOK
<1>2. pc = "process" /\ readable
  BY DEF process_incoming_pkt
<1>3. socket # <<>>
  BY <1>2 DEF IdInv
<1> QED
  BY <1>1, <1>3

\* The types of the two sets after a step that leaves the number of arrivals.
LEMMA QueueStep ==
  ASSUME TypeOK, NEW b \in Bufs, NEW direction \in {"forward", "reverse"},
         arrived' = arrived, SentNow(b, direction) \/ QueuedNow(b, direction)
  PROVE  pkt_queue' \subseteq Slots' /\ sent' \subseteq Passed'
<1>1. Slots' = Slots /\ Passed' = Passed
  BY DEF Slots, Passed, Bufs
<1>2. pkt_queue \subseteq Slots /\ sent \subseteq Passed /\ last_clock \in Clocks
  BY QueueType
<1>3. CASE SentNow(b, direction)
  BY <1>1, <1>2, <1>3 DEF SentNow, Passed
<1>4. CASE QueuedNow(b, direction)
  <2>1. options \in Options
    BY DEF TypeOK
  <2>2. PICK x \in AppliedDelays(options.delay, options.jitter) :
          pkt_queue' = pkt_queue \cup
            {[ts |-> ExpirationDate(x), direction |-> direction, buf |-> b]}
    BY <1>4 DEF QueuedNow
  <2>3. ExpirationDate(x) \in Dates
    BY <1>2, <2>1, DelayType, ExpirationTicks
  <2>4. [ts |-> ExpirationDate(x), direction |-> direction, buf |-> b] \in Slots
    BY <2>3 DEF Slots
  <2>5. sent' = sent
    BY <1>4 DEF QueuedNow
  <2> QED
    BY <1>1, <1>2, <2>2, <2>4, <2>5
<1> QED
  BY <1>3, <1>4

LEMMA DirectionType ==
  ASSUME NEW host, NEW source, DirectionOf(host, source) # "none"
  PROVE  DirectionOf(host, source) \in {"forward", "reverse"}
BY DEF DirectionOf

\* The types of the two sets, written as TypeOK has them.
LEMMA QueueTypeNext ==
  ASSUME pkt_queue' \subseteq Slots', sent' \subseteq Passed'
  PROVE  /\ pkt_queue' \subseteq [ts : [sec : Nat, usec : 0..(2 * Second - 2)],
                                  direction : {"forward", "reverse"}, buf : Bufs']
         /\ sent' \subseteq [direction : {"forward", "reverse"}, buf : Bufs']
BY DEF Slots, Passed, Dates

\* Steps that neither take nor queue anything.
LEMMA TypeKept ==
  ASSUME TypeOK, UNCHANGED <<options, socket, arrived, src_addr>>,
         pkt_queue' \subseteq pkt_queue, sent' \subseteq Passed,
         clock' \in Nat, last_clock' \in Clocks, wake' \in Nat \cup {Never},
         readable' \in BOOLEAN, delays' \in Nat, slack' \in Nat,
         pc' \in {"select", "waiting", "deliver", "process", "stopped"}
  PROVE  TypeOK'
<1>1. Bufs' = Bufs
  BY DEF Bufs
<1>2. pkt_queue' \subseteq Slots' /\ sent' \subseteq Passed'
  BY <1>1, QueueType DEF Slots, Passed
<1> QED
  BY <1>1, <1>2, QueueTypeNext DEF TypeOK, Clocks

LEMMA TypeStep ==
  ASSUME TypeOK, IdInv, DateInv, [Next]_vars
  PROVE  TypeOK'
<1>0. /\ options \in Options /\ clock \in Nat /\ last_clock \in Clocks
      /\ wake \in Nat \cup {Never} /\ readable \in BOOLEAN /\ delays \in Nat /\ slack \in Nat
      /\ pc \in {"select", "waiting", "deliver", "process", "stopped"}
      /\ sent \subseteq Passed /\ pkt_queue \subseteq Slots
  BY QueueType DEF TypeOK
<1>1. CASE Arrive
  <2>1. arrived \in Nat /\ arrived' = arrived + 1 /\ socket \in Seq(Bufs)
    BY <1>1 DEF Arrive, TypeOK
  <2>2. Bufs \subseteq Bufs'
    BY <2>1 DEF Bufs
  <2>3. PICK from \in Hosts, len \in Lengths :
          socket' = Append(socket, [id |-> arrived, from |-> from, len |-> len,
                                    tr |-> FALSE, flipped |-> FALSE])
    BY <1>1 DEF Arrive
  <2>4. [id |-> arrived, from |-> from, len |-> len, tr |-> FALSE, flipped |-> FALSE] \in Bufs'
    BY <2>1, LinkSimAssumption DEF Bufs
  <2>5. socket \in Seq(Bufs')
    BY <2>1, <2>2, SeqGrows
  <2>6. socket' \in Seq(Bufs')
    BY <2>3, <2>4, <2>5
  <2>7. pkt_queue' \subseteq Slots' /\ sent' \subseteq Passed'
    BY <1>0, <1>1, <2>2 DEF Arrive, Slots, Passed
  <2>8. /\ UNCHANGED <<options, clock, last_clock, wake, pc, readable, src_addr, delays, slack>>
        /\ arrived' \in Nat
    BY <1>1, <2>1 DEF Arrive, loopVars
  <2> QED
    BY <2>6, <2>7, <2>8, QueueTypeNext DEF TypeOK
<1>2. CASE Tick
  BY <1>0, <1>2, TypeKept DEF Tick, loopVars, netVars
<1>3. CASE Select
  <2>1. wake' \in Nat \cup {Never}
    <3>1. CASE wake' = Never
      BY <3>1
    <3>2. CASE \E p \in First(pkt_queue) : wake' = clock + get_queue_timeout(p.ts)
      <4>1. PICK p \in pkt_queue : wake' = clock + get_queue_timeout(p.ts)
        BY <3>2 DEF First
      <4>2. p.ts \in Dates
        BY <1>0 DEF Slots
      <4> QED
        BY <1>0, <4>1, <4>2, TimeoutLength
    <3> QED
      BY <1>3, <3>1, <3>2 DEF Select
  <2> QED
    BY <1>0, <1>3, <2>1, TypeKept DEF Select, netVars
<1>4. CASE Interrupted
  <2>1. slack' \in Nat /\ delays' \in Nat
    <3>1. Ticks(last_clock) \in Nat /\ Ticks(last_clock) <= clock
      BY <1>0, ClocksAreDates, TicksType DEF DateInv
    <3> QED
      BY <1>0, <1>4, <3>1 DEF Interrupted
  <2> QED
    BY <1>0, <1>4, <2>1, TypeKept DEF Interrupted, netVars
<1>5. CASE Return
  BY <1>0, <1>5, TypeKept, TimevalTicks DEF Return, netVars
<1>6. CASE DeliverOne
  <2>1. PICK p \in pkt_queue :
          /\ pkt_queue' = pkt_queue \ {p}
          /\ sent' = sent \cup {[buf |-> p.buf, direction |-> p.direction]}
    BY <1>6 DEF DeliverOne, First
  <2>2. [buf |-> p.buf, direction |-> p.direction] \in Passed
    BY <1>0 DEF Slots, Passed
  <2> QED
    BY <1>0, <1>6, <2>1, <2>2, TypeKept DEF DeliverOne, loopVars, netVars
<1>7. CASE DeliverLater \/ DeliverFails \/ DeliverEnds
  BY <1>0, <1>7, TypeKept DEF DeliverLater, DeliverFails, DeliverEnds, netVars
<1>8. CASE process_incoming_pkt
  <2>1. /\ UNCHANGED <<options, clock, last_clock, wake, readable, arrived, delays, slack>>
        /\ pc' \in {"select", "stopped"} /\ socket' = Tail(socket)
    BY <1>8, Processed
  <2>2. Bufs' = Bufs /\ Slots' = Slots /\ Passed' = Passed
    BY <2>1 DEF Bufs, Slots, Passed
  <2>3. Head(socket) \in Bufs /\ socket' \in Seq(Bufs)
    BY <1>8, <2>1, HeadType
  <2>4. pkt_queue' \subseteq Slots' /\ sent' \subseteq Passed'
    <3>1. CASE UNCHANGED <<pkt_queue, sent>>
      BY <1>0, <2>2, <3>1
    <3>2. CASE ~ UNCHANGED <<pkt_queue, sent>>
      <4> DEFINE direction == DirectionOf(Head(socket).from, src_addr')
      <4>1. PICK b : /\ Outcome(Head(socket), b)
                     /\ SentNow(b, direction) \/ QueuedNow(b, direction)
        BY <1>8, <3>2, Processed
      <4>2. direction # "none"
        BY <1>8, <3>2, Processed
      <4>3. b \in Bufs /\ direction \in {"forward", "reverse"}
        BY <2>3, <4>1, <4>2, OutcomeType, DirectionType
      <4> HIDE DEF direction
      <4> QED
        BY <2>1, <4>1, <4>3, QueueStep
    <3> QED
      BY <3>1, <3>2
  <2>5. src_addr' \in Hosts \cup {NoHost}
    <3>1. Head(socket).from \in Hosts /\ src_addr \in Hosts \cup {NoHost}
      BY <2>3 DEF Bufs, TypeOK
    <3> QED
      BY <1>8, <3>1, Processed
  <2> QED
    BY <2>1, <2>2, <2>3, <2>4, <2>5, QueueTypeNext DEF TypeOK
<1>9. CASE NothingToRead
  BY <1>0, <1>9, TypeKept DEF NothingToRead, netVars
<1>10. CASE UNCHANGED vars
  BY <1>0, <1>10, TypeKept DEF vars, loopVars, netVars
<1> QED
  BY <1>1, <1>2, <1>3, <1>4, <1>5, <1>6, <1>7, <1>8, <1>9, <1>10 DEF Next, LoopStep

-----------------------------------------------------------------------------
(* No datagram is at two places. *)

\* Steps that take no datagram and queue none.
LEMMA IdKept ==
  ASSUME IdInv, UNCHANGED <<socket, arrived>>, pkt_queue' \subseteq pkt_queue,
         pc' \in {"deliver", "process"} /\ readable' => socket # <<>>
  PROVE  IdInv'
BY DEF IdInv

LEMMA IdArrive ==
  ASSUME TypeOK, IdInv, Arrive
  PROVE  IdInv'
<1>1. /\ arrived \in Nat /\ arrived < MaxDatagrams /\ arrived' = arrived + 1
      /\ MaxDatagrams \in Nat /\ socket \in Seq(Bufs)
      /\ UNCHANGED <<pc, readable, pkt_queue>>
  BY LinkSimAssumption DEF Arrive, TypeOK, loopVars
<1>2. PICK from \in Hosts, len \in Lengths :
        socket' = Append(socket, [id |-> arrived, from |-> from, len |-> len,
                                  tr |-> FALSE, flipped |-> FALSE])
  BY DEF Arrive
<1> DEFINE new == [id |-> arrived, from |-> from, len |-> len, tr |-> FALSE, flipped |-> FALSE]
           n == Len(socket) + 1
<1>3. /\ Len(socket) \in Nat /\ DOMAIN socket = 1..Len(socket) /\ DOMAIN socket' = 1..n
      /\ socket'[n] = new /\ \A i \in DOMAIN socket : socket'[i] = socket[i]
  BY <1>1, <1>2
<1>4. \A i \in DOMAIN socket : socket[i].id \in Nat /\ socket[i].id < arrived
  <2>1. \A i \in DOMAIN socket : socket[i] \in Bufs
    BY <1>1
  <2>2. \A b \in Bufs : b.id \in Nat /\ b.id < arrived
    BY <1>1 DEF Bufs
  <2> QED
    BY <2>1, <2>2
<1>5. \A p \in pkt_queue : p.buf.id \in Nat /\ p.buf.id < arrived
  BY <1>1, QueueType DEF Slots, Bufs
<1>6. new.id = arrived /\ new.len \in Lengths /\ ~new.tr /\ ~new.flipped
  OBVIOUS
<1> HIDE DEF new
<1>7. \A i \in DOMAIN socket' :
        /\ socket'[i].len \in Lengths /\ ~socket'[i].tr /\ ~socket'[i].flipped
        /\ \A j \in DOMAIN socket' : socket'[j].id = socket'[i].id => i = j
        /\ \A p \in pkt_queue' : p.buf.id # socket'[i].id
  <2> SUFFICES ASSUME NEW i \in DOMAIN socket'
               PROVE  /\ socket'[i].len \in Lengths /\ ~socket'[i].tr /\ ~socket'[i].flipped
                      /\ \A j \in DOMAIN socket' : socket'[j].id = socket'[i].id => i = j
                      /\ \A p \in pkt_queue' : p.buf.id # socket'[i].id
    OBVIOUS
  <2>1. CASE i = n
    <3>1. \A j \in DOMAIN socket' : j # n => socket'[j].id < arrived /\ socket'[j].id \in Nat
      BY <1>3, <1>4
    <3> QED
      BY <1>1, <1>3, <1>5, <1>6, <2>1, <3>1
  <2>2. CASE i # n
    <3>1. i \in DOMAIN socket /\ socket'[i] = socket[i]
      BY <1>3, <2>2
    <3>2. \A j \in DOMAIN socket' : socket'[j].id = socket'[i].id => j \in DOMAIN socket
      BY <1>1, <1>3, <1>4, <1>6, <3>1
    <3> QED
      BY <1>1, <1>3, <3>1, <3>2 DEF IdInv
  <2> QED
    BY <2>1, <2>2
<1>8. socket' # <<>> /\ arrived' <= MaxDatagrams
  BY <1>1, <1>3
<1> QED
  BY <1>1, <1>7, <1>8 DEF IdInv

LEMMA IdProcess ==
  ASSUME TypeOK, IdInv, process_incoming_pkt
  PROVE  IdInv'
<1> DEFINE d == Head(socket)
<1>1. /\ socket \in Seq(Bufs) /\ socket # <<>> /\ d = socket[1] /\ d \in Bufs
      /\ 1 \in DOMAIN socket
  BY HeadType DEF TypeOK
<1>0. socket' = Tail(socket) /\ arrived' = arrived /\ pc' \in {"select", "stopped"}
  BY Processed
<1>2. \A i \in DOMAIN socket' :
        i \in Nat /\ i >= 1 /\ i + 1 \in DOMAIN socket /\ socket'[i] = socket[i + 1]
  BY <1>0, <1>1
<1>3. \A i \in DOMAIN socket' : socket'[i].id # d.id
  <2> SUFFICES ASSUME NEW i \in DOMAIN socket' PROVE socket'[i].id # d.id
    OBVIOUS
  <2>1. i + 1 # 1
    BY <1>2
  <2> QED
    BY <1>1, <1>2, <2>1 DEF IdInv
<1>4. \A p \in pkt_queue : p.buf.id # d.id
  BY <1>1 DEF IdInv
<1>5. \/ pkt_queue' = pkt_queue
      \/ \E new : pkt_queue' = pkt_queue \cup {new} /\ new.buf.id = d.id
  <2>1. CASE ~ UNCHANGED <<pkt_queue, sent>>
    <3> DEFINE direction == DirectionOf(d.from, src_addr')
    <3>1. PICK b : Outcome(d, b) /\ (SentNow(b, direction) \/ QueuedNow(b, direction))
      BY <2>1, Processed
    <3>2. b.id = d.id
      BY <1>1, <3>1, OutcomeType
    <3> HIDE DEF direction
    <3>3. CASE SentNow(b, direction)
      BY <3>3 DEF SentNow
    <3>4. CASE QueuedNow(b, direction)
      <4>1. PICK x : pkt_queue' = pkt_queue \cup
                       {[ts |-> ExpirationDate(x), direction |-> direction, buf |-> b]}
        BY <3>4 DEF QueuedNow
      <4> QED
        BY <3>2, <4>1
    <3> QED
      BY <3>1, <3>3, <3>4
  <2> QED
    BY <2>1
<1>6. \A p, q \in pkt_queue' : p.buf.id = q.buf.id => p = q
  BY <1>4, <1>5 DEF IdInv
<1>7. \A i \in DOMAIN socket' : \A p \in pkt_queue' : p.buf.id # socket'[i].id
  BY <1>2, <1>3, <1>5 DEF IdInv
<1>8. \A i \in DOMAIN socket' :
        /\ socket'[i].len \in Lengths /\ ~socket'[i].tr /\ ~socket'[i].flipped
        /\ \A j \in DOMAIN socket' : socket'[j].id = socket'[i].id => i = j
  <2> SUFFICES ASSUME NEW i \in DOMAIN socket', NEW j \in DOMAIN socket'
               PROVE  /\ socket'[i].len \in Lengths /\ ~socket'[i].tr /\ ~socket'[i].flipped
                      /\ socket'[j].id = socket'[i].id => i = j
    OBVIOUS
  <2>1. socket'[j].id = socket'[i].id => i + 1 = j + 1
    BY <1>2 DEF IdInv
  <2>2. socket'[i].len \in Lengths /\ ~socket'[i].tr /\ ~socket'[i].flipped
    BY <1>2 DEF IdInv
  <2> QED
    BY <1>2, <2>1, <2>2
<1> QED
  BY <1>0, <1>6, <1>7, <1>8 DEF IdInv

LEMMA IdStep ==
  ASSUME TypeOK, IdInv, [Next]_vars
  PROVE  IdInv'
<1>1. CASE Arrive
  BY <1>1, IdArrive
<1>2. CASE Tick \/ UNCHANGED vars
  BY <1>2, IdKept DEF Tick, vars, loopVars, netVars, IdInv
<1>3. CASE Select \/ Interrupted
  BY <1>3, IdKept DEF Select, Interrupted, netVars
<1>4. CASE Return
  BY <1>4, IdKept DEF Return, netVars
<1>5. CASE DeliverOne
  BY <1>5, IdKept DEF DeliverOne, loopVars, netVars, IdInv
<1>6. CASE DeliverLater \/ DeliverFails \/ DeliverEnds
  BY <1>6, IdKept DEF DeliverLater, DeliverFails, DeliverEnds, netVars, IdInv
<1>7. CASE process_incoming_pkt
  BY <1>7, IdProcess
<1>8. CASE NothingToRead
  BY <1>8, IdKept DEF NothingToRead, netVars
<1> QED
  BY <1>1, <1>2, <1>3, <1>4, <1>5, <1>6, <1>7, <1>8 DEF Next, LoopStep

-----------------------------------------------------------------------------
(* Without jitter every slot is due the same delay after it was queued. *)

LEMMA ConstantDelayStep ==
  ASSUME TypeOK, ConstantDelayInv, [Next]_vars
  PROVE  ConstantDelayInv'
<1>1. CASE pkt_queue' \subseteq pkt_queue /\ options' = options
  BY <1>1 DEF ConstantDelayInv
<1>2. CASE process_incoming_pkt /\ ~ (pkt_queue' \subseteq pkt_queue)
  <2> DEFINE direction == DirectionOf(Head(socket).from, src_addr')
  <2>1. options' = options /\ options \in Options /\ last_clock \in Clocks
    BY <1>2, Processed, QueueType DEF TypeOK
  <2>2. PICK b : QueuedNow(b, direction)
    BY <1>2, Processed DEF SentNow
  <2> HIDE DEF direction
  <2>3. PICK x \in AppliedDelays(options.delay, options.jitter) :
          pkt_queue' = pkt_queue \cup
            {[ts |-> ExpirationDate(x), direction |-> direction, buf |-> b]}
    BY <2>2 DEF QueuedNow
  <2>4. x \in Nat /\ (options.jitter = 0 => x = options.delay % DelayModulus)
    BY <2>1, DelayType
  <2>5. ExpirationDate(x).usec = last_clock.usec + (x % Second)
        /\ last_clock.usec \in 0..(Second - 1)
    BY <2>1, <2>4, ExpirationTicks DEF Clocks
  <2>6. options.jitter = 0 =>
          \E usec \in 0..(Second - 1) :
            ExpirationDate(x).usec = usec + ((options.delay % DelayModulus) % Second)
    BY <2>4, <2>5
  <2> QED
    BY <2>1, <2>3, <2>6 DEF ConstantDelayInv
<1>3. process_incoming_pkt \/ (pkt_queue' \subseteq pkt_queue /\ options' = options)
  BY DEF Next, LoopStep, vars, Arrive, Tick, Select, Interrupted, Return, DeliverOne,
         DeliverLater, DeliverFails, DeliverEnds, NothingToRead
<1>4. process_incoming_pkt => options' = options
  BY Processed
<1> QED
  BY <1>1, <1>2, <1>3, <1>4

-----------------------------------------------------------------------------
(* Time. *)

\* Every set of naturals that is not empty has a least member.
LEMMA LeastNatural ==
  ASSUME NEW S, S \subseteq Nat, S # {}
  PROVE  \E m \in S : \A n \in S : m <= n
<1>1. PICK m \in S : \A n \in S : ~(<<n, m>> \in OpToRel(<, Nat))
  BY NatLessThanWellFounded, WFMin
<1>2. \A n \in S : ~(n < m)
  BY <1>1 DEF OpToRel
<1> QED
  BY <1>2

\* minq_peek has a slot to return when the queue is not empty.
LEMMA FirstExists ==
  ASSUME pkt_queue \subseteq Slots, pkt_queue # {}
  PROVE  \E p \in First(pkt_queue) : TRUE
<1> DEFINE secs == {p.ts.sec : p \in pkt_queue}
<1>1. \A p \in pkt_queue : p.ts \in Dates /\ p.ts.sec \in Nat /\ p.ts.usec \in Nat
  BY SecondPositive DEF Slots, Dates
<1>2. PICK sec \in secs : \A n \in secs : sec <= n
  <2>1. secs \subseteq Nat /\ secs # {}
    BY <1>1
  <2> HIDE DEF secs
  <2> QED
    BY <2>1, LeastNatural
<1> DEFINE firsts == {p \in pkt_queue : p.ts.sec = sec}
           usecs == {p.ts.usec : p \in firsts}
<1>3. PICK usec \in usecs : \A n \in usecs : usec <= n
  <2>1. usecs \subseteq Nat /\ usecs # {}
    BY <1>1
  <2> HIDE DEF usecs
  <2> QED
    BY <2>1, LeastNatural
<1>4. PICK p \in pkt_queue : p.ts.sec = sec /\ p.ts.usec = usec
  OBVIOUS
<1>5. \A q \in pkt_queue : ~timeval_cmp(p.ts, q.ts)
  <2> SUFFICES ASSUME NEW q \in pkt_queue PROVE ~timeval_cmp(p.ts, q.ts)
    OBVIOUS
  <2>1. p.ts.sec <= q.ts.sec
    BY <1>2, <1>4
  <2>2. q.ts.sec = p.ts.sec => p.ts.usec <= q.ts.usec
    BY <1>3, <1>4
  <2> QED
    BY <1>1, <2>1, <2>2 DEF timeval_cmp
<1> QED
  BY <1>5 DEF First

\* Once the first slot has not expired no slot lies in the past.
LEMMA NothingOverdue ==
  ASSUME pkt_queue \subseteq Slots, last_clock \in Clocks,
         \A p \in First(pkt_queue) : ~Expired(p), NEW q \in pkt_queue
  PROVE  Ticks(last_clock) <= Ticks(q.ts)
<1>1. PICK p \in First(pkt_queue) : ~timeval_cmp(last_clock, p.ts)
  BY FirstExists DEF Expired
<1>2. p \in pkt_queue /\ ~timeval_cmp(p.ts, q.ts)
  BY <1>1 DEF First
<1>3. p.ts \in Dates /\ q.ts \in Dates /\ last_clock \in Dates
  BY <1>2, ClocksAreDates DEF Slots
<1>4. ~timeval_cmp(last_clock, q.ts)
  BY <1>1, <1>2, <1>3, SecondPositive DEF timeval_cmp, Dates
<1>5. last_clock.usec < q.ts.usec + Second
  BY <1>3, SecondPositive DEF Dates, Clocks
<1> QED
  BY <1>3, <1>4, <1>5, NotLaterNear

\* A wait that starts from a slack behind the clock ends in time.
LEMMA WaitInTime ==
  ASSUME pkt_queue \subseteq Slots, last_clock \in Clocks, clock \in Nat, slack \in Nat,
         Ticks(last_clock) <= clock, clock - Ticks(last_clock) <= slack,
         InTime(clock + 1), NEW p \in First(pkt_queue)
  PROVE  LET t == clock + get_queue_timeout(p.ts) IN clock <= t /\ InTime(t)
<1> DEFINE t == get_queue_timeout(p.ts)
<1>1. p \in pkt_queue /\ p.ts \in Dates
  BY DEF First, Slots
<1>2. t \in Nat \ {0} /\ (t = 1 \/ t = Ticks(p.ts) - Ticks(last_clock))
  BY <1>1, TimeoutLength
<1>3. Ticks(last_clock) \in Nat /\ Ticks(p.ts) \in Nat /\ Second \in Nat
  BY <1>1, ClocksAreDates, TicksType, SecondPositive
<1> HIDE DEF t
<1>4. ASSUME NEW q \in pkt_queue PROVE clock + t < Ticks(q.ts) + Second + slack
  <2>1. q.ts \in Dates /\ ~timeval_cmp(p.ts, q.ts)
    BY DEF First, Slots
  <2>2. Ticks(q.ts) \in Nat /\ Ticks(p.ts) < Ticks(q.ts) + Second
    BY <1>1, <2>1, NotLater, TicksType
  <2>3. CASE t = 1
    BY <2>3 DEF InTime
  <2>4. CASE t = Ticks(p.ts) - Ticks(last_clock)
    BY <1>3, <2>2, <2>4
  <2> QED
    BY <1>2, <2>3, <2>4
<1>5. clock <= clock + t
  BY <1>2
<1> QED
  BY <1>4, <1>5 DEF InTime, t

LEMMA DateStep ==
  ASSUME TypeOK, DateInv, [Next]_vars
  PROVE  DateInv'
<1> DEFINE L == Ticks(last_clock)
<1>1. /\ clock \in Nat /\ slack \in Nat /\ last_clock \in Clocks /\ pkt_queue \subseteq Slots
      /\ Second \in Nat /\ Second >= 2
      /\ L \in Nat /\ L <= clock
  BY QueueType, SecondPositive, ClocksAreDates, TicksType DEF TypeOK, DateInv
<1>2. \A p \in pkt_queue : Ticks(p.ts) \in Nat
  BY <1>1, TicksType DEF Slots
<1>3. CASE Arrive \/ UNCHANGED vars
  BY <1>3 DEF Arrive, vars, loopVars, DateInv, InTime
<1>4. CASE Tick
  <2>1. /\ pc = "waiting" /\ pc' = pc /\ clock' = clock + 1 /\ clock # wake
        /\ UNCHANGED <<last_clock, wake, pkt_queue, slack>>
    BY <1>4 DEF Tick, loopVars
  <2>2. pkt_queue # {} => clock <= wake /\ InTime(wake)
    BY <2>1 DEF DateInv
  <2>3. wake \in Int
    BY DEF TypeOK, Never
  <2> QED
    BY <1>1, <2>1, <2>2, <2>3 DEF DateInv, InTime
<1>5. CASE Select
  <2>1. /\ pc = "select" /\ pc' = "waiting"
        /\ UNCHANGED <<clock, last_clock, pkt_queue, slack>>
    BY <1>5 DEF Select
  <2>2. InTime(clock + 1) /\ clock - L <= slack
    BY <2>1 DEF DateInv
  <2>3. pkt_queue # {} => clock <= wake' /\ InTime(wake')
    <3>1. SUFFICES ASSUME pkt_queue # {} PROVE clock <= wake' /\ InTime(wake')
      OBVIOUS
    <3>2. PICK p \in First(pkt_queue) : wake' = clock + get_queue_timeout(p.ts)
      BY <1>5, <3>1 DEF Select
    <3> QED
      BY <1>1, <2>2, <3>2, WaitInTime
  <2> QED
    BY <1>1, <2>1, <2>2, <2>3 DEF DateInv, InTime
<1>6. CASE Interrupted
  <2>1. /\ pc = "waiting" /\ pc' = "select" /\ slack' = slack + clock - L
        /\ UNCHANGED <<clock, last_clock, pkt_queue>>
    BY <1>6 DEF Interrupted
  <2>2. ASSUME NEW p \in pkt_queue PROVE clock + 1 < Ticks(p.ts) + Second + slack'
    <3>1. CASE clock = L
      BY <1>1, <1>2, <2>1, <3>1 DEF DateInv, InTime
    <3>2. CASE clock > L
      <4>1. clock <= wake /\ wake < Ticks(p.ts) + Second + slack /\ wake \in Int
        BY <2>1 DEF DateInv, InTime, TypeOK, Never
      <4> QED
        BY <1>1, <1>2, <2>1, <3>2, <4>1
    <3> QED
      BY <1>1, <3>1, <3>2
  <2> QED
    BY <1>1, <2>1, <2>2 DEF DateInv, InTime
<1>7. CASE Return
  <2>1. /\ pc = "waiting" /\ pc' = "deliver" /\ last_clock' = timeval(clock)
        /\ UNCHANGED <<clock, pkt_queue, slack>>
    BY <1>7 DEF Return
  <2>2. Ticks(last_clock') = clock
    BY <1>1, <2>1, TimevalTicks
  <2>3. ASSUME NEW p \in pkt_queue PROVE clock < Ticks(p.ts) + Second + slack
    <3>1. clock <= wake /\ wake < Ticks(p.ts) + Second + slack /\ wake \in Int
      BY <2>1 DEF DateInv, InTime, TypeOK, Never
    <3> QED
      BY <1>1, <1>2, <3>1
  <2> QED
    BY <1>1, <2>1, <2>2, <2>3 DEF DateInv, InTime
<1>8. CASE DeliverOne
  <2>1. /\ pc = "deliver" /\ pkt_queue' \subseteq pkt_queue
        /\ UNCHANGED <<clock, last_clock, wake, pc, slack>>
    BY <1>8 DEF DeliverOne, loopVars
  <2> QED
    BY <2>1 DEF DateInv, InTime
<1>9. CASE DeliverLater
  <2>1. /\ pc = "deliver" /\ pc' = "process" /\ slack' = slack + 1
        /\ UNCHANGED <<clock, last_clock, pkt_queue>>
    BY <1>9 DEF DeliverLater
  <2>2. clock = L /\ InTime(clock)
    BY <2>1 DEF DateInv
  <2> QED
    BY <1>1, <1>2, <2>1, <2>2 DEF DateInv, InTime
<1>10. CASE DeliverFails
  BY <1>1, <1>10 DEF DeliverFails, DateInv
<1>11. CASE DeliverEnds
  <2>1. /\ pc = "deliver" /\ pc' = "process"
        /\ UNCHANGED <<clock, last_clock, pkt_queue, slack>>
    BY <1>11 DEF DeliverEnds
  <2>2. clock = L
    BY <2>1 DEF DateInv
  <2>3. ASSUME NEW q \in pkt_queue PROVE L <= Ticks(q.ts)
    BY <1>1, <1>11, NothingOverdue DEF DeliverEnds
  <2> QED
    BY <1>1, <1>2, <2>1, <2>2, <2>3 DEF DateInv, InTime
<1>12. CASE process_incoming_pkt
  <2>1. /\ pc = "process" /\ pc' \in {"select", "stopped"}
        /\ UNCHANGED <<options, clock, last_clock, slack>>
    BY <1>12, Processed
  <2>2. clock = L /\ InTime(clock + 1)
    BY <2>1 DEF DateInv
  <2>3. ASSUME NEW q \in pkt_queue' PROVE clock + 1 < Ticks(q.ts) + Second + slack
    <3>1. CASE q \in pkt_queue
      BY <2>2, <3>1 DEF InTime
    <3>2. CASE q \notin pkt_queue
      <4> DEFINE direction == DirectionOf(Head(socket).from, src_addr')
      <4>1. PICK b : QueuedNow(b, direction)
        BY <1>12, <3>2, Processed DEF SentNow
      <4> HIDE DEF direction
      <4>2. PICK x \in AppliedDelays(options.delay, options.jitter) :
              q.ts = ExpirationDate(x)
        BY <3>2, <4>1 DEF QueuedNow
      <4>3. options \in Options
        BY DEF TypeOK
      <4>4. x \in Nat /\ Ticks(q.ts) = L + x
        BY <1>1, <4>2, <4>3, DelayType, ExpirationTicks
      <4> QED
        BY <1>1, <2>2, <4>4
    <3> QED
      BY <3>1, <3>2
  <2> QED
    BY <1>1, <2>1, <2>2, <2>3 DEF DateInv, InTime
<1>13. CASE NothingToRead
  <2>1. /\ pc = "process" /\ pc' = "select"
        /\ UNCHANGED <<clock, last_clock, pkt_queue, slack>>
    BY <1>13 DEF NothingToRead
  <2> QED
    BY <1>1, <2>1 DEF DateInv, InTime
<1> QED
  BY <1>3, <1>4, <1>5, <1>6, <1>7, <1>8, <1>9, <1>10, <1>11, <1>12, <1>13
     DEF Next, LoopStep

-----------------------------------------------------------------------------
\* LinkInv is an invariant of link_sim: its types, the identity of datagrams,
\* the dates of what is delayed and the end of the wait for them.
THEOREM LinkInvariant == Spec => []LinkInv
<1>1. LinkInv /\ [Next]_vars => LinkInv'
  BY TypeStep, IdStep, DateStep, ConstantDelayStep DEF LinkInv
<1> QED
  BY InitInv, <1>1, PTL DEF Spec

\* link_sim.c:54-93, the types of its state: in particular the fraction of a
\* date may exceed a second, and never two.
THEOREM LinkTypes == Spec => []TypeOK
<1>1. LinkInv => TypeOK
  BY DEF LinkInv
<1> QED
  BY <1>1, LinkInvariant, PTL

-----------------------------------------------------------------------------
(* What leaves the queue, and when. *)

\* Only DeliverOne takes a slot off the queue, the first one, once expired.
LEMMA OnlyExpiredLeave ==
  ASSUME LinkInv, [Next]_vars, NEW p \in pkt_queue \ pkt_queue'
  PROVE  /\ DeliverOne /\ pkt_queue' \subseteq pkt_queue /\ p \in First(pkt_queue)
         /\ timeval_cmp(last_clock, p.ts) /\ clock = Ticks(last_clock) /\ InTime(clock)
<1>1. CASE DeliverOne
  <2>1. PICK r \in First(pkt_queue) : Expired(r) /\ pkt_queue' = pkt_queue \ {r}
    BY <1>1 DEF DeliverOne
  <2>2. r = p
    BY <2>1
  <2>3. pc = "deliver"
    BY <1>1 DEF DeliverOne
  <2> QED
    BY <1>1, <2>1, <2>2, <2>3 DEF Expired, LinkInv, DateInv
<1>2. CASE process_incoming_pkt
  <2>1. UNCHANGED pkt_queue
        \/ \E b, direction : SentNow(b, direction) \/ QueuedNow(b, direction)
    BY <1>2, Processed
  <2>2. pkt_queue \subseteq pkt_queue'
    BY <2>1 DEF SentNow, QueuedNow
  <2> QED
    BY <2>2
<1>3. CASE UNCHANGED pkt_queue
  BY <1>3
<1> QED
  BY <1>1, <1>2, <1>3
     DEF Next, LoopStep, vars, Arrive, Tick, Select, Interrupted, Return,
         DeliverLater, DeliverFails, DeliverEnds, NothingToRead

\* A delayed datagram leaves less than a second before or after its date, but
\* for the time that interrupted waits and refused writes cost.
THEOREM NearDue == Spec => DeliveredNearDue
<1> DEFINE Near == \A p \in pkt_queue \ pkt_queue' :
                     /\ clock > Ticks(p.ts) - Second
                     /\ clock < Ticks(p.ts) + Second + slack
<1>1. LinkInv /\ [Next]_vars => [Near]_vars
  <2> SUFFICES ASSUME LinkInv, [Next]_vars, NEW p \in pkt_queue \ pkt_queue'
               PROVE  /\ clock > Ticks(p.ts) - Second
                      /\ clock < Ticks(p.ts) + Second + slack
    OBVIOUS
  <2>1. /\ last_clock \in Clocks /\ p.ts \in Dates
    BY QueueType DEF LinkInv, Slots
  <2>2. timeval_cmp(last_clock, p.ts) /\ clock = Ticks(last_clock) /\ InTime(clock)
    BY OnlyExpiredLeave
  <2>3. Ticks(p.ts) < clock + Second /\ Ticks(p.ts) \in Nat /\ clock \in Nat /\ Second \in Nat
    BY <2>1, <2>2, LaterThan, TicksType, ClocksAreDates, SecondPositive
  <2>4. clock > Ticks(p.ts) - Second
    BY <2>3
  <2>5. clock < Ticks(p.ts) + Second + slack
    BY <2>2 DEF InTime
  <2> QED
    BY <2>4, <2>5
<1> QED
  BY <1>1, LinkInvariant, PTL DEF Spec, DeliveredNearDue

\* Without jitter datagrams leave in the order of their dates, although
\* timeval_cmp compares dates whose fraction was never carried.
THEOREM ConstantDelayInOrder == Spec => ConstantDelayKeepsOrder
<1> DEFINE Ordered == options.jitter = 0 =>
                        \A p \in pkt_queue \ pkt_queue', q \in pkt_queue' :
                          Ticks(q.ts) >= Ticks(p.ts)
<1>1. LinkInv /\ [Next]_vars => [Ordered]_vars
  <2> SUFFICES ASSUME LinkInv, [Next]_vars, options.jitter = 0,
                      NEW p \in pkt_queue \ pkt_queue', NEW q \in pkt_queue'
               PROVE  Ticks(q.ts) >= Ticks(p.ts)
    OBVIOUS
  <2>1. q \in pkt_queue /\ ~timeval_cmp(p.ts, q.ts)
    BY OnlyExpiredLeave DEF First
  <2>2. p.ts \in Dates /\ q.ts \in Dates
    BY <2>1, QueueType DEF LinkInv, Slots
  <2> DEFINE shift == (options.delay % DelayModulus) % Second
  <2>3. PICK a \in 0..(Second - 1) : p.ts.usec = a + shift
    BY DEF LinkInv, ConstantDelayInv
  <2>4. PICK b \in 0..(Second - 1) : q.ts.usec = b + shift
    BY <2>1 DEF LinkInv, ConstantDelayInv
  <2>5. shift \in Nat
    <3>1. options.delay \in Nat /\ DelayModulus \in Nat \ {0}
      BY OptionsType, LinkSimAssumption DEF LinkInv, TypeOK
    <3> DEFINE x == options.delay % DelayModulus
    <3>2. x \in Int
      BY <3>1
    <3> HIDE DEF x
    <3>3. x % Second \in 0..(Second - 1)
      BY <3>2, SecondPositive, DivMod
    <3> QED
      BY <3>3, SecondPositive DEF x
  <2> HIDE DEF shift
  <2>6. p.ts.usec < q.ts.usec + Second
    BY <2>3, <2>4, <2>5, SecondPositive
  <2>7. Ticks(p.ts) <= Ticks(q.ts) /\ Ticks(p.ts) \in Nat /\ Ticks(q.ts) \in Nat
    BY <2>1, <2>2, <2>6, NotLaterNear, TicksType
  <2> QED
    BY <2>7
<1> QED
  BY <1>1, LinkInvariant, PTL DEF Spec, ConstantDelayKeepsOrder

-----------------------------------------------------------------------------
(* link_sim implements a relay. *)

Received == {n \in 0..(arrived - 1) : \A j \in DOMAIN socket : socket[j].id # n}
Transit  == {[buf |-> p.buf, direction |-> p.direction] : p \in pkt_queue}

LEMMA InitRelay == Init => TheRelay!RelayInit
<1> SUFFICES ASSUME Init PROVE TheRelay!RelayInit
  OBVIOUS
<1>1. {n \in 0..(arrived - 1) : \A j \in DOMAIN socket : socket[j].id # n} = {}
  BY DEF Init
<1>2. {[buf |-> p.buf, direction |-> p.direction] : p \in pkt_queue} = {}
  BY DEF Init
<1> QED
  BY <1>1, <1>2 DEF Init, TheRelay!RelayInit

\* A datagram that comes in is not taken yet.
LEMMA ArriveRelay ==
  ASSUME TypeOK, IdInv, Arrive
  PROVE  UNCHANGED <<src_addr, Received, Transit, sent>>
<1>1. arrived \in Nat /\ socket \in Seq(Bufs) /\ arrived' = arrived + 1
      /\ UNCHANGED <<src_addr, pkt_queue, sent>>
  BY DEF Arrive, TypeOK
<1>2. PICK new : socket' = Append(socket, new) /\ new.id = arrived
  BY DEF Arrive
<1>3. /\ Len(socket) \in Nat /\ DOMAIN socket = 1..Len(socket)
      /\ DOMAIN socket' = 1..(Len(socket) + 1)
      /\ socket'[Len(socket) + 1] = new /\ \A i \in DOMAIN socket : socket'[i] = socket[i]
  BY <1>1, <1>2
<1>4. Received' = Received
  <2>1. ASSUME NEW n \in 0..arrived
        PROVE  (\A j \in DOMAIN socket' : socket'[j].id # n)
                 <=> n # arrived /\ \A j \in DOMAIN socket : socket[j].id # n
    BY <1>2, <1>3
  <2>2. Received' = {n \in 0..arrived : \A j \in DOMAIN socket' : socket'[j].id # n}
    BY <1>1 DEF Received
  <2> QED
    BY <1>1, <2>1, <2>2 DEF Received
<1>5. Transit' = Transit
  BY <1>1 DEF Transit
<1> QED
  BY <1>1, <1>4, <1>5

\* Sending a slot of the queue delivers what was in transit: no other slot
\* holds the same datagram.
LEMMA DeliverRelay ==
  ASSUME IdInv, DeliverOne
  PROVE  \E t \in Transit : /\ Transit' = Transit \ {t} /\ sent' = sent \cup {t}
                            /\ UNCHANGED <<src_addr, Received>>
<1>1. PICK p \in pkt_queue :
        /\ pkt_queue' = pkt_queue \ {p}
        /\ sent' = sent \cup {[buf |-> p.buf, direction |-> p.direction]}
  BY DEF DeliverOne, First
<1> DEFINE t == [buf |-> p.buf, direction |-> p.direction]
<1>2. \A q \in pkt_queue : [buf |-> q.buf, direction |-> q.direction] = t <=> q = p
  <2> SUFFICES ASSUME NEW q \in pkt_queue, [buf |-> q.buf, direction |-> q.direction] = t
               PROVE  q = p
    OBVIOUS
  <2>1. q.buf = p.buf
    OBVIOUS
  <2> QED
    BY <2>1 DEF IdInv
<1>3. Transit' = Transit \ {t}
  BY <1>1, <1>2 DEF Transit
<1>4. t \in Transit
  BY DEF Transit
<1>5. UNCHANGED <<src_addr, Received>>
  BY DEF DeliverOne, netVars, Received
<1> QED
  BY <1>1, <1>3, <1>4, <1>5

\* The first datagram of the socket is taken: dropped, sent or queued.
LEMMA TakeRelay ==
  ASSUME TypeOK, IdInv, process_incoming_pkt
  PROVE  TheRelay!RelayNext
<1> DEFINE h == Head(socket)
           direction == DirectionOf(h.from, src_addr')
<1>1. /\ socket \in Seq(Bufs) /\ socket # <<>> /\ h = socket[1] /\ 1 \in DOMAIN socket
      /\ h \in Bufs
  BY HeadType DEF TypeOK
<1>2. socket' = Tail(socket) /\ arrived' = arrived
  BY Processed
<1>3. h \in TheRelay!Datagrams
  <2>1. h.len \in Lengths /\ h.tr = FALSE /\ h.flipped = FALSE
    BY <1>1 DEF IdInv, Bufs
  <2>2. h.id \in 0..(MaxDatagrams - 1)
    <3>1. arrived \in Nat /\ arrived <= MaxDatagrams /\ h.id \in 0..(arrived - 1)
      BY <1>1 DEF IdInv, Bufs, TypeOK
    <3>2. MaxDatagrams \in Nat
      BY LinkSimAssumption
    <3> QED
      BY <3>1, <3>2
  <2> QED
    BY <1>1, <2>1, <2>2 DEF Bufs, TheRelay!Datagrams
<1>4. h.id \notin Received /\ Received' = Received \cup {h.id}
  <2>1. \A n : (\A j \in DOMAIN socket : socket[j].id # n)
                 <=> n # h.id /\ \A j \in DOMAIN socket' : socket'[j].id # n
    <3>1. \A j \in DOMAIN socket : j = 1 \/ (j - 1 \in DOMAIN socket' /\ socket[j] = socket'[j - 1])
      BY <1>1, <1>2
    <3>2. \A j \in DOMAIN socket' : j + 1 \in DOMAIN socket /\ socket'[j] = socket[j + 1]
      BY <1>1, <1>2
    <3> QED
      BY <1>1, <3>1, <3>2
  <2>2. \A j \in DOMAIN socket' : socket'[j].id # h.id
    <3> SUFFICES ASSUME NEW j \in DOMAIN socket' PROVE socket'[j].id # h.id
      OBVIOUS
    <3>1. j + 1 \in DOMAIN socket /\ j + 1 # 1 /\ socket'[j] = socket[j + 1]
      BY <1>1, <1>2
    <3> QED
      BY <1>1, <3>1 DEF IdInv
  <2>3. h.id \in 0..(arrived - 1)
    BY <1>1 DEF Bufs
  <2> HIDE DEF h
  <2>4. \A n : n \in Received' <=> n \in 0..(arrived - 1)
                                   /\ \A j \in DOMAIN socket' : socket'[j].id # n
    BY <1>2 DEF Received
  <2>5. \A n : n \in Received <=> n \in 0..(arrived - 1)
                                  /\ \A j \in DOMAIN socket : socket[j].id # n
    BY DEF Received
  <2>6. \A n : n \in Received' <=> n \in Received \/ n = h.id
    BY <2>1, <2>2, <2>3, <2>4, <2>5
  <2>7. h.id \notin Received
    BY <2>1, <2>5
  <2>8. Received' = Received \cup {h.id}
    BY <2>6
  <2> QED
    BY <2>7, <2>8
<1>5. src_addr' = IF src_addr = NoHost /\ ~TheRelay!Rubbish(h) THEN h.from ELSE src_addr
  BY Processed DEF TheRelay!Rubbish
<1>6. \/ UNCHANGED <<Transit, sent>>
      \/ /\ ~TheRelay!Rubbish(h) /\ direction # "none"
         /\ \E b \in TheRelay!Outcomes(h) :
              LET t == [buf |-> b, direction |-> direction]
              IN  \/ Transit' = Transit \cup {t} /\ UNCHANGED sent
                  \/ sent' = sent \cup {t} /\ UNCHANGED Transit
  <2>1. CASE UNCHANGED <<pkt_queue, sent>>
    BY <2>1 DEF Transit
  <2>2. CASE ~ UNCHANGED <<pkt_queue, sent>>
    <3>1. direction # "none" /\ ~TheRelay!Rubbish(h)
      BY <2>2, Processed DEF TheRelay!Rubbish
    <3>2. PICK b : Outcome(h, b) /\ (SentNow(b, direction) \/ QueuedNow(b, direction))
      BY <2>2, Processed
    <3>3. b \in TheRelay!Outcomes(h)
      BY <3>2 DEF Outcome, TheRelay!Outcomes
    <3> HIDE DEF h, direction
    <3> DEFINE t == [buf |-> b, direction |-> direction]
    <3>4. CASE SentNow(b, direction)
      BY <3>1, <3>3, <3>4 DEF SentNow, Transit
    <3>5. CASE QueuedNow(b, direction)
      <4>1. PICK new : pkt_queue' = pkt_queue \cup {new} /\ [buf |-> new.buf, direction |-> new.direction] = t
        BY <3>5 DEF QueuedNow
      <4> HIDE DEF t
      <4>2. Transit' = Transit \cup {t}
        BY <4>1 DEF Transit
      <4>3. UNCHANGED sent
        BY <3>5 DEF QueuedNow
      <4> QED
        BY <3>1, <3>3, <4>2, <4>3 DEF t
    <3> QED
      BY <3>2, <3>4, <3>5
  <2> QED
    BY <2>1, <2>2
<1>7. direction = TheRelay!Direction(h.from, src_addr')
  BY DEF DirectionOf, TheRelay!Direction
<1> HIDE DEF h, direction
<1>8. PICK d : d = h
  OBVIOUS
<1>9. d \in TheRelay!Datagrams
  BY <1>3, <1>8
<1>10. TheRelay!Take(d)
  BY <1>4, <1>5, <1>6, <1>7, <1>8 DEF TheRelay!Take, TheRelay!Keep, Received, Transit
<1> QED
  BY <1>9, <1>10 DEF TheRelay!RelayNext

\* To the two programs link_sim is a relay that may lose, delay, reorder,
\* truncate and corrupt datagrams but neither invents nor repeats one, and
\* whose peer is the first host to send it more than rubbish
\* (link_sim.c:243-297).
THEOREM LinkSimIsRelay == Spec => ImplementsRelay
<1>1. LinkInv /\ [Next]_vars => [TheRelay!RelayNext]_(TheRelay!relayVars)
  <2> SUFFICES ASSUME LinkInv, [Next]_vars,
                      ~ UNCHANGED <<src_addr, Received, Transit, sent>>
               PROVE  TheRelay!RelayNext
    BY DEF TheRelay!relayVars, Received, Transit
  <2>1. TypeOK /\ IdInv
    BY DEF LinkInv
  <2>2. CASE Arrive
    BY <2>1, <2>2, ArriveRelay
  <2>3. CASE DeliverOne
    <3>1. PICK t \in Transit : /\ Transit' = Transit \ {t} /\ sent' = sent \cup {t}
                               /\ UNCHANGED <<src_addr, Received>>
      BY <2>1, <2>3, DeliverRelay
    <3> QED
      BY <3>1 DEF TheRelay!RelayNext, TheRelay!Deliver, Received, Transit
  <2>4. CASE process_incoming_pkt
    BY <2>1, <2>4, TakeRelay
  <2>5. CASE UNCHANGED <<src_addr, socket, arrived, pkt_queue, sent>>
    BY <2>5 DEF Received, Transit
  <2> QED
    BY <2>2, <2>3, <2>4, <2>5
       DEF Next, LoopStep, vars, loopVars, netVars, Tick, Select, Interrupted, Return,
           DeliverLater, DeliverFails, DeliverEnds, NothingToRead
<1> QED
  BY InitRelay, <1>1, LinkInvariant, PTL DEF Spec, ImplementsRelay, TheRelay!RelaySpec
=============================================================================
