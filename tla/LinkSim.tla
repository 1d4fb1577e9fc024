------------------------------- MODULE LinkSim -------------------------------
(***************************************************************************)
(* link_sim: one thread that waits in select for a datagram or for the     *)
(* date of the first delayed one, delivers what has expired, and takes at  *)
(* most one datagram per turn.  Dates are pairs of seconds and a fraction, *)
(* in ticks: one tick is the millisecond of delays and of the shortest     *)
(* wait, Second the number of ticks in a second.  A turn takes no time.    *)
(* pkt_queue is the queue that MinQueue shows min_queue.c to be: peek and  *)
(* pop take any slot that no other precedes.                               *)
(***************************************************************************)
EXTENDS Integers, Sequences

CONSTANTS Second,         \* 1000
          DelayModulus,   \* 10000
          MIN_PKT_LEN,    \* 12
          Hosts, Dest, NoHost,
          loss_rate, cut_rate, err_rate,
          Options,        \* values of delay, jitter and link_direction
          Lengths,        \* lengths of the datagrams that come in
          Horizon,        \* bound: when the last one comes
          EndOfTime,      \* bound: the clock, well after all have left
          MaxDatagrams,   \* bound: how many come
          MaxDelays       \* bound: interrupted selects and refused writes

ASSUME LinkSimAssumption ==
  /\ Second \in Nat \ {0, 1} /\ DelayModulus \in Nat \ {0}
  /\ MIN_PKT_LEN \in Nat \ {0} /\ Lengths \subseteq Nat
  /\ Dest \in Hosts /\ NoHost \notin Hosts
  /\ {loss_rate, cut_rate, err_rate} \subseteq 0..100
  /\ Options \subseteq [delay : Nat, jitter : Nat,
                        link_direction : SUBSET {"forward", "reverse"}]
  /\ {Horizon, EndOfTime, MaxDatagrams, MaxDelays} \subseteq Nat

VARIABLES options,      \* delay, jitter and link_direction, set by main
          clock,        \* CLOCK_MONOTONIC
          last_clock,   \* its value at the last update_time
          wake,         \* when select times out, or Never
          pc,           \* "select", "waiting", "deliver", "process", "stopped"
          readable,     \* FD_ISSET(sfd, &rfds)
          socket,       \* datagrams that the kernel holds for sfd
          arrived,      \* how many came in: the next id
          src_addr,     \* NoHost while has_source_addr is 0
          pkt_queue,    \* the delayed slots
          sent,         \* auxiliary: what write_out sent, and where
          delays,       \* how many of MaxDelays were used
          slack         \* auxiliary: the time they may have cost

loopVars == <<last_clock, wake, pc, readable>>
netVars  == <<socket, arrived>>
vars == <<options, clock, loopVars, netVars, src_addr, pkt_queue, sent,
          delays, slack>>

Never == -1

-----------------------------------------------------------------------------
\* link_sim.c:98-118: dates as they are compared and subtracted.
timeval(t) == [sec |-> t \div Second, usec |-> t % Second]

\* Later only if later in both fields.
timeval_cmp_BothFields(left, right) ==
  left.sec >= right.sec /\ left.usec > right.usec

\* The wrong way round when the seconds agree.
timeval_cmp_Swapped(left, right) ==
  IF left.sec = right.sec THEN left.usec < right.usec ELSE left.sec > right.sec

timeval_cmp(left, right) ==
  IF left.sec = right.sec THEN left.usec > right.usec ELSE left.sec > right.sec

\* Borrowing a second without taking it from the seconds.
timeval_diff_NoBorrow(a, b) ==
  LET usec == a.usec - b.usec
  IN  [sec |-> a.sec - b.sec, usec |-> IF usec < 0 THEN usec + Second ELSE usec]

\* The borrowed second is added to the fraction only if the seconds that are
\* left are not 0.
timeval_diff(a, b) ==
  LET sec == a.sec - b.sec
      usec == a.usec - b.usec
  IN  IF usec >= 0 THEN [sec |-> sec, usec |-> usec]
      ELSE [sec |-> sec - 1,
            usec |-> IF sec - 1 # 0 THEN usec + Second ELSE usec]

\* The ticks that a date stands for, whatever its fraction.
Ticks(ts) == ts.sec * Second + ts.usec

\* The slots that minq_peek may return.
First(queue) == {p \in queue : \A q \in queue : ~timeval_cmp(p.ts, q.ts)}

\* What select is given when the first slot's date is ts: at least a tick.
get_queue_timeout(ts) ==
  LET timeout == timeval_diff(ts, last_clock)
  IN  IF timeout.sec < 0 \/ (timeout.sec = 0 /\ timeout.usec <= 0) THEN 1
      ELSE Ticks(timeout)

Init == /\ options \in Options
        /\ clock \in 0..(Second - 1) /\ last_clock = timeval(clock)
        /\ wake = Never /\ pc = "select" /\ readable = FALSE
        /\ socket = <<>> /\ arrived = 0 /\ src_addr = NoHost
        /\ pkt_queue = {} /\ sent = {} /\ delays = 0 /\ slack = 0

-----------------------------------------------------------------------------
\* The environment: a datagram comes in, and time passes while the loop waits.
Arrive == /\ arrived < MaxDatagrams /\ clock <= Horizon
          /\ \E from \in Hosts, len \in Lengths :
               socket' = Append(socket, [id |-> arrived, from |-> from,
                                         len |-> len, tr |-> FALSE,
                                         flipped |-> FALSE])
          /\ arrived' = arrived + 1
          /\ UNCHANGED <<options, clock, loopVars, src_addr, pkt_queue, sent,
                         delays, slack>>

Tick == /\ pc = "waiting" /\ socket = <<>> /\ clock # wake
        /\ clock < Horizon \/ (pkt_queue # {} /\ clock < EndOfTime)
        /\ clock' = clock + 1
        /\ UNCHANGED <<options, loopVars, netVars, src_addr, pkt_queue, sent,
                       delays, slack>>

Select == /\ pc = "select" /\ pc' = "waiting"
          /\ \/ pkt_queue = {} /\ wake' = Never
             \/ \E p \in First(pkt_queue) :
                  wake' = clock + get_queue_timeout(p.ts)
          /\ UNCHANGED <<options, clock, last_clock, readable, netVars,
                         src_addr, pkt_queue, sent, delays, slack>>

\* A signal: the wait starts anew, counted from the same last_clock.
Interrupted ==
  /\ pc = "waiting" /\ pc' = "select"
  /\ delays < MaxDelays /\ delays' = delays + 1
  /\ slack' = slack + clock - Ticks(last_clock)
  /\ UNCHANGED <<options, clock, last_clock, wake, readable, netVars,
                 src_addr, pkt_queue, sent>>

\* select returns, and update_time is called.
Return == /\ pc = "waiting" /\ pc' = "deliver"
          /\ socket # <<>> \/ clock = wake
          /\ readable' = (socket # <<>>)
          /\ last_clock' = timeval(clock)
          /\ UNCHANGED <<options, clock, wake, netVars, src_addr, pkt_queue,
                         sent, delays, slack>>

-----------------------------------------------------------------------------
\* deliver_delayed_pkt, one turn of its loop: the first slot has expired and
\* is sent, ...
Expired(p) == timeval_cmp(last_clock, p.ts)

\* Sending the first slot without taking it off the queue.
DeliverOne_NoPop ==
  /\ pc = "deliver"
  /\ \E p \in First(pkt_queue) :
       /\ Expired(p)
       /\ sent' = sent \cup {[buf |-> p.buf, direction |-> p.direction]}
  /\ UNCHANGED <<options, clock, loopVars, netVars, src_addr, pkt_queue,
                 delays, slack>>

DeliverOne ==
  /\ pc = "deliver"
  /\ \E p \in First(pkt_queue) :
       /\ Expired(p)
       /\ pkt_queue' = pkt_queue \ {p}
       /\ sent' = sent \cup {[buf |-> p.buf, direction |-> p.direction]}
  /\ UNCHANGED <<options, clock, loopVars, netVars, src_addr, delays, slack>>

\* ... or stays for a later turn because the send buffer is full, ...
DeliverLater ==
  /\ pc = "deliver" /\ pc' = "process"
  /\ \E p \in First(pkt_queue) : Expired(p)
  /\ delays < MaxDelays /\ delays' = delays + 1 /\ slack' = slack + 1
  /\ UNCHANGED <<options, clock, last_clock, wake, readable, netVars,
                 src_addr, pkt_queue, sent>>

\* ... or another error of sendto ends the program.
DeliverFails ==
  /\ pc = "deliver" /\ pc' = "stopped"
  /\ \E p \in First(pkt_queue) : Expired(p)
  /\ UNCHANGED <<options, clock, last_clock, wake, readable, netVars,
                 src_addr, pkt_queue, sent, delays, slack>>

DeliverEnds ==
  /\ pc = "deliver" /\ pc' = "process"
  /\ \A p \in First(pkt_queue) : ~Expired(p)
  /\ UNCHANGED <<options, clock, last_clock, wake, readable, netVars,
                 src_addr, pkt_queue, sent, delays, slack>>

-----------------------------------------------------------------------------
\* Whether rand() % 101 may be below a rate, and may not be.
MayStrike(rate) == rate > 0

\* simulate_link's losses, truncation and corruption of datagram d: what is
\* left to send.  A rate is at most 100, so any of them may also not strike.
Damaged(d) ==
  {d}
  \cup (IF MayStrike(cut_rate) /\ d.len > MIN_PKT_LEN
        THEN {[d EXCEPT !.len = MIN_PKT_LEN, !.tr = TRUE]} ELSE {})
  \cup (IF MayStrike(err_rate) THEN {[d EXCEPT !.flipped = TRUE]} ELSE {})

\* The values of applied_delay.
AppliedDelays(delay, jitter) ==
  LET drawn == IF jitter = 0 THEN {delay}
               ELSE IF jitter > delay THEN 0..(delay + jitter - 1)
               ELSE (delay - jitter)..(delay + jitter - 1)
  IN  {x % DelayModulus : x \in drawn}

\* All of the delay in the fraction.
ExpirationDate_NoSeconds(applied_delay) ==
  [sec |-> last_clock.sec, usec |-> last_clock.usec + applied_delay]

\* The date of a slot: its fraction may exceed a second.
ExpirationDate(applied_delay) ==
  [sec  |-> last_clock.sec + applied_delay \div Second,
   usec |-> last_clock.usec + (applied_delay % Second)]

\* write_out of a datagram that is not delayed: any error ends the program,
\* a full send buffer too.
WriteOut(buf, direction) ==
  /\ UNCHANGED pkt_queue
  /\ \/ /\ sent' = sent \cup {[buf |-> buf, direction |-> direction]}
        /\ pc' = "select"
     \/ UNCHANGED sent /\ pc' = "stopped"

\* The slot is queued, or there is no memory for it and the program ends.
Enqueue(buf, direction) ==
  /\ UNCHANGED sent
  /\ \/ /\ \E x \in AppliedDelays(options.delay, options.jitter) :
             pkt_queue' = pkt_queue \cup
               {[ts |-> ExpirationDate(x), direction |-> direction, buf |-> buf]}
        /\ pc' = "select"
     \/ UNCHANGED pkt_queue /\ pc' = "stopped"

simulate_link(d, direction) ==
  \/ /\ MayStrike(loss_rate)
     /\ pc' = "select" /\ UNCHANGED <<pkt_queue, sent>>
  \/ \E b \in Damaged(d) :
       IF options.delay # 0 THEN Enqueue(b, direction)
       ELSE WriteOut(b, direction)

\* The host that spoke first is src_addr, even if it is the proxied one.
DirectionOf(from, source) ==
  IF from = source THEN "forward" ELSE IF from = Dest THEN "reverse" ELSE "none"

Drop == pc' = "select" /\ UNCHANGED <<pkt_queue, sent>>

process_incoming_pkt ==
  /\ pc = "process" /\ readable
  /\ LET d == Head(socket)
         source == IF src_addr = NoHost THEN d.from ELSE src_addr
         direction == DirectionOf(d.from, source)
     IN  IF d.len < MIN_PKT_LEN THEN Drop /\ UNCHANGED src_addr
         ELSE /\ src_addr' = source
              /\ IF direction = "none" THEN Drop
                 ELSE IF direction \notin options.link_direction
                      THEN WriteOut(d, direction)
                 ELSE simulate_link(d, direction)
  /\ socket' = Tail(socket)
  /\ UNCHANGED <<options, clock, last_clock, wake, readable, arrived, delays,
                 slack>>

NothingToRead ==
  /\ pc = "process" /\ ~readable /\ pc' = "select"
  /\ UNCHANGED <<options, clock, last_clock, wake, readable, netVars,
                 src_addr, pkt_queue, sent, delays, slack>>

-----------------------------------------------------------------------------
LoopStep == \/ Select \/ Return
            \/ DeliverOne \/ DeliverLater \/ DeliverFails \/ DeliverEnds
            \/ process_incoming_pkt \/ NothingToRead

Next == Arrive \/ Tick \/ Interrupted \/ LoopStep

\* The loop runs whenever it can, and time passes while it waits.
Spec == Init /\ [][Next]_vars /\ WF_vars(LoopStep) /\ WF_vars(Tick)

-----------------------------------------------------------------------------
Bufs == [id : 0..(arrived - 1), from : Hosts, len : Nat, tr : BOOLEAN,
         flipped : BOOLEAN]

TypeOK ==
  /\ options \in Options /\ clock \in Nat
  /\ last_clock \in [sec : Nat, usec : 0..(Second - 1)]
  /\ wake \in Nat \cup {Never} /\ readable \in BOOLEAN
  /\ pc \in {"select", "waiting", "deliver", "process", "stopped"}
  /\ arrived \in Nat
  /\ socket \in Seq(Bufs)
  /\ src_addr \in Hosts \cup {NoHost}
  /\ pkt_queue \subseteq [ts : [sec : Nat, usec : 0..(2 * Second - 2)],
                          direction : {"forward", "reverse"}, buf : Bufs]
  /\ sent \subseteq [direction : {"forward", "reverse"}, buf : Bufs]
  /\ delays \in Nat /\ slack \in Nat

\* No datagram is at two places: each id is that of one datagram that waits
\* in the kernel, as it came, or of one that was taken, delayed once at most.
IdInv ==
  /\ arrived <= MaxDatagrams
  /\ pc \in {"deliver", "process"} /\ readable => socket # <<>>
  /\ \A i \in DOMAIN socket :
       /\ socket[i].len \in Lengths /\ ~socket[i].tr /\ ~socket[i].flipped
       /\ \A j \in DOMAIN socket : socket[j].id = socket[i].id => i = j
       /\ \A p \in pkt_queue : p.buf.id # socket[i].id
  /\ \A p, q \in pkt_queue : p.buf.id = q.buf.id => p = q

\* last_clock is the clock of the turn's start, at which no date lies a second
\* back but for the slack, and the wait ends before one does.
InTime(t) == \A p \in pkt_queue : t < Ticks(p.ts) + Second + slack

DateInv ==
  /\ Ticks(last_clock) <= clock
  /\ pc \in {"deliver", "process"} => clock = Ticks(last_clock)
  /\ pc = "select" => clock - Ticks(last_clock) <= slack
  /\ pc = "deliver" => InTime(clock)
  /\ pc \in {"process", "select"} => InTime(clock + 1)
  /\ pc = "waiting" /\ pkt_queue # {} => clock <= wake /\ InTime(wake)
  /\ pc = "waiting" /\ clock = Ticks(last_clock) => InTime(clock + 1)

\* Without jitter every date is the same delay after a normalised date.
ConstantDelayInv ==
  options.jitter = 0 =>
    \A p \in pkt_queue :
      \E usec \in 0..(Second - 1) :
        p.ts.usec = usec + ((options.delay % DelayModulus) % Second)

LinkInv == TypeOK /\ IdInv /\ DateInv /\ ConstantDelayInv

\* A delayed datagram leaves less than a second before or after its date,
\* although dates are compared without carrying their fraction: waits that
\* were interrupted or writes that were refused cost no more than their time.
DeliveredNearDue ==
  [][\A p \in pkt_queue \ pkt_queue' :
       /\ clock > Ticks(p.ts) - Second
       /\ clock < Ticks(p.ts) + Second + slack]_vars

\* Without jitter no datagram overtakes one with an earlier date.
ConstantDelayKeepsOrder ==
  [][options.jitter = 0 =>
       \A p \in pkt_queue \ pkt_queue', q \in pkt_queue' :
         Ticks(q.ts) >= Ticks(p.ts)]_vars

\* Every delayed datagram leaves, unless an error ends the program.
DelayedLeave == pkt_queue # {} ~> pkt_queue = {} \/ pc = "stopped"

\* To the two programs link_sim is a Relay.
TheRelay == INSTANCE Relay WITH
  Ids <- 0..(MaxDatagrams - 1),
  peer <- src_addr,
  received <- {n \in 0..(arrived - 1) :
                 \A j \in DOMAIN socket : socket[j].id # n},
  transit <- {[buf |-> p.buf, direction |-> p.direction] : p \in pkt_queue},
  delivered <- sent

ImplementsRelay == TheRelay!RelaySpec
=============================================================================
