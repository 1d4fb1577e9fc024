-------------------------------- MODULE Relay --------------------------------
(***************************************************************************)
(* What link_sim is to the two programs that talk through it: a relay      *)
(* between the host that spoke first and the host it proxies.  It may      *)
(* lose, truncate or corrupt a datagram and deliver several in any order,  *)
(* but it makes none up, delivers none twice, damages none in two ways,    *)
(* lets no third host in, and is not taken in by rubbish.                  *)
(***************************************************************************)
EXTENDS Naturals

CONSTANTS Hosts, Dest, NoHost,  \* Dest: the host that is proxied
          Ids, Lengths,         \* the names and lengths of datagrams
          MIN_PKT_LEN

VARIABLES peer,        \* the host of the first datagram that is no rubbish
          received,    \* the ids of the datagrams taken so far
          transit,     \* datagrams taken and neither lost nor delivered
          delivered

relayVars == <<peer, received, transit, delivered>>

Direction(host, first) == IF host = first THEN "forward"
                          ELSE IF host = Dest THEN "reverse" ELSE "none"

\* What may become of a datagram: as it is, truncated to its header and
\* marked so, or with a byte inverted.
Outcomes(d) ==
  {d, [d EXCEPT !.flipped = TRUE]}
  \cup (IF d.len > MIN_PKT_LEN
        THEN {[d EXCEPT !.len = MIN_PKT_LEN, !.tr = TRUE]} ELSE {})

RelayInit == peer = NoHost /\ received = {} /\ transit = {} /\ delivered = {}

Keep(t) == \/ transit' = transit \cup {t} /\ UNCHANGED delivered
           \/ delivered' = delivered \cup {t} /\ UNCHANGED transit

\* Shorter than any header.
Rubbish(d) == d.len < MIN_PKT_LEN

\* A datagram is taken, and dropped or kept.
Take(d) ==
  /\ d.id \notin received /\ received' = received \cup {d.id}
  /\ peer' = IF peer = NoHost /\ ~Rubbish(d) THEN d.from ELSE peer
  /\ \/ UNCHANGED <<transit, delivered>>
     \/ /\ ~Rubbish(d) /\ Direction(d.from, peer') # "none"
        /\ \E b \in Outcomes(d) :
             Keep([buf |-> b, direction |-> Direction(d.from, peer')])

Deliver == \E t \in transit : /\ transit' = transit \ {t}
                              /\ delivered' = delivered \cup {t}
                              /\ UNCHANGED <<peer, received>>

Datagrams == [id : Ids, from : Hosts, len : Lengths, tr : {FALSE},
              flipped : {FALSE}]

RelayNext == Deliver \/ \E d \in Datagrams : Take(d)

RelaySpec == RelayInit /\ [][RelayNext]_relayVars
=============================================================================
