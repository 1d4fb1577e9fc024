-------------------------------- MODULE Link --------------------------------
(***************************************************************************)
(* The two directions between the ends: UDP datagrams, usually relayed by  *)
(* link_sim.  fwd carries the sender's segments, rev the receiver's.  Each *)
(* fault is one the link may be told to inject; MaxFaults bounds how many  *)
(* a behaviour holds, and a fault strikes the segment that is next to be   *)
(* delivered.                                                              *)
(***************************************************************************)
EXTENDS Packet, Sequences

CONSTANTS FwdFaults, RevFaults,       \* faults of each direction
          MaxFaults,                  \* bound: faults in a behaviour
          FwdCapacity, RevCapacity    \* bound: segments in flight

VARIABLES fwd, rev, faults

\* "lose", "cut" and "corrupt" are link_sim's loss, cut and error rates (a
\* segment that was cut or corrupted no longer decodes), "reorder" its
\* jitter.  "mark" sets the TR bit of a segment that keeps its payload, as
\* the protocol describes truncation by a router; link_sim has no such fault.
Faults == {"lose", "corrupt", "cut", "mark", "reorder"}

ASSUME LinkAssumption ==
  /\ FwdFaults \subseteq Faults /\ RevFaults \subseteq Faults
  /\ MaxFaults \in Nat /\ FwdCapacity \in Nat /\ RevCapacity \in Nat

linkVars == <<fwd, rev, faults>>

LinkTypeOK == /\ fwd \in Seq(Packets) /\ Len(fwd) <= FwdCapacity
              /\ rev \in Seq(Packets) /\ Len(rev) <= RevCapacity
              /\ faults \in 0..MaxFaults

LinkInit == fwd = <<>> /\ rev = <<>> /\ faults = 0

\* The sender's write: a full fwd makes it wait (the bound FwdCapacity).
SendFwd(msgs) == /\ Len(fwd) + Len(msgs) <= FwdCapacity
                 /\ fwd' = fwd \o msgs

\* The receiver's write: what does not fit the sender's socket buffer is
\* dropped by the kernel.
SendRev(m) == rev' = IF Len(rev) < RevCapacity THEN Append(rev, m) ELSE rev

\* One fault on the head of a channel.
Injected(ch, new, allowed) ==
  \/ "lose" \in allowed /\ new = Tail(ch)
  \/ /\ "corrupt" \in allowed
     /\ new = [ch EXCEPT ![1].bytes = "damaged"]
  \/ /\ "cut" \in allowed /\ Head(ch).payload # NoPayload
     /\ new = [ch EXCEPT ![1].bytes = "damaged", ![1].tr = 1]
  \/ /\ "mark" \in allowed /\ Head(ch).type # "NONE"
     /\ new = [ch EXCEPT ![1].tr = 1]
  \/ /\ "reorder" \in allowed /\ Len(ch) >= 2
     /\ new = [ch EXCEPT ![1] = ch[2], ![2] = ch[1]]
=============================================================================
