------------------------------ MODULE Transfer ------------------------------
(***************************************************************************)
(* What a transfer promises, without segments, windows or links: chunks    *)
(* are sent no more than a window ahead of the file, the file grows by the *)
(* next chunks of the input, and the two ends close, the sender first,     *)
(* once the file is complete.  Either end may instead give up.             *)
(***************************************************************************)
EXTENDS Integers, Sequences

CONSTANTS N,       \* chunks of the input
          Window   \* how far the sender may be ahead of the file

VARIABLES sent, file, senderEnd, receiverEnd

vars == <<sent, file, senderEnd, receiverEnd>>

NextChunks(n) == [j \in 1..n |-> Len(file) + j - 1]

Init == sent = 0 /\ file = <<>> /\ senderEnd = "up" /\ receiverEnd = "up"

Send == /\ senderEnd = "up"
        /\ sent < N /\ sent < Len(file) + Window
        /\ sent' = sent + 1
        /\ UNCHANGED <<file, senderEnd, receiverEnd>>

Deliver == /\ receiverEnd = "up"
           /\ \E n \in 1..(sent - Len(file)) : file' = file \o NextChunks(n)
           /\ UNCHANGED <<sent, senderEnd, receiverEnd>>

CloseSender == /\ senderEnd = "up" /\ Len(file) = N
               /\ senderEnd' = "closed"
               /\ UNCHANGED <<sent, file, receiverEnd>>

CloseReceiver == /\ receiverEnd = "up" /\ senderEnd = "closed"
                 /\ receiverEnd' = "closed"
                 /\ UNCHANGED <<sent, file, senderEnd>>

SenderGivesUp == /\ senderEnd = "up" /\ senderEnd' = "gone"
                 /\ UNCHANGED <<sent, file, receiverEnd>>

\* An end that crashes may do so on a chunk it has just written.
ReceiverGivesUp ==
  /\ receiverEnd = "up" /\ receiverEnd' = "gone"
  /\ \E n \in {0, 1} : Len(file) + n <= sent /\ file' = file \o NextChunks(n)
  /\ UNCHANGED <<sent, senderEnd>>

Next == \/ Send \/ Deliver \/ CloseSender \/ CloseReceiver
        \/ SenderGivesUp \/ ReceiverGivesUp

Spec == Init /\ [][Next]_vars
=============================================================================
