------------------------------- MODULE Buffer -------------------------------
(***************************************************************************)
(* The window and buffer helpers of buffer.c.  A window is the array of    *)
(* the MAX_WINDOW_SIZE consecutive sequence numbers one end is prepared to *)
(* handle; a buffer is an array indexed by the same slots.  The helpers    *)
(* return the array they would leave behind.                               *)
(***************************************************************************)
EXTENDS Integers

CONSTANTS MAX_WINDOW_SIZE,   \* slots of a window (31 in the code)
          MAX_SEQNUM         \* largest sequence number (255 in the code)

\* The sender keeps its last MAX_WINDOW_SIZE packets and the receiver may be
\* as many packets behind, so sequence numbers must tell two windows apart.
ASSUME WindowAssumption ==
  /\ MAX_WINDOW_SIZE \in Nat \ {0}
  /\ MAX_SEQNUM \in Nat
  /\ 2 * MAX_WINDOW_SIZE <= MAX_SEQNUM

Slots    == 0..(MAX_WINDOW_SIZE - 1)
SeqSpace == MAX_SEQNUM + 1
Seqnums  == 0..MAX_SEQNUM

\* The first slot holding seqnum, or -1.
find_pkt(seqnum, window) ==
  IF \E i \in Slots : window[i] = seqnum
  THEN CHOOSE i \in Slots :
         window[i] = seqnum /\ \A j \in Slots : window[j] = seqnum => i <= j
  ELSE -1

\* One call: every entry moves down one slot, the last one is incremented.
window_slide(window) ==
  [i \in Slots |-> IF i < MAX_WINDOW_SIZE - 1
                   THEN window[i + 1]
                   ELSE (window[i] + 1) % SeqSpace]

\* The number that counting on from a window gives to slot j, beyond the last
\* slot too.
NumberAt(window, j) ==
  IF j < MAX_WINDOW_SIZE
  THEN window[j]
  ELSE (window[MAX_WINDOW_SIZE - 1] + (j - (MAX_WINDOW_SIZE - 1))) % SeqSpace

\* n calls of window_slide (BufferProofs shows that this is their iteration).
window_slides(window, n) == [i \in Slots |-> NumberAt(window, i + n)]

\* One call of update_binaryReceivingBuf (fill 0) or update_receivingBuf (fill
\* NULL): every entry moves down one slot and the last one becomes fill.
update_buf(buf, fill) ==
  [i \in Slots |-> IF i < MAX_WINDOW_SIZE - 1 THEN buf[i + 1] ELSE fill]

\* Sliding that forgets to clear the slots it leaves at the end.
update_bufs_KeepsLast(buf, fill, n) ==
  [i \in Slots |-> IF i + n < MAX_WINDOW_SIZE THEN buf[i + n] ELSE buf[i]]

\* n calls of update_buf.
update_bufs(buf, fill, n) ==
  [i \in Slots |-> IF i + n < MAX_WINDOW_SIZE THEN buf[i + n] ELSE fill]
=============================================================================
