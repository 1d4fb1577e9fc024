------------------------------ MODULE MCLinkSim ------------------------------
(***************************************************************************)
(* Command lines: no delay; a constant delay above the modulus, one way;   *)
(* delays around a second, whose dates compare in another order.           *)
(***************************************************************************)
EXTENDS LinkSim

Option(delay, jitter, direction) ==
  [delay |-> delay, jitter |-> jitter, link_direction |-> direction]

MCOptions ==
  {Option(0, 0, {"forward", "reverse"}), Option(11, 0, {"forward"}),
   Option(4, 1, {"forward", "reverse"})}
=============================================================================
