------------------------- MODULE MCReceiverConnect -------------------------
(* Model values for ReceiverConnect.                                         *)
EXTENDS ReceiverConnect

CONSTANTS r1, r2

TwoReceivers == {r1, r2}

=============================================================================
