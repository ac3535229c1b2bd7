-------------------------------- MODULE Pipe --------------------------------
(***************************************************************************)
(* What each direction of a forwarded connection promises: the units that  *)
(* one end sends are received by the other end from the first one on, in   *)
(* order, each once.  The pipe may stop at any point.                      *)
(***************************************************************************)
EXTENDS Naturals, Sequences

VARIABLES
    sent,   \* how many units have been sent; the i-th unit is the number i
    got     \* the units received

Init ==
    /\ sent = 0
    /\ got = <<>>

Send == sent' > sent /\ UNCHANGED got

Receive ==
    /\ Len(got) < sent
    /\ got' = Append(got, Len(got) + 1)
    /\ UNCHANGED sent

Spec == Init /\ [][Send \/ Receive]_<<sent, got>>
=============================================================================
