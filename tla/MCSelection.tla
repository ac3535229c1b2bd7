---------------------------- MODULE MCSelection ----------------------------
(***************************************************************************)
(* Instances of Selection: a1 and a2 share the name A, b1 is alone.        *)
(* Selectors and connections do not write to each other, so either two     *)
(* select requests run, or one of them and a connection.                   *)
(***************************************************************************)
EXTENDS Selection

CONSTANTS a1, a2, b1

MCNodes == {a1, a2, b1}
MCNames == {"A", "B"}
MCNameOf == [n \in MCNodes |-> IF n = b1 THEN "B" ELSE "A"]

(* What refreshes publish: nothing, both nodes called A, and one of each.  *)
SomeLists == {<<>>, <<a1, a2>>, <<b1, a2>>}

VARIABLE absent     \* the dialer that never comes

MCInit == Init /\ absent \in {"h2", "c1"}
MCNext == Next /\ pc'[absent] = "idle" /\ UNCHANGED absent
MCSpec == MCInit /\ [][MCNext]_<<absent, vars>>
=============================================================================
