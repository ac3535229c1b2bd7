------------------------------ MODULE MCRefresh ------------------------------
(***************************************************************************)
(* Instances of Refresh.  n1 is a ss node and c1 the ssr node Derive makes *)
(* of it.  The second server lists a node of its own; the third lists only *)
(* c1, which keeps the instances with two runs small.                      *)
(***************************************************************************)
EXTENDS Refresh

CONSTANTS s1, s2, s3, n1, n2, c1

MCServers == {s1, s2, s3}
MCNodes == {n1, n2, c1}
MCOffers == [s \in MCServers |-> IF s = s1 THEN {n1} ELSE IF s = s2 THEN {n2} ELSE {c1}]
MCConversions == [n \in MCNodes |-> IF n = n1 THEN {c1} ELSE {}]

(* config.yaml with everything set, with no timeouts and no retry limit,   *)
(* and without servers.                                                    *)
Full == [servers |-> {s1, s2}, retry |-> TRUE, tries |-> 1, timeout |-> 1, speed |-> TRUE]
Slow == [Full EXCEPT !.servers = {s1, s3}, !.speed = FALSE]
Sparse == [servers |-> {s1}, retry |-> TRUE, tries |-> 0, timeout |-> 0, speed |-> FALSE]
NoServers == [servers |-> {}, retry |-> FALSE, tries |-> 0, timeout |-> 1, speed |-> FALSE]

AllFiles == {Full, Slow, Sparse, NoServers}

(* Either a job whose file changes and a forced update run, or a job and a *)
(* handler.                                                                *)
VARIABLE instance

Kept ==
    IF instance = "updates"
      THEN config # Full /\ \A h \in Handlers : fill[h] = NoFill
      ELSE config \in {EmptyConfig, Full} /\ \A r \in Callers : pc[r] = "idle"

MCInit == Init /\ instance \in {"updates", "fills"} /\ Kept
MCNext == Next /\ UNCHANGED instance /\ Kept'
MCSpec == MCInit /\ [][MCNext]_<<instance, vars>> /\ Fairness

(* Stale texts are renewed where no two runs overlap: two of them can end  *)
(* with the list of one and the texts of the other.                        *)
HealedWithoutOverlap == (instance = "fills") => StaleTextHealed

=============================================================================
