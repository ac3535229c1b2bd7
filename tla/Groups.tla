------------------------------- MODULE Groups -------------------------------
(***************************************************************************)
(* A group of nodes (adapter/outboundgroup): the look-up all callers share *)
(* for some seconds (common/singledo), the choice of each kind of group    *)
(* and what follows: a connection through the node, or through a chain.    *)
(* A node is the object of one list of its provider: the next list has     *)
(* objects of its own, with the same names.                                *)
(***************************************************************************)
EXTENDS Naturals, Sequences, FiniteSets

CONSTANTS
    Callers, Setters,       \* connections; requests of the API to select a node
    Setups,                 \* [type, lists, delays, tests, tolerance, answers, calls, time]:
                            \* what tests and dials can tell, bounds of the calls and seconds
    NameOf,                 \* of a node
    LeadsTo,                  \* where a group inside a group leads for each destination
    Dests,
    Wait, InnerWait,        \* seconds a result is used; of the list inside url-test
    Top                     \* 0xffff, the delay of a node that is not there

VARIABLES
    setup, list, now,
    last, result,           \* Single: start of the last look-up (0: reset), its value
    leader,                 \* the caller whose look-up is under way
    inner,                  \* Single of the list inside url-test: [last, value]
    pc, val, calls, dest,   \* of each caller
    started,                \* when its look-up began
    asked, made, how,       \* history: when it asked, when its value was made, how it came
    due,                    \* history: the names it may be given
    madeAt, settled,        \* history: of `result`; the name a new look-up must give
    left, chain, picked,    \* nodes before the last one; layers; the choice was right
    alive, delay, tests,
    selected, fastNode, idx,
    setpc, want, stored, raced

single == <<last, result, leader, inner, madeAt>>
caller == <<pc, val, calls, dest, started, asked, made, how, due, left, chain, picked>>
health == <<alive, delay, tests>>
choice == <<selected, fastNode, idx>>
setter == <<setpc, want, stored, raced, settled>>
gvars == <<setup, list, now, single, caller, health, choice, setter>>

None == "none"
Listed(nodes) == {nodes[i] : i \in DOMAIN nodes}
Nodes == (UNION {Listed(l) : l \in UNION {Listed(s.lists) : s \in Setups}})
         \cup (UNION {{LeadsTo[g][d] : d \in Dests} : g \in DOMAIN LeadsTo})
(* What is asked of the constants; the clock begins at Wait.               *)
GroupsAssumption ==
    /\ None \notin Callers /\ "d1" \in Dests
    /\ Wait \in Nat /\ InnerWait \in 0..Wait /\ Top \in Nat
    /\ \A s \in Setups :
        /\ s.lists \in Seq(Seq(Nodes) \ {<<>>}) \ {<<>>}
        /\ s.delays \subseteq 0..Top /\ s.tolerance \in Nat /\ s.answers \subseteq BOOLEAN
Named(nodes, name) == {i \in DOMAIN nodes : NameOf[nodes[i]] = name}
Names(nodes) == {NameOf[n] : n \in nodes}

Init ==
    /\ setup \in Setups /\ list = 1 /\ now = Wait
    /\ last = 0 /\ result = <<>> /\ leader = None /\ madeAt = 0
    /\ inner = [last |-> 0, value |-> <<>>]
    /\ pc = [c \in Callers |-> "idle"] /\ val = [c \in Callers |-> <<>>]
    /\ calls = [c \in Callers |-> 0] /\ dest \in [Callers -> IF setup.type = "relay" THEN Dests ELSE {"d1"}]
    /\ started = [c \in Callers |-> 0] /\ asked = started /\ made = started
    /\ how = [c \in Callers |-> None] /\ due = [c \in Callers |-> {}]
    /\ left = [c \in Callers |-> <<>>] /\ chain = left /\ picked = [c \in Callers |-> TRUE]
    /\ alive = [n \in Nodes |-> TRUE] /\ delay = [n \in Nodes |-> 0] /\ tests = 0
    /\ selected = NameOf[setup.lists[1][1]] /\ fastNode = None /\ idx = 0
    /\ setpc = [s \in Setters |-> "idle"] /\ want = [s \in Setters |-> None]
    /\ stored = None /\ raced = FALSE /\ settled = selected

Members == setup.lists[list]

-----------------------------------------------------------------------------
(* The surroundings: time, the tests of the nodes, a new list.             *)

Tick ==
    /\ now < setup.time /\ now' = now + 1
    /\ UNCHANGED <<setup, list, single, caller, health, choice, setter>>

Tested ==
    /\ tests < setup.tests /\ tests' = tests + 1
    /\ \E n \in Listed(Members), d \in setup.delays :
        /\ delay' = [delay EXCEPT ![n] = d] /\ alive' = [alive EXCEPT ![n] = d # 0]
        /\ <<delay', alive'>> # <<delay, alive>>
    /\ UNCHANGED <<setup, list, now, single, caller, choice, setter>>

(* setProxies of the provider.                                             *)
NewList ==
    /\ list < Len(setup.lists) /\ list' = list + 1
    /\ settled' = None /\ due' = [c \in Callers |-> due[c] \cup Names(Listed(setup.lists[list + 1]))]
    /\ UNCHANGED <<setup, now, single, pc, val, calls, dest, started, asked, made, how,
                   left, chain, picked, health, choice, setpc, want, stored, raced>>

(* Proxy.LastDelay.                                                        *)
LastDelay(n) == IF alive[n] /\ delay[n] # 0 THEN delay[n] ELSE Top

-----------------------------------------------------------------------------
(* Single.Do.                                                              *)

Fresh == now < last + Wait
Stays == <<setup, list, now, health, choice, setter>>

Ask(c) ==
    /\ pc[c] = "idle" /\ calls[c] < setup.calls[c]
    /\ calls' = [calls EXCEPT ![c] = @ + 1]
    /\ asked' = [asked EXCEPT ![c] = now]
    /\ due' = [due EXCEPT ![c] = IF settled = None THEN Names(Nodes) ELSE {settled}]
    /\ IF Fresh THEN /\ pc' = [pc EXCEPT ![c] = "take"]
                     /\ UNCHANGED <<leader, started, val, made, how>>
       ELSE IF leader = None
       THEN /\ leader' = c /\ started' = [started EXCEPT ![c] = now]
            /\ pc' = [pc EXCEPT ![c] = "run"] /\ UNCHANGED <<val, made, how>>
       ELSE /\ how' = [how EXCEPT ![c] = "joined"]
            /\ IF pc[leader] = "run" THEN pc' = [pc EXCEPT ![c] = "wait"] /\ UNCHANGED <<val, made>>
               ELSE /\ pc' = [pc EXCEPT ![c] = "got"]
                    /\ val' = [val EXCEPT ![c] = val[leader]]
                    /\ made' = [made EXCEPT ![c] = made[leader]]
            /\ UNCHANGED <<leader, started>>
    /\ UNCHANGED <<last, result, inner, madeAt, dest, left, chain, picked, Stays>>

(* The result is read without the lock.                                    *)
Take(c) ==
    /\ pc[c] = "take"
    /\ val' = [val EXCEPT ![c] = result] /\ made' = [made EXCEPT ![c] = madeAt]
    /\ how' = [how EXCEPT ![c] = "cached"] /\ pc' = [pc EXCEPT ![c] = "got"]
    /\ UNCHANGED <<single, calls, dest, started, asked, due, left, chain, picked, Stays>>

(* What is looked up: the list, or one node of it.                         *)
Selected == LET found == Named(Members, selected) IN
            IF found = {} THEN Members[1] ELSE Members[CHOOSE i \in found : \A j \in found : i <= j]

\* bug: a faster node does not lower the delay to beat
FastestLastBeater(nodes) ==
    LET beaters == {i \in DOMAIN nodes : i > 1 /\ alive[nodes[i]] /\ LastDelay(nodes[i]) < LastDelay(nodes[1])} IN
    IF beaters = {} THEN nodes[1] ELSE nodes[CHOOSE i \in beaters : \A j \in beaters : j <= i]
(* The first of the list, dead or not, unless a living one is faster.      *)
Fastest(nodes) ==
    LET beaters == {i \in DOMAIN nodes : i > 1 /\ alive[nodes[i]] /\ LastDelay(nodes[i]) < LastDelay(nodes[1])}
        Beats(i, j) == LastDelay(nodes[i]) < LastDelay(nodes[j]) \/ (LastDelay(nodes[i]) = LastDelay(nodes[j]) /\ i <= j)
    IN IF beaters = {} THEN nodes[1] ELSE nodes[CHOOSE i \in beaters : \A j \in beaters : Beats(i, j)]

(* The node in use is looked for by name behind the first; the sum is one  *)
(* of 16 bits.                                                             *)
Keeps(nodes) ==
    /\ fastNode # None
    /\ \E i \in DOMAIN nodes : i > 1 /\ NameOf[nodes[i]] = NameOf[fastNode]
    /\ alive[fastNode]
    /\ LastDelay(fastNode) <= (LastDelay(Fastest(nodes)) + setup.tolerance) % (Top + 1)

InnerList == IF now < inner.last + InnerWait THEN inner.value ELSE Members
RunFast ==
    /\ inner' = [last |-> IF now < inner.last + InnerWait THEN inner.last ELSE now, value |-> InnerList]
    /\ fastNode' = IF Keeps(InnerList) THEN fastNode ELSE Fastest(InnerList)

\* bug: those who wait are not woken
GetsValueAlone(c, w) == w = c
GetsValue(c, w) == w = c \/ pc[w] = "wait"
(* fn() and wg.Done: those who wait get the value.                         *)
Run(c) ==
    /\ pc[c] = "run"
    /\ IF setup.type = "url-test" THEN RunFast ELSE UNCHANGED <<inner, fastNode>>
    /\ LET value == CASE setup.type = "url-test" -> <<fastNode'>>
                      [] setup.type = "select" -> <<Selected>>
                      [] OTHER -> Members
       IN /\ val' = [w \in Callers |-> IF GetsValue(c, w) THEN value ELSE val[w]]
          /\ made' = [w \in Callers |-> IF GetsValue(c, w) THEN now ELSE made[w]]
          /\ pc' = [w \in Callers |-> IF w = c THEN "store" ELSE IF GetsValue(c, w) THEN "got" ELSE pc[w]]
    /\ how' = [how EXCEPT ![c] = "made"]
    /\ UNCHANGED <<setup, list, now, last, result, leader, madeAt, calls, dest, started, asked, due,
                   left, chain, picked, health, selected, idx, setter>>

\* bug: the result is used from the end of the look-up on
StampEnd(c) == now
Stamp(c) == started[c]
Store(c) ==
    /\ pc[c] = "store"
    /\ leader' = None /\ result' = val[c] /\ last' = Stamp(c) /\ madeAt' = made[c]
    /\ pc' = [pc EXCEPT ![c] = "got"]
    /\ UNCHANGED <<inner, val, calls, dest, started, asked, made, how, due, left, chain, picked, Stays>>

-----------------------------------------------------------------------------
(* What is done with the value.                                            *)

FirstAlive(nodes) == LET up == {i \in DOMAIN nodes : alive[nodes[i]]} IN
                     nodes[IF up = {} THEN 1 ELSE CHOOSE i \in up : \A j \in up : i <= j]

\* bug: one node less is tried
TurnsOneLess(nodes) == 1..(Len(nodes) - 1)
Turns(nodes) == 1..Len(nodes)
At(nodes, turn) == nodes[((idx + turn) % Len(nodes)) + 1]
(* Round robin: the next living node.                                      *)
NextTurn(nodes) ==
    LET up == {t \in Turns(nodes) : alive[At(nodes, t)]} IN
    IF up = {} THEN 0 ELSE CHOOSE t \in up : \A u \in up : t <= u

(* Consistent hashing: five buckets, any of the list.                      *)
Hashed(nodes) == {n \in Listed(nodes) : alive[n]}
                 \cup (IF \E n \in Listed(nodes) : ~alive[n] THEN {nodes[1]} ELSE {})

Pick(c) ==
    /\ pc[c] = "got" /\ setup.type \notin {"relay"}
    /\ \E n \in CASE setup.type = "fallback" -> {FirstAlive(val[c])}
                  [] setup.type = "round-robin" ->
                        {IF NextTurn(val[c]) = 0 THEN val[c][1] ELSE At(val[c], NextTurn(val[c]))}
                  [] setup.type = "hashing" -> Hashed(val[c])
                  [] OTHER -> {val[c][1]} :
        /\ left' = [left EXCEPT ![c] = <<n>>]
        /\ picked' = [picked EXCEPT ![c] = alive[n] \/ \A i \in DOMAIN val[c] : ~alive[val[c][i]]]
    /\ idx' = IF setup.type = "round-robin" THEN (idx + NextTurn(val[c])) % Len(val[c]) ELSE idx
    /\ pc' = [pc EXCEPT ![c] = "dial"]
    /\ UNCHANGED <<setup, list, now, single, val, calls, dest, started, asked, made, how, due, chain,
                   health, selected, fastNode, setter>>

(* The nodes that are not direct, in their order.                          *)
Indirect(nodes) ==
    LET kept[i \in 0..Len(nodes)] ==
            IF i = 0 THEN <<>>
            ELSE IF nodes[i] = "DIRECT" THEN kept[i - 1] ELSE Append(kept[i - 1], nodes[i])
    IN kept[Len(nodes)]

(* Relay.proxies: each group of the list is replaced, in the list all      *)
(* callers share, by the node it leads to for this destination; the direct *)
(* ones are left out.                                                      *)
Unwrapped(n, d) == IF n \in DOMAIN LeadsTo THEN LeadsTo[n][d] ELSE n
Unwrap(c) ==
    /\ pc[c] = "got" /\ setup.type = "relay"
    /\ LET nodes == [i \in DOMAIN val[c] |-> Unwrapped(val[c][i], dest[c])] IN
       /\ val' = [w \in Callers |-> IF w = c \/ (val[w] = val[c] /\ val[w] = result) THEN nodes ELSE val[w]]
       /\ result' = IF result = val[c] THEN nodes ELSE result
       /\ left' = [left EXCEPT ![c] = Indirect(nodes)]
    /\ pc' = [pc EXCEPT ![c] = "dial"] /\ chain' = [chain EXCEPT ![c] = <<>>]
    /\ UNCHANGED <<last, leader, inner, madeAt, calls, dest, started, asked, made, how, due, picked, Stays>>

(* The caller is done; it may ask again.                                   *)
Ends(c) ==
    /\ pc' = [pc EXCEPT ![c] = "idle"] /\ val' = [val EXCEPT ![c] = <<>>]
    /\ started' = [started EXCEPT ![c] = 0] /\ asked' = [asked EXCEPT ![c] = 0]
    /\ made' = [made EXCEPT ![c] = 0] /\ how' = [how EXCEPT ![c] = None]
    /\ due' = [due EXCEPT ![c] = {}] /\ left' = [left EXCEPT ![c] = <<>>]
    /\ chain' = [chain EXCEPT ![c] = <<>>] /\ picked' = [picked EXCEPT ![c] = TRUE]
    /\ UNCHANGED <<calls, dest>>

(* DialContext of the node that was picked: it is alive if it answers.     *)
Dial(c) ==
    /\ pc[c] = "dial" /\ setup.type # "relay"
    /\ \E ok \in setup.answers : alive' = [alive EXCEPT ![left[c][1]] = ok]
    /\ Ends(c)
    /\ UNCHANGED <<setup, list, now, single, delay, tests, choice, setter>>

(* Relay.DialContext: each node carries the connection to the next one,    *)
(* the last one to the destination; without nodes it is a direct one.      *)
\* bug: the first node carries all connections
CarrierFirst(c) == IF chain[c] = <<>> THEN left[c][1] ELSE chain[c][1][1]
Carrier(c) == left[c][1]
Hop(c) ==
    /\ pc[c] = "dial" /\ setup.type = "relay"
    /\ IF left[c] = <<>> THEN /\ pc' = [pc EXCEPT ![c] = IF chain[c] = <<>> THEN "direct" ELSE "chained"]
                              /\ UNCHANGED <<left, chain>>
       ELSE \/ /\ chain' = [chain EXCEPT ![c] = Append(@, <<Carrier(c),
                                IF Len(left[c]) = 1 THEN dest[c] ELSE left[c][2]>>)]
               /\ left' = [left EXCEPT ![c] = Tail(@)] /\ UNCHANGED pc
            \/ pc' = [pc EXCEPT ![c] = "failed"] /\ UNCHANGED <<left, chain>>
    /\ UNCHANGED <<single, val, calls, dest, started, asked, made, how, due, picked, Stays>>

Again(c) ==
    /\ pc[c] \in {"direct", "chained", "failed"} /\ Ends(c)
    /\ UNCHANGED <<single, Stays>>

-----------------------------------------------------------------------------
(* updateProxy of the API: Selector.Set, then the file.  Set writes the    *)
(* name and resets the shared look-up, without a lock.                     *)
Uses == <<setup, list, now, result, leader, inner, madeAt, health, fastNode, idx>>
CallerStays == <<pc, val, calls, dest, started, asked, made, how, left, chain, picked>>

Set(s) ==
    /\ setpc[s] = "idle" /\ setup.type = "select"
    /\ \E name \in Names(Nodes) :
        IF Named(Members, name) = {}
        THEN /\ setpc' = [setpc EXCEPT ![s] = "over"]
             /\ UNCHANGED <<want, selected, raced, due>>
        ELSE /\ setpc' = [setpc EXCEPT ![s] = "reset"] /\ want' = [want EXCEPT ![s] = name]
             /\ selected' = name /\ due' = [c \in Callers |-> due[c] \cup {name}]
             /\ raced' = (raced \/ \E o \in Setters : setpc[o] \in {"reset", "store"})
    /\ settled' = IF setpc'[s] = "reset" THEN None ELSE settled
    /\ UNCHANGED <<Uses, last, CallerStays, stored>>

\* bug: the shared look-up is not reset
ResetNot == last
Reset == 0
SetResets(s) ==
    /\ setpc[s] = "reset" /\ setpc' = [setpc EXCEPT ![s] = "store"]
    /\ last' = Reset
    /\ settled' = IF leader = None /\ Named(Members, selected) # {} THEN selected ELSE None
    /\ UNCHANGED <<Uses, CallerStays, due, selected, want, stored, raced>>

(* CacheFile.SetSelected; at the next start the group selects that name.   *)
\* bug: the file gets the name the group uses at that moment, before it is set
WrittenStale(s) == NameOf[Members[1]]
Written(s) == want[s]
SetSelected(s) ==
    /\ setpc[s] = "store" /\ setpc' = [setpc EXCEPT ![s] = "over"]
    /\ stored' = Written(s)
    /\ UNCHANGED <<Uses, last, CallerStays, due, selected, want, raced, settled>>

CallStep(c) == Ask(c) \/ Take(c) \/ Run(c) \/ Store(c) \/ Pick(c) \/ Unwrap(c) \/ Dial(c) \/ Hop(c) \/ Again(c)
SetStep(s) == Set(s) \/ SetResets(s) \/ SetSelected(s)
GNext ==
    \/ Tick \/ Tested \/ NewList
    \/ \E c \in Callers : CallStep(c)
    \/ \E s \in Setters : SetStep(s)
Spec == Init /\ [][GNext]_gvars

-----------------------------------------------------------------------------
(* One look-up is under way at a time, and it is the leader's; nobody      *)
(* waits for a look-up that is over.                                       *)
TypeOK ==
    /\ \A c \in Callers : pc[c] \in {"run", "store"} <=> leader = c
    /\ \A c \in Callers : pc[c] = "wait" => leader # None /\ pc[leader] = "run"
    /\ \A c \in Callers : pc[c] = "got" => val[c] # <<>>

(* What a caller is given was made less than Wait before it asked, or by a *)
(* look-up that was still under way.                                       *)
FreshEnough == \A c \in Callers : pc[c] = "got" /\ how[c] = "cached" => made[c] + Wait > asked[c]

(* After a node was selected while no look-up was under way, nobody who    *)
(* asks later is given the one selected before.                            *)
SelectionFollowed ==
    \A c \in Callers : setup.type = "select" /\ pc[c] = "got" => NameOf[val[c][1]] \in due[c]

(* A group that looks for a living node finds one if there is one.         *)
LivingNodePicked == setup.type \in {"fallback", "round-robin"} => \A c \in Callers : picked[c]

(* After a look-up no living node of the list is faster than the one in    *)
(* use by more than the tolerance.                                         *)
NoneMuchFaster ==
    [][\A c \in Callers : setup.type = "url-test" /\ pc[c] = "run" /\ pc'[c] = "store" =>
            \A n \in Listed(inner'.value) : alive[n] =>
                LastDelay(val'[c][1]) <= LastDelay(n) + setup.tolerance]_gvars

(* A chain visits its nodes in their order, each one asked for the next    *)
(* one, the last one for the destination.                                  *)
ChainInOrder ==
    \A c \in Callers : pc[c] = "chained" =>
        /\ chain[c][Len(chain[c])][2] = dest[c]
        /\ \A i \in 1..(Len(chain[c]) - 1) : chain[c][i][2] = chain[c][i + 1][1]

(* Unless two requests to select overlapped, what the next start selects   *)
(* is what is selected now.                                                *)
StoredIsSelected ==
    ~raced /\ (\E s \in Setters : setpc[s] = "over" /\ want[s] # None)
           /\ (\A s \in Setters : setpc[s] \in {"idle", "over"}) => stored = selected
=============================================================================
