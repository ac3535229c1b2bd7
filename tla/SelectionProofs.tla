--------------------------- MODULE SelectionProofs ---------------------------
(* Proofs about Selection for any nodes, names, lists, rules, and any      *)
(* number of select requests and connections.                              *)
EXTENDS Selection, TLAPS

(* The type invariant, for any number of handlers and connections.         *)
THEOREM TypeCorrect == Spec => []TypeOK
<1> USE SelectionAssumption DEF Dialers, Strategies
<1>1. Init => TypeOK
  BY DEF Init, TypeOK, NoReply, Replies
<1>2. TypeOK /\ [Next]_vars => TypeOK'
  <2> SUFFICES ASSUME TypeOK, [Next]_vars PROVE TypeOK'
    OBVIOUS
  <2> USE DEF TypeOK
  <2>1. CASE World
    BY <2>1 DEF World, PublishList, SetStrategy, UnselectProxy
  <2>2. ASSUME NEW g \in Dialers, Fail(g) \/ Close(g) PROVE TypeOK'
    <3>1. reply' \in [Selectors -> Replies]
      <4>1. ASSUME NEW st \in {"failed", "connected"} PROVE Answer(g, st) \in [Selectors -> Replies]
        <5>1. CASE g \in Selectors
          <6>1. [status |-> st, asked |-> want[g], tested |-> node[g],
                 alone |-> ~disturbed[g]] \in Replies
            BY <5>1, <4>1 DEF Replies
          <6>2. QED
            BY <5>1, <6>1 DEF Answer
        <5>2. CASE g \notin Selectors
          BY <5>2 DEF Answer
        <5>3. QED
          BY <5>1, <5>2
      <4>2. QED
        BY <2>2, <4>1 DEF Fail, Close
    <3>2. End(g)
      BY <2>2 DEF Fail, Close
    <3>3. QED
      BY <3>1, <3>2 DEF End
  <2>3. ASSUME NEW g \in Dialers, DialStep(g) PROVE TypeOK'
    <3>1. CASE ReadName(g)
      BY <3>1 DEF ReadName, Goto
    <3>2. CASE DialSucceeds(g)
      BY <3>2 DEF DialSucceeds, Goto
    <3>3. ASSUME NEW i \in DOMAIN list, FindNode(g, i) PROVE TypeOK'
      <4>1. list[i] \in Nodes
        BY <3>3
      <4>2. QED
        BY <3>3, <4>1 DEF FindNode, FindWith, Goto
    <3>4. QED
      BY <2>2, <2>3, <3>1, <3>2, <3>3 DEF DialStep, ReadNoName, FindNothing, DialFails
  <2>4. ASSUME NEW h \in Selectors, NEW n \in Nodes, SelectProxy(h, n) PROVE TypeOK'
    BY <2>4 DEF SelectProxy, Goto, Selected, NoReply, Replies
  <2>5. ASSUME NEW c \in Conns, ConnStep(c) PROVE TypeOK'
    <3>1. CASE \E a \in Hosts : Accept(c, a)
      BY <3>1 DEF Accept, Goto
    <3>2. CASE Route(c)
      BY <3>2 DEF Route, Goto
    <3>3. CASE DirectSucceeds(c)
      BY <3>3 DEF DirectSucceeds, Goto
    <3>4. QED
      BY <2>2, <2>5, <3>1, <3>2, <3>3 DEF ConnStep, DirectFails
  <2>6. CASE UNCHANGED vars
    BY <2>6 DEF vars
  <2>7. QED
    BY <2>1, <2>2, <2>3, <2>4, <2>5, <2>6 DEF Next
<1>3. QED
  BY <1>1, <1>2, PTL DEF Spec

(* What a dial in progress knows: it has seen the present settings, and    *)
(* what it has read so far is among what it has seen.                      *)
DialInv(g) ==
    /\ pc[g] \notin {"idle", "open"} =>
           /\ selected \in seen[g].names
           /\ Reachable(list) \subseteq seen[g].nodes
           /\ strategy \in seen[g].strategies
    /\ pc[g] = "direct" => want[g] \in RuleHosts /\ "china_bypass" \in seen[g].strategies
    /\ pc[g] \in {"name", "find", "dial"} =>
           (g \in Conns /\ want[g] \in RuleHosts => "all_proxy" \in seen[g].strategies)
    /\ pc[g] \in {"idle", "route", "direct", "name", "find"} => node[g] = NoNode
    /\ pc[g] \in {"find", "dial"} => name[g] \in seen[g].names
    /\ pc[g] = "dial" => NameOf[node[g]] = name[g] /\ node[g] \in seen[g].nodes
    /\ pc[g] = "open" /\ g \in Conns => Justified(g)
    /\ pc[g] = "open" /\ g \in Selectors => NameOf[node[g]] \in seen[g].names
    /\ g \in Selectors => pc[g] \notin {"route", "direct"}

RouteInv == \A g \in Dialers : DialInv(g)

(* Whatever others do, a dial that does not move keeps what it knows.      *)
LEMMA OthersStay ==
    ASSUME See, NEW g \in Dialers, DialInv(g),
           UNCHANGED <<pc[g], want[g], name[g], node[g]>>
    PROVE  DialInv(g)'
<1>1. CASE pc[g] = "idle"
  BY <1>1 DEF DialInv
<1>2. CASE pc[g] = "open"
  <2>1. seen'[g] = seen[g]
    BY <1>2 DEF See
  <2>2. QED
    BY <1>2, <2>1 DEF DialInv, Justified
<1>3. CASE pc[g] \notin {"idle", "open"}
  <2>1. seen'[g] = [names |-> seen[g].names \cup {selected'},
                    nodes |-> seen[g].nodes \cup Reachable(list'),
                    strategies |-> seen[g].strategies \cup {strategy'}]
    BY <1>3 DEF See
  <2>2. Reachable(list)' = Reachable(list')
    BY DEF Reachable, First
  <2>3. QED
    BY <1>3, <2>1, <2>2 DEF DialInv
<1>4. QED
  BY <1>1, <1>2, <1>3

(* A step after which the dial is still on its way has seen its settings.  *)
LEMMA StillSees ==
    ASSUME See, NEW g \in Dialers, pc'[g] \notin {"idle", "open"}
    PROVE  /\ selected' \in seen'[g].names /\ seen[g].names \subseteq seen'[g].names
           /\ Reachable(list)' \subseteq seen'[g].nodes
           /\ seen[g].nodes \subseteq seen'[g].nodes
           /\ strategy' \in seen'[g].strategies
           /\ seen[g].strategies \subseteq seen'[g].strategies
<1>1. seen'[g] = [names |-> seen[g].names \cup {selected'},
                  nodes |-> seen[g].nodes \cup Reachable(list'),
                  strategies |-> seen[g].strategies \cup {strategy'}]
  BY DEF See
<1>2. Reachable(list)' = Reachable(list')
  BY DEF Reachable, First
<1>3. QED
  BY <1>1, <1>2

(* An ended dial knows nothing.                                            *)
LEMMA EndedDial ==
    ASSUME TypeOK, RouteInv, NEW g \in Dialers, End(g)
    PROVE  RouteInv'
<1>1. See /\ DialInv(g)'
  BY SelectionAssumption DEF End, DialInv, TypeOK
<1>2. \A q \in Dialers \ {g} : UNCHANGED <<pc[q], want[q], name[q], node[q]>>
  BY DEF End, TypeOK
<1>3. QED
  BY <1>1, <1>2, OthersStay DEF RouteInv

LEMMA RouteStep == TypeOK /\ RouteInv /\ [Next]_vars => RouteInv'
<1> SUFFICES ASSUME TypeOK, RouteInv, [Next]_vars PROVE RouteInv'
  OBVIOUS
<1>0. /\ pc \in [Dialers -> {"idle", "route", "direct", "name", "find", "dial", "open"}]
      /\ want \in [Dialers -> Nodes \cup Hosts \cup {NoNode}]
      /\ name \in [Dialers -> Names \cup {NoName}]
      /\ node \in [Dialers -> Nodes \cup {NoNode}]
      /\ Selectors \cap Conns = {} /\ Dialers = Selectors \cup Conns
      /\ NoNode \notin Nodes
  BY SelectionAssumption DEF TypeOK, Dialers
<1>1. CASE World
  <2>1. See /\ UNCHANGED <<pc, want, name, node>>
    BY <1>1 DEF World, PublishList, SetStrategy, UnselectProxy
  <2>2. QED
    BY <2>1, OthersStay DEF RouteInv
<1>2. ASSUME NEW g \in Dialers, Fail(g) \/ Close(g) PROVE RouteInv'
  BY <1>2, EndedDial DEF Fail, Close
<1>3. ASSUME NEW g \in Dialers, ReadName(g) PROVE RouteInv'
  <2>1. See /\ pc[g] = "name" /\ pc' = [pc EXCEPT ![g] = "find"]
        /\ name' = [name EXCEPT ![g] = selected]
        /\ UNCHANGED <<selected, want, node>>
    BY <1>3 DEF ReadName, Goto
  <2>2. DialInv(g)'
    BY <1>0, <2>1, StillSees DEF RouteInv, DialInv
  <2>3. QED
    BY <1>0, <2>1, <2>2, OthersStay DEF RouteInv
<1>4. ASSUME NEW g \in Dialers, NEW i \in DOMAIN list, FindNode(g, i) PROVE RouteInv'
  <2>1. See /\ pc[g] = "find" /\ pc' = [pc EXCEPT ![g] = "dial"]
        /\ node' = [node EXCEPT ![g] = list[i]]
        /\ UNCHANGED <<want, name>>
    BY <1>4 DEF FindNode, FindWith, Goto
  <2>2. NameOf[list[i]] = name[g] /\ list[i] \in Reachable(list)
    BY <1>4 DEF FindNode, Found, Reachable, First
  <2>3. DialInv(g)'
    BY <1>0, <2>1, <2>2, StillSees DEF RouteInv, DialInv
  <2>4. QED
    BY <1>0, <2>1, <2>3, OthersStay DEF RouteInv
<1>5. ASSUME NEW g \in Dialers, DialSucceeds(g) PROVE RouteInv'
  <2>1. See /\ pc[g] = "dial" /\ pc' = [pc EXCEPT ![g] = "open"]
        /\ UNCHANGED <<want, name, node>>
    BY <1>5 DEF DialSucceeds, Goto
  <2>2. seen'[g] = seen[g]
    BY <1>0, <2>1 DEF See
  <2>3. node[g] \in Nodes /\ name[g] = NameOf[node[g]] /\ name[g] \in seen[g].names
        /\ node[g] \in seen[g].nodes
        /\ (g \in Conns /\ want[g] \in RuleHosts => "all_proxy" \in seen[g].strategies)
    BY <2>1 DEF RouteInv, DialInv, TypeOK
  <2>4. g \in Conns => Justified(g)'
    BY <1>0, <2>1, <2>2, <2>3 DEF Justified
  <2>5. DialInv(g)'
    BY <1>0, <2>1, <2>2, <2>3, <2>4 DEF DialInv
  <2>6. QED
    BY <1>0, <2>1, <2>5, OthersStay DEF RouteInv
<1>6. ASSUME NEW h \in Selectors, NEW n \in Nodes, SelectProxy(h, n) PROVE RouteInv'
  <2>1. See /\ pc[h] = "idle" /\ pc' = [pc EXCEPT ![h] = "name"]
        /\ want' = [want EXCEPT ![h] = n] /\ UNCHANGED <<name, node>>
    BY <1>6 DEF SelectProxy, Goto
  <2>2. DialInv(h)'
    BY <1>0, <2>1, StillSees DEF RouteInv, DialInv
  <2>3. QED
    BY <1>0, <2>1, <2>2, OthersStay DEF RouteInv
<1>7. ASSUME NEW c \in Conns, NEW a \in Hosts, Accept(c, a) PROVE RouteInv'
  <2>1. See /\ pc[c] = "idle" /\ pc' = [pc EXCEPT ![c] = "route"]
        /\ want' = [want EXCEPT ![c] = a] /\ UNCHANGED <<name, node>>
    BY <1>7 DEF Accept, Goto
  <2>2. DialInv(c)'
    BY <1>0, <2>1, StillSees DEF RouteInv, DialInv
  <2>3. QED
    BY <1>0, <2>1, <2>2, OthersStay DEF RouteInv
<1>8. ASSUME NEW c \in Conns, Route(c) PROVE RouteInv'
  <2>1. See /\ pc[c] = "route" /\ UNCHANGED <<strategy, want, name, node>>
        /\ pc' = [pc EXCEPT ![c] = IF ShouldDirect(want[c]) THEN "direct" ELSE "name"]
    BY <1>8 DEF Route, Goto
  <2>2. strategy \in {"china_bypass", "all_proxy"}
    BY DEF TypeOK, Strategies
  <2>3. DialInv(c)'
    BY <1>0, <2>1, <2>2, StillSees DEF RouteInv, DialInv, ShouldDirect
  <2>4. QED
    BY <1>0, <2>1, <2>3, OthersStay DEF RouteInv
<1>9. ASSUME NEW c \in Conns, DirectSucceeds(c) PROVE RouteInv'
  <2>1. See /\ pc[c] = "direct" /\ pc' = [pc EXCEPT ![c] = "open"]
        /\ UNCHANGED <<want, name, node>>
    BY <1>9 DEF DirectSucceeds, Goto
  <2>2. seen'[c] = seen[c]
    BY <1>0, <2>1 DEF See
  <2>3. DialInv(c)'
    BY <1>0, <2>1, <2>2 DEF RouteInv, DialInv, Justified
  <2>4. QED
    BY <1>0, <2>1, <2>3, OthersStay DEF RouteInv
<1>10. CASE UNCHANGED vars
  <2>1. Reachable(list)' = Reachable(list)
    BY <1>10 DEF vars, Reachable, First
  <2>2. QED
    BY <1>10, <2>1 DEF vars, RouteInv, DialInv, Justified
<1>11. QED
  BY <1>0, <1>1, <1>2, <1>3, <1>4, <1>5, <1>6, <1>7, <1>8, <1>9, <1>10
     DEF Next, DialStep, ReadNoName, FindNothing, DialFails, ConnStep, DirectFails

(* For any lists, names and numbers of requests and connections: every     *)
(* connection goes where the settings it met since it began told it to.    *)
THEOREM RoutesAreJustified == Spec => []RouteJustified
<1>1. Init => RouteInv
  BY SelectionAssumption DEF Init, RouteInv, DialInv, Dialers
<1>2. RouteInv => RouteJustified
  BY DEF RouteInv, DialInv, RouteJustified, Dialers
<1>3. QED
  BY <1>1, <1>2, RouteStep, TypeCorrect, PTL DEF Spec

(* While nobody else selects or unselects, the selected name is the one    *)
(* asked for, and so is every name the test has read.                      *)
Undisturbed(h) ==
    pc[h] # "idle" /\ ~disturbed[h] =>
        /\ selected = NameOf[want[h]]
        /\ pc[h] \in {"find", "dial"} => name[h] = NameOf[want[h]]
        /\ pc[h] = "open" => NameOf[node[h]] = NameOf[want[h]]

TestInv ==
    \A h \in Selectors :
        /\ Undisturbed(h)
        /\ (reply[h].status = "connected" /\ reply[h].alone) =>
               NameOf[reply[h].tested] = NameOf[reply[h].asked]

LEMMA TestStep == TypeOK /\ RouteInv /\ TestInv /\ [Next]_vars => TestInv'
<1> SUFFICES ASSUME TypeOK, RouteInv, TestInv, [Next]_vars PROVE TestInv'
  OBVIOUS
<1>0. /\ pc \in [Dialers -> {"idle", "route", "direct", "name", "find", "dial", "open"}]
      /\ want \in [Dialers -> Nodes \cup Hosts \cup {NoNode}]
      /\ name \in [Dialers -> Names \cup {NoName}]
      /\ node \in [Dialers -> Nodes \cup {NoNode}]
      /\ reply \in [Selectors -> Replies] /\ disturbed \in [Selectors -> BOOLEAN]
      /\ Selectors \cap Conns = {} /\ Dialers = Selectors \cup Conns
  BY SelectionAssumption DEF TypeOK, Dialers
<1> USE <1>0 DEF TestInv, Undisturbed
<1>1. CASE World
  <2>1. CASE UnselectProxy
    <3>1. \A h \in Selectors : disturbed'[h] = (pc[h] # "idle")
      BY <2>1 DEF UnselectProxy
    <3>2. UNCHANGED <<pc, reply>>
      BY <2>1 DEF UnselectProxy
    <3>3. QED
      BY <3>1, <3>2
  <2>2. CASE (\E l \in Lists : PublishList(l)) \/ \E s \in Strategies : SetStrategy(s)
    BY <2>2 DEF PublishList, SetStrategy
  <2>3. QED
    BY <1>1, <2>1, <2>2 DEF World
<1>2. ASSUME NEW g \in Dialers, Fail(g) PROVE TestInv'
  <2>1. \A h \in Selectors : Undisturbed(h)'
    BY <1>2 DEF Fail, End
  <2>2. g \in Selectors => reply'[g].status = "failed"
    BY <1>2 DEF Fail, Answer
  <2>3. \A h \in Selectors \ {g} : reply'[h] = reply[h]
    BY <1>2 DEF Fail, Answer
  <2>4. QED
    BY <2>1, <2>2, <2>3
<1>3. ASSUME NEW g \in Dialers, Close(g) PROVE TestInv'
  <2>1. \A h \in Selectors : Undisturbed(h)'
    BY <1>3 DEF Close, End
  <2>2. g \in Selectors =>
            reply'[g] = [status |-> "connected", asked |-> want[g], tested |-> node[g],
                         alone |-> ~disturbed[g]]
    BY <1>3 DEF Close, Answer
  <2>3. \A h \in Selectors \ {g} : reply'[h] = reply[h]
    BY <1>3 DEF Close, Answer
  <2>4. g \in Selectors /\ ~disturbed[g] => NameOf[node[g]] = NameOf[want[g]]
    BY <1>3 DEF Close
  <2>5. g \in Selectors =>
            /\ reply'[g].alone = ~disturbed[g]
            /\ reply'[g].tested = node[g] /\ reply'[g].asked = want[g]
    BY <2>2
  <2>6. g \in Selectors /\ reply'[g].alone =>
            NameOf[reply'[g].tested] = NameOf[reply'[g].asked]
    BY <2>4, <2>5
  <2>7. QED
    BY <2>1, <2>3, <2>6
<1>4. ASSUME NEW g \in Dialers, ReadName(g) PROVE TestInv'
  BY <1>4 DEF ReadName, Goto
<1>5. ASSUME NEW g \in Dialers, NEW i \in DOMAIN list, FindNode(g, i) PROVE TestInv'
  BY <1>5 DEF FindNode, FindWith, Goto
<1>6. ASSUME NEW g \in Dialers, DialSucceeds(g) PROVE TestInv'
  <2>1. NameOf[node[g]] = name[g]
    BY <1>6 DEF DialSucceeds, Goto, RouteInv, DialInv
  <2>2. QED
    BY <1>6, <2>1 DEF DialSucceeds, Goto
<1>7. ASSUME NEW h \in Selectors, NEW n \in Nodes, SelectProxy(h, n) PROVE TestInv'
  <2>1. \A g \in Selectors \ {h} : ~disturbed'[g] => pc'[g] = "idle"
    BY <1>7 DEF SelectProxy, Goto
  <2>2. Undisturbed(h)'
    BY <1>7 DEF SelectProxy, Goto, Selected
  <2>3. reply'[h].status = "none"
    BY <1>7 DEF SelectProxy, NoReply
  <2>4. \A g \in Selectors \ {h} : reply'[g] = reply[g]
    BY <1>7 DEF SelectProxy
  <2>5. QED
    BY <2>1, <2>2, <2>3, <2>4
<1>8. ASSUME NEW c \in Conns, NEW a \in Hosts, Accept(c, a) PROVE TestInv'
  BY <1>8 DEF Accept, Goto
<1>9. ASSUME NEW c \in Conns, Route(c) \/ DirectSucceeds(c) PROVE TestInv'
  BY <1>9 DEF Route, DirectSucceeds, Goto
<1>10. CASE UNCHANGED vars
  BY <1>10 DEF vars
<1>11. QED
  BY <1>1, <1>2, <1>3, <1>4, <1>5, <1>6, <1>7, <1>8, <1>9, <1>10
     DEF Next, DialStep, ReadNoName, FindNothing, DialFails, ConnStep, DirectFails

(* For any number of select requests that interleave: "connected" is said  *)
(* of a node of the requested name unless another request came between.    *)
THEOREM TestsTheName == Spec => []TestOfTheName
<1>1. Init => RouteInv
  BY SelectionAssumption DEF Init, RouteInv, DialInv, Dialers
<1>2. Init => TestInv
  BY SelectionAssumption DEF Init, TestInv, Undisturbed, Dialers, NoReply
<1>3. RouteInv /\ TestInv => TestOfTheName
  BY DEF RouteInv, DialInv, TestInv, TestOfTheName, Dialers
<1>4. QED
  BY <1>1, <1>2, <1>3, RouteStep, TestStep, TypeCorrect, PTL DEF Spec
=============================================================================
