------------------------------ MODULE Selection ------------------------------
(***************************************************************************)
(* Node selection of proxypoolCheck, and where a connection of the mixed   *)
(* port goes.                                                              *)
(*                                                                         *)
(* POST /api/select stores the name of the node the user clicked and then  *)
(* tests whatever name is stored when the test begins.  A connection asks  *)
(* the rule manager whether its target is dialled directly; if not, it     *)
(* reads the selected name, looks it up in the list published last, and    *)
(* dials the first node of that name.  Name, list and strategy are read at *)
(* three different moments, while other handlers and refreshes change      *)
(* them.                                                                   *)
(***************************************************************************)
EXTENDS Naturals, Sequences

CONSTANTS
    Nodes, Names,
    NameOf,       \* NameOf[n]: the name node n is listed under
    Hosts,        \* targets of connections
    RuleHosts,    \* the targets the rules match
    Lists,        \* lists of nodes a refresh may publish
    Selectors,    \* POST /api/select handlers
    Conns,        \* connections of the mixed port
    NoName,       \* selectedName = ""
    NoNode        \* targetProxy == nil; also a connection dialled directly

ASSUME SelectionAssumption ==
    /\ NameOf \in [Nodes -> Names]
    /\ RuleHosts \subseteq Hosts
    /\ Lists \subseteq Seq(Nodes)
    /\ NoName \notin Names
    /\ NoNode \notin Nodes \cup Hosts
    /\ Selectors \cap Conns = {}

VARIABLES
    selected,   \* selectedName
    list,       \* the cache key "proxies"
    strategy,   \* RuleManager.strategy
    pc,         \* where each handler and connection is
    want,       \* the node clicked (a select request carries its name only), or
                \*   the target of a connection
    name,       \* the name dialSelectedProxy has read
    node,       \* targetProxy, then the node the connection runs through
    reply,      \* the answers of the select handlers
    seen,       \* history: names, nodes and strategies since g began to dial
    disturbed   \* history: the selection changed since handler h began

vars == <<selected, list, strategy, pc, want, name, node, reply, seen, disturbed>>

Dialers == Selectors \cup Conns
Strategies == {"china_bypass", "all_proxy"}
NoReply == [status |-> "none", asked |-> NoNode, tested |-> NoNode, alone |-> TRUE]
NothingSeen == [names |-> {}, nodes |-> {}, strategies |-> {}]

(* The node a lookup of its name finds: no earlier one has that name.      *)
First(l, i) == i \in DOMAIN l /\ \A j \in 1..(i - 1) : NameOf[l[j]] # NameOf[l[i]]
Reachable(l) == {l[i] : i \in {k \in DOMAIN l : First(l, k)}}

Init ==
    /\ selected = NoName
    /\ list = <<>>
    /\ strategy \in Strategies
    /\ pc = [g \in Dialers |-> "idle"]
    /\ want = [g \in Dialers |-> NoNode]
    /\ name = [g \in Dialers |-> NoName]
    /\ node = [g \in Dialers |-> NoNode]
    /\ reply = [h \in Selectors |-> NoReply]
    /\ seen = [g \in Dialers |-> NothingSeen]
    /\ disturbed = [h \in Selectors |-> FALSE]

Goto(g, from, to) ==
    /\ pc[g] = from
    /\ pc' = [pc EXCEPT ![g] = to]

(* What the dialers in progress have seen, the values of this step and     *)
(* those their dial began with included.                                   *)
See ==
    seen' = [g \in Dialers |->
        CASE pc'[g] = "idle" -> NothingSeen
          [] pc'[g] = "open" -> seen[g]
          [] OTHER -> [names |-> seen[g].names \cup {selected'},
                       nodes |-> seen[g].nodes \cup Reachable(list'),
                       strategies |-> seen[g].strategies \cup {strategy'}]]

-----------------------------------------------------------------------------
(* The world around a connection                                           *)

(* InitApp: SetProxies                                                     *)
PublishList(l) ==
    /\ list' = l
    /\ UNCHANGED <<selected, strategy, pc, want, name, node, reply, disturbed>>
    /\ See

(* POST /api/strategy and LoadStrategy                                     *)
SetStrategy(s) ==
    /\ strategy' = s
    /\ UNCHANGED <<selected, list, pc, want, name, node, reply, disturbed>>
    /\ See

(* POST /api/unselect                                                      *)
UnselectProxy ==
    /\ selected' = NoName
    /\ disturbed' = [h \in Selectors |-> pc[h] # "idle"]
    /\ UNCHANGED <<list, strategy, pc, want, name, node, reply>>
    /\ See

-----------------------------------------------------------------------------
(* POST /api/select                                                        *)

KeepSelected(old, new) == IF old = NoName THEN new ELSE old  \* bug: first one stays
Selected(old, new) == new

(* SelectProxyName; the name need not be one of the list any more.         *)
SelectProxy(h, n) ==
    /\ Goto(h, "idle", "name")
    /\ want' = [want EXCEPT ![h] = n]
    /\ selected' = Selected(selected, NameOf[n])
    /\ disturbed' = [g \in Selectors |-> g # h /\ pc[g] # "idle"]
    /\ reply' = [reply EXCEPT ![h] = NoReply]
    /\ UNCHANGED <<list, strategy, name, node>>
    /\ See

(* The test failed: answer 200 with status "failed"; the name stays.       *)
(* The dial of a connection failed: SOCKS5 reply 4 or HTTP 502, and close. *)
Answer(g, status) ==
    IF g \in Selectors
      THEN [reply EXCEPT ![g] = [status |-> status, asked |-> want[g], tested |-> node[g],
                                 alone |-> ~disturbed[g]]]
      ELSE reply

End(g) ==
    /\ pc' = [pc EXCEPT ![g] = "idle"]
    /\ want' = [want EXCEPT ![g] = NoNode]
    /\ name' = [name EXCEPT ![g] = NoName]
    /\ node' = [node EXCEPT ![g] = NoNode]
    /\ disturbed' = [h \in Selectors |-> h # g /\ disturbed[h]]
    /\ UNCHANGED <<selected, list, strategy>>
    /\ See

Fail(g) ==
    /\ reply' = Answer(g, "failed")
    /\ End(g)

(* The test connection is closed and the answer is "connected"; the relay  *)
(* of a connection ends, and both its sides are closed.                    *)
Close(g) ==
    /\ pc[g] = "open"
    /\ reply' = Answer(g, "connected")
    /\ End(g)

-----------------------------------------------------------------------------
(* dialSelectedProxy, for the test and for connections                     *)

ReadName(g) ==
    /\ pc[g] = "name" /\ selected # NoName
    /\ Goto(g, "name", "find")
    /\ name' = [name EXCEPT ![g] = selected]
    /\ UNCHANGED <<selected, list, strategy, want, node, reply, disturbed>>
    /\ See

ReadNoName(g) ==
    /\ pc[g] = "name" /\ selected = NoName
    /\ Fail(g)

Found(i, n) == First(list, i) /\ NameOf[list[i]] = n
FoundOther(i, n) == i \in DOMAIN list           \* bug: the name is not compared

FindWith(g, i) ==
    /\ Goto(g, "find", "dial")
    /\ node' = [node EXCEPT ![g] = list[i]]
    /\ UNCHANGED <<selected, list, strategy, want, name, reply, disturbed>>
    /\ See

FindOther(g, i) == FoundOther(i, name[g]) /\ FindWith(g, i)
FindNode(g, i) == Found(i, name[g]) /\ FindWith(g, i)

NotListed(n) == \A i \in DOMAIN list : NameOf[list[i]] # n

DialNothing(g) ==                       \* bug: targetProxy is not compared to nil
    /\ NotListed(name[g])
    /\ Goto(g, "find", "dial")
    /\ UNCHANGED <<selected, list, strategy, want, name, node, reply, disturbed>>
    /\ See
FindNothing(g) ==
    /\ pc[g] = "find" /\ NotListed(name[g])
    /\ Fail(g)

(* proxyToClash may fail, and the dial may fail or time out.               *)
DialFails(g) == pc[g] = "dial" /\ Fail(g)

DialSucceeds(g) ==
    /\ Goto(g, "dial", "open")
    /\ UNCHANGED <<selected, list, strategy, want, name, node, reply, disturbed>>
    /\ See

-----------------------------------------------------------------------------
(* A connection of the mixed port, after its handshake                     *)

Accept(c, a) ==
    /\ Goto(c, "idle", "route")
    /\ want' = [want EXCEPT ![c] = a]
    /\ UNCHANGED <<selected, list, strategy, name, node, reply, disturbed>>
    /\ See

ShouldDirect(a) == strategy = "china_bypass" /\ a \in RuleHosts

(* dialSelectedOrDirect                                                    *)
Route(c) ==
    /\ Goto(c, "route", IF ShouldDirect(want[c]) THEN "direct" ELSE "name")
    /\ UNCHANGED <<selected, list, strategy, want, name, node, reply, disturbed>>
    /\ See

DirectSucceeds(c) ==
    /\ Goto(c, "direct", "open")
    /\ UNCHANGED <<selected, list, strategy, want, name, node, reply, disturbed>>
    /\ See

DirectFails(c) == pc[c] = "direct" /\ Fail(c)

-----------------------------------------------------------------------------
World ==
    \/ \E l \in Lists : PublishList(l)
    \/ \E s \in Strategies : SetStrategy(s)
    \/ UnselectProxy

DialStep(g) ==
    \/ ReadName(g) \/ ReadNoName(g) \/ FindNothing(g) \/ DialFails(g) \/ DialSucceeds(g)
    \/ \E i \in DOMAIN list : FindNode(g, i)

ConnStep(c) ==
    \/ \E a \in Hosts : Accept(c, a)
    \/ Route(c) \/ DirectSucceeds(c) \/ DirectFails(c)

Next ==
    \/ World
    \/ \E g \in Dialers : DialStep(g) \/ Close(g)
    \/ \E h \in Selectors, n \in Nodes : SelectProxy(h, n)
    \/ \E c \in Conns : ConnStep(c)

Spec == Init /\ [][Next]_vars

-----------------------------------------------------------------------------
Replies == [status : {"none", "failed", "connected"}, asked : Nodes \cup {NoNode},
            tested : Nodes \cup {NoNode}, alone : BOOLEAN]

(* Types.  A dial has a node, and a connection that is dialled through     *)
(* none has a target.                                                      *)
TypeOK ==
    /\ selected \in Names \cup {NoName}
    /\ list \in Lists \cup {<<>>}
    /\ strategy \in Strategies
    /\ pc \in [Dialers -> {"idle", "route", "direct", "name", "find", "dial", "open"}]
    /\ want \in [Dialers -> Nodes \cup Hosts \cup {NoNode}]
    /\ \A h \in Selectors : want[h] \in Nodes \cup {NoNode}
    /\ \A g \in Dialers : pc[g] # "idle" => want[g] # NoNode
    /\ name \in [Dialers -> Names \cup {NoName}]
    /\ node \in [Dialers -> Nodes \cup {NoNode}]
    /\ \A g \in Dialers : pc[g] = "dial" => node[g] \in Nodes
    /\ reply \in [Selectors -> Replies]
    /\ disturbed \in [Selectors -> BOOLEAN]

(* A connection goes where the settings it met told it to: directly only   *)
(* for a target of the rules and under china_bypass at some moment since   *)
(* it began; otherwise through a node that was the first of its name in a  *)
(* list of that time, under a name selected at that time.  So nothing      *)
(* falls back to a direct connection, and after an unselect no new         *)
(* connection goes through a node.                                         *)
Justified(c) ==
    IF node[c] = NoNode
      THEN want[c] \in RuleHosts /\ "china_bypass" \in seen[c].strategies
      ELSE /\ NameOf[node[c]] \in seen[c].names /\ node[c] \in seen[c].nodes
           /\ want[c] \in RuleHosts => "all_proxy" \in seen[c].strategies

RouteJustified == \A c \in Conns : pc[c] = "open" => Justified(c)

(* When nobody else selects or unselects meanwhile, "connected" is said of *)
(* a node of the requested name; in any case of one selected meanwhile.    *)
TestOfTheName ==
    \A h \in Selectors :
        /\ (reply[h].status = "connected" /\ reply[h].alone) =>
               NameOf[reply[h].tested] = NameOf[reply[h].asked]
        /\ pc[h] = "open" => NameOf[node[h]] \in seen[h].names

(* README.md:96 "Select a proxy (...), returns connection test result".    *)
(* Not kept: the test reads the selected name again, and when another      *)
(* request has selected in between, "connected" is said of another node.   *)
ConnectedMeansTested ==
    \A h \in Selectors :
        reply[h].status = "connected" => NameOf[reply[h].tested] = NameOf[reply[h].asked]
=============================================================================
