------------------------------- MODULE MCServe -------------------------------
(***************************************************************************)
(* Instances of the modules about a configuration in use: what it says     *)
(* (Config), the listeners it opens (Listeners), the providers it loads    *)
(* (Providers), the groups that choose a node (Groups), fake addresses     *)
(* (FakeIP), and the tunnel a new configuration is put into (Tunnel).      *)
(* They share no variable: `moves` is chosen at the start, and the others  *)
(* stay in one initial state.                                              *)
(***************************************************************************)
EXTENDS Tunnel

CONSTANTS
    FakeHosts, Sizes, Ranges,
    Kinds, Users, Asks, Ports, Configured,
    Raws,
    Updaters, ProviderSetups, Contents, Good, NodesOf, Checks, Slots, MaxHistory, MaxTicks,
    Dialers, Setters, GroupSetups, NameOf, LeadsTo, Dests, Wait, InnerWait, Top

VARIABLES
    moves,
    size, range, lru, offset, given, used,
    allowLan, tcp, udp, closed, open, asks, listenPc, ports, toCome, alone, failed,
    raw, phase, error, parsed, providers, indegree, graph, queue, sorted,
    setup, source, file, updatePc, buf, local, hash, nodes, checked, published, stopped, done,
    dropped, list, todo, running, tokens, history, alive, ticks, edits, overlapped,
    group, members, now, last, result, leader, inner, groupPc, val, calls, dest, started, asked,
    made, how, due, madeAt, settled, left, chain, picked, answers, delay, tests, selected,
    fastNode, idx, setpc, want, stored, raced

F == INSTANCE FakeIP WITH Hosts <- FakeHosts
L == INSTANCE Listeners WITH Callers <- Users, pc <- listenPc, left <- toCome
C == INSTANCE Config WITH proxies <- parsed
P == INSTANCE Providers WITH Callers <- Updaters, Setups <- ProviderSetups, pc <- updatePc,
        proxies <- nodes
G == INSTANCE Groups WITH Callers <- Dialers, Setups <- GroupSetups, setup <- group,
        list <- members, pc <- groupPc, alive <- answers

fvars == <<size, range, lru, offset, given, used>>
lvars == <<allowLan, tcp, udp, closed, open, asks, listenPc, ports, toCome, alone, failed>>
cvars == <<raw, phase, error, parsed, providers, indegree, graph, queue, sorted>>
pvars == <<setup, source, file, updatePc, buf, local, hash, nodes, checked, published, stopped,
           done, dropped, list, todo, running, tokens, history, alive, ticks, edits, overlapped>>
gvars == <<group, members, now, last, result, leader, inner, groupPc, val, calls, dest, started,
           asked, made, how, due, madeAt, settled, left, chain, picked, answers, delay, tests,
           selected, fastNode, idx, setpc, want, stored, raced>>

servevars == <<moves, vars, fvars, lvars, cvars, pvars, gvars>>

(* These constants meet what the theorems ask of them.                     *)
ASSUME ServeConstants ==
    TunnelAssumption /\ L!ListenersAssumption /\ P!ProvidersAssumption /\ G!GroupsAssumption
    /\ F!FakeAssumption /\ C!ConfigAssumption

-----------------------------------------------------------------------------
(* Tunnel: five configurations that differ in nodes, rules, mode and DNS.  *)
ARule(hs, as, res, to) == [hosts |-> hs, addrs |-> as, resolve |-> res, to |-> to]
MCHosts == {"x", "y"}
Conf1 == [proxies |-> {"p", "q", "DIRECT", "GLOBAL"}, mode |-> "rule", dns |-> "fakeip",
          rules |-> <<ARule({"x"}, {}, FALSE, "p"), ARule({}, {Real("y")}, TRUE, "q"),
                      ARule(MCHosts, {Real("x"), Real("y")}, FALSE, "q")>>]
Conf2 == [proxies |-> {"q", "r", "DIRECT", "GLOBAL"}, mode |-> "rule", dns |-> "fakeip",
          rules |-> <<ARule({"x"}, {}, FALSE, "r"), ARule({}, {}, TRUE, "r"),
                      ARule({"x"}, {Real("x")}, FALSE, "q")>>]
Conf3 == [Conf1 EXCEPT !.dns = "mapping", !.mode = "global"]
Conf4 == [Conf2 EXCEPT !.dns = "off"]
Conf5 == [Conf2 EXCEPT !.dns = "mapping", !.mode = "direct"]
AClient == CHOOSE c \in Clients : TRUE
MCWants == {[c \in Clients |-> IF c = AClient THEN "x" ELSE "y"]}
MCStarts == {Conf2, Conf3}
MCConfs == {Conf1, Conf2, Conf3, Conf4, Conf5}

(* Listeners: the first caller is a reload.                                *)
AUser == CHOOSE c \in Users : TRUE
Patches == [kind : Kinds, port : Ports \cup {99}, lan : {"yes", "no", "keep"}]
Whole == [kind : {"all"}, port : {99}, lan : {"yes", "no"}]
MCAsks == {f \in [Users -> Patches \cup Whole] : f[AUser].kind = "all"}
PortsOf(h, r, m) == [k \in Kinds |-> IF k = "http" THEN h ELSE IF k = "redir" THEN r ELSE m]
MCConfigured == {PortsOf(1, 0, 2), PortsOf(0, 1, 2), PortsOf(2, 2, 1), PortsOf(0, 0, 1),
                 PortsOf(0, 2, 0)}

(* Config: group graphs, and one thing wrong at a time.                    *)
Server0 == [enable |-> TRUE, servers |-> 1, default |-> "ip", enhanced |-> "fakeip", range |-> 16]
AGroup(n, ps, u, t) == [name |-> n, proxies |-> ps, use |-> u, type |-> t]
Raw0 == [nodes |-> <<"p">>, providers |-> {"pd"}, targets |-> {"g", "GLOBAL"}, dns |-> Server0,
         groups |-> <<AGroup("g", <<"p", "h">>, {}, "select"),
                      AGroup("h", <<"DIRECT">>, {"pd"}, "fallback")>>]
MemberLists == {<<"p">>, <<"g", "p">>, <<"h", "p">>, <<"k", "h">>, <<"h", "h">>, <<"g", "k">>,
                <<"p", "k">>}
MCRaws ==
    {[Raw0 EXCEPT !.groups = <<AGroup("g", a, {}, "select"), AGroup("h", b, {}, "url-test"),
                               AGroup("k", c, {}, "relay")>>] : a, b, c \in MemberLists}
    \cup {[Raw0 EXCEPT !.nodes = ns, !.targets = ts] :
            ns \in {<<>>, <<"p">>, <<"p", "p">>, <<"DIRECT">>, <<"p", "g">>, <<"p", "GLOBAL">>},
            ts \in SUBSET {"g", "x", "GLOBAL"}}
    \cup {[Raw0 EXCEPT !.providers = pd, !.groups[1].type = t, !.groups[1].use = u] :
            pd \in SUBSET {"pd", "g", "default"}, t \in {"select", "other"},
            u \in SUBSET {"pd", "h", "k"}}
    \cup {[Raw0 EXCEPT !.groups[2].proxies = ps, !.groups[2].use = u, !.groups[2].name = n] :
            ps \in {<<>>, <<"x">>, <<"p">>}, u \in {{}, {"pd"}}, n \in {"h", "g", "p"}}
    \cup {[Raw0 EXCEPT !.dns = [enable |-> e, servers |-> s, default |-> d, enhanced |-> m,
                                range |-> r]] :
            e \in BOOLEAN, s \in {0, 1}, d \in {"none", "ip", "name"},
            m \in {"normal", "fakeip"}, r \in {0, 1, 2, 16}}

(* Providers: updates of a file or a download, or health checks.           *)
MCNodesOf == [c \in {1, 2} |-> IF c = 1 THEN {"n", "o"} ELSE {"n"}]
MCProviderSetups ==
    {[vehicle |-> v, pulls |-> TRUE, checks |-> FALSE, calls |-> Updaters, edits |-> 1] :
        v \in {"http", "file"}}
    \cup {[vehicle |-> "http", pulls |-> FALSE, checks |-> TRUE, calls |-> {}, edits |-> 0]}

(* Groups: one of each type; a2 and b2 are a and b of the next list.       *)
MCNameOf == [n \in {"a", "b", "e", "a2", "b2", "g", "DIRECT"} |->
                CASE n = "a2" -> "a" [] n = "b2" -> "b" [] OTHER -> n]
MCLeads == [g \in {"g"} |-> [d \in {"d1", "d2"} |-> IF d = "d1" THEN "a" ELSE "b"]]
Abc == <<"a", "b", "e">>
GroupSetup(t, ls, os, n, k1, k2, sec) ==
    [type |-> t, lists |-> ls, delays |-> {0, 1, 3}, tests |-> n, tolerance |-> 1, answers |-> os,
     calls |-> [c \in Dialers |-> IF c = "c1" THEN k1 ELSE k2], time |-> sec]
MCGroupSetups ==
    {GroupSetup("select", <<<<"a", "b">>, <<"b2">>>>, {TRUE}, 0, 1, 1, 2),
     GroupSetup("fallback", <<Abc>>, BOOLEAN, 0, 2, 1, 4),
     GroupSetup("round-robin", <<Abc>>, BOOLEAN, 2, 2, 0, 2),
     GroupSetup("hashing", <<Abc>>, {FALSE}, 0, 2, 0, 3),
     GroupSetup("url-test", <<Abc, <<"b2", "a2">>>>, {TRUE}, 3, 2, 0, 3),
     GroupSetup("relay", <<<<"e", "DIRECT", "g", "b">>>>, {TRUE}, 0, 1, 1, 3),
     GroupSetup("relay", <<<<"DIRECT">>>>, {TRUE}, 0, 1, 0, 2)}

-----------------------------------------------------------------------------
ServeInit ==
    /\ moves \in {"tunnel", "fakeip", "listeners", "config", "providers", "groups"}
    /\ Init
    /\ (moves = "tunnel" \/ (applied[0] = Conf3 /\ \A c \in Clients : way[c] = "addr"))
    /\ F!Init /\ (moves = "fakeip" \/ <<size, range>> = <<1, 2>>)
    /\ L!Init /\ (moves = "listeners" \/ asks = CHOOSE a \in MCAsks : TRUE)
    /\ C!Init /\ (moves = "config" \/ raw = Raw0)
    /\ P!Init /\ (moves = "providers" \/ (setup.checks /\ source = 1 /\ file = 0))
    /\ G!Init /\ (moves = "groups" \/ group.type = "hashing")

ServeNext ==
    \/ /\ moves = "tunnel" /\ Next
       /\ UNCHANGED <<moves, fvars, lvars, cvars, pvars, gvars>>
    \/ /\ moves = "fakeip" /\ F!Next
       /\ UNCHANGED <<moves, vars, lvars, cvars, pvars, gvars>>
    \/ /\ moves = "listeners" /\ L!Next
       /\ UNCHANGED <<moves, vars, fvars, cvars, pvars, gvars>>
    \/ /\ moves = "config" /\ C!Next
       /\ UNCHANGED <<moves, vars, fvars, lvars, pvars, gvars>>
    \/ /\ moves = "providers" /\ P!PNext
       /\ UNCHANGED <<moves, vars, fvars, lvars, cvars, gvars>>
    \/ /\ moves = "groups" /\ G!GNext
       /\ UNCHANGED <<moves, vars, fvars, lvars, cvars, pvars>>

(* The fairness of the modules that have some; the others never move.      *)
ServeSpec ==
    /\ ServeInit
    /\ [][ServeNext]_servevars
    /\ WF_vars(moves = "tunnel" /\ ReloadStep /\ step # "idle")
    /\ \A c \in Clients : WF_vars(moves = "tunnel" /\ ConnStep(c) /\ pc[c] # "ask")
    /\ \A a \in P!Actors : WF_pvars(moves = "providers" /\ P!UpdateStep(a))
    /\ \A k \in Checks : WF_pvars(moves = "providers" /\ P!TestStep(k))
    /\ \A l \in {"pull", "check"} : WF_pvars(moves = "providers" /\ P!LoopEnds(l))

-----------------------------------------------------------------------------
(* The types of whichever module moves.                                    *)
ServeTypeOK ==
    CASE moves = "tunnel" -> TypeOK
      [] moves = "fakeip" -> F!TypeOK
      [] moves = "listeners" -> L!TypeOK
      [] moves = "config" -> C!TypeOK
      [] moves = "providers" -> P!TypeOK
      [] moves = "groups" -> G!TypeOK

(* While configurations are replaced, a connection is sent where one of    *)
(* them sends it, the address it was told leads back to the name it asked  *)
(* for, and a fake address is never dialled.                               *)
RoutedAsConfigured == moves = "tunnel" => OneConfiguration /\ LedBack /\ FakeNotDialled

(* The names used last are remembered in both directions, with an address  *)
(* of their own, however the bounded list evicts its entries.              *)
RecentRemembered == moves = "fakeip" => F!RecentRemembered

(* Overlapping changes of ports and of allow-lan, with sockets that fail   *)
(* to open, leave no listener where the last word does not want it, no UDP *)
(* half without its TCP half, and after a request that ran alone every     *)
(* port it asked for is served.                                            *)
ListenersServe == moves = "listeners" => L!SameAddress /\ L!LastWordOnLan /\ L!AloneIsServed

(* Reading a configuration: groups are made after their members whatever   *)
(* the order of the map, loops are found and named, and it is accepted     *)
(* exactly when it is sound.                                               *)
ConfigurationSound == moves = "config" => C!MadeAfterMembers /\ C!LoopsReported /\ C!AcceptsTheSound

(* A provider tests and remembers what it uses, unless two updates         *)
(* overlapped, and the copy it keeps on disk can be read by the next start. *)
ProvidersSound == moves = "providers" => P!SameMeansInstalled /\ P!KeptCopyParses

(* What a group answers: not older than it may be, the selected node, a    *)
(* living one if there is one, the nodes of a relay in their order, and    *)
(* what is stored is what is selected.                                     *)
GroupsFollow ==
    moves = "groups" =>
        /\ G!FreshEnough /\ G!SelectionFollowed /\ G!LivingNodePicked
        /\ G!ChainInOrder /\ G!StoredIsSelected

(* A reload that began is carried through, a health check gets its tokens  *)
(* back, and the loop of a provider nobody uses ends.                      *)
ServeEnds ==
    /\ []<>(moves = "tunnel" => NoReload)
    /\ \A k \in Checks : []<>(moves = "providers" => P!Free(k))
    /\ <>[](moves = "providers" => P!LoopStopped)

(* What no step does: hand out the gateway before the other addresses, or  *)
(* keep a node when a living one is faster by more than the tolerance.     *)
ServeSteps == F!GatewayLast /\ G!NoneMuchFaster
=============================================================================
