--------------------------------- MODULE Config ---------------------------------
(***************************************************************************)
(* Reading a configuration of the dialling library (config/config.go,      *)
(* config/utils.go, outboundgroup/parser.go): nodes, groups sorted by what *)
(* they contain, rules, DNS.  The order in which Go walks through a map    *)
(* is a choice of the model.                                               *)
(***************************************************************************)
EXTENDS Naturals, Sequences, FiniteSets

CONSTANT Raws       \* configurations as written, see RawFields

(* nodes: their names in order; groups: records [name, proxies, use, type];*)
(* providers: names, all of which load; targets: what the rules lead to;   *)
(* dns: [enable, servers, default, enhanced, range].                       *)
RawFields == {"nodes", "groups", "providers", "targets", "dns"}

VARIABLES
    raw, phase,
    error,          \* why it was refused
    proxies,        \* the names in the map
    providers,      \* the names in the provider map
    indegree,       \* of each name of the graph
    graph, queue,   \* names still in the graph, names to be taken out
    sorted          \* the groups; later those still to be made

vars == <<raw, phase, error, proxies, providers, indegree, graph, queue, sorted>>

Elements(seq) == {seq[i] : i \in DOMAIN seq}
Times(seq, e) == Cardinality({i \in DOMAIN seq : seq[i] = e})
Groups == raw.groups
GroupNames == {Groups[i].name : i \in DOMAIN Groups}
IsGroup(n) == n \in GroupNames
Group(n) == Groups[CHOOSE i \in DOMAIN Groups : Groups[i].name = n]
Members(n) == IF IsGroup(n) THEN Group(n).proxies ELSE <<>>
Mentioned == UNION {Elements(Groups[i].proxies) : i \in DOMAIN Groups}
Names == GroupNames \cup Mentioned

(* What is asked of the constant.                                          *)
ConfigAssumption ==
    \A r \in Raws :
        /\ r.nodes \in Seq(Elements(r.nodes))
        /\ r.groups \in Seq(Elements(r.groups))
        /\ \A g \in Elements(r.groups) :
            /\ g.proxies \in Seq(Elements(g.proxies))
            /\ g.type \in {"select", "relay", "url-test", "fallback", "load-balance", "other"}
        /\ r.dns.servers \in Nat /\ r.dns.default \in {"none", "name", "ip"}
        /\ r.dns.range \in Nat /\ (2 ^ r.dns.range <= 2 <=> r.dns.range < 2)

Init ==
    /\ raw \in Raws
    /\ phase = "nodes" /\ error = "none"
    /\ proxies = {"DIRECT", "REJECT"} /\ providers = {}
    /\ indegree = <<>> /\ graph = {} /\ queue = <<>> /\ sorted = <<>>

Refuse(why) == phase' = "refused" /\ error' = why
Go(where) == phase' = where /\ UNCHANGED error

-----------------------------------------------------------------------------
(* parseProxies: the nodes; a name must be new.                            *)
ParseNodes ==
    /\ phase = "nodes"
    /\ IF \E i \in DOMAIN raw.nodes :
            raw.nodes[i] \in {"DIRECT", "REJECT"} \/ Times(raw.nodes, raw.nodes[i]) > 1
       THEN Refuse("node") /\ UNCHANGED proxies
       ELSE Go("graph") /\ proxies' = proxies \cup Elements(raw.nodes)
    /\ UNCHANGED <<raw, providers, indegree, graph, queue, sorted>>

-----------------------------------------------------------------------------
(* proxyGroupsDagSort.                                                     *)

\* bug: a member named twice by one group is counted once
IndegreeOnce(n) == Cardinality({i \in DOMAIN Groups : n \in Elements(Groups[i].proxies)})
(* Where groups of S mention it, and how often all of them do.             *)
Mentions(n, S) == {at \in UNION {{g} \X DOMAIN Members(g) : g \in S} : Members(at[1])[at[2]] = n}
Indegree(n) == Cardinality(Mentions(n, GroupNames))

Orders(S) == {o \in [1..Cardinality(S) -> S] : Elements(o) = S}

(* Step 1.1.                                                               *)
BuildGraph ==
    /\ phase = "graph"
    /\ IF Cardinality(GroupNames) < Len(Groups)
       THEN Refuse("group twice") /\ UNCHANGED <<indegree, graph, queue>>
       ELSE /\ Go("sort")
            /\ graph' = Names
            /\ indegree' = [n \in Names |-> Indegree(n)]
            /\ queue' \in Orders({n \in Names : Indegree(n) = 0})
    /\ UNCHANGED <<raw, proxies, providers, sorted>>

(* Step 1.2: the first of the queue leaves; a group is put in front of     *)
(* those that left before, and its members lose one each time it names     *)
(* them.                                                                   *)
\* bug: the groups are kept in the order in which they leave
PlacedBehind(n) == Append(sorted, n)
Placed(n) == <<n>> \o sorted

Lost(n, m) == Times(Members(n), m)
Released(n) == {m \in Elements(Members(n)) : indegree[m] = Lost(n, m)}

Sort ==
    /\ phase = "sort" /\ queue # <<>>
    /\ LET n == Head(queue) IN
       /\ indegree' = [m \in DOMAIN indegree |-> indegree[m] - Lost(n, m)]
       /\ \E o \in Orders(Released(n)) : queue' = Tail(queue) \o o
       /\ sorted' = IF IsGroup(n) THEN Placed(n) ELSE sorted
       /\ graph' = graph \ {n}
    /\ UNCHANGED <<raw, phase, error, proxies, providers>>

SortEnds ==
    /\ phase = "sort" /\ queue = <<>>
    /\ Go(IF graph = {} THEN "providers" ELSE "prune")
    /\ UNCHANGED <<raw, proxies, providers, indegree, graph, queue, sorted>>

(* Step 2: what leads to no loop is taken out, the rest is reported.       *)
\* bug: what leads out of the graph is never taken out
LeavesNone == {}
Leaves == {n \in graph : Elements(Members(n)) \cap graph = {}}
Prune ==
    /\ phase = "prune"
    /\ IF Leaves # {} THEN (\E n \in Leaves : graph' = graph \ {n}) /\ UNCHANGED <<phase, error>>
       ELSE Refuse("loop") /\ UNCHANGED graph
    /\ UNCHANGED <<raw, proxies, providers, indegree, queue, sorted>>

-----------------------------------------------------------------------------
(* The providers, all of which load; "default" is not for the user.        *)
ParseProviders ==
    /\ phase = "providers"
    /\ IF "default" \in raw.providers THEN Refuse("provider") /\ UNCHANGED providers
       ELSE Go("groups") /\ providers' = raw.providers
    /\ UNCHANGED <<raw, proxies, indegree, graph, queue, sorted>>

(* ParseProxyGroup for the next group.  One without `use` gets a provider  *)
(* of its own name, which `use` must not name.                             *)
Known(g) == Elements(g.proxies) \subseteq proxies /\ g.use \subseteq raw.providers /\ g.use \subseteq providers
Fits(g) ==
    /\ g.proxies # <<>> \/ g.use # {}
    /\ Known(g)
    /\ g.proxies # <<>> /\ g.use = {} => g.name \notin providers
    /\ g.type \in {"select", "relay", "url-test", "fallback", "load-balance"}

ParseGroup ==
    /\ phase = "groups" /\ sorted # <<>>
    /\ LET g == Group(Head(sorted)) IN
       IF ~Fits(g) \/ g.name \in proxies
       THEN Refuse("group") /\ UNCHANGED <<proxies, providers, sorted>>
       ELSE /\ proxies' = proxies \cup {g.name}
            /\ providers' = IF g.use = {} THEN providers \cup {g.name} ELSE providers
            /\ sorted' = Tail(sorted)
            /\ UNCHANGED <<phase, error>>
    /\ UNCHANGED <<raw, indegree, graph, queue>>

(* GLOBAL contains all and replaces a node of that name.                   *)
GroupsEnd ==
    /\ phase = "groups" /\ sorted = <<>>
    /\ Go("rules")
    /\ proxies' = proxies \cup {"GLOBAL"}
    /\ providers' = providers \cup {"default"}
    /\ UNCHANGED <<raw, indegree, graph, queue, sorted>>

(* parseRules: every target must be there.                                 *)
MissingTargets == {t \in raw.targets : t \notin proxies}
ParseRules ==
    /\ phase = "rules"
    /\ IF MissingTargets # {} THEN Refuse("rule") ELSE Go("dns")
    /\ UNCHANGED <<raw, proxies, providers, indegree, graph, queue, sorted>>

(* parseDNS.  range is the number of host bits of the fake address range.  *)
\* bug: a range with too few addresses is taken
DNSErrorAny(d) == d.enable /\ d.servers = 0
DNSError(d) ==
    \/ d.enable /\ d.servers = 0
    \/ d.default \in {"none", "name"}
    \/ d.enhanced = "fakeip" /\ 2 ^ d.range <= 2
ParseDNS ==
    /\ phase = "dns"
    /\ IF DNSError(raw.dns) THEN Refuse("dns") ELSE Go("ok")
    /\ UNCHANGED <<raw, proxies, providers, indegree, graph, queue, sorted>>

Next == ParseNodes \/ BuildGraph \/ Sort \/ SortEnds \/ Prune \/ ParseProviders
        \/ ParseGroup \/ GroupsEnd \/ ParseRules \/ ParseDNS

Spec == Init /\ [][Next]_vars

-----------------------------------------------------------------------------
(* Reference: reachability between the groups.  A name reaches what every  *)
(* set contains that has its members and the members of its own.           *)

Step(n, m) == m \in Elements(Members(n))
Closed(n, S) == /\ \A m \in Names : Step(n, m) => m \in S
                /\ \A x \in S, m \in Names : Step(x, m) => m \in S
After(n) == {m \in Names : \A S \in SUBSET Names : Closed(n, S) => m \in S}
Reaches(n, m) == m \in After(n)
OnLoop == {n \in Names : Reaches(n, n)}
Between == {n \in Names : /\ \E l \in OnLoop : Reaches(l, n)
                          /\ \E l \in OnLoop : Reaches(n, l)}

(* The counts are those of the mentions by groups still in the graph, and  *)
(* the queue holds just the names nobody mentions any more.                *)
TypeOK ==
    phase = "sort" =>
        /\ \A n \in graph : indegree[n] = Cardinality(Mentions(n, graph \cap GroupNames))
        /\ \A n \in graph : indegree[n] = 0 <=> n \in Elements(queue)
        /\ Elements(queue) \subseteq graph

(* Every group is made after the groups it contains, whatever the order in *)
(* which the map is walked through.                                        *)
MadeAfterMembers ==
    phase = "providers" =>
        /\ Elements(sorted) = GroupNames /\ Len(sorted) = Len(Groups)
        /\ \A i, j \in DOMAIN sorted : Step(sorted[i], sorted[j]) => j < i

(* A loop is found exactly when there is one, and the names reported are   *)
(* those on a loop and on the ways from loop to loop.                      *)
LoopsReported ==
    /\ error = "loop" => graph = Between /\ graph # {}
    /\ phase \in {"providers", "groups", "rules", "dns", "ok"} => OnLoop = {}

(* What is accepted is sound: every rule and every group leads to names    *)
(* that exist, the resolver has servers, none of which must be resolved by *)
(* itself, and the fake range has an address; and nothing sound is         *)
(* refused.                                                                *)
Distinct == LET all == raw.nodes \o [i \in DOMAIN Groups |-> Groups[i].name] IN
            \A i, j \in DOMAIN all : all[i] = all[j] => i = j
Everything == {"DIRECT", "REJECT"} \cup Elements(raw.nodes) \cup GroupNames
Sound ==
    /\ Distinct /\ \A n \in Elements(raw.nodes) \cup GroupNames : n \notin {"DIRECT", "REJECT"}
    /\ OnLoop = {} /\ Mentioned \subseteq Everything
    /\ "default" \notin raw.providers
    /\ \A i \in DOMAIN Groups : LET g == Groups[i] IN
        /\ g.use \subseteq raw.providers /\ (g.proxies # <<>> \/ g.use # {})
        /\ g.use = {} => g.name \notin raw.providers
        /\ g.type # "other"
    /\ raw.targets \subseteq Everything \cup {"GLOBAL"}
    /\ (raw.dns.enable => raw.dns.servers > 0) /\ raw.dns.default = "ip"
    /\ raw.dns.enhanced = "fakeip" => raw.dns.range >= 2
AcceptsTheSound == (phase = "ok" => Sound) /\ (phase = "refused" => ~Sound)
=============================================================================
