-------------------------------- MODULE Tunnel --------------------------------
(***************************************************************************)
(* Routing in the dialling library (tunnel/tunnel.go) while a new          *)
(* configuration is applied (hub/executor).  A client asks the DNS server  *)
(* for a name and connects to the address it was told, or connects by      *)
(* name.  ApplyConfig replaces the nodes, the rules, the mode and the      *)
(* resolver one after the other, and only the first two under a lock the   *)
(* connections take.  Adding an entry to a pool is atomic (FakeIP).        *)
(***************************************************************************)
EXTENDS Naturals, FiniteSets, Sequences

CONSTANTS
    Clients,
    Hosts,
    Wants,          \* which name each client may want
    Confs,          \* records [proxies, rules, mode, dns]
    Starts,         \* those in force at the start
    Reloads         \* bound: how often a configuration is applied

(* A rule: the names and the real addresses (that of name h is "real h")   *)
(* it is for, whether it wants the address looked up, where it leads.      *)
Direct == "DIRECT"
NoHost == "none"
Fake(n) == <<"fake", n>>
Real(h) == <<"real", h>>
NoAddr == <<"none", 0>>
Off == Reloads + 1   \* of no generation: no mapper, no DNS server

(* What is asked of the constants: names are finitely many, and the mark   *)
(* of none is none of them; a configuration is a record.                   *)
Modes == {"rule", "global", "direct"}
TunnelAssumption ==
    /\ IsFiniteSet(Hosts) /\ NoHost \notin Hosts
    /\ Wants \subseteq [Clients -> Hosts]
    /\ Reloads \in Nat
    /\ \A conf \in Starts \cup Confs :
        /\ conf = [proxies |-> conf.proxies, rules |-> conf.rules, mode |-> conf.mode, dns |-> conf.dns]
        /\ conf.mode \in Modes

VARIABLES
    proxies, rules, mode,       \* the configuration each was last taken from
    mapper, handler,            \* generation of the host mapper; of the DNS server's
    pool, mapping,              \* of each generation: fake addresses; real ones noted
    applied, next, step,        \* configurations of the generations; reload under way
    name, way,                  \* of each client: what it wants, "name" or "addr"
    pc, host, addr, dnsmode,    \* its connection and the metadata
    reading,                    \* the configuration whose rules it walks through
    route, dialled,             \* the node chosen, and what it was asked for
    between, unlucky            \* chosen between the two updates; asked in mid-reload

confvars == <<proxies, rules, mode, mapper, handler, applied, next, step>>
tables == <<pool, mapping>>
connvars == <<pc, host, addr, dnsmode, reading, route, dialled, between, unlucky>>
vars == <<confvars, tables, name, way, connvars>>

Generations == 0..Reloads
Numbers == 1..Cardinality(Hosts) + 1
Present(g) == applied[g]
ModeOf(g) == IF g = Off THEN "off" ELSE Present(g).dns

Init ==
    /\ applied \in [{0} -> Starts]
    /\ proxies = applied[0] /\ rules = applied[0] /\ mode = applied[0].mode
    /\ mapper = IF applied[0].dns = "off" THEN Off ELSE 0
    /\ handler = mapper
    /\ pool = [g \in Generations |-> [h \in Hosts |-> 0]]
    /\ mapping = [g \in Generations |-> {}]
    /\ next = applied[0] /\ step = "idle"
    /\ name \in Wants
    /\ way \in [Clients -> {"name", "addr"}]
    /\ pc = [c \in Clients |-> IF way[c] = "addr" THEN "ask" ELSE "arrived"]
    /\ host = [c \in Clients |-> IF way[c] = "addr" THEN NoHost ELSE name[c]]
    /\ addr = [c \in Clients |-> NoAddr]
    /\ dnsmode = [c \in Clients |-> "normal"]
    /\ reading = [c \in Clients |-> applied[0]]
    /\ route = [c \in Clients |-> NoHost]
    /\ dialled = [c \in Clients |-> NoAddr]
    /\ between = [c \in Clients |-> FALSE]
    /\ unlucky = [c \in Clients |-> FALSE]

Goes(c, where) == pc' = [pc EXCEPT ![c] = where]

-----------------------------------------------------------------------------
(* ApplyConfig, one after the other under executor.mux.                    *)

Generation == Cardinality(DOMAIN applied) - 1

Apply ==
    /\ step = "idle" /\ Generation < Reloads
    /\ next' \in Confs
    /\ step' = "proxies"
    /\ UNCHANGED <<proxies, rules, mode, mapper, handler, applied, tables, name, way, connvars>>

(* configMux: a writer waits for the readers inside match.                 *)
\* bug: the writers do not lock
UnlockedWrite == TRUE
MayWrite == \A c \in Clients : pc[c] # "match"

UpdateProxies ==
    /\ step = "proxies" /\ MayWrite
    /\ proxies' = next /\ step' = "rules"
    /\ UNCHANGED <<rules, mode, mapper, handler, applied, next, tables, name, way, connvars>>

UpdateRules ==
    /\ step = "rules" /\ MayWrite
    /\ rules' = next /\ step' = "general"
    /\ UNCHANGED <<proxies, mode, mapper, handler, applied, next, tables, name, way, connvars>>

UpdateGeneral ==
    /\ step = "general"
    /\ mode' = next.mode /\ step' = "patch"
    /\ UNCHANGED <<proxies, rules, mapper, handler, applied, next, tables, name, way, connvars>>

(* NewEnhancer and PatchFrom: the tables of the old mapper are copied into *)
(* those of the new one where both have such a table.                      *)
\* bug: the new mapper begins with an empty pool
PatchedMappingOnly(old, new) ==
    /\ mapping' = IF ModeOf(old) # "off" THEN [mapping EXCEPT ![new] = mapping[old]] ELSE mapping
    /\ UNCHANGED pool
Patched(old, new) ==
    /\ mapping' = IF ModeOf(old) # "off" THEN [mapping EXCEPT ![new] = mapping[old]] ELSE mapping
    /\ pool' = IF ModeOf(old) = "fakeip" /\ next.dns = "fakeip" THEN [pool EXCEPT ![new] = pool[old]] ELSE pool

PatchDNS ==
    /\ step = "patch"
    /\ LET g == Generation + 1 IN
       /\ applied' = [i \in 0..g |-> IF i = g THEN next ELSE applied[i]]
       /\ IF next.dns = "off" THEN UNCHANGED tables ELSE Patched(mapper, g)
    /\ step' = "mapper"
    /\ UNCHANGED <<proxies, rules, mode, mapper, handler, next, name, way, connvars>>

SetMapper ==
    /\ step = "mapper"
    /\ mapper' = IF next.dns = "off" THEN Off ELSE Generation
    /\ step' = "server"
    /\ UNCHANGED <<proxies, rules, mode, handler, applied, next, tables, name, way, connvars>>

(* ReCreateServer; its socket is not modelled.                             *)
\* bug: nothing is done when the address is the same
ServedBefore == IF handler # Off /\ mapper # Off THEN handler ELSE mapper
Served == mapper
SetHandler ==
    /\ step = "server"
    /\ handler' = Served
    /\ step' = "idle"
    /\ UNCHANGED <<proxies, rules, mode, mapper, applied, next, tables, name, way, connvars>>

ReloadStep == Apply \/ UpdateProxies \/ UpdateRules \/ UpdateGeneral \/ PatchDNS \/ SetMapper \/ SetHandler

-----------------------------------------------------------------------------
(* A DNS answer, by the tables of the handler that the server has.         *)

Free(g) == {n \in Numbers : \A h \in Hosts : pool[g][h] # n}
Lowest(S) == CHOOSE n \in S : \A m \in S : n <= m

Ask(c) ==
    /\ pc[c] = "ask" /\ handler # Off
    /\ LET h == name[c] IN
       IF ModeOf(handler) = "fakeip"
       THEN LET n == IF pool[handler][h] # 0 THEN pool[handler][h] ELSE Lowest(Free(handler)) IN
            /\ pool' = [pool EXCEPT ![handler][h] = n]
            /\ addr' = [addr EXCEPT ![c] = Fake(n)]
            /\ UNCHANGED mapping
       ELSE /\ mapping' = [mapping EXCEPT ![handler] = @ \cup {h}]
            /\ addr' = [addr EXCEPT ![c] = Real(h)]
            /\ UNCHANGED pool
    /\ unlucky' = [unlucky EXCEPT ![c] = step \in {"mapper", "server"}]
    /\ Goes(c, "arrived")
    /\ UNCHANGED <<confvars, name, way, host, dnsmode, reading, route, dialled, between>>

-----------------------------------------------------------------------------
(* preHandleMetadata reads resolver.DefaultHostMapper three times.         *)

ConnOnly(c) == UNCHANGED <<confvars, tables, name, way, between, unlucky>>

NeedLookupIP(c) ==
    /\ pc[c] = "arrived"
    /\ Goes(c, IF mapper # Off /\ host[c] = NoHost THEN "find" ELSE "mode")
    /\ UNCHANGED <<host, addr, dnsmode, reading, route, dialled>> /\ ConnOnly(c)

Leads(g, a, h) ==
    \/ ModeOf(g) = "fakeip" /\ pool[g][h] # 0 /\ a = Fake(pool[g][h])
    \/ ModeOf(g) # "off" /\ h \in mapping[g] /\ a = Real(h)
FindHostByIP(g, a) == IF g = Off THEN {} ELSE {h \in Hosts : Leads(g, a, h)}
IsFakeIP(g, a) == ModeOf(g) = "fakeip" /\ a[1] = "fake"

Find(c) ==
    /\ pc[c] = "find"
    /\ LET found == FindHostByIP(mapper, addr[c]) IN
       IF found # {}
       THEN host' = [host EXCEPT ![c] = CHOOSE h \in found : TRUE] /\ Goes(c, "found")
       ELSE Goes(c, "missing") /\ UNCHANGED host
    /\ UNCHANGED <<addr, dnsmode, reading, route, dialled>> /\ ConnOnly(c)

(* The address is forgotten only where it is a fake one.                   *)
Found(c) ==
    /\ pc[c] = "found"
    /\ IF ModeOf(mapper) = "fakeip"
       THEN addr' = [addr EXCEPT ![c] = NoAddr] /\ dnsmode' = [dnsmode EXCEPT ![c] = "fakeip"]
       ELSE dnsmode' = [dnsmode EXCEPT ![c] = "mapping"] /\ UNCHANGED addr
    /\ Goes(c, "mode")
    /\ UNCHANGED <<host, reading, route, dialled>> /\ ConnOnly(c)

\* bug: an address missing in the pool is taken for a real one
RefusedNever(g, a) == FALSE
Refused(g, a) == g # Off /\ IsFakeIP(g, a)
Missing(c) ==
    /\ pc[c] = "missing"
    /\ Goes(c, IF Refused(mapper, addr[c]) THEN "refused" ELSE "mode")
    /\ UNCHANGED <<host, addr, dnsmode, reading, route, dialled>> /\ ConnOnly(c)

(* resolveMetadata.                                                        *)
ResolveMetadata(c) ==
    /\ pc[c] = "mode"
    /\ IF mode = "rule" THEN Goes(c, "lock") /\ UNCHANGED route
       ELSE /\ route' = [route EXCEPT ![c] = IF mode = "direct" THEN Direct ELSE "GLOBAL"]
            /\ Goes(c, "dial")
    /\ UNCHANGED <<host, addr, dnsmode, reading, dialled>> /\ ConnOnly(c)

(* match: RLock, then the rules in order.  A rule that wants an address    *)
(* has the name resolved, once; a rule whose node is not there is passed.  *)
Lock(c) ==
    /\ pc[c] = "lock"
    /\ reading' = [reading EXCEPT ![c] = rules]
    /\ Goes(c, "match")
    /\ UNCHANGED <<host, addr, dnsmode, route, dialled>> /\ ConnOnly(c)

WantsAddress(rule, h, a) == rule.resolve /\ h # NoHost /\ a = NoAddr
ResolvesAt(rs, h, a) == {i \in DOMAIN rs : WantsAddress(rs[i], h, a)}
AddrAt(rs, i, h, a, ok) ==
    IF ok /\ \E j \in ResolvesAt(rs, h, a) : j <= i THEN Real(h) ELSE a
Matches(rs, i, h, a, ok) == h \in rs[i].hosts \/ AddrAt(rs, i, h, a, ok) \in rs[i].addrs
(* The rule taken with these rules and nodes; 0 when none is.              *)
Taken(rs, nodes, h, a, ok) ==
    LET good == {i \in DOMAIN rs : Matches(rs, i, h, a, ok) /\ rs[i].to \in nodes} IN
    IF good = {} THEN 0 ELSE Lowest(good)
Choice(rs, nodes, h, a, ok) ==
    LET i == Taken(rs, nodes, h, a, ok) IN IF i = 0 THEN Direct ELSE rs[i].to

(* Where it goes on; the lock is released by a defer.                      *)
\* bug: the lock is kept when no rule was taken
ReleasedIfTaken(i) == IF i = 0 THEN "match" ELSE "dial"
Released(i) == "dial"

Match(c) ==
    /\ pc[c] = "match"
    /\ \E ok \in IF host[c] = NoHost THEN {FALSE} ELSE BOOLEAN :
        LET rs == reading[c].rules
            i == Taken(rs, proxies.proxies, host[c], addr[c], ok)
            last == IF i = 0 THEN Len(rs) ELSE i IN
        /\ route' = [route EXCEPT ![c] = Choice(rs, proxies.proxies, host[c], addr[c], ok)]
        /\ addr' = [addr EXCEPT ![c] = AddrAt(rs, last, host[c], addr[c], ok)]
        /\ Goes(c, Released(i))
    /\ between' = [between EXCEPT ![c] = step = "rules"]
    /\ UNCHANGED <<confvars, tables, name, way, host, dnsmode, reading, dialled, unlucky>>

(* handleTCPConn dials metadata.Pure().                                    *)
Pure(c) == IF (dnsmode[c] = "mapping" /\ addr[c] # NoAddr) \/ host[c] = NoHost
           THEN addr[c] ELSE <<"name", host[c]>>
Dial(c) ==
    /\ pc[c] = "dial"
    /\ dialled' = [dialled EXCEPT ![c] = Pure(c)]
    /\ Goes(c, "done")
    /\ UNCHANGED <<host, addr, dnsmode, reading, route>> /\ ConnOnly(c)

ConnStep(c) == Ask(c) \/ NeedLookupIP(c) \/ Find(c) \/ Found(c) \/ Missing(c)
               \/ ResolveMetadata(c) \/ Lock(c) \/ Match(c) \/ Dial(c)

Next == ReloadStep \/ \E c \in Clients : ConnStep(c)

(* Goroutines run on; that somebody reloads or asks is not assumed.        *)
Fairness == /\ WF_vars(ReloadStep /\ step # "idle")
            /\ \A c \in Clients : WF_vars(ConnStep(c) /\ pc[c] # "ask")
Spec == Init /\ [][Next]_vars /\ Fairness

-----------------------------------------------------------------------------
(* The nodes are never older than the rules, nor the rules than the mode's *)
(* turn, and the mapper is that of the server or one newer.                *)
TypeOK ==
    /\ step \in {"proxies", "idle"} \/ proxies = next
    /\ step \in {"proxies", "rules", "idle"} \/ rules = next
    /\ step = "idle" => proxies = rules /\ handler = mapper
    /\ \A g \in Generations, h, k \in Hosts : pool[g][h] # 0 /\ pool[g][h] = pool[g][k] => h = k

(* Wherever a connection is sent, some one configuration in force sends it *)
(* there by its mode, or by its rules under the mode of another: the nodes *)
(* of one are never combined with the rules of another, as when a rule is  *)
(* passed over because its node is gone, except in the moment between the  *)
(* two updates.                                                            *)
Sends(conf, c) ==
    CASE conf.mode = "direct" -> route[c] = Direct
      [] conf.mode = "global" -> route[c] = "GLOBAL"
      [] conf.mode = "rule" -> \E ok \in BOOLEAN, a \in {addr[c], NoAddr} :
                                  route[c] = Choice(conf.rules, conf.proxies, host[c], a, ok)
OneConfiguration ==
    \A c \in Clients : pc[c] \in {"dial", "done"} /\ ~between[c] =>
        \E conf \in {applied[g] : g \in DOMAIN applied} \cup {next} :
            Sends(conf, c) \/ Sends([conf EXCEPT !.mode = "rule"], c)

(* While every configuration uses fake addresses, a client that was told   *)
(* its address outside the moment in which the server still uses the       *)
(* tables of the old mapper reaches the name it asked for, however many    *)
(* reloads there are, and is not refused.                                  *)
AlwaysFake == \A g \in DOMAIN applied : applied[g].dns = "fakeip"
LedBack ==
    \A c \in Clients : way[c] = "addr" /\ ~unlucky[c] /\ AlwaysFake =>
        pc[c] # "refused" /\ (host[c] # NoHost => host[c] = name[c])

(* A fake address is dialled only after some configuration turned fake     *)
(* addresses off.                                                          *)
FakeNotDialled == AlwaysFake => \A c \in Clients : dialled[c][1] # "fake"

(* A reload that has begun is carried through.                             *)
NoReload == step = "idle"
=============================================================================
