------------------------------ MODULE ServeProofs ------------------------------
(* Proofs about the modules of a configuration in use, the tunnel it is    *)
(* put into first, and about their composition MCServe.                    *)
EXTENDS MCServe, FiniteSetTheorems, SequenceTheorems, WellFoundedInduction, TLAPS

-----------------------------------------------------------------------------
(* TUNNEL: any connections, names, configurations and number of reloads.   *)

(* The configurations that are or were in force, and the one under way.    *)
Known == {applied[g] : g \in DOMAIN applied} \cup {next}

Places == {"ask", "arrived", "find", "found", "missing", "mode", "lock", "match", "dial", "done", "refused"}

(* Nodes and rules come from known configurations, and from the same one   *)
(* but between their updates.                                              *)
ConfInv ==
    /\ Generation \in Nat /\ DOMAIN applied = 0..Generation
    /\ Known \subseteq Starts \cup Confs
    /\ step \in {"idle", "proxies", "rules", "general", "patch", "mapper", "server"}
    /\ step \in {"idle", "mapper", "server"} => next \in {applied[g] : g \in DOMAIN applied}
    /\ step \in {"proxies", "idle"} \/ proxies = next
    /\ step # "rules" => proxies = rules
    /\ rules \in Known
    /\ mode \in {conf.mode : conf \in Known}

(* While rules are matched they are not replaced.                          *)
ReadInv ==
    /\ pc \in [Clients -> Places]
    /\ DOMAIN reading = Clients /\ DOMAIN route = Clients
    /\ DOMAIN addr = Clients /\ DOMAIN host = Clients /\ DOMAIN between = Clients
    /\ \A c \in Clients : pc[c] = "match" => reading[c] = rules

(* Nothing of a connection that is to be dialled, or was, changes.         *)
Sent(c) == \E conf \in Known : Sends(conf, c) \/ Sends([conf EXCEPT !.mode = "rule"], c)
SentInv == \A c \in Clients : pc[c] \in {"dial", "done"} /\ ~between[c] => Sent(c)

(* How many generations there are when the latest is n.                    *)
LEMMA NumbersBelow == \A n \in Nat : Cardinality(0..n) = n + 1
  BY FS_Interval

(* What is known stays known.                                              *)
LEMMA KnownStays ==
    ASSUME ConfInv, [Next]_vars
    PROVE  Known \subseteq Known'
<1>1. CASE UNCHANGED <<applied, next>>
  BY <1>1 DEF Known
<1>2. CASE Apply
  BY <1>2 DEF Apply, Known, ConfInv
<1>3. CASE PatchDNS
  <2> DEFINE g == Generation + 1
  <2>1. applied' = [i \in 0..g |-> IF i = g THEN next ELSE applied[i]] /\ next' = next
    BY <1>3 DEF PatchDNS
  <2>2. g \in Nat /\ \A i \in DOMAIN applied : i \in 0..g /\ i # g
    BY DEF ConfInv
  <2> HIDE DEF g
  <2>3. \A i \in DOMAIN applied : i \in DOMAIN applied' /\ applied'[i] = applied[i]
    BY <2>1, <2>2
  <2>4. QED
    BY <2>1, <2>3 DEF Known
<1>4. CASE \E c \in Clients : ConnStep(c)
  BY <1>1, <1>4 DEF ConnStep, Ask, NeedLookupIP, Find, Found, Missing, ResolveMetadata, Lock, Match, Dial,
                    ConnOnly, confvars
<1>5. QED
  BY <1>1, <1>2, <1>3, <1>4 DEF Next, ReloadStep, UpdateProxies, UpdateRules, UpdateGeneral, SetMapper,
                                SetHandler, vars, confvars

(* No step of a reload mixes the nodes and rules of two configurations,    *)
(* except between the two updates.                                         *)
LEMMA ConfStays == ASSUME ConfInv, [Next]_vars PROVE ConfInv'
<1> USE DEF ConfInv
<1>1. Known \subseteq Known'
  BY KnownStays
<1>2. CASE Apply
  <2>1. next' \in Confs /\ step' = "proxies" /\ UNCHANGED <<applied, proxies, rules, mode>>
    BY <1>2 DEF Apply
  <2>2. Known' \subseteq Starts \cup Confs /\ Generation' = Generation
    BY <2>1 DEF Known, Generation
  <2>3. QED
    BY <1>1, <1>2, <2>1, <2>2 DEF Apply
<1>3. CASE UpdateProxies
  BY <1>3 DEF UpdateProxies, Known, Generation
<1>4. CASE UpdateRules
  BY <1>4 DEF UpdateRules, Known, Generation
<1>5. CASE UpdateGeneral
  BY <1>5 DEF UpdateGeneral, Known, Generation
<1>6. CASE PatchDNS
  <2> DEFINE g == Generation + 1
  <2>1. /\ applied' = [i \in 0..g |-> IF i = g THEN next ELSE applied[i]]
        /\ step = "patch" /\ step' = "mapper" /\ UNCHANGED <<next, proxies, rules, mode>>
    BY <1>6 DEF PatchDNS
  <2>2. g \in Nat /\ DOMAIN applied' = 0..g
    <3>1. Generation \in Nat
      OBVIOUS
    <3>2. QED
      BY <2>1, <3>1
  <2>3. Cardinality(0..g) = g + 1
    BY <2>2, NumbersBelow
  <2>4. Generation' = g
    BY <2>2, <2>3 DEF Generation
  <2>5. \A i \in 0..g : applied'[i] \in Known
    BY <2>1 DEF Known
  <2>6. Known' \subseteq Known
    BY <2>1, <2>2, <2>5 DEF Known
  <2>7. next \in {applied'[i] : i \in DOMAIN applied'}
    BY <2>1, <2>2
  <2> HIDE DEF g
  <2>8. QED
    BY <1>1, <2>1, <2>2, <2>4, <2>6, <2>7
<1>7. CASE SetMapper
  BY <1>7 DEF SetMapper, Known, Generation
<1>8. CASE SetHandler
  <2>1. step = "server" /\ step' = "idle" /\ UNCHANGED <<applied, next, proxies, rules, mode>>
    BY <1>8 DEF SetHandler
  <2>2. Known' = Known /\ Generation' = Generation
    BY <2>1 DEF Known, Generation
  <2>3. QED
    BY <2>1, <2>2
<1>9. CASE UNCHANGED confvars
  BY <1>9 DEF confvars, Known, Generation
<1>10. CASE \E c \in Clients : ConnStep(c)
  BY <1>9, <1>10 DEF ConnStep, Ask, NeedLookupIP, Find, Found, Missing, ResolveMetadata, Lock, Match, Dial,
                    ConnOnly
<1>11. QED
  BY <1>2, <1>3, <1>4, <1>5, <1>6, <1>7, <1>8, <1>9, <1>10 DEF Next, ReloadStep, vars

(* A connection that is matched outside the moment between the updates is  *)
(* sent by the rules and the nodes of one configuration.                   *)
LEMMA SentByRules ==
    ASSUME TunnelAssumption, ConfInv, ReadInv, NEW c \in Clients, Match(c), ~between'[c]
    PROVE  Sent(c)'
<1> DEFINE rs == rules.rules
<1>1. pc[c] = "match" /\ reading[c] = rules /\ UNCHANGED <<applied, next, host>>
  BY DEF Match, ReadInv, confvars
<1>2. step # "rules"
  BY DEF Match, ReadInv
<1>3. proxies = rules /\ rules \in Known
  BY <1>2 DEF ConfInv
<1>4. PICK ok \in BOOLEAN :
        /\ route' = [route EXCEPT ![c] = Choice(rs, rules.proxies, host[c], addr[c], ok)]
        /\ \E end : addr' = [addr EXCEPT ![c] = AddrAt(rs, end, host[c], addr[c], ok)]
  BY <1>1, <1>3 DEF Match
<1>5. addr[c] \in {addr'[c], NoAddr}
  BY <1>4 DEF ReadInv, AddrAt, ResolvesAt, WantsAddress
<1>6. route'[c] = Choice(rs, rules.proxies, host'[c], addr[c], ok)
  BY <1>1, <1>4 DEF ReadInv
<1>7. PICK conf \in Known : conf = rules
  BY <1>3
<1> DEFINE ruled == [conf EXCEPT !.mode = "rule"]
<1>8. ruled.mode = "rule" /\ ruled.rules = rs /\ ruled.proxies = rules.proxies
  BY <1>7 DEF TunnelAssumption, ConfInv
<1> HIDE DEF rs
<1>9. Sends(ruled, c)'
  <2> HIDE DEF ruled
  <2>1. \E a \in {addr'[c], NoAddr} : route'[c] = Choice(ruled.rules, ruled.proxies, host'[c], a, ok)
    BY <1>5, <1>6, <1>8
  <2>2. QED
    BY <1>8, <2>1 DEF Sends
<1>10. conf \in Known'
  BY <1>1 DEF Known
<1>11. QED
  BY <1>9, <1>10 DEF Sent

(* In the other modes the mode decides.                                    *)
LEMMA SentByMode ==
    ASSUME TunnelAssumption, ConfInv, ReadInv, NEW c \in Clients, ResolveMetadata(c), pc'[c] = "dial"
    PROVE  Sent(c)'
<1>1. mode # "rule" /\ route' = [route EXCEPT ![c] = IF mode = "direct" THEN Direct ELSE "GLOBAL"]
      /\ UNCHANGED <<applied, next>>
  BY DEF ResolveMetadata, ReadInv, Goes, ConnOnly, confvars
<1>2. PICK conf \in Known : mode = conf.mode
  BY DEF ConfInv
<1>3. conf.mode \in Modes
  BY <1>2 DEF ConfInv, TunnelAssumption
<1>4. Sends(conf, c)'
  BY <1>1, <1>2, <1>3 DEF Sends, Modes, ReadInv
<1>5. conf \in Known'
  BY <1>1, <1>2 DEF Known
<1>6. QED
  BY <1>4, <1>5 DEF Sent

(* Nodes, rules and marks of a connection on its way.                      *)
LEMMA ReadStays == ASSUME ConfInv, ReadInv, [Next]_vars PROVE ReadInv'
<1> USE DEF ReadInv, Goes, Places
<1>1. CASE ReloadStep
  <2>1. UNCHANGED connvars /\ (rules' = rules \/ MayWrite)
    BY <1>1 DEF ReloadStep, Apply, UpdateProxies, UpdateRules, UpdateGeneral, PatchDNS, SetMapper, SetHandler
  <2>2. QED
    BY <2>1 DEF connvars, MayWrite
<1>2. ASSUME NEW c \in Clients, Ask(c) PROVE ReadInv'
  BY <1>2 DEF Ask, confvars
<1>3. ASSUME NEW c \in Clients, NeedLookupIP(c) PROVE ReadInv'
  BY <1>3 DEF NeedLookupIP, ConnOnly, confvars
<1>4. ASSUME NEW c \in Clients, Find(c) PROVE ReadInv'
  BY <1>4 DEF Find, ConnOnly, confvars
<1>5. ASSUME NEW c \in Clients, Found(c) PROVE ReadInv'
  BY <1>5 DEF Found, ConnOnly, confvars
<1>6. ASSUME NEW c \in Clients, Missing(c) PROVE ReadInv'
  BY <1>6 DEF Missing, ConnOnly, confvars
<1>7. ASSUME NEW c \in Clients, ResolveMetadata(c) PROVE ReadInv'
  BY <1>7 DEF ResolveMetadata, ConnOnly, confvars
<1>8. ASSUME NEW c \in Clients, Lock(c) PROVE ReadInv'
  BY <1>8 DEF Lock, ConnOnly, confvars
<1>9. ASSUME NEW c \in Clients, Match(c) PROVE ReadInv'
  BY <1>9 DEF Match, confvars, Released
<1>10. ASSUME NEW c \in Clients, Dial(c) PROVE ReadInv'
  BY <1>10 DEF Dial, ConnOnly, confvars
<1>11. CASE UNCHANGED vars
  BY <1>11 DEF vars, confvars, connvars
<1>12. QED
  BY <1>1, <1>2, <1>3, <1>4, <1>5, <1>6, <1>7, <1>8, <1>9, <1>10, <1>11 DEF Next, ConnStep

(* What was sent stays sent, and nothing is sent otherwise.                *)
LEMMA SentStays ==
    ASSUME TunnelAssumption, ConfInv, ReadInv, SentInv, [Next]_vars
    PROVE  SentInv'
<1>1. Known \subseteq Known'
  BY KnownStays
<1>2. ASSUME NEW c \in Clients, Sent(c), UNCHANGED <<route[c], host[c], addr[c]>> PROVE Sent(c)'
  <2>1. PICK conf \in Known : Sends(conf, c) \/ Sends([conf EXCEPT !.mode = "rule"], c)
    BY <1>2 DEF Sent
  <2>2. Sends(conf, c)' \/ Sends([conf EXCEPT !.mode = "rule"], c)'
    BY <1>2, <2>1 DEF Sends
  <2>3. QED
    BY <1>1, <2>1, <2>2 DEF Sent
<1> SUFFICES ASSUME NEW d \in Clients, pc'[d] \in {"dial", "done"}, ~between'[d] PROVE Sent(d)'
  BY DEF SentInv
<1>3. ASSUME pc[d] \in {"dial", "done"}, UNCHANGED <<between[d], route[d], host[d], addr[d]>> PROVE Sent(d)'
  BY <1>2, <1>3 DEF SentInv
<1>4. CASE ReloadStep \/ UNCHANGED vars
  <2>1. UNCHANGED connvars
    BY <1>4 DEF vars, ReloadStep, Apply, UpdateProxies, UpdateRules, UpdateGeneral, PatchDNS, SetMapper, SetHandler
  <2>2. QED
    BY <1>3, <2>1 DEF connvars
<1>5. ASSUME NEW c \in Clients, ConnStep(c) PROVE Sent(d)'
  <2> USE DEF ReadInv, Goes
  <2>1. CASE c # d
    <3>1. pc'[d] = pc[d] /\ UNCHANGED <<between[d], route[d], host[d], addr[d]>>
      <4>1. CASE Ask(c) \/ NeedLookupIP(c) \/ Find(c) \/ Found(c)
        BY <2>1, <4>1 DEF Ask, NeedLookupIP, Find, Found, ConnOnly
      <4>2. CASE Missing(c) \/ ResolveMetadata(c) \/ Lock(c) \/ Dial(c)
        BY <2>1, <4>2 DEF Missing, ResolveMetadata, Lock, Dial, ConnOnly
      <4>3. CASE Match(c)
        BY <2>1, <4>3 DEF Match
      <4>4. QED
        BY <1>5, <4>1, <4>2, <4>3 DEF ConnStep
    <3>2. QED
      BY <1>3, <3>1
  <2>2. CASE c = d
    <3>1. CASE Match(d)
      BY <3>1, SentByRules
    <3>2. CASE ResolveMetadata(d)
      <4>1. pc'[d] = "dial"
        BY <3>2 DEF ResolveMetadata
      <4>2. QED
        BY <3>2, <4>1, SentByMode
    <3>3. CASE Dial(d)
      BY <1>3, <3>3 DEF Dial, ConnOnly
    <3>4. CASE Ask(d) \/ NeedLookupIP(d) \/ Find(d) \/ Found(d) \/ Missing(d) \/ Lock(d)
      <4>1. pc'[d] \notin {"dial", "done"}
        BY <3>4 DEF Ask, NeedLookupIP, Find, Found, Missing, Lock
      <4>2. QED
        BY <4>1
    <3>5. QED
      BY <1>5, <2>2, <3>1, <3>2, <3>3, <3>4 DEF ConnStep
  <2>3. QED
    BY <2>1, <2>2
<1>6. QED
  BY <1>4, <1>5 DEF Next

-----------------------------------------------------------------------------
(* Fake addresses.  The mapper in use is that of the latest generation but *)
(* between its making and SetMapper; the server's follows one step later.  *)
Latest == IF step = "mapper" THEN Generation - 1 ELSE Generation
Serving == IF step \in {"mapper", "server"} THEN Generation - 1 ELSE Generation

MapperInv ==
    /\ Generation \in Generations
    /\ step \in {"proxies", "rules", "general", "patch"} => Generation + 1 \in Generations
    /\ step \in {"mapper", "server"} => Generation # 0 /\ next = applied[Generation]
    /\ mapper \in {Off, Latest} /\ handler \in {Off, Serving}
    /\ step # "server" => handler = mapper
    /\ AlwaysFake => mapper # Off /\ handler # Off

(* No address of a pool belongs to two names.                              *)
PoolInv ==
    /\ pool \in [Generations -> [Hosts -> Numbers \cup {0}]]
    /\ \A g \in Generations : \A h, k \in Hosts : pool[g][h] # 0 /\ pool[g][h] = pool[g][k] => h = k

(* The latest tables, in use or about to be, lead from an address a client *)
(* was told in time to the name it asked for.                              *)
LeadsHome(c, ps, m, latest) ==
    \A g \in {m, latest} : ps[g][name[c]] # 0 /\ addr[c] = Fake(ps[g][name[c]])

Led(c) ==
    way[c] = "addr" /\ ~unlucky[c] /\ AlwaysFake =>
        /\ pc[c] \notin {"missing", "refused"}
        /\ host[c] \in {NoHost, name[c]}
        /\ pc[c] \in {"arrived", "find"} => host[c] = NoHost /\ LeadsHome(c, pool, mapper, Generation)

(* Who goes on to the rules or to a node no longer has a fake address.     *)
NotFake(c) ==
    /\ pc[c] = "ask" => host[c] = NoHost
    /\ pc[c] \in {"ask", "arrived"} /\ host[c] # NoHost => addr[c] = NoAddr
    /\ AlwaysFake => /\ pc[c] \in {"mode", "lock", "match", "dial", "done"} => addr[c][1] # "fake"
                     /\ dialled[c][1] # "fake"

AddrInv ==
    /\ name \in [Clients -> Hosts]
    /\ DOMAIN dnsmode = Clients /\ DOMAIN dialled = Clients /\ DOMAIN unlucky = Clients
    /\ \A c \in Clients : Led(c) /\ NotFake(c)

LedInv == MapperInv /\ PoolInv /\ AddrInv

(* Which steps may change what a connection is told.                       *)
LEMMA MapperStays ==
    ASSUME TunnelAssumption, ConfInv, MapperInv, [Next]_vars
    PROVE  MapperInv' /\ (AlwaysFake' => AlwaysFake)
<1> USE DEF MapperInv, ConfInv, Latest, Serving, Generations, TunnelAssumption
<1>1. CASE Apply
  <2>1. /\ step = "idle" /\ step' = "proxies" /\ Generation < Reloads
        /\ UNCHANGED <<applied, mapper, handler>>
    BY <1>1 DEF Apply
  <2>2. Generation' = Generation /\ (AlwaysFake' <=> AlwaysFake)
    BY <2>1 DEF Generation, AlwaysFake
  <2>3. QED
    BY <2>1, <2>2
<1>2. CASE UpdateProxies \/ UpdateRules \/ UpdateGeneral
  <2>1. /\ step \in {"proxies", "rules", "general"} /\ step' \in {"rules", "general", "patch"}
        /\ UNCHANGED <<applied, mapper, handler>>
    BY <1>2 DEF UpdateProxies, UpdateRules, UpdateGeneral
  <2>2. Generation' = Generation /\ (AlwaysFake' <=> AlwaysFake)
    BY <2>1 DEF Generation, AlwaysFake
  <2>3. QED
    BY <2>1, <2>2
<1>3. CASE PatchDNS
  <2> DEFINE g == Generation + 1
  <2>1. /\ applied' = [i \in 0..g |-> IF i = g THEN next ELSE applied[i]]
        /\ step = "patch" /\ step' = "mapper" /\ UNCHANGED <<next, mapper, handler>>
    BY <1>3 DEF PatchDNS
  <2>2. Generation \in Nat /\ g \in Nat /\ g \in Generations /\ g # 0
    BY <2>1
  <2>3. DOMAIN applied' = 0..g /\ Cardinality(0..g) = g + 1
    BY <2>1, <2>2, NumbersBelow
  <2>4. Generation' = g
    BY <2>2, <2>3 DEF Generation
  <2>5. next' = applied'[g]
    BY <2>1, <2>2
  <2>6. \A i \in DOMAIN applied : i \in DOMAIN applied' /\ applied'[i] = applied[i]
    BY <2>1, <2>2
  <2>7. AlwaysFake' => AlwaysFake
    BY <2>6 DEF AlwaysFake
  <2>8. Latest' = Latest /\ Serving' = Serving
    <3>1. g - 1 = Generation
      BY <2>2
    <3> HIDE DEF g
    <3>2. QED
      BY <3>1, <2>1, <2>4
  <2> HIDE DEF g
  <2>9. QED
    BY <2>1, <2>2, <2>4, <2>5, <2>7, <2>8
<1>4. CASE SetMapper
  <2>1. /\ step = "mapper" /\ step' = "server" /\ UNCHANGED <<applied, next, handler>>
        /\ mapper' = IF next.dns = "off" THEN Off ELSE Generation
    BY <1>4 DEF SetMapper
  <2>2. Generation' = Generation /\ (AlwaysFake' <=> AlwaysFake)
    BY <2>1 DEF Generation, AlwaysFake
  <2>3. Generation # Off /\ Generation \in DOMAIN applied
    BY DEF Off
  <2>4. AlwaysFake => next.dns # "off"
    BY <2>1, <2>3 DEF AlwaysFake
  <2>5. QED
    BY <2>1, <2>2, <2>3, <2>4
<1>5. CASE SetHandler
  <2>1. step = "server" /\ step' = "idle" /\ handler' = mapper /\ UNCHANGED <<applied, next, mapper>>
    BY <1>5 DEF SetHandler, Served
  <2>2. Generation' = Generation /\ (AlwaysFake' <=> AlwaysFake)
    BY <2>1 DEF Generation, AlwaysFake
  <2>3. QED
    BY <2>1, <2>2
<1>6. CASE UNCHANGED confvars
  <2>1. UNCHANGED <<applied, next, step, mapper, handler>>
    BY <1>6 DEF confvars
  <2>2. Generation' = Generation /\ (AlwaysFake' <=> AlwaysFake)
    BY <2>1 DEF Generation, AlwaysFake
  <2>3. QED
    BY <2>1, <2>2
<1>7. CASE \E c \in Clients : ConnStep(c)
  BY <1>6, <1>7 DEF ConnStep, Ask, NeedLookupIP, Find, Found, Missing, ResolveMetadata, Lock, Match, Dial,
                    ConnOnly
<1>8. QED
  BY <1>1, <1>2, <1>3, <1>4, <1>5, <1>6, <1>7 DEF Next, ReloadStep, vars

(* A set of numbers has a least one.                                       *)
LEMMA LeastNumber == ASSUME NEW T \in SUBSET Nat, T # {} PROVE \E n \in T : \A m \in T : n <= m
<1> DEFINE R == OpToRel(<, Nat)
<1>1. IsWellFoundedOn(R, Nat)
  BY NatLessThanWellFounded
<1>2. \A m, n \in Nat : <<m, n>> \in R <=> m < n
  BY DEF OpToRel
<1> HIDE DEF R
<1>3. PICK n \in T : \A m \in T : ~(<<m, n>> \in R)
  BY <1>1, WFMin
<1>4. QED
  <2> SUFFICES ASSUME NEW m \in T PROVE n <= m
    OBVIOUS
  <2>1. n \in Nat /\ m \in Nat /\ ~(m < n)
    BY <1>2, <1>3
  <2>2. QED
    BY <2>1

(* There are more numbers than names, so that one is free.                 *)
LEMMA FreeOne ==
    ASSUME TunnelAssumption, PoolInv, NEW g \in Generations
    PROVE  Free(g) # {} /\ Lowest(Free(g)) \in Free(g)
<1>1. IsFiniteSet(Hosts) /\ Cardinality(Hosts) \in Nat
  BY FS_CardinalityType DEF TunnelAssumption
<1>2. IsFiniteSet(Numbers) /\ Cardinality(Numbers) = Cardinality(Hosts) + 1
  BY <1>1, FS_Interval DEF Numbers
<1>3. Free(g) # {}
  <2> SUFFICES ASSUME Free(g) = {} PROVE FALSE
    OBVIOUS
  <2>1. \A n \in Numbers : \E h \in Hosts : pool[g][h] = n
    BY DEF Free
  <2> DEFINE holder == [n \in Numbers |-> CHOOSE h \in Hosts : pool[g][h] = n]
  <2>2. \A n \in Numbers : holder[n] \in Hosts /\ pool[g][holder[n]] = n
    BY <2>1
  <2>3. holder \in [Numbers -> Hosts]
    BY <2>2
  <2>4. \A n, m \in Numbers : holder[n] = holder[m] => n = m
    BY <2>2
  <2> HIDE DEF holder
  <2>5. \E f \in [Numbers -> Hosts] : \A n, m \in Numbers : f[n] = f[m] => n = m
    BY <2>3, <2>4
  <2>6. Cardinality(Hosts) < Cardinality(Numbers)
    BY <1>1, <1>2
  <2>7. \E n, m \in Numbers : n # m /\ holder[n] = holder[m]
    BY <1>1, <1>2, <2>3, <2>6, FS_PigeonHole
  <2>8. QED
    BY <2>4, <2>7
<1>4. Free(g) \in SUBSET Nat
  BY <1>1 DEF Free, Numbers
<1>5. \E n \in Free(g) : \A m \in Free(g) : n <= m
  BY <1>3, <1>4, LeastNumber
<1>6. QED
  BY <1>3, <1>5 DEF Lowest

(* An address once given stays, in the tables in use and in those to come. *)
Kept == \A h \in Hosts, n \in Nat \ {0} :
            (\A g \in {mapper, Generation} : pool[g][h] = n) =>
                \A g \in {mapper', Generation'} : pool'[g][h] = n

LEMMA PoolStays ==
    ASSUME TunnelAssumption, ConfInv, MapperInv, PoolInv, [Next]_vars
    PROVE  PoolInv' /\ (AlwaysFake' => Kept)
<1>1. mapper \in Generations \cup {Off} /\ handler \in Generations \cup {Off}
  BY DEF MapperInv, Latest, Serving, Generations, TunnelAssumption, ConfInv
<1>2. MapperInv' /\ (AlwaysFake' => AlwaysFake)
  BY MapperStays
<1>3. \A g \in Generations : g # Off
  BY DEF Generations, Off, TunnelAssumption
<1>4. CASE UNCHANGED <<pool, mapper, applied>>
  <2>1. Generation' = Generation
    BY <1>4 DEF Generation
  <2>2. QED
    BY <1>4, <2>1 DEF PoolInv, Kept
<1>5. CASE PatchDNS
  <2> DEFINE g == Generation + 1
  <2>1. g \in Generations /\ step = "patch"
    BY <1>5 DEF PatchDNS, MapperInv
  <2>2. Generation \in Generations /\ Generation # g
    BY DEF MapperInv, ConfInv
  <2>3. /\ mapper' = mapper /\ step' = "mapper" /\ next' = next
        /\ applied' = [i \in 0..g |-> IF i = g THEN next ELSE applied[i]]
        /\ pool' = pool \/ (ModeOf(mapper) = "fakeip" /\ pool' = [pool EXCEPT ![g] = pool[mapper]])
    BY <1>5 DEF PatchDNS, Patched, tables
  <2>4. ModeOf(mapper) = "fakeip" => mapper \in Generations
    BY <1>1 DEF ModeOf
  <2>5. PoolInv'
    <3> HIDE DEF g
    <3>1. QED
      BY <2>1, <2>3, <2>4 DEF PoolInv, Numbers
  <2>6. ASSUME AlwaysFake' PROVE mapper = Generation /\ Generation' = g /\ pool' = [pool EXCEPT ![g] = pool[mapper]]
    <3>1. Generation \in Nat /\ g \in Nat /\ DOMAIN applied' = 0..g
      BY <2>3 DEF ConfInv
    <3>2. Generation' = g
      <4>1. Cardinality(0..g) = g + 1
        BY <3>1, NumbersBelow
      <4>2. QED
        BY <3>1, <4>1 DEF Generation
    <3>3. applied'[g] = next /\ g \in DOMAIN applied'
      BY <2>3, <3>1
    <3>4. next.dns = "fakeip"
      BY <2>6, <3>3 DEF AlwaysFake
    <3>5. mapper # Off /\ mapper = Generation
      BY <1>2, <2>1, <2>6 DEF MapperInv, Latest
    <3>6. Generation \in DOMAIN applied
      BY <3>1 DEF ConfInv
    <3>7. ModeOf(mapper) = "fakeip"
      BY <1>2, <2>6, <3>5, <3>6 DEF AlwaysFake, ModeOf, Present
    <3> HIDE DEF g
    <3>8. QED
      BY <1>5, <3>2, <3>4, <3>5, <3>7 DEF PatchDNS, Patched, g
  <2> HIDE DEF g
  <2>7. AlwaysFake' => Kept
    BY <2>1, <2>2, <2>3, <2>6 DEF PoolInv, Kept
  <2>8. QED
    BY <2>5, <2>7
<1>6. CASE SetMapper
  <2>1. /\ pool' = pool /\ applied' = applied
        /\ mapper' = IF next.dns = "off" THEN Off ELSE Generation
    BY <1>6 DEF SetMapper, tables
  <2>2. Generation' = Generation
    BY <2>1 DEF Generation
  <2>3. AlwaysFake' => mapper' # Off
    BY <1>2 DEF MapperInv
  <2>4. QED
    BY <2>1, <2>2, <2>3 DEF PoolInv, Kept
<1>7. ASSUME NEW c \in Clients, Ask(c), pool' # pool
      PROVE  /\ PoolInv' /\ UNCHANGED <<mapper, applied>>
             /\ \A g \in Generations, h \in Hosts : pool[g][h] # 0 => pool'[g][h] = pool[g][h]
  <2>1. /\ handler # Off /\ UNCHANGED <<mapper, applied>>
        /\ \E n : /\ n = (IF pool[handler][name[c]] # 0 THEN pool[handler][name[c]] ELSE Lowest(Free(handler)))
                  /\ pool' = [pool EXCEPT ![handler][name[c]] = n]
    BY <1>7 DEF Ask, confvars
  <2>2. PICK n : /\ n = (IF pool[handler][name[c]] # 0 THEN pool[handler][name[c]] ELSE Lowest(Free(handler)))
                 /\ pool' = [pool EXCEPT ![handler][name[c]] = n]
    BY <2>1
  <2>3. handler \in Generations
    BY <1>1, <2>1
  <2>4. CASE name[c] \in Hosts /\ pool[handler][name[c]] = 0
    <3>1. n \in Free(handler)
      BY <2>2, <2>3, <2>4, FreeOne
    <3>2. n \in Numbers /\ \A h \in Hosts : pool[handler][h] # n
      BY <3>1 DEF Free
    <3>3. QED
      BY <2>1, <2>2, <2>3, <2>4, <3>2 DEF PoolInv, Numbers
  <2>5. CASE ~(name[c] \in Hosts /\ pool[handler][name[c]] = 0)
    <3>1. pool' = pool
      BY <2>2, <2>3, <2>5 DEF PoolInv
    <3>2. QED
      BY <1>7, <3>1
  <2>6. QED
    BY <2>4, <2>5
<1>8. ASSUME NEW c \in Clients, Ask(c), pool' # pool
      PROVE  PoolInv' /\ (AlwaysFake' => Kept)
  <2>1. PoolInv' /\ UNCHANGED <<mapper, Generation>>
    BY <1>7, <1>8 DEF Generation
  <2>2. AlwaysFake' => {mapper, Generation} \subseteq Generations
    BY <1>1, <1>2 DEF MapperInv
  <2>3. QED
    BY <1>7, <1>8, <2>1, <2>2 DEF Kept
<1>9. ASSUME NEW c \in Clients, ConnStep(c), ~(Ask(c) /\ pool' # pool) PROVE UNCHANGED <<pool, mapper, applied>>
  BY <1>9 DEF ConnStep, Ask, NeedLookupIP, Find, Found, Missing, ResolveMetadata, Lock, Match, Dial,
              ConnOnly, confvars, tables
<1>10. CASE UNCHANGED vars \/ Apply \/ UpdateProxies \/ UpdateRules \/ UpdateGeneral \/ SetHandler
  <2>1. UNCHANGED <<pool, mapper, applied>>
    BY <1>10 DEF vars, confvars, tables, Apply, UpdateProxies, UpdateRules, UpdateGeneral, SetHandler
  <2>2. QED
    BY <1>4, <2>1
<1>11. QED
  BY <1>4, <1>5, <1>6, <1>8, <1>9, <1>10 DEF Next, ReloadStep

(* What a client was told keeps leading home while others move.            *)
LEMMA OthersStay ==
    ASSUME TunnelAssumption, ConfInv, ReadInv, LedInv, [Next]_vars, NEW c \in Clients,
           UNCHANGED <<name, way, pc[c], host[c], addr[c], dialled[c], unlucky[c]>>
    PROVE  Led(c)' /\ NotFake(c)'
<1>1. (AlwaysFake' => AlwaysFake) /\ (AlwaysFake' => Kept) /\ Led(c) /\ NotFake(c)
  BY MapperStays, PoolStays DEF LedInv, AddrInv
<1>2. NotFake(c)'
  BY <1>1 DEF NotFake
<1>3. ASSUME AlwaysFake', LeadsHome(c, pool, mapper, Generation) PROVE LeadsHome(c, pool, mapper, Generation)'
  <2> DEFINE n == pool[mapper][name[c]]
  <2>1. mapper \in Generations /\ Generation \in Generations
    BY <1>1, <1>3 DEF LedInv, MapperInv, ConfInv, Latest, Generations, TunnelAssumption
  <2>2. name[c] \in Hosts /\ n \in Nat \ {0}
    BY <1>3, <2>1 DEF LedInv, AddrInv, PoolInv, Numbers, LeadsHome
  <2>3. addr[c] = Fake(n) /\ addr[c] = Fake(pool[Generation][name[c]])
    BY <1>3 DEF LeadsHome
  <2>4. pool[Generation][name[c]] = n
    BY <2>3 DEF Fake
  <2>5. \A g \in {mapper', Generation'} : pool'[g][name[c]] = n
    <3> HIDE DEF n
    <3>1. \A g \in {mapper, Generation} : pool[g][name[c]] = n
      BY <2>4 DEF n
    <3>2. QED
      BY <1>1, <1>3, <2>2, <3>1 DEF Kept
  <2> HIDE DEF n
  <2>6. QED
    BY <2>2, <2>3, <2>5 DEF LeadsHome
<1>4. Led(c)'
  BY <1>1, <1>3 DEF Led
<1>5. QED
  BY <1>2, <1>4

(* Where every configuration has fake addresses, so have the tables used.  *)
LEMMA FakeInUse ==
    ASSUME TunnelAssumption, ConfInv, MapperInv, AlwaysFake
    PROVE  /\ mapper \in Generations /\ mapper # Off /\ ModeOf(mapper) = "fakeip"
           /\ handler \in Generations /\ handler # Off /\ ModeOf(handler) = "fakeip"
<1>1. /\ mapper # Off /\ handler # Off /\ mapper = Latest /\ handler = Serving
  BY DEF MapperInv
<1>2. Latest \in 0..Generation /\ Serving \in 0..Generation
  BY DEF MapperInv, ConfInv, Latest, Serving
<1>3. mapper \in DOMAIN applied /\ handler \in DOMAIN applied /\ DOMAIN applied \subseteq Generations
  BY <1>1, <1>2 DEF ConfInv, MapperInv, Generations, TunnelAssumption
<1>4. QED
  BY <1>1, <1>3 DEF AlwaysFake, ModeOf, Present

(* An answer given in time leads home.                                     *)
LEMMA AskLeads ==
    ASSUME TunnelAssumption, ConfInv, ReadInv, LedInv, [Next]_vars, NEW c \in Clients, Ask(c)
    PROVE  Led(c)' /\ NotFake(c)'
<1>1. /\ pc[c] = "ask" /\ pc'[c] = "arrived" /\ host'[c] = host[c] /\ dialled'[c] = dialled[c]
      /\ unlucky'[c] = (step \in {"mapper", "server"}) /\ UNCHANGED <<name, way, mapper, handler, applied>>
  BY DEF Ask, ReadInv, LedInv, AddrInv, Goes, confvars
<1>2. host[c] = NoHost
  BY <1>1 DEF LedInv, AddrInv, NotFake
<1>3. (AlwaysFake' <=> AlwaysFake) /\ Generation' = Generation
  BY <1>1 DEF AlwaysFake, Generation
<1>4. NotFake(c)'
  BY <1>1, <1>2, <1>3 DEF LedInv, AddrInv, NotFake
<1>5. ASSUME AlwaysFake, ~unlucky'[c] PROVE LeadsHome(c, pool, mapper, Generation)'
  <2>1. mapper = Generation /\ handler = Generation /\ handler \in Generations /\ ModeOf(handler) = "fakeip"
    BY <1>1, <1>5, FakeInUse DEF LedInv, MapperInv, Latest
  <2>2. PICK n : /\ n = (IF pool[handler][name[c]] # 0 THEN pool[handler][name[c]] ELSE Lowest(Free(handler)))
                 /\ pool' = [pool EXCEPT ![handler][name[c]] = n] /\ addr' = [addr EXCEPT ![c] = Fake(n)]
    BY <2>1 DEF Ask
  <2>3. n # 0
    <3>1. Lowest(Free(handler)) \in Numbers
      BY <2>1, FreeOne DEF LedInv, Free
    <3>2. 0 \notin Numbers
      BY DEF Numbers
    <3>3. QED
      BY <2>2, <3>1, <3>2
  <2>4. pool'[handler][name[c]] = n
    BY <2>1, <2>2 DEF LedInv, PoolInv, AddrInv
  <2>5. QED
    BY <1>1, <1>3, <2>1, <2>2, <2>3, <2>4 DEF LeadsHome, ReadInv
<1>6. Led(c)'
  BY <1>1, <1>2, <1>3, <1>5 DEF Led
<1>7. QED
  BY <1>4, <1>6

(* What the mapper finds for an address told in time is the name it was    *)
(* told for.                                                               *)
LEMMA FindLeads ==
    ASSUME TunnelAssumption, ConfInv, LedInv, AlwaysFake, NEW c \in Clients,
           LeadsHome(c, pool, mapper, Generation)
    PROVE  FindHostByIP(mapper, addr[c]) = {name[c]}
<1>1. mapper \in Generations /\ mapper # Off /\ ModeOf(mapper) = "fakeip" /\ name[c] \in Hosts
  BY FakeInUse DEF LedInv, AddrInv
<1>2. pool[mapper][name[c]] # 0 /\ addr[c] = Fake(pool[mapper][name[c]])
  BY DEF LeadsHome
<1>3. \A n, m, h : (Fake(n) = Fake(m) => n = m) /\ Fake(n) # Real(h)
  BY DEF Fake, Real
<1>4. ASSUME NEW h \in Hosts, Leads(mapper, addr[c], h) PROVE h = name[c]
  <2>1. pool[mapper][h] = pool[mapper][name[c]]
    BY <1>2, <1>3, <1>4 DEF Leads
  <2>2. QED
    BY <1>1, <1>2, <2>1 DEF LedInv, PoolInv
<1>5. Leads(mapper, addr[c], name[c])
  BY <1>1, <1>2 DEF Leads
<1>6. QED
  BY <1>1, <1>4, <1>5 DEF FindHostByIP

(* No step leads a client astray.                                          *)
LEMMA AddrStays ==
    ASSUME TunnelAssumption, ConfInv, ReadInv, LedInv, [Next]_vars
    PROVE  AddrInv'
<1> USE DEF ReadInv, Goes
<1>1. /\ UNCHANGED <<name, way>> /\ DOMAIN dnsmode' = Clients /\ DOMAIN dialled' = Clients
      /\ DOMAIN unlucky' = Clients /\ name \in [Clients -> Hosts]
  <2>1. CASE ReloadStep \/ UNCHANGED vars
    BY <2>1 DEF LedInv, AddrInv, vars, connvars, ReloadStep, Apply, UpdateProxies, UpdateRules, UpdateGeneral,
                PatchDNS, SetMapper, SetHandler
  <2>2. ASSUME NEW c \in Clients, ConnStep(c) PROVE UNCHANGED <<name, way>>
    BY <2>2 DEF ConnStep, Ask, NeedLookupIP, Find, Found, Missing, ResolveMetadata, Lock, Match, Dial, ConnOnly
  <2>3. ASSUME NEW c \in Clients, ConnStep(c)
        PROVE  DOMAIN dnsmode' = DOMAIN dnsmode /\ DOMAIN dialled' = DOMAIN dialled /\ DOMAIN unlucky' = DOMAIN unlucky
    <3>1. CASE Ask(c) \/ NeedLookupIP(c) \/ Find(c) \/ Found(c) \/ Missing(c)
      BY <3>1 DEF Ask, NeedLookupIP, Find, Found, Missing, ConnOnly
    <3>2. CASE ResolveMetadata(c) \/ Lock(c) \/ Match(c) \/ Dial(c)
      BY <3>2 DEF ResolveMetadata, Lock, Match, Dial, ConnOnly
    <3>3. QED
      BY <2>3, <3>1, <3>2 DEF ConnStep
  <2>4. QED
    BY <2>1, <2>2, <2>3 DEF Next, LedInv, AddrInv
<1>2. ASSUME NEW c \in Clients, UNCHANGED <<pc[c], host[c], addr[c], dialled[c], unlucky[c]>>
      PROVE  Led(c)' /\ NotFake(c)'
  BY <1>1, <1>2, OthersStay
<1>3. ASSUME NEW c \in Clients, ConnStep(c), NEW d \in Clients, c # d PROVE Led(d)' /\ NotFake(d)'
  <2>1. UNCHANGED <<pc[d], host[d], addr[d], dialled[d], unlucky[d]>>
    <3> DOMAIN dialled = Clients /\ DOMAIN unlucky = Clients
      BY DEF LedInv, AddrInv
    <3>1. CASE Ask(c) \/ NeedLookupIP(c) \/ Find(c) \/ Found(c) \/ Missing(c)
      BY <1>3, <3>1 DEF Ask, NeedLookupIP, Find, Found, Missing, ConnOnly
    <3>2. CASE ResolveMetadata(c) \/ Lock(c) \/ Match(c) \/ Dial(c)
      BY <1>3, <3>2 DEF ResolveMetadata, Lock, Match, Dial, ConnOnly
    <3>3. QED
      BY <1>3, <3>1, <3>2 DEF ConnStep
  <2>2. QED
    BY <1>2, <2>1
<1>4. ASSUME NEW c \in Clients, ConnStep(c), ~Ask(c)
      PROVE  UNCHANGED <<applied, name, way, pool, mapper, unlucky>>
  BY <1>4 DEF ConnStep, NeedLookupIP, Find, Found, Missing, ResolveMetadata, Lock, Match, Dial, ConnOnly,
              confvars, tables
<1>5. ASSUME NEW c \in Clients, UNCHANGED <<applied, name, way, pool, mapper>>
      PROVE  /\ AlwaysFake' <=> AlwaysFake
             /\ addr'[c] = addr[c] => (LeadsHome(c, pool, mapper, Generation)' <=> LeadsHome(c, pool, mapper, Generation))
  BY <1>5 DEF AlwaysFake, Generation, LeadsHome
<1>6. \A n, h : Fake(n)[1] = "fake" /\ Real(h)[1] # "fake" /\ NoAddr[1] # "fake"
  BY DEF Fake, Real, NoAddr
<1>7. ASSUME NEW c \in Clients, ConnStep(c) PROVE Led(c)' /\ NotFake(c)'
  <2>1. Led(c) /\ NotFake(c)
    BY DEF LedInv, AddrInv
  <2>2. CASE Ask(c)
    BY <2>2, AskLeads
  <2>3. CASE NeedLookupIP(c)
    <3>1. /\ pc[c] = "arrived" /\ UNCHANGED <<host, addr, dialled, applied, name, way, pool, mapper, unlucky>>
          /\ pc'[c] = (IF mapper # Off /\ host[c] = NoHost THEN "find" ELSE "mode")
      BY <2>3 DEF NeedLookupIP, ConnOnly, confvars, tables
    <3>2. AlwaysFake => mapper # Off
      BY DEF LedInv, MapperInv
    <3>3. QED
      BY <1>5, <1>6, <2>1, <3>1, <3>2 DEF Led, NotFake
  <2>4. CASE Find(c)
    <3>1. /\ pc[c] = "find" /\ UNCHANGED <<addr, dialled, applied, name, way, pool, mapper, unlucky>>
          /\ \/ /\ FindHostByIP(mapper, addr[c]) # {} /\ pc'[c] = "found"
                /\ host'[c] = CHOOSE h \in FindHostByIP(mapper, addr[c]) : TRUE
             \/ FindHostByIP(mapper, addr[c]) = {} /\ pc'[c] = "missing" /\ host'[c] = host[c]
      BY <2>4 DEF Find, ConnOnly, confvars, tables
    <3>2. ASSUME AlwaysFake, LeadsHome(c, pool, mapper, Generation) PROVE FindHostByIP(mapper, addr[c]) = {name[c]}
      BY <3>2, FindLeads
    <3>3. QED
      BY <1>5, <2>1, <3>1, <3>2 DEF Led, NotFake
  <2>5. CASE Found(c)
    <3>1. /\ pc[c] = "found" /\ pc'[c] = "mode"
          /\ UNCHANGED <<host, dialled, applied, name, way, pool, mapper, unlucky>>
          /\ ModeOf(mapper) = "fakeip" => addr'[c] = NoAddr
      BY <2>5 DEF Found, ConnOnly, confvars, tables
    <3>2. AlwaysFake => ModeOf(mapper) = "fakeip"
      BY FakeInUse DEF LedInv
    <3>3. QED
      BY <1>5, <1>6, <2>1, <3>1, <3>2 DEF Led, NotFake
  <2>6. CASE Missing(c)
    <3>1. /\ pc[c] = "missing" /\ UNCHANGED <<host, addr, dialled, applied, name, way, pool, mapper, unlucky>>
          /\ pc'[c] = (IF Refused(mapper, addr[c]) THEN "refused" ELSE "mode")
      BY <2>6 DEF Missing, ConnOnly, confvars, tables
    <3>2. AlwaysFake => (Refused(mapper, addr[c]) <=> addr[c][1] = "fake")
      BY FakeInUse DEF LedInv, Refused, IsFakeIP
    <3>3. QED
      BY <1>5, <2>1, <3>1, <3>2 DEF Led, NotFake
  <2>7. CASE ResolveMetadata(c) \/ Lock(c)
    <3>1. /\ pc[c] \in {"mode", "lock"} /\ pc'[c] \in {"lock", "match", "dial"}
          /\ UNCHANGED <<host, addr, dialled, applied, name, way, pool, mapper, unlucky>>
      BY <2>7 DEF ResolveMetadata, Lock, ConnOnly, confvars, tables
    <3>2. QED
      BY <1>5, <2>1, <3>1 DEF Led, NotFake
  <2>8. CASE Match(c)
    <3>1. /\ pc[c] = "match" /\ pc'[c] = "dial"
          /\ UNCHANGED <<host, dialled, applied, name, way, pool, mapper, unlucky>>
      BY <2>8 DEF Match, Released, confvars, tables
    <3>2. addr'[c] = addr[c] \/ \E h : addr'[c] = Real(h)
      BY <2>8 DEF Match, AddrAt
    <3>3. QED
      BY <1>5, <1>6, <2>1, <3>1, <3>2 DEF Led, NotFake
  <2>9. CASE Dial(c)
    <3>1. /\ pc[c] = "dial" /\ pc'[c] = "done"
          /\ UNCHANGED <<host, addr, applied, name, way, pool, mapper, unlucky>>
          /\ dialled'[c] = Pure(c)
      BY <2>9 DEF Dial, ConnOnly, confvars, tables, LedInv, AddrInv
    <3>2. Pure(c) = addr[c] \/ Pure(c)[1] # "fake"
      BY DEF Pure
    <3>3. QED
      BY <1>5, <2>1, <3>1, <3>2 DEF Led, NotFake
  <2>10. QED
    BY <1>7, <2>2, <2>3, <2>4, <2>5, <2>6, <2>7, <2>8, <2>9 DEF ConnStep
<1>8. ASSUME NEW d \in Clients PROVE Led(d)' /\ NotFake(d)'
  <2>1. CASE ReloadStep \/ UNCHANGED vars
    <3>1. UNCHANGED connvars
      BY <2>1 DEF vars, ReloadStep, Apply, UpdateProxies, UpdateRules, UpdateGeneral, PatchDNS, SetMapper, SetHandler
    <3>2. QED
      BY <1>2, <3>1 DEF connvars
  <2>2. ASSUME NEW c \in Clients, ConnStep(c) PROVE Led(d)' /\ NotFake(d)'
    BY <1>3, <1>7, <2>2
  <2>3. QED
    BY <2>1, <2>2 DEF Next
<1>9. QED
  BY <1>1, <1>8 DEF AddrInv

-----------------------------------------------------------------------------
(* The invariants hold at the start, and no step breaks them.              *)
LEMMA TunnelInit == ASSUME TunnelAssumption, Init PROVE ConfInv /\ ReadInv /\ SentInv /\ LedInv
<1>1. DOMAIN applied = {0} /\ next = applied[0] /\ Known = {applied[0]} /\ applied[0] \in Starts
  BY DEF Init, Known
<1>2. {0} = 0..0
  OBVIOUS
<1>3. Generation = 0
  <2>1. Cardinality({0}) = 1
    BY FS_Singleton
  <2>2. QED
    BY <1>1, <2>1 DEF Generation
<1>4. ConfInv
  BY <1>1, <1>2, <1>3 DEF Init, ConfInv
<1>5. ReadInv /\ SentInv
  BY DEF Init, ReadInv, SentInv, Places
<1>6. MapperInv
  <2>1. step = "idle" /\ handler = mapper /\ mapper = IF applied[0].dns = "off" THEN Off ELSE 0
    BY DEF Init
  <2>2. AlwaysFake => applied[0].dns # "off"
    BY <1>1 DEF AlwaysFake
  <2>3. 0 # Off /\ 0 \in Generations
    BY DEF Off, Generations, TunnelAssumption
  <2>4. QED
    BY <1>3, <2>1, <2>2, <2>3 DEF MapperInv, Latest, Serving
<1>7. PoolInv
  BY DEF Init, PoolInv
<1>8. AddrInv
  <2>1. name \in [Clients -> Hosts]
    BY DEF Init, TunnelAssumption
  <2>2. ASSUME NEW c \in Clients PROVE Led(c) /\ NotFake(c)
    <3>1. /\ addr[c] = NoAddr /\ dialled[c] = NoAddr /\ way[c] \in {"name", "addr"}
          /\ pc[c] = (IF way[c] = "addr" THEN "ask" ELSE "arrived")
          /\ host[c] = (IF way[c] = "addr" THEN NoHost ELSE name[c])
      BY DEF Init
    <3>2. QED
      BY <3>1 DEF Led, NotFake, NoAddr
  <2>3. QED
    BY <2>1, <2>2 DEF Init, AddrInv
<1>9. QED
  BY <1>4, <1>5, <1>6, <1>7, <1>8 DEF LedInv

(* Every step keeps them.                                                  *)
LEMMA TunnelStep ==
    ASSUME TunnelAssumption, ConfInv, ReadInv, SentInv, LedInv, [Next]_vars
    PROVE  ConfInv' /\ ReadInv' /\ SentInv' /\ LedInv'
<1>1. MapperInv' /\ PoolInv'
  BY MapperStays, PoolStays DEF LedInv
<1>2. QED
  BY <1>1, ConfStays, ReadStays, SentStays, AddrStays DEF LedInv

(* They are what the properties say, and more.                             *)
LEMMA TunnelHolds ==
    ASSUME ConfInv, SentInv, LedInv
    PROVE  TypeOK /\ OneConfiguration /\ LedBack /\ FakeNotDialled
<1>1. OneConfiguration
  BY DEF SentInv, Sent, Known, OneConfiguration
<1>2. TypeOK
  BY DEF ConfInv, LedInv, MapperInv, PoolInv, TypeOK
<1>3. LedBack
  BY DEF LedInv, AddrInv, Led, LedBack
<1>4. FakeNotDialled
  BY DEF LedInv, AddrInv, NotFake, FakeNotDialled
<1>5. QED
  BY <1>1, <1>2, <1>3, <1>4

(* However a reload and the connections interleave, any number of either:  *)
(* a connection is sent by the mode of one configuration, or by the rules  *)
(* and the nodes of one, unless it is matched between their two updates.   *)
THEOREM RoutedByOne == ASSUME TunnelAssumption PROVE Spec => []OneConfiguration
<1>1. Init => ConfInv /\ ReadInv /\ SentInv /\ LedInv
  BY TunnelInit
<1>2. ConfInv /\ ReadInv /\ SentInv /\ LedInv /\ [Next]_vars => (ConfInv /\ ReadInv /\ SentInv /\ LedInv)'
  BY TunnelStep
<1>3. ConfInv /\ SentInv /\ LedInv => OneConfiguration
  BY TunnelHolds
<1>4. QED
  BY <1>1, <1>2, <1>3, PTL DEF Spec

(* While every configuration has fake addresses, a client that was told    *)
(* its own outside the moment in which the server still uses the old       *)
(* tables reaches the name it asked for, through any number of reloads,    *)
(* and nobody's fake address is dialled.                                   *)
THEOREM AddressesLeadBack == ASSUME TunnelAssumption PROVE Spec => [](TypeOK /\ LedBack /\ FakeNotDialled)
<1>1. Init => ConfInv /\ ReadInv /\ SentInv /\ LedInv
  BY TunnelInit
<1>2. ConfInv /\ ReadInv /\ SentInv /\ LedInv /\ [Next]_vars => (ConfInv /\ ReadInv /\ SentInv /\ LedInv)'
  BY TunnelStep
<1>3. ConfInv /\ SentInv /\ LedInv => TypeOK /\ LedBack /\ FakeNotDialled
  BY TunnelHolds
<1>4. QED
  BY <1>1, <1>2, <1>3, PTL DEF Spec

-----------------------------------------------------------------------------
(* LISTENERS: any kinds, ports and number of requests and reloads.         *)

(* The addresses of sockets that may be open.                              *)
Addresses == [port : Ports \ {0}, lan : BOOLEAN]

Types ==
    /\ allowLan \in BOOLEAN
    /\ tcp \in [Kinds -> Addresses \cup {L!NoSocket}]
    /\ udp \in [Kinds -> Addresses \cup {L!NoSocket}]
    /\ closed \subseteq {"mixed"}
    /\ asks \in [Users -> L!Requests]
    /\ listenPc \in [Users -> {"begin", "ports", "recreate", "done"}]
    /\ ports \in [Users -> [Kinds -> Ports \cup {0}]]
    /\ toCome \in [Users -> SUBSET Kinds]

Socket(k, proto, a) == <<k, proto, a>>

(* What is open is what the variables hold.                                *)
Held ==
    /\ \A s \in open : \E k \in Kinds, proto \in {"tcp", "udp"}, a \in Addresses : s = Socket(k, proto, a)
    /\ \A k \in Kinds, a \in Addresses :
        /\ Socket(k, "tcp", a) \in open <=> tcp[k] = a /\ k \notin closed
        /\ Socket(k, "udp", a) \in open <=> udp[k] = a

(* And socks and mixed have both listeners or none.                        *)
Both == \A k \in Kinds :
            /\ k \in {"socks", "mixed"} /\ tcp[k] # L!NoSocket /\ k \notin closed => udp[k] = tcp[k]
            /\ k \notin L!WithUDP => udp[k] = L!NoSocket

SocketInv == Types /\ Held /\ L!SameAddress /\ Both

(* Somebody will still come to the listener of a kind.                     *)
Awaited(k) == \E c \in Users : listenPc[c] = "ports" \/ (listenPc[c] = "recreate" /\ k \in toCome[c])

(* Whoever changes the flag comes to every listener afterwards.            *)
LanInv == \A k \in Kinds, proto \in {"tcp", "udp"}, a \in Addresses :
            Socket(k, proto, a) \in open => a.lan = allowLan \/ Awaited(k)

(* A socket is its kind, its protocol and its address.                     *)
LEMMA Triples ==
    /\ \A k, proto, a : /\ Socket(k, proto, a)[1] = k /\ Socket(k, proto, a)[2] = proto
                        /\ Socket(k, proto, a)[3] = a
    /\ \A k, proto, a, j, other, b :
            Socket(k, proto, a) = Socket(j, other, b) <=> k = j /\ proto = other /\ a = b
  BY DEF Socket

(* Unless there is nothing to do, the sockets of the kind are all closed.  *)
LEMMA AllClosed ==
    ASSUME L!ListenersAssumption, SocketInv, NEW k \in Kinds, NEW a \in [port : Ports \cup {0}, lan : BOOLEAN],
           ~L!NothingToDo(k, a)
    PROVE  /\ L!UDPAfter(k, a) = L!NoSocket
           /\ \A s : s \in L!OpenAfter(k, a) <=> s \in open /\ s[1] # k
<1>1. a # L!NoSocket
  BY DEF L!ListenersAssumption, L!NoSocket, L!NoPort
<1>2. udp[k] # a
  BY <1>1 DEF SocketInv, L!SameAddress, L!NothingToDo
<1>3. tcp[k] = a => k \in closed
  BY <1>1, <1>2 DEF SocketInv, L!NothingToDo, Both
<1>4. L!UDPAfter(k, a) = L!NoSocket
  BY <1>2 DEF L!UDPAfter, L!Stale
<1>5. ASSUME NEW s \in open, s[1] = k PROVE s[2] \in L!Stale(k, a)
  <2>1. PICK proto \in {"tcp", "udp"}, b \in Addresses : s = Socket(k, proto, b)
    BY Triples, <1>5 DEF SocketInv, Held
  <2>2. CASE proto = "tcp"
    BY Triples, <1>3, <2>1, <2>2 DEF SocketInv, Held, L!Stale
  <2>3. CASE proto = "udp"
    BY Triples, <1>2, <2>1, <2>3 DEF SocketInv, Held, L!Stale
  <2>4. QED
    BY <2>2, <2>3
<1>6. QED
  BY <1>4, <1>5 DEF L!OpenAfter

(* What a ReCreate function does to the sockets of its kind; the others    *)
(* stay as they are.                                                       *)
LEMMA ReCreateInv ==
    ASSUME L!ListenersAssumption, SocketInv, NEW c \in Users, L!ReCreate(c)
    PROVE  /\ SocketInv'
           /\ \E k \in Kinds :
                 /\ k \in toCome[c] /\ toCome' = [toCome EXCEPT ![c] = @ \ {k}]
                 /\ \A s \in open' : s[1] # k => s \in open
                 /\ \A s \in open' : s[1] = k => s[3].lan = allowLan
<1> USE DEF L!ListenersAssumption
<1>1. PICK k \in Kinds :
        /\ L!IsNext(c, k) /\ L!Leaves(c, k)
        /\ L!ReCreateNot(c, k) \/ L!ReCreateNone(c, k) \/ L!ReCreateFails(c, k) \/ L!ReCreateOpens(c, k)
  BY DEF L!ReCreate
<1> DEFINE a == L!GenAddr(ports[c][k])
<1>2. /\ a = [port |-> ports[c][k], lan |-> allowLan]
      /\ ports[c][k] \in Ports \cup {0} /\ allowLan \in BOOLEAN /\ a.lan = allowLan
      /\ a \in [port : Ports \cup {0}, lan : BOOLEAN] /\ a # L!NoSocket
  BY DEF SocketInv, Types, L!GenAddr, L!NoSocket, L!NoPort
<1>3. ports[c][k] # 0 => a \in Addresses
  BY <1>2 DEF Addresses
<1>4. ports[c][k] = 0 => a = L!GenAddr(0)
  BY DEF L!GenAddr
<1>5. /\ UNCHANGED <<allowLan, asks, listenPc, ports>>
      /\ k \in toCome[c] /\ toCome' = [toCome EXCEPT ![c] = @ \ {k}] /\ toCome' \in [Users -> SUBSET Kinds]
  BY <1>1 DEF L!ReCreate, L!IsNext, L!Leaves, SocketInv, Types
<1> HIDE DEF a
<1>6. CASE L!ReCreateNot(c, k)
  <2>1. L!NothingToDo(k, a) /\ UNCHANGED <<tcp, udp, closed, open>>
    BY <1>6 DEF L!ReCreateNot, a
  <2>2. SocketInv'
    BY <1>5, <2>1 DEF SocketInv, Types, Held, L!SameAddress, Both
  <2>3. ASSUME NEW s \in open, s[1] = k PROVE s[3].lan = allowLan
    <3>1. PICK proto \in {"tcp", "udp"}, b \in Addresses : s = Socket(k, proto, b)
      BY Triples, <2>3 DEF SocketInv, Held
    <3>2. tcp[k] = a /\ b # L!NoSocket
      BY <2>1 DEF L!NothingToDo, Addresses, L!NoSocket
    <3>3. b = a
      BY <3>1, <3>2 DEF SocketInv, Held, L!SameAddress
    <3>4. QED
      BY Triples, <1>2, <3>1, <3>3
  <2>4. QED
    BY <1>5, <2>1, <2>2, <2>3
<1>7. ASSUME ~L!NothingToDo(k, a),
             tcp' \in [Kinds -> Addresses \cup {L!NoSocket}], udp' \in [Kinds -> Addresses \cup {L!NoSocket}],
             \A j \in Kinds \ {k} : tcp'[j] = tcp[j] /\ udp'[j] = udp[j],
             closed' \subseteq {"mixed"}, closed' \ {k} = closed \ {k},
             \A s : s \in open' <=> \/ s \in L!OpenAfter(k, a)
                                    \/ tcp'[k] = a /\ k \notin closed' /\ s = Socket(k, "tcp", a)
                                    \/ udp'[k] = a /\ s = Socket(k, "udp", a),
             tcp'[k] \in {a, L!NoSocket}, udp'[k] \in {a, L!NoSocket},
             udp'[k] = a => tcp'[k] = a /\ k \notin closed',
             k \in {"socks", "mixed"} /\ tcp'[k] = a /\ k \notin closed' => udp'[k] = a,
             k \notin L!WithUDP => udp'[k] = L!NoSocket
      PROVE  /\ SocketInv' /\ \A s \in open' : s[1] # k => s \in open
             /\ \A s \in open' : s[1] = k => s[3].lan = allowLan
  <2>1. \A s : s \in open' <=> \/ s \in open /\ s[1] # k
                               \/ tcp'[k] = a /\ k \notin closed' /\ s = Socket(k, "tcp", a)
                               \/ udp'[k] = a /\ s = Socket(k, "udp", a)
    BY <1>2, <1>7, AllClosed
  <2>2. Types'
    BY <1>5, <1>7 DEF SocketInv, Types
  <2>3. ASSUME NEW s \in open' PROVE \E j \in Kinds, proto \in {"tcp", "udp"}, b \in Addresses : s = Socket(j, proto, b)
    <3>1. CASE s \in open
      BY <3>1 DEF SocketInv, Held
    <3>2. CASE s \notin open
      <4>1. a \in Addresses
        BY <1>2, <1>7, <2>1, <3>2
      <4>2. QED
        BY <2>1, <3>2, <4>1
    <3>3. QED
      BY <3>1, <3>2
  <2>4. ASSUME NEW j \in Kinds, NEW b \in Addresses
        PROVE  /\ Socket(j, "tcp", b) \in open' <=> tcp'[j] = b /\ j \notin closed'
               /\ Socket(j, "udp", b) \in open' <=> udp'[j] = b
    <3>1. b # L!NoSocket
      BY DEF Addresses, L!NoSocket, L!NoPort
    <3>2. CASE j = k
      <4>1. Socket(j, "tcp", b) \in open' <=> tcp'[k] = a /\ k \notin closed' /\ b = a
        <5>1. Socket(j, "tcp", b) \in open' <=> \/ Socket(j, "tcp", b) \in open /\ Socket(j, "tcp", b)[1] # k
                                                \/ tcp'[k] = a /\ k \notin closed' /\ Socket(j, "tcp", b) = Socket(k, "tcp", a)
                                                \/ udp'[k] = a /\ Socket(j, "tcp", b) = Socket(k, "udp", a)
          BY <2>1
        <5>2. QED
          BY Triples, <3>2, <5>1
      <4>2. Socket(j, "udp", b) \in open' <=> udp'[k] = a /\ b = a
        <5>1. Socket(j, "udp", b) \in open' <=> \/ Socket(j, "udp", b) \in open /\ Socket(j, "udp", b)[1] # k
                                                \/ tcp'[k] = a /\ k \notin closed' /\ Socket(j, "udp", b) = Socket(k, "tcp", a)
                                                \/ udp'[k] = a /\ Socket(j, "udp", b) = Socket(k, "udp", a)
          BY <2>1
        <5>2. QED
          BY Triples, <3>2, <5>1
      <4>3. QED
        BY <1>2, <1>7, <3>1, <3>2, <4>1, <4>2
    <3>3. CASE j # k
      <4>1. tcp'[j] = tcp[j] /\ udp'[j] = udp[j] /\ (j \in closed' <=> j \in closed)
        BY <1>7, <3>3
      <4>2. /\ Socket(j, "tcp", b) \in open' <=> Socket(j, "tcp", b) \in open
            /\ Socket(j, "udp", b) \in open' <=> Socket(j, "udp", b) \in open
        BY <2>1, <3>3, Triples
      <4>3. QED
        BY <4>1, <4>2 DEF SocketInv, Held
    <3>4. QED
      BY <3>2, <3>3
  <2>5. ASSUME NEW j \in Kinds
        PROVE  /\ udp'[j] # L!NoSocket => tcp'[j] = udp'[j] /\ j \notin closed'
               /\ j \in {"socks", "mixed"} /\ tcp'[j] # L!NoSocket /\ j \notin closed' => udp'[j] = tcp'[j]
               /\ j \notin L!WithUDP => udp'[j] = L!NoSocket
    <3>1. CASE j = k
      BY <1>2, <1>7, <3>1
    <3>2. CASE j # k
      BY <1>7, <3>2 DEF SocketInv, L!SameAddress, Both
    <3>3. QED
      BY <3>1, <3>2
  <2>6. L!SameAddress' /\ Both'
    BY <2>5 DEF L!SameAddress, Both
  <2>7. Held'
    BY <2>3, <2>4 DEF Held
  <2>8. QED
    BY Triples, <1>2, <2>1, <2>2, <2>6, <2>7 DEF SocketInv
<1>8. /\ tcp \in [Kinds -> Addresses \cup {L!NoSocket}] /\ udp \in [Kinds -> Addresses \cup {L!NoSocket}]
      /\ closed \subseteq {"mixed"}
      /\ ~L!NothingToDo(k, a) => L!UDPAfter(k, a) = L!NoSocket
      /\ k \notin L!WithUDP => udp[k] = L!NoSocket
  BY <1>2, AllClosed DEF SocketInv, Types, Both
<1>9. ASSUME ~L!NothingToDo(k, a), tcp' = [tcp EXCEPT ![k] = L!NoSocket], udp' = [udp EXCEPT ![k] = L!UDPAfter(k, a)],
             closed' = closed \ {k}, open' = L!OpenAfter(k, a)
      PROVE  /\ SocketInv' /\ \A s \in open' : s[1] # k => s \in open
             /\ \A s \in open' : s[1] = k => s[3].lan = allowLan
  <2>1. tcp'[k] = L!NoSocket /\ udp'[k] = L!NoSocket
    BY <1>8, <1>9
  <2>2. /\ tcp' \in [Kinds -> Addresses \cup {L!NoSocket}] /\ udp' \in [Kinds -> Addresses \cup {L!NoSocket}]
        /\ \A j \in Kinds \ {k} : tcp'[j] = tcp[j] /\ udp'[j] = udp[j]
    BY <1>8, <1>9
  <2>3. /\ closed' \subseteq {"mixed"} /\ closed' \ {k} = closed \ {k} /\ a # L!NoSocket
    BY <1>2, <1>8, <1>9
  <2>4. QED
    BY Triples, <1>7, <1>9, <2>1, <2>2, <2>3
<1>10. CASE L!ReCreateNone(c, k) \/ L!ReCreateFails(c, k)
  BY <1>4, <1>5, <1>9, <1>10 DEF L!ReCreateNone, L!ReCreateFails, a
<1>11. CASE L!ReCreateOpens(c, k)
  <2> DEFINE before == L!OpenAfter(k, a)
             opened == before \cup {<<k, "tcp", a>>}
  <2>1. /\ ~L!NothingToDo(k, a) /\ a \in Addresses
        /\ \/ /\ k \in L!WithUDP
              /\ open' = opened \cup {<<k, "udp", a>>}
              /\ tcp' = [tcp EXCEPT ![k] = a] /\ udp' = [udp EXCEPT ![k] = a]
              /\ closed' = closed \ {k}
           \/ /\ k \notin L!WithUDP /\ open' = opened
              /\ tcp' = [tcp EXCEPT ![k] = a] /\ UNCHANGED <<udp, closed>>
           \/ /\ k \in L!Transparent /\ open' = opened
              /\ tcp' = [tcp EXCEPT ![k] = a] /\ udp' = [udp EXCEPT ![k] = L!NoSocket]
              /\ UNCHANGED closed
           \/ /\ k \in {"socks", "mixed"} /\ open' = before
              /\ tcp' = [tcp EXCEPT ![k] = IF k = "socks" THEN L!NoSocket ELSE a]
              /\ udp' = [udp EXCEPT ![k] = L!NoSocket]
              /\ closed' = IF k = "mixed" THEN closed \cup {k} ELSE closed
    BY <1>3, <1>11 DEF L!ReCreateOpens, a
  <2>2. CASE k \in L!WithUDP /\ open' = opened \cup {<<k, "udp", a>>} /\ tcp' = [tcp EXCEPT ![k] = a]
             /\ udp' = [udp EXCEPT ![k] = a] /\ closed' = closed \ {k}
    <3>1. tcp'[k] = a /\ udp'[k] = a /\ k \notin closed'
      BY <1>8, <2>2
    <3>2. /\ tcp' \in [Kinds -> Addresses \cup {L!NoSocket}] /\ udp' \in [Kinds -> Addresses \cup {L!NoSocket}]
          /\ \A j \in Kinds \ {k} : tcp'[j] = tcp[j] /\ udp'[j] = udp[j]
          /\ closed' \subseteq {"mixed"} /\ closed' \ {k} = closed \ {k}
      BY <1>8, <2>1, <2>2
    <3>3. \A s : s \in open' <=> \/ s \in L!OpenAfter(k, a)
                                 \/ tcp'[k] = a /\ k \notin closed' /\ s = Socket(k, "tcp", a)
                                 \/ udp'[k] = a /\ s = Socket(k, "udp", a)
      BY Triples, <1>2, <2>2, <3>1 DEF Socket
    <3>4. k \notin L!WithUDP => udp'[k] = L!NoSocket
      BY <2>2, <3>1
    <3>5. SocketInv' /\ (\A s \in open' : s[1] # k => s \in open) /\ \A s \in open' : s[1] = k => s[3].lan = allowLan
      BY <1>2, <1>7, <2>1, <3>1, <3>2, <3>3, <3>4
    <3>6. QED
      BY <1>5, <3>5
  <2>3. CASE k \notin L!WithUDP /\ open' = opened /\ tcp' = [tcp EXCEPT ![k] = a] /\ UNCHANGED <<udp, closed>>
    <3>1. tcp'[k] = a /\ udp'[k] = L!NoSocket /\ k \notin closed' /\ k \notin {"socks", "mixed"}
      BY <1>8, <2>3 DEF L!WithUDP
    <3>2. /\ tcp' \in [Kinds -> Addresses \cup {L!NoSocket}] /\ udp' \in [Kinds -> Addresses \cup {L!NoSocket}]
          /\ \A j \in Kinds \ {k} : tcp'[j] = tcp[j] /\ udp'[j] = udp[j]
          /\ closed' \subseteq {"mixed"} /\ closed' \ {k} = closed \ {k}
      BY <1>8, <2>1, <2>3
    <3>3. \A s : s \in open' <=> \/ s \in L!OpenAfter(k, a)
                                 \/ tcp'[k] = a /\ k \notin closed' /\ s = Socket(k, "tcp", a)
                                 \/ udp'[k] = a /\ s = Socket(k, "udp", a)
      BY Triples, <1>2, <2>3, <3>1 DEF Socket
    <3>4. k \notin L!WithUDP => udp'[k] = L!NoSocket
      BY <2>3, <3>1
    <3>5. SocketInv' /\ (\A s \in open' : s[1] # k => s \in open) /\ \A s \in open' : s[1] = k => s[3].lan = allowLan
      BY <1>2, <1>7, <2>1, <3>1, <3>2, <3>3, <3>4
    <3>6. QED
      BY <1>5, <3>5
  <2>4. CASE k \in L!Transparent /\ open' = opened /\ tcp' = [tcp EXCEPT ![k] = a]
             /\ udp' = [udp EXCEPT ![k] = L!NoSocket] /\ UNCHANGED closed
    <3>1. tcp'[k] = a /\ udp'[k] = L!NoSocket /\ k \notin closed' /\ k \notin {"socks", "mixed"}
      BY <1>8, <2>4 DEF L!Transparent
    <3>2. /\ tcp' \in [Kinds -> Addresses \cup {L!NoSocket}] /\ udp' \in [Kinds -> Addresses \cup {L!NoSocket}]
          /\ \A j \in Kinds \ {k} : tcp'[j] = tcp[j] /\ udp'[j] = udp[j]
          /\ closed' \subseteq {"mixed"} /\ closed' \ {k} = closed \ {k}
      BY <1>8, <2>1, <2>4
    <3>3. \A s : s \in open' <=> \/ s \in L!OpenAfter(k, a)
                                 \/ tcp'[k] = a /\ k \notin closed' /\ s = Socket(k, "tcp", a)
                                 \/ udp'[k] = a /\ s = Socket(k, "udp", a)
      BY Triples, <1>2, <2>4, <3>1 DEF Socket
    <3>4. k \notin L!WithUDP => udp'[k] = L!NoSocket
      BY <2>4, <3>1
    <3>5. SocketInv' /\ (\A s \in open' : s[1] # k => s \in open) /\ \A s \in open' : s[1] = k => s[3].lan = allowLan
      BY <1>2, <1>7, <2>1, <3>1, <3>2, <3>3, <3>4
    <3>6. QED
      BY <1>5, <3>5
  <2>5. CASE k \in {"socks", "mixed"} /\ open' = before
             /\ tcp' = [tcp EXCEPT ![k] = IF k = "socks" THEN L!NoSocket ELSE a]
             /\ udp' = [udp EXCEPT ![k] = L!NoSocket]
             /\ closed' = IF k = "mixed" THEN closed \cup {k} ELSE closed
    <3>1. /\ udp'[k] = L!NoSocket /\ tcp'[k] \in {a, L!NoSocket} /\ (tcp'[k] = L!NoSocket \/ k \in closed')
          /\ closed' \subseteq {"mixed"} /\ closed' \ {k} = closed \ {k} /\ k \in L!WithUDP
      BY <1>8, <2>5 DEF L!WithUDP
    <3>2. tcp' \in [Kinds -> Addresses \cup {L!NoSocket}] /\ udp' \in [Kinds -> Addresses \cup {L!NoSocket}]
          /\ \A j \in Kinds \ {k} : tcp'[j] = tcp[j] /\ udp'[j] = udp[j]
      BY <1>8, <2>1, <2>5
    <3>3. \A s : s \in open' <=> \/ s \in L!OpenAfter(k, a)
                                 \/ tcp'[k] = a /\ k \notin closed' /\ s = Socket(k, "tcp", a)
                                 \/ udp'[k] = a /\ s = Socket(k, "udp", a)
      BY Triples, <1>2, <2>5, <3>1 DEF Socket
    <3>4. SocketInv' /\ (\A s \in open' : s[1] # k => s \in open) /\ \A s \in open' : s[1] = k => s[3].lan = allowLan
      BY <1>2, <1>7, <2>1, <3>1, <3>2, <3>3
    <3>5. QED
      BY <1>5, <3>4
  <2>6. QED
    BY <2>1, <2>2, <2>3, <2>4, <2>5
<1>12. QED
  BY <1>1, <1>5, <1>6, <1>10, <1>11

(* What a caller that ran alone has come to is listening, by the listener  *)
(* variables, which is by the sockets (Held).                              *)
Listening(c, k) ==
    IF ports[c][k] = 0 THEN (tcp[k] = L!NoSocket \/ k \in closed) /\ udp[k] = L!NoSocket
    ELSE /\ tcp[k] \in Addresses /\ k \notin closed /\ tcp[k].port = ports[c][k]
         /\ k \in {"socks", "mixed"} => udp[k] = tcp[k]

ServedInv ==
    /\ DOMAIN alone = Users
    /\ \A c \in Users : alone[c] /\ L!Running(c) =>
        /\ \A d \in Users \ {c} : ~L!Running(d)
        /\ listenPc[c] = "recreate" /\ c \notin failed => \A k \in Kinds \ toCome[c] : Listening(c, k)

(* A ReCreate function serves its port or says that it failed; it has one  *)
(* kind to see to.                                                         *)
LEMMA ReCreateServes ==
    ASSUME L!ListenersAssumption, SocketInv, NEW c \in Users, L!ReCreate(c)
    PROVE  \E k \in Kinds :
              /\ toCome' = [toCome EXCEPT ![c] = @ \ {k}]
              /\ \A j \in Kinds \ {k} : tcp'[j] = tcp[j] /\ udp'[j] = udp[j] /\ (j \in closed' <=> j \in closed)
              /\ failed \subseteq failed' /\ (c \notin failed' => Listening(c, k)')
<1>1. PICK k \in Kinds :
        /\ toCome' = [toCome EXCEPT ![c] = @ \ {k}]
        /\ L!ReCreateNot(c, k) \/ L!ReCreateNone(c, k) \/ L!ReCreateFails(c, k) \/ L!ReCreateOpens(c, k)
  BY DEF L!ReCreate, L!Leaves
<1> DEFINE a == L!GenAddr(ports[c][k])
<1>2. /\ a = [port |-> ports[c][k], lan |-> allowLan] /\ a.port = ports[c][k] /\ ports' = ports
      /\ a \in [port : Ports \cup {0}, lan : BOOLEAN] /\ a # L!NoSocket
  BY DEF SocketInv, Types, L!GenAddr, L!NoSocket, L!NoPort, L!ListenersAssumption, L!ReCreate
<1>3. ports[c][k] # 0 => a \in Addresses
  BY <1>2 DEF Addresses
<1>4. ports[c][k] = 0 => a = L!GenAddr(0) /\ a \notin Addresses
  BY <1>2 DEF L!GenAddr, Addresses
<1>5. /\ tcp \in [Kinds -> Addresses \cup {L!NoSocket}] /\ udp \in [Kinds -> Addresses \cup {L!NoSocket}]
      /\ closed \subseteq {"mixed"}
      /\ ~L!NothingToDo(k, a) => L!UDPAfter(k, a) = L!NoSocket
  BY <1>2, AllClosed DEF SocketInv, Types
<1> HIDE DEF a
<1>6. CASE L!ReCreateNot(c, k)
  <2>1. L!NothingToDo(k, a) /\ UNCHANGED <<tcp, udp, closed, failed>>
    BY <1>6 DEF L!ReCreateNot, a
  <2>2. tcp[k] = a /\ (k \in {"socks", "mixed"} => udp[k] = a) /\ a \in Addresses
    BY <1>2, <1>5, <2>1 DEF L!NothingToDo
  <2>3. k \notin closed
    BY <1>2, <1>5, <2>2 DEF SocketInv, L!SameAddress
  <2>4. Listening(c, k)'
    BY <1>2, <1>4, <2>1, <2>2, <2>3 DEF Listening
  <2>5. QED
    BY <1>1, <2>1, <2>4
<1>7. CASE L!ReCreateNone(c, k)
  <2>1. /\ ~L!NothingToDo(k, a) /\ ports[c][k] = 0 /\ failed' = failed
        /\ tcp' = [tcp EXCEPT ![k] = L!NoSocket] /\ udp' = [udp EXCEPT ![k] = L!UDPAfter(k, a)]
        /\ closed' = closed \ {k}
    BY <1>4, <1>7 DEF L!ReCreateNone
  <2>2. Listening(c, k)'
    BY <1>2, <1>5, <2>1 DEF Listening
  <2>3. QED
    BY <1>1, <1>5, <2>1, <2>2
<1>8. CASE L!ReCreateFails(c, k)
  <2>1. /\ tcp' = [tcp EXCEPT ![k] = L!NoSocket] /\ udp' = [udp EXCEPT ![k] = L!UDPAfter(k, a)]
        /\ closed' = closed \ {k} /\ failed' = failed \cup {c}
    BY <1>8 DEF L!ReCreateFails, a
  <2>2. QED
    BY <1>1, <1>5, <2>1
<1>9. CASE L!ReCreateOpens(c, k)
  <2>1. /\ a \in Addresses /\ ports[c][k] # 0
        /\ \/ /\ k \in L!WithUDP
              /\ tcp' = [tcp EXCEPT ![k] = a] /\ udp' = [udp EXCEPT ![k] = a]
              /\ closed' = closed \ {k} /\ failed' = failed
           \/ /\ k \notin L!WithUDP
              /\ tcp' = [tcp EXCEPT ![k] = a] /\ UNCHANGED <<udp, closed, failed>>
           \/ /\ tcp' = [tcp EXCEPT ![k] = IF k = "socks" THEN L!NoSocket ELSE a]
              /\ udp' = [udp EXCEPT ![k] = L!NoSocket]
              /\ closed' = IF k = "mixed" THEN closed \cup {k} ELSE closed
              /\ failed' = failed \cup {c}
           \/ /\ tcp' = [tcp EXCEPT ![k] = a] /\ udp' = [udp EXCEPT ![k] = L!NoSocket]
              /\ closed' = closed /\ failed' = failed \cup {c}
    BY <1>3, <1>9 DEF L!ReCreateOpens, a
  <2>2. \A j \in Kinds \ {k} : tcp'[j] = tcp[j] /\ udp'[j] = udp[j] /\ (j \in closed' <=> j \in closed)
    BY <1>5, <2>1
  <2>3. ASSUME c \notin failed' PROVE Listening(c, k)'
    <3>1. tcp'[k] = a /\ k \notin closed' /\ (k \in {"socks", "mixed"} => udp'[k] = a)
      BY <1>5, <2>1, <2>3 DEF L!WithUDP
    <3>2. QED
      BY <1>2, <2>1, <3>1 DEF Listening
  <2>4. failed \subseteq failed'
    BY <2>1
  <2>5. QED
    BY <1>1, <2>2, <2>3, <2>4
<1>10. QED
  BY <1>1, <1>6, <1>7, <1>8, <1>9

(* Whoever runs alone has only his own functions change the listeners.     *)
LEMMA ServedStays ==
    ASSUME L!ListenersAssumption, SocketInv, ServedInv, [L!Next]_(L!vars)
    PROVE  ServedInv'
<1> USE DEF L!Running
<1>1. ASSUME NEW c \in Users, L!Begins(c), NEW place \in {"ports", "recreate"},
             listenPc' = [listenPc EXCEPT ![c] = place],
             place = "recreate" => toCome'[c] = Kinds
      PROVE  ServedInv'
  <2>1. DOMAIN alone' = Users /\ listenPc \in [Users -> {"begin", "ports", "recreate", "done"}]
    BY <1>1 DEF L!Begins, SocketInv, Types
  <2>2. ASSUME NEW d \in Users, alone'[d], L!Running(d)'
        PROVE  d = c /\ \A e \in Users \ {c} : ~L!Running(e)'
    BY <1>1, <2>1, <2>2 DEF L!Begins
  <2>3. QED
    BY <1>1, <2>1, <2>2 DEF ServedInv
<1>2. ASSUME NEW c \in Users, L!SetAllowLan(c) PROVE ServedInv'
  <2>1. L!Begins(c) /\ listenPc' = [listenPc EXCEPT ![c] = "ports"]
    BY <1>2 DEF L!SetAllowLan, L!Goes
  <2>2. QED
    BY <1>1, <2>1
<1>3. ASSUME NEW c \in Users, L!Reload(c) PROVE ServedInv'
  <2>1. L!Begins(c) /\ listenPc' = [listenPc EXCEPT ![c] = "recreate"] /\ toCome'[c] = Kinds
    BY <1>3 DEF L!Reload, L!Goes, SocketInv, Types
  <2>2. QED
    BY <1>1, <2>1
<1>4. ASSUME NEW c \in Users, L!GetPorts(c) PROVE ServedInv'
  <2>1. /\ listenPc[c] = "ports" /\ listenPc' = [listenPc EXCEPT ![c] = "recreate"]
        /\ toCome' = [toCome EXCEPT ![c] = Kinds] /\ alone' = alone
        /\ listenPc \in [Users -> {"begin", "ports", "recreate", "done"}] /\ toCome \in [Users -> SUBSET Kinds]
    BY <1>4 DEF L!GetPorts, L!Goes, SocketInv, Types
  <2>2. \A d \in Users : L!Running(d)' <=> L!Running(d)
    BY <2>1
  <2>3. ASSUME NEW d \in Users, alone[d], L!Running(d), listenPc'[d] = "recreate" PROVE d = c /\ toCome'[d] = Kinds
    BY <2>1, <2>3 DEF ServedInv
  <2>4. QED
    BY <2>1, <2>2, <2>3 DEF ServedInv
<1>5. ASSUME NEW c \in Users, L!ReCreate(c) PROVE ServedInv'
  <2>1. PICK k \in Kinds :
          /\ toCome' = [toCome EXCEPT ![c] = @ \ {k}]
          /\ \A j \in Kinds \ {k} : tcp'[j] = tcp[j] /\ udp'[j] = udp[j] /\ (j \in closed' <=> j \in closed)
          /\ failed \subseteq failed' /\ (c \notin failed' => Listening(c, k)')
    BY <1>5, ReCreateServes
  <2>2. listenPc[c] = "recreate" /\ UNCHANGED <<listenPc, ports, alone>> /\ toCome \in [Users -> SUBSET Kinds]
    BY <1>5 DEF L!ReCreate, SocketInv, Types
  <2>3. ASSUME NEW d \in Users, alone[d], L!Running(d), d \notin failed', NEW j \in Kinds \ toCome'[d]
        PROVE  Listening(d, j)'
    <3>1. d = c
      BY <2>2, <2>3 DEF ServedInv
    <3>2. CASE j = k
      BY <2>1, <2>3, <3>1, <3>2
    <3>3. CASE j # k
      <4>1. j \in Kinds \ toCome[d] /\ d \notin failed /\ listenPc[d] = "recreate"
        BY <2>1, <2>2, <2>3, <3>1, <3>3
      <4>2. Listening(d, j)
        BY <2>3, <4>1 DEF ServedInv
      <4>3. QED
        BY <2>1, <2>2, <3>3, <4>2 DEF Listening
    <3>4. QED
      BY <3>2, <3>3
  <2>4. QED
    BY <2>2, <2>3 DEF ServedInv
<1>6. ASSUME NEW c \in Users, L!Finish(c) PROVE ServedInv'
  <2>1. /\ listenPc' = [listenPc EXCEPT ![c] = "done"]
        /\ listenPc \in [Users -> {"begin", "ports", "recreate", "done"}]
        /\ UNCHANGED <<tcp, udp, closed, ports, toCome, alone, failed>>
    BY <1>6 DEF L!Finish, L!Goes, SocketInv, Types
  <2>2. \A d \in Users : L!Running(d)' => L!Running(d) /\ listenPc'[d] = listenPc[d]
    BY <2>1
  <2>3. \A d \in Users, k \in Kinds : Listening(d, k)' <=> Listening(d, k)
    BY <2>1 DEF Listening
  <2>4. QED
    BY <2>1, <2>2, <2>3 DEF ServedInv
<1>7. CASE UNCHANGED (L!vars)
  BY <1>7 DEF L!vars, ServedInv, Listening
<1>8. QED
  BY <1>2, <1>3, <1>4, <1>5, <1>6, <1>7 DEF L!Next

(* What is listened for is what a request that ran alone asked for.        *)
LEMMA ServedHolds == ASSUME L!ListenersAssumption, SocketInv, ServedInv PROVE L!AloneIsServed
<1> SUFFICES ASSUME NEW c \in Users, listenPc[c] = "recreate", toCome[c] = {}, alone[c], c \notin failed, NEW k \in Kinds
             PROVE  IF ports[c][k] = 0 THEN L!Sockets(k, "tcp") = {} /\ L!Sockets(k, "udp") = {}
                    ELSE /\ L!Listens(k, "tcp", ports[c][k])
                         /\ k \in {"socks", "mixed"} => L!Listens(k, "udp", ports[c][k])
  BY DEF L!AloneIsServed
<1>1. Listening(c, k)
  BY DEF ServedInv, L!Running
<1>2. L!NoSocket \notin Addresses
  BY DEF L!NoSocket, Addresses, L!ListenersAssumption
<1>3. CASE ports[c][k] = 0
  <2>1. ASSUME NEW s \in open, s[1] = k PROVE FALSE
    <3>1. PICK proto \in {"tcp", "udp"}, a \in Addresses : s = Socket(k, proto, a)
      BY Triples, <2>1 DEF SocketInv, Held
    <3>2. a # L!NoSocket
      BY <1>2
    <3>3. QED
      BY <1>1, <1>3, <2>1, <3>1, <3>2 DEF Listening, SocketInv, Held
  <2>2. QED
    BY <1>3, <2>1 DEF L!Sockets
<1>4. CASE ports[c][k] # 0
  <2>1. Socket(k, "tcp", tcp[k]) \in open /\ tcp[k].port = ports[c][k] /\ tcp[k] \in Addresses
    BY <1>1, <1>4 DEF Listening, SocketInv, Held
  <2>2. L!Listens(k, "tcp", ports[c][k])
    BY Triples, <2>1 DEF L!Listens, L!Sockets
  <2>3. ASSUME k \in {"socks", "mixed"} PROVE L!Listens(k, "udp", ports[c][k])
    <3>1. Socket(k, "udp", tcp[k]) \in open
      BY <1>1, <1>4, <2>1, <2>3 DEF Listening, SocketInv, Held
    <3>2. QED
      BY Triples, <2>1, <3>1 DEF L!Listens, L!Sockets
  <2>4. QED
    BY <1>4, <2>2, <2>3
<1>5. QED
  BY <1>3, <1>4

(* The sockets are accounted for, whoever changes the flag comes to every  *)
(* listener afterwards, and nobody disturbs who runs alone.                *)
LEMMA ListenersInit == ASSUME L!ListenersAssumption, L!Init PROVE SocketInv /\ LanInv /\ ServedInv
<1> USE DEF L!ListenersAssumption
<1>1. L!NoSocket \notin Addresses
  BY DEF L!NoSocket, Addresses, L!NoPort
<1>2. Types
  BY DEF L!Init, Types
<1>3. Held /\ LanInv
  BY <1>1 DEF L!Init, Held, LanInv
<1>4. L!SameAddress /\ Both
  BY DEF L!Init, L!SameAddress, Both
<1>5. ServedInv
  BY DEF L!Init, ServedInv, L!Running
<1>6. QED
  BY <1>2, <1>3, <1>4, <1>5 DEF SocketInv

(* Every step of a request or a reload.                                    *)
LEMMA SocketsStay ==
    ASSUME L!ListenersAssumption, SocketInv, LanInv, [L!Next]_(L!vars) PROVE SocketInv' /\ LanInv'
<1> USE DEF L!ListenersAssumption
<1>1. ASSUME NEW c \in Users, L!SetAllowLan(c) PROVE SocketInv' /\ LanInv'
  <2>1. listenPc' = [listenPc EXCEPT ![c] = "ports"] /\ allowLan' \in BOOLEAN
        /\ UNCHANGED <<tcp, udp, closed, open, asks, ports, toCome>>
    BY <1>1 DEF L!SetAllowLan, L!Begins, L!Goes, SocketInv, Types
  <2>2. SocketInv'
    BY <2>1 DEF SocketInv, Types, Held, L!SameAddress, Both
  <2>3. \A k : Awaited(k)'
    BY <2>1 DEF Awaited, SocketInv, Types
  <2>4. QED
    BY <2>2, <2>3 DEF LanInv
<1>2. ASSUME NEW c \in Users, L!Reload(c) PROVE SocketInv' /\ LanInv'
  <2>1. PICK f \in Configured : ports' = [ports EXCEPT ![c] = f]
    BY <1>2 DEF L!Reload
  <2>2. listenPc' = [listenPc EXCEPT ![c] = "recreate"] /\ toCome' = [toCome EXCEPT ![c] = Kinds] /\ allowLan' \in BOOLEAN
        /\ UNCHANGED <<tcp, udp, closed, open, asks>>
    BY <1>2 DEF L!Reload, L!Begins, L!Goes, SocketInv, Types
  <2>3. SocketInv'
    BY <2>1, <2>2 DEF SocketInv, Types, Held, L!SameAddress, Both
  <2>4. \A k \in Kinds : Awaited(k)'
    BY <2>2 DEF Awaited, SocketInv, Types
  <2>5. QED
    BY <2>3, <2>4 DEF LanInv
<1>3. ASSUME NEW c \in Users, L!GetPorts(c) PROVE SocketInv' /\ LanInv'
  <2>1. listenPc' = [listenPc EXCEPT ![c] = "recreate"] /\ toCome' = [toCome EXCEPT ![c] = Kinds]
        /\ UNCHANGED <<allowLan, tcp, udp, closed, open, asks>>
    BY <1>3 DEF L!GetPorts, L!Goes
  <2>2. \A k \in Kinds : L!PortOf(k) \in Ports \cup {0}
    BY DEF SocketInv, Types, L!PortOf, Addresses
  <2>3. asks[c].port \in Ports \cup {L!NoPort}
    BY DEF SocketInv, Types, L!Requests
  <2>4. ports' \in [Users -> [Kinds -> Ports \cup {0}]]
    BY <1>3, <2>2, <2>3 DEF L!GetPorts, SocketInv, Types
  <2>5. SocketInv'
    BY <2>1, <2>4 DEF SocketInv, Types, Held, L!SameAddress, Both
  <2>6. \A k \in Kinds : Awaited(k)'
    BY <2>1 DEF Awaited, SocketInv, Types
  <2>7. QED
    BY <2>5, <2>6 DEF LanInv
<1>4. ASSUME NEW c \in Users, L!ReCreate(c) PROVE SocketInv' /\ LanInv'
  <2>1. SocketInv'
    BY <1>4, ReCreateInv
  <2>2. PICK k \in Kinds :
          /\ k \in toCome[c] /\ toCome' = [toCome EXCEPT ![c] = @ \ {k}]
          /\ \A s \in open' : s[1] # k => s \in open
          /\ \A s \in open' : s[1] = k => s[3].lan = allowLan
    BY <1>4, ReCreateInv
  <2>3. UNCHANGED <<listenPc, allowLan>>
    BY <1>4 DEF L!ReCreate
  <2>4. ASSUME NEW j \in Kinds, j # k, Awaited(j) PROVE Awaited(j)'
    BY <2>2, <2>3, <2>4 DEF Awaited, SocketInv, Types
  <2>5. ASSUME NEW j \in Kinds, NEW proto \in {"tcp", "udp"}, NEW a \in Addresses, Socket(j, proto, a) \in open'
        PROVE  a.lan = allowLan' \/ Awaited(j)'
    <3>1. CASE j = k
      BY Triples, <2>2, <2>3, <2>5, <3>1
    <3>2. CASE j # k
      <4>1. Socket(j, proto, a) \in open
        BY Triples, <2>2, <2>5, <3>2
      <4>2. QED
        BY <2>3, <2>4, <3>2, <4>1 DEF LanInv
    <3>3. QED
      BY <3>1, <3>2
  <2>6. QED
    BY <2>1, <2>5 DEF LanInv
<1>5. ASSUME NEW c \in Users, L!Finish(c) PROVE SocketInv' /\ LanInv'
  <2>1. listenPc[c] = "recreate" /\ toCome[c] = {} /\ listenPc' = [listenPc EXCEPT ![c] = "done"]
        /\ UNCHANGED <<allowLan, tcp, udp, closed, open, asks, ports, toCome>>
    BY <1>5 DEF L!Finish, L!Goes
  <2>2. SocketInv'
    BY <2>1 DEF SocketInv, Types, Held, L!SameAddress, Both
  <2>3. ASSUME NEW k \in Kinds, Awaited(k) PROVE Awaited(k)'
    BY <2>1, <2>3 DEF Awaited, SocketInv, Types
  <2>4. QED
    BY <2>1, <2>2, <2>3 DEF LanInv
<1>6. CASE UNCHANGED (L!vars)
  BY <1>6 DEF L!vars, SocketInv, Types, Held, L!SameAddress, Both, LanInv, Awaited
<1>7. QED
  BY <1>1, <1>2, <1>3, <1>4, <1>5, <1>6 DEF L!Next

(* What the invariants say of the properties.                              *)
LEMMA ListenersHold ==
    ASSUME L!ListenersAssumption, SocketInv, LanInv, ServedInv
    PROVE  L!TypeOK /\ L!SameAddress /\ L!LastWordOnLan /\ L!AloneIsServed
<1>1. L!TypeOK
  <2> SUFFICES ASSUME NEW k \in Kinds
               PROVE  /\ L!Sockets(k, "tcp") = IF tcp[k] = L!NoSocket \/ k \in closed THEN {} ELSE {<<k, "tcp", tcp[k]>>}
                      /\ L!Sockets(k, "udp") = IF udp[k] = L!NoSocket THEN {} ELSE {<<k, "udp", udp[k]>>}
    BY DEF L!TypeOK, SocketInv, Types
  <2>1. L!NoSocket \notin Addresses
    BY DEF L!ListenersAssumption, Addresses, L!NoSocket, L!NoPort
  <2>2. \A s : s \in L!Sockets(k, "tcp") <=> \E a \in Addresses : s = Socket(k, "tcp", a) /\ s \in open
    BY Triples DEF L!Sockets, SocketInv, Held
  <2>3. \A s : s \in L!Sockets(k, "udp") <=> \E a \in Addresses : s = Socket(k, "udp", a) /\ s \in open
    BY Triples DEF L!Sockets, SocketInv, Held
  <2>4. /\ tcp[k] \in Addresses \cup {L!NoSocket} /\ udp[k] \in Addresses \cup {L!NoSocket}
        /\ \A a \in Addresses : /\ Socket(k, "tcp", a) \in open <=> tcp[k] = a /\ k \notin closed
                                /\ Socket(k, "udp", a) \in open <=> udp[k] = a
    BY DEF SocketInv, Types, Held
  <2>5. \A s : s \in L!Sockets(k, "tcp") <=> tcp[k] # L!NoSocket /\ k \notin closed /\ s = Socket(k, "tcp", tcp[k])
    <3>1. ASSUME NEW s \in L!Sockets(k, "tcp") PROVE tcp[k] # L!NoSocket /\ k \notin closed /\ s = Socket(k, "tcp", tcp[k])
      <4>1. PICK a \in Addresses : s = Socket(k, "tcp", a) /\ s \in open
        BY <2>2, <3>1
      <4>2. QED
        BY Triples, <2>1, <2>4, <4>1
    <3>2. ASSUME tcp[k] # L!NoSocket, k \notin closed PROVE Socket(k, "tcp", tcp[k]) \in L!Sockets(k, "tcp")
      BY Triples, <2>2, <2>4, <3>2
    <3>3. QED
      BY <3>1, <3>2
  <2>6. \A s : s \in L!Sockets(k, "udp") <=> udp[k] # L!NoSocket /\ s = Socket(k, "udp", udp[k])
    <3>1. ASSUME NEW s \in L!Sockets(k, "udp") PROVE udp[k] # L!NoSocket /\ s = Socket(k, "udp", udp[k])
      <4>1. PICK a \in Addresses : s = Socket(k, "udp", a) /\ s \in open
        BY <2>3, <3>1
      <4>2. QED
        BY Triples, <2>1, <2>4, <4>1
    <3>2. ASSUME udp[k] # L!NoSocket PROVE Socket(k, "udp", udp[k]) \in L!Sockets(k, "udp")
      BY <2>3, <2>4, <3>2
    <3>3. QED
      BY <3>1, <3>2
  <2>7. L!Sockets(k, "tcp") = IF tcp[k] = L!NoSocket \/ k \in closed THEN {} ELSE {<<k, "tcp", tcp[k]>>}
    BY <2>5 DEF Socket
  <2>8. L!Sockets(k, "udp") = IF udp[k] = L!NoSocket THEN {} ELSE {<<k, "udp", udp[k]>>}
    BY <2>6 DEF Socket
  <2>9. QED
    BY <2>7, <2>8
<1>2. L!LastWordOnLan
  <2> SUFFICES ASSUME L!Settled, NEW s \in open PROVE s[3].lan = allowLan
    BY DEF L!LastWordOnLan
  <2>1. PICK k \in Kinds, proto \in {"tcp", "udp"}, a \in Addresses : s = Socket(k, proto, a)
    BY DEF SocketInv, Held
  <2>2. ~Awaited(k)
    BY DEF Awaited, L!Settled
  <2>3. QED
    BY Triples, <2>1, <2>2 DEF LanInv
<1>3. L!SameAddress
  BY DEF SocketInv
<1>4. QED
  BY <1>1, <1>2, <1>3, ServedHolds

(* The type invariant: the listener variables and the open sockets agree.  *)
THEOREM SocketsAgree == ASSUME L!ListenersAssumption PROVE L!Spec => []L!TypeOK
<1>1. L!Init => SocketInv /\ LanInv /\ ServedInv
  BY ListenersInit
<1>2. SocketInv /\ LanInv /\ ServedInv /\ [L!Next]_(L!vars) => (SocketInv /\ LanInv /\ ServedInv)'
  BY SocketsStay, ServedStays
<1>3. SocketInv /\ LanInv /\ ServedInv => L!TypeOK
  BY ListenersHold
<1>4. QED
  BY <1>1, <1>2, <1>3, PTL DEF L!Spec

(* A UDP listener never outlives its TCP listener nor has another address, *)
(* for any requests, reloads and sockets that do not open.                 *)
THEOREM UDPFollowsTCP == ASSUME L!ListenersAssumption PROVE L!Spec => []L!SameAddress
<1>1. L!Init => SocketInv /\ LanInv /\ ServedInv
  BY ListenersInit
<1>2. SocketInv /\ LanInv /\ ServedInv /\ [L!Next]_(L!vars) => (SocketInv /\ LanInv /\ ServedInv)'
  BY SocketsStay, ServedStays
<1>3. SocketInv /\ LanInv /\ ServedInv => L!SameAddress
  BY ListenersHold
<1>4. QED
  BY <1>1, <1>2, <1>3, PTL DEF L!Spec

(* For any number of requests and reloads: when all is quiet no listener   *)
(* is open to others after the flag was taken back, nor closed to them     *)
(* after it was given.                                                     *)
THEOREM FlagIsObeyed == ASSUME L!ListenersAssumption PROVE L!Spec => []L!LastWordOnLan
<1>1. L!Init => SocketInv /\ LanInv /\ ServedInv
  BY ListenersInit
<1>2. SocketInv /\ LanInv /\ ServedInv /\ [L!Next]_(L!vars) => (SocketInv /\ LanInv /\ ServedInv)'
  BY SocketsStay, ServedStays
<1>3. SocketInv /\ LanInv /\ ServedInv => L!LastWordOnLan
  BY ListenersHold
<1>4. QED
  BY <1>1, <1>2, <1>3, PTL DEF L!Spec

(* A request or reload that ran alone and for which every socket opened    *)
(* has all its ports listening at the end, whatever failed before it.      *)
THEOREM AloneGetsItsPorts == ASSUME L!ListenersAssumption PROVE L!Spec => []L!AloneIsServed
<1>1. L!Init => SocketInv /\ LanInv /\ ServedInv
  BY ListenersInit
<1>2. SocketInv /\ LanInv /\ ServedInv /\ [L!Next]_(L!vars) => (SocketInv /\ LanInv /\ ServedInv)'
  BY SocketsStay, ServedStays
<1>3. SocketInv /\ LanInv /\ ServedInv => L!AloneIsServed
  BY ListenersHold
<1>4. QED
  BY <1>1, <1>2, <1>3, PTL DEF L!Spec

-----------------------------------------------------------------------------
(* PROVIDERS: any callers, contents, nodes and checks.                     *)

UpdatePlaces == {"stat", "idle", "read", "compare", "parse", "write", "hash", "install", "check", "over", "refused"}

(* While no two updates overlapped: one works at a time, and what is       *)
(* remembered, used and tested differ only while it changes them.          *)
InstallInv ==
    /\ updatePc \in [P!Actors -> UpdatePlaces]
    /\ DOMAIN buf = P!Actors
    /\ ~overlapped =>
        /\ \A a, o \in P!Actors : P!Working(a) /\ P!Working(o) => a = o
        /\ \A a \in P!Actors : /\ updatePc[a] = "install" => hash = buf[a] /\ nodes = checked
                               /\ updatePc[a] = "check" => hash = buf[a] /\ nodes = buf[a]
        /\ (\A a \in P!Actors : updatePc[a] \notin {"install", "check"}) => hash = nodes /\ nodes = checked

(* What is written, or read from the copy, parsed before; only the start   *)
(* of the provider relies on a copy it did not write.                      *)
CopyInv ==
    /\ published => updatePc["init"] = "over"
    /\ \A a \in P!Actors \ {"init"} : P!Working(a) => updatePc["init"] \in {"install", "check", "over"}
    /\ \A a \in P!Actors : updatePc[a] \in {"write", "hash", "install", "check"} => buf[a] \in Good
    /\ setup.vehicle # "file" /\ local /\ updatePc["init"] \in {"parse", "write"} => file = buf["init"]
    /\ local => updatePc["init"] \notin {"stat", "read"}
    /\ updatePc["init"] # "compare"
    /\ P!KeptCopyParses

(* What the steps of an update leave alone, and where they lead.           *)
LEMMA UpdateLeads ==
    ASSUME InstallInv, NEW a \in P!Actors, P!UpdateStep(a)
    PROVE  /\ \A o \in P!Actors \ {a} : updatePc'[o] = updatePc[o] /\ buf'[o] = buf[o]
           /\ updatePc' \in [P!Actors -> UpdatePlaces] /\ DOMAIN buf' = P!Actors
           /\ P!Working(a) /\ UNCHANGED <<setup, overlapped, published>>
           /\ \/ updatePc'[a] \notin {"install", "check"} /\ updatePc[a] \notin {"install", "hash", "check"}
                 /\ UNCHANGED <<hash, nodes, checked>>
              \/ updatePc[a] = "hash" /\ updatePc'[a] = "install" /\ hash' = buf[a]
                 /\ UNCHANGED <<buf, nodes, checked>>
              \/ updatePc[a] = "install" /\ updatePc'[a] = "check" /\ nodes' = buf[a]
                 /\ UNCHANGED <<buf, hash, checked>>
              \/ updatePc[a] = "check" /\ ~P!Working(a)' /\ checked' = buf[a]
                 /\ UNCHANGED <<buf, hash, nodes>>
<1> USE DEF InstallInv, UpdatePlaces, P!At, P!GoOn, P!GiveUp, P!Over, P!Working, P!NextStep
<1>1. CASE P!Read(a)
  BY <1>1 DEF P!Read
<1>2. CASE P!Compare(a)
  BY <1>2 DEF P!Compare
<1>3. CASE P!Parse(a)
  BY <1>3 DEF P!Parse
<1>4. CASE P!Write(a)
  BY <1>4 DEF P!Write
<1>5. CASE P!Remember(a)
  BY <1>5 DEF P!Remember
<1>6. CASE P!Install(a)
  BY <1>6 DEF P!Install
<1>7. CASE P!InstallCheck(a)
  BY <1>7 DEF P!InstallCheck
<1>8. QED
  BY <1>1, <1>2, <1>3, <1>4, <1>5, <1>6, <1>7 DEF P!UpdateStep

(* Steps that are of no update.                                            *)
LEMMA OtherSteps ==
    ASSUME [P!PNext]_(P!pvars), ~\E a \in P!Actors : P!Begin(a) \/ P!UpdateStep(a), ~P!Initial
    PROVE  /\ UNCHANGED <<setup, updatePc, buf, local, hash, nodes, checked, overlapped>>
           /\ file' = file \/ setup.vehicle = "file"
           /\ published' = published \/ updatePc["init"] = "over"
<1>1. CASE P!Publish \/ P!Edit \/ P!CheckTick \/ P!Drop
  BY <1>1 DEF P!Publish, P!Edit, P!CheckTick, P!Drop, P!fetching, P!At
<1>2. CASE (\E k \in Checks : P!TestStep(k)) \/ \E l \in {"pull", "check"} : P!LoopEnds(l)
  BY <1>2 DEF P!TestStep, P!TestBegins, P!TestDials, P!TestAnswers, P!TestRecords, P!TestTrims, P!TestEnds,
              P!CheckEnds, P!LoopEnds, P!fetching
<1>3. CASE UNCHANGED (P!pvars)
  BY <1>3 DEF P!pvars, P!fetching
<1>4. QED
  BY <1>1, <1>2, <1>3 DEF P!PNext

(* Only an update that nobody overlaps changes what is used.               *)
LEMMA InstallStays == ASSUME InstallInv, [P!PNext]_(P!pvars) PROVE InstallInv'
<1>1. ASSUME NEW a \in P!Actors, P!Begin(a) PROVE InstallInv'
  <2>1. /\ updatePc[a] = "idle" /\ updatePc' = [updatePc EXCEPT ![a] = "read"]
        /\ overlapped' = (overlapped \/ \E o \in P!Actors : P!Working(o))
        /\ UNCHANGED <<buf, hash, nodes, checked>>
    BY <1>1 DEF P!Begin, P!At
  <2>2. updatePc' \in [P!Actors -> UpdatePlaces] /\ \A o \in P!Actors \ {a} : updatePc'[o] = updatePc[o]
    BY <2>1 DEF InstallInv, UpdatePlaces
  <2>3. updatePc'[a] = "read"
    BY <2>1 DEF InstallInv
  <2>4. ASSUME ~overlapped' PROVE ~overlapped /\ \A o \in P!Actors : ~P!Working(o)
    BY <2>1, <2>4
  <2>5. QED
    BY <2>1, <2>2, <2>3, <2>4 DEF InstallInv, P!Working
<1>2. ASSUME NEW a \in P!Actors, P!UpdateStep(a) PROVE InstallInv'
  <2>1. /\ \A o \in P!Actors \ {a} : updatePc'[o] = updatePc[o] /\ buf'[o] = buf[o]
        /\ updatePc' \in [P!Actors -> UpdatePlaces] /\ DOMAIN buf' = P!Actors
        /\ P!Working(a) /\ UNCHANGED <<setup, overlapped, published>>
    BY <1>2, UpdateLeads
  <2>2. ASSUME ~overlapped PROVE \A o \in P!Actors \ {a} : ~P!Working(o)
    BY <2>1, <2>2 DEF InstallInv
  <2>3. ASSUME ~overlapped, NEW o \in P!Actors, NEW e \in P!Actors, P!Working(o)', P!Working(e)' PROVE o = e
    BY <2>1, <2>2, <2>3 DEF P!Working
  <2>4. ASSUME ~overlapped PROVE \A o \in P!Actors \ {a} : updatePc'[o] \notin {"install", "check"}
    BY <2>1, <2>2, <2>4 DEF P!Working
  <2>5. ASSUME ~overlapped
        PROVE  /\ \A o \in P!Actors : /\ updatePc'[o] = "install" => hash' = buf'[o] /\ nodes' = checked'
                                      /\ updatePc'[o] = "check" => hash' = buf'[o] /\ nodes' = buf'[o]
               /\ (\A o \in P!Actors : updatePc'[o] \notin {"install", "check"}) => hash' = nodes' /\ nodes' = checked'
    <3>0. \A o \in P!Actors \ {a} : updatePc[o] \notin {"install", "check"}
      BY <2>2, <2>5 DEF P!Working
    <3>1. CASE updatePc'[a] \notin {"install", "check"} /\ updatePc[a] \notin {"install", "hash", "check"}
               /\ UNCHANGED <<hash, nodes, checked>>
      BY <2>4, <2>5, <3>0, <3>1 DEF InstallInv
    <3>2. CASE updatePc[a] = "hash" /\ updatePc'[a] = "install" /\ hash' = buf[a] /\ UNCHANGED <<buf, nodes, checked>>
      BY <2>4, <2>5, <3>0, <3>2 DEF InstallInv
    <3>3. CASE updatePc[a] = "install" /\ updatePc'[a] = "check" /\ nodes' = buf[a] /\ UNCHANGED <<buf, hash, checked>>
      BY <2>4, <2>5, <3>0, <3>3 DEF InstallInv
    <3>4. CASE updatePc[a] = "check" /\ ~P!Working(a)' /\ checked' = buf[a] /\ UNCHANGED <<buf, hash, nodes>>
      BY <2>4, <2>5, <3>0, <3>4 DEF InstallInv, P!Working
    <3>5. QED
      BY <1>2, <3>1, <3>2, <3>3, <3>4, UpdateLeads
  <2>6. QED
    BY <2>1, <2>3, <2>5 DEF InstallInv
<1>3. CASE P!Initial
  <2>1. /\ updatePc["init"] = "stat" /\ UNCHANGED <<hash, nodes, checked, overlapped>>
        /\ \E place \in {"parse", "read"} : updatePc' = [updatePc EXCEPT !["init"] = place]
        /\ buf' = buf \/ buf' = [buf EXCEPT !["init"] = file]
    BY <1>3 DEF P!Initial, P!At
  <2>2. PICK place \in {"parse", "read"} : updatePc' = [updatePc EXCEPT !["init"] = place]
    BY <2>1
  <2>3. /\ updatePc' \in [P!Actors -> UpdatePlaces] /\ DOMAIN buf' = P!Actors /\ "init" \in P!Actors
        /\ updatePc'["init"] = place
        /\ \A o \in P!Actors \ {"init"} : updatePc'[o] = updatePc[o] /\ buf'[o] = buf[o]
    BY <2>1, <2>2 DEF InstallInv, UpdatePlaces, P!Actors
  <2>4. \A o \in P!Actors : P!Working(o)' => P!Working(o)
    BY <2>1, <2>3 DEF P!Working
  <2>5. \A o \in P!Actors : updatePc'[o] \in {"install", "check"} <=> updatePc[o] \in {"install", "check"}
    BY <2>1, <2>3
  <2>6. QED
    BY <2>1, <2>3, <2>4, <2>5 DEF InstallInv
<1>4. CASE ~(\E a \in P!Actors : P!Begin(a) \/ P!UpdateStep(a)) /\ ~P!Initial
  <2>1. UNCHANGED <<updatePc, buf, hash, nodes, checked, overlapped>>
    BY <1>4, OtherSteps
  <2>2. QED
    BY <2>1 DEF InstallInv, P!Working
<1>5. QED
  BY <1>1, <1>2, <1>3, <1>4

(* What is kept on the disk parses once the provider has started.          *)
LEMMA CopyStays ==
    ASSUME P!ProvidersAssumption, InstallInv, CopyInv, [P!PNext]_(P!pvars) PROVE CopyInv'
<1> USE DEF P!KeptCopyParses
<1>0. "init" \in P!Actors /\ \A a \in P!Actors : updatePc[a] \in UpdatePlaces
  BY DEF InstallInv, P!Actors
<1>1. ASSUME NEW a \in P!Actors, P!Begin(a) PROVE CopyInv'
  <2>1. /\ updatePc[a] = "idle" /\ a # "init" /\ updatePc' = [updatePc EXCEPT ![a] = "read"]
        /\ updatePc["init"] \in {"install", "check", "over"} \/ published
        /\ UNCHANGED <<setup, buf, local, file, published>>
    BY <1>1 DEF P!Begin, P!At
  <2>2. /\ updatePc'["init"] = updatePc["init"] /\ updatePc'[a] = "read"
        /\ \A o \in P!Actors \ {a} : updatePc'[o] = updatePc[o]
    BY <1>0, <2>1 DEF InstallInv
  <2>3. QED
    BY <2>1, <2>2 DEF CopyInv, P!Working
<1>2. ASSUME NEW a \in P!Actors, P!UpdateStep(a) PROVE CopyInv'
  <2> USE DEF P!At, P!GoOn, P!GiveUp, P!Over, P!NextStep
  <2>1. /\ \A o \in P!Actors \ {a} : updatePc'[o] = updatePc[o] /\ buf'[o] = buf[o]
        /\ updatePc' \in [P!Actors -> UpdatePlaces]
        /\ P!Working(a) /\ UNCHANGED <<setup, overlapped, published>>
    BY <1>2, UpdateLeads
  <2>2. ASSUME a = "init" PROVE ~published /\ (updatePc[a] \in {"stat", "read", "compare", "parse", "write", "hash"} =>
                                                  \A o \in P!Actors \ {a} : ~P!Working(o))
    BY <2>1, <2>2 DEF CopyInv, P!Working
  <2>3. ASSUME a # "init" PROVE updatePc["init"] \in {"install", "check", "over"}
    BY <2>1, <2>3 DEF CopyInv
  <2>4. /\ updatePc'[a] \in {"write", "hash", "install", "check"} => buf'[a] \in Good
        /\ a = "init" => /\ setup.vehicle # "file" /\ local' /\ updatePc'["init"] \in {"parse", "write"} => file' = buf'["init"]
                         /\ local' => updatePc'["init"] \notin {"stat", "read"}
                         /\ updatePc'["init"] # "compare"
                         /\ P!KeptCopyParses'
        /\ a # "init" => local' = local /\ (file' = file \/ file' \in Good)
    <3>1. CASE P!Read(a)
      BY <1>0, <3>1 DEF P!Read, CopyInv, InstallInv
    <3>2. CASE P!Compare(a)
      <4>1. a # "init"
        BY <3>2 DEF P!Compare, CopyInv
      <4>2. QED
        BY <1>0, <3>2, <4>1 DEF P!Compare, CopyInv, InstallInv
    <3>3. CASE P!Parse(a)
      BY <1>0, <3>3 DEF P!Parse, CopyInv, InstallInv
    <3>4. CASE P!Write(a)
      BY <1>0, <3>4 DEF P!Write, CopyInv, InstallInv, P!Keeps
    <3>5. CASE P!Remember(a)
      BY <1>0, <3>5 DEF P!Remember, CopyInv, InstallInv
    <3>6. CASE P!Install(a)
      BY <1>0, <3>6 DEF P!Install, CopyInv, InstallInv
    <3>7. CASE P!InstallCheck(a)
      BY <1>0, <3>7 DEF P!InstallCheck, CopyInv, InstallInv
    <3>8. QED
      BY <1>2, <3>1, <3>2, <3>3, <3>4, <3>5, <3>6, <3>7 DEF P!UpdateStep
  <2>5. a = "init" /\ updatePc[a] \in {"install", "check"} => updatePc'[a] \in {"check", "over"}
    <3>1. CASE P!Install(a) \/ P!InstallCheck(a)
      BY <1>0, <3>1 DEF P!Install, P!InstallCheck, InstallInv
    <3>2. CASE P!Read(a) \/ P!Compare(a) \/ P!Parse(a) \/ P!Write(a) \/ P!Remember(a)
      BY <3>2 DEF P!Read, P!Compare, P!Parse, P!Write, P!Remember
    <3>3. QED
      BY <1>2, <3>1, <3>2 DEF P!UpdateStep
  <2>6. CASE a = "init"
    <3>1. \A o \in P!Actors \ {"init"} : P!Working(o)' => updatePc'["init"] \in {"install", "check", "over"}
      BY <1>0, <2>1, <2>2, <2>5, <2>6 DEF CopyInv, P!Working, UpdatePlaces
    <3>2. QED
      BY <2>1, <2>2, <2>4, <2>6, <3>1 DEF CopyInv
  <2>7. CASE a # "init"
    BY <1>0, <2>1, <2>3, <2>4, <2>7 DEF CopyInv, P!Working
  <2>8. QED
    BY <2>6, <2>7
<1>3. CASE P!Initial
  <2>1. /\ updatePc["init"] = "stat" /\ UNCHANGED <<setup, file, published>>
        /\ \/ buf' = [buf EXCEPT !["init"] = file] /\ updatePc' = [updatePc EXCEPT !["init"] = "parse"]
           \/ UNCHANGED <<buf, local>> /\ updatePc' = [updatePc EXCEPT !["init"] = "read"] /\ file = 0
    BY <1>3 DEF P!Initial, P!At
  <2>2. \A o \in P!Actors \ {"init"} : updatePc'[o] = updatePc[o] /\ buf'[o] = buf[o]
    BY <1>0, <2>1 DEF InstallInv
  <2>3. \A o \in P!Actors \ {"init"} : ~P!Working(o)
    BY <2>1 DEF CopyInv
  <2>4. ~local
    BY <2>1 DEF CopyInv
  <2>5. QED
    BY <1>0, <2>1, <2>2, <2>3, <2>4 DEF CopyInv, InstallInv, P!Working
<1>4. CASE ~(\E a \in P!Actors : P!Begin(a) \/ P!UpdateStep(a)) /\ ~P!Initial
  <2>1. /\ UNCHANGED <<setup, updatePc, buf, local>>
        /\ file' = file \/ setup.vehicle = "file"
        /\ published' = published \/ updatePc["init"] = "over"
    BY <1>4, OtherSteps
  <2>2. QED
    BY <2>1 DEF CopyInv, P!Working
<1>5. QED
  BY <1>1, <1>2, <1>3, <1>4

(* Tests: a check has no more of them than slots, and each record too many *)
(* has a test that is about to trim it.                                    *)
TestInv ==
    /\ DOMAIN running = Checks /\ DOMAIN todo = Checks /\ DOMAIN list = Checks
    /\ tokens \in [Checks -> Nat]
    /\ \A k \in Checks :
        /\ IsFiniteSet(DOMAIN running[k]) /\ Cardinality(DOMAIN running[k]) + tokens[k] <= Slots
        /\ todo[k] \cap DOMAIN running[k] = {}
        /\ list[k] = {} => todo[k] = {} /\ DOMAIN running[k] = {}
    /\ history \in [P!Nodes -> Nat]
    /\ \A n \in P!Nodes : history[n] <= MaxHistory + Cardinality(P!Trimming(n))
    /\ stopped \cap done = {}
    /\ ~dropped => stopped = {} /\ done = {}

(* Providers counts as everyone does.                                      *)
LEMMA SameCount == ASSUME NEW T PROVE P!Cardinality(T) = Cardinality(T)
  BY DEF P!Cardinality, Cardinality

LEMMA SameFinite == ASSUME NEW T PROVE P!IsFiniteSet(T) <=> IsFiniteSet(T)
  BY DEF P!IsFiniteSet, IsFiniteSet

(* What cards do when one joins or leaves.                                 *)
LEMMA OneMore ==
    ASSUME NEW T, IsFiniteSet(T), NEW x
    PROVE  /\ IsFiniteSet(T \cup {x}) /\ Cardinality(T) \in Nat
           /\ Cardinality(T \cup {x}) <= Cardinality(T) + 1
           /\ x \notin T => Cardinality(T \cup {x}) = Cardinality(T) + 1
           /\ IsFiniteSet(T \ {x})
           /\ x \in T => Cardinality(T \ {x}) = Cardinality(T) - 1 /\ Cardinality(T) # 0
<1>1. Cardinality(T) \in Nat
  BY FS_CardinalityType
<1>2. IsFiniteSet(T \cup {x}) /\ (x \notin T => Cardinality(T \cup {x}) = Cardinality(T) + 1)
  BY FS_AddElement
<1>3. x \in T => T \cup {x} = T
  OBVIOUS
<1>4. IsFiniteSet(T \ {x}) /\ (x \in T => Cardinality(T \ {x}) = Cardinality(T) - 1)
  BY FS_RemoveElement
<1>5. x \in T => Cardinality(T) # 0
  BY FS_EmptySet
<1>6. Cardinality(T \cup {x}) <= Cardinality(T) + 1
  <2>1. CASE x \in T
    <3>1. Cardinality(T \cup {x}) = Cardinality(T)
      BY <1>3, <2>1
    <3>2. QED
      BY <1>1, <3>1
  <2>2. CASE x \notin T
    <3>1. Cardinality(T \cup {x}) = Cardinality(T) + 1
      BY <1>2, <2>2
    <3>2. QED
      BY <1>1, <3>1
  <2>3. QED
    BY <2>1, <2>2
<1>7. QED
  BY <1>1, <1>2, <1>4, <1>5, <1>6

(* A step of one test changes one check, and which tests are about to trim *)
(* one node.                                                               *)
LEMMA OneCheck ==
    ASSUME P!ProvidersAssumption, TestInv, NEW k \in Checks, NEW n,
           DOMAIN running' = Checks, DOMAIN todo' = Checks, DOMAIN list' = Checks,
           tokens' \in [Checks -> Nat],
           UNCHANGED <<stopped, done, dropped>>,
           \A j \in Checks \ {k} :
               running'[j] = running[j] /\ todo'[j] = todo[j] /\ list'[j] = list[j] /\ tokens'[j] = tokens[j],
           IsFiniteSet(DOMAIN running'[k]), Cardinality(DOMAIN running'[k]) + tokens'[k] <= Slots,
           todo'[k] \cap DOMAIN running'[k] = {},
           list'[k] = {} => todo'[k] = {} /\ DOMAIN running'[k] = {},
           \A m \in P!Nodes \ {n} : /\ history'[m] = history[m]
                                    /\ m \in DOMAIN running'[k] <=> m \in DOMAIN running[k]
                                    /\ m \in DOMAIN running[k] => running'[k][m] = running[k][m],
           history' \in [P!Nodes -> Nat],
           n \in P!Nodes => history'[n] <= MaxHistory + Cardinality(P!Trimming(n)')
    PROVE  TestInv'
<1>1. ASSUME NEW m \in P!Nodes PROVE history'[m] <= MaxHistory + Cardinality(P!Trimming(m)')
  <2>1. CASE m # n
    <3>1. P!Trimming(m)' = P!Trimming(m)
      BY <2>1 DEF P!Trimming
    <3>2. QED
      BY <2>1, <3>1 DEF TestInv
  <2>2. CASE m = n
    BY <2>2
  <2>3. QED
    BY <2>1, <2>2
<1>2. QED
  BY <1>1 DEF TestInv

(* Which marks count.                                                      *)
LEMMA TrimsOfTwo ==
    ASSUME TestInv, P!ProvidersAssumption, NEW k \in Checks, NEW n, DOMAIN running' = Checks,
           \A j \in Checks \ {k} : running'[j] = running[j]
    PROVE  LET was == n \in DOMAIN running[k] /\ running[k][n] = "trim"
               is == n \in DOMAIN running'[k] /\ running'[k][n] = "trim" IN
           /\ Cardinality(P!Trimming(n)) \in Nat /\ Cardinality(P!Trimming(n)') \in Nat
           /\ was = is => Cardinality(P!Trimming(n)') = Cardinality(P!Trimming(n))
           /\ ~was /\ is => Cardinality(P!Trimming(n)') = Cardinality(P!Trimming(n)) + 1
           /\ was /\ ~is => Cardinality(P!Trimming(n)') = Cardinality(P!Trimming(n)) - 1
<1> DEFINE was == n \in DOMAIN running[k] /\ running[k][n] = "trim"
           is == n \in DOMAIN running'[k] /\ running'[k][n] = "trim"
           T == P!Trimming(n)
           U == P!Trimming(n)'
<1>1. T \subseteq Checks /\ U \subseteq Checks
  BY DEF P!Trimming
<1>2. IsFiniteSet(T) /\ IsFiniteSet(U)
  <2> HIDE DEF T, U
  <2>1. IsFiniteSet(Checks)
    BY SameFinite DEF P!ProvidersAssumption
  <2>2. IsFiniteSet(T)
    BY <1>1, <2>1, FS_Subset
  <2>3. IsFiniteSet(U)
    BY <1>1, <2>1, FS_Subset
  <2>4. QED
    BY <2>2, <2>3
<1>3. (k \in T <=> was) /\ (k \in U <=> is)
  BY DEF P!Trimming
<1>4. \A j : j # k => (j \in U <=> j \in T)
  BY DEF P!Trimming
<1> HIDE DEF was, is, T, U
<1>5. /\ (was <=> is) => U = T
      /\ ~was /\ is => U = T \cup {k}
      /\ was /\ ~is => U = T \ {k}
  BY <1>3, <1>4
<1>6. Cardinality(T) \in Nat /\ Cardinality(U) \in Nat
  BY <1>2, FS_CardinalityType
<1>7. ~was /\ is => Cardinality(U) = Cardinality(T) + 1
  BY <1>2, <1>3, <1>5, OneMore
<1>8. was /\ ~is => Cardinality(U) = Cardinality(T) - 1
  BY <1>2, <1>3, <1>5, OneMore
<1>9. was = is => Cardinality(U) = Cardinality(T)
  <2>1. was = is => (was <=> is)
    OBVIOUS
  <2>2. QED
    BY <1>5, <2>1
<1>10. QED
  BY <1>6, <1>7, <1>8, <1>9 DEF was, is, T, U

(* No step breaks it: a node that is tested many times at once keeps no    *)
(* more than a record too many for each test.                              *)
LEMMA TestsStay == ASSUME P!ProvidersAssumption, TestInv, [P!PNext]_(P!pvars) PROVE TestInv'
<1> USE DEF P!ProvidersAssumption
<1>1. ASSUME NEW k \in Checks, NEW n \in todo[k], P!TestBegins(k, n) PROVE TestInv'
  <2>1. /\ tokens[k] > 0 /\ tokens' = [tokens EXCEPT ![k] = @ - 1] /\ todo' = [todo EXCEPT ![k] = @ \ {n}]
        /\ running' = [running EXCEPT ![k] = [m \in DOMAIN @ \cup {n} |-> IF m = n THEN "dial" ELSE @[m]]]
        /\ UNCHANGED <<history, list, stopped, done, dropped>>
    BY <1>1 DEF P!TestBegins, P!ending
  <2>2. /\ DOMAIN running' = Checks /\ DOMAIN running'[k] = DOMAIN running[k] \cup {n}
        /\ \A m \in DOMAIN running[k] : m # n => running'[k][m] = running[k][m]
        /\ running'[k][n] = "dial" /\ n \notin DOMAIN running[k]
        /\ \A j \in Checks \ {k} : running'[j] = running[j]
    BY <2>1 DEF TestInv
  <2>3. /\ DOMAIN todo' = Checks /\ todo'[k] = todo[k] \ {n} /\ \A j \in Checks \ {k} : todo'[j] = todo[j]
        /\ list[k] # {} /\ DOMAIN list = Checks /\ todo[k] \cap DOMAIN running[k] = {}
    BY <2>1 DEF TestInv
  <2>4. tokens' \in [Checks -> Nat] /\ tokens'[k] = tokens[k] - 1 /\ \A j \in Checks \ {k} : tokens'[j] = tokens[j]
    BY <2>1 DEF TestInv
  <2>5. IsFiniteSet(DOMAIN running'[k]) /\ Cardinality(DOMAIN running'[k]) + tokens'[k] <= Slots
    <3>1. IsFiniteSet(DOMAIN running[k]) /\ Cardinality(DOMAIN running[k]) + tokens[k] <= Slots /\ tokens[k] \in Nat
      BY DEF TestInv
    <3>2. /\ IsFiniteSet(DOMAIN running[k] \cup {n}) /\ Cardinality(DOMAIN running[k]) \in Nat
          /\ Cardinality(DOMAIN running[k] \cup {n}) = Cardinality(DOMAIN running[k]) + 1
      BY <2>2, <3>1, OneMore
    <3>3. QED
      BY <2>1, <2>2, <2>4, <3>1, <3>2
  <2>6. n \in P!Nodes => history'[n] <= MaxHistory + Cardinality(P!Trimming(n)')
    <3>1. Cardinality(P!Trimming(n)') = Cardinality(P!Trimming(n))
      BY <2>2, TrimsOfTwo
    <3>2. QED
      BY <2>1, <3>1 DEF TestInv
  <2>7. history' \in [P!Nodes -> Nat] /\ \A m \in P!Nodes : history'[m] = history[m]
    BY <2>1 DEF TestInv
  <2>8. todo'[k] \cap DOMAIN running'[k] = {}
    BY <2>2, <2>3
  <2>9. QED
    BY <2>1, <2>2, <2>3, <2>4, <2>5, <2>6, <2>7, <2>8, OneCheck
<1>2. ASSUME NEW k \in Checks, NEW n \in DOMAIN running[k], NEW step1, P!Moves(k, n, step1),
             running[k][n] = "trim" <=> FALSE, step1 # "trim",
             UNCHANGED <<list, todo, tokens, history, stopped, done, dropped>>
      PROVE  TestInv'
  <2>1. /\ DOMAIN running' = Checks /\ DOMAIN running'[k] = DOMAIN running[k] /\ running'[k][n] = step1
        /\ \A m \in DOMAIN running[k] : m # n => running'[k][m] = running[k][m]
        /\ \A j \in Checks \ {k} : running'[j] = running[j]
    BY <1>2 DEF TestInv, P!Moves
  <2>2. n \in P!Nodes => history'[n] <= MaxHistory + Cardinality(P!Trimming(n)')
    <3>1. Cardinality(P!Trimming(n)') = Cardinality(P!Trimming(n))
      BY <1>2, <2>1, TrimsOfTwo
    <3>2. QED
      BY <1>2, <3>1 DEF TestInv
  <2>3. /\ IsFiniteSet(DOMAIN running'[k]) /\ Cardinality(DOMAIN running'[k]) + tokens'[k] <= Slots
        /\ todo'[k] \cap DOMAIN running'[k] = {}
        /\ list'[k] = {} => todo'[k] = {} /\ DOMAIN running'[k] = {}
        /\ DOMAIN todo' = Checks /\ DOMAIN list' = Checks /\ tokens' \in [Checks -> Nat]
        /\ history' \in [P!Nodes -> Nat] /\ \A m \in P!Nodes : history'[m] = history[m]
    BY <1>2, <2>1 DEF TestInv
  <2>4. QED
    BY <1>2, <2>1, <2>2, <2>3, OneCheck
<1>3. ASSUME NEW k \in Checks, NEW n \in DOMAIN running[k], P!TestDials(k, n) \/ P!TestAnswers(k, n) PROVE TestInv'
  <2>1. \E place \in {"ask", "fail", "put", "none"} : P!Moves(k, n, place)
    BY <1>3 DEF P!TestDials, P!TestAnswers
  <2>2. /\ running[k][n] # "trim"
        /\ UNCHANGED <<list, todo, tokens, history, stopped, done, dropped>>
    BY <1>3 DEF P!TestDials, P!TestAnswers, P!ending
  <2>3. PICK place \in {"ask", "fail", "put", "none"} : P!Moves(k, n, place)
    BY <2>1
  <2>4. QED
    BY <1>2, <2>2, <2>3
<1>4. ASSUME NEW k \in Checks, NEW n \in DOMAIN running[k], P!TestRecords(k, n) PROVE TestInv'
  <2>1. /\ running[k][n] # "trim" /\ P!Moves(k, n, "trim") /\ history' = [history EXCEPT ![n] = @ + 1]
        /\ UNCHANGED <<list, todo, tokens, stopped, done, dropped>>
    BY <1>4 DEF P!TestRecords, P!ending
  <2>2. /\ DOMAIN running' = Checks /\ DOMAIN running'[k] = DOMAIN running[k] /\ running'[k][n] = "trim"
        /\ \A m \in DOMAIN running[k] : m # n => running'[k][m] = running[k][m]
        /\ \A j \in Checks \ {k} : running'[j] = running[j]
    BY <2>1 DEF TestInv, P!Moves
  <2>3. /\ history' \in [P!Nodes -> Nat] /\ \A m \in P!Nodes \ {n} : history'[m] = history[m]
        /\ n \in P!Nodes => history'[n] = history[n] + 1 /\ history[n] \in Nat
    <3>1. CASE n \in P!Nodes
      BY <2>1, <3>1 DEF TestInv
    <3>2. CASE n \notin P!Nodes
      <4>1. history' = history
        BY <2>1, <3>2 DEF TestInv
      <4>2. QED
        BY <3>2, <4>1 DEF TestInv
    <3>3. QED
      BY <3>1, <3>2
  <2>4. n \in P!Nodes => history'[n] <= MaxHistory + Cardinality(P!Trimming(n)')
    <3>1. /\ Cardinality(P!Trimming(n)') = Cardinality(P!Trimming(n)) + 1
          /\ Cardinality(P!Trimming(n)) \in Nat
      BY <2>1, <2>2, TrimsOfTwo
    <3>2. n \in P!Nodes => history[n] <= MaxHistory + Cardinality(P!Trimming(n))
      BY DEF TestInv
    <3>3. QED
      BY <2>3, <3>1, <3>2
  <2>5. /\ IsFiniteSet(DOMAIN running'[k]) /\ Cardinality(DOMAIN running'[k]) + tokens'[k] <= Slots
        /\ todo'[k] \cap DOMAIN running'[k] = {}
        /\ list'[k] = {} => todo'[k] = {} /\ DOMAIN running'[k] = {}
        /\ DOMAIN todo' = Checks /\ DOMAIN list' = Checks /\ tokens' \in [Checks -> Nat]
    BY <2>1, <2>2 DEF TestInv
  <2>6. QED
    BY <2>1, <2>2, <2>3, <2>4, <2>5, OneCheck
<1>5. ASSUME NEW k \in Checks, NEW n \in DOMAIN running[k], P!TestTrims(k, n) PROVE TestInv'
  <2>1. /\ running[k][n] = "trim" /\ P!Moves(k, n, "token")
        /\ history' = IF history[n] > MaxHistory THEN [history EXCEPT ![n] = @ - 1] ELSE history
        /\ UNCHANGED <<list, todo, tokens, stopped, done, dropped>>
    BY <1>5 DEF P!TestTrims, P!ending, P!TooLong
  <2>2. /\ DOMAIN running' = Checks /\ DOMAIN running'[k] = DOMAIN running[k] /\ running'[k][n] = "token"
        /\ \A m \in DOMAIN running[k] : m # n => running'[k][m] = running[k][m]
        /\ \A j \in Checks \ {k} : running'[j] = running[j]
    BY <2>1 DEF TestInv, P!Moves
  <2>3. /\ history' \in [P!Nodes -> Nat] /\ \A m \in P!Nodes \ {n} : history'[m] = history[m]
        /\ n \in P!Nodes => /\ history[n] \in Nat
                            /\ history'[n] = IF history[n] > MaxHistory THEN history[n] - 1 ELSE history[n]
    <3>1. CASE n \in P!Nodes
      BY <2>1, <3>1 DEF TestInv
    <3>2. CASE n \notin P!Nodes
      <4>1. history' = history
        BY <2>1, <3>2 DEF TestInv
      <4>2. QED
        BY <3>2, <4>1 DEF TestInv
    <3>3. QED
      BY <3>1, <3>2
  <2>4. n \in P!Nodes => history'[n] <= MaxHistory + Cardinality(P!Trimming(n)')
    <3>1. /\ Cardinality(P!Trimming(n)') = Cardinality(P!Trimming(n)) - 1
          /\ Cardinality(P!Trimming(n)) \in Nat /\ Cardinality(P!Trimming(n)') \in Nat
      BY <2>1, <2>2, TrimsOfTwo
    <3>2. n \in P!Nodes => history[n] <= MaxHistory + Cardinality(P!Trimming(n))
      BY DEF TestInv
    <3>3. QED
      BY <2>3, <3>1, <3>2
  <2>5. /\ IsFiniteSet(DOMAIN running'[k]) /\ Cardinality(DOMAIN running'[k]) + tokens'[k] <= Slots
        /\ todo'[k] \cap DOMAIN running'[k] = {}
        /\ list'[k] = {} => todo'[k] = {} /\ DOMAIN running'[k] = {}
        /\ DOMAIN todo' = Checks /\ DOMAIN list' = Checks /\ tokens' \in [Checks -> Nat]
    BY <2>1, <2>2 DEF TestInv
  <2>6. QED
    BY <2>1, <2>2, <2>3, <2>4, <2>5, OneCheck
<1>6. ASSUME NEW k \in Checks, NEW n \in DOMAIN running[k], P!TestEnds(k, n) PROVE TestInv'
  <2>1. /\ running[k][n] = "token" /\ tokens' = [tokens EXCEPT ![k] = @ + 1]
        /\ running' = [running EXCEPT ![k] = [m \in DOMAIN @ \ {n} |-> @[m]]]
        /\ UNCHANGED <<history, list, todo, stopped, done, dropped>>
    BY <1>6 DEF P!TestEnds, P!ending, P!GivesBack
  <2>2. /\ DOMAIN running' = Checks /\ DOMAIN running'[k] = DOMAIN running[k] \ {n}
        /\ \A m \in DOMAIN running[k] : m # n => running'[k][m] = running[k][m]
        /\ \A j \in Checks \ {k} : running'[j] = running[j]
    BY <2>1 DEF TestInv
  <2>3. tokens' \in [Checks -> Nat] /\ tokens'[k] = tokens[k] + 1 /\ \A j \in Checks \ {k} : tokens'[j] = tokens[j]
    BY <2>1 DEF TestInv
  <2>4. IsFiniteSet(DOMAIN running'[k]) /\ Cardinality(DOMAIN running'[k]) + tokens'[k] <= Slots
    <3>1. IsFiniteSet(DOMAIN running[k]) /\ Cardinality(DOMAIN running[k]) + tokens[k] <= Slots /\ tokens[k] \in Nat
      BY DEF TestInv
    <3>2. /\ IsFiniteSet(DOMAIN running[k] \ {n}) /\ Cardinality(DOMAIN running[k]) \in Nat
          /\ Cardinality(DOMAIN running[k] \ {n}) = Cardinality(DOMAIN running[k]) - 1
      BY <3>1, OneMore
    <3>3. QED
      BY <2>2, <2>3, <3>1, <3>2
  <2>5. n \in P!Nodes => history'[n] <= MaxHistory + Cardinality(P!Trimming(n)')
    <3>0. running[k][n] # "trim" /\ n \notin DOMAIN running'[k]
      BY <2>1, <2>2
    <3>1. Cardinality(P!Trimming(n)') = Cardinality(P!Trimming(n))
      BY <2>2, <3>0, TrimsOfTwo
    <3>2. QED
      BY <2>1, <3>1 DEF TestInv
  <2>6. /\ history' \in [P!Nodes -> Nat] /\ \A m \in P!Nodes : history'[m] = history[m]
        /\ DOMAIN todo' = Checks /\ DOMAIN list' = Checks
        /\ todo'[k] \cap DOMAIN running'[k] = {} /\ (list'[k] = {} => todo'[k] = {} /\ DOMAIN running'[k] = {})
    BY <2>1, <2>2 DEF TestInv
  <2>7. QED
    BY <2>1, <2>2, <2>3, <2>4, <2>5, <2>6, OneCheck
<1>7. ASSUME NEW k \in Checks, P!CheckEnds(k) PROVE TestInv'
  <2>1. /\ todo[k] = {} /\ DOMAIN running[k] = {} /\ UNCHANGED <<todo, running, history, stopped, done, dropped>>
        /\ list' = [list EXCEPT ![k] = {}] /\ tokens' = [tokens EXCEPT ![k] = Slots]
    BY <1>7 DEF P!CheckEnds, P!ending
  <2>2. Cardinality(DOMAIN running[k]) + Slots <= Slots
    BY <2>1, FS_EmptySet
  <2>3. \A n : P!Trimming(n)' = P!Trimming(n)
    BY <2>1 DEF P!Trimming
  <2>4. QED
    BY <2>1, <2>2, <2>3 DEF TestInv
<1>8. ASSUME NEW content, P!CheckBegins(content), UNCHANGED <<running, tokens, history, stopped, done, dropped>>
      PROVE  TestInv'
  <2>1. PICK k \in Checks : /\ list[k] = {} /\ list' = [list EXCEPT ![k] = NodesOf[content]]
                            /\ todo' = [todo EXCEPT ![k] = NodesOf[content]]
    BY <1>8 DEF P!CheckBegins, P!Free
  <2>2. \A n : P!Trimming(n)' = P!Trimming(n)
    BY <1>8 DEF P!Trimming
  <2>3. QED
    BY <1>8, <2>1, <2>2 DEF TestInv
<1>9. ASSUME UNCHANGED <<running, todo, list, tokens, history>>,
             stopped' \cap done' = {}, ~dropped' => stopped' = {} /\ done' = {}
      PROVE  TestInv'
  <2>1. \A n : P!Trimming(n)' = P!Trimming(n)
    BY <1>9 DEF P!Trimming
  <2>2. QED
    BY <1>9, <2>1 DEF TestInv
<1>10. CASE P!Drop \/ \E l \in {"pull", "check"} : P!LoopEnds(l)
  BY <1>9, <1>10 DEF P!Drop, P!LoopEnds, P!testing, TestInv
<1>11. CASE P!CheckTick
  BY <1>8, <1>11 DEF P!CheckTick, P!ending
<1>12. ASSUME NEW a \in P!Actors, P!InstallCheck(a) PROVE TestInv'
  BY <1>8, <1>9, <1>12 DEF P!InstallCheck, P!ending, TestInv
<1>13. CASE \/ \E a \in P!Actors : P!Begin(a) \/ (P!UpdateStep(a) /\ ~P!InstallCheck(a))
            \/ P!Initial \/ P!Publish \/ P!Edit \/ UNCHANGED (P!pvars)
  <2>1. UNCHANGED <<running, todo, list, tokens, history, stopped, done, dropped>>
    BY <1>13 DEF P!Begin, P!UpdateStep, P!Read, P!Compare, P!Parse, P!Write, P!Remember, P!Install, P!Initial,
                 P!Publish, P!Edit, P!pvars, P!testing, P!ending
  <2>2. QED
    BY <1>9, <2>1 DEF TestInv
<1>14. QED
  BY <1>1, <1>3, <1>4, <1>5, <1>6, <1>7, <1>10, <1>11, <1>12, <1>13 DEF P!PNext, P!TestStep

(* The start, and what the invariants say.                                 *)
LEMMA ProvidersInit ==
    ASSUME P!ProvidersAssumption, P!Init PROVE InstallInv /\ CopyInv /\ TestInv
<1>1. "init" \in P!Actors
  BY DEF P!Actors
<1>2. InstallInv
  BY DEF P!Init, InstallInv, UpdatePlaces, P!Working
<1>3. CopyInv
  BY <1>1 DEF P!Init, CopyInv, P!Working, P!KeptCopyParses
<1>4. \A n : P!Trimming(n) = {}
  BY DEF P!Init, P!Trimming
<1>5. TestInv
  <2>1. \A k \in Checks : DOMAIN running[k] = {}
    BY DEF P!Init
  <2>2. IsFiniteSet({}) /\ Cardinality({}) = 0
    BY FS_EmptySet
  <2>3. tokens \in [Checks -> Nat] /\ \A k \in Checks : tokens[k] = Slots
    BY DEF P!Init, P!ProvidersAssumption
  <2>4. \A n \in P!Nodes : history[n] <= MaxHistory + Cardinality(P!Trimming(n))
    <3>1. \A n \in P!Nodes : history[n] = 0
      BY DEF P!Init
    <3>2. MaxHistory \in Nat
      BY DEF P!ProvidersAssumption
    <3>3. \A n : Cardinality(P!Trimming(n)) = 0
      BY <1>4, <2>2
    <3>4. QED
      BY <3>1, <3>2, <3>3
  <2>5. QED
    BY <2>1, <2>2, <2>3, <2>4 DEF P!Init, TestInv, P!ProvidersAssumption
<1>6. QED
  BY <1>2, <1>3, <1>5

(* Every step.                                                             *)
LEMMA ProvidersStep ==
    ASSUME P!ProvidersAssumption, InstallInv, CopyInv, TestInv, [P!PNext]_(P!pvars)
    PROVE  InstallInv' /\ CopyInv' /\ TestInv'
  BY InstallStays, CopyStays, TestsStay

(* The properties follow.                                                  *)
LEMMA ProvidersHold ==
    ASSUME P!ProvidersAssumption, InstallInv, CopyInv, TestInv
    PROVE  P!TypeOK /\ P!SameMeansInstalled /\ P!KeptCopyParses
<1>1. P!SameMeansInstalled
  BY DEF P!SameMeansInstalled, P!Quiet, P!Working, InstallInv
<1>2. P!KeptCopyParses
  BY DEF CopyInv
<1>3. ASSUME NEW k \in Checks PROVE Cardinality(DOMAIN running[k]) <= Slots
  <2>1. /\ IsFiniteSet(DOMAIN running[k]) /\ tokens[k] \in Nat
        /\ Cardinality(DOMAIN running[k]) + tokens[k] <= Slots
    BY DEF TestInv
  <2>2. Cardinality(DOMAIN running[k]) \in Nat
    BY <2>1, FS_CardinalityType
  <2>3. QED
    BY <2>1, <2>2 DEF P!ProvidersAssumption
<1>4. \A n \in P!Nodes : history[n] <= MaxHistory + Cardinality(P!Trimming(n))
  BY DEF TestInv
<1>5. stopped \cap done = {}
  BY DEF TestInv
<1>6. QED
  BY <1>1, <1>2, <1>3, <1>4, <1>5, SameCount DEF P!TypeOK

(* Unless two updates overlapped, what a provider remembers is what it     *)
(* uses and tests; what it keeps on the disk parses; a check has no more   *)
(* tests than slots, a node no more records than tests allow.              *)
THEOREM RemembersWhatItUses ==
    ASSUME P!ProvidersAssumption
    PROVE  P!Spec => [](P!TypeOK /\ P!SameMeansInstalled /\ P!KeptCopyParses)
<1>1. P!Init => InstallInv /\ CopyInv /\ TestInv
  BY ProvidersInit
<1>2. InstallInv /\ CopyInv /\ TestInv /\ [P!PNext]_(P!pvars) => (InstallInv /\ CopyInv /\ TestInv)'
  BY ProvidersStep
<1>3. InstallInv /\ CopyInv /\ TestInv => P!TypeOK /\ P!SameMeansInstalled /\ P!KeptCopyParses
  BY ProvidersHold
<1>4. QED
  BY <1>1, <1>2, <1>3, PTL DEF P!Spec

-----------------------------------------------------------------------------
(* GROUPS: any number of callers, requests, nodes and lists.               *)

GroupPlaces == {"idle", "take", "run", "wait", "store", "got", "dial", "direct", "chained", "failed"}

(* What the variables are.                                                 *)
GroupTypes ==
    /\ group \in GroupSetups /\ members \in 1..Len(group.lists)
    /\ now \in Nat /\ Wait <= now /\ last \in 0..now /\ madeAt \in 0..now
    /\ result \in Seq(G!Nodes) /\ leader \in Dialers \cup {G!None}
    /\ inner \in [last : Nat, value : Seq(G!Nodes)]
    /\ inner.last <= now /\ (inner.last # 0 => inner.value # <<>>)
    /\ groupPc \in [Dialers -> GroupPlaces] /\ val \in [Dialers -> Seq(G!Nodes)]
    /\ dest \in [Dialers -> Dests]
    /\ started \in [Dialers -> Nat] /\ asked \in [Dialers -> Nat] /\ made \in [Dialers -> Nat]
    /\ DOMAIN how = Dialers /\ DOMAIN due = Dialers
    /\ left \in [Dialers -> Seq(G!Nodes)]
    /\ chain \in [Dialers -> Seq(G!Nodes \X (G!Nodes \cup Dests))]
    /\ DOMAIN picked = Dialers
    /\ answers \in [G!Nodes -> BOOLEAN] /\ delay \in [G!Nodes -> Nat]
    /\ fastNode \in G!Nodes \cup {G!None} /\ idx \in Nat
    /\ DOMAIN setpc = Setters /\ DOMAIN want = Setters

(* One look-up at a time, and how old its result is.                       *)
CallInv ==
    /\ leader # G!None => ~G!Fresh
    /\ last # 0 => result # <<>> /\ last <= madeAt
    /\ \A c \in Dialers :
        /\ groupPc[c] \in {"run", "store"} <=> leader = c
        /\ groupPc[c] = "wait" => leader \in Dialers /\ groupPc[leader] = "run" /\ how[c] = "joined"
        /\ groupPc[c] \in {"store", "got"} => val[c] # <<>>
        /\ groupPc[c] = "take" => result # <<>> /\ asked[c] < madeAt + Wait
        /\ groupPc[c] \in {"run", "store"} => started[c] <= now
        /\ groupPc[c] = "store" => /\ started[c] <= made[c] /\ made[c] <= now /\ madeAt <= made[c]
                                   /\ how[c] = "made"
        /\ groupPc[c] = "got" /\ how[c] = "cached" => asked[c] < made[c] + Wait

(* Which names a look-up may give to whom.                                 *)
First(nodes1) == NameOf[nodes1[1]]
FollowInv ==
    group.type = "select" =>
        /\ settled # G!None => /\ settled = selected /\ G!Named(G!Members, selected) # {}
                               /\ last # 0 => First(result) = settled
                               /\ \A c \in Dialers : groupPc[c] = "store" => First(val[c]) = settled
        /\ \A c \in Dialers :
            /\ groupPc[c] \in {"take", "run", "wait"} => NameOf[G!Selected] \in due[c]
            /\ groupPc[c] \in {"store", "got"} => First(val[c]) \in due[c]
            /\ groupPc[c] = "take" =>
                /\ First(result) \in due[c]
                /\ \A d \in Dialers : groupPc[d] = "store" => First(val[d]) \in due[c]

(* What a chain looks like while it grows.                                 *)
ChainInv ==
    \A c \in Dialers :
      /\ groupPc[c] = "chained" => group.type = "relay"
      /\ group.type = "relay" /\ groupPc[c] \in {"dial", "chained"} =>
        /\ groupPc[c] = "chained" => chain[c] # <<>> /\ left[c] = <<>>
        /\ chain[c] # <<>> => chain[c][Len(chain[c])][2] = IF left[c] = <<>> THEN dest[c] ELSE left[c][1]
        /\ \A i \in 1..(Len(chain[c]) - 1) : chain[c][i][2] = chain[c][i + 1][1]

(* What the file will hold.                                                *)
Setting(s) == setpc[s] \in {"reset", "store"}
StoreInv ==
    /\ \A s \in Setters : setpc[s] \in {"idle", "reset", "store", "over"}
                          /\ (setpc[s] = "idle" => want[s] = G!None)
    /\ ~raced =>
        /\ \A s, o \in Setters : Setting(s) /\ Setting(o) => s = o
        /\ \A s \in Setters : Setting(s) => want[s] = selected
        /\ (\E s \in Setters : setpc[s] = "over" /\ want[s] # G!None) /\ (\A s \in Setters : ~Setting(s))
             => stored = selected

GroupInv == GroupTypes /\ CallInv /\ FollowInv /\ ChainInv /\ StoreInv /\ G!LivingNodePicked

(* A set of numbers has a least one.                                       *)
LEMMA Least == ASSUME NEW S \in SUBSET Nat, S # {} PROVE \E n \in S : \A m \in S : n <= m
<1> DEFINE Up == {0..n : n \in S}
<1>1. Up \subseteq FiniteSubsetsOf(Nat)
  <2>1. ASSUME NEW n \in S PROVE 0..n \in SUBSET Nat /\ IsFiniteSet(0..n)
    BY FS_Interval
  <2>2. QED
    BY <2>1 DEF FiniteSubsetsOf
<1>2. Up # {}
  OBVIOUS
<1>3. PICK low \in Up : \A up \in Up : ~(<<up, low>> \in StrictSubsetOrdering(Nat))
  <2> HIDE DEF Up
  <2>1. QED
    BY <1>1, <1>2, FS_StrictSubsetOrderingWellFounded, WFMin
<1>4. PICK n \in S : low = 0..n
  OBVIOUS
<1>5. ASSUME NEW m \in S, m < n PROVE FALSE
  <2>1. <<0..m, 0..n>> \in (SUBSET Nat) \X (SUBSET Nat) /\ 0..m \subseteq 0..n
    BY <1>5
  <2>2. n \in 0..n /\ n \notin 0..m
    BY <1>5
  <2>3. <<0..m, low>> \in StrictSubsetOrdering(Nat)
    BY <1>4, <2>1, <2>2 DEF StrictSubsetOrdering
  <2>4. QED
    BY <1>3, <2>3
<1>6. QED
  BY <1>5

(* What is looked up for a selector.                                       *)
LEMMA MembersAre ==
    ASSUME G!GroupsAssumption, GroupTypes
    PROVE  /\ G!Members \in Seq(G!Nodes) /\ G!Members # <<>>
           /\ Len(G!Members) \in Nat \ {0} /\ DOMAIN G!Members = 1..Len(G!Members)
           /\ \A i \in 1..Len(G!Members) : G!Members[i] \in G!Nodes
<1>1. group.lists \in Seq(Seq(G!Nodes) \ {<<>>}) /\ members \in 1..Len(group.lists)
  BY DEF G!GroupsAssumption, GroupTypes
<1>2. group.lists[members] \in Seq(G!Nodes) \ {<<>>}
  BY <1>1
<1>3. QED
  BY <1>2 DEF G!Members

LEMMA SelectedIs ==
    ASSUME G!GroupsAssumption, GroupTypes
    PROVE  /\ G!Selected \in G!Nodes /\ NameOf[G!Selected] \in G!Names(G!Listed(G!Members))
           /\ G!Named(G!Members, selected) # {} => NameOf[G!Selected] = selected
<1> DEFINE found == G!Named(G!Members, selected)
<1>1. found \in SUBSET Nat /\ found \subseteq DOMAIN G!Members
  BY MembersAre DEF G!Named
<1>2. CASE found = {}
  <2>1. G!Selected = G!Members[1] /\ 1 \in DOMAIN G!Members
    BY <1>2, MembersAre DEF G!Selected
  <2>2. QED
    BY <1>2, <2>1, MembersAre DEF G!Names, G!Listed
<1>3. CASE found # {}
  <2>1. \E i \in found : \A j \in found : i <= j
    <3> HIDE DEF found
    <3>1. QED
      BY <1>1, <1>3, Least
  <2>2. PICK i \in found : G!Selected = G!Members[i]
    BY <1>3, <2>1 DEF G!Selected
  <2>3. QED
    BY <1>1, <2>2, MembersAre DEF G!Names, G!Listed, G!Named
<1>4. QED
  BY <1>2, <1>3

(* The fastest of a list: nobody who lives is faster.                      *)
LEMMA FastestIs ==
    ASSUME G!GroupsAssumption, GroupTypes, NEW nodes1 \in Seq(G!Nodes), nodes1 # <<>>
    PROVE  /\ G!Fastest(nodes1) \in G!Nodes
           /\ \A i \in DOMAIN nodes1 :
                answers[nodes1[i]] => G!LastDelay(G!Fastest(nodes1)) <= G!LastDelay(nodes1[i])
<1> DEFINE D(i) == G!LastDelay(nodes1[i])
           B == {i \in DOMAIN nodes1 : i > 1 /\ answers[nodes1[i]] /\ D(i) < D(1)}
           Beats(i, j) == D(i) < D(j) \/ (D(i) = D(j) /\ i <= j)
<1>1. DOMAIN nodes1 = 1..Len(nodes1) /\ Len(nodes1) \in Nat \ {0} /\ \A i \in DOMAIN nodes1 : nodes1[i] \in G!Nodes
  OBVIOUS
<1>2. \A n \in G!Nodes : G!LastDelay(n) \in Nat
  BY DEF G!LastDelay, GroupTypes, G!GroupsAssumption
<1>3. B \in SUBSET Nat /\ B \subseteq DOMAIN nodes1 /\ 1 \in DOMAIN nodes1
  BY <1>1
<1>4. \A i \in DOMAIN nodes1 : D(i) \in Nat
  BY <1>1, <1>2
<1>5. CASE B = {}
  <2>1. G!Fastest(nodes1) = nodes1[1]
    BY <1>5 DEF G!Fastest
  <2>2. ASSUME NEW i \in DOMAIN nodes1, answers[nodes1[i]] PROVE D(1) <= D(i)
    <3>1. CASE i = 1
      BY <1>3, <1>4, <3>1
    <3>2. CASE i # 1
      <4>1. i > 1
        BY <1>1, <3>2
      <4>2. ~(D(i) < D(1))
        BY <1>5, <2>2, <4>1
      <4> HIDE DEF D
      <4>3. QED
        BY <1>3, <1>4, <4>2
    <3>3. QED
      BY <3>1, <3>2
  <2>3. QED
    BY <1>1, <1>3, <2>1, <2>2
<1>6. CASE B # {}
  <2>1. \E i \in B : \A j \in B : Beats(i, j)
    <3> DEFINE Ds == {D(i) : i \in B}
    <3>1. Ds \in SUBSET Nat /\ Ds # {}
      BY <1>3, <1>4, <1>6
    <3>2. PICK d \in Ds : \A e \in Ds : d <= e
      <4> HIDE DEF Ds
      <4>1. QED
        BY <3>1, Least
    <3> DEFINE Is == {i \in B : D(i) = d}
    <3>3. Is \in SUBSET Nat /\ Is # {}
      BY <1>3, <3>2
    <3>4. PICK i \in Is : \A j \in Is : i <= j
      <4> HIDE DEF Is
      <4>1. QED
        BY <3>3, Least
    <3>5. ASSUME NEW j \in B PROVE Beats(i, j)
      <4>1. D(i) = d /\ D(j) \in Ds /\ D(i) \in Nat /\ D(j) \in Nat
        BY <1>3, <1>4, <3>4
      <4>2. d <= D(j)
        BY <3>2, <4>1
      <4>3. D(j) = d => i <= j
        BY <3>4
      <4> HIDE DEF D
      <4>4. QED
        BY <4>1, <4>2, <4>3
    <3>6. QED
      BY <3>4, <3>5
  <2>2. G!Fastest(nodes1) = nodes1[CHOOSE i \in B : \A j \in B : Beats(i, j)]
    BY <1>6 DEF G!Fastest
  <2>3. PICK i \in B : G!Fastest(nodes1) = nodes1[i] /\ \A j \in B : Beats(i, j)
    <3> HIDE DEF B, Beats
    <3>1. QED
      BY <2>1, <2>2
  <2>4. ASSUME NEW j \in DOMAIN nodes1, answers[nodes1[j]] PROVE D(i) <= D(j)
    <3>1. D(i) < D(1) /\ D(i) \in Nat /\ D(j) \in Nat /\ D(1) \in Nat
      BY <1>3, <1>4
    <3>2. CASE j \in B
      <4>1. Beats(i, j)
        BY <2>3, <3>2
      <4>2. D(i) < D(j) \/ D(i) = D(j)
        BY <4>1
      <4> HIDE DEF D
      <4>3. QED
        BY <3>1, <4>2
    <3>3. CASE j \notin B
      <4>1. j = 1 \/ ~(D(j) < D(1))
        BY <1>1, <2>4, <3>3
      <4> HIDE DEF D
      <4>2. QED
        BY <3>1, <4>1
    <3>4. QED
      BY <3>2, <3>3
  <2>5. QED
    BY <1>1, <1>3, <2>3, <2>4
<1>7. QED
  BY <1>5, <1>6

(* What remains of a list without its direct nodes is a list.              *)
LEMMA IndirectIs ==
    ASSUME NEW S, NEW nodes1 \in Seq(S)
    PROVE  G!Indirect(nodes1) \in Seq(S)
<1> DEFINE Step(f, i) == IF i = 0 THEN <<>>
                         ELSE IF nodes1[i] = "DIRECT" THEN f[i - 1] ELSE Append(f[i - 1], nodes1[i])
           Fits(f, m) == f = [i \in 0..m |-> Step(f, i)]
           N == Len(nodes1)
           Not == {m \in 0..N : ~\E f \in [0..m -> Seq(S)] : Fits(f, m)}
<1>1. N \in Nat /\ \A i \in 1..N : nodes1[i] \in S
  OBVIOUS
<1>2. 0 \notin Not
  <2> DEFINE f == [i \in 0..0 |-> <<>>]
  <2>1. f \in [0..0 -> Seq(S)]
    BY EmptySeq
  <2>2. Fits(f, 0)
    OBVIOUS
  <2>3. QED
    BY <2>1, <2>2
<1>3. ASSUME NEW m \in 1..N, m - 1 \notin Not PROVE m \notin Not
  <2>1. PICK f \in [0..(m - 1) -> Seq(S)] : Fits(f, m - 1)
    <3>1. m - 1 \in 0..N
      BY <1>1
    <3> HIDE DEF Fits
    <3>2. QED
      BY <1>3, <3>1
  <2>2. f[m - 1] \in Seq(S) /\ nodes1[m] \in S /\ m # 0
    BY <1>1, <2>1
  <2> DEFINE g == [i \in 0..m |-> IF i = m THEN Step(f, m) ELSE f[i]]
  <2>3. Step(f, m) \in Seq(S)
    BY <2>2, AppendProperties
  <2>4. g \in [0..m -> Seq(S)]
    <3> HIDE DEF Step
    <3>1. QED
      BY <1>1, <2>3
  <2>5. \A i \in 0..m : g[i] = Step(g, i)
    <3>1. ASSUME NEW i \in 0..(m - 1) PROVE g[i] = Step(g, i)
      <4>1. f[i] = Step(f, i)
        BY <2>1
      <4>2. g[i] = f[i] /\ (i # 0 => g[i - 1] = f[i - 1])
        <5> HIDE DEF Step
        <5>1. QED
          BY <1>1
      <4> HIDE DEF g
      <4>3. QED
        BY <4>1, <4>2
    <3>2. g[m] = Step(g, m)
      <4>1. g[m] = Step(f, m) /\ g[m - 1] = f[m - 1]
        <5> HIDE DEF Step
        <5>1. QED
          BY <1>1
      <4> HIDE DEF g
      <4>2. QED
        BY <4>1
    <3>3. QED
      <4> HIDE DEF g, Step
      <4>1. QED
        BY <1>1, <3>1, <3>2
  <2>6. Fits(g, m)
    <3>1. g = [i \in 0..m |-> g[i]]
      OBVIOUS
    <3> HIDE DEF g, Step
    <3>2. QED
      BY <2>5, <3>1
  <2>7. QED
    <3> HIDE DEF g, Fits
    <3>1. QED
      BY <2>4, <2>6
<1>4. Not = {}
  <2>1. SUFFICES ASSUME Not # {} PROVE FALSE
    OBVIOUS
  <2> HIDE DEF Fits
  <2>2. Not \in SUBSET Nat /\ Not \subseteq 0..N
    BY <1>1
  <2> HIDE DEF Not
  <2>3. PICK m \in Not : \A k \in Not : m <= k
    BY <2>1, <2>2, Least
  <2>4. m # 0 /\ m \in 1..N
    BY <1>1, <1>2, <2>2, <2>3
  <2>5. m - 1 \notin Not
    BY <2>3, <2>4
  <2>6. QED
    BY <1>3, <2>3, <2>4, <2>5
<1>5. PICK f \in [0..N -> Seq(S)] : Fits(f, N)
  <2> HIDE DEF Fits
  <2>1. QED
    BY <1>1, <1>4
<1>6. \E f1 : f1 = [i \in 0..N |-> Step(f1, i)]
  BY <1>5
<1>7. G!Indirect(nodes1) = (CHOOSE f1 : f1 = [i \in 0..N |-> Step(f1, i)])[N]
  BY DEF G!Indirect
<1>8. PICK h : h = [i \in 0..N |-> Step(h, i)] /\ G!Indirect(nodes1) = h[N]
  <2> HIDE DEF Step
  <2>1. QED
    BY <1>6, <1>7
<1> DEFINE Out == {m \in 0..N : h[m] \notin Seq(S)}
<1>9. \A i \in 0..N : h[i] = Step(h, i)
  BY <1>8
<1>10. Out = {}
  <2>1. SUFFICES ASSUME Out # {} PROVE FALSE
    OBVIOUS
  <2>2. Out \in SUBSET Nat /\ Out \subseteq 0..N
    BY <1>1
  <2>3. PICK m \in Out : \A k \in Out : m <= k
    <3> HIDE DEF Out
    <3>1. QED
      BY <2>1, <2>2, Least
  <2>4. m # 0
    <3>1. 0 \in 0..N /\ h[0] = <<>>
      BY <1>1, <1>9
    <3>2. QED
      BY <3>1, EmptySeq
  <2>5. h[m - 1] \in Seq(S) /\ nodes1[m] \in S
    BY <1>1, <2>2, <2>3, <2>4
  <2>6. h[m] = Step(h, m)
    BY <1>9, <2>2
  <2>7. h[m] \in Seq(S)
    BY <2>4, <2>5, <2>6, AppendProperties
  <2>8. QED
    BY <2>3, <2>7
<1>11. N \in 0..N /\ h[N] \in Seq(S)
  <2>1. N \in 0..N
    BY <1>1
  <2> HIDE DEF N
  <2>2. QED
    BY <1>10, <2>1
<1>12. QED
  BY <1>8, <1>11

(* The same of the next state.                                             *)
LEMMA SelectedThen ==
    ASSUME G!GroupsAssumption
    PROVE  (GroupTypes => /\ NameOf[G!Selected] \in G!Names(G!Listed(G!Members))
                          /\ G!Named(G!Members, selected) # {} => NameOf[G!Selected] = selected)'
<1>1. GroupTypes => /\ NameOf[G!Selected] \in G!Names(G!Listed(G!Members))
                    /\ G!Named(G!Members, selected) # {} => NameOf[G!Selected] = selected
  BY SelectedIs
<1>2. QED
  BY <1>1, PTL

(* The types.                                                              *)
LEMMA GroupTypesStay ==
    ASSUME G!GroupsAssumption, GroupTypes, CallInv, [G!GNext]_(G!gvars) PROVE GroupTypes'
<1> USE DEF G!GroupsAssumption, G!single, G!caller, G!health, G!choice, G!setter
<1> DEFINE Callers1 == /\ groupPc \in [Dialers -> GroupPlaces] /\ val \in [Dialers -> Seq(G!Nodes)]
                       /\ dest \in [Dialers -> Dests]
                       /\ started \in [Dialers -> Nat] /\ asked \in [Dialers -> Nat] /\ made \in [Dialers -> Nat]
                       /\ DOMAIN how = Dialers /\ DOMAIN due = Dialers
                       /\ left \in [Dialers -> Seq(G!Nodes)]
                       /\ chain \in [Dialers -> Seq(G!Nodes \X (G!Nodes \cup Dests))]
                       /\ DOMAIN picked = Dialers
<1>1. CASE G!Tick
  <2>1. now' = now + 1 /\ now \in Nat /\ Wait \in Nat /\ Wait <= now /\ last \in 0..now /\ madeAt \in 0..now
        /\ inner.last \in Nat /\ inner.last <= now
    BY <1>1 DEF G!Tick, GroupTypes
  <2>2. now' \in Nat /\ Wait <= now' /\ last \in 0..now' /\ madeAt \in 0..now' /\ inner.last <= now'
    BY <2>1
  <2>3. QED
    BY <1>1, <2>2 DEF G!Tick, GroupTypes
<1>2. CASE G!Tested
  <2>1. PICK n \in G!Listed(G!Members), d \in group.delays :
            delay' = [delay EXCEPT ![n] = d] /\ answers' = [answers EXCEPT ![n] = d # 0]
    BY <1>2 DEF G!Tested
  <2>2. d \in Nat
    BY DEF GroupTypes
  <2>3. delay' \in [G!Nodes -> Nat] /\ answers' \in [G!Nodes -> BOOLEAN]
    BY <2>1, <2>2 DEF GroupTypes
  <2>4. QED
    BY <1>2, <2>3 DEF G!Tested, GroupTypes
<1>3. CASE G!NewList
  <2>1. members < Len(group.lists) /\ members' = members + 1 /\ group' = group /\ Len(group.lists) \in Nat
        /\ members \in 1..Len(group.lists)
    BY <1>3 DEF G!NewList, GroupTypes
  <2>2. members' \in 1..Len(group.lists)
    BY <2>1
  <2>3. QED
    BY <1>3, <2>1, <2>2 DEF G!NewList, GroupTypes
<1>4. ASSUME NEW c \in Dialers, G!Ask(c) PROVE GroupTypes'
  <2>1. /\ asked' \in [Dialers -> Nat] /\ DOMAIN due' = Dialers
    BY <1>4 DEF G!Ask, GroupTypes
  <2>2. /\ leader' \in Dialers \cup {G!None} /\ started' \in [Dialers -> Nat] /\ DOMAIN how' = Dialers
    <3>1. leader' \in {leader, c} /\ leader \in Dialers \cup {G!None}
      BY <1>4 DEF G!Ask, GroupTypes
    <3>2. started' \in {started, [started EXCEPT ![c] = now]} /\ started \in [Dialers -> Nat] /\ now \in Nat
      BY <1>4 DEF G!Ask, GroupTypes
    <3>3. how' \in {how, [how EXCEPT ![c] = "joined"]} /\ DOMAIN how = Dialers
      BY <1>4 DEF G!Ask, GroupTypes
    <3>4. QED
      BY <3>1, <3>2, <3>3
  <2>5. groupPc' \in [Dialers -> GroupPlaces]
    <3>1. \E place \in {"take", "run", "wait", "got"} : groupPc' = [groupPc EXCEPT ![c] = place]
      BY <1>4 DEF G!Ask
    <3>2. QED
      BY <3>1 DEF GroupTypes, GroupPlaces
  <2>3. val' \in [Dialers -> Seq(G!Nodes)] /\ made' \in [Dialers -> Nat]
    <3>1. CASE leader \notin Dialers
      <4>1. leader = G!None
        BY <3>1 DEF GroupTypes
      <4>2. UNCHANGED <<val, made>>
        BY <1>4, <4>1 DEF G!Ask
      <4>3. QED
        BY <4>2 DEF GroupTypes
    <3>2. CASE leader \in Dialers
      <4>1. /\ val' \in {val, [val EXCEPT ![c] = val[leader]]}
            /\ made' \in {made, [made EXCEPT ![c] = made[leader]]}
        BY <1>4 DEF G!Ask
      <4>2. /\ val \in [Dialers -> Seq(G!Nodes)] /\ val[leader] \in Seq(G!Nodes)
            /\ made \in [Dialers -> Nat] /\ made[leader] \in Nat
        BY <3>2 DEF GroupTypes
      <4>3. QED
        BY <4>1, <4>2
    <3>3. QED
      BY <3>1, <3>2
  <2>4. QED
    BY <1>4, <2>1, <2>2, <2>3, <2>5 DEF G!Ask, GroupTypes, G!Stays
<1>5. ASSUME NEW c \in Dialers, G!Take(c) PROVE GroupTypes'
  <2>1. madeAt \in Nat
    BY DEF GroupTypes
  <2>2. val' \in [Dialers -> Seq(G!Nodes)] /\ made' \in [Dialers -> Nat]
    BY <1>5, <2>1 DEF G!Take, GroupTypes
  <2>3. DOMAIN how' = Dialers /\ groupPc' \in [Dialers -> GroupPlaces]
    BY <1>5 DEF G!Take, GroupTypes, GroupPlaces
  <2>4. QED
    BY <1>5, <2>2, <2>3 DEF G!Take, GroupTypes, G!Stays
<1>6. ASSUME NEW c \in Dialers, G!Run(c) PROVE GroupTypes'
  <2>1. fastNode' \in G!Nodes \cup {G!None} /\ inner' \in [last : Nat, value : Seq(G!Nodes)]
        /\ inner'.last <= now /\ (inner'.last # 0 => inner'.value # <<>>)
        /\ (group.type = "url-test" => fastNode' \in G!Nodes)
    <3>1. CASE group.type = "url-test"
      <4>1. G!InnerList \in Seq(G!Nodes) /\ G!InnerList # <<>>
        <5>1. CASE now < inner.last + InnerWait
          <6>1. inner.last # 0
            BY <5>1 DEF GroupTypes
          <6>2. QED
            BY <5>1, <6>1 DEF G!InnerList, GroupTypes
        <5>2. CASE ~(now < inner.last + InnerWait)
          BY <5>2, MembersAre DEF G!InnerList
        <5>3. QED
          BY <5>1, <5>2
      <4>2. G!Fastest(G!InnerList) \in G!Nodes
        BY <4>1, FastestIs
      <4>3. fastNode' \in G!Nodes
        BY <1>6, <3>1, <4>2 DEF G!Run, G!RunFast, G!Keeps, GroupTypes
      <4>4. inner' = [last |-> IF now < inner.last + InnerWait THEN inner.last ELSE now, value |-> G!InnerList]
        BY <1>6, <3>1 DEF G!Run, G!RunFast
      <4>5. QED
        BY <3>1, <4>1, <4>3, <4>4 DEF GroupTypes
    <3>2. CASE group.type # "url-test"
      BY <1>6, <3>2 DEF G!Run, GroupTypes
    <3>3. QED
      BY <3>1, <3>2
  <2>2. PICK value \in Seq(G!Nodes) :
            val' = [w \in Dialers |-> IF G!GetsValue(c, w) THEN value ELSE val[w]]
    <3> DEFINE value == CASE group.type = "url-test" -> <<fastNode'>>
                          [] group.type = "select" -> <<G!Selected>>
                          [] OTHER -> G!Members
    <3>1. value \in Seq(G!Nodes)
      BY <2>1, MembersAre, SelectedIs
    <3>2. val' = [w \in Dialers |-> IF G!GetsValue(c, w) THEN value ELSE val[w]]
      BY <1>6 DEF G!Run
    <3> HIDE DEF value
    <3>3. QED
      BY <3>1, <3>2
  <2>3. val' \in [Dialers -> Seq(G!Nodes)]
    BY <2>2 DEF GroupTypes
  <2>4. made' \in [Dialers -> Nat] /\ groupPc' \in [Dialers -> GroupPlaces] /\ DOMAIN how' = Dialers
    BY <1>6 DEF G!Run, GroupTypes, GroupPlaces
  <2>5. QED
    BY <1>6, <2>1, <2>3, <2>4 DEF G!Run, GroupTypes
<1>7. ASSUME NEW c \in Dialers, G!Store(c) PROVE GroupTypes'
  <2>1. started[c] \in 0..now /\ made[c] \in 0..now
    BY <1>7 DEF G!Store, GroupTypes, CallInv
  <2>2. groupPc' \in [Dialers -> GroupPlaces]
    BY <1>7 DEF G!Store, GroupTypes, GroupPlaces
  <2>3. QED
    BY <1>7, <2>1, <2>2 DEF G!Store, G!Stamp, GroupTypes, G!Stays
<1>8. ASSUME NEW c \in Dialers, G!Pick(c) PROVE GroupTypes'
  <2>1. val[c] \in Seq(G!Nodes) /\ val[c] # <<>> /\ Len(val[c]) \in Nat \ {0}
    BY <1>8 DEF G!Pick, GroupTypes, CallInv
  <2>2. \A i \in 1..Len(val[c]) : val[c][i] \in G!Nodes
    BY <2>1
  <2>3. G!FirstAlive(val[c]) \in G!Nodes
    <3> DEFINE up == {i \in DOMAIN val[c] : answers[val[c][i]]}
    <3>1. up \in SUBSET Nat /\ up \subseteq 1..Len(val[c])
      BY <2>1
    <3>2. up # {} => (CHOOSE i \in up : \A j \in up : i <= j) \in up
      <4> HIDE DEF up
      <4>1. QED
        BY <3>1, Least
    <3>3. G!FirstAlive(val[c]) = val[c][IF up = {} THEN 1 ELSE CHOOSE i \in up : \A j \in up : i <= j]
      BY DEF G!FirstAlive
    <3> HIDE DEF up
    <3>4. 1 \in 1..Len(val[c])
      BY <2>1
    <3>5. QED
      BY <2>2, <3>1, <3>2, <3>3, <3>4
  <2>4. \A t \in Nat : G!At(val[c], t) \in G!Nodes
    <3>1. ASSUME NEW t \in Nat PROVE ((idx + t) % Len(val[c])) + 1 \in 1..Len(val[c])
      <4>1. idx \in Nat
        BY DEF GroupTypes
      <4>2. idx + t \in Nat
        BY <4>1
      <4>3. (idx + t) % Len(val[c]) \in 0..(Len(val[c]) - 1)
        BY <2>1, <4>2
      <4>4. QED
        BY <2>1, <4>3
    <3>2. QED
      BY <2>2, <3>1 DEF G!At
  <2>5. G!NextTurn(val[c]) \in Nat
    <3> DEFINE up == {t \in G!Turns(val[c]) : answers[G!At(val[c], t)]}
    <3>1. up \in SUBSET Nat
      BY <2>1 DEF G!Turns
    <3>2. up # {} => (CHOOSE i \in up : \A j \in up : i <= j) \in up
      <4> HIDE DEF up
      <4>1. QED
        BY <3>1, Least
    <3>3. QED
      BY <3>1, <3>2 DEF G!NextTurn
  <2>6. PICK n \in CASE group.type = "fallback" -> {G!FirstAlive(val[c])}
                     [] group.type = "round-robin" ->
                           {IF G!NextTurn(val[c]) = 0 THEN val[c][1] ELSE G!At(val[c], G!NextTurn(val[c]))}
                     [] group.type = "hashing" -> G!Hashed(val[c])
                     [] OTHER -> {val[c][1]} :
             left' = [left EXCEPT ![c] = <<n>>]
    BY <1>8 DEF G!Pick
  <2>7. n \in G!Nodes
    <3>1. G!Hashed(val[c]) \subseteq G!Nodes /\ val[c][1] \in G!Nodes
      BY <2>1, <2>2 DEF G!Hashed, G!Listed
    <3>2. QED
      BY <2>3, <2>4, <2>5, <2>6, <3>1
  <2>8. left' \in [Dialers -> Seq(G!Nodes)]
    BY <2>6, <2>7 DEF GroupTypes
  <2>9. idx' \in Nat
    <3>1. idx \in Nat
      BY DEF GroupTypes
    <3>2. idx + G!NextTurn(val[c]) \in Nat
      BY <2>5, <3>1
    <3>3. (idx + G!NextTurn(val[c])) % Len(val[c]) \in Nat
      BY <2>1, <3>2
    <3>4. idx' = IF group.type = "round-robin" THEN (idx + G!NextTurn(val[c])) % Len(val[c]) ELSE idx
      BY <1>8 DEF G!Pick
    <3>5. QED
      BY <3>1, <3>3, <3>4
  <2>10. groupPc' \in [Dialers -> GroupPlaces] /\ DOMAIN picked' = Dialers
    BY <1>8 DEF G!Pick, GroupTypes, GroupPlaces
  <2>11. QED
    BY <1>8, <2>8, <2>9, <2>10 DEF G!Pick, GroupTypes
<1>9. ASSUME NEW c \in Dialers, G!Unwrap(c) PROVE GroupTypes'
  <2> DEFINE nodes1 == [i \in DOMAIN val[c] |-> G!Unwrapped(val[c][i], dest[c])]
  <2>1. val[c] \in Seq(G!Nodes) /\ dest[c] \in Dests
    BY DEF GroupTypes
  <2>2. \A n \in G!Nodes : G!Unwrapped(n, dest[c]) \in G!Nodes
    <3>1. ASSUME NEW n \in G!Nodes, n \in DOMAIN LeadsTo PROVE LeadsTo[n][dest[c]] \in G!Nodes
      <4>1. LeadsTo[n][dest[c]] \in {LeadsTo[n][d] : d \in Dests}
        BY <2>1
      <4>2. LeadsTo[n][dest[c]] \in UNION {{LeadsTo[g][d] : d \in Dests} : g \in DOMAIN LeadsTo}
        BY <3>1, <4>1
      <4>3. QED
        BY <4>2 DEF G!Nodes
    <3>2. ASSUME NEW n \in G!Nodes PROVE G!Unwrapped(n, dest[c]) \in G!Nodes
      <4>1. CASE n \in DOMAIN LeadsTo
        <5>1. G!Unwrapped(n, dest[c]) = LeadsTo[n][dest[c]]
          BY <4>1 DEF G!Unwrapped
        <5>2. QED
          BY <3>1, <4>1, <5>1
      <4>2. CASE n \notin DOMAIN LeadsTo
        BY <4>2 DEF G!Unwrapped
      <4>3. QED
        BY <4>1, <4>2
    <3>3. QED
      BY <3>2
  <2>3. nodes1 \in Seq(G!Nodes)
    <3>1. DOMAIN val[c] = 1..Len(val[c]) /\ Len(val[c]) \in Nat
      BY <2>1
    <3>2. \A i \in 1..Len(val[c]) : nodes1[i] \in G!Nodes
      BY <2>1, <2>2, <3>1
    <3>3. nodes1 \in [1..Len(val[c]) -> G!Nodes]
      BY <3>1, <3>2
    <3> HIDE DEF nodes1
    <3>4. QED
      BY <3>1, <3>3
  <2>4. G!Indirect(nodes1) \in Seq(G!Nodes)
    <3> HIDE DEF nodes1
    <3>1. QED
      BY <2>3, IndirectIs
  <2>5. /\ val' = [w \in Dialers |-> IF w = c \/ (val[w] = val[c] /\ val[w] = result) THEN nodes1 ELSE val[w]]
        /\ result' = IF result = val[c] THEN nodes1 ELSE result
        /\ left' = [left EXCEPT ![c] = G!Indirect(nodes1)]
        /\ groupPc' = [groupPc EXCEPT ![c] = "dial"] /\ chain' = [chain EXCEPT ![c] = <<>>]
    BY <1>9 DEF G!Unwrap
  <2> HIDE DEF nodes1
  <2>6. val' \in [Dialers -> Seq(G!Nodes)] /\ result' \in Seq(G!Nodes) /\ left' \in [Dialers -> Seq(G!Nodes)]
    BY <2>3, <2>4, <2>5 DEF GroupTypes
  <2>7. groupPc' \in [Dialers -> GroupPlaces] /\ chain' \in [Dialers -> Seq(G!Nodes \X (G!Nodes \cup Dests))]
    BY <2>5, EmptySeq DEF GroupTypes, GroupPlaces
  <2>8. QED
    BY <1>9, <2>6, <2>7 DEF G!Unwrap, GroupTypes, G!Stays
<1>10. ASSUME NEW c \in Dialers, G!Ends(c) PROVE Callers1'
  <2>1. /\ groupPc' \in [Dialers -> GroupPlaces] /\ started' \in [Dialers -> Nat] /\ asked' \in [Dialers -> Nat]
        /\ made' \in [Dialers -> Nat] /\ DOMAIN how' = Dialers /\ DOMAIN due' = Dialers /\ DOMAIN picked' = Dialers
        /\ dest' = dest
    BY <1>10 DEF G!Ends, GroupTypes, GroupPlaces
  <2>2. /\ val' \in [Dialers -> Seq(G!Nodes)] /\ left' \in [Dialers -> Seq(G!Nodes)]
        /\ chain' \in [Dialers -> Seq(G!Nodes \X (G!Nodes \cup Dests))]
    BY <1>10, EmptySeq DEF G!Ends, GroupTypes
  <2>3. QED
    BY <2>1, <2>2 DEF GroupTypes
<1>11. ASSUME NEW c \in Dialers, G!Dial(c) PROVE GroupTypes'
  <2>1. PICK ok \in group.answers : answers' = [answers EXCEPT ![left[c][1]] = ok]
    BY <1>11 DEF G!Dial
  <2>2. answers' \in [G!Nodes -> BOOLEAN]
    <3>1. ok \in BOOLEAN
      BY DEF GroupTypes
    <3>2. QED
      BY <2>1, <3>1 DEF GroupTypes
  <2>3. Callers1'
    BY <1>10, <1>11 DEF G!Dial
  <2>4. QED
    BY <1>11, <2>2, <2>3 DEF G!Dial, GroupTypes
<1>12. ASSUME NEW c \in Dialers, G!Hop(c) PROVE GroupTypes'
  <2>1. left[c] \in Seq(G!Nodes) /\ chain[c] \in Seq(G!Nodes \X (G!Nodes \cup Dests)) /\ dest[c] \in Dests
    BY DEF GroupTypes
  <2>2. CASE left[c] # <<>>
    <3>1. /\ Tail(left[c]) \in Seq(G!Nodes) /\ left[c][1] \in G!Nodes /\ Len(left[c]) \in Nat \ {0}
          /\ Len(left[c]) # 1 => left[c][2] \in G!Nodes
      <4>1. Len(left[c]) \in Nat \ {0} /\ \A i \in 1..Len(left[c]) : left[c][i] \in G!Nodes
        BY <2>1, <2>2
      <4>0. \A k \in Nat \ {0} : 1 \in 1..k /\ (k # 1 => 2 \in 1..k)
        OBVIOUS
      <4>2. 1 \in 1..Len(left[c]) /\ (Len(left[c]) # 1 => 2 \in 1..Len(left[c]))
        BY <4>0, <4>1
      <4>3. Tail(left[c]) \in Seq(G!Nodes)
        BY <2>1, <2>2
      <4>4. QED
        BY <4>1, <4>2, <4>3
    <3>2. <<G!Carrier(c), IF Len(left[c]) = 1 THEN dest[c] ELSE left[c][2]>> \in G!Nodes \X (G!Nodes \cup Dests)
      BY <2>1, <3>1 DEF G!Carrier
    <3>3. Append(chain[c], <<G!Carrier(c), IF Len(left[c]) = 1 THEN dest[c] ELSE left[c][2]>>)
            \in Seq(G!Nodes \X (G!Nodes \cup Dests))
      BY <2>1, <3>2, AppendProperties
    <3>6. left' \in {left, [left EXCEPT ![c] = Tail(@)]} /\ left \in [Dialers -> Seq(G!Nodes)]
      BY <1>12, <2>2 DEF G!Hop, GroupTypes
    <3>7. /\ chain' \in {chain, [chain EXCEPT ![c] = Append(@, <<G!Carrier(c),
                                        IF Len(left[c]) = 1 THEN dest[c] ELSE left[c][2]>>)]}
          /\ chain \in [Dialers -> Seq(G!Nodes \X (G!Nodes \cup Dests))]
      BY <1>12, <2>2 DEF G!Hop, GroupTypes
    <3>8. groupPc' \in [Dialers -> GroupPlaces]
      <4>1. groupPc' \in {groupPc, [groupPc EXCEPT ![c] = "failed"]}
        BY <1>12, <2>2 DEF G!Hop
      <4>2. QED
        BY <4>1 DEF GroupTypes, GroupPlaces
    <3>4. /\ left' \in [Dialers -> Seq(G!Nodes)] /\ chain' \in [Dialers -> Seq(G!Nodes \X (G!Nodes \cup Dests))]
          /\ groupPc' \in [Dialers -> GroupPlaces]
      BY <3>1, <3>3, <3>6, <3>7, <3>8
    <3>5. QED
      BY <1>12, <3>4 DEF G!Hop, GroupTypes, G!Stays
  <2>3. CASE left[c] = <<>>
    <3>1. groupPc' \in [Dialers -> GroupPlaces] /\ UNCHANGED <<left, chain>>
      BY <1>12, <2>3 DEF G!Hop, GroupTypes, GroupPlaces
    <3>2. QED
      BY <1>12, <3>1 DEF G!Hop, GroupTypes, G!Stays
  <2>4. QED
    BY <2>2, <2>3
<1>13. ASSUME NEW c \in Dialers, G!Again(c) PROVE GroupTypes'
  <2>1. Callers1'
    BY <1>10, <1>13 DEF G!Again
  <2>2. QED
    BY <1>13, <2>1 DEF G!Again, GroupTypes, G!Stays
<1>14. ASSUME NEW s \in Setters, G!SetStep(s) PROVE GroupTypes'
  <2>1. DOMAIN due' = Dialers /\ DOMAIN setpc' = Setters /\ DOMAIN want' = Setters /\ last' \in 0..now
    <3>1. CASE G!Set(s)
      <4>1. DOMAIN due' = Dialers
        BY <3>1 DEF G!Set, GroupTypes
      <4>2. DOMAIN setpc' = Setters /\ DOMAIN want' = Setters
        BY <3>1 DEF G!Set, GroupTypes
      <4>3. last' = last /\ last \in 0..now
        BY <3>1 DEF G!Set, GroupTypes
      <4>4. QED
        BY <4>1, <4>2, <4>3
    <3>2. CASE G!SetResets(s)
      <4>1. last' = 0 /\ now \in Nat
        BY <3>2 DEF G!SetResets, G!Reset, GroupTypes
      <4>2. DOMAIN due' = Dialers /\ DOMAIN setpc' = Setters /\ DOMAIN want' = Setters
        BY <3>2 DEF G!SetResets, GroupTypes
      <4>3. QED
        BY <4>1, <4>2
    <3>3. CASE G!SetSelected(s)
      BY <3>3 DEF G!SetSelected, GroupTypes
    <3>4. QED
      BY <1>14, <3>1, <3>2, <3>3 DEF G!SetStep
  <2>2. QED
    BY <1>14, <2>1 DEF G!SetStep, G!Set, G!SetResets, G!SetSelected, GroupTypes, G!Uses, G!CallerStays
<1>15. CASE UNCHANGED (G!gvars)
  BY <1>15 DEF G!gvars, GroupTypes
<1>16. QED
  BY <1>1, <1>2, <1>3, <1>4, <1>5, <1>6, <1>7, <1>8, <1>9, <1>11, <1>12, <1>13, <1>14, <1>15
     DEF G!GNext, G!CallStep

(* One look-up at a time; what callers are given is fresh.                 *)
LEMMA CallsStay ==
    ASSUME G!GroupsAssumption, GroupTypes, CallInv, [G!GNext]_(G!gvars) PROVE CallInv'
<1> USE DEF G!single, G!caller, G!health, G!choice, G!setter
<1> DEFINE CallVars == <<groupPc, val, leader, result, last, started, made, madeAt, how, asked>>
<1>0. /\ now \in Nat /\ Wait \in Nat /\ Wait <= now /\ last \in Nat /\ last <= now /\ madeAt \in Nat /\ madeAt <= now
      /\ \A c \in Dialers : started[c] \in Nat /\ asked[c] \in Nat /\ made[c] \in Nat
      /\ leader \in Dialers \cup {G!None} /\ G!None \notin Dialers
  BY DEF GroupTypes, G!GroupsAssumption
<1>1. CASE UNCHANGED CallVars /\ now' \in {now, now + 1}
  <2>1. G!Fresh' => G!Fresh
    BY <1>0, <1>1 DEF G!Fresh
  <2>2. \A k \in Nat : k <= now => k <= now'
    BY <1>0, <1>1
  <2>3. QED
    BY <1>0, <1>1, <2>1, <2>2 DEF CallInv
<1>2. ASSUME NEW c \in Dialers, G!Ask(c) PROVE CallInv'
  <2>0. /\ groupPc[c] = "idle" /\ asked' = [asked EXCEPT ![c] = now]
        /\ UNCHANGED <<last, result, madeAt, now>>
    BY <1>2 DEF G!Ask, G!Stays
  <2>t. /\ DOMAIN groupPc = Dialers /\ DOMAIN val = Dialers /\ DOMAIN asked = Dialers /\ DOMAIN made = Dialers
        /\ DOMAIN started = Dialers /\ DOMAIN how = Dialers
    BY DEF GroupTypes
  <2>1. CASE G!Fresh
    <3>1. /\ groupPc' = [groupPc EXCEPT ![c] = "take"] /\ UNCHANGED <<leader, started, val, made, how>>
      BY <1>2, <2>1 DEF G!Ask
    <3>2. last # 0 /\ result # <<>> /\ last <= madeAt /\ leader = G!None
      BY <1>0, <2>1 DEF G!Fresh, CallInv
    <3>3. now < madeAt + Wait
      BY <1>0, <2>1, <3>2 DEF G!Fresh
    <3>4. QED
      BY <1>0, <2>0, <2>t, <3>1, <3>2, <3>3 DEF CallInv, G!Fresh
  <2>2. CASE ~G!Fresh /\ leader = G!None
    <3>1. /\ leader' = c /\ started' = [started EXCEPT ![c] = now]
          /\ groupPc' = [groupPc EXCEPT ![c] = "run"] /\ UNCHANGED <<val, made, how>>
      BY <1>2, <2>2 DEF G!Ask
    <3>2. QED
      BY <1>0, <2>0, <2>t, <2>2, <3>1 DEF CallInv, G!Fresh
  <2>3. CASE ~G!Fresh /\ leader # G!None
    <3>1. /\ how' = [how EXCEPT ![c] = "joined"] /\ UNCHANGED <<leader, started>> /\ leader \in Dialers
      BY <1>0, <1>2, <2>3 DEF G!Ask
    <3>2. CASE groupPc[leader] = "run"
      <4>1. groupPc' = [groupPc EXCEPT ![c] = "wait"] /\ UNCHANGED <<val, made>>
        BY <1>2, <2>3, <3>2 DEF G!Ask
      <4>2. QED
        BY <1>0, <2>0, <2>t, <2>3, <3>1, <3>2, <4>1 DEF CallInv, G!Fresh
    <3>3. CASE groupPc[leader] # "run"
      <4>1. /\ groupPc' = [groupPc EXCEPT ![c] = "got"] /\ val' = [val EXCEPT ![c] = val[leader]]
            /\ made' = [made EXCEPT ![c] = made[leader]]
        BY <1>2, <2>3, <3>3 DEF G!Ask
      <4>2. groupPc[leader] = "store" /\ val[leader] # <<>>
        BY <1>0, <3>1, <3>3 DEF CallInv
      <4>3. QED
        BY <1>0, <2>0, <2>t, <2>3, <3>1, <4>1, <4>2 DEF CallInv, G!Fresh
    <3>4. QED
      BY <3>2, <3>3
  <2>4. QED
    BY <2>1, <2>2, <2>3
<1>3. ASSUME NEW c \in Dialers, G!Take(c) PROVE CallInv'
  <2>1. /\ groupPc[c] = "take" /\ val' = [val EXCEPT ![c] = result] /\ made' = [made EXCEPT ![c] = madeAt]
        /\ how' = [how EXCEPT ![c] = "cached"] /\ groupPc' = [groupPc EXCEPT ![c] = "got"]
        /\ UNCHANGED <<last, result, leader, madeAt, now, started, asked>>
    BY <1>3 DEF G!Take, G!Stays
  <2>2. DOMAIN groupPc = Dialers /\ DOMAIN val = Dialers /\ DOMAIN made = Dialers /\ DOMAIN how = Dialers
    BY DEF GroupTypes
  <2>3. QED
    BY <1>0, <2>1, <2>2 DEF CallInv, G!Fresh
<1>4. ASSUME NEW c \in Dialers, G!Run(c) PROVE CallInv'
  <2>1. /\ groupPc[c] = "run" /\ UNCHANGED <<last, result, leader, madeAt, now, started, asked>>
        /\ made' = [w \in Dialers |-> IF G!GetsValue(c, w) THEN now ELSE made[w]]
        /\ groupPc' = [w \in Dialers |-> IF w = c THEN "store" ELSE IF G!GetsValue(c, w) THEN "got" ELSE groupPc[w]]
        /\ how' = [how EXCEPT ![c] = "made"]
    BY <1>4 DEF G!Run
  <2>2. \A w \in Dialers : IF G!GetsValue(c, w) THEN val'[w] # <<>> ELSE val'[w] = val[w]
    <3> DEFINE value == CASE group.type = "url-test" -> <<fastNode'>>
                          [] group.type = "select" -> <<G!Selected>>
                          [] OTHER -> G!Members
    <3>1. value # <<>>
      BY MembersAre
    <3>2. val' = [w \in Dialers |-> IF G!GetsValue(c, w) THEN value ELSE val[w]]
      BY <1>4 DEF G!Run
    <3> HIDE DEF value
    <3>3. QED
      BY <3>1, <3>2
  <2>3. DOMAIN how = Dialers /\ leader = c
    BY <2>1 DEF GroupTypes, CallInv
  <2>4. \A w \in Dialers : groupPc[w] = "wait" => groupPc'[w] = "got" /\ how'[w] = "joined"
    BY <2>1, <2>3 DEF CallInv, G!GetsValue
  <2>5. \A w \in Dialers : w # c /\ groupPc[w] # "wait" =>
            groupPc'[w] = groupPc[w] /\ how'[w] = how[w] /\ val'[w] = val[w] /\ made'[w] = made[w]
    BY <2>1, <2>2, <2>3 DEF G!GetsValue
  <2>6. groupPc'[c] = "store" /\ how'[c] = "made" /\ val'[c] # <<>> /\ made'[c] = now /\ started[c] <= now
    BY <2>1, <2>2, <2>3 DEF G!GetsValue, CallInv
  <2>7. \A w \in Dialers : groupPc[w] = "wait" => val'[w] # <<>>
    BY <2>2 DEF G!GetsValue
  <2>8. \A w \in Dialers : groupPc'[w] # "wait" /\ (groupPc'[w] \in {"run", "store"} <=> w = c)
    BY <2>3, <2>4, <2>5, <2>6 DEF CallInv
  <2>9. QED
    BY <1>0, <2>1, <2>3, <2>4, <2>5, <2>6, <2>7, <2>8 DEF CallInv, G!Fresh
<1>5. ASSUME NEW c \in Dialers, G!Store(c) PROVE CallInv'
  <2>1. /\ groupPc[c] = "store" /\ leader' = G!None /\ result' = val[c] /\ last' = started[c] /\ madeAt' = made[c]
        /\ groupPc' = [groupPc EXCEPT ![c] = "got"] /\ UNCHANGED <<val, started, asked, made, how, now>>
    BY <1>5 DEF G!Store, G!Stamp, G!Stays
  <2>2. /\ leader = c /\ val[c] # <<>> /\ started[c] <= made[c] /\ made[c] <= now /\ madeAt <= made[c]
        /\ how[c] = "made" /\ DOMAIN groupPc = Dialers
    BY <2>1 DEF CallInv, GroupTypes
  <2>3. \A w \in Dialers : w # c => groupPc'[w] = groupPc[w] /\ groupPc[w] \notin {"run", "store", "wait"}
    BY <2>1, <2>2 DEF CallInv
  <2>4. \A w \in Dialers : groupPc[w] = "take" => asked[w] < madeAt' + Wait
    BY <1>0, <2>1, <2>2 DEF CallInv
  <2>5. QED
    BY <1>0, <2>1, <2>2, <2>3, <2>4 DEF CallInv
<1>6. ASSUME NEW c \in Dialers, groupPc[c] \in {"got", "dial", "direct", "chained", "failed"},
             UNCHANGED <<last, leader, madeAt, now, result>>,
             \E place \in {"idle", "dial", "direct", "chained", "failed"} : groupPc' = [groupPc EXCEPT ![c] = place],
             \A w \in Dialers \ {c} : val'[w] = val[w] /\ started'[w] = started[w] /\ asked'[w] = asked[w]
                                      /\ made'[w] = made[w] /\ how'[w] = how[w]
      PROVE  CallInv'
  <2>1. DOMAIN groupPc = Dialers
    BY DEF GroupTypes
  <2>2. \A w \in Dialers \ {c} : groupPc'[w] = groupPc[w]
    BY <1>6, <2>1
  <2>3. groupPc'[c] \in {"idle", "dial", "direct", "chained", "failed"} /\ leader # c
    BY <1>6, <2>1 DEF CallInv
  <2>4. leader \in Dialers => groupPc'[leader] = groupPc[leader]
    BY <2>2, <2>3
  <2>5. ASSUME NEW w \in Dialers PROVE
            /\ groupPc'[w] \in {"run", "store"} <=> leader = w
            /\ groupPc'[w] = "wait" => leader \in Dialers /\ groupPc'[leader] = "run" /\ how'[w] = "joined"
            /\ groupPc'[w] \in {"store", "got"} => val'[w] # <<>>
            /\ groupPc'[w] = "take" => result # <<>> /\ asked'[w] < madeAt + Wait
            /\ groupPc'[w] \in {"run", "store"} => started'[w] <= now
            /\ groupPc'[w] = "store" => /\ started'[w] <= made'[w] /\ made'[w] <= now /\ madeAt <= made'[w]
                                        /\ how'[w] = "made"
            /\ groupPc'[w] = "got" /\ how'[w] = "cached" => asked'[w] < made'[w] + Wait
    <3>1. CASE w = c
      BY <2>3, <3>1
    <3>2. CASE w # c
      <4>1. /\ groupPc'[w] = groupPc[w] /\ val'[w] = val[w] /\ started'[w] = started[w] /\ asked'[w] = asked[w]
            /\ made'[w] = made[w] /\ how'[w] = how[w]
        BY <1>6, <2>2, <3>2
      <4>2. QED
        BY <2>4, <4>1 DEF CallInv
    <3>3. QED
      BY <3>1, <3>2
  <2>6. QED
    BY <1>6, <2>5 DEF CallInv, G!Fresh
<1>7. ASSUME NEW c \in Dialers, G!Unwrap(c) PROVE CallInv'
  <2> DEFINE nodes1 == [i \in DOMAIN val[c] |-> G!Unwrapped(val[c][i], dest[c])]
  <2>1. /\ groupPc[c] = "got"
        /\ val' = [w \in Dialers |-> IF w = c \/ (val[w] = val[c] /\ val[w] = result) THEN nodes1 ELSE val[w]]
        /\ result' = IF result = val[c] THEN nodes1 ELSE result
        /\ groupPc' = [groupPc EXCEPT ![c] = "dial"]
        /\ UNCHANGED <<last, leader, madeAt, started, asked, made, how, now>>
    BY <1>7 DEF G!Unwrap, G!Stays
  <2>2. val[c] # <<>> /\ val[c] \in Seq(G!Nodes) /\ DOMAIN groupPc = Dialers
    BY <2>1 DEF CallInv, GroupTypes
  <2>3. nodes1 # <<>>
    <3>1. DOMAIN nodes1 = DOMAIN val[c] /\ 1 \in DOMAIN val[c]
      BY <2>2
    <3>2. DOMAIN <<>> = {}
      OBVIOUS
    <3> HIDE DEF nodes1
    <3>3. QED
      BY <3>1, <3>2
  <2> HIDE DEF nodes1
  <2>4. (result # <<>> => result' # <<>>) /\ \A w \in Dialers : val[w] # <<>> => val'[w] # <<>>
    BY <2>1, <2>3
  <2>5. \A w \in Dialers \ {c} : groupPc'[w] = groupPc[w]
    BY <2>1, <2>2
  <2>6. groupPc'[c] = "dial" /\ leader # c
    BY <2>1, <2>2 DEF CallInv
  <2>7. leader \in Dialers => groupPc'[leader] = groupPc[leader]
    BY <2>5, <2>6
  <2>8. QED
    BY <2>1, <2>4, <2>5, <2>6, <2>7 DEF CallInv, G!Fresh
<1>8. ASSUME NEW c \in Dialers, G!Pick(c) \/ G!Hop(c) \/ G!Dial(c) \/ G!Again(c) PROVE CallInv'
  <2>1. groupPc[c] \in {"got", "dial", "direct", "chained", "failed"} /\ UNCHANGED <<last, leader, madeAt, now, result>>
    BY <1>8 DEF G!Pick, G!Hop, G!Dial, G!Again, G!Stays
  <2>2. CASE G!Pick(c)
    BY <1>6, <2>1, <2>2 DEF G!Pick
  <2>3. CASE G!Hop(c)
    <3>1. \E place \in {"dial", "direct", "chained", "failed"} : groupPc' = [groupPc EXCEPT ![c] = place]
      <4>1. \/ groupPc' = [groupPc EXCEPT ![c] = "direct"]
            \/ groupPc' = [groupPc EXCEPT ![c] = "chained"]
            \/ groupPc' = [groupPc EXCEPT ![c] = "failed"]
            \/ groupPc' = groupPc /\ groupPc[c] = "dial"
        BY <2>3 DEF G!Hop
      <4>2. groupPc[c] = "dial" => groupPc = [groupPc EXCEPT ![c] = "dial"]
        BY DEF GroupTypes
      <4>3. QED
        BY <4>1, <4>2
    <3>2. QED
      BY <1>6, <2>1, <2>3, <3>1 DEF G!Hop
  <2>4. CASE G!Dial(c) \/ G!Again(c)
    <3>1. G!Ends(c)
      BY <2>4 DEF G!Dial, G!Again
    <3>2. groupPc' = [groupPc EXCEPT ![c] = "idle"]
      BY <3>1 DEF G!Ends
    <3>3. \A w \in Dialers \ {c} : val'[w] = val[w] /\ started'[w] = started[w] /\ asked'[w] = asked[w]
                                   /\ made'[w] = made[w] /\ how'[w] = how[w]
      BY <3>1 DEF G!Ends, GroupTypes
    <3>4. QED
      BY <1>6, <2>1, <3>2, <3>3
  <2>5. QED
    BY <1>8, <2>2, <2>3, <2>4
<1>9. ASSUME NEW s \in Setters, G!SetResets(s) PROVE CallInv'
  <2>1. last' = 0 /\ UNCHANGED <<groupPc, val, leader, result, started, made, madeAt, how, asked, now>>
    BY <1>9 DEF G!SetResets, G!Reset, G!Uses, G!CallerStays
  <2>2. ~G!Fresh'
    BY <1>0, <2>1 DEF G!Fresh
  <2>3. QED
    BY <2>1, <2>2 DEF CallInv
<1>10. ASSUME NEW s \in Setters, G!Set(s) \/ G!SetSelected(s) PROVE CallInv'
  BY <1>1, <1>10 DEF G!Set, G!SetSelected, G!Uses, G!CallerStays
<1>11. CASE G!Tick \/ G!Tested \/ G!NewList \/ UNCHANGED (G!gvars)
  BY <1>1, <1>11 DEF G!Tick, G!Tested, G!NewList, G!gvars
<1>12. QED
  BY <1>2, <1>3, <1>4, <1>5, <1>7, <1>8, <1>9, <1>10, <1>11 DEF G!GNext, G!CallStep, G!SetStep

(* A selector gives the names that are due.                                *)
LEMMA FollowStays ==
    ASSUME G!GroupsAssumption, GroupTypes, CallInv, FollowInv, [G!GNext]_(G!gvars) PROVE FollowInv'
<1> USE DEF G!single, G!caller, G!health, G!choice, G!setter
<1>0. SUFFICES ASSUME group.type = "select" PROVE FollowInv'
  <2>1. CASE group.type # "select"
    <3>1. group' = group
      BY DEF G!GNext, G!CallStep, G!SetStep, G!Tick, G!Tested, G!NewList, G!Ask, G!Take, G!Run, G!Store, G!Pick,
             G!Unwrap, G!Dial, G!Hop, G!Again, G!Set, G!SetResets, G!SetSelected, G!Stays, G!Uses, G!gvars
    <3>2. QED
      BY <2>1, <3>1 DEF FollowInv
  <2>2. QED
    BY <2>1
<1>t. /\ DOMAIN groupPc = Dialers /\ DOMAIN val = Dialers /\ DOMAIN due = Dialers
      /\ leader \in Dialers \cup {G!None} /\ G!None \notin Dialers
  BY DEF GroupTypes, G!GroupsAssumption
<1>s. G!Selected \in G!Nodes /\ NameOf[G!Selected] \in G!Names(G!Listed(G!Members))
      /\ (G!Named(G!Members, selected) # {} => NameOf[G!Selected] = selected)
  BY SelectedIs
<1>n. \A l \in Seq(G!Nodes) : l # <<>> => First(l) \in G!Names(G!Nodes)
  BY DEF First, G!Names
<1>1. CASE UNCHANGED <<settled, selected, members, group, last, result, groupPc, val, due>>
  <2>1. G!Selected' = G!Selected /\ G!Named(G!Members, selected)' = G!Named(G!Members, selected)
    BY <1>1 DEF G!Selected, G!Members, G!Named
  <2>2. QED
    BY <1>1, <2>1 DEF FollowInv, First
<1>2. ASSUME NEW c \in Dialers, G!Ask(c) PROVE FollowInv'
  <2>1. /\ groupPc[c] = "idle"
        /\ due' = [due EXCEPT ![c] = IF settled = G!None THEN G!Names(G!Nodes) ELSE {settled}]
        /\ UNCHANGED <<settled, selected, members, group, last, result>>
    BY <1>2 DEF G!Ask, G!Stays
  <2>2. G!Selected' = G!Selected /\ G!Named(G!Members, selected)' = G!Named(G!Members, selected)
    BY <2>1 DEF G!Selected, G!Members, G!Named
  <2>3. \A w \in Dialers \ {c} : due'[w] = due[w]
    BY <1>t, <2>1
  <2>4. NameOf[G!Selected] \in due'[c]
    BY <1>0, <1>s, <1>t, <2>1 DEF FollowInv, G!Names
  <2>5. settled # G!None => due'[c] = {settled}
    BY <1>t, <2>1
  <2>6. settled = G!None => due'[c] = G!Names(G!Nodes)
    BY <1>t, <2>1
  <2>7. CASE G!Fresh
    <3>1. groupPc' = [groupPc EXCEPT ![c] = "take"] /\ val' = val
      BY <1>2, <2>7 DEF G!Ask
    <3>2. last # 0 /\ result # <<>> /\ result \in Seq(G!Nodes) /\ leader = G!None
      <4>1. now \in Nat /\ Wait \in Nat /\ Wait <= now /\ last \in Nat
        BY DEF GroupTypes, G!GroupsAssumption
      <4>2. last # 0
        BY <2>7, <4>1 DEF G!Fresh
      <4>3. QED
        BY <2>7, <4>2 DEF CallInv, GroupTypes
    <3>3. First(result) \in due'[c]
      <4>1. First(result) \in G!Names(G!Nodes)
        BY <1>n, <3>2
      <4>2. settled # G!None => First(result) = settled
        BY <1>0, <3>2 DEF FollowInv
      <4>3. QED
        BY <2>5, <2>6, <4>1, <4>2
    <3>4. \A w \in Dialers : groupPc[w] # "store"
      BY <1>t, <3>2 DEF CallInv
    <3>5. groupPc'[c] = "take" /\ \A w \in Dialers \ {c} : groupPc'[w] = groupPc[w]
      BY <1>t, <3>1
    <3>6. \A w \in Dialers : groupPc'[w] # "store"
      BY <3>4, <3>5
    <3>7. ASSUME NEW w \in Dialers PROVE
            /\ groupPc'[w] \in {"take", "run", "wait"} => NameOf[G!Selected] \in due'[w]
            /\ groupPc'[w] \in {"store", "got"} => First(val[w]) \in due'[w]
            /\ groupPc'[w] = "take" => First(result) \in due'[w]
      BY <1>0, <2>3, <2>4, <3>3, <3>5 DEF FollowInv
    <3>8. QED
      BY <1>0, <2>1, <2>2, <3>1, <3>6, <3>7 DEF FollowInv, First
  <2>8. CASE ~G!Fresh /\ leader = G!None
    <3>1. groupPc' = [groupPc EXCEPT ![c] = "run"] /\ val' = val
      BY <1>2, <2>8 DEF G!Ask
    <3>2. groupPc'[c] = "run" /\ \A w \in Dialers \ {c} : groupPc'[w] = groupPc[w]
      BY <1>t, <3>1
    <3>3. ASSUME NEW w \in Dialers PROVE
            /\ groupPc'[w] \in {"take", "run", "wait"} => NameOf[G!Selected] \in due'[w]
            /\ groupPc'[w] \in {"store", "got"} => First(val[w]) \in due'[w]
            /\ groupPc'[w] = "take" =>
                /\ First(result) \in due'[w]
                /\ \A d \in Dialers : groupPc'[d] = "store" => First(val[d]) \in due'[w]
            /\ settled # G!None /\ groupPc'[w] = "store" => First(val[w]) = settled
      BY <1>0, <2>3, <2>4, <3>2 DEF FollowInv
    <3>4. QED
      BY <1>0, <2>1, <2>2, <3>1, <3>3 DEF FollowInv, First
  <2>9. CASE ~G!Fresh /\ leader # G!None
    <3>1. CASE groupPc[leader] = "run"
      <4>1. groupPc' = [groupPc EXCEPT ![c] = "wait"] /\ val' = val
        BY <1>2, <2>9, <3>1 DEF G!Ask
      <4>2. groupPc'[c] = "wait" /\ \A w \in Dialers \ {c} : groupPc'[w] = groupPc[w]
        BY <1>t, <4>1
      <4>3. ASSUME NEW w \in Dialers PROVE
              /\ groupPc'[w] \in {"take", "run", "wait"} => NameOf[G!Selected] \in due'[w]
              /\ groupPc'[w] \in {"store", "got"} => First(val[w]) \in due'[w]
              /\ groupPc'[w] = "take" =>
                  /\ First(result) \in due'[w]
                  /\ \A d \in Dialers : groupPc'[d] = "store" => First(val[d]) \in due'[w]
              /\ settled # G!None /\ groupPc'[w] = "store" => First(val[w]) = settled
        BY <1>0, <2>3, <2>4, <4>2 DEF FollowInv
      <4>4. QED
        BY <1>0, <2>1, <2>2, <4>1, <4>3 DEF FollowInv, First
    <3>2. CASE groupPc[leader] # "run"
      <4>1. groupPc' = [groupPc EXCEPT ![c] = "got"] /\ val' = [val EXCEPT ![c] = val[leader]]
        BY <1>2, <2>9, <3>2 DEF G!Ask
      <4>2. groupPc[leader] = "store" /\ val[leader] # <<>> /\ val[leader] \in Seq(G!Nodes)
        BY <1>t, <2>9, <3>2 DEF CallInv, GroupTypes
      <4>3. groupPc'[c] = "got" /\ val'[c] = val[leader]
            /\ \A w \in Dialers \ {c} : groupPc'[w] = groupPc[w] /\ val'[w] = val[w]
        BY <1>t, <4>1
      <4>4. First(val[leader]) \in due'[c]
        <5>1. First(val[leader]) \in G!Names(G!Nodes)
          BY <1>n, <4>2
        <5>2. settled # G!None => First(val[leader]) = settled
          BY <1>0, <1>t, <2>9, <4>2 DEF FollowInv
        <5>3. QED
          BY <2>5, <2>6, <5>1, <5>2
      <4>5. ASSUME NEW w \in Dialers PROVE
              /\ groupPc'[w] \in {"take", "run", "wait"} => NameOf[G!Selected] \in due'[w]
              /\ groupPc'[w] \in {"store", "got"} => First(val'[w]) \in due'[w]
              /\ groupPc'[w] = "take" =>
                  /\ First(result) \in due'[w]
                  /\ \A d \in Dialers : groupPc'[d] = "store" => First(val'[d]) \in due'[w]
              /\ settled # G!None /\ groupPc'[w] = "store" => First(val'[w]) = settled
        BY <1>0, <2>3, <4>3, <4>4 DEF FollowInv
      <4>6. QED
        BY <1>0, <2>1, <2>2, <4>5 DEF FollowInv, First
    <3>3. QED
      BY <3>1, <3>2
  <2>10. QED
    BY <2>7, <2>8, <2>9
<1>3. ASSUME NEW c \in Dialers, G!Take(c) PROVE FollowInv'
  <2>1. /\ groupPc[c] = "take" /\ val' = [val EXCEPT ![c] = result]
        /\ groupPc' = [groupPc EXCEPT ![c] = "got"]
        /\ UNCHANGED <<settled, selected, members, group, last, result, due>>
    BY <1>3 DEF G!Take, G!Stays
  <2>2. G!Selected' = G!Selected /\ G!Named(G!Members, selected)' = G!Named(G!Members, selected)
    BY <2>1 DEF G!Selected, G!Members, G!Named
  <2>3. groupPc'[c] = "got" /\ val'[c] = result /\ First(result) \in due[c]
        /\ \A w \in Dialers \ {c} : groupPc'[w] = groupPc[w] /\ val'[w] = val[w]
    BY <1>0, <1>t, <2>1 DEF FollowInv
  <2>4. QED
    BY <1>0, <2>1, <2>2, <2>3 DEF FollowInv, First
<1>4. ASSUME NEW c \in Dialers, G!Run(c) PROVE FollowInv'
  <2>1. /\ groupPc[c] = "run"
        /\ val' = [w \in Dialers |-> IF G!GetsValue(c, w) THEN <<G!Selected>> ELSE val[w]]
        /\ groupPc' = [w \in Dialers |-> IF w = c THEN "store" ELSE IF G!GetsValue(c, w) THEN "got" ELSE groupPc[w]]
        /\ UNCHANGED <<settled, selected, members, group, last, result, due>>
    BY <1>0, <1>4 DEF G!Run
  <2>2. G!Selected' = G!Selected /\ G!Named(G!Members, selected)' = G!Named(G!Members, selected)
    BY <2>1 DEF G!Selected, G!Members, G!Named
  <2>3. First(<<G!Selected>>) = NameOf[G!Selected]
    BY DEF First
  <2>4. \A w \in Dialers : IF w = c \/ groupPc[w] = "wait"
                           THEN /\ First(val'[w]) = NameOf[G!Selected] /\ NameOf[G!Selected] \in due[w]
                                /\ groupPc'[w] = IF w = c THEN "store" ELSE "got"
                           ELSE val'[w] = val[w] /\ groupPc'[w] = groupPc[w]
    BY <1>0, <2>1, <2>3 DEF FollowInv, G!GetsValue
  <2>5. \A w \in Dialers : w # c => groupPc[w] # "store"
    BY <2>1 DEF CallInv
  <2>6. settled # G!None => NameOf[G!Selected] = settled
    BY <1>0, <1>s DEF FollowInv
  <2>7. QED
    BY <1>0, <2>1, <2>2, <2>4, <2>5, <2>6 DEF FollowInv, First
<1>5. ASSUME NEW c \in Dialers, G!Store(c) PROVE FollowInv'
  <2>1. /\ groupPc[c] = "store" /\ result' = val[c] /\ groupPc' = [groupPc EXCEPT ![c] = "got"]
        /\ UNCHANGED <<settled, selected, members, group, val, due>>
    BY <1>5 DEF G!Store, G!Stays
  <2>2. G!Selected' = G!Selected /\ G!Named(G!Members, selected)' = G!Named(G!Members, selected)
    BY <2>1 DEF G!Selected, G!Members, G!Named
  <2>3. groupPc'[c] = "got" /\ \A w \in Dialers \ {c} : groupPc'[w] = groupPc[w]
    BY <1>t, <2>1
  <2>4. QED
    BY <1>0, <2>1, <2>2, <2>3 DEF FollowInv, First
<1>6. ASSUME NEW c \in Dialers,
             UNCHANGED <<settled, selected, members, group, last, result>>,
             \E place \in {"idle", "dial"} : groupPc' = [groupPc EXCEPT ![c] = place],
             \A w \in Dialers \ {c} : val'[w] = val[w] /\ due'[w] = due[w]
      PROVE  FollowInv'
  <2>2. G!Selected' = G!Selected /\ G!Named(G!Members, selected)' = G!Named(G!Members, selected)
    BY <1>6 DEF G!Selected, G!Members, G!Named
  <2>3. groupPc'[c] \in {"idle", "dial"} /\ \A w \in Dialers \ {c} : groupPc'[w] = groupPc[w]
    BY <1>6, <1>t
  <2>4. ASSUME NEW w \in Dialers PROVE
          /\ groupPc'[w] \in {"take", "run", "wait"} => NameOf[G!Selected] \in due'[w]
          /\ groupPc'[w] \in {"store", "got"} => First(val'[w]) \in due'[w]
          /\ groupPc'[w] = "take" =>
              /\ First(result) \in due'[w]
              /\ \A d \in Dialers : groupPc'[d] = "store" => First(val'[d]) \in due'[w]
          /\ settled # G!None /\ groupPc'[w] = "store" => First(val'[w]) = settled
    <3>1. CASE w = c
      BY <2>3, <3>1
    <3>2. CASE w # c
      BY <1>0, <1>6, <2>3, <3>2 DEF FollowInv
    <3>3. QED
      BY <3>1, <3>2
  <2>5. QED
    BY <1>0, <1>6, <2>2, <2>4 DEF FollowInv, First
<1>7. ASSUME NEW c \in Dialers, G!Pick(c) \/ G!Dial(c) \/ G!Again(c) PROVE FollowInv'
  <2>1. CASE G!Pick(c)
    BY <1>6, <2>1 DEF G!Pick
  <2>2. CASE G!Dial(c) \/ G!Again(c)
    <3>1. UNCHANGED <<settled, selected, members, group, last, result>> /\ G!Ends(c)
      BY <2>2 DEF G!Dial, G!Again, G!Stays
    <3>2. \A w \in Dialers \ {c} : val'[w] = val[w] /\ due'[w] = due[w]
      BY <1>t, <3>1 DEF G!Ends
    <3>3. groupPc' = [groupPc EXCEPT ![c] = "idle"]
      BY <3>1 DEF G!Ends
    <3>4. QED
      BY <1>6, <3>1, <3>2, <3>3
  <2>3. QED
    BY <1>7, <2>1, <2>2
<1>8. ASSUME NEW c \in Dialers, G!Unwrap(c) \/ G!Hop(c) PROVE FollowInv'
  BY <1>0, <1>8 DEF G!Unwrap, G!Hop
<1>9. ASSUME UNCHANGED <<group, result, groupPc, val>>, settled' = G!None,
             \A c \in Dialers : due[c] \subseteq due'[c] /\ NameOf[G!Selected'] \in due'[c]
      PROVE  FollowInv'
  <2>1. ASSUME NEW c \in Dialers PROVE
            /\ groupPc[c] \in {"take", "run", "wait"} => NameOf[G!Selected]' \in due'[c]
            /\ groupPc[c] \in {"store", "got"} => First(val[c]) \in due'[c]
            /\ groupPc[c] = "take" =>
                /\ First(result) \in due'[c]
                /\ \A d \in Dialers : groupPc[d] = "store" => First(val[d]) \in due'[c]
    <3>1. due[c] \subseteq due'[c]
      BY <1>9
    <3>2. QED
      BY <1>0, <1>9, <3>1 DEF FollowInv
  <2>2. QED
    BY <1>0, <1>9, <2>1 DEF FollowInv, First
<1>10. CASE G!NewList
  <2>1. /\ due' = [c \in Dialers |-> due[c] \cup G!Names(G!Listed(group.lists[members + 1]))]
        /\ members' = members + 1 /\ settled' = G!None /\ UNCHANGED <<group, result, groupPc, val>>
    BY <1>10 DEF G!NewList
  <2>2. GroupTypes'
    BY GroupTypesStay
  <2>3. NameOf[G!Selected'] \in G!Names(G!Listed(G!Members'))
    <3>3. (GroupTypes => NameOf[G!Selected] \in G!Names(G!Listed(G!Members)))'
      BY SelectedThen
    <3>4. QED
      BY <2>2, <3>3
  <2>4. G!Members' = group.lists[members + 1]
    BY <2>1 DEF G!Members
  <2>5. QED
    BY <1>9, <2>1, <2>3, <2>4
<1>11. ASSUME NEW s \in Setters, G!Set(s) PROVE FollowInv'
  <2>1. CASE setpc'[s] = "reset"
    <3>1. PICK n \in G!Names(G!Nodes) :
            /\ G!Named(G!Members, n) # {} /\ selected' = n
            /\ due' = [c \in Dialers |-> due[c] \cup {n}]
      <4>1. DOMAIN setpc = Setters
        BY DEF GroupTypes
      <4>2. QED
        BY <1>11, <2>1, <4>1 DEF G!Set
    <3>2. settled' = G!None /\ UNCHANGED <<group, members, result, groupPc, val>>
      BY <1>11, <2>1 DEF G!Set, G!Uses, G!CallerStays
    <3>3. GroupTypes'
      BY GroupTypesStay
    <3>4. (GroupTypes => (G!Named(G!Members, selected) # {} => NameOf[G!Selected] = selected))'
      BY SelectedThen
    <3>5. G!Named(G!Members, selected)' # {}
      BY <3>1, <3>2 DEF G!Named, G!Members
    <3>6. NameOf[G!Selected'] = selected'
      BY <3>3, <3>4, <3>5
    <3>7. QED
      BY <1>9, <3>1, <3>2, <3>6
  <2>2. CASE setpc'[s] # "reset"
    <3>1. UNCHANGED <<selected, due>>
      <4>1. DOMAIN setpc = Setters
        BY DEF GroupTypes
      <4>2. QED
        BY <1>11, <2>2, <4>1 DEF G!Set
    <3>2. UNCHANGED <<settled, members, group, last, result, groupPc, val>>
      BY <1>11, <2>2 DEF G!Set, G!Uses, G!CallerStays
    <3>3. QED
      BY <1>1, <3>1, <3>2
  <2>3. QED
    BY <2>1, <2>2
<1>12. ASSUME NEW s \in Setters, G!SetResets(s) PROVE FollowInv'
  <2>1. /\ last' = 0 /\ UNCHANGED <<selected, members, group, result, groupPc, val, due>>
        /\ settled' = IF leader = G!None /\ G!Named(G!Members, selected) # {} THEN selected ELSE G!None
    BY <1>12 DEF G!SetResets, G!Reset, G!Uses, G!CallerStays
  <2>2. G!Selected' = G!Selected /\ G!Named(G!Members, selected)' = G!Named(G!Members, selected)
    BY <2>1 DEF G!Selected, G!Members, G!Named
  <2>3. leader = G!None => \A c \in Dialers : groupPc[c] # "store"
    BY <1>t DEF CallInv
  <2>4. QED
    BY <1>0, <2>1, <2>2, <2>3 DEF FollowInv, First
<1>13. CASE G!Tick \/ G!Tested \/ UNCHANGED (G!gvars) \/ \E s \in Setters : G!SetSelected(s)
  BY <1>1, <1>13 DEF G!Tick, G!Tested, G!gvars, G!SetSelected, G!Uses, G!CallerStays
<1>14. QED
  BY <1>2, <1>3, <1>4, <1>5, <1>7, <1>8, <1>10, <1>11, <1>12, <1>13 DEF G!GNext, G!CallStep, G!SetStep

(* Every turn comes: from a place anywhere, a round reaches each node.     *)
LEMMA EveryTurn ==
    ASSUME NEW a \in Nat, NEW n \in Nat \ {0}, NEW i \in 0..(n - 1)
    PROVE  \E t \in 1..n : (a + t) % n = i
<1>1. /\ a % n \in 0..(n - 1) /\ a \div n \in Nat /\ a = n * (a \div n) + (a % n)
  OBVIOUS
<1>2. \A q \in Nat, r \in 0..(n - 1) : (n * q + r) % n = r
  OBVIOUS
<1> DEFINE q == a \div n
           r == a % n
<1>3. CASE r < i
  <2>1. i - r \in 1..n /\ a + (i - r) = n * q + i
    BY <1>1, <1>3
  <2>2. (a + (i - r)) % n = i
    <3> HIDE DEF q, r
    <3>1. q \in Nat
      BY <1>1 DEF q
    <3>2. QED
      BY <1>2, <2>1, <3>1
  <2>3. QED
    BY <2>1, <2>2
<1>4. CASE r >= i
  <2>1. i - r + n \in 1..n
    BY <1>1, <1>4
  <2>2. a + (i - r + n) = n * (q + 1) + i /\ q + 1 \in Nat
    <3>1. n * (q + 1) = n * q + n
      BY <1>1
    <3> DEFINE p == n * q
    <3>2. a = p + r /\ p \in Nat /\ r \in Nat
      BY <1>1
    <3>3. n * (q + 1) = p + n
      BY <3>1
    <3>4. q + 1 \in Nat
      BY <1>1
    <3> HIDE DEF p, q, r
    <3>5. QED
      BY <3>2, <3>3, <3>4
  <2>3. (a + (i - r + n)) % n = i
    <3> HIDE DEF q, r
    <3>1. QED
      BY <1>2, <2>2
  <2>4. QED
    BY <2>1, <2>3
<1>5. QED
  BY <1>1, <1>3, <1>4

(* The first living one, and the next one, live if any does.               *)
LEMMA FirstAliveIs ==
    ASSUME NEW nodes1 \in Seq(G!Nodes), nodes1 # <<>>
    PROVE  answers[G!FirstAlive(nodes1)] \/ \A i \in DOMAIN nodes1 : ~answers[nodes1[i]]
<1> DEFINE up == {i \in DOMAIN nodes1 : answers[nodes1[i]]}
<1>1. up \in SUBSET Nat
  OBVIOUS
<1>2. up # {} => (CHOOSE i \in up : \A j \in up : i <= j) \in up
  <2> HIDE DEF up
  <2>1. QED
    BY <1>1, Least
<1>3. up # {} => G!FirstAlive(nodes1) = nodes1[CHOOSE i \in up : \A j \in up : i <= j]
  BY DEF G!FirstAlive
<1>4. QED
  BY <1>2, <1>3

LEMMA NextTurnIs ==
    ASSUME NEW nodes1 \in Seq(G!Nodes), nodes1 # <<>>, idx \in Nat
    PROVE  /\ G!NextTurn(nodes1) = 0 => \A i \in DOMAIN nodes1 : ~answers[nodes1[i]]
           /\ G!NextTurn(nodes1) # 0 => answers[G!At(nodes1, G!NextTurn(nodes1))]
<1> DEFINE up == {t \in G!Turns(nodes1) : answers[G!At(nodes1, t)]}
<1>0. Len(nodes1) \in Nat \ {0} /\ DOMAIN nodes1 = 1..Len(nodes1) /\ G!Turns(nodes1) = 1..Len(nodes1)
  BY DEF G!Turns
<1>1. up \in SUBSET Nat /\ 0 \notin up
  BY <1>0
<1>2. up # {} => (CHOOSE t \in up : \A u \in up : t <= u) \in up
  <2> HIDE DEF up
  <2>1. QED
    BY <1>1, Least
<1>3. G!NextTurn(nodes1) = IF up = {} THEN 0 ELSE CHOOSE t \in up : \A u \in up : t <= u
  BY DEF G!NextTurn
<1>4. CASE up = {}
  <2>1. ASSUME NEW i \in DOMAIN nodes1 PROVE ~answers[nodes1[i]]
    <3>1. i - 1 \in 0..(Len(nodes1) - 1)
      BY <1>0
    <3>2. PICK t \in 1..Len(nodes1) : (idx + t) % Len(nodes1) = i - 1
      BY <1>0, <3>1, EveryTurn
    <3>3. G!At(nodes1, t) = nodes1[i]
      <4>1. ((idx + t) % Len(nodes1)) + 1 = i
        BY <1>0, <3>2
      <4>2. QED
        BY <4>1 DEF G!At
    <3>4. QED
      BY <1>0, <1>4, <3>2, <3>3
  <2>2. QED
    BY <1>3, <1>4, <2>1
<1>5. CASE up # {}
  <2>1. G!NextTurn(nodes1) \in up
    BY <1>2, <1>3, <1>5
  <2>2. QED
    BY <1>1, <2>1
<1>6. QED
  BY <1>4, <1>5

LEMMA PicksStay ==
    ASSUME G!GroupsAssumption, GroupTypes, CallInv, G!LivingNodePicked, [G!GNext]_(G!gvars)
    PROVE  G!LivingNodePicked'
<1> USE DEF G!LivingNodePicked, G!single, G!caller, G!health, G!choice, G!setter
<1>1. ASSUME NEW c \in Dialers, G!Pick(c) PROVE G!LivingNodePicked'
  <2>1. val[c] \in Seq(G!Nodes) /\ val[c] # <<>> /\ idx \in Nat /\ DOMAIN picked = Dialers
    BY <1>1 DEF G!Pick, GroupTypes, CallInv
  <2>2. PICK n \in CASE group.type = "fallback" -> {G!FirstAlive(val[c])}
                     [] group.type = "round-robin" ->
                           {IF G!NextTurn(val[c]) = 0 THEN val[c][1] ELSE G!At(val[c], G!NextTurn(val[c]))}
                     [] group.type = "hashing" -> G!Hashed(val[c])
                     [] OTHER -> {val[c][1]} :
            picked' = [picked EXCEPT ![c] = answers[n] \/ \A i \in DOMAIN val[c] : ~answers[val[c][i]]]
    BY <1>1 DEF G!Pick
  <2>3. group.type = "fallback" => answers[n] \/ \A i \in DOMAIN val[c] : ~answers[val[c][i]]
    BY <2>1, <2>2, FirstAliveIs
  <2>4. group.type = "round-robin" => answers[n] \/ \A i \in DOMAIN val[c] : ~answers[val[c][i]]
    <3>1. CASE G!NextTurn(val[c]) = 0
      BY <2>1, <3>1, NextTurnIs
    <3>2. CASE G!NextTurn(val[c]) # 0 /\ group.type = "round-robin"
      <4>1. n = G!At(val[c], G!NextTurn(val[c]))
        BY <2>2, <3>2
      <4>2. QED
        BY <2>1, <3>2, <4>1, NextTurnIs
    <3>3. QED
      BY <3>1, <3>2
  <2>5. \A w \in Dialers \ {c} : picked'[w] = picked[w]
    BY <2>1, <2>2
  <2>6. group.type \in {"fallback", "round-robin"} => picked'[c]
    BY <2>1, <2>2, <2>3, <2>4
  <2>7. group' = group
    BY <1>1 DEF G!Pick
  <2>8. QED
    BY <2>5, <2>6, <2>7
<1>2. ASSUME NEW c \in Dialers, G!Ends(c), group' = group PROVE G!LivingNodePicked'
  BY <1>2 DEF G!Ends, GroupTypes
<1>3. ASSUME NEW c \in Dialers, G!Dial(c) \/ G!Again(c) PROVE G!LivingNodePicked'
  BY <1>2, <1>3 DEF G!Dial, G!Again, G!Stays
<1>4. CASE UNCHANGED <<group, picked>>
  BY <1>4
<1>5. QED
  BY <1>1, <1>3, <1>4
     DEF G!GNext, G!CallStep, G!SetStep, G!Tick, G!Tested, G!NewList, G!Ask, G!Take, G!Run, G!Store,
         G!Unwrap, G!Hop, G!Set, G!SetResets, G!SetSelected, G!Stays, G!Uses, G!CallerStays, G!gvars

(* A chain grows at its end.                                               *)
LEMMA ChainsStay ==
    ASSUME G!GroupsAssumption, GroupTypes, ChainInv, [G!GNext]_(G!gvars) PROVE ChainInv'
<1> USE DEF G!single, G!caller, G!health, G!choice, G!setter
<1>1. ASSUME NEW c \in Dialers, G!Hop(c) PROVE ChainInv'
  <2>1. /\ groupPc[c] = "dial" /\ group.type = "relay" /\ UNCHANGED <<group, dest>>
        /\ DOMAIN groupPc = Dialers /\ DOMAIN left = Dialers /\ DOMAIN chain = Dialers
        /\ left[c] \in Seq(G!Nodes) /\ chain[c] \in Seq(G!Nodes \X (G!Nodes \cup Dests))
    BY <1>1 DEF G!Hop, GroupTypes, G!Stays
  <2>2. \A w \in Dialers \ {c} : groupPc'[w] = groupPc[w] /\ left'[w] = left[w] /\ chain'[w] = chain[w]
    BY <1>1, <2>1 DEF G!Hop
  <2>3. CASE left[c] = <<>>
    <3>1. groupPc'[c] = (IF chain[c] = <<>> THEN "direct" ELSE "chained") /\ UNCHANGED <<left, chain>>
      BY <1>1, <2>1, <2>3 DEF G!Hop
    <3>2. QED
      BY <2>1, <2>2, <2>3, <3>1 DEF ChainInv
  <2>4. CASE left[c] # <<>> /\ groupPc' = [groupPc EXCEPT ![c] = "failed"]
    BY <2>1, <2>2, <2>4 DEF ChainInv
  <2>5. CASE left[c] # <<>> /\ groupPc' # [groupPc EXCEPT ![c] = "failed"]
    <3> DEFINE new == <<left[c][1], IF Len(left[c]) = 1 THEN dest[c] ELSE left[c][2]>>
               old == chain[c]
               k == Len(old)
    <3>1. groupPc' = groupPc /\ chain'[c] = Append(old, new) /\ left'[c] = Tail(left[c])
      BY <1>1, <2>1, <2>5 DEF G!Hop, G!Carrier
    <3>2. k \in Nat /\ Len(chain'[c]) = k + 1 /\ chain'[c][k + 1] = new /\ \A i \in 1..k : chain'[c][i] = old[i]
      <4>1. old \in Seq(G!Nodes \X (G!Nodes \cup Dests) \cup {new})
            /\ new \in G!Nodes \X (G!Nodes \cup Dests) \cup {new}
        BY <2>1
      <4> HIDE DEF new, old
      <4>2. QED
        BY <3>1, <4>1, AppendProperties DEF k
    <3>3. Len(left[c]) \in Nat \ {0} /\ (left'[c] = <<>> <=> Len(left[c]) = 1)
          /\ (left'[c] # <<>> => left'[c][1] = left[c][2])
      <4>1. Len(left[c]) \in Nat \ {0} /\ Len(left'[c]) = Len(left[c]) - 1 /\ left'[c] \in Seq(G!Nodes)
        BY <2>1, <2>5, <3>1
      <4>2. left'[c] = <<>> <=> Len(left'[c]) = 0
        BY <4>1, EmptySeq
      <4>3. Len(left[c]) # 1 => left'[c][1] = left[c][2]
        BY <2>1, <2>5, <3>1, <4>1
      <4>4. QED
        BY <4>1, <4>2, <4>3
    <3>4. chain'[c][Len(chain'[c])][2] = IF left'[c] = <<>> THEN dest[c] ELSE left'[c][1]
      BY <3>2, <3>3
    <3>5. ASSUME NEW i \in 1..(Len(chain'[c]) - 1) PROVE chain'[c][i][2] = chain'[c][i + 1][1]
      <4>0. i \in 1..k
        BY <3>2
      <4>1. CASE i < k
        <5>1. i \in 1..(k - 1) /\ i + 1 \in 1..k
          BY <3>2, <4>0, <4>1
        <5>2. old[i][2] = old[i + 1][1]
          BY <2>1, <5>1 DEF ChainInv
        <5>3. QED
          BY <3>2, <4>0, <5>1, <5>2
      <4>2. CASE i = k
        <5>1. old # <<>>
          BY <2>1, <4>0, <4>2
        <5>2. old[k][2] = left[c][1]
          BY <2>1, <2>5, <5>1 DEF ChainInv
        <5>3. chain'[c][k + 1][1] = left[c][1] /\ chain'[c][k] = old[k]
          BY <3>2, <4>0, <4>2
        <5>4. QED
          BY <4>2, <5>2, <5>3
      <4>3. QED
        BY <3>2, <4>0, <4>1, <4>2
    <3>6. groupPc'[c] = "dial"
      BY <2>1, <3>1
    <3> HIDE DEF new, old, k
    <3>7. QED
      BY <2>1, <2>2, <3>4, <3>5, <3>6 DEF ChainInv
  <2>6. QED
    BY <2>3, <2>4, <2>5
<1>2. ASSUME NEW c \in Dialers, UNCHANGED <<group, dest>>,
             \A w \in Dialers \ {c} : groupPc'[w] = groupPc[w] /\ left'[w] = left[w] /\ chain'[w] = chain[w],
             group.type # "relay" \/ groupPc'[c] \notin {"dial", "chained"} \/ chain'[c] = <<>>,
             groupPc'[c] # "chained"
      PROVE  ChainInv'
  <2>1. Len(<<>>) = 0
    OBVIOUS
  <2>2. chain'[c] = <<>> => \A i \in 1..(Len(chain'[c]) - 1) : chain'[c][i][2] = chain'[c][i + 1][1]
    BY <2>1
  <2>3. QED
    BY <1>2, <2>2 DEF ChainInv
<1>3. ASSUME NEW c \in Dialers, G!Unwrap(c) PROVE ChainInv'
  <2>1. /\ groupPc' = [groupPc EXCEPT ![c] = "dial"] /\ chain' = [chain EXCEPT ![c] = <<>>]
        /\ \A w \in Dialers \ {c} : left'[w] = left[w]
        /\ UNCHANGED <<group, dest>>
    BY <1>3 DEF G!Unwrap, GroupTypes, G!Stays
  <2>2. QED
    BY <1>2, <2>1 DEF GroupTypes
<1>4. ASSUME NEW c \in Dialers, G!Ends(c), group' = group PROVE ChainInv'
  <2>1. /\ groupPc' = [groupPc EXCEPT ![c] = "idle"] /\ chain' = [chain EXCEPT ![c] = <<>>]
        /\ left' = [left EXCEPT ![c] = <<>>] /\ UNCHANGED <<group, dest>>
    BY <1>4 DEF G!Ends
  <2>2. QED
    BY <1>2, <2>1 DEF GroupTypes
<1>5. ASSUME NEW c \in Dialers, G!Dial(c) \/ G!Again(c) PROVE ChainInv'
  BY <1>4, <1>5 DEF G!Dial, G!Again, G!Stays
<1>6. ASSUME NEW c \in Dialers, G!Pick(c) PROVE ChainInv'
  <2>1. group.type # "relay" /\ group' = group /\ \A w \in Dialers : groupPc'[w] \in {groupPc[w], "dial"}
    BY <1>6 DEF G!Pick, GroupTypes
  <2>2. QED
    BY <2>1 DEF ChainInv
<1>7. ASSUME NEW c \in Dialers, G!Ask(c) PROVE ChainInv'
  <2>1. /\ groupPc'[c] \notin {"dial", "chained"} /\ \A w \in Dialers \ {c} : groupPc'[w] = groupPc[w]
        /\ UNCHANGED <<group, dest, left, chain>>
    BY <1>7 DEF G!Ask, GroupTypes, G!Stays
  <2>2. QED
    BY <1>2, <2>1
<1>8. ASSUME NEW c \in Dialers, G!Take(c) \/ G!Store(c) PROVE ChainInv'
  <2>1. /\ groupPc' = [groupPc EXCEPT ![c] = "got"] /\ UNCHANGED <<group, dest, left, chain>>
    BY <1>8 DEF G!Take, G!Store, G!Stays
  <2>2. QED
    BY <1>2, <2>1 DEF GroupTypes
<1>9. ASSUME NEW c \in Dialers, G!Run(c) PROVE ChainInv'
  <2>1. UNCHANGED <<group, dest, left, chain>>
        /\ \A w \in Dialers : groupPc'[w] \in {"store", "got", groupPc[w]}
    BY <1>9 DEF G!Run
  <2>2. QED
    BY <2>1 DEF ChainInv
<1>10. CASE UNCHANGED <<group, dest, left, chain, groupPc>>
  BY <1>10 DEF ChainInv
<1>11. QED
  BY <1>1, <1>3, <1>5, <1>6, <1>7, <1>8, <1>9, <1>10
     DEF G!GNext, G!CallStep, G!SetStep, G!Tick, G!Tested, G!NewList, G!Set, G!SetResets, G!SetSelected,
         G!Uses, G!CallerStays, G!gvars

(* What the file will hold is what is selected.                            *)
LEMMA StoresStay ==
    ASSUME G!GroupsAssumption, GroupTypes, StoreInv, [G!GNext]_(G!gvars) PROVE StoreInv'
<1> USE DEF StoreInv, Setting, G!single, G!caller, G!health, G!choice, G!setter
<1>1. DOMAIN setpc = Setters /\ DOMAIN want = Setters
  BY DEF GroupTypes
<1>2. ASSUME NEW s \in Setters, G!Set(s) PROVE StoreInv'
  <2>1. setpc[s] = "idle" /\ stored' = stored
    BY <1>2 DEF G!Set
  <2>2. CASE setpc' = [setpc EXCEPT ![s] = "over"]
    <3>1. UNCHANGED <<want, selected, raced>>
      BY <1>1, <1>2, <2>2 DEF G!Set
    <3>2. want[s] = G!None
      BY <2>1
    <3>3. QED
      BY <1>1, <2>1, <2>2, <3>1, <3>2
  <2>3. CASE setpc' # [setpc EXCEPT ![s] = "over"]
    <3>1. /\ setpc' = [setpc EXCEPT ![s] = "reset"] /\ want' = [want EXCEPT ![s] = selected']
          /\ raced' = (raced \/ \E o \in Setters : setpc[o] \in {"reset", "store"})
      BY <1>2, <2>3 DEF G!Set
    <3>2. QED
      BY <1>1, <2>1, <3>1
  <2>4. QED
    BY <2>2, <2>3
<1>3. ASSUME NEW s \in Setters, G!SetResets(s) PROVE StoreInv'
  BY <1>1, <1>3 DEF G!SetResets
<1>4. ASSUME NEW s \in Setters, G!SetSelected(s) PROVE StoreInv'
  BY <1>1, <1>4 DEF G!SetSelected, G!Written
<1>5. CASE UNCHANGED <<setpc, want, selected, stored, raced>>
  BY <1>5
<1>6. QED
  BY <1>2, <1>3, <1>4, <1>5
     DEF G!GNext, G!CallStep, G!SetStep, G!Tick, G!Tested, G!NewList, G!Ask, G!Take, G!Run, G!Store, G!Pick,
         G!Unwrap, G!Dial, G!Hop, G!Again, G!Stays, G!gvars

(* The start.                                                              *)
LEMMA GroupsInit == ASSUME G!GroupsAssumption, G!Init PROVE GroupInv
<1>1. /\ group.lists \in Seq(Seq(G!Nodes) \ {<<>>}) \ {<<>>} /\ group \in GroupSetups
      /\ Len(group.lists) \in Nat \ {0} /\ members = 1
  BY DEF G!Init, G!GroupsAssumption
<1>2. members \in 1..Len(group.lists)
  BY <1>1
<1>3. GroupTypes
  <2>1. <<>> \in Seq(G!Nodes) /\ <<>> \in Seq(G!Nodes \X (G!Nodes \cup Dests))
    BY EmptySeq
  <2>2. dest \in [Dialers -> Dests]
    BY DEF G!Init, G!GroupsAssumption
  <2>3. /\ now \in Nat /\ Wait <= now /\ last \in 0..now /\ madeAt \in 0..now
    BY DEF G!Init, G!GroupsAssumption
  <2>4. /\ inner \in [last : Nat, value : Seq(G!Nodes)] /\ inner.last <= now /\ inner.last = 0
    <3>1. inner = [last |-> 0, value |-> <<>>]
      BY DEF G!Init
    <3>2. 0 <= now
      BY <2>3
    <3>3. QED
      BY <2>1, <3>1, <3>2
  <2>5. /\ groupPc \in [Dialers -> GroupPlaces] /\ val \in [Dialers -> Seq(G!Nodes)]
        /\ started \in [Dialers -> Nat] /\ asked \in [Dialers -> Nat] /\ made \in [Dialers -> Nat]
        /\ DOMAIN how = Dialers /\ DOMAIN due = Dialers
        /\ left \in [Dialers -> Seq(G!Nodes)]
        /\ chain \in [Dialers -> Seq(G!Nodes \X (G!Nodes \cup Dests))]
        /\ DOMAIN picked = Dialers
    BY <2>1 DEF G!Init, GroupPlaces
  <2>6. /\ answers \in [G!Nodes -> BOOLEAN] /\ delay \in [G!Nodes -> Nat]
        /\ fastNode \in G!Nodes \cup {G!None} /\ idx \in Nat
        /\ DOMAIN setpc = Setters /\ DOMAIN want = Setters
        /\ result \in Seq(G!Nodes) /\ leader \in Dialers \cup {G!None}
    BY <2>1 DEF G!Init
  <2>7. QED
    BY <1>1, <1>2, <2>2, <2>3, <2>4, <2>5, <2>6 DEF GroupTypes
<1>4. CallInv
  BY DEF G!Init, CallInv, G!GroupsAssumption
<1>5. FollowInv
  <2>1. /\ settled = selected /\ last = 0 /\ \A c \in Dialers : groupPc[c] = "idle"
        /\ selected = NameOf[group.lists[1][1]]
    BY DEF G!Init
  <2>2. G!Members = group.lists[1] /\ 1 \in DOMAIN G!Members
    BY <1>1, <1>3, MembersAre DEF G!Members
  <2>3. G!Named(G!Members, selected) # {}
    BY <2>1, <2>2 DEF G!Named
  <2>4. QED
    BY <2>1, <2>3 DEF FollowInv
<1>6. ChainInv /\ StoreInv /\ G!LivingNodePicked
  BY DEF G!Init, ChainInv, StoreInv, Setting, G!LivingNodePicked
<1>7. QED
  BY <1>3, <1>4, <1>5, <1>6 DEF GroupInv

LEMMA GroupsStep ==
    ASSUME G!GroupsAssumption, GroupInv, [G!GNext]_(G!gvars) PROVE GroupInv'
  BY GroupTypesStay, CallsStay, FollowStays, ChainsStay, StoresStay, PicksStay DEF GroupInv

LEMMA GroupsHold ==
    ASSUME G!GroupsAssumption, GroupInv
    PROVE  /\ G!TypeOK /\ G!FreshEnough /\ G!SelectionFollowed /\ G!LivingNodePicked
           /\ G!ChainInOrder /\ G!StoredIsSelected
<1> USE DEF GroupInv
<1>1. G!TypeOK
  BY DEF CallInv, G!TypeOK, G!GroupsAssumption
<1>2. G!FreshEnough
  <2>1. ASSUME NEW c \in Dialers, groupPc[c] = "got", how[c] = "cached" PROVE made[c] + Wait > asked[c]
    <3>1. asked[c] < made[c] + Wait
      BY <2>1 DEF CallInv
    <3>2. asked[c] \in Nat /\ made[c] \in Nat /\ Wait \in Nat
      BY DEF GroupTypes, G!GroupsAssumption
    <3>3. QED
      BY <3>1, <3>2
  <2>2. QED
    BY <2>1 DEF G!FreshEnough
<1>3. G!SelectionFollowed
  BY DEF FollowInv, First, G!SelectionFollowed
<1>4. G!ChainInOrder
  <2>1. ASSUME NEW c \in Dialers, groupPc[c] = "chained" PROVE group.type = "relay"
    BY <2>1 DEF ChainInv
  <2>2. QED
    BY <2>1 DEF ChainInv, G!ChainInOrder
<1>5. G!StoredIsSelected
  BY DEF StoreInv, Setting, G!StoredIsSelected
<1>6. QED
  BY <1>1, <1>2, <1>3, <1>4, <1>5

(* A look-up of the fastest keeps no node that a living one of the list is *)
(* faster than by more than the tolerance, however the sum wraps.          *)
LEMMA FastestStep ==
    ASSUME G!GroupsAssumption, GroupInv, [G!GNext]_(G!gvars)
    PROVE  [\A c \in Dialers : group.type = "url-test" /\ groupPc[c] = "run" /\ groupPc'[c] = "store" =>
                \A n \in G!Listed(inner'.value) : answers[n] =>
                    G!LastDelay(val'[c][1]) <= G!LastDelay(n) + group.tolerance]_(G!gvars)
<1> USE DEF GroupInv
<1> SUFFICES ASSUME NEW c \in Dialers, group.type = "url-test", groupPc[c] = "run", groupPc'[c] = "store",
                    NEW n \in G!Listed(inner'.value), answers[n]
             PROVE  G!LastDelay(val'[c][1]) <= G!LastDelay(n) + group.tolerance
  OBVIOUS
<1>1. \A w \in Dialers : groupPc[w] = "run" => w = c
  BY DEF CallInv
<1>2. G!Run(c)
  <2>1. DOMAIN groupPc = Dialers
    BY DEF GroupTypes
  <2>2. ASSUME NEW w \in Dialers, G!Ask(w) \/ G!Take(w) \/ G!Store(w) \/ G!Pick(w) \/ G!Unwrap(w) \/ G!Dial(w)
                                  \/ G!Hop(w) \/ G!Again(w)
        PROVE  groupPc'[c] # "store"
    <3>1. groupPc[w] # "run"
      BY <2>2 DEF G!Ask, G!Take, G!Store, G!Pick, G!Unwrap, G!Dial, G!Hop, G!Again
    <3>2. w # c
      BY <3>1
    <3>3. groupPc'[c] = groupPc[c]
      BY <2>1, <2>2, <3>2 DEF G!Ask, G!Take, G!Store, G!Pick, G!Unwrap, G!Dial, G!Hop, G!Again, G!Ends
    <3>4. QED
      BY <3>3
  <2>3. ASSUME UNCHANGED groupPc PROVE FALSE
    BY <2>3
  <2>4. ASSUME NEW w \in Dialers, G!Run(w) PROVE w = c
    BY <1>1, <2>4 DEF G!Run
  <2>5. ASSUME G!Tick \/ G!Tested \/ G!NewList \/ (\E s \in Setters : G!SetStep(s)) \/ UNCHANGED (G!gvars) PROVE FALSE
    BY <2>3, <2>5 DEF G!Tick, G!Tested, G!NewList, G!SetStep, G!Set, G!SetResets, G!SetSelected, G!single, G!caller,
                      G!CallerStays, G!gvars
  <2>6. QED
    BY <2>2, <2>4, <2>5 DEF G!GNext, G!CallStep
<1> DEFINE l == G!InnerList
           D(m) == G!LastDelay(m)
<1>3. inner'.value = l /\ fastNode' = IF G!Keeps(l) THEN fastNode ELSE G!Fastest(l)
  BY <1>2 DEF G!Run, G!RunFast
<1>4. val'[c] = <<fastNode'>>
  BY <1>2 DEF G!Run, G!GetsValue
<1>5. l \in Seq(G!Nodes) /\ l # <<>>
  <2>1. CASE now < inner.last + InnerWait
    <3>1. now \in Nat /\ Wait <= now /\ Wait \in Nat /\ InnerWait \in 0..Wait /\ inner.last \in Nat
      BY DEF GroupTypes, G!GroupsAssumption
    <3>2. inner.last # 0
      BY <2>1, <3>1
    <3>3. QED
      BY <2>1, <3>2 DEF G!InnerList, GroupTypes
  <2>2. CASE ~(now < inner.last + InnerWait)
    BY <2>2, MembersAre DEF G!InnerList
  <2>3. QED
    BY <2>1, <2>2
<1>6. PICK i \in DOMAIN l : n = l[i]
  BY <1>3 DEF G!Listed
<1>7. G!Fastest(l) \in G!Nodes /\ D(G!Fastest(l)) <= D(n)
  BY <1>5, <1>6, FastestIs
<1>8. \A m \in G!Nodes : D(m) \in Nat
  BY DEF G!LastDelay, GroupTypes, G!GroupsAssumption
<1>9. n \in G!Nodes /\ group.tolerance \in Nat /\ Top + 1 \in Nat \ {0}
  BY <1>5, <1>6 DEF GroupTypes, G!GroupsAssumption
<1>10. CASE G!Keeps(l)
  <2>1. fastNode \in G!Nodes /\ D(fastNode) <= (D(G!Fastest(l)) + group.tolerance) % (Top + 1)
    BY <1>10 DEF G!Keeps, GroupTypes
  <2>2. \A a \in Nat, b \in Nat \ {0} : a % b \in Nat /\ a % b <= a
    <3>1. ASSUME NEW a \in Nat, NEW b \in Nat \ {0} PROVE a % b \in Nat /\ a % b <= a
      <4>1. a = b * (a \div b) + (a % b) /\ a \div b \in Nat /\ a % b \in 0..(b - 1)
        OBVIOUS
      <4>2. b * (a \div b) \in Nat
        BY <4>1
      <4>3. QED
        BY <4>1, <4>2
    <3>2. QED
      BY <3>1
  <2>3. D(fastNode) \in Nat /\ D(G!Fastest(l)) \in Nat /\ D(n) \in Nat
    BY <1>7, <1>8, <1>9, <2>1
  <2>4. (D(G!Fastest(l)) + group.tolerance) % (Top + 1) <= D(G!Fastest(l)) + group.tolerance
        /\ (D(G!Fastest(l)) + group.tolerance) % (Top + 1) \in Nat
    <3> DEFINE a == D(G!Fastest(l)) + group.tolerance
               b == Top + 1
    <3>1. a \in Nat /\ b \in Nat \ {0}
      BY <1>9, <2>3
    <3> HIDE DEF a, b
    <3>2. a % b <= a /\ a % b \in Nat
      BY <2>2, <3>1
    <3>3. QED
      BY <3>2 DEF a, b
  <2> DEFINE x == D(fastNode)
             y == D(G!Fastest(l))
             z == (y + group.tolerance) % (Top + 1)
  <2>5. x <= z /\ z <= y + group.tolerance /\ y <= D(n) /\ x \in Nat /\ y \in Nat /\ z \in Nat /\ D(n) \in Nat
    BY <1>7, <2>1, <2>3, <2>4
  <2>6. x <= D(n) + group.tolerance
    <3> HIDE DEF x, y, z, D
    <3>1. QED
      BY <1>9, <2>5
  <2>7. QED
    BY <1>3, <1>4, <1>10, <2>6
<1>11. CASE ~G!Keeps(l)
  <2>1. val'[c][1] = G!Fastest(l)
    BY <1>3, <1>4, <1>11
  <2>2. D(G!Fastest(l)) <= D(n) + group.tolerance
    <3>1. D(G!Fastest(l)) \in Nat /\ D(n) \in Nat
      BY <1>7, <1>8, <1>9
    <3> HIDE DEF D
    <3>2. QED
      BY <1>7, <1>9, <3>1
  <2>3. QED
    BY <2>1, <2>2
<1>12. QED
  BY <1>10, <1>11

(* Of every group: what a caller is given is fresh, a selection is         *)
(* followed, a living node is picked if there is one, a chain is in order, *)
(* and what is stored is what is selected; one look-up runs at a time.     *)
THEOREM GroupsFollowTheirNodes ==
    ASSUME G!GroupsAssumption
    PROVE  G!Spec => [](/\ G!TypeOK /\ G!FreshEnough /\ G!SelectionFollowed /\ G!LivingNodePicked
                        /\ G!ChainInOrder /\ G!StoredIsSelected)
<1>1. G!Init => GroupInv
  BY GroupsInit
<1>2. GroupInv /\ [G!GNext]_(G!gvars) => GroupInv'
  BY GroupsStep
<1>3. GroupInv => /\ G!TypeOK /\ G!FreshEnough /\ G!SelectionFollowed /\ G!LivingNodePicked
                  /\ G!ChainInOrder /\ G!StoredIsSelected
  BY GroupsHold
<1>4. QED
  BY <1>1, <1>2, <1>3, PTL DEF G!Spec

(* A group of type url-test never keeps a node that a living one of its    *)
(* list is faster than by more than the tolerance.                         *)
THEOREM NoneIsMuchFaster == ASSUME G!GroupsAssumption PROVE G!Spec => G!NoneMuchFaster
<1>1. G!Init => GroupInv
  BY GroupsInit
<1>2. GroupInv /\ [G!GNext]_(G!gvars) => GroupInv'
  BY GroupsStep
<1>3. GroupInv /\ [G!GNext]_(G!gvars) =>
        [\A c \in Dialers : group.type = "url-test" /\ groupPc[c] = "run" /\ groupPc'[c] = "store" =>
            \A n \in G!Listed(inner'.value) : answers[n] =>
                G!LastDelay(val'[c][1]) <= G!LastDelay(n) + group.tolerance]_(G!gvars)
  BY FastestStep
<1>4. QED
  BY <1>1, <1>2, <1>3, PTL DEF G!Spec, G!NoneMuchFaster

-----------------------------------------------------------------------------
(* FAKE ADDRESSES: any names, sizes and ranges.                            *)

(* An entry taken out of the list, and one moved to its end.               *)
LEMMA CutIs ==
    ASSUME NEW E, NEW l \in Seq(E), NEW p \in 1..Len(l)
    PROVE  /\ F!Cut(l, p) \in Seq(E) /\ Len(F!Cut(l, p)) = Len(l) - 1
           /\ \A i \in 1..(Len(l) - 1) : F!Cut(l, p)[i] = IF i < p THEN l[i] ELSE l[i + 1]
<1> DEFINE a == SubSeq(l, 1, p - 1)
           b == SubSeq(l, p + 1, Len(l))
<1>1. Len(l) \in Nat /\ p \in Nat /\ 1 <= p /\ p <= Len(l) /\ \A i \in 1..Len(l) : l[i] \in E
  BY LenProperties
<1>2. a \in Seq(E) /\ Len(a) = p - 1 /\ \A i \in 1..(p - 1) : a[i] = l[i]
  <2>1. \A i \in 1..(p - 1) : l[i] \in E
    BY <1>1
  <2>2. /\ a \in Seq(E) /\ Len(a) = IF 1 <= p - 1 THEN (p - 1) - 1 + 1 ELSE 0
        /\ \A i \in 1..((p - 1) - 1 + 1) : a[i] = l[1 + i - 1]
    BY <1>1, <2>1, SubSeqProperties
  <2> HIDE DEF a
  <2>3. QED
    BY <1>1, <2>2
<1>3. b \in Seq(E) /\ Len(b) = Len(l) - p /\ \A i \in 1..(Len(l) - p) : b[i] = l[i + p]
  <2>1. \A i \in (p + 1)..Len(l) : l[i] \in E
    BY <1>1
  <2>2. /\ b \in Seq(E) /\ Len(b) = IF p + 1 <= Len(l) THEN Len(l) - (p + 1) + 1 ELSE 0
        /\ \A i \in 1..(Len(l) - (p + 1) + 1) : b[i] = l[(p + 1) + i - 1]
    BY <1>1, <2>1, SubSeqProperties
  <2> HIDE DEF b
  <2>3. QED
    BY <1>1, <2>2
<1> HIDE DEF a, b
<1>4. /\ a \o b \in Seq(E) /\ Len(a \o b) = Len(a) + Len(b)
      /\ \A i \in 1..(Len(a) + Len(b)) : (a \o b)[i] = IF i <= Len(a) THEN a[i] ELSE b[i - Len(a)]
  BY <1>2, <1>3, ConcatProperties
<1>5. F!Cut(l, p) = a \o b
  BY DEF F!Cut, a, b
<1>6. ASSUME NEW i \in 1..(Len(l) - 1) PROVE (a \o b)[i] = IF i < p THEN l[i] ELSE l[i + 1]
  <2>1. i \in 1..(Len(a) + Len(b)) /\ i \in Nat
    BY <1>1, <1>2, <1>3
  <2>2. CASE i < p
    BY <1>1, <1>2, <1>4, <2>1, <2>2
  <2>3. CASE ~(i < p)
    <3>1. i - Len(a) = i - p + 1 /\ i - p + 1 \in 1..(Len(l) - p) /\ (i - p + 1) + p = i + 1
      BY <1>1, <1>2, <2>1, <2>3
    <3>2. (a \o b)[i] = b[i - Len(a)]
      BY <1>1, <1>2, <1>4, <2>1, <2>3
    <3>3. QED
      BY <1>3, <2>3, <3>1, <3>2
  <2>4. QED
    BY <2>2, <2>3
<1>7. Len(a) + Len(b) = Len(l) - 1
  BY <1>1, <1>2, <1>3
<1> DEFINE c == a \o b
<1> HIDE DEF c
<1>8. c \in Seq(E) /\ Len(c) = Len(l) - 1
  BY <1>4, <1>7 DEF c
<1>9. \A i \in 1..(Len(l) - 1) : c[i] = IF i < p THEN l[i] ELSE l[i + 1]
  BY <1>6 DEF c
<1>10. F!Cut(l, p) = c
  BY <1>5 DEF c
<1>11. QED
  BY <1>8, <1>9, <1>10

LEMMA MovedIs ==
    ASSUME NEW E, NEW l \in Seq(E), NEW p \in 1..Len(l)
    PROVE  /\ Append(F!Cut(l, p), l[p]) \in Seq(E) /\ Len(Append(F!Cut(l, p), l[p])) = Len(l)
           /\ \A i \in 1..Len(l) : Append(F!Cut(l, p), l[p])[i] =
                IF i < p THEN l[i] ELSE IF i < Len(l) THEN l[i + 1] ELSE l[p]
<1> DEFINE c == F!Cut(l, p)
<1>1. Len(l) \in Nat /\ p \in Nat /\ 1 <= p /\ p <= Len(l) /\ l[p] \in E
  BY LenProperties
<1>2. /\ c \in Seq(E) /\ Len(c) = Len(l) - 1
      /\ \A i \in 1..(Len(l) - 1) : c[i] = IF i < p THEN l[i] ELSE l[i + 1]
  BY CutIs
<1> HIDE DEF c
<1>3. /\ Append(c, l[p]) \in Seq(E) /\ Len(Append(c, l[p])) = Len(c) + 1
      /\ \A i \in 1..Len(c) : Append(c, l[p])[i] = c[i]
      /\ Append(c, l[p])[Len(c) + 1] = l[p]
  BY <1>1, <1>2, AppendProperties
<1>4. ASSUME NEW i \in 1..Len(l)
      PROVE  Append(c, l[p])[i] = IF i < p THEN l[i] ELSE IF i < Len(l) THEN l[i + 1] ELSE l[p]
  <2>1. CASE i < Len(l)
    <3>1. i \in 1..(Len(l) - 1) /\ i \in 1..Len(c)
      BY <1>1, <1>2, <2>1
    <3>2. QED
      BY <1>2, <1>3, <2>1, <3>1
  <2>2. CASE ~(i < Len(l))
    <3>1. i = Len(c) + 1 /\ ~(i < p)
      BY <1>1, <1>2, <2>2
    <3>2. QED
      BY <1>3, <2>2, <3>1
  <2>3. QED
    BY <2>1, <2>2
<1>5. Append(c, l[p]) \in Seq(E) /\ Len(Append(c, l[p])) = Len(l)
  BY <1>1, <1>2, <1>3
<1>6. QED
  BY <1>4, <1>5 DEF c

(* What an entry is, and a list of entries.                                *)
FakeEntries(r) == {F!Entry(h, a) : h \in FakeHosts, a \in 0..(r - 1)}
                  \cup {F!Entry(F!Key(a), h) : h \in FakeHosts, a \in 0..(r - 1)}
OnceEach(l) == \A i, j \in 1..Len(l) : l[i].key = l[j].key => i = j

(* What a touch does to a list that holds each key once.                   *)
LEMMA PlaceIs ==
    ASSUME NEW E, NEW l \in Seq(E), OnceEach(l), NEW p \in 1..Len(l), NEW k, l[p].key = k
    PROVE  F!Holds(l, k) /\ F!Place(l, k) = p /\ F!ValueOf(l, k) = l[p].value
<1>1. DOMAIN l = 1..Len(l)
  BY LenProperties
<1>2. F!Holds(l, k)
  BY <1>1 DEF F!Holds, F!IsKey
<1>3. F!Place(l, k) \in 1..Len(l) /\ l[F!Place(l, k)].key = k
  BY <1>1 DEF F!Place, F!IsKey
<1>4. F!Place(l, k) = p
  BY <1>3 DEF OnceEach
<1>5. QED
  BY <1>2, <1>4 DEF F!ValueOf

LEMMA HeldIs ==
    ASSUME NEW E, NEW l \in Seq(E), NEW k
    PROVE  F!Holds(l, k) <=> \E i \in 1..Len(l) : l[i].key = k
  BY LenProperties DEF F!Holds, F!IsKey

LEMMA TouchIs ==
    ASSUME NEW r, NEW l \in Seq(FakeEntries(r)), OnceEach(l), NEW p \in 1..Len(l)
    PROVE  F!Touch(l, l[p].key) = Append(F!Cut(l, p), l[p])
<1> DEFINE k == l[p].key
<1>1. F!Holds(l, k) /\ F!Place(l, k) = p /\ F!ValueOf(l, k) = l[p].value
  BY PlaceIs
<1>2. l[p] \in FakeEntries(r)
  BY ElementOfSeq
<1>3. F!Entry(l[p].key, l[p].value) = l[p]
  BY <1>2 DEF FakeEntries, F!Entry
<1>4. QED
  BY <1>1, <1>3 DEF F!Touch, F!Without

LEMMA TouchKeeps ==
    ASSUME NEW r, NEW l \in Seq(FakeEntries(r)), OnceEach(l), NEW k
    PROVE  /\ F!Touch(l, k) \in Seq(FakeEntries(r)) /\ OnceEach(F!Touch(l, k))
           /\ Len(F!Touch(l, k)) = Len(l)
<1>1. CASE F!Holds(l, k)
  <2>1. PICK p \in 1..Len(l) : l[p].key = k
    BY <1>1, HeldIs
  <2> DEFINE q == F!Touch(l, k)
  <2>2. q = Append(F!Cut(l, p), l[p])
    BY <2>1, TouchIs
  <2>3. /\ q \in Seq(FakeEntries(r)) /\ Len(q) = Len(l)
        /\ \A i \in 1..Len(l) : q[i] = IF i < p THEN l[i] ELSE IF i < Len(l) THEN l[i + 1] ELSE l[p]
    BY <2>2, MovedIs
  <2> HIDE DEF q
  <2> DEFINE From(i) == IF i < p THEN i ELSE IF i < Len(l) THEN i + 1 ELSE p
  <2>4. Len(l) \in Nat
    BY LenProperties
  <2>5. ASSUME NEW i \in 1..Len(l) PROVE From(i) \in 1..Len(l) /\ q[i] = l[From(i)]
    BY <2>3, <2>4
  <2>6. ASSUME NEW i \in 1..Len(l), NEW j \in 1..Len(l), From(i) = From(j) PROVE i = j
    BY <2>4, <2>6
  <2> HIDE DEF From
  <2>7. OnceEach(q)
    <3> SUFFICES ASSUME NEW i \in 1..Len(q), NEW j \in 1..Len(q), q[i].key = q[j].key PROVE i = j
      BY DEF OnceEach
    <3>1. /\ From(i) \in 1..Len(l) /\ q[i] = l[From(i)]
          /\ From(j) \in 1..Len(l) /\ q[j] = l[From(j)]
      BY <2>3, <2>5
    <3>3. l[From(i)].key = l[From(j)].key
      BY <3>1
    <3>4. From(i) = From(j)
      BY <3>1, <3>3 DEF OnceEach
    <3>2. QED
      BY <2>3, <2>6, <3>4
  <2>8. QED
    BY <2>3, <2>7 DEF q
<1>2. CASE ~F!Holds(l, k)
  BY <1>2 DEF F!Touch
<1>3. QED
  BY <1>1, <1>2

(* What a removal and an insertion do to it.                               *)
LEMMA WithoutIs ==
    ASSUME NEW E, NEW l \in Seq(E), OnceEach(l), NEW k
    PROVE  /\ F!Without(l, k) \in Seq(E) /\ OnceEach(F!Without(l, k))
           /\ Len(F!Without(l, k)) = IF F!Holds(l, k) THEN Len(l) - 1 ELSE Len(l)
           /\ \A i \in 1..Len(F!Without(l, k)) : F!Without(l, k)[i].key # k
<1>1. CASE F!Holds(l, k)
  <2>1. PICK p \in 1..Len(l) : l[p].key = k
    BY <1>1, HeldIs
  <2> DEFINE q == F!Without(l, k)
  <2>2. q = F!Cut(l, p)
    BY <1>1, <2>1, PlaceIs DEF F!Without
  <2>3. /\ q \in Seq(E) /\ Len(q) = Len(l) - 1
        /\ \A i \in 1..(Len(l) - 1) : q[i] = IF i < p THEN l[i] ELSE l[i + 1]
    BY <2>2, CutIs
  <2> HIDE DEF q
  <2> DEFINE From(i) == IF i < p THEN i ELSE i + 1
  <2>4. Len(l) \in Nat
    BY LenProperties
  <2>5. ASSUME NEW i \in 1..Len(q) PROVE From(i) \in 1..Len(l) /\ q[i] = l[From(i)] /\ From(i) # p
    BY <2>3, <2>4
  <2>6. ASSUME NEW i \in 1..Len(q), NEW j \in 1..Len(q), From(i) = From(j) PROVE i = j
    BY <2>3, <2>4, <2>6
  <2> HIDE DEF From
  <2>7. OnceEach(q)
    <3> SUFFICES ASSUME NEW i \in 1..Len(q), NEW j \in 1..Len(q), q[i].key = q[j].key PROVE i = j
      BY DEF OnceEach
    <3>1. From(i) = From(j)
      BY <2>5 DEF OnceEach
    <3>2. QED
      BY <2>6, <3>1
  <2>8. ASSUME NEW i \in 1..Len(q) PROVE q[i].key # k
    BY <2>1, <2>5 DEF OnceEach
  <2>9. QED
    BY <1>1, <2>3, <2>7, <2>8 DEF q
<1>2. CASE ~F!Holds(l, k)
  BY <1>2, HeldIs DEF F!Without
<1>3. QED
  BY <1>1, <1>2

LEMMA AppendIs ==
    ASSUME NEW E, NEW l \in Seq(E), OnceEach(l), NEW e \in E, \A i \in 1..Len(l) : l[i].key # e.key
    PROVE  /\ Append(l, e) \in Seq(E) /\ OnceEach(Append(l, e)) /\ Len(Append(l, e)) = Len(l) + 1
           /\ \A i \in 1..Len(l) : Append(l, e)[i] = l[i]
           /\ Append(l, e)[Len(l) + 1] = e
<1> DEFINE q == Append(l, e)
<1>1. /\ q \in Seq(E) /\ Len(q) = Len(l) + 1 /\ \A i \in 1..Len(l) : q[i] = l[i]
      /\ q[Len(l) + 1] = e
  BY AppendProperties
<1>2. Len(l) \in Nat
  BY LenProperties
<1> HIDE DEF q
<1>3. OnceEach(q)
  <2> SUFFICES ASSUME NEW i \in 1..Len(q), NEW j \in 1..Len(q), q[i].key = q[j].key PROVE i = j
    BY DEF OnceEach
  <2>1. \A x \in 1..Len(q) : x \in 1..Len(l) \/ x = Len(l) + 1
    BY <1>1, <1>2
  <2>2. QED
    BY <1>1, <2>1 DEF OnceEach
<1>4. QED
  BY <1>1, <1>3 DEF q

LEMMA TailIs ==
    ASSUME NEW E, NEW l \in Seq(E), OnceEach(l), l # <<>>
    PROVE  Tail(l) \in Seq(E) /\ OnceEach(Tail(l)) /\ Len(Tail(l)) = Len(l) - 1
           /\ \A i \in 1..(Len(l) - 1) : Tail(l)[i] = l[i + 1]
<1> DEFINE q == Tail(l)
<1>1. q \in Seq(E) /\ Len(q) = Len(l) - 1 /\ \A i \in 1..Len(q) : q[i] = l[i + 1]
  BY HeadTailProperties
<1>2. Len(l) \in Nat
  BY LenProperties
<1> HIDE DEF q
<1>3. OnceEach(q)
  <2> SUFFICES ASSUME NEW i \in 1..Len(q), NEW j \in 1..Len(q), q[i].key = q[j].key PROVE i = j
    BY DEF OnceEach
  <2>1. i + 1 \in 1..Len(l) /\ j + 1 \in 1..Len(l)
    BY <1>1, <1>2
  <2>2. i + 1 = j + 1
    BY <1>1, <2>1 DEF OnceEach
  <2>3. QED
    BY <2>2
<1>4. QED
  BY <1>1, <1>3 DEF q

(* Inserting: the oldest entry leaves a list that is full.                 *)
LEMMA SetIs ==
    ASSUME size \in Nat, size # 0, NEW E, NEW l \in Seq(E), OnceEach(l), Len(l) <= 2 * size,
           NEW k, NEW v, F!Entry(k, v) \in E
    PROVE  /\ F!Set(l, k, v) \in Seq(E) /\ OnceEach(F!Set(l, k, v)) /\ Len(F!Set(l, k, v)) <= 2 * size
           /\ ~F!Holds(l, k) /\ Len(l) < 2 * size => F!Set(l, k, v) = Append(l, F!Entry(k, v))
           /\ ~F!Holds(l, k) /\ Len(l) = 2 * size => F!Set(l, k, v) = Tail(Append(l, F!Entry(k, v)))
<1> DEFINE w == F!Without(l, k)
           e == F!Entry(k, v)
           q == Append(w, e)
           full == Len(q) > 2 * size
<1>1. /\ w \in Seq(E) /\ OnceEach(w) /\ \A i \in 1..Len(w) : w[i].key # k
      /\ Len(w) = IF F!Holds(l, k) THEN Len(l) - 1 ELSE Len(l)
  BY WithoutIs
<1>2. e.key = k
  BY DEF F!Entry
<1>3. q \in Seq(E) /\ OnceEach(q) /\ Len(q) = Len(w) + 1 /\ q # <<>>
  <2> HIDE DEF w, e
  <2>1. \A i \in 1..Len(w) : w[i].key # e.key
    BY <1>1, <1>2
  <2>2. q \in Seq(E) /\ OnceEach(q) /\ Len(q) = Len(w) + 1
    BY <1>1, <2>1, AppendIs DEF e
  <2>3. Len(w) \in Nat
    BY <1>1, LenProperties
  <2>4. QED
    BY <2>2, <2>3
<1>4. F!Set(l, k, v) = IF full THEN Tail(q) ELSE q
  BY DEF F!Set
<1>5. Tail(q) \in Seq(E) /\ OnceEach(Tail(q)) /\ Len(Tail(q)) = Len(q) - 1
  BY <1>3, TailIs
<1>6. ~F!Holds(l, k) => w = l
  BY DEF F!Without
<1> HIDE DEF w, e, q
<1>7. Len(l) \in Nat /\ Len(w) <= 2 * size /\ 2 * size \in Nat
  BY <1>1, LenProperties
<1>8. Len(F!Set(l, k, v)) <= 2 * size
  BY <1>1, <1>3, <1>4, <1>5, <1>7
<1>9. ~F!Holds(l, k) /\ Len(l) < 2 * size => ~full
  BY <1>1, <1>3, <1>7
<1>10. ~F!Holds(l, k) /\ Len(l) = 2 * size => full
  BY <1>1, <1>3, <1>7
<1> HIDE DEF full
<1>11. QED
  BY <1>3, <1>4, <1>5, <1>6, <1>8, <1>9, <1>10 DEF q, e

-----------------------------------------------------------------------------
(* What the variables are.                                                 *)
FakeTypes ==
    /\ size \in Sizes /\ range \in Ranges /\ offset \in 0..(range - 1)
    /\ lru \in Seq(FakeEntries(range)) /\ OnceEach(lru) /\ Len(lru) <= 2 * size
    /\ given \in [FakeHosts -> 0..range]
    /\ used \in Seq(FakeHosts)
    /\ \A i, j \in 1..Len(used) : used[i] = used[j] => i = j

(* Keys of names and of addresses are apart.                               *)
LEMMA KeysApart ==
    ASSUME F!FakeAssumption, FakeTypes
    PROVE  /\ size \in Nat /\ size # 0 /\ range \in Nat /\ range # 0
           /\ \A a \in 0..(range - 1) : F!Key(a) \notin FakeHosts
           /\ \A a, b \in 0..(range - 1) : F!Key(a) = F!Key(b) => a = b
<1>1. /\ size \in Nat /\ size # 0 /\ range \in Nat /\ range # 0
      /\ \A a \in 0..(range - 1) : F!Key(a) \notin FakeHosts
  BY DEF F!FakeAssumption, FakeTypes, F!Key
<1>2. \A a, b \in 0..(range - 1) : F!Key(a) = F!Key(b) => a = b
  <2>1. \A a, b : <<"addr", a>> = <<"addr", b>> => a = b
    OBVIOUS
  <2>2. QED
    BY <2>1 DEF F!Key
<1>3. QED
  BY <1>1, <1>2

LEMMA EntryIs ==
    ASSUME F!FakeAssumption, FakeTypes, NEW e \in FakeEntries(range)
    PROVE  /\ e.key \in FakeHosts => e.value \in 0..(range - 1)
           /\ \A a \in 0..(range - 1) : e.key = F!Key(a) => e.value \in FakeHosts
<1>1. CASE \E h \in FakeHosts, a \in 0..(range - 1) : e = F!Entry(h, a)
  <2>1. PICK h \in FakeHosts, a \in 0..(range - 1) : e = F!Entry(h, a)
    BY <1>1
  <2>2. e.key = h /\ e.value = a
    BY <2>1 DEF F!Entry
  <2>3. QED
    BY <2>2, KeysApart
<1>2. CASE \E h \in FakeHosts, a \in 0..(range - 1) : e = F!Entry(F!Key(a), h)
  <2>1. PICK h \in FakeHosts, a \in 0..(range - 1) : e = F!Entry(F!Key(a), h)
    BY <1>2
  <2>2. e.key = F!Key(a) /\ e.value = h
    BY <2>1 DEF F!Entry
  <2>3. QED
    BY <2>2, KeysApart
<1>3. QED
  BY <1>1, <1>2 DEF FakeEntries

(* The next offset.                                                        *)
FreeSteps == {d \in 1..(range - 1) : ~F!Holds(lru, F!Key((offset + d) % range))}
LEMMA OffsetIs ==
    ASSUME F!FakeAssumption, FakeTypes
    PROVE  /\ FreeSteps = {} => F!NextOffset = offset
           /\ FreeSteps # {} => \E d \in FreeSteps : /\ F!NextOffset = (offset + d) % range
                                           /\ \A e \in FreeSteps : d <= e
           /\ F!NextOffset \in 0..(range - 1)
<1> DEFINE Small(d) == \A e \in FreeSteps : d <= e
           d0 == CHOOSE d \in FreeSteps : Small(d)
<1>1. range \in Nat \ {0} /\ offset \in 0..(range - 1)
  BY KeysApart DEF FakeTypes
<1>2. F!NextOffset = IF FreeSteps = {} THEN offset ELSE (offset + d0) % range
  BY DEF F!NextOffset, FreeSteps
<1>3. FreeSteps \in SUBSET Nat
  BY <1>1 DEF FreeSteps
<1>4. FreeSteps # {} => d0 \in FreeSteps /\ Small(d0)
  <2> SUFFICES ASSUME FreeSteps # {} PROVE \E d \in FreeSteps : Small(d)
    OBVIOUS
  <2>1. QED
    BY <1>3, Least
<1> HIDE DEF d0
<1>5. ASSUME FreeSteps # {} PROVE (offset + d0) % range \in 0..(range - 1)
  <2>1. d0 \in Nat
    BY <1>3, <1>4, <1>5
  <2>2. \A x \in Nat, y \in Nat \ {0} : x % y \in 0..(y - 1)
    OBVIOUS
  <2>3. offset + d0 \in Nat
    BY <1>1, <2>1
  <2>4. QED
    BY <1>1, <2>2, <2>3
<1>6. QED
  BY <1>1, <1>2, <1>4, <1>5

(* A name that is used comes first, and the ones before it move back.      *)
LEMMA InFront ==
    ASSUME NEW E, NEW l \in Seq(E), NEW h \in E
    PROVE  /\ <<h>> \o l \in Seq(E) /\ Len(<<h>> \o l) = Len(l) + 1
           /\ (<<h>> \o l)[1] = h /\ \A i \in 1..Len(l) : (<<h>> \o l)[i + 1] = l[i]
<1>1. <<h>> \in Seq(E) /\ Len(<<h>>) = 1 /\ <<h>>[1] = h /\ Len(l) \in Nat
  BY LenProperties
<1> DEFINE s == <<h>>
<1> HIDE DEF s
<1>2. /\ s \o l \in Seq(E) /\ Len(s \o l) = Len(s) + Len(l)
      /\ \A i \in 1..(Len(s) + Len(l)) : (s \o l)[i] = IF i <= Len(s) THEN s[i] ELSE l[i - Len(s)]
  BY <1>1, ConcatProperties DEF s
<1>3. Len(s) = 1 /\ s[1] = h
  BY <1>1 DEF s
<1>4. (s \o l)[1] = h
  BY <1>1, <1>2, <1>3
<1>5. ASSUME NEW i \in 1..Len(l) PROVE (s \o l)[i + 1] = l[i]
  <2>1. i + 1 \in 1..(Len(s) + Len(l)) /\ ~(i + 1 <= Len(s)) /\ (i + 1) - Len(s) = i
    BY <1>1, <1>3
  <2>2. (s \o l)[i + 1] = l[(i + 1) - Len(s)]
    BY <1>2, <2>1
  <2>3. QED
    BY <2>1, <2>2
<1>6. QED
  BY <1>1, <1>2, <1>3, <1>4, <1>5 DEF s

LEMMA UseIs ==
    ASSUME FakeTypes, NEW h \in FakeHosts
    PROVE  /\ F!Use(h) \in Seq(FakeHosts)
           /\ \A i, j \in 1..Len(F!Use(h)) : F!Use(h)[i] = F!Use(h)[j] => i = j
           /\ Len(F!Use(h)) >= 1 /\ F!Use(h)[1] = h
           /\ \A m \in 1..Len(used) : used[m] = h =>
                /\ Len(F!Use(h)) = Len(used)
                /\ \A i \in 2..m : F!Use(h)[i] = used[i - 1]
                /\ \A i \in (m + 1)..Len(used) : F!Use(h)[i] = used[i]
           /\ (\A m \in 1..Len(used) : used[m] # h) =>
                /\ Len(F!Use(h)) = Len(used) + 1
                /\ \A i \in 1..Len(used) : F!Use(h)[i + 1] = used[i]
<1>1. /\ used \in Seq(FakeHosts) /\ \A i, j \in 1..Len(used) : used[i] = used[j] => i = j
      /\ Len(used) \in Nat /\ DOMAIN used = 1..Len(used)
  BY LenProperties DEF FakeTypes
<1> DEFINE q == F!Use(h)
<1>2. CASE \E m \in 1..Len(used) : used[m] = h
  <2>1. PICK m \in 1..Len(used) : used[m] = h
    BY <1>2
  <2> DEFINE c == F!Cut(used, m)
  <2>2. (CHOOSE i \in DOMAIN used : used[i] = h) = m
    BY <1>1, <2>1
  <2>3. q = <<h>> \o c
    BY <1>1, <2>1, <2>2 DEF F!Use
  <2>4. /\ c \in Seq(FakeHosts) /\ Len(c) = Len(used) - 1
        /\ \A i \in 1..(Len(used) - 1) : c[i] = IF i < m THEN used[i] ELSE used[i + 1]
    BY <1>1, CutIs
  <2> HIDE DEF c, q
  <2>5. /\ q \in Seq(FakeHosts) /\ Len(q) = Len(c) + 1 /\ q[1] = h
        /\ \A i \in 1..Len(c) : q[i + 1] = c[i]
    BY <2>3, <2>4, InFront
  <2> DEFINE From(i) == IF i = 1 THEN m ELSE IF i <= m THEN i - 1 ELSE i
  <2>6. ASSUME NEW i \in 1..Len(used) PROVE q[i] = used[From(i)] /\ From(i) \in 1..Len(used)
    <3>1. CASE i = 1
      BY <2>1, <2>5, <3>1
    <3>2. CASE i # 1
      <4>1. i - 1 \in 1..(Len(used) - 1) /\ i - 1 \in 1..Len(c) /\ (i - 1) + 1 = i
        BY <1>1, <2>4, <3>2
      <4>2. q[i] = c[i - 1] /\ c[i - 1] = IF i - 1 < m THEN used[i - 1] ELSE used[i]
        BY <2>4, <2>5, <4>1
      <4>3. i - 1 < m <=> i <= m
        OBVIOUS
      <4>4. QED
        BY <1>1, <3>2, <4>2, <4>3
    <3>3. QED
      BY <3>1, <3>2
  <2>7. Len(q) = Len(used)
    BY <1>1, <2>4, <2>5
  <2>8. ASSUME NEW i \in 1..Len(q), NEW j \in 1..Len(q), q[i] = q[j] PROVE i = j
    <3>1. From(i) = From(j)
      <4> HIDE DEF From
      <4>1. QED
        BY <1>1, <2>6, <2>7, <2>8
    <3>2. QED
      BY <1>1, <2>7, <3>1
  <2>9. ASSUME NEW m1 \in 1..Len(used), used[m1] = h
        PROVE  /\ \A i \in 2..m1 : q[i] = used[i - 1]
               /\ \A i \in (m1 + 1)..Len(used) : q[i] = used[i]
    <3>1. m1 = m
      BY <1>1, <2>1, <2>9
    <3>2. ASSUME NEW i \in 2..m PROVE q[i] = used[i - 1]
      <4>1. i \in 1..Len(used) /\ i # 1 /\ i <= m
        BY <1>1
      <4>2. QED
        BY <2>6, <4>1
    <3>3. ASSUME NEW i \in (m + 1)..Len(used) PROVE q[i] = used[i]
      <4>1. i \in 1..Len(used) /\ i # 1 /\ ~(i <= m)
        BY <1>1
      <4>2. QED
        BY <2>6, <4>1
    <3>4. QED
      BY <3>1, <3>2, <3>3
  <2>10. Len(q) >= 1
    BY <1>1, <2>7
  <2> HIDE DEF From
  <2>11. QED
    BY <2>1, <2>5, <2>7, <2>8, <2>9, <2>10 DEF q
<1>3. CASE \A m \in 1..Len(used) : used[m] # h
  <2>1. q = <<h>> \o used
    BY <1>1, <1>3 DEF F!Use
  <2> HIDE DEF q
  <2>2. /\ q \in Seq(FakeHosts) /\ Len(q) = Len(used) + 1 /\ q[1] = h
        /\ \A i \in 1..Len(used) : q[i + 1] = used[i]
    BY <1>1, <2>1, InFront
  <2>3. ASSUME NEW i \in 1..Len(q), NEW j \in 1..Len(q), q[i] = q[j] PROVE i = j
    <3>1. ASSUME NEW x \in 1..Len(q), x # 1 PROVE x - 1 \in 1..Len(used) /\ q[x] = used[x - 1]
      <4>1. x - 1 \in 1..Len(used) /\ (x - 1) + 1 = x
        BY <1>1, <2>2, <3>1
      <4>2. QED
        BY <2>2, <4>1
    <3>2. CASE i = 1 \/ j = 1
      BY <1>3, <2>2, <2>3, <3>1, <3>2
    <3>3. CASE i # 1 /\ j # 1
      <4>1. i - 1 = j - 1
        BY <1>1, <2>3, <3>1, <3>3
      <4>2. QED
        BY <1>1, <2>2, <4>1
    <3>4. QED
      BY <3>2, <3>3
  <2>4. Len(q) >= 1
    BY <1>1, <2>2
  <2>5. QED
    BY <1>3, <2>2, <2>3, <2>4 DEF q
<1>4. QED
  BY <1>2, <1>3

(* Types stay.                                                             *)
LEMMA FakeTypesStay ==
    ASSUME F!FakeAssumption, FakeTypes, [F!Next]_(F!vars)
    PROVE  FakeTypes'
<1> USE DEF FakeTypes
<1> DEFINE T == FakeEntries(range)
<1>1. /\ size \in Nat /\ size # 0 /\ range \in Nat /\ range # 0
      /\ \A a \in 0..(range - 1) : F!Key(a) \notin FakeHosts
  BY KeysApart
<1>2. \A e \in T : /\ e.key \in FakeHosts => e.value \in 0..(range - 1)
                   /\ \A a \in 0..(range - 1) : e.key = F!Key(a) => e.value \in FakeHosts
  BY EntryIs
<1>3. ASSUME NEW h \in FakeHosts, NEW a \in 0..(range - 1) PROVE F!Entry(h, a) \in T /\ F!Entry(F!Key(a), h) \in T
  BY DEF FakeEntries
<1>4. ASSUME NEW k, F!Holds(lru, k) PROVE \E p \in 1..Len(lru) : lru[p].key = k /\ lru[p] \in T /\ F!ValueOf(lru, k) = lru[p].value
  <2>1. PICK p \in 1..Len(lru) : lru[p].key = k
    BY <1>4, HeldIs
  <2>2. QED
    BY <2>1, PlaceIs, ElementOfSeq
<1> HIDE DEF T
<1>5. ASSUME NEW h \in FakeHosts, F!Lookup(h) PROVE FakeTypes'
  <2>1. size' = size /\ range' = range /\ used' = F!Use(h)
    BY <1>5 DEF F!Lookup
  <2>2. used' \in Seq(FakeHosts) /\ \A i, j \in 1..Len(used') : used'[i] = used'[j] => i = j
    BY <2>1, UseIs
  <2>3. CASE F!Holds(lru, h)
    <3>1. lru' = F!ByHost(lru, h) /\ given' = [given EXCEPT ![h] = F!ValueOf(lru, h)] /\ offset' = offset
      BY <1>5, <2>3 DEF F!Lookup
    <3>2. F!ValueOf(lru, h) \in 0..(range - 1)
      BY <1>2, <1>4, <2>3
    <3>3. given' \in [FakeHosts -> 0..range]
      BY <1>1, <3>1, <3>2
    <3>4. /\ F!Touch(lru, h) \in Seq(T) /\ OnceEach(F!Touch(lru, h)) /\ Len(F!Touch(lru, h)) = Len(lru)
      BY TouchKeeps DEF T
    <3>5. lru' \in Seq(T) /\ OnceEach(lru') /\ Len(lru') = Len(lru)
      BY <3>1, <3>4, TouchKeeps DEF T, F!ByHost
    <3>6. QED
      BY <2>1, <2>2, <3>1, <3>3, <3>5 DEF T, OnceEach
  <2>4. CASE ~F!Holds(lru, h)
    <3> DEFINE o == F!NextOffset
               l1 == F!Set(lru, F!Key(o), h)
    <3>1. lru' = F!Set(l1, h, o) /\ given' = [given EXCEPT ![h] = o] /\ offset' = o
      BY <1>5, <2>4 DEF F!Lookup
    <3>2. o \in 0..(range - 1)
      BY OffsetIs
    <3> HIDE DEF o
    <3>3. given' \in [FakeHosts -> 0..range]
      BY <1>1, <3>1, <3>2
    <3>4. l1 \in Seq(T) /\ OnceEach(l1) /\ Len(l1) <= 2 * size
      BY <1>1, <1>3, <3>2, SetIs DEF T
    <3> HIDE DEF l1
    <3>5. lru' \in Seq(T) /\ OnceEach(lru') /\ Len(lru') <= 2 * size
      <4>1. F!Set(l1, h, o) \in Seq(T) /\ OnceEach(F!Set(l1, h, o)) /\ Len(F!Set(l1, h, o)) <= 2 * size
        BY <1>1, <1>3, <3>2, <3>4, SetIs
      <4>2. QED
        BY <3>1, <4>1
    <3>6. QED
      BY <2>1, <2>2, <3>1, <3>2, <3>3, <3>5 DEF T, OnceEach
  <2>5. QED
    BY <2>3, <2>4
<1>6. ASSUME NEW h \in FakeHosts, F!LookBack(h) PROVE FakeTypes'
  <2> DEFINE a == given[h]
             v == F!ValueOf(lru, F!Key(a))
  <2>1. UNCHANGED <<size, range, offset, given>>
    BY <1>6 DEF F!LookBack
  <2>2. CASE F!Holds(lru, F!Key(a))
    <3>1. lru' = F!Touch(F!Touch(lru, F!Key(a)), v) /\ used' = F!Use(v)
      BY <1>6, <2>2 DEF F!LookBack, F!ByAddr
    <3>2. a \in 0..(range - 1)
      <4>1. a \in 0..range /\ a # range
        BY <1>6 DEF F!LookBack, F!NoAddr
      <4>2. QED
        BY <1>1, <4>1
    <3>3. v \in FakeHosts
      BY <1>2, <1>4, <2>2, <3>2
    <3>4. used' \in Seq(FakeHosts) /\ \A i, j \in 1..Len(used') : used'[i] = used'[j] => i = j
      BY <3>1, <3>3, UseIs
    <3> HIDE DEF a, v
    <3>5. /\ F!Touch(lru, F!Key(a)) \in Seq(T) /\ OnceEach(F!Touch(lru, F!Key(a)))
          /\ Len(F!Touch(lru, F!Key(a))) = Len(lru)
      BY TouchKeeps DEF T
    <3>6. lru' \in Seq(T) /\ OnceEach(lru') /\ Len(lru') = Len(lru)
      BY <3>1, <3>5, TouchKeeps DEF T
    <3>7. QED
      BY <2>1, <3>4, <3>6 DEF T, OnceEach
  <2>3. CASE ~F!Holds(lru, F!Key(a))
    BY <1>6, <2>1, <2>3 DEF F!LookBack, OnceEach
  <2>4. QED
    BY <2>2, <2>3
<1>7. ASSUME F!Reload PROVE FakeTypes'
  BY <1>1, <1>7 DEF F!Reload, OnceEach
<1>8. ASSUME UNCHANGED F!vars PROVE FakeTypes'
  BY <1>8 DEF F!vars, OnceEach
<1>9. QED
  BY <1>5, <1>6, <1>7, <1>8 DEF F!Next

-----------------------------------------------------------------------------
(* While the range is larger than the size, the list is made of the pairs  *)
(* of the names used last, the latest at its end: neither half of a pair   *)
(* is ever without the other.                                              *)
PairAt(i, h, a) ==
    \/ lru[i] = F!Entry(h, a) /\ lru[i + 1] = F!Entry(F!Key(a), h)
    \/ lru[i] = F!Entry(F!Key(a), h) /\ lru[i + 1] = F!Entry(h, a)
Pairs(n) ==
    /\ n \in 0..size /\ Len(lru) = 2 * n
    /\ n <= Len(used) /\ (n = size \/ n = Len(used))
    /\ \A j \in 1..n : /\ given[used[j]] \in 0..(range - 1)
                       /\ PairAt(2 * (n - j) + 1, used[j], given[used[j]])
    /\ \A i, j \in 1..n : given[used[i]] = given[used[j]] => i = j
PairInv == size < range => \E n \in 0..size : Pairs(n)

(* Two touches move a pair to the end.                                     *)
LEMMA MovePair ==
    ASSUME NEW r, NEW l \in Seq(FakeEntries(r)), OnceEach(l), NEW n \in Nat, Len(l) = 2 * n,
           NEW m \in 1..n, NEW p \in {2 * (n - m) + 1, 2 * (n - m) + 2},
           NEW q \in {2 * (n - m) + 1, 2 * (n - m) + 2}, p # q
    PROVE  LET t == F!Touch(F!Touch(l, l[p].key), l[q].key) IN
           /\ Len(t) = 2 * n /\ t[2 * n - 1] = l[p] /\ t[2 * n] = l[q]
           /\ \A i \in 1..(2 * (n - m)) : t[i] = l[i]
           /\ \A i \in (2 * (n - m) + 1)..(2 * n - 2) : t[i] = l[i + 2]
<1> DEFINE T == FakeEntries(r)
           i0 == 2 * (n - m) + 1
           l1 == F!Touch(l, l[p].key)
           t == F!Touch(l1, l[q].key)
<1>1. i0 \in 1..(2 * n - 1) /\ i0 \in Nat /\ p \in 1..Len(l) /\ q \in 1..Len(l)
      /\ ((p = i0 /\ q = i0 + 1) \/ (p = i0 + 1 /\ q = i0))
  OBVIOUS
<1>2. l1 = Append(F!Cut(l, p), l[p])
  BY <1>1, TouchIs
<1>3. /\ l1 \in Seq(T) /\ Len(l1) = Len(l)
      /\ \A i \in 1..Len(l) : l1[i] = IF i < p THEN l[i] ELSE IF i < Len(l) THEN l[i + 1] ELSE l[p]
  <2> HIDE DEF l1
  <2>1. l \in Seq(T) /\ p \in 1..Len(l)
    BY <1>1
  <2> HIDE DEF T
  <2>2. QED
    BY <1>2, <2>1, MovedIs
<1>4. OnceEach(l1)
  BY TouchKeeps
<1> HIDE DEF l1, T
<1>5. l1[i0] = l[q]
  <2>1. CASE p = i0 /\ q = i0 + 1
    BY <1>1, <1>3, <2>1
  <2>2. CASE p = i0 + 1 /\ q = i0
    BY <1>1, <1>3, <2>2
  <2>3. QED
    BY <1>1, <2>1, <2>2
<1>6. i0 \in 1..Len(l1)
  BY <1>1, <1>3
<1>7. t = Append(F!Cut(l1, i0), l1[i0])
  BY <1>3, <1>4, <1>5, <1>6, TouchIs DEF T
<1>8. /\ Len(t) = Len(l1)
      /\ \A i \in 1..Len(l1) : t[i] = IF i < i0 THEN l1[i] ELSE IF i < Len(l1) THEN l1[i + 1] ELSE l1[i0]
  <2> DEFINE u == Append(F!Cut(l1, i0), l1[i0])
  <2>1. l1 \in Seq(T) /\ i0 \in 1..Len(l1)
    BY <1>3, <1>6
  <2> HIDE DEF t, i0
  <2>2. /\ Len(u) = Len(l1)
        /\ \A i \in 1..Len(l1) : u[i] = IF i < i0 THEN l1[i] ELSE IF i < Len(l1) THEN l1[i + 1] ELSE l1[i0]
    BY <2>1, MovedIs
  <2> HIDE DEF u
  <2>3. t = u
    BY <1>7 DEF u
  <2>4. QED
    BY <2>2, <2>3
<1> HIDE DEF t
<1>9. t[2 * n] = l[q] /\ Len(t) = 2 * n
  BY <1>1, <1>3, <1>5, <1>8
<1>10. t[2 * n - 1] = l[p]
  <2>1. 2 * n - 1 \in 1..Len(l1) /\ ~(2 * n - 1 < i0) /\ 2 * n - 1 < Len(l1) /\ (2 * n - 1) + 1 = 2 * n
    BY <1>1, <1>3
  <2>2. t[2 * n - 1] = l1[2 * n]
    BY <1>8, <2>1
  <2>3. l1[2 * n] = l[p]
    BY <1>1, <1>3
  <2>4. QED
    BY <2>2, <2>3
<1>11. ASSUME NEW i \in 1..(2 * (n - m)) PROVE t[i] = l[i]
  BY <1>1, <1>3, <1>8
<1>12. ASSUME NEW i \in (2 * (n - m) + 1)..(2 * n - 2) PROVE t[i] = l[i + 2]
  <2>1. i \in Nat /\ i0 <= i /\ i <= 2 * n - 2 /\ i \in 1..Len(l1) /\ i + 1 \in 1..Len(l) /\ i + 1 < Len(l)
        /\ ~(i + 1 < p) /\ (i + 1) + 1 = i + 2 /\ i < Len(l1) /\ ~(i < i0)
    BY <1>1, <1>3
  <2>2. t[i] = l1[i + 1]
    BY <1>8, <2>1
  <2>3. l1[i + 1] = l[i + 2]
    BY <1>3, <2>1
  <2>4. QED
    BY <2>2, <2>3
<1>13. QED
  BY <1>9, <1>10, <1>11, <1>12 DEF t, l1

(* Every place of the list belongs to a pair.                              *)
LEMMA InAPair ==
    ASSUME FakeTypes, F!FakeAssumption, NEW n, Pairs(n), NEW p \in 1..Len(lru)
    PROVE  \E m \in 1..n : \E q \in 1..Len(lru) :
              /\ p \in {2 * (n - m) + 1, 2 * (n - m) + 2} /\ q \in {2 * (n - m) + 1, 2 * (n - m) + 2} /\ p # q
              /\ LET h == used[m]  a == given[used[m]] IN
                 /\ a \in 0..(range - 1) /\ h \in FakeHosts
                 /\ \/ lru[p] = F!Entry(h, a) /\ lru[q] = F!Entry(F!Key(a), h)
                    \/ lru[p] = F!Entry(F!Key(a), h) /\ lru[q] = F!Entry(h, a)
<1>1. n \in Nat /\ Len(lru) = 2 * n /\ n <= Len(used) /\ p \in Nat
  BY KeysApart DEF Pairs
<1>2. PICK m \in 1..n : p = 2 * (n - m) + 1 \/ p = 2 * (n - m) + 2
  <2>1. PICK k \in 0..(n - 1) : p = 2 * k + 1 \/ p = 2 * k + 2
    <3>1. p = 2 * ((p - 1) \div 2) + 1 \/ p = 2 * ((p - 1) \div 2) + 2
      BY <1>1
    <3>2. (p - 1) \div 2 \in 0..(n - 1)
      BY <1>1
    <3>3. QED
      BY <3>1, <3>2
  <2>2. n - k \in 1..n /\ n - (n - k) = k
    BY <1>1
  <2>3. QED
    BY <2>1, <2>2
<1> DEFINE i0 == 2 * (n - m) + 1
<1>3. i0 + 1 = 2 * (n - m) + 2 /\ i0 \in 1..Len(lru) /\ i0 + 1 \in 1..Len(lru) /\ m \in 1..Len(used) /\ i0 # i0 + 1
  BY <1>1
<1>4. given[used[m]] \in 0..(range - 1) /\ PairAt(i0, used[m], given[used[m]]) /\ used[m] \in FakeHosts
  <2>1. used[m] \in FakeHosts
    BY <1>3, ElementOfSeq DEF FakeTypes
  <2>2. QED
    BY <2>1 DEF Pairs
<1> HIDE DEF i0
<1>5. p = i0 \/ p = i0 + 1
  BY <1>2, <1>3 DEF i0
<1>6. {2 * (n - m) + 1, 2 * (n - m) + 2} = {i0, i0 + 1}
  BY <1>3 DEF i0
<1>7. CASE p = i0
  <2>1. \/ lru[p] = F!Entry(used[m], given[used[m]]) /\ lru[i0 + 1] = F!Entry(F!Key(given[used[m]]), used[m])
        \/ lru[p] = F!Entry(F!Key(given[used[m]]), used[m]) /\ lru[i0 + 1] = F!Entry(used[m], given[used[m]])
    BY <1>4, <1>7 DEF PairAt
  <2>2. QED
    BY <1>3, <1>4, <1>6, <1>7, <2>1
<1>8. CASE p = i0 + 1
  <2>1. \/ lru[p] = F!Entry(used[m], given[used[m]]) /\ lru[i0] = F!Entry(F!Key(given[used[m]]), used[m])
        \/ lru[p] = F!Entry(F!Key(given[used[m]]), used[m]) /\ lru[i0] = F!Entry(used[m], given[used[m]])
    BY <1>4, <1>8 DEF PairAt
  <2>2. QED
    BY <1>3, <1>4, <1>6, <1>8, <2>1
<1>9. QED
  BY <1>5, <1>7, <1>8

(* Which pair a key that is held belongs to.                               *)
LEMMA NameHeld ==
    ASSUME FakeTypes, F!FakeAssumption, NEW n, Pairs(n), NEW h \in FakeHosts, F!Holds(lru, h)
    PROVE  \E m \in 1..n : \E p, q \in {2 * (n - m) + 1, 2 * (n - m) + 2} :
              /\ p # q /\ used[m] = h
              /\ lru[p] = F!Entry(h, given[h]) /\ lru[q] = F!Entry(F!Key(given[h]), h)
              /\ F!ValueOf(lru, h) = given[h]
<1>1. PICK p \in 1..Len(lru) : lru[p].key = h
  BY HeldIs DEF FakeTypes
<1>2. PICK m \in 1..n, q \in 1..Len(lru) :
              /\ p \in {2 * (n - m) + 1, 2 * (n - m) + 2} /\ q \in {2 * (n - m) + 1, 2 * (n - m) + 2} /\ p # q
              /\ LET k == used[m]  a == given[used[m]] IN
                 /\ a \in 0..(range - 1) /\ k \in FakeHosts
                 /\ \/ lru[p] = F!Entry(k, a) /\ lru[q] = F!Entry(F!Key(a), k)
                    \/ lru[p] = F!Entry(F!Key(a), k) /\ lru[q] = F!Entry(k, a)
  BY InAPair
<1>3. lru[p] # F!Entry(F!Key(given[used[m]]), used[m])
  <2>1. F!Entry(F!Key(given[used[m]]), used[m]).key = F!Key(given[used[m]])
    BY DEF F!Entry
  <2>2. F!Key(given[used[m]]) \notin FakeHosts
    BY <1>2, KeysApart
  <2>3. QED
    BY <1>1, <2>1, <2>2
<1>4. used[m] = h
  <2>1. lru[p] = F!Entry(used[m], given[used[m]])
    BY <1>2, <1>3
  <2>2. QED
    BY <1>1, <2>1 DEF F!Entry
<1>5. F!ValueOf(lru, h) = lru[p].value
  BY <1>1, PlaceIs DEF FakeTypes
<1>6. lru[p].value = given[h]
  BY <1>2, <1>3, <1>4 DEF F!Entry
<1>7. QED
  BY <1>2, <1>3, <1>4, <1>5, <1>6

LEMMA AddrHeld ==
    ASSUME FakeTypes, F!FakeAssumption, NEW n, Pairs(n), NEW a \in 0..(range - 1), F!Holds(lru, F!Key(a))
    PROVE  \E m \in 1..n : \E p, q \in {2 * (n - m) + 1, 2 * (n - m) + 2} :
              /\ p # q /\ given[used[m]] = a
              /\ lru[p] = F!Entry(F!Key(a), used[m]) /\ lru[q] = F!Entry(used[m], a)
              /\ F!ValueOf(lru, F!Key(a)) = used[m]
<1>1. PICK p \in 1..Len(lru) : lru[p].key = F!Key(a)
  BY HeldIs DEF FakeTypes
<1>2. PICK m \in 1..n, q \in 1..Len(lru) :
              /\ p \in {2 * (n - m) + 1, 2 * (n - m) + 2} /\ q \in {2 * (n - m) + 1, 2 * (n - m) + 2} /\ p # q
              /\ LET k == used[m]  b == given[used[m]] IN
                 /\ b \in 0..(range - 1) /\ k \in FakeHosts
                 /\ \/ lru[p] = F!Entry(k, b) /\ lru[q] = F!Entry(F!Key(b), k)
                    \/ lru[p] = F!Entry(F!Key(b), k) /\ lru[q] = F!Entry(k, b)
  BY InAPair
<1>3. lru[p] # F!Entry(used[m], given[used[m]])
  <2>1. F!Entry(used[m], given[used[m]]).key = used[m]
    BY DEF F!Entry
  <2>2. F!Key(a) \notin FakeHosts
    BY <1>2, KeysApart
  <2>3. QED
    BY <1>1, <1>2, <2>1, <2>2
<1>4. given[used[m]] = a
  <2>1. lru[p] = F!Entry(F!Key(given[used[m]]), used[m])
    BY <1>2, <1>3
  <2>2. F!Key(a) = F!Key(given[used[m]])
    BY <1>1, <2>1 DEF F!Entry
  <2>3. QED
    BY <1>2, <2>2, KeysApart
<1>5. F!ValueOf(lru, F!Key(a)) = lru[p].value
  BY <1>1, PlaceIs DEF FakeTypes
<1>6. lru[p].value = used[m]
  BY <1>2, <1>3, <1>4 DEF F!Entry
<1>7. QED
  BY <1>2, <1>3, <1>4, <1>5, <1>6

(* A name or an address that is known moves its pair to the end, and the   *)
(* name to the front of those that were used.                              *)
LEMMA PairsMove ==
    ASSUME FakeTypes, F!FakeAssumption, NEW n, Pairs(n), NEW m \in 1..n,
           NEW p \in {2 * (n - m) + 1, 2 * (n - m) + 2},
           NEW q \in {2 * (n - m) + 1, 2 * (n - m) + 2}, p # q,
           UNCHANGED <<size, range, given>>, used' = F!Use(used[m]),
           lru' = F!Touch(F!Touch(lru, lru[p].key), lru[q].key)
    PROVE  Pairs(n)'
<1>1. n \in Nat /\ Len(lru) = 2 * n /\ n <= Len(used) /\ Len(used) \in Nat /\ m \in 1..Len(used)
  BY KeysApart, LenProperties DEF Pairs, FakeTypes
<1>2. /\ Len(lru') = 2 * n /\ lru'[2 * n - 1] = lru[p] /\ lru'[2 * n] = lru[q]
      /\ \A i \in 1..(2 * (n - m)) : lru'[i] = lru[i]
      /\ \A i \in (2 * (n - m) + 1)..(2 * n - 2) : lru'[i] = lru[i + 2]
  <2>1. lru \in Seq(FakeEntries(range)) /\ OnceEach(lru)
    BY DEF FakeTypes
  <2> DEFINE t == F!Touch(F!Touch(lru, lru[p].key), lru[q].key)
  <2>2. /\ Len(t) = 2 * n /\ t[2 * n - 1] = lru[p] /\ t[2 * n] = lru[q]
        /\ \A i \in 1..(2 * (n - m)) : t[i] = lru[i]
        /\ \A i \in (2 * (n - m) + 1)..(2 * n - 2) : t[i] = lru[i + 2]
    <3>1. n \in Nat /\ Len(lru) = 2 * n
      BY <1>1
    <3>2. QED
      BY <2>1, <3>1, MovePair
  <2>3. lru' = t
    OBVIOUS
  <2> HIDE DEF t
  <2>4. QED
    BY <2>2, <2>3
<1>3. used[m] \in FakeHosts
  BY <1>1, ElementOfSeq DEF FakeTypes
<1>4. /\ Len(used') = Len(used) /\ used'[1] = used[m]
      /\ \A i \in 2..m : used'[i] = used[i - 1]
      /\ \A i \in (m + 1)..Len(used) : used'[i] = used[i]
  <2> DEFINE h == used[m]
             u == F!Use(h)
  <2>1. h \in FakeHosts /\ used[m] = h /\ m \in 1..Len(used)
    BY <1>1, <1>3
  <2>2. used' = u
    OBVIOUS
  <2> HIDE DEF h
  <2>3. /\ u[1] = h
        /\ \A m1 \in 1..Len(used) : used[m1] = h =>
                /\ Len(u) = Len(used)
                /\ \A i \in 2..m1 : u[i] = used[i - 1]
                /\ \A i \in (m1 + 1)..Len(used) : u[i] = used[i]
    BY <2>1, UseIs
  <2> HIDE DEF u
  <2>4. QED
    BY <2>1, <2>2, <2>3
<1> DEFINE From(j) == IF j = 1 THEN m ELSE IF j <= m THEN j - 1 ELSE j
           Is(i, h, a) == \/ lru'[i] = F!Entry(h, a) /\ lru'[i + 1] = F!Entry(F!Key(a), h)
                          \/ lru'[i] = F!Entry(F!Key(a), h) /\ lru'[i + 1] = F!Entry(h, a)
<1>5. ASSUME NEW j \in 1..n
      PROVE  /\ From(j) \in 1..n /\ used'[j] = used[From(j)]
             /\ Is(2 * (n - j) + 1, used[From(j)], given[used[From(j)]])
  <2>1. CASE j = 1
    <3>1. PairAt(2 * (n - m) + 1, used[m], given[used[m]])
      BY DEF Pairs
    <3> DEFINE i0 == 2 * (n - m) + 1
    <3>2. i0 + 1 = 2 * (n - m) + 2
      BY <1>1
    <3> HIDE DEF i0
    <3>3. (p = i0 /\ q = i0 + 1) \/ (p = i0 + 1 /\ q = i0)
      BY <3>2 DEF i0
    <3>4. PairAt(i0, used[m], given[used[m]])
      BY <3>1 DEF i0
    <3>5. 2 * (n - j) + 1 = 2 * n - 1 /\ (2 * n - 1) + 1 = 2 * n
      BY <1>1, <2>1
    <3>6. \/ lru[p] = F!Entry(used[m], given[used[m]]) /\ lru[q] = F!Entry(F!Key(given[used[m]]), used[m])
          \/ lru[p] = F!Entry(F!Key(given[used[m]]), used[m]) /\ lru[q] = F!Entry(used[m], given[used[m]])
      BY <3>3, <3>4 DEF PairAt
    <3>7. Is(2 * n - 1, used[m], given[used[m]])
      BY <1>2, <3>5, <3>6
    <3>8. From(j) = m
      BY <2>1
    <3> HIDE DEF From, Is
    <3>9. QED
      BY <1>4, <2>1, <3>5, <3>7, <3>8
  <2>2. CASE j # 1 /\ j <= m
    <3>1. From(j) = j - 1 /\ j - 1 \in 1..n /\ j \in 2..m
      BY <1>1, <2>2
    <3> DEFINE i == 2 * (n - j) + 1
    <3>2. /\ i \in (2 * (n - m) + 1)..(2 * n - 2) /\ i + 1 \in (2 * (n - m) + 1)..(2 * n - 2)
          /\ i + 2 = 2 * (n - (j - 1)) + 1 /\ (i + 1) + 2 = (i + 2) + 1
      BY <1>1, <2>2
    <3>3. PairAt(2 * (n - (j - 1)) + 1, used[j - 1], given[used[j - 1]])
      BY <3>1 DEF Pairs
    <3> HIDE DEF i
    <3>4. lru'[i] = lru[i + 2] /\ lru'[i + 1] = lru[(i + 2) + 1]
      BY <1>2, <3>2
    <3>5. PairAt(i + 2, used[j - 1], given[used[j - 1]])
      BY <3>2, <3>3
    <3>6. Is(i, used[j - 1], given[used[j - 1]])
      BY <3>4, <3>5 DEF PairAt
    <3> HIDE DEF From, Is
    <3>7. QED
      BY <1>4, <3>1, <3>6 DEF i
  <2>3. CASE j > m
    <3>1. From(j) = j /\ j \in (m + 1)..Len(used)
      BY <1>1, <2>3
    <3> DEFINE i == 2 * (n - j) + 1
    <3>2. i \in 1..(2 * (n - m)) /\ i + 1 \in 1..(2 * (n - m))
      BY <1>1, <2>3
    <3>3. PairAt(i, used[j], given[used[j]])
      BY DEF Pairs
    <3> HIDE DEF i
    <3>4. lru'[i] = lru[i] /\ lru'[i + 1] = lru[i + 1]
      BY <1>2, <3>2
    <3>5. Is(i, used[j], given[used[j]])
      BY <3>3, <3>4 DEF PairAt
    <3> HIDE DEF From, Is
    <3>6. QED
      BY <1>4, <3>1, <3>5 DEF i
  <2>4. QED
    BY <1>1, <2>1, <2>2, <2>3
<1>6. ASSUME NEW i \in 1..n, NEW j \in 1..n, From(i) = From(j) PROVE i = j
  BY <1>1, <1>6
<1> HIDE DEF From
<1>7. ASSUME NEW j \in 1..n
      PROVE  /\ given'[used'[j]] \in 0..(range' - 1)
             /\ PairAt(2 * (n - j) + 1, used[j], given[used[j]])'
  <2>1. given'[used'[j]] = given[used[From(j)]] /\ From(j) \in 1..n /\ used'[j] = used[From(j)]
    BY <1>5
  <2>2. given[used[From(j)]] \in 0..(range - 1)
    BY <2>1 DEF Pairs
  <2>3. Is(2 * (n - j) + 1, used[From(j)], given[used[From(j)]])
    BY <1>5
  <2>4. QED
    BY <2>1, <2>2, <2>3 DEF PairAt
<1>8. ASSUME NEW i \in 1..n, NEW j \in 1..n, given'[used'[i]] = given'[used'[j]] PROVE i = j
  <2>1. given[used[From(i)]] = given[used[From(j)]]
    BY <1>5, <1>8
  <2>2. From(i) = From(j)
    BY <1>5, <2>1 DEF Pairs
  <2>3. QED
    BY <1>6, <2>2
<1>9. QED
  <2>1. n \in 0..size' /\ Len(lru') = 2 * n /\ n <= Len(used') /\ (n = size' \/ n = Len(used'))
    BY <1>2, <1>4 DEF Pairs
  <2>2. QED
    BY <1>7, <1>8, <2>1 DEF Pairs

(* There is an address that nobody is remembered for, and the search finds *)
(* it, though it looks at the present offset last and does not test it.    *)
LEMMA AddressIsFree ==
    ASSUME FakeTypes, F!FakeAssumption, size < range, NEW n, Pairs(n)
    PROVE  ~F!Holds(lru, F!Key(F!NextOffset))
<1>1. /\ range \in Nat \ {0} /\ offset \in 0..(range - 1) /\ size \in Nat /\ n \in Nat /\ n < range
  BY KeysApart DEF FakeTypes, Pairs
<1>2. CASE FreeSteps # {}
  BY <1>2, OffsetIs DEF FreeSteps
<1>3. CASE FreeSteps = {}
  <2>1. F!NextOffset = offset
    BY <1>3, OffsetIs
  <2> SUFFICES ASSUME F!Holds(lru, F!Key(offset)) PROVE FALSE
    BY <2>1
  <2>2. \A x \in 0..(range - 1) : x % range = x /\ (x + range) % range = x
    <3>1. \A y \in Nat \ {0}, x \in Nat : x < y => x % y = x /\ (x + y) % y = x
      <4>1. ASSUME NEW y \in Nat \ {0}, NEW x \in Nat, x < y PROVE x % y = x /\ (x + y) % y = x
        <5>1. (y * 0 + x) % y = x /\ (y * 1 + x) % y = x
          BY <4>1
        <5>2. QED
          BY <5>1
      <4>2. QED
        BY <4>1
    <3>2. QED
      BY <1>1, <3>1
  <2>3. ASSUME NEW a \in 0..(range - 1) PROVE F!Holds(lru, F!Key(a))
    <3>1. CASE a = offset
      BY <3>1
    <3>2. CASE a # offset
      <4> DEFINE d == IF offset < a THEN a - offset ELSE (a + range) - offset
      <4>1. d \in 1..(range - 1) /\ (offset + d = a \/ offset + d = a + range)
        BY <1>1, <3>2
      <4>2. (offset + d) % range = a
        BY <2>2, <4>1
      <4> HIDE DEF d
      <4>3. QED
        BY <1>3, <4>1, <4>2 DEF FreeSteps
    <3>3. QED
      BY <3>1, <3>2
  <2>4. ASSUME NEW a \in 0..(range - 1) PROVE \E m \in 1..n : given[used[m]] = a
    BY <2>3, AddrHeld
  <2> DEFINE f == [a \in 0..(range - 1) |-> CHOOSE m \in 1..n : given[used[m]] = a]
  <2>5. f \in [0..(range - 1) -> 1..n] /\ \A a \in 0..(range - 1) : given[used[f[a]]] = a
    BY <2>4
  <2> HIDE DEF f
  <2>6. /\ IsFiniteSet(0..(range - 1)) /\ Cardinality(0..(range - 1)) = range
        /\ IsFiniteSet(1..n) /\ Cardinality(1..n) = n
    <3>1. /\ IsFiniteSet(0..(range - 1)) /\ Cardinality(0..(range - 1)) = IF 0 > range - 1 THEN 0 ELSE (range - 1) - 0 + 1
          /\ IsFiniteSet(1..n) /\ Cardinality(1..n) = IF 1 > n THEN 0 ELSE n - 1 + 1
      <4>1. 0 \in Int /\ range - 1 \in Int /\ 1 \in Int /\ n \in Int
        BY <1>1
      <4>2. QED
        BY <4>1, FS_Interval
    <3>2. QED
      BY <1>1, <3>1
  <2>7. PICK x, y \in 0..(range - 1) : x # y /\ f[x] = f[y]
    <3> DEFINE A == 0..(range - 1)
               B == 1..n
    <3>1. IsFiniteSet(A) /\ IsFiniteSet(B) /\ Cardinality(B) < Cardinality(A) /\ f \in [A -> B]
      BY <1>1, <2>5, <2>6
    <3> HIDE DEF A, B
    <3>2. \E x, y \in A : x # y /\ f[x] = f[y]
      BY <3>1, FS_PigeonHole
    <3>3. QED
      BY <3>2 DEF A
  <2>8. QED
    BY <2>5, <2>7
<1>4. QED
  BY <1>2, <1>3

(* A name that is not known comes with a new pair, and the oldest pair     *)
(* leaves a list that is full: both halves, one with each of the two       *)
(* insertions.                                                             *)
LEMMA PairInserted ==
    ASSUME FakeTypes, F!FakeAssumption, NEW n, Pairs(n), NEW h \in FakeHosts, NEW o \in 0..(range - 1),
           ~F!Holds(lru, h), ~F!Holds(lru, F!Key(o)),
           lru' = F!Set(F!Set(lru, F!Key(o), h), h, o)
    PROVE  LET N == IF n < size THEN n + 1 ELSE n
               s == IF n < size THEN 0 ELSE 2 IN
           /\ Len(lru') = 2 * N
           /\ lru'[2 * N - 1] = F!Entry(F!Key(o), h) /\ lru'[2 * N] = F!Entry(h, o)
           /\ \A i \in 1..(2 * N - 2) : lru'[i] = lru[i + s]
<1> DEFINE T == FakeEntries(range)
           e1 == F!Entry(F!Key(o), h)
           e2 == F!Entry(h, o)
           l1 == F!Set(lru, F!Key(o), h)
           l2 == F!Set(l1, h, o)
<1>1. /\ size \in Nat /\ size # 0 /\ n \in 0..size /\ n \in Nat /\ Len(lru) = 2 * n
      /\ lru \in Seq(T) /\ OnceEach(lru) /\ Len(lru) <= 2 * size
  BY KeysApart DEF Pairs, FakeTypes
<1>2. e1 \in T /\ e2 \in T /\ e1.key = F!Key(o) /\ e2.key = h /\ F!Key(o) # h
  BY KeysApart DEF FakeEntries, F!Entry
<1>3. \A i \in 1..Len(lru) : lru[i].key # h /\ lru[i].key # F!Key(o)
  BY <1>1, HeldIs
<1>4. /\ l1 \in Seq(T) /\ OnceEach(l1) /\ Len(l1) <= 2 * size
      /\ Len(lru) < 2 * size => l1 = Append(lru, e1)
      /\ Len(lru) = 2 * size => l1 = Tail(Append(lru, e1))
  <2>1. F!Entry(F!Key(o), h) \in T
    BY <1>2
  <2> HIDE DEF T
  <2>2. QED
    BY <1>1, <2>1, SetIs
<1> HIDE DEF T, e1, e2, l1
<1>5. /\ Append(lru, e1) \in Seq(T) /\ OnceEach(Append(lru, e1)) /\ Len(Append(lru, e1)) = 2 * n + 1
      /\ \A i \in 1..(2 * n) : Append(lru, e1)[i] = lru[i]
      /\ Append(lru, e1)[2 * n + 1] = e1
  BY <1>1, <1>2, <1>3, AppendIs
<1>6. /\ \A i \in 1..Len(l1) : l1[i].key # h
      /\ n < size => Len(l1) = 2 * n + 1 /\ l1[2 * n + 1] = e1 /\ \A i \in 1..(2 * n) : l1[i] = lru[i]
      /\ n = size => Len(l1) = 2 * n /\ l1[2 * n] = e1 /\ \A i \in 1..(2 * n - 1) : l1[i] = lru[i + 1]
  <2>1. CASE n < size
    <3>1. l1 = Append(lru, e1)
      BY <1>1, <1>4, <2>1
    <3>2. Len(l1) = 2 * n + 1 /\ l1[2 * n + 1] = e1 /\ \A i \in 1..(2 * n) : l1[i] = lru[i]
      BY <1>5, <3>1
    <3>3. \A i \in 1..Len(l1) : i \in 1..(2 * n) \/ i = 2 * n + 1
      BY <1>1, <3>2
    <3>4. \A i \in 1..Len(l1) : l1[i].key # h
      BY <1>1, <1>2, <1>3, <3>2, <3>3
    <3>5. n # size
      BY <1>1, <2>1
    <3>6. QED
      BY <3>2, <3>4, <3>5
  <2>2. CASE n = size
    <3> DEFINE a == Append(lru, e1)
    <3>1. l1 = Tail(a)
      BY <1>1, <1>4, <2>2
    <3> HIDE DEF a
    <3>2. a \in Seq(T) /\ OnceEach(a) /\ Len(a) = 2 * n + 1 /\ a # <<>>
          /\ (\A i \in 1..(2 * n) : a[i] = lru[i]) /\ a[2 * n + 1] = e1
      <4>1. a # <<>>
        <5>1. Len(a) # 0
          BY <1>1, <1>5 DEF a
        <5>2. Len(<<>>) = 0
          OBVIOUS
        <5>3. QED
          BY <5>1, <5>2
      <4>2. QED
        BY <1>5, <4>1 DEF a
    <3>3. Len(l1) = 2 * n /\ \A i \in 1..(2 * n) : l1[i] = a[i + 1]
      BY <1>1, <3>1, <3>2, TailIs
    <3>4. l1[2 * n] = e1
      BY <1>1, <2>2, <3>2, <3>3
    <3>5. \A i \in 1..(2 * n - 1) : l1[i] = lru[i + 1] /\ i + 1 \in 1..Len(lru)
      BY <1>1, <3>2, <3>3
    <3>6. \A i \in 1..Len(l1) : i \in 1..(2 * n - 1) \/ i = 2 * n
      BY <1>1, <3>3
    <3>7. \A i \in 1..Len(l1) : l1[i].key # h
      BY <1>2, <1>3, <3>4, <3>5, <3>6
    <3>8. QED
      BY <1>1, <2>2, <3>3, <3>4, <3>5, <3>7
  <2>3. QED
    BY <1>1, <2>1, <2>2
<1>7. ~F!Holds(l1, h)
  BY <1>4, <1>6, HeldIs
<1>8. /\ Len(l1) < 2 * size => l2 = Append(l1, e2)
      /\ Len(l1) = 2 * size => l2 = Tail(Append(l1, e2))
  <2>1. F!Entry(h, o) \in T /\ e2 = F!Entry(h, o)
    BY <1>2 DEF e2
  <2>2. /\ size \in Nat /\ size # 0 /\ l1 \in Seq(T) /\ OnceEach(l1) /\ Len(l1) <= 2 * size
        /\ F!Entry(h, o) \in T
    BY <1>1, <1>4, <2>1
  <2>4. /\ ~F!Holds(l1, h) /\ Len(l1) < 2 * size => F!Set(l1, h, o) = Append(l1, F!Entry(h, o))
        /\ ~F!Holds(l1, h) /\ Len(l1) = 2 * size => F!Set(l1, h, o) = Tail(Append(l1, F!Entry(h, o)))
    BY <2>2, SetIs
  <2>3. QED
    BY <1>7, <2>1, <2>4
<1> DEFINE b == Append(l1, e2)
<1>9. /\ b \in Seq(T) /\ OnceEach(b) /\ Len(b) = Len(l1) + 1
      /\ \A i \in 1..Len(l1) : b[i] = l1[i]
      /\ b[Len(l1) + 1] = e2
  BY <1>2, <1>4, <1>6, AppendIs
<1>10. lru' = l2
  BY DEF l1
<1> HIDE DEF b, l2
<1>11. CASE n < size
  <2>1. lru' = b
    BY <1>1, <1>6, <1>8, <1>10, <1>11 DEF b
  <2>2. Len(lru') = 2 * (n + 1) /\ lru'[2 * (n + 1)] = e2
    BY <1>1, <1>6, <1>9, <1>11, <2>1
  <2>3. lru'[2 * (n + 1) - 1] = e1
    <3>1. 2 * (n + 1) - 1 = 2 * n + 1 /\ 2 * n + 1 \in 1..Len(l1)
      BY <1>1, <1>6, <1>11
    <3>2. QED
      BY <1>6, <1>9, <1>11, <2>1, <3>1
  <2>4. ASSUME NEW i \in 1..(2 * (n + 1) - 2) PROVE lru'[i] = lru[i + 0]
    <3>1. i \in 1..(2 * n) /\ i \in 1..Len(l1) /\ i + 0 = i
      BY <1>1, <1>6, <1>11
    <3>2. QED
      BY <1>6, <1>9, <1>11, <2>1, <3>1
  <2>5. QED
    BY <1>11, <2>2, <2>3, <2>4 DEF e1, e2
<1>12. CASE n = size
  <2>1. lru' = Tail(b) /\ b # <<>>
    BY <1>1, <1>6, <1>8, <1>9, <1>10, <1>12 DEF b
  <2>2. Len(lru') = 2 * n /\ \A i \in 1..(2 * n) : lru'[i] = b[i + 1]
    BY <1>1, <1>6, <1>9, <1>12, <2>1, TailIs
  <2>3. lru'[2 * n] = e2
    BY <1>1, <1>6, <1>9, <1>12, <2>2
  <2>4. lru'[2 * n - 1] = e1
    <3>1. 2 * n - 1 \in 1..(2 * n) /\ (2 * n - 1) + 1 = 2 * n /\ 2 * n \in 1..Len(l1)
      BY <1>1, <1>6, <1>12
    <3>2. QED
      BY <1>6, <1>9, <1>12, <2>2, <3>1
  <2>5. ASSUME NEW i \in 1..(2 * n - 2) PROVE lru'[i] = lru[i + 2]
    <3>1. i \in 1..(2 * n) /\ i + 1 \in 1..Len(l1) /\ i + 1 \in 1..(2 * n - 1) /\ (i + 1) + 1 = i + 2
      BY <1>1, <1>6, <1>12
    <3>2. lru'[i] = l1[i + 1]
      BY <1>9, <2>2, <3>1
    <3>3. l1[i + 1] = lru[i + 2]
      BY <1>6, <1>12, <3>1
    <3>4. QED
      BY <3>2, <3>3
  <2>6. ~(n < size)
    BY <1>1, <1>12
  <2>7. QED
    BY <2>2, <2>3, <2>4, <2>5, <2>6 DEF e1, e2
<1>13. QED
  BY <1>1, <1>11, <1>12

LEMMA PairsGrow ==
    ASSUME FakeTypes, F!FakeAssumption, NEW n, Pairs(n), NEW h \in FakeHosts, NEW o \in 0..(range - 1),
           ~F!Holds(lru, h), ~F!Holds(lru, F!Key(o)), UNCHANGED <<size, range>>,
           lru' = F!Set(F!Set(lru, F!Key(o), h), h, o),
           given' = [given EXCEPT ![h] = o], used' = F!Use(h)
    PROVE  \E N \in 0..size : Pairs(N)'
<1>20. n < size => n + 1 \in 0..size
  BY KeysApart DEF Pairs
<1>21. PICK N \in 0..size : N = IF n < size THEN n + 1 ELSE n
  BY <1>20 DEF Pairs
<1> DEFINE s == IF n < size THEN 0 ELSE 2
<1>1. /\ size \in Nat /\ size # 0 /\ n \in 0..size /\ n \in Nat /\ Len(used) \in Nat
      /\ n <= Len(used) /\ (n = size \/ n = Len(used)) /\ used \in Seq(FakeHosts)
  BY KeysApart, LenProperties DEF Pairs, FakeTypes
<1>2. /\ Len(lru') = 2 * N
      /\ lru'[2 * N - 1] = F!Entry(F!Key(o), h) /\ lru'[2 * N] = F!Entry(h, o)
      /\ \A i \in 1..(2 * N - 2) : lru'[i] = lru[i + s]
  BY <1>21, PairInserted
<1>3. ASSUME NEW j \in 1..n
      PROVE  /\ used[j] # h /\ used[j] \in FakeHosts /\ given[used[j]] # o
             /\ given[used[j]] \in 0..(range - 1)
  <2> DEFINE i0 == 2 * (n - j) + 1
             k == used[j]
             a == given[used[j]]
  <2>1. PairAt(i0, k, a) /\ a \in 0..(range - 1)
    BY DEF Pairs
  <2>2. i0 \in 1..Len(lru) /\ i0 + 1 \in 1..Len(lru) /\ j \in 1..Len(used)
    BY <1>1 DEF Pairs
  <2>3. used[j] \in FakeHosts
    BY <1>1, <2>2, ElementOfSeq
  <2> HIDE DEF i0, k, a
  <2>4. \E x \in 1..Len(lru) : lru[x].key = k
    BY <2>1, <2>2 DEF PairAt, F!Entry
  <2>5. \E x \in 1..Len(lru) : lru[x].key = F!Key(a)
    BY <2>1, <2>2 DEF PairAt, F!Entry
  <2>6. F!Holds(lru, k) /\ F!Holds(lru, F!Key(a))
    <3>1. lru \in Seq(FakeEntries(range))
      BY DEF FakeTypes
    <3>2. QED
      BY <2>4, <2>5, <3>1, HeldIs
  <2>7. k # h /\ a # o
    BY <2>6
  <2>8. QED
    BY <2>1, <2>3, <2>7 DEF k, a
<1>4. /\ used'[1] = h /\ \A i \in 1..n : used'[i + 1] = used[i]
      /\ Len(used) <= Len(used') /\ Len(used') \in Nat
      /\ n = Len(used) => Len(used') = n + 1
  <2> DEFINE u == F!Use(h)
  <2>1. /\ u[1] = h
        /\ \A m \in 1..Len(used) : used[m] = h =>
                /\ Len(u) = Len(used)
                /\ \A i \in 2..m : u[i] = used[i - 1]
        /\ (\A m \in 1..Len(used) : used[m] # h) =>
                /\ Len(u) = Len(used) + 1
                /\ \A i \in 1..Len(used) : u[i + 1] = used[i]
    BY UseIs
  <2>2. used' = u
    OBVIOUS
  <2> HIDE DEF u
  <2>3. CASE \A m \in 1..Len(used) : used[m] # h
    BY <1>1, <2>1, <2>2, <2>3
  <2>4. CASE \E m \in 1..Len(used) : used[m] = h
    <3>1. PICK m \in 1..Len(used) : used[m] = h
      BY <2>4
    <3>2. m > n
      BY <1>1, <1>3, <3>1
    <3>3. Len(u) = Len(used) /\ \A i \in 2..m : u[i] = used[i - 1]
      BY <2>1, <3>1
    <3>4. \A i \in 1..n : i + 1 \in 2..m /\ (i + 1) - 1 = i
      BY <1>1, <3>2
    <3>5. \A i \in 1..n : u[i + 1] = used[i]
      BY <3>3, <3>4
    <3>6. n # Len(used)
      BY <1>1, <3>2
    <3>7. QED
      BY <1>1, <2>1, <2>2, <3>3, <3>5, <3>6
  <2>5. QED
    BY <2>3, <2>4
<1> DEFINE Is(i, k, a) == \/ lru'[i] = F!Entry(k, a) /\ lru'[i + 1] = F!Entry(F!Key(a), k)
                          \/ lru'[i] = F!Entry(F!Key(a), k) /\ lru'[i + 1] = F!Entry(k, a)
<1>5. N \in Nat /\ N \in 1..size /\ N <= n + 1 /\ (n < size => N = n + 1) /\ (n = size => N = n)
  BY <1>1, <1>21
<1>6. given'[h] = o /\ \A k \in FakeHosts : k # h => given'[k] = given[k]
  BY DEF FakeTypes
<1>7. ASSUME NEW j \in 2..N
      PROVE  /\ j - 1 \in 1..n /\ used'[j] = used[j - 1] /\ given'[used'[j]] = given[used[j - 1]]
             /\ Is(2 * (N - j) + 1, used[j - 1], given[used[j - 1]])
  <2>1. j - 1 \in 1..n /\ (j - 1) + 1 = j
    BY <1>1, <1>5
  <2>2. used'[j] = used[j - 1]
    BY <1>4, <2>1
  <2>3. given'[used'[j]] = given[used[j - 1]]
    BY <1>3, <1>6, <2>1, <2>2
  <2> DEFINE i == 2 * (N - j) + 1
  <2>4. /\ i \in 1..(2 * N - 2) /\ i + 1 \in 1..(2 * N - 2)
        /\ i + s = 2 * (n - (j - 1)) + 1 /\ (i + 1) + s = (i + s) + 1
    BY <1>1, <1>21
  <2>5. PairAt(2 * (n - (j - 1)) + 1, used[j - 1], given[used[j - 1]])
    BY <2>1 DEF Pairs
  <2> HIDE DEF i, s
  <2>6. lru'[i] = lru[i + s] /\ lru'[i + 1] = lru[(i + s) + 1]
    BY <1>2, <2>4
  <2>7. PairAt(i + s, used[j - 1], given[used[j - 1]])
    BY <2>4, <2>5
  <2>8. Is(i, used[j - 1], given[used[j - 1]])
    BY <2>6, <2>7 DEF PairAt
  <2> HIDE DEF Is
  <2>9. QED
    BY <2>1, <2>2, <2>3, <2>8 DEF i
<1>8. Is(2 * (N - 1) + 1, h, o)
  <2>1. 2 * (N - 1) + 1 = 2 * N - 1 /\ (2 * N - 1) + 1 = 2 * N
    BY <1>5
  <2>2. QED
    BY <1>2, <2>1
<1> HIDE DEF s
<1>9. ASSUME NEW j \in 1..N
      PROVE  given'[used'[j]] \in 0..(range' - 1) /\ PairAt(2 * (N - j) + 1, used[j], given[used[j]])'
  <2>1. CASE j = 1
    BY <1>4, <1>6, <1>8, <2>1 DEF PairAt
  <2>2. CASE j # 1
    <3>1. j \in 2..N
      BY <1>5, <2>2
    <3>2. /\ j - 1 \in 1..n /\ used'[j] = used[j - 1] /\ given'[used'[j]] = given[used[j - 1]]
          /\ Is(2 * (N - j) + 1, used[j - 1], given[used[j - 1]])
      BY <1>7, <3>1
    <3>3. given[used[j - 1]] \in 0..(range - 1)
      BY <1>3, <3>2
    <3>4. QED
      BY <3>2, <3>3 DEF PairAt
  <2>3. QED
    BY <2>1, <2>2
<1>10. ASSUME NEW i \in 1..N, NEW j \in 1..N, given'[used'[i]] = given'[used'[j]] PROVE i = j
  <2>1. ASSUME NEW x \in 1..N, x # 1
        PROVE  x - 1 \in 1..n /\ given'[used'[x]] = given[used[x - 1]] /\ given'[used'[x]] # o
    <3>1. x \in 2..N
      BY <1>5, <2>1
    <3>2. QED
      BY <1>3, <1>7, <3>1
  <2>2. given'[used'[1]] = o
    BY <1>4, <1>6
  <2>3. CASE i = 1 \/ j = 1
    BY <1>10, <2>1, <2>2, <2>3
  <2>4. CASE i # 1 /\ j # 1
    <3>1. i - 1 = j - 1
      BY <1>10, <2>1, <2>4 DEF Pairs
    <3>2. QED
      BY <1>5, <3>1
  <2>5. QED
    BY <2>3, <2>4
<1>11. N \in 0..size' /\ Len(lru') = 2 * N /\ N <= Len(used') /\ (N = size' \/ N = Len(used'))
  BY <1>1, <1>2, <1>4, <1>5
<1>12. Pairs(N)'
  <2>1. \A j \in 1..N : given'[used'[j]] \in 0..(range' - 1) /\ PairAt(2 * (N - j) + 1, used[j], given[used[j]])'
    BY <1>9
  <2>2. QED
    BY <1>10, <1>11, <2>1 DEF Pairs
<1>13. QED
  BY <1>5, <1>12

LEMMA PairsStay ==
    ASSUME F!FakeAssumption, FakeTypes, PairInv, [F!Next]_(F!vars)
    PROVE  PairInv'
<1>1. size' = size /\ range' = range
  BY DEF F!Next, F!Lookup, F!LookBack, F!Reload, F!vars
<1> SUFFICES ASSUME size < range PROVE \E n \in 0..size : Pairs(n)'
  BY <1>1 DEF PairInv
<1>2. PICK n \in 0..size : Pairs(n)
  BY DEF PairInv
<1>3. \A i \in 1..Len(used) : used[i] \in FakeHosts
  BY ElementOfSeq DEF FakeTypes
<1>4. ASSUME UNCHANGED <<lru, used, given>> PROVE Pairs(n)'
  BY <1>1, <1>2, <1>4 DEF Pairs, PairAt
<1>5. ASSUME NEW h \in FakeHosts, F!Lookup(h), F!Holds(lru, h) PROVE Pairs(n)'
  <2>1. PICK m \in 1..n : \E p, q \in {2 * (n - m) + 1, 2 * (n - m) + 2} :
              /\ p # q /\ used[m] = h
              /\ lru[p] = F!Entry(h, given[h]) /\ lru[q] = F!Entry(F!Key(given[h]), h)
              /\ F!ValueOf(lru, h) = given[h]
    BY <1>2, <1>5, NameHeld
  <2>2. PICK p, q \in {2 * (n - m) + 1, 2 * (n - m) + 2} :
              /\ p # q /\ used[m] = h
              /\ lru[p] = F!Entry(h, given[h]) /\ lru[q] = F!Entry(F!Key(given[h]), h)
              /\ F!ValueOf(lru, h) = given[h]
    BY <2>1
  <2>3. lru[p].key = h /\ lru[q].key = F!Key(given[h])
    BY <2>2 DEF F!Entry
  <2>4. lru' = F!Touch(F!Touch(lru, lru[p].key), lru[q].key)
    BY <1>5, <2>2, <2>3 DEF F!Lookup, F!ByHost
  <2>5. given' = given
    <3>1. given' = [given EXCEPT ![h] = given[h]]
      BY <1>5, <2>2 DEF F!Lookup
    <3>2. QED
      BY <3>1 DEF FakeTypes
  <2>6. used' = F!Use(used[m])
    BY <1>5, <2>2 DEF F!Lookup
  <2>7. QED
    BY <1>1, <1>2, <2>2, <2>4, <2>5, <2>6, PairsMove
<1>6. ASSUME NEW h \in FakeHosts, F!Lookup(h), ~F!Holds(lru, h) PROVE \E N \in 0..size : Pairs(N)'
  <2>1. F!NextOffset \in 0..(range - 1) /\ ~F!Holds(lru, F!Key(F!NextOffset))
    BY <1>2, OffsetIs, AddressIsFree
  <2>2. PICK o \in 0..(range - 1) : o = F!NextOffset
    BY <2>1
  <2>3. /\ lru' = F!Set(F!Set(lru, F!Key(o), h), h, o)
        /\ given' = [given EXCEPT ![h] = o] /\ used' = F!Use(h)
    BY <1>6, <2>2 DEF F!Lookup
  <2>4. QED
    BY <1>1, <1>2, <1>6, <2>1, <2>2, <2>3, PairsGrow
<1>7. ASSUME NEW h \in FakeHosts, F!LookBack(h) PROVE Pairs(n)'
  <2>1. CASE F!Holds(lru, F!Key(given[h]))
    <3>1. PICK a \in 0..(range - 1) : a = given[h]
      <4>1. given[h] \in 0..range /\ given[h] # range /\ range \in Nat
        BY <1>7, KeysApart DEF FakeTypes, F!LookBack, F!NoAddr
      <4>2. given[h] \in 0..(range - 1)
        BY <4>1
      <4>3. QED
        BY <4>2
    <3>2. PICK m \in 1..n : \E p, q \in {2 * (n - m) + 1, 2 * (n - m) + 2} :
              /\ p # q /\ given[used[m]] = a
              /\ lru[p] = F!Entry(F!Key(a), used[m]) /\ lru[q] = F!Entry(used[m], a)
              /\ F!ValueOf(lru, F!Key(a)) = used[m]
      BY <1>2, <2>1, <3>1, AddrHeld
    <3>3. PICK p, q \in {2 * (n - m) + 1, 2 * (n - m) + 2} :
              /\ p # q /\ given[used[m]] = a
              /\ lru[p] = F!Entry(F!Key(a), used[m]) /\ lru[q] = F!Entry(used[m], a)
              /\ F!ValueOf(lru, F!Key(a)) = used[m]
      BY <3>2
    <3>4. lru[p].key = F!Key(a) /\ lru[q].key = used[m]
      BY <3>3 DEF F!Entry
    <3>5. lru' = F!Touch(F!Touch(lru, lru[p].key), lru[q].key) /\ used' = F!Use(used[m]) /\ given' = given
      BY <1>7, <2>1, <3>1, <3>3, <3>4 DEF F!LookBack, F!ByAddr
    <3>6. QED
      BY <1>1, <1>2, <3>3, <3>5, PairsMove
  <2>2. CASE ~F!Holds(lru, F!Key(given[h]))
    BY <1>4, <1>7, <2>2 DEF F!LookBack
  <2>3. QED
    BY <2>1, <2>2
<1>8. CASE F!Reload \/ UNCHANGED F!vars
  BY <1>2, <1>4, <1>8 DEF F!Reload, F!vars
<1>9. QED
  BY <1>2, <1>5, <1>6, <1>7, <1>8 DEF F!Next

(* The start, and what follows.                                            *)
LEMMA FakeInit == ASSUME F!FakeAssumption, F!Init PROVE FakeTypes /\ PairInv
<1>1. /\ size \in Sizes /\ range \in Ranges /\ size \in Nat /\ range \in Nat \ {0}
      /\ offset = 0 /\ lru = <<>> /\ used = <<>>
      /\ given = [h \in FakeHosts |-> range]
  BY DEF F!Init, F!FakeAssumption, F!NoAddr
<1>2. lru \in Seq(FakeEntries(range)) /\ Len(lru) = 0 /\ used \in Seq(FakeHosts) /\ Len(used) = 0
  BY <1>1, EmptySeq
<1>3. FakeTypes
  <2>1. offset \in 0..(range - 1) /\ given \in [FakeHosts -> 0..range] /\ Len(lru) <= 2 * size
    BY <1>1, <1>2
  <2>2. QED
    BY <1>1, <1>2, <2>1 DEF FakeTypes, OnceEach
<1>4. Pairs(0) /\ 0 \in 0..size
  BY <1>1, <1>2 DEF Pairs
<1>5. QED
  BY <1>3, <1>4 DEF PairInv

LEMMA FakeHolds ==
    ASSUME F!FakeAssumption, FakeTypes, PairInv PROVE F!TypeOK /\ F!RecentRemembered
<1>1. F!TypeOK
  <2>1. DOMAIN lru = 1..Len(lru)
    BY LenProperties DEF FakeTypes
  <2>2. 0..range = (0..(range - 1)) \cup {range}
    BY KeysApart
  <2>3. QED
    BY <2>1, <2>2 DEF FakeTypes, F!TypeOK, OnceEach, F!Addrs, F!NoAddr
<1>2. F!RecentRemembered
  <2> SUFFICES ASSUME size < range, NEW i \in DOMAIN used, i <= size
               PROVE  LET h == used[i] IN
                      /\ F!Holds(lru, h) /\ F!ValueOf(lru, h) = given[h]
                      /\ F!Holds(lru, F!Key(given[h])) /\ F!ValueOf(lru, F!Key(given[h])) = h
    BY DEF F!RecentRemembered
  <2>1. PICK n \in 0..size : Pairs(n)
    BY DEF PairInv
  <2>2. i \in 1..n /\ n \in Nat /\ i \in 1..Len(used)
    <3>1. DOMAIN used = 1..Len(used) /\ Len(used) \in Nat /\ size \in Nat
      BY LenProperties, KeysApart DEF FakeTypes
    <3>2. n = size \/ n = Len(used)
      BY <2>1 DEF Pairs
    <3>3. i \in 1..Len(used) /\ n \in Nat
      BY <3>1
    <3>4. i <= n
      <4>1. CASE n = size
        BY <4>1
      <4>2. CASE n = Len(used)
        BY <3>3, <4>2
      <4>3. QED
        BY <3>2, <4>1, <4>2
    <3>5. i \in Nat /\ 1 <= i
      BY <3>1, <3>3
    <3>6. QED
      BY <3>3, <3>4, <3>5
  <2> DEFINE h == used[i]
             a == given[h]
             i0 == 2 * (n - i) + 1
  <2>3. PairAt(i0, h, a)
    BY <2>1, <2>2 DEF Pairs
  <2>4. i0 \in 1..Len(lru) /\ i0 + 1 \in 1..Len(lru)
    BY <2>1, <2>2 DEF Pairs
  <2> HIDE DEF h, a, i0
  <2>5. \E p, q \in 1..Len(lru) : lru[p] = F!Entry(h, a) /\ lru[q] = F!Entry(F!Key(a), h)
    BY <2>3, <2>4 DEF PairAt
  <2>6. PICK p, q \in 1..Len(lru) : lru[p] = F!Entry(h, a) /\ lru[q] = F!Entry(F!Key(a), h)
    BY <2>5
  <2>7. lru[p].key = h /\ lru[p].value = a /\ lru[q].key = F!Key(a) /\ lru[q].value = h
    BY <2>6 DEF F!Entry
  <2>8. /\ F!Holds(lru, h) /\ F!ValueOf(lru, h) = a
        /\ F!Holds(lru, F!Key(a)) /\ F!ValueOf(lru, F!Key(a)) = h
    BY <2>7, PlaceIs DEF FakeTypes
  <2>9. QED
    BY <2>8 DEF h, a
<1>3. QED
  BY <1>1, <1>2

(* The gateway is handed out last.                                         *)
LEMMA GatewayStep ==
    ASSUME F!FakeAssumption, FakeTypes, [F!Next]_(F!vars)
    PROVE  [\A h \in FakeHosts : given'[h] = 0 /\ given[h] # 0 /\ ~F!Holds(lru, h) =>
                \A a \in F!Addrs \ {0} : F!Holds(lru, F!Key(a)) \/ offset >= a]_(F!vars)
<1> SUFFICES ASSUME NEW h \in FakeHosts, given'[h] = 0, given[h] # 0, ~F!Holds(lru, h),
                    NEW a \in F!Addrs \ {0}, ~F!Holds(lru, F!Key(a))
             PROVE  offset >= a
  OBVIOUS
<1>1. /\ range \in Nat \ {0} /\ offset \in 0..(range - 1) /\ a \in 1..(range - 1)
      /\ given \in [FakeHosts -> 0..range]
  BY KeysApart DEF FakeTypes, F!Addrs
<1>2. F!NextOffset = 0
  <2>1. PICK k \in FakeHosts : F!Lookup(k)
    BY DEF F!Next, F!LookBack, F!Reload, F!vars
  <2>2. given' = [given EXCEPT ![k] = IF F!Holds(lru, k) THEN F!ValueOf(lru, k) ELSE F!NextOffset]
    BY <2>1 DEF F!Lookup
  <2>3. k = h
    BY <1>1, <2>2
  <2>4. QED
    BY <1>1, <2>2, <2>3
<1>3. \A x \in 0..(range - 1) : x % range = x /\ (x + range) % range = x
  <2>1. ASSUME NEW y \in Nat \ {0}, NEW x \in Nat, x < y PROVE x % y = x /\ (x + y) % y = x
    <3>1. (y * 0 + x) % y = x /\ (y * 1 + x) % y = x
      BY <2>1
    <3>2. QED
      BY <2>1, <3>1
  <2>2. QED
    BY <1>1, <2>1
<1> SUFFICES ASSUME offset < a PROVE FALSE
  BY <1>1
<1> DEFINE d0 == a - offset
<1>4. d0 \in FreeSteps
  <2>1. d0 \in 1..(range - 1) /\ offset + d0 = a /\ a \in 0..(range - 1)
    BY <1>1
  <2>2. (offset + d0) % range = a
    BY <1>3, <2>1
  <2> HIDE DEF d0
  <2>3. QED
    BY <2>1, <2>2 DEF FreeSteps
<1>5. PICK d \in FreeSteps : F!NextOffset = (offset + d) % range /\ \A e \in FreeSteps : d <= e
  BY <1>4, OffsetIs
<1>6. d \in 1..(range - 1) /\ d <= d0
  BY <1>4, <1>5 DEF FreeSteps
<1>7. offset + d \in 0..(range - 1) /\ offset + d # 0
  BY <1>1, <1>6
<1>8. (offset + d) % range = offset + d
  BY <1>3, <1>7
<1>9. QED
  BY <1>2, <1>5, <1>7, <1>8

(* Of every pool of fake addresses whose range is larger than its size:    *)
(* the names used last are remembered in both directions, each with an     *)
(* address of its own, whatever else is looked up, led back or reloaded.   *)
THEOREM RecentNamesLeadBack ==
    ASSUME F!FakeAssumption PROVE F!Spec => [](F!TypeOK /\ F!RecentRemembered)
<1>1. F!Init => FakeTypes /\ PairInv
  BY FakeInit
<1>2. FakeTypes /\ PairInv /\ [F!Next]_(F!vars) => (FakeTypes /\ PairInv)'
  BY FakeTypesStay, PairsStay
<1>3. FakeTypes /\ PairInv => F!TypeOK /\ F!RecentRemembered
  BY FakeHolds
<1>4. QED
  BY <1>1, <1>2, <1>3, PTL DEF F!Spec

(* The address of the gateway, which is not treated as a fake one, is      *)
(* handed out only when every other address after the present one is held. *)
THEOREM GatewayIsLast == ASSUME F!FakeAssumption PROVE F!Spec => F!GatewayLast
<1>1. F!Init => FakeTypes
  BY FakeInit
<1>2. FakeTypes /\ [F!Next]_(F!vars) => FakeTypes'
  BY FakeTypesStay
<1>3. FakeTypes /\ [F!Next]_(F!vars) =>
        [\A h \in FakeHosts : given'[h] = 0 /\ given[h] # 0 /\ ~F!Holds(lru, h) =>
                \A a \in F!Addrs \ {0} : F!Holds(lru, F!Key(a)) \/ offset >= a]_(F!vars)
  BY GatewayStep
<1>4. QED
  BY <1>1, <1>2, <1>3, PTL DEF F!Spec, F!GatewayLast

-----------------------------------------------------------------------------
(* CONFIGURATIONS: any nodes, groups, rules and orders of the maps.        *)

(* What a configuration says, as sets: who names whom, at which places,    *)
(* which groups are good.                                                  *)
Ties == {e \in C!Names \X C!Names : C!Step(e[1], e[2])}
MarkSet == UNION {{g} \X DOMAIN C!Members(g) : g \in C!GroupNames}
MarkOf == [at \in MarkSet |-> C!Members(at[1])[at[2]]]
MarksOn(n, S) == {at \in MarkSet : at[1] \in S /\ MarkOf[at] = n}
GroupOf == [n \in C!GroupNames |-> C!Group(n)]
NodeNames == C!Elements(raw.nodes)
Own == {"DIRECT", "REJECT"} \cup NodeNames
NodesDistinct == \A i, j \in DOMAIN raw.nodes : raw.nodes[i] = raw.nodes[j] => i = j
NodesFit == NodesDistinct /\ NodeNames \cap {"DIRECT", "REJECT"} = {}
GroupsDistinct == \A i, j \in DOMAIN C!Groups : C!Groups[i].name = C!Groups[j].name => i = j
GoodGroup(g) ==
    /\ g.name \notin Own /\ C!Elements(g.proxies) \subseteq C!Everything
    /\ g.use \subseteq raw.providers /\ (g.proxies # <<>> \/ g.use # {})
    /\ (g.use = {} => g.name \notin raw.providers) /\ g.type # "other"
GoodGroups == {n \in C!GroupNames : GoodGroup(C!Group(n))}
DNSFits == ~C!DNSError(raw.dns)

LEMMA CountIsCount == ASSUME NEW T PROVE C!Cardinality(T) = Cardinality(T)
  BY DEF C!Cardinality, Cardinality

(* Nothing that is said of the configuration changes while it is read.     *)
LEMMA SameRaw ==
    ASSUME raw' = raw
    PROVE  /\ C!Groups' = C!Groups /\ C!GroupNames' = C!GroupNames /\ C!Names' = C!Names
           /\ Ties' = Ties /\ GroupOf' = GroupOf
           /\ MarkSet' = MarkSet /\ MarkOf' = MarkOf
           /\ NodeNames' = NodeNames /\ Own' = Own /\ C!Everything' = C!Everything
           /\ (NodesFit <=> NodesFit') /\ (GroupsDistinct <=> GroupsDistinct')
           /\ GoodGroups' = GoodGroups /\ (DNSFits <=> DNSFits')
<1>1. C!Groups' = C!Groups
  BY DEF C!Groups
<1>2. C!GroupNames' = C!GroupNames
  BY <1>1 DEF C!GroupNames
<1>3. C!Mentioned' = C!Mentioned
  BY <1>1 DEF C!Mentioned, C!Elements
<1>4. C!Names' = C!Names
  BY <1>2, <1>3 DEF C!Names
<1>5. GroupOf' = GroupOf
  BY <1>1, <1>2 DEF GroupOf, C!Group
<1>6. Ties' = Ties
  BY <1>1, <1>2, <1>4 DEF Ties, C!Step, C!Members, C!Elements, C!IsGroup, C!Group
<1>7. MarkSet' = MarkSet
  BY <1>1, <1>2 DEF MarkSet, C!Members, C!IsGroup, C!Group
<1>8. MarkOf' = MarkOf
  BY <1>1, <1>2, <1>7 DEF MarkOf, C!Members, C!IsGroup, C!Group
<1>9. NodeNames' = NodeNames
  BY DEF NodeNames, C!Elements
<1>10. Own' = Own
  BY <1>9 DEF Own
<1>11. C!Everything' = C!Everything
  BY <1>2, <1>9 DEF C!Everything, NodeNames
<1>12. (NodesFit <=> NodesFit') /\ (GroupsDistinct <=> GroupsDistinct') /\ (DNSFits <=> DNSFits')
  BY <1>1, <1>9 DEF NodesFit, NodesDistinct, GroupsDistinct, DNSFits, C!DNSError
<1>13. GoodGroups' = GoodGroups
  BY <1>1, <1>2, <1>10, <1>11 DEF GoodGroups, GoodGroup, C!Group, C!Elements
<1>14. QED
  BY <1>1, <1>2, <1>4, <1>5, <1>6, <1>7, <1>8, <1>9, <1>10, <1>11, <1>12, <1>13

LEMMA SameLoops ==
    ASSUME raw' = raw
    PROVE  C!OnLoop' = C!OnLoop /\ C!Between' = C!Between /\ (C!Sound <=> C!Sound')
<1>1. C!Groups' = C!Groups /\ C!GroupNames' = C!GroupNames /\ C!Names' = C!Names /\ C!Everything' = C!Everything
  BY SameRaw
<1>2. C!OnLoop' = C!OnLoop
  BY <1>1 DEF C!OnLoop, C!Reaches, C!After, C!Closed, C!Step, C!Members, C!Elements, C!IsGroup, C!Group
<1>3. C!Between' = C!Between
  BY <1>1, <1>2 DEF C!Between, C!Reaches, C!After, C!Closed, C!Step, C!Members, C!Elements, C!IsGroup, C!Group
<1>4. C!Mentioned' = C!Mentioned
  BY <1>1 DEF C!Mentioned, C!Elements
<1>5. C!Sound <=> C!Sound'
  BY <1>1, <1>2, <1>4 DEF C!Sound, C!Distinct, C!Elements
<1>6. QED
  BY <1>2, <1>3, <1>5

(* Sequences without repetition.                                           *)
Apart(s) == \A i, j \in DOMAIN s : s[i] = s[j] => i = j

LEMMA ElementsAre ==
    ASSUME NEW E, NEW s \in Seq(E)
    PROVE  /\ C!Elements(s) \subseteq E /\ IsFiniteSet(C!Elements(s))
           /\ Cardinality(C!Elements(s)) <= Len(s)
           /\ Cardinality(C!Elements(s)) = Len(s) <=> Apart(s)
<1>1. Len(s) \in Nat /\ DOMAIN s = 1..Len(s) /\ s \in [1..Len(s) -> E]
  BY LenProperties
<1>2. s \in Surjection(1..Len(s), C!Elements(s))
  BY <1>1 DEF Surjection, C!Elements
<1>3. IsFiniteSet(1..Len(s)) /\ Cardinality(1..Len(s)) = Len(s)
  BY <1>1, FS_Interval
<1>4. /\ IsFiniteSet(C!Elements(s)) /\ Cardinality(C!Elements(s)) <= Len(s)
      /\ Cardinality(C!Elements(s)) = Len(s) <=> s \in Injection(1..Len(s), C!Elements(s))
  BY <1>2, <1>3, FS_Surjection
<1>5. s \in Injection(1..Len(s), C!Elements(s)) <=> Apart(s)
  BY <1>1, <1>2 DEF Injection, Apart, Surjection, IsInjective
<1>6. QED
  BY <1>1, <1>4, <1>5 DEF C!Elements

(* What the groups are.                                                    *)
LEMMA GroupsAre ==
    ASSUME C!ConfigAssumption, raw \in Raws
    PROVE  /\ C!Groups \in Seq(C!Elements(C!Groups)) /\ IsFiniteSet(C!Names)
           /\ C!GroupNames \subseteq C!Names
           /\ \A n \in C!GroupNames : \E i \in DOMAIN C!Groups : GroupOf[n] = C!Groups[i] /\ C!Groups[i].name = n
           /\ \A n : C!Members(n) \in Seq(C!Names)
           /\ \A n : n \notin C!GroupNames => C!Members(n) = <<>>
           /\ \A n \in C!GroupNames : C!Members(n) = GroupOf[n].proxies
<1>1. /\ C!Groups \in Seq(C!Elements(C!Groups))
      /\ \A g \in C!Elements(C!Groups) : g.proxies \in Seq(C!Elements(g.proxies))
  BY DEF C!ConfigAssumption, C!Groups
<1>2. ASSUME NEW n \in C!GroupNames
      PROVE  /\ \E i \in DOMAIN C!Groups : GroupOf[n] = C!Groups[i] /\ C!Groups[i].name = n
             /\ C!Members(n) = GroupOf[n].proxies
  <2> DEFINE w == CHOOSE j \in DOMAIN C!Groups : C!Groups[j].name = n
  <2>1. \E i \in DOMAIN C!Groups : C!Groups[i].name = n
    BY <1>2 DEF C!GroupNames
  <2>2. w \in DOMAIN C!Groups /\ C!Groups[w].name = n
    BY <2>1
  <2>3. C!Group(n) = C!Groups[w]
    BY DEF C!Group
  <2> HIDE DEF w
  <2>4. GroupOf[n] = C!Groups[w] /\ C!Members(n) = C!Groups[w].proxies
    BY <1>2, <2>3 DEF GroupOf, C!Members, C!IsGroup
  <2>5. QED
    BY <2>2, <2>4
<1>3. ASSUME NEW n, n \notin C!GroupNames PROVE C!Members(n) = <<>> /\ C!Members(n) \in Seq(C!Names)
  BY <1>3 DEF C!Members, C!IsGroup
<1>4. ASSUME NEW i \in DOMAIN C!Groups
      PROVE  C!Groups[i] \in C!Elements(C!Groups) /\ C!Groups[i].proxies \in Seq(C!Names)
  <2>1. C!Groups[i] \in C!Elements(C!Groups)
    BY DEF C!Elements
  <2>2. C!Elements(C!Groups[i].proxies) \subseteq C!Names
    BY DEF C!Names, C!Mentioned
  <2>3. QED
    BY <1>1, <2>1, <2>2, SeqMonotonic
<1>5. ASSUME NEW n \in C!GroupNames PROVE C!Members(n) \in Seq(C!Names)
  BY <1>2, <1>4
<1>6. IsFiniteSet(C!Names)
  <2> DEFINE Parts == {C!Elements(C!Groups[i].proxies) : i \in DOMAIN C!Groups}
             f == [i \in DOMAIN C!Groups |-> C!Elements(C!Groups[i].proxies)]
             h == [i \in DOMAIN C!Groups |-> C!Groups[i].name]
  <2>1. IsFiniteSet(DOMAIN C!Groups)
    <3>1. DOMAIN C!Groups = 1..Len(C!Groups) /\ Len(C!Groups) \in Nat
      BY <1>1, LenProperties
    <3>2. QED
      BY <3>1, FS_Interval
  <2>2. IsFiniteSet(Parts)
    <3>1. f \in Surjection(DOMAIN C!Groups, Parts)
      BY DEF Surjection
    <3>2. QED
      BY <2>1, <3>1, FS_Surjection
  <2>3. IsFiniteSet(C!GroupNames)
    <3>1. h \in Surjection(DOMAIN C!Groups, C!GroupNames)
      BY DEF Surjection, C!GroupNames
    <3>2. QED
      BY <2>1, <3>1, FS_Surjection
  <2>4. ASSUME NEW T \in Parts PROVE IsFiniteSet(T)
    BY <1>4, ElementsAre
  <2> HIDE DEF Parts
  <2>5. IsFiniteSet(UNION Parts)
    BY <2>2, <2>4, FS_UNION
  <2>6. C!Names = C!GroupNames \cup UNION Parts
    BY DEF C!Names, C!Mentioned, Parts
  <2>7. QED
    BY <2>3, <2>5, <2>6, FS_Union
<1>7. QED
  BY <1>1, <1>2, <1>3, <1>5, <1>6 DEF C!Names

(* A tie joins names, and comes from a group.                              *)
LEMMA TiesAre ==
    ASSUME C!ConfigAssumption, raw \in Raws
    PROVE  /\ \A n, m : C!Step(n, m) <=> <<n, m>> \in Ties
           /\ Ties \subseteq C!GroupNames \X C!Names
           /\ \A n : C!Elements(C!Members(n)) = {m \in C!Names : <<n, m>> \in Ties}
<1>1. ASSUME NEW n, NEW m, C!Step(n, m) PROVE n \in C!GroupNames /\ m \in C!Names
  <2>1. C!Members(n) \in Seq(C!Names) /\ m \in C!Elements(C!Members(n))
    BY <1>1, GroupsAre DEF C!Step
  <2>2. m \in C!Names
    BY <2>1, ElementsAre
  <2>3. C!Members(n) # <<>>
    BY <2>1 DEF C!Elements
  <2>4. QED
    BY <2>2, <2>3, GroupsAre
<1>2. C!GroupNames \subseteq C!Names
  BY GroupsAre
<1>3. \A n, m : C!Step(n, m) <=> <<n, m>> \in Ties
  BY <1>1, <1>2 DEF Ties
<1>4. Ties \subseteq C!GroupNames \X C!Names
  BY <1>1, <1>2 DEF Ties
<1>5. ASSUME NEW n PROVE C!Elements(C!Members(n)) = {m \in C!Names : <<n, m>> \in Ties}
  BY <1>1, <1>3 DEF C!Step
<1>6. QED
  BY <1>3, <1>4, <1>5

(* Reachability: the first and the last tie of a way, and ways put         *)
(* together.                                                               *)
LEMMA WaysAre ==
    ASSUME C!ConfigAssumption, raw \in Raws, NEW n \in C!Names
    PROVE  /\ C!After(n) \subseteq C!Names
           /\ \A m \in C!Names : <<n, m>> \in Ties => m \in C!After(n)
           /\ \A k \in C!After(n), m \in C!Names : <<k, m>> \in Ties => m \in C!After(n)
           /\ \A k \in C!After(n) : C!After(k) \subseteq C!After(n)
           /\ \A m \in C!After(n) : \E k \in C!Names : <<k, m>> \in Ties /\ (k = n \/ k \in C!After(n))
           /\ \A m \in C!After(n) : \E k \in C!Names : <<n, k>> \in Ties /\ (k = m \/ m \in C!After(k))
<1>1. \A x, S : C!Closed(x, S) <=> /\ \A m \in C!Names : <<x, m>> \in Ties => m \in S
                                   /\ \A k \in S, m \in C!Names : <<k, m>> \in Ties => m \in S
  BY TiesAre DEF C!Closed
<1>2. \A x : C!After(x) \subseteq C!Names
  BY DEF C!After
<1>3. ASSUME NEW x PROVE C!Closed(x, C!After(x))
  <2>1. ASSUME NEW m \in C!Names, <<x, m>> \in Ties PROVE m \in C!After(x)
    BY <1>1, <2>1 DEF C!After
  <2>2. ASSUME NEW k \in C!After(x), NEW m \in C!Names, <<k, m>> \in Ties PROVE m \in C!After(x)
    <3>1. ASSUME NEW S \in SUBSET C!Names, C!Closed(x, S) PROVE m \in S
      BY <1>1, <2>2, <3>1 DEF C!After
    <3>2. QED
      BY <3>1 DEF C!After
  <2>3. QED
    BY <1>1, <2>1, <2>2
<1>4. \A x, m : \A S \in SUBSET C!Names : C!Closed(x, S) /\ m \in C!After(x) => m \in S
  BY DEF C!After
<1>5. ASSUME NEW k \in C!After(n) PROVE C!After(k) \subseteq C!After(n)
  <2>1. C!Closed(k, C!After(n))
    BY <1>1, <1>3, <1>5
  <2>2. QED
    BY <1>2, <1>4, <2>1
<1>6. ASSUME NEW m \in C!After(n)
      PROVE  \E k \in C!Names : <<k, m>> \in Ties /\ (k = n \/ k \in C!After(n))
  <2> DEFINE S == {x \in C!After(n) : \E k \in C!Names : <<k, x>> \in Ties /\ (k = n \/ k \in C!After(n))}
  <2>1. S \in SUBSET C!Names
    BY <1>2
  <2>2. C!Closed(n, S)
    <3>1. \A x \in C!Names : <<n, x>> \in Ties => x \in S
      BY <1>1, <1>3
    <3>2. \A k \in S, x \in C!Names : <<k, x>> \in Ties => x \in S
      BY <1>1, <1>2, <1>3
    <3> HIDE DEF S
    <3>3. QED
      BY <1>1, <3>1, <3>2
  <2>3. m \in S
    BY <1>4, <1>6, <2>1, <2>2
  <2>4. QED
    BY <2>3
<1>7. ASSUME NEW m \in C!After(n)
      PROVE  \E k \in C!Names : <<n, k>> \in Ties /\ (k = m \/ m \in C!After(k))
  <2> DEFINE S == {x \in C!After(n) : \E k \in C!Names : <<n, k>> \in Ties /\ (k = x \/ x \in C!After(k))}
  <2>1. S \in SUBSET C!Names
    BY <1>2
  <2>2. C!Closed(n, S)
    <3>1. \A x \in C!Names : <<n, x>> \in Ties => x \in S
      BY <1>1, <1>3
    <3>2. ASSUME NEW y \in S, NEW x \in C!Names, <<y, x>> \in Ties PROVE x \in S
      <4>1. x \in C!After(n)
        BY <1>1, <1>3, <3>2
      <4>2. PICK k \in C!Names : <<n, k>> \in Ties /\ (k = y \/ y \in C!After(k))
        BY <3>2
      <4>3. x \in C!After(k)
        BY <1>1, <1>3, <3>2, <4>2
      <4>4. QED
        BY <4>1, <4>2, <4>3
    <3> HIDE DEF S
    <3>3. QED
      BY <1>1, <3>1, <3>2
  <2>3. m \in S
    BY <1>4, <1>7, <2>1, <2>2
  <2>4. QED
    BY <2>3
<1>8. QED
  BY <1>1, <1>2, <1>3, <1>5, <1>6, <1>7

(* Every name on a loop, or between two, is reached from such a name and   *)
(* reaches one by a tie.                                                   *)
LEMMA LoopsGoOn ==
    ASSUME C!ConfigAssumption, raw \in Raws
    PROVE  /\ C!OnLoop \subseteq C!Between /\ C!Between \subseteq C!Names
           /\ \A m \in C!Between : \E k \in C!Between : <<k, m>> \in Ties
           /\ \A n \in C!Between : \E k \in C!Between : <<n, k>> \in Ties
<1>1. /\ C!OnLoop = {n \in C!Names : n \in C!After(n)}
      /\ C!Between = {n \in C!Names : /\ \E l \in C!OnLoop : n \in C!After(l)
                                      /\ \E l \in C!OnLoop : l \in C!After(n)}
  BY DEF C!OnLoop, C!Between, C!Reaches
<1>2. C!OnLoop \subseteq C!Between
  BY <1>1
<1>3. ASSUME NEW m \in C!Between PROVE \E k \in C!Between : <<k, m>> \in Ties
  <2>1. PICK l \in C!OnLoop : m \in C!After(l)
    BY <1>1
  <2>2. PICK o \in C!OnLoop : o \in C!After(m)
    BY <1>1
  <2>3. PICK k \in C!Names : <<k, m>> \in Ties /\ (k = l \/ k \in C!After(l))
    BY <1>1, <2>1, WaysAre
  <2>4. o \in C!After(k)
    BY <1>1, <2>2, <2>3, WaysAre
  <2>5. k \in C!After(l)
    BY <1>1, <2>3
  <2>6. QED
    BY <1>1, <2>3, <2>4, <2>5
<1>4. ASSUME NEW n \in C!Between PROVE \E k \in C!Between : <<n, k>> \in Ties
  <2>1. PICK l \in C!OnLoop : n \in C!After(l)
    BY <1>1
  <2>2. PICK o \in C!OnLoop : o \in C!After(n)
    BY <1>1
  <2>3. PICK k \in C!Names : <<n, k>> \in Ties /\ (k = o \/ o \in C!After(k))
    BY <1>1, <2>2, WaysAre
  <2>4. k \in C!After(l)
    BY <1>1, <2>1, <2>3, WaysAre
  <2>5. o \in C!After(k)
    BY <1>1, <2>3
  <2>6. QED
    BY <1>1, <2>3, <2>4, <2>5
<1>5. QED
  BY <1>1, <1>2, <1>3, <1>4

(* Names each of which is tied to by one of them are reached from loops,   *)
(* and names each of which is tied to one of them lead to loops.           *)
LEMMA LoopsBefore ==
    ASSUME C!ConfigAssumption, raw \in Raws, NEW S \in SUBSET C!Names, NEW n \in S,
           \A m \in S : \E k \in S : <<k, m>> \in Ties
    PROVE  \E l \in C!OnLoop : n \in C!After(l)
<1> DEFINE Bad == {m \in S : \A l \in C!OnLoop : m \notin C!After(l)}
           D(m) == {k \in S : m \in C!After(k)}
           Ds == {D(m) : m \in Bad}
<1>1. SUFFICES ASSUME Bad # {} PROVE FALSE
  OBVIOUS
<1>2. Ds \subseteq FiniteSubsetsOf(S) /\ Ds # {}
  <2>1. IsFiniteSet(S)
    BY GroupsAre, FS_Subset
  <2>2. ASSUME NEW m \in Bad PROVE D(m) \in SUBSET S /\ IsFiniteSet(D(m))
    BY <2>1, FS_Subset
  <2> HIDE DEF D, Bad
  <2>3. QED
    BY <1>1, <2>2 DEF FiniteSubsetsOf
<1>3. PICK low \in Ds : \A d \in Ds : ~(<<d, low>> \in StrictSubsetOrdering(S))
  <2> HIDE DEF Ds
  <2>1. QED
    BY <1>2, FS_StrictSubsetOrderingWellFounded, WFMin
<1>4. PICK m \in Bad : low = D(m)
  OBVIOUS
<1>5. PICK k \in S : <<k, m>> \in Ties
  OBVIOUS
<1>6. m \in C!After(k) /\ \A x \in C!Names : k \in C!After(x) => m \in C!After(x)
  BY <1>5, WaysAre
<1>7. \A x \in C!Names : x \in C!OnLoop <=> x \in C!After(x)
  BY DEF C!OnLoop, C!Reaches
<1>8. C!OnLoop \subseteq C!Names
  BY DEF C!OnLoop
<1>9. k \notin C!After(k) /\ k \in Bad
  BY <1>6, <1>7, <1>8
<1>10. D(k) \subseteq D(m) /\ k \in D(m) /\ k \notin D(k)
  BY <1>6, <1>9
<1>11. <<D(k), low>> \in StrictSubsetOrdering(S)
  BY <1>4, <1>10 DEF StrictSubsetOrdering
<1>12. QED
  BY <1>3, <1>9, <1>11

LEMMA LoopsBehind ==
    ASSUME C!ConfigAssumption, raw \in Raws, NEW S \in SUBSET C!Names, NEW n \in S,
           \A m \in S : \E k \in S : <<m, k>> \in Ties
    PROVE  \E l \in C!OnLoop : l \in C!After(n)
<1> DEFINE Bad == {m \in S : \A l \in C!OnLoop : l \notin C!After(m)}
           D(m) == {k \in S : k \in C!After(m)}
           Ds == {D(m) : m \in Bad}
<1>1. SUFFICES ASSUME Bad # {} PROVE FALSE
  OBVIOUS
<1>2. Ds \subseteq FiniteSubsetsOf(S) /\ Ds # {}
  <2>1. IsFiniteSet(S)
    BY GroupsAre, FS_Subset
  <2>2. ASSUME NEW m \in Bad PROVE D(m) \in SUBSET S /\ IsFiniteSet(D(m))
    BY <2>1, FS_Subset
  <2> HIDE DEF D, Bad
  <2>3. QED
    BY <1>1, <2>2 DEF FiniteSubsetsOf
<1>3. PICK low \in Ds : \A d \in Ds : ~(<<d, low>> \in StrictSubsetOrdering(S))
  <2> HIDE DEF Ds
  <2>1. QED
    BY <1>2, FS_StrictSubsetOrderingWellFounded, WFMin
<1>4. PICK m \in Bad : low = D(m)
  OBVIOUS
<1>5. PICK k \in S : <<m, k>> \in Ties
  OBVIOUS
<1>6. k \in C!After(m) /\ C!After(k) \subseteq C!After(m)
  BY <1>5, WaysAre
<1>7. \A x \in C!Names : x \in C!OnLoop <=> x \in C!After(x)
  BY DEF C!OnLoop, C!Reaches
<1>8. k \notin C!After(k) /\ k \in Bad
  BY <1>6, <1>7
<1>9. D(k) \subseteq D(m) /\ k \in D(m) /\ k \notin D(k)
  BY <1>6, <1>8
<1>10. <<D(k), low>> \in StrictSubsetOrdering(S)
  BY <1>4, <1>9 DEF StrictSubsetOrdering
<1>11. QED
  BY <1>3, <1>8, <1>10

(* Counting mentions.                                                      *)
LEMMA MarksAre ==
    ASSUME C!ConfigAssumption, raw \in Raws, NEW n \in C!Names, NEW S \in SUBSET C!GroupNames
    PROVE  /\ C!Mentions(n, S) = MarksOn(n, S) /\ IsFiniteSet(MarksOn(n, S))
           /\ Cardinality(MarksOn(n, S)) \in Nat
           /\ Cardinality(MarksOn(n, S)) = 0 <=> \A g \in S : <<g, n>> \notin Ties
<1>1. C!Mentions(n, S) = MarksOn(n, S)
  BY DEF C!Mentions, MarksOn, MarkSet, MarkOf
<1>2. IsFiniteSet(MarkSet)
  <2> DEFINE f == [g \in C!GroupNames |-> {g} \X DOMAIN C!Members(g)]
             Parts == {{g} \X DOMAIN C!Members(g) : g \in C!GroupNames}
  <2>1. IsFiniteSet(C!GroupNames)
    BY GroupsAre, FS_Subset
  <2>2. IsFiniteSet(Parts)
    <3>1. f \in Surjection(C!GroupNames, Parts)
      BY DEF Surjection
    <3>2. QED
      BY <2>1, <3>1, FS_Surjection
  <2>3. ASSUME NEW g \in C!GroupNames PROVE IsFiniteSet({g} \X DOMAIN C!Members(g))
    <3>1. C!Members(g) \in Seq(C!Names)
      BY GroupsAre
    <3>2. DOMAIN C!Members(g) = 1..Len(C!Members(g)) /\ Len(C!Members(g)) \in Nat
      BY <3>1, LenProperties
    <3>3. IsFiniteSet(DOMAIN C!Members(g))
      BY <3>2, FS_Interval
    <3>4. IsFiniteSet({g})
      BY FS_Singleton
    <3>5. QED
      BY <3>3, <3>4, FS_Product
  <2>4. \A T \in Parts : IsFiniteSet(T)
    BY <2>3
  <2> HIDE DEF Parts
  <2>5. IsFiniteSet(UNION Parts)
    BY <2>2, <2>4, FS_UNION
  <2>6. QED
    BY <2>5 DEF MarkSet, Parts
<1>3. IsFiniteSet(MarksOn(n, S))
  BY <1>2, FS_Subset DEF MarksOn
<1>4. MarksOn(n, S) = {} <=> \A g \in S : <<g, n>> \notin Ties
  <2>1. ASSUME NEW at \in MarksOn(n, S) PROVE at[1] \in S /\ <<at[1], n>> \in Ties
    <3>1. at[1] \in S /\ at[2] \in DOMAIN C!Members(at[1]) /\ C!Members(at[1])[at[2]] = n
      BY <2>1 DEF MarksOn, MarkSet, MarkOf
    <3>2. QED
      BY <3>1, TiesAre DEF C!Step, C!Elements
  <2>2. ASSUME NEW g \in S, <<g, n>> \in Ties PROVE MarksOn(n, S) # {}
    <3>1. PICK i \in DOMAIN C!Members(g) : C!Members(g)[i] = n
      BY <2>2, TiesAre DEF C!Step, C!Elements
    <3>2. <<g, i>> \in MarksOn(n, S)
      BY <3>1 DEF MarksOn, MarkSet, MarkOf
    <3>3. QED
      BY <3>2
  <2>3. QED
    BY <2>1, <2>2
<1>5. QED
  BY <1>1, <1>3, <1>4, FS_CardinalityType, FS_EmptySet

(* What one name mentions of another, and what the count loses when it     *)
(* goes.                                                                   *)
LEMMA LostIs ==
    ASSUME C!ConfigAssumption, raw \in Raws, NEW g, NEW n
    PROVE  /\ C!Lost(g, n) \in Nat
           /\ C!Lost(g, n) = 0 <=> <<g, n>> \notin Ties
           /\ C!Lost(g, n) = Cardinality({i \in DOMAIN C!Members(g) : C!Members(g)[i] = n})
           /\ IsFiniteSet({i \in DOMAIN C!Members(g) : C!Members(g)[i] = n})
<1> DEFINE At == {i \in DOMAIN C!Members(g) : C!Members(g)[i] = n}
<1>1. C!Lost(g, n) = Cardinality(At)
  BY CountIsCount DEF C!Lost, C!Times
<1>2. IsFiniteSet(At)
  <2>1. C!Members(g) \in Seq(C!Names)
    BY GroupsAre
  <2>2. DOMAIN C!Members(g) = 1..Len(C!Members(g)) /\ Len(C!Members(g)) \in Nat
    BY <2>1, LenProperties
  <2>3. IsFiniteSet(DOMAIN C!Members(g))
    BY <2>2, FS_Interval
  <2>4. QED
    BY <2>3, FS_Subset
<1>3. At = {} <=> <<g, n>> \notin Ties
  BY TiesAre DEF C!Step, C!Elements
<1> HIDE DEF At
<1>4. Cardinality(At) \in Nat /\ (Cardinality(At) = 0 <=> At = {})
  BY <1>2, FS_CardinalityType, FS_EmptySet
<1>5. QED
  BY <1>1, <1>2, <1>3, <1>4 DEF At

LEMMA CountLoses ==
    ASSUME C!ConfigAssumption, raw \in Raws, NEW n \in C!Names, NEW S \in SUBSET C!Names, NEW g \in S
    PROVE  Cardinality(MarksOn(n, S \cap C!GroupNames))
             = Cardinality(MarksOn(n, (S \ {g}) \cap C!GroupNames)) + C!Lost(g, n)
<1> DEFINE At == {i \in DOMAIN C!Members(g) : C!Members(g)[i] = n}
           Hits == {<<g, i>> : i \in At}
           f == [i \in At |-> <<g, i>>]
           X == MarksOn(n, (S \ {g}) \cap C!GroupNames)
           Y == MarksOn(n, S \cap C!GroupNames)
<1>1. IsFiniteSet(At) /\ C!Lost(g, n) = Cardinality(At) /\ C!Lost(g, n) \in Nat
  BY LostIs
<1>2. IsFiniteSet(Hits) /\ Cardinality(Hits) = Cardinality(At)
  <2>1. f \in Bijection(At, Hits)
    BY DEF Bijection, Injection, Surjection, IsInjective
  <2>2. ExistsBijection(At, Hits)
    BY <2>1 DEF ExistsBijection
  <2> HIDE DEF At, Hits
  <2>3. QED
    BY <1>1, <2>2, FS_Bijection
<1>3. IsFiniteSet(X) /\ Cardinality(X) \in Nat
  BY MarksAre
<1>4. Hits = {at \in MarkSet : at[1] = g /\ MarkOf[at] = n}
  <2>1. ASSUME NEW i \in At PROVE <<g, i>> \in MarkSet /\ MarkOf[<<g, i>>] = n
    <3>1. g \in C!GroupNames
      BY <2>1, GroupsAre
    <3>2. QED
      BY <2>1, <3>1 DEF MarkSet, MarkOf
  <2>2. ASSUME NEW at \in MarkSet, at[1] = g, MarkOf[at] = n PROVE at \in Hits
    BY <2>2 DEF MarkSet, MarkOf
  <2>3. QED
    BY <2>1, <2>2
<1>5. Y = X \cup Hits /\ X \cap Hits = {}
  <2> HIDE DEF Hits
  <2>1. \A at \in MarkSet : at[1] \in C!GroupNames
    BY DEF MarkSet
  <2>2. QED
    BY <1>4, <2>1 DEF MarksOn
<1> HIDE DEF At, Hits, X, Y
<1>6. Cardinality(Y) = Cardinality(X) + Cardinality(Hits) - Cardinality(X \cap Hits)
  BY <1>2, <1>3, <1>5, FS_Union
<1>7. Cardinality(X \cap Hits) = 0
  BY <1>5, FS_EmptySet
<1>8. QED
  BY <1>1, <1>2, <1>3, <1>6, <1>7 DEF X, Y

(* The sort.  The names left are counted and queued; those gone are        *)
(* mentioned by none of them, and the groups among them are sorted.        *)
SortedInv ==
    /\ sorted \in Seq(C!GroupNames) /\ Apart(sorted)
    /\ \A i, j \in DOMAIN sorted : <<sorted[i], sorted[j]>> \in Ties => j < i
QueueInv ==
    /\ graph \subseteq C!Names /\ DOMAIN indegree = C!Names
    /\ \A n \in graph : indegree[n] = Cardinality(MarksOn(n, graph \cap C!GroupNames))
    /\ queue \in Seq(C!Names) /\ Apart(queue)
    /\ C!Elements(queue) = {n \in graph : indegree[n] = 0}
GoneInv ==
    /\ \A e \in Ties : e[1] \in graph => e[2] \in graph
    /\ SortedInv /\ C!Elements(sorted) = C!GroupNames \ graph
    /\ C!Between \subseteq graph
PruneInv ==
    /\ graph \subseteq C!Names /\ C!Between \subseteq graph /\ C!OnLoop # {}
    /\ \A n \in graph : \E k \in graph : <<k, n>> \in Ties

(* An order of a set.                                                      *)
LEMMA OrdersAre ==
    ASSUME NEW S, IsFiniteSet(S), NEW o \in C!Orders(S)
    PROVE  o \in Seq(S) /\ C!Elements(o) = S /\ Apart(o)
<1>1. Cardinality(S) \in Nat
  BY FS_CardinalityType
<1>2. o \in [1..Cardinality(S) -> S] /\ C!Elements(o) = S
  BY CountIsCount DEF C!Orders
<1>3. o \in Seq(S)
  BY <1>1, <1>2
<1>4. Len(o) = Cardinality(S)
  BY <1>1, <1>2
<1>5. QED
  BY <1>2, <1>3, <1>4, ElementsAre

(* The first of a sequence leaves, and others join it.                     *)
LEMMA HeadLeaves ==
    ASSUME NEW E, NEW s \in Seq(E), s # <<>>, Apart(s)
    PROVE  /\ Head(s) \in C!Elements(s) /\ Tail(s) \in Seq(E) /\ Apart(Tail(s))
           /\ C!Elements(Tail(s)) = C!Elements(s) \ {Head(s)}
           /\ s[1] = Head(s) /\ 1 \in DOMAIN s
           /\ DOMAIN s = 1..Len(s) /\ Len(s) \in Nat /\ Len(Tail(s)) = Len(s) - 1
           /\ DOMAIN Tail(s) = 1..(Len(s) - 1)
           /\ \A i \in DOMAIN Tail(s) : Tail(s)[i] = s[i + 1] /\ i + 1 \in DOMAIN s
<1> DEFINE t == Tail(s)
<1>1. DOMAIN s = 1..Len(s) /\ Len(s) \in Nat /\ Len(s) # 0
  BY LenProperties, EmptySeq
<1>2. t \in Seq(E) /\ Len(t) = Len(s) - 1 /\ \A i \in 1..Len(t) : t[i] = s[i + 1]
  BY HeadTailProperties
<1>3. s[1] = Head(s) /\ 1 \in DOMAIN s
  BY <1>1
<1> HIDE DEF t
<1>4. DOMAIN t = 1..(Len(s) - 1)
  BY <1>2, LenProperties
<1>5. \A i \in DOMAIN t : t[i] = s[i + 1] /\ i + 1 \in DOMAIN s /\ i + 1 # 1
  BY <1>1, <1>2, <1>4
<1>6. \A i \in DOMAIN s : i = 1 \/ (i - 1 \in DOMAIN t /\ t[i - 1] = s[i])
  <2> SUFFICES ASSUME NEW i \in DOMAIN s, i # 1 PROVE i - 1 \in DOMAIN t /\ t[i - 1] = s[i]
    OBVIOUS
  <2>1. i - 1 \in DOMAIN t /\ (i - 1) + 1 = i
    BY <1>1, <1>4
  <2>2. QED
    BY <1>5, <2>1
<1>7. Apart(t)
  <2> SUFFICES ASSUME NEW i \in DOMAIN t, NEW j \in DOMAIN t, t[i] = t[j] PROVE i = j
    BY DEF Apart
  <2>1. i + 1 = j + 1
    BY <1>5 DEF Apart
  <2>2. QED
    BY <1>4, <2>1
<1>8. C!Elements(t) = C!Elements(s) \ {s[1]}
  <2>1. ASSUME NEW i \in DOMAIN t PROVE t[i] \in C!Elements(s) \ {s[1]}
    BY <1>3, <1>5 DEF Apart, C!Elements
  <2>2. ASSUME NEW i \in DOMAIN s, s[i] # s[1] PROVE s[i] \in C!Elements(t)
    BY <1>6, <2>2 DEF C!Elements
  <2>3. QED
    BY <2>1, <2>2 DEF C!Elements
<1>9. s[1] \in C!Elements(s)
  BY <1>3 DEF C!Elements
<1>10. QED
  BY <1>1, <1>2, <1>3, <1>4, <1>5, <1>7, <1>8, <1>9 DEF t

LEMMA Joined ==
    ASSUME NEW E, NEW s \in Seq(E), NEW o \in Seq(E)
    PROVE  /\ s \o o \in Seq(E) /\ C!Elements(s \o o) = C!Elements(s) \cup C!Elements(o)
           /\ Apart(s) /\ Apart(o) /\ C!Elements(s) \cap C!Elements(o) = {} => Apart(s \o o)
           /\ DOMAIN (s \o o) = 1..(Len(s) + Len(o)) /\ Len(s) \in Nat /\ Len(o) \in Nat
           /\ \A i \in 1..(Len(s) + Len(o)) : (s \o o)[i] = IF i <= Len(s) THEN s[i] ELSE o[i - Len(s)]
<1> DEFINE t == s \o o
<1>1. DOMAIN s = 1..Len(s) /\ Len(s) \in Nat /\ DOMAIN o = 1..Len(o) /\ Len(o) \in Nat
  BY LenProperties
<1>2. t \in Seq(E) /\ Len(t) = Len(s) + Len(o)
      /\ \A i \in 1..(Len(s) + Len(o)) : t[i] = IF i <= Len(s) THEN s[i] ELSE o[i - Len(s)]
  BY ConcatProperties
<1> HIDE DEF t
<1>3. DOMAIN t = 1..(Len(s) + Len(o))
  BY <1>2, LenProperties
<1>4. \A i \in DOMAIN s : i \in DOMAIN t /\ t[i] = s[i]
  BY <1>1, <1>2, <1>3
<1>5. \A i \in DOMAIN o : i + Len(s) \in DOMAIN t /\ t[i + Len(s)] = o[i]
  <2> SUFFICES ASSUME NEW i \in DOMAIN o PROVE i + Len(s) \in DOMAIN t /\ t[i + Len(s)] = o[i]
    OBVIOUS
  <2>1. i + Len(s) \in DOMAIN t /\ ~(i + Len(s) <= Len(s)) /\ (i + Len(s)) - Len(s) = i
    BY <1>1, <1>3
  <2>2. QED
    BY <1>2, <1>3, <2>1
<1>6. \A i \in DOMAIN t : \/ i \in DOMAIN s /\ t[i] = s[i]
                          \/ i \notin DOMAIN s /\ i - Len(s) \in DOMAIN o /\ t[i] = o[i - Len(s)]
  <2> SUFFICES ASSUME NEW i \in DOMAIN t, i \notin DOMAIN s
               PROVE  i - Len(s) \in DOMAIN o /\ t[i] = o[i - Len(s)]
    BY <1>4
  <2>1. i - Len(s) \in DOMAIN o /\ ~(i <= Len(s))
    BY <1>1, <1>3
  <2>2. QED
    BY <1>2, <1>3, <2>1
<1>7. C!Elements(t) = C!Elements(s) \cup C!Elements(o)
  <2>1. \A i \in DOMAIN t : t[i] \in C!Elements(s) \cup C!Elements(o)
    BY <1>6 DEF C!Elements
  <2>2. C!Elements(s) \subseteq C!Elements(t)
    BY <1>4 DEF C!Elements
  <2>3. C!Elements(o) \subseteq C!Elements(t)
    BY <1>5 DEF C!Elements
  <2>4. QED
    BY <2>1, <2>2, <2>3 DEF C!Elements
<1>8. ASSUME Apart(s), Apart(o), C!Elements(s) \cap C!Elements(o) = {} PROVE Apart(t)
  <2> SUFFICES ASSUME NEW i \in DOMAIN t, NEW j \in DOMAIN t, t[i] = t[j] PROVE i = j
    BY DEF Apart
  <2>1. \A x \in DOMAIN s, y \in DOMAIN o : s[x] # o[y]
    BY <1>8 DEF C!Elements
  <2>2. i \in DOMAIN s <=> j \in DOMAIN s
    BY <1>6, <2>1
  <2>3. CASE i \in DOMAIN s
    BY <1>6, <1>8, <2>2, <2>3 DEF Apart
  <2>4. CASE i \notin DOMAIN s
    <3>1. i - Len(s) = j - Len(s)
      BY <1>6, <1>8, <2>2, <2>4 DEF Apart
    <3>2. QED
      BY <1>1, <1>3, <3>1
  <2>5. QED
    BY <2>3, <2>4
<1>9. QED
  BY <1>1, <1>2, <1>3, <1>7, <1>8 DEF t

(* The first of the queue leaves the graph.                                *)
LEMMA SortStays ==
    ASSUME C!ConfigAssumption, raw \in Raws, raw' = raw, QueueInv, GoneInv, C!Sort
    PROVE  QueueInv' /\ GoneInv'
<1> DEFINE n == Head(queue)
           Rest == graph \ {n}
<1>1. /\ queue # <<>> /\ graph' = Rest
      /\ indegree' = [m \in DOMAIN indegree |-> indegree[m] - C!Lost(n, m)]
      /\ sorted' = IF C!IsGroup(n) THEN C!Placed(n) ELSE sorted
  BY DEF C!Sort
<1>2. PICK o \in C!Orders(C!Released(n)) : queue' = Tail(queue) \o o
  BY DEF C!Sort
<1>3. /\ graph \subseteq C!Names /\ DOMAIN indegree = C!Names
      /\ queue \in Seq(C!Names) /\ Apart(queue)
      /\ C!Elements(queue) = {m \in graph : indegree[m] = 0}
      /\ \A m \in graph : indegree[m] = Cardinality(MarksOn(m, graph \cap C!GroupNames))
  BY DEF QueueInv
<1>4. /\ n \in C!Elements(queue) /\ Tail(queue) \in Seq(C!Names) /\ Apart(Tail(queue))
      /\ C!Elements(Tail(queue)) = C!Elements(queue) \ {n}
  BY <1>1, <1>3, HeadLeaves
<1> HIDE DEF n
<1>5. n \in graph /\ indegree[n] = 0 /\ n \in C!Names
  BY <1>3, <1>4
<1>6. Ties \subseteq C!GroupNames \X C!Names /\ \A e \in Ties : e[1] \in graph => e[2] \in graph
  BY TiesAre DEF GoneInv
<1>7. \A k \in graph : <<k, n>> \notin Ties
  <2>1. Cardinality(MarksOn(n, graph \cap C!GroupNames)) = 0
    BY <1>3, <1>5
  <2>2. \A k \in graph \cap C!GroupNames : <<k, n>> \notin Ties
    BY <1>5, <2>1, MarksAre
  <2>3. QED
    BY <1>6, <2>2
<1>8. \A m \in graph : indegree[m] \in Nat
  BY <1>3, MarksAre
<1>9. ASSUME NEW m \in Rest
      PROVE  /\ indegree[m] - C!Lost(n, m) = Cardinality(MarksOn(m, Rest \cap C!GroupNames))
             /\ indegree[m] - C!Lost(n, m) \in Nat /\ indegree[m] \in Nat /\ C!Lost(n, m) \in Nat
  <2>1. m \in C!Names /\ m \in graph
    BY <1>3
  <2>2. Cardinality(MarksOn(m, graph \cap C!GroupNames))
          = Cardinality(MarksOn(m, Rest \cap C!GroupNames)) + C!Lost(n, m)
    BY <1>3, <1>5, <2>1, CountLoses
  <2>3. Cardinality(MarksOn(m, Rest \cap C!GroupNames)) \in Nat
    BY <2>1, MarksAre
  <2>4. C!Lost(n, m) \in Nat
    BY LostIs
  <2>5. indegree[m] = Cardinality(MarksOn(m, Rest \cap C!GroupNames)) + C!Lost(n, m)
    BY <1>3, <2>1, <2>2
  <2> DEFINE k == Cardinality(MarksOn(m, Rest \cap C!GroupNames))
  <2> HIDE DEF k
  <2>6. indegree[m] = k + C!Lost(n, m) /\ k \in Nat
    BY <2>3, <2>5 DEF k
  <2>7. indegree[m] - C!Lost(n, m) = k /\ indegree[m] \in Nat
    BY <2>4, <2>6
  <2>8. QED
    BY <2>4, <2>6, <2>7 DEF k
<1>10. C!Released(n) = {m \in Rest : <<n, m>> \in Ties /\ indegree[m] = C!Lost(n, m)}
  <2>1. C!Elements(C!Members(n)) = {m \in C!Names : <<n, m>> \in Ties}
    BY TiesAre
  <2>2. \A m : <<n, m>> \in Ties => m \in Rest
    BY <1>5, <1>6, <1>7
  <2>3. QED
    BY <1>3, <2>1, <2>2 DEF C!Released
<1>11. o \in Seq(C!Names) /\ C!Elements(o) = C!Released(n) /\ Apart(o)
  <2>1. C!Released(n) \subseteq C!Names
    BY <1>3, <1>10
  <2>2. IsFiniteSet(C!Released(n))
    BY <2>1, GroupsAre, FS_Subset
  <2>3. o \in Seq(C!Released(n)) /\ C!Elements(o) = C!Released(n) /\ Apart(o)
    BY <1>2, <2>2, OrdersAre
  <2>4. QED
    BY <2>1, <2>3, SeqMonotonic
<1>12. C!Elements(Tail(queue)) \cup C!Released(n) = {m \in Rest : indegree'[m] = 0}
  <2>1. \A m \in Rest : indegree'[m] = indegree[m] - C!Lost(n, m)
    BY <1>1, <1>3
  <2>2. \A m \in Rest : C!Lost(n, m) = 0 <=> <<n, m>> \notin Ties
    BY LostIs
  <2>3. ASSUME NEW m \in Rest
        PROVE  indegree'[m] = 0 <=> indegree[m] = 0 \/ (<<n, m>> \in Ties /\ indegree[m] = C!Lost(n, m))
    <3>1. indegree'[m] = 0 <=> indegree[m] = C!Lost(n, m)
      BY <1>9, <2>1
    <3>2. indegree[m] = 0 => C!Lost(n, m) = 0
      BY <1>9
    <3>3. QED
      BY <2>2, <3>1, <3>2
  <2>4. C!Elements(Tail(queue)) = {m \in Rest : indegree[m] = 0}
    BY <1>3, <1>4
  <2>5. QED
    BY <1>10, <2>3, <2>4
<1>13. C!Elements(Tail(queue)) \cap C!Released(n) = {}
  <2>1. ASSUME NEW m \in Rest, indegree[m] = 0, <<n, m>> \in Ties, indegree[m] = C!Lost(n, m) PROVE FALSE
    BY <2>1, LostIs
  <2>2. QED
    BY <1>3, <1>4, <1>10, <2>1
<1> DEFINE q == Tail(queue) \o o
<1>14. q \in Seq(C!Names) /\ Apart(q) /\ C!Elements(q) = {m \in Rest : indegree'[m] = 0}
  <2> DEFINE t == Tail(queue)
  <2>1. t \in Seq(C!Names) /\ Apart(t) /\ C!Elements(t) \cap C!Elements(o) = {}
    BY <1>4, <1>11, <1>13
  <2> HIDE DEF t
  <2>2. t \o o \in Seq(C!Names) /\ Apart(t \o o) /\ C!Elements(t \o o) = C!Elements(t) \cup C!Elements(o)
    BY <1>11, <2>1, Joined
  <2>3. q = t \o o
    BY DEF t
  <2>4. C!Elements(t) \cup C!Elements(o) = {m \in Rest : indegree'[m] = 0}
    BY <1>11, <1>12 DEF t
  <2> HIDE DEF q
  <2>5. QED
    BY <2>2, <2>3, <2>4
<1> HIDE DEF q
<1>15. queue' = q
  BY <1>2 DEF q
<1>16. /\ C!GroupNames' = C!GroupNames /\ C!Names' = C!Names /\ Ties' = Ties
       /\ MarkSet' = MarkSet /\ MarkOf' = MarkOf /\ C!Between' = C!Between
  BY SameRaw, SameLoops
<1>17. QueueInv'
  <2>1. DOMAIN indegree' = C!Names
    BY <1>1, <1>3
  <2>2. ASSUME NEW m \in graph' PROVE indegree'[m] = Cardinality(MarksOn(m, graph \cap C!GroupNames)')
    <3>1. MarksOn(m, graph \cap C!GroupNames)' = MarksOn(m, Rest \cap C!GroupNames)
      BY <1>1, <1>16 DEF MarksOn
    <3>2. QED
      BY <1>1, <1>3, <1>9, <3>1
  <2>3. C!Elements(queue)' = {m \in graph' : indegree'[m] = 0}
    <3>1. C!Elements(queue)' = C!Elements(q)
      BY <1>15 DEF C!Elements
    <3>2. QED
      BY <1>1, <1>14, <3>1
  <2>4. Apart(queue)'
    BY <1>14, <1>15 DEF Apart
  <2>5. QED
    BY <1>1, <1>3, <1>14, <1>15, <1>16, <2>1, <2>2, <2>3, <2>4 DEF QueueInv
<1>18. /\ sorted' \in Seq(C!GroupNames) /\ Apart(sorted')
       /\ \A i, j \in DOMAIN sorted' : <<sorted'[i], sorted'[j]>> \in Ties => j < i
       /\ C!Elements(sorted') = C!GroupNames \ Rest
  <2>1. /\ sorted \in Seq(C!GroupNames) /\ Apart(sorted) /\ C!Elements(sorted) = C!GroupNames \ graph
        /\ \A i, j \in DOMAIN sorted : <<sorted[i], sorted[j]>> \in Ties => j < i
    BY DEF GoneInv, SortedInv
  <2>2. CASE n \notin C!GroupNames
    <3>1. sorted' = sorted
      BY <1>1, <2>2 DEF C!IsGroup
    <3>2. QED
      BY <1>5, <2>1, <2>2, <3>1
  <2>3. CASE n \in C!GroupNames
    <3> DEFINE one == <<n>>
               s == one \o sorted
    <3>1. sorted' = s
      BY <1>1, <2>3 DEF C!IsGroup, C!Placed
    <3>2. one \in Seq(C!GroupNames) /\ Len(one) = 1 /\ one[1] = n /\ C!Elements(one) = {n} /\ Apart(one)
      BY <2>3 DEF C!Elements, Apart
    <3> HIDE DEF one
    <3>3. /\ s \in Seq(C!GroupNames) /\ C!Elements(s) = {n} \cup C!Elements(sorted) /\ Len(sorted) \in Nat
          /\ Apart(one) /\ Apart(sorted) /\ {n} \cap C!Elements(sorted) = {} => Apart(s)
          /\ DOMAIN s = 1..(1 + Len(sorted))
          /\ \A i \in 1..(1 + Len(sorted)) : s[i] = IF i <= 1 THEN one[i] ELSE sorted[i - 1]
      BY <2>1, <3>2, Joined
    <3>4. DOMAIN sorted = 1..Len(sorted)
      BY <2>1, LenProperties
    <3> HIDE DEF s
    <3>5. Apart(s) /\ C!Elements(s) = C!GroupNames \ Rest
      BY <1>5, <2>1, <2>3, <3>2, <3>3
    <3>6. ASSUME NEW i \in DOMAIN s, NEW j \in DOMAIN s, <<s[i], s[j]>> \in Ties PROVE j < i
      <4>1. i \in Nat /\ j \in Nat /\ i >= 1 /\ j >= 1
        BY <3>3
      <4>2. CASE i = 1
        <5>1. s[i] = n
          BY <3>2, <3>3, <4>2
        <5>2. s[j] \in graph /\ s[j] # n
          BY <1>5, <1>6, <1>7, <3>6, <5>1
        <5>3. s[j] \in C!Elements(sorted)
          BY <3>3, <5>2 DEF C!Elements
        <5>4. QED
          BY <2>1, <5>2, <5>3
      <4>3. CASE i # 1 /\ j = 1
        BY <4>1, <4>3
      <4>4. CASE i # 1 /\ j # 1
        <5>1. i - 1 \in DOMAIN sorted /\ j - 1 \in DOMAIN sorted /\ ~(i <= 1) /\ ~(j <= 1)
          BY <3>3, <3>4, <4>1, <4>4
        <5>2. s[i] = sorted[i - 1] /\ s[j] = sorted[j - 1]
          BY <3>3, <5>1
        <5>3. j - 1 < i - 1
          BY <2>1, <3>6, <5>1, <5>2
        <5>4. QED
          BY <4>1, <5>3
      <4>5. QED
        BY <4>2, <4>3, <4>4
    <3>7. QED
      BY <3>1, <3>3, <3>5, <3>6
  <2>4. QED
    BY <2>2, <2>3
<1>19. C!Between \subseteq Rest
  <2>1. C!Between \subseteq graph
    BY DEF GoneInv
  <2>2. n \notin C!Between
    BY <1>7, <2>1, LoopsGoOn
  <2>3. QED
    BY <2>1, <2>2
<1>20. \A e \in Ties : e[1] \in Rest => e[2] \in Rest
  <2> SUFFICES ASSUME NEW e \in Ties, e[1] \in Rest PROVE e[2] \in Rest
    OBVIOUS
  <2>1. e = <<e[1], e[2]>> /\ e[2] \in graph
    BY <1>6
  <2>2. QED
    BY <1>7, <2>1
<1>21. GoneInv'
  <2>1. SortedInv'
    BY <1>16, <1>18 DEF SortedInv, Apart
  <2>2. (C!Elements(sorted) = C!GroupNames \ graph)'
    BY <1>1, <1>16, <1>18 DEF C!Elements
  <2>3. QED
    BY <1>1, <1>16, <1>19, <1>20, <2>1, <2>2 DEF GoneInv
<1>22. QED
  BY <1>17, <1>21

(* The graph is built, and what is left when nothing is queued.            *)
LEMMA SortBegins ==
    ASSUME C!ConfigAssumption, raw \in Raws, raw' = raw, sorted = <<>>, sorted' = sorted,
           graph' = C!Names, indegree' = [n \in C!Names |-> C!Indegree(n)],
           queue' \in C!Orders({n \in C!Names : C!Indegree(n) = 0})
    PROVE  QueueInv' /\ GoneInv'
<1> DEFINE S == {n \in C!Names : C!Indegree(n) = 0}
<1>1. /\ C!GroupNames' = C!GroupNames /\ C!Names' = C!Names /\ Ties' = Ties
      /\ MarkSet' = MarkSet /\ MarkOf' = MarkOf /\ C!Between' = C!Between
  BY SameRaw, SameLoops
<1>2. IsFiniteSet(S)
  BY GroupsAre, FS_Subset
<1>3. \A n \in C!Names : C!Indegree(n) = Cardinality(MarksOn(n, C!GroupNames))
  BY MarksAre, CountIsCount DEF C!Indegree
<1>4. queue' \in C!Orders(S) /\ S \subseteq C!Names
  OBVIOUS
<1>5. S = {n \in graph' : indegree'[n] = 0}
  OBVIOUS
<1> HIDE DEF S
<1>6. queue' \in Seq(S) /\ C!Elements(queue') = S /\ Apart(queue')
  BY <1>2, <1>4, OrdersAre
<1>7. queue' \in Seq(C!Names)
  BY <1>4, <1>6, SeqMonotonic
<1>8. C!GroupNames \subseteq C!Names
  BY GroupsAre
<1>9. QueueInv'
  <2>1. ASSUME NEW n \in graph' PROVE indegree'[n] = Cardinality(MarksOn(n, graph \cap C!GroupNames)')
    <3>1. MarksOn(n, graph \cap C!GroupNames)' = MarksOn(n, C!GroupNames)
      BY <1>1, <1>8 DEF MarksOn
    <3>2. QED
      BY <1>3, <3>1
  <2>2. C!Elements(queue)' = {n \in graph' : indegree'[n] = 0}
    BY <1>5, <1>6 DEF C!Elements
  <2>3. Apart(queue)'
    BY <1>6 DEF Apart
  <2>4. QED
    BY <1>1, <1>7, <2>1, <2>2, <2>3 DEF QueueInv
<1>10. GoneInv'
  <2>1. SortedInv'
    BY DEF SortedInv, Apart
  <2>2. C!Elements(sorted)' = {}
    BY DEF C!Elements
  <2>3. C!GroupNames' \ graph' = {}
    BY <1>1, <1>8
  <2>4. \A e \in Ties : e[2] \in C!Names
    BY TiesAre
  <2>5. C!Between \subseteq C!Names
    BY LoopsGoOn
  <2>6. QED
    BY <1>1, <2>1, <2>2, <2>3, <2>4, <2>5 DEF GoneInv
<1>11. QED
  BY <1>9, <1>10

LEMMA SortIsOver ==
    ASSUME C!ConfigAssumption, raw \in Raws, QueueInv, GoneInv, queue = <<>>
    PROVE  IF graph = {} THEN C!OnLoop = {} /\ C!Elements(sorted) = C!GroupNames ELSE PruneInv
<1>1. /\ graph \subseteq C!Names /\ C!Between \subseteq graph
      /\ C!Elements(sorted) = C!GroupNames \ graph
      /\ \A n \in graph : indegree[n] = Cardinality(MarksOn(n, graph \cap C!GroupNames))
      /\ C!Elements(queue) = {n \in graph : indegree[n] = 0}
  BY DEF QueueInv, GoneInv
<1>2. C!OnLoop \subseteq C!Between
  BY LoopsGoOn
<1>3. ASSUME NEW n \in graph PROVE \E k \in graph : <<k, n>> \in Ties
  <2>1. indegree[n] # 0
    BY <1>1 DEF C!Elements
  <2>2. ~(\A k \in graph \cap C!GroupNames : <<k, n>> \notin Ties)
    BY <1>1, <2>1, MarksAre
  <2>3. QED
    BY <2>2
<1>4. CASE graph = {}
  BY <1>1, <1>2, <1>4
<1>5. CASE graph # {}
  <2>1. PICK n \in graph : TRUE
    BY <1>5
  <2>2. C!OnLoop # {}
    BY <1>1, <1>3, LoopsBefore
  <2>3. QED
    BY <1>1, <1>3, <1>5, <2>2 DEF PruneInv
<1>6. QED
  BY <1>4, <1>5

(* What leads to no name that is left goes, and in the end the loops and   *)
(* what is between them are left.                                          *)
LEMMA PruneStays ==
    ASSUME C!ConfigAssumption, raw \in Raws, raw' = raw, PruneInv,
           NEW n \in C!Leaves, graph' = graph \ {n}
    PROVE  PruneInv'
<1>1. C!Names' = C!Names /\ Ties' = Ties /\ C!Between' = C!Between /\ C!OnLoop' = C!OnLoop
  BY SameRaw, SameLoops
<1>2. /\ graph \subseteq C!Names /\ C!Between \subseteq graph /\ C!OnLoop # {}
      /\ \A m \in graph : \E k \in graph : <<k, m>> \in Ties
  BY DEF PruneInv
<1>3. n \in graph /\ \A m \in graph : <<n, m>> \notin Ties
  <2>1. n \in graph /\ C!Elements(C!Members(n)) \cap graph = {}
    BY DEF C!Leaves
  <2>2. C!Elements(C!Members(n)) = {m \in C!Names : <<n, m>> \in Ties}
    BY TiesAre
  <2>3. QED
    BY <1>2, <2>1, <2>2
<1>4. n \notin C!Between
  BY <1>2, <1>3, LoopsGoOn
<1>5. QED
  BY <1>1, <1>2, <1>3, <1>4 DEF PruneInv

LEMMA PruneIsOver ==
    ASSUME C!ConfigAssumption, raw \in Raws, PruneInv, C!Leaves = {}
    PROVE  graph = C!Between /\ graph # {} /\ C!OnLoop # {}
<1>1. /\ graph \subseteq C!Names /\ C!Between \subseteq graph /\ C!OnLoop # {}
      /\ \A m \in graph : \E k \in graph : <<k, m>> \in Ties
  BY DEF PruneInv
<1>2. ASSUME NEW n \in graph PROVE \E k \in graph : <<n, k>> \in Ties
  <2>1. C!Elements(C!Members(n)) \cap graph # {}
    BY DEF C!Leaves
  <2>2. C!Elements(C!Members(n)) = {m \in C!Names : <<n, m>> \in Ties}
    BY TiesAre
  <2>3. QED
    BY <2>1, <2>2
<1>3. ASSUME NEW n \in graph PROVE n \in C!Between
  <2>1. \E l \in C!OnLoop : n \in C!After(l)
    BY <1>1, LoopsBefore
  <2>2. \E l \in C!OnLoop : l \in C!After(n)
    BY <1>1, <1>2, LoopsBehind
  <2>3. QED
    BY <1>1, <2>1, <2>2 DEF C!Between, C!Reaches
<1>4. C!OnLoop \subseteq C!Between
  BY LoopsGoOn
<1>5. QED
  BY <1>1, <1>3, <1>4

(* Two names are the same when one of the joined names comes twice.        *)
LEMMA MoreThanOne ==
    ASSUME NEW E, NEW s \in Seq(E), NEW i \in DOMAIN s
    PROVE  C!Times(s, s[i]) > 1 <=> \E j \in DOMAIN s : j # i /\ s[j] = s[i]
<1> DEFINE T == {j \in DOMAIN s : s[j] = s[i]}
<1>1. IsFiniteSet(T) /\ i \in T
  <2>1. DOMAIN s = 1..Len(s) /\ Len(s) \in Nat
    BY LenProperties
  <2>2. IsFiniteSet(DOMAIN s)
    BY <2>1, FS_Interval
  <2>3. QED
    BY <2>2, FS_Subset
<1>2. C!Times(s, s[i]) = Cardinality(T)
  BY CountIsCount DEF C!Times
<1>3. T \ {i} = {} <=> ~\E j \in DOMAIN s : j # i /\ s[j] = s[i]
  OBVIOUS
<1> HIDE DEF T
<1> DEFINE U == T \ {i}
<1>4. IsFiniteSet(U) /\ Cardinality(U) = Cardinality(T) - 1
  BY <1>1, FS_RemoveElement
<1> HIDE DEF U
<1>5. Cardinality(U) \in Nat /\ Cardinality(T) \in Nat /\ (Cardinality(U) = 0 <=> U = {})
  BY <1>1, <1>4, FS_CardinalityType, FS_EmptySet
<1>6. U = {} <=> ~\E j \in DOMAIN s : j # i /\ s[j] = s[i]
  BY <1>3 DEF U
<1> DEFINE c == Cardinality(T)
<1> HIDE DEF c
<1>7. c \in Nat /\ (c - 1 = 0 <=> U = {}) /\ c - 1 \in Nat
  BY <1>4, <1>5 DEF c
<1>8. c > 1 <=> U # {}
  BY <1>7
<1>9. QED
  BY <1>2, <1>6, <1>8 DEF c

LEMMA DistinctIs ==
    ASSUME C!ConfigAssumption, raw \in Raws
    PROVE  C!Distinct <=> NodesDistinct /\ GroupsDistinct /\ NodeNames \cap C!GroupNames = {}
<1> DEFINE ns == raw.nodes
           gs == [i \in DOMAIN C!Groups |-> C!Groups[i].name]
           E == NodeNames \cup C!GroupNames
           all == ns \o gs
<1>1. ns \in Seq(E) /\ C!Elements(ns) = NodeNames
  <2>1. raw.nodes \in Seq(NodeNames)
    BY DEF C!ConfigAssumption, NodeNames
  <2>2. QED
    BY <2>1, SeqMonotonic DEF NodeNames
<1>2. gs \in Seq(E) /\ C!Elements(gs) = C!GroupNames /\ DOMAIN gs = DOMAIN C!Groups
  <2>1. DOMAIN C!Groups = 1..Len(C!Groups) /\ Len(C!Groups) \in Nat
    BY GroupsAre, LenProperties
  <2>2. gs \in [1..Len(C!Groups) -> E]
    BY <2>1 DEF C!GroupNames
  <2>3. gs \in Seq(E)
    BY <2>1, <2>2
  <2>4. QED
    BY <2>3 DEF C!Elements, C!GroupNames
<1>3. Apart(ns) <=> NodesDistinct
  BY DEF Apart, NodesDistinct
<1>4. Apart(gs) <=> GroupsDistinct
  BY DEF Apart, GroupsDistinct
<1>5. C!Distinct <=> Apart(all)
  BY DEF C!Distinct, Apart
<1> HIDE DEF ns, gs, E
<1> DEFINE len == Len(ns)
           more == Len(gs)
<1>6. /\ Apart(ns) /\ Apart(gs) /\ C!Elements(ns) \cap C!Elements(gs) = {} => Apart(ns \o gs)
      /\ DOMAIN (ns \o gs) = 1..(len + more) /\ len \in Nat /\ more \in Nat
      /\ \A i \in 1..(len + more) : (ns \o gs)[i] = IF i <= len THEN ns[i] ELSE gs[i - len]
  BY <1>1, <1>2, Joined
<1>7. DOMAIN ns = 1..len /\ DOMAIN gs = 1..more
  BY <1>1, <1>2, LenProperties
<1> HIDE DEF all, len, more
<1>8. all = ns \o gs
  BY DEF all
<1>9. \A i \in DOMAIN ns : i \in DOMAIN all /\ all[i] = ns[i]
  BY <1>6, <1>7, <1>8
<1>10. \A i \in DOMAIN gs : i + len \in DOMAIN all /\ all[i + len] = gs[i] /\ i + len \notin DOMAIN ns /\ i \in Nat
  <2> SUFFICES ASSUME NEW i \in DOMAIN gs
               PROVE  i + len \in DOMAIN all /\ all[i + len] = gs[i] /\ i + len \notin DOMAIN ns /\ i \in Nat
    OBVIOUS
  <2>1. i + len \in 1..(len + more) /\ ~(i + len <= len) /\ (i + len) - len = i /\ i \in Nat
    BY <1>6, <1>7
  <2>2. QED
    BY <1>6, <1>7, <1>8, <2>1
<1>11. ASSUME Apart(all) PROVE Apart(ns) /\ Apart(gs) /\ C!Elements(ns) \cap C!Elements(gs) = {}
  <2>1. Apart(ns)
    BY <1>9, <1>11 DEF Apart
  <2>2. Apart(gs)
    <3> SUFFICES ASSUME NEW i \in DOMAIN gs, NEW j \in DOMAIN gs, gs[i] = gs[j] PROVE i = j
      BY DEF Apart
    <3>1. i + len = j + len /\ i \in Nat /\ j \in Nat
      BY <1>10, <1>11 DEF Apart
    <3>2. QED
      BY <1>6, <3>1
  <2>3. \A i \in DOMAIN ns, j \in DOMAIN gs : ns[i] # gs[j]
    BY <1>9, <1>10, <1>11 DEF Apart
  <2>4. C!Elements(ns) \cap C!Elements(gs) = {}
    BY <2>3 DEF C!Elements
  <2>5. QED
    BY <2>1, <2>2, <2>4
<1>12. QED
  BY <1>1, <1>2, <1>3, <1>4, <1>5, <1>6, <1>8, <1>11

(* What it means to be sound, said of the sets.                            *)
LEMMA SoundIs ==
    ASSUME C!ConfigAssumption, raw \in Raws
    PROVE  C!Sound <=>
             /\ NodesFit /\ GroupsDistinct /\ C!OnLoop = {} /\ "default" \notin raw.providers
             /\ GoodGroups = C!GroupNames
             /\ raw.targets \subseteq C!Everything \cup {"GLOBAL"} /\ DNSFits
<1>1. C!Everything = Own \cup C!GroupNames
  BY DEF C!Everything, Own, NodeNames
<1>2. DNSFits <=> /\ raw.dns.enable => raw.dns.servers > 0
                  /\ raw.dns.default = "ip"
                  /\ raw.dns.enhanced = "fakeip" => raw.dns.range >= 2
  <2>1. /\ raw.dns.servers \in Nat /\ raw.dns.default \in {"none", "name", "ip"}
        /\ raw.dns.range \in Nat /\ (2 ^ raw.dns.range <= 2 <=> raw.dns.range < 2)
    BY DEF C!ConfigAssumption
  <2>2. raw.dns.servers > 0 <=> raw.dns.servers # 0
    BY <2>1
  <2>3. raw.dns.range >= 2 <=> ~(raw.dns.range < 2)
    BY <2>1
  <2>4. raw.dns.default = "ip" <=> raw.dns.default \notin {"none", "name"}
    BY <2>1
  <2>5. DNSFits <=> ~(\/ raw.dns.enable /\ raw.dns.servers = 0
                      \/ raw.dns.default \in {"none", "name"}
                      \/ raw.dns.enhanced = "fakeip" /\ raw.dns.range < 2)
    BY <2>1 DEF DNSFits, C!DNSError
  <2>6. QED
    BY <2>2, <2>3, <2>4, <2>5
<1>3. C!Mentioned \subseteq C!Everything
        <=> \A i \in DOMAIN C!Groups : C!Elements(C!Groups[i].proxies) \subseteq C!Everything
  BY DEF C!Mentioned
<1>4. NodeNames = C!Elements(raw.nodes)
  BY DEF NodeNames
<1>5. GroupsDistinct => \A i \in DOMAIN C!Groups : C!Group(C!Groups[i].name) = C!Groups[i]
  <2> SUFFICES ASSUME GroupsDistinct, NEW i \in DOMAIN C!Groups PROVE C!Group(C!Groups[i].name) = C!Groups[i]
    OBVIOUS
  <2> DEFINE w == CHOOSE j \in DOMAIN C!Groups : C!Groups[j].name = C!Groups[i].name
  <2>1. w \in DOMAIN C!Groups /\ C!Groups[w].name = C!Groups[i].name
    OBVIOUS
  <2>2. C!Group(C!Groups[i].name) = C!Groups[w]
    BY DEF C!Group
  <2> HIDE DEF w
  <2>3. w = i
    BY <2>1 DEF GroupsDistinct
  <2>4. QED
    BY <2>2, <2>3
<1>6. GroupsDistinct => (GoodGroups = C!GroupNames <=> \A i \in DOMAIN C!Groups : GoodGroup(C!Groups[i]))
  <2> SUFFICES ASSUME GroupsDistinct
               PROVE  GoodGroups = C!GroupNames <=> \A i \in DOMAIN C!Groups : GoodGroup(C!Groups[i])
    OBVIOUS
  <2>1. \A n \in C!GroupNames : \E i \in DOMAIN C!Groups : n = C!Groups[i].name
    BY DEF C!GroupNames
  <2>2. \A i \in DOMAIN C!Groups : C!Groups[i].name \in C!GroupNames
    BY DEF C!GroupNames
  <2>3. GoodGroups = C!GroupNames <=> \A n \in C!GroupNames : GoodGroup(C!Group(n))
    BY DEF GoodGroups
  <2>4. QED
    BY <1>5, <2>1, <2>2, <2>3
<1>7. (\A i \in DOMAIN C!Groups : GoodGroup(C!Groups[i]))
        <=> /\ C!GroupNames \cap Own = {} /\ C!Mentioned \subseteq C!Everything
            /\ \A i \in DOMAIN C!Groups : LET g == C!Groups[i] IN
                /\ g.use \subseteq raw.providers /\ (g.proxies # <<>> \/ g.use # {})
                /\ g.use = {} => g.name \notin raw.providers
                /\ g.type # "other"
  <2>1. C!GroupNames \cap Own = {} <=> \A i \in DOMAIN C!Groups : C!Groups[i].name \notin Own
    BY DEF C!GroupNames
  <2>2. QED
    BY <1>3, <2>1 DEF GoodGroup
<1>8. C!GroupNames \cap Own = {} <=> C!GroupNames \cap {"DIRECT", "REJECT"} = {} /\ NodeNames \cap C!GroupNames = {}
  BY DEF Own
<1>9. C!Distinct <=> NodesDistinct /\ GroupsDistinct /\ NodeNames \cap C!GroupNames = {}
  BY DistinctIs
<1> DEFINE Fine == \A i \in DOMAIN C!Groups : LET g == C!Groups[i] IN
                /\ g.use \subseteq raw.providers /\ (g.proxies # <<>> \/ g.use # {})
                /\ g.use = {} => g.name \notin raw.providers
                /\ g.type # "other"
<1>10. C!Sound <=> /\ C!Distinct /\ (NodeNames \cup C!GroupNames) \cap {"DIRECT", "REJECT"} = {}
                   /\ C!OnLoop = {} /\ C!Mentioned \subseteq C!Everything
                   /\ "default" \notin raw.providers /\ Fine
                   /\ raw.targets \subseteq C!Everything \cup {"GLOBAL"} /\ DNSFits
  <2>1. (\A n \in NodeNames \cup C!GroupNames : n \notin {"DIRECT", "REJECT"})
            <=> (NodeNames \cup C!GroupNames) \cap {"DIRECT", "REJECT"} = {}
    OBVIOUS
  <2> DEFINE Apt == \A n \in NodeNames \cup C!GroupNames : n \notin {"DIRECT", "REJECT"}
  <2>2. C!Sound <=> /\ C!Distinct /\ Apt
                    /\ C!OnLoop = {} /\ C!Mentioned \subseteq C!Everything
                    /\ "default" \notin raw.providers /\ Fine
                    /\ raw.targets \subseteq C!Everything \cup {"GLOBAL"} /\ DNSFits
    BY <1>2, <1>4 DEF C!Sound
  <2> HIDE DEF Fine
  <2>3. QED
    BY <2>1, <2>2
<1>11. NodesFit <=> NodesDistinct /\ NodeNames \cap {"DIRECT", "REJECT"} = {}
  BY DEF NodesFit
<1> HIDE DEF Fine
<1>12. (\A i \in DOMAIN C!Groups : GoodGroup(C!Groups[i]))
        <=> C!GroupNames \cap Own = {} /\ C!Mentioned \subseteq C!Everything /\ Fine
  BY <1>7 DEF Fine
<1> DEFINE AllGood == \A i \in DOMAIN C!Groups : GoodGroup(C!Groups[i])
<1> HIDE DEF AllGood
<1>13. AllGood <=> C!GroupNames \cap Own = {} /\ C!Mentioned \subseteq C!Everything /\ Fine
  BY <1>12 DEF AllGood
<1>14. GroupsDistinct => (GoodGroups = C!GroupNames <=> AllGood)
  BY <1>6 DEF AllGood
<1>15. QED
  BY <1>8, <1>9, <1>10, <1>11, <1>13, <1>14

(* Where the reading has come to, and what is known by then.               *)
Made == C!GroupNames \ C!Elements(sorted)
Implied == {n \in Made : GroupOf[n].use = {}}
After1 == {"sort", "prune", "providers", "groups", "rules", "dns", "ok"}
After2 == {"providers", "groups", "rules", "dns", "ok"}
RawInv ==
    /\ raw \in Raws /\ phase \in {"nodes", "graph", "refused"} \cup After1
    /\ phase # "refused" => error = "none"
    /\ phase \in {"graph"} \cup After1 => NodesFit
    /\ phase \in After1 => GroupsDistinct
    /\ phase = "nodes" => parsed = {"DIRECT", "REJECT"}
    /\ phase \in {"graph", "sort", "prune", "providers"} => parsed = Own
    /\ phase \in {"nodes", "graph"} => sorted = <<>>
LoopInv ==
    /\ phase = "sort" => QueueInv /\ GoneInv
    /\ phase = "prune" => PruneInv
    /\ phase \in After2 => C!OnLoop = {}
    /\ error = "loop" => graph = C!Between /\ graph # {}
MadeInv ==
    /\ phase \in {"providers", "groups"} => SortedInv
    /\ phase = "providers" => C!Elements(sorted) = C!GroupNames
    /\ phase \in {"groups", "rules", "dns", "ok"} => "default" \notin raw.providers
    /\ phase = "groups" => Made \subseteq GoodGroups /\ parsed = Own \cup Made
                           /\ providers = raw.providers \cup Implied
VerdictInv ==
    /\ phase = "refused" => ~C!Sound
    /\ phase \in {"rules", "dns", "ok"} => GoodGroups = C!GroupNames
                                           /\ parsed = C!Everything \cup {"GLOBAL"}
    /\ phase \in {"dns", "ok"} => raw.targets \subseteq C!Everything \cup {"GLOBAL"}
    /\ phase = "ok" => DNSFits
ReadingInv == RawInv /\ LoopInv /\ MadeInv /\ VerdictInv

LEMMA NodesAreParsed ==
    ASSUME C!ConfigAssumption, ReadingInv, raw' = raw, C!ParseNodes PROVE ReadingInv'
<1>1. raw \in Raws /\ phase = "nodes" /\ error = "none" /\ parsed = {"DIRECT", "REJECT"} /\ sorted = <<>>
  BY DEF ReadingInv, RawInv, C!ParseNodes
<1>2. sorted' = sorted
  BY DEF C!ParseNodes
<1> DEFINE Twice == \E i \in DOMAIN raw.nodes :
                        raw.nodes[i] \in {"DIRECT", "REJECT"} \/ C!Times(raw.nodes, raw.nodes[i]) > 1
<1>3. Twice <=> ~NodesFit
  <2>1. raw.nodes \in Seq(NodeNames)
    BY <1>1 DEF C!ConfigAssumption, NodeNames
  <2>2. \A i \in DOMAIN raw.nodes :
            C!Times(raw.nodes, raw.nodes[i]) > 1
                <=> \E j \in DOMAIN raw.nodes : j # i /\ raw.nodes[j] = raw.nodes[i]
    BY <2>1, MoreThanOne
  <2>3. NodeNames \cap {"DIRECT", "REJECT"} = {}
            <=> \A i \in DOMAIN raw.nodes : raw.nodes[i] \notin {"DIRECT", "REJECT"}
    BY DEF NodeNames, C!Elements
  <2>4. QED
    BY <2>2, <2>3 DEF NodesFit, NodesDistinct
<1>4. CASE Twice
  <2>1. phase' = "refused" /\ error' = "node"
    BY <1>4 DEF C!ParseNodes, C!Refuse
  <2>2. ~C!Sound
    BY <1>1, <1>3, <1>4, SoundIs
  <2>3. ~C!Sound'
    BY <2>2, SameLoops
  <2>4. QED
    BY <1>1, <2>1, <2>3 DEF ReadingInv, RawInv, LoopInv, MadeInv, VerdictInv, After1, After2
<1>5. CASE ~Twice
  <2>1. phase' = "graph" /\ error' = "none" /\ parsed' = Own
    BY <1>1, <1>5 DEF C!ParseNodes, C!Go, Own, NodeNames
  <2>2. NodesFit' /\ Own' = Own
    BY <1>3, <1>5, SameRaw
  <2>3. QED
    BY <1>1, <1>2, <2>1, <2>2 DEF ReadingInv, RawInv, LoopInv, MadeInv, VerdictInv, After1, After2
<1>6. QED
  BY <1>4, <1>5

LEMMA GraphIsBuilt ==
    ASSUME C!ConfigAssumption, ReadingInv, raw' = raw, C!BuildGraph PROVE ReadingInv'
<1>1. raw \in Raws /\ phase = "graph" /\ error = "none" /\ parsed = Own /\ sorted = <<>> /\ NodesFit
  BY DEF ReadingInv, RawInv, After1, C!BuildGraph
<1>2. sorted' = sorted /\ parsed' = parsed
  BY DEF C!BuildGraph
<1> DEFINE ns == [i \in DOMAIN C!Groups |-> C!Groups[i].name]
<1>3. C!Cardinality(C!GroupNames) < Len(C!Groups) <=> ~GroupsDistinct
  <2>1. DOMAIN C!Groups = 1..Len(C!Groups) /\ Len(C!Groups) \in Nat
    BY <1>1, GroupsAre, LenProperties
  <2>2. ns \in Seq(C!GroupNames)
    BY <2>1 DEF C!GroupNames
  <2>3. C!Elements(ns) = C!GroupNames /\ Len(ns) = Len(C!Groups)
    BY <2>1 DEF C!Elements, C!GroupNames
  <2>4. Apart(ns) <=> GroupsDistinct
    BY DEF Apart, GroupsDistinct
  <2> HIDE DEF ns
  <2>5. /\ IsFiniteSet(C!GroupNames) /\ Cardinality(C!GroupNames) <= Len(ns)
        /\ Cardinality(C!GroupNames) = Len(ns) <=> Apart(ns)
    BY <2>2, <2>3, ElementsAre
  <2>6. Cardinality(C!GroupNames) \in Nat
    BY <2>5, FS_CardinalityType
  <2> DEFINE c == Cardinality(C!GroupNames)
             l == Len(C!Groups)
  <2> HIDE DEF c, l
  <2>7. c \in Nat /\ l \in Nat /\ c <= l /\ (c = l <=> GroupsDistinct)
    BY <2>1, <2>3, <2>4, <2>5, <2>6 DEF c, l
  <2>8. c < l <=> c # l
    BY <2>7
  <2>9. C!Cardinality(C!GroupNames) = c
    BY CountIsCount DEF c
  <2>10. QED
    BY <2>7, <2>8, <2>9 DEF l
<1>4. CASE C!Cardinality(C!GroupNames) < Len(C!Groups)
  <2>1. phase' = "refused" /\ error' = "group twice"
    BY <1>4 DEF C!BuildGraph, C!Refuse
  <2>2. ~C!Sound
    BY <1>1, <1>3, <1>4, SoundIs
  <2>3. ~C!Sound'
    BY <2>2, SameLoops
  <2>4. QED
    BY <1>1, <2>1, <2>3 DEF ReadingInv, RawInv, LoopInv, MadeInv, VerdictInv, After1, After2
<1>5. CASE ~(C!Cardinality(C!GroupNames) < Len(C!Groups))
  <2>1. /\ phase' = "sort" /\ error' = "none" /\ graph' = C!Names
        /\ indegree' = [n \in C!Names |-> C!Indegree(n)]
        /\ queue' \in C!Orders({n \in C!Names : C!Indegree(n) = 0})
    BY <1>1, <1>5 DEF C!BuildGraph, C!Go
  <2>2. QueueInv' /\ GoneInv'
    BY <1>1, <1>2, <2>1, SortBegins
  <2>3. NodesFit' /\ GroupsDistinct' /\ Own' = Own
    BY <1>1, <1>3, <1>5, SameRaw
  <2>4. QED
    BY <1>1, <1>2, <2>1, <2>2, <2>3 DEF ReadingInv, RawInv, LoopInv, MadeInv, VerdictInv, After1, After2
<1>6. QED
  BY <1>4, <1>5

LEMMA GraphIsSorted ==
    ASSUME C!ConfigAssumption, ReadingInv, raw' = raw, C!Sort \/ C!SortEnds \/ C!Prune PROVE ReadingInv'
<1>1. raw \in Raws /\ phase \in {"sort", "prune"} /\ error = "none" /\ parsed = Own
  BY DEF ReadingInv, RawInv, After1, C!Sort, C!SortEnds, C!Prune
<1>2. NodesFit' /\ GroupsDistinct' /\ Own' = Own
  BY <1>1, SameRaw DEF ReadingInv, RawInv, After1
<1>3. CASE C!Sort
  <2>1. phase = "sort" /\ phase' = phase /\ error' = error /\ parsed' = parsed
    BY <1>3 DEF C!Sort
  <2>2. QueueInv' /\ GoneInv'
    BY <1>1, <1>3, <2>1, SortStays DEF ReadingInv, LoopInv
  <2>3. QED
    BY <1>1, <1>2, <2>1, <2>2 DEF ReadingInv, RawInv, LoopInv, MadeInv, VerdictInv, After1, After2
<1>4. CASE C!SortEnds
  <2>1. /\ phase = "sort" /\ queue = <<>> /\ error' = error
        /\ phase' = IF graph = {} THEN "providers" ELSE "prune"
        /\ UNCHANGED <<parsed, graph, sorted>>
    BY <1>4 DEF C!SortEnds, C!Go
  <2>2. QueueInv /\ GoneInv
    BY <2>1 DEF ReadingInv, LoopInv
  <2>3. IF graph = {} THEN C!OnLoop = {} /\ C!Elements(sorted) = C!GroupNames ELSE PruneInv
    BY <1>1, <2>1, <2>2, SortIsOver
  <2>4. C!OnLoop' = C!OnLoop /\ C!Between' = C!Between /\ C!Names' = C!Names /\ Ties' = Ties
        /\ C!GroupNames' = C!GroupNames
    BY SameRaw, SameLoops
  <2>5. PruneInv => PruneInv'
    BY <2>1, <2>4 DEF PruneInv
  <2>6. SortedInv'
    BY <2>1, <2>2, <2>4 DEF GoneInv, SortedInv, Apart
  <2>7. C!Elements(sorted)' = C!Elements(sorted)
    BY <2>1 DEF C!Elements
  <2>8. CASE graph = {}
    BY <1>1, <1>2, <2>1, <2>3, <2>4, <2>6, <2>7, <2>8
       DEF ReadingInv, RawInv, LoopInv, MadeInv, VerdictInv, After1, After2
  <2>9. CASE graph # {}
    BY <1>1, <1>2, <2>1, <2>3, <2>5, <2>9
       DEF ReadingInv, RawInv, LoopInv, MadeInv, VerdictInv, After1, After2
  <2>10. QED
    BY <2>8, <2>9
<1>5. CASE C!Prune
  <2>1. phase = "prune" /\ parsed' = parsed /\ PruneInv
    BY <1>5 DEF C!Prune, ReadingInv, LoopInv
  <2>2. CASE C!Leaves # {}
    <3>1. phase' = phase /\ error' = error /\ \E n \in C!Leaves : graph' = graph \ {n}
      BY <1>5, <2>2 DEF C!Prune
    <3>2. PruneInv'
      BY <1>1, <2>1, <3>1, PruneStays
    <3>3. QED
      BY <1>1, <1>2, <2>1, <3>1, <3>2 DEF ReadingInv, RawInv, LoopInv, MadeInv, VerdictInv, After1, After2
  <2>3. CASE C!Leaves = {}
    <3>1. phase' = "refused" /\ error' = "loop" /\ graph' = graph
      BY <1>5, <2>3 DEF C!Prune, C!Refuse
    <3>2. graph = C!Between /\ graph # {} /\ C!OnLoop # {}
      BY <1>1, <2>1, <2>3, PruneIsOver
    <3>3. ~C!Sound' /\ C!Between' = C!Between
      BY <1>1, <3>2, SoundIs, SameLoops
    <3>4. QED
      BY <1>1, <3>1, <3>2, <3>3 DEF ReadingInv, RawInv, LoopInv, MadeInv, VerdictInv, After1, After2
  <2>4. QED
    BY <2>2, <2>3
<1>6. QED
  BY <1>3, <1>4, <1>5

LEMMA ProvidersAreParsed ==
    ASSUME C!ConfigAssumption, ReadingInv, raw' = raw, C!ParseProviders PROVE ReadingInv'
<1>1. /\ raw \in Raws /\ phase = "providers" /\ error = "none" /\ parsed = Own
      /\ SortedInv /\ C!Elements(sorted) = C!GroupNames /\ C!OnLoop = {}
  BY DEF ReadingInv, RawInv, LoopInv, MadeInv, After1, After2, C!ParseProviders
<1>2. UNCHANGED <<parsed, sorted, graph>>
  BY DEF C!ParseProviders
<1>3. CASE "default" \in raw.providers
  <2>1. phase' = "refused" /\ error' = "provider"
    BY <1>3 DEF C!ParseProviders, C!Refuse
  <2>2. ~C!Sound'
    BY <1>1, <1>3, SoundIs, SameLoops
  <2>3. QED
    BY <1>1, <2>1, <2>2 DEF ReadingInv, RawInv, LoopInv, MadeInv, VerdictInv, After1, After2
<1>4. CASE "default" \notin raw.providers
  <2>1. phase' = "groups" /\ error' = "none" /\ providers' = raw.providers
    BY <1>1, <1>4 DEF C!ParseProviders, C!Go
  <2>2. /\ NodesFit' /\ GroupsDistinct' /\ Own' = Own /\ C!OnLoop' = {}
        /\ C!GroupNames' = C!GroupNames /\ Ties' = Ties /\ GroupOf' = GroupOf
    BY <1>1, SameRaw, SameLoops DEF ReadingInv, RawInv, After1
  <2>3. Made' = {}
    BY <1>1, <1>2, <2>2 DEF Made, C!Elements
  <2>4. Implied' = {}
    BY <2>3 DEF Implied
  <2>5. SortedInv'
    BY <1>1, <1>2, <2>2 DEF SortedInv, Apart
  <2>6. parsed' = Own' \cup Made' /\ providers' = raw'.providers \cup Implied'
    BY <1>1, <1>2, <2>1, <2>2, <2>3, <2>4
  <2>7. RawInv' /\ LoopInv' /\ VerdictInv'
    BY <1>1, <2>1, <2>2 DEF RawInv, LoopInv, VerdictInv, After1, After2
  <2>8. MadeInv'
    BY <1>4, <2>1, <2>3, <2>5, <2>6 DEF MadeInv
  <2>9. QED
    BY <2>7, <2>8 DEF ReadingInv
<1>5. QED
  BY <1>3, <1>4

(* The next group is made when it fits, and it fits when it is good.       *)
LEMMA FitsIfGood ==
    ASSUME C!ConfigAssumption, ReadingInv, phase = "groups", sorted # <<>>, NEW h, h = Head(sorted)
    PROVE  LET g == C!Group(h) IN
           /\ h \in C!GroupNames /\ h \in C!Elements(sorted) /\ g.name = h /\ GroupOf[h] = g
           /\ GoodGroup(g) => C!Fits(g) /\ g.name \notin parsed
           /\ C!Fits(g) /\ g.name \notin parsed => GoodGroup(g)
<1> DEFINE g == C!Group(h)
<1>1. /\ raw \in Raws /\ SortedInv /\ parsed = Own \cup Made /\ providers = raw.providers \cup Implied
      /\ Made \subseteq GoodGroups
  BY DEF ReadingInv, RawInv, MadeInv
<1>2. sorted \in Seq(C!GroupNames) /\ Apart(sorted)
      /\ \A i, j \in DOMAIN sorted : <<sorted[i], sorted[j]>> \in Ties => j < i
  BY <1>1 DEF SortedInv
<1>3. h \in C!Elements(sorted) /\ sorted[1] = h /\ 1 \in DOMAIN sorted /\ DOMAIN sorted = 1..Len(sorted)
  BY <1>2, HeadLeaves
<1>4. h \in C!GroupNames
  BY <1>2, <1>3, ElementsAre
<1>5. GroupOf[h] = g
  BY <1>4 DEF GroupOf
<1>6. PICK i \in DOMAIN C!Groups : g = C!Groups[i] /\ C!Groups[i].name = h
  BY <1>1, <1>4, <1>5, GroupsAre
<1>7. g.name = h
  BY <1>6
<1>8. /\ g.type \in {"select", "relay", "url-test", "fallback", "load-balance", "other"}
      /\ C!Elements(g.proxies) = {m \in C!Names : <<h, m>> \in Ties}
  <2>1. g \in C!Elements(raw.groups)
    BY <1>6 DEF C!Elements, C!Groups
  <2>2. g.type \in {"select", "relay", "url-test", "fallback", "load-balance", "other"}
    BY <1>1, <2>1 DEF C!ConfigAssumption
  <2>3. C!Members(h) = g.proxies
    BY <1>1, <1>4, <1>5, GroupsAre
  <2>4. C!Elements(C!Members(h)) = {m \in C!Names : <<h, m>> \in Ties}
    BY <1>1, TiesAre
  <2>5. QED
    BY <2>2, <2>3, <2>4
<1>9. C!Everything = Own \cup C!GroupNames
  BY DEF C!Everything, Own, NodeNames
<1>10. h \notin Made /\ Made \subseteq C!GroupNames /\ Implied \subseteq Made
  BY <1>3 DEF Made, Implied
<1> HIDE DEF g
<1>11. ASSUME GoodGroup(g) PROVE C!Fits(g) /\ g.name \notin parsed
  <2>1. /\ h \notin Own /\ C!Elements(g.proxies) \subseteq C!Everything
        /\ g.use \subseteq raw.providers /\ (g.proxies # <<>> \/ g.use # {})
        /\ (g.use = {} => h \notin raw.providers) /\ g.type # "other"
    BY <1>7, <1>11 DEF GoodGroup
  <2>2. ASSUME NEW m \in C!Elements(g.proxies) PROVE m \in parsed
    <3>1. <<h, m>> \in Ties
      BY <1>8
    <3>2. m \notin C!Elements(sorted)
      <4>1. \A j \in DOMAIN sorted : ~(j < 1)
        BY <1>3
      <4>2. \A j \in DOMAIN sorted : sorted[j] # m
        BY <1>2, <1>3, <3>1, <4>1
      <4>3. QED
        BY <4>2 DEF C!Elements
    <3>3. m \in Own \cup C!GroupNames
      BY <1>9, <2>1
    <3>4. QED
      BY <1>1, <3>2, <3>3 DEF Made
  <2>3. h \notin parsed
    BY <1>1, <1>10, <2>1
  <2>4. g.use = {} => h \notin providers
    BY <1>1, <1>10, <2>1
  <2>5. g.use \subseteq providers
    BY <1>1, <2>1
  <2>6. QED
    BY <1>7, <1>8, <2>1, <2>2, <2>3, <2>4, <2>5 DEF C!Fits, C!Known
<1>12. ASSUME C!Fits(g), g.name \notin parsed PROVE GoodGroup(g)
  <2>1. /\ g.proxies # <<>> \/ g.use # {}
        /\ C!Elements(g.proxies) \subseteq parsed /\ g.use \subseteq raw.providers
        /\ g.proxies # <<>> /\ g.use = {} => g.name \notin providers
        /\ g.type # "other"
    BY <1>12 DEF C!Fits, C!Known
  <2>2. parsed \subseteq C!Everything /\ Own \subseteq parsed /\ raw.providers \subseteq providers
    BY <1>1, <1>9, <1>10
  <2>3. QED
    BY <1>12, <2>1, <2>2 DEF GoodGroup
<1>13. QED
  BY <1>3, <1>4, <1>5, <1>7, <1>11, <1>12 DEF g

LEMMA GroupIsParsed ==
    ASSUME C!ConfigAssumption, ReadingInv, raw' = raw, C!ParseGroup PROVE ReadingInv'
<1> DEFINE h == Head(sorted)
           g == C!Group(h)
<1>1. /\ raw \in Raws /\ phase = "groups" /\ sorted # <<>> /\ error = "none" /\ C!OnLoop = {}
      /\ SortedInv /\ parsed = Own \cup Made /\ providers = raw.providers \cup Implied
      /\ Made \subseteq GoodGroups /\ "default" \notin raw.providers
  BY DEF ReadingInv, RawInv, LoopInv, MadeInv, After1, After2, C!ParseGroup
<1>2. /\ h \in C!GroupNames /\ h \in C!Elements(sorted) /\ g.name = h /\ GroupOf[h] = g
      /\ GoodGroup(g) => C!Fits(g) /\ g.name \notin parsed
      /\ C!Fits(g) /\ g.name \notin parsed => GoodGroup(g)
  BY <1>1, FitsIfGood
<1>3. CASE ~C!Fits(g) \/ g.name \in parsed
  <2>1. phase' = "refused" /\ error' = "group"
    BY <1>3 DEF C!ParseGroup, C!Refuse
  <2>2. h \notin GoodGroups
    BY <1>2, <1>3 DEF GoodGroups
  <2>3. ~C!Sound'
    BY <1>1, <1>2, <2>2, SoundIs, SameLoops
  <2>4. QED
    BY <1>1, <2>1, <2>3 DEF ReadingInv, RawInv, LoopInv, MadeInv, VerdictInv, After1, After2
<1>4. CASE C!Fits(g) /\ g.name \notin parsed
  <2>1. /\ phase' = phase /\ error' = error /\ sorted' = Tail(sorted)
        /\ parsed' = parsed \cup {h}
        /\ providers' = IF g.use = {} THEN providers \cup {h} ELSE providers
    BY <1>2, <1>4 DEF C!ParseGroup
  <2>2. /\ NodesFit' /\ GroupsDistinct' /\ Own' = Own /\ C!OnLoop' = {}
        /\ C!GroupNames' = C!GroupNames /\ Ties' = Ties /\ GroupOf' = GroupOf /\ GoodGroups' = GoodGroups
    BY <1>1, SameRaw, SameLoops DEF ReadingInv, RawInv, After1
  <2> DEFINE t == Tail(sorted)
  <2>3. /\ sorted \in Seq(C!GroupNames) /\ Apart(sorted)
        /\ \A i, j \in DOMAIN sorted : <<sorted[i], sorted[j]>> \in Ties => j < i
    BY <1>1 DEF SortedInv
  <2>4. /\ t \in Seq(C!GroupNames) /\ Apart(t) /\ C!Elements(t) = C!Elements(sorted) \ {h}
        /\ DOMAIN t = 1..(Len(sorted) - 1) /\ Len(sorted) \in Nat
        /\ \A i \in DOMAIN t : t[i] = sorted[i + 1] /\ i + 1 \in DOMAIN sorted
    BY <1>1, <2>3, HeadLeaves
  <2> HIDE DEF t, h
  <2>5. sorted' = t
    BY <2>1 DEF t
  <2>6. SortedInv'
    <3>1. ASSUME NEW i \in DOMAIN t, NEW j \in DOMAIN t, <<t[i], t[j]>> \in Ties PROVE j < i
      <4>1. j + 1 < i + 1
        BY <2>3, <2>4, <3>1
      <4>2. i \in Nat /\ j \in Nat
        BY <2>4
      <4>3. QED
        BY <4>1, <4>2
    <3>2. QED
      BY <2>2, <2>4, <2>5, <3>1 DEF SortedInv, Apart
  <2>7. Made' = Made \cup {h}
    <3>1. C!Elements(sorted)' = C!Elements(sorted) \ {h}
      BY <2>4, <2>5 DEF C!Elements
    <3>2. QED
      BY <1>2, <2>2, <3>1 DEF Made
  <2>8. h \in GoodGroups
    BY <1>2, <1>4 DEF GoodGroups
  <2>9. Implied' = IF g.use = {} THEN Implied \cup {h} ELSE Implied
    BY <1>2, <2>2, <2>7 DEF Implied
  <2> HIDE DEF g
  <2>10. parsed' = Own' \cup Made' /\ providers' = raw'.providers \cup Implied'
    BY <1>1, <2>1, <2>2, <2>7, <2>9
  <2>11. Made' \subseteq GoodGroups'
    BY <1>1, <2>2, <2>7, <2>8
  <2>12. RawInv' /\ LoopInv' /\ VerdictInv'
    BY <1>1, <2>1, <2>2 DEF RawInv, LoopInv, VerdictInv, After1, After2
  <2>13. MadeInv'
    BY <1>1, <2>1, <2>6, <2>10, <2>11 DEF MadeInv
  <2>14. QED
    BY <2>12, <2>13 DEF ReadingInv
<1>5. QED
  BY <1>3, <1>4

(* GLOBAL, the rules and the DNS come last.                                *)
LEMMA RestIsParsed ==
    ASSUME C!ConfigAssumption, ReadingInv, raw' = raw, C!GroupsEnd \/ C!ParseRules \/ C!ParseDNS
    PROVE  ReadingInv'
<1>1. /\ raw \in Raws /\ phase \in {"groups", "rules", "dns"} /\ error = "none"
      /\ C!OnLoop = {} /\ "default" \notin raw.providers /\ NodesFit /\ GroupsDistinct
  BY DEF ReadingInv, RawInv, LoopInv, MadeInv, After1, After2, C!GroupsEnd, C!ParseRules, C!ParseDNS
<1>2. /\ NodesFit' /\ GroupsDistinct' /\ C!OnLoop' = {} /\ "default" \notin raw'.providers
      /\ C!GroupNames' = C!GroupNames /\ GoodGroups' = GoodGroups /\ C!Everything' = C!Everything
      /\ (C!Sound <=> C!Sound') /\ (DNSFits <=> DNSFits')
  BY <1>1, SameRaw, SameLoops
<1>3. CASE C!GroupsEnd
  <2>1. /\ phase = "groups" /\ sorted = <<>> /\ phase' = "rules" /\ error' = error
        /\ parsed' = parsed \cup {"GLOBAL"}
    BY <1>3 DEF C!GroupsEnd, C!Go
  <2>2. Made = C!GroupNames
    BY <2>1 DEF Made, C!Elements
  <2>3. parsed = Own \cup C!GroupNames /\ C!GroupNames \subseteq GoodGroups
    BY <2>1, <2>2 DEF ReadingInv, MadeInv
  <2>4. GoodGroups = C!GroupNames /\ parsed' = C!Everything \cup {"GLOBAL"}
    BY <2>1, <2>3 DEF GoodGroups, C!Everything, Own, NodeNames
  <2>5. RawInv' /\ LoopInv' /\ MadeInv'
    BY <1>1, <1>2, <2>1 DEF RawInv, LoopInv, MadeInv, After1, After2
  <2>6. VerdictInv'
    BY <1>2, <2>1, <2>4 DEF VerdictInv
  <2>7. QED
    BY <2>5, <2>6 DEF ReadingInv
<1>4. ASSUME phase \in {"rules", "dns"}
      PROVE  GoodGroups = C!GroupNames /\ parsed = C!Everything \cup {"GLOBAL"}
  BY <1>4 DEF ReadingInv, VerdictInv
<1>5. ASSUME phase' = "refused", error' \in {"rule", "dns"}, ~C!Sound PROVE ReadingInv'
  BY <1>1, <1>2, <1>5 DEF ReadingInv, RawInv, LoopInv, MadeInv, VerdictInv, After1, After2
<1>6. CASE C!ParseRules
  <2>1. phase = "rules" /\ parsed' = parsed
    BY <1>6 DEF C!ParseRules
  <2>2. C!MissingTargets = {} <=> raw.targets \subseteq C!Everything \cup {"GLOBAL"}
    BY <1>4, <2>1 DEF C!MissingTargets
  <2>3. CASE C!MissingTargets # {}
    <3>1. phase' = "refused" /\ error' = "rule"
      BY <1>6, <2>3 DEF C!ParseRules, C!Refuse
    <3>2. ~C!Sound
      BY <1>1, <2>2, <2>3, SoundIs
    <3>3. QED
      BY <1>5, <3>1, <3>2
  <2>4. CASE C!MissingTargets = {}
    <3>1. phase' = "dns" /\ error' = error
      BY <1>6, <2>4 DEF C!ParseRules, C!Go
    <3>2. RawInv' /\ LoopInv' /\ MadeInv'
      BY <1>1, <1>2, <3>1 DEF RawInv, LoopInv, MadeInv, After1, After2
    <3>3. VerdictInv'
      BY <1>2, <1>4, <2>1, <2>2, <2>4, <3>1 DEF VerdictInv
    <3>4. QED
      BY <3>2, <3>3 DEF ReadingInv
  <2>5. QED
    BY <2>3, <2>4
<1>7. CASE C!ParseDNS
  <2>1. phase = "dns" /\ parsed' = parsed /\ raw.targets \subseteq C!Everything \cup {"GLOBAL"}
    BY <1>7 DEF C!ParseDNS, ReadingInv, VerdictInv
  <2>2. CASE ~DNSFits
    <3>1. phase' = "refused" /\ error' = "dns"
      BY <1>7, <2>2 DEF C!ParseDNS, C!Refuse, DNSFits
    <3>2. ~C!Sound
      BY <1>1, <2>2, SoundIs
    <3>3. QED
      BY <1>5, <3>1, <3>2
  <2>3. CASE DNSFits
    <3>1. phase' = "ok" /\ error' = error
      BY <1>7, <2>3 DEF C!ParseDNS, C!Go, DNSFits
    <3>2. RawInv' /\ LoopInv' /\ MadeInv'
      BY <1>1, <1>2, <3>1 DEF RawInv, LoopInv, MadeInv, After1, After2
    <3>3. VerdictInv'
      BY <1>2, <1>4, <2>1, <2>3, <3>1 DEF VerdictInv
    <3>4. QED
      BY <3>2, <3>3 DEF ReadingInv
  <2>4. QED
    BY <2>2, <2>3
<1>8. QED
  BY <1>3, <1>6, <1>7

LEMMA ReadingBegins == ASSUME C!Init PROVE ReadingInv
  BY DEF C!Init, ReadingInv, RawInv, LoopInv, MadeInv, VerdictInv, After1, After2

LEMMA ReadingStays == ASSUME C!ConfigAssumption, ReadingInv, [C!Next]_(C!vars) PROVE ReadingInv'
<1>1. CASE C!Next
  <2>1. raw' = raw
    BY <1>1 DEF C!Next, C!ParseNodes, C!BuildGraph, C!Sort, C!SortEnds, C!Prune, C!ParseProviders,
                C!ParseGroup, C!GroupsEnd, C!ParseRules, C!ParseDNS
  <2>2. QED
    BY <1>1, <2>1, NodesAreParsed, GraphIsBuilt, GraphIsSorted, ProvidersAreParsed, GroupIsParsed,
       RestIsParsed DEF C!Next
<1>2. CASE UNCHANGED C!vars
  <2>1. UNCHANGED <<raw, phase, error, parsed, providers, indegree, graph, queue, sorted>>
    BY <1>2 DEF C!vars
  <2>2. /\ C!GroupNames' = C!GroupNames /\ C!Names' = C!Names /\ Ties' = Ties /\ GroupOf' = GroupOf
        /\ MarkSet' = MarkSet /\ MarkOf' = MarkOf /\ Own' = Own /\ C!Everything' = C!Everything
        /\ (NodesFit <=> NodesFit') /\ (GroupsDistinct <=> GroupsDistinct')
        /\ GoodGroups' = GoodGroups /\ (DNSFits <=> DNSFits')
    BY <2>1, SameRaw
  <2>3. C!OnLoop' = C!OnLoop /\ C!Between' = C!Between /\ (C!Sound <=> C!Sound')
    BY <2>1, SameLoops
  <2>4. RawInv'
    BY <2>1, <2>2 DEF ReadingInv, RawInv
  <2>5. SortedInv => SortedInv'
    BY <2>1, <2>2 DEF SortedInv, Apart
  <2>6. C!Elements(sorted)' = C!Elements(sorted) /\ C!Elements(queue)' = C!Elements(queue)
    BY <2>1 DEF C!Elements
  <2>7. LoopInv'
    <3>1. QueueInv => QueueInv'
      <4>1. \A n : MarksOn(n, graph \cap C!GroupNames)' = MarksOn(n, graph \cap C!GroupNames)
        BY <2>1, <2>2 DEF MarksOn
      <4>2. Apart(queue) => Apart(queue)'
        BY <2>1 DEF Apart
      <4>3. QED
        BY <2>1, <2>2, <2>6, <4>1, <4>2 DEF QueueInv
    <3>2. GoneInv => GoneInv'
      BY <2>1, <2>2, <2>3, <2>5, <2>6 DEF GoneInv
    <3>3. PruneInv => PruneInv'
      BY <2>1, <2>2, <2>3 DEF PruneInv
    <3>4. QED
      BY <2>1, <2>3, <3>1, <3>2, <3>3 DEF ReadingInv, LoopInv
  <2>8. MadeInv'
    <3>1. Made' = Made
      BY <2>2, <2>6 DEF Made
    <3>2. Implied' = Implied
      BY <2>2, <3>1 DEF Implied
    <3>3. QED
      BY <2>1, <2>2, <2>5, <2>6, <3>1, <3>2 DEF ReadingInv, MadeInv
  <2>9. VerdictInv'
    BY <2>1, <2>2, <2>3 DEF ReadingInv, VerdictInv
  <2>10. QED
    BY <2>4, <2>7, <2>8, <2>9 DEF ReadingInv
<1>3. QED
  BY <1>1, <1>2

(* What the invariant says of the reading.                                 *)
LEMMA ReadingHolds ==
    ASSUME C!ConfigAssumption, ReadingInv
    PROVE  C!TypeOK /\ C!MadeAfterMembers /\ C!LoopsReported /\ C!AcceptsTheSound
<1>1. raw \in Raws
  BY DEF ReadingInv, RawInv
<1>2. C!TypeOK
  <2> SUFFICES ASSUME phase = "sort"
               PROVE  /\ \A n \in graph : indegree[n] = Cardinality(C!Mentions(n, graph \cap C!GroupNames))
                      /\ \A n \in graph : indegree[n] = 0 <=> n \in C!Elements(queue)
                      /\ C!Elements(queue) \subseteq graph
    BY CountIsCount DEF C!TypeOK
  <2>1. QueueInv
    BY DEF ReadingInv, LoopInv
  <2>2. \A n \in graph : C!Mentions(n, graph \cap C!GroupNames) = MarksOn(n, graph \cap C!GroupNames)
    BY <1>1, <2>1, MarksAre DEF QueueInv
  <2>3. QED
    BY <2>1, <2>2 DEF QueueInv
<1>3. C!MadeAfterMembers
  <2> SUFFICES ASSUME phase = "providers"
               PROVE  /\ C!Elements(sorted) = C!GroupNames /\ Len(sorted) = Len(C!Groups)
                      /\ \A i, j \in DOMAIN sorted : C!Step(sorted[i], sorted[j]) => j < i
    BY DEF C!MadeAfterMembers
  <2>1. SortedInv /\ C!Elements(sorted) = C!GroupNames /\ GroupsDistinct
    BY DEF ReadingInv, RawInv, MadeInv, After1
  <2>2. /\ sorted \in Seq(C!GroupNames) /\ Apart(sorted)
        /\ \A i, j \in DOMAIN sorted : <<sorted[i], sorted[j]>> \in Ties => j < i
    BY <2>1 DEF SortedInv
  <2>3. Cardinality(C!GroupNames) = Len(sorted)
    BY <2>1, <2>2, ElementsAre
  <2> DEFINE ns == [i \in DOMAIN C!Groups |-> C!Groups[i].name]
  <2>4. Cardinality(C!GroupNames) = Len(C!Groups)
    <3>1. DOMAIN C!Groups = 1..Len(C!Groups) /\ Len(C!Groups) \in Nat
      BY <1>1, GroupsAre, LenProperties
    <3>2. ns \in Seq(C!GroupNames)
      BY <3>1 DEF C!GroupNames
    <3>3. C!Elements(ns) = C!GroupNames /\ Len(ns) = Len(C!Groups)
      BY <3>1 DEF C!Elements, C!GroupNames
    <3>4. Apart(ns)
      BY <2>1 DEF Apart, GroupsDistinct
    <3> HIDE DEF ns
    <3>5. QED
      BY <3>2, <3>3, <3>4, ElementsAre
  <2>5. QED
    BY <1>1, <2>1, <2>2, <2>3, <2>4, TiesAre
<1>4. C!LoopsReported
  BY DEF ReadingInv, LoopInv, C!LoopsReported, After2
<1>5. C!AcceptsTheSound
  <2>1. phase = "refused" => ~C!Sound
    BY DEF ReadingInv, VerdictInv
  <2>2. ASSUME phase = "ok" PROVE C!Sound
    <3>1. /\ NodesFit /\ GroupsDistinct /\ C!OnLoop = {} /\ "default" \notin raw.providers
          /\ GoodGroups = C!GroupNames
          /\ raw.targets \subseteq C!Everything \cup {"GLOBAL"} /\ DNSFits
      BY <2>2 DEF ReadingInv, RawInv, LoopInv, MadeInv, VerdictInv, After1, After2
    <3>2. QED
      BY <1>1, <3>1, SoundIs
  <2>3. QED
    BY <2>1, <2>2 DEF C!AcceptsTheSound
<1>6. QED
  BY <1>2, <1>3, <1>4, <1>5

(* Whatever a configuration says and in whichever order its maps are       *)
(* walked through, groups are made after their members, loops are found    *)
(* and named, and just what is sound is accepted.                          *)
THEOREM OnlyTheSoundIsAccepted ==
    ASSUME C!ConfigAssumption
    PROVE  C!Spec => [](C!TypeOK /\ C!MadeAfterMembers /\ C!LoopsReported /\ C!AcceptsTheSound)
<1> DEFINE Inv == ReadingInv
<1>1. C!Init => Inv
  BY ReadingBegins
<1>2. Inv /\ [C!Next]_(C!vars) => Inv'
  BY ReadingStays
<1>3. Inv => C!TypeOK /\ C!MadeAfterMembers /\ C!LoopsReported /\ C!AcceptsTheSound
  BY ReadingHolds
<1> HIDE DEF Inv
<1>4. QED
  BY <1>1, <1>2, <1>3, PTL DEF C!Spec

-----------------------------------------------------------------------------
(* COMPOSITION.  Whichever module moves takes every step, and the others   *)
(* stand still, so that what is proved of a module holds in the run.       *)
LEMMA SameMoves == ASSUME [ServeNext]_servevars PROVE moves' = moves
  BY DEF ServeNext, servevars

LEMMA TunnelMoves ==
    ASSUME [ServeNext]_servevars, moves = "tunnel" PROVE [Next]_vars
  BY DEF ServeNext, servevars

LEMMA ListenersMove ==
    ASSUME [ServeNext]_servevars, moves = "listeners" PROVE [L!Next]_(L!vars)
  BY DEF ServeNext, servevars, lvars, L!vars

LEMMA ProvidersMove ==
    ASSUME [ServeNext]_servevars, moves = "providers" PROVE [P!PNext]_(P!pvars)
  BY DEF ServeNext, servevars, pvars, P!pvars, P!fetching, P!testing, P!ending

LEMMA GroupsMove ==
    ASSUME [ServeNext]_servevars, moves = "groups" PROVE [G!GNext]_(G!gvars)
  BY DEF ServeNext, servevars, gvars, G!gvars, G!single, G!caller, G!health, G!choice, G!setter

LEMMA FakeMoves ==
    ASSUME [ServeNext]_servevars, moves = "fakeip" PROVE [F!Next]_(F!vars)
  BY DEF ServeNext, servevars, fvars, F!vars

LEMMA ConfigMoves ==
    ASSUME [ServeNext]_servevars, moves = "config" PROVE [C!Next]_(C!vars)
  BY DEF ServeNext, servevars, cvars, C!vars

(* Routing while configurations are replaced.                              *)
THEOREM RoutesAreConfigured == ServeSpec => []RoutedAsConfigured
<1> DEFINE Inv == ConfInv /\ ReadInv /\ SentInv /\ LedInv
<1>1. TunnelAssumption
  BY ServeConstants
<1>2. ServeInit => (moves = "tunnel" => Inv)
  BY <1>1, TunnelInit DEF ServeInit
<1>3. (moves = "tunnel" => Inv) /\ [ServeNext]_servevars => (moves = "tunnel" => Inv)'
  <2> SUFFICES ASSUME moves = "tunnel" => Inv, [ServeNext]_servevars, moves' = "tunnel" PROVE Inv'
    OBVIOUS
  <2>1. moves = "tunnel" /\ [Next]_vars
    BY SameMoves, TunnelMoves
  <2>2. QED
    BY <1>1, <2>1, TunnelStep
<1>4. (moves = "tunnel" => Inv) => RoutedAsConfigured
  BY TunnelHolds DEF RoutedAsConfigured
<1> HIDE DEF Inv
<1>5. QED
  BY <1>2, <1>3, <1>4, PTL DEF ServeSpec

(* The sockets of the listeners.                                           *)
THEOREM ListenersAreServed == ServeSpec => []ListenersServe
<1> DEFINE Inv == SocketInv /\ LanInv /\ ServedInv
<1>1. L!ListenersAssumption
  BY ServeConstants
<1>2. ServeInit => (moves = "listeners" => Inv)
  BY <1>1, ListenersInit DEF ServeInit
<1>3. (moves = "listeners" => Inv) /\ [ServeNext]_servevars => (moves = "listeners" => Inv)'
  <2> SUFFICES ASSUME moves = "listeners" => Inv, [ServeNext]_servevars, moves' = "listeners" PROVE Inv'
    OBVIOUS
  <2>1. moves = "listeners" /\ [L!Next]_(L!vars)
    BY SameMoves, ListenersMove
  <2>2. QED
    BY <1>1, <2>1, SocketsStay, ServedStays
<1>4. (moves = "listeners" => Inv) => ListenersServe
  BY <1>1, ListenersHold DEF ListenersServe
<1> HIDE DEF Inv
<1>5. QED
  BY <1>2, <1>3, <1>4, PTL DEF ServeSpec

(* A provider tests and remembers what it uses, and keeps what parses.     *)
THEOREM ProvidersAreSound == ServeSpec => []ProvidersSound
<1> DEFINE Inv == InstallInv /\ CopyInv /\ TestInv
<1>1. P!ProvidersAssumption
  BY ServeConstants
<1>2. ServeInit => (moves = "providers" => Inv)
  BY <1>1, ProvidersInit DEF ServeInit
<1>3. (moves = "providers" => Inv) /\ [ServeNext]_servevars => (moves = "providers" => Inv)'
  <2> SUFFICES ASSUME moves = "providers" => Inv, [ServeNext]_servevars, moves' = "providers" PROVE Inv'
    OBVIOUS
  <2>1. moves = "providers" /\ [P!PNext]_(P!pvars)
    BY SameMoves, ProvidersMove
  <2>2. QED
    BY <1>1, <2>1, ProvidersStep
<1>4. (moves = "providers" => Inv) => ProvidersSound
  BY <1>1, ProvidersHold DEF ProvidersSound
<1> HIDE DEF Inv
<1>5. QED
  BY <1>2, <1>3, <1>4, PTL DEF ServeSpec

(* What the groups of the run answer.                                      *)
THEOREM GroupsAreFollowed == ServeSpec => []GroupsFollow
<1> DEFINE Inv == GroupInv
<1>1. G!GroupsAssumption
  BY ServeConstants
<1>2. ServeInit => (moves = "groups" => Inv)
  BY <1>1, GroupsInit DEF ServeInit
<1>3. (moves = "groups" => Inv) /\ [ServeNext]_servevars => (moves = "groups" => Inv)'
  <2> SUFFICES ASSUME moves = "groups" => Inv, [ServeNext]_servevars, moves' = "groups" PROVE Inv'
    OBVIOUS
  <2>1. moves = "groups" /\ [G!GNext]_(G!gvars)
    BY SameMoves, GroupsMove
  <2>2. QED
    BY <1>1, <2>1, GroupsStep
<1>4. (moves = "groups" => Inv) => GroupsFollow
  BY <1>1, GroupsHold DEF GroupsFollow
<1> HIDE DEF Inv
<1>5. QED
  BY <1>2, <1>3, <1>4, PTL DEF ServeSpec

(* The fake addresses of the run.                                          *)
THEOREM RecentAreRemembered == ServeSpec => []RecentRemembered
<1> DEFINE Inv == FakeTypes /\ PairInv
<1>1. F!FakeAssumption
  BY ServeConstants
<1>2. ServeInit => (moves = "fakeip" => Inv)
  BY <1>1, FakeInit DEF ServeInit
<1>3. (moves = "fakeip" => Inv) /\ [ServeNext]_servevars => (moves = "fakeip" => Inv)'
  <2> SUFFICES ASSUME moves = "fakeip" => Inv, [ServeNext]_servevars, moves' = "fakeip" PROVE Inv'
    OBVIOUS
  <2>1. moves = "fakeip" /\ [F!Next]_(F!vars)
    BY SameMoves, FakeMoves
  <2>2. QED
    BY <1>1, <2>1, FakeTypesStay, PairsStay
<1>4. (moves = "fakeip" => Inv) => RecentRemembered
  BY <1>1, FakeHolds DEF RecentRemembered
<1> HIDE DEF Inv
<1>5. QED
  BY <1>2, <1>3, <1>4, PTL DEF ServeSpec

(* Reading a configuration, in the run.                                    *)
THEOREM ConfigurationsAreSound == ServeSpec => []ConfigurationSound
<1> DEFINE Inv == ReadingInv
<1>1. C!ConfigAssumption
  BY ServeConstants
<1>2. ServeInit => (moves = "config" => Inv)
  BY ReadingBegins DEF ServeInit
<1>3. (moves = "config" => Inv) /\ [ServeNext]_servevars => (moves = "config" => Inv)'
  <2> SUFFICES ASSUME moves = "config" => Inv, [ServeNext]_servevars, moves' = "config" PROVE Inv'
    OBVIOUS
  <2>1. moves = "config" /\ [C!Next]_(C!vars)
    BY SameMoves, ConfigMoves
  <2>2. QED
    BY <1>1, <2>1, ReadingStays
<1>4. (moves = "config" => Inv) => ConfigurationSound
  BY <1>1, ReadingHolds DEF ConfigurationSound
<1> HIDE DEF Inv
<1>5. QED
  BY <1>2, <1>3, <1>4, PTL DEF ServeSpec

(* The types of whichever module moves.                                    *)
THEOREM ServeTypes == ServeSpec => []ServeTypeOK
<1> DEFINE T == ConfInv /\ ReadInv /\ SentInv /\ LedInv
           S == SocketInv /\ LanInv /\ ServedInv
           V == InstallInv /\ CopyInv /\ TestInv
           E == FakeTypes /\ PairInv
           Inv == /\ moves \in {"tunnel", "fakeip", "listeners", "config", "providers", "groups"}
                  /\ moves = "tunnel" => T
                  /\ moves = "fakeip" => E
                  /\ moves = "listeners" => S
                  /\ moves = "config" => ReadingInv
                  /\ moves = "providers" => V
                  /\ moves = "groups" => GroupInv
<1>1. /\ TunnelAssumption /\ L!ListenersAssumption /\ P!ProvidersAssumption
      /\ G!GroupsAssumption /\ F!FakeAssumption /\ C!ConfigAssumption
  BY ServeConstants
<1>2. ServeInit => Inv
  BY <1>1, TunnelInit, FakeInit, ListenersInit, ReadingBegins, ProvidersInit, GroupsInit DEF ServeInit
<1>3. Inv /\ [ServeNext]_servevars => Inv'
  <2> SUFFICES ASSUME Inv, [ServeNext]_servevars PROVE Inv'
    OBVIOUS
  <2>1. moves' = moves
    BY SameMoves
  <2>2. moves = "tunnel" => T'
    BY <1>1, TunnelMoves, TunnelStep
  <2>3. moves = "fakeip" => E'
    BY <1>1, FakeMoves, FakeTypesStay, PairsStay
  <2>4. moves = "listeners" => S'
    BY <1>1, ListenersMove, SocketsStay, ServedStays
  <2>5. moves = "config" => ReadingInv'
    BY <1>1, ConfigMoves, ReadingStays
  <2>6. moves = "providers" => V'
    BY <1>1, ProvidersMove, ProvidersStep
  <2>7. moves = "groups" => GroupInv'
    BY <1>1, GroupsMove, GroupsStep
  <2> HIDE DEF T, E, S, V
  <2>8. QED
    BY <2>1, <2>2, <2>3, <2>4, <2>5, <2>6, <2>7
<1>4. Inv => ServeTypeOK
  BY <1>1, TunnelHolds, FakeHolds, ListenersHold, ReadingHolds, ProvidersHold, GroupsHold DEF ServeTypeOK
<1> HIDE DEF Inv
<1>5. QED
  BY <1>2, <1>3, <1>4, PTL DEF ServeSpec

(* What no step of the run does: hand out the gateway early, or keep a     *)
(* node that is too slow.                                                  *)
THEOREM StepsAreAllowed == ServeSpec => ServeSteps
<1> DEFINE Inv == (moves = "fakeip" => FakeTypes) /\ (moves = "groups" => GroupInv)
           Gateway == \A h \in FakeHosts : given'[h] = 0 /\ given[h] # 0 /\ ~F!Holds(lru, h) =>
                        \A a \in F!Addrs \ {0} : F!Holds(lru, F!Key(a)) \/ offset >= a
           Fast == \A c \in Dialers : group.type = "url-test" /\ groupPc[c] = "run" /\ groupPc'[c] = "store" =>
                        \A n \in G!Listed(inner'.value) : answers[n] =>
                            G!LastDelay(val'[c][1]) <= G!LastDelay(n) + group.tolerance
<1>1. F!FakeAssumption /\ G!GroupsAssumption
  BY ServeConstants
<1>2. ServeInit => Inv
  BY <1>1, FakeInit, GroupsInit DEF ServeInit
<1>3. Inv /\ [ServeNext]_servevars => Inv'
  <2> SUFFICES ASSUME Inv, [ServeNext]_servevars PROVE Inv'
    OBVIOUS
  <2>1. ASSUME moves' = "fakeip" PROVE FakeTypes'
    <3>1. moves = "fakeip" /\ [F!Next]_(F!vars)
      BY <2>1, SameMoves, FakeMoves
    <3>2. QED
      BY <1>1, <3>1, FakeTypesStay
  <2>2. ASSUME moves' = "groups" PROVE GroupInv'
    <3>1. moves = "groups" /\ [G!GNext]_(G!gvars)
      BY <2>2, SameMoves, GroupsMove
    <3>2. QED
      BY <1>1, <3>1, GroupsStep
  <2>3. QED
    BY <2>1, <2>2
<1>4. Inv /\ [ServeNext]_servevars => [Gateway]_(F!vars)
  <2> SUFFICES ASSUME Inv, [ServeNext]_servevars PROVE [Gateway]_(F!vars)
    OBVIOUS
  <2>1. CASE moves = "fakeip"
    BY <1>1, <2>1, FakeMoves, GatewayStep
  <2>2. CASE moves # "fakeip"
    <3>1. UNCHANGED F!vars
      BY <2>2 DEF ServeNext, servevars, fvars, F!vars
    <3>2. QED
      BY <3>1
  <2>3. QED
    BY <2>1, <2>2
<1>5. Inv /\ [ServeNext]_servevars => [Fast]_(G!gvars)
  <2> SUFFICES ASSUME Inv, [ServeNext]_servevars PROVE [Fast]_(G!gvars)
    OBVIOUS
  <2>1. CASE moves = "groups"
    BY <1>1, <2>1, GroupsMove, FastestStep
  <2>2. CASE moves # "groups"
    <3>1. UNCHANGED G!gvars
      BY <2>2 DEF ServeNext, servevars, gvars, G!gvars, G!single, G!caller, G!health, G!choice, G!setter
    <3>2. QED
      BY <3>1
  <2>3. QED
    BY <2>1, <2>2
<1> HIDE DEF Inv
<1>6. QED
  BY <1>2, <1>3, <1>4, <1>5, PTL DEF ServeSpec, ServeSteps, F!GatewayLast, G!NoneMuchFaster
=============================================================================
