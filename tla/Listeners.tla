------------------------------- MODULE Listeners -------------------------------
(***************************************************************************)
(* The listening sockets of the dialling library (listener/listener.go)    *)
(* and who changes them: requests that patch the configuration             *)
(* (hub/route/configs.go) and a configuration applied by force             *)
(* (hub/executor).  A socket may fail to open.  Each ReCreate function     *)
(* holds the lock of its kind throughout, and is one step.                 *)
(***************************************************************************)
EXTENDS Naturals, FiniteSets

CONSTANTS
    Kinds,          \* of "http", "socks", "redir", "tproxy", "mixed"
    Callers,        \* requests and reloads
    Asks,           \* what they may ask for
    Ports,          \* 0 stands for a port that is not wanted
    Configured      \* the ports of the configurations that are applied

NoPort == 99        \* a port the request does not mention
NoSocket == [port |-> NoPort, lan |-> FALSE]

(* What a request asks for: the port of one kind, whether others than the  *)
(* own machine may connect.  A reload has "all" for the kind.              *)
Requests == [kind : Kinds, port : Ports \cup {NoPort}, lan : {"yes", "no", "keep"}]
            \cup [kind : {"all"}, port : {NoPort}, lan : {"yes", "no"}]

(* What is asked of the constants: the mark of a port that is not          *)
(* mentioned is no port.                                                   *)
ListenersAssumption ==
    /\ NoPort \notin Ports
    /\ Asks \subseteq [Callers -> Requests]
    /\ Configured \subseteq [Kinds -> Ports \cup {0}]

VARIABLES
    allowLan,
    tcp, udp,       \* the listener variables: an address, or NoSocket
    closed,         \* kinds whose TCP listener was closed but is still there
    open,           \* sockets really open: <<kind, protocol, address>>
    asks, pc, ports, left,      \* of each caller: left are the functions to come
    alone,          \* nobody else ran meanwhile
    failed          \* those for whom some socket did not open

vars == <<allowLan, tcp, udp, closed, open, asks, pc, ports, left, alone, failed>>

Init ==
    /\ allowLan = FALSE
    /\ tcp = [k \in Kinds |-> NoSocket]
    /\ udp = [k \in Kinds |-> NoSocket]
    /\ closed = {} /\ open = {}
    /\ asks \in Asks
    /\ pc = [c \in Callers |-> "begin"]
    /\ ports = [c \in Callers |-> [k \in Kinds |-> 0]]
    /\ left = [c \in Callers |-> {}]
    /\ alone = [c \in Callers |-> TRUE]
    /\ failed = {}

Goes(c, where) == pc' = [pc EXCEPT ![c] = where]
Running(c) == pc[c] \notin {"begin", "done"}

-----------------------------------------------------------------------------
(* patchConfigs: the flag first, then the ports as they are now.           *)

Begins(c) ==
    /\ pc[c] = "begin"
    /\ allowLan' = CASE asks[c].lan = "yes" -> TRUE [] asks[c].lan = "no" -> FALSE [] OTHER -> allowLan
    /\ alone' = [d \in Callers |-> IF d = c THEN ~\E e \in Callers : Running(e)
                                            ELSE alone[d] /\ ~Running(d)]

SetAllowLan(c) ==
    /\ asks[c].kind # "all" /\ Begins(c)
    /\ Goes(c, "ports")
    /\ UNCHANGED <<tcp, udp, closed, open, asks, ports, left, failed>>

(* GetPorts asks a listener that was closed as well.                       *)
PortOf(k) == IF tcp[k] = NoSocket THEN 0 ELSE tcp[k].port
GetPorts(c) ==
    /\ pc[c] = "ports"
    /\ ports' = [ports EXCEPT ![c] = [k \in Kinds |->
            IF k = asks[c].kind /\ asks[c].port # NoPort THEN asks[c].port ELSE PortOf(k)]]
    /\ left' = [left EXCEPT ![c] = Kinds]
    /\ Goes(c, "recreate")
    /\ UNCHANGED <<allowLan, tcp, udp, closed, open, asks, alone, failed>>

(* updateGeneral of a reload: the ports are those of the new               *)
(* configuration; executor.mux keeps other reloads out.                    *)
Reload(c) ==
    /\ asks[c].kind = "all" /\ Begins(c)
    /\ ~\E d \in Callers : asks[d].kind = "all" /\ Running(d)
    /\ \E f \in Configured : ports' = [ports EXCEPT ![c] = f]
    /\ left' = [left EXCEPT ![c] = Kinds]
    /\ Goes(c, "recreate")
    /\ UNCHANGED <<tcp, udp, closed, open, asks, failed>>

-----------------------------------------------------------------------------
(* The ReCreate functions.                                                 *)

GenAddr(port) == [port |-> port, lan |-> allowLan]
WithUDP == {"socks", "redir", "tproxy", "mixed"}
Transparent == {"redir", "tproxy"}

Sockets(k, proto) == {s \in open : s[1] = k /\ s[2] = proto}

(* The listeners with another address, which are closed and forgotten.     *)
\* bug: only the TCP listener is looked at
StaleTCP(k, a) == IF tcp[k] # a THEN {"tcp"} ELSE {}
Stale(k, a) == (IF tcp[k] # a THEN {"tcp"} ELSE {}) \cup (IF udp[k] # a THEN {"udp"} ELSE {})

\* bug: they are forgotten, but not closed
OpenAfterForgets(k, a) == open
OpenAfter(k, a) == {s \in open : s[1] = k => s[2] \notin Stale(k, a)}
UDPAfter(k, a) == IF "udp" \in Stale(k, a) THEN NoSocket ELSE udp[k]

(* Nothing is done: for http, redir and tproxy when the TCP listener has   *)
(* the address; else when both have it.                                    *)
\* bug: the ports are compared, not the addresses
NothingToDoPort(k, a) == tcp[k].port = a.port /\ (k \in {"socks", "mixed"} => udp[k].port = a.port)
\* bug: socks and mixed are content with the TCP listener too
NothingToDoTCP(k, a) == tcp[k] = a
NothingToDo(k, a) == tcp[k] = a /\ (k \in {"socks", "mixed"} => udp[k] = a)

Leaves(c, k) == left' = [left EXCEPT ![c] = @ \ {k}]

ReCreateNot(c, k) ==
    LET a == GenAddr(ports[c][k]) IN
    /\ NothingToDo(k, a)
    /\ UNCHANGED <<tcp, udp, closed, open, failed>>

(* The port is zero: only closed.                                          *)
ReCreateNone(c, k) ==
    LET a == GenAddr(0) IN
    /\ ports[c][k] = 0 /\ ~NothingToDo(k, a)
    /\ open' = OpenAfter(k, a)
    /\ tcp' = [tcp EXCEPT ![k] = NoSocket] /\ udp' = [udp EXCEPT ![k] = UDPAfter(k, a)]
    /\ closed' = closed \ {k}
    /\ UNCHANGED failed

(* The TCP listener does not open.                                         *)
ReCreateFails(c, k) ==
    LET a == GenAddr(ports[c][k]) IN
    /\ ports[c][k] # 0 /\ ~NothingToDo(k, a)
    /\ open' = OpenAfter(k, a)
    /\ tcp' = [tcp EXCEPT ![k] = NoSocket]
    /\ udp' = [udp EXCEPT ![k] = UDPAfter(k, a)]
    /\ closed' = closed \ {k}
    /\ failed' = failed \cup {c}

(* The TCP listener opens; where there is one the UDP listener opens too,  *)
(* or does not: redir and tproxy then go on without it, socks closes the   *)
(* TCP listener and forgets it, mixed closes it and keeps it.              *)
ReCreateOpens(c, k) ==
    LET a == GenAddr(ports[c][k])
        before == OpenAfter(k, a)
        opened == before \cup {<<k, "tcp", a>>} IN
    /\ ports[c][k] # 0 /\ ~NothingToDo(k, a)
    /\ ~\E s \in before : s[2] = "tcp" /\ s[3].port = a.port
    /\ \/ /\ k \in WithUDP /\ ~\E s \in before : s[2] = "udp" /\ s[3].port = a.port
          /\ open' = opened \cup {<<k, "udp", a>>}
          /\ tcp' = [tcp EXCEPT ![k] = a] /\ udp' = [udp EXCEPT ![k] = a]
          /\ closed' = closed \ {k}
          /\ UNCHANGED failed
       \/ /\ k \notin WithUDP
          /\ open' = opened
          /\ tcp' = [tcp EXCEPT ![k] = a]
          /\ UNCHANGED <<udp, closed, failed>>
       \/ /\ k \in Transparent
          /\ open' = opened
          /\ tcp' = [tcp EXCEPT ![k] = a] /\ udp' = [udp EXCEPT ![k] = NoSocket]
          /\ failed' = failed \cup {c}
          /\ UNCHANGED closed
       \/ /\ k \in {"socks", "mixed"}
          /\ open' = before
          /\ tcp' = [tcp EXCEPT ![k] = IF k = "socks" THEN NoSocket ELSE a]
          /\ udp' = [udp EXCEPT ![k] = NoSocket]
          /\ closed' = IF k = "mixed" THEN closed \cup {k} ELSE closed
          /\ failed' = failed \cup {c}

(* Every function in the order of the code.                                *)
Order == <<"http", "socks", "redir", "tproxy", "mixed">>
IsNext(c, k) == k \in left[c] /\
    \A i, j \in DOMAIN Order : Order[i] \in left[c] /\ Order[j] = k => j <= i
ReCreate(c) ==
    /\ pc[c] = "recreate"
    /\ \E k \in Kinds :
        /\ IsNext(c, k) /\ Leaves(c, k)
        /\ ReCreateNot(c, k) \/ ReCreateNone(c, k) \/ ReCreateFails(c, k) \/ ReCreateOpens(c, k)
    /\ UNCHANGED <<allowLan, asks, pc, ports, alone>>

Finish(c) ==
    /\ pc[c] = "recreate" /\ left[c] = {}
    /\ Goes(c, "done")
    /\ UNCHANGED <<allowLan, tcp, udp, closed, open, asks, ports, left, alone, failed>>

Next == \E c \in Callers : SetAllowLan(c) \/ GetPorts(c) \/ Reload(c) \/ ReCreate(c) \/ Finish(c)
Spec == Init /\ [][Next]_vars

-----------------------------------------------------------------------------
Settled == \A c \in Callers : pc[c] = "done"

(* The listener variables and the open sockets say the same: no socket     *)
(* stays open that nothing holds any more, and only a mixed listener may   *)
(* be held that is not open, when its UDP socket failed.                   *)
TypeOK ==
    /\ \A k \in Kinds :
        /\ Sockets(k, "tcp") = IF tcp[k] = NoSocket \/ k \in closed THEN {} ELSE {<<k, "tcp", tcp[k]>>}
        /\ Sockets(k, "udp") = IF udp[k] = NoSocket THEN {} ELSE {<<k, "udp", udp[k]>>}
    /\ closed \subseteq {"mixed"}

(* A UDP listener never outlives its TCP listener nor has another address. *)
SameAddress == \A k \in Kinds : udp[k] # NoSocket => tcp[k] = udp[k] /\ k \notin closed

(* When all is quiet every listener is where the last word on the flag     *)
(* puts it, whichever way the requests were interleaved: none is open to   *)
(* others after the flag was taken back.                                   *)
LastWordOnLan == Settled => \A s \in open : s[3].lan = allowLan

(* A request or reload that ran alone and for which every socket opened    *)
(* has all its ports listening at the end, socks and mixed with UDP,       *)
(* whatever failed before.                                                 *)
Listens(k, proto, port) == \E s \in Sockets(k, proto) : s[3].port = port
AloneIsServed ==
    \A c \in Callers : pc[c] = "recreate" /\ left[c] = {} /\ alone[c] /\ c \notin failed =>
        \A k \in Kinds :
            IF ports[c][k] = 0 THEN Sockets(k, "tcp") = {} /\ Sockets(k, "udp") = {}
            ELSE /\ Listens(k, "tcp", ports[c][k])
                 /\ k \in {"socks", "mixed"} => Listens(k, "udp", ports[c][k])
=============================================================================
