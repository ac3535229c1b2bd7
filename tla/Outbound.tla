------------------------------ MODULE Outbound ------------------------------
(***************************************************************************)
(* One call of DialContext or ListenPacketContext of a node's adapter: the *)
(* dual-stack race for the TCP connection (component/dialer), then the     *)
(* layers the adapter puts on it, one after the other, each of which may   *)
(* fail or wait for a silent server.  What the adapters do differently is  *)
(* data: a plan, the steps of the call and the set of steps after whose    *)
(* failure the adapter itself closes what it holds.  The question is who   *)
(* ends up with the sockets.                                               *)
(***************************************************************************)
EXTENDS Naturals, Sequences, FiniteSets

Node(kind, net, tls) == [kind |-> kind, net |-> net, tls |-> tls]

(* What a configuration may say of a node, as far as dialling differs.     *)
AllNodes ==
    {Node("ss", net, tls) : net \in {"none", "obfs", "v2ray", "other"}, tls \in BOOLEAN}
    \cup {Node("ssr", cipher, FALSE) : cipher \in {"dummy", "stream", "aead"}}
    \cup {Node("vmess", net, tls) : net \in {"none", "ws", "http", "h2", "grpc"}, tls \in BOOLEAN}
    \cup {Node("trojan", net, TRUE) : net \in {"none", "ws", "grpc"}}
    \cup {Node(kind, "none", tls) : kind \in {"socks5", "http"}, tls \in BOOLEAN}
    \cup {Node("snell", version, FALSE) : version \in {"v1", "v2", "v3"}}

Families == {"v4", "v6"}

VARIABLES
    node, command,  \* the node dialled, and "tcp" or "udp"
    plain,          \* the caller passed no dialer options
    steps,          \* what is left of the plan; its head is under way
    passed,         \* the steps done, in order
    racer,          \* where each racer of the dual-stack dial is
    outcome,        \* what it found
    sock,           \* the TCP connection it opened
    primary, fallback,  \* outcomes received, "none" before (done is false)
    conn,           \* the family of the connection in c, "none" while there is none
    udp,            \* the packet socket
    watch,          \* socks5.go:114 waits for the end of the association
    silent,         \* the server has stopped answering
    error           \* "none" while running, "ok", or the step that failed

vars == <<node, command, plain, steps, passed, racer, outcome, sock, primary, fallback,
          conn, udp, watch, silent, error>>
racevars == <<racer, outcome, sock, primary, fallback, conn>>
callvars == <<node, command, plain>>

-----------------------------------------------------------------------------
(* The layers of each adapter.                                             *)

(* "ws" and "wss" are the dial of gorilla's websocket, which closes the    *)
(* connection when it fails and gives up after eight seconds; "gun" is the *)
(* dial function of the HTTP/2 transport, which closes it too.  Layers     *)
(* that only wrap the connection cannot fail and are left out.             *)
ClosesItself(step) == step \in {"ws", "wss", "gun"}
HasTimeLimit(step) == step \in {"ws", "wss"}
Waits(step) == step \in {"ws", "wss", "tls", "gun", "establish", "socks", "connect"}

TLSIf(tls) == IF tls THEN <<"tls">> ELSE <<>>
WebsocketLayer(tls) == IF tls THEN <<"wss">> ELSE <<"ws">>
GunLayer == <<"gun">>
H2Layers == <<"tls", "h2", "establish">>

SSLayers(n) == (IF n.net = "v2ray" THEN WebsocketLayer(n.tls) ELSE <<>>) \o <<"header">>
SSRLayers(n) == <<"header">>
\* bug: the http case forgets what the default case does
VmessLayersBareHTTP(n) ==
    (CASE n.net = "ws" -> WebsocketLayer(n.tls)
       [] n.net = "h2" -> H2Layers
       [] n.net = "grpc" -> GunLayer
       [] n.net = "http" -> <<>>
       [] OTHER -> TLSIf(n.tls)) \o <<"header">>
VmessLayers(n) ==
    (CASE n.net = "ws" -> WebsocketLayer(n.tls)
       [] n.net = "h2" -> H2Layers
       [] n.net = "grpc" -> GunLayer
       [] OTHER -> TLSIf(n.tls)) \o <<"header">>

PlainStream(n) == IF n.net = "ws" THEN WebsocketLayer(TRUE) ELSE <<"tls">>
TrojanLayers(n) == (IF n.net = "grpc" THEN GunLayer ELSE PlainStream(n)) \o <<"header">>
Socks5Layers(n) == TLSIf(n.tls) \o <<"socks">>
ShakeHand == <<"connect">>
HttpLayers(n) == TLSIf(n.tls) \o ShakeHand
SnellLayers(n) == <<"header">>

(* What the constructors accept.                                           *)
NewShadowSocks(n) == n.net # "other"
NewShadowSocksR(n) == n.net # "aead"
NewVmess(n) == n.net \in {"h2", "grpc"} => n.tls
NewSnell(n) == n.net # "v3"
ParseProxy(n) ==
    CASE n.kind = "ss" -> NewShadowSocks(n)
      [] n.kind = "ssr" -> NewShadowSocksR(n)
      [] n.kind = "vmess" -> NewVmess(n)
      [] n.kind = "snell" -> NewSnell(n)
      [] OTHER -> TRUE

-----------------------------------------------------------------------------
(* The plans.  The defer of safeConnClose evaluates err when it is still   *)
(* nil, so it closes nothing: closed names only what is closed explicitly, *)
(* and the one defer that follows a failed step (the TLS of socks5).       *)

Plan(todo, closed) == [steps |-> todo, closed |-> closed]
Unsupported == Plan(<<"unsupported">>, {})

SSDial(n) == Plan(<<"dial">> \o SSLayers(n), {})
SSRDial(n) == Plan(<<"dial">> \o SSRLayers(n), {})
VmessDial(n) == Plan(<<"dial">> \o VmessLayers(n), {})
TrojanDial(n, bare) ==
    Plan(<<"dial">> \o TrojanLayers(n), IF n.net = "grpc" /\ bare THEN {"header"} ELSE {})
Socks5Dial(n) == Plan(<<"dial">> \o Socks5Layers(n), {})
HttpDial(n) == Plan(<<"dial">> \o HttpLayers(n), {})
SnellDial(n, bare) ==
    Plan(<<"dial">> \o SnellLayers(n), IF n.net = "v2" /\ bare THEN {"header"} ELSE {})

\* bug: the early return forgets the socket
SSListenKeeps(n) == Plan(<<"listen", "server">>, {})
SSListen(n) == Plan(<<"listen", "server">>, {"server"})
SSRListen(n) == Plan(<<"listen", "server">>, {"server"})
VmessListen(n) == Plan(<<"target", "dial">> \o VmessLayers(n), {})
TrojanListen(n, bare) ==
    Plan(<<"dial">> \o (IF n.net = "grpc" /\ bare THEN GunLayer ELSE PlainStream(n)) \o <<"header">>, {})
Socks5Listen(n) == Plan(<<"dial">> \o Socks5Layers(n) \o <<"listen", "bind">>, {"tls"})

PlanOf(n, cmd, bare) ==
    IF cmd = "tcp"
    THEN CASE n.kind = "ss" -> SSDial(n)
           [] n.kind = "ssr" -> SSRDial(n)
           [] n.kind = "vmess" -> VmessDial(n)
           [] n.kind = "trojan" -> TrojanDial(n, bare)
           [] n.kind = "socks5" -> Socks5Dial(n)
           [] n.kind = "http" -> HttpDial(n)
           [] n.kind = "snell" -> SnellDial(n, bare)
    ELSE CASE n.kind = "ss" -> SSListen(n)
           [] n.kind = "ssr" -> SSRListen(n)
           [] n.kind = "vmess" -> VmessListen(n)
           [] n.kind = "trojan" -> TrojanListen(n, bare)
           [] n.kind = "socks5" -> Socks5Listen(n)
           [] OTHER -> Unsupported

ThePlan == PlanOf(node, command, plain)

(* The connection belongs to something that outlives the call: the HTTP/2  *)
(* transport of a grpc node, the pool of a snell node.                     *)
Shared == plain /\ (node.net = "grpc" \/ (node.kind = "snell" /\ node.net = "v2"))

Init ==
    /\ node \in {n \in AllNodes : ParseProxy(n)}
    /\ command \in {"tcp", "udp"}
    /\ plain \in BOOLEAN
    /\ steps = ThePlan.steps
    /\ passed = <<>>
    /\ racer = [f \in Families |-> "idle"]
    /\ outcome = [f \in Families |-> "none"]
    /\ sock = [f \in Families |-> "none"]
    /\ primary = "none" /\ fallback = "none" /\ conn = "none"
    /\ udp = "none" /\ watch = FALSE /\ silent = FALSE
    /\ error = "none"

Now(step) == error = "none" /\ steps # <<>> /\ Head(steps) = step

(* The step is done: the next one begins, or the call returns.             *)
Advance ==
    /\ steps' = Tail(steps)
    /\ passed' = Append(passed, Head(steps))
    /\ error' = IF Tail(steps) = <<>> THEN "ok" ELSE "none"

-----------------------------------------------------------------------------
(* dualStackDialContext.                                                   *)

StartRacers ==
    /\ Now("dial") /\ racer = [f \in Families |-> "idle"]
    /\ racer' = [f \in Families |-> "resolve"]
    /\ UNCHANGED <<callvars, steps, passed, outcome, sock, primary, fallback, conn, udp, watch, silent, error>>

Resolve(f) ==
    /\ racer[f] = "resolve"
    /\ \/ /\ racer' = [racer EXCEPT ![f] = "dial"]
          /\ UNCHANGED outcome
       \/ /\ racer' = [racer EXCEPT ![f] = "send"]
          /\ outcome' = [outcome EXCEPT ![f] = "unresolved"]
    /\ UNCHANGED <<callvars, steps, passed, sock, primary, fallback, conn, udp, watch, silent, error>>

(* dialContext, which the context bounds.                                  *)
Connect(f) ==
    /\ racer[f] = "dial"
    /\ racer' = [racer EXCEPT ![f] = "send"]
    /\ \/ /\ outcome' = [outcome EXCEPT ![f] = "conn"]
          /\ sock' = [sock EXCEPT ![f] = "open"]
       \/ /\ outcome' = [outcome EXCEPT ![f] = "undialled"]
          /\ UNCHANGED sock
    /\ UNCHANGED <<callvars, steps, passed, primary, fallback, conn, udp, watch, silent, error>>

(* Which error is reported once both racers have failed.                   *)
\* bug: the later test wins
DialErrorFallbackFirst(p, q) ==
    IF q = "undialled" THEN "v6" ELSE "v4"
DialError(p, q) ==
    IF p # "undialled" /\ q = "undialled" THEN "v6" ELSE "v4"

\* bug: resolved is taken for connected
WonOnceResolved(result) == result # "unresolved"
Won(result) == result = "conn"

\* bug: a name that does not resolve at all leaves the loop waiting
BothDoneIfResolved(p, q) == p # "none" /\ q # "none" /\ {p, q} # {"unresolved"}
BothDone(p, q) == p # "none" /\ q # "none"

(* The loop receives a result: the channel has no buffer, so the racer and *)
(* the loop meet.                                                          *)
Receive(f) ==
    /\ Now("dial") /\ racer[f] = "send"
    /\ racer' = [racer EXCEPT ![f] = "done"]
    /\ LET p == IF f = "v4" THEN outcome[f] ELSE primary
           q == IF f = "v6" THEN outcome[f] ELSE fallback
       IN  IF Won(outcome[f])
           THEN conn' = f /\ Advance /\ UNCHANGED <<primary, fallback>>
           ELSE /\ primary' = p /\ fallback' = q
                /\ error' = IF BothDone(p, q) THEN DialError(p, q) ELSE "none"
                /\ UNCHANGED <<conn, steps, passed>>
    /\ UNCHANGED <<callvars, outcome, sock, udp, watch, silent>>

CloseIfOpen(state) == IF state = "open" THEN "closed" ELSE state

(* The function has returned: a racer that comes later closes what it has. *)
\* bug: nothing tells the later racer, which waits for a receiver for ever
ReturnedUnseen == FALSE
Returned == "dial" \in {passed[i] : i \in 1..Len(passed)} \/ error # "none"
\* bug: the racer that comes too late drops its connection
CloseLateForgotten(state) == state
CloseLate(state) == CloseIfOpen(state)
TooLate(f) ==
    /\ racer[f] = "send" /\ Returned
    /\ racer' = [racer EXCEPT ![f] = "done"]
    /\ sock' = [sock EXCEPT ![f] = CloseLate(@)]
    /\ UNCHANGED <<callvars, steps, passed, outcome, primary, fallback, conn, udp, watch, silent, error>>

-----------------------------------------------------------------------------
(* The other steps.                                                        *)

(* A connection the HTTP/2 transport or the pool already has: no dial.     *)
Reuse ==
    /\ Now("dial") /\ Shared /\ racer = [f \in Families |-> "idle"]
    /\ passed' = passed \o SubSeq(steps, 1, Len(steps) - 1)
    /\ steps' = <<"header">>
    /\ UNCHANGED <<callvars, racevars, udp, watch, silent, error>>

(* A step that may fail but does not fail.                                 *)
StepDone(step) ==
    /\ Now(step) /\ step \notin {"dial", "unsupported"} /\ ~silent
    /\ Advance
    /\ udp' = IF step = "listen" THEN "open" ELSE udp
    /\ watch' = (watch \/ (step = "listen" /\ node.kind = "socks5"))
    /\ UNCHANGED <<callvars, racevars, silent>>

\* bug: the error of the header is not looked at
FailsUnlessHeader(step) == IF step = "header" THEN "ok" ELSE step
Fails(step) == step

(* It fails, and the call returns the error.                               *)
StepFails(step) ==
    /\ Now(step) /\ step # "dial" /\ (silent => HasTimeLimit(step))
    /\ error' = Fails(step)
    /\ LET closes == ClosesItself(step) \/ step \in ThePlan.closed IN
        /\ sock' = IF closes /\ conn # "none" THEN [sock EXCEPT ![conn] = "closed"] ELSE sock
        /\ udp' = IF closes THEN CloseIfOpen(udp) ELSE udp
    /\ UNCHANGED <<callvars, steps, passed, racer, outcome, primary, fallback, conn, watch, silent>>

(* The server accepts the connection and then says nothing any more.       *)
FallSilent ==
    /\ error = "none" /\ steps # <<>> /\ Waits(Head(steps)) /\ ~silent
    /\ silent' = TRUE
    /\ UNCHANGED <<callvars, steps, passed, racevars, udp, watch, error>>

(* The goroutine of the socks5 association: the server ended the TCP       *)
(* connection, or the adapter's caller closed it.                          *)
WatchEnds ==
    /\ watch
    /\ watch' = FALSE
    /\ sock' = [sock EXCEPT ![conn] = "closed"]
    /\ udp' = CloseIfOpen(udp)
    /\ UNCHANGED <<callvars, steps, passed, racer, outcome, primary, fallback, conn, silent, error>>

RacerStep(f) == Resolve(f) \/ Connect(f) \/ Receive(f) \/ TooLate(f)
CallStep == steps # <<>> /\ (StepDone(Head(steps)) \/ StepFails(Head(steps)))

Next ==
    \/ StartRacers
    \/ \E f \in Families : RacerStep(f)
    \/ Reuse
    \/ CallStep
    \/ FallSilent
    \/ WatchEnds

Spec == Init /\ [][Next]_vars

(* Racers and the call are goroutines; names resolve or time out, and      *)
(* connecting is bounded by the context.  Nothing makes a server fall      *)
(* silent or end an association.                                           *)
Fairness ==
    /\ WF_vars(StartRacers \/ Reuse) /\ WF_vars(CallStep)
    /\ \A f \in Families : WF_vars(RacerStep(f))

FairSpec == Spec /\ Fairness

-----------------------------------------------------------------------------
(* Properties.                                                             *)

Opened == {"none", "open", "closed"}

(* Every variable has its values, and c holds a connection once the race   *)
(* is won.                                                                 *)
TypeOK ==
    /\ node \in AllNodes /\ command \in {"tcp", "udp"} /\ {plain, watch, silent} \subseteq BOOLEAN
    /\ racer \in [Families -> {"idle", "resolve", "dial", "send", "done"}]
    /\ outcome \in [Families -> {"none", "unresolved", "undialled", "conn"}]
    /\ sock \in [Families -> Opened] /\ udp \in Opened
    /\ conn \in {"none"} \cup Families
    /\ conn # "none" => sock[conn] # "none" /\ "dial" \in {passed[i] : i \in 1..Len(passed)}
    /\ passed \o steps = ThePlan.steps

(* A call that returns a connection returns one that is open, under every  *)
(* layer of the node; only the end of a socks5 association closes it later. *)
SuccessIsUsable ==
    error = "ok" =>
        /\ passed = ThePlan.steps
        /\ conn # "none" => sock[conn] = "open" \/ (udp = "closed" /\ node.kind = "socks5")

(* The race never costs a socket: whatever the order of the answers, only  *)
(* the connection that won may be open once the racers are through.        *)
LosersClosed == \A f \in Families : racer[f] = "done" /\ f # conn => sock[f] # "open"

(* What a failed call leaves open: the connection, when a layer failed     *)
(* that does not close it (the deferred safeConnClose never does), unless  *)
(* the transport or the pool keeps it; the packet socket only of a socks5  *)
(* association whose address is no good, and the goroutine still watches   *)
(* it.                                                                     *)
OnlySetupLeaks ==
    error \notin {"none", "ok"} =>
        /\ conn # "none" /\ sock[conn] = "open" =>
              Shared \/ error \in {"tls", "h2", "establish", "socks", "connect", "header", "listen", "bind"}
        /\ udp = "open" => watch /\ error = "bind"

(* The error of the second family is reported only when it got further.    *)
RightError == error = "v6" => outcome["v4"] = "unresolved" /\ outcome["v6"] = "undialled"

(* The header of a node, which carries its secret, is written only under   *)
(* TLS when the node is configured with it.                                *)
SecretUnderTLS ==
    \A i \in 1..Len(passed) :
        passed[i] \in {"header", "socks", "connect"} /\ node.tls /\ (node.kind = "ss" => node.net = "v2ray") =>
            \E j \in 1..(i - 1) : passed[j] \in {"tls", "wss", "gun"}

(* No racer is left behind.                                                *)
RacersGone == \A f \in Families : racer[f] \in {"idle", "done"}

(* Every call ends, unless it waits for a server that fell silent in a     *)
(* layer nothing bounds: the deadline of the context covers the dial only. *)
CallOver == error # "none" \/ (silent /\ steps # <<>> /\ ~HasTimeLimit(Head(steps)))
=============================================================================
