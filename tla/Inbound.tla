------------------------------- MODULE Inbound ------------------------------
(***************************************************************************)
(* Connections to the listeners of the dialling library: what kind they    *)
(* are (listener/mixed, listener/socks), the handshakes of transport/socks5*)
(* and transport/socks4 between the library's own client and its server,   *)
(* the requests of listener/http, who may use them, and the target that is *)
(* handed to the tunnel.  A credential is a pair <<user, password>>.       *)
(***************************************************************************)
EXTENDS Integers, Sequences, FiniteSets

CONSTANTS
    Conns,
    Starts,         \* which client comes to which listener: functions of the connections to
                    \* [proto, cred, cmd, addr, reqs, listener]
    Auths,          \* what the configuration lets in, one after the other; {} is everybody
    TTL,            \* a verdict of the HTTP listener is kept that long
    MaxTime         \* bound on the time

Dialable == {"v4", "v6", "domain"}
(* What is asked of the constants: what a client of each kind can say.     *)
InboundAssumption ==
    /\ TTL \in Nat /\ MaxTime \in Nat
    /\ \A s \in Starts : \A c \in Conns :
        /\ s[c].proto \in {"absent", "silent", "other", "socks4", "socks5", "http"}
        /\ s[c].proto = "socks4" => s[c].cred = <<s[c].cred[1], "">> /\ s[c].addr.type \in Dialable
        /\ s[c].proto = "socks5" => s[c].addr.type \in Dialable \cup {"bad"}
        /\ s[c].proto = "http" =>
            /\ DOMAIN s[c].reqs = 1..Len(s[c].reqs) /\ Len(s[c].reqs) \in Nat \ {0}
            /\ \A i \in DOMAIN s[c].reqs :
                /\ s[c].reqs[i].method \in {"connect", "get"}
                /\ s[c].reqs[i].addr.type \in Dialable \cup {"none", "bad"}
                /\ s[c].reqs[i].method = "connect" => s[c].reqs[i].addr.type \in Dialable

NoCred == <<"", "">>
NoAddr == [type |-> "none", host |-> ""]
NoMsg == [m |-> "none"]
Programs == UNION {{s[c] : c \in Conns} : s \in Starts}
Creds == {NoCred} \cup {p.cred : p \in Programs}
            \cup UNION {{p.reqs[i].cred : i \in DOMAIN p.reqs} : p \in Programs}

VARIABLES
    program,
    authset, now,           \* which of Auths is in force; seconds
    cache,                  \* of the listener: [credential -> [ok, expires]]
    toServer, toClient,     \* the message on its way, if any
    client, server,         \* how far they are
    known,                  \* the authenticator the server's handshake holds
    asked,                  \* the command and address the server read
    target,                 \* the targets handed to the tunnel
    trusted, turn,          \* HTTP: no more questions; the request
    lastValid,              \* history: when a credential was last let in by what was in force
    begun, used             \* history: when the server looked, lastValid of what it let in

ivars == <<program, authset, now, cache, toServer, toClient, client, server, known,
           asked, target, trusted, turn, lastValid, begun, used>>

InForce == Auths[authset]
(* inMemoryAuthenticator.Verify, and no authenticator at all.              *)
Verify(auth, cred) == cred \in auth
LetsIn(auth, cred) == auth = {} \/ Verify(auth, cred)

Init ==
    /\ program \in Starts
    /\ authset = 1 /\ now = 0
    /\ cache = [c \in Creds |-> [ok |-> FALSE, expires |-> -1]]
    /\ toServer = [c \in Conns |-> NoMsg] /\ toClient = toServer
    /\ client = [c \in Conns |-> IF program[c].proto = "absent" THEN "gone" ELSE "start"]
    /\ server = [c \in Conns |-> IF program[c].proto = "absent" THEN "closed" ELSE "peek"]
    /\ known = [c \in Conns |-> {}] /\ asked = [c \in Conns |-> [cmd |-> "none", addr |-> NoAddr]]
    /\ target = [c \in Conns |-> <<>>] /\ trusted = [c \in Conns |-> FALSE]
    /\ turn = [c \in Conns |-> 1]
    /\ lastValid = [c \in Creds |-> IF InForce = {} \/ c \in InForce THEN 0 ELSE -TTL - 1]
    /\ begun = [c \in Conns |-> 0] /\ used = [c \in Conns |-> 0]

-----------------------------------------------------------------------------
(* Time, and updateUsers of a new configuration.                           *)

Valid(auth, at) == [c \in Creds |-> IF auth = {} \/ c \in auth THEN at ELSE lastValid[c]]
Rest == <<program, toServer, toClient, client, server, known, asked, target, trusted, turn, begun, used>>

Tick ==
    /\ now < MaxTime /\ now' = now + 1
    /\ lastValid' = Valid(InForce, now + 1)
    /\ UNCHANGED <<authset, cache, Rest>>

SetAuthenticator ==
    /\ authset < Len(Auths) /\ authset' = authset + 1
    /\ lastValid' = Valid(Auths[authset + 1], now)
    /\ UNCHANGED <<now, cache, Rest>>

World == <<program, authset, now, lastValid>>

-----------------------------------------------------------------------------
(* The clients: ClientHandshake of socks5 and socks4, a user of HTTP,      *)
(* something else, and one that says nothing.                              *)

P(c) == program[c]
Send(c, msg) == toServer[c] = NoMsg /\ toServer' = [toServer EXCEPT ![c] = msg]
Got(c, m) == toClient[c].m = m /\ toClient' = [toClient EXCEPT ![c] = NoMsg]
Client(c, step) == client' = [client EXCEPT ![c] = step]
ServerStays == <<server, known, asked, target, trusted, cache, begun, used, World>>

Request(c) == [m |-> "request", cmd |-> P(c).cmd, addr |-> P(c).addr]
(* A socks4 client cannot name an IPv6 address.                            *)
ClientBegins(c) ==
    /\ client[c] = "start"
    /\ CASE P(c).proto = "socks5" -> Send(c, [m |-> "greeting"]) /\ Client(c, "method")
         [] P(c).proto = "socks4" ->
                IF P(c).addr.type = "v6" THEN Client(c, "gone") /\ UNCHANGED toServer
                ELSE Send(c, [Request(c) EXCEPT !.m = "socks4"]) /\ Client(c, "reply")
         [] P(c).proto = "http" -> Send(c, [m |-> "http", req |-> P(c).reqs[1]]) /\ Client(c, "response")
         [] P(c).proto = "other" -> Send(c, [m |-> "other"]) /\ Client(c, "response")
         [] P(c).proto = "silent" -> Client(c, "gone") /\ UNCHANGED toServer
    /\ UNCHANGED <<toClient, turn, ServerStays>>

(* The method the server names; the client offered the one it can do.      *)
ClientMethod(c) ==
    /\ client[c] = "method" /\ Got(c, "method")
    /\ IF toClient[c].auth
       THEN IF P(c).cred = NoCred THEN Client(c, "gone") /\ UNCHANGED toServer
            ELSE Send(c, [m |-> "auth", cred |-> P(c).cred]) /\ Client(c, "status")
       ELSE Send(c, Request(c)) /\ Client(c, "reply")
    /\ UNCHANGED <<turn, ServerStays>>

ClientStatus(c) ==
    /\ client[c] = "status" /\ Got(c, "status")
    /\ IF toClient[c].ok THEN Send(c, Request(c)) /\ Client(c, "reply")
       ELSE Client(c, "gone") /\ UNCHANGED toServer
    /\ UNCHANGED <<turn, ServerStays>>

ClientReply(c) ==
    /\ client[c] = "reply" /\ Got(c, "reply")
    /\ Client(c, IF toClient[c].ok THEN "ok" ELSE "gone")
    /\ UNCHANGED <<turn, toServer, ServerStays>>

ClientResponse(c) ==
    /\ client[c] = "response" /\ Got(c, "response")
    /\ IF toClient[c].hijacked THEN Client(c, "ok") /\ UNCHANGED <<turn, toServer>>
       ELSE IF turn[c] < Len(P(c).reqs) /\ toClient[c].keep
       THEN /\ turn' = [turn EXCEPT ![c] = @ + 1] /\ Client(c, "response")
            /\ Send(c, [m |-> "http", req |-> P(c).reqs[turn[c] + 1]])
       ELSE Client(c, "gone") /\ UNCHANGED <<turn, toServer>>
    /\ UNCHANGED ServerStays

(* The end of what the server says; a client that has its connection uses  *)
(* it for a while.                                                         *)
ClientEnds(c) ==
    /\ \/ client[c] \in {"method", "status", "reply", "response"} /\ toClient[c] = NoMsg /\ server[c] = "closed"
       \/ client[c] = "ok"
    /\ Client(c, "gone")
    /\ UNCHANGED <<toServer, toClient, turn, ServerStays>>

ClientStep(c) == ClientBegins(c) \/ ClientMethod(c) \/ ClientStatus(c) \/ ClientReply(c)
                 \/ ClientResponse(c) \/ ClientEnds(c)

-----------------------------------------------------------------------------
(* The server.                                                             *)

ClientStays == <<client, turn, World>>
Server(c, step) == server' = [server EXCEPT ![c] = step]
Read(c, m) == toServer[c].m = m /\ toServer' = [toServer EXCEPT ![c] = NoMsg]
Gone(c) == client[c] = "gone" /\ toServer[c] = NoMsg
Reply(c, msg) == IF client[c] = "gone" THEN UNCHANGED toClient ELSE toClient' = [toClient EXCEPT ![c] = msg]
Hand(c, addr) == target' = [target EXCEPT ![c] = Append(@, addr)]

(* parseSocksAddr and parseHTTPAddr: the dot at the end of a name goes.    *)
Meta(addr) == IF addr.host = "name." THEN [addr EXCEPT !.host = "name"] ELSE addr

(* handleConn and handleSocks: the first byte.  An HTTP listener does not  *)
(* look; a mixed one leaves a connection that says nothing as it is.       *)
Peeked(c) == CASE P(c).listener = "http" -> "http"
               [] toServer[c].m = "greeting" -> "socks5"
               [] toServer[c].m = "socks4" -> "socks4"
               [] OTHER -> IF P(c).listener = "mixed" THEN "http" ELSE "closed"
Peek(c) ==
    /\ server[c] = "peek"
    /\ IF toServer[c] # NoMsg
       THEN /\ Server(c, Peeked(c)) /\ known' = [known EXCEPT ![c] = InForce]
            /\ begun' = [begun EXCEPT ![c] = now]
       ELSE /\ Gone(c) /\ UNCHANGED <<known, begun>>
            /\ Server(c, CASE P(c).listener = "mixed" -> "left" [] P(c).listener = "socks" -> "closed" [] OTHER -> "http")
    /\ UNCHANGED <<toServer, toClient, asked, target, trusted, cache, used, ClientStays>>

\* bug: the authenticator is read again for the answer
AsksAgain(c) == InForce # {}
Asks(c) == known[c] # {}
Greet(c) ==
    /\ server[c] = "socks5" /\ Read(c, "greeting")
    /\ Reply(c, [m |-> "method", auth |-> Asks(c)])
    /\ Server(c, IF known[c] # {} THEN "auth" ELSE "request")
    /\ used' = [used EXCEPT ![c] = now]
    /\ UNCHANGED <<known, asked, target, trusted, cache, begun, ClientStays>>

(* An empty name or password is refused before it is looked up.            *)
Auth(c) ==
    /\ server[c] = "auth" /\ Read(c, "auth")
    /\ LET cred == toServer[c].cred
           ok == cred[1] # "" /\ cred[2] # "" /\ Verify(known[c], cred)
       IN /\ Reply(c, [m |-> "status", ok |-> ok])
          /\ Server(c, IF ok THEN "request" ELSE "closed")
          /\ used' = [used EXCEPT ![c] = lastValid[cred]]
    /\ UNCHANGED <<known, asked, target, trusted, cache, begun, ClientStays>>

(* The reply goes out before the connection is handed on; to what is not   *)
(* supported there is none.                                                *)
\* bug: the reply goes out before the command is looked at
SupportedLater(cmd, addr) == addr.type # "bad"
\* bug: an address of an unknown type is taken
SupportedAnyAddr(cmd, addr) == cmd \in {"connect", "udp"}
Supported(cmd, addr) == cmd \in {"connect", "udp"} /\ addr.type # "bad"
Socks5Request(c) ==
    /\ server[c] = "request" /\ Read(c, "request")
    /\ asked' = [asked EXCEPT ![c] = [cmd |-> toServer[c].cmd, addr |-> toServer[c].addr]]
    /\ IF Supported(toServer[c].cmd, toServer[c].addr)
       THEN /\ Reply(c, [m |-> "reply", ok |-> TRUE])
            /\ Server(c, CASE toServer[c].cmd = "udp" -> "udp" [] toServer[c].cmd = "connect" -> "hand" [] OTHER -> "closed")
       ELSE Server(c, "closed") /\ UNCHANGED toClient
    /\ UNCHANGED <<known, target, trusted, cache, begun, used, ClientStays>>

(* ServerHandshake of socks4: the user's name is the credential.           *)
Socks4Request(c) ==
    /\ server[c] = "socks4" /\ Read(c, "socks4")
    /\ asked' = [asked EXCEPT ![c] = [cmd |-> toServer[c].cmd, addr |-> toServer[c].addr]]
    /\ LET cred == <<P(c).cred[1], "">>
           ok == LetsIn(known[c], cred)
       IN IF toServer[c].cmd # "connect" THEN Server(c, "closed") /\ UNCHANGED <<toClient, used>>
          ELSE /\ Reply(c, [m |-> "reply", ok |-> ok])
               /\ Server(c, IF ok THEN "hand" ELSE "closed")
               /\ used' = [used EXCEPT ![c] = IF known[c] = {} THEN begun[c] ELSE lastValid[cred]]
    /\ UNCHANGED <<known, target, trusted, cache, begun, ClientStays>>

(* in <- NewSocket(...).                                                   *)
HandSocket(c) ==
    /\ server[c] = "hand" /\ Hand(c, Meta(asked[c].addr)) /\ Server(c, "handed")
    /\ UNCHANGED <<toServer, toClient, known, asked, trusted, cache, begun, used, ClientStays>>

(* The connection of an association is read until its end.                 *)
UDPEnds(c) ==
    /\ server[c] = "udp" /\ Gone(c) /\ Server(c, "closed")
    /\ UNCHANGED <<toServer, toClient, known, asked, target, trusted, cache, begun, used, ClientStays>>

(* authenticate: no credential is asked for one, another is looked up, and *)
(* what was found is kept for a minute.                                    *)
Kept(cred, ok) == IF now <= cache[cred].expires THEN cache
                  ELSE [cache EXCEPT ![cred] = [ok |-> ok, expires |-> now + TTL]]
\* bug: a verdict is used until somebody removes it
VerdictKept(cred) == IF cache[cred].expires >= 0 THEN cache[cred].ok ELSE Verify(InForce, cred)
Verdict(cred) == IF now <= cache[cred].expires THEN cache[cred].ok ELSE Verify(InForce, cred)

(* HandleConn, for a request that is not let in.                           *)
Turned(c, req) ==
    /\ Reply(c, [m |-> "response", hijacked |-> FALSE, keep |-> req.keep])
    /\ Server(c, IF req.keep THEN "http" ELSE "closed")

Authenticate(c) ==
    /\ server[c] = "http" /\ ~trusted[c] /\ toServer[c].m = "http"
    /\ begun' = [begun EXCEPT ![c] = now]
    /\ LET req == toServer[c].req IN
       IF InForce = {} THEN /\ trusted' = [trusted EXCEPT ![c] = TRUE] /\ used' = [used EXCEPT ![c] = now]
                            /\ UNCHANGED <<toServer, toClient, server, cache>>
       ELSE IF req.cred = NoCred
       THEN Read(c, "http") /\ Turned(c, req) /\ UNCHANGED <<trusted, cache, used>>
       ELSE /\ cache' = Kept(req.cred, Verdict(req.cred))
            /\ IF Verdict(req.cred)
               THEN /\ trusted' = [trusted EXCEPT ![c] = TRUE]
                    /\ used' = [used EXCEPT ![c] = lastValid[req.cred]]
                    /\ UNCHANGED <<toServer, toClient, server>>
               ELSE Read(c, "http") /\ Turned(c, req) /\ UNCHANGED <<trusted, used>>
    /\ UNCHANGED <<known, asked, target, ClientStays>>

(* CONNECT takes the connection over; another request opens one of its     *)
(* own and brings the answer, or an error, back.                           *)
Serve(c) ==
    /\ server[c] = "http" /\ trusted[c] /\ Read(c, "http")
    /\ LET req == toServer[c].req IN
       \/ /\ req.method = "connect" /\ Server(c, "handed") /\ Hand(c, Meta(req.addr))
          /\ Reply(c, [m |-> "response", hijacked |-> TRUE, keep |-> FALSE])
       \/ /\ req.method = "get" /\ Turned(c, req)
          /\ IF req.addr.type \in {"none", "bad"} THEN UNCHANGED target ELSE Hand(c, Meta(req.addr))
    /\ UNCHANGED <<known, asked, trusted, cache, begun, used, ClientStays>>

(* The end of the client ends the loop; what holds no line is waited for,  *)
(* what is no request ends it too.                                         *)
HTTPEnds(c) ==
    /\ server[c] = "http"
    /\ \/ client[c] = "gone" /\ toServer[c].m # "http"
       \/ toServer[c].m = "other"
    /\ toServer' = [toServer EXCEPT ![c] = NoMsg] /\ Server(c, "closed")
    /\ UNCHANGED <<toClient, known, asked, target, trusted, cache, begun, used, ClientStays>>

(* The client went while the handshake was reading; a failed handshake     *)
(* closes the connection.                                                  *)
HandshakeCut(c) ==
    /\ server[c] \in {"socks5", "auth", "request", "socks4"} /\ Gone(c) /\ Server(c, "closed")
    /\ UNCHANGED <<toServer, toClient, known, asked, target, trusted, cache, begun, used, ClientStays>>

ServerStep(c) == Peek(c) \/ Greet(c) \/ Auth(c) \/ Socks5Request(c) \/ Socks4Request(c) \/ HandSocket(c)
                 \/ UDPEnds(c) \/ Authenticate(c) \/ Serve(c) \/ HTTPEnds(c) \/ HandshakeCut(c)

INext == Tick \/ SetAuthenticator \/ \E c \in Conns : ClientStep(c) \/ ServerStep(c)
Spec == Init /\ [][INext]_ivars
FairSpec == Spec /\ \A c \in Conns : WF_ivars(ClientStep(c)) /\ WF_ivars(ServerStep(c))

-----------------------------------------------------------------------------
(* A listener hands on only what it understood: the target is the one the  *)
(* client meant, of a kind that can be dialled.                            *)
Meant(c) == IF P(c).proto = "http" THEN {Meta(P(c).reqs[i].addr) : i \in DOMAIN P(c).reqs} ELSE {Meta(P(c).addr)}
TypeOK == \A c \in Conns : \A i \in DOMAIN target[c] :
                target[c][i] \in Meant(c) /\ target[c][i].type \in Dialable

(* Nobody gets a connection with a credential that was not let in by what  *)
(* was in force when the handshake began or later, for HTTP a minute       *)
(* before that: a change of the users reaches every new connection, at     *)
(* the latest after that minute.                                           *)
NobodyElseGetsIn ==
    \A c \in Conns : target[c] # <<>> \/ server[c] \in {"request", "udp"} =>
        used[c] >= begun[c] - (IF P(c).proto = "http" THEN TTL ELSE 0)

(* Both sides agree: a client of the library has its connection exactly    *)
(* when the server hands it on, or keeps it for an association.            *)
BothAgree ==
    \A c \in Conns :
        /\ client[c] = "ok" => server[c] \in {"hand", "handed", "udp"}
        /\ server[c] \in {"hand", "handed", "udp"} /\ client[c] # "gone" =>
                client[c] = "ok" \/ toClient[c].m \in {"reply", "response"}

(* No handshake stands still with both sides waiting for the other one:    *)
(* each connection of a client that came to a listener of its kind is      *)
(* handed on, closed, or left in the end.  (An HTTP listener and a socks   *)
(* client do wait for each other.)                                         *)
Fits(c) == \/ P(c).proto = "http" /\ P(c).listener # "socks"
           \/ P(c).proto \in {"socks4", "socks5"} /\ P(c).listener # "http"
           \/ P(c).proto \in {"silent", "other"}
HandshakesOver == \A c \in Conns : Fits(c) => server[c] \in {"handed", "closed", "left"}
=============================================================================
