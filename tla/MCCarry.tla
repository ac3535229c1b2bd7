------------------------------- MODULE MCCarry -------------------------------
(***************************************************************************)
(* Instances of the modules about carrying a connection: the handshake     *)
(* with the client (Inbound), its names (Dns), the dial (Outbound), the    *)
(* wrappers of the connection to a node (Handshake, Framing), the snell    *)
(* pool (SnellPool) and the table of the packets (UdpNat).  They share no  *)
(* variable: `moves` is chosen at the start, and the others stay in one    *)
(* initial state.                                                          *)
(***************************************************************************)
EXTENDS Framing

CONSTANTS
    ObfsKinds, Writes, Sessions, SnellConns, PoolSize, MaxData,
    Requests, Questions, Asked, Confs, Main, Fallback, Policy,
    Keys, Packets, Sources, NatConns, InConns, Starts, Auths, TTL, MaxTime

VARIABLES
    moves,
    obfs, status, recv, held, sentOut, answered, handshakePc, arg, written, overlap,
    node, command, plain, steps, passed, racer, outcome, sock, primary, fallback, conn, udp,
    watch, silent, error,
    pool, snellState, reply, stream, asked, begun, torn, dead, snellPc, snellConn, want,
    snellGot, snellSent, finished, end, before,
    key, table, lock, natPc, after, natConn, cond, missed, told, natState, owner, reader, late,
    leftBy,
    conf, q, dnsPc, flight, answers, decided, replied, seen,
    program, authset, now, cache, toServer, toClient, client, server, known, command5, target,
    trusted, turn, lastValid, looked, used

H == INSTANCE Handshake WITH toServer <- sentOut, pc <- handshakePc
O == INSTANCE Outbound
S == INSTANCE SnellPool WITH Conns <- SnellConns, state <- snellState, pc <- snellPc,
        conn <- snellConn, got <- snellGot, sent <- snellSent
U == INSTANCE UdpNat WITH Conns <- NatConns, pc <- natPc, conn <- natConn,
        state <- natState, written <- leftBy
D == INSTANCE Dns WITH pc <- dnsPc, cache <- answers, reply <- replied
I == INSTANCE Inbound WITH Conns <- InConns, asked <- command5, begun <- looked

hvars == <<obfs, status, recv, held, sentOut, answered, handshakePc, arg, written, overlap>>
ovars == <<node, command, plain, steps, passed, racer, outcome, sock, primary, fallback, conn,
           udp, watch, silent, error>>
svars == <<pool, snellState, reply, stream, asked, begun, torn, dead, snellPc, snellConn,
           want, snellGot, snellSent, finished, end, before>>
uvars == <<key, table, lock, natPc, after, natConn, cond, missed, told, natState, owner,
           reader, late, leftBy>>
dvars == <<conf, q, dnsPc, flight, answers, decided, replied, seen>>
ivars == <<program, authset, now, cache, toServer, toClient, client, server, known, command5,
           target, trusted, turn, lastValid, looked, used>>

(* These constants meet what the theorems ask of them.                     *)
ASSUME CarryConstants == S!PoolAssumption /\ U!NatAssumption /\ D!DnsAssumption
                        /\ I!InboundAssumption /\ H!HandshakeAssumption

-----------------------------------------------------------------------------
MCKinds == AllKinds
MCObfs == {"tls12", "random_head"}

(* UdpNat: two or all three of the packets come from one address.          *)
Together == [p \in Packets |-> "k"]
Apart == [Together EXCEPT !["p3"] = "j"]
MCSources == {Together, Apart}

(* Dns: two requests ask the same, the third something else.               *)
AskY(t) == [host |-> "y", type |-> t]
MCQuestions == {AskY("A"), AskY("AAAA"), [host |-> "x", type |-> "TXT"]}
Request1 == CHOOSE r \in Requests : TRUE
Request2 == CHOOSE r \in Requests \ {Request1} : TRUE
MCAsked == {f \in [Requests -> MCQuestions] : f[Request1] = AskY("A") /\ f[Request2] = AskY("A")}
Dns0 == [mode |-> "mapping", ipv6 |-> TRUE, hosts |-> {}, skip |-> {}, policy |-> {},
         only |-> {}, fallback |-> TRUE]
Fake0 == [Dns0 EXCEPT !.mode = "fakeip", !.skip = {"x"}]
MCConfs == {[Dns0 EXCEPT !.policy = {"y"}], [Dns0 EXCEPT !.only = {"y"}],
               [Dns0 EXCEPT !.fallback = FALSE, !.ipv6 = FALSE],
               [Fake0 EXCEPT !.hosts = {"y"}], [Fake0 EXCEPT !.only = {"y"}]}

(* Inbound: what a client may come with.                                   *)
Addr(t, h) == [type |-> t, host |-> h]
V4 == Addr("v4", "1.2.3.4")
Domain == Addr("domain", "name.")
Known == <<"u", "p">>
Wrong == <<"u", "x">>
Nobody == <<"", "">>
Nowhere == Addr("none", "")
Program(p, cr, cm, ad, rs, l) ==
    [proto |-> p, cred |-> cr, cmd |-> cm, addr |-> ad, reqs |-> rs, listener |-> l]
Request(m, cr, ad, k) == [method |-> m, cred |-> cr, addr |-> ad, keep |-> k]
Http(rs, l) == Program("http", Nobody, "connect", Nowhere, rs, l)
Absent == Program("absent", Nobody, "connect", Nowhere, <<>>, "mixed")
Silent(l) == Program("silent", Nobody, "connect", Nowhere, <<>>, l)

Single(l) ==
    {Program("socks5", cr, "connect", Domain, <<>>, l) :
        cr \in {Nobody, Known, Wrong, <<"w", "q">>, <<"u", "">>}}
    \cup {Program("socks5", Known, cm, ad, <<>>, l) :
        cm \in {"connect", "udp", "bind"}, ad \in {V4, Addr("bad", "")}}
    \cup {Program("socks4", <<u, "">>, cm, ad, <<>>, l) :
        u \in {"", "u", "s"}, cm \in {"connect", "bind"}, ad \in {V4, Addr("v6", "::1")}}
    \cup {Silent(l), Program("other", Nobody, "connect", Nowhere, <<>>, l)}
    \cup {Http(rs, l) :
        rs \in {<<Request("connect", Nobody, Domain, TRUE), Request("connect", Known, Domain, TRUE)>>,
                <<Request("get", Known, V4, TRUE), Request("get", Known, Nowhere, FALSE)>>,
                <<Request("get", Wrong, V4, FALSE)>>}}

Pair(a, b) == [c \in InConns |-> IF c = "c1" THEN a ELSE b]
OneRequest(cr) == Http(<<Request("connect", cr, Domain, TRUE)>>, "mixed")
MCStarts == {Pair(p, Absent) : p \in UNION {Single(l) : l \in {"mixed", "socks", "http"}}}
            \cup {Pair(OneRequest(Known), OneRequest(cr)) : cr \in {Known, Wrong}}

(* Nobody is asked, then two users, then another one.                      *)
MCAuths == <<{}, {Known, <<"s", "">>}, {<<"w", "q">>}>>

-----------------------------------------------------------------------------
CarryInit ==
    /\ moves \in {"framing", "handshake", "outbound", "snell", "nat", "dns", "inbound"}
    /\ Init /\ (moves = "framing" \/ <<kind, dir>> = <<"http", "down">>)
    /\ H!Init /\ (moves = "handshake" \/ obfs = "tls12")
    /\ O!Init
    /\ (moves = "outbound" \/ <<node, command, plain>> = <<O!Node("ss", "none", FALSE), "tcp", TRUE>>)
    /\ S!Init
    /\ U!Init /\ (moves = "nat" \/ key = Apart)
    /\ D!Init
    /\ (moves = "dns" \/ (conf = [Dns0 EXCEPT !.only = {"y"}] /\ \A r \in Requests : q[r] = AskY("A")))
    /\ I!Init /\ (moves = "inbound" \/ program = Pair(Silent("mixed"), Absent))

CarryNext ==
    \/ /\ moves = "framing" /\ Next
       /\ UNCHANGED <<moves, hvars, ovars, svars, uvars, dvars, ivars>>
    \/ /\ moves = "handshake" /\ H!Next
       /\ UNCHANGED <<moves, vars, ovars, svars, uvars, dvars, ivars>>
    \/ /\ moves = "outbound" /\ O!Next
       /\ UNCHANGED <<moves, vars, hvars, svars, uvars, dvars, ivars>>
    \/ /\ moves = "snell" /\ S!Next
       /\ UNCHANGED <<moves, vars, hvars, ovars, uvars, dvars, ivars>>
    \/ /\ moves = "nat" /\ U!Next
       /\ UNCHANGED <<moves, vars, hvars, ovars, svars, dvars, ivars>>
    \/ /\ moves = "dns" /\ D!Next
       /\ UNCHANGED <<moves, vars, hvars, ovars, svars, uvars, ivars>>
    \/ /\ moves = "inbound" /\ I!INext
       /\ UNCHANGED <<moves, vars, hvars, ovars, svars, uvars, dvars>>

(* The fairness of the modules that have some; the others never move.      *)
CarrySpec ==
    /\ CarryInit /\ [][CarryNext]_<<moves, vars, hvars, ovars, svars, uvars, dvars, ivars>>
    /\ WF_vars(moves = "framing" /\ ReadStep)
    /\ WF_ovars(moves = "outbound" /\ (O!StartRacers \/ O!Reuse))
    /\ WF_ovars(moves = "outbound" /\ O!CallStep)
    /\ \A f \in O!Families : WF_ovars(moves = "outbound" /\ O!RacerStep(f))
    /\ \A p \in Packets : WF_uvars(moves = "nat" /\ U!PacketStep(p))
    /\ \A c \in NatConns : WF_uvars(moves = "nat" /\ U!ReaderStep(c))
    /\ \A r \in Requests : WF_dvars(moves = "dns" /\ D!ThreadStep(r))
    /\ \A k \in Questions : WF_dvars(moves = "dns" /\ D!FlightStep(k))
    /\ \A c \in InConns : /\ WF_ivars(moves = "inbound" /\ I!ClientStep(c))
                         /\ WF_ivars(moves = "inbound" /\ I!ServerStep(c))

-----------------------------------------------------------------------------
(* The types of whichever module moves.                                    *)
CarryTypeOK ==
    CASE moves = "framing" -> TypeOK
      [] moves = "handshake" -> H!TypeOK
      [] moves = "outbound" -> O!TypeOK
      [] moves = "snell" -> S!TypeOK
      [] moves = "nat" -> U!TypeOK
      [] moves = "dns" -> D!TypeOK
      [] moves = "inbound" -> I!TypeOK

(* However TCP cuts the stream and whatever sizes are read and written,    *)
(* Read of a wrapper gives its callers the payload in order and, after an  *)
(* orderly end, all of it, and a server that knows the format understands  *)
(* what Write put on the wire.                                             *)
StreamCarried == moves = "framing" => InOrder /\ Complete /\ WritesUnderstood

(* With a Read that finishes the handshake and Writes at the same time,    *)
(* the server is sent the handshake first and then every byte written, in  *)
(* order and each once, except what a Write that overlaps that Read may    *)
(* reorder.                                                                *)
HandshakeFirst == moves = "handshake" => H!InHandshakeOrder /\ H!NothingHeld

(* Of the sockets of a call, the dual-stack race never loses one, and what *)
(* a failed set-up leaves open is known: the layers after which nothing    *)
(* closes the connection.                                                  *)
SocketsAccounted == moves = "outbound" => O!LosersClosed /\ O!OnlySetupLeaks

(* What DialContext returns: a connection that is open under all its       *)
(* layers, a secret written only after the TLS the node asks for, and of   *)
(* two failures the one that got further.                                  *)
CallTellsTheTruth ==
    moves = "outbound" => O!SuccessIsUsable /\ O!SecretUnderTLS /\ O!RightError

(* Through the pool of reused snell connections every session has its      *)
(* connection to itself and reads its own answer, whole, unless a session  *)
(* before it went away in the middle of one.                               *)
RepliesKeptApart == moves = "snell" => S!OneUser /\ S!OwnReply /\ S!WholeReply

(* The table of UDP associations: one creator for a source, packets and    *)
(* answers only over connections of that source, every open connection is  *)
(* read, and a dead one stays in the table only if it died too early.      *)
AssociationsSound ==
    moves = "nat" => U!OneCreator /\ U!OwnConnection /\ U!OpenIsRead /\ U!DeadEntryWasLate

(* A request is answered, and the cache filled, by a server allowed to     *)
(* answer it, and never with something older than what was told before.    *)
AnswersSound == moves = "dns" => D!AnswerAllowed /\ D!NeverOlder

(* A listener lets in whom the users in force allow, a verdict of HTTP for *)
(* a minute longer, and client and listener agree on how it went.          *)
InboundAgreed == moves = "inbound" => I!NobodyElseGetsIn /\ I!BothAgree

(* Everything ends: Read after an orderly end, the racers of a dial, a     *)
(* call unless it waits for a silent server, the handling of a packet      *)
(* unless it began to wait after the broadcast, a DNS request, and a       *)
(* handshake of a client that came to a listener of its kind.              *)
CarryEnds ==
    /\ <>[](moves = "framing" => ReadToTheEnd)
    /\ <>[](moves = "outbound" => O!RacersGone)
    /\ <>[](moves = "outbound" => O!CallOver)
    /\ <>[](moves = "nat" => U!PacketsHandled)
    /\ <>[](moves = "dns" => D!AllAnswered)
    /\ <>[](moves = "inbound" => I!HandshakesOver)
=============================================================================
