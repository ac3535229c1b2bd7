------------------------------ MODULE MixedConn ------------------------------
(***************************************************************************)
(* One connection of the mixed port, from Accept to the end of its         *)
(* handler: the first byte tells SOCKS5 from HTTP, the handshake is read   *)
(* through a bufio.Reader, the target is dialled, and two goroutines relay *)
(* units of data until both have ended.                                    *)
(*                                                                         *)
(* Units are numbered in the order a peer sends them; the first            *)
(* HandshakeUnits of the client are the greeting and the request, or the   *)
(* lines of a CONNECT.  A peer may send early, stop reading, half-close    *)
(* ("fin") or vanish ("gone") at any time; a write blocks while the peer   *)
(* has Window units it has not read.                                       *)
(***************************************************************************)
EXTENDS Naturals, Sequences

CONSTANTS
    HandshakeUnits,  \* units the handshake takes
    Window,          \* units a socket holds for a peer that does not read
    MaxUp, MaxDown   \* bounds: units the client and the remote send

ASSUME MixedAssumption ==
    /\ HandshakeUnits \in Nat \ {0}
    /\ Window \in Nat \ {0}
    /\ MaxUp \in Nat /\ MaxDown \in Nat

VARIABLES
    clientSent, clientEnd,  \* what the client has sent, and how it ended
    sockRead,               \* units the bufio.Reader has taken off the socket
    used,                   \* units read out of the bufio.Reader
    pc,                     \* where the handler is
    replies,                \* the replies of the handshake
    up, down,               \* the goroutines client -> remote and remote -> client
    toRemote, remoteTook,   \* units written to the remote, and how many it read
    toClient, clientTook,   \* units written to the client, and how many it read
    remoteSent, remoteEnd,  \* what the remote has sent, and how it ended
    remoteRead              \* units read from the remote

client == <<clientSent, clientEnd, clientTook>>
remote == <<remoteSent, remoteEnd, remoteTook>>
handler == <<sockRead, used, pc, replies>>
relayed == <<up, down, toRemote, toClient, remoteRead>>
vars == <<client, remote, handler, relayed>>

Init ==
    /\ clientSent = 0 /\ clientEnd = "open" /\ clientTook = 0
    /\ remoteSent = 0 /\ remoteEnd = "open" /\ remoteTook = 0
    /\ sockRead = 0 /\ used = 0 /\ pc = "sniff" /\ replies = <<>>
    /\ up = "off" /\ down = "off"
    /\ toRemote = <<>> /\ toClient = <<>> /\ remoteRead = 0

-----------------------------------------------------------------------------
(* The peers                                                               *)

ClientSend ==
    /\ clientEnd = "open" /\ clientSent < MaxUp
    /\ clientSent' = clientSent + 1
    /\ UNCHANGED <<clientEnd, clientTook, remote, handler, relayed>>

ClientTake ==
    /\ clientEnd # "gone" /\ clientTook < Len(toClient)
    /\ clientTook' = clientTook + 1
    /\ UNCHANGED <<clientSent, clientEnd, remote, handler, relayed>>

ClientEnds(how) ==
    /\ clientEnd = "open" \/ (clientEnd = "fin" /\ how = "gone")
    /\ clientEnd' = how
    /\ UNCHANGED <<clientSent, clientTook, remote, handler, relayed>>

Connected == up # "off"

RemoteSend ==
    /\ Connected /\ remoteEnd = "open" /\ remoteSent < MaxDown
    /\ remoteSent' = remoteSent + 1
    /\ UNCHANGED <<remoteEnd, remoteTook, client, handler, relayed>>

RemoteTake ==
    /\ remoteEnd # "gone" /\ remoteTook < Len(toRemote)
    /\ remoteTook' = remoteTook + 1
    /\ UNCHANGED <<remoteSent, remoteEnd, client, handler, relayed>>

RemoteEnds(how) ==
    /\ Connected
    /\ remoteEnd = "open" \/ (remoteEnd = "fin" /\ how = "gone")
    /\ remoteEnd' = how
    /\ UNCHANGED <<remoteSent, remoteTook, client, handler, relayed>>

-----------------------------------------------------------------------------
(* handleMixedConn: the handshake                                          *)

(* Peek(1) takes whatever has arrived off the socket.                      *)
Sniff ==
    /\ pc = "sniff"
    /\ sockRead' \in 1..clientSent
    /\ pc' \in {"socks", "http"}
    /\ UNCHANGED <<used, replies, client, remote, relayed>>

(* Ten seconds without a byte, or the client has ended.                    *)
SniffEnds ==
    /\ pc = "sniff"
    /\ pc' = "ended"
    /\ UNCHANGED <<sockRead, used, replies, client, remote, relayed>>

(* io.ReadFull and ReadString go to the socket when nothing is buffered.   *)
NoFill == {sockRead}                  \* bug: what is read was never buffered
Fill == IF used < sockRead THEN {sockRead} ELSE (used + 1)..clientSent

ReadHandshake ==
    /\ pc \in {"socks", "http"} /\ used < clientSent
    /\ sockRead' \in Fill
    /\ used' = used + 1
    /\ replies' = IF pc = "socks" /\ used = 0 THEN Append(replies, "method") ELSE replies
    /\ pc' = IF used + 1 = HandshakeUnits THEN "dial" ELSE pc
    /\ UNCHANGED <<client, remote, relayed>>

(* A version, command or request line it does not accept, or EOF: no reply.*)
HandshakeFails ==
    /\ pc \in {"socks", "http"}
    /\ used < clientSent \/ clientEnd # "open"
    /\ pc' = "ended"
    /\ UNCHANGED <<sockRead, used, replies, client, remote, relayed>>

(* dialSelectedOrDirect has a timeout of its own on either way.  The code  *)
(* ignores whether a reply is written; replies are small and are taken not *)
(* to block.                                                               *)
DialFails ==
    /\ pc = "dial"
    /\ pc' = "ended"
    /\ replies' = Append(replies, "refused")
    /\ UNCHANGED <<sockRead, used, client, remote, relayed>>

DialSucceeds ==
    /\ pc = "dial"
    /\ pc' = "relay"
    /\ replies' = Append(replies, "established")
    /\ up' = "read" /\ down' = "read"
    /\ UNCHANGED <<sockRead, used, toRemote, toClient, remoteRead, client, remote>>

-----------------------------------------------------------------------------
(* relay: io.Copy(remote, localReader), then remote.Close()                *)

NextOfSocket == sockRead + 1          \* bug: relays from conn, not from br
NextUnit == used + 1

UpRead ==
    /\ up = "read"
    /\ NextUnit <= IF down = "closed" THEN sockRead ELSE clientSent
    /\ up' = "write"
    /\ used' = NextUnit
    /\ sockRead' = IF NextUnit > sockRead THEN NextUnit ELSE sockRead
    /\ UNCHANGED <<pc, replies, down, toRemote, toClient, remoteRead, client, remote>>

UpWrite ==
    /\ up = "write" /\ Len(toRemote) - remoteTook < Window
    /\ up' = "read"
    /\ toRemote' = Append(toRemote, used)
    /\ UNCHANGED <<down, toClient, remoteRead, handler, client, remote>>

(* The reader is at its end: EOF or an error of the client's socket, which *)
(* the other goroutine may have closed; buffered units come first.         *)
AtEndAtOnce == down = "closed" \/ clientEnd # "open"     \* bug: data is dropped
UpAtEnd ==
    /\ used = sockRead
    /\ down = "closed" \/ clientEnd = "gone" \/ (clientEnd = "fin" /\ used = clientSent)

UpEnds ==
    /\ \/ up = "read" /\ UpAtEnd
       \/ up = "write" /\ remoteEnd = "gone"
    /\ up' = "closed"
    /\ UNCHANGED <<down, toRemote, toClient, remoteRead, handler, client, remote>>

-----------------------------------------------------------------------------
(* relay: io.Copy(localWriter, remote), then localWriter.Close()           *)

NextDown == remoteRead + 1

DownRead ==
    /\ down = "read" /\ up # "closed" /\ NextDown <= remoteSent
    /\ down' = "write"
    /\ remoteRead' = NextDown
    /\ UNCHANGED <<up, toRemote, toClient, handler, client, remote>>

DownWriteShort ==                     \* bug: what does not fit is dropped
    /\ down = "write"
    /\ down' = "read"
    /\ toClient' = IF Len(toClient) - clientTook < Window
                     THEN Append(toClient, remoteRead) ELSE toClient
    /\ UNCHANGED <<up, toRemote, remoteRead, handler, client, remote>>
DownWrite ==
    /\ down = "write" /\ Len(toClient) - clientTook < Window
    /\ down' = "read"
    /\ toClient' = Append(toClient, remoteRead)
    /\ UNCHANGED <<up, toRemote, remoteRead, handler, client, remote>>

DownEndsAlone ==                      \* bug: the other goroutine does not close
    /\ \/ down = "read" /\ (remoteEnd = "gone" \/ (remoteEnd = "fin" /\ remoteRead = remoteSent))
       \/ down = "write" /\ clientEnd = "gone"
    /\ down' = "closed"
    /\ UNCHANGED <<up, toRemote, toClient, remoteRead, handler, client, remote>>
DownEnds ==
    /\ \/ /\ down = "read"
          /\ up = "closed" \/ remoteEnd = "gone"
             \/ (remoteEnd = "fin" /\ remoteRead = remoteSent)
       \/ down = "write" /\ clientEnd = "gone"
    /\ down' = "closed"
    /\ UNCHANGED <<up, toRemote, toClient, remoteRead, handler, client, remote>>

(* wg.Wait(), and the deferred Close of both connections.                  *)
RelayEnds ==
    /\ pc = "relay" /\ up = "closed" /\ down = "closed"
    /\ pc' = "ended"
    /\ UNCHANGED <<sockRead, used, replies, relayed, client, remote>>

-----------------------------------------------------------------------------
Peers ==
    \/ ClientSend \/ ClientTake \/ RemoteSend \/ RemoteTake
    \/ \E how \in {"fin", "gone"} : ClientEnds(how) \/ RemoteEnds(how)

Handle ==
    \/ Sniff \/ SniffEnds \/ ReadHandshake \/ HandshakeFails
    \/ DialFails \/ DialSucceeds \/ RelayEnds

UpStep == UpRead \/ UpWrite \/ UpEnds
DownStep == DownRead \/ DownWrite \/ DownEnds

Next == Peers \/ Handle \/ UpStep \/ DownStep

Spec == Init /\ [][Next]_vars

(* The three goroutines run; the peers need not do anything.               *)
Fairness == WF_vars(Handle) /\ WF_vars(UpStep) /\ WF_vars(DownStep)

FairSpec == Spec /\ Fairness

-----------------------------------------------------------------------------
Full == Len(toRemote) - remoteTook >= Window
FullDown == Len(toClient) - clientTook >= Window

PeersOK ==
    /\ clientSent \in 0..MaxUp /\ clientEnd \in {"open", "fin", "gone"}
    /\ remoteSent \in 0..MaxDown /\ remoteEnd \in {"open", "fin", "gone"}
    /\ remoteTook \in 0..Len(toRemote) /\ clientTook \in 0..Len(toClient)

HandlerOK ==
    /\ used \in 0..sockRead /\ sockRead \in 0..clientSent
    /\ remoteRead \in 0..remoteSent
    /\ pc \in {"sniff", "socks", "http", "dial", "relay", "ended"}
    /\ up \in {"off", "read", "write", "closed"}
    /\ down \in {"off", "read", "write", "closed"}

WrittenOK ==
    /\ replies \in Seq({"method", "refused", "established"})
    /\ toRemote \in Seq(1..MaxUp)
    /\ toClient \in Seq(1..MaxDown)

(* Types.  A reader is never ahead of its writer.                          *)
TypeOK == PeersOK /\ HandlerOK /\ WrittenOK

(* Each direction is a pipe: what the client sent behind its handshake,    *)
(* early or late, is what the remote gets, and nothing of the handshake    *)
(* is; the client gets what the remote sent.                               *)
Payload == IF clientSent > HandshakeUnits THEN clientSent - HandshakeUnits ELSE 0
UpPipe == INSTANCE Pipe WITH
    sent <- Payload, got <- [i \in DOMAIN toRemote |-> toRemote[i] - HandshakeUnits]
DownPipe == INSTANCE Pipe WITH sent <- remoteSent, got <- toClient

UpStream == UpPipe!Spec
DownStream == DownPipe!Spec

(* A side that ends first and in order loses nothing of what it sent,      *)
(* although its end makes relay close both connections under the other     *)
(* goroutine.                                                              *)
NoDataLost ==
    (pc = "ended" /\ Connected) =>
        /\ (remoteEnd = "fin" /\ clientEnd = "open") => Len(toClient) = remoteSent
        /\ (clientEnd = "fin" /\ remoteEnd = "open") => Len(toRemote) = Payload

(* When either side has ended, so does the handler, in whatever state it   *)
(* was, unless a write is blocked for ever by a peer that does not read.   *)
LetsGo ==
    (clientEnd # "open" \/ remoteEnd # "open") ~>
        (pc = "ended" \/ [](\/ up = "write" /\ Full
                            \/ down = "write" /\ FullDown))
=============================================================================
