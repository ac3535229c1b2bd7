--------------------------- MODULE MixedConnProofs ---------------------------
(* Proofs about MixedConn for any handshake, window and amount of data.    *)
EXTENDS MixedConn, TLAPS

LEMMA AppendType ==
    ASSUME NEW S, NEW s \in Seq(S), NEW e \in S
    PROVE  /\ Append(s, e) \in Seq(S)
           /\ Len(Append(s, e)) = Len(s) + 1
           /\ Len(s) \in Nat
OBVIOUS

(* Nothing is read before the first byte was seen, nothing is relayed      *)
(* before the dial, and a goroutine that writes has a unit in hand.        *)
HandInv ==
    /\ pc = "sniff" => used = 0 /\ sockRead = 0
    /\ pc \in {"sniff", "socks", "http", "dial"} => up = "off" /\ down = "off"
    /\ up = "write" => used > 0
    /\ down = "write" => remoteRead > 0

(* What has been written only grows, and by units that were in hand.       *)
LEMMA WrittenType == PeersOK /\ HandlerOK /\ WrittenOK /\ HandInv /\ [Next]_vars =>
    /\ WrittenOK'
    /\ Len(toRemote) \in Nat /\ Len(toRemote') \in {Len(toRemote), Len(toRemote) + 1}
    /\ Len(toClient) \in Nat /\ Len(toClient') \in {Len(toClient), Len(toClient) + 1}
<1> SUFFICES ASSUME PeersOK, HandlerOK, WrittenOK, HandInv, [Next]_vars
             PROVE  /\ WrittenOK'
                    /\ Len(toRemote) \in Nat
                    /\ Len(toRemote') \in {Len(toRemote), Len(toRemote) + 1}
                    /\ Len(toClient) \in Nat
                    /\ Len(toClient') \in {Len(toClient), Len(toClient) + 1}
  OBVIOUS
<1>1. Len(toRemote) \in Nat /\ Len(toClient) \in Nat
  BY DEF WrittenOK
<1>2. CASE UpWrite
  <2>1. used \in 1..MaxUp
    BY <1>2, MixedAssumption DEF UpWrite, HandInv, HandlerOK, PeersOK
  <2>2. QED
    BY <1>1, <1>2, <2>1, AppendType DEF UpWrite, handler, WrittenOK
<1>3. CASE DownWrite
  <2>1. remoteRead \in 1..MaxDown
    BY <1>3, MixedAssumption DEF DownWrite, HandInv, HandlerOK, PeersOK
  <2>2. QED
    BY <1>1, <1>3, <2>1, AppendType DEF DownWrite, handler, WrittenOK
<1>4. CASE ReadHandshake \/ DialFails \/ DialSucceeds
  <2>1. UNCHANGED <<toRemote, toClient>>
    BY <1>4 DEF ReadHandshake, DialFails, DialSucceeds, relayed
  <2>2. replies' \in Seq({"method", "refused", "established"})
    BY <1>4, AppendType DEF ReadHandshake, DialFails, DialSucceeds, WrittenOK
  <2>3. QED
    BY <1>1, <2>1, <2>2 DEF WrittenOK
<1>5. CASE UNCHANGED <<toRemote, toClient, replies>>
  BY <1>1, <1>5 DEF WrittenOK
<1>6. QED
  <2>1. CASE Peers
    BY <1>5, <2>1 DEF Peers, ClientSend, ClientTake, ClientEnds, RemoteSend, RemoteTake,
                RemoteEnds, handler, relayed
  <2>2. CASE Sniff \/ SniffEnds \/ HandshakeFails \/ RelayEnds
    BY <1>5, <2>2 DEF Sniff, SniffEnds, HandshakeFails, RelayEnds, relayed
  <2>3. CASE UpRead \/ UpEnds \/ DownRead \/ DownEnds
    BY <1>5, <2>3 DEF UpRead, UpEnds, DownRead, DownEnds, handler
  <2>4. CASE UNCHANGED vars
    BY <1>5, <2>4 DEF vars, handler, relayed
  <2>5. QED
    BY <1>2, <1>3, <1>4, <2>1, <2>2, <2>3, <2>4 DEF Next, Handle, UpStep, DownStep

LEMMA InitType == Init => TypeOK /\ HandInv
BY MixedAssumption DEF Init, TypeOK, PeersOK, HandlerOK, WrittenOK, HandInv

LEMMA NextType == TypeOK /\ HandInv /\ [Next]_vars => TypeOK' /\ HandInv'
<1> SUFFICES ASSUME TypeOK, HandInv, [Next]_vars PROVE TypeOK' /\ HandInv'
  OBVIOUS
<1>1. /\ WrittenOK'
      /\ Len(toRemote) \in Nat /\ Len(toRemote') \in {Len(toRemote), Len(toRemote) + 1}
      /\ Len(toClient) \in Nat /\ Len(toClient') \in {Len(toClient), Len(toClient) + 1}
  BY WrittenType DEF TypeOK
<1>2. PeersOK'
  <2>1. ASSUME UNCHANGED <<client, remote>> PROVE PeersOK'
    BY <1>1, <2>1 DEF TypeOK, PeersOK, client, remote
  <2>2. CASE Peers
    <3>1. UNCHANGED <<toRemote, toClient>>
      BY <2>2 DEF Peers, ClientSend, ClientTake, ClientEnds, RemoteSend, RemoteTake,
                  RemoteEnds, relayed
    <3>2. QED
      BY <1>1, <2>2, <3>1, MixedAssumption
         DEF Peers, ClientSend, ClientTake, ClientEnds, RemoteSend, RemoteTake,
             RemoteEnds, client, remote, TypeOK, PeersOK
  <2>3. QED
    BY <2>1, <2>2 DEF Next, Handle, UpStep, DownStep, Sniff, SniffEnds, ReadHandshake,
           HandshakeFails, DialFails, DialSucceeds, RelayEnds, UpRead, UpWrite, UpEnds,
           DownRead, DownWrite, DownEnds, vars
<1>3. HandlerOK' /\ HandInv'
  <2> USE MixedAssumption DEF TypeOK, PeersOK, HandlerOK, HandInv
  <2>1. CASE Peers
    BY <2>1 DEF Peers, ClientSend, ClientTake, ClientEnds, RemoteSend, RemoteTake,
                RemoteEnds, handler, relayed, client, remote
  <2>2. CASE Sniff \/ SniffEnds \/ HandshakeFails \/ RelayEnds
    BY <2>2 DEF Sniff, SniffEnds, HandshakeFails, RelayEnds, client, remote, relayed
  <2>3. CASE ReadHandshake
    BY <2>3 DEF ReadHandshake, Fill, client, remote, relayed
  <2>4. CASE DialFails \/ DialSucceeds
    BY <2>4 DEF DialFails, DialSucceeds, client, remote, relayed
  <2>5. CASE UpStep
    BY <2>5 DEF UpStep, UpRead, UpWrite, UpEnds, NextUnit, client, remote, handler
  <2>6. CASE DownStep
    BY <2>6 DEF DownStep, DownRead, DownWrite, DownEnds, NextDown, client, remote,
                handler
  <2>7. CASE UNCHANGED vars
    BY <2>7 DEF vars, client, remote, handler, relayed
  <2>8. QED
    BY <2>1, <2>2, <2>3, <2>4, <2>5, <2>6, <2>7 DEF Next, Handle
<1>4. QED
  BY <1>1, <1>2, <1>3 DEF TypeOK

LEMMA Types == Spec => [](TypeOK /\ HandInv)
<1>1. Init => TypeOK /\ HandInv
  BY InitType
<1>2. TypeOK /\ HandInv /\ [Next]_vars => TypeOK' /\ HandInv'
  BY NextType
<1>3. QED
  BY <1>1, <1>2, PTL DEF Spec

(* The type invariant, for any sizes.                                      *)
THEOREM TypeCorrect == Spec => []TypeOK
BY Types, PTL

-----------------------------------------------------------------------------
(* Where each goroutine is in its stream: the handler has used exactly the *)
(* handshake when the relay begins, and from then on what was read is what *)
(* was written and at most one unit in hand.                               *)
UpInv ==
    /\ pc \in {"sniff", "socks", "http"} => used < HandshakeUnits
    /\ pc = "dial" => used = HandshakeUnits
    /\ up = "off" => toRemote = <<>>
    /\ up = "read" => used = HandshakeUnits + Len(toRemote)
    /\ up = "write" => used = HandshakeUnits + Len(toRemote) + 1
    /\ \A i \in 1..Len(toRemote) : toRemote[i] = HandshakeUnits + i

DownInv ==
    /\ down = "off" => toClient = <<>> /\ remoteRead = 0
    /\ down = "read" => remoteRead = Len(toClient)
    /\ down = "write" => remoteRead = Len(toClient) + 1
    /\ \A i \in 1..Len(toClient) : toClient[i] = i

(* The first n units of a direction, and the next one.                     *)
Count(n) == [i \in 1..n |-> i]

LEMMA CountNext ==
    ASSUME NEW n \in Nat
    PROVE  /\ Len(Count(n)) = n
           /\ Append(Count(n), n + 1) = Count(n + 1)
           /\ Count(0) = <<>>
BY DEF Count

LEMMA AppendAt ==
    ASSUME NEW S, NEW s \in Seq(S), NEW e \in S
    PROVE  /\ Len(Append(s, e)) = Len(s) + 1 /\ Len(s) \in Nat
           /\ \A i \in 1..Len(s) : Append(s, e)[i] = s[i]
           /\ Append(s, e)[Len(s) + 1] = e
OBVIOUS

LEMMA NextUp == TypeOK /\ HandInv /\ UpInv /\ [Next]_vars => UpInv'
<1> SUFFICES ASSUME TypeOK, HandInv, UpInv, [Next]_vars PROVE UpInv'
  OBVIOUS
<1> USE MixedAssumption DEF TypeOK, PeersOK, HandlerOK, HandInv, UpInv
<1>1. Len(toRemote) \in Nat
  BY DEF WrittenOK
<1>2. CASE Peers
  BY <1>2 DEF Peers, ClientSend, ClientTake, ClientEnds, RemoteSend, RemoteTake,
              RemoteEnds, handler, relayed
<1>3. CASE Sniff \/ SniffEnds \/ HandshakeFails \/ RelayEnds
  BY <1>3 DEF Sniff, SniffEnds, HandshakeFails, RelayEnds, relayed
<1>4. CASE ReadHandshake
  BY <1>4 DEF ReadHandshake, relayed
<1>5. CASE DialFails \/ DialSucceeds
  BY <1>1, <1>5 DEF DialFails, DialSucceeds, relayed
<1>6. CASE UpRead \/ UpEnds
  BY <1>1, <1>6 DEF UpRead, UpEnds, NextUnit, handler
<1>7. CASE UpWrite
  <2>1. used \in 1..MaxUp /\ toRemote' = Append(toRemote, used)
    BY <1>7 DEF UpWrite
  <2>2. /\ Len(toRemote') = Len(toRemote) + 1
        /\ \A i \in 1..Len(toRemote) : toRemote'[i] = toRemote[i]
        /\ toRemote'[Len(toRemote) + 1] = used
    BY <2>1, AppendAt DEF WrittenOK
  <2>3. used = HandshakeUnits + Len(toRemote) + 1
    BY <1>7 DEF UpWrite
  <2>4. ASSUME NEW i \in 1..Len(toRemote') PROVE toRemote'[i] = HandshakeUnits + i
    <3>1. CASE i \in 1..Len(toRemote)
      BY <2>2, <3>1
    <3>2. CASE i = Len(toRemote) + 1
      BY <1>1, <2>2, <2>3, <3>2
    <3>3. QED
      BY <1>1, <2>2, <3>1, <3>2
  <2>5. QED
    BY <1>1, <1>7, <2>2, <2>4 DEF UpWrite, handler
<1>8. CASE DownStep
  BY <1>8 DEF DownStep, DownRead, DownWrite, DownEnds, handler
<1>9. CASE UNCHANGED vars
  BY <1>9 DEF vars, handler, relayed
<1>10. QED
  BY <1>2, <1>3, <1>4, <1>5, <1>6, <1>7, <1>8, <1>9 DEF Next, Handle, UpStep

LEMMA NextDownInv == TypeOK /\ HandInv /\ DownInv /\ [Next]_vars => DownInv'
<1> SUFFICES ASSUME TypeOK, HandInv, DownInv, [Next]_vars PROVE DownInv'
  OBVIOUS
<1> USE DEF TypeOK, PeersOK, HandlerOK, HandInv, DownInv
<1>1. Len(toClient) \in Nat
  BY DEF WrittenOK
<1>2. CASE Peers
  BY <1>2 DEF Peers, ClientSend, ClientTake, ClientEnds, RemoteSend, RemoteTake,
              RemoteEnds, relayed
<1>3. CASE Handle
  BY <1>1, <1>3 DEF Handle, Sniff, SniffEnds, ReadHandshake, HandshakeFails, DialFails,
                    DialSucceeds, RelayEnds, relayed
<1>4. CASE UpStep
  BY <1>4 DEF UpStep, UpRead, UpWrite, UpEnds
<1>5. CASE DownRead \/ DownEnds
  BY <1>1, <1>5 DEF DownRead, DownEnds, NextDown
<1>6. CASE DownWrite
  <2>1. remoteRead \in 1..MaxDown /\ toClient' = Append(toClient, remoteRead)
    BY <1>6, MixedAssumption DEF DownWrite
  <2>2. /\ Len(toClient') = Len(toClient) + 1
        /\ \A i \in 1..Len(toClient) : toClient'[i] = toClient[i]
        /\ toClient'[Len(toClient) + 1] = remoteRead
    BY <2>1, AppendAt DEF WrittenOK
  <2>3. \A i \in 1..Len(toClient') : toClient'[i] = i
    BY <1>1, <1>6, <2>2 DEF DownWrite
  <2>4. QED
    BY <1>1, <1>6, <2>2, <2>3 DEF DownWrite
<1>7. CASE UNCHANGED vars
  BY <1>7 DEF vars, relayed
<1>8. QED
  BY <1>2, <1>3, <1>4, <1>5, <1>6, <1>7 DEF Next, DownStep

LEMMA Streams == Spec => [](TypeOK /\ HandInv /\ UpInv /\ DownInv)
<1>1. Init => UpInv /\ DownInv
  BY MixedAssumption DEF Init, UpInv, DownInv
<1>2. TypeOK /\ HandInv /\ UpInv /\ DownInv /\ [Next]_vars => UpInv' /\ DownInv'
  BY NextUp, NextDownInv
<1>3. QED
  BY <1>1, <1>2, Types, PTL DEF Spec

(* What the remote has received, counted from the first unit behind the    *)
(* handshake.                                                              *)
Received == [i \in DOMAIN toRemote |-> toRemote[i] - HandshakeUnits]

LEMMA CountReceived ==
    ASSUME NEW s \in Seq(1..MaxUp), \A i \in 1..Len(s) : s[i] = HandshakeUnits + i
    PROVE  [i \in DOMAIN s |-> s[i] - HandshakeUnits] = Count(Len(s))
<1>1. Len(s) \in Nat /\ DOMAIN s = 1..Len(s)
  OBVIOUS
<1>2. \A i \in 1..Len(s) : s[i] - HandshakeUnits = i
  BY <1>1, MixedAssumption
<1>3. QED
  BY <1>1, <1>2 DEF Count

(* The remote receives what the client sent behind its handshake, in       *)
(* order, each unit once: for any handshake, buffering and window.         *)
THEOREM UpIsPipe == Spec => UpStream
<1>1. Init => UpPipe!Init
  BY MixedAssumption DEF Init, UpPipe!Init, Payload
<1>2. ASSUME TypeOK, HandInv, UpInv, TypeOK', UpInv', [Next]_vars
      PROVE  [UpPipe!Send \/ UpPipe!Receive]_<<Payload, Received>>
  <2> USE DEF Received
  <2>1. Received = Count(Len(toRemote)) /\ Len(toRemote) \in Nat
    BY <1>2, CountReceived DEF UpInv, TypeOK, WrittenOK
  <2>2. CASE ClientSend
    <3>1. UNCHANGED toRemote /\ (Payload' > Payload \/ Payload' = Payload)
      BY <1>2, <2>2, MixedAssumption DEF ClientSend, relayed, Payload, TypeOK, PeersOK
    <3>2. QED
      BY <3>1 DEF UpPipe!Send
  <2>3. CASE UpWrite
    <3>1. Len(toRemote') = Len(toRemote) + 1
      BY <1>2, <2>3, AppendType DEF UpWrite, TypeOK, PeersOK, HandlerOK, WrittenOK, HandInv
    <3>2. Received' = Append(Received, Len(Received) + 1)
      <4>1. Received' = Count(Len(toRemote'))
        BY <1>2, CountReceived DEF UpInv, TypeOK, WrittenOK
      <4>2. QED
        BY <2>1, <3>1, <4>1, CountNext
    <3>3. UNCHANGED Payload
      BY <2>3 DEF UpWrite, client, Payload
    <3>4. Len(Received) < Payload
      <4>1. Len(Received) = Len(toRemote)
        BY <2>1, CountNext
      <4>2. clientSent \in Nat /\ HandshakeUnits + Len(toRemote) + 1 <= clientSent
        BY <1>2, <2>1, <2>3, MixedAssumption
           DEF UpWrite, UpInv, TypeOK, PeersOK, HandlerOK
      <4>3. QED
        BY <2>1, <4>1, <4>2, MixedAssumption DEF Payload
    <3>5. QED
      BY <3>2, <3>3, <3>4 DEF UpPipe!Receive
  <2>4. CASE UNCHANGED <<clientSent, toRemote>>
    BY <2>4 DEF Payload
  <2>5. QED
    BY <1>2, <2>2, <2>3, <2>4
       DEF Next, Peers, ClientTake, ClientEnds, RemoteSend, RemoteTake, RemoteEnds, Handle,
           Sniff, SniffEnds, ReadHandshake, HandshakeFails, DialFails, DialSucceeds,
           RelayEnds, UpStep, UpRead, UpEnds, DownStep, DownRead, DownWrite, DownEnds,
           client, relayed, vars
<1>3. QED
  BY <1>1, <1>2, Streams, PTL DEF Spec, UpStream, UpPipe!Spec, Received

(* The client receives what the remote sent, in order, each unit once.     *)
THEOREM DownIsPipe == Spec => DownStream
<1>1. Init => DownPipe!Init
  BY DEF Init, DownPipe!Init
<1>2. ASSUME TypeOK, HandInv, DownInv, TypeOK', [Next]_vars
      PROVE  [DownPipe!Send \/ DownPipe!Receive]_<<remoteSent, toClient>>
  <2>1. CASE RemoteSend
    BY <1>2, <2>1 DEF RemoteSend, relayed, DownPipe!Send, TypeOK, PeersOK
  <2>2. CASE DownWrite
    <3>1. remoteRead = Len(toClient) + 1 /\ remoteRead <= remoteSent
      BY <1>2, <2>2 DEF DownWrite, DownInv, TypeOK, PeersOK, HandlerOK
    <3>2. Len(toClient) \in Nat /\ remoteSent \in Nat
      BY <1>2, MixedAssumption DEF TypeOK, PeersOK, WrittenOK
    <3>3. QED
      BY <2>2, <3>1, <3>2 DEF DownWrite, remote, DownPipe!Receive
  <2>3. CASE UNCHANGED <<remoteSent, toClient>>
    BY <2>3
  <2>4. QED
    BY <1>2, <2>1, <2>2, <2>3
       DEF Next, Peers, ClientSend, ClientTake, ClientEnds, RemoteTake, RemoteEnds, Handle,
           Sniff, SniffEnds, ReadHandshake, HandshakeFails, DialFails, DialSucceeds,
           RelayEnds, UpStep, UpRead, UpWrite, UpEnds, DownStep, DownRead, DownEnds,
           remote, relayed, vars
<1>3. QED
  BY <1>1, <1>2, Streams, PTL DEF Spec, DownStream, DownPipe!Spec

-----------------------------------------------------------------------------
(* Why a goroutine ended.  The first to end did so because of a peer; the  *)
(* second may have ended because of the first, and then the same peer is   *)
(* to blame.                                                               *)
EndInv ==
    /\ up = "off" <=> down = "off"
    /\ (pc = "ended" /\ up # "off") => up = "closed" /\ down = "closed"
    /\ up = "closed" /\ down # "closed" => clientEnd # "open" \/ remoteEnd = "gone"
    /\ down = "closed" /\ up # "closed" => remoteEnd # "open" \/ clientEnd = "gone"
    /\ up = "closed" =>
           \/ remoteEnd # "open" \/ clientEnd = "gone"
           \/ clientEnd = "fin" /\ used = clientSent /\ Len(toRemote) = Payload
    /\ down = "closed" =>
           \/ clientEnd # "open" \/ remoteEnd = "gone"
           \/ remoteEnd = "fin" /\ Len(toClient) = remoteSent

LEMMA NextEnd ==
    TypeOK /\ HandInv /\ UpInv /\ DownInv /\ EndInv /\ [Next]_vars => EndInv'
<1> SUFFICES ASSUME TypeOK, HandInv, UpInv, DownInv, EndInv, [Next]_vars PROVE EndInv'
  OBVIOUS
<1>1. Len(toRemote) \in Nat /\ Len(toClient) \in Nat
  BY DEF TypeOK, WrittenOK
<1>2. CASE Peers
  BY <1>2 DEF Peers, ClientSend, ClientTake, ClientEnds, RemoteSend, RemoteTake,
              RemoteEnds, handler, relayed, client, remote, Payload, EndInv, TypeOK, PeersOK
<1>3. CASE Handle
  BY <1>3 DEF Handle, Sniff, SniffEnds, ReadHandshake, HandshakeFails, DialFails,
              DialSucceeds, RelayEnds, relayed, client, remote, Payload, EndInv, HandInv
<1>4. CASE UpRead \/ UpWrite
  BY <1>4 DEF UpRead, UpWrite, handler, client, remote, EndInv, HandInv
<1>5. CASE UpEnds
  <2>1. /\ UNCHANGED <<pc, down, toRemote, toClient, used, clientEnd, clientSent>>
        /\ UNCHANGED <<remoteEnd, remoteSent, Payload>> /\ up' = "closed"
    BY <1>5 DEF UpEnds, handler, client, remote, Payload
  <2>2. \/ down = "closed" \/ clientEnd = "gone" \/ remoteEnd = "gone"
        \/ clientEnd = "fin" /\ used = clientSent /\ up = "read"
    BY <1>5 DEF UpEnds, UpAtEnd
  <2>3. up = "read" /\ used = clientSent => Len(toRemote) = Payload
    BY <1>1, MixedAssumption DEF UpInv, Payload, TypeOK, PeersOK
  <2>4. pc # "ended" /\ up # "off" /\ up # "closed"
    BY <1>5 DEF UpEnds, EndInv
  <2>5. QED
    BY <2>1, <2>2, <2>3, <2>4 DEF EndInv, TypeOK, PeersOK, HandlerOK
<1>6. CASE DownRead \/ DownWrite
  BY <1>6 DEF DownRead, DownWrite, handler, client, remote, EndInv, HandInv, Payload
<1>7. CASE DownEnds
  <2>1. /\ UNCHANGED <<pc, up, toRemote, toClient, used, clientEnd, clientSent>>
        /\ UNCHANGED <<remoteEnd, remoteSent, Payload>> /\ down' = "closed"
    BY <1>7 DEF DownEnds, handler, client, remote, Payload
  <2>2. \/ up = "closed" \/ clientEnd = "gone" \/ remoteEnd = "gone"
        \/ remoteEnd = "fin" /\ remoteRead = remoteSent /\ down = "read"
    BY <1>7 DEF DownEnds
  <2>3. down = "read" /\ remoteRead = remoteSent => Len(toClient) = remoteSent
    BY DEF DownInv
  <2>4. pc # "ended" /\ down # "off" /\ down # "closed"
    BY <1>7 DEF DownEnds, EndInv
  <2>5. QED
    BY <2>1, <2>2, <2>3, <2>4 DEF EndInv, TypeOK, PeersOK, HandlerOK
<1>8. CASE UNCHANGED vars
  BY <1>8 DEF vars, client, remote, handler, relayed, Payload, EndInv
<1>9. QED
  BY <1>2, <1>3, <1>4, <1>5, <1>6, <1>7, <1>8 DEF Next, UpStep, DownStep

(* A side that ends first and in order loses nothing, for any window and   *)
(* any amount of data.                                                     *)
THEOREM NothingLost == Spec => []NoDataLost
<1>1. Init => EndInv
  BY DEF Init, EndInv
<1>2. TypeOK /\ HandInv /\ UpInv /\ DownInv /\ EndInv /\ [Next]_vars => EndInv'
  BY NextEnd
<1>3. EndInv => NoDataLost
  BY DEF EndInv, NoDataLost, Connected
<1>4. QED
  BY <1>1, <1>2, <1>3, Streams, PTL DEF Spec
=============================================================================
