----------------------------- MODULE Handshake -----------------------------
(***************************************************************************)
(* Two of ShadowsocksR's obfuscations finish a handshake inside Read, by   *)
(* calling Write(nil) on the connection, while relay's other goroutine may *)
(* be inside Write: "tls12" (tls1.2_ticket_auth) and "random_head".  The   *)
(* fields of the connection are not locked; every access to one of them is *)
(* a step here.                                                            *)
(*                                                                         *)
(* The first Write is over before Read is called: it carries the address   *)
(* of the target and is part of dialling.                                  *)
(***************************************************************************)
EXTENDS Naturals, Sequences

CONSTANTS
    ObfsKinds,   \* the obfuscations of the instance
    Writes       \* bound: how many times Write is called with data

(* What is asked of the constants.                                         *)
HandshakeAssumption == Writes \in Nat

VARIABLES
    obfs,       \* the obfuscation
    status,     \* tls12: handshakeStatus; random_head: 0, 1 hasSentHeader, 8 rawTransSent
    recv,       \* rawTransRecv
    held,       \* sendBuf, or buf: data waiting for the handshake
    toServer,   \* what Conn.Write has sent: Hello, Finished, and data 1, 2, ...
    answered,   \* the server has answered the hello
    pc,         \* where the calls of the writer and of the reader are
    arg,        \* what a call holds: the data it writes, or what it drained
    written,    \* calls of Write with data that have begun
    overlap     \* a Write with data overlapped the Read that finished the handshake

fields == <<status, recv, held>>
vars == <<obfs, fields, toServer, answered, pc, arg, written, overlap>>

Caller == {"writer", "reader"}

Hello == 0
Finished == Writes + 1

Init ==
    /\ obfs \in ObfsKinds
    /\ status = 0 /\ recv = FALSE /\ held = <<>>
    /\ toServer = <<>> /\ answered = FALSE
    /\ pc = [p \in Caller |-> "idle"] /\ arg = [p \in Caller |-> <<>>]
    /\ written = 0 /\ overlap = FALSE

Goto(p, l) == pc' = [pc EXCEPT ![p] = l]
Sends(data) == toServer' = toServer \o data

-----------------------------------------------------------------------------
(* The calls                                                               *)

(* relay's up goroutine, or the dialling code for the first one.           *)
CallWrite ==
    /\ pc["writer"] = "idle" /\ written < Writes
    /\ written' = written + 1
    /\ arg' = [arg EXCEPT !["writer"] = <<written + 1>>]
    /\ Goto("writer", "begin")
    /\ overlap' = (overlap \/ pc["reader"] # "idle")
    /\ UNCHANGED <<obfs, fields, toServer, answered>>

ServerAnswers ==
    /\ toServer # <<>> /\ ~answered
    /\ answered' = TRUE
    /\ UNCHANGED <<obfs, fields, toServer, pc, arg, written, overlap>>

(* relay's down goroutine has read the answer: it calls Write(nil).        *)
ReadAnswer ==
    /\ pc["reader"] = "idle" /\ answered /\ ~recv /\ written > 0
    /\ written = 1 => pc["writer"] = "idle"
    /\ recv' = TRUE
    /\ arg' = [arg EXCEPT !["reader"] = <<>>]
    /\ Goto("reader", "begin")
    /\ overlap' = (overlap \/ pc["writer"] # "idle")
    /\ UNCHANGED <<obfs, status, held, toServer, answered, written>>

-----------------------------------------------------------------------------
(* tls12TicketConn.Write                                                   *)

TLS12Begin(p) ==
    /\ obfs = "tls12" /\ pc[p] = "begin"
    /\ Goto(p, IF status = 8 THEN "raw" ELSE "hold")
    /\ UNCHANGED <<obfs, fields, toServer, answered, arg, written, overlap>>

(* Both obfuscations pass data on once the handshake is over.              *)
WriteRaw(p) ==
    /\ pc[p] = "raw"
    /\ Sends(arg[p])
    /\ Goto(p, "idle")
    /\ UNCHANGED <<obfs, fields, answered, arg, written, overlap>>

TLS12DropsEarly(p) ==                 \* bug: data before the handshake is not kept
    /\ obfs = "tls12" /\ pc[p] = "hold"
    /\ held' = held
    /\ Goto(p, "branch")
    /\ UNCHANGED <<obfs, status, recv, toServer, answered, arg, written, overlap>>
TLS12Hold(p) ==
    /\ obfs = "tls12" /\ pc[p] = "hold"
    /\ held' = held \o arg[p]
    /\ Goto(p, "branch")
    /\ UNCHANGED <<obfs, status, recv, toServer, answered, arg, written, overlap>>

TLS12Branch(p) ==
    /\ obfs = "tls12" /\ pc[p] = "branch"
    /\ status' = IF status = 0 THEN 1 ELSE status
    /\ Goto(p, IF status = 0 THEN "hello"
               ELSE IF status = 1 /\ arg[p] = <<>> THEN "drain" ELSE "idle")
    /\ UNCHANGED <<obfs, recv, held, toServer, answered, arg, written, overlap>>

WriteHello(p) ==
    /\ pc[p] = "hello"
    /\ Sends(<<Hello>>)
    /\ Goto(p, "idle")
    /\ UNCHANGED <<obfs, fields, answered, arg, written, overlap>>

(* buf.ReadFrom(&c.sendBuf), status 8, and only then Conn.Write.           *)
TLS12DrainFirst(p) ==                 \* bug: the data goes before the finished message
    /\ obfs = "tls12" /\ pc[p] = "drain"
    /\ arg' = [arg EXCEPT ![p] = held \o <<Finished>>]
    /\ held' = <<>>
    /\ Goto(p, "switch")
    /\ UNCHANGED <<obfs, status, recv, toServer, answered, written, overlap>>
TLS12Drain(p) ==
    /\ obfs = "tls12" /\ pc[p] = "drain"
    /\ arg' = [arg EXCEPT ![p] = <<Finished>> \o held]
    /\ held' = <<>>
    /\ Goto(p, "switch")
    /\ UNCHANGED <<obfs, status, recv, toServer, answered, written, overlap>>

TLS12Switch(p) ==
    /\ obfs = "tls12" /\ pc[p] = "switch"
    /\ status' = 8
    /\ Goto(p, "raw")
    /\ UNCHANGED <<obfs, recv, held, toServer, answered, arg, written, overlap>>

-----------------------------------------------------------------------------
(* randomHeadConn.Write                                                    *)

RandomHeadBegin(p) ==
    /\ obfs = "random_head" /\ pc[p] = "begin"
    /\ IF status = 8 THEN Goto(p, "raw") /\ UNCHANGED held
       ELSE Goto(p, "branch") /\ held' = held \o arg[p]
    /\ UNCHANGED <<obfs, status, recv, toServer, answered, arg, written, overlap>>

RandomHeadBranchTwice(p) ==           \* bug: hasSentHeader counts the headers
    /\ obfs = "random_head" /\ pc[p] = "branch"
    /\ status' = status + 1
    /\ Goto(p, IF status = 0 THEN "hello" ELSE IF recv THEN "flush" ELSE "idle")
    /\ UNCHANGED <<obfs, recv, held, toServer, answered, arg, written, overlap>>
RandomHeadBranch(p) ==
    /\ obfs = "random_head" /\ pc[p] = "branch"
    /\ status' = IF status = 0 THEN 1 ELSE status
    /\ Goto(p, IF status = 0 THEN "hello" ELSE IF recv THEN "flush" ELSE "idle")
    /\ UNCHANGED <<obfs, recv, held, toServer, answered, arg, written, overlap>>

RandomHeadFlush(p) ==
    /\ obfs = "random_head" /\ pc[p] = "flush"
    /\ Sends(held)
    /\ Goto(p, "empty")
    /\ UNCHANGED <<obfs, fields, answered, arg, written, overlap>>

RandomHeadEmpty(p) ==
    /\ obfs = "random_head" /\ pc[p] = "empty"
    /\ held' = <<>>
    /\ Goto(p, "switch")
    /\ UNCHANGED <<obfs, status, recv, toServer, answered, arg, written, overlap>>

RandomHeadSwitch(p) ==
    /\ obfs = "random_head" /\ pc[p] = "switch"
    /\ status' = 8
    /\ Goto(p, "idle")
    /\ UNCHANGED <<obfs, recv, held, toServer, answered, arg, written, overlap>>

-----------------------------------------------------------------------------
Step(p) ==
    \/ TLS12Begin(p) \/ TLS12Hold(p) \/ TLS12Branch(p) \/ TLS12Drain(p) \/ TLS12Switch(p)
    \/ RandomHeadBegin(p) \/ RandomHeadBranch(p) \/ RandomHeadFlush(p)
    \/ RandomHeadEmpty(p) \/ RandomHeadSwitch(p)
    \/ WriteRaw(p) \/ WriteHello(p)

Next == CallWrite \/ ServerAnswers \/ ReadAnswer \/ \E p \in Caller : Step(p)

Spec == Init /\ [][Next]_vars

-----------------------------------------------------------------------------
Numbers(n) == [i \in 1..n |-> i]
Quiet == \A p \in Caller : pc[p] = "idle"

TypeOK ==
    /\ obfs \in ObfsKinds /\ status \in {0, 1, 8} /\ {recv, answered, overlap} \subseteq BOOLEAN
    /\ held \in Seq(1..Writes) /\ toServer \in Seq(0..Finished)
    /\ arg \in [Caller -> Seq(1..Finished)] /\ written \in 0..Writes
    /\ pc \in [Caller -> {"idle", "begin", "hold", "branch", "hello", "drain", "switch",
                          "raw", "flush", "empty"}]

(* What the server is sent is the hello, for tls12 the finished message,   *)
(* and the data in the order of the Writes, each once, at every moment;    *)
(* except when a Write with data overlapped the Read that finished the     *)
(* handshake: then data may overtake the finished message (tls12), be sent *)
(* twice (random_head), or be lost to a buffer nobody empties any more.    *)
Opening == IF obfs = "tls12" THEN <<Hello, Finished>> ELSE <<Hello>>
InHandshakeOrder ==
    ~overlap =>
        LET n == Len(toServer) - Len(Opening) IN
        toServer = IF n > 0 THEN Opening \o Numbers(n) ELSE SubSeq(Opening, 1, Len(toServer))

(* When the handshake is over and no call is under way, everything that    *)
(* was written has been sent, with the same exception.                     *)
NothingHeld ==
    (~overlap /\ Quiet /\ status = 8) => toServer = Opening \o Numbers(written)
=============================================================================
