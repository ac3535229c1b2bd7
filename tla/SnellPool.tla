------------------------------ MODULE SnellPool ------------------------------
(***************************************************************************)
(* The connections of a snell v2 node are used again: Close ends a session *)
(* with an empty chunk and puts the connection into a bounded pool, from   *)
(* which the next session takes it (outbound/snell.go, transport/snell,    *)
(* component/pool).  The server answers the sessions of a connection one   *)
(* after the other: a command byte, the payload, and an empty chunk.  A    *)
(* chunk is read whole or not at all, except when the deadline the relay   *)
(* sets cuts a Read short.                                                 *)
(***************************************************************************)
EXTENDS Naturals, Sequences, FiniteSets

CONSTANTS
    Sessions,       \* proxied connections, each used once
    Conns,          \* connections that may be dialled
    PoolSize,       \* ten in the code
    MaxData         \* payload chunks of an answer

NoConn == "no connection"

(* What is asked of the constants.                                         *)
PoolAssumption == NoConn \notin Conns /\ PoolSize \in Nat

VARIABLES
    pool,           \* the channel of the pool
    state,          \* of a connection: "none", "open", "closed"
    reply,          \* Snell.reply
    stream,         \* chunks on their way from the server
    asked,          \* headers sent and not yet answered to the end
    begun,          \* the first of them has its command byte
    torn,           \* a Read stopped inside a chunk
    dead,           \* the server has closed the connection
    pc, conn,       \* of a session: what it does, and with which connection
    want,           \* what the Read under way looks for
    got,            \* what its Reads returned
    sent,           \* payload chunks the server sent for it
    finished,       \* the server ended the answer
    end,            \* how its last Read ended
    before          \* the sessions that used its connection earlier

connvars == <<state, reply, stream, asked, begun, torn, dead>>
sessvars == <<pc, conn, want, got, sent, finished, end, before>>
poolvars == <<pool, connvars, sessvars>>

Init ==
    /\ pool = <<>>
    /\ state = [c \in Conns |-> "none"]
    /\ reply = [c \in Conns |-> FALSE]
    /\ stream = [c \in Conns |-> <<>>]
    /\ asked = [c \in Conns |-> <<>>]
    /\ begun = [c \in Conns |-> FALSE]
    /\ torn = [c \in Conns |-> FALSE]
    /\ dead = [c \in Conns |-> FALSE]
    /\ pc = [s \in Sessions |-> "get"]
    /\ conn = [s \in Sessions |-> NoConn]
    /\ want = [s \in Sessions |-> "data"]
    /\ got = [s \in Sessions |-> <<>>]
    /\ sent = [s \in Sessions |-> 0]
    /\ finished = [s \in Sessions |-> FALSE]
    /\ end = [s \in Sessions |-> ""]
    /\ before = [s \in Sessions |-> {}]

-----------------------------------------------------------------------------
(* GetContext.                                                             *)

(* The first entry of the channel is older than fifteen seconds: closed.   *)
TakeExpired(s) ==
    /\ pc[s] = "get" /\ pool # <<>>
    /\ pool' = Tail(pool)
    /\ state' = [state EXCEPT ![Head(pool)] = "closed"]
    /\ UNCHANGED <<reply, stream, asked, begun, torn, dead, sessvars>>

\* bug: the entry is looked at and stays in the pool
RestPeeked(entries) == entries
Rest(entries) == Tail(entries)

TakeFresh(s) ==
    /\ pc[s] = "get" /\ pool # <<>>
    /\ pool' = Rest(pool)
    /\ conn' = [conn EXCEPT ![s] = Head(pool)]
    /\ pc' = [pc EXCEPT ![s] = "header"]
    /\ before' = [before EXCEPT ![s] = {t \in Sessions : conn[t] = Head(pool)}]
    /\ UNCHANGED <<connvars, want, got, sent, finished, end>>

(* The pool is empty: the factory dials.                                   *)
Dial(s) ==
    /\ pc[s] = "get" /\ pool = <<>>
    /\ \/ \E c \in Conns :
            /\ state[c] = "none"
            /\ state' = [state EXCEPT ![c] = "open"]
            /\ conn' = [conn EXCEPT ![s] = c]
            /\ pc' = [pc EXCEPT ![s] = "header"]
       \/ pc' = [pc EXCEPT ![s] = "done"] /\ UNCHANGED <<state, conn>>
    /\ UNCHANGED <<pool, reply, stream, asked, begun, torn, dead, want, got, sent, finished, end, before>>

-----------------------------------------------------------------------------
(* The session.                                                            *)

(* What the next Read looks for: Snell.Read sets reply before it reads.    *)
\* bug: the header already counts as the beginning of the reply
LooksData(c) == "data"
Looks(c) == IF reply[c] THEN "data" ELSE "byte"

WriteHeader(s) ==
    /\ pc[s] = "header"
    /\ LET c == conn[s] IN
       \/ /\ ~dead[c]
          /\ asked' = [asked EXCEPT ![c] = Append(@, s)]
          /\ pc' = [pc EXCEPT ![s] = "read"]
          /\ want' = [want EXCEPT ![s] = Looks(c)]
          /\ reply' = [reply EXCEPT ![c] = TRUE]
          /\ UNCHANGED end
       \/ /\ pc' = [pc EXCEPT ![s] = "close"]
          /\ end' = [end EXCEPT ![s] = "header"]
          /\ UNCHANGED <<asked, want, reply>>
    /\ UNCHANGED <<pool, state, stream, begun, torn, dead, conn, got, sent, finished, before>>

Chunk(s, kind) == [session |-> s, kind |-> kind]

Stops(s, why) ==
    /\ pc' = [pc EXCEPT ![s] = "close"]
    /\ end' = [end EXCEPT ![s] = why]
    /\ UNCHANGED <<want, got>>

LooksFor(s, what) == want' = [want EXCEPT ![s] = what] /\ UNCHANGED <<pc, got, end>>

(* ErrZeroChunk where the command should be: the end of the session before *)
(* came late, and PoolConn.Read reads once more.                           *)
\* bug: the error is handed on as it is
ZeroFirstHanded(s) == Stops(s, "zero")
ZeroFirst(s) == IF want[s] = "byte" THEN LooksFor(s, "again") ELSE Stops(s, "zero")

(* One chunk of PoolConn.Read.  In place of the command there may be       *)
(* payload of an earlier session: its first byte decides, and when it      *)
(* happens to say "tunnel" the rest of the chunk is taken for payload.     *)
Read(s) ==
    /\ pc[s] = "read"
    /\ LET c == conn[s]  chunk == Head(stream[c])  seek == want[s] IN
       /\ ~torn[c] /\ stream[c] # <<>>
       /\ \/ /\ seek = "data" /\ chunk.kind \in {"data", "command", "error"}
             /\ got' = [got EXCEPT ![s] = Append(@, chunk)]
             /\ UNCHANGED <<pc, want, end>>
          \/ seek = "data" /\ chunk.kind = "zero" /\ Stops(s, "zero")
          \/ seek # "data" /\ chunk.kind = "zero" /\ ZeroFirst(s)
          \/ seek # "data" /\ chunk.kind = "command" /\ LooksFor(s, "data")
          \/ seek # "data" /\ chunk.kind = "error" /\ Stops(s, "error")
          \/ seek # "data" /\ chunk.kind = "data" /\ (Stops(s, "error") \/ LooksFor(s, "data"))
       /\ stream' = [stream EXCEPT ![c] =
             IF seek # "data" /\ chunk.kind = "data" /\ want'[s] = "data" THEN @ ELSE Tail(@)]
    /\ UNCHANGED <<pool, state, reply, asked, begun, torn, dead, conn, sent, finished, before>>

(* Decryption fails, or the connection has ended.                          *)
ReadError(s) ==
    /\ pc[s] = "read"
    /\ torn[conn[s]] \/ (dead[conn[s]] /\ stream[conn[s]] = <<>>)
    /\ Stops(s, "error")
    /\ UNCHANGED <<pool, connvars, conn, sent, finished, before>>

(* The other direction has ended: relay sets a deadline in the past.       *)
Interrupt(s) ==
    /\ pc[s] = "read"
    /\ Stops(s, "interrupted")
    /\ \/ UNCHANGED torn
       \/ stream[conn[s]] # <<>> /\ torn' = [torn EXCEPT ![conn[s]] = TRUE]
    /\ UNCHANGED <<pool, state, reply, stream, asked, begun, dead, conn, sent, finished, before>>

\* bug: a full pool takes the connection all the same
HasRoomAlways == Len(pool) <= PoolSize
HasRoom == Len(pool) < PoolSize

(* PoolConn.Close: half-close, and into the pool if that worked and there  *)
(* is room.                                                                *)
Close(s) ==
    /\ pc[s] = "close"
    /\ LET c == conn[s] IN
       \/ /\ reply' = [reply EXCEPT ![c] = FALSE]
          /\ IF HasRoom
             THEN pool' = Append(pool, c) /\ UNCHANGED state
             ELSE state' = [state EXCEPT ![c] = "closed"] /\ UNCHANGED pool
       \/ /\ state' = [state EXCEPT ![c] = "closed"]
          /\ UNCHANGED <<pool, reply>>
    /\ pc' = [pc EXCEPT ![s] = "done"]
    /\ UNCHANGED <<stream, asked, begun, torn, dead, conn, want, got, sent, finished, end, before>>

-----------------------------------------------------------------------------
(* The server.                                                             *)

ServerSends(c) ==
    /\ state[c] = "open" /\ ~dead[c] /\ asked[c] # <<>>
    /\ LET s == Head(asked[c])
           Sends(kind) == stream' = [stream EXCEPT ![c] = Append(@, Chunk(s, kind))]
       IN  \/ /\ ~begun[c]
              /\ Sends("command") \/ (Sends("error") /\ MaxData > 0)
              /\ begun' = [begun EXCEPT ![c] = TRUE]
              /\ UNCHANGED <<asked, sent, finished>>
           \/ /\ begun[c] /\ sent[s] < MaxData
              /\ Sends("data")
              /\ sent' = [sent EXCEPT ![s] = @ + 1]
              /\ UNCHANGED <<asked, begun, finished>>
           \/ /\ begun[c]
              /\ Sends("zero")
              /\ asked' = [asked EXCEPT ![c] = Tail(@)]
              /\ begun' = [begun EXCEPT ![c] = FALSE]
              /\ finished' = [finished EXCEPT ![s] = TRUE]
              /\ UNCHANGED sent
    /\ UNCHANGED <<pool, state, reply, torn, dead, pc, conn, want, got, end, before>>

ServerCloses(c) ==
    /\ state[c] = "open" /\ ~dead[c]
    /\ dead' = [dead EXCEPT ![c] = TRUE]
    /\ UNCHANGED <<pool, state, reply, stream, asked, begun, torn, sessvars>>

Next ==
    \/ \E s \in Sessions :
        \/ TakeExpired(s) \/ TakeFresh(s) \/ Dial(s)
        \/ WriteHeader(s) \/ Read(s) \/ ReadError(s) \/ Interrupt(s) \/ Close(s)
    \/ \E c \in Conns : ServerSends(c) \/ ServerCloses(c)

Spec == Init /\ [][Next]_poolvars

-----------------------------------------------------------------------------
(* Properties.                                                             *)

Holds(s) == pc[s] \in {"header", "read", "close"}

(* Every variable has its values; a session that works has a connection.   *)
TypeOK ==
    /\ pool \in Seq(Conns)
    /\ state \in [Conns -> {"none", "open", "closed"}]
    /\ reply \in [Conns -> BOOLEAN] /\ begun \in [Conns -> BOOLEAN]
    /\ torn \in [Conns -> BOOLEAN] /\ dead \in [Conns -> BOOLEAN]
    /\ pc \in [Sessions -> {"get", "header", "read", "close", "done"}]
    /\ conn \in [Sessions -> Conns \cup {NoConn}]
    /\ want \in [Sessions -> {"byte", "again", "data"}]
    /\ \A s \in Sessions : Holds(s) => conn[s] # NoConn
    /\ Len(pool) <= PoolSize

(* A connection has one user at a time: never two sessions, never a        *)
(* session and the pool, and never twice in the pool; what is in use or in *)
(* the pool is open.                                                       *)
OneUser ==
    /\ \A s, t \in Sessions : s # t /\ Holds(s) /\ Holds(t) => conn[s] # conn[t]
    /\ \A s \in Sessions : Holds(s) => \A i \in 1..Len(pool) : pool[i] # conn[s]
    /\ \A i, j \in 1..Len(pool) : i # j => pool[i] # pool[j]
    /\ \A s \in Sessions : Holds(s) => state[conn[s]] = "open"
    /\ \A i \in 1..Len(pool) : state[pool[i]] = "open"

(* The command byte and all the payload the server ever sends for it have  *)
(* been read; the empty chunk at the end need not have been.               *)
ReadAll(s) == finished[s] /\ want[s] = "data" /\ Len(got[s]) = sent[s]
NothingToCome(s) == end[s] = "header" \/ ReadAll(s)

(* A session reads its own payload, in order and nothing else, unless one  *)
(* of the sessions that had the connection before was closed with part of  *)
(* its answer still to come: then that may be taken for this answer.       *)
OwnReply ==
    \A s \in Sessions :
        (\A t \in before[s] : NothingToCome(t)) =>
            /\ \A i \in 1..Len(got[s]) : got[s][i] = Chunk(s, "data")
            /\ Len(got[s]) <= sent[s]

(* Under the same condition a session that saw the answer end got all of   *)
(* it, though the end of the session before may still have been under way. *)
WholeReply ==
    \A s \in Sessions :
        end[s] = "zero" /\ (\A t \in before[s] : NothingToCome(t)) => ReadAll(s)
=============================================================================
