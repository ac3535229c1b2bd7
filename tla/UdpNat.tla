-------------------------------- MODULE UdpNat --------------------------------
(***************************************************************************)
(* UDP through the tunnel (tunnel/tunnel.go, connection.go, nat/table.go). *)
(* Several workers take packets from one queue.  The first packet of a     *)
(* source address opens a connection and enters it in the table; packets   *)
(* that come meanwhile wait on a condition variable kept in the same table *)
(* under another key.  One goroutine per connection reads the answers and  *)
(* takes the entry out again when it fails or sixty quiet seconds pass.    *)
(***************************************************************************)
EXTENDS Naturals, FiniteSets

CONSTANTS
    Keys,           \* source addresses
    Packets,        \* packets that arrive
    Sources,        \* which source address each may have
    Conns           \* packet connections that may be opened

None == "none"

(* What is asked of the constants: the source of a packet is a key, and    *)
(* "none" is neither a packet nor a connection.                            *)
NatAssumption ==
    /\ Sources \subseteq [Packets -> Keys]
    /\ None \notin Packets /\ None \notin Conns

VARIABLES
    key,            \* the source address of each packet
    table,          \* the entry of each key
    lock,           \* the condition variable of each key: the packet that made it
    pc,             \* where the handling of each packet is
    after,          \* where it goes on after writing
    conn,           \* the connection it found or opened
    cond,           \* the condition variable it waits on
    missed,         \* it began to wait after the only Broadcast
    told,           \* the creator has called Broadcast
    state, owner,   \* of a connection: "none", "open", "closed"; its key
    reader,         \* its goroutine: "none", "reads", "closed", "done"
    late,           \* it was entered after its goroutine had ended
    written         \* the connection through which each packet left

packetvars == <<pc, after, conn, cond, missed, told, written>>
connvars == <<state, owner, reader, late>>
vars == <<key, table, lock, packetvars, connvars>>

Init ==
    /\ key \in Sources
    /\ table = [k \in Keys |-> None]
    /\ lock = [k \in Keys |-> None]
    /\ pc = [p \in Packets |-> "check"]
    /\ after = [p \in Packets |-> "done"]
    /\ conn = [p \in Packets |-> None]
    /\ cond = [p \in Packets |-> None]
    /\ missed = [p \in Packets |-> FALSE]
    /\ told = [p \in Packets |-> FALSE]
    /\ state = [c \in Conns |-> "none"]
    /\ owner = [c \in Conns |-> None]
    /\ reader = [c \in Conns |-> "none"]
    /\ late = [c \in Conns |-> FALSE]
    /\ written = [p \in Packets |-> None]

Goes(p, where) == pc' = [pc EXCEPT ![p] = where]

-----------------------------------------------------------------------------
(* handleUDPConn.                                                          *)

(* handle: look the key up; write if there is an entry, go on otherwise.   *)
Handle(p, then, otherwise) ==
    LET c == table[key[p]] IN
    /\ IF c # None
       THEN Goes(p, "write") /\ conn' = [conn EXCEPT ![p] = c] /\ after' = [after EXCEPT ![p] = then]
       ELSE Goes(p, otherwise) /\ UNCHANGED <<conn, after>>
    /\ UNCHANGED <<key, table, lock, cond, missed, told, written, connvars>>

Check(p) == pc[p] = "check" /\ Handle(p, "done", "lock")

(* handleUDPToRemote: the name may not resolve and the write may fail; it  *)
(* must fail on a closed connection.                                       *)
Write(p) ==
    /\ pc[p] = "write"
    /\ Goes(p, after[p])
    /\ \/ state[conn[p]] = "open" /\ written' = [written EXCEPT ![p] = conn[p]]
       \/ UNCHANGED written
    /\ UNCHANGED <<key, table, lock, after, conn, cond, missed, told, connvars>>

(* GetOrCreateLock.                                                        *)
\* bug: the lock is stored even when there is one
GetOrCreateLockStored(p) == None
GetOrCreateLock(p) == lock[key[p]]
Lock(p) ==
    /\ pc[p] = "lock"
    /\ LET found == GetOrCreateLock(p) IN
       IF found = None
       THEN /\ lock' = [lock EXCEPT ![key[p]] = p]
            /\ Goes(p, "create")
            /\ UNCHANGED cond
       ELSE /\ cond' = [cond EXCEPT ![p] = found]
            /\ Goes(p, "before wait")
            /\ UNCHANGED lock
    /\ UNCHANGED <<key, table, after, conn, missed, told, written, connvars>>

-----------------------------------------------------------------------------
(* The goroutine of a packet that found the lock taken.                    *)

(* A waiter that was woken handles its packet with cond.L held.            *)
Holding(p) == pc[p] = "recheck" \/ (pc[p] = "write" /\ after[p] = "unlock") \/ pc[p] = "unlock"
Free(l) == \A q \in Packets : cond[q] = l => ~Holding(q)

Wait(p) ==
    /\ pc[p] = "before wait" /\ Free(cond[p])
    /\ Goes(p, "waiting")
    /\ missed' = [missed EXCEPT ![p] = told[cond[p]]]
    /\ UNCHANGED <<key, table, lock, after, conn, cond, told, written, connvars>>

Wake(p) ==
    /\ pc[p] = "woken" /\ Free(cond[p])
    /\ Goes(p, "recheck")
    /\ UNCHANGED <<key, table, lock, after, conn, cond, missed, told, written, connvars>>

Recheck(p) == pc[p] = "recheck" /\ Handle(p, "unlock", "unlock")

Unlock(p) ==
    /\ pc[p] = "unlock"
    /\ Goes(p, "done")
    /\ UNCHANGED <<key, table, lock, after, conn, cond, missed, told, written, connvars>>

-----------------------------------------------------------------------------
(* The goroutine of the packet that made the lock.                         *)

(* No rule, no node or no socket: the packet is dropped.                   *)
CreateFails(p) ==
    /\ pc[p] = "create"
    /\ Goes(p, "release")
    /\ UNCHANGED <<key, table, lock, after, conn, cond, missed, told, written, connvars>>

\* bug: the goroutine is started only after the packet is written
StartedLater(c) == reader
Started(c) == [reader EXCEPT ![c] = "reads"]

\* bug: the connection is shadowed by the one of an inner block
OpenedShadowed(p, c) == conn
Opened(p, c) == [conn EXCEPT ![p] = c]

(* ListenPacketContext succeeds; the reading goroutine starts at once.     *)
Create(p) ==
    /\ pc[p] = "create"
    /\ \E c \in Conns :
        /\ state[c] = "none"
        /\ state' = [state EXCEPT ![c] = "open"]
        /\ owner' = [owner EXCEPT ![c] = key[p]]
        /\ reader' = Started(c)
        /\ conn' = Opened(p, c)
    /\ Goes(p, "set")
    /\ UNCHANGED <<key, table, lock, after, cond, missed, told, late, written>>

\* bug: the entry is made for the destination
EntryKeyOther(p) == CHOOSE k \in Keys : TRUE
EntryKey(p) == key[p]

(* natTable.Set.                                                           *)
Set(p) ==
    /\ pc[p] = "set"
    /\ table' = [table EXCEPT ![EntryKey(p)] = conn[p]]
    /\ late' = [late EXCEPT ![conn[p]] = reader[conn[p]] = "done"]
    /\ Goes(p, "first")
    /\ UNCHANGED <<key, lock, after, conn, cond, missed, told, state, owner, reader, written>>

First(p) == pc[p] = "first" /\ Handle(p, "release", "release")

(* The deferred function: the lock goes first, then the waiters are woken. *)
Release(p) ==
    /\ pc[p] = "release"
    /\ lock' = [lock EXCEPT ![key[p]] = None]
    /\ Goes(p, "broadcast")
    /\ UNCHANGED <<key, table, after, conn, cond, missed, told, written, connvars>>

\* bug: Signal in place of Broadcast
AwakenedOne(p) ==
    LET waiting == {q \in Packets : pc[q] = "waiting" /\ cond[q] = p} IN
    IF waiting = {} THEN {} ELSE {CHOOSE q \in waiting : TRUE}
Awakened(p) == {q \in Packets : pc[q] = "waiting" /\ cond[q] = p}
Broadcast(p) ==
    /\ pc[p] = "broadcast"
    /\ pc' = [q \in Packets |->
                IF q = p THEN "done" ELSE IF q \in Awakened(p) THEN "woken" ELSE pc[q]]
    /\ told' = [told EXCEPT ![p] = TRUE]
    /\ UNCHANGED <<key, table, lock, after, conn, cond, missed, written, connvars>>

-----------------------------------------------------------------------------
(* handleUDPToLocal.                                                       *)

(* ReadFrom or WriteBack fails, or the deadline passes: Close comes first. *)
ReaderFails(c) ==
    /\ reader[c] = "reads"
    /\ reader' = [reader EXCEPT ![c] = "closed"]
    /\ state' = [state EXCEPT ![c] = "closed"]
    /\ UNCHANGED <<key, table, lock, packetvars, owner, late>>

\* bug: the goroutine leaves its entry to the next one
WithoutKept(k) == table
Without(k) == [table EXCEPT ![k] = None]

(* Then the entry of the key is deleted, whatever it holds by now.         *)
ReaderLeaves(c) ==
    /\ reader[c] = "closed"
    /\ reader' = [reader EXCEPT ![c] = "done"]
    /\ table' = Without(owner[c])
    /\ UNCHANGED <<key, lock, packetvars, state, owner, late>>

PacketStep(p) ==
    \/ Check(p) \/ Write(p) \/ Lock(p)
    \/ Wait(p) \/ Wake(p) \/ Recheck(p) \/ Unlock(p)
    \/ CreateFails(p) \/ Create(p) \/ Set(p) \/ First(p) \/ Release(p) \/ Broadcast(p)
ReaderStep(c) == ReaderFails(c) \/ ReaderLeaves(c)

Next == (\E p \in Packets : PacketStep(p)) \/ (\E c \in Conns : ReaderStep(c))

Spec == Init /\ [][Next]_vars

(* Goroutines run on, opening a connection is bounded by a time limit, and *)
(* a quiet connection reaches its read deadline.                           *)
Fairness ==
    /\ \A p \in Packets : WF_vars(PacketStep(p))
    /\ \A c \in Conns : WF_vars(ReaderStep(c))

FairSpec == Spec /\ Fairness

-----------------------------------------------------------------------------
(* Properties.                                                             *)

Creating(p) ==
    pc[p] \in {"create", "set", "first", "release"} \/ (pc[p] = "write" /\ after[p] = "release")

(* Every variable has its values.                                          *)
TypeOK ==
    /\ key \in [Packets -> Keys]
    /\ table \in [Keys -> Conns \cup {None}]
    /\ lock \in [Keys -> Packets \cup {None}]
    /\ pc \in [Packets -> {"check", "write", "lock", "before wait", "waiting", "woken", "recheck", "unlock",
                           "create", "set", "first", "release", "broadcast", "done"}]
    /\ after \in [Packets -> {"done", "unlock", "release"}]
    /\ conn \in [Packets -> Conns \cup {None}]
    /\ cond \in [Packets -> Packets \cup {None}]
    /\ missed \in [Packets -> BOOLEAN] /\ told \in [Packets -> BOOLEAN]
    /\ state \in [Conns -> {"none", "open", "closed"}]
    /\ owner \in [Conns -> Keys \cup {None}]
    /\ reader \in [Conns -> {"none", "reads", "closed", "done"}]
    /\ late \in [Conns -> BOOLEAN]
    /\ written \in [Packets -> Conns \cup {None}]
    /\ \A p \in Packets : pc[p] \in {"write", "set"} => conn[p] # None
    /\ \A p \in Packets : pc[p] \in {"before wait", "waiting", "woken"} => cond[p] # None

(* The lock in the table keeps creators of one key apart: a packet opens a *)
(* connection only while the lock is its own, so there is one at a time.   *)
OneCreator == \A p \in Packets : Creating(p) => lock[key[p]] = p

(* A packet leaves only through a connection of its own source address:    *)
(* answers go back to where the connection came from.                      *)
OwnConnection ==
    /\ \A p \in Packets : written[p] # None => owner[written[p]] = key[p]
    /\ \A k \in Keys : table[k] # None => owner[table[k]] = k

(* The table holds a closed connection for good, and every later packet of *)
(* that source is lost, only if the connection's goroutine had ended       *)
(* before the entry was made (the goroutine starts first).                 *)
DeadEntryWasLate ==
    \A k \in Keys : table[k] # None /\ reader[table[k]] = "done" => late[table[k]]

(* Every open connection has the goroutine that will close it.             *)
OpenIsRead == \A c \in Conns : state[c] = "open" => reader[c] = "reads"

(* Handling a packet ends, except for a packet that began to wait after    *)
(* the creator had deleted the lock and called Broadcast: the creator does *)
(* both without cond.L, and nobody wakes that packet again.                *)
PacketsHandled == \A p \in Packets : pc[p] = "done" \/ (pc[p] = "waiting" /\ missed[p])
=============================================================================
