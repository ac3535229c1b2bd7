------------------------------ MODULE CarryProofs ------------------------------
(***************************************************************************)
(* Proofs about the instances of MCCarry, for every value of its           *)
(* constants: the table of the packets (U, UdpNat) for any number of       *)
(* packets, source addresses and connections, and the pool of snell        *)
(* connections (S, SnellPool) for any number of sessions and connections,  *)
(* any size of the pool and answers of any length, and the resolver (D,    *)
(* Dns) for any number of requests, questions and servers and any          *)
(* configurations, and the handshakes of the listeners (I, Inbound) for    *)
(* any number of connections, clients and users, and the calls of the      *)
(* adapters (O, Outbound) for every node, with an invariant that ties the  *)
(* steps taken to the plan, and the handshakes inside Read (H, Handshake)  *)
(* for any number of Writes; then that all hold of the composition         *)
(* (CarrySpec), with what FramingProofs proves of the streams.             *)
(***************************************************************************)
EXTENDS MCCarry, FramingProofs, SequenceTheorems, WellFoundedInduction, TLAPS

-----------------------------------------------------------------------------
(* UdpNat.                                                                 *)

(* Looking the key up leads to writing, or on, within the types.           *)
LEMMA HandleType ==
    ASSUME U!NatAssumption, U!TypeOK, NEW p \in Packets, NEW then \in {"done", "unlock", "release"},
           NEW otherwise \in {"lock", "unlock", "release"}, U!Handle(p, then, otherwise)
    PROVE  U!TypeOK'
<1> DEFINE c == table[key[p]]
<1>1. c \in NatConns \cup {U!None}
  BY DEF U!TypeOK
<1>2. UNCHANGED <<key, table, lock, cond, missed, told, leftBy, natState, owner, reader, late>>
  BY DEF U!Handle, U!connvars
<1>3. CASE c # U!None
  <2>1. /\ natPc' = [natPc EXCEPT ![p] = "write"] /\ natConn' = [natConn EXCEPT ![p] = c]
        /\ after' = [after EXCEPT ![p] = then]
    BY <1>3 DEF U!Handle, U!Goes
  <2> HIDE DEF c
  <2>2. QED
    BY <1>1, <1>2, <1>3, <2>1 DEF U!TypeOK
<1>4. CASE c = U!None
  <2>1. natPc' = [natPc EXCEPT ![p] = otherwise] /\ natConn' = natConn /\ after' = after
    BY <1>4 DEF U!Handle, U!Goes
  <2>2. QED
    BY <1>2, <2>1 DEF U!TypeOK
<1>5. QED
  BY <1>3, <1>4

(* The type invariant.                                                     *)
THEOREM TypeCorrect == ASSUME U!NatAssumption PROVE U!Spec => []U!TypeOK
<1> USE DEF U!NatAssumption
<1>1. U!Init => U!TypeOK
  BY DEF U!Init, U!TypeOK
<1>2. U!TypeOK /\ [U!Next]_(U!vars) => U!TypeOK'
  <2> SUFFICES ASSUME U!TypeOK, [U!Next]_(U!vars) PROVE U!TypeOK'
    OBVIOUS
  <2> USE DEF U!TypeOK, U!Goes, U!packetvars, U!connvars
  <2>1. ASSUME NEW p \in Packets, U!Check(p) PROVE U!TypeOK'
    BY <2>1, HandleType DEF U!Check
  <2>2. ASSUME NEW p \in Packets, U!Recheck(p) PROVE U!TypeOK'
    BY <2>2, HandleType DEF U!Recheck
  <2>3. ASSUME NEW p \in Packets, U!First(p) PROVE U!TypeOK'
    BY <2>3, HandleType DEF U!First
  <2>4. ASSUME NEW p \in Packets, U!Write(p) PROVE U!TypeOK'
    BY <2>4 DEF U!Write
  <2>5. ASSUME NEW p \in Packets, U!Lock(p) PROVE U!TypeOK'
    <3>1. key[p] \in Keys /\ lock[key[p]] \in Packets \cup {U!None}
      OBVIOUS
    <3>2. CASE lock[key[p]] = U!None
      <4>1. lock' = [lock EXCEPT ![key[p]] = p] /\ natPc' = [natPc EXCEPT ![p] = "create"] /\ cond' = cond
        BY <2>5, <3>2 DEF U!Lock, U!GetOrCreateLock
      <4>2. QED
        BY <2>5, <3>1, <4>1 DEF U!Lock
    <3>3. CASE lock[key[p]] # U!None
      <4>1. /\ cond' = [cond EXCEPT ![p] = lock[key[p]]] /\ natPc' = [natPc EXCEPT ![p] = "before wait"]
            /\ lock' = lock
        BY <2>5, <3>3 DEF U!Lock, U!GetOrCreateLock
      <4>2. QED
        BY <2>5, <3>1, <3>3, <4>1 DEF U!Lock
    <3>4. QED
      BY <3>2, <3>3
  <2>6. ASSUME NEW p \in Packets, U!Wait(p) PROVE U!TypeOK'
    BY <2>6 DEF U!Wait
  <2>7. ASSUME NEW p \in Packets, U!Wake(p) PROVE U!TypeOK'
    BY <2>7 DEF U!Wake
  <2>8. ASSUME NEW p \in Packets, U!Unlock(p) PROVE U!TypeOK'
    BY <2>8 DEF U!Unlock
  <2>9. ASSUME NEW p \in Packets, U!CreateFails(p) PROVE U!TypeOK'
    BY <2>9 DEF U!CreateFails
  <2>10. ASSUME NEW p \in Packets, U!Release(p) PROVE U!TypeOK'
    BY <2>10 DEF U!Release
  <2>11. ASSUME NEW p \in Packets, U!Create(p) PROVE U!TypeOK'
    <3>1. PICK c \in NatConns :
             /\ natState' = [natState EXCEPT ![c] = "open"] /\ owner' = [owner EXCEPT ![c] = key[p]]
             /\ reader' = [reader EXCEPT ![c] = "reads"] /\ natConn' = [natConn EXCEPT ![p] = c]
      BY <2>11 DEF U!Create, U!Started, U!Opened
    <3>2. key[p] \in Keys /\ c # U!None
      OBVIOUS
    <3>3. QED
      BY <2>11, <3>1, <3>2 DEF U!Create
  <2>12. ASSUME NEW p \in Packets, U!Set(p) PROVE U!TypeOK'
    BY <2>12 DEF U!Set, U!EntryKey
  <2>13. ASSUME NEW p \in Packets, U!Broadcast(p) PROVE U!TypeOK'
    BY <2>13 DEF U!Broadcast, U!Awakened
  <2>14. ASSUME NEW c \in NatConns, U!ReaderFails(c) PROVE U!TypeOK'
    BY <2>14 DEF U!ReaderFails
  <2>15. ASSUME NEW c \in NatConns, U!ReaderLeaves(c) PROVE U!TypeOK'
    BY <2>15 DEF U!ReaderLeaves, U!Without
  <2>16. CASE UNCHANGED U!vars
    BY <2>16 DEF U!vars
  <2>17. QED
    BY <2>1, <2>2, <2>3, <2>4, <2>5, <2>6, <2>7, <2>8, <2>9, <2>10, <2>11, <2>12, <2>13, <2>14, <2>15, <2>16
       DEF U!Next, U!PacketStep, U!ReaderStep
<1>3. QED
  BY <1>1, <1>2, PTL DEF U!Spec

(* However many packets of one source come at once, only the one that made *)
(* the lock of the source opens a connection.                              *)
THEOREM CreatorIsAlone == ASSUME U!NatAssumption PROVE U!Spec => []U!OneCreator
<1>1. U!Init => U!OneCreator
  BY DEF U!Init, U!OneCreator, U!Creating
<1>2. U!TypeOK /\ U!OneCreator /\ [U!Next]_(U!vars) => U!OneCreator'
  <2> SUFFICES ASSUME U!TypeOK, U!OneCreator, [U!Next]_(U!vars) PROVE U!OneCreator'
    OBVIOUS
  <2> USE DEF U!NatAssumption, U!TypeOK, U!OneCreator, U!Creating, U!Goes, U!packetvars, U!connvars
  <2>1. ASSUME NEW p \in Packets, U!Check(p) \/ U!Recheck(p) \/ U!First(p) PROVE U!OneCreator'
    <3>1. key' = key /\ lock' = lock
      BY <2>1 DEF U!Check, U!Recheck, U!First, U!Handle
    <3>2. \/ natPc[p] \in {"check", "recheck"} /\ natPc'[p] = "write" /\ after'[p] \in {"done", "unlock"}
          \/ natPc[p] \in {"check", "recheck"} /\ natPc'[p] \in {"lock", "unlock"}
          \/ natPc[p] = "first"
      BY <2>1 DEF U!Check, U!Recheck, U!First, U!Handle
    <3>3. \A o \in Packets \ {p} : natPc'[o] = natPc[o] /\ after'[o] = after[o]
      <4>1. ASSUME NEW then, NEW otherwise, U!Handle(p, then, otherwise)
            PROVE  \A o \in Packets \ {p} : natPc'[o] = natPc[o] /\ after'[o] = after[o]
        <5>1. /\ natPc' = [natPc EXCEPT ![p] = "write"] \/ natPc' = [natPc EXCEPT ![p] = otherwise]
              /\ after' = [after EXCEPT ![p] = then] \/ after' = after
          BY <4>1 DEF U!Handle
        <5>2. QED
          BY <5>1
      <4>2. QED
        <5> HIDE DEF U!TypeOK, U!Creating, U!OneCreator, U!Goes
        <5> QED
          BY <2>1, <4>1 DEF U!Check, U!Recheck, U!First
    <3>4. QED
      BY <3>1, <3>2, <3>3
  <2>2. ASSUME NEW p \in Packets, U!Write(p) PROVE U!OneCreator'
    BY <2>2 DEF U!Write
  <2>3. ASSUME NEW p \in Packets, U!Lock(p) PROVE U!OneCreator'
    <3>1. CASE lock[key[p]] = U!None
      <4>1. lock' = [lock EXCEPT ![key[p]] = p] /\ natPc' = [natPc EXCEPT ![p] = "create"]
            /\ key' = key /\ after' = after
        BY <2>3, <3>1 DEF U!Lock, U!GetOrCreateLock
      <4>2. \A o \in Packets : U!Creating(o) => key[o] # key[p]
        BY <3>1
      <4>3. QED
        BY <4>1, <4>2
    <3>2. CASE lock[key[p]] # U!None
      BY <2>3, <3>2 DEF U!Lock, U!GetOrCreateLock
    <3>3. QED
      BY <3>1, <3>2
  <2>4. ASSUME NEW p \in Packets, U!Wait(p) \/ U!Wake(p) \/ U!Unlock(p) \/ U!CreateFails(p)
        PROVE U!OneCreator'
    <3>1. UNCHANGED <<key, lock, after>>
      BY <2>4 DEF U!Wait, U!Wake, U!Unlock, U!CreateFails
    <3>2. \/ natPc' = [natPc EXCEPT ![p] = "release"] /\ natPc[p] = "create"
          \/ \E where \in {"waiting", "recheck", "done"} : natPc' = [natPc EXCEPT ![p] = where]
      <4>1. CASE U!Wait(p) \/ U!Wake(p)
        BY <4>1 DEF U!Wait, U!Wake
      <4>2. CASE U!Unlock(p) \/ U!CreateFails(p)
        BY <4>2 DEF U!Unlock, U!CreateFails
      <4>3. QED
        BY <2>4, <4>1, <4>2
    <3>3. QED
      BY <3>1, <3>2
  <2>5. ASSUME NEW p \in Packets, U!Create(p) \/ U!Set(p) PROVE U!OneCreator'
    BY <2>5 DEF U!Create, U!Set
  <2>6. ASSUME NEW p \in Packets, U!Release(p) PROVE U!OneCreator'
    <3>1. /\ lock' = [lock EXCEPT ![key[p]] = U!None] /\ natPc' = [natPc EXCEPT ![p] = "broadcast"]
          /\ key' = key /\ after' = after /\ lock[key[p]] = p
      BY <2>6 DEF U!Release
    <3>2. \A o \in Packets : o # p /\ U!Creating(o) => key[o] # key[p]
      BY <3>1
    <3>3. QED
      BY <3>1, <3>2
  <2>7. ASSUME NEW p \in Packets, U!Broadcast(p) PROVE U!OneCreator'
    BY <2>7 DEF U!Broadcast, U!Awakened
  <2>8. ASSUME NEW c \in NatConns, U!ReaderFails(c) \/ U!ReaderLeaves(c) PROVE U!OneCreator'
    BY <2>8 DEF U!ReaderFails, U!ReaderLeaves
  <2>9. CASE UNCHANGED U!vars
    BY <2>9 DEF U!vars
  <2>10. QED
    BY <2>1, <2>2, <2>3, <2>4, <2>5, <2>6, <2>7, <2>8, <2>9 DEF U!Next, U!PacketStep, U!ReaderStep
<1>3. QED
  BY <1>1, <1>2, TypeCorrect, PTL DEF U!Spec

(* Wherever a connection is kept, it has been opened, and for that key.    *)
OwnInv ==
    /\ U!OwnConnection
    /\ \A p \in Packets : natConn[p] # U!None => owner[natConn[p]] = key[p] /\ natState[natConn[p]] # "none"
    /\ \A p \in Packets : leftBy[p] # U!None => natState[leftBy[p]] # "none"
    /\ \A k \in Keys : table[k] # U!None => natState[table[k]] # "none"

(* A packet leaves only through a connection opened for its own source.    *)
THEOREM ConnectionsStayApart == ASSUME U!NatAssumption PROVE U!Spec => []U!OwnConnection
<1>1. U!Init => OwnInv
  BY DEF U!Init, OwnInv, U!OwnConnection
<1>2. U!TypeOK /\ OwnInv /\ [U!Next]_(U!vars) => OwnInv'
  <2> SUFFICES ASSUME U!TypeOK, OwnInv, [U!Next]_(U!vars) PROVE OwnInv'
    OBVIOUS
  <2> USE DEF OwnInv, U!OwnConnection
  <2>0. /\ \A o \in Packets : /\ key[o] \in Keys /\ natConn[o] \in NatConns \cup {U!None}
                              /\ leftBy[o] \in NatConns \cup {U!None}
        /\ \A k \in Keys : table[k] \in NatConns \cup {U!None}
    BY DEF U!TypeOK
  <2>1. ASSUME NEW p \in Packets, U!Check(p) \/ U!Recheck(p) \/ U!First(p) PROVE OwnInv'
    <3>1. UNCHANGED <<key, table, leftBy, natState, owner>>
      BY <2>1 DEF U!Check, U!Recheck, U!First, U!Handle, U!connvars
    <3>2. \A o \in Packets : natConn'[o] = natConn[o] \/ (o = p /\ natConn'[o] = table[key[o]])
      <4>1. natConn' = natConn \/ natConn' = [natConn EXCEPT ![p] = table[key[p]]]
        BY <2>1 DEF U!Check, U!Recheck, U!First, U!Handle
      <4>2. CASE natConn' = natConn
        BY <4>2
      <4>3. CASE natConn' = [natConn EXCEPT ![p] = table[key[p]]]
        BY <4>3 DEF U!TypeOK
      <4>4. QED
        BY <4>1, <4>2, <4>3
    <3>3. \A o \in Packets : natConn'[o] # U!None => owner[natConn'[o]] = key[o] /\ natState[natConn'[o]] # "none"
      BY <2>0, <3>2
    <3>4. QED
      BY <3>1, <3>3
  <2>2. ASSUME NEW p \in Packets, U!Write(p) PROVE OwnInv'
    <3>1. UNCHANGED <<key, table, natConn, natState, owner>>
      BY <2>2 DEF U!Write, U!connvars
    <3>2. \A o \in Packets : leftBy'[o] = leftBy[o] \/ (leftBy'[o] = natConn[o] /\ natConn[o] # U!None)
      <4>1. leftBy' = leftBy \/ leftBy' = [leftBy EXCEPT ![p] = natConn[p]]
        BY <2>2 DEF U!Write
      <4>2. natConn[p] # U!None
        BY <2>2 DEF U!Write, U!TypeOK
      <4>3. CASE leftBy' = leftBy
        BY <4>3
      <4>4. CASE leftBy' = [leftBy EXCEPT ![p] = natConn[p]]
        BY <4>2, <4>4 DEF U!TypeOK
      <4>5. QED
        BY <4>1, <4>3, <4>4
    <3>3. \A o \in Packets :
             leftBy'[o] # U!None => owner[leftBy'[o]] = key[o] /\ natState[leftBy'[o]] # "none"
      BY <3>2
    <3>4. QED
      BY <3>1, <3>3
  <2>3. ASSUME NEW p \in Packets, U!Create(p) PROVE OwnInv'
    <3>1. PICK c \in NatConns :
             /\ natState[c] = "none" /\ natState' = [natState EXCEPT ![c] = "open"]
             /\ owner' = [owner EXCEPT ![c] = key[p]] /\ natConn' = [natConn EXCEPT ![p] = c]
      BY <2>3 DEF U!Create, U!Opened
    <3>2. UNCHANGED <<key, table, leftBy>>
      BY <2>3 DEF U!Create
    <3>3. /\ owner'[c] = key[p] /\ natState'[c] = "open"
          /\ \A d \in NatConns \ {c} : owner'[d] = owner[d] /\ natState'[d] = natState[d]
      BY <3>1 DEF U!TypeOK
    <3>4. natConn'[p] = c /\ \A o \in Packets \ {p} : natConn'[o] = natConn[o]
      BY <3>1 DEF U!TypeOK
    <3>5. \A o \in Packets \ {p} : natConn[o] # U!None => natConn[o] \in NatConns \ {c}
      BY <2>0, <3>1
    <3>6. \A o \in Packets : leftBy[o] # U!None => leftBy[o] \in NatConns \ {c}
      BY <2>0, <3>1
    <3>7. \A k \in Keys : table[k] # U!None => table[k] \in NatConns \ {c}
      BY <2>0, <3>1
    <3>8. \A o \in Packets : natConn'[o] # U!None => owner'[natConn'[o]] = key[o] /\ natState'[natConn'[o]] # "none"
      BY <3>3, <3>4, <3>5
    <3>9. \A o \in Packets :
             leftBy[o] # U!None => owner'[leftBy[o]] = key[o] /\ natState'[leftBy[o]] # "none"
      BY <3>3, <3>6
    <3>10. \A k \in Keys : table[k] # U!None => owner'[table[k]] = k /\ natState'[table[k]] # "none"
      BY <3>3, <3>7
    <3>11. QED
      BY <3>2, <3>8, <3>9, <3>10
  <2>4. ASSUME NEW p \in Packets, U!Set(p) PROVE OwnInv'
    <3>1. UNCHANGED <<key, natConn, leftBy, natState, owner>> /\ natConn[p] # U!None
      BY <2>4 DEF U!Set, U!TypeOK
    <3>2. \A k \in Keys : table'[k] = table[k] \/ (k = key[p] /\ table'[k] = natConn[p])
      BY <2>4 DEF U!Set, U!EntryKey, U!TypeOK
    <3>3. \A k \in Keys : table'[k] # U!None => owner[table'[k]] = k /\ natState[table'[k]] # "none"
      BY <3>1, <3>2
    <3>4. QED
      BY <3>1, <3>3
  <2>5. ASSUME NEW c \in NatConns, U!ReaderFails(c) PROVE OwnInv'
    <3>1. UNCHANGED <<key, table, natConn, leftBy, owner>>
      BY <2>5 DEF U!ReaderFails, U!packetvars
    <3>2. \A d \in NatConns : natState'[d] \in {natState[d], "closed"}
      BY <2>5 DEF U!ReaderFails, U!TypeOK
    <3>3. \A d \in NatConns : natState[d] # "none" => natState'[d] # "none"
      BY <3>2
    <3>4. QED
      BY <2>0, <3>1, <3>3
  <2>6. ASSUME NEW c \in NatConns, U!ReaderLeaves(c) PROVE OwnInv'
    <3>1. UNCHANGED <<key, natConn, leftBy, natState, owner>>
      BY <2>6 DEF U!ReaderLeaves, U!packetvars
    <3>2. \A k \in Keys : table'[k] \in {table[k], U!None}
      BY <2>6 DEF U!ReaderLeaves, U!Without, U!TypeOK
    <3>3. QED
      BY <3>1, <3>2
  <2>7. CASE UNCHANGED <<key, table, natConn, leftBy, natState, owner>>
    BY <2>7
  <2>8. QED
    BY <2>1, <2>2, <2>3, <2>4, <2>5, <2>6, <2>7
       DEF U!Next, U!PacketStep, U!ReaderStep, U!Lock, U!Wait, U!Wake, U!Unlock, U!CreateFails, U!Release,
           U!Broadcast, U!vars, U!packetvars, U!connvars
<1>3. OwnInv => U!OwnConnection
  BY DEF OwnInv
<1>4. QED
  BY <1>1, <1>2, <1>3, TypeCorrect, PTL DEF U!Spec

(* A dead connection stays in the table only when its goroutine had ended  *)
(* before the entry was made.                                              *)
THEOREM DeadEntriesWereLate == ASSUME U!NatAssumption PROVE U!Spec => []U!DeadEntryWasLate
<1>1. U!Init => U!DeadEntryWasLate
  BY DEF U!Init, U!DeadEntryWasLate
<1>2. U!TypeOK /\ U!OwnConnection /\ U!DeadEntryWasLate /\ [U!Next]_(U!vars) => U!DeadEntryWasLate'
  <2> SUFFICES ASSUME U!TypeOK, U!OwnConnection, U!DeadEntryWasLate, [U!Next]_(U!vars)
               PROVE  U!DeadEntryWasLate'
    OBVIOUS
  <2> USE DEF U!DeadEntryWasLate
  <2>0. \A k \in Keys : table[k] \in NatConns \cup {U!None}
    BY DEF U!TypeOK
  <2>a. \A p \in Packets : natConn[p] \in NatConns \cup {U!None} /\ (natPc[p] = "set" => natConn[p] # U!None)
    BY DEF U!TypeOK
  <2>1. ASSUME NEW p \in Packets, U!Create(p) PROVE U!DeadEntryWasLate'
    <3>1. table' = table /\ late' = late
      BY <2>1 DEF U!Create
    <3>2. \A c \in NatConns : reader'[c] \in {reader[c], "reads"}
      BY <2>1 DEF U!Create, U!Started, U!TypeOK
    <3>3. QED
      BY <2>0, <3>1, <3>2
  <2>2. ASSUME NEW p \in Packets, U!Set(p) PROVE U!DeadEntryWasLate'
    <3>0. reader' = reader /\ natPc[p] = "set"
      BY <2>2 DEF U!Set
    <3>1. natConn[p] \in NatConns
      BY <2>a, <3>0
    <3>2. \A k \in Keys : table'[k] = table[k] \/ table'[k] = natConn[p]
      BY <2>2 DEF U!Set, U!EntryKey, U!TypeOK
    <3>3. /\ late'[natConn[p]] = (reader[natConn[p]] = "done")
          /\ \A c \in NatConns \ {natConn[p]} : late'[c] = late[c]
      BY <2>2, <3>1 DEF U!Set, U!TypeOK
    <3>4. QED
      BY <2>0, <3>0, <3>1, <3>2, <3>3
  <2>3. ASSUME NEW c \in NatConns, U!ReaderFails(c) PROVE U!DeadEntryWasLate'
    <3>1. table' = table /\ late' = late
      BY <2>3 DEF U!ReaderFails
    <3>2. \A d \in NatConns : reader'[d] \in {reader[d], "closed"}
      BY <2>3 DEF U!ReaderFails, U!TypeOK
    <3>3. QED
      BY <2>0, <3>1, <3>2
  <2>4. ASSUME NEW c \in NatConns, U!ReaderLeaves(c) PROVE U!DeadEntryWasLate'
    <3>1. late' = late /\ \A d \in NatConns \ {c} : reader'[d] = reader[d]
      BY <2>4 DEF U!ReaderLeaves, U!TypeOK
    <3>2. \A k \in Keys : table'[k] = IF k = owner[c] THEN U!None ELSE table[k]
      BY <2>4 DEF U!ReaderLeaves, U!Without, U!TypeOK
    <3>3. \A k \in Keys : table'[k] # c \/ c = U!None
      BY <2>0, <3>2 DEF U!OwnConnection
    <3>4. c # U!None
      BY DEF U!NatAssumption
    <3>5. QED
      BY <2>0, <3>1, <3>2, <3>3, <3>4
  <2>5. CASE UNCHANGED <<table, reader, late>>
    BY <2>5
  <2>6. QED
    BY <2>1, <2>2, <2>3, <2>4, <2>5
       DEF U!Next, U!PacketStep, U!ReaderStep, U!Check, U!Recheck, U!First, U!Handle, U!Write, U!Lock, U!Wait, U!Wake,
           U!Unlock, U!CreateFails, U!Release, U!Broadcast, U!vars, U!packetvars, U!connvars
<1>3. QED
  BY <1>1, <1>2, TypeCorrect, ConnectionsStayApart, PTL DEF U!Spec

(* Every open connection has the goroutine that will close it.             *)
THEOREM OpenStaysRead == ASSUME U!NatAssumption PROVE U!Spec => []U!OpenIsRead
<1>1. U!Init => U!OpenIsRead
  BY DEF U!Init, U!OpenIsRead
<1>2. U!TypeOK /\ U!OpenIsRead /\ [U!Next]_(U!vars) => U!OpenIsRead'
  <2> SUFFICES ASSUME U!TypeOK, U!OpenIsRead, [U!Next]_(U!vars) PROVE U!OpenIsRead'
    OBVIOUS
  <2> USE DEF U!OpenIsRead
  <2>1. ASSUME NEW p \in Packets, U!Create(p) PROVE U!OpenIsRead'
    BY <2>1 DEF U!Create, U!Started, U!TypeOK
  <2>2. ASSUME NEW c \in NatConns, U!ReaderFails(c) PROVE U!OpenIsRead'
    BY <2>2 DEF U!ReaderFails, U!TypeOK
  <2>3. ASSUME NEW c \in NatConns, U!ReaderLeaves(c) PROVE U!OpenIsRead'
    BY <2>3 DEF U!ReaderLeaves, U!TypeOK
  <2>4. CASE UNCHANGED <<natState, reader>>
    BY <2>4
  <2>5. QED
    BY <2>1, <2>2, <2>3, <2>4
       DEF U!Next, U!PacketStep, U!ReaderStep, U!Check, U!Recheck, U!First, U!Handle, U!Write, U!Lock, U!Wait, U!Wake,
           U!Unlock, U!CreateFails, U!Set, U!Release, U!Broadcast, U!vars, U!packetvars, U!connvars
<1>3. QED
  BY <1>1, <1>2, TypeCorrect, PTL DEF U!Spec


-----------------------------------------------------------------------------
(* The type invariant, with the bound of the pool.                         *)
THEOREM PoolTypeCorrect == ASSUME S!PoolAssumption PROVE S!Spec => []S!TypeOK
<1> USE DEF S!PoolAssumption
<1>1. S!Init => S!TypeOK
  <2> SUFFICES ASSUME S!Init PROVE S!TypeOK
    OBVIOUS
  <2>1. <<>> \in Seq(SnellConns) /\ Len(<<>>) = 0
    BY EmptySeq
  <2>2. pool \in Seq(SnellConns) /\ Len(pool) <= PoolSize
    <3>1. pool = <<>>
      BY DEF S!Init
    <3>2. 0 <= PoolSize
      BY DEF S!PoolAssumption
    <3>3. QED
      BY <2>1, <3>1, <3>2
  <2>3. \A s \in Sessions : ~S!Holds(s)
    BY DEF S!Init, S!Holds
  <2>4. QED
    BY <2>2, <2>3 DEF S!Init, S!TypeOK
<1>2. S!TypeOK /\ [S!Next]_(S!poolvars) => S!TypeOK'
  <2> SUFFICES ASSUME S!TypeOK, [S!Next]_(S!poolvars) PROVE S!TypeOK'
    OBVIOUS
  <2> USE DEF S!TypeOK, S!Holds, S!connvars, S!sessvars
  <2>1. ASSUME NEW s \in Sessions, S!TakeExpired(s) PROVE S!TypeOK'
    <3>1. Head(pool) \in SnellConns /\ pool' \in Seq(SnellConns) /\ Len(pool') <= PoolSize
      BY <2>1, HeadTailProperties DEF S!TakeExpired
    <3>2. QED
      BY <2>1, <3>1 DEF S!TakeExpired
  <2>2. ASSUME NEW s \in Sessions, S!TakeFresh(s) PROVE S!TypeOK'
    <3>1. Head(pool) \in SnellConns /\ pool' \in Seq(SnellConns) /\ Len(pool') <= PoolSize
      BY <2>2, HeadTailProperties DEF S!TakeFresh, S!Rest
    <3>2. QED
      BY <2>2, <3>1 DEF S!TakeFresh
  <2>3. ASSUME NEW s \in Sessions, S!Dial(s) PROVE S!TypeOK'
    <3>1. CASE snellPc' = [snellPc EXCEPT ![s] = "done"] /\ snellState' = snellState /\ snellConn' = snellConn
      BY <2>3, <3>1 DEF S!Dial
    <3>2. ASSUME NEW c \in SnellConns, snellState' = [snellState EXCEPT ![c] = "open"],
                 snellConn' = [snellConn EXCEPT ![s] = c], snellPc' = [snellPc EXCEPT ![s] = "header"]
          PROVE  S!TypeOK'
      BY <2>3, <3>2 DEF S!Dial
    <3>3. QED
      BY <2>3, <3>1, <3>2 DEF S!Dial
  <2>4. ASSUME NEW s \in Sessions, S!WriteHeader(s) PROVE S!TypeOK'
    <3>1. want' \in [Sessions -> {"byte", "again", "data"}] /\ reply' \in [SnellConns -> BOOLEAN]
      BY <2>4 DEF S!WriteHeader, S!Looks
    <3>2. snellPc' = [snellPc EXCEPT ![s] = "read"] \/ snellPc' = [snellPc EXCEPT ![s] = "close"]
      BY <2>4 DEF S!WriteHeader
    <3>3. QED
      BY <2>4, <3>1, <3>2 DEF S!WriteHeader
  <2>5. ASSUME NEW s \in Sessions, S!Read(s) PROVE S!TypeOK'
    <3>1. /\ want' \in [Sessions -> {"byte", "again", "data"}]
          /\ snellPc' = snellPc \/ snellPc' = [snellPc EXCEPT ![s] = "close"]
      BY <2>5 DEF S!Read, S!Stops, S!LooksFor, S!ZeroFirst
    <3>2. QED
      BY <2>5, <3>1 DEF S!Read
  <2>6. ASSUME NEW s \in Sessions, S!ReadError(s) PROVE S!TypeOK'
    BY <2>6 DEF S!ReadError, S!Stops
  <2>7. ASSUME NEW s \in Sessions, S!Interrupt(s) PROVE S!TypeOK'
    <3>1. torn' \in [SnellConns -> BOOLEAN]
      BY <2>7 DEF S!Interrupt
    <3>2. QED
      BY <2>7, <3>1 DEF S!Interrupt, S!Stops
  <2>8. ASSUME NEW s \in Sessions, S!Close(s) PROVE S!TypeOK'
    <3>1. snellConn[s] \in SnellConns
      BY <2>8 DEF S!Close
    <3>2. /\ reply' \in [SnellConns -> BOOLEAN] /\ snellState' \in [SnellConns -> {"none", "open", "closed"}]
          /\ pool' \in Seq(SnellConns) /\ Len(pool') <= PoolSize
      <4>1. CASE /\ reply' = [reply EXCEPT ![snellConn[s]] = FALSE] /\ S!HasRoom
                 /\ pool' = Append(pool, snellConn[s]) /\ snellState' = snellState
        BY <3>1, <4>1, AppendProperties DEF S!HasRoom
      <4>2. CASE /\ reply' = reply \/ reply' = [reply EXCEPT ![snellConn[s]] = FALSE]
                 /\ snellState' = [snellState EXCEPT ![snellConn[s]] = "closed"] /\ pool' = pool
        BY <3>1, <4>2
      <4>3. QED
        BY <2>8, <4>1, <4>2 DEF S!Close
    <3>3. QED
      BY <2>8, <3>2 DEF S!Close
  <2>9. ASSUME NEW c \in SnellConns, S!ServerSends(c) PROVE S!TypeOK'
    <3>1. begun' \in [SnellConns -> BOOLEAN]
      BY <2>9 DEF S!ServerSends
    <3>2. QED
      BY <2>9, <3>1 DEF S!ServerSends
  <2>10. ASSUME NEW c \in SnellConns, S!ServerCloses(c) PROVE S!TypeOK'
    BY <2>10 DEF S!ServerCloses
  <2>11. CASE UNCHANGED S!poolvars
    BY <2>11 DEF S!poolvars
  <2>12. QED
    BY <2>1, <2>2, <2>3, <2>4, <2>5, <2>6, <2>7, <2>8, <2>9, <2>10, <2>11 DEF S!Next
<1>3. QED
  BY <1>1, <1>2, PTL DEF S!Spec

(* An entry of the pool behind the first one, and an entry that is added.   *)
LEMMA TailEntries ==
    ASSUME NEW Elems, NEW ps \in Seq(Elems), ps # <<>>, \A i, j \in 1..Len(ps) : i # j => ps[i] # ps[j]
    PROVE  /\ Head(ps) \in Elems /\ Head(ps) = ps[1] /\ Len(ps) \in Nat \ {0}
           /\ \A i \in 1..Len(Tail(ps)) :
                  /\ i + 1 \in 1..Len(ps) /\ Tail(ps)[i] = ps[i + 1] /\ Tail(ps)[i] # Head(ps)
           /\ \A i, j \in 1..Len(Tail(ps)) : i # j => Tail(ps)[i] # Tail(ps)[j]
<1>1. /\ Len(ps) \in Nat \ {0} /\ Tail(ps) \in Seq(Elems) /\ Len(Tail(ps)) = Len(ps) - 1
      /\ \A i \in 1..Len(Tail(ps)) : Tail(ps)[i] = ps[i + 1]
      /\ Head(ps) \in Elems /\ Head(ps) = ps[1]
  BY HeadTailProperties, EmptySeq
<1>2. \A i \in 1..Len(Tail(ps)) : i + 1 \in 1..Len(ps) /\ i + 1 # 1 /\ 1 \in 1..Len(ps)
  BY <1>1
<1>3. \A i, j \in 1..Len(Tail(ps)) : i # j => i + 1 # j + 1
  BY <1>1
<1>4. QED
  BY <1>1, <1>2, <1>3

(* For any number of sessions over any number of connections: a connection *)
(* has one user at a time, and what is in use or in the pool is open.      *)
THEOREM ConnectionsHaveOneUser == ASSUME S!PoolAssumption PROVE S!Spec => []S!OneUser
<1> USE DEF S!PoolAssumption
<1>1. S!Init => S!OneUser
  <2> SUFFICES ASSUME S!Init PROVE S!OneUser
    OBVIOUS
  <2>1. pool = <<>> /\ Len(pool) = 0 /\ \A s \in Sessions : ~S!Holds(s)
    BY EmptySeq DEF S!Init, S!Holds
  <2>2. QED
    BY <2>1 DEF S!OneUser
<1>2. S!TypeOK /\ S!OneUser /\ [S!Next]_(S!poolvars) => S!OneUser'
  <2> SUFFICES ASSUME S!TypeOK, S!OneUser, [S!Next]_(S!poolvars) PROVE S!OneUser'
    OBVIOUS
  <2>0. pool \in Seq(SnellConns) /\ Len(pool) \in Nat /\ \A i \in 1..Len(pool) : pool[i] \in SnellConns
    BY LenProperties, ElementOfSeq DEF S!TypeOK
  <2>1. ASSUME NEW s \in Sessions, S!TakeExpired(s) PROVE S!OneUser'
    <3>1. pool' = Tail(pool) /\ pool # <<>> /\ UNCHANGED <<snellPc, snellConn>>
      BY <2>1 DEF S!TakeExpired, S!sessvars
    <3>2. \A c \in SnellConns \ {Head(pool)} : snellState'[c] = snellState[c]
      BY <2>1 DEF S!TakeExpired, S!TypeOK
    <3>3. /\ Head(pool) = pool[1] /\ 1 \in 1..Len(pool)
          /\ \A i \in 1..Len(pool') :
                /\ i + 1 \in 1..Len(pool) /\ pool'[i] = pool[i + 1] /\ pool'[i] # Head(pool)
          /\ \A i, j \in 1..Len(pool') : i # j => pool'[i] # pool'[j]
      BY <2>0, <3>1, TailEntries DEF S!OneUser
    <3>4. \A t \in Sessions : S!Holds(t)' = S!Holds(t) /\ (S!Holds(t) => snellConn[t] \in SnellConns \ {Head(pool)})
      BY <3>1, <3>3 DEF S!Holds, S!OneUser, S!TypeOK
    <3>5. QED
      BY <2>0, <3>1, <3>2, <3>3, <3>4 DEF S!OneUser
  <2>2. ASSUME NEW s \in Sessions, S!TakeFresh(s) PROVE S!OneUser'
    <3>1. /\ pool' = Tail(pool) /\ pool # <<>> /\ snellState' = snellState
          /\ snellConn' = [snellConn EXCEPT ![s] = Head(pool)] /\ snellPc' = [snellPc EXCEPT ![s] = "header"]
      BY <2>2 DEF S!TakeFresh, S!Rest, S!connvars
    <3>2. /\ Head(pool) = pool[1] /\ 1 \in 1..Len(pool)
          /\ \A i \in 1..Len(pool') :
                /\ i + 1 \in 1..Len(pool) /\ pool'[i] = pool[i + 1] /\ pool'[i] # Head(pool)
          /\ \A i, j \in 1..Len(pool') : i # j => pool'[i] # pool'[j]
      BY <2>0, <3>1, TailEntries DEF S!OneUser
    <3>3. /\ snellConn'[s] = Head(pool)
          /\ \A t \in Sessions \ {s} : snellConn'[t] = snellConn[t] /\ S!Holds(t)' = S!Holds(t)
      BY <3>1 DEF S!TypeOK, S!Holds
    <3>4. \A t \in Sessions : S!Holds(t) => snellConn[t] # Head(pool)
      BY <3>2 DEF S!OneUser
    <3>5. snellState[Head(pool)] = "open" /\ \A i \in 1..Len(pool') : snellState[pool'[i]] = "open"
      BY <3>2 DEF S!OneUser
    <3>6. \A t \in Sessions \ {s} : S!Holds(t) =>
             /\ snellState[snellConn[t]] = "open" /\ \A i \in 1..Len(pool') : pool'[i] # snellConn[t]
      BY <3>2 DEF S!OneUser
    <3>7. QED
      BY <3>1, <3>2, <3>3, <3>4, <3>5, <3>6 DEF S!OneUser
  <2>3. ASSUME NEW s \in Sessions, S!Dial(s) PROVE S!OneUser'
    <3>1. CASE snellPc' = [snellPc EXCEPT ![s] = "done"] /\ snellState' = snellState /\ snellConn' = snellConn
      <4>1. pool' = pool /\ \A t \in Sessions : S!Holds(t)' => S!Holds(t)
        BY <2>3, <3>1 DEF S!Dial, S!Holds, S!TypeOK
      <4>2. QED
        BY <3>1, <4>1 DEF S!OneUser
    <3>2. ASSUME NEW c \in SnellConns, snellState[c] = "none", snellState' = [snellState EXCEPT ![c] = "open"],
                 snellConn' = [snellConn EXCEPT ![s] = c], snellPc' = [snellPc EXCEPT ![s] = "header"]
          PROVE  S!OneUser'
      <4>1. pool' = pool /\ pool = <<>> /\ Len(pool) = 0
        BY <2>3, EmptySeq DEF S!Dial
      <4>2. \A d \in SnellConns : snellState'[d] = IF d = c THEN "open" ELSE snellState[d]
        BY <3>2 DEF S!TypeOK
      <4>3. /\ snellConn'[s] = c
            /\ \A t \in Sessions \ {s} : snellConn'[t] = snellConn[t] /\ S!Holds(t)' = S!Holds(t)
        BY <3>2 DEF S!TypeOK, S!Holds
      <4>4. \A t \in Sessions : S!Holds(t) => snellState[snellConn[t]] = "open" /\ snellConn[t] \in SnellConns \ {c}
        BY <3>2 DEF S!OneUser, S!TypeOK
      <4>5. QED
        BY <4>1, <4>2, <4>3, <4>4 DEF S!OneUser
    <3>3. QED
      BY <2>3, <3>1, <3>2 DEF S!Dial
  <2>4. ASSUME NEW s \in Sessions, S!WriteHeader(s) \/ S!Read(s) \/ S!ReadError(s) \/ S!Interrupt(s)
        PROVE  S!OneUser'
    <3>1. UNCHANGED <<pool, snellState, snellConn>> /\ S!Holds(s)
      BY <2>4 DEF S!WriteHeader, S!Read, S!ReadError, S!Interrupt, S!Holds, S!connvars
    <3>2. \A t \in Sessions \ {s} : snellPc'[t] = snellPc[t]
      BY <2>4 DEF S!WriteHeader, S!Read, S!ReadError, S!Interrupt, S!Stops, S!LooksFor, S!ZeroFirst, S!TypeOK
    <3>3. \A t \in Sessions : S!Holds(t)' => S!Holds(t)
      BY <3>1, <3>2 DEF S!Holds
    <3>4. QED
      BY <3>1, <3>3 DEF S!OneUser
  <2>5. ASSUME NEW s \in Sessions, S!Close(s) PROVE S!OneUser'
    <3>1. snellConn[s] \in SnellConns /\ S!Holds(s) /\ snellConn' = snellConn
      BY <2>5 DEF S!Close, S!Holds, S!TypeOK
    <3>2. ~S!Holds(s)' /\ \A t \in Sessions \ {s} : S!Holds(t)' = S!Holds(t)
      BY <2>5 DEF S!Close, S!Holds, S!TypeOK
    <3>3. /\ \A t \in Sessions \ {s} : S!Holds(t) => snellConn[t] # snellConn[s]
          /\ \A i \in 1..Len(pool) : pool[i] # snellConn[s]
      BY <3>1 DEF S!OneUser
    <3>4. CASE pool' = Append(pool, snellConn[s]) /\ snellState' = snellState
      <4>1. /\ Len(pool') = Len(pool) + 1 /\ pool'[Len(pool) + 1] = snellConn[s]
            /\ \A i \in 1..Len(pool) : pool'[i] = pool[i]
        BY <2>0, <3>1, <3>4, AppendProperties
      <4>2. \A i \in 1..Len(pool') : i \in 1..Len(pool) \/ i = Len(pool) + 1
        BY <2>0, <4>1
      <4>3. \A i, j \in 1..Len(pool') : i # j => pool'[i] # pool'[j]
        BY <3>3, <4>1, <4>2 DEF S!OneUser
      <4>4. \A i \in 1..Len(pool') : snellState[pool'[i]] = "open"
        BY <3>1, <4>1, <4>2 DEF S!OneUser
      <4>5. \A t \in Sessions : S!Holds(t)' => \A i \in 1..Len(pool') : pool'[i] # snellConn[t]
        BY <3>2, <3>3, <4>1, <4>2 DEF S!OneUser
      <4>6. QED
        BY <3>1, <3>2, <3>4, <4>3, <4>4, <4>5 DEF S!OneUser
    <3>5. CASE pool' = pool /\ snellState' = [snellState EXCEPT ![snellConn[s]] = "closed"]
      <4>1. \A c \in SnellConns \ {snellConn[s]} : snellState'[c] = snellState[c]
        BY <3>5 DEF S!TypeOK
      <4>2. \A t \in Sessions : S!Holds(t)' => S!Holds(t) /\ snellConn[t] \in SnellConns \ {snellConn[s]}
        BY <3>2, <3>3 DEF S!TypeOK, S!Holds
      <4>3. QED
        BY <2>0, <3>1, <3>3, <3>5, <4>1, <4>2 DEF S!OneUser
    <3>6. QED
      BY <2>5, <3>4, <3>5 DEF S!Close
  <2>6. ASSUME NEW c \in SnellConns, S!ServerSends(c) \/ S!ServerCloses(c) PROVE S!OneUser'
    BY <2>6 DEF S!ServerSends, S!ServerCloses, S!OneUser, S!Holds, S!sessvars
  <2>7. CASE UNCHANGED S!poolvars
    BY <2>7 DEF S!poolvars, S!OneUser, S!Holds, S!connvars, S!sessvars
  <2>8. QED
    BY <2>1, <2>2, <2>3, <2>4, <2>5, <2>6, <2>7 DEF S!Next
<1>3. QED
  BY <1>1, <1>2, PoolTypeCorrect, PTL DEF S!Spec

-----------------------------------------------------------------------------
(* The answers of a snell connection.  The invariant says what may be on   *)
(* the way to a session while the sessions before it left nothing unread.  *)

(* What the server has still to say, or has said and is not yet read: the  *)
(* rest of an answer of s with n chunks of payload left, and the end if it *)
(* is whole.                                                                *)
RestOf(chunks, s, n, whole) ==
    /\ Len(chunks) = IF whole THEN n + 1 ELSE n
    /\ \A i \in 1..Len(chunks) : chunks[i] = S!Chunk(s, IF i <= n THEN "data" ELSE "zero")

(* An answer of s from its beginning, or none yet.                         *)
AnswerOf(chunks, s, c) ==
    \/ chunks = <<>> /\ ~begun[c] /\ snellSent[s] = 0 /\ ~finished[s]
    \/ /\ chunks # <<>> /\ Head(chunks) \in {S!Chunk(s, "command"), S!Chunk(s, "error")}
       /\ RestOf(Tail(chunks), s, snellSent[s], finished[s])
       /\ begun[c] = ~finished[s]

(* So far nothing of the answer to t was left unread when it went away,    *)
(* except perhaps its end.  Of a session that is gone this can only become *)
(* false.                                                                  *)
Clean(t) == end[t] = "header" \/ (want[t] = "data" /\ Len(snellGot[t]) = snellSent[t])
Fresh(s) == \A t \in before[s] : Clean(t)

(* A connection between two sessions: at most the end of the last answer   *)
(* is on its way, or still to be sent.                                     *)
Quiet(c) ==
    \/ /\ asked[c] = <<>> /\ ~begun[c]
       /\ stream[c] = <<>> \/ \E t \in Sessions : stream[c] = <<S!Chunk(t, "zero")>>
    \/ \E t \in Sessions : asked[c] = <<t>> /\ begun[c] /\ stream[c] = <<>>

(* What a session that reads may find.                                     *)
NextIs(s, c) == IF finished[s] THEN asked[c] = <<>> /\ ~begun[c] ELSE asked[c] = <<s>>
ReadsOn(s, c) ==
    /\ want[s] = "data" /\ NextIs(s, c) /\ begun[c] = ~finished[s]
    /\ Len(snellGot[s]) <= snellSent[s]
    /\ RestOf(stream[c], s, snellSent[s] - Len(snellGot[s]), finished[s])
Begins(s, c) ==
    /\ want[s] \in {"byte", "again"} /\ NextIs(s, c) /\ snellGot[s] = <<>>
    /\ \/ AnswerOf(stream[c], s, c)
       \/ /\ want[s] = "byte" /\ stream[c] # <<>> /\ Head(stream[c]).kind = "zero"
          /\ AnswerOf(Tail(stream[c]), s, c)
Awaits(s, c) ==
    /\ want[s] = "byte" /\ stream[c] = <<>> /\ begun[c]
    /\ snellSent[s] = 0 /\ ~finished[s] /\ snellGot[s] = <<>>
    /\ \E t \in before[s] : asked[c] = <<t, s>>
Tape(s, c) == ReadsOn(s, c) \/ Begins(s, c) \/ Awaits(s, c)

(* What the session has read is its own, as far as the server has sent it. *)
OwnSoFar(s) ==
    /\ \A i \in 1..Len(snellGot[s]) : snellGot[s][i] = S!Chunk(s, "data")
    /\ Len(snellGot[s]) <= snellSent[s]
    /\ end[s] = "zero" => S!ReadAll(s)

AnyChunk == [session : Sessions, kind : {"command", "error", "data", "zero"}]
TapeTypes ==
    /\ stream \in [SnellConns -> Seq(AnyChunk)] /\ asked \in [SnellConns -> Seq(Sessions)]
    /\ snellGot \in [Sessions -> Seq(AnyChunk)] /\ snellSent \in [Sessions -> Nat]
    /\ finished \in [Sessions -> BOOLEAN] /\ before \in [Sessions -> SUBSET Sessions]
    /\ end \in [Sessions -> {"", "header", "zero", "error", "interrupted"}]

(* Who used a connection before whom.                                      *)
Order ==
    /\ \A s \in Sessions :
        /\ s \notin before[s]
        /\ \A t \in before[s] : /\ snellPc[t] = "done" /\ snellConn[t] = snellConn[s]
                                /\ before[t] \subseteq before[s]
        /\ snellPc[s] = "get" => snellConn[s] = S!NoConn /\ before[s] = {}
    /\ \A s, t \in Sessions :
        s # t /\ snellConn[s] = snellConn[t] /\ snellConn[s] # S!NoConn => s \in before[t] \/ t \in before[s]
    /\ \A s \in Sessions : snellConn[s] # S!NoConn => snellState[snellConn[s]] # "none"

(* Who has asked and not been answered to the end.                         *)
HasAsked(s, c) ==
    /\ snellConn[s] = c /\ snellPc[s] \in {"read", "close", "done"}
    /\ end[s] # "header" /\ ~finished[s]
AskedInv ==
    /\ \A c \in SnellConns : \A i \in 1..Len(asked[c]) : HasAsked(asked[c][i], c)
    /\ \A c \in SnellConns : \A i, j \in 1..Len(asked[c]) : i # j => asked[c][i] # asked[c][j]

(* Where the command byte has been looked for, and sessions that have not  *)
(* asked yet.                                                              *)
ReplySeen ==
    \A c \in SnellConns : reply[c] =>
        \/ snellState[c] = "closed"
        \/ \E s \in Sessions : snellConn[s] = c /\ snellPc[s] \in {"read", "close"}
Young ==
    \A s \in Sessions :
        /\ snellPc[s] \in {"get", "header", "read"} => end[s] = ""
        /\ snellPc[s] \in {"get", "header"} =>
              want[s] = "data" /\ snellGot[s] = <<>> /\ snellSent[s] = 0 /\ ~finished[s]

(* The answers: of a session that reads, of a connection nobody reads      *)
(* from, and what was read.                                                *)
ReadersInv ==
    \A s \in Sessions, c \in SnellConns :
        snellPc[s] = "read" /\ snellConn[s] = c /\ Fresh(s) => Tape(s, c)
QuietInv ==
    \A c \in SnellConns :
        (\A s \in Sessions : snellConn[s] = c => snellPc[s] # "read" /\ Clean(s)) => Quiet(c)
AnswersOwn == \A s \in Sessions : Fresh(s) => OwnSoFar(s)

SnellInv ==
    /\ S!TypeOK /\ S!OneUser /\ TapeTypes /\ Order /\ AskedInv /\ ReplySeen /\ Young
    /\ ReadersInv /\ QuietInv /\ AnswersOwn

LEMMA RestEmpty == ASSUME NEW s PROVE RestOf(<<>>, s, 0, FALSE)
  BY EmptySeq DEF RestOf

LEMMA RestTail ==
    ASSUME NEW s \in Sessions, NEW n \in Nat, NEW whole \in BOOLEAN, NEW chunks \in Seq(AnyChunk),
           RestOf(chunks, s, n, whole), chunks # <<>>
    PROVE  \/ /\ n > 0 /\ Head(chunks) = S!Chunk(s, "data") /\ RestOf(Tail(chunks), s, n - 1, whole)
           \/ /\ n = 0 /\ whole /\ Head(chunks) = S!Chunk(s, "zero") /\ Tail(chunks) = <<>>
<1>1. /\ Tail(chunks) \in Seq(AnyChunk) /\ Len(Tail(chunks)) = Len(chunks) - 1
      /\ \A i \in 1..Len(Tail(chunks)) : Tail(chunks)[i] = chunks[i + 1]
      /\ Head(chunks) = chunks[1] /\ Len(chunks) \in Nat \ {0}
  BY HeadTailProperties, LenProperties, EmptySeq
<1>2. CASE n = 0
  <2>1. whole /\ Len(chunks) = 1
    BY <1>1, <1>2 DEF RestOf
  <2>2. Head(chunks) = S!Chunk(s, "zero")
    BY <1>1, <1>2, <2>1 DEF RestOf
  <2>3. Tail(chunks) = <<>>
    <3>1. Len(Tail(chunks)) = 0 /\ Tail(chunks) \in Seq(AnyChunk)
      BY <1>1, <2>1
    <3>2. QED
      BY <3>1, EmptySeq
  <2>4. QED
    BY <1>2, <2>1, <2>2, <2>3
<1>3. CASE n > 0
  <2>1. Head(chunks) = S!Chunk(s, "data")
    BY <1>1, <1>3 DEF RestOf
  <2>2. Len(Tail(chunks)) = IF whole THEN (n - 1) + 1 ELSE n - 1
    BY <1>1 DEF RestOf
  <2>3. ASSUME NEW i \in 1..Len(Tail(chunks))
        PROVE  Tail(chunks)[i] = S!Chunk(s, IF i <= n - 1 THEN "data" ELSE "zero")
    <3>1. i + 1 \in 1..Len(chunks) /\ (i + 1 <= n <=> i <= n - 1)
      BY <1>1
    <3>2. QED
      BY <1>1, <3>1 DEF RestOf
  <2>4. QED
    BY <1>3, <2>1, <2>2, <2>3 DEF RestOf
<1>4. QED
  BY <1>2, <1>3

LEMMA RestEnd ==
    ASSUME NEW s \in Sessions, NEW chunks \in Seq(AnyChunk), RestOf(chunks, s, 0, TRUE)
    PROVE  chunks = <<S!Chunk(s, "zero")>>
<1> DEFINE e == S!Chunk(s, "zero")
<1>1. Len(chunks) = 1 /\ chunks[1] = e
  BY DEF RestOf
<1>2. e \in AnyChunk
  BY DEF S!Chunk, AnyChunk
<1> HIDE DEF e
<1>3. <<e>> \in Seq(AnyChunk) /\ Len(<<e>>) = 1 /\ <<e>>[1] = e
  BY <1>2
<1>4. \A i \in 1..Len(chunks) : chunks[i] = <<e>>[i]
  <2>1. \A i \in 1..1 : i = 1
    OBVIOUS
  <2>2. QED
    BY <1>1, <1>3, <2>1
<1>5. chunks = <<e>>
  BY <1>1, <1>3, <1>4, SeqEqual
<1>6. QED
  BY <1>5 DEF e

LEMMA RestAppend ==
    ASSUME NEW s \in Sessions, NEW n \in Nat, NEW chunks \in Seq(AnyChunk), RestOf(chunks, s, n, FALSE)
    PROVE  /\ RestOf(Append(chunks, S!Chunk(s, "data")), s, n + 1, FALSE)
           /\ RestOf(Append(chunks, S!Chunk(s, "zero")), s, n, TRUE)
<1>1. ASSUME NEW k \in {"data", "zero"}
      PROVE  /\ Len(Append(chunks, S!Chunk(s, k))) = n + 1
             /\ \A i \in 1..n : Append(chunks, S!Chunk(s, k))[i] = S!Chunk(s, "data")
             /\ Append(chunks, S!Chunk(s, k))[n + 1] = S!Chunk(s, k)
  <2>1. S!Chunk(s, k) \in AnyChunk /\ Len(chunks) = n
    BY DEF S!Chunk, AnyChunk, RestOf
  <2>2. \A i \in 1..n : chunks[i] = S!Chunk(s, "data")
    BY <2>1 DEF RestOf
  <2>3. /\ Len(Append(chunks, S!Chunk(s, k))) = n + 1
        /\ \A i \in 1..n : Append(chunks, S!Chunk(s, k))[i] = chunks[i]
        /\ Append(chunks, S!Chunk(s, k))[n + 1] = S!Chunk(s, k)
    BY <2>1, AppendProperties
  <2>4. QED
    BY <2>2, <2>3
<1>2. \A i \in 1..(n + 1) : i \in 1..n \/ i = n + 1
  OBVIOUS
<1>3. QED
  BY <1>1, <1>2 DEF RestOf

LEMMA TailAppend ==
    ASSUME NEW chunks \in Seq(AnyChunk), NEW e \in AnyChunk, chunks # <<>>
    PROVE  /\ Head(Append(chunks, e)) = Head(chunks) /\ Append(chunks, e) # <<>>
           /\ Tail(Append(chunks, e)) = Append(Tail(chunks), e)
<1>1. /\ Append(chunks, e) \in Seq(AnyChunk) /\ Append(chunks, e) # <<>>
      /\ Len(Append(chunks, e)) = Len(chunks) + 1
      /\ \A i \in 1..Len(chunks) : Append(chunks, e)[i] = chunks[i]
      /\ Append(chunks, e)[Len(chunks) + 1] = e
  BY AppendProperties
<1>2. /\ Tail(chunks) \in Seq(AnyChunk) /\ Len(Tail(chunks)) = Len(chunks) - 1
      /\ \A i \in 1..Len(Tail(chunks)) : Tail(chunks)[i] = chunks[i + 1]
      /\ Head(chunks) = chunks[1] /\ Len(chunks) \in Nat \ {0}
  BY HeadTailProperties, LenProperties, EmptySeq
<1>3. /\ Tail(Append(chunks, e)) \in Seq(AnyChunk) /\ Len(Tail(Append(chunks, e))) = Len(chunks)
      /\ \A i \in 1..Len(chunks) : Tail(Append(chunks, e))[i] = Append(chunks, e)[i + 1]
      /\ Head(Append(chunks, e)) = Append(chunks, e)[1]
  BY <1>1, <1>2, HeadTailProperties
<1>4. /\ Append(Tail(chunks), e) \in Seq(AnyChunk) /\ Len(Append(Tail(chunks), e)) = Len(chunks)
      /\ \A i \in 1..(Len(chunks) - 1) : Append(Tail(chunks), e)[i] = Tail(chunks)[i]
      /\ Append(Tail(chunks), e)[Len(chunks)] = e
  BY <1>2, AppendProperties
<1>5. ASSUME NEW i \in 1..Len(chunks) PROVE Tail(Append(chunks, e))[i] = Append(Tail(chunks), e)[i]
  <2>1. CASE i = Len(chunks)
    BY <1>1, <1>3, <1>4, <2>1
  <2>2. CASE i # Len(chunks)
    <3>0. Len(chunks) \in Nat
      BY <1>2
    <3>1. i + 1 \in 1..Len(chunks) /\ i \in 1..(Len(chunks) - 1)
      BY <2>2, <3>0
    <3>2. QED
      BY <1>1, <1>2, <1>3, <1>4, <3>1
  <2>3. QED
    BY <2>1, <2>2
<1>6. Tail(Append(chunks, e)) = Append(Tail(chunks), e)
  BY <1>3, <1>4, <1>5, SeqEqual
<1>7. QED
  BY <1>1, <1>2, <1>3, <1>6

LEMMA TapeTypesStep ==
    ASSUME S!PoolAssumption, S!TypeOK, TapeTypes, [S!Next]_(S!poolvars) PROVE TapeTypes'
<1> USE DEF S!connvars, S!sessvars
<1>0. /\ \A c \in SnellConns : stream[c] \in Seq(AnyChunk) /\ asked[c] \in Seq(Sessions)
      /\ \A s \in Sessions : snellGot[s] \in Seq(AnyChunk) /\ snellSent[s] \in Nat
      /\ \A s \in Sessions : S!Holds(s) => snellConn[s] \in SnellConns
  BY DEF TapeTypes, S!TypeOK
<1>1. ASSUME NEW s \in Sessions, S!TakeExpired(s) \/ S!Dial(s) \/ S!Close(s) PROVE TapeTypes'
  <2>1. UNCHANGED <<stream, asked, snellGot, snellSent, finished, before, end>>
    BY <1>1 DEF S!TakeExpired, S!Dial, S!Close
  <2>2. QED
    BY <2>1 DEF TapeTypes
<1>2. ASSUME NEW s \in Sessions, S!TakeFresh(s) PROVE TapeTypes'
  <2>1. UNCHANGED <<stream, asked, snellGot, snellSent, finished, end>>
    BY <1>2 DEF S!TakeFresh
  <2>2. before' \in [Sessions -> SUBSET Sessions]
    BY <1>2 DEF S!TakeFresh, TapeTypes
  <2>3. QED
    BY <2>1, <2>2 DEF TapeTypes
<1>3. ASSUME NEW s \in Sessions, S!WriteHeader(s) PROVE TapeTypes'
  <2>1. UNCHANGED <<stream, snellGot, snellSent, finished, before>>
    BY <1>3 DEF S!WriteHeader
  <2>2. snellConn[s] \in SnellConns
    BY <1>0, <1>3 DEF S!WriteHeader, S!Holds
  <2>3. Append(asked[snellConn[s]], s) \in Seq(Sessions)
    BY <1>0, <2>2, AppendProperties
  <2>4. /\ asked' = asked \/ asked' = [asked EXCEPT ![snellConn[s]] = Append(asked[snellConn[s]], s)]
        /\ end' = end \/ end' = [end EXCEPT ![s] = "header"]
    BY <1>3 DEF S!WriteHeader
  <2>5. QED
    BY <2>1, <2>2, <2>3, <2>4 DEF TapeTypes
<1>4. ASSUME NEW s \in Sessions, S!Read(s) PROVE TapeTypes'
  <2>1. UNCHANGED <<asked, snellSent, finished, before>>
    BY <1>4 DEF S!Read
  <2>2. snellConn[s] \in SnellConns /\ stream[snellConn[s]] # <<>>
    BY <1>0, <1>4 DEF S!Read, S!Holds
  <2>3. Head(stream[snellConn[s]]) \in AnyChunk /\ Tail(stream[snellConn[s]]) \in Seq(AnyChunk)
    BY <1>0, <2>2, HeadTailProperties
  <2>4. Append(snellGot[s], Head(stream[snellConn[s]])) \in Seq(AnyChunk)
    BY <1>0, <2>3, AppendProperties
  <2>5. \/ snellGot' = snellGot
        \/ snellGot' = [snellGot EXCEPT ![s] = Append(snellGot[s], Head(stream[snellConn[s]]))]
    BY <1>4 DEF S!Read, S!Stops, S!LooksFor, S!ZeroFirst
  <2>6. \/ stream' = [stream EXCEPT ![snellConn[s]] = Tail(stream[snellConn[s]])]
        \/ stream' = [stream EXCEPT ![snellConn[s]] = stream[snellConn[s]]]
    BY <1>4 DEF S!Read
  <2>7. end' = end \/ end' = [end EXCEPT ![s] = "zero"] \/ end' = [end EXCEPT ![s] = "error"]
    BY <1>4 DEF S!Read, S!Stops, S!LooksFor, S!ZeroFirst
  <2>8. stream' \in [SnellConns -> Seq(AnyChunk)]
    BY <1>0, <2>2, <2>3, <2>6 DEF TapeTypes
  <2>9. snellGot' \in [Sessions -> Seq(AnyChunk)]
    BY <1>0, <2>4, <2>5 DEF TapeTypes
  <2>10. end' \in [Sessions -> {"", "header", "zero", "error", "interrupted"}]
    BY <2>7 DEF TapeTypes
  <2>11. QED
    BY <2>1, <2>8, <2>9, <2>10 DEF TapeTypes
<1>5. ASSUME NEW s \in Sessions, S!ReadError(s) \/ S!Interrupt(s) PROVE TapeTypes'
  <2>1. UNCHANGED <<stream, asked, snellGot, snellSent, finished, before>>
    BY <1>5 DEF S!ReadError, S!Interrupt, S!Stops
  <2>2. end' = [end EXCEPT ![s] = "error"] \/ end' = [end EXCEPT ![s] = "interrupted"]
    BY <1>5 DEF S!ReadError, S!Interrupt, S!Stops
  <2>3. QED
    BY <2>1, <2>2 DEF TapeTypes
<1>6. ASSUME NEW c \in SnellConns, S!ServerSends(c) PROVE TapeTypes'
  <2> DEFINE s == Head(asked[c])
  <2>1. s \in Sessions /\ Tail(asked[c]) \in Seq(Sessions)
    BY <1>0, <1>6, HeadTailProperties DEF S!ServerSends
  <2>2. UNCHANGED <<snellGot, before, end>>
    BY <1>6 DEF S!ServerSends
  <2>3. PICK what \in {"command", "error", "data", "zero"} :
           stream' = [stream EXCEPT ![c] = Append(stream[c], S!Chunk(s, what))]
    BY <1>6 DEF S!ServerSends
  <2>4. /\ asked' = asked \/ asked' = [asked EXCEPT ![c] = Tail(asked[c])]
        /\ snellSent' = snellSent \/ snellSent' = [snellSent EXCEPT ![s] = snellSent[s] + 1]
        /\ finished' = finished \/ finished' = [finished EXCEPT ![s] = TRUE]
    BY <1>6 DEF S!ServerSends
  <2> HIDE DEF s
  <2>5. Append(stream[c], S!Chunk(s, what)) \in Seq(AnyChunk)
    <3>1. S!Chunk(s, what) \in AnyChunk
      BY <2>1 DEF S!Chunk, AnyChunk
    <3>2. QED
      BY <1>0, <3>1, AppendProperties
  <2>6. stream' \in [SnellConns -> Seq(AnyChunk)]
    BY <1>0, <2>3, <2>5 DEF TapeTypes
  <2>7. asked' \in [SnellConns -> Seq(Sessions)]
    BY <1>0, <2>1, <2>4 DEF TapeTypes
  <2>8. snellSent' \in [Sessions -> Nat] /\ finished' \in [Sessions -> BOOLEAN]
    <3>1. snellSent[s] + 1 \in Nat
      BY <1>0, <2>1
    <3>2. snellSent' \in [Sessions -> Nat]
      BY <2>4, <3>1 DEF TapeTypes
    <3>3. finished' \in [Sessions -> BOOLEAN]
      BY <2>4 DEF TapeTypes
    <3>4. QED
      BY <3>2, <3>3
  <2>9. QED
    BY <2>2, <2>6, <2>7, <2>8 DEF TapeTypes
<1>7. ASSUME NEW c \in SnellConns, S!ServerCloses(c) PROVE TapeTypes'
  BY <1>7 DEF S!ServerCloses, TapeTypes
<1>8. CASE UNCHANGED S!poolvars
  BY <1>8 DEF S!poolvars, TapeTypes
<1>9. QED
  BY <1>1, <1>2, <1>3, <1>4, <1>5, <1>6, <1>7, <1>8 DEF S!Next

LEMMA OrderStep ==
    ASSUME S!PoolAssumption, S!TypeOK, S!OneUser, TapeTypes, Order, [S!Next]_(S!poolvars) PROVE Order'
<1> USE DEF S!connvars, S!sessvars
<1>0. /\ \A s \in Sessions : before[s] \subseteq Sessions
      /\ \A s \in Sessions : snellPc[s] \in {"get", "header", "read", "close", "done"}
      /\ \A s \in Sessions : snellConn[s] \in SnellConns \cup {S!NoConn}
      /\ S!NoConn \notin SnellConns
  BY DEF TapeTypes, S!TypeOK, S!PoolAssumption
<1>a. \A i \in 1..Len(pool) : pool[i] \in SnellConns
  BY ElementOfSeq, LenProperties DEF S!TypeOK
<1>1. ASSUME NEW s \in Sessions, S!TakeFresh(s) PROVE Order'
  <2> DEFINE c == Head(pool)
  <2>1. /\ snellPc[s] = "get" /\ pool # <<>> /\ snellState' = snellState
        /\ snellConn' = [snellConn EXCEPT ![s] = c] /\ snellPc' = [snellPc EXCEPT ![s] = "header"]
        /\ before' = [before EXCEPT ![s] = {t \in Sessions : snellConn[t] = c}]
    BY <1>1 DEF S!TakeFresh
  <2>2. c = pool[1] /\ 1 \in 1..Len(pool)
    BY <2>1, TailEntries DEF S!TypeOK, S!OneUser
  <2> HIDE DEF c
  <2>3. c \in SnellConns /\ c # S!NoConn /\ snellState[c] = "open"
    BY <1>0, <1>a, <2>2 DEF S!OneUser
  <2>4. snellConn[s] = S!NoConn /\ before[s] = {}
    BY <2>1 DEF Order
  <2>5. \A t \in Sessions : snellConn[t] = c => snellPc[t] = "done" /\ t # s
    <3>1. \A t \in Sessions : S!Holds(t) => snellConn[t] # c
      BY <2>2 DEF S!OneUser
    <3>2. \A t \in Sessions : snellPc[t] = "get" => snellConn[t] # c
      BY <2>3 DEF Order
    <3>3. QED
      BY <1>0, <2>1, <3>1, <3>2 DEF S!Holds
  <2>6. /\ snellConn'[s] = c /\ snellPc'[s] = "header" /\ before'[s] = {t \in Sessions : snellConn[t] = c}
        /\ \A t \in Sessions \ {s} :
              snellConn'[t] = snellConn[t] /\ snellPc'[t] = snellPc[t] /\ before'[t] = before[t]
    BY <2>1 DEF S!TypeOK, TapeTypes
  <2>7. \A t \in Sessions \ {s} : s \notin before[t]
    BY <2>1 DEF Order
  <2>8. \A r \in Sessions : r \notin before'[r]
    BY <2>5, <2>6 DEF Order
  <2>9. \A r \in Sessions : \A t \in before'[r] :
           snellPc'[t] = "done" /\ snellConn'[t] = snellConn'[r] /\ before'[t] \subseteq before'[r]
    <3>1. \A t \in before'[s] :
             snellPc'[t] = "done" /\ snellConn'[t] = snellConn'[s] /\ before'[t] \subseteq before'[s]
      <4> SUFFICES ASSUME NEW t \in before'[s]
                   PROVE  snellPc'[t] = "done" /\ snellConn'[t] = snellConn'[s] /\ before'[t] \subseteq before'[s]
        OBVIOUS
      <4>1. t \in Sessions \ {s} /\ snellConn[t] = c /\ snellPc[t] = "done"
        BY <2>5, <2>6
      <4>2. \A u \in before[t] : u \in Sessions /\ snellConn[u] = c
        BY <1>0, <4>1 DEF Order
      <4>3. QED
        BY <2>6, <4>1, <4>2
    <3>2. ASSUME NEW r \in Sessions \ {s}, NEW t \in before'[r]
          PROVE  snellPc'[t] = "done" /\ snellConn'[t] = snellConn'[r] /\ before'[t] \subseteq before'[r]
      <4>1. t \in before[r] /\ t \in Sessions \ {s}
        BY <1>0, <2>6, <2>7, <3>2
      <4>2. QED
        BY <2>6, <4>1 DEF Order
    <3>3. QED
      BY <3>1, <3>2
  <2>10. \A r \in Sessions : snellPc'[r] = "get" => snellConn'[r] = S!NoConn /\ before'[r] = {}
    BY <2>6 DEF Order
  <2>11. \A r, t \in Sessions :
            r # t /\ snellConn'[r] = snellConn'[t] /\ snellConn'[r] # S!NoConn
               => r \in before'[t] \/ t \in before'[r]
    BY <2>6 DEF Order
  <2>12. \A r \in Sessions : snellConn'[r] # S!NoConn => snellState'[snellConn'[r]] # "none"
    <3>1. snellState'[c] # "none"
      BY <2>1, <2>3
    <3>2. QED
      BY <2>1, <2>6, <3>1 DEF Order
  <2>13. QED
    BY <2>8, <2>9, <2>10, <2>11, <2>12 DEF Order
<1>2. ASSUME NEW s \in Sessions, S!Dial(s) PROVE Order'
  <2>1. before' = before /\ snellPc[s] = "get"
    BY <1>2 DEF S!Dial
  <2>2. snellConn[s] = S!NoConn /\ before[s] = {} /\ \A t \in Sessions : s \notin before[t]
    BY <2>1 DEF Order
  <2>3. CASE snellPc' = [snellPc EXCEPT ![s] = "done"] /\ UNCHANGED <<snellState, snellConn>>
    <3>1. \A t \in Sessions : snellPc'[t] = IF t = s THEN "done" ELSE snellPc[t]
      BY <2>3 DEF S!TypeOK
    <3>2. QED
      BY <1>0, <2>1, <2>2, <2>3, <3>1 DEF Order
  <2>4. ASSUME NEW c \in SnellConns, snellState[c] = "none", snellState' = [snellState EXCEPT ![c] = "open"],
               snellConn' = [snellConn EXCEPT ![s] = c], snellPc' = [snellPc EXCEPT ![s] = "header"]
        PROVE  Order'
    <3>1. /\ \A t \in Sessions : snellPc'[t] = IF t = s THEN "header" ELSE snellPc[t]
          /\ \A t \in Sessions : snellConn'[t] = IF t = s THEN c ELSE snellConn[t]
          /\ \A d \in SnellConns : snellState'[d] = IF d = c THEN "open" ELSE snellState[d]
      BY <2>4 DEF S!TypeOK
    <3>2. \A t \in Sessions : snellConn[t] # c
      BY <1>0, <2>4 DEF Order
    <3>3. \A r \in Sessions : /\ r \notin before[r]
                              /\ \A t \in before[r] : t # s /\ r # s
      BY <2>2 DEF Order
    <3>4. \A r \in Sessions : \A t \in before[r] :
             snellPc'[t] = "done" /\ snellConn'[t] = snellConn'[r] /\ before[t] \subseteq before[r]
      BY <1>0, <3>1, <3>3 DEF Order
    <3>5. \A r \in Sessions : snellPc'[r] = "get" => snellConn'[r] = S!NoConn /\ before[r] = {}
      BY <3>1 DEF Order
    <3>6. \A r, t \in Sessions :
             r # t /\ snellConn'[r] = snellConn'[t] /\ snellConn'[r] # S!NoConn
               => r \in before[t] \/ t \in before[r]
      BY <3>1, <3>2 DEF Order
    <3>7. \A r \in Sessions : snellConn'[r] # S!NoConn => snellState'[snellConn'[r]] # "none"
      BY <1>0, <3>1 DEF Order
    <3>8. QED
      BY <2>1, <3>3, <3>4, <3>5, <3>6, <3>7 DEF Order
  <2>5. QED
    BY <1>2, <2>3, <2>4 DEF S!Dial
<1>3. ASSUME snellConn' = snellConn, before' = before,
             \A c \in SnellConns : snellState[c] # "none" => snellState'[c] # "none",
             \A t \in Sessions : /\ snellPc[t] = "done" => snellPc'[t] = "done"
                                 /\ snellPc'[t] = "get" => snellPc[t] = "get"
      PROVE  Order'
  BY <1>0, <1>3 DEF Order
<1>4. ASSUME NEW s \in Sessions, S!TakeExpired(s) PROVE Order'
  <2>1. snellConn' = snellConn /\ before' = before /\ snellPc' = snellPc
        /\ \E c : snellState' = [snellState EXCEPT ![c] = "closed"]
    BY <1>4 DEF S!TakeExpired
  <2>2. \A c \in SnellConns : snellState'[c] \in {snellState[c], "closed"}
    BY <2>1 DEF S!TypeOK
  <2>3. QED
    BY <1>3, <2>1, <2>2
<1>5. ASSUME NEW s \in Sessions, S!WriteHeader(s) \/ S!Read(s) \/ S!ReadError(s) \/ S!Interrupt(s)
      PROVE  Order'
  <2>1. UNCHANGED <<snellConn, before, snellState>> /\ snellPc[s] \in {"header", "read"}
    BY <1>5 DEF S!WriteHeader, S!Read, S!ReadError, S!Interrupt
  <2>2. snellPc' = snellPc \/ \E where \in {"read", "close"} : snellPc' = [snellPc EXCEPT ![s] = where]
    BY <1>5 DEF S!WriteHeader, S!Read, S!ReadError, S!Interrupt, S!Stops, S!LooksFor, S!ZeroFirst
  <2>3. \A t \in Sessions : /\ snellPc[t] = "done" => snellPc'[t] = "done"
                            /\ snellPc'[t] = "get" => snellPc[t] = "get"
    BY <2>1, <2>2 DEF S!TypeOK
  <2>4. QED
    BY <1>3, <2>1, <2>3
<1>6. ASSUME NEW s \in Sessions, S!Close(s) PROVE Order'
  <2>1. /\ UNCHANGED <<snellConn, before>> /\ snellPc' = [snellPc EXCEPT ![s] = "done"]
        /\ snellState' = snellState \/ snellState' = [snellState EXCEPT ![snellConn[s]] = "closed"]
    BY <1>6 DEF S!Close
  <2>2. \A t \in Sessions : /\ snellPc[t] = "done" => snellPc'[t] = "done"
                            /\ snellPc'[t] = "get" => snellPc[t] = "get"
    BY <2>1 DEF S!TypeOK
  <2>3. \A c \in SnellConns : snellState'[c] \in {snellState[c], "closed"}
    BY <2>1 DEF S!TypeOK
  <2>4. QED
    BY <1>3, <2>1, <2>2, <2>3
<1>7. ASSUME NEW c \in SnellConns, S!ServerSends(c) \/ S!ServerCloses(c) PROVE Order'
  BY <1>3, <1>7 DEF S!ServerSends, S!ServerCloses
<1>8. CASE UNCHANGED S!poolvars
  BY <1>3, <1>8 DEF S!poolvars
<1>9. QED
  BY <1>1, <1>2, <1>4, <1>5, <1>6, <1>7, <1>8 DEF S!Next

LEMMA AskedStep ==
    ASSUME S!PoolAssumption, S!TypeOK, S!OneUser, TapeTypes, Order, AskedInv, Young,
           [S!Next]_(S!poolvars)
    PROVE  AskedInv'
<1> USE DEF S!connvars, S!sessvars
<1>0. /\ \A c \in SnellConns : asked[c] \in Seq(Sessions) /\ Len(asked[c]) \in Nat
      /\ \A c \in SnellConns : \A i \in 1..Len(asked[c]) : asked[c][i] \in Sessions
      /\ \A s \in Sessions : S!Holds(s) => snellConn[s] \in SnellConns
  BY ElementOfSeq, LenProperties DEF TapeTypes, S!TypeOK
<1>1. ASSUME asked' = asked, finished' = finished,
             \A t \in Sessions : snellPc[t] \in {"read", "close", "done"} =>
                /\ snellPc'[t] \in {"read", "close", "done"} /\ snellConn'[t] = snellConn[t]
                /\ end'[t] = "header" => end[t] = "header"
      PROVE  AskedInv'
  BY <1>0, <1>1 DEF AskedInv, HasAsked
<1>2. ASSUME NEW s \in Sessions, S!TakeExpired(s) \/ S!TakeFresh(s) \/ S!Dial(s) PROVE AskedInv'
  <2>1. UNCHANGED <<asked, finished, end>>
    BY <1>2 DEF S!TakeExpired, S!TakeFresh, S!Dial
  <2>2. /\ snellPc[s] = "get"
        /\ \A t \in Sessions \ {s} : snellPc'[t] = snellPc[t] /\ snellConn'[t] = snellConn[t]
    BY <1>2 DEF S!TakeExpired, S!TakeFresh, S!Dial, S!TypeOK
  <2>3. QED
    BY <1>1, <2>1, <2>2
<1>3. ASSUME NEW s \in Sessions, S!WriteHeader(s) PROVE AskedInv'
  <2>1. UNCHANGED <<snellConn, finished>> /\ snellPc[s] = "header" /\ snellConn[s] \in SnellConns
    BY <1>0, <1>3 DEF S!WriteHeader, S!Holds
  <2>2. CASE asked' = asked /\ snellPc' = [snellPc EXCEPT ![s] = "close"] /\ end' = [end EXCEPT ![s] = "header"]
    <3>1. \A t \in Sessions \ {s} : snellPc'[t] = snellPc[t] /\ end'[t] = end[t]
      BY <2>2 DEF S!TypeOK, TapeTypes
    <3>2. QED
      BY <1>1, <2>1, <2>2, <3>1
  <2>3. CASE /\ asked' = [asked EXCEPT ![snellConn[s]] = Append(asked[snellConn[s]], s)]
             /\ snellPc' = [snellPc EXCEPT ![s] = "read"] /\ end' = end /\ end[s] # "header" /\ ~finished[s]
    <3> DEFINE c == snellConn[s]
    <3>1. \A t \in Sessions : snellPc'[t] = IF t = s THEN "read" ELSE snellPc[t]
      BY <2>3 DEF S!TypeOK
    <3>2. \A d \in SnellConns : asked'[d] = IF d = c THEN Append(asked[c], s) ELSE asked[d]
      BY <2>1, <2>3 DEF TapeTypes
    <3>3. ASSUME NEW d \in SnellConns, NEW t \in Sessions, HasAsked(t, d) PROVE t # s /\ HasAsked(t, d)'
      BY <2>1, <2>3, <3>1, <3>3 DEF HasAsked
    <3> HIDE DEF c
    <3>4. /\ Len(Append(asked[c], s)) = Len(asked[c]) + 1 /\ Append(asked[c], s)[Len(asked[c]) + 1] = s
          /\ \A i \in 1..Len(asked[c]) : Append(asked[c], s)[i] = asked[c][i]
      BY <1>0, <2>1, AppendProperties DEF c
    <3>6. HasAsked(s, c)' /\ c' = c
      BY <2>1, <2>3, <3>1 DEF HasAsked, c
    <3>7. c \in SnellConns
      BY <2>1 DEF c
    <3>5. /\ asked'[c] = Append(asked[c], s) /\ Len(asked'[c]) = Len(asked[c]) + 1
          /\ \A i \in 1..Len(asked'[c]) : i \in 1..Len(asked[c]) \/ i = Len(asked[c]) + 1
      <4>1. asked'[c] = Append(asked[c], s)
        BY <3>2, <3>7
      <4>2. Len(asked[c]) \in Nat /\ Len(asked'[c]) = Len(asked[c]) + 1
        BY <1>0, <3>4, <3>7, <4>1
      <4>3. QED
        BY <4>1, <4>2
    <3>8. ASSUME NEW i \in 1..Len(asked'[c])
          PROVE  /\ asked'[c][i] \in Sessions /\ HasAsked(asked[c][i], c)'
                 /\ asked'[c][i] = IF i \in 1..Len(asked[c]) THEN asked[c][i] ELSE s
      <4>1. CASE i \in 1..Len(asked[c])
        <5>1. asked[c][i] \in Sessions /\ HasAsked(asked[c][i], c)
          BY <1>0, <3>7, <4>1 DEF AskedInv
        <5>2. asked'[c][i] = asked[c][i]
          BY <3>4, <3>5, <4>1
        <5>3. QED
          BY <3>3, <3>6, <3>7, <4>1, <5>1, <5>2
      <4>2. CASE i = Len(asked[c]) + 1
        <5>1. asked'[c][i] = s /\ i \notin 1..Len(asked[c])
          BY <1>0, <3>4, <3>5, <3>7, <4>2
        <5>2. QED
          BY <3>6, <5>1
      <4>3. QED
        BY <3>5, <4>1, <4>2
    <3>9. \A i, j \in 1..Len(asked'[c]) : i # j => asked'[c][i] # asked'[c][j]
      <4>1. \A i \in 1..Len(asked[c]) : asked[c][i] # s
        BY <1>0, <3>3, <3>7 DEF AskedInv
      <4>2. QED
        BY <3>5, <3>7, <3>8, <4>1 DEF AskedInv
    <3>10. ASSUME NEW d \in SnellConns \ {c}
           PROVE  /\ \A i \in 1..Len(asked'[d]) : HasAsked(asked[d][i], d)'
                  /\ \A i, j \in 1..Len(asked'[d]) : i # j => asked'[d][i] # asked'[d][j]
      <4>1. asked'[d] = asked[d]
        BY <3>2
      <4>2. QED
        BY <1>0, <3>3, <4>1 DEF AskedInv
    <3>11. QED
      BY <3>6, <3>8, <3>9, <3>10 DEF AskedInv
  <2>4. QED
    BY <1>3, <2>1, <2>2, <2>3 DEF S!WriteHeader, Young
<1>4. ASSUME NEW s \in Sessions, S!Read(s) \/ S!ReadError(s) \/ S!Interrupt(s) \/ S!Close(s) PROVE AskedInv'
  <2>1. UNCHANGED <<asked, finished, snellConn>> /\ snellPc[s] \in {"read", "close"}
    BY <1>4 DEF S!Read, S!ReadError, S!Interrupt, S!Close
  <2>2. snellPc' = snellPc \/ \E where \in {"close", "done"} : snellPc' = [snellPc EXCEPT ![s] = where]
    BY <1>4 DEF S!Read, S!ReadError, S!Interrupt, S!Close, S!Stops, S!LooksFor, S!ZeroFirst
  <2>3. end' = end \/ \E why \in {"zero", "error", "interrupted"} : end' = [end EXCEPT ![s] = why]
    BY <1>4 DEF S!Read, S!ReadError, S!Interrupt, S!Close, S!Stops, S!LooksFor, S!ZeroFirst
  <2>4. \A t \in Sessions : /\ snellPc'[t] = snellPc[t] \/ snellPc'[t] \in {"close", "done"}
                            /\ end'[t] = "header" => end[t] = "header"
    BY <2>2, <2>3 DEF S!TypeOK, TapeTypes
  <2>5. QED
    BY <1>1, <2>1, <2>4
<1>5. ASSUME NEW c \in SnellConns, S!ServerSends(c) PROVE AskedInv'
  <2>1. UNCHANGED <<snellPc, snellConn, end>> /\ asked[c] # <<>>
    BY <1>5 DEF S!ServerSends
  <2>2. CASE UNCHANGED <<asked, finished>>
    BY <1>1, <2>1, <2>2
  <2>3. CASE /\ asked' = [asked EXCEPT ![c] = Tail(asked[c])]
             /\ finished' = [finished EXCEPT ![Head(asked[c])] = TRUE]
    <3>1. /\ Head(asked[c]) \in Sessions /\ Head(asked[c]) = asked[c][1] /\ Len(asked[c]) \in Nat \ {0}
          /\ \A i \in 1..Len(Tail(asked[c])) :
                 /\ i + 1 \in 1..Len(asked[c]) /\ Tail(asked[c])[i] = asked[c][i + 1]
                 /\ Tail(asked[c])[i] # Head(asked[c])
          /\ \A i, j \in 1..Len(Tail(asked[c])) : i # j => Tail(asked[c])[i] # Tail(asked[c])[j]
      BY <1>0, <2>1, TailEntries DEF AskedInv
    <3>2. asked'[c] = Tail(asked[c]) /\ \A d \in SnellConns \ {c} : asked'[d] = asked[d]
      BY <2>3 DEF TapeTypes
    <3>3. \A t \in Sessions \ {Head(asked[c])} : finished'[t] = finished[t]
      BY <2>3 DEF TapeTypes
    <3>4. snellConn[Head(asked[c])] = c
      BY <3>1 DEF AskedInv, HasAsked
    <3>5. ASSUME NEW d \in SnellConns, NEW t \in Sessions, t # Head(asked[c]), HasAsked(t, d)
          PROVE  HasAsked(t, d)'
      BY <2>1, <3>3, <3>5 DEF HasAsked
    <3>6. ASSUME NEW i \in 1..Len(asked'[c])
          PROVE  HasAsked(asked[c][i], c)'
      <4>1. /\ i + 1 \in 1..Len(asked[c]) /\ asked'[c][i] = asked[c][i + 1]
            /\ asked[c][i + 1] # Head(asked[c])
        BY <3>1, <3>2
      <4>2. asked[c][i + 1] \in Sessions /\ HasAsked(asked[c][i + 1], c)
        BY <1>0, <4>1 DEF AskedInv
      <4>3. QED
        BY <3>5, <4>1, <4>2
    <3>7. \A i, j \in 1..Len(asked'[c]) : i # j => asked'[c][i] # asked'[c][j]
      BY <3>1, <3>2
    <3>8. ASSUME NEW d \in SnellConns \ {c}
          PROVE  /\ \A i \in 1..Len(asked'[d]) : HasAsked(asked[d][i], d)'
                 /\ \A i, j \in 1..Len(asked'[d]) : i # j => asked'[d][i] # asked'[d][j]
      <4>1. asked'[d] = asked[d]
        BY <3>2
      <4>2. ASSUME NEW i \in 1..Len(asked[d])
            PROVE  asked[d][i] \in Sessions /\ HasAsked(asked[d][i], d) /\ asked[d][i] # Head(asked[c])
        BY <1>0, <3>4 DEF AskedInv, HasAsked
      <4>3. QED
        BY <3>5, <4>1, <4>2 DEF AskedInv
    <3>9. QED
      BY <3>6, <3>7, <3>8 DEF AskedInv
  <2>4. QED
    BY <1>5, <2>2, <2>3 DEF S!ServerSends
<1>6. ASSUME NEW c \in SnellConns, S!ServerCloses(c) PROVE AskedInv'
  BY <1>1, <1>6 DEF S!ServerCloses
<1>7. CASE UNCHANGED S!poolvars
  BY <1>1, <1>7 DEF S!poolvars
<1>8. QED
  BY <1>2, <1>3, <1>4, <1>5, <1>6, <1>7 DEF S!Next

LEMMA ReplyStep ==
    ASSUME S!PoolAssumption, S!TypeOK, S!OneUser, Order, ReplySeen, [S!Next]_(S!poolvars)
    PROVE  ReplySeen'
<1> USE DEF S!connvars, S!sessvars
<1>1. ASSUME reply' = reply, snellConn' = snellConn,
             \A c \in SnellConns : snellState[c] = "closed" => snellState'[c] = "closed",
             \A t \in Sessions : snellPc[t] \in {"read", "close"} => snellPc'[t] \in {"read", "close"}
      PROVE  ReplySeen'
  BY <1>1 DEF ReplySeen
<1>2. ASSUME NEW s \in Sessions, S!TakeExpired(s) PROVE ReplySeen'
  <2>1. \A c \in SnellConns : snellState[c] = "closed" => snellState'[c] = "closed"
    BY <1>2 DEF S!TakeExpired, S!TypeOK
  <2>2. QED
    BY <1>1, <1>2, <2>1 DEF S!TakeExpired
<1>3. ASSUME NEW s \in Sessions, S!TakeFresh(s) \/ S!Dial(s) PROVE ReplySeen'
  <2>1. /\ reply' = reply /\ snellPc[s] = "get"
        /\ \A t \in Sessions \ {s} : snellPc'[t] = snellPc[t] /\ snellConn'[t] = snellConn[t]
    BY <1>3 DEF S!TakeFresh, S!Dial, S!TypeOK
  <2>2. \A c \in SnellConns : snellState[c] = "closed" => snellState'[c] = "closed"
    BY <1>3 DEF S!TakeFresh, S!Dial, S!TypeOK
  <2>3. QED
    BY <2>1, <2>2 DEF ReplySeen
<1>4. ASSUME NEW s \in Sessions, S!WriteHeader(s) PROVE ReplySeen'
  <2>1. UNCHANGED <<snellState, snellConn>> /\ snellPc[s] = "header"
    BY <1>4 DEF S!WriteHeader
  <2>2. CASE reply' = reply
    <3>1. \A t \in Sessions \ {s} : snellPc'[t] = snellPc[t]
      BY <1>4 DEF S!WriteHeader, S!TypeOK
    <3>2. QED
      BY <1>1, <2>1, <2>2, <3>1
  <2>3. CASE reply' = [reply EXCEPT ![snellConn[s]] = TRUE] /\ snellPc' = [snellPc EXCEPT ![s] = "read"]
    <3>1. snellPc'[s] = "read" /\ \A t \in Sessions \ {s} : snellPc'[t] = snellPc[t]
      BY <2>3 DEF S!TypeOK
    <3>2. \A c \in SnellConns : c = snellConn[s] \/ reply'[c] = reply[c]
      BY <2>3 DEF S!TypeOK
    <3>3. QED
      BY <2>1, <3>1, <3>2 DEF ReplySeen
  <2>4. QED
    BY <1>4, <2>2, <2>3 DEF S!WriteHeader
<1>5. ASSUME NEW s \in Sessions, S!Read(s) \/ S!ReadError(s) \/ S!Interrupt(s) PROVE ReplySeen'
  <2>1. UNCHANGED <<reply, snellState, snellConn>>
    BY <1>5 DEF S!Read, S!ReadError, S!Interrupt
  <2>2. snellPc' = snellPc \/ snellPc' = [snellPc EXCEPT ![s] = "close"]
    BY <1>5 DEF S!Read, S!ReadError, S!Interrupt, S!Stops, S!LooksFor, S!ZeroFirst
  <2>3. \A t \in Sessions : snellPc'[t] = snellPc[t] \/ snellPc'[t] = "close"
    BY <2>2 DEF S!TypeOK
  <2>4. QED
    BY <1>1, <2>1, <2>3
<1>6. ASSUME NEW s \in Sessions, S!Close(s) PROVE ReplySeen'
  <2>1. snellConn' = snellConn /\ snellConn[s] \in SnellConns
    BY <1>6 DEF S!Close, S!TypeOK, S!Holds
  <2>2. \A t \in Sessions \ {s} : snellPc'[t] = snellPc[t]
    BY <1>6 DEF S!Close, S!TypeOK
  <2>3. \A c \in SnellConns \ {snellConn[s]} : reply'[c] = reply[c] /\ snellState'[c] = snellState[c]
    BY <1>6 DEF S!Close, S!TypeOK
  <2>4. reply'[snellConn[s]] => snellState'[snellConn[s]] = "closed"
    BY <1>6, <2>1 DEF S!Close, S!TypeOK
  <2>5. QED
    BY <2>1, <2>2, <2>3, <2>4 DEF ReplySeen
<1>7. ASSUME NEW c \in SnellConns, S!ServerSends(c) \/ S!ServerCloses(c) PROVE ReplySeen'
  BY <1>1, <1>7 DEF S!ServerSends, S!ServerCloses
<1>8. CASE UNCHANGED S!poolvars
  BY <1>1, <1>8 DEF S!poolvars
<1>9. QED
  BY <1>2, <1>3, <1>4, <1>5, <1>6, <1>7, <1>8 DEF S!Next

LEMMA YoungStep ==
    ASSUME S!PoolAssumption, S!TypeOK, TapeTypes, AskedInv, Young, [S!Next]_(S!poolvars) PROVE Young'
<1> USE DEF S!connvars, S!sessvars
<1>1. ASSUME UNCHANGED <<end, want, snellGot, snellSent, finished>>,
             \A t \in Sessions : /\ snellPc'[t] \in {"get", "header"} => snellPc[t] \in {"get", "header"}
                                 /\ snellPc'[t] = "read" => snellPc[t] = "read"
      PROVE  Young'
  BY <1>1 DEF Young
<1>2. ASSUME NEW s \in Sessions, S!TakeExpired(s) \/ S!TakeFresh(s) \/ S!Dial(s) \/ S!Close(s)
      PROVE  Young'
  <2>1. UNCHANGED <<end, want, snellGot, snellSent, finished>>
    BY <1>2 DEF S!TakeExpired, S!TakeFresh, S!Dial, S!Close
  <2>2. /\ snellPc[s] = "get" \/ snellPc'[s] = "done"
        /\ snellPc'[s] # "read" /\ \A t \in Sessions \ {s} : snellPc'[t] = snellPc[t]
    BY <1>2 DEF S!TakeExpired, S!TakeFresh, S!Dial, S!Close, S!TypeOK
  <2>3. QED
    BY <1>1, <2>1, <2>2
<1>3. ASSUME NEW s \in Sessions, S!WriteHeader(s) \/ S!Read(s) \/ S!ReadError(s) \/ S!Interrupt(s)
      PROVE  Young'
  <2>1. UNCHANGED <<snellSent, finished>> /\ snellPc[s] \in {"header", "read"}
    BY <1>3 DEF S!WriteHeader, S!Read, S!ReadError, S!Interrupt
  <2>a. \A t \in Sessions \ {s} : snellPc'[t] = snellPc[t] /\ end'[t] = end[t]
    <3>1. \A t \in Sessions \ {s} : snellPc'[t] = snellPc[t]
      BY <1>3 DEF S!WriteHeader, S!Read, S!ReadError, S!Interrupt, S!Stops, S!LooksFor, S!ZeroFirst,
                  S!TypeOK
    <3>2. \A t \in Sessions \ {s} : end'[t] = end[t]
      BY <1>3 DEF S!WriteHeader, S!Read, S!ReadError, S!Interrupt, S!Stops, S!LooksFor, S!ZeroFirst,
                  TapeTypes
    <3>3. QED
      BY <3>1, <3>2
  <2>b. \A t \in Sessions \ {s} : want'[t] = want[t] /\ snellGot'[t] = snellGot[t]
    BY <1>3 DEF S!WriteHeader, S!Read, S!ReadError, S!Interrupt, S!Stops, S!LooksFor, S!ZeroFirst,
                S!TypeOK, TapeTypes
  <2>3. snellPc'[s] \in {"read", "close"} /\ (snellPc'[s] = "read" => end'[s] = end[s])
    BY <1>3 DEF S!WriteHeader, S!Read, S!ReadError, S!Interrupt, S!Stops, S!LooksFor, S!ZeroFirst,
                S!TypeOK
  <2>4. QED
    BY <2>1, <2>a, <2>b, <2>3 DEF Young
<1>4. ASSUME NEW c \in SnellConns, S!ServerSends(c) PROVE Young'
  <2>1. UNCHANGED <<end, want, snellGot, snellPc>>
    BY <1>4 DEF S!ServerSends
  <2>2. Head(asked[c]) \in Sessions /\ Head(asked[c]) = asked[c][1] /\ 1 \in 1..Len(asked[c])
    <3>1. asked[c] \in Seq(Sessions) /\ asked[c] # <<>>
      BY <1>4 DEF S!ServerSends, TapeTypes
    <3>2. QED
      BY <3>1, HeadTailProperties, EmptySeq
  <2>3. snellPc[Head(asked[c])] \in {"read", "close", "done"}
    BY <2>2 DEF AskedInv, HasAsked
  <2>4. \A t \in Sessions \ {Head(asked[c])} : snellSent'[t] = snellSent[t] /\ finished'[t] = finished[t]
    BY <1>4 DEF S!ServerSends, TapeTypes
  <2>5. QED
    BY <2>1, <2>3, <2>4 DEF Young
<1>5. ASSUME NEW c \in SnellConns, S!ServerCloses(c) PROVE Young'
  BY <1>1, <1>5 DEF S!ServerCloses
<1>6. CASE UNCHANGED S!poolvars
  BY <1>1, <1>6 DEF S!poolvars
<1>7. QED
  BY <1>2, <1>3, <1>4, <1>5, <1>6 DEF S!Next

(* What one session does to a connection leaves the others as they are.    *)
LEMMA TapeSame ==
    ASSUME NEW s \in Sessions, NEW c \in SnellConns, Tape(s, c),
           stream'[c] = stream[c], asked'[c] = asked[c], begun'[c] = begun[c], want'[s] = want[s],
           snellGot'[s] = snellGot[s], snellSent'[s] = snellSent[s], finished'[s] = finished[s],
           before'[s] = before[s]
    PROVE  Tape(s, c)'
<1>1. AnswerOf(stream[c], s, c)' <=> AnswerOf(stream[c], s, c)
  BY DEF AnswerOf
<1>2. AnswerOf(Tail(stream[c]), s, c)' <=> AnswerOf(Tail(stream[c]), s, c)
  BY DEF AnswerOf
<1>3. NextIs(s, c)' <=> NextIs(s, c)
  BY DEF NextIs
<1>4. ReadsOn(s, c) => ReadsOn(s, c)'
  BY <1>3 DEF ReadsOn
<1>5. Begins(s, c) => Begins(s, c)'
  BY <1>1, <1>2, <1>3 DEF Begins
<1>6. Awaits(s, c) => Awaits(s, c)'
  BY DEF Awaits
<1>7. QED
  BY <1>4, <1>5, <1>6 DEF Tape

LEMMA Users ==
    ASSUME Order, NEW s \in Sessions, S!Holds(s)
    PROVE  /\ \A t \in Sessions : s \notin before[t]
           /\ snellConn[s] # S!NoConn =>
                 \A t \in Sessions \ {s} : snellConn[t] = snellConn[s] => t \in before[s] /\ snellPc[t] = "done"
<1>1. \A t \in Sessions : s \notin before[t]
  BY DEF Order, S!Holds
<1>2. ASSUME snellConn[s] # S!NoConn, NEW t \in Sessions \ {s}, snellConn[t] = snellConn[s]
      PROVE  t \in before[s] /\ snellPc[t] = "done"
  BY <1>1, <1>2 DEF Order
<1>3. QED
  BY <1>1, <1>2

LEMMA SessionStep ==
    ASSUME S!PoolAssumption, SnellInv, NEW s \in Sessions, NEW c \in SnellConns, snellConn[s] = c, S!Holds(s),
           UNCHANGED <<snellConn, snellSent, finished, before, begun>>,
           \A t \in Sessions \ {s} : /\ snellPc'[t] = snellPc[t] /\ want'[t] = want[t]
                                     /\ snellGot'[t] = snellGot[t] /\ end'[t] = end[t],
           \A d \in SnellConns \ {c} : stream'[d] = stream[d] /\ asked'[d] = asked[d],
           snellPc'[s] = "read" /\ Fresh(s) => Tape(s, c)',
           snellPc'[s] # "read" /\ Fresh(s) /\ Clean(s)' => Quiet(c)',
           Fresh(s) => OwnSoFar(s)'
    PROVE  ReadersInv' /\ QuietInv' /\ AnswersOwn'
<1>0. /\ c # S!NoConn
      /\ \A t \in Sessions : before[t] \subseteq Sessions
      /\ \A t \in Sessions \ {s} : S!Holds(t) => snellConn[t] # c
  BY DEF S!PoolAssumption, SnellInv, TapeTypes, S!OneUser
<1>1. \A t \in Sessions \ {s} : Clean(t)' <=> Clean(t)
  BY DEF Clean
<1>2. \A t \in Sessions : s \notin before[t]
  BY Users DEF SnellInv
<1>3. \A t \in Sessions : Fresh(t)' <=> Fresh(t)
  BY <1>0, <1>1, <1>2 DEF Fresh
<1>4. ASSUME NEW t \in Sessions, NEW d \in SnellConns, snellPc'[t] = "read", snellConn'[t] = d, Fresh(t)'
      PROVE  Tape(t, d)'
  <2>1. CASE t = s
    BY <1>3, <1>4, <2>1
  <2>2. CASE t # s
    <3>1. snellPc[t] = "read" /\ snellConn[t] = d /\ Fresh(t)
      BY <1>3, <1>4, <2>2
    <3>2. d # c
      BY <1>0, <2>2, <3>1 DEF S!Holds
    <3>3. Tape(t, d)
      BY <3>1 DEF SnellInv, ReadersInv
    <3>4. stream'[d] = stream[d] /\ asked'[d] = asked[d] /\ want'[t] = want[t] /\ snellGot'[t] = snellGot[t]
      BY <2>2, <3>2
    <3>5. QED
      BY <3>3, <3>4, TapeSame
  <2>3. QED
    BY <2>1, <2>2
<1>5. ASSUME NEW d \in SnellConns,
             \A t \in Sessions : snellConn'[t] = d => snellPc'[t] # "read" /\ Clean(t)'
      PROVE  Quiet(d)'
  <2>1. CASE d = c
    <3>1. \A t \in before[s] : t \in Sessions \ {s} /\ snellConn[t] = c
      BY <1>0, <1>2 DEF SnellInv, Order
    <3>2. Fresh(s)
      BY <1>1, <1>5, <2>1, <3>1 DEF Fresh
    <3>3. QED
      BY <1>5, <2>1, <3>2
  <2>2. CASE d # c
    <3>1. Quiet(d)
      BY <1>1, <1>5, <2>2 DEF SnellInv, QuietInv
    <3>2. stream'[d] = stream[d] /\ asked'[d] = asked[d]
      BY <2>2
    <3>3. QED
      BY <3>1, <3>2 DEF Quiet
  <2>3. QED
    BY <2>1, <2>2
<1>6. ASSUME NEW t \in Sessions, Fresh(t)' PROVE OwnSoFar(t)'
  <2>1. CASE t = s
    BY <1>3, <1>6, <2>1
  <2>2. CASE t # s
    <3>1. OwnSoFar(t)
      BY <1>3, <1>6 DEF SnellInv, AnswersOwn
    <3>2. QED
      BY <2>2, <3>1 DEF OwnSoFar, S!ReadAll
  <2>3. QED
    BY <2>1, <2>2
<1>7. QED
  BY <1>4, <1>5, <1>6 DEF ReadersInv, QuietInv, AnswersOwn

LEMMA TapeIdle ==
    ASSUME SnellInv, UNCHANGED <<stream, asked, begun, snellPc, snellConn, want, snellGot, snellSent,
                                 finished, end, before>>
    PROVE  ReadersInv' /\ QuietInv' /\ AnswersOwn'
<1>1. /\ \A s \in Sessions : Clean(s)' <=> Clean(s)
      /\ \A s \in Sessions : before[s] \subseteq Sessions
  BY DEF Clean, SnellInv, TapeTypes
<1>2. \A s \in Sessions : (Fresh(s)' <=> Fresh(s)) /\ (OwnSoFar(s) => OwnSoFar(s)')
  BY <1>1 DEF Fresh, OwnSoFar, S!ReadAll
<1>3. \A s \in Sessions, c \in SnellConns : Tape(s, c) => Tape(s, c)'
  BY TapeSame
<1>4. \A c \in SnellConns : Quiet(c) => Quiet(c)'
  BY DEF Quiet
<1>5. ReadersInv'
  BY <1>2, <1>3 DEF SnellInv, ReadersInv
<1>6. QuietInv'
  BY <1>1, <1>4 DEF SnellInv, QuietInv
<1>7. AnswersOwn'
  BY <1>2 DEF SnellInv, AnswersOwn
<1>8. QED
  BY <1>5, <1>6, <1>7

(* A session gets its connection, or none.                                 *)
LEMMA TapeGet ==
    ASSUME S!PoolAssumption, SnellInv, NEW s \in Sessions, S!TakeFresh(s) \/ S!Dial(s)
    PROVE  ReadersInv' /\ QuietInv' /\ AnswersOwn'
<1>1. /\ UNCHANGED <<stream, asked, begun, want, snellGot, snellSent, finished, end>>
      /\ snellPc[s] = "get" /\ snellPc'[s] # "read"
      /\ \A t \in Sessions \ {s} : /\ snellPc'[t] = snellPc[t] /\ snellConn'[t] = snellConn[t]
                                   /\ before'[t] = before[t]
  <2>1. CASE S!TakeFresh(s)
    BY <2>1 DEF S!TakeFresh, S!connvars, SnellInv, S!TypeOK, TapeTypes
  <2>2. CASE S!Dial(s)
    BY <2>2 DEF S!Dial, SnellInv, S!TypeOK
  <2>3. QED
    BY <2>1, <2>2
<1>2. /\ \A t \in Sessions : Clean(t)' <=> Clean(t)
      /\ \A t \in Sessions : before[t] \subseteq Sessions
  BY <1>1 DEF Clean, SnellInv, TapeTypes
<1>3. /\ \A t \in Sessions \ {s} : Fresh(t)' <=> Fresh(t)
      /\ \A t \in Sessions : OwnSoFar(t) => OwnSoFar(t)'
  BY <1>1, <1>2 DEF Fresh, OwnSoFar, S!ReadAll
<1>4. OwnSoFar(s)
  <2>1. end[s] = "" /\ snellGot[s] = <<>> /\ snellSent[s] = 0
    BY <1>1 DEF SnellInv, Young
  <2>2. Len(snellGot[s]) = 0 /\ snellSent[s] = 0
    BY <2>1, EmptySeq
  <2>3. \A i \in 1..Len(snellGot[s]) : FALSE
    BY <2>2
  <2>4. Len(snellGot[s]) <= snellSent[s] /\ end[s] # "zero"
    <3>1. Len(snellGot[s]) <= snellSent[s]
      BY <2>2
    <3>2. end[s] # "zero"
      BY <2>1, Zenon
    <3>3. QED
      BY <3>1, <3>2
  <2>5. QED
    BY <2>3, <2>4, Zenon DEF OwnSoFar
<1>5. ReadersInv'
  <2>1. ASSUME NEW t \in Sessions, NEW c \in SnellConns, snellPc'[t] = "read", snellConn'[t] = c, Fresh(t)'
        PROVE  Tape(t, c)'
    <3>1. t # s
      BY <1>1, <2>1
    <3>2. snellPc[t] = "read" /\ snellConn[t] = c /\ Fresh(t)
      BY <1>1, <1>3, <2>1, <3>1
    <3>3. Tape(t, c)
      BY <3>2 DEF SnellInv, ReadersInv
    <3>4. QED
      BY <1>1, <3>1, <3>3, TapeSame
  <2>2. QED
    BY <2>1 DEF ReadersInv
<1>6. QuietInv'
  <2>1. ASSUME NEW c \in SnellConns,
               \A t \in Sessions : snellConn'[t] = c => snellPc'[t] # "read" /\ Clean(t)'
        PROVE  Quiet(c)'
    <3>1. snellConn[s] # c
      BY <1>1 DEF SnellInv, Order, S!PoolAssumption
    <3>2. \A t \in Sessions : snellConn[t] = c => snellPc[t] # "read" /\ Clean(t)
      BY <1>1, <1>2, <2>1, <3>1
    <3>3. Quiet(c)
      BY <3>2 DEF SnellInv, QuietInv
    <3>4. QED
      BY <1>1, <3>3 DEF Quiet
  <2>2. QED
    BY <2>1 DEF QuietInv
<1>7. AnswersOwn'
  BY <1>3, <1>4 DEF SnellInv, AnswersOwn
<1>8. QED
  BY <1>5, <1>6, <1>7

(* The header is sent, and the reading begins, on a connection at rest.    *)
LEMMA TapeHeader ==
    ASSUME S!PoolAssumption, SnellInv, NEW s \in Sessions, S!WriteHeader(s),
           NEW c \in SnellConns, snellConn[s] = c
    PROVE  ReadersInv' /\ QuietInv' /\ AnswersOwn'
<1>0. /\ snellPc[s] = "header" /\ S!Holds(s) /\ c # S!NoConn
      /\ UNCHANGED <<stream, begun, snellConn, snellGot, snellSent, finished, before>>
  BY DEF S!WriteHeader, S!Holds, SnellInv, S!TypeOK, S!PoolAssumption
<1>1. /\ want[s] = "data" /\ snellGot[s] = <<>> /\ snellSent[s] = 0 /\ ~finished[s] /\ end[s] = ""
      /\ Len(snellGot[s]) = 0 /\ \A i \in 1..Len(snellGot[s]) : FALSE
  <2>1. want[s] = "data" /\ snellGot[s] = <<>> /\ snellSent[s] = 0 /\ ~finished[s] /\ end[s] = ""
    BY <1>0 DEF SnellInv, Young
  <2>2. Len(snellGot[s]) = 0
    BY <2>1, EmptySeq
  <2>3. \A i \in 1..Len(snellGot[s]) : FALSE
    BY <2>2
  <2>4. QED
    BY <2>1, <2>2, <2>3
<1>2. Clean(s)
  BY <1>1 DEF Clean
<1>3. \A t \in Sessions \ {s} : snellConn[t] = c => t \in before[s] /\ snellPc[t] = "done"
  BY <1>0, Users DEF SnellInv
<1>4. Fresh(s) => Quiet(c)
  <2>1. SUFFICES ASSUME Fresh(s) PROVE Quiet(c)
    OBVIOUS
  <2>2. ASSUME NEW t \in Sessions, snellConn[t] = c PROVE snellPc[t] # "read" /\ Clean(t)
    BY <1>0, <1>2, <1>3, <2>1, <2>2 DEF Fresh
  <2>3. QED
    BY <1>0, <2>2 DEF SnellInv, QuietInv
<1>5. /\ \A t \in Sessions \ {s} : /\ snellPc'[t] = snellPc[t] /\ want'[t] = want[t]
                                   /\ snellGot'[t] = snellGot[t] /\ end'[t] = end[t]
      /\ \A d \in SnellConns \ {c} : stream'[d] = stream[d] /\ asked'[d] = asked[d]
  <2>1. \A t \in Sessions \ {s} : snellPc'[t] = snellPc[t] /\ want'[t] = want[t]
    BY DEF S!WriteHeader, SnellInv, S!TypeOK
  <2>2. \A t \in Sessions \ {s} : end'[t] = end[t]
    BY DEF S!WriteHeader, SnellInv, TapeTypes
  <2>3. \A d \in SnellConns \ {c} : asked'[d] = asked[d]
    BY DEF S!WriteHeader, SnellInv, TapeTypes
  <2>4. QED
    BY <1>0, <2>1, <2>2, <2>3
<1>6. Fresh(s) => OwnSoFar(s)'
  <2>1. end'[s] \in {"", "header"}
    BY <1>1 DEF S!WriteHeader, SnellInv, TapeTypes
  <2>2. snellGot'[s] = snellGot[s] /\ snellSent'[s] = snellSent[s]
    BY <1>0
  <2>3. Len(snellGot'[s]) = 0 /\ snellSent'[s] = 0 /\ \A i \in 1..Len(snellGot'[s]) : FALSE
    BY <1>1, <2>2
  <2>4. Len(snellGot'[s]) <= snellSent'[s] /\ end'[s] # "zero" /\ \A i \in 1..Len(snellGot'[s]) : FALSE
    <3>1. Len(snellGot'[s]) <= snellSent'[s]
      BY <2>3
    <3>2. end'[s] # "zero"
      BY <2>1
    <3>3. QED
      BY <2>3, <3>1, <3>2
  <2>5. QED
    BY <2>4, Zenon DEF OwnSoFar
<1>7. snellPc'[s] # "read" /\ Fresh(s) /\ Clean(s)' => Quiet(c)'
  <2>1. SUFFICES ASSUME snellPc'[s] # "read", Fresh(s) PROVE Quiet(c)'
    OBVIOUS
  <2>2. asked' = asked
    BY <2>1 DEF S!WriteHeader, SnellInv, S!TypeOK
  <2>3. QED
    BY <1>0, <1>4, <2>1, <2>2 DEF Quiet
<1>8. ASSUME snellPc'[s] = "read", Fresh(s) PROVE Tape(s, c)'
  <2>1. /\ asked' = [asked EXCEPT ![c] = Append(asked[c], s)] /\ want' = [want EXCEPT ![s] = S!Looks(c)]
    BY <1>8 DEF S!WriteHeader, SnellInv, S!TypeOK
  <2>2. asked'[c] = Append(asked[c], s) /\ want'[s] = S!Looks(c)
    BY <1>0, <2>1 DEF SnellInv, S!TypeOK, TapeTypes
  <2>3. ~reply[c]
    <3>1. snellState[c] = "open"
      BY <1>0 DEF SnellInv, S!OneUser
    <3>2. \A t \in Sessions : snellConn[t] = c => snellPc[t] \notin {"read", "close"}
      BY <1>0, <1>3
    <3>3. QED
      BY <1>0, <3>1, <3>2 DEF SnellInv, ReplySeen
  <2>4. want'[s] = "byte"
    BY <2>2, <2>3 DEF S!Looks
  <2>5. CASE asked[c] = <<>> /\ ~begun[c] /\ stream[c] = <<>>
    <3>1. asked'[c] = <<s>>
      BY <2>2, <2>5
    <3>2. Begins(s, c)'
      BY <1>0, <1>1, <2>4, <2>5, <3>1 DEF Begins, NextIs, AnswerOf
    <3>3. QED
      BY <3>2 DEF Tape
  <2>6. ASSUME asked[c] = <<>>, ~begun[c], NEW t \in Sessions, stream[c] = <<S!Chunk(t, "zero")>>
        PROVE  Tape(s, c)'
    <3>1. asked'[c] = <<s>>
      BY <2>2, <2>6
    <3>2. stream[c] # <<>> /\ Head(stream[c]).kind = "zero" /\ Tail(stream[c]) = <<>>
      BY <2>6 DEF S!Chunk
    <3>3. Begins(s, c)'
      BY <1>0, <1>1, <2>4, <2>6, <3>1, <3>2 DEF Begins, NextIs, AnswerOf
    <3>4. QED
      BY <3>3 DEF Tape
  <2>7. ASSUME NEW t \in Sessions, asked[c] = <<t>>, begun[c], stream[c] = <<>>
        PROVE  Tape(s, c)'
    <3>1. t \in before[s]
      <4>1. 1 \in 1..Len(asked[c]) /\ asked[c][1] = t
        BY <2>7
      <4>2. HasAsked(t, c)
        BY <1>0, <4>1 DEF SnellInv, AskedInv
      <4>3. QED
        BY <1>0, <1>3, <4>2 DEF HasAsked
    <3>2. asked'[c] = <<t, s>>
      <4>1. Append(<<t>>, s) = <<t, s>>
        <5>1. <<t>> \in Seq(Sessions) /\ Len(<<t>>) = 1 /\ <<t>>[1] = t
          OBVIOUS
        <5>2. /\ Append(<<t>>, s) \in Seq(Sessions) /\ Len(Append(<<t>>, s)) = 2
              /\ Append(<<t>>, s)[1] = t /\ Append(<<t>>, s)[2] = s
          BY <5>1, AppendProperties
        <5>3. <<t, s>> \in Seq(Sessions) /\ Len(<<t, s>>) = 2 /\ <<t, s>>[1] = t /\ <<t, s>>[2] = s
          OBVIOUS
        <5>4. \A i \in 1..2 : Append(<<t>>, s)[i] = <<t, s>>[i]
          <6>1. \A i \in 1..2 : i = 1 \/ i = 2
            OBVIOUS
          <6>2. QED
            BY <5>2, <5>3, <6>1
        <5>5. QED
          BY <5>2, <5>3, <5>4, SeqEqual
      <4>2. QED
        BY <2>2, <2>7, <4>1
    <3>3. Awaits(s, c)'
      BY <1>0, <1>1, <2>4, <2>7, <3>1, <3>2 DEF Awaits
    <3>4. QED
      BY <3>3 DEF Tape
  <2>8. Quiet(c)
    BY <1>4, <1>8
  <2>9. QED
    BY <2>5, <2>6, <2>7, <2>8 DEF Quiet
<1>9. QED
  BY <1>0, <1>5, <1>6, <1>7, <1>8, SessionStep

(* A session that stops without reading on, or closes.                     *)
LEMMA TapeStops ==
    ASSUME S!PoolAssumption, SnellInv, NEW s \in Sessions, S!ReadError(s) \/ S!Interrupt(s) \/ S!Close(s),
           NEW c \in SnellConns, snellConn[s] = c
    PROVE  ReadersInv' /\ QuietInv' /\ AnswersOwn'
<1>0. /\ S!Holds(s) /\ snellPc'[s] \in {"close", "done"}
      /\ UNCHANGED <<stream, asked, begun, snellConn, want, snellGot, snellSent, finished, before>>
      /\ \A t \in Sessions \ {s} : snellPc'[t] = snellPc[t] /\ end'[t] = end[t]
  <2>1. CASE S!ReadError(s) \/ S!Interrupt(s)
    <3>1. /\ snellPc[s] = "read" /\ snellPc' = [snellPc EXCEPT ![s] = "close"]
          /\ UNCHANGED <<stream, asked, begun, snellConn, want, snellGot, snellSent, finished, before>>
          /\ \E why : end' = [end EXCEPT ![s] = why]
      BY <2>1 DEF S!ReadError, S!Interrupt, S!Stops, S!connvars
    <3>2. QED
      BY <3>1 DEF S!Holds, SnellInv, S!TypeOK, TapeTypes
  <2>2. CASE S!Close(s)
    BY <2>2 DEF S!Close, S!Holds, SnellInv, S!TypeOK
  <2>3. QED
    BY <2>1, <2>2
<1>t. stream[c] \in Seq(AnyChunk) /\ snellSent[s] \in Nat /\ finished[s] \in BOOLEAN
  BY DEF SnellInv, TapeTypes
<1>1. end'[s] \in {"error", "interrupted"} \/ end'[s] = end[s]
  BY DEF S!ReadError, S!Interrupt, S!Close, S!Stops, SnellInv, TapeTypes
<1>2. Fresh(s) => OwnSoFar(s)'
  <2>1. Fresh(s) => OwnSoFar(s)
    BY DEF SnellInv, AnswersOwn
  <2>2. QED
    BY <1>0, <1>1, <2>1 DEF OwnSoFar, S!ReadAll
<1>3. CASE snellPc[s] = "read"
  <2>1. ASSUME Fresh(s), Clean(s)' PROVE Quiet(c)'
    <3>1. Tape(s, c)
      BY <1>3, <2>1 DEF SnellInv, ReadersInv
    <3>2. end'[s] # "header"
      <4>1. end[s] = ""
        BY <1>3 DEF SnellInv, Young
      <4>2. QED
        BY <1>1, <4>1
    <3>3. want[s] = "data" /\ Len(snellGot[s]) = snellSent[s]
      BY <1>0, <2>1, <3>2 DEF Clean
    <3>4. ReadsOn(s, c)
      BY <3>1, <3>3 DEF Tape, Begins, Awaits
    <3>5. RestOf(stream[c], s, 0, finished[s])
      <4>1. snellSent[s] - Len(snellGot[s]) = 0
        BY <1>t, <3>3
      <4>2. QED
        BY <3>4, <4>1 DEF ReadsOn
    <3>6. CASE finished[s]
      <4>1. stream[c] = <<S!Chunk(s, "zero")>>
        BY <1>t, <3>5, <3>6, RestEnd
      <4>2. asked[c] = <<>> /\ ~begun[c]
        BY <3>4, <3>6 DEF ReadsOn, NextIs
      <4>3. QED
        BY <1>0, <4>1, <4>2 DEF Quiet
    <3>7. CASE ~finished[s]
      <4>1. stream[c] \in Seq(AnyChunk) /\ Len(stream[c]) = 0
        BY <1>t, <3>5, <3>7 DEF RestOf
      <4>2. stream[c] = <<>>
        BY <4>1, EmptySeq
      <4>3. asked[c] = <<s>> /\ begun[c]
        BY <3>4, <3>7 DEF ReadsOn, NextIs, SnellInv, S!TypeOK
      <4>4. QED
        BY <1>0, <4>2, <4>3 DEF Quiet
    <3>8. QED
      BY <3>6, <3>7
  <2>2. QED
    BY <1>0, <1>2, <2>1, SessionStep
<1>4. CASE snellPc[s] # "read"
  <2>1. S!Close(s) /\ end' = end
    BY <1>4 DEF S!ReadError, S!Interrupt, S!Close
  <2>2. ASSUME Fresh(s), Clean(s)' PROVE Quiet(c)'
    <3>1. Clean(s)
      BY <1>0, <2>1, <2>2 DEF Clean
    <3>2. c # S!NoConn
      BY DEF S!PoolAssumption
    <3>3. \A t \in Sessions \ {s} : snellConn[t] = c => t \in before[s] /\ snellPc[t] = "done"
      BY <1>0, <3>2, Users DEF SnellInv
    <3>4. \A t \in Sessions : snellConn[t] = c => snellPc[t] # "read" /\ Clean(t)
      BY <1>4, <2>2, <3>1, <3>3 DEF Fresh
    <3>5. Quiet(c)
      BY <3>4 DEF SnellInv, QuietInv
    <3>6. QED
      BY <1>0, <3>5 DEF Quiet
  <2>3. QED
    BY <1>0, <1>2, <2>2, SessionStep
<1>5. QED
  BY <1>3, <1>4

(* A Read takes the next chunk of its own answer, or the end of the one    *)
(* before it.                                                              *)
LEMMA TapeRead ==
    ASSUME S!PoolAssumption, SnellInv, NEW s \in Sessions, S!Read(s), NEW c \in SnellConns, snellConn[s] = c
    PROVE  ReadersInv' /\ QuietInv' /\ AnswersOwn'
<1> DEFINE chunk == Head(stream[c])
<1>0. /\ S!Holds(s) /\ snellPc[s] = "read" /\ end[s] = "" /\ stream[c] # <<>>
      /\ UNCHANGED <<asked, begun, snellConn, snellSent, finished, before>>
  <2>1. /\ snellPc[s] = "read" /\ stream[c] # <<>>
        /\ UNCHANGED <<asked, begun, snellConn, snellSent, finished, before>>
    BY DEF S!Read
  <2>2. QED
    BY <2>1 DEF S!Holds, SnellInv, Young
<1>1. /\ \A t \in Sessions \ {s} : snellPc'[t] = snellPc[t] /\ want'[t] = want[t]
      /\ \A t \in Sessions \ {s} : snellGot'[t] = snellGot[t] /\ end'[t] = end[t]
      /\ \A d \in SnellConns \ {c} : stream'[d] = stream[d]
  <2>1. \A t \in Sessions \ {s} : snellPc'[t] = snellPc[t] /\ want'[t] = want[t]
    BY DEF S!Read, S!Stops, S!LooksFor, S!ZeroFirst, SnellInv, S!TypeOK
  <2>2. \A t \in Sessions \ {s} : snellGot'[t] = snellGot[t] /\ end'[t] = end[t]
    BY DEF S!Read, S!Stops, S!LooksFor, S!ZeroFirst, SnellInv, TapeTypes
  <2>3. \A d \in SnellConns \ {c} : stream'[d] = stream[d]
    BY DEF S!Read, SnellInv, TapeTypes
  <2>4. QED
    BY <2>1, <2>2, <2>3
<1>2. /\ stream[c] \in Seq(AnyChunk) /\ Tail(stream[c]) \in Seq(AnyChunk) /\ chunk \in AnyChunk
      /\ snellGot[s] \in Seq(AnyChunk) /\ Len(snellGot[s]) \in Nat /\ snellSent[s] \in Nat
      /\ finished[s] \in BOOLEAN
  <2>1. /\ stream[c] \in Seq(AnyChunk) /\ snellGot[s] \in Seq(AnyChunk) /\ snellSent[s] \in Nat
        /\ finished[s] \in BOOLEAN
    BY DEF SnellInv, TapeTypes
  <2>2. Len(snellGot[s]) \in Nat
    BY <2>1, LenProperties
  <2>3. QED
    BY <1>0, <2>1, <2>2, HeadTailProperties
<1>3. /\ Fresh(s) => OwnSoFar(s)
      /\ Fresh(s) => Tape(s, c)
  BY <1>0 DEF SnellInv, AnswersOwn, ReadersInv
<1>4. CASE want[s] = "data" /\ chunk.kind # "zero"
  <2>1. /\ snellPc' = snellPc /\ want' = want /\ end' = end
        /\ snellGot' = [snellGot EXCEPT ![s] = Append(snellGot[s], chunk)]
        /\ stream' = [stream EXCEPT ![c] = Tail(stream[c])]
    BY <1>0, <1>4 DEF S!Read
  <2>2. /\ snellGot'[s] = Append(snellGot[s], chunk) /\ stream'[c] = Tail(stream[c])
        /\ snellPc'[s] = "read" /\ want'[s] = "data" /\ end'[s] = ""
    BY <1>0, <1>4, <2>1 DEF SnellInv, TapeTypes
  <2>3. /\ Len(snellGot'[s]) = Len(snellGot[s]) + 1
        /\ \A i \in 1..Len(snellGot[s]) : snellGot'[s][i] = snellGot[s][i]
        /\ snellGot'[s][Len(snellGot[s]) + 1] = chunk
    <3>1. snellGot[s] \in Seq(AnyChunk) /\ chunk \in AnyChunk /\ snellGot'[s] = Append(snellGot[s], chunk)
      BY <1>2, <2>2
    <3> HIDE DEF chunk
    <3>2. QED
      BY <3>1, AppendProperties
  <2>4. ASSUME Fresh(s) PROVE Tape(s, c)' /\ OwnSoFar(s)'
    <3>1. ReadsOn(s, c)
      BY <1>3, <1>4, <2>4 DEF Tape, Begins, Awaits
    <3> DEFINE n == snellSent[s] - Len(snellGot[s])
    <3>2. n \in Nat /\ RestOf(stream[c], s, n, finished[s])
      BY <1>2, <3>1 DEF ReadsOn
    <3>3. n > 0 /\ chunk = S!Chunk(s, "data") /\ RestOf(Tail(stream[c]), s, n - 1, finished[s])
      <4> HIDE DEF n
      <4>1. \/ n > 0 /\ chunk = S!Chunk(s, "data") /\ RestOf(Tail(stream[c]), s, n - 1, finished[s])
            \/ chunk = S!Chunk(s, "zero")
        BY <1>0, <1>2, <3>2, RestTail
      <4>2. chunk # S!Chunk(s, "zero")
        BY <1>4 DEF S!Chunk
      <4>3. QED
        BY <4>1, <4>2
    <3>4. n - 1 = snellSent'[s] - Len(snellGot'[s]) /\ Len(snellGot'[s]) <= snellSent'[s]
      <4>1. snellSent'[s] = snellSent[s] /\ Len(snellGot'[s]) = Len(snellGot[s]) + 1
        BY <1>0, <2>3
      <4>2. Len(snellGot[s]) \in Nat /\ snellSent[s] \in Nat /\ snellSent[s] - Len(snellGot[s]) > 0
        BY <1>2, <3>3
      <4>3. QED
        BY <4>1, <4>2
    <3>5. ReadsOn(s, c)'
      <4>1. NextIs(s, c)' /\ begun'[c] = ~finished'[s]
        BY <1>0, <3>1 DEF ReadsOn, NextIs
      <4>2. RestOf(stream'[c], s, snellSent'[s] - Len(snellGot'[s]), finished'[s])
        BY <1>0, <2>2, <3>3, <3>4
      <4>3. QED
        BY <2>2, <3>4, <4>1, <4>2 DEF ReadsOn
    <3>6. ASSUME NEW i \in 1..Len(snellGot'[s]) PROVE snellGot'[s][i] = S!Chunk(s, "data")
      <4>1. CASE i \in 1..Len(snellGot[s])
        BY <1>3, <2>3, <2>4, <4>1 DEF OwnSoFar
      <4>2. CASE i = Len(snellGot[s]) + 1
        BY <2>3, <3>3, <4>2
      <4>3. QED
        BY <1>2, <2>3, <4>1, <4>2
    <3>7. QED
      BY <2>2, <3>4, <3>5, <3>6 DEF Tape, OwnSoFar
  <2>5. QED
    BY <1>0, <1>1, <2>2, <2>4, SessionStep
<1>5. CASE want[s] = "data" /\ chunk.kind = "zero"
  <2>1. /\ UNCHANGED <<want, snellGot>> /\ snellPc' = [snellPc EXCEPT ![s] = "close"]
        /\ end' = [end EXCEPT ![s] = "zero"] /\ stream' = [stream EXCEPT ![c] = Tail(stream[c])]
    BY <1>0, <1>5 DEF S!Read, S!Stops
  <2>2. snellPc'[s] = "close" /\ end'[s] = "zero" /\ stream'[c] = Tail(stream[c])
    BY <2>1 DEF SnellInv, S!TypeOK, TapeTypes
  <2>3. ASSUME Fresh(s) PROVE Quiet(c)' /\ OwnSoFar(s)'
    <3>1. ReadsOn(s, c)
      BY <1>3, <1>5, <2>3 DEF Tape, Begins, Awaits
    <3> DEFINE n == snellSent[s] - Len(snellGot[s])
    <3>2. n \in Nat /\ RestOf(stream[c], s, n, finished[s])
      BY <1>2, <3>1 DEF ReadsOn
    <3>3. n = 0 /\ finished[s] /\ Tail(stream[c]) = <<>>
      <4> HIDE DEF n
      <4>1. \/ n = 0 /\ finished[s] /\ Tail(stream[c]) = <<>>
            \/ chunk = S!Chunk(s, "data")
        BY <1>0, <1>2, <3>2, RestTail
      <4>2. chunk # S!Chunk(s, "data")
        BY <1>5 DEF S!Chunk
      <4>3. QED
        BY <4>1, <4>2
    <3>4. Len(snellGot[s]) = snellSent[s]
      BY <1>2, <3>3
    <3>5. asked[c] = <<>> /\ ~begun[c]
      BY <3>1, <3>3 DEF ReadsOn, NextIs
    <3>6. Quiet(c)'
      BY <1>0, <2>2, <3>3, <3>5 DEF Quiet
    <3>7. S!ReadAll(s)'
      BY <1>0, <1>5, <2>1, <3>3, <3>4 DEF S!ReadAll
    <3>8. OwnSoFar(s)'
      BY <1>0, <1>3, <2>1, <2>3, <3>7 DEF OwnSoFar
    <3>9. QED
      BY <3>6, <3>8
  <2>4. QED
    BY <1>0, <1>1, <2>2, <2>3, SessionStep
<1>6. CASE want[s] # "data"
  <2>1. snellGot' = snellGot
    BY <1>6 DEF S!Read, S!Stops, S!LooksFor, S!ZeroFirst
  <2>2. CASE ~Fresh(s)
    BY <1>0, <1>1, <2>1, <2>2, SessionStep
  <2>3. CASE Fresh(s)
    <3>1. Begins(s, c)
      BY <1>0, <1>3, <1>6, <2>3 DEF Tape, ReadsOn, Awaits
    <3>2. OwnSoFar(s) /\ snellGot[s] = <<>>
      BY <1>3, <2>3, <3>1 DEF Begins
    <3>3. \/ chunk \in {S!Chunk(s, "command"), S!Chunk(s, "error")} /\ AnswerOf(stream[c], s, c)
          \/ want[s] = "byte" /\ chunk.kind = "zero" /\ AnswerOf(Tail(stream[c]), s, c)
      BY <1>0, <3>1 DEF Begins, AnswerOf
    <3>4. CASE chunk = S!Chunk(s, "command") /\ AnswerOf(stream[c], s, c)
      <4>1. chunk.kind = "command"
        BY <3>4 DEF S!Chunk
      <4>2. /\ want' = [want EXCEPT ![s] = "data"] /\ UNCHANGED <<snellPc, end>>
            /\ stream' = [stream EXCEPT ![c] = Tail(stream[c])]
        BY <1>6, <4>1 DEF S!Read, S!LooksFor
      <4>3. want'[s] = "data" /\ stream'[c] = Tail(stream[c]) /\ snellPc'[s] = "read" /\ end'[s] = end[s]
        BY <1>0, <4>2 DEF SnellInv, S!TypeOK, TapeTypes
      <4>4. RestOf(Tail(stream[c]), s, snellSent[s], finished[s]) /\ begun[c] = ~finished[s]
        BY <1>0, <3>4 DEF AnswerOf
      <4>5. Len(snellGot[s]) = 0
        BY <3>2, EmptySeq
      <4>6. snellSent'[s] - Len(snellGot'[s]) = snellSent[s] /\ Len(snellGot'[s]) <= snellSent'[s]
        <5>1. snellSent'[s] = snellSent[s] /\ Len(snellGot'[s]) = 0 /\ snellSent[s] \in Nat
          BY <1>0, <1>2, <2>1, <4>5
        <5>2. QED
          BY <5>1
      <4>7. ReadsOn(s, c)'
        <5>1. NextIs(s, c)' /\ begun'[c] = ~finished'[s]
          BY <1>0, <3>1, <4>4 DEF Begins, NextIs
        <5>2. RestOf(stream'[c], s, snellSent'[s] - Len(snellGot'[s]), finished'[s])
          BY <1>0, <4>3, <4>4, <4>6
        <5>3. QED
          BY <4>3, <4>6, <5>1, <5>2 DEF ReadsOn
      <4>8. OwnSoFar(s)'
        BY <1>0, <2>1, <3>2, <4>3 DEF OwnSoFar
      <4>9. QED
        BY <1>0, <1>1, <4>3, <4>7, <4>8, SessionStep DEF Tape
    <3>5. CASE chunk = S!Chunk(s, "error")
      <4>1. chunk.kind = "error"
        BY <3>5 DEF S!Chunk
      <4>2. /\ want' = want /\ snellPc' = [snellPc EXCEPT ![s] = "close"]
            /\ end' = [end EXCEPT ![s] = "error"]
        BY <1>6, <4>1 DEF S!Read, S!Stops
      <4>3. want'[s] # "data" /\ snellPc'[s] = "close" /\ end'[s] = "error"
        BY <1>6, <4>2 DEF SnellInv, S!TypeOK, TapeTypes
      <4>4. ~Clean(s)'
        BY <4>3 DEF Clean
      <4>5. OwnSoFar(s)'
        BY <1>0, <2>1, <3>2, <4>3 DEF OwnSoFar
      <4>6. QED
        BY <1>0, <1>1, <4>3, <4>4, <4>5, SessionStep
    <3>6. CASE want[s] = "byte" /\ chunk.kind = "zero" /\ AnswerOf(Tail(stream[c]), s, c)
      <4>1. /\ want' = [want EXCEPT ![s] = "again"] /\ UNCHANGED <<snellPc, end>>
            /\ stream' = [stream EXCEPT ![c] = Tail(stream[c])]
        BY <1>6, <3>6 DEF S!Read, S!LooksFor, S!ZeroFirst
      <4>2. want'[s] = "again" /\ stream'[c] = Tail(stream[c]) /\ snellPc'[s] = "read" /\ end'[s] = end[s]
        BY <1>0, <4>1 DEF SnellInv, S!TypeOK, TapeTypes
      <4>3. Begins(s, c)'
        <5>1. NextIs(s, c)'
          BY <1>0, <3>1 DEF Begins, NextIs
        <5>2. AnswerOf(stream[c], s, c)'
          BY <1>0, <3>6, <4>2 DEF AnswerOf
        <5>3. QED
          BY <2>1, <3>2, <4>2, <5>1, <5>2 DEF Begins
      <4>4. OwnSoFar(s)'
        BY <1>0, <2>1, <3>2, <4>2 DEF OwnSoFar
      <4>5. QED
        BY <1>0, <1>1, <4>2, <4>3, <4>4, SessionStep DEF Tape
    <3>7. QED
      BY <3>3, <3>4, <3>5, <3>6
  <2>4. QED
    BY <2>2, <2>3
<1>7. QED
  BY <1>4, <1>5, <1>6

(* The server goes on with the first answer it owes.                       *)
LEMMA TapeServer ==
    ASSUME S!PoolAssumption, SnellInv, NEW c \in SnellConns, S!ServerSends(c)
    PROVE  ReadersInv' /\ QuietInv' /\ AnswersOwn'
<1>0. PICK t \in Sessions : t = Head(asked[c])
  <2>1. asked[c] \in Seq(Sessions) /\ asked[c] # <<>>
    BY DEF S!ServerSends, SnellInv, TapeTypes
  <2>2. QED
    BY <2>1, HeadTailProperties
<1>1. HasAsked(t, c) /\ asked[c] # <<>>
  <2>1. asked[c] \in Seq(Sessions) /\ asked[c] # <<>>
    BY DEF S!ServerSends, SnellInv, TapeTypes
  <2>2. 1 \in 1..Len(asked[c]) /\ t = asked[c][1]
    BY <1>0, <2>1, HeadTailProperties, EmptySeq
  <2>3. QED
    BY <2>1, <2>2 DEF SnellInv, AskedInv
<1>2. /\ UNCHANGED <<snellPc, snellConn, want, snellGot, end, before>>
      /\ \A s \in Sessions \ {t} : snellSent'[s] = snellSent[s] /\ finished'[s] = finished[s]
      /\ \A d \in SnellConns \ {c} : stream'[d] = stream[d] /\ asked'[d] = asked[d] /\ begun'[d] = begun[d]
  BY <1>0 DEF S!ServerSends, SnellInv, S!TypeOK, TapeTypes
<1>3. /\ stream[c] \in Seq(AnyChunk) /\ Len(snellGot[t]) \in Nat /\ snellSent[t] \in Nat
      /\ ~finished[t] /\ end[t] # "header" /\ snellConn[t] = c
      /\ \A s \in Sessions : before[s] \subseteq Sessions
  <2>1. snellGot[t] \in Seq(AnyChunk)
    BY DEF SnellInv, TapeTypes
  <2>2. Len(snellGot[t]) \in Nat
    BY <2>1, LenProperties
  <2>3. QED
    BY <1>1, <2>2 DEF HasAsked, SnellInv, TapeTypes
<1>4. \A s \in Sessions \ {t} : Clean(s)' <=> Clean(s)
  BY <1>2 DEF Clean
<1>5. snellSent'[t] = snellSent[t] \/ snellSent'[t] = snellSent[t] + 1
  BY <1>0 DEF S!ServerSends, SnellInv, TapeTypes
<1>6. ASSUME Fresh(t), Clean(t)' PROVE Clean(t) /\ snellSent'[t] = snellSent[t]
  <2>1. Len(snellGot[t]) <= snellSent[t]
    BY <1>6 DEF SnellInv, AnswersOwn, OwnSoFar
  <2>2. want[t] = "data" /\ Len(snellGot[t]) = snellSent'[t]
    BY <1>2, <1>3, <1>6 DEF Clean
  <2>3. snellSent'[t] = snellSent[t]
    BY <1>3, <1>5, <2>1, <2>2
  <2>4. QED
    BY <2>2, <2>3 DEF Clean
<1>7. \A u \in before[t] : u \in Sessions \ {t}
  BY <1>3 DEF SnellInv, Order
<1>8. ASSUME NEW s \in Sessions, Fresh(s)'
      PROVE  Fresh(s) /\ (t \in before[s] => snellSent'[t] = snellSent[t])
  <2>1. CASE t \in before[s]
    <3>1. \A u \in before[t] : u \in before[s]
      BY <2>1 DEF SnellInv, Order
    <3>2. Fresh(t)
      BY <1>2, <1>4, <1>7, <1>8, <3>1 DEF Fresh
    <3>3. Clean(t)'
      BY <1>2, <1>8, <2>1 DEF Fresh
    <3>4. Clean(t) /\ snellSent'[t] = snellSent[t]
      BY <1>6, <3>2, <3>3
    <3>5. QED
      BY <1>2, <1>3, <1>4, <1>8, <3>4 DEF Fresh
  <2>2. CASE t \notin before[s]
    BY <1>2, <1>3, <1>4, <1>8, <2>2 DEF Fresh
  <2>3. QED
    BY <2>1, <2>2
<1>9. ASSUME \A s \in Sessions : snellConn'[s] = c => snellPc'[s] # "read" /\ Clean(s)'
      PROVE  Quiet(c) /\ snellSent'[t] = snellSent[t]
  <2>1. \A u \in before[t] : snellConn[u] = c
    BY <1>3 DEF SnellInv, Order
  <2>2. Fresh(t)
    BY <1>2, <1>4, <1>7, <1>9, <2>1 DEF Fresh
  <2>3. Clean(t) /\ snellSent'[t] = snellSent[t]
    BY <1>2, <1>3, <1>6, <1>9, <2>2
  <2>4. \A s \in Sessions : snellConn[s] = c => snellPc[s] # "read" /\ Clean(s)
    BY <1>2, <1>4, <1>9, <2>3
  <2>5. QED
    BY <2>3, <2>4 DEF SnellInv, QuietInv
<1>10. AnswersOwn'
  <2>1. ASSUME NEW s \in Sessions, Fresh(s)' PROVE OwnSoFar(s)'
    <3>1. OwnSoFar(s)
      BY <1>8, <2>1 DEF SnellInv, AnswersOwn
    <3>2. CASE s # t
      BY <1>2, <3>1, <3>2 DEF OwnSoFar, S!ReadAll
    <3>3. CASE s = t
      <4>1. Len(snellGot[t]) <= snellSent'[t]
        BY <1>3, <1>5, <3>1, <3>3 DEF OwnSoFar
      <4>2. end[t] # "zero"
        BY <1>3, <3>1, <3>3 DEF OwnSoFar, S!ReadAll
      <4>3. QED
        BY <1>2, <3>1, <3>3, <4>1, <4>2 DEF OwnSoFar
    <3>4. QED
      BY <3>2, <3>3
  <2>2. QED
    BY <2>1 DEF AnswersOwn
<1> DEFINE Sent(k) == stream'[c] = Append(stream[c], S!Chunk(t, k))
<1>11. \/ /\ ~begun[c] /\ begun'[c] = TRUE /\ (Sent("command") \/ Sent("error"))
          /\ UNCHANGED <<asked, snellSent, finished>>
       \/ /\ begun[c] /\ Sent("data") /\ snellSent'[t] = snellSent[t] + 1
          /\ UNCHANGED <<asked, begun, finished>>
       \/ /\ begun[c] /\ Sent("zero") /\ asked'[c] = Tail(asked[c]) /\ begun'[c] = FALSE
          /\ finished'[t] = TRUE /\ UNCHANGED snellSent
  BY <1>0 DEF S!ServerSends, SnellInv, S!TypeOK, TapeTypes
<1> HIDE DEF Sent
<1>12. QuietInv'
  <2>1. ASSUME NEW d \in SnellConns,
               \A s \in Sessions : snellConn'[s] = d => snellPc'[s] # "read" /\ Clean(s)'
        PROVE  Quiet(d)'
    <3>1. CASE d # c
      <4>1. \A s \in Sessions : snellConn[s] = d => snellPc[s] # "read" /\ Clean(s)
        BY <1>2, <1>3, <1>4, <2>1, <3>1
      <4>2. Quiet(d)
        BY <4>1 DEF SnellInv, QuietInv
      <4>3. QED
        BY <1>2, <3>1, <4>2 DEF Quiet
    <3>2. CASE d = c
      <4>1. Quiet(c) /\ snellSent'[t] = snellSent[t]
        BY <1>9, <2>1, <3>2
      <4>2. asked[c] = <<t>> /\ begun[c] /\ stream[c] = <<>>
        <5>1. PICK u \in Sessions : asked[c] = <<u>> /\ begun[c] /\ stream[c] = <<>>
          BY <1>1, <4>1 DEF Quiet
        <5>2. t = u
          BY <1>0, <5>1
        <5>3. QED
          BY <5>1, <5>2
      <4>3. snellSent'[t] # snellSent[t] + 1
        BY <1>3, <4>1
      <4>4. Sent("zero") /\ asked'[c] = Tail(asked[c]) /\ begun'[c] = FALSE
        BY <1>11, <4>2, <4>3
      <4>5. asked'[c] = <<>> /\ stream'[c] = <<S!Chunk(t, "zero")>>
        BY <4>2, <4>4 DEF Sent
      <4>6. QED
        BY <3>2, <4>4, <4>5 DEF Quiet
    <3>3. QED
      BY <3>1, <3>2
  <2>2. QED
    BY <2>1 DEF QuietInv
<1>13. ASSUME snellPc[t] = "read", Fresh(t), ReadsOn(t, c) \/ Begins(t, c) PROVE Tape(t, c)'
  <2>1. asked[c] = <<t>> /\ NextIs(t, c)
    BY <1>1, <1>3, <1>13 DEF ReadsOn, Begins, NextIs
  <2>2. NextIs(t, c)'
    <3>1. CASE UNCHANGED <<asked, finished>>
      BY <1>3, <2>1, <3>1 DEF NextIs
    <3>2. CASE asked'[c] = Tail(asked[c]) /\ begun'[c] = FALSE /\ finished'[t] = TRUE
      BY <2>1, <3>2 DEF NextIs
    <3>3. QED
      BY <1>11, <3>1, <3>2
  <2>3. S!Chunk(t, "data") \in AnyChunk /\ S!Chunk(t, "zero") \in AnyChunk
        /\ S!Chunk(t, "command") \in AnyChunk /\ S!Chunk(t, "error") \in AnyChunk
    BY DEF S!Chunk, AnyChunk
  <2>4. CASE ReadsOn(t, c)
    <3> DEFINE n == snellSent[t] - Len(snellGot[t])
    <3>0. finished[t] = FALSE
      BY <1>3 DEF SnellInv, TapeTypes
    <3>1. n \in Nat /\ RestOf(stream[c], t, n, FALSE) /\ begun[c]
      <4>1. RestOf(stream[c], t, n, finished[t]) /\ begun[c] = ~finished[t] /\ Len(snellGot[t]) <= snellSent[t]
        BY <2>4 DEF ReadsOn
      <4>2. n \in Nat
        BY <1>3, <4>1
      <4> HIDE DEF n
      <4>3. QED
        BY <3>0, <4>1, <4>2
    <3>2. \/ snellSent'[t] - Len(snellGot[t]) = n + 1 /\ finished'[t] = FALSE /\ Sent("data") /\ begun'[c]
          \/ snellSent'[t] - Len(snellGot[t]) = n /\ finished'[t] = TRUE /\ Sent("zero") /\ ~begun'[c]
      <4>1. snellSent[t] + 1 - Len(snellGot[t]) = n + 1
        BY <1>3
      <4>2. CASE begun[c] /\ Sent("data") /\ snellSent'[t] = snellSent[t] + 1 /\ UNCHANGED <<asked, begun, finished>>
        <5>0. snellSent'[t] = snellSent[t] + 1
          BY <4>2
        <5>1. snellSent'[t] - Len(snellGot[t]) = n + 1
          BY <1>3, <4>1, <5>0
        <5>2. QED
          BY <3>0, <4>2, <5>1
      <4>3. CASE begun[c] /\ Sent("zero") /\ begun'[c] = FALSE /\ finished'[t] = TRUE /\ UNCHANGED snellSent
        <5>1. snellSent'[t] - Len(snellGot[t]) = n
          BY <4>3
        <5>2. QED
          BY <4>3, <5>1
      <4>4. QED
        BY <1>11, <3>1, <4>2, <4>3
    <3> HIDE DEF n
    <3>3. RestOf(stream'[c], t, snellSent'[t] - Len(snellGot[t]), finished'[t])
      <4>1. /\ RestOf(Append(stream[c], S!Chunk(t, "data")), t, n + 1, FALSE)
            /\ RestOf(Append(stream[c], S!Chunk(t, "zero")), t, n, TRUE)
        BY <1>3, <3>1, RestAppend
      <4>2. QED
        BY <3>2, <4>1 DEF Sent
    <3>4. Len(snellGot[t]) <= snellSent'[t]
      BY <1>3, <1>5, <2>4 DEF ReadsOn
    <3>5. ReadsOn(t, c)'
      <4>1. begun'[c] = ~finished'[t]
        <5>1. begun'[c] \in BOOLEAN
          BY <1>11 DEF SnellInv, S!TypeOK
        <5>2. QED
          BY <3>2, <5>1
      <4>2. want'[t] = "data" /\ snellGot'[t] = snellGot[t]
        BY <1>2, <2>4 DEF ReadsOn
      <4>3. QED
        BY <2>2, <3>3, <3>4, <4>1, <4>2 DEF ReadsOn
    <3>6. QED
      BY <3>5 DEF Tape
  <2>5. ASSUME Begins(t, c), NEW chunks \in Seq(AnyChunk), AnswerOf(chunks, t, c)
        PROVE  \A k \in {"command", "error", "data", "zero"} :
                  Sent(k) => AnswerOf(Append(chunks, S!Chunk(t, k)), t, c)'
    <3>1. CASE chunks = <<>> /\ ~begun[c] /\ snellSent[t] = 0
      <4>1. begun'[c] = TRUE /\ (Sent("command") \/ Sent("error")) /\ UNCHANGED <<snellSent, finished>>
        BY <1>11, <3>1
      <4>2. \A k \in {"command", "error", "data", "zero"} :
               Sent(k) => k \in {"command", "error"}
        <5>1. \A k, m \in {"command", "error", "data", "zero"} : Sent(k) /\ Sent(m) => k = m
          <6>1. ASSUME NEW k \in {"command", "error", "data", "zero"}
                PROVE  Append(stream[c], S!Chunk(t, k))[Len(stream[c]) + 1].kind = k
            <7>1. S!Chunk(t, k) \in AnyChunk /\ S!Chunk(t, k).kind = k
              BY DEF S!Chunk, AnyChunk
            <7>2. QED
              BY <1>3, <7>1, AppendProperties
          <6>2. QED
            BY <6>1 DEF Sent
        <5>2. QED
          BY <4>1, <5>1
      <4>3. ASSUME NEW k \in {"command", "error"}
            PROVE  AnswerOf(Append(chunks, S!Chunk(t, k)), t, c)'
        <5>1. /\ Append(<<>>, S!Chunk(t, k)) # <<>> /\ Head(Append(<<>>, S!Chunk(t, k))) = S!Chunk(t, k)
              /\ Tail(Append(<<>>, S!Chunk(t, k))) = <<>>
          OBVIOUS
        <5>2. RestOf(<<>>, t, snellSent'[t], finished'[t])
          <6>1. snellSent'[t] = 0 /\ finished'[t] = FALSE
            BY <1>3, <3>1, <4>1 DEF SnellInv, TapeTypes
          <6>2. QED
            BY <6>1, RestEmpty
        <5>3. ~finished'[t] /\ begun'[c] = ~finished'[t]
          BY <1>3, <4>1
        <5>4. QED
          BY <3>1, <5>1, <5>2, <5>3 DEF AnswerOf
      <4>4. QED
        BY <4>2, <4>3
    <3>2. CASE chunks # <<>> /\ Head(chunks) \in {S!Chunk(t, "command"), S!Chunk(t, "error")}
               /\ RestOf(Tail(chunks), t, snellSent[t], finished[t]) /\ begun[c] = ~finished[t]
      <4>1. Tail(chunks) \in Seq(AnyChunk) /\ begun[c] /\ finished[t] = FALSE
        BY <1>3, <3>2, HeadTailProperties DEF SnellInv, TapeTypes
      <4>2. /\ RestOf(Append(Tail(chunks), S!Chunk(t, "data")), t, snellSent[t] + 1, FALSE)
            /\ RestOf(Append(Tail(chunks), S!Chunk(t, "zero")), t, snellSent[t], TRUE)
        BY <1>3, <3>2, <4>1, RestAppend
      <4>3. \/ /\ Sent("data") /\ snellSent'[t] = snellSent[t] + 1 /\ finished'[t] = FALSE /\ begun'[c] = TRUE
            \/ /\ Sent("zero") /\ snellSent'[t] = snellSent[t] /\ finished'[t] = TRUE /\ begun'[c] = FALSE
        BY <1>11, <4>1 DEF SnellInv, S!TypeOK
      <4>4. ASSUME NEW k \in {"command", "error", "data", "zero"}, Sent(k)
            PROVE  AnswerOf(Append(chunks, S!Chunk(t, k)), t, c)'
        <5>1. S!Chunk(t, k) \in AnyChunk
          BY <2>3, <4>4
        <5>2. /\ Append(chunks, S!Chunk(t, k)) # <<>> /\ Head(Append(chunks, S!Chunk(t, k))) = Head(chunks)
              /\ Tail(Append(chunks, S!Chunk(t, k))) = Append(Tail(chunks), S!Chunk(t, k))
          BY <3>2, <5>1, TailAppend
        <5>3. RestOf(Append(Tail(chunks), S!Chunk(t, k)), t, snellSent'[t], finished'[t])
              /\ begun'[c] = ~finished'[t]
          <6>1. \A m \in {"data", "zero"} : Sent(m) => m = k
            <7>1. ASSUME NEW m \in {"command", "error", "data", "zero"}
                  PROVE  Append(stream[c], S!Chunk(t, m))[Len(stream[c]) + 1].kind = m
              <8>1. S!Chunk(t, m) \in AnyChunk /\ S!Chunk(t, m).kind = m
                BY DEF S!Chunk, AnyChunk
              <8>2. QED
                BY <1>3, <8>1, AppendProperties
            <7>2. QED
              BY <4>4, <7>1 DEF Sent
          <6>2. QED
            BY <4>2, <4>3, <6>1
        <5>4. QED
          BY <3>2, <5>2, <5>3 DEF AnswerOf
      <4>5. QED
        BY <4>4
    <3>3. QED
      BY <2>5, <3>1, <3>2 DEF AnswerOf
  <2>6. CASE Begins(t, c)
    <3>1. PICK k \in {"command", "error", "data", "zero"} : Sent(k)
      BY <1>11
    <3>2. S!Chunk(t, k) \in AnyChunk
      BY <2>3
    <3>3. CASE AnswerOf(stream[c], t, c)
      <4>1. AnswerOf(stream[c], t, c)'
        BY <1>3, <2>5, <2>6, <3>1, <3>3 DEF Sent, AnswerOf
      <4>2. QED
        BY <1>2, <2>2, <2>6, <4>1 DEF Begins, Tape
    <3>4. CASE /\ want[t] = "byte" /\ stream[c] # <<>> /\ Head(stream[c]).kind = "zero"
               /\ AnswerOf(Tail(stream[c]), t, c)
      <4>1. PICK rest \in Seq(AnyChunk) : rest = Tail(stream[c])
        BY <1>3, <3>4, HeadTailProperties
      <4>2. AnswerOf(Append(rest, S!Chunk(t, k)), t, c)'
        BY <2>5, <2>6, <3>1, <3>4, <4>1
      <4>3. /\ stream'[c] # <<>> /\ Head(stream'[c]).kind = "zero"
            /\ Tail(stream'[c]) = Append(rest, S!Chunk(t, k))
        BY <1>3, <3>1, <3>2, <3>4, <4>1, TailAppend DEF Sent
      <4>4. AnswerOf(Tail(stream[c]), t, c)'
        BY <4>2, <4>3 DEF AnswerOf
      <4>5. QED
        BY <1>2, <2>2, <2>6, <3>4, <4>3, <4>4 DEF Begins, Tape
    <3>5. QED
      BY <2>6, <3>3, <3>4 DEF Begins
  <2>7. QED
    BY <1>13, <2>4, <2>6
<1>14. ASSUME NEW s \in Sessions, Fresh(s)', Awaits(s, c) PROVE Tape(s, c)'
  <2>1. PICK u \in before[s] : asked[c] = <<u, s>>
    BY <1>14 DEF Awaits
  <2>2. u = t /\ s # t
    <3>1. u = t
      BY <1>0, <2>1
    <3>2. QED
      BY <2>1, <3>1 DEF SnellInv, Order
  <2>3. /\ want[s] = "byte" /\ stream[c] = <<>> /\ begun[c]
        /\ snellSent[s] = 0 /\ ~finished[s] /\ snellGot[s] = <<>>
    BY <1>14 DEF Awaits
  <2>4. snellSent'[t] # snellSent[t] + 1
    <3>1. snellSent'[t] = snellSent[t]
      BY <1>8, <1>14, <2>1, <2>2
    <3>2. QED
      BY <1>3, <3>1
  <2>5. Sent("zero") /\ asked'[c] = Tail(asked[c]) /\ begun'[c] = FALSE
    BY <1>11, <2>3, <2>4
  <2>6. asked'[c] = <<s>> /\ stream'[c] = <<S!Chunk(t, "zero")>>
    <3>1. Tail(<<u, s>>) = <<s>>
      BY <2>1, <1>3
    <3>2. Append(<<>>, S!Chunk(t, "zero")) = <<S!Chunk(t, "zero")>>
      OBVIOUS
    <3>3. QED
      BY <2>1, <2>3, <2>5, <3>1, <3>2 DEF Sent
  <2>7. stream'[c] # <<>> /\ Head(stream'[c]).kind = "zero" /\ Tail(stream'[c]) = <<>>
    BY <2>6 DEF S!Chunk
  <2>8. ~finished'[s] /\ snellSent'[s] = 0 /\ snellGot'[s] = <<>> /\ want'[s] = "byte"
    BY <1>2, <2>2, <2>3
  <2>9. AnswerOf(Tail(stream[c]), s, c)'
    BY <2>5, <2>7, <2>8 DEF AnswerOf
  <2>10. Begins(s, c)'
    BY <2>6, <2>7, <2>8, <2>9 DEF Begins, NextIs
  <2>11. QED
    BY <2>10 DEF Tape
<1>15. ReadersInv'
  <2>1. ASSUME NEW s \in Sessions, NEW d \in SnellConns, snellPc'[s] = "read", snellConn'[s] = d, Fresh(s)'
        PROVE  Tape(s, d)'
    <3>1. snellPc[s] = "read" /\ snellConn[s] = d /\ Fresh(s)
      BY <1>2, <1>8, <2>1
    <3>2. Tape(s, d)
      BY <3>1 DEF SnellInv, ReadersInv
    <3>3. CASE d # c
      <4>1. s # t
        BY <1>3, <3>1, <3>3
      <4>2. QED
        BY <1>2, <3>2, <3>3, <4>1, TapeSame
    <3>4. CASE d = c /\ Awaits(s, c)
      BY <1>14, <2>1, <3>4
    <3>5. CASE d = c /\ (ReadsOn(s, c) \/ Begins(s, c))
      <4>1. asked[c] = <<s>>
        BY <1>1, <3>5 DEF ReadsOn, Begins, NextIs
      <4>2. s = t
        BY <1>0, <4>1
      <4>3. QED
        BY <1>13, <3>1, <3>5, <4>2
    <3>6. QED
      BY <3>2, <3>3, <3>4, <3>5 DEF Tape
  <2>2. QED
    BY <2>1 DEF ReadersInv
<1>16. QED
  BY <1>10, <1>12, <1>15

LEMMA SnellInit == ASSUME S!PoolAssumption, S!TypeOK, S!OneUser, S!Init PROVE SnellInv
<1>1. TapeTypes
  <2>1. <<>> \in Seq(AnyChunk) /\ <<>> \in Seq(Sessions)
    BY EmptySeq
  <2>2. stream \in [SnellConns -> Seq(AnyChunk)] /\ asked \in [SnellConns -> Seq(Sessions)]
    BY <2>1 DEF S!Init
  <2>3. snellGot \in [Sessions -> Seq(AnyChunk)]
    BY <2>1 DEF S!Init
  <2>4. snellSent \in [Sessions -> Nat] /\ finished \in [Sessions -> BOOLEAN] /\ before \in [Sessions -> SUBSET Sessions]
    BY DEF S!Init
  <2>5. end \in [Sessions -> {"", "header", "zero", "error", "interrupted"}]
    BY DEF S!Init
  <2>6. QED
    BY <2>2, <2>3, <2>4, <2>5 DEF TapeTypes
<1>2. Order /\ AskedInv /\ ReplySeen /\ Young
  <2>1. Order
    BY DEF Order, S!Init
  <2>2. AskedInv
    <3>1. \A c \in SnellConns : asked[c] = <<>>
      BY DEF S!Init
    <3>2. \A c \in SnellConns : Len(asked[c]) = 0
      BY <3>1, EmptySeq
    <3>3. \A c \in SnellConns : \A i \in 1..Len(asked[c]) : FALSE
      BY <3>2
    <3>4. QED
      BY <3>3, Zenon DEF AskedInv
  <2>3. ReplySeen
    BY DEF ReplySeen, S!Init
  <2>4. Young
    BY DEF Young, S!Init
  <2>5. QED
    BY <2>1, <2>2, <2>3, <2>4
<1>3. ReadersInv /\ QuietInv
  BY DEF ReadersInv, QuietInv, Quiet, S!Init
<1>4. AnswersOwn
  <2>1. ASSUME NEW s \in Sessions PROVE OwnSoFar(s)
    <3>1. snellGot[s] = <<>> /\ snellSent[s] = 0 /\ end[s] = ""
      BY DEF S!Init
    <3>2. Len(snellGot[s]) = 0 /\ snellSent[s] = 0
      BY <3>1, EmptySeq
    <3>3. Len(snellGot[s]) <= snellSent[s] /\ \A i \in 1..Len(snellGot[s]) : FALSE
      BY <3>2
    <3>4. end[s] # "zero"
      BY <3>1
    <3>5. QED
      BY <3>3, <3>4, Zenon DEF OwnSoFar
  <2>2. QED
    BY <2>1 DEF AnswersOwn
<1>5. QED
  BY <1>1, <1>2, <1>3, <1>4 DEF SnellInv

LEMMA SnellStep ==
    ASSUME S!PoolAssumption, SnellInv, S!TypeOK', S!OneUser', [S!Next]_(S!poolvars) PROVE SnellInv'
<1>1. TapeTypes' /\ Order' /\ AskedInv' /\ ReplySeen' /\ Young'
  BY TapeTypesStep, OrderStep, AskedStep, ReplyStep, YoungStep DEF SnellInv
<1>2. ReadersInv' /\ QuietInv' /\ AnswersOwn'
  <2>1. \A s \in Sessions : snellPc[s] \in {"header", "read", "close"} => snellConn[s] \in SnellConns
    BY DEF SnellInv, S!TypeOK, S!Holds
  <2>2. ASSUME NEW s \in Sessions, S!TakeExpired(s) PROVE ReadersInv' /\ QuietInv' /\ AnswersOwn'
    BY <2>2, TapeIdle DEF S!TakeExpired, S!sessvars
  <2>3. ASSUME NEW s \in Sessions, S!TakeFresh(s) \/ S!Dial(s) PROVE ReadersInv' /\ QuietInv' /\ AnswersOwn'
    BY <2>3, TapeGet
  <2>4. ASSUME NEW s \in Sessions, S!WriteHeader(s) PROVE ReadersInv' /\ QuietInv' /\ AnswersOwn'
    <3>1. PICK c \in SnellConns : snellConn[s] = c
      BY <2>1, <2>4 DEF S!WriteHeader
    <3>2. QED
      BY <2>4, <3>1, TapeHeader
  <2>5. ASSUME NEW s \in Sessions, S!Read(s) PROVE ReadersInv' /\ QuietInv' /\ AnswersOwn'
    <3>1. PICK c \in SnellConns : snellConn[s] = c
      BY <2>1, <2>5 DEF S!Read
    <3>2. QED
      BY <2>5, <3>1, TapeRead
  <2>6. ASSUME NEW s \in Sessions, S!ReadError(s) \/ S!Interrupt(s) \/ S!Close(s)
        PROVE  ReadersInv' /\ QuietInv' /\ AnswersOwn'
    <3>1. PICK c \in SnellConns : snellConn[s] = c
      BY <2>1, <2>6 DEF S!ReadError, S!Interrupt, S!Close
    <3>2. QED
      BY <2>6, <3>1, TapeStops
  <2>7. ASSUME NEW c \in SnellConns, S!ServerSends(c) PROVE ReadersInv' /\ QuietInv' /\ AnswersOwn'
    BY <2>7, TapeServer
  <2>8. ASSUME NEW c \in SnellConns, S!ServerCloses(c) PROVE ReadersInv' /\ QuietInv' /\ AnswersOwn'
    BY <2>8, TapeIdle DEF S!ServerCloses, S!sessvars
  <2>9. CASE UNCHANGED S!poolvars
    BY <2>9, TapeIdle DEF S!poolvars, S!connvars, S!sessvars
  <2>10. QED
    BY <2>2, <2>3, <2>4, <2>5, <2>6, <2>7, <2>8, <2>9 DEF S!Next
<1>3. QED
  BY <1>1, <1>2 DEF SnellInv

(* What a session reads is its own reply, whole and in order, unless one   *)
(* of the sessions that had the connection before it left part of its      *)
(* answer there (OwnReply, WholeReply).                                    *)
THEOREM RepliesAreOwn == ASSUME S!PoolAssumption PROVE S!Spec => [](S!OwnReply /\ S!WholeReply)
<1>1. S!Init /\ S!TypeOK /\ S!OneUser => SnellInv
  BY SnellInit
<1>2. SnellInv /\ S!TypeOK' /\ S!OneUser' /\ [S!Next]_(S!poolvars) => SnellInv'
  BY SnellStep
<1>3. SnellInv => S!OwnReply /\ S!WholeReply
  <2> SUFFICES ASSUME SnellInv PROVE S!OwnReply /\ S!WholeReply
    OBVIOUS
  <2>1. \A t \in Sessions : S!NothingToCome(t) => Clean(t)
    BY DEF S!NothingToCome, S!ReadAll, Clean
  <2>2. \A s \in Sessions : before[s] \subseteq Sessions
    BY DEF SnellInv, TapeTypes
  <2>3. \A s \in Sessions : (\A t \in before[s] : S!NothingToCome(t)) => OwnSoFar(s)
    BY <2>1, <2>2 DEF SnellInv, AnswersOwn, Fresh
  <2>4. QED
    BY <2>3 DEF S!OwnReply, S!WholeReply, OwnSoFar
<1>4. QED
  BY <1>1, <1>2, <1>3, PoolTypeCorrect, ConnectionsHaveOneUser, PTL DEF S!Spec

-----------------------------------------------------------------------------
(* Dns: what is decided for a question grows, the cache keeps the newest   *)
(* lasting answer, and replies of the past are never above it.             *)

(* A set of numbers below a bound has a greatest one.                      *)
LEMMA Greatest ==
    ASSUME NEW T \in SUBSET Nat, T # {}, NEW b \in Nat, \A n \in T : n <= b
    PROVE  \E n \in T : \A m \in T : m <= n
<1> DEFINE D0 == {b - m : m \in T}
<1>1. D0 \in SUBSET Nat /\ D0 # {}
  <2>1. \A m \in T : b - m \in Nat
    OBVIOUS
  <2>2. QED
    BY <2>1
<1>2. PICK d \in D0 : \A e \in D0 : d <= e
  <2> HIDE DEF D0
  <2>1. QED
    BY <1>1, Least
<1>3. PICK n \in T : d = b - n
  OBVIOUS
<1>4. ASSUME NEW m \in T PROVE m <= n
  <2>1. b - m \in D0
    OBVIOUS
  <2>2. b - n <= b - m
    BY <1>2, <1>3, <2>1
  <2>3. m \in Nat /\ n \in Nat
    OBVIOUS
  <2>4. QED
    BY ONLY <2>2, <2>3, b \in Nat
<1>5. QED
  BY <1>4

Servers == Main \cup Fallback \cup Policy
Answerers == Servers \cup {"hosts", "fakeip", "handler", "error", "nobody"}
Messages == [from : Answerers, content : D!Contents, lasting : BOOLEAN, n : Nat]
Batches == [out : SUBSET Servers, won : {<<>>} \cup (Servers \X D!Contents)]
Flights == [leader : D!Threads, first : Batches, second : Batches, choose : BOOLEAN]
DnsTypes ==
    /\ q \in [Requests -> Questions]
    /\ dnsPc \in [D!Threads -> {"unused", "start", "do", "lead", "join", "done"}]
    /\ flight \in [Questions -> {D!Idle} \cup Flights]
    /\ answers \in [Questions -> [msg : Messages, fresh : BOOLEAN]]
    /\ decided \in [Questions -> Nat]
    /\ replied \in [D!Threads -> Messages]
    /\ seen \in [Requests -> Nat]

(* The groups a question is asked of, and that answers come from them.     *)
Choosing(k) == ~D!MatchPolicy(k) /\ D!IsIPRequest(k) /\ ~D!OnlyFallback(k) /\ conf.fallback
FirstOf(k) ==
    IF D!MatchPolicy(k) THEN Policy
    ELSE IF D!IsIPRequest(k) /\ D!OnlyFallback(k) THEN Fallback ELSE Main
SecondOf(k) == IF Choosing(k) THEN Fallback ELSE {}
FromGroup(batch, group) ==
    /\ batch.out \subseteq group
    /\ batch.won # <<>> => batch.won[1] \in group
FlightsOK ==
    \A k \in Questions : D!Running(k) =>
        /\ FromGroup(flight[k].first, FirstOf(k)) /\ FromGroup(flight[k].second, SecondOf(k))
        /\ flight[k].choose = Choosing(k)

(* What the cache keeps is the newest lasting answer told so far.          *)
CacheOK ==
    \A k \in Questions :
        /\ answers[k].msg.n <= decided[k]
        /\ answers[k] # D!NoEntry => D!FromAllowed(k, answers[k].msg) /\ answers[k].msg.lasting
        /\ answers[k] = D!NoEntry => answers[k].msg.n = 0
ToldLast(r) == replied[D!Own(r)] # D!NoMessage => dnsPc[D!Own(r)] = "done"
ToldAllowed(r) == replied[D!Own(r)].from \in Servers => D!FromAllowed(q[r], replied[D!Own(r)])
ToldNewest(r) ==
    replied[D!Own(r)].lasting =>
        replied[D!Own(r)].n <= answers[q[r]].msg.n /\ seen[r] <= replied[D!Own(r)].n
Told(r) == ToldLast(r) /\ ToldAllowed(r) /\ ToldNewest(r)
ToldOK ==
    \A r \in Requests :
        /\ Told(r) /\ seen[r] <= answers[q[r]].msg.n
        /\ dnsPc[D!Own(r)] = "start" => dnsPc[D!Again(r)] = "unused"

DnsInv == DnsTypes /\ D!TypeOK /\ FlightsOK /\ CacheOK /\ ToldOK

LEMMA ThreadFacts ==
    /\ \A r \in Requests : D!Own(r) \in D!Threads /\ D!Again(r) \in D!Threads
    /\ \A r \in Requests : D!Asks(D!Own(r)) = q[r] /\ D!Asks(D!Again(r)) = q[r]
    /\ \A r, o \in Requests : (D!Own(r) = D!Own(o) => r = o) /\ D!Own(r) # D!Again(o)
    /\ \A t \in D!Threads : \E r \in Requests : t = D!Own(r) \/ t = D!Again(r)
    /\ \A t \in D!Threads : t # D!Nobody
    /\ DnsTypes => \A t \in D!Threads : D!Asks(t) \in Questions
<1>1. \A r \in Requests : D!Own(r) \in D!Threads /\ D!Again(r) \in D!Threads
  BY DEF D!Threads
<1>2. \A r \in Requests : D!Asks(D!Own(r)) = q[r] /\ D!Asks(D!Again(r)) = q[r]
  BY DEF D!Asks, D!Own, D!Again
<1>3. \A r, o \in Requests : (D!Own(r) = D!Own(o) => r = o) /\ D!Own(r) # D!Again(o)
  BY DEF D!Own, D!Again
<1>4. \A t \in D!Threads : \E r \in Requests : t = D!Own(r) \/ t = D!Again(r)
  BY DEF D!Threads
<1>5. \A t \in D!Threads : t # D!Nobody
  BY DEF D!Threads, D!Nobody, D!Own, D!Again
<1>6. DnsTypes => \A t \in D!Threads : D!Asks(t) \in Questions
  BY <1>2, <1>4 DEF DnsTypes
<1>7. QED
  BY <1>1, <1>2, <1>3, <1>4, <1>5, <1>6

(* What a message may say does not depend on what moves.                   *)
LEMMA AllowedStays ==
    ASSUME conf' = conf
    PROVE  /\ \A k, m : D!FromAllowed(k, m)' <=> D!FromAllowed(k, m)
           /\ \A k : FirstOf(k)' = FirstOf(k) /\ SecondOf(k)' = SecondOf(k) /\ (Choosing(k)' <=> Choosing(k))
<1>1. \A k : (D!MatchPolicy(k)' <=> D!MatchPolicy(k)) /\ (D!OnlyFallback(k)' <=> D!OnlyFallback(k))
  BY DEF D!MatchPolicy, D!OnlyFallback
<1>2. QED
  BY <1>1 DEF D!FromAllowed, FirstOf, SecondOf, Choosing

(* Nothing a request was told changes, and the cache gets newer.           *)
LEMMA ToldStays ==
    ASSUME DnsTypes, DnsTypes', NEW r \in Requests, Told(r), conf' = conf, q' = q, seen'[r] = seen[r],
           replied'[D!Own(r)] = replied[D!Own(r)],
           dnsPc[D!Own(r)] = "done" => dnsPc'[D!Own(r)] = "done",
           answers[q[r]].msg.n <= answers'[q[r]].msg.n
    PROVE  Told(r)'
<1>1. ToldLast(r)'
  BY DEF Told, ToldLast
<1>2. ToldAllowed(r)'
  <2>1. ASSUME replied[D!Own(r)].from \in Servers PROVE D!FromAllowed(q[r], replied[D!Own(r)])'
    <3>1. D!FromAllowed(q[r], replied[D!Own(r)])
      BY <2>1 DEF Told, ToldAllowed
    <3>2. QED
      BY <3>1 DEF D!FromAllowed, D!MatchPolicy, D!OnlyFallback
  <2>2. QED
    BY <2>1 DEF ToldAllowed
<1>3. ToldNewest(r)'
  <2>1. /\ D!Own(r) \in D!Threads /\ q[r] \in Questions
        /\ replied[D!Own(r)].n \in Nat /\ seen[r] \in Nat
        /\ answers[q[r]].msg.n \in Nat /\ answers'[q[r]].msg.n \in Nat
    BY ThreadFacts DEF DnsTypes, Messages
  <2>2. QED
    BY <2>1 DEF Told, ToldNewest
<1>4. QED
  BY <1>1, <1>2, <1>3 DEF Told

(* Something new it is told.                                               *)
LEMMA ToldNew ==
    ASSUME NEW r \in Requests, NEW m, replied'[D!Own(r)] = m, dnsPc'[D!Own(r)] = "done",
           q' = q, conf' = conf,
           m.from \in Servers => D!FromAllowed(q[r], m),
           m.lasting => m.n <= answers'[q[r]].msg.n /\ seen'[r] <= m.n
    PROVE  Told(r)'
<1>1. m.from \in Servers => D!FromAllowed(q[r], m)'
  BY DEF D!FromAllowed, D!MatchPolicy, D!OnlyFallback
<1>2. ToldLast(r)' /\ ToldNewest(r)'
  BY DEF ToldLast, ToldNewest
<1>3. ToldAllowed(r)'
  BY <1>1 DEF ToldAllowed, D!FromAllowed, D!MatchPolicy, D!OnlyFallback
<1>4. QED
  BY <1>2, <1>3 DEF Told

LEMMA RunningFacts ==
    ASSUME DnsTypes, NEW k \in Questions, D!Running(k)
    PROVE  /\ flight[k] \in Flights
           /\ flight[k].leader \in D!Threads /\ flight[k].first \in Batches /\ flight[k].second \in Batches
  BY DEF DnsTypes, D!Running, Flights

(* What a request knows when it arrives is not newer than the cache.       *)
LEMMA NewestBound ==
    ASSUME DnsInv, NEW k \in Questions PROVE D!Newest(k) \in Nat /\ D!Newest(k) <= answers[k].msg.n
<1> DEFINE who == {u \in D!Threads : /\ u[2] = "own" /\ D!Asks(u) = k /\ dnsPc[u] = "done"
                                    /\ replied[u].lasting}
           known0 == {replied[u].n : u \in who}
<1>1. D!Newest(k) = IF known0 = {} THEN 0 ELSE CHOOSE n \in known0 : \A m \in known0 : m <= n
  BY DEF D!Newest
<1>2. answers[k].msg.n \in Nat
  BY DEF DnsInv, DnsTypes, Messages
<1>3. \A u \in who : replied[u].n \in Nat /\ replied[u].n <= answers[k].msg.n
  <2> SUFFICES ASSUME NEW u \in who PROVE replied[u].n \in Nat /\ replied[u].n <= answers[k].msg.n
    OBVIOUS
  <2>1. PICK r \in Requests : u = D!Own(r) \/ u = D!Again(r)
    BY ThreadFacts
  <2>2. u = D!Own(r) /\ q[r] = k
    <3>1. u[2] = "own" /\ D!Asks(u) = k
      OBVIOUS
    <3>2. u = D!Own(r)
      BY <2>1, <3>1 DEF D!Again
    <3>3. QED
      BY <3>1, <3>2, ThreadFacts
  <2>3. replied[u].lasting /\ replied[u] \in Messages
    BY DEF DnsInv, DnsTypes
  <2>4. replied[u].n <= answers[k].msg.n
    BY <2>2, <2>3 DEF DnsInv, ToldOK, Told, ToldNewest
  <2>5. QED
    BY <2>3, <2>4 DEF Messages
<1>4. \A n \in known0 : n \in Nat /\ n <= answers[k].msg.n
  BY <1>3
<1> HIDE DEF who, known0
<1>5. CASE known0 = {}
  BY <1>1, <1>2, <1>5
<1>6. CASE known0 # {}
  <2>1. \E n \in known0 : \A m \in known0 : m <= n
    <3>1. known0 \in SUBSET Nat
      BY <1>4
    <3>2. QED
      BY <1>2, <1>4, <1>6, <3>1, Greatest
  <2>2. D!Newest(k) \in known0
    BY <1>1, <1>6, <2>1
  <2>3. QED
    BY <1>4, <2>2
<1>7. QED
  BY <1>5, <1>6

(* What an exchange decides, if it is not an error.                        *)
Decided(k, won, lasting) == D!Message(won[1], won[2], lasting, decided[k] + 1)

LEMMA DecideCases ==
    ASSUME DnsInv, NEW k \in Questions, D!Decide(k)
    PROVE  /\ D!Running(k)
           /\ \/ D!Lands(k, D!Error)
              \/ \E won \in Servers \X D!Contents, lasting \in BOOLEAN :
                    /\ D!Lands(k, Decided(k, won, lasting))
                    /\ D!FromAllowed(k, Decided(k, won, lasting))
<1>1. D!Running(k)
  BY DEF D!Decide
<1>2. /\ flight[k].first.won \in {<<>>} \cup (Servers \X D!Contents)
      /\ flight[k].second.won \in {<<>>} \cup (Servers \X D!Contents)
  BY <1>1, RunningFacts DEF DnsInv, Batches
<1>3. FromGroup(flight[k].first, FirstOf(k)) /\ FromGroup(flight[k].second, SecondOf(k))
      /\ flight[k].choose = Choosing(k)
  BY <1>1 DEF DnsInv, FlightsOK
<1>4. ASSUME NEW won \in Servers \X D!Contents, NEW lasting \in BOOLEAN, D!Taken(k),
             won = flight[k].first.won
      PROVE  D!FromAllowed(k, Decided(k, won, lasting))
  <2>1. won[1] \in FirstOf(k)
    BY <1>3, <1>4 DEF FromGroup, D!Taken
  <2>2. Choosing(k) => won[2] = "good"
    <3>1. won[2] \in {"good", "bad", "empty"}
      BY DEF D!Contents
    <3>2. QED
      BY <1>3, <1>4, <3>1 DEF D!Taken
  <2>3. /\ Decided(k, won, lasting).from = won[1] /\ Decided(k, won, lasting).content = won[2]
    BY DEF Decided, D!Message
  <2>4. QED
    BY <2>1, <2>2, <2>3 DEF D!FromAllowed, FirstOf, Choosing, D!OnlyFallback
<1>5. ASSUME NEW won \in Servers \X D!Contents, NEW lasting \in BOOLEAN, won # <<>>,
             won = flight[k].second.won
      PROVE  D!FromAllowed(k, Decided(k, won, lasting))
  <2>1. won[1] \in SecondOf(k)
    BY <1>3, <1>5 DEF FromGroup
  <2>2. Choosing(k) /\ won[1] \in Fallback
    BY <2>1 DEF SecondOf
  <2>3. Decided(k, won, lasting).from = won[1]
    BY DEF Decided, D!Message
  <2>4. QED
    BY <2>2, <2>3 DEF D!FromAllowed, Choosing
<1>6. CASE D!Taken(k)
  <2> DEFINE won == flight[k].first.won
  <2>1. won # <<>> /\ won \in Servers \X D!Contents
    BY <1>2, <1>6 DEF D!Taken
  <2>2. \E lasting \in BOOLEAN : D!Lands(k, Decided(k, won, lasting))
    BY <1>6, <2>1 DEF D!Decide, Decided
  <2>3. QED
    BY <1>1, <1>4, <1>6, <2>1, <2>2
<1>7. CASE ~D!Taken(k) /\ flight[k].second.won = <<>>
  BY <1>1, <1>7 DEF D!Decide
<1>8. CASE ~D!Taken(k) /\ flight[k].second.won # <<>>
  <2> DEFINE won == flight[k].second.won
  <2>1. won # <<>> /\ won \in Servers \X D!Contents
    BY <1>2, <1>8
  <2>2. \E lasting \in BOOLEAN : D!Lands(k, Decided(k, won, lasting))
    BY <1>8, <2>1 DEF D!Decide, Decided
  <2>3. QED
    BY <1>1, <1>5, <2>1, <2>2
<1>9. QED
  BY <1>6, <1>7, <1>8


LEMMA DnsHandle ==
    ASSUME D!DnsAssumption, DnsInv, NEW r \in Requests, D!Handle(r) PROVE DnsInv'
<1> DEFINE m == D!Message(D!HandlerOf(q[r]), "good", FALSE, 0)
<1>1. /\ conf' = conf /\ q' = q /\ flight' = flight /\ answers' = answers /\ decided' = decided
      /\ seen' = seen /\ dnsPc[D!Own(r)] = "start"
      /\ dnsPc' = [dnsPc EXCEPT ![D!Own(r)] = "done"] /\ replied' = [replied EXCEPT ![D!Own(r)] = m]
  BY DEF D!Handle, D!Returns, D!Goes
<1>2. m \in Messages /\ m.from \notin Servers /\ ~m.lasting
  BY DEF D!Message, D!HandlerOf, Messages, Answerers, D!Contents, D!DnsAssumption, Servers
<1> HIDE DEF m
<1>3. /\ dnsPc'[D!Own(r)] = "done" /\ replied'[D!Own(r)] = m
      /\ \A t \in D!Threads \ {D!Own(r)} : dnsPc'[t] = dnsPc[t] /\ replied'[t] = replied[t]
  BY <1>1, ThreadFacts DEF DnsInv, DnsTypes
<1>4. DnsTypes'
  BY <1>1, <1>2 DEF DnsInv, DnsTypes
<1>5. \A t \in D!Threads : D!Asks(t)' = D!Asks(t)
  BY <1>1 DEF D!Asks
<1>6. D!TypeOK'
  <2>1. \A k \in Questions : D!Running(k) => flight[k].leader # D!Own(r) /\ flight[k].leader \in D!Threads
    BY <1>1, RunningFacts DEF DnsInv, D!TypeOK
  <2>2. ASSUME NEW k \in Questions, D!Running(k)'
        PROVE  dnsPc'[flight'[k].leader] = "lead" /\ D!Asks(flight[k].leader)' = k
    <3>1. D!Running(k)
      BY <1>1, <2>2 DEF D!Running
    <3>2. QED
      BY <1>1, <1>3, <1>5, <2>1, <3>1 DEF DnsInv, D!TypeOK
  <2>3. ASSUME NEW t \in D!Threads
        PROVE  /\ dnsPc'[t] \in {"unused", "start", "do", "lead", "join", "done"}
               /\ dnsPc'[t] = "lead" => flight'[D!Asks(t)'].leader = t
               /\ dnsPc'[t] = "join" => D!Running(D!Asks(t))'
    BY <1>1, <1>3, <1>5 DEF DnsInv, D!TypeOK, D!Running
  <2>4. QED
    BY <1>1, <2>2, <2>3 DEF D!TypeOK
<1>7. FlightsOK'
  BY <1>1 DEF DnsInv, FlightsOK, FromGroup, FirstOf, SecondOf, Choosing, D!Running, D!MatchPolicy,
              D!OnlyFallback
<1>8. CacheOK'
  BY <1>1 DEF DnsInv, CacheOK, D!FromAllowed, D!MatchPolicy, D!OnlyFallback
<1>9. ToldOK'
  <2>1. ASSUME NEW o \in Requests
        PROVE  /\ Told(o)' /\ seen'[o] <= answers'[q'[o]].msg.n
               /\ dnsPc'[D!Own(o)] = "start" => dnsPc'[D!Again(o)] = "unused"
    <3>1. /\ Told(o) /\ seen[o] <= answers[q[o]].msg.n
          /\ dnsPc[D!Own(o)] = "start" => dnsPc[D!Again(o)] = "unused"
      BY DEF DnsInv, ToldOK
    <3>2. dnsPc'[D!Again(o)] = dnsPc[D!Again(o)]
      BY <1>3, ThreadFacts
    <3>3. CASE o = r
      <4>1. Told(r)'
        BY <1>1, <1>2, <1>3, ToldNew
      <4>2. seen'[o] = seen[o] /\ answers'[q'[o]] = answers[q[o]]
        BY <1>1
      <4>3. dnsPc'[D!Own(o)] # "start"
        BY <1>3, <3>3
      <4>4. QED
        BY <3>1, <3>3, <4>1, <4>2, <4>3
    <3>4. CASE o # r
      <4>1. D!Own(o) \in D!Threads \ {D!Own(r)}
        BY <3>4, ThreadFacts
      <4>2. q[o] \in Questions /\ answers[q[o]].msg.n \in Nat
        BY DEF DnsInv, DnsTypes, Messages
      <4>3. replied'[D!Own(o)] = replied[D!Own(o)] /\ dnsPc'[D!Own(o)] = dnsPc[D!Own(o)]
        BY <1>3, <4>1
      <4>4. answers[q[o]].msg.n <= answers'[q[o]].msg.n
        BY <1>1, <4>2
      <4>5. DnsTypes
        BY DEF DnsInv
      <4>6. seen'[o] = seen[o] /\ answers'[q'[o]] = answers[q[o]]
        BY <1>1
      <4>7. Told(o)'
        BY <1>1, <1>4, <3>1, <4>3, <4>4, <4>5, <4>6, ToldStays
      <4>8. QED
        BY <3>1, <3>2, <4>3, <4>6, <4>7
    <3>5. QED
      BY <3>3, <3>4
  <2>2. QED
    BY <2>1 DEF ToldOK
<1>10. QED
  BY <1>4, <1>6, <1>7, <1>8, <1>9 DEF DnsInv

LEMMA DnsExchange ==
    ASSUME D!DnsAssumption, DnsInv, NEW r \in Requests, D!Exchange(r) PROVE DnsInv'
<1> DEFINE k == q[r]
<1>1. /\ conf' = conf /\ q' = q /\ flight' = flight /\ answers' = answers /\ decided' = decided
      /\ dnsPc[D!Own(r)] = "start"
      /\ seen' = [seen EXCEPT ![r] = D!Newest(k)]
  BY DEF D!Exchange
<1>2. k \in Questions /\ D!Own(r) \in D!Threads /\ D!Again(r) \in D!Threads /\ D!Own(r) # D!Again(r)
      /\ dnsPc[D!Again(r)] = "unused"
  BY <1>1, ThreadFacts DEF DnsInv, DnsTypes, ToldOK
<1>3. D!Newest(k) \in Nat /\ D!Newest(k) <= answers[k].msg.n /\ answers[k].msg \in Messages
  BY <1>2, NewestBound DEF DnsInv, DnsTypes
<1>4. /\ dnsPc'[D!Own(r)] \in {"do", "done"} /\ dnsPc'[D!Again(r)] \in {"unused", "do"}
      /\ \A t \in D!Threads \ {D!Own(r), D!Again(r)} : dnsPc'[t] = dnsPc[t]
      /\ \A t \in D!Threads \ {D!Own(r)} : replied'[t] = replied[t]
      /\ \/ replied' = replied
         \/ /\ answers[k] # D!NoEntry /\ replied'[D!Own(r)] = answers[k].msg /\ dnsPc'[D!Own(r)] = "done"
            /\ replied' = [replied EXCEPT ![D!Own(r)] = answers[k].msg]
      /\ \E a \in {"do", "done"}, b \in {"unused", "do"} :
            dnsPc' = [dnsPc EXCEPT ![D!Own(r)] = a, ![D!Again(r)] = b]
  <2>1. CASE answers[k] = D!NoEntry
    <3>1. dnsPc' = [dnsPc EXCEPT ![D!Own(r)] = "do"] /\ replied' = replied
      BY <2>1 DEF D!Exchange, D!Goes
    <3>2. \A t \in D!Threads : dnsPc'[t] = IF t = D!Own(r) THEN "do" ELSE dnsPc[t]
      BY <3>1 DEF DnsInv, DnsTypes
    <3>3. dnsPc' = [dnsPc EXCEPT ![D!Own(r)] = "do", ![D!Again(r)] = "unused"]
      BY <1>2, <3>1 DEF DnsInv, DnsTypes
    <3>4. QED
      BY <1>2, <3>1, <3>2, <3>3
  <2>2. CASE answers[k] # D!NoEntry
    <3>1. /\ replied' = [replied EXCEPT ![D!Own(r)] = answers[k].msg]
          /\ \E b \in {"unused", "do"} : dnsPc' = [dnsPc EXCEPT ![D!Own(r)] = "done", ![D!Again(r)] = b]
      BY <2>2 DEF D!Exchange
    <3>2. PICK b \in {"unused", "do"} : dnsPc' = [dnsPc EXCEPT ![D!Own(r)] = "done", ![D!Again(r)] = b]
      BY <3>1
    <3>3. \A t \in D!Threads :
             dnsPc'[t] = IF t = D!Again(r) THEN b ELSE IF t = D!Own(r) THEN "done" ELSE dnsPc[t]
      BY <1>2, <3>2 DEF DnsInv, DnsTypes
    <3>4. \A t \in D!Threads : replied'[t] = IF t = D!Own(r) THEN answers[k].msg ELSE replied[t]
      BY <3>1 DEF DnsInv, DnsTypes
    <3>5. QED
      BY <1>2, <2>2, <3>1, <3>2, <3>3, <3>4
  <2>3. QED
    BY <2>1, <2>2
<1> HIDE DEF k
<1>5. DnsTypes'
  <2>1. seen' \in [Requests -> Nat]
    BY <1>1, <1>3 DEF DnsInv, DnsTypes
  <2>2. replied' \in [D!Threads -> Messages]
    BY <1>3, <1>4 DEF DnsInv, DnsTypes
  <2>3. dnsPc' \in [D!Threads -> {"unused", "start", "do", "lead", "join", "done"}]
    BY <1>4 DEF DnsInv, DnsTypes
  <2>4. QED
    BY <1>1, <2>1, <2>2, <2>3 DEF DnsInv, DnsTypes
<1>6. \A t \in D!Threads : D!Asks(t)' = D!Asks(t)
  BY <1>1 DEF D!Asks
<1>7. D!TypeOK'
  <2>1. \A j \in Questions : D!Running(j) =>
           flight[j].leader \in D!Threads \ {D!Own(r), D!Again(r)}
    BY <1>1, <1>2, RunningFacts DEF DnsInv, D!TypeOK
  <2>2. ASSUME NEW j \in Questions, D!Running(j)'
        PROVE  dnsPc'[flight'[j].leader] = "lead" /\ D!Asks(flight[j].leader)' = j
    <3>1. D!Running(j)
      BY <1>1, <2>2 DEF D!Running
    <3>2. QED
      BY <1>1, <1>4, <1>6, <2>1, <3>1 DEF DnsInv, D!TypeOK
  <2>3. ASSUME NEW t \in D!Threads
        PROVE  /\ dnsPc'[t] \in {"unused", "start", "do", "lead", "join", "done"}
               /\ dnsPc'[t] = "lead" => flight'[D!Asks(t)'].leader = t
               /\ dnsPc'[t] = "join" => D!Running(D!Asks(t))'
    BY <1>1, <1>4, <1>6 DEF DnsInv, D!TypeOK, D!Running
  <2>4. QED
    BY <1>1, <2>2, <2>3 DEF D!TypeOK
<1>8. FlightsOK'
  BY <1>1 DEF DnsInv, FlightsOK, FromGroup, D!Running, FirstOf, SecondOf, Choosing, D!MatchPolicy,
              D!OnlyFallback
<1>9. CacheOK'
  BY <1>1, AllowedStays DEF DnsInv, CacheOK
<1>10. ToldOK'
  <2>1. ASSUME NEW o \in Requests
        PROVE  /\ Told(o)' /\ seen'[o] <= answers'[q'[o]].msg.n
               /\ dnsPc'[D!Own(o)] = "start" => dnsPc'[D!Again(o)] = "unused"
    <3>1. /\ Told(o) /\ seen[o] <= answers[q[o]].msg.n
          /\ dnsPc[D!Own(o)] = "start" => dnsPc[D!Again(o)] = "unused"
      BY DEF DnsInv, ToldOK
    <3>2. CASE o = r
      <4>1. seen'[r] = D!Newest(k)
        BY <1>1 DEF DnsInv, DnsTypes
      <4>2. CASE replied' = replied
        <5>1. replied[D!Own(r)] = D!NoMessage
          <6>1. ToldLast(r)
            BY <3>1, <3>2 DEF Told
          <6>2. QED
            BY <1>1, <6>1 DEF ToldLast
        <5>2. replied'[D!Own(r)] = D!NoMessage
          BY <4>2, <5>1
        <5>3. ~D!NoMessage.lasting /\ D!NoMessage.from \notin Servers
          BY DEF D!NoMessage, D!Message, D!DnsAssumption, Servers
        <5>4. Told(r)'
          BY <5>2, <5>3 DEF Told, ToldLast, ToldAllowed, ToldNewest
        <5>5. QED
          BY <1>1, <1>3, <1>4, <3>2, <4>1, <5>4 DEF k
      <4>3. CASE answers[k] # D!NoEntry /\ replied'[D!Own(r)] = answers[k].msg /\ dnsPc'[D!Own(r)] = "done"
        <5>1. D!FromAllowed(k, answers[k].msg)
          BY <1>2, <4>3 DEF DnsInv, CacheOK
        <5>2. PICK m \in Messages : m = answers[k].msg
          BY <1>3
        <5>3. m.n <= answers'[q[r]].msg.n /\ seen'[r] <= m.n
          BY <1>1, <1>3, <4>1, <5>2 DEF Messages, k
        <5>4. Told(r)'
          BY <1>1, <4>3, <5>1, <5>2, <5>3, ToldNew DEF k
        <5>5. QED
          BY <1>1, <1>3, <1>4, <3>2, <4>1, <4>3, <5>4 DEF k
      <4>4. QED
        BY <1>4, <4>2, <4>3
    <3>3. CASE o # r
      <4>1. D!Own(o) \in D!Threads \ {D!Own(r), D!Again(r)} /\ D!Again(o) \in D!Threads \ {D!Own(r), D!Again(r)}
        BY <3>3, ThreadFacts DEF D!Again
      <4>2. seen'[o] = seen[o] /\ dnsPc'[D!Own(o)] = dnsPc[D!Own(o)] /\ replied'[D!Own(o)] = replied[D!Own(o)]
            /\ dnsPc'[D!Again(o)] = dnsPc[D!Again(o)]
        BY <1>1, <1>4, <3>3, <4>1 DEF DnsInv, DnsTypes
      <4>3. q[o] \in Questions /\ answers[q[o]].msg.n \in Nat
        BY DEF DnsInv, DnsTypes, Messages
      <4>4. answers[q[o]].msg.n <= answers'[q[o]].msg.n
        BY <1>1, <4>3
      <4>5. DnsTypes
        BY DEF DnsInv
      <4>6. Told(o)'
        BY <1>1, <1>5, <3>1, <4>2, <4>4, <4>5, ToldStays
      <4>7. answers'[q'[o]] = answers[q[o]]
        BY <1>1
      <4>8. QED
        BY <3>1, <4>2, <4>6, <4>7
    <3>4. QED
      BY <3>2, <3>3
  <2>2. QED
    BY <2>1 DEF ToldOK
<1>11. QED
  BY <1>5, <1>7, <1>8, <1>9, <1>10 DEF DnsInv


(* What a step leaves alone.                                               *)
LEMMA ToldKept ==
    ASSUME DnsInv, DnsTypes', conf' = conf, q' = q, seen' = seen, replied' = replied,
           \A k \in Questions : answers[k].msg.n <= answers'[k].msg.n,
           \A t \in D!Threads : dnsPc'[t] # dnsPc[t] => dnsPc[t] = "do" /\ dnsPc'[t] \notin {"unused", "start"}
    PROVE  ToldOK'
<1>1. ASSUME NEW o \in Requests
      PROVE  /\ Told(o)' /\ seen'[o] <= answers'[q'[o]].msg.n
             /\ dnsPc'[D!Own(o)] = "start" => dnsPc'[D!Again(o)] = "unused"
  <2>1. /\ Told(o) /\ seen[o] <= answers[q[o]].msg.n
        /\ dnsPc[D!Own(o)] = "start" => dnsPc[D!Again(o)] = "unused"
    BY DEF DnsInv, ToldOK
  <2>2. /\ q[o] \in Questions /\ answers[q[o]].msg.n \in Nat /\ seen[o] \in Nat
        /\ D!Own(o) \in D!Threads /\ D!Again(o) \in D!Threads
    BY ThreadFacts DEF DnsInv, DnsTypes, Messages
  <2>3. answers[q[o]].msg.n <= answers'[q[o]].msg.n /\ answers'[q[o]].msg.n \in Nat
    BY <2>2 DEF DnsTypes, Messages
  <2>4. dnsPc[D!Own(o)] = "done" => dnsPc'[D!Own(o)] = "done"
    BY <2>2
  <2>5. DnsTypes
    BY DEF DnsInv
  <2>6. Told(o)'
    BY <2>1, <2>3, <2>4, <2>5, ToldStays
  <2>7. dnsPc'[D!Own(o)] = "start" => dnsPc'[D!Again(o)] = "unused"
    BY <2>1, <2>2
  <2>8. seen[o] <= answers'[q[o]].msg.n
    <3>1. seen[o] <= answers[q[o]].msg.n
      BY <2>1
    <3>2. QED
      BY <2>2, <2>3, <3>1
  <2>9. QED
    BY <2>6, <2>7, <2>8
<1>2. QED
  BY <1>1 DEF ToldOK

(* The flights in progress are led from inside, and waited for.            *)
LEMMA FlightsKept ==
    ASSUME DnsInv, conf' = conf,
           \A k \in Questions : flight'[k] # flight[k] =>
               /\ FromGroup(flight'[k].first, FirstOf(k)) /\ FromGroup(flight'[k].second, SecondOf(k))
               /\ flight'[k].choose = Choosing(k)
    PROVE  FlightsOK'
<1>1. ASSUME NEW k \in Questions, D!Running(k)'
      PROVE  /\ FromGroup(flight'[k].first, FirstOf(k)) /\ FromGroup(flight'[k].second, SecondOf(k))
             /\ flight'[k].choose = Choosing(k)
  <2>1. CASE flight'[k] = flight[k]
    BY <1>1, <2>1 DEF DnsInv, FlightsOK, D!Running
  <2>2. CASE flight'[k] # flight[k]
    BY <2>2
  <2>3. QED
    BY <2>1, <2>2
<1>2. ASSUME NEW k \in Questions, D!Running(k)'
      PROVE  /\ FromGroup(flight[k].first, FirstOf(k))' /\ FromGroup(flight[k].second, SecondOf(k))'
             /\ flight'[k].choose = Choosing(k)'
  <2>1. FirstOf(k)' = FirstOf(k) /\ SecondOf(k)' = SecondOf(k) /\ (Choosing(k)' <=> Choosing(k))
    BY AllowedStays
  <2>2. Choosing(k)' = Choosing(k)
    BY DEF Choosing, D!MatchPolicy, D!OnlyFallback
  <2>3. QED
    BY <1>1, <1>2, <2>1, <2>2 DEF FromGroup
<1>3. QED
  BY <1>2 DEF FlightsOK

LEMMA DnsExpire ==
    ASSUME D!DnsAssumption, DnsInv, NEW k \in Questions, D!Expire(k) PROVE DnsInv'
<1>1. /\ conf' = conf /\ q' = q /\ dnsPc' = dnsPc /\ flight' = flight /\ decided' = decided
      /\ replied' = replied /\ seen' = seen
      /\ answers' = [answers EXCEPT ![k].fresh = FALSE] /\ answers[k] # D!NoEntry
  BY DEF D!Expire
<1>2. DnsTypes'
  BY <1>1 DEF DnsInv, DnsTypes
<1>3. \A j \in Questions : answers'[j].msg = answers[j].msg /\ (j # k => answers'[j] = answers[j])
  BY <1>1 DEF DnsInv, DnsTypes
<1>4. D!TypeOK'
  BY <1>1 DEF DnsInv, D!TypeOK, D!Running, D!Asks
<1>5. FlightsOK'
  BY <1>1, FlightsKept
<1>6. CacheOK'
  <2>1. ASSUME NEW j \in Questions
        PROVE  /\ answers'[j].msg.n <= decided[j]
               /\ answers'[j] # D!NoEntry => D!FromAllowed(j, answers'[j].msg) /\ answers'[j].msg.lasting
               /\ answers'[j] = D!NoEntry => answers'[j].msg.n = 0
    <3>1. /\ answers[j].msg.n <= decided[j]
          /\ answers[j] # D!NoEntry => D!FromAllowed(j, answers[j].msg) /\ answers[j].msg.lasting
          /\ answers[j] = D!NoEntry => answers[j].msg.n = 0
      BY DEF DnsInv, CacheOK
    <3>2. CASE j = k
      <4>1. answers[k].msg.lasting
        BY <1>1, <3>1, <3>2
      <4>2. answers'[k] # D!NoEntry
        BY <1>3, <4>1 DEF D!NoEntry, D!NoMessage, D!Message
      <4>3. QED
        BY <1>1, <1>3, <3>1, <3>2, <4>1, <4>2
    <3>3. CASE j # k
      BY <1>3, <3>1, <3>3
    <3>4. QED
      BY <3>2, <3>3
  <2>2. ASSUME NEW j \in Questions
        PROVE  /\ answers'[j].msg.n <= decided'[j]
               /\ answers'[j] # D!NoEntry => D!FromAllowed(j, answers[j].msg)' /\ answers'[j].msg.lasting
               /\ answers'[j] = D!NoEntry => answers'[j].msg.n = 0
    BY <1>1, <2>1 DEF D!FromAllowed, D!MatchPolicy, D!OnlyFallback
  <2>3. QED
    BY <2>2 DEF CacheOK
<1>7. ToldOK'
  <2>1. \A j \in Questions : answers[j].msg.n <= answers'[j].msg.n
    BY <1>3 DEF DnsInv, DnsTypes, Messages
  <2>2. QED
    BY <1>1, <1>2, <2>1, ToldKept
<1>8. QED
  BY <1>2, <1>4, <1>5, <1>6, <1>7 DEF DnsInv

LEMMA DnsDo ==
    ASSUME D!DnsAssumption, DnsInv, NEW t \in D!Threads, D!Do(t) PROVE DnsInv'
<1> DEFINE k == D!Asks(t)
<1>1. /\ conf' = conf /\ q' = q /\ answers' = answers /\ decided' = decided /\ replied' = replied
      /\ seen' = seen /\ dnsPc[t] = "do"
  BY DEF D!Do
<1>2. k \in Questions
  BY ThreadFacts DEF DnsInv
<1>3. /\ flight' = IF flight[k] = D!Idle THEN [flight EXCEPT ![k] = D!Takeoff(t, k)] ELSE flight
      /\ dnsPc' = [dnsPc EXCEPT ![t] = IF flight[k] = D!Idle THEN "lead" ELSE "join"]
  BY DEF D!Do, D!Goes
<1>4. \A u \in D!Threads : D!Asks(u)' = D!Asks(u)
  BY <1>1 DEF D!Asks
<1>5. /\ D!Takeoff(t, k) \in Flights /\ D!Takeoff(t, k).leader = t
      /\ FromGroup(D!Takeoff(t, k).first, FirstOf(k)) /\ FromGroup(D!Takeoff(t, k).second, SecondOf(k))
      /\ D!Takeoff(t, k).choose = Choosing(k)
  <2> HIDE DEF k
  <2>1. \A g \in {Policy, Fallback, Main, {}} : D!Batch(g) \in Batches /\ FromGroup(D!Batch(g), g)
    BY DEF D!Batch, Batches, Servers, FromGroup
  <2>2. /\ D!Takeoff(t, k).first = D!Batch(FirstOf(k)) /\ D!Takeoff(t, k).second = D!Batch(SecondOf(k))
        /\ D!Takeoff(t, k).choose = Choosing(k) /\ D!Takeoff(t, k).leader = t
        /\ D!Takeoff(t, k) = [leader |-> t, first |-> D!Batch(FirstOf(k)),
                              second |-> D!Batch(SecondOf(k)), choose |-> Choosing(k)]
    <3>1. CASE D!MatchPolicy(k)
      BY <3>1 DEF D!Takeoff, FirstOf, SecondOf, Choosing, D!NoBatch
    <3>2. CASE ~D!MatchPolicy(k) /\ D!IsIPRequest(k) /\ D!OnlyFallback(k)
      BY <3>2 DEF D!Takeoff, FirstOf, SecondOf, Choosing, D!NoBatch
    <3>3. CASE ~D!MatchPolicy(k) /\ D!IsIPRequest(k) /\ ~D!OnlyFallback(k) /\ conf.fallback
      BY <3>3 DEF D!Takeoff, FirstOf, SecondOf, Choosing
    <3>4. CASE /\ ~D!MatchPolicy(k) /\ ~(D!IsIPRequest(k) /\ D!OnlyFallback(k))
               /\ ~(D!IsIPRequest(k) /\ ~D!OnlyFallback(k) /\ conf.fallback)
      BY <3>4 DEF D!Takeoff, FirstOf, SecondOf, Choosing, D!NoBatch
    <3>5. QED
      BY <3>1, <3>2, <3>3, <3>4
  <2>3. FirstOf(k) \in {Policy, Fallback, Main, {}} /\ SecondOf(k) \in {Policy, Fallback, Main, {}}
    BY DEF FirstOf, SecondOf
  <2>4. Choosing(k) \in BOOLEAN
    BY DEF Choosing
  <2>5. QED
    BY <2>1, <2>2, <2>3, <2>4 DEF Flights
<1> HIDE DEF k
<1>6. DnsTypes'
  BY <1>1, <1>2, <1>3, <1>5 DEF DnsInv, DnsTypes
<1>7. D!TypeOK'
  <2>1. ASSUME NEW j \in Questions, D!Running(j)'
        PROVE  dnsPc'[flight'[j].leader] = "lead" /\ D!Asks(flight[j].leader)' = j
    <3>1. CASE j = k /\ flight[k] = D!Idle
      <4>1. flight'[j].leader = t /\ dnsPc'[t] = "lead"
        BY <1>2, <1>3, <1>5, <3>1 DEF DnsInv, DnsTypes
      <4>2. D!Asks(flight[j].leader)' = D!Asks(t)
        BY <1>1, <4>1 DEF D!Asks
      <4>3. QED
        BY <3>1, <4>1, <4>2 DEF k
    <3>2. CASE ~(j = k /\ flight[k] = D!Idle)
      <4>1. flight'[j] = flight[j]
        BY <1>2, <1>3, <3>2 DEF DnsInv, DnsTypes
      <4>2. D!Running(j)
        BY <2>1, <4>1 DEF D!Running
      <4>3. flight[j].leader \in D!Threads /\ dnsPc[flight[j].leader] = "lead" /\ D!Asks(flight[j].leader) = j
        BY <4>2, RunningFacts DEF DnsInv, D!TypeOK
      <4>4. dnsPc'[flight[j].leader] = "lead"
        BY <1>1, <1>3, <4>3 DEF DnsInv, DnsTypes
      <4>5. QED
        BY <1>1, <4>1, <4>3, <4>4 DEF D!Asks
    <3>3. QED
      BY <3>1, <3>2
  <2>2. ASSUME NEW u \in D!Threads
        PROVE  /\ dnsPc'[u] \in {"unused", "start", "do", "lead", "join", "done"}
               /\ dnsPc'[u] = "lead" => flight'[D!Asks(u)'].leader = u
               /\ dnsPc'[u] = "join" => D!Running(D!Asks(u))'
    <3>1. dnsPc'[u] \in {"unused", "start", "do", "lead", "join", "done"}
      BY <1>6 DEF DnsTypes
    <3>2. D!Asks(u) \in Questions /\ D!Asks(u)' = D!Asks(u)
      BY <1>4, ThreadFacts DEF DnsInv
    <3>3. CASE u = t
      <4>1. D!Asks(u)' = k
        BY <3>2, <3>3 DEF k
      <4>2. CASE flight[k] = D!Idle
        <5>1. dnsPc'[u] = "lead" /\ flight'[k].leader = t
          BY <1>2, <1>3, <1>5, <3>3, <4>2 DEF DnsInv, DnsTypes
        <5>2. QED
          BY <3>3, <4>1, <5>1
      <4>3. CASE flight[k] # D!Idle
        <5>1. dnsPc'[u] = "join" /\ flight' = flight
          BY <1>3, <3>3, <4>3 DEF DnsInv, DnsTypes
        <5>2. QED
          BY <4>1, <4>3, <5>1 DEF D!Running
      <4>4. QED
        BY <4>2, <4>3
    <3>4. CASE u # t
      <4>1. dnsPc'[u] = dnsPc[u]
        BY <1>3, <3>4 DEF DnsInv, DnsTypes
      <4>2. /\ dnsPc[u] = "lead" => flight[D!Asks(u)].leader = u
            /\ dnsPc[u] = "join" => D!Running(D!Asks(u))
        BY DEF DnsInv, D!TypeOK
      <4>3. D!Running(D!Asks(u)) => flight'[D!Asks(u)] = flight[D!Asks(u)]
        BY <1>2, <1>3, <3>2 DEF DnsInv, DnsTypes, D!Running
      <4>4. dnsPc[u] = "lead" => D!Running(D!Asks(u))
        BY <4>2, ThreadFacts DEF D!Running, D!Idle
      <4>5. QED
        BY <3>1, <3>2, <4>1, <4>2, <4>3, <4>4 DEF D!Running
    <3>5. QED
      BY <3>3, <3>4
  <2>3. QED
    BY <2>1, <2>2 DEF D!TypeOK
<1>8. FlightsOK'
  <2>1. \A j \in Questions : flight'[j] # flight[j] =>
            /\ FromGroup(flight'[j].first, FirstOf(j)) /\ FromGroup(flight'[j].second, SecondOf(j))
            /\ flight'[j].choose = Choosing(j)
    <3>1. \A j \in Questions : flight'[j] # flight[j] => j = k /\ flight'[j] = D!Takeoff(t, k)
      BY <1>2, <1>3 DEF DnsInv, DnsTypes
    <3>2. QED
      BY <1>5, <3>1
  <2>2. QED
    BY <1>1, <2>1, FlightsKept
<1>9. CacheOK'
  BY <1>1, AllowedStays DEF DnsInv, CacheOK
<1>10. ToldOK'
  <2>1. \A j \in Questions : answers[j].msg.n <= answers'[j].msg.n
    BY <1>1 DEF DnsInv, DnsTypes, Messages
  <2>2. \A u \in D!Threads : dnsPc'[u] # dnsPc[u] => dnsPc[u] = "do" /\ dnsPc'[u] \notin {"unused", "start"}
    BY <1>1, <1>3 DEF DnsInv, DnsTypes
  <2>3. QED
    BY <1>1, <1>6, <2>1, <2>2, ToldKept
<1>11. QED
  BY <1>6, <1>7, <1>8, <1>9, <1>10 DEF DnsInv


LEMMA PickedFacts ==
    ASSUME NEW b \in Batches, NEW s \in b.out, NEW c \in D!Contents \cup {"failed"}, NEW g,
           FromGroup(b, g)
    PROVE  D!Picked(b, s, c) \in Batches /\ FromGroup(D!Picked(b, s, c), g)
<1>1. /\ b = [out |-> b.out, won |-> b.won] /\ b.out \in SUBSET Servers
      /\ b.won \in {<<>>} \cup (Servers \X D!Contents) /\ s \in Servers /\ s \in g
  BY DEF Batches, FromGroup
<1>2. \A ok \in BOOLEAN : D!Leaves(b, s, ok) = b.out \ {s}
  BY DEF D!Leaves
<1>3. CASE c = "failed"
  <2>1. D!Picked(b, s, c) = [out |-> b.out \ {s}, won |-> b.won]
    BY <1>1, <1>2, <1>3 DEF D!Picked
  <2>2. QED
    BY <1>1, <2>1 DEF Batches, FromGroup
<1>4. CASE c # "failed"
  <2>1. D!Picked(b, s, c) = [out |-> b.out \ {s}, won |-> IF b.won = <<>> THEN <<s, c>> ELSE b.won]
    BY <1>1, <1>2, <1>4 DEF D!Picked
  <2>2. <<s, c>> \in Servers \X D!Contents /\ <<s, c>>[1] = s
    BY <1>1, <1>4
  <2>3. QED
    BY <1>1, <2>1, <2>2 DEF Batches, FromGroup
<1>5. QED
  BY <1>3, <1>4

LEMMA DnsAnswer ==
    ASSUME D!DnsAssumption, DnsInv, NEW k \in Questions, NEW s \in Servers, D!Answer(k, s)
    PROVE  DnsInv'
<1>1. /\ conf' = conf /\ q' = q /\ dnsPc' = dnsPc /\ answers' = answers /\ decided' = decided
      /\ replied' = replied /\ seen' = seen /\ D!Running(k)
  BY DEF D!Answer
<1>2. PICK f \in Flights : /\ flight' = [flight EXCEPT ![k] = f] /\ f.leader = flight[k].leader
                          /\ FromGroup(f.first, FirstOf(k)) /\ FromGroup(f.second, SecondOf(k))
                          /\ f.choose = Choosing(k)
  <2>1. /\ flight[k] \in Flights /\ flight[k].first \in Batches /\ flight[k].second \in Batches
        /\ FromGroup(flight[k].first, FirstOf(k)) /\ FromGroup(flight[k].second, SecondOf(k))
        /\ flight[k].choose = Choosing(k)
    BY <1>1, RunningFacts DEF DnsInv, FlightsOK
  <2>2. PICK c \in D!Contents \cup {"failed"} :
           \/ s \in flight[k].first.out /\ flight' = [flight EXCEPT ![k].first = D!Picked(@, s, c)]
           \/ s \in flight[k].second.out /\ flight' = [flight EXCEPT ![k].second = D!Picked(@, s, c)]
    BY DEF D!Answer
  <2>3. CASE s \in flight[k].first.out /\ flight' = [flight EXCEPT ![k].first = D!Picked(@, s, c)]
    <3> DEFINE b == D!Picked(flight[k].first, s, c)
               f == [flight[k] EXCEPT !.first = b]
    <3>1. b \in Batches /\ FromGroup(b, FirstOf(k))
      BY <2>1, <2>3, PickedFacts
    <3>2. flight' = [flight EXCEPT ![k] = f]
      BY <2>3 DEF DnsInv, DnsTypes
    <3> HIDE DEF b
    <3>3. f \in Flights /\ f.leader = flight[k].leader /\ f.first = b /\ f.second = flight[k].second
          /\ f.choose = flight[k].choose
      BY <2>1, <3>1 DEF Flights
    <3> HIDE DEF f
    <3>4. QED
      BY <2>1, <3>1, <3>2, <3>3
  <2>4. CASE s \in flight[k].second.out /\ flight' = [flight EXCEPT ![k].second = D!Picked(@, s, c)]
    <3> DEFINE b == D!Picked(flight[k].second, s, c)
               f == [flight[k] EXCEPT !.second = b]
    <3>1. b \in Batches /\ FromGroup(b, SecondOf(k))
      BY <2>1, <2>4, PickedFacts
    <3>2. flight' = [flight EXCEPT ![k] = f]
      BY <2>4 DEF DnsInv, DnsTypes
    <3> HIDE DEF b
    <3>3. f \in Flights /\ f.leader = flight[k].leader /\ f.first = flight[k].first /\ f.second = b
          /\ f.choose = flight[k].choose
      BY <2>1, <3>1 DEF Flights
    <3> HIDE DEF f
    <3>4. QED
      BY <2>1, <3>1, <3>2, <3>3
  <2>5. QED
    BY <2>2, <2>3, <2>4
<1>3. /\ flight'[k] = f /\ \A j \in Questions : j # k => flight'[j] = flight[j]
      /\ D!Running(k)'
  <2>1. f # D!Idle
    BY <1>1, <1>2, ThreadFacts DEF Flights, D!Idle
  <2>2. QED
    BY <1>2, <2>1 DEF DnsInv, DnsTypes, D!Running
<1>4. DnsTypes'
  BY <1>1, <1>2 DEF DnsInv, DnsTypes
<1>5. \A j \in Questions : (D!Running(j)' <=> D!Running(j)) /\ (D!Running(j) => flight'[j].leader = flight[j].leader)
  BY <1>1, <1>2, <1>3 DEF D!Running
<1>6. D!TypeOK'
  <2>1. ASSUME NEW j \in Questions, D!Running(j)'
        PROVE  dnsPc'[flight'[j].leader] = "lead" /\ D!Asks(flight[j].leader)' = j
    <3>1. /\ flight'[j].leader = flight[j].leader /\ dnsPc[flight[j].leader] = "lead"
          /\ D!Asks(flight[j].leader) = j
      BY <1>5, <2>1 DEF DnsInv, D!TypeOK
    <3>2. QED
      BY <1>1, <3>1 DEF D!Asks
  <2>2. ASSUME NEW u \in D!Threads
        PROVE  /\ dnsPc'[u] \in {"unused", "start", "do", "lead", "join", "done"}
               /\ dnsPc'[u] = "lead" => flight'[D!Asks(u)'].leader = u
               /\ dnsPc'[u] = "join" => D!Running(D!Asks(u))'
    <3>1. D!Asks(u) \in Questions /\ D!Asks(u)' = D!Asks(u)
      BY <1>1, ThreadFacts DEF DnsInv, D!Asks
    <3>2. /\ dnsPc[u] \in {"unused", "start", "do", "lead", "join", "done"}
          /\ dnsPc[u] = "lead" => flight[D!Asks(u)].leader = u
          /\ dnsPc[u] = "join" => D!Running(D!Asks(u))
      BY DEF DnsInv, D!TypeOK
    <3>3. dnsPc[u] = "lead" => D!Running(D!Asks(u))
      BY <3>2, ThreadFacts DEF D!Running, D!Idle
    <3>4. PICK j \in Questions : j = D!Asks(u)
      BY <3>1
    <3>5. dnsPc[u] = "lead" => flight'[j].leader = u
      BY <1>5, <3>2, <3>3, <3>4
    <3>6. dnsPc[u] = "join" => flight'[j] # D!Idle
      BY <1>5, <3>2, <3>4 DEF D!Running
    <3>7. QED
      BY <1>1, <3>1, <3>2, <3>4, <3>5, <3>6 DEF D!Running
  <2>3. QED
    BY <2>1, <2>2 DEF D!TypeOK
<1>7. FlightsOK'
  BY <1>1, <1>2, <1>3, FlightsKept
<1>8. CacheOK'
  BY <1>1, AllowedStays DEF DnsInv, CacheOK
<1>9. ToldOK'
  <2>1. \A j \in Questions : answers[j].msg.n <= answers'[j].msg.n
    BY <1>1 DEF DnsInv, DnsTypes, Messages
  <2>2. QED
    BY <1>1, <1>4, <2>1, ToldKept
<1>10. QED
  BY <1>4, <1>6, <1>7, <1>8, <1>9 DEF DnsInv

(* An answer that is not an error is the newest there is.                  *)
LEMMA DnsLands ==
    ASSUME D!DnsAssumption, DnsInv, NEW k \in Questions, D!Running(k), NEW m \in Messages, D!Lands(k, m),
           \/ m = D!Error
           \/ m # D!Error /\ m.from \in Servers /\ m.n = decided[k] + 1 /\ D!FromAllowed(k, m)
    PROVE  DnsInv'
<1>1. /\ conf' = conf /\ q' = q /\ seen' = seen /\ flight' = [flight EXCEPT ![k] = D!Idle]
      /\ answers' = IF m.lasting THEN [answers EXCEPT ![k] = [msg |-> m, fresh |-> TRUE]] ELSE answers
      /\ decided' = [decided EXCEPT ![k] = IF m = D!Error THEN decided[k] ELSE decided[k] + 1]
      /\ dnsPc' = [t \in D!Threads |-> IF t \in D!Served(k) THEN "done" ELSE dnsPc[t]]
      /\ replied' = [t \in D!Threads |-> IF t \in D!Served(k) THEN m ELSE replied[t]]
  BY DEF D!Lands, D!Cached
<1>2. ~D!Error.lasting /\ D!Error.from \notin Servers
  BY DEF D!Error, D!Message, D!DnsAssumption, Servers
<1>3. \A t \in D!Threads : t \in D!Served(k) <=> (D!Asks(t) = k /\ dnsPc[t] \in {"lead", "join"})
  <2>1. flight[k].leader \in D!Threads /\ dnsPc[flight[k].leader] = "lead" /\ D!Asks(flight[k].leader) = k
    BY RunningFacts DEF DnsInv, D!TypeOK
  <2>2. ASSUME NEW t \in D!Threads, dnsPc[t] = "lead", D!Asks(t) = k PROVE t = flight[k].leader
    BY <2>2 DEF DnsInv, D!TypeOK
  <2>3. QED
    BY <2>1, <2>2 DEF D!Served
<1>4. DnsTypes'
  <2>1. decided[k] \in Nat
    BY DEF DnsInv, DnsTypes
  <2>2. decided' \in [Questions -> Nat]
    BY <1>1, <2>1 DEF DnsInv, DnsTypes
  <2>3. answers' \in [Questions -> [msg : Messages, fresh : BOOLEAN]]
    BY <1>1 DEF DnsInv, DnsTypes
  <2>4. replied' \in [D!Threads -> Messages]
    BY <1>1 DEF DnsInv, DnsTypes
  <2>5. dnsPc' \in [D!Threads -> {"unused", "start", "do", "lead", "join", "done"}]
    BY <1>1 DEF DnsInv, DnsTypes
  <2>6. flight' \in [Questions -> {D!Idle} \cup Flights]
    BY <1>1 DEF DnsInv, DnsTypes
  <2>7. QED
    BY <1>1, <2>2, <2>3, <2>4, <2>5, <2>6 DEF DnsInv, DnsTypes
<1>5. /\ flight'[k] = D!Idle /\ \A j \in Questions : j # k => flight'[j] = flight[j] /\ answers'[j] = answers[j] /\ decided'[j] = decided[j]
      /\ \A t \in D!Threads : dnsPc'[t] = IF t \in D!Served(k) THEN "done" ELSE dnsPc[t]
      /\ \A t \in D!Threads : replied'[t] = IF t \in D!Served(k) THEN m ELSE replied[t]
  BY <1>1 DEF DnsInv, DnsTypes
<1>6. D!TypeOK'
  <2>1. ASSUME NEW j \in Questions, D!Running(j)'
        PROVE  dnsPc'[flight'[j].leader] = "lead" /\ D!Asks(flight[j].leader)' = j
    <3>1. j # k /\ flight'[j] = flight[j]
      BY <1>5, <2>1 DEF D!Running
    <3>2. flight[j].leader \in D!Threads /\ dnsPc[flight[j].leader] = "lead" /\ D!Asks(flight[j].leader) = j
      BY <2>1, <3>1, RunningFacts DEF DnsInv, D!TypeOK, D!Running
    <3>3. flight[j].leader \notin D!Served(k)
      BY <1>3, <3>1, <3>2
    <3>4. QED
      BY <1>1, <1>5, <3>1, <3>2, <3>3 DEF D!Asks
  <2>2. ASSUME NEW u \in D!Threads
        PROVE  /\ dnsPc'[u] \in {"unused", "start", "do", "lead", "join", "done"}
               /\ dnsPc'[u] = "lead" => flight'[D!Asks(u)'].leader = u
               /\ dnsPc'[u] = "join" => D!Running(D!Asks(u))'
    <3>1. D!Asks(u) \in Questions /\ D!Asks(u)' = D!Asks(u)
      BY <1>1, ThreadFacts DEF DnsInv, D!Asks
    <3>2. /\ dnsPc[u] \in {"unused", "start", "do", "lead", "join", "done"}
          /\ dnsPc[u] = "lead" => flight[D!Asks(u)].leader = u
          /\ dnsPc[u] = "join" => D!Running(D!Asks(u))
      BY DEF DnsInv, D!TypeOK
    <3>3. CASE u \in D!Served(k)
      <4>1. dnsPc'[u] = "done"
        BY <1>5, <3>3
      <4>2. QED
        BY <4>1
    <3>4. CASE u \notin D!Served(k)
      <4>1. dnsPc'[u] = dnsPc[u]
        BY <1>5, <3>4
      <4>2. dnsPc[u] \in {"lead", "join"} => flight'[D!Asks(u)] = flight[D!Asks(u)]
        BY <1>3, <1>5, <3>1, <3>4
      <4>3. PICK j \in Questions : j = D!Asks(u)
        BY <3>1
      <4>4. dnsPc[u] = "lead" => flight'[j].leader = u
        BY <3>2, <4>2, <4>3
      <4>5. dnsPc[u] = "join" => flight'[j] # D!Idle
        BY <3>2, <4>2, <4>3 DEF D!Running
      <4>6. QED
        BY <3>1, <3>2, <4>1, <4>3, <4>4, <4>5 DEF D!Running
    <3>5. QED
      BY <3>3, <3>4
  <2>3. QED
    BY <2>1, <2>2 DEF D!TypeOK
<1>7. FlightsOK'
  <2>1. ASSUME NEW j \in Questions, D!Running(j)'
        PROVE  /\ FromGroup(flight[j].first, FirstOf(j))' /\ FromGroup(flight[j].second, SecondOf(j))'
               /\ flight'[j].choose = Choosing(j)'
    <3>1. flight'[j] = flight[j] /\ D!Running(j)
      BY <1>5, <2>1 DEF D!Running
    <3>2. /\ FromGroup(flight[j].first, FirstOf(j)) /\ FromGroup(flight[j].second, SecondOf(j))
          /\ flight[j].choose = Choosing(j)
      BY <3>1 DEF DnsInv, FlightsOK
    <3>3. FirstOf(j)' = FirstOf(j) /\ SecondOf(j)' = SecondOf(j)
      BY <1>1, AllowedStays
    <3>4. Choosing(j)' = Choosing(j)
      BY <1>1 DEF Choosing, D!MatchPolicy, D!OnlyFallback
    <3>5. QED
      BY <3>1, <3>2, <3>3, <3>4 DEF FromGroup
  <2>2. QED
    BY <2>1 DEF FlightsOK
<1>8. \A j \in Questions : /\ answers[j].msg.n \in Nat /\ answers'[j].msg.n \in Nat /\ decided[j] \in Nat
                          /\ answers[j].msg.n <= decided[j] /\ decided'[j] \in Nat
  BY <1>4 DEF DnsInv, DnsTypes, Messages, CacheOK
<1>9. CASE ~m.lasting
  <2>1. answers' = answers /\ decided[k] <= decided'[k]
    <3>1. decided'[k] = IF m = D!Error THEN decided[k] ELSE decided[k] + 1
      BY <1>1 DEF DnsInv, DnsTypes
    <3>2. QED
      BY <1>1, <1>8, <1>9, <3>1
  <2>2. CacheOK'
    <3>1. ASSUME NEW j \in Questions
          PROVE  /\ answers'[j].msg.n <= decided'[j]
                 /\ answers'[j] # D!NoEntry => D!FromAllowed(j, answers[j].msg)' /\ answers'[j].msg.lasting
                 /\ answers'[j] = D!NoEntry => answers'[j].msg.n = 0
      <4>1. answers[j].msg.n <= decided'[j]
        BY <1>5, <1>8, <2>1
      <4>2. /\ answers[j] # D!NoEntry => D!FromAllowed(j, answers[j].msg) /\ answers[j].msg.lasting
            /\ answers[j] = D!NoEntry => answers[j].msg.n = 0
        BY DEF DnsInv, CacheOK
      <4>3. QED
        BY <1>1, <2>1, <4>1, <4>2 DEF D!FromAllowed, D!MatchPolicy, D!OnlyFallback
    <3>2. QED
      BY <3>1 DEF CacheOK
  <2>3. ToldOK'
    <3>1. ASSUME NEW o \in Requests
          PROVE  /\ Told(o)' /\ seen'[o] <= answers'[q'[o]].msg.n
                 /\ dnsPc'[D!Own(o)] = "start" => dnsPc'[D!Again(o)] = "unused"
      <4>1. /\ Told(o) /\ seen[o] <= answers[q[o]].msg.n
            /\ dnsPc[D!Own(o)] = "start" => dnsPc[D!Again(o)] = "unused"
        BY DEF DnsInv, ToldOK
      <4>2. /\ D!Own(o) \in D!Threads /\ D!Again(o) \in D!Threads
            /\ D!Asks(D!Own(o)) = q[o] /\ D!Asks(D!Again(o)) = q[o] /\ q[o] \in Questions
        BY ThreadFacts DEF DnsInv, DnsTypes
      <4>3. dnsPc'[D!Own(o)] = "start" => dnsPc'[D!Again(o)] = "unused"
        <5>1. dnsPc'[D!Own(o)] = "start" => dnsPc[D!Own(o)] = "start"
          BY <1>5, <4>2
        <5>2. dnsPc[D!Again(o)] = "unused" => dnsPc'[D!Again(o)] = "unused"
          BY <1>3, <1>5, <4>2
        <5>3. QED
          BY <4>1, <5>1, <5>2
      <4>4. seen'[o] <= answers'[q'[o]].msg.n
        BY <1>1, <2>1, <4>1
      <4>5. CASE D!Own(o) \in D!Served(k)
        <5>1. q[o] = k /\ replied'[D!Own(o)] = m /\ dnsPc'[D!Own(o)] = "done"
          BY <1>3, <1>5, <4>2, <4>5
        <5>2. m.from \in Servers => D!FromAllowed(q[o], m)
          BY <1>2, <5>1
        <5>3. Told(o)'
          BY <1>1, <1>9, <5>1, <5>2, ToldNew
        <5>4. QED
          BY <4>3, <4>4, <5>3
      <4>6. CASE D!Own(o) \notin D!Served(k)
        <5>1. replied'[D!Own(o)] = replied[D!Own(o)] /\ dnsPc'[D!Own(o)] = dnsPc[D!Own(o)]
          BY <1>5, <4>2, <4>6
        <5>2. answers[q[o]].msg.n <= answers'[q[o]].msg.n
          BY <1>8, <2>1, <4>2
        <5>3. DnsTypes
          BY DEF DnsInv
        <5>4. Told(o)'
          BY <1>1, <1>4, <4>1, <5>1, <5>2, <5>3, ToldStays
        <5>5. QED
          BY <4>3, <4>4, <5>4
      <4>7. QED
        BY <4>5, <4>6
    <3>2. QED
      BY <3>1 DEF ToldOK
  <2>4. QED
    BY <1>4, <1>6, <1>7, <2>2, <2>3 DEF DnsInv
<1>10. CASE m.lasting
  <2>1. m # D!Error /\ m.from \in Servers /\ m.n = decided[k] + 1 /\ D!FromAllowed(k, m)
    BY <1>2, <1>10
  <2>2. /\ answers'[k] = [msg |-> m, fresh |-> TRUE] /\ decided'[k] = decided[k] + 1
        /\ answers[k].msg.n <= m.n /\ answers'[k].msg = m
    <3>1. answers'[k] = [msg |-> m, fresh |-> TRUE] /\ decided'[k] = decided[k] + 1
      BY <1>1, <1>10, <2>1 DEF DnsInv, DnsTypes
    <3>2. answers[k].msg.n <= m.n
      BY <1>8, <2>1
    <3>3. QED
      BY <3>1, <3>2
  <2>3. CacheOK'
    <3>1. ASSUME NEW j \in Questions
          PROVE  /\ answers'[j].msg.n <= decided'[j]
                 /\ answers'[j] # D!NoEntry => D!FromAllowed(j, answers[j].msg)' /\ answers'[j].msg.lasting
                 /\ answers'[j] = D!NoEntry => answers'[j].msg.n = 0
      <4>1. CASE j = k
        <5>1. answers'[k].msg.n <= decided'[k]
          BY <1>8, <2>1, <2>2
        <5>2. D!FromAllowed(k, answers[k].msg)'
          BY <1>1, <2>1, <2>2 DEF D!FromAllowed, D!MatchPolicy, D!OnlyFallback
        <5>3. answers'[k] # D!NoEntry
          BY <2>2 DEF D!NoEntry
        <5>4. QED
          BY <1>10, <2>2, <4>1, <5>1, <5>2, <5>3
      <4>2. CASE j # k
        <5>1. answers'[j] = answers[j] /\ decided'[j] = decided[j]
          BY <1>5, <4>2
        <5>2. /\ answers[j].msg.n <= decided[j]
              /\ answers[j] # D!NoEntry => D!FromAllowed(j, answers[j].msg) /\ answers[j].msg.lasting
              /\ answers[j] = D!NoEntry => answers[j].msg.n = 0
          BY DEF DnsInv, CacheOK
        <5>3. QED
          BY <1>1, <5>1, <5>2 DEF D!FromAllowed, D!MatchPolicy, D!OnlyFallback
      <4>3. QED
        BY <4>1, <4>2
    <3>2. QED
      BY <3>1 DEF CacheOK
  <2>4. ToldOK'
    <3>1. ASSUME NEW o \in Requests
          PROVE  /\ Told(o)' /\ seen'[o] <= answers'[q'[o]].msg.n
                 /\ dnsPc'[D!Own(o)] = "start" => dnsPc'[D!Again(o)] = "unused"
      <4>1. /\ Told(o) /\ seen[o] <= answers[q[o]].msg.n
            /\ dnsPc[D!Own(o)] = "start" => dnsPc[D!Again(o)] = "unused"
        BY DEF DnsInv, ToldOK
      <4>2. /\ D!Own(o) \in D!Threads /\ D!Again(o) \in D!Threads /\ seen[o] \in Nat
            /\ D!Asks(D!Own(o)) = q[o] /\ D!Asks(D!Again(o)) = q[o] /\ q[o] \in Questions
        BY ThreadFacts DEF DnsInv, DnsTypes
      <4>3. dnsPc'[D!Own(o)] = "start" => dnsPc'[D!Again(o)] = "unused"
        <5>1. dnsPc'[D!Own(o)] = "start" => dnsPc[D!Own(o)] = "start"
          BY <1>5, <4>2
        <5>2. dnsPc[D!Again(o)] = "unused" => dnsPc'[D!Again(o)] = "unused"
          BY <1>3, <1>5, <4>2
        <5>3. QED
          BY <4>1, <5>1, <5>2
      <4>4. answers[q[o]].msg.n <= answers'[q[o]].msg.n
        <5>1. CASE q[o] = k
          BY <2>2, <5>1
        <5>2. CASE q[o] # k
          <6>1. answers'[q[o]] = answers[q[o]]
            BY <1>5, <4>2, <5>2
          <6>2. QED
            BY <1>8, <4>2, <6>1
        <5>3. QED
          BY <5>1, <5>2
      <4>5. seen'[o] <= answers'[q'[o]].msg.n
        <5>1. seen[o] <= answers[q[o]].msg.n
          BY <4>1
        <5>2. seen[o] <= answers'[q[o]].msg.n
          BY <1>8, <4>2, <4>4, <5>1
        <5>3. QED
          BY <1>1, <5>2
      <4>6. CASE D!Own(o) \in D!Served(k)
        <5>1. q[o] = k /\ replied'[D!Own(o)] = m /\ dnsPc'[D!Own(o)] = "done"
          BY <1>3, <1>5, <4>2, <4>6
        <5>2. m.n <= answers'[q[o]].msg.n /\ seen'[o] <= m.n
          <6>1. m.n \in Nat
            BY DEF Messages
          <6>2. seen[o] <= answers[k].msg.n
            BY <4>1, <5>1
          <6>3. seen[o] <= m.n
            BY <1>8, <2>2, <4>2, <6>1, <6>2
          <6>4. QED
            BY <1>1, <2>2, <5>1, <6>1, <6>3
        <5>3. D!FromAllowed(q[o], m)
          BY <2>1, <5>1
        <5>4. Told(o)'
          BY <1>1, <5>1, <5>2, <5>3, ToldNew
        <5>5. QED
          BY <4>3, <4>5, <5>4
      <4>7. CASE D!Own(o) \notin D!Served(k)
        <5>1. replied'[D!Own(o)] = replied[D!Own(o)] /\ dnsPc'[D!Own(o)] = dnsPc[D!Own(o)]
          BY <1>5, <4>2, <4>7
        <5>2. DnsTypes
          BY DEF DnsInv
        <5>3. Told(o)'
          BY <1>1, <1>4, <4>1, <4>4, <5>1, <5>2, ToldStays
        <5>4. QED
          BY <4>3, <4>5, <5>3
      <4>8. QED
        BY <4>6, <4>7
    <3>2. QED
      BY <3>1 DEF ToldOK
  <2>5. QED
    BY <1>4, <1>6, <1>7, <2>3, <2>4 DEF DnsInv
<1>11. QED
  BY <1>9, <1>10

LEMMA DnsDecide ==
    ASSUME D!DnsAssumption, DnsInv, NEW k \in Questions, D!Decide(k) PROVE DnsInv'
<1>1. D!Running(k)
  BY DecideCases
<1>2. CASE D!Lands(k, D!Error)
  <2>1. D!Error \in Messages
    BY DEF D!Error, D!Message, Messages, Answerers, D!Contents
  <2>2. QED
    BY <1>1, <1>2, <2>1, DnsLands
<1>3. CASE \E won \in Servers \X D!Contents, lasting \in BOOLEAN :
               D!Lands(k, Decided(k, won, lasting)) /\ D!FromAllowed(k, Decided(k, won, lasting))
  <2>1. PICK won \in Servers \X D!Contents, lasting \in BOOLEAN :
               D!Lands(k, Decided(k, won, lasting)) /\ D!FromAllowed(k, Decided(k, won, lasting))
    BY <1>3
  <2>2. decided[k] \in Nat
    BY DEF DnsInv, DnsTypes
  <2>3. /\ Decided(k, won, lasting) \in Messages /\ Decided(k, won, lasting).from \in Servers
        /\ Decided(k, won, lasting).n = decided[k] + 1
    BY <2>2 DEF Decided, D!Message, Messages, Answerers
  <2>4. Decided(k, won, lasting) # D!Error
    BY <2>3 DEF D!DnsAssumption, Servers, D!Error, D!Message
  <2>5. PICK m \in Messages : m = Decided(k, won, lasting)
    BY <2>3
  <2>6. QED
    BY <1>1, <2>1, <2>3, <2>4, <2>5, DnsLands
<1>4. QED
  BY <1>2, <1>3, DecideCases

LEMMA DnsInit == ASSUME D!DnsAssumption, D!Init PROVE DnsInv
<1>1. /\ q \in [Requests -> Questions]
      /\ dnsPc = [t \in D!Threads |-> IF t[2] = "own" THEN "start" ELSE "unused"]
      /\ flight = [k \in Questions |-> D!Idle] /\ answers = [k \in Questions |-> D!NoEntry]
      /\ decided = [k \in Questions |-> 0] /\ replied = [t \in D!Threads |-> D!NoMessage]
      /\ seen = [r \in Requests |-> 0]
  BY DEF D!Init, D!DnsAssumption
<1>2. D!NoMessage \in Messages /\ D!NoMessage.n = 0 /\ ~D!NoMessage.lasting /\ D!NoMessage.from \notin Servers
      /\ D!NoEntry = [msg |-> D!NoMessage, fresh |-> FALSE]
  BY DEF D!NoMessage, D!Message, Messages, Answerers, D!Contents, D!DnsAssumption, Servers, D!NoEntry
<1>3. DnsTypes
  <2>1. D!NoEntry \in [msg : Messages, fresh : BOOLEAN]
    BY <1>2
  <2>2. QED
    BY <1>1, <1>2, <2>1 DEF DnsTypes
<1>4. D!TypeOK
  BY <1>1 DEF D!TypeOK, D!Running
<1>5. FlightsOK
  BY <1>1 DEF FlightsOK, D!Running
<1>6. CacheOK
  BY <1>1, <1>2 DEF CacheOK
<1>7. ToldOK
  <2>1. ASSUME NEW r \in Requests
        PROVE  /\ Told(r) /\ seen[r] <= answers[q[r]].msg.n
               /\ dnsPc[D!Own(r)] = "start" => dnsPc[D!Again(r)] = "unused"
    <3>1. D!Own(r) \in D!Threads /\ D!Again(r) \in D!Threads /\ q[r] \in Questions
      BY <1>1, ThreadFacts
    <3>2. replied[D!Own(r)] = D!NoMessage /\ answers[q[r]].msg.n = 0 /\ seen[r] = 0
      BY <1>1, <1>2, <3>1
    <3>3. dnsPc[D!Again(r)] = "unused"
      BY <1>1, <3>1 DEF D!Again
    <3>4. QED
      BY <1>2, <3>2, <3>3 DEF Told, ToldLast, ToldAllowed, ToldNewest
  <2>2. QED
    BY <2>1 DEF ToldOK
<1>8. QED
  BY <1>3, <1>4, <1>5, <1>6, <1>7 DEF DnsInv

LEMMA DnsStep == ASSUME D!DnsAssumption, DnsInv, [D!Next]_(D!vars) PROVE DnsInv'
<1>1. ASSUME NEW r \in Requests, D!Handle(r) PROVE DnsInv'
  BY <1>1, DnsHandle
<1>2. ASSUME NEW r \in Requests, D!Exchange(r) PROVE DnsInv'
  BY <1>2, DnsExchange
<1>3. ASSUME NEW t \in D!Threads, D!Do(t) PROVE DnsInv'
  BY <1>3, DnsDo
<1>4. ASSUME NEW k \in Questions, D!Expire(k) PROVE DnsInv'
  BY <1>4, DnsExpire
<1>5. ASSUME NEW k \in Questions, D!Decide(k) PROVE DnsInv'
  BY <1>5, DnsDecide
<1>6. ASSUME NEW k \in Questions, NEW s \in Servers, D!Answer(k, s) PROVE DnsInv'
  BY <1>6, DnsAnswer
<1>7. CASE UNCHANGED D!vars
  <2>1. /\ conf' = conf /\ q' = q /\ dnsPc' = dnsPc /\ flight' = flight /\ answers' = answers
        /\ decided' = decided /\ replied' = replied /\ seen' = seen
    BY <1>7 DEF D!vars
  <2>2. DnsTypes' /\ D!TypeOK'
    BY <2>1 DEF DnsInv, DnsTypes, D!TypeOK, D!Running, D!Asks
  <2>3. FlightsOK'
    BY <2>1, FlightsKept
  <2>4. CacheOK'
    BY <2>1, AllowedStays DEF DnsInv, CacheOK
  <2>5. ToldOK'
    <3>1. \A j \in Questions : answers[j].msg.n <= answers'[j].msg.n
      BY <2>1 DEF DnsInv, DnsTypes, Messages
    <3>2. QED
      BY <2>1, <2>2, <3>1, ToldKept
  <2>6. QED
    BY <2>2, <2>3, <2>4, <2>5 DEF DnsInv
<1>8. QED
  BY <1>1, <1>2, <1>3, <1>4, <1>5, <1>6, <1>7 DEF D!Next, Servers

LEMMA DnsSafe ==
    ASSUME DnsInv PROVE D!AnswerAllowed /\ D!NeverOlder
<1>1. D!AnswerAllowed
  <2>1. \A k \in Questions : answers[k] # D!NoEntry => D!FromAllowed(k, answers[k].msg)
    BY DEF DnsInv, CacheOK
  <2>2. \A r \in Requests : replied[D!Own(r)].from \in Servers => D!FromAllowed(q[r], replied[D!Own(r)])
    BY DEF DnsInv, ToldOK, Told, ToldAllowed
  <2>3. QED
    BY <2>1, <2>2 DEF D!AnswerAllowed, Servers
<1>2. D!NeverOlder
  <2>1. ASSUME NEW r \in Requests, replied[D!Own(r)].lasting PROVE replied[D!Own(r)].n >= seen[r]
    <3>1. seen[r] <= replied[D!Own(r)].n
      BY <2>1 DEF DnsInv, ToldOK, Told, ToldNewest
    <3>2. seen[r] \in Nat /\ replied[D!Own(r)].n \in Nat
      BY ThreadFacts DEF DnsInv, DnsTypes, Messages
    <3>3. QED
      BY <3>1, <3>2
  <2>2. QED
    BY <2>1 DEF D!NeverOlder
<1>3. QED
  BY <1>1, <1>2

(* Every answer that is kept or told comes from a server the configuration *)
(* lets answer that question, and nobody is told something older than what *)
(* was told before he asked.                                               *)
THEOREM AnswersAreAllowed ==
    ASSUME D!DnsAssumption PROVE D!Spec => [](D!AnswerAllowed /\ D!NeverOlder)
<1>1. D!Init => DnsInv
  BY DnsInit
<1>2. DnsInv /\ [D!Next]_(D!vars) => DnsInv'
  BY DnsStep
<1>3. DnsInv => D!AnswerAllowed /\ D!NeverOlder
  BY DnsSafe
<1>4. QED
  BY <1>1, <1>2, <1>3, PTL DEF D!Spec

-----------------------------------------------------------------------------
(* Inbound: what is said between a client and the server, step by step,    *)
(* and when the credential was last valid that let a connection in.        *)

MeantAndDialable(c) == {a \in I!Meant(c) : a.type \in I!Dialable}
ClientSteps == {"start", "method", "status", "reply", "response", "ok", "gone"}
ServerSteps == {"peek", "socks5", "auth", "request", "socks4", "http", "hand", "handed", "udp", "closed", "left"}
InTypes ==
    /\ program \in Starts /\ now \in Nat
    /\ cache \in [I!Creds -> [ok : BOOLEAN, expires : Int]] /\ lastValid \in [I!Creds -> Int]
    /\ DOMAIN toServer = InConns /\ DOMAIN toClient = InConns
    /\ client \in [InConns -> ClientSteps] /\ server \in [InConns -> ServerSteps]
    /\ DOMAIN known = InConns /\ DOMAIN command5 = InConns /\ DOMAIN target = InConns
    /\ trusted \in [InConns -> BOOLEAN] /\ turn \in [InConns -> Nat \ {0}]
    /\ looked \in [InConns -> Nat] /\ used \in [InConns -> Int]

(* Whoever is let in now was valid now, and a verdict that is kept was     *)
(* right when it was given.                                                *)
Clock ==
    /\ \A cred \in I!Creds : lastValid[cred] <= now
    /\ \A cred \in I!Creds : I!InForce = {} \/ cred \in I!InForce => lastValid[cred] = now
    /\ \A cred \in I!Creds : cache[cred].ok => cache[cred].expires <= lastValid[cred] + TTL

(* What is said, and kept, is said by a client of that kind.               *)
Hears(c) ==
    /\ server[c] \in {"socks5", "auth", "request", "udp"} => program[c].proto = "socks5"
    /\ server[c] = "socks4" => program[c].proto = "socks4"
    /\ server[c] = "hand" => /\ program[c].proto \in {"socks4", "socks5"}
                             /\ command5[c].addr = program[c].addr /\ program[c].addr.type \in I!Dialable
    /\ server[c] = "peek" => ~trusted[c]
    /\ target[c] # <<>> => server[c] \in {"handed", "http", "closed"}
    /\ trusted[c] => program[c].proto = "http"
    /\ target[c] \in Seq(MeantAndDialable(c))
Says(c) ==
    /\ toServer[c].m = "greeting" => program[c].proto = "socks5"
    /\ toServer[c].m = "auth" => program[c].proto = "socks5" /\ toServer[c].cred = program[c].cred
    /\ toServer[c].m = "request" => program[c].proto = "socks5" /\ toServer[c].addr = program[c].addr
    /\ toServer[c].m = "socks4" => program[c].proto = "socks4" /\ toServer[c].addr = program[c].addr
    /\ toServer[c].m = "other" => program[c].proto = "other"
    /\ toServer[c].m = "http" =>
        program[c].proto = "http" /\ \E i \in DOMAIN program[c].reqs : toServer[c].req = program[c].reqs[i]

(* How far both are: one of the two has something to read, or it is over.  *)
Silence(c) == toServer[c] = I!NoMsg /\ toClient[c] = I!NoMsg
Unread(c, m) == toServer[c].m = m /\ toClient[c] = I!NoMsg
Spoken(c, m) == toServer[c] = I!NoMsg /\ toClient[c].m = m
Meets(c) ==
    /\ client[c] = "start" => Silence(c) /\ server[c] = "peek" /\ program[c].proto # "absent"
    /\ client[c] = "method" =>
        \/ Unread(c, "greeting") /\ server[c] \in {"peek", "socks5", "http"}
        \/ Spoken(c, "method") /\ server[c] = IF toClient[c].auth THEN "auth" ELSE "request"
    /\ client[c] = "status" =>
        \/ Unread(c, "auth") /\ server[c] = "auth"
        \/ Spoken(c, "status") /\ server[c] = IF toClient[c].ok THEN "request" ELSE "closed"
    /\ client[c] = "reply" /\ program[c].proto = "socks5" =>
        \/ Unread(c, "request") /\ server[c] = "request"
        \/ Spoken(c, "reply") /\ toClient[c].ok /\ server[c] \in {"hand", "handed", "udp"}
        \/ Silence(c) /\ server[c] = "closed"
    /\ client[c] = "reply" /\ program[c].proto = "socks4" =>
        \/ Unread(c, "socks4") /\ server[c] \in {"peek", "socks4", "http"}
        \/ Spoken(c, "reply") /\ IF toClient[c].ok THEN server[c] \in {"hand", "handed"} ELSE server[c] = "closed"
        \/ Silence(c) /\ server[c] = "closed"
    /\ client[c] = "response" /\ program[c].proto = "http" =>
        \/ Unread(c, "http") /\ server[c] \in {"peek", "http", "closed"}
        \/ /\ Spoken(c, "response")
           /\ server[c] = IF toClient[c].hijacked THEN "handed" ELSE IF toClient[c].keep THEN "http" ELSE "closed"
    /\ client[c] = "response" /\ program[c].proto = "other" =>
        \/ Unread(c, "other") /\ server[c] \in {"peek", "http", "closed"}
        \/ Silence(c) /\ server[c] = "closed"
    /\ client[c] = "ok" => Silence(c) /\ server[c] \in {"hand", "handed", "udp"}
    /\ client[c] \in {"method", "status"} => program[c].proto = "socks5"
    /\ client[c] = "reply" => program[c].proto \in {"socks4", "socks5"}
    /\ client[c] = "response" => program[c].proto \in {"http", "other"}

GotIn(c) == target[c] # <<>> \/ server[c] \in {"request", "udp", "hand", "handed"}
Vouched(c) ==
    /\ looked[c] <= now
    /\ server[c] \in {"socks5", "auth", "socks4"} =>
        \A cred \in I!Creds : cred \in known[c] => lastValid[cred] >= looked[c]
    /\ program[c].proto # "http" /\ GotIn(c) => used[c] >= looked[c]
    /\ program[c].proto = "http" => (GotIn(c) => trusted[c]) /\ (trusted[c] => used[c] >= looked[c] - TTL)

ConnOK(c) == Hears(c) /\ Says(c) /\ Meets(c) /\ Vouched(c)
InInv == InTypes /\ Clock /\ \A c \in InConns : ConnOK(c)

(* Nothing about one connection changes; time may pass.                    *)
SameAt(d) ==
    /\ toServer'[d] = toServer[d] /\ toClient'[d] = toClient[d] /\ client'[d] = client[d]
    /\ server'[d] = server[d] /\ known'[d] = known[d] /\ command5'[d] = command5[d]
    /\ target'[d] = target[d] /\ trusted'[d] = trusted[d] /\ turn'[d] = turn[d]
    /\ looked'[d] = looked[d] /\ used'[d] = used[d]
Older ==
    /\ program' = program /\ now <= now' /\ now' \in Nat
    /\ \A cred \in I!Creds : lastValid[cred] <= lastValid'[cred] /\ lastValid'[cred] \in Int

LEMMA Aside ==
    ASSUME InTypes, NEW d \in InConns, ConnOK(d), SameAt(d), Older PROVE ConnOK(d)'
<1>1. I!Meant(d)' = I!Meant(d)
  BY DEF I!Meant, I!P, Older
<1>2. Hears(d)' /\ Says(d)'
  BY <1>1 DEF ConnOK, Hears, Says, SameAt, Older, MeantAndDialable
<1>3. Meets(d)'
  BY DEF ConnOK, Meets, SameAt, Older, Silence, Unread, Spoken
<1>4. Vouched(d)'
  <2>1. looked[d] <= now'
    BY DEF InTypes, ConnOK, Vouched, Older
  <2>2. server[d] \in {"socks5", "auth", "socks4"} =>
            \A cred \in I!Creds : cred \in known[d] => lastValid'[cred] >= looked[d]
    <3> SUFFICES ASSUME server[d] \in {"socks5", "auth", "socks4"}, NEW cred \in I!Creds, cred \in known[d]
                 PROVE  lastValid'[cred] >= looked[d]
      OBVIOUS
    <3>1. lastValid[cred] >= looked[d]
      BY DEF ConnOK, Vouched
    <3>2. lastValid[cred] <= lastValid'[cred] /\ lastValid[cred] \in Int /\ lastValid'[cred] \in Int /\ looked[d] \in Nat
      BY DEF InTypes, Older
    <3>3. QED
      BY <3>1, <3>2
  <2>3. GotIn(d)' <=> GotIn(d)
    BY DEF GotIn, SameAt
  <2>4. QED
    BY <2>1, <2>2, <2>3 DEF ConnOK, Vouched, SameAt, Older
<1>5. QED
  BY <1>2, <1>3, <1>4 DEF ConnOK

(* What a step of one connection may do.                                   *)
Moved(c) ==
    /\ InTypes' /\ Clock' /\ ConnOK(c)' /\ Older
    /\ \A d \in InConns \ {c} : SameAt(d)

(* A step of the client leaves the server's side alone.                    *)
LEMMA ClientLeaves ==
    ASSUME InTypes, Clock, NEW c \in InConns, ConnOK(c), UNCHANGED I!ServerStays,
           client' \in [InConns -> ClientSteps], turn' \in [InConns -> Nat \ {0}],
           DOMAIN toServer' = InConns, DOMAIN toClient' = InConns,
           \A d \in InConns \ {c} : /\ client'[d] = client[d] /\ turn'[d] = turn[d]
                                    /\ toServer'[d] = toServer[d] /\ toClient'[d] = toClient[d],
           Says(c)', Meets(c)'
    PROVE  Moved(c)
<1>1. /\ server' = server /\ known' = known /\ command5' = command5 /\ target' = target
      /\ trusted' = trusted /\ cache' = cache /\ looked' = looked /\ used' = used
      /\ program' = program /\ authset' = authset /\ now' = now /\ lastValid' = lastValid
  BY DEF I!ServerStays, I!World
<1>2. InTypes'
  BY <1>1 DEF InTypes
<1>3. Clock'
  BY <1>1 DEF Clock, I!InForce
<1>4. I!Meant(c)' = I!Meant(c)
  BY <1>1 DEF I!Meant, I!P
<1>5. Hears(c)'
  BY <1>1, <1>4 DEF ConnOK, Hears, MeantAndDialable
<1>6. Vouched(c)'
  BY <1>1 DEF ConnOK, Vouched, GotIn
<1>7. Older
  BY <1>1 DEF Older, InTypes
<1>8. QED
  BY <1>1, <1>2, <1>3, <1>5, <1>6, <1>7 DEF Moved, ConnOK, SameAt

LEMMA ProgramFacts ==
    ASSUME I!InboundAssumption, InTypes, NEW c \in InConns
    PROVE  /\ program[c].proto \in {"absent", "silent", "other", "socks4", "socks5", "http"}
           /\ program[c].proto = "socks4" =>
                program[c].cred = <<program[c].cred[1], "">> /\ program[c].addr.type \in I!Dialable
           /\ program[c].proto = "socks5" => program[c].addr.type \in I!Dialable \cup {"bad"}
           /\ program[c].proto = "http" =>
                /\ DOMAIN program[c].reqs = 1..Len(program[c].reqs) /\ Len(program[c].reqs) \in Nat \ {0}
                /\ \A i \in DOMAIN program[c].reqs :
                    /\ program[c].reqs[i].method \in {"connect", "get"}
                    /\ program[c].reqs[i].addr.type \in I!Dialable \cup {"none", "bad"}
                    /\ program[c].reqs[i].method = "connect" => program[c].reqs[i].addr.type \in I!Dialable
  BY DEF I!InboundAssumption, InTypes

LEMMA ClientBeginsOK ==
    ASSUME I!InboundAssumption, InTypes, Clock, NEW c \in InConns, ConnOK(c), I!ClientBegins(c) PROVE Moved(c)
<1> DEFINE p == program[c].proto
<1>1. /\ client[c] = "start" /\ toClient' = toClient /\ turn' = turn /\ UNCHANGED I!ServerStays
      /\ program' = program /\ server' = server
  BY DEF I!ClientBegins, I!ServerStays, I!World
<1>2. Silence(c) /\ server[c] = "peek" /\ p # "absent"
  BY <1>1 DEF ConnOK, Meets
<1>3. CASE p = "socks5"
  <2>1. toServer' = [toServer EXCEPT ![c] = [m |-> "greeting"]] /\ client' = [client EXCEPT ![c] = "method"]
    BY <1>3 DEF I!ClientBegins, I!Send, I!Client, I!P
  <2>2. toServer'[c].m = "greeting" /\ client'[c] = "method"
    BY <2>1 DEF InTypes
  <2>3. Says(c)' /\ Meets(c)'
    BY <1>1, <1>2, <1>3, <2>2 DEF Says, Meets, Silence, Unread
  <2>4. QED
    BY <1>1, <2>1, <2>3, ClientLeaves DEF InTypes, ClientSteps
<1>4. CASE p = "socks4" /\ program[c].addr.type # "v6"
  <2>1. /\ toServer' = [toServer EXCEPT ![c] = [I!Request(c) EXCEPT !.m = "socks4"]]
        /\ client' = [client EXCEPT ![c] = "reply"]
    BY <1>4 DEF I!ClientBegins, I!Send, I!Client, I!P
  <2>2. toServer'[c].m = "socks4" /\ toServer'[c].addr = program[c].addr /\ client'[c] = "reply"
    BY <2>1 DEF InTypes, I!Request, I!P
  <2>3. Says(c)' /\ Meets(c)'
    BY <1>1, <1>2, <1>4, <2>2 DEF Says, Meets, Silence, Unread
  <2>4. QED
    BY <1>1, <2>1, <2>3, ClientLeaves DEF InTypes, ClientSteps
<1>5. CASE p = "http"
  <2>1. /\ toServer' = [toServer EXCEPT ![c] = [m |-> "http", req |-> program[c].reqs[1]]]
        /\ client' = [client EXCEPT ![c] = "response"]
    BY <1>5 DEF I!ClientBegins, I!Send, I!Client, I!P
  <2>2. toServer'[c].m = "http" /\ toServer'[c].req = program[c].reqs[1] /\ client'[c] = "response"
    BY <2>1 DEF InTypes
  <2>3. 1 \in DOMAIN program[c].reqs
    <3>1. DOMAIN program[c].reqs = 1..Len(program[c].reqs) /\ Len(program[c].reqs) \in Nat \ {0}
      BY <1>5, ProgramFacts
    <3>2. QED
      BY <3>1
  <2>4. Says(c)' /\ Meets(c)'
    BY <1>1, <1>2, <1>5, <2>2, <2>3 DEF Says, Meets, Silence, Unread
  <2>5. QED
    BY <1>1, <2>1, <2>4, ClientLeaves DEF InTypes, ClientSteps
<1>6. CASE p = "other"
  <2>1. toServer' = [toServer EXCEPT ![c] = [m |-> "other"]] /\ client' = [client EXCEPT ![c] = "response"]
    BY <1>6 DEF I!ClientBegins, I!Send, I!Client, I!P
  <2>2. toServer'[c].m = "other" /\ client'[c] = "response"
    BY <2>1 DEF InTypes
  <2>3. Says(c)' /\ Meets(c)'
    BY <1>1, <1>2, <1>6, <2>2 DEF Says, Meets, Silence, Unread
  <2>4. QED
    BY <1>1, <2>1, <2>3, ClientLeaves DEF InTypes, ClientSteps
<1>7. CASE p = "silent" \/ (p = "socks4" /\ program[c].addr.type = "v6")
  <2>1. toServer' = toServer /\ client' = [client EXCEPT ![c] = "gone"]
    BY <1>7 DEF I!ClientBegins, I!Client, I!P
  <2>2. toServer'[c].m = "none" /\ client'[c] = "gone"
    BY <1>2, <2>1 DEF InTypes, Silence, I!NoMsg
  <2>3. Says(c)' /\ Meets(c)'
    BY <2>2 DEF Says, Meets
  <2>4. QED
    BY <1>1, <2>1, <2>3, ClientLeaves DEF InTypes, ClientSteps
<1>8. p \in {"absent", "silent", "other", "socks4", "socks5", "http"}
  BY ProgramFacts
<1>9. QED
  BY <1>2, <1>3, <1>4, <1>5, <1>6, <1>7, <1>8

LEMMA ClientMethodOK ==
    ASSUME I!InboundAssumption, InTypes, Clock, NEW c \in InConns, ConnOK(c), I!ClientMethod(c) PROVE Moved(c)
<1>1. /\ client[c] = "method" /\ toClient[c].m = "method" /\ turn' = turn /\ UNCHANGED I!ServerStays
      /\ toClient' = [toClient EXCEPT ![c] = I!NoMsg] /\ program' = program /\ server' = server
  BY DEF I!ClientMethod, I!ServerStays, I!World, I!Got
<1>2. /\ toServer[c] = I!NoMsg /\ server[c] = (IF toClient[c].auth THEN "auth" ELSE "request")
      /\ program[c].proto = "socks5" /\ toClient'[c] = I!NoMsg
  BY <1>1 DEF ConnOK, Meets, InTypes, Unread, Spoken, I!NoMsg
<1>3. CASE toClient[c].auth /\ program[c].cred = I!NoCred
  <2>1. toServer' = toServer /\ client' = [client EXCEPT ![c] = "gone"]
    BY <1>3 DEF I!ClientMethod, I!Client, I!P
  <2>2. toServer'[c].m = "none" /\ client'[c] = "gone"
    BY <1>2, <2>1 DEF InTypes, I!NoMsg
  <2>3. Says(c)' /\ Meets(c)'
    BY <2>2 DEF Says, Meets
  <2>4. QED
    BY <1>1, <2>1, <2>3, ClientLeaves DEF InTypes, ClientSteps
<1>4. CASE toClient[c].auth /\ program[c].cred # I!NoCred
  <2>1. /\ toServer' = [toServer EXCEPT ![c] = [m |-> "auth", cred |-> program[c].cred]]
        /\ client' = [client EXCEPT ![c] = "status"]
    BY <1>4 DEF I!ClientMethod, I!Client, I!Send, I!P
  <2>2. toServer'[c].m = "auth" /\ toServer'[c].cred = program[c].cred /\ client'[c] = "status"
    BY <2>1 DEF InTypes
  <2>3. Says(c)' /\ Meets(c)'
    BY <1>1, <1>2, <1>4, <2>2 DEF Says, Meets, Unread
  <2>4. QED
    BY <1>1, <2>1, <2>3, ClientLeaves DEF InTypes, ClientSteps
<1>5. CASE ~toClient[c].auth
  <2>1. /\ toServer' = [toServer EXCEPT ![c] = I!Request(c)] /\ client' = [client EXCEPT ![c] = "reply"]
    BY <1>5 DEF I!ClientMethod, I!Client, I!Send
  <2>2. toServer'[c].m = "request" /\ toServer'[c].addr = program[c].addr /\ client'[c] = "reply"
    BY <2>1 DEF InTypes, I!Request, I!P
  <2>3. Says(c)' /\ Meets(c)'
    BY <1>1, <1>2, <1>5, <2>2 DEF Says, Meets, Unread
  <2>4. QED
    BY <1>1, <2>1, <2>3, ClientLeaves DEF InTypes, ClientSteps
<1>6. QED
  BY <1>3, <1>4, <1>5

LEMMA ClientStatusOK ==
    ASSUME I!InboundAssumption, InTypes, Clock, NEW c \in InConns, ConnOK(c), I!ClientStatus(c) PROVE Moved(c)
<1>1. /\ client[c] = "status" /\ toClient[c].m = "status" /\ turn' = turn /\ UNCHANGED I!ServerStays
      /\ toClient' = [toClient EXCEPT ![c] = I!NoMsg] /\ program' = program /\ server' = server
  BY DEF I!ClientStatus, I!ServerStays, I!World, I!Got
<1>2. /\ toServer[c] = I!NoMsg /\ server[c] = (IF toClient[c].ok THEN "request" ELSE "closed")
      /\ program[c].proto = "socks5" /\ toClient'[c] = I!NoMsg
  BY <1>1 DEF ConnOK, Meets, InTypes, Unread, Spoken, I!NoMsg
<1>3. CASE ~toClient[c].ok
  <2>1. toServer' = toServer /\ client' = [client EXCEPT ![c] = "gone"]
    BY <1>3 DEF I!ClientStatus, I!Client
  <2>2. toServer'[c].m = "none" /\ client'[c] = "gone"
    BY <1>2, <2>1 DEF InTypes, I!NoMsg
  <2>3. Says(c)' /\ Meets(c)'
    BY <2>2 DEF Says, Meets
  <2>4. QED
    BY <1>1, <2>1, <2>3, ClientLeaves DEF InTypes, ClientSteps
<1>4. CASE toClient[c].ok
  <2>1. /\ toServer' = [toServer EXCEPT ![c] = I!Request(c)] /\ client' = [client EXCEPT ![c] = "reply"]
    BY <1>4 DEF I!ClientStatus, I!Client, I!Send
  <2>2. toServer'[c].m = "request" /\ toServer'[c].addr = program[c].addr /\ client'[c] = "reply"
    BY <2>1 DEF InTypes, I!Request, I!P
  <2>3. Says(c)' /\ Meets(c)'
    BY <1>1, <1>2, <1>4, <2>2 DEF Says, Meets, Unread
  <2>4. QED
    BY <1>1, <2>1, <2>3, ClientLeaves DEF InTypes, ClientSteps
<1>5. QED
  BY <1>3, <1>4

LEMMA ClientReplyOK ==
    ASSUME I!InboundAssumption, InTypes, Clock, NEW c \in InConns, ConnOK(c), I!ClientReply(c) PROVE Moved(c)
<1>1. /\ client[c] = "reply" /\ toClient[c].m = "reply" /\ turn' = turn /\ UNCHANGED I!ServerStays
      /\ toClient' = [toClient EXCEPT ![c] = I!NoMsg] /\ program' = program /\ server' = server
      /\ toServer' = toServer /\ client' = [client EXCEPT ![c] = IF toClient[c].ok THEN "ok" ELSE "gone"]
  BY DEF I!ClientReply, I!ServerStays, I!World, I!Got, I!Client
<1>2. program[c].proto \in {"socks4", "socks5"} /\ toClient[c] # I!NoMsg
  BY <1>1 DEF ConnOK, Meets, I!NoMsg
<1>3. toServer[c] = I!NoMsg /\ (toClient[c].ok => server[c] \in {"hand", "handed", "udp"})
  BY <1>1, <1>2 DEF ConnOK, Meets, Unread, Spoken, Silence
<1>4. toClient'[c] = I!NoMsg /\ toServer'[c] = I!NoMsg /\ client'[c] = IF toClient[c].ok THEN "ok" ELSE "gone"
  BY <1>1, <1>3 DEF InTypes
<1>5. Says(c)'
  BY <1>4 DEF Says, I!NoMsg
<1>6. Meets(c)'
  BY <1>1, <1>3, <1>4 DEF Meets, Silence
<1>7. QED
  BY <1>1, <1>5, <1>6, ClientLeaves DEF InTypes, ClientSteps

LEMMA ClientResponseOK ==
    ASSUME I!InboundAssumption, InTypes, Clock, NEW c \in InConns, ConnOK(c), I!ClientResponse(c) PROVE Moved(c)
<1>1. /\ client[c] = "response" /\ toClient[c].m = "response" /\ UNCHANGED I!ServerStays
      /\ toClient' = [toClient EXCEPT ![c] = I!NoMsg] /\ program' = program /\ server' = server
  BY DEF I!ClientResponse, I!ServerStays, I!World, I!Got
<1>2. program[c].proto \in {"http", "other"} /\ toClient[c] # I!NoMsg /\ toClient'[c] = I!NoMsg
  BY <1>1 DEF ConnOK, Meets, I!NoMsg, InTypes
<1>3. /\ program[c].proto = "http" /\ toServer[c] = I!NoMsg
      /\ server[c] = IF toClient[c].hijacked THEN "handed" ELSE IF toClient[c].keep THEN "http" ELSE "closed"
  BY <1>1, <1>2 DEF ConnOK, Meets, Unread, Spoken, Silence
<1>4. CASE toClient[c].hijacked
  <2>1. toServer' = toServer /\ turn' = turn /\ client' = [client EXCEPT ![c] = "ok"]
    BY <1>4 DEF I!ClientResponse, I!Client
  <2>2. toServer'[c] = I!NoMsg /\ client'[c] = "ok"
    BY <1>3, <2>1 DEF InTypes
  <2>3. Says(c)'
    BY <2>2 DEF Says, I!NoMsg
  <2>4. Meets(c)'
    BY <1>1, <1>2, <1>3, <1>4, <2>2 DEF Meets, Silence
  <2>5. QED
    BY <1>1, <2>1, <2>3, <2>4, ClientLeaves DEF InTypes, ClientSteps
<1>5. CASE ~toClient[c].hijacked /\ turn[c] < Len(program[c].reqs) /\ toClient[c].keep
  <2>1. /\ turn' = [turn EXCEPT ![c] = @ + 1] /\ client' = [client EXCEPT ![c] = "response"]
        /\ toServer' = [toServer EXCEPT ![c] = [m |-> "http", req |-> program[c].reqs[turn[c] + 1]]]
    BY <1>5 DEF I!ClientResponse, I!Client, I!Send, I!P
  <2>2. toServer'[c].m = "http" /\ toServer'[c].req = program[c].reqs[turn[c] + 1] /\ client'[c] = "response"
    BY <2>1 DEF InTypes
  <2>3. turn[c] + 1 \in DOMAIN program[c].reqs
    <3>1. DOMAIN program[c].reqs = 1..Len(program[c].reqs) /\ Len(program[c].reqs) \in Nat \ {0}
      BY <1>3, ProgramFacts
    <3>2. turn[c] \in Nat \ {0}
      BY DEF InTypes
    <3>3. QED
      BY <1>5, <3>1, <3>2
  <2>4. Says(c)'
    BY <1>1, <1>3, <2>2, <2>3 DEF Says
  <2>5. Meets(c)'
    BY <1>1, <1>2, <1>3, <1>5, <2>2 DEF Meets, Unread
  <2>6. turn' \in [InConns -> Nat \ {0}]
    BY <2>1 DEF InTypes
  <2>7. QED
    BY <1>1, <2>1, <2>4, <2>5, <2>6, ClientLeaves DEF InTypes, ClientSteps
<1>6. CASE ~toClient[c].hijacked /\ ~(turn[c] < Len(program[c].reqs) /\ toClient[c].keep)
  <2>1. toServer' = toServer /\ turn' = turn /\ client' = [client EXCEPT ![c] = "gone"]
    BY <1>6 DEF I!ClientResponse, I!Client, I!P
  <2>2. toServer'[c] = I!NoMsg /\ client'[c] = "gone"
    BY <1>3, <2>1 DEF InTypes
  <2>3. Says(c)' /\ Meets(c)'
    BY <2>2 DEF Says, Meets, I!NoMsg
  <2>4. QED
    BY <1>1, <2>1, <2>3, ClientLeaves DEF InTypes, ClientSteps
<1>7. QED
  BY <1>4, <1>5, <1>6

LEMMA ClientEndsOK ==
    ASSUME I!InboundAssumption, InTypes, Clock, NEW c \in InConns, ConnOK(c), I!ClientEnds(c) PROVE Moved(c)
<1>1. /\ toServer' = toServer /\ toClient' = toClient /\ turn' = turn /\ UNCHANGED I!ServerStays
      /\ program' = program /\ client' = [client EXCEPT ![c] = "gone"]
  BY DEF I!ClientEnds, I!ServerStays, I!World, I!Client
<1>2. client'[c] = "gone"
  BY <1>1 DEF InTypes
<1>3. Meets(c)'
  BY <1>2 DEF Meets
<1>4. Says(c)'
  BY <1>1 DEF Says, ConnOK
<1>5. QED
  BY <1>1, <1>3, <1>4, ClientLeaves DEF InTypes, ClientSteps

(* Nothing of the server's side changes for the other connections.         *)
Elsewhere(c) ==
    \A d \in InConns \ {c} :
        /\ toServer'[d] = toServer[d] /\ toClient'[d] = toClient[d] /\ server'[d] = server[d]
        /\ known'[d] = known[d] /\ command5'[d] = command5[d] /\ target'[d] = target[d]
        /\ trusted'[d] = trusted[d] /\ looked'[d] = looked[d] /\ used'[d] = used[d]
ServerTypes ==
    /\ DOMAIN toServer' = InConns /\ DOMAIN toClient' = InConns
    /\ server' \in [InConns -> ServerSteps]
    /\ DOMAIN known' = InConns /\ DOMAIN command5' = InConns /\ DOMAIN target' = InConns
    /\ trusted' \in [InConns -> BOOLEAN] /\ looked' \in [InConns -> Nat] /\ used' \in [InConns -> Int]
GoodVerdicts ==
    /\ cache' \in [I!Creds -> [ok : BOOLEAN, expires : Int]]
    /\ \A cred \in I!Creds : cache'[cred].ok => cache'[cred].expires <= lastValid[cred] + TTL

LEMMA WorldFacts ==
    ASSUME InTypes, UNCHANGED I!ClientStays
    PROVE  /\ client' = client /\ turn' = turn /\ program' = program /\ authset' = authset
           /\ now' = now /\ lastValid' = lastValid /\ Older
           /\ \A c \in InConns : I!Meant(c)' = I!Meant(c) /\ MeantAndDialable(c)' = MeantAndDialable(c)
<1>1. /\ client' = client /\ turn' = turn /\ program' = program /\ authset' = authset
      /\ now' = now /\ lastValid' = lastValid
  BY DEF I!ClientStays, I!World
<1>2. Older
  BY <1>1 DEF Older, InTypes
<1>3. \A c \in InConns : I!Meant(c)' = I!Meant(c)
  BY <1>1 DEF I!Meant, I!P
<1>4. QED
  BY <1>1, <1>2, <1>3 DEF MeantAndDialable

LEMMA ServerLeaves ==
    ASSUME InTypes, Clock, NEW c \in InConns, ConnOK(c), UNCHANGED I!ClientStays,
           cache' = cache \/ GoodVerdicts, ServerTypes, Elsewhere(c),
           toServer'[c] = toServer[c] \/ toServer'[c] = I!NoMsg,
           Hears(c)', Meets(c)', Vouched(c)'
    PROVE  Moved(c)
<1>1. /\ client' = client /\ turn' = turn /\ program' = program /\ authset' = authset
      /\ now' = now /\ lastValid' = lastValid /\ Older
  BY WorldFacts
<1>2. InTypes'
  BY <1>1 DEF InTypes, ServerTypes, GoodVerdicts
<1>3. Clock'
  BY <1>1 DEF Clock, I!InForce, GoodVerdicts
<1>4. Says(c)'
  <2>1. CASE toServer'[c] = toServer[c]
    BY <1>1, <2>1 DEF ConnOK, Says
  <2>2. CASE toServer'[c] = I!NoMsg
    BY <2>2 DEF Says, I!NoMsg
  <2>3. QED
    BY <2>1, <2>2
<1>5. QED
  BY <1>1, <1>2, <1>3, <1>4 DEF Moved, ConnOK, SameAt, Elsewhere

LEMMA ReplyFacts ==
    ASSUME InTypes, NEW c \in InConns, NEW msg, I!Reply(c, msg)
    PROVE  /\ DOMAIN toClient' = InConns /\ \A d \in InConns \ {c} : toClient'[d] = toClient[d]
           /\ toClient'[c] = IF client[c] = "gone" THEN toClient[c] ELSE msg
  BY DEF I!Reply, InTypes

LEMMA ReadFacts ==
    ASSUME InTypes, NEW c \in InConns, NEW m, I!Read(c, m)
    PROVE  /\ DOMAIN toServer' = InConns /\ \A d \in InConns \ {c} : toServer'[d] = toServer[d]
           /\ toServer'[c] = I!NoMsg /\ toServer[c].m = m
  BY DEF I!Read, InTypes

LEMMA PeekOK ==
    ASSUME I!InboundAssumption, InTypes, Clock, NEW c \in InConns, ConnOK(c), I!Peek(c) PROVE Moved(c)
<1>1. /\ server[c] = "peek" /\ toServer' = toServer /\ toClient' = toClient /\ command5' = command5
      /\ target' = target /\ trusted' = trusted /\ cache' = cache /\ used' = used
      /\ UNCHANGED I!ClientStays
  BY DEF I!Peek
<1>2. /\ client' = client /\ program' = program /\ now' = now /\ lastValid' = lastValid
      /\ MeantAndDialable(c)' = MeantAndDialable(c) /\ now \in Nat
  BY <1>1, WorldFacts DEF InTypes
<1>3. ~trusted[c] /\ target[c] = <<>> /\ target[c] \in Seq(MeantAndDialable(c))
  BY <1>1 DEF ConnOK, Hears
<1>4. CASE toServer[c] # I!NoMsg
  <2> DEFINE x == I!Peeked(c)
  <2>1. /\ server' = [server EXCEPT ![c] = x] /\ known' = [known EXCEPT ![c] = I!InForce]
        /\ looked' = [looked EXCEPT ![c] = now]
    BY <1>4 DEF I!Peek, I!Server
  <2>2. /\ x \in {"http", "socks5", "socks4", "closed"}
        /\ x = "socks5" => toServer[c].m = "greeting"
        /\ x = "socks4" => toServer[c].m = "socks4"
        /\ x = "closed" => toServer[c].m \notin {"greeting", "socks4"}
    BY DEF I!Peeked
  <2> HIDE DEF x
  <2>3. server'[c] = x /\ known'[c] = I!InForce /\ looked'[c] = now
    BY <2>1 DEF InTypes
  <2>4. server' \in [InConns -> ServerSteps]
    BY <2>1, <2>2 DEF InTypes, ServerSteps
  <2>5. ServerTypes /\ Elsewhere(c)
    BY <1>1, <1>2, <2>1, <2>4 DEF ServerTypes, Elsewhere, InTypes
  <2>6. Hears(c)'
    BY <1>1, <1>2, <1>3, <2>2, <2>3 DEF ConnOK, Hears, Says
  <2>7. Meets(c)'
    BY <1>1, <1>2, <1>4, <2>2, <2>3 DEF ConnOK, Meets, Silence, Unread, Spoken, I!NoMsg
  <2>8. Vouched(c)'
    <3>1. ~GotIn(c)'
      BY <1>1, <1>3, <2>2, <2>3 DEF GotIn
    <3>2. \A cred \in I!Creds : cred \in I!InForce => lastValid[cred] >= now
      BY <1>2 DEF Clock, InTypes
    <3>3. QED
      BY <1>1, <1>2, <1>3, <2>3, <3>1, <3>2 DEF Vouched
  <2>9. QED
    BY <1>1, <2>5, <2>6, <2>7, <2>8, ServerLeaves
<1>5. CASE toServer[c] = I!NoMsg
  <2> DEFINE x == CASE program[c].listener = "mixed" -> "left"
                    [] program[c].listener = "socks" -> "closed"
                    [] OTHER -> "http"
  <2>1. server' = [server EXCEPT ![c] = x] /\ known' = known /\ looked' = looked /\ client[c] = "gone"
    BY <1>5 DEF I!Peek, I!Server, I!Gone, I!P
  <2>2. x \in {"left", "closed", "http"}
    OBVIOUS
  <2> HIDE DEF x
  <2>3. server'[c] = x
    BY <2>1 DEF InTypes
  <2>4. server' \in [InConns -> ServerSteps]
    BY <2>1, <2>2 DEF InTypes, ServerSteps
  <2>5. ServerTypes /\ Elsewhere(c)
    BY <1>1, <1>2, <2>1, <2>4 DEF ServerTypes, Elsewhere, InTypes
  <2>6. Hears(c)'
    BY <1>1, <1>2, <1>3, <2>2, <2>3 DEF Hears
  <2>7. Meets(c)'
    BY <1>2, <2>1 DEF Meets
  <2>8. Vouched(c)'
    <3>1. ~GotIn(c)'
      BY <1>1, <1>3, <2>2, <2>3 DEF GotIn
    <3>2. QED
      BY <1>1, <1>2, <1>3, <2>1, <2>2, <2>3, <3>1 DEF ConnOK, Vouched
  <2>9. QED
    BY <1>1, <2>5, <2>6, <2>7, <2>8, ServerLeaves
<1>6. QED
  BY <1>4, <1>5

LEMMA GreetOK ==
    ASSUME I!InboundAssumption, InTypes, Clock, NEW c \in InConns, ConnOK(c), I!Greet(c) PROVE Moved(c)
<1>1. /\ server[c] = "socks5" /\ I!Read(c, "greeting") /\ I!Reply(c, [m |-> "method", auth |-> I!Asks(c)])
      /\ server' = [server EXCEPT ![c] = IF I!Asks(c) THEN "auth" ELSE "request"]
      /\ used' = [used EXCEPT ![c] = now] /\ known' = known /\ command5' = command5
      /\ target' = target /\ trusted' = trusted /\ cache' = cache /\ looked' = looked
      /\ UNCHANGED I!ClientStays
  BY DEF I!Greet, I!Server, I!Asks
<1>2. /\ client' = client /\ program' = program /\ now' = now /\ lastValid' = lastValid
      /\ MeantAndDialable(c)' = MeantAndDialable(c) /\ now \in Nat
  BY <1>1, WorldFacts DEF InTypes
<1>3. /\ DOMAIN toServer' = InConns /\ \A d \in InConns \ {c} : toServer'[d] = toServer[d]
      /\ toServer'[c] = I!NoMsg /\ toServer[c].m = "greeting"
  BY <1>1, ReadFacts
<1>4. /\ DOMAIN toClient' = InConns /\ \A d \in InConns \ {c} : toClient'[d] = toClient[d]
      /\ toClient'[c] = IF client[c] = "gone" THEN toClient[c] ELSE [m |-> "method", auth |-> I!Asks(c)]
  BY <1>1, ReplyFacts
<1>5. server'[c] = (IF I!Asks(c) THEN "auth" ELSE "request") /\ used'[c] = now
  BY <1>1 DEF InTypes
<1>6. server' \in [InConns -> ServerSteps]
  BY <1>1 DEF InTypes, ServerSteps
<1>7. ServerTypes /\ Elsewhere(c)
  BY <1>1, <1>2, <1>3, <1>4, <1>6 DEF ServerTypes, Elsewhere, InTypes
<1>8. program[c].proto = "socks5"
  BY <1>1 DEF ConnOK, Hears
<1>9. Hears(c)'
  BY <1>1, <1>2, <1>5, <1>8 DEF ConnOK, Hears
<1>10. Meets(c)'
  BY <1>1, <1>2, <1>3, <1>4, <1>5, <1>8 DEF ConnOK, Meets, Silence, Unread, Spoken, I!NoMsg
<1>11. Vouched(c)'
  BY <1>1, <1>2, <1>5, <1>8 DEF ConnOK, Vouched, GotIn
<1>12. QED
  BY <1>1, <1>3, <1>7, <1>9, <1>10, <1>11, ServerLeaves

LEMMA CredFacts ==
    ASSUME InTypes, NEW c \in InConns
    PROVE  program[c] \in I!Programs /\ program[c].cred \in I!Creds
<1>1. program[c] \in I!Programs
  BY DEF I!Programs, InTypes
<1>2. QED
  BY <1>1 DEF I!Creds

LEMMA AuthOK ==
    ASSUME I!InboundAssumption, InTypes, Clock, NEW c \in InConns, ConnOK(c), I!Auth(c) PROVE Moved(c)
<1> DEFINE cred == toServer[c].cred
           ok == cred[1] # "" /\ cred[2] # "" /\ cred \in known[c]
<1>1. /\ server[c] = "auth" /\ I!Read(c, "auth") /\ I!Reply(c, [m |-> "status", ok |-> ok])
      /\ server' = [server EXCEPT ![c] = IF ok THEN "request" ELSE "closed"]
      /\ used' = [used EXCEPT ![c] = lastValid[cred]] /\ known' = known /\ command5' = command5
      /\ target' = target /\ trusted' = trusted /\ cache' = cache /\ looked' = looked
      /\ UNCHANGED I!ClientStays
  BY DEF I!Auth, I!Server, I!Verify
<1>2. /\ client' = client /\ program' = program /\ now' = now /\ lastValid' = lastValid
      /\ MeantAndDialable(c)' = MeantAndDialable(c) /\ now \in Nat
  BY <1>1, WorldFacts DEF InTypes
<1>3. /\ DOMAIN toServer' = InConns /\ \A d \in InConns \ {c} : toServer'[d] = toServer[d]
      /\ toServer'[c] = I!NoMsg /\ toServer[c].m = "auth"
  BY <1>1, ReadFacts
<1>4. cred \in I!Creds /\ (ok => cred \in known[c]) /\ ok \in BOOLEAN
  BY <1>3, CredFacts DEF ConnOK, Says
<1>5. lastValid[cred] \in Int /\ (ok => lastValid[cred] >= looked[c])
  BY <1>1, <1>4 DEF InTypes, ConnOK, Vouched
<1> HIDE DEF ok, cred
<1>6. /\ DOMAIN toClient' = InConns /\ \A d \in InConns \ {c} : toClient'[d] = toClient[d]
      /\ toClient'[c] = IF client[c] = "gone" THEN toClient[c] ELSE [m |-> "status", ok |-> ok]
  BY <1>1, ReplyFacts
<1>7. server'[c] = (IF ok THEN "request" ELSE "closed") /\ used'[c] = lastValid[cred]
  BY <1>1 DEF InTypes
<1>8. server' \in [InConns -> ServerSteps] /\ used' \in [InConns -> Int]
  BY <1>1, <1>5 DEF InTypes, ServerSteps
<1>9. ServerTypes /\ Elsewhere(c)
  BY <1>1, <1>2, <1>3, <1>6, <1>8 DEF ServerTypes, Elsewhere, InTypes
<1>10. program[c].proto = "socks5" /\ target[c] = <<>>
  BY <1>1 DEF ConnOK, Hears
<1>11. Hears(c)'
  BY <1>1, <1>2, <1>7, <1>10 DEF ConnOK, Hears
<1>12. Meets(c)'
  BY <1>1, <1>2, <1>3, <1>6, <1>7, <1>10 DEF ConnOK, Meets, Silence, Unread, Spoken, I!NoMsg
<1>13. Vouched(c)'
  BY <1>1, <1>2, <1>5, <1>7, <1>10 DEF ConnOK, Vouched, GotIn
<1>14. QED
  BY <1>1, <1>3, <1>9, <1>11, <1>12, <1>13, ServerLeaves

LEMMA Socks5RequestOK ==
    ASSUME I!InboundAssumption, InTypes, Clock, NEW c \in InConns, ConnOK(c), I!Socks5Request(c) PROVE Moved(c)
<1> DEFINE cmd == toServer[c].cmd
           ok == I!Supported(cmd, toServer[c].addr)
           x == IF ok THEN CASE cmd = "udp" -> "udp" [] cmd = "connect" -> "hand" [] OTHER -> "closed"
                ELSE "closed"
<1>1. /\ server[c] = "request" /\ I!Read(c, "request")
      /\ command5' = [command5 EXCEPT ![c] = [cmd |-> cmd, addr |-> toServer[c].addr]]
      /\ server' = [server EXCEPT ![c] = x]
      /\ IF ok THEN I!Reply(c, [m |-> "reply", ok |-> TRUE]) ELSE toClient' = toClient
      /\ known' = known /\ target' = target /\ trusted' = trusted /\ cache' = cache
      /\ looked' = looked /\ used' = used /\ UNCHANGED I!ClientStays
  BY DEF I!Socks5Request, I!Server
<1>2. /\ client' = client /\ program' = program /\ now' = now /\ lastValid' = lastValid
      /\ MeantAndDialable(c)' = MeantAndDialable(c) /\ now \in Nat
  BY <1>1, WorldFacts DEF InTypes
<1>3. /\ DOMAIN toServer' = InConns /\ \A d \in InConns \ {c} : toServer'[d] = toServer[d]
      /\ toServer'[c] = I!NoMsg /\ toServer[c].m = "request"
  BY <1>1, ReadFacts
<1>4. program[c].proto = "socks5" /\ toServer[c].addr = program[c].addr /\ target[c] = <<>>
  BY <1>1, <1>3 DEF ConnOK, Hears, Says
<1>5. /\ x \in {"udp", "hand", "closed"} /\ ok \in BOOLEAN
      /\ ok => x \in {"udp", "hand"} /\ program[c].addr.type \in I!Dialable
      /\ ~ok => x = "closed"
  BY <1>4, ProgramFacts DEF I!Supported
<1> HIDE DEF ok, x
<1>6. /\ DOMAIN toClient' = InConns /\ \A d \in InConns \ {c} : toClient'[d] = toClient[d]
      /\ toClient'[c] = IF client[c] = "gone" \/ ~ok THEN toClient[c] ELSE [m |-> "reply", ok |-> TRUE]
  <2>1. CASE ok
    BY <1>1, <2>1, ReplyFacts
  <2>2. CASE ~ok
    BY <1>1, <2>2 DEF InTypes
  <2>3. QED
    BY <2>1, <2>2
<1>7. server'[c] = x /\ command5'[c].addr = program[c].addr
  BY <1>1, <1>4 DEF InTypes
<1>8. server' \in [InConns -> ServerSteps]
  BY <1>1, <1>5 DEF InTypes, ServerSteps
<1>9. ServerTypes /\ Elsewhere(c)
  BY <1>1, <1>2, <1>3, <1>6, <1>8 DEF ServerTypes, Elsewhere, InTypes
<1>10. Hears(c)'
  BY <1>1, <1>2, <1>4, <1>5, <1>7 DEF ConnOK, Hears
<1>11. Meets(c)'
  <2>1. client[c] \in {"reply", "gone"}
    BY <1>1, <1>3, <1>4 DEF ConnOK, Meets, InTypes, ClientSteps, Silence, Unread, Spoken, I!NoMsg
  <2>2. client[c] = "reply" => toClient[c] = I!NoMsg
    BY <1>1, <1>3, <1>4 DEF ConnOK, Meets, Silence, Unread, Spoken, I!NoMsg
  <2>3. QED
    BY <1>2, <1>3, <1>4, <1>5, <1>6, <1>7, <2>1, <2>2 DEF Meets, Silence, Unread, Spoken, I!NoMsg
<1>12. Vouched(c)'
  BY <1>1, <1>2, <1>4, <1>5, <1>7 DEF ConnOK, Vouched, GotIn
<1>13. QED
  BY <1>1, <1>3, <1>9, <1>10, <1>11, <1>12, ServerLeaves

LEMMA Socks4RequestOK ==
    ASSUME I!InboundAssumption, InTypes, Clock, NEW c \in InConns, ConnOK(c), I!Socks4Request(c) PROVE Moved(c)
<1> DEFINE cred == <<program[c].cred[1], "">>
           ok == I!LetsIn(known[c], cred)
           goes == toServer[c].cmd = "connect"
           x == IF goes /\ ok THEN "hand" ELSE "closed"
           u == IF goes THEN IF known[c] = {} THEN looked[c] ELSE lastValid[cred] ELSE used[c]
<1>1. /\ server[c] = "socks4" /\ I!Read(c, "socks4")
      /\ command5' = [command5 EXCEPT ![c] = [cmd |-> toServer[c].cmd, addr |-> toServer[c].addr]]
      /\ server' = [server EXCEPT ![c] = x]
      /\ IF goes THEN I!Reply(c, [m |-> "reply", ok |-> ok]) ELSE toClient' = toClient
      /\ used' = [used EXCEPT ![c] = u]
      /\ known' = known /\ target' = target /\ trusted' = trusted /\ cache' = cache
      /\ looked' = looked /\ UNCHANGED I!ClientStays
  BY DEF I!Socks4Request, I!Server, I!P, InTypes
<1>2. /\ client' = client /\ program' = program /\ now' = now /\ lastValid' = lastValid
      /\ MeantAndDialable(c)' = MeantAndDialable(c) /\ now \in Nat
  BY <1>1, WorldFacts DEF InTypes
<1>3. /\ DOMAIN toServer' = InConns /\ \A d \in InConns \ {c} : toServer'[d] = toServer[d]
      /\ toServer'[c] = I!NoMsg /\ toServer[c].m = "socks4"
  BY <1>1, ReadFacts
<1>4. /\ program[c].proto = "socks4" /\ toServer[c].addr = program[c].addr /\ target[c] = <<>>
      /\ program[c].addr.type \in I!Dialable
  BY <1>1, <1>3, ProgramFacts DEF ConnOK, Hears, Says
<1>5. cred \in I!Creds /\ ok \in BOOLEAN /\ goes \in BOOLEAN
  BY <1>4, CredFacts, ProgramFacts DEF I!LetsIn, I!Verify
<1> HIDE DEF cred, goes
<1>6. u \in Int /\ (goes /\ ok => u >= looked[c])
  <2>1. lastValid[cred] \in Int /\ looked[c] \in Nat /\ used[c] \in Int
    BY <1>5 DEF InTypes
  <2>2. cred \in known[c] => lastValid[cred] >= looked[c]
    BY <1>1, <1>5 DEF ConnOK, Vouched
  <2>3. CASE known[c] = {}
    BY <2>1, <2>3
  <2>4. CASE known[c] # {}
    BY <2>1, <2>2, <2>4 DEF I!LetsIn, I!Verify
  <2>5. QED
    BY <2>3, <2>4
<1> HIDE DEF ok, u
<1>7. x \in {"hand", "closed"} /\ (x = "hand" <=> goes /\ ok)
  BY <1>5
<1> HIDE DEF x
<1>8. /\ DOMAIN toClient' = InConns /\ \A d \in InConns \ {c} : toClient'[d] = toClient[d]
      /\ toClient'[c] = IF client[c] = "gone" \/ ~goes THEN toClient[c] ELSE [m |-> "reply", ok |-> ok]
  <2>1. CASE goes
    BY <1>1, <2>1, ReplyFacts
  <2>2. CASE ~goes
    BY <1>1, <2>2 DEF InTypes
  <2>3. QED
    BY <2>1, <2>2
<1>9. server'[c] = x /\ command5'[c].addr = program[c].addr /\ used'[c] = u
  BY <1>1, <1>4 DEF InTypes
<1>10. server' \in [InConns -> ServerSteps] /\ used' \in [InConns -> Int]
  BY <1>1, <1>6, <1>7 DEF InTypes, ServerSteps
<1>11. ServerTypes /\ Elsewhere(c)
  BY <1>1, <1>2, <1>3, <1>8, <1>10 DEF ServerTypes, Elsewhere, InTypes
<1>12. Hears(c)'
  BY <1>1, <1>2, <1>4, <1>7, <1>9 DEF ConnOK, Hears
<1>13. Meets(c)'
  <2>1. client[c] \in {"reply", "gone"}
    BY <1>1, <1>3, <1>4 DEF ConnOK, Meets, InTypes, ClientSteps, Silence, Unread, Spoken, I!NoMsg
  <2>2. client[c] = "reply" => toClient[c] = I!NoMsg
    BY <1>1, <1>3, <1>4 DEF ConnOK, Meets, Silence, Unread, Spoken, I!NoMsg
  <2>3. QED
    BY <1>2, <1>3, <1>4, <1>5, <1>7, <1>8, <1>9, <2>1, <2>2 DEF Meets, Silence, Unread, Spoken, I!NoMsg
<1>14. Vouched(c)'
  BY <1>1, <1>2, <1>4, <1>6, <1>7, <1>9 DEF ConnOK, Vouched, GotIn
<1>15. QED
  BY <1>1, <1>3, <1>11, <1>12, <1>13, <1>14, ServerLeaves

LEMMA HandFacts ==
    ASSUME InTypes, NEW c \in InConns, ConnOK(c), NEW a \in MeantAndDialable(c), I!Hand(c, a)
    PROVE  /\ DOMAIN target' = InConns /\ \A d \in InConns \ {c} : target'[d] = target[d]
           /\ target'[c] # <<>> /\ target'[c] \in Seq(MeantAndDialable(c))
<1>1. target'[c] = Append(target[c], a) /\ target[c] \in Seq(MeantAndDialable(c))
  BY DEF I!Hand, InTypes, ConnOK, Hears
<1>2. target'[c] # <<>> /\ target'[c] \in Seq(MeantAndDialable(c))
  BY <1>1, AppendProperties
<1>3. QED
  BY <1>2 DEF I!Hand, InTypes

(* The name loses its dot; the kind of the address stays.                  *)
LEMMA MetaType == ASSUME NEW a PROVE I!Meta(a).type = a.type
  BY DEF I!Meta

LEMMA HandSocketOK ==
    ASSUME I!InboundAssumption, InTypes, Clock, NEW c \in InConns, ConnOK(c), I!HandSocket(c) PROVE Moved(c)
<1>1. /\ server[c] = "hand" /\ I!Hand(c, I!Meta(command5[c].addr))
      /\ server' = [server EXCEPT ![c] = "handed"]
      /\ toServer' = toServer /\ toClient' = toClient /\ command5' = command5
      /\ known' = known /\ trusted' = trusted /\ cache' = cache
      /\ looked' = looked /\ used' = used /\ UNCHANGED I!ClientStays
  BY DEF I!HandSocket, I!Server
<1>2. /\ client' = client /\ program' = program /\ now' = now /\ lastValid' = lastValid
      /\ MeantAndDialable(c)' = MeantAndDialable(c) /\ now \in Nat
  BY <1>1, WorldFacts DEF InTypes
<1>3. /\ program[c].proto \in {"socks4", "socks5"} /\ command5[c].addr = program[c].addr
      /\ program[c].addr.type \in I!Dialable
  BY <1>1 DEF ConnOK, Hears
<1>4. I!Meta(command5[c].addr) \in MeantAndDialable(c)
  BY <1>3, MetaType DEF MeantAndDialable, I!Meant, I!P
<1>5. /\ DOMAIN target' = InConns /\ \A d \in InConns \ {c} : target'[d] = target[d]
      /\ target'[c] # <<>> /\ target'[c] \in Seq(MeantAndDialable(c))
  BY <1>1, <1>4, HandFacts
<1>6. server'[c] = "handed" /\ server' \in [InConns -> ServerSteps]
  BY <1>1 DEF InTypes, ServerSteps
<1>7. ServerTypes /\ Elsewhere(c)
  BY <1>1, <1>2, <1>5, <1>6 DEF ServerTypes, Elsewhere, InTypes
<1>8. Hears(c)'
  BY <1>1, <1>2, <1>5, <1>6 DEF ConnOK, Hears
<1>9. Meets(c)'
  BY <1>1, <1>2, <1>3, <1>6 DEF ConnOK, Meets, Silence, Unread, Spoken, I!NoMsg
<1>10. Vouched(c)'
  BY <1>1, <1>2, <1>3, <1>6 DEF ConnOK, Vouched, GotIn
<1>11. QED
  BY <1>1, <1>7, <1>8, <1>9, <1>10, ServerLeaves

LEMMA ClosesOK ==
    ASSUME I!InboundAssumption, InTypes, Clock, NEW c \in InConns, ConnOK(c), I!UDPEnds(c) \/ I!HandshakeCut(c)
    PROVE  Moved(c)
<1>1. /\ server[c] \in {"udp", "socks5", "auth", "request", "socks4"} /\ client[c] = "gone"
      /\ server' = [server EXCEPT ![c] = "closed"]
      /\ toServer' = toServer /\ toClient' = toClient /\ command5' = command5 /\ target' = target
      /\ known' = known /\ trusted' = trusted /\ cache' = cache
      /\ looked' = looked /\ used' = used /\ UNCHANGED I!ClientStays
  BY DEF I!UDPEnds, I!HandshakeCut, I!Server, I!Gone
<1>2. /\ client' = client /\ program' = program /\ now' = now /\ lastValid' = lastValid
      /\ MeantAndDialable(c)' = MeantAndDialable(c) /\ now \in Nat
  BY <1>1, WorldFacts DEF InTypes
<1>3. server'[c] = "closed" /\ server' \in [InConns -> ServerSteps]
  BY <1>1 DEF InTypes, ServerSteps
<1>4. ServerTypes /\ Elsewhere(c)
  BY <1>1, <1>2, <1>3 DEF ServerTypes, Elsewhere, InTypes
<1>5. Hears(c)'
  BY <1>1, <1>2, <1>3 DEF ConnOK, Hears
<1>6. Meets(c)'
  BY <1>1, <1>2 DEF Meets
<1>7. Vouched(c)'
  BY <1>1, <1>2, <1>3 DEF ConnOK, Vouched, GotIn
<1>8. QED
  BY <1>1, <1>4, <1>5, <1>6, <1>7, ServerLeaves

LEMMA HTTPEndsOK ==
    ASSUME I!InboundAssumption, InTypes, Clock, NEW c \in InConns, ConnOK(c), I!HTTPEnds(c) PROVE Moved(c)
<1>1. /\ server[c] = "http" /\ (client[c] = "gone" \/ toServer[c].m = "other")
      /\ toServer' = [toServer EXCEPT ![c] = I!NoMsg] /\ server' = [server EXCEPT ![c] = "closed"]
      /\ toClient' = toClient /\ command5' = command5 /\ target' = target
      /\ known' = known /\ trusted' = trusted /\ cache' = cache
      /\ looked' = looked /\ used' = used /\ UNCHANGED I!ClientStays
  BY DEF I!HTTPEnds, I!Server
<1>2. /\ client' = client /\ program' = program /\ now' = now /\ lastValid' = lastValid
      /\ MeantAndDialable(c)' = MeantAndDialable(c) /\ now \in Nat
  BY <1>1, WorldFacts DEF InTypes
<1>3. server'[c] = "closed" /\ server' \in [InConns -> ServerSteps] /\ toServer'[c] = I!NoMsg
  BY <1>1 DEF InTypes, ServerSteps
<1>4. ServerTypes /\ Elsewhere(c)
  BY <1>1, <1>2, <1>3 DEF ServerTypes, Elsewhere, InTypes
<1>5. Hears(c)'
  BY <1>1, <1>2, <1>3 DEF ConnOK, Hears
<1>6. Meets(c)'
  <2>1. CASE client[c] = "gone"
    BY <1>2, <2>1 DEF Meets
  <2>2. CASE toServer[c].m = "other"
    <3>1. program[c].proto = "other"
      BY <2>2 DEF ConnOK, Says
    <3>2. client[c] \in {"response", "gone"}
      BY <1>1, <2>2, <3>1 DEF ConnOK, Meets, InTypes, ClientSteps, Silence, I!NoMsg
    <3>3. client[c] = "response" => toClient[c] = I!NoMsg
      BY <2>2, <3>1 DEF ConnOK, Meets, Silence, Unread, I!NoMsg
    <3>4. QED
      BY <1>1, <1>2, <1>3, <3>1, <3>2, <3>3 DEF Meets, Silence
  <2>3. QED
    BY <1>1, <2>1, <2>2
<1>7. Vouched(c)'
  BY <1>1, <1>2, <1>3 DEF ConnOK, Vouched, GotIn
<1>8. QED
  BY <1>1, <1>3, <1>4, <1>5, <1>6, <1>7, ServerLeaves

LEMMA RequestFacts ==
    ASSUME I!InboundAssumption, InTypes, NEW c \in InConns, ConnOK(c), toServer[c].m = "http"
    PROVE  /\ program[c].proto = "http" /\ toServer[c].req.cred \in I!Creds
           /\ toServer[c].req.method \in {"connect", "get"}
           /\ toServer[c].req.addr.type \in I!Dialable \cup {"none", "bad"}
           /\ toServer[c].req.method = "connect" => toServer[c].req.addr.type \in I!Dialable
           /\ I!Meta(toServer[c].req.addr) \in I!Meant(c)
           /\ client[c] \in {"response", "gone"}
           /\ client[c] = "response" => toClient[c] = I!NoMsg
<1>1. PICK i \in DOMAIN program[c].reqs : toServer[c].req = program[c].reqs[i]
  BY DEF ConnOK, Says
<1>2. program[c].proto = "http"
  BY DEF ConnOK, Says
<1>3. /\ program[c].reqs[i].method \in {"connect", "get"}
      /\ program[c].reqs[i].addr.type \in I!Dialable \cup {"none", "bad"}
      /\ program[c].reqs[i].method = "connect" => program[c].reqs[i].addr.type \in I!Dialable
  BY <1>1, <1>2, ProgramFacts
<1>4. program[c].reqs[i].cred \in I!Creds
  BY <1>1, CredFacts DEF I!Creds
<1>5. I!Meta(program[c].reqs[i].addr) \in I!Meant(c)
  BY <1>1, <1>2 DEF I!Meant, I!P
<1>6. client[c] \in {"response", "gone"}
  BY <1>2 DEF ConnOK, Meets, InTypes, ClientSteps, Silence, Unread, Spoken, I!NoMsg
<1>7. client[c] = "response" => toClient[c] = I!NoMsg
  BY <1>2 DEF ConnOK, Meets, Silence, Unread, Spoken, I!NoMsg
<1>8. QED
  BY <1>1, <1>2, <1>3, <1>4, <1>5, <1>6, <1>7

LEMMA AuthenticateOK ==
    ASSUME I!InboundAssumption, InTypes, Clock, NEW c \in InConns, ConnOK(c), I!Authenticate(c) PROVE Moved(c)
<1> DEFINE req == toServer[c].req
           cred == req.cred
<1>1. /\ server[c] = "http" /\ ~trusted[c] /\ toServer[c].m = "http"
      /\ looked' = [looked EXCEPT ![c] = now] /\ known' = known /\ command5' = command5
      /\ target' = target /\ UNCHANGED I!ClientStays
  BY DEF I!Authenticate
<1>2. /\ client' = client /\ program' = program /\ now' = now /\ lastValid' = lastValid
      /\ MeantAndDialable(c)' = MeantAndDialable(c) /\ now \in Nat /\ TTL \in Nat
  BY <1>1, WorldFacts DEF InTypes, I!InboundAssumption
<1>3. /\ program[c].proto = "http" /\ cred \in I!Creds /\ client[c] \in {"response", "gone"}
      /\ client[c] = "response" => toClient[c] = I!NoMsg
  BY <1>1, RequestFacts
<1>4. target[c] = <<>> /\ ~GotIn(c) /\ target[c] \in Seq(MeantAndDialable(c))
  BY <1>1, <1>3 DEF ConnOK, Hears, Vouched, GotIn
<1>5. looked'[c] = now /\ looked' \in [InConns -> Nat]
  BY <1>1, <1>2 DEF InTypes
<1>6. ASSUME NEW u \in Int, u >= now - TTL, trusted' = [trusted EXCEPT ![c] = TRUE],
             used' = [used EXCEPT ![c] = u], toServer' = toServer, toClient' = toClient,
             server' = server, cache' = cache \/ GoodVerdicts
      PROVE  Moved(c)
  <2>1. ServerTypes /\ Elsewhere(c)
    BY <1>1, <1>2, <1>5, <1>6 DEF ServerTypes, Elsewhere, InTypes
  <2>2. trusted'[c] /\ used'[c] = u
    BY <1>6 DEF InTypes
  <2>3. Hears(c)'
    BY <1>1, <1>2, <1>3, <1>4, <1>6 DEF Hears
  <2>4. Meets(c)'
    BY <1>2, <1>6 DEF ConnOK, Meets, Silence, Unread, Spoken
  <2>5. Vouched(c)'
    BY <1>1, <1>2, <1>3, <1>5, <1>6, <2>2 DEF Vouched
  <2>6. QED
    BY <1>1, <1>6, <2>1, <2>3, <2>4, <2>5, ServerLeaves
<1>7. ASSUME I!Read(c, "http"), I!Turned(c, req), trusted' = trusted, used' = used,
             cache' = cache \/ GoodVerdicts
      PROVE  Moved(c)
  <2> DEFINE keep == req.keep
             x == IF keep THEN "http" ELSE "closed"
  <2>1. /\ DOMAIN toServer' = InConns /\ \A d \in InConns \ {c} : toServer'[d] = toServer[d]
        /\ toServer'[c] = I!NoMsg
    BY <1>7, ReadFacts
  <2>2. I!Reply(c, [m |-> "response", hijacked |-> FALSE, keep |-> keep]) /\ server' = [server EXCEPT ![c] = x]
    BY <1>7 DEF I!Turned, I!Server
  <2> HIDE DEF keep
  <2>3. /\ DOMAIN toClient' = InConns /\ \A d \in InConns \ {c} : toClient'[d] = toClient[d]
        /\ toClient'[c] = IF client[c] = "gone" THEN toClient[c]
                          ELSE [m |-> "response", hijacked |-> FALSE, keep |-> keep]
    BY <2>2, ReplyFacts
  <2>4. server'[c] = x /\ server' \in [InConns -> ServerSteps]
    BY <2>2 DEF InTypes, ServerSteps
  <2>5. ServerTypes /\ Elsewhere(c)
    BY <1>1, <1>2, <1>5, <1>7, <2>1, <2>2, <2>3, <2>4 DEF ServerTypes, Elsewhere, InTypes
  <2>6. Hears(c)'
    BY <1>1, <1>2, <1>3, <1>4, <1>7, <2>4 DEF Hears
  <2>7. Meets(c)'
    BY <1>2, <1>3, <2>1, <2>3, <2>4 DEF Meets, Spoken
  <2>8. Vouched(c)'
    BY <1>1, <1>2, <1>3, <1>4, <1>5, <1>7, <2>4 DEF Vouched, GotIn
  <2>9. QED
    BY <1>1, <1>7, <2>1, <2>5, <2>6, <2>7, <2>8, ServerLeaves
<1>8. CASE I!InForce = {}
  <2>1. /\ trusted' = [trusted EXCEPT ![c] = TRUE] /\ used' = [used EXCEPT ![c] = now]
        /\ toServer' = toServer /\ toClient' = toClient /\ server' = server /\ cache' = cache
    BY <1>8 DEF I!Authenticate
  <2>2. now \in Int /\ now >= now - TTL
    BY <1>2
  <2>3. QED
    BY <1>6, <2>1, <2>2
<1>9. CASE I!InForce # {} /\ cred = I!NoCred
  <2>1. I!Read(c, "http") /\ I!Turned(c, req) /\ trusted' = trusted /\ cache' = cache /\ used' = used
    BY <1>9 DEF I!Authenticate
  <2>2. QED
    BY <1>7, <2>1
<1>10. CASE I!InForce # {} /\ cred # I!NoCred
  <2> DEFINE ok == I!Verdict(cred)
  <2>1. cache' = I!Kept(cred, ok)
    BY <1>10 DEF I!Authenticate
  <2>2. /\ cache[cred].ok \in BOOLEAN /\ cache[cred].expires \in Int /\ lastValid[cred] \in Int
        /\ cache[cred].ok => cache[cred].expires <= lastValid[cred] + TTL
        /\ cred \in I!InForce => lastValid[cred] = now
    BY <1>3 DEF InTypes, Clock
  <2>3. ok \in BOOLEAN /\ (ok => lastValid[cred] >= now - TTL)
    <3>1. CASE now <= cache[cred].expires
      BY <1>2, <2>2, <3>1 DEF I!Verdict
    <3>2. CASE ~(now <= cache[cred].expires)
      BY <1>2, <2>2, <3>2 DEF I!Verdict, I!Verify
    <3>3. QED
      BY <3>1, <3>2
  <2>4. cache' = cache \/ GoodVerdicts
    <3>1. CASE now <= cache[cred].expires
      BY <2>1, <3>1 DEF I!Kept
    <3>2. CASE ~(now <= cache[cred].expires)
      <4>1. cache' = [cache EXCEPT ![cred] = [ok |-> ok, expires |-> now + TTL]]
        BY <2>1, <3>2 DEF I!Kept
      <4>2. ok => lastValid[cred] = now
        BY <2>2, <3>2 DEF I!Verdict, I!Verify
      <4> HIDE DEF ok, cred
      <4>3. cache'[cred].ok = ok /\ cache'[cred].expires = now + TTL
        BY <1>3, <4>1 DEF InTypes
      <4>4. \A e \in I!Creds : e # cred => cache'[e] = cache[e]
        BY <4>1 DEF InTypes
      <4>5. cache' \in [I!Creds -> [ok : BOOLEAN, expires : Int]]
        <5>1. ok \in BOOLEAN /\ now + TTL \in Int
          BY <1>2, <2>3
        <5>2. PICK kept \in [ok : BOOLEAN, expires : Int] : kept = [ok |-> ok, expires |-> now + TTL]
          BY <5>1
        <5>3. QED
          BY <4>1, <5>2 DEF InTypes
      <4>6. ASSUME NEW e \in I!Creds, cache'[e].ok PROVE cache'[e].expires <= lastValid[e] + TTL
        <5>1. CASE e = cred
          BY <1>2, <4>2, <4>3, <4>6, <5>1
        <5>2. CASE e # cred
          BY <4>4, <4>6, <5>2 DEF Clock
        <5>3. QED
          BY <5>1, <5>2
      <4>7. QED
        BY <4>5, <4>6 DEF GoodVerdicts
    <3>3. QED
      BY <3>1, <3>2
  <2>5. CASE ok
    <3>1. /\ trusted' = [trusted EXCEPT ![c] = TRUE] /\ used' = [used EXCEPT ![c] = lastValid[cred]]
          /\ toServer' = toServer /\ toClient' = toClient /\ server' = server
      BY <1>10, <2>5 DEF I!Authenticate
    <3> HIDE DEF ok, cred
    <3>2. PICK u \in Int : u = lastValid[cred]
      BY <2>2
    <3>3. u >= now - TTL
      BY <2>3, <2>5, <3>2
    <3>4. QED
      BY <1>6, <2>4, <3>1, <3>2, <3>3
  <2>6. CASE ~ok
    <3>1. I!Read(c, "http") /\ I!Turned(c, req) /\ trusted' = trusted /\ used' = used
      BY <1>10, <2>6 DEF I!Authenticate
    <3>2. QED
      BY <1>7, <2>4, <3>1
  <2>7. QED
    BY <2>5, <2>6
<1>11. QED
  BY <1>8, <1>9, <1>10

LEMMA ServeOK ==
    ASSUME I!InboundAssumption, InTypes, Clock, NEW c \in InConns, ConnOK(c), I!Serve(c) PROVE Moved(c)
<1> DEFINE req == toServer[c].req
<1>1. /\ server[c] = "http" /\ trusted[c] /\ I!Read(c, "http")
      /\ known' = known /\ command5' = command5 /\ trusted' = trusted /\ cache' = cache
      /\ looked' = looked /\ used' = used /\ UNCHANGED I!ClientStays
  BY DEF I!Serve
<1>2. /\ client' = client /\ program' = program /\ now' = now /\ lastValid' = lastValid
      /\ MeantAndDialable(c)' = MeantAndDialable(c) /\ now \in Nat
  BY <1>1, WorldFacts DEF InTypes
<1>3. /\ DOMAIN toServer' = InConns /\ \A d \in InConns \ {c} : toServer'[d] = toServer[d]
      /\ toServer'[c] = I!NoMsg /\ toServer[c].m = "http"
  BY <1>1, ReadFacts
<1>4. /\ program[c].proto = "http" /\ client[c] \in {"response", "gone"}
      /\ client[c] = "response" => toClient[c] = I!NoMsg
      /\ req.method = "connect" => I!Meta(req.addr) \in MeantAndDialable(c)
      /\ req.addr.type \notin {"none", "bad"} => I!Meta(req.addr) \in MeantAndDialable(c)
  BY <1>3, RequestFacts, MetaType DEF MeantAndDialable
<1>5. target[c] \in Seq(MeantAndDialable(c)) /\ (used[c] >= looked[c] - TTL) /\ looked[c] <= now
  BY <1>1, <1>4 DEF ConnOK, Hears, Vouched
<1>6. ASSUME NEW x \in {"handed", "http", "closed"}, NEW msg,
             server' = [server EXCEPT ![c] = x], I!Reply(c, msg),
             msg.m = "response", x = IF msg.hijacked THEN "handed" ELSE IF msg.keep THEN "http" ELSE "closed",
             DOMAIN target' = InConns, \A d \in InConns \ {c} : target'[d] = target[d],
             target'[c] \in Seq(MeantAndDialable(c))
      PROVE  Moved(c)
  <2>1. /\ DOMAIN toClient' = InConns /\ \A d \in InConns \ {c} : toClient'[d] = toClient[d]
        /\ toClient'[c] = IF client[c] = "gone" THEN toClient[c] ELSE msg
    BY <1>6, ReplyFacts
  <2>2. server'[c] = x /\ server' \in [InConns -> ServerSteps]
    BY <1>6 DEF InTypes, ServerSteps
  <2>3. ServerTypes /\ Elsewhere(c)
    BY <1>1, <1>2, <1>3, <1>6, <2>1, <2>2 DEF ServerTypes, Elsewhere, InTypes
  <2>4. Hears(c)'
    BY <1>1, <1>2, <1>4, <1>6, <2>2 DEF Hears
  <2>5. Meets(c)'
    BY <1>2, <1>3, <1>4, <1>6, <2>1, <2>2 DEF Meets, Spoken
  <2>6. Vouched(c)'
    BY <1>1, <1>2, <1>4, <1>5, <1>6, <2>2 DEF Vouched
  <2>7. QED
    BY <1>1, <1>3, <2>3, <2>4, <2>5, <2>6, ServerLeaves
<1>7. CASE /\ req.method = "connect" /\ I!Server(c, "handed") /\ I!Hand(c, I!Meta(req.addr))
           /\ I!Reply(c, [m |-> "response", hijacked |-> TRUE, keep |-> FALSE])
  <2>1. /\ DOMAIN target' = InConns /\ \A d \in InConns \ {c} : target'[d] = target[d]
        /\ target'[c] \in Seq(MeantAndDialable(c))
    BY <1>4, <1>7, HandFacts
  <2>2. server' = [server EXCEPT ![c] = "handed"]
    BY <1>7 DEF I!Server
  <2>3. QED
    BY <1>6, <1>7, <2>1, <2>2
<1>8. CASE /\ req.method = "get" /\ I!Turned(c, req)
           /\ IF req.addr.type \in {"none", "bad"} THEN target' = target ELSE I!Hand(c, I!Meta(req.addr))
  <2>1. /\ DOMAIN target' = InConns /\ \A d \in InConns \ {c} : target'[d] = target[d]
        /\ target'[c] \in Seq(MeantAndDialable(c))
    <3>1. CASE req.addr.type \in {"none", "bad"}
      BY <1>2, <1>5, <1>8, <3>1 DEF InTypes
    <3>2. CASE req.addr.type \notin {"none", "bad"}
      BY <1>4, <1>8, <3>2, HandFacts
    <3>3. QED
      BY <3>1, <3>2
  <2>2. /\ I!Reply(c, [m |-> "response", hijacked |-> FALSE, keep |-> req.keep])
        /\ server' = [server EXCEPT ![c] = IF req.keep THEN "http" ELSE "closed"]
    BY <1>8 DEF I!Server, I!Turned
  <2> HIDE DEF req
  <2>3. PICK x \in {"handed", "http", "closed"} : x = IF req.keep THEN "http" ELSE "closed"
    OBVIOUS
  <2>4. QED
    BY <1>6, <2>1, <2>2, <2>3
<1>9. QED
  BY <1>7, <1>8 DEF I!Serve

(* Time passes, or who may come in changes: nobody loses what he had.      *)
LEMMA WorldOK ==
    ASSUME I!InboundAssumption, InInv, I!Tick \/ I!SetAuthenticator PROVE InInv'
<1>1. /\ program' = program /\ toServer' = toServer /\ toClient' = toClient /\ client' = client
      /\ server' = server /\ known' = known /\ command5' = command5 /\ target' = target
      /\ trusted' = trusted /\ turn' = turn /\ looked' = looked /\ used' = used /\ cache' = cache
  BY DEF I!Tick, I!SetAuthenticator, I!Rest
<1>2. /\ now' \in Nat /\ now <= now' /\ now \in Nat
      /\ lastValid' = [e \in I!Creds |-> IF I!InForce' = {} \/ e \in I!InForce' THEN now' ELSE lastValid[e]]
  <2>1. CASE I!Tick
    BY <2>1 DEF InInv, InTypes, I!Tick, I!Valid, I!InForce
  <2>2. CASE I!SetAuthenticator
    BY <2>2 DEF InInv, InTypes, I!SetAuthenticator, I!Valid, I!InForce
  <2>3. QED
    BY <2>1, <2>2
<1>3. \A e \in I!Creds : /\ lastValid[e] \in Int /\ lastValid[e] <= now
                         /\ lastValid'[e] = IF I!InForce' = {} \/ e \in I!InForce' THEN now' ELSE lastValid[e]
  BY <1>2 DEF InInv, InTypes, Clock
<1>4. \A e \in I!Creds : lastValid[e] <= lastValid'[e] /\ lastValid'[e] \in Int /\ lastValid'[e] <= now'
  BY <1>2, <1>3
<1>5. Older
  BY <1>1, <1>2, <1>4 DEF Older
<1>6. InTypes'
  BY <1>1, <1>2, <1>4 DEF InInv, InTypes
<1>7. Clock'
  <2>1. ASSUME NEW e \in I!Creds, cache[e].ok PROVE cache[e].expires <= lastValid'[e] + TTL
    <3>1. cache[e].expires <= lastValid[e] + TTL /\ cache[e].expires \in Int /\ TTL \in Nat
      BY <2>1 DEF InInv, InTypes, Clock, I!InboundAssumption
    <3>2. QED
      BY <1>3, <1>4, <3>1
  <2>2. QED
    BY <1>1, <1>3, <1>4, <2>1 DEF Clock
<1>8. \A c \in InConns : SameAt(c)
  BY <1>1 DEF SameAt
<1>9. QED
  BY <1>5, <1>6, <1>7, <1>8, Aside DEF InInv

LEMMA InboundInit == ASSUME I!InboundAssumption, I!Init PROVE InInv
<1>1. /\ program \in Starts /\ now = 0 /\ TTL \in Nat
      /\ cache = [e \in I!Creds |-> [ok |-> FALSE, expires |-> -1]]
      /\ toServer = [c \in InConns |-> I!NoMsg] /\ toClient = [c \in InConns |-> I!NoMsg]
      /\ client = [c \in InConns |-> IF program[c].proto = "absent" THEN "gone" ELSE "start"]
      /\ server = [c \in InConns |-> IF program[c].proto = "absent" THEN "closed" ELSE "peek"]
      /\ known = [c \in InConns |-> {}] /\ target = [c \in InConns |-> <<>>]
      /\ DOMAIN command5 = InConns /\ trusted = [c \in InConns |-> FALSE]
      /\ turn = [c \in InConns |-> 1] /\ looked = [c \in InConns |-> 0] /\ used = [c \in InConns |-> 0]
      /\ lastValid = [e \in I!Creds |-> IF I!InForce = {} \/ e \in I!InForce THEN 0 ELSE -TTL - 1]
  BY DEF I!Init, I!InboundAssumption
<1>2. InTypes
  BY <1>1 DEF InTypes, ClientSteps, ServerSteps
<1>3. Clock
  BY <1>1 DEF Clock
<1>4. ASSUME NEW c \in InConns PROVE ConnOK(c)
  <2>1. /\ toServer[c] = I!NoMsg /\ toClient[c] = I!NoMsg /\ target[c] = <<>> /\ ~trusted[c]
        /\ client[c] = (IF program[c].proto = "absent" THEN "gone" ELSE "start")
        /\ server[c] = (IF program[c].proto = "absent" THEN "closed" ELSE "peek")
        /\ looked[c] = 0 /\ used[c] = 0 /\ now = 0
    BY <1>1
  <2>2. <<>> \in Seq(MeantAndDialable(c))
    BY EmptySeq
  <2>3. Hears(c)
    BY <2>1, <2>2 DEF Hears
  <2>4. Says(c)
    BY <2>1 DEF Says, I!NoMsg
  <2>5. Meets(c)
    BY <2>1 DEF Meets, Silence
  <2>6. Vouched(c)
    BY <2>1 DEF Vouched, GotIn
  <2>7. QED
    BY <2>3, <2>4, <2>5, <2>6 DEF ConnOK
<1>5. QED
  BY <1>2, <1>3, <1>4 DEF InInv

LEMMA InboundStep == ASSUME I!InboundAssumption, InInv, [I!INext]_(I!ivars) PROVE InInv'
<1>1. ASSUME NEW c \in InConns, I!ClientStep(c) PROVE Moved(c)
  <2>1. InTypes /\ Clock /\ ConnOK(c)
    BY DEF InInv
  <2>2. QED
    BY <1>1, <2>1, ClientBeginsOK, ClientMethodOK, ClientStatusOK, ClientReplyOK, ClientResponseOK,
       ClientEndsOK DEF I!ClientStep
<1>2. ASSUME NEW c \in InConns, I!ServerStep(c) PROVE Moved(c)
  <2>1. InTypes /\ Clock /\ ConnOK(c)
    BY DEF InInv
  <2>2. QED
    BY <1>2, <2>1, PeekOK, GreetOK, AuthOK, Socks5RequestOK, Socks4RequestOK, HandSocketOK,
       ClosesOK, AuthenticateOK, ServeOK, HTTPEndsOK DEF I!ServerStep
<1>3. ASSUME NEW c \in InConns, Moved(c) PROVE InInv'
  <2>1. InTypes' /\ Clock' /\ ConnOK(c)' /\ Older
    BY <1>3 DEF Moved
  <2>2. ASSUME NEW d \in InConns, d # c PROVE ConnOK(d)'
    <3>1. InTypes /\ ConnOK(d) /\ SameAt(d)
      BY <1>3, <2>2 DEF InInv, Moved
    <3>2. QED
      BY <2>1, <3>1, Aside
  <2>3. ASSUME NEW d \in InConns PROVE ConnOK(d)'
    <3>1. CASE d = c
      BY <2>1, <3>1
    <3>2. CASE d # c
      BY <2>2, <3>2
    <3>3. QED
      BY <3>1, <3>2
  <2>4. QED
    BY <2>1, <2>3 DEF InInv
<1>4. CASE UNCHANGED I!ivars
  <2>1. /\ program' = program /\ toServer' = toServer /\ toClient' = toClient /\ client' = client
        /\ server' = server /\ known' = known /\ command5' = command5 /\ target' = target
        /\ trusted' = trusted /\ turn' = turn /\ looked' = looked /\ used' = used /\ cache' = cache
        /\ authset' = authset /\ now' = now /\ lastValid' = lastValid
    BY <1>4 DEF I!ivars
  <2>2. InTypes' /\ Clock'
    BY <2>1 DEF InInv, InTypes, Clock, I!InForce
  <2>3. Older /\ \A c \in InConns : SameAt(c)
    BY <2>1 DEF Older, SameAt, InInv, InTypes
  <2>4. QED
    BY <2>2, <2>3, Aside DEF InInv
<1>5. QED
  BY <1>1, <1>2, <1>3, <1>4, WorldOK DEF I!INext

LEMMA InboundSafe ==
    ASSUME I!InboundAssumption, InInv PROVE I!TypeOK /\ I!NobodyElseGetsIn /\ I!BothAgree
<1>1. I!TypeOK
  <2>1. ASSUME NEW c \in InConns, NEW i \in DOMAIN target[c]
        PROVE  target[c][i] \in I!Meant(c) /\ target[c][i].type \in I!Dialable
    <3>1. target[c] \in Seq(MeantAndDialable(c))
      BY DEF InInv, ConnOK, Hears
    <3>2. target[c][i] \in MeantAndDialable(c)
      BY <2>1, <3>1
    <3>3. QED
      BY <3>2 DEF MeantAndDialable
  <2>2. QED
    BY <2>1 DEF I!TypeOK
<1>2. I!NobodyElseGetsIn
  <2>1. ASSUME NEW c \in InConns, target[c] # <<>> \/ server[c] \in {"request", "udp"}
        PROVE  used[c] >= looked[c] - (IF I!P(c).proto = "http" THEN TTL ELSE 0)
    <3>1. GotIn(c) /\ Vouched(c) /\ looked[c] \in Nat /\ used[c] \in Int
      BY <2>1 DEF InInv, InTypes, ConnOK, GotIn
    <3>2. CASE program[c].proto = "http"
      BY <3>1, <3>2 DEF Vouched, I!P
    <3>3. CASE program[c].proto # "http"
      BY <3>1, <3>3 DEF Vouched, I!P
    <3>4. QED
      BY <3>2, <3>3
  <2>2. QED
    BY <2>1 DEF I!NobodyElseGetsIn
<1>3. I!BothAgree
  <2>1. ASSUME NEW c \in InConns
        PROVE  /\ client[c] = "ok" => server[c] \in {"hand", "handed", "udp"}
               /\ server[c] \in {"hand", "handed", "udp"} /\ client[c] # "gone" =>
                     client[c] = "ok" \/ toClient[c].m \in {"reply", "response"}
    <3>1. Meets(c) /\ client[c] \in ClientSteps
      BY DEF InInv, InTypes, ConnOK
    <3>2. client[c] = "ok" => server[c] \in {"hand", "handed", "udp"}
      BY <3>1 DEF Meets
    <3>3. ASSUME server[c] \in {"hand", "handed", "udp"} PROVE client[c] \notin {"start", "method", "status"}
      BY <3>1, <3>3 DEF Meets
    <3>4. ASSUME server[c] \in {"hand", "handed", "udp"}, client[c] \in {"reply", "response"}
          PROVE  toClient[c].m \in {"reply", "response"}
      BY <3>1, <3>4 DEF Meets, Spoken
    <3>5. QED
      BY <3>1, <3>2, <3>3, <3>4 DEF ClientSteps
  <2>2. QED
    BY <2>1 DEF I!BothAgree
<1>4. QED
  BY <1>1, <1>2, <1>3

(* What a listener hands on is what its client meant; nobody gets in with  *)
(* a credential that was not valid when he was looked at, or TTL before    *)
(* over HTTP; client and server agree on who has a connection.             *)
THEOREM NobodyElseIsLetIn ==
    ASSUME I!InboundAssumption PROVE I!Spec => [](I!TypeOK /\ I!NobodyElseGetsIn /\ I!BothAgree)
<1>1. I!Init => InInv
  BY InboundInit
<1>2. InInv /\ [I!INext]_(I!ivars) => InInv'
  BY InboundStep
<1>3. InInv => I!TypeOK /\ I!NobodyElseGetsIn /\ I!BothAgree
  BY InboundSafe
<1>4. QED
  BY <1>1, <1>2, <1>3, PTL DEF I!Spec

-----------------------------------------------------------------------------
(* Outbound: what the plans are.                                           *)

(* Short ones.                                                             *)
LEMMA Glue01 == ASSUME NEW a PROVE <<>> \o <<a>> = <<a>>
OBVIOUS

LEMMA Glue14 == ASSUME NEW a, NEW b, NEW c, NEW d, NEW e PROVE <<a>> \o <<b, c, d, e>> = <<a, b, c, d, e>>
<1> DEFINE X == {a, b, c, d, e}
           s == <<a>>
           t == <<b, c, d, e>>
           w == <<a, b, c, d, e>>
<1>1. s \in Seq(X) /\ t \in Seq(X) /\ w \in Seq(X) /\ Len(s) = 1 /\ Len(t) = 4 /\ Len(w) = 5
  OBVIOUS
<1>2. (\A i \in 1..1 : w[i] = s[i]) /\ \A i \in 1..4 : w[1 + i] = t[i]
  OBVIOUS
<1> HIDE DEF X, s, t, w
<1>3. /\ Len(w) = Len(s) + Len(t) /\ \A i \in 1..Len(s) : w[i] = s[i]
      /\ \A i \in 1..Len(t) : w[Len(s) + i] = t[i]
  BY <1>1, <1>2
<1>4. s \o t = w
  BY <1>1, <1>3, Glued
<1>5. QED
  BY <1>4 DEF s, t, w

LEMMA Glue22 == ASSUME NEW a, NEW b, NEW c, NEW d PROVE <<a, b>> \o <<c, d>> = <<a, b, c, d>>
<1> DEFINE X == {a, b, c, d}
           s == <<a, b>>
           t == <<c, d>>
           w == <<a, b, c, d>>
<1>1. s \in Seq(X) /\ t \in Seq(X) /\ w \in Seq(X) /\ Len(s) = 2 /\ Len(t) = 2 /\ Len(w) = 4
  OBVIOUS
<1>2. (\A i \in 1..2 : w[i] = s[i]) /\ \A i \in 1..2 : w[2 + i] = t[i]
  OBVIOUS
<1> HIDE DEF X, s, t, w
<1>3. /\ Len(w) = Len(s) + Len(t) /\ \A i \in 1..Len(s) : w[i] = s[i]
      /\ \A i \in 1..Len(t) : w[Len(s) + i] = t[i]
  BY <1>1, <1>2
<1>4. s \o t = w
  BY <1>1, <1>3, Glued
<1>5. QED
  BY <1>4 DEF s, t, w

LEMMA Glue24 == ASSUME NEW a, NEW b, NEW c, NEW d, NEW e, NEW f PROVE <<a, b>> \o <<c, d, e, f>> = <<a, b, c, d, e, f>>
<1> DEFINE X == {a, b, c, d, e, f}
           s == <<a, b>>
           t == <<c, d, e, f>>
           w == <<a, b, c, d, e, f>>
<1>1. s \in Seq(X) /\ t \in Seq(X) /\ w \in Seq(X) /\ Len(s) = 2 /\ Len(t) = 4 /\ Len(w) = 6
  OBVIOUS
<1>2. (\A i \in 1..2 : w[i] = s[i]) /\ \A i \in 1..4 : w[2 + i] = t[i]
  OBVIOUS
<1> HIDE DEF X, s, t, w
<1>3. /\ Len(w) = Len(s) + Len(t) /\ \A i \in 1..Len(s) : w[i] = s[i]
      /\ \A i \in 1..Len(t) : w[Len(s) + i] = t[i]
  BY <1>1, <1>2
<1>4. s \o t = w
  BY <1>1, <1>3, Glued
<1>5. QED
  BY <1>4 DEF s, t, w

LEMMA Glue32 == ASSUME NEW a, NEW b, NEW c, NEW d, NEW e PROVE <<a, b, c>> \o <<d, e>> = <<a, b, c, d, e>>
<1> DEFINE X == {a, b, c, d, e}
           s == <<a, b, c>>
           t == <<d, e>>
           w == <<a, b, c, d, e>>
<1>1. s \in Seq(X) /\ t \in Seq(X) /\ w \in Seq(X) /\ Len(s) = 3 /\ Len(t) = 2 /\ Len(w) = 5
  OBVIOUS
<1>2. (\A i \in 1..3 : w[i] = s[i]) /\ \A i \in 1..2 : w[3 + i] = t[i]
  OBVIOUS
<1> HIDE DEF X, s, t, w
<1>3. /\ Len(w) = Len(s) + Len(t) /\ \A i \in 1..Len(s) : w[i] = s[i]
      /\ \A i \in 1..Len(t) : w[Len(s) + i] = t[i]
  BY <1>1, <1>2
<1>4. s \o t = w
  BY <1>1, <1>3, Glued
<1>5. QED
  BY <1>4 DEF s, t, w

(* The steps of the calls, as they are for every node, by what follows the *)
(* TLS and what does not.                                                  *)
StepNames == {"dial", "header", "ws", "wss", "tls", "gun", "h2", "establish", "socks", "connect",
              "listen", "server", "bind", "target", "unsupported"}
AfterDial == {"ws", "wss", "gun", "tls", "h2", "establish", "socks", "connect", "header", "listen", "bind"}
SafeHeaders ==
    {<<"dial", "wss", "header">>, <<"dial", "gun", "header">>, <<"dial", "tls", "header">>,
     <<"dial", "tls", "h2", "establish", "header">>,
     <<"target", "dial", "wss", "header">>, <<"target", "dial", "gun", "header">>,
     <<"target", "dial", "tls", "header">>, <<"target", "dial", "tls", "h2", "establish", "header">>}
OpenHeaders ==
    {<<"dial", "header">>, <<"dial", "ws", "header">>, <<"target", "dial", "header">>,
     <<"target", "dial", "ws", "header">>}
SafeProxies == {<<"dial", "tls", "socks">>, <<"dial", "tls", "connect">>}
OpenProxies == {<<"dial", "socks">>, <<"dial", "connect">>}
SafeAssociation == <<"dial", "tls", "socks", "listen", "bind">>
OpenAssociation == <<"dial", "socks", "listen", "bind">>
Socket == <<"listen", "server">>
Nothing == <<"unsupported">>

SafePlans == SafeHeaders \cup SafeProxies \cup {SafeAssociation, Socket, Nothing}
ThePlans == SafePlans \cup OpenHeaders \cup OpenProxies \cup {OpenAssociation}

(* Every step once, and what comes after dialling.                         *)
WellMade(p) ==
    /\ p \in Seq(StepNames) /\ Len(p) # 0
    /\ \A i, j \in 1..Len(p) : i # j => p[i] # p[j]
    /\ \A i, j \in 1..Len(p) : i < j /\ p[i] = "dial" => p[j] \in AfterDial
Guarded(p) ==
    \A i \in 1..Len(p) : p[i] \in {"header", "socks", "connect"} =>
        \E j \in 1..(i - 1) : p[j] \in {"tls", "wss", "gun"}
EndsInHeader(p) == p[Len(p)] = "header"
ListensAs(p) ==
    /\ \A i, j \in 1..Len(p) : i < j /\ p[i] = "listen" =>
          (p[j] = "server" /\ p = Socket) \/ (p[j] = "bind" /\ p \in {SafeAssociation, OpenAssociation})

LEMMA HeadersAre ==
    \A p \in SafeHeaders \cup OpenHeaders :
        WellMade(p) /\ EndsInHeader(p) /\ ListensAs(p) /\ (p \in SafeHeaders => Guarded(p))
<1> USE DEF WellMade, EndsInHeader, ListensAs, StepNames, AfterDial
<1>1. WellMade(<<"dial", "wss", "header">>)
  OBVIOUS
<1>2. EndsInHeader(<<"dial", "wss", "header">>) /\ ListensAs(<<"dial", "wss", "header">>)
  OBVIOUS
<1>3. WellMade(<<"dial", "gun", "header">>)
  OBVIOUS
<1>4. EndsInHeader(<<"dial", "gun", "header">>) /\ ListensAs(<<"dial", "gun", "header">>)
  OBVIOUS
<1>5. WellMade(<<"dial", "tls", "header">>)
  OBVIOUS
<1>6. EndsInHeader(<<"dial", "tls", "header">>) /\ ListensAs(<<"dial", "tls", "header">>)
  OBVIOUS
<1>7. WellMade(<<"dial", "tls", "h2", "establish", "header">>)
  OBVIOUS
<1>8. EndsInHeader(<<"dial", "tls", "h2", "establish", "header">>) /\ ListensAs(<<"dial", "tls", "h2", "establish", "header">>)
  OBVIOUS
<1>9. WellMade(<<"target", "dial", "wss", "header">>)
  OBVIOUS
<1>10. EndsInHeader(<<"target", "dial", "wss", "header">>) /\ ListensAs(<<"target", "dial", "wss", "header">>)
  OBVIOUS
<1>11. WellMade(<<"target", "dial", "gun", "header">>)
  OBVIOUS
<1>12. EndsInHeader(<<"target", "dial", "gun", "header">>) /\ ListensAs(<<"target", "dial", "gun", "header">>)
  OBVIOUS
<1>13. WellMade(<<"target", "dial", "tls", "header">>)
  OBVIOUS
<1>14. EndsInHeader(<<"target", "dial", "tls", "header">>) /\ ListensAs(<<"target", "dial", "tls", "header">>)
  OBVIOUS
<1>15. WellMade(<<"target", "dial", "tls", "h2", "establish", "header">>)
  OBVIOUS
<1>16. EndsInHeader(<<"target", "dial", "tls", "h2", "establish", "header">>) /\ ListensAs(<<"target", "dial", "tls", "h2", "establish", "header">>)
  OBVIOUS
<1>17. WellMade(<<"dial", "header">>)
  OBVIOUS
<1>18. EndsInHeader(<<"dial", "header">>) /\ ListensAs(<<"dial", "header">>)
  OBVIOUS
<1>19. WellMade(<<"dial", "ws", "header">>)
  OBVIOUS
<1>20. EndsInHeader(<<"dial", "ws", "header">>) /\ ListensAs(<<"dial", "ws", "header">>)
  OBVIOUS
<1>21. WellMade(<<"target", "dial", "header">>)
  OBVIOUS
<1>22. EndsInHeader(<<"target", "dial", "header">>) /\ ListensAs(<<"target", "dial", "header">>)
  OBVIOUS
<1>23. WellMade(<<"target", "dial", "ws", "header">>)
  OBVIOUS
<1>24. EndsInHeader(<<"target", "dial", "ws", "header">>) /\ ListensAs(<<"target", "dial", "ws", "header">>)
  OBVIOUS
<1> HIDE DEF WellMade, EndsInHeader, ListensAs
<1>25. \A p \in SafeHeaders : WellMade(p) /\ EndsInHeader(p) /\ ListensAs(p)
  BY <1>1, <1>2, <1>3, <1>4, <1>5, <1>6, <1>7, <1>8, <1>9, <1>10, <1>11, <1>12, <1>13, <1>14, <1>15, <1>16 DEF SafeHeaders
<1>26. \A p \in SafeHeaders : Guarded(p)
  BY DEF SafeHeaders, Guarded
<1>27. \A p \in OpenHeaders : WellMade(p) /\ EndsInHeader(p) /\ ListensAs(p)
  BY <1>17, <1>18, <1>19, <1>20, <1>21, <1>22, <1>23, <1>24 DEF OpenHeaders
<1>28. OpenHeaders \cap SafeHeaders = {}
  BY DEF OpenHeaders, SafeHeaders
<1>29. QED
  BY <1>25, <1>26, <1>27, <1>28

LEMMA OthersAre ==
    \A p \in SafeProxies \cup OpenProxies \cup {SafeAssociation, OpenAssociation, Socket, Nothing} :
        WellMade(p) /\ ListensAs(p) /\ (p \in SafePlans => Guarded(p))
<1> USE DEF WellMade, ListensAs, StepNames, AfterDial
<1>1. WellMade(<<"dial", "tls", "socks">>) /\ ListensAs(<<"dial", "tls", "socks">>)
  OBVIOUS
<1>2. WellMade(<<"dial", "tls", "connect">>) /\ ListensAs(<<"dial", "tls", "connect">>)
  OBVIOUS
<1>3. WellMade(<<"dial", "socks">>) /\ ListensAs(<<"dial", "socks">>)
  OBVIOUS
<1>4. WellMade(<<"dial", "connect">>) /\ ListensAs(<<"dial", "connect">>)
  OBVIOUS
<1>5. WellMade(SafeAssociation)
  BY DEF SafeAssociation
<1>6. ListensAs(SafeAssociation)
  BY DEF SafeAssociation, OpenAssociation, Socket, Nothing
<1>7. WellMade(OpenAssociation)
  BY DEF OpenAssociation
<1>8. ListensAs(OpenAssociation)
  BY DEF SafeAssociation, OpenAssociation, Socket, Nothing
<1>9. WellMade(Socket)
  BY DEF Socket
<1>10. ListensAs(Socket)
  BY DEF SafeAssociation, OpenAssociation, Socket, Nothing
<1>11. WellMade(Nothing)
  BY DEF Nothing
<1>12. ListensAs(Nothing)
  BY DEF SafeAssociation, OpenAssociation, Socket, Nothing
<1> HIDE DEF WellMade, ListensAs
<1>13. \A p \in SafeProxies \cup OpenProxies : WellMade(p) /\ ListensAs(p)
  BY <1>1, <1>2, <1>3, <1>4 DEF SafeProxies, OpenProxies
<1>14. \A p \in SafeProxies \cup {SafeAssociation, Socket, Nothing} : Guarded(p)
  BY DEF SafeProxies, SafeAssociation, Socket, Nothing, Guarded
<1>15. OpenAssociation \notin SafePlans /\ OpenProxies \cap SafePlans = {}
  BY DEF SafePlans, SafeProxies, SafeHeaders, SafeAssociation, Socket, Nothing, OpenAssociation, OpenProxies
<1>16. QED
  BY <1>5, <1>6, <1>7, <1>8, <1>9, <1>10, <1>11, <1>12, <1>13, <1>14, <1>15

(* A call over layers that end in a header.                                *)
SafeLayers == {<<"wss">>, <<"gun">>, <<"tls">>, <<"tls", "h2", "establish">>}
OpenLayers == {<<>>, <<"ws">>}

LEMMA LayersThenHeader ==
    /\ \A x \in SafeLayers : /\ <<"dial">> \o (x \o <<"header">>) \in SafeHeaders
                             /\ <<"target", "dial">> \o (x \o <<"header">>) \in SafeHeaders
    /\ \A x \in OpenLayers : /\ <<"dial">> \o (x \o <<"header">>) \in OpenHeaders
                             /\ <<"target", "dial">> \o (x \o <<"header">>) \in OpenHeaders
    /\ \A x \in {<<"wss">>, <<"gun">>, <<"tls">>} : (<<"dial">> \o x) \o <<"header">> \in SafeHeaders
<1> DEFINE Both(y) == <<"dial">> \o (y \o <<"header">>)
           Listen(y) == <<"target", "dial">> \o (y \o <<"header">>)
<1>1. /\ Both(<<"wss">>) = <<"dial", "wss", "header">>
      /\ Listen(<<"wss">>) = <<"target", "dial", "wss", "header">>
  <2>1. <<"wss">> \o <<"header">> = <<"wss", "header">>
    BY Glue11, Zenon
  <2>2. <<"dial">> \o <<"wss", "header">> = <<"dial", "wss", "header">>
    BY Glue12, Zenon
  <2>3. <<"target", "dial">> \o <<"wss", "header">> = <<"target", "dial", "wss", "header">>
    BY Glue22, Zenon
  <2>4. QED
    BY <2>1, <2>2, <2>3, Zenon
<1>2. /\ Both(<<"gun">>) = <<"dial", "gun", "header">>
      /\ Listen(<<"gun">>) = <<"target", "dial", "gun", "header">>
  <2>1. <<"gun">> \o <<"header">> = <<"gun", "header">>
    BY Glue11, Zenon
  <2>2. <<"dial">> \o <<"gun", "header">> = <<"dial", "gun", "header">>
    BY Glue12, Zenon
  <2>3. <<"target", "dial">> \o <<"gun", "header">> = <<"target", "dial", "gun", "header">>
    BY Glue22, Zenon
  <2>4. QED
    BY <2>1, <2>2, <2>3, Zenon
<1>3. /\ Both(<<"tls">>) = <<"dial", "tls", "header">>
      /\ Listen(<<"tls">>) = <<"target", "dial", "tls", "header">>
  <2>1. <<"tls">> \o <<"header">> = <<"tls", "header">>
    BY Glue11, Zenon
  <2>2. <<"dial">> \o <<"tls", "header">> = <<"dial", "tls", "header">>
    BY Glue12, Zenon
  <2>3. <<"target", "dial">> \o <<"tls", "header">> = <<"target", "dial", "tls", "header">>
    BY Glue22, Zenon
  <2>4. QED
    BY <2>1, <2>2, <2>3, Zenon
<1>4. /\ Both(<<"tls", "h2", "establish">>) = <<"dial", "tls", "h2", "establish", "header">>
      /\ Listen(<<"tls", "h2", "establish">>) = <<"target", "dial", "tls", "h2", "establish", "header">>
  <2>1. <<"tls", "h2", "establish">> \o <<"header">> = <<"tls", "h2", "establish", "header">>
    BY Glue31, Zenon
  <2>2. <<"dial">> \o <<"tls", "h2", "establish", "header">> = <<"dial", "tls", "h2", "establish", "header">>
    BY Glue14, Zenon
  <2>3. <<"target", "dial">> \o <<"tls", "h2", "establish", "header">> = <<"target", "dial", "tls", "h2", "establish", "header">>
    BY Glue24, ZenonT(60)
  <2>4. QED
    BY <2>1, <2>2, <2>3, Zenon
<1>5. /\ Both(<<>>) = <<"dial", "header">>
      /\ Listen(<<>>) = <<"target", "dial", "header">>
  <2>1. <<>> \o <<"header">> = <<"header">>
    BY Glue01, Zenon
  <2>2. <<"dial">> \o <<"header">> = <<"dial", "header">>
    BY Glue11, Zenon
  <2>3. <<"target", "dial">> \o <<"header">> = <<"target", "dial", "header">>
    BY Glue21, Zenon
  <2>4. QED
    BY <2>1, <2>2, <2>3, Zenon
<1>6. /\ Both(<<"ws">>) = <<"dial", "ws", "header">>
      /\ Listen(<<"ws">>) = <<"target", "dial", "ws", "header">>
  <2>1. <<"ws">> \o <<"header">> = <<"ws", "header">>
    BY Glue11, Zenon
  <2>2. <<"dial">> \o <<"ws", "header">> = <<"dial", "ws", "header">>
    BY Glue12, Zenon
  <2>3. <<"target", "dial">> \o <<"ws", "header">> = <<"target", "dial", "ws", "header">>
    BY Glue22, Zenon
  <2>4. QED
    BY <2>1, <2>2, <2>3, Zenon
<1>7. /\ (<<"dial">> \o <<"wss">>) \o <<"header">> = <<"dial", "wss", "header">>
      /\ (<<"dial">> \o <<"gun">>) \o <<"header">> = <<"dial", "gun", "header">>
      /\ (<<"dial">> \o <<"tls">>) \o <<"header">> = <<"dial", "tls", "header">>
  <2>1. /\ <<"dial">> \o <<"wss">> = <<"dial", "wss">>
        /\ <<"dial">> \o <<"gun">> = <<"dial", "gun">>
        /\ <<"dial">> \o <<"tls">> = <<"dial", "tls">>
    BY Glue11, Zenon
  <2>2. /\ <<"dial", "wss">> \o <<"header">> = <<"dial", "wss", "header">>
        /\ <<"dial", "gun">> \o <<"header">> = <<"dial", "gun", "header">>
        /\ <<"dial", "tls">> \o <<"header">> = <<"dial", "tls", "header">>
    BY Glue21, Zenon
  <2>3. QED
    BY <2>1, <2>2, Zenon
<1> HIDE DEF Both, Listen
<1>8. \A x \in SafeLayers : Both(x) \in SafeHeaders /\ Listen(x) \in SafeHeaders
  BY <1>1, <1>2, <1>3, <1>4 DEF SafeLayers, SafeHeaders
<1>9. \A x \in OpenLayers : Both(x) \in OpenHeaders /\ Listen(x) \in OpenHeaders
  BY <1>5, <1>6 DEF OpenLayers, OpenHeaders
<1>10. \A x \in {<<"wss">>, <<"gun">>, <<"tls">>} : (<<"dial">> \o x) \o <<"header">> \in SafeHeaders
  BY <1>7 DEF SafeHeaders
<1>11. QED
  BY <1>8, <1>9, <1>10 DEF Both, Listen

(* What the plan of a call is, and when.                                   *)
PlanSound(p, n, bare) ==
    /\ p.steps \in ThePlans
    /\ n.tls /\ (n.kind = "ss" => n.net = "v2ray") => p.steps \in SafePlans
    /\ bare /\ (n.net = "grpc" \/ (n.kind = "snell" /\ n.net = "v2")) =>
          p.steps \in SafeHeaders \cup OpenHeaders \cup {Nothing}
    /\ p.steps = Socket => "server" \in p.closed
    /\ p.steps \in {SafeAssociation, OpenAssociation} => n.kind = "socks5"

(* A plan that ends in a header is sound with the layers the node asks for. *)
LEMMA HeaderSound ==
    ASSUME NEW p, NEW n, NEW bare, p.steps \in SafeHeaders \cup OpenHeaders,
           n.tls /\ (n.kind = "ss" => n.net = "v2ray") => p.steps \in SafeHeaders
    PROVE  PlanSound(p, n, bare)
<1>1. Socket \notin SafeHeaders \cup OpenHeaders
  BY DEF Socket, SafeHeaders, OpenHeaders
<1>2. SafeAssociation \notin SafeHeaders \cup OpenHeaders
  BY DEF SafeAssociation, SafeHeaders, OpenHeaders
<1>3. OpenAssociation \notin SafeHeaders \cup OpenHeaders
  BY DEF OpenAssociation, SafeHeaders, OpenHeaders
<1>4. QED
  BY <1>1, <1>2, <1>3 DEF PlanSound, ThePlans, SafePlans

(* What the kinds of nodes differ in.                                      *)
LEMMA NodeKinds ==
    ASSUME NEW n \in O!AllNodes
    PROVE  /\ n.tls \in BOOLEAN
           /\ n.kind \in {"ss", "ssr", "vmess", "trojan", "socks5", "http", "snell"}
           /\ n.kind = "trojan" => n.tls
           /\ n.kind \in {"ssr", "snell"} => ~n.tls
           /\ n.net = "grpc" => n.kind \in {"vmess", "trojan"}
<1> DEFINE Ss == {O!Node("ss", net, tls) : net \in {"none", "obfs", "v2ray", "other"}, tls \in BOOLEAN}
           Ssrs == {O!Node("ssr", cipher, FALSE) : cipher \in {"dummy", "stream", "aead"}}
           Vmess == {O!Node("vmess", net, tls) : net \in {"none", "ws", "http", "h2", "grpc"}, tls \in BOOLEAN}
           Trojan == {O!Node("trojan", net, TRUE) : net \in {"none", "ws", "grpc"}}
           Proxies == {O!Node(type, "none", tls) : type \in {"socks5", "http"}, tls \in BOOLEAN}
           Snell == {O!Node("snell", version, FALSE) : version \in {"v1", "v2", "v3"}}
<1>1. CASE n \in Ss
  BY <1>1 DEF O!Node
<1>2. CASE n \in Ssrs
  <2>1. PICK cipher \in {"dummy", "stream", "aead"} : n = O!Node("ssr", cipher, FALSE)
    BY <1>2, Zenon
  <2>2. QED
    BY <2>1 DEF O!Node
<1>3. CASE n \in Vmess
  BY <1>3 DEF O!Node
<1>4. CASE n \in Trojan
  <2>1. PICK net \in {"none", "ws", "grpc"} : n = O!Node("trojan", net, TRUE)
    BY <1>4, Zenon
  <2>2. QED
    BY <2>1 DEF O!Node
<1>5. CASE n \in Proxies
  BY <1>5 DEF O!Node
<1>6. CASE n \in Snell
  <2>1. PICK version \in {"v1", "v2", "v3"} : n = O!Node("snell", version, FALSE)
    BY <1>6, Zenon
  <2>2. QED
    BY <2>1 DEF O!Node
<1>7. n \in Ss \cup Ssrs \cup Vmess \cup Trojan \cup Proxies \cup Snell
  BY DEF O!AllNodes, O!Node
<1> HIDE DEF Ss, Ssrs, Vmess, Trojan, Proxies, Snell
<1>8. QED
  BY <1>1, <1>2, <1>3, <1>4, <1>5, <1>6, <1>7

(* The layers that end in a header.                                        *)
LEMMA LayersAre ==
    ASSUME NEW n \in O!AllNodes, O!ParseProxy(n)
    PROVE  /\ n.kind = "ss" =>
                \E x \in SafeLayers \cup OpenLayers : /\ O!SSLayers(n) = x \o <<"header">>
                                                      /\ n.tls /\ n.net = "v2ray" => x \in SafeLayers
           /\ n.kind = "vmess" =>
                \E x \in SafeLayers \cup OpenLayers : /\ O!VmessLayers(n) = x \o <<"header">>
                                                      /\ n.tls => x \in SafeLayers
           /\ \E x \in SafeLayers : O!TrojanLayers(n) = x \o <<"header">>
           /\ O!PlainStream(n) \in {<<"wss">>, <<"gun">>, <<"tls">>}
           /\ O!GunLayer \in {<<"wss">>, <<"gun">>, <<"tls">>}
<1>1. n.tls \in BOOLEAN
  BY NodeKinds
<1>2. ASSUME n.kind = "ss"
      PROVE  \E x \in SafeLayers \cup OpenLayers : /\ O!SSLayers(n) = x \o <<"header">>
                                                   /\ n.tls /\ n.net = "v2ray" => x \in SafeLayers
  <2> DEFINE x == IF n.net = "v2ray" THEN O!WebsocketLayer(n.tls) ELSE <<>>
  <2>1. O!SSLayers(n) = x \o <<"header">>
    BY Zenon DEF O!SSLayers
  <2>2. x \in SafeLayers \cup OpenLayers /\ (n.tls /\ n.net = "v2ray" => x \in SafeLayers)
    BY <1>1 DEF SafeLayers, OpenLayers, O!WebsocketLayer
  <2> HIDE DEF x
  <2>3. QED
    BY <2>1, <2>2
<1>3. ASSUME n.kind = "vmess"
      PROVE  \E x \in SafeLayers \cup OpenLayers : /\ O!VmessLayers(n) = x \o <<"header">>
                                                   /\ n.tls => x \in SafeLayers
  <2> DEFINE x == CASE n.net = "ws" -> O!WebsocketLayer(n.tls)
                    [] n.net = "h2" -> O!H2Layers
                    [] n.net = "grpc" -> O!GunLayer
                    [] OTHER -> O!TLSIf(n.tls)
  <2>1. O!VmessLayers(n) = x \o <<"header">>
    BY DEF O!VmessLayers
  <2>2. n.net \in {"h2", "grpc"} => n.tls
    BY <1>3 DEF O!ParseProxy, O!NewVmess
  <2>3. x \in SafeLayers \cup OpenLayers /\ (n.tls => x \in SafeLayers)
    <3>1. CASE n.net = "ws"
      BY <3>1, <1>1 DEF SafeLayers, OpenLayers, O!WebsocketLayer
    <3>2. CASE n.net = "h2"
      BY <3>2, <2>2 DEF SafeLayers, OpenLayers, O!H2Layers
    <3>3. CASE n.net = "grpc"
      BY <3>3, <2>2 DEF SafeLayers, OpenLayers, O!GunLayer
    <3>4. CASE n.net \notin {"ws", "h2", "grpc"}
      BY <3>4, <1>1 DEF SafeLayers, OpenLayers, O!TLSIf
    <3>5. QED
      BY <3>1, <3>2, <3>3, <3>4
  <2> HIDE DEF x
  <2>4. QED
    BY <2>1, <2>3
<1>4. \E x \in SafeLayers : O!TrojanLayers(n) = x \o <<"header">>
  <2> DEFINE x == IF n.net = "grpc" THEN O!GunLayer ELSE O!PlainStream(n)
  <2>1. O!TrojanLayers(n) = x \o <<"header">>
    BY Zenon DEF O!TrojanLayers
  <2>2. x \in SafeLayers
    BY DEF SafeLayers, O!GunLayer, O!PlainStream, O!WebsocketLayer
  <2> HIDE DEF x
  <2>3. QED
    BY <2>1, <2>2
<1>5. /\ O!PlainStream(n) \in {<<"wss">>, <<"gun">>, <<"tls">>}
      /\ O!GunLayer \in {<<"wss">>, <<"gun">>, <<"tls">>}
  BY DEF O!GunLayer, O!PlainStream, O!WebsocketLayer
<1>6. QED
  BY <1>2, <1>3, <1>4, <1>5

(* The layers of the proxies that speak for themselves.                    *)
LEMMA ProxyLayers ==
    ASSUME NEW tls \in BOOLEAN
    PROVE  /\ <<"dial">> \o (O!TLSIf(tls) \o <<"socks">>) \in SafeProxies \cup OpenProxies
           /\ <<"dial">> \o (O!TLSIf(tls) \o <<"connect">>) \in SafeProxies \cup OpenProxies
           /\ tls => /\ <<"dial">> \o (O!TLSIf(tls) \o <<"socks">>) \in SafeProxies
                     /\ <<"dial">> \o (O!TLSIf(tls) \o <<"connect">>) \in SafeProxies
           /\ (<<"dial">> \o (O!TLSIf(tls) \o <<"socks">>)) \o <<"listen", "bind">>
                = IF tls THEN SafeAssociation ELSE OpenAssociation
<1>1. CASE tls
  <2>1. O!TLSIf(tls) = <<"tls">>
    BY <1>1 DEF O!TLSIf
  <2>2. <<"tls">> \o <<"socks">> = <<"tls", "socks">> /\ <<"tls">> \o <<"connect">> = <<"tls", "connect">>
    BY Glue11, Zenon
  <2>3. /\ <<"dial">> \o <<"tls", "socks">> = <<"dial", "tls", "socks">>
        /\ <<"dial">> \o <<"tls", "connect">> = <<"dial", "tls", "connect">>
    BY Glue12, Zenon
  <2>4. <<"dial", "tls", "socks">> \o <<"listen", "bind">> = <<"dial", "tls", "socks", "listen", "bind">>
    BY Glue32, Zenon
  <2>5. /\ <<"dial">> \o (O!TLSIf(tls) \o <<"socks">>) = <<"dial", "tls", "socks">>
        /\ <<"dial">> \o (O!TLSIf(tls) \o <<"connect">>) = <<"dial", "tls", "connect">>
        /\ (<<"dial">> \o (O!TLSIf(tls) \o <<"socks">>)) \o <<"listen", "bind">>
             = <<"dial", "tls", "socks", "listen", "bind">>
    BY <2>1, <2>2, <2>3, <2>4, Zenon
  <2>6. QED
    BY <1>1, <2>5 DEF SafeProxies, SafeAssociation
<1>2. CASE ~tls
  <2>1. O!TLSIf(tls) = <<>>
    BY <1>2 DEF O!TLSIf
  <2>2. <<>> \o <<"socks">> = <<"socks">> /\ <<>> \o <<"connect">> = <<"connect">>
    BY Glue01, Zenon
  <2>3. /\ <<"dial">> \o <<"socks">> = <<"dial", "socks">>
        /\ <<"dial">> \o <<"connect">> = <<"dial", "connect">>
    BY Glue11, Zenon
  <2>4. <<"dial", "socks">> \o <<"listen", "bind">> = <<"dial", "socks", "listen", "bind">>
    BY Glue22, Zenon
  <2>5. /\ <<"dial">> \o (O!TLSIf(tls) \o <<"socks">>) = <<"dial", "socks">>
        /\ <<"dial">> \o (O!TLSIf(tls) \o <<"connect">>) = <<"dial", "connect">>
        /\ (<<"dial">> \o (O!TLSIf(tls) \o <<"socks">>)) \o <<"listen", "bind">>
             = <<"dial", "socks", "listen", "bind">>
    BY <2>1, <2>2, <2>3, <2>4, Zenon
  <2>6. QED
    BY <1>2, <2>5 DEF OpenProxies, OpenAssociation
<1>3. QED
  BY <1>1, <1>2

(* The other plans are of their own shape.                                 *)
LEMMA PlansDiffer ==
    /\ (SafeProxies \cup OpenProxies) \cap {SafeAssociation, OpenAssociation, Socket} = {}
    /\ Nothing \notin {SafeAssociation, OpenAssociation, Socket}
    /\ Socket \notin {SafeAssociation, OpenAssociation}
<1>1. Nothing \notin {SafeAssociation, OpenAssociation, Socket}
  BY DEF Nothing, Socket, SafeAssociation, OpenAssociation
<1>2. Socket \notin {SafeAssociation, OpenAssociation}
  BY DEF Socket, SafeAssociation, OpenAssociation
<1>3. \A x \in SafeProxies \cup OpenProxies : x[Len(x)] \in {"socks", "connect"}
  <2> DEFINE EndOf(x) == x[Len(x)]
  <2>1. EndOf(<<"dial", "tls", "socks">>) = "socks" /\ EndOf(<<"dial", "tls", "connect">>) = "connect"
    OBVIOUS
  <2>2. EndOf(<<"dial", "socks">>) = "socks" /\ EndOf(<<"dial", "connect">>) = "connect"
    OBVIOUS
  <2> HIDE DEF EndOf
  <2>3. \A x \in SafeProxies \cup OpenProxies : EndOf(x) \in {"socks", "connect"}
    BY <2>1, <2>2 DEF SafeProxies, OpenProxies
  <2>4. QED
    BY <2>3 DEF EndOf
<1>4. SafeAssociation[Len(SafeAssociation)] = "bind" /\ OpenAssociation[Len(OpenAssociation)] = "bind"
      /\ Socket[Len(Socket)] = "server"
  BY DEF Socket, SafeAssociation, OpenAssociation
<1>5. QED
  BY <1>1, <1>2, <1>3, <1>4

LEMMA PlanIs ==
    ASSUME NEW n \in O!AllNodes, O!ParseProxy(n), NEW cmd \in {"tcp", "udp"}, NEW bare \in BOOLEAN
    PROVE  PlanSound(O!PlanOf(n, cmd, bare), n, bare)
<1>1. PICK p : p = O!PlanOf(n, cmd, bare)
  OBVIOUS
<1>2. SUFFICES PlanSound(p, n, bare)
  BY <1>1
<1>3. /\ n.tls \in BOOLEAN /\ n.kind \in {"ss", "ssr", "vmess", "trojan", "socks5", "http", "snell"}
      /\ n.kind = "trojan" => n.tls
      /\ n.kind \in {"ssr", "snell"} => ~n.tls
      /\ n.net = "grpc" => n.kind \in {"vmess", "trojan"}
  BY NodeKinds
<1>4. <<"dial">> \o <<"header">> \in OpenHeaders
  <2>1. <<"dial">> \o <<"header">> = <<"dial", "header">>
    BY Glue11, Zenon
  <2>2. QED
    BY <2>1 DEF OpenHeaders
<1>5. CASE cmd = "tcp" /\ n.kind \in {"ss", "ssr", "vmess", "trojan", "snell"}
  <2>1. CASE n.kind = "ss"
    <3>1. p.steps = <<"dial">> \o O!SSLayers(n)
      BY <1>1, <1>5, <2>1 DEF O!PlanOf, O!SSDial, O!Plan
    <3>2. PICK x \in SafeLayers \cup OpenLayers :
              O!SSLayers(n) = x \o <<"header">> /\ (n.tls /\ n.net = "v2ray" => x \in SafeLayers)
      BY <2>1, LayersAre
    <3>3. p.steps \in SafeHeaders \cup OpenHeaders /\ (n.tls /\ n.net = "v2ray" => p.steps \in SafeHeaders)
      BY <3>1, <3>2, LayersThenHeader
    <3>4. QED
      BY <2>1, <3>3, HeaderSound
  <2>2. CASE n.kind = "vmess"
    <3>1. p.steps = <<"dial">> \o O!VmessLayers(n)
      BY <1>1, <1>5, <2>2 DEF O!PlanOf, O!VmessDial, O!Plan
    <3>2. PICK x \in SafeLayers \cup OpenLayers :
              O!VmessLayers(n) = x \o <<"header">> /\ (n.tls => x \in SafeLayers)
      BY <2>2, LayersAre
    <3>3. p.steps \in SafeHeaders \cup OpenHeaders /\ (n.tls => p.steps \in SafeHeaders)
      BY <3>1, <3>2, LayersThenHeader
    <3>4. QED
      BY <3>3, HeaderSound
  <2>3. CASE n.kind = "trojan"
    <3>1. p.steps = <<"dial">> \o O!TrojanLayers(n)
      BY <1>1, <1>5, <2>3 DEF O!PlanOf, O!TrojanDial, O!Plan
    <3>2. PICK x \in SafeLayers : O!TrojanLayers(n) = x \o <<"header">>
      BY LayersAre
    <3>3. p.steps \in SafeHeaders
      BY <3>1, <3>2, LayersThenHeader
    <3>4. QED
      BY <3>3, HeaderSound
  <2>4. CASE n.kind \in {"ssr", "snell"}
    <3>1. p.steps = <<"dial">> \o <<"header">>
      BY <1>1, <1>5, <2>4 DEF O!PlanOf, O!SSRDial, O!SSRLayers, O!SnellDial, O!SnellLayers, O!Plan
    <3>2. p.steps \in OpenHeaders
      BY <3>1, <1>4
    <3>3. QED
      BY <3>2, <1>3, <2>4, HeaderSound
  <2>5. QED
    BY <1>5, <2>1, <2>2, <2>3, <2>4
<1>6. CASE cmd = "tcp" /\ n.kind \in {"socks5", "http"}
  <2>1. p.steps = <<"dial">> \o (O!TLSIf(n.tls) \o <<"socks">>) \/ p.steps = <<"dial">> \o (O!TLSIf(n.tls) \o <<"connect">>)
    <3>1. CASE n.kind = "socks5"
      BY <1>1, <1>6, <3>1 DEF O!PlanOf, O!Socks5Dial, O!Socks5Layers, O!Plan
    <3>2. CASE n.kind = "http"
      BY <1>1, <1>6, <3>2 DEF O!PlanOf, O!HttpDial, O!HttpLayers, O!ShakeHand, O!Plan
    <3>3. QED
      BY <1>6, <3>1, <3>2
  <2>2. p.steps \in SafeProxies \cup OpenProxies /\ (n.tls => p.steps \in SafeProxies)
    BY <1>3, <2>1, ProxyLayers
  <2>3. p.steps \notin {SafeAssociation, OpenAssociation, Socket}
    BY <2>2, PlansDiffer
  <2>4. ~(n.net = "grpc" \/ (n.kind = "snell" /\ n.net = "v2"))
    BY <1>3, <1>6
  <2>5. QED
    BY <2>2, <2>3, <2>4 DEF PlanSound, ThePlans, SafePlans
<1>7. CASE cmd = "udp" /\ n.kind \in {"ss", "ssr"}
  <2>1. p.steps = Socket /\ p.closed = {"server"}
    BY <1>1, <1>7 DEF O!PlanOf, O!SSListen, O!SSRListen, O!Plan, Socket
  <2>2. ~(n.net = "grpc" \/ (n.kind = "snell" /\ n.net = "v2"))
    BY <1>3, <1>7
  <2>3. QED
    BY <2>1, <2>2, PlansDiffer DEF PlanSound, ThePlans, SafePlans
<1>8. CASE cmd = "udp" /\ n.kind = "vmess"
  <2>1. p.steps = <<"target", "dial">> \o O!VmessLayers(n)
    BY <1>1, <1>8 DEF O!PlanOf, O!VmessListen, O!Plan
  <2>2. PICK x \in SafeLayers \cup OpenLayers :
            O!VmessLayers(n) = x \o <<"header">> /\ (n.tls => x \in SafeLayers)
    BY <1>8, LayersAre
  <2>3. p.steps \in SafeHeaders \cup OpenHeaders /\ (n.tls => p.steps \in SafeHeaders)
    BY <2>1, <2>2, LayersThenHeader
  <2>4. QED
    BY <2>3, HeaderSound
<1>9. CASE cmd = "udp" /\ n.kind = "trojan"
  <2>1. PICK x : x = IF n.net = "grpc" /\ bare THEN O!GunLayer ELSE O!PlainStream(n)
    OBVIOUS
  <2>2. p.steps = (<<"dial">> \o x) \o <<"header">>
    BY <1>1, <1>9, <2>1 DEF O!PlanOf, O!TrojanListen, O!Plan
  <2>3. x \in {<<"wss">>, <<"gun">>, <<"tls">>}
    BY <2>1, LayersAre
  <2>4. p.steps \in SafeHeaders
    BY <2>2, <2>3, LayersThenHeader
  <2>5. QED
    BY <2>4, HeaderSound
<1>10. CASE cmd = "udp" /\ n.kind = "socks5"
  <2>1. p.steps = (<<"dial">> \o (O!TLSIf(n.tls) \o <<"socks">>)) \o <<"listen", "bind">>
    BY <1>1, <1>10 DEF O!PlanOf, O!Socks5Listen, O!Socks5Layers, O!Plan
  <2>2. p.steps = IF n.tls THEN SafeAssociation ELSE OpenAssociation
    BY <2>1, <1>3, ProxyLayers
  <2>3. ~(n.net = "grpc" \/ (n.kind = "snell" /\ n.net = "v2"))
    BY <1>3, <1>10
  <2>4. QED
    BY <1>3, <1>10, <2>2, <2>3, PlansDiffer DEF PlanSound, ThePlans, SafePlans
<1>11. CASE cmd = "udp" /\ n.kind \in {"http", "snell"}
  <2>1. p.steps = Nothing
    BY <1>1, <1>11 DEF O!PlanOf, O!Unsupported, O!Plan, Nothing
  <2>2. QED
    BY <2>1, PlansDiffer DEF PlanSound, ThePlans, SafePlans
<1>12. QED
  BY <1>3, <1>5, <1>6, <1>7, <1>8, <1>9, <1>10, <1>11

(* The steps that are done and those that are left are the plan.           *)
Through(p) ==
    /\ passed \in Seq(StepNames) /\ steps \in Seq(StepNames)
    /\ Len(passed) + Len(steps) = Len(p)
    /\ \A i \in 1..Len(passed) : passed[i] = p[i]
    /\ \A i \in 1..Len(steps) : steps[i] = p[Len(passed) + i]

Passed(step) == \E i \in 1..Len(passed) : passed[i] = step

(* The values of the variables.                                            *)
OutTypes ==
    /\ node \in O!AllNodes /\ O!ParseProxy(node)
    /\ command \in {"tcp", "udp"} /\ plain \in BOOLEAN /\ watch \in BOOLEAN /\ silent \in BOOLEAN
    /\ racer \in [O!Families -> {"idle", "resolve", "dial", "send", "done"}]
    /\ outcome \in [O!Families -> {"none", "unresolved", "undialled", "conn"}]
    /\ sock \in [O!Families -> O!Opened] /\ udp \in O!Opened
    /\ conn \in {"none"} \cup O!Families
    /\ primary \in {"none", "unresolved", "undialled"}
    /\ fallback \in {"none", "unresolved", "undialled"}
    /\ error \in {"none", "ok", "v4", "v6"} \cup StepNames
PlanKept == Through(O!ThePlan.steps)

(* What a racer holds, by where it is.                                     *)
RacerHolds(f) ==
    /\ racer[f] \in {"idle", "resolve", "dial"} => sock[f] = "none" /\ outcome[f] = "none"
    /\ racer[f] = "send" => /\ outcome[f] # "none" /\ sock[f] # "closed"
                            /\ sock[f] = "open" <=> outcome[f] = "conn"
    /\ racer[f] = "done" /\ f # conn => sock[f] # "open"

(* What the loop has received.                                             *)
LoopKnows ==
    /\ conn # "none" => Passed("dial") /\ racer[conn] = "done" /\ sock[conn] # "none"
    /\ primary # "none" => racer["v4"] = "done" /\ primary = outcome["v4"]
    /\ fallback # "none" => racer["v6"] = "done" /\ fallback = outcome["v6"]
    /\ error = "v6" => /\ racer["v4"] = "done" /\ outcome["v4"] = "unresolved"
                       /\ racer["v6"] = "done" /\ outcome["v6"] = "undialled"

(* The packet socket, and who watches the association.                     *)
SocketHeld ==
    /\ udp # "none" => Passed("listen")
    /\ watch => udp # "none" /\ node.kind = "socks5"
    /\ udp = "open" /\ node.kind = "socks5" => watch

(* What the call has come to.                                              *)
Failed == error \notin {"none", "ok"}
SetupErrors == {"tls", "h2", "establish", "socks", "connect", "header", "listen", "bind"}
CallStands ==
    /\ error = "ok" => steps = <<>>
    /\ conn # "none" /\ sock[conn] # "open" => Failed \/ (udp = "closed" /\ node.kind = "socks5")
    /\ Failed /\ conn # "none" /\ sock[conn] = "open" => error \in SetupErrors
    /\ Failed /\ udp = "open" => watch /\ error = "bind"

OutInv ==
    /\ OutTypes /\ PlanKept
    /\ \A f \in O!Families : RacerHolds(f)
    /\ LoopKnows /\ SocketHeld /\ CallStands

(* What the plans are, as the steps need it.                               *)
LEMMA PlanFacts ==
    ASSUME OutTypes
    PROVE  /\ WellMade(O!ThePlan.steps) /\ ListensAs(O!ThePlan.steps)
           /\ PlanSound(O!ThePlan, node, plain)
<1>1. PlanSound(O!ThePlan, node, plain)
  BY PlanIs DEF OutTypes, O!ThePlan
<1>2. O!ThePlan.steps \in ThePlans
  BY <1>1 DEF PlanSound
<1>3. QED
  BY <1>1, <1>2, HeadersAre, OthersAre DEF ThePlans, SafePlans

LEMMA PlanStays ==
    ASSUME UNCHANGED <<node, command, plain>>
    PROVE  O!ThePlan' = O!ThePlan
BY DEF O!ThePlan

(* The head of what is left comes next in the plan, for the first time.    *)
LEMMA NextInPlan ==
    ASSUME NEW p, WellMade(p), Through(p), steps # <<>>
    PROVE  /\ Head(steps) \in StepNames /\ ~Passed(Head(steps))
           /\ Len(passed) \in Nat /\ Len(passed) + 1 \in 1..Len(p) /\ Head(steps) = p[Len(passed) + 1]
           /\ Passed("dial") => Head(steps) \in AfterDial
           /\ Passed("listen") /\ ListensAs(p) =>
                 (Head(steps) = "server" /\ p = Socket)
                   \/ (Head(steps) = "bind" /\ p \in {SafeAssociation, OpenAssociation})
<1>1. Len(passed) \in Nat /\ Len(steps) \in Nat /\ Len(steps) # 0 /\ Head(steps) = steps[1]
      /\ Head(steps) \in StepNames
  BY DEF Through
<1>2. Len(passed) + 1 \in 1..Len(p) /\ steps[1] = p[Len(passed) + 1]
  BY <1>1 DEF Through
<1>3. \A i \in 1..Len(passed) : i \in 1..Len(p) /\ i < Len(passed) + 1 /\ passed[i] = p[i]
  BY <1>1 DEF Through
<1>4. ~Passed(Head(steps))
  BY <1>1, <1>2, <1>3 DEF Passed, WellMade
<1>5. Passed("dial") => Head(steps) \in AfterDial
  BY <1>1, <1>2, <1>3 DEF Passed, WellMade
<1>6. ASSUME Passed("listen"), ListensAs(p)
      PROVE  (Head(steps) = "server" /\ p = Socket)
               \/ (Head(steps) = "bind" /\ p \in {SafeAssociation, OpenAssociation})
  BY <1>1, <1>2, <1>3, <1>6 DEF Passed, ListensAs
<1>7. QED
  BY <1>1, <1>2, <1>4, <1>5, <1>6

(* A step that is done.                                                    *)
LEMMA AdvanceGoesOn ==
    ASSUME NEW p, WellMade(p), Through(p), steps # <<>>, O!Advance
    PROVE  /\ Through(p)'
           /\ \A x \in StepNames : Passed(x)' <=> Passed(x) \/ x = Head(steps)
           /\ error' \in {"none", "ok"} /\ (error' = "ok" => steps' = <<>>)
<1>1. steps' = Tail(steps) /\ passed' = Append(passed, Head(steps))
      /\ error' \in {"none", "ok"} /\ (error' = "ok" => steps' = <<>>)
  BY DEF O!Advance
<1>2. Len(passed) \in Nat /\ Len(steps) \in Nat /\ Len(steps) # 0 /\ Head(steps) = steps[1]
      /\ Head(steps) \in StepNames /\ passed \in Seq(StepNames) /\ steps \in Seq(StepNames)
  BY DEF Through
<1>3. PICK h \in StepNames : h = Head(steps)
  BY <1>2
<1>4. /\ passed' \in Seq(StepNames) /\ Len(passed') = Len(passed) + 1
      /\ \A i \in 1..Len(passed) : passed'[i] = passed[i]
      /\ passed'[Len(passed) + 1] = h
  BY <1>1, <1>2, <1>3
<1>5. /\ steps' \in Seq(StepNames) /\ Len(steps') = Len(steps) - 1
      /\ \A i \in 1..Len(steps') : steps'[i] = steps[i + 1]
  BY <1>1, <1>2
<1>6. h = p[Len(passed) + 1]
  BY <1>3, NextInPlan
<1>7. Through(p)'
  <2>1. Len(passed') + Len(steps') = Len(p)
    <3>1. Len(passed) + Len(steps) = Len(p)
      BY DEF Through
    <3>2. PICK m \in Nat, k \in Nat : m = Len(passed) /\ k = Len(steps)
      BY <1>2
    <3>3. Len(passed') = m + 1 /\ Len(steps') = k - 1
      BY <1>4, <1>5, <3>2
    <3>4. (m + 1) + (k - 1) = m + k
      OBVIOUS
    <3>5. QED
      BY <3>1, <3>2, <3>3, <3>4
  <2>2. \A i \in 1..Len(passed') : passed'[i] = p[i]
    BY <1>2, <1>4, <1>6 DEF Through
  <2>3. \A i \in 1..Len(steps') : steps'[i] = p[Len(passed') + i]
    <3>1. TAKE i \in 1..Len(steps')
    <3>2. i + 1 \in 1..Len(steps) /\ Len(passed) + (i + 1) = Len(passed') + i
      BY <1>2, <1>4, <1>5
    <3>3. steps[i + 1] = p[Len(passed) + (i + 1)]
      BY <3>2 DEF Through
    <3>4. QED
      BY <1>5, <3>2, <3>3
  <2>4. QED
    BY <1>4, <1>5, <2>1, <2>2, <2>3 DEF Through
<1>8. \A x \in StepNames : Passed(x)' <=> Passed(x) \/ x = Head(steps)
  <2>1. TAKE x \in StepNames
  <2>2. ASSUME Passed(x)' PROVE Passed(x) \/ x = h
    BY <2>2, <1>2, <1>4 DEF Passed
  <2>3. ASSUME Passed(x) PROVE Passed(x)'
    BY <2>3, <1>2, <1>4 DEF Passed
  <2>4. ASSUME x = h PROVE Passed(x)'
    BY <2>4, <1>2, <1>4 DEF Passed
  <2>5. QED
    BY <1>3, <2>2, <2>3, <2>4
<1>9. QED
  BY <1>1, <1>7, <1>8

(* The call goes no further in these steps.                                *)
LEMMA PlanWaits ==
    ASSUME PlanKept, UNCHANGED <<node, command, plain, steps, passed>>
    PROVE  PlanKept' /\ \A x : Passed(x)' <=> Passed(x)
<1>1. O!ThePlan' = O!ThePlan
  BY PlanStays
<1>2. QED
  BY <1>1 DEF PlanKept, Through, Passed

LEMMA PlanMoves ==
    ASSUME OutTypes, PlanKept, UNCHANGED <<node, command, plain>>, steps # <<>>, O!Advance
    PROVE  /\ PlanKept'
           /\ \A x \in StepNames : Passed(x)' <=> Passed(x) \/ x = Head(steps)
           /\ error' \in {"none", "ok"} /\ (error' = "ok" => steps' = <<>>)
<1>1. PICK p : p = O!ThePlan.steps
  OBVIOUS
<1>2. O!ThePlan' = O!ThePlan
  BY PlanStays
<1>3. WellMade(p) /\ Through(p)
  BY <1>1, PlanFacts DEF PlanKept
<1>4. /\ Through(p)'
      /\ \A x \in StepNames : Passed(x)' <=> Passed(x) \/ x = Head(steps)
      /\ error' \in {"none", "ok"} /\ (error' = "ok" => steps' = <<>>)
  BY <1>3, AdvanceGoesOn
<1>5. PlanKept'
  BY <1>1, <1>2, <1>4 DEF PlanKept, Through
<1>6. QED
  BY <1>4, <1>5

(* What the head of the plan can be.                                       *)
LEMMA HeadIs ==
    ASSUME OutTypes, PlanKept, steps # <<>>
    PROVE  /\ Head(steps) \in StepNames /\ ~Passed(Head(steps))
           /\ Passed("dial") => Head(steps) \in AfterDial
           /\ Passed("listen") =>
                 (Head(steps) = "server" /\ "server" \in O!ThePlan.closed)
                   \/ (Head(steps) = "bind" /\ node.kind = "socks5")
<1>1. PICK p : p = O!ThePlan.steps
  OBVIOUS
<1>2. WellMade(p) /\ Through(p) /\ ListensAs(p)
  BY <1>1, PlanFacts DEF PlanKept
<1>3. p = Socket => "server" \in O!ThePlan.closed
  BY <1>1, PlanFacts DEF PlanSound
<1>4. p \in {SafeAssociation, OpenAssociation} => node.kind = "socks5"
  BY <1>1, PlanFacts DEF PlanSound
<1>5. QED
  BY <1>2, <1>3, <1>4, NextInPlan

LEMMA StartRacersKeeps == ASSUME OutInv, O!StartRacers PROVE OutInv'
<1> USE DEF OutInv, O!StartRacers, O!callvars
<1>1. PlanKept' /\ \A x : Passed(x)' <=> Passed(x)
  BY PlanWaits
<1>2. OutTypes'
  BY DEF OutTypes, O!ParseProxy, O!Families
<1>3. \A f \in O!Families : RacerHolds(f)'
  BY DEF OutTypes, RacerHolds, O!Families
<1>4. LoopKnows' /\ SocketHeld'
  BY <1>1 DEF OutTypes, LoopKnows, SocketHeld, O!Families
<1>5. CallStands'
  BY DEF CallStands, Failed
<1>6. QED
  BY <1>1, <1>2, <1>3, <1>4, <1>5

LEMMA ResolveKeeps == ASSUME OutInv, NEW f \in O!Families, O!Resolve(f) PROVE OutInv'
<1> USE DEF OutInv, O!Resolve, O!callvars
<1>1. PlanKept' /\ \A x : Passed(x)' <=> Passed(x)
  BY PlanWaits
<1>2. OutTypes'
  BY DEF OutTypes, O!ParseProxy
<1>3. \A g \in O!Families : RacerHolds(g)'
  BY DEF OutTypes, RacerHolds
<1>4. LoopKnows' /\ SocketHeld'
  BY <1>1 DEF OutTypes, LoopKnows, SocketHeld, O!Families
<1>5. CallStands'
  BY DEF CallStands, Failed
<1>6. QED
  BY <1>1, <1>2, <1>3, <1>4, <1>5

LEMMA ConnectKeeps == ASSUME OutInv, NEW f \in O!Families, O!Connect(f) PROVE OutInv'
<1> USE DEF OutInv, O!Connect, O!callvars
<1>1. PlanKept' /\ \A x : Passed(x)' <=> Passed(x)
  BY PlanWaits
<1>2. OutTypes'
  BY DEF OutTypes, O!ParseProxy, O!Opened
<1>3. \A g \in O!Families : RacerHolds(g)'
  BY DEF OutTypes, RacerHolds
<1>4. LoopKnows' /\ SocketHeld'
  BY <1>1 DEF OutTypes, LoopKnows, SocketHeld, O!Families
<1>5. f # conn
  BY DEF LoopKnows, O!Families
<1>6. CallStands'
  BY <1>5 DEF CallStands, Failed, OutTypes
<1>7. QED
  BY <1>1, <1>2, <1>3, <1>4, <1>6

LEMMA TooLateKeeps == ASSUME OutInv, NEW f \in O!Families, O!TooLate(f) PROVE OutInv'
<1> USE DEF OutInv, O!TooLate, O!callvars, O!CloseLate, O!CloseIfOpen
<1>1. PlanKept' /\ \A x : Passed(x)' <=> Passed(x)
  BY PlanWaits
<1>2. OutTypes'
  BY DEF OutTypes, O!ParseProxy, O!Opened
<1>3. \A g \in O!Families : RacerHolds(g)'
  BY DEF OutTypes, RacerHolds
<1>4. f # conn
  BY DEF LoopKnows, O!Families
<1>5. LoopKnows' /\ SocketHeld'
  BY <1>1, <1>4 DEF OutTypes, LoopKnows, SocketHeld, O!Families
<1>6. CallStands'
  BY <1>4 DEF CallStands, Failed, OutTypes
<1>7. QED
  BY <1>1, <1>2, <1>3, <1>5, <1>6

LEMMA ReceiveKeeps == ASSUME OutInv, NEW f \in O!Families, O!Receive(f) PROVE OutInv'
<1> USE DEF OutInv
<1>1. /\ steps # <<>> /\ Head(steps) = "dial" /\ error = "none" /\ racer[f] = "send"
      /\ racer' = [racer EXCEPT ![f] = "done"]
      /\ UNCHANGED <<node, command, plain, outcome, sock, udp, watch, silent>>
  BY DEF O!Receive, O!Now, O!callvars
<1>2. ~Passed("dial") /\ ~Passed("listen") /\ conn = "none" /\ udp = "none" /\ ~watch
  BY <1>1, HeadIs DEF LoopKnows, SocketHeld
<1>3. f \in {"v4", "v6"} /\ "none" \notin O!Families
  BY DEF O!Families
<1>4. CASE outcome[f] = "conn"
  <2>1. conn' = f /\ O!Advance /\ primary' = primary /\ fallback' = fallback
    BY <1>4 DEF O!Receive, O!Won
  <2>2. /\ PlanKept'
        /\ \A x \in StepNames : Passed(x)' <=> Passed(x) \/ x = Head(steps)
        /\ error' \in {"none", "ok"} /\ (error' = "ok" => steps' = <<>>)
    BY <1>1, <2>1, PlanMoves
  <2>3. OutTypes'
    BY <1>1, <2>1, <2>2 DEF OutTypes, O!ParseProxy
  <2>4. \A g \in O!Families : RacerHolds(g)'
    BY <1>1, <1>2, <1>3, <2>1 DEF OutTypes, RacerHolds
  <2>5. sock[f] = "open"
    BY <1>1, <1>4 DEF RacerHolds
  <2>6. Passed("dial")'
    BY <1>1, <2>2 DEF StepNames
  <2>7. LoopKnows'
    BY <1>1, <1>3, <2>1, <2>2, <2>5, <2>6 DEF LoopKnows, OutTypes, O!Families
  <2>8. SocketHeld' /\ CallStands'
    BY <1>1, <1>2, <2>1, <2>2, <2>5 DEF SocketHeld, CallStands, Failed
  <2>9. QED
    BY <2>2, <2>3, <2>4, <2>7, <2>8
<1>5. CASE outcome[f] # "conn"
  <2>1. PICK p0, q0 : /\ p0 = (IF f = "v4" THEN outcome[f] ELSE primary)
                      /\ q0 = (IF f = "v6" THEN outcome[f] ELSE fallback)
    OBVIOUS
  <2>2. /\ primary' = p0 /\ fallback' = q0
        /\ error' = (IF O!BothDone(p0, q0) THEN O!DialError(p0, q0) ELSE "none")
        /\ UNCHANGED <<conn, steps, passed>>
    BY <1>5, <2>1 DEF O!Receive, O!Won
  <2>3. PlanKept' /\ \A x : Passed(x)' <=> Passed(x)
    BY <1>1, <2>2, PlanWaits
  <2>4. outcome[f] \in {"unresolved", "undialled"} /\ sock[f] # "open"
    BY <1>1, <1>5 DEF OutTypes, RacerHolds
  <2>5. p0 \in {"none", "unresolved", "undialled"} /\ q0 \in {"none", "unresolved", "undialled"}
    BY <2>1, <2>4 DEF OutTypes
  <2>6. error' \in {"none", "v4", "v6"} /\ (error' = "v6" => p0 = "unresolved" /\ q0 = "undialled")
    BY <2>2, <2>5 DEF O!BothDone, O!DialError
  <2>7. OutTypes'
    BY <1>1, <2>2, <2>5, <2>6 DEF OutTypes, O!ParseProxy
  <2>8. \A g \in O!Families : RacerHolds(g)'
    BY <1>1, <2>2, <2>4 DEF OutTypes, RacerHolds
  <2>9. /\ p0 # "none" => racer'["v4"] = "done" /\ p0 = outcome["v4"]
        /\ q0 # "none" => racer'["v6"] = "done" /\ q0 = outcome["v6"]
    BY <1>1, <1>3, <2>1 DEF LoopKnows, OutTypes, O!Families
  <2>10. LoopKnows'
    BY <1>1, <1>2, <2>2, <2>6, <2>9 DEF LoopKnows
  <2>11. SocketHeld' /\ CallStands'
    BY <1>1, <1>2, <2>2, <2>6 DEF SocketHeld, CallStands, Failed
  <2>12. QED
    BY <2>3, <2>7, <2>8, <2>10, <2>11
<1>6. QED
  BY <1>4, <1>5

(* The connection comes from the transport or from the pool.               *)
LEMMA ReuseKeeps == ASSUME OutInv, O!Reuse PROVE OutInv'
<1> USE DEF OutInv
<1>1. /\ steps # <<>> /\ Head(steps) = "dial" /\ error = "none" /\ O!Shared
      /\ racer = [f \in O!Families |-> "idle"]
      /\ passed' = passed \o SubSeq(steps, 1, Len(steps) - 1) /\ steps' = <<"header">>
      /\ UNCHANGED <<node, command, plain, racer, outcome, sock, primary, fallback, conn, udp, watch,
                     silent, error>>
  BY DEF O!Reuse, O!Now, O!callvars, O!racevars
<1>2. PICK p : p = O!ThePlan.steps
  OBVIOUS
<1>3. O!ThePlan' = O!ThePlan
  BY <1>1, PlanStays
<1>4. Through(p) /\ WellMade(p) /\ ListensAs(p)
  BY <1>2, PlanFacts DEF PlanKept
<1>5. p \in SafeHeaders \cup OpenHeaders \cup {Nothing}
  BY <1>1, <1>2, PlanFacts DEF PlanSound, O!Shared
<1>6. PICK m \in Nat, k \in Nat : m = Len(passed) /\ k = Len(steps) /\ k # 0 /\ m + k = Len(p)
  <2>1. Len(passed) \in Nat /\ Len(steps) \in Nat /\ Len(passed) + Len(steps) = Len(p)
    BY <1>4 DEF Through
  <2>2. Len(steps) # 0
    <3>1. steps \in Seq(StepNames) /\ steps # <<>>
      BY <1>1, <1>4 DEF Through
    <3>2. QED
      BY <3>1
  <2>3. QED
    BY <2>1, <2>2
<1>7. p # Nothing
  <2>1. Head(steps) = p[m + 1] /\ m + 1 \in 1..Len(p)
    BY <1>1, <1>4, <1>6, NextInPlan
  <2>2. Len(Nothing) = 1 /\ Nothing[1] # "dial"
    BY DEF Nothing
  <2>3. ASSUME p = Nothing PROVE FALSE
    BY <1>1, <1>6, <2>1, <2>2, <2>3
  <2>4. QED
    BY <2>3
<1>8. p[Len(p)] = "header"
  BY <1>5, <1>7, HeadersAre DEF EndsInHeader
<1>9. PICK t : t = SubSeq(steps, 1, k - 1)
  OBVIOUS
<1>10. t \in Seq(StepNames) /\ Len(t) = k - 1 /\ \A i \in 1..k - 1 : t[i] = steps[i]
  BY <1>4, <1>6, <1>9 DEF Through
<1>11. passed' = passed \o t
  BY <1>1, <1>6, <1>9
<1>12. passed \in Seq(StepNames)
  BY <1>4 DEF Through
<1>13. /\ passed' \in Seq(StepNames) /\ Len(passed') = m + (k - 1)
       /\ \A i \in 1..m + (k - 1) : passed'[i] = IF i <= m THEN passed[i] ELSE t[i - m]
  <2>1. PICK g, c : g = passed /\ c = g \o t
    OBVIOUS
  <2>2. c \in Seq(StepNames) /\ Len(c) = Len(g) + Len(t)
        /\ \A i \in 1..Len(g) + Len(t) : c[i] = IF i <= Len(g) THEN g[i] ELSE t[i - Len(g)]
    BY <1>10, <1>12, <2>1, ConcatProperties
  <2>3. passed' = c /\ Len(g) = m
    BY <1>6, <1>11, <2>1
  <2>4. QED
    BY <1>10, <2>1, <2>2, <2>3
<1>14. \A i \in 1..Len(passed') : passed'[i] = p[i]
  <2>1. TAKE i \in 1..Len(passed')
  <2>2. CASE i <= m
    BY <1>4, <1>6, <1>13, <2>2 DEF Through
  <2>3. CASE ~(i <= m)
    <3>1. i - m \in 1..k - 1 /\ m + (i - m) = i
      BY <1>6, <1>13, <2>3
    <3>2. i - m \in 1..k
      BY <1>6, <3>1
    <3>3. steps[i - m] = p[m + (i - m)]
      BY <1>4, <1>6, <3>2 DEF Through
    <3>4. QED
      BY <1>10, <1>13, <2>3, <3>1, <3>3
  <2>4. QED
    BY <2>2, <2>3
<1>15. /\ steps' \in Seq(StepNames) /\ Len(steps') = 1 /\ steps'[1] = "header"
  BY <1>1 DEF StepNames
<1>16. Len(passed') + Len(steps') = Len(p) /\ Len(passed') + 1 = Len(p)
  BY <1>6, <1>13, <1>15
<1>17. Through(p)'
  BY <1>8, <1>13, <1>14, <1>15, <1>16 DEF Through
<1>18. PlanKept'
  BY <1>2, <1>3, <1>17 DEF PlanKept, Through
<1>19. ~Passed("dial") /\ conn = "none" /\ ~Passed("listen") /\ udp = "none" /\ ~watch
  BY <1>1, HeadIs DEF LoopKnows, SocketHeld
<1>20. OutTypes'
  BY <1>1 DEF OutTypes, O!ParseProxy
<1>21. \A f \in O!Families : RacerHolds(f)'
  BY <1>1 DEF RacerHolds
<1>22. LoopKnows' /\ SocketHeld' /\ CallStands'
  BY <1>1, <1>19 DEF LoopKnows, SocketHeld, CallStands, Failed
<1>23. QED
  BY <1>18, <1>20, <1>21, <1>22

LEMMA StepDoneKeeps == ASSUME OutInv, steps # <<>>, O!StepDone(Head(steps)) PROVE OutInv'
<1> USE DEF OutInv
<1>1. PICK h : h = Head(steps)
  OBVIOUS
<1>2. /\ h # "dial" /\ error = "none" /\ O!Advance
      /\ udp' = (IF h = "listen" THEN "open" ELSE udp)
      /\ watch' = (watch \/ (h = "listen" /\ node.kind = "socks5"))
      /\ UNCHANGED <<node, command, plain, racer, outcome, sock, primary, fallback, conn, silent>>
  BY <1>1 DEF O!StepDone, O!Now, O!callvars, O!racevars
<1>3. /\ PlanKept'
      /\ \A x \in StepNames : Passed(x)' <=> Passed(x) \/ x = h
      /\ error' \in {"none", "ok"} /\ (error' = "ok" => steps' = <<>>)
  BY <1>1, <1>2, PlanMoves
<1>4. h \in StepNames /\ ~Passed(h)
  BY <1>1, HeadIs
<1>5. {"dial", "listen"} \subseteq StepNames
  BY DEF StepNames
<1>6. watch' \in BOOLEAN
  BY <1>2 DEF OutTypes
<1>7. OutTypes'
  BY <1>2, <1>3, <1>6 DEF OutTypes, O!ParseProxy, O!Opened
<1>8. \A f \in O!Families : RacerHolds(f)'
  BY <1>2 DEF RacerHolds
<1>9. LoopKnows'
  BY <1>2, <1>3, <1>5 DEF LoopKnows
<1>10. h = "listen" => udp = "none"
  BY <1>4 DEF SocketHeld
<1>11. SocketHeld'
  <2>1. CASE h = "listen"
    <3>1. Passed("listen")' /\ udp' = "open"
      BY <1>2, <1>3, <1>5, <2>1
    <3>2. ~watch
      BY <1>10, <2>1 DEF SocketHeld
    <3>3. watch' <=> node'.kind = "socks5"
      BY <1>2, <2>1, <3>2
    <3>4. QED
      BY <3>1, <3>3 DEF SocketHeld
  <2>2. CASE h # "listen"
    <3>1. watch' <=> watch
      BY <1>2, <2>2
    <3>2. QED
      BY <1>2, <1>3, <1>5, <2>2, <3>1 DEF SocketHeld
  <2>3. QED
    BY <2>1, <2>2
<1>12. CallStands'
  BY <1>2, <1>3, <1>10 DEF CallStands, Failed
<1>13. QED
  BY <1>3, <1>7, <1>8, <1>9, <1>11, <1>12

LEMMA StepFailsKeeps == ASSUME OutInv, steps # <<>>, O!StepFails(Head(steps)) PROVE OutInv'
<1> USE DEF OutInv
<1>1. PICK h, closes : /\ h = Head(steps)
                       /\ closes = (O!ClosesItself(h) \/ h \in O!ThePlan.closed)
  OBVIOUS
<1>2. /\ h # "dial" /\ error = "none" /\ error' = h
      /\ sock' = (IF closes /\ conn # "none" THEN [sock EXCEPT ![conn] = "closed"] ELSE sock)
      /\ udp' = (IF closes THEN O!CloseIfOpen(udp) ELSE udp)
      /\ UNCHANGED <<node, command, plain, steps, passed, racer, outcome, conn, primary, fallback,
                     watch, silent>>
  BY <1>1 DEF O!StepFails, O!Fails, O!Now, O!callvars
<1>3. PlanKept' /\ \A x : Passed(x)' <=> Passed(x)
  BY <1>2, PlanWaits
<1>4. /\ h \in StepNames
      /\ Passed("dial") => h \in AfterDial
      /\ Passed("listen") => (h = "server" /\ "server" \in O!ThePlan.closed)
                               \/ (h = "bind" /\ node.kind = "socks5")
  BY <1>1, HeadIs
<1>5. h \notin {"none", "ok", "v4", "v6"}
  BY <1>4 DEF StepNames
<1>6. OutTypes'
  BY <1>2, <1>4 DEF OutTypes, O!ParseProxy, O!Opened, O!CloseIfOpen
<1>7. \A f \in O!Families : RacerHolds(f)'
  BY <1>2 DEF RacerHolds, LoopKnows, OutTypes
<1>8. LoopKnows'
  BY <1>2, <1>3, <1>5 DEF LoopKnows, OutTypes
<1>9. SocketHeld'
  BY <1>2, <1>3 DEF SocketHeld, O!CloseIfOpen
<1>10. CallStands'
  <2>1. error' \notin {"none", "ok"}
    BY <1>2, <1>5
  <2>2. ASSUME conn' # "none", sock'[conn'] = "open" PROVE error' \in SetupErrors
    <3>1. ~closes
      BY <1>2, <2>2 DEF OutTypes
    <3>2. h \notin {"ws", "wss", "gun"}
      BY <1>1, <3>1 DEF O!ClosesItself
    <3>3. h \in AfterDial
      BY <1>2, <1>4, <2>2 DEF LoopKnows
    <3>4. QED
      BY <1>2, <3>2, <3>3 DEF AfterDial, SetupErrors
  <2>3. ASSUME udp' = "open" PROVE watch' /\ error' = "bind"
    <3>1. ~closes /\ udp = "open"
      BY <1>2, <2>3 DEF O!CloseIfOpen
    <3>2. h # "server" \/ "server" \notin O!ThePlan.closed
      BY <1>1, <3>1
    <3>3. h = "bind" /\ node.kind = "socks5"
      BY <1>4, <3>1, <3>2 DEF SocketHeld
    <3>4. QED
      BY <1>2, <3>1, <3>3 DEF SocketHeld
  <2>4. QED
    BY <2>1, <2>2, <2>3 DEF CallStands, Failed
<1>11. QED
  BY <1>3, <1>6, <1>7, <1>8, <1>9, <1>10

LEMMA FallSilentKeeps == ASSUME OutInv, O!FallSilent PROVE OutInv'
<1> USE DEF OutInv, O!FallSilent, O!callvars, O!racevars
<1>1. PlanKept' /\ \A x : Passed(x)' <=> Passed(x)
  BY PlanWaits
<1>2. OutTypes'
  BY DEF OutTypes, O!ParseProxy
<1>3. \A f \in O!Families : RacerHolds(f)'
  BY DEF RacerHolds
<1>4. LoopKnows' /\ SocketHeld' /\ CallStands'
  BY <1>1 DEF LoopKnows, SocketHeld, CallStands, Failed
<1>5. QED
  BY <1>1, <1>2, <1>3, <1>4

LEMMA WatchEndsKeeps == ASSUME OutInv, O!WatchEnds PROVE OutInv'
<1> USE DEF OutInv, O!WatchEnds, O!callvars, O!CloseIfOpen
<1>1. PlanKept' /\ \A x : Passed(x)' <=> Passed(x)
  BY PlanWaits
<1>2. OutTypes'
  BY DEF OutTypes, O!ParseProxy, O!Opened
<1>3. \A f \in O!Families : RacerHolds(f)'
  <2>1. TAKE f \in O!Families
  <2>2. CASE f = conn
    <3>1. f # "none"
      BY DEF O!Families
    <3>2. racer[f] = "done"
      BY <2>2, <3>1 DEF LoopKnows
    <3>3. QED
      BY <2>2, <3>2 DEF RacerHolds
  <2>3. CASE f # conn
    BY <2>3 DEF OutTypes, RacerHolds
  <2>4. QED
    BY <2>2, <2>3
<1>4. udp' = "closed" /\ node.kind = "socks5"
  BY DEF SocketHeld, OutTypes, O!Opened
<1>5. LoopKnows' /\ SocketHeld'
  BY <1>1, <1>4 DEF LoopKnows, SocketHeld, OutTypes
<1>6. CallStands'
  BY <1>4 DEF CallStands, Failed, OutTypes
<1>7. QED
  BY <1>1, <1>2, <1>3, <1>5, <1>6

(* The first state of a call.                                              *)
LEMMA OutStarts == O!Init => OutInv
<1> SUFFICES ASSUME O!Init PROVE OutInv
  OBVIOUS
<1> USE DEF O!Init
<1>1. OutTypes
  BY DEF OutTypes, O!Families, O!Opened
<1>2. PlanKept
  BY <1>1, PlanFacts DEF PlanKept, Through, WellMade
<1>3. \A f \in O!Families : RacerHolds(f)
  BY DEF RacerHolds
<1>4. LoopKnows /\ SocketHeld /\ CallStands
  BY DEF LoopKnows, SocketHeld, CallStands, Failed
<1>5. QED
  BY <1>1, <1>2, <1>3, <1>4 DEF OutInv

LEMMA OutGoesOn == OutInv /\ [O!Next]_(O!vars) => OutInv'
<1> SUFFICES ASSUME OutInv, [O!Next]_(O!vars) PROVE OutInv'
  OBVIOUS
<1>1. ASSUME O!CallStep PROVE OutInv'
  BY <1>1, StepDoneKeeps, StepFailsKeeps DEF O!CallStep
<1>2. ASSUME NEW f \in O!Families, O!RacerStep(f) PROVE OutInv'
  BY <1>2, ResolveKeeps, ConnectKeeps, ReceiveKeeps, TooLateKeeps DEF O!RacerStep
<1>3. ASSUME UNCHANGED O!vars PROVE OutInv'
  <2> USE <1>3 DEF OutInv, O!vars
  <2>1. PlanKept' /\ \A x : Passed(x)' <=> Passed(x)
    BY PlanWaits
  <2>2. OutTypes'
    BY DEF OutTypes, O!ParseProxy
  <2>3. \A f \in O!Families : RacerHolds(f)'
    BY DEF RacerHolds
  <2>4. LoopKnows' /\ SocketHeld' /\ CallStands'
    BY <2>1 DEF LoopKnows, SocketHeld, CallStands, Failed
  <2>5. QED
    BY <2>1, <2>2, <2>3, <2>4
<1>4. QED
  BY <1>1, <1>2, <1>3, StartRacersKeeps, ReuseKeeps, FallSilentKeeps, WatchEndsKeeps DEF O!Next

(* What the invariant says of the properties.                              *)
LEMMA OutTyped == OutInv => O!TypeOK
<1> SUFFICES ASSUME OutInv PROVE O!TypeOK
  OBVIOUS
<1> USE DEF OutInv
<1>1. passed \o steps = O!ThePlan.steps
  <2>1. PICK p : p = O!ThePlan.steps
    OBVIOUS
  <2>2. Through(p) /\ WellMade(p)
    BY <2>1, PlanFacts DEF PlanKept
  <2>3. passed \o steps = p
    BY <2>2, Glued DEF Through, WellMade
  <2>4. QED
    BY <2>1, <2>3
<1>2. conn # "none" => sock[conn] # "none" /\ "dial" \in {passed[i] : i \in 1..Len(passed)}
  BY DEF LoopKnows, Passed
<1>3. QED
  BY <1>1, <1>2 DEF OutTypes, O!TypeOK

LEMMA OutSockets == OutInv => O!LosersClosed /\ O!OnlySetupLeaks
BY DEF OutInv, RacerHolds, CallStands, Failed, SetupErrors, O!LosersClosed, O!OnlySetupLeaks

LEMMA OutTruth == OutInv => O!SuccessIsUsable /\ O!SecretUnderTLS /\ O!RightError
<1> SUFFICES ASSUME OutInv PROVE O!SuccessIsUsable /\ O!SecretUnderTLS /\ O!RightError
  OBVIOUS
<1> USE DEF OutInv
<1>1. PICK p : p = O!ThePlan.steps
  OBVIOUS
<1>2. Through(p) /\ WellMade(p)
  BY <1>1, PlanFacts DEF PlanKept
<1>3. O!SuccessIsUsable
  <2> SUFFICES ASSUME error = "ok"
               PROVE  /\ passed = O!ThePlan.steps
                      /\ conn # "none" => sock[conn] = "open" \/ (udp = "closed" /\ node.kind = "socks5")
    BY DEF O!SuccessIsUsable
  <2>1. steps = <<>>
    BY DEF CallStands
  <2>2. Len(steps) = 0 /\ Len(passed) \in Nat
    BY <1>2, <2>1 DEF Through
  <2>3. passed = p
    BY <1>2, <2>2 DEF Through, WellMade
  <2>4. QED
    BY <1>1, <2>3 DEF CallStands, Failed
<1>4. O!SecretUnderTLS
  <2> SUFFICES ASSUME NEW i \in 1..Len(passed), passed[i] \in {"header", "socks", "connect"}, node.tls,
                      node.kind = "ss" => node.net = "v2ray"
               PROVE  \E j \in 1..(i - 1) : passed[j] \in {"tls", "wss", "gun"}
    BY DEF O!SecretUnderTLS
  <2>1. p \in SafePlans
    BY <1>1, PlanFacts DEF PlanSound
  <2>2. Guarded(p)
    BY <2>1, HeadersAre, OthersAre DEF SafePlans
  <2>3. i \in 1..Len(p) /\ passed[i] = p[i] /\ Len(passed) \in Nat
    BY <1>2 DEF Through
  <2>4. PICK j \in 1..(i - 1) : p[j] \in {"tls", "wss", "gun"}
    BY <2>2, <2>3 DEF Guarded
  <2>5. j \in 1..Len(passed)
    BY <2>3, <2>4
  <2>6. passed[j] = p[j]
    BY <1>2, <2>5 DEF Through
  <2>7. QED
    BY <2>4, <2>6
<1>5. O!RightError
  BY DEF LoopKnows, O!RightError
<1>6. QED
  BY <1>3, <1>4, <1>5

(* Of every call of every adapter the state is well typed, the connection  *)
(* in hand was opened by the race, and what is done and what is left make  *)
(* the plan.                                                               *)
THEOREM OutboundTypeCorrect == O!Spec => []O!TypeOK
<1>1. OutInv => O!TypeOK
  BY OutTyped
<1>2. QED
  BY <1>1, OutStarts, OutGoesOn, PTL DEF O!Spec

(* Whatever the order of the answers and wherever a layer fails, no loser  *)
(* of the race stays open and what a failed set-up leaves open is known.   *)
THEOREM SocketsOfACall == O!Spec => [](O!LosersClosed /\ O!OnlySetupLeaks)
<1>1. OutInv => O!LosersClosed /\ O!OnlySetupLeaks
  BY OutSockets
<1>2. QED
  BY <1>1, OutStarts, OutGoesOn, PTL DEF O!Spec

(* What a call returns is open under every layer of the node, a secret     *)
(* goes out only under the TLS the node asks for, and the second family's  *)
(* error is reported only when it got further.                             *)
THEOREM TruthOfACall == O!Spec => [](O!SuccessIsUsable /\ O!SecretUnderTLS /\ O!RightError)
<1>1. OutInv => O!SuccessIsUsable /\ O!SecretUnderTLS /\ O!RightError
  BY OutTruth
<1>2. QED
  BY <1>1, OutStarts, OutGoesOn, PTL DEF O!Spec


-----------------------------------------------------------------------------
(* Handshake.                                                              *)

(* The data of the first n Writes.                                         *)
LEMMA NumbersAre ==
    ASSUME NEW n \in Nat
    PROVE  /\ H!Numbers(n) \in Seq(Nat) /\ Len(H!Numbers(n)) = n
           /\ \A i \in 1..n : H!Numbers(n)[i] = i
BY DEF H!Numbers

LEMMA NumbersOfNone == H!Numbers(0) = <<>>
<1>1. Len(H!Numbers(0)) = 0 /\ H!Numbers(0) \in Seq(Nat)
  BY NumbersAre
<1>2. QED
  BY <1>1

LEMMA NumbersNext ==
    ASSUME NEW n \in Nat, n # 0
    PROVE  H!Numbers(n - 1) \o <<n>> = H!Numbers(n)
<1>1. PICK m \in Nat : m = n - 1
  OBVIOUS
<1>2. PICK s, w : s = H!Numbers(m) /\ w = H!Numbers(n)
  OBVIOUS
<1>3. s \in Seq(Nat) /\ Len(s) = m /\ \A i \in 1..m : s[i] = i
  BY <1>2, NumbersAre
<1>4. w \in Seq(Nat) /\ Len(w) = m + 1 /\ \A i \in 1..m + 1 : w[i] = i
  BY <1>1, <1>2, NumbersAre
<1>5. PICK c : c = s \o <<n>>
  OBVIOUS
<1>6. c = Append(s, n)
  BY <1>3, <1>5, AppendIsConcat
<1>7. c \in Seq(Nat) /\ Len(c) = m + 1 /\ (\A i \in 1..m : c[i] = s[i]) /\ c[m + 1] = n
  BY <1>3, <1>6
<1>8. \A i \in 1..m + 1 : c[i] = w[i]
  BY <1>1, <1>3, <1>4, <1>7
<1>9. c = w
  BY <1>4, <1>7, <1>8
<1>10. QED
  BY <1>1, <1>2, <1>5, <1>9

(* The same with what was sent before.                                     *)
LEMMA SentNext ==
    ASSUME NEW n \in Nat, n # 0, NEW s \in Seq(Nat)
    PROVE  (s \o H!Numbers(n - 1)) \o <<n>> = s \o H!Numbers(n)
<1>1. n - 1 \in Nat
  OBVIOUS
<1>2. H!Numbers(n - 1) \in Seq(Nat)
  BY <1>1, NumbersAre
<1>3. <<n>> \in Seq(Nat)
  OBVIOUS
<1>4. (s \o H!Numbers(n - 1)) \o <<n>> = s \o (H!Numbers(n - 1) \o <<n>>)
  BY <1>2, <1>3, ConcatAssociative
<1>5. QED
  BY <1>4, NumbersNext

LEMMA SentAll ==
    ASSUME NEW n \in Nat, H!HandshakeAssumption
    PROVE  <<H!Hello>> \o (<<H!Finished>> \o H!Numbers(n)) = <<H!Hello, H!Finished>> \o H!Numbers(n)
<1>1. H!Hello \in Nat /\ H!Finished \in Nat
  BY DEF H!Hello, H!Finished, H!HandshakeAssumption
<1>2. <<H!Hello>> \in Seq(Nat) /\ <<H!Finished>> \in Seq(Nat) /\ H!Numbers(n) \in Seq(Nat)
  BY <1>1, NumbersAre
<1>3. (<<H!Hello>> \o <<H!Finished>>) \o H!Numbers(n) = <<H!Hello>> \o (<<H!Finished>> \o H!Numbers(n))
  BY <1>2, ConcatAssociative
<1>4. <<H!Hello>> \o <<H!Finished>> = <<H!Hello, H!Finished>>
  BY Glue11, Zenon
<1>5. QED
  BY <1>3, <1>4

(* How many Writes have handed their data over.                            *)
Taken == IF handshakePc["writer"] \in {"begin", "hold", "raw"} THEN written - 1 ELSE written

(* What a call may hold.                                                   *)
HandTypes ==
    /\ H!TypeOK
    /\ \A p \in H!Caller : handshakePc[p] \in {"begin", "hold"} => arg[p] \in Seq(1..Writes)

(* Before the handshake, and while the hello is under way.                 *)
BeforeHello ==
    /\ handshakePc["reader"] = "idle" /\ ~recv /\ held = H!Numbers(Taken)
    /\ handshakePc["writer"] \in {"idle", "begin", "hold", "branch", "hello"}
    /\ \/ status = 0 /\ handshakePc["writer"] # "hello" /\ sentOut = <<>> /\ ~answered
       \/ status = 1 /\ handshakePc["writer"] = "hello" /\ sentOut = <<>> /\ ~answered
       \/ status = 1 /\ handshakePc["writer"] # "hello" /\ sentOut = <<H!Hello>>

(* The Read that finishes it, alone.                                       *)
Finishing ==
    /\ status = 1 /\ recv /\ handshakePc["writer"] = "idle"
    /\ \/ /\ handshakePc["reader"] \in {"begin", "hold", "branch", "drain", "flush"}
          /\ held = H!Numbers(written) /\ arg["reader"] = <<>> /\ sentOut = <<H!Hello>>
       \/ /\ handshakePc["reader"] = "empty" /\ obfs = "random_head"
          /\ held = H!Numbers(written) /\ sentOut = <<H!Hello>> \o H!Numbers(written)
       \/ /\ handshakePc["reader"] = "switch" /\ held = <<>> /\ obfs = "random_head"
          /\ sentOut = <<H!Hello>> \o H!Numbers(written)
       \/ /\ handshakePc["reader"] = "switch" /\ held = <<>> /\ obfs = "tls12"
          /\ sentOut = <<H!Hello>> /\ arg["reader"] = <<H!Finished>> \o H!Numbers(written)

(* The handshake is over: what was kept is about to go out, or has gone.   *)
Over ==
    /\ status = 8 /\ recv /\ held = <<>>
    /\ \/ /\ handshakePc["reader"] = "raw" /\ handshakePc["writer"] = "idle" /\ obfs = "tls12"
          /\ sentOut = <<H!Hello>> /\ arg["reader"] = <<H!Finished>> \o H!Numbers(written)
       \/ /\ handshakePc["reader"] = "idle" /\ handshakePc["writer"] \in {"idle", "begin", "raw"}
          /\ sentOut = H!Opening \o H!Numbers(Taken)

HandAlone ==
    /\ handshakePc["writer"] # "idle" => arg["writer"] = <<written>>
    /\ BeforeHello \/ Finishing \/ Over

HandInv ==
    /\ HandTypes
    /\ handshakePc["writer"] # "idle" => written # 0
    /\ ~overlap => HandAlone

LEMMA Wider == ASSUME NEW X, NEW Y, X \subseteq Y, NEW s \in Seq(X) PROVE s \in Seq(Y)
BY SeqMonotonic

(* The types, whoever takes a step.                                        *)
LEMMA HandTyped ==
    ASSUME H!HandshakeAssumption, HandTypes, handshakePc["writer"] # "idle" => written # 0,
           [H!Next]_(H!vars)
    PROVE  HandTypes' /\ (handshakePc["writer"] # "idle" => written # 0)'
<1> USE DEF HandTypes, H!TypeOK, H!HandshakeAssumption, H!Caller, H!Goto, H!fields, H!Finished
<1>1. Writes \in Nat /\ 1..Writes \subseteq 1..Writes + 1 /\ 1..Writes + 1 \subseteq 0..Writes + 1
  OBVIOUS
<1>2. CASE H!CallWrite
  <2>1. <<written + 1>> \in Seq(1..Writes)
    BY <1>2 DEF H!CallWrite
  <2>2. <<written + 1>> \in Seq(1..Writes + 1)
    BY <1>1, <2>1, Wider
  <2>3. QED
    BY <1>2, <2>1, <2>2 DEF H!CallWrite
<1>3. CASE H!ServerAnswers
  BY <1>3 DEF H!ServerAnswers
<1>4. CASE H!ReadAnswer
  BY <1>4 DEF H!ReadAnswer
<1>5. ASSUME NEW p \in H!Caller, H!TLS12Begin(p)
      PROVE  HandTypes' /\ (handshakePc["writer"] # "idle" => written # 0)'
  BY <1>5 DEF H!TLS12Begin
<1>6. ASSUME NEW p \in H!Caller, H!TLS12Hold(p)
      PROVE  HandTypes' /\ (handshakePc["writer"] # "idle" => written # 0)'
  <2>1. held \o arg[p] \in Seq(1..Writes)
    BY <1>6 DEF H!TLS12Hold
  <2>2. QED
    BY <1>6, <2>1 DEF H!TLS12Hold
<1>7. ASSUME NEW p \in H!Caller, H!TLS12Branch(p)
      PROVE  HandTypes' /\ (handshakePc["writer"] # "idle" => written # 0)'
  BY <1>7 DEF H!TLS12Branch
<1>8. ASSUME NEW p \in H!Caller, H!TLS12Drain(p)
      PROVE  HandTypes' /\ (handshakePc["writer"] # "idle" => written # 0)'
  <2>1. held \in Seq(1..Writes + 1)
    BY <1>1, Wider
  <2>2. <<H!Finished>> \o held \in Seq(1..Writes + 1)
    BY <1>1, <2>1
  <2>3. QED
    BY <1>8, <2>2 DEF H!TLS12Drain
<1>9. ASSUME NEW p \in H!Caller, H!TLS12Switch(p)
      PROVE  HandTypes' /\ (handshakePc["writer"] # "idle" => written # 0)'
  BY <1>9 DEF H!TLS12Switch
<1>10. ASSUME NEW p \in H!Caller, H!RandomHeadBegin(p)
       PROVE  HandTypes' /\ (handshakePc["writer"] # "idle" => written # 0)'
  <2>1. held \o arg[p] \in Seq(1..Writes)
    BY <1>10 DEF H!RandomHeadBegin
  <2>2. QED
    BY <1>10, <2>1 DEF H!RandomHeadBegin
<1>11. ASSUME NEW p \in H!Caller, H!RandomHeadBranch(p)
       PROVE  HandTypes' /\ (handshakePc["writer"] # "idle" => written # 0)'
  BY <1>11 DEF H!RandomHeadBranch
<1>12. ASSUME NEW p \in H!Caller, H!RandomHeadFlush(p)
       PROVE  HandTypes' /\ (handshakePc["writer"] # "idle" => written # 0)'
  <2>1. held \in Seq(0..Writes + 1)
    BY <1>1, Wider
  <2>2. sentOut \o held \in Seq(0..Writes + 1)
    BY <2>1
  <2>3. QED
    BY <1>12, <2>2 DEF H!RandomHeadFlush, H!Sends
<1>13. ASSUME NEW p \in H!Caller, H!RandomHeadEmpty(p)
       PROVE  HandTypes' /\ (handshakePc["writer"] # "idle" => written # 0)'
  BY <1>13 DEF H!RandomHeadEmpty
<1>14. ASSUME NEW p \in H!Caller, H!RandomHeadSwitch(p)
       PROVE  HandTypes' /\ (handshakePc["writer"] # "idle" => written # 0)'
  BY <1>14 DEF H!RandomHeadSwitch
<1>15. ASSUME NEW p \in H!Caller, H!WriteRaw(p)
       PROVE  HandTypes' /\ (handshakePc["writer"] # "idle" => written # 0)'
  <2>1. arg[p] \in Seq(0..Writes + 1)
    BY <1>1, Wider
  <2>2. sentOut \o arg[p] \in Seq(0..Writes + 1)
    BY <2>1
  <2>3. QED
    BY <1>15, <2>2 DEF H!WriteRaw, H!Sends
<1>16. ASSUME NEW p \in H!Caller, H!WriteHello(p)
       PROVE  HandTypes' /\ (handshakePc["writer"] # "idle" => written # 0)'
  <2>1. sentOut \o <<H!Hello>> \in Seq(0..Writes + 1)
    BY <1>1 DEF H!Hello
  <2>2. QED
    BY <1>16, <2>1 DEF H!WriteHello, H!Sends
<1>17. CASE UNCHANGED H!vars
  BY <1>17 DEF H!vars
<1>18. QED
  BY <1>2, <1>3, <1>4, <1>5, <1>6, <1>7, <1>8, <1>9, <1>10, <1>11, <1>12, <1>13, <1>14, <1>15, <1>16, <1>17
     DEF H!Next, H!Step
(* Who is under way while nobody overlaps the Read.                        *)
LEMMA OneCall ==
    ASSUME HandAlone
    PROVE  handshakePc["writer"] = "idle" \/ (handshakePc["reader"] = "idle" /\ ~Finishing)
BY DEF HandAlone, BeforeHello, Finishing, Over

LEMMA Sums ==
    ASSUME HandTypes, H!HandshakeAssumption
    PROVE  /\ written \in Nat /\ held \in Seq(Nat) /\ sentOut \in Seq(Nat)
           /\ held \o <<>> = held /\ <<>> \o <<H!Hello>> = <<H!Hello>>
           /\ H!Numbers(0) = <<>> /\ <<>> \o <<1>> = <<1>>
           /\ written # 0 => /\ H!Numbers(written - 1) \o <<written>> = H!Numbers(written)
                             /\ (H!Opening \o H!Numbers(written - 1)) \o <<written>>
                                  = H!Opening \o H!Numbers(written)
           /\ <<H!Hello>> \o (<<H!Finished>> \o H!Numbers(written)) = <<H!Hello, H!Finished>> \o H!Numbers(written)
<1>1. written \in Nat /\ 1..Writes \subseteq Nat /\ 0..Writes + 1 \subseteq Nat
  BY DEF HandTypes, H!TypeOK, H!HandshakeAssumption
<1>2. held \in Seq(Nat) /\ sentOut \in Seq(Nat)
  <2>1. held \in Seq(1..Writes) /\ sentOut \in Seq(0..Writes + 1)
    BY DEF HandTypes, H!TypeOK, H!Finished
  <2>2. QED
    BY <1>1, <2>1, Wider
<1>3. held \o <<>> = held
  BY <1>2, ConcatEmptySeq
<1>4. <<>> \o <<H!Hello>> = <<H!Hello>> /\ <<>> \o <<1>> = <<1>>
  BY Glue01, Zenon
<1>5. H!Opening \in Seq(Nat)
  BY <1>1 DEF H!Opening, H!Hello, H!Finished, H!HandshakeAssumption
<1>6. ASSUME written # 0
      PROVE  /\ H!Numbers(written - 1) \o <<written>> = H!Numbers(written)
             /\ (H!Opening \o H!Numbers(written - 1)) \o <<written>>
                  = H!Opening \o H!Numbers(written)
  <2>1. PICK w \in Nat : w = written /\ w # 0
    BY <1>1, <1>6
  <2>2. H!Numbers(w - 1) \o <<w>> = H!Numbers(w)
    BY <2>1, NumbersNext
  <2>3. (H!Opening \o H!Numbers(w - 1)) \o <<w>> = H!Opening \o H!Numbers(w)
    BY <1>5, <2>1, SentNext
  <2>4. QED
    BY <2>1, <2>2, <2>3
<1>7. <<H!Hello>> \o (<<H!Finished>> \o H!Numbers(written)) = <<H!Hello, H!Finished>> \o H!Numbers(written)
  BY <1>1, SentAll
<1>8. QED
  BY <1>1, <1>2, <1>3, <1>4, <1>6, <1>7, NumbersOfNone

(* Nobody joins the Read: the calls.                                       *)
LEMMA CallsAlone ==
    ASSUME H!HandshakeAssumption, HandInv, ~overlap',
           H!CallWrite \/ H!ServerAnswers \/ H!ReadAnswer
    PROVE  HandAlone'
<1> USE DEF HandInv, HandTypes, H!TypeOK, H!Caller, H!Goto, H!fields
<1>1. written \in Nat
  BY Sums
<1>2. CASE H!CallWrite
  <2>1. /\ handshakePc["writer"] = "idle" /\ handshakePc["reader"] = "idle" /\ ~overlap
        /\ written' = written + 1 /\ arg'["writer"] = <<written + 1>>
        /\ handshakePc'["writer"] = "begin" /\ handshakePc'["reader"] = "idle"
        /\ UNCHANGED <<obfs, status, recv, held, sentOut, answered>>
    BY <1>2 DEF H!CallWrite
  <2>2. Taken' = Taken
    BY <1>1, <2>1 DEF Taken
  <2>3. BeforeHello \/ Over
    BY <2>1 DEF HandAlone, Finishing
  <2>4. BeforeHello => BeforeHello'
    BY <2>1, <2>2 DEF BeforeHello
  <2>5. Over => Over'
    BY <2>1, <2>2 DEF Over, H!Opening, H!Hello, H!Finished
  <2>6. QED
    BY <2>1, <2>3, <2>4, <2>5 DEF HandAlone
<1>3. CASE H!ServerAnswers
  <2>1. /\ sentOut # <<>> /\ ~overlap
        /\ UNCHANGED <<obfs, status, recv, held, sentOut, handshakePc, arg, written>>
    BY <1>3 DEF H!ServerAnswers
  <2>2. Taken' = Taken
    BY <2>1 DEF Taken
  <2>3. BeforeHello => BeforeHello'
    BY <2>1, <2>2 DEF BeforeHello
  <2>4. (Finishing => Finishing') /\ (Over => Over')
    BY <2>1, <2>2 DEF Finishing, Over, H!Opening, H!Hello, H!Finished
  <2>5. QED
    BY <2>1, <2>3, <2>4 DEF HandAlone
<1>4. CASE H!ReadAnswer
  <2>1. /\ handshakePc["writer"] = "idle" /\ handshakePc["reader"] = "idle" /\ ~overlap
        /\ ~recv /\ answered /\ recv' = TRUE /\ arg'["reader"] = <<>>
        /\ handshakePc'["writer"] = "idle" /\ handshakePc'["reader"] = "begin"
        /\ UNCHANGED <<obfs, status, held, sentOut, answered, written>>
    BY <1>4 DEF H!ReadAnswer
  <2>2. BeforeHello
    BY <2>1 DEF HandAlone, Finishing, Over
  <2>3. status = 1 /\ sentOut = <<H!Hello>> /\ held = H!Numbers(written)
    BY <2>1, <2>2 DEF BeforeHello, Taken
  <2>4. Finishing'
    BY <2>1, <2>3 DEF Finishing, H!Hello
  <2>5. QED
    BY <2>1, <2>4 DEF HandAlone
<1>5. QED
  BY <1>2, <1>3, <1>4

(* What a step of a call is, by where the call is.                         *)
LEMMA StepBy ==
    ASSUME NEW p, H!Step(p)
    PROVE  /\ handshakePc[p] # "idle" /\ UNCHANGED <<obfs, recv, answered, written, overlap>>
           /\ \E l \in {"idle", "hold", "branch", "hello", "drain", "switch", "raw", "flush", "empty"} : H!Goto(p, l)
           /\ handshakePc[p] = "begin" => H!TLS12Begin(p) \/ H!RandomHeadBegin(p)
           /\ handshakePc[p] = "hold" => H!TLS12Hold(p)
           /\ handshakePc[p] = "branch" => H!TLS12Branch(p) \/ H!RandomHeadBranch(p)
           /\ handshakePc[p] = "hello" => H!WriteHello(p)
           /\ handshakePc[p] = "drain" => H!TLS12Drain(p)
           /\ handshakePc[p] = "switch" => H!TLS12Switch(p) \/ H!RandomHeadSwitch(p)
           /\ handshakePc[p] = "raw" => H!WriteRaw(p)
           /\ handshakePc[p] = "flush" => H!RandomHeadFlush(p)
           /\ handshakePc[p] = "empty" => H!RandomHeadEmpty(p)
BY DEF H!Step, H!TLS12Begin, H!TLS12Hold, H!TLS12Branch, H!TLS12Drain, H!TLS12Switch, H!RandomHeadBegin,
       H!RandomHeadBranch, H!RandomHeadFlush, H!RandomHeadEmpty, H!RandomHeadSwitch, H!WriteRaw,
       H!WriteHello, H!fields, H!Goto

(* The steps of the writer's call.                                         *)
LEMMA WriterAlone ==
    ASSUME H!HandshakeAssumption, HandInv, ~overlap, H!Step("writer")
    PROVE  HandAlone'
<1> USE DEF HandInv, HandTypes, H!TypeOK, H!Caller, H!Goto, H!fields, H!Sends
<1>1. written \in Nat
  BY Sums
<1>2. /\ handshakePc["writer"] # "idle" /\ UNCHANGED <<obfs, recv, answered, written>>
      /\ handshakePc' \in [H!Caller -> {"idle", "begin", "hold", "branch", "hello", "drain", "switch",
                                        "raw", "flush", "empty"}]
      /\ handshakePc'["reader"] = handshakePc["reader"]
  BY StepBy
<1>3. /\ written # 0 /\ arg["writer"] = <<written>> /\ (BeforeHello \/ Over)
      /\ handshakePc["reader"] = "idle"
  BY <1>2, OneCall DEF HandAlone, Finishing, BeforeHello, Over
<1>4. arg["writer"] # <<>>
  BY <1>3
<1>5. CASE BeforeHello
  <2> USE <1>5 DEF BeforeHello
  <2>1. handshakePc["writer"] \in {"begin", "hold", "branch", "hello"} /\ status \in {0, 1} /\ ~recv
        /\ held = H!Numbers(Taken) /\ handshakePc["reader"] = "idle"
    BY <1>2
  <2>2. CASE handshakePc["writer"] = "begin"
    <3>1. H!TLS12Begin("writer") \/ H!RandomHeadBegin("writer")
      BY <2>2, StepBy
    <3>2. CASE H!TLS12Begin("writer")
      <4>1. /\ handshakePc'["writer"] = "hold" /\ UNCHANGED <<status, held, sentOut, arg>>
        BY <2>1, <3>2 DEF H!TLS12Begin
      <4>2. Taken' = Taken
        BY <1>2, <2>2, <4>1 DEF Taken
      <4>3. BeforeHello'
        BY <1>2, <2>1, <2>2, <4>1, <4>2 DEF H!Hello
      <4>4. QED
        BY <1>2, <1>3, <4>1, <4>3 DEF HandAlone
    <3>3. CASE H!RandomHeadBegin("writer")
      <4>1. /\ handshakePc'["writer"] = "branch" /\ held' = held \o arg["writer"]
            /\ UNCHANGED <<status, sentOut, arg>>
        BY <2>1, <3>3 DEF H!RandomHeadBegin
      <4>2. Taken = written - 1 /\ Taken' = written
        BY <1>2, <2>2, <4>1 DEF Taken
      <4>3. held' = H!Numbers(Taken')
        BY <1>3, <2>1, <4>1, <4>2, Sums
      <4>4. BeforeHello'
        BY <1>2, <2>1, <2>2, <4>1, <4>3 DEF H!Hello
      <4>5. QED
        BY <1>2, <1>3, <4>1, <4>4 DEF HandAlone
    <3>4. QED
      BY <3>1, <3>2, <3>3
  <2>3. CASE handshakePc["writer"] = "hold"
    <3>1. H!TLS12Hold("writer")
      BY <2>3, StepBy
    <3>2. /\ handshakePc'["writer"] = "branch" /\ held' = held \o arg["writer"]
          /\ UNCHANGED <<status, sentOut, arg>>
      BY <2>1, <3>1 DEF H!TLS12Hold
    <3>3. Taken = written - 1 /\ Taken' = written
      BY <1>2, <2>3, <3>2 DEF Taken
    <3>4. held' = H!Numbers(Taken')
      BY <1>3, <2>1, <3>2, <3>3, Sums
    <3>5. BeforeHello'
      BY <1>2, <2>1, <2>3, <3>2, <3>4 DEF H!Hello
    <3>6. QED
      BY <1>2, <1>3, <3>2, <3>5 DEF HandAlone
  <2>4. CASE handshakePc["writer"] = "branch"
    <3>1. H!TLS12Branch("writer") \/ H!RandomHeadBranch("writer")
      BY <2>4, StepBy
    <3>2. /\ handshakePc'["writer"] = (IF status = 0 THEN "hello" ELSE "idle") /\ status' = 1
          /\ UNCHANGED <<held, sentOut, arg>>
      BY <1>4, <2>1, <3>1 DEF H!TLS12Branch, H!RandomHeadBranch
    <3>3. Taken = written /\ Taken' = written
      BY <1>2, <2>4, <3>2 DEF Taken
    <3>4. BeforeHello'
      BY <1>2, <2>1, <2>4, <3>2, <3>3 DEF H!Hello
    <3>5. QED
      BY <1>2, <1>3, <3>2, <3>4 DEF HandAlone
  <2>5. CASE handshakePc["writer"] = "hello"
    <3>1. H!WriteHello("writer")
      BY <2>5, StepBy
    <3>2. /\ handshakePc'["writer"] = "idle" /\ sentOut' = sentOut \o <<H!Hello>>
          /\ UNCHANGED <<held, status, arg>>
      BY <3>1 DEF H!WriteHello
    <3>3. status = 1 /\ sentOut = <<>>
      BY <2>1, <2>5
    <3>4. sentOut' = <<H!Hello>>
      BY <3>2, <3>3, Sums
    <3>5. Taken = written /\ Taken' = written
      BY <1>2, <2>5, <3>2 DEF Taken
    <3>6. BeforeHello'
      BY <1>2, <2>1, <2>5, <3>2, <3>3, <3>4, <3>5 DEF H!Hello
    <3>7. QED
      BY <1>2, <1>3, <3>2, <3>6 DEF HandAlone
  <2>6. QED
    BY <2>1, <2>2, <2>3, <2>4, <2>5
<1>6. CASE Over
  <2>1. handshakePc["writer"] \in {"begin", "raw"} /\ status = 8 /\ recv /\ held = <<>>
        /\ sentOut = H!Opening \o H!Numbers(written - 1)
    BY <1>2, <1>3, <1>6 DEF Over, Taken
  <2>2. H!Opening' = H!Opening
    BY <1>2 DEF H!Opening, H!Hello, H!Finished
  <2>3. CASE handshakePc["writer"] = "begin"
    <3>1. H!TLS12Begin("writer") \/ H!RandomHeadBegin("writer")
      BY <2>3, StepBy
    <3>2. handshakePc'["writer"] = "raw" /\ UNCHANGED <<status, held, sentOut, arg>>
      BY <2>1, <3>1 DEF H!TLS12Begin, H!RandomHeadBegin
    <3>3. Taken' = written - 1
      BY <1>2, <3>2 DEF Taken
    <3>4. Over'
      BY <1>2, <1>3, <2>1, <2>2, <3>2, <3>3 DEF Over
    <3>5. QED
      BY <1>2, <1>3, <3>2, <3>4 DEF HandAlone
  <2>4. CASE handshakePc["writer"] = "raw"
    <3>1. H!WriteRaw("writer")
      BY <2>4, StepBy
    <3>2. /\ handshakePc'["writer"] = "idle" /\ sentOut' = sentOut \o arg["writer"]
          /\ UNCHANGED <<held, status, arg>>
      BY <3>1 DEF H!WriteRaw
    <3>3. sentOut' = H!Opening \o H!Numbers(written)
      BY <1>3, <2>1, <3>2, Sums
    <3>4. Taken' = written
      BY <1>2, <3>2 DEF Taken
    <3>5. Over'
      BY <1>2, <1>3, <2>1, <2>2, <3>2, <3>3, <3>4 DEF Over
    <3>6. QED
      BY <1>2, <1>3, <3>2, <3>5 DEF HandAlone
  <2>5. QED
    BY <2>1, <2>3, <2>4
<1>7. QED
  BY <1>3, <1>5, <1>6

(* The steps of the call Read makes.                                       *)
LEMMA ReaderAlone ==
    ASSUME H!HandshakeAssumption, HandInv, ~overlap, H!Step("reader")
    PROVE  HandAlone'
<1> USE DEF HandInv, HandTypes, H!TypeOK, H!Caller, H!Goto, H!fields, H!Sends
<1>1. written \in Nat
  BY Sums
<1>2. /\ handshakePc["reader"] # "idle" /\ UNCHANGED <<obfs, recv, answered, written>>
      /\ handshakePc' \in [H!Caller -> {"idle", "begin", "hold", "branch", "hello", "drain", "switch",
                                        "raw", "flush", "empty"}]
      /\ handshakePc'["writer"] = handshakePc["writer"]
  BY StepBy
<1>3. handshakePc["writer"] = "idle" /\ recv /\ (Finishing \/ Over)
  BY <1>2 DEF HandAlone, Finishing, BeforeHello, Over
<1>4. SUFFICES Finishing' \/ Over'
  BY <1>2, <1>3 DEF HandAlone
<1>5. H!Opening' = H!Opening /\ Taken' = written
  BY <1>2, <1>3 DEF H!Opening, H!Hello, H!Finished, Taken
<1>6. CASE Over
  <2>1. /\ handshakePc["reader"] = "raw" /\ obfs = "tls12" /\ status = 8 /\ held = <<>>
        /\ sentOut = <<H!Hello>> /\ arg["reader"] = <<H!Finished>> \o H!Numbers(written)
    BY <1>2, <1>6 DEF Over
  <2>2. H!WriteRaw("reader")
    BY <2>1, StepBy
  <2>3. /\ handshakePc'["reader"] = "idle" /\ sentOut' = sentOut \o arg["reader"]
        /\ UNCHANGED <<held, status>>
    BY <2>2 DEF H!WriteRaw
  <2>4. sentOut' = H!Opening \o H!Numbers(written)
    BY <2>1, <2>3, Sums DEF H!Opening
  <2>5. QED
    BY <1>2, <1>3, <1>5, <2>1, <2>3, <2>4 DEF Over
<1>7. CASE Finishing
  <2>1. handshakePc["reader"] \in {"begin", "hold", "branch", "drain", "flush", "empty", "switch"} /\ status = 1
    BY <1>7 DEF Finishing
  <2>2. CASE handshakePc["reader"] \in {"begin", "hold", "branch"}
    <3>1. held = H!Numbers(written) /\ arg["reader"] = <<>> /\ sentOut = <<H!Hello>>
      BY <1>7, <2>2 DEF Finishing
    <3>2. held \o arg["reader"] = held
      BY <3>1, Sums
    <3>3. \/ H!TLS12Begin("reader") \/ H!RandomHeadBegin("reader") \/ H!TLS12Hold("reader")
          \/ H!TLS12Branch("reader") \/ H!RandomHeadBranch("reader")
      BY <2>2, StepBy
    <3>4. /\ handshakePc'["reader"] \in {"hold", "branch", "drain", "flush"}
          /\ UNCHANGED <<held, status, sentOut, arg>>
      <4>1. CASE H!TLS12Begin("reader")
        BY <2>1, <4>1 DEF H!TLS12Begin
      <4>2. CASE H!RandomHeadBegin("reader")
        BY <2>1, <3>2, <4>2 DEF H!RandomHeadBegin
      <4>3. CASE H!TLS12Hold("reader")
        BY <2>1, <3>2, <4>3 DEF H!TLS12Hold
      <4>4. CASE H!TLS12Branch("reader")
        BY <2>1, <3>1, <4>4 DEF H!TLS12Branch
      <4>5. CASE H!RandomHeadBranch("reader")
        BY <1>3, <2>1, <4>5 DEF H!RandomHeadBranch
      <4>6. QED
        BY <3>3, <4>1, <4>2, <4>3, <4>4, <4>5
    <3>5. QED
      BY <1>2, <1>3, <2>1, <3>1, <3>4 DEF Finishing, H!Hello
  <2>3. CASE handshakePc["reader"] = "drain"
    <3>1. held = H!Numbers(written) /\ sentOut = <<H!Hello>>
      BY <1>7, <2>3 DEF Finishing
    <3>2. H!TLS12Drain("reader")
      BY <2>3, StepBy
    <3>3. /\ handshakePc'["reader"] = "switch" /\ obfs = "tls12" /\ held' = <<>>
          /\ arg'["reader"] = <<H!Finished>> \o held /\ UNCHANGED <<status, sentOut>>
      BY <3>2 DEF H!TLS12Drain
    <3>4. arg'["reader"] = <<H!Finished>> \o H!Numbers(written)
      BY <3>1, <3>3
    <3>5. QED
      BY <1>2, <1>3, <2>1, <3>1, <3>3, <3>4 DEF Finishing, H!Hello, H!Finished
  <2>4. CASE handshakePc["reader"] = "flush"
    <3>1. held = H!Numbers(written) /\ sentOut = <<H!Hello>>
      BY <1>7, <2>4 DEF Finishing
    <3>2. H!RandomHeadFlush("reader")
      BY <2>4, StepBy
    <3>3. /\ handshakePc'["reader"] = "empty" /\ obfs = "random_head" /\ sentOut' = sentOut \o held
          /\ UNCHANGED <<status, held>>
      BY <3>2 DEF H!RandomHeadFlush
    <3>4. sentOut' = <<H!Hello>> \o H!Numbers(written)
      BY <3>1, <3>3
    <3>5. QED
      BY <1>2, <1>3, <2>1, <3>1, <3>3, <3>4 DEF Finishing, H!Hello
  <2>5. CASE handshakePc["reader"] = "empty"
    <3>1. sentOut = <<H!Hello>> \o H!Numbers(written) /\ obfs = "random_head"
      BY <1>7, <2>5 DEF Finishing
    <3>2. H!RandomHeadEmpty("reader")
      BY <2>5, StepBy
    <3>3. handshakePc'["reader"] = "switch" /\ held' = <<>> /\ UNCHANGED <<status, sentOut>>
      BY <3>2 DEF H!RandomHeadEmpty
    <3>4. QED
      BY <1>2, <1>3, <2>1, <3>1, <3>3 DEF Finishing, H!Hello
  <2>6. CASE handshakePc["reader"] = "switch" /\ obfs = "random_head"
    <3>1. sentOut = <<H!Hello>> \o H!Numbers(written) /\ held = <<>>
      BY <1>7, <2>6 DEF Finishing
    <3>2. H!RandomHeadSwitch("reader")
      BY <2>6, StepBy DEF H!TLS12Switch
    <3>3. handshakePc'["reader"] = "idle" /\ status' = 8 /\ UNCHANGED <<held, sentOut>>
      BY <3>2 DEF H!RandomHeadSwitch
    <3>4. sentOut = H!Opening \o H!Numbers(written)
      BY <2>6, <3>1 DEF H!Opening
    <3>5. QED
      BY <1>2, <1>3, <1>5, <3>1, <3>3, <3>4 DEF Over
  <2>7. CASE handshakePc["reader"] = "switch" /\ obfs # "random_head"
    <3>1. /\ sentOut = <<H!Hello>> /\ held = <<>> /\ obfs = "tls12"
          /\ arg["reader"] = <<H!Finished>> \o H!Numbers(written)
      BY <1>7, <2>7 DEF Finishing
    <3>2. H!TLS12Switch("reader")
      BY <2>7, StepBy DEF H!RandomHeadSwitch
    <3>3. handshakePc'["reader"] = "raw" /\ status' = 8 /\ UNCHANGED <<held, sentOut, arg>>
      BY <3>2 DEF H!TLS12Switch
    <3>4. QED
      BY <1>2, <1>3, <3>1, <3>3 DEF Over, H!Hello, H!Finished
  <2>8. QED
    BY <2>1, <2>2, <2>3, <2>4, <2>5, <2>6, <2>7
<1>8. QED
  BY <1>3, <1>6, <1>7

LEMMA HandStarts == ASSUME H!HandshakeAssumption PROVE H!Init => HandInv
<1> SUFFICES ASSUME H!Init PROVE HandInv
  OBVIOUS
<1> USE DEF H!Init, H!Caller
<1>1. HandTypes
  <2>1. /\ <<>> \in Seq(1..Writes) /\ <<>> \in Seq(0..H!Finished) /\ <<>> \in Seq(1..H!Finished)
        /\ 0 \in 0..Writes
    BY DEF H!HandshakeAssumption
  <2>2. \A p \in H!Caller : handshakePc[p] = "idle" /\ arg[p] = <<>>
    OBVIOUS
  <2>3. arg \in [H!Caller -> Seq(1..H!Finished)]
    BY <2>1
  <2>4. QED
    BY <2>1, <2>2, <2>3 DEF HandTypes, H!TypeOK
<1>2. HandAlone
  BY NumbersOfNone DEF HandAlone, BeforeHello, Taken
<1>3. QED
  BY <1>1, <1>2 DEF HandInv

LEMMA HandGoesOn == ASSUME H!HandshakeAssumption PROVE HandInv /\ [H!Next]_(H!vars) => HandInv'
<1> SUFFICES ASSUME HandInv, [H!Next]_(H!vars) PROVE HandInv'
  OBVIOUS
<1>1. HandTypes' /\ (handshakePc["writer"] # "idle" => written # 0)'
  BY HandTyped DEF HandInv
<1>2. ASSUME ~overlap' PROVE HandAlone'
  <2>1. CASE H!CallWrite \/ H!ServerAnswers \/ H!ReadAnswer
    BY <1>2, <2>1, CallsAlone
  <2>2. ASSUME NEW p \in H!Caller, H!Step(p) PROVE HandAlone'
    <3>1. overlap' = overlap
      BY <2>2, StepBy
    <3>2. QED
      BY <1>2, <2>2, <3>1, WriterAlone, ReaderAlone DEF H!Caller
  <2>3. CASE UNCHANGED H!vars
    <3> USE <2>3 DEF H!vars, H!fields
    <3>1. HandAlone
      BY <1>2 DEF HandInv
    <3>2. Taken' = Taken
      BY DEF Taken
    <3>3. BeforeHello => BeforeHello'
      BY <3>2 DEF BeforeHello, H!Hello
    <3>4. (Finishing => Finishing') /\ (Over => Over')
      BY <3>2 DEF Finishing, Over, H!Opening, H!Hello, H!Finished
    <3>5. QED
      BY <3>1, <3>3, <3>4 DEF HandAlone
  <2>4. QED
    BY <2>1, <2>2, <2>3 DEF H!Next
<1>3. QED
  BY <1>1, <1>2 DEF HandInv

(* A beginning followed by the numbers, as the property says it.           *)
LEMMA OrderIs ==
    ASSUME NEW n \in Nat, sentOut = H!Opening \o H!Numbers(n), H!HandshakeAssumption
    PROVE  H!InHandshakeOrder
<1>1. PICK o \in Seq(Nat) : o = H!Opening
  <2>1. H!Hello \in Nat /\ H!Finished \in Nat
    BY DEF H!Hello, H!Finished, H!HandshakeAssumption
  <2>2. <<H!Hello, H!Finished>> \in Seq(Nat) /\ <<H!Hello>> \in Seq(Nat)
    BY <2>1
  <2>3. QED
    BY <2>2, Zenon DEF H!Opening
<1>2. PICK s : s = H!Numbers(n)
  OBVIOUS
<1>3. s \in Seq(Nat) /\ Len(s) = n
  BY <1>2, NumbersAre
<1>4. Len(o \o s) - Len(o) = n
  <2>1. PICK c : c = o \o s
    OBVIOUS
  <2>2. PICK k, m : k = Len(o) /\ m = Len(c)
    OBVIOUS
  <2>3. k \in Nat
    BY <1>1, <2>2
  <2>4. Len(c) = Len(o) + Len(s)
    BY <1>1, <1>3, <2>1, ConcatProperties
  <2>5. m = k + n
    BY <1>3, <2>2, <2>4
  <2>6. m - k = n
    BY <2>3, <2>5
  <2>7. QED
    BY <2>1, <2>2, <2>6
<1>5. Len(sentOut) - Len(H!Opening) = n
  BY <1>1, <1>2, <1>4
<1>6. CASE n > 0
  BY <1>5, <1>6 DEF H!InHandshakeOrder
<1>7. CASE n = 0
  <2>1. s = <<>>
    BY <1>2, <1>7, NumbersOfNone
  <2>2. sentOut = o
    BY <1>1, <1>2, <2>1, ConcatEmptySeq
  <2>3. SubSeq(o, 1, Len(o)) = o
    BY SubSeqFull
  <2>4. QED
    BY <1>1, <1>5, <1>7, <2>2, <2>3 DEF H!InHandshakeOrder
<1>8. QED
  BY <1>6, <1>7

LEMMA HandSafe ==
    ASSUME H!HandshakeAssumption
    PROVE  HandInv => H!TypeOK /\ H!InHandshakeOrder /\ H!NothingHeld
<1> SUFFICES ASSUME HandInv PROVE H!TypeOK /\ H!InHandshakeOrder /\ H!NothingHeld
  OBVIOUS
<1>1. H!TypeOK /\ written \in Nat /\ (handshakePc["writer"] # "idle" => written # 0)
  BY Sums DEF HandInv, HandTypes
<1>2. CASE overlap
  BY <1>1, <1>2 DEF H!InHandshakeOrder, H!NothingHeld
<1>3. CASE ~overlap
  <2>1. BeforeHello \/ Finishing \/ Over
    BY <1>3 DEF HandInv, HandAlone
  <2>2. Taken \in Nat
    BY <1>1 DEF Taken
  <2>3. H!InHandshakeOrder
    <3>1. CASE sentOut = <<>>
      <4>1. Len(sentOut) - Len(H!Opening) <= 0 /\ SubSeq(H!Opening, 1, Len(sentOut)) = <<>>
        BY <3>1 DEF H!Opening
      <4>2. QED
        BY <3>1, <4>1 DEF H!InHandshakeOrder, H!Opening
    <3>2. CASE sentOut = <<H!Hello>>
      <4>1. PICK a, b : a = H!Hello /\ b = H!Finished
        OBVIOUS
      <4>2. SubSeq(<<a, b>>, 1, 1) = <<a>> /\ SubSeq(<<a>>, 1, 1) = <<a>>
        <5>1. PICK s, t : s = <<a, b>> /\ t = <<a>>
          OBVIOUS
        <5>2. s \in Seq({a, b}) /\ t \in Seq({a, b}) /\ Len(s) = 2 /\ Len(t) = 1 /\ s[1] = a /\ t[1] = a
          BY <5>1
        <5>3. PICK u, v : u = SubSeq(s, 1, 1) /\ v = SubSeq(t, 1, 1)
          OBVIOUS
        <5>4. u \in Seq({a, b}) /\ v \in Seq({a, b}) /\ Len(u) = 1 /\ Len(v) = 1 /\ u[1] = a /\ v[1] = a
          BY <5>2, <5>3
        <5>5. u = t /\ v = t
          BY <5>2, <5>4
        <5>6. QED
          BY <5>1, <5>3, <5>5
      <4>3. Len(sentOut) = 1 /\ Len(H!Opening) \in {1, 2}
        BY <3>2 DEF H!Opening
      <4>4. SubSeq(H!Opening, 1, 1) = <<H!Hello>>
        BY <4>1, <4>2 DEF H!Opening
      <4>5. QED
        BY <3>2, <4>3, <4>4 DEF H!InHandshakeOrder
    <3>3. CASE obfs = "random_head" /\ sentOut = <<H!Hello>> \o H!Numbers(written)
      BY <1>1, <3>3, OrderIs DEF H!Opening
    <3>4. CASE sentOut = H!Opening \o H!Numbers(Taken)
      BY <2>2, <3>4, OrderIs
    <3>5. QED
      BY <2>1, <3>1, <3>2, <3>3, <3>4 DEF BeforeHello, Finishing, Over
  <2>4. H!NothingHeld
    <3> SUFFICES ASSUME H!Quiet, status = 8 PROVE sentOut = H!Opening \o H!Numbers(written)
      BY DEF H!NothingHeld
    <3>1. handshakePc["writer"] = "idle" /\ handshakePc["reader"] = "idle"
      BY DEF H!Quiet, H!Caller
    <3>2. Taken = written
      BY <3>1 DEF Taken
    <3>3. Over
      BY <2>1 DEF BeforeHello, Finishing
    <3>4. QED
      BY <3>1, <3>2, <3>3 DEF Over
  <2>5. QED
    BY <1>1, <2>3, <2>4
<1>4. QED
  BY <1>2, <1>3

(* For any number of Writes, around the Read that finishes the handshake,  *)
(* the server is sent the handshake and the data in order, and nothing is  *)
(* kept once it is over and quiet, unless a Write overlaps that Read.      *)
THEOREM HandshakeInOrder ==
    ASSUME H!HandshakeAssumption
    PROVE  H!Spec => [](H!TypeOK /\ H!InHandshakeOrder /\ H!NothingHeld)
<1>1. HandInv => H!TypeOK /\ H!InHandshakeOrder /\ H!NothingHeld
  BY HandSafe
<1>2. QED
  BY <1>1, HandStarts, HandGoesOn, PTL DEF H!Spec

-----------------------------------------------------------------------------
(* The composition of MCCarry.                                             *)

carryvars == <<moves, vars, hvars, ovars, svars, uvars, dvars, ivars>>

(* Whichever module moves at the start is the one that moves.              *)
LEMMA SameMoves == ASSUME [CarryNext]_carryvars PROVE moves' = moves
  BY DEF CarryNext, carryvars

LEMMA FramingMoves ==
    ASSUME [CarryNext]_carryvars, moves = "framing" PROVE [Next]_vars
<1>1. CASE CarryNext
  BY <1>1 DEF CarryNext
<1>2. CASE UNCHANGED carryvars
  BY <1>2 DEF carryvars
<1>3. QED
  BY <1>1, <1>2

LEMMA NatMoves ==
    ASSUME [CarryNext]_carryvars, moves = "nat" PROVE [U!Next]_(U!vars)
<1>1. CASE CarryNext
  BY <1>1 DEF CarryNext
<1>2. CASE UNCHANGED carryvars
  BY <1>2 DEF carryvars, uvars, U!vars, U!packetvars, U!connvars
<1>3. QED
  BY <1>1, <1>2

LEMMA SnellMoves ==
    ASSUME [CarryNext]_carryvars, moves = "snell" PROVE [S!Next]_(S!poolvars)
<1>1. CASE CarryNext
  BY <1>1 DEF CarryNext
<1>2. CASE UNCHANGED carryvars
  BY <1>2 DEF carryvars, svars, S!poolvars, S!connvars, S!sessvars
<1>3. QED
  BY <1>1, <1>2

LEMMA DnsMoves ==
    ASSUME [CarryNext]_carryvars, moves = "dns" PROVE [D!Next]_(D!vars)
<1>1. CASE CarryNext
  BY <1>1 DEF CarryNext
<1>2. CASE UNCHANGED carryvars
  BY <1>2 DEF carryvars, dvars, D!vars
<1>3. QED
  BY <1>1, <1>2

LEMMA InboundMoves ==
    ASSUME [CarryNext]_carryvars, moves = "inbound" PROVE [I!INext]_(I!ivars)
<1>1. CASE CarryNext
  BY <1>1 DEF CarryNext
<1>2. CASE UNCHANGED carryvars
  BY <1>2 DEF carryvars, ivars, I!ivars
<1>3. QED
  BY <1>1, <1>2

LEMMA HandshakeMoves ==
    ASSUME [CarryNext]_carryvars, moves = "handshake" PROVE [H!Next]_(H!vars)
<1>1. CASE CarryNext
  BY <1>1 DEF CarryNext
<1>2. CASE UNCHANGED carryvars
  BY <1>2 DEF carryvars, hvars, H!vars, H!fields
<1>3. QED
  BY <1>1, <1>2

LEMMA OutboundMoves ==
    ASSUME [CarryNext]_carryvars, moves = "outbound" PROVE [O!Next]_(O!vars)
<1>1. CASE CarryNext
  BY <1>1 DEF CarryNext
<1>2. CASE UNCHANGED carryvars
  BY <1>2 DEF carryvars, ovars, O!vars
<1>3. QED
  BY <1>1, <1>2

(* The replies of snell sessions that share a connection.                  *)
THEOREM RepliesStayApart == CarrySpec => []RepliesKeptApart
<1>1. S!PoolAssumption
  BY CarryConstants
<1>2. S!Spec => [](S!OneUser /\ S!OwnReply /\ S!WholeReply)
  BY <1>1, ConnectionsHaveOneUser, RepliesAreOwn, PTL
<1>3. CarryInit /\ moves = "snell" => S!Init
  BY DEF CarryInit
<1>4. [CarryNext]_carryvars => ((moves = "snell")' <=> moves = "snell")
  BY SameMoves
<1>5. [CarryNext]_carryvars /\ moves = "snell" => [S!Next]_(S!poolvars)
  BY SnellMoves
<1>6. QED
  BY <1>2, <1>3, <1>4, <1>5, PTL DEF CarrySpec, carryvars, S!Spec, RepliesKeptApart

(* The table of UDP associations.                                          *)
THEOREM AssociationsAreSound == CarrySpec => []AssociationsSound
<1>1. U!NatAssumption
  BY CarryConstants
<1>2. U!Spec => [](U!OneCreator /\ U!OwnConnection /\ U!OpenIsRead /\ U!DeadEntryWasLate)
  BY <1>1, CreatorIsAlone, ConnectionsStayApart, OpenStaysRead, DeadEntriesWereLate, PTL
<1>3. CarryInit /\ moves = "nat" => U!Init
  BY DEF CarryInit
<1>4. [CarryNext]_carryvars => ((moves = "nat")' <=> moves = "nat")
  BY SameMoves
<1>5. [CarryNext]_carryvars /\ moves = "nat" => [U!Next]_(U!vars)
  BY NatMoves
<1>6. QED
  BY <1>2, <1>3, <1>4, <1>5, PTL DEF CarrySpec, carryvars, U!Spec, AssociationsSound

(* The answers to DNS requests.                                            *)
THEOREM AnswersAreSound == CarrySpec => []AnswersSound
<1> DEFINE Moving == moves = "dns"
<1>1. D!DnsAssumption
  BY CarryConstants
<1>2. CarryInit => (Moving => DnsInv)
  BY <1>1, DnsInit DEF CarryInit
<1>3. (Moving => DnsInv) /\ [CarryNext]_carryvars => (Moving => DnsInv)'
  <2> SUFFICES ASSUME Moving => DnsInv, [CarryNext]_carryvars, Moving' PROVE DnsInv'
    OBVIOUS
  <2>1. Moving
    BY SameMoves
  <2>2. [D!Next]_(D!vars)
    BY <2>1, DnsMoves
  <2>3. QED
    BY <1>1, <2>1, <2>2, DnsStep
<1>4. (Moving => DnsInv) => AnswersSound
  BY DnsSafe DEF AnswersSound
<1>5. QED
  BY <1>2, <1>3, <1>4, PTL DEF CarrySpec, carryvars

(* The connections to the listeners.                                       *)
THEOREM InboundAgrees == CarrySpec => []InboundAgreed
<1>1. I!InboundAssumption
  BY CarryConstants
<1>2. I!Spec => [](I!TypeOK /\ I!NobodyElseGetsIn /\ I!BothAgree)
  BY <1>1, NobodyElseIsLetIn
<1>3. CarryInit /\ moves = "inbound" => I!Init
  BY DEF CarryInit
<1>4. [CarryNext]_carryvars => ((moves = "inbound")' <=> moves = "inbound")
  BY SameMoves
<1>5. [CarryNext]_carryvars /\ moves = "inbound" => [I!INext]_(I!ivars)
  BY InboundMoves
<1>6. QED
  BY <1>2, <1>3, <1>4, <1>5, PTL DEF CarrySpec, carryvars, I!Spec, InboundAgreed

(* The sockets of the calls to a node, in the composition.                 *)
THEOREM SocketsAreAccounted == CarrySpec => []SocketsAccounted
<1>1. O!Spec => [](O!LosersClosed /\ O!OnlySetupLeaks)
  BY SocketsOfACall
<1>2. CarryInit /\ moves = "outbound" => O!Init
  BY DEF CarryInit
<1>3. [CarryNext]_carryvars => ((moves = "outbound")' <=> moves = "outbound")
  BY SameMoves
<1>4. [CarryNext]_carryvars /\ moves = "outbound" => [O!Next]_(O!vars)
  BY OutboundMoves
<1>5. QED
  BY <1>1, <1>2, <1>3, <1>4, PTL DEF CarrySpec, carryvars, O!Spec, SocketsAccounted

(* What the calls return, in the composition.                              *)
THEOREM CallsTellTheTruth == CarrySpec => []CallTellsTheTruth
<1>1. O!Spec => [](O!SuccessIsUsable /\ O!SecretUnderTLS /\ O!RightError)
  BY TruthOfACall
<1>2. CarryInit /\ moves = "outbound" => O!Init
  BY DEF CarryInit
<1>3. [CarryNext]_carryvars => ((moves = "outbound")' <=> moves = "outbound")
  BY SameMoves
<1>4. [CarryNext]_carryvars /\ moves = "outbound" => [O!Next]_(O!vars)
  BY OutboundMoves
<1>5. QED
  BY <1>1, <1>2, <1>3, <1>4, PTL DEF CarrySpec, carryvars, O!Spec, CallTellsTheTruth

(* The handshake in Read and the Writes around it, in the composition.     *)
THEOREM HandshakeComesFirst == CarrySpec => []HandshakeFirst
<1>1. H!HandshakeAssumption
  BY CarryConstants
<1>2. H!Spec => [](H!TypeOK /\ H!InHandshakeOrder /\ H!NothingHeld)
  BY <1>1, HandshakeInOrder
<1>3. CarryInit /\ moves = "handshake" => H!Init
  BY DEF CarryInit
<1>4. [CarryNext]_carryvars => ((moves = "handshake")' <=> moves = "handshake")
  BY SameMoves
<1>5. [CarryNext]_carryvars /\ moves = "handshake" => [H!Next]_(H!vars)
  BY HandshakeMoves
<1>6. QED
  BY <1>2, <1>3, <1>4, <1>5, PTL DEF CarrySpec, carryvars, H!Spec, HandshakeFirst

(* The streams of a node, both ways, in the composition.                   *)
THEOREM StreamIsCarried == CarrySpec => []StreamCarried
<1>1. Spec => [](InOrder /\ Complete /\ WritesUnderstood)
  BY FramingAssumption, ReadDelivers, ServerUnderstands, PTL
<1>2. CarryInit /\ moves = "framing" => Init
  BY DEF CarryInit
<1>3. [CarryNext]_carryvars => ((moves = "framing")' <=> moves = "framing")
  BY SameMoves
<1>4. [CarryNext]_carryvars /\ moves = "framing" => [Next]_vars
  BY FramingMoves
<1>5. QED
  BY <1>1, <1>2, <1>3, <1>4, PTL DEF CarrySpec, carryvars, Spec, StreamCarried

(* The variables of the module that moves have their types.                *)
THEOREM CarryTypesHold == CarrySpec => []CarryTypeOK
<1>1. CarrySpec => [](moves = "framing" => TypeOK)
  <2>1. Spec => []TypeOK
    BY FramingAssumption, FramingTypes
  <2>2. CarryInit /\ moves = "framing" => Init
    BY DEF CarryInit
  <2>3. [CarryNext]_carryvars => ((moves = "framing")' <=> moves = "framing")
    BY SameMoves
  <2>4. [CarryNext]_carryvars /\ moves = "framing" => [Next]_vars
    BY FramingMoves
  <2>5. QED
    BY <2>1, <2>2, <2>3, <2>4, PTL DEF CarrySpec, carryvars, Spec
<1>2. CarrySpec => [](moves = "handshake" => H!TypeOK)
  <2>1. H!Spec => []H!TypeOK
    BY CarryConstants, HandshakeInOrder, PTL
  <2>2. CarryInit /\ moves = "handshake" => H!Init
    BY DEF CarryInit
  <2>3. [CarryNext]_carryvars => ((moves = "handshake")' <=> moves = "handshake")
    BY SameMoves
  <2>4. [CarryNext]_carryvars /\ moves = "handshake" => [H!Next]_(H!vars)
    BY HandshakeMoves
  <2>5. QED
    BY <2>1, <2>2, <2>3, <2>4, PTL DEF CarrySpec, carryvars, H!Spec
<1>3. CarrySpec => [](moves = "outbound" => O!TypeOK)
  <2>1. O!Spec => []O!TypeOK
    BY OutboundTypeCorrect
  <2>2. CarryInit /\ moves = "outbound" => O!Init
    BY DEF CarryInit
  <2>3. [CarryNext]_carryvars => ((moves = "outbound")' <=> moves = "outbound")
    BY SameMoves
  <2>4. [CarryNext]_carryvars /\ moves = "outbound" => [O!Next]_(O!vars)
    BY OutboundMoves
  <2>5. QED
    BY <2>1, <2>2, <2>3, <2>4, PTL DEF CarrySpec, carryvars, O!Spec
<1>4. CarrySpec => [](moves = "snell" => S!TypeOK)
  <2>1. S!Spec => []S!TypeOK
    BY CarryConstants, PoolTypeCorrect
  <2>2. CarryInit /\ moves = "snell" => S!Init
    BY DEF CarryInit
  <2>3. [CarryNext]_carryvars => ((moves = "snell")' <=> moves = "snell")
    BY SameMoves
  <2>4. [CarryNext]_carryvars /\ moves = "snell" => [S!Next]_(S!poolvars)
    BY SnellMoves
  <2>5. QED
    BY <2>1, <2>2, <2>3, <2>4, PTL DEF CarrySpec, carryvars, S!Spec
<1>5. CarrySpec => [](moves = "nat" => U!TypeOK)
  <2>1. U!Spec => []U!TypeOK
    BY CarryConstants, TypeCorrect
  <2>2. CarryInit /\ moves = "nat" => U!Init
    BY DEF CarryInit
  <2>3. [CarryNext]_carryvars => ((moves = "nat")' <=> moves = "nat")
    BY SameMoves
  <2>4. [CarryNext]_carryvars /\ moves = "nat" => [U!Next]_(U!vars)
    BY NatMoves
  <2>5. QED
    BY <2>1, <2>2, <2>3, <2>4, PTL DEF CarrySpec, carryvars, U!Spec
<1>6. CarrySpec => [](moves = "inbound" => I!TypeOK)
  <2>1. I!Spec => []I!TypeOK
    BY CarryConstants, NobodyElseIsLetIn, PTL
  <2>2. CarryInit /\ moves = "inbound" => I!Init
    BY DEF CarryInit
  <2>3. [CarryNext]_carryvars => ((moves = "inbound")' <=> moves = "inbound")
    BY SameMoves
  <2>4. [CarryNext]_carryvars /\ moves = "inbound" => [I!INext]_(I!ivars)
    BY InboundMoves
  <2>5. QED
    BY <2>1, <2>2, <2>3, <2>4, PTL DEF CarrySpec, carryvars, I!Spec
<1>7. CarrySpec => [](moves = "dns" => D!TypeOK)
  <2>1. CarryInit => (moves = "dns" => DnsInv)
    BY CarryConstants, DnsInit DEF CarryInit
  <2>2. (moves = "dns" => DnsInv) /\ [CarryNext]_carryvars => (moves = "dns" => DnsInv)'
    <3> SUFFICES ASSUME moves = "dns" => DnsInv, [CarryNext]_carryvars, moves' = "dns" PROVE DnsInv'
      OBVIOUS
    <3>1. moves = "dns"
      BY SameMoves
    <3>2. [D!Next]_(D!vars)
      BY <3>1, DnsMoves
    <3>3. QED
      BY <3>1, <3>2, CarryConstants, DnsStep
  <2>3. (moves = "dns" => DnsInv) => (moves = "dns" => D!TypeOK)
    BY DEF DnsInv
  <2>4. QED
    BY <2>1, <2>2, <2>3, PTL DEF CarrySpec, carryvars
<1>8. CarrySpec => [](moves \in {"framing", "handshake", "outbound", "snell", "nat", "dns", "inbound"})
  <2>1. CarryInit => moves \in {"framing", "handshake", "outbound", "snell", "nat", "dns", "inbound"}
    BY DEF CarryInit
  <2>2. moves \in {"framing", "handshake", "outbound", "snell", "nat", "dns", "inbound"} /\ [CarryNext]_carryvars
        => (moves \in {"framing", "handshake", "outbound", "snell", "nat", "dns", "inbound"})'
    BY SameMoves
  <2>3. QED
    BY <2>1, <2>2, PTL DEF CarrySpec, carryvars
<1>9. ASSUME moves \in {"framing", "handshake", "outbound", "snell", "nat", "dns", "inbound"},
             moves = "framing" => TypeOK, moves = "handshake" => H!TypeOK, moves = "outbound" => O!TypeOK,
             moves = "snell" => S!TypeOK, moves = "nat" => U!TypeOK, moves = "dns" => D!TypeOK,
             moves = "inbound" => I!TypeOK
      PROVE  CarryTypeOK
  <2>1. CASE moves = "framing"
    BY <1>9, <2>1, Zenon DEF CarryTypeOK
  <2>2. CASE moves = "handshake"
    BY <1>9, <2>2, Zenon DEF CarryTypeOK
  <2>3. CASE moves = "outbound"
    BY <1>9, <2>3, Zenon DEF CarryTypeOK
  <2>4. CASE moves = "snell"
    BY <1>9, <2>4, Zenon DEF CarryTypeOK
  <2>5. CASE moves = "nat"
    BY <1>9, <2>5, Zenon DEF CarryTypeOK
  <2>6. CASE moves = "dns"
    BY <1>9, <2>6, Zenon DEF CarryTypeOK
  <2>7. CASE moves = "inbound"
    BY <1>9, <2>7, Zenon DEF CarryTypeOK
  <2>8. QED
    BY <1>9, <2>1, <2>2, <2>3, <2>4, <2>5, <2>6, <2>7
<1>10. QED
  BY <1>1, <1>2, <1>3, <1>4, <1>5, <1>6, <1>7, <1>8, <1>9, PTL
=============================================================================
