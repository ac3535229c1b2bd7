------------------------- MODULE RouteStrategyProofs -------------------------
(* Proofs of the safety properties of RouteStrategy for any number of      *)
(* handlers, refreshes, requests and crashes.                              *)
EXTENDS RouteStrategy, TLAPS

(* The type invariant, for every set of handlers and refreshes: in         *)
(* particular LoadStrategy installs nothing but the two known strategies.  *)
THEOREM TypeCorrect == Spec => []TypeOK
<1> USE DEF Goroutines, Strategies, DefaultStrategy, Contents, NoArg
<1>1. Init => TypeOK
  <2> SUFFICES ASSUME Init PROVE TypeOK
    OBVIOUS
  <2>1. \A g \in Goroutines : pc[g] = "idle" /\ arg[g] = NoArg
    BY DEF Init
  <2>2. pc \in [Goroutines -> {"idle", "set", "opened", "read"}]
        /\ arg \in [Goroutines -> Strategies \cup {NoArg}]
    BY DEF Init
  <2>3. requested \subseteq Strategies /\ lastSaved \in Contents
    BY DEF Init
  <2>4. strategy \in Strategies /\ stateFile \in Contents
    BY DEF Init
  <2>5. cut \in BOOLEAN /\ raced \in BOOLEAN /\ loaded \in BOOLEAN
    BY DEF Init
  <2>6. nRequests \in 0..MaxRequests /\ nCrashes \in 0..MaxCrashes
    BY StrategyAssumption DEF Init
  <2> HIDE DEF Strategies, Contents
  <2>7. QED
    BY <2>1, <2>2, <2>3, <2>4, <2>5, <2>6 DEF TypeOK
<1>2. TypeOK /\ [Next]_vars => TypeOK'
  <2> SUFFICES ASSUME TypeOK, [Next]_vars PROVE TypeOK'
    OBVIOUS
  <2> USE StrategyAssumption DEF TypeOK
  <2>1. ASSUME NEW h \in Setters, NEW s \in Strategies, SetStrategy(h, s)
        PROVE TypeOK'
    BY <2>1 DEF SetStrategy, Goto
  <2>2. ASSUME NEW h \in Setters, SaveTruncate(h) PROVE TypeOK'
    BY <2>2 DEF SaveTruncate, Goto
  <2>3. ASSUME NEW h \in Setters, SaveWrite(h) PROVE TypeOK'
    BY <2>3 DEF SaveWrite, WriteText, Goto, Overwrite
  <2>4. ASSUME NEW h \in Setters, SaveFail(h) PROVE TypeOK'
    BY <2>4 DEF SaveFail
  <2>5. ASSUME NEW r \in Loaders, LoadRead(r) PROVE TypeOK'
    BY <2>5 DEF LoadRead, ReadText
  <2>6. ASSUME NEW r \in Loaders, LoadSet(r) PROVE TypeOK'
    BY <2>6 DEF LoadSet, SetText, Goto
  <2>7. CASE Crash
    <3>1. \A g \in Goroutines : pc'[g] = "idle" /\ arg'[g] = NoArg
      BY <2>7 DEF Crash
    <3>2. pc' \in [Goroutines -> {"idle", "set", "opened", "read"}]
          /\ arg' \in [Goroutines -> Strategies \cup {NoArg}]
      BY <2>7 DEF Crash
    <3>3. nCrashes' \in 0..MaxCrashes /\ cut' \in BOOLEAN
      BY <2>7 DEF Crash
    <3>4. QED
      BY <2>7, <3>1, <3>2, <3>3 DEF Crash
  <2>8. CASE UNCHANGED vars
    BY <2>8 DEF vars, history
  <2>9. QED
    BY <2>1, <2>2, <2>3, <2>4, <2>5, <2>6, <2>7, <2>8 DEF Next, Save, Load
<1>3. QED
  BY <1>1, <1>2, PTL DEF Spec

(* NeverInvented is not inductive: a restart puts the default in force, so *)
(* the default must be among the strategies asked for.                     *)
AskedFor == NeverInvented /\ DefaultStrategy \in requested

(* Whatever the interleaving and wherever the process is killed, no        *)
(* strategy is in force, on disk or about to be installed that was not     *)
(* asked for.                                                              *)
THEOREM NothingInvented == Spec => []NeverInvented
<1> USE DEF Goroutines, Strategies, DefaultStrategy, Contents, NoArg,
            NeverInvented, AskedFor
<1>1. Init => AskedFor
  BY DEF Init
<1>2. TypeOK /\ AskedFor /\ [Next]_vars => AskedFor'
  <2> SUFFICES ASSUME TypeOK, AskedFor, [Next]_vars PROVE AskedFor'
    OBVIOUS
  <2> USE StrategyAssumption DEF TypeOK
  <2>1. ASSUME NEW h \in Setters, NEW s \in Strategies, SetStrategy(h, s)
        PROVE AskedFor'
    BY <2>1 DEF SetStrategy, Goto
  <2>2. ASSUME NEW h \in Setters, SaveTruncate(h) PROVE AskedFor'
    BY <2>2 DEF SaveTruncate, Goto
  <2>3. ASSUME NEW h \in Setters, SaveWrite(h) PROVE AskedFor'
    BY <2>3 DEF SaveWrite, WriteText, Goto, Overwrite
  <2>4. ASSUME NEW h \in Setters, SaveFail(h) PROVE AskedFor'
    BY <2>4 DEF SaveFail
  <2>5. ASSUME NEW r \in Loaders, LoadRead(r) PROVE AskedFor'
    BY <2>5 DEF LoadRead, ReadText
  <2>6. ASSUME NEW r \in Loaders, LoadSet(r) PROVE AskedFor'
    BY <2>6 DEF LoadSet, SetText, Goto
  <2>7. CASE Crash
    <3>1. \A g \in Goroutines : arg'[g] = NoArg
      BY <2>7 DEF Crash
    <3>2. strategy' = DefaultStrategy /\ UNCHANGED <<stateFile, requested>>
      BY <2>7 DEF Crash
    <3>3. QED
      BY <3>1, <3>2
  <2>8. CASE UNCHANGED vars
    BY <2>8 DEF vars, history
  <2>9. QED
    BY <2>1, <2>2, <2>3, <2>4, <2>5, <2>6, <2>7, <2>8 DEF Next, Save, Load
<1>3. QED
  BY <1>1, <1>2, TypeCorrect, PTL DEF Spec, AskedFor

(* What LastSaveWins needs to be inductive: while a write is in progress   *)
(* and no other overlaps it, it is the only one and the file is empty.     *)
OnlyWriter ==
    ~raced => \A h \in Setters : pc[h] = "opened" =>
                 /\ stateFile = "empty"
                 /\ \A g \in Setters : pc[g] = "opened" => g = h

SaveInv == LastSaveWins /\ OnlyWriter

(* For any number of handlers: once all writes are over and none was cut   *)
(* short, the file holds the word of the last one, or, only if writers     *)
(* overlapped, a text that no loader accepts.                              *)
THEOREM LastSaveStays == Spec => []LastSaveWins
<1> USE DEF SaveInv, LastSaveWins, OnlyWriter, Open
<1>1. Init => SaveInv
  BY DEF Init, Goroutines
<1>2. TypeOK /\ SaveInv /\ [Next]_vars => SaveInv'
  <2> SUFFICES ASSUME TypeOK, SaveInv, [Next]_vars PROVE SaveInv'
    OBVIOUS
  <2>0. pc \in [Goroutines -> {"idle", "set", "opened", "read"}]
    BY DEF TypeOK
  <2> USE <2>0, StrategyAssumption DEF Goroutines
  <2>1. ASSUME NEW h \in Setters, NEW s \in Strategies, SetStrategy(h, s)
        PROVE SaveInv'
    BY <2>1 DEF SetStrategy, Goto
  <2>2. ASSUME NEW h \in Setters, SaveTruncate(h) PROVE SaveInv'
    BY <2>2 DEF SaveTruncate, Goto
  <2>3. ASSUME NEW h \in Setters, SaveWrite(h) PROVE SaveInv'
    <3>1. arg[h] \in Strategies
      BY <2>3 DEF SaveWrite, WriteText, Goto, TypeOK
    <3>2. \/ stateFile' = arg[h]
          \/ stateFile' = "mixed" /\ arg[h] = "all_proxy"
      BY <2>3 DEF SaveWrite, WriteText, Overwrite
    <3>3. stateFile = "empty" => stateFile' = arg[h]
      BY <2>3 DEF SaveWrite, WriteText, Overwrite
    <3>4. ~raced => stateFile' = arg[h] /\ Open' = {}
      BY <2>3, <3>3 DEF SaveWrite, WriteText, Goto
    <3>5. QED
      BY <2>3, <3>2, <3>4 DEF SaveWrite, WriteText
  <2>4. ASSUME NEW h \in Setters, SaveFail(h) PROVE SaveInv'
    BY <2>4 DEF SaveFail
  <2>5. ASSUME NEW r \in Loaders, LoadRead(r) PROVE SaveInv'
    BY <2>5 DEF LoadRead, ReadText
  <2>6. ASSUME NEW r \in Loaders, LoadSet(r) PROVE SaveInv'
    BY <2>6 DEF LoadSet, SetText, Goto
  <2>7. CASE Crash
    BY <2>7 DEF Crash
  <2>8. CASE UNCHANGED vars
    BY <2>8 DEF vars, history
  <2>9. QED
    BY <2>1, <2>2, <2>3, <2>4, <2>5, <2>6, <2>7, <2>8 DEF Next, Save, Load
<1>3. QED
  BY <1>1, <1>2, TypeCorrect, PTL DEF Spec, SaveInv
=============================================================================
