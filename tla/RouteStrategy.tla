---------------------------- MODULE RouteStrategy ----------------------------
(***************************************************************************)
(* The routing strategy of proxypoolCheck: one word kept twice, in memory  *)
(* (RuleManager.strategy) and in the file state/strategy.                  *)
(*                                                                         *)
(* Two kinds of goroutine touch both copies.  A Setter is a                *)
(* POST /api/strategy handler: it assigns the memory copy and then         *)
(* rewrites the file.  A Loader is a run of InitApp (at start-up, from the *)
(* cron job, from GET /forceupdate): it reads the file and then assigns    *)
(* the memory copy.  RuleManager.mu protects a single assignment only, so  *)
(* the steps of setters and loaders interleave.  The process may be killed *)
(* at any step; the file survives, memory returns to its initial value.    *)
(***************************************************************************)
EXTENDS Naturals

CONSTANTS
    Setters,      \* POST /api/strategy handlers that may run at the same time
    Loaders,      \* runs of InitApp that may be in LoadStrategy at the same time
    DiskFails,    \* whether opening or writing the file may fail
    MaxRequests,  \* bound: POST requests in a behaviour
    MaxCrashes    \* bound: times the process is killed

ASSUME StrategyAssumption ==
    /\ Setters \cap Loaders = {}
    /\ DiskFails \in BOOLEAN
    /\ MaxRequests \in Nat
    /\ MaxCrashes \in Nat

VARIABLES
    strategy,   \* RuleManager.strategy
    stateFile,  \* content of state/strategy
    pc,         \* where each goroutine is
    arg,        \* req.Strategy of a setter, the text a loader has read
    requested,  \* history: every strategy the file held or a request asked for
    lastSaved,  \* history: the strategy of the last completed write
    cut,        \* history: a writer truncated the file and never wrote
    raced,      \* history: the last writers of the file overlapped
    loaded,     \* history: a LoadStrategy has ended since the process started
    nRequests, nCrashes

history == <<requested, lastSaved, cut, raced, loaded>>
vars == <<strategy, stateFile, pc, arg, history, nRequests, nCrashes>>

Goroutines == Setters \cup Loaders

(* The two words the program accepts.                                      *)
Strategies == {"china_bypass", "all_proxy"}
DefaultStrategy == "china_bypass"

(* What the file can hold besides a strategy: it may not exist, it may     *)
(* have been truncated, and it may hold the text of one writer with the    *)
(* tail of another behind it.                                              *)
Contents == Strategies \cup {"absent", "empty", "mixed"}

NoArg == "none"

(* write(2) at offset 0 of a file that was truncated when this writer      *)
(* opened it: "china_bypass" (12 bytes) covers whatever another writer put *)
(* there meanwhile, "all_proxy" (9 bytes) leaves the tail of a longer text.*)
Overwrite(old, s) ==
    IF s = "all_proxy" /\ old \in {"china_bypass", "mixed"} THEN "mixed" ELSE s

Open == {h \in Setters : pc[h] = "opened"}

Init ==
    /\ strategy = DefaultStrategy
    /\ stateFile \in Contents
    /\ pc = [g \in Goroutines |-> "idle"]
    /\ arg = [g \in Goroutines |-> NoArg]
    /\ requested = {DefaultStrategy} \cup ({stateFile} \cap Strategies)
    /\ lastSaved = IF stateFile = "mixed" THEN "all_proxy" ELSE stateFile
    /\ cut = FALSE
    /\ raced = (stateFile = "mixed")
    /\ loaded = FALSE
    /\ nRequests = 0
    /\ nCrashes = 0

Goto(g, from, to) ==
    /\ pc[g] = from
    /\ pc' = [pc EXCEPT ![g] = to]

-----------------------------------------------------------------------------
(* POST /api/strategy                                                      *)

(* A request with an accepted strategy arrives; others are answered 400    *)
(* before anything is touched.  SetStrategy assigns under rm.mu.           *)
SetStrategy(h, s) ==
    /\ nRequests < MaxRequests
    /\ Goto(h, "idle", "set")
    /\ arg' = [arg EXCEPT ![h] = s]
    /\ strategy' = s
    /\ requested' = requested \cup {s}
    /\ nRequests' = nRequests + 1
    /\ UNCHANGED <<stateFile, lastSaved, cut, raced, loaded, nCrashes>>

(* SaveStrategy: WriteFile opens the file with O_CREATE and O_TRUNC ...    *)
SaveTruncate(h) ==
    /\ Goto(h, "set", "opened")
    /\ stateFile' = "empty"
    /\ cut' = FALSE
    /\ raced' = (Open # {})
    /\ UNCHANGED <<strategy, arg, requested, lastSaved, loaded, nRequests, nCrashes>>

(* ... and writes the word; then the handler answers 200.                  *)
WriteText(h, text) ==
    /\ Goto(h, "opened", "idle")
    /\ stateFile' = Overwrite(stateFile, text)
    /\ lastSaved' = arg[h]
    /\ arg' = [arg EXCEPT ![h] = NoArg]
    /\ UNCHANGED <<strategy, requested, cut, raced, loaded, nRequests, nCrashes>>

WriteCurrent(h) == WriteText(h, strategy)    \* bug: saves GetStrategy()
SaveWrite(h) == WriteText(h, arg[h])

(* SaveStrategy drops the errors of MkdirAll and WriteFile: when the file  *)
(* cannot be opened or written the handler answers 200 just the same.      *)
SaveFail(h) ==
    /\ DiskFails
    /\ pc[h] \in {"set", "opened"}
    /\ pc' = [pc EXCEPT ![h] = "idle"]
    /\ cut' = (cut \/ pc[h] = "opened")
    /\ arg' = [arg EXCEPT ![h] = NoArg]
    /\ UNCHANGED <<strategy, stateFile, requested, lastSaved, raced, loaded,
                   nRequests, nCrashes>>

-----------------------------------------------------------------------------
(* InitApp: LoadStrategy                                                   *)

(* ReadFile; a text that is not accepted ends LoadStrategy.                *)
ReadText(r, accepted, text) ==
    /\ pc[r] = "idle"
    /\ IF accepted
         THEN /\ pc' = [pc EXCEPT ![r] = "read"]
              /\ arg' = [arg EXCEPT ![r] = text]
              /\ UNCHANGED loaded
         ELSE /\ loaded' = TRUE
              /\ UNCHANGED <<pc, arg>>
    /\ UNCHANGED <<strategy, stateFile, requested, lastSaved, cut, raced,
                   nRequests, nCrashes>>

ReadAnyText(r) == ReadText(r, stateFile # "absent", stateFile)    \* bug: no check
ReadTwoWay(r) ==                      \* bug: whatever is not the default
    ReadText(r, stateFile # "absent",
             IF stateFile = DefaultStrategy THEN stateFile ELSE "all_proxy")

LoadRead(r) == ReadText(r, stateFile \in Strategies, stateFile)

SetText(r, text) ==
    /\ Goto(r, "read", "idle")
    /\ strategy' = text
    /\ arg' = [arg EXCEPT ![r] = NoArg]
    /\ loaded' = TRUE
    /\ UNCHANGED <<stateFile, requested, lastSaved, cut, raced, nRequests, nCrashes>>

SetNothing(r) == SetText(r, strategy)                   \* bug: reads, never sets
LoadSet(r) == SetText(r, arg[r])

-----------------------------------------------------------------------------
(* The process is killed and started again: every goroutine is gone and    *)
(* globalRuleManager has its initial value.                                *)
Crash ==
    /\ nCrashes < MaxCrashes
    /\ strategy' = DefaultStrategy
    /\ pc' = [g \in Goroutines |-> "idle"]
    /\ arg' = [g \in Goroutines |-> NoArg]
    /\ cut' = (cut \/ Open # {})
    /\ loaded' = FALSE
    /\ nCrashes' = nCrashes + 1
    /\ UNCHANGED <<stateFile, requested, lastSaved, raced, nRequests>>

Save(h) == SaveTruncate(h) \/ SaveWrite(h)
Load(r) == LoadRead(r) \/ LoadSet(r)

Next ==
    \/ \E h \in Setters, s \in Strategies : SetStrategy(h, s)
    \/ \E h \in Setters : Save(h) \/ SaveFail(h)
    \/ \E r \in Loaders : Load(r)
    \/ Crash

Spec == Init /\ [][Next]_vars

(* A handler that has started runs to its end; InitApp is run again and    *)
(* again by the cron job.                                                  *)
Fairness ==
    /\ \A h \in Setters : WF_vars(Save(h))
    /\ \A r \in Loaders : WF_vars(Load(r))

FairSpec == Spec /\ Fairness

-----------------------------------------------------------------------------
(* Types.  The memory copy is always one of the two words ShouldDirect     *)
(* knows, whatever a loader found in the file.                             *)
TypeOK ==
    /\ strategy \in Strategies
    /\ stateFile \in Contents
    /\ pc \in [Goroutines -> {"idle", "set", "opened", "read"}]
    /\ \A h \in Setters : pc[h] # "read"
    /\ \A r \in Loaders : pc[r] \in {"idle", "read"}
    /\ arg \in [Goroutines -> Strategies \cup {NoArg}]
    /\ \A g \in Goroutines : (arg[g] = NoArg) <=> (pc[g] = "idle")
    /\ requested \subseteq Strategies
    /\ lastSaved \in Contents
    /\ cut \in BOOLEAN /\ raced \in BOOLEAN /\ loaded \in BOOLEAN
    /\ nRequests \in 0..MaxRequests
    /\ nCrashes \in 0..MaxCrashes

(* Neither an interleaving nor a crash between truncation and write makes  *)
(* the program route by a strategy nobody chose: what is in force, what is *)
(* on disk and what a loader is about to install was asked for, or is the  *)
(* default.                                                                *)
NeverInvented ==
    /\ strategy \in requested
    /\ stateFile \in Strategies => stateFile \in requested
    /\ \A g \in Goroutines : arg[g] # NoArg => arg[g] \in requested

(* When no write is in progress and none was cut short, the file holds the *)
(* strategy of the last write that completed; only writers that overlapped *)
(* leave a text that is no strategy, "all_proxy" with a tail.              *)
LastSaveWins ==
    (Open = {} /\ ~cut) =>
        \/ stateFile = lastSaved
        \/ raced /\ stateFile = "mixed" /\ lastSaved = "all_proxy"

(* task.go:18 "Load cached rules and persisted strategy": once InitApp has *)
(* loaded it and no goroutine is half-way, the strategy in force is the    *)
(* persisted one.  The code does not keep this: a POST between the read    *)
(* and the assignment of LoadStrategy is undone in memory, not on disk.    *)
PersistedInForce ==
    (loaded /\ \A g \in Goroutines : pc[g] = "idle") =>
        (stateFile \in Strategies => strategy = stateFile)

(* The two copies may disagree for a while, but when requests stop the     *)
(* next refresh that loads the strategy brings them together for good.     *)
Convergence == <>[](stateFile \in Strategies => strategy = stateFile)

=============================================================================
