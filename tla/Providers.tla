----------------------------- MODULE Providers ------------------------------
(***************************************************************************)
(* A provider of nodes (adapter/provider): how its list is fetched, kept,  *)
(* replaced and tested.  "init" is the start of the provider, "pull" its   *)
(* loop of updates, a caller a request of the API to update it.            *)
(***************************************************************************)
EXTENDS Naturals, Sequences, FiniteSets

CONSTANTS
    Callers,        \* requests of the API
    Setups,         \* [vehicle, pulls, checks]: what is configured;
                    \* [calls, edits]: what happens to it
    Contents,       \* what the source can hold, each a positive number
    Good,           \* the contents that parse
    NodesOf,        \* the nodes of a good content
    Checks,         \* bound on the health checks under way
    Slots,          \* tests of a check that run at the same time
    MaxHistory,     \* records kept of a node
    MaxTicks        \* bound on the ticks of the tickers

Actors == Callers \cup {"init", "pull"}
(* What is asked of the constants.                                         *)
ProvidersAssumption ==
    /\ Callers \cap {"init", "pull"} = {}
    /\ Contents \subseteq Nat \ {0} /\ Good \subseteq Contents
    /\ IsFiniteSet(Checks) /\ Slots \in Nat /\ MaxHistory \in Nat
Nodes == UNION {NodesOf[c] : c \in Good}

VARIABLES
    setup,
    source,             \* what the source holds
    file,               \* the copy on the disk, 0 if there is none
    pc, buf, local,     \* of the updates: step, what was read, read from the copy
    hash, proxies, checked, \* content remembered, in use, to be tested
    published,          \* the configuration is in use, so that the API can be called
    stopped,            \* the loops that found out that nobody uses the provider
    done,               \* the loops that were told
    dropped,            \* the provider is not used any more
    list, todo, running, tokens, \* of a check: its nodes, not started, running, free slots
    history, alive,     \* of a node: how many records it has, whether it is taken to be there
    ticks, edits,       \* how often the tickers and the source moved
    overlapped          \* two updates were under way at the same time

fetching == <<source, file, pc, buf, local, hash, proxies, published, edits, overlapped>>
testing == <<list, todo, running, tokens, history, alive>>
ending == <<stopped, done, dropped>>
pvars == <<setup, fetching, testing, ending, checked, ticks>>

Init ==
    /\ setup \in Setups
    /\ source \in Contents /\ file \in {0} \cup Contents
    /\ setup.vehicle = "file" => file = source
    /\ pc = [a \in Actors |-> IF a = "init" THEN "stat" ELSE "idle"]
    /\ buf = [a \in Actors |-> 0] /\ local = FALSE
    /\ hash = 0 /\ proxies = 0 /\ checked = 0 /\ published = FALSE
    /\ stopped = {} /\ done = {} /\ dropped = FALSE
    /\ list = [k \in Checks |-> {}] /\ todo = list /\ tokens = [k \in Checks |-> Slots]
    /\ running = [k \in Checks |-> [n \in {} |-> "dial"]]
    /\ history = [n \in Nodes |-> 0] /\ alive = [n \in Nodes |-> TRUE]
    /\ ticks = 0 /\ edits = 0 /\ overlapped = FALSE

-----------------------------------------------------------------------------
(* Fetching.                                                               *)

(* fetcher.Update after a successful Read: the order of its steps.         *)
\* bug: the copy is written before the content is parsed
NextStepWrites(step) ==
    CASE step = "compare" -> "write" [] step = "write" -> "parse" [] step = "parse" -> "hash"
      [] step = "hash" -> "install" [] step = "install" -> "check" [] step = "check" -> "over"
\* bug: the content is remembered before it is parsed
NextStepHashes(step) ==
    CASE step = "compare" -> "hash" [] step = "hash" -> "parse" [] step = "parse" -> "write"
      [] step = "write" -> "install" [] step = "install" -> "check" [] step = "check" -> "over"
NextStep(step) ==
    CASE step = "compare" -> "parse" [] step = "parse" -> "write" [] step = "write" -> "hash"
      [] step = "hash" -> "install" [] step = "install" -> "check" [] step = "check" -> "over"

Working(a) == pc[a] \notin {"idle", "over", "refused"}
Over(a) == IF a = "pull" THEN "idle" ELSE "over"
GoOn(a) == pc' = [pc EXCEPT ![a] = IF NextStep(pc[a]) = "over" THEN Over(a) ELSE NextStep(pc[a])]
GiveUp(a) == pc' = [pc EXCEPT ![a] = IF a = "init" THEN "refused" ELSE Over(a)]
At(a, step) == pc[a] = step

(* What begins an update: a tick, unless the loop was told to stop; a      *)
(* request.                                                                *)
Begin(a) ==
    /\ At(a, "idle") /\ a # "init" /\ ~dropped
    /\ IF a = "pull" THEN /\ setup.pulls /\ "pull" \notin stopped /\ ticks < MaxTicks
                          /\ pc["init"] \in {"install", "check", "over"}
       ELSE published /\ a \in setup.calls
    /\ ticks' = IF a = "pull" THEN ticks + 1 ELSE ticks
    /\ pc' = [pc EXCEPT ![a] = "read"]
    /\ overlapped' = (overlapped \/ \E o \in Actors : Working(o))
    /\ UNCHANGED <<setup, source, file, buf, local, hash, proxies, published, edits, testing, ending, checked>>

(* Vehicle.Read: the file or what the server answers within 20 seconds.    *)
Read(a) ==
    /\ At(a, "read")
    /\ \/ /\ buf' = [buf EXCEPT ![a] = source]
          /\ pc' = [pc EXCEPT ![a] = IF a = "init" THEN "parse" ELSE "compare"]
       \/ /\ GiveUp(a) /\ UNCHANGED buf
    /\ UNCHANGED <<setup, source, file, local, hash, proxies, published, edits, overlapped,
                   testing, ending, checked, ticks>>

Compare(a) ==
    /\ At(a, "compare")
    /\ IF buf[a] = hash THEN GiveUp(a) ELSE GoOn(a)
    /\ UNCHANGED <<setup, source, file, buf, local, hash, proxies, published, edits, overlapped,
                   testing, ending, checked, ticks>>

(* A copy that does not parse is replaced by what the source holds.        *)
Parse(a) ==
    /\ At(a, "parse")
    /\ IF buf[a] \in Good THEN GoOn(a) /\ UNCHANGED local
       ELSE IF a = "init" /\ local THEN pc' = [pc EXCEPT ![a] = "read"] /\ local' = FALSE
       ELSE GiveUp(a) /\ UNCHANGED local
    /\ UNCHANGED <<setup, source, file, buf, hash, proxies, published, edits, overlapped,
                   testing, ending, checked, ticks>>

(* safeWrite can fail.                                                     *)
Keeps(a) == setup.vehicle # "file" /\ ~(a = "init" /\ local)
Write(a) ==
    /\ At(a, "write")
    /\ \/ GoOn(a) /\ file' = IF Keeps(a) THEN buf[a] ELSE file
       \/ Keeps(a) /\ GiveUp(a) /\ UNCHANGED file
    /\ UNCHANGED <<setup, source, buf, local, hash, proxies, published, edits, overlapped,
                   testing, ending, checked, ticks>>

Remember(a) ==
    /\ At(a, "hash") /\ GoOn(a) /\ hash' = buf[a]
    /\ UNCHANGED <<setup, source, file, buf, local, proxies, published, edits, overlapped,
                   testing, ending, checked, ticks>>

(* fetcher.Initial: the copy, if there is one.                             *)
Initial ==
    /\ At("init", "stat")
    /\ IF file # 0 THEN /\ buf' = [buf EXCEPT !["init"] = file] /\ local' = TRUE
                        /\ pc' = [pc EXCEPT !["init"] = "parse"]
       ELSE pc' = [pc EXCEPT !["init"] = "read"] /\ UNCHANGED <<buf, local>>
    /\ UNCHANGED <<setup, source, file, hash, proxies, published, edits, overlapped,
                   testing, ending, checked, ticks>>

(* setProxies: the list of the provider, then that of the health check,    *)
(* and a check of its own.                                                 *)
Install(a) ==
    /\ At(a, "install") /\ GoOn(a) /\ proxies' = buf[a]
    /\ UNCHANGED <<setup, source, file, buf, local, hash, published, edits, overlapped,
                   testing, ending, checked, ticks>>

Free(k) == list[k] = {}
CheckBegins(content) ==
    /\ \E k \in Checks : Free(k)
    /\ LET k == CHOOSE c \in Checks : Free(c) IN
       /\ list' = [list EXCEPT ![k] = NodesOf[content]]
       /\ todo' = [todo EXCEPT ![k] = NodesOf[content]]

InstallCheck(a) ==
    /\ At(a, "check") /\ GoOn(a) /\ checked' = buf[a]
    /\ IF setup.checks THEN CheckBegins(buf[a]) ELSE UNCHANGED <<list, todo>>
    /\ UNCHANGED <<setup, source, file, buf, local, hash, proxies, published, edits, overlapped,
                   running, tokens, history, alive, ending, ticks>>

(* The configuration with this provider comes into use.                    *)
Publish ==
    /\ At("init", "over") /\ ~published /\ published' = TRUE
    /\ UNCHANGED <<setup, source, file, pc, buf, local, hash, proxies, edits, overlapped,
                   testing, ending, checked, ticks>>

(* The source is edited.                                                   *)
Edit ==
    /\ edits < setup.edits /\ edits' = edits + 1
    /\ source' \in Contents \ {source}
    /\ file' = IF setup.vehicle = "file" THEN source' ELSE file
    /\ UNCHANGED <<setup, pc, buf, local, hash, proxies, published, overlapped,
                   testing, ending, checked, ticks>>

-----------------------------------------------------------------------------
(* Testing.                                                                *)

(* The ticker, if the nodes were used lately or the check is not lazy; a   *)
(* request of the API.                                                     *)
CheckTick ==
    /\ checked # 0 /\ ticks < MaxTicks /\ ~dropped /\ ticks' = ticks + 1
    /\ (setup.checks /\ "check" \notin stopped) \/ published
    /\ CheckBegins(checked)
    /\ UNCHANGED <<setup, fetching, ending, checked, running, tokens, history, alive>>

(* Batch.Go: a goroutine for each node, which takes a token.               *)
\* bug: the token of a node that does not answer is not given back
GivesBackAnswered(n) == alive[n]
GivesBack(n) == TRUE
TestBegins(k, n) ==
    /\ n \in todo[k] /\ tokens[k] > 0
    /\ tokens' = [tokens EXCEPT ![k] = @ - 1]
    /\ todo' = [todo EXCEPT ![k] = @ \ {n}]
    /\ running' = [running EXCEPT ![k] = [m \in DOMAIN @ \cup {n} |-> IF m = n THEN "dial" ELSE @[m]]]
    /\ UNCHANGED <<setup, fetching, ending, checked, ticks, list, history, alive>>

Moves(k, n, step) == running' = [running EXCEPT ![k][n] = step]
(* Proxy.URLTest: DialContext tells whether the node is there; then the    *)
(* answer does.                                                            *)
TestDials(k, n) ==
    /\ running[k][n] = "dial"
    /\ \E ok \in BOOLEAN : /\ alive' = [alive EXCEPT ![n] = ok]
                           /\ Moves(k, n, IF ok THEN "ask" ELSE "fail")
    /\ UNCHANGED <<setup, fetching, ending, checked, ticks, list, todo, tokens, history>>

TestAnswers(k, n) ==
    /\ running[k][n] \in {"ask", "fail"}
    /\ \E ok \in {FALSE, running[k][n] = "ask"} :
            alive' = [alive EXCEPT ![n] = ok] /\ Moves(k, n, IF ok THEN "put" ELSE "none")
    /\ UNCHANGED <<setup, fetching, ending, checked, ticks, list, todo, tokens, history>>

TestRecords(k, n) ==
    /\ running[k][n] \in {"put", "none"}
    /\ history' = [history EXCEPT ![n] = @ + 1]
    /\ Moves(k, n, "trim")
    /\ UNCHANGED <<setup, fetching, ending, checked, ticks, list, todo, tokens, alive>>

\* bug: the history is trimmed one record too late
TooLongLate(n) == history[n] > MaxHistory + 1
TooLong(n) == history[n] > MaxHistory
TestTrims(k, n) ==
    /\ running[k][n] = "trim"
    /\ history' = IF TooLong(n) THEN [history EXCEPT ![n] = @ - 1] ELSE history
    /\ Moves(k, n, "token")
    /\ UNCHANGED <<setup, fetching, ending, checked, ticks, list, todo, tokens, alive>>

(* The token comes back; a check is over once all its tests are.           *)
TestEnds(k, n) ==
    /\ running[k][n] = "token"
    /\ tokens' = IF GivesBack(n) THEN [tokens EXCEPT ![k] = @ + 1] ELSE tokens
    /\ running' = [running EXCEPT ![k] = [m \in DOMAIN @ \ {n} |-> @[m]]]
    /\ UNCHANGED <<setup, fetching, ending, checked, ticks, list, todo, history, alive>>

CheckEnds(k) ==
    /\ ~Free(k) /\ todo[k] = {} /\ DOMAIN running[k] = {}
    /\ list' = [list EXCEPT ![k] = {}] /\ tokens' = [tokens EXCEPT ![k] = Slots]
    /\ UNCHANGED <<setup, fetching, ending, checked, ticks, todo, running, history, alive>>

TestStep(k) ==
    \/ \E n \in todo[k] : TestBegins(k, n)
    \/ \E n \in DOMAIN running[k] : TestDials(k, n) \/ TestAnswers(k, n) \/ TestRecords(k, n)
                                     \/ TestTrims(k, n) \/ TestEnds(k, n)
    \/ CheckEnds(k)

-----------------------------------------------------------------------------
(* stopProxyProvider, once nobody holds the provider: both channels have   *)
(* room for the word, so that it waits for nobody.                         *)
\* bug: the loop of the updates is told only when nothing is being read
ToldIdle == {"check"} \cup (IF setup.pulls /\ pc["pull"] = "idle" THEN {"pull"} ELSE {})
Told == {"check"} \cup (IF setup.pulls THEN {"pull"} ELSE {})
Drop ==
    /\ published /\ ~dropped /\ dropped' = TRUE /\ done' = Told
    /\ UNCHANGED <<setup, fetching, testing, checked, ticks, stopped>>

LoopEnds(l) ==
    /\ l \in done /\ (IF l = "pull" THEN pc["pull"] = "idle" ELSE setup.checks)
    /\ done' = done \ {l} /\ stopped' = stopped \cup {l}
    /\ UNCHANGED <<setup, fetching, testing, checked, ticks, dropped>>

UpdateStep(a) == Read(a) \/ Compare(a) \/ Parse(a) \/ Write(a) \/ Remember(a) \/ Install(a) \/ InstallCheck(a)
PNext ==
    \/ \E a \in Actors : Begin(a) \/ UpdateStep(a)
    \/ Initial \/ Publish \/ Edit \/ CheckTick \/ Drop
    \/ \E k \in Checks : TestStep(k)
    \/ \E l \in {"pull", "check"} : LoopEnds(l)

Spec == Init /\ [][PNext]_pvars
FairSpec ==
    /\ Spec
    /\ \A a \in Actors : WF_pvars(UpdateStep(a))
    /\ \A k \in Checks : WF_pvars(TestStep(k))
    /\ \A l \in {"pull", "check"} : WF_pvars(LoopEnds(l))

-----------------------------------------------------------------------------
(* A check never has more than its share of tests under way, and a node    *)
(* never keeps more records than the tests that are about to trim allow,   *)
(* however many checks of it run at the same time.                         *)
Trimming(n) == {k \in Checks : n \in DOMAIN running[k] /\ running[k][n] = "trim"}
TypeOK ==
    /\ \A k \in Checks : Cardinality(DOMAIN running[k]) <= Slots
    /\ \A n \in Nodes : history[n] <= MaxHistory + Cardinality(Trimming(n))
    /\ stopped \cap done = {}

(* Unless two updates overlapped, the content the provider remembers is    *)
(* the one it uses and tests: "the same" is never said of another one,     *)
(* whatever failed in between.                                             *)
Quiet == \A a \in Actors : ~Working(a)
SameMeansInstalled == Quiet /\ ~overlapped => hash = proxies /\ proxies = checked

(* Once the provider has started, the copy a later start will read parses, *)
(* although the source may hold anything.                                  *)
KeptCopyParses == pc["init"] \in {"hash", "install", "check", "over"} /\ setup.vehicle = "http" => file \in Good

(* The loop of updates of a provider nobody uses ends, in the middle of an *)
(* update too.                                                             *)
LoopStopped == dropped /\ setup.pulls => "pull" \in stopped
=============================================================================
