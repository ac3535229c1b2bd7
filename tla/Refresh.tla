------------------------------- MODULE Refresh -------------------------------
(***************************************************************************)
(* The refresh pipeline of proxypoolCheck and the data it publishes.       *)
(*                                                                         *)
(* InitApp fetches the nodes of every configured server, derives, counts   *)
(* and checks them, fetches the servers that failed once more through the  *)
(* nodes that work, checks what is new, and then publishes: the list, the  *)
(* counters and one rendered text per format, each set on its own.         *)
(*                                                                         *)
(* Runs of InitApp are started by the cron job (which first rewrites the   *)
(* package variable Config in place, and tries once more after a failure), *)
(* and by main and GET /forceupdate (Callers).  Nothing keeps them apart.  *)
(* The handlers of /clash/proxies and /surge/proxies fill a text that is   *)
(* still empty.  One action is one access to shared data, or one answer.   *)
(***************************************************************************)
EXTENDS Naturals, FiniteSets

CONSTANTS
    Servers,      \* values of server_url
    Nodes,        \* proxy nodes, converted ones included
    Offers,       \* Offers[s]: the nodes server s lists
    Conversions,  \* Conversions[n]: the nodes Derive makes of n (ss <-> ssr)
    ConfigFiles,  \* what config.yaml may hold, fields left out are zero
    CronJobs,     \* activations of appTask that may overlap
    Callers,      \* main and GET /forceupdate
    Handlers,     \* GET /clash/proxies and /surge/proxies
    NoText        \* the empty string: no text is stored under the key

Fields == [servers : SUBSET Servers, retry : BOOLEAN, tries : 0..1,
           timeout : 0..1, speed : BOOLEAN]

(* A published list with, as history, the nodes that passed the check of   *)
(* the run that made it; a text renders a list with the speeds known then. *)
Lists == [nodes : SUBSET Nodes, passed : SUBSET Nodes]
Texts == [nodes : SUBSET Nodes, passed : SUBSET Nodes, timed : SUBSET Nodes]

ASSUME RefreshAssumption ==
    /\ IsFiniteSet(Nodes)
    /\ Offers \in [Servers -> SUBSET Nodes]
    /\ Conversions \in [Nodes -> SUBSET Nodes]
    /\ ConfigFiles \subseteq Fields
    /\ CronJobs \cap Callers = {}
    /\ NoText \notin Texts

VARIABLES
    config,       \* config.Config; tries and timeout stand for zero or not
    delayTimeout, \* healthcheck.DelayTimeout, shared by all runs
    pc,           \* where each run is
    secondTry,    \* appTask is in its second InitApp
    todo,         \* server URLs still to ask, directly or through a node
    failedURLs,   \* servers that gave no answer
    proxies,      \* InitApp's proxies
    newProxies,   \* what phase 2 fetched
    maxTries,     \* RetryMaxProxies as retryFailedURLs read it
    passed,       \* history: the nodes that passed a check in this run
    list,         \* the cache key "proxies"
    allCount, usableCount,
    text,         \* the cache keys "clashproxies" and "surgeproxies"
    timed,        \* nodes with a measured speed in ProxyStats
    fill,         \* a handler that found an empty text
    overlapped,   \* history: a run began while another was in progress, and
                  \*   none has begun alone since
    late          \* history: texts a handler stored over a refreshed one

locals == <<secondTry, todo, failedURLs, proxies, newProxies, maxTries, passed>>
settings == <<config, delayTimeout>>
published == <<list, allCount, usableCount, text, timed>>
vars == <<settings, pc, locals, published, fill, overlapped, late>>

Runs == CronJobs \cup Callers
Formats == {"clash", "surge"}

NoList == [nodes |-> {}, passed |-> {}]
Provide(l) == [nodes |-> l.nodes, passed |-> l.passed, timed |-> l.nodes \cap timed]

NoFill == [at |-> "idle"]

(* ProxyList.Derive and Deduplication: the nodes and their conversions.    *)
Derive(S) == S \cup UNION {Conversions[n] : n \in S}

EmptyConfig == [servers |-> {}, retry |-> FALSE, tries |-> 0, timeout |-> 0,
                speed |-> FALSE]
WithDefaults(c) == [servers |-> c.servers, retry |-> c.retry, tries |-> 1, timeout |-> 1,
                    speed |-> c.speed]

Init ==
    /\ config \in {WithDefaults(c) : c \in {f \in ConfigFiles : f.servers # {}}}
    /\ delayTimeout = 1
    /\ pc = [r \in Runs |-> "idle"]
    /\ secondTry = [r \in Runs |-> FALSE]
    /\ todo = [r \in Runs |-> {}]
    /\ failedURLs = [r \in Runs |-> {}]
    /\ proxies = [r \in Runs |-> {}]
    /\ newProxies = [r \in Runs |-> {}]
    /\ maxTries = [r \in Runs |-> 0]
    /\ passed = [r \in Runs |-> {}]
    /\ list = NoList
    /\ allCount = 0 /\ usableCount = 0
    /\ text = [f \in Formats |-> NoText]
    /\ timed = {}
    /\ fill = [h \in Handlers |-> NoFill]
    /\ overlapped = FALSE
    /\ late = {}

Goto(r, from, to) ==
    /\ pc[r] = from
    /\ pc' = [pc EXCEPT ![r] = to]

InRun(r) == pc[r] \notin {"idle", "filling", "defaulting", "begin", "wait"}

-----------------------------------------------------------------------------
(* appTask: config.Parse rewrites Config in place                          *)

(* The file cannot be read: Config is left alone and InitApp follows.      *)
ParseUnreadable(c) ==
    /\ Goto(c, "idle", "begin")
    /\ UNCHANGED <<settings, locals, published, fill, overlapped, late>>

(* Config = ConfigOptions{}                                                *)
ParseClear(c) ==
    /\ Goto(c, "idle", "filling")
    /\ config' = EmptyConfig
    /\ UNCHANGED <<delayTimeout, locals, published, fill, overlapped, late>>

(* Unmarshal; a file without server_url ends Parse before the defaults.    *)
ParseFill(c, f) ==
    /\ Goto(c, "filling", IF f.servers = {} THEN "begin" ELSE "defaulting")
    /\ config' = f
    /\ UNCHANGED <<delayTimeout, locals, published, fill, overlapped, late>>

(* Unmarshal fails, at the text or at one field; InitApp follows anyway.   *)
ParseReject(c, f) ==
    /\ Goto(c, "filling", "begin")
    /\ config' \in {config, f}
    /\ UNCHANGED <<delayTimeout, locals, published, fill, overlapped, late>>

ParseDefaults(c) ==
    /\ Goto(c, "defaulting", "begin")
    /\ config' = WithDefaults(config)
    /\ UNCHANGED <<delayTimeout, locals, published, fill, overlapped, late>>

-----------------------------------------------------------------------------
(* InitApp                                                                 *)

(* The settings of the health check are package variables of a library.    *)
(* A cron job gets here from Parse or from its two minutes of sleep.       *)
BeginRun(r) ==
    /\ pc[r] \in IF r \in CronJobs THEN {"begin", "wait"} ELSE {"idle"}
    /\ pc' = [pc EXCEPT ![r] = "servers"]
    /\ secondTry' = [secondTry EXCEPT ![r] = (pc[r] = "wait")]
    /\ delayTimeout' = config.timeout
    /\ overlapped' = \E q \in Runs : InRun(q)
    /\ UNCHANGED <<config, todo, failedURLs, proxies, newProxies, maxTries, passed,
                   published, fill, late>>

(* getAllProxies: the range expression is evaluated once.                  *)
ReadServers(r) ==
    /\ Goto(r, "servers", "fetch")
    /\ todo' = [todo EXCEPT ![r] = config.servers]
    /\ UNCHANGED <<settings, secondTry, failedURLs, proxies, newProxies, maxTries,
                   passed, published, fill, overlapped, late>>

(* One server: its nodes, or no node ("NULL"), or no answer in 5 seconds.  *)
FetchAnswer(r, s) ==
    /\ pc[r] = "fetch" /\ s \in todo[r]
    /\ todo' = [todo EXCEPT ![r] = @ \ {s}]
    /\ \E S \in {Offers[s], {}} : proxies' = [proxies EXCEPT ![r] = @ \cup S]
    /\ UNCHANGED <<settings, pc, secondTry, failedURLs, newProxies, maxTries, passed,
                   published, fill, overlapped, late>>

FetchError(r, s) ==
    /\ pc[r] = "fetch" /\ s \in todo[r]
    /\ todo' = [todo EXCEPT ![r] = @ \ {s}]
    /\ failedURLs' = [failedURLs EXCEPT ![r] = @ \cup {s}]
    /\ UNCHANGED <<settings, pc, secondTry, proxies, newProxies, maxTries, passed,
                   published, fill, overlapped, late>>

(* No node from any server: InitApp returns an error.  appTask sleeps and  *)
(* tries once more; main ignores it and the handler only reports it.       *)
AfterAnyError(r) == IF ~secondTry[r] THEN "wait" ELSE "idle"   \* bug: all retry
AfterError(r) ==
    IF r \in CronJobs /\ ~secondTry[r] THEN "wait" ELSE "idle"

RunFails(r) ==
    /\ todo[r] = {} /\ proxies[r] = {}
    /\ Goto(r, "fetch", AfterError(r))
    /\ failedURLs' = [failedURLs EXCEPT ![r] = {}]
    /\ UNCHANGED <<settings, secondTry, todo, proxies, newProxies, maxTries, passed,
                   published, fill, overlapped, late>>

(* Derive, Deduplication and updateProxyStats.                             *)
FetchDone(r) ==
    /\ todo[r] = {} /\ proxies[r] # {}
    /\ Goto(r, "fetch", "check")
    /\ proxies' = [proxies EXCEPT ![r] = Derive(@)]
    /\ allCount' = Cardinality(Derive(proxies[r]))
    /\ UNCHANGED <<settings, secondTry, todo, failedURLs, newProxies, maxTries, passed,
                   list, usableCount, text, timed, fill, overlapped, late>>

(* CleanBadProxiesWithGrpool keeps any subset; none when it has no time.   *)
Survivors(S) == IF delayTimeout = 0 THEN {{}} ELSE SUBSET S

(* Phase 1 check, then the decision about phase 2, which reads Config now. *)
Check(r) ==
    \E good \in Survivors(proxies[r]) :
        LET again == config.retry /\ failedURLs[r] # {} /\ good # {}
        IN /\ Goto(r, "check", IF again THEN "retry" ELSE "publish")
           /\ proxies' = [proxies EXCEPT ![r] = good]
           /\ passed' = [passed EXCEPT ![r] = good]
           /\ todo' = [todo EXCEPT ![r] = IF again THEN failedURLs[r] ELSE {}]
           /\ maxTries' = [maxTries EXCEPT ![r] = IF again THEN config.tries ELSE 0]
           /\ failedURLs' = [failedURLs EXCEPT ![r] = {}]
           /\ UNCHANGED <<settings, secondTry, newProxies, published,
                          fill, overlapped, late>>

(* retryFailedURLs: one server through the first working node among the    *)
(* first maxTries, or through none.                                        *)
RetryOne(r, s) ==
    /\ pc[r] = "retry" /\ s \in todo[r]
    /\ todo' = [todo EXCEPT ![r] = @ \ {s}]
    /\ \E S \in IF maxTries[r] > 0 THEN {Offers[s], {}} ELSE {{}} :
           newProxies' = [newProxies EXCEPT ![r] = @ \cup S]
    /\ UNCHANGED <<settings, pc, secondTry, failedURLs, proxies, maxTries, passed,
                   published, fill, overlapped, late>>

RetryDone(r) ==
    /\ todo[r] = {}
    /\ Goto(r, "retry", IF newProxies[r] = {} THEN "publish" ELSE "recheck")
    /\ maxTries' = [maxTries EXCEPT ![r] = 0]
    /\ UNCHANGED <<settings, secondTry, todo, failedURLs, proxies, newProxies, passed,
                   published, fill, overlapped, late>>

MergeNewOnly(old, new) == Derive(new)        \* bug: the result of append is lost
Merge(old, new) == Derive(old \cup new)

CountStays(good, merged) == allCount          \* bug: no updateProxyStats
CountMerged(good, merged) == IF good = {} THEN allCount ELSE Cardinality(merged)

(* Phase 2 check of the new nodes only, merge and updateProxyStats.        *)
Recheck(r) ==
    \E good \in Survivors(newProxies[r]) :
        LET merged == IF good = {} THEN proxies[r] ELSE Merge(proxies[r], good)
        IN /\ Goto(r, "recheck", "publish")
           /\ proxies' = [proxies EXCEPT ![r] = merged]
           /\ passed' = [passed EXCEPT ![r] = @ \cup good]
           /\ newProxies' = [newProxies EXCEPT ![r] = {}]
           /\ allCount' = CountMerged(good, merged)
           /\ UNCHANGED <<settings, secondTry, todo, failedURLs, maxTries, list, usableCount, text, timed, fill, overlapped, late>>

-----------------------------------------------------------------------------
(* InitApp publishes.  Phase 3 downloads rules and touches none of this.   *)

Current(r) == [nodes |-> proxies[r], passed |-> passed[r]]

PublishList(r) ==
    /\ Goto(r, "publish", "count")
    /\ list' = Current(r)
    /\ UNCHANGED <<settings, locals, allCount, usableCount, text, timed,
                   fill, overlapped, late>>

PublishCount(r) ==
    /\ Goto(r, "count", "speed")
    /\ usableCount' = Cardinality(proxies[r])
    /\ UNCHANGED <<settings, locals, list, allCount, text, timed,
                   fill, overlapped, late>>

SpeedTest(r) ==
    /\ Goto(r, "speed", "clash")
    /\ timed' = IF config.speed THEN timed \cup proxies[r] ELSE timed
    /\ UNCHANGED <<settings, locals, list, allCount, usableCount, text,
                   fill, overlapped, late>>

KeepText(old, new) == IF old = NoText THEN new ELSE old   \* bug: fills, never renews
NewText(old, new) == new

(* SetString of one format; surge follows clash, then InitApp returns.     *)
(* Here and above a local goes back to its initial value when it is dead.  *)
PublishText(r, f) ==
    /\ Goto(r, f, IF f = "clash" THEN "surge" ELSE "idle")
    /\ text' = [text EXCEPT ![f] = NewText(@, Provide(Current(r)))]
    /\ late' = late \ {f}
    /\ IF f = "clash"
         THEN UNCHANGED <<proxies, passed>>
         ELSE /\ proxies' = [proxies EXCEPT ![r] = {}]
              /\ passed' = [passed EXCEPT ![r] = {}]
    /\ UNCHANGED <<settings, secondTry, todo, failedURLs, newProxies, maxTries,
                   list, allCount, usableCount, timed, fill, overlapped>>

-----------------------------------------------------------------------------
(* GET /clash/proxies and /surge/proxies without a query: the text is      *)
(* served; an empty one is rendered from the list and stored.              *)

FillMiss(h, f) ==
    /\ fill[h] = NoFill /\ text[f] = NoText
    /\ fill' = [fill EXCEPT ![h] = [at |-> "missed", format |-> f]]
    /\ UNCHANGED <<settings, pc, locals, published, overlapped, late>>

FillRender(h) ==
    /\ fill[h].at = "missed"
    /\ fill' = [fill EXCEPT ![h] = [at |-> "rendered", format |-> fill[h].format,
                                    text |-> Provide(list)]]
    /\ UNCHANGED <<settings, pc, locals, published, overlapped, late>>

FillStore(h) ==
    /\ fill[h].at = "rendered"
    /\ LET f == fill[h].format
       IN /\ text' = [text EXCEPT ![f] = fill[h].text]
          /\ late' = IF text[f] = NoText THEN late ELSE late \cup {f}
    /\ fill' = [fill EXCEPT ![h] = NoFill]
    /\ UNCHANGED <<settings, pc, locals, list, allCount, usableCount, timed, overlapped>>

-----------------------------------------------------------------------------
Parse(c) ==
    \/ ParseUnreadable(c) \/ ParseClear(c) \/ ParseDefaults(c)
    \/ \E f \in ConfigFiles : ParseFill(c, f) \/ ParseReject(c, f)

Fetch(r) ==
    \/ \E s \in Servers : FetchAnswer(r, s) \/ FetchError(r, s) \/ RetryOne(r, s)
    \/ RunFails(r) \/ FetchDone(r) \/ Check(r) \/ RetryDone(r) \/ Recheck(r)

Publish(r) ==
    \/ PublishList(r) \/ PublishCount(r) \/ SpeedTest(r)
    \/ \E f \in Formats : PublishText(r, f)

Advance(r) == ReadServers(r) \/ Fetch(r) \/ Publish(r)

Handle(h) == FillRender(h) \/ FillStore(h)

Next ==
    \/ \E c \in CronJobs : Parse(c)
    \/ \E r \in Runs : BeginRun(r) \/ Advance(r)
    \/ \E h \in Handlers : Handle(h) \/ \E f \in Formats : FillMiss(h, f)

Spec == Init /\ [][Next]_vars

(* Every wait in a run and in a handler has a timeout, so they go on; gocron *)
(* starts appTask again and again.                                         *)
Fairness ==
    /\ \A c \in CronJobs : WF_vars(Parse(c) \/ BeginRun(c))
    /\ \A r \in Runs : WF_vars(Advance(r))
    /\ \A h \in Handlers : WF_vars(Handle(h))

FairSpec == Spec /\ Fairness

-----------------------------------------------------------------------------
SettingsOK ==
    /\ config \in Fields
    /\ delayTimeout \in 0..1

RunsOK ==
    /\ pc \in [Runs -> {"idle", "filling", "defaulting", "begin", "wait", "servers",
                        "fetch", "check", "retry", "recheck", "publish", "count",
                        "speed", "clash", "surge"}]
    /\ \A r \in Callers : pc[r] \notin {"filling", "defaulting", "begin", "wait"}
    /\ secondTry \in [Runs -> BOOLEAN]
    /\ todo \in [Runs -> SUBSET Servers]
    /\ failedURLs \in [Runs -> SUBSET Servers]
    /\ proxies \in [Runs -> SUBSET Nodes]
    /\ newProxies \in [Runs -> SUBSET Nodes]
    /\ maxTries \in [Runs -> 0..1]
    /\ passed \in [Runs -> SUBSET Nodes]

PublishedOK ==
    /\ list \in Lists
    /\ allCount \in 0..Cardinality(Nodes) /\ usableCount \in 0..Cardinality(Nodes)
    /\ text \in [Formats -> Texts \cup {NoText}]
    /\ timed \in SUBSET Nodes

Fills == {NoFill} \cup [at : {"missed"}, format : Formats]
                  \cup [at : {"rendered"}, format : Formats, text : Texts]

(* Types.  What only appTask does, only cron jobs do.                      *)
TypeOK ==
    /\ SettingsOK /\ RunsOK /\ PublishedOK
    /\ fill \in [Handlers -> Fills]
    /\ overlapped \in BOOLEAN
    /\ late \in SUBSET Formats

(* What a run publishes is what passed its checks, all of it, and besides  *)
(* only conversions of it: a failed phase 2, a merge or a second run never *)
(* lose a working node and never bring back a bad one.                     *)
Vouched(l) == l.passed \subseteq l.nodes /\ l.nodes \subseteq Derive(l.passed)

PublishedVouched ==
    /\ Vouched(list)
    /\ \A f \in Formats : text[f] # NoText => Vouched(text[f])
    /\ \A h \in Handlers : fill[h].at = "rendered" => Vouched(fill[h].text)

(* A run that no other overlapped leaves the site of one piece: the list,  *)
(* the count of usable nodes, and every text that no slow handler stored   *)
(* over its own; and no more usable nodes than nodes.                      *)
SoloRunAgrees ==
    [][\A r \in Runs :
          (pc[r] = "surge" /\ pc'[r] = "idle" /\ ~overlapped) =>
              /\ usableCount' = Cardinality(list'.nodes)
              /\ usableCount' <= allCount'
              /\ \A f \in Formats \ late' : text'[f].nodes = list'.nodes]_vars

(* A text that a slow handler made stale does not stay: as long as runs go *)
(* on publishing, the texts match the list again and again.                *)
TextsMatch == \A f \in Formats : text[f] # NoText => text[f].nodes = list.nodes
StaleTextHealed == ([]<>(\E r \in Runs : pc[r] = "clash")) => []<>TextsMatch

(* README.md:94 "List all usable proxies": no node is listed that did not  *)
(* pass a check.  Not kept: the merge after phase 2 derives again, and the *)
(* conversions it adds were never checked, or failed phase 1.              *)
OnlyUsableListed == list.nodes \subseteq list.passed

(* router.go:94 "To show speed in this if condition, this must be updated  *)
(* after speedtest": when a run with a speed test is over, the text shows  *)
(* the speeds.  Not kept: a handler that found the text empty stores what  *)
(* it rendered before the test over what the run has just stored.          *)
TextAfterSpeed ==
    (\A r \in Runs : ~InRun(r)) =>
        \A f \in Formats :
            (text[f] # NoText /\ list.nodes # {}) => text[f].timed = list.nodes

(* README.md:66 "healthcheck_timeout: # default 5": no check runs without  *)
(* a timeout.  Not kept: a run reads Config while Parse, which clears it   *)
(* first and applies the defaults last, is under way; with no time every   *)
(* node is bad and the run publishes an empty list.                        *)
TimeoutDefaulted ==
    \A r \in Runs : pc[r] \in {"check", "recheck"} => delayTimeout # 0
=============================================================================
