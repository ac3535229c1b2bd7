---------------------------- MODULE RefreshProofs ----------------------------
(* Proofs about Refresh for any servers, nodes, conversions, configuration *)
(* files, and any number of runs and handlers that overlap.                *)
EXTENDS Refresh, FiniteSetTheorems, TLAPS

(* Counting a set of nodes.                                                *)
LEMMA NodeCount ==
    ASSUME NEW S, S \subseteq Nodes
    PROVE  Cardinality(S) \in 0..Cardinality(Nodes)
<1>1. IsFiniteSet(Nodes)
  BY RefreshAssumption
<1>2. IsFiniteSet(S) /\ Cardinality(S) <= Cardinality(Nodes)
  BY <1>1, FS_Subset
<1>3. Cardinality(S) \in Nat /\ Cardinality(Nodes) \in Nat
  BY <1>1, <1>2, FS_CardinalityType
<1>4. QED
  BY <1>2, <1>3

(* Derive adds nodes to a set of nodes, and keeps what it is given.        *)
LEMMA DeriveGrows ==
    ASSUME NEW S, S \subseteq Nodes
    PROVE  S \subseteq Derive(S) /\ Derive(S) \subseteq Nodes
<1>1. \A n \in S : Conversions[n] \subseteq Nodes
  BY RefreshAssumption
<1>2. QED
  BY <1>1 DEF Derive

(* What Provide renders of a list is a text.                               *)
LEMMA ProvideText ==
    ASSUME NEW l \in Lists
    PROVE  Provide(l) \in Texts /\ (Vouched(l) => Vouched(Provide(l)))
<1>1. l.nodes \subseteq Nodes /\ l.passed \subseteq Nodes
  BY DEF Lists
<1>2. QED
  BY <1>1 DEF Provide, Texts, Vouched

LEMMA CurrentList ==
    ASSUME TypeOK, NEW r \in Runs
    PROVE  Current(r) \in Lists
BY DEF TypeOK, RunsOK, Current, Lists

(* The defaults keep the shape of the configuration.                       *)
LEMMA DefaultsType ==
    ASSUME NEW c \in Fields
    PROVE  WithDefaults(c) \in Fields
BY DEF WithDefaults, Fields

(* A step of one run that changes its place and no other shared data.      *)
LEMMA GotoType ==
    ASSUME TypeOK, NEW r \in Runs, NEW from, NEW to, Goto(r, from, to),
           to \in {"idle", "filling", "defaulting", "begin", "wait", "servers", "fetch",
                   "check", "retry", "recheck", "publish", "count", "speed", "clash",
                   "surge"},
           r \in Callers => to \notin {"filling", "defaulting", "begin", "wait"},
           UNCHANGED locals
    PROVE  RunsOK'
BY DEF TypeOK, RunsOK, Goto, locals

(* The type invariant, for every set of runs and handlers.                 *)
THEOREM TypeCorrect == Spec => []TypeOK
<1>1. Init => TypeOK
  <2> SUFFICES ASSUME Init PROVE TypeOK
    OBVIOUS
  <2>1. SettingsOK
    <3>1. PICK c \in ConfigFiles : config = WithDefaults(c)
      BY DEF Init
    <3>2. c \in Fields
      BY <3>1, RefreshAssumption
    <3>3. config \in Fields
      BY <3>1, <3>2, DefaultsType
    <3>4. QED
      BY <3>3 DEF Init, SettingsOK
  <2>2. RunsOK
    BY DEF Init, RunsOK, Runs
  <2>3. PublishedOK
    <3>1. list \in Lists
      BY DEF Init, NoList, Lists
    <3>2. allCount \in 0..Cardinality(Nodes) /\ usableCount \in 0..Cardinality(Nodes)
      BY NodeCount, FS_EmptySet DEF Init
    <3>3. QED
      BY <3>1, <3>2 DEF Init, PublishedOK
  <2>4. fill \in [Handlers -> Fills]
    BY DEF Init, Fills
  <2>5. QED
    BY <2>1, <2>2, <2>3, <2>4 DEF Init, TypeOK
<1>2. TypeOK /\ [Next]_vars => TypeOK'
  <2> SUFFICES ASSUME TypeOK, [Next]_vars PROVE TypeOK'
    OBVIOUS
  <2>1. ASSUME NEW c \in CronJobs, Parse(c) PROVE TypeOK'
    <3>0. c \in Runs /\ c \notin Callers
      BY RefreshAssumption DEF Runs
    <3>1. RunsOK' /\ UNCHANGED <<published, fill, overlapped, late>>
      <4>1. UNCHANGED <<locals, published, fill, overlapped, late>>
        BY <2>1 DEF Parse, ParseUnreadable, ParseClear, ParseDefaults, ParseFill,
                    ParseReject
      <4>2. \E from, to : Goto(c, from, to) /\ to \in {"begin", "filling", "defaulting"}
        BY <2>1 DEF Parse, ParseUnreadable, ParseClear, ParseDefaults, ParseFill,
                    ParseReject
      <4>3. QED
        BY <3>0, <4>1, <4>2, GotoType
    <3>2. SettingsOK'
      <4>1. EmptyConfig \in Fields
        BY DEF EmptyConfig, Fields
      <4>2. config \in Fields /\ WithDefaults(config) \in Fields
        BY DefaultsType DEF TypeOK, SettingsOK
      <4>3. \A f \in ConfigFiles : f \in Fields
        BY RefreshAssumption
      <4>4. config' \in Fields
        BY <2>1, <4>1, <4>2, <4>3 DEF Parse, ParseUnreadable, ParseClear,
           ParseDefaults, ParseFill, ParseReject, settings
      <4>5. UNCHANGED delayTimeout
        BY <2>1 DEF Parse, ParseUnreadable, ParseClear, ParseDefaults, ParseFill,
                    ParseReject, settings
      <4>6. QED
        BY <4>4, <4>5 DEF TypeOK, SettingsOK
    <3>3. QED
      BY <3>1, <3>2 DEF TypeOK, PublishedOK, published
  <2>2. ASSUME NEW r \in Runs, BeginRun(r) PROVE TypeOK'
    <3>1. RunsOK'
      BY <2>2, RefreshAssumption DEF BeginRun, TypeOK, RunsOK, Runs
    <3>2. SettingsOK'
      BY <2>2 DEF BeginRun, TypeOK, SettingsOK, Fields
    <3>3. overlapped' \in BOOLEAN /\ UNCHANGED <<published, fill, late>>
      BY <2>2 DEF BeginRun
    <3>4. QED
      BY <3>1, <3>2, <3>3 DEF TypeOK, PublishedOK, published
  <2>3. ASSUME NEW r \in Runs, ReadServers(r) PROVE TypeOK'
    <3>1. config.servers \subseteq Servers
      BY DEF TypeOK, SettingsOK, Fields
    <3>2. RunsOK'
      BY <2>3, <3>1 DEF ReadServers, Goto, TypeOK, RunsOK
    <3>3. QED
      BY <2>3, <3>2 DEF ReadServers, TypeOK, SettingsOK, PublishedOK, settings, published
  <2>4. ASSUME NEW r \in Runs, NEW s \in Servers,
               FetchAnswer(r, s) \/ FetchError(r, s) \/ RetryOne(r, s)
        PROVE TypeOK'
    <3>1. Offers[s] \subseteq Nodes
      BY RefreshAssumption
    <3>2. RunsOK'
      <4>1. CASE FetchAnswer(r, s)
        BY <4>1, <3>1 DEF FetchAnswer, TypeOK, RunsOK
      <4>2. CASE FetchError(r, s)
        BY <4>2 DEF FetchError, TypeOK, RunsOK
      <4>3. CASE RetryOne(r, s)
        <5>1. PICK S \in {Offers[s], {}} :
                  newProxies' = [newProxies EXCEPT ![r] = @ \cup S]
          BY <4>3 DEF RetryOne
        <5>2. newProxies' \in [Runs -> SUBSET Nodes]
          BY <5>1, <3>1 DEF TypeOK, RunsOK
        <5>3. QED
          BY <4>3, <5>2 DEF RetryOne, TypeOK, RunsOK
      <4>4. QED
        BY <2>4, <4>1, <4>2, <4>3
    <3>3. UNCHANGED <<settings, published, fill, overlapped, late>>
      BY <2>4 DEF FetchAnswer, FetchError, RetryOne
    <3>4. QED
      BY <3>2, <3>3 DEF TypeOK, SettingsOK, PublishedOK, settings, published
  <2>5. ASSUME NEW r \in Runs, RunFails(r) PROVE TypeOK'
    <3>1. RunsOK'
      <4>1. AfterError(r) \in {"wait", "idle"} /\ (r \in Callers => AfterError(r) = "idle")
        BY RefreshAssumption DEF AfterError
      <4>2. QED
        BY <2>5, <4>1 DEF RunFails, Goto, TypeOK, RunsOK
    <3>2. QED
      BY <2>5, <3>1 DEF RunFails, TypeOK, SettingsOK, PublishedOK, settings, published
  <2>6. ASSUME NEW r \in Runs, FetchDone(r) PROVE TypeOK'
    <3>1. proxies[r] \subseteq Nodes
      BY DEF TypeOK, RunsOK
    <3>2. Derive(proxies[r]) \subseteq Nodes
      BY <3>1, DeriveGrows
    <3>3. RunsOK'
      BY <2>6, <3>2 DEF FetchDone, Goto, TypeOK, RunsOK
    <3>4. allCount' \in 0..Cardinality(Nodes)
      BY <2>6, <3>2, NodeCount DEF FetchDone
    <3>5. PublishedOK'
      BY <2>6, <3>4 DEF FetchDone, TypeOK, PublishedOK
    <3>6. QED
      BY <2>6, <3>3, <3>5 DEF FetchDone, TypeOK, SettingsOK, settings
  <2>7. ASSUME NEW r \in Runs, Check(r) PROVE TypeOK'
    <3>1. PICK good \in Survivors(proxies[r]) :
              /\ \E to \in {"retry", "publish"} : Goto(r, "check", to)
              /\ proxies' = [proxies EXCEPT ![r] = good]
              /\ passed' = [passed EXCEPT ![r] = good]
              /\ \E t \in {failedURLs[r], {}} : todo' = [todo EXCEPT ![r] = t]
              /\ \E t \in {config.tries, 0} : maxTries' = [maxTries EXCEPT ![r] = t]
              /\ failedURLs' = [failedURLs EXCEPT ![r] = {}]
              /\ UNCHANGED <<settings, secondTry, newProxies, published,
                             fill, overlapped, late>>
      BY <2>7 DEF Check
    <3>2. good \subseteq Nodes
      BY <3>1 DEF Survivors, TypeOK, RunsOK
    <3>3. config.tries \in 0..1
      BY DEF TypeOK, SettingsOK, Fields
    <3>4. RunsOK'
      BY <3>1, <3>2, <3>3 DEF Goto, TypeOK, RunsOK
    <3>5. QED
      BY <3>1, <3>4 DEF TypeOK, SettingsOK, PublishedOK, settings, published
  <2>8. ASSUME NEW r \in Runs, RetryDone(r) PROVE TypeOK'
    <3>1. RunsOK'
      BY <2>8 DEF RetryDone, Goto, TypeOK, RunsOK
    <3>2. QED
      BY <2>8, <3>1 DEF RetryDone, TypeOK, SettingsOK, PublishedOK, settings, published
  <2>9. ASSUME NEW r \in Runs, Recheck(r) PROVE TypeOK'
    <3>1. PICK good \in Survivors(newProxies[r]) :
              LET merged == IF good = {} THEN proxies[r] ELSE Merge(proxies[r], good)
              IN /\ Goto(r, "recheck", "publish")
                 /\ proxies' = [proxies EXCEPT ![r] = merged]
                 /\ passed' = [passed EXCEPT ![r] = @ \cup good]
                 /\ newProxies' = [newProxies EXCEPT ![r] = {}]
                 /\ allCount' = CountMerged(good, merged)
      BY <2>9 DEF Recheck
    <3>2. UNCHANGED <<settings, secondTry, todo, failedURLs, maxTries, list,
                      usableCount, text, timed, fill, overlapped, late>>
      BY <2>9 DEF Recheck
    <3>3. good \subseteq Nodes /\ proxies[r] \subseteq Nodes
      BY <3>1 DEF Survivors, TypeOK, RunsOK
    <3>4. Merge(proxies[r], good) \subseteq Nodes
      BY <3>3, DeriveGrows DEF Merge
    <3>5. RunsOK'
      BY <3>1, <3>2, <3>3, <3>4 DEF Goto, TypeOK, RunsOK
    <3>6. allCount' \in 0..Cardinality(Nodes)
      BY <3>1, <3>3, <3>4, NodeCount DEF CountMerged, TypeOK, PublishedOK
    <3>7. PublishedOK'
      BY <3>2, <3>6 DEF TypeOK, PublishedOK
    <3>8. QED
      BY <3>2, <3>5, <3>7 DEF TypeOK, SettingsOK, settings
  <2>10. ASSUME NEW r \in Runs, PublishList(r) PROVE TypeOK'
    <3>1. RunsOK'
      BY <2>10, GotoType DEF PublishList
    <3>2. PublishedOK'
      BY <2>10, CurrentList DEF PublishList, TypeOK, PublishedOK
    <3>3. QED
      BY <2>10, <3>1, <3>2 DEF PublishList, TypeOK, SettingsOK, settings
  <2>11. ASSUME NEW r \in Runs, PublishCount(r) PROVE TypeOK'
    <3>1. RunsOK'
      BY <2>11, GotoType DEF PublishCount
    <3>2. usableCount' \in 0..Cardinality(Nodes)
      BY <2>11, NodeCount DEF PublishCount, TypeOK, RunsOK
    <3>3. QED
      BY <2>11, <3>1, <3>2 DEF PublishCount, TypeOK, SettingsOK, PublishedOK, settings
  <2>12. ASSUME NEW r \in Runs, SpeedTest(r) PROVE TypeOK'
    <3>1. RunsOK'
      BY <2>12, GotoType DEF SpeedTest
    <3>2. timed' \in SUBSET Nodes
      BY <2>12 DEF SpeedTest, TypeOK, RunsOK, PublishedOK
    <3>3. QED
      BY <2>12, <3>1, <3>2 DEF SpeedTest, TypeOK, SettingsOK, PublishedOK, settings
  <2>13. ASSUME NEW r \in Runs, NEW f \in Formats, PublishText(r, f) PROVE TypeOK'
    <3>1. RunsOK'
      BY <2>13 DEF PublishText, Goto, TypeOK, RunsOK
    <3>2. Provide(Current(r)) \in Texts
      BY CurrentList, ProvideText
    <3>3. text' \in [Formats -> Texts \cup {NoText}]
      BY <2>13, <3>2 DEF PublishText, NewText, TypeOK, PublishedOK
    <3>4. QED
      BY <2>13, <3>1, <3>3 DEF PublishText, TypeOK, SettingsOK, PublishedOK, settings
  <2>14. ASSUME NEW h \in Handlers, NEW f \in Formats, FillMiss(h, f) PROVE TypeOK'
    <3>1. fill' \in [Handlers -> Fills]
      BY <2>14 DEF FillMiss, TypeOK, Fills
    <3>2. QED
      BY <2>14, <3>1 DEF FillMiss, TypeOK, SettingsOK, RunsOK, PublishedOK, settings,
                         locals, published
  <2>15. ASSUME NEW h \in Handlers, FillRender(h) PROVE TypeOK'
    <3>1. fill[h] \in [at : {"missed"}, format : Formats]
      BY <2>15 DEF FillRender, TypeOK, Fills, NoFill
    <3>2. Provide(list) \in Texts
      BY ProvideText DEF TypeOK, PublishedOK
    <3>3. fill' \in [Handlers -> Fills]
      BY <2>15, <3>1, <3>2 DEF FillRender, TypeOK, Fills
    <3>4. QED
      BY <2>15, <3>3 DEF FillRender, TypeOK, SettingsOK, RunsOK, PublishedOK, settings,
                         locals, published
  <2>16. ASSUME NEW h \in Handlers, FillStore(h) PROVE TypeOK'
    <3>1. fill[h] \in [at : {"rendered"}, format : Formats, text : Texts]
      BY <2>16 DEF FillStore, TypeOK, Fills, NoFill
    <3>2. text' \in [Formats -> Texts \cup {NoText}] /\ late' \in SUBSET Formats
      BY <2>16, <3>1 DEF FillStore, TypeOK, PublishedOK
    <3>3. fill' \in [Handlers -> Fills]
      BY <2>16 DEF FillStore, TypeOK, Fills
    <3>4. QED
      BY <2>16, <3>2, <3>3 DEF FillStore, TypeOK, SettingsOK, RunsOK, PublishedOK,
                               settings, locals
  <2>17. CASE UNCHANGED vars
    BY <2>17 DEF vars, TypeOK, SettingsOK, RunsOK, PublishedOK, settings, locals,
                 published
  <2>18. QED
    BY <2>1, <2>2, <2>3, <2>4, <2>5, <2>6, <2>7, <2>8, <2>9, <2>10, <2>11, <2>12,
       <2>13, <2>14, <2>15, <2>16, <2>17 DEF Next, Advance, Fetch, Publish, Handle
<1>3. QED
  BY <1>1, <1>2, PTL DEF Spec

(* What the proof of PublishedVouched needs to know of a run: before the   *)
(* merge it holds exactly what passed, after it at most conversions more.  *)
RunVouched(r) ==
    /\ pc[r] \in {"retry", "recheck"} => proxies[r] = passed[r]
    /\ pc[r] \in {"publish", "count", "speed", "clash", "surge"} => Vouched(Current(r))

VouchedInv == PublishedVouched /\ \A r \in Runs : RunVouched(r)

(* Only a run moves; what is published stays.                              *)
LEMMA OneRunMoves ==
    ASSUME TypeOK, VouchedInv, NEW r \in Runs,
           UNCHANGED <<list, text, fill>>,
           \A q \in Runs \ {r} : UNCHANGED <<pc[q], proxies[q], passed[q]>>,
           RunVouched(r)'
    PROVE  VouchedInv'
BY DEF VouchedInv, RunVouched, PublishedVouched, Vouched, Current

(* A merge of what passed with new nodes that passed stays within the      *)
(* conversions of both.                                                    *)
LEMMA MergeVouched ==
    ASSUME NEW old, NEW new, old \subseteq Nodes, new \subseteq Nodes
    PROVE  Vouched([nodes |-> Merge(old, new), passed |-> old \cup new])
BY DeriveGrows DEF Merge, Vouched

(* For any servers, nodes and conversions, and any number of runs and      *)
(* handlers in any order: what is published, rendered or about to be       *)
(* stored is all of what passed a run's checks and conversions of it only. *)
THEOREM PublishedIsVouched == Spec => []PublishedVouched
<1>1. Init => VouchedInv
  <2> SUFFICES ASSUME Init PROVE VouchedInv
    OBVIOUS
  <2>1. PublishedVouched
    BY DEF Init, PublishedVouched, Vouched, NoList, NoFill, Derive
  <2>2. \A r \in Runs : RunVouched(r)
    BY DEF Init, RunVouched
  <2>3. QED
    BY <2>1, <2>2 DEF VouchedInv
<1>2. TypeOK /\ VouchedInv /\ [Next]_vars => VouchedInv'
  <2> SUFFICES ASSUME TypeOK, VouchedInv, [Next]_vars PROVE VouchedInv'
    OBVIOUS
  <2>0. /\ pc \in [Runs -> {"idle", "filling", "defaulting", "begin", "wait", "servers",
                        "fetch", "check", "retry", "recheck", "publish", "count",
                        "speed", "clash", "surge"}]
        /\ proxies \in [Runs -> SUBSET Nodes]
        /\ passed \in [Runs -> SUBSET Nodes]
        /\ newProxies \in [Runs -> SUBSET Nodes]
    BY DEF TypeOK, RunsOK
  <2>1. ASSUME NEW c \in CronJobs, Parse(c) PROVE VouchedInv'
    <3>1. c \in Runs
      BY DEF Runs
    <3>2. UNCHANGED <<proxies, passed, list, text, fill>>
      BY <2>1 DEF Parse, ParseUnreadable, ParseClear, ParseDefaults, ParseFill,
                  ParseReject, locals, published
    <3>3. \E from, to : Goto(c, from, to) /\ to \in {"begin", "filling", "defaulting"}
      BY <2>1 DEF Parse, ParseUnreadable, ParseClear, ParseDefaults, ParseFill,
                  ParseReject
    <3>4. RunVouched(c)'
      BY <2>0, <3>1, <3>3 DEF RunVouched, Goto
    <3>5. QED
      BY <2>0, <3>1, <3>2, <3>3, <3>4, OneRunMoves DEF Goto
  <2>2. ASSUME NEW r \in Runs, BeginRun(r) \/ ReadServers(r) \/ RunFails(r)
                                 \/ FetchDone(r) PROVE VouchedInv'
    <3>1. RunVouched(r)'
      BY <2>0, <2>2 DEF RunVouched, BeginRun, ReadServers, RunFails, FetchDone, Goto,
                        AfterError
    <3>2. QED
      BY <2>0, <2>2, <3>1, OneRunMoves DEF BeginRun, ReadServers, RunFails, FetchDone,
                                           Goto, published
  <2>3. ASSUME NEW r \in Runs, NEW s \in Servers,
               FetchAnswer(r, s) \/ FetchError(r, s) \/ RetryOne(r, s)
        PROVE VouchedInv'
    <3>1. /\ UNCHANGED <<pc, passed, list, text, fill>>
          /\ \A q \in Runs \ {r} : proxies'[q] = proxies[q]
          /\ pc[r] = "fetch" \/ UNCHANGED proxies
      BY <2>0, <2>3 DEF FetchAnswer, FetchError, RetryOne, published
    <3>2. RunVouched(r)'
      BY <3>1 DEF VouchedInv, RunVouched, Vouched, Current
    <3>3. QED
      BY <3>1, <3>2, OneRunMoves
  <2>4. ASSUME NEW r \in Runs, Check(r) PROVE VouchedInv'
    <3>1. PICK good \in Survivors(proxies[r]) :
              /\ \E to \in {"retry", "publish"} : Goto(r, "check", to)
              /\ proxies' = [proxies EXCEPT ![r] = good]
              /\ passed' = [passed EXCEPT ![r] = good]
              /\ UNCHANGED <<list, text, fill>>
      BY <2>4 DEF Check, published
    <3>2. good \subseteq Nodes
      BY <2>0, <3>1 DEF Survivors
    <3>3. Vouched(Current(r))'
      BY <2>0, <3>1, <3>2, DeriveGrows DEF Vouched, Current
    <3>4. RunVouched(r)'
      BY <2>0, <3>1, <3>3 DEF RunVouched
    <3>5. QED
      BY <2>0, <3>1, <3>4, OneRunMoves DEF Goto
  <2>5. ASSUME NEW r \in Runs, RetryDone(r) PROVE VouchedInv'
    <3>1. UNCHANGED <<proxies, passed, list, text, fill>>
      BY <2>5 DEF RetryDone, published
    <3>2. proxies[r] = passed[r] /\ passed[r] \subseteq Nodes
      BY <2>0, <2>5 DEF RetryDone, Goto, VouchedInv, RunVouched
    <3>3. Vouched(Current(r))'
      BY <3>1, <3>2, DeriveGrows DEF Vouched, Current
    <3>4. RunVouched(r)'
      BY <3>1, <3>2, <3>3 DEF RunVouched
    <3>5. QED
      BY <2>0, <2>5, <3>1, <3>4, OneRunMoves DEF RetryDone, Goto
  <2>6. ASSUME NEW r \in Runs, Recheck(r) PROVE VouchedInv'
    <3>1. PICK good \in Survivors(newProxies[r]) :
              LET merged == IF good = {} THEN proxies[r] ELSE Merge(proxies[r], good)
              IN /\ Goto(r, "recheck", "publish")
                 /\ proxies' = [proxies EXCEPT ![r] = merged]
                 /\ passed' = [passed EXCEPT ![r] = @ \cup good]
                 /\ UNCHANGED <<list, text, fill>>
      BY <2>6 DEF Recheck
    <3>2. proxies[r] = passed[r] /\ passed[r] \subseteq Nodes /\ good \subseteq Nodes
      BY <2>0, <3>1 DEF Survivors, Goto, VouchedInv, RunVouched
    <3>3. Vouched(Current(r))'
      <4>1. CASE good = {}
        BY <2>0, <3>1, <3>2, <4>1, DeriveGrows DEF Vouched, Current
      <4>2. CASE good # {}
        <5>1. Current(r)' = [nodes |-> Merge(passed[r], good),
                             passed |-> passed[r] \cup good]
          BY <2>0, <3>1, <3>2, <4>2 DEF Current
        <5>2. QED
          BY <3>2, <5>1, MergeVouched
      <4>3. QED
        BY <4>1, <4>2
    <3>4. RunVouched(r)'
      BY <2>0, <3>1, <3>3 DEF RunVouched, Goto
    <3>5. QED
      BY <2>0, <3>1, <3>4, OneRunMoves DEF Goto
  <2>7. ASSUME NEW r \in Runs, PublishList(r) PROVE VouchedInv'
    <3>1. Vouched(list)'
      BY <2>7 DEF PublishList, Goto, VouchedInv, RunVouched
    <3>2. UNCHANGED <<proxies, passed, text, fill>>
      BY <2>7 DEF PublishList, locals
    <3>3. \A q \in Runs : RunVouched(q)'
      BY <2>0, <2>7, <3>2 DEF PublishList, Goto, VouchedInv, RunVouched, Current
    <3>4. QED
      BY <3>1, <3>2, <3>3 DEF VouchedInv, PublishedVouched
  <2>8. ASSUME NEW r \in Runs, PublishCount(r) \/ SpeedTest(r) PROVE VouchedInv'
    <3>1. UNCHANGED <<proxies, passed, list, text, fill>>
      BY <2>8 DEF PublishCount, SpeedTest, locals
    <3>2. RunVouched(r)'
      BY <2>0, <2>8, <3>1 DEF PublishCount, SpeedTest, Goto, VouchedInv, RunVouched,
                              Current
    <3>3. QED
      BY <2>0, <2>8, <3>1, <3>2, OneRunMoves DEF PublishCount, SpeedTest, Goto
  <2>9. ASSUME NEW r \in Runs, NEW f \in Formats, PublishText(r, f) PROVE VouchedInv'
    <3>1. Vouched(Provide(Current(r)))
      BY <2>9, CurrentList, ProvideText DEF PublishText, Goto, Formats, VouchedInv,
                                            RunVouched
    <3>2. \A g \in Formats : text'[g] # NoText => Vouched(text'[g])
      BY <2>9, <3>1 DEF PublishText, NewText, VouchedInv, PublishedVouched, TypeOK,
                        PublishedOK
    <3>3. UNCHANGED <<list, fill>>
      BY <2>9 DEF PublishText
    <3>4. \A q \in Runs : RunVouched(q)'
      BY <2>0, <2>9 DEF PublishText, Goto, Formats, VouchedInv, RunVouched, Current
    <3>5. QED
      BY <3>2, <3>3, <3>4 DEF VouchedInv, PublishedVouched
  <2>10. ASSUME NEW h \in Handlers,
                FillRender(h) \/ FillStore(h) \/ \E f \in Formats : FillMiss(h, f)
         PROVE VouchedInv'
    <3>1. UNCHANGED <<pc, proxies, passed, list>>
      BY <2>10 DEF FillRender, FillStore, FillMiss, locals, published
    <3>2. fill \in [Handlers -> Fills] /\ list \in Lists /\ Vouched(list)
          /\ Vouched(Provide(list)) /\ text \in [Formats -> Texts \cup {NoText}]
      BY ProvideText DEF TypeOK, PublishedOK, VouchedInv, PublishedVouched
    <3>3. \A g \in Handlers : fill'[g].at = "rendered" => Vouched(fill'[g].text)
      BY <2>10, <3>2 DEF FillRender, FillStore, FillMiss, VouchedInv, PublishedVouched,
                         NoFill
    <3>4. \A f \in Formats : text'[f] # NoText => Vouched(text'[f])
      BY <2>10, <3>2 DEF FillRender, FillStore, FillMiss, VouchedInv, PublishedVouched,
                         published
    <3>5. QED
      BY <3>1, <3>2, <3>3, <3>4 DEF VouchedInv, PublishedVouched, RunVouched, Current
  <2>11. CASE UNCHANGED vars
    BY <2>11 DEF vars, locals, published, VouchedInv, PublishedVouched, RunVouched,
                 Current
  <2>12. QED
    BY <2>1, <2>2, <2>3, <2>4, <2>5, <2>6, <2>7, <2>8, <2>9, <2>10, <2>11
       DEF Next, Advance, Fetch, Publish, Handle
<1>3. QED
  BY <1>1, <1>2, TypeCorrect, PTL DEF Spec, VouchedInv

-----------------------------------------------------------------------------
(* A run that began alone, as long as none has begun since: nobody else is *)
(* in a run, and what it has published so far is of its own nodes.         *)
RunAgrees(r) ==
    /\ pc[r] \in {"check", "retry", "recheck", "publish", "count", "speed", "clash", "surge"}
         => Cardinality(proxies[r]) <= allCount
    /\ pc[r] \in {"count", "speed", "clash", "surge"} => list.nodes = proxies[r]
    /\ pc[r] \in {"speed", "clash", "surge"} => usableCount = Cardinality(proxies[r])
    /\ pc[r] = "surge" => /\ text["clash"] # NoText
                          /\ "clash" \in late \/ text["clash"].nodes = list.nodes

SoloInv ==
    ~overlapped => /\ \A q, r \in Runs : InRun(q) /\ InRun(r) => q = r
                   /\ \A r \in Runs : RunAgrees(r)

(* A step of a run: nobody else is in one.                                 *)
LEMMA AloneMoves ==
    ASSUME TypeOK, SoloInv, overlapped' = overlapped, NEW r \in Runs, InRun(r),
           \A q \in Runs : q # r => pc'[q] = pc[q],
           ~overlapped => RunAgrees(r)'
    PROVE  SoloInv'
<1> SUFFICES ASSUME ~overlapped
             PROVE  /\ \A q, s \in Runs : InRun(q)' /\ InRun(s)' => q = s
                    /\ \A q \in Runs : RunAgrees(q)'
  BY DEF SoloInv
<1>1. \A q \in Runs : q # r => ~InRun(q)
  BY DEF SoloInv
<1>2. \A q \in Runs : q # r => ~InRun(q)'
  BY <1>1 DEF InRun
<1>3. ASSUME NEW q \in Runs, q # r PROVE RunAgrees(q)'
  BY <1>2, <1>3 DEF InRun, RunAgrees
<1>4. QED
  BY <1>2, <1>3

(* A step that is of no run in progress and leaves what is published.      *)
LEMMA OthersMove ==
    ASSUME SoloInv, UNCHANGED <<overlapped, proxies, allCount, usableCount, list, text, late>>,
           \A q \in Runs : pc'[q] = pc[q] \/ ~InRun(q)'
    PROVE  SoloInv'
<1> SUFFICES ASSUME ~overlapped
             PROVE  /\ \A q, s \in Runs : InRun(q)' /\ InRun(s)' => q = s
                    /\ \A q \in Runs : RunAgrees(q)'
  BY DEF SoloInv
<1>1. \A q \in Runs : InRun(q)' => InRun(q)
  BY DEF InRun
<1>2. \A q \in Runs : RunAgrees(q)'
  BY DEF SoloInv, RunAgrees, InRun
<1>3. QED
  BY <1>1, <1>2 DEF SoloInv

(* What the run that ends leaves behind.                                   *)
LEMMA SoloEnds ==
    ASSUME TypeOK, SoloInv, [Next]_vars, NEW r \in Runs, pc[r] = "surge", pc'[r] = "idle", ~overlapped
    PROVE  /\ usableCount' = Cardinality(list'.nodes)
           /\ usableCount' <= allCount'
           /\ \A f \in Formats \ late' : text'[f].nodes = list'.nodes
<1>1. PublishText(r, "surge")
  <2>1. pc \in [Runs -> {"idle", "filling", "defaulting", "begin", "wait", "servers", "fetch", "check",
                         "retry", "recheck", "publish", "count", "speed", "clash", "surge"}]
    BY DEF TypeOK, RunsOK
  <2>2. ASSUME NEW q \in Runs, NEW from, NEW to, Goto(q, from, to)
        PROVE  q = r /\ from = "surge" /\ to = "idle"
    BY <2>1, <2>2 DEF Goto
  <2>3. pc' # pc
    OBVIOUS
  <2>4. ASSUME NEW c \in CronJobs PROVE ~Parse(c)
    <3>1. c \in Runs
      BY DEF Runs
    <3>2. ~ParseUnreadable(c) /\ ~ParseClear(c) /\ ~ParseDefaults(c)
      BY <2>2, <3>1 DEF ParseUnreadable, ParseClear, ParseDefaults
    <3>3. \A f \in ConfigFiles : ~ParseFill(c, f) /\ ~ParseReject(c, f)
      BY <2>2, <3>1 DEF ParseFill, ParseReject
    <3>4. QED
      BY <3>2, <3>3 DEF Parse
  <2>5. ASSUME NEW q \in Runs PROVE ~BeginRun(q)
    <3>1. pc' = [pc EXCEPT ![q] = "servers"] => pc'[q] = "servers" /\ \A s \in Runs : s # q => pc'[s] = pc[s]
      BY <2>1
    <3>2. QED
      BY <3>1 DEF BeginRun
  <2>6. ASSUME NEW q \in Runs PROVE ~ReadServers(q) /\ ~Fetch(q)
    <3>1. ~ReadServers(q) /\ ~RunFails(q) /\ ~FetchDone(q) /\ ~RetryDone(q)
      BY <2>2 DEF ReadServers, RunFails, FetchDone, RetryDone
    <3>2. ~Check(q) /\ ~Recheck(q)
      BY <2>2 DEF Check, Recheck
    <3>3. \A s \in Servers : ~FetchAnswer(q, s) /\ ~FetchError(q, s) /\ ~RetryOne(q, s)
      BY <2>3 DEF FetchAnswer, FetchError, RetryOne
    <3>4. QED
      BY <3>1, <3>2, <3>3 DEF Fetch
  <2>7. ASSUME NEW q \in Runs PROVE ~PublishList(q) /\ ~PublishCount(q) /\ ~SpeedTest(q)
    BY <2>2 DEF PublishList, PublishCount, SpeedTest
  <2>8. ASSUME NEW q \in Runs, NEW f \in Formats, PublishText(q, f) PROVE q = r /\ f = "surge"
    BY <2>2, <2>8 DEF PublishText
  <2>9. ASSUME NEW h \in Handlers PROVE ~Handle(h) /\ \A f \in Formats : ~FillMiss(h, f)
    BY <2>3 DEF Handle, FillRender, FillStore, FillMiss
  <2>10. ~UNCHANGED vars
    BY <2>3 DEF vars
  <2>11. PICK q \in Runs : Publish(q)
    BY <2>4, <2>5, <2>6, <2>9, <2>10 DEF Next, Advance
  <2>12. PICK f \in Formats : PublishText(q, f)
    BY <2>7, <2>11 DEF Publish
  <2>13. QED
    BY <2>8, <2>12
<1>2. RunAgrees(r) /\ list.nodes = proxies[r] /\ usableCount = Cardinality(proxies[r])
      /\ Cardinality(proxies[r]) <= allCount
      /\ text["clash"] # NoText /\ ("clash" \in late \/ text["clash"].nodes = list.nodes)
  BY DEF SoloInv, RunAgrees
<1>3. /\ text' = [text EXCEPT !["surge"] = Provide(Current(r))] /\ late' = late \ {"surge"}
      /\ UNCHANGED <<list, allCount, usableCount>>
  BY <1>1 DEF PublishText, NewText
<1>4. text \in [Formats -> Texts \cup {NoText}] /\ Formats = {"clash", "surge"}
  BY DEF TypeOK, PublishedOK, Formats
<1>5. Provide(Current(r)).nodes = proxies[r]
  BY DEF Provide, Current
<1>6. text'["surge"].nodes = list.nodes /\ text'["clash"] = text["clash"]
  BY <1>2, <1>3, <1>4, <1>5
<1>7. QED
  BY <1>2, <1>3, <1>4, <1>6

(* A run that no other overlaps leaves a site of one piece, for every set  *)
(* of runs, nodes and handlers.                                            *)
THEOREM SoloRunsAgree == Spec => SoloRunAgrees
<1>1. Init => SoloInv
  BY DEF Init, SoloInv, RunAgrees, InRun
<1>2. TypeOK /\ TypeOK' /\ SoloInv /\ [Next]_vars => SoloInv'
  <2> SUFFICES ASSUME TypeOK, TypeOK', SoloInv, [Next]_vars PROVE SoloInv'
    OBVIOUS
  <2>0. /\ pc \in [Runs -> {"idle", "filling", "defaulting", "begin", "wait", "servers", "fetch", "check",
                            "retry", "recheck", "publish", "count", "speed", "clash", "surge"}]
        /\ proxies \in [Runs -> SUBSET Nodes] /\ newProxies \in [Runs -> SUBSET Nodes]
        /\ allCount \in Nat /\ text \in [Formats -> Texts \cup {NoText}]
    <3>1. Cardinality(Nodes) \in Nat
      BY RefreshAssumption, FS_CardinalityType
    <3>2. allCount \in Nat
      BY <3>1 DEF TypeOK, PublishedOK
    <3>3. QED
      BY <3>2 DEF TypeOK, RunsOK, PublishedOK
  <2>1. ASSUME NEW S, S \subseteq Nodes
        PROVE  Cardinality(S) \in Nat /\ \A T \in SUBSET S : Cardinality(T) <= Cardinality(S)
    <3>1. IsFiniteSet(S)
      BY <2>1, RefreshAssumption, FS_Subset
    <3>2. QED
      BY <3>1, FS_CardinalityType, FS_Subset
  <2>2. ASSUME NEW c \in CronJobs, Parse(c) PROVE SoloInv'
    <3>1. c \in Runs
      BY DEF Runs
    <3>2. UNCHANGED <<overlapped, proxies, allCount, usableCount, list, text, late>>
      BY <2>2 DEF Parse, ParseUnreadable, ParseClear, ParseFill, ParseReject, ParseDefaults, locals, published
    <3>3. \A q \in Runs : pc'[q] = pc[q] \/ ~InRun(q)'
      BY <2>0, <2>2, <3>1 DEF Parse, ParseUnreadable, ParseClear, ParseFill, ParseReject, ParseDefaults, Goto, InRun
    <3>4. QED
      BY <3>2, <3>3, OthersMove
  <2>3. ASSUME NEW r \in Runs, BeginRun(r) PROVE SoloInv'
    <3> SUFFICES ASSUME ~overlapped'
                 PROVE  /\ \A q, s \in Runs : InRun(q)' /\ InRun(s)' => q = s
                        /\ \A q \in Runs : RunAgrees(q)'
      BY DEF SoloInv
    <3>1. \A q \in Runs : ~InRun(q)
      BY <2>3 DEF BeginRun
    <3>2. pc' = [pc EXCEPT ![r] = "servers"]
      BY <2>3 DEF BeginRun
    <3>3. \A q \in Runs : q # r => ~InRun(q)' /\ pc'[q] = pc[q]
      BY <2>0, <3>1, <3>2 DEF InRun
    <3>4. pc'[r] = "servers"
      BY <2>0, <3>2
    <3>5. \A q \in Runs : RunAgrees(q)'
      BY <3>1, <3>3, <3>4 DEF RunAgrees, InRun
    <3>6. QED
      BY <3>3, <3>5
  <2>4. ASSUME NEW r \in Runs, ReadServers(r) PROVE SoloInv'
    <3>1. InRun(r) /\ overlapped' = overlapped /\ (\A q \in Runs : q # r => pc'[q] = pc[q]) /\ pc'[r] = "fetch"
      BY <2>0, <2>4 DEF ReadServers, Goto, InRun
    <3>2. QED
      BY <3>1, AloneMoves DEF RunAgrees
  <2>5. ASSUME NEW r \in Runs, NEW s \in Servers, FetchAnswer(r, s) \/ FetchError(r, s)
        PROVE  SoloInv'
    <3>1. InRun(r) /\ overlapped' = overlapped /\ (\A q \in Runs : q # r => pc'[q] = pc[q])
          /\ pc'[r] = "fetch"
      BY <2>5 DEF FetchAnswer, FetchError, InRun
    <3>2. QED
      BY <3>1, AloneMoves DEF RunAgrees
  <2>6. ASSUME NEW r \in Runs, NEW s \in Servers, RetryOne(r, s) PROVE SoloInv'
    <3>1. pc[r] = "retry" /\ pc' = pc /\ UNCHANGED <<overlapped, proxies, allCount, usableCount, list, text, late>>
      BY <2>6 DEF RetryOne, published
    <3>2. QED
      BY <3>1, OthersMove
  <2>7. ASSUME NEW r \in Runs, RunFails(r) PROVE SoloInv'
    <3>1. InRun(r) /\ overlapped' = overlapped /\ (\A q \in Runs : q # r => pc'[q] = pc[q])
          /\ pc'[r] \in {"wait", "idle"}
      BY <2>0, <2>7 DEF RunFails, AfterError, Goto, InRun
    <3>2. QED
      BY <3>1, AloneMoves DEF RunAgrees
  <2>8. ASSUME NEW r \in Runs, FetchDone(r) PROVE SoloInv'
    <3>1. InRun(r) /\ overlapped' = overlapped /\ (\A q \in Runs : q # r => pc'[q] = pc[q]) /\ pc'[r] = "check"
      BY <2>0, <2>8 DEF FetchDone, Goto, InRun
    <3>2. proxies'[r] = Derive(proxies[r]) /\ allCount' = Cardinality(Derive(proxies[r]))
      BY <2>0, <2>8 DEF FetchDone
    <3>3. Cardinality(Derive(proxies[r])) \in Nat
      BY <2>0, <2>1, DeriveGrows
    <3>4. QED
      BY <3>1, <3>2, <3>3, AloneMoves DEF RunAgrees
  <2>9. ASSUME NEW r \in Runs, Check(r) PROVE SoloInv'
    <3>1. PICK good \in SUBSET proxies[r] : proxies' = [proxies EXCEPT ![r] = good]
      BY <2>9 DEF Check, Survivors
    <3>2. /\ InRun(r) /\ overlapped' = overlapped /\ \A q \in Runs : q # r => pc'[q] = pc[q]
          /\ pc[r] = "check" /\ pc'[r] \in {"retry", "publish"} /\ allCount' = allCount
      BY <2>0, <2>9 DEF Check, Goto, InRun, published
    <3>3. Cardinality(good) <= Cardinality(proxies[r]) /\ Cardinality(good) \in Nat
          /\ Cardinality(proxies[r]) \in Nat
      BY <2>0, <2>1
    <3>4. ~overlapped => Cardinality(proxies[r]) <= allCount
      BY <3>2 DEF SoloInv, RunAgrees
    <3>5. ~overlapped => Cardinality(good) <= allCount
      BY <2>0, <3>3, <3>4
    <3>6. proxies'[r] = good
      BY <2>0, <3>1
    <3>7. QED
      BY <3>2, <3>5, <3>6, AloneMoves DEF RunAgrees
  <2>10. ASSUME NEW r \in Runs, RetryDone(r) PROVE SoloInv'
    <3>1. /\ InRun(r) /\ overlapped' = overlapped /\ \A q \in Runs : q # r => pc'[q] = pc[q]
          /\ pc[r] = "retry" /\ pc'[r] \in {"publish", "recheck"} /\ allCount' = allCount /\ proxies' = proxies
      BY <2>0, <2>10 DEF RetryDone, Goto, InRun, published
    <3>2. QED
      BY <3>1, AloneMoves DEF RunAgrees, SoloInv
  <2>11. ASSUME NEW r \in Runs, Recheck(r) PROVE SoloInv'
    <3>1. PICK good \in SUBSET newProxies[r] :
            LET merged == IF good = {} THEN proxies[r] ELSE Merge(proxies[r], good) IN
            proxies' = [proxies EXCEPT ![r] = merged] /\ allCount' = CountMerged(good, merged)
      BY <2>11 DEF Recheck, Survivors
    <3>2. /\ InRun(r) /\ overlapped' = overlapped /\ \A q \in Runs : q # r => pc'[q] = pc[q]
          /\ pc[r] = "recheck" /\ pc'[r] = "publish"
      BY <2>0, <2>11 DEF Recheck, Goto, InRun
    <3>3. CASE good = {}
      <4>1. proxies'[r] = proxies[r] /\ allCount' = allCount
        BY <2>0, <3>1, <3>3 DEF CountMerged
      <4>2. QED
        BY <3>2, <4>1, AloneMoves DEF RunAgrees, SoloInv
    <3>4. CASE good # {}
      <4>1. proxies'[r] = Merge(proxies[r], good) /\ allCount' = Cardinality(Merge(proxies[r], good))
        BY <2>0, <3>1, <3>4 DEF CountMerged
      <4>2. Cardinality(Merge(proxies[r], good)) \in Nat
        BY <2>0, <2>1, DeriveGrows DEF Merge
      <4>3. QED
        BY <3>2, <4>1, <4>2, AloneMoves DEF RunAgrees
    <3>5. QED
      BY <3>3, <3>4
  <2>12. ASSUME NEW r \in Runs, PublishList(r) \/ PublishCount(r) \/ SpeedTest(r) PROVE SoloInv'
    <3>1. /\ InRun(r) /\ overlapped' = overlapped /\ \A q \in Runs : q # r => pc'[q] = pc[q]
          /\ proxies' = proxies /\ allCount' = allCount
      BY <2>0, <2>12 DEF PublishList, PublishCount, SpeedTest, Goto, InRun, locals
    <3>2. ~overlapped => RunAgrees(r)'
      <4>1. CASE PublishList(r)
        <5>1. pc[r] = "publish" /\ pc'[r] = "count" /\ list'.nodes = proxies[r]
          BY <2>0, <4>1 DEF PublishList, Goto, Current
        <5>2. QED
          BY <3>1, <5>1 DEF RunAgrees, SoloInv
      <4>2. CASE PublishCount(r)
        <5>1. pc[r] = "count" /\ pc'[r] = "speed" /\ list' = list /\ usableCount' = Cardinality(proxies[r])
          BY <2>0, <4>2 DEF PublishCount, Goto
        <5>2. QED
          BY <3>1, <5>1 DEF RunAgrees, SoloInv
      <4>3. CASE SpeedTest(r)
        <5>1. pc[r] = "speed" /\ pc'[r] = "clash" /\ list' = list /\ usableCount' = usableCount
          BY <2>0, <4>3 DEF SpeedTest, Goto
        <5>2. QED
          BY <3>1, <5>1 DEF RunAgrees, SoloInv
      <4>4. QED
        BY <2>12, <4>1, <4>2, <4>3
    <3>3. QED
      BY <3>1, <3>2, AloneMoves
  <2>13. ASSUME NEW r \in Runs, NEW f \in Formats, PublishText(r, f) PROVE SoloInv'
    <3>1. /\ InRun(r) /\ overlapped' = overlapped /\ \A q \in Runs : q # r => pc'[q] = pc[q]
          /\ pc[r] = f /\ pc'[r] = IF f = "clash" THEN "surge" ELSE "idle"
          /\ allCount' = allCount /\ usableCount' = usableCount /\ list' = list
          /\ text' = [text EXCEPT ![f] = Provide(Current(r))]
          /\ f = "clash" => proxies' = proxies
      BY <2>0, <2>13 DEF PublishText, Goto, InRun, Formats, NewText
    <3>2. CASE f = "clash"
      <4>1. Provide(Current(r)).nodes = proxies[r] /\ Provide(Current(r)) # NoText
        BY CurrentList, ProvideText, RefreshAssumption DEF Provide, Current
      <4>2. text'["clash"] = Provide(Current(r))
        BY <2>0, <3>1, <3>2 DEF Formats
      <4>3. QED
        BY <3>1, <3>2, <4>1, <4>2, AloneMoves DEF RunAgrees, SoloInv
    <3>3. CASE f # "clash"
      BY <3>1, <3>3, AloneMoves DEF RunAgrees
    <3>4. QED
      BY <3>2, <3>3
  <2>14. ASSUME NEW h \in Handlers, FillRender(h) \/ FillStore(h) \/ \E f \in Formats : FillMiss(h, f)
         PROVE  SoloInv'
    <3>1. UNCHANGED <<pc, proxies, allCount, usableCount, list, overlapped>>
      BY <2>14 DEF FillRender, FillStore, FillMiss, locals, published
    <3>2. CASE text' = text /\ late' = late
      BY <3>1, <3>2, OthersMove
    <3>3. CASE FillStore(h)
      <4>1. PICK f \in Formats : /\ text' = [text EXCEPT ![f] = fill[h].text] /\ fill[h].text \in Texts
                                 /\ late' = IF text[f] = NoText THEN late ELSE late \cup {f}
        <5>1. fill[h] \in Fills /\ fill[h].at = "rendered"
          BY <3>3 DEF FillStore, TypeOK
        <5>2. fill[h].format \in Formats /\ fill[h].text \in Texts
          BY <5>1 DEF Fills, NoFill
        <5>3. QED
          BY <3>3, <5>2 DEF FillStore
      <4>2. "clash" \in Formats
        BY DEF Formats
      <4>3. text["clash"] # NoText => text'["clash"] # NoText /\ (text'["clash"] = text["clash"] \/ "clash" \in late')
        BY <2>0, <4>1, <4>2, RefreshAssumption
      <4>4. late \subseteq late'
        BY <4>1
      <4>5. QED
        BY <3>1, <4>3, <4>4 DEF SoloInv, RunAgrees, InRun
    <3>4. QED
      BY <2>14, <3>2, <3>3 DEF FillRender, FillMiss, published
  <2>15. CASE UNCHANGED vars
    BY <2>15, OthersMove DEF vars, locals, published
  <2>16. QED
    BY <2>2, <2>3, <2>4, <2>5, <2>6, <2>7, <2>8, <2>9, <2>10, <2>11, <2>12, <2>13, <2>14, <2>15
       DEF Next, Advance, Fetch, Publish, Handle
<1>3. TypeOK /\ SoloInv /\ [Next]_vars
        => [\A r \in Runs : (pc[r] = "surge" /\ pc'[r] = "idle" /\ ~overlapped) =>
              /\ usableCount' = Cardinality(list'.nodes)
              /\ usableCount' <= allCount'
              /\ \A f \in Formats \ late' : text'[f].nodes = list'.nodes]_vars
  BY SoloEnds
<1>4. QED
  BY <1>1, <1>2, <1>3, TypeCorrect, PTL DEF Spec, SoloRunAgrees
=============================================================================
