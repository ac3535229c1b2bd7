------------------------------ MODULE RuleStore ------------------------------
(***************************************************************************)
(* The rules that decide which targets are dialled directly: the domain    *)
(* set and the CIDR list of the RuleManager in memory, and their cache     *)
(* files data/china_domain.txt and data/china_ip.txt.                      *)
(*                                                                         *)
(* Every run of InitApp first loads both files (LoadCache) and, if it gets *)
(* as far as phase 3, downloads both texts again (DownloadAndLoad): it     *)
(* installs a text and then rewrites its file.  A text is a set of rules:  *)
(* the lines the parser accepts.  A file that is absent, empty, or holds   *)
(* no rule at all (an error page) is the empty set.  Runs overlap, writing *)
(* a file is truncation and then a write, and the process may be killed.   *)
(***************************************************************************)
EXTENDS Naturals

CONSTANTS
    Rules,       \* lines the parsers accept
    Builtin,     \* Builtin[k]: the rules compiled into the program
    Served,      \* Served[k]: the texts of over 100 bytes the providers may serve
    Runs,        \* runs of InitApp that may overlap
    DiskFails,   \* whether writing a cache file may fail
    MaxKills     \* bound: times the process is killed

Kinds == {"domain", "ip"}

ASSUME RuleAssumption ==
    /\ Builtin \in [Kinds -> SUBSET Rules]
    /\ Builtin["ip"] # {}
    /\ Served \in [Kinds -> SUBSET SUBSET Rules]
    /\ DiskFails \in BOOLEAN
    /\ MaxKills \in Nat

VARIABLES
    rules,     \* rules[k]: DomainMatcher.domains and IPMatcher.cidrs
    file,      \* file[k]: the rules of the cache file
    pc,        \* where each run is: a phase, and the kind it works on
    data,      \* the text a run has read or downloaded
    ready,     \* history: the kinds some LoadCache has loaded since the start
    nKills

vars == <<rules, file, pc, data, ready, nKills>>

At(phase, k) == [phase |-> phase, kind |-> k]
Idle == At("idle", "domain")

Init ==
    /\ rules = Builtin
    /\ file \in [Kinds -> {{}} \cup UNION {Served[k] : k \in Kinds}]
    /\ \A k \in Kinds : file[k] \in {{}} \cup Served[k]
    /\ pc = [r \in Runs |-> Idle]
    /\ data = [r \in Runs |-> {}]
    /\ ready = {}
    /\ nKills = 0

Goto(r, from, to) ==
    /\ pc[r] = from
    /\ pc' = [pc EXCEPT ![r] = to]

(* LoadFromReader: domains accumulate; the CIDR list is replaced, unless   *)
(* the text has no rule.                                                   *)
ReplaceAlways(k, old, new) ==         \* bug: no test of len(list) == 0
    IF k = "domain" THEN old \cup new ELSE new
ReplaceBoth(k, old, new) == IF new = {} THEN old ELSE new    \* bug: a fresh map
Loaded(k, old, new) ==
    CASE k = "domain" -> old \cup new
      [] k = "ip" /\ new # {} -> new
      [] OTHER -> old

Install(r, k) == rules' = [rules EXCEPT ![k] = Loaded(k, @, data[r])]

-----------------------------------------------------------------------------
(* LoadCache: one kind after the other                                     *)

ReadCache(r, k) ==
    /\ IF k = "domain" THEN pc[r] = Idle ELSE pc[r] = At("cached", "domain")
    /\ pc' = [pc EXCEPT ![r] = At("read", k)]
    /\ data' = [data EXCEPT ![r] = file[k]]
    /\ UNCHANGED <<rules, file, ready, nKills>>

LoadCache(r, k) ==
    /\ Goto(r, At("read", k), At("cached", k))
    /\ Install(r, k)
    /\ data' = [data EXCEPT ![r] = {}]
    /\ ready' = ready \cup {k}
    /\ UNCHANGED <<file, nKills>>

(* InitApp returns early when no server had a node.                        *)
NoNodes(r) ==
    /\ Goto(r, At("cached", "ip"), Idle)
    /\ UNCHANGED <<rules, file, data, ready, nKills>>

-----------------------------------------------------------------------------
(* DownloadAndLoad: one kind after the other                               *)

Begins(r, k) == pc[r] = IF k = "domain" THEN At("cached", "ip") ELSE At("done", "domain")
AfterKindStays(k) == At("done", k)                      \* bug: never returns
AfterKind(k) == IF k = "domain" THEN At("done", "domain") ELSE Idle

(* One of the URLs answers, directly or through a node, with a long text.  *)
Download(r, k, t) ==
    /\ Begins(r, k)
    /\ pc' = [pc EXCEPT ![r] = At("got", k)]
    /\ data' = [data EXCEPT ![r] = t]
    /\ UNCHANGED <<rules, file, ready, nKills>>

(* No URL of this kind answers.                                            *)
DownloadFails(r, k) ==
    /\ Begins(r, k)
    /\ pc' = [pc EXCEPT ![r] = AfterKind(k)]
    /\ UNCHANGED <<rules, file, data, ready, nKills>>

LoadDownload(r, k) ==
    /\ Goto(r, At("got", k), At("loaded", k))
    /\ Install(r, k)
    /\ UNCHANGED <<file, data, ready, nKills>>

(* WriteFile opens with O_TRUNC; its error is dropped.                     *)
TruncateCache(r, k) ==
    /\ Goto(r, At("loaded", k), At("opened", k))
    /\ file' = [file EXCEPT ![k] = {}]
    /\ UNCHANGED <<rules, data, ready, nKills>>

(* The write covers what another run wrote since, or leaves its tail.      *)
WriteCache(r, k) ==
    /\ Goto(r, At("opened", k), AfterKind(k))
    /\ \E tail \in SUBSET file[k] : file' = [file EXCEPT ![k] = data[r] \cup tail]
    /\ data' = [data EXCEPT ![r] = {}]
    /\ UNCHANGED <<rules, ready, nKills>>

WriteFails(r, k) ==
    /\ DiskFails
    /\ pc[r] \in {At("loaded", k), At("opened", k)}
    /\ pc' = [pc EXCEPT ![r] = AfterKind(k)]
    /\ data' = [data EXCEPT ![r] = {}]
    /\ UNCHANGED <<rules, file, ready, nKills>>

-----------------------------------------------------------------------------
(* The process is killed and started again; a write in progress may have   *)
(* reached the disk in part.                                               *)
Kill ==
    /\ nKills < MaxKills
    /\ rules' = Builtin
    /\ file' \in [Kinds -> SUBSET Rules]
    /\ \A k \in Kinds :
           \/ file'[k] = file[k]
           \/ \E r \in Runs : pc[r] = At("opened", k) /\ file'[k] \subseteq data[r]
    /\ pc' = [r \in Runs |-> Idle]
    /\ data' = [r \in Runs |-> {}]
    /\ ready' = {}
    /\ nKills' = nKills + 1

Step(r, k) ==
    \/ ReadCache(r, k) \/ LoadCache(r, k)
    \/ DownloadFails(r, k) \/ LoadDownload(r, k)
    \/ TruncateCache(r, k) \/ WriteCache(r, k) \/ WriteFails(r, k)
    \/ \E t \in Served[k] : Download(r, k, t)

Next ==
    \/ \E r \in Runs : NoNodes(r) \/ \E k \in Kinds : Step(r, k)
    \/ Kill

Spec == Init /\ [][Next]_vars

-----------------------------------------------------------------------------
(* Types.  A run that has dealt with both kinds has returned.              *)
Places == [phase : {"idle", "read", "cached", "got", "loaded", "opened", "done"},
           kind : Kinds]

TypeOK ==
    /\ rules \in [Kinds -> SUBSET Rules]
    /\ file \in [Kinds -> SUBSET Rules]
    /\ pc \in [Runs -> Places]
    /\ \A r \in Runs : pc[r].phase \in {"idle", "done"} => pc[r].kind = "domain"
    /\ data \in [Runs -> SUBSET Rules]
    /\ ready \in SUBSET Kinds
    /\ nKills \in 0..MaxKills

(* Whatever is downloaded, cut short or mixed on disk, the CIDR list in    *)
(* force is never empty: no text without a rule takes the list away.       *)
IpListNeverEmpty == rules["ip"] # {}

(* A domain text is in force before it is cached, so once the cache has    *)
(* been loaded nothing on disk is unknown in memory: neither overlapping   *)
(* runs nor a kill in the middle of a write leave rules that only a        *)
(* restart would bring into force.                                         *)
CachedIsInForce == "domain" \in ready => file["domain"] \subseteq rules["domain"]
=============================================================================
