--------------------------- MODULE RuleStoreProofs ---------------------------
(* Proofs about RuleStore for any rules, texts, and number of runs, and    *)
(* about the matchers beside it for any texts, targets and names.          *)
EXTENDS MCRuleStore, SequenceTheorems, WellFoundedInduction, TLAPS

(* Loading a text keeps a list of rules a list of rules, and never empties *)
(* one; domains only accumulate.                                           *)
LEMMA LoadedType ==
    ASSUME NEW k \in Kinds, NEW old, NEW new, old \subseteq Rules, new \subseteq Rules
    PROVE  /\ Loaded(k, old, new) \subseteq Rules
           /\ old # {} => Loaded(k, old, new) # {}
           /\ k = "domain" => Loaded(k, old, new) = old \cup new
BY DEF Loaded, Kinds

Places1 == {p \in Places : p.phase \in {"idle", "done"} => p.kind = "domain"}

(* A run that moves to a place with a text moves within the types.         *)
LEMMA RunMoves ==
    ASSUME TypeOK, NEW r \in Runs, NEW p \in Places1,
           pc' = [pc EXCEPT ![r] = p], data' \in [Runs -> SUBSET Rules],
           rules' \in [Kinds -> SUBSET Rules], file' \in [Kinds -> SUBSET Rules],
           ready' \in SUBSET Kinds, UNCHANGED nKills
    PROVE  TypeOK'
BY DEF TypeOK, Places1

LEMMA Places1Type ==
    ASSUME NEW k \in Kinds
    PROVE  /\ \A ph \in {"read", "cached", "got", "loaded", "opened"} : At(ph, k) \in Places1
           /\ Idle \in Places1 /\ AfterKind(k) \in Places1
BY DEF At, Places, Places1, Idle, AfterKind, Kinds

(* The type invariant, for any rules and any number of runs and kills.     *)
THEOREM TypeCorrect == Spec => []TypeOK
<1>1. Init => TypeOK
  <2> SUFFICES ASSUME Init PROVE TypeOK
    OBVIOUS
  <2>1. rules \in [Kinds -> SUBSET Rules] /\ nKills \in 0..MaxKills
    BY RuleAssumption DEF Init
  <2>2. file \in [Kinds -> SUBSET Rules]
    <3>1. \A k \in Kinds : file[k] \subseteq Rules
      BY RuleAssumption DEF Init
    <3>2. QED
      BY <3>1 DEF Init
  <2>3. pc \in [Runs -> Places] /\ data \in [Runs -> SUBSET Rules]
    BY DEF Init, Idle, At, Places, Kinds
  <2>4. \A r \in Runs : pc[r].kind = "domain"
    BY DEF Init, Idle, At
  <2>5. QED
    BY <2>1, <2>2, <2>3, <2>4 DEF Init, TypeOK
<1>2. TypeOK /\ [Next]_vars => TypeOK'
  <2> SUFFICES ASSUME TypeOK, [Next]_vars PROVE TypeOK'
    OBVIOUS
  <2> USE DEF TypeOK
  <2>1. ASSUME NEW r \in Runs, NEW k \in Kinds, ReadCache(r, k) PROVE TypeOK'
    BY <2>1, RunMoves, Places1Type DEF ReadCache
  <2>2. ASSUME NEW r \in Runs, NEW k \in Kinds, LoadCache(r, k) PROVE TypeOK'
    <3>1. rules' \in [Kinds -> SUBSET Rules]
      BY <2>2, LoadedType DEF LoadCache, Install
    <3>2. QED
      BY <2>2, <3>1, RunMoves, Places1Type DEF LoadCache, Goto
  <2>3. ASSUME NEW r \in Runs, NoNodes(r) PROVE TypeOK'
    BY <2>3, RunMoves, Places1Type DEF NoNodes, Goto, Kinds
  <2>4. ASSUME NEW r \in Runs, NEW k \in Kinds, NEW t \in Served[k], Download(r, k, t)
        PROVE TypeOK'
    <3>1. t \subseteq Rules
      BY <2>4, RuleAssumption
    <3>2. QED
      BY <2>4, <3>1, RunMoves, Places1Type DEF Download
  <2>5. ASSUME NEW r \in Runs, NEW k \in Kinds, DownloadFails(r, k) PROVE TypeOK'
    BY <2>5, RunMoves, Places1Type DEF DownloadFails
  <2>6. ASSUME NEW r \in Runs, NEW k \in Kinds, LoadDownload(r, k) PROVE TypeOK'
    <3>1. rules' \in [Kinds -> SUBSET Rules]
      BY <2>6, LoadedType DEF LoadDownload, Install
    <3>2. QED
      BY <2>6, <3>1, RunMoves, Places1Type DEF LoadDownload, Goto
  <2>7. ASSUME NEW r \in Runs, NEW k \in Kinds, TruncateCache(r, k) PROVE TypeOK'
    BY <2>7, RunMoves, Places1Type DEF TruncateCache, Goto
  <2>8. ASSUME NEW r \in Runs, NEW k \in Kinds, WriteCache(r, k) PROVE TypeOK'
    <3>1. PICK tail \in SUBSET file[k] : file' = [file EXCEPT ![k] = data[r] \cup tail]
      BY <2>8 DEF WriteCache
    <3>2. file' \in [Kinds -> SUBSET Rules]
      BY <3>1
    <3>3. QED
      BY <2>8, <3>2, RunMoves, Places1Type DEF WriteCache, Goto
  <2>9. ASSUME NEW r \in Runs, NEW k \in Kinds, WriteFails(r, k) PROVE TypeOK'
    BY <2>9, RunMoves, Places1Type DEF WriteFails
  <2>10. CASE Kill
    BY <2>10, RuleAssumption DEF Kill, Places, Idle, At, Kinds
  <2>11. CASE UNCHANGED vars
    BY <2>11 DEF vars, TypeOK
  <2>12. QED
    BY <2>1, <2>2, <2>3, <2>4, <2>5, <2>6, <2>7, <2>8, <2>9, <2>10, <2>11
       DEF Next, Step
<1>3. QED
  BY <1>1, <1>2, PTL DEF Spec

(* For any texts the providers serve and whatever the files hold: the CIDR *)
(* list in force is never empty.                                           *)
THEOREM IpListStays == Spec => []IpListNeverEmpty
<1>1. Init => IpListNeverEmpty
  BY RuleAssumption DEF Init, IpListNeverEmpty
<1>2. TypeOK /\ IpListNeverEmpty /\ [Next]_vars => IpListNeverEmpty'
  <2> SUFFICES ASSUME TypeOK, IpListNeverEmpty, [Next]_vars PROVE IpListNeverEmpty'
    OBVIOUS
  <2>1. ASSUME NEW r \in Runs, NEW k \in Kinds, LoadCache(r, k) \/ LoadDownload(r, k)
        PROVE IpListNeverEmpty'
    <3>1. rules' = [rules EXCEPT ![k] = Loaded(k, rules[k], data[r])]
      BY <2>1 DEF LoadCache, LoadDownload, Install
    <3>2. rules[k] # {} => Loaded(k, rules[k], data[r]) # {}
      BY LoadedType DEF TypeOK
    <3>3. QED
      BY <3>1, <3>2 DEF IpListNeverEmpty, TypeOK, Kinds
  <2>2. CASE Kill
    BY <2>2, RuleAssumption DEF Kill, IpListNeverEmpty
  <2>3. CASE UNCHANGED rules
    BY <2>3 DEF IpListNeverEmpty
  <2>4. QED
    BY <2>1, <2>2, <2>3 DEF Next, Step, ReadCache, NoNodes, Download, DownloadFails,
                            TruncateCache, WriteCache, WriteFails, vars
<1>3. QED
  BY <1>1, <1>2, TypeCorrect, PTL DEF Spec

(* Before the first LoadCache of the domains ends, no run has got further  *)
(* and the file is as it was read; afterwards, what is to be cached, and   *)
(* what is cached, is already in force.                                    *)
CacheInv ==
    /\ CachedIsInForce
    /\ "domain" \notin ready =>
           \A r \in Runs :
               \/ pc[r] = Idle
               \/ pc[r] = At("read", "domain") /\ data[r] = file["domain"]
    /\ \A r \in Runs :
           pc[r] \in {At("loaded", "domain"), At("opened", "domain")} =>
               data[r] \subseteq rules["domain"]

(* The places of a run differ from each other.                             *)
LEMMA Distinct ==
    /\ \A ph, q, k, l : At(ph, k) = At(q, l) <=> ph = q /\ k = l
    /\ Idle = At("idle", "domain")
BY DEF At, Idle

(* For any texts, runs and kills: no domain rule is on disk that is not in *)
(* force once a LoadCache has ended.                                       *)
THEOREM CacheStaysInForce == Spec => []CachedIsInForce
<1>1. Init => CacheInv
  BY DEF Init, CacheInv, CachedIsInForce, Idle, At
<1>2. TypeOK /\ CacheInv /\ [Next]_vars => CacheInv'
  <2> SUFFICES ASSUME TypeOK, CacheInv, [Next]_vars PROVE CacheInv'
    OBVIOUS
  <2> USE Distinct DEF CacheInv, CachedIsInForce, TypeOK
  <2>1. ASSUME NEW r \in Runs, NEW k \in Kinds, ReadCache(r, k) PROVE CacheInv'
    BY <2>1 DEF ReadCache
  <2>2. ASSUME NEW r \in Runs, NEW k \in Kinds, LoadCache(r, k) PROVE CacheInv'
    <3>1. CASE k = "domain"
      <4>1. rules' = [rules EXCEPT !["domain"] = rules["domain"] \cup data[r]]
        BY <2>2, <3>1 DEF LoadCache, Install, Loaded
      <4>2. "domain" \notin ready => data[r] = file["domain"]
        BY <2>2, <3>1 DEF LoadCache, Goto
      <4>3. QED
        BY <2>2, <3>1, <4>1, <4>2 DEF LoadCache, Goto
    <3>2. CASE k = "ip"
      <4>1. rules'["domain"] = rules["domain"]
        BY <2>2, <3>2 DEF LoadCache, Install
      <4>2. "domain" \in ready
        BY <2>2, <3>2 DEF LoadCache, Goto
      <4>3. QED
        BY <2>2, <3>2, <4>1, <4>2 DEF LoadCache, Goto
    <3>3. QED
      BY <3>1, <3>2 DEF Kinds
  <2>3. ASSUME NEW r \in Runs, NoNodes(r) PROVE CacheInv'
    BY <2>3 DEF NoNodes, Goto
  <2>4. ASSUME NEW r \in Runs, NEW k \in Kinds, NEW t \in Served[k], Download(r, k, t)
        PROVE CacheInv'
    BY <2>4 DEF Download, Begins
  <2>5. ASSUME NEW r \in Runs, NEW k \in Kinds, DownloadFails(r, k) PROVE CacheInv'
    BY <2>5 DEF DownloadFails, Begins, AfterKind
  <2>6. ASSUME NEW r \in Runs, NEW k \in Kinds, LoadDownload(r, k) PROVE CacheInv'
    <3>1. "domain" \in ready
      BY <2>6 DEF LoadDownload, Goto
    <3>2. CASE k = "domain"
      <4>1. rules' = [rules EXCEPT !["domain"] = rules["domain"] \cup data[r]]
        BY <2>6, <3>2 DEF LoadDownload, Install, Loaded
      <4>2. QED
        BY <2>6, <3>1, <3>2, <4>1 DEF LoadDownload, Goto
    <3>3. CASE k = "ip"
      <4>1. rules'["domain"] = rules["domain"]
        BY <2>6, <3>3 DEF LoadDownload, Install
      <4>2. QED
        BY <2>6, <3>1, <3>3, <4>1 DEF LoadDownload, Goto
    <3>4. QED
      BY <3>2, <3>3 DEF Kinds
  <2>7. ASSUME NEW r \in Runs, NEW k \in Kinds, TruncateCache(r, k) PROVE CacheInv'
    BY <2>7 DEF TruncateCache, Goto, Kinds
  <2>8. ASSUME NEW r \in Runs, NEW k \in Kinds, WriteCache(r, k) PROVE CacheInv'
    <3>1. PICK tail \in SUBSET file[k] : file' = [file EXCEPT ![k] = data[r] \cup tail]
      BY <2>8 DEF WriteCache
    <3>2. "domain" \in ready
      BY <2>8 DEF WriteCache, Goto
    <3>3. file'["domain"] \subseteq rules["domain"]
      BY <2>8, <3>1, <3>2 DEF WriteCache, Goto, Kinds
    <3>4. QED
      BY <2>8, <3>2, <3>3 DEF WriteCache, Goto, AfterKind
  <2>9. ASSUME NEW r \in Runs, NEW k \in Kinds, WriteFails(r, k) PROVE CacheInv'
    BY <2>9 DEF WriteFails, AfterKind
  <2>10. CASE Kill
    BY <2>10 DEF Kill
  <2>11. CASE UNCHANGED vars
    BY <2>11 DEF vars
  <2>12. QED
    BY <2>1, <2>2, <2>3, <2>4, <2>5, <2>6, <2>7, <2>8, <2>9, <2>10, <2>11
       DEF Next, Step
<1>3. QED
  BY <1>1, <1>2, TypeCorrect, PTL DEF Spec, CacheInv

-----------------------------------------------------------------------------
(* DomainRules: what a line gives, the walk along a host, the test of an   *)
(* address.                                                                *)

(* A set of numbers has a least one.                                       *)
LEMMA Least == ASSUME NEW S \in SUBSET Nat, S # {} PROVE \E n \in S : \A m \in S : n <= m
<1> DEFINE Below == OpToRel(<, Nat)
<1>1. IsWellFoundedOn(Below, Nat)
  BY NatLessThanWellFounded
<1>2. \A m, n \in Nat : <<m, n>> \in Below <=> m < n
  BY DEF OpToRel
<1> HIDE DEF Below
<1>3. PICK n \in S : \A m \in S : ~(<<m, n>> \in Below)
  BY <1>1, WFMin
<1>4. ASSUME NEW m \in S PROVE n <= m
  <2>1. n \in Nat /\ m \in Nat
    OBVIOUS
  <2>2. ~(<<m, n>> \in Below)
    BY <1>3
  <2>3. ~(m < n)
    BY <1>2, <2>1, <2>2
  <2>4. QED
    BY <2>1, <2>3
<1>5. QED
  BY <1>4

(* A set of numbers below a bound has a greatest one.                      *)
LEMMA Greatest ==
    ASSUME NEW S \in SUBSET Nat, S # {}, NEW b \in Nat, \A n \in S : n <= b
    PROVE  \E n \in S : \A m \in S : m <= n
<1> DEFINE Rest == {b - m : m \in S}
<1>1. Rest \in SUBSET Nat /\ Rest # {}
  <2>1. \A m \in S : b - m \in Nat
    OBVIOUS
  <2>2. QED
    BY <2>1
<1>2. PICK d \in Rest : \A e \in Rest : d <= e
  <2> HIDE DEF Rest
  <2>1. QED
    BY <1>1, Least
<1>3. PICK n \in S : d = b - n
  OBVIOUS
<1>4. \A m \in S : b - n <= b - m
  BY <1>2, <1>3
<1>5. QED
  BY <1>4

(* What is scanned of a text is the lines before the first that is too     *)
(* long.                                                                   *)
LEMMA ScannedLines ==
    ASSUME NEW text, text \in Seq(R!Range(text))
    PROVE  \E n \in 0..Len(text) :
              /\ R!Scanned(text) = SubSeq(text, 1, n)
              /\ \A j \in 1..Len(text) : j <= n <=> \A k \in 1..j : text[k].shape # "long"
<1> DEFINE Whole == {n \in 0..Len(text) : \A i \in 1..n : text[i].shape # "long"}
           last == CHOOSE n \in Whole : \A m \in Whole : m <= n
<1>1. Len(text) \in Nat
  BY LenProperties
<1>2. 0 \in Whole /\ Whole \in SUBSET Nat /\ \A n \in Whole : n <= Len(text)
  BY <1>1
<1>3. last \in Whole /\ \A m \in Whole : m <= last
  <2> HIDE DEF Whole
  <2>1. \E n \in Whole : \A m \in Whole : m <= n
    BY <1>1, <1>2, Greatest
  <2>2. QED
    BY <2>1
<1>4. R!Scanned(text) = SubSeq(text, 1, last)
  BY DEF R!Scanned
<1> HIDE DEF last
<1>5. ASSUME NEW j \in 1..Len(text) PROVE j <= last <=> \A k \in 1..j : text[k].shape # "long"
  <2>1. last \in 0..Len(text) /\ \A i \in 1..last : text[i].shape # "long"
    BY <1>3
  <2>2. (\A k \in 1..j : text[k].shape # "long") => j \in Whole
    BY <1>1
  <2>3. QED
    BY <1>1, <1>3, <2>1, <2>2
<1>6. QED
  BY <1>3, <1>4, <1>5

(* What is parsed of a text is what its lines name, and besides only the   *)
(* "payload: ..." of a payload.                                            *)
LEMMA ParsedIsListed ==
    ASSUME R!RulesAssumption, NEW text \in DomainTexts
    PROVE  /\ R!Listed(text) \subseteq R!ParseLines(text)
           /\ \A v \in R!ParseLines(text) :
                 \/ v \in R!Listed(text)
                 \/ \E i \in DOMAIN text : text[i].shape = "payload" /\ v = text[i].value
<1>1. text \in Seq(R!Range(text))
  BY DEF R!RulesAssumption
<1>2. DOMAIN text = 1..Len(text) /\ Len(text) \in Nat
  BY <1>1, LenProperties
<1>3. PICK n \in 0..Len(text) :
         /\ R!Scanned(text) = SubSeq(text, 1, n)
         /\ \A j \in 1..Len(text) : j <= n <=> \A k \in 1..j : text[k].shape # "long"
  BY <1>1, ScannedLines
<1> DEFINE lines == R!Scanned(text)
           inPayload(i) == \E j \in 1..(i - 1) : lines[j].shape = "header"
<1>4. DOMAIN lines = 1..n /\ \A i \in 1..n : lines[i] = text[i]
  BY <1>1, <1>2, <1>3
<1>5. R!ParseLines(text) = UNION {R!Entry(lines[i], inPayload(i)) : i \in DOMAIN lines}
  BY DEF R!ParseLines
<1>6. ASSUME NEW v \in R!Listed(text) PROVE v \in R!ParseLines(text)
  <2>1. PICK i \in DOMAIN text : /\ v = text[i].value
                                 /\ text[i].shape \in {"item", "bare"} \/ text[i].type \in {"DOMAIN", "DOMAIN-SUFFIX"}
                                 /\ \A k \in 1..i : text[k].shape # "long"
    BY <1>6 DEF R!Listed
  <2>2. i \in DOMAIN lines /\ lines[i] = text[i]
    BY <1>2, <1>3, <1>4, <2>1
  <2>3. text[i].type \in {"DOMAIN", "DOMAIN-SUFFIX"} => text[i].shape = "rule"
    BY DEF R!RulesAssumption
  <2>4. v \in R!Entry(lines[i], inPayload(i))
    <3> HIDE DEF inPayload, lines
    <3>1. QED
      BY <2>1, <2>2, <2>3 DEF R!Entry
  <2>5. QED
    BY <1>5, <2>2, <2>4
<1>7. ASSUME NEW v \in R!ParseLines(text)
      PROVE  \/ v \in R!Listed(text)
             \/ \E i \in DOMAIN text : text[i].shape = "payload" /\ v = text[i].value
  <2>1. PICK i \in DOMAIN lines : v \in R!Entry(lines[i], inPayload(i))
    BY <1>5, <1>7
  <2>2. i \in DOMAIN text /\ lines[i] = text[i] /\ \A k \in 1..i : text[k].shape # "long"
    BY <1>2, <1>3, <1>4
  <2>3. v = text[i].value /\ \/ text[i].shape = "payload"
                             \/ text[i].shape \in {"item", "bare"} \/ text[i].type \in {"DOMAIN", "DOMAIN-SUFFIX"}
    <3> HIDE DEF inPayload, lines
    <3>1. QED
      BY <2>1, <2>2 DEF R!Entry
  <2>4. QED
    BY <2>2, <2>3 DEF R!Listed
<1>8. QED
  BY <1>6, <1>7

(* The walk finds a host when one of its ends is in the set.  The function *)
(* that says so for every place satisfies the equation of the walk, and no *)
(* other does: consider the last place where two of them differ.           *)
LEMMA MatchDomainEnds ==
    ASSUME R!RulesAssumption, NEW host \in Seq(DOMAIN Lower), host # <<>>
    PROVE  R!MatchDomain(host) <=>
              \E j \in 1..Len(host) : SubSeq([i \in DOMAIN host |-> Lower[host[i]]], j, Len(host)) \in domains
<1> DEFINE name == [i \in DOMAIN host |-> Lower[host[i]]]
           end(i) == SubSeq(name, i, Len(name)) \in domains
           Walk(f) == f = [i \in DOMAIN name |-> end(i) \/ (i < Len(name) /\ f[i + 1])]
           from == CHOOSE f : Walk(f)
           found == [i \in DOMAIN name |-> \E j \in i..Len(name) : end(j)]
<1>1. Len(host) \in Nat \ {0} /\ DOMAIN host = 1..Len(host)
  BY LenProperties, EmptySeq
<1>2. DOMAIN name = 1..Len(host) /\ Len(name) = Len(host)
  BY <1>1
<1>3. R!MatchDomain(host) = from[1]
  BY DEF R!MatchDomain
<1> DEFINE n == Len(name)
<1>4. n \in Nat \ {0} /\ n = Len(host) /\ DOMAIN name = 1..n
  BY <1>1, <1>2
<1> HIDE DEF name, end, n
<1>5. Walk(found)
  <2>1. ASSUME NEW i \in 1..n
        PROVE  (\E j \in i..n : end(j)) = (end(i) \/ (i < n /\ found[i + 1]))
    <3>1. ASSUME i < n PROVE found[i + 1] = (\E j \in (i + 1)..n : end(j))
      <4>1. i + 1 \in DOMAIN name
        BY <1>4, <2>1, <3>1
      <4>2. QED
        BY <4>1 DEF n
    <3>2. (\E j \in i..n : end(j)) <=> end(i) \/ (i < n /\ \E j \in (i + 1)..n : end(j))
      BY <1>4, <2>1
    <3>3. QED
      BY <3>1, <3>2
  <2>2. QED
    BY <1>4, <2>1 DEF n
<1>6. Walk(from)
  <2> HIDE DEF found, Walk
  <2>1. QED
    BY <1>5
<1>7. from[1] <=> found[1]
  <2> DEFINE Differ == {i \in 1..n : ~(from[i] <=> found[i])}
  <2> HIDE DEF from, found
  <2> SUFFICES ASSUME Differ # {} PROVE FALSE
    BY <1>4
  <2>1. PICK i \in Differ : \A m \in Differ : m <= i
    <3>1. Differ \in SUBSET Nat /\ \A m \in Differ : m <= n
      BY <1>4
    <3> HIDE DEF Differ
    <3>2. QED
      BY <1>4, <3>1, Greatest
  <2>2. from[i] <=> end(i) \/ (i < n /\ from[i + 1])
    <3>1. QED
      BY <1>4, <1>6 DEF n
  <2>3. found[i] <=> end(i) \/ (i < n /\ found[i + 1])
    <3>1. QED
      BY <1>4, <1>5 DEF n
  <2>4. i < n => i + 1 \notin Differ /\ i + 1 \in 1..n
    BY <1>4, <2>1
  <2>5. QED
    BY <2>2, <2>3, <2>4
<1>8. found[1] <=> \E j \in 1..n : end(j)
  BY <1>4 DEF n
<1>9. QED
  BY <1>3, <1>4, <1>7, <1>8 DEF end, name, n

(* A host ends in a name at a dot when one of its ends is that name.       *)
LEMMA EndsAtDot ==
    ASSUME R!RulesAssumption, NEW host \in Seq(DOMAIN Lower), NEW S, NEW v \in Seq(S), v # <<>>
    PROVE  R!EndsIn(host, v) <=>
              \E j \in 1..Len(host) : SubSeq([i \in DOMAIN host |-> Lower[host[i]]], j, Len(host)) = v
<1> DEFINE name == [i \in DOMAIN host |-> Lower[host[i]]]
           All == S \cup {Lower[host[i]] : i \in 1..Len(host)}
<1>1. Len(host) \in Nat /\ DOMAIN host = 1..Len(host) /\ Len(v) \in Nat \ {0} /\ DOMAIN v = 1..Len(v)
  BY LenProperties, EmptySeq
<1>7. v \in Seq(All)
  BY SeqMonotonic
<1>2. name \in Seq(All) /\ Len(name) = Len(host) /\ \A i \in 1..Len(host) : name[i] = Lower[host[i]]
  BY <1>1
<1> HIDE DEF name, All
<1>3. \A j \in 1..Len(host) :
        /\ SubSeq(name, j, Len(host)) \in Seq(All)
        /\ Len(SubSeq(name, j, Len(host))) = Len(host) - j + 1
        /\ \A i \in 1..(Len(host) - j + 1) : SubSeq(name, j, Len(host))[i] = name[j + i - 1]
  BY <1>1, <1>2
<1>4. ASSUME R!EndsIn(host, v) PROVE \E j \in 1..Len(host) : SubSeq(name, j, Len(host)) = v
  <2> DEFINE j == Len(host) - Len(v) + 1
  <2>1. j \in 1..Len(host)
    BY <1>1, <1>4 DEF R!EndsIn
  <2>2. \A i \in 1..Len(v) : name[j + i - 1] = v[i]
    <3>1. ASSUME NEW i \in 1..Len(v) PROVE name[j + i - 1] = v[i]
      <4>1. Len(host) - Len(v) + i \in 1..Len(host) /\ j + i - 1 = Len(host) - Len(v) + i
        BY <1>1, <1>4 DEF R!EndsIn
      <4>2. QED
        BY <1>1, <1>2, <1>4, <4>1 DEF R!EndsIn
    <3>2. QED
      BY <3>1
  <2>3. Len(SubSeq(name, j, Len(host))) = Len(v)
    BY <1>1, <1>3, <2>1
  <2> HIDE DEF j
  <2>4. \A i \in 1..Len(v) : SubSeq(name, j, Len(host))[i] = v[i]
    BY <1>1, <1>3, <2>1, <2>2, <2>3
  <2>5. SubSeq(name, j, Len(host)) = v
    BY <1>3, <1>7, <2>1, <2>3, <2>4, SeqEqual
  <2>6. QED
    BY <2>1, <2>5
<1>5. ASSUME NEW j \in 1..Len(host), SubSeq(name, j, Len(host)) = v PROVE R!EndsIn(host, v)
  <2>1. Len(v) = Len(host) - j + 1
    BY <1>3, <1>5
  <2>2. ASSUME NEW i \in DOMAIN v PROVE Lower[host[Len(host) - Len(v) + i]] = v[i]
    <3>1. i \in 1..(Len(host) - j + 1) /\ j + i - 1 = Len(host) - Len(v) + i /\ j + i - 1 \in 1..Len(host)
      BY <1>1, <2>1
    <3>3. v[i] = name[j + i - 1]
      BY <1>3, <1>5, <3>1
    <3>2. QED
      BY <1>2, <3>1, <3>3
  <2>3. QED
    BY <1>1, <2>1, <2>2 DEF R!EndsIn
<1>6. QED
  BY <1>4, <1>5 DEF name

LEMMA MultipleBelow ==
    ASSUME NEW a \in Nat, NEW b \in Nat, NEW m \in Nat \ {0}, b % m = 0, b <= a, a < b + m
    PROVE  a - (a % m) = b
OBVIOUS

(* An address is in a block when its first bits are those of the block.    *)
LEMMA MaskIsWithin ==
    ASSUME R!RulesAssumption, NEW a \in Nat, NEW c,
           c \in [kind : {"v4", "v6"}, addr : Nat, bits : 0..Width], c.addr % 2^(Width - c.bits) = 0
    PROVE  R!Masked(a, c.bits) = c.addr <=> R!Within(a, c)
<1> DEFINE m == 2^(Width - c.bits)
<1>1. m \in Nat \ {0}
  BY DEF R!RulesAssumption
<1>2. c.addr \in Nat /\ c.addr % m = 0
  OBVIOUS
<1>3. R!Masked(a, c.bits) = a - (a % m) /\ (R!Within(a, c) <=> c.addr <= a /\ a < c.addr + m)
  BY DEF R!Masked, R!Within
<1> HIDE DEF m
<1>4. a % m \in 0..(m - 1)
  BY <1>1
<1>5. c.addr <= a /\ a < c.addr + m => a - (a % m) = c.addr
  BY <1>1, <1>2, MultipleBelow
<1>6. a - (a % m) = c.addr => c.addr <= a /\ a < c.addr + m
  BY <1>1, <1>2, <1>4
<1>7. QED
  BY <1>3, <1>5, <1>6

-----------------------------------------------------------------------------
(* The set holds what was parsed of the loaded texts, and every block is   *)
(* the first address of its range.                                         *)
RulesInv ==
    /\ texts \subseteq DomainTexts
    /\ domains = {R!BuiltinName} \cup UNION {R!ParseLines(x) : x \in texts}
    /\ \A c \in cidrs : /\ c \in [kind : {"v4", "v6"}, addr : Nat, bits : 0..Width]
                        /\ c.addr % 2^(Width - c.bits) = 0

LEMMA RulesStart == ASSUME R!RulesAssumption, R!Init PROVE RulesInv
<1>1. 2 \in 0..Width /\ 2^(Width - 2) \in Nat \ {0}
  BY DEF R!RulesAssumption
<1>2. 0 % 2^(Width - 2) = 0
  BY <1>1
<1>3. QED
  BY <1>1, <1>2 DEF R!Init, RulesInv, R!Block

LEMMA BlocksParsed ==
    ASSUME R!RulesAssumption, NEW text \in IpTexts, NEW c \in R!ParseCIDRs(text)
    PROVE  c \in [kind : {"v4", "v6"}, addr : Nat, bits : 0..Width] /\ c.addr % 2^(Width - c.bits) = 0
<1>1. text \in Seq(R!Range(text))
  BY DEF R!RulesAssumption
<1>2. DOMAIN text = 1..Len(text) /\ Len(text) \in Nat
  BY <1>1, LenProperties
<1>3. PICK l \in R!Range(R!Scanned(text)) :
        l.shape = "block" /\ c = R!Block(l.value.kind, R!Masked(l.value.addr, l.value.bits), l.value.bits)
  BY DEF R!ParseCIDRs
<1>4. PICK n \in 0..Len(text) : R!Scanned(text) = SubSeq(text, 1, n)
  BY <1>1, ScannedLines
<1>5. PICK i \in 1..n : l = text[i]
  BY <1>2, <1>3, <1>4 DEF R!Range
<1>6. l.value \in [kind : {"v4", "v6"}, addr : Nat, bits : 0..Width]
  BY <1>2, <1>3, <1>5 DEF R!RulesAssumption
<1> DEFINE a == l.value.addr
           m == 2^(Width - l.value.bits)
<1>7. a \in Nat /\ m \in Nat \ {0}
  BY <1>6 DEF R!RulesAssumption
<1>8. c = [kind |-> l.value.kind, addr |-> a - (a % m), bits |-> l.value.bits]
  BY <1>3 DEF R!Block, R!Masked
<1>9. a - (a % m) \in Nat /\ (a - (a % m)) % m = 0
  <2> HIDE DEF a, m
  <2>1. a % m \in 0..(m - 1) /\ a % m <= a
    BY <1>7
  <2>2. (a - (a % m)) % m = 0
    BY <1>7, Z3
  <2>3. QED
    BY <1>7, <2>1, <2>2
<1>10. QED
  BY <1>6, <1>8, <1>9

LEMMA RulesStep == ASSUME R!RulesAssumption, RulesInv, [R!Next]_(R!vars) PROVE RulesInv'
<1>1. ASSUME NEW text \in DomainTexts, R!LoadDomains(text) PROVE RulesInv'
  BY <1>1 DEF R!LoadDomains, RulesInv
<1>2. ASSUME NEW text \in IpTexts, R!LoadIPs(text) PROVE RulesInv'
  <2>1. cidrs' = cidrs \/ cidrs' = R!ParseCIDRs(text)
    BY <1>2 DEF R!LoadIPs
  <2>2. domains' = domains /\ texts' = texts
    BY <1>2 DEF R!LoadIPs
  <2>3. \A c \in cidrs' : /\ c \in [kind : {"v4", "v6"}, addr : Nat, bits : 0..Width]
                          /\ c.addr % 2^(Width - c.bits) = 0
    BY <2>1, BlocksParsed DEF RulesInv
  <2>4. QED
    BY <2>2, <2>3 DEF RulesInv
<1>3. ASSUME NEW s, R!SetStrategy(s) PROVE RulesInv'
  BY <1>3 DEF R!SetStrategy, RulesInv
<1>4. CASE UNCHANGED R!vars
  BY <1>4 DEF R!vars, RulesInv
<1>5. QED
  BY <1>1, <1>2, <1>3, <1>4 DEF R!Next

LEMMA RulesSafe == ASSUME R!RulesAssumption, RulesInv PROVE R!DirectIfListed
<1> SUFFICES ASSUME NEW t \in Targets
             PROVE  R!ShouldDirect(t) <=>
                      /\ strategy = "china_bypass"
                      /\ IF t.kind = "name"
                         THEN \E n \in {R!BuiltinName} \cup UNION {R!Listed(x) : x \in texts} : R!EndsIn(t.host, n)
                         ELSE \E c \in cidrs : c.kind = t.kind /\ R!Within(t.addr, c)
  BY DEF R!DirectIfListed
<1>1. t \in [kind : {"name", "v4", "v6"}, host : Seq(DOMAIN Lower), addr : Nat, port : BOOLEAN]
  BY DEF R!RulesAssumption
<1> DEFINE h == R!SplitHostPort(t)
<1>2. h.kind = t.kind /\ h.host = t.host /\ h.addr = t.addr /\ h.port = FALSE
  BY <1>1 DEF R!SplitHostPort
<1>3. R!ShouldDirect(t) <=>
        strategy = "china_bypass" /\ IF R!ParseIP(h) THEN R!MatchIP(h) ELSE R!MatchDomain(h.host)
  BY DEF R!ShouldDirect
<1> HIDE DEF h
<1>4. R!ParseIP(h) <=> t.kind # "name"
  BY <1>1, <1>2 DEF R!ParseIP
<1>5. CASE t.kind # "name"
  <2>1. R!MatchIP(h) <=> \E c \in cidrs : c.kind = t.kind /\ R!Masked(t.addr, c.bits) = c.addr
    BY <1>2 DEF R!MatchIP
  <2>2. \A c \in cidrs : R!Masked(t.addr, c.bits) = c.addr <=> R!Within(t.addr, c)
    BY <1>1, MaskIsWithin DEF RulesInv
  <2>3. QED
    BY <1>3, <1>4, <1>5, <2>1, <2>2
<1>6. CASE t.kind = "name"
  <2> DEFINE name == [i \in DOMAIN t.host |-> Lower[t.host[i]]]
             Ends(v) == \E j \in 1..Len(t.host) : SubSeq(name, j, Len(t.host)) = v
             Given == {R!BuiltinName} \cup UNION {R!Listed(x) : x \in texts}
  <2>1. t.host \in Seq(DOMAIN Lower) /\ t.host # <<>>
    BY <1>1, <1>6 DEF R!RulesAssumption
  <2>2. R!MatchDomain(h.host) <=> \E v \in domains : Ends(v)
    BY <1>2, <2>1, MatchDomainEnds
  <2>3. ASSUME NEW v \in Given PROVE v \in domains /\ v # <<>> /\ \E S : v \in Seq(S)
    <3>1. CASE v = R!BuiltinName
      <4>1. <<"cn">> = Append(<<>>, "cn")
        OBVIOUS
      <4>4. <<"cn">> \in Seq({"cn"}) /\ <<"cn">> # <<>>
        BY <4>1, AppendProperties, EmptySeq
      <4>2. v \in domains
        BY <3>1 DEF RulesInv
      <4>3. QED
        BY <3>1, <4>2, <4>4 DEF R!BuiltinName
    <3>2. CASE \E x \in texts : v \in R!Listed(x)
      <4>1. PICK x \in texts : v \in R!Listed(x)
        BY <3>2
      <4>2. x \in DomainTexts
        BY DEF RulesInv
      <4>3. v \in domains
        BY <4>1, <4>2, ParsedIsListed DEF RulesInv
      <4>4. PICK i \in DOMAIN x :
              v = x[i].value /\ x[i].shape \in {"rule", "item", "bare"}
        BY <4>1, <4>2 DEF R!Listed, R!RulesAssumption
      <4>5. v \in Seq(R!Range(v)) \ {<<>>}
        BY <4>2, <4>4 DEF R!RulesAssumption
      <4>6. QED
        BY <4>3, <4>5
    <3>3. QED
      BY <2>3, <3>1, <3>2
  <2>4. ASSUME NEW v \in domains, Ends(v) PROVE v \in Given
    <3>1. CASE v = R!BuiltinName
      BY <3>1
    <3>2. CASE v # R!BuiltinName
      <4>1. PICK x \in texts : v \in R!ParseLines(x)
        BY <2>4, <3>2 DEF RulesInv
      <4>2. x \in DomainTexts
        BY DEF RulesInv
      <4>3. ASSUME NEW i \in DOMAIN x, x[i].shape = "payload", v = x[i].value PROVE FALSE
        <5>1. v \in Seq(R!Range(v)) \ {<<>>} /\ \A j \in DOMAIN t.host : Lower[t.host[j]] # v[1]
          BY <4>2, <4>3 DEF R!RulesAssumption
        <5>2. PICK j \in 1..Len(t.host) : SubSeq(name, j, Len(t.host)) = v
          BY <2>4
        <5>3. Len(t.host) \in Nat /\ DOMAIN t.host = 1..Len(t.host)
          BY <2>1, LenProperties
        <5>4. SubSeq(name, j, Len(t.host))[1] = Lower[t.host[j]]
          BY <5>3
        <5>5. QED
          BY <5>1, <5>2, <5>3, <5>4
      <4>4. v \in R!Listed(x)
        BY <4>1, <4>2, <4>3, ParsedIsListed
      <4>5. QED
        BY <4>4
    <3>3. QED
      BY <3>1, <3>2
  <2>5. \A v \in Given : R!EndsIn(t.host, v) <=> Ends(v)
    <3>1. ASSUME NEW v \in Given PROVE R!EndsIn(t.host, v) <=> Ends(v)
      BY <2>1, <2>3, EndsAtDot
    <3>2. QED
      BY <3>1
  <2> HIDE DEF Ends, Given
  <2>6. (\E v \in domains : Ends(v)) <=> \E v \in Given : R!EndsIn(t.host, v)
    BY <2>3, <2>4, <2>5
  <2>7. QED
    BY <1>3, <1>4, <1>6, <2>2, <2>6 DEF Given
<1>7. QED
  BY <1>5, <1>6

(* While the program runs, whatever texts are loaded.                      *)
THEOREM ListedGoesDirect == RulesSpec => []DirectIfListed
<1> DEFINE I0 == moves = "rules" => RulesInv
<1>1. RulesInit => I0
  BY RuleConstants, RulesStart DEF RulesInit
<1>2. I0 /\ [RulesNext]_<<moves, vars, rvars, tvars>> => I0'
  <2> SUFFICES ASSUME I0, [RulesNext]_<<moves, vars, rvars, tvars>>, moves' = "rules" PROVE RulesInv'
    OBVIOUS
  <2>1. moves = "rules" /\ [R!Next]_(R!vars)
    BY DEF RulesNext, rvars, R!vars
  <2>2. QED
    BY <2>1, RuleConstants, RulesStep
<1>3. I0 => DirectIfListed
  BY RuleConstants, RulesSafe DEF DirectIfListed
<1> HIDE DEF I0
<1>4. QED
  BY <1>1, <1>2, <1>3, PTL DEF RulesSpec

-----------------------------------------------------------------------------
(* DomainTrie: what the nodes are, and what the search returns.            *)

Lab == (UNION {T!Range(d) : d \in Domains}) \cup {T!dotWildcard}

(* The path p, read backwards, is the end of q.                            *)
EndIn(p, q) == Len(p) <= Len(q) /\ \A j \in 1..Len(p) : p[j] = q[Len(q) - j + 1]

(* Only a first label of a pattern is empty.                               *)
LEMMA PatternShape ==
    ASSUME T!TrieAssumption, NEW d \in Domains, T!Valid(d), NEW q \in T!PatternsOf(d)
    PROVE  q \in Seq(Lab) /\ \A i \in 2..Len(q) : q[i] # T!dotWildcard
<1>1. d \in Seq(Lab) /\ d # <<>>
  <2>1. d \in Seq(T!Range(d)) /\ d # <<>>
    BY DEF T!TrieAssumption
  <2>2. T!Range(d) \subseteq Lab
    BY DEF Lab
  <2>3. Len(d) \in Nat /\ DOMAIN d = 1..Len(d) /\ \A i \in 1..Len(d) : d[i] \in T!Range(d)
    BY <2>1
  <2>4. d \in Seq(Lab)
    BY <2>1, <2>2, <2>3
  <2>5. QED
    BY <2>1, <2>4
<1>2. \A i \in 2..Len(d) : d[i] # T!dotWildcard
  BY DEF T!Valid
<1>3. T!dotWildcard \in Lab
  <2> DEFINE U == UNION {T!Range(b) : b \in Domains}
  <2>1. Lab = U \cup {T!dotWildcard}
    BY DEF Lab
  <2> HIDE DEF U
  <2>2. QED
    BY <2>1
<1>4. Tail(d) \in Seq(Lab) /\ Len(Tail(d)) = Len(d) - 1 /\ \A i \in 1..Len(Tail(d)) : Tail(d)[i] = d[i + 1]
  BY <1>1
<1>5. CASE d[1] # T!complexWildcard
  BY <1>1, <1>2, <1>5 DEF T!PatternsOf
<1>6. CASE d[1] = T!complexWildcard /\ q = Tail(d)
  <2>1. \A i \in 2..Len(q) : q[i] = d[i + 1] /\ i + 1 \in 2..Len(d)
    BY <1>1, <1>4, <1>6
  <2>2. QED
    BY <1>2, <1>4, <1>6, <2>1
<1>7. CASE d[1] = T!complexWildcard /\ q = <<T!dotWildcard>> \o Tail(d)
  <2> DEFINE dot == <<T!dotWildcard>>
  <2>1. dot \in Seq(Lab) /\ Len(dot) = 1
    <3>1. <<>> \in Seq(Lab) /\ Len(<<>>) = 0
      OBVIOUS
    <3>2. dot = Append(<<>>, T!dotWildcard)
      OBVIOUS
    <3>3. QED
      BY <1>3, <3>1, <3>2, AppendProperties
  <2>2. q = dot \o Tail(d)
    BY <1>7
  <2> HIDE DEF dot
  <2>3. q \in Seq(Lab) /\ Len(q) = Len(d)
    <3>1. Len(q) = Len(dot) + Len(Tail(d)) /\ q \in Seq(Lab)
      BY <1>4, <2>1, <2>2, ConcatProperties
    <3>2. Len(d) \in Nat
      BY <1>1
    <3>3. QED
      BY <1>4, <2>1, <3>1, <3>2
  <2>4. \A i \in 2..Len(q) : q[i] = Tail(d)[i - 1]
    <3>1. \A i \in 1..Len(dot) + Len(Tail(d)) :
             q[i] = IF i <= Len(dot) THEN dot[i] ELSE Tail(d)[i - Len(dot)]
      BY <1>4, <2>1, <2>2, ConcatProperties
    <3>2. Len(d) \in Nat
      BY <1>1
    <3>3. QED
      BY <1>4, <2>1, <2>3, <3>1, <3>2
  <2>5. \A i \in 2..Len(q) : i - 1 \in 1..Len(Tail(d)) /\ (i - 1) + 1 = i
    BY <1>1, <1>4, <2>3
  <2>6. QED
    BY <1>2, <1>4, <2>3, <2>4, <2>5
<1>8. QED
  BY <1>5, <1>6, <1>7 DEF T!PatternsOf

(* The nodes that With adds, and the one it gives the val.                *)
LEMMA Backwards ==
    ASSUME NEW q \in Seq(Lab)
    PROVE  /\ T!Reverse(q) \in Seq(Lab) /\ Len(T!Reverse(q)) = Len(q)
           /\ \A p \in Seq(Lab) : p = T!Reverse(q) <=> Len(p) = Len(q) /\ EndIn(p, q)
           /\ {SubSeq(T!Reverse(q), 1, i) : i \in 0..Len(q)} = {p \in Seq(Lab) : EndIn(p, q)}
<1> DEFINE path == T!Reverse(q)
<1>1. path = [i \in 1..Len(q) |-> q[Len(q) - i + 1]]
  BY DEF T!Reverse
<1>2. Len(q) \in Nat /\ \A i \in 1..Len(q) : q[Len(q) - i + 1] \in Lab
  <2>1. Len(q) \in Nat
    OBVIOUS
  <2>2. \A i \in 1..Len(q) : Len(q) - i + 1 \in 1..Len(q)
    BY <2>1
  <2>3. QED
    BY <2>1, <2>2
<1>3. path \in Seq(Lab) /\ Len(path) = Len(q) /\ \A i \in 1..Len(q) : path[i] = q[Len(q) - i + 1]
  BY <1>1, <1>2
<1> HIDE DEF path
<1>4. ASSUME NEW p \in Seq(Lab) PROVE p = path <=> Len(p) = Len(q) /\ EndIn(p, q)
  <2>1. ASSUME Len(p) = Len(q), EndIn(p, q) PROVE p = path
    BY <1>2, <1>3, <2>1 DEF EndIn
  <2>2. ASSUME p = path PROVE Len(p) = Len(q) /\ EndIn(p, q)
    BY <1>2, <1>3, <2>2 DEF EndIn
  <2>3. QED
    BY <2>1, <2>2
<1>5. ASSUME NEW i \in 0..Len(q)
      PROVE  LET p == SubSeq(path, 1, i) IN
             p \in Seq(Lab) /\ Len(p) = i /\ \A j \in 1..i : p[j] = path[j]
  BY <1>2, <1>3
<1>6. {SubSeq(path, 1, i) : i \in 0..Len(q)} \subseteq {p \in Seq(Lab) : EndIn(p, q)}
  <2>1. ASSUME NEW i \in 0..Len(q)
        PROVE  SubSeq(path, 1, i) \in Seq(Lab) /\ EndIn(SubSeq(path, 1, i), q)
    <3>1. i \in Nat /\ i <= Len(q)
      BY <1>2
    <3>2. QED
      BY <1>2, <1>3, <1>5, <3>1 DEF EndIn
  <2>2. QED
    BY <2>1
<1>7. ASSUME NEW p \in Seq(Lab), EndIn(p, q) PROVE p \in {SubSeq(path, 1, i) : i \in 0..Len(q)}
  <2>1. Len(p) \in 0..Len(q)
    BY <1>2, <1>7 DEF EndIn
  <2>2. SubSeq(path, 1, Len(p)) \in Seq(Lab) /\ Len(SubSeq(path, 1, Len(p))) = Len(p)
        /\ \A j \in 1..Len(p) : SubSeq(path, 1, Len(p))[j] = path[j]
    BY <1>5, <2>1
  <2>3. \A j \in 1..Len(p) : p[j] = path[j]
    <3>1. Len(p) <= Len(q) /\ \A j \in 1..Len(p) : p[j] = q[Len(q) - j + 1]
      BY <1>7 DEF EndIn
    <3>2. QED
      BY <1>2, <1>3, <3>1
  <2>4. p = SubSeq(path, 1, Len(p))
    BY <2>2, <2>3
  <2>5. QED
    BY <2>1, <2>4
<1>8. {SubSeq(path, 1, i) : i \in 0..Len(q)} = {p \in Seq(Lab) : EndIn(p, q)}
  BY <1>6, <1>7
<1>9. QED
  BY <1>3, <1>4, <1>8 DEF path

(* What a With leaves.                                                     *)
Put(t, q, val) ==
    [p \in DOMAIN t \cup {r \in Seq(Lab) : EndIn(r, q)} |->
        IF p = T!Reverse(q) THEN val ELSE IF p \in DOMAIN t THEN t[p] ELSE T!NoData]

LEMMA WithGives ==
    ASSUME NEW t, NEW q \in Seq(Lab), NEW val
    PROVE  T!With(t, q, val) = Put(t, q, val)
<1>1. Len(T!Reverse(q)) = Len(q)
      /\ {SubSeq(T!Reverse(q), 1, i) : i \in 0..Len(q)} = {p \in Seq(Lab) : EndIn(p, q)}
  BY Backwards
<1>2. QED
  BY <1>1 DEF T!With, Put

(* An insertion adds the ends of the patterns of a domain, and gives the   *)
(* data to the patterns themselves.                                        *)
LEMMA InsertGives ==
    ASSUME T!TrieAssumption, NEW d \in Domains, T!Insert(d)
    PROVE  /\ DOMAIN trie' = DOMAIN trie \cup {p \in Seq(Lab) : \E q \in T!PatternsOf(d) : EndIn(p, q)}
           /\ \A p \in DOMAIN trie' :
                 trie'[p] = IF \E q \in T!PatternsOf(d) : p = T!Reverse(q) THEN Len(entries) + 1
                            ELSE IF p \in DOMAIN trie THEN trie[p] ELSE T!NoData
<1> DEFINE val == Len(entries) + 1
<1>1. T!Valid(d)
  BY DEF T!Insert
<1>2. \A q \in T!PatternsOf(d) : q \in Seq(Lab)
  BY <1>1, PatternShape
<1>3. CASE d[1] # T!complexWildcard
  <2>1. trie' = T!With(trie, d, val) /\ T!PatternsOf(d) = {d}
    BY <1>3 DEF T!Insert, T!PatternsOf
  <2>2. d \in Seq(Lab)
    BY <1>2, <2>1
  <2> HIDE DEF val
  <2>3. DOMAIN trie' = DOMAIN trie \cup {p \in Seq(Lab) : EndIn(p, d)}
        /\ \A p \in DOMAIN trie' : trie'[p] = IF p = T!Reverse(d) THEN val
                                              ELSE IF p \in DOMAIN trie THEN trie[p] ELSE T!NoData
    <3>1. trie' = Put(trie, d, val)
      BY <2>1, <2>2, WithGives
    <3>2. QED
      BY <3>1 DEF Put
  <2>4. QED
    BY <2>1, <2>3 DEF val
<1>4. CASE d[1] = T!complexWildcard
  <2> DEFINE q1 == Tail(d)
             q2 == <<T!dotWildcard>> \o Tail(d)
             mid == T!With(trie, q1, val)
  <2>1. trie' = T!With(mid, q2, val) /\ T!PatternsOf(d) = {q1, q2}
    BY <1>4 DEF T!Insert, T!PatternsOf
  <2>2. q1 \in Seq(Lab) /\ q2 \in Seq(Lab)
    BY <1>2, <2>1
  <2> HIDE DEF val, q1, q2
  <2>3. DOMAIN mid = DOMAIN trie \cup {p \in Seq(Lab) : EndIn(p, q1)}
        /\ \A p \in DOMAIN mid : mid[p] = IF p = T!Reverse(q1) THEN val
                                          ELSE IF p \in DOMAIN trie THEN trie[p] ELSE T!NoData
    <3>1. mid = Put(trie, q1, val)
      BY <2>2, WithGives
    <3>2. QED
      BY <3>1 DEF Put
  <2> HIDE DEF mid
  <2>4. DOMAIN trie' = DOMAIN mid \cup {p \in Seq(Lab) : EndIn(p, q2)}
        /\ \A p \in DOMAIN trie' : trie'[p] = IF p = T!Reverse(q2) THEN val
                                              ELSE IF p \in DOMAIN mid THEN mid[p] ELSE T!NoData
    <3>1. trie' = Put(mid, q2, val)
      BY <2>1, <2>2, WithGives
    <3>2. QED
      BY <3>1 DEF Put
  <2>5. T!Reverse(q1) \in DOMAIN mid
    BY <2>2, <2>3, Backwards
  <2>6. DOMAIN trie' = DOMAIN trie \cup {p \in Seq(Lab) : \E q \in {q1, q2} : EndIn(p, q)}
    BY <2>3, <2>4
  <2>7. \A p \in DOMAIN trie' : trie'[p] = IF \E q \in {q1, q2} : p = T!Reverse(q) THEN val
                            ELSE IF p \in DOMAIN trie THEN trie[p] ELSE T!NoData
    BY <2>3, <2>4, <2>5
  <2>8. QED
    BY <2>1, <2>6, <2>7 DEF val
<1>5. QED
  BY <1>3, <1>4

(* What the trie holds: the ends of all patterns, each pattern with its    *)
(* newest entry.                                                           *)
TrieInv ==
    /\ entries \in Seq(Domains) /\ \A e \in DOMAIN entries : T!Valid(entries[e])
    /\ DOMAIN trie = {p \in Seq(Lab) : p = <<>> \/ \E q \in T!AllPatterns : EndIn(p, q)}
    /\ \A p \in DOMAIN trie :
          /\ trie[p] \in 0..Len(entries)
          /\ trie[p] # T!NoData =>
                \E q \in T!Patterns(trie[p]) :
                    p = T!Reverse(q) /\ \A e \in DOMAIN entries : e > trie[p] => q \notin T!Patterns(e)
    /\ \A q \in T!AllPatterns : trie[T!Reverse(q)] # T!NoData

LEMMA TrieStart == T!Init => TrieInv
<1> SUFFICES ASSUME T!Init PROVE TrieInv
  OBVIOUS
<1>1. entries = <<>> /\ trie = [p \in {<<>>} |-> T!NoData]
  BY DEF T!Init
<1>2. entries \in Seq(Domains) /\ Len(entries) = 0 /\ DOMAIN entries = {}
  BY <1>1
<1>3. T!AllPatterns = {}
  BY <1>2 DEF T!AllPatterns
<1>4. <<>> \in Seq(Lab)
  OBVIOUS
<1>5. DOMAIN trie = {<<>>} /\ trie[<<>>] = 0
  BY <1>1 DEF T!NoData
<1>6. DOMAIN trie = {p \in Seq(Lab) : p = <<>> \/ \E q \in T!AllPatterns : EndIn(p, q)}
  BY <1>3, <1>4, <1>5
<1>7. \A p \in DOMAIN trie : trie[p] = T!NoData /\ trie[p] \in 0..Len(entries)
  BY <1>2, <1>5 DEF T!NoData
<1>8. QED
  BY <1>2, <1>3, <1>6, <1>7 DEF TrieInv

(* All entries' patterns are patterns.                                     *)
LEMMA PatternsKnown ==
    ASSUME T!TrieAssumption, TrieInv, NEW q \in T!AllPatterns
    PROVE  q \in Seq(Lab) /\ \A i \in 2..Len(q) : q[i] # T!dotWildcard
<1>1. PICK e \in DOMAIN entries : q \in T!PatternsOf(entries[e])
  BY DEF T!AllPatterns, T!Patterns
<1>2. entries[e] \in Domains /\ T!Valid(entries[e])
  BY DEF TrieInv
<1>3. QED
  BY <1>1, <1>2, PatternShape

LEMMA TrieStep == T!TrieAssumption /\ TrieInv /\ [T!Next]_(T!vars) => TrieInv'
<1> SUFFICES ASSUME T!TrieAssumption, TrieInv, [T!Next]_(T!vars) PROVE TrieInv'
  OBVIOUS
<1>1. CASE UNCHANGED T!vars
  BY <1>1 DEF TrieInv, T!vars, T!AllPatterns, T!Patterns
<1>2. ASSUME NEW d \in Domains, T!Insert(d) PROVE TrieInv'
  <2> DEFINE Ps == T!PatternsOf(d)
  <2> PICK new : new = Len(entries) + 1
    OBVIOUS
  <2>1. T!Valid(d) /\ entries' = Append(entries, d)
    BY <1>2 DEF T!Insert
  <2>2. entries \in Seq(Domains) /\ Len(entries) \in Nat /\ DOMAIN entries = 1..Len(entries)
    BY DEF TrieInv
  <2>3. /\ entries' \in Seq(Domains) /\ Len(entries') = new /\ DOMAIN entries' = 1..new
        /\ \A e \in 1..Len(entries) : entries'[e] = entries[e]
        /\ entries'[new] = d
    BY <2>1, <2>2
  <2>4. \A e \in DOMAIN entries' : T!Valid(entries'[e])
    <3>1. \A e \in DOMAIN entries : T!Valid(entries[e])
      BY DEF TrieInv
    <3>2. QED
      BY <2>1, <2>2, <2>3, <3>1
  <2>5. \A e \in 1..Len(entries) : T!Patterns(e)' = T!Patterns(e)
    BY <2>3 DEF T!Patterns
  <2>6. T!Patterns(new)' = Ps
    BY <2>3 DEF T!Patterns
  <2>7. T!AllPatterns' = T!AllPatterns \cup Ps
    BY <2>2, <2>3, <2>5, <2>6 DEF T!AllPatterns
  <2>8. \A q \in Ps : q \in Seq(Lab)
    BY <2>1, PatternShape
  <2>9. /\ DOMAIN trie' = DOMAIN trie \cup {p \in Seq(Lab) : \E q \in Ps : EndIn(p, q)}
        /\ \A p \in DOMAIN trie' :
              trie'[p] = IF \E q \in Ps : p = T!Reverse(q) THEN new
                         ELSE IF p \in DOMAIN trie THEN trie[p] ELSE T!NoData
    BY <1>2, InsertGives
  <2> HIDE DEF Ps
  <2>10. DOMAIN trie' = {p \in Seq(Lab) : p = <<>> \/ \E q \in T!AllPatterns' : EndIn(p, q)}
    <3>1. DOMAIN trie = {p \in Seq(Lab) : p = <<>> \/ \E q \in T!AllPatterns : EndIn(p, q)}
      BY DEF TrieInv
    <3>2. QED
      BY <2>7, <2>9, <3>1
  <2>11. ASSUME NEW p \in DOMAIN trie'
         PROVE  /\ trie'[p] \in 0..new
                /\ trie'[p] # T!NoData =>
                      \E q \in T!Patterns(trie[p])' :
                          p = T!Reverse(q) /\ \A e \in DOMAIN entries' : e > trie'[p] => q \notin T!Patterns(e)'
    <3>1. CASE \E q \in Ps : p = T!Reverse(q)
      <4>1. PICK q \in Ps : p = T!Reverse(q)
        BY <3>1
      <4>2. trie'[p] = new
        BY <2>9, <3>1
      <4>3. T!Patterns(trie[p])' = Ps
        BY <2>3, <4>2 DEF T!Patterns, Ps
      <4>4. \A e \in DOMAIN entries' : ~(e > new)
        BY <2>2, <2>3
      <4>5. QED
        BY <2>2, <4>1, <4>2, <4>3, <4>4
    <3>2. CASE ~(\E q \in Ps : p = T!Reverse(q)) /\ p \in DOMAIN trie
      <4>1. trie'[p] = trie[p]
        BY <2>9, <3>2
      <4>2. trie[p] \in 0..Len(entries)
            /\ (trie[p] # T!NoData =>
                  \E q \in T!Patterns(trie[p]) :
                      p = T!Reverse(q) /\ \A e \in DOMAIN entries : e > trie[p] => q \notin T!Patterns(e))
        BY <3>2 DEF TrieInv
      <4>3. ASSUME trie[p] # T!NoData
            PROVE  \E q \in T!Patterns(trie[p])' :
                      p = T!Reverse(q) /\ \A e \in DOMAIN entries' : e > trie'[p] => q \notin T!Patterns(e)'
        <5>1. PICK q \in T!Patterns(trie[p]) :
                 p = T!Reverse(q) /\ \A e \in DOMAIN entries : e > trie[p] => q \notin T!Patterns(e)
          BY <4>2, <4>3
        <5>2. trie[p] \in 1..Len(entries)
          BY <2>2, <4>2, <4>3 DEF T!NoData
        <5>3. T!Patterns(trie[p])' = T!Patterns(trie[p])
          <6>1. T!Patterns(trie[p])' = T!PatternsOf(entries'[trie[p]])
            BY <4>1 DEF T!Patterns
          <6>2. entries'[trie[p]] = entries[trie[p]]
            BY <2>3, <5>2
          <6>3. QED
            BY <6>1, <6>2 DEF T!Patterns
        <5>4. q \notin Ps
          BY <3>2, <5>1
        <5>5. ASSUME NEW e \in DOMAIN entries', e > trie[p] PROVE q \notin T!Patterns(e)'
          <6>1. CASE e = new
            BY <2>6, <5>4, <6>1
          <6>2. CASE e # new
            <7>1. e \in 1..Len(entries)
              BY <2>2, <2>3, <6>2
            <7>2. QED
              BY <2>2, <2>5, <5>1, <5>5, <7>1
          <6>3. QED
            BY <6>1, <6>2
        <5>6. QED
          BY <4>1, <5>1, <5>3, <5>5
      <4>4. QED
        BY <2>2, <4>1, <4>2, <4>3
    <3>3. CASE ~(\E q \in Ps : p = T!Reverse(q)) /\ p \notin DOMAIN trie
      BY <2>2, <2>9, <3>3 DEF T!NoData
    <3>4. QED
      BY <3>1, <3>2, <3>3
  <2>12. ASSUME NEW q \in T!AllPatterns' PROVE trie'[T!Reverse(q)] # T!NoData
    <3>1. new # T!NoData
      BY <2>2 DEF T!NoData
    <3>2. CASE q \in Ps
      <4>1. T!Reverse(q) \in DOMAIN trie'
        BY <2>8, <2>9, <3>2, Backwards
      <4>2. QED
        BY <2>9, <3>1, <3>2, <4>1
    <3>3. CASE q \in T!AllPatterns
      <4>1. q \in Seq(Lab)
        BY <3>3, PatternsKnown
      <4>2. T!Reverse(q) \in DOMAIN trie
        BY <3>3, <4>1, Backwards DEF TrieInv
      <4>3. trie[T!Reverse(q)] # T!NoData
        BY <3>3 DEF TrieInv
      <4>4. T!Reverse(q) \in DOMAIN trie'
        BY <2>9, <4>2
      <4>5. QED
        BY <2>9, <3>1, <4>2, <4>3, <4>4
    <3>4. QED
      BY <2>7, <3>2, <3>3
  <2>13. QED
    BY <2>3, <2>4, <2>10, <2>11, <2>12 DEF TrieInv
<1>3. QED
  BY <1>1, <1>2 DEF T!Next

(* Reading from its end, the path r agrees with m labels of a name; r      *)
(* covers the name; r goes on below p; r is better than v where they first *)
(* differ.                                                                 *)
FitsTo(r, name, m) == \A j \in 1..m : r[j] \in {name[Len(name) - j + 1], T!wildcard}
Fits(r, name) ==
    \/ Len(r) = Len(name) /\ FitsTo(r, name, Len(r))
    \/ Len(r) \in 1..Len(name) /\ r[Len(r)] = T!dotWildcard /\ FitsTo(r, name, Len(r) - 1)
Under(p, r) == Len(p) <= Len(r) /\ \A j \in 1..Len(p) : r[j] = p[j]
Outranks(r, v) ==
    \E j \in 1..Len(r) : j <= Len(v) /\ (\A i \in 1..(j - 1) : r[i] = v[i]) /\ T!Rank(r[j]) > T!Rank(v[j])

IsName(name) == (\E S : name \in Seq(S)) /\ \A i \in 1..Len(name) : name[i] # T!dotWildcard

(* The nodes are closed under their beginnings, only a last label is "",   *)
(* and what stands for no node is none.                                    *)
LEMMA NodeShape ==
    ASSUME T!TrieAssumption, TrieInv
    PROVE  /\ DOMAIN trie \subseteq Seq(Lab) /\ <<>> \in DOMAIN trie
           /\ \A p \in DOMAIN trie : \A j \in 1..(Len(p) - 1) : p[j] # T!dotWildcard
           /\ T!NoNode \notin DOMAIN trie
<1>1. DOMAIN trie = {p \in Seq(Lab) : p = <<>> \/ \E q \in T!AllPatterns : EndIn(p, q)}
  BY DEF TrieInv
<1>2. DOMAIN trie \subseteq Seq(Lab) /\ <<>> \in DOMAIN trie
  BY <1>1
<1>3. ASSUME NEW p \in DOMAIN trie, NEW j \in 1..(Len(p) - 1) PROVE p[j] # T!dotWildcard
  <2>1. Len(p) \in Nat
    BY <1>2
  <2>2. p # <<>>
    BY <1>3, <2>1
  <2>3. PICK q \in T!AllPatterns : EndIn(p, q)
    BY <1>1, <2>2
  <2>4. q \in Seq(Lab) /\ \A i \in 2..Len(q) : q[i] # T!dotWildcard
    BY PatternsKnown
  <2>5. Len(q) \in Nat /\ Len(p) <= Len(q) /\ p[j] = q[Len(q) - j + 1]
    <3>1. Len(q) \in Nat /\ j \in 1..Len(p)
      BY <2>1, <2>4
    <3>2. QED
      BY <2>3, <3>1 DEF EndIn
  <2>6. Len(q) - j + 1 \in 2..Len(q)
    BY <2>1, <2>5
  <2>7. QED
    BY <2>4, <2>5, <2>6
<1>4. ASSUME T!NoNode \in DOMAIN trie PROVE FALSE
  <2>1. Len(T!NoNode) = 2 /\ T!NoNode[1] = T!dotWildcard
    BY Zenon DEF T!NoNode
  <2>2. ASSUME NEW n, n = Len(T!NoNode) PROVE 1 \in 1..(n - 1)
    BY <2>1, <2>2
  <2>3. QED
    BY <1>3, <1>4, <2>1, <2>2
<1>5. QED
  BY <1>2, <1>3, <1>4

(* A step down the way to a node is a node.                                *)
LEMMA NodeBelow ==
    ASSUME T!TrieAssumption, TrieInv, NEW p \in DOMAIN trie, NEW r \in DOMAIN trie,
           Under(p, r), Len(p) < Len(r), NEW l, l = r[Len(p) + 1]
    PROVE  /\ Append(p, l) \in DOMAIN trie
           /\ Under(Append(p, l), r)
           /\ Len(Append(p, l)) = Len(p) + 1 /\ Append(p, l)[Len(p) + 1] = l
           /\ \A j \in 1..Len(p) : Append(p, l)[j] = p[j]
<1>1. p \in Seq(Lab) /\ r \in Seq(Lab) /\ Len(p) \in Nat /\ Len(r) \in Nat
  <2>1. DOMAIN trie \subseteq Seq(Lab)
    BY NodeShape
  <2>2. p \in Seq(Lab) /\ r \in Seq(Lab)
    BY <2>1
  <2>3. QED
    BY <2>2, LenProperties
<1>2. l \in Lab
  BY <1>1
<1>3. /\ Append(p, l) \in Seq(Lab) /\ Len(Append(p, l)) = Len(p) + 1
      /\ Append(p, l)[Len(p) + 1] = l /\ \A j \in 1..Len(p) : Append(p, l)[j] = p[j]
  BY <1>1, <1>2, AppendProperties
<1>4. Under(Append(p, l), r)
  BY <1>1, <1>3 DEF Under
<1>5. r # <<>>
  BY <1>1
<1>6. PICK q \in T!AllPatterns : EndIn(r, q)
  BY <1>5 DEF TrieInv
<1>7. EndIn(Append(p, l), q)
  <2>1. q \in Seq(Lab)
    BY PatternsKnown
  <2>2. Len(q) \in Nat
    BY <2>1
  <2>3. Len(r) <= Len(q) /\ \A j \in 1..Len(r) : r[j] = q[Len(q) - j + 1]
    BY <1>6 DEF EndIn
  <2>4. Len(Append(p, l)) <= Len(r) /\ \A j \in 1..Len(Append(p, l)) : r[j] = Append(p, l)[j]
    BY <1>4 DEF Under
  <2>5. QED
    BY <1>1, <1>3, <2>2, <2>3, <2>4 DEF EndIn
<1>8. QED
  BY <1>3, <1>4, <1>7 DEF TrieInv

-----------------------------------------------------------------------------
(* The walk of Find.                                                       *)

Pairs(name) == (DOMAIN trie) \X (0..Len(name))
Below(f, p, k, l) == IF Append(p, l) \in DOMAIN trie THEN f[<<Append(p, l), k - 1>>] ELSE T!NoNode
Walked(f, name, p, k) ==
    IF k = 0 THEN p
    ELSE IF Below(f, p, k, name[k]) # T!NoNode THEN Below(f, p, k, name[k])
    ELSE IF Below(f, p, k, T!wildcard) # T!NoNode THEN Below(f, p, k, T!wildcard)
    ELSE IF Append(p, T!dotWildcard) \in DOMAIN trie THEN Append(p, T!dotWildcard) ELSE T!NoNode

(* There is a function that satisfies the equation of the walk: level by   *)
(* level, from the first label on.                                         *)
LEMMA WalkExists ==
    ASSUME NEW name, Len(name) \in Nat
    PROVE  \E f : f = [c \in Pairs(name) |-> Walked(f, name, c[1], c[2])]
<1> DEFINE N == Len(name)
           IsWalk(f, K) == \A c \in Pairs(name) : c[2] <= K => f[c] = Walked(f, name, c[1], c[2])
           Bad == {K \in 0..N : ~ \E f : IsWalk(f, K)}
<1>1. \A c \in Pairs(name) : c[1] \in DOMAIN trie /\ c[2] \in 0..N /\ c = <<c[1], c[2]>>
  BY DEF Pairs
<1>2. \A p \in DOMAIN trie : \A k \in 0..N : <<p, k>> \in Pairs(name)
  BY DEF Pairs
<1>3. Bad = {}
  <2> SUFFICES ASSUME Bad # {} PROVE FALSE
    OBVIOUS
  <2>1. Bad \in SUBSET Nat
    OBVIOUS
  <2>2. PICK K \in Bad : \A m \in Bad : K <= m
    <3> HIDE DEF Bad
    <3>1. QED
      BY <2>1, Least
  <2>3. K \in 0..N /\ ~ \E f : IsWalk(f, K)
    OBVIOUS
  <2>4. CASE K = 0
    <3> DEFINE f == [c \in Pairs(name) |-> c[1]]
    <3>1. \A c \in Pairs(name) : c[2] <= K => f[c] = Walked(f, name, c[1], c[2])
      <4>1. ASSUME NEW c \in Pairs(name), c[2] <= K PROVE c[2] = 0
        BY <1>1, <2>4, <4>1
      <4>2. QED
        BY <4>1 DEF Walked
    <3>2. QED
      BY <2>3, <3>1
  <2>5. CASE K # 0
    <3>1. K - 1 \in 0..N /\ K - 1 \notin Bad
      <4>1. K \in Nat /\ K - 1 \in 0..N
        BY <2>3, <2>5
      <4>2. ~(K <= K - 1)
        BY <4>1
      <4> HIDE DEF Bad
      <4>3. QED
        BY <2>2, <4>1, <4>2
    <3>2. PICK f : IsWalk(f, K - 1)
      BY <3>1
    <3> DEFINE g == [c \in Pairs(name) |-> IF c[2] <= K - 1 THEN f[c] ELSE Walked(f, name, c[1], c[2])]
    <3>3. ASSUME NEW c \in Pairs(name), c[2] <= K PROVE g[c] = Walked(g, name, c[1], c[2])
      <4> DEFINE p == c[1]
                 k == c[2]
      <4>1. p \in DOMAIN trie /\ k \in 0..N /\ K \in Nat /\ k <= K
        BY <1>1, <2>3, <3>3
      <4>9. k # 0 => k - 1 \in 0..N /\ k - 1 <= K - 1
        <5> HIDE DEF k, Bad
        <5>1. QED
          BY <4>1
      <4>2. ASSUME k # 0, NEW l PROVE Below(g, p, k, l) = Below(f, p, k, l)
        <5>1. CASE Append(p, l) \in DOMAIN trie
          <6> DEFINE a == Append(p, l)
          <6>1. <<a, k - 1>> \in Pairs(name) /\ k - 1 <= K - 1
            BY <1>2, <4>2, <4>9, <5>1
          <6> HIDE DEF a, k
          <6>2. g[<<a, k - 1>>] = f[<<a, k - 1>>]
            BY <6>1
          <6>3. QED
            BY <5>1, <6>2 DEF Below, a
        <5>2. CASE Append(p, l) \notin DOMAIN trie
          BY <5>2 DEF Below
        <5>3. QED
          BY <5>1, <5>2
      <4>3. Walked(g, name, p, k) = Walked(f, name, p, k)
        BY <4>2 DEF Walked
      <4>4. f[c] = Walked(f, name, p, k) \/ ~(k <= K - 1)
        BY <3>2
      <4>5. g[c] = IF k <= K - 1 THEN f[c] ELSE Walked(f, name, p, k)
        BY <3>3
      <4>6. QED
        BY <4>3, <4>4, <4>5
    <3>4. IsWalk(g, K)
      <4> HIDE DEF g
      <4>1. QED
        BY <3>3
    <3>5. QED
      <4> HIDE DEF IsWalk, g
      <4>1. QED
        BY <2>3, <3>4
  <2>6. QED
    BY <2>4, <2>5
<1>4. PICK f : IsWalk(f, N)
  <2>1. N \in 0..N /\ N \notin Bad
    BY <1>3
  <2>2. QED
    BY <2>1
<1> DEFINE g == [c \in Pairs(name) |-> f[c]]
<1>5. \A c \in Pairs(name) : g[c] = f[c] /\ f[c] = Walked(f, name, c[1], c[2])
  BY <1>1, <1>4
<1>6. ASSUME NEW c \in Pairs(name) PROVE Walked(g, name, c[1], c[2]) = f[c]
  <2> DEFINE p == c[1]
             k == c[2]
  <2>1. p \in DOMAIN trie /\ k \in 0..N
    BY <1>1
  <2>2. ASSUME k # 0, NEW l PROVE Below(g, p, k, l) = Below(f, p, k, l)
    <3>1. ASSUME Append(p, l) \in DOMAIN trie PROVE <<Append(p, l), k - 1>> \in Pairs(name)
      <4>1. k - 1 \in 0..N
        BY <2>1, <2>2
      <4>2. QED
        BY <1>2, <3>1, <4>1
    <3> HIDE DEF g, k
    <3>2. QED
      BY <1>5, <3>1 DEF Below
  <2>3. Walked(g, name, p, k) = Walked(f, name, p, k)
    BY <2>2 DEF Walked
  <2>4. QED
    BY <1>5, <2>3
<1>7. g = [c \in Pairs(name) |-> Walked(g, name, c[1], c[2])]
  BY <1>6
<1>8. QED
  <2> HIDE DEF g
  <2>1. QED
    BY <1>7

(* Find is such a function at the root.                                    *)
LEMMA FindWalks ==
    ASSUME NEW name, Len(name) \in Nat
    PROVE  \E f : f = [c \in Pairs(name) |-> Walked(f, name, c[1], c[2])]
                  /\ T!Find(name) = f[<<<<>>, Len(name)>>]
<1> DEFINE Walk(f) == f = [c \in Pairs(name) |-> Walked(f, name, c[1], c[2])]
           find == CHOOSE f : Walk(f)
<1>1. T!Find(name) = find[<<<<>>, Len(name)>>]
  BY DEF T!Find, Walked, Below, Pairs
<1>2. \E f : Walk(f)
  BY WalkExists
<1>3. Walk(find)
  <2> HIDE DEF Walk
  <2>1. QED
    BY <1>2
<1>4. QED
  <2> HIDE DEF find
  <2>1. QED
    BY <1>1, <1>3

LEMMA Ranks ==
    /\ T!dotWildcard # T!wildcard
    /\ T!Rank(T!dotWildcard) = 1 /\ T!Rank(T!wildcard) = 2
    /\ \A l : l # T!dotWildcard /\ l # T!wildcard => T!Rank(l) = 3
<1>1. T!dotWildcard # T!wildcard
  BY Zenon DEF T!dotWildcard, T!wildcard
<1>2. QED
  BY <1>1 DEF T!Rank

(* A sequence with one more element.                                       *)
LEMMA OneMore ==
    ASSUME NEW S, NEW s \in Seq(S), NEW l, NEW a, a = Append(s, l)
    PROVE  Len(a) = Len(s) + 1 /\ a[Len(s) + 1] = l /\ \A j \in 1..Len(s) : a[j] = s[j]
<1>1. s \in Seq(S \cup {l}) /\ l \in S \cup {l}
  BY SeqMonotonic
<1>2. QED
  BY <1>1, AppendProperties

(* What the walk gives below p: the best node that covers the name.        *)
BestUnder(p, v, name) ==
    IF v = T!NoNode
    THEN \A r \in DOMAIN trie : Under(p, r) => ~Fits(r, name)
    ELSE /\ v \in DOMAIN trie /\ Under(p, v) /\ Fits(v, name)
         /\ \A r \in DOMAIN trie : Under(p, r) /\ Fits(r, name) => ~Outranks(r, v)

(* A node that covers the name below one that does not yet.                *)
LEMMA NextLabel ==
    ASSUME T!TrieAssumption, TrieInv, NEW name, IsName(name), NEW k \in 1..Len(name),
           NEW p \in DOMAIN trie, Len(p) = Len(name) - k, FitsTo(p, name, Len(p)),
           NEW r \in DOMAIN trie, Under(p, r), Fits(r, name)
    PROVE  /\ Len(p) < Len(r)
           /\ r[Len(p) + 1] \in {name[k], T!wildcard} \/ r = Append(p, T!dotWildcard)
<1>1. p \in Seq(Lab) /\ r \in Seq(Lab)
  <2>1. DOMAIN trie \subseteq Seq(Lab)
    BY NodeShape
  <2>2. QED
    BY <2>1
<1>2. Len(p) \in Nat /\ Len(r) \in Nat /\ Len(name) \in Nat
  BY <1>1, LenProperties DEF IsName
<1>3. Len(p) <= Len(r) /\ \A j \in 1..Len(p) : r[j] = p[j]
  BY DEF Under
<1>4. \A i \in 1..Len(name) : name[i] # T!dotWildcard
  BY DEF IsName
<1>5. Len(name) - (Len(p) + 1) + 1 = k
  BY <1>2
<1>6. CASE Len(r) = Len(name) /\ FitsTo(r, name, Len(r))
  <2>1. Len(p) < Len(r)
    BY <1>2, <1>6
  <2>2. Len(p) + 1 \in 1..Len(r)
    BY <1>2, <2>1
  <2>3. r[Len(p) + 1] \in {name[k], T!wildcard}
    BY <1>5, <1>6, <2>2 DEF FitsTo
  <2>4. QED
    BY <2>1, <2>3
<1>7. CASE Len(r) \in 1..Len(name) /\ r[Len(r)] = T!dotWildcard /\ FitsTo(r, name, Len(r) - 1)
  <2>1. Len(p) # Len(r)
    <3> SUFFICES ASSUME Len(p) = Len(r) PROVE FALSE
      OBVIOUS
    <3>1. Len(p) \in 1..Len(p) /\ p[Len(p)] = T!dotWildcard
      BY <1>2, <1>3, <1>7
    <3>2. p[Len(p)] \in {name[Len(name) - Len(p) + 1], T!wildcard}
      BY <3>1 DEF FitsTo
    <3>3. Len(name) - Len(p) + 1 \in 1..Len(name)
      BY <1>2, <3>1
    <3>4. QED
      BY <1>4, <3>1, <3>2, <3>3, Ranks
  <2>2. Len(p) < Len(r)
    <3>1. Len(p) <= Len(r)
      BY <1>3
    <3>2. QED
      BY <1>2, <2>1, <3>1
  <2>3. CASE Len(p) + 1 < Len(r)
    <3>1. Len(p) + 1 \in 1..(Len(r) - 1)
      BY <1>2, <2>3
    <3>2. r[Len(p) + 1] \in {name[k], T!wildcard}
      BY <1>5, <1>7, <3>1 DEF FitsTo
    <3>3. QED
      BY <2>2, <3>2
  <2>4. CASE Len(p) + 1 = Len(r)
    <3>1. r[Len(p) + 1] = T!dotWildcard
      BY <1>7, <2>4
    <3>2. /\ Append(p, T!dotWildcard) \in DOMAIN trie
          /\ Len(Append(p, T!dotWildcard)) = Len(p) + 1 /\ Append(p, T!dotWildcard)[Len(p) + 1] = T!dotWildcard
          /\ \A j \in 1..Len(p) : Append(p, T!dotWildcard)[j] = p[j]
      <4>1. Append(p, r[Len(p) + 1]) \in DOMAIN trie
        BY <2>2, NodeBelow
      <4> DEFINE a == Append(p, T!dotWildcard)
      <4>2. a \in DOMAIN trie
        BY <3>1, <4>1
      <4> HIDE DEF a
      <4>3. Len(a) = Len(p) + 1 /\ a[Len(p) + 1] = T!dotWildcard /\ \A j \in 1..Len(p) : a[j] = p[j]
        BY <1>1, OneMore DEF a
      <4>4. QED
        BY <4>2, <4>3 DEF a
    <3>3. Append(p, T!dotWildcard) \in Seq(Lab)
      <4>1. DOMAIN trie \subseteq Seq(Lab)
        BY NodeShape
      <4>2. QED
        BY <3>2, <4>1
    <3> DEFINE a == Append(p, T!dotWildcard)
    <3> HIDE DEF a
    <3>4. a \in Seq(Lab) /\ Len(a) = Len(r) /\ \A j \in 1..Len(r) : a[j] = r[j]
      BY <1>2, <1>3, <2>4, <3>1, <3>2, <3>3 DEF a
    <3>5. r = a
      BY <1>1, <3>4
    <3>6. QED
      BY <2>2, <3>5 DEF a
  <2>5. QED
    BY <1>2, <2>2, <2>3, <2>4
<1>8. QED
  BY <1>6, <1>7 DEF Fits

(* Two nodes that part at place d + 1 and agree before.                    *)
LEMMA Parting ==
    ASSUME NEW r, NEW v, NEW d \in Nat, Len(r) \in Nat, Len(v) \in Nat,
           \A i \in 1..d : r[i] = v[i], r[d + 1] # v[d + 1],
           T!Rank(r[d + 1]) \in Nat, T!Rank(v[d + 1]) \in Nat, T!Rank(r[d + 1]) <= T!Rank(v[d + 1]),
           d + 1 <= Len(r), d + 1 <= Len(v), \A l : T!Rank(l) \in Nat
    PROVE  ~Outranks(r, v)
<1> SUFFICES ASSUME NEW j \in 1..Len(r), j <= Len(v), \A i \in 1..(j - 1) : r[i] = v[i],
                    T!Rank(r[j]) > T!Rank(v[j])
             PROVE FALSE
  BY DEF Outranks
<1>1. CASE j <= d
  <2>1. r[j] = v[j]
    BY <1>1
  <2>2. QED
    BY <2>1
<1>2. CASE j = d + 1
  BY <1>2
<1>3. CASE j > d + 1
  <2>1. d + 1 \in 1..(j - 1)
    BY <1>3
  <2>2. QED
    BY <2>1
<1>4. QED
  BY <1>1, <1>2, <1>3

(* A rank is a number.                                                     *)
LEMMA RankNat == \A l : T!Rank(l) \in Nat
BY Ranks

(* No node outranks itself.                                                *)
LEMMA NotItself ==
    ASSUME NEW r, NEW v, Len(r) \in Nat, \A j \in 1..Len(r) : j <= Len(v) => r[j] = v[j]
    PROVE  ~Outranks(r, v)
BY RankNat DEF Outranks

(* The walk gives the best node below where it stands.                     *)
LEMMA WalkBest ==
    ASSUME T!TrieAssumption, TrieInv, NEW name, IsName(name), Len(name) \in Nat,
           NEW f, f = [c \in Pairs(name) |-> Walked(f, name, c[1], c[2])],
           NEW k \in 0..Len(name), NEW p \in DOMAIN trie, Len(p) = Len(name) - k, FitsTo(p, name, Len(p))
    PROVE  BestUnder(p, f[<<p, k>>], name)
<1> DEFINE N == Len(name)
           Right(m) == \A b \in DOMAIN trie : Len(b) = N - m /\ FitsTo(b, name, Len(b)) =>
                          BestUnder(b, f[<<b, m>>], name)
           Wrong == {m \in 0..N : ~Right(m)}
<1>1. /\ DOMAIN trie \subseteq Seq(Lab) /\ <<>> \in DOMAIN trie
      /\ \A b \in DOMAIN trie : \A j \in 1..(Len(b) - 1) : b[j] # T!dotWildcard
      /\ T!NoNode \notin DOMAIN trie
  BY NodeShape
<1>2. \A b \in DOMAIN trie : b \in Seq(Lab) /\ Len(b) \in Nat
  <2>1. \A b \in DOMAIN trie : b \in Seq(Lab)
    BY <1>1
  <2>2. QED
    BY <2>1, LenProperties
<1>3. \A b \in DOMAIN trie : \A m \in 0..N : f[<<b, m>>] = Walked(f, name, b, m)
  BY DEF Pairs
<1>4. Wrong = {}
  <2> SUFFICES ASSUME Wrong # {} PROVE FALSE
    OBVIOUS
  <2>1. Wrong \in SUBSET Nat
    OBVIOUS
  <2>2. PICK m \in Wrong : \A n \in Wrong : m <= n
    <3> HIDE DEF Wrong
    <3>1. QED
      BY <2>1, Least
  <2>3. m \in 0..N /\ ~Right(m)
    OBVIOUS
  <2>4. PICK b \in DOMAIN trie : Len(b) = N - m /\ FitsTo(b, name, Len(b))
                                 /\ ~BestUnder(b, f[<<b, m>>], name)
    BY <2>3
  <2> DEFINE v == f[<<b, m>>]
  <2>5. v = Walked(f, name, b, m)
    BY <1>3, <2>3
  <2> HIDE DEF v
  <2>6. CASE m = 0
    <3>1. v = b /\ Len(b) = N
      BY <2>3, <2>4, <2>5, <2>6 DEF Walked
    <3>2. v # T!NoNode /\ Under(b, b) /\ Fits(b, name)
      BY <1>1, <1>2, <2>4, <3>1 DEF Under, Fits
    <3>3. ASSUME NEW r \in DOMAIN trie, Under(b, r) PROVE ~Outranks(r, b)
      <4>1. Len(r) \in Nat /\ Len(b) \in Nat
        BY <1>2
      <4>2. \A j \in 1..Len(r) : j <= Len(b) => r[j] = b[j]
        BY <3>3, <4>1 DEF Under
      <4>3. QED
        BY <4>1, <4>2, NotItself
    <3>4. BestUnder(b, v, name)
      BY <3>1, <3>2, <3>3 DEF BestUnder
    <3>5. QED
      BY <2>4, <3>4 DEF v
  <2>7. CASE m # 0
    <3> DEFINE d == Len(b)
               below(l) == Below(f, b, m, l)
               dot == Append(b, T!dotWildcard)
    <3>1. m \in 1..N /\ m - 1 \in 0..N /\ d \in Nat /\ d = N - m /\ N - (d + 1) + 1 = m /\ d + 1 = N - (m - 1)
      BY <1>2, <2>3, <2>4, <2>7
    <3>2. Right(m - 1)
      <4>1. m - 1 \notin Wrong
        <5> HIDE DEF Wrong
        <5>1. ~(m <= m - 1)
          BY <3>1
        <5>2. QED
          BY <2>2, <5>1
      <4>2. QED
        BY <3>1, <4>1
    <3> HIDE DEF Right, Wrong
    <3>3. \A l \in Lab : /\ Append(b, l) \in Seq(Lab) /\ Len(Append(b, l)) = d + 1
                         /\ Append(b, l)[d + 1] = l /\ \A j \in 1..d : Append(b, l)[j] = b[j]
      BY <1>2, AppendProperties
    <3>11. ASSUME NEW r, r = dot PROVE r[d + 1] = T!dotWildcard
      <4>1. b \in Seq(Lab)
        BY <1>2
      <4> HIDE DEF d
      <4>2. QED
        BY <3>11, <4>1, OneMore DEF d
    <3>4. ASSUME NEW l \in {name[m], T!wildcard}, Append(b, l) \in DOMAIN trie
          PROVE  BestUnder(Append(b, l), below(l), name)
      <4> DEFINE a == Append(b, l)
      <4>1. a \in Seq(Lab) /\ Len(a) = d + 1 /\ a[d + 1] = l /\ \A j \in 1..d : a[j] = b[j]
        <5>1. b \in Seq(Lab) /\ a \in Seq(Lab)
          BY <1>2, <3>4
        <5> HIDE DEF a
        <5>2. QED
          BY <5>1, OneMore DEF a
      <4>2. below(l) = f[<<a, m - 1>>]
        BY <3>4 DEF Below
      <4> HIDE DEF a, below
      <4>3. FitsTo(a, name, Len(a))
        <5>1. ASSUME NEW j \in 1..(d + 1) PROVE a[j] \in {name[N - j + 1], T!wildcard}
          <6>1. CASE j = d + 1
            BY <3>1, <3>4, <4>1, <6>1
          <6>2. CASE j # d + 1
            <7>1. j \in 1..d
              BY <3>1, <6>2
            <7>2. QED
              BY <2>4, <4>1, <7>1 DEF FitsTo
          <6>3. QED
            BY <6>1, <6>2
        <5>2. QED
          BY <4>1, <5>1 DEF FitsTo
      <4>4. QED
        BY <3>1, <3>2, <3>4, <4>1, <4>2, <4>3 DEF Right, a
    <3>5. ASSUME NEW r \in DOMAIN trie, Under(b, r), Fits(r, name)
          PROVE  /\ d < Len(r) /\ Len(r) \in Nat
                 /\ \/ r[d + 1] \in {name[m], T!wildcard} /\ Append(b, r[d + 1]) \in DOMAIN trie
                       /\ Under(Append(b, r[d + 1]), r) /\ below(r[d + 1]) # T!NoNode
                    \/ r = dot
      <4>1. d < Len(r) /\ (r[d + 1] \in {name[m], T!wildcard} \/ r = dot) /\ Len(r) \in Nat
        BY <1>2, <2>4, <3>1, <3>5, NextLabel
      <4>2. Append(b, r[d + 1]) \in DOMAIN trie /\ Under(Append(b, r[d + 1]), r)
        BY <3>5, <4>1, NodeBelow
      <4>3. ASSUME r[d + 1] \in {name[m], T!wildcard} PROVE below(r[d + 1]) # T!NoNode
        <5>1. BestUnder(Append(b, r[d + 1]), below(r[d + 1]), name)
          BY <3>4, <4>2, <4>3
        <5>2. QED
          BY <3>5, <4>2, <5>1 DEF BestUnder
      <4>4. QED
        BY <4>1, <4>2, <4>3
    <3>6. \A l : below(l) # T!NoNode => Append(b, l) \in DOMAIN trie
      BY DEF Below
    <3>7. name[m] # T!dotWildcard
      BY <3>1 DEF IsName
    <3>8. ASSUME NEW l \in {name[m], T!wildcard}, below(l) # T!NoNode, v = below(l),
                 l = T!wildcard => below(name[m]) = T!NoNode \/ name[m] = T!wildcard
          PROVE  BestUnder(b, v, name)
      <4>1. Append(b, l) \in DOMAIN trie
        BY <3>6, <3>8
      <4>2. BestUnder(Append(b, l), v, name)
        BY <3>4, <3>8, <4>1
      <4>3. /\ v \in DOMAIN trie /\ Under(Append(b, l), v) /\ Fits(v, name)
            /\ \A r \in DOMAIN trie : Under(Append(b, l), r) /\ Fits(r, name) => ~Outranks(r, v)
        BY <3>8, <4>2 DEF BestUnder
      <4>4. Len(Append(b, l)) = d + 1 /\ Append(b, l)[d + 1] = l /\ \A j \in 1..d : Append(b, l)[j] = b[j]
        <5>1. Append(b, l) \in Seq(Lab)
          BY <1>2, <4>1
        <5>2. l \in Lab
          BY <1>2, <5>1
        <5>3. QED
          BY <3>3, <5>2
      <4>5. d + 1 <= Len(v) /\ v[d + 1] = l /\ \A j \in 1..d : v[j] = b[j]
        <5> DEFINE a == Append(b, l)
        <5> HIDE DEF a, d
        <5>1. Len(a) = d + 1 /\ a[d + 1] = l /\ \A j \in 1..d : a[j] = b[j]
          BY <4>4 DEF a
        <5>2. Len(a) <= Len(v) /\ \A j \in 1..Len(a) : v[j] = a[j]
          BY <4>3 DEF Under, a
        <5>3. d \in Nat
          BY <3>1
        <5>4. d + 1 \in 1..Len(a) /\ \A j \in 1..d : j \in 1..Len(a)
          BY <5>1, <5>3
        <5>5. QED
          BY <5>1, <5>2, <5>4
      <4>6. Under(b, v) /\ Len(v) \in Nat
        BY <1>2, <3>1, <4>3, <4>5 DEF Under
      <4>7. ASSUME NEW r \in DOMAIN trie, Under(b, r), Fits(r, name) PROVE ~Outranks(r, v)
        <5>1. d < Len(r) /\ Len(r) \in Nat /\ \A i \in 1..d : r[i] = v[i]
          BY <3>1, <3>5, <4>5, <4>7 DEF Under
        <5>2. CASE r[d + 1] = l /\ Under(Append(b, l), r)
          BY <4>3, <4>7, <5>2
        <5>3. CASE r[d + 1] # l
          <6>1. r[d + 1] \in {T!dotWildcard, name[m], T!wildcard}
            <7>1. CASE r = dot
              BY <3>11, <7>1
            <7>2. QED
              BY <3>5, <4>7, <7>1
          <6>2. r[d + 1] = name[m] => r[d + 1] = T!dotWildcard \/ below(name[m]) # T!NoNode
            <7>1. CASE r = dot
              BY <3>11, <7>1
            <7>2. CASE r # dot
              BY <3>5, <4>7, <7>2
            <7>3. QED
              BY <7>1, <7>2
          <6>3. T!Rank(r[d + 1]) <= T!Rank(l)
            BY <3>7, <3>8, <5>3, <6>1, <6>2, Ranks
          <6>4. QED
            <7>1. r[d + 1] # v[d + 1] /\ T!Rank(r[d + 1]) <= T!Rank(v[d + 1]) /\ d + 1 <= Len(r)
              BY <3>1, <4>5, <5>1, <5>3, <6>3
            <7> HIDE DEF d
            <7>2. d \in Nat /\ Len(v) \in Nat /\ d + 1 <= Len(v)
              BY <3>1, <4>5, <4>6
            <7>3. QED
              BY <5>1, <7>1, <7>2, Parting, RankNat
        <5>4. CASE r = dot /\ r[d + 1] = l
          <6>1. r[d + 1] = T!dotWildcard
            BY <3>11, <5>4
          <6>2. QED
            BY <3>7, <3>8, <5>4, <6>1, Ranks
        <5>5. QED
          BY <3>5, <4>7, <5>2, <5>3, <5>4
      <4>8. QED
        BY <3>8, <4>3, <4>6, <4>7 DEF BestUnder
    <3>9. BestUnder(b, v, name)
      <4>1. CASE below(name[m]) # T!NoNode
        <5>1. v = below(name[m])
          BY <2>5, <2>7, <4>1 DEF Walked
        <5>2. QED
          BY <3>8, <4>1, <5>1
      <4>2. CASE below(name[m]) = T!NoNode /\ below(T!wildcard) # T!NoNode
        <5>1. v = below(T!wildcard)
          BY <2>5, <2>7, <4>2 DEF Walked
        <5>2. QED
          BY <3>8, <4>2, <5>1
      <4>3. CASE below(name[m]) = T!NoNode /\ below(T!wildcard) = T!NoNode
        <5>1. \A r \in DOMAIN trie : Under(b, r) /\ Fits(r, name) => r = dot
          BY <3>5, <4>3
        <5>2. v = IF dot \in DOMAIN trie THEN dot ELSE T!NoNode
          BY <2>5, <2>7, <4>3 DEF Walked
        <5>3. CASE dot \notin DOMAIN trie
          BY <5>1, <5>2, <5>3 DEF BestUnder
        <5>4. CASE dot \in DOMAIN trie
          <6>1. T!dotWildcard \in Lab
            BY DEF Lab
          <6>2. dot \in Seq(Lab) /\ Len(dot) = d + 1 /\ dot[d + 1] = T!dotWildcard /\ \A j \in 1..d : dot[j] = b[j]
            BY <3>3, <6>1
          <6> HIDE DEF dot
          <6>3. Under(b, dot) /\ v = dot /\ v # T!NoNode
            BY <1>1, <3>1, <5>2, <5>4, <6>2 DEF Under
          <6>4. FitsTo(dot, name, d)
            BY <2>4, <6>2 DEF FitsTo
          <6>5. Len(dot) \in 1..N /\ Len(dot) - 1 = d
            BY <3>1, <6>2
          <6>6. Fits(dot, name)
            BY <6>2, <6>4, <6>5 DEF Fits
          <6>7. ~Outranks(dot, dot)
            BY <3>1, <6>2, NotItself
          <6>8. QED
            BY <5>1, <5>4, <6>3, <6>6, <6>7 DEF BestUnder
        <5>5. QED
          BY <5>3, <5>4
      <4>4. QED
        BY <4>1, <4>2, <4>3
    <3>10. QED
      BY <2>4, <3>9 DEF v
  <2>8. QED
    BY <2>6, <2>7
<1>5. Right(k)
  BY <1>4
<1>6. QED
  BY <1>5

(* The last labels of a sequence.                                          *)
LEMMA LastOnes ==
    ASSUME NEW S, NEW n \in Seq(S), NEW k \in 0..Len(n), NEW s, s = T!LastLabels(n, k)
    PROVE  s \in Seq(S) /\ Len(s) = k /\ \A i \in 1..k : s[i] = n[Len(n) - k + i]
<1>1. Len(n) \in Nat /\ k \in Nat /\ k <= Len(n) /\ s = SubSeq(n, Len(n) - k + 1, Len(n))
  BY DEF T!LastLabels
<1> DEFINE N == Len(n)
           a == N - k + 1
<1>2. N \in Nat /\ a \in Int /\ N - a + 1 = k /\ \A i \in 1..k : a + i - 1 = N - k + i /\ N - k + i \in 1..N
  BY <1>1
<1>3. a <= N + 1 /\ \A i \in a..N : i \in 1..N
  BY <1>1
<1>4. Len(s) = k /\ \A i \in 1..k : s[i] = n[a + i - 1]
  <2> HIDE DEF a, N
  <2>1. s = SubSeq(n, a, N) /\ a \in 1..N + 1 /\ N \in (a - 1)..Len(n) /\ N = Len(n)
    BY <1>1, <1>2, <1>3 DEF a, N
  <2>2. Len(SubSeq(n, a, N)) = N - a + 1 /\ \A i \in 1..(N - a + 1) : SubSeq(n, a, N)[i] = n[a + i - 1]
    BY <2>1, SubSeqProperties
  <2>3. QED
    BY <1>2, <2>1, <2>2
<1>5. \A i \in 1..k : s[i] = n[N - k + i] /\ s[i] \in S
  BY <1>2, <1>4
<1>6. s \in Seq(S)
  BY <1>1, <1>2
<1>7. QED
  BY <1>4, <1>5, <1>6

(* A pattern covers a name exactly when its path does.                     *)
LEMMA CoversFits ==
    ASSUME NEW q \in Seq(Lab), \A i \in 2..Len(q) : q[i] # T!dotWildcard,
           NEW S, NEW n \in Seq(S), \A i \in 1..Len(n) : n[i] # T!dotWildcard, Len(n) # 0,
           NEW v, v = T!Reverse(q)
    PROVE  T!Covers(q, n) <=> Fits(v, n)
<1> DEFINE L == Len(q)
           N == Len(n)
<1>1. L \in Nat /\ N \in Nat
  OBVIOUS
<1>2. v \in Seq(Lab) /\ Len(v) = L /\ \A j \in 1..L : v[j] = q[L - j + 1]
  BY Backwards DEF EndIn
<1> HIDE DEF L, N
<1>3. \A i \in 1..L : L - i + 1 \in 1..L /\ L - (L - i + 1) + 1 = i /\ v[L - i + 1] = q[i]
  BY <1>1, <1>2
<1>4. CASE q # <<>> /\ q[1] = T!dotWildcard
  <2>1. L >= 1 /\ v[L] = T!dotWildcard /\ L \in 1..L
    <3>1. L # 0
      BY <1>4 DEF L
    <3>2. QED
      BY <1>1, <1>2, <1>4, <3>1
  <2>2. T!Covers(q, n) <=> N >= L /\ T!SameLabels(Tail(q), T!LastLabels(n, L - 1))
    BY <1>4 DEF T!Covers, L, N
  <2>3. ASSUME N >= L
        PROVE  T!SameLabels(Tail(q), T!LastLabels(n, L - 1)) <=> FitsTo(v, n, L - 1)
    <3> DEFINE t == Tail(q)
               s == T!LastLabels(n, L - 1)
    <3>1. t \in Seq(Lab) /\ Len(t) = L - 1 /\ DOMAIN t = 1..(L - 1) /\ \A i \in 1..(L - 1) : t[i] = q[i + 1]
      BY <1>4, <2>1 DEF L
    <3>2. L - 1 \in 0..N
      BY <1>1, <2>1, <2>3
    <3>3. Len(s) = L - 1 /\ \A i \in 1..(L - 1) : s[i] = n[N - (L - 1) + i]
      BY <3>2, LastOnes DEF N
    <3> HIDE DEF t, s
    <3>4. T!SameLabels(t, s) <=> \A i \in 1..(L - 1) : q[i + 1] \in {n[N - (L - 1) + i], T!wildcard}
      BY <3>1, <3>3 DEF T!SameLabels
    <3>5. FitsTo(v, n, L - 1) <=> \A j \in 1..(L - 1) : q[L - j + 1] \in {n[N - j + 1], T!wildcard}
      <4>1. \A j \in 1..(L - 1) : v[j] = q[L - j + 1]
        BY <1>1, <1>2
      <4>2. QED
        BY <4>1 DEF FitsTo, N
    <3>6. \A i \in 1..(L - 1) : L - i \in 1..(L - 1) /\ L - (L - i) + 1 = i + 1 /\ N - (L - i) + 1 = N - (L - 1) + i
                                /\ (L - i) + 1 = L - i + 1 /\ N - (L - 1) + (L - i) = N - i + 1
      BY <1>1
    <3>7. (\A i \in 1..(L - 1) : q[i + 1] \in {n[N - (L - 1) + i], T!wildcard})
          <=> \A j \in 1..(L - 1) : q[L - j + 1] \in {n[N - j + 1], T!wildcard}
      <4>1. ASSUME \A i \in 1..(L - 1) : q[i + 1] \in {n[N - (L - 1) + i], T!wildcard}, NEW j \in 1..(L - 1)
            PROVE  q[L - j + 1] \in {n[N - j + 1], T!wildcard}
        <5>1. q[(L - j) + 1] \in {n[N - (L - 1) + (L - j)], T!wildcard}
          BY <3>6, <4>1
        <5>2. QED
          BY <3>6, <5>1
      <4>2. ASSUME \A j \in 1..(L - 1) : q[L - j + 1] \in {n[N - j + 1], T!wildcard}, NEW i \in 1..(L - 1)
            PROVE  q[i + 1] \in {n[N - (L - 1) + i], T!wildcard}
        <5>1. q[L - (L - i) + 1] \in {n[N - (L - i) + 1], T!wildcard}
          BY <3>6, <4>2
        <5>2. QED
          BY <3>6, <5>1
      <4>3. QED
        BY <4>1, <4>2
    <3>8. QED
      BY <3>4, <3>5, <3>7 DEF t, s
  <2>4. ~(L = N /\ FitsTo(v, n, L))
    <3> SUFFICES ASSUME L = N, FitsTo(v, n, L) PROVE FALSE
      OBVIOUS
    <3>1. v[L] \in {n[N - L + 1], T!wildcard} /\ N - L + 1 \in 1..N
      BY <1>1, <2>1 DEF FitsTo, N
    <3>2. QED
      BY <2>1, <3>1, Ranks DEF N
  <2>5. Fits(v, n) <=> L \in 1..N /\ FitsTo(v, n, L - 1)
    BY <1>2, <2>1, <2>4 DEF Fits, N
  <2>6. QED
    BY <1>1, <2>1, <2>2, <2>3, <2>5
<1>5. CASE q = <<>> \/ q[1] # T!dotWildcard
  <2>1. T!Covers(q, n) <=> L = N /\ \A i \in 1..L : q[i] \in {n[i], T!wildcard}
    <3>1. DOMAIN q = 1..L
      BY DEF L
    <3>2. QED
      BY <1>5, <3>1 DEF T!Covers, T!SameLabels, L, N
  <2>2. \A j \in 1..L : v[j] # T!dotWildcard
    <3>1. ASSUME NEW j \in 1..L PROVE q[L - j + 1] # T!dotWildcard
      <4>1. L - j + 1 \in 1..L /\ q # <<>>
        BY <1>1 DEF L
      <4>2. CASE L - j + 1 = 1
        BY <1>5, <4>1, <4>2
      <4>3. CASE L - j + 1 # 1
        <5>1. L - j + 1 \in 2..L
          BY <1>1, <4>1, <4>3
        <5>2. QED
          BY <5>1 DEF L
      <4>4. QED
        BY <4>2, <4>3
    <3>2. QED
      BY <1>2, <3>1
  <2>3. Fits(v, n) <=> L = N /\ FitsTo(v, n, L)
    <3>1. L \in 1..N => v[L] # T!dotWildcard
      BY <1>1, <2>2
    <3>2. QED
      BY <1>2, <3>1 DEF Fits, N
  <2>4. ASSUME L = N PROVE FitsTo(v, n, L) <=> \A i \in 1..L : q[i] \in {n[i], T!wildcard}
    <3>1. ASSUME FitsTo(v, n, L), NEW i \in 1..L PROVE q[i] \in {n[i], T!wildcard}
      <4>1. v[L - i + 1] \in {n[N - (L - i + 1) + 1], T!wildcard}
        BY <1>3, <3>1 DEF FitsTo, N
      <4>2. QED
        BY <1>3, <2>4, <4>1
    <3>2. ASSUME \A i \in 1..L : q[i] \in {n[i], T!wildcard} PROVE FitsTo(v, n, L)
      <4>1. ASSUME NEW j \in 1..L PROVE v[j] \in {n[N - j + 1], T!wildcard}
        <5>1. q[L - j + 1] \in {n[L - j + 1], T!wildcard}
          BY <1>3, <3>2
        <5>2. QED
          BY <1>2, <2>4, <5>1
      <4>2. QED
        BY <4>1 DEF FitsTo, N
    <3>3. QED
      BY <3>1, <3>2
  <2>5. QED
    BY <2>1, <2>3, <2>4
<1>6. QED
  BY <1>4, <1>5

(* A better pattern has a path of higher rank.                             *)
LEMMA BetterOutranks ==
    ASSUME NEW q \in Seq(Lab), NEW r \in Seq(Lab), T!Better(r, q),
           NEW v, v = T!Reverse(q), NEW w, w = T!Reverse(r)
    PROVE  Outranks(w, v)
<1>1. /\ Len(q) \in Nat /\ v \in Seq(Lab) /\ Len(v) = Len(q) /\ \A j \in 1..Len(q) : v[j] = q[Len(q) - j + 1]
      /\ Len(r) \in Nat /\ w \in Seq(Lab) /\ Len(w) = Len(r) /\ \A j \in 1..Len(r) : w[j] = r[Len(r) - j + 1]
  BY Backwards DEF EndIn
<1>2. PICK k \in 1..Len(r) :
        /\ k <= Len(q) /\ T!LastLabels(r, k - 1) = T!LastLabels(q, k - 1)
        /\ T!Rank(r[Len(r) - k + 1]) > T!Rank(q[Len(q) - k + 1])
  BY DEF T!Better
<1>3. T!Rank(w[k]) > T!Rank(v[k])
  BY <1>1, <1>2
<1>4. ASSUME NEW i \in 1..(k - 1) PROVE w[i] = v[i]
  <2> DEFINE m == k - 1
             s == T!LastLabels(r, m)
             j == k - i
  <2>1. m \in 0..Len(r) /\ m \in 0..Len(q) /\ j \in 1..m
    BY <1>1, <1>2
  <2>2. s = T!LastLabels(q, m)
    BY <1>2
  <2>3. Len(r) - m + j = Len(r) - i + 1 /\ Len(q) - m + j = Len(q) - i + 1
    BY <1>1, <1>2
  <2> HIDE DEF m, s, j
  <2>4. \A h \in 1..m : s[h] = r[Len(r) - m + h]
    BY <2>1, LastOnes DEF s
  <2> DEFINE t == T!LastLabels(q, m)
  <2> HIDE DEF t
  <2>5. \A h \in 1..m : t[h] = q[Len(q) - m + h]
    BY <2>1, LastOnes DEF t
  <2>6. r[Len(r) - i + 1] = q[Len(q) - i + 1]
    <3>1. s[j] = r[Len(r) - m + j] /\ t[j] = q[Len(q) - m + j] /\ s = t
      BY <2>1, <2>2, <2>4, <2>5 DEF t
    <3>2. QED
      BY <2>3, <3>1
  <2>7. i \in 1..Len(r) /\ i \in 1..Len(q)
    BY <1>1, <1>2
  <2>8. QED
    BY <1>1, <2>6, <2>7
<1>5. QED
  BY <1>1, <1>2, <1>3, <1>4 DEF Outranks

(* With what the trie holds, the search finds what it should.              *)
LEMMA SearchSafe == T!TrieAssumption /\ TrieInv => T!SearchFinds
<1> SUFFICES ASSUME T!TrieAssumption, TrieInv, NEW n \in Names, T!Valid(n), n[1] # T!dotWildcard
             PROVE  IF T!Search(n) # T!NoData
                    THEN \E q \in T!Patterns(T!Search(n)) :
                            /\ T!Covers(q, n)
                            /\ \A e \in DOMAIN entries : e > T!Search(n) => q \notin T!Patterns(e)
                            /\ \A r \in T!AllPatterns : T!Covers(r, n) => ~T!Better(r, q)
                    ELSE (\E q \in T!AllPatterns : T!Covers(q, n)) =>
                            \E r \in T!AllPatterns : Len(r) > Len(n) /\ T!SameLabels(T!LastLabels(r, Len(n)), n)
  BY DEF T!SearchFinds
<1> DEFINE v == T!Find(n)
           N == Len(n)
<1>1. n \in Seq(T!Range(n)) /\ n # <<>>
  BY DEF T!TrieAssumption
<1>2. N \in Nat /\ N # 0 /\ DOMAIN n = 1..N
  BY <1>1
<1>3. \A i \in 1..N : n[i] # T!dotWildcard
  <2>1. \A i \in 2..N : n[i] # T!dotWildcard
    BY DEF T!Valid
  <2>2. QED
    BY <1>2, <2>1
<1>4. IsName(n)
  BY <1>1, <1>3 DEF IsName
<1>5. T!Search(n) = IF v = T!NoNode THEN T!NoData ELSE trie[v]
  BY DEF T!Search
<1>6. BestUnder(<<>>, v, n)
  <2>1. PICK f : f = [c \in Pairs(n) |-> Walked(f, n, c[1], c[2])] /\ v = f[<<<<>>, Len(n)>>]
    BY <1>2, FindWalks
  <2>2. <<>> \in DOMAIN trie
    BY NodeShape
  <2>3. N \in 0..N /\ Len(<<>>) = N - N /\ FitsTo(<<>>, n, Len(<<>>))
    BY <1>2 DEF FitsTo
  <2>4. QED
    BY <1>2, <1>4, <2>1, <2>2, <2>3, WalkBest
<1> HIDE DEF v
<1>7. \A r \in DOMAIN trie : Under(<<>>, r)
  <2>1. DOMAIN trie \subseteq Seq(Lab)
    BY NodeShape
  <2>2. \A r \in DOMAIN trie : Len(r) \in Nat
    BY <2>1
  <2>3. QED
    BY <2>2 DEF Under
<1>8. ASSUME NEW q \in T!AllPatterns
      PROVE  /\ q \in Seq(Lab) /\ T!Reverse(q) \in DOMAIN trie
             /\ T!Covers(q, n) <=> Fits(T!Reverse(q), n)
  <2>1. q \in Seq(Lab) /\ \A i \in 2..Len(q) : q[i] # T!dotWildcard
    BY PatternsKnown
  <2>2. T!Reverse(q) \in DOMAIN trie
    BY <2>1, Backwards DEF TrieInv
  <2>3. T!Covers(q, n) <=> Fits(T!Reverse(q), n)
    BY <1>1, <1>2, <1>3, <2>1, CoversFits
  <2>4. QED
    BY <2>1, <2>2, <2>3
<1>9. CASE T!Search(n) # T!NoData
  <2>1. v # T!NoNode /\ T!Search(n) = trie[v]
    BY <1>5, <1>9
  <2>2. /\ v \in DOMAIN trie /\ Fits(v, n)
        /\ \A r \in DOMAIN trie : Fits(r, n) => ~Outranks(r, v)
    BY <1>6, <1>7, <2>1 DEF BestUnder
  <2>3. PICK q \in T!Patterns(trie[v]) :
           v = T!Reverse(q) /\ \A e \in DOMAIN entries : e > trie[v] => q \notin T!Patterns(e)
    BY <1>9, <2>1, <2>2 DEF TrieInv
  <2>4. q \in T!AllPatterns
    <3>1. trie[v] \in 0..Len(entries) /\ trie[v] # 0 /\ entries \in Seq(Domains)
      BY <1>9, <2>1, <2>2 DEF TrieInv, T!NoData
    <3>2. trie[v] \in DOMAIN entries
      BY <3>1
    <3>3. QED
      BY <2>3, <3>2 DEF T!AllPatterns
  <2>5. T!Covers(q, n)
    BY <1>8, <2>2, <2>3, <2>4
  <2>6. ASSUME NEW r \in T!AllPatterns, T!Covers(r, n) PROVE ~T!Better(r, q)
    BY <1>8, <2>2, <2>3, <2>4, <2>6, BetterOutranks
  <2>7. QED
    BY <1>9, <2>1, <2>3, <2>5, <2>6
<1>10. CASE T!Search(n) = T!NoData
  <2> SUFFICES ASSUME NEW q \in T!AllPatterns, T!Covers(q, n)
               PROVE  \E r \in T!AllPatterns : Len(r) > Len(n) /\ T!SameLabels(T!LastLabels(r, Len(n)), n)
    BY <1>10
  <2>1. v # T!NoNode
    <3>1. T!Reverse(q) \in DOMAIN trie /\ Fits(T!Reverse(q), n)
      BY <1>8
    <3>2. QED
      BY <1>6, <1>7, <3>1 DEF BestUnder
  <2>2. v \in DOMAIN trie /\ Fits(v, n) /\ trie[v] = T!NoData
    BY <1>5, <1>6, <1>10, <2>1 DEF BestUnder
  <2>3. v \in Seq(Lab) /\ Len(v) \in Nat /\ v # <<>>
    <3>1. DOMAIN trie \subseteq Seq(Lab)
      BY NodeShape
    <3>2. v \in Seq(Lab)
      BY <2>2, <3>1
    <3>3. Len(v) # 0
      BY <1>2, <2>2 DEF Fits
    <3>4. QED
      BY <3>2, <3>3
  <2>4. PICK r \in T!AllPatterns : EndIn(v, r)
    BY <2>2, <2>3 DEF TrieInv
  <2>5. r \in Seq(Lab) /\ (\A i \in 2..Len(r) : r[i] # T!dotWildcard) /\ Len(r) \in Nat
    <3>1. r \in Seq(Lab) /\ (\A i \in 2..Len(r) : r[i] # T!dotWildcard)
      BY PatternsKnown
    <3>2. QED
      BY <3>1
  <2>6. Len(v) <= Len(r) /\ \A j \in 1..Len(v) : v[j] = r[Len(r) - j + 1]
    BY <2>4 DEF EndIn
  <2>7. Len(v) # Len(r)
    <3>1. v = T!Reverse(r) => trie[v] # T!NoData
      BY DEF TrieInv
    <3>2. QED
      BY <2>2, <2>3, <2>4, <2>5, <3>1, Backwards
  <2>8. Len(v) = N /\ FitsTo(v, n, N)
    <3>1. Len(v) \in 1..Len(v) /\ Len(r) - Len(v) + 1 \in 2..Len(r)
      <4>1. Len(v) # 0
        BY <2>3
      <4>2. QED
        BY <2>3, <2>5, <2>6, <2>7, <4>1
    <3>2. v[Len(v)] # T!dotWildcard
      BY <2>5, <2>6, <3>1
    <3>3. QED
      BY <2>2, <3>2 DEF Fits
  <2> DEFINE s == T!LastLabels(r, N)
  <2>9. N \in 0..Len(r) /\ N < Len(r)
    BY <1>2, <2>5, <2>6, <2>7, <2>8
  <2>10. s \in Seq(Lab) /\ Len(s) = N /\ \A i \in 1..N : s[i] = r[Len(r) - N + i]
    BY <2>5, <2>9, LastOnes
  <2> HIDE DEF s
  <2>11. ASSUME NEW i \in 1..N PROVE s[i] \in {n[i], T!wildcard}
    <3> DEFINE j == N - i + 1
    <3>1. j \in 1..N /\ N - j + 1 = i /\ Len(r) - j + 1 = Len(r) - N + i
      BY <1>2, <2>5
    <3> HIDE DEF j
    <3>2. v[j] \in {n[N - j + 1], T!wildcard} /\ v[j] = r[Len(r) - j + 1]
      BY <2>6, <2>8, <3>1 DEF FitsTo
    <3>3. QED
      BY <2>10, <3>1, <3>2
  <2>12. T!SameLabels(s, n)
    <3>1. DOMAIN s = 1..N
      BY <2>10
    <3>2. QED
      BY <2>10, <2>11, <3>1 DEF T!SameLabels
  <2>13. Len(r) > Len(n)
    BY <1>2, <2>5, <2>9
  <2>14. QED
    BY <2>12, <2>13 DEF s
<1>11. QED
  BY <1>9, <1>10

(* While the program runs, whatever is inserted and searched for.          *)
THEOREM SearchesFind == RulesSpec => []SearchFinds
<1> DEFINE I0 == moves = "trie" => TrieInv
<1>1. RulesInit => I0
  BY TrieStart DEF RulesInit
<1>2. I0 /\ [RulesNext]_<<moves, vars, rvars, tvars>> => I0'
  <2> SUFFICES ASSUME I0, [RulesNext]_<<moves, vars, rvars, tvars>>, moves' = "trie" PROVE TrieInv'
    OBVIOUS
  <2>1. moves = "trie" /\ [T!Next]_(T!vars)
    BY DEF RulesNext, tvars, T!vars
  <2>2. QED
    BY <2>1, RuleConstants, TrieStep
<1>3. I0 => SearchFinds
  BY RuleConstants, SearchSafe DEF SearchFinds
<1> HIDE DEF I0
<1>4. QED
  BY <1>1, <1>2, <1>3, PTL DEF RulesSpec
=============================================================================
