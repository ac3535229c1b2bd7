----------------------------- MODULE DomainTrie -----------------------------
(***************************************************************************)
(* The trie of component/trie, in which the clash library keeps host       *)
(* names, filters and policies.  A domain is the sequence of its labels;   *)
(* "*" stands for one label, a first label "" (a leading dot) for one or   *)
(* more, and "+" for none or more.  A node of the trie is its path from    *)
(* the root, the last label first.                                         *)
(***************************************************************************)
EXTENDS Naturals, Sequences, SequencesExt

CONSTANTS
    Domains,     \* what is inserted
    Names,       \* what is searched for
    MaxEntries   \* bound: insertions

VARIABLES
    trie,      \* the data of every node
    entries    \* history: what was inserted, in order; the data is its place

vars == <<trie, entries>>

wildcard == "*"
dotWildcard == ""       \* any label that is empty is this one
complexWildcard == "+"

NoData == 0
NoNode == <<dotWildcard, "no node">>   \* no path goes on after a leading dot

(* A domain has a label.                                                   *)
TrieAssumption == \A d \in Domains \cup Names : d \in Seq(Range(d)) \ {<<>>}

Init == trie = [p \in {<<>>} |-> NoData] /\ entries = <<>>

Valid(parts) == parts # <<dotWildcard>> /\ \A i \in 2..Len(parts) : parts[i] # dotWildcard

(* The nodes on the way are added without data.                            *)
With(t, parts, data) ==
    LET path == Reverse(parts)
        way == {SubSeq(path, 1, i) : i \in 0..Len(path)} IN
    [p \in DOMAIN t \cup way |->
        IF p = path THEN data ELSE IF p \in DOMAIN t THEN t[p] ELSE NoData]

Insert(domain) ==
    /\ Len(entries) < MaxEntries
    /\ Valid(domain)
    /\ LET data == Len(entries) + 1 IN
        trie' = IF domain[1] = complexWildcard
                THEN With(With(trie, Tail(domain), data), <<dotWildcard>> \o Tail(domain), data)
                ELSE With(trie, domain, data)
    /\ entries' = Append(entries, domain)

Next == \E domain \in Domains : Insert(domain)

\* bug: the exact label is tried and nothing else is when it exists
FindGreedy(name) ==
    LET find[n \in (DOMAIN trie) \X (0..Len(name))] ==
          LET child(l) == Append(n[1], l)
              below(l) == IF child(l) \in DOMAIN trie THEN find[<<child(l), n[2] - 1>>] ELSE NoNode
              dot == IF child(dotWildcard) \in DOMAIN trie THEN child(dotWildcard) ELSE NoNode
          IN IF n[2] = 0 THEN n[1]
             ELSE IF child(name[n[2]]) \in DOMAIN trie THEN below(name[n[2]])
             ELSE IF below(wildcard) # NoNode THEN below(wildcard)
             ELSE dot
    IN find[<<<<>>, Len(name)>>]

(* Below a node: the label itself, then "*", each with all that follows,   *)
(* then the leading dot.                                                   *)
Find(name) ==
    LET find[n \in (DOMAIN trie) \X (0..Len(name))] ==
          LET child(l) == Append(n[1], l)
              below(l) == IF child(l) \in DOMAIN trie THEN find[<<child(l), n[2] - 1>>] ELSE NoNode
              dot == IF child(dotWildcard) \in DOMAIN trie THEN child(dotWildcard) ELSE NoNode
          IN IF n[2] = 0 THEN n[1]
             ELSE IF below(name[n[2]]) # NoNode THEN below(name[n[2]])
             ELSE IF below(wildcard) # NoNode THEN below(wildcard)
             ELSE dot
    IN find[<<<<>>, Len(name)>>]

Search(name) ==
    IF ~Valid(name) \/ name[1] = dotWildcard \/ Find(name) = NoNode THEN NoData ELSE trie[Find(name)]

-----------------------------------------------------------------------------
(* What the insertions alone say.                                          *)

PatternsOf(d) == IF d[1] = complexWildcard THEN {Tail(d), <<dotWildcard>> \o Tail(d)} ELSE {d}
Patterns(e) == PatternsOf(entries[e])
AllPatterns == UNION {Patterns(e) : e \in DOMAIN entries}

SameLabels(q, n) == Len(q) = Len(n) /\ \A i \in DOMAIN q : q[i] \in {n[i], wildcard}
LastLabels(n, k) == SubSeq(n, Len(n) - k + 1, Len(n))
Covers(q, n) ==
    IF q # <<>> /\ q[1] = dotWildcard
    THEN Len(n) >= Len(q) /\ SameLabels(Tail(q), LastLabels(n, Len(q) - 1))
    ELSE SameLabels(q, n)

(* At the last label in which two patterns differ, a label is better than  *)
(* "*" and this is better than a leading dot.                              *)
Rank(l) == CASE l = dotWildcard -> 1 [] l = wildcard -> 2 [] OTHER -> 3
Better(q, r) ==
    \E k \in 1..Len(q) :
        /\ k <= Len(r) /\ LastLabels(q, k - 1) = LastLabels(r, k - 1)
        /\ Rank(q[Len(q) - k + 1]) > Rank(r[Len(r) - k + 1])

(* Whatever was inserted and in whatever order, Search gives the newest    *)
(* entry for the best pattern that covers the name.  It finds nothing,     *)
(* although a pattern covers the name, only when the name is the end of a  *)
(* longer entry: the node without data on the way to that one is taken.    *)
SearchFinds ==
    \A n \in Names : Valid(n) /\ n[1] # dotWildcard =>
        IF Search(n) # NoData
        THEN \E q \in Patterns(Search(n)) :
                /\ Covers(q, n)
                /\ \A e \in DOMAIN entries : e > Search(n) => q \notin Patterns(e)
                /\ \A r \in AllPatterns : Covers(r, n) => ~Better(r, q)
        ELSE (\E q \in AllPatterns : Covers(q, n)) =>
                \E r \in AllPatterns : Len(r) > Len(n) /\ SameLabels(LastLabels(r, Len(n)), n)
=============================================================================
