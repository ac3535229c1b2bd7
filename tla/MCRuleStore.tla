----------------------------- MODULE MCRuleStore -----------------------------
(***************************************************************************)
(* Two rules of each kind besides the built-in ones; providers serve the   *)
(* first, or both, or a long page without any rule.  Beside the store, the *)
(* two matchers: the program's own (DomainRules) and the trie of the       *)
(* library (DomainTrie).  They share no variable: `moves` is chosen at the *)
(* start, and the others stay in their initial state.                      *)
(***************************************************************************)
EXTENDS RuleStore, Sequences

CONSTANTS DomainTexts, IpTexts, Targets, Width, Lower, MaxTexts, Domains, Names, MaxEntries

VARIABLES moves, domains, cidrs, strategy, texts, trie, entries

R == INSTANCE DomainRules
T == INSTANCE DomainTrie

MCRules == {"cn", "a", "b"}
MCBuiltin == [k \in Kinds |-> {"cn"}]
MCServed == [k \in Kinds |-> {{}, {"a"}, {"a", "b"}}]

-----------------------------------------------------------------------------
(* DomainRules: texts of up to three lines, addresses of four bits.        *)
ALine(shape, type, value) == [shape |-> shape, type |-> type, value |-> value]
B == ALine("rule", "DOMAIN-SUFFIX", <<"b">>)
AB == ALine("item", "", <<"a", "b">>)
Plain(v) == ALine("bare", "", v)
Header == ALine("header", "", <<>>)
Payload == ALine("payload", "", <<"payload">>)
Other(v) == ALine("rule", "OTHER", v)
Long == ALine("long", "", <<"x">>)
Comment == ALine("comment", "", <<"x">>)
MCDomainTexts ==
    {<<>>, <<B>>, <<AB>>, <<Plain(<<"C">>)>>, <<Plain(<<"", "b">>)>>, <<Other(<<"x">>)>>,
     <<Header, B>>, <<Header, AB, Comment>>, <<Header, Payload>>, <<Payload, Plain(<<"a", "b">>)>>,
     <<Other(<<"b">>), Plain(<<"x", "cn">>)>>, <<Plain(<<"b">>), Long, Plain(<<"x">>)>>, <<Long, B>>,
     <<Header, Other(<<"b">>), Plain(<<"a", "b">>)>>, <<Comment, B, Header>>}
ABlock(k, a, n) == ALine("block", "", [kind |-> k, addr |-> a, bits |-> n])
IpLines == {ABlock("v4", a, n) : a \in {5, 12}, n \in {1, 3, 4}}
           \cup {ABlock("v6", 9, 2), ALine("bare", "", <<"no block">>), ALine("long", "", <<>>)}
MCIpTexts == {<<>>} \cup {<<x, y>> : x, y \in IpLines}
MCLower == [l \in {"a", "b", "c", "cn", "A", "C", "", "x", "payload"} |->
                CASE l = "A" -> "a" [] l = "C" -> "c" [] OTHER -> l]
Hosts == {<<x>> : x \in {"b", "C", "cn", "x"}} \cup {<<x, y>> : x, y \in {"A", "b", "cn", "x"}}
         \cup {<<x, y, z>> : x \in {"x", ""}, y \in {"a", "x"}, z \in {"b", "cn", ""}}
ATarget(k, h, a, p) == [kind |-> k, host |-> h, addr |-> a, port |-> p]
MCTargets == {ATarget("name", h, 0, p) : h \in Hosts, p \in BOOLEAN}
             \cup {ATarget(k, <<>>, a, p) : k \in {"v4", "v6"}, a \in 0..15, p \in BOOLEAN}

(* DomainTrie: every kind of pattern, and entries that end in others.      *)
MCDomains ==
    {<<"c">>, <<"*">>, <<"+">>, <<"b", "c">>, <<"*", "c">>, <<"", "c">>, <<"+", "c">>,
     <<"a", "b", "c">>, <<"*", "b", "c">>, <<"a", "*", "c">>, <<"+", "b", "c">>,
     <<"a", "", "c">>, <<"c", "">>, <<"">>}
Labels == {"a", "b", "c"}
MCNames == {<<x>> : x \in Labels} \cup {<<x, y>> : x, y \in Labels \cup {""}}
           \cup {<<x, y, z>> : x, y, z \in Labels}

(* These constants meet what the theorems ask of them.                     *)
ASSUME RuleConstants == R!RulesAssumption /\ T!TrieAssumption

-----------------------------------------------------------------------------
rvars == <<domains, cidrs, strategy, texts>>
tvars == <<trie, entries>>

RulesInit == moves \in {"store", "rules", "trie"} /\ Init /\ R!Init /\ T!Init
             /\ (moves = "store" \/ \A k \in Kinds : file[k] = {})

RulesNext ==
    \/ moves = "store" /\ Next /\ UNCHANGED <<moves, rvars, tvars>>
    \/ moves = "rules" /\ R!Next /\ UNCHANGED <<moves, vars, tvars>>
    \/ moves = "trie" /\ T!Next /\ UNCHANGED <<moves, vars, rvars>>

RulesSpec == RulesInit /\ [][RulesNext]_<<moves, vars, rvars, tvars>>

-----------------------------------------------------------------------------
(* A target is dialled directly exactly when its address lies in a block   *)
(* of the list or its name ends at a dot in a name of some loaded text.    *)
DirectIfListed == moves = "rules" => R!DirectIfListed

(* Whatever was inserted into a trie and in whatever order, Search gives   *)
(* the newest entry for the best pattern that covers the name, and nothing *)
(* only if none covers it or the name is the end of a longer entry.        *)
SearchFinds == moves = "trie" => T!SearchFinds
=============================================================================
