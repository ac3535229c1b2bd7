----------------------------- MODULE DomainRules -----------------------------
(***************************************************************************)
(* The decision of the RuleManager whether a target is dialled directly:   *)
(* reading a text line by line, the walk along the labels of a host, the   *)
(* test of an address against CIDR blocks.  A host or a rule is the        *)
(* sequence of its labels, an address a number of Width bits.  When texts  *)
(* are loaded, and that runs overlap, is RuleStore, where a text is the    *)
(* set of what is read from it here.                                       *)
(***************************************************************************)
EXTENDS Integers, SequencesExt

CONSTANTS
    DomainTexts, IpTexts,   \* the texts that may be loaded: sequences of lines
    Targets,                \* what connections ask for
    Width,                  \* bits of an address
    Lower,                  \* Lower[l]: the label in lower case
    MaxTexts                \* bound: different domain texts loaded

(* A text is a sequence of lines; only a rule has a type; what names a     *)
(* domain has a label, and the "payload: ..." that a payload may hold is   *)
(* the label of no host.  An address has a kind, a block besides a number  *)
(* of bits.  (The provers know nothing of powers.)                         *)
RulesAssumption ==
    /\ Width \in Nat /\ Width >= 2 /\ \A n \in 0..Width : 2^n \in Nat \ {0}
    /\ \A text \in DomainTexts \cup IpTexts : text \in Seq(Range(text))
    /\ \A text \in DomainTexts : \A i \in DOMAIN text :
          /\ text[i].shape \in {"rule", "item", "bare", "payload"} => text[i].value \in Seq(Range(text[i].value)) \ {<<>>}
          /\ text[i].type \in {"DOMAIN", "DOMAIN-SUFFIX"} => text[i].shape = "rule"
          /\ text[i].shape = "payload" =>
                \A t \in Targets : \A j \in DOMAIN t.host : Lower[t.host[j]] # text[i].value[1]
    /\ \A text \in IpTexts : \A i \in DOMAIN text : text[i].shape = "block" =>
          text[i].value \in [kind : {"v4", "v6"}, addr : Nat, bits : 0..Width]
    /\ Targets \subseteq [kind : {"name", "v4", "v6"}, host : Seq(DOMAIN Lower), addr : Nat, port : BOOLEAN]
    /\ \A t \in Targets : t.kind = "name" => t.host # <<>>

VARIABLES
    domains,    \* DomainMatcher.domains
    cidrs,      \* IPMatcher.cidrs
    strategy,
    texts       \* history: the domain texts that were loaded

vars == <<domains, cidrs, strategy, texts>>

(* A line is the header of a payload, a rule with its type, another item   *)
(* of a list, a comment, any other text, or one of more than 64 KB.        *)
Line(shape, type, value) == [shape |-> shape, type |-> type, value |-> value]

Block(kind, addr, bits) == [kind |-> kind, addr |-> addr, bits |-> bits]
BuiltinName == <<"cn">>

Init ==
    /\ domains = {BuiltinName}
    /\ cidrs = {Block("v4", 0, 2)}
    /\ strategy = "china_bypass"
    /\ texts = {}

(* bufio.Scanner stops for good at a line that is too long.                *)
Scanned(text) ==
    LET whole == {n \in 0..Len(text) : \A i \in 1..n : text[i].shape # "long"} IN
    SubSeq(text, 1, CHOOSE n \in whole : \A m \in whole : m <= n)

\* bug: without a comma an item is skipped like a rule of another type
EntryOfRules(line, inPayload) ==
    IF line.shape \in {"rule", "bare"} THEN {line.value} ELSE {}

(* After the header a line that is not blank, no comment and no other kind *)
(* of rule is an entry; before it a line "payload: ..." is not.            *)
Entry(line, inPayload) ==
    CASE line.shape = "rule" ->
            IF line.type \in {"DOMAIN-SUFFIX", "DOMAIN"} THEN {line.value} ELSE {}
      [] line.shape \in {"item", "bare"} -> {line.value}
      [] line.shape = "payload" -> IF inPayload THEN {line.value} ELSE {}
      [] OTHER -> {}

ParseLines(text) ==
    LET lines == Scanned(text)
        inPayload(i) == \E j \in 1..(i - 1) : lines[j].shape = "header"
    IN UNION {Entry(lines[i], inPayload(i)) : i \in DOMAIN lines}

LoadDomains(text) ==
    /\ Cardinality(texts \cup {text}) <= MaxTexts
    /\ domains' = domains \cup ParseLines(text)
    /\ texts' = texts \cup {text}
    /\ UNCHANGED <<cidrs, strategy>>

(* ParseCIDR keeps the masked address; a line that is no block is skipped. *)
Masked(addr, bits) == addr - (addr % 2^(Width - bits))
ParseCIDRs(text) ==
    {Block(l.value.kind, Masked(l.value.addr, l.value.bits), l.value.bits) :
        l \in {k \in Range(Scanned(text)) : k.shape = "block"}}

LoadIPs(text) ==
    /\ cidrs' = IF ParseCIDRs(text) = {} THEN cidrs ELSE ParseCIDRs(text)
    /\ UNCHANGED <<domains, strategy, texts>>

SetStrategy(s) == strategy' = s /\ UNCHANGED <<domains, cidrs, texts>>

Next ==
    \/ \E text \in DomainTexts : LoadDomains(text)
    \/ \E text \in IpTexts : LoadIPs(text)
    \/ \E s \in {"china_bypass", "all_proxy"} : SetStrategy(s)

-----------------------------------------------------------------------------
(* A target is a name or an address, with a port or not.                   *)
SplitHostPort(t) == [t EXCEPT !.port = FALSE]
ParseIP(t) == t.kind \in {"v4", "v6"} /\ ~t.port

(* The whole host, then what is behind each dot.                           *)
MatchDomain(host) ==
    LET name == [i \in DOMAIN host |-> Lower[host[i]]]
        from[i \in DOMAIN name] ==
            SubSeq(name, i, Len(name)) \in domains \/ (i < Len(name) /\ from[i + 1])
    IN from[1]

MatchIP(t) == \E c \in cidrs : c.kind = t.kind /\ Masked(t.addr, c.bits) = c.addr

ShouldDirect(t) ==
    LET h == SplitHostPort(t) IN
    strategy = "china_bypass" /\ IF ParseIP(h) THEN MatchIP(h) ELSE MatchDomain(h.host)

-----------------------------------------------------------------------------
(* What the texts say, line by line: a line names a domain unless it is a  *)
(* comment, a header, a rule of another type, or behind a line that is too *)
(* long.  (A second "payload: ..." becomes an entry no host can equal.)    *)
Listed(text) ==
    {text[i].value : i \in {j \in DOMAIN text :
        /\ text[j].shape \in {"item", "bare"} \/ text[j].type \in {"DOMAIN", "DOMAIN-SUFFIX"}
        /\ \A k \in 1..j : text[k].shape # "long"}}
EndsIn(host, name) ==
    /\ Len(name) <= Len(host)
    /\ \A i \in DOMAIN name : Lower[host[Len(host) - Len(name) + i]] = name[i]
Within(addr, c) == c.addr <= addr /\ addr < c.addr + 2^(Width - c.bits)

(* A target is dialled directly exactly when the strategy allows it and    *)
(* its address lies in a block of the list, or its name, in lower case,    *)
(* ends at a dot in a name that some loaded text gives or in the built-in  *)
(* one.  (A name a text gives in capitals is therefore never met.)         *)
DirectIfListed ==
    \A t \in Targets :
        ShouldDirect(t) <=>
            /\ strategy = "china_bypass"
            /\ IF t.kind = "name"
               THEN \E n \in {BuiltinName} \cup UNION {Listed(x) : x \in texts} : EndsIn(t.host, n)
               ELSE \E c \in cidrs : c.kind = t.kind /\ Within(t.addr, c)
=============================================================================
