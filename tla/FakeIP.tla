-------------------------------- MODULE FakeIP --------------------------------
(***************************************************************************)
(* The fake addresses of the dialling library (component/fakeip, with the  *)
(* LRU cache of common/cache/lrucache.go).  A name that is looked up gets  *)
(* an address of a reserved range; a connection to that address is later   *)
(* led back to the name.  Both directions live in one LRU list that holds  *)
(* twice the configured size.  Pool.mux makes every operation atomic.      *)
(***************************************************************************)
EXTENDS Naturals, Sequences, FiniteSets

CONSTANTS
    Hosts,          \* names that are looked up
    Sizes,          \* configured sizes (Options.Size)
    Ranges          \* numbers of addresses of the range: max - min

VARIABLES
    size, range,    \* of this pool
    lru,            \* the entries, the least recently used first
    offset,
    given,          \* the address each name was given last, NoAddr before
    used            \* the names looked up or led back to, the latest first

vars == <<size, range, lru, offset, given, used>>

(* What is asked of the constants.                                         *)
FakeAssumption ==
    /\ Sizes \subseteq Nat \ {0} /\ Ranges \subseteq Nat \ {0}
    /\ \A r \in Ranges : \A a \in 0..(r - 1) : <<"addr", a>> \notin Hosts

(* Offset o stands for the address min + o - 1, so offset 0 for min - 1,   *)
(* the gateway.                                                            *)
Addrs == 0..(range - 1)
NoAddr == range
Entry(k, v) == [key |-> k, value |-> v]

Init ==
    /\ size \in Sizes /\ range \in Ranges
    /\ lru = <<>>
    /\ offset = 0
    /\ given = [h \in Hosts |-> NoAddr]
    /\ used = <<>>

-----------------------------------------------------------------------------
(* LruCache, made without an age: entries leave only when it is full.      *)

IsKey(e, k) == e.key = k
Holds(l, k) == \E i \in DOMAIN l : IsKey(l[i], k)
Place(l, k) == CHOOSE i \in DOMAIN l : IsKey(l[i], k)
ValueOf(l, k) == l[Place(l, k)].value
Cut(l, i) == SubSeq(l, 1, i - 1) \o SubSeq(l, i + 1, Len(l))
Without(l, k) == IF Holds(l, k) THEN Cut(l, Place(l, k)) ELSE l

(* Get: MoveToBack.                                                        *)
Touch(l, k) == IF Holds(l, k) THEN Append(Without(l, k), Entry(k, ValueOf(l, k))) ELSE l

(* SetWithExpire: replaced in place of the old one, else the oldest goes.  *)
\* bug: nothing is removed
SetUnbounded(l, k, v) == Append(Without(l, k), Entry(k, v))
Set(l, k, v) ==
    LET longer == Append(Without(l, k), Entry(k, v)) IN
    IF Len(longer) > 2 * size THEN Tail(longer) ELSE longer

Use(h) == <<h>> \o IF \E i \in DOMAIN used : used[i] = h
                    THEN Cut(used, CHOOSE i \in DOMAIN used : used[i] = h) ELSE used

-----------------------------------------------------------------------------
(* Pool.                                                                   *)

Key(a) == <<"addr", a>>

(* get: the next free address, or the next but all when none is free.  The *)
(* address of the present offset is not looked at.                         *)
\* bug: it begins with the present offset
NextOffsetStays ==
    LET free == {d \in 0..(range - 1) : ~Holds(lru, Key((offset + d) % range))} IN
    IF free = {} THEN offset ELSE (offset + CHOOSE d \in free : \A e \in free : d <= e) % range
NextOffset ==
    LET free == {d \in 1..(range - 1) : ~Holds(lru, Key((offset + d) % range))} IN
    IF free = {} THEN offset ELSE (offset + CHOOSE d \in free : \A e \in free : d <= e) % range

(* GetByHost of memoryStore: both entries are touched, name first.         *)
ByHost(l, h) == Touch(Touch(l, h), Key(ValueOf(l, h)))

(* GetByIP of memoryStore: both are touched, address first.                *)
\* bug: only the entry of the address is touched
ByAddrAlone(l, a) == Touch(l, Key(a))
ByAddr(l, a) == Touch(Touch(l, Key(a)), ValueOf(l, Key(a)))

Lookup(h) ==
    /\ IF Holds(lru, h)
       THEN /\ given' = [given EXCEPT ![h] = ValueOf(lru, h)]
            /\ lru' = ByHost(lru, h)
            /\ UNCHANGED offset
       ELSE /\ offset' = NextOffset
            /\ lru' = Set(Set(lru, Key(NextOffset), h), h, NextOffset)
            /\ given' = [given EXCEPT ![h] = NextOffset]
    /\ used' = Use(h)
    /\ UNCHANGED <<size, range>>

(* LookBack, for a connection to an address somebody was given.            *)
LookBack(h) ==
    /\ given[h] # NoAddr
    /\ LET a == given[h] IN
       IF Holds(lru, Key(a))
       THEN lru' = ByAddr(lru, a) /\ used' = Use(ValueOf(lru, Key(a)))
       ELSE UNCHANGED <<lru, used>>
    /\ UNCHANGED <<size, range, offset, given>>

(* A reload makes a new pool over the same range and copies the entries.   *)
Reload ==
    /\ lru # <<>>
    /\ UNCHANGED lru
    /\ offset' = 0
    /\ UNCHANGED <<size, range, given, used>>

Next == \/ \E h \in Hosts : Lookup(h) \/ LookBack(h)
        \/ Reload

Spec == Init /\ [][Next]_vars

-----------------------------------------------------------------------------
(* The cache never holds more than its size, nor a key twice.              *)
TypeOK ==
    /\ size \in Sizes /\ range \in Ranges /\ offset \in Addrs
    /\ Len(lru) <= 2 * size
    /\ \A i, j \in DOMAIN lru : lru[i].key = lru[j].key => i = j
    /\ given \in [Hosts -> Addrs \cup {NoAddr}]

(* The names used last, as many as the size says, are still remembered in  *)
(* both directions and the address they were given is theirs alone, as     *)
(* long as the range is larger than the size: a connection that follows    *)
(* its answer reaches the right name however the other names come and go.  *)
RecentRemembered ==
    size < range =>
        \A i \in DOMAIN used : i <= size =>
            LET h == used[i] IN
            /\ Holds(lru, h) /\ ValueOf(lru, h) = given[h]
            /\ Holds(lru, Key(given[h])) /\ ValueOf(lru, Key(given[h])) = h

(* The gateway, which IsFakeIP does not count as fake, is handed out only  *)
(* after every other address of the range was, since the last reload.      *)
GatewayLast ==
    [][\A h \in Hosts : given'[h] = 0 /\ given[h] # 0 /\ ~Holds(lru, h) =>
            \A a \in Addrs \ {0} : Holds(lru, Key(a)) \/ offset >= a]_vars
=============================================================================
