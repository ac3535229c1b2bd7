---------------------------------- MODULE Dns ----------------------------------
(***************************************************************************)
(* The DNS server and resolver of the dialling library (dns/middleware.go, *)
(* dns/resolver.go, common/picker).  A request passes the handlers hosts,  *)
(* fake address and resolver.  The resolver answers from its cache, and    *)
(* asks again in the background when what it found there has expired;      *)
(* requests for one question share one exchange, and the exchange asks     *)
(* groups of servers in parallel and chooses between their answers.        *)
(***************************************************************************)
EXTENDS Naturals, FiniteSets

CONSTANTS
    Requests,       \* requests that arrive
    Questions,      \* records [host, type], type "A", "AAAA" or "TXT"
    Asked,          \* which question each request may ask
    Confs,          \* configurations, see Conf
    Main, Fallback, Policy      \* the servers of each group

(* What is asked of the constants: every request asks something, and the   *)
(* servers are not the handlers.                                           *)
DnsAssumption ==
    /\ Asked \subseteq [Requests -> Questions]
    /\ {"hosts", "fakeip", "handler", "error", "nobody"} \cap (Main \cup Fallback \cup Policy) = {}

Nobody == <<"none", "none">>

(* The first address of an answer: "bad" ones match the fallback filter.   *)
Contents == {"good", "bad", "empty"}

VARIABLES
    conf,           \* [mode, ipv6, hosts, skip, policy, only, fallback]
    q,              \* the question of each request
    pc,             \* of each thread: request r and its background fetch
    flight,         \* of each question: the exchange in progress
    cache,          \* of each question
    decided,        \* how many exchanges of each question have an answer
    reply,          \* what each thread returned
    seen            \* the newest answer known to a request when it arrived

vars == <<conf, q, pc, flight, cache, decided, reply, seen>>

Own(r) == <<r, "own">>
Again(r) == <<r, "again">>
Threads == {Own(r) : r \in Requests} \cup {Again(r) : r \in Requests}
Asks(t) == q[t[1]]
Idle == [leader |-> Nobody]

Message(from, content, lasting, n) == [from |-> from, content |-> content, lasting |-> lasting, n |-> n]
Error == Message("error", "empty", FALSE, 0)
NoMessage == Message("nobody", "empty", FALSE, 0)
NoEntry == [msg |-> NoMessage, fresh |-> FALSE]

Init ==
    /\ conf \in Confs
    /\ q \in Asked
    /\ pc = [t \in Threads |-> IF t[2] = "own" THEN "start" ELSE "unused"]
    /\ flight = [k \in Questions |-> Idle]
    /\ cache = [k \in Questions |-> NoEntry]
    /\ decided = [k \in Questions |-> 0]
    /\ reply = [t \in Threads |-> NoMessage]
    /\ seen = [r \in Requests |-> 0]

Goes(t, where) == pc' = [pc EXCEPT ![t] = where]
Returns(t, m) == Goes(t, "done") /\ reply' = [reply EXCEPT ![t] = m]

-----------------------------------------------------------------------------
(* newHandler and compose: hosts first, then the fake address, then the    *)
(* resolver.                                                               *)

IsIPRequest(k) == k.type \in {"A", "AAAA"}

(* withHosts: the record of the model is an IPv4 address, whose To16 is    *)
(* not nil: it answers an AAAA question as well.                           *)
ByHosts(k) == IsIPRequest(k) /\ k.host \in conf.hosts

(* withFakeIP.                                                             *)
FakeTypes == {"A", "AAAA"}
ByFakeIP(k) == conf.mode = "fakeip" /\ k.host \notin conf.skip /\ k.type \in FakeTypes

(* withResolver, before Exchange.                                          *)
ByNoIPv6(k) == ~conf.ipv6 /\ k.type = "AAAA"

Handled(k) == ByHosts(k) \/ ByFakeIP(k) \/ ByNoIPv6(k)
HandlerOf(k) == IF ByHosts(k) THEN "hosts" ELSE IF ByFakeIP(k) THEN "fakeip" ELSE "handler"

Newest(k) ==
    LET known == {reply[t].n : t \in {u \in Threads : u[2] = "own" /\ Asks(u) = k /\ pc[u] = "done" /\ reply[u].lasting}} IN
    IF known = {} THEN 0 ELSE CHOOSE n \in known : \A m \in known : m <= n

(* A request the handlers answer themselves.                               *)
Handle(r) ==
    /\ pc[Own(r)] = "start" /\ Handled(q[r])
    /\ Returns(Own(r), Message(HandlerOf(q[r]), "good", FALSE, 0))
    /\ UNCHANGED <<conf, q, flight, cache, decided, seen>>

(* ExchangeContext.  The cache keeps what has expired: it is served once   *)
(* more and asked for again in the background.                             *)
Exchange(r) ==
    LET k == q[r] IN
    /\ pc[Own(r)] = "start" /\ ~Handled(k)
    /\ seen' = [seen EXCEPT ![r] = Newest(k)]
    /\ IF cache[k] = NoEntry THEN Goes(Own(r), "do") /\ UNCHANGED reply
       ELSE /\ reply' = [reply EXCEPT ![Own(r)] = cache[k].msg]
            /\ pc' = [pc EXCEPT ![Own(r)] = "done",
                                ![Again(r)] = IF cache[k].fresh THEN "unused" ELSE "do"]
    /\ UNCHANGED <<conf, q, flight, cache, decided>>

Expire(k) ==
    /\ cache[k] # NoEntry /\ cache[k].fresh
    /\ cache' = [cache EXCEPT ![k].fresh = FALSE]
    /\ UNCHANGED <<conf, q, pc, flight, decided, reply, seen>>

-----------------------------------------------------------------------------
(* exchangeWithoutCache: one flight for a question at a time.              *)

(* batchExchange and picker: the servers still out and the first success.  *)
Batch(servers) == [out |-> servers, won |-> <<>>]
NoBatch == Batch({})

(* shouldOnlyQueryFallback and matchPolicy.                                *)
OnlyFallback(k) == conf.fallback /\ k.host \in conf.only
MatchPolicy(k) == k.host \in conf.policy

(* The groups asked first: the one whose answer counts, and the one kept   *)
(* in reserve (ipExchange; other types have no reserve).                   *)
Takeoff(t, k) ==
    CASE MatchPolicy(k) ->
            [leader |-> t, first |-> Batch(Policy), second |-> NoBatch, choose |-> FALSE]
      [] ~MatchPolicy(k) /\ IsIPRequest(k) /\ OnlyFallback(k) ->
            [leader |-> t, first |-> Batch(Fallback), second |-> NoBatch, choose |-> FALSE]
      [] ~MatchPolicy(k) /\ IsIPRequest(k) /\ ~OnlyFallback(k) /\ conf.fallback ->
            [leader |-> t, first |-> Batch(Main), second |-> Batch(Fallback), choose |-> TRUE]
      [] OTHER ->
            [leader |-> t, first |-> Batch(Main), second |-> NoBatch, choose |-> FALSE]

(* singleflight.Group.Do.                                                  *)
Do(t) ==
    LET k == Asks(t) IN
    /\ pc[t] = "do"
    /\ IF flight[k] = Idle
       THEN flight' = [flight EXCEPT ![k] = Takeoff(t, k)] /\ Goes(t, "lead")
       ELSE Goes(t, "join") /\ UNCHANGED flight
    /\ UNCHANGED <<conf, q, cache, decided, reply, seen>>

(* A server answers, refuses, fails or times out; the picker keeps the     *)
(* first success and Wait waits for all.                                   *)
\* bug: a client that fails does not report to the wait group
LeavesIfOk(b, s, ok) == IF ok THEN b.out \ {s} ELSE b.out
Leaves(b, s, ok) == b.out \ {s}
Picked(b, s, c) ==
    IF c = "failed" THEN [b EXCEPT !.out = Leaves(b, s, FALSE)]
    ELSE [b EXCEPT !.out = Leaves(b, s, TRUE), !.won = IF b.won = <<>> THEN <<s, c>> ELSE b.won]

Running(k) == flight[k] # Idle
Answer(k, s) ==
    /\ Running(k)
    /\ \E c \in Contents \cup {"failed"} :
        \/ s \in flight[k].first.out /\ flight' = [flight EXCEPT ![k].first = Picked(@, s, c)]
        \/ s \in flight[k].second.out /\ flight' = [flight EXCEPT ![k].second = Picked(@, s, c)]
    /\ UNCHANGED <<conf, q, pc, cache, decided, reply, seen>>

(* ipExchange: whether the answer of the first group is taken at once.     *)
\* bug: an answer is taken whatever its address
TakenAny(k) == flight[k].first.won # <<>>
Taken(k) ==
    LET won == flight[k].first.won IN
    /\ won # <<>>
    /\ flight[k].choose => won[2] # "empty" /\ won[2] # "bad"

(* The answer of the exchange.  putMsgToCache, deferred inside the shared  *)
(* call, keeps it if it holds any record; then every thread that joined    *)
(* returns the same.                                                       *)
\* bug: an entry that is there already is not replaced
CachedOnce(k, m) == IF m.lasting /\ cache[k] = NoEntry THEN [cache EXCEPT ![k] = [msg |-> m, fresh |-> TRUE]] ELSE cache
Cached(k, m) == IF m.lasting THEN [cache EXCEPT ![k] = [msg |-> m, fresh |-> TRUE]] ELSE cache

\* bug: only the thread that led returns
ServedAlone(k) == {flight[k].leader}
Served(k) == {flight[k].leader} \cup {t \in Threads : pc[t] = "join" /\ Asks(t) = k}

Lands(k, m) ==
    /\ cache' = Cached(k, m)
    /\ flight' = [flight EXCEPT ![k] = Idle]
    /\ decided' = [decided EXCEPT ![k] = IF m = Error THEN @ ELSE @ + 1]
    /\ pc' = [t \in Threads |-> IF t \in Served(k) THEN "done" ELSE pc[t]]
    /\ reply' = [t \in Threads |-> IF t \in Served(k) THEN m ELSE reply[t]]
    /\ UNCHANGED <<conf, q, seen>>

Decide(k) ==
    /\ Running(k) /\ flight[k].first.out = {}
    /\ LET won == IF Taken(k) THEN flight[k].first.won ELSE flight[k].second.won IN
       /\ ~Taken(k) => flight[k].second.out = {}
       /\ IF won = <<>> THEN Lands(k, Error)
          ELSE \E lasting \in IF won[2] = "empty" THEN BOOLEAN ELSE {TRUE} :
                  Lands(k, Message(won[1], won[2], lasting, decided[k] + 1))

-----------------------------------------------------------------------------
Next ==
    \/ \E r \in Requests : Handle(r) \/ Exchange(r)
    \/ \E t \in Threads : Do(t)
    \/ \E k \in Questions : Expire(k) \/ Decide(k) \/ \E s \in Main \cup Fallback \cup Policy : Answer(k, s)

(* Goroutines run on, and a client ends after its timeout at the latest;   *)
(* that a record expires is not assumed.                                   *)
ThreadStep(r) == Handle(r) \/ Exchange(r) \/ Do(Own(r)) \/ Do(Again(r))
FlightStep(k) == Decide(k) \/ \E s \in Main \cup Fallback \cup Policy : Answer(k, s)
Fairness == /\ \A r \in Requests : WF_vars(ThreadStep(r))
            /\ \A k \in Questions : WF_vars(FlightStep(k))
Spec == Init /\ [][Next]_vars /\ Fairness

-----------------------------------------------------------------------------
(* A flight is led by a thread of its question that is inside the call,    *)
(* and nobody waits for a flight that is over.                             *)
TypeOK ==
    /\ \A k \in Questions : Running(k) =>
        /\ pc[flight[k].leader] = "lead" /\ Asks(flight[k].leader) = k
    /\ \A t \in Threads :
        /\ pc[t] \in {"unused", "start", "do", "lead", "join", "done"}
        /\ pc[t] = "lead" => flight[Asks(t)].leader = t
        /\ pc[t] = "join" => Running(Asks(t))

(* What a request is told, or the cache keeps, comes from a server allowed *)
(* to answer: that of the policy for a name that has one, the fallback     *)
(* group for a name of its domain filter, and where there is a fallback    *)
(* group never an answer of a main server whose first address is filtered. *)
FromAllowed(k, m) ==
    /\ MatchPolicy(k) => m.from \in Policy
    /\ ~MatchPolicy(k) /\ IsIPRequest(k) /\ OnlyFallback(k) => m.from \in Fallback
    /\ ~MatchPolicy(k) /\ IsIPRequest(k) /\ conf.fallback /\ m.content # "good" => m.from \in Fallback
AnswerAllowed ==
    /\ \A k \in Questions : cache[k] # NoEntry => FromAllowed(k, cache[k].msg)
    /\ \A r \in Requests : LET m == reply[Own(r)] IN
        m.from \in Main \cup Fallback \cup Policy => FromAllowed(q[r], m)

(* A request is never told something older than what a request for the     *)
(* same question had been told before it arrived, whatever is cached,      *)
(* expired, or being fetched in the background.                            *)
NeverOlder ==
    \A r \in Requests : reply[Own(r)] # NoMessage /\ reply[Own(r)].lasting => reply[Own(r)].n >= seen[r]

(* Every request is answered, also by an error.                            *)
AllAnswered == \A r \in Requests : pc[Own(r)] = "done"
=============================================================================
