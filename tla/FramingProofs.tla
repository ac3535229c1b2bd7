---------------------------- MODULE FramingProofs ----------------------------
(***************************************************************************)
(* Proofs about Framing, for all fourteen wrappers, buffers and segments   *)
(* of any length and streams of any number of frames: Read gives the       *)
(* payload in order and, after an orderly end, all of it, and a server     *)
(* that knows the format understands what Write put on the wire.           *)
(*                                                                         *)
(* Everything a server has sent is one function T from places to tokens,   *)
(* frame j of it between pos[j] and pos[j + 1], and what has been          *)
(* received, is held or is on the wire is told by places in it (Streamed,  *)
(* Reading).  What Write puts on the wire is frames laid one behind the    *)
(* other (Layout).  The loops of the code are recursive functions; that    *)
(* there is one (LoopExists), and what it gives, follow from the least     *)
(* rank, or the first place, at which it would fail.                       *)
(***************************************************************************)
EXTENDS Framing, SequenceTheorems, WellFoundedInduction, TLAPS

-----------------------------------------------------------------------------
(* Numbers and sequences.                                                  *)

(* A set of numbers has a least one.                                       *)
LEMMA Least == ASSUME NEW T \in SUBSET Nat, T # {} PROVE \E n \in T : \A m \in T : n <= m
<1> DEFINE R == OpToRel(<, Nat)
<1>1. IsWellFoundedOn(R, Nat)
  BY NatLessThanWellFounded
<1>2. \A m, n \in Nat : <<m, n>> \in R <=> m < n
  BY DEF OpToRel
<1> HIDE DEF R
<1>3. PICK n \in T : \A m \in T : ~(<<m, n>> \in R)
  BY <1>1, WFMin
<1>4. ASSUME NEW m \in T PROVE n <= m
  <2>1. n \in Nat /\ m \in Nat
    OBVIOUS
  <2>2. ~(<<m, n>> \in R)
    BY <1>3
  <2>3. ~(m < n)
    BY <1>2, <2>1, <2>2
  <2>4. QED
    BY <2>1, <2>3
<1>5. QED
  BY <1>4

(* Two sequences one after the other.                                      *)
LEMMA Glued ==
    ASSUME NEW X, NEW s \in Seq(X), NEW t \in Seq(X), NEW w \in Seq(X), Len(w) = Len(s) + Len(t),
           \A i \in 1..Len(s) : w[i] = s[i], \A i \in 1..Len(t) : w[Len(s) + i] = t[i]
    PROVE  s \o t = w
<1> DEFINE c == s \o t
<1>1. c \in Seq(X) /\ Len(c) = Len(s) + Len(t)
      /\ \A i \in 1..Len(s) + Len(t) : c[i] = IF i <= Len(s) THEN s[i] ELSE t[i - Len(s)]
  BY ConcatProperties
<1> HIDE DEF c
<1>2. Len(s) \in Nat /\ Len(t) \in Nat
  OBVIOUS
<1>3. ASSUME NEW i \in 1..Len(w) PROVE c[i] = w[i]
  <2>1. CASE i <= Len(s)
    <3>1. i \in 1..Len(s) /\ i \in 1..Len(s) + Len(t)
      BY <1>2, <2>1
    <3>2. c[i] = s[i]
      BY <1>1, <2>1, <3>1
    <3>3. w[i] = s[i]
      BY <3>1
    <3>4. QED
      BY <3>2, <3>3
  <2>2. CASE ~(i <= Len(s))
    <3>1. i - Len(s) \in 1..Len(t) /\ Len(s) + (i - Len(s)) = i
      BY <1>2, <2>2
    <3>2. QED
      BY <1>1, <1>2, <2>2, <3>1
  <2>3. QED
    BY <2>1, <2>2
<1>4. c = w
  BY <1>1, <1>3
<1>5. QED
  BY <1>4 DEF c

LEMMA Glue11 == ASSUME NEW a, NEW b PROVE <<a>> \o <<b>> = <<a, b>>
<1> DEFINE X == {a, b}
           s == <<a>>
           t == <<b>>
           w == <<a, b>>
<1>1. s \in Seq(X) /\ t \in Seq(X) /\ w \in Seq(X) /\ Len(s) = 1 /\ Len(t) = 1 /\ Len(w) = 2
  OBVIOUS
<1>2. (\A i \in 1..1 : w[i] = s[i]) /\ \A i \in 1..1 : w[1 + i] = t[i]
  OBVIOUS
<1> HIDE DEF X, s, t, w
<1>3. /\ Len(w) = Len(s) + Len(t) /\ \A i \in 1..Len(s) : w[i] = s[i]
      /\ \A i \in 1..Len(t) : w[Len(s) + i] = t[i]
  BY <1>1, <1>2
<1>4. s \o t = w
  BY <1>1, <1>3, Glued
<1>5. QED
  BY <1>4 DEF s, t, w

LEMMA Glue12 == ASSUME NEW a, NEW b, NEW c PROVE <<a>> \o <<b, c>> = <<a, b, c>>
<1> DEFINE X == {a, b, c}
           s == <<a>>
           t == <<b, c>>
           w == <<a, b, c>>
<1>1. s \in Seq(X) /\ t \in Seq(X) /\ w \in Seq(X) /\ Len(s) = 1 /\ Len(t) = 2 /\ Len(w) = 3
  OBVIOUS
<1>2. (\A i \in 1..1 : w[i] = s[i]) /\ \A i \in 1..2 : w[1 + i] = t[i]
  OBVIOUS
<1> HIDE DEF X, s, t, w
<1>3. /\ Len(w) = Len(s) + Len(t) /\ \A i \in 1..Len(s) : w[i] = s[i]
      /\ \A i \in 1..Len(t) : w[Len(s) + i] = t[i]
  BY <1>1, <1>2
<1>4. s \o t = w
  BY <1>1, <1>3, Glued
<1>5. QED
  BY <1>4 DEF s, t, w

LEMMA Glue21 == ASSUME NEW a, NEW b, NEW c PROVE <<a, b>> \o <<c>> = <<a, b, c>>
<1> DEFINE X == {a, b, c}
           s == <<a, b>>
           t == <<c>>
           w == <<a, b, c>>
<1>1. s \in Seq(X) /\ t \in Seq(X) /\ w \in Seq(X) /\ Len(s) = 2 /\ Len(t) = 1 /\ Len(w) = 3
  OBVIOUS
<1>2. (\A i \in 1..2 : w[i] = s[i]) /\ \A i \in 1..1 : w[2 + i] = t[i]
  OBVIOUS
<1> HIDE DEF X, s, t, w
<1>3. /\ Len(w) = Len(s) + Len(t) /\ \A i \in 1..Len(s) : w[i] = s[i]
      /\ \A i \in 1..Len(t) : w[Len(s) + i] = t[i]
  BY <1>1, <1>2
<1>4. s \o t = w
  BY <1>1, <1>3, Glued
<1>5. QED
  BY <1>4 DEF s, t, w

LEMMA Glue31 == ASSUME NEW a, NEW b, NEW c, NEW d PROVE <<a, b, c>> \o <<d>> = <<a, b, c, d>>
<1> DEFINE X == {a, b, c, d}
           s == <<a, b, c>>
           t == <<d>>
           w == <<a, b, c, d>>
<1>1. s \in Seq(X) /\ t \in Seq(X) /\ w \in Seq(X) /\ Len(s) = 3 /\ Len(t) = 1 /\ Len(w) = 4
  OBVIOUS
<1>2. (\A i \in 1..3 : w[i] = s[i]) /\ \A i \in 1..1 : w[3 + i] = t[i]
  OBVIOUS
<1> HIDE DEF X, s, t, w
<1>3. /\ Len(w) = Len(s) + Len(t) /\ \A i \in 1..Len(s) : w[i] = s[i]
      /\ \A i \in 1..Len(t) : w[Len(s) + i] = t[i]
  BY <1>1, <1>2
<1>4. s \o t = w
  BY <1>1, <1>3, Glued
<1>5. QED
  BY <1>4 DEF s, t, w

-----------------------------------------------------------------------------
(* Framing.                                                                *)

(* The kinds whose stream is cut into frames.                              *)
Framed == {"tls", "gun", "ws", "chunk", "aead", "mux"} \cup Ssr

(* Payload bytes that follow the first `from` ones.                        *)
Numbered(s, from) == s \in Seq(Token) /\ \A i \in 1..Len(s) : s[i] = Tok("byte", from + i)

LEMMA ByteIs == ASSUME NEW v \in Nat PROVE Tok("byte", v) \in Token /\ Tok("byte", v).t = "byte"
BY DEF Tok, Token

LEMMA PayloadIs ==
    ASSUME NEW from \in Nat, NEW n \in Nat
    PROVE  /\ Numbered(Payload(from, n), from) /\ Len(Payload(from, n)) = n
           /\ Payload(from, n) \in Seq(Token)
           /\ \A i \in 1..n : Payload(from, n)[i] = Tok("byte", from + i)
<1>1. \A i \in 1..n : Tok("byte", from + i) \in Token
  BY ByteIs
<1>2. Payload(from, n) \in [1..n -> Token]
  BY <1>1 DEF Payload
<1>3. Payload(from, n) \in Seq(Token) /\ Len(Payload(from, n)) = n
  BY <1>2
<1>4. \A i \in 1..n : Payload(from, n)[i] = Tok("byte", from + i)
  BY DEF Payload
<1>5. QED
  BY <1>3, <1>4 DEF Numbered

LEMMA NumberedIs ==
    ASSUME NEW from \in Nat, NEW s, Numbered(s, from)
    PROVE  s = Payload(from, Len(s))
<1>1. PICK n \in Nat : n = Len(s)
  BY DEF Numbered
<1>2. Len(Payload(from, n)) = n /\ Payload(from, n) \in Seq(Token)
  BY PayloadIs
<1>3. \A i \in 1..n : Payload(from, n)[i] = s[i]
  BY <1>1, PayloadIs DEF Numbered
<1>4. QED
  BY <1>1, <1>2, <1>3, SeqEqual DEF Numbered

(* Two parts of a stream, one behind the other.                            *)
LEMMA Joined ==
    ASSUME NEW s \in Seq(Token), NEW t \in Seq(Token)
    PROVE  /\ s \o t \in Seq(Token) /\ Len(s \o t) = Len(s) + Len(t)
           /\ Len(s) \in Nat /\ Len(t) \in Nat
           /\ \A i \in 1..Len(s) : (s \o t)[i] = s[i]
           /\ \A i \in 1..Len(t) : (s \o t)[Len(s) + i] = t[i]
<1>1. Len(s) \in Nat /\ Len(t) \in Nat
  OBVIOUS
<1>2. s \o t \in Seq(Token) /\ Len(s \o t) = Len(s) + Len(t)
  BY ConcatProperties
<1>3. \A i \in 1..Len(s) : (s \o t)[i] = s[i]
  BY <1>1, ConcatProperties
<1>4. ASSUME NEW i \in 1..Len(t) PROVE (s \o t)[Len(s) + i] = t[i]
  <2>1. Len(s) + i \in 1..(Len(s) + Len(t)) /\ ~(Len(s) + i <= Len(s)) /\ Len(s) + i - Len(s) = i
    BY <1>1
  <2>2. QED
    BY <2>1, ConcatProperties
<1>5. QED
  BY <1>1, <1>2, <1>3, <1>4

LEMMA JoinedAgain ==
    ASSUME NEW s \in Seq(Token), NEW t \in Seq(Token), NEW r \in Seq(Token)
    PROVE  (s \o t) \o r = s \o (t \o r)
<1>1. \A a, b, c \in Seq(Token) : (a \o b) \o c = a \o (b \o c)
  BY ONLY ConcatAssociative, SMTT(30)
<1>2. QED
  BY <1>1

LEMMA Join ==
    ASSUME NEW s \in Seq(Token), NEW t \in Seq(Token), NEW w, w = s \o t, NEW k, k = Len(s), NEW l, l = Len(t)
    PROVE  /\ w \in Seq(Token) /\ Len(w) = k + l /\ k \in Nat /\ l \in Nat
           /\ \A i \in 1..k : w[i] = s[i]
           /\ \A i \in 1..l : w[k + i] = t[i]
BY Joined

(* Part of a stream, pointwise.                                            *)
LEMMA PartIs ==
    ASSUME NEW s \in Seq(Token), NEW m \in Nat, NEW n \in Nat, m <= n, n <= Len(s)
    PROVE  /\ SubSeq(s, m + 1, n) \in Seq(Token) /\ Len(SubSeq(s, m + 1, n)) = n - m
           /\ \A i \in 1..(n - m) : SubSeq(s, m + 1, n)[i] = s[m + i]
<1>1. PICK k \in Nat : k = Len(s)
  OBVIOUS
<1>2. \A i \in (m + 1)..n : s[i] \in Token
  BY <1>1
<1>3. m + 1 \in Int /\ n \in Int /\ n - (m + 1) + 1 = n - m /\ (IF m + 1 <= n THEN n - (m + 1) + 1 ELSE 0) = n - m
  OBVIOUS
<1>4. SubSeq(s, m + 1, n) \in Seq(Token) /\ Len(SubSeq(s, m + 1, n)) = n - m
  BY <1>2, <1>3, SubSeqProperties
<1>5. \A i \in 1..(n - m) : SubSeq(s, m + 1, n)[i] = s[m + 1 + i - 1]
  BY <1>2, <1>3, SubSeqProperties
<1>6. QED
  BY <1>4, <1>5

(* What Deliver does to the wire and what was got, pointwise.              *)
LEMMA DeliverIs ==
    ASSUME wire \in Seq(Token), got \in Seq(Token), NEW skip \in Nat, NEW n \in Nat, Deliver(skip, n)
    PROVE  /\ skip + n <= Len(wire)
           /\ wire' \in Seq(Token) /\ Len(wire') = Len(wire) - skip - n
           /\ \A i \in 1..(Len(wire) - skip - n) : wire'[i] = wire[skip + n + i]
           /\ got' \in Seq(Token) /\ Len(got') = Len(got) + n
           /\ \A i \in 1..Len(got) : got'[i] = got[i]
           /\ \A i \in 1..n : got'[Len(got) + i] = wire[skip + i]
<1>1. skip + n <= Len(wire) /\ Len(wire) \in Nat
  BY DEF Deliver
<1>2. PICK k \in Nat : k = skip + n
  OBVIOUS
<1>3. wire' = SubSeq(wire, k + 1, Len(wire)) /\ got' = got \o SubSeq(wire, skip + 1, k)
  BY <1>2 DEF Deliver
<1>4. /\ wire' \in Seq(Token) /\ Len(wire') = Len(wire) - k
      /\ \A i \in 1..(Len(wire) - k) : wire'[i] = wire[k + i]
  BY <1>1, <1>2, <1>3, PartIs
<1>5. PICK s : s = SubSeq(wire, skip + 1, k)
  OBVIOUS
<1>6. s \in Seq(Token) /\ Len(s) = n /\ \A i \in 1..n : s[i] = wire[skip + i]
  <2>1. k - skip = n /\ skip <= k /\ k <= Len(wire)
    BY <1>1, <1>2
  <2>2. QED
    BY <1>5, <2>1, PartIs
<1>7. got' = got \o s
  BY <1>3, <1>5
<1>8. /\ got' \in Seq(Token) /\ Len(got') = Len(got) + n
      /\ \A i \in 1..Len(got) : got'[i] = got[i]
      /\ \A i \in 1..n : got'[Len(got) + i] = s[i]
  BY <1>6, <1>7, Joined
<1>9. QED
  BY <1>1, <1>2, <1>4, <1>6, <1>8

(* What is next on the wire is got: numbered on.                           *)
LEMMA DeliverNumbered ==
    ASSUME wire \in Seq(Token), Numbered(got, 0), NEW skip \in Nat, NEW n \in Nat, Deliver(skip, n),
           \A i \in 1..n : wire[skip + i] = Tok("byte", Len(got) + i)
    PROVE  Numbered(got', 0) /\ Len(got') = Len(got) + n
<1>1. PICK g \in Nat : g = Len(got)
  BY DEF Numbered
<1>2. /\ got' \in Seq(Token) /\ Len(got') = g + n
      /\ \A i \in 1..g : got'[i] = got[i]
      /\ \A i \in 1..n : got'[g + i] = wire[skip + i]
  BY <1>1, DeliverIs DEF Numbered
<1>3. ASSUME NEW i \in 1..(g + n) PROVE got'[i] = Tok("byte", 0 + i)
  <2>1. CASE i <= g
    BY <1>1, <1>2, <2>1 DEF Numbered
  <2>2. CASE i > g
    <3>1. i - g \in 1..n /\ g + (i - g) = i
      BY <2>2
    <3>2. got'[g + (i - g)] = Tok("byte", g + (i - g))
      BY <1>1, <1>2, <3>1
    <3>3. QED
      BY <3>1, <3>2
  <2>3. QED
    BY <2>1, <2>2
<1>4. QED
  BY <1>1, <1>2, <1>3 DEF Numbered

(* A buffer whose bytes come next is given out as far as it fits, and the  *)
(* rest is kept.                                                           *)
LEMMA BufferNumbered ==
    ASSUME Numbered(got, 0), NEW buf, Numbered(buf, Len(got)), NEW cap \in Nat, DeliverBuffered(buf, cap)
    PROVE  /\ Numbered(got', 0) /\ Numbered(carry', Len(got'))
           /\ Len(got') + Len(carry') = Len(got) + Len(buf)
<1>1. PICK g \in Nat, b \in Nat : g = Len(got) /\ b = Len(buf)
  BY DEF Numbered
<1>2. PICK k \in Nat : k = Lower(cap, b) /\ k <= b /\ k <= cap
  BY DEF Lower
<1>3. PICK s : s = SubSeq(buf, 1, k)
  OBVIOUS
<1>4. s \in Seq(Token) /\ Len(s) = k /\ \A i \in 1..k : s[i] = buf[i]
  <2>1. k - 0 = k /\ 0 + 1 = 1 /\ 0 <= k /\ \A i \in 1..k : 0 + i = i
    OBVIOUS
  <2>2. SubSeq(buf, 0 + 1, k) \in Seq(Token) /\ Len(SubSeq(buf, 0 + 1, k)) = k - 0
        /\ \A i \in 1..(k - 0) : SubSeq(buf, 0 + 1, k)[i] = buf[0 + i]
    BY <1>1, <1>2, PartIs DEF Numbered
  <2>3. QED
    BY <1>3, <2>1, <2>2
<1>5. got' = got \o s
  BY <1>1, <1>2, <1>3 DEF DeliverBuffered
<1>6. /\ got' \in Seq(Token) /\ Len(got') = g + k
      /\ \A i \in 1..g : got'[i] = got[i]
      /\ \A i \in 1..k : got'[g + i] = s[i]
  BY <1>1, <1>4, <1>5, Joined DEF Numbered
<1>7. Numbered(got', 0)
  <2>1. ASSUME NEW i \in 1..(g + k) PROVE got'[i] = Tok("byte", 0 + i)
    <3>1. CASE i <= g
      BY <1>1, <1>6, <3>1 DEF Numbered
    <3>2. CASE i > g
      <4>1. i - g \in 1..k /\ g + (i - g) = i /\ i - g \in 1..b
        BY <1>2, <3>2
      <4>2. got'[g + (i - g)] = Tok("byte", g + (i - g))
        BY <1>1, <1>4, <1>6, <4>1 DEF Numbered
      <4>3. QED
        BY <4>1, <4>2
    <3>3. QED
      BY <3>1, <3>2
  <2>2. QED
    BY <1>6, <2>1 DEF Numbered
<1>8. carry' \in Seq(Token) /\ Len(carry') = b - k /\ \A i \in 1..(b - k) : carry'[i] = buf[k + i]
  <2>1. carry' = SubSeq(buf, cap + 1, b)
    BY <1>1 DEF DeliverBuffered
  <2>2. CASE cap <= b
    <3>1. k = cap
      BY <1>2, <2>2 DEF Lower
    <3>2. QED
      BY <1>1, <2>1, <2>2, <3>1, PartIs DEF Numbered
  <2>3. CASE cap > b
    <3>1. k = b
      BY <1>2, <2>3 DEF Lower
    <3>2. carry' = <<>>
      <4>1. b < cap + 1 /\ cap + 1 \in Int /\ b \in Int
        BY <2>3
      <4>2. QED
        BY <2>1, <4>1, SubSeqEmpty
    <3>3. QED
      BY <3>1, <3>2
  <2>4. QED
    BY <2>2, <2>3
<1>9. Numbered(carry', g + k)
  <2>1. ASSUME NEW i \in 1..(b - k) PROVE carry'[i] = Tok("byte", (g + k) + i)
    <3>1. k + i \in 1..b /\ g + (k + i) = (g + k) + i
      BY <1>2
    <3>2. QED
      BY <1>1, <1>8, <3>1 DEF Numbered
  <2>2. QED
    BY <1>8, <2>1 DEF Numbered
<1>10. QED
  BY <1>1, <1>2, <1>6, <1>7, <1>8, <1>9

(* What a server sends before the first of its frames.                     *)
Before(id) == IF id = 0 THEN Len(Prelude(kind)) ELSE 0
ChainExtra(id) == IF id = 0 THEN 1 ELSE 0

(* The header of frame id with n payload bytes: a begins at p, b is the    *)
(* last of its tokens in T.                                                *)
HeaderOf(T, p, b, n, id) ==
    \/ kind \in {"tls", "gun", "aead"} /\ b = p + 2 /\ T[p + 1].v = id /\ T[p + 2].v = n
    \/ kind \in {"chunk", "ws"} /\ b = p + 1 /\ T[p + 1].v = n
    \/ kind = "mux" /\ b = p + 4 /\ T[p + 2].v = 2 /\ T[p + 3].v = 1 /\ T[p + 4].v = n
    \/ kind = "mux" /\ b = p + 3 /\ T[p + 3].v = 0 /\ n = 0
    \/ /\ kind \in {"sha1", "aes128"} /\ b = p + 3 + RandLength(id)
       /\ T[p + 1].v = id /\ T[p + 2].v = n + RandLength(id) + 1 /\ T[p + 3].v = RandLength(id)
    \/ /\ kind \in {"chain", "chain_b"} /\ b = p + 2 + ChainExtra(id) + RandLength(id)
       /\ T[p + 1].v = id /\ T[p + 2].v = n + ChainExtra(id) + RandLength(id)

(* Frame id of n bytes, the first of them from + 1, fills T between two    *)
(* places.                                                                 *)
FrameOf(T, low, high, from, n, id) ==
    /\ HeaderOf(T, low + Before(id), high - n, n, id)
    /\ \A i \in 1..n : T[high - n + i] = Tok("byte", from + i)

LEMMA RandIs == ASSUME NEW id \in Nat PROVE RandLength(id) \in {0, 1}
BY DEF RandLength

LEMMA FrontIs ==
    ASSUME kind \in AllKinds, NEW id \in Nat
    PROVE  /\ Before(id) \in Nat /\ (id # 0 => Before(id) = 0)
           /\ kind \in {"tls", "chunk", "aead"} => Before(0) = 1
           /\ kind \in {"gun", "ws", "mux"} \cup Ssr => Before(0) = 0
           /\ kind = "snell" => Len(Prelude(kind)) = 1
           /\ kind \in {"http", "http_simple", "vmess_http"} =>
                /\ Len(Prelude(kind)) = 2 /\ Prelude(kind)[1] = Tok("head", 0)
                /\ Prelude(kind)[2] = Tok("end", 0)
           /\ Prelude(kind) \in Seq(Token)
<1>1. Field(0) \in Seq(Token) /\ Len(Field(0)) = 1 /\ Field(0)[1] = Tok("head", 0)
  BY DEF Field, Tok, Token
<1>2. <<Tok("end", 0)>> \in Seq(Token) /\ Len(<<Tok("end", 0)>>) = 1 /\ <<Tok("end", 0)>>[1] = Tok("end", 0)
  BY DEF Tok, Token
<1>3. PICK s, t : s = Field(0) /\ t = <<Tok("end", 0)>>
  OBVIOUS
<1>4. /\ s \o t \in Seq(Token) /\ Len(s \o t) = 2 /\ (s \o t)[1] = Tok("head", 0)
      /\ (s \o t)[2] = Tok("end", 0)
  <2>1. Len(s \o t) = Len(s) + Len(t) /\ (s \o t)[1] = s[1] /\ (s \o t)[Len(s) + 1] = t[1] /\ s \o t \in Seq(Token)
    BY <1>1, <1>2, <1>3, Joined
  <2>2. Len(s) = 1 /\ Len(t) = 1 /\ s[1] = Tok("head", 0) /\ t[1] = Tok("end", 0)
    BY <1>1, <1>2, <1>3
  <2>3. QED
    BY <2>1, <2>2
<1>5. /\ kind \in {"http", "http_simple", "vmess_http"} => Prelude(kind) = s \o t
      /\ kind \in {"snell", "tls", "chunk", "aead"} => Prelude(kind) = s
      /\ kind \in {"gun", "ws", "mux"} \cup Ssr => Prelude(kind) = <<>>
  BY <1>3, Zenon DEF Prelude, Ssr
<1>6. kind \in {"http", "http_simple", "vmess_http"} \/ kind \in {"snell", "tls", "chunk", "aead"}
      \/ kind \in {"gun", "ws", "mux"} \cup Ssr
  BY DEF AllKinds, Ssr
<1>7. PICK z : z = s \o t
  OBVIOUS
<1>8. z \in Seq(Token) /\ Len(z) = 2 /\ z[1] = Tok("head", 0) /\ z[2] = Tok("end", 0)
  BY <1>4, <1>7
<1>9. s \in Seq(Token) /\ Len(s) = 1
  BY <1>1, <1>3
<1>10. PICK p : p = Prelude(kind)
  OBVIOUS
<1>11. /\ kind \in {"http", "http_simple", "vmess_http"} => p = z
       /\ kind \in {"snell", "tls", "chunk", "aead"} => p = s
       /\ kind \in {"gun", "ws", "mux"} \cup Ssr => p = <<>>
  BY <1>5, <1>7, <1>10
<1>12. p \in Seq(Token) /\ Len(p) \in Nat
  <2>1. p \in {z, s, <<>>}
    BY <1>6, <1>11
  <2>2. <<>> \in Seq(Token)
    OBVIOUS
  <2>3. p \in Seq(Token)
    BY <1>8, <1>9, <2>1, <2>2, Zenon
  <2>4. QED
    BY <2>3
<1>13. QED
  BY <1>8, <1>9, <1>10, <1>11, <1>12 DEF Before, Ssr

(* The same tokens elsewhere are the same header, and the same frame.      *)
LEMMA HeaderMoved ==
    ASSUME NEW T, NEW p \in Nat, NEW b \in Nat, NEW n \in Nat, NEW id \in Nat, HeaderOf(T, p, b, n, id),
           NEW V, NEW o \in Nat, p <= b, \A i \in 1..(b - p) : V[o + i] = T[p + i]
    PROVE  HeaderOf(V, o, o + (b - p), n, id)
<1>1. PICK r \in {0, 1} : r = RandLength(id)
  BY RandIs
<1>2. PICK x \in {0, 1} : x = ChainExtra(id)
  BY DEF ChainExtra
<1>3. PICK c \in Nat : c = o + (b - p)
  OBVIOUS
<1>6. PICK d \in Nat : b = p + d /\ c = o + d /\ \A i \in 1..d : V[o + i] = T[p + i]
  <2>1. b - p \in Nat /\ b = p + (b - p)
    OBVIOUS
  <2>2. QED
    BY <1>3, <2>1
<1>7. d >= 1 => V[o + 1] = T[p + 1]
  BY <1>6
<1>8. d >= 2 => V[o + 2] = T[p + 2]
  BY <1>6
<1>9. d >= 3 => V[o + 3] = T[p + 3]
  BY <1>6
<1>10. d >= 4 => V[o + 4] = T[p + 4]
  BY <1>6
<1>4. HeaderOf(V, o, c, n, id)
  <2>1. CASE kind \in {"tls", "gun", "aead"}
    <3>1. d = 2 /\ c = o + 2 /\ T[p + 1].v = id /\ T[p + 2].v = n
      BY <1>6, <2>1 DEF HeaderOf
    <3>2. QED
      BY <1>7, <1>8, <2>1, <3>1 DEF HeaderOf
  <2>2. CASE kind \in {"chunk", "ws"}
    <3>1. d = 1 /\ c = o + 1 /\ T[p + 1].v = n
      BY <1>6, <2>2 DEF HeaderOf
    <3>2. QED
      BY <1>7, <2>2, <3>1 DEF HeaderOf
  <2>3. CASE kind = "mux" /\ b = p + 4
    <3>1. d = 4 /\ c = o + 4 /\ T[p + 2].v = 2 /\ T[p + 3].v = 1 /\ T[p + 4].v = n
      BY <1>6, <2>3 DEF HeaderOf
    <3>2. QED
      BY <1>8, <1>9, <1>10, <2>3, <3>1 DEF HeaderOf
  <2>4. CASE kind = "mux" /\ b # p + 4
    <3>1. d = 3 /\ c = o + 3 /\ T[p + 3].v = 0 /\ n = 0
      BY <1>6, <2>4 DEF HeaderOf
    <3>2. QED
      BY <1>9, <2>4, <3>1 DEF HeaderOf
  <2>5. CASE kind \in {"sha1", "aes128"}
    <3>1. b = p + 3 + r /\ T[p + 1].v = id /\ T[p + 2].v = n + r + 1 /\ T[p + 3].v = r
      BY <1>1, <2>5 DEF HeaderOf
    <3>2. d = 3 + r /\ c = o + 3 + r /\ d >= 3
      BY <1>6, <3>1
    <3>3. QED
      BY <1>1, <1>7, <1>8, <1>9, <2>5, <3>1, <3>2 DEF HeaderOf
  <2>6. CASE kind \in {"chain", "chain_b"}
    <3>1. b = p + 2 + x + r /\ T[p + 1].v = id /\ T[p + 2].v = n + x + r
      BY <1>1, <1>2, <2>6 DEF HeaderOf
    <3>2. d = 2 + x + r /\ c = o + 2 + x + r /\ d >= 2
      BY <1>6, <3>1
    <3>3. QED
      BY <1>1, <1>2, <1>7, <1>8, <2>6, <3>1, <3>2 DEF HeaderOf
  <2>7. QED
    BY <2>1, <2>2, <2>3, <2>4, <2>5, <2>6 DEF HeaderOf
<1>5. QED
  BY <1>3, <1>4

LEMMA FrameMoved ==
    ASSUME kind \in AllKinds, NEW T, NEW low \in Nat, NEW high \in Nat, NEW from, NEW n \in Nat, NEW id \in Nat,
           FrameOf(T, low, high, from, n, id),
           NEW V, NEW to \in Nat, low <= high,
           \A i \in 1..(high - low) : V[to + i] = T[low + i]
    PROVE  FrameOf(V, to, to + (high - low), from, n, id)
<1>1. PICK f \in Nat : f = Before(id)
  BY FrontIs
<1>2. PICK r \in {0, 1} : r = RandLength(id)
  BY RandIs
<1>3. PICK x \in {0, 1} : x = ChainExtra(id)
  BY DEF ChainExtra
<1>4. PICK new \in Nat : new = to + (high - low)
  OBVIOUS
<1>5. /\ HeaderOf(T, low + f, high - n, n, id)
      /\ \A i \in 1..n : T[high - n + i] = Tok("byte", from + i)
  BY <1>1 DEF FrameOf
<1>6. high - n \in Nat /\ low + f < high - n
  BY <1>2, <1>3, <1>5 DEF HeaderOf
<1>7. \A i \in 1..n : V[new - n + i] = T[high - n + i]
  <2>1. ASSUME NEW i \in 1..n PROVE V[new - n + i] = T[high - n + i]
    <3>1. PICK j \in 1..(high - low) : j = high - n + i - low
      BY <1>6
    <3>2. V[to + j] = T[low + j]
      BY <3>1
    <3>3. to + j = new - n + i /\ low + j = high - n + i
      BY <1>4, <3>1
    <3>4. QED
      BY <3>2, <3>3
  <2>2. QED
    BY <2>1
<1>8. \A i \in 1..(high - n - (low + f)) : V[to + f + i] = T[low + f + i]
  <2>1. ASSUME NEW i \in 1..(high - n - (low + f)) PROVE V[to + f + i] = T[low + f + i]
    <3>1. PICK j \in 1..(high - low) : j = f + i
      BY <1>6
    <3>2. V[to + j] = T[low + j]
      BY <3>1
    <3>3. to + j = to + f + i /\ low + j = low + f + i
      BY <3>1
    <3>4. QED
      BY <3>2, <3>3
  <2>2. QED
    BY <2>1
<1>9. HeaderOf(V, to + f, new - n, n, id)
  <2>1. PICK p \in Nat, o \in Nat, b \in Nat : p = low + f /\ o = to + f /\ b = high - n
    BY <1>6
  <2>2. \A i \in 1..(b - p) : V[o + i] = T[p + i]
    BY <1>8, <2>1
  <2>3. new - n = o + (b - p) /\ p <= b
    BY <1>4, <1>6, <2>1
  <2>4. HeaderOf(V, o, o + (b - p), n, id)
    BY <1>5, <2>1, <2>2, <2>3, HeaderMoved
  <2>5. QED
    BY <2>1, <2>3, <2>4
<1>10. QED
  BY <1>1, <1>4, <1>5, <1>7, <1>9 DEF FrameOf

(* The length field of a header tells how many tokens follow it.           *)
Sized(h, n) ==
    /\ HeaderLength \in {1, 2, 4} /\ HeaderLength <= Len(h)
    /\ h[HeaderLength].t = "size" /\ h[HeaderLength].v = n + (Len(h) - HeaderLength)

(* What a server, or Write, puts before the payload of a frame.            *)
LEMMA HeadIsBuilt ==
    ASSUME kind \in Framed, NEW id \in Nat, NEW from \in Nat, NEW n \in Nat, kind = "mux" => n < Wrap
    PROVE  \E h \in Seq(Token) : /\ ServerFrame(kind, id, from, n) = h \o Payload(from, n)
                                 /\ HeaderOf(h, 0, Len(h), n, id) /\ Sized(h, n)
                                 /\ Len(h) # 0 /\ \A i \in 1..Len(h) : h[i].t # "byte"
<1>1. PICK a, b : a = Tok("head", id) /\ b = Tok("size", n)
  OBVIOUS
<1>2. a \in Token /\ b \in Token /\ a.v = id /\ b.v = n /\ a.t # "byte" /\ b.t # "byte" /\ b.t = "size"
  BY <1>1 DEF Tok, Token
<1>3. CASE kind \in {"tls", "gun", "aead"}
  <2>1. ServerFrame(kind, id, from, n) = <<a, b>> \o Payload(from, n)
    <3>1. ServerFrame(kind, id, from, n) = (Field(id) \o Size(n)) \o Payload(from, n)
      BY <1>3, Zenon DEF ServerFrame
    <3>2. Field(id) \o Size(n) = <<a, b>>
      BY <1>1, Glue11, Zenon DEF Field, Size
    <3>3. QED
      BY <3>1, <3>2, Zenon
  <2>2. PICK h : h = <<a, b>>
    OBVIOUS
  <2>3. h \in Seq(Token) /\ Len(h) = 2 /\ h[1] = a /\ h[2] = b
    BY <1>2, <2>2
  <2>4. HeaderOf(h, 0, Len(h), n, id)
    BY <1>2, <1>3, <2>3 DEF HeaderOf
  <2>5. Len(h) # 0 /\ \A i \in 1..Len(h) : h[i].t # "byte"
    BY <1>2, <2>3
  <2>7. Sized(h, n)
    BY <1>2, <1>3, <2>3 DEF Sized, HeaderLength
  <2>6. QED
    BY <2>1, <2>2, <2>3, <2>4, <2>5, <2>7, Zenon
<1>4. CASE kind \in {"chunk", "ws"}
  <2>1. ServerFrame(kind, id, from, n) = <<b>> \o Payload(from, n)
    BY <1>1, <1>4, Zenon DEF ServerFrame, Size
  <2>2. PICK h : h = <<b>>
    OBVIOUS
  <2>3. h \in Seq(Token) /\ Len(h) = 1 /\ h[1] = b
    BY <1>2, <2>2
  <2>4. HeaderOf(h, 0, Len(h), n, id)
    BY <1>2, <1>4, <2>3 DEF HeaderOf
  <2>5. Len(h) # 0 /\ \A i \in 1..Len(h) : h[i].t # "byte"
    BY <1>2, <2>3
  <2>7. Sized(h, n)
    BY <1>2, <1>4, <2>3 DEF Sized, HeaderLength
  <2>6. QED
    BY <2>1, <2>2, <2>3, <2>4, <2>5, <2>7, Zenon
<1>5. CASE kind = "mux"
  <2>1. PICK c, s, o : c = Tok("head", 0) /\ s = Tok("status", 2) /\ o = Tok("option", 1)
    OBVIOUS
  <2>2. ServerFrame(kind, id, from, n) = <<c, s, o, b>> \o Payload(from, n)
    <3>1. ServerFrame(kind, id, from, n) = (MuxHeader(2, 1) \o Size16(n)) \o Payload(from, n)
      BY <1>5, Zenon DEF ServerFrame
    <3>2. MuxHeader(2, 1) = <<c, s, o>>
      BY <2>1, Glue12, Zenon DEF MuxHeader, Field
    <3>3. Size16(n) = <<b>>
      <4>1. n % Wrap = n
        BY <1>5, FramingAssumption
      <4>2. QED
        BY <1>1, <4>1, Zenon DEF Size16
    <3>4. QED
      BY <3>1, <3>2, <3>3, Glue31, Zenon
  <2>3. PICK h : h = <<c, s, o, b>>
    OBVIOUS
  <2>4. c \in Token /\ s \in Token /\ o \in Token /\ s.v = 2 /\ o.v = 1
        /\ c.t # "byte" /\ s.t # "byte" /\ o.t # "byte"
    BY <2>1 DEF Tok, Token
  <2>5. h \in Seq(Token) /\ Len(h) = 4 /\ h[1] = c /\ h[2] = s /\ h[3] = o /\ h[4] = b
    BY <1>2, <2>3, <2>4
  <2>6. HeaderOf(h, 0, Len(h), n, id)
    BY <1>2, <1>5, <2>4, <2>5 DEF HeaderOf
  <2>7. Len(h) # 0 /\ \A i \in 1..Len(h) : h[i].t # "byte"
    BY <1>2, <2>4, <2>5
  <2>9. Sized(h, n)
    BY <1>2, <1>5, <2>5 DEF Sized, HeaderLength
  <2>8. QED
    BY <2>2, <2>3, <2>5, <2>6, <2>7, <2>9, Zenon
<1>6. PICK r \in {0, 1} : r = RandLength(id)
  BY RandIs
<1>7. PICK z : z = [i \in 1..r |-> Tok("pad", 0)]
  OBVIOUS
<1>8. z \in Seq(Token) /\ Len(z) = r /\ \A i \in 1..r : z[i].t # "byte"
  <2>1. Tok("pad", 0) \in Token /\ Tok("pad", 0).t # "byte"
    BY DEF Tok, Token
  <2>2. z \in [1..r -> Token] /\ \A i \in 1..r : z[i] = Tok("pad", 0)
    BY <1>7, <2>1
  <2>3. QED
    BY <2>1, <2>2
<1>9. CASE kind \in {"sha1", "aes128"}
  <2>1. PICK e, c : e = Tok("size", n + r + 1) /\ c = Tok("head", r)
    OBVIOUS
  <2>2. e \in Token /\ c \in Token /\ e.v = n + r + 1 /\ c.v = r /\ e.t # "byte" /\ c.t # "byte" /\ e.t = "size"
    BY <2>1 DEF Tok, Token
  <2>3. PICK y : y = <<a, e, c>>
    OBVIOUS
  <2>4. y \in Seq(Token) /\ Len(y) = 3 /\ y[1] = a /\ y[2] = e /\ y[3] = c
    BY <1>2, <2>2, <2>3
  <2>5. ServerFrame(kind, id, from, n) = (y \o z) \o Payload(from, n)
    <3>1. ServerFrame(kind, id, from, n) =
              (((Field(id) \o Size(n + r + 1)) \o Field(r)) \o z) \o Payload(from, n)
      BY <1>6, <1>7, <1>9, Zenon DEF ServerFrame, PackedFrame
    <3>2. Field(id) \o Size(n + r + 1) = <<a, e>>
      BY <1>1, <2>1, Glue11, Zenon DEF Field, Size
    <3>3. <<a, e>> \o Field(r) = y
      BY <2>1, <2>3, Glue21, Zenon DEF Field
    <3>4. QED
      BY <3>1, <3>2, <3>3, Zenon
  <2>6. PICK h : h = y \o z
    OBVIOUS
  <2>7. /\ h \in Seq(Token) /\ Len(h) = 3 + r
        /\ \A i \in 1..3 : h[i] = y[i]
        /\ \A i \in 1..r : h[3 + i] = z[i]
    <3>1. PICK k, l : k = Len(y) /\ l = Len(z)
      OBVIOUS
    <3>2. /\ h \in Seq(Token) /\ Len(h) = k + l
          /\ \A i \in 1..k : h[i] = y[i]
          /\ \A i \in 1..l : h[k + i] = z[i]
      <4>1. y \in Seq(Token) /\ z \in Seq(Token)
        BY <1>8, <2>4
      <4>2. h \in Seq(Token)
        BY <2>6, <4>1, Joined
      <4>3. Len(h) = k + l
        BY <2>6, <3>1, <4>1, Joined
      <4>4. \A i \in 1..k : h[i] = y[i]
        BY <2>6, <3>1, <4>1, Joined
      <4>5. \A i \in 1..l : h[k + i] = z[i]
        BY <2>6, <3>1, <4>1, Joined
      <4>6. QED
        BY <4>2, <4>3, <4>4, <4>5
    <3>3. k = 3 /\ l = r
      BY <1>8, <2>4, <3>1
    <3>4. QED
      BY <3>2, <3>3
  <2>8. h[1] = a /\ h[2] = e /\ h[3] = c
    BY <2>4, <2>7
  <2>9. HeaderOf(h, 0, Len(h), n, id)
    BY <1>2, <1>6, <1>9, <2>2, <2>7, <2>8 DEF HeaderOf
  <2>10. ASSUME NEW i \in 1..(3 + r) PROVE h[i].t # "byte"
    <3>1. CASE i <= 3
      BY <1>2, <2>2, <2>8, <3>1
    <3>2. CASE i > 3
      <4>1. i - 3 \in 1..r /\ 3 + (i - 3) = i
        BY <3>2
      <4>2. QED
        BY <1>8, <2>7, <4>1
    <3>3. QED
      BY <3>1, <3>2
  <2>11. Len(h) # 0 /\ \A i \in 1..Len(h) : h[i].t # "byte"
    BY <2>7, <2>10
  <2>13. Sized(h, n)
    <3>1. HeaderLength = 2
      BY <1>9 DEF HeaderLength
    <3>2. e.v = n + ((3 + r) - 2)
      BY <1>6, <2>2
    <3>3. 2 <= 3 + r
      BY <1>6
    <3>4. QED
      BY <2>2, <2>7, <2>8, <3>1, <3>2, <3>3 DEF Sized
  <2>12. QED
    BY <2>5, <2>6, <2>7, <2>9, <2>11, <2>13, Zenon
<1>10. CASE kind \in {"chain", "chain_b"}
  <2>1. PICK x : x = IF id = 0 THEN Field(0) ELSE <<>>
    OBVIOUS
  <2>2. x \in Seq(Token) /\ Len(x) = ChainExtra(id) /\ \A i \in 1..Len(x) : x[i].t # "byte"
    <3>1. Tok("head", 0) \in Token /\ Tok("head", 0).t # "byte"
      BY DEF Tok, Token
    <3>2. CASE id = 0
      <4>1. x = <<Tok("head", 0)>>
        BY <2>1, <3>2 DEF Field
      <4>2. QED
        BY <3>1, <3>2, <4>1 DEF ChainExtra
    <3>3. CASE id # 0
      <4>1. x = <<>>
        BY <2>1, <3>3
      <4>2. QED
        BY <3>3, <4>1 DEF ChainExtra
    <3>4. QED
      BY <3>2, <3>3
  <2>3. PICK w \in {0, 1} : w = ChainExtra(id)
    BY DEF ChainExtra
  <2>4. PICK e : e = Tok("size", n + w + r)
    OBVIOUS
  <2>5. e \in Token /\ e.v = n + w + r /\ e.t # "byte" /\ e.t = "size"
    BY <2>4 DEF Tok, Token
  <2>6. PICK y : y = <<a, e>>
    OBVIOUS
  <2>7. y \in Seq(Token) /\ Len(y) = 2 /\ y[1] = a /\ y[2] = e
    BY <1>2, <2>5, <2>6
  <2>8. ServerFrame(kind, id, from, n) = ((y \o x) \o z) \o Payload(from, n)
    <3>1. ServerFrame(kind, id, from, n) = ChainFrame(id, from, n)
      BY <1>10 DEF ServerFrame
    <3>2. n + Len(x) + RandLength(id) = n + w + r
      BY <1>6, <2>2, <2>3
    <3>3. ChainFrame(id, from, n) = (((Field(id) \o Size(n + w + r)) \o x) \o z) \o Payload(from, n)
      BY <1>6, <1>7, <2>1, <3>2, Zenon DEF ChainFrame
    <3>4. Field(id) \o Size(n + w + r) = y
      BY <1>1, <2>4, <2>6, Glue11, Zenon DEF Field, Size
    <3>5. QED
      BY <3>1, <3>3, <3>4, Zenon
  <2>9. PICK u : u = y \o x
    OBVIOUS
  <2>10. /\ u \in Seq(Token) /\ Len(u) = 2 + w
         /\ \A i \in 1..2 : u[i] = y[i]
         /\ \A i \in 1..w : u[2 + i] = x[i]
    <3>1. PICK k, l : k = Len(y) /\ l = Len(x)
      OBVIOUS
    <3>2. /\ u \in Seq(Token) /\ Len(u) = k + l
          /\ \A i \in 1..k : u[i] = y[i]
          /\ \A i \in 1..l : u[k + i] = x[i]
      <4>1. y \in Seq(Token) /\ x \in Seq(Token)
        BY <2>2, <2>7
      <4>2. u \in Seq(Token)
        BY <2>9, <4>1, Joined
      <4>3. Len(u) = k + l
        BY <2>9, <3>1, <4>1, Joined
      <4>4. \A i \in 1..k : u[i] = y[i]
        BY <2>9, <3>1, <4>1, Joined
      <4>5. \A i \in 1..l : u[k + i] = x[i]
        BY <2>9, <3>1, <4>1, Joined
      <4>6. QED
        BY <4>2, <4>3, <4>4, <4>5
    <3>3. k = 2 /\ l = w
      BY <2>2, <2>3, <2>7, <3>1
    <3>4. QED
      BY <3>2, <3>3
  <2>11. PICK h : h = u \o z
    OBVIOUS
  <2>12. /\ h \in Seq(Token) /\ Len(h) = 2 + w + r
         /\ \A i \in 1..(2 + w) : h[i] = u[i]
         /\ \A i \in 1..r : h[2 + w + i] = z[i]
    BY <1>8, <2>10, <2>11, Join
  <2>13. h[1] = a /\ h[2] = e
    BY <2>7, <2>10, <2>12
  <2>14. HeaderOf(h, 0, Len(h), n, id)
    BY <1>2, <1>6, <1>10, <2>3, <2>5, <2>12, <2>13 DEF HeaderOf
  <2>15. ASSUME NEW i \in 1..(2 + w + r) PROVE h[i].t # "byte"
    <3>1. CASE i <= 2
      BY <1>2, <2>5, <2>13, <3>1
    <3>2. CASE i > 2 /\ i <= 2 + w
      <4>1. i - 2 \in 1..w /\ 2 + (i - 2) = i /\ i \in 1..(2 + w)
        BY <3>2
      <4>2. h[i] = x[i - 2]
        BY <2>10, <2>12, <4>1
      <4>3. QED
        BY <2>2, <2>3, <4>1, <4>2
    <3>3. CASE i > 2 + w
      <4>1. i - (2 + w) \in 1..r /\ 2 + w + (i - (2 + w)) = i
        BY <3>3
      <4>2. h[i] = z[i - (2 + w)]
        BY <2>12, <4>1
      <4>3. QED
        BY <1>8, <4>1, <4>2
    <3>4. QED
      BY <3>1, <3>2, <3>3
  <2>16. Len(h) # 0 /\ \A i \in 1..Len(h) : h[i].t # "byte"
    BY <2>12, <2>15
  <2>18. Sized(h, n)
    <3>1. HeaderLength = 2
      BY <1>10 DEF HeaderLength
    <3>2. e.v = n + ((2 + w + r) - 2) /\ 2 <= 2 + w + r
      BY <1>6, <2>3, <2>5
    <3>3. QED
      BY <2>5, <2>12, <2>13, <3>1, <3>2 DEF Sized
  <2>17. QED
    BY <2>8, <2>9, <2>11, <2>12, <2>14, <2>16, <2>18, Zenon
<1>11. QED
  BY <1>3, <1>4, <1>5, <1>9, <1>10 DEF Framed, Ssr

(* The stream a server has sent: frame j fills T from pos[j] to pos[j + 1] *)
(* and carries the bytes from base[j] + 1 to base[j + 1].                  *)
FrameAt(T, pos, base, j) ==
    /\ base[j] <= base[j + 1] /\ pos[j] + (base[j + 1] - base[j]) < pos[j + 1]
    /\ FrameOf(T, pos[j], pos[j + 1], base[j], base[j + 1] - base[j], j)

Streamed(T, pos, base) ==
    /\ T \in [Nat -> Token] /\ pos \in [Nat -> Nat] /\ base \in [Nat -> Nat]
    /\ pos[0] = 0 /\ base[0] = 0 /\ base[frames] = sent
    /\ \A j \in 0..frames : pos[j] <= pos[frames]
    /\ \A j \in 0..(frames - 1) : FrameAt(T, pos, base, j)

(* A reader that has come to frame m of it, but for the last `remain`      *)
(* bytes of the frame before; what lies behind `limit` is lost to a cut.   *)
OnWire(T, at, limit) ==
    /\ at + Len(under) + Len(wire) = limit
    /\ \A i \in 1..Len(under) : under[i] = T[at + i]
    /\ \A i \in 1..Len(wire) : wire[i] = T[at + Len(under) + i]

Given(n) == Numbered(got, 0) /\ Numbered(carry, Len(got)) /\ Len(got) + Len(carry) = n

FieldsAt(m) ==
    /\ kind \in {"tls", "chunk", "aead"} => (first <=> m = 0)
    /\ kind \in {"aead"} \cup Ssr => count = m
    /\ kind \notin Ssr => under = <<>>
    /\ kind \in Ssr \cup {"chunk", "aead"} => remain = 0
    /\ kind \notin Ssr \cup {"chunk", "aead"} => carry = <<>>

Reading(T, pos, base, m, limit) ==
    /\ m \in 0..frames /\ limit \in Nat
    /\ limit <= pos[frames] /\ (ended # "cut" => limit = pos[frames])
    /\ m = 0 => remain = 0
    /\ m # 0 => remain <= base[m] - base[m - 1]
    /\ OnWire(T, pos[m] - remain, limit)
    /\ Given(base[m] - remain)
    /\ FieldsAt(m)
    /\ kind \in Ssr /\ m < frames => pos[m] + Len(under) < pos[m + 1]

DownFramed == \E T, pos, base, m, limit : Streamed(T, pos, base) /\ Reading(T, pos, base, m, limit)

LEMMA KindStays ==
    ASSUME kind' = kind, NEW T, NEW low, NEW high, NEW from, NEW n, NEW id
    PROVE  FrameOf(T, low, high, from, n, id)' = FrameOf(T, low, high, from, n, id)
<1>1. Before(id)' = Before(id)
  BY DEF Before, Prelude
<1>2. QED
  BY <1>1 DEF FrameOf, HeaderOf, ChainExtra, RandLength

(* A frame is sent.                                                        *)
LEMMA StreamGrows ==
    ASSUME TypeOK, kind \in Framed, NEW T, NEW pos, NEW base, Streamed(T, pos, base),
           NEW X \in Seq(Token), NEW n \in Nat, FrameOf(X, 0, Len(X), sent, n, frames), n < Len(X),
           kind' = kind, frames' = frames + 1, sent' = sent + n
    PROVE  \E V, place, from :
              /\ Streamed(V, place, from)'
              /\ \A i \in 1..pos[frames] : V[i] = T[i]
              /\ \A i \in 1..Len(X) : V[pos[frames] + i] = X[i]
              /\ \A j \in 0..frames : place[j] = pos[j] /\ from[j] = base[j]
              /\ place[frames + 1] = pos[frames] + Len(X) /\ from[frames + 1] = sent + n
<1>1. frames \in Nat /\ sent \in Nat /\ kind \in AllKinds
  BY DEF TypeOK
<1>11. T \in [Nat -> Token] /\ pos \in [Nat -> Nat] /\ base \in [Nat -> Nat]
  BY DEF Streamed
<1>12. pos[0] = 0 /\ base[0] = 0 /\ base[frames] = sent
  BY DEF Streamed
<1>13. \A j \in 0..frames : pos[j] <= pos[frames]
  BY DEF Streamed
<1>14. \A j \in 0..(frames - 1) : FrameAt(T, pos, base, j)
  BY DEF Streamed
<1>2. PICK f \in Nat, l \in Nat, x \in Nat, s \in Nat :
          f = frames /\ l = pos[frames] /\ x = Len(X) /\ s = sent
  <2>1. pos[frames] \in Nat
    BY <1>1, <1>11
  <2>2. Len(X) \in Nat
    OBVIOUS
  <2>3. QED
    BY <1>1, <2>1, <2>2
<1> DEFINE V == [i \in Nat |-> IF i <= l THEN T[i] ELSE IF i - l \in 1..x THEN X[i - l] ELSE T[i]]
           place == [pos EXCEPT ![f + 1] = l + x]
           from == [base EXCEPT ![f + 1] = s + n]
<1>3. V \in [Nat -> Token] /\ place \in [Nat -> Nat] /\ from \in [Nat -> Nat]
  <2>1. \A i \in 1..x : X[i] \in Token
    BY <1>2
  <2>2. V \in [Nat -> Token]
    BY <1>11, <2>1
  <2>3. l + x \in Nat /\ s + n \in Nat
    BY <1>1
  <2>4. place \in [Nat -> Nat] /\ from \in [Nat -> Nat]
    BY <1>11, <2>3
  <2>5. QED
    BY <2>2, <2>4
<1>4. /\ \A i \in 1..l : V[i] = T[i]
      /\ \A i \in 1..x : V[l + i] = X[i]
  OBVIOUS
<1>5. /\ \A j \in 0..f : place[j] = pos[j] /\ from[j] = base[j]
      /\ place[f + 1] = l + x /\ from[f + 1] = s + n
  <2>1. f + 1 \in Nat /\ \A j \in 0..f : j \in Nat /\ j # f + 1
    OBVIOUS
  <2>2. QED
    BY <1>11, <2>1
<1> HIDE DEF V, place, from
<1> DEFINE Extends(W, at, start) ==
              /\ W \in [Nat -> Token] /\ at \in [Nat -> Nat] /\ start \in [Nat -> Nat]
              /\ \A i \in 1..l : W[i] = T[i]
              /\ \A i \in 1..x : W[l + i] = X[i]
              /\ \A j \in 0..f : at[j] = pos[j] /\ start[j] = base[j]
              /\ at[f + 1] = l + x /\ start[f + 1] = s + n
<1>15. Extends(V, place, from)
  BY <1>3, <1>4, <1>5
<1>18. PICK W, at, start : Extends(W, at, start)
  <2> HIDE DEF Extends
  <2>1. QED
    BY <1>15
<1>16. /\ W \in [Nat -> Token] /\ at \in [Nat -> Nat] /\ start \in [Nat -> Nat]
       /\ \A i \in 1..l : W[i] = T[i]
       /\ \A i \in 1..x : W[l + i] = X[i]
       /\ \A j \in 0..f : at[j] = pos[j] /\ start[j] = base[j]
       /\ at[f + 1] = l + x /\ start[f + 1] = s + n
  BY <1>18
<1> HIDE DEF Extends
<1>17. \A j \in 0..f : pos[j] <= l /\ pos[j] \in Nat
  <2>1. ASSUME NEW j \in 0..f PROVE pos[j] <= l /\ pos[j] \in Nat
    <3>1. j \in 0..frames /\ j \in Nat
      BY <1>2
    <3>2. pos[j] <= pos[frames]
      BY <1>13, <3>1
    <3>3. QED
      BY <1>2, <1>11, <3>1, <3>2
  <2>2. QED
    BY <2>1
<1>6. at[0] = 0 /\ start[0] = 0 /\ start[f + 1] = s + n
  <2>1. 0 \in 0..f
    OBVIOUS
  <2>2. QED
    BY <1>16, <1>12, <2>1
<1>7. \A j \in 0..(f + 1) : at[j] <= at[f + 1]
  <2>1. ASSUME NEW j \in 0..(f + 1) PROVE at[j] <= at[f + 1]
    <3>1. CASE j = f + 1
      BY <1>16, <3>1
    <3>2. CASE j <= f
      <4>1. at[j] = pos[j] /\ pos[j] <= l /\ pos[j] \in Nat
        <5>1. j \in 0..f
          BY <3>2
        <5>2. QED
          BY <1>16, <1>17, <5>1
      <4>2. at[f + 1] = l + x
        BY <1>16
      <4>3. QED
        BY <4>1, <4>2
    <3>3. QED
      BY <3>1, <3>2
  <2>2. QED
    BY <2>1
<1>8. ASSUME NEW j \in 0..f PROVE FrameAt(W, at, start, j)'
  <2>1. CASE j < f
    <3>1. FrameAt(T, pos, base, j)
      BY <1>2, <1>14, <2>1
    <3>2. PICK low \in Nat, high \in Nat, b \in Nat, c \in Nat :
              low = pos[j] /\ high = pos[j + 1] /\ b = base[j] /\ c = base[j + 1]
      <4>1. j \in Nat /\ j + 1 \in Nat
        OBVIOUS
      <4>2. pos[j] \in Nat /\ pos[j + 1] \in Nat /\ base[j] \in Nat /\ base[j + 1] \in Nat
        BY <1>11, <4>1
      <4>3. QED
        BY <4>2
    <3>3. at[j] = low /\ at[j + 1] = high /\ start[j] = b /\ start[j + 1] = c
      <4>1. j + 1 \in 0..f
        BY <2>1
      <4>2. at[j + 1] = pos[j + 1] /\ start[j + 1] = base[j + 1] /\ at[j] = pos[j] /\ start[j] = base[j]
        BY <1>16, <4>1
      <4>3. QED
        BY <3>2, <4>2
    <3>4. b <= c /\ low + (c - b) < high /\ FrameOf(T, low, high, b, c - b, j)
      BY <3>1, <3>2 DEF FrameAt
    <3>5. high <= l
      BY <1>2, <1>13, <2>1, <3>2
    <3>6. \A i \in 1..(high - low) : W[low + i] = T[low + i]
      <4>1. \A i \in 1..(high - low) : low + i \in 1..l
        BY <3>5
      <4>2. QED
        BY <1>16, <4>1
    <3>7. FrameOf(W, low, low + (high - low), b, c - b, j)
      <4>1. c - b \in Nat /\ low <= high /\ j \in Nat
        BY <3>4
      <4>2. QED
        BY <1>1, <3>4, <3>6, <4>1, FrameMoved
    <3>8. FrameOf(W, low, high, b, c - b, j)
      <4>1. low + (high - low) = high
        OBVIOUS
      <4>2. QED
        BY <3>7, <4>1
    <3>9. FrameOf(W, low, high, b, c - b, j)'
      BY <3>8, KindStays
    <3>10. FrameAt(W, at, start, j)'
      BY <3>3, <3>4, <3>9 DEF FrameAt
    <3>11. QED
      BY <3>10
  <2>2. CASE j = f
    <3>1. at[j] = l /\ at[j + 1] = l + x /\ start[j] = s /\ start[j + 1] = s + n
      BY <1>2, <1>16, <1>12, <2>2
    <3>2. FrameOf(X, 0, x, s, n, f)
      BY <1>2
    <3>3. \A i \in 1..(x - 0) : W[l + i] = X[0 + i]
      BY <1>16
    <3>4. FrameOf(W, l, l + (x - 0), s, n, f)
      <4>1. 0 <= x
        OBVIOUS
      <4>2. QED
        BY <1>1, <1>2, <3>2, <3>3, <4>1, FrameMoved
    <3>5. FrameOf(W, l, l + x, s, n, f)
      <4>1. l + (x - 0) = l + x
        OBVIOUS
      <4>2. QED
        BY <3>4, <4>1
    <3>6. s + n - s = n /\ s <= s + n /\ l + n < l + x
      BY <1>1, <1>2
    <3>7. FrameOf(W, l, l + x, s, n, f)'
      BY <3>5, KindStays
    <3>8. QED
      BY <2>2, <3>1, <3>6, <3>7 DEF FrameAt
  <2>3. QED
    BY <2>1, <2>2
<1>9. Streamed(W, at, start)'
  <2>1. \A j \in 0..(f + 1 - 1) : FrameAt(W, at, start, j)'
    BY <1>8
  <2>2. frames' = f + 1
    BY <1>2
  <2>3. start[frames'] = sent'
    BY <1>2, <1>16, <2>2
  <2>4. \A j \in 0..frames' : at[j] <= at[frames']
    BY <1>7, <2>2
  <2>5. \A j \in 0..(frames' - 1) : FrameAt(W, at, start, j)'
    BY <2>1, <2>2
  <2>6. QED
    BY <1>16, <1>6, <2>3, <2>4, <2>5 DEF Streamed
<1>10. QED
  BY <1>2, <1>16, <1>9, Zenon

LEMMA FrameBuilt ==
    ASSUME kind \in Framed, NEW id \in Nat, NEW from \in Nat, NEW n \in Nat, kind = "mux" => n < Wrap,
           NEW X, X = (IF id = 0 THEN Prelude(kind) ELSE <<>>) \o ServerFrame(kind, id, from, n)
    PROVE  X \in Seq(Token) /\ n < Len(X) /\ FrameOf(X, 0, Len(X), from, n, id)
<1>1. kind \in AllKinds
  BY DEF Framed, AllKinds, Ssr
<1>2. PICK h \in Seq(Token) : /\ ServerFrame(kind, id, from, n) = h \o Payload(from, n)
                              /\ HeaderOf(h, 0, Len(h), n, id) /\ Len(h) # 0
  BY HeadIsBuilt
<1>3. PICK p : p = IF id = 0 THEN Prelude(kind) ELSE <<>>
  OBVIOUS
<1>4. p \in Seq(Token) /\ Len(p) = Before(id)
  <2>1. CASE id = 0
    <3>1. p = Prelude(kind)
      BY <1>3, <2>1
    <3>2. QED
      BY <1>1, <2>1, <3>1, FrontIs DEF Before
  <2>2. CASE id # 0
    <3>1. p = <<>> /\ Before(id) = 0
      BY <1>3, <2>2 DEF Before
    <3>2. QED
      BY <3>1
  <2>3. QED
    BY <2>1, <2>2
<1>5. PICK y, z : y = Payload(from, n) /\ z = h \o y
  OBVIOUS
<1>6. y \in Seq(Token) /\ Len(y) = n /\ \A i \in 1..n : y[i] = Tok("byte", from + i)
  BY <1>5, PayloadIs
<1>7. X = p \o z
  BY <1>2, <1>3, <1>5
<1>8. PICK a \in Nat, b \in Nat : a = Len(p) /\ b = Len(h)
  BY <1>4
<1>9. z \in Seq(Token) /\ Len(z) = b + n
  BY <1>5, <1>6, <1>8, Joined
<1>10. \A i \in 1..b : z[i] = h[i]
  BY <1>5, <1>6, <1>8, Joined
<1>11. \A i \in 1..n : z[b + i] = y[i]
  BY <1>5, <1>6, <1>8, Joined
<1>12. X \in Seq(Token) /\ Len(X) = a + (b + n)
  BY <1>4, <1>7, <1>8, <1>9, Joined
<1>13. \A i \in 1..(b + n) : X[a + i] = z[i]
  <2>1. p \in Seq(Token) /\ z \in Seq(Token)
    BY <1>4, <1>9
  <2>2. \A i \in 1..Len(z) : (p \o z)[Len(p) + i] = z[i]
    BY <2>1, Joined
  <2>3. \A i \in 1..(b + n) : (p \o z)[a + i] = z[i]
    BY <1>8, <1>9, <2>2
  <2>4. QED
    BY <1>7, <2>3
<1>14. HeaderOf(X, a, a + b, n, id)
  <2>1. \A i \in 1..(b - 0) : X[a + i] = h[0 + i]
    <3>1. ASSUME NEW i \in 1..(b - 0) PROVE X[a + i] = h[0 + i]
      <4>1. i \in 1..(b + n) /\ i \in 1..b /\ 0 + i = i
        OBVIOUS
      <4>2. X[a + i] = z[i] /\ z[i] = h[i]
        BY <1>10, <1>13, <4>1
      <4>3. QED
        BY <4>1, <4>2
    <3>2. QED
      BY <3>1
  <2>2. HeaderOf(h, 0, b, n, id) /\ 0 <= b
    BY <1>2, <1>8
  <2>3. HeaderOf(X, a, a + (b - 0), n, id)
    BY <2>1, <2>2, HeaderMoved
  <2>4. a + (b - 0) = a + b
    OBVIOUS
  <2>5. QED
    BY <2>3, <2>4
<1>15. \A i \in 1..n : X[a + b + i] = Tok("byte", from + i)
  <2>1. \A i \in 1..n : b + i \in 1..(b + n) /\ a + (b + i) = a + b + i
    OBVIOUS
  <2>2. QED
    BY <1>6, <1>11, <1>13, <2>1
<1>16. PICK x \in Nat : x = Len(X)
  BY <1>12
<1>17. x - n = a + b /\ 0 + Before(id) = a /\ n < x
  <2>1. x = a + (b + n) /\ Before(id) = a /\ b # 0
    BY <1>2, <1>4, <1>8, <1>12, <1>16
  <2>2. QED
    BY <2>1
<1>18. FrameOf(X, 0, x, from, n, id)
  BY <1>14, <1>15, <1>17 DEF FrameOf
<1>19. QED
  BY <1>12, <1>16, <1>17, <1>18

LEMMA KeepAliveBuilt ==
    ASSUME kind = "mux", NEW id \in Nat, NEW from \in Nat, NEW status_ \in {2, 4}
    PROVE  /\ MuxHeader(status_, 0) \in Seq(Token) /\ 0 < Len(MuxHeader(status_, 0))
           /\ FrameOf(MuxHeader(status_, 0), 0, Len(MuxHeader(status_, 0)), from, 0, id)
<1>1. PICK a, b, c : a = Tok("head", 0) /\ b = Tok("status", status_) /\ c = Tok("option", 0)
  OBVIOUS
<1>2. a \in Token /\ b \in Token /\ c \in Token /\ c.v = 0
  BY <1>1 DEF Tok, Token
<1>3. PICK h : h = <<a, b, c>>
  OBVIOUS
<1>4. h \in Seq(Token) /\ Len(h) = 3 /\ h[3] = c
  BY <1>2, <1>3
<1>5. MuxHeader(status_, 0) = h
  BY <1>1, <1>3, Glue12, Zenon DEF MuxHeader, Field
<1>6. Before(id) = 0
  BY FrontIs DEF AllKinds
<1>7. HeaderOf(h, 0, 3, 0, id)
  BY <1>2, <1>4 DEF HeaderOf
<1>8. FrameOf(h, 0, 3, from, 0, id)
  BY <1>6, <1>7 DEF FrameOf
<1>9. h \in Seq(Token) /\ 0 < Len(h) /\ FrameOf(h, 0, Len(h), from, 0, id)
  BY <1>4, <1>8
<1>10. QED
  BY <1>5, <1>9, Zenon

(* The reader is where it was.                                             *)
LEMMA ReadingGrows ==
    ASSUME TypeOK, kind \in Framed, NEW T, NEW pos, NEW base, Streamed(T, pos, base),
           NEW m, NEW limit, Reading(T, pos, base, m, limit),
           NEW X \in Seq(Token), NEW n \in Nat, FrameOf(X, 0, Len(X), sent, n, frames), n < Len(X),
           frames' = frames + 1, sent' = sent + n, wire' = wire \o X, ended = "no",
           UNCHANGED <<kind, ended, state, got>>
    PROVE  DownFramed'
<1>24. kind' = kind
  OBVIOUS
<1>1. PICK V, place, from :
          /\ Streamed(V, place, from)'
          /\ \A i \in 1..pos[frames] : V[i] = T[i]
          /\ \A i \in 1..Len(X) : V[pos[frames] + i] = X[i]
          /\ \A j \in 0..frames : place[j] = pos[j] /\ from[j] = base[j]
          /\ place[frames + 1] = pos[frames] + Len(X) /\ from[frames + 1] = sent + n
  <2>1. TypeOK /\ kind \in Framed /\ Streamed(T, pos, base)
    OBVIOUS
  <2>2. FrameOf(X, 0, Len(X), sent, n, frames) /\ n < Len(X)
    OBVIOUS
  <2>3. frames' = frames + 1 /\ sent' = sent + n
    OBVIOUS
  <2>4. QED
    BY ONLY <1>24, <2>1, <2>2, <2>3, StreamGrows
<1>2. kind' = kind /\ ended' = ended /\ UNCHANGED <<first, remain, carry, under, count, got>>
  BY DEF state
<1>3. frames \in Nat /\ remain \in Nat /\ wire \in Seq(Token) /\ under \in Seq(Token)
  BY DEF TypeOK
<1>4. m \in 0..frames /\ limit = pos[frames] /\ limit \in Nat
  BY DEF Reading
<1>5. (m = 0 => remain = 0) /\ (m # 0 => remain <= base[m] - base[m - 1])
  BY DEF Reading
<1>6. OnWire(T, pos[m] - remain, limit)
  BY DEF Reading
<1>7. pos \in [Nat -> Nat] /\ base \in [Nat -> Nat]
  BY DEF Streamed
<1>8. place[m] = pos[m] /\ from[m] = base[m] /\ (m # 0 => from[m - 1] = base[m - 1])
  <2>1. m # 0 => m - 1 \in 0..frames
    BY <1>3, <1>4
  <2>2. QED
    BY <1>1, <1>4, <2>1
<1>9. PICK x \in Nat, l \in Nat, u \in Nat, w \in Nat :
          x = Len(X) /\ l = limit /\ u = Len(under) /\ w = Len(wire)
  BY <1>3, <1>4
<1>10. PICK at \in Nat : at = pos[m] - remain
  <2>1. remain <= pos[m]
    <3>1. CASE m = 0
      <4>1. remain = 0 /\ pos[m] \in Nat
        BY <1>4, <1>5, <1>7, <3>1
      <4>2. QED
        BY <4>1
    <3>2. CASE m # 0
      <4>1. FrameAt(T, pos, base, m - 1)
        <5>1. m - 1 \in 0..(frames - 1)
          BY <1>3, <1>4, <3>2
        <5>2. QED
          BY <5>1 DEF Streamed
      <4>2. PICK a \in Nat, b \in Nat, c \in Nat, d \in Nat :
                a = pos[m - 1] /\ b = pos[m] /\ c = base[m - 1] /\ d = base[m]
        <5>1. m \in Nat /\ m - 1 \in Nat
          BY <1>3, <1>4, <3>2
        <5>2. pos[m - 1] \in Nat /\ pos[m] \in Nat /\ base[m - 1] \in Nat /\ base[m] \in Nat
          BY <1>7, <5>1
        <5>3. QED
          BY <5>2
      <4>3. m - 1 + 1 = m
        BY <1>3, <1>4
      <4>4. a + (d - c) < b
        BY <4>1, <4>2, <4>3 DEF FrameAt
      <4>5. remain <= d - c
        BY <1>5, <3>2, <4>2
      <4>6. remain <= b
        BY <1>3, <4>4, <4>5
      <4>7. QED
        BY <4>2, <4>6
    <3>3. QED
      BY <3>1, <3>2
  <2>2. pos[m] \in Nat
    BY <1>3, <1>4, <1>7
  <2>3. QED
    BY <1>3, <2>1, <2>2
<1>11. /\ at + u + w = l
       /\ \A i \in 1..u : under[i] = T[at + i]
       /\ \A i \in 1..w : wire[i] = T[at + u + i]
  BY <1>6, <1>9, <1>10 DEF OnWire
<1>12. \A i \in 1..l : V[i] = T[i]
  BY <1>1, <1>4, <1>9
<1>13. \A i \in 1..x : V[l + i] = X[i]
  BY <1>1, <1>4, <1>9
<1>14. wire' \in Seq(Token) /\ Len(wire') = w + x
  BY <1>3, <1>9, Joined
<1>15. \A i \in 1..w : wire'[i] = wire[i]
  BY <1>3, <1>9, Joined
<1>16. \A i \in 1..x : wire'[w + i] = X[i]
  BY <1>3, <1>9, Joined
<1>17. \A i \in 1..u : under[i] = V[at + i]
  <2>1. \A i \in 1..u : at + i \in 1..l
    BY <1>11
  <2>2. QED
    BY <1>11, <1>12, <2>1
<1>18. ASSUME NEW i \in 1..(w + x) PROVE wire'[i] = V[at + u + i]
  <2>1. CASE i <= w
    <3>1. at + u + i \in 1..l /\ i \in 1..w
      BY <1>11, <2>1
    <3>2. QED
      BY <1>11, <1>12, <1>15, <3>1
  <2>2. CASE i > w
    <3>1. PICK j \in 1..x : j = i - w
      BY <2>2
    <3>2. w + j = i /\ l + j = at + u + i
      BY <1>11, <3>1
    <3>3. wire'[w + j] = X[j] /\ V[l + j] = X[j]
      BY <1>13, <1>16
    <3>4. QED
      BY <3>2, <3>3
  <2>3. i <= w \/ i > w
    OBVIOUS
  <2>4. QED
    BY <2>1, <2>2, <2>3
<1>19. OnWire(V, at, l + x)'
  <2>1. under' = under /\ Len(under') = u /\ Len(wire') = w + x
    BY <1>2, <1>9, <1>14
  <2>2. at + u + (w + x) = l + x
    BY <1>11
  <2>3. QED
    BY <1>17, <1>18, <2>1, <2>2 DEF OnWire
<1>20. Given(base[m] - remain)' /\ FieldsAt(m)'
  <2>1. Given(base[m] - remain) /\ FieldsAt(m)
    BY DEF Reading
  <2>2. QED
    BY <1>2, <2>1 DEF Given, FieldsAt, Numbered
<1>21. kind \in Ssr /\ m < frames + 1 => place[m] + u < place[m + 1]
  <2> SUFFICES ASSUME kind \in Ssr, m < frames + 1 PROVE place[m] + u < place[m + 1]
    OBVIOUS
  <2>1. CASE m < frames
    <3>1. pos[m] + u < pos[m + 1]
      BY <1>9, <2>1 DEF Reading
    <3>2. m + 1 \in 0..frames
      BY <1>3, <1>4, <2>1
    <3>3. QED
      BY <1>1, <1>8, <3>1, <3>2
  <2>2. CASE m = frames
    <3>1. place[m] = l /\ place[m + 1] = l + x
      BY <1>1, <1>4, <1>8, <1>9, <2>2
    <3>2. remain = 0
      BY DEF Reading, FieldsAt
    <3>3. at = l
      BY <1>4, <1>9, <1>10, <2>2, <3>2
    <3>4. u = 0 /\ 0 < x
      BY <1>9, <1>11, <3>3
    <3>5. QED
      BY <3>1, <3>4
  <2>3. QED
    BY <1>3, <1>4, <2>1, <2>2
<1>22. Reading(V, place, from, m, l + x)'
  <2>1. m \in 0..frames' /\ l + x \in Nat /\ place[frames'] = l + x
    BY <1>1, <1>3, <1>4, <1>9
  <2>2. PICK r \in Nat : r = remain /\ r = remain'
    BY <1>2, <1>3
  <2>3. OnWire(V, place[m] - r, l + x)'
    BY <1>8, <1>10, <1>19, <2>2
  <2>4. Given(from[m] - r)'
    BY <1>8, <1>20, <2>2
  <2>5. (m = 0 => r = 0) /\ (m # 0 => r <= from[m] - from[m - 1])
    BY <1>5, <1>8, <2>2
  <2>6. kind' \in Ssr /\ m < frames' => place[m] + Len(under') < place[m + 1]
    BY <1>2, <1>9, <1>21
  <2>7. QED
    BY <1>20, <2>1, <2>2, <2>3, <2>4, <2>5, <2>6 DEF Reading
<1>23. QED
  BY <1>1, <1>22 DEF DownFramed

LEMMA StreamStays ==
    ASSUME NEW T, NEW pos, NEW base, Streamed(T, pos, base), UNCHANGED <<kind, sent, frames>>
    PROVE  Streamed(T, pos, base)'
<1>1. kind' = kind /\ sent' = sent /\ frames' = frames
  OBVIOUS
<1>2. ASSUME NEW j \in 0..(frames - 1) PROVE FrameAt(T, pos, base, j)'
  <2>1. FrameAt(T, pos, base, j)
    BY DEF Streamed
  <2>2. FrameOf(T, pos[j], pos[j + 1], base[j], base[j + 1] - base[j], j)'
    BY <1>1, <2>1, KindStays DEF FrameAt
  <2>3. QED
    BY <2>1, <2>2 DEF FrameAt
<1>3. QED
  BY <1>1, <1>2 DEF Streamed

(* Frame j of the stream in numbers: low and high are its ends, n what it  *)
(* carries after from bytes.                                               *)
FrameFrom(T, pos, base, j, low, high, from, n) ==
    /\ low = pos[j] /\ high = pos[j + 1] /\ from = base[j] /\ base[j + 1] = from + n
    /\ low + n < high /\ high <= pos[frames] /\ pos[frames] \in Nat
    /\ HeaderOf(T, low + Before(j), high - n, n, j)
    /\ \A i \in 1..n : T[high - n + i] = Tok("byte", from + i)

LEMMA FrameHere ==
    ASSUME TypeOK, NEW T, NEW pos, NEW base, Streamed(T, pos, base), NEW j \in Nat, j < frames
    PROVE  \E low, high, from, n \in Nat : FrameFrom(T, pos, base, j, low, high, from, n)
<1>1. frames \in Nat
  BY DEF TypeOK
<1>2. pos \in [Nat -> Nat] /\ base \in [Nat -> Nat]
  BY DEF Streamed
<1>3. j + 1 \in Nat /\ j \in 0..(frames - 1) /\ j + 1 \in 0..frames
  BY <1>1
<1>4. FrameAt(T, pos, base, j)
  BY <1>3 DEF Streamed
<1>5. pos[j + 1] <= pos[frames]
  BY <1>3 DEF Streamed
<1>6. pos[j] \in Nat /\ pos[j + 1] \in Nat /\ base[j] \in Nat /\ base[j + 1] \in Nat /\ pos[frames] \in Nat
  BY <1>1, <1>2, <1>3
<1>7. PICK low \in Nat, high \in Nat, from \in Nat, to \in Nat :
          low = pos[j] /\ high = pos[j + 1] /\ from = base[j] /\ to = base[j + 1]
  BY <1>6
<1>8. PICK n : n = to - from
  OBVIOUS
<1>9. from <= to /\ low + n < high /\ FrameOf(T, low, high, from, n, j)
  BY <1>4, <1>7, <1>8 DEF FrameAt
<1>10. n \in Nat /\ to = from + n
  BY <1>8, <1>9
<1>11. HeaderOf(T, low + Before(j), high - n, n, j) /\ \A i \in 1..n : T[high - n + i] = Tok("byte", from + i)
  BY <1>9 DEF FrameOf
<1>12. base[j + 1] = from + n /\ high <= pos[frames]
  BY <1>5, <1>7, <1>10
<1>13. FrameFrom(T, pos, base, j, low, high, from, n)
  BY <1>6, <1>7, <1>9, <1>11, <1>12 DEF FrameFrom
<1>14. QED
  BY <1>10, <1>13

(* Where the reader is, in numbers: at its place, left lies before it.     *)
LEMMA ReaderHere ==
    ASSUME TypeOK, kind \in Framed, NEW T, NEW pos, NEW base, Streamed(T, pos, base),
           NEW m, NEW limit, Reading(T, pos, base, m, limit)
    PROVE  /\ m \in Nat /\ frames \in Nat /\ m <= frames /\ limit \in Nat /\ remain \in Nat
           /\ pos[m] \in Nat /\ base[m] \in Nat /\ remain <= pos[m] /\ remain <= base[m]
           /\ remain # 0 => m # 0 /\ remain <= base[m] - base[m - 1]
<1>1. frames \in Nat /\ remain \in Nat
  BY DEF TypeOK
<1>2. pos \in [Nat -> Nat] /\ base \in [Nat -> Nat]
  BY DEF Streamed
<1>3. m \in 0..frames /\ limit \in Nat
  BY DEF Reading
<1>4. (m = 0 => remain = 0) /\ (m # 0 => remain <= base[m] - base[m - 1])
  BY DEF Reading
<1>5. m \in Nat /\ m <= frames /\ pos[m] \in Nat /\ base[m] \in Nat
  BY <1>1, <1>2, <1>3
<1>6. remain <= pos[m] /\ remain <= base[m]
  <2>1. CASE m = 0
    <3>1. remain = 0
      BY <1>4, <2>1
    <3>2. QED
      BY <1>5, <3>1
  <2>2. CASE m # 0
    <3>1. PICK j \in Nat : j = m - 1
      BY <1>5, <2>2
    <3>2. j < frames /\ j + 1 = m
      BY <1>1, <1>5, <3>1
    <3>3. PICK low \in Nat, high \in Nat, from \in Nat, n \in Nat : FrameFrom(T, pos, base, j, low, high, from, n)
      BY <3>2, FrameHere
    <3>7. high = pos[j + 1] /\ from = base[j] /\ base[j + 1] = from + n /\ low + n < high
      BY <3>3 DEF FrameFrom
    <3>4. remain <= n
      BY <1>1, <1>4, <2>2, <3>1, <3>2, <3>7
    <3>5. n <= high /\ n <= from + n
      BY <3>7
    <3>6. QED
      BY <1>1, <3>2, <3>4, <3>5, <3>7
  <2>3. QED
    BY <2>1, <2>2
<1>7. remain # 0 => m # 0 /\ remain <= base[m] - base[m - 1]
  BY <1>4
<1>8. QED
  BY <1>1, <1>3, <1>5, <1>6, <1>7

(* What is on the wire is of the frame the reader has come to.             *)
LEMMA FrameComes ==
    ASSUME TypeOK, kind \in Framed, NEW T, NEW pos, NEW base, Streamed(T, pos, base),
           NEW m, NEW limit, Reading(T, pos, base, m, limit), remain = 0, Len(under) + Len(wire) # 0
    PROVE  m < frames
<1>1. m \in Nat /\ frames \in Nat /\ m <= frames /\ limit \in Nat /\ pos[m] \in Nat
  BY ReaderHere
<1>2. pos[m] - remain + Len(under) + Len(wire) = limit /\ limit <= pos[frames]
  BY DEF Reading, OnWire
<1>3. under \in Seq(Token) /\ wire \in Seq(Token)
  BY DEF TypeOK
<1>4. PICK u \in Nat, w \in Nat, p \in Nat : u = Len(under) /\ w = Len(wire) /\ p = pos[m]
  BY <1>1, <1>3
<1>5. p - 0 + u + w = limit /\ u + w # 0
  BY <1>2, <1>4
<1>6. p < limit
  BY <1>1, <1>5
<1>7. m # frames
  <2> SUFFICES ASSUME m = frames PROVE FALSE
    OBVIOUS
  <2>1. limit <= p
    BY <1>2, <1>4
  <2>2. QED
    BY <1>1, <1>6, <2>1
<1>8. QED
  BY <1>1, <1>7

(* Without a buffer: what a plain reader takes of the wire.                *)
Plain == Framed \ (Ssr \cup {"chunk", "aead"})

LEMMA PlainHere ==
    ASSUME kind \in Plain, NEW T, NEW pos, NEW base, NEW m, NEW limit, Reading(T, pos, base, m, limit)
    PROVE  /\ under = <<>> /\ carry = <<>> /\ Numbered(got, 0)
           /\ Len(got) = base[m] - remain
           /\ pos[m] - remain + Len(wire) = limit
           /\ \A i \in 1..Len(wire) : wire[i] = T[pos[m] - remain + i]
<1>1. kind \in Framed /\ kind \notin Ssr /\ kind \notin Ssr \cup {"chunk", "aead"}
  BY DEF Plain
<1>2. under = <<>> /\ carry = <<>>
  BY <1>1 DEF Reading, FieldsAt
<1>3. Numbered(got, 0) /\ Len(got) \in Nat /\ Len(got) + Len(carry) = base[m] - remain
  BY DEF Reading, Given, Numbered
<1>4. Len(carry) = 0 /\ Len(under) = 0
  BY <1>2
<1>5. Len(got) = base[m] - remain
  BY <1>3, <1>4
<1>6. OnWire(T, pos[m] - remain, limit)
  BY DEF Reading
<1>7. PICK at : at = pos[m] - remain
  OBVIOUS
<1>8. at + 0 + Len(wire) = limit /\ \A i \in 1..Len(wire) : wire[i] = T[at + 0 + i]
  BY <1>4, <1>6, <1>7 DEF OnWire
<1>9. QED
  BY <1>2, <1>3, <1>5, <1>7, <1>8

(* What is taken of the wire leaves the rest as it was.                    *)
LEMMA WireMoves ==
    ASSUME wire \in Seq(Token), got \in Seq(Token), NEW T, NEW at \in Nat, NEW limit \in Nat,
           at + Len(wire) = limit, \A i \in 1..Len(wire) : wire[i] = T[at + i],
           NEW skip \in Nat, NEW n \in Nat, Deliver(skip, n), under' = <<>>
    PROVE  OnWire(T, at + skip + n, limit)'
<1>1. /\ skip + n <= Len(wire)
      /\ wire' \in Seq(Token) /\ Len(wire') = Len(wire) - skip - n
      /\ \A i \in 1..(Len(wire) - skip - n) : wire'[i] = wire[skip + n + i]
  BY DeliverIs
<1>2. PICK w \in Nat, v \in Nat : w = Len(wire) /\ v = w - skip - n
  BY <1>1
<1>3. \A i \in 1..v : wire'[i] = T[at + skip + n + 0 + i]
  <2>1. ASSUME NEW i \in 1..v PROVE wire'[i] = T[at + skip + n + 0 + i]
    <3>1. skip + n + i \in 1..w /\ at + (skip + n + i) = at + skip + n + 0 + i
      BY <1>2
    <3>2. wire'[i] = wire[skip + n + i] /\ wire[skip + n + i] = T[at + (skip + n + i)]
      BY <1>1, <1>2, <3>1
    <3>3. QED
      BY <3>1, <3>2
  <2>2. QED
    BY <2>1
<1>4. Len(wire') = v /\ Len(under') = 0 /\ at + skip + n + 0 + v = limit
  <2>1. Len(wire') = v /\ Len(under') = 0
    BY <1>1, <1>2
  <2>2. at + w = limit /\ skip + n + v = w
    BY <1>1, <1>2
  <2>3. QED
    BY <1>2, <2>1, <2>2
<1>5. \A i \in 1..0 : under'[i] = T[at + skip + n + i]
  OBVIOUS
<1>6. QED
  BY <1>3, <1>4, <1>5 DEF OnWire

(* A plain reader has taken n bytes and comes to stand in frame k.         *)
LEMMA PlainGoesOn ==
    ASSUME TypeOK, kind \in Plain, NEW T, NEW pos, NEW base, Streamed(T, pos, base),
           NEW m, NEW limit, Reading(T, pos, base, m, limit),
           NEW skip \in Nat, NEW n \in Nat, Deliver(skip, n),
           \A i \in 1..n : wire[skip + i] = Tok("byte", Len(got) + i),
           NEW k \in Nat, k <= frames, remain' \in Nat, k = 0 => remain' = 0,
           k # 0 => remain' <= base[k] - base[k - 1],
           pos[k] - remain' = pos[m] - remain + skip + n, base[k] - remain' = base[m] - remain + n,
           kind = "tls" => (first' <=> k = 0),
           UNCHANGED <<kind, sent, frames, ended, carry, under>>
    PROVE  DownFramed'
<1>1. /\ m \in Nat /\ frames \in Nat /\ m <= frames /\ limit \in Nat /\ remain \in Nat
      /\ pos[m] \in Nat /\ base[m] \in Nat /\ remain <= pos[m] /\ remain <= base[m]
  BY ReaderHere DEF Plain
<1>2. /\ under = <<>> /\ carry = <<>> /\ Numbered(got, 0)
      /\ Len(got) = base[m] - remain
      /\ pos[m] - remain + Len(wire) = limit
      /\ \A i \in 1..Len(wire) : wire[i] = T[pos[m] - remain + i]
  BY PlainHere
<1>3. wire \in Seq(Token) /\ got \in Seq(Token)
  BY DEF TypeOK
<1>4. Numbered(got', 0) /\ Len(got') = Len(got) + n
  BY <1>2, <1>3, DeliverNumbered
<1>5. PICK at \in Nat, b \in Nat, r \in Nat : at = pos[m] - remain /\ b = base[m] - remain /\ r = remain'
  BY <1>1
<1>6. UNCHANGED <<kind, sent, frames>> /\ ended' = ended /\ carry' = carry /\ under' = under /\ kind' = kind
  OBVIOUS
<1>7. OnWire(T, at + skip + n, limit)'
  BY <1>1, <1>2, <1>3, <1>5, <1>6, WireMoves
<1>8. pos[k] - r = at + skip + n /\ base[k] - r = b + n
  BY <1>5
<1>9. OnWire(T, pos[k] - r, limit)'
  BY <1>7, <1>8
<1>10. Given(base[k] - r)'
  <2>1. carry' = <<>> /\ Len(carry') = 0 /\ Len(got') = b + n /\ b + n + 0 = b + n
    BY <1>2, <1>4, <1>5, <1>6
  <2>2. Numbered(carry', Len(got'))
    BY <2>1 DEF Numbered
  <2>3. QED
    BY <1>4, <1>8, <2>1, <2>2 DEF Given
<1>11. FieldsAt(k)'
  <2>1. kind' \notin Ssr /\ kind' \notin {"chunk", "aead"}
    BY <1>6 DEF Plain
  <2>2. QED
    BY <1>2, <1>6, <2>1 DEF FieldsAt
<1>12. limit <= pos[frames] /\ (ended # "cut" => limit = pos[frames])
  BY DEF Reading
<1>13. kind' \notin Ssr
  BY <1>6 DEF Plain
<1>14. Reading(T, pos, base, k, limit)'
  BY <1>1, <1>5, <1>6, <1>9, <1>10, <1>11, <1>12, <1>13 DEF Reading
<1>15. Streamed(T, pos, base)'
  BY <1>6, StreamStays
<1>16. QED
  BY <1>14, <1>15 DEF DownFramed

LEMMA TakeRest ==
    ASSUME TypeOK, kind \in Plain, NEW T, NEW pos, NEW base, Streamed(T, pos, base),
           NEW m, NEW limit, Reading(T, pos, base, m, limit),
           NEW n \in Nat, n <= remain, Deliver(0, n), remain' = remain - n,
           UNCHANGED <<kind, sent, frames, ended, first, carry, under>>
    PROVE  DownFramed'
<1>1. /\ m \in Nat /\ frames \in Nat /\ m <= frames /\ limit \in Nat /\ remain \in Nat
      /\ pos[m] \in Nat /\ base[m] \in Nat /\ remain <= pos[m] /\ remain <= base[m]
      /\ remain # 0 => m # 0 /\ remain <= base[m] - base[m - 1]
  BY ReaderHere DEF Plain
<1>2. /\ Len(got) = base[m] - remain
      /\ pos[m] - remain + Len(wire) = limit
      /\ \A i \in 1..Len(wire) : wire[i] = T[pos[m] - remain + i]
  BY PlainHere
<1>3. n <= Len(wire) /\ Len(wire) \in Nat
  BY DEF Deliver, TypeOK
<1>4. PICK at \in Nat, b \in Nat, p \in Nat : at = pos[m] - remain /\ b = base[m] - remain /\ p = pos[m]
  BY <1>1
<1>5. ASSUME NEW i \in 1..n PROVE wire[0 + i] = Tok("byte", Len(got) + i)
  <2>1. remain # 0 /\ m # 0
    BY <1>1
  <2>2. PICK j \in Nat : j = m - 1 /\ j < frames /\ j + 1 = m
    BY <1>1, <2>1
  <2>3. PICK low \in Nat, high \in Nat, from \in Nat, x \in Nat : FrameFrom(T, pos, base, j, low, high, from, x)
    BY <2>2, FrameHere
  <2>11. /\ low = pos[j] /\ high = pos[j + 1] /\ from = base[j] /\ base[j + 1] = from + x
         /\ low + x < high
         /\ \A v \in 1..x : T[high - x + v] = Tok("byte", from + v)
    BY <2>3 DEF FrameFrom
  <2>4. high = p /\ b = from + x - remain /\ remain <= x
    BY <1>1, <1>4, <2>1, <2>2, <2>11
  <2>5. PICK v \in 1..x : v = x - remain + i
    BY <1>1, <2>4
  <2>6. high - x + v = at + i /\ from + v = b + i
    BY <1>1, <1>4, <2>4, <2>5
  <2>7. T[at + i] = Tok("byte", b + i)
    BY <2>5, <2>6, <2>11
  <2>8. i \in 1..Len(wire) /\ 0 + i = i
    BY <1>3
  <2>9. wire[i] = T[at + i] /\ Len(got) = b
    BY <1>2, <1>4, <2>8
  <2>10. QED
    BY <2>7, <2>8, <2>9
<1>6. remain' \in Nat /\ (m = 0 => remain' = 0) /\ (m # 0 => remain' <= base[m] - base[m - 1])
  <2>1. remain' \in Nat /\ remain' <= remain
    BY <1>1
  <2>2. CASE remain = 0
    <3>1. remain' = 0
      BY <2>1, <2>2
    <3>2. m # 0 => remain <= base[m] - base[m - 1]
      BY DEF Reading
    <3>3. QED
      BY <2>2, <3>1, <3>2
  <2>3. CASE remain # 0
    <3>1. m # 0 /\ remain <= base[m] - base[m - 1]
      BY <1>1, <2>3
    <3>2. base[m - 1] \in Nat
      <4>1. base \in [Nat -> Nat] /\ m - 1 \in Nat
        BY <1>1, <3>1 DEF Streamed
      <4>2. QED
        BY <4>1
    <3>3. QED
      BY <1>1, <2>1, <3>1, <3>2
  <2>4. QED
    BY <2>2, <2>3
<1>7. pos[m] - remain' = pos[m] - remain + 0 + n /\ base[m] - remain' = base[m] - remain + n
  BY <1>1
<1>8. kind = "tls" => (first' <=> m = 0)
  BY DEF Reading, FieldsAt
<1>9. UNCHANGED <<kind, sent, frames, ended, carry, under>>
  OBVIOUS
<1>10. QED
  BY <1>1, <1>5, <1>6, <1>7, <1>8, <1>9, PlainGoesOn

LEMMA TakeNew ==
    ASSUME TypeOK, kind \in Plain, NEW T, NEW pos, NEW base, Streamed(T, pos, base),
           NEW m, NEW limit, Reading(T, pos, base, m, limit), remain = 0, m < frames,
           NEW skip \in Nat, NEW x \in Nat, base[m + 1] = base[m] + x, pos[m + 1] = pos[m] + skip + x,
           NEW n \in Nat, n <= x, Deliver(skip, n), remain' = x - n,
           kind = "tls" => first' = FALSE,
           UNCHANGED <<kind, sent, frames, ended, carry, under>>
    PROVE  DownFramed'
<1>1. /\ m \in Nat /\ frames \in Nat /\ m <= frames /\ limit \in Nat
      /\ pos[m] \in Nat /\ base[m] \in Nat
  BY ReaderHere DEF Plain
<1>2. PICK p \in Nat, b \in Nat, k \in Nat : p = pos[m] /\ b = base[m] /\ k = m + 1
  BY <1>1
<1>3. /\ Len(got) = base[m] - remain
      /\ \A i \in 1..Len(wire) : wire[i] = T[pos[m] - remain + i]
  BY PlainHere
<1>4. Len(got) = b /\ \A i \in 1..Len(wire) : wire[i] = T[p + i]
  <2>1. p - 0 = p /\ b - 0 = b
    OBVIOUS
  <2>2. QED
    BY <1>2, <1>3, <2>1
<1>5. skip + n <= Len(wire) /\ Len(wire) \in Nat
  BY DEF Deliver, TypeOK
<1>17. PICK low \in Nat, high \in Nat, from \in Nat, y \in Nat : FrameFrom(T, pos, base, m, low, high, from, y)
  BY <1>1, FrameHere
<1>6. /\ high = pos[m + 1] /\ from = base[m] /\ base[m + 1] = from + y
      /\ \A v \in 1..y : T[high - y + v] = Tok("byte", from + v)
  BY <1>17 DEF FrameFrom
<1>7. y = x /\ from = b /\ high = p + skip + x
  BY <1>2, <1>6
<1>8. ASSUME NEW i \in 1..n PROVE wire[skip + i] = Tok("byte", Len(got) + i)
  <2>1. skip + i \in 1..Len(wire) /\ i \in 1..x
    BY <1>5
  <2>2. wire[skip + i] = T[p + (skip + i)]
    BY <1>4, <2>1
  <2>3. p + (skip + i) = high - y + i
    BY <1>7
  <2>4. T[high - y + i] = Tok("byte", from + i)
    BY <1>6, <1>7, <2>1
  <2>5. QED
    BY <1>4, <1>7, <2>2, <2>3, <2>4
<1>9. k <= frames /\ k # 0 /\ k - 1 = m /\ remain' \in Nat /\ remain' <= x
  BY <1>1, <1>2
<1>10. base[k] - base[k - 1] = x
  BY <1>1, <1>2, <1>9
<1>11. pos[k] - remain' = p + skip + n /\ base[k] - remain' = b + n
  BY <1>2
<1>12. p - remain + skip + n = p + skip + n /\ b - remain + n = b + n
  OBVIOUS
<1>13. pos[k] - remain' = pos[m] - remain + skip + n /\ base[k] - remain' = base[m] - remain + n
  BY <1>2, <1>11, <1>12
<1>14. (kind = "tls" => (first' <=> k = 0)) /\ (k # 0 => remain' <= base[k] - base[k - 1])
  BY <1>9, <1>10
<1>15. UNCHANGED <<kind, sent, frames, ended, carry, under>>
  OBVIOUS
<1>18. TypeOK /\ kind \in Plain /\ Streamed(T, pos, base) /\ Reading(T, pos, base, m, limit)
       /\ Deliver(skip, n) /\ skip \in Nat /\ n \in Nat
  OBVIOUS
<1>19. k \in Nat /\ k <= frames /\ remain' \in Nat /\ (k = 0 => remain' = 0)
  BY <1>9
<1>16. QED
  BY ONLY <1>8, <1>13, <1>14, <1>15, <1>18, <1>19, PlainGoesOn

(* The connection goes on or ends, and the reader stays where it is.       *)
LEMMA ReadingStays ==
    ASSUME DownFramed, ended = "cut" => ended' = "cut",
           UNCHANGED <<kind, sent, frames, first, remain, carry, under, count, wire, got>>
    PROVE  DownFramed'
<1>1. PICK T, pos, base, m, limit : Streamed(T, pos, base) /\ Reading(T, pos, base, m, limit)
  BY DEF DownFramed
<1>2. UNCHANGED <<kind, sent, frames>> /\ UNCHANGED <<first, remain, carry, under, count, wire, got>>
  OBVIOUS
<1>3. Streamed(T, pos, base)'
  BY ONLY <1>1, <1>2, StreamStays
<1>4. OnWire(T, pos[m] - remain, limit)' /\ Given(base[m] - remain)' /\ FieldsAt(m)'
  BY <1>1, <1>2 DEF Reading, OnWire, Given, FieldsAt, Numbered
<1>5. Reading(T, pos, base, m, limit)'
  <2>1. m \in 0..frames /\ limit \in Nat /\ limit <= pos[frames] /\ (ended # "cut" => limit = pos[frames])
    BY <1>1 DEF Reading
  <2>2. (m = 0 => remain = 0) /\ (m # 0 => remain <= base[m] - base[m - 1])
        /\ (kind \in Ssr /\ m < frames => pos[m] + Len(under) < pos[m + 1])
    BY <1>1 DEF Reading
  <2>6. frames' = frames
    BY <1>2
  <2>7. limit <= pos[frames']
    BY <2>1, <2>6, Zenon
  <2>8. ended' # "cut" => ended # "cut"
    OBVIOUS
  <2>9. ended' # "cut" => limit = pos[frames']
    BY <2>1, <2>6, <2>8, Zenon
  <2>3. limit <= pos[frames'] /\ (ended' # "cut" => limit = pos[frames'])
    BY <2>7, <2>9
  <2>4. /\ m \in 0..frames' /\ limit \in Nat
        /\ (m = 0 => remain' = 0) /\ (m # 0 => remain' <= base[m] - base[m - 1])
        /\ (kind' \in Ssr /\ m < frames' => pos[m] + Len(under') < pos[m + 1])
    BY <1>2, <2>1, <2>2
  <2>5. QED
    BY ONLY <1>4, <2>3, <2>4 DEF Reading
<1>6. QED
  BY <1>3, <1>5 DEF DownFramed

(* A cut loses what lies behind some token.                                *)
LEMMA ReadingCut ==
    ASSUME TypeOK, kind \in Framed, DownFramed, ended' = "cut",
           NEW n \in 0..Len(wire), wire' = SubSeq(wire, 1, n),
           UNCHANGED <<kind, sent, frames, state, got>>
    PROVE  DownFramed'
<1>1. PICK T, pos, base, m, limit : Streamed(T, pos, base) /\ Reading(T, pos, base, m, limit)
  BY DEF DownFramed
<1>2. UNCHANGED <<kind, sent, frames>> /\ UNCHANGED <<first, remain, carry, under, count, got>>
  BY DEF state
<1>3. Streamed(T, pos, base)'
  BY ONLY <1>1, <1>2, StreamStays
<1>4. /\ m \in Nat /\ frames \in Nat /\ m <= frames /\ limit \in Nat /\ remain \in Nat
      /\ pos[m] \in Nat /\ base[m] \in Nat /\ remain <= pos[m] /\ remain <= base[m]
  BY <1>1, ReaderHere
<1>5. pos[frames] \in Nat /\ limit <= pos[frames]
  BY <1>1, <1>4 DEF Streamed, Reading
<1>6. wire \in Seq(Token) /\ under \in Seq(Token)
  BY DEF TypeOK
<1>7. PICK w \in Nat, u \in Nat, at \in Nat : w = Len(wire) /\ u = Len(under) /\ at = pos[m] - remain
  BY <1>4, <1>6
<1>8. n \in Nat /\ n <= w
  BY <1>7
<1>9. wire' \in Seq(Token) /\ Len(wire') = n /\ \A i \in 1..n : wire'[i] = wire[i]
  <2>1. SubSeq(wire, 0 + 1, n) \in Seq(Token) /\ Len(SubSeq(wire, 0 + 1, n)) = n - 0
        /\ \A i \in 1..(n - 0) : SubSeq(wire, 0 + 1, n)[i] = wire[0 + i]
    BY <1>6, <1>7, <1>8, PartIs
  <2>2. 0 + 1 = 1 /\ n - 0 = n /\ \A i \in 1..n : 0 + i = i
    BY <1>8
  <2>3. QED
    BY <2>1, <2>2
<1>10. /\ at + u + w = limit
       /\ \A i \in 1..u : under[i] = T[at + i]
       /\ \A i \in 1..w : wire[i] = T[at + u + i]
  BY <1>1, <1>7 DEF Reading, OnWire
<1>11. PICK l \in Nat : l = at + u + n
  OBVIOUS
<1>12. l <= limit
  BY <1>7, <1>8, <1>10, <1>11
<1>13. OnWire(T, at, l)'
  <2>1. \A i \in 1..n : wire'[i] = T[at + u + i]
    BY <1>8, <1>9, <1>10
  <2>2. Len(under') = u /\ under' = under
    BY <1>2, <1>7
  <2>3. QED
    BY <1>9, <1>10, <1>11, <2>1, <2>2 DEF OnWire
<1>14. OnWire(T, pos[m] - remain, l)'
  BY <1>2, <1>7, <1>13
<1>15. Given(base[m] - remain)' /\ FieldsAt(m)'
  BY <1>1, <1>2 DEF Reading, Given, FieldsAt, Numbered
<1>16. Reading(T, pos, base, m, l)'
  <2>1. l <= pos[frames]
    BY <1>4, <1>5, <1>12
  <2>2. (m = 0 => remain = 0) /\ (m # 0 => remain <= base[m] - base[m - 1])
        /\ (kind \in Ssr /\ m < frames => pos[m] + Len(under) < pos[m + 1])
    BY <1>1 DEF Reading
  <2>3. m \in 0..frames
    BY <1>4
  <2>4. QED
    BY <1>2, <1>14, <1>15, <2>1, <2>2, <2>3 DEF Reading
<1>17. QED
  BY <1>3, <1>16 DEF DownFramed

(* A buffering reader: what it holds or has decoded is given out, and it   *)
(* comes to stand in frame k.                                              *)
LEMMA BufferGoesOn ==
    ASSUME TypeOK, kind \in Framed \ Plain, NEW T, NEW pos, NEW base, Streamed(T, pos, base),
           NEW m, NEW limit, Reading(T, pos, base, m, limit),
           NEW k \in 0..frames, base[k] \in Nat,
           NEW buf, Numbered(buf, Len(got)), Len(got) + Len(buf) = base[k],
           NEW cap \in Nat, DeliverBuffered(buf, cap),
           remain' = 0, OnWire(T, pos[k], limit)', FieldsAt(k)',
           kind \in Ssr /\ k < frames => pos[k] + Len(under') < pos[k + 1],
           UNCHANGED <<kind, sent, frames, ended>>
    PROVE  DownFramed'
<1>1. UNCHANGED <<kind, sent, frames>> /\ ended' = ended
  OBVIOUS
<1>2. Numbered(got, 0)
  BY DEF Reading, Given
<1>3. Numbered(got', 0) /\ Numbered(carry', Len(got')) /\ Len(got') + Len(carry') = Len(got) + Len(buf)
  BY <1>2, BufferNumbered
<1>4. Given(base[k])'
  BY <1>3 DEF Given
<1>5. pos[k] \in Nat
  <2>1. frames \in Nat /\ pos \in [Nat -> Nat]
    BY DEF TypeOK, Streamed
  <2>2. k \in Nat
    BY <2>1
  <2>3. QED
    BY <2>1, <2>2
<1>6. PICK r : r = remain' /\ r = 0
  OBVIOUS
<1>12. OnWire(T, pos[k] - r, limit)' /\ Given(base[k] - r)'
  <2>1. pos[k] - r = pos[k] /\ base[k] - r = base[k]
    BY <1>5, <1>6
  <2>2. QED
    BY <1>4, <2>1
<1>7. limit \in Nat /\ limit <= pos[frames] /\ (ended # "cut" => limit = pos[frames])
  BY DEF Reading
<1>8. k # 0 => r <= base[k] - base[k - 1]
  <2> SUFFICES ASSUME k # 0 PROVE r <= base[k] - base[k - 1]
    OBVIOUS
  <2>1. frames \in Nat
    BY DEF TypeOK
  <2>2. k - 1 \in 0..(frames - 1) /\ k - 1 + 1 = k /\ k \in Nat /\ k - 1 \in Nat
    BY <2>1
  <2>3. base[k - 1] <= base[k]
    BY <2>2 DEF Streamed, FrameAt
  <2>4. base[k - 1] \in Nat
    BY <2>2 DEF Streamed
  <2>5. QED
    BY <1>6, <2>3, <2>4
<1>9. Reading(T, pos, base, k, limit)'
  BY <1>1, <1>6, <1>7, <1>8, <1>12 DEF Reading
<1>10. Streamed(T, pos, base)'
  BY <1>1, StreamStays
<1>11. QED
  BY <1>9, <1>10 DEF DownFramed

(* What is next comes from the buffer.                                     *)
LEMMA CarryTaken ==
    ASSUME TypeOK, kind \in Framed, DownFramed, NEW cap \in Nat, carry # <<>>, DeliverBuffered(carry, cap),
           UNCHANGED <<kind, sent, frames, ended, first, remain, wire, under, count>>
    PROVE  DownFramed'
<1>1. PICK T, pos, base, m, limit : Streamed(T, pos, base) /\ Reading(T, pos, base, m, limit)
  BY DEF DownFramed
<1>2. UNCHANGED <<kind, sent, frames, ended>> /\ UNCHANGED <<first, remain, wire, under, count>>
  OBVIOUS
<1>3. kind \in Framed \ Plain /\ kind \in Ssr \cup {"chunk", "aead"}
  BY <1>1 DEF Reading, FieldsAt, Plain
<1>4. remain = 0
  BY <1>1, <1>3 DEF Reading, FieldsAt
<1>5. /\ m \in 0..frames /\ pos[m] \in Nat /\ base[m] \in Nat
  <2>1. /\ m \in Nat /\ frames \in Nat /\ m <= frames /\ pos[m] \in Nat /\ base[m] \in Nat
    BY <1>1, ReaderHere
  <2>2. QED
    BY <2>1
<1>6. pos[m] - remain = pos[m] /\ base[m] - remain = base[m]
  BY <1>4, <1>5
<1>7. Numbered(carry, Len(got)) /\ Len(got) + Len(carry) = base[m]
  BY <1>1, <1>6 DEF Reading, Given
<1>8. OnWire(T, pos[m], limit)
  BY <1>1, <1>6 DEF Reading
<1>9. OnWire(T, pos[m], limit)'
  BY <1>2, <1>8 DEF OnWire
<1>10. FieldsAt(m)'
  BY <1>1, <1>2, <1>3 DEF Reading, FieldsAt
<1>11. kind \in Ssr /\ m < frames => pos[m] + Len(under') < pos[m + 1]
  BY <1>1, <1>2 DEF Reading
<1>12. remain' = 0
  BY <1>2, <1>4
<1>13. QED
  BY ONLY TypeOK, <1>1, <1>2, <1>3, <1>5, <1>7, <1>9, <1>10, <1>11, <1>12, DeliverBuffered(carry, cap), cap \in Nat, BufferGoesOn

(* A chunk reader takes the frame it has come to.                          *)
LEMMA WholeTaken ==
    ASSUME TypeOK, kind \in {"chunk", "aead"}, NEW T, NEW pos, NEW base, Streamed(T, pos, base),
           NEW m, NEW limit, Reading(T, pos, base, m, limit), carry = <<>>, m < frames,
           NEW skip \in Nat, NEW x \in Nat, base[m + 1] = base[m] + x, pos[m + 1] = pos[m] + skip + x,
           skip + x <= Len(wire), NEW cap \in Nat,
           DeliverBuffered(SubSeq(wire, skip + 1, skip + x), cap),
           wire' = SubSeq(wire, skip + x + 1, Len(wire)), first' = FALSE,
           kind = "aead" => count' = count + 1,
           UNCHANGED <<kind, sent, frames, ended, remain, under>>
    PROVE  DownFramed'
<1>1. kind \in Framed /\ kind \in Framed \ Plain /\ kind \notin Ssr /\ kind \in Ssr \cup {"chunk", "aead"}
  BY DEF Framed, Plain, Ssr
<1>2. /\ m \in Nat /\ frames \in Nat /\ m <= frames /\ limit \in Nat
      /\ pos[m] \in Nat /\ base[m] \in Nat
  BY <1>1, ReaderHere
<1>3. wire \in Seq(Token) /\ Len(wire) \in Nat
  BY DEF TypeOK
<1>4. remain = 0 /\ under = <<>> /\ (kind = "aead" => count = m)
  BY <1>1 DEF Reading, FieldsAt
<1>5. pos[m] - remain = pos[m] /\ base[m] - remain = base[m]
  BY <1>2, <1>4
<1>6. Numbered(got, 0) /\ Len(got) + Len(carry) = base[m]
  BY <1>5 DEF Reading, Given
<1>7. Len(got) \in Nat /\ Len(got) = base[m]
  <2>1. Len(got) \in Nat /\ Len(carry) = 0
    BY <1>6 DEF Numbered
  <2>2. QED
    BY <1>6, <2>1
<1>8. OnWire(T, pos[m], limit)
  BY <1>5 DEF Reading
<1>9. PICK p \in Nat, b \in Nat, w \in Nat, y \in Nat :
          p = pos[m] /\ b = base[m] /\ w = Len(wire) /\ y = skip + x
  <2>1. pos[m] \in Nat /\ base[m] \in Nat /\ Len(wire) \in Nat
    BY <1>2, <1>3
  <2>2. PICK y \in Nat : y = skip + x
    OBVIOUS
  <2>3. QED
    BY ONLY <2>1, <2>2, y \in Nat
<1>10. p + w = limit /\ \A i \in 1..w : wire[i] = T[p + i]
  <2>1. Len(under) = 0 /\ p + 0 = p
    BY <1>4, <1>9
  <2>2. QED
    BY <1>8, <1>9, <2>1 DEF OnWire
<1>11. y <= w /\ skip <= y /\ y - skip = x
  <2>1. y = skip + x /\ y <= w
    BY <1>9
  <2>2. QED
    BY ONLY <2>1, skip \in Nat, x \in Nat
<1>12. PICK buf : buf = SubSeq(wire, skip + 1, y)
  OBVIOUS
<1>13. buf \in Seq(Token) /\ Len(buf) = x /\ \A i \in 1..x : buf[i] = wire[skip + i]
  <2>1. wire \in Seq(Token) /\ skip \in Nat /\ y \in Nat /\ skip <= y /\ y <= Len(wire)
    BY <1>3, <1>9, <1>11
  <2>2. buf \in Seq(Token) /\ Len(buf) = y - skip /\ \A i \in 1..(y - skip) : buf[i] = wire[skip + i]
    BY ONLY <1>12, <2>1, PartIs
  <2>3. QED
    BY ONLY <1>11, <2>2
<1>14. PICK low \in Nat, high \in Nat, from \in Nat, z \in Nat : FrameFrom(T, pos, base, m, low, high, from, z)
  BY <1>2, FrameHere
<1>15. z = x /\ from = b /\ high = p + y /\ \A v \in 1..x : T[high - x + v] = Tok("byte", from + v)
  <2>1. /\ high = pos[m + 1] /\ from = base[m] /\ base[m + 1] = from + z
        /\ \A v \in 1..z : T[high - z + v] = Tok("byte", from + v)
    BY <1>14 DEF FrameFrom
  <2>2. z = x
    BY <1>9, <2>1
  <2>5. from = b /\ high = p + skip + x
    BY <1>9, <2>1
  <2>4. from = b /\ high = p + y
    BY <1>9, <2>5
  <2>3. QED
    BY <2>1, <2>2, <2>4
<1>16. Numbered(buf, b)
  <2>1. ASSUME NEW i \in 1..x PROVE buf[i] = Tok("byte", b + i)
    <3>1. skip + i \in 1..w /\ p + (skip + i) = high - x + i
      <4>1. high = p + skip + x /\ skip + x <= w
        BY <1>9, <1>11, <1>15
      <4>2. QED
        BY <4>1
    <3>2. buf[i] = wire[skip + i] /\ wire[skip + i] = T[p + (skip + i)]
      BY <1>10, <1>13, <3>1
    <3>3. QED
      BY <1>15, <3>1, <3>2
  <2>2. QED
    BY <1>13, <2>1 DEF Numbered
<1>17. wire' \in Seq(Token) /\ Len(wire') = w - y /\ \A i \in 1..(w - y) : wire'[i] = wire[y + i]
  <2>1. wire' = SubSeq(wire, y + 1, w)
    BY <1>9
  <2>2. wire \in Seq(Token) /\ y \in Nat /\ w \in Nat /\ y <= w /\ w <= Len(wire)
    BY <1>3, <1>9, <1>11
  <2>3. QED
    BY ONLY <2>1, <2>2, PartIs
<1>18. PICK k \in 0..frames : k = m + 1
  BY <1>2
<1>19. pos[k] = p + y /\ base[k] = b + x /\ k # 0 /\ k \in Nat
  BY <1>2, <1>9, <1>18
<1>20. OnWire(T, p + y, limit)'
  <2>1. ASSUME NEW i \in 1..(w - y) PROVE wire'[i] = T[p + y + 0 + i]
    <3>1. y + i \in 1..w /\ p + (y + i) = p + y + 0 + i
      BY <1>11
    <3>2. QED
      BY <1>10, <1>17, <3>1
  <2>2. Len(under') = 0 /\ p + y + 0 + (w - y) = limit
    BY <1>4, <1>10, <1>11
  <2>3. \A i \in 1..0 : under'[i] = T[p + y + i]
    OBVIOUS
  <2>4. QED
    BY <1>17, <2>1, <2>2, <2>3 DEF OnWire
<1>21. FieldsAt(k)'
  <2>1. kind' = kind /\ under' = under /\ remain' = remain
    OBVIOUS
  <2>2. kind = "aead" => count' = k
    BY <1>4, <1>18
  <2>3. QED
    BY <1>1, <1>4, <1>19, <2>1, <2>2 DEF FieldsAt, Ssr
<1>22. remain' = 0 /\ OnWire(T, pos[k], limit)' /\ UNCHANGED <<kind, sent, frames, ended>>
  BY <1>4, <1>19, <1>20
<1>23. base[k] \in Nat /\ Numbered(buf, Len(got)) /\ Len(got) + Len(buf) = base[k] /\ DeliverBuffered(buf, cap)
  <2>1. Len(got) = b /\ Len(buf) = x /\ base[k] = b + x
    BY <1>7, <1>9, <1>13, <1>19
  <2>2. DeliverBuffered(buf, cap)
    BY <1>9, <1>12
  <2>3. QED
    BY <1>16, <2>1, <2>2
<1>24. TypeOK /\ Streamed(T, pos, base) /\ Reading(T, pos, base, m, limit) /\ cap \in Nat
  OBVIOUS
<1>25. kind \in Ssr /\ k < frames => pos[k] + Len(under') < pos[k + 1]
  BY <1>1
<1>26. QED
  BY ONLY <1>1, <1>18, <1>21, <1>22, <1>23, <1>24, <1>25, BufferGoesOn

(* The header the reader meets: it counts skip tokens, and the frame holds *)
(* n bytes.                                                                *)
HeadOnWire(pos, base, m, skip, n) ==
    /\ base[m + 1] = base[m] + n /\ pos[m + 1] = pos[m] + skip + n
    /\ kind = "tls" => skip = IF first THEN 3 ELSE 2
    /\ kind = "gun" => skip = 2
    /\ kind = "ws" => skip = 1
    /\ kind = "chunk" => skip = VmessSkip + 1
    /\ kind = "aead" => skip = VmessSkip + 2 /\ (skip <= Len(wire) => wire[skip - 1].v = count)
    /\ kind = "mux" => \/ skip = 4 /\ (3 <= Len(wire) => wire[2].v = 2 /\ wire[3].v = 1)
                       \/ skip = 3 /\ n = 0 /\ (3 <= Len(wire) => wire[3].v = 0)
    /\ skip <= Len(wire) /\ (kind = "mux" => skip = 4) => wire[skip].v = n

LEMMA HeadMet ==
    ASSUME TypeOK, kind \in Framed \ Ssr, NEW T, NEW pos, NEW base, Streamed(T, pos, base),
           NEW m, NEW limit, Reading(T, pos, base, m, limit), remain = 0, Len(wire) # 0
    PROVE  m \in Nat /\ m < frames /\ \E skip, n \in Nat : HeadOnWire(pos, base, m, skip, n)
<1>1. /\ m \in Nat /\ frames \in Nat /\ m <= frames /\ limit \in Nat
      /\ pos[m] \in Nat /\ base[m] \in Nat
  BY ReaderHere
<1>2. wire \in Seq(Token) /\ Len(wire) \in Nat /\ under = <<>>
  BY DEF TypeOK, Reading, FieldsAt
<1>3. m < frames
  <2>1. Len(under) + Len(wire) # 0
    BY <1>2
  <2>2. QED
    BY <2>1, FrameComes
<1>4. PICK low \in Nat, high \in Nat, from \in Nat, n \in Nat : FrameFrom(T, pos, base, m, low, high, from, n)
  BY <1>1, <1>3, FrameHere
<1>5. /\ low = pos[m] /\ high = pos[m + 1] /\ from = base[m] /\ base[m + 1] = from + n
      /\ low + n < high
  BY <1>4 DEF FrameFrom
<1>6. HeaderOf(T, low + Before(m), high - n, n, m)
  BY <1>4 DEF FrameFrom
<1>7. PICK w \in Nat : w = Len(wire)
  BY <1>2
<1>8. \A i \in 1..w : wire[i] = T[low + i]
  <2>1. OnWire(T, pos[m] - remain, limit)
    BY DEF Reading
  <2>2. pos[m] - remain = low /\ Len(under) = 0 /\ low + 0 = low
    BY <1>1, <1>2, <1>5
  <2>3. QED
    BY <1>7, <2>1, <2>2 DEF OnWire
<1>9. PICK f \in Nat : f = Before(m)
  BY <1>1, FrontIs DEF Framed, AllKinds, Ssr
<1>10. PICK skip \in Nat : skip = high - n - low
  BY <1>5
<1>11. pos[m + 1] = pos[m] + skip + n /\ base[m + 1] = base[m] + n
  BY <1>5, <1>10
<1>12. HeaderOf(T, low + f, low + skip, n, m)
  <2>1. low + skip = high - n
    BY <1>10
  <2>2. QED
    BY <1>6, <1>9, <2>1
<1>13. ASSUME kind \in {"tls", "chunk", "aead"} PROVE f = IF first THEN 1 ELSE 0
  <2>1. first <=> m = 0
    BY <1>13 DEF Reading, FieldsAt
  <2>2. (m = 0 => f = 1) /\ (m # 0 => f = 0)
    BY <1>1, <1>9, <1>13, FrontIs DEF AllKinds
  <2>3. QED
    BY <2>1, <2>2
<1>14. ASSUME kind \in {"gun", "ws", "mux"} PROVE f = 0
  <2>1. (m = 0 => f = 0) /\ (m # 0 => f = 0)
    BY <1>1, <1>9, <1>14, FrontIs DEF AllKinds
  <2>2. QED
    BY <2>1
<1>15. CASE kind \in {"tls", "gun", "aead"}
  <2>1. skip = f + 2 /\ T[low + f + 1].v = m /\ T[low + f + 2].v = n
    <3>1. low + skip = low + f + 2 /\ T[low + f + 1].v = m /\ T[low + f + 2].v = n
      BY <1>12, <1>15 DEF HeaderOf
    <3>2. QED
      BY <3>1
  <2>2. skip <= w => wire[skip] = T[low + f + 2] /\ wire[skip - 1] = T[low + f + 1]
    <3> SUFFICES ASSUME skip <= w PROVE wire[skip] = T[low + f + 2] /\ wire[skip - 1] = T[low + f + 1]
      OBVIOUS
    <3>1. skip \in 1..w /\ skip - 1 \in 1..w /\ low + skip = low + f + 2 /\ low + (skip - 1) = low + f + 1
      BY <2>1
    <3>2. QED
      BY <1>8, <3>1
  <2>3. skip <= w => wire[skip].v = n /\ wire[skip - 1].v = m
    BY <2>1, <2>2
  <2>4. kind = "tls" => skip = IF first THEN 3 ELSE 2
    BY <1>13, <2>1
  <2>5. kind = "gun" => skip = 2
    BY <1>14, <2>1
  <2>6. kind = "aead" => skip = VmessSkip + 2 /\ count = m
    BY <1>13, <2>1 DEF VmessSkip, Reading, FieldsAt
  <2>7. HeadOnWire(pos, base, m, skip, n)
    BY <1>7, <1>11, <1>15, <2>3, <2>4, <2>5, <2>6 DEF HeadOnWire
  <2>8. QED
    BY <1>1, <1>3, <2>7
<1>16. CASE kind \in {"chunk", "ws"}
  <2>1. skip = f + 1 /\ T[low + f + 1].v = n
    <3>1. low + skip = low + f + 1 /\ T[low + f + 1].v = n
      BY <1>12, <1>16 DEF HeaderOf
    <3>2. QED
      BY <3>1
  <2>2. skip <= w => wire[skip].v = n
    <3> SUFFICES ASSUME skip <= w PROVE wire[skip].v = n
      OBVIOUS
    <3>1. skip \in 1..w /\ low + skip = low + f + 1
      BY <2>1
    <3>2. QED
      BY <1>8, <2>1, <3>1
  <2>3. kind = "chunk" => skip = VmessSkip + 1
    BY <1>13, <2>1 DEF VmessSkip
  <2>4. kind = "ws" => skip = 1
    BY <1>14, <2>1
  <2>5. HeadOnWire(pos, base, m, skip, n)
    BY <1>7, <1>11, <1>16, <2>2, <2>3, <2>4 DEF HeadOnWire
  <2>6. QED
    BY <1>1, <1>3, <2>5
<1>17. CASE kind = "mux"
  <2>1. f = 0 /\ low + f = low
    BY <1>14, <1>17
  <2>2. \/ low + skip = low + 4 /\ T[low + 2].v = 2 /\ T[low + 3].v = 1 /\ T[low + 4].v = n
        \/ low + skip = low + 3 /\ T[low + 3].v = 0 /\ n = 0
    BY <1>12, <1>17, <2>1 DEF HeaderOf
  <2>3. \/ skip = 4 /\ T[low + 2].v = 2 /\ T[low + 3].v = 1 /\ T[low + 4].v = n
        \/ skip = 3 /\ T[low + 3].v = 0 /\ n = 0
    BY <2>2
  <2>4. 3 <= w => wire[2] = T[low + 2] /\ wire[3] = T[low + 3]
    BY <1>8
  <2>5. 4 <= w => wire[4] = T[low + 4]
    BY <1>8
  <2>6. \/ skip = 4 /\ (3 <= Len(wire) => wire[2].v = 2 /\ wire[3].v = 1)
        \/ skip = 3 /\ n = 0 /\ (3 <= Len(wire) => wire[3].v = 0)
    BY <1>7, <2>3, <2>4
  <2>7. skip <= Len(wire) /\ (kind = "mux" => skip = 4) => wire[skip].v = n
    BY <1>7, <1>17, <2>3, <2>5
  <2>8. HeadOnWire(pos, base, m, skip, n)
    BY <1>11, <1>17, <2>6, <2>7 DEF HeadOnWire
  <2>9. QED
    BY <1>1, <1>3, <2>8
<1>18. QED
  BY <1>15, <1>16, <1>17 DEF Framed

LEMMA LowerIs ==
    ASSUME NEW a \in Int, NEW b \in Int
    PROVE  /\ Lower(a, b) \in Int /\ Lower(a, b) <= a /\ Lower(a, b) <= b
           /\ a \in Nat /\ b \in Nat => Lower(a, b) \in Nat
BY DEF Lower

(* A plain reader begins frame m.                                          *)
LEMMA BeginFrame ==
    ASSUME TypeOK, kind \in Plain, NEW T, NEW pos, NEW base, Streamed(T, pos, base),
           NEW m \in Nat, NEW limit, Reading(T, pos, base, m, limit), remain = 0, m < frames,
           NEW skip \in Nat, NEW x \in Nat, HeadOnWire(pos, base, m, skip, x),
           NEW n \in Nat, n <= x, Deliver(skip, n), remain' = x - n,
           kind = "tls" => first' = FALSE,
           UNCHANGED <<kind, sent, frames, ended, carry, under>>
    PROVE  DownFramed'
<1>1. base[m + 1] = base[m] + x /\ pos[m + 1] = pos[m] + skip + x
  BY DEF HeadOnWire
<1>2. /\ TypeOK /\ kind \in Plain /\ Streamed(T, pos, base) /\ Reading(T, pos, base, m, limit) /\ remain = 0
      /\ m < frames /\ skip \in Nat /\ x \in Nat /\ n \in Nat /\ n <= x /\ Deliver(skip, n) /\ remain' = x - n
      /\ (kind = "tls" => first' = FALSE)
  OBVIOUS
<1>3. UNCHANGED <<kind, sent, frames, ended, carry, under>>
  OBVIOUS
<1>4. QED
  BY ONLY <1>1, <1>2, <1>3, TakeNew

LEMMA RestTaken ==
    ASSUME TypeOK, kind \in Plain, DownFramed, NEW n \in Nat, n <= remain, Deliver(0, n), remain' = remain - n,
           UNCHANGED <<kind, sent, frames, ended, first, carry, under>>
    PROVE  DownFramed'
<1>1. PICK T, pos, base, m, limit : Streamed(T, pos, base) /\ Reading(T, pos, base, m, limit)
  BY DEF DownFramed
<1>2. TypeOK /\ kind \in Plain /\ n \in Nat /\ n <= remain /\ Deliver(0, n) /\ remain' = remain - n
  OBVIOUS
<1>3. UNCHANGED <<kind, sent, frames, ended, first, carry, under>>
  OBVIOUS
<1>4. QED
  BY ONLY <1>1, <1>2, <1>3, TakeRest

LEMMA RestRead ==
    ASSUME TypeOK, kind \in Plain, DownFramed, NEW cap \in Nat, ReadRest(cap)
    PROVE  DownFramed'
<1>1. remain \in Nat
  BY DEF TypeOK
<1>2. PICK n \in Nat : n = Lower(remain, cap) /\ n <= remain
  BY <1>1, LowerIs
<1>3. Deliver(0, n) /\ remain' = remain - n
  BY <1>2 DEF ReadRest
<1>4. UNCHANGED <<kind, sent, frames, ended, first, carry, under>>
  BY DEF ReadRest, Kept, peer
<1>5. QED
  BY <1>2, <1>3, <1>4, RestTaken

LEMMA TLSReads ==
    ASSUME TypeOK, DownFramed, NEW cap \in Nat, TLSObfsRead(cap)
    PROVE  DownFramed'
<1>1. kind = "tls" /\ kind \in Plain /\ kind \in Framed \ Ssr
  BY DEF TLSObfsRead, Plain, Framed, Ssr
<1>2. CASE ReadRest(cap)
  BY <1>1, <1>2, RestRead
<1>3. CASE ~ReadRest(cap)
  <2>1. PICK s : s = IF first THEN 3 ELSE 2
    OBVIOUS
  <2>2. remain = 0 /\ Len(wire) >= s /\ TLSReadFrame(cap, s) /\ first' = FALSE /\ UNCHANGED carry /\ Kept
    BY <1>3, <2>1 DEF TLSObfsRead
  <2>3. s \in {2, 3} /\ wire \in Seq(Token) /\ Len(wire) \in Nat
    BY <2>1 DEF TypeOK
  <2>4. PICK T, pos, base, m, limit : Streamed(T, pos, base) /\ Reading(T, pos, base, m, limit)
    BY DEF DownFramed
  <2>5. Len(wire) # 0
    BY <2>2, <2>3
  <2>6. m \in Nat /\ m < frames /\ \E skip, n \in Nat : HeadOnWire(pos, base, m, skip, n)
    BY <1>1, <2>2, <2>4, <2>5, HeadMet
  <2>7. PICK skip \in Nat, x \in Nat : HeadOnWire(pos, base, m, skip, x)
    BY <2>6
  <2>8. skip = s
    BY <1>1, <2>1, <2>7 DEF HeadOnWire
  <2>9. wire[s].v = x
    <3>1. skip <= Len(wire)
      BY <2>2, <2>3, <2>8
    <3>2. QED
      BY <1>1, <2>7, <2>8, <3>1 DEF HeadOnWire
  <2>10. PICK n \in Nat : n <= x /\ Deliver(s, n) /\ remain' = x - n
    <3>1. CASE x > cap
      <4>1. PICK n \in 1..Lower(cap, Len(wire) - s) : Deliver(s, n) /\ remain' = x - n
        BY <2>2, <2>9, <3>1 DEF TLSReadFrame
      <4>2. n \in Nat /\ n <= x
        <5>1. Lower(cap, Len(wire) - s) \in Int /\ Lower(cap, Len(wire) - s) <= cap
          BY <2>3, LowerIs
        <5>2. QED
          BY <3>1, <4>1, <5>1
      <4>3. QED
        BY <4>1, <4>2
    <3>2. CASE ~(x > cap)
      <4>1. Deliver(s, x) /\ remain' = 0
        BY <2>2, <2>9, <3>2 DEF TLSReadFrame
      <4>2. x <= x /\ 0 = x - x
        OBVIOUS
      <4>3. QED
        BY <4>1, <4>2
    <3>3. QED
      BY <3>1, <3>2
  <2>11. UNCHANGED <<kind, sent, frames, ended, carry, under>>
    BY <2>2 DEF Kept, peer
  <2>12. QED
    BY <1>1, <2>2, <2>4, <2>6, <2>7, <2>8, <2>10, <2>11, BeginFrame
<1>4. QED
  BY <1>2, <1>3

LEMMA GunReads ==
    ASSUME TypeOK, DownFramed, NEW cap \in Nat, GunRead(cap)
    PROVE  DownFramed'
<1>1. kind = "gun" /\ kind \in Plain /\ kind \in Framed \ Ssr
  BY DEF GunRead, Plain, Framed, Ssr
<1>2. CASE ReadRest(cap)
  BY <1>1, <1>2, RestRead
<1>3. CASE ~ReadRest(cap)
  <2>1. /\ remain = 0 /\ Len(wire) >= 2 /\ Deliver(2, Lower(wire[2].v, cap))
        /\ remain' = wire[2].v - Lower(wire[2].v, cap) /\ UNCHANGED <<first, carry>> /\ Kept
    BY <1>3 DEF GunRead
  <2>2. Len(wire) \in Nat /\ Len(wire) # 0
    BY <2>1 DEF TypeOK
  <2>4. PICK T, pos, base, m, limit : Streamed(T, pos, base) /\ Reading(T, pos, base, m, limit)
    BY DEF DownFramed
  <2>6. m \in Nat /\ m < frames /\ \E skip, n \in Nat : HeadOnWire(pos, base, m, skip, n)
    BY <1>1, <2>1, <2>2, <2>4, HeadMet
  <2>7. PICK skip \in Nat, x \in Nat : HeadOnWire(pos, base, m, skip, x)
    BY <2>6
  <2>8. skip = 2 /\ wire[2].v = x
    <3>1. skip = 2
      BY <1>1, <2>7 DEF HeadOnWire
    <3>2. skip <= Len(wire)
      BY <2>1, <2>2, <3>1
    <3>3. QED
      BY <1>1, <2>7, <3>1, <3>2 DEF HeadOnWire
  <2>9. PICK n \in Nat : n = Lower(x, cap) /\ n <= x
    BY LowerIs
  <2>10. Deliver(skip, n) /\ remain' = x - n
    BY <2>1, <2>8, <2>9
  <2>11. UNCHANGED <<kind, sent, frames, ended, carry, under>>
    BY <2>1 DEF Kept, peer
  <2>12. QED
    BY <1>1, <2>1, <2>4, <2>6, <2>7, <2>9, <2>10, <2>11, BeginFrame
<1>4. QED
  BY <1>2, <1>3

LEMMA PartTaken ==
    ASSUME TypeOK, kind \in Plain, DownFramed, NEW cap \in Nat,
           NEW n \in 1..Lower(Lower(cap, remain), Len(wire)), Deliver(0, n), remain' = remain - n,
           UNCHANGED <<kind, sent, frames, ended, first, carry, under>>
    PROVE  DownFramed'
<1>1. remain \in Nat /\ Len(wire) \in Nat
  BY DEF TypeOK
<1>2. Lower(cap, remain) \in Int /\ Lower(cap, remain) <= remain
  BY <1>1, LowerIs
<1>3. Lower(Lower(cap, remain), Len(wire)) \in Int /\ Lower(Lower(cap, remain), Len(wire)) <= Lower(cap, remain)
  BY <1>1, <1>2, LowerIs
<1>4. n \in Nat /\ n <= remain
  BY <1>1, <1>2, <1>3
<1>5. QED
  BY <1>4, RestTaken

LEMMA WebsocketReads ==
    ASSUME TypeOK, DownFramed, NEW cap \in Nat, WebsocketRead(cap)
    PROVE  DownFramed'
<1>1. kind = "ws" /\ kind \in Plain /\ kind \in Framed \ Ssr
  BY DEF WebsocketRead, Plain, Framed, Ssr
<1>2. UNCHANGED <<kind, sent, frames, ended, first, carry, under>>
  BY DEF WebsocketRead, Kept, peer
<1>3. CASE remain > 0
  <2>1. PICK n \in 1..Lower(Lower(cap, remain), Len(wire)) : Deliver(0, n) /\ remain' = remain - n
    BY <1>3 DEF WebsocketRead
  <2>2. QED
    BY <1>1, <1>2, <2>1, PartTaken
<1>4. CASE ~(remain > 0)
  <2>1. remain = 0 /\ Len(wire) >= 1 /\ Deliver(1, 0) /\ remain' = wire[1].v
    BY <1>4 DEF WebsocketRead
  <2>2. Len(wire) \in Nat /\ Len(wire) # 0
    BY <2>1 DEF TypeOK
  <2>4. PICK T, pos, base, m, limit : Streamed(T, pos, base) /\ Reading(T, pos, base, m, limit)
    BY DEF DownFramed
  <2>6. m \in Nat /\ m < frames /\ \E skip, n \in Nat : HeadOnWire(pos, base, m, skip, n)
    BY <1>1, <2>1, <2>2, <2>4, HeadMet
  <2>7. PICK skip \in Nat, x \in Nat : HeadOnWire(pos, base, m, skip, x)
    BY <2>6
  <2>8. skip = 1 /\ wire[1].v = x
    <3>1. skip = 1
      BY <1>1, <2>7 DEF HeadOnWire
    <3>2. skip <= Len(wire)
      BY <2>1, <2>2, <3>1
    <3>3. QED
      BY <1>1, <2>7, <3>1, <3>2 DEF HeadOnWire
  <2>9. PICK n \in Nat : n = 0 /\ n <= x /\ x - n = x
    OBVIOUS
  <2>10. Deliver(skip, n) /\ remain' = x - n
    BY <2>1, <2>8, <2>9
  <2>12. QED
    BY <1>1, <1>2, <2>1, <2>4, <2>6, <2>7, <2>9, <2>10, BeginFrame
<1>5. QED
  BY <1>3, <1>4

LEMMA MuxReads ==
    ASSUME TypeOK, DownFramed, NEW cap \in Nat, MuxRead(cap), ~Fail
    PROVE  DownFramed'
<1>1. kind = "mux" /\ kind \in Plain /\ kind \in Framed \ Ssr
  BY DEF MuxRead, Plain, Framed, Ssr
<1>2. UNCHANGED <<kind, sent, frames, ended, first, carry, under>>
  BY DEF MuxRead, Kept, peer
<1>3. CASE remain > 0
  <2>1. PICK n \in 1..Lower(Lower(cap, remain), Len(wire)) : Deliver(0, n) /\ remain' = remain - n
    BY <1>3 DEF MuxRead
  <2>2. QED
    BY <1>1, <1>2, <2>1, PartTaken
<1>4. CASE ~(remain > 0)
  <2>1. remain = 0 /\ Len(wire) >= 3
    BY <1>4 DEF MuxRead
  <2>2. wire \in Seq(Token) /\ Len(wire) \in Nat /\ Len(wire) # 0
    BY <2>1 DEF TypeOK
  <2>3. PICK T, pos, base, m, limit : Streamed(T, pos, base) /\ Reading(T, pos, base, m, limit)
    BY DEF DownFramed
  <2>4. m \in Nat /\ m < frames /\ \E skip, n \in Nat : HeadOnWire(pos, base, m, skip, n)
    BY <1>1, <2>1, <2>2, <2>3, HeadMet
  <2>5. PICK skip \in Nat, x \in Nat : HeadOnWire(pos, base, m, skip, x)
    BY <2>4
  <2>6. \/ skip = 4 /\ wire[2].v = 2 /\ wire[3].v = 1
        \/ skip = 3 /\ x = 0 /\ wire[3].v = 0
    BY <1>1, <2>1, <2>2, <2>5 DEF HeadOnWire
  <2>7. PICK n \in Nat : n <= x /\ Deliver(skip, n) /\ remain' = x - n
    <3>1. CASE wire[2].v = 4 \/ wire[3].v # 1
      <4>1. Deliver(3, 0) /\ remain' = remain
        BY <1>4, <3>1 DEF MuxRead
      <4>2. skip = 3 /\ x = 0 /\ 0 = 0 - 0
        BY <2>6, <3>1
      <4>3. QED
        BY <2>1, <4>1, <4>2
    <3>2. CASE wire[2].v # 4 /\ wire[3].v = 1
      <4>1. /\ Len(wire) >= 4
            /\ \E n \in 0..Lower(cap, wire[4].v) : Deliver(4, n) /\ remain' = wire[4].v - n
        BY <1>4, <3>2 DEF MuxRead
      <4>2. skip = 4
        BY <2>6, <3>2
      <4>3. skip <= Len(wire)
        BY <2>2, <4>1, <4>2
      <4>4. wire[4].v = x
        BY <2>5, <4>2, <4>3 DEF HeadOnWire
      <4>5. PICK n \in 0..Lower(cap, x) : Deliver(4, n) /\ remain' = x - n
        BY <4>1, <4>4
      <4>6. Lower(cap, x) \in Int /\ Lower(cap, x) <= x
        BY LowerIs
      <4>7. n \in Nat /\ n <= x
        BY <4>5, <4>6
      <4>8. QED
        BY <4>2, <4>5, <4>7
    <3>3. QED
      BY <3>1, <3>2
  <2>8. QED
    BY <1>1, <1>2, <2>1, <2>3, <2>4, <2>5, <2>7, BeginFrame
<1>5. QED
  BY <1>3, <1>4

LEMMA CarryRead ==
    ASSUME TypeOK, kind \in Framed, DownFramed, NEW cap \in Nat, ReadCarry(cap)
    PROVE  DownFramed'
<1>1. carry # <<>> /\ DeliverBuffered(carry, cap)
  BY DEF ReadCarry
<1>2. UNCHANGED <<kind, sent, frames, ended, first, remain, wire, under, count>>
  BY DEF ReadCarry, Kept, peer
<1>3. QED
  BY <1>1, <1>2, CarryTaken

(* A chunk reader takes frame m whole.                                     *)
LEMMA WholeFrame ==
    ASSUME TypeOK, kind \in {"chunk", "aead"}, NEW T, NEW pos, NEW base, Streamed(T, pos, base),
           NEW m \in Nat, NEW limit, Reading(T, pos, base, m, limit), carry = <<>>, m < frames,
           NEW skip \in Nat, NEW x \in Nat, HeadOnWire(pos, base, m, skip, x),
           Len(wire) >= skip + x, NEW cap \in Nat,
           DeliverBuffered(SubSeq(wire, skip + 1, skip + x), cap),
           wire' = SubSeq(wire, skip + x + 1, Len(wire)), first' = FALSE,
           kind = "aead" => count' = count + 1,
           UNCHANGED <<kind, sent, frames, ended, remain, under>>
    PROVE  DownFramed'
<1>1. base[m + 1] = base[m] + x /\ pos[m + 1] = pos[m] + skip + x
  BY DEF HeadOnWire
<1>2. skip + x <= Len(wire)
  <2>1. Len(wire) \in Nat
    BY DEF TypeOK
  <2>2. QED
    BY <2>1
<1>3. /\ TypeOK /\ kind \in {"chunk", "aead"} /\ Streamed(T, pos, base) /\ Reading(T, pos, base, m, limit)
      /\ carry = <<>> /\ m < frames /\ skip \in Nat /\ x \in Nat /\ cap \in Nat
      /\ DeliverBuffered(SubSeq(wire, skip + 1, skip + x), cap)
      /\ wire' = SubSeq(wire, skip + x + 1, Len(wire)) /\ first' = FALSE
      /\ (kind = "aead" => count' = count + 1)
  OBVIOUS
<1>4. UNCHANGED <<kind, sent, frames, ended, remain, under>>
  OBVIOUS
<1>5. QED
  BY ONLY <1>1, <1>2, <1>3, <1>4, WholeTaken

LEMMA ChunkReads ==
    ASSUME TypeOK, DownFramed, NEW cap \in Nat, ChunkRead(cap), ~Fail
    PROVE  DownFramed'
<1>1. kind = "chunk" /\ kind \in Framed /\ kind \in Framed \ Ssr
  BY DEF ChunkRead, Framed, Ssr
<1>2. CASE ReadCarry(cap)
  BY <1>1, <1>2, CarryRead
<1>3. CASE ~ReadCarry(cap)
  <2>1. PICK s : s = VmessSkip + 1
    OBVIOUS
  <2>2. /\ carry = <<>> /\ Len(wire) >= s /\ Len(wire) >= s + wire[s].v
        /\ DeliverBuffered(SubSeq(wire, s + 1, s + wire[s].v), cap)
        /\ wire' = SubSeq(wire, s + wire[s].v + 1, Len(wire))
        /\ first' = FALSE /\ UNCHANGED remain /\ Kept
    BY <1>3, <2>1, Zenon DEF ChunkRead
  <2>3. s \in {1, 2} /\ Len(wire) \in Nat
    BY <2>1 DEF VmessSkip, TypeOK
  <2>4. PICK T, pos, base, m, limit : Streamed(T, pos, base) /\ Reading(T, pos, base, m, limit)
    BY DEF DownFramed
  <2>5. remain = 0 /\ Len(wire) # 0
    BY <1>1, <2>2, <2>3, <2>4 DEF Reading, FieldsAt
  <2>6. m \in Nat /\ m < frames /\ \E skip, n \in Nat : HeadOnWire(pos, base, m, skip, n)
    BY <1>1, <2>4, <2>5, HeadMet
  <2>7. PICK skip \in Nat, x \in Nat : HeadOnWire(pos, base, m, skip, x)
    BY <2>6
  <2>8. skip = s /\ wire[s].v = x
    <3>1. skip = s
      BY <1>1, <2>1, <2>7 DEF HeadOnWire
    <3>2. skip <= Len(wire)
      BY <2>2, <2>3, <3>1
    <3>3. QED
      BY <1>1, <2>7, <3>1, <3>2 DEF HeadOnWire
  <2>9. UNCHANGED <<kind, sent, frames, ended, remain, under>>
    BY <2>2 DEF Kept, peer
  <2>10. kind \in {"chunk", "aead"} /\ (kind = "aead" => count' = count + 1)
    BY <1>1
  <2>11. /\ carry = <<>> /\ Len(wire) >= skip + x
         /\ DeliverBuffered(SubSeq(wire, skip + 1, skip + x), cap)
         /\ wire' = SubSeq(wire, skip + x + 1, Len(wire)) /\ first' = FALSE
    BY <2>2, <2>8
  <2>12. QED
    BY ONLY TypeOK, cap \in Nat, <2>4, <2>6, <2>7, <2>9, <2>10, <2>11, WholeFrame
<1>4. QED
  BY <1>2, <1>3

LEMMA AEADReads ==
    ASSUME TypeOK, DownFramed, NEW cap \in Nat, AEADRead(cap), ~Fail
    PROVE  DownFramed'
<1>1. kind = "aead" /\ kind \in Framed /\ kind \in Framed \ Ssr
  BY DEF AEADRead, Framed, Ssr
<1>2. CASE ReadCarry(cap)
  BY <1>1, <1>2, CarryRead
<1>3. CASE ~ReadCarry(cap)
  <2>1. PICK s : s = VmessSkip + 2
    OBVIOUS
  <2>2. /\ carry = <<>> /\ Len(wire) >= s /\ Len(wire) >= s + wire[s].v
        /\ DeliverBuffered(SubSeq(wire, s + 1, s + wire[s].v), cap)
        /\ wire' = SubSeq(wire, s + wire[s].v + 1, Len(wire))
        /\ first' = FALSE /\ count' = count + 1 /\ UNCHANGED <<remain, peer, under, opts, over, astray>>
    BY <1>3, <2>1, Zenon DEF AEADRead
  <2>3. s \in {2, 3} /\ Len(wire) \in Nat
    BY <2>1 DEF VmessSkip, TypeOK
  <2>4. PICK T, pos, base, m, limit : Streamed(T, pos, base) /\ Reading(T, pos, base, m, limit)
    BY DEF DownFramed
  <2>5. remain = 0 /\ Len(wire) # 0
    BY <1>1, <2>2, <2>3, <2>4 DEF Reading, FieldsAt
  <2>6. m \in Nat /\ m < frames /\ \E skip, n \in Nat : HeadOnWire(pos, base, m, skip, n)
    BY <1>1, <2>4, <2>5, HeadMet
  <2>7. PICK skip \in Nat, x \in Nat : HeadOnWire(pos, base, m, skip, x)
    BY <2>6
  <2>8. skip = s /\ wire[s].v = x
    <3>1. skip = s
      BY <1>1, <2>1, <2>7 DEF HeadOnWire
    <3>2. skip <= Len(wire)
      BY <2>2, <2>3, <3>1
    <3>3. QED
      BY <1>1, <2>7, <3>1, <3>2 DEF HeadOnWire
  <2>9. UNCHANGED <<kind, sent, frames, ended, remain, under>>
    BY <2>2 DEF peer
  <2>10. kind \in {"chunk", "aead"} /\ (kind = "aead" => count' = count + 1)
    BY <1>1, <2>2
  <2>11. /\ carry = <<>> /\ Len(wire) >= skip + x
         /\ DeliverBuffered(SubSeq(wire, skip + 1, skip + x), cap)
         /\ wire' = SubSeq(wire, skip + x + 1, Len(wire)) /\ first' = FALSE
    BY <2>2, <2>8
  <2>12. QED
    BY ONLY TypeOK, cap \in Nat, <2>4, <2>6, <2>7, <2>9, <2>10, <2>11, WholeFrame
<1>4. QED
  BY <1>2, <1>3

(* After an orderly end, with nothing left, everything was got.            *)
LEMMA FramedComplete ==
    ASSUME TypeOK, kind \in Framed, DownFramed, ended = "fin", frames # 0, carry = <<>>,
           wire = <<>> \/ (first /\ wire = Prelude(kind))
    PROVE  Len(got) = sent
<1>1. PICK T, pos, base, m, limit : Streamed(T, pos, base) /\ Reading(T, pos, base, m, limit)
  BY DEF DownFramed
<1>2. /\ m \in Nat /\ frames \in Nat /\ m <= frames /\ limit \in Nat /\ remain \in Nat
      /\ pos[m] \in Nat /\ base[m] \in Nat /\ remain <= pos[m] /\ remain <= base[m]
  BY <1>1, ReaderHere
<1>3. under \in Seq(Token) /\ wire \in Seq(Token) /\ Len(under) \in Nat /\ Len(wire) \in Nat
  BY DEF TypeOK
<1>4. pos[m] - remain + Len(under) + Len(wire) = limit /\ limit = pos[frames]
  BY <1>1 DEF Reading, OnWire
<1>5. /\ kind \in {"tls", "chunk", "aead"} => (first <=> m = 0)
      /\ kind \notin Ssr => Len(under) = 0
      /\ kind \in Ssr \cup {"chunk", "aead"} => remain = 0
  <2>1. /\ kind \in {"tls", "chunk", "aead"} => (first <=> m = 0)
        /\ kind \notin Ssr => under = <<>>
        /\ kind \in Ssr \cup {"chunk", "aead"} => remain = 0
    BY <1>1 DEF Reading, FieldsAt
  <2>2. QED
    BY <2>1
<1>6. ASSUME m < frames PROVE FALSE
  <2>1. PICK low \in Nat, high \in Nat, from \in Nat, n \in Nat : FrameFrom(T, pos, base, m, low, high, from, n)
    BY <1>1, <1>2, <1>6, FrameHere
  <2>2. low = pos[m] /\ high = pos[m + 1] /\ low + n < high /\ high <= limit
        /\ HeaderOf(T, low + Before(m), high - n, n, m)
    BY <1>4, <2>1 DEF FrameFrom
  <2>3. CASE wire = <<>>
    <3>1. low - remain + Len(under) + 0 = limit
      BY <1>4, <2>2, <2>3
    <3>2. CASE kind \in Ssr
      <4>1. remain = 0 /\ low + Len(under) < high
        BY <1>1, <1>5, <1>6, <2>2, <3>2 DEF Reading
      <4>2. QED
        BY <1>2, <1>3, <2>2, <3>1, <4>1
    <3>3. CASE kind \notin Ssr
      BY <1>2, <1>5, <2>2, <3>1, <3>3
    <3>4. QED
      BY <3>2, <3>3
  <2>4. CASE wire # <<>>
    <3>1. first /\ wire = Prelude(kind)
      BY <2>4
    <3>2. kind \in {"tls", "chunk", "aead"}
      <4>1. kind \in {"tls", "chunk", "aead"} \/ kind \in {"gun", "ws", "mux"} \cup Ssr
        BY DEF Framed
      <4>2. kind \in {"gun", "ws", "mux"} \cup Ssr => Prelude(kind) = <<>>
        BY Zenon DEF Prelude, Ssr
      <4>3. QED
        BY <2>4, <3>1, <4>1, <4>2
    <3>3. m = 0 /\ Len(under) = 0
      BY <1>5, <3>1, <3>2 DEF Ssr
    <3>4. Before(0) = 1 /\ Len(wire) = 1
      <4>1. Before(0) = 1
        BY <3>2, FrontIs DEF AllKinds
      <4>2. QED
        BY <3>1, <4>1 DEF Before
    <3>5. low = 0 /\ remain = 0
      BY <1>1, <2>2, <3>3 DEF Streamed, Reading
    <3>6. limit = 1
      <4>1. pos[m] = 0
        BY <2>2, <3>5
      <4>2. 0 - 0 + 0 + 1 = limit
        BY <1>4, <3>3, <3>4, <3>5, <4>1
      <4>3. QED
        BY <4>2
    <3>7. HeaderOf(T, 1, high - n, n, 0)
      BY <2>2, <3>3, <3>4, <3>5
    <3>8. high - n > 1
      BY <3>2, <3>7 DEF HeaderOf, Ssr
    <3>9. QED
      BY <2>2, <3>6, <3>8
  <2>5. QED
    BY <2>3, <2>4
<1>7. m = frames
  BY <1>2, <1>6
<1>8. remain = 0
  <2>1. remain = Len(under) + Len(wire)
    <3>1. PICK p \in Nat, u \in Nat, w \in Nat : p = pos[m] /\ u = Len(under) /\ w = Len(wire)
      BY <1>2, <1>3
    <3>2. p - remain + u + w = p
      BY <1>4, <1>7, <3>1
    <3>3. PICK r \in Nat : r = remain
      BY <1>2
    <3>4. r = u + w
      BY <3>2, <3>3
    <3>5. QED
      BY <3>1, <3>3, <3>4
  <2>2. CASE m = 0
    BY <1>1, <2>2 DEF Reading
  <2>3. CASE kind \in Ssr
    BY <1>5, <2>3
  <2>4. CASE m # 0 /\ kind \notin Ssr
    <3>1. Len(under) = 0
      BY <1>5, <2>4
    <3>2. wire = <<>> \/ wire = Prelude(kind)
      OBVIOUS
    <3>3. CASE wire = <<>>
      BY <2>1, <3>1, <3>3
    <3>4. CASE wire # <<>>
      <4>1. first /\ wire = Prelude(kind)
        BY <3>4
      <4>2. kind \notin {"tls", "chunk", "aead"}
        BY <1>5, <2>4, <4>1
      <4>3. kind \in {"gun", "ws", "mux"} \cup Ssr => Prelude(kind) = <<>>
        BY Zenon DEF Prelude, Ssr
      <4>4. kind \in {"gun", "ws", "mux"} \cup Ssr
        BY <4>2 DEF Framed
      <4>5. QED
        BY <3>4, <4>1, <4>3, <4>4
    <3>5. QED
      BY <3>3, <3>4
  <2>5. QED
    BY <2>2, <2>3, <2>4
<1>9. Len(got) + Len(carry) = base[m] - remain /\ Len(got) \in Nat
  BY <1>1 DEF Reading, Given, Numbered
<1>10. base[m] = sent
  BY <1>1, <1>7 DEF Streamed
<1>11. Len(carry) = 0
  OBVIOUS
<1>12. QED
  BY <1>2, <1>8, <1>9, <1>10, <1>11

(* The wrappers that put nothing between the bytes: what stands before the *)
(* first of them, as long as the reader has not met it.                    *)
Ahead == IF first THEN Len(Prelude(kind)) ELSE 0

DownRaw ==
    /\ Numbered(got, 0) /\ Numbered(carry, Len(got))
    /\ kind \in {"vmess_http", "snell"} => carry = <<>>
    /\ first => got = <<>> /\ carry = <<>>
    /\ frames = 0 => first /\ wire = <<>> /\ sent = 0
    /\ frames # 0 /\ ended # "cut" => Len(got) + Len(carry) + Len(wire) = sent + Ahead
    /\ \A i \in 1..Len(wire) :
         wire[i] = IF i <= Ahead THEN Prelude(kind)[i]
                   ELSE Tok("byte", Len(got) + Len(carry) + (i - Ahead))

LEMMA AheadIs ==
    ASSUME kind \in RawKinds
    PROVE  /\ kind \in AllKinds /\ Prelude(kind) \in Seq(Token) /\ Len(Prelude(kind)) \in {1, 2}
           /\ Ahead \in Nat /\ Ahead <= Len(Prelude(kind)) /\ (first => Ahead # 0) /\ (~first => Ahead = 0)
           /\ kind \in {"http", "http_simple", "vmess_http"} => Len(Prelude(kind)) = 2
           /\ kind = "snell" => Len(Prelude(kind)) = 1
<1>1. kind \in AllKinds
  BY DEF RawKinds, AllKinds
<1>2. /\ kind = "snell" => Len(Prelude(kind)) = 1
      /\ kind \in {"http", "http_simple", "vmess_http"} => Len(Prelude(kind)) = 2
      /\ Prelude(kind) \in Seq(Token)
  BY <1>1, 0 \in Nat, FrontIs
<1>3. Len(Prelude(kind)) \in {1, 2}
  BY <1>2 DEF RawKinds
<1>4. PICK l : l = Len(Prelude(kind))
  OBVIOUS
<1>5. Ahead = IF first THEN l ELSE 0
  BY <1>4 DEF Ahead
<1>6. l \in {1, 2} /\ Ahead \in Nat /\ Ahead <= l /\ (first => Ahead # 0) /\ (~first => Ahead = 0)
  BY <1>3, <1>4, <1>5
<1>7. QED
  BY <1>1, <1>2, <1>4, <1>6

LEMMA RawIs ==
    ASSUME TypeOK, kind \in RawKinds, DownRaw
    PROVE  /\ got \in Seq(Token) /\ carry \in Seq(Token) /\ wire \in Seq(Token)
           /\ Len(got) \in Nat /\ Len(carry) \in Nat /\ Len(wire) \in Nat
           /\ sent \in Nat /\ frames \in Nat
BY DEF TypeOK

(* A read that stops at some token behind what is ahead.                   *)
LEMMA RawMoves ==
    ASSUME TypeOK, kind \in RawKinds, DownRaw, NEW n \in Nat, n # 0, Ahead <= n, n <= Len(wire),
           wire' = SubSeq(wire, n + 1, Len(wire)), first' = FALSE,
           Numbered(got', 0), Numbered(carry', Len(got')),
           Len(got') + Len(carry') = Len(got) + Len(carry) + (n - Ahead),
           kind \in {"vmess_http", "snell"} => carry' = <<>>,
           UNCHANGED <<kind, sent, frames, ended>>
    PROVE  DownRaw'
<1>1. /\ wire \in Seq(Token) /\ Len(got) \in Nat /\ Len(carry) \in Nat /\ Len(wire) \in Nat
      /\ sent \in Nat /\ frames \in Nat
  BY RawIs
<1>2. PICK g \in Nat, w \in Nat, a \in Nat : g = Len(got) + Len(carry) /\ w = Len(wire) /\ a = Ahead
  BY <1>1, AheadIs
<1>15. a <= n /\ n <= w
  BY <1>2
<1>3. wire' \in Seq(Token) /\ Len(wire') = w - n /\ \A i \in 1..(w - n) : wire'[i] = wire[n + i]
  BY <1>1, <1>2, PartIs
<1>4. frames # 0
  <2> SUFFICES ASSUME frames = 0 PROVE FALSE
    OBVIOUS
  <2>1. wire = <<>>
    BY DEF DownRaw
  <2>2. QED
    BY <2>1
<1>5. Ahead' = 0
  BY DEF Ahead
<1>6. PICK h \in Nat : h = Len(got') + Len(carry') /\ h = g + (n - a)
  BY <1>2
<1>7. ASSUME NEW i \in 1..(w - n) PROVE wire'[i] = Tok("byte", h + (i - 0))
  <2>1. n + i \in 1..w /\ ~(n + i <= a) /\ g + (n + i - a) = h + (i - 0)
    BY <1>6, <1>15
  <2>2. wire[n + i] = Tok("byte", g + (n + i - a))
    <3>1. n + i \in 1..Len(wire) /\ ~(n + i <= Ahead)
      BY <1>2, <2>1
    <3>4. \A k \in 1..Len(wire) :
            wire[k] = IF k <= Ahead THEN Prelude(kind)[k]
                      ELSE Tok("byte", Len(got) + Len(carry) + (k - Ahead))
      BY DEF DownRaw
    <3>2. wire[n + i] = Tok("byte", Len(got) + Len(carry) + ((n + i) - Ahead))
      <4>1. PICK j : j = n + i
        OBVIOUS
      <4>2. j \in 1..Len(wire) /\ ~(j <= Ahead)
        BY <3>1, <4>1
      <4>3. wire[j] = IF j <= Ahead THEN Prelude(kind)[j]
                      ELSE Tok("byte", Len(got) + Len(carry) + (j - Ahead))
        BY ONLY <3>4, <4>2
      <4>4. wire[j] = Tok("byte", Len(got) + Len(carry) + (j - Ahead))
        BY ONLY <4>2, <4>3
      <4>5. QED
        BY <4>1, <4>4, Zenon
    <3>3. QED
      BY <1>2, <3>2
  <2>3. QED
    BY <1>3, <2>1, <2>2
<1>8. ended # "cut" => h + (w - n) = sent + 0
  <2> SUFFICES ASSUME ended # "cut" PROVE h + (w - n) = sent + 0
    OBVIOUS
  <2>1. Len(got) + Len(carry) + Len(wire) = sent + Ahead
    BY <1>4 DEF DownRaw
  <2>2. g + w = sent + a
    BY <1>2, <2>1
  <2>3. PICK t \in Nat : t = sent
    BY <1>1
  <2>4. g + w = t + a /\ h = g + (n - a)
    BY <1>6, <2>2, <2>3
  <2>5. h + (w - n) = t + 0
    BY ONLY <2>4, a \in Nat, g \in Nat, w \in Nat, n \in Nat, t \in Nat
  <2>6. QED
    BY <2>3, <2>5
<1>9. \A i \in 1..Len(wire') : wire'[i] = Tok("byte", Len(got') + Len(carry') + (i - Ahead'))
  BY <1>3, <1>5, <1>6, <1>7
<1>10. (\A i \in 1..Len(wire) :
         wire[i] = IF i <= Ahead THEN Prelude(kind)[i]
                   ELSE Tok("byte", Len(got) + Len(carry) + (i - Ahead)))'
  <2>1. \A i \in 1..Len(wire') : ~(i <= Ahead')
    BY <1>3, <1>5
  <2>2. QED
    BY <1>9, <2>1
<1>11. ended' # "cut" => Len(got') + Len(carry') + Len(wire') = sent' + Ahead'
  <2>1. ended' = ended /\ sent' = sent
    OBVIOUS
  <2>2. QED
    BY <1>3, <1>5, <1>6, <1>8, <2>1
<1>12. frames' # 0 /\ first' = FALSE /\ (kind' \in {"vmess_http", "snell"} => carry' = <<>>)
  BY <1>4
<1>13. Numbered(got, 0)' /\ Numbered(carry, Len(got))'
  BY DEF Numbered
<1>14. QED
  BY <1>10, <1>11, <1>12, <1>13 DEF DownRaw

LEMMA RawDelivered ==
    ASSUME TypeOK, kind \in RawKinds, DownRaw, carry = <<>>, NEW skip, skip = Ahead, NEW n \in Nat, n # 0,
           Deliver(skip, n), first' = FALSE, UNCHANGED <<kind, sent, frames, ended, carry>>
    PROVE  DownRaw'
<1>1. /\ wire \in Seq(Token) /\ Len(got) \in Nat /\ Len(carry) \in Nat /\ Len(wire) \in Nat
      /\ sent \in Nat /\ frames \in Nat
  BY RawIs
<1>2. PICK g \in Nat, w \in Nat, a \in Nat : g = Len(got) /\ w = Len(wire) /\ a = skip
  BY <1>1, AheadIs
<1>3. a + n <= w /\ wire' = SubSeq(wire, a + n + 1, w)
  BY <1>2 DEF Deliver
<1>4. ASSUME NEW i \in 1..n PROVE wire[a + i] = Tok("byte", g + i)
  <2>1. a + i \in 1..w /\ ~(a + i <= a) /\ a + i - a = i /\ Len(carry) = 0
    BY <1>3
  <2>2. wire[a + i] = Tok("byte", g + Len(carry) + (a + i - a))
    BY <1>2, <2>1 DEF DownRaw
  <2>3. g + Len(carry) + (a + i - a) = g + i
    BY <2>1
  <2>4. QED
    BY <2>2, <2>3
<1>5. Numbered(got', 0) /\ Len(got') = g + n
  <2>1. Numbered(got, 0)
    BY DEF DownRaw
  <2>2. \A i \in 1..n : wire[a + i] = Tok("byte", Len(got) + i)
    BY <1>2, <1>4
  <2>3. Deliver(a, n)
    BY <1>2
  <2>4. Numbered(got', 0) /\ Len(got') = Len(got) + n
    BY <1>1, <2>1, <2>2, <2>3, DeliverNumbered
  <2>5. QED
    BY <1>2, <2>4
<1>6. carry' = <<>> /\ Len(carry') = 0 /\ Len(carry) = 0
  OBVIOUS
<1>7. Numbered(carry', Len(got'))
  BY <1>6 DEF Numbered
<1>8. PICK y \in Nat : y = a + n
  OBVIOUS
<1>9. y # 0 /\ Ahead <= y /\ y <= Len(wire) /\ wire' = SubSeq(wire, y + 1, Len(wire))
  BY <1>2, <1>3, <1>8
<1>10. Len(got') + Len(carry') = Len(got) + Len(carry) + (y - Ahead)
  <2>1. g + n + 0 = g + 0 + (y - a)
    BY <1>8
  <2>2. QED
    BY <1>2, <1>5, <1>6, <2>1
<1>11. TypeOK /\ kind \in RawKinds /\ DownRaw /\ first' = FALSE /\ UNCHANGED <<kind, sent, frames, ended>>
  OBVIOUS
<1>12. QED
  BY ONLY <1>5, <1>6, <1>7, <1>8, <1>9, <1>10, <1>11, RawMoves

LEMMA RawCarry ==
    ASSUME TypeOK, kind \in RawKinds, DownRaw, NEW cap \in Nat, ReadCarry(cap)
    PROVE  DownRaw'
<1>1. carry # <<>> /\ DeliverBuffered(carry, cap)
  BY DEF ReadCarry
<1>2. UNCHANGED <<kind, sent, frames, ended, first, remain, wire, under, count>>
  BY DEF ReadCarry, Kept, peer
<1>3. /\ Len(got) \in Nat /\ Len(carry) \in Nat /\ Numbered(got, 0) /\ Numbered(carry, Len(got))
  BY RawIs DEF DownRaw
<1>4. Numbered(got', 0) /\ Numbered(carry', Len(got')) /\ Len(got') + Len(carry') = Len(got) + Len(carry)
  BY <1>1, <1>3, BufferNumbered
<1>5. Ahead' = Ahead /\ Prelude(kind)' = Prelude(kind)
  BY <1>2 DEF Ahead, Prelude
<1>6. ~first /\ kind \notin {"vmess_http", "snell"}
  BY <1>1 DEF DownRaw
<1>7. PICK g : g = Len(got) + Len(carry) /\ g = Len(got') + Len(carry')
  BY <1>4
<1>8. \A i \in 1..Len(wire) : wire[i] = IF i <= Ahead THEN Prelude(kind)[i] ELSE Tok("byte", g + (i - Ahead))
  BY <1>7 DEF DownRaw
<1>9. frames # 0 /\ ended # "cut" => g + Len(wire) = sent + Ahead
  BY <1>7 DEF DownRaw
<1>10. (\A i \in 1..Len(wire) :
         wire[i] = IF i <= Ahead THEN Prelude(kind)[i]
                   ELSE Tok("byte", Len(got) + Len(carry) + (i - Ahead)))'
  <2>1. wire' = wire
    BY <1>2
  <2>2. QED
    BY <1>5, <1>7, <1>8, <2>1
<1>11. (frames # 0 /\ ended # "cut" => Len(got) + Len(carry) + Len(wire) = sent + Ahead)'
  BY <1>2, <1>5, <1>7, <1>9
<1>12. frames # 0
  BY <1>6 DEF DownRaw
<1>13. Numbered(got, 0)' /\ Numbered(carry, Len(got))'
  BY <1>4 DEF Numbered
<1>14. QED
  BY <1>2, <1>6, <1>10, <1>11, <1>12, <1>13 DEF DownRaw

LEMMA RawSegment ==
    ASSUME TypeOK, kind \in {"http", "http_simple"}, DownRaw, NEW cap \in Nat, first, carry = <<>>,
           ReadFirstSegment(cap), ~Fail
    PROVE  DownRaw'
<1>1. kind \in RawKinds /\ kind \in AllKinds
  BY DEF RawKinds, AllKinds
<1>2. /\ wire \in Seq(Token) /\ Len(got) \in Nat /\ Len(carry) \in Nat /\ Len(wire) \in Nat
      /\ sent \in Nat /\ frames \in Nat
  BY <1>1, RawIs
<1>3. PICK n \in 1..Len(wire) :
          /\ \E i \in 1..n : wire[i].t = "end"
          /\ first' = FALSE
          /\ DeliverBuffered(SubSeq(wire, Len(Prelude(kind)) + 1, n), cap)
          /\ wire' = SubSeq(wire, n + 1, Len(wire))
          /\ UNCHANGED <<peer, remain, under, opts, count, over, astray>>
  BY DEF ReadFirstSegment
<1>4. /\ Len(Prelude(kind)) = 2 /\ Prelude(kind)[1] = Tok("head", 0)
  BY <1>1, 0 \in Nat, FrontIs
<1>5. Ahead = 2 /\ got = <<>> /\ Numbered(got, 0)
  BY <1>4 DEF Ahead, DownRaw
<1>6. PICK w \in Nat : w = Len(wire)
  BY <1>2
<1>7. n \in Nat /\ n <= w /\ n # 0
  BY <1>3, <1>6
<1>8. \A i \in 1..w : i > 2 => wire[i] = Tok("byte", 0 + (i - 2))
  <2>1. ASSUME NEW i \in 1..w, i > 2 PROVE wire[i] = Tok("byte", 0 + (i - 2))
    <3>1. wire[i] = Tok("byte", Len(got) + Len(carry) + (i - 2))
      BY <1>5, <1>6, <2>1 DEF DownRaw
    <3>2. Len(got) = 0 /\ Len(carry) = 0 /\ 0 + 0 + (i - 2) = 0 + (i - 2)
      BY <1>5
    <3>3. QED
      BY <3>1, <3>2
  <2>2. QED
    BY <2>1
<1>9. n >= 2
  <2> SUFFICES ASSUME n = 1 PROVE FALSE
    BY <1>7
  <2>1. wire[1].t = "end"
    BY <1>3
  <2>2. wire[1] = Prelude(kind)[1]
    BY <1>5, <1>6, <1>7 DEF DownRaw
  <2>3. QED
    BY <1>4, <2>1, <2>2 DEF Tok
<1>10. PICK buf : buf = SubSeq(wire, 2 + 1, n)
  OBVIOUS
<1>11. buf \in Seq(Token) /\ Len(buf) = n - 2 /\ \A i \in 1..(n - 2) : buf[i] = wire[2 + i]
  BY <1>2, <1>6, <1>7, <1>9, <1>10, PartIs
<1>12. Numbered(buf, Len(got))
  <2>1. ASSUME NEW i \in 1..(n - 2) PROVE buf[i] = Tok("byte", 0 + i)
    <3>1. 2 + i \in 1..w /\ 2 + i > 2 /\ 0 + (2 + i - 2) = 0 + i
      BY <1>7
    <3>2. wire[2 + i] = Tok("byte", 0 + (2 + i - 2))
      BY <1>8, <3>1
    <3>3. QED
      BY <1>11, <3>1, <3>2
  <2>2. Len(got) = 0
    BY <1>5
  <2>3. QED
    BY <1>11, <2>1, <2>2 DEF Numbered
<1>13. DeliverBuffered(buf, cap)
  BY <1>3, <1>4, <1>10
<1>14. Numbered(got', 0) /\ Numbered(carry', Len(got')) /\ Len(got') + Len(carry') = Len(got) + Len(buf)
  BY <1>5, <1>12, <1>13, BufferNumbered
<1>15. Len(got') + Len(carry') = Len(got) + Len(carry) + (n - Ahead)
  <2>1. Len(carry) = 0 /\ Len(got) + (n - 2) = Len(got) + 0 + (n - 2)
    BY <1>2, <1>7
  <2>2. QED
    BY <1>5, <1>11, <1>14, <2>1
<1>16. UNCHANGED <<kind, sent, frames, ended>> /\ kind \notin {"vmess_http", "snell"}
  BY <1>3 DEF peer
<1>17. Ahead <= n /\ n <= Len(wire)
  BY <1>5, <1>6, <1>7, <1>9
<1>18. QED
  BY ONLY TypeOK, DownRaw, <1>1, <1>3, <1>7, <1>14, <1>15, <1>16, <1>17, RawMoves

(* Every Read of these wrappers.                                           *)
LEMMA RawReads ==
    ASSUME TypeOK, DownRaw, NEW cap \in Nat, ~Fail,
           HTTPObfsRead(cap) \/ HTTPSimpleRead(cap) \/ VmessHTTPRead(cap) \/ SnellRead(cap)
    PROVE  DownRaw'
<1>1. CASE HTTPObfsRead(cap) \/ HTTPSimpleRead(cap)
  <2>1. kind \in {"http", "http_simple"} /\ kind \in RawKinds
    BY <1>1 DEF HTTPObfsRead, HTTPSimpleRead, RawKinds
  <2>2. \/ ReadCarry(cap)
        \/ carry = <<>> /\ first /\ ReadFirstSegment(cap)
        \/ carry = <<>> /\ ~first /\ ReadRaw(cap) /\ UNCHANGED <<first, remain, carry>> /\ Kept
    BY <1>1 DEF HTTPObfsRead, HTTPSimpleRead
  <2>3. CASE ReadCarry(cap)
    BY <2>1, <2>3, RawCarry
  <2>4. CASE carry = <<>> /\ first /\ ReadFirstSegment(cap)
    BY <2>1, <2>4, RawSegment
  <2>5. CASE carry = <<>> /\ ~first /\ ReadRaw(cap) /\ UNCHANGED <<first, remain, carry>> /\ Kept
    <3>1. PICK n \in 1..Lower(cap, Len(wire)) : Deliver(0, n)
      BY <2>5 DEF ReadRaw
    <3>2. Len(wire) \in Nat
      BY DEF TypeOK
    <3>3. n \in Nat /\ n # 0
      BY <3>2, LowerIs
    <3>4. Ahead = 0
      BY <2>1, <2>5, AheadIs
    <3>5. UNCHANGED <<kind, sent, frames, ended, carry>> /\ first' = FALSE
      BY <2>5 DEF Kept, peer, TypeOK
    <3>6. QED
      BY <2>1, <2>5, <3>1, <3>3, <3>4, <3>5, RawDelivered
  <2>6. QED
    BY <2>2, <2>3, <2>4, <2>5
<1>2. CASE VmessHTTPRead(cap) \/ SnellRead(cap)
  <2>1. kind \in {"vmess_http", "snell"} /\ kind \in RawKinds
    BY <1>2 DEF VmessHTTPRead, SnellRead, RawKinds
  <2>2. carry = <<>> /\ Ahead \in Nat
    BY <2>1, AheadIs DEF DownRaw
  <2>3. PICK n \in 1..Lower(cap, Len(wire) - Ahead) : Deliver(Ahead, n)
    <3>1. CASE VmessHTTPRead(cap)
      BY <3>1 DEF VmessHTTPRead, Ahead
    <3>2. CASE SnellRead(cap)
      <4>1. kind = "snell" /\ Len(Prelude(kind)) = 1
        BY <2>1, <3>2, AheadIs DEF SnellRead
      <4>2. Ahead = IF first THEN 1 ELSE 0
        BY <4>1 DEF Ahead
      <4>3. QED
        BY <3>2, <4>2 DEF SnellRead
    <3>3. QED
      BY <1>2, <3>1, <3>2
  <2>4. Len(wire) \in Nat
    BY DEF TypeOK
  <2>5. n \in Nat /\ n # 0
    BY <2>2, <2>4, LowerIs
  <2>6. UNCHANGED <<kind, sent, frames, ended, carry>> /\ first' = FALSE
    BY <1>2 DEF VmessHTTPRead, SnellRead, Kept, peer
  <2>7. QED
    BY <2>1, <2>2, <2>3, <2>5, <2>6, RawDelivered
<1>3. QED
  BY <1>1, <1>2

LEMMA RawComplete ==
    ASSUME TypeOK, kind \in RawKinds, DownRaw, ended = "fin", frames # 0, carry = <<>>,
           wire = <<>> \/ (first /\ wire = Prelude(kind))
    PROVE  Len(got) = sent
<1>1. Len(got) \in Nat /\ Len(wire) \in Nat /\ sent \in Nat
  BY RawIs
<1>2. Len(carry) = 0 /\ Ahead \in Nat /\ (first => Ahead # 0 /\ Ahead = Len(Prelude(kind))) /\ (~first => Ahead = 0)
  BY AheadIs DEF Ahead
<1>3. Len(got) + Len(carry) + Len(wire) = sent + Ahead
  BY DEF DownRaw
<1>4. CASE first
  <2>1. Len(got) = 0
    BY <1>4 DEF DownRaw
  <2>2. CASE wire = <<>>
    BY <1>1, <1>2, <1>3, <1>4, <2>1, <2>2
  <2>3. CASE wire # <<>>
    <3>1. Len(wire) = Ahead
      BY <1>2, <1>4, <2>3
    <3>2. QED
      BY <1>1, <1>2, <1>3, <2>1, <3>1
  <2>4. QED
    BY <2>2, <2>3
<1>5. CASE ~first
  <2>1. Len(wire) = 0
    BY <1>5
  <2>2. QED
    BY <1>1, <1>2, <1>3, <1>5, <2>1
<1>6. QED
  BY <1>4, <1>5

(* A loop of the code is a recursive function: that there is one.  Stop    *)
(* are the points where it ends with val, next the point it goes on to,    *)
(* join what it makes of the result from there; rank goes down.            *)
Solves(P, rank, Stop, val, next, join, f, n) ==
    \A p \in P : rank[p] <= n =>
        f[p] = IF p \in Stop THEN val[p] ELSE join[<<p, f[next[p]]>>]

Descends(P, rank, Stop, next) ==
    /\ rank \in [P -> Nat] /\ Stop \in SUBSET P /\ next \in [P \ Stop -> P]
    /\ \A p \in P \ Stop : rank[next[p]] < rank[p]

LEMMA SolvedAlike ==
    ASSUME NEW P, NEW rank, NEW Stop, NEW val, NEW next, NEW join, Descends(P, rank, Stop, next),
           NEW f, NEW n \in Nat, Solves(P, rank, Stop, val, next, join, f, n),
           NEW g, NEW m \in Nat, Solves(P, rank, Stop, val, next, join, g, m)
    PROVE  \A p \in P : rank[p] <= n /\ rank[p] <= m => f[p] = g[p]
<1>4. /\ rank \in [P -> Nat] /\ Stop \in SUBSET P /\ next \in [P \ Stop -> P]
      /\ \A p \in P \ Stop : rank[next[p]] < rank[p]
  BY DEF Descends
<1> DEFINE Odd == {k \in Nat : \E p \in P : k = rank[p] /\ k <= n /\ k <= m /\ f[p] # g[p]}
<1>1. CASE Odd = {}
  <2>1. \A p \in P : rank[p] \in Nat
    BY <1>4
  <2>2. QED
    BY <1>1, <2>1
<1>2. CASE Odd # {}
  <2>1. Odd \in SUBSET Nat
    OBVIOUS
  <2>2. PICK k \in Odd : \A j \in Odd : k <= j
    <3> HIDE DEF Odd
    <3>1. QED
      BY <1>2, <2>1, Least
  <2>3. PICK p \in P : k = rank[p] /\ k <= n /\ k <= m /\ f[p] # g[p]
    BY <2>2
  <2>4. p \notin Stop
    BY <2>3 DEF Solves
  <2>5. PICK r \in P : r = next[p] /\ rank[r] < rank[p] /\ rank[r] \in Nat
    BY <1>4, <2>4
  <2>6. rank[r] <= n /\ rank[r] <= m /\ k \in Nat
    BY <2>3, <2>5
  <2>7. f[r] = g[r]
    <3> SUFFICES ASSUME f[r] # g[r] PROVE FALSE
      OBVIOUS
    <3>1. rank[r] \in Odd
      BY <2>5, <2>6
    <3>2. k <= rank[r]
      BY <2>2, <3>1
    <3>3. QED
      BY <2>3, <2>5, <2>6, <3>2
  <2>8. f[p] = join[<<p, f[r]>>] /\ g[p] = join[<<p, g[r]>>]
    BY <2>3, <2>4, <2>5 DEF Solves
  <2>9. QED
    BY <2>3, <2>7, <2>8
<1>3. QED
  BY <1>1, <1>2

LEMMA SolvedUpTo ==
    ASSUME NEW P, NEW rank, NEW Stop, NEW next, Descends(P, rank, Stop, next), NEW V,
           NEW val \in [P -> V], NEW join \in [P \X V -> V], NEW n \in Nat
    PROVE  \E f \in [P -> V] : Solves(P, rank, Stop, val, next, join, f, n)
<1>4. /\ rank \in [P -> Nat] /\ Stop \in SUBSET P /\ next \in [P \ Stop -> P]
      /\ \A p \in P \ Stop : rank[next[p]] < rank[p]
  BY DEF Descends
<1> DEFINE Not == {k \in Nat : ~ \E f \in [P -> V] : Solves(P, rank, Stop, val, next, join, f, k)}
<1>1. CASE Not = {}
  BY <1>1
<1>2. CASE Not # {}
  <2>1. Not \in SUBSET Nat
    OBVIOUS
  <2>2. PICK k \in Not : \A j \in Not : k <= j
    <3> HIDE DEF Not
    <3>1. QED
      BY <1>2, <2>1, Least
  <2>3. CASE k = 0
    <3>1. ASSUME NEW p \in P, rank[p] <= 0 PROVE p \in Stop
      <4> SUFFICES ASSUME p \notin Stop PROVE FALSE
        OBVIOUS
      <4>1. next[p] \in P /\ rank[next[p]] < rank[p]
        BY <1>4
      <4>2. rank[p] \in Nat /\ rank[next[p]] \in Nat
        BY <1>4, <4>1
      <4>3. QED
        BY <3>1, <4>1, <4>2
    <3>2. Solves(P, rank, Stop, val, next, join, val, 0)
      BY <3>1 DEF Solves
    <3>3. QED
      BY <2>2, <2>3, <3>2
  <2>4. CASE k # 0
    <3>1. PICK i \in Nat : i = k - 1
      BY <2>4
    <3>2. PICK f \in [P -> V] : Solves(P, rank, Stop, val, next, join, f, i)
      <4>1. i \notin Not
        <5> SUFFICES ASSUME i \in Not PROVE FALSE
          OBVIOUS
        <5>1. k <= i /\ k \in Nat
          BY <2>2
        <5>2. QED
          BY <3>1, <5>1
      <4>2. QED
        BY <4>1
    <3> DEFINE g == [p \in P |-> IF rank[p] <= i THEN f[p]
                                 ELSE IF p \in Stop THEN val[p] ELSE join[<<p, f[next[p]]>>]]
    <3>3. g \in [P -> V]
      <4>1. ASSUME NEW p \in P \ Stop PROVE join[<<p, f[next[p]]>>] \in V
        <5>1. f[next[p]] \in V
          BY <1>4
        <5>2. <<p, f[next[p]]>> \in P \X V
          BY <5>1
        <5>3. QED
          BY <5>2
      <4>2. QED
        BY <4>1
    <3>4. ASSUME NEW p \in P, rank[p] <= k
          PROVE  g[p] = IF p \in Stop THEN val[p] ELSE join[<<p, g[next[p]]>>]
      <4>1. CASE p \in Stop
        BY <3>2, <4>1 DEF Solves
      <4>2. CASE p \notin Stop
        <5>1. next[p] \in P /\ rank[next[p]] \in Nat /\ rank[p] \in Nat /\ rank[next[p]] < rank[p]
          BY <1>4, <4>2
        <5>2. rank[next[p]] <= i
          BY <3>1, <3>4, <5>1
        <5>3. g[next[p]] = f[next[p]]
          BY <5>1, <5>2
        <5>4. CASE rank[p] <= i
          <6>1. f[p] = join[<<p, f[next[p]]>>]
            BY <3>2, <4>2, <5>4 DEF Solves
          <6>2. QED
            BY <4>2, <5>3, <5>4, <6>1
        <5>5. CASE ~(rank[p] <= i)
          BY <4>2, <5>3, <5>5
        <5>6. QED
          BY <5>4, <5>5
      <4>3. QED
        BY <4>1, <4>2
    <3> HIDE DEF g
    <3>5. Solves(P, rank, Stop, val, next, join, g, k)
      BY <3>4 DEF Solves
    <3>6. QED
      BY <2>2, <3>3, <3>5
  <2>5. QED
    BY <2>3, <2>4
<1>3. QED
  BY <1>1, <1>2

Runs(P, Stop, next, V, val, join, f) ==
    /\ f \in [P -> V]
    /\ \A p \in P : f[p] = IF p \in Stop THEN val[p] ELSE join[<<p, f[next[p]]>>]

Gives(P, V, val, join) == val \in [P -> V] /\ join \in [P \X V -> V]

LEMMA LoopExists ==
    ASSUME NEW P, NEW rank, NEW Stop, NEW next, Descends(P, rank, Stop, next),
           NEW V, NEW val, NEW join, Gives(P, V, val, join)
    PROVE  \E f : Runs(P, Stop, next, V, val, join, f)
<1>6. val \in [P -> V] /\ join \in [P \X V -> V]
  BY DEF Gives
<1> DEFINE Sol(n) == CHOOSE f \in [P -> V] : Solves(P, rank, Stop, val, next, join, f, n)
           f == [p \in P |-> Sol(rank[p])[p]]
<1>1. \A n \in Nat : Sol(n) \in [P -> V] /\ Solves(P, rank, Stop, val, next, join, Sol(n), n)
  <2>1. \A n \in Nat : \E g \in [P -> V] : Solves(P, rank, Stop, val, next, join, g, n)
    BY <1>6, SolvedUpTo
  <2>2. QED
    BY <2>1
<1> HIDE DEF Sol
<1>5. /\ rank \in [P -> Nat] /\ Stop \in SUBSET P /\ next \in [P \ Stop -> P]
      /\ \A p \in P \ Stop : rank[next[p]] < rank[p]
  BY DEF Descends
<1>2. f \in [P -> V]
  BY <1>1, <1>5
<1>3. ASSUME NEW p \in P PROVE f[p] = IF p \in Stop THEN val[p] ELSE join[<<p, f[next[p]]>>]
  <2>1. PICK n \in Nat : n = rank[p]
    BY <1>5
  <2>2. f[p] = Sol(n)[p] /\ Solves(P, rank, Stop, val, next, join, Sol(n), n)
    BY <1>1, <2>1
  <2>3. CASE p \in Stop
    <3>1. PICK s : s = Sol(n)
      OBVIOUS
    <3>2. Solves(P, rank, Stop, val, next, join, s, n) /\ f[p] = s[p]
      BY <2>2, <3>1
    <3>3. rank[p] <= n
      BY <2>1
    <3>4. QED
      BY <2>3, <3>2, <3>3 DEF Solves
  <2>4. CASE p \notin Stop
    <3>1. PICK r \in P : r = next[p]
      BY <1>5, <2>4
    <3>2. PICK m \in Nat : m = rank[r] /\ m < n
      BY <1>5, <2>1, <2>4, <3>1
    <3>3. f[r] = Sol(m)[r] /\ Solves(P, rank, Stop, val, next, join, Sol(m), m)
      BY <1>1, <3>2
    <3>4. Sol(m)[r] = Sol(n)[r]
      <4>1. rank[r] <= m /\ rank[r] <= n
        BY <3>2
      <4>2. PICK s, t : s = Sol(m) /\ t = Sol(n)
        OBVIOUS
      <4>3. Solves(P, rank, Stop, val, next, join, s, m) /\ Solves(P, rank, Stop, val, next, join, t, n)
        BY <2>2, <3>3, <4>2
      <4>4. \A w \in P : rank[w] <= m /\ rank[w] <= n => s[w] = t[w]
        <5>1. Descends(P, rank, Stop, next)
          OBVIOUS
        <5>2. QED
          BY ONLY m \in Nat, n \in Nat, <1>5, <4>3, <5>1, SolvedAlike
      <4>5. QED
        BY <4>1, <4>2, <4>4
    <3>5. Sol(n)[p] = join[<<p, Sol(n)[r]>>]
      BY <2>1, <2>2, <2>4, <3>1 DEF Solves
    <3>6. QED
      BY <2>2, <2>4, <3>1, <3>3, <3>4, <3>5
  <2>5. QED
    BY <2>3, <2>4
<1> HIDE DEF f
<1>4. Runs(P, Stop, next, V, val, join, f)
  BY <1>2, <1>3 DEF Runs
<1>7. QED
  BY <1>4

(* The loop of the decoders: what it makes of a frame whose payload begins *)
(* at `data`.                                                              *)
Decoded == [dst : Seq(Token), left : Seq(Token), id : Nat, ok : BOOLEAN]
Places(src) == (0..Len(src)) \X Nat

TurnAt(src, f, ids, least, data, i, id) ==
    LET to == i + 2 + src[i + 2].v
        rest == f[<<to, id + 1>>] IN
    IF i + 2 > Len(src) \/ to > Len(src)
      THEN [dst |-> <<>>, left |-> SubSeq(src, i + 1, Len(src)), id |-> id, ok |-> TRUE]
    ELSE IF src[i + 2].v < least \/ (ids /\ src[i + 1].v # id)
      THEN [dst |-> <<>>, left |-> <<>>, id |-> id, ok |-> FALSE]
    ELSE [dst |-> SubSeq(src, data, to) \o rest.dst,
          left |-> rest.left, id |-> rest.id, ok |-> rest.ok]

LEMMA AnyPart ==
    ASSUME NEW s \in Seq(Token), NEW a \in Nat, a # 0, NEW b \in Nat, b <= Len(s)
    PROVE  SubSeq(s, a, b) \in Seq(Token)
<1>1. CASE a <= b
  <2>1. PICK m \in Nat : m = a - 1
    OBVIOUS
  <2>2. m + 1 = a /\ m <= b
    BY <1>1, <2>1
  <2>3. SubSeq(s, m + 1, b) \in Seq(Token)
    BY <2>2, PartIs
  <2>4. QED
    BY <2>2, <2>3
<1>2. CASE ~(a <= b)
  <2>1. b < a /\ a \in Int /\ b \in Int
    BY <1>2
  <2>2. SubSeq(s, a, b) = <<>>
    BY <2>1, SubSeqEmpty
  <2>3. QED
    BY <2>2
<1>3. QED
  BY <1>1, <1>2

BeginsAt(src, least, data) ==
    \A i \in 0..Len(src), id \in Nat :
        i + 2 <= Len(src) /\ i + 2 + src[i + 2].v <= Len(src) /\ ~(src[i + 2].v < least) =>
            data[<<i, id>>] \in Nat /\ data[<<i, id>>] # 0

Turning(src, f, ids, least, data) ==
    /\ f \in [Places(src) -> Decoded]
    /\ \A i \in 0..Len(src), id \in Nat :
           f[<<i, id>>] = TurnAt(src, f, ids, least, data[<<i, id>>], i, id)

LEMMA TurnsExist ==
    ASSUME NEW src \in Seq(Token), NEW ids \in BOOLEAN, NEW least \in Nat, NEW data,
           BeginsAt(src, least, data)
    PROVE  \E f : Turning(src, f, ids, least, data)
<1>1. PICK l \in Nat : l = Len(src)
  OBVIOUS
<1> DEFINE P == (0..l) \X Nat
           behind(p) == p[1] + 2 + src[p[1] + 2].v
           waits(p) == p[1] + 2 > l \/ behind(p) > l
           fails(p) == src[p[1] + 2].v < least \/ (ids /\ src[p[1] + 1].v # p[2])
           Stop == {p \in P : waits(p) \/ fails(p)}
           rank == [p \in P |-> l - p[1]]
           val == [p \in P |-> IF waits(p)
                                 THEN [dst |-> <<>>, left |-> SubSeq(src, p[1] + 1, l), id |-> p[2], ok |-> TRUE]
                                 ELSE [dst |-> <<>>, left |-> <<>>, id |-> p[2], ok |-> FALSE]]
           next == [p \in P \ Stop |-> <<behind(p), p[2] + 1>>]
           join == [r \in P \X Decoded |->
                      IF r[1] \in Stop THEN r[2]
                      ELSE [dst |-> SubSeq(src, data[r[1]], behind(r[1])) \o r[2].dst,
                            left |-> r[2].left, id |-> r[2].id, ok |-> r[2].ok]]
<1>2. \A p \in P : p[1] \in 0..l /\ p[2] \in Nat /\ p = <<p[1], p[2]>>
  OBVIOUS
<1>3. \A p \in P : p[1] + 2 <= l => src[p[1] + 2].v \in Nat
  <2>1. ASSUME NEW p \in P, p[1] + 2 <= l PROVE src[p[1] + 2].v \in Nat
    <3>1. p[1] + 2 \in 1..Len(src)
      BY <1>1, <1>2, <2>1
    <3>2. src[p[1] + 2] \in Token
      BY <3>1
    <3>3. QED
      BY <3>2 DEF Token
  <2>2. QED
    BY <2>1
<1>4. ASSUME NEW p \in P \ Stop
      PROVE  /\ p[1] \in Nat /\ p[1] + 2 <= l /\ src[p[1] + 2].v \in Nat /\ behind(p) \in 0..l /\ behind(p) > p[1]
             /\ p[2] + 1 \in Nat /\ ~waits(p) /\ ~fails(p)
  <2>1. ~waits(p) /\ ~fails(p) /\ p[1] \in 0..l /\ p[2] \in Nat
    BY <1>2
  <2>2. p[1] + 2 <= l
    BY <2>1
  <2>3. src[p[1] + 2].v \in Nat
    BY <1>3, <2>2
  <2>4. behind(p) <= l
    BY <2>1, <2>3
  <2>6. p[1] \in Nat
    BY <2>1
  <2>7. behind(p) \in 0..l /\ behind(p) > p[1]
    BY ONLY <2>3, <2>4, <2>6, l \in Nat
  <2>5. QED
    BY <2>1, <2>2, <2>3, <2>7
<1>5. rank \in [P -> Nat]
  BY <1>2
<1>6. next \in [P \ Stop -> P]
  <2>1. ASSUME NEW p \in P \ Stop PROVE <<behind(p), p[2] + 1>> \in P
    BY <1>4
  <2> HIDE DEF P, Stop, behind
  <2>2. QED
    BY <2>1
<1>7. \A p \in P \ Stop : rank[next[p]] < rank[p]
  <2>1. ASSUME NEW p \in P \ Stop PROVE rank[next[p]] < rank[p]
    <3>1. PICK e \in 0..l : e = behind(p) /\ e > p[1] /\ p[1] \in Nat
      BY <1>4
    <3>2. next[p] = <<e, p[2] + 1>> /\ next[p] \in P
      BY <1>6, <3>1
    <3>3. rank[next[p]] = l - e
      BY <3>1, <3>2
    <3>4. rank[p] = l - p[1]
      OBVIOUS
    <3>5. QED
      BY <3>1, <3>3, <3>4
  <2>2. QED
    BY <2>1
<1>8. val \in [P -> Decoded]
  <2>1. ASSUME NEW p \in P PROVE val[p] \in Decoded
    <3>1. <<>> \in Seq(Token) /\ p[2] \in Nat
      BY <1>2
    <3>2. SubSeq(src, p[1] + 1, l) \in Seq(Token)
      <4>1. PICK a \in Nat : a = p[1] + 1 /\ a # 0
        BY <1>2
      <4>2. SubSeq(src, a, l) \in Seq(Token)
        BY <1>1, <4>1, AnyPart
      <4>3. QED
        BY <4>1, <4>2
    <3>3. QED
      BY <3>1, <3>2 DEF Decoded
  <2> HIDE DEF P, waits
  <2>2. QED
    BY <2>1
<1>9. join \in [P \X Decoded -> Decoded]
  <2>1. ASSUME NEW r \in P \X Decoded PROVE join[r] \in Decoded
    <3>1. r[1] \in P /\ r[2] \in Decoded
      OBVIOUS
    <3>2. CASE r[1] \in Stop
      BY <3>1, <3>2
    <3>3. CASE r[1] \notin Stop
      <4>1. PICK p \in P \ Stop : p = r[1]
        BY <3>1, <3>3
      <4>2. PICK e \in 0..l : e = behind(p)
        BY <1>4
      <4>3. data[p] \in Nat /\ data[p] # 0
        <5>1. p[1] \in 0..l /\ p[2] \in Nat /\ p = <<p[1], p[2]>>
          BY <1>2
        <5>2. p[1] + 2 <= l /\ p[1] + 2 + src[p[1] + 2].v <= l /\ ~(src[p[1] + 2].v < least)
          BY <1>4
        <5>3. data[<<p[1], p[2]>>] \in Nat /\ data[<<p[1], p[2]>>] # 0
          BY <1>1, <5>1, <5>2 DEF BeginsAt
        <5>4. QED
          BY <5>1, <5>3
      <4>4. SubSeq(src, data[p], e) \in Seq(Token)
        BY <1>1, <4>2, <4>3, AnyPart
      <4>5. r[2].dst \in Seq(Token) /\ r[2].left \in Seq(Token) /\ r[2].id \in Nat /\ r[2].ok \in BOOLEAN
        BY <3>1 DEF Decoded
      <4>6. SubSeq(src, data[p], e) \o r[2].dst \in Seq(Token)
        BY <4>4, <4>5, Joined
      <4>7. join[r] = [dst |-> SubSeq(src, data[p], e) \o r[2].dst,
                       left |-> r[2].left, id |-> r[2].id, ok |-> r[2].ok]
        BY <3>3, <4>1, <4>2
      <4>8. QED
        BY <4>5, <4>6, <4>7 DEF Decoded
    <3>4. QED
      BY <3>2, <3>3
  <2> HIDE DEF P, Stop, behind
  <2>2. QED
    BY <2>1
<1>10. PICK f \in [P -> Decoded] : \A p \in P : f[p] = IF p \in Stop THEN val[p] ELSE join[<<p, f[next[p]]>>]
  <2>1. Stop \in SUBSET P
    OBVIOUS
  <2> HIDE DEF P, Stop, rank, val, next, join
  <2>2. Descends(P, rank, Stop, next)
    BY <1>5, <1>6, <1>7, <2>1 DEF Descends
  <2>3. Gives(P, Decoded, val, join)
    BY <1>8, <1>9 DEF Gives
  <2>4. PICK f : Runs(P, Stop, next, Decoded, val, join, f)
    BY ONLY <2>2, <2>3, LoopExists
  <2>5. QED
    BY <2>4 DEF Runs
<1>11. ASSUME NEW i \in 0..l, NEW id \in Nat
       PROVE  f[<<i, id>>] = TurnAt(src, f, ids, least, data[<<i, id>>], i, id)
  <2>5. <<i, id>> \in P /\ <<i, id>>[1] = i /\ <<i, id>>[2] = id
    OBVIOUS
  <2>1. PICK p \in P : p = <<i, id>> /\ p[1] = i /\ p[2] = id
    <3> HIDE DEF P
    <3>1. QED
      BY <2>5
  <2>2. CASE p \in Stop
    <3>1. f[p] = val[p] /\ (waits(p) \/ fails(p))
      BY <1>10, <2>2
    <3>2. QED
      BY <1>1, <2>1, <3>1 DEF TurnAt
  <2>3. CASE p \notin Stop
    <3>1. f[p] = join[<<p, f[next[p]]>>] /\ next[p] = <<behind(p), id + 1>>
      BY <1>10, <2>1, <2>3
    <3>2. PICK e : e = behind(p)
      OBVIOUS
    <3>3. PICK g : g = f[<<e, id + 1>>]
      OBVIOUS
    <3>4. f[next[p]] \in Decoded
      BY <1>6, <1>10, <2>3
    <3>5. <<p, g>> \in P \X Decoded /\ f[p] = join[<<p, g>>]
      BY <3>1, <3>2, <3>3, <3>4
    <3>6. join[<<p, g>>] = [dst |-> SubSeq(src, data[p], e) \o g.dst,
                            left |-> g.left, id |-> g.id, ok |-> g.ok]
      BY <2>3, <3>2, <3>5
    <3>7. ~(i + 2 > l) /\ ~(e > l) /\ ~(src[i + 2].v < least \/ (ids /\ src[i + 1].v # id)) /\ e = i + 2 + src[i + 2].v
      BY <2>1, <2>3, <3>2
    <3>8. QED
      BY <1>1, <2>1, <3>3, <3>5, <3>6, <3>7 DEF TurnAt
  <2>4. QED
    BY <2>2, <2>3
<1>12. P = Places(src)
  BY <1>1 DEF Places
<1> HIDE DEF P
<1>13. \A i \in 0..Len(src), id \in Nat : f[<<i, id>>] = TurnAt(src, f, ids, least, data[<<i, id>>], i, id)
  BY <1>1, <1>11
<1>14. f \in [Places(src) -> Decoded]
  BY <1>10, <1>12
<1>15. Turning(src, f, ids, least, data)
  BY <1>13, <1>14 DEF Turning
<1>16. QED
  BY <1>15

Turns(src, f, ids, least, Data(_, _)) ==
    [p \in (0..Len(src)) \X Nat |->
          LET i == p[1]
              id == p[2]
              to == i + 2 + src[i + 2].v
              rest == f[<<to, id + 1>>] IN
          IF i + 2 > Len(src) \/ to > Len(src)
            THEN [dst |-> <<>>, left |-> SubSeq(src, i + 1, Len(src)), id |-> id, ok |-> TRUE]
          ELSE IF src[i + 2].v < least \/ (ids /\ src[i + 1].v # id)
            THEN [dst |-> <<>>, left |-> <<>>, id |-> id, ok |-> FALSE]
          ELSE [dst |-> SubSeq(src, Data(i, id), to) \o rest.dst,
                left |-> rest.left, id |-> rest.id, ok |-> rest.ok]]

(* Where the payload begins.                                               *)
PackedAt(src, i) == i + 4 + src[i + 3].v
ChainAt(i, id) == i + 3 + RandLength(id) + IF id = 0 THEN 1 ELSE 0

LEMMA SHA1Runs ==
    ASSUME NEW src \in Seq(Token)
    PROVE  \E f : /\ SHA1Decode(src) = f[<<0, count>>]
                  /\ \A i \in 0..Len(src), id \in Nat :
                        f[<<i, id>>] = TurnAt(src, f, FALSE, 1, PackedAt(src, i), i, id)
<1>1. PICK l \in Nat : l = Len(src)
  OBVIOUS
<1>2. PICK data : data = [p \in Places(src) |-> PackedAt(src, p[1])]
  OBVIOUS
<1>3. \A i \in 0..l, id \in Nat : <<i, id>> \in Places(src) /\ data[<<i, id>>] = PackedAt(src, i)
  BY <1>1, <1>2 DEF Places, PackedAt
<1>4. ASSUME NEW i \in 0..l, NEW id \in Nat, i + 2 <= l, i + 2 + src[i + 2].v <= l, ~(src[i + 2].v < 1)
      PROVE  data[<<i, id>>] \in Nat /\ data[<<i, id>>] # 0
  <2>1. src[i + 2].v \in Nat /\ src[i + 2].v # 0
    <3>1. i + 2 \in 1..Len(src)
      BY <1>1, <1>4
    <3>2. src[i + 2] \in Token
      BY <3>1
    <3>3. QED
      BY <1>4, <3>2 DEF Token
  <2>2. i + 3 \in 1..Len(src)
    BY <1>1, <1>4, <2>1
  <2>3. src[i + 3] \in Token
    BY <2>2
  <2>4. src[i + 3].v \in Nat
    BY <2>3 DEF Token
  <2>5. QED
    BY <1>3, <2>4 DEF PackedAt
<1>5. PICK g : Turning(src, g, FALSE, 1, data)
  <2>1. BeginsAt(src, 1, data)
    BY <1>1, <1>4 DEF BeginsAt
  <2>2. FALSE \in BOOLEAN /\ 1 \in Nat
    OBVIOUS
  <2>3. QED
    BY <2>1, <2>2, TurnsExist
<1>10. g \in [Places(src) -> Decoded]
  BY <1>5 DEF Turning
<1>6. g = Turns(src, g, FALSE, 1, LAMBDA i, id : i + 4 + src[i + 3].v)
  <2> DEFINE h == Turns(src, g, FALSE, 1, LAMBDA i, id : i + 4 + src[i + 3].v)
  <2>1. ASSUME NEW i \in 0..l, NEW id \in Nat PROVE g[<<i, id>>] = h[<<i, id>>]
    <3>1. g[<<i, id>>] = TurnAt(src, g, FALSE, 1, PackedAt(src, i), i, id)
      BY <1>1, <1>3, <1>5 DEF Turning
    <3>2. <<i, id>> \in (0..Len(src)) \X Nat /\ <<i, id>>[1] = i /\ <<i, id>>[2] = id
      BY <1>1
    <3>3. h[<<i, id>>] = TurnAt(src, g, FALSE, 1, PackedAt(src, i), i, id)
      BY <3>2 DEF Turns, TurnAt, PackedAt
    <3>4. QED
      BY <3>1, <3>3
  <2>2. ASSUME NEW p \in Places(src) PROVE g[p] = h[p]
    <3>1. p[1] \in 0..l /\ p[2] \in Nat /\ p = <<p[1], p[2]>>
      BY <1>1 DEF Places
    <3> HIDE DEF h
    <3>2. g[<<p[1], p[2]>>] = h[<<p[1], p[2]>>]
      BY <2>1, <3>1
    <3>3. QED
      BY <3>1, <3>2
  <2>3. \E t : h = [p \in Places(src) |-> t[p]]
    <3> HIDE DEF h
    <3>1. h = [p \in Places(src) |-> h[p]]
      BY DEF h, Turns, Places
    <3>2. QED
      BY <3>1
  <2> HIDE DEF h
  <2>4. g = h
    BY <1>10, <2>2, <2>3
  <2>5. QED
    BY <2>4 DEF h
<1>7. PICK f : /\ f = Turns(src, f, FALSE, 1, LAMBDA i, id : i + 4 + src[i + 3].v)
               /\ SHA1Decode(src) = f[<<0, count>>]
  BY <1>6, ZenonT(60) DEF SHA1Decode, DecodeLoop, Turns
<1>8. ASSUME NEW i \in 0..l, NEW id \in Nat
      PROVE  f[<<i, id>>] = TurnAt(src, f, FALSE, 1, PackedAt(src, i), i, id)
  <2> DEFINE h == Turns(src, f, FALSE, 1, LAMBDA j, k : j + 4 + src[j + 3].v)
  <2>1. <<i, id>> \in (0..Len(src)) \X Nat /\ <<i, id>>[1] = i /\ <<i, id>>[2] = id
    BY <1>1
  <2>2. h[<<i, id>>] = TurnAt(src, f, FALSE, 1, PackedAt(src, i), i, id)
    BY <2>1 DEF Turns, TurnAt, PackedAt
  <2>3. f = h
    BY <1>7, Zenon DEF Turns
  <2> HIDE DEF h
  <2>4. QED
    BY <2>2, <2>3
<1>9. QED
  BY <1>1, <1>7, <1>8

LEMMA AES128Runs ==
    ASSUME NEW src \in Seq(Token)
    PROVE  \E f : /\ AES128Decode(src) = f[<<0, count>>]
                  /\ \A i \in 0..Len(src), id \in Nat :
                        f[<<i, id>>] = TurnAt(src, f, TRUE, 1, PackedAt(src, i), i, id)
<1>1. PICK l \in Nat : l = Len(src)
  OBVIOUS
<1>2. PICK data : data = [p \in Places(src) |-> PackedAt(src, p[1])]
  OBVIOUS
<1>3. \A i \in 0..l, id \in Nat : <<i, id>> \in Places(src) /\ data[<<i, id>>] = PackedAt(src, i)
  BY <1>1, <1>2 DEF Places, PackedAt
<1>4. ASSUME NEW i \in 0..l, NEW id \in Nat, i + 2 <= l, i + 2 + src[i + 2].v <= l, ~(src[i + 2].v < 1)
      PROVE  data[<<i, id>>] \in Nat /\ data[<<i, id>>] # 0
  <2>1. src[i + 2].v \in Nat /\ src[i + 2].v # 0
    <3>1. i + 2 \in 1..Len(src)
      BY <1>1, <1>4
    <3>2. src[i + 2] \in Token
      BY <3>1
    <3>3. QED
      BY <1>4, <3>2 DEF Token
  <2>2. i + 3 \in 1..Len(src)
    BY <1>1, <1>4, <2>1
  <2>3. src[i + 3] \in Token
    BY <2>2
  <2>4. src[i + 3].v \in Nat
    BY <2>3 DEF Token
  <2>5. QED
    BY <1>3, <2>4 DEF PackedAt
<1>5. PICK g : Turning(src, g, TRUE, 1, data)
  <2>1. BeginsAt(src, 1, data)
    BY <1>1, <1>4 DEF BeginsAt
  <2>2. TRUE \in BOOLEAN /\ 1 \in Nat
    OBVIOUS
  <2>3. QED
    BY <2>1, <2>2, TurnsExist
<1>10. g \in [Places(src) -> Decoded]
  BY <1>5 DEF Turning
<1>6. g = Turns(src, g, TRUE, 1, LAMBDA i, id : i + 4 + src[i + 3].v)
  <2> DEFINE h == Turns(src, g, TRUE, 1, LAMBDA i, id : i + 4 + src[i + 3].v)
  <2>1. ASSUME NEW i \in 0..l, NEW id \in Nat PROVE g[<<i, id>>] = h[<<i, id>>]
    <3>1. g[<<i, id>>] = TurnAt(src, g, TRUE, 1, PackedAt(src, i), i, id)
      BY <1>1, <1>3, <1>5 DEF Turning
    <3>2. <<i, id>> \in (0..Len(src)) \X Nat /\ <<i, id>>[1] = i /\ <<i, id>>[2] = id
      BY <1>1
    <3>3. h[<<i, id>>] = TurnAt(src, g, TRUE, 1, PackedAt(src, i), i, id)
      BY <3>2 DEF Turns, TurnAt, PackedAt
    <3>4. QED
      BY <3>1, <3>3
  <2>2. ASSUME NEW p \in Places(src) PROVE g[p] = h[p]
    <3>1. p[1] \in 0..l /\ p[2] \in Nat /\ p = <<p[1], p[2]>>
      BY <1>1 DEF Places
    <3> HIDE DEF h
    <3>2. g[<<p[1], p[2]>>] = h[<<p[1], p[2]>>]
      BY <2>1, <3>1
    <3>3. QED
      BY <3>1, <3>2
  <2>3. \E t : h = [p \in Places(src) |-> t[p]]
    <3> HIDE DEF h
    <3>1. h = [p \in Places(src) |-> h[p]]
      BY DEF h, Turns, Places
    <3>2. QED
      BY <3>1
  <2> HIDE DEF h
  <2>4. g = h
    BY <1>10, <2>2, <2>3
  <2>5. QED
    BY <2>4 DEF h
<1>7. PICK f : /\ f = Turns(src, f, TRUE, 1, LAMBDA i, id : i + 4 + src[i + 3].v)
               /\ AES128Decode(src) = f[<<0, count>>]
  BY <1>6, ZenonT(60) DEF AES128Decode, DecodeLoop, Turns
<1>8. ASSUME NEW i \in 0..l, NEW id \in Nat
      PROVE  f[<<i, id>>] = TurnAt(src, f, TRUE, 1, PackedAt(src, i), i, id)
  <2> DEFINE h == Turns(src, f, TRUE, 1, LAMBDA j, k : j + 4 + src[j + 3].v)
  <2>1. <<i, id>> \in (0..Len(src)) \X Nat /\ <<i, id>>[1] = i /\ <<i, id>>[2] = id
    BY <1>1
  <2>2. h[<<i, id>>] = TurnAt(src, f, TRUE, 1, PackedAt(src, i), i, id)
    BY <2>1 DEF Turns, TurnAt, PackedAt
  <2>3. f = h
    BY <1>7, Zenon DEF Turns
  <2> HIDE DEF h
  <2>4. QED
    BY <2>2, <2>3
<1>9. QED
  BY <1>1, <1>7, <1>8

LEMMA ChainRuns ==
    ASSUME NEW src \in Seq(Token)
    PROVE  \E f : /\ ChainDecode(src) = f[<<0, count>>]
                  /\ \A i \in 0..Len(src), id \in Nat :
                        f[<<i, id>>] = TurnAt(src, f, TRUE, 0, ChainAt(i, id), i, id)
<1>1. PICK l \in Nat : l = Len(src)
  OBVIOUS
<1>2. PICK data : data = [p \in Places(src) |-> ChainAt(p[1], p[2])]
  OBVIOUS
<1>3. \A i \in 0..l, id \in Nat : <<i, id>> \in Places(src) /\ data[<<i, id>>] = ChainAt(i, id)
  BY <1>1, <1>2 DEF Places, ChainAt
<1>4. ASSUME NEW i \in 0..l, NEW id \in Nat, i + 2 <= l, i + 2 + src[i + 2].v <= l, ~(src[i + 2].v < 0)
      PROVE  data[<<i, id>>] \in Nat /\ data[<<i, id>>] # 0
  <2>1. RandLength(id) \in {0, 1}
    BY RandIs
  <2>2. QED
    BY <1>3, <2>1 DEF ChainAt
<1>5. PICK g : Turning(src, g, TRUE, 0, data)
  <2>1. BeginsAt(src, 0, data)
    BY <1>1, <1>4 DEF BeginsAt
  <2>2. TRUE \in BOOLEAN /\ 0 \in Nat
    OBVIOUS
  <2>3. QED
    BY <2>1, <2>2, TurnsExist
<1>10. g \in [Places(src) -> Decoded]
  BY <1>5 DEF Turning
<1>6. g = Turns(src, g, TRUE, 0, LAMBDA i, id : i + 3 + RandLength(id) + IF id = 0 THEN 1 ELSE 0)
  <2> DEFINE h == Turns(src, g, TRUE, 0, LAMBDA i, id : i + 3 + RandLength(id) + IF id = 0 THEN 1 ELSE 0)
  <2>1. ASSUME NEW i \in 0..l, NEW id \in Nat PROVE g[<<i, id>>] = h[<<i, id>>]
    <3>1. g[<<i, id>>] = TurnAt(src, g, TRUE, 0, ChainAt(i, id), i, id)
      BY <1>1, <1>3, <1>5 DEF Turning
    <3>2. <<i, id>> \in (0..Len(src)) \X Nat /\ <<i, id>>[1] = i /\ <<i, id>>[2] = id
      BY <1>1
    <3>3. h[<<i, id>>] = TurnAt(src, g, TRUE, 0, ChainAt(i, id), i, id)
      BY <3>2 DEF Turns, TurnAt, ChainAt
    <3>4. QED
      BY <3>1, <3>3
  <2>2. ASSUME NEW p \in Places(src) PROVE g[p] = h[p]
    <3>1. p[1] \in 0..l /\ p[2] \in Nat /\ p = <<p[1], p[2]>>
      BY <1>1 DEF Places
    <3> HIDE DEF h
    <3>2. g[<<p[1], p[2]>>] = h[<<p[1], p[2]>>]
      BY <2>1, <3>1
    <3>3. QED
      BY <3>1, <3>2
  <2>3. \E t : h = [p \in Places(src) |-> t[p]]
    <3> HIDE DEF h
    <3>1. h = [p \in Places(src) |-> h[p]]
      BY DEF h, Turns, Places
    <3>2. QED
      BY <3>1
  <2> HIDE DEF h
  <2>4. g = h
    BY <1>10, <2>2, <2>3
  <2>5. QED
    BY <2>4 DEF h
<1>7. PICK f : /\ f = Turns(src, f, TRUE, 0, LAMBDA i, id : i + 3 + RandLength(id) + IF id = 0 THEN 1 ELSE 0)
               /\ ChainDecode(src) = f[<<0, count>>]
  BY <1>6, ZenonT(180) DEF ChainDecode, DecodeLoop, Turns
<1>8. ASSUME NEW i \in 0..l, NEW id \in Nat
      PROVE  f[<<i, id>>] = TurnAt(src, f, TRUE, 0, ChainAt(i, id), i, id)
  <2> DEFINE h == Turns(src, f, TRUE, 0, LAMBDA j, k : j + 3 + RandLength(k) + IF k = 0 THEN 1 ELSE 0)
  <2>1. <<i, id>> \in (0..Len(src)) \X Nat /\ <<i, id>>[1] = i /\ <<i, id>>[2] = id
    BY <1>1
  <2>2. h[<<i, id>>] = TurnAt(src, f, TRUE, 0, ChainAt(i, id), i, id)
    BY <2>1 DEF Turns, TurnAt, ChainAt
  <2>3. f = h
    BY <1>7, Zenon DEF Turns
  <2> HIDE DEF h
  <2>4. QED
    BY <2>2, <2>3
<1>9. QED
  BY <1>1, <1>7, <1>8

(* The decoder of the kind.                                                *)
DecodeTurns(src, f) ==
    \A i \in 0..Len(src), id \in Nat :
        /\ kind = "sha1" => f[<<i, id>>] = TurnAt(src, f, FALSE, 1, PackedAt(src, i), i, id)
        /\ kind = "aes128" => f[<<i, id>>] = TurnAt(src, f, TRUE, 1, PackedAt(src, i), i, id)
        /\ kind \in {"chain", "chain_b"} => f[<<i, id>>] = TurnAt(src, f, TRUE, 0, ChainAt(i, id), i, id)

LEMMA DecodeRuns ==
    ASSUME kind \in Ssr, NEW src \in Seq(Token)
    PROVE  \E f : Decode(src) = f[<<0, count>>] /\ DecodeTurns(src, f)
<1>1. CASE kind = "sha1"
  <2>1. PICK f : /\ SHA1Decode(src) = f[<<0, count>>]
                 /\ \A i \in 0..Len(src), id \in Nat :
                       f[<<i, id>>] = TurnAt(src, f, FALSE, 1, PackedAt(src, i), i, id)
    BY SHA1Runs
  <2>2. Decode(src) = SHA1Decode(src)
    BY <1>1 DEF Decode
  <2>3. DecodeTurns(src, f)
    BY <1>1, <2>1 DEF DecodeTurns
  <2>4. QED
    BY <2>1, <2>2, <2>3
<1>2. CASE kind = "aes128"
  <2>1. PICK f : /\ AES128Decode(src) = f[<<0, count>>]
                 /\ \A i \in 0..Len(src), id \in Nat :
                       f[<<i, id>>] = TurnAt(src, f, TRUE, 1, PackedAt(src, i), i, id)
    BY AES128Runs
  <2>2. Decode(src) = AES128Decode(src)
    BY <1>2 DEF Decode
  <2>3. DecodeTurns(src, f)
    BY <1>2, <2>1 DEF DecodeTurns
  <2>4. QED
    BY <2>1, <2>2, <2>3
<1>3. CASE kind \in {"chain", "chain_b"}
  <2>1. PICK f : /\ ChainDecode(src) = f[<<0, count>>]
                 /\ \A i \in 0..Len(src), id \in Nat :
                       f[<<i, id>>] = TurnAt(src, f, TRUE, 0, ChainAt(i, id), i, id)
    BY ChainRuns
  <2>2. Decode(src) = ChainDecode(src)
    BY <1>3 DEF Decode
  <2>3. DecodeTurns(src, f)
    BY <1>3, <2>1 DEF DecodeTurns
  <2>4. QED
    BY <2>1, <2>2, <2>3
<1>4. QED
  BY <1>1, <1>2, <1>3 DEF Ssr

(* src is part of the stream: what stands behind at.                       *)
Holds(src, T, at) == src \in Seq(Token) /\ at \in Nat /\ \A i \in 1..Len(src) : src[i] = T[at + i]

(* What the loop makes of frame j, which ends at position h and whose      *)
(* payload begins behind a.                                                *)
TurnIs(src, f, i, j, a, h) ==
    IF h > Len(src)
      THEN f[<<i, j>>] = [dst |-> <<>>, left |-> SubSeq(src, i + 1, Len(src)), id |-> j, ok |-> TRUE]
      ELSE f[<<i, j>>] = [dst |-> SubSeq(src, a + 1, h) \o f[<<h, j + 1>>].dst, left |-> f[<<h, j + 1>>].left,
                          id |-> f[<<h, j + 1>>].id, ok |-> f[<<h, j + 1>>].ok]

LEMMA TurnOfFrame ==
    ASSUME TypeOK, kind \in Ssr, NEW T, NEW pos, NEW base, Streamed(T, pos, base), NEW j \in Nat, j < frames,
           NEW low \in Nat, NEW high \in Nat, NEW from \in Nat, NEW n \in Nat,
           FrameFrom(T, pos, base, j, low, high, from, n),
           NEW src, NEW at, Holds(src, T, at), NEW f, DecodeTurns(src, f), low - at \in 0..Len(src)
    PROVE  TurnIs(src, f, low - at, j, high - n - at, high - at)
<1>13. PICK l \in Nat, i \in Nat : l = Len(src) /\ i = low - at /\ i <= l
  <2>1. Len(src) \in Nat
    BY DEF Holds
  <2>2. QED
    BY <2>1
<1>1. at \in Nat /\ at + i = low
  BY <1>13 DEF Holds
<1>2. kind \in AllKinds
  BY DEF TypeOK
<1>3. Before(j) = 0
  BY <1>2, FrontIs DEF Before
<1>4. low + n < high /\ HeaderOf(T, low, high - n, n, j)
  BY <1>3 DEF FrameFrom
<1>5. PICK r \in {0, 1} : r = RandLength(j)
  BY RandIs
<1>6. PICK x \in {0, 1} : x = ChainExtra(j)
  BY DEF ChainExtra
<1>7. \/ /\ kind \in {"sha1", "aes128"} /\ high - n = low + 3 + r
         /\ T[low + 1].v = j /\ T[low + 2].v = n + r + 1 /\ T[low + 3].v = r
      \/ /\ kind \in {"chain", "chain_b"} /\ high - n = low + 2 + x + r
         /\ T[low + 1].v = j /\ T[low + 2].v = n + x + r
  BY <1>4, <1>5, <1>6 DEF HeaderOf, Ssr
<1>14. low + 2 <= high /\ T[low + 2].v = high - low - 2 /\ T[low + 1].v = j
  <2>1. r \in Nat /\ x \in Nat
    BY <1>5, <1>6
  <2>2. CASE high - n = low + 3 + r /\ T[low + 1].v = j /\ T[low + 2].v = n + r + 1
    <3>1. high = low + 3 + r + n
      BY <2>1, <2>2
    <3>2. high - low - 2 = n + r + 1 /\ low + 2 <= high
      BY <2>1, <3>1
    <3>3. QED
      BY <2>2, <3>2
  <2>3. CASE high - n = low + 2 + x + r /\ T[low + 1].v = j /\ T[low + 2].v = n + x + r
    <3>1. high = low + 2 + x + r + n
      BY <2>1, <2>3
    <3>2. high - low - 2 = n + x + r /\ low + 2 <= high
      BY <2>1, <3>1
    <3>3. QED
      BY <2>3, <3>2
  <2>4. QED
    BY <1>7, <2>2, <2>3
<1>8. \A k \in 1..l : src[k] = T[at + k]
  BY <1>13 DEF Holds
<1>9. PICK to \in Int : to = high - at
  BY <1>1
<1>10. CASE i + 2 > l
  <2>1. to > l
    <3>1. to = high - at /\ i = low - at /\ low + 2 <= high /\ i + 2 > l
      BY <1>9, <1>10, <1>13, <1>14
    <3>2. QED
      BY ONLY <1>1, <3>1, low \in Nat, high \in Nat, i \in Nat, l \in Nat, to \in Int
  <2> DEFINE R == [dst |-> <<>>, left |-> SubSeq(src, i + 1, l), id |-> j, ok |-> TRUE]
  <2>2. /\ TurnAt(src, f, FALSE, 1, PackedAt(src, i), i, j) = R
        /\ TurnAt(src, f, TRUE, 1, PackedAt(src, i), i, j) = R
        /\ TurnAt(src, f, TRUE, 0, ChainAt(i, j), i, j) = R
    BY <1>10, <1>13 DEF TurnAt
  <2>3. i \in 0..Len(src)
    BY <1>13
  <2>4. f[<<i, j>>] = [dst |-> <<>>, left |-> SubSeq(src, i + 1, l), id |-> j, ok |-> TRUE]
    BY <2>2, <2>3 DEF DecodeTurns, Ssr
  <2>5. QED
    BY <1>9, <1>13, <2>1, <2>4 DEF TurnIs
<1>11. CASE ~(i + 2 > l)
  <2>1. i + 2 \in 1..l /\ i + 1 \in 1..l /\ at + (i + 2) = low + 2 /\ at + (i + 1) = low + 1
    BY <1>13, <1>1, <1>11
  <2>2. src[i + 2] = T[low + 2] /\ src[i + 1] = T[low + 1]
    BY <1>8, <2>1
  <2>3. PICK v \in Nat : v = src[i + 2].v /\ to = i + 2 + v
    BY <1>1, <1>9, <1>13, <1>14, <2>2
  <2>4. src[i + 1].v = j
    BY <1>7, <2>2
  <2>5. i \in 0..Len(src) /\ ~(i + 2 > Len(src))
    BY <1>11, <1>13
  <2>6. CASE to > l
    <3> DEFINE R == [dst |-> <<>>, left |-> SubSeq(src, i + 1, l), id |-> j, ok |-> TRUE]
    <3>1. /\ TurnAt(src, f, FALSE, 1, PackedAt(src, i), i, j) = R
          /\ TurnAt(src, f, TRUE, 1, PackedAt(src, i), i, j) = R
          /\ TurnAt(src, f, TRUE, 0, ChainAt(i, j), i, j) = R
      BY <1>13, <2>3, <2>6 DEF TurnAt
    <3>2. f[<<i, j>>] = [dst |-> <<>>, left |-> SubSeq(src, i + 1, l), id |-> j, ok |-> TRUE]
      BY <2>5, <3>1 DEF DecodeTurns, Ssr
    <3>3. QED
      BY <1>9, <1>13, <2>6, <3>2 DEF TurnIs
  <2>7. CASE ~(to > l)
    <3>1. PICK g : g = f[<<to, j + 1>>]
      OBVIOUS
    <3>2. PICK b, a : b = high - n - at /\ a = b + 1
      OBVIOUS
    <3>3. CASE kind \in {"sha1", "aes128"}
      <4>9. high - n = low + 3 + r /\ T[low + 2].v = n + r + 1 /\ T[low + 3].v = r
        BY <1>7, <3>3
      <4>1. i + 3 \in 1..l /\ at + (i + 3) = low + 3
        <5>1. high = low + 3 + r + n
          BY <1>5, <4>9
        <5>2. low + 3 <= high /\ to = high - at /\ to <= l
          BY <1>5, <1>9, <2>7, <5>1
        <5>3. i = low - at
          BY <1>13
        <5>4. i + 3 <= l /\ at + (i + 3) = low + 3
          BY <1>1, <1>13, <5>2
        <5>5. QED
          BY <1>13, <5>4
      <4>2. src[i + 3].v = r
        BY <1>8, <4>1, <4>9
      <4>3. PackedAt(src, i) = a
        <5>1. PICK p \in Int : p = high - n /\ r \in Nat
          BY <1>5
        <5>2. p = low + 3 + r
          BY <4>9, <5>1
        <5>3. (p - at) + 1 = i + 4 + r
          BY <1>1, <1>13, <5>1, <5>2
        <5>4. a = (p - at) + 1
          BY <3>2, <5>1
        <5>5. PackedAt(src, i) = i + 4 + r
          BY <4>2 DEF PackedAt
        <5>6. QED
          BY <5>3, <5>4, <5>5
      <4>4. ~(v < 1)
        <5>1. r \in Nat
          BY <1>5
        <5>2. v = n + r + 1
          BY <2>2, <2>3, <4>9
        <5>3. QED
          BY <5>1, <5>2
      <4>5. \A ids \in BOOLEAN : TurnAt(src, f, ids, 1, a, i, j)
               = [dst |-> SubSeq(src, a, to) \o g.dst, left |-> g.left, id |-> g.id, ok |-> g.ok]
        BY <1>13, <2>3, <2>4, <2>5, <2>7, <3>1, <4>4 DEF TurnAt
      <4>6. f[<<i, j>>] = TurnAt(src, f, FALSE, 1, a, i, j) \/ f[<<i, j>>] = TurnAt(src, f, TRUE, 1, a, i, j)
        BY <2>5, <3>3, <4>3 DEF DecodeTurns
      <4>7. f[<<i, j>>] = [dst |-> SubSeq(src, a, to) \o g.dst, left |-> g.left, id |-> g.id, ok |-> g.ok]
        BY <4>5, <4>6
      <4>8. QED
        BY <1>9, <1>13, <2>7, <3>1, <3>2, <4>7 DEF TurnIs
    <3>4. CASE kind \in {"chain", "chain_b"}
      <4>1. ChainAt(i, j) = a
        <5>1. ChainAt(i, j) = i + 3 + r + x
          BY <1>5, <1>6 DEF ChainAt, ChainExtra
        <5>4. high - n = low + 2 + x + r
          BY <1>7, <3>4
        <5>2. a = i + 3 + r + x
          <6>1. r \in Nat /\ x \in Nat
            BY <1>5, <1>6
          <6>2. PICK p \in Int : p = high - n
            OBVIOUS
          <6>3. p = low + 2 + x + r
            BY <5>4, <6>2
          <6>4. p - at + 1 = i + 3 + r + x
            BY <1>1, <6>1, <1>13, <6>2, <6>3
          <6>5. a = p - at + 1
            BY <3>2, <6>2
          <6>6. QED
            BY <6>4, <6>5
        <5>3. QED
          BY <5>1, <5>2
      <4>2. ~(v < 0)
        OBVIOUS
      <4>3. TurnAt(src, f, TRUE, 0, a, i, j)
               = [dst |-> SubSeq(src, a, to) \o g.dst, left |-> g.left, id |-> g.id, ok |-> g.ok]
        BY <1>13, <2>3, <2>4, <2>5, <2>7, <3>1, <4>2 DEF TurnAt
      <4>4. f[<<i, j>>] = TurnAt(src, f, TRUE, 0, a, i, j)
        BY <2>5, <3>4, <4>1 DEF DecodeTurns
      <4>5. QED
        BY <1>9, <1>13, <2>7, <3>1, <3>2, <4>3, <4>4 DEF TurnIs
    <3>5. QED
      BY <1>7, <3>3, <3>4
  <2>8. QED
    BY <2>6, <2>7
<1>12. QED
  BY <1>10, <1>11

(* What the decoder, with frame j before it, has made of src: the payload  *)
(* of the frames up to k, and the tokens behind them are left.             *)
Fetched(r, src, pos, base, at, j, k) ==
    /\ r.ok = TRUE /\ r.id = k /\ r.left = SubSeq(src, pos[k] - at + 1, Len(src))
    /\ Numbered(r.dst, base[j]) /\ base[j] + Len(r.dst) = base[k]

(* Frame k is the first that is not whole before the place.                *)
UpTo(pos, k, place) == k \in 0..frames /\ pos[k] <= place /\ (k < frames => place < pos[k + 1])

(* The frames are decoded one behind the other.                            *)
LEMMA FrameFetched ==
    ASSUME TypeOK, kind \in Ssr, NEW T, NEW pos, NEW base, Streamed(T, pos, base), NEW j \in Nat, j < frames,
           NEW low \in Nat, NEW high \in Nat, NEW from \in Nat, NEW n \in Nat,
           FrameFrom(T, pos, base, j, low, high, from, n),
           NEW src, NEW at, Holds(src, T, at), NEW a \in Nat, a = high - n - at, NEW h \in Nat, h = high - at,
           h <= Len(src),
           NEW r, NEW k, Fetched(r, src, pos, base, at, j + 1, k), NEW x,
           x = [dst |-> SubSeq(src, a + 1, h) \o r.dst, left |-> r.left, id |-> r.id, ok |-> r.ok]
    PROVE  Fetched(x, src, pos, base, at, j, k)
<1>1. PICK s : s = SubSeq(src, a + 1, h)
  OBVIOUS
<1>2. src \in Seq(Token) /\ at \in Nat /\ \A i \in 1..Len(src) : src[i] = T[at + i]
  BY DEF Holds
<1>3. h - a = n /\ a <= h
  BY <1>2
<1>4. s \in Seq(Token) /\ Len(s) = n /\ \A i \in 1..n : s[i] = src[a + i]
  BY <1>1, <1>2, <1>3, PartIs
<1>5. ASSUME NEW i \in 1..n PROVE s[i] = Tok("byte", from + i)
  <2>5. PICK c \in Nat : c = Len(src) /\ h <= c
    BY <1>2
  <2>7. a + i <= h
    BY <1>3
  <2>6. a + i \in 1..c
    <3>1. a + i <= c /\ 1 <= a + i
      BY ONLY <2>5, <2>7, a \in Nat, c \in Nat, h \in Nat, n \in Nat, i \in 1..n
    <3>2. a + i \in Int
      OBVIOUS
    <3>3. QED
      BY <2>5, <3>1, <3>2
  <2>1. a + i \in 1..Len(src) /\ at + (a + i) = high - n + i
    BY <1>2, <2>5, <2>6
  <2>2. src[a + i] = T[high - n + i]
    BY <1>2, <2>1
  <2>3. T[high - n + i] = Tok("byte", from + i)
    BY DEF FrameFrom
  <2>4. QED
    BY <1>4, <2>2, <2>3
<1>6. from = base[j] /\ base[j + 1] = from + n
  BY DEF FrameFrom
<1>7. r.dst \in Seq(Token) /\ \A i \in 1..Len(r.dst) : r.dst[i] = Tok("byte", (from + n) + i)
  BY <1>6 DEF Fetched, Numbered
<1>8. PICK t : t = r.dst
  OBVIOUS
<1>17. t \in Seq(Token)
  BY <1>7, <1>8
<1>9. PICK m \in Nat : m = Len(t)
  BY <1>17
<1>10. PICK z : z = s \o t
  OBVIOUS
<1>11. /\ z \in Seq(Token) /\ Len(z) = n + m
       /\ \A i \in 1..n : z[i] = s[i]
       /\ \A i \in 1..m : z[n + i] = t[i]
  <2>1. n = Len(s) /\ s \in Seq(Token)
    BY <1>4
  <2>2. QED
    BY ONLY <1>9, <1>10, <1>17, <2>1, Join
<1>12. ASSUME NEW i \in 1..Len(z) PROVE z[i] = Tok("byte", from + i)
  <2>1. CASE i <= n
    <3>1. i \in 1..n
      BY <2>1
    <3>2. QED
      BY <1>5, <1>11, <3>1
  <2>2. CASE ~(i <= n)
    <3>7. i \in 1..(n + m) /\ n \in Nat /\ m \in Nat
      BY <1>9, <1>11
    <3>5. i - n \in 1..m
      BY ONLY <2>2, <3>7
    <3>1. PICK p \in 1..m : p = i - n
      BY <3>5
    <3>2. z[n + p] = t[p]
      BY <1>11, <3>1
    <3>3. t[p] = Tok("byte", (from + n) + p)
      BY <1>7, <1>8, <1>9, <3>1
    <3>4. n + p = i /\ (from + n) + p = from + i
      BY <3>1
    <3>6. QED
      BY <3>2, <3>3, <3>4
  <2>3. QED
    BY <2>1, <2>2
<1>13. Numbered(z, base[j])
  BY <1>6, <1>11, <1>12 DEF Numbered
<1>14. base[j] + Len(z) = base[k]
  <2>1. (from + n) + m = base[k]
    BY <1>6, <1>8, <1>9 DEF Fetched
  <2>2. from + (n + m) = (from + n) + m
    OBVIOUS
  <2>3. QED
    BY <1>6, <1>11, <2>1, <2>2
<1>15. x.dst = z /\ x.left = r.left /\ x.id = r.id /\ x.ok = r.ok
  BY <1>1, <1>8, <1>10
<1>16. QED
  BY <1>13, <1>14, <1>15 DEF Fetched

LEMMA NothingFetched ==
    ASSUME NEW src, NEW pos, NEW base, NEW at, NEW j, base[j] \in Nat, NEW x,
           x = [dst |-> <<>>, left |-> SubSeq(src, pos[j] - at + 1, Len(src)), id |-> j, ok |-> TRUE]
    PROVE  Fetched(x, src, pos, base, at, j, j)
<1>1. x.dst = <<>> /\ x.left = SubSeq(src, pos[j] - at + 1, Len(src)) /\ x.id = j /\ x.ok = TRUE
  OBVIOUS
<1>2. <<>> \in Seq(Token) /\ Len(<<>>) = 0
  OBVIOUS
<1>3. Numbered(<<>>, base[j])
  BY <1>2 DEF Numbered
<1>4. base[j] + 0 = base[j]
  OBVIOUS
<1>5. QED
  BY <1>1, <1>2, <1>3, <1>4 DEF Fetched

LEMMA FramesFetched ==
    ASSUME TypeOK, kind \in Ssr, NEW T, NEW pos, NEW base, Streamed(T, pos, base),
           NEW src, NEW at, Holds(src, T, at), NEW f, DecodeTurns(src, f),
           NEW l \in Nat, l = Len(src), at + l <= pos[frames],
           NEW m \in 0..frames, at <= pos[m], pos[m] <= at + l
    PROVE  \E k : UpTo(pos, k, at + l) /\ at <= pos[k] /\ Fetched(f[<<pos[m] - at, m>>], src, pos, base, at, m, k)
<1>1. frames \in Nat /\ at \in Nat /\ src \in Seq(Token)
  BY DEF TypeOK, Holds
<1>2. pos \in [Nat -> Nat] /\ base \in [Nat -> Nat]
  BY DEF Streamed
<1> DEFINE Good(j) == \E k : UpTo(pos, k, at + l) /\ at <= pos[k] /\ Fetched(f[<<pos[j] - at, j>>], src, pos, base, at, j, k)
           Bad == {d \in Nat : \E j \in 0..frames : d = frames - j /\ at <= pos[j] /\ pos[j] <= at + l /\ ~Good(j)}
<1> HIDE DEF Good
<1>3. Bad = {}
  <2> SUFFICES ASSUME Bad # {} PROVE FALSE
    OBVIOUS
  <2>1. PICK d \in Bad : \A e \in Bad : d <= e
    <3>1. Bad \in SUBSET Nat
      OBVIOUS
    <3> HIDE DEF Bad
    <3>2. QED
      BY <3>1, Least
  <2>2. PICK j \in 0..frames : d = frames - j /\ at <= pos[j] /\ pos[j] <= at + l /\ ~Good(j)
    BY <2>1
  <2>3. j \in Nat /\ pos[j] \in Nat /\ base[j] \in Nat
    BY <1>1, <1>2, <2>2
  <2>4. PICK i \in Nat : i = pos[j] - at /\ i <= l
    BY <1>1, <2>2, <2>3
  <2>5. CASE j = frames
    <3>1. i = l
      BY <1>1, <2>2, <2>3, <2>4, <2>5
    <3>2. i \in 0..Len(src) /\ i + 2 > Len(src)
      BY <3>1
    <3> DEFINE R == [dst |-> <<>>, left |-> SubSeq(src, i + 1, Len(src)), id |-> j, ok |-> TRUE]
    <3>3. /\ TurnAt(src, f, FALSE, 1, PackedAt(src, i), i, j) = R
          /\ TurnAt(src, f, TRUE, 1, PackedAt(src, i), i, j) = R
          /\ TurnAt(src, f, TRUE, 0, ChainAt(i, j), i, j) = R
      BY <3>2 DEF TurnAt
    <3>4. f[<<i, j>>] = R
      BY <2>3, <3>2, <3>3 DEF DecodeTurns, Ssr
    <3>5. f[<<pos[j] - at, j>>] = [dst |-> <<>>, left |-> SubSeq(src, pos[j] - at + 1, Len(src)), id |-> j, ok |-> TRUE]
      BY <2>4, <3>4
    <3>6. Fetched(f[<<pos[j] - at, j>>], src, pos, base, at, j, j)
      BY <2>3, <3>5, NothingFetched
    <3>7. UpTo(pos, j, at + l)
      BY <1>1, <2>2, <2>5 DEF UpTo
    <3>8. QED
      BY <2>2, <3>6, <3>7 DEF Good
  <2>6. CASE j # frames
    <3>1. j < frames
      BY <1>1, <2>2, <2>6
    <3>2. PICK low \in Nat, high \in Nat, from \in Nat, n \in Nat : FrameFrom(T, pos, base, j, low, high, from, n)
      BY <2>3, <3>1, FrameHere
    <3>3. low = pos[j] /\ high = pos[j + 1] /\ low + n < high
      BY <3>2 DEF FrameFrom
    <3>4. i = low - at
      BY <2>4, <3>3
    <3>5. TurnIs(src, f, low - at, j, high - n - at, high - at)
      <4>1. low - at \in 0..Len(src) /\ j \in Nat
        BY <2>3, <2>4, <3>4
      <4>2. QED
        BY <3>1, <3>2, <4>1, TurnOfFrame
    <3>6. CASE high - at > l
      <4>1. f[<<pos[j] - at, j>>] = [dst |-> <<>>, left |-> SubSeq(src, pos[j] - at + 1, Len(src)), id |-> j, ok |-> TRUE]
        BY <2>4, <3>4, <3>5, <3>6 DEF TurnIs
      <4>2. Fetched(f[<<pos[j] - at, j>>], src, pos, base, at, j, j)
        BY <2>3, <4>1, NothingFetched
      <4>3. at + l < pos[j + 1]
        BY <1>1, <3>3, <3>6
      <4>4. UpTo(pos, j, at + l)
        BY <2>2, <4>3 DEF UpTo
      <4>5. QED
        BY <2>2, <4>2, <4>4 DEF Good
    <3>7. CASE ~(high - at > l)
      <4>10. pos[j + 1] \in Nat
        BY <3>2, <3>3
      <4>11. high - at \in Nat /\ high - n - at \in Nat /\ high - at <= l /\ high <= at + l /\ at <= high
        <5>1. PICK p \in Nat : p = pos[j] /\ at <= p /\ low = p
          BY <2>2, <2>3, <3>3
        <5>2. low \in Nat /\ high \in Nat /\ n \in Nat /\ low + n < high
          BY <3>2, <3>3
        <5>3. high - at <= l
          BY <1>1, <3>7, <5>2
        <5>4. at <= low
          BY <5>1
        <5>5. high - at \in Nat /\ high <= at + l /\ at <= high
          BY <1>1, <5>2, <5>3, <5>4
        <5>6. high - n - at \in Nat
          BY <1>1, <5>2, <5>4
        <5>7. QED
          BY <5>3, <5>5, <5>6
      <4>1. PICK h \in Nat, a \in Nat : h = high - at /\ a = high - n - at /\ h <= Len(src)
        BY <4>11
      <4>2. Good(j + 1)
        <5> SUFFICES ASSUME ~Good(j + 1) PROVE FALSE
          OBVIOUS
        <5>1. j + 1 \in 0..frames /\ at <= pos[j + 1] /\ pos[j + 1] <= at + l
          BY <1>1, <2>2, <2>3, <3>1, <3>3, <4>11
        <5>2. frames - (j + 1) \in Nat
          BY <1>1, <2>3, <3>1
        <5>3. frames - (j + 1) \in Bad
          BY <5>1, <5>2
        <5>4. d <= frames - (j + 1)
          BY <2>1, <5>3
        <5>5. QED
          BY <1>1, <2>2, <2>3, <5>4
      <4>3. PICK k : UpTo(pos, k, at + l) /\ at <= pos[k] /\ Fetched(f[<<h, j + 1>>], src, pos, base, at, j + 1, k)
        BY <3>3, <4>1, <4>2 DEF Good
      <4>4. PICK r : r = f[<<h, j + 1>>]
        OBVIOUS
      <4>5. PICK x : x = f[<<i, j>>]
        OBVIOUS
      <4>6. x = [dst |-> SubSeq(src, a + 1, h) \o r.dst, left |-> r.left, id |-> r.id, ok |-> r.ok]
        BY <3>4, <3>5, <3>7, <4>1, <4>4, <4>5 DEF TurnIs
      <4>7. Fetched(r, src, pos, base, at, j + 1, k)
        BY <4>3, <4>4
      <4>8. Fetched(x, src, pos, base, at, j, k)
        BY <2>3, <3>1, <3>2, <4>1, <4>6, <4>7, FrameFetched
      <4>9. QED
        BY <2>2, <2>4, <4>3, <4>5, <4>8 DEF Good
    <3>8. QED
      BY <3>6, <3>7
  <2>7. QED
    BY <2>5, <2>6
<1>4. Good(m)
  <2> SUFFICES ASSUME ~Good(m) PROVE FALSE
    OBVIOUS
  <2>1. frames - m \in Nat
    BY <1>1
  <2>2. frames - m \in Bad
    BY <2>1
  <2>3. QED
    BY <1>3, <2>2
<1>5. QED
  BY <1>4 DEF Good

LEMMA SSRReads ==
    ASSUME TypeOK, DownFramed, NEW cap \in Nat, SSRRead(cap), ~Fail
    PROVE  DownFramed'
<1>1. kind \in Ssr /\ kind \in Framed /\ kind \in Framed \ Plain /\ kind \notin {"tls", "chunk", "aead"}
  BY DEF SSRRead, Framed, Plain, Ssr
<1>2. CASE ReadCarry(cap)
  BY <1>1, <1>2, CarryRead
<1>3. CASE ~ReadCarry(cap)
  <2>1. PICK n \in 1..Len(wire) :
            LET d == Decode(under \o SubSeq(wire, 1, n)) IN
            /\ carry = <<>> /\ d.ok
            /\ DeliverBuffered(d.dst, cap) /\ under' = d.left /\ count' = d.id
            /\ wire' = SubSeq(wire, n + 1, Len(wire))
            /\ UNCHANGED <<peer, first, remain, opts, over, astray>>
    BY <1>3 DEF SSRRead
  <2>2. PICK src, d : src = under \o SubSeq(wire, 1, n) /\ d = Decode(src)
    OBVIOUS
  <2>3. /\ carry = <<>> /\ DeliverBuffered(d.dst, cap) /\ under' = d.left /\ count' = d.id
        /\ wire' = SubSeq(wire, n + 1, Len(wire)) /\ UNCHANGED <<kind, sent, frames, ended, remain>>
    BY <2>1, <2>2 DEF peer
  <2>4. PICK T, pos, base, m, limit : Streamed(T, pos, base) /\ Reading(T, pos, base, m, limit)
    BY DEF DownFramed
  <2>5. remain = 0 /\ count = m
    BY <1>1, <2>4 DEF Reading, FieldsAt
  <2>6. /\ m \in Nat /\ frames \in Nat /\ m <= frames /\ limit \in Nat /\ pos[m] \in Nat /\ base[m] \in Nat
    BY <1>1, <2>4, ReaderHere
  <2>7. PICK at \in Nat : at = pos[m] /\ at = pos[m] - remain
    BY <2>5, <2>6
  <2>8. /\ under \in Seq(Token) /\ wire \in Seq(Token) /\ got \in Seq(Token)
    BY DEF TypeOK
  <2>9. PICK u \in Nat, w \in Nat : u = Len(under) /\ w = Len(wire) /\ n <= w /\ n \in Nat
    BY <2>8
  <2>10. /\ at + u + w = limit
         /\ \A i \in 1..u : under[i] = T[at + i]
         /\ \A i \in 1..w : wire[i] = T[at + u + i]
    BY <2>4, <2>7, <2>9 DEF Reading, OnWire
  <2>11. PICK s : s = SubSeq(wire, 1, n)
    OBVIOUS
  <2>12. s \in Seq(Token) /\ Len(s) = n /\ \A i \in 1..n : s[i] = wire[i]
    <3>1. n - 0 = n /\ 0 + 1 = 1 /\ 0 \in Nat /\ 0 <= n /\ \A i \in 1..n : 0 + i = i
      BY <2>9
    <3>2. s = SubSeq(wire, 0 + 1, n)
      BY <2>11, <3>1
    <3>3. SubSeq(wire, 0 + 1, n) \in Seq(Token) /\ Len(SubSeq(wire, 0 + 1, n)) = n - 0
          /\ \A i \in 1..(n - 0) : SubSeq(wire, 0 + 1, n)[i] = wire[0 + i]
      BY <2>8, <2>9, <3>1, PartIs
    <3>4. QED
      BY <3>1, <3>2, <3>3
  <2>13. PICK l \in Nat : l = u + n
    BY <2>9
  <2>14. /\ src \in Seq(Token) /\ Len(src) = l
         /\ \A i \in 1..u : src[i] = under[i]
         /\ \A i \in 1..n : src[u + i] = s[i]
    <3>1. src = under \o s /\ n = Len(s)
      BY <2>2, <2>11, <2>12
    <3>2. /\ src \in Seq(Token) /\ Len(src) = u + n
          /\ \A i \in 1..u : src[i] = under[i]
          /\ \A i \in 1..n : src[u + i] = s[i]
      <4>1. u = Len(under)
        BY <2>9
      <4>2. under \in Seq(Token) /\ s \in Seq(Token)
        BY <2>8, <2>12
      <4>3. QED
        BY ONLY <3>1, <4>1, <4>2, Join
    <3>3. QED
      BY <2>13, <3>2
  <2>15. ASSUME NEW i \in 1..l PROVE src[i] = T[at + i]
    <3>1. CASE i <= u
      <4>1. i \in 1..u
        BY <3>1
      <4>2. QED
        BY <2>10, <2>14, <4>1
    <3>2. CASE ~(i <= u)
      <4>1. i - u \in 1..n
        BY <2>9, <2>13, <3>2
      <4>2. PICK j \in 1..n : j = i - u
        BY <4>1
      <4>3. j \in 1..w /\ u + j = i /\ at + u + j = at + i
        BY <2>9, <4>2
      <4>4. src[u + j] = s[j] /\ s[j] = wire[j] /\ wire[j] = T[at + u + j]
        BY <2>10, <2>12, <2>14, <4>2, <4>3
      <4>5. QED
        BY <4>3, <4>4
    <3>3. QED
      BY <3>1, <3>2
  <2>16. Holds(src, T, at)
    BY <2>14, <2>15 DEF Holds
  <2>17. PICK f : Decode(src) = f[<<0, count>>] /\ DecodeTurns(src, f)
    BY <1>1, <2>14, DecodeRuns
  <2>18. at + l <= pos[frames] /\ at <= pos[m] /\ pos[m] <= at + l
    <3>1. limit <= pos[frames] /\ pos \in [Nat -> Nat]
      BY <2>4 DEF Reading, Streamed
    <3>2. pos[frames] \in Nat
      BY <2>6, <3>1
    <3>3. at + l <= limit
      BY <2>9, <2>10, <2>13
    <3>4. at + l <= pos[frames]
      BY <2>6, <2>13, <3>1, <3>2, <3>3
    <3>5. QED
      BY <2>7, <2>13, <3>4
  <2>19. PICK k : UpTo(pos, k, at + l) /\ at <= pos[k] /\ Fetched(f[<<pos[m] - at, m>>], src, pos, base, at, m, k)
    <3>1. m \in 0..frames
      BY <2>6
    <3>2. QED
      BY <1>1, <2>4, <2>14, <2>16, <2>17, <2>18, <3>1, FramesFetched
  <2>20. Fetched(d, src, pos, base, at, m, k)
    <3>1. pos[m] - at = 0
      BY <2>7
    <3>2. QED
      BY <2>2, <2>5, <2>17, <2>19, <3>1
  <2>21. k \in 0..frames /\ k \in Nat /\ pos[k] \in Nat /\ base[k] \in Nat
    <3>1. k \in 0..frames /\ k \in Nat
      BY <2>6, <2>19 DEF UpTo
    <3>2. QED
      BY <2>4, <3>1 DEF Streamed
  <2>22. Len(got) = base[m]
    <3>1. Given(base[m] - remain)
      BY <2>4 DEF Reading
    <3>2. Len(got) + Len(carry) = base[m] - remain /\ Len(carry) = 0
      BY <2>3, <3>1 DEF Given
    <3>3. QED
      BY <2>5, <2>6, <2>8, <3>2
  <2>23. PICK buf : buf = d.dst
    OBVIOUS
  <2>24. Numbered(buf, Len(got)) /\ Len(got) + Len(buf) = base[k]
    BY <2>20, <2>22, <2>23 DEF Fetched
  <2>25. remain' = 0
    BY <2>3, <2>5
  <2>26. PICK c \in Nat : c = pos[k] - at /\ c <= l /\ at + c = pos[k]
    <3>1. pos[k] <= at + l /\ at <= pos[k]
      BY <2>19 DEF UpTo
    <3>2. QED
      BY <2>21, <3>1
  <2>27. /\ under' \in Seq(Token) /\ Len(under') = l - c
         /\ \A i \in 1..(l - c) : under'[i] = src[c + i]
    <3>1. under' = SubSeq(src, c + 1, l)
      <4>1. d.left = SubSeq(src, pos[k] - at + 1, Len(src))
        BY <2>20 DEF Fetched
      <4>2. pos[k] - at + 1 = c + 1
        BY <2>26
      <4>3. QED
        BY <2>3, <2>14, <4>1, <4>2
    <3>2. QED
      <4>1. c \in Nat /\ l \in Nat /\ c <= l /\ l <= Len(src) /\ src \in Seq(Token)
        BY <2>13, <2>14, <2>26
      <4>2. QED
        BY ONLY <3>1, <4>1, PartIs
  <2>28. /\ wire' \in Seq(Token) /\ Len(wire') = w - n
         /\ \A i \in 1..(w - n) : wire'[i] = wire[n + i]
    BY <2>3, <2>8, <2>9, PartIs
  <2>29. ASSUME NEW i \in 1..(l - c) PROVE under'[i] = T[pos[k] + i]
    <3>4. at + c = pos[k] /\ at \in Nat /\ c \in Nat /\ l \in Nat /\ i \in 1..(l - c)
      BY <2>13, <2>26
    <3>1. c + i \in 1..l /\ at + (c + i) = pos[k] + i
      BY ONLY <3>4
    <3>2. src[c + i] = T[at + (c + i)]
      BY <2>15, <3>1
    <3>3. QED
      BY <2>27, <3>1, <3>2
  <2>30. ASSUME NEW i \in 1..(w - n) PROVE wire'[i] = T[pos[k] + (l - c) + i]
    <3>1. n + i \in 1..w /\ at + u + (n + i) = pos[k] + (l - c) + i
      BY <2>9, <2>13, <2>26
    <3>2. wire[n + i] = T[at + u + (n + i)]
      BY <2>10, <3>1
    <3>3. QED
      BY <2>28, <3>1, <3>2
  <2>31. pos[k] + (l - c) + (w - n) = limit
    BY <2>9, <2>10, <2>13, <2>21, <2>26, SMTT(30)
  <2>32. PICK uu, ww : uu = Len(under') /\ ww = Len(wire') /\ uu = l - c /\ ww = w - n
    BY <2>27, <2>28
  <2>33. /\ pos[k] + Len(under') + Len(wire') = limit
         /\ \A i \in 1..Len(under') : under'[i] = T[pos[k] + i]
         /\ \A i \in 1..Len(wire') : wire'[i] = T[pos[k] + Len(under') + i]
    BY <2>29, <2>30, <2>31, <2>32
  <2>34. OnWire(T, pos[k], limit)'
    BY <2>33 DEF OnWire
  <2>35. count' = k /\ kind' = kind
    BY <2>3, <2>20 DEF Fetched
  <2>36. FieldsAt(k)'
    BY <1>1, <2>25, <2>35 DEF FieldsAt
  <2>37. kind \in Ssr /\ k < frames => pos[k] + Len(under') < pos[k + 1]
    <3> SUFFICES ASSUME k < frames PROVE pos[k] + Len(under') < pos[k + 1]
      OBVIOUS
    <3>1. at + l < pos[k + 1]
      BY <2>19 DEF UpTo
    <3>2. pos[k] + Len(under') = at + l
      BY <2>26, <2>27
    <3>3. QED
      BY <3>1, <3>2
  <2>38. DeliverBuffered(buf, cap)
    BY <2>3, <2>23
  <2>39. UNCHANGED <<kind, sent, frames, ended>>
    BY <2>3
  <2>40. QED
    BY ONLY TypeOK, <1>1, <2>4, <2>21, <2>24, <2>25, <2>34, <2>36, <2>37, <2>38, <2>39, cap \in Nat, BufferGoesOn
<1>4. QED
  BY <1>2, <1>3

(* The server's steps, for the kinds that are cut into frames.             *)
LEMMA FramedSends ==
    ASSUME TypeOK, kind \in Framed, DownFramed, NEW n \in Nat, ServerSends(n)
    PROVE  DownFramed'
<1>1. PICK T, pos, base, m, limit : Streamed(T, pos, base) /\ Reading(T, pos, base, m, limit)
  BY DEF DownFramed
<1>2. /\ kind = "mux" => n < Wrap
      /\ wire' = wire \o (IF frames = 0 THEN Prelude(kind) ELSE <<>>) \o ServerFrame(kind, frames, sent, n)
      /\ sent' = sent + n /\ frames' = frames + 1 /\ ended = "no"
      /\ UNCHANGED <<kind, ended, state, got>>
  BY DEF ServerSends
<1>3. PICK A, B, X : /\ A = (IF frames = 0 THEN Prelude(kind) ELSE <<>>) /\ B = ServerFrame(kind, frames, sent, n)
                     /\ X = A \o B
  OBVIOUS
<1>4. frames \in Nat /\ sent \in Nat /\ wire \in Seq(Token) /\ kind \in AllKinds
  BY DEF TypeOK
<1>5. X \in Seq(Token) /\ n < Len(X) /\ FrameOf(X, 0, Len(X), sent, n, frames)
  <2>1. X = (IF frames = 0 THEN Prelude(kind) ELSE <<>>) \o ServerFrame(kind, frames, sent, n)
    BY <1>3
  <2>2. kind = "mux" => n < Wrap
    BY <1>2
  <2>3. QED
    BY <1>4, <2>1, <2>2, FrameBuilt
<1>6. A \in Seq(Token)
  <2>1. Prelude(kind) \in Seq(Token)
    BY <1>4, FrontIs
  <2>2. <<>> \in Seq(Token)
    OBVIOUS
  <2>3. QED
    BY <1>3, <2>1, <2>2
<1>7. B \in Seq(Token)
  <2>1. PICK h \in Seq(Token) : ServerFrame(kind, frames, sent, n) = h \o Payload(sent, n)
    BY <1>2, <1>4, HeadIsBuilt
  <2>2. Payload(sent, n) \in Seq(Token)
    BY <1>4, PayloadIs
  <2>3. QED
    BY <1>3, <2>1, <2>2, Joined
<1>8. wire' = wire \o X
  <2>1. wire' = (wire \o A) \o B
    BY <1>2, <1>3
  <2>2. (wire \o A) \o B = wire \o (A \o B)
    BY <1>4, <1>6, <1>7, ConcatAssociative
  <2>3. QED
    BY <1>3, <2>1, <2>2
<1>9. QED
  BY <1>1, <1>2, <1>5, <1>8, ReadingGrows

LEMMA FramedKeepsAlive ==
    ASSUME TypeOK, DownFramed, NEW status_ \in {2, 4}, ServerKeepsAlive(status_)
    PROVE  DownFramed'
<1>1. PICK T, pos, base, m, limit : Streamed(T, pos, base) /\ Reading(T, pos, base, m, limit)
  BY DEF DownFramed
<1>2. /\ kind = "mux" /\ wire' = wire \o MuxHeader(status_, 0) /\ frames' = frames + 1 /\ ended = "no"
      /\ UNCHANGED <<kind, sent, ended, state, got>>
  BY DEF ServerKeepsAlive
<1>3. PICK X : X = MuxHeader(status_, 0)
  OBVIOUS
<1>4. frames \in Nat /\ sent \in Nat
  BY DEF TypeOK
<1>5. X \in Seq(Token) /\ 0 < Len(X) /\ FrameOf(X, 0, Len(X), sent, 0, frames)
  BY <1>2, <1>3, <1>4, KeepAliveBuilt
<1>6. sent' = sent + 0 /\ 0 \in Nat
  BY <1>2, <1>4
<1>7. kind \in Framed /\ wire' = wire \o X
  BY <1>2, <1>3 DEF Framed
<1>8. QED
  BY <1>1, <1>2, <1>5, <1>6, <1>7, ReadingGrows

LEMMA FramedServes ==
    ASSUME TypeOK, kind \in Framed, DownFramed, Server
    PROVE  DownFramed'
<1>1. CASE \E n \in 0..MaxFrame : ServerSends(n)
  BY <1>1, FramedSends
<1>2. CASE \E status_ \in {2, 4} : ServerKeepsAlive(status_)
  BY <1>2, FramedKeepsAlive
<1>3. CASE ServerEnds
  <2>1. /\ ended = "no"
        /\ UNCHANGED <<kind, sent, frames, first, remain, carry, under, count, wire, got>>
    BY <1>3 DEF ServerEnds, state
  <2>2. QED
    BY <2>1, ReadingStays
<1>4. CASE ServerCut
  <2>1. /\ ended' = "cut" /\ UNCHANGED <<kind, sent, frames, state, got>>
        /\ \E n \in 0..Len(wire) : wire' = SubSeq(wire, 1, n)
    BY <1>4 DEF ServerCut
  <2>2. QED
    BY <2>1, ReadingCut
<1>5. QED
  BY <1>1, <1>2, <1>3, <1>4 DEF Server

(* The same for the kinds that put nothing between the bytes.              *)
LEMMA RawGrows ==
    ASSUME TypeOK, kind \in RawKinds, DownRaw, NEW n \in Nat, ServerSends(n)
    PROVE  DownRaw'
<1>1. /\ wire' = wire \o (IF frames = 0 THEN Prelude(kind) ELSE <<>>) \o ServerFrame(kind, frames, sent, n)
      /\ sent' = sent + n /\ frames' = frames + 1 /\ ended = "no"
      /\ kind' = kind /\ ended' = ended /\ first' = first /\ carry' = carry /\ got' = got
  BY DEF ServerSends, state
<1>2. PICK A, P : A = (IF frames = 0 THEN Prelude(kind) ELSE <<>>) /\ P = Payload(sent, n)
  OBVIOUS
<1>3. ServerFrame(kind, frames, sent, n) = P
  BY <1>2 DEF ServerFrame, RawKinds
<1>4. PICK g \in Nat, c \in Nat, w \in Nat : g = Len(got) /\ c = Len(carry) /\ w = Len(wire)
  BY RawIs
<1>5. /\ got \in Seq(Token) /\ carry \in Seq(Token) /\ wire \in Seq(Token) /\ sent \in Nat /\ frames \in Nat
  BY RawIs
<1>6. PICK h \in Nat : h = Ahead
  BY AheadIs
<1>7. P \in Seq(Token) /\ Len(P) = n /\ \A i \in 1..n : P[i] = Tok("byte", sent + i)
  BY <1>2, <1>5, PayloadIs
<1>8. PICK V : V = wire \o A
  OBVIOUS
<1>9. /\ V \in Seq(Token) /\ g + c + Len(V) = sent + h
      /\ \A i \in 1..Len(V) : V[i] = IF i <= h THEN Prelude(kind)[i] ELSE Tok("byte", g + c + (i - h))
  <2>1. CASE frames = 0
    <3>1. first /\ wire = <<>> /\ sent = 0 /\ got = <<>> /\ carry = <<>>
      BY <2>1 DEF DownRaw
    <3>2. Prelude(kind) \in Seq(Token) /\ h = Len(Prelude(kind)) /\ g = 0 /\ c = 0
      BY <1>4, <1>6, <3>1, AheadIs DEF Ahead
    <3>3. <<>> \o Prelude(kind) = Prelude(kind)
      BY <3>2, ConcatEmptySeq
    <3>4. V = Prelude(kind)
      BY <1>2, <1>8, <2>1, <3>1, <3>3
    <3>5. QED
      BY <3>1, <3>2, <3>4
  <2>2. CASE frames # 0
    <3>1. wire \o <<>> = wire
      BY <1>5, ConcatEmptySeq
    <3>2. V = wire
      BY <1>2, <1>8, <2>2, <3>1
    <3>3. Len(got) + Len(carry) + Len(wire) = sent + Ahead
      BY <1>1, <2>2 DEF DownRaw
    <3>4. \A i \in 1..w : wire[i] = IF i <= h THEN Prelude(kind)[i] ELSE Tok("byte", g + c + (i - h))
      BY <1>4, <1>6 DEF DownRaw
    <3>5. QED
      BY <1>4, <1>5, <1>6, <3>2, <3>3, <3>4
  <2>3. QED
    BY <2>1, <2>2
<1>10. PICK v \in Nat : v = Len(V)
  BY <1>9
<1>21. g + c + v = sent + h /\ g \in Nat /\ c \in Nat /\ v \in Nat /\ h \in Nat
  BY <1>4, <1>6, <1>9, <1>10
<1>11. wire' = V \o P
  BY <1>1, <1>2, <1>3, <1>8
<1>12. /\ wire' \in Seq(Token) /\ Len(wire') = v + n
       /\ \A i \in 1..v : wire'[i] = V[i]
       /\ \A i \in 1..n : wire'[v + i] = P[i]
  <2>1. n = Len(P) /\ V \in Seq(Token) /\ P \in Seq(Token)
    BY <1>7, <1>9
  <2>2. QED
    BY ONLY <1>10, <1>11, <2>1, Join
<1>13. ASSUME NEW i \in 1..(v + n)
       PROVE  wire'[i] = IF i <= h THEN Prelude(kind)[i] ELSE Tok("byte", g + c + (i - h))
  <2>1. CASE i <= v
    <3>1. i \in 1..v
      BY <2>1
    <3>2. QED
      BY <1>9, <1>10, <1>12, <3>1
  <2>2. CASE ~(i <= v)
    <3>1. i - v \in 1..n
      BY <2>2
    <3>2. PICK j \in 1..n : j = i - v
      BY <3>1
    <3>3. v + j = i /\ wire'[v + j] = P[j] /\ P[j] = Tok("byte", sent + j)
      BY <1>7, <1>12, <3>2
    <3>4. h <= v
      <4>1. CASE frames = 0
        <5>1. first /\ wire = <<>> /\ sent = 0 /\ got = <<>> /\ carry = <<>>
          BY <4>1 DEF DownRaw
        <5>2. g = 0 /\ c = 0 /\ sent = 0
          BY <1>4, <5>1
        <5>3. QED
          BY <1>9, <1>10, <5>2
      <4>2. CASE frames # 0
        <5>1. CASE first
          <6>1. got = <<>> /\ carry = <<>>
            BY <5>1 DEF DownRaw
          <6>2. g = 0 /\ c = 0
            BY <1>4, <6>1
          <6>3. QED
            BY <1>5, <1>9, <1>10, <6>2
        <5>2. CASE ~first
          <6>1. h = 0
            BY <1>6, <5>2 DEF Ahead
          <6>2. QED
            BY <6>1
        <5>3. QED
          BY <5>1, <5>2
      <4>3. QED
        BY <4>1, <4>2
    <3>5. ~(i <= h) /\ g + c + (i - h) = sent + j
      BY <1>5, <1>21, <2>2, <3>2, <3>4
    <3>6. QED
      BY <3>3, <3>5
  <2>3. QED
    BY <2>1, <2>2
<1>14. Ahead' = h
  BY <1>1, <1>6 DEF Ahead
<1>15. PICK ww : ww = Len(wire') /\ ww = v + n
  BY <1>12
<1>16. \A i \in 1..Len(wire') : wire'[i] = IF i <= Ahead' THEN Prelude(kind')[i]
                                          ELSE Tok("byte", Len(got') + Len(carry') + (i - Ahead'))
  BY <1>1, <1>4, <1>13, <1>14, <1>15
<1>17. Len(got') + Len(carry') + Len(wire') = sent' + Ahead'
  <2>1. g + c + (v + n) = (sent + n) + h
    BY <1>5, <1>21
  <2>2. QED
    BY <1>1, <1>4, <1>12, <1>14, <2>1
<1>18. /\ Numbered(got', 0) /\ Numbered(carry', Len(got'))
       /\ kind' \in {"vmess_http", "snell"} => carry' = <<>>
       /\ first' => got' = <<>> /\ carry' = <<>>
  BY <1>1 DEF DownRaw
<1>19. frames' # 0
  BY <1>1, <1>5
<1>20. QED
  BY <1>16, <1>17, <1>18, <1>19 DEF DownRaw

LEMMA RawStays ==
    ASSUME DownRaw, ended = "cut" => ended' = "cut", UNCHANGED <<kind, sent, frames, first, carry, wire, got>>
    PROVE  DownRaw'
<1>1. Ahead' = Ahead
  BY DEF Ahead
<1>2. /\ kind' = kind /\ sent' = sent /\ frames' = frames /\ first' = first /\ carry' = carry /\ wire' = wire
      /\ got' = got /\ (ended' # "cut" => ended # "cut")
  OBVIOUS
<1>3. QED
  BY <1>1, <1>2 DEF DownRaw, Numbered

LEMMA RawCut ==
    ASSUME TypeOK, kind \in RawKinds, DownRaw, ServerCut
    PROVE  DownRaw'
<1>1. /\ ended' = "cut" /\ kind' = kind /\ sent' = sent /\ frames' = frames /\ got' = got
      /\ first' = first /\ carry' = carry
  BY DEF ServerCut, state
<1>2. PICK n \in 0..Len(wire) : wire' = SubSeq(wire, 1, n)
  BY DEF ServerCut
<1>3. wire \in Seq(Token) /\ Len(wire) \in Nat /\ n \in Nat
  BY RawIs
<1>4. Len(wire') = n /\ \A i \in 1..n : wire'[i] = wire[i]
  <2>1. n - 0 = n /\ 0 + 1 = 1 /\ 0 \in Nat /\ 0 <= n /\ n <= Len(wire) /\ \A i \in 1..n : 0 + i = i
    BY <1>3
  <2>2. Len(SubSeq(wire, 0 + 1, n)) = n - 0 /\ \A i \in 1..(n - 0) : SubSeq(wire, 0 + 1, n)[i] = wire[0 + i]
    BY <1>3, <2>1, PartIs
  <2>3. QED
    BY <1>2, <2>1, <2>2
<1>5. Ahead' = Ahead
  BY <1>1 DEF Ahead
<1>6. PICK w : w = Len(wire') /\ w = n
  BY <1>4
<1>7. \A i \in 1..n : i \in 1..Len(wire)
  BY <1>3
<1>8. \A i \in 1..n : wire'[i] = IF i <= Ahead THEN Prelude(kind)[i]
                                 ELSE Tok("byte", Len(got) + Len(carry) + (i - Ahead))
  BY <1>4, <1>7 DEF DownRaw
<1>9. \A i \in 1..Len(wire') : wire'[i] = IF i <= Ahead' THEN Prelude(kind')[i]
                                         ELSE Tok("byte", Len(got') + Len(carry') + (i - Ahead'))
  BY <1>1, <1>5, <1>6, <1>8
<1>10. frames' = 0 => first' /\ wire' = <<>> /\ sent' = 0
  <2> SUFFICES ASSUME frames' = 0 PROVE first' /\ wire' = <<>> /\ sent' = 0
    OBVIOUS
  <2>1. first /\ wire = <<>> /\ sent = 0
    BY <1>1 DEF DownRaw
  <2>2. n = 0
    BY <1>3, <2>1
  <2>3. wire' = SubSeq(wire, 1, 0)
    BY <1>2, <2>2
  <2>4. SubSeq(wire, 1, 0) = <<>>
    BY SubSeqEmpty
  <2>5. QED
    BY <1>1, <2>1, <2>3, <2>4
<1>11. /\ Numbered(got', 0) /\ Numbered(carry', Len(got'))
       /\ kind' \in {"vmess_http", "snell"} => carry' = <<>>
       /\ first' => got' = <<>> /\ carry' = <<>>
  BY <1>1 DEF DownRaw
<1>12. QED
  BY <1>1, <1>9, <1>10, <1>11 DEF DownRaw

LEMMA RawServes ==
    ASSUME TypeOK, kind \in RawKinds, DownRaw, Server
    PROVE  DownRaw'
<1>1. CASE \E n \in 0..MaxFrame : ServerSends(n)
  BY <1>1, RawGrows
<1>2. CASE \E status_ \in {2, 4} : ServerKeepsAlive(status_)
  BY <1>2 DEF ServerKeepsAlive, RawKinds
<1>3. CASE ServerEnds
  <2>1. ended = "no" /\ UNCHANGED <<kind, sent, frames, first, carry, wire, got>>
    BY <1>3 DEF ServerEnds, state
  <2>2. QED
    BY <2>1, RawStays
<1>4. CASE ServerCut
  BY <1>4, RawCut
<1>5. QED
  BY <1>1, <1>2, <1>3, <1>4 DEF Server

(* The bytes among the tokens, run by run.                                 *)
BytesRun(s, f) ==
    /\ f[0] = <<>> /\ Bytes(s) = f[Len(s)]
    /\ \A i \in 0..Len(s) : f[i] \in Seq(Token)
    /\ \A i \in 1..Len(s) : f[i] = IF s[i].t = "byte" THEN Append(f[i - 1], s[i]) ELSE f[i - 1]

BytesTurn(s, f) ==
    [i \in 0..Len(s) |-> IF i = 0 THEN <<>>
                         ELSE IF s[i].t = "byte" THEN Append(f[i - 1], s[i]) ELSE f[i - 1]]

LEMMA BytesTurnExists ==
    ASSUME NEW s \in Seq(Token)
    PROVE  \E f : f = BytesTurn(s, f)
<1>1. PICK l \in Nat : l = Len(s)
  OBVIOUS
<1> DEFINE P == 0..l
           V == Seq(Token)
           Stop == {0}
           rank == [p \in P |-> p]
           next == [p \in P \ Stop |-> p - 1]
           val == [p \in P |-> <<>>]
           join == [r \in P \X V |-> IF r[1] \notin 1..l THEN r[2]
                                     ELSE IF s[r[1]].t = "byte" THEN Append(r[2], s[r[1]]) ELSE r[2]]
<1>2. Descends(P, rank, Stop, next)
  <2>1. rank \in [P -> Nat] /\ Stop \in SUBSET P
    OBVIOUS
  <2>2. next \in [P \ Stop -> P]
    OBVIOUS
  <2>3. \A p \in P \ Stop : rank[next[p]] < rank[p]
    OBVIOUS
  <2> HIDE DEF P, Stop, rank, next
  <2>4. QED
    BY <2>1, <2>2, <2>3 DEF Descends
<1>3. Gives(P, V, val, join)
  <2>1. val \in [P -> V]
    OBVIOUS
  <2>2. ASSUME NEW r \in P \X V PROVE join[r] \in V
    <3>1. r[2] \in Seq(Token)
      OBVIOUS
    <3>2. CASE r[1] \in 1..l
      <4>1. s[r[1]] \in Token
        BY <1>1, <3>2
      <4>2. Append(r[2], s[r[1]]) \in Seq(Token)
        BY <3>1, <4>1
      <4>3. QED
        BY <3>1, <4>2
    <3>3. CASE r[1] \notin 1..l
      BY <3>1, <3>3
    <3>4. QED
      BY <3>2, <3>3
  <2>3. join \in [P \X V -> V]
    <3> HIDE DEF P, V
    <3>1. QED
      BY <2>2
  <2> HIDE DEF P, V, val, join
  <2>4. QED
    BY <2>1, <2>3 DEF Gives
<1>4. PICK f : Runs(P, Stop, next, V, val, join, f)
  <2> HIDE DEF P, V, Stop, rank, next, val, join
  <2>1. QED
    BY ONLY <1>2, <1>3, LoopExists
<1>5. f \in [P -> V] /\ \A p \in P : f[p] = IF p \in Stop THEN val[p] ELSE join[<<p, f[next[p]]>>]
  <2> HIDE DEF P, V, Stop, next, val, join
  <2>1. QED
    BY <1>4 DEF Runs
<1>6. ASSUME NEW i \in P
      PROVE  f[i] = IF i = 0 THEN <<>> ELSE IF s[i].t = "byte" THEN Append(f[i - 1], s[i]) ELSE f[i - 1]
  <2>1. CASE i = 0
    BY <1>5, <2>1
  <2>2. CASE i # 0
    <3>1. i \in 1..l /\ i - 1 \in P /\ i \in P \ Stop
      BY <2>2
    <3>2. next[i] = i - 1 /\ f[i - 1] \in V
      BY <1>5, <3>1
    <3>3. f[i] = join[<<i, f[i - 1]>>]
      BY <1>5, <3>1, <3>2
    <3>4. <<i, f[i - 1]>> \in P \X V
      BY <3>2
    <3>5. join[<<i, f[i - 1]>>] = IF s[i].t = "byte" THEN Append(f[i - 1], s[i]) ELSE f[i - 1]
      BY <3>1, <3>4
    <3>6. QED
      BY <2>2, <3>3, <3>5
  <2>3. QED
    BY <2>1, <2>2
<1>7. f = [i \in P |-> f[i]]
  <2> HIDE DEF P, V
  <2>1. QED
    BY <1>5
<1>8. P = 0..Len(s)
  BY <1>1
<1>9. f = BytesTurn(s, f)
  <2> HIDE DEF P, V
  <2>1. QED
    BY <1>6, <1>7, <1>8 DEF BytesTurn
<1>10. QED
  BY <1>9

LEMMA BytesRuns ==
    ASSUME NEW s \in Seq(Token)
    PROVE  \E f : BytesRun(s, f)
<1>1. \E g : g = BytesTurn(s, g)
  BY BytesTurnExists
<1>2. PICK f : f = BytesTurn(s, f) /\ Bytes(s) = f[Len(s)]
  BY <1>1, ZenonT(60) DEF Bytes, BytesTurn
<1>3. PICK l \in Nat : l = Len(s)
  OBVIOUS
<1>4. \A i \in 0..l : f[i] = IF i = 0 THEN <<>>
                             ELSE IF s[i].t = "byte" THEN Append(f[i - 1], s[i]) ELSE f[i - 1]
  BY <1>2, <1>3 DEF BytesTurn
<1>5. f[0] = <<>>
  BY <1>4
<1>6. \A i \in 1..l : f[i] = IF s[i].t = "byte" THEN Append(f[i - 1], s[i]) ELSE f[i - 1]
  BY <1>4
<1>7. \A i \in 0..l : f[i] \in Seq(Token)
  <2> DEFINE Bad == {i \in 0..l : f[i] \notin Seq(Token)}
  <2> SUFFICES ASSUME Bad # {} PROVE FALSE
    OBVIOUS
  <2>1. PICK i \in Bad : \A j \in Bad : i <= j
    <3>1. Bad \in SUBSET Nat
      OBVIOUS
    <3> HIDE DEF Bad
    <3>2. QED
      BY <3>1, Least
  <2>2. i \in 0..l /\ f[i] \notin Seq(Token)
    BY <2>1
  <2>3. i # 0
    <3>1. <<>> \in Seq(Token)
      OBVIOUS
    <3>2. f[0] \in Seq(Token)
      BY <1>5, <3>1
    <3>3. QED
      BY <2>2, <3>2
  <2>4. i \in 1..l /\ i - 1 \in 0..l /\ ~(i <= i - 1)
    BY <2>2, <2>3
  <2>5. f[i - 1] \in Seq(Token)
    BY <2>1, <2>4
  <2>6. s[i] \in Token
    BY <1>3, <2>4
  <2>7. Append(f[i - 1], s[i]) \in Seq(Token)
    BY <2>5, <2>6
  <2>8. QED
    BY <1>6, <2>2, <2>4, <2>5, <2>7
<1>8. QED
  BY <1>2, <1>3, <1>5, <1>6, <1>7 DEF BytesRun

LEMMA BytesOfNone ==
    ASSUME NEW s \in Seq(Token), \A i \in 1..Len(s) : s[i].t # "byte"
    PROVE  Bytes(s) = <<>>
<1>1. PICK f : BytesRun(s, f)
  BY BytesRuns
<1>2. PICK l \in Nat : l = Len(s)
  OBVIOUS
<1> DEFINE Bad == {i \in 0..l : f[i] # <<>>}
<1>3. Bad = {}
  <2> SUFFICES ASSUME Bad # {} PROVE FALSE
    OBVIOUS
  <2>1. PICK i \in Bad : \A j \in Bad : i <= j
    <3>1. Bad \in SUBSET Nat
      OBVIOUS
    <3> HIDE DEF Bad
    <3>2. QED
      BY <3>1, Least
  <2>2. i \in 0..l /\ f[i] # <<>>
    BY <2>1
  <2>3. i # 0
    BY <1>1, <2>2 DEF BytesRun
  <2>4. i \in 1..l /\ i - 1 \in 0..l /\ ~(i <= i - 1)
    BY <2>2, <2>3
  <2>5. f[i - 1] = <<>>
    BY <2>1, <2>4
  <2>6. f[i] = f[i - 1]
    BY <1>1, <1>2, <2>4 DEF BytesRun
  <2>7. QED
    BY <2>2, <2>5, <2>6
<1>4. l \in 0..l
  OBVIOUS
<1>5. f[l] = <<>>
  BY <1>3, <1>4
<1>6. QED
  BY <1>1, <1>2, <1>5 DEF BytesRun

LEMMA BytesOfAll ==
    ASSUME NEW s \in Seq(Token), \A i \in 1..Len(s) : s[i].t = "byte"
    PROVE  Bytes(s) = s
<1>1. PICK f : BytesRun(s, f)
  BY BytesRuns
<1>2. PICK l \in Nat : l = Len(s)
  OBVIOUS
<1> DEFINE Good(i) == Len(f[i]) = i /\ \A j \in 1..i : f[i][j] = s[j]
           Bad == {i \in 0..l : ~Good(i)}
<1>3. Bad = {}
  <2> SUFFICES ASSUME Bad # {} PROVE FALSE
    OBVIOUS
  <2> HIDE DEF Good
  <2>1. PICK i \in Bad : \A j \in Bad : i <= j
    <3>1. Bad \in SUBSET Nat
      OBVIOUS
    <3> HIDE DEF Bad
    <3>2. QED
      BY <3>1, Least
  <2>2. i \in 0..l /\ ~Good(i)
    BY <2>1
  <2>3. i # 0
    <3>1. f[0] = <<>>
      BY <1>1 DEF BytesRun
    <3>2. Good(0)
      BY <3>1 DEF Good
    <3>3. QED
      BY <2>2, <3>2
  <2>4. i \in 1..l /\ i - 1 \in 0..l /\ ~(i <= i - 1)
    BY <2>2, <2>3
  <2>5. Good(i - 1)
    BY <2>1, <2>4
  <2>6. PICK a, b : a = f[i - 1] /\ b = f[i]
    OBVIOUS
  <2>7. b = Append(a, s[i]) /\ a \in Seq(Token) /\ s[i] \in Token
    <3>1. s[i].t = "byte" /\ i \in 1..Len(s)
      BY <1>2, <2>4
    <3>2. f[i] = Append(f[i - 1], s[i])
      BY <1>1, <3>1 DEF BytesRun
    <3>3. f[i - 1] \in Seq(Token)
      BY <1>1, <1>2, <2>4 DEF BytesRun
    <3>4. s[i] \in Token
      BY <3>1
    <3>5. QED
      BY <2>6, <3>2, <3>3, <3>4
  <2>8. Len(a) = i - 1 /\ \A j \in 1..(i - 1) : a[j] = s[j]
    BY <2>5, <2>6 DEF Good
  <2>9. Len(b) = i /\ b[i] = s[i] /\ \A j \in 1..(i - 1) : b[j] = a[j]
    <3>1. /\ Len(Append(a, s[i])) = Len(a) + 1 /\ Append(a, s[i])[Len(a) + 1] = s[i]
          /\ \A j \in 1..Len(a) : Append(a, s[i])[j] = a[j]
      BY <2>7, AppendProperties
    <3>2. Len(a) + 1 = i
      BY <2>4, <2>8
    <3>3. QED
      BY <2>7, <2>8, <3>1, <3>2
  <2>10. \A j \in 1..i : b[j] = s[j]
    <3>1. ASSUME NEW j \in 1..i PROVE b[j] = s[j]
      <4>1. j = i \/ j \in 1..(i - 1)
        BY <2>4
      <4>2. QED
        BY <2>8, <2>9, <4>1
    <3>2. QED
      BY <3>1
  <2>11. Good(i)
    BY <2>6, <2>9, <2>10 DEF Good
  <2>12. QED
    BY <2>2, <2>11
<1>4. Good(l)
  <2> HIDE DEF Good
  <2>1. l \in 0..l
    OBVIOUS
  <2>2. QED
    BY <1>3, <2>1
<1>5. PICK b : b = f[l]
  OBVIOUS
<1>6. b \in Seq(Token)
  BY <1>1, <1>2, <1>5 DEF BytesRun
<1>7. Len(b) = l /\ \A j \in 1..l : b[j] = s[j]
  BY <1>4, <1>5
<1>8. b = s
  BY <1>2, <1>6, <1>7, SeqEqual
<1>9. QED
  BY <1>1, <1>2, <1>5, <1>8 DEF BytesRun

LEMMA BytesJoined ==
    ASSUME NEW s \in Seq(Token), NEW t \in Seq(Token)
    PROVE  Bytes(s \o t) = Bytes(s) \o Bytes(t)
<1>1. PICK w, k, l : w = s \o t /\ k = Len(s) /\ l = Len(t)
  OBVIOUS
<1>2. /\ w \in Seq(Token) /\ Len(w) = k + l /\ k \in Nat /\ l \in Nat
      /\ \A i \in 1..k : w[i] = s[i]
      /\ \A i \in 1..l : w[k + i] = t[i]
  BY <1>1, Join
<1>3. PICK f, g, h : BytesRun(s, f) /\ BytesRun(t, g) /\ BytesRun(w, h)
  BY <1>2, BytesRuns
<1>4. /\ f[0] = <<>> /\ Bytes(s) = f[k]
      /\ \A i \in 0..k : f[i] \in Seq(Token)
      /\ \A i \in 1..k : f[i] = IF s[i].t = "byte" THEN Append(f[i - 1], s[i]) ELSE f[i - 1]
  BY <1>1, <1>3 DEF BytesRun
<1>5. /\ g[0] = <<>> /\ Bytes(t) = g[l]
      /\ \A i \in 0..l : g[i] \in Seq(Token)
      /\ \A i \in 1..l : g[i] = IF t[i].t = "byte" THEN Append(g[i - 1], t[i]) ELSE g[i - 1]
  BY <1>1, <1>3 DEF BytesRun
<1>6. /\ h[0] = <<>> /\ Bytes(w) = h[k + l]
      /\ \A i \in 1..(k + l) : h[i] = IF w[i].t = "byte" THEN Append(h[i - 1], w[i]) ELSE h[i - 1]
  BY <1>2, <1>3 DEF BytesRun
<1> DEFINE Bad == {i \in 0..k : h[i] # f[i]}
<1>7. Bad = {}
  <2> SUFFICES ASSUME Bad # {} PROVE FALSE
    OBVIOUS
  <2>1. PICK i \in Bad : \A j \in Bad : i <= j
    <3>1. Bad \in SUBSET Nat
      BY <1>2
    <3> HIDE DEF Bad
    <3>2. QED
      BY <3>1, Least
  <2>2. i \in 0..k /\ h[i] # f[i]
    BY <2>1
  <2>3. i # 0
    BY <1>4, <1>6, <2>2
  <2>4. i \in 1..k /\ i \in 1..(k + l) /\ i - 1 \in 0..k /\ ~(i <= i - 1)
    BY <1>2, <2>2, <2>3
  <2>5. h[i - 1] = f[i - 1]
    BY <2>1, <2>4
  <2>6. w[i] = s[i]
    BY <1>2, <2>4
  <2>7. h[i] = f[i]
    BY <1>4, <1>6, <2>4, <2>5, <2>6
  <2>8. QED
    BY <2>2, <2>7
<1>8. h[k] = f[k]
  <2>1. k \in 0..k
    BY <1>2
  <2>2. QED
    BY <1>7, <2>1
<1>9. PICK a : a = f[k] /\ a \in Seq(Token)
  <2>1. k \in 0..k
    BY <1>2
  <2>2. QED
    BY <1>4, <2>1
<1> DEFINE Wrong == {i \in 0..l : h[k + i] # a \o g[i]}
<1>10. Wrong = {}
  <2> SUFFICES ASSUME Wrong # {} PROVE FALSE
    OBVIOUS
  <2>1. PICK i \in Wrong : \A j \in Wrong : i <= j
    <3>1. Wrong \in SUBSET Nat
      BY <1>2
    <3> HIDE DEF Wrong
    <3>2. QED
      BY <3>1, Least
  <2>2. i \in 0..l /\ h[k + i] # a \o g[i]
    BY <2>1
  <2>3. i # 0
    <3>1. a \o <<>> = a
      BY <1>9, ConcatEmptySeq
    <3>2. h[k + 0] = a
      BY <1>2, <1>8, <1>9
    <3>3. h[k + 0] = a \o g[0]
      BY <1>5, <3>1, <3>2
    <3>4. QED
      BY <2>2, <3>3
  <2>4. i \in 1..l /\ k + i \in 1..(k + l) /\ i - 1 \in 0..l /\ ~(i <= i - 1) /\ k + i - 1 = k + (i - 1)
    BY <1>2, <2>2, <2>3
  <2>5. h[k + (i - 1)] = a \o g[i - 1]
    BY <2>1, <2>4
  <2>6. w[k + i] = t[i] /\ t[i] \in Token
    BY <1>1, <1>2, <2>4
  <2>7. PICK b, x : b = g[i - 1] /\ x = t[i] /\ b \in Seq(Token) /\ x \in Token
    BY <1>5, <2>4, <2>6
  <2>8. h[k + i] = IF x.t = "byte" THEN Append(a \o b, x) ELSE a \o b
    <3>1. h[k + i] = IF w[k + i].t = "byte" THEN Append(h[k + i - 1], w[k + i]) ELSE h[k + i - 1]
      <4>1. PICK z \in 1..(k + l) : z = k + i
        BY <2>4
      <4>2. h[z] = IF w[z].t = "byte" THEN Append(h[z - 1], w[z]) ELSE h[z - 1]
        BY <1>6, <4>1
      <4>3. z - 1 = k + i - 1
        BY <1>2, <2>4, <4>1
      <4>4. QED
        BY <4>1, <4>2, <4>3
    <3>2. h[k + i - 1] = a \o b
      BY <2>4, <2>5, <2>7
    <3>3. QED
      BY <2>6, <2>7, <3>1, <3>2
  <2>9. g[i] = IF x.t = "byte" THEN Append(b, x) ELSE b
    BY <1>5, <2>4, <2>7
  <2>10. Append(a \o b, x) = a \o Append(b, x)
    <3>1. <<x>> \in Seq(Token) /\ a \o b \in Seq(Token)
      BY <1>9, <2>7, Joined
    <3>2. Append(a \o b, x) = (a \o b) \o <<x>>
      BY <2>7, <3>1, AppendIsConcat
    <3>3. Append(b, x) = b \o <<x>>
      BY <2>7, AppendIsConcat
    <3>4. (a \o b) \o <<x>> = a \o (b \o <<x>>)
      <4>1. PICK y : y = <<x>> /\ y \in Seq(Token)
        BY <3>1
      <4>2. (a \o b) \o y = a \o (b \o y)
        <5>1. a \in Seq(Token) /\ b \in Seq(Token) /\ y \in Seq(Token)
          BY <1>9, <2>7, <4>1
        <5>2. QED
          BY ONLY <5>1, JoinedAgain
      <4>3. QED
        BY <4>1, <4>2
    <3>5. QED
      BY <3>2, <3>3, <3>4
  <2>11. QED
    BY <2>2, <2>8, <2>9, <2>10
<1>11. h[k + l] = a \o g[l]
  <2>1. l \in 0..l
    BY <1>2
  <2>2. QED
    BY <1>10, <2>1
<1>12. QED
  BY <1>1, <1>4, <1>5, <1>6, <1>9, <1>11

(* The payload behind tokens that are no bytes.                            *)
LEMMA BytesOfPayload ==
    ASSUME NEW from \in Nat, NEW n \in Nat
    PROVE  Bytes(Payload(from, n)) = Payload(from, n)
<1>1. PICK p : p = Payload(from, n)
  OBVIOUS
<1>2. p \in Seq(Token) /\ Len(p) = n /\ \A i \in 1..n : p[i] = Tok("byte", from + i)
  BY <1>1, PayloadIs
<1>3. \A i \in 1..Len(p) : p[i].t = "byte"
  BY <1>2 DEF Tok
<1>4. Bytes(p) = p
  BY <1>2, <1>3, BytesOfAll
<1>5. QED
  BY <1>1, <1>4

LEMMA BytesBehind ==
    ASSUME NEW h \in Seq(Token), \A i \in 1..Len(h) : h[i].t # "byte", NEW from \in Nat, NEW n \in Nat
    PROVE  Bytes(h \o Payload(from, n)) = Payload(from, n)
<1>1. PICK p : p = Payload(from, n)
  OBVIOUS
<1>2. p \in Seq(Token) /\ Bytes(p) = p
  BY <1>1, PayloadIs, BytesOfPayload
<1>3. Bytes(h \o p) = <<>> \o p
  BY <1>2, BytesJoined, BytesOfNone
<1>4. <<>> \o p = p
  BY <1>2, ConcatEmptySeq
<1>5. QED
  BY <1>1, <1>3, <1>4

(* One payload behind another.                                             *)
LEMMA PayloadJoined ==
    ASSUME NEW from \in Nat, NEW n \in Nat, NEW m \in Nat
    PROVE  Payload(from, n) \o Payload(from + n, m) = Payload(from, n + m)
<1>1. PICK a, b, c : a = Payload(from, n) /\ b = Payload(from + n, m) /\ c = Payload(from, n + m)
  OBVIOUS
<1>2. a \in Seq(Token) /\ Len(a) = n /\ \A i \in 1..n : a[i] = Tok("byte", from + i)
  BY <1>1, PayloadIs
<1>3. b \in Seq(Token) /\ Len(b) = m /\ \A i \in 1..m : b[i] = Tok("byte", (from + n) + i)
  <2>1. PICK f \in Nat : f = from + n
    OBVIOUS
  <2>2. QED
    BY <1>1, <2>1, PayloadIs
<1>4. c \in Seq(Token) /\ Len(c) = n + m /\ \A i \in 1..(n + m) : c[i] = Tok("byte", from + i)
  <2>1. PICK z \in Nat : z = n + m
    OBVIOUS
  <2>2. QED
    BY <1>1, <2>1, PayloadIs
<1>5. PICK w : w = a \o b
  OBVIOUS
<1>6. /\ w \in Seq(Token) /\ Len(w) = n + m
      /\ \A i \in 1..n : w[i] = a[i]
      /\ \A i \in 1..m : w[n + i] = b[i]
  <2>1. n = Len(a) /\ m = Len(b) /\ a \in Seq(Token) /\ b \in Seq(Token)
    BY <1>2, <1>3
  <2>2. QED
    BY ONLY <1>5, <2>1, Join
<1>7. ASSUME NEW i \in 1..(n + m) PROVE w[i] = c[i]
  <2>1. CASE i <= n
    <3>1. i \in 1..n
      BY <2>1
    <3>2. QED
      BY <1>2, <1>4, <1>6, <3>1
  <2>2. CASE ~(i <= n)
    <3>1. i - n \in 1..m
      BY <2>2
    <3>2. PICK j \in 1..m : j = i - n
      BY <3>1
    <3>3. n + j = i /\ (from + n) + j = from + i
      BY <3>2
    <3>4. w[n + j] = b[j] /\ b[j] = Tok("byte", (from + n) + j)
      BY <1>3, <1>6, <3>2
    <3>5. QED
      BY <1>4, <3>3, <3>4
  <2>3. QED
    BY <2>1, <2>2
<1>8. w = c
  <2>1. PICK z \in Nat : z = n + m
    OBVIOUS
  <2>2. w \in Seq(Token) /\ c \in Seq(Token) /\ Len(w) = z /\ Len(c) = z /\ \A i \in 1..z : w[i] = c[i]
    BY <1>4, <1>6, <1>7, <2>1
  <2>3. QED
    BY ONLY <2>2, SeqEqual
<1>9. QED
  BY <1>1, <1>5, <1>8

(* Frames laid one behind the other between two places of s: C are their   *)
(* ends, and byte tells how many bytes the frames before have carried.     *)
Cut(s, c, n, a, b) ==
    /\ c + HeaderLength <= n /\ a <= b
    /\ s[c + HeaderLength].t = "size" /\ s[c + HeaderLength].v = n - (c + HeaderLength)
    /\ Bytes(SubSeq(s, c + HeaderLength + 1, n)) = Payload(a, b - a)

Cuts(s, low, high, from, to, C, byte) ==
    /\ C \in SUBSET (low..high) /\ low \in C /\ high \in C
    /\ byte \in [Nat -> Nat] /\ byte[low] = from /\ byte[high] = to
    /\ \A c \in C \ {high} : \E n \in C : c < n /\ Cut(s, c, n, byte[c], byte[n])

Layout(s, low, high, from, to) == \E C, byte : Cuts(s, low, high, from, to, C, byte)

LEMMA HeaderLengthIs == HeaderLength \in {1, 2, 4} /\ HeaderLength \in Nat /\ HeaderLength # 0
<1>1. HeaderLength \in {1, 2, 4}
  BY DEF HeaderLength
<1>2. QED
  BY <1>1

LEMMA LayoutOfNothing ==
    ASSUME NEW s, NEW low \in Nat, NEW from \in Nat
    PROVE  Layout(s, low, low, from, from)
<1>1. PICK C, byte : C = {low} /\ byte = [c \in Nat |-> from]
  OBVIOUS
<1>2. C \in SUBSET (low..low) /\ low \in C /\ byte \in [Nat -> Nat] /\ byte[low] = from /\ C \ {low} = {}
  BY <1>1
<1>3. Cuts(s, low, low, from, from, C, byte)
  BY <1>2 DEF Cuts
<1>4. QED
  BY <1>3 DEF Layout

LEMMA LayoutJoined ==
    ASSUME NEW s, NEW low \in Nat, NEW mid \in Nat, NEW high \in Nat, low <= mid, mid <= high,
           NEW from, NEW by, NEW to, Layout(s, low, mid, from, by), Layout(s, mid, high, by, to)
    PROVE  Layout(s, low, high, from, to)
<1>1. PICK A, a : Cuts(s, low, mid, from, by, A, a)
  BY DEF Layout
<1>2. PICK B, b : Cuts(s, mid, high, by, to, B, b)
  BY DEF Layout
<1>3. PICK C, byte : C = A \cup B /\ byte = [p \in Nat |-> IF p <= mid THEN a[p] ELSE b[p]]
  OBVIOUS
<1>4. /\ A \in SUBSET (low..mid) /\ low \in A /\ mid \in A /\ a \in [Nat -> Nat] /\ a[low] = from /\ a[mid] = by
      /\ B \in SUBSET (mid..high) /\ mid \in B /\ high \in B /\ b \in [Nat -> Nat] /\ b[mid] = by /\ b[high] = to
  BY <1>1, <1>2 DEF Cuts
<1>5. byte \in [Nat -> Nat]
  BY <1>3, <1>4
<1>6. \A p \in A : p \in Nat /\ byte[p] = a[p]
  BY <1>3, <1>4
<1>7. \A p \in B : p \in Nat /\ byte[p] = b[p]
  <2>1. ASSUME NEW p \in B PROVE p \in Nat /\ byte[p] = b[p]
    <3>1. p \in Nat /\ mid <= p
      BY <1>4
    <3>2. CASE p = mid
      BY <1>3, <1>4, <3>1, <3>2
    <3>3. CASE p # mid
      <4>1. ~(p <= mid)
        BY <3>1, <3>3
      <4>2. QED
        BY <1>3, <3>1, <4>1
    <3>4. QED
      BY <3>2, <3>3
  <2>2. QED
    BY <2>1
<1>8. C \in SUBSET (low..high) /\ low \in C /\ high \in C /\ byte[low] = from /\ byte[high] = to
  BY <1>3, <1>4, <1>6, <1>7
<1>9. ASSUME NEW c \in C \ {high} PROVE \E n \in C : c < n /\ Cut(s, c, n, byte[c], byte[n])
  <2>1. CASE c \in A \ {mid}
    <3>1. PICK n \in A : c < n /\ Cut(s, c, n, a[c], a[n])
      BY <1>1, <2>1 DEF Cuts
    <3>2. QED
      BY <1>3, <1>6, <2>1, <3>1
  <2>2. CASE c \in B
    <3>1. PICK n \in B : c < n /\ Cut(s, c, n, b[c], b[n])
      BY <1>2, <2>2 DEF Cuts
    <3>2. QED
      BY <1>3, <1>7, <2>2, <3>1
  <2>3. QED
    BY <1>3, <1>4, <2>1, <2>2
<1>10. Cuts(s, low, high, from, to, C, byte)
  BY <1>5, <1>8, <1>9 DEF Cuts
<1>11. QED
  BY <1>10 DEF Layout

(* The same tokens elsewhere.                                              *)
LEMMA CutMoved ==
    ASSUME NEW s \in Seq(Token), NEW t \in Seq(Token), NEW c \in Nat, NEW n \in Nat, n <= Len(s),
           NEW d \in Nat, NEW m \in Nat, m <= Len(t), m - d = n - c,
           \A i \in 1..(n - c) : t[d + i] = s[c + i],
           NEW a, NEW b, Cut(s, c, n, a, b)
    PROVE  Cut(t, d, m, a, b)
<1>1. PICK h \in Nat : h = HeaderLength /\ h # 0
  BY HeaderLengthIs
<1>2. /\ c + h <= n /\ a <= b /\ s[c + h].t = "size" /\ s[c + h].v = n - (c + h)
      /\ Bytes(SubSeq(s, c + h + 1, n)) = Payload(a, b - a)
  BY <1>1 DEF Cut
<1>3. d + h <= m /\ h \in 1..(n - c) /\ n - (c + h) = m - (d + h)
  <2>1. m - d = n - c /\ c + h <= n /\ h # 0
    BY <1>1, <1>2
  <2>2. QED
    BY ONLY <2>1, c \in Nat, n \in Nat, d \in Nat, m \in Nat, h \in Nat
<1>4. t[d + h] = s[c + h]
  BY <1>3
<1>5. PICK p \in Nat, l \in Nat : p = c + h /\ l = n - p
  BY <1>1, <1>2
<1>6. PICK o \in Nat : o = d + h /\ l = m - o /\ o <= m
  BY <1>1, <1>3, <1>5
<1>7. PICK x, y : x = SubSeq(s, p + 1, n) /\ y = SubSeq(t, o + 1, m)
  OBVIOUS
<1>8. x \in Seq(Token) /\ Len(x) = l /\ \A i \in 1..l : x[i] = s[p + i]
  <2>1. p <= n /\ n <= Len(s) /\ s \in Seq(Token) /\ n - p = l
    BY <1>1, <1>2, <1>5
  <2>2. SubSeq(s, p + 1, n) \in Seq(Token) /\ Len(SubSeq(s, p + 1, n)) = n - p
        /\ \A i \in 1..(n - p) : SubSeq(s, p + 1, n)[i] = s[p + i]
    BY ONLY <2>1, <1>5, PartIs
  <2>3. QED
    BY ONLY <2>1, <2>2, <1>7
<1>9. y \in Seq(Token) /\ Len(y) = l /\ \A i \in 1..l : y[i] = t[o + i]
  <2>1. o <= m /\ m <= Len(t) /\ t \in Seq(Token) /\ m - o = l
    BY <1>6
  <2>2. SubSeq(t, o + 1, m) \in Seq(Token) /\ Len(SubSeq(t, o + 1, m)) = m - o
        /\ \A i \in 1..(m - o) : SubSeq(t, o + 1, m)[i] = t[o + i]
    BY ONLY <2>1, <1>6, PartIs
  <2>3. QED
    BY ONLY <2>1, <2>2, <1>7
<1>10. ASSUME NEW i \in 1..l PROVE x[i] = y[i]
  <2>1. h + i \in 1..(n - c) /\ d + (h + i) = o + i /\ c + (h + i) = p + i
    BY <1>1, <1>5, <1>6
  <2>2. t[d + (h + i)] = s[c + (h + i)]
    BY <2>1
  <2>3. QED
    BY <1>8, <1>9, <2>1, <2>2
<1>11. x = y
  BY <1>8, <1>9, <1>10, SeqEqual
<1>12. Bytes(SubSeq(t, d + h + 1, m)) = Payload(a, b - a)
  <2>1. Bytes(x) = Payload(a, b - a)
    BY <1>2, <1>5, <1>7
  <2>2. QED
    BY <1>6, <1>7, <1>11, <2>1
<1>13. QED
  BY <1>1, <1>2, <1>3, <1>4, <1>12 DEF Cut

LEMMA LayoutMoved ==
    ASSUME NEW s \in Seq(Token), NEW t \in Seq(Token), NEW low \in Nat, NEW high \in Nat, low <= high,
           high <= Len(s), NEW to \in Nat, NEW last \in Nat, last <= Len(t), last - to = high - low,
           \A i \in 1..(high - low) : t[to + i] = s[low + i],
           NEW a, NEW b, Layout(s, low, high, a, b)
    PROVE  Layout(t, to, last, a, b)
<1>1. PICK C, byte : Cuts(s, low, high, a, b, C, byte)
  BY DEF Layout
<1>2. /\ C \in SUBSET (low..high) /\ low \in C /\ high \in C
      /\ byte \in [Nat -> Nat] /\ byte[low] = a /\ byte[high] = b
      /\ \A c \in C \ {high} : \E n \in C : c < n /\ Cut(s, c, n, byte[c], byte[n])
  BY <1>1 DEF Cuts
<1>3. PICK D : D = {p \in to..last : low + (p - to) \in C}
  OBVIOUS
<1>4. PICK g : g = [p \in Nat |-> IF p \in to..last THEN byte[low + (p - to)] ELSE 0]
  OBVIOUS
<1>5. g \in [Nat -> Nat]
  <2>1. ASSUME NEW p \in Nat PROVE g[p] \in Nat
    <3>1. CASE p \in to..last
      <4>1. low + (p - to) \in Nat
        BY <3>1
      <4>2. QED
        BY <1>2, <1>4, <3>1, <4>1
    <3>2. CASE p \notin to..last
      BY <1>4, <3>2
    <3>3. QED
      BY <3>1, <3>2
  <2>2. QED
    BY <1>4, <2>1
<1>6. to <= last /\ low + (to - to) = low /\ low + (last - to) = high
  OBVIOUS
<1>7. D \in SUBSET (to..last) /\ to \in D /\ last \in D /\ g[to] = a /\ g[last] = b
  <2>1. to \in to..last /\ last \in to..last
    BY <1>6
  <2>2. D \in SUBSET (to..last)
    BY <1>3
  <2>3. to \in D
    BY <1>2, <1>3, <1>6, <2>1
  <2>4. last \in D
    BY <1>2, <1>3, <1>6, <2>1
  <2>5. g[to] = a
    BY <1>2, <1>4, <1>6, <2>1
  <2>6. g[last] = b
    BY <1>2, <1>4, <1>6, <2>1
  <2>7. QED
    BY <2>2, <2>3, <2>4, <2>5, <2>6
<1>8. ASSUME NEW d \in D \ {last} PROVE \E m \in D : d < m /\ Cut(t, d, m, g[d], g[m])
  <2>1. PICK c \in Nat : c = low + (d - to) /\ c \in C /\ c # high /\ d \in to..last /\ d \in Nat
    BY <1>3, <1>6
  <2>2. PICK n \in C : c < n /\ Cut(s, c, n, byte[c], byte[n])
    BY <1>2, <2>1
  <2>3. n \in low..high /\ n \in Nat
    BY <1>2
  <2>4. PICK m \in Nat : m = to + (n - low)
    BY <2>3
  <2>5. m \in to..last /\ low + (m - to) = n /\ d < m /\ m - d = n - c
    BY <1>6, <2>1, <2>2, <2>3, <2>4
  <2>6. m \in D /\ g[m] = byte[n] /\ g[d] = byte[c]
    BY <1>3, <1>4, <2>1, <2>5
  <2>7. \A i \in 1..(n - c) : t[d + i] = s[c + i]
    <3>1. ASSUME NEW i \in 1..(n - c) PROVE t[d + i] = s[c + i]
      <4>1. (d - to) + i \in 1..(high - low) /\ to + ((d - to) + i) = d + i /\ low + ((d - to) + i) = c + i
        BY <2>1, <2>3
      <4>2. t[to + ((d - to) + i)] = s[low + ((d - to) + i)]
        BY <4>1
      <4>3. QED
        BY <4>1, <4>2
    <3>2. QED
      BY <3>1
  <2>8. n <= Len(s) /\ m <= Len(t)
    <3>1. PICK p \in Nat, r \in Nat : p = Len(s) /\ r = Len(t)
      OBVIOUS
    <3>2. n <= p /\ m <= r
      BY <2>3, <2>5, <3>1
    <3>3. QED
      BY <3>1, <3>2
  <2>9. Cut(t, d, m, byte[c], byte[n])
    <3>1. s \in Seq(Token) /\ t \in Seq(Token) /\ c \in Nat /\ n \in Nat /\ d \in Nat /\ m \in Nat
      BY <2>1, <2>3, <2>4
    <3>2. Cut(s, c, n, byte[c], byte[n]) /\ m - d = n - c
      BY <2>2, <2>5
    <3>3. QED
      BY ONLY <3>1, <3>2, <2>7, <2>8, CutMoved
  <2>10. QED
    BY <2>5, <2>6, <2>9
<1>9. Cuts(t, to, last, a, b, D, g)
  BY <1>5, <1>7, <1>8 DEF Cuts
<1>10. QED
  BY <1>9 DEF Layout

-----------------------------------------------------------------------------
(* The types: Reads.                                                       *)
LEMMA DeliveredTypes ==
    ASSUME TypeOK, NEW skip \in Nat, NEW n \in Nat, Deliver(skip, n)
    PROVE  wire' \in Seq(Token) /\ got' \in Seq(Token)
<1>1. wire \in Seq(Token) /\ got \in Seq(Token)
  BY DEF TypeOK
<1>2. QED
  BY <1>1, DeliverIs

LEMMA BufferTypes ==
    ASSUME TypeOK, NEW buf \in Seq(Token), NEW cap \in Nat, DeliverBuffered(buf, cap)
    PROVE  got' \in Seq(Token) /\ carry' \in Seq(Token)
<1>1. PICK l \in Nat, k \in Nat : l = Len(buf) /\ k = Lower(cap, l) /\ k <= l
  BY DEF Lower
<1>2. got \in Seq(Token) /\ 1 \in Nat /\ cap + 1 \in Nat /\ cap + 1 # 0
  BY DEF TypeOK
<1>3. SubSeq(buf, 1, k) \in Seq(Token)
  BY <1>1, AnyPart
<1>4. SubSeq(buf, cap + 1, l) \in Seq(Token)
  BY <1>1, <1>2, AnyPart
<1>5. got' = got \o SubSeq(buf, 1, k) /\ carry' = SubSeq(buf, cap + 1, l)
  BY <1>1 DEF DeliverBuffered
<1>6. QED
  BY <1>2, <1>3, <1>4, <1>5

(* A step of Read that leaves the sender alone.                            *)
LEMMA ReadTypes ==
    ASSUME TypeOK, UNCHANGED peer, first' \in BOOLEAN, over' \in BOOLEAN, astray' \in BOOLEAN,
           remain' \in Nat, opts' \in Nat, count' \in Nat,
           carry' \in Seq(Token), under' \in Seq(Token), wire' \in Seq(Token), got' \in Seq(Token)
    PROVE  TypeOK'
<1>1. \A s \in {wire', carry', under', got'} : s \in Seq(Token)
  OBVIOUS
<1>2. UNCHANGED <<kind, dir, sent, frames, ended>>
  BY DEF peer
<1>3. QED
  BY <1>1, <1>2 DEF TypeOK

LEMMA StateTypes ==
    ASSUME TypeOK
    PROVE  /\ first \in BOOLEAN /\ over \in BOOLEAN /\ astray \in BOOLEAN
           /\ remain \in Nat /\ opts \in Nat /\ count \in Nat
           /\ carry \in Seq(Token) /\ under \in Seq(Token) /\ wire \in Seq(Token) /\ got \in Seq(Token)
BY DEF TypeOK

LEMMA FailTypes == ASSUME TypeOK, Fail PROVE TypeOK'
BY StateTypes, ReadTypes DEF Fail, state

LEMMA CarryTypes ==
    ASSUME TypeOK, NEW cap \in Nat, ReadCarry(cap)
    PROVE  TypeOK'
<1>1. carry \in Seq(Token) /\ DeliverBuffered(carry, cap)
  BY StateTypes DEF ReadCarry
<1>2. got' \in Seq(Token) /\ carry' \in Seq(Token)
  BY <1>1, BufferTypes
<1>3. QED
  BY <1>2, StateTypes, ReadTypes DEF ReadCarry, Kept

(* Delivering n tokens of the wire, and counting what is left of a frame.  *)
LEMMA DeliverTypes ==
    ASSUME TypeOK, NEW skip \in Nat, NEW n \in Nat, Deliver(skip, n), first' \in BOOLEAN, remain' \in Nat,
           opts' \in Nat, UNCHANGED <<peer, carry, under, count, over, astray>>
    PROVE  TypeOK'
BY StateTypes, DeliveredTypes, ReadTypes

LEMMA RawReadTypes ==
    ASSUME TypeOK, NEW cap \in Nat, ReadRaw(cap), UNCHANGED <<first, remain, carry>>, Kept
    PROVE  TypeOK'
<1>1. PICK n \in 1..Lower(cap, Len(wire)) : Deliver(0, n)
  BY DEF ReadRaw
<1>2. n \in Nat /\ 0 \in Nat
  BY <1>1
<1>3. QED
  BY <1>1, <1>2, StateTypes, DeliverTypes DEF Kept

LEMMA SegmentTypes ==
    ASSUME TypeOK, kind \in RawKinds, NEW cap \in Nat, ReadFirstSegment(cap)
    PROVE  TypeOK'
<1>1. PICK n \in 1..Len(wire) :
        IF \E i \in 1..n : wire[i].t = "end"
        THEN /\ first' = FALSE
             /\ DeliverBuffered(SubSeq(wire, Len(Prelude(kind)) + 1, n), cap)
             /\ wire' = SubSeq(wire, n + 1, Len(wire))
             /\ UNCHANGED <<peer, remain, under, opts, count, over, astray>>
        ELSE Fail
  BY DEF ReadFirstSegment
<1>2. CASE Fail
  BY <1>2, FailTypes
<1>3. CASE ~Fail
  <2>1. wire \in Seq(Token) /\ n \in Nat /\ n <= Len(wire) /\ n + 1 \in Nat /\ n + 1 # 0 /\ Len(wire) \in Nat
    BY <1>1, StateTypes
  <2>2. PICK p \in Nat : p = Len(Prelude(kind)) + 1 /\ p # 0
    BY AheadIs
  <2>3. SubSeq(wire, p, n) \in Seq(Token)
    BY <2>1, <2>2, AnyPart
  <2>4. SubSeq(wire, n + 1, Len(wire)) \in Seq(Token)
    BY <2>1, AnyPart
  <2>5. DeliverBuffered(SubSeq(wire, p, n), cap)
    BY <1>1, <1>3, <2>2
  <2>6. got' \in Seq(Token) /\ carry' \in Seq(Token)
    BY <2>3, <2>5, BufferTypes
  <2>7. QED
    BY <1>1, <1>3, <2>4, <2>6, StateTypes, ReadTypes
<1>4. QED
  BY <1>2, <1>3

LEMMA HTTPReadTypes ==
    ASSUME TypeOK, NEW cap \in Nat, HTTPObfsRead(cap) \/ HTTPSimpleRead(cap)
    PROVE  TypeOK'
<1>1. kind \in RawKinds
  BY DEF HTTPObfsRead, HTTPSimpleRead, RawKinds
<1>2. CASE ReadCarry(cap)
  BY <1>2, CarryTypes
<1>3. CASE ReadFirstSegment(cap)
  BY <1>1, <1>3, SegmentTypes
<1>4. CASE ReadRaw(cap) /\ UNCHANGED <<first, remain, carry>> /\ Kept
  BY <1>4, RawReadTypes
<1>5. QED
  BY <1>2, <1>3, <1>4 DEF HTTPObfsRead, HTTPSimpleRead

LEMMA LineReadTypes ==
    ASSUME TypeOK, NEW cap \in Nat, VmessHTTPRead(cap) \/ SnellRead(cap)
    PROVE  TypeOK'
<1>1. PICK skip \in Nat, n \in Nat : Deliver(skip, n)
  <2>1. CASE VmessHTTPRead(cap)
    <3>1. PICK skip, n : skip = (IF first THEN Len(Prelude(kind)) ELSE 0)
                         /\ n \in 1..Lower(cap, Len(wire) - skip) /\ Deliver(skip, n)
      BY <2>1 DEF VmessHTTPRead
    <3>2. kind \in RawKinds
      BY <2>1 DEF VmessHTTPRead, RawKinds
    <3>3. skip \in Nat /\ n \in Nat
      BY <3>1, <3>2, AheadIs
    <3>4. QED
      BY <3>1, <3>3
  <2>2. CASE SnellRead(cap)
    <3>1. PICK skip, n : skip = (IF first THEN 1 ELSE 0)
                         /\ n \in 1..Lower(cap, Len(wire) - skip) /\ Deliver(skip, n)
      BY <2>2 DEF SnellRead
    <3>2. skip \in Nat /\ n \in Nat
      BY <3>1
    <3>3. QED
      BY <3>1, <3>2
  <2>3. QED
    BY <2>1, <2>2
<1>2. first' = FALSE /\ UNCHANGED <<remain, carry>> /\ Kept
  BY DEF VmessHTTPRead, SnellRead
<1>3. QED
  BY <1>1, <1>2, StateTypes, DeliverTypes DEF Kept

LEMMA FieldTypes == ASSUME TypeOK, NEW i \in 1..Len(wire) PROVE wire[i].v \in Nat
<1>1. wire \in Seq(Token)
  BY StateTypes
<1>2. wire[i] \in Token
  BY <1>1
<1>3. QED
  BY <1>2 DEF Token

LEMMA RestTypes ==
    ASSUME TypeOK, NEW cap \in Nat, ReadRest(cap)
    PROVE  TypeOK'
<1>1. PICK n \in Nat : n = Lower(remain, cap) /\ n <= remain
  <2>1. remain \in Nat
    BY StateTypes
  <2>2. QED
    BY <2>1 DEF Lower
<1>2. Deliver(0, n) /\ remain' = remain - n /\ UNCHANGED <<first, carry>> /\ Kept
  BY <1>1 DEF ReadRest
<1>3. remain - n \in Nat
  BY <1>1, StateTypes
<1>4. QED
  BY <1>1, <1>2, <1>3, StateTypes, DeliverTypes DEF Kept

LEMMA PartTypes ==
    ASSUME TypeOK, NEW cap \in Nat, NEW n \in 1..Lower(Lower(cap, remain), Len(wire)),
           Deliver(0, n), remain' = remain - n, UNCHANGED <<first, carry>>, Kept
    PROVE  TypeOK'
<1>1. remain \in Nat /\ Len(wire) \in Nat
  BY StateTypes
<1>2. n \in Nat /\ n <= remain
  BY <1>1 DEF Lower
<1>3. remain - n \in Nat
  BY <1>1, <1>2
<1>4. QED
  BY <1>2, <1>3, StateTypes, DeliverTypes DEF Kept

LEMMA TLSReadTypes ==
    ASSUME TypeOK, NEW cap \in Nat, TLSObfsRead(cap)
    PROVE  TypeOK'
<1>1. CASE ReadRest(cap)
  BY <1>1, RestTypes
<1>2. CASE ~ReadRest(cap)
  <2>1. PICK skip : /\ skip = (IF first THEN 3 ELSE 2) /\ Len(wire) >= skip
                    /\ TLSReadFrame(cap, skip) /\ first' = FALSE /\ UNCHANGED carry /\ Kept
    BY <1>2 DEF TLSObfsRead
  <2>2. skip \in 1..Len(wire) /\ skip \in Nat
    BY <2>1, StateTypes
  <2>3. PICK size \in Nat : size = wire[skip].v
    BY <2>2, FieldTypes
  <2>4. \E n \in Nat : Deliver(skip, n) /\ remain' \in Nat
    <3>1. CASE size > cap
      <4>1. PICK n \in 1..Lower(cap, Len(wire) - skip) : Deliver(skip, n) /\ remain' = size - n
        BY <2>1, <2>3, <3>1 DEF TLSReadFrame
      <4>2. n \in Nat /\ n <= cap
        BY <2>2, StateTypes DEF Lower
      <4>3. size - n \in Nat
        BY <3>1, <4>2
      <4>4. QED
        BY <4>1, <4>2, <4>3
    <3>2. CASE ~(size > cap)
      BY <2>1, <2>3, <3>2 DEF TLSReadFrame
    <3>3. QED
      BY <3>1, <3>2
  <2>5. QED
    BY <2>1, <2>2, <2>4, StateTypes, DeliverTypes DEF Kept
<1>3. QED
  BY <1>1, <1>2

LEMMA GunReadTypes ==
    ASSUME TypeOK, NEW cap \in Nat, GunRead(cap)
    PROVE  TypeOK'
<1>1. CASE ReadRest(cap)
  BY <1>1, RestTypes
<1>2. CASE ~ReadRest(cap)
  <2>1. /\ Len(wire) >= 2 /\ Deliver(2, Lower(wire[2].v, cap))
        /\ remain' = wire[2].v - Lower(wire[2].v, cap) /\ UNCHANGED <<first, carry>> /\ Kept
    BY <1>2 DEF GunRead
  <2>2. PICK x \in Nat : x = wire[2].v
    BY <2>1, StateTypes, FieldTypes
  <2>3. PICK n \in Nat : n = Lower(x, cap) /\ n <= x
    BY LowerIs
  <2>4. Deliver(2, n) /\ remain' \in Nat
    BY <2>1, <2>2, <2>3
  <2>5. QED
    BY <2>1, <2>4, StateTypes, DeliverTypes DEF Kept
<1>3. QED
  BY <1>1, <1>2

LEMMA WebsocketReadTypes ==
    ASSUME TypeOK, NEW cap \in Nat, WebsocketRead(cap)
    PROVE  TypeOK'
<1>1. UNCHANGED <<first, carry>> /\ Kept
  BY DEF WebsocketRead
<1>2. CASE \E n \in 1..Lower(Lower(cap, remain), Len(wire)) : Deliver(0, n) /\ remain' = remain - n
  BY <1>1, <1>2, PartTypes
<1>3. CASE Len(wire) >= 1 /\ Deliver(1, 0) /\ remain' = wire[1].v
  <2>1. wire[1].v \in Nat
    BY <1>3, StateTypes, FieldTypes
  <2>2. QED
    BY <1>1, <1>3, <2>1, StateTypes, DeliverTypes DEF Kept
<1>4. QED
  BY <1>2, <1>3 DEF WebsocketRead

(* A whole frame taken into the buffer.                                    *)
LEMMA WholeTypes ==
    ASSUME TypeOK, NEW cap \in Nat, NEW skip \in Nat, NEW size \in Nat, Len(wire) >= skip + size,
           DeliverBuffered(SubSeq(wire, skip + 1, skip + size), cap),
           wire' = SubSeq(wire, skip + size + 1, Len(wire)), first' = FALSE, count' \in Nat,
           UNCHANGED <<remain, peer, under, opts, over, astray>>
    PROVE  TypeOK'
<1>1. wire \in Seq(Token) /\ Len(wire) \in Nat
  BY StateTypes
<1>2. SubSeq(wire, skip + 1, skip + size) \in Seq(Token)
  <2>1. skip + 1 \in Nat /\ skip + 1 # 0 /\ skip + size \in Nat /\ skip + size <= Len(wire)
    BY <1>1
  <2>2. QED
    BY <1>1, <2>1, AnyPart
<1>3. SubSeq(wire, skip + size + 1, Len(wire)) \in Seq(Token)
  <2>1. skip + size + 1 \in Nat /\ skip + size + 1 # 0
    OBVIOUS
  <2>2. QED
    BY <1>1, <2>1, AnyPart
<1>4. got' \in Seq(Token) /\ carry' \in Seq(Token)
  BY <1>2, BufferTypes
<1>5. QED
  BY <1>3, <1>4, StateTypes, ReadTypes

LEMMA ChunkReadTypes ==
    ASSUME TypeOK, NEW cap \in Nat, ChunkRead(cap)
    PROVE  TypeOK'
<1>1. CASE ReadCarry(cap)
  BY <1>1, CarryTypes
<1>2. CASE Fail
  BY <1>2, FailTypes
<1>3. CASE ~ReadCarry(cap) /\ ~Fail
  <2>1. PICK skip, size :
           /\ skip = VmessSkip + 1 /\ size = wire[skip].v /\ Len(wire) >= skip /\ Len(wire) >= skip + size
           /\ DeliverBuffered(SubSeq(wire, skip + 1, skip + size), cap)
           /\ wire' = SubSeq(wire, skip + size + 1, Len(wire))
           /\ first' = FALSE /\ UNCHANGED remain /\ Kept
    BY <1>3 DEF ChunkRead
  <2>2. skip \in Nat /\ skip \in 1..Len(wire)
    BY <2>1, StateTypes DEF VmessSkip
  <2>3. size \in Nat
    BY <2>1, <2>2, FieldTypes
  <2>4. QED
    BY <2>1, <2>2, <2>3, StateTypes, WholeTypes DEF Kept
<1>4. QED
  BY <1>1, <1>2, <1>3

LEMMA AEADReadTypes ==
    ASSUME TypeOK, NEW cap \in Nat, AEADRead(cap)
    PROVE  TypeOK'
<1>1. CASE ReadCarry(cap)
  BY <1>1, CarryTypes
<1>2. CASE Fail
  BY <1>2, FailTypes
<1>3. CASE ~ReadCarry(cap) /\ ~Fail
  <2>1. PICK skip, size :
           /\ skip = VmessSkip + 2 /\ size = wire[skip].v /\ Len(wire) >= skip /\ Len(wire) >= skip + size
           /\ DeliverBuffered(SubSeq(wire, skip + 1, skip + size), cap)
           /\ wire' = SubSeq(wire, skip + size + 1, Len(wire))
           /\ first' = FALSE /\ count' = count + 1
           /\ UNCHANGED <<remain, peer, under, opts, over, astray>>
    BY <1>3 DEF AEADRead
  <2>2. skip \in Nat /\ skip \in 1..Len(wire)
    BY <2>1, StateTypes DEF VmessSkip
  <2>5. size \in Nat
    <3>1. wire[skip].v \in Nat
      BY <2>2, FieldTypes
    <3>2. QED
      BY ONLY <2>1, <3>1
  <2>6. count' \in Nat
    <3>1. count \in Nat
      BY StateTypes
    <3>2. QED
      BY ONLY <2>1, <3>1
  <2>3. size \in Nat /\ count' \in Nat
    BY <2>5, <2>6
  <2>4. QED
    BY <2>1, <2>2, <2>3, StateTypes, WholeTypes
<1>4. QED
  BY <1>1, <1>2, <1>3

LEMMA MuxReadTypes ==
    ASSUME TypeOK, NEW cap \in Nat, MuxRead(cap)
    PROVE  TypeOK'
<1>1. CASE Fail
  BY <1>1, FailTypes
<1>2. CASE /\ \E n \in 1..Lower(Lower(cap, remain), Len(wire)) : Deliver(0, n) /\ remain' = remain - n
           /\ UNCHANGED <<first, carry>> /\ Kept
  BY <1>2, PartTypes
<1>3. CASE /\ Len(wire) >= 3 /\ Deliver(3, 0) /\ opts' = wire[3].v
           /\ UNCHANGED <<peer, first, remain, carry, under, count, over, astray>>
  <2>1. wire[3].v \in Nat
    BY <1>3, StateTypes, FieldTypes
  <2>2. QED
    BY <1>3, <2>1, StateTypes, DeliverTypes
<1>4. CASE /\ Len(wire) >= 4
           /\ \E n \in 0..Lower(cap, wire[4].v) : Deliver(4, n) /\ remain' = wire[4].v - n
           /\ opts' = 1 /\ UNCHANGED <<peer, first, carry, under, count, over, astray>>
  <2>1. PICK x \in Nat : x = wire[4].v
    BY <1>4, StateTypes, FieldTypes
  <2>2. PICK n \in 0..Lower(cap, x) : Deliver(4, n) /\ remain' = x - n
    BY <1>4, <2>1
  <2>3. n \in Nat /\ n <= x
    BY DEF Lower
  <2>4. x - n \in Nat
    BY <2>3
  <2>5. QED
    BY <1>4, <2>2, <2>3, <2>4, StateTypes, DeliverTypes
<1>5. QED
  BY <1>1, <1>2, <1>3, <1>4 DEF MuxRead

(* What the decoders return has its types.                                 *)
LEMMA TurnTypes ==
    ASSUME NEW src \in Seq(Token), NEW ids \in BOOLEAN, NEW least \in Nat, NEW i \in 0..Len(src), NEW id \in Nat,
           NEW data, NEW f,
           i + 2 <= Len(src) /\ i + 2 + src[i + 2].v <= Len(src) /\ ~(src[i + 2].v < least) =>
               data \in Nat /\ data # 0,
           \A k \in (i + 1)..Len(src) : f[<<k, id + 1>>] \in Decoded
    PROVE  TurnAt(src, f, ids, least, data, i, id) \in Decoded
<1>1. PICK l \in Nat : l = Len(src)
  OBVIOUS
<1>2. CASE i + 2 > l \/ i + 2 + src[i + 2].v > l
  <2>1. SubSeq(src, i + 1, l) \in Seq(Token)
    <3>1. i + 1 \in Nat /\ i + 1 # 0
      BY <1>1
    <3>2. QED
      BY <1>1, <3>1, AnyPart
  <2>2. TurnAt(src, f, ids, least, data, i, id)
          = [dst |-> <<>>, left |-> SubSeq(src, i + 1, l), id |-> id, ok |-> TRUE]
    BY <1>1, <1>2 DEF TurnAt
  <2>3. QED
    BY <2>1, <2>2 DEF Decoded
<1>3. CASE ~(i + 2 > l \/ i + 2 + src[i + 2].v > l)
  <2>1. src[i + 2].v \in Nat
    <3>1. src[i + 2] \in Token
      BY <1>1, <1>3
    <3>2. QED
      BY <3>1 DEF Token
  <2>2. PICK to \in Nat : to = i + 2 + src[i + 2].v /\ to \in (i + 1)..l
    BY <1>1, <1>3, <2>1
  <2>3. PICK rest : rest = f[<<to, id + 1>>] /\ rest \in Decoded
    BY <1>1, <2>2
  <2>4. CASE src[i + 2].v < least \/ (ids /\ src[i + 1].v # id)
    <3>1. TurnAt(src, f, ids, least, data, i, id)
            = [dst |-> <<>>, left |-> <<>>, id |-> id, ok |-> FALSE]
      BY <1>1, <1>3, <2>4 DEF TurnAt
    <3>2. QED
      BY <3>1 DEF Decoded
  <2>5. CASE ~(src[i + 2].v < least \/ (ids /\ src[i + 1].v # id))
    <3>1. data \in Nat /\ data # 0
      BY <1>1, <1>3, <2>1, <2>5
    <3>2. SubSeq(src, data, to) \in Seq(Token)
      BY <1>1, <2>2, <3>1, AnyPart
    <3>3. TurnAt(src, f, ids, least, data, i, id)
            = [dst |-> SubSeq(src, data, to) \o rest.dst, left |-> rest.left, id |-> rest.id, ok |-> rest.ok]
      BY <1>1, <1>3, <2>2, <2>3, <2>5 DEF TurnAt
    <3>4. rest.dst \in Seq(Token) /\ rest.left \in Seq(Token) /\ rest.id \in Nat /\ rest.ok \in BOOLEAN
      BY <2>3 DEF Decoded
    <3>5. SubSeq(src, data, to) \o rest.dst \in Seq(Token)
      BY <3>2, <3>4
    <3>6. QED
      BY <3>3, <3>4, <3>5 DEF Decoded
  <2>6. QED
    BY <2>4, <2>5
<1>4. QED
  BY <1>2, <1>3

LEMMA DecodeTypes ==
    ASSUME kind \in Ssr, count \in Nat, NEW src \in Seq(Token)
    PROVE  Decode(src) \in Decoded
<1>1. PICK l \in Nat : l = Len(src)
  OBVIOUS
<1>2. PICK f : Decode(src) = f[<<0, count>>] /\ DecodeTurns(src, f)
  BY DecodeRuns
<1>3. ASSUME NEW i \in 0..l, NEW id \in Nat, \A k \in (i + 1)..l : f[<<k, id + 1>>] \in Decoded
      PROVE  f[<<i, id>>] \in Decoded
  <2>1. FALSE \in BOOLEAN /\ TRUE \in BOOLEAN /\ 0 \in Nat /\ 1 \in Nat
    OBVIOUS
  <2>2. i \in 0..Len(src) /\ \A k \in (i + 1)..Len(src) : f[<<k, id + 1>>] \in Decoded
    BY <1>1, <1>3
  <2>3. i + 2 <= Len(src) /\ i + 2 + src[i + 2].v <= Len(src) /\ ~(src[i + 2].v < 1) =>
          PackedAt(src, i) \in Nat /\ PackedAt(src, i) # 0
    <3> SUFFICES ASSUME i + 2 <= l, i + 2 + src[i + 2].v <= l, ~(src[i + 2].v < 1)
                 PROVE  PackedAt(src, i) \in Nat /\ PackedAt(src, i) # 0
      BY <1>1
    <3>1. src[i + 2] \in Token
      BY <1>1
    <3>2. src[i + 2].v \in Nat
      BY <3>1 DEF Token
    <3>3. i + 3 \in 1..l
      BY <1>1, <3>2
    <3>4. src[i + 3] \in Token
      BY <1>1, <3>3
    <3>5. src[i + 3].v \in Nat
      BY <3>4 DEF Token
    <3>6. QED
      BY <3>5 DEF PackedAt
  <2>4. ChainAt(i, id) \in Nat /\ ChainAt(i, id) # 0
    <3>1. RandLength(id) \in {0, 1}
      BY RandIs
    <3>2. QED
      BY <3>1 DEF ChainAt
  <2>5. CASE kind = "sha1"
    <3>1. f[<<i, id>>] = TurnAt(src, f, FALSE, 1, PackedAt(src, i), i, id)
      BY <1>2, <2>2, <2>5 DEF DecodeTurns
    <3>2. QED
      BY ONLY <3>1, <2>1, <2>2, <2>3, src \in Seq(Token), id \in Nat, TurnTypes
  <2>6. CASE kind = "aes128"
    <3>1. f[<<i, id>>] = TurnAt(src, f, TRUE, 1, PackedAt(src, i), i, id)
      BY <1>2, <2>2, <2>6 DEF DecodeTurns
    <3>2. QED
      BY ONLY <3>1, <2>1, <2>2, <2>3, src \in Seq(Token), id \in Nat, TurnTypes
  <2>7. CASE kind \in {"chain", "chain_b"}
    <3>1. f[<<i, id>>] = TurnAt(src, f, TRUE, 0, ChainAt(i, id), i, id)
      BY <1>2, <2>2, <2>7 DEF DecodeTurns
    <3>2. QED
      BY ONLY <3>1, <2>1, <2>2, <2>4, src \in Seq(Token), id \in Nat, TurnTypes
  <2>8. QED
    BY <2>5, <2>6, <2>7 DEF Ssr
<1>4. PICK B : B = {d \in Nat : \E i \in 0..l, id \in Nat : l - i = d /\ f[<<i, id>>] \notin Decoded}
  OBVIOUS
<1>5. B = {}
  <2>1. ASSUME B # {} PROVE FALSE
    <3>1. PICK d \in B : \A e \in B : d <= e
      <4>1. B \in SUBSET Nat
        BY <1>4
      <4>2. QED
        BY <2>1, <4>1, Least
    <3>2. PICK i \in 0..l, id \in Nat : l - i = d /\ f[<<i, id>>] \notin Decoded
      BY <1>4
    <3>3. ASSUME NEW k \in (i + 1)..l PROVE f[<<k, id + 1>>] \in Decoded
      <4>1. k \in 0..l /\ id + 1 \in Nat /\ l - k \in Nat /\ l - k < d /\ d \in Nat
        BY <1>1, <1>4, <3>2
      <4>2. l - k \notin B
        BY <3>1, <4>1
      <4>3. QED
        BY <1>4, <4>1, <4>2
    <3>4. QED
      BY <1>3, <3>2, <3>3
  <2>2. QED
    BY <2>1
<1>6. ASSUME f[<<0, count>>] \notin Decoded PROVE FALSE
  <2>1. 0 \in 0..l /\ l - 0 = l
    BY <1>1
  <2>2. l \in B
    BY <1>1, <1>4, <1>6, <2>1
  <2>3. QED
    BY <1>5, <2>2
<1>7. QED
  BY <1>2, <1>6

LEMMA SSRReadTypes ==
    ASSUME TypeOK, NEW cap \in Nat, SSRRead(cap)
    PROVE  TypeOK'
<1>1. CASE ReadCarry(cap)
  BY <1>1, CarryTypes
<1>2. CASE Fail
  BY <1>2, FailTypes
<1>3. CASE ~ReadCarry(cap) /\ ~Fail
  <2>1. PICK n, d :
           /\ n \in 1..Len(wire)
           /\ d = Decode(under \o SubSeq(wire, 1, n)) /\ DeliverBuffered(d.dst, cap)
           /\ under' = d.left /\ count' = d.id /\ wire' = SubSeq(wire, n + 1, Len(wire))
           /\ UNCHANGED <<peer, first, remain, opts, over, astray>>
    BY <1>3 DEF SSRRead
  <2>2. wire \in Seq(Token) /\ under \in Seq(Token) /\ n \in Nat /\ n <= Len(wire) /\ Len(wire) \in Nat
        /\ n + 1 \in Nat /\ n + 1 # 0 /\ 1 \in Nat /\ 1 # 0
    BY <2>1, StateTypes
  <2>3. SubSeq(wire, 1, n) \in Seq(Token) /\ SubSeq(wire, n + 1, Len(wire)) \in Seq(Token)
    BY <2>2, AnyPart
  <2>4. under \o SubSeq(wire, 1, n) \in Seq(Token)
    BY <2>2, <2>3
  <2>5. kind \in Ssr
    BY DEF SSRRead
  <2>6. d \in Decoded
    BY <2>1, <2>4, <2>5, StateTypes, DecodeTypes
  <2>7. d.dst \in Seq(Token) /\ d.left \in Seq(Token) /\ d.id \in Nat
    BY <2>6 DEF Decoded
  <2>8. got' \in Seq(Token) /\ carry' \in Seq(Token)
    BY <2>1, <2>7, BufferTypes
  <2>9. QED
    BY <2>1, <2>3, <2>7, <2>8, StateTypes, ReadTypes
<1>4. QED
  BY <1>2, <1>1, <1>3

(* A Read, or the end of one.                                              *)
LEMMA EndTypes == ASSUME TypeOK, ReadEnds PROVE TypeOK'
BY StateTypes, ReadTypes DEF ReadEnds, state

LEMMA ReadStepTypes ==
    ASSUME FramingAssumption, TypeOK, ReadStep
    PROVE  TypeOK'
<1>1. CASE ReadEnds
  BY <1>1, EndTypes
<1>2. ASSUME NEW cap \in Caps,
             \/ HTTPObfsRead(cap) \/ HTTPSimpleRead(cap) \/ VmessHTTPRead(cap) \/ SnellRead(cap)
             \/ TLSObfsRead(cap) \/ GunRead(cap) \/ WebsocketRead(cap)
             \/ ChunkRead(cap) \/ AEADRead(cap) \/ MuxRead(cap) \/ SSRRead(cap)
      PROVE  TypeOK'
  <2>1. cap \in Nat
    BY DEF FramingAssumption
  <2>2. QED
    BY <1>2, <2>1, HTTPReadTypes, LineReadTypes, TLSReadTypes, GunReadTypes, WebsocketReadTypes,
       ChunkReadTypes, AEADReadTypes, MuxReadTypes, SSRReadTypes
<1>3. QED
  BY <1>1, <1>2 DEF ReadStep

-----------------------------------------------------------------------------
(* The types: the server, and Writes.  A sequence of frames, run by run.   *)
FlattenTurn(seqs, f) ==
    [i \in 1..Len(seqs) |-> IF i = 1 THEN seqs[i] ELSE f[i - 1] \o seqs[i]]

LEMMA FlattenTurnExists ==
    ASSUME NEW seqs \in Seq(Seq(Token))
    PROVE  \E f : f = FlattenTurn(seqs, f)
<1>1. PICK l \in Nat : l = Len(seqs)
  OBVIOUS
<1> DEFINE P == 1..l
           V == Seq(Token)
           Stop == {1} \cap P
           rank == [p \in P |-> p]
           next == [p \in P \ Stop |-> p - 1]
           val == [p \in P |-> seqs[p]]
           join == [r \in P \X V |-> r[2] \o seqs[r[1]]]
<1>2. Descends(P, rank, Stop, next)
  <2>1. rank \in [P -> Nat] /\ Stop \in SUBSET P
    OBVIOUS
  <2>2. next \in [P \ Stop -> P]
    OBVIOUS
  <2>3. \A p \in P \ Stop : rank[next[p]] < rank[p]
    OBVIOUS
  <2> HIDE DEF P, Stop, rank, next
  <2>4. QED
    BY <2>1, <2>2, <2>3 DEF Descends
<1>3. Gives(P, V, val, join)
  <2>1. \A p \in P : seqs[p] \in V
    BY <1>1
  <2>2. val \in [P -> V]
    BY <2>1
  <2>3. ASSUME NEW r \in P \X V PROVE join[r] \in V
    <3>1. r[2] \in Seq(Token) /\ seqs[r[1]] \in Seq(Token)
      BY <2>1
    <3>2. r[2] \o seqs[r[1]] \in Seq(Token)
      BY <3>1
    <3>3. QED
      BY <3>2
  <2>4. join \in [P \X V -> V]
    <3> HIDE DEF P, V
    <3>1. QED
      BY <2>3
  <2> HIDE DEF P, V, val, join
  <2>5. QED
    BY <2>2, <2>4 DEF Gives
<1>4. PICK f : Runs(P, Stop, next, V, val, join, f)
  <2> HIDE DEF P, V, Stop, rank, next, val, join
  <2>1. QED
    BY ONLY <1>2, <1>3, LoopExists
<1>5. f \in [P -> V] /\ \A p \in P : f[p] = IF p \in Stop THEN val[p] ELSE join[<<p, f[next[p]]>>]
  <2> HIDE DEF P, V, Stop, next, val, join
  <2>1. QED
    BY <1>4 DEF Runs
<1>6. ASSUME NEW i \in P PROVE f[i] = IF i = 1 THEN seqs[i] ELSE f[i - 1] \o seqs[i]
  <2>1. CASE i = 1
    BY <1>5, <2>1
  <2>2. CASE i # 1
    <3>1. i - 1 \in P /\ i \in P \ Stop
      BY <2>2
    <3>2. next[i] = i - 1 /\ f[i - 1] \in V
      BY <1>5, <3>1
    <3>3. f[i] = join[<<i, f[i - 1]>>]
      BY <1>5, <3>1, <3>2
    <3>4. <<i, f[i - 1]>> \in P \X V
      BY <3>2
    <3>5. join[<<i, f[i - 1]>>] = f[i - 1] \o seqs[i]
      BY <3>4
    <3>6. QED
      BY <2>2, <3>3, <3>5
  <2>3. QED
    BY <2>1, <2>2
<1>7. f = [i \in P |-> f[i]]
  <2> HIDE DEF P, V
  <2>1. QED
    BY <1>5
<1>8. P = 1..Len(seqs)
  BY <1>1
<1>9. f = FlattenTurn(seqs, f)
  <2> HIDE DEF P, V
  <2>1. QED
    BY <1>6, <1>7, <1>8 DEF FlattenTurn
<1>10. QED
  BY <1>9

FlattenRun(seqs, f) ==
    /\ f[0] = <<>> /\ FlattenSeq(seqs) = f[Len(seqs)]
    /\ \A i \in 0..Len(seqs) : f[i] \in Seq(Token)
    /\ \A i \in 1..Len(seqs) : f[i] = f[i - 1] \o seqs[i]

LEMMA FlattenRuns ==
    ASSUME NEW seqs \in Seq(Seq(Token))
    PROVE  \E f : FlattenRun(seqs, f)
<1>1. PICK l \in Nat : l = Len(seqs)
  OBVIOUS
<1>2. <<>> \in Seq(Token)
  OBVIOUS
<1>3. CASE l = 0
  <2>1. PICK f : f = [i \in {0} |-> <<>>]
    OBVIOUS
  <2>2. seqs = <<>>
    BY <1>1, <1>3, EmptySeq
  <2>3. FlattenSeq(seqs) = <<>>
    BY <1>1, <1>3, <2>2 DEF FlattenSeq
  <2>4. f[0] = <<>>
    BY <2>1
  <2>5. Len(seqs) = 0 /\ 0..Len(seqs) = {0} /\ 1..Len(seqs) = {}
    BY <1>1, <1>3
  <2>6. QED
    BY <1>2, <2>3, <2>4, <2>5 DEF FlattenRun
<1>4. CASE l # 0
  <2>1. \E h : h = FlattenTurn(seqs, h)
    BY FlattenTurnExists
  <2>2. Len(seqs) # 0
    BY <1>1, <1>4
  <2>3. PICK g : g = FlattenTurn(seqs, g) /\ FlattenSeq(seqs) = g[Len(seqs)]
    BY <2>1, <2>2, ZenonT(60) DEF FlattenSeq, FlattenTurn
  <2>4. \A i \in 1..l : g[i] = IF i = 1 THEN seqs[i] ELSE g[i - 1] \o seqs[i]
    BY <1>1, <2>3 DEF FlattenTurn
  <2>5. PICK f : f = [i \in 0..l |-> IF i = 0 THEN <<>> ELSE g[i]]
    OBVIOUS
  <2>6. f[0] = <<>> /\ FlattenSeq(seqs) = f[l] /\ \A i \in 1..l : f[i] = g[i]
    BY <1>1, <1>4, <2>3, <2>5
  <2>7. \A i \in 1..l : seqs[i] \in Seq(Token)
    BY <1>1
  <2>8. \A i \in 1..l : f[i] = f[i - 1] \o seqs[i]
    <3>1. ASSUME NEW i \in 1..l PROVE f[i] = f[i - 1] \o seqs[i]
      <4>1. CASE i = 1
        <5>1. f[i] = seqs[i] /\ f[i - 1] = <<>>
          BY <2>4, <2>6, <4>1
        <5>2. seqs[i] \in Seq(Token)
          BY <2>7
        <5>3. <<>> \o seqs[i] = seqs[i]
          BY <5>2
        <5>4. QED
          BY <5>1, <5>3
      <4>2. CASE i # 1
        <5>1. i - 1 \in 1..l
          BY <4>2
        <5>2. QED
          BY <2>4, <2>6, <4>2, <5>1
      <4>3. QED
        BY <4>1, <4>2
    <3>2. QED
      BY <3>1
  <2>9. \A i \in 0..l : f[i] \in Seq(Token)
    <3> DEFINE Bad == {i \in 0..l : f[i] \notin Seq(Token)}
    <3> SUFFICES ASSUME Bad # {} PROVE FALSE
      OBVIOUS
    <3>1. PICK i \in Bad : \A j \in Bad : i <= j
      <4>1. Bad \in SUBSET Nat
        OBVIOUS
      <4> HIDE DEF Bad
      <4>2. QED
        BY <4>1, Least
    <3>2. i \in 0..l /\ f[i] \notin Seq(Token)
      BY <3>1
    <3>3. i # 0
      BY <1>2, <2>6, <3>2
    <3>4. i \in 1..l /\ i - 1 \in 0..l /\ ~(i <= i - 1)
      BY <3>2, <3>3
    <3>5. f[i - 1] \in Seq(Token) /\ seqs[i] \in Seq(Token)
      BY <2>7, <3>1, <3>4
    <3>6. f[i - 1] \o seqs[i] \in Seq(Token)
      BY <3>5
    <3>7. QED
      BY <2>8, <3>2, <3>4, <3>6
  <2>10. QED
    BY <1>1, <2>6, <2>8, <2>9 DEF FlattenRun
<1>5. QED
  BY <1>3, <1>4

LEMMA ServerFrameTyped ==
    ASSUME FramingAssumption, kind \in AllKinds, NEW id \in Nat, NEW from \in Nat, NEW n \in Nat
    PROVE  ServerFrame(kind, id, from, n) \in Seq(Token)
<1>1. Payload(from, n) \in Seq(Token)
  BY PayloadIs
<1>2. CASE kind \in RawKinds
  <2>1. ServerFrame(kind, id, from, n) = Payload(from, n)
    BY <1>2 DEF RawKinds, ServerFrame
  <2>2. QED
    BY <1>1, <2>1
<1>3. CASE kind = "mux"
  <2>1. PICK v \in Nat : v = n % Wrap
    BY DEF FramingAssumption
  <2>2. PICK h, z, s, o : h = Tok("head", 0) /\ z = Tok("size", v) /\ s = Tok("status", 2) /\ o = Tok("option", 1)
    OBVIOUS
  <2>3. h \in Token /\ z \in Token /\ s \in Token /\ o \in Token
    BY <2>2 DEF Tok, Token
  <2>4. (<<h>> \o <<s, o>>) \o <<z>> \in Seq(Token)
    <3>1. <<h>> \in Seq(Token) /\ <<s, o>> \in Seq(Token) /\ <<z>> \in Seq(Token)
      BY <2>3
    <3>2. <<h>> \o <<s, o>> \in Seq(Token)
      BY <3>1
    <3>3. QED
      BY <3>1, <3>2
  <2>5. ServerFrame(kind, id, from, n) = ((<<h>> \o <<s, o>>) \o <<z>>) \o Payload(from, n)
    <3>1. Size16(n) = <<z>> /\ MuxHeader(2, 1) = <<h>> \o <<s, o>>
      BY <2>1, <2>2 DEF Size16, MuxHeader, Field
    <3>2. ServerFrame(kind, id, from, n) = MuxHeader(2, 1) \o Size16(n) \o Payload(from, n)
      BY <1>3 DEF ServerFrame
    <3>3. QED
      BY <3>1, <3>2
  <2>6. QED
    BY <1>1, <2>4, <2>5
<1>4. CASE kind \in Framed /\ kind # "mux"
  <2>1. kind \in Framed /\ (kind = "mux" => n < Wrap)
    BY <1>4
  <2>2. \E h \in Seq(Token) : /\ ServerFrame(kind, id, from, n) = h \o Payload(from, n)
                              /\ HeaderOf(h, 0, Len(h), n, id) /\ Sized(h, n)
                              /\ Len(h) # 0 /\ \A i \in 1..Len(h) : h[i].t # "byte"
    BY ONLY <2>1, id \in Nat, from \in Nat, n \in Nat, HeadIsBuilt
  <2>3. PICK h \in Seq(Token) : ServerFrame(kind, id, from, n) = h \o Payload(from, n)
    BY <2>2
  <2>4. QED
    BY <1>1, <2>3
<1>5. QED
  BY <1>2, <1>3, <1>4 DEF Framed, RawKinds, AllKinds, Ssr

(* The frames of a Write, as a sequence.                                   *)
FramesOf(id, from, n) ==
    [i \in 1..Chunks(n) |-> ServerFrame(kind, id + i - 1, from + (i - 1) * ChunkSize,
                                        Lower(ChunkSize, n - (i - 1) * ChunkSize))]

LEMMA ChunksAre ==
    ASSUME FramingAssumption, NEW n \in Nat
    PROVE  /\ Chunks(n) \in Nat /\ (n = 0 => Chunks(n) = 0) /\ (n # 0 => Chunks(n) # 0)
           /\ n <= Chunks(n) * ChunkSize
           /\ \A i \in 1..Chunks(n) : (i - 1) * ChunkSize \in Nat /\ (i - 1) * ChunkSize < n
<1>1. PICK c \in Nat : c = ChunkSize /\ c # 0
  BY DEF FramingAssumption
<1>2. PICK k \in Nat : k = Chunks(n) /\ k * c <= n + c - 1 /\ n + c - 1 < k * c + c
  <2>1. n + c - 1 \in Nat
    BY <1>1
  <2>2. PICK x \in Nat : x = n + c - 1
    BY <2>1
  <2>3. /\ x \div c \in Nat /\ (x \div c) * c <= x /\ x < (x \div c) * c + c
    BY <1>1
  <2>4. Chunks(n) = x \div c
    BY <1>1, <2>2 DEF Chunks
  <2>5. QED
    BY <2>2, <2>3, <2>4
<1>3. n <= k * c
  BY <1>1, <1>2
<1>4. n = 0 => k = 0
  BY <1>1, <1>2
<1>5. n # 0 => k # 0
  BY <1>1, <1>3
<1>6. ASSUME NEW i \in 1..k PROVE (i - 1) * c \in Nat /\ (i - 1) * c < n
  <2>1. PICK j \in Nat : j = i - 1 /\ j + 1 <= k
    OBVIOUS
  <2>2. (j + 1) * c <= k * c /\ (j + 1) * c = j * c + c /\ j * c \in Nat
    BY <1>1, <2>1
  <2>3. j * c < n
    BY <1>1, <1>2, <2>2
  <2>4. QED
    BY <2>1, <2>2, <2>3
<1>7. QED
  BY <1>1, <1>2, <1>3, <1>4, <1>5, <1>6

(* The i-th of them: where it begins and how much it carries.              *)
LEMMA ChunkIs ==
    ASSUME FramingAssumption, NEW n \in Nat, NEW i \in 1..Chunks(n)
    PROVE  \E b, m \in Nat : /\ b = (i - 1) * ChunkSize /\ m = Lower(ChunkSize, n - b)
                             /\ Lower(ChunkSize * i, n) = b + m
<1>1. PICK c \in Nat : c = ChunkSize /\ c # 0
  BY DEF FramingAssumption
<1>2. PICK b \in Nat : b = (i - 1) * c /\ b < n
  BY <1>1, ChunksAre
<1>3. i \in Nat /\ c * i = b + c
  BY <1>1, <1>2, ChunksAre
<1>4. PICK r \in Nat, m \in Nat : r = n - b /\ m = Lower(c, r)
  <2>1. PICK r \in Nat : r = n - b
    BY <1>2
  <2>2. Lower(c, r) \in Nat
    BY <1>1 DEF Lower
  <2>3. QED
    BY <2>1, <2>2
<1>5. Lower(c * i, n) = b + m
  BY <1>2, <1>3, <1>4 DEF Lower
<1>6. QED
  BY <1>1, <1>2, <1>4, <1>5

LEMMA FramesTyped ==
    ASSUME FramingAssumption, kind \in AllKinds, NEW id \in Nat, NEW from \in Nat, NEW n \in Nat
    PROVE  FramesOf(id, from, n) \in Seq(Seq(Token)) /\ Len(FramesOf(id, from, n)) = Chunks(n)
<1>1. PICK k \in Nat : k = Chunks(n)
  BY ChunksAre
<1>2. ASSUME NEW i \in 1..k PROVE FramesOf(id, from, n)[i] \in Seq(Token)
  <2>1. i \in 1..Chunks(n)
    BY <1>1
  <2>2. PICK b \in Nat, m \in Nat : b = (i - 1) * ChunkSize /\ m = Lower(ChunkSize, n - b)
    BY <2>1, ChunkIs
  <2>3. PICK j \in Nat, f \in Nat : j = id + i - 1 /\ f = from + b
    BY <1>1
  <2>4. ServerFrame(kind, j, f, m) \in Seq(Token)
    BY ServerFrameTyped
  <2>5. FramesOf(id, from, n)[i] = ServerFrame(kind, j, f, m)
    BY <2>1, <2>2, <2>3 DEF FramesOf
  <2>6. QED
    BY <2>4, <2>5
<1>3. FramesOf(id, from, n) \in [1..k -> Seq(Token)]
  BY <1>1, <1>2 DEF FramesOf
<1>4. QED
  BY <1>1, <1>3

LEMMA ChunkFramesTyped ==
    ASSUME FramingAssumption, kind \in AllKinds, NEW id \in Nat, NEW from \in Nat, NEW n \in Nat
    PROVE  ChunkFrames(id, from, n) \in Seq(Token)
<1>1. FramesOf(id, from, n) \in Seq(Seq(Token))
  BY FramesTyped
<1>2. PICK f : FlattenRun(FramesOf(id, from, n), f)
  BY <1>1, FlattenRuns
<1>3. PICK k \in Nat : k = Len(FramesOf(id, from, n))
  BY <1>1
<1>4. f[k] \in Seq(Token) /\ FlattenSeq(FramesOf(id, from, n)) = f[k]
  BY <1>2, <1>3 DEF FlattenRun
<1>5. ChunkFrames(id, from, n) = FlattenSeq(FramesOf(id, from, n))
  BY DEF ChunkFrames, FramesOf
<1>6. QED
  BY <1>4, <1>5

LEMMA FieldTyped == ASSUME NEW v \in Nat PROVE Field(v) \in Seq(Token) /\ <<Tok("end", v)>> \in Seq(Token)
<1>1. Tok("head", v) \in Token /\ Tok("end", v) \in Token
  BY DEF Tok, Token
<1>2. QED
  BY <1>1 DEF Field

LEMMA OpeningTyped == ASSUME kind \in AllKinds PROVE OpeningNow \in Seq(Token) /\ Opening(kind) \in Seq(Token)
<1>1. Prelude(kind) \in Seq(Token) /\ <<>> \in Seq(Token)
  BY FrontIs
<1>2. Field(1) \in Seq(Token)
  BY FieldTyped
<1>3. Opening(kind) \in Seq(Token)
  BY <1>1, <1>2 DEF Opening
<1>4. QED
  BY <1>1, <1>3 DEF OpeningNow

LEMMA PutTypes ==
    ASSUME TypeOK, NEW tokens \in Seq(Token), NEW n \in Nat, Put(tokens, n, 1),
           first' \in BOOLEAN, count' \in Nat, astray' \in BOOLEAN
    PROVE  TypeOK'
<1>1. /\ wire' = wire \o tokens /\ sent' = sent + n /\ frames' = frames + 1
      /\ UNCHANGED <<kind, dir, ended, remain, carry, under, opts, got, over>>
  BY DEF Put
<1>2. wire' \in Seq(Token)
  <2>1. wire \in Seq(Token)
    BY StateTypes
  <2>2. QED
    BY <1>1, <2>1
<1>3. sent' \in Nat /\ frames' \in Nat
  <2>1. sent \in Nat /\ frames \in Nat
    BY DEF TypeOK
  <2>2. QED
    BY <1>1, <2>1
<1>4. \A s \in {wire', carry', under', got'} : s \in Seq(Token)
  BY <1>1, <1>2, StateTypes
<1>5. QED
  BY <1>1, <1>3, <1>4 DEF TypeOK

LEMMA WriteTypes ==
    ASSUME FramingAssumption, TypeOK, NEW n \in Nat,
           \/ HTTPWrite(n) \/ HTTPSimpleWrite(n) \/ TLSObfsWrite(n) \/ ChunkWrite(n)
           \/ AEADWrite(n) \/ GunWrite(n) \/ MuxWrite(n) \/ SSREncode(n)
    PROVE  TypeOK'
<1>1. kind \in AllKinds /\ sent \in Nat /\ count \in Nat /\ OpeningNow \in Seq(Token) /\ astray \in BOOLEAN
      /\ first \in BOOLEAN /\ Chunks(n) \in Nat
  BY StateTypes, OpeningTyped, ChunksAre DEF TypeOK
<1>2. Payload(sent, n) \in Seq(Token) /\ ChunkFrames(count, sent, n) \in Seq(Token)
  BY <1>1, PayloadIs, ChunkFramesTyped
<1>3. CASE HTTPWrite(n)
  <2>1. OpeningNow \o Payload(sent, n) \in Seq(Token)
    BY <1>1, <1>2
  <2>2. Put(OpeningNow \o Payload(sent, n), n, 1) /\ first' = FALSE /\ UNCHANGED <<count, astray>>
    BY <1>3 DEF HTTPWrite
  <2>3. QED
    BY <1>1, <2>1, <2>2, PutTypes
<1>4. CASE HTTPSimpleWrite(n)
  <2>1. PICK d \in 0..n : Put(IF first THEN Field(0) \o Payload(sent, d) \o <<Tok("end", 0)>>
                                               \o Payload(sent + d, n - d)
                              ELSE Payload(sent, n), n, 1)
    BY <1>4 DEF HTTPSimpleWrite
  <2>2. PICK s \in Nat, m \in Nat : s = sent + d /\ m = n - d
    BY <1>1
  <2>3. Field(0) \in Seq(Token) /\ <<Tok("end", 0)>> \in Seq(Token) /\ Payload(sent, d) \in Seq(Token)
        /\ Payload(s, m) \in Seq(Token)
    <3>1. d \in Nat /\ 0 \in Nat /\ sent \in Nat
      BY <1>1
    <3>2. Field(0) \in Seq(Token) /\ <<Tok("end", 0)>> \in Seq(Token)
      BY <3>1, FieldTyped
    <3>3. Payload(sent, d) \in Seq(Token)
      BY <3>1, PayloadIs
    <3>4. Payload(s, m) \in Seq(Token)
      BY PayloadIs
    <3>5. QED
      BY <3>2, <3>3, <3>4
  <2>4. Field(0) \o Payload(sent, d) \o <<Tok("end", 0)>> \o Payload(s, m) \in Seq(Token)
    <3>1. Field(0) \o Payload(sent, d) \in Seq(Token)
      BY <2>3
    <3>2. Field(0) \o Payload(sent, d) \o <<Tok("end", 0)>> \in Seq(Token)
      BY <2>3, <3>1
    <3>3. QED
      BY <2>3, <3>2
  <2>5. PICK tokens : tokens = IF first THEN Field(0) \o Payload(sent, d) \o <<Tok("end", 0)>> \o Payload(s, m)
                               ELSE Payload(sent, n)
    OBVIOUS
  <2>6. tokens \in Seq(Token) /\ Put(tokens, n, 1)
    <3>1. tokens \in Seq(Token)
      BY <1>2, <2>4, <2>5
    <3>2. Put(tokens, n, 1)
      BY <2>1, <2>2, <2>5
    <3>3. QED
      BY <3>1, <3>2
  <2>7. first' = FALSE /\ UNCHANGED <<count, astray>>
    BY <1>4 DEF HTTPSimpleWrite
  <2>8. QED
    BY <1>1, <2>6, <2>7, PutTypes
<1>5. CASE TLSObfsWrite(n) \/ ChunkWrite(n) \/ AEADWrite(n)
  <2>1. OpeningNow \o ChunkFrames(count, sent, n) \in Seq(Token)
    BY <1>1, <1>2
  <2>2. /\ Put(OpeningNow \o ChunkFrames(count, sent, n), n, 1) /\ first' = FALSE
        /\ count' = count \/ count' = count + Chunks(n)
        /\ UNCHANGED astray
    BY <1>5 DEF TLSObfsWrite, ChunkWrite, AEADWrite
  <2>3. count' \in Nat
    BY <1>1, <2>2
  <2>4. QED
    BY <1>1, <2>1, <2>2, <2>3, PutTypes
<1>6. CASE GunWrite(n)
  <2>1. ServerFrame(kind, count, sent, n) \in Seq(Token)
    BY <1>1, ServerFrameTyped
  <2>2. Put(ServerFrame(kind, count, sent, n), n, 1) /\ count' = count + 1 /\ UNCHANGED <<first, astray>>
    BY <1>6 DEF GunWrite
  <2>3. QED
    BY <1>1, <2>1, <2>2, PutTypes
<1>7. CASE MuxWrite(n)
  <2>1. kind = "mux"
    BY <1>7 DEF MuxWrite
  <2>2. ServerFrame("mux", 0, sent, n) \in Seq(Token)
    BY <1>1, <2>1, ServerFrameTyped
  <2>3. OpeningNow \o ServerFrame("mux", 0, sent, n) \in Seq(Token)
    BY <1>1, <2>2
  <2>4. /\ Put(OpeningNow \o ServerFrame("mux", 0, sent, n), n, 1)
        /\ astray' = (astray \/ n >= Wrap) /\ first' = FALSE /\ UNCHANGED count
    BY <1>7 DEF MuxWrite
  <2>5. astray' \in BOOLEAN /\ first' \in BOOLEAN /\ count' \in Nat
    BY <1>1, <2>4
  <2>6. QED
    BY ONLY TypeOK, n \in Nat, <2>3, <2>4, <2>5, PutTypes
<1>8. CASE SSREncode(n)
  <2>1. PICK d \in 1..n :
           /\ d < n => first
           /\ IF first
                THEN Put(ServerFrame(kind, 0, sent, d) \o ChunkFrames(1, sent + d, n - d), n, 1)
                ELSE Put(ChunkFrames(count, sent, n), n, 1)
           /\ count' = count + (IF first THEN 1 ELSE 0) + Chunks(IF first THEN n - d ELSE n)
    BY <1>8 DEF SSREncode
  <2>2. PICK s \in Nat, m \in Nat : s = sent + d /\ m = n - d
    BY <1>1
  <2>3. ServerFrame(kind, 0, sent, d) \in Seq(Token)
    BY <1>1, ServerFrameTyped
  <2>4. ChunkFrames(1, s, m) \in Seq(Token) /\ Chunks(m) \in Nat
    BY <1>1, ChunkFramesTyped, ChunksAre
  <2>5. ServerFrame(kind, 0, sent, d) \o ChunkFrames(1, s, m) \in Seq(Token)
    BY <2>3, <2>4
  <2>6. count' \in Nat
    <3>4. count \in Nat /\ n - d \in Nat
      BY <1>1
    <3>5. Chunks(n) \in Nat /\ Chunks(n - d) \in Nat
      BY <3>4, ChunksAre
    <3>1. CASE first
      <4>1. count' = count + 1 + Chunks(n - d)
        BY <2>1, <3>1
      <4>2. QED
        BY ONLY <3>4, <3>5, <4>1
    <3>2. CASE ~first
      <4>1. count' = count + 0 + Chunks(n)
        BY <2>1, <3>2
      <4>2. QED
        BY ONLY <3>4, <3>5, <4>1
    <3>3. QED
      BY <3>1, <3>2
  <2>7. first' = FALSE /\ UNCHANGED astray
    BY <1>8 DEF SSREncode
  <2>8. CASE first
    <3>1. Put(ServerFrame(kind, 0, sent, d) \o ChunkFrames(1, s, m), n, 1)
      BY <2>1, <2>2, <2>8
    <3>2. QED
      BY <1>1, <2>5, <2>6, <2>7, <3>1, PutTypes
  <2>9. CASE ~first
    <3>1. Put(ChunkFrames(count, sent, n), n, 1)
      BY <2>1, <2>9
    <3>2. QED
      BY <1>1, <1>2, <2>6, <2>7, <3>1, PutTypes
  <2>10. QED
    BY <2>8, <2>9
<1>9. QED
  BY <1>3, <1>4, <1>5, <1>6, <1>7, <1>8

LEMMA ServingTypes ==
    ASSUME FramingAssumption, TypeOK, Server
    PROVE  TypeOK'
<1>1. kind \in AllKinds /\ sent \in Nat /\ frames \in Nat /\ wire \in Seq(Token)
  BY DEF TypeOK
<1>2. SUFFICES ASSUME UNCHANGED <<kind, dir, state, got, over, astray>>, ended' \in {"no", "fin", "cut"},
                      sent' \in Nat, frames' \in Nat, wire' \in Seq(Token)
               PROVE  TypeOK'
  <2>1. ASSUME NEW n \in 0..MaxFrame, ServerSends(n)
        PROVE  /\ UNCHANGED <<kind, dir, state, got, over, astray>> /\ ended' \in {"no", "fin", "cut"}
               /\ sent' \in Nat /\ frames' \in Nat /\ wire' \in Seq(Token)
    <3>1. n \in Nat
      BY DEF FramingAssumption
    <3>2. ServerFrame(kind, frames, sent, n) \in Seq(Token)
      BY <1>1, <3>1, ServerFrameTyped
    <3>3. PICK p : p = (IF frames = 0 THEN Prelude(kind) ELSE <<>>) /\ p \in Seq(Token)
      <4>1. Prelude(kind) \in Seq(Token) /\ <<>> \in Seq(Token)
        BY <1>1, FrontIs
      <4>2. QED
        BY <4>1
    <3>4. wire' = wire \o p \o ServerFrame(kind, frames, sent, n)
      BY <2>1, <3>3 DEF ServerSends
    <3>5. wire \o p \in Seq(Token)
      BY <1>1, <3>3
    <3>6. wire' \in Seq(Token)
      BY <3>2, <3>4, <3>5
    <3>7. sent' \in Nat /\ frames' \in Nat
      BY <1>1, <2>1, <3>1 DEF ServerSends
    <3>8. ended' \in {"no", "fin", "cut"} /\ UNCHANGED <<kind, dir, state, got, over, astray>>
      BY <2>1 DEF ServerSends
    <3>9. QED
      BY <3>6, <3>7, <3>8
  <2>2. ASSUME NEW x \in {2, 4}, ServerKeepsAlive(x)
        PROVE  /\ UNCHANGED <<kind, dir, state, got, over, astray>> /\ ended' \in {"no", "fin", "cut"}
               /\ sent' \in Nat /\ frames' \in Nat /\ wire' \in Seq(Token)
    <3>1. kind = "mux" /\ wire' = wire \o MuxHeader(x, 0)
      BY <2>2 DEF ServerKeepsAlive
    <3>2. MuxHeader(x, 0) \in Seq(Token)
      BY <1>1, <3>1, KeepAliveBuilt
    <3>3. wire' \in Seq(Token)
      BY <1>1, <3>1, <3>2
    <3>4. sent' \in Nat /\ frames' \in Nat
      BY <1>1, <2>2 DEF ServerKeepsAlive
    <3>5. ended' \in {"no", "fin", "cut"} /\ UNCHANGED <<kind, dir, state, got, over, astray>>
      BY <2>2 DEF ServerKeepsAlive
    <3>6. QED
      BY <3>3, <3>4, <3>5
  <2>3. ASSUME ServerCut
        PROVE  /\ UNCHANGED <<kind, dir, state, got, over, astray>> /\ ended' \in {"no", "fin", "cut"}
               /\ sent' \in Nat /\ frames' \in Nat /\ wire' \in Seq(Token)
    <3>1. PICK n \in 0..Len(wire) : wire' = SubSeq(wire, 1, n)
      BY <2>3 DEF ServerCut
    <3>2. n \in Nat /\ n <= Len(wire) /\ 1 \in Nat /\ 1 # 0
      BY <1>1, <3>1
    <3>3. wire' \in Seq(Token)
      BY <1>1, <3>1, <3>2, AnyPart
    <3>4. QED
      BY <1>1, <2>3, <3>3 DEF ServerCut
  <2>4. ASSUME ServerEnds
        PROVE  /\ UNCHANGED <<kind, dir, state, got, over, astray>> /\ ended' \in {"no", "fin", "cut"}
               /\ sent' \in Nat /\ frames' \in Nat /\ wire' \in Seq(Token)
    BY <1>1, <2>4 DEF ServerEnds
  <2>5. QED
    BY <1>2, <2>1, <2>2, <2>3, <2>4 DEF Server
<1>3. \A s \in {wire', carry', under', got'} : s \in Seq(Token)
  BY <1>2, StateTypes DEF state
<1>4. QED
  BY <1>2, <1>3 DEF TypeOK, state

(* Every variable keeps its type.                                          *)
THEOREM FramingTypes == ASSUME FramingAssumption PROVE Spec => []TypeOK
<1>1. Init => TypeOK
  <2> SUFFICES ASSUME Init PROVE TypeOK
    OBVIOUS
  <2>1. kind \in AllKinds
    BY DEF Init, FramingAssumption
  <2>2. <<>> \in Seq(Token)
    OBVIOUS
  <2>3. \A s \in {wire, carry, under, got} : s \in Seq(Token)
    BY <2>2 DEF Init
  <2>4. {sent, frames, remain, opts, count} \subseteq Nat
    BY DEF Init
  <2>5. {first, over, astray} \subseteq BOOLEAN
    BY DEF Init
  <2>6. dir \in {"down", "up"} /\ ended \in {"no", "fin", "cut"}
    BY DEF Init
  <2>7. QED
    BY <2>1, <2>3, <2>4, <2>5, <2>6 DEF TypeOK
<1>2. TypeOK /\ [Next]_vars => TypeOK'
  <2> SUFFICES ASSUME TypeOK, [Next]_vars PROVE TypeOK'
    OBVIOUS
  <2>1. CASE Server
    BY <2>1, ServingTypes
  <2>2. CASE ReadStep
    BY <2>2, ReadStepTypes
  <2>3. CASE WriteStep
    <3>1. \A n \in 0..MaxFrame : n \in Nat
      BY DEF FramingAssumption
    <3>2. QED
      BY <2>3, <3>1, WriteTypes DEF WriteStep
  <2>4. CASE UNCHANGED vars
    <3>1. \A s \in {wire', carry', under', got'} : s \in Seq(Token)
      BY <2>4, StateTypes DEF vars, state
    <3>2. QED
      BY <2>4, <3>1 DEF TypeOK, vars, peer, state
  <2>5. QED
    BY <2>1, <2>2, <2>3, <2>4 DEF Next
<1>3. QED
  BY <1>1, <1>2, PTL DEF Spec

-----------------------------------------------------------------------------
(* What the server sends is what Read gives.                               *)
ReadSide ==
    /\ kind \in Framed => DownFramed
    /\ kind \in RawKinds => DownRaw
    /\ ended = "fin" => frames # 0
    /\ over /\ ~astray => ended # "no" /\ (ended = "fin" => Len(got) = sent)

UpSide == got = <<>> /\ carry = <<>> /\ over = FALSE /\ ended = "no"

DownInv == (dir = "down" => ReadSide) /\ (dir = "up" => UpSide)

AnyRead(cap) ==
    \/ HTTPObfsRead(cap) \/ HTTPSimpleRead(cap) \/ VmessHTTPRead(cap) \/ SnellRead(cap)
    \/ TLSObfsRead(cap) \/ GunRead(cap) \/ WebsocketRead(cap)
    \/ ChunkRead(cap) \/ AEADRead(cap) \/ MuxRead(cap) \/ SSRRead(cap)

LEMMA FramedOrRaw == kind \in AllKinds => kind \in Framed \/ kind \in RawKinds
BY DEF Framed, RawKinds, AllKinds, Ssr

LEMMA FramedNotRaw == kind \in Framed => kind \notin RawKinds
BY DEF Framed, RawKinds, Ssr

(* A Read goes on until it meets the end or fails.                         *)
LEMMA ReadKeeps ==
    ASSUME NEW cap, AnyRead(cap), ~Fail
    PROVE  dir = "down" /\ ~over /\ UNCHANGED <<peer, over, astray>>
<1>1. CASE HTTPObfsRead(cap) \/ HTTPSimpleRead(cap)
  <2>1. ASSUME ReadFirstSegment(cap) PROVE UNCHANGED <<peer, over, astray>>
    BY <2>1 DEF ReadFirstSegment
  <2>2. QED
    BY <1>1, <2>1 DEF HTTPObfsRead, HTTPSimpleRead, ReadCarry, Kept, Read
<1>2. CASE VmessHTTPRead(cap) \/ SnellRead(cap)
  BY <1>2 DEF VmessHTTPRead, SnellRead, Kept, Read
<1>3. CASE TLSObfsRead(cap)
  BY <1>3 DEF TLSObfsRead, ReadRest, Kept, Read
<1>4. CASE GunRead(cap)
  BY <1>4 DEF GunRead, ReadRest, Kept, Read
<1>5. CASE WebsocketRead(cap)
  BY <1>5 DEF WebsocketRead, Kept, Read
<1>6. CASE ChunkRead(cap)
  BY <1>6 DEF ChunkRead, ReadCarry, Kept, Read
<1>7. CASE AEADRead(cap)
  BY <1>7 DEF AEADRead, ReadCarry, Kept, Read
<1>8. CASE MuxRead(cap)
  BY <1>8 DEF MuxRead, Kept, Read
<1>9. CASE SSRRead(cap)
  BY <1>9 DEF SSRRead, ReadCarry, Kept, Read
<1>10. QED
  BY <1>1, <1>2, <1>3, <1>4, <1>5, <1>6, <1>7, <1>8, <1>9 DEF AnyRead

(* A step that takes nothing from the wire.                                *)
LEMMA SideStays ==
    ASSUME ReadSide, UNCHANGED <<kind, sent, frames, ended, state, wire, got>>,
           over' /\ ~astray' => ended # "no" /\ (ended = "fin" => Len(got) = sent)
    PROVE  ReadSide'
<1>1. UNCHANGED <<first, remain, carry, under, count>>
  BY DEF state
<1>2. kind' \in Framed' => DownFramed'
  <2>1. kind' \in Framed' => kind \in Framed
    BY DEF Framed, AllKinds, RawKinds
  <2>2. DownFramed => DownFramed'
    BY <1>1, ReadingStays
  <2>3. QED
    BY <2>1, <2>2 DEF ReadSide
<1>3. kind' \in RawKinds' => DownRaw'
  <2>1. kind' \in RawKinds' => kind \in RawKinds
    BY DEF RawKinds
  <2>2. DownRaw => DownRaw'
    BY <1>1, RawStays
  <2>3. QED
    BY <2>1, <2>2 DEF ReadSide
<1>4. ended' = "fin" => frames' # 0
  BY DEF ReadSide
<1>5. over' /\ ~astray' => ended' # "no" /\ (ended' = "fin" => Len(got') = sent')
  OBVIOUS
<1>6. QED
  BY <1>2, <1>3, <1>4, <1>5 DEF ReadSide

LEMMA SideReads ==
    ASSUME TypeOK, ReadSide, NEW cap \in Nat, AnyRead(cap), ~Fail
    PROVE  ReadSide'
<1>1. ~over /\ UNCHANGED <<peer, over, astray>>
  BY ReadKeeps
<1>2. ASSUME kind \in Framed PROVE DownFramed'
  <2>1. DownFramed
    BY <1>2 DEF ReadSide
  <2>2. kind \notin RawKinds
    BY <1>2, FramedNotRaw
  <2>3. \/ TLSObfsRead(cap) \/ GunRead(cap) \/ WebsocketRead(cap)
        \/ ChunkRead(cap) \/ AEADRead(cap) \/ MuxRead(cap) \/ SSRRead(cap)
    BY <2>2 DEF AnyRead, HTTPObfsRead, HTTPSimpleRead, VmessHTTPRead, SnellRead, RawKinds
  <2>4. QED
    BY <2>1, <2>3, TLSReads, GunReads, WebsocketReads, ChunkReads, AEADReads, MuxReads, SSRReads
<1>3. ASSUME kind \in RawKinds PROVE DownRaw'
  <2>1. DownRaw
    BY <1>3 DEF ReadSide
  <2>2. HTTPObfsRead(cap) \/ HTTPSimpleRead(cap) \/ VmessHTTPRead(cap) \/ SnellRead(cap)
    BY <1>3 DEF AnyRead, TLSObfsRead, GunRead, WebsocketRead, ChunkRead, AEADRead, MuxRead, SSRRead, RawKinds, Ssr
  <2>3. QED
    BY <2>1, <2>2, RawReads
<1>4. kind' = kind /\ frames' = frames /\ ended' = ended
  BY <1>1 DEF peer
<1>5. kind' \in Framed' => DownFramed'
  <2>1. kind' \in Framed' => kind \in Framed
    BY <1>4 DEF Framed, AllKinds, RawKinds
  <2>2. QED
    BY <1>2, <2>1
<1>6. kind' \in RawKinds' => DownRaw'
  <2>1. kind' \in RawKinds' => kind \in RawKinds
    BY <1>4 DEF RawKinds
  <2>2. QED
    BY <1>3, <2>1
<1>7. (ended' = "fin" => frames' # 0) /\ ~over'
  BY <1>1, <1>4 DEF ReadSide
<1>8. QED
  BY <1>5, <1>6, <1>7 DEF ReadSide

LEMMA SideEnds ==
    ASSUME TypeOK, ReadSide, ReadEnds
    PROVE  ReadSide'
<1>1. UNCHANGED <<peer, state, wire, got, astray>>
  BY DEF ReadEnds
<1>2. ended # "no"
  BY DEF ReadEnds
<1>3. ASSUME ended = "fin" PROVE Len(got) = sent
  <2>1. carry = <<>> /\ (wire = <<>> \/ (first /\ wire = Prelude(kind)))
    BY <1>3 DEF ReadEnds
  <2>2. frames # 0 /\ (kind \in Framed => DownFramed) /\ (kind \in RawKinds => DownRaw)
    BY <1>3 DEF ReadSide
  <2>3. kind \in Framed \/ kind \in RawKinds
    BY FramedOrRaw DEF TypeOK
  <2>4. QED
    BY <1>3, <2>1, <2>2, <2>3, FramedComplete, RawComplete
<1>4. UNCHANGED <<kind, sent, frames, ended, state, wire, got>>
  BY <1>1 DEF peer
<1>5. QED
  BY <1>2, <1>3, <1>4, SideStays

LEMMA SideServes ==
    ASSUME FramingAssumption, TypeOK, ReadSide, Server
    PROVE  ReadSide'
<1>1. ended = "no" /\ UNCHANGED <<kind, over, astray>>
  BY DEF Server, ServerSends, ServerKeepsAlive, ServerEnds, ServerCut
<1>2. ~(over' /\ ~astray')
  BY <1>1 DEF ReadSide
<1>3. kind' \in Framed' => DownFramed'
  <2>1. kind' \in Framed' => kind \in Framed
    BY <1>1 DEF Framed, AllKinds, RawKinds
  <2>2. ASSUME kind \in Framed PROVE DownFramed'
    BY <2>2, FramedServes DEF ReadSide
  <2>3. QED
    BY <2>1, <2>2
<1>4. kind' \in RawKinds' => DownRaw'
  <2>1. kind' \in RawKinds' => kind \in RawKinds
    BY <1>1 DEF RawKinds
  <2>2. ASSUME kind \in RawKinds PROVE DownRaw'
    BY <2>2, RawServes DEF ReadSide
  <2>3. QED
    BY <2>1, <2>2
<1>5. ended' = "fin" => frames' # 0
  <2>1. frames \in Nat
    BY DEF TypeOK
  <2>2. CASE ServerEnds
    BY <2>1, <2>2 DEF ServerEnds
  <2>3. CASE ~ServerEnds
    BY <1>1, <2>3 DEF Server, ServerSends, ServerKeepsAlive, ServerCut
  <2>4. QED
    BY <2>2, <2>3
<1>6. QED
  BY <1>2, <1>3, <1>4, <1>5 DEF ReadSide

LEMMA SideStarts == ASSUME FramingAssumption, Init PROVE ReadSide
<1>1. /\ wire = <<>> /\ sent = 0 /\ frames = 0 /\ ended = "no" /\ first = TRUE /\ remain = 0 /\ carry = <<>>
      /\ under = <<>> /\ count = 0 /\ got = <<>> /\ over = FALSE
  BY DEF Init
<1>2. <<>> \in Seq(Token) /\ Len(<<>>) = 0
  OBVIOUS
<1>3. Numbered(<<>>, 0)
  BY <1>2 DEF Numbered
<1>4. DownFramed
  <2>1. PICK T, pos, base, tok : /\ T = [i \in Nat |-> tok] /\ tok = Tok("head", 0)
                                 /\ pos = [i \in Nat |-> 0] /\ base = [i \in Nat |-> 0]
    OBVIOUS
  <2>2. tok \in Token
    BY <2>1 DEF Tok, Token
  <2>3. T \in [Nat -> Token] /\ pos \in [Nat -> Nat] /\ base \in [Nat -> Nat] /\ pos[0] = 0 /\ base[0] = 0
    BY <2>1, <2>2
  <2>4. 0..frames = {0} /\ 0..(frames - 1) = {}
    BY <1>1
  <2>5. Streamed(T, pos, base)
    <3>1. base[frames] = sent /\ (\A j \in 0..frames : pos[j] <= pos[frames])
      BY <1>1, <2>1, <2>3
    <3>2. \A j \in 0..(frames - 1) : FrameAt(T, pos, base, j)
      BY <2>4
    <3>3. QED
      BY <2>3, <3>1, <3>2 DEF Streamed
  <2>6. 0 + Len(under) + Len(wire) = 0
    BY <1>1, <1>2
  <2>7. 1..Len(under) = {} /\ 1..Len(wire) = {}
    BY <1>1, <1>2
  <2>8. OnWire(T, 0, 0)
    BY <2>6, <2>7 DEF OnWire
  <2>9. Given(0)
    BY <1>1, <1>2, <1>3 DEF Given
  <2>10. FieldsAt(0)
    BY <1>1 DEF FieldsAt
  <2>11. pos[0] - remain = 0 /\ base[0] - remain = 0
    BY <1>1, <2>3
  <2>12. Reading(T, pos, base, 0, 0)
    BY <1>1, <2>3, <2>4, <2>8, <2>9, <2>10, <2>11 DEF Reading
  <2>13. QED
    BY <2>5, <2>12 DEF DownFramed
<1>5. DownRaw
  <2>1. Len(wire) = 0 /\ 1..Len(wire) = {} /\ Len(got) = 0
    BY <1>1, <1>2
  <2>2. Numbered(got, 0) /\ Numbered(carry, Len(got))
    BY <1>1, <1>3, <2>1
  <2>3. QED
    BY <1>1, <2>1, <2>2 DEF DownRaw
<1>6. QED
  BY <1>1, <1>4, <1>5 DEF ReadSide

(* The other direction reads nothing.                                      *)
LEMMA UpStays ==
    ASSUME DownInv, dir = "up", [Next]_vars
    PROVE  dir' = "up" /\ UpSide'
<1>1. UpSide /\ dir # "down"
  BY DEF DownInv
<1>2. ~Read
  BY <1>1 DEF Read
<1>3. ~Server
  BY <1>1 DEF Server, ServerSends, ServerKeepsAlive, ServerEnds, ServerCut
<1>4. ~ReadStep
  <2>1. ~ReadEnds
    BY <1>2 DEF ReadEnds
  <2>2. ASSUME NEW cap \in Caps PROVE ~AnyRead(cap)
    BY <1>2 DEF AnyRead, HTTPObfsRead, HTTPSimpleRead, VmessHTTPRead, SnellRead, TLSObfsRead, GunRead,
       WebsocketRead, ChunkRead, AEADRead, MuxRead, SSRRead
  <2>3. QED
    BY <2>1, <2>2 DEF ReadStep, AnyRead
<1>5. CASE WriteStep
  <2>1. UNCHANGED <<dir, got, carry, over, ended>>
    <3>1. ASSUME NEW n, HTTPSimpleWrite(n) PROVE UNCHANGED <<dir, got, carry, over, ended>>
      BY <3>1 DEF HTTPSimpleWrite, Put
    <3>2. ASSUME NEW n, SSREncode(n) PROVE UNCHANGED <<dir, got, carry, over, ended>>
      BY <3>2 DEF SSREncode, Put
    <3>3. ASSUME NEW n, \/ HTTPWrite(n) \/ TLSObfsWrite(n) \/ ChunkWrite(n)
                        \/ AEADWrite(n) \/ GunWrite(n) \/ MuxWrite(n)
          PROVE  UNCHANGED <<dir, got, carry, over, ended>>
      BY <3>3 DEF HTTPWrite, TLSObfsWrite, ChunkWrite, AEADWrite, GunWrite, MuxWrite, Put
    <3>4. QED
      BY <1>5, <3>1, <3>2, <3>3 DEF WriteStep
  <2>2. QED
    BY <1>1, <2>1 DEF UpSide
<1>6. CASE UNCHANGED vars
  BY <1>1, <1>6 DEF UpSide, vars, peer, state
<1>7. QED
  BY <1>3, <1>4, <1>5, <1>6 DEF Next

LEMMA DownGoesOn ==
    ASSUME FramingAssumption, TypeOK, DownInv, dir = "down", [Next]_vars
    PROVE  dir' = "down" /\ ReadSide'
<1>1. ReadSide
  BY DEF DownInv
<1>2. CASE Server
  <2>1. dir' = dir
    BY <1>2 DEF Server, ServerSends, ServerKeepsAlive, ServerEnds, ServerCut
  <2>2. QED
    BY <1>1, <1>2, <2>1, SideServes
<1>3. CASE ReadEnds
  BY <1>1, <1>3, SideEnds DEF ReadEnds, peer
<1>4. CASE Fail
  <2>1. UNCHANGED <<kind, dir, sent, frames, ended, state, wire, got>> /\ astray'
    BY <1>4 DEF Fail, peer
  <2>2. QED
    BY <1>1, <2>1, SideStays
<1>5. ASSUME NEW cap \in Caps, AnyRead(cap), ~Fail PROVE dir' = "down" /\ ReadSide'
  <2>1. cap \in Nat
    BY DEF FramingAssumption
  <2>2. UNCHANGED peer
    BY <1>5, ReadKeeps
  <2>3. QED
    BY <1>1, <1>5, <2>1, <2>2, SideReads DEF peer
<1>6. ~WriteStep
  BY DEF WriteStep, Write, HTTPWrite, HTTPSimpleWrite, TLSObfsWrite, ChunkWrite, AEADWrite, GunWrite, MuxWrite,
     SSREncode
<1>7. CASE UNCHANGED vars
  <2>1. UNCHANGED <<kind, dir, sent, frames, ended, state, wire, got, over, astray>>
    BY <1>7 DEF vars, peer
  <2>2. QED
    BY <1>1, <2>1, SideStays DEF ReadSide
<1>8. QED
  BY <1>2, <1>3, <1>4, <1>5, <1>6, <1>7 DEF Next, ReadStep, AnyRead

LEMMA DownKept ==
    ASSUME FramingAssumption, TypeOK, DownInv, [Next]_vars
    PROVE  DownInv'
<1>1. dir \in {"down", "up"}
  BY DEF TypeOK
<1>2. CASE dir = "down"
  BY <1>2, DownGoesOn DEF DownInv
<1>3. CASE dir = "up"
  BY <1>3, UpStays DEF DownInv
<1>4. QED
  BY <1>1, <1>2, <1>3

LEMMA DownStarts == ASSUME FramingAssumption, Init PROVE DownInv
<1>1. UpSide
  BY DEF Init, UpSide
<1>2. QED
  BY <1>1, SideStarts DEF DownInv

(* The two invariants of Read.                                             *)
LEMMA ReadRight == ASSUME TypeOK, DownInv PROVE InOrder /\ Complete
<1>1. dir \in {"down", "up"} /\ kind \in AllKinds
  BY DEF TypeOK
<1>2. Numbered(got, 0)
  <2>1. CASE dir = "up"
    <3>1. got = <<>>
      BY <2>1 DEF DownInv, UpSide
    <3>2. <<>> \in Seq(Token) /\ 1..Len(<<>>) = {}
      OBVIOUS
    <3>3. QED
      BY <3>1, <3>2 DEF Numbered
  <2>2. CASE dir = "down"
    <3>1. ReadSide
      BY <2>2 DEF DownInv
    <3>2. CASE kind \in Framed
      BY <3>1, <3>2 DEF ReadSide, DownFramed, Reading, Given
    <3>3. CASE kind \in RawKinds
      BY <3>1, <3>3 DEF ReadSide, DownRaw
    <3>4. QED
      BY <1>1, <3>2, <3>3, FramedOrRaw
  <2>3. QED
    BY <1>1, <2>1, <2>2
<1>3. InOrder
  BY <1>2, NumberedIs DEF InOrder
<1>4. Complete
  BY <1>1 DEF Complete, DownInv, UpSide, ReadSide
<1>5. QED
  BY <1>3, <1>4

(* However TCP cuts the stream and whatever buffers Read is given, the     *)
(* callers get what was sent, in order, each byte once, and a reader that  *)
(* met an orderly end has given all of it.                                 *)
THEOREM ReadDelivers == ASSUME FramingAssumption PROVE Spec => [](InOrder /\ Complete)
<1>1. Init => DownInv
  BY DownStarts
<1>2. TypeOK /\ DownInv /\ [Next]_vars => DownInv'
  BY DownKept
<1>3. Spec => []TypeOK
  BY FramingTypes
<1>4. TypeOK /\ DownInv => InOrder /\ Complete
  BY ReadRight
<1>5. QED
  BY <1>1, <1>2, <1>3, <1>4, PTL DEF Spec

LEMMA LayoutAppended ==
    ASSUME NEW s \in Seq(Token), NEW t \in Seq(Token), NEW low \in Nat, low <= Len(s),
           NEW a, NEW b, NEW c, Layout(s, low, Len(s), a, b), Layout(t, 0, Len(t), b, c)
    PROVE  Layout(s \o t, low, Len(s \o t), a, c) /\ Len(s) <= Len(s \o t)
<1>1. PICK w : w = s \o t
  OBVIOUS
<1>2. PICK k \in Nat, l \in Nat : k = Len(s) /\ l = Len(t)
  OBVIOUS
<1>3. /\ w \in Seq(Token) /\ Len(w) = k + l
      /\ \A i \in 1..k : w[i] = s[i]
      /\ \A i \in 1..l : w[k + i] = t[i]
  BY <1>1, <1>2, Joined
<1>4. low <= k /\ k <= Len(s) /\ k <= Len(w) /\ k - low = k - low
  BY <1>2, <1>3
<1>5. \A i \in 1..(k - low) : w[low + i] = s[low + i]
  BY <1>3
<1>6. Layout(w, low, k, a, b)
  <2>1. Layout(s, low, k, a, b)
    BY <1>2
  <2>2. QED
    BY ONLY <1>3, <1>4, <1>5, <2>1, s \in Seq(Token), low \in Nat, k \in Nat, LayoutMoved
<1>7. Layout(w, k, k + l, b, c)
  <2>1. PICK z \in Nat, e \in Nat : z = 0 /\ e = k + l
    OBVIOUS
  <2>2. Layout(t, z, l, b, c)
    BY <1>2, <2>1
  <2>3. z <= l /\ l <= Len(t) /\ e <= Len(w) /\ e - k = l - z
    BY <1>2, <1>3, <2>1
  <2>4. \A i \in 1..(l - z) : w[k + i] = t[z + i]
    BY <1>3, <2>1
  <2>5. Layout(w, k, e, b, c)
    BY ONLY <1>3, <2>2, <2>3, <2>4, t \in Seq(Token), k \in Nat, l \in Nat, z \in Nat, e \in Nat, LayoutMoved
  <2>6. QED
    BY <2>1, <2>5
<1>8. k <= k + l /\ k + l \in Nat
  OBVIOUS
<1>9. Layout(w, low, k + l, a, c)
  BY ONLY <1>4, <1>6, <1>7, <1>8, low \in Nat, k \in Nat, LayoutJoined
<1>10. QED
  BY <1>1, <1>2, <1>3, <1>9

(* One frame.                                                              *)
LEMMA FrameLaid ==
    ASSUME kind \in Framed, NEW id \in Nat, NEW from \in Nat, NEW n \in Nat, kind = "mux" => n < Wrap,
           NEW X, X = ServerFrame(kind, id, from, n)
    PROVE  X \in Seq(Token) /\ Layout(X, 0, Len(X), from, from + n)
<1>1. \E h \in Seq(Token) : /\ ServerFrame(kind, id, from, n) = h \o Payload(from, n)
                            /\ HeaderOf(h, 0, Len(h), n, id) /\ Sized(h, n)
                            /\ Len(h) # 0 /\ \A i \in 1..Len(h) : h[i].t # "byte"
  BY HeadIsBuilt
<1>2. PICK h \in Seq(Token) : /\ X = h \o Payload(from, n) /\ Sized(h, n)
                              /\ \A i \in 1..Len(h) : h[i].t # "byte"
  BY <1>1
<1>3. PICK p : p = Payload(from, n)
  OBVIOUS
<1>4. p \in Seq(Token) /\ Len(p) = n
  BY <1>3, PayloadIs
<1>5. PICK k \in Nat : k = Len(h)
  OBVIOUS
<1>6. PICK m \in Nat : m = HeaderLength /\ m # 0 /\ m <= k /\ h[m].t = "size" /\ h[m].v = n + (k - m)
  BY <1>2, <1>5, HeaderLengthIs DEF Sized
<1>7. /\ X \in Seq(Token) /\ Len(X) = k + n
      /\ \A i \in 1..k : X[i] = h[i]
      /\ \A i \in 1..n : X[k + i] = p[i]
  <2>1. X = h \o p /\ k = Len(h) /\ n = Len(p)
    BY <1>2, <1>3, <1>4, <1>5
  <2>2. /\ h \o p \in Seq(Token) /\ Len(h \o p) = Len(h) + Len(p)
        /\ \A i \in 1..Len(h) : (h \o p)[i] = h[i]
        /\ \A i \in 1..Len(p) : (h \o p)[Len(h) + i] = p[i]
    BY <1>4, Joined
  <2>3. QED
    BY ONLY <2>1, <2>2
<1>8. PICK g : g = SubSeq(h, m + 1, k)
  OBVIOUS
<1>9. /\ g \in Seq(Token) /\ Len(g) = k - m /\ \A i \in 1..(k - m) : g[i] = h[m + i]
  <2>1. k <= Len(h)
    BY <1>5
  <2>2. QED
    BY ONLY <1>6, <1>8, <2>1, h \in Seq(Token), k \in Nat, m \in Nat, PartIs
<1>10. PICK d \in Nat : d = k - m /\ k = m + d
  BY <1>6
<1>11. PICK y : y = SubSeq(X, m + 1, k + n)
  OBVIOUS
<1>12. /\ y \in Seq(Token) /\ Len(y) = d + n /\ \A i \in 1..(d + n) : y[i] = X[m + i]
  <2>1. k + n \in Nat /\ m <= k + n /\ k + n <= Len(X) /\ k + n - m = d + n
    BY <1>7, <1>10
  <2>2. y \in Seq(Token) /\ Len(y) = k + n - m /\ \A i \in 1..(k + n - m) : y[i] = X[m + i]
    BY ONLY <1>7, <1>11, <2>1, m \in Nat, PartIs
  <2>3. QED
    BY <2>1, <2>2
<1>13. y = g \o p
  <2>1. Len(y) = Len(g) + Len(p)
    BY <1>4, <1>9, <1>10, <1>12
  <2>2. \A i \in 1..Len(g) : y[i] = g[i]
    <3>1. ASSUME NEW i \in 1..d PROVE y[i] = g[i]
      <4>1. m + i \in 1..k /\ i \in 1..(d + n) /\ i \in 1..(k - m)
        BY <1>10
      <4>2. y[i] = X[m + i] /\ X[m + i] = h[m + i] /\ g[i] = h[m + i]
        BY <1>7, <1>9, <1>12, <4>1
      <4>3. QED
        BY <4>2
    <3>2. QED
      BY <1>9, <1>10, <3>1
  <2>3. \A i \in 1..Len(p) : y[Len(g) + i] = p[i]
    <3>1. ASSUME NEW i \in 1..n PROVE y[d + i] = p[i]
      <4>1. d + i \in 1..(d + n) /\ m + (d + i) = k + i
        BY <1>10
      <4>2. y[d + i] = X[k + i] /\ X[k + i] = p[i]
        BY <1>7, <1>12, <4>1
      <4>3. QED
        BY <4>2
    <3>2. QED
      BY <1>4, <1>9, <1>10, <3>1
  <2>4. QED
    BY <1>4, <1>9, <1>12, <2>1, <2>2, <2>3, Glued
<1>14. Bytes(y) = p
  <2>1. \A i \in 1..Len(g) : g[i].t # "byte"
    <3>1. ASSUME NEW i \in 1..d PROVE g[i].t # "byte"
      <4>1. m + i \in 1..k /\ i \in 1..(k - m)
        BY <1>10
      <4>2. g[i] = h[m + i] /\ h[m + i].t # "byte"
        BY <1>2, <1>5, <1>9, <4>1
      <4>3. QED
        BY <4>2
    <3>2. QED
      BY <1>9, <1>10, <3>1
  <2>2. Bytes(g \o Payload(from, n)) = Payload(from, n)
    BY <1>9, <2>1, BytesBehind
  <2>3. QED
    BY <1>3, <1>13, <2>2
<1>15. PICK l \in Nat : l = k + n /\ l = Len(X) /\ 0 < l
  BY <1>6, <1>7
<1>16. PICK C, byte : C = {0, l} /\ byte = [q_ \in Nat |-> IF q_ = 0 THEN from ELSE from + n]
  OBVIOUS
<1>17. C \in SUBSET (0..l) /\ 0 \in C /\ l \in C /\ byte \in [Nat -> Nat] /\ byte[0] = from /\ byte[l] = from + n
  BY <1>15, <1>16
<1>18. Cut(X, 0, l, from, from + n)
  <2>1. 0 + HeaderLength <= l /\ from <= from + n
    BY <1>6, <1>15
  <2>2. X[0 + HeaderLength].t = "size" /\ X[0 + HeaderLength].v = l - (0 + HeaderLength)
    <3>1. m \in 1..k /\ 0 + m = m /\ n + (k - m) = l - m
      BY <1>6, <1>15
    <3>2. QED
      BY <1>6, <1>7, <3>1
  <2>3. Bytes(SubSeq(X, 0 + HeaderLength + 1, l)) = Payload(from, from + n - from)
    <3>1. 0 + HeaderLength + 1 = m + 1 /\ from + n - from = n
      BY <1>6
    <3>2. QED
      BY <1>3, <1>11, <1>14, <1>15, <3>1
  <2>4. QED
    BY <2>1, <2>2, <2>3 DEF Cut
<1>19. \A c \in C \ {l} : \E e \in C : c < e /\ Cut(X, c, e, byte[c], byte[e])
  <2>1. \A c \in C \ {l} : c = 0
    BY <1>16
  <2>2. 0 < l /\ Cut(X, 0, l, byte[0], byte[l])
    BY <1>15, <1>17, <1>18
  <2>3. QED
    BY <1>17, <2>1, <2>2
<1>20. Cuts(X, 0, l, from, from + n, C, byte)
  BY <1>17, <1>19 DEF Cuts
<1>21. QED
  BY <1>7, <1>15, <1>20 DEF Layout

(* The frames of a Write.                                                  *)
LEMMA ChunksLaid ==
    ASSUME FramingAssumption, kind \in Framed, kind # "mux",
           NEW id \in Nat, NEW from \in Nat, NEW n \in Nat, NEW X, X = ChunkFrames(id, from, n)
    PROVE  X \in Seq(Token) /\ Layout(X, 0, Len(X), from, from + n)
<1>1. kind \in AllKinds
  BY DEF Framed, AllKinds, Ssr
<1>2. PICK s : s = FramesOf(id, from, n)
  OBVIOUS
<1>3. s \in Seq(Seq(Token)) /\ Len(s) = Chunks(n)
  BY <1>1, <1>2, FramesTyped
<1>4. PICK k \in Nat : k = Chunks(n)
  BY ChunksAre
<1>5. PICK f : FlattenRun(s, f)
  BY <1>3, FlattenRuns
<1>6. /\ f[0] = <<>> /\ FlattenSeq(s) = f[k]
      /\ \A i \in 0..k : f[i] \in Seq(Token)
      /\ \A i \in 1..k : f[i] = f[i - 1] \o s[i]
  BY <1>3, <1>4, <1>5 DEF FlattenRun
<1>7. X = f[k]
  BY <1>2, <1>6 DEF ChunkFrames, FramesOf
<1>8. PICK to : to = [i \in 0..k |-> Lower(ChunkSize * i, n)]
  OBVIOUS
<1>9. PICK size \in Nat : size = ChunkSize /\ size # 0
  BY DEF FramingAssumption
<1>10. to[0] = 0 /\ to[k] = n
  <2>1. size * 0 = 0 /\ n <= size * k
    <3>1. n <= k * size
      BY <1>4, <1>9, ChunksAre
    <3>2. QED
      BY <3>1
  <2>2. size * k \in Nat
    OBVIOUS
  <2>3. QED
    BY <1>8, <1>9, <2>1, <2>2 DEF Lower
<1>11. ASSUME NEW i \in 1..k, Layout(f[i - 1], 0, Len(f[i - 1]), from, from + to[i - 1])
       PROVE  Layout(f[i], 0, Len(f[i]), from, from + to[i])
  <2>1. i \in 1..Chunks(n) /\ i - 1 \in 0..k /\ i \in 0..k /\ i \in Nat
    BY <1>4
  <2>2. PICK b \in Nat, m \in Nat : /\ b = (i - 1) * ChunkSize /\ m = Lower(ChunkSize, n - b)
                                    /\ Lower(ChunkSize * i, n) = b + m
    BY <2>1, ChunkIs
  <2>3. b < n
    BY <2>1, <2>2, ChunksAre
  <2>4. to[i] = b + m
    BY <1>8, <2>1, <2>2
  <2>5. to[i - 1] = b
    <3>1. ChunkSize * (i - 1) = b
      BY <1>9, <2>1, <2>2
    <3>2. to[i - 1] = Lower(ChunkSize * (i - 1), n)
      BY <1>8, <2>1
    <3>3. QED
      BY <2>3, <3>1, <3>2 DEF Lower
  <2>6. PICK j \in Nat, g \in Nat : j = id + i - 1 /\ g = from + b
    BY <2>1
  <2>7. s[i] = ServerFrame(kind, j, g, m)
    BY <1>2, <2>1, <2>2, <2>6 DEF FramesOf
  <2>8. PICK y : y = s[i]
    OBVIOUS
  <2>9. y \in Seq(Token) /\ Layout(y, 0, Len(y), g, g + m)
    BY <2>7, <2>8, FrameLaid
  <2>10. PICK x : x = f[i - 1]
    OBVIOUS
  <2>11. x \in Seq(Token) /\ f[i] = x \o y /\ Layout(x, 0, Len(x), from, g)
    <3>1. x \in Seq(Token) /\ f[i] = x \o y
      BY <1>6, <2>1, <2>8, <2>10
    <3>2. from + to[i - 1] = g
      BY <2>5, <2>6
    <3>3. QED
      BY <1>11, <2>10, <3>1, <3>2
  <2>12. 0 \in Nat /\ 0 <= Len(x)
    BY <2>11
  <2>13. Layout(x \o y, 0, Len(x \o y), from, g + m)
    BY ONLY <2>9, <2>11, <2>12, LayoutAppended
  <2>14. from + to[i] = g + m
    BY <2>4, <2>6
  <2>15. QED
    BY <2>11, <2>13, <2>14
<1>12. Layout(f[0], 0, Len(f[0]), from, from + to[0])
  <2>1. Len(f[0]) = 0 /\ from + to[0] = from
    BY <1>6, <1>10
  <2>2. Layout(f[0], 0, 0, from, from)
    BY LayoutOfNothing
  <2>3. QED
    BY <2>1, <2>2
<1>13. PICK Bad : Bad = {i \in 0..k : ~Layout(f[i], 0, Len(f[i]), from, from + to[i])}
  OBVIOUS
<1>14. Bad = {}
  <2>1. ASSUME Bad # {} PROVE FALSE
    <3>1. PICK i \in Bad : \A j \in Bad : i <= j
      <4>1. Bad \in SUBSET Nat
        BY <1>13
      <4>2. QED
        BY <2>1, <4>1, Least
    <3>2. i \in 0..k /\ ~Layout(f[i], 0, Len(f[i]), from, from + to[i])
      BY <1>13
    <3>3. i # 0
      BY <1>12, <3>2
    <3>4. i \in 1..k /\ i - 1 \in 0..k /\ ~(i <= i - 1)
      BY <3>2, <3>3
    <3>5. i - 1 \notin Bad
      BY <3>1, <3>4
    <3>6. Layout(f[i - 1], 0, Len(f[i - 1]), from, from + to[i - 1])
      BY <1>13, <3>4, <3>5
    <3>7. QED
      BY <1>11, <3>2, <3>4, <3>6
  <2>2. QED
    BY <2>1
<1>15. k \in 0..k
  OBVIOUS
<1>16. Layout(f[k], 0, Len(f[k]), from, from + to[k])
  BY <1>13, <1>14, <1>15
<1>17. QED
  BY <1>6, <1>7, <1>10, <1>15, <1>16

-----------------------------------------------------------------------------
(* A server reads frame by frame what is laid out.                         *)
FrameEnd(s, i) == i + HeaderLength + s[i + HeaderLength].v
NoFrame(s, i) ==
    i + HeaderLength > Len(s) \/ s[i + HeaderLength].t # "size" \/ FrameEnd(s, i) > Len(s)
ReadTurn(s, f) ==
    [i \in 0..Len(s) |->
        IF i = Len(s) THEN <<>> ELSE IF NoFrame(s, i) THEN Field(0)
        ELSE Bytes(SubSeq(s, i + HeaderLength + 1, FrameEnd(s, i))) \o f[FrameEnd(s, i)]]

LEMMA BytesTyped == ASSUME NEW s \in Seq(Token) PROVE Bytes(s) \in Seq(Token)
<1>1. PICK f : BytesRun(s, f)
  BY BytesRuns
<1>2. Len(s) \in 0..Len(s)
  OBVIOUS
<1>3. QED
  BY <1>1, <1>2 DEF BytesRun

LEMMA EndIs ==
    ASSUME NEW s \in Seq(Token), NEW i \in 0..Len(s), ~NoFrame(s, i)
    PROVE  FrameEnd(s, i) \in 0..Len(s) /\ i < FrameEnd(s, i) /\ HeaderLength \in Nat
<1>1. PICK h \in Nat : h = HeaderLength /\ h # 0
  BY HeaderLengthIs
<1>2. PICK l \in Nat : l = Len(s)
  OBVIOUS
<1>3. i + h <= l
  BY <1>1, <1>2 DEF NoFrame
<1>4. i + h \in 1..l
  BY <1>1, <1>2, <1>3
<1>5. s[i + h] \in Token
  BY <1>2, <1>4
<1>6. PICK v \in Nat : v = s[i + h].v
  BY <1>5 DEF Token
<1>7. FrameEnd(s, i) = i + h + v
  BY <1>1, <1>6 DEF FrameEnd
<1>8. ~(FrameEnd(s, i) > Len(s))
  BY DEF NoFrame
<1>9. QED
  BY <1>1, <1>2, <1>7, <1>8

LEMMA ReadTurnExists ==
    ASSUME NEW s \in Seq(Token)
    PROVE  \E f : f = ReadTurn(s, f)
<1>1. PICK l \in Nat : l = Len(s)
  OBVIOUS
<1> DEFINE P == 0..l
           V == Seq(Token)
           Stop == {i \in P : i = l \/ NoFrame(s, i)}
           rank == [p \in P |-> l - p]
           next == [p \in P \ Stop |-> FrameEnd(s, p)]
           val == [p \in P |-> IF p = l THEN <<>> ELSE Field(0)]
           join == [r \in P \X V |-> IF r[1] \in Stop THEN r[2]
                                     ELSE Bytes(SubSeq(s, r[1] + HeaderLength + 1, FrameEnd(s, r[1]))) \o r[2]]
<1>2. ASSUME NEW p \in P \ Stop PROVE FrameEnd(s, p) \in P /\ p < FrameEnd(s, p) /\ p \in 0..l /\ HeaderLength \in Nat
  BY <1>1, EndIs
<1>3. Descends(P, rank, Stop, next)
  <2>1. rank \in [P -> Nat] /\ Stop \in SUBSET P
    OBVIOUS
  <2>2. next \in [P \ Stop -> P]
    <3> HIDE DEF P, Stop
    <3>1. QED
      BY <1>2
  <2>3. \A p \in P \ Stop : rank[next[p]] < rank[p]
    <3>1. ASSUME NEW p \in P \ Stop PROVE rank[next[p]] < rank[p]
      <4>1. next[p] = FrameEnd(s, p)
        OBVIOUS
      <4>2. PICK e \in 0..l : e = FrameEnd(s, p) /\ p < e /\ p \in 0..l
        BY <1>2
      <4>3. rank[next[p]] = l - e /\ rank[p] = l - p
        BY <4>1, <4>2
      <4>4. QED
        BY <4>2, <4>3
    <3> HIDE DEF P, Stop, rank, next
    <3>2. QED
      BY <3>1
  <2> HIDE DEF P, Stop, rank, next
  <2>4. QED
    BY <2>1, <2>2, <2>3 DEF Descends
<1>4. Gives(P, V, val, join)
  <2>1. \A p \in P : (IF p = l THEN <<>> ELSE Field(0)) \in V
    <3>1. <<>> \in Seq(Token) /\ Field(0) \in Seq(Token)
      BY FieldTyped
    <3>2. QED
      BY <3>1
  <2>2. val \in [P -> V]
    <3> HIDE DEF P, V
    <3>1. QED
      BY <2>1
  <2>3. ASSUME NEW r \in P \X V PROVE join[r] \in V
    <3>1. r[1] \in P /\ r[2] \in Seq(Token)
      OBVIOUS
    <3>2. CASE r[1] \in Stop
      BY <3>1, <3>2
    <3>3. CASE r[1] \notin Stop
      <4>1. PICK i \in 0..l, e \in Nat, h \in Nat : i = r[1] /\ e = FrameEnd(s, i) /\ e <= l /\ h = HeaderLength
        BY <1>2, <3>1, <3>3
      <4>2. i + h + 1 \in Nat /\ i + h + 1 # 0 /\ e <= Len(s)
        BY <1>1, <4>1
      <4>3. SubSeq(s, i + h + 1, e) \in Seq(Token)
        BY <4>2, AnyPart
      <4>4. Bytes(SubSeq(s, i + h + 1, e)) \in Seq(Token)
        BY <4>3, BytesTyped
      <4>5. Bytes(SubSeq(s, i + h + 1, e)) \o r[2] \in Seq(Token)
        BY <3>1, <4>4
      <4>6. join[r] = Bytes(SubSeq(s, i + h + 1, e)) \o r[2]
        BY <3>3, <4>1
      <4> HIDE DEF join
      <4>7. QED
        BY <4>5, <4>6
    <3>4. QED
      BY <3>2, <3>3
  <2>4. join \in [P \X V -> V]
    <3>1. \E t : join = [r \in P \X V |-> t[r]]
      <4>1. join = [r \in P \X V |-> join[r]]
        <5> HIDE DEF P, V, Stop
        <5>1. QED
          OBVIOUS
      <4> HIDE DEF P, V, join
      <4>2. QED
        BY <4>1
    <3> HIDE DEF P, V, join
    <3>2. QED
      BY <2>3, <3>1
  <2> HIDE DEF P, V, val, join
  <2>5. QED
    BY <2>2, <2>4 DEF Gives
<1>5. PICK f : Runs(P, Stop, next, V, val, join, f)
  <2> HIDE DEF P, V, Stop, rank, next, val, join
  <2>1. QED
    BY ONLY <1>3, <1>4, LoopExists
<1>6. f \in [P -> V] /\ \A p \in P : f[p] = IF p \in Stop THEN val[p] ELSE join[<<p, f[next[p]]>>]
  <2> HIDE DEF P, V, Stop, next, val, join
  <2>1. QED
    BY <1>5 DEF Runs
<1>7. ASSUME NEW i \in P
      PROVE  f[i] = IF i = l THEN <<>> ELSE IF NoFrame(s, i) THEN Field(0)
                    ELSE Bytes(SubSeq(s, i + HeaderLength + 1, FrameEnd(s, i))) \o f[FrameEnd(s, i)]
  <2>1. CASE i \in Stop
    <3>1. f[i] = val[i]
      BY <1>6, <2>1
    <3>2. i = l \/ NoFrame(s, i)
      BY <2>1
    <3>3. val[i] = IF i = l THEN <<>> ELSE Field(0)
      OBVIOUS
    <3>4. QED
      BY <3>1, <3>2, <3>3
  <2>2. CASE i \notin Stop
    <3>1. i # l /\ ~NoFrame(s, i)
      BY <2>2
    <3>2. next[i] = FrameEnd(s, i) /\ FrameEnd(s, i) \in P
      BY <1>2, <2>2
    <3>3. f[FrameEnd(s, i)] \in V
      <4> HIDE DEF P, V
      <4>1. QED
        BY <1>6, <3>2
    <3>4. f[i] = join[<<i, f[FrameEnd(s, i)]>>]
      <4> HIDE DEF P, V, Stop, next, join, val
      <4>1. QED
        BY <1>6, <2>2, <3>2
    <3>5. <<i, f[FrameEnd(s, i)]>> \in P \X V
      <4> HIDE DEF P, V
      <4>1. QED
        BY <3>3
    <3>6. join[<<i, f[FrameEnd(s, i)]>>]
            = Bytes(SubSeq(s, i + HeaderLength + 1, FrameEnd(s, i))) \o f[FrameEnd(s, i)]
      <4> HIDE DEF P, V, Stop
      <4>1. QED
        BY <2>2, <3>5
    <3>7. QED
      BY <3>1, <3>4, <3>6
  <2>3. QED
    BY <2>1, <2>2
<1>8. f = [i \in P |-> f[i]]
  <2> HIDE DEF P, V
  <2>1. QED
    BY <1>6
<1>9. P = 0..Len(s)
  BY <1>1
<1>10. f = ReadTurn(s, f)
  <2> HIDE DEF P, V
  <2>1. QED
    BY <1>1, <1>7, <1>8, <1>9 DEF ReadTurn
<1>11. QED
  BY <1>10

LEMMA UnderstoodRuns ==
    ASSUME wire \in Seq(Token), kind \notin RawKinds, wire # <<>>
    PROVE  \E f : f = ReadTurn(wire, f) /\ Understood = f[Len(Opening(kind))]
<1>1. \E g : g = ReadTurn(wire, g)
  BY ReadTurnExists
<1>2. QED
  BY <1>1, ZenonT(60) DEF Understood, ReadTurn, NoFrame, FrameEnd

(* From each end of a frame on it reads the rest of the payload.           *)
LEMMA LaidIsRead ==
    ASSUME NEW s \in Seq(Token), NEW low \in Nat, low <= Len(s), NEW to \in Nat,
           Layout(s, low, Len(s), 0, to), NEW f, f = ReadTurn(s, f)
    PROVE  f[low] = Payload(0, to)
<1>1. PICK l \in Nat : l = Len(s)
  OBVIOUS
<1>2. PICK C, byte : Cuts(s, low, l, 0, to, C, byte)
  BY <1>1 DEF Layout
<1>3. /\ C \in SUBSET (low..l) /\ low \in C /\ l \in C
      /\ byte \in [Nat -> Nat] /\ byte[low] = 0 /\ byte[l] = to
      /\ \A c \in C \ {l} : \E n \in C : c < n /\ Cut(s, c, n, byte[c], byte[n])
  BY <1>2 DEF Cuts
<1>4. PICK h \in Nat : h = HeaderLength /\ h # 0
  BY HeaderLengthIs
<1>5. \A i \in 0..l : f[i] = IF i = l THEN <<>> ELSE IF NoFrame(s, i) THEN Field(0)
                             ELSE Bytes(SubSeq(s, i + h + 1, FrameEnd(s, i))) \o f[FrameEnd(s, i)]
  BY <1>1, <1>4 DEF ReadTurn
<1>6. \A c \in C : c \in 0..l /\ c \in Nat /\ byte[c] \in Nat
  BY <1>3
<1>7. PICK Right : Right = {c \in C : byte[c] <= to /\ f[c] = Payload(byte[c], to - byte[c])}
  OBVIOUS
<1>8. l \in Right
  <2>1. f[l] = <<>>
    BY <1>5
  <2>2. to - to = 0 /\ to <= to
    OBVIOUS
  <2>3. Payload(to, 0) = <<>>
    <3>1. Len(Payload(to, 0)) = 0 /\ Payload(to, 0) \in Seq(Token)
      BY PayloadIs
    <3>2. QED
      BY <3>1, EmptySeq
  <2>4. QED
    BY <1>3, <1>7, <2>1, <2>2, <2>3
<1>9. ASSUME NEW c \in C \ {l}, \A n \in C : c < n => n \in Right
      PROVE  c \in Right
  <2>1. PICK n \in C : c < n /\ Cut(s, c, n, byte[c], byte[n])
    BY <1>3
  <2>2. PICK a \in Nat, b \in Nat : a = byte[c] /\ b = byte[n]
    BY <1>6
  <2>3. n \in Right
    BY <1>9, <2>1
  <2>4. b <= to /\ f[n] = Payload(b, to - b)
    BY <1>7, <2>2, <2>3
  <2>5. /\ c + h <= n /\ a <= b
        /\ s[c + h].t = "size" /\ s[c + h].v = n - (c + h)
        /\ Bytes(SubSeq(s, c + h + 1, n)) = Payload(a, b - a)
    BY <1>4, <2>1, <2>2 DEF Cut
  <2>6. c \in 0..l /\ c \in Nat /\ n \in Nat /\ n <= l
    BY <1>6
  <2>7. FrameEnd(s, c) = n
    <3>1. FrameEnd(s, c) = c + h + (n - (c + h))
      BY <1>4, <2>5 DEF FrameEnd
    <3>2. QED
      BY <2>6, <3>1
  <2>8. ~NoFrame(s, c)
    <3>0. c + h <= n
      BY <2>5
    <3>1. ~(c + h > l) /\ ~(n > l)
      BY ONLY <3>0, <2>6, h \in Nat, l \in Nat
    <3>2. QED
      BY <1>1, <1>4, <2>5, <2>7, <3>1 DEF NoFrame
  <2>9. f[c] = Payload(a, b - a) \o Payload(b, to - b)
    <3>1. c # l
      OBVIOUS
    <3>2. f[c] = Bytes(SubSeq(s, c + h + 1, n)) \o f[n]
      BY <1>5, <2>6, <2>7, <2>8, <3>1
    <3>3. QED
      BY <2>4, <2>5, <3>2
  <2>10. PICK x \in Nat, y \in Nat : x = b - a /\ y = to - b /\ a + x = b /\ to - a = x + y /\ a <= to
    <3>1. a <= b /\ b <= to
      BY <2>4, <2>5
    <3>2. PICK x \in Nat : b = a + x
      BY ONLY <3>1, a \in Nat, b \in Nat
    <3>3. PICK y \in Nat : to = b + y
      BY ONLY <3>1, b \in Nat, to \in Nat
    <3>4. x = b - a /\ y = to - b /\ a + x = b /\ to - a = x + y /\ a <= to
      BY ONLY <3>2, <3>3, a \in Nat, x \in Nat, y \in Nat, b \in Nat, to \in Nat
    <3>5. QED
      BY <3>4
  <2>11. Payload(a, x) \o Payload(a + x, y) = Payload(a, x + y)
    BY PayloadJoined
  <2>12. f[c] = Payload(a, to - a)
    BY <2>9, <2>10, <2>11
  <2>13. QED
    BY <1>7, <2>2, <2>10, <2>12
<1>10. PICK Wrong : Wrong = {d \in Nat : \E c \in C : d = l - c /\ c \notin Right}
  OBVIOUS
<1>11. Wrong = {}
  <2>1. ASSUME Wrong # {} PROVE FALSE
    <3>1. PICK d \in Wrong : \A e \in Wrong : d <= e
      <4>1. Wrong \in SUBSET Nat
        BY <1>10
      <4>2. QED
        BY <2>1, <4>1, Least
    <3>2. PICK c \in C : d = l - c /\ c \notin Right
      BY <1>10
    <3>3. c # l
      BY <1>8, <3>2
    <3>4. ASSUME NEW n \in C, c < n PROVE n \in Right
      <4>1. c \in 0..l /\ n \in 0..l
        BY <1>6
      <4>2. l - n \in Nat /\ ~(d <= l - n)
        BY <3>2, <3>4, <4>1
      <4>3. l - n \notin Wrong
        BY <3>1, <4>2
      <4>4. QED
        BY <1>10, <4>2, <4>3
    <3>5. QED
      BY <1>9, <3>2, <3>3, <3>4
  <2>2. QED
    BY <2>1
<1>12. low \in Right
  <2>1. l - low \in Nat
    BY <1>1
  <2>2. QED
    BY <1>3, <1>10, <1>11, <2>1
<1>13. f[low] = Payload(0, to - 0) /\ to - 0 = to
  BY <1>3, <1>7, <1>12
<1>14. QED
  BY <1>13

-----------------------------------------------------------------------------
(* What Write has put on the wire.                                         *)
Start == IF first THEN 0 ELSE Len(Opening(kind))

WriteSide ==
    /\ kind \in RawKinds => Bytes(wire) = Payload(0, sent)
    /\ kind \in Framed /\ ~astray =>
         /\ first /\ Len(Opening(kind)) # 0 => wire = <<>> /\ sent = 0
         /\ Start <= Len(wire) /\ Layout(wire, Start, Len(wire), 0, sent)

UpInv == UpSide /\ WriteSide

LEMMA WriteRight ==
    ASSUME TypeOK, WriteSide, dir = "up"
    PROVE  WritesUnderstood
<1>1. SUFFICES ASSUME ~astray PROVE Understood = Payload(0, sent)
  BY DEF WritesUnderstood
<1>2. wire \in Seq(Token) /\ sent \in Nat /\ kind \in AllKinds /\ first \in BOOLEAN
  BY StateTypes DEF TypeOK
<1>3. CASE kind \in RawKinds
  <2>1. Understood = Bytes(wire)
    BY <1>3 DEF Understood
  <2>2. QED
    BY <1>3, <2>1 DEF WriteSide
<1>4. CASE kind \in Framed
  <2>1. kind \notin RawKinds
    BY <1>4, FramedNotRaw
  <2>2. /\ first /\ Len(Opening(kind)) # 0 => wire = <<>> /\ sent = 0
        /\ Start <= Len(wire) /\ Layout(wire, Start, Len(wire), 0, sent)
    BY <1>1, <1>4 DEF WriteSide
  <2>3. PICK o \in Nat : o = Len(Opening(kind))
    BY <1>2, OpeningTyped
  <2>4. CASE wire = <<>>
    <3>1. Understood = <<>>
      BY <2>1, <2>4 DEF Understood
    <3>2. sent = 0
      <4>1. Len(wire) = 0
        BY <2>4
      <4>2. Start = 0
        BY <2>2, <2>3, <4>1 DEF Start
      <4>3. Layout(wire, 0, 0, 0, sent)
        BY <2>2, <4>1, <4>2
      <4>4. PICK C, byte : Cuts(wire, 0, 0, 0, sent, C, byte)
        BY <4>3 DEF Layout
      <4>5. QED
        BY <4>4 DEF Cuts
    <3>3. Payload(0, 0) = <<>>
      <4>1. Len(Payload(0, 0)) = 0 /\ Payload(0, 0) \in Seq(Token)
        BY PayloadIs
      <4>2. QED
        BY <4>1, EmptySeq
    <3>4. QED
      BY <3>1, <3>2, <3>3
  <2>5. CASE wire # <<>>
    <3>1. Start = o
      <4>1. first => o = 0
        BY <2>2, <2>3, <2>5
      <4>2. QED
        BY <1>2, <2>3, <4>1 DEF Start
    <3>2. PICK f : f = ReadTurn(wire, f) /\ Understood = f[Len(Opening(kind))]
      BY <1>2, <2>1, <2>5, UnderstoodRuns
    <3>3. o <= Len(wire) /\ Layout(wire, o, Len(wire), 0, sent)
      BY <2>2, <3>1
    <3>4. f[o] = Payload(0, sent)
      BY <1>2, <3>2, <3>3, LaidIsRead
    <3>5. QED
      BY <2>3, <3>2, <3>4
  <2>6. QED
    BY <2>4, <2>5
<1>5. QED
  BY <1>2, <1>3, <1>4, FramedOrRaw

(* Frames behind what is there, the first of them behind the opening.      *)
LEMMA OpenedLaid ==
    ASSUME TypeOK, WriteSide, kind \in Framed, ~astray, NEW tokens \in Seq(Token), NEW n \in Nat,
           Layout(tokens, 0, Len(tokens), sent, sent + n),
           Put(OpeningNow \o tokens, n, 1), first' = FALSE \/ (first' \in BOOLEAN /\ Len(Opening(kind)) = 0)
    PROVE  WriteSide'
<1>1. wire' = wire \o (OpeningNow \o tokens) /\ sent' = sent + n /\ kind' = kind
  BY DEF Put
<1>2. /\ first /\ Len(Opening(kind)) # 0 => wire = <<>> /\ sent = 0
      /\ Start <= Len(wire) /\ Layout(wire, Start, Len(wire), 0, sent)
  BY DEF WriteSide
<1>3. wire \in Seq(Token) /\ sent \in Nat /\ kind \in AllKinds /\ first \in BOOLEAN
  BY StateTypes DEF TypeOK
<1>4. PICK o : o = Opening(kind)
  OBVIOUS
<1>5. o \in Seq(Token) /\ <<>> \in Seq(Token) /\ Len(o) \in Nat /\ Len(<<>>) = 0
  BY <1>3, <1>4, OpeningTyped
<1>6. Start' = Len(o) /\ Opening(kind)' = o /\ (first' => Len(o) = 0)
  <2>1. Opening(kind)' = o
    BY <1>1, <1>4 DEF Opening, Prelude
  <2>2. QED
    BY <1>4, <2>1 DEF Start
<1>7. \E s \in Seq(Token) : /\ wire' = s \o tokens /\ Len(o) <= Len(s)
                            /\ Layout(s, Len(o), Len(s), 0, sent)
  <2>1. CASE first /\ Len(o) # 0
    <3>1. wire = <<>> /\ sent = 0 /\ OpeningNow = o
      BY <1>2, <1>4, <2>1 DEF OpeningNow
    <3>2. wire' = o \o tokens
      <4>1. o \o tokens \in Seq(Token)
        BY <1>5
      <4>2. <<>> \o (o \o tokens) = o \o tokens
        BY <4>1, ConcatEmptySeq
      <4>3. QED
        BY <1>1, <3>1, <4>2
    <3>3. 0 \in Nat /\ Len(o) <= Len(o)
      BY <1>5
    <3>4. Layout(o, Len(o), Len(o), 0, 0)
      BY <1>5, LayoutOfNothing
    <3>5. QED
      BY <1>5, <3>1, <3>2, <3>3, <3>4
  <2>2. CASE ~(first /\ Len(o) # 0)
    <3>1. OpeningNow = <<>>
      <4>1. Len(o) = 0 => o = <<>>
        BY <1>5, EmptySeq
      <4>2. QED
        BY <1>3, <1>4, <2>2, <4>1 DEF OpeningNow
    <3>2. Start = Len(o)
      BY <1>3, <1>4, <2>2 DEF Start
    <3>3. wire' = wire \o tokens
      <4>1. <<>> \o tokens = tokens
        BY ConcatEmptySeq
      <4>2. QED
        BY <1>1, <3>1, <4>1
    <3>4. QED
      BY <1>2, <1>3, <3>2, <3>3
  <2>3. QED
    BY <2>1, <2>2
<1>8. PICK s \in Seq(Token) : wire' = s \o tokens /\ Len(o) <= Len(s) /\ Layout(s, Len(o), Len(s), 0, sent)
  BY <1>7
<1>9. Layout(s \o tokens, Len(o), Len(s \o tokens), 0, sent + n) /\ Len(s) <= Len(s \o tokens)
  BY ONLY <1>5, <1>8, tokens \in Seq(Token), Layout(tokens, 0, Len(tokens), sent, sent + n), LayoutAppended
<1>10. PICK w \in Nat, l \in Nat : w = Len(wire') /\ l = Len(s) /\ Len(o) <= l /\ l <= w
  <2>1. s \o tokens \in Seq(Token)
    OBVIOUS
  <2>2. QED
    BY <1>8, <1>9, <2>1
<1>11. PICK oo \in Nat : oo = Len(o) /\ oo <= w /\ Layout(wire', oo, w, 0, sent')
  <2>1. PICK oo \in Nat : oo = Len(o)
    BY <1>5
  <2>2. oo <= w
    BY <1>10, <2>1
  <2>3. Layout(wire', oo, w, 0, sent')
    BY <1>1, <1>8, <1>9, <1>10, <2>1
  <2>4. QED
    BY <2>1, <2>2, <2>3
<1>12. /\ Layout(wire, Start, Len(wire), 0, sent)' /\ Start' <= Len(wire')
       /\ ~(first' /\ Len(Opening(kind)') # 0) /\ kind' \notin RawKinds'
  <2>1. Start' <= Len(wire') /\ ~(first' /\ Len(Opening(kind)') # 0)
    BY <1>6, <1>10, <1>11
  <2>2. kind' \notin RawKinds'
    <3>1. kind \notin RawKinds
      BY FramedNotRaw
    <3>2. QED
      BY <1>1, <3>1 DEF RawKinds
  <2>3. Layout(wire, Start, Len(wire), 0, sent)'
    <3>1. Start' = oo /\ Len(wire') = w
      BY <1>6, <1>10, <1>11
    <3>2. HeaderLength' = HeaderLength
      BY <1>1 DEF HeaderLength
    <3>3. PICK C, byte : Cuts(wire', oo, w, 0, sent', C, byte)
      BY <1>11 DEF Layout
    <3>4. /\ C \in SUBSET (oo..w) /\ oo \in C /\ w \in C
          /\ byte \in [Nat -> Nat] /\ byte[oo] = 0 /\ byte[w] = sent'
          /\ \A c \in C \ {w} : \E e \in C : c < e /\ Cut(wire', c, e, byte[c], byte[e])
      BY <3>3 DEF Cuts
    <3>5. ASSUME NEW c, NEW e, NEW a, NEW b, Cut(wire', c, e, a, b)
          PROVE  Cut(wire, c, e, a, b)'
      BY <3>2, <3>5 DEF Cut
    <3>6. \A c \in C \ {w} : \E e \in C : c < e /\ Cut(wire, c, e, byte[c], byte[e])'
      BY <3>4, <3>5
    <3>7. Cuts(wire, Start, Len(wire), 0, sent, C, byte)'
      BY <3>1, <3>4, <3>6 DEF Cuts
    <3>8. QED
      BY <3>7 DEF Layout
  <2>4. QED
    BY <2>1, <2>2, <2>3
<1>13. QED
  BY <1>12 DEF WriteSide

LEMMA RawLaid ==
    ASSUME TypeOK, WriteSide, kind \in RawKinds, NEW tokens \in Seq(Token), NEW n \in Nat,
           Bytes(tokens) = Payload(sent, n), Put(tokens, n, 1)
    PROVE  WriteSide'
<1>1. wire' = wire \o tokens /\ sent' = sent + n /\ kind' = kind
  BY DEF Put
<1>2. wire \in Seq(Token) /\ sent \in Nat
  BY StateTypes DEF TypeOK
<1>3. Bytes(wire) = Payload(0, sent)
  BY DEF WriteSide
<1>4. Bytes(wire \o tokens) = Bytes(wire) \o Bytes(tokens)
  BY <1>2, BytesJoined
<1>5. Payload(0, sent) \o Payload(0 + sent, n) = Payload(0, sent + n)
  BY <1>2, PayloadJoined
<1>6. 0 + sent = sent
  BY <1>2
<1>7. Bytes(wire') = Payload(0, sent')
  BY <1>1, <1>3, <1>4, <1>5, <1>6
<1>8. kind' \notin Framed'
  <2>1. kind' \in Framed' => kind \in Framed
    BY <1>1 DEF Framed
  <2>2. QED
    BY <2>1, FramedNotRaw
<1>9. Bytes(wire)' = Payload(0, sent)'
  BY <1>7 DEF Bytes, Payload
<1>10. QED
  BY <1>8, <1>9 DEF WriteSide

LEMMA OpeningIsHead ==
    ASSUME kind \in RawKinds
    PROVE  \A i \in 1..Len(OpeningNow) : OpeningNow[i].t # "byte"
<1>1. 1..Len(<<>>) = {}
  OBVIOUS
<1>2. CASE ~first
  <2>1. OpeningNow = <<>>
    BY <1>2 DEF OpeningNow
  <2>2. QED
    BY <1>1, <2>1
<1>3. CASE first
  <2>1. OpeningNow = Prelude(kind)
    BY <1>3 DEF OpeningNow, Opening, RawKinds
  <2>2. CASE kind = "snell"
    <3>1. OpeningNow = <<Tok("head", 0)>>
      BY <2>1, <2>2 DEF Prelude, Field
    <3>2. PICK h : h = Tok("head", 0)
      OBVIOUS
    <3>3. Len(<<h>>) = 1 /\ <<h>>[1] = h /\ h.t # "byte"
      BY <3>2 DEF Tok
    <3>4. QED
      BY <3>1, <3>2, <3>3
  <2>3. CASE kind # "snell"
    <3>1. kind \in {"http", "http_simple", "vmess_http"} /\ kind \in AllKinds
      BY <2>3 DEF RawKinds, AllKinds
    <3>2. Len(Prelude(kind)) = 2 /\ Prelude(kind)[1] = Tok("head", 0) /\ Prelude(kind)[2] = Tok("end", 0)
      <4>1. 0 \in Nat
        OBVIOUS
      <4>2. QED
        BY <3>1, <4>1, FrontIs
    <3>3. Tok("head", 0).t # "byte" /\ Tok("end", 0).t # "byte"
      BY DEF Tok
    <3>4. QED
      BY <2>1, <3>2, <3>3
  <2>4. QED
    BY <2>2, <2>3
<1>4. QED
  BY <1>2, <1>3

LEMMA HTTPWritten ==
    ASSUME TypeOK, WriteSide, NEW n \in Nat, HTTPWrite(n)
    PROVE  WriteSide'
<1>1. kind \in RawKinds /\ kind \in AllKinds
  BY DEF HTTPWrite, RawKinds, AllKinds
<1>2. sent \in Nat
  BY DEF TypeOK
<1>3. OpeningNow \in Seq(Token) /\ \A i \in 1..Len(OpeningNow) : OpeningNow[i].t # "byte"
  BY <1>1, OpeningTyped, OpeningIsHead
<1>4. Bytes(OpeningNow \o Payload(sent, n)) = Payload(sent, n)
  BY <1>2, <1>3, BytesBehind
<1>5. OpeningNow \o Payload(sent, n) \in Seq(Token)
  <2>1. Payload(sent, n) \in Seq(Token)
    BY <1>2, PayloadIs
  <2>2. QED
    BY <1>3, <2>1
<1>6. Put(OpeningNow \o Payload(sent, n), n, 1)
  BY DEF HTTPWrite
<1>7. QED
  BY ONLY TypeOK, WriteSide, n \in Nat, <1>1, <1>4, <1>5, <1>6, RawLaid

LEMMA OneHeadIsNone == ASSUME NEW x \in Token, x.t # "byte" PROVE <<x>> \in Seq(Token) /\ Bytes(<<x>>) = <<>>
<1>1. <<x>> \in Seq(Token) /\ Len(<<x>>) = 1 /\ <<x>>[1] = x
  OBVIOUS
<1>2. \A i \in 1..Len(<<x>>) : <<x>>[i].t # "byte"
  BY <1>1
<1>3. QED
  BY <1>1, <1>2, BytesOfNone

LEMMA HTTPSimpleWritten ==
    ASSUME TypeOK, WriteSide, NEW n \in Nat, HTTPSimpleWrite(n)
    PROVE  WriteSide'
<1>1. kind \in RawKinds /\ sent \in Nat
  BY DEF HTTPSimpleWrite, RawKinds, TypeOK
<1>2. PICK d \in 0..n : Put(IF first THEN Field(0) \o Payload(sent, d) \o <<Tok("end", 0)>>
                                             \o Payload(sent + d, n - d)
                            ELSE Payload(sent, n), n, 1)
  BY DEF HTTPSimpleWrite
<1>3. CASE ~first
  <2>1. Put(Payload(sent, n), n, 1)
    BY <1>2, <1>3
  <2>2. Payload(sent, n) \in Seq(Token) /\ Bytes(Payload(sent, n)) = Payload(sent, n)
    BY <1>1, PayloadIs, BytesOfPayload
  <2>3. QED
    BY ONLY TypeOK, WriteSide, n \in Nat, <1>1, <2>1, <2>2, RawLaid
<1>4. CASE first
  <2>1. PICK x \in Nat, y \in Nat, s \in Nat : x = d /\ y = n - d /\ s = sent + d /\ s = sent + x /\ n = x + y
    BY <1>1
  <2>2. PICK h, e, p, r : h = Tok("head", 0) /\ e = Tok("end", 0) /\ p = Payload(sent, x) /\ r = Payload(s, y)
    OBVIOUS
  <2>3. h \in Token /\ e \in Token /\ h.t # "byte" /\ e.t # "byte"
    BY <2>2 DEF Tok, Token
  <2>4. PICK hs, es : hs = <<h>> /\ es = <<e>>
    OBVIOUS
  <2>5. hs \in Seq(Token) /\ es \in Seq(Token) /\ Bytes(hs) = <<>> /\ Bytes(es) = <<>>
    BY <2>3, <2>4, OneHeadIsNone
  <2>6. p \in Seq(Token) /\ r \in Seq(Token) /\ Bytes(p) = p /\ Bytes(r) = r
    BY <1>1, <2>1, <2>2, PayloadIs, BytesOfPayload
  <2>7. PICK u : u = hs \o p
    OBVIOUS
  <2>8. u \in Seq(Token) /\ Bytes(u) = p
    <3>1. <<>> \o p = p
      BY <2>6, ConcatEmptySeq
    <3>2. hs \o p \in Seq(Token) /\ Bytes(hs \o p) = <<>> \o p
      <4>1. hs \o p \in Seq(Token)
        BY <2>5, <2>6
      <4>2. Bytes(hs \o p) = Bytes(hs) \o Bytes(p)
        BY ONLY <2>5, <2>6, BytesJoined
      <4>3. QED
        BY <2>5, <2>6, <4>1, <4>2
    <3>3. QED
      BY <2>7, <3>1, <3>2
  <2>9. PICK v : v = u \o es
    OBVIOUS
  <2>10. v \in Seq(Token) /\ Bytes(v) = p
    <3>1. p \o <<>> = p
      BY <2>6, ConcatEmptySeq
    <3>2. u \o es \in Seq(Token) /\ Bytes(u \o es) = p \o <<>>
      <4>1. u \o es \in Seq(Token)
        BY <2>5, <2>8
      <4>2. Bytes(u \o es) = Bytes(u) \o Bytes(es)
        BY ONLY <2>5, <2>8, BytesJoined
      <4>3. QED
        BY <2>5, <2>8, <4>1, <4>2
    <3>3. QED
      BY <2>9, <3>1, <3>2
  <2>11. PICK tokens : tokens = v \o r
    OBVIOUS
  <2>12. tokens \in Seq(Token) /\ Bytes(tokens) = Payload(sent, n) /\ Put(tokens, n, 1)
    <3>1. p \o r = Payload(sent, n)
      <4>1. Payload(sent, x) \o Payload(sent + x, y) = Payload(sent, x + y)
        BY <1>1, PayloadJoined
      <4>2. QED
        BY <2>1, <2>2, <4>1
    <3>2. v \o r \in Seq(Token) /\ Bytes(v \o r) = p \o r
      <4>1. v \o r \in Seq(Token)
        BY <2>6, <2>10
      <4>2. Bytes(v \o r) = Bytes(v) \o Bytes(r)
        BY ONLY <2>6, <2>10, BytesJoined
      <4>3. QED
        BY <2>6, <2>10, <4>1, <4>2
    <3>3. Put(hs \o p \o es \o r, n, 1)
      BY <1>2, <1>4, <2>1, <2>2, <2>4 DEF Field
    <3>4. QED
      BY <2>7, <2>9, <2>11, <3>1, <3>2, <3>3
  <2>13. QED
    BY ONLY TypeOK, WriteSide, n \in Nat, <1>1, <2>12, RawLaid
<1>5. QED
  BY <1>3, <1>4

LEMMA NoOpening == ASSUME kind \in {"gun", "ws"} \cup Ssr
                   PROVE Opening(kind) = <<>> /\ Len(Opening(kind)) = 0 /\ OpeningNow = <<>>
<1>1. Prelude(kind) = <<>>
  BY DEF Prelude, Ssr
<1>2. Opening(kind) = <<>>
  BY <1>1 DEF Opening, Ssr
<1>3. Len(<<>>) = 0
  OBVIOUS
<1>4. QED
  BY <1>2, <1>3 DEF OpeningNow

(* A Write that changes nothing but what a server cannot read any more.    *)
LEMMA AstrayStays ==
    ASSUME kind \in Framed, kind' = kind, astray'
    PROVE  WriteSide'
<1>1. kind' \notin RawKinds'
  <2>1. kind \notin RawKinds
    BY FramedNotRaw
  <2>2. QED
    BY <2>1 DEF RawKinds
<1>2. QED
  BY <1>1 DEF WriteSide

(* Tokens without an opening.                                              *)
LEMMA PlainLaid ==
    ASSUME TypeOK, WriteSide, kind \in {"gun", "ws"} \cup Ssr, ~astray, NEW tokens \in Seq(Token), NEW n \in Nat,
           Layout(tokens, 0, Len(tokens), sent, sent + n), Put(tokens, n, 1), first' \in BOOLEAN
    PROVE  WriteSide'
<1>1. kind \in Framed /\ Len(Opening(kind)) = 0 /\ OpeningNow = <<>>
  BY NoOpening DEF Framed
<1>2. OpeningNow \o tokens = tokens
  BY <1>1, ConcatEmptySeq
<1>3. Put(OpeningNow \o tokens, n, 1)
  BY <1>2
<1>4. first' = FALSE \/ (first' \in BOOLEAN /\ Len(Opening(kind)) = 0)
  BY <1>1
<1>5. QED
  BY ONLY TypeOK, WriteSide, ~astray, tokens \in Seq(Token), n \in Nat,
          Layout(tokens, 0, Len(tokens), sent, sent + n), <1>1, <1>3, <1>4, OpenedLaid

LEMMA ChunksWritten ==
    ASSUME FramingAssumption, TypeOK, WriteSide, NEW n \in Nat,
           TLSObfsWrite(n) \/ ChunkWrite(n) \/ AEADWrite(n)
    PROVE  WriteSide'
<1>1. kind \in Framed /\ kind # "mux" /\ sent \in Nat /\ count \in Nat
  BY DEF TLSObfsWrite, ChunkWrite, AEADWrite, Framed, TypeOK
<1>2. Put(OpeningNow \o ChunkFrames(count, sent, n), n, 1) /\ first' = FALSE /\ UNCHANGED astray
  BY DEF TLSObfsWrite, ChunkWrite, AEADWrite
<1>3. CASE astray
  <2>1. kind' = kind
    BY <1>2 DEF Put
  <2>2. QED
    BY <1>1, <1>2, <1>3, <2>1, AstrayStays
<1>4. CASE ~astray
  <2>1. PICK tokens : tokens = ChunkFrames(count, sent, n)
    OBVIOUS
  <2>2. tokens \in Seq(Token) /\ Layout(tokens, 0, Len(tokens), sent, sent + n)
    BY <1>1, <2>1, ChunksLaid
  <2>3. Put(OpeningNow \o tokens, n, 1)
      /\ (first' = FALSE \/ (first' \in BOOLEAN /\ Len(Opening(kind)) = 0))
    BY <1>2, <2>1
  <2>4. QED
    BY ONLY TypeOK, WriteSide, n \in Nat, <1>1, <1>4, <2>2, <2>3, OpenedLaid
<1>5. QED
  BY <1>3, <1>4

LEMMA GunWritten ==
    ASSUME FramingAssumption, TypeOK, WriteSide, NEW n \in Nat, GunWrite(n)
    PROVE  WriteSide'
<1>1. kind \in Framed /\ kind # "mux" /\ kind \in {"gun", "ws"} \cup Ssr /\ sent \in Nat /\ count \in Nat
      /\ first \in BOOLEAN
  BY StateTypes DEF GunWrite, Framed, TypeOK
<1>2. Put(ServerFrame(kind, count, sent, n), n, 1) /\ UNCHANGED <<first, astray>>
  BY DEF GunWrite
<1>3. CASE astray
  <2>1. kind' = kind
    BY <1>2 DEF Put
  <2>2. QED
    BY <1>1, <1>2, <1>3, <2>1, AstrayStays
<1>4. CASE ~astray
  <2>1. PICK tokens : tokens = ServerFrame(kind, count, sent, n)
    OBVIOUS
  <2>2. tokens \in Seq(Token) /\ Layout(tokens, 0, Len(tokens), sent, sent + n)
    BY <1>1, <2>1, FrameLaid
  <2>3. Put(tokens, n, 1) /\ first' \in BOOLEAN
    BY <1>1, <1>2, <2>1
  <2>4. QED
    BY ONLY TypeOK, WriteSide, n \in Nat, <1>1, <1>4, <2>2, <2>3, PlainLaid
<1>5. QED
  BY <1>3, <1>4

LEMMA MuxWritten ==
    ASSUME FramingAssumption, TypeOK, WriteSide, NEW n \in Nat, MuxWrite(n)
    PROVE  WriteSide'
<1>1. kind = "mux" /\ kind \in Framed /\ sent \in Nat /\ Wrap \in Nat
  BY DEF MuxWrite, Framed, TypeOK, FramingAssumption
<1>2. Put(OpeningNow \o ServerFrame("mux", 0, sent, n), n, 1) /\ first' = FALSE
      /\ astray' = (astray \/ n >= Wrap)
  BY DEF MuxWrite
<1>3. CASE astray \/ n >= Wrap
  <2>1. kind' = kind
    BY <1>2 DEF Put
  <2>2. QED
    BY <1>1, <1>2, <1>3, <2>1, AstrayStays
<1>4. CASE ~(astray \/ n >= Wrap)
  <2>1. n < Wrap /\ ~astray
    BY <1>1, <1>4
  <2>2. PICK tokens : tokens = ServerFrame(kind, 0, sent, n)
    OBVIOUS
  <2>3. tokens \in Seq(Token) /\ Layout(tokens, 0, Len(tokens), sent, sent + n)
    BY <1>1, <2>1, <2>2, FrameLaid
  <2>4. Put(OpeningNow \o tokens, n, 1)
        /\ (first' = FALSE \/ (first' \in BOOLEAN /\ Len(Opening(kind)) = 0))
    BY <1>1, <1>2, <2>2
  <2>5. QED
    BY ONLY TypeOK, WriteSide, n \in Nat, <1>1, <2>1, <2>3, <2>4, OpenedLaid
<1>5. QED
  BY <1>3, <1>4

LEMMA SSRWritten ==
    ASSUME FramingAssumption, TypeOK, WriteSide, NEW n \in Nat, SSREncode(n)
    PROVE  WriteSide'
<1>1. kind \in Framed /\ kind # "mux" /\ kind \in {"gun", "ws"} \cup Ssr /\ sent \in Nat /\ count \in Nat
      /\ first \in BOOLEAN
  BY StateTypes DEF SSREncode, Framed, TypeOK, Ssr
<1>2. PICK d \in 1..n : IF first
                        THEN Put(ServerFrame(kind, 0, sent, d) \o ChunkFrames(1, sent + d, n - d), n, 1)
                        ELSE Put(ChunkFrames(count, sent, n), n, 1)
  BY DEF SSREncode
<1>3. first' \in BOOLEAN /\ UNCHANGED astray
  BY DEF SSREncode
<1>4. CASE astray
  <2>1. kind' = kind
    BY <1>2 DEF Put
  <2>2. QED
    BY <1>1, <1>3, <1>4, <2>1, AstrayStays
<1>5. CASE ~astray
  <2>1. CASE first
    <3>1. PICK x \in Nat, y \in Nat, s \in Nat : x = d /\ y = n - d /\ s = sent + d /\ s = sent + x /\ s + y = sent + n
      BY <1>1
    <3>2. PICK f, c : f = ServerFrame(kind, 0, sent, x) /\ c = ChunkFrames(1, s, y)
      OBVIOUS
    <3>3. f \in Seq(Token) /\ Layout(f, 0, Len(f), sent, sent + x)
      BY <1>1, <3>2, FrameLaid
    <3>4. c \in Seq(Token) /\ Layout(c, 0, Len(c), s, s + y)
      BY <1>1, <3>2, ChunksLaid
    <3>5. 0 \in Nat /\ 0 <= Len(f) /\ Layout(f, 0, Len(f), sent, s)
      BY <3>1, <3>3
    <3>6. Layout(f \o c, 0, Len(f \o c), sent, s + y)
      BY ONLY <3>3, <3>4, <3>5, LayoutAppended
    <3>7. PICK tokens : tokens = f \o c
      OBVIOUS
    <3>8. tokens \in Seq(Token) /\ Layout(tokens, 0, Len(tokens), sent, sent + n)
      BY <3>1, <3>3, <3>4, <3>6, <3>7
    <3>9. Put(tokens, n, 1)
      BY <1>2, <2>1, <3>1, <3>2, <3>7
    <3>10. QED
      BY ONLY TypeOK, WriteSide, n \in Nat, <1>1, <1>3, <1>5, <3>8, <3>9, PlainLaid
  <2>2. CASE ~first
    <3>1. PICK tokens : tokens = ChunkFrames(count, sent, n)
      OBVIOUS
    <3>2. tokens \in Seq(Token) /\ Layout(tokens, 0, Len(tokens), sent, sent + n)
      BY <1>1, <3>1, ChunksLaid
    <3>3. Put(tokens, n, 1)
      BY <1>2, <2>2, <3>1
    <3>4. QED
      BY ONLY TypeOK, WriteSide, n \in Nat, <1>1, <1>3, <1>5, <3>2, <3>3, PlainLaid
  <2>3. QED
    BY <2>1, <2>2
<1>6. QED
  BY <1>4, <1>5

WriteInv == dir = "up" => WriteSide

LEMMA WriteStarts == ASSUME FramingAssumption, Init PROVE WriteInv
<1>1. wire = <<>> /\ sent = 0 /\ first /\ Len(<<>>) = 0 /\ <<>> \in Seq(Token)
  BY DEF Init
<1>2. Payload(0, 0) = <<>>
  <2>1. Len(Payload(0, 0)) = 0 /\ Payload(0, 0) \in Seq(Token)
    BY PayloadIs
  <2>2. QED
    BY <2>1, EmptySeq
<1>3. Bytes(<<>>) = <<>>
  <2>1. \A i \in 1..Len(<<>>) : <<>>[i].t # "byte"
    BY <1>1
  <2>2. QED
    BY <1>1, <2>1, BytesOfNone
<1>4. Start = 0
  BY <1>1 DEF Start
<1>5. Layout(wire, 0, 0, 0, 0)
  BY LayoutOfNothing
<1>6. Start <= Len(wire) /\ Layout(wire, Start, Len(wire), 0, sent)
  BY <1>1, <1>4, <1>5
<1>7. WriteSide
  BY <1>1, <1>2, <1>3, <1>6 DEF WriteSide
<1>8. QED
  BY <1>7 DEF WriteInv

LEMMA WriteSideStays ==
    ASSUME WriteSide, UNCHANGED vars
    PROVE  WriteSide'
<1>1. UNCHANGED <<kind, wire, sent, first, astray>>
  BY DEF vars, peer, state
<1>2. HeaderLength' = HeaderLength /\ Start' = Start /\ Opening(kind)' = Opening(kind)
  BY <1>1 DEF HeaderLength, Start, Opening, Prelude
<1>3. (kind \in RawKinds)' => kind \in RawKinds
  BY <1>1 DEF RawKinds
<1>4. (kind \in Framed)' => kind \in Framed
  BY <1>1 DEF Framed
<1>5. ASSUME NEW c, NEW e, NEW a, NEW b, Cut(wire, c, e, a, b) PROVE Cut(wire, c, e, a, b)'
  BY <1>1, <1>2, <1>5 DEF Cut
<1>6. ASSUME NEW C, NEW byte, Cuts(wire, Start, Len(wire), 0, sent, C, byte)
      PROVE  Cuts(wire, Start, Len(wire), 0, sent, C, byte)'
  <2>1. /\ C \in SUBSET (Start..Len(wire)) /\ Start \in C /\ Len(wire) \in C
        /\ byte \in [Nat -> Nat] /\ byte[Start] = 0 /\ byte[Len(wire)] = sent
        /\ \A c \in C \ {Len(wire)} : \E e \in C : c < e /\ Cut(wire, c, e, byte[c], byte[e])
    BY <1>6 DEF Cuts
  <2>2. \A c \in C \ {Len(wire)} : \E e \in C : c < e /\ Cut(wire, c, e, byte[c], byte[e])'
    BY <1>5, <2>1
  <2>3. QED
    BY <1>1, <1>2, <2>1, <2>2 DEF Cuts
<1>7. Layout(wire, Start, Len(wire), 0, sent) => Layout(wire, Start, Len(wire), 0, sent)'
  BY <1>6 DEF Layout
<1>8. Bytes(wire) = Payload(0, sent) => Bytes(wire)' = Payload(0, sent)'
  BY <1>1 DEF Bytes, Payload
<1>9. QED
  BY <1>1, <1>2, <1>3, <1>4, <1>7, <1>8 DEF WriteSide

LEMMA WriteKept ==
    ASSUME FramingAssumption, TypeOK, WriteInv, [Next]_vars
    PROVE  WriteInv'
<1>1. SUFFICES ASSUME dir' = "up" PROVE WriteSide'
  BY DEF WriteInv
<1>2. CASE Server \/ ReadStep
  <2>1. ASSUME Server PROVE dir' = "down"
    BY <2>1 DEF Server, ServerSends, ServerKeepsAlive, ServerEnds, ServerCut
  <2>2. ASSUME ReadEnds PROVE dir' = "down"
    BY <2>2 DEF ReadEnds, Read, peer
  <2>3. ASSUME NEW cap, AnyRead(cap) PROVE dir' = "down"
    <3>1. dir = "down"
      BY <2>3 DEF AnyRead, HTTPObfsRead, HTTPSimpleRead, VmessHTTPRead, SnellRead, TLSObfsRead, GunRead,
         WebsocketRead, ChunkRead, AEADRead, MuxRead, SSRRead, Read
    <3>2. UNCHANGED peer
      <4>1. CASE Fail
        BY <4>1 DEF Fail
      <4>2. CASE ~Fail
        BY <2>3, <4>2, ReadKeeps
      <4>3. QED
        BY <4>1, <4>2
    <3>3. QED
      BY <3>1, <3>2 DEF peer
  <2>4. dir' = "down"
    BY <1>2, <2>1, <2>2, <2>3 DEF ReadStep, AnyRead
  <2>5. QED
    BY <1>1, <2>4
<1>3. CASE WriteStep
  <2>1. PICK n \in 0..MaxFrame :
           \/ HTTPWrite(n) \/ HTTPSimpleWrite(n) \/ TLSObfsWrite(n) \/ ChunkWrite(n)
           \/ AEADWrite(n) \/ GunWrite(n) \/ MuxWrite(n) \/ SSREncode(n)
    BY <1>3 DEF WriteStep
  <2>2. n \in Nat
    BY DEF FramingAssumption
  <2>3. dir = "up"
    BY <2>1 DEF Write, HTTPWrite, HTTPSimpleWrite, TLSObfsWrite, ChunkWrite, AEADWrite, GunWrite, MuxWrite,
       SSREncode
  <2>4. WriteSide
    BY <2>3 DEF WriteInv
  <2>5. QED
    BY <2>1, <2>2, <2>4, HTTPWritten, HTTPSimpleWritten, ChunksWritten, GunWritten, MuxWritten, SSRWritten
<1>4. CASE UNCHANGED vars
  <2>1. dir = "up"
    BY <1>1, <1>4 DEF vars, peer
  <2>2. QED
    BY <1>4, <2>1, WriteSideStays DEF WriteInv
<1>5. QED
  BY <1>2, <1>3, <1>4 DEF Next

(* A server that knows the format reads what was written, all of it and in *)
(* order, except after a Write to a Mux that its two bytes cannot hold.    *)
THEOREM ServerUnderstands == ASSUME FramingAssumption PROVE Spec => []WritesUnderstood
<1>1. Init => WriteInv
  BY WriteStarts
<1>2. TypeOK /\ WriteInv /\ [Next]_vars => WriteInv'
  BY WriteKept
<1>3. Spec => []TypeOK
  BY FramingTypes
<1>4. TypeOK /\ WriteInv => WritesUnderstood
  <2> SUFFICES ASSUME TypeOK, WriteInv PROVE WritesUnderstood
    OBVIOUS
  <2>1. CASE dir = "up"
    BY <2>1, WriteRight DEF WriteInv
  <2>2. CASE dir # "up"
    BY <2>2 DEF WritesUnderstood
  <2>3. QED
    BY <2>1, <2>2
<1>5. QED
  BY <1>1, <1>2, <1>3, <1>4, PTL DEF Spec
=============================================================================
