------------------------------- MODULE ListProofs -------------------------------
(* What the operations of lists do to their positions.                      *)
EXTENDS Integers, Sequences, SequenceTheorems, TLAPS

\* v has what s has, and behind it what u has.
Joined(s, u, v) ==
    /\ \A i \in DOMAIN s : i \in DOMAIN v /\ v[i] = s[i]
    /\ \A i \in DOMAIN u : Len(s) + i \in DOMAIN v /\ v[Len(s) + i] = u[i]
    /\ \A i \in DOMAIN v : \/ i \in DOMAIN s /\ v[i] = s[i]
                          \/ \E j \in DOMAIN u : i = Len(s) + j /\ v[i] = u[j]

\* One list behind the other.
LEMMA ConcatParts == ASSUME NEW S, NEW s \in Seq(S), NEW u \in Seq(S) PROVE Joined(s, u, s \o u)
<1>1. /\ Len(s) \in Nat /\ Len(u) \in Nat /\ Len(s \o u) = Len(s) + Len(u) /\ s \o u \in Seq(S)
      /\ \A i \in 1 .. Len(s) + Len(u) : (s \o u)[i] = IF i <= Len(s) THEN s[i] ELSE u[i - Len(s)]
  BY ConcatProperties, LenProperties
<1>2. /\ DOMAIN s = 1 .. Len(s) /\ DOMAIN u = 1 .. Len(u) /\ DOMAIN (s \o u) = 1 .. Len(s) + Len(u)
  BY <1>1, LenProperties
<1>3. ASSUME NEW i \in DOMAIN u
      PROVE  Len(s) + i \in DOMAIN (s \o u) /\ (s \o u)[Len(s) + i] = u[i]
  <2>1. Len(s) + i \in 1 .. Len(s) + Len(u) /\ ~(Len(s) + i <= Len(s)) /\ (Len(s) + i) - Len(s) = i
    BY <1>1, <1>2
  <2> QED
    BY <1>1, <1>2, <2>1
<1>4. ASSUME NEW i \in DOMAIN (s \o u), i \notin DOMAIN s
      PROVE  \E j \in DOMAIN u : i = Len(s) + j /\ (s \o u)[i] = u[j]
  <2>1. i - Len(s) \in DOMAIN u /\ i = Len(s) + (i - Len(s))
    BY <1>1, <1>2, <1>4
  <2> QED
    BY <1>3, <2>1
<1> QED
  BY <1>1, <1>2, <1>3, <1>4 DEF Joined

\* push_back.
LEMMA AppendParts ==
    ASSUME NEW S, NEW s \in Seq(S), NEW e \in S
    PROVE  /\ Append(s, e) \in Seq(S) /\ DOMAIN Append(s, e) = DOMAIN s \cup {Len(s) + 1}
           /\ Append(s, e)[Len(s) + 1] = e /\ \A i \in DOMAIN s : Append(s, e)[i] = s[i]
           /\ \A i \in DOMAIN s : i < Len(s) + 1
           /\ DOMAIN s \subseteq Nat /\ Len(s) \in Nat
  OBVIOUS

\* What is left of a list up to its n-th entry.
LEMMA PrefixParts ==
    ASSUME NEW S, NEW s \in Seq(S), NEW n \in 0 .. Len(s)
    PROVE  /\ SubSeq(s, 1, n) \in Seq(S) /\ DOMAIN SubSeq(s, 1, n) = 1 .. n
           /\ 1 .. n \subseteq DOMAIN s
           /\ \A i \in 1 .. n : SubSeq(s, 1, n)[i] = s[i]
<1>1. Len(s) \in Nat /\ DOMAIN s = 1 .. Len(s) /\ n \in Nat
  BY LenProperties
<1>2. 1 .. n \subseteq DOMAIN s /\ \A i \in 1 .. n : s[i] \in S
  BY <1>1, ElementOfSeq
<1>3. /\ SubSeq(s, 1, n) \in Seq(S) /\ Len(SubSeq(s, 1, n)) = n
      /\ \A i \in 1 .. n : SubSeq(s, 1, n)[i] = s[i]
  BY <1>1, <1>2
<1> QED
  BY <1>2, <1>3, LenProperties

\* v is what s has behind position n.
Behind(s, n, v) ==
    /\ \A i \in DOMAIN v : i \in Nat /\ n + i \in DOMAIN s /\ n < n + i /\ v[i] = s[n + i]
    /\ \A i \in DOMAIN s : i > n => \E j \in DOMAIN v : i = n + j

\* What is left behind the first n entries.
LEMMA RestParts ==
    ASSUME NEW S, NEW s \in Seq(S), NEW n \in 0 .. Len(s)
    PROVE  SubSeq(s, n + 1, Len(s)) \in Seq(S) /\ Behind(s, n, SubSeq(s, n + 1, Len(s)))
<1> DEFINE u == SubSeq(s, n + 1, Len(s))
<1>1. Len(s) \in Nat /\ DOMAIN s = 1 .. Len(s) /\ n \in Nat
  BY LenProperties
<1>2. \A i \in n + 1 .. Len(s) : s[i] \in S
  BY <1>1, ElementOfSeq
<1>3. /\ u \in Seq(S) /\ Len(u) = (IF n + 1 <= Len(s) THEN Len(s) - (n + 1) + 1 ELSE 0)
      /\ \A i \in 1 .. Len(s) - (n + 1) + 1 : u[i] = s[(n + 1) + i - 1]
  <2>1. n + 1 \in Int /\ Len(s) \in Int
    BY <1>1
  <2> QED
    BY <1>2, <2>1, SubSeqProperties
<1> HIDE DEF u
<1>4. Len(u) = Len(s) - n /\ DOMAIN u = 1 .. Len(u) /\ Len(s) - (n + 1) + 1 = Len(s) - n
  <2>1. n <= Len(s) /\ Len(s) - (n + 1) + 1 = Len(s) - n
    <3>1. Len(s) \in Int /\ n \in Int /\ n <= Len(s)
      BY <1>1
    <3>2. \A x, y \in Int : x - (y + 1) + 1 = x - y
      OBVIOUS
    <3> QED
      BY <3>1, <3>2
  <2>2. Len(u) = Len(s) - n
    <3>1. CASE n + 1 <= Len(s)
      BY <1>3, <2>1, <3>1
    <3>2. CASE n = Len(s)
      <4>1. ~(n + 1 <= Len(s)) /\ Len(s) - n = 0
        BY <1>1, <3>2
      <4> QED
        BY <1>3, <4>1
    <3>3. \A x, y \in Int : y <= x => y + 1 <= x \/ y = x
      OBVIOUS
    <3>4. n \in Int /\ Len(s) \in Int
      BY <1>1
    <3>5. n + 1 <= Len(s) \/ n = Len(s)
      BY <2>1, <3>3, <3>4
    <3> QED
      BY <3>1, <3>2, <3>5
  <2> QED
    BY <1>3, <2>1, <2>2, LenProperties
<1>5. ASSUME NEW i \in 1 .. Len(s) - n PROVE u[i] = s[n + i]
  <2>1. (n + 1) + i - 1 = n + i
    BY <1>1
  <2>2. u[i] = s[(n + 1) + i - 1]
    BY <1>3, <1>4
  <2> QED
    BY <2>1, <2>2
<1>6. DOMAIN u = 1 .. Len(s) - n
  BY <1>4
<1>7. \A i \in DOMAIN u : i \in Nat /\ n + i \in DOMAIN s /\ n < n + i /\ u[i] = s[n + i]
  BY <1>1, <1>5, <1>6
<1>8. ASSUME NEW i \in DOMAIN s, i > n PROVE \E j \in DOMAIN u : i = n + j
  <2>1. i - n \in DOMAIN u /\ i = n + (i - n)
    BY <1>1, <1>6, <1>8
  <2> QED
    BY <2>1
<1> QED
  BY <1>3, <1>7, <1>8 DEF u, Behind
=============================================================================
