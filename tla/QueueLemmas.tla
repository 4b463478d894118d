----------------------------- MODULE QueueLemmas -----------------------------
(***************************************************************************)
(* Queues of buffers: what remains when the first one is taken, what there *)
(* is when one is put behind the others, and how many different ones there *)
(* can be.  The programs' proofs use these facts about their own queues.   *)
(***************************************************************************)
EXTENDS Integers, Sequences, FiniteSets,
        FiniteSetTheorems, SequenceTheorems, WellFoundedInduction, TLAPS

(* What a queue holds, and that it holds nothing twice                     *)
Items(s) == {s[k] : k \in DOMAIN s}
Distinct(s) == \A i, j \in DOMAIN s : s[i] = s[j] => i = j

-----------------------------------------------------------------------------
(* Nothing remains when the only element is taken.                         *)
LEMMA OnlyOne ==
  ASSUME NEW S, NEW s \in Seq(S), s # <<>>
  PROVE  Tail(s) = <<>> <=> Len(s) = 1
<1>1. Tail(s) \in Seq(S) /\ Len(Tail(s)) = Len(s) - 1 /\ Len(s) \in Nat
  OBVIOUS
<1>2. Tail(s) = <<>> <=> Len(Tail(s)) = 0
  BY <1>1, EmptySeq
<1>3. QED
  BY <1>1, <1>2

(* What remains of a queue when its first element is taken                 *)
LEMMA Taken ==
  ASSUME NEW S, NEW s \in Seq(S), s # <<>>
  PROVE  /\ Head(s) \in S /\ 1 \in DOMAIN s /\ Head(s) = s[1] /\ Head(s) \in Items(s)
         /\ Tail(s) \in Seq(S) /\ Len(s) \in Nat /\ Len(Tail(s)) = Len(s) - 1
         /\ \A k \in DOMAIN Tail(s) : k \in Nat /\ k + 1 \in DOMAIN s /\ Tail(s)[k] = s[k + 1]
         /\ Items(s) = {Head(s)} \cup Items(Tail(s))
         /\ Distinct(s) => Distinct(Tail(s)) /\ Head(s) \notin Items(Tail(s))
         /\ s[Len(s)] = IF Tail(s) = <<>> THEN Head(s) ELSE Tail(s)[Len(Tail(s))]
<1> DEFINE t == Tail(s)
<1>1. Len(s) \in Nat /\ Len(s) > 0 /\ DOMAIN s = 1 .. Len(s) /\ Head(s) = s[1]
  OBVIOUS
<1>2. /\ t \in Seq(S) /\ Len(t) = Len(s) - 1 /\ DOMAIN t = 1 .. Len(s) - 1
      /\ \A k \in DOMAIN t : t[k] = s[k + 1]
  OBVIOUS
<1>3. \A k \in DOMAIN s : s[k] \in S /\ (k = 1 \/ (k - 1 \in DOMAIN t /\ t[k - 1] = s[k]))
  BY <1>1, <1>2
<1>4. \A k \in DOMAIN t : k \in Nat /\ k + 1 \in DOMAIN s
  BY <1>1, <1>2
<1>5. Distinct(s) => Distinct(t) /\ Head(s) \notin Items(t)
  BY <1>1, <1>2 DEF Distinct, Items
<1>6. Items(s) = {Head(s)} \cup Items(t)
  <2>1. Items(t) \subseteq Items(s)
    BY <1>2, <1>4 DEF Items
  <2>2. Head(s) \in Items(s)
    BY <1>1 DEF Items
  <2>3. Items(s) \subseteq {Head(s)} \cup Items(t)
    BY <1>1, <1>3 DEF Items
  <2>4. QED
    BY <2>1, <2>2, <2>3
<1>7. s[Len(s)] = IF t = <<>> THEN Head(s) ELSE t[Len(t)]
  <2>1. t = <<>> <=> Len(s) = 1
    BY OnlyOne
  <2>2. CASE Len(s) = 1
    BY <1>1, <2>1, <2>2
  <2>3. CASE Len(s) # 1
    <3>1. Len(t) \in DOMAIN t /\ Len(t) + 1 = Len(s)
      BY <1>1, <1>2, <2>3
    <3>2. QED
      BY <1>2, <2>1, <2>3, <3>1
  <2>4. QED
    BY <2>2, <2>3
<1>8. QED
  BY <1>1, <1>2, <1>3, <1>4, <1>5, <1>6, <1>7

(* A queue with one element more                                           *)
LEMMA Put ==
  ASSUME NEW S, NEW s \in Seq(S), NEW e \in S
  PROVE  /\ Append(s, e) \in Seq(S) /\ Append(s, e) # <<>>
         /\ Len(s) \in Nat /\ Len(Append(s, e)) = Len(s) + 1
         /\ \A k \in DOMAIN Append(s, e) :
              /\ k \in Nat
              /\ (k \in DOMAIN s /\ Append(s, e)[k] = s[k]) \/ (k = Len(s) + 1 /\ Append(s, e)[k] = e)
         /\ \A k \in DOMAIN s : k \in DOMAIN Append(s, e) /\ Append(s, e)[k] = s[k]
         /\ Len(s) + 1 \in DOMAIN Append(s, e) /\ Append(s, e)[Len(s) + 1] = e
         /\ Items(Append(s, e)) = Items(s) \cup {e}
         /\ Distinct(s) /\ e \notin Items(s) => Distinct(Append(s, e))
<1> DEFINE u == Append(s, e)
<1>1. /\ Len(s) \in Nat /\ DOMAIN s = 1 .. Len(s) /\ u \in Seq(S) /\ u # <<>>
      /\ Len(u) = Len(s) + 1 /\ DOMAIN u = 1 .. Len(s) + 1 /\ u[Len(s) + 1] = e
      /\ \A k \in DOMAIN s : u[k] = s[k]
  OBVIOUS
<1>2. \A k \in DOMAIN u : k \in Nat /\ (k = Len(s) + 1 \/ k \in DOMAIN s)
  BY <1>1
<1>3. Distinct(s) /\ e \notin Items(s) => Distinct(u)
  BY <1>1, <1>2 DEF Distinct, Items
<1>4. Items(u) = Items(s) \cup {e}
  <2>1. Items(u) \subseteq Items(s) \cup {e}
    BY <1>1, <1>2 DEF Items
  <2>2. Items(s) \cup {e} \subseteq Items(u)
    BY <1>1 DEF Items
  <2>3. QED
    BY <2>1, <2>2
<1>5. QED
  BY <1>1, <1>2, <1>3, <1>4

(* The elements of a queue and its places                                  *)
LEMMA Held ==
  ASSUME NEW S, NEW s \in Seq(S)
  PROVE  /\ Items(s) \subseteq S /\ Len(s) \in Nat /\ DOMAIN s = 1 .. Len(s)
         /\ \A k \in DOMAIN s : k \in Nat /\ s[k] \in Items(s)
         /\ s # <<>> => s[Len(s)] \in Items(s)
<1>1. Len(s) \in Nat /\ DOMAIN s = 1 .. Len(s) /\ (s # <<>> => Len(s) \in DOMAIN s)
  OBVIOUS
<1>2. \A k \in DOMAIN s : s[k] \in S /\ k \in Nat
  OBVIOUS
<1>3. QED
  BY <1>1, <1>2 DEF Items

(* Two queues one behind the other                                         *)
LEMMA BehindOneAnother ==
  ASSUME NEW S, NEW s \in Seq(S), NEW t \in Seq(S)
  PROVE  /\ s \o t \in Seq(S) /\ Len(s \o t) = Len(s) + Len(t)
         /\ DOMAIN (s \o t) = 1 .. Len(s) + Len(t)
         /\ \A k \in DOMAIN (s \o t) :
              \/ k \in DOMAIN s /\ (s \o t)[k] = s[k]
              \/ k - Len(s) \in DOMAIN t /\ k > Len(s) /\ (s \o t)[k] = t[k - Len(s)]
         /\ Items(s \o t) = Items(s) \cup Items(t)
         /\ Distinct(s) /\ Distinct(t) /\ Items(s) \cap Items(t) = {} => Distinct(s \o t)
<1> DEFINE w == s \o t
<1>1. /\ Len(s) \in Nat /\ Len(t) \in Nat /\ DOMAIN s = 1 .. Len(s) /\ DOMAIN t = 1 .. Len(t)
      /\ w \in Seq(S) /\ Len(w) = Len(s) + Len(t) /\ DOMAIN w = 1 .. Len(s) + Len(t)
      /\ \A k \in 1 .. Len(s) + Len(t) : w[k] = IF k <= Len(s) THEN s[k] ELSE t[k - Len(s)]
  BY ConcatProperties, LenProperties
<1> HIDE DEF w
<1>2. \A k \in DOMAIN w :
        \/ k \in DOMAIN s /\ w[k] = s[k]
        \/ k - Len(s) \in DOMAIN t /\ k > Len(s) /\ w[k] = t[k - Len(s)]
  BY <1>1
<1>3. Items(w) = Items(s) \cup Items(t)
  <2>1. Items(w) \subseteq Items(s) \cup Items(t)
    BY <1>2 DEF Items
  <2>2. \A k \in DOMAIN s : k \in DOMAIN w /\ w[k] = s[k]
    BY <1>1
  <2>3. \A k \in DOMAIN t : k + Len(s) \in DOMAIN w /\ w[k + Len(s)] = t[k]
    BY <1>1
  <2>4. Items(s) \subseteq Items(w)
    BY <2>2 DEF Items
  <2>5. Items(t) \subseteq Items(w)
    BY <2>3 DEF Items
  <2>6. QED
    BY <2>1, <2>4, <2>5
<1>4. ASSUME Distinct(s), Distinct(t), Items(s) \cap Items(t) = {}
      PROVE  Distinct(w)
  <2> SUFFICES ASSUME NEW i \in DOMAIN w, NEW j \in DOMAIN w, w[i] = w[j] PROVE i = j
    BY DEF Distinct
  <2>1. CASE i \in DOMAIN s /\ w[i] = s[i] /\ j \in DOMAIN s /\ w[j] = s[j]
    BY <1>4, <2>1 DEF Distinct
  <2>2. CASE /\ i - Len(s) \in DOMAIN t /\ w[i] = t[i - Len(s)]
             /\ j - Len(s) \in DOMAIN t /\ w[j] = t[j - Len(s)]
    <3>1. i - Len(s) = j - Len(s)
      BY <1>4, <2>2 DEF Distinct
    <3>2. QED
      BY <1>1, <3>1
  <2>3. CASE i \in DOMAIN s /\ w[i] = s[i] /\ j - Len(s) \in DOMAIN t /\ w[j] = t[j - Len(s)]
    BY <1>4, <2>3 DEF Items
  <2>4. CASE i - Len(s) \in DOMAIN t /\ w[i] = t[i - Len(s)] /\ j \in DOMAIN s /\ w[j] = s[j]
    BY <1>4, <2>4 DEF Items
  <2>5. QED
    BY <1>2, <2>1, <2>2, <2>3, <2>4
<1>5. QED
  BY <1>1, <1>2, <1>3, <1>4 DEF w

(* A queue that holds nothing twice is as long as there are elements in it.*)
LEMMA AsLongAsItsItems ==
  ASSUME NEW S, NEW s \in Seq(S), Distinct(s)
  PROVE  Cardinality(Items(s)) = Len(s)
<1>1. Len(s) \in Nat /\ DOMAIN s = 1 .. Len(s) /\ s \in [1 .. Len(s) -> S]
  BY LenProperties
<1>2. s \in [1 .. Len(s) -> Items(s)]
  BY <1>1 DEF Items
<1>3. s \in Bijection(1 .. Len(s), Items(s))
  <2>1. s \in Injection(1 .. Len(s), Items(s))
    BY <1>1, <1>2 DEF Injection, IsInjective, Distinct
  <2>2. s \in Surjection(1 .. Len(s), Items(s))
    BY <1>1, <1>2 DEF Surjection, Items
  <2>3. QED
    BY <2>1, <2>2 DEF Bijection
<1>4. QED
  BY <1>1, <1>3, FS_CountingElements DEF ExistsBijection

-----------------------------------------------------------------------------
(* Numbers                                                                 *)

(* The smallest of some numbers                                            *)
LEMMA Least ==
  ASSUME NEW S \in SUBSET Nat, S # {}
  PROVE  \E p \in S : \A q \in S : p <= q
<1> DEFINE R == {ss \in Nat \X Nat : ss[1] < ss[2]}
<1>1. IsWellFoundedOn(R, Nat)
  BY NatLessThanWellFounded DEF OpToRel
<1> HIDE DEF R
<1>2. PICK p \in S : \A q \in S : <<q, p>> \notin R
  BY <1>1, WFMin
<1>3. \A q \in S : q \in Nat /\ (q < p => <<q, p>> \in R)
  BY DEF R
<1>4. \A q \in S : p <= q
  <2> TAKE q \in S
  <2>1. ~(q < p)
    BY <1>2, <1>3
  <2>2. QED
    BY <1>3, <2>1
<1>5. QED
  BY <1>4
=============================================================================
