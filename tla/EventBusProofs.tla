---------------------------- MODULE EventBusProofs ----------------------------
(***************************************************************************)
(* Proofs about EventBus, for every number of clients, every size of the   *)
(* rings, the channels and the log, and every bound.  The inductive        *)
(* invariant has a part for each kind of state: the ids (IdInv, RingInv),  *)
(* the stream (ClientInv, GapInv), the poller (LogInv, PollInv, Once) and  *)
(* the log (LossInv); each part's steps use the parts before it.           *)
(***************************************************************************)
EXTENDS EventBus, FiniteSetTheorems, TLAPS

Ascending(s) == \A i, j \in DOMAIN s : i < j => s[i] < s[j]

-----------------------------------------------------------------------------
(* Sequences of naturals                                                   *)

(* A set of naturals with 0 in it and closed under + 1 is all of them: by   *)
(* the pigeonhole principle on the predecessor function below a missing     *)
(* one.                                                                     *)
LEMMA Induct ==
  ASSUME NEW S \in SUBSET Nat, 0 \in S, \A n \in S : n + 1 \in S
  PROVE  S = Nat
<1> SUFFICES ASSUME NEW b \in Nat, b \notin S PROVE FALSE
  OBVIOUS
<1> DEFINE T == {k \in 0..b : \E j \in 0..b : j \notin S /\ j <= k}
           prev == [k \in T |-> k - 1]
<1>1. \A k \in T : k - 1 \in T
  <2> SUFFICES ASSUME NEW k \in T PROVE k - 1 \in T
    OBVIOUS
  <2>1. PICK j \in 0..b : j \notin S /\ j <= k
    OBVIOUS
  <2>2. j # 0 /\ j - 1 \notin S
    BY <2>1
  <2> QED
    BY <2>1, <2>2
<1>2. prev \in [T -> T]
  BY <1>1
<1>3. \A k, l \in T : prev[k] = prev[l] => k = l
  OBVIOUS
<1>4. prev \in Injection(T, T)
  BY <1>2, <1>3 DEF Injection, IsInjective
<1>5. IsFiniteSet(T)
  <2>1. IsFiniteSet(0..b) /\ T \in SUBSET (0..b)
    BY FS_Interval
  <2> QED
    BY <2>1, FS_Subset
<1>6. prev \in Surjection(T, T)
  BY <1>4, <1>5, FS_Injection
<1>7. b \in T
  OBVIOUS
<1>8. \E k \in T : prev[k] = b
  BY <1>6, <1>7 DEF Surjection
<1> QED
  BY <1>8

(* Kept's local function exists, so its equations may be used.              *)
LEMMA KeptRec ==
  ASSUME NEW s, Len(s) \in Nat, NEW S
  PROVE  \E out : /\ DOMAIN out = 0..Len(s) /\ out[0] = <<>>
                  /\ \A i \in 1..Len(s) : out[i] = IF s[i] \in S THEN Append(out[i - 1], s[i]) ELSE out[i - 1]
                  /\ Kept(s, S) = out[Len(s)]
<1> DEFINE Grown(g, i) == IF s[i] \in S THEN Append(g[i - 1], s[i]) ELSE g[i - 1]
           Rec(g, k) == /\ g = [i \in 0..k |-> g[i]] /\ g[0] = <<>>
                        /\ \A i \in 1..k : g[i] = Grown(g, i)
           Ok == {k \in Nat : \E g : Rec(g, k)}
           Body(g) == [i \in 0..Len(s) |->
                        IF i = 0 THEN <<>>
                        ELSE IF s[i] \in S THEN Append(g[i - 1], s[i]) ELSE g[i - 1]]
<1>1. 0 \in Ok
  <2> DEFINE g == [i \in 0..0 |-> <<>>]
  <2>1. g[0] = <<>> /\ g = [i \in 0..0 |-> g[i]]
    OBVIOUS
  <2>2. 1..0 = {}
    OBVIOUS
  <2>3. \A i \in 1..0 : g[i] = Grown(g, i)
    BY <2>2
  <2> HIDE DEF g, Grown
  <2>4. Rec(g, 0)
    BY <2>1, <2>3
  <2> QED
    BY <2>4
<1>2. ASSUME NEW k \in Ok PROVE k + 1 \in Ok
  <2>1. PICK g : Rec(g, k)
    OBVIOUS
  <2>a. g[0] = <<>> /\ \A i \in 1..k : g[i] = Grown(g, i)
    BY <2>1
  <2> DEFINE new == Grown(g, k + 1)
  <2> HIDE DEF new
  <2> DEFINE h == [i \in 0..(k + 1) |-> IF i <= k THEN g[i] ELSE new]
  <2>2. h = [i \in 0..(k + 1) |-> h[i]]
    OBVIOUS
  <2>3. \A i \in 0..k : h[i] = g[i]
    OBVIOUS
  <2>4. h[k + 1] = new
    OBVIOUS
  <2> HIDE DEF h
  <2>5. h[0] = <<>>
    BY <2>a, <2>3
  <2>6. ASSUME NEW i \in 1..(k + 1) PROVE h[i] = Grown(h, i)
    <3>1. h[i - 1] = g[i - 1] /\ i - 1 \in 0..k
      BY <2>3
    <3>a. Grown(h, i) = Grown(g, i)
      BY <3>1
    <3>2. CASE i \in 1..k
      <4>1. h[i] = g[i] /\ g[i] = Grown(g, i)
        BY <2>a, <2>3, <3>2
      <4> HIDE DEF Grown
      <4> QED
        BY <3>a, <4>1
    <3>3. CASE i = k + 1
      <4>1. h[i] = new /\ new = Grown(g, i)
        <5>1. new = Grown(g, k + 1)
          BY DEF new
        <5> HIDE DEF Grown
        <5> QED
          BY <2>4, <3>3, <5>1
      <4> HIDE DEF Grown
      <4> QED
        BY <3>a, <4>1
    <3> QED
      BY <3>2, <3>3
  <2> HIDE DEF Grown
  <2>7. Rec(h, k + 1)
    BY <2>2, <2>5, <2>6
  <2> QED
    BY <2>7
<1>3. Ok = Nat
  <2> HIDE DEF Ok
  <2>1. Ok \in SUBSET Nat
    BY DEF Ok
  <2> QED
    BY <1>1, <1>2, <2>1, Induct
<1>4. PICK g : Rec(g, Len(s))
  BY <1>3
<1>5. \E f : f = Body(f)
  <2>1. ASSUME NEW i \in 0..Len(s) PROVE g[i] = Body(g)[i]
    <3>1. CASE i = 0
      BY <1>4, <3>1
    <3>2. CASE i \in 1..Len(s)
      <4>1. Body(g)[i] = Grown(g, i)
        BY <3>2
      <4>2. g[i] = Grown(g, i)
        BY <1>4, <3>2
      <4> QED
        BY <4>1, <4>2
    <3> QED
      BY <3>1, <3>2
  <2>2. g = Body(g)
    <3>1. g = [i \in 0..Len(s) |-> g[i]]
      BY <1>4
    <3>2. Body(g) = [i \in 0..Len(s) |-> Body(g)[i]]
      OBVIOUS
    <3> HIDE DEF Body
    <3> QED
      BY <2>1, <3>1, <3>2
  <2> QED
    BY <2>2
<1>6. PICK f : f = Body(f) /\ Kept(s, S) = f[Len(s)]
  BY <1>5 DEF Kept
<1>7. /\ DOMAIN f = 0..Len(s) /\ f[0] = <<>>
      /\ \A i \in 1..Len(s) : f[i] = IF s[i] \in S THEN Append(f[i - 1], s[i]) ELSE f[i - 1]
  <2>1. DOMAIN f = 0..Len(s)
    BY <1>6
  <2>2. \A i \in 0..Len(s) : f[i] = Body(f)[i]
    BY <1>6
  <2>3. f[0] = <<>>
    BY <2>2
  <2>4. ASSUME NEW i \in 1..Len(s) PROVE f[i] = Grown(f, i)
    <3>1. f[i] = Body(f)[i] /\ i \in 0..Len(s) /\ i # 0
      BY <2>2
    <3>2. Body(f)[i] = Grown(f, i)
      BY <3>1
    <3> QED
      BY <3>1, <3>2
  <2> QED
    BY <2>1, <2>3, <2>4
<1> QED
  BY <1>6, <1>7

(* Append adds one element, at the end.                                     *)
LEMMA AppendFacts ==
  ASSUME NEW T \in SUBSET Nat, NEW q \in Seq(T), NEW x \in T
  PROVE  /\ Append(q, x) \in Seq(T) /\ Len(Append(q, x)) = Len(q) + 1
         /\ Elements(Append(q, x)) = Elements(q) \cup {x}
         /\ Ascending(q) /\ (\A e \in Elements(q) : e < x) => Ascending(Append(q, x))
<1>1. /\ Append(q, x) \in Seq(T) /\ Len(Append(q, x)) = Len(q) + 1 /\ Len(q) \in Nat
      /\ DOMAIN q = 1..Len(q) /\ DOMAIN Append(q, x) = 1..(Len(q) + 1)
      /\ \A i \in 1..Len(q) : Append(q, x)[i] = q[i] /\ q[i] \in T
      /\ Append(q, x)[Len(q) + 1] = x
  OBVIOUS
<1>2. Elements(Append(q, x)) = Elements(q) \cup {x}
  BY <1>1 DEF Elements
<1>3. ASSUME Ascending(q), \A e \in Elements(q) : e < x PROVE Ascending(Append(q, x))
  <2>1. \A i \in 1..Len(q) : q[i] < x
    BY <1>1, <1>3 DEF Elements
  <2> QED
    BY <1>1, <1>3, <2>1 DEF Ascending
<1> QED
  BY <1>1, <1>2, <1>3

(* Taking the head of a sequence leaves the other elements, all later if    *)
(* it ascends.                                                              *)
LEMMA TailFacts ==
  ASSUME NEW T \in SUBSET Nat, NEW q \in Seq(T), q # <<>>
  PROVE  /\ Head(q) \in T /\ Tail(q) \in Seq(T) /\ Len(Tail(q)) = Len(q) - 1
         /\ Elements(q) = {Head(q)} \cup Elements(Tail(q))
         /\ Ascending(q) => Ascending(Tail(q)) /\ \A e \in Elements(Tail(q)) : Head(q) < e
<1>1. /\ Head(q) \in T /\ Tail(q) \in Seq(T) /\ Len(q) \in Nat /\ Len(q) > 0 /\ Len(Tail(q)) = Len(q) - 1
      /\ DOMAIN q = 1..Len(q) /\ DOMAIN Tail(q) = 1..(Len(q) - 1) /\ Head(q) = q[1]
      /\ \A i \in 1..(Len(q) - 1) : Tail(q)[i] = q[i + 1]
  OBVIOUS
<1>2. Elements(q) = {Head(q)} \cup Elements(Tail(q))
  <2>1. ASSUME NEW i \in 1..Len(q) PROVE q[i] \in {Head(q)} \cup Elements(Tail(q))
    <3>1. CASE i = 1
      BY <1>1, <3>1
    <3>2. CASE i # 1
      <4>1. i - 1 \in 1..(Len(q) - 1) /\ q[i] = Tail(q)[i - 1]
        BY <1>1, <3>2
      <4> QED
        BY <1>1, <4>1 DEF Elements
    <3> QED
      BY <3>1, <3>2
  <2>2. \A i \in 1..(Len(q) - 1) : Tail(q)[i] \in Elements(q)
    BY <1>1 DEF Elements
  <2>3. Head(q) \in Elements(q)
    BY <1>1 DEF Elements
  <2> QED
    BY <1>1, <2>1, <2>2, <2>3 DEF Elements
<1>3. ASSUME Ascending(q) PROVE Ascending(Tail(q)) /\ \A e \in Elements(Tail(q)) : Head(q) < e
  BY <1>1, <1>3 DEF Ascending, Elements
<1> QED
  BY <1>1, <1>2, <1>3

(* The cut to the newest k keeps order and, of an ascending sequence,       *)
(* drops only what is below everything it keeps.                            *)
LEMMA NewestFacts ==
  ASSUME NEW T \in SUBSET Nat, NEW q \in Seq(T), NEW k \in Nat \ {0}
  PROVE  /\ Newest(q, k) \in Seq(T) /\ Len(Newest(q, k)) = IF Len(q) <= k THEN Len(q) ELSE k
         /\ Elements(Newest(q, k)) \subseteq Elements(q)
         /\ Ascending(q) => /\ Ascending(Newest(q, k))
                            /\ \A e \in Elements(q) \ Elements(Newest(q, k)) :
                                 /\ Len(Newest(q, k)) = k
                                 /\ \A d \in Elements(Newest(q, k)) : e < d
<1>1. Len(q) \in Nat /\ DOMAIN q = 1..Len(q) /\ \A i \in 1..Len(q) : q[i] \in T
  OBVIOUS
<1>2. CASE Len(q) <= k
  BY <1>1, <1>2 DEF Newest
<1>3. CASE Len(q) > k
  <2> DEFINE n == Newest(q, k)
             low == Len(q) - k
  <2>0. low \in Nat /\ low > 0 /\ low + k = Len(q) /\ low + 1 <= Len(q)
    BY <1>1, <1>3
  <2>1. /\ n \in Seq(T) /\ Len(n) = k /\ DOMAIN n = 1..k
        /\ \A i \in 1..k : n[i] = q[low + i]
    <3>1. n = SubSeq(q, low + 1, Len(q))
      BY <1>1, <1>3 DEF Newest
    <3>2. /\ n \in Seq(T) /\ Len(n) = k
      BY <1>1, <2>0, <3>1
    <3>3. \A i \in 1..k : n[i] = q[low + i]
      BY <1>1, <2>0, <3>1
    <3> QED
      BY <3>2, <3>3
  <2> HIDE DEF n, low
  <2>2. Elements(n) \subseteq Elements(q)
    <3>1. \A i \in 1..k : low + i \in 1..Len(q)
      BY <1>1, <2>0
    <3> QED
      BY <1>1, <2>1, <3>1 DEF Elements
  <2>3. ASSUME Ascending(q) PROVE Ascending(n)
    <3>1. ASSUME NEW i \in 1..k, NEW j \in 1..k, i < j PROVE n[i] < n[j]
      <4>1. low + i \in 1..Len(q) /\ low + j \in 1..Len(q) /\ low + i < low + j
        BY <1>1, <2>0, <3>1
      <4>2. q[low + i] < q[low + j]
        BY <1>1, <2>3, <4>1 DEF Ascending
      <4> QED
        BY <2>1, <4>2
    <3> QED
      BY <2>1, <3>1 DEF Ascending
  <2>4. ASSUME Ascending(q), NEW e \in Elements(q) \ Elements(n), NEW d \in Elements(n) PROVE e < d
    <3>1. PICK i \in 1..Len(q) : q[i] = e
      BY <1>1 DEF Elements
    <3>2. PICK j \in 1..k : n[j] = d /\ q[low + j] = d /\ low + j \in 1..Len(q)
      <4>1. PICK j \in 1..k : n[j] = d
        BY <2>1 DEF Elements
      <4>2. low + j \in 1..Len(q)
        BY <1>1, <2>0
      <4> QED
        BY <2>1, <4>1, <4>2
    <3>3. i <= low
      <4>1. ASSUME i > low PROVE FALSE
        <5>1. i - low \in 1..k /\ low + (i - low) = i
          BY <1>1, <2>0, <4>1
        <5>2. n[i - low] = q[i]
          BY <2>1, <5>1
        <5> QED
          BY <2>1, <3>1, <5>1, <5>2 DEF Elements
      <4> QED
        BY <2>0, <4>1
    <3>4. i < low + j
      BY <2>0, <3>2, <3>3
    <3> QED
      BY <1>1, <2>4, <3>1, <3>2, <3>4 DEF Ascending
  <2>5. n = Newest(q, k)
    BY DEF n
  <2>6. /\ n \in Seq(T) /\ Len(n) = IF Len(q) <= k THEN Len(q) ELSE k
        /\ Elements(n) \subseteq Elements(q)
    <3>1. ~(Len(q) <= k)
      BY <1>1, <1>3
    <3>2. n \in Seq(T) /\ Len(n) = k
      BY <2>1
    <3> QED
      BY <2>2, <3>1, <3>2
  <2>7. Ascending(q) => /\ Ascending(n)
                        /\ \A e \in Elements(q) \ Elements(n) :
                             Len(n) = k /\ \A d \in Elements(n) : e < d
    BY <2>1, <2>3, <2>4
  <2>8. /\ Newest(q, k) \in Seq(T) /\ Len(Newest(q, k)) = IF Len(q) <= k THEN Len(q) ELSE k
        /\ Elements(Newest(q, k)) \subseteq Elements(q)
    BY <2>5, <2>6
  <2>9. Ascending(q) => Ascending(Newest(q, k))
    BY <2>5, <2>7
  <2>10. ASSUME Ascending(q), NEW e \in Elements(q) \ Elements(Newest(q, k))
         PROVE  Len(Newest(q, k)) = k /\ \A d \in Elements(Newest(q, k)) : e < d
    BY <2>5, <2>7, <2>10
  <2> QED
    BY <2>8, <2>9, <2>10
<1> QED
  BY <1>1, <1>2, <1>3

(* The filter loop keeps the members of S, in their order.                  *)
LEMMA KeptFacts ==
  ASSUME NEW T \in SUBSET Nat, NEW s \in Seq(T), NEW S
  PROVE  /\ Kept(s, S) \in Seq(T)
         /\ Elements(Kept(s, S)) = Elements(s) \cap S
         /\ Ascending(s) => Ascending(Kept(s, S))
<1>1. Len(s) \in Nat /\ DOMAIN s = 1..Len(s) /\ \A i \in 1..Len(s) : s[i] \in T
  OBVIOUS
<1>2. PICK out : /\ DOMAIN out = 0..Len(s) /\ out[0] = <<>>
                 /\ \A i \in 1..Len(s) :
                      out[i] = IF s[i] \in S THEN Append(out[i - 1], s[i]) ELSE out[i - 1]
                 /\ Kept(s, S) = out[Len(s)]
  <2>1. Len(s) \in Nat
    BY <1>1
  <2> QED
    BY <2>1, KeptRec
<1> DEFINE First(k) == {s[i] : i \in 1..k}
           Ok(k) == /\ out[k] \in Seq(T) /\ Elements(out[k]) = First(k) \cap S
                    /\ Ascending(s) => Ascending(out[k])
           Good == {k \in Nat : k <= Len(s) => Ok(k)}
<1>3. 0 \in Good
  <2>1. out[0] = <<>> /\ 1..0 = {}
    BY <1>2
  <2>2. out[0] \in Seq(T) /\ DOMAIN out[0] = {}
    BY <2>1
  <2>3. Elements(out[0]) = {} /\ First(0) = {} /\ Ascending(out[0])
    BY <2>1, <2>2 DEF Elements, Ascending
  <2> QED
    BY <2>2, <2>3
<1>4. ASSUME NEW k \in Good PROVE k + 1 \in Good
  <2> SUFFICES ASSUME k + 1 <= Len(s) PROVE Ok(k + 1)
    OBVIOUS
  <2>1. k \in Nat /\ Ok(k) /\ k + 1 \in 1..Len(s) /\ (k + 1) - 1 = k
    BY <1>1
  <2>2. PICK q \in Seq(T) : q = out[k]
    BY <2>1
  <2>3. PICK x \in T : x = s[k + 1]
    BY <1>1, <2>1
  <2>4. out[k + 1] = IF x \in S THEN Append(q, x) ELSE q
    BY <1>2, <2>1, <2>2, <2>3
  <2>5. First(k + 1) = First(k) \cup {x}
    <3>1. 1..(k + 1) = 1..k \cup {k + 1}
      BY <2>1
    <3> QED
      BY <2>3, <3>1
  <2>6. Elements(q) = First(k) \cap S /\ (Ascending(s) => Ascending(q))
    BY <2>1, <2>2
  <2>7. Ascending(s) => \A e \in Elements(q) : e < x
    <3>1. ASSUME Ascending(s), NEW e \in First(k) PROVE e < x
      <4>1. PICK i \in 1..k : e = s[i]
        OBVIOUS
      <4>2. i \in 1..Len(s) /\ i < k + 1
        BY <1>1, <2>1
      <4> QED
        BY <1>1, <2>1, <2>3, <3>1, <4>1, <4>2 DEF Ascending
    <3> HIDE DEF First
    <3> QED
      BY <2>6, <3>1
  <2> HIDE DEF First
  <2>8. CASE x \in S
    <3>1. out[k + 1] = Append(q, x)
      BY <2>4, <2>8
    <3>2. Elements(Append(q, x)) = First(k + 1) \cap S
      BY <2>5, <2>6, <2>8, AppendFacts
    <3> QED
      BY <2>6, <2>7, <3>1, <3>2, AppendFacts
  <2>9. CASE x \notin S
    BY <2>4, <2>5, <2>6, <2>9
  <2> QED
    BY <2>8, <2>9
<1>5. Good = Nat
  <2> HIDE DEF Ok
  <2>1. Good \in SUBSET Nat
    OBVIOUS
  <2> HIDE DEF Good
  <2> QED
    BY <1>3, <1>4, <2>1, Induct
<1>6. Ok(Len(s))
  <2> HIDE DEF Ok
  <2> QED
    BY <1>1, <1>5
<1>7. First(Len(s)) = Elements(s)
  BY <1>1 DEF Elements
<1> HIDE DEF First
<1> QED
  BY <1>2, <1>6, <1>7

(* One after the other, two ascending sequences ascend if the one is below  *)
(* the other.                                                               *)
LEMMA ConcatFacts ==
  ASSUME NEW T \in SUBSET Nat, NEW q \in Seq(T), NEW r \in Seq(T)
  PROVE  /\ q \o r \in Seq(T) /\ Len(q \o r) = Len(q) + Len(r)
         /\ Elements(q \o r) = Elements(q) \cup Elements(r)
         /\ Ascending(q) /\ Ascending(r) /\ (\A d \in Elements(q), e \in Elements(r) : d < e)
              => Ascending(q \o r)
<1>1. /\ q \o r \in Seq(T) /\ Len(q \o r) = Len(q) + Len(r) /\ Len(q) \in Nat /\ Len(r) \in Nat
      /\ DOMAIN q = 1..Len(q) /\ DOMAIN r = 1..Len(r) /\ DOMAIN (q \o r) = 1..(Len(q) + Len(r))
      /\ \A i \in 1..Len(q) : (q \o r)[i] = q[i] /\ q[i] \in T
      /\ \A i \in 1..Len(r) : (q \o r)[Len(q) + i] = r[i] /\ r[i] \in T
  OBVIOUS
<1> DEFINE z == q \o r
<1>2. \A i \in (Len(q) + 1)..(Len(q) + Len(r)) : i - Len(q) \in 1..Len(r) /\ z[i] = r[i - Len(q)]
  <2>1. ASSUME NEW i \in (Len(q) + 1)..(Len(q) + Len(r))
        PROVE  i - Len(q) \in 1..Len(r) /\ z[i] = r[i - Len(q)]
    <3>1. i - Len(q) \in 1..Len(r) /\ Len(q) + (i - Len(q)) = i
      BY <1>1
    <3> QED
      BY <1>1, <3>1
  <2> QED
    BY <2>1
<1>a. /\ z \in Seq(T) /\ Len(z) = Len(q) + Len(r) /\ DOMAIN z = 1..(Len(q) + Len(r))
      /\ \A i \in 1..Len(q) : z[i] = q[i]
      /\ \A i \in 1..Len(r) : z[Len(q) + i] = r[i] /\ Len(q) + i \in DOMAIN z
  BY <1>1
<1> HIDE DEF z
<1>3. Elements(z) = Elements(q) \cup Elements(r)
  <2>1. \A i \in DOMAIN z : z[i] \in Elements(q) \cup Elements(r)
    <3>1. ASSUME NEW i \in DOMAIN z PROVE z[i] \in Elements(q) \cup Elements(r)
      <4>1. CASE i \in 1..Len(q)
        BY <1>1, <1>a, <4>1 DEF Elements
      <4>2. CASE i \in (Len(q) + 1)..(Len(q) + Len(r))
        BY <1>1, <1>2, <4>2 DEF Elements
      <4> QED
        BY <1>1, <1>a, <4>1, <4>2
    <3> QED
      BY <3>1
  <2>2. ASSUME NEW i \in 1..Len(q) PROVE q[i] \in Elements(z)
    <3>1. i \in DOMAIN z /\ z[i] = q[i]
      BY <1>1, <1>a
    <3> QED
      BY <3>1 DEF Elements
  <2>3. ASSUME NEW i \in 1..Len(r) PROVE r[i] \in Elements(z)
    <3>1. Len(q) + i \in DOMAIN z /\ z[Len(q) + i] = r[i]
      BY <1>a
    <3> QED
      BY <3>1 DEF Elements
  <2> QED
    BY <1>1, <2>1, <2>2, <2>3 DEF Elements
<1>4. ASSUME Ascending(q), Ascending(r), \A d \in Elements(q), e \in Elements(r) : d < e
      PROVE  Ascending(z)
  <2>1. ASSUME NEW i \in DOMAIN z, NEW j \in DOMAIN z, i < j PROVE z[i] < z[j]
    <3>1. CASE j \in 1..Len(q)
      <4>1. i \in 1..Len(q)
        BY <1>1, <1>a, <2>1, <3>1
      <4> QED
        BY <1>1, <1>a, <1>4, <2>1, <3>1, <4>1 DEF Ascending
    <3>2. CASE i \in (Len(q) + 1)..(Len(q) + Len(r))
      <4>1. j \in (Len(q) + 1)..(Len(q) + Len(r)) /\ i - Len(q) < j - Len(q)
        BY <1>1, <1>a, <2>1, <3>2
      <4>2. /\ i - Len(q) \in DOMAIN r /\ j - Len(q) \in DOMAIN r
            /\ z[i] = r[i - Len(q)] /\ z[j] = r[j - Len(q)]
        BY <1>1, <1>2, <3>2, <4>1
      <4> QED
        BY <1>4, <4>1, <4>2 DEF Ascending
    <3>3. CASE i \in 1..Len(q) /\ j \in (Len(q) + 1)..(Len(q) + Len(r))
      <4>1. z[i] \in Elements(q)
        BY <1>1, <1>a, <3>3 DEF Elements
      <4>2. z[j] \in Elements(r)
        BY <1>1, <1>2, <3>3 DEF Elements
      <4> QED
        BY <1>4, <4>1, <4>2
    <3> QED
      BY <1>1, <1>a, <3>1, <3>2, <3>3
  <2> QED
    BY <2>1 DEF Ascending
<1>5. z = q \o r
  BY DEF z
<1> QED
  BY <1>3, <1>4, <1>5, <1>1

(* An ascending sequence has no doubles.                                    *)
LEMMA AscendingSize ==
  ASSUME NEW T \in SUBSET Nat, NEW q \in Seq(T), Ascending(q)
  PROVE  IsFiniteSet(Elements(q)) /\ Cardinality(Elements(q)) = Len(q)
<1>1. Len(q) \in Nat /\ DOMAIN q = 1..Len(q) /\ \A i \in 1..Len(q) : q[i] \in T
  OBVIOUS
<1> DEFINE f == [i \in 1..Len(q) |-> q[i]]
<1>2. f \in [1..Len(q) -> Elements(q)]
  BY <1>1 DEF Elements
<1>3. \A i, j \in 1..Len(q) : f[i] = f[j] => i = j
  <2>1. \A i, j \in 1..Len(q) : i < j => q[i] < q[j]
    BY <1>1 DEF Ascending
  <2>2. \A i, j \in 1..Len(q) : i < j \/ j < i \/ i = j
    BY <1>1
  <2>3. \A i \in 1..Len(q) : q[i] \in Nat
    BY <1>1
  <2> QED
    BY <2>1, <2>2, <2>3
<1>4. \A e \in Elements(q) : \E i \in 1..Len(q) : f[i] = e
  BY <1>1 DEF Elements
<1>5. f \in Bijection(1..Len(q), Elements(q))
  <2> HIDE DEF f
  <2> QED
    BY <1>2, <1>3, <1>4 DEF Bijection, Injection, Surjection, IsInjective
<1>6. IsFiniteSet(1..Len(q)) /\ Cardinality(1..Len(q)) = Len(q)
  <2>1. PICK k \in Nat : k = Len(q)
    BY <1>1
  <2>2. IsFiniteSet(1..k) /\ Cardinality(1..k) = IF 1 > k THEN 0 ELSE k - 1 + 1
    BY FS_Interval
  <2>3. Cardinality(1..k) = k
    BY <2>2
  <2> QED
    BY <2>1, <2>2, <2>3
<1>7. ExistsBijection(1..Len(q), Elements(q))
  BY <1>5 DEF ExistsBijection
<1> QED
  BY <1>6, <1>7, FS_Bijection

(* A sequence without its last element.                                     *)
ButLast(q) == SubSeq(q, 1, Len(q) - 1)

(* It keeps order, and every element but one.                               *)
LEMMA ButLastFacts ==
  ASSUME NEW T \in SUBSET Nat, NEW q \in Seq(T)
  PROVE  /\ ButLast(q) \in Seq(T) /\ Len(ButLast(q)) <= Len(q)
         /\ Elements(ButLast(q)) \subseteq Elements(q)
         /\ Ascending(q) => Ascending(ButLast(q))
         /\ q # <<>> => Elements(q) = Elements(ButLast(q)) \cup {q[Len(q)]}
<1> SUFFICES ASSUME NEW p, p = SubSeq(q, 1, Len(q) - 1)
             PROVE  /\ p \in Seq(T) /\ Len(p) <= Len(q) /\ Elements(p) \subseteq Elements(q)
                    /\ Ascending(q) => Ascending(p)
                    /\ q # <<>> => Elements(q) = Elements(p) \cup {q[Len(q)]}
  BY DEF ButLast
<1>1. PICK k \in Nat : /\ k = Len(q) /\ DOMAIN q = 1..k
  OBVIOUS
<1>2. CASE q = <<>>
  <2>1. p = <<>>
    BY <1>2
  <2>2. p = q /\ Len(p) <= Len(q)
    BY <1>2, <2>1
  <2> QED
    BY <1>2, <2>2
<1>3. CASE q # <<>>
  <2>1. k > 0
    BY <1>1, <1>3
  <2>2. /\ p \in Seq(T) /\ Len(p) = k - 1 /\ DOMAIN p = 1..(k - 1)
        /\ \A i \in 1..(k - 1) : p[i] = q[i]
    BY <1>1, <2>1
  <2>3. (\A i \in 1..k : i \in 1..(k - 1) \/ i = k) /\ k \in 1..k /\ \A i \in 1..(k - 1) : i \in 1..k
    BY <2>1
  <2>4. Elements(q) = Elements(p) \cup {q[k]}
    <3>1. \A i \in 1..k : q[i] \in Elements(p) \cup {q[k]}
      BY <2>2, <2>3 DEF Elements
    <3>2. q[k] \in Elements(q) /\ \A i \in 1..(k - 1) : p[i] \in Elements(q)
      BY <1>1, <2>2, <2>3 DEF Elements
    <3> QED
      BY <1>1, <2>2, <3>1, <3>2 DEF Elements
  <2>5. Ascending(q) => Ascending(p)
    <3>1. ASSUME Ascending(q), NEW i \in 1..(k - 1), NEW j \in 1..(k - 1), i < j PROVE p[i] < p[j]
      <4>1. p[i] = q[i] /\ p[j] = q[j] /\ i \in DOMAIN q /\ j \in DOMAIN q
        BY <1>1, <2>2, <2>3
      <4> QED
        BY <3>1, <4>1 DEF Ascending
    <3> QED
      BY <2>2, <3>1 DEF Ascending
  <2>6. Len(p) <= Len(q)
    BY <1>1, <2>2
  <2> QED
    BY <1>1, <2>2, <2>4, <2>5, <2>6
<1> QED
  BY <1>2, <1>3

-----------------------------------------------------------------------------
(* The inductive invariant, part by part                                   *)

(* The process life event n belongs to; every later event's id is higher.   *)
Life(n) == emitted[n].life
Follows(n) == \A m \in DOMAIN emitted : n < m => ID(n) < ID(m)

(* Every line in the log and in the notification ring is retained, and no   *)
(* later event has an id at or below its own.                               *)
IdInv ==
  /\ Len(emitted) <= MaxEvents
  /\ \A n \in DOMAIN emitted : ID(n) <= n
  /\ Ascending(file) /\ Ascending(notif)
  /\ \A n \in Elements(file) \cup Elements(notif) :
       n \in Retained /\ ID(n) <= nextID /\ Follows(n)

(* The ring holds events of the present life, and within a life the ids     *)
(* ascend.                                                                  *)
RingInv ==
  /\ \A n \in DOMAIN emitted :
       Life(n) <= restarts /\ (Life(n) = restarts => ID(n) <= nextID)
  /\ \A n, m \in DOMAIN emitted :
       n < m => Life(n) <= Life(m) /\ (Life(n) = Life(m) => ID(n) < ID(m))
  /\ Ascending(ring)
  /\ \A n \in Elements(ring) : n \in DOMAIN emitted /\ Life(n) = restarts

(* What is on its way to a client is in order, after what it has.           *)
InOrder(c) ==
  /\ last[c] \in 0..Len(emitted)
  /\ \A e \in Elements(pend[c]) \cup Elements(ch[c]) : e \in DOMAIN emitted /\ last[c] < e
  /\ Ascending(pend[c]) /\ Ascending(ch[c])
  /\ \A e \in Elements(pend[c]), d \in Elements(ch[c]) : e < d

ClientInv == \A c \in Clients : InOrder(c)

(* Behind anything a connected client has or will be sent, each ringed      *)
(* event of the same life is on its way too or excused.                     *)
OnTheWay(c) == Elements(pend[c]) \cup Elements(ch[c])
NoGap(c) ==
  \A e \in ({last[c]} \ {0}) \cup OnTheWay(c), n \in DOMAIN emitted :
    e < n /\ emitted[n].ringed /\ Life(n) = Life(e) => n \in OnTheWay(c) \cup excused[c]

GapInv == \A c \in conn : NoGap(c)

(* q holds the newest NotifSize of the retained events, or more.            *)
Covers(q) ==
  \A n \in Retained \ Elements(q) : Len(q) >= NotifSize /\ \A d \in Elements(q) : n < d

(* While every write succeeds, the log and the ring are complete and the    *)
(* ids of the notifications ascend for ever.                                *)
LogInv ==
  tears = 0 =>
    /\ tail = "closed"
    /\ Covers(file) /\ Covers(notif)
    /\ \A n \in Retained : ID(n) <= nextID /\ Follows(n)

(* The cursor is the id of the last notification polled, and what the ring  *)
(* has let go of is not missed.                                             *)
PollInv ==
  /\ asOf <= Len(emitted)
  /\ Ascending(polled)
  /\ \A n \in Elements(polled) : n \in Retained /\ n <= asOf
  /\ IF polled = <<>> THEN cursor = 0 ELSE cursor = ID(polled[Len(polled)])

(* What the next line will cost for the way the log ends.                   *)
Swallows == IF tail = "closed" THEN 0 ELSE IF tail = "garbage" THEN 1 ELSE 2

LossInv == Cardinality(Wanted \ Elements(file)) + Swallows <= 2 * tears

-----------------------------------------------------------------------------
(* Steps                                                                   *)

(* The constants' types, as the steps need them.                            *)
LEMMA Sizes == RingSize \in Nat \ {0} /\ NotifSize \in Nat \ {0} /\ CompactEvery \in Nat \ {0}
               /\ BufSize \in Nat \ {0} /\ Numbers \in SUBSET Nat
  BY SizesArePositive DEF Numbers

(* What an emission adds, and where it leaves it.                           *)
LEMMA Grows ==
  ASSUME TypeOK, NEW t \in Types, EmitTo(t), NEW n, n = Len(emitted) + 1
  PROVE  /\ n \in Numbers /\ n \notin DOMAIN emitted /\ DOMAIN emitted = 1..Len(emitted)
         /\ Len(emitted') = n /\ DOMAIN emitted' = DOMAIN emitted \cup {n}
         /\ \A m \in DOMAIN emitted : emitted'[m] = emitted[m] /\ m < n /\ m \in Numbers
         /\ emitted'[n].id = nextID + 1 /\ emitted'[n].life = restarts
         /\ nextID' = nextID + 1
         /\ emitted' \in Seq([id : Numbers, type : Types, life : 0..MaxRestarts,
                              ringed : BOOLEAN, retained : BOOLEAN])
<1> DEFINE delivered == Room # {}
           retained == IsNotification(t) /\ (t # "banner" \/ delivered)
           ringed == t \notin {"banner", "notice"} \/ delivered
           rec == [id |-> nextID + 1, type |-> t, life |-> restarts,
                   ringed |-> ringed, retained |-> retained]
           Recs == [id : Numbers, type : Types, life : 0..MaxRestarts,
                    ringed : BOOLEAN, retained : BOOLEAN]
<1>1. emitted \in Seq(Recs) /\ nextID \in 0..Len(emitted) /\ restarts \in 0..MaxRestarts
  BY DEF TypeOK
<1>2. emitted' = Append(emitted, rec) /\ nextID' = nextID + 1 /\ Len(emitted) < MaxEvents
  BY DEF EmitTo
<1>3. Len(emitted) \in Nat /\ MaxEvents \in Nat
  BY <1>1, SizesArePositive
<1>4. n \in Numbers /\ nextID + 1 \in Numbers
  BY <1>1, <1>2, <1>3 DEF Numbers
<1>5. retained \in BOOLEAN /\ ringed \in BOOLEAN
  BY DEF IsNotification
<1> HIDE DEF retained, ringed
<1>6. rec \in Recs
  BY <1>1, <1>4, <1>5
<1>7. rec.id = nextID + 1 /\ rec.life = restarts
  OBVIOUS
<1> HIDE DEF rec, Recs
<1>8. /\ Append(emitted, rec) \in Seq(Recs) /\ Len(Append(emitted, rec)) = n
      /\ DOMAIN emitted = 1..Len(emitted) /\ DOMAIN Append(emitted, rec) = 1..n
      /\ \A m \in 1..Len(emitted) : Append(emitted, rec)[m] = emitted[m]
      /\ Append(emitted, rec)[n] = rec
  BY <1>1, <1>3, <1>6
<1>9. DOMAIN emitted' = DOMAIN emitted \cup {n} /\ n \notin DOMAIN emitted
  BY <1>2, <1>3, <1>8
<1>10. \A m \in DOMAIN emitted : m < n /\ m \in Numbers
  BY <1>2, <1>3, <1>8 DEF Numbers
<1>11. emitted' \in Seq(Recs) /\ Len(emitted') = n /\ emitted'[n] = rec
       /\ \A m \in DOMAIN emitted : emitted'[m] = emitted[m]
  BY <1>2, <1>8
<1> QED
  BY <1>2, <1>4, <1>7, <1>8, <1>9, <1>10, <1>11 DEF Recs

(* Where it is put.                                                         *)
LEMMA Puts ==
  ASSUME TypeOK, NEW t \in Types, EmitTo(t), NEW n, n = Len(emitted) + 1
  PROVE  /\ emitted'[n].retained \in BOOLEAN /\ emitted'[n].ringed \in BOOLEAN
         /\ notif' = IF emitted'[n].retained THEN Newest(Append(notif, n), NotifSize) ELSE notif
         /\ emitted'[n].retained => AppendLine(n) \/ AppendTorn(n)
         /\ ~emitted'[n].retained => UNCHANGED log
         /\ ring' = IF emitted'[n].ringed THEN Newest(Append(ring, n), RingSize) ELSE ring
         /\ emitted'[n].retained => t \in {"banner", "alert"}
         /\ Room # {} \/ t \notin {"banner", "notice"} => emitted'[n].ringed
<1> DEFINE delivered == Room # {}
           retained == IsNotification(t) /\ (t # "banner" \/ delivered)
           ringed == t \notin {"banner", "notice"} \/ delivered
           rec == [id |-> nextID + 1, type |-> t, life |-> restarts,
                   ringed |-> ringed, retained |-> retained]
           Recs == [id : Numbers, type : Types, life : 0..MaxRestarts,
                    ringed : BOOLEAN, retained : BOOLEAN]
<1>1. retained \in BOOLEAN /\ ringed \in BOOLEAN
  BY DEF IsNotification
<1>2. emitted \in Seq(Recs) /\ Len(emitted) \in Nat
  BY DEF TypeOK
<1>3. /\ emitted' = Append(emitted, rec)
      /\ notif' = IF retained THEN Newest(Append(notif, n), NotifSize) ELSE notif
      /\ IF retained THEN AppendLine(n) \/ AppendTorn(n) ELSE UNCHANGED log
      /\ ring' = IF ringed THEN Newest(Append(ring, n), RingSize) ELSE ring
  BY DEF EmitTo
<1>4. retained => t \in {"banner", "alert"}
  BY DEF IsNotification
<1>a. Room # {} \/ t \notin {"banner", "notice"} => ringed
  OBVIOUS
<1> HIDE DEF retained, ringed
<1>5. rec.retained = retained /\ rec.ringed = ringed
  OBVIOUS
<1> HIDE DEF rec, Recs
<1>6. emitted'[n] = rec
  BY <1>2, <1>3
<1> QED
  BY <1>1, <1>3, <1>4, <1>a, <1>5, <1>6

(* The log after an append: in order, and with nothing in it that was not   *)
(* there but the new line.                                                  *)
LEMMA LogGrows ==
  ASSUME TypeOK, IdInv, NEW n \in Numbers, \A m \in DOMAIN emitted : m < n,
         AppendLine(n) \/ AppendTorn(n)
  PROVE  /\ file' \in Seq(Numbers) /\ Ascending(file')
         /\ Elements(file') \subseteq Elements(file) \cup {n}
         /\ tail' \in {"closed", "garbage", "bare"} /\ appendCount' \in 0..(CompactEvery - 1)
         /\ tears' \in 0..MaxTears
<1>1. /\ file \in Seq(Numbers) /\ Ascending(file) /\ Len(file) \in Nat
      /\ appendCount \in 0..(CompactEvery - 1) /\ tears \in 0..MaxTears
      /\ tail \in {"closed", "garbage", "bare"} /\ MaxTears \in Nat
      /\ \A e \in Elements(file) : e < n
  BY SizesArePositive DEF TypeOK, IdInv, Retained
<1>2. /\ Append(file, n) \in Seq(Numbers) /\ Len(Append(file, n)) = Len(file) + 1
      /\ Elements(Append(file, n)) = Elements(file) \cup {n} /\ Ascending(Append(file, n))
  BY <1>1, Sizes, AppendFacts
<1>b. PICK butLast : butLast = ButLast(file)
  OBVIOUS
<1>3. butLast \in Seq(Numbers) /\ Len(butLast) <= Len(file)
      /\ Elements(butLast) \subseteq Elements(file) /\ Ascending(butLast)
  <2>1. Numbers \in SUBSET Nat /\ file \in Seq(Numbers) /\ Ascending(file)
    BY <1>1, Sizes
  <2> QED
    BY <1>b, <2>1, ButLastFacts
<1>4. PICK lines : lines = Lines(n)
  OBVIOUS
<1>5. /\ lines \in Seq(Numbers) /\ Len(lines) <= Len(file) + 1 /\ Len(lines) \in Nat
      /\ Elements(lines) \subseteq Elements(file) \cup {n} /\ Ascending(lines)
      /\ tail = "bare" => Len(lines) <= Len(file)
  <2>1. CASE tail = "closed"
    <3>1. lines = Append(file, n)
      BY <1>4, <2>1 DEF Lines
    <3> QED
      BY <1>1, <1>2, <2>1, <3>1
  <2>2. CASE tail = "bare"
    <3>1. lines = butLast /\ Len(butLast) \in Nat
      BY <1>3, <1>4, <1>b, <2>2 DEF Lines, ButLast
    <3> QED
      BY <1>1, <1>3, <2>2, <3>1
  <2>3. CASE tail = "garbage"
    <3>1. lines = file
      BY <1>4, <2>3 DEF Lines
    <3> QED
      BY <1>1, <2>3, <3>1
  <2> QED
    BY <1>1, <2>1, <2>2, <2>3
<1>6. CASE AppendLine(n)
  <2>1. /\ tail' = "closed" /\ tears' = tears
        /\ appendCount' = (appendCount + 1) % CompactEvery
        /\ file' \in {lines, Newest(lines, NotifSize)}
    BY <1>4, <1>6 DEF AppendLine
  <2>2. /\ Newest(lines, NotifSize) \in Seq(Numbers) /\ Ascending(Newest(lines, NotifSize))
        /\ Len(Newest(lines, NotifSize)) <= NotifSize
        /\ Elements(Newest(lines, NotifSize)) \subseteq Elements(lines)
    BY <1>5, Sizes, NewestFacts
  <2>3. appendCount' \in 0..(CompactEvery - 1)
    <3>1. CASE appendCount + 1 = CompactEvery
      BY <1>1, <2>1, <3>1, Sizes
    <3>2. CASE appendCount + 1 < CompactEvery
      BY <1>1, <2>1, <3>2, Sizes
    <3> QED
      BY <1>1, <3>1, <3>2, Sizes
  <2>4. CASE file' = lines
    BY <1>1, <1>5, <2>1, <2>3, <2>4
  <2>5. CASE file' = Newest(lines, NotifSize)
    BY <1>1, <1>5, <2>1, <2>2, <2>3, <2>5
  <2> QED
    BY <2>1, <2>4, <2>5
<1>7. CASE AppendTorn(n)
  <2>1. /\ tears' = tears + 1 /\ tears < MaxTears /\ appendCount' = appendCount
        /\ tail' \in {"closed", "garbage", "bare"}
    BY <1>1, <1>7 DEF AppendTorn
  <2>2. file' = file \/ file' = lines \/ file' = Append(file, n)
    BY <1>4, <1>7 DEF AppendTorn
  <2>3. /\ file' \in Seq(Numbers) /\ Ascending(file')
        /\ Elements(file') \subseteq Elements(file) \cup {n}
    <3>1. CASE file' = file
      BY <1>1, <3>1
    <3>2. CASE file' = lines
      BY <1>5, <3>2
    <3>3. CASE file' = Append(file, n)
      BY <1>1, <1>2, <3>3
    <3> QED
      BY <2>2, <3>1, <3>2, <3>3
  <2>4. tears' \in 0..MaxTears
    BY <1>1, <2>1
  <2> QED
    BY <1>1, <2>1, <2>3, <2>4
<1> QED
  BY <1>6, <1>7

(* The fields of the events so far, and the counters.                       *)
LEMMA EmittedTypes ==
  ASSUME TypeOK
  PROVE  /\ Len(emitted) \in Nat /\ DOMAIN emitted = 1..Len(emitted)
         /\ nextID \in Nat /\ restarts \in Nat /\ tears \in Nat
         /\ \A n \in DOMAIN emitted :
              /\ n \in Nat /\ n > 0 /\ ID(n) \in Numbers /\ ID(n) \in Nat /\ ID(n) > 0
              /\ Life(n) \in 0..MaxRestarts /\ Life(n) \in Nat
              /\ emitted[n].ringed \in BOOLEAN /\ emitted[n].retained \in BOOLEAN
<1> DEFINE Recs == [id : Numbers, type : Types, life : 0..MaxRestarts,
                    ringed : BOOLEAN, retained : BOOLEAN]
<1>1. emitted \in Seq(Recs)
  BY DEF TypeOK
<1>2. /\ Len(emitted) \in Nat /\ DOMAIN emitted = 1..Len(emitted)
      /\ \A n \in 1..Len(emitted) : emitted[n] \in Recs
  <2> HIDE DEF Recs
  <2> QED
    BY <1>1
<1>3. \A r \in Recs : /\ r.id \in Numbers /\ r.life \in 0..MaxRestarts
                      /\ r.ringed \in BOOLEAN /\ r.retained \in BOOLEAN
  OBVIOUS
<1> HIDE DEF Recs
<1>4. \A i \in Numbers : i \in Nat /\ i > 0
  BY SizesArePositive DEF Numbers
<1> QED
  <2>1. nextID \in Nat /\ restarts \in Nat /\ tears \in Nat
    BY SizesArePositive DEF TypeOK
  <2> QED
    BY <1>2, <1>3, <1>4, <2>1, SizesArePositive DEF ID, Life

(* Adding the newest event to a ring of k.                                  *)
LEMMA Pushed ==
  ASSUME NEW q \in Seq(Numbers), Ascending(q), NEW n \in Numbers, \A e \in Elements(q) : e < n,
         NEW k \in Nat \ {0}, NEW r, r = Newest(Append(q, n), k)
  PROVE  /\ r \in Seq(Numbers) /\ Len(r) <= k /\ Ascending(r)
         /\ Len(r) = IF Len(q) < k THEN Len(q) + 1 ELSE k
         /\ Elements(r) \subseteq Elements(q) \cup {n} /\ n \in Elements(r)
         /\ \A e \in Elements(q) \ Elements(r) : Len(r) = k /\ \A d \in Elements(r) : e < d
<1> DEFINE a == Append(q, n)
<1>1. a \in Seq(Numbers) /\ Elements(a) = Elements(q) \cup {n} /\ Ascending(a)
  BY AppendFacts, Sizes
<1>2. Len(a) \in Nat
  BY <1>1
<1>3. r = Newest(a, k)
  OBVIOUS
<1> HIDE DEF a
<1>4. /\ Newest(a, k) \in Seq(Numbers) /\ Len(Newest(a, k)) = IF Len(a) <= k THEN Len(a) ELSE k
      /\ Elements(Newest(a, k)) \subseteq Elements(a)
      /\ Ascending(Newest(a, k))
      /\ \A e \in Elements(a) \ Elements(Newest(a, k)) :
           Len(Newest(a, k)) = k /\ \A d \in Elements(Newest(a, k)) : e < d
  <2>1. a \in Seq(Numbers) /\ Ascending(a) /\ Numbers \in SUBSET Nat
    BY <1>1, Sizes
  <2> QED
    BY <2>1, NewestFacts
<1>5. /\ r \in Seq(Numbers) /\ Len(r) = (IF Len(a) <= k THEN Len(a) ELSE k)
      /\ Elements(r) \subseteq Elements(a) /\ Ascending(r)
  BY <1>3, <1>4
<1>6. \A e \in Elements(a) \ Elements(r) : Len(r) = k /\ \A d \in Elements(r) : e < d
  BY <1>3, <1>4
<1>7. n \in Elements(r)
  <2> SUFFICES ASSUME n \notin Elements(r) PROVE FALSE
    OBVIOUS
  <2>1. Len(r) = k /\ \A d \in Elements(r) : n < d
    BY <1>1, <1>6
  <2>2. r[1] \in Elements(r) /\ r[1] \in Numbers
    BY <1>5, <2>1 DEF Elements
  <2>3. r[1] < n \/ r[1] = n
    BY <1>1, <1>5, <2>2
  <2>4. n \in Nat /\ r[1] \in Nat /\ n < r[1]
    BY <2>1, <2>2, Sizes
  <2> QED
    BY <2>3, <2>4
<1>8. Len(r) <= k
  BY <1>2, <1>5
<1>9. Len(r) = IF Len(q) < k THEN Len(q) + 1 ELSE k
  <2>1. Len(a) = Len(q) + 1 /\ Len(q) \in Nat
    BY DEF a
  <2>2. CASE Len(q) < k
    BY <1>5, <2>1, <2>2
  <2>3. CASE ~(Len(q) < k)
    BY <1>5, <2>1, <2>3
  <2> QED
    BY <2>2, <2>3
<1> QED
  BY <1>1, <1>5, <1>6, <1>7, <1>8, <1>9

(* The rings after an emission.                                             *)
LEMMA RingsGrow ==
  ASSUME TypeOK, IdInv, RingInv, NEW t \in Types, EmitTo(t), NEW n, n = Len(emitted) + 1
  PROVE  /\ notif' \in Seq(Numbers) /\ Len(notif') <= NotifSize /\ Ascending(notif')
         /\ ring' \in Seq(Numbers) /\ Len(ring') <= RingSize /\ Ascending(ring')
         /\ emitted'[n].retained =>
              /\ n \in Elements(notif') /\ Elements(notif') \subseteq Elements(notif) \cup {n}
              /\ Len(notif) >= NotifSize => Len(notif') = NotifSize
              /\ \A e \in Elements(notif) \ Elements(notif') :
                   Len(notif') = NotifSize /\ \A d \in Elements(notif') : e < d
         /\ ~emitted'[n].retained => notif' = notif
         /\ emitted'[n].ringed =>
              n \in Elements(ring') /\ Elements(ring') \subseteq Elements(ring) \cup {n}
         /\ ~emitted'[n].ringed => ring' = ring
<1>1. /\ notif \in Seq(Numbers) /\ Ascending(notif) /\ Len(notif) <= NotifSize
      /\ ring \in Seq(Numbers) /\ Ascending(ring) /\ Len(ring) <= RingSize
  BY DEF TypeOK, IdInv, RingInv
<1>2. n \in Numbers /\ (\A e \in Elements(notif) : e < n) /\ (\A e \in Elements(ring) : e < n)
  BY Grows DEF IdInv, RingInv, Retained
<1>3. /\ emitted'[n].retained \in BOOLEAN /\ emitted'[n].ringed \in BOOLEAN
      /\ notif' = IF emitted'[n].retained THEN Newest(Append(notif, n), NotifSize) ELSE notif
      /\ ring' = IF emitted'[n].ringed THEN Newest(Append(ring, n), RingSize) ELSE ring
  BY Puts
<1>4. PICK no : no = notif'
  OBVIOUS
<1>5. PICK ri : ri = ring'
  OBVIOUS
<1>6. ASSUME emitted'[n].retained
      PROVE  /\ no \in Seq(Numbers) /\ Len(no) <= NotifSize /\ Ascending(no)
             /\ Elements(no) \subseteq Elements(notif) \cup {n} /\ n \in Elements(no)
             /\ \A e \in Elements(notif) \ Elements(no) : Len(no) = NotifSize /\ \A d \in Elements(no) : e < d
             /\ Len(notif) >= NotifSize => Len(no) = NotifSize
  <2>1. no = Newest(Append(notif, n), NotifSize)
    BY <1>3, <1>4, <1>6
  <2>2. Len(notif) \in Nat
    BY <1>1
  <2>3. /\ no \in Seq(Numbers) /\ Len(no) <= NotifSize /\ Ascending(no)
        /\ Len(no) = (IF Len(notif) < NotifSize THEN Len(notif) + 1 ELSE NotifSize)
        /\ Elements(no) \subseteq Elements(notif) \cup {n} /\ n \in Elements(no)
        /\ \A e \in Elements(notif) \ Elements(no) : Len(no) = NotifSize /\ \A d \in Elements(no) : e < d
    BY <1>1, <1>2, <2>1, Pushed, Sizes
  <2>4. Len(notif) >= NotifSize => Len(no) = NotifSize
    BY <2>2, <2>3, Sizes
  <2> QED
    BY <2>3, <2>4
<1>7. ASSUME emitted'[n].ringed
      PROVE  /\ ri \in Seq(Numbers) /\ Len(ri) <= RingSize /\ Ascending(ri)
             /\ Elements(ri) \subseteq Elements(ring) \cup {n} /\ n \in Elements(ri)
  <2>1. ri = Newest(Append(ring, n), RingSize)
    BY <1>3, <1>5, <1>7
  <2> QED
    BY <1>1, <1>2, <2>1, Pushed, Sizes
<1>8. (~emitted'[n].retained => notif' = notif) /\ (~emitted'[n].ringed => ring' = ring)
  BY <1>3
<1>9. notif' \in Seq(Numbers) /\ Len(notif') <= NotifSize /\ Ascending(notif')
  BY <1>1, <1>4, <1>6, <1>8
<1>10. ring' \in Seq(Numbers) /\ Len(ring') <= RingSize /\ Ascending(ring')
  BY <1>1, <1>5, <1>7, <1>8
<1> QED
  BY <1>4, <1>5, <1>6, <1>7, <1>8, <1>9, <1>10

(* The highest id in a part of the log is its last line's.                  *)
LEMMA HighestFacts ==
  ASSUME TypeOK, IdInv, NEW s \in Seq(Numbers), Ascending(s), Elements(s) \subseteq Elements(file)
  PROVE  /\ Highest(s) \in 0..Len(emitted)
         /\ \A n \in Elements(s) : ID(n) <= Highest(s)
<1>1. Len(s) \in Nat /\ DOMAIN s = 1..Len(s)
  OBVIOUS
<1>2. \A n \in Elements(file) : n \in DOMAIN emitted /\ Follows(n)
  BY DEF IdInv, Retained
<1>3. \A n \in DOMAIN emitted : ID(n) \in Nat /\ ID(n) \in 0..Len(emitted) /\ n \in Nat
  <2>1. \A n \in DOMAIN emitted : ID(n) \in Nat /\ ID(n) <= n /\ n \in 1..Len(emitted)
    BY EmittedTypes DEF IdInv
  <2> QED
    BY <2>1, EmittedTypes
<1>4. CASE s = <<>>
  <2>1. Highest(s) = 0 /\ Elements(s) = {}
    BY <1>1, <1>4 DEF Highest, Elements
  <2>2. Len(emitted) \in Nat
    BY DEF TypeOK
  <2> QED
    BY <2>1, <2>2
<1>5. CASE s # <<>>
  <2> DEFINE top == s[Len(s)]
  <2>1. Len(s) \in DOMAIN s
    BY <1>1, <1>5
  <2>2. top \in Elements(s) /\ top \in DOMAIN emitted
    BY <1>2, <2>1 DEF Elements
  <2>3. ASSUME NEW n \in Elements(s) PROVE ID(n) <= ID(top)
    <3>1. PICK i \in DOMAIN s : n = s[i]
      BY DEF Elements
    <3>2. i = Len(s) \/ s[i] < top
      BY <1>1, <2>1 DEF Ascending
    <3>3. n \in DOMAIN emitted /\ Follows(n)
      BY <1>2
    <3>4. CASE i = Len(s)
      BY <1>3, <3>1, <3>3, <3>4
    <3>5. CASE s[i] < top
      <4>1. ID(n) < ID(top)
        BY <2>2, <3>1, <3>3, <3>5 DEF Follows
      <4> QED
        BY <1>3, <2>2, <3>3, <4>1
    <3> QED
      BY <3>2, <3>4, <3>5
  <2> HIDE DEF top
  <2>4. PICK i : /\ i \in {ID(n) : n \in Elements(s)} /\ i = Highest(s)
                 /\ \A n \in Elements(s) : ID(n) <= i
    <3>1. \E i \in {ID(n) : n \in Elements(s)} : \A n \in Elements(s) : ID(n) <= i
      BY <2>2, <2>3
    <3> QED
      BY <1>5, <3>1 DEF Highest
  <2>5. i \in 0..Len(emitted)
    BY <1>2, <1>3, <2>4
  <2> QED
    BY <2>4, <2>5
<1> QED
  BY <1>4, <1>5

(* An emission leaves the ids in order that were.                           *)
LEMMA FollowsGrow ==
  ASSUME TypeOK, IdInv, RingInv, NEW t \in Types, EmitTo(t), NEW k, k = Len(emitted) + 1
  PROVE  /\ \A m \in Retained : ID(m) <= nextID /\ Follows(m) =>
              m \in Retained' /\ ID(m)' <= nextID' /\ Follows(m)'
         /\ ID(k)' <= nextID' /\ Follows(k)'
         /\ Retained' = IF emitted'[k].retained THEN Retained \cup {k} ELSE Retained
<1>2. /\ k \in Numbers /\ k \notin DOMAIN emitted /\ DOMAIN emitted' = DOMAIN emitted \cup {k}
      /\ \A m \in DOMAIN emitted : emitted'[m] = emitted[m] /\ m < k /\ m \in Numbers
      /\ emitted'[k].id = nextID + 1 /\ emitted'[k].life = restarts /\ nextID' = nextID + 1
      /\ Len(emitted') = k /\ k = Len(emitted) + 1
  BY Grows
<1>3. /\ nextID \in Nat /\ nextID <= Len(emitted) /\ Len(emitted) \in Nat /\ restarts' = restarts
      /\ restarts \in Nat /\ k \in Nat /\ MaxRestarts \in Nat
  <2>1. nextID \in Nat /\ Len(emitted) \in Nat /\ restarts \in Nat /\ MaxRestarts \in Nat
    BY EmittedTypes, SizesArePositive
  <2>2. nextID <= Len(emitted)
    BY <2>1 DEF TypeOK
  <2>3. restarts' = restarts
    BY DEF EmitTo
  <2> QED
    BY <1>2, <2>1, <2>2, <2>3
<1>4. /\ \A m \in DOMAIN emitted : ID(m)' = ID(m) /\ Life(m)' = Life(m) /\ m \in Nat
      /\ ID(k)' = nextID + 1 /\ Life(k)' = restarts
      /\ \A m \in Retained : m \in Retained'
      /\ emitted'[k].retained => k \in Retained'
  <2>1. \A m \in DOMAIN emitted : m \in Nat
    BY EmittedTypes
  <2> QED
    BY <1>2, <2>1 DEF ID, Life, Retained
<1>5. /\ \A m \in DOMAIN emitted : ID(m) \in Nat /\ Life(m) \in Nat
      /\ \A m \in DOMAIN emitted : ID(m) <= m /\ Life(m) <= restarts
  BY EmittedTypes DEF IdInv, RingInv
<1>6. \A m \in DOMAIN emitted' : ID(m)' <= m
  BY <1>2, <1>3, <1>4, <1>5
<1>7. ASSUME NEW m \in Retained, ID(m) <= nextID, Follows(m)
      PROVE  m \in Retained' /\ ID(m)' <= nextID' /\ Follows(m)'
  <2>1. m \in DOMAIN emitted /\ ID(m)' = ID(m) /\ ID(m) \in Nat
    BY <1>4, <1>5 DEF Retained
  <2>2. \A j \in DOMAIN emitted' : m < j => ID(m)' < ID(j)'
    BY <1>2, <1>3, <1>4, <1>7, <2>1 DEF Follows
  <2> QED
    BY <1>2, <1>3, <1>4, <1>7, <2>1, <2>2 DEF Follows
<1>8. ID(k)' <= nextID' /\ Follows(k)'
  <2>1. \A j \in DOMAIN emitted' : ~(k < j)
    BY <1>2, <1>3, <1>4
  <2> QED
    BY <1>2, <1>3, <1>4, <2>1 DEF Follows
<1>9. Retained' = IF emitted'[k].retained THEN Retained \cup {k} ELSE Retained
  <2>1. CASE emitted'[k].retained
    BY <1>2, <2>1 DEF Retained
  <2>2. CASE ~emitted'[k].retained
    BY <1>2, <2>2 DEF Retained
  <2> QED
    BY <2>1, <2>2
<1> QED
  BY <1>7, <1>8, <1>9

(* EmitTo preserves the id and ring parts.                                  *)
LEMMA EmitIds ==
  ASSUME TypeOK, IdInv, RingInv, NEW t \in Types, EmitTo(t)
  PROVE  IdInv' /\ RingInv'
<1> DEFINE n == Len(emitted) + 1
<1>1. PICK k : k = n
  OBVIOUS
<1> HIDE DEF n
<1>2. /\ k \in Numbers /\ k \notin DOMAIN emitted /\ DOMAIN emitted' = DOMAIN emitted \cup {k}
      /\ \A m \in DOMAIN emitted : emitted'[m] = emitted[m] /\ m < k /\ m \in Numbers
      /\ emitted'[k].id = nextID + 1 /\ emitted'[k].life = restarts /\ nextID' = nextID + 1
      /\ Len(emitted') = k /\ k = Len(emitted) + 1
  <2>1. k = Len(emitted) + 1
    BY <1>1 DEF n
  <2> QED
    BY <2>1, Grows
<1>3. /\ nextID \in Nat /\ nextID <= Len(emitted) /\ Len(emitted) \in Nat /\ restarts' = restarts
      /\ restarts \in Nat /\ k \in Nat /\ MaxRestarts \in Nat
  <2>1. nextID \in Nat /\ Len(emitted) \in Nat /\ restarts \in Nat /\ MaxRestarts \in Nat
    BY EmittedTypes, SizesArePositive
  <2>2. nextID <= Len(emitted)
    BY <2>1 DEF TypeOK
  <2>3. restarts' = restarts
    BY DEF EmitTo
  <2> QED
    BY <1>2, <2>1, <2>2, <2>3
<1>4. /\ \A m \in DOMAIN emitted : ID(m)' = ID(m) /\ Life(m)' = Life(m) /\ m \in Nat
      /\ ID(k)' = nextID + 1 /\ Life(k)' = restarts
      /\ \A m \in Retained : m \in Retained'
      /\ emitted'[k].retained => k \in Retained'
  <2>1. \A m \in DOMAIN emitted : m \in Nat
    BY EmittedTypes
  <2> QED
    BY <1>2, <2>1 DEF ID, Life, Retained
<1>5. /\ \A m \in DOMAIN emitted : ID(m) \in Nat /\ Life(m) \in Nat
      /\ \A m \in DOMAIN emitted : ID(m) <= m /\ Life(m) <= restarts
  BY EmittedTypes DEF IdInv, RingInv
<1>6. \A m \in DOMAIN emitted' : ID(m)' <= m
  BY <1>2, <1>3, <1>4, <1>5
<1>7. ASSUME NEW m \in Retained, ID(m) <= nextID, Follows(m)
      PROVE  m \in Retained' /\ ID(m)' <= nextID' /\ Follows(m)'
  BY <1>2, <1>7, FollowsGrow
<1>8. ID(k)' <= nextID' /\ Follows(k)'
  BY <1>2, FollowsGrow
<1>9. /\ notif' \in Seq(Numbers) /\ Ascending(notif') /\ Ascending(ring')
      /\ emitted'[k].retained => Elements(notif') \subseteq Elements(notif) \cup {k}
      /\ ~emitted'[k].retained => notif' = notif
      /\ emitted'[k].ringed => Elements(ring') \subseteq Elements(ring) \cup {k}
      /\ ~emitted'[k].ringed => ring' = ring
  BY <1>2, RingsGrow
<1>10. /\ Ascending(file')
       /\ emitted'[k].retained => Elements(file') \subseteq Elements(file) \cup {k}
       /\ ~emitted'[k].retained => file' = file
  <2>1. /\ emitted'[k].retained => AppendLine(k) \/ AppendTorn(k)
        /\ ~emitted'[k].retained => UNCHANGED log
    BY <1>2, Puts
  <2>2. CASE emitted'[k].retained
    BY <1>2, <2>1, <2>2, LogGrows
  <2>3. CASE ~emitted'[k].retained
    BY <2>1, <2>3 DEF log, IdInv
  <2> QED
    BY <2>2, <2>3
<1>11. \A m \in Elements(file') \cup Elements(notif') :
         m \in Retained' /\ ID(m)' <= nextID' /\ Follows(m)'
  <2>1. CASE emitted'[k].retained
    <3>1. ASSUME NEW m \in Elements(file') \cup Elements(notif')
          PROVE  m \in Retained' /\ ID(m)' <= nextID' /\ Follows(m)'
      <4>1. m = k \/ m \in Elements(file) \cup Elements(notif)
        BY <1>9, <1>10, <2>1
      <4>2. CASE m = k
        BY <1>4, <1>8, <2>1, <4>2
      <4>3. CASE m \in Elements(file) \cup Elements(notif)
        <5>1. m \in Retained /\ ID(m) <= nextID /\ Follows(m)
          BY <4>3 DEF IdInv
        <5> QED
          BY <1>7, <5>1
      <4> QED
        BY <4>1, <4>2, <4>3
    <3> QED
      BY <3>1
  <2>2. CASE ~emitted'[k].retained
    <3>1. ASSUME NEW m \in Elements(file') \cup Elements(notif')
          PROVE  m \in Retained' /\ ID(m)' <= nextID' /\ Follows(m)'
      <4>1. m \in Elements(file) \cup Elements(notif)
        BY <1>9, <1>10, <2>2
      <4>2. m \in Retained /\ ID(m) <= nextID /\ Follows(m)
        BY <4>1 DEF IdInv
      <4> QED
        BY <1>7, <4>2
    <3> QED
      BY <3>1
  <2> QED
    BY <2>1, <2>2
<1>12. IdInv'
  <2>1. Len(emitted') <= MaxEvents
    BY <1>2, SizesArePositive DEF Numbers
  <2> QED
    BY <1>6, <1>9, <1>10, <1>11, <2>1 DEF IdInv
<1>13. \A m \in DOMAIN emitted' :
         Life(m)' <= restarts' /\ (Life(m)' = restarts' => ID(m)' <= nextID')
  BY <1>2, <1>3, <1>4, <1>5 DEF RingInv
<1>14. \A i, j \in DOMAIN emitted' :
         i < j => Life(i)' <= Life(j)' /\ (Life(i)' = Life(j)' => ID(i)' < ID(j)')
  <2>1. ASSUME NEW i \in DOMAIN emitted', NEW j \in DOMAIN emitted', i < j
        PROVE  Life(i)' <= Life(j)' /\ (Life(i)' = Life(j)' => ID(i)' < ID(j)')
    <3>1. i \in DOMAIN emitted
      BY <1>2, <1>3, <1>4, <2>1
    <3>2. CASE j \in DOMAIN emitted
      BY <1>4, <2>1, <3>1, <3>2 DEF RingInv
    <3>3. CASE j = k
      <4>1. Life(i) <= restarts /\ (Life(i) = restarts => ID(i) <= nextID)
        BY <3>1 DEF RingInv
      <4> QED
        BY <1>3, <1>4, <1>5, <3>1, <3>3, <4>1
    <3> QED
      BY <1>2, <3>2, <3>3
  <2> QED
    BY <2>1
<1>15. \A m \in Elements(ring') : m \in DOMAIN emitted' /\ Life(m)' = restarts'
  <2>1. \A m \in Elements(ring) : m \in DOMAIN emitted' /\ Life(m)' = restarts'
    BY <1>2, <1>3, <1>4 DEF RingInv
  <2>2. k \in DOMAIN emitted' /\ Life(k)' = restarts'
    BY <1>2, <1>3, <1>4
  <2>3. emitted'[k].ringed \in BOOLEAN
    BY <1>2, Puts
  <2>4. CASE emitted'[k].ringed
    <3>1. Elements(ring') \subseteq Elements(ring) \cup {k}
      BY <1>9, <2>4
    <3> QED
      BY <2>1, <2>2, <3>1
  <2>5. CASE ~emitted'[k].ringed
    <3>1. ring' = ring
      BY <1>9, <2>5
    <3> QED
      BY <2>1, <3>1
  <2> QED
    BY <2>3, <2>4, <2>5
<1>16. RingInv'
  BY <1>9, <1>13, <1>14, <1>15 DEF RingInv
<1> QED
  BY <1>12, <1>16

(* What a restart loads: the newest NotifSize lines of the log, and an id   *)
(* at or above all of theirs.                                               *)
LEMMA RestoreFacts ==
  ASSUME TypeOK, IdInv, RestoreNotifications
  PROVE  /\ notif' \in Seq(Numbers) /\ Ascending(notif') /\ Len(notif') <= NotifSize
         /\ Elements(notif') \subseteq Elements(file) /\ file' \in {file, notif'}
         /\ \A e \in Elements(file) \ Elements(notif') :
              Len(file) > NotifSize /\ Len(notif') = NotifSize /\ \A d \in Elements(notif') : e < d
         /\ nextID' \in 0..Len(emitted) /\ \A m \in Elements(notif') : ID(m) <= nextID'
         /\ Len(notif') = IF Len(file) <= NotifSize THEN Len(file) ELSE NotifSize
<1>1. file \in Seq(Numbers) /\ Ascending(file) /\ Len(file) \in Nat
  BY DEF TypeOK, IdInv
<1>2. PICK f : f = notif'
  OBVIOUS
<1>3. f = Newest(file, NotifSize) /\ file' \in {file, f} /\ nextID' = Highest(f)
  BY <1>2 DEF RestoreNotifications
<1>4. /\ f \in Seq(Numbers) /\ Ascending(f) /\ Elements(f) \subseteq Elements(file)
      /\ Len(f) = (IF Len(file) <= NotifSize THEN Len(file) ELSE NotifSize)
      /\ \A e \in Elements(file) \ Elements(f) :
           Len(f) = NotifSize /\ \A d \in Elements(f) : e < d
  BY <1>1, <1>3, NewestFacts, Sizes
<1>5. Len(file) <= NotifSize => f = file
  BY <1>3 DEF Newest
<1>6. Len(f) <= NotifSize /\ \A e \in Elements(file) \ Elements(f) : Len(file) > NotifSize
  BY <1>1, <1>4, <1>5, Sizes
<1>7. Highest(f) \in 0..Len(emitted) /\ \A m \in Elements(f) : ID(m) <= Highest(f)
  BY <1>4, HighestFacts
<1> QED
  BY <1>2, <1>3, <1>4, <1>6, <1>7

(* A restart preserves the id and ring parts: no event is of the new life.  *)
LEMMA RestoreIds ==
  ASSUME TypeOK, IdInv, RingInv, RestoreNotifications
  PROVE  IdInv' /\ RingInv'
<1>1. /\ emitted' = emitted /\ restarts' = restarts + 1 /\ ring' = <<>> /\ appendCount' = 0
      /\ tears' = tears /\ tears \in Nat /\ restarts \in Nat
  BY SizesArePositive DEF RestoreNotifications, TypeOK
<1>2. Elements(ring') = {} /\ Ascending(ring')
  BY <1>1 DEF Elements, Ascending
<1>3. /\ Ascending(file') /\ Ascending(notif')
      /\ Elements(file') \cup Elements(notif') \subseteq Elements(file)
      /\ \A m \in Elements(file) : ID(m) <= nextID'
  <2>1. /\ file \in Seq(Numbers) /\ Ascending(file)
        /\ notif' \in Seq(Numbers) /\ Ascending(notif') /\ Len(notif') \in Nat
        /\ Elements(notif') \subseteq Elements(file) /\ file' \in {file, notif'}
        /\ \A e \in Elements(file) \ Elements(notif') :
             Len(notif') = NotifSize /\ \A d \in Elements(notif') : e < d
        /\ nextID' \in Nat /\ \A m \in Elements(notif') : ID(m) <= nextID'
    BY RestoreFacts DEF TypeOK, IdInv
  <2>2. ASSUME NEW e \in Elements(file) PROVE ID(e) <= nextID'
    <3>1. CASE e \in Elements(notif')
      BY <2>1, <3>1
    <3>2. CASE e \notin Elements(notif')
      <4>1. 1 \in DOMAIN notif'
        BY <2>1, <3>2, Sizes
      <4>2. PICK d \in Elements(notif') : e < d
        BY <2>1, <3>2, <4>1 DEF Elements
      <4>3. d \in DOMAIN emitted /\ e \in DOMAIN emitted /\ ID(e) < ID(d) /\ ID(d) <= nextID'
        BY <2>1, <4>2 DEF IdInv, Retained, Follows
      <4> QED
        BY <2>1, <4>3, EmittedTypes
    <3> QED
      BY <3>1, <3>2
  <2> QED
    BY <2>1, <2>2
<1>4. /\ \A m : ID(m)' = ID(m) /\ Life(m)' = Life(m) /\ (Follows(m) => Follows(m)')
      /\ Retained' = Retained
  BY <1>1 DEF ID, Life, Retained, Follows
<1>5. IdInv'
  <2>1. \A m \in Elements(file') \cup Elements(notif') :
          m \in Retained' /\ ID(m)' <= nextID' /\ Follows(m)'
    <3>1. \A m \in Elements(file) : m \in Retained /\ Follows(m)
      BY DEF IdInv
    <3> QED
      BY <1>3, <1>4, <3>1
  <2>3. \A m \in DOMAIN emitted' : ID(m)' <= m
    BY <1>1, <1>4 DEF IdInv
  <2>4. Ascending(file') /\ Ascending(notif')
    BY <1>3
  <2>5. Len(emitted') <= MaxEvents
    BY <1>1 DEF IdInv
  <2> QED
    BY <2>1, <2>3, <2>4, <2>5 DEF IdInv
<1>6. RingInv'
  <2>1. \A m \in DOMAIN emitted' : Life(m)' < restarts'
    BY <1>1, <1>4, EmittedTypes DEF RingInv
  <2>2. \A m \in DOMAIN emitted' : Life(m)' <= restarts' /\ (Life(m)' = restarts' => ID(m)' <= nextID')
    BY <1>1, <1>4, <2>1, EmittedTypes
  <2>3. \A i, j \in DOMAIN emitted' :
          i < j => Life(i)' <= Life(j)' /\ (Life(i)' = Life(j)' => ID(i)' < ID(j)')
    BY <1>1, <1>4 DEF RingInv
  <2> QED
    BY <1>2, <2>2, <2>3 DEF RingInv
<1> QED
  BY <1>5, <1>6

(* So does every step that leaves the events, the rings and the log alone.  *)
LEMMA QuietIds ==
  ASSUME TypeOK, IdInv, RingInv,
         UNCHANGED <<emitted, nextID, ring, notif, file, appendCount, tears, restarts>>
  PROVE  IdInv' /\ RingInv'
  BY DEF IdInv, RingInv, ID, Life, Retained, Follows

-----------------------------------------------------------------------------
(* Types                                                                   *)

(* Above keeps what has a higher id, in order.                              *)
LEMMA AboveFacts ==
  ASSUME NEW q \in Seq(Numbers), NEW i
  PROVE  /\ Above(i, q) \in Seq(Numbers)
         /\ Elements(Above(i, q)) = {n \in Elements(q) : n \in DOMAIN emitted /\ ID(n) > i}
         /\ Ascending(q) => Ascending(Above(i, q))
<1> DEFINE S == {n \in DOMAIN emitted : ID(n) > i}
<1>1. Above(i, q) = Kept(q, S)
  BY DEF Above
<1>2. Elements(q) \cap S = {n \in Elements(q) : n \in DOMAIN emitted /\ ID(n) > i}
  OBVIOUS
<1> HIDE DEF S
<1>3. /\ Kept(q, S) \in Seq(Numbers)
      /\ Elements(Kept(q, S)) = Elements(q) \cap S
      /\ Ascending(q) => Ascending(Kept(q, S))
  BY Sizes, KeptFacts
<1> QED
  BY <1>1, <1>2, <1>3

(* The replay a client is given.                                            *)
LEMMA MissedFacts ==
  ASSUME TypeOK, RingInv, NEW c \in Clients
  PROVE  /\ Missed(c) \in Seq(Numbers) /\ Ascending(Missed(c))
         /\ Elements(Missed(c)) =
              IF last[c] = 0 \/ ID(last[c]) >= nextID THEN {}
              ELSE {n \in Elements(ring) : n \in DOMAIN emitted /\ ID(n) > ID(last[c])}
<1>1. CASE last[c] = 0 \/ ID(last[c]) >= nextID
  <2>1. Missed(c) = <<>>
    BY <1>1 DEF Missed
  <2> QED
    BY <1>1, <2>1 DEF Elements, Ascending
<1>2. CASE ~(last[c] = 0 \/ ID(last[c]) >= nextID)
  <2>1. Missed(c) = Above(ID(last[c]), ring)
    BY <1>2 DEF Missed
  <2>2. ring \in Seq(Numbers) /\ Ascending(ring)
    BY DEF TypeOK, RingInv
  <2>3. /\ Above(ID(last[c]), ring) \in Seq(Numbers)
        /\ Elements(Above(ID(last[c]), ring))
             = {n \in Elements(ring) : n \in DOMAIN emitted /\ ID(n) > ID(last[c])}
        /\ Ascending(Above(ID(last[c]), ring))
    BY <2>2, AboveFacts
  <2> QED
    BY <1>2, <2>1, <2>3
<1> QED
  BY <1>1, <1>2

(* The channels after an emission.                                          *)
LEMMA ChannelsGrow ==
  ASSUME TypeOK, NEW t \in Types, EmitTo(t), NEW n, n = Len(emitted) + 1, NEW c \in Clients
  PROVE  /\ ch'[c] \in Seq(Numbers) /\ Len(ch'[c]) <= BufSize
         /\ c \in Room => /\ Elements(ch'[c]) = Elements(ch[c]) \cup {n}
                          /\ Ascending(ch[c]) /\ (\A e \in Elements(ch[c]) : e < n) => Ascending(ch'[c])
         /\ c \notin Room => ch'[c] = ch[c]
         /\ excused'[c] = IF c \in conn \ Room THEN excused[c] \cup {n} ELSE excused[c]
<1>1. n \in Numbers /\ ch[c] \in Seq(Numbers) /\ Len(ch[c]) <= BufSize /\ Len(ch[c]) \in Nat
  <2>1. n \in Numbers
    BY Grows
  <2>2. ch[c] \in Seq(Numbers) /\ Len(ch[c]) <= BufSize
    BY DEF TypeOK
  <2> QED
    BY <2>1, <2>2
<1>2. /\ ch'[c] = (IF c \in Room THEN Append(ch[c], n) ELSE ch[c])
      /\ excused'[c] = IF c \in conn \ Room THEN excused[c] \cup {n} ELSE excused[c]
  BY DEF EmitTo
<1>3. PICK q \in Seq(Numbers) : q = ch[c]
  BY <1>1
<1>4. PICK r : r = ch'[c]
  OBVIOUS
<1>5. CASE c \in Room
  <2>1. Len(q) < BufSize
    BY <1>3, <1>5 DEF Room
  <2>2. r = Append(q, n)
    BY <1>2, <1>3, <1>4, <1>5
  <2>3. /\ r \in Seq(Numbers) /\ Len(r) = Len(q) + 1 /\ Elements(r) = Elements(q) \cup {n}
        /\ Ascending(q) /\ (\A e \in Elements(q) : e < n) => Ascending(r)
    BY <1>1, <2>2, AppendFacts, Sizes
  <2>4. Len(r) <= BufSize
    BY <1>1, <1>3, <2>1, <2>3, Sizes
  <2> QED
    BY <1>2, <1>3, <1>4, <1>5, <2>3, <2>4
<1>6. CASE c \notin Room
  BY <1>1, <1>2, <1>6
<1> QED
  BY <1>5, <1>6

(* The types, kind of step by kind of step: the emission.                   *)
LEMMA EmitTypes ==
  ASSUME TypeOK, IdInv, RingInv, NEW t \in Types, EmitTo(t)
  PROVE  TypeOK'
<1>1. PICK n : n = Len(emitted) + 1
  OBVIOUS
<1>2. /\ n \in Numbers /\ Len(emitted') = n /\ nextID' = nextID + 1
      /\ \A m \in DOMAIN emitted : m < n
      /\ emitted' \in Seq([id : Numbers, type : Types, life : 0..MaxRestarts,
                           ringed : BOOLEAN, retained : BOOLEAN])
  BY <1>1, Grows
<1>3. nextID' \in 0..Len(emitted') /\ asOf' \in 0..Len(emitted')
  BY <1>1, <1>2 DEF TypeOK, EmitTo, poller
<1>4. /\ ring' \in Seq(Numbers) /\ Len(ring') <= RingSize
      /\ notif' \in Seq(Numbers) /\ Len(notif') <= NotifSize
  BY <1>1, RingsGrow
<1>5. /\ file' \in Seq(Numbers)
      /\ tail' \in {"closed", "garbage", "bare"} /\ appendCount' \in 0..(CompactEvery - 1)
      /\ tears' \in 0..MaxTears
  <2>1. /\ emitted'[n].retained => AppendLine(n) \/ AppendTorn(n)
        /\ ~emitted'[n].retained => UNCHANGED log
    BY <1>1, Puts
  <2>2. CASE emitted'[n].retained
    BY <1>2, <2>1, <2>2, LogGrows
  <2>3. CASE ~emitted'[n].retained
    BY <2>1, <2>3 DEF log, IdInv, TypeOK
  <2> QED
    BY <2>2, <2>3
<1>7. /\ ch' \in [Clients -> Seq(Numbers)] /\ \A c \in Clients : Len(ch'[c]) <= BufSize
      /\ excused' \in [Clients -> SUBSET Numbers]
  <2>1. DOMAIN ch' = Clients /\ ch' = [c \in Clients |-> ch'[c]]
        /\ excused' = [c \in Clients |-> excused'[c]]
    BY DEF EmitTo
  <2>2. \A c \in Clients : ch'[c] \in Seq(Numbers) /\ Len(ch'[c]) <= BufSize
    BY <1>1, ChannelsGrow
  <2>3. \A c \in Clients : excused'[c] \in SUBSET Numbers
    <3>1. excused \in [Clients -> SUBSET Numbers]
      BY DEF TypeOK
    <3>2. \A c \in Clients : excused'[c] = excused[c] \cup {n} \/ excused'[c] = excused[c]
      BY <1>1, ChannelsGrow
    <3> QED
      BY <1>2, <3>1, <3>2
  <2> QED
    BY <2>1, <2>2, <2>3
<1>8. UNCHANGED <<conn, pend, last, cursor, polled, restarts>>
  BY DEF EmitTo, poller
<1> QED
  BY <1>2, <1>3, <1>4, <1>5, <1>7, <1>8 DEF TypeOK

(* The clients' steps.                                                      *)
LEMMA ClientTypes ==
  ASSUME TypeOK, IdInv, RingInv, NEW c \in Clients,
         SubscribeWithReplay(c) \/ Receive(c) \/ Unsubscribe(c)
  PROVE  TypeOK'
<1>1. UNCHANGED <<emitted, nextID, ring, notif, log, poller, restarts>>
  BY DEF SubscribeWithReplay, Receive, Unsubscribe
<1>2. /\ conn' \subseteq Clients /\ pend' \in [Clients -> Seq(Numbers)]
      /\ ch' \in [Clients -> Seq(Numbers)] /\ \A d \in Clients : Len(ch'[d]) <= BufSize
      /\ last' \in [Clients -> 0..MaxEvents] /\ excused' \in [Clients -> SUBSET Numbers]
  <2>0. /\ conn \subseteq Clients /\ pend \in [Clients -> Seq(Numbers)]
        /\ ch \in [Clients -> Seq(Numbers)] /\ \A d \in Clients : Len(ch[d]) <= BufSize
        /\ last \in [Clients -> 0..MaxEvents] /\ excused \in [Clients -> SUBSET Numbers]
        /\ <<>> \in Seq(Numbers) /\ Len(<<>>) <= BufSize /\ MaxEvents \in Nat
    <3>1. <<>> \in Seq(Numbers) /\ Len(<<>>) <= BufSize /\ MaxEvents \in Nat
      BY Sizes, SizesArePositive
    <3> QED
      BY <3>1 DEF TypeOK
  <2>1. CASE SubscribeWithReplay(c)
    <3>1. Missed(c) \in Seq(Numbers)
      BY MissedFacts
    <3>2. (last[c] + 1) .. Len(emitted) \subseteq Numbers
      <4>1. last[c] \in Nat /\ Len(emitted) \in Nat /\ Len(emitted) <= MaxEvents
        BY <2>0, EmittedTypes DEF IdInv
      <4> QED
        BY <2>0, <4>1 DEF Numbers
    <3>3. /\ conn' = conn \cup {c} /\ pend' = [pend EXCEPT ![c] = Missed(c)]
          /\ ch' = [ch EXCEPT ![c] = <<>>] /\ last' = last
          /\ excused' = [excused EXCEPT ![c] = @ \cup ((last[c] + 1) .. Len(emitted) \ Elements(ring))]
      BY <2>1 DEF SubscribeWithReplay
    <3>4. pend' \in [Clients -> Seq(Numbers)] /\ conn' \subseteq Clients
      BY <2>0, <3>1, <3>3
    <3>5. ch' \in [Clients -> Seq(Numbers)] /\ \A d \in Clients : Len(ch'[d]) <= BufSize
      BY <2>0, <3>3
    <3>6. excused' \in [Clients -> SUBSET Numbers]
      BY <2>0, <3>2, <3>3
    <3> QED
      BY <2>0, <3>3, <3>4, <3>5, <3>6
  <2>2. CASE Receive(c)
    <3>1. /\ conn' = conn
          /\ excused' = [excused EXCEPT ![c] = {n \in @ : n > last'[c]}]
      BY <2>2 DEF Receive
    <3>2. excused' \in [Clients -> SUBSET Numbers]
      BY <2>0, <3>1
    <3>3. \A q \in Seq(Numbers) : q # <<>> =>
            /\ Head(q) \in 0..MaxEvents /\ Tail(q) \in Seq(Numbers) /\ Len(Tail(q)) <= Len(q)
      <4>1. ASSUME NEW q \in Seq(Numbers), q # <<>>
            PROVE  Head(q) \in 0..MaxEvents /\ Tail(q) \in Seq(Numbers) /\ Len(Tail(q)) <= Len(q)
        <5>1. Head(q) \in Numbers /\ Tail(q) \in Seq(Numbers) /\ Len(Tail(q)) = Len(q) - 1 /\ Len(q) \in Nat
          BY <4>1, Sizes, TailFacts
        <5> QED
          BY <5>1 DEF Numbers
      <4> QED
        BY <4>1
    <3>4. CASE /\ pend[c] # <<>> /\ last' = [last EXCEPT ![c] = Head(pend[c])]
               /\ pend' = [pend EXCEPT ![c] = Tail(@)] /\ UNCHANGED ch
      <4>1. Head(pend[c]) \in 0..MaxEvents /\ Tail(pend[c]) \in Seq(Numbers)
        BY <2>0, <3>3, <3>4
      <4> QED
        BY <2>0, <3>1, <3>2, <3>4, <4>1
    <3>5. CASE /\ ch[c] # <<>> /\ last' = [last EXCEPT ![c] = Head(ch[c])]
               /\ ch' = [ch EXCEPT ![c] = Tail(@)] /\ UNCHANGED pend
      <4>1. /\ Head(ch[c]) \in 0..MaxEvents /\ Tail(ch[c]) \in Seq(Numbers)
            /\ Len(Tail(ch[c])) <= BufSize
        <5>1. /\ Head(ch[c]) \in 0..MaxEvents /\ Tail(ch[c]) \in Seq(Numbers)
              /\ Len(Tail(ch[c])) <= Len(ch[c]) /\ Len(ch[c]) <= BufSize
              /\ Len(ch[c]) \in Nat /\ Len(Tail(ch[c])) \in Nat
          BY <2>0, <3>3, <3>5
        <5> QED
          BY <5>1, Sizes
      <4> QED
        BY <2>0, <3>1, <3>2, <3>5, <4>1
    <3> QED
      BY <2>2, <3>4, <3>5 DEF Receive
  <2>3. CASE Unsubscribe(c)
    <3>1. /\ conn' = conn \ {c} /\ pend' = [pend EXCEPT ![c] = <<>>]
          /\ ch' = [ch EXCEPT ![c] = <<>>] /\ last' = last /\ excused' = excused
      BY <2>3 DEF Unsubscribe
    <3> QED
      BY <2>0, <3>1
  <2> QED
    BY <2>1, <2>2, <2>3
<1> QED
  BY <1>1, <1>2 DEF TypeOK, log, poller

(* The poll.                                                                *)
LEMMA PollTypes ==
  ASSUME TypeOK, IdInv, RingInv, Notifications
  PROVE  TypeOK'
<1>1. PICK q : q = Above(cursor, notif)
  OBVIOUS
<1>2. q \in Seq(Numbers) /\ Elements(q) \subseteq DOMAIN emitted
  BY <1>1, AboveFacts DEF TypeOK
<1>3. /\ cursor' = IF q = <<>> THEN cursor ELSE ID(q[Len(q)])
      /\ polled' = polled \o q /\ asOf' = Len(emitted)
      /\ UNCHANGED <<emitted, nextID, ring, notif, sse, log, restarts>>
  BY <1>1 DEF Notifications
<1>4. polled' \in Seq(Numbers)
  BY <1>2, <1>3 DEF TypeOK
<1>5. cursor' \in 0..MaxEvents
  <2>1. CASE q = <<>>
    BY <1>3, <2>1 DEF TypeOK
  <2>2. CASE q # <<>>
    <3>1. Len(q) \in DOMAIN q
      BY <1>2, <2>2
    <3>2. q[Len(q)] \in DOMAIN emitted
      BY <1>2, <3>1 DEF Elements
    <3>3. ID(q[Len(q)]) \in Numbers
      BY <3>2, EmittedTypes
    <3> QED
      BY <1>3, <2>2, <3>3 DEF Numbers
  <2> QED
    BY <2>1, <2>2
<1>6. asOf' \in 0..Len(emitted)
  BY <1>3, EmittedTypes
<1> QED
  BY <1>3, <1>4, <1>5, <1>6 DEF TypeOK, sse, log

(* The restart.                                                             *)
LEMMA RestoreTypes ==
  ASSUME TypeOK, IdInv, RingInv, RestoreNotifications
  PROVE  TypeOK'
<1>1. /\ file' \in Seq(Numbers) /\ notif' \in Seq(Numbers) /\ Len(notif') <= NotifSize
      /\ nextID' \in 0..Len(emitted)
  BY RestoreFacts DEF TypeOK
<1>2. /\ emitted' = emitted /\ ring' = <<>> /\ appendCount' = 0 /\ conn' = {}
      /\ pend' = [c \in Clients |-> <<>>] /\ ch' = [c \in Clients |-> <<>>]
      /\ restarts < MaxRestarts /\ restarts' = restarts + 1
      /\ UNCHANGED <<last, excused, cursor, polled, asOf, tears>>
      /\ tail' \in {"closed", tail}
  BY DEF RestoreNotifications, poller
<1>3. /\ ring' \in Seq(Numbers) /\ Len(ring') <= RingSize
      /\ pend' \in [Clients -> Seq(Numbers)] /\ ch' \in [Clients -> Seq(Numbers)]
      /\ \A c \in Clients : Len(ch'[c]) <= BufSize
  BY <1>2, Sizes
<1>4. restarts' \in 0..MaxRestarts /\ appendCount' \in 0..(CompactEvery - 1)
  BY <1>2, Sizes, SizesArePositive DEF TypeOK
<1>6. tail' \in {"closed", "garbage", "bare"}
  BY <1>2 DEF TypeOK
<1>7. nextID' \in 0..Len(emitted') /\ asOf' \in 0..Len(emitted')
  BY <1>1, <1>2 DEF TypeOK
<1> QED
  BY <1>1, <1>2, <1>3, <1>4, <1>6, <1>7 DEF TypeOK

(* Every step preserves the types, the id part and the ring part.           *)
LEMMA BaseStep ==
  ASSUME TypeOK, IdInv, RingInv, [Next]_vars
  PROVE  TypeOK' /\ IdInv' /\ RingInv'
<1>1. CASE \E t \in Types : EmitTo(t)
  BY <1>1, EmitIds, EmitTypes
<1>2. CASE \E c \in Clients : SubscribeWithReplay(c) \/ Receive(c) \/ Unsubscribe(c)
  <2>1. UNCHANGED <<emitted, nextID, ring, notif, file, appendCount, tears, restarts>>
    BY <1>2 DEF SubscribeWithReplay, Receive, Unsubscribe, log
  <2> QED
    BY <1>2, <2>1, QuietIds, ClientTypes
<1>3. CASE Notifications
  <2>1. UNCHANGED <<emitted, nextID, ring, notif, file, appendCount, tears, restarts>>
    BY <1>3 DEF Notifications, log
  <2> QED
    BY <1>3, <2>1, QuietIds, PollTypes
<1>4. CASE RestoreNotifications
  BY <1>4, RestoreIds, RestoreTypes
<1>5. CASE UNCHANGED vars
  <2>1. UNCHANGED <<emitted, nextID, ring, notif, file, appendCount, tears, restarts>>
    BY <1>5 DEF vars, log
  <2>2. TypeOK'
    BY <1>5 DEF TypeOK, vars, sse, log, poller
  <2> QED
    BY <2>1, <2>2, QuietIds
<1> QED
  BY <1>1, <1>2, <1>3, <1>4, <1>5 DEF Next

(* They hold at the start.                                                  *)
LEMMA BaseInit == Init => TypeOK /\ IdInv /\ RingInv
<1> SUFFICES ASSUME Init PROVE TypeOK /\ IdInv /\ RingInv
  OBVIOUS
<1>1. /\ emitted = <<>> /\ file = <<>> /\ notif = <<>> /\ ring = <<>> /\ polled = <<>>
      /\ DOMAIN emitted = {} /\ DOMAIN file = {} /\ DOMAIN notif = {} /\ DOMAIN ring = {}
      /\ Len(emitted) = 0
  BY DEF Init
<1>2. Elements(file) = {} /\ Elements(notif) = {} /\ Elements(ring) = {}
  BY <1>1 DEF Elements
<1>3. TypeOK
  BY SizesArePositive DEF TypeOK, Init, Numbers
<1>4. IdInv
  BY <1>1, <1>2, SizesArePositive DEF IdInv, Init, Ascending
<1>5. RingInv
  BY <1>1, <1>2 DEF RingInv, Ascending
<1> QED
  BY <1>3, <1>4, <1>5

(* TypeOK holds of every value of the constants: the rings and the channels *)
(* stay within the sizes the code gives them.                               *)
THEOREM TypeCorrect == Spec => []TypeOK
<1>1. Spec => [](TypeOK /\ IdInv /\ RingInv)
  BY BaseInit, BaseStep, PTL DEF Spec
<1> QED
  BY <1>1, PTL

-----------------------------------------------------------------------------
(* The stream                                                              *)

(* The empty sequence has no elements and ascends.                          *)
LEMMA EmptySeq == Elements(<<>>) = {} /\ Ascending(<<>>)
<1>1. DOMAIN <<>> = {}
  OBVIOUS
<1> QED
  BY <1>1 DEF Elements, Ascending

(* An event sent to the clients with room, and excused for those without.   *)
LEMMA EmitClients ==
  ASSUME TypeOK, IdInv, RingInv, ClientInv, GapInv, NEW t \in Types, EmitTo(t), NEW c \in Clients
  PROVE  InOrder(c)' /\ (c \in conn => NoGap(c)')
<1>1. PICK n : n = Len(emitted) + 1
  OBVIOUS
<1>2. /\ n \notin DOMAIN emitted /\ DOMAIN emitted' = DOMAIN emitted \cup {n} /\ Len(emitted') = n
      /\ \A m \in DOMAIN emitted : emitted'[m] = emitted[m] /\ m < n
  BY <1>1, Grows
<1>3. pend' = pend /\ last' = last /\ conn' = conn
  BY DEF EmitTo
<1>4. /\ c \in Room => /\ Elements(ch'[c]) = Elements(ch[c]) \cup {n}
                       /\ Ascending(ch[c]) /\ (\A e \in Elements(ch[c]) : e < n) => Ascending(ch'[c])
      /\ c \notin Room => ch'[c] = ch[c]
      /\ excused'[c] = IF c \in conn \ Room THEN excused[c] \cup {n} ELSE excused[c]
  BY <1>1, ChannelsGrow
<1>5. /\ last[c] \in 0..Len(emitted) /\ Ascending(pend[c]) /\ Ascending(ch[c])
      /\ \A e \in Elements(pend[c]) \cup Elements(ch[c]) : e \in DOMAIN emitted /\ last[c] < e
      /\ \A e \in Elements(pend[c]), d \in Elements(ch[c]) : e < d
  BY DEF ClientInv, InOrder
<1>6. last[c] \in 0..Len(emitted') /\ last[c] < n
  BY <1>1, <1>2, <1>5, EmittedTypes
<1>7. Elements(ch'[c]) \subseteq Elements(ch[c]) \cup {n} /\ Ascending(ch'[c])
      /\ Elements(ch[c]) \subseteq Elements(ch'[c])
  BY <1>2, <1>4, <1>5
<1>8. InOrder(c)'
  <2>1. \A e \in Elements(pend'[c]) \cup Elements(ch'[c]) : e \in DOMAIN emitted' /\ last'[c] < e
    BY <1>2, <1>3, <1>5, <1>6, <1>7
  <2>2. \A e \in Elements(pend'[c]), d \in Elements(ch'[c]) : e < d
    BY <1>2, <1>3, <1>5, <1>7
  <2>3. last'[c] \in 0..Len(emitted') /\ Ascending(pend'[c]) /\ Ascending(ch'[c])
    BY <1>3, <1>5, <1>6, <1>7
  <2> QED
    BY <2>1, <2>2, <2>3 DEF InOrder
<1>9. ASSUME c \in conn PROVE NoGap(c)'
  <2>1. OnTheWay(c) \subseteq OnTheWay(c)' /\ excused[c] \subseteq excused'[c]
    BY <1>3, <1>4, <1>7 DEF OnTheWay
  <2>2. n \in OnTheWay(c)' \cup excused'[c]
    BY <1>4, <1>9 DEF OnTheWay
  <2>3. OnTheWay(c)' \subseteq OnTheWay(c) \cup {n}
    BY <1>3, <1>7 DEF OnTheWay
  <2>4. ({last[c]} \ {0}) \cup OnTheWay(c) \subseteq DOMAIN emitted
    <3>1. last[c] # 0 => last[c] \in DOMAIN emitted
      BY <1>5, EmittedTypes
    <3> QED
      BY <1>5, <3>1 DEF OnTheWay
  <2>5. ASSUME NEW e \in ({last'[c]} \ {0}) \cup OnTheWay(c)', NEW m \in DOMAIN emitted',
               e < m, emitted'[m].ringed, Life(m)' = Life(e)'
        PROVE  m \in OnTheWay(c)' \cup excused'[c]
    <3>1. CASE m = n
      BY <2>2, <3>1
    <3>2. CASE m \in DOMAIN emitted
      <4>1. m < n /\ m \in Nat /\ n \in Nat
        BY <1>1, <1>2, <3>2, EmittedTypes
      <4>2. e # n
        BY <2>5, <4>1
      <4>3. e \in ({last[c]} \ {0}) \cup OnTheWay(c)
        BY <1>3, <2>3, <2>5, <4>2
      <4>4. e \in DOMAIN emitted
        BY <2>4, <4>3
      <4>5. emitted[m].ringed /\ Life(m) = Life(e)
        BY <1>2, <2>5, <3>2, <4>4 DEF Life
      <4>6. m \in OnTheWay(c) \cup excused[c]
        BY <1>9, <2>5, <3>2, <4>3, <4>5 DEF GapInv, NoGap
      <4> QED
        BY <2>1, <4>6
    <3> QED
      BY <1>2, <3>1, <3>2
  <2> QED
    BY <2>5 DEF NoGap
<1> QED
  BY <1>8, <1>9

(* The replay continues where the client is: an event of the ring with a    *)
(* higher id than the last it received is a later one, since ids ascend     *)
(* within a life.                                                           *)
LEMMA SubscribeClients ==
  ASSUME TypeOK, IdInv, RingInv, ClientInv, NEW c \in Clients, SubscribeWithReplay(c)
  PROVE  InOrder(c)' /\ NoGap(c)'
<1>1. PICK q : q = Missed(c)
  OBVIOUS
<1>2. /\ q \in Seq(Numbers) /\ Ascending(q)
      /\ Elements(q) = IF last[c] = 0 \/ ID(last[c]) >= nextID THEN {}
                       ELSE {n \in Elements(ring) : n \in DOMAIN emitted /\ ID(n) > ID(last[c])}
  BY <1>1, MissedFacts
<1>3. /\ pend'[c] = q /\ ch'[c] = <<>> /\ last' = last /\ emitted' = emitted
      /\ excused'[c] = excused[c] \cup ((last[c] + 1) .. Len(emitted) \ Elements(ring))
  BY <1>1 DEF SubscribeWithReplay, TypeOK
<1>4. Elements(ch'[c]) = {} /\ Ascending(ch'[c])
  BY <1>3, EmptySeq
<1>5. last[c] \in 0..Len(emitted) /\ (last[c] # 0 => last[c] \in DOMAIN emitted)
  BY EmittedTypes DEF ClientInv, InOrder
<1>6. ASSUME NEW e \in Elements(q) PROVE e \in DOMAIN emitted /\ last[c] < e
  <2>1. /\ e \in Elements(ring) /\ e \in DOMAIN emitted /\ ID(e) > ID(last[c])
        /\ last[c] # 0 /\ last[c] \in DOMAIN emitted
    BY <1>2, <1>5, <1>6
  <2>2. /\ e \in Nat /\ last[c] \in Nat /\ ID(e) \in Nat /\ ID(last[c]) \in Nat
        /\ Life(e) \in Nat /\ Life(last[c]) \in Nat /\ restarts \in Nat
    BY <2>1, EmittedTypes
  <2>3. ASSUME e < last[c] PROVE FALSE
    <3>1. /\ Life(e) <= Life(last[c]) /\ (Life(e) = Life(last[c]) => ID(e) < ID(last[c]))
          /\ Life(e) = restarts /\ Life(last[c]) <= restarts
      BY <2>1, <2>3 DEF RingInv
    <3> QED
      BY <2>1, <2>2, <3>1
  <2> QED
    BY <2>1, <2>2, <2>3
<1>7. InOrder(c)'
  BY <1>2, <1>3, <1>4, <1>5, <1>6 DEF InOrder
<1>8. OnTheWay(c)' = Elements(q)
  BY <1>3, <1>4 DEF OnTheWay
<1>9. ASSUME NEW e \in ({last[c]} \ {0}) \cup Elements(q), NEW n \in DOMAIN emitted,
             e < n, Life(n) = Life(e)
      PROVE  n \in Elements(q) \cup excused'[c]
  <2>1. e \in DOMAIN emitted /\ last[c] # 0 /\ (e = last[c] \/ last[c] < e) /\ last[c] \in DOMAIN emitted
    BY <1>2, <1>5, <1>6, <1>9
  <2>2. /\ n \in Nat /\ e \in Nat /\ last[c] \in Nat /\ ID(n) \in Nat /\ ID(e) \in Nat
        /\ ID(last[c]) \in Nat /\ n \in 1..Len(emitted) /\ Len(emitted) \in Nat /\ nextID \in Nat
    BY <2>1, EmittedTypes
  <2>3. last[c] < n
    BY <1>9, <2>1, <2>2
  <2>4. CASE n \notin Elements(ring)
    BY <1>3, <2>2, <2>3, <2>4
  <2>5. CASE n \in Elements(ring)
    <3>1. ID(e) < ID(n) /\ ID(n) <= nextID
      BY <1>9, <2>1, <2>5 DEF RingInv
    <3>2. ID(last[c]) <= ID(e)
      <4>1. e \in Elements(q) => ID(e) > ID(last[c])
        BY <1>2
      <4> QED
        BY <1>9, <2>2, <4>1
    <3>3. ID(n) > ID(last[c]) /\ ~(ID(last[c]) >= nextID)
      BY <2>2, <3>1, <3>2
    <3> QED
      BY <1>2, <2>1, <2>5, <3>3
  <2> QED
    BY <2>4, <2>5
<1>10. NoGap(c)'
  <2>1. \A m : Life(m)' = Life(m)
    BY <1>3 DEF Life
  <2> QED
    BY <1>3, <1>8, <1>9, <2>1 DEF NoGap
<1> QED
  BY <1>7, <1>10

(* What a client receives is the first of what is on its way to it.         *)
LEMMA Received ==
  ASSUME TypeOK, ClientInv, NEW c \in Clients, Receive(c)
  PROVE  /\ last'[c] \in OnTheWay(c) /\ OnTheWay(c) = {last'[c]} \cup OnTheWay(c)'
         /\ \A e \in OnTheWay(c)' : last'[c] < e
         /\ Ascending(pend'[c]) /\ Ascending(ch'[c])
         /\ Elements(pend'[c]) \subseteq Elements(pend[c])
         /\ Elements(ch'[c]) \subseteq Elements(ch[c])
<1>1. /\ pend[c] \in Seq(Numbers) /\ ch[c] \in Seq(Numbers)
      /\ pend \in [Clients -> Seq(Numbers)] /\ ch \in [Clients -> Seq(Numbers)]
      /\ last \in [Clients -> 0..MaxEvents]
  BY DEF TypeOK
<1>2. /\ Ascending(pend[c]) /\ Ascending(ch[c])
      /\ \A e \in Elements(pend[c]), d \in Elements(ch[c]) : e < d
  BY DEF ClientInv, InOrder
<1>3. CASE /\ pend[c] # <<>> /\ last' = [last EXCEPT ![c] = Head(pend[c])]
           /\ pend' = [pend EXCEPT ![c] = Tail(@)] /\ UNCHANGED ch
  <2>1. last'[c] = Head(pend[c]) /\ pend'[c] = Tail(pend[c]) /\ ch'[c] = ch[c]
    BY <1>1, <1>3
  <2>2. /\ Elements(pend[c]) = {Head(pend[c])} \cup Elements(Tail(pend[c]))
        /\ Ascending(Tail(pend[c])) /\ \A e \in Elements(Tail(pend[c])) : Head(pend[c]) < e
    BY <1>1, <1>2, <1>3, Sizes, TailFacts
  <2> QED
    BY <1>2, <2>1, <2>2 DEF OnTheWay
<1>4. CASE /\ pend[c] = <<>> /\ ch[c] # <<>> /\ last' = [last EXCEPT ![c] = Head(ch[c])]
           /\ ch' = [ch EXCEPT ![c] = Tail(@)] /\ UNCHANGED pend
  <2>1. last'[c] = Head(ch[c]) /\ ch'[c] = Tail(ch[c]) /\ pend'[c] = pend[c]
    BY <1>1, <1>4
  <2>2. /\ Elements(ch[c]) = {Head(ch[c])} \cup Elements(Tail(ch[c]))
        /\ Ascending(Tail(ch[c])) /\ \A e \in Elements(Tail(ch[c])) : Head(ch[c]) < e
    BY <1>1, <1>2, <1>4, Sizes, TailFacts
  <2>3. Elements(pend[c]) = {}
    BY <1>4, EmptySeq
  <2> QED
    BY <1>2, <2>1, <2>2, <2>3 DEF OnTheWay
<1> QED
  BY <1>3, <1>4 DEF Receive

(* Receiving moves the client on by one.                                    *)
LEMMA ReceiveClients ==
  ASSUME TypeOK, IdInv, RingInv, ClientInv, GapInv, NEW c \in Clients, Receive(c)
  PROVE  InOrder(c)' /\ NoGap(c)'
<1>1. /\ last'[c] \in OnTheWay(c) /\ OnTheWay(c) = {last'[c]} \cup OnTheWay(c)'
      /\ \A e \in OnTheWay(c)' : last'[c] < e
      /\ Ascending(pend'[c]) /\ Ascending(ch'[c])
      /\ Elements(pend'[c]) \subseteq Elements(pend[c])
      /\ Elements(ch'[c]) \subseteq Elements(ch[c])
  BY Received
<1>2. /\ emitted' = emitted /\ c \in conn
      /\ excused'[c] = {n \in excused[c] : n > last'[c]}
  BY DEF Receive, TypeOK
<1>3. /\ \A e \in OnTheWay(c) : e \in DOMAIN emitted
      /\ \A e \in Elements(pend[c]), d \in Elements(ch[c]) : e < d
  BY DEF ClientInv, InOrder, OnTheWay
<1>4. InOrder(c)'
  <2>1. last'[c] \in 0..Len(emitted)
    BY <1>1, <1>3, EmittedTypes
  <2>2. \A e \in OnTheWay(c)' : e \in DOMAIN emitted'
    BY <1>1, <1>2, <1>3
  <2> QED
    BY <1>1, <1>2, <1>3, <2>1, <2>2 DEF InOrder, OnTheWay
<1>5. ASSUME NEW e \in ({last'[c]} \ {0}) \cup OnTheWay(c)', NEW n \in DOMAIN emitted,
             e < n, emitted[n].ringed, Life(n) = Life(e)
      PROVE  n \in OnTheWay(c)' \cup excused'[c]
  <2>1. e \in OnTheWay(c) /\ e \in DOMAIN emitted /\ last'[c] \in DOMAIN emitted
    BY <1>1, <1>3, <1>5
  <2>2. n \in OnTheWay(c) \cup excused[c]
    BY <1>2, <1>5, <2>1 DEF GapInv, NoGap
  <2>3. n > last'[c] /\ n # last'[c]
    <3>1. e = last'[c] \/ last'[c] < e
      BY <1>1, <1>5
    <3>2. e \in Nat /\ n \in Nat /\ last'[c] \in Nat
      BY <1>5, <2>1, EmittedTypes
    <3> QED
      BY <1>5, <3>1, <3>2
  <2> QED
    BY <1>1, <1>2, <2>2, <2>3
<1>6. NoGap(c)'
  <2>1. \A m : Life(m)' = Life(m)
    BY <1>2 DEF Life
  <2> QED
    BY <1>2, <1>5, <2>1 DEF NoGap
<1> QED
  BY <1>4, <1>6

(* A client that a step does not touch keeps its part.                      *)
LEMMA OtherClients ==
  ASSUME ClientInv, GapInv, NEW d \in Clients,
         emitted' = emitted, pend'[d] = pend[d], ch'[d] = ch[d],
         last'[d] = last[d], excused'[d] = excused[d]
  PROVE  InOrder(d)' /\ (d \in conn => NoGap(d)')
<1>1. InOrder(d) /\ (d \in conn => NoGap(d))
  BY DEF ClientInv, GapInv
<1>2. InOrder(d)'
  BY <1>1 DEF InOrder
<1>3. NoGap(d) => NoGap(d)'
  <2>1. (\A m : Life(m)' = Life(m)) /\ OnTheWay(d)' = OnTheWay(d)
    BY DEF Life, OnTheWay
  <2> QED
    BY <2>1 DEF NoGap
<1> QED
  BY <1>1, <1>2, <1>3

(* Every step preserves the order and the completeness of what is on its    *)
(* way.                                                                     *)
LEMMA ClientStep ==
  ASSUME TypeOK, IdInv, RingInv, ClientInv, GapInv, [Next]_vars
  PROVE  ClientInv' /\ GapInv'
<1>0. conn \subseteq Clients
  BY DEF TypeOK
<1>1. ASSUME NEW t \in Types, EmitTo(t) PROVE ClientInv' /\ GapInv'
  <2>1. conn' = conn
    BY <1>1 DEF EmitTo
  <2> QED
    BY <1>0, <1>1, <2>1, EmitClients DEF ClientInv, GapInv
<1>2. ASSUME NEW c \in Clients, SubscribeWithReplay(c) \/ Receive(c) \/ Unsubscribe(c)
      PROVE  ClientInv' /\ GapInv'
  <2>1. /\ emitted' = emitted /\ conn' \subseteq conn \cup {c}
        /\ \A d \in Clients \ {c} : /\ pend'[d] = pend[d] /\ ch'[d] = ch[d]
                                    /\ last'[d] = last[d] /\ excused'[d] = excused[d]
    <3>1. CASE SubscribeWithReplay(c)
      BY <3>1 DEF SubscribeWithReplay, TypeOK
    <3>2. CASE Receive(c)
      BY <3>2 DEF Receive, TypeOK
    <3>3. CASE Unsubscribe(c)
      BY <3>3 DEF Unsubscribe, TypeOK
    <3> QED
      BY <1>2, <3>1, <3>2, <3>3
  <2>2. \A d \in Clients \ {c} : InOrder(d)' /\ (d \in conn => NoGap(d)')
    BY <2>1, OtherClients
  <2>3. InOrder(c)' /\ (c \in conn' => NoGap(c)')
    <3>1. CASE Unsubscribe(c)
      <4>1. /\ c \notin conn' /\ pend'[c] = <<>> /\ ch'[c] = <<>> /\ last' = last
        BY <3>1 DEF Unsubscribe, TypeOK
      <4>2. last[c] \in 0..Len(emitted)
        BY DEF ClientInv, InOrder
      <4> QED
        BY <2>1, <4>1, <4>2, EmptySeq DEF InOrder
    <3> QED
      BY <1>2, <3>1, SubscribeClients, ReceiveClients
  <2>4. \A d \in Clients : InOrder(d)'
    BY <2>2, <2>3
  <2>5. \A d \in conn' : NoGap(d)'
    BY <1>0, <2>1, <2>2, <2>3
  <2> QED
    BY <2>4, <2>5 DEF ClientInv, GapInv
<1>3. ASSUME Notifications \/ UNCHANGED vars PROVE ClientInv' /\ GapInv'
  <2>1. UNCHANGED <<emitted, sse>>
    BY <1>3 DEF Notifications, vars
  <2> QED
    BY <1>0, <2>1, OtherClients DEF sse, ClientInv, GapInv
<1>4. ASSUME RestoreNotifications PROVE ClientInv' /\ GapInv'
  <2>1. /\ conn' = {} /\ pend' = [c \in Clients |-> <<>>] /\ ch' = [c \in Clients |-> <<>>]
        /\ last' = last /\ emitted' = emitted
    BY <1>4 DEF RestoreNotifications
  <2>2. ASSUME NEW c \in Clients PROVE InOrder(c)'
    <3>1. last[c] \in 0..Len(emitted)
      BY DEF ClientInv, InOrder
    <3> QED
      BY <2>1, <3>1, EmptySeq DEF InOrder
  <2> QED
    BY <2>1, <2>2 DEF ClientInv, GapInv
<1> QED
  BY <1>1, <1>2, <1>3, <1>4 DEF Next

(* No client is connected at the start.                                     *)
LEMMA ClientInit == Init => ClientInv /\ GapInv
<1> SUFFICES ASSUME Init PROVE ClientInv /\ GapInv
  OBVIOUS
<1>1. /\ conn = {} /\ emitted = <<>> /\ Len(emitted) = 0
      /\ \A c \in Clients : pend[c] = <<>> /\ ch[c] = <<>> /\ last[c] = 0
  BY DEF Init
<1>2. ASSUME NEW c \in Clients PROVE InOrder(c)
  BY <1>1, EmptySeq DEF InOrder
<1> QED
  BY <1>1, <1>2 DEF ClientInv, GapInv

StreamInv == TypeOK /\ IdInv /\ RingInv /\ ClientInv /\ GapInv

(* The invariant of the stream.                                             *)
LEMMA StreamCorrect == Spec => []StreamInv
<1>1. Init => StreamInv
  BY BaseInit, ClientInit DEF StreamInv
<1>2. StreamInv /\ [Next]_vars => StreamInv'
  BY BaseStep, ClientStep DEF StreamInv
<1> QED
  BY <1>1, <1>2, PTL DEF Spec

(* Whatever the drops, the breaks, the restarts and the replays, what is on *)
(* its way to a client is in order and later than anything it has received, *)
(* so no event reaches it twice (SubscribeWithReplay, EmitTo).              *)
THEOREM StreamInOrder == Spec => []OnceInOrder
<1>1. ASSUME StreamInv PROVE OnceInOrder
  <2>1. ASSUME NEW c \in Clients PROVE Ascending(<<last[c]>> \o pend[c] \o ch[c])
    <3>1. /\ last[c] \in Nat /\ pend[c] \in Seq(Nat) /\ ch[c] \in Seq(Nat)
      <4>1. pend[c] \in Seq(Numbers) /\ ch[c] \in Seq(Numbers) /\ last[c] \in 0..MaxEvents
        BY <1>1 DEF StreamInv, TypeOK
      <4>2. \A q \in Seq(Numbers) : q \in Seq(Nat)
        <5>1. ASSUME NEW q \in Seq(Numbers) PROVE q \in Seq(Nat)
          <6>1. q \in [1..Len(q) -> Numbers] /\ Len(q) \in Nat
            OBVIOUS
          <6>2. \A i \in Numbers : i \in Nat
            BY Sizes
          <6>3. q \in [1..Len(q) -> Nat]
            BY <6>1, <6>2
          <6> QED
            BY <6>1, <6>3
        <5> QED
          BY <5>1
      <4> QED
        BY <4>1, <4>2, SizesArePositive
    <3>2. /\ Ascending(pend[c]) /\ Ascending(ch[c])
          /\ \A e \in Elements(pend[c]) \cup Elements(ch[c]) : last[c] < e
          /\ \A e \in Elements(pend[c]), d \in Elements(ch[c]) : e < d
      BY <1>1 DEF StreamInv, ClientInv, InOrder
    <3>3. PICK f : f = <<last[c]>>
      OBVIOUS
    <3>4. f \in Seq(Nat) /\ Elements(f) = {last[c]} /\ Ascending(f)
      BY <3>1, <3>3 DEF Elements, Ascending
    <3>5. PICK g : g = f \o pend[c]
      OBVIOUS
    <3>6. g \in Seq(Nat) /\ Elements(g) = {last[c]} \cup Elements(pend[c]) /\ Ascending(g)
      <4>1. \A d \in Elements(f), e \in Elements(pend[c]) : d < e
        BY <3>2, <3>4
      <4>2. Nat \in SUBSET Nat /\ pend[c] \in Seq(Nat) /\ f \in Seq(Nat)
        BY <3>1, <3>4
      <4>3. /\ f \o pend[c] \in Seq(Nat) /\ Ascending(f \o pend[c])
            /\ Elements(f \o pend[c]) = Elements(f) \cup Elements(pend[c])
        BY <3>2, <3>4, <4>1, <4>2, ConcatFacts
      <4> QED
        BY <3>4, <3>5, <4>3
    <3>7. Ascending(g \o ch[c])
      <4>1. \A d \in Elements(g), e \in Elements(ch[c]) : d < e
        BY <3>2, <3>6
      <4>2. Nat \in SUBSET Nat /\ ch[c] \in Seq(Nat) /\ g \in Seq(Nat)
        BY <3>1, <3>6
      <4> QED
        BY <3>2, <3>6, <4>1, <4>2, ConcatFacts
    <3> QED
      BY <3>3, <3>5, <3>7
  <2> QED
    BY <2>1 DEF OnceInOrder, Ascending
<1> QED
  BY <1>1, StreamCorrect, PTL

(* Between two events a client receives, none of the ring's that belonged   *)
(* between them is passed over in silence: it was dropped on the client's   *)
(* full buffer or had left the ring when the client came back.              *)
THEOREM StreamHasNoGap == Spec => NoSilentGap
<1> DEFINE A == \A c \in Clients : last[c] > 0 /\ last'[c] # last[c] =>
                  \A n \in (last[c] + 1)..(last'[c] - 1) :
                    emitted[n].ringed /\ emitted[n].life = emitted[last[c]].life
                      => n \in excused[c] \/ emitted[last'[c]].life # emitted[last[c]].life
<1>1. ASSUME StreamInv, [Next]_vars PROVE A
  <2> SUFFICES ASSUME NEW c \in Clients, last[c] > 0, last'[c] # last[c],
                      NEW n \in (last[c] + 1)..(last'[c] - 1),
                      emitted[n].ringed, emitted[n].life = emitted[last[c]].life
               PROVE  n \in excused[c]
    OBVIOUS
  <2> USE <1>1 DEF StreamInv
  <2>1. Receive(c)
    <3>1. CASE \E d \in Clients : Receive(d)
      <4>1. PICK d \in Clients : Receive(d)
        BY <3>1
      <4>2. d = c
        BY <4>1 DEF Receive, TypeOK
      <4> QED
        BY <4>1, <4>2
    <3>2. CASE last' = last
      BY <3>2
    <3>3. (\E d \in Clients : Receive(d)) \/ last' = last
      BY DEF Next, vars, sse, EmitTo, SubscribeWithReplay, Unsubscribe, Notifications, RestoreNotifications
    <3> QED
      BY <3>1, <3>2, <3>3
  <2>2. /\ last'[c] \in OnTheWay(c) /\ OnTheWay(c) = {last'[c]} \cup OnTheWay(c)'
        /\ \A e \in OnTheWay(c)' : last'[c] < e
    BY <2>1, Received
  <2>3. /\ c \in conn /\ last[c] \in DOMAIN emitted /\ last'[c] \in DOMAIN emitted
        /\ last[c] # 0
    <3>1. c \in conn
      BY <2>1 DEF Receive
    <3>2. last[c] \in 0..Len(emitted) /\ \A e \in OnTheWay(c) : e \in DOMAIN emitted
      BY DEF ClientInv, InOrder, OnTheWay
    <3> QED
      BY <2>2, <3>1, <3>2, EmittedTypes
  <2>4. /\ n \in DOMAIN emitted /\ last[c] < n /\ n < last'[c] /\ n \in Nat
        /\ last[c] \in Nat /\ last'[c] \in Nat
    <3>1. PICK a \in Nat : a = last[c] /\ a > 0
      BY <2>3, EmittedTypes
    <3>2. PICK b \in Nat : b = last'[c] /\ b <= Len(emitted)
      BY <2>3, EmittedTypes
    <3>3. n \in (a + 1)..(b - 1)
      BY <3>1, <3>2
    <3>4. Len(emitted) \in Nat /\ DOMAIN emitted = 1..Len(emitted)
      BY EmittedTypes
    <3>5. n \in Nat /\ a < n /\ n < b /\ n \in 1..Len(emitted)
      BY <3>1, <3>2, <3>3, <3>4
    <3> QED
      BY <3>1, <3>2, <3>4, <3>5
  <2>5. n \in OnTheWay(c) \cup excused[c]
    BY <2>3, <2>4 DEF GapInv, NoGap, Life
  <2>6. n \notin OnTheWay(c)
    <3>1. \A e \in OnTheWay(c) : e = last'[c] \/ last'[c] < e
      BY <2>2
    <3>2. \A e \in OnTheWay(c) : e \in Nat
      BY EmittedTypes DEF ClientInv, InOrder, OnTheWay
    <3> QED
      BY <2>4, <3>1, <3>2
  <2> QED
    BY <2>5, <2>6
<1>2. StreamInv /\ [Next]_vars => [A]_vars
  BY <1>1
<1> HIDE DEF A
<1>3. [](StreamInv) /\ [][Next]_vars => [][A]_vars
  BY <1>2, PTL
<1>4. Spec => [][A]_vars
  BY <1>3, StreamCorrect, PTL DEF Spec
<1> QED
  BY <1>4 DEF NoSilentGap, A

-----------------------------------------------------------------------------
(* Polling                                                                 *)

(* A line that is written whole keeps the log and the notification ring     *)
(* complete.                                                                *)
LEMMA EmitLog ==
  ASSUME TypeOK, IdInv, RingInv, LogInv, NEW t \in Types, EmitTo(t)
  PROVE  LogInv'
<1> SUFFICES ASSUME tears' = 0
             PROVE  /\ tail' = "closed"
                    /\ \A n \in Retained' \ Elements(file') :
                         Len(file') >= NotifSize /\ \A d \in Elements(file') : n < d
                    /\ \A n \in Retained' \ Elements(notif') :
                         Len(notif') >= NotifSize /\ \A d \in Elements(notif') : n < d
                    /\ \A n \in Retained' : ID(n)' <= nextID' /\ Follows(n)'
  BY DEF LogInv, Covers
<1>1. PICK k : k = Len(emitted) + 1
  OBVIOUS
<1>2. /\ k \in Numbers /\ k \notin DOMAIN emitted /\ \A m \in DOMAIN emitted : m < k
  BY <1>1, Grows
<1>3. /\ \A m \in Retained : ID(m) <= nextID /\ Follows(m) =>
           m \in Retained' /\ ID(m)' <= nextID' /\ Follows(m)'
      /\ ID(k)' <= nextID' /\ Follows(k)'
      /\ Retained' = IF emitted'[k].retained THEN Retained \cup {k} ELSE Retained
  BY <1>1, FollowsGrow
<1>4. /\ emitted'[k].retained => AppendLine(k) \/ AppendTorn(k)
      /\ ~emitted'[k].retained => UNCHANGED log /\ notif' = notif
  BY <1>1, Puts
<1>5. tears = 0 /\ (emitted'[k].retained => AppendLine(k))
  <2>1. tears \in Nat
    BY EmittedTypes
  <2>2. ~AppendTorn(k)
    BY <2>1 DEF AppendTorn
  <2> QED
    BY <1>4, <2>2 DEF AppendLine, log
<1>6. /\ tail = "closed"
      /\ \A n \in Retained \ Elements(file) : Len(file) >= NotifSize /\ \A d \in Elements(file) : n < d
      /\ \A n \in Retained \ Elements(notif) : Len(notif) >= NotifSize /\ \A d \in Elements(notif) : n < d
      /\ \A n \in Retained : ID(n) <= nextID /\ Follows(n)
  BY <1>5 DEF LogInv, Covers
<1>7. \A n \in Retained' : ID(n)' <= nextID' /\ Follows(n)'
  BY <1>3, <1>6
<1>8. CASE ~emitted'[k].retained
  BY <1>3, <1>4, <1>6, <1>7, <1>8 DEF log
<1>9. CASE emitted'[k].retained
  <2>0. /\ file \in Seq(Numbers) /\ Ascending(file) /\ Len(file) \in Nat
        /\ \A e \in Elements(file) : e < k
        /\ \A e \in Retained : e < k
    BY <1>2 DEF TypeOK, IdInv, Retained
  <2>1. PICK f : f = file'
    OBVIOUS
  <2>2. /\ tail' = "closed"
        /\ f = Newest(Append(file, k), NotifSize) \/ f = Append(file, k)
    <3>1. Lines(k) = Append(file, k)
      BY <1>6 DEF Lines
    <3> QED
      BY <1>5, <1>9, <2>1, <3>1 DEF AppendLine
  <2>3. /\ k \in Elements(f) /\ Elements(f) \subseteq Elements(file) \cup {k}
        /\ Len(file) >= NotifSize => Len(f) >= NotifSize
        /\ \A e \in Elements(file) \ Elements(f) : Len(f) >= NotifSize /\ \A d \in Elements(f) : e < d
    <3>1. CASE f = Append(file, k)
      <4>1. Elements(f) = Elements(file) \cup {k} /\ Len(f) = Len(file) + 1
        BY <1>2, <2>0, <3>1, Sizes, AppendFacts
      <4> QED
        BY <2>0, <4>1, Sizes
    <3>2. CASE f = Newest(Append(file, k), NotifSize)
      <4>1. /\ k \in Elements(f) /\ Elements(f) \subseteq Elements(file) \cup {k}
            /\ Len(f) = IF Len(file) < NotifSize THEN Len(file) + 1 ELSE NotifSize
            /\ \A e \in Elements(file) \ Elements(f) :
                 Len(f) = NotifSize /\ \A d \in Elements(f) : e < d
        BY <1>2, <2>0, <3>2, Sizes, Pushed
      <4>2. Len(file) >= NotifSize => Len(f) >= NotifSize
        BY <2>0, <4>1, Sizes
      <4> QED
        BY <4>1, <4>2, Sizes
    <3> QED
      BY <2>2, <3>1, <3>2
  <2>4. /\ k \in Elements(notif') /\ Elements(notif') \subseteq Elements(notif) \cup {k}
        /\ Len(notif) >= NotifSize => Len(notif') = NotifSize
        /\ \A e \in Elements(notif) \ Elements(notif') :
             Len(notif') = NotifSize /\ \A d \in Elements(notif') : e < d
    BY <1>1, <1>9, RingsGrow
  <2>5. PICK no : no = notif'
    OBVIOUS
  <2>6. Retained' = Retained \cup {k}
    BY <1>3, <1>9
  <2>7. ASSUME NEW n \in Retained' \ Elements(f)
        PROVE  Len(f) >= NotifSize /\ \A d \in Elements(f) : n < d
    <3>1. n \in Retained /\ n < k
      BY <2>0, <2>3, <2>6, <2>7
    <3> QED
      BY <1>6, <2>3, <2>7, <3>1
  <2>8. ASSUME NEW n \in Retained' \ Elements(no)
        PROVE  Len(no) >= NotifSize /\ \A d \in Elements(no) : n < d
    <3>1. n \in Retained /\ n < k
      BY <2>0, <2>4, <2>5, <2>6, <2>8
    <3> QED
      BY <1>6, <2>4, <2>5, <2>8, <3>1, Sizes
  <2> QED
    BY <1>7, <2>1, <2>2, <2>5, <2>7, <2>8
<1> QED
  BY <1>8, <1>9

(* What a restart loads is as complete as the log was, and the ids go on    *)
(* above every notification's.                                              *)
LEMMA RestoreLog ==
  ASSUME TypeOK, IdInv, RingInv, LogInv, RestoreNotifications
  PROVE  LogInv'
<1> SUFFICES ASSUME tears' = 0 PROVE tail' = "closed" /\ Covers(file)' /\ Covers(notif)'
                                     /\ \A n \in Retained' : ID(n)' <= nextID' /\ Follows(n)'
  BY DEF LogInv
<1>1. /\ emitted' = emitted /\ tears = 0 /\ tail' \in {"closed", tail}
  BY DEF RestoreNotifications
<1>2. /\ (\A m : ID(m)' = ID(m) /\ (Follows(m) => Follows(m)')) /\ Retained' = Retained
  BY <1>1 DEF ID, Retained, Follows
<1>3. /\ tail = "closed"
      /\ \A n \in Retained \ Elements(file) : Len(file) >= NotifSize /\ \A d \in Elements(file) : n < d
      /\ \A n \in Retained : Follows(n)
  BY <1>1 DEF LogInv, Covers
<1>4. PICK f : f = notif'
  OBVIOUS
<1>5. /\ f \in Seq(Numbers) /\ file' \in {file, f} /\ Elements(f) \subseteq Elements(file)
      /\ \A e \in Elements(file) \ Elements(f) : Len(f) = NotifSize /\ \A d \in Elements(f) : e < d
      /\ \A m \in Elements(f) : ID(m) <= nextID'
      /\ Len(f) = IF Len(file) <= NotifSize THEN Len(file) ELSE NotifSize
      /\ nextID' \in 0..Len(emitted)
  BY <1>4, RestoreFacts
<1>6. Len(file) >= NotifSize => Len(f) >= NotifSize
  <2>1. Len(file) \in Nat
    BY DEF TypeOK
  <2> QED
    BY <1>5, <2>1, Sizes
<1>7. ASSUME NEW n \in Retained \ Elements(f)
      PROVE  Len(f) >= NotifSize /\ \A d \in Elements(f) : n < d
  BY <1>3, <1>5, <1>6, <1>7, Sizes
<1>8. ASSUME NEW n \in Retained PROVE ID(n) <= nextID'
  <2>1. CASE n \in Elements(f)
    BY <1>5, <2>1
  <2>2. CASE n \notin Elements(f)
    <3>1. Len(f) >= NotifSize /\ \A d \in Elements(f) : n < d
      BY <1>7, <2>2
    <3>2. 1 \in DOMAIN f
      <4>1. Len(f) \in Nat /\ DOMAIN f = 1..Len(f)
        BY <1>5
      <4> QED
        BY <3>1, <4>1, Sizes
    <3>3. PICK d \in Elements(f) : n < d
      BY <3>1, <3>2 DEF Elements
    <3>4. d \in DOMAIN emitted /\ ID(d) <= nextID'
      BY <1>5, <3>3 DEF IdInv, Retained
    <3>5. ID(n) < ID(d)
      BY <1>3, <3>3, <3>4 DEF Follows
    <3>6. ID(n) \in Nat /\ ID(d) \in Nat /\ nextID' \in Nat
      BY <1>5, <3>4, EmittedTypes DEF Retained
    <3> QED
      BY <3>4, <3>5, <3>6
  <2> QED
    BY <2>1, <2>2
<1>9. Covers(file)' /\ Covers(notif)'
  <2>1. Covers(notif)'
    BY <1>2, <1>4, <1>7 DEF Covers
  <2>2. CASE file' = notif'
    BY <2>1, <2>2 DEF Covers
  <2>3. CASE file' = file
    BY <1>2, <1>3, <2>1, <2>3 DEF Covers
  <2> QED
    BY <1>4, <1>5, <2>1, <2>2, <2>3
<1>10. \A n \in Retained' : ID(n)' <= nextID' /\ Follows(n)'
  BY <1>2, <1>3, <1>8
<1> QED
  BY <1>1, <1>3, <1>9, <1>10

(* Retained events between two others.                                      *)
Later(n, b) == {m \in Retained : n < m /\ m <= b}

(* Such a set is finite and as large as any part of it.                     *)
LEMMA LaterFacts ==
  ASSUME TypeOK, NEW n, NEW b
  PROVE  /\ IsFiniteSet(Later(n, b)) /\ Cardinality(Later(n, b)) \in Nat
         /\ \A S \in SUBSET Later(n, b) :
              IsFiniteSet(S) /\ Cardinality(S) \in Nat /\ Cardinality(S) <= Cardinality(Later(n, b))
<1>1. Later(n, b) \in SUBSET (1..Len(emitted))
  BY EmittedTypes DEF Later, Retained
<1>2. IsFiniteSet(1..Len(emitted))
  BY EmittedTypes, FS_Interval
<1>3. IsFiniteSet(Later(n, b))
  BY <1>1, <1>2, FS_Subset
<1>4. Cardinality(Later(n, b)) \in Nat
  BY <1>3, FS_CardinalityType
<1>5. ASSUME NEW S \in SUBSET Later(n, b)
      PROVE  IsFiniteSet(S) /\ Cardinality(S) \in Nat /\ Cardinality(S) <= Cardinality(Later(n, b))
  <2>1. IsFiniteSet(S) /\ Cardinality(S) <= Cardinality(Later(n, b))
    BY <1>3, FS_Subset
  <2> QED
    BY <2>1, FS_CardinalityType
<1> QED
  BY <1>3, <1>4, <1>5

(* Seen(n) is PollOnce's promise about one notification.                    *)
Seen(n) == n > asOf \/ n \in Elements(polled) \/ Cardinality(Later(n, asOf)) >= NotifSize
Once == tears = 0 => \A n \in Retained : Seen(n)

(* A poll returns what is above the cursor: later than all that was         *)
(* polled, and with it nothing that the ring still holds is missed.         *)
LEMMA NotificationsPoll ==
  ASSUME TypeOK, IdInv, RingInv, LogInv, PollInv, Once, Notifications
  PROVE  PollInv' /\ Once'
<1>1. PICK q : q = Above(cursor, notif)
  OBVIOUS
<1>2. /\ q \in Seq(Numbers) /\ Ascending(q)
      /\ Elements(q) = {n \in Elements(notif) : n \in DOMAIN emitted /\ ID(n) > cursor}
  BY <1>1, AboveFacts DEF TypeOK, IdInv
<1>3. /\ cursor' = IF q = <<>> THEN cursor ELSE ID(q[Len(q)])
      /\ polled' = polled \o q /\ asOf' = Len(emitted)
      /\ emitted' = emitted /\ tears' = tears
  BY <1>1 DEF Notifications, log
<1>4. (\A m : ID(m)' = ID(m)) /\ Retained' = Retained
  BY <1>3 DEF ID, Retained
<1>5. /\ polled \in Seq(Numbers) /\ Ascending(polled) /\ asOf <= Len(emitted) /\ asOf \in Nat
      /\ \A n \in Elements(polled) : n \in Retained /\ n <= asOf
      /\ cursor = (IF polled = <<>> THEN 0 ELSE ID(polled[Len(polled)]))
      /\ notif \in Seq(Numbers) /\ Ascending(notif)
      /\ \A n \in Elements(notif) : n \in Retained /\ Follows(n)
  BY EmittedTypes DEF PollInv, TypeOK, IdInv
<1>6. \A n \in Retained : n \in DOMAIN emitted /\ n \in Nat /\ ID(n) \in Nat /\ ID(n) > 0 /\ n <= Len(emitted)
  BY EmittedTypes DEF Retained
<1>7. ASSUME polled # <<>>
      PROVE  \E top \in Elements(polled) : cursor = ID(top) /\ \A p \in Elements(polled) : p <= top
  <2>1. Len(polled) \in DOMAIN polled /\ DOMAIN polled = 1..Len(polled) /\ Len(polled) \in Nat
    BY <1>5, <1>7
  <2>2. polled[Len(polled)] \in Elements(polled)
    BY <2>1 DEF Elements
  <2>3. ASSUME NEW p \in Elements(polled) PROVE p <= polled[Len(polled)]
    <3>1. PICK i \in DOMAIN polled : p = polled[i]
      BY DEF Elements
    <3>2. i = Len(polled) \/ i < Len(polled)
      BY <2>1
    <3>3. i = Len(polled) \/ p < polled[Len(polled)]
      BY <1>5, <2>1, <3>1, <3>2 DEF Ascending
    <3>4. p \in Nat /\ polled[Len(polled)] \in Nat
      BY <1>5, <1>6, <2>2
    <3> QED
      BY <3>1, <3>3, <3>4
  <2> QED
    BY <1>5, <1>7, <2>2, <2>3
<1>8. \A p \in Elements(polled), e \in Elements(q) : p < e
  <2> SUFFICES ASSUME NEW p \in Elements(polled), NEW e \in Elements(q) PROVE p < e
    OBVIOUS
  <2>1. polled # <<>>
    BY EmptySeq
  <2>2. PICK top \in Elements(polled) : cursor = ID(top) /\ \A d \in Elements(polled) : d <= top
    BY <1>7, <2>1
  <2>3. /\ e \in Retained /\ Follows(e) /\ ID(e) > cursor /\ top \in Retained /\ p \in Retained
    BY <1>2, <1>5, <2>2
  <2>4. e < top => ID(e) < ID(top)
    BY <1>6, <2>3 DEF Follows
  <2>5. e \in Nat /\ top \in Nat /\ p \in Nat /\ ID(e) \in Nat /\ ID(top) \in Nat
    BY <1>6, <2>3
  <2>6. p <= top
    BY <2>2
  <2>7. e # top /\ ~(e < top)
    BY <2>2, <2>3, <2>4, <2>5
  <2> QED
    BY <2>5, <2>6, <2>7
<1>9. PICK r : r = polled'
  OBVIOUS
<1>10. r \in Seq(Numbers) /\ Elements(r) = Elements(polled) \cup Elements(q) /\ Ascending(r)
  BY <1>2, <1>3, <1>5, <1>8, <1>9, Sizes, ConcatFacts
<1>11. cursor' = IF r = <<>> THEN 0 ELSE ID(r[Len(r)])
  <2>1. CASE q = <<>>
    <3>1. r = polled
      BY <1>3, <1>5, <1>9, <2>1
    <3> QED
      BY <1>3, <1>5, <2>1, <3>1
  <2>2. CASE q # <<>>
    <3>1. r # <<>> /\ r[Len(r)] = q[Len(q)]
      BY <1>2, <1>3, <1>5, <1>9, <2>2
    <3> QED
      BY <1>3, <2>2, <3>1
  <2> QED
    BY <2>1, <2>2
<1>12. \A n \in Elements(r) : n \in Retained /\ n <= Len(emitted)
  <2>1. \A n \in Elements(r) : n \in Retained
    BY <1>2, <1>5, <1>10
  <2> QED
    BY <1>6, <2>1
<1>13. PollInv'
  <2>1. asOf' <= Len(emitted')
    BY <1>3, EmittedTypes
  <2>2. \A n \in Elements(polled') : n \in Retained' /\ n <= asOf'
    BY <1>3, <1>4, <1>9, <1>12
  <2>3. IF polled' = <<>> THEN cursor' = 0 ELSE cursor' = emitted'[polled'[Len(polled')]].id
    BY <1>3, <1>9, <1>11 DEF ID
  <2>4. Ascending(polled')
    BY <1>9, <1>10
  <2> QED
    BY <2>1, <2>2, <2>3, <2>4 DEF PollInv, ID
<1>14. ASSUME tears = 0, NEW n \in Retained
       PROVE  n \in Elements(r) \/ Cardinality(Later(n, Len(emitted))) >= NotifSize
  <2>1. CASE n \in Elements(notif)
    <3>1. CASE ID(n) > cursor
      BY <1>2, <1>6, <1>10, <2>1, <3>1
    <3>2. CASE ~(ID(n) > cursor)
      <4>1. polled # <<>>
        BY <1>5, <1>6, <3>2
      <4>2. PICK top \in Elements(polled) : cursor = ID(top) /\ \A d \in Elements(polled) : d <= top
        BY <1>7, <4>1
      <4>3. top \in Retained /\ top <= asOf /\ Follows(top)
        BY <1>5, <1>14, <4>2 DEF LogInv
      <4>4. /\ n \in Nat /\ top \in Nat /\ ID(n) \in Nat /\ ID(top) \in Nat /\ n \in DOMAIN emitted
        BY <1>6, <4>3
      <4>5. ~(top < n)
        BY <3>2, <4>2, <4>3, <4>4 DEF Follows
      <4>6. n <= asOf
        BY <1>5, <4>3, <4>4, <4>5
      <4>7. n \in Elements(polled) \/ Cardinality(Later(n, asOf)) >= NotifSize
        BY <1>5, <1>14, <4>4, <4>6 DEF Once, Seen
      <4>8. Later(n, asOf) \in SUBSET Later(n, Len(emitted))
        <5>1. \A m \in Retained : m <= Len(emitted)
          BY <1>6
        <5> QED
          BY <5>1 DEF Later
      <4>9. /\ Cardinality(Later(n, asOf)) <= Cardinality(Later(n, Len(emitted)))
            /\ Cardinality(Later(n, asOf)) \in Nat /\ Cardinality(Later(n, Len(emitted))) \in Nat
        BY <4>8, LaterFacts
      <4>10. Cardinality(Later(n, asOf)) >= NotifSize => Cardinality(Later(n, Len(emitted))) >= NotifSize
        BY <4>9, Sizes
      <4> QED
        BY <1>10, <4>7, <4>10
    <3> QED
      BY <3>1, <3>2
  <2>2. CASE n \notin Elements(notif)
    <3>1. Len(notif) >= NotifSize /\ \A d \in Elements(notif) : n < d
      BY <1>14, <2>2 DEF LogInv, Covers
    <3>2. Elements(notif) \in SUBSET Later(n, Len(emitted))
      BY <1>5, <1>6, <3>1 DEF Later
    <3>3. Cardinality(Elements(notif)) = Len(notif)
      BY <1>5, Sizes, AscendingSize
    <3>4. /\ Cardinality(Elements(notif)) <= Cardinality(Later(n, Len(emitted)))
          /\ Cardinality(Elements(notif)) \in Nat /\ Cardinality(Later(n, Len(emitted))) \in Nat
      BY <3>2, LaterFacts
    <3> QED
      BY <3>1, <3>3, <3>4, Sizes
  <2> QED
    BY <2>1, <2>2
<1>15. Once'
  <2>1. \A n : Later(n, Len(emitted)) = {m \in Retained' : n < m /\ m <= asOf'}
    BY <1>3, <1>4 DEF Later
  <2>2. \A n : Later(n, asOf)' = {m \in Retained' : n < m /\ m <= asOf'}
    BY DEF Later
  <2>3. \A n : Later(n, asOf)' = Later(n, Len(emitted))
    BY <2>1, <2>2
  <2> QED
    BY <1>3, <1>4, <1>9, <1>14, <2>3 DEF Once, Seen
<1> QED
  BY <1>13, <1>15

(* An emission is later than what was polled and than the last poll.        *)
LEMMA EmitPoll ==
  ASSUME TypeOK, IdInv, RingInv, PollInv, Once, NEW t \in Types, EmitTo(t)
  PROVE  PollInv' /\ Once'
<1>1. PICK k : k = Len(emitted) + 1
  OBVIOUS
<1>2. /\ k \notin DOMAIN emitted /\ Len(emitted') = k
      /\ \A m \in DOMAIN emitted : emitted'[m] = emitted[m]
  BY <1>1, Grows
<1>3. Retained' = Retained \/ Retained' = Retained \cup {k}
  BY <1>1, FollowsGrow
<1>4. /\ cursor' = cursor /\ polled' = polled /\ asOf' = asOf /\ (tears' = 0 => tears = 0)
  <2>1. cursor' = cursor /\ polled' = polled /\ asOf' = asOf
    BY DEF EmitTo, poller
  <2>2. tears' = tears \/ tears' = tears + 1
    BY DEF EmitTo, log, AppendLine, AppendTorn
  <2> QED
    BY <2>1, <2>2, EmittedTypes
<1>5. /\ asOf <= Len(emitted) /\ asOf \in Nat /\ Len(emitted) \in Nat /\ polled \in Seq(Numbers)
      /\ \A n \in Elements(polled) : n \in Retained /\ n <= asOf
  BY EmittedTypes DEF PollInv, TypeOK
<1>6. asOf < k
  BY <1>1, <1>5
<1>7. PollInv'
  <2>1. asOf' <= Len(emitted')
    BY <1>2, <1>4, <1>5, <1>6
  <2>2. \A n \in Elements(polled') : n \in Retained' /\ n <= asOf'
    BY <1>3, <1>4, <1>5
  <2>3. ASSUME polled # <<>> PROVE ID(polled[Len(polled)])' = ID(polled[Len(polled)])
    <3>1. polled[Len(polled)] \in Elements(polled)
      <4>1. Len(polled) \in DOMAIN polled
        BY <1>5, <2>3
      <4> QED
        BY <4>1 DEF Elements
    <3>2. polled[Len(polled)] \in DOMAIN emitted
      BY <1>5, <3>1 DEF Retained
    <3> QED
      BY <1>2, <1>4, <3>2 DEF ID
  <2>4. IF polled' = <<>> THEN cursor' = 0 ELSE cursor' = ID(polled[Len(polled)])'
    BY <1>4, <2>3 DEF PollInv
  <2>5. Ascending(polled')
    BY <1>4 DEF PollInv
  <2> QED
    BY <2>1, <2>2, <2>4, <2>5 DEF PollInv
<1>8. \A n : Later(n, asOf)' = Later(n, asOf)
  <2>1. \A n : Later(n, asOf)' = {m \in Retained' : n < m /\ m <= asOf}
    BY <1>4 DEF Later
  <2>2. ~(k <= asOf)
    BY <1>1, <1>5, <1>6
  <2> QED
    BY <1>3, <2>1, <2>2 DEF Later
<1>9. Once'
  <2>1. k > asOf'
    BY <1>1, <1>4, <1>5, <1>6
  <2> QED
    BY <1>3, <1>4, <1>8, <2>1 DEF Once, Seen
<1> QED
  BY <1>7, <1>9

(* A step that touches neither the events nor the poller.                   *)
LEMMA QuietPoll ==
  ASSUME PollInv, Once, UNCHANGED <<emitted, cursor, polled, asOf, tears>>
  PROVE  PollInv' /\ Once'
  BY DEF PollInv, Once, Seen, Later, Retained, ID

(* Every step preserves the poller's part.                                  *)
LEMMA PollStep ==
  ASSUME TypeOK, IdInv, RingInv, LogInv, PollInv, Once, [Next]_vars
  PROVE  LogInv' /\ PollInv' /\ Once'
<1>1. CASE \E t \in Types : EmitTo(t)
  BY <1>1, EmitLog, EmitPoll
<1>2. CASE RestoreNotifications
  <2>1. UNCHANGED <<emitted, cursor, polled, asOf, tears>>
    BY <1>2 DEF RestoreNotifications, poller
  <2> QED
    BY <1>2, <2>1, RestoreLog, QuietPoll
<1>3. ASSUME UNCHANGED <<emitted, nextID, file, notif, tail, tears>> PROVE LogInv'
  BY <1>3 DEF LogInv, Covers, Retained, ID, Follows
<1>4. CASE \E c \in Clients : SubscribeWithReplay(c) \/ Receive(c) \/ Unsubscribe(c)
  <2>1. UNCHANGED <<emitted, nextID, notif, log, poller>>
    BY <1>4 DEF SubscribeWithReplay, Receive, Unsubscribe
  <2> QED
    BY <1>3, <2>1, QuietPoll DEF log, poller
<1>5. CASE Notifications
  <2>1. UNCHANGED <<emitted, nextID, notif, log>>
    BY <1>5 DEF Notifications
  <2> QED
    BY <1>3, <1>5, <2>1, NotificationsPoll DEF log
<1>6. CASE UNCHANGED vars
  <2>1. UNCHANGED <<emitted, nextID, notif, log, poller>>
    BY <1>6 DEF vars
  <2> QED
    BY <1>3, <2>1, QuietPoll DEF log, poller
<1> QED
  BY <1>1, <1>2, <1>4, <1>5, <1>6 DEF Next

(* A client polling with the cursor it was given gets each notification     *)
(* once, in order, over any number of restarts; while every log write       *)
(* succeeds it misses none but by the ring's overflow between two polls     *)
(* (Notifications, RestoreNotifications).                                   *)
THEOREM PolledOnce == Spec => []PollOnce
<1> DEFINE Inv == TypeOK /\ IdInv /\ RingInv /\ LogInv /\ PollInv /\ Once
<1>1. Init => Inv
  <2> SUFFICES ASSUME Init PROVE LogInv /\ PollInv /\ Once
    BY BaseInit
  <2>1. /\ emitted = <<>> /\ DOMAIN emitted = {} /\ Len(emitted) = 0 /\ asOf = 0 /\ cursor = 0
        /\ polled = <<>> /\ tail = "closed"
    BY DEF Init
  <2>2. Retained = {}
    BY <2>1 DEF Retained
  <2> QED
    BY <2>1, <2>2, EmptySeq DEF LogInv, PollInv, Once, Covers
<1>2. Inv /\ [Next]_vars => Inv'
  <2> SUFFICES ASSUME Inv, [Next]_vars PROVE Inv'
    OBVIOUS
  <2> QED
    BY BaseStep, PollStep
<1>3. Inv => PollOnce
  BY DEF PollInv, Once, Seen, Later, PollOnce, Ascending
<1> HIDE DEF Inv
<1> QED
  BY <1>1, <1>2, <1>3, PTL DEF Spec

-----------------------------------------------------------------------------
(* What a bad write costs                                                  *)

(* A part of a set with one element more is at the most one larger.         *)
LEMMA OneMore ==
  ASSUME NEW A, IsFiniteSet(A), NEW B, NEW x, B \subseteq A \cup {x}
  PROVE  IsFiniteSet(B) /\ Cardinality(B) <= Cardinality(A) + 1
         /\ Cardinality(A) \in Nat /\ Cardinality(B) \in Nat
<1>1. /\ IsFiniteSet(A \cup {x})
      /\ Cardinality(A \cup {x}) = IF x \in A THEN Cardinality(A) ELSE Cardinality(A) + 1
  BY FS_AddElement
<1>2. IsFiniteSet(B) /\ Cardinality(B) <= Cardinality(A \cup {x})
  BY <1>1, FS_Subset
<1>3. /\ Cardinality(A) \in Nat /\ Cardinality(B) \in Nat /\ Cardinality(A \cup {x}) \in Nat
  BY <1>1, <1>2, FS_CardinalityType
<1> QED
  BY <1>1, <1>2, <1>3

(* What the cut drops has as many later lines as the cut keeps.             *)
LEMMA DroppedIsOld ==
  ASSUME NEW R, IsFiniteSet(R), NEW q \in Seq(Numbers), Ascending(q), Elements(q) \subseteq R,
         NEW k \in Nat \ {0}, NEW r, r = Newest(q, k), NEW e \in Elements(q) \ Elements(r)
  PROVE  ~(Cardinality({m \in R : m > e}) < k)
<1>1. /\ Newest(q, k) \in Seq(Numbers) /\ Elements(Newest(q, k)) \subseteq Elements(q)
      /\ Ascending(Newest(q, k))
      /\ \A d \in Elements(q) \ Elements(Newest(q, k)) :
           Len(Newest(q, k)) = k /\ \A m \in Elements(Newest(q, k)) : d < m
  BY NewestFacts, Sizes
<1>2. /\ r \in Seq(Numbers) /\ Elements(r) \subseteq Elements(q) /\ Ascending(r)
      /\ Len(r) = k /\ \A m \in Elements(r) : e < m
  BY <1>1
<1>3. Cardinality(Elements(r)) = k
  BY <1>2, AscendingSize, Sizes
<1>4. e \in Nat /\ \A m \in Elements(r) : m \in Nat
  <2>1. Elements(q) \subseteq Numbers /\ Elements(r) \subseteq Numbers
    BY <1>2 DEF Elements
  <2> QED
    BY <2>1, Sizes
<1>5. Elements(r) \subseteq {m \in R : m > e}
  BY <1>2, <1>4
<1>6. IsFiniteSet({m \in R : m > e})
  <2>1. {m \in R : m > e} \in SUBSET R
    OBVIOUS
  <2> QED
    BY <2>1, FS_Subset
<1>7. Cardinality(Elements(r)) <= Cardinality({m \in R : m > e})
  BY <1>5, <1>6, FS_Subset
<1>8. Cardinality({m \in R : m > e}) \in Nat
  BY <1>6, FS_CardinalityType
<1> QED
  BY <1>3, <1>7, <1>8

(* The retained events are finitely many.                                   *)
LEMMA RetainedFinite ==
  ASSUME TypeOK
  PROVE  /\ IsFiniteSet(Retained) /\ IsFiniteSet(Wanted \ Elements(file))
         /\ \A x : IsFiniteSet({m \in Retained : m > x}) /\ Cardinality({m \in Retained : m > x}) \in Nat
<1>1. Retained \in SUBSET (1..Len(emitted))
  BY EmittedTypes DEF Retained
<1>2. IsFiniteSet(1..Len(emitted))
  BY EmittedTypes, FS_Interval
<1>3. IsFiniteSet(Retained)
  BY <1>1, <1>2, FS_Subset
<1>4. Wanted \ Elements(file) \in SUBSET Retained
  BY DEF Wanted
<1>5. ASSUME NEW x PROVE IsFiniteSet({m \in Retained : m > x}) /\ Cardinality({m \in Retained : m > x}) \in Nat
  <2>1. {m \in Retained : m > x} \in SUBSET Retained
    OBVIOUS
  <2>2. IsFiniteSet({m \in Retained : m > x})
    BY <1>3, <2>1, FS_Subset
  <2> QED
    BY <2>2, FS_CardinalityType
<1>6. IsFiniteSet(Wanted \ Elements(file))
  BY <1>3, <1>4, FS_Subset
<1> QED
  BY <1>3, <1>5, <1>6

Missing == Wanted \ Elements(file)

(* A retained event is at the most one more that is wanted, and the cut     *)
(* drops none of those.                                                     *)
LEMMA WantedGrows ==
  ASSUME TypeOK, TypeOK', IdInv, RingInv, NEW t \in Types, EmitTo(t),
         NEW k, k = Len(emitted) + 1, emitted'[k].retained
  PROVE  /\ Wanted' \subseteq Wanted \cup {k}
         /\ \A q \in Seq(Numbers) : Ascending(q) /\ Elements(q) \subseteq Elements(file) \cup {k} =>
              Wanted' \ Elements(Newest(q, NotifSize)) \subseteq Wanted' \ Elements(q)
<1>1. Retained' = Retained \cup {k}
  BY FollowsGrow
<1>2. PICK R : R = Retained'
  OBVIOUS
<1>3. PICK W : W = Wanted'
  OBVIOUS
<1>4. W = {n \in R : Cardinality({m \in R : m > n}) < NotifSize}
  BY <1>2, <1>3 DEF Wanted
<1>5. IsFiniteSet(R)
  <2>1. IsFiniteSet(Retained)
    BY RetainedFinite
  <2> QED
    BY <1>1, <1>2, <2>1, FS_AddElement
<1>6. ASSUME NEW n \in W, n # k PROVE n \in Wanted
  <2>1. n \in Retained /\ Cardinality({m \in R : m > n}) < NotifSize
    BY <1>1, <1>2, <1>4, <1>6
  <2>2. {m \in Retained : m > n} \subseteq {m \in R : m > n}
    BY <1>1, <1>2
  <2>3. IsFiniteSet({m \in R : m > n})
    <3>1. {m \in R : m > n} \in SUBSET R
      OBVIOUS
    <3> QED
      BY <1>5, <3>1, FS_Subset
  <2>4. /\ Cardinality({m \in Retained : m > n}) <= Cardinality({m \in R : m > n})
        /\ Cardinality({m \in R : m > n}) \in Nat /\ Cardinality({m \in Retained : m > n}) \in Nat
    BY <2>2, <2>3, FS_Subset, FS_CardinalityType, RetainedFinite
  <2>5. Cardinality({m \in Retained : m > n}) < NotifSize
    BY <2>1, <2>4, Sizes
  <2> QED
    BY <2>1, <2>5 DEF Wanted
<1>7. ASSUME NEW q \in Seq(Numbers), Ascending(q), Elements(q) \subseteq Elements(file) \cup {k}
      PROVE  W \ Elements(Newest(q, NotifSize)) \subseteq W \ Elements(q)
  <2>1. Elements(q) \subseteq R
    BY <1>1, <1>2, <1>7 DEF IdInv
  <2>2. PICK r : r = Newest(q, NotifSize)
    OBVIOUS
  <2>3. ASSUME NEW e \in Elements(q) \ Elements(r) PROVE e \notin W
    <3>1. ~(Cardinality({m \in R : m > e}) < NotifSize)
      BY <1>5, <1>7, <2>1, <2>2, DroppedIsOld, Sizes
    <3> QED
      BY <1>4, <3>1
  <2> QED
    BY <2>2, <2>3
<1> QED
  BY <1>3, <1>6, <1>7

(* An append loses its own line and the one it is written behind at the     *)
(* most, and the second only after a bad write.                             *)
LEMMA EmitLoss ==
  ASSUME TypeOK, TypeOK', IdInv, RingInv, LossInv, NEW t \in Types, EmitTo(t)
  PROVE  LossInv'
<1>1. PICK k : k = Len(emitted) + 1
  OBVIOUS
<1>2. /\ k \in Numbers /\ \A m \in DOMAIN emitted : m < k
  BY <1>1, Grows
<1>3. /\ emitted'[k].retained => AppendLine(k) \/ AppendTorn(k)
      /\ ~emitted'[k].retained => UNCHANGED log
  BY <1>1, Puts
<1>4. CASE ~emitted'[k].retained
  <2>1. Retained' = Retained /\ UNCHANGED log
    BY <1>1, <1>3, <1>4, FollowsGrow
  <2> QED
    BY <2>1 DEF LossInv, Wanted, Swallows, log
<1>5. CASE emitted'[k].retained
  <2>1. PICK W : W = Wanted'
    OBVIOUS
  <2>2. PICK f : f = file'
    OBVIOUS
  <2>3. /\ W \subseteq Wanted \cup {k}
        /\ \A q \in Seq(Numbers) : Ascending(q) /\ Elements(q) \subseteq Elements(file) \cup {k} =>
             W \ Elements(Newest(q, NotifSize)) \subseteq W \ Elements(q)
    BY <1>1, <1>5, <2>1, WantedGrows
  <2>4. /\ file \in Seq(Numbers) /\ Ascending(file) /\ tears \in Nat /\ Len(file) \in Nat
        /\ tail \in {"closed", "garbage", "bare"} /\ IsFiniteSet(Missing)
        /\ \A e \in Elements(file) : e < k
    <3>1. /\ file \in Seq(Numbers) /\ Ascending(file) /\ tail \in {"closed", "garbage", "bare"}
          /\ \A e \in Elements(file) : e \in DOMAIN emitted
      BY DEF TypeOK, IdInv, Retained
    <3>2. tears \in Nat /\ IsFiniteSet(Missing)
      BY EmittedTypes, RetainedFinite DEF Missing
    <3> QED
      BY <1>2, <3>1, <3>2
  <2>5. /\ Append(file, k) \in Seq(Numbers) /\ Ascending(Append(file, k))
        /\ Elements(Append(file, k)) = Elements(file) \cup {k}
    BY <1>2, <2>4, AppendFacts, Sizes
  <2>6. PICK b : b = ButLast(file)
    OBVIOUS
  <2>7. /\ b \in Seq(Numbers) /\ Ascending(b) /\ Elements(b) \subseteq Elements(file)
        /\ \E x : Elements(file) \subseteq Elements(b) \cup {x}
    <3>0. Numbers \in SUBSET Nat /\ file \in Seq(Numbers) /\ Ascending(file)
      BY <2>4, Sizes
    <3>1. /\ b \in Seq(Numbers) /\ Ascending(b) /\ Elements(b) \subseteq Elements(file)
          /\ file # <<>> => Elements(file) = Elements(b) \cup {file[Len(file)]}
      BY <2>6, <3>0, ButLastFacts
    <3>2. file = <<>> => Elements(file) = {}
      BY EmptySeq
    <3> QED
      BY <3>1, <3>2
  <2>8. PICK last1 : Elements(file) \subseteq Elements(b) \cup {last1}
    BY <2>7
  <2>9. PICK lines : lines = Lines(k)
    OBVIOUS
  <2>10. /\ tail = "closed" => lines = Append(file, k)
         /\ tail = "garbage" => lines = file
         /\ tail = "bare" => lines = b
    BY <2>6, <2>9 DEF Lines, ButLast
  <2>11. /\ lines \in Seq(Numbers) /\ Ascending(lines) /\ Elements(lines) \subseteq Elements(file) \cup {k}
    BY <2>4, <2>5, <2>7, <2>10
  <2>12. /\ W \ Elements(Append(file, k)) \subseteq Missing
         /\ W \ Elements(file) \subseteq Missing \cup {k}
         /\ W \ Elements(b) \subseteq (Missing \cup {k}) \cup {last1}
    BY <2>3, <2>5, <2>8 DEF Missing
  <2>13. /\ IsFiniteSet(Missing \cup {k}) /\ Cardinality(Missing \cup {k}) <= Cardinality(Missing) + 1
         /\ Cardinality(Missing) \in Nat /\ Cardinality(Missing \cup {k}) \in Nat
    BY <2>4, OneMore
  <2>14. /\ Cardinality(Missing) + Swallows <= 2 * tears
         /\ Swallows = IF tail = "closed" THEN 0 ELSE IF tail = "garbage" THEN 1 ELSE 2
    BY DEF LossInv, Missing, Swallows
  <2>15. \A B : B \subseteq Missing => IsFiniteSet(B) /\ Cardinality(B) <= Cardinality(Missing) /\ Cardinality(B) \in Nat
    BY <2>4, FS_Subset, FS_CardinalityType
  <2>16. \A B : B \subseteq Missing \cup {k} =>
           IsFiniteSet(B) /\ Cardinality(B) <= Cardinality(Missing) + 1 /\ Cardinality(B) \in Nat
    BY <2>4, OneMore
  <2>17. \A B : B \subseteq (Missing \cup {k}) \cup {last1} =>
           IsFiniteSet(B) /\ Cardinality(B) <= Cardinality(Missing) + 2 /\ Cardinality(B) \in Nat
    <3>1. ASSUME NEW B, B \subseteq (Missing \cup {k}) \cup {last1}
          PROVE  IsFiniteSet(B) /\ Cardinality(B) <= Cardinality(Missing) + 2 /\ Cardinality(B) \in Nat
      <4>1. /\ IsFiniteSet(B) /\ Cardinality(B) <= Cardinality(Missing \cup {k}) + 1
            /\ Cardinality(B) \in Nat
        BY <2>13, <3>1, OneMore
      <4> QED
        BY <2>13, <4>1
    <3> QED
      BY <3>1
  <2> DEFINE lost == Cardinality(W \ Elements(f))
             left == IF tail' = "closed" THEN 0 ELSE IF tail' = "garbage" THEN 1 ELSE 2
  <2>18. SUFFICES lost + left <= 2 * tears'
    BY <2>1, <2>2 DEF LossInv, Swallows
  <2>19. CASE AppendLine(k)
    <3>1. /\ tail' = "closed" /\ tears' = tears
          /\ f = Newest(lines, NotifSize) \/ f = lines
      BY <2>2, <2>9, <2>19 DEF AppendLine
    <3>2. W \ Elements(f) \subseteq W \ Elements(lines)
      BY <2>3, <2>11, <3>1
    <3>3. CASE tail = "closed"
      <4>1. W \ Elements(f) \subseteq Missing
        BY <2>10, <2>12, <3>2, <3>3
      <4>2. lost <= Cardinality(Missing) /\ lost \in Nat
        BY <2>15, <4>1
      <4> QED
        BY <2>4, <2>13, <2>14, <3>1, <3>3, <4>2
    <3>4. CASE tail = "garbage"
      <4>1. W \ Elements(f) \subseteq Missing \cup {k}
        BY <2>10, <2>12, <3>2, <3>4
      <4>2. lost <= Cardinality(Missing) + 1 /\ lost \in Nat
        BY <2>16, <4>1
      <4> QED
        BY <2>4, <2>13, <2>14, <3>1, <3>4, <4>2
    <3>5. CASE tail = "bare"
      <4>1. W \ Elements(f) \subseteq (Missing \cup {k}) \cup {last1}
        BY <2>10, <2>12, <3>2, <3>5
      <4>2. lost <= Cardinality(Missing) + 2 /\ lost \in Nat
        BY <2>17, <4>1
      <4> QED
        BY <2>4, <2>13, <2>14, <3>1, <3>5, <4>2
    <3> QED
      BY <2>4, <3>3, <3>4, <3>5
  <2>20. CASE AppendTorn(k)
    <3>1. tears' = tears + 1
      BY <2>20 DEF AppendTorn
    <3>2. CASE f = file /\ tail' = tail
      <4>1. lost <= Cardinality(Missing) + 1 /\ lost \in Nat
        BY <2>12, <2>16, <3>2
      <4> QED
        BY <2>4, <2>13, <2>14, <3>1, <3>2, <4>1
    <3>3. CASE tail' = "garbage" /\ tail = "bare" /\ f = lines
      <4>1. W \ Elements(f) \subseteq (Missing \cup {k}) \cup {last1}
        BY <2>10, <2>12, <3>3
      <4>2. lost <= Cardinality(Missing) + 2 /\ lost \in Nat
        BY <2>17, <4>1
      <4> QED
        BY <2>4, <2>13, <2>14, <3>1, <3>3, <4>2
    <3>4. CASE tail' = "garbage" /\ tail # "bare" /\ f = file
      <4>1. lost <= Cardinality(Missing) + 1 /\ lost \in Nat
        BY <2>12, <2>16, <3>4
      <4> QED
        BY <2>4, <2>13, <2>14, <3>1, <3>4, <4>1
    <3>5. CASE tail = "closed" /\ tail' = "bare" /\ f = Append(file, k)
      <4>1. lost <= Cardinality(Missing) /\ lost \in Nat
        BY <2>12, <2>15, <3>5
      <4> QED
        BY <2>4, <2>13, <2>14, <3>1, <3>5, <4>1
    <3> QED
      BY <2>2, <2>9, <2>20, <3>2, <3>3, <3>4, <3>5 DEF AppendTorn
  <2> QED
    BY <1>3, <1>5, <2>19, <2>20
<1> QED
  BY <1>4, <1>5

(* A restart drops no wanted line.                                          *)
LEMMA RestoreLoss ==
  ASSUME TypeOK, IdInv, LossInv, RestoreNotifications
  PROVE  LossInv'
<1>1. /\ emitted' = emitted /\ tears' = tears /\ tail' \in {"closed", tail}
      /\ file' \in {file, Newest(file, NotifSize)}
  BY DEF RestoreNotifications
<1>2. Wanted' = Wanted
  BY <1>1 DEF Wanted, Retained
<1>3. PICK f : f = file'
  OBVIOUS
<1>4. ASSUME NEW e \in Elements(file) \ Elements(f) PROVE e \notin Wanted
  <2>1. /\ file \in Seq(Numbers) /\ Ascending(file) /\ Elements(file) \subseteq Retained
        /\ IsFiniteSet(Retained)
    BY RetainedFinite DEF TypeOK, IdInv
  <2>2. ~(Cardinality({m \in Retained : m > e}) < NotifSize)
    BY <1>1, <1>3, <1>4, <2>1, DroppedIsOld, Sizes
  <2> QED
    BY <2>2 DEF Wanted
<1>5. Wanted \ Elements(f) \subseteq Missing
  BY <1>4 DEF Missing
<1>6. /\ Cardinality(Wanted \ Elements(f)) <= Cardinality(Missing)
      /\ Cardinality(Wanted \ Elements(f)) \in Nat /\ Cardinality(Missing) \in Nat
  <2>1. IsFiniteSet(Missing)
    BY RetainedFinite DEF Missing
  <2> QED
    BY <1>5, <2>1, FS_Subset, FS_CardinalityType
<1>7. /\ Cardinality(Missing) + Swallows <= 2 * tears
      /\ Swallows \in Nat /\ tears \in Nat
  BY EmittedTypes DEF LossInv, Missing, Swallows
<1>8. Swallows' <= Swallows /\ Swallows' \in Nat
  BY <1>1 DEF Swallows
<1>9. Cardinality(Wanted \ Elements(f)) + Swallows' <= 2 * tears
  BY <1>6, <1>7, <1>8
<1> QED
  BY <1>1, <1>2, <1>3, <1>9 DEF LossInv

(* Every step preserves the bound.                                          *)
LEMMA LossStep ==
  ASSUME TypeOK, TypeOK', IdInv, RingInv, LossInv, [Next]_vars
  PROVE  LossInv'
<1>1. CASE \E t \in Types : EmitTo(t)
  BY <1>1, EmitLoss
<1>2. CASE RestoreNotifications
  BY <1>2, RestoreLoss
<1>3. ASSUME UNCHANGED <<emitted, log>> PROVE LossInv'
  BY <1>3 DEF LossInv, Wanted, Retained, Swallows, log
<1>4. CASE \E c \in Clients : SubscribeWithReplay(c) \/ Receive(c) \/ Unsubscribe(c)
  BY <1>3, <1>4 DEF SubscribeWithReplay, Receive, Unsubscribe
<1>5. CASE Notifications
  BY <1>3, <1>5 DEF Notifications
<1>6. CASE UNCHANGED vars
  BY <1>3, <1>6 DEF vars
<1> QED
  BY <1>1, <1>2, <1>4, <1>5, <1>6 DEF Next

(* A write that fails or is cut short costs the log two of the              *)
(* notifications it should hold at the most, its own and a neighbour's,     *)
(* however the log ended before it (Append, readJSONLLine,                  *)
(* loadAndCompactNotifications).                                            *)
THEOREM LossIsBounded == Spec => []LossBounded
<1> DEFINE Inv == TypeOK /\ IdInv /\ RingInv /\ LossInv
<1>1. Init => Inv
  <2> SUFFICES ASSUME Init PROVE LossInv
    BY BaseInit
  <2>1. DOMAIN emitted = {} /\ tears = 0 /\ tail = "closed"
    BY DEF Init
  <2>2. Wanted \ Elements(file) = {}
    BY <2>1 DEF Wanted, Retained
  <2>3. Cardinality({}) = 0
    BY FS_EmptySet
  <2> QED
    BY <2>1, <2>2, <2>3 DEF LossInv, Swallows
<1>2. Inv /\ [Next]_vars => Inv'
  <2> SUFFICES ASSUME Inv, [Next]_vars PROVE Inv'
    OBVIOUS
  <2>1. TypeOK' /\ IdInv' /\ RingInv'
    BY BaseStep
  <2> QED
    BY <2>1, LossStep
<1>3. Inv => LossBounded
  <2> SUFFICES ASSUME Inv PROVE LossBounded
    OBVIOUS
  <2>1. Cardinality(Wanted \ Elements(file)) \in Nat /\ tears \in Nat /\ Swallows \in Nat
    BY RetainedFinite, FS_CardinalityType, EmittedTypes DEF Swallows
  <2>2. Cardinality(Wanted \ Elements(file)) + Swallows <= 2 * tears
    BY DEF LossInv
  <2> QED
    BY <2>1, <2>2 DEF LossBounded
<1> HIDE DEF Inv
<1> QED
  BY <1>1, <1>2, <1>3, PTL DEF Spec

=============================================================================
