--------------------------- MODULE SendTaskProofs ---------------------------
(***************************************************************************)
(* Proofs about SendTask, for any frames, targets, capacities and          *)
(* scenarios.                                                              *)
(***************************************************************************)
EXTENDS SendTask, FiniteSetTheorems, TLAPS

-----------------------------------------------------------------------------
(* The first place of an order list that names one of some targets.        *)
LEMMA LeastNumber ==
    ASSUME NEW S \in SUBSET Nat, S # {}
    PROVE  \E i \in S : \A j \in S : ~(j < i)
<1> DEFINE R == OpToRel(<, Nat)
<1>1. \E i \in S : \A j \in S : <<j, i>> \notin R
  <2>1. IsWellFoundedOn(R, Nat)
    BY NatLessThanWellFounded, Zenon
  <2> HIDE DEF R
  <2>2. QED
    BY <2>1, WFMin, Zenon
<1>2. PICK i \in S : \A j \in S : <<j, i>> \notin R
  BY <1>1, Zenon
<1>3. ASSUME NEW j \in S, j < i PROVE FALSE
  <2>1. <<j, i>> \in R
    BY <1>3 DEF OpToRel
  <2>2. QED
    BY <1>2, <2>1, Zenon
<1>4. QED
  BY <1>3, Zenon

LEMMA FirstPlace ==
    ASSUME NEW s \in Seq(Targets), NEW ts, \E i \in DOMAIN s : s[i] \in ts
    PROVE  First(s, ts) \in DOMAIN s /\ s[First(s, ts)] \in ts
<1> DEFINE S == {i \in DOMAIN s : s[i] \in ts}
<1>1. S \in SUBSET Nat /\ S # {}
  OBVIOUS
<1>2. PICK i \in S : \A j \in S : ~(j < i)
  BY <1>1, LeastNumber, Zenon
<1>3. i \in DOMAIN s /\ s[i] \in ts /\ \A j \in DOMAIN s : j < i => s[j] \notin ts
  BY <1>2, Zenon
<1>4. QED
  BY <1>3, Zenon DEF First

-----------------------------------------------------------------------------
(* How often an order list names a target.                                 *)
Places(s, ts) == {i \in DOMAIN s : s[i] \in ts}

LEMMA PlacesOfAll ==
    ASSUME NEW s \in Seq(Targets)
    PROVE  IsFiniteSet(DOMAIN s) /\ Cardinality(DOMAIN s) = Len(s)
<1>1. Len(s) \in Nat /\ DOMAIN s = 1 .. Len(s)
  OBVIOUS
<1>2. IsFiniteSet(1 .. Len(s)) /\ Cardinality(1 .. Len(s)) = Len(s)
  <2>1. 1 \in Int /\ Len(s) \in Int
    BY <1>1
  <2>2. IsFiniteSet(1 .. Len(s)) /\ Cardinality(1 .. Len(s)) = IF 1 > Len(s) THEN 0 ELSE Len(s) - 1 + 1
    BY <2>1, FS_Interval, Zenon
  <2>3. (IF 1 > Len(s) THEN 0 ELSE Len(s) - 1 + 1) = Len(s)
    BY <1>1
  <2>4. QED
    BY <2>2, <2>3
<1>3. QED
  BY <1>1, <1>2, Zenon

LEMMA PlacesFinite ==
    ASSUME NEW s \in Seq(Targets), NEW ts
    PROVE  /\ IsFiniteSet(Places(s, ts)) /\ Times(s, ts) = Cardinality(Places(s, ts))
           /\ Times(s, ts) \in Nat /\ Times(s, ts) <= Len(s)
           /\ Times(s, ts) = Len(s) => Places(s, ts) = DOMAIN s
<1>1. Len(s) \in Nat /\ DOMAIN s = 1 .. Len(s)
  OBVIOUS
<1>2. IsFiniteSet(1 .. Len(s)) /\ Cardinality(1 .. Len(s)) = Len(s)
  BY <1>1, PlacesOfAll, Zenon
<1>3. Places(s, ts) \in SUBSET (1 .. Len(s))
  BY <1>1, Zenon DEF Places
<1>4. /\ IsFiniteSet(Places(s, ts)) /\ Cardinality(Places(s, ts)) <= Len(s)
      /\ Cardinality(Places(s, ts)) = Len(s) => Places(s, ts) = 1 .. Len(s)
  <2>1. /\ IsFiniteSet(Places(s, ts)) /\ Cardinality(Places(s, ts)) <= Cardinality(1 .. Len(s))
        /\ Cardinality(1 .. Len(s)) = Cardinality(Places(s, ts)) => 1 .. Len(s) = Places(s, ts)
    BY <1>2, <1>3, FS_Subset, Zenon
  <2>2. QED
    BY <1>2, <2>1, Zenon
<1>5. Times(s, ts) = Cardinality(Places(s, ts))
  BY Zenon DEF Times, Places
<1>6. QED
  BY <1>1, <1>4, <1>5, FS_CardinalityType, Zenon

LEMMA NoPlaces ==
    ASSUME NEW ts
    PROVE  <<>> \in Seq(Targets) /\ Times(<<>>, ts) = 0
<1>1. <<>> \in Seq(Targets) /\ Len(<<>>) = 0
  OBVIOUS
<1>2. Times(<<>>, ts) \in Nat /\ Times(<<>>, ts) <= 0
  BY <1>1, PlacesFinite, Zenon
<1>3. QED
  BY <1>1, <1>2

(* An entry more.                                                          *)
LEMMA TimesAppended ==
    ASSUME NEW s \in Seq(Targets), NEW t \in Targets, NEW ts
    PROVE  /\ Append(s, t) \in Seq(Targets) /\ Len(Append(s, t)) = Len(s) + 1
           /\ t \in ts => Times(Append(s, t), ts) = Times(s, ts) + 1
           /\ t \notin ts => Times(Append(s, t), ts) = Times(s, ts)
<1> DEFINE r == Append(s, t)  n == Len(s) + 1
<1>1. r \in Seq(Targets) /\ Len(r) = n
  OBVIOUS
<1>2. n \notin Places(s, ts)
  BY DEF Places
<1>3. CASE t \in ts
  <2>1. Places(r, ts) = Places(s, ts) \cup {n}
    BY <1>3 DEF Places
  <2> HIDE DEF r, n
  <2>2. Cardinality(Places(r, ts)) = Cardinality(Places(s, ts)) + 1
    <3>1. IsFiniteSet(Places(s, ts))
      BY PlacesFinite, Zenon
    <3>2. QED
      BY <1>2, <2>1, <3>1, FS_AddElement, Zenon
  <2>3. Times(r, ts) = Times(s, ts) + 1
    BY <1>1, <2>2, PlacesFinite, Zenon
  <2>4. QED
    BY <1>1, <1>3, <2>3, Zenon DEF r, n
<1>4. CASE t \notin ts
  <2>1. Places(r, ts) = Places(s, ts)
    BY <1>4 DEF Places
  <2> HIDE DEF r, n
  <2>2. Times(r, ts) = Times(s, ts)
    BY <1>1, <2>1, PlacesFinite, Zenon
  <2>3. QED
    BY <1>1, <1>4, <2>2, Zenon DEF r, n
<1>5. QED
  BY <1>3, <1>4, Zenon

(* The first entry of a target less.                                       *)
LEMMA TimesWithout ==
    ASSUME NEW s \in Seq(Targets), NEW t \in Targets, \E i \in DOMAIN s : s[i] = t, NEW ts
    PROVE  /\ OrderWithout(s, t) \in Seq(Targets) /\ Len(OrderWithout(s, t)) = Len(s) - 1
           /\ t \in ts => Times(OrderWithout(s, t), ts) = Times(s, ts) - 1
           /\ t \notin ts => Times(OrderWithout(s, t), ts) = Times(s, ts)
           /\ \A i \in DOMAIN OrderWithout(s, t) : \E j \in DOMAIN s : OrderWithout(s, t)[i] = s[j]
<1> DEFINE k == First(s, {t})
           At(j) == IF j < k THEN j ELSE j + 1
           r == [j \in 1 .. Len(s) - 1 |-> s[At(j)]]
<1>1. k \in 1 .. Len(s) /\ s[k] = t
  <2>1. \E i \in DOMAIN s : s[i] \in {t}
    BY Zenon
  <2>2. k \in DOMAIN s /\ s[k] \in {t}
    BY <2>1, FirstPlace, Zenon
  <2>3. QED
    BY <2>2
<1>2. OrderWithout(s, t) = r
  BY Zenon DEF OrderWithout
<1> HIDE DEF k
<1>3. \A j \in 1 .. Len(s) - 1 : At(j) \in 1 .. Len(s)
  BY <1>1
<1>4. r \in Seq(Targets) /\ Len(r) = Len(s) - 1 /\ DOMAIN r = 1 .. Len(s) - 1
  <2>1. Len(s) - 1 \in Nat
    BY <1>1
  <2>2. \A j \in 1 .. Len(s) - 1 : s[At(j)] \in Targets
    BY <1>3
  <2> HIDE DEF At
  <2>3. QED
    BY <2>1, <2>2
<1>5. \A i \in DOMAIN r : \E j \in DOMAIN s : r[i] = s[j]
  <2>1. SUFFICES ASSUME NEW i \in DOMAIN r PROVE \E j \in DOMAIN s : r[i] = s[j]
    BY Zenon
  <2>2. At(i) \in DOMAIN s /\ r[i] = s[At(i)]
    BY <1>3, <1>4
  <2>3. QED
    BY <2>2, Zenon
<1>6. Cardinality(Places(s, ts) \ {k}) = Cardinality(Places(r, ts)) /\ IsFiniteSet(Places(r, ts))
  <2> DEFINE f == [j \in Places(r, ts) |-> At(j)]
             B == Places(s, ts) \ {k}
  <2>1. \A j \in Places(r, ts) : At(j) \in B
    BY <1>1, <1>3, <1>4 DEF Places
  <2>2. \A i, j \in Places(r, ts) : At(i) = At(j) => i = j
    BY <1>1, <1>4 DEF Places
  <2>3. \A i \in B : \E j \in Places(r, ts) : At(j) = i
    <3>1. SUFFICES ASSUME NEW i \in B PROVE \E j \in Places(r, ts) : At(j) = i
      BY Zenon
    <3>2. i \in 1 .. Len(s) /\ i # k /\ s[i] \in ts
      BY DEF Places
    <3>3. CASE i < k
      <4>1. i \in 1 .. Len(s) - 1 /\ At(i) = i
        BY <1>1, <3>2, <3>3
      <4>2. i \in Places(r, ts)
        BY <1>4, <3>2, <4>1 DEF Places
      <4>3. QED
        BY <4>1, <4>2, Zenon
    <3>4. CASE ~(i < k)
      <4>1. i - 1 \in 1 .. Len(s) - 1 /\ At(i - 1) = i
        BY <1>1, <3>2, <3>4
      <4>2. i - 1 \in Places(r, ts)
        BY <1>4, <3>2, <4>1 DEF Places
      <4>3. QED
        BY <4>1, <4>2, Zenon
    <3>5. QED
      BY <3>3, <3>4, Zenon
  <2>4. f \in Bijection(Places(r, ts), B)
    <3> HIDE DEF B, r, At
    <3>1. f \in [Places(r, ts) -> B]
      BY <2>1, Zenon
    <3>2. \A i, j \in Places(r, ts) : f[i] = f[j] => i = j
      BY <2>2, Zenon
    <3>3. \A i \in B : \E j \in Places(r, ts) : f[j] = i
      BY <2>3, Zenon
    <3> HIDE DEF f
    <3>4. f \in Injection(Places(r, ts), B)
      BY <3>1, <3>2, Zenon DEF Injection, IsInjective
    <3>5. f \in Surjection(Places(r, ts), B)
      BY <3>1, <3>3, Zenon DEF Surjection
    <3>6. QED
      BY <3>4, <3>5, Zenon DEF Bijection
  <2> HIDE DEF f, B, r, At
  <2>5. ExistsBijection(Places(r, ts), B)
    BY <2>4, Zenon DEF ExistsBijection
  <2>6. IsFiniteSet(Places(r, ts))
    BY <1>4, PlacesFinite, Zenon
  <2>7. QED
    BY <2>5, <2>6, FS_Bijection, Zenon DEF B
<1> HIDE DEF r
<1>7. t \in ts => Times(r, ts) = Times(s, ts) - 1
  <2>1. SUFFICES ASSUME t \in ts PROVE Times(r, ts) = Times(s, ts) - 1
    BY Zenon
  <2>2. k \in Places(s, ts)
    BY <1>1, <2>1 DEF Places
  <2>3. Cardinality(Places(s, ts) \ {k}) = Cardinality(Places(s, ts)) - 1
    BY <2>2, PlacesFinite, FS_RemoveElement, Zenon
  <2>4. QED
    BY <1>4, <1>6, <2>3, PlacesFinite, Zenon
<1>8. t \notin ts => Times(r, ts) = Times(s, ts)
  <2>1. SUFFICES ASSUME t \notin ts PROVE Times(r, ts) = Times(s, ts)
    BY Zenon
  <2>2. Places(s, ts) \ {k} = Places(s, ts)
    BY <1>1, <2>1 DEF Places
  <2>3. QED
    BY <1>4, <1>6, <2>2, PlacesFinite, Zenon
<1>9. QED
  BY <1>2, <1>4, <1>5, <1>7, <1>8, Zenon

(* One target more among those that are counted.                           *)
LEMMA TimesOfOneMore ==
    ASSUME NEW s \in Seq(Targets), NEW ts, NEW t, t \notin ts, NEW us, us = ts \cup {t}
    PROVE  Times(s, us) = Times(s, ts) + Times(s, {t})
<1>1. Places(s, us) = Places(s, ts) \cup Places(s, {t}) /\ Places(s, ts) \cap Places(s, {t}) = {}
  BY Zenon DEF Places
<1>2. Cardinality(Places(s, us))
        = Cardinality(Places(s, ts)) + Cardinality(Places(s, {t})) - Cardinality({})
  <2>1. IsFiniteSet(Places(s, ts)) /\ IsFiniteSet(Places(s, {t}))
    BY PlacesFinite, Zenon
  <2>2. Cardinality(Places(s, ts) \cup Places(s, {t}))
          = Cardinality(Places(s, ts)) + Cardinality(Places(s, {t}))
            - Cardinality(Places(s, ts) \cap Places(s, {t}))
    BY <2>1, FS_Union, Zenon
  <2>3. QED
    BY <1>1, <2>2, Zenon
<1>3. Times(s, us) = Times(s, ts) + Times(s, {t}) - 0
  BY <1>2, PlacesFinite, FS_EmptySet, Zenon
<1>4. Times(s, ts) \in Nat /\ Times(s, {t}) \in Nat
  BY PlacesFinite, Zenon
<1>5. QED
  BY <1>3, <1>4

(* A target that is named is counted, and one that is counted is named.    *)
LEMMA TimesOfNamed ==
    ASSUME NEW s \in Seq(Targets), NEW ts
    PROVE  Times(s, ts) # 0 <=> \E i \in DOMAIN s : s[i] \in ts
<1>1. Times(s, ts) = 0 <=> Places(s, ts) = {}
  BY PlacesFinite, FS_EmptySet, Zenon
<1>2. QED
  BY <1>1, Zenon DEF Places

-----------------------------------------------------------------------------
(* The sizes of a set of frames, and of one frame more or less.            *)
FrameType ==
    [Frames -> [target : Targets, prio : Prios, size : Nat \ {0}, packets : Nat \ {0},
                wait : {"nonBlock", "timeout", "forever", "none"}]]

Bytes(fr, f) == {f} \X (1 .. fr[f].size)
Units(fr, S) == UNION {Bytes(fr, f) : f \in S}

LEMMA BytesOfOne ==
    ASSUME NEW fr \in FrameType, NEW f \in Frames
    PROVE  /\ IsFiniteSet(Bytes(fr, f)) /\ Cardinality(Bytes(fr, f)) = fr[f].size
           /\ fr[f].size \in Nat
<1>1. fr[f].size \in Nat
  BY DEF FrameType
<1>2. IsFiniteSet(1 .. fr[f].size) /\ Cardinality(1 .. fr[f].size) = fr[f].size
  <2> DEFINE n == fr[f].size
  <2> HIDE DEF n
  <2>1. 1 \in Int /\ n \in Int
    BY <1>1 DEF n
  <2>2. IsFiniteSet(1 .. n) /\ Cardinality(1 .. n) = IF 1 > n THEN 0 ELSE n - 1 + 1
    BY <2>1, FS_Interval, Zenon
  <2>3. (IF 1 > n THEN 0 ELSE n - 1 + 1) = n
    BY <1>1 DEF n
  <2>4. QED
    BY <2>2, <2>3 DEF n
<1>3. IsFiniteSet({f}) /\ Cardinality({f}) = 1
  BY FS_Singleton, Zenon
<1>4. /\ IsFiniteSet(Bytes(fr, f))
      /\ Cardinality(Bytes(fr, f)) = Cardinality({f}) * Cardinality(1 .. fr[f].size)
  BY <1>2, <1>3, FS_Product, Zenon DEF Bytes
<1>5. Cardinality({f}) * Cardinality(1 .. fr[f].size) = fr[f].size
  BY <1>1, <1>2, <1>3
<1>6. QED
  BY <1>1, <1>4, <1>5, Zenon

LEMMA UnitsFinite ==
    ASSUME NEW fr \in FrameType, NEW S \in SUBSET Frames
    PROVE  /\ IsFiniteSet(Units(fr, S)) /\ TotalSize(fr, S) \in Nat
           /\ TotalSize(fr, S) = Cardinality(Units(fr, S))
<1> DEFINE BytesOf == [f \in S |-> Bytes(fr, f)]
           All == {Bytes(fr, f) : f \in S}
<1>1. BytesOf \in Surjection(S, All)
  BY Zenon DEF Surjection
<1>2. IsFiniteSet(S)
  BY SendTaskAssumption, FS_Subset, Zenon DEF SendTaskAssumption
<1>3. IsFiniteSet(All)
  <2> HIDE DEF BytesOf, All
  <2>1. QED
    BY <1>1, <1>2, FS_Surjection, Zenon
<1>4. ASSUME NEW f \in S PROVE IsFiniteSet(Bytes(fr, f))
  BY BytesOfOne, Zenon
<1>5. IsFiniteSet(Units(fr, S))
  BY <1>3, <1>4, FS_UNION, Zenon DEF Units
<1>6. QED
  BY <1>5, FS_CardinalityType, Zenon DEF Units, Bytes, TotalSize

LEMMA SizeOfOneMore ==
    ASSUME NEW fr \in FrameType, NEW S \in SUBSET Frames, NEW f \in Frames, f \notin S,
           NEW T, T = S \cup {f}
    PROVE  TotalSize(fr, T) = TotalSize(fr, S) + fr[f].size
<1>0. \A R, u : u \in Units(fr, R) <=> \E x \in R : u \in Bytes(fr, x)
  BY Zenon DEF Units
<1>1. Units(fr, T) = Units(fr, S) \cup Bytes(fr, f) /\ Units(fr, S) \cap Bytes(fr, f) = {}
  <2>1. ASSUME NEW u PROVE u \in Units(fr, T) <=> u \in Units(fr, S) \cup Bytes(fr, f)
    <3>1. u \in Units(fr, T) <=> \E x \in T : u \in Bytes(fr, x)
      BY <1>0, Zenon
    <3>2. u \in Units(fr, S) <=> \E x \in S : u \in Bytes(fr, x)
      BY <1>0, Zenon
    <3>3. (\E x \in T : u \in Bytes(fr, x)) <=> (\E x \in S : u \in Bytes(fr, x)) \/ u \in Bytes(fr, f)
      BY Zenon
    <3>4. QED
      BY <3>1, <3>2, <3>3, Zenon
  <2>2. ASSUME NEW u, u \in Units(fr, S), u \in Bytes(fr, f) PROVE FALSE
    <3>1. PICK x \in S : u \in Bytes(fr, x)
      BY <1>0, <2>2, Zenon
    <3>2. u[1] = x /\ u[1] = f
      BY <2>2, <3>1 DEF Bytes
    <3>3. QED
      BY <3>2, Zenon
  <2>3. QED
    BY <2>1, <2>2, Zenon
<1>2. T \in SUBSET Frames
  BY Zenon
<1>3. Cardinality(Units(fr, T))
        = Cardinality(Units(fr, S)) + Cardinality(Bytes(fr, f)) - Cardinality({})
  <2>1. IsFiniteSet(Units(fr, S)) /\ IsFiniteSet(Bytes(fr, f))
    BY BytesOfOne, UnitsFinite, Zenon
  <2>2. Cardinality(Units(fr, S) \cup Bytes(fr, f))
          = Cardinality(Units(fr, S)) + Cardinality(Bytes(fr, f)) - Cardinality(Units(fr, S) \cap Bytes(fr, f))
    BY <2>1, FS_Union, Zenon
  <2>3. QED
    BY <1>1, <2>2, Zenon
<1>4. TotalSize(fr, T) = TotalSize(fr, S) + fr[f].size - 0
  BY <1>2, <1>3, BytesOfOne, UnitsFinite, FS_EmptySet, Zenon
<1>5. TotalSize(fr, S) \in Nat /\ fr[f].size \in Nat
  BY BytesOfOne, UnitsFinite, Zenon
<1>6. QED
  BY <1>4, <1>5

LEMMA SizeOfOneLess ==
    ASSUME NEW fr \in FrameType, NEW S \in SUBSET Frames, NEW f \in S, NEW T, T = S \ {f}
    PROVE  /\ TotalSize(fr, T) = TotalSize(fr, S) - fr[f].size
           /\ TotalSize(fr, T) \in Nat /\ fr[f].size \in Nat
<1>1. T \in SUBSET Frames /\ f \in Frames /\ f \notin T /\ S = T \cup {f}
  BY Zenon
<1>2. TotalSize(fr, S) = TotalSize(fr, T) + fr[f].size
  BY <1>1, SizeOfOneMore, Zenon
<1>3. TotalSize(fr, T) \in Nat
  BY <1>1, UnitsFinite, Zenon
<1>4. fr[f].size \in Nat
  BY <1>1, BytesOfOne, Zenon
<1>5. QED
  BY <1>2, <1>3, <1>4

LEMMA SizeOfNone == ASSUME NEW fr \in FrameType PROVE TotalSize(fr, {}) = 0
<1>1. Units(fr, {}) = {} /\ {} \in SUBSET Frames
  BY Zenon DEF Units
<1>2. QED
  BY <1>1, UnitsFinite, FS_EmptySet, Zenon

-----------------------------------------------------------------------------
(* The queue of a target, in which no frame is twice.                      *)
Members(q)  == {q[i] : i \in DOMAIN q}
NoRepeat(q) == \A i, j \in DOMAIN q : q[i] = q[j] => i = j

LEMMA NoMembers == <<>> \in Seq(Frames) /\ Members(<<>>) = {} /\ NoRepeat(<<>>) /\ Len(<<>>) = 0
  BY DEF Members, NoRepeat

LEMMA MemberAppended ==
    ASSUME NEW q \in Seq(Frames), NEW f \in Frames, NoRepeat(q), f \notin Members(q)
    PROVE  /\ Append(q, f) \in Seq(Frames) /\ NoRepeat(Append(q, f))
           /\ Members(Append(q, f)) = Members(q) \cup {f}
           /\ Len(Append(q, f)) = Len(q) + 1 /\ Append(q, f) # <<>>
           /\ q # <<>> => Append(q, f)[1] = q[1]
<1>1. /\ Append(q, f) \in Seq(Frames) /\ Len(Append(q, f)) = Len(q) + 1 /\ Append(q, f) # <<>>
      /\ q # <<>> => Append(q, f)[1] = q[1]
  <2>1. Append(q, f) \in Seq(Frames) /\ Len(Append(q, f)) = Len(q) + 1 /\ Len(q) \in Nat
    OBVIOUS
  <2>2. Append(q, f) # <<>>
    <3>1. Len(Append(q, f)) # 0 /\ Len(<<>>) = 0
      BY <2>1
    <3>2. QED
      BY <3>1, Zenon
  <2>3. q # <<>> => Append(q, f)[1] = q[1]
    <3>1. q # <<>> => 1 \in 1 .. Len(q)
      OBVIOUS
    <3>2. \A i \in 1 .. Len(q) : Append(q, f)[i] = q[i]
      OBVIOUS
    <3>3. QED
      BY <3>1, <3>2, Zenon
  <2>4. QED
    BY <2>1, <2>2, <2>3, Zenon
<1>2. \A i \in DOMAIN q : q[i] # f
  BY Zenon DEF Members
<1>3. /\ DOMAIN Append(q, f) = DOMAIN q \cup {Len(q) + 1}
      /\ \A i \in DOMAIN q : Append(q, f)[i] = q[i]
      /\ Append(q, f)[Len(q) + 1] = f
  <2>1. /\ Len(q) \in Nat /\ DOMAIN q = 1 .. Len(q) /\ DOMAIN Append(q, f) = 1 .. Len(q) + 1
        /\ Append(q, f)[Len(q) + 1] = f
    OBVIOUS
  <2>2. 1 .. Len(q) + 1 = 1 .. Len(q) \cup {Len(q) + 1}
    BY <2>1
  <2>3. \A i \in DOMAIN q : Append(q, f)[i] = q[i]
    OBVIOUS
  <2>4. QED
    BY <2>1, <2>2, <2>3, Zenon
<1>4. NoRepeat(Append(q, f))
  BY <1>2, <1>3, Zenon DEF NoRepeat
<1>5. Members(Append(q, f)) = Members(q) \cup {f}
  BY <1>3, Zenon DEF Members
<1>6. QED
  BY <1>1, <1>4, <1>5, Zenon

LEMMA FrontRemoved ==
    ASSUME NEW q \in Seq(Frames), q # <<>>, NoRepeat(q)
    PROVE  /\ Tail(q) \in Seq(Frames) /\ NoRepeat(Tail(q))
           /\ Members(Tail(q)) = Members(q) \ {q[1]}
           /\ Len(Tail(q)) = Len(q) - 1 /\ q[1] \in Members(q)
<1>1. /\ Tail(q) \in Seq(Frames) /\ Len(Tail(q)) = Len(q) - 1
      /\ 1 \in DOMAIN q
      /\ \A i \in DOMAIN Tail(q) : i + 1 \in DOMAIN q /\ i + 1 # 1 /\ Tail(q)[i] = q[i + 1]
      /\ \A i \in DOMAIN q : i # 1 => i - 1 \in DOMAIN Tail(q) /\ Tail(q)[i - 1] = q[i]
  OBVIOUS
<1>2. NoRepeat(Tail(q))
  <2>1. SUFFICES ASSUME NEW i \in DOMAIN Tail(q), NEW j \in DOMAIN Tail(q), Tail(q)[i] = Tail(q)[j]
                 PROVE  i = j
    BY Zenon DEF NoRepeat
  <2>2. i + 1 \in DOMAIN q /\ j + 1 \in DOMAIN q /\ q[i + 1] = q[j + 1]
    BY <1>1, <2>1, Zenon
  <2>3. i + 1 = j + 1
    BY <2>2, Zenon DEF NoRepeat
  <2>4. i \in Nat /\ j \in Nat
    BY <1>1
  <2>5. QED
    BY <2>3, <2>4
<1>3. Members(Tail(q)) = Members(q) \ {q[1]}
  <2>1. ASSUME NEW x \in Members(Tail(q)) PROVE x \in Members(q) \ {q[1]}
    <3>1. PICK i \in DOMAIN Tail(q) : x = Tail(q)[i]
      BY Zenon DEF Members
    <3>2. i + 1 \in DOMAIN q /\ i + 1 # 1 /\ x = q[i + 1]
      BY <1>1, <3>1, Zenon
    <3>3. x # q[1]
      BY <1>1, <3>2, Zenon DEF NoRepeat
    <3>4. QED
      BY <3>2, <3>3, Zenon DEF Members
  <2>2. ASSUME NEW x \in Members(q), x # q[1] PROVE x \in Members(Tail(q))
    <3>1. PICK i \in DOMAIN q : x = q[i]
      BY Zenon DEF Members
    <3>2. i # 1
      BY <2>2, <3>1, Zenon
    <3>3. QED
      BY <1>1, <3>1, <3>2, Zenon DEF Members
  <2>3. QED
    BY <2>1, <2>2, Zenon
<1>4. QED
  BY <1>1, <1>2, <1>3, Zenon DEF Members

(* Totals over the priorities.                                             *)
LEMMA TotalChanged ==
    ASSUME NEW n \in [Prios -> Nat], NEW p \in Prios, NEW k \in Int
    PROVE  Total([n EXCEPT ![p] = @ + k]) = Total(n) + k
  BY SMT DEF Total, Prios

LEMMA TotalAdded ==
    ASSUME NEW n \in [Prios -> Nat], NEW m \in [Prios -> Nat]
    PROVE  Total([p \in Prios |-> n[p] + m[p]]) = Total(n) + Total(m)
  BY SMT DEF Total, Prios

LEMMA TotalSubtracted ==
    ASSUME NEW n \in [Prios -> Nat], NEW m \in [Prios -> Nat]
    PROVE  Total([p \in Prios |-> n[p] - m[p]]) = Total(n) - Total(m)
  BY SMT DEF Total, Prios

-----------------------------------------------------------------------------
(* The inductive invariant.                                                *)
Queued  == {f \in Frames : buffer[f] = "queue"}
Delayed == {t \in Targets : policy[t] = "delay"}

CallTypes ==
    /\ scenario \in Scenarios
    /\ pc \in [Frames -> {"idle", "add", "retry", "blocking", "waiting", "lastRetry", "expired", "wake",
                          "returned"}]
    /\ result \in [Frames -> {"none", "ok", "full", "timeout"}]
    /\ buffer \in [Frames -> {"caller", "queue", "nobody"}]
    /\ ended \in [Frames -> 0..1]  /\ pooled \subseteq Frames
    /\ shutdown \in BOOLEAN  /\ missed \subseteq Frames

QueueTypes ==
    /\ policy \in [Targets -> {"none", "noDelay", "delay"}]
    /\ group \in [Prios -> [Targets -> Seq(Frames)]]
    /\ order \in [Prios -> Seq(Targets)]
    /\ totalByte \in Nat  /\ totalTask \in Nat  /\ delayTask \in Nat
    /\ count \in [Prios -> Nat]  /\ delayCount \in [Prios -> Nat]

ThreadTypes ==
    /\ scheduled \in BOOLEAN  /\ lastTarget \in Targets \union {None}  /\ lastPrio \in Prios
    /\ wakingSignal \in BOOLEAN
    /\ sender \in {"loop", "sleep", "out", "send", "delay", "end", "finalize", "notify", "exited"}
    /\ task \in Frames \union {None}  /\ packet \in Nat  /\ error \in BOOLEAN
    /\ onSendable \in [Targets -> {"idle", "noDelay", "wake"}]
    /\ busy \in [Targets -> BOOLEAN]  /\ busies \in Nat
    /\ finalizer \in {"idle", "notify", "wake", "join", "drain", "drop", "stopped", "destroy", "destroyDrop",
                      "gone"}

(* The order list and the counters of a priority.                          *)
Books(p) ==
    /\ \A t \in Targets : Times(order[p], {t}) = Len(group[p][t])
    /\ count[p] = Len(order[p])
    /\ delayCount[p] = Times(order[p], Delayed)

Totals ==
    /\ totalTask = Total(count)  /\ delayTask = Total(delayCount)
    /\ totalByte = TotalSize(Frame, Queued)

(* A target that has a frame queued has a policy.                          *)
Known(p) == \A i \in DOMAIN order[p] : policy[order[p][i]] # "none"

(* A queued frame is in the queue of its priority and target, once.        *)
Grouped(p, t) ==
    /\ NoRepeat(group[p][t])
    /\ Members(group[p][t]) = {f \in Queued : PrioOf(f) = p /\ TargetOf(f) = t}

QueueInv ==
    /\ QueueTypes /\ Totals /\ QueueBounded
    /\ \A p \in Prios : Books(p) /\ Known(p)
    /\ \A p \in Prios : \A t \in Targets : Grouped(p, t)

(* A call has its buffer until the frame is queued, and leaves it to the   *)
(* caller when it is refused.                                              *)
Call(f) ==
    /\ pc[f] \notin {"wake", "returned"} => buffer[f] = "caller" /\ ended[f] = 0 /\ f \notin pooled
    /\ pc[f] # "returned" => result[f] = "none"
    /\ pc[f] = "wake" /\ buffer[f] = "caller" => shutdown
    /\ result[f] \in {"full", "timeout"} => buffer[f] = "caller"
    /\ result[f] = "ok" => buffer[f] # "caller" \/ shutdown

(* A queued frame has not ended, but for the one that is being finalized.  *)
End(f) ==
    /\ buffer[f] = "queue" => f \notin pooled /\ (ended[f] = 0 \/ (sender = "finalize" /\ task = f))
    /\ f \in pooled => ended[f] = 0 /\ buffer[f] = "nobody"

(* What was scheduled is at the front until it is finalized.               *)
Shown == scheduled /\ lastTarget \in Targets /\ group[lastPrio][lastTarget] # <<>>
Flight ==
    /\ sender \in {"send", "delay", "end", "finalize"} => Shown /\ task = Scheduled(lastPrio, lastTarget)
    /\ sender \in {"end", "finalize"} /\ ~error => packet = Frame[task].packets

(* Finalize empties the queues after the sender is gone, and the           *)
(* destructor after the callers are.                                       *)
Joined     == {"drain", "drop", "stopped", "destroy", "destroyDrop", "gone"}
Dropping   == {"drop", "destroyDrop"}
Destroying == {"destroy", "destroyDrop", "gone"}
Closing ==
    /\ finalizer # "idle" => shutdown
    /\ finalizer \in Joined => sender = "exited"
    /\ finalizer \in Dropping => Shown
    /\ finalizer \in Destroying => \A f \in Frames : pc[f] \in {"idle", "returned"}
    /\ finalizer = "gone" => \A f \in Frames : buffer[f] # "queue"

Inv ==
    /\ CallTypes /\ ThreadTypes /\ QueueInv
    /\ \A f \in Frames : Call(f) /\ End(f)
    /\ Flight /\ Closing

-----------------------------------------------------------------------------
USE Zenon

LEMMA FrameFacts ==
    ASSUME scenario \in Scenarios
    PROVE  /\ Frame \in FrameType
           /\ \A f \in Frames : /\ TargetOf(f) \in Targets /\ PrioOf(f) \in Prios
                                /\ Frame[f].size \in Nat /\ Frame[f].packets \in Nat \ {0}
<1>1. Frame \in FrameType
  BY SendTaskAssumption DEF SendTaskAssumption, Frame, FrameType
<1>2. \A f \in Frames : /\ Frame[f].target \in Targets /\ Frame[f].prio \in Prios
                        /\ Frame[f].size \in Nat /\ Frame[f].packets \in Nat \ {0}
  BY <1>1, SMT DEF FrameType
<1>3. QED
  BY <1>1, <1>2 DEF TargetOf, PrioOf

(* What the steps that do not touch the queues leave alone.                *)
LEMMA QueueKept ==
    ASSUME QueueInv, UNCHANGED <<scenario, queueVars>>, Queued' = Queued
    PROVE  QueueInv'
<1>1. /\ scenario' = scenario /\ policy' = policy /\ group' = group /\ order' = order
      /\ totalByte' = totalByte /\ totalTask' = totalTask /\ delayTask' = delayTask
      /\ count' = count /\ delayCount' = delayCount
  BY DEF queueVars
<1>2. QueueTypes' /\ QueueBounded'
  BY <1>1 DEF QueueInv, QueueTypes, QueueBounded, Frame
<1>3. Totals'
  BY <1>1 DEF QueueInv, Totals, Frame
<1>4. Delayed' = Delayed
  BY <1>1 DEF Delayed
<1>5. ASSUME NEW p \in Prios PROVE Books(p)' /\ Known(p)'
  <2>1. Books(p) /\ Known(p)
    BY DEF QueueInv
  <2>2. QED
    BY <1>1, <1>4, <2>1 DEF Books, Known
<1>6. ASSUME NEW p \in Prios, NEW t \in Targets PROVE Grouped(p, t)'
  <2>1. Grouped(p, t)
    BY DEF QueueInv
  <2>2. QED
    BY <1>1, <2>1 DEF Grouped, PrioOf, TargetOf, Frame
<1>7. QED
  BY <1>2, <1>3, <1>5, <1>6 DEF QueueInv

(* The front of a queue stays where it is.                                 *)
FrontKept(p, t) ==
    group[p][t] # <<>> => group'[p][t] # <<>> /\ group'[p][t][1] = group[p][t][1]

(* AddSendTaskIntoSchedule.                                                *)
LEMMA EnqueueTo ==
    ASSUME CallTypes, QueueInv, NEW f \in Frames, Enqueue(f), buffer[f] = "caller", scenario' = scenario
    PROVE  QueueInv' /\ \A p \in Prios : \A t \in Targets : FrontKept(p, t)
<1> DEFINE t == TargetOf(f)  p == PrioOf(f)
           k == AddedDelay(t)
<1>1. /\ t \in Targets /\ p \in Prios /\ Frame[f].size \in Nat
      /\ Frame \in FrameType /\ Frame' = Frame
  BY FrameFacts DEF CallTypes, Frame
<1>2. /\ totalByte < MaxCapacity + ExtraCapacity(p)
      /\ totalByte' = totalByte + Frame[f].size
      /\ totalTask' = totalTask + 1
      /\ policy' = [policy EXCEPT ![t] = IF policy[t] = "none" THEN "noDelay" ELSE policy[t]]
      /\ delayTask' = delayTask + k
      /\ delayCount' = [delayCount EXCEPT ![p] = delayCount[p] + k]
      /\ count' = [count EXCEPT ![p] = count[p] + 1]
      /\ order' = [order EXCEPT ![p] = Append(order[p], t)]
      /\ group' = [group EXCEPT ![p] = [group[p] EXCEPT ![t] = Append(group[p][t], f)]]
      /\ buffer' = [buffer EXCEPT ![f] = "queue"]
  BY DEF Enqueue, HasRoom, Pushed
<1>3. QueueTypes /\ Totals /\ \A q \in Prios : Books(q) /\ Known(q) /\ \A u \in Targets : Grouped(q, u)
  BY DEF QueueInv
<1>4. k \in {0, 1} /\ (k = 1 <=> t \in Delayed)
  <2>1. CASE policy[t] = "delay"
    BY <1>1, <2>1 DEF AddedDelay, Delayed
  <2>2. CASE policy[t] # "delay"
    <3>1. k = 0 /\ 0 # 1
      BY <2>2, SMT DEF AddedDelay
    <3>2. QED
      BY <2>2, <3>1 DEF Delayed
  <2>3. QED
    BY <2>1, <2>2
<1> HIDE DEF t, p, k
<1>5. Queued' = Queued \cup {f} /\ f \notin Queued
  <2>1. \A g \in Frames : buffer'[g] = "queue" <=> buffer[g] = "queue" \/ g = f
    BY <1>2 DEF CallTypes
  <2>2. QED
    BY <2>1 DEF Queued
<1>6. /\ policy' \in [Targets -> {"none", "noDelay", "delay"}] /\ Delayed' = Delayed
      /\ policy'[t] # "none" /\ \A u \in Targets : policy[u] # "none" => policy'[u] # "none"
  <2>1. policy \in [Targets -> {"none", "noDelay", "delay"}]
    BY <1>3 DEF QueueTypes
  <2>2. CASE policy[t] = "none"
    <3>1. policy' = [policy EXCEPT ![t] = "noDelay"]
      BY <1>2, <2>2
    <3>2. /\ policy' \in [Targets -> {"none", "noDelay", "delay"}]
          /\ policy'[t] = "noDelay" /\ \A u \in Targets : u # t => policy'[u] = policy[u]
      BY <1>1, <2>1, <3>1
    <3>3. \A u \in Targets : policy'[u] = "delay" <=> policy[u] = "delay"
      BY <2>2, <3>2
    <3>4. QED
      BY <3>2, <3>3 DEF Delayed
  <2>3. CASE policy[t] # "none"
    <3>1. policy' = policy
      BY <1>1, <1>2, <2>1, <2>3
    <3>2. QED
      BY <2>1, <2>3, <3>1 DEF Delayed
  <2>4. QED
    BY <2>2, <2>3
<1>7. /\ order \in [Prios -> Seq(Targets)] /\ group \in [Prios -> [Targets -> Seq(Frames)]]
      /\ count \in [Prios -> Nat] /\ delayCount \in [Prios -> Nat]
      /\ totalByte \in Nat /\ totalTask \in Nat /\ delayTask \in Nat
  BY <1>3 DEF QueueTypes
<1>8. /\ order'[p] = Append(order[p], t) /\ count'[p] = count[p] + 1 /\ delayCount'[p] = delayCount[p] + k
      /\ group'[p][t] = Append(group[p][t], f) /\ group' \in [Prios -> [Targets -> Seq(Frames)]]
      /\ \A u \in Targets : u # t => group'[p][u] = group[p][u]
      /\ \A q \in Prios : q # p => /\ order'[q] = order[q] /\ count'[q] = count[q]
                                   /\ delayCount'[q] = delayCount[q] /\ group'[q] = group[q]
  <2>1. Append(group[p][t], f) \in Seq(Frames)
    BY <1>1, <1>7, SMT
  <2>2. group[p] \in [Targets -> Seq(Frames)]
    BY <1>1, <1>7
  <2> DEFINE h == [group[p] EXCEPT ![t] = Append(group[p][t], f)]
  <2>3. /\ h \in [Targets -> Seq(Frames)] /\ h[t] = Append(group[p][t], f)
        /\ \A u \in Targets : u # t => h[u] = group[p][u]
    BY <1>1, <2>1, <2>2
  <2>4. group' = [group EXCEPT ![p] = h]
    BY <1>2
  <2> HIDE DEF h
  <2>5. /\ group' \in [Prios -> [Targets -> Seq(Frames)]] /\ group'[p] = h
        /\ \A q \in Prios : q # p => group'[q] = group[q]
    BY <1>1, <1>7, <2>3, <2>4
  <2>6. /\ order'[p] = Append(order[p], t) /\ count'[p] = count[p] + 1 /\ delayCount'[p] = delayCount[p] + k
        /\ \A q \in Prios : q # p => order'[q] = order[q] /\ count'[q] = count[q] /\ delayCount'[q] = delayCount[q]
    BY <1>1, <1>2, <1>7
  <2>7. QED
    BY <2>3, <2>5, <2>6
<1>9. /\ order[p] \in Seq(Targets) /\ group[p][t] \in Seq(Frames)
      /\ NoRepeat(group[p][t]) /\ f \notin Members(group[p][t])
  <2>1. Grouped(p, t)
    BY <1>1, <1>3
  <2>2. QED
    BY <1>1, <1>5, <1>7, <2>1 DEF Grouped
<1>10. /\ Append(group[p][t], f) \in Seq(Frames) /\ NoRepeat(Append(group[p][t], f))
       /\ Members(Append(group[p][t], f)) = Members(group[p][t]) \cup {f}
       /\ Len(Append(group[p][t], f)) = Len(group[p][t]) + 1 /\ Append(group[p][t], f) # <<>>
       /\ group[p][t] # <<>> => Append(group[p][t], f)[1] = group[p][t][1]
  BY <1>9, MemberAppended
<1>11. ASSUME NEW q \in Prios, NEW u \in Targets PROVE FrontKept(q, u)
  <2>1. CASE q = p /\ u = t
    BY <1>8, <1>10, <2>1 DEF FrontKept
  <2>2. CASE q = p /\ u # t
    BY <1>8, <2>2 DEF FrontKept
  <2>3. CASE q # p
    BY <1>8, <2>3 DEF FrontKept
  <2>4. QED
    BY <2>1, <2>2, <2>3
<1>12. ASSUME NEW q \in Prios, NEW u \in Targets PROVE Grouped(q, u)'
  <2>1. NoRepeat(group[q][u]) /\ Members(group[q][u]) = {g \in Queued : PrioOf(g) = q /\ TargetOf(g) = u}
    BY <1>3 DEF Grouped
  <2>2. \A g : PrioOf(g)' = PrioOf(g) /\ TargetOf(g)' = TargetOf(g)
    BY <1>1 DEF PrioOf, TargetOf
  <2>3. PrioOf(f) = p /\ TargetOf(f) = t
    BY DEF p, t
  <2>4. CASE q = p /\ u = t
    <3>1. {g \in Queued' : PrioOf(g) = q /\ TargetOf(g) = u}
             = {g \in Queued : PrioOf(g) = q /\ TargetOf(g) = u} \cup {f}
      BY <1>5, <2>3, <2>4
    <3>2. group'[q][u] = Append(group[p][t], f) /\ group[q][u] = group[p][t]
      BY <1>8, <2>4
    <3>3. NoRepeat(group'[q][u]) /\ Members(group'[q][u]) = {g \in Queued' : PrioOf(g) = q /\ TargetOf(g) = u}
      BY <1>10, <2>1, <3>1, <3>2
    <3>4. QED
      BY <2>2, <3>3 DEF Grouped
  <2>5. CASE ~(q = p /\ u = t)
    <3>1. {g \in Queued' : PrioOf(g) = q /\ TargetOf(g) = u} = {g \in Queued : PrioOf(g) = q /\ TargetOf(g) = u}
      BY <1>5, <2>3, <2>5
    <3>2. group'[q][u] = group[q][u]
      BY <1>8, <2>5
    <3>3. NoRepeat(group'[q][u]) /\ Members(group'[q][u]) = {g \in Queued' : PrioOf(g) = q /\ TargetOf(g) = u}
      BY <2>1, <3>1, <3>2
    <3>4. QED
      BY <2>2, <3>3 DEF Grouped
  <2>6. QED
    BY <2>4, <2>5
<1>13. Append(order[p], t) \in Seq(Targets) /\ Len(Append(order[p], t)) = Len(order[p]) + 1
  BY <1>1, <1>9, TimesAppended
<1>14. ASSUME NEW q \in Prios PROVE Books(q)'
  <2>1. CASE q # p
    <3>1. Books(q) /\ order'[q] = order[q] /\ count'[q] = count[q] /\ delayCount'[q] = delayCount[q]
          /\ group'[q] = group[q]
      BY <1>3, <1>8, <2>1
    <3>2. QED
      BY <1>6, <3>1 DEF Books
  <2>2. CASE q = p
    <3>1. /\ \A u \in Targets : Times(order[p], {u}) = Len(group[p][u])
          /\ count[p] = Len(order[p]) /\ delayCount[p] = Times(order[p], Delayed)
      BY <1>1, <1>3 DEF Books
    <3>2. ASSUME NEW u \in Targets PROVE Times(order'[p], {u}) = Len(group'[p][u])
      <4>1. CASE u = t
        <5>1. Times(Append(order[p], t), {u}) = Times(order[p], {u}) + 1
          BY <1>1, <1>9, <4>1, TimesAppended
        <5>2. QED
          BY <1>8, <1>10, <3>1, <4>1, <5>1
      <4>2. CASE u # t
        <5>1. t \notin {u}
          BY <4>2
        <5>2. Times(Append(order[p], t), {u}) = Times(order[p], {u})
          BY <1>1, <1>9, <5>1, TimesAppended
        <5>3. QED
          BY <1>8, <3>1, <4>2, <5>2
      <4>3. QED
        BY <4>1, <4>2
    <3>3. Times(order'[p], Delayed) = delayCount'[p]
      <4>1. CASE t \in Delayed
        <5>1. Times(Append(order[p], t), Delayed) = Times(order[p], Delayed) + 1 /\ k = 1
          BY <1>1, <1>4, <1>9, <4>1, TimesAppended
        <5>2. QED
          BY <1>8, <3>1, <5>1
      <4>2. CASE t \notin Delayed
        <5>1. Times(Append(order[p], t), Delayed) = Times(order[p], Delayed) /\ k = 0
          BY <1>1, <1>4, <1>9, <4>2, TimesAppended
        <5>2. delayCount[p] \in Nat /\ delayCount'[p] = delayCount[p] + 0
          BY <1>1, <1>7, <1>8, <5>1
        <5>3. delayCount'[p] = delayCount[p]
          BY <5>2, SMT
        <5>4. QED
          BY <1>8, <3>1, <5>1, <5>3
      <4>3. QED
        BY <4>1, <4>2
    <3>4. count'[p] = Len(order'[p])
      BY <1>8, <1>13, <3>1
    <3>5. QED
      BY <1>6, <2>2, <3>2, <3>3, <3>4 DEF Books
  <2>3. QED
    BY <2>1, <2>2
<1>15. ASSUME NEW q \in Prios PROVE Known(q)'
  <2>1. \A i \in DOMAIN order[q] : policy[order[q][i]] # "none"
    BY <1>3 DEF Known
  <2>2. order[q] \in Seq(Targets)
    BY <1>7
  <2>3. \A i \in DOMAIN order[q] : order[q][i] \in Targets
    BY <2>2, SMT
  <2>4. CASE q # p
    <3>1. order'[q] = order[q]
      BY <1>8, <2>4
    <3>2. QED
      BY <1>6, <2>1, <2>3, <3>1 DEF Known
  <2>5. CASE q = p
    <3>1. ASSUME NEW i \in DOMAIN order'[q]
          PROVE  order'[q][i] = t \/ (i \in DOMAIN order[q] /\ order'[q][i] = order[q][i])
      <4>1. order'[q] = Append(order[q], t)
        BY <1>8, <2>5
      <4>2. QED
        BY <1>1, <2>2, <3>1, <4>1, SMT
    <3>2. QED
      BY <1>6, <2>1, <2>3, <3>1 DEF Known
  <2>6. QED
    BY <2>4, <2>5
<1>16. Totals'
  <2>1. Totals
    BY <1>3
  <2>2. Total(count') = Total(count) + 1 /\ Total(delayCount') = Total(delayCount) + k
    <3>1. 1 \in Int /\ k \in Int
      BY <1>4, SMT
    <3>2. QED
      BY <1>1, <1>2, <1>7, <3>1, TotalChanged
  <2>3. TotalSize(Frame, Queued') = TotalSize(Frame, Queued) + Frame[f].size
    <3>1. Queued \in SUBSET Frames
      BY DEF Queued
    <3>2. QED
      BY <1>1, <1>5, <3>1, SizeOfOneMore
  <2>4. QED
    BY <1>1, <1>2, <2>1, <2>2, <2>3 DEF Totals
<1>17. QueueTypes'
  <2>1. totalByte' \in Nat /\ totalTask' \in Nat /\ delayTask' \in Nat
    <3>1. /\ totalByte' = totalByte + Frame[f].size /\ totalTask' = totalTask + 1 /\ delayTask' = delayTask + k
          /\ totalByte \in Nat /\ totalTask \in Nat /\ delayTask \in Nat /\ Frame[f].size \in Nat
          /\ k \in {0, 1}
      BY <1>1, <1>2, <1>4, <1>7
    <3>2. QED
      BY <3>1, SMT
  <2>2. count[p] + 1 \in Nat /\ delayCount[p] + k \in Nat
    BY <1>1, <1>4, <1>7, SMT
  <2>3. count' \in [Prios -> Nat] /\ delayCount' \in [Prios -> Nat] /\ order' \in [Prios -> Seq(Targets)]
    BY <1>2, <1>7, <1>13, <2>2
  <2>4. QED
    BY <1>6, <1>8, <2>1, <2>3 DEF QueueTypes
<1>18. QueueBounded'
  <2>1. ExtraCapacity(p) \in Nat /\ ExtraCapacity(p) <= ExtraHigh
    BY <1>1, SendTaskAssumption, SMT DEF SendTaskAssumption, ExtraCapacity, Prios
  <2>2. MaxCapacity \in Nat /\ ExtraHigh \in Nat
    BY SendTaskAssumption DEF SendTaskAssumption
  <2>3. totalByte' < MaxCapacity + ExtraHigh + Frame[f].size
    <3>1. /\ totalByte < MaxCapacity + ExtraCapacity(p) /\ totalByte' = totalByte + Frame[f].size
          /\ totalByte \in Nat /\ Frame[f].size \in Nat
      BY <1>1, <1>2, <1>7
    <3>2. QED
      BY <2>1, <2>2, <3>1, SMT
  <2>4. QED
    BY <1>1, <2>3 DEF QueueBounded
<1>19. QED
  BY <1>11, <1>12, <1>14, <1>15, <1>16, <1>17, <1>18 DEF QueueInv

(* FinalizeLastScheduleTask.                                               *)
LEMMA FinalizeFrom ==
    ASSUME CallTypes, QueueInv, FinalizeLast, lastPrio \in Prios, Shown, scenario' = scenario
    PROVE  /\ QueueInv'
           /\ Scheduled(lastPrio, lastTarget) \in Frames
           /\ buffer[Scheduled(lastPrio, lastTarget)] = "queue"
           /\ buffer' = [buffer EXCEPT ![Scheduled(lastPrio, lastTarget)] = "nobody"]
<1> DEFINE t == lastTarget  p == lastPrio
           f == group[p][t][1]
           k == RemovedDelay
<1>1. t \in Targets /\ p \in Prios /\ Frame \in FrameType /\ Frame' = Frame /\ group[p][t] # <<>>
  BY FrameFacts DEF CallTypes, Frame, Shown
<1>2. /\ totalByte' = totalByte - Frame[f].size
      /\ totalTask' = totalTask - 1
      /\ count' = [count EXCEPT ![p] = count[p] - 1]
      /\ delayTask' = delayTask - k
      /\ delayCount' = [delayCount EXCEPT ![p] = delayCount[p] - k]
      /\ order' = [order EXCEPT ![p] = OrderWithout(order[p], t)]
      /\ group' = [group EXCEPT ![p] = [group[p] EXCEPT ![t] = Tail(group[p][t])]]
      /\ buffer' = [buffer EXCEPT ![f] = "nobody"]
      /\ policy' = policy
  BY DEF FinalizeLast, Scheduled
<1>3. /\ QueueTypes /\ Totals /\ QueueBounded
      /\ \A q \in Prios : Books(q) /\ Known(q) /\ \A u \in Targets : Grouped(q, u)
  BY DEF QueueInv
<1>4. k \in {0, 1} /\ (k = 1 <=> t \in Delayed)
  <2>1. CASE policy[t] = "delay"
    BY <1>1, <2>1 DEF RemovedDelay, Delayed
  <2>2. CASE policy[t] # "delay"
    <3>1. k = 0 /\ 0 # 1
      BY <2>2, SMT DEF RemovedDelay
    <3>2. QED
      BY <2>2, <3>1 DEF Delayed
  <2>3. QED
    BY <2>1, <2>2
<1>5. Scheduled(lastPrio, lastTarget) = f
  BY DEF Scheduled
<1> HIDE DEF t, p, k
<1>6. /\ order \in [Prios -> Seq(Targets)] /\ group \in [Prios -> [Targets -> Seq(Frames)]]
      /\ count \in [Prios -> Nat] /\ delayCount \in [Prios -> Nat]
      /\ totalByte \in Nat /\ totalTask \in Nat /\ delayTask \in Nat
      /\ policy \in [Targets -> {"none", "noDelay", "delay"}]
  BY <1>3 DEF QueueTypes
<1>7. /\ order[p] \in Seq(Targets) /\ group[p][t] \in Seq(Frames) /\ NoRepeat(group[p][t])
      /\ Members(group[p][t]) = {g \in Queued : PrioOf(g) = p /\ TargetOf(g) = t}
  <2>1. Grouped(p, t)
    BY <1>1, <1>3
  <2>2. QED
    BY <1>1, <1>6, <2>1 DEF Grouped
<1>8. /\ Tail(group[p][t]) \in Seq(Frames) /\ NoRepeat(Tail(group[p][t]))
      /\ Members(Tail(group[p][t])) = Members(group[p][t]) \ {f}
      /\ Len(Tail(group[p][t])) = Len(group[p][t]) - 1 /\ f \in Members(group[p][t])
  BY <1>1, <1>7, FrontRemoved
<1>9. f \in Queued /\ f \in Frames /\ buffer[f] = "queue" /\ PrioOf(f) = p /\ TargetOf(f) = t
  BY <1>7, <1>8 DEF Queued
<1> HIDE DEF f
<1>10. Queued' = Queued \ {f}
  <2>1. \A g \in Frames : buffer'[g] = "queue" <=> buffer[g] = "queue" /\ g # f
    BY <1>2, <1>9 DEF CallTypes
  <2>2. QED
    BY <2>1 DEF Queued
<1>11. /\ order'[p] = OrderWithout(order[p], t) /\ count'[p] = count[p] - 1 /\ delayCount'[p] = delayCount[p] - k
       /\ group'[p][t] = Tail(group[p][t]) /\ group' \in [Prios -> [Targets -> Seq(Frames)]]
       /\ \A u \in Targets : u # t => group'[p][u] = group[p][u]
       /\ \A q \in Prios : q # p => /\ order'[q] = order[q] /\ count'[q] = count[q]
                                    /\ delayCount'[q] = delayCount[q] /\ group'[q] = group[q]
  <2>1. group[p] \in [Targets -> Seq(Frames)]
    BY <1>1, <1>6
  <2> DEFINE h == [group[p] EXCEPT ![t] = Tail(group[p][t])]
  <2>2. /\ h \in [Targets -> Seq(Frames)] /\ h[t] = Tail(group[p][t])
        /\ \A u \in Targets : u # t => h[u] = group[p][u]
    BY <1>1, <1>8, <2>1
  <2>3. group' = [group EXCEPT ![p] = h]
    BY <1>2
  <2> HIDE DEF h
  <2>4. /\ group' \in [Prios -> [Targets -> Seq(Frames)]] /\ group'[p] = h
        /\ \A q \in Prios : q # p => group'[q] = group[q]
    BY <1>1, <1>6, <2>2, <2>3
  <2>5. /\ order'[p] = OrderWithout(order[p], t) /\ count'[p] = count[p] - 1 /\ delayCount'[p] = delayCount[p] - k
        /\ \A q \in Prios : q # p => order'[q] = order[q] /\ count'[q] = count[q] /\ delayCount'[q] = delayCount[q]
    BY <1>1, <1>2, <1>6
  <2>6. QED
    BY <2>2, <2>4, <2>5
<1>12. Delayed' = Delayed
  BY <1>2 DEF Delayed
<1>13. /\ \A u \in Targets : Times(order[p], {u}) = Len(group[p][u])
       /\ count[p] = Len(order[p]) /\ delayCount[p] = Times(order[p], Delayed)
  BY <1>1, <1>3 DEF Books
<1>14. \E i \in DOMAIN order[p] : order[p][i] = t
  <2>1. Len(group[p][t]) # 0
    BY <1>1, <1>7, SMT
  <2>2. \E i \in DOMAIN order[p] : order[p][i] \in {t}
    BY <1>1, <1>7, <1>13, <2>1, TimesOfNamed
  <2>3. QED
    BY <2>2
<1>15. /\ order'[p] \in Seq(Targets) /\ Len(order'[p]) = Len(order[p]) - 1
       /\ \A ts : t \in ts => Times(order'[p], ts) = Times(order[p], ts) - 1
       /\ \A ts : t \notin ts => Times(order'[p], ts) = Times(order[p], ts)
       /\ \A i \in DOMAIN order'[p] : \E j \in DOMAIN order[p] : order'[p][i] = order[p][j]
  <2>1. ASSUME NEW ts
        PROVE  /\ OrderWithout(order[p], t) \in Seq(Targets)
               /\ Len(OrderWithout(order[p], t)) = Len(order[p]) - 1
               /\ t \in ts => Times(OrderWithout(order[p], t), ts) = Times(order[p], ts) - 1
               /\ t \notin ts => Times(OrderWithout(order[p], t), ts) = Times(order[p], ts)
               /\ \A i \in DOMAIN OrderWithout(order[p], t) :
                     \E j \in DOMAIN order[p] : OrderWithout(order[p], t)[i] = order[p][j]
    BY <1>1, <1>7, <1>14, TimesWithout
  <2>2. QED
    BY <1>11, <2>1, ZenonT(30)
<1>16. ASSUME NEW q \in Prios, NEW u \in Targets PROVE Grouped(q, u)'
  <2>1. NoRepeat(group[q][u]) /\ Members(group[q][u]) = {g \in Queued : PrioOf(g) = q /\ TargetOf(g) = u}
    BY <1>3 DEF Grouped
  <2>2. \A g : PrioOf(g)' = PrioOf(g) /\ TargetOf(g)' = TargetOf(g)
    BY <1>1 DEF PrioOf, TargetOf
  <2>3. CASE q = p /\ u = t
    <3>1. {g \in Queued' : PrioOf(g) = q /\ TargetOf(g) = u}
             = {g \in Queued : PrioOf(g) = q /\ TargetOf(g) = u} \ {f}
      BY <1>10
    <3>2. group'[q][u] = Tail(group[p][t]) /\ group[q][u] = group[p][t]
      BY <1>11, <2>3
    <3>3. NoRepeat(group'[q][u]) /\ Members(group'[q][u]) = {g \in Queued' : PrioOf(g) = q /\ TargetOf(g) = u}
      BY <1>8, <2>1, <3>1, <3>2
    <3>4. QED
      BY <2>2, <3>3 DEF Grouped
  <2>4. CASE ~(q = p /\ u = t)
    <3>1. {g \in Queued' : PrioOf(g) = q /\ TargetOf(g) = u} = {g \in Queued : PrioOf(g) = q /\ TargetOf(g) = u}
      BY <1>9, <1>10, <2>4
    <3>2. group'[q][u] = group[q][u]
      BY <1>11, <2>4
    <3>3. NoRepeat(group'[q][u]) /\ Members(group'[q][u]) = {g \in Queued' : PrioOf(g) = q /\ TargetOf(g) = u}
      BY <2>1, <3>1, <3>2
    <3>4. QED
      BY <2>2, <3>3 DEF Grouped
  <2>5. QED
    BY <2>3, <2>4
<1>17. ASSUME NEW q \in Prios PROVE Books(q)'
  <2>1. CASE q # p
    <3>1. /\ Books(q) /\ order'[q] = order[q] /\ count'[q] = count[q] /\ delayCount'[q] = delayCount[q]
          /\ group'[q] = group[q]
      BY <1>3, <1>11, <2>1
    <3>2. QED
      BY <1>12, <3>1 DEF Books
  <2>2. CASE q = p
    <3>1. ASSUME NEW u \in Targets PROVE Times(order'[p], {u}) = Len(group'[p][u])
      <4>1. CASE u = t
        <5>1. Times(order'[p], {u}) = Times(order[p], {u}) - 1
          BY <1>15, <4>1
        <5>2. QED
          BY <1>8, <1>11, <1>13, <4>1, <5>1
      <4>2. CASE u # t
        <5>1. t \notin {u}
          BY <4>2
        <5>2. Times(order'[p], {u}) = Times(order[p], {u})
          BY <1>15, <5>1
        <5>3. QED
          BY <1>11, <1>13, <4>2, <5>2
      <4>3. QED
        BY <4>1, <4>2
    <3>2. Times(order'[p], Delayed) = delayCount'[p]
      <4>1. CASE t \in Delayed
        <5>1. Times(order'[p], Delayed) = Times(order[p], Delayed) - 1 /\ k = 1
          BY <1>4, <1>15, <4>1
        <5>2. QED
          BY <1>11, <1>13, <5>1
      <4>2. CASE t \notin Delayed
        <5>1. Times(order'[p], Delayed) = Times(order[p], Delayed) /\ k = 0
          BY <1>4, <1>15, <4>2
        <5>2. delayCount[p] \in Nat /\ delayCount'[p] = delayCount[p] - 0
          BY <1>1, <1>6, <1>11, <5>1
        <5>3. delayCount'[p] = delayCount[p]
          BY <5>2, SMT
        <5>4. QED
          BY <1>13, <5>1, <5>3
      <4>3. QED
        BY <4>1, <4>2
    <3>3. count'[p] = Len(order'[p])
      BY <1>11, <1>13, <1>15
    <3>4. QED
      BY <1>12, <2>2, <3>1, <3>2, <3>3 DEF Books
  <2>3. QED
    BY <2>1, <2>2
<1>18. ASSUME NEW q \in Prios PROVE Known(q)'
  <2>1. \A i \in DOMAIN order[q] : policy[order[q][i]] # "none"
    BY <1>3 DEF Known
  <2>2. CASE q # p
    <3>1. order'[q] = order[q]
      BY <1>11, <2>2
    <3>2. QED
      BY <1>2, <2>1, <3>1 DEF Known
  <2>3. CASE q = p
    <3>1. ASSUME NEW i \in DOMAIN order'[p] PROVE policy[order'[p][i]] # "none"
      <4>1. PICK j \in DOMAIN order[p] : order'[p][i] = order[p][j]
        BY <1>15
      <4>2. QED
        BY <2>1, <2>3, <4>1
    <3>2. QED
      BY <1>2, <2>3, <3>1 DEF Known
  <2>4. QED
    BY <2>2, <2>3
<1>19. /\ TotalSize(Frame, Queued') = TotalSize(Frame, Queued) - Frame[f].size
       /\ TotalSize(Frame, Queued') \in Nat /\ Frame[f].size \in Nat
  <2>1. Queued \in SUBSET Frames
    BY DEF Queued
  <2>2. QED
    BY <1>1, <1>9, <1>10, <2>1, SizeOfOneLess
<1>20. totalTask' = Total(count') /\ delayTask' = Total(delayCount')
  <2>1. totalTask = Total(count) /\ delayTask = Total(delayCount)
    BY <1>3 DEF Totals
  <2>2. Total([count EXCEPT ![p] = @ + (-1)]) = Total(count) + (-1)
    <3>1. -1 \in Int
      BY SMT
    <3>2. QED
      BY <1>1, <1>6, <3>1, TotalChanged
  <2>3. Total([delayCount EXCEPT ![p] = @ + (-k)]) = Total(delayCount) + (-k)
    <3>1. -k \in Int
      BY <1>4, SMT
    <3>2. QED
      BY <1>1, <1>6, <3>1, TotalChanged
  <2>4. count[p] + (-1) = count[p] - 1 /\ delayCount[p] + (-k) = delayCount[p] - k
        /\ totalTask + (-1) = totalTask - 1 /\ delayTask + (-k) = delayTask - k
    BY <1>1, <1>4, <1>6, SMT
  <2>5. QED
    BY <1>2, <2>1, <2>2, <2>3, <2>4
<1>21. QueueTypes'
  <2>1. \A q \in Prios : order'[q] \in Seq(Targets)
    <3>1. SUFFICES ASSUME NEW q \in Prios PROVE order'[q] \in Seq(Targets)
      OBVIOUS
    <3>2. CASE q = p
      BY <1>15, <3>2
    <3>3. CASE q # p
      BY <1>6, <1>11, <3>3
    <3>4. QED
      BY <3>2, <3>3
  <2>2. ASSUME NEW q \in Prios PROVE count'[q] \in Nat /\ delayCount'[q] \in Nat
    <3>1. count'[q] = Len(order'[q]) /\ delayCount'[q] = Times(order'[q], Delayed')
      BY <1>17 DEF Books
    <3>2. Len(order'[q]) \in Nat
      BY <2>1, SMT
    <3>3. Times(order'[q], Delayed') \in Nat
      BY <2>1, PlacesFinite
    <3>4. QED
      BY <3>1, <3>2, <3>3
  <2>3. /\ order' = [q \in Prios |-> order'[q]] /\ count' = [q \in Prios |-> count'[q]]
        /\ delayCount' = [q \in Prios |-> delayCount'[q]]
    BY <1>2, <1>6
  <2>4. order' \in [Prios -> Seq(Targets)] /\ count' \in [Prios -> Nat] /\ delayCount' \in [Prios -> Nat]
    BY <2>1, <2>2, <2>3
  <2>6. Total(count') \in Nat /\ Total(delayCount') \in Nat
    BY <2>4, SMT DEF Total, Prios
  <2>7. totalByte' \in Nat /\ totalByte' = TotalSize(Frame, Queued')
    BY <1>2, <1>3, <1>19 DEF Totals
  <2>8. QED
    BY <1>2, <1>6, <1>11, <1>20, <2>4, <2>6, <2>7 DEF QueueTypes
<1>22. Totals'
  BY <1>1, <1>2, <1>3, <1>19, <1>20 DEF Totals
<1>23. QueueBounded'
  <2>1. PICK g \in Frames : totalByte < MaxCapacity + ExtraHigh + Frame[g].size
    BY <1>3 DEF QueueBounded
  <2>2. MaxCapacity \in Nat /\ ExtraHigh \in Nat
    BY SendTaskAssumption DEF SendTaskAssumption
  <2>3. Frame[g].size \in Nat
    BY FrameFacts DEF CallTypes
  <2>4. totalByte' < MaxCapacity + ExtraHigh + Frame[g].size
    <3>1. totalByte' = totalByte - Frame[f].size /\ totalByte \in Nat /\ Frame[f].size \in Nat
      BY <1>2, <1>6, <1>19
    <3>2. QED
      BY <2>1, <2>2, <2>3, <3>1, SMT
  <2>5. QED
    BY <1>1, <2>4 DEF QueueBounded
<1>24. QueueInv'
  BY <1>16, <1>17, <1>18, <1>21, <1>22, <1>23 DEF QueueInv
<1>25. QED
  BY <1>2, <1>5, <1>9, <1>24

(* What DelayTaskByTarget and NoDelayTaskByTarget do when they do something:*)
(* the policy of a target changes, and the counters of the delayed tasks.  *)
LEMMA Recounted ==
    ASSUME CallTypes, QueueInv, UNCHANGED <<scenario, buffer, group, order, totalByte, totalTask, count>>,
           policy' \in [Targets -> {"none", "noDelay", "delay"}],
           \A u \in Targets : policy[u] # "none" => policy'[u] # "none",
           delayCount' = [p \in Prios |-> delayCount'[p]],
           \A p \in Prios : delayCount'[p] = Times(order[p], Delayed'),
           delayTask' = Total(delayCount')
    PROVE  QueueInv'
<1>1. /\ scenario' = scenario /\ buffer' = buffer /\ group' = group /\ order' = order
      /\ totalByte' = totalByte /\ totalTask' = totalTask /\ count' = count
      /\ Queued' = Queued
  BY DEF Queued
<1>2. /\ QueueTypes /\ Totals /\ QueueBounded
      /\ \A p \in Prios : Books(p) /\ Known(p) /\ \A t \in Targets : Grouped(p, t)
  BY DEF QueueInv
<1>3. ASSUME NEW p \in Prios PROVE Books(p)' /\ Known(p)'
  <2>1. Books(p) /\ Known(p) /\ order[p] \in Seq(Targets)
    BY <1>2 DEF QueueTypes
  <2>2. Books(p)'
    BY <1>1, <2>1 DEF Books
  <2>3. \A i \in DOMAIN order[p] : order[p][i] \in Targets
    BY <2>1, SMT
  <2>4. Known(p)'
    BY <1>1, <2>1, <2>3 DEF Known
  <2>5. QED
    BY <2>2, <2>4
<1>4. ASSUME NEW p \in Prios, NEW t \in Targets PROVE Grouped(p, t)'
  <2>1. Grouped(p, t)
    BY <1>2
  <2>2. QED
    BY <1>1, <2>1 DEF Grouped, PrioOf, TargetOf, Frame
<1>5. Totals' /\ QueueBounded'
  BY <1>1, <1>2 DEF Totals, QueueBounded, Frame
<1>6. delayCount' \in [Prios -> Nat]
  <2>1. ASSUME NEW p \in Prios PROVE delayCount'[p] \in Nat
    <3>1. order[p] \in Seq(Targets)
      BY <1>2 DEF QueueTypes
    <3>2. QED
      BY <3>1, PlacesFinite
  <2>2. QED
    BY <2>1
<1>7. delayTask' \in Nat
  BY <1>6, SMT DEF Total, Prios
<1>8. QueueTypes'
  BY <1>1, <1>2, <1>6, <1>7 DEF QueueTypes
<1>9. QED
  BY <1>3, <1>4, <1>5, <1>8 DEF QueueInv

LEMMA QueuedForTarget ==
    ASSUME QueueInv, NEW t \in Targets
    PROVE  /\ QueuedFor(t) \in [Prios -> Nat]
           /\ \A p \in Prios : /\ QueuedFor(t)[p] = Times(order[p], {t}) /\ order[p] \in Seq(Targets)
                               /\ delayCount[p] = Times(order[p], Delayed)
           /\ delayCount \in [Prios -> Nat] /\ delayTask = Total(delayCount)
           /\ policy \in [Targets -> {"none", "noDelay", "delay"}]
<1>1. QueueTypes /\ Totals /\ \A p \in Prios : Books(p)
  BY DEF QueueInv
<1>2. ASSUME NEW p \in Prios
      PROVE  /\ order[p] \in Seq(Targets) /\ QueuedFor(t)[p] = Times(order[p], {t})
             /\ delayCount[p] = Times(order[p], Delayed)
  BY <1>1 DEF QueueTypes, Books, QueuedFor
<1>3. ASSUME NEW p \in Prios PROVE QueuedFor(t)[p] \in Nat
  <2>1. Times(order[p], {t}) \in Nat
    BY <1>2, PlacesFinite
  <2>2. QED
    BY <1>2, <2>1
<1>4. QueuedFor(t) \in [Prios -> Nat]
  BY <1>3 DEF QueuedFor
<1>5. QED
  BY <1>1, <1>2, <1>4 DEF QueueTypes, Totals

LEMMA Delaying ==
    ASSUME CallTypes, QueueInv, NEW t \in Targets, DelayTaskByTarget(t),
           UNCHANGED <<scenario, buffer, group, order, totalByte, totalTask, count>>
    PROVE  QueueInv'
<1>1. CASE policy[t] # "noDelay"
  <2>1. UNCHANGED <<scenario, queueVars>> /\ Queued' = Queued
    BY <1>1 DEF DelayTaskByTarget, queueVars, Queued
  <2>2. QED
    BY <2>1, QueueKept
<1>2. CASE policy[t] = "noDelay"
  <2>1. /\ policy' = [policy EXCEPT ![t] = "delay"]
        /\ delayCount' = [p \in Prios |-> delayCount[p] + QueuedFor(t)[p]]
        /\ delayTask' = delayTask + Total(QueuedFor(t))
    BY <1>2 DEF DelayTaskByTarget
  <2>2. /\ policy' \in [Targets -> {"none", "noDelay", "delay"}]
        /\ policy'[t] = "delay" /\ \A u \in Targets : u # t => policy'[u] = policy[u]
    BY <2>1, QueuedForTarget
  <2>3. Delayed' = Delayed \cup {t} /\ t \notin Delayed
    BY <1>2, <2>2 DEF Delayed
  <2>4. \A u \in Targets : policy[u] # "none" => policy'[u] # "none"
    BY <2>2
  <2>5. ASSUME NEW p \in Prios PROVE delayCount'[p] = Times(order[p], Delayed')
    <3>1. Times(order[p], Delayed') = Times(order[p], Delayed) + Times(order[p], {t})
      <4>1. order[p] \in Seq(Targets)
        BY QueuedForTarget
      <4>2. QED
        BY <2>3, <4>1, TimesOfOneMore
    <3>2. QED
      BY <2>1, <3>1, QueuedForTarget
  <2>6. delayTask' = Total(delayCount')
    BY <2>1, QueuedForTarget, TotalAdded
  <2>7. delayCount' = [p \in Prios |-> delayCount'[p]]
    BY <2>1
  <2>8. QED
    BY <2>2, <2>4, <2>5, <2>6, <2>7, Recounted
<1>3. QED
  BY <1>1, <1>2

LEMMA Releasing ==
    ASSUME CallTypes, QueueInv, NEW t \in Targets, NoDelayTaskByTarget(t),
           UNCHANGED <<scenario, buffer, group, order, totalByte, totalTask, count>>
    PROVE  QueueInv'
<1>1. CASE policy[t] # "delay"
  <2>1. UNCHANGED <<scenario, queueVars>> /\ Queued' = Queued
    BY <1>1 DEF NoDelayTaskByTarget, queueVars, Queued
  <2>2. QED
    BY <2>1, QueueKept
<1>2. CASE policy[t] = "delay"
  <2>1. /\ policy' = [policy EXCEPT ![t] = "noDelay"]
        /\ delayCount' = [p \in Prios |-> delayCount[p] - QueuedFor(t)[p]]
        /\ delayTask' = delayTask - Total(QueuedFor(t))
    BY <1>2 DEF NoDelayTaskByTarget
  <2>2. /\ policy' \in [Targets -> {"none", "noDelay", "delay"}]
        /\ policy'[t] = "noDelay" /\ \A u \in Targets : u # t => policy'[u] = policy[u]
    BY <2>1, QueuedForTarget
  <2>3. Delayed = Delayed' \cup {t} /\ t \notin Delayed'
    BY <1>2, <2>2 DEF Delayed
  <2>4. \A u \in Targets : policy[u] # "none" => policy'[u] # "none"
    BY <2>2
  <2>5. ASSUME NEW p \in Prios PROVE delayCount'[p] = Times(order[p], Delayed')
    <3>1. Times(order[p], Delayed) = Times(order[p], Delayed') + Times(order[p], {t})
      <4>1. order[p] \in Seq(Targets)
        BY QueuedForTarget
      <4>2. QED
        BY <2>3, <4>1, TimesOfOneMore
    <3>2. Times(order[p], Delayed') \in Nat /\ Times(order[p], {t}) \in Nat
      BY QueuedForTarget, PlacesFinite
    <3>3. delayCount'[p] = delayCount[p] - Times(order[p], {t}) /\ delayCount[p] = Times(order[p], Delayed)
      BY <2>1, QueuedForTarget
    <3>4. QED
      BY <3>1, <3>2, <3>3, SMT
  <2>6. delayTask' = Total(delayCount')
    BY <2>1, QueuedForTarget, TotalSubtracted
  <2>7. delayCount' = [p \in Prios |-> delayCount'[p]]
    BY <2>1
  <2>8. QED
    BY <2>2, <2>4, <2>5, <2>6, <2>7, Recounted
<1>3. QED
  BY <1>1, <1>2

(* ScheduleOutSendTask finds a priority and a target: the lists it takes   *)
(* the front of are not empty.                                             *)
LEMMA TotalOfPrios ==
    ASSUME NEW n \in [Prios -> Nat], NEW m \in [Prios -> Nat]
    PROVE  /\ Total(n) # 0 => \E p \in Prios : n[p] # 0
           /\ Total(n) # Total(m) => \E p \in Prios : n[p] # m[p]
  BY SMT DEF Total, Prios

LEMMA HighestPrio ==
    ASSUME \E p \in Prios : Schedulable(p)
    PROVE  PrioToSend \in Prios /\ Schedulable(PrioToSend)
<1>1. \E p \in Prios : Schedulable(p) /\ \A q \in Above(p) : ~Schedulable(q)
  <2>1. "HIGH" \in Prios /\ "NORMAL" \in Prios /\ "LOW" \in Prios
    BY DEF Prios
  <2>2. Above("HIGH") = {} /\ Above("NORMAL") = {"HIGH"} /\ Above("LOW") = {"HIGH", "NORMAL"}
    BY SMT DEF Above
  <2>3. CASE Schedulable("HIGH")
    BY <2>1, <2>2, <2>3
  <2>4. CASE ~Schedulable("HIGH") /\ Schedulable("NORMAL")
    BY <2>1, <2>2, <2>4
  <2>5. CASE ~Schedulable("HIGH") /\ ~Schedulable("NORMAL") /\ Schedulable("LOW")
    BY <2>1, <2>2, <2>5
  <2>6. QED
    BY <2>3, <2>4, <2>5 DEF Prios
<1>2. QED
  BY <1>1 DEF PrioToSend

LEMMA FoundToSend ==
    ASSUME QueueInv, totalTask # 0
    PROVE  /\ PrioToSend \in Prios /\ FirstTarget(PrioToSend) \in Targets
           /\ group[PrioToSend][FirstTarget(PrioToSend)] # <<>>
<1>1. QueueTypes /\ Totals /\ \A p \in Prios : Books(p) /\ Known(p)
  BY DEF QueueInv
<1>2. count \in [Prios -> Nat] /\ delayCount \in [Prios -> Nat] /\ \A p \in Prios : order[p] \in Seq(Targets)
  BY <1>1 DEF QueueTypes
<1>3. totalTask = Total(count) /\ delayTask = Total(delayCount)
  BY <1>1 DEF Totals
<1>4. ASSUME NEW p \in Prios
      PROVE  count[p] = Len(order[p]) /\ delayCount[p] = Times(order[p], Delayed) /\ order[p] \in Seq(Targets)
  BY <1>1, <1>2 DEF Books
<1>5. \E p \in Prios : Schedulable(p)
  <2>1. CASE delayTask = totalTask
    <3>1. PICK p \in Prios : count[p] # 0
      BY <1>2, <1>3, TotalOfPrios
    <3>2. QED
      BY <2>1, <3>1 DEF Schedulable
  <2>2. CASE delayTask # totalTask
    <3>1. PICK p \in Prios : count[p] # delayCount[p]
      BY <1>2, <1>3, <2>2, TotalOfPrios
    <3>2. delayCount[p] \in Nat /\ delayCount[p] <= count[p] /\ count[p] \in Nat
      BY <1>2, <1>4, PlacesFinite
    <3>3. count[p] # 0
      BY <3>1, <3>2, SMT
    <3>4. QED
      BY <2>2, <3>1, <3>3 DEF Schedulable
  <2>3. QED
    BY <2>1, <2>2
<1> DEFINE p == PrioToSend
<1>6. p \in Prios /\ Schedulable(p)
  BY <1>5, HighestPrio
<1> HIDE DEF p
<1>7. \E i \in DOMAIN order[p] : FirstTarget(p) = order[p][i]
  <2>1. count[p] # 0
    BY <1>6 DEF Schedulable
  <2>2. CASE delayTask = totalTask
    <3>1. 1 \in DOMAIN order[p]
      BY <1>4, <1>6, <2>1, SMT
    <3>2. FirstTarget(p) = order[p][1]
      BY <2>2 DEF FirstTarget
    <3>3. QED
      BY <3>1, <3>2
  <2>3. CASE delayTask # totalTask
    <3> DEFINE ts == {t \in Targets : policy[t] = "noDelay"}
    <3>1. FirstTarget(p) = order[p][First(order[p], ts)]
      BY <2>3 DEF FirstTarget
    <3>2. count[p] # delayCount[p]
      BY <1>6, <2>3 DEF Schedulable
    <3>3. \E i \in DOMAIN order[p] : order[p][i] \notin Delayed
      <4>1. SUFFICES ASSUME \A i \in DOMAIN order[p] : order[p][i] \in Delayed PROVE FALSE
        OBVIOUS
      <4>2. Times(order[p], Delayed) = Times(order[p], Targets) /\ Places(order[p], Delayed) = DOMAIN order[p]
        <5>1. Places(order[p], Delayed) = DOMAIN order[p] /\ Places(order[p], Targets) = DOMAIN order[p]
          BY <4>1 DEF Places, Delayed
        <5>2. QED
          BY <1>4, <1>6, <5>1, PlacesFinite
      <4>3. Cardinality(DOMAIN order[p]) = Len(order[p])
        BY <1>4, <1>6, PlacesOfAll
      <4>4. QED
        BY <1>4, <1>6, <3>2, <4>2, <4>3, PlacesFinite
    <3>4. PICK i \in DOMAIN order[p] : order[p][i] \notin Delayed
      BY <3>3
    <3>5. order[p][i] \in Targets
      BY <1>4, <1>6, <3>4, SMT
    <3>6. policy[order[p][i]] # "none" /\ policy \in [Targets -> {"none", "noDelay", "delay"}]
      BY <1>1, <1>6, <3>4 DEF Known, QueueTypes
    <3>7. order[p][i] \in ts
      BY <3>4, <3>5, <3>6 DEF Delayed
    <3> HIDE DEF ts
    <3>8. First(order[p], ts) \in DOMAIN order[p]
      BY <1>4, <1>6, <3>7, FirstPlace
    <3>9. QED
      BY <3>1, <3>8
  <2>4. QED
    BY <2>2, <2>3
<1>8. PICK i \in DOMAIN order[p] : FirstTarget(p) = order[p][i]
  BY <1>7
<1>9. FirstTarget(p) \in Targets
  BY <1>4, <1>6, <1>8, SMT
<1>10. Times(order[p], {FirstTarget(p)}) # 0
  <2>1. \E j \in DOMAIN order[p] : order[p][j] \in {FirstTarget(p)}
    BY <1>8
  <2>2. QED
    BY <1>4, <1>6, <2>1, TimesOfNamed
<1>11. Len(group[p][FirstTarget(p)]) # 0
  BY <1>1, <1>6, <1>9, <1>10 DEF Books
<1>12. group[p][FirstTarget(p)] # <<>>
  BY <1>11, NoMembers
<1>13. QED
  BY <1>6, <1>9, <1>12 DEF p

-----------------------------------------------------------------------------
(* What a step leaves as it was.                                           *)
Stages == {"idle", "add", "retry", "blocking", "waiting", "lastRetry", "expired", "wake", "returned"}
Answers == {"none", "ok", "full", "timeout"}

SameCall(g) ==
    /\ pc'[g] = pc[g] /\ result'[g] = result[g] /\ buffer'[g] = buffer[g] /\ ended'[g] = ended[g]
    /\ g \in pooled' <=> g \in pooled

LEMMA StillDown ==
    ASSUME shutdown' = shutdown
    PROVE  shutdown => shutdown'
  BY SMT

LEMMA CallKept ==
    ASSUME NEW g \in Frames, Call(g), SameCall(g), shutdown => shutdown'
    PROVE  Call(g)'
  BY DEF Call, SameCall

(* A call that is under way has its buffer.                                *)
UnderWay(f) ==
    /\ pc[f] \notin {"wake", "returned"} /\ buffer[f] = "caller" /\ ended[f] = 0 /\ f \notin pooled
    /\ result[f] = "none"

LEMMA CallUnderWay ==
    ASSUME NEW f \in Frames, Call(f), pc[f] \notin {"wake", "returned"}
    PROVE  UnderWay(f)
  BY DEF Call, UnderWay

LEMMA UnderWayCall ==
    ASSUME NEW f \in Frames, UnderWay(f)'
    PROVE  Call(f)'
  BY DEF Call, UnderWay

LEMMA EndKept ==
    ASSUME NEW g \in Frames, End(g), SameCall(g), sender = "finalize" => sender' = sender /\ task' = task
    PROVE  End(g)'
  BY DEF End, SameCall

LEMMA FlightKept ==
    ASSUME Flight, lastPrio \in Prios, UNCHANGED <<scenario, lastVars, senderVars>>,
           \A p \in Prios : \A t \in Targets : FrontKept(p, t)
    PROVE  Flight' /\ (Shown => Shown')
<1>1. /\ scenario' = scenario /\ scheduled' = scheduled /\ lastTarget' = lastTarget /\ lastPrio' = lastPrio
      /\ sender' = sender /\ task' = task /\ packet' = packet /\ error' = error
  BY DEF lastVars, senderVars
<1>2. ASSUME Shown PROVE Shown' /\ Scheduled(lastPrio, lastTarget)' = Scheduled(lastPrio, lastTarget)
  <2>1. FrontKept(lastPrio, lastTarget)
    BY <1>2 DEF Shown
  <2>2. QED
    BY <1>1, <1>2, <2>1 DEF Shown, FrontKept, Scheduled
<1>3. QED
  BY <1>1, <1>2 DEF Flight, Frame

LEMMA ClosingEarly ==
    ASSUME finalizer' \in {"idle", "notify", "wake", "join"}, finalizer' # "idle" => shutdown'
    PROVE  Closing'
  BY DEF Closing, Joined, Dropping, Destroying

LEMMA ClosingLate ==
    ASSUME shutdown', sender' = "exited", finalizer' \in Dropping => Shown',
           finalizer' \in Destroying => \A f \in Frames : pc'[f] \in {"idle", "returned"},
           finalizer' = "gone" => \A f \in Frames : buffer'[f] # "queue"
    PROVE  Closing'
  BY DEF Closing

LEMMA ClosingKept ==
    ASSUME Closing, finalizer' = finalizer, sender' = sender, shutdown' = shutdown, Shown => Shown',
           finalizer \notin Destroying \/ (pc' = pc /\ buffer' = buffer)
    PROVE  Closing'
  BY DEF Closing, Destroying

LEMMA FrontIsQueued ==
    ASSUME QueueInv, Shown, lastPrio \in Prios
    PROVE  /\ Scheduled(lastPrio, lastTarget) \in Frames
           /\ buffer[Scheduled(lastPrio, lastTarget)] = "queue"
<1>1. QueueTypes /\ Grouped(lastPrio, lastTarget) /\ lastTarget \in Targets
  BY DEF QueueInv, Shown
<1>2. group[lastPrio][lastTarget] \in Seq(Frames) /\ group[lastPrio][lastTarget] # <<>>
  BY <1>1 DEF QueueTypes, Shown
<1>3. group[lastPrio][lastTarget][1] \in Members(group[lastPrio][lastTarget])
  <2>1. 1 \in DOMAIN group[lastPrio][lastTarget]
    BY <1>2, SMT
  <2>2. QED
    BY <2>1 DEF Members
<1>4. QED
  BY <1>1, <1>3 DEF Grouped, Queued, Scheduled

(* A step of the threads that leaves the calls, the frames and the queues. *)
LEMMA QuietThread ==
    ASSUME Inv, UNCHANGED <<scenario, callVars, frameVars, queueVars, shutdown, missed>>, ThreadTypes',
           sender = "finalize" => sender' = sender /\ task' = task, Flight', Closing'
    PROVE  Inv'
<1>1. /\ scenario' = scenario /\ pc' = pc /\ result' = result /\ buffer' = buffer /\ ended' = ended
      /\ pooled' = pooled /\ shutdown' = shutdown /\ missed' = missed /\ UNCHANGED queueVars
  BY DEF callVars, frameVars
<1>2. CallTypes'
  BY <1>1 DEF Inv, CallTypes
<1>3. QueueInv'
  BY <1>1, QueueKept DEF Inv, Queued
<1>4. ASSUME NEW f \in Frames PROVE Call(f)' /\ End(f)'
  <2>1. SameCall(f)
    BY <1>1 DEF SameCall
  <2>2. Call(f) /\ End(f)
    BY DEF Inv
  <2>3. Call(f)'
    BY <1>1, <2>1, <2>2, CallKept, StillDown
  <2>4. End(f)'
    BY <1>1, <2>1, <2>2, EndKept
  <2>5. QED
    BY <2>3, <2>4
<1>5. QED
  BY <1>2, <1>3, <1>4 DEF Inv

(* A step of a call.                                                       *)
LEMMA CallerStep ==
    ASSUME Inv, NEW f \in Frames,
           UNCHANGED <<scenario, shutdown, lastVars, senderVars, adapterVars, finalizer>>,
           CallTypes', wakingSignal' \in BOOLEAN, QueueInv',
           \A p \in Prios : \A t \in Targets : FrontKept(p, t),
           \A g \in Frames : g # f => SameCall(g), Call(f)', End(f)', finalizer \notin Destroying
    PROVE  Inv'
<1>1. /\ shutdown' = shutdown /\ sender' = sender /\ task' = task /\ packet' = packet /\ error' = error
      /\ scheduled' = scheduled /\ lastTarget' = lastTarget /\ lastPrio' = lastPrio
      /\ onSendable' = onSendable /\ busy' = busy /\ busies' = busies /\ finalizer' = finalizer
  BY DEF senderVars, lastVars, adapterVars
<1>2. ThreadTypes'
  BY <1>1, ZenonT(30) DEF Inv, ThreadTypes
<1>3. Flight' /\ (Shown => Shown')
  BY FlightKept DEF Inv, ThreadTypes
<1>4. ASSUME NEW g \in Frames PROVE Call(g)' /\ End(g)'
  <2>1. CASE g = f
    BY <2>1
  <2>2. CASE g # f
    <3>1. Call(g) /\ End(g) /\ SameCall(g)
      BY <2>2 DEF Inv
    <3>2. Call(g)'
      BY <1>1, <3>1, CallKept, StillDown
    <3>3. End(g)'
      BY <1>1, <3>1, EndKept
    <3>4. QED
      BY <3>2, <3>3
  <2>3. QED
    BY <2>1, <2>2
<1>5. Closing'
  BY <1>1, <1>3, ClosingKept DEF Inv
<1>6. QED
  BY <1>2, <1>3, <1>4, <1>5 DEF Inv

LEMMA CallRuns ==
    ASSUME Inv, NEW f \in Frames, pc[f] \notin {"idle", "returned"}
    PROVE  finalizer \notin Destroying
  BY DEF Inv, Closing

LEMMA OpenRuns ==
    ASSUME Inv, ~shutdown
    PROVE  finalizer \notin Destroying
  BY DEF Inv, Closing, Destroying

(* A call goes on and leaves its buffer.                                   *)
LEMMA CallGoesOn ==
    ASSUME Inv, NEW f \in Frames, NEW x \in Stages, NEW y \in Answers,
           UNCHANGED <<scenario, shutdown, lastVars, senderVars, adapterVars, finalizer, missed, frameVars,
                       queueVars>>,
           wakingSignal' \in BOOLEAN, pc' = [pc EXCEPT ![f] = x], result' = [result EXCEPT ![f] = y],
           Call(f)', finalizer \notin Destroying
    PROVE  Inv'
<1>1. /\ scenario' = scenario /\ shutdown' = shutdown /\ missed' = missed /\ buffer' = buffer
      /\ ended' = ended /\ pooled' = pooled /\ group' = group /\ UNCHANGED queueVars
      /\ sender' = sender /\ task' = task
  BY DEF frameVars, queueVars, senderVars
<1>2. CallTypes /\ QueueInv /\ End(f) /\ Call(f)
  BY DEF Inv
<1>3. /\ pc' \in [Frames -> Stages] /\ result' \in [Frames -> Answers]
      /\ \A g \in Frames : g # f => pc'[g] = pc[g] /\ result'[g] = result[g]
  BY <1>2 DEF CallTypes, Stages, Answers
<1>4. CallTypes'
  BY <1>1, <1>2, <1>3, ZenonT(30) DEF CallTypes, Stages, Answers
<1>5. QueueInv'
  BY <1>1, <1>2, QueueKept DEF Queued
<1>6. \A g \in Frames : g # f => SameCall(g)
  BY <1>1, <1>3 DEF SameCall
<1>7. End(f)'
  BY <1>1, <1>2 DEF End
<1>8. \A p \in Prios : \A t \in Targets : FrontKept(p, t)
  BY <1>1 DEF FrontKept
<1>9. QED
  BY <1>4, <1>5, <1>6, <1>7, <1>8, CallerStep

(* Its frame is queued.                                                    *)
LEMMA CallQueues ==
    ASSUME Inv, NEW f \in Frames, pc[f] \notin {"idle", "wake", "returned"}, Enqueue(f),
           pc' = [pc EXCEPT ![f] = "wake"],
           UNCHANGED <<scenario, shutdown, lastVars, senderVars, adapterVars, finalizer, missed, result, ended,
                       pooled, wakingSignal>>
    PROVE  Inv'
<1>1. /\ scenario' = scenario /\ shutdown' = shutdown /\ missed' = missed /\ result' = result
      /\ ended' = ended /\ pooled' = pooled
  OBVIOUS
<1>2. CallTypes /\ QueueInv /\ End(f) /\ Call(f) /\ wakingSignal' \in BOOLEAN
  BY DEF Inv, ThreadTypes
<1>3. buffer[f] = "caller" /\ ended[f] = 0 /\ f \notin pooled /\ result[f] = "none"
  BY <1>2 DEF Call
<1>4. buffer' = [buffer EXCEPT ![f] = "queue"]
  BY DEF Enqueue
<1>5. /\ pc' \in [Frames -> Stages] /\ buffer' \in [Frames -> {"caller", "queue", "nobody"}]
      /\ pc'[f] = "wake" /\ buffer'[f] = "queue"
      /\ \A g \in Frames : g # f => pc'[g] = pc[g] /\ buffer'[g] = buffer[g]
  BY <1>2, <1>4 DEF CallTypes, Stages
<1>6. CallTypes'
  BY <1>1, <1>2, <1>5 DEF CallTypes, Stages
<1>7. QueueInv' /\ \A p \in Prios : \A t \in Targets : FrontKept(p, t)
  BY <1>1, <1>2, <1>3, EnqueueTo
<1>8. \A g \in Frames : g # f => SameCall(g)
  BY <1>1, <1>5 DEF SameCall
<1>9. Call(f)' /\ End(f)'
  BY <1>1, <1>3, <1>5 DEF Call, End
<1>10. finalizer \notin Destroying
  BY CallRuns
<1>11. QED
  BY <1>2, <1>6, <1>7, <1>8, <1>9, <1>10, CallerStep

(* Its frame is dropped.                                                   *)
LEMMA CallDrops ==
    ASSUME Inv, NEW f \in Frames, pc[f] \notin {"idle", "wake", "returned"},
           NEW x, NEW y,
           \/ x = "wake" /\ y = "none" /\ pooled' = pooled
           \/ x = "returned" /\ y = "ok" /\ (pooled' = pooled \/ pooled' = pooled \union {f}),
           pc' = [pc EXCEPT ![f] = x], result' = [result EXCEPT ![f] = y],
           buffer' = [buffer EXCEPT ![f] = "nobody"],
           UNCHANGED <<scenario, shutdown, lastVars, senderVars, adapterVars, finalizer, missed, ended,
                       queueVars, wakingSignal>>
    PROVE  Inv'
<1>1. /\ scenario' = scenario /\ shutdown' = shutdown /\ missed' = missed /\ ended' = ended
      /\ group' = group /\ UNCHANGED queueVars
  BY DEF queueVars
<1>2. CallTypes /\ QueueInv /\ End(f) /\ Call(f) /\ wakingSignal' \in BOOLEAN
  BY DEF Inv, ThreadTypes
<1>3. buffer[f] = "caller" /\ ended[f] = 0 /\ f \notin pooled
  BY <1>2 DEF Call
<1>4. x \in {"wake", "returned"} /\ y \in {"none", "ok"} /\ pooled' \subseteq pooled \union {f}
      /\ pooled \subseteq pooled'
  OBVIOUS
<1>5. /\ pc' \in [Frames -> Stages] /\ buffer' \in [Frames -> {"caller", "queue", "nobody"}]
      /\ result' \in [Frames -> Answers]
      /\ pc'[f] = x /\ result'[f] = y /\ buffer'[f] = "nobody"
      /\ \A g \in Frames : g # f => pc'[g] = pc[g] /\ buffer'[g] = buffer[g] /\ result'[g] = result[g]
  BY <1>2, <1>4 DEF CallTypes, Stages, Answers
<1>6. pooled' \subseteq Frames /\ \A g : g # f => (g \in pooled' <=> g \in pooled)
  BY <1>2, <1>4 DEF CallTypes
<1>7. CallTypes'
  <2>1. ended \in [Frames -> 0 .. 1] /\ shutdown \in BOOLEAN /\ missed \subseteq Frames /\ scenario \in Scenarios
    BY <1>2 DEF CallTypes
  <2>2. QED
    BY <1>1, <1>5, <1>6, <2>1, ZenonT(30) DEF CallTypes, Stages, Answers
<1>8. Queued' = Queued
  BY <1>3, <1>5 DEF Queued
<1>9. QueueInv' /\ \A p \in Prios : \A t \in Targets : FrontKept(p, t)
  BY <1>1, <1>2, <1>8, QueueKept DEF FrontKept
<1>10. \A g \in Frames : g # f => SameCall(g)
  BY <1>1, <1>5, <1>6 DEF SameCall
<1>11. Call(f)'
  BY <1>4, <1>5 DEF Call
<1>12. End(f)'
  BY <1>1, <1>3, <1>5 DEF End
<1>13. finalizer \notin Destroying
  BY CallRuns
<1>14. QED
  BY <1>2, <1>7, <1>9, <1>10, <1>11, <1>12, <1>13, CallerStep, ZenonT(30)

(* retryCv_ is notified.                                                   *)
LEMMA Notified ==
    ASSUME Inv, NotifyAll, UNCHANGED <<scenario, result, frameVars, queueVars, shutdown>>,
           sender # "finalize" \/ UNCHANGED senderVars
    PROVE  /\ CallTypes' /\ QueueInv' /\ \A f \in Frames : Call(f)' /\ End(f)'
           /\ \A p \in Prios : \A t \in Targets : FrontKept(p, t)
<1>1. /\ scenario' = scenario /\ shutdown' = shutdown /\ buffer' = buffer /\ result' = result
      /\ ended' = ended /\ pooled' = pooled /\ group' = group /\ UNCHANGED queueVars
      /\ pc' = [f \in Frames |-> IF pc[f] = "waiting" THEN "retry" ELSE pc[f]]
      /\ missed' \subseteq missed \union Frames
  BY DEF frameVars, queueVars, NotifyAll
<1>2. CallTypes /\ QueueInv
  BY DEF Inv
<1>3. ASSUME NEW f \in Frames PROVE (pc[f] = "waiting" /\ pc'[f] = "retry") \/ pc'[f] = pc[f]
  BY <1>1
<1>4. pc' \in [Frames -> Stages]
  <2>1. \A f \in Frames : pc'[f] \in Stages
    BY <1>2, <1>3 DEF CallTypes, Stages
  <2>2. pc' = [f \in Frames |-> pc'[f]]
    BY <1>1
  <2>3. QED
    BY <2>1, <2>2
<1>5. CallTypes'
  BY <1>1, <1>2, <1>4 DEF CallTypes, Stages
<1>6. QueueInv'
  BY <1>1, <1>2, QueueKept DEF Queued
<1>7. ASSUME NEW f \in Frames PROVE Call(f)' /\ End(f)'
  <2>1. Call(f) /\ End(f)
    BY DEF Inv
  <2>2. Call(f)'
    <3>1. CASE pc[f] = "waiting" /\ pc'[f] = "retry"
      <4>1. UnderWay(f)
        BY <2>1, <3>1, CallUnderWay
      <4>2. UnderWay(f)'
        BY <1>1, <3>1, <4>1 DEF UnderWay
      <4>3. QED
        BY <4>2, UnderWayCall
    <3>2. CASE pc'[f] = pc[f]
      <4>1. SameCall(f)
        BY <1>1, <3>2 DEF SameCall
      <4>2. QED
        BY <1>1, <2>1, <4>1, CallKept, StillDown
    <3>3. QED
      BY <1>3, <3>1, <3>2
  <2>3. End(f)'
    BY <1>1, <2>1 DEF End, senderVars
  <2>4. QED
    BY <2>2, <2>3
<1>8. QED
  BY <1>1, <1>5, <1>6, <1>7 DEF FrontKept

(* The frame that was scheduled is taken out and freed.                    *)
LEMMA Finalized ==
    ASSUME Inv, FinalizeLast, Shown, sender = "finalize" => task = Scheduled(lastPrio, lastTarget),
           UNCHANGED <<scenario, callVars, ended, pooled, shutdown, missed>>
    PROVE  CallTypes' /\ QueueInv' /\ \A f \in Frames : Call(f)' /\ End(f)'
<1> DEFINE h == Scheduled(lastPrio, lastTarget)
<1>1. /\ scenario' = scenario /\ pc' = pc /\ result' = result /\ ended' = ended /\ pooled' = pooled
      /\ shutdown' = shutdown /\ missed' = missed
  BY DEF callVars
<1>2. CallTypes /\ QueueInv /\ lastPrio \in Prios
  BY DEF Inv, ThreadTypes
<1>3. QueueInv' /\ h \in Frames /\ buffer[h] = "queue" /\ buffer' = [buffer EXCEPT ![h] = "nobody"]
  BY <1>1, <1>2, FinalizeFrom
<1> HIDE DEF h
<1>4. /\ buffer' \in [Frames -> {"caller", "queue", "nobody"}] /\ buffer'[h] = "nobody"
      /\ \A f \in Frames : f # h => buffer'[f] = buffer[f]
  BY <1>2, <1>3 DEF CallTypes
<1>5. CallTypes'
  BY <1>1, <1>2, <1>4 DEF CallTypes
<1>6. ASSUME NEW f \in Frames PROVE Call(f)' /\ End(f)'
  <2>1. Call(f) /\ End(f)
    BY DEF Inv
  <2>2. CASE f = h
    <3>1. buffer[f] = "queue" /\ buffer'[f] = "nobody"
      BY <1>3, <1>4, <2>2
    <3>2. Call(f)'
      <4>1. pc[f] \in {"wake", "returned"} /\ result[f] \notin {"full", "timeout"}
        BY <2>1, <3>1 DEF Call
      <4>2. pc[f] # "returned" => result[f] = "none"
        BY <2>1 DEF Call
      <4>3. QED
        BY <1>1, <3>1, <4>1, <4>2 DEF Call
    <3>3. End(f)'
      BY <1>1, <2>1, <3>1 DEF End
    <3>4. QED
      BY <3>2, <3>3
  <2>3. CASE f # h
    <3>1. buffer'[f] = buffer[f] /\ ~(sender = "finalize" /\ task = f)
      BY <1>4, <2>3 DEF h
    <3>2. Call(f)'
      <4>1. SameCall(f)
        BY <1>1, <3>1 DEF SameCall
      <4>2. QED
        BY <1>1, <2>1, <4>1, CallKept, StillDown
    <3>3. End(f)'
      BY <1>1, <2>1, <3>1 DEF End
    <3>4. QED
      BY <3>2, <3>3
  <2>4. QED
    BY <2>2, <2>3
<1>7. QED
  BY <1>3, <1>5, <1>6

-----------------------------------------------------------------------------
(* Each action preserves the invariant: the calls.                         *)
LEMMA SameResult ==
    ASSUME CallTypes, NEW f \in Frames, result' = result
    PROVE  result' = [result EXCEPT ![f] = result[f]] /\ result[f] \in Answers
  BY DEF CallTypes, Answers

LEMMA CreateSendTaskStep ==
    ASSUME Inv, NEW f \in Frames, CreateSendTask(f)
    PROVE  Inv'
<1>1. /\ ~shutdown /\ pc[f] = "idle" /\ pc' = [pc EXCEPT ![f] = "add"] /\ result' = result
      /\ UNCHANGED <<scenario, shutdown, lastVars, senderVars, adapterVars, finalizer, missed, frameVars, queueVars>>
      /\ wakingSignal' = wakingSignal
  BY DEF CreateSendTask, Goto
<1>2. CallTypes /\ Call(f) /\ wakingSignal' \in BOOLEAN
  BY <1>1 DEF Inv, ThreadTypes
<1>3. buffer' = buffer /\ ended' = ended /\ pooled' = pooled /\ pc'[f] = "add"
  BY <1>1, <1>2 DEF frameVars, CallTypes
<1>4. Call(f)'
  <2>1. UnderWay(f)
    BY <1>1, <1>2, CallUnderWay
  <2>2. UnderWay(f)'
    BY <1>1, <1>3, <2>1 DEF UnderWay
  <2>3. QED
    BY <2>2, UnderWayCall
<1>5. "add" \in Stages /\ finalizer \notin Destroying
  BY <1>1, OpenRuns DEF Stages
<1>6. QED
  BY <1>1, <1>2, <1>4, <1>5, SameResult, CallGoesOn

LEMMA DiscardFrameStep ==
    ASSUME Inv, NEW f \in Frames, DiscardFrame(f)
    PROVE  Inv'
<1>1. /\ pc[f] = "add" /\ pc' = [pc EXCEPT ![f] = "returned"] /\ result' = [result EXCEPT ![f] = "ok"]
      /\ buffer' = [buffer EXCEPT ![f] = "nobody"] /\ (pooled' = pooled \/ pooled' = pooled \union {f})
      /\ UNCHANGED <<scenario, shutdown, lastVars, senderVars, adapterVars, finalizer, missed, ended,
                     queueVars, wakingSignal>>
  BY DEF DiscardFrame, Goto
<1>2. QED
  BY <1>1, CallDrops

LEMMA AddSendTaskStep ==
    ASSUME Inv, NEW f \in Frames, AddSendTask(f)
    PROVE  Inv'
<1>1. /\ pc[f] = "add"
      /\ UNCHANGED <<scenario, shutdown, lastVars, senderVars, adapterVars, finalizer, missed, ended, pooled,
                     wakingSignal>>
  BY DEF AddSendTask
<1>2. CallTypes /\ Call(f) /\ wakingSignal' \in BOOLEAN /\ finalizer \notin Destroying
  BY <1>1, CallRuns DEF Inv, ThreadTypes
<1>3. CASE Enqueue(f) /\ pc' = [pc EXCEPT ![f] = "wake"] /\ result' = result
  BY <1>1, <1>3, CallQueues
<1>4. CASE /\ pc' = [pc EXCEPT ![f] = "returned"] /\ result' = [result EXCEPT ![f] = "full"]
           /\ UNCHANGED <<queueVars, buffer>>
  <2>1. UNCHANGED <<scenario, shutdown, lastVars, senderVars, adapterVars, finalizer, missed, frameVars, queueVars>>
    BY <1>1, <1>4 DEF frameVars
  <2>2. pc'[f] = "returned" /\ result'[f] = "full" /\ buffer'[f] = buffer[f]
    BY <1>2, <1>4 DEF CallTypes
  <2>3. Call(f)'
    BY <1>1, <1>2, <2>2 DEF Call
  <2>4. "returned" \in Stages /\ "full" \in Answers
    BY DEF Stages, Answers
  <2>5. QED
    BY <1>2, <1>4, <2>1, <2>3, <2>4, CallGoesOn
<1>5. CASE pc' = [pc EXCEPT ![f] = "retry"] /\ result' = result /\ UNCHANGED <<queueVars, buffer>>
  <2>1. UNCHANGED <<scenario, shutdown, lastVars, senderVars, adapterVars, finalizer, missed, frameVars, queueVars>>
    BY <1>1, <1>5 DEF frameVars
  <2>2. pc'[f] = "retry" /\ buffer' = buffer /\ ended' = ended /\ pooled' = pooled
    BY <1>1, <1>2, <1>5 DEF CallTypes
  <2>3. Call(f)'
    <3>1. UnderWay(f)
      BY <1>1, <1>2, CallUnderWay
    <3>2. UnderWay(f)'
      BY <1>5, <2>2, <3>1 DEF UnderWay
    <3>3. QED
      BY <3>2, UnderWayCall
  <2>4. "retry" \in Stages
    BY DEF Stages
  <2>5. QED
    BY <1>2, <1>5, <2>1, <2>3, <2>4, SameResult, CallGoesOn
<1>6. QED
  BY <1>3, <1>4, <1>5 DEF AddSendTask, Goto

LEMMA RetryFuncStep ==
    ASSUME Inv, NEW f \in Frames, NEW from \in {"retry", "lastRetry"}, NEW otherwise \in {"blocking", "expired"},
           RetryFunc(f, from, otherwise)
    PROVE  Inv'
<1>1. /\ pc[f] = from
      /\ UNCHANGED <<scenario, shutdown, lastVars, senderVars, adapterVars, finalizer, missed, ended, pooled,
                     wakingSignal, result>>
  BY DEF RetryFunc
<1>2. CallTypes /\ Call(f) /\ wakingSignal' \in BOOLEAN /\ finalizer \notin Destroying
  BY <1>1, CallRuns DEF Inv, ThreadTypes
<1>3. pc[f] \notin {"idle", "wake", "returned"}
  BY <1>1
<1>4. CASE pc' = [pc EXCEPT ![f] = "wake"] /\ buffer' = [buffer EXCEPT ![f] = "nobody"] /\ UNCHANGED queueVars
  <2>1. result[f] = "none"
    BY <1>2, <1>3 DEF Call
  <2>2. result' = [result EXCEPT ![f] = "none"]
    BY <1>1, <1>2, <2>1, SameResult
  <2>3. QED
    BY <1>1, <1>3, <1>4, <2>2, CallDrops
<1>5. CASE Enqueue(f) /\ pc' = [pc EXCEPT ![f] = "wake"]
  BY <1>1, <1>3, <1>5, CallQueues
<1>6. CASE pc' = [pc EXCEPT ![f] = otherwise] /\ UNCHANGED <<queueVars, buffer>>
  <2>1. UNCHANGED <<scenario, shutdown, lastVars, senderVars, adapterVars, finalizer, missed, frameVars, queueVars>>
    BY <1>1, <1>6 DEF frameVars
  <2>2. pc'[f] = otherwise /\ buffer' = buffer /\ ended' = ended /\ pooled' = pooled /\ result' = result
    BY <1>1, <1>2, <1>6 DEF CallTypes
  <2>3. otherwise \notin {"wake", "returned"} /\ otherwise \in Stages
    BY DEF Stages
  <2>4. Call(f)'
    <3>1. UnderWay(f)
      BY <1>2, <1>3, CallUnderWay
    <3>2. UnderWay(f)'
      BY <2>2, <2>3, <3>1 DEF UnderWay
    <3>3. QED
      BY <3>2, UnderWayCall
  <2>5. QED
    BY <1>2, <1>6, <2>1, <2>2, <2>3, <2>4, SameResult, CallGoesOn, ZenonT(30)
<1>7. QED
  BY <1>4, <1>5, <1>6 DEF RetryFunc, Goto, AfterRetry

LEMMA WaitStep ==
    ASSUME Inv, NEW f \in Frames, Block(f) \/ WaitTimesOut(f)
    PROVE  Inv'
<1>1. PICK x \in {"waiting", "lastRetry"} :
        /\ pc[f] \in {"blocking", "waiting"} /\ pc' = [pc EXCEPT ![f] = x] /\ result' = result
        /\ UNCHANGED <<scenario, shutdown, lastVars, senderVars, adapterVars, finalizer, missed, frameVars,
                       queueVars, wakingSignal>>
  BY DEF Block, WaitTimesOut, Goto
<1>2. CallTypes /\ Call(f) /\ wakingSignal' \in BOOLEAN /\ finalizer \notin Destroying
  BY <1>1, CallRuns DEF Inv, ThreadTypes
<1>3. pc'[f] = x /\ buffer' = buffer /\ ended' = ended /\ pooled' = pooled
  BY <1>1, <1>2 DEF frameVars, CallTypes
<1>4. Call(f)'
  <2>1. UnderWay(f)
    BY <1>1, <1>2, CallUnderWay
  <2>2. UnderWay(f)'
    BY <1>1, <1>3, <2>1 DEF UnderWay
  <2>3. QED
    BY <2>2, UnderWayCall
<1>5. x \in Stages
  BY <1>1 DEF Stages
<1>6. QED
  BY <1>1, <1>2, <1>4, <1>5, SameResult, CallGoesOn

LEMMA ExpiredStep ==
    ASSUME Inv, NEW f \in Frames, Expired(f)
    PROVE  Inv'
<1>1. /\ pc[f] = "expired"
      /\ UNCHANGED <<scenario, shutdown, lastVars, senderVars, adapterVars, finalizer, missed, frameVars,
                     queueVars, wakingSignal>>
  BY DEF Expired, Goto
<1>2. CallTypes /\ Call(f) /\ wakingSignal' \in BOOLEAN /\ finalizer \notin Destroying
  BY <1>1, CallRuns DEF Inv, ThreadTypes
<1>3. buffer' = buffer /\ ended' = ended /\ pooled' = pooled /\ shutdown' = shutdown
  BY <1>1 DEF frameVars
<1>4. CASE shutdown /\ pc' = [pc EXCEPT ![f] = "wake"] /\ result' = result
  <2>1. pc'[f] = "wake"
    BY <1>2, <1>4 DEF CallTypes
  <2>2. Call(f)'
    BY <1>1, <1>2, <1>3, <1>4, <2>1 DEF Call
  <2>3. "wake" \in Stages
    BY DEF Stages
  <2>4. QED
    BY <1>1, <1>2, <1>4, <2>2, <2>3, SameResult, CallGoesOn, ZenonT(30)
<1>5. CASE pc' = [pc EXCEPT ![f] = "returned"] /\ result' = [result EXCEPT ![f] = "timeout"]
  <2>1. pc'[f] = "returned" /\ result'[f] = "timeout"
    BY <1>2, <1>5 DEF CallTypes
  <2>2. Call(f)'
    BY <1>1, <1>2, <1>3, <2>1 DEF Call
  <2>3. "returned" \in Stages /\ "timeout" \in Answers
    BY DEF Stages, Answers
  <2>4. QED
    BY <1>1, <1>2, <1>5, <2>2, <2>3, CallGoesOn, ZenonT(30)
<1>6. QED
  BY <1>4, <1>5 DEF Expired, Goto

LEMMA WakeSenderStep ==
    ASSUME Inv, NEW f \in Frames, WakeSender(f)
    PROVE  Inv'
<1>1. /\ pc[f] = "wake" /\ pc' = [pc EXCEPT ![f] = "returned"] /\ result' = [result EXCEPT ![f] = "ok"]
      /\ wakingSignal' = TRUE
      /\ UNCHANGED <<scenario, shutdown, lastVars, senderVars, adapterVars, finalizer, missed, frameVars, queueVars>>
  BY DEF WakeSender, Goto, Signalled
<1>2. CallTypes /\ Call(f) /\ wakingSignal' \in BOOLEAN /\ finalizer \notin Destroying
  BY <1>1, CallRuns DEF Inv
<1>3. pc'[f] = "returned" /\ result'[f] = "ok" /\ buffer' = buffer /\ shutdown' = shutdown
  BY <1>1, <1>2 DEF CallTypes, frameVars
<1>4. Call(f)'
  <2>1. buffer[f] # "caller" \/ shutdown
    BY <1>1, <1>2 DEF Call
  <2>2. QED
    BY <1>3, <2>1 DEF Call
<1>5. "returned" \in Stages /\ "ok" \in Answers
  BY DEF Stages, Answers
<1>6. QED
  BY <1>1, <1>2, <1>4, <1>5, CallGoesOn

LEMMA OnSendEndTaskStep ==
    ASSUME Inv, NEW f \in Frames, OnSendEndTask(f)
    PROVE  Inv'
<1>1. /\ f \in pooled /\ pooled' = pooled \ {f} /\ ended' = [ended EXCEPT ![f] = ended[f] + 1]
      /\ buffer' = buffer /\ pc' = pc /\ result' = result /\ shutdown' = shutdown /\ missed' = missed
      /\ scenario' = scenario /\ UNCHANGED queueVars /\ group' = group
      /\ UNCHANGED <<lastVars, senderVars, adapterVars>> /\ finalizer' = finalizer /\ wakingSignal' = wakingSignal
  BY DEF OnSendEndTask, callVars, queueVars
<1>2. CallTypes /\ QueueInv /\ ThreadTypes /\ Call(f) /\ End(f) /\ Flight /\ Closing
  BY DEF Inv
<1>3. ended[f] = 0 /\ buffer[f] = "nobody" /\ 0 + 1 = 1
  BY <1>1, <1>2, SMT DEF End
<1>4. /\ ended' \in [Frames -> 0 .. 1] /\ ended'[f] = 1 /\ \A g \in Frames : g # f => ended'[g] = ended[g]
  <2>1. 1 \in 0 .. 1
    BY SMT
  <2>2. QED
    BY <1>1, <1>2, <1>3, <2>1 DEF CallTypes
<1>5. CallTypes'
  BY <1>1, <1>2, <1>4 DEF CallTypes
<1>6. QueueInv'
  BY <1>1, <1>2, QueueKept DEF Queued
<1>7. sender' = sender /\ task' = task
  BY <1>1 DEF senderVars
<1>8. ASSUME NEW g \in Frames PROVE Call(g)' /\ End(g)'
  <2>1. CASE g = f
    <3>1. pc[f] \in {"wake", "returned"}
      BY <1>1, <1>2 DEF Call
    <3>2. Call(f)'
      BY <1>1, <1>2, <1>3, <3>1 DEF Call
    <3>3. End(f)'
      BY <1>1, <1>3 DEF End
    <3>4. QED
      BY <2>1, <3>2, <3>3
  <2>2. CASE g # f
    <3>1. SameCall(g)
      BY <1>1, <1>4, <2>2 DEF SameCall
    <3>2. QED
      BY <1>1, <1>7, <3>1, CallKept, EndKept DEF Inv
  <2>3. QED
    BY <2>1, <2>2
<1>9. Flight' /\ (Shown => Shown')
  <2>1. \A p \in Prios : \A t \in Targets : FrontKept(p, t)
    BY <1>1 DEF FrontKept
  <2>2. QED
    BY <1>1, <1>2, <2>1, FlightKept DEF ThreadTypes
<1>10. ThreadTypes'
  BY <1>1, <1>2, ZenonT(30) DEF ThreadTypes, lastVars, senderVars, adapterVars
<1>11. Closing'
  BY <1>1, <1>2, <1>7, <1>9, ClosingKept
<1>12. QED
  BY <1>5, <1>6, <1>8, <1>9, <1>10, <1>11, ZenonT(30) DEF Inv

-----------------------------------------------------------------------------
(* The sending thread.                                                     *)
LEMMA SenderRuns ==
    ASSUME Inv, sender # "exited", finalizer' = finalizer, shutdown' = shutdown
    PROVE  Closing'
<1>1. finalizer \in {"idle", "notify", "wake", "join"} /\ (finalizer # "idle" => shutdown)
  BY DEF Inv, ThreadTypes, Closing, Joined
<1>2. QED
  BY <1>1, ClosingEarly

LEMMA RoutineStep ==
    ASSUME Inv, Routine \/ Sleep
    PROVE  Inv'
<1>1. /\ sender \in {"loop", "sleep"} /\ sender' \in {"exited", "sleep", "out", "loop"}
      /\ wakingSignal' \in {wakingSignal, FALSE}
      /\ UNCHANGED <<scenario, callVars, frameVars, queueVars, lastVars, shutdown, task, packet, error, adapterVars,
                     finalizer, missed>>
  BY DEF Routine, Sleep, SendGoto
<1>2. ThreadTypes'
  BY <1>1, ZenonT(30) DEF Inv, ThreadTypes, lastVars, adapterVars
<1>3. Flight'
  BY <1>1 DEF Flight
<1>4. Closing'
  BY <1>1, SenderRuns
<1>5. QED
  BY <1>1, <1>2, <1>3, <1>4, QuietThread

LEMMA ScheduleOutStep ==
    ASSUME Inv, ScheduleOutSendTask
    PROVE  Inv'
<1>1. /\ sender = "out" /\ sender' = "send" /\ totalTask # 0
      /\ scheduled' = TRUE /\ lastPrio' = PrioToSend /\ lastTarget' = FirstTarget(PrioToSend)
      /\ task' = group[lastPrio'][lastTarget'][1] /\ packet' = 0 /\ error' = FALSE
      /\ group' = group
      /\ UNCHANGED <<scenario, callVars, frameVars, queueVars, wakingSignal, shutdown, adapterVars, finalizer, missed>>
  BY DEF ScheduleOutSendTask, SendGoto, ScheduleOut, Scheduled, queueVars
<1>2. lastPrio' \in Prios /\ lastTarget' \in Targets /\ group[lastPrio'][lastTarget'] # <<>>
  BY <1>1, FoundToSend DEF Inv
<1>3. task' \in Frames
  <2>1. group[lastPrio'][lastTarget'] \in Seq(Frames)
    BY <1>2 DEF Inv, QueueInv, QueueTypes
  <2>2. QED
    BY <1>1, <1>2, <2>1, SMT
<1>4. ThreadTypes'
  <2>1. packet' \in Nat
    BY <1>1, SMT
  <2>2. QED
    BY <1>1, <1>2, <1>3, <2>1, ZenonT(30) DEF Inv, ThreadTypes, adapterVars
<1>5. Flight'
  BY <1>1, <1>2 DEF Flight, Shown, Scheduled
<1>6. Closing'
  BY <1>1, SenderRuns
<1>7. QED
  BY <1>1, <1>4, <1>5, <1>6, QuietThread

LEMMA ShownKept ==
    ASSUME Flight, sender \in {"send", "delay", "end", "finalize"}, UNCHANGED <<lastVars, queueVars, task>>
    PROVE  Shown' /\ task' = Scheduled(lastPrio, lastTarget)'
<1>1. Shown /\ task = Scheduled(lastPrio, lastTarget)
  BY DEF Flight
<1>2. /\ scheduled' = scheduled /\ lastTarget' = lastTarget /\ lastPrio' = lastPrio /\ group' = group
      /\ task' = task
  BY DEF lastVars, queueVars
<1>3. QED
  BY <1>1, <1>2 DEF Shown, Scheduled

LEMMA SendBytesOkStep ==
    ASSUME Inv, SendBytesOk
    PROVE  Inv'
<1>1. /\ sender = "send" /\ packet' = packet + 1
      /\ sender' = IF packet' = Frame[task].packets THEN "end" ELSE "send"
      /\ task' = task /\ scenario' = scenario
      /\ UNCHANGED <<scenario, callVars, frameVars, queueVars, lastVars, wakingSignal, shutdown, task, error,
                     adapterVars, finalizer, missed>>
  BY DEF SendBytesOk
<1>2. Shown' /\ task' = Scheduled(lastPrio, lastTarget)'
  BY <1>1, ShownKept DEF Inv
<1>3. (sender' = "end" /\ packet' = Frame[task].packets) \/ sender' = "send"
  BY <1>1
<1>4. Flight'
  BY <1>1, <1>2, <1>3 DEF Flight, Frame
<1>5. ThreadTypes'
  <2>1. packet' \in Nat
    <3>1. packet \in Nat
      BY DEF Inv, ThreadTypes
    <3>2. QED
      BY <1>1, <3>1, SMT
  <2>2. QED
    BY <1>1, <1>3, <2>1 DEF Inv, ThreadTypes, lastVars, adapterVars
<1>6. Closing'
  BY <1>1, SenderRuns
<1>7. QED
  BY <1>1, <1>4, <1>5, <1>6, QuietThread

LEMMA SendFailsStep ==
    ASSUME Inv, SendFails
    PROVE  Inv'
<1>1. /\ sender = "send" /\ sender' = "end" /\ error' = TRUE
      /\ UNCHANGED <<scenario, callVars, frameVars, queueVars, lastVars, wakingSignal, shutdown, task, packet,
                     adapterVars, finalizer, missed>>
  BY DEF SendFails, SendGoto
<1>2. Shown' /\ task' = Scheduled(lastPrio, lastTarget)'
  BY <1>1, ShownKept DEF Inv
<1>3. Flight'
  BY <1>1, <1>2 DEF Flight
<1>4. ThreadTypes'
  BY <1>1 DEF Inv, ThreadTypes, lastVars, adapterVars
<1>5. Closing'
  BY <1>1, SenderRuns
<1>6. QED
  BY <1>1, <1>3, <1>4, <1>5, QuietThread

LEMMA SendWaitRetryStep ==
    ASSUME Inv, SendWaitRetry
    PROVE  Inv'
<1>1. /\ sender = "send" /\ sender' = "delay"
      /\ UNCHANGED <<scenario, callVars, frameVars, queueVars, lastVars, wakingSignal, shutdown, task, packet,
                     error, onSendable, finalizer, missed>>
      /\ \/ UNCHANGED <<busy, busies>>
         \/ busy' = [busy EXCEPT ![lastTarget] = TRUE] /\ busies' = busies + 1
  BY DEF SendWaitRetry, SendGoto
<1>2. Shown' /\ task' = Scheduled(lastPrio, lastTarget)'
  BY <1>1, ShownKept DEF Inv
<1>3. Flight'
  BY <1>1, <1>2 DEF Flight
<1>4. busy' \in [Targets -> BOOLEAN] /\ busies' \in Nat
  <2>1. busy \in [Targets -> BOOLEAN] /\ busies \in Nat
    BY DEF Inv, ThreadTypes
  <2>2. busies + 1 \in Nat
    BY <2>1, SMT
  <2>3. QED
    BY <1>1, <2>1, <2>2
<1>5. ThreadTypes'
  BY <1>1, <1>4 DEF Inv, ThreadTypes, lastVars
<1>6. Closing'
  BY <1>1, SenderRuns
<1>7. QED
  BY <1>1, <1>3, <1>5, <1>6, QuietThread

(* A step of the threads that changes the policies and their counters.     *)
LEMMA PolicyStep ==
    ASSUME Inv, QueueInv', UNCHANGED <<scenario, callVars, frameVars, shutdown, missed>>, ThreadTypes',
           sender # "finalize" \/ UNCHANGED senderVars, Flight', Closing'
    PROVE  Inv'
<1>1. /\ scenario' = scenario /\ pc' = pc /\ result' = result /\ buffer' = buffer /\ ended' = ended
      /\ pooled' = pooled /\ shutdown' = shutdown /\ missed' = missed
      /\ sender = "finalize" => sender' = sender /\ task' = task
  BY DEF callVars, frameVars, senderVars
<1>2. CallTypes'
  BY <1>1 DEF Inv, CallTypes
<1>3. ASSUME NEW f \in Frames PROVE Call(f)' /\ End(f)'
  <2>1. SameCall(f)
    BY <1>1 DEF SameCall
  <2>2. Call(f) /\ End(f)
    BY DEF Inv
  <2>3. Call(f)'
    BY <1>1, <2>1, <2>2, CallKept, StillDown
  <2>4. End(f)'
    BY <1>1, <2>1, <2>2, EndKept
  <2>5. QED
    BY <2>3, <2>4
<1>4. QED
  BY <1>2, <1>3 DEF Inv

LEMMA DelayTaskStep ==
    ASSUME Inv, DelayTask
    PROVE  Inv'
<1>1. /\ sender = "delay" /\ sender' = "loop" /\ DelayTaskByTarget(lastTarget)
      /\ UNCHANGED <<scenario, callVars, frameVars, group, order, totalByte, totalTask, count, lastVars,
                     wakingSignal, shutdown, task, packet, error, adapterVars, finalizer, missed>>
  BY DEF DelayTask, SendGoto, AfterDelay
<1>2. lastTarget \in Targets /\ buffer' = buffer
  BY <1>1 DEF Inv, Flight, Shown, frameVars
<1>3. QueueInv'
  BY <1>1, <1>2, Delaying DEF Inv
<1>4. Flight'
  BY <1>1 DEF Flight
<1>5. ThreadTypes'
  BY <1>1 DEF Inv, ThreadTypes, lastVars, adapterVars
<1>6. Closing'
  BY <1>1, SenderRuns
<1>7. QED
  BY <1>1, <1>3, <1>4, <1>5, <1>6, PolicyStep, ZenonT(30)

LEMMA OnSendEndStep ==
    ASSUME Inv, OnSendEnd
    PROVE  Inv'
<1>1. /\ sender = "end" /\ sender' = "finalize" /\ ended' = [ended EXCEPT ![task] = ended[task] + 1]
      /\ scenario' = scenario /\ pc' = pc /\ result' = result /\ buffer' = buffer /\ pooled' = pooled
      /\ UNCHANGED queueVars /\ shutdown' = shutdown /\ missed' = missed /\ task' = task
      /\ packet' = packet /\ error' = error /\ finalizer' = finalizer /\ wakingSignal' = wakingSignal
      /\ UNCHANGED <<lastVars, adapterVars>>
  BY DEF OnSendEnd, SendGoto, callVars
<1>2. CallTypes /\ QueueInv /\ ThreadTypes /\ Flight
  BY DEF Inv
<1>3. task \in Frames /\ buffer[task] = "queue"
  BY <1>1, <1>2, FrontIsQueued DEF Flight, ThreadTypes
<1>4. ended[task] = 0 /\ 0 + 1 = 1 /\ task \notin pooled
  <2>1. ended[task] = 0 /\ task \notin pooled
    BY <1>1, <1>3 DEF Inv, End
  <2>2. 0 + 1 = 1
    BY SMT
  <2>3. QED
    BY <2>1, <2>2
<1>5. /\ ended' \in [Frames -> 0 .. 1] /\ \A g \in Frames : g # task => ended'[g] = ended[g]
  <2>1. 1 \in 0 .. 1
    BY SMT
  <2>2. QED
    BY <1>1, <1>2, <1>4, <2>1 DEF CallTypes
<1>6. CallTypes'
  BY <1>1, <1>2, <1>5 DEF CallTypes
<1>7. QueueInv'
  BY <1>1, <1>2, QueueKept DEF Queued
<1>8. ASSUME NEW g \in Frames PROVE Call(g)' /\ End(g)'
  <2>1. Call(g) /\ End(g)
    BY DEF Inv
  <2>2. CASE g = task
    <3>1. Call(g)'
      BY <1>1, <1>3, <2>1, <2>2 DEF Call
    <3>2. End(g)'
      BY <1>1, <1>3, <1>4, <2>2 DEF End
    <3>3. QED
      BY <3>1, <3>2
  <2>3. CASE g # task
    <3>1. SameCall(g)
      BY <1>1, <1>5, <2>3 DEF SameCall
    <3>2. QED
      BY <1>1, <2>1, <3>1, CallKept, EndKept
  <2>4. QED
    BY <2>2, <2>3
<1>9. ThreadTypes'
  BY <1>1, <1>2 DEF ThreadTypes, lastVars, adapterVars
<1>10. Flight'
  <2>1. Shown' /\ task' = Scheduled(lastPrio, lastTarget)'
    BY <1>1, <1>2, ShownKept
  <2>2. QED
    BY <1>1, <1>2, <2>1 DEF Flight, Frame
<1>11. Closing'
  BY <1>1, SenderRuns
<1>12. QED
  BY <1>6, <1>7, <1>8, <1>9, <1>10, <1>11 DEF Inv

LEMMA FinalizeLastStep ==
    ASSUME Inv, FinalizeLastScheduleTask
    PROVE  Inv'
<1>1. /\ sender = "finalize" /\ sender' \in {"notify", "loop"} /\ FinalizeLast
      /\ scheduled' = FALSE /\ lastTarget' = lastTarget /\ lastPrio' = lastPrio
      /\ UNCHANGED <<scenario, callVars, ended, pooled, wakingSignal, shutdown, task, packet, error, adapterVars,
                     finalizer, missed>>
  BY DEF FinalizeLastScheduleTask, FinalizeLast
<1>2. Shown /\ task = Scheduled(lastPrio, lastTarget)
  BY <1>1 DEF Inv, Flight
<1>3. CallTypes' /\ QueueInv' /\ \A f \in Frames : Call(f)' /\ End(f)'
  BY <1>1, <1>2, Finalized
<1>4. ThreadTypes'
  BY <1>1 DEF Inv, ThreadTypes, adapterVars
<1>5. Flight'
  BY <1>1 DEF Flight
<1>6. Closing'
  BY <1>1, SenderRuns, ZenonT(30)
<1>7. QED
  BY <1>3, <1>4, <1>5, <1>6 DEF Inv

LEMMA NotifyRetryStep ==
    ASSUME Inv, NotifyRetry
    PROVE  Inv'
<1>1. /\ sender = "notify" /\ sender' = "loop" /\ NotifyAll
      /\ UNCHANGED <<scenario, result, frameVars, queueVars, lastVars, wakingSignal, shutdown, task, packet,
                     error, adapterVars, finalizer>>
  BY DEF NotifyRetry, SendGoto
<1>2. CallTypes' /\ QueueInv' /\ \A f \in Frames : Call(f)' /\ End(f)'
  BY <1>1, Notified
<1>3. ThreadTypes'
  BY <1>1 DEF Inv, ThreadTypes, lastVars, adapterVars
<1>4. Flight'
  BY <1>1 DEF Flight
<1>5. Closing'
  BY <1>1, SenderRuns
<1>6. QED
  BY <1>2, <1>3, <1>4, <1>5 DEF Inv

-----------------------------------------------------------------------------
(* The adapter.                                                            *)
LEMMA AdapterStep ==
    ASSUME Inv, NEW t \in Targets, Adapter(t)
    PROVE  Inv'
<1>1. /\ UNCHANGED <<scenario, callVars, frameVars, group, order, totalByte, totalTask, count, lastVars,
                     shutdown, senderVars, finalizer, missed>>
      /\ pc' = pc /\ buffer' = buffer /\ group' = group
      /\ UNCHANGED queueVars \/ NoDelayTaskByTarget(t)
  BY DEF Adapter, BecomeSendable, NoDelayTask, SendableWake, queueVars, callVars, frameVars
<1>2. QueueInv'
  <2>1. CASE UNCHANGED queueVars
    BY <1>1, <2>1, QueueKept DEF Inv, Queued
  <2>2. CASE NoDelayTaskByTarget(t)
    BY <1>1, <2>2, Releasing DEF Inv
  <2>3. QED
    BY <1>1, <2>1, <2>2
<1>3. Flight' /\ (Shown => Shown')
  <2>1. \A p \in Prios : \A u \in Targets : FrontKept(p, u)
    BY <1>1 DEF FrontKept
  <2>2. QED
    BY <1>1, <2>1, FlightKept DEF Inv, ThreadTypes
<1>4. /\ onSendable' \in [Targets -> {"idle", "noDelay", "wake"}] /\ busy' \in [Targets -> BOOLEAN]
      /\ busies' = busies /\ wakingSignal' \in BOOLEAN
  <2>1. /\ onSendable \in [Targets -> {"idle", "noDelay", "wake"}] /\ busy \in [Targets -> BOOLEAN]
        /\ wakingSignal \in BOOLEAN
    BY DEF Inv, ThreadTypes
  <2>2. /\ \E x \in {"idle", "noDelay", "wake"} : onSendable' = [onSendable EXCEPT ![t] = x]
        /\ busy' = busy \/ busy' = [busy EXCEPT ![t] = FALSE]
        /\ busies' = busies /\ wakingSignal' \in {wakingSignal, TRUE}
    BY DEF Adapter, BecomeSendable, NoDelayTask, SendableWake
  <2>3. QED
    BY <2>1, <2>2
<1>5. ThreadTypes'
  BY <1>1, <1>4, ZenonT(30) DEF Inv, ThreadTypes, lastVars, senderVars
<1>6. Closing'
  <2>1. Closing /\ sender' = sender
    BY <1>1, ZenonT(30) DEF Inv, senderVars
  <2>2. QED
    BY <1>1, <1>3, <2>1, ClosingKept
<1>7. QED
  BY <1>1, <1>2, <1>3, <1>5, <1>6, PolicyStep, ZenonT(30)

-----------------------------------------------------------------------------
(* Finalize and the destructor.                                            *)
LEMMA FinalizeStep ==
    ASSUME Inv, Finalize
    PROVE  Inv'
<1>1. /\ finalizer = "idle" /\ finalizer' = "notify" /\ shutdown' = TRUE
      /\ scenario' = scenario /\ pc' = pc /\ result' = result /\ buffer' = buffer /\ ended' = ended
      /\ pooled' = pooled /\ missed' = missed /\ UNCHANGED queueVars /\ group' = group
      /\ UNCHANGED <<lastVars, senderVars, adapterVars>> /\ wakingSignal' = wakingSignal
  BY DEF Finalize, callVars, frameVars, queueVars
<1>2. CallTypes'
  BY <1>1 DEF Inv, CallTypes
<1>3. QueueInv'
  BY <1>1, QueueKept DEF Inv, Queued
<1>4. sender' = sender /\ task' = task
  BY <1>1 DEF senderVars
<1>5. ASSUME NEW f \in Frames PROVE Call(f)' /\ End(f)'
  <2>1. SameCall(f)
    BY <1>1 DEF SameCall
  <2>2. QED
    BY <1>1, <1>4, <2>1, CallKept, EndKept DEF Inv
<1>6. ThreadTypes'
  BY <1>1, ZenonT(30) DEF Inv, ThreadTypes, lastVars, senderVars, adapterVars
<1>7. Flight'
  <2>1. \A p \in Prios : \A t \in Targets : FrontKept(p, t)
    BY <1>1 DEF FrontKept
  <2>2. QED
    BY <1>1, <2>1, FlightKept DEF Inv, ThreadTypes
<1>8. Closing'
  BY <1>1, ClosingEarly
<1>9. QED
  BY <1>2, <1>3, <1>5, <1>6, <1>7, <1>8 DEF Inv

LEMMA FinalizeNotifyStep ==
    ASSUME Inv, FinalizeNotify
    PROVE  Inv'
<1>1. /\ finalizer = "notify" /\ finalizer' = "wake" /\ NotifyAll /\ shutdown' = shutdown
      /\ UNCHANGED <<scenario, result, frameVars, queueVars, lastVars, wakingSignal, shutdown, senderVars, adapterVars>>
  BY DEF FinalizeNotify
<1>2. /\ CallTypes' /\ QueueInv' /\ \A f \in Frames : Call(f)' /\ End(f)'
      /\ \A p \in Prios : \A t \in Targets : FrontKept(p, t)
  BY <1>1, Notified
<1>3. ThreadTypes'
  BY <1>1 DEF Inv, ThreadTypes, lastVars, senderVars, adapterVars
<1>4. Flight'
  BY <1>1, <1>2, FlightKept DEF Inv, ThreadTypes
<1>5. Closing'
  <2>1. shutdown
    BY <1>1 DEF Inv, Closing
  <2>2. QED
    BY <1>1, <2>1, ClosingEarly
<1>6. QED
  BY <1>2, <1>3, <1>4, <1>5 DEF Inv

LEMMA FinalizeWakeStep ==
    ASSUME Inv, FinalizeWake
    PROVE  Inv'
<1>1. /\ finalizer = "wake" /\ finalizer' = "join" /\ wakingSignal' = TRUE /\ group' = group
      /\ UNCHANGED <<scenario, callVars, frameVars, queueVars, lastVars, shutdown, senderVars, adapterVars, missed>>
  BY DEF FinalizeWake, queueVars
<1>2. ThreadTypes' /\ (sender = "finalize" => sender' = sender /\ task' = task)
  BY <1>1 DEF Inv, ThreadTypes, lastVars, senderVars, adapterVars
<1>3. Flight'
  <2>1. \A p \in Prios : \A t \in Targets : FrontKept(p, t)
    BY <1>1 DEF FrontKept
  <2>2. QED
    BY <1>1, <2>1, FlightKept DEF Inv, ThreadTypes
<1>4. Closing'
  <2>1. shutdown
    BY <1>1 DEF Inv, Closing
  <2>2. QED
    BY <1>1, <2>1, ClosingEarly
<1>5. QED
  BY <1>1, <1>2, <1>3, <1>4, QuietThread

(* Nothing is scheduled and nothing is queued when there is no task.       *)
LEMMA NothingQueued ==
    ASSUME CallTypes, QueueInv, totalTask = 0, NEW f \in Frames
    PROVE  buffer[f] # "queue"
<1> DEFINE p == PrioOf(f)  t == TargetOf(f)
<1>1. p \in Prios /\ t \in Targets
  BY FrameFacts DEF CallTypes
<1>2. QueueTypes /\ Totals /\ Books(p) /\ Grouped(p, t)
  BY <1>1 DEF QueueInv
<1>3. count[p] = 0
  <2>1. count \in [Prios -> Nat] /\ Total(count) = 0
    BY <1>2 DEF QueueTypes, Totals
  <2>2. \A q \in Prios : count[q] = 0
    BY <2>1, SMT DEF Total, Prios
  <2>3. QED
    BY <1>1, <2>2
<1> HIDE DEF p, t
<1>4. order[p] \in Seq(Targets) /\ group[p][t] \in Seq(Frames) /\ Len(order[p]) = 0
  BY <1>1, <1>2, <1>3 DEF QueueTypes, Books
<1>5. Len(group[p][t]) = 0
  <2>1. Times(order[p], {t}) \in Nat /\ Times(order[p], {t}) <= Len(order[p])
    BY <1>4, PlacesFinite
  <2>2. Times(order[p], {t}) = 0
    BY <1>4, <2>1, SMT
  <2>3. QED
    BY <1>1, <1>2, <2>2 DEF Books
<1>6. Members(group[p][t]) = {}
  <2>1. DOMAIN group[p][t] = {}
    BY <1>4, <1>5, SMT
  <2>2. QED
    BY <2>1 DEF Members
<1>7. QED
  BY <1>2, <1>6 DEF Grouped, Queued, p, t

LEMMA JoinStep ==
    ASSUME Inv, Join \/ Drained
    PROVE  Inv'
<1>1. /\ UNCHANGED <<scenario, callVars, frameVars, queueVars, lastVars, wakingSignal, shutdown, senderVars,
                     adapterVars, missed>>
      /\ sender' = sender /\ task' = task /\ group' = group /\ pc' = pc /\ buffer' = buffer
      /\ shutdown' = shutdown
  BY DEF Join, Drained, queueVars, senderVars, callVars, frameVars
<1>2. finalizer' \in {"drain", "destroy", "stopped", "gone"}
  BY DEF Join, Drained
<1>3. ThreadTypes'
  BY <1>1, <1>2, ZenonT(30) DEF Inv, ThreadTypes, lastVars, senderVars, adapterVars
<1>4. Flight'
  <2>1. \A p \in Prios : \A t \in Targets : FrontKept(p, t)
    BY <1>1 DEF FrontKept
  <2>2. QED
    BY <1>1, <2>1, FlightKept DEF Inv, ThreadTypes
<1>5. Closing'
  <2>1. Closing
    BY DEF Inv
  <2>2. CASE finalizer = "join" /\ sender = "exited" /\ finalizer' = "drain"
    <3>1. shutdown /\ finalizer' \notin Dropping /\ finalizer' \notin Destroying /\ finalizer' # "gone"
      BY <2>1, <2>2 DEF Closing, Dropping, Destroying
    <3>2. QED
      BY <1>1, <2>2, <3>1, StillDown, ClosingLate
  <2>3. CASE finalizer = "stopped" /\ finalizer' = "destroy" /\ \A f \in Frames : pc[f] \in {"idle", "returned"}
    <3>1. shutdown /\ sender = "exited" /\ finalizer' \notin Dropping /\ finalizer' # "gone"
      BY <2>1, <2>3 DEF Closing, Dropping, Joined
    <3>2. QED
      BY <1>1, <2>3, <3>1, StillDown, ClosingLate
  <2>4. CASE finalizer = "drain" /\ finalizer' = "stopped"
    <3>1. /\ shutdown /\ sender = "exited"
          /\ finalizer' \notin Dropping /\ finalizer' \notin Destroying /\ finalizer' # "gone"
      BY <2>1, <2>4 DEF Closing, Dropping, Destroying, Joined
    <3>2. QED
      BY <1>1, <3>1, StillDown, ClosingLate
  <2>5. CASE totalTask = 0 /\ finalizer = "destroy" /\ finalizer' = "gone"
    <3>1. \A f \in Frames : buffer[f] # "queue"
      BY <2>5, NothingQueued DEF Inv
    <3>2. /\ shutdown /\ sender = "exited" /\ finalizer' \notin Dropping
          /\ \A f \in Frames : pc[f] \in {"idle", "returned"}
      BY <2>1, <2>5 DEF Closing, Dropping, Destroying, Joined
    <3>3. QED
      BY <1>1, <3>1, <3>2, StillDown, ClosingLate
  <2>6. QED
    BY <2>2, <2>3, <2>4, <2>5 DEF Join, Drained
<1>6. QED
  BY <1>1, <1>3, <1>4, <1>5, QuietThread

LEMMA DrainOutStep ==
    ASSUME Inv, DrainOut
    PROVE  Inv'
<1>1. /\ totalTask # 0 /\ scheduled' = TRUE /\ lastPrio' = PrioToSend /\ lastTarget' = FirstTarget(PrioToSend)
      /\ group' = group /\ sender' = sender /\ task' = task /\ pc' = pc /\ shutdown' = shutdown
      /\ UNCHANGED <<scenario, callVars, frameVars, queueVars, wakingSignal, shutdown, senderVars, adapterVars, missed>>
      /\ \/ finalizer = "drain" /\ finalizer' = "drop"
         \/ finalizer = "destroy" /\ finalizer' = "destroyDrop"
  BY DEF DrainOut, ScheduleOut, queueVars, senderVars, callVars
<1>2. lastPrio' \in Prios /\ lastTarget' \in Targets /\ group[lastPrio'][lastTarget'] # <<>>
  BY <1>1, FoundToSend DEF Inv
<1>3. sender = "exited"
  BY <1>1 DEF Inv, Closing, Joined
<1>4. ThreadTypes'
  BY <1>1, <1>2 DEF Inv, ThreadTypes, senderVars, adapterVars
<1>5. Flight'
  BY <1>1, <1>3 DEF Flight
<1>6. Closing'
  <2>1. Closing /\ Shown'
    BY <1>1, <1>2 DEF Inv, Shown
  <2>2. /\ shutdown /\ finalizer' # "gone"
        /\ finalizer' \in Destroying => \A f \in Frames : pc[f] \in {"idle", "returned"}
    BY <1>1, <2>1 DEF Closing, Destroying
  <2>3. QED
    BY <1>1, <1>3, <2>1, <2>2, StillDown, ClosingLate
<1>7. QED
  BY <1>1, <1>4, <1>5, <1>6, QuietThread

LEMMA DrainFinalizeStep ==
    ASSUME Inv, DrainFinalize
    PROVE  Inv'
<1>1. /\ FinalizeLast /\ scheduled' = FALSE /\ lastTarget' = lastTarget /\ lastPrio' = lastPrio
      /\ sender' = sender /\ pc' = pc /\ shutdown' = shutdown
      /\ UNCHANGED <<scenario, callVars, ended, pooled, wakingSignal, shutdown, senderVars, adapterVars, missed>>
      /\ \/ finalizer = "drop" /\ finalizer' = "drain"
         \/ finalizer = "destroyDrop" /\ finalizer' = "destroy"
  BY DEF DrainFinalize, FinalizeLast, senderVars, callVars
<1>2. Shown /\ sender = "exited" /\ Closing
  BY <1>1 DEF Inv, Closing, Dropping, Joined
<1>3. CallTypes' /\ QueueInv' /\ \A f \in Frames : Call(f)' /\ End(f)'
  BY <1>1, <1>2, Finalized
<1>4. ThreadTypes'
  BY <1>1 DEF Inv, ThreadTypes, senderVars, adapterVars
<1>5. Flight'
  BY <1>1, <1>2 DEF Flight
<1>6. Closing'
  <2>1. /\ shutdown /\ finalizer' # "gone" /\ finalizer' \notin Dropping
        /\ finalizer' \in Destroying => \A f \in Frames : pc[f] \in {"idle", "returned"}
    BY <1>1, <1>2 DEF Closing, Destroying, Dropping
  <2>2. QED
    BY <1>1, <1>2, <2>1, StillDown, ClosingLate
<1>7. QED
  BY <1>3, <1>4, <1>5, <1>6 DEF Inv

-----------------------------------------------------------------------------
(* The invariant holds.                                                    *)
LEMMA InitInv ==
    ASSUME Init
    PROVE  Inv
<1>1. /\ scenario \in Scenarios
      /\ pc = [f \in Frames |-> "idle"] /\ result = [f \in Frames |-> "none"]
      /\ buffer = [f \in Frames |-> "caller"] /\ ended = [f \in Frames |-> 0] /\ pooled = {}
      /\ shutdown = FALSE /\ missed = {} /\ sender = "loop" /\ finalizer = "idle"
  BY DEF Init
<1>2. 0 \in 0 .. 1 /\ 0 \in Nat
  BY SMT
<1>3. CallTypes
  BY <1>1, <1>2 DEF CallTypes
<1>4. ThreadTypes
  BY <1>2 DEF Init, ThreadTypes, Prios
<1>5. QueueTypes
  BY <1>2, NoPlaces, NoMembers DEF Init, QueueTypes
<1>6. Queued = {} /\ Frame \in FrameType
  BY <1>1, FrameFacts DEF Queued
<1>7. Totals
  <2>1. TotalSize(Frame, Queued) = 0
    BY <1>6, SizeOfNone
  <2>2. Total(count) = 0 /\ Total(delayCount) = 0
    BY SMT DEF Init, Total, Prios
  <2>3. QED
    BY <2>1, <2>2 DEF Init, Totals
<1>8. QueueBounded
  <2>1. PICK f \in Frames : TRUE
    BY SendTaskAssumption DEF SendTaskAssumption
  <2>2. Frame[f].size \in Nat /\ MaxCapacity \in Nat \ {0} /\ ExtraHigh \in Nat
    BY <1>1, FrameFacts, SendTaskAssumption DEF SendTaskAssumption
  <2>3. 0 < MaxCapacity + ExtraHigh + Frame[f].size
    BY <2>2, SMT
  <2>4. QED
    BY <2>3 DEF Init, QueueBounded
<1>9. ASSUME NEW p \in Prios PROVE Books(p) /\ Known(p)
  <2>1. /\ order[p] = <<>> /\ count[p] = 0 /\ delayCount[p] = 0
        /\ \A t \in Targets : group[p][t] = <<>>
    BY DEF Init
  <2>2. Books(p)
    BY <2>1, NoPlaces, NoMembers DEF Books
  <2>3. Known(p)
    <3>1. DOMAIN order[p] = {}
      BY <2>1, SMT
    <3>2. QED
      BY <3>1 DEF Known
  <2>4. QED
    BY <2>2, <2>3
<1>10. ASSUME NEW p \in Prios, NEW t \in Targets PROVE Grouped(p, t)
  <2>1. group[p][t] = <<>>
    BY DEF Init
  <2>2. QED
    BY <1>6, <2>1, NoMembers DEF Grouped
<1>11. ASSUME NEW f \in Frames PROVE Call(f) /\ End(f)
  BY <1>1 DEF Call, End
<1>12. Flight /\ Closing
  BY <1>1 DEF Flight, Closing, Joined, Dropping, Destroying
<1>13. QED
  BY <1>3, <1>4, <1>5, <1>7, <1>8, <1>9, <1>10, <1>11, <1>12, ZenonT(30) DEF Inv, QueueInv

LEMMA StutterStep ==
    ASSUME Inv, UNCHANGED vars
    PROVE  Inv'
<1>1. /\ UNCHANGED <<scenario, callVars, frameVars, queueVars, lastVars, wakingSignal, shutdown, senderVars,
                     adapterVars, finalizer, missed>>
      /\ sender' = sender /\ task' = task /\ group' = group /\ pc' = pc /\ buffer' = buffer
      /\ shutdown' = shutdown
  BY DEF vars, queueVars, senderVars, callVars, frameVars
<1>2. ThreadTypes'
  BY <1>1, ZenonT(30) DEF Inv, ThreadTypes, lastVars, senderVars, adapterVars
<1>3. Flight' /\ (Shown => Shown')
  <2>1. \A p \in Prios : \A t \in Targets : FrontKept(p, t)
    BY <1>1 DEF FrontKept
  <2>2. QED
    BY <1>1, <2>1, FlightKept DEF Inv, ThreadTypes
<1>4. Closing'
  BY <1>1, <1>3, ClosingKept DEF Inv
<1>5. QED
  BY <1>1, <1>2, <1>3, <1>4, QuietThread

LEMMA InvNext ==
    ASSUME Inv, [Next]_vars
    PROVE  Inv'
<1>1. CASE UNCHANGED vars
  BY <1>1, StutterStep
<1>2. CASE Finalize
  BY <1>2, FinalizeStep
<1>3. ASSUME NEW f \in Frames, CreateSendTask(f) \/ OnSendEndTask(f) PROVE Inv'
  BY <1>3, CreateSendTaskStep, OnSendEndTaskStep
<1>4. ASSUME NEW f \in Frames, Waiting(f) PROVE Inv'
  <2>1. CASE Retry(f)
    BY <2>1, RetryFuncStep DEF Retry
  <2>2. CASE LastRetry(f)
    BY <2>2, RetryFuncStep DEF LastRetry
  <2>3. QED
    BY <1>4, <2>1, <2>2, DiscardFrameStep, AddSendTaskStep, WaitStep, ExpiredStep, WakeSenderStep DEF Waiting
<1>5. CASE Sending
  BY <1>5, RoutineStep, ScheduleOutStep, SendBytesOkStep, SendFailsStep, SendWaitRetryStep, DelayTaskStep,
     OnSendEndStep, FinalizeLastStep, NotifyRetryStep, ZenonT(30) DEF Sending
<1>6. ASSUME NEW t \in Targets, Adapter(t) PROVE Inv'
  BY <1>6, AdapterStep
<1>7. CASE Finalizing
  BY <1>7, FinalizeNotifyStep, FinalizeWakeStep, JoinStep, DrainOutStep, DrainFinalizeStep DEF Finalizing
<1>8. QED
  BY <1>1, <1>2, <1>3, <1>4, <1>5, <1>6, <1>7 DEF Next, Calling, Threads

LEMMA Invariance == Spec => []Inv
<1>1. Init => Inv
  BY InitInv
<1>2. Inv /\ [Next]_vars => Inv'
  BY InvNext
<1>3. QED
  BY <1>1, <1>2, PTL DEF Spec

(* The books of SendTaskScheduler agree in every state: every order list   *)
(* names a target as often as frames are queued for it, and the counters   *)
(* the schedule functions decide by, kept by hand in five functions, count *)
(* what is in the queues.  So the lists whose front ScheduleOutSendTask    *)
(* takes are never empty, as its comments say.                             *)
THEOREM CountersTheorem == Spec => []CountersExact
<1>1. Inv => CountersExact
  <2>1. SUFFICES ASSUME Inv PROVE CountersExact
    OBVIOUS
  <2>2. CallTypes /\ ThreadTypes /\ QueueTypes /\ Totals /\ \A p \in Prios : Books(p)
    BY <2>1 DEF Inv, QueueInv
  <2>3. TypeOK
    BY <2>2 DEF CallTypes, ThreadTypes, QueueTypes, TypeOK
  <2>4. \A p \in Prios, t \in Targets : Times(order[p], {t}) = QueuedAt(p, t)
    BY <2>2 DEF Books, QueuedAt
  <2>5. \A p \in Prios : /\ count[p] = Len(order[p])
                         /\ delayCount[p] = Times(order[p], {t \in Targets : policy[t] = "delay"})
    BY <2>2 DEF Books, Delayed
  <2>6. QED
    BY <2>2, <2>3, <2>4, <2>5 DEF CountersExact, Totals, Queued
<1>2. QED
  BY <1>1, Invariance, PTL

(* The frame SendDataRoutine hands to the adapter is at the front of its   *)
(* queue until FinalizeLastScheduleTask frees it, whatever other threads   *)
(* add, delay or release meanwhile; and it ends without an error only when *)
(* every packet of it was taken.                                           *)
THEOREM FrontTheorem == Spec => []InFlightIsFront
<1>1. Inv => InFlightIsFront
  <2>1. SUFFICES ASSUME Inv PROVE InFlightIsFront
    OBVIOUS
  <2>2. Flight /\ QueueInv /\ lastPrio \in Prios
    BY <2>1 DEF Inv, ThreadTypes
  <2>3. ASSUME sender \in {"send", "delay", "end", "finalize"}
        PROVE  scheduled /\ buffer[task] = "queue" /\ group[lastPrio][lastTarget] # <<>>
               /\ task = Scheduled(lastPrio, lastTarget)
    <3>1. Shown /\ task = Scheduled(lastPrio, lastTarget)
      BY <2>2, <2>3 DEF Flight
    <3>2. QED
      BY <2>2, <3>1, FrontIsQueued DEF Shown
  <2>4. QED
    BY <2>2, <2>3 DEF InFlightIsFront, Flight
<1>2. QED
  BY <1>1, Invariance, PTL

(* The bytes SendTaskScheduler holds stay below MAX_CAPACITY and the extra *)
(* capacity of the highest priority, and one frame.                        *)
THEOREM BoundTheorem == Spec => []QueueBounded
<1>1. Inv => QueueBounded
  BY DEF Inv, QueueInv
<1>2. QED
  BY <1>1, Invariance, PTL

(* A buffer has one owner: CreateSendTask leaves it to the caller exactly  *)
(* when it refuses the frame, but for a wait that runs out while Finalize  *)
(* starts, and the destructor leaves no frame in the queues.               *)
THEOREM OwnerTheorem == Spec => []BufferHasOneOwner
<1>1. Inv => BufferHasOneOwner
  BY DEF Inv, Call, Closing, BufferHasOneOwner
<1>2. QED
  BY <1>1, Invariance, PTL
=============================================================================
