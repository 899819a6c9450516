--------------------------- MODULE HdiDisplayProofs ---------------------------
(***************************************************************************)
(* For any number of displays, layers and z-orders: the two containers of  *)
(* HdiDisplay agree and the multiset stays sorted, the caller is told of   *)
(* every composition type that Prepare changes, and the registry           *)
(* implements LayerStack.                                                  *)
(***************************************************************************)
EXTENDS HdiDisplay, SequenceTheorems, TLAPS

-----------------------------------------------------------------------------
(***************************************************************************)
(* Insertion into and removal from a sequence.                             *)
(***************************************************************************)
Distinct(s)    == \A i, j \in 1 .. Len(s) : s[i] = s[j] => i = j
SortedBy(s, Z) == \A i, j \in 1 .. Len(s) : i < j => Z[s[i]] <= Z[s[j]]

(* Where the elements of a sequence are after an insertion. *)
LEMMA InsertAtElements ==
  ASSUME NEW S, NEW s \in Seq(S), NEW e \in S, NEW k \in 1 .. (Len(s) + 1)
  PROVE  /\ InsertAt(s, k, e) \in Seq(S)
         /\ Len(InsertAt(s, k, e)) = Len(s) + 1
         /\ InsertAt(s, k, e)[k] = e
         /\ \A i \in 1 .. (k - 1) : InsertAt(s, k, e)[i] = s[i]
         /\ \A i \in (k + 1) .. (Len(s) + 1) : InsertAt(s, k, e)[i] = s[i - 1]
<1> DEFINE a == SubSeq(s, 1, k - 1)
           b == SubSeq(s, k, Len(s))
           c == a \o <<e>>
<1>1. a \in Seq(S) /\ Len(a) = k - 1 /\ \A i \in 1 .. (k - 1) : a[i] = s[i]
  OBVIOUS
<1>2. b \in Seq(S) /\ Len(b) = Len(s) + 1 - k /\ \A i \in 1 .. (Len(s) + 1 - k) : b[i] = s[k + i - 1]
  OBVIOUS
<1>3. InsertAt(s, k, e) = c \o b
  BY DEF InsertAt
<1> HIDE DEF a, b
<1>4. c \in Seq(S) /\ Len(c) = k /\ c[k] = e /\ \A i \in 1 .. (k - 1) : c[i] = s[i]
  BY <1>1
<1> HIDE DEF c
<1>5. /\ c \o b \in Seq(S)
      /\ Len(c \o b) = Len(c) + Len(b)
      /\ \A i \in 1 .. Len(c) + Len(b) : (c \o b)[i] = IF i <= Len(c) THEN c[i] ELSE b[i - Len(c)]
  BY <1>2, <1>4, ConcatProperties
<1>6. Len(c) + Len(b) = Len(s) + 1
  BY <1>2, <1>4
<1>7. \A i \in 1 .. k : (c \o b)[i] = c[i]
  BY <1>4, <1>5, <1>6
<1>8. \A i \in (k + 1) .. (Len(s) + 1) : (c \o b)[i] = s[i - 1]
  <2> TAKE i \in (k + 1) .. (Len(s) + 1)
  <2>1. (c \o b)[i] = b[i - k]
    BY <1>4, <1>5, <1>6
  <2>2. i - k \in 1 .. (Len(s) + 1 - k) /\ k + (i - k) - 1 = i - 1
    OBVIOUS
  <2> QED BY <2>1, <2>2, <1>2
<1> QED BY <1>3, <1>4, <1>5, <1>6, <1>7, <1>8

(* Where they are after a removal. *)
LEMMA RemoveAtElements ==
  ASSUME NEW S, NEW s \in Seq(S), NEW k \in 1 .. Len(s)
  PROVE  /\ RemoveAt(s, k) \in Seq(S)
         /\ Len(RemoveAt(s, k)) = Len(s) - 1
         /\ \A i \in 1 .. (k - 1) : RemoveAt(s, k)[i] = s[i]
         /\ \A i \in k .. (Len(s) - 1) : RemoveAt(s, k)[i] = s[i + 1]
<1> DEFINE a == SubSeq(s, 1, k - 1)
           b == SubSeq(s, k + 1, Len(s))
<1>1. a \in Seq(S) /\ Len(a) = k - 1 /\ \A i \in 1 .. (k - 1) : a[i] = s[i]
  OBVIOUS
<1>2. b \in Seq(S) /\ Len(b) = Len(s) - k /\ \A i \in 1 .. (Len(s) - k) : b[i] = s[k + i]
  OBVIOUS
<1>3. RemoveAt(s, k) = a \o b
  BY DEF RemoveAt
<1> HIDE DEF a, b
<1>4. /\ a \o b \in Seq(S)
      /\ Len(a \o b) = Len(a) + Len(b)
      /\ \A i \in 1 .. Len(a) + Len(b) : (a \o b)[i] = IF i <= Len(a) THEN a[i] ELSE b[i - Len(a)]
  BY <1>1, <1>2, ConcatProperties
<1>5. Len(a) + Len(b) = Len(s) - 1
  BY <1>1, <1>2
<1>6. \A i \in 1 .. (k - 1) : (a \o b)[i] = s[i]
  BY <1>1, <1>4, <1>5
<1>7. \A i \in k .. (Len(s) - 1) : (a \o b)[i] = s[i + 1]
  <2> TAKE i \in k .. (Len(s) - 1)
  <2>1. (a \o b)[i] = b[i - (k - 1)]
    BY <1>1, <1>4, <1>5
  <2>2. i - (k - 1) \in 1 .. (Len(s) - k) /\ k + (i - (k - 1)) = i + 1
    OBVIOUS
  <2> QED BY <2>1, <2>2, <1>2
<1> QED BY <1>3, <1>4, <1>5, <1>6, <1>7

-----------------------------------------------------------------------------
(* An element that is not there yet appears once, and only it is added. *)
LEMMA InsertNew ==
  ASSUME NEW S, NEW s \in Seq(S), NEW e \in S, NEW k \in 1 .. (Len(s) + 1),
         Distinct(s), e \notin ToSet(s)
  PROVE  /\ Distinct(InsertAt(s, k, e))
         /\ ToSet(InsertAt(s, k, e)) = ToSet(s) \cup {e}
<1> DEFINE t == InsertAt(s, k, e)
           f(i) == IF i < k THEN i ELSE i - 1
<1>1. /\ t \in Seq(S) /\ Len(t) = Len(s) + 1 /\ t[k] = e
      /\ \A i \in 1 .. (k - 1) : t[i] = s[i]
      /\ \A i \in (k + 1) .. (Len(s) + 1) : t[i] = s[i - 1]
  BY InsertAtElements
<1> HIDE DEF t
<1>2. k \in Nat /\ 1 <= k /\ k <= Len(s) + 1 /\ Len(s) \in Nat
  OBVIOUS
<1>3. \A i \in 1 .. Len(s) : s[i] # e
  BY DEF ToSet
<1>4. ASSUME NEW i \in 1 .. Len(t), i # k
      PROVE  f(i) \in 1 .. Len(s) /\ t[i] = s[f(i)]
  <2>1. i \in Nat /\ 1 <= i /\ i <= Len(s) + 1
    BY <1>1, <1>2
  <2>2. CASE i < k
    <3>1. i \in 1 .. (k - 1)
      BY <1>2, <2>1, <2>2
    <3> QED BY <1>1, <1>2, <2>1, <2>2, <3>1
  <2>3. CASE i > k
    <3>1. i \in (k + 1) .. (Len(s) + 1)
      BY <1>2, <2>1, <2>3
    <3> QED BY <1>1, <1>2, <2>1, <2>3, <3>1
  <2> QED BY <1>2, <1>4, <2>1, <2>2, <2>3
<1>5. ASSUME NEW i \in 1 .. Len(t), NEW j \in 1 .. Len(t), i # k, j # k, f(i) = f(j)
      PROVE  i = j
  <2>1. i \in Nat /\ j \in Nat
    BY <1>1, <1>2
  <2> QED BY <1>2, <1>5, <2>1
<1> HIDE DEF f
<1>6. Distinct(t)
  <2> SUFFICES ASSUME NEW i \in 1 .. Len(t), NEW j \in 1 .. Len(t), t[i] = t[j] PROVE i = j
    BY DEF Distinct
  <2>1. CASE i = k
    BY <1>1, <1>3, <1>4, <2>1
  <2>2. CASE j = k
    BY <1>1, <1>3, <1>4, <2>2
  <2>3. CASE i # k /\ j # k
    BY <1>4, <1>5, <2>3 DEF Distinct
  <2> QED BY <2>1, <2>2, <2>3
<1>7. \A x \in ToSet(t) : x \in ToSet(s) \cup {e}
  <2> SUFFICES ASSUME NEW i \in 1 .. Len(t) PROVE t[i] \in ToSet(s) \cup {e}
    BY <1>1 DEF ToSet
  <2> QED BY <1>1, <1>4 DEF ToSet
<1>8. e \in ToSet(t)
  <2>1. k \in DOMAIN t
    BY <1>1, <1>2
  <2> QED BY <1>1, <2>1 DEF ToSet
<1>9. \A i \in 1 .. Len(s) : s[i] \in ToSet(t)
  <2> TAKE i \in 1 .. Len(s)
  <2>1. CASE i < k
    <3>1. i \in 1 .. (k - 1) /\ i \in 1 .. Len(t)
      BY <1>1, <1>2, <2>1
    <3>2. t[i] = s[i] /\ i \in DOMAIN t
      BY <1>1, <3>1
    <3> QED BY <3>2 DEF ToSet
  <2>2. CASE i >= k
    <3>1. i + 1 \in (k + 1) .. (Len(s) + 1) /\ i + 1 \in 1 .. Len(t) /\ (i + 1) - 1 = i
      BY <1>1, <1>2, <2>2
    <3>2. t[i + 1] = s[i] /\ i + 1 \in DOMAIN t
      BY <1>1, <3>1
    <3> QED BY <3>2 DEF ToSet
  <2> QED BY <1>2, <2>1, <2>2
<1>10. ToSet(s) \subseteq ToSet(t)
  BY <1>9 DEF ToSet
<1> QED BY <1>6, <1>7, <1>8, <1>10 DEF t

(* Inserting at the upper bound of z keeps the sequence sorted, when the   *)
(* new element has z-order z and the others keep theirs.                   *)
LEMMA InsertSorted ==
  ASSUME NEW S, NEW s \in Seq(S), NEW e \in S, NEW k \in 1 .. (Len(s) + 1),
         NEW Z \in [S -> Nat], NEW Y \in [S -> Nat], NEW z \in Nat,
         SortedBy(s, Z), Y[e] = z, \A i \in 1 .. Len(s) : Y[s[i]] = Z[s[i]],
         \A i \in 1 .. (k - 1) : Z[s[i]] <= z, k <= Len(s) => z < Z[s[k]]
  PROVE  SortedBy(InsertAt(s, k, e), Y)
<1> DEFINE t == InsertAt(s, k, e)
<1>1. /\ t \in Seq(S) /\ Len(t) = Len(s) + 1 /\ t[k] = e
      /\ \A i \in 1 .. (k - 1) : t[i] = s[i]
      /\ \A i \in (k + 1) .. (Len(s) + 1) : t[i] = s[i - 1]
  BY InsertAtElements
<1> HIDE DEF t
<1>2. \A i \in 1 .. Len(s) : s[i] \in S /\ Z[s[i]] \in Nat
  OBVIOUS
<1>3. \A i \in k .. Len(s) : z <= Z[s[i]]
  <2>1. SUFFICES ASSUME NEW i \in k .. Len(s) PROVE z <= Z[s[i]]
    OBVIOUS
  <2>2. k \in 1 .. Len(s) /\ i \in 1 .. Len(s) /\ (k < i \/ k = i)
    OBVIOUS
  <2>3. Z[s[k]] <= Z[s[i]]
    BY <1>2, <2>2 DEF SortedBy
  <2>4. z < Z[s[k]]
    BY <2>2
  <2>5. Z[s[k]] \in Nat /\ Z[s[i]] \in Nat
    BY <1>2, <2>2
  <2>6. \A x, y, w \in Nat : x < y /\ y <= w => x <= w
    OBVIOUS
  <2>7. QED
    BY <2>3, <2>4, <2>5, <2>6, Zenon
<1> SUFFICES ASSUME NEW i \in 1 .. Len(t), NEW j \in 1 .. Len(t), i < j PROVE Y[t[i]] <= Y[t[j]]
  BY DEF SortedBy, t
<1>4. k \in Nat /\ Len(s) \in Nat
  OBVIOUS
<1>5. i \in Nat /\ j \in Nat /\ 1 <= i /\ j <= Len(s) + 1
  BY <1>1, <1>4
<1>6. CASE j < k
  <2>1. i \in 1 .. (k - 1) /\ j \in 1 .. (k - 1) /\ i \in 1 .. Len(s) /\ j \in 1 .. Len(s)
    BY <1>4, <1>5, <1>6, SMTT(30)
  <2>2. t[i] = s[i] /\ t[j] = s[j]
    BY <1>1, <2>1
  <2> QED BY <2>1, <2>2 DEF SortedBy
<1>7. CASE j = k
  <2>1. i \in 1 .. (k - 1) /\ i \in 1 .. Len(s)
    BY <1>4, <1>5, <1>7, SMTT(30)
  <2>2. t[i] = s[i] /\ t[j] = e
    BY <1>1, <1>7, <2>1
  <2> QED BY <2>1, <2>2
<1>8. CASE j > k
  <2>1. j \in (k + 1) .. (Len(s) + 1) /\ j - 1 \in k .. Len(s) /\ j - 1 \in 1 .. Len(s)
    BY <1>4, <1>5, <1>8, SMTT(30)
  <2>2. t[j] = s[j - 1]
    BY <1>1, <2>1
  <2>3. CASE i = k
    <3>1. t[i] = e
      BY <1>1, <2>3
    <3> QED BY <1>3, <2>1, <2>2, <3>1
  <2>4. CASE i < k
    <3>1. i \in 1 .. (k - 1) /\ i \in 1 .. Len(s) /\ i < j - 1
      BY <1>4, <1>5, <1>8, <2>4, SMTT(30)
    <3>2. t[i] = s[i]
      BY <1>1, <3>1
    <3> QED BY <2>1, <2>2, <3>1, <3>2 DEF SortedBy
  <2>5. CASE i > k
    <3>1. i \in (k + 1) .. (Len(s) + 1) /\ i - 1 \in 1 .. Len(s) /\ i - 1 < j - 1
      BY <1>4, <1>5, <2>5, SMTT(30)
    <3>2. t[i] = s[i - 1]
      BY <1>1, <3>1
    <3> QED BY <2>1, <2>2, <3>1, <3>2 DEF SortedBy
  <2> QED BY <1>4, <1>5, <2>3, <2>4, <2>5
<1> QED BY <1>4, <1>5, <1>6, <1>7, <1>8

(* Removing the element at k removes it and nothing else. *)
LEMMA RemoveOne ==
  ASSUME NEW S, NEW s \in Seq(S), NEW k \in 1 .. Len(s), NEW Z \in [S -> Nat],
         Distinct(s), SortedBy(s, Z)
  PROVE  /\ Distinct(RemoveAt(s, k))
         /\ ToSet(RemoveAt(s, k)) = ToSet(s) \ {s[k]}
         /\ SortedBy(RemoveAt(s, k), Z)
<1> DEFINE t == RemoveAt(s, k)
           f(i) == IF i < k THEN i ELSE i + 1
<1>1. /\ t \in Seq(S) /\ Len(t) = Len(s) - 1
      /\ \A i \in 1 .. (k - 1) : t[i] = s[i]
      /\ \A i \in k .. (Len(s) - 1) : t[i] = s[i + 1]
  BY RemoveAtElements
<1> HIDE DEF t
<1>2. k \in Nat /\ k <= Len(s) /\ 1 <= k /\ Len(s) \in Nat
  OBVIOUS
<1>3. ASSUME NEW i \in 1 .. Len(t)
      PROVE  f(i) \in 1 .. Len(s) /\ f(i) # k /\ t[i] = s[f(i)]
  <2>1. i \in Nat /\ 1 <= i /\ i <= Len(s) - 1
    BY <1>1, <1>2
  <2>2. CASE i < k
    <3>1. i \in 1 .. (k - 1)
      BY <1>2, <2>1, <2>2, SMTT(30)
    <3>2. t[i] = s[i]
      BY <1>1, <3>1
    <3>3. f(i) = i /\ i \in 1 .. Len(s) /\ i # k
      BY <1>2, <2>1, <2>2
    <3> QED BY <3>2, <3>3, Zenon
  <2>3. CASE ~(i < k)
    <3>1. i \in k .. (Len(s) - 1)
      BY <1>2, <2>1, <2>3, SMTT(30)
    <3>2. t[i] = s[i + 1]
      BY <1>1, <3>1
    <3>3. f(i) = i + 1 /\ i + 1 \in 1 .. Len(s) /\ i + 1 # k
      BY <1>2, <2>1, <2>3
    <3> QED BY <3>2, <3>3, Zenon
  <2> QED BY <2>2, <2>3
<1>4. ASSUME NEW i \in 1 .. Len(t), NEW j \in 1 .. Len(t)
      PROVE  (i < j => f(i) < f(j)) /\ (f(i) = f(j) => i = j)
  <2>1. i \in Nat /\ j \in Nat
    BY <1>1, <1>2
  <2> QED BY <1>2, <2>1
<1> HIDE DEF f
<1>5. Distinct(t)
  BY <1>3, <1>4 DEF Distinct
<1>6. SortedBy(t, Z)
  BY <1>3, <1>4 DEF SortedBy
<1>7. \A x \in ToSet(t) : x \in ToSet(s) \ {s[k]}
  <2> SUFFICES ASSUME NEW i \in 1 .. Len(t) PROVE t[i] \in ToSet(s) \ {s[k]}
    BY <1>1 DEF ToSet
  <2>1. f(i) \in 1 .. Len(s) /\ f(i) # k /\ t[i] = s[f(i)]
    BY <1>3, SMTT(30)
  <2>2. s[f(i)] # s[k]
    BY <1>2, <2>1 DEF Distinct
  <2>3. s[f(i)] \in ToSet(s)
    BY <2>1 DEF ToSet
  <2> QED BY <2>1, <2>2, <2>3, Zenon
<1>8. \A i \in 1 .. Len(s) : i # k => s[i] \in ToSet(t)
  <2> SUFFICES ASSUME NEW i \in 1 .. Len(s), i # k PROVE s[i] \in ToSet(t)
    OBVIOUS
  <2>1. CASE i < k
    <3>1. i \in 1 .. (k - 1) /\ i \in 1 .. Len(t)
      BY <1>1, <1>2, <2>1, SMTT(30)
    <3>2. t[i] = s[i] /\ i \in DOMAIN t
      BY <1>1, <3>1
    <3> QED BY <3>2 DEF ToSet
  <2>2. CASE i > k
    <3>1. i - 1 \in k .. (Len(s) - 1) /\ i - 1 \in 1 .. Len(t) /\ (i - 1) + 1 = i
      BY <1>1, <1>2, <2>2, SMTT(30)
    <3>2. t[i - 1] = s[i] /\ i - 1 \in DOMAIN t
      BY <1>1, <3>1
    <3> QED BY <3>2 DEF ToSet
  <2> QED BY <1>2, <2>1, <2>2
<1>9. \A x \in ToSet(s) \ {s[k]} : x \in ToSet(t)
  BY <1>8 DEF ToSet
<1>10. ToSet(t) = ToSet(s) \ {s[k]}
  BY <1>7, <1>9
<1> QED BY <1>5, <1>6, <1>10 DEF t

-----------------------------------------------------------------------------
(***************************************************************************)
(* Type correctness.                                                       *)
(***************************************************************************)

(* Erasing from the multiset leaves a sequence of layers. *)
LEMMA EraseType ==
  ASSUME NEW s \in Seq(LayerIds), NEW l \in LayerIds
  PROVE  Erase(s, l) \in Seq(LayerIds)
<1>1. CASE \E i \in EqualRange(s, mZorder[l]) : s[i] = l
  <2> DEFINE i == CHOOSE i \in EqualRange(s, mZorder[l]) : s[i] = l
  <2>1. i \in 1 .. Len(s)
    BY <1>1 DEF EqualRange
  <2> HIDE DEF i
  <2>2. RemoveAt(s, i) \in Seq(LayerIds)
    BY <2>1, RemoveAtElements
  <2> QED BY <1>1, <2>2 DEF Erase, i
<1>2. CASE ~ \E i \in EqualRange(s, mZorder[l]) : s[i] = l
  BY <1>2 DEF Erase
<1> QED BY <1>1, <1>2

(* A HAL that has just started is well typed. *)
LEMMA InitType == Init => TypeOK
<1> SUFFICES ASSUME Init PROVE TypeOK
  OBVIOUS
<1>1. crashed \in BOOLEAN /\ unread \in [Displays -> BOOLEAN]
  BY Zenon DEF Init
<1> QED BY <1>1, ConstantsAssumption DEF Init, TypeOK, CompTypes

(* Every operation of the registry keeps the types. *)
LEMMA NextType == TypeOK /\ [Next]_vars => TypeOK'
<1> SUFFICES ASSUME TypeOK, [Next]_vars PROVE TypeOK'
  OBVIOUS
<1>0. caller' \in Callers
  BY DEF Next, vars, TypeOK
<1> USE ConstantsAssumption, <1>0
<1>1. ASSUME NEW d \in Displays, CreateLayer(d) PROVE TypeOK'
  <2>1. PICK id \in LayerIds :
          /\ GetIdleId(id)
          /\ mZorder' = [mZorder EXCEPT ![id] = InitZ]
          /\ mCompositionType' = [mCompositionType EXCEPT ![id] = "CLIENT"]
          /\ mDeviceSelect' = [mDeviceSelect EXCEPT ![id] = "CLIENT"]
          /\ mHdiBuffer' = [mHdiBuffer EXCEPT ![id] = NoBuffer]
          /\ knownType' = [knownType EXCEPT ![id] = "CLIENT"]
          /\ \E k \in 1 .. (Len(mLayers[d]) + 1) :
               /\ IsUpperBound(mLayers[d], InitZ, k)
               /\ mLayers' = [mLayers EXCEPT ![d] = InsertAt(@, k, id)]
          /\ mLayersMap' = [mLayersMap EXCEPT ![d] = @ \cup {id}]
    BY <1>1 DEF CreateLayer
  <2>2. mLayers' \in [Displays -> Seq(LayerIds)]
    <3>1. PICK k \in 1 .. (Len(mLayers[d]) + 1) :
            mLayers' = [mLayers EXCEPT ![d] = InsertAt(@, k, id)]
      BY <2>1
    <3>2. InsertAt(mLayers[d], k, id) \in Seq(LayerIds)
      BY InsertAtElements DEF TypeOK
    <3> QED BY <3>1, <3>2 DEF TypeOK
  <2>3. mIdleId' \in Nat /\ mIdSets' \subseteq LayerIds
    BY <2>1 DEF GetIdleId, LayerIds, TypeOK
  <2>4. /\ mZorder' \in [LayerIds -> Nat] /\ mLayersMap' \in [Displays -> SUBSET LayerIds]
        /\ mCompositionType' \in [LayerIds -> CompTypes] /\ mDeviceSelect' \in [LayerIds -> CompTypes]
        /\ mHdiBuffer' \in [LayerIds -> Buffers \cup {NoBuffer}] /\ knownType' \in [LayerIds -> CompTypes]
    BY <2>1 DEF TypeOK, CompTypes
  <2> QED BY <1>1, <2>2, <2>3, <2>4 DEF CreateLayer, TypeOK
<1>2. ASSUME NEW d \in Displays, NEW l \in LayerIds, DestroyLayer(d, l) PROVE TypeOK'
  <2>1. Erase(mLayers[d], l) \in Seq(LayerIds)
    BY EraseType DEF TypeOK
  <2> QED BY <1>2, <2>1 DEF DestroyLayer, TypeOK, idVars, layerVars, callerVars
<1>3. ASSUME NEW d \in Displays, NEW l \in LayerIds, NEW z \in Zorders, SetLayerZorder(d, l, z)
      PROVE  TypeOK'
  <2> DEFINE rest == Erase(mLayers[d], l)
  <2>1. rest \in Seq(LayerIds)
    BY EraseType DEF TypeOK
  <2>2. PICK k \in 1 .. (Len(rest) + 1) : mLayers' = [mLayers EXCEPT ![d] = InsertAt(rest, k, l)]
    BY <1>3 DEF SetLayerZorder
  <2> HIDE DEF rest
  <2>3. InsertAt(rest, k, l) \in Seq(LayerIds)
    BY <2>1, InsertAtElements
  <2> QED BY <1>3, <2>2, <2>3 DEF SetLayerZorder, TypeOK, idVars, layerVars, callerVars
<1>4. ASSUME NEW d \in Displays, NEW l \in LayerIds, NEW t \in CallerTypes,
             SetLayerCompositionType(d, l, t)
      PROVE  TypeOK'
  BY <1>4 DEF SetLayerCompositionType, TypeOK, idVars
<1>5. ASSUME NEW d \in Displays, NEW l \in LayerIds, NEW b \in Buffers, SetLayerBuffer(d, l, b)
      PROVE  TypeOK'
  BY <1>5 DEF SetLayerBuffer, TypeOK, idVars, callerVars
<1>6. ASSUME NEW d \in Displays, PrepareDisplayLayers(d) PROVE TypeOK'
  <2> DEFINE s == mLayers[d]
             select == SetLayers(s)
  <2>1. select \in [LayerIds -> CompTypes]
    BY DEF SetLayers, TypeOK, CompTypes
  <2>2. mCompositionType' \in [LayerIds -> CompTypes] /\ mDeviceSelect' \in [LayerIds -> CompTypes]
    BY <1>6, <2>1 DEF PrepareDisplayLayers, TypeOK
  <2>3. mChangeLayers' \in [Displays -> SUBSET LayerIds]
    <3>1. Changed(d, select) \subseteq LayerIds
      BY DEF Changed, ToSet, TypeOK
    <3> QED BY <1>6, <3>1 DEF PrepareDisplayLayers, TypeOK
  <2>4. mCursorLayers' \in [Displays -> Buffers \cup {NoBuffer}]
    <3>1. \A i \in 1 .. Len(s) : mHdiBuffer[s[i]] \in Buffers \cup {NoBuffer}
      BY DEF TypeOK
    <3> QED BY <1>6, <3>1 DEF PrepareDisplayLayers, SetCursorLayer, Cursors, TypeOK
  <2>5. unread' \in [Displays -> BOOLEAN]
    <3>1. unread' = [unread EXCEPT ![d] = TRUE]
      BY <1>6 DEF PrepareDisplayLayers
    <3> QED BY <3>1 DEF TypeOK
  <2>6. /\ UNCHANGED <<idVars, mLayersMap, mLayers, mZorder, mHdiBuffer, crashed, knownType>>
    BY <1>6 DEF PrepareDisplayLayers
  <2> QED BY <2>2, <2>3, <2>4, <2>5, <2>6 DEF TypeOK, idVars
<1>7. ASSUME NEW d \in Displays, PrepareNullBuffer(d) PROVE TypeOK'
  <2>1. crashed' \in BOOLEAN
    BY <1>7, Zenon DEF PrepareNullBuffer
  <2> QED BY <1>7, <2>1 DEF PrepareNullBuffer, TypeOK, idVars, layerVars, callerVars
<1>8. ASSUME NEW d \in Displays, GetDisplayCompChange(d) PROVE TypeOK'
  <2>1. unread' = [unread EXCEPT ![d] = FALSE]
    BY <1>8 DEF GetDisplayCompChange
  <2>2. unread' \in [Displays -> BOOLEAN]
    BY <2>1 DEF TypeOK
  <2>3. knownType' \in [LayerIds -> CompTypes]
    BY <1>8 DEF GetDisplayCompChange, TypeOK
  <2> QED BY <1>8, <2>2, <2>3 DEF GetDisplayCompChange, TypeOK, idVars, layerVars
<1>9. CASE UNCHANGED vars
  BY <1>9 DEF vars, TypeOK, idVars, layerVars, callerVars
<1> QED BY <1>1, <1>2, <1>3, <1>4, <1>5, <1>6, <1>7, <1>8, <1>9 DEF Next

(* Every operation of the registry keeps its containers well formed. *)
THEOREM TypeCorrect == Spec => []TypeOK
  BY InitType, NextType, PTL DEF Spec

-----------------------------------------------------------------------------
(***************************************************************************)
(* The registry.  A display whose containers are untouched stays correct   *)
(* even when another display's layer changes its z-order, because no layer *)
(* belongs to two displays: Registry is inductive only with IdsUnique.     *)
(***************************************************************************)
RegistryInv == TypeOK /\ Registry /\ IdsUnique

(* Registry for one display, with the z-orders Z. *)
Correct(s, m, Z) == ToSet(s) = m /\ Distinct(s) /\ SortedBy(s, Z)

(* Registry says that every display is correct with the current z-orders. *)
LEMMA RegistryCorrect ==
  Registry <=> \A d \in Displays : Correct(mLayers[d], mLayersMap[d], mZorder)
  BY DEF Registry, Correct, NoDups, Distinct, Sorted, SortedBy

(* The same after a step. *)
LEMMA RegistryCorrectNext ==
  Registry' <=> \A d \in Displays : Correct(mLayers'[d], mLayersMap'[d], mZorder')
  BY DEF Registry, Correct, NoDups, Distinct, Sorted, SortedBy

(* Looked up under its own z-order a layer is always found: Erase removes  *)
(* exactly the element that is the layer.                                  *)
LEMMA EraseRemoves ==
  ASSUME RegistryInv, NEW d \in Displays, NEW l \in mLayersMap[d]
  PROVE  \E i \in 1 .. Len(mLayers[d]) :
           mLayers[d][i] = l /\ Erase(mLayers[d], l) = RemoveAt(mLayers[d], i)
<1> DEFINE s == mLayers[d]
<1>1. s \in Seq(LayerIds) /\ mZorder \in [LayerIds -> Nat]
  BY DEF RegistryInv, TypeOK
<1>2. ToSet(s) = mLayersMap[d] /\ Distinct(s) /\ SortedBy(s, mZorder)
  BY RegistryCorrect DEF RegistryInv, Correct
<1>3. PICK i \in 1 .. Len(s) : s[i] = l
  BY <1>1, <1>2 DEF ToSet
<1>4. \A j \in 1 .. i : j \in 1 .. Len(s) /\ mZorder[s[j]] \in Nat
  BY <1>1
<1>5. \A j \in 1 .. i : mZorder[s[j]] <= mZorder[s[i]]
  BY <1>1, <1>2, <1>4 DEF SortedBy
<1>6. i \in EqualRange(s, mZorder[l])
  <2>1. i \in 1 .. i /\ mZorder[s[i]] >= mZorder[s[i]]
    BY <1>4
  <2> QED BY <1>3, <1>5, <2>1 DEF EqualRange
<1> DEFINE c == CHOOSE j \in EqualRange(s, mZorder[l]) : s[j] = l
<1>7. c \in 1 .. Len(s) /\ s[c] = l
  <2>1. c \in EqualRange(s, mZorder[l]) /\ s[c] = l
    BY <1>3, <1>6
  <2> QED BY <2>1 DEF EqualRange
<1>8. Erase(s, l) = RemoveAt(s, c)
  BY <1>3, <1>6 DEF Erase
<1> HIDE DEF c
<1> QED BY <1>7, <1>8

(* Erasing a layer takes it out of both containers. *)
LEMMA EraseCorrect ==
  ASSUME RegistryInv, NEW d \in Displays, NEW l \in mLayersMap[d]
  PROVE  /\ Erase(mLayers[d], l) \in Seq(LayerIds)
         /\ Correct(Erase(mLayers[d], l), mLayersMap[d] \ {l}, mZorder)
<1>1. mLayers[d] \in Seq(LayerIds) /\ mZorder \in [LayerIds -> Nat]
  BY DEF RegistryInv, TypeOK
<1>2. ToSet(mLayers[d]) = mLayersMap[d] /\ Distinct(mLayers[d]) /\ SortedBy(mLayers[d], mZorder)
  BY RegistryCorrect DEF RegistryInv, Correct
<1>3. PICK i \in 1 .. Len(mLayers[d]) :
        mLayers[d][i] = l /\ Erase(mLayers[d], l) = RemoveAt(mLayers[d], i)
  BY EraseRemoves
<1>4. RemoveAt(mLayers[d], i) \in Seq(LayerIds)
  BY <1>1, RemoveAtElements
<1>5. /\ Distinct(RemoveAt(mLayers[d], i))
      /\ ToSet(RemoveAt(mLayers[d], i)) = ToSet(mLayers[d]) \ {l}
      /\ SortedBy(RemoveAt(mLayers[d], i), mZorder)
  BY <1>1, <1>2, <1>3, RemoveOne
<1> QED BY <1>2, <1>3, <1>4, <1>5 DEF Correct

(* Emplacing layer e with its new z-order z into a correct sequence that   *)
(* does not hold it.                                                       *)
LEMMA EmplaceCorrect ==
  ASSUME TypeOK, NEW s \in Seq(LayerIds), NEW m, Correct(s, m, mZorder),
         NEW e \in LayerIds, e \notin m, NEW z \in Nat,
         NEW k \in 1 .. (Len(s) + 1), IsUpperBound(s, z, k)
  PROVE  Correct(InsertAt(s, k, e), m \cup {e}, [mZorder EXCEPT ![e] = z])
<1> DEFINE Y == [mZorder EXCEPT ![e] = z]
<1>1. mZorder \in [LayerIds -> Nat] /\ Y \in [LayerIds -> Nat] /\ Y[e] = z
  BY DEF TypeOK
<1>2. ToSet(s) = m /\ Distinct(s) /\ SortedBy(s, mZorder)
  BY DEF Correct
<1>3. \A i \in 1 .. Len(s) : s[i] # e /\ s[i] \in LayerIds
  BY <1>2 DEF ToSet
<1>4. \A i \in 1 .. Len(s) : Y[s[i]] = mZorder[s[i]]
  BY <1>1, <1>3
<1>5. /\ \A i \in 1 .. (k - 1) : mZorder[s[i]] <= z
      /\ k <= Len(s) => z < mZorder[s[k]]
  BY DEF IsUpperBound
<1> HIDE DEF Y
<1>6. SortedBy(InsertAt(s, k, e), Y)
  BY <1>1, <1>2, <1>4, <1>5, InsertSorted
<1>7. Distinct(InsertAt(s, k, e)) /\ ToSet(InsertAt(s, k, e)) = ToSet(s) \cup {e}
  BY <1>2, InsertNew
<1> QED BY <1>2, <1>6, <1>7 DEF Correct, Y

(* A z-order that changes elsewhere does not matter to a sequence. *)
LEMMA OthersCorrect ==
  ASSUME TypeOK, NEW s \in Seq(LayerIds), NEW m, Correct(s, m, mZorder),
         NEW e \in LayerIds, e \notin m, NEW z \in Nat
  PROVE  Correct(s, m, [mZorder EXCEPT ![e] = z])
<1>1. \A i \in 1 .. Len(s) : s[i] # e /\ s[i] \in LayerIds
  BY DEF Correct, ToSet
<1>2. \A i \in 1 .. Len(s) : [mZorder EXCEPT ![e] = z][s[i]] = mZorder[s[i]]
  BY <1>1 DEF TypeOK
<1> QED BY <1>2 DEF Correct, SortedBy

(* Empty containers agree. *)
LEMMA InitRegistry == Init => Registry /\ IdsUnique
<1> SUFFICES ASSUME Init PROVE Registry /\ IdsUnique
  OBVIOUS
<1>1. \A d \in Displays : mLayers[d] = <<>> /\ mLayersMap[d] = {}
  BY DEF Init
<1>2. ToSet(<<>>) = {}
  BY DEF ToSet
<1>3. Registry
  <2>1. 1 .. Len(<<>>) = {}
    OBVIOUS
  <2> QED BY <1>1, <1>2, <2>1 DEF Registry, NoDups, Sorted
<1>4. IdsUnique
  BY <1>1 DEF IdsUnique
<1> QED BY <1>3, <1>4

(* Every operation keeps the two containers in agreement: CreateLayer,     *)
(* DestroyLayer and SetLayerZorder by the lemmas above, the others because *)
(* they touch neither container.                                           *)
LEMMA NextRegistry == RegistryInv /\ [Next]_vars => Registry' /\ IdsUnique'
<1> SUFFICES ASSUME RegistryInv, [Next]_vars PROVE Registry' /\ IdsUnique'
  OBVIOUS
<1> USE ConstantsAssumption
<1>1. /\ TypeOK
      /\ mLayersMap \in [Displays -> SUBSET LayerIds] /\ mIdSets \subseteq LayerIds
      /\ mLayers \in [Displays -> Seq(LayerIds)] /\ mZorder \in [LayerIds -> Nat]
  BY DEF RegistryInv, TypeOK
<1>2. \A e \in Displays : Correct(mLayers[e], mLayersMap[e], mZorder)
  BY RegistryCorrect DEF RegistryInv
<1>3. /\ \A e \in Displays : mLayersMap[e] \subseteq mIdSets
      /\ \A d, e \in Displays : d # e => mLayersMap[d] \cap mLayersMap[e] = {}
  BY DEF RegistryInv, IdsUnique
\* a new id is in no display's map
<1>4. ASSUME NEW d \in Displays, CreateLayer(d) PROVE Registry' /\ IdsUnique'
  <2>1. PICK id \in LayerIds :
          /\ GetIdleId(id)
          /\ mZorder' = [mZorder EXCEPT ![id] = InitZ]
          /\ \E k \in 1 .. (Len(mLayers[d]) + 1) :
               /\ IsUpperBound(mLayers[d], InitZ, k)
               /\ mLayers' = [mLayers EXCEPT ![d] = InsertAt(@, k, id)]
          /\ mLayersMap' = [mLayersMap EXCEPT ![d] = @ \cup {id}]
    BY <1>4 DEF CreateLayer
  <2>2. PICK k \in 1 .. (Len(mLayers[d]) + 1) :
          /\ IsUpperBound(mLayers[d], InitZ, k)
          /\ mLayers' = [mLayers EXCEPT ![d] = InsertAt(@, k, id)]
    BY <2>1
  <2>3. \A e \in Displays : id \notin mLayersMap[e]
    BY <1>3, <2>1 DEF GetIdleId
  <2>4. Correct(mLayers'[d], mLayersMap'[d], mZorder')
    <3>1. Correct(InsertAt(mLayers[d], k, id), mLayersMap[d] \cup {id}, [mZorder EXCEPT ![id] = InitZ])
      BY <1>1, <1>2, <2>2, <2>3, EmplaceCorrect
    <3> QED BY <1>1, <2>1, <2>2, <3>1
  <2>5. ASSUME NEW e \in Displays, e # d PROVE Correct(mLayers'[e], mLayersMap'[e], mZorder')
    <3>1. Correct(mLayers[e], mLayersMap[e], [mZorder EXCEPT ![id] = InitZ])
      BY <1>1, <1>2, <2>3, OthersCorrect
    <3> QED BY <1>1, <2>1, <2>2, <2>5, <3>1
  <2>6. Registry'
    BY <2>4, <2>5, RegistryCorrectNext
  <2>7. mIdSets' = mIdSets \cup {id}
    BY <2>1 DEF GetIdleId
  <2>8. IdsUnique'
    BY <1>1, <1>3, <2>1, <2>3, <2>7 DEF IdsUnique
  <2> QED BY <2>6, <2>8
<1>5. ASSUME NEW d \in Displays, NEW l \in LayerIds, DestroyLayer(d, l)
      PROVE  Registry' /\ IdsUnique'
  <2>1. /\ l \in mLayersMap[d]
        /\ mLayers' = [mLayers EXCEPT ![d] = Erase(@, l)]
        /\ mLayersMap' = [mLayersMap EXCEPT ![d] = @ \ {l}]
        /\ mZorder' = mZorder /\ mIdSets' = mIdSets
    BY <1>5 DEF DestroyLayer, GetHdiLayer, idVars, layerVars
  <2>2. Correct(Erase(mLayers[d], l), mLayersMap[d] \ {l}, mZorder)
    BY <2>1, EraseCorrect
  <2>3. Registry'
    BY <1>1, <1>2, <2>1, <2>2, RegistryCorrectNext
  <2>4. IdsUnique'
    BY <1>1, <1>3, <2>1 DEF IdsUnique
  <2> QED BY <2>3, <2>4
\* out under the old z-order, back under the new one
<1>6. ASSUME NEW d \in Displays, NEW l \in LayerIds, NEW z \in Zorders, SetLayerZorder(d, l, z)
      PROVE  Registry' /\ IdsUnique'
  <2> DEFINE rest == Erase(mLayers[d], l)
  <2>1. /\ l \in mLayersMap[d]
        /\ mZorder' = [mZorder EXCEPT ![l] = z]
        /\ mLayersMap' = mLayersMap /\ mIdSets' = mIdSets
        /\ z \in Nat
    BY <1>6 DEF SetLayerZorder, GetHdiLayer, idVars
  <2>2. PICK k \in 1 .. (Len(rest) + 1) :
          /\ IsUpperBound(rest, z, k)
          /\ mLayers' = [mLayers EXCEPT ![d] = InsertAt(rest, k, l)]
    BY <1>6 DEF SetLayerZorder
  <2>3. rest \in Seq(LayerIds) /\ Correct(rest, mLayersMap[d] \ {l}, mZorder)
    BY <2>1, EraseCorrect
  <2> HIDE DEF rest
  <2>4. Correct(InsertAt(rest, k, l), (mLayersMap[d] \ {l}) \cup {l}, [mZorder EXCEPT ![l] = z])
    BY <1>1, <2>1, <2>2, <2>3, EmplaceCorrect
  <2>5. (mLayersMap[d] \ {l}) \cup {l} = mLayersMap[d]
    BY <2>1
  <2>6. ASSUME NEW e \in Displays, e # d PROVE Correct(mLayers'[e], mLayersMap'[e], mZorder')
    <3>1. l \notin mLayersMap[e]
      BY <1>3, <2>1, <2>6
    <3>2. Correct(mLayers[e], mLayersMap[e], [mZorder EXCEPT ![l] = z])
      BY <1>1, <1>2, <2>1, <3>1, OthersCorrect
    <3> QED BY <1>1, <2>1, <2>2, <2>6, <3>2
  <2>7. Correct(mLayers'[d], mLayersMap'[d], mZorder')
    BY <1>1, <2>1, <2>2, <2>4, <2>5
  <2>8. Registry'
    BY <2>6, <2>7, RegistryCorrectNext
  <2>9. IdsUnique'
    BY <1>3, <2>1 DEF IdsUnique
  <2> QED BY <2>8, <2>9
\* the other operations leave both containers and the z-orders alone
<1>7. ASSUME UNCHANGED <<mIdSets, mLayersMap, mLayers, mZorder>> PROVE Registry' /\ IdsUnique'
  BY <1>2, <1>3, <1>7, RegistryCorrectNext DEF IdsUnique
<1>8. ASSUME NEW d \in Displays,
             \/ PrepareDisplayLayers(d) \/ PrepareNullBuffer(d) \/ GetDisplayCompChange(d)
             \/ \E l \in LayerIds : \/ \E t \in CallerTypes : SetLayerCompositionType(d, l, t)
                                    \/ \E b \in Buffers : SetLayerBuffer(d, l, b)
      PROVE  UNCHANGED <<mIdSets, mLayersMap, mLayers, mZorder>>
  BY <1>8 DEF PrepareDisplayLayers, PrepareNullBuffer, GetDisplayCompChange,
              SetLayerCompositionType, SetLayerBuffer, idVars, layerVars
<1>9. CASE UNCHANGED vars
  BY <1>7, <1>9 DEF vars, idVars, layerVars
<1> QED BY <1>4, <1>5, <1>6, <1>7, <1>8, <1>9 DEF Next

(* mLayers and mLayersMap never disagree, no layer is listed twice and the *)
(* multiset is sorted by the current z-orders, after any sequence of       *)
(* CreateLayer, DestroyLayer and SetLayerZorder on any number of displays: *)
(* Prepare never walks into a layer that was destroyed.                    *)
THEOREM RegistryAlways == Spec => []Registry
<1>1. Init => RegistryInv
  BY InitType, InitRegistry DEF RegistryInv
<1>2. RegistryInv /\ [Next]_vars => RegistryInv'
  BY NextType, NextRegistry DEF RegistryInv
<1>3. RegistryInv => Registry
  BY DEF RegistryInv
<1> QED BY <1>1, <1>2, <1>3, PTL DEF Spec

(* No layer belongs to two displays and every layer's id is recorded in    *)
(* the static pool, although all displays draw from it.                    *)
THEOREM IdsUniqueAlways == Spec => []IdsUnique
<1>1. Init => RegistryInv
  BY InitType, InitRegistry DEF RegistryInv
<1>2. RegistryInv /\ [Next]_vars => RegistryInv'
  BY NextType, NextRegistry DEF RegistryInv
<1>3. RegistryInv => IdsUnique
  BY DEF RegistryInv
<1> QED BY <1>1, <1>2, <1>3, PTL DEF Spec

-----------------------------------------------------------------------------
(***************************************************************************)
(* What the caller knows.  That no destroyed layer is left in an unread    *)
(* mChangeLayers is what makes the report correct: the type read through   *)
(* such a pointer would be garbage, written over the belief about a layer  *)
(* of another display.                                                     *)
(***************************************************************************)
ReportInv == RegistryInv /\ ChangesReported /\ ChangesAlive

(* A caller that has seen nothing believes nothing wrong. *)
LEMMA InitReport == Init => ChangesReported /\ ChangesAlive
  BY DEF Init, ChangesReported, ChangesAlive

(* Every operation of a caller that keeps the protocol keeps its knowledge *)
(* right; the others are not constrained.                                  *)
LEMMA NextReport == ReportInv /\ [Next]_vars => ChangesReported' /\ ChangesAlive'
<1> SUFFICES ASSUME ReportInv, [Next]_vars, Disciplined'
             PROVE  /\ \A e \in Displays : \A m \in mLayersMap'[e] :
                         knownType'[m] # mCompositionType'[m] => unread'[e] /\ m \in mChangeLayers'[e]
                    /\ \A e \in Displays : unread'[e] => mChangeLayers'[e] \subseteq mLayersMap'[e]
  BY DEF ChangesReported, ChangesAlive
<1>1. Disciplined
  BY DEF Next, vars, Disciplined
<1>2. /\ mLayersMap \in [Displays -> SUBSET LayerIds] /\ mIdSets \subseteq LayerIds
      /\ mCompositionType \in [LayerIds -> CompTypes] /\ knownType \in [LayerIds -> CompTypes]
      /\ mChangeLayers \in [Displays -> SUBSET LayerIds] /\ unread \in [Displays -> BOOLEAN]
  BY DEF ReportInv, RegistryInv, TypeOK
<1>3. /\ \A e \in Displays : ToSet(mLayers[e]) = mLayersMap[e]
      /\ \A e \in Displays : mLayersMap[e] \subseteq mIdSets
      /\ \A d, e \in Displays : d # e => mLayersMap[d] \cap mLayersMap[e] = {}
  BY DEF ReportInv, RegistryInv, Registry, IdsUnique
<1>4. /\ \A e \in Displays : \A m \in mLayersMap[e] :
           knownType[m] # mCompositionType[m] => unread[e] /\ m \in mChangeLayers[e]
      /\ \A e \in Displays : unread[e] => mChangeLayers[e] \subseteq mLayersMap[e]
  BY <1>1 DEF ReportInv, ChangesReported, ChangesAlive
<1> DEFINE Told == \A e \in Displays : \A m \in mLayersMap'[e] :
                     knownType'[m] # mCompositionType'[m] => unread'[e] /\ m \in mChangeLayers'[e]
           Alive == \A e \in Displays : unread'[e] => mChangeLayers'[e] \subseteq mLayersMap'[e]
<1>5. ASSUME NEW d \in Displays, CreateLayer(d) PROVE Told /\ Alive
  <2>1. PICK id \in LayerIds :
          /\ mCompositionType' = [mCompositionType EXCEPT ![id] = "CLIENT"]
          /\ knownType' = [knownType EXCEPT ![id] = "CLIENT"]
          /\ mLayersMap' = [mLayersMap EXCEPT ![d] = @ \cup {id}]
    BY <1>5 DEF CreateLayer
  <2>2. mChangeLayers' = mChangeLayers /\ unread' = unread
    BY <1>5 DEF CreateLayer
  <2>3. \A e \in Displays : mLayersMap[e] \subseteq mLayersMap'[e] /\ mLayersMap'[e] \subseteq mLayersMap[e] \cup {id}
    BY <1>2, <2>1
  <2>4. knownType'[id] = mCompositionType'[id]
    BY <1>2, <2>1
  <2>5. \A m \in LayerIds : m # id => knownType'[m] = knownType[m] /\ mCompositionType'[m] = mCompositionType[m]
    BY <1>2, <2>1
  <2> QED BY <1>2, <1>4, <2>2, <2>3, <2>4, <2>5
<1>6. ASSUME NEW d \in Displays, NEW l \in LayerIds, DestroyLayer(d, l) PROVE Told /\ Alive
  <2>1. /\ mLayersMap' = [mLayersMap EXCEPT ![d] = @ \ {l}]
        /\ mCompositionType' = mCompositionType /\ knownType' = knownType
        /\ mChangeLayers' = mChangeLayers /\ unread' = unread
        /\ ~unread[d]
    BY <1>1, <1>6 DEF DestroyLayer, CallerMayDestroy, layerVars, callerVars
  <2>2. \A e \in Displays : mLayersMap'[e] \subseteq mLayersMap[e] /\ (e # d => mLayersMap'[e] = mLayersMap[e])
    BY <1>2, <2>1
  <2> QED BY <1>4, <2>1, <2>2
<1>7. ASSUME NEW d \in Displays, NEW l \in LayerIds, NEW t \in CallerTypes, SetLayerCompositionType(d, l, t)
      PROVE  Told /\ Alive
  <2>1. /\ mCompositionType' = [mCompositionType EXCEPT ![l] = t]
        /\ knownType' = [knownType EXCEPT ![l] = t]
        /\ mLayersMap' = mLayersMap /\ mChangeLayers' = mChangeLayers /\ unread' = unread
    BY <1>7 DEF SetLayerCompositionType
  <2>2. knownType'[l] = mCompositionType'[l]
    BY <1>2, <2>1
  <2>3. \A m \in LayerIds : m # l => knownType'[m] = knownType[m] /\ mCompositionType'[m] = mCompositionType[m]
    BY <1>2, <2>1
  <2> QED BY <1>2, <1>4, <2>1, <2>2, <2>3
\* before Prepare the caller is right about every layer of the display
<1>8. ASSUME NEW d \in Displays, PrepareDisplayLayers(d) PROVE Told /\ Alive
  <2> DEFINE select == SetLayers(mLayers[d])
  <2>1. /\ mChangeLayers' = [mChangeLayers EXCEPT ![d] = Changed(d, select)]
        /\ mCompositionType' = [l \in LayerIds |->
             IF l \in ToSet(mLayers[d]) THEN select[l] ELSE mCompositionType[l]]
        /\ unread' = [unread EXCEPT ![d] = TRUE]
        /\ mLayersMap' = mLayersMap /\ knownType' = knownType
        /\ ~unread[d]
    BY <1>1, <1>8 DEF PrepareDisplayLayers, CallerMayPrepare
  <2> HIDE DEF select
  <2>2. /\ mChangeLayers'[d] = {m \in mLayersMap[d] : select[m] # mCompositionType[m]}
        /\ \A e \in Displays : e # d => mChangeLayers'[e] = mChangeLayers[e]
    BY <1>2, <1>3, <2>1 DEF Changed
  <2>3. unread'[d] = TRUE /\ \A e \in Displays : e # d => unread'[e] = unread[e]
    BY <1>2, <2>1
  <2>4. \A m \in mLayersMap[d] : knownType[m] = mCompositionType[m] /\ mCompositionType'[m] = select[m]
    BY <1>2, <1>3, <1>4, <2>1
  <2>5. \A e \in Displays : e # d => \A m \in mLayersMap[e] : mCompositionType'[m] = mCompositionType[m]
    BY <1>2, <1>3, <2>1
  <2>6. Told
    <3> SUFFICES ASSUME NEW e \in Displays, NEW m \in mLayersMap[e], knownType[m] # mCompositionType'[m]
                 PROVE  unread'[e] /\ m \in mChangeLayers'[e]
      BY <2>1
    <3>1. CASE e = d
      BY <2>2, <2>3, <2>4, <3>1
    <3>2. CASE e # d
      BY <1>4, <2>2, <2>3, <2>5, <3>2
    <3> QED BY <3>1, <3>2
  <2>7. Alive
    <3>1. \A e \in Displays : e # d => unread'[e] = unread[e] /\ mChangeLayers'[e] = mChangeLayers[e]
      BY <2>2, <2>3
    <3>2. mChangeLayers'[d] \subseteq mLayersMap[d]
      BY <2>2
    <3> QED BY <1>4, <2>1, <3>1, <3>2
  <2> QED BY <2>6, <2>7
\* every layer read is alive, so the belief about another display's layers stays
<1>9. ASSUME NEW d \in Displays, GetDisplayCompChange(d) PROVE Told /\ Alive
  <2>1. PICK garbage \in CompTypes :
          knownType' = [l \in LayerIds |->
            IF l \notin mChangeLayers[d] THEN knownType[l]
            ELSE IF l \in mLayersMap[d] THEN mCompositionType[l] ELSE garbage]
    BY <1>9 DEF GetDisplayCompChange
  <2>2. /\ unread' = [unread EXCEPT ![d] = FALSE] /\ unread[d]
        /\ mCompositionType' = mCompositionType /\ mLayersMap' = mLayersMap
        /\ mChangeLayers' = mChangeLayers
    BY <1>1, <1>9 DEF GetDisplayCompChange, CallerMayRead, layerVars
  <2>3. mChangeLayers[d] \subseteq mLayersMap[d]
    BY <1>4, <2>2
  <2>4. ~unread'[d] /\ \A e \in Displays : e # d => unread'[e] = unread[e]
    BY <1>2, <2>2
  <2>5. \A m \in mLayersMap[d] : knownType'[m] = mCompositionType[m]
    BY <1>2, <1>4, <2>1
  <2>6. \A e \in Displays : e # d => \A m \in mLayersMap[e] : knownType'[m] = knownType[m]
    BY <1>2, <1>3, <2>1, <2>3
  <2>7. Told
    <3> SUFFICES ASSUME NEW e \in Displays, NEW m \in mLayersMap[e], knownType'[m] # mCompositionType[m]
                 PROVE  unread'[e] /\ m \in mChangeLayers[e]
      BY <2>2
    <3>1. e # d
      BY <2>5
    <3> QED BY <1>4, <2>4, <2>6, <3>1
  <2>8. Alive
    <3>1. \A e \in Displays : unread'[e] => unread[e]
      BY <2>2, <2>4
    <3> QED BY <1>4, <2>2, <3>1
  <2> QED BY <2>7, <2>8
<1>10. ASSUME UNCHANGED <<mLayersMap, mCompositionType, mChangeLayers, unread, knownType>>
       PROVE  Told /\ Alive
  BY <1>4, <1>10
<1>11. ASSUME NEW d \in Displays, PrepareNullBuffer(d) PROVE Told /\ Alive
  BY <1>10, <1>11 DEF PrepareNullBuffer, layerVars, callerVars
<1>12. ASSUME NEW d \in Displays, NEW l \in LayerIds, NEW z \in Zorders, SetLayerZorder(d, l, z)
       PROVE  Told /\ Alive
  BY <1>10, <1>12 DEF SetLayerZorder, callerVars
<1>13. ASSUME NEW d \in Displays, NEW l \in LayerIds, NEW b \in Buffers, SetLayerBuffer(d, l, b)
       PROVE  Told /\ Alive
  BY <1>10, <1>13 DEF SetLayerBuffer, callerVars
<1>14. ASSUME UNCHANGED vars PROVE Told /\ Alive
  BY <1>10, <1>14 DEF vars, layerVars, callerVars
<1> HIDE DEF Told, Alive
<1>15. Told /\ Alive
  BY <1>5, <1>6, <1>7, <1>8, <1>9, <1>11, <1>12, <1>13, <1>14 DEF Next
<1> QED BY <1>15 DEF Told, Alive

(* What holds in every reachable state. *)
LEMMA ReportInvariant == Spec => []ReportInv
<1>1. Init => ReportInv
  BY InitType, InitRegistry, InitReport DEF ReportInv, RegistryInv
<1>2. ReportInv /\ [Next]_vars => ReportInv'
  BY NextType, NextRegistry, NextReport DEF ReportInv, RegistryInv
<1> QED BY <1>1, <1>2, PTL DEF Spec

(* A caller that reads the changes of every Prepare is never wrong about   *)
(* the composition type of a layer, on any number of displays.             *)
THEOREM ChangesReportedAlways == Spec => []ChangesReported
<1>1. ReportInv => ChangesReported
  BY DEF ReportInv
<1> QED BY ReportInvariant, <1>1, PTL

(* Such a caller never makes GetDisplayCompChange read a destroyed layer.  *)
THEOREM ChangesAliveAlways == Spec => []ChangesAlive
<1>1. ReportInv => ChangesAlive
  BY DEF ReportInv
<1> QED BY ReportInvariant, <1>1, PTL

-----------------------------------------------------------------------------
(***************************************************************************)
(* The registry implements LayerStack.  CreateLayer, DestroyLayer and      *)
(* SetLayerZorder are AddLayer, TakeLayer and MoveLayer; the other         *)
(* operations leave the stack alone.                                       *)
(***************************************************************************)

(* The instance's copies of the sequence operators are the operators.      *)
LEMMA SameOperators ==
  /\ \A s, k, e : Abstract!InsertAt(s, k, e) = InsertAt(s, k, e)
  /\ \A s, i : Abstract!RemoveAt(s, i) = RemoveAt(s, i)
  BY DEF InsertAt, RemoveAt, Abstract!InsertAt, Abstract!RemoveAt

(* A new display has an empty stack. *)
LEMMA InitRefines == Init => Abstract!StackInit
  BY DEF Init, Abstract!StackInit

(* Every step of the registry is a step of the stack or leaves it alone. *)
LEMMA NextRefines ==
  RegistryInv /\ RegistryInv' /\ [Next]_vars => [Abstract!StackNext]_(Abstract!stackVars)
<1> SUFFICES ASSUME RegistryInv, RegistryInv', [Next]_vars
             PROVE  Abstract!StackNext \/ UNCHANGED <<mLayers, mZorder, mIdSets>>
  BY DEF Abstract!stackVars
<1>1. mLayers \in [Displays -> Seq(LayerIds)] /\ mZorder \in [LayerIds -> Nat]
  BY DEF RegistryInv, TypeOK
<1>2. \A d \in Displays : Abstract!Stacked(mLayers'[d], mZorder')
  BY DEF RegistryInv, Registry, Sorted, Abstract!Stacked
<1>3. ASSUME NEW d \in Displays, CreateLayer(d) PROVE Abstract!AddLayer(d)
  <2>1. PICK id \in LayerIds :
          /\ GetIdleId(id)
          /\ mZorder' = [mZorder EXCEPT ![id] = InitZ]
          /\ \E k \in 1 .. (Len(mLayers[d]) + 1) : mLayers' = [mLayers EXCEPT ![d] = InsertAt(@, k, id)]
    BY <1>3 DEF CreateLayer
  <2>2. id \in LayerIds \ mIdSets /\ mIdSets' = mIdSets \cup {id}
    BY <2>1 DEF GetIdleId
  <2>3. PICK k \in 1 .. (Len(mLayers[d]) + 1) : mLayers' = [mLayers EXCEPT ![d] = InsertAt(@, k, id)]
    BY <2>1
  <2>4. mLayers' = [mLayers EXCEPT ![d] = Abstract!InsertAt(@, k, id)]
    BY <2>3, SameOperators, Zenon
  <2> QED BY <1>2, <2>1, <2>2, <2>4, Zenon DEF Abstract!AddLayer
<1>4. ASSUME NEW d \in Displays, NEW l \in LayerIds, DestroyLayer(d, l) PROVE Abstract!TakeLayer(d)
  <2>1. /\ l \in mLayersMap[d] /\ mLayers' = [mLayers EXCEPT ![d] = Erase(mLayers[d], l)]
        /\ mZorder' = mZorder /\ mIdSets' = mIdSets
    BY <1>1, <1>4 DEF DestroyLayer, GetHdiLayer, idVars, layerVars
  <2>2. PICK i \in 1 .. Len(mLayers[d]) : Erase(mLayers[d], l) = RemoveAt(mLayers[d], i)
    BY <2>1, EraseRemoves
  <2>3. mLayers' = [mLayers EXCEPT ![d] = Abstract!RemoveAt(@, i)]
    BY <2>1, <2>2, SameOperators, Zenon
  <2> QED BY <2>1, <2>3, Zenon DEF Abstract!TakeLayer
<1>5. ASSUME NEW d \in Displays, NEW l \in LayerIds, NEW z \in Zorders, SetLayerZorder(d, l, z)
      PROVE  Abstract!MoveLayer(d)
  <2> DEFINE rest == Erase(mLayers[d], l)
  <2>1. /\ l \in mLayersMap[d] /\ mZorder' = [mZorder EXCEPT ![l] = z] /\ mIdSets' = mIdSets
    BY <1>5 DEF SetLayerZorder, GetHdiLayer, idVars
  <2>2. PICK k \in 1 .. (Len(rest) + 1) : mLayers' = [mLayers EXCEPT ![d] = InsertAt(rest, k, l)]
    BY <1>5 DEF SetLayerZorder
  <2>3. PICK i \in 1 .. Len(mLayers[d]) : mLayers[d][i] = l /\ rest = RemoveAt(mLayers[d], i)
    BY <2>1, EraseRemoves
  <2>4. Len(RemoveAt(mLayers[d], i)) = Len(mLayers[d]) - 1
    BY <1>1, RemoveAtElements
  <2>5. k \in 1 .. Len(mLayers[d])
    <3>1. Len(mLayers[d]) \in Nat
      BY <1>1
    <3> QED BY <2>2, <2>3, <2>4, <3>1
  <2>6. /\ mZorder' = [mZorder EXCEPT ![mLayers[d][i]] = z]
        /\ mLayers' = [mLayers EXCEPT ![d] = InsertAt(RemoveAt(mLayers[d], i), k, mLayers[d][i])]
    BY <2>1, <2>2, <2>3
  <2>7. mLayers' = [mLayers EXCEPT ![d] = Abstract!InsertAt(Abstract!RemoveAt(@, i), k, mLayers[d][i])]
    BY <2>6, SameOperators, Zenon
  <2> QED BY <1>2, <2>1, <2>5, <2>6, <2>7, Zenon DEF Abstract!MoveLayer
<1>6. ASSUME NEW d \in Displays,
             \/ PrepareDisplayLayers(d) \/ PrepareNullBuffer(d) \/ GetDisplayCompChange(d)
             \/ \E l \in LayerIds : \/ \E t \in CallerTypes : SetLayerCompositionType(d, l, t)
                                    \/ \E b \in Buffers : SetLayerBuffer(d, l, b)
      PROVE  UNCHANGED <<mLayers, mZorder, mIdSets>>
  BY <1>6 DEF PrepareDisplayLayers, PrepareNullBuffer, GetDisplayCompChange,
              SetLayerCompositionType, SetLayerBuffer, idVars, layerVars
<1>7. CASE UNCHANGED vars
  BY <1>7 DEF vars, idVars, layerVars
<1> QED BY <1>3, <1>4, <1>5, <1>6, <1>7 DEF Next, Abstract!StackNext

(* Seen from outside, a display is a stack of layers sorted by z-order in  *)
(* which an operation on one layer never disturbs the others, and no id    *)
(* comes back, for any number of displays, layers and z-orders.            *)
THEOREM RegistryRefinesLayerStack == Spec => ImplementsLayerStack
<1>1. Spec => []RegistryInv
  <2>1. ReportInv => RegistryInv
    BY DEF ReportInv
  <2> QED BY ReportInvariant, <2>1, PTL
<1> QED BY InitRefines, NextRefines, <1>1, PTL DEF Spec, ImplementsLayerStack, Abstract!StackSpec
=============================================================================
