----------------------------- MODULE IdPoolProofs -----------------------------
(***************************************************************************)
(* Safety of the id pool for every size of the id space, the 2^32 - 1 ids  *)
(* of the code included.                                                   *)
(***************************************************************************)
EXTENDS IdPool, TLAPS

(* The wrap-around arithmetic of GetIdleId stays in the id space.          *)
LEMMA ModRange == \A n \in Nat : \A m \in Nat \ {0} : n % m \in 0 .. (m - 1)
  OBVIOUS

(* The inductive invariant: types, and what relates the scan to the ids in *)
(* use.                                                                    *)
Inv == TypeOK /\ PoolInv

(* The static pool starts empty. *)
LEMMA InitInv == Init => Inv
<1>1. Init => reported \in BOOLEAN
  BY Zenon DEF Init
<1> QED BY PoolAssumption, <1>1 DEF Init, Inv, TypeOK, PoolInv, Ids

(* Every step of GetIdleId, of Init and of ~HdiDisplay keeps the invariant. *)
LEMMA NextInv == Inv /\ [Next]_vars => Inv'
<1> SUFFICES ASSUME Inv, [Next]_vars PROVE Inv'
  OBVIOUS
<1> USE PoolAssumption DEF Inv, TypeOK, PoolInv, Ids
<1>1. CASE Enter
  <2>1. mIdleId % Invalid \in 0 .. (Invalid - 1)
    BY ModRange
  <2>2. reported' \in BOOLEAN
    BY <1>1, Zenon DEF Enter
  <2> QED BY <1>1, <2>1, <2>2 DEF Enter
<1>2. CASE Scan
  <2>1. (mIdleId + 1) % Invalid \in 0 .. (Invalid - 1)
    BY ModRange
  <2>2. CASE mIdleId \notin mIdSets
    BY <1>2, <2>2 DEF Scan
  <2>3. CASE mIdleId \in mIdSets
    BY <1>2, <2>1, <2>3 DEF Scan
  <2> QED BY <2>2, <2>3
<1>3. CASE Leave
  <2>1. (mIdleId + 1) % Width \in 0 .. Invalid
    BY ModRange DEF Width
  <2> QED BY <1>3, <2>1 DEF Leave
<1>4. ASSUME NEW i \in 0 .. Invalid, Release(i) PROVE Inv'
  BY <1>4 DEF Release
<1>5. CASE UNCHANGED vars
  BY <1>5 DEF vars
<1> QED BY <1>1, <1>2, <1>3, <1>4, <1>5 DEF Next

(* mIdleId stays inside uint32_t, live objects have ids below Invalid.     *)
THEOREM TypeCorrect == Spec => []TypeOK
<1>1. Inv => TypeOK
  BY DEF Inv
<1> QED BY InitInv, NextInv, <1>1, PTL DEF Spec

(* GetIdleId never hands the id of a live layer or display to a new one,   *)
(* however often mIdleId has wrapped around.                               *)
THEOREM FreshIdAlways == Spec => []FreshId
<1>1. Inv => FreshId
  BY DEF Inv, PoolInv, FreshId
<1> QED BY InitInv, NextInv, <1>1, PTL DEF Spec

-----------------------------------------------------------------------------
(***************************************************************************)
(* "have no id to used".  The scan has visited the ids from where it       *)
(* started up to mIdleId, around the end of the id space if it wrapped.  A *)
(* scan that starts at the invalid id never meets its start again, so it   *)
(* never reports.                                                          *)
(***************************************************************************)
Visited ==
  IF oldIdleId <= mIdleId THEN oldIdleId .. (mIdleId - 1)
                          ELSE oldIdleId .. (Invalid - 1) \cup 0 .. (mIdleId - 1)

(* Every id the scan has visited is in use. *)
ScanInv ==
  /\ pc = "scan" /\ oldIdleId # Invalid => Visited \subseteq mIdSets
  /\ ReportsOnlyWhenFull

(* Reduction modulo the id space leaves an id alone ... *)
LEMMA ModSmall == \A m \in Nat \ {0} : \A n \in 0 .. (m - 1) : n % m = n
  OBVIOUS

(* ... and takes the step past the last one to 0. *)
LEMMA ModNext ==
  ASSUME NEW m \in Nat \ {0}, NEW n \in 0 .. (m - 1)
  PROVE  (n + 1) % m = IF n + 1 = m THEN 0 ELSE n + 1
  OBVIOUS

(* A turn of the loop adds one id to the visited ones. *)
LEMMA ScanKeepsVisited == Inv /\ ScanInv /\ [Next]_vars => ScanInv'
<1> SUFFICES ASSUME Inv, ScanInv, [Next]_vars PROVE ScanInv'
  OBVIOUS
<1> USE PoolAssumption DEF Inv, TypeOK, PoolInv, Ids, ScanInv, ReportsOnlyWhenFull
<1>1. CASE Enter
  <2>1. oldIdleId' # Invalid => mIdleId' = oldIdleId'
    BY <1>1, ModSmall DEF Enter
  <2> QED BY <1>1, <2>1 DEF Enter, Visited
<1>2. CASE Scan
  <2>1. CASE mIdleId \notin mIdSets
    BY <1>2, <2>1 DEF Scan
  <2>2. CASE mIdleId \in mIdSets
    <3>1. /\ mIdleId' = IF mIdleId + 1 = Invalid THEN 0 ELSE mIdleId + 1
          /\ pc' = IF oldIdleId # mIdleId' THEN "scan" ELSE "found"
          /\ UNCHANGED <<id, mIdSets, oldIdleId>>
      BY <1>2, <2>2, ModNext DEF Scan
    <3>2. oldIdleId # Invalid => Visited \cup {mIdleId} \subseteq mIdSets
      BY <1>2, <2>2 DEF Scan
    <3>3. CASE oldIdleId # mIdleId'
      <4>1. oldIdleId # Invalid => Visited' \subseteq Visited \cup {mIdleId}
        BY <3>1, <3>3 DEF Visited
      <4> QED BY <3>1, <3>2, <3>3, <4>1
    <3>4. CASE oldIdleId = mIdleId'
      <4>1. oldIdleId # Invalid /\ Ids \subseteq Visited \cup {mIdleId}
        BY <3>1, <3>4 DEF Visited
      <4> QED BY <3>1, <3>2, <3>4, <4>1
    <3> QED BY <3>3, <3>4
  <2> QED BY <2>1, <2>2
<1>3. CASE Leave
  BY <1>3 DEF Leave
<1>4. ASSUME NEW i \in 0 .. Invalid, Release(i) PROVE ScanInv'
  BY <1>4 DEF Release
<1>5. CASE UNCHANGED vars
  BY <1>5 DEF vars, Visited
<1> QED BY <1>1, <1>2, <1>3, <1>4, <1>5 DEF Next

(* Init reports "have no id to used" only when the scan has been once      *)
(* around and every id is in use, wherever it started.                     *)
THEOREM ReportsOnlyWhenFullAlways == Spec => []ReportsOnlyWhenFull
<1>1. Init => ScanInv
  BY DEF Init, ScanInv, ReportsOnlyWhenFull
<1>2. ScanInv => ReportsOnlyWhenFull
  BY DEF ScanInv
<1> QED BY InitInv, NextInv, ScanKeepsVisited, <1>1, <1>2, PTL DEF Spec
=============================================================================
