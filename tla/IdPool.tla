-------------------------------- MODULE IdPool --------------------------------
(***************************************************************************)
(* The static id pool of HdiLayer and of HdiDisplay: the same GetIdleId,   *)
(* once per class.  mIdleId is where the next scan starts, mIdSets the ids *)
(* in use.  Only ~HdiDisplay gives an id back (Releases); ~HdiLayer keeps  *)
(* it for ever.  The scan is modelled step by step, because whether it     *)
(* ends is the question.                                                   *)
(***************************************************************************)
EXTENDS Naturals

CONSTANTS
  Invalid,   \* INVALIDE_LAYER_ID / INVALIDE_DISPLAY_ID, 2^32 - 1 in the code
  Releases   \* the class erases its id in its destructor

ASSUME PoolAssumption == Invalid \in Nat \ {0} /\ Releases \in BOOLEAN

Ids   == 0 .. (Invalid - 1)
Width == Invalid + 1             \* uint32_t wraps at 2^32

VARIABLES
  mIdleId, mIdSets,
  held,        \* ids of live objects whose Init succeeded
  pc,          \* "idle": no call; "scan": in the loop; "found": loop left
  oldIdleId, id,
  reported     \* the last Init said "have no id to used"

vars == <<mIdleId, mIdSets, held, pc, oldIdleId, id, reported>>

(* Enter GetIdleId: remember mIdleId, then bring it into range. *)
Enter ==
  /\ pc = "idle"
  /\ oldIdleId' = mIdleId
  /\ id' = Invalid
  /\ mIdleId' = mIdleId % Invalid
  /\ pc' = "scan"
  /\ reported' = FALSE
  /\ UNCHANGED <<mIdSets, held>>

(* Mutant: the membership test is skipped. *)
ScanBlind ==
  /\ pc = "scan"
  /\ id' = mIdleId
  /\ pc' = "found"
  /\ UNCHANGED <<mIdSets, held, oldIdleId, mIdleId, reported>>

(* Mutant: an id in use is tried again for ever. *)
ScanStuck ==
  /\ pc = "scan"
  /\ IF mIdleId \notin mIdSets
       THEN id' = mIdleId /\ pc' = "found"
       ELSE UNCHANGED <<id, pc>>
  /\ UNCHANGED <<mIdSets, held, oldIdleId, mIdleId, reported>>

(* Mutant: the loop gives up one id early. *)
ScanShort ==
  /\ pc = "scan"
  /\ IF mIdleId \notin mIdSets
       THEN /\ id' = mIdleId
            /\ pc' = "found"
            /\ UNCHANGED mIdleId
       ELSE /\ mIdleId' = (mIdleId + 1) % Invalid
            /\ pc' = IF oldIdleId # (mIdleId + 2) % Invalid THEN "scan" ELSE "found"
            /\ UNCHANGED id
  /\ UNCHANGED <<mIdSets, held, oldIdleId, reported>>

(* One turn of the do-while loop. *)
Scan ==
  /\ pc = "scan"
  /\ IF mIdleId \notin mIdSets
       THEN /\ id' = mIdleId
            /\ pc' = "found"
            /\ UNCHANGED mIdleId
       ELSE /\ mIdleId' = (mIdleId + 1) % Invalid
            /\ pc' = IF oldIdleId # mIdleId' THEN "scan" ELSE "found"
            /\ UNCHANGED id
  /\ UNCHANGED <<mIdSets, held, oldIdleId, reported>>

(* Leave GetIdleId and finish Init. *)
Leave ==
  /\ pc = "found"
  /\ mIdSets' = mIdSets \cup {id}
  /\ mIdleId' = (mIdleId + 1) % Width
  /\ held' = IF id = Invalid THEN held ELSE held \cup {id}
  /\ reported' = (id = Invalid)
  /\ pc' = "idle"
  /\ UNCHANGED <<oldIdleId, id>>

(* ~HdiDisplay erases mId; an object whose Init failed still has the       *)
(* invalid id and erases that.                                             *)
Release(i) ==
  /\ Releases
  /\ pc = "idle"
  /\ i \in held \cup {Invalid}
  /\ mIdSets' = mIdSets \ {i}
  /\ held' = held \ {i}
  /\ UNCHANGED <<mIdleId, pc, oldIdleId, id, reported>>

Init ==
  /\ mIdleId = 0 /\ mIdSets = {} /\ held = {}
  /\ pc = "idle" /\ oldIdleId = 0 /\ id = Invalid /\ reported = FALSE

Next == Enter \/ Scan \/ Leave \/ \E i \in 0 .. Invalid : Release(i)

Spec == Init /\ [][Next]_vars

(* The caller's thread keeps running through the scan. *)
FairSpec == Spec /\ WF_vars(Scan) /\ WF_vars(Leave)

-----------------------------------------------------------------------------
(* mIdleId stays inside uint32_t and no live object has the invalid id. *)
TypeOK ==
  /\ mIdleId \in 0 .. Invalid
  /\ mIdSets \subseteq 0 .. Invalid
  /\ held \subseteq Ids
  /\ pc \in {"idle", "scan", "found"}
  /\ oldIdleId \in 0 .. Invalid
  /\ id \in 0 .. Invalid
  /\ reported \in BOOLEAN

(* The id handed to a new object is never that of a live one, however      *)
(* often the pool has wrapped around and ids have come back.               *)
FreshId == pc = "found" /\ id # Invalid => id \notin held

(* What makes FreshId inductive: live ids are recorded, and while the scan *)
(* runs it stays inside the id space.                                      *)
PoolInv ==
  /\ held \subseteq mIdSets
  /\ pc = "found" /\ id # Invalid => id \notin mIdSets /\ id \in Ids
  /\ pc = "scan" => mIdleId \in Ids /\ id = Invalid

(* A caller is told "have no id to used" only when every id is in use. *)
ReportsOnlyWhenFull == pc = "found" /\ id = Invalid => Ids \subseteq mIdSets

(* While an id is free, GetIdleId returns.  When none is free and the scan *)
(* begins at the invalid id it never meets its starting point again, so    *)
(* nothing is promised then.                                               *)
ScanEndsWhenFree == (pc = "scan" /\ ~(Ids \subseteq mIdSets)) ~> (pc = "idle")
=============================================================================
