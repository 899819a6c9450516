--------------------------- MODULE DrmCommitProofs ---------------------------
(***************************************************************************)
(* Properties of the frame commit for any buffers, modes, setups and       *)
(* number of frames.                                                       *)
(***************************************************************************)
EXTENDS DrmCommit, SequenceTheorems, TLAPS

Stages == {"off", "rest", "plane", "cursor", "commit", "release", "releaseCursor"}
GemBuffers == [fb : 0 .. MaxIds, handle : 0 .. MaxIds]

(* TypeOK, and the types of what it leaves out. *)
Typed ==
  /\ TypeOK
  /\ setup \in Setups /\ DOMAIN req = Layers
  /\ outFence \in 0 .. (FenceRing - 1)
  /\ cursorLayers \in BOOLEAN /\ isAnimationEnd \in BOOLEAN
  /\ firstFrame \in BOOLEAN /\ mNeedModeSet \in BOOLEAN

(* What the objects record is registered, each id by one object only: an   *)
(* object is not emptied before its framebuffer is removed, nor after.     *)
Registered ==
  /\ \A k \in Layers : /\ mCurrentBuffer[k].fb \in DOMAIN fbs \cup {Null}
                       /\ lastBuffer[k].fb \in DOMAIN fbs \cup {Null}
                       /\ mCurrentBuffer[k].fb = lastBuffer[k].fb => lastBuffer[k].fb = Null
  /\ \A j, k \in Layers : j # k =>
       /\ mCurrentBuffer[j].fb = mCurrentBuffer[k].fb => mCurrentBuffer[j].fb = Null
       /\ mCurrentBuffer[j].fb = lastBuffer[k].fb => mCurrentBuffer[j].fb = Null
       /\ lastBuffer[j].fb = lastBuffer[k].fb => lastBuffer[j].fb = Null

-----------------------------------------------------------------------------
(* The minimum of a set of small positive numbers is the smallest of them. *)
LEMMA MinOfSmall ==
  ASSUME NEW S \in SUBSET (1 .. 6), S # {}
  PROVE  Min(S) \in S /\ \A y \in S : Min(S) <= y
<1>1. \E x \in S : \A y \in S : x =< y
  <2>1. \A y \in S : y = 1 \/ y = 2 \/ y = 3 \/ y = 4 \/ y = 5 \/ y = 6
    OBVIOUS
  <2>2. CASE 1 \in S
    BY <2>1, <2>2
  <2>3. CASE 1 \notin S /\ 2 \in S
    BY <2>1, <2>3
  <2>4. CASE 1 \notin S /\ 2 \notin S /\ 3 \in S
    BY <2>1, <2>4
  <2>5. CASE 1 \notin S /\ 2 \notin S /\ 3 \notin S /\ 4 \in S
    BY <2>1, <2>5
  <2>6. CASE 1 \notin S /\ 2 \notin S /\ 3 \notin S /\ 4 \notin S /\ 5 \in S
    BY <2>1, <2>6
  <2>7. CASE 1 \notin S /\ 2 \notin S /\ 3 \notin S /\ 4 \notin S /\ 5 \notin S
    <3>1. S = {6}
      BY <2>1, <2>7
    <3>2. QED
      BY <3>1
  <2>8. QED
    BY <2>2, <2>3, <2>4, <2>5, <2>6, <2>7
<1>2. QED
  BY <1>1 DEF Min

(* A table with at most four ids has a free one that is not Absent. *)
LEMMA FreeIdFresh ==
  ASSUME NEW table, NEW a, NEW b, NEW c, NEW d, DOMAIN table \subseteq {a, b, c, d}
  PROVE  FreeId(table) \in 1 .. MaxIds /\ FreeId(table) \notin DOMAIN table
<1> DEFINE S == (1 .. (MaxIds + 1)) \ DOMAIN table
<1>1. \E i \in 1 .. 5 : i \notin {a, b, c, d}
  <2>1. SUFFICES ASSUME 1 \in {a, b, c, d}, 2 \in {a, b, c, d}, 3 \in {a, b, c, d},
                        4 \in {a, b, c, d}, 5 \in {a, b, c, d}
                 PROVE  FALSE
    OBVIOUS
  <2>2. QED
    BY <2>1
<1>2. PICK i \in 1 .. 5 : i \in S
  BY <1>1 DEF MaxIds
<1>3. S \in SUBSET (1 .. 6) /\ S # {}
  BY <1>2 DEF MaxIds
<1> HIDE DEF S
<1>4. Min(S) \in S /\ Min(S) <= i
  BY <1>2, <1>3, MinOfSmall
<1>5. Min(S) \in 1 .. 5
  <2>1. \A m \in 1 .. 6 : m <= i => m \in 1 .. 5
    OBVIOUS
  <2>2. QED
    BY <1>3, <1>4, <2>1
<1>6. QED
  BY <1>4, <1>5 DEF FreeId, S, MaxIds

(* Each table of the kernel holds at most the ids the four objects record. *)
LEMMA FourObjects ==
  /\ FbsOwned => DOMAIN fbs \subseteq {mCurrentBuffer["client"].fb, mCurrentBuffer["cursor"].fb,
                                       lastBuffer["client"].fb, lastBuffer["cursor"].fb}
  /\ HandlesOwned =>
       DOMAIN handles \subseteq {mCurrentBuffer["client"].handle, mCurrentBuffer["cursor"].handle,
                                 lastBuffer["client"].handle, lastBuffer["cursor"].handle}
BY DEF FbsOwned, HandlesOwned, Objects, Layers

(* The id of a framebuffer that drmModeAddFB2 creates is a new one, and a  *)
(* handle that drmPrimeFDToHandle returns is one of the id space.          *)
LEMMA NewIds ==
  ASSUME TypeOK, FbsOwned, HandlesOwned, NEW b
  PROVE  /\ FreeId(fbs) \in 1 .. MaxIds /\ FreeId(fbs) \notin DOMAIN fbs
         /\ HandleOf(b) \in 1 .. MaxIds
<1>1. FreeId(fbs) \in 1 .. MaxIds /\ FreeId(fbs) \notin DOMAIN fbs
  BY FourObjects, FreeIdFresh
<1>2. FreeId(handles) \in 1 .. MaxIds
  BY FourObjects, FreeIdFresh
<1>3. DOMAIN handles \subseteq 1 .. MaxIds
  BY DEF TypeOK
<1>4. QED
  BY <1>1, <1>2, <1>3 DEF HandleOf

(* What the removal of an id leaves of a table of the kernel, and what the *)
(* removal of a framebuffer leaves on the screen.                          *)
LEMMA DropFacts ==
  ASSUME NEW t, NEW i
  PROVE  /\ DOMAIN Drop(t, i) = DOMAIN t \ {i}
         /\ \A j \in DOMAIN t \ {i} : Drop(t, i)[j] = t[j]
BY DEF Drop

(* A plane that showed the removed framebuffer is dark, the others are as  *)
(* they were.                                                              *)
LEMMA BlankedFacts ==
  ASSUME NEW fb, screen \in [Layers -> 0 .. MaxIds]
  PROVE  /\ Blanked(fb) \in [Layers -> 0 .. MaxIds]
         /\ \A j \in Layers : Blanked(fb)[j] = IF screen[j] = fb THEN Null ELSE screen[j]
<1>1. Null \in 0 .. MaxIds
  BY DEF Null, MaxIds
<1>2. QED
  BY <1>1 DEF Blanked

(* What wrapping a layer's buffer does: a new object with new ids, the     *)
(* objects pushed down, the lowest one's ids removed.                      *)
Wrapped(k, nf, nh) ==
  /\ DOMAIN fbs' = (DOMAIN fbs \cup ({nf} \ {Null})) \ {lastBuffer[k].fb}
  /\ nf # Null => nf \in DOMAIN fbs' /\ fbs'[nf] = layerBuffer[k]
  /\ \A i \in DOMAIN fbs' : i # nf => fbs'[i] = fbs[i]
  /\ DOMAIN handles' = (DOMAIN handles \cup ({nh} \ {Null})) \ {lastBuffer[k].handle}
  /\ screen' \in [Layers -> 0 .. MaxIds]
  /\ \A j \in Layers : screen'[j] = IF lastBuffer[k].fb # Null /\ screen[j] = lastBuffer[k].fb
                                    THEN Null ELSE screen[j]
  /\ mCurrentBuffer' \in [Layers -> GemBuffers] /\ lastBuffer' \in [Layers -> GemBuffers]
  /\ mCurrentBuffer'[k].fb = nf /\ mCurrentBuffer'[k].handle = nh
  /\ lastBuffer'[k] = mCurrentBuffer[k]
  /\ mLastGemBuffer' \in [Layers -> Pointers]
  /\ mLastGemBuffer'[k] = Shifted(mLastGemBuffer[k])
  /\ mCurrentGemBuffer' \in [Layers -> {"null", "current"}]
  /\ mCurrentGemBuffer'[k] = "current"
  /\ \A j \in Layers : j # k =>
       /\ mCurrentBuffer'[j] = mCurrentBuffer[j] /\ lastBuffer'[j] = lastBuffer[j]
       /\ mLastGemBuffer'[j] = mLastGemBuffer[j]
       /\ mCurrentGemBuffer'[j] = mCurrentGemBuffer[j]

(* Wrapping a buffer does what Wrapped says, whichever of its calls fail.  *)
LEMMA GemFacts ==
  ASSUME Typed, FbsOwned, HandlesOwned, Registered,
         NEW k \in Layers, NEW failed, GemInit(k, failed)
  PROVE  \E nf \in 0 .. MaxIds, nh \in 0 .. MaxIds :
           /\ Wrapped(k, nf, nh)
           /\ nf \notin DOMAIN fbs
           /\ failed \notin {"import", "addfb"} => nf # Null
           /\ failed # "import" => nh # Null
<1> DEFINE nh == IF failed = "import" THEN Null ELSE HandleOf(layerBuffer[k])
           nf == IF failed \in {"import", "addfb"} THEN Null ELSE FreeId(fbs)
           h  == IF nh = Null THEN handles ELSE Put(handles, nh, layerBuffer[k])
           f  == IF nf = Null THEN fbs ELSE Put(fbs, nf, layerBuffer[k])
           o  == [fb |-> nf, handle |-> nh]
<1>1. GetGemBuffer(k, o, h, f)
  BY DEF GemInit
<1>2. /\ mCurrentBuffer \in [Layers -> GemBuffers] /\ lastBuffer \in [Layers -> GemBuffers]
      /\ mLastGemBuffer \in [Layers -> Pointers]
      /\ mCurrentGemBuffer \in [Layers -> {"null", "current"}]
      /\ screen \in [Layers -> 0 .. MaxIds]
      /\ DOMAIN fbs \subseteq 1 .. MaxIds
  BY DEF Typed, TypeOK, GemBuffers
<1>3. /\ FreeId(fbs) \in 1 .. MaxIds /\ FreeId(fbs) \notin DOMAIN fbs
      /\ HandleOf(layerBuffer[k]) \in 1 .. MaxIds
  BY NewIds DEF Typed
<1>4. /\ nf \in 0 .. MaxIds /\ nh \in 0 .. MaxIds /\ nf \notin DOMAIN fbs
      /\ failed \notin {"import", "addfb"} => nf # Null
      /\ failed # "import" => nh # Null
  BY <1>2, <1>3 DEF Null, MaxIds
<1>5. DOMAIN f = DOMAIN fbs \cup ({nf} \ {Null}) /\ DOMAIN h = DOMAIN handles \cup ({nh} \ {Null})
  BY DEF Put
<1>6. (nf # Null => f[nf] = layerBuffer[k]) /\ \A i \in DOMAIN f : i # nf => f[i] = fbs[i]
  BY DEF Put
<1> HIDE DEF nf, nh, h, f
<1>7. /\ Remove(lastBuffer[k], h, f)
      /\ lastBuffer' = [lastBuffer EXCEPT ![k] = mCurrentBuffer[k]]
      /\ mCurrentBuffer' = [mCurrentBuffer EXCEPT ![k] = o]
      /\ mLastGemBuffer' = [mLastGemBuffer EXCEPT ![k] = Shifted(@)]
      /\ mCurrentGemBuffer' = [mCurrentGemBuffer EXCEPT ![k] = "current"]
  BY <1>1 DEF GetGemBuffer
<1>8. o \in GemBuffers /\ o.fb = nf /\ o.handle = nh
  BY <1>4 DEF GemBuffers
<1> HIDE DEF o
<1>9. /\ mCurrentBuffer' \in [Layers -> GemBuffers] /\ lastBuffer' \in [Layers -> GemBuffers]
      /\ mCurrentBuffer'[k] = o /\ lastBuffer'[k] = mCurrentBuffer[k]
      /\ \A j \in Layers : j # k =>
           mCurrentBuffer'[j] = mCurrentBuffer[j] /\ lastBuffer'[j] = lastBuffer[j]
  BY <1>2, <1>7, <1>8
<1>10. Shifted(mLastGemBuffer[k]) \in Pointers
  BY <1>2 DEF Shifted, Pointers
<1>11. /\ mLastGemBuffer' \in [Layers -> Pointers]
       /\ mLastGemBuffer'[k] = Shifted(mLastGemBuffer[k])
       /\ mCurrentGemBuffer' \in [Layers -> {"null", "current"}]
       /\ mCurrentGemBuffer'[k] = "current"
       /\ \A j \in Layers : j # k =>
            mLastGemBuffer'[j] = mLastGemBuffer[j] /\ mCurrentGemBuffer'[j] = mCurrentGemBuffer[j]
  BY <1>2, <1>7, <1>10
<1>12. /\ DOMAIN fbs' = DOMAIN f \ {lastBuffer[k].fb}
       /\ DOMAIN handles' = DOMAIN h \ {lastBuffer[k].handle}
       /\ \A i \in DOMAIN fbs' : fbs'[i] = f[i]
       /\ screen' \in [Layers -> 0 .. MaxIds]
       /\ \A j \in Layers : screen'[j] = IF lastBuffer[k].fb \in DOMAIN f /\ screen[j] = lastBuffer[k].fb
                                         THEN Null ELSE screen[j]
  <2>1. screen \in [Layers -> 0 .. MaxIds]
    BY <1>2
  <2>2. /\ fbs' = Drop(f, lastBuffer[k].fb) /\ handles' = Drop(h, lastBuffer[k].handle)
        /\ screen' = IF lastBuffer[k].fb \in DOMAIN f THEN Blanked(lastBuffer[k].fb) ELSE screen
    BY <1>7 DEF Remove
  <2>3. /\ DOMAIN fbs' = DOMAIN f \ {lastBuffer[k].fb}
        /\ \A i \in DOMAIN fbs' : fbs'[i] = f[i]
    BY <2>2, DropFacts
  <2>4. DOMAIN handles' = DOMAIN h \ {lastBuffer[k].handle}
    BY <2>2, DropFacts
  <2>5. /\ screen' \in [Layers -> 0 .. MaxIds]
        /\ \A j \in Layers : screen'[j] = IF lastBuffer[k].fb \in DOMAIN f /\ screen[j] = lastBuffer[k].fb
                                          THEN Null ELSE screen[j]
    BY <2>1, <2>2, BlankedFacts
  <2>6. QED
    BY <2>3, <2>4, <2>5
<1>13. lastBuffer[k].fb \in DOMAIN fbs \cup {Null} /\ Null \notin DOMAIN fbs
  BY <1>2 DEF Registered, Null
<1>14. nf # Null => nf \in DOMAIN fbs' /\ fbs'[nf] = layerBuffer[k]
  BY <1>4, <1>5, <1>6, <1>12, <1>13
<1>15. \A i \in DOMAIN fbs' : i # nf => fbs'[i] = fbs[i]
  BY <1>6, <1>12
<1>16. lastBuffer[k].fb \in DOMAIN f <=> lastBuffer[k].fb # Null
  BY <1>4, <1>5, <1>13
<1>17. Wrapped(k, nf, nh)
  BY <1>5, <1>8, <1>9, <1>11, <1>12, <1>14, <1>15, <1>16 DEF Wrapped
<1>18. QED
  BY <1>4, <1>17

(* What releaseBuffer does with object o, n being what it leaves of it. *)
Freed(o, n) ==
  /\ n.fb = Null
  /\ n.handle = IF o.handle \in DOMAIN handles THEN Null ELSE o.handle
  /\ DOMAIN fbs' = DOMAIN fbs \ {o.fb} /\ \A i \in DOMAIN fbs' : fbs'[i] = fbs[i]
  /\ DOMAIN handles' = DOMAIN handles \ {o.handle}
  /\ \A j \in Layers : screen'[j] = IF o.fb # Null /\ screen[j] = o.fb THEN Null ELSE screen[j]

(* What releasing the last object of layer k and remembering the current   *)
(* one does, by what the raw pointer names.                                *)
LetGo(k) ==
  /\ screen' \in [Layers -> 0 .. MaxIds]
  /\ mCurrentBuffer' \in [Layers -> GemBuffers] /\ lastBuffer' \in [Layers -> GemBuffers]
  /\ mLastGemBuffer' \in [Layers -> Pointers]
  /\ mLastGemBuffer'[k] = mCurrentGemBuffer[k]
  /\ \A j \in Layers : j # k =>
       /\ mCurrentBuffer'[j] = mCurrentBuffer[j] /\ lastBuffer'[j] = lastBuffer[j]
       /\ mLastGemBuffer'[j] = mLastGemBuffer[j]
  /\ \/ mLastGemBuffer[k] = "null" /\ UNCHANGED <<objVars, kernelVars, dangling>>
     \/ /\ mLastGemBuffer[k] = "current" /\ UNCHANGED <<lastBuffer, dangling>>
        /\ Freed(mCurrentBuffer[k], mCurrentBuffer'[k])
     \/ /\ mLastGemBuffer[k] = "last" /\ UNCHANGED <<mCurrentBuffer, dangling>>
        /\ Freed(lastBuffer[k], lastBuffer'[k])
     \/ mLastGemBuffer[k] = "gone" /\ UNCHANGED <<objVars, kernelVars>> /\ dangling'

(* Releasing an object does what LetGo says.                               *)
LEMMA ReleaseFacts ==
  ASSUME Typed, Registered, NEW k \in Layers, ReleaseLast(k)
  PROVE  LetGo(k)
<1>1. /\ mCurrentBuffer \in [Layers -> GemBuffers] /\ lastBuffer \in [Layers -> GemBuffers]
      /\ mLastGemBuffer \in [Layers -> Pointers]
      /\ mCurrentGemBuffer \in [Layers -> {"null", "current"}]
      /\ screen \in [Layers -> 0 .. MaxIds]
      /\ DOMAIN fbs \subseteq 1 .. MaxIds
  BY DEF Typed, TypeOK, GemBuffers
<1>2. mLastGemBuffer' = [mLastGemBuffer EXCEPT ![k] = mCurrentGemBuffer[k]]
  BY DEF ReleaseLast
<1>3. mCurrentGemBuffer[k] \in Pointers
  BY <1>1 DEF Pointers
<1>4. /\ mLastGemBuffer' \in [Layers -> Pointers]
      /\ mLastGemBuffer'[k] = mCurrentGemBuffer[k]
      /\ \A j \in Layers : j # k => mLastGemBuffer'[j] = mLastGemBuffer[j]
  BY <1>1, <1>2, <1>3
<1>5. Null \notin DOMAIN fbs /\ Null \in 0 .. MaxIds
  BY <1>1 DEF Null, MaxIds
<1>6. ASSUME NEW o \in GemBuffers, o.fb \in DOMAIN fbs \cup {Null},
             Remove(o, handles, fbs)
      PROVE  /\ Released(o) \in GemBuffers /\ screen' \in [Layers -> 0 .. MaxIds]
             /\ Released(o).fb = Null
             /\ Released(o).handle = IF o.handle \in DOMAIN handles THEN Null ELSE o.handle
             /\ DOMAIN fbs' = DOMAIN fbs \ {o.fb} /\ \A i \in DOMAIN fbs' : fbs'[i] = fbs[i]
             /\ DOMAIN handles' = DOMAIN handles \ {o.handle}
             /\ \A j \in Layers : screen'[j] = IF o.fb # Null /\ screen[j] = o.fb
                                               THEN Null ELSE screen[j]
  <2>1. /\ Released(o) \in GemBuffers /\ Released(o).fb = Null
        /\ Released(o).handle = IF o.handle \in DOMAIN handles THEN Null ELSE o.handle
    BY <1>5, <1>6 DEF Released, GemBuffers
  <2>2. /\ DOMAIN fbs' = DOMAIN fbs \ {o.fb} /\ \A i \in DOMAIN fbs' : fbs'[i] = fbs[i]
    <3>1. fbs' = Drop(fbs, o.fb)
      BY <1>6 DEF Remove
    <3>2. /\ DOMAIN Drop(fbs, o.fb) = DOMAIN fbs \ {o.fb}
          /\ \A i \in DOMAIN fbs \ {o.fb} : Drop(fbs, o.fb)[i] = fbs[i]
      BY DropFacts
    <3>3. QED
      BY <3>1, <3>2, Zenon
  <2>3. DOMAIN handles' = DOMAIN handles \ {o.handle}
    <3>1. handles' = Drop(handles, o.handle)
      BY <1>6 DEF Remove
    <3>2. DOMAIN Drop(handles, o.handle) = DOMAIN handles \ {o.handle}
      BY DropFacts
    <3>3. QED
      BY <3>1, <3>2, Zenon
  <2>4. o.fb \in DOMAIN fbs <=> o.fb # Null
    BY <1>5, <1>6
  <2>5. screen' = IF o.fb \in DOMAIN fbs THEN Blanked(o.fb) ELSE screen
    BY <1>6 DEF Remove
  <2>6. /\ screen' \in [Layers -> 0 .. MaxIds]
        /\ \A j \in Layers : screen'[j] = IF o.fb # Null /\ screen[j] = o.fb
                                          THEN Null ELSE screen[j]
    BY <1>1, <2>4, <2>5, BlankedFacts
  <2>7. QED
    BY <2>1, <2>2, <2>3, <2>6
<1>7. CASE mLastGemBuffer[k] = "null" /\ UNCHANGED <<objVars, kernelVars, dangling>>
  BY <1>1, <1>4, <1>7 DEF LetGo, objVars, kernelVars
<1>8. CASE mLastGemBuffer[k] = "gone" /\ dangling' = TRUE /\ UNCHANGED <<objVars, kernelVars>>
  BY <1>1, <1>4, <1>8 DEF LetGo, objVars, kernelVars
<1>9. CASE /\ mLastGemBuffer[k] = "current" /\ Remove(mCurrentBuffer[k], handles, fbs)
           /\ mCurrentBuffer' = [mCurrentBuffer EXCEPT ![k] = Released(@)]
           /\ UNCHANGED <<lastBuffer, dangling>>
  <2>1. PICK o \in GemBuffers : o = mCurrentBuffer[k]
    BY <1>1
  <2>2. o.fb \in DOMAIN fbs \cup {Null} /\ Remove(o, handles, fbs)
    BY <1>9, <2>1 DEF Registered, Remove
  <2>3. /\ Released(o) \in GemBuffers /\ screen' \in [Layers -> 0 .. MaxIds]
        /\ Freed(o, Released(o))
    BY <1>6, <2>2 DEF Freed
  <2>4. /\ mCurrentBuffer' \in [Layers -> GemBuffers] /\ mCurrentBuffer'[k] = Released(o)
        /\ \A j \in Layers : j # k => mCurrentBuffer'[j] = mCurrentBuffer[j]
    BY <1>1, <1>9, <2>1, <2>3
  <2>5. Freed(mCurrentBuffer[k], mCurrentBuffer'[k])
    BY <2>1, <2>3, <2>4 DEF Freed
  <2>6. QED
    BY <1>1, <1>4, <1>9, <2>3, <2>4, <2>5 DEF LetGo
<1>10. CASE /\ mLastGemBuffer[k] = "last" /\ Remove(lastBuffer[k], handles, fbs)
            /\ lastBuffer' = [lastBuffer EXCEPT ![k] = Released(@)]
            /\ UNCHANGED <<mCurrentBuffer, dangling>>
  <2>1. PICK o \in GemBuffers : o = lastBuffer[k]
    BY <1>1
  <2>2. o.fb \in DOMAIN fbs \cup {Null} /\ Remove(o, handles, fbs)
    BY <1>10, <2>1 DEF Registered, Remove
  <2>3. /\ Released(o) \in GemBuffers /\ screen' \in [Layers -> 0 .. MaxIds]
        /\ Freed(o, Released(o))
    BY <1>6, <2>2 DEF Freed
  <2>4. /\ lastBuffer' \in [Layers -> GemBuffers] /\ lastBuffer'[k] = Released(o)
        /\ \A j \in Layers : j # k => lastBuffer'[j] = lastBuffer[j]
    BY <1>1, <1>10, <2>1, <2>3
  <2>5. Freed(lastBuffer[k], lastBuffer'[k])
    BY <2>1, <2>3, <2>4 DEF Freed
  <2>6. QED
    BY <1>1, <1>4, <1>10, <2>3, <2>4, <2>5 DEF LetGo
<1>11. QED
  BY <1>7, <1>8, <1>9, <1>10 DEF ReleaseLast

-----------------------------------------------------------------------------
(* Whatever fails: the kernel's tables and the objects agree. *)
OwnInv == FbsOwned /\ HandlesOwned /\ Registered

(* Ownership, layer by layer. *)
LEMMA OwnedByLayers ==
  /\ FbsOwned <=> \A f \in DOMAIN fbs : \E k \in Layers :
                    mCurrentBuffer[k].fb = f \/ lastBuffer[k].fb = f
  /\ HandlesOwned <=> \A h \in DOMAIN handles : \E k \in Layers :
                        mCurrentBuffer[k].handle = h \/ lastBuffer[k].handle = h
  /\ FbsOwned' <=> \A f \in DOMAIN fbs' : \E k \in Layers :
                     mCurrentBuffer'[k].fb = f \/ lastBuffer'[k].fb = f
  /\ HandlesOwned' <=> \A h \in DOMAIN handles' : \E k \in Layers :
                         mCurrentBuffer'[k].handle = h \/ lastBuffer'[k].handle = h
BY DEF FbsOwned, HandlesOwned, Objects

(* Wrapping a buffer preserves ownership: the object that is destroyed     *)
(* takes its ids with it.                                                  *)
LEMMA WrappedOwned ==
  ASSUME Typed, OwnInv, NEW k \in Layers, NEW nf \in 0 .. MaxIds, NEW nh \in 0 .. MaxIds,
         nf \notin DOMAIN fbs, Wrapped(k, nf, nh)
  PROVE  OwnInv'
<1>1. FbsOwned'
  BY OwnedByLayers DEF OwnInv, Wrapped
<1>2. HandlesOwned'
  BY OwnedByLayers DEF OwnInv, Wrapped
<1>3. Registered'
  <2>1. ASSUME NEW j \in Layers
        PROVE  /\ mCurrentBuffer'[j].fb \in DOMAIN fbs' \cup {Null}
               /\ lastBuffer'[j].fb \in DOMAIN fbs' \cup {Null}
               /\ mCurrentBuffer'[j].fb = lastBuffer'[j].fb => lastBuffer'[j].fb = Null
    BY DEF OwnInv, Wrapped, Registered
  <2>2. ASSUME NEW i \in Layers, NEW j \in Layers, i # j
        PROVE  /\ mCurrentBuffer'[i].fb = mCurrentBuffer'[j].fb => mCurrentBuffer'[i].fb = Null
               /\ mCurrentBuffer'[i].fb = lastBuffer'[j].fb => mCurrentBuffer'[i].fb = Null
               /\ lastBuffer'[i].fb = lastBuffer'[j].fb => lastBuffer'[i].fb = Null
    BY <2>2 DEF OwnInv, Wrapped, Registered
  <2>3. QED
    BY <2>1, <2>2 DEF Registered
<1>4. QED
  BY <1>1, <1>2, <1>3 DEF OwnInv

(* Releasing an object preserves ownership: it forgets what it removes. *)
LEMMA LetGoOwned ==
  ASSUME Typed, OwnInv, NEW k \in Layers, LetGo(k)
  PROVE  OwnInv'
<1>1. ASSUME UNCHANGED <<objVars, kernelVars>> PROVE OwnInv'
  BY <1>1 DEF OwnInv, FbsOwned, HandlesOwned, Objects, Registered, objVars, kernelVars
<1>2. CASE Freed(mCurrentBuffer[k], mCurrentBuffer'[k]) /\ UNCHANGED lastBuffer
  <2>0. \A j \in Layers : j # k => mCurrentBuffer'[j] = mCurrentBuffer[j]
    BY DEF LetGo
  <2>1. FbsOwned'
    BY <1>2, <2>0, OwnedByLayers DEF OwnInv, Freed
  <2>2. HandlesOwned'
    BY <1>2, <2>0, OwnedByLayers DEF OwnInv, Freed
  <2>3. Registered'
    BY <1>2, <2>0 DEF OwnInv, Freed, Registered
  <2>4. QED
    BY <2>1, <2>2, <2>3 DEF OwnInv
<1>3. CASE Freed(lastBuffer[k], lastBuffer'[k]) /\ UNCHANGED mCurrentBuffer
  <2>0. \A j \in Layers : j # k => lastBuffer'[j] = lastBuffer[j]
    BY DEF LetGo
  <2>1. FbsOwned'
    BY <1>3, <2>0, OwnedByLayers DEF OwnInv, Freed
  <2>2. HandlesOwned'
    BY <1>3, <2>0, OwnedByLayers DEF OwnInv, Freed
  <2>3. Registered'
    BY <1>3, <2>0 DEF OwnInv, Freed, Registered
  <2>4. QED
    BY <2>1, <2>2, <2>3 DEF OwnInv
<1>4. QED
  BY <1>1, <1>2, <1>3 DEF LetGo

(* The part of the types that ApplyPlane, ApplyCursor and the releases     *)
(* change.                                                                 *)
ObjectsTyped ==
  /\ mCurrentBuffer \in [Layers -> GemBuffers] /\ lastBuffer \in [Layers -> GemBuffers]
  /\ mLastGemBuffer \in [Layers -> Pointers]
  /\ mCurrentGemBuffer \in [Layers -> {"null", "current"}]
  /\ DOMAIN req = Layers
  /\ \A k \in Layers : req[k] \in [fb : 0 .. Absent, crtc : BOOLEAN]
  /\ DOMAIN handles \subseteq 1 .. MaxIds /\ DOMAIN fbs \subseteq 1 .. MaxIds
  /\ screen \in [Layers -> 0 .. MaxIds]

(* How far ApplyPlane or ApplyCursor gets with layer k: not to the buffer, *)
(* or to a wrapped buffer that is put into the request if it is valid.     *)
Applied(k, failed) ==
  \/ failed = "early" /\ UNCHANGED <<objVars, ptrVars, kernelVars, req>>
  \/ \E nf \in 0 .. MaxIds, nh \in 0 .. MaxIds :
       /\ failed # "early"
       /\ Wrapped(k, nf, nh) /\ nf \notin DOMAIN fbs
       /\ failed \notin {"import", "addfb"} => nf # Null
       /\ failed # "import" => nh # Null
       /\ req'[k] = IF nh = Null \/ failed = "fbid" THEN req[k]
                    ELSE [fb |-> nf, crtc |-> failed # "crtcid"]
       /\ \A j \in Layers : j # k => req'[j] = req[j]

(* Applying a layer's buffer does what Applied says.                       *)
LEMMA AppliedFacts ==
  ASSUME Typed, OwnInv, NEW k \in Layers, NEW failed, ApplyTo(k, failed)
  PROVE  Applied(k, failed) /\ OwnInv' /\ ObjectsTyped'
<1>0. ObjectsTyped
  BY DEF Typed, TypeOK, ObjectsTyped, GemBuffers
<1>1. CASE failed = "early"
  <2>1. UNCHANGED <<objVars, ptrVars, kernelVars, req>>
    BY <1>1 DEF ApplyTo
  <2>2. OwnInv'
    BY <2>1 DEF OwnInv, FbsOwned, HandlesOwned, Objects, Registered, objVars, kernelVars
  <2>3. ObjectsTyped'
    BY <1>0, <2>1 DEF ObjectsTyped, objVars, ptrVars, kernelVars
  <2>4. QED
    BY <1>1, <2>1, <2>2, <2>3 DEF Applied
<1>2. CASE failed # "early"
  <2>1. /\ GemInit(k, failed)
        /\ req' = IF mCurrentBuffer'[k].handle = Null \/ failed = "fbid" THEN req
                  ELSE [req EXCEPT ![k] = [fb |-> mCurrentBuffer'[k].fb, crtc |-> failed # "crtcid"]]
    BY <1>2 DEF ApplyTo, IsValid
  <2>2. PICK nf \in 0 .. MaxIds, nh \in 0 .. MaxIds :
          /\ Wrapped(k, nf, nh) /\ nf \notin DOMAIN fbs
          /\ failed \notin {"import", "addfb"} => nf # Null
          /\ failed # "import" => nh # Null
    BY <2>1, GemFacts DEF OwnInv
  <2>3. mCurrentBuffer'[k].fb = nf /\ mCurrentBuffer'[k].handle = nh
    BY <2>2 DEF Wrapped
  <2>4. req' = IF nh = Null \/ failed = "fbid" THEN req
               ELSE [req EXCEPT ![k] = [fb |-> nf, crtc |-> failed # "crtcid"]]
    BY <2>1, <2>3
  <2>5. /\ req'[k] = IF nh = Null \/ failed = "fbid" THEN req[k]
                     ELSE [fb |-> nf, crtc |-> failed # "crtcid"]
        /\ \A j \in Layers : j # k => req'[j] = req[j]
        /\ DOMAIN req' = Layers
    BY <1>0, <2>4 DEF ObjectsTyped
  <2>6. [fb |-> nf, crtc |-> failed # "crtcid"] \in [fb : 0 .. Absent, crtc : BOOLEAN]
    <3>1. nf \in 0 .. Absent
      BY DEF Absent, MaxIds
    <3>2. QED
      BY <3>1
  <2>7. \A j \in Layers : req'[j] \in [fb : 0 .. Absent, crtc : BOOLEAN]
    BY <1>0, <2>5, <2>6 DEF ObjectsTyped
  <2>8. DOMAIN handles' \subseteq 1 .. MaxIds /\ DOMAIN fbs' \subseteq 1 .. MaxIds
    <3>1. ({nf} \ {Null}) \subseteq 1 .. MaxIds /\ ({nh} \ {Null}) \subseteq 1 .. MaxIds
      BY DEF Null, MaxIds
    <3>2. QED
      BY <1>0, <2>2, <3>1 DEF Wrapped, ObjectsTyped
  <2>9. ObjectsTyped'
    BY <2>2, <2>5, <2>7, <2>8 DEF Wrapped, ObjectsTyped
  <2>10. OwnInv'
    BY <2>2, WrappedOwned
  <2>11. QED
    BY <1>2, <2>2, <2>5, <2>9, <2>10 DEF Applied
<1>3. QED
  BY <1>1, <1>2

(* The same of a release. *)
LEMMA LetGoFacts ==
  ASSUME Typed, OwnInv, NEW k \in Layers, ReleaseLast(k), UNCHANGED <<mCurrentGemBuffer, req>>
  PROVE  LetGo(k) /\ OwnInv' /\ ObjectsTyped'
<1>0. ObjectsTyped
  BY DEF Typed, TypeOK, ObjectsTyped, GemBuffers
<1>1. LetGo(k)
  BY ReleaseFacts DEF OwnInv
<1>2. OwnInv'
  BY <1>1, LetGoOwned
<1>3. DOMAIN handles' \subseteq DOMAIN handles /\ DOMAIN fbs' \subseteq DOMAIN fbs
  BY <1>1 DEF LetGo, Freed, kernelVars
<1>4. ObjectsTyped'
  BY <1>0, <1>1, <1>3 DEF LetGo, ObjectsTyped
<1>5. QED
  BY <1>1, <1>2, <1>4

-----------------------------------------------------------------------------
(* The other part of the types. *)
RestTyped ==
  /\ pc \in Stages
  /\ layerBuffer \in [Layers -> AllBuffers]
  /\ setup \in Setups /\ plane \in 0 .. CursorPlanes
  /\ mActiveModeId \in {NoMode} \cup Modes \cup RequestedModes
  /\ kernelMode \in {NoMode} \cup Modes
  /\ kernelActive \in BOOLEAN /\ mDpmsState \in PowerStates
  /\ outFence \in 0 .. (FenceRing - 1)
  /\ releaseFences \in Seq(0 .. (FenceRing - 1))
  /\ cursorFences \in 0 .. MaxCursorFences
  /\ fence \in 0 .. NoFence
  /\ cursorLayers \in BOOLEAN /\ isAnimationEnd \in BOOLEAN
  /\ firstFrame \in BOOLEAN /\ mNeedModeSet \in BOOLEAN

(* The two parts are all of Typed.                                         *)
LEMMA TypedParts == Typed <=> ObjectsTyped /\ RestTyped
BY DEF Typed, TypeOK, ObjectsTyped, RestTyped, GemBuffers, Stages

(* The calls that leave the objects and the kernel's framebuffers alone. *)
Call ==
  \/ Commit
  \/ \E b \in Buffers : SetDisplayClientBuffer(b) \/ PrepareCursor(b)
  \/ \E m \in RequestedModes : SetDisplayMode(m)
  \/ \E status \in setup.power : SetDisplayPowerStatus(status)

(* A step is a call of the caller's, the first frame, a step of Apply, or   *)
(* no step.                                                                *)
LEMMA NextCases ==
  ASSUME [Next]_vars
  PROVE  \/ (Call \/ PushFirstFrame \/ Apply) /\ UNCHANGED setup
         \/ UNCHANGED vars
BY DEF Next, Call

(* Every step preserves the types of the objects and the ownership. *)
LEMMA NextObjects ==
  ASSUME Typed, OwnInv, [Next]_vars
  PROVE  ObjectsTyped' /\ OwnInv'
<1>0. ObjectsTyped
  BY TypedParts
<1>1. ASSUME UNCHANGED <<objVars, ptrVars, handles, fbs>>, screen' \in [Layers -> 0 .. MaxIds],
             req' = req \/ req' = [k \in Layers |-> [fb |-> Absent, crtc |-> FALSE]]
      PROVE  ObjectsTyped' /\ OwnInv'
  <2>1. OwnInv'
    BY <1>1 DEF OwnInv, FbsOwned, HandlesOwned, Objects, Registered, objVars
  <2>2. Absent \in 0 .. Absent
    BY DEF Absent, MaxIds
  <2>3. DOMAIN req' = Layers /\ \A k \in Layers : req'[k] \in [fb : 0 .. Absent, crtc : BOOLEAN]
    <3>1. CASE req' = req
      BY <1>0, <3>1 DEF ObjectsTyped
    <3>2. CASE req' = [k \in Layers |-> [fb |-> Absent, crtc |-> FALSE]]
      BY <2>2, <3>2
    <3>3. QED
      BY <1>1, <3>1, <3>2
  <2>4. ObjectsTyped'
    BY <1>0, <1>1, <2>3 DEF ObjectsTyped, objVars, ptrVars
  <2>5. QED
    BY <2>1, <2>4
<1>2. screen \in [Layers -> 0 .. MaxIds]
  BY <1>0 DEF ObjectsTyped
<1>3. CASE UNCHANGED vars
  BY <1>1, <1>2, <1>3 DEF vars, kernelVars
<1>4. CASE Call
  BY <1>1, <1>2, <1>4
     DEF Call, Commit, SetDisplayClientBuffer, PrepareCursor, SetDisplayMode,
         SetDisplayPowerStatus, kernelVars
<1>5. CASE PushFirstFrame
  BY <1>1, <1>2, <1>5 DEF PushFirstFrame, kernelVars
<1>6. CASE ApplyRefused \/ ApplyCursorDone \/ AtomicCommitFails
  BY <1>1, <1>2, <1>6 DEF ApplyRefused, ApplyCursorDone, AtomicCommitFails, kernelVars
<1>7. CASE ApplyPlane
  BY <1>7, AppliedFacts DEF ApplyPlane, Layers
<1>8. CASE ApplyCursor
  BY <1>8, AppliedFacts DEF ApplyCursor, Layers
<1>9. CASE AtomicCommit
  <2>1. screen' = [k \in Layers |-> IF req[k].fb = Absent THEN screen[k] ELSE req[k].fb]
    BY <1>9 DEF AtomicCommit
  <2>2. \A k \in Layers : req[k].fb # Absent => req[k].fb \in 0 .. MaxIds
    BY <1>0 DEF ObjectsTyped, Absent, MaxIds
  <2>3. screen' \in [Layers -> 0 .. MaxIds]
    BY <1>2, <2>1, <2>2
  <2>4. QED
    BY <1>1, <1>9, <2>3 DEF AtomicCommit
<1>10. CASE Release
  BY <1>10, LetGoFacts DEF Release, Layers
<1>11. CASE ReleaseCursor
  BY <1>11, LetGoFacts DEF ReleaseCursor, Layers
<1>12. QED
  BY <1>3, <1>4, <1>5, <1>6, <1>7, <1>8, <1>9, <1>10, <1>11, NextCases DEF Apply

(* Answer takes at most one fence from the queue. *)
LEMMA AnswerFacts ==
  ASSUME RestTyped, Answer
  PROVE  /\ fence' \in 0 .. NoFence
         /\ releaseFences' \in Seq(0 .. (FenceRing - 1))
<1>1. CASE firstFrame
  BY <1>1 DEF Answer, RestTyped
<1>2. CASE ~firstFrame /\ releaseFences = <<>>
  BY <1>2 DEF Answer, RestTyped, NoFence, FenceRing
<1>3. CASE ~firstFrame /\ releaseFences # <<>>
  <2>1. Head(releaseFences) \in 0 .. (FenceRing - 1) /\ Tail(releaseFences) \in Seq(0 .. (FenceRing - 1))
    <3>1. ASSUME NEW S, NEW q \in Seq(S), q # <<>> PROVE Head(q) \in S /\ Tail(q) \in Seq(S)
      BY <3>1
    <3>2. QED
      BY <1>3, <3>1 DEF RestTyped
  <2>2. fence' = Head(releaseFences) /\ releaseFences' = Tail(releaseFences)
    BY <1>3 DEF Answer
  <2>3. \A n \in 0 .. (FenceRing - 1) : n \in 0 .. NoFence
    BY DEF NoFence, FenceRing
  <2>4. QED
    BY <2>1, <2>2, <2>3
<1>4. QED
  BY <1>1, <1>2, <1>3

(* Every step preserves the other types. *)
LEMMA NextRest ==
  ASSUME Typed, [Next]_vars
  PROVE  RestTyped'
<1>0. RestTyped
  BY TypedParts
<1>1. CASE UNCHANGED vars
  BY <1>0, <1>1 DEF vars, inputVars, modeVars, fenceVars, RestTyped, CursorPlanes, RequestedModes
<1>2. ASSUME UNCHANGED setup
      PROVE  CursorPlanes' = CursorPlanes /\ RequestedModes' = RequestedModes
  BY <1>2 DEF CursorPlanes, RequestedModes
<1>3. ASSUME NEW b \in Buffers, SetDisplayClientBuffer(b) \/ PrepareCursor(b), UNCHANGED setup
      PROVE  RestTyped'
  <2>1. layerBuffer' \in [Layers -> AllBuffers]
    BY <1>0, <1>3 DEF SetDisplayClientBuffer, PrepareCursor, RestTyped, AllBuffers
  <2>2. QED
    BY <1>0, <1>2, <1>3, <2>1
       DEF SetDisplayClientBuffer, PrepareCursor, RestTyped, modeVars, fenceVars
<1>4. ASSUME NEW m \in RequestedModes, SetDisplayMode(m), UNCHANGED setup PROVE RestTyped'
  BY <1>0, <1>2, <1>4 DEF SetDisplayMode, RestTyped, inputVars, fenceVars
<1>5. ASSUME NEW status \in setup.power, SetDisplayPowerStatus(status), UNCHANGED setup
      PROVE  RestTyped'
  <2>1. status \in PowerStates
    BY <1>0, CommitAssumption DEF RestTyped
  <2>2. mDpmsState' \in PowerStates /\ kernelActive' \in BOOLEAN
    BY <1>0, <1>5, <2>1 DEF SetDisplayPowerStatus, SetDpmsState, RestTyped
  <2>3. QED
    BY <1>0, <1>2, <1>5, <2>2 DEF SetDisplayPowerStatus, RestTyped, inputVars, fenceVars
<1>6. ASSUME Commit, UNCHANGED setup PROVE RestTyped'
  BY <1>0, <1>2, <1>6 DEF Commit, RestTyped, inputVars, modeVars, fenceVars, Stages
<1>7. ASSUME PushFirstFrame, UNCHANGED setup PROVE RestTyped'
  <2>1. layerBuffer' \in [Layers -> AllBuffers]
    BY <1>0, <1>7 DEF PushFirstFrame, RestTyped, AllBuffers
  <2>2. QED
    BY <1>0, <1>2, <1>7, <2>1 DEF PushFirstFrame, RestTyped, fenceVars, Stages
<1>8. ASSUME ApplyRefused \/ AtomicCommitFails, UNCHANGED setup PROVE RestTyped'
  <2>1. fence' \in 0 .. NoFence /\ releaseFences' \in Seq(0 .. (FenceRing - 1))
    BY <1>0, <1>8, AnswerFacts DEF ApplyRefused, AtomicCommitFails
  <2>2. QED
    BY <1>0, <1>2, <1>8, <2>1
       DEF ApplyRefused, AtomicCommitFails, RestTyped, inputVars, modeVars, Stages
<1>9. CursorPlanes \in Nat
  BY <1>0, CommitAssumption DEF CursorPlanes, RestTyped
<1>10. ASSUME ApplyPlane, UNCHANGED setup PROVE RestTyped'
  BY <1>0, <1>2, <1>9, <1>10
     DEF ApplyPlane, RestTyped, inputVars, modeVars, fenceVars, Stages
<1>11. ASSUME ApplyCursor, UNCHANGED setup PROVE RestTyped'
  <2>1. plane' \in 0 .. CursorPlanes
    BY <1>0, <1>9, <1>11 DEF ApplyCursor, RestTyped
  <2>2. isAnimationEnd' \in BOOLEAN
    BY <1>11 DEF ApplyCursor, CheckbootCompleted
  <2>3. QED
    BY <1>0, <1>2, <1>11, <2>1, <2>2
       DEF ApplyCursor, RestTyped, inputVars, modeVars, fenceVars
<1>12. ASSUME ApplyCursorDone, UNCHANGED setup PROVE RestTyped'
  <2>1. isAnimationEnd' \in BOOLEAN
    BY <1>12 DEF ApplyCursorDone, CheckbootCompleted
  <2>2. QED
    BY <1>0, <1>2, <1>12, <2>1
       DEF ApplyCursorDone, RestTyped, inputVars, modeVars, fenceVars, Stages
<1>13. ASSUME AtomicCommit, UNCHANGED setup PROVE RestTyped'
  <2>1. /\ kernelMode' \in {NoMode} \cup Modes /\ kernelActive' \in BOOLEAN
        /\ UNCHANGED mNeedModeSet
    BY <1>0, <1>13 DEF AtomicCommit, UpdateMode, ModeIsSet, RestTyped, BlobAnswers
  <2>2. NextFence \in 0 .. (FenceRing - 1)
    BY <1>0 DEF NextFence, RestTyped, FenceRing
  <2>3. releaseFences' \in Seq(0 .. (FenceRing - 1)) /\ outFence' \in 0 .. (FenceRing - 1)
    BY <1>0, <1>13, <2>2 DEF AtomicCommit, RestTyped
  <2>4. cursorFences' \in 0 .. MaxCursorFences
    <3>1. ASSUME NEW a \in Nat, NEW b \in Nat PROVE Min({a, b}) \in {a, b} /\ Min({a, b}) <= b
      <4>1. \E x \in {a, b} : \A y \in {a, b} : x =< y
        OBVIOUS
      <4>2. QED
        BY <4>1 DEF Min
    <3>2. cursorFences + 1 \in Nat /\ MaxCursorFences \in Nat
      BY <1>0, CommitAssumption DEF RestTyped
    <3>3. Min({cursorFences + 1, MaxCursorFences}) \in 0 .. MaxCursorFences
      BY <3>1, <3>2
    <3>4. QED
      BY <1>0, <1>13, <3>3 DEF AtomicCommit, RestTyped
  <2>5. QED
    BY <1>0, <1>2, <1>13, <2>1, <2>3, <2>4 DEF AtomicCommit, RestTyped, inputVars, Stages
<1>14. ASSUME Release, UNCHANGED setup PROVE RestTyped'
  BY <1>0, <1>2, <1>14 DEF Release, RestTyped, inputVars, modeVars, fenceVars, Stages
<1>15. ASSUME ReleaseCursor, UNCHANGED setup PROVE RestTyped'
  <2>1. fence' \in 0 .. NoFence /\ releaseFences' \in Seq(0 .. (FenceRing - 1))
    BY <1>0, <1>15, AnswerFacts DEF ReleaseCursor
  <2>2. QED
    BY <1>0, <1>2, <1>15, <2>1 DEF ReleaseCursor, RestTyped, inputVars, modeVars, Stages
<1>16. QED
  BY <1>1, <1>3, <1>4, <1>5, <1>6, <1>7, <1>8, <1>10, <1>11, <1>12, <1>13, <1>14, <1>15,
     NextCases DEF Call, Apply

-----------------------------------------------------------------------------
(* From the first frame on a mode set is pending for good, and a mode was  *)
(* chosen.                                                                 *)
ModeInv ==
  /\ pc # "off" => mNeedModeSet /\ mActiveModeId # NoMode
  /\ ModeApplied
  /\ ReportedOnIsLit

(* Every step preserves it.                                                *)
LEMMA NextMode ==
  ASSUME RestTyped, ModeInv, [Next]_vars
  PROVE  ModeInv'
<1>0. mNeedModeSet \in BOOLEAN /\ kernelActive \in BOOLEAN
  BY DEF RestTyped
<1>1. CASE UNCHANGED vars
  BY <1>1 DEF vars, modeVars, ModeInv, ModeApplied, ReportedOnIsLit, Faults
<1>2. CASE Call \/ PushFirstFrame
  <2>1. CASE \E status \in setup.power : SetDisplayPowerStatus(status)
    <3>1. /\ UNCHANGED <<pc, mNeedModeSet, mActiveModeId, kernelMode>> /\ pc = "rest"
          /\ \/ UNCHANGED <<mDpmsState, kernelActive>>
             \/ kernelActive' = (kernelMode # NoMode /\ mDpmsState' = "ON")
      BY <2>1 DEF SetDisplayPowerStatus, SetDpmsState
    <3>2. QED
      BY <1>0, <3>1 DEF ModeInv, ModeApplied, ReportedOnIsLit
  <2>2. CASE \E m \in RequestedModes : SetDisplayMode(m)
    <3>1. /\ pc = "rest" /\ UNCHANGED <<pc, kernelMode, kernelActive, mDpmsState>>
          /\ mNeedModeSet => mNeedModeSet'
          /\ mActiveModeId' \in RequestedModes
      BY <1>0, <2>2 DEF SetDisplayMode
    <3>2. mActiveModeId' # NoMode
      BY <3>1, CommitAssumption DEF RestTyped, RequestedModes, NoMode
    <3>3. QED
      BY <3>1, <3>2 DEF ModeInv, ModeApplied, ReportedOnIsLit
  <2>3. CASE PushFirstFrame
    BY <2>3, CommitAssumption DEF PushFirstFrame, ModeInv, ModeApplied, ReportedOnIsLit, NoMode
  <2>4. CASE Commit \/ \E b \in Buffers : SetDisplayClientBuffer(b) \/ PrepareCursor(b)
    BY <2>4 DEF Commit, SetDisplayClientBuffer, PrepareCursor, modeVars,
                ModeInv, ModeApplied, ReportedOnIsLit
  <2>5. QED
    BY <1>2, <2>1, <2>2, <2>3, <2>4 DEF Call
<1>3. CASE AtomicCommit
  <2>1. PICK blob \in BlobAnswers : Acceptable(blob) /\ UpdateMode(blob)
    BY <1>3 DEF AtomicCommit
  <2>2. /\ pc = "commit" /\ pc' = "release" /\ UNCHANGED <<mActiveModeId, mDpmsState>>
        /\ UNCHANGED mNeedModeSet /\ kernelActive'
        /\ kernelMode' = IF ModeIsSet(blob) THEN mActiveModeId ELSE kernelMode
    BY <1>0, <1>3, <2>1 DEF AtomicCommit, Acceptable, UpdateMode
  <2>3. "blob" \notin Faults /\ mActiveModeId \in Modes => kernelMode' = mActiveModeId
    BY <2>1, <2>2 DEF ModeInv, ModeIsSet, BlobAnswers
  <2>4. Faults' = Faults
    BY DEF Faults, Next, vars
  <2>5. ModeApplied' /\ ReportedOnIsLit'
    BY <2>2, <2>3, <2>4 DEF ModeInv, ModeApplied, ReportedOnIsLit
  <2>6. QED
    BY <2>2, <2>5 DEF ModeInv
<1>4. ASSUME UNCHANGED modeVars, pc' # "release", pc # "off" PROVE ModeInv'
  BY <1>4 DEF modeVars, ModeInv, ModeApplied, ReportedOnIsLit
<1>5. CASE Apply /\ ~AtomicCommit
  BY <1>4, <1>5 DEF Apply, ApplyRefused, ApplyPlane, ApplyCursor, ApplyCursorDone,
                    AtomicCommitFails, Release, ReleaseCursor
<1>6. QED
  BY <1>1, <1>2, <1>3, <1>5, NextCases

(* The client layer's queue: between calls it holds at most the last       *)
(* out-fence, and a successful commit adds its own.                        *)
Idle == IF firstFrame THEN {<<>>} ELSE {<<>>, <<outFence>>}
Queued == IF firstFrame THEN {<<outFence>>}
          ELSE {<<outFence>>, <<(outFence + 2) % FenceRing, outFence>>}
FenceInv ==
  /\ pc = "off" => releaseFences = <<>>
  /\ FenceQueueShort
  /\ pc \in {"plane", "cursor", "commit"} => releaseFences \in Idle
  /\ pc \in {"release", "releaseCursor"} => releaseFences \in Queued

(* Appending to a sequence of one element gives one of two. *)
LEMMA AppendToOne ==
  ASSUME NEW a \in Nat, NEW b \in Nat
  PROVE  Append(<<a>>, b) = <<a, b>>
<1> DEFINE u == Append(<<a>>, b)
           v == <<a, b>>
<1>1. <<a>> \in Seq(Nat) /\ v \in Seq(Nat) /\ Len(v) = 2
  OBVIOUS
<1>2. u \in Seq(Nat) /\ Len(u) = 2 /\ u[1] = a /\ u[2] = b
  BY <1>1
<1>3. \A i \in 1 .. 2 : u[i] = v[i]
  BY <1>2
<1>4. Len(u) = Len(v) /\ \A i \in 1 .. Len(u) : u[i] = v[i]
  BY <1>1, <1>2, <1>3
<1> HIDE DEF u, v
<1>5. u = v
  BY <1>1, <1>2, <1>4, SeqEqual
<1>6. QED
  BY <1>5 DEF u, v

(* Every step preserves the invariant of the queue.                        *)
LEMMA NextFences ==
  ASSUME RestTyped, FenceInv, [Next]_vars
  PROVE  FenceInv'
<1>1. CASE UNCHANGED vars
  BY <1>1 DEF vars, fenceVars, FenceInv, FenceQueueShort, Idle, Queued
<1>2. CASE Commit
  BY <1>2 DEF Commit, fenceVars, FenceInv, FenceQueueShort, Idle, Queued
<1>3. CASE PushFirstFrame
  BY <1>3 DEF PushFirstFrame, fenceVars, FenceInv, FenceQueueShort, Idle, Queued
<1>4. CASE Call /\ ~Commit
  <2>1. UNCHANGED <<pc, firstFrame, outFence, releaseFences>>
    BY <1>4 DEF Call, SetDisplayClientBuffer, PrepareCursor, SetDisplayMode,
                SetDisplayPowerStatus, fenceVars
  <2>2. QED
    BY <2>1 DEF FenceInv, FenceQueueShort, Idle, Queued
<1>5. CASE ApplyPlane \/ ApplyCursor \/ ApplyCursorDone
  <2>1. /\ pc \in {"plane", "cursor"} /\ pc' \in {"cursor", "commit"}
        /\ UNCHANGED <<firstFrame, outFence, releaseFences>>
    BY <1>5 DEF ApplyPlane, ApplyCursor, ApplyCursorDone, fenceVars
  <2>2. QED
    BY <2>1 DEF FenceInv, FenceQueueShort, Idle
<1>6. CASE Release
  BY <1>6 DEF Release, fenceVars, FenceInv, FenceQueueShort, Idle, Queued
<1>7. ASSUME NEW q \in {<<>>, <<outFence>>}
      PROVE  q # <<>> => Tail(q) = <<>>
  <2>1. \A a : Tail(<<a>>) = <<>>
    OBVIOUS
  <2>2. QED
    BY <2>1
<1>8. CASE ApplyRefused \/ AtomicCommitFails
  <2>1. releaseFences \in Idle /\ pc' = "rest" /\ Answer /\ UNCHANGED outFence
    BY <1>8 DEF ApplyRefused, AtomicCommitFails, FenceInv
  <2>2. releaseFences' = <<>>
    BY <1>7, <2>1 DEF Answer, Idle
  <2>3. QED
    BY <2>1, <2>2 DEF FenceInv, FenceQueueShort
<1>9. CASE ReleaseCursor
  <2>1. releaseFences \in Queued /\ pc' = "rest" /\ Answer /\ UNCHANGED outFence
    BY <1>9 DEF ReleaseCursor, FenceInv
  <2>2. \A a, b : Tail(<<a, b>>) = <<b>> /\ <<a, b>> # <<>>
    OBVIOUS
  <2>3. releaseFences' \in {<<>>, <<outFence>>}
    BY <1>7, <2>1, <2>2 DEF Answer, Queued
  <2>4. QED
    BY <2>1, <2>3 DEF FenceInv, FenceQueueShort
<1>10. CASE AtomicCommit
  <2>1. /\ releaseFences \in Idle /\ pc' = "release" /\ UNCHANGED firstFrame
        /\ outFence' = NextFence /\ releaseFences' = Append(releaseFences, NextFence)
    BY <1>10 DEF AtomicCommit, FenceInv
  <2>2. (NextFence + 2) % FenceRing = outFence
    BY DEF RestTyped, NextFence, FenceRing
  <2>3. Append(<<>>, NextFence) = <<NextFence>> /\ Append(<<outFence>>, NextFence) = <<outFence, NextFence>>
    BY AppendToOne DEF RestTyped, NextFence, FenceRing
  <2>4. Queued' = IF firstFrame THEN {<<NextFence>>} ELSE {<<NextFence>>, <<outFence, NextFence>>}
    BY <2>1, <2>2 DEF Queued
  <2>5. Append(releaseFences, NextFence) \in Queued'
    BY <2>1, <2>3, <2>4 DEF Idle
  <2>6. QED
    BY <2>1, <2>5 DEF FenceInv, FenceQueueShort
<1>11. QED
  BY <1>1, <1>2, <1>3, <1>4, <1>5, <1>6, <1>8, <1>9, <1>10, NextCases DEF Apply

CoreInv == Typed /\ OwnInv /\ ModeInv /\ FenceInv

(* The invariant holds before the first frame ...                          *)
LEMMA InitCore == Init => CoreInv
<1>1. SUFFICES ASSUME Init PROVE CoreInv
  OBVIOUS
<1>2. DOMAIN handles = {} /\ DOMAIN fbs = {}
  BY <1>1 DEF Init
<1>3. Empty \in GemBuffers /\ Empty.fb = Null
  BY DEF Empty, GemBuffers, Null, MaxIds
<1>4. ObjectsTyped
  <2>1. Null \in 0 .. MaxIds /\ Absent \in 0 .. Absent
    BY DEF Null, MaxIds, Absent
  <2>2. \A k \in Layers : req[k] \in [fb : 0 .. Absent, crtc : BOOLEAN]
    BY <1>1, <2>1 DEF Init
  <2>3. QED
    BY <1>1, <1>2, <1>3, <2>1, <2>2 DEF Init, ObjectsTyped, Pointers
<1>5. RestTyped
  <2>1. setup \in Setups /\ CursorPlanes \in Nat /\ setup.dpms \in PowerStates
    BY <1>1, CommitAssumption DEF Init, CursorPlanes
  <2>2. <<>> \in Seq(0 .. (FenceRing - 1)) /\ 0 \in 0 .. (FenceRing - 1)
    BY DEF FenceRing
  <2>3. 0 \in 0 .. MaxCursorFences /\ NoFence \in 0 .. NoFence
    BY CommitAssumption DEF NoFence, FenceRing
  <2>4. /\ layerBuffer \in [Layers -> AllBuffers] /\ plane \in 0 .. CursorPlanes
    BY <1>1, <2>1 DEF Init, AllBuffers
  <2>5. /\ pc \in Stages /\ mActiveModeId = NoMode /\ kernelMode = NoMode /\ mDpmsState \in PowerStates
        /\ kernelActive = FALSE /\ cursorLayers = FALSE /\ isAnimationEnd = FALSE
        /\ firstFrame = FALSE /\ mNeedModeSet = FALSE
        /\ outFence = 0 /\ releaseFences = <<>> /\ cursorFences = 0 /\ fence = NoFence
    BY <1>1, <2>1 DEF Init, Stages
  <2>6. QED
    BY <2>1, <2>2, <2>3, <2>4, <2>5 DEF RestTyped
<1>6. OwnInv
  BY <1>1, <1>2, <1>3 DEF Init, OwnInv, FbsOwned, HandlesOwned, Registered
<1>7. ModeInv /\ FenceInv
  BY <1>1 DEF Init, ModeInv, ModeApplied, ReportedOnIsLit, FenceInv, FenceQueueShort
<1>8. QED
  BY <1>4, <1>5, <1>6, <1>7, TypedParts DEF CoreInv

(* ... is preserved by every step ...                                      *)
LEMMA NextCore ==
  ASSUME CoreInv, [Next]_vars
  PROVE  CoreInv'
<1>1. Typed /\ RestTyped
  BY TypedParts DEF CoreInv
<1>2. ObjectsTyped' /\ OwnInv' /\ RestTyped'
  BY <1>1, NextObjects, NextRest DEF CoreInv
<1>3. Typed'
  BY <1>2 DEF Typed, TypeOK, ObjectsTyped, RestTyped, GemBuffers, Stages
<1>4. ModeInv' /\ FenceInv'
  BY <1>1, NextMode, NextFences DEF CoreInv
<1>5. QED
  BY <1>2, <1>3, <1>4 DEF CoreInv

(* ... and so always holds.                                                *)
LEMMA CoreInvariant == Spec => []CoreInv
<1>1. CoreInv /\ [Next]_vars => CoreInv'
  BY NextCore
<1>2. QED
  BY <1>1, InitCore, PTL DEF Spec

(* Whatever fails, every id the code records is one the kernel can have    *)
(* issued: the four DrmGemBuffer objects never exhaust the ids.            *)
THEOREM TypeCorrect == Spec => []TypeOK
<1>1. CoreInv => TypeOK
  BY DEF CoreInv, Typed
<1>2. QED
  BY <1>1, CoreInvariant, PTL

(* Whatever call fails at whatever stage of Apply, a registered            *)
(* framebuffer is recorded by a live DrmGemBuffer.                         *)
THEOREM FbsOwnedAlways == Spec => []FbsOwned
<1>1. CoreInv => FbsOwned
  BY DEF CoreInv, OwnInv
<1>2. QED
  BY <1>1, CoreInvariant, PTL

(* The same of an open GEM handle, which two objects may share. *)
THEOREM HandlesOwnedAlways == Spec => []HandlesOwned
<1>1. CoreInv => HandlesOwned
  BY DEF CoreInv, OwnInv
<1>2. QED
  BY <1>1, CoreInvariant, PTL

(* After any history of mode and power requests, and whichever calls fail, *)
(* a successful commit leaves the CRTC running: in the mode asked for last *)
(* if the connector has it and UpdateMode could make its blob, and with    *)
(* the mode still to be set otherwise.                                     *)
THEOREM ModeAppliedAlways == Spec => []ModeApplied
<1>1. CoreInv => ModeApplied
  BY DEF CoreInv, ModeInv
<1>2. QED
  BY <1>1, CoreInvariant, PTL

(* A display that GetDisplayPowerStatus reports to be on, and that has a   *)
(* mode, runs, although SetDpmsState's result is dropped.                  *)
THEOREM ReportedOnIsLitAlways == Spec => []ReportedOnIsLit
<1>1. CoreInv => ReportedOnIsLit
  BY DEF CoreInv, ModeInv
<1>2. QED
  BY <1>1, CoreInvariant, PTL

(* After any number of frames, failed ones among them, the client layer's  *)
(* queue holds at most the out-fence of the last commit.                   *)
THEOREM FenceQueueShortAlways == Spec => []FenceQueueShort
<1>1. CoreInv => FenceQueueShort
  BY DEF CoreInv, FenceInv
<1>2. QED
  BY <1>1, CoreInvariant, PTL

-----------------------------------------------------------------------------
(***************************************************************************)
(* A kernel that accepts every call.  Layer k is Taken when this Apply has *)
(* wrapped its buffer, and Pending until its last object is released.      *)
(***************************************************************************)
Taken(k) ==
  /\ pc \in {"cursor", "commit", "release", "releaseCursor"}
  /\ k = "cursor" => plane # 0
Pending(k) == Taken(k) /\ (k = "client" => pc # "releaseCursor")

(* The new object is in the request and then on the screen. *)
HeldNew(k) ==
  /\ mCurrentGemBuffer[k] = "current"
  /\ mCurrentBuffer[k].fb # Null /\ fbs[mCurrentBuffer[k].fb] = layerBuffer[k]
  /\ pc \in {"cursor", "commit"} => req[k].fb = mCurrentBuffer[k].fb /\ req[k].crtc = TRUE
  /\ pc \in {"release", "releaseCursor"} => screen[k] = mCurrentBuffer[k].fb
  /\ Pending(k) => mLastGemBuffer[k] # "current"

(* Between frames the layer's one framebuffer is the one on the screen. *)
Settled(k) ==
  /\ lastBuffer[k].fb = Null /\ screen[k] = mCurrentBuffer[k].fb
  /\ mLastGemBuffer[k] = mCurrentGemBuffer[k]
  /\ mLastGemBuffer[k] = "null" => mCurrentBuffer[k].fb = Null

(* In between, the object to be released is the last one, if any. *)
Between(k) ==
  /\ mLastGemBuffer[k] \in {"null", "last"}
  /\ mLastGemBuffer[k] = "null" => lastBuffer[k].fb = Null
  /\ pc \in {"cursor", "commit"} => screen[k] = lastBuffer[k].fb

FramesInv ==
  /\ \A k \in Layers : Taken(k) => HeldNew(k)
  /\ pc \in {"plane", "cursor", "commit"} /\ ~Taken("cursor") => req["cursor"].fb = Absent
  /\ IF Pending("client") THEN Between("client") ELSE Settled("client")
  /\ pc \in {"commit", "release", "releaseCursor"} /\ isAnimationEnd /\ cursorLayers
       => plane = CursorPlanes

(* The fence of the frame before waits in the queue. *)
LagInv ==
  /\ pc = "rest" => releaseFences = <<outFence>>
  /\ ~firstFrame /\ pc \in {"plane", "cursor", "commit"} => releaseFences = <<outFence>>
  /\ ~firstFrame /\ pc \in {"release", "releaseCursor"}
       => releaseFences = <<(outFence + 2) % FenceRing, outFence>>

(* With one cursor plane the cursor layer is treated as the client layer:  *)
(* once wrapped, its buffer is wrapped in every frame.                     *)
CursorInv ==
  /\ ~dangling
  /\ IF Taken("cursor") THEN Between("cursor") ELSE Settled("cursor")
  /\ mCurrentGemBuffer["cursor"] = "current" =>
       cursorLayers /\ isAnimationEnd /\ CursorPlanes # 0

LayersInv == FramesInv /\ (OneCursorPlane => CursorInv)
AcceptInv == CoreInv /\ (Accepting => LayersInv /\ LagInv)

(* Such a kernel fails none of the calls. *)
LEMMA NoFailures ==
  ASSUME Accepting
  PROVE  /\ Failures = {"none"} /\ BlobAnswers = {TRUE}
         /\ "prop" \notin Faults /\ "commit" \notin Faults
<1>1. "blob" \notin Faults /\ "prop" \notin Faults /\ "commit" \notin Faults /\ "import" \notin Faults /\ "addfb" \notin Faults
  BY DEF Accepting
<1>2. QED
  BY <1>1 DEF Failures, BlobAnswers

(* Nor does it find the request inconsistent. *)
LEMMA RequestAcceptable ==
  ASSUME CoreInv, Accepting, FramesInv, pc = "commit"
  PROVE  Acceptable(TRUE)
<1>1. Taken("client") /\ HeldNew("client")
  BY DEF FramesInv, Taken, Layers
<1>2. req["client"].fb # Null /\ req["client"].crtc = TRUE
  BY <1>1 DEF HeldNew
<1>3. req["cursor"].fb = Absent \/ (req["cursor"].fb # Null /\ req["cursor"].crtc = TRUE)
  BY DEF FramesInv, HeldNew, Layers
<1>4. ModeIsSet(TRUE)
  <2>1. mActiveModeId \in Modes
    BY TypedParts DEF CoreInv, RestTyped, ModeInv, Accepting
  <2>2. QED
    BY <2>1 DEF CoreInv, ModeInv, ModeIsSet
<1>5. QED
  BY <1>2, <1>3, <1>4 DEF Acceptable, Layers

(* The calls and the first frame start from layers at rest and leave them  *)
(* so.                                                                     *)
LEMMA CallLayers ==
  ASSUME Typed, LayersInv, Call \/ PushFirstFrame, UNCHANGED setup
  PROVE  LayersInv'
<1>1. /\ pc \in {"off", "rest"} /\ pc' \in {"rest", "plane"}
      /\ UNCHANGED <<objVars, ptrVars, kernelVars, isAnimationEnd, dangling>>
      /\ cursorLayers => cursorLayers'
      /\ pc' = "plane" => req'["cursor"].fb = Absent
  BY DEF Call, PushFirstFrame, Commit, SetDisplayClientBuffer, PrepareCursor, SetDisplayMode,
         SetDisplayPowerStatus, inputVars, Layers
<1>2. \A k \in Layers : ~Taken(k) /\ ~Taken(k)'
  BY <1>1 DEF Taken
<1>3. UNCHANGED <<mCurrentBuffer, lastBuffer, mLastGemBuffer, mCurrentGemBuffer, screen>>
  BY <1>1 DEF objVars, ptrVars, kernelVars
<1>4. Settled("client") /\ (OneCursorPlane => Settled("cursor"))
  BY <1>2 DEF LayersInv, FramesInv, CursorInv, Pending, Layers
<1>5. Settled("client")' /\ (OneCursorPlane => Settled("cursor")')
  BY <1>3, <1>4 DEF Settled
<1>6. FramesInv'
  BY <1>1, <1>2, <1>5 DEF FramesInv, Pending, Layers
<1>7. (OneCursorPlane' <=> OneCursorPlane) /\ CursorPlanes' = CursorPlanes
  BY DEF OneCursorPlane, CursorPlanes
<1>8. OneCursorPlane => CursorInv'
  BY <1>1, <1>2, <1>3, <1>5, <1>7 DEF LayersInv, CursorInv, Layers
<1>9. QED
  BY <1>6, <1>7, <1>8 DEF LayersInv

(* Wrapping a buffer of layer k leaves what the other layer shows alone,   *)
(* and from rest takes nothing off layer k's plane.                        *)
LEMMA WrapLayers ==
  ASSUME Typed, OwnInv, NEW k \in Layers, NEW nf \in 0 .. MaxIds, NEW nh \in 0 .. MaxIds,
         Wrapped(k, nf, nh), nf \notin DOMAIN fbs
  PROVE  /\ \A j \in Layers : j # k =>
              /\ mCurrentBuffer[j].fb # Null => fbs'[mCurrentBuffer[j].fb] = fbs[mCurrentBuffer[j].fb]
              /\ screen[j] \in {mCurrentBuffer[j].fb, lastBuffer[j].fb} => screen'[j] = screen[j]
         /\ Settled(k) =>
              /\ mLastGemBuffer'[k] \in {"null", "last"}
              /\ mLastGemBuffer'[k] = "null" => lastBuffer'[k].fb = Null
              /\ screen'[k] = lastBuffer'[k].fb
<1>1. ASSUME NEW j \in Layers, j # k
      PROVE  /\ mCurrentBuffer[j].fb # Null => fbs'[mCurrentBuffer[j].fb] = fbs[mCurrentBuffer[j].fb]
             /\ screen[j] \in {mCurrentBuffer[j].fb, lastBuffer[j].fb} => screen'[j] = screen[j]
  <2>1. mCurrentBuffer[j].fb # lastBuffer[k].fb \/ lastBuffer[k].fb = Null
    BY <1>1 DEF OwnInv, Registered
  <2>2. lastBuffer[j].fb # lastBuffer[k].fb \/ lastBuffer[k].fb = Null
    BY <1>1 DEF OwnInv, Registered
  <2>3. mCurrentBuffer[j].fb # Null =>
          mCurrentBuffer[j].fb \in DOMAIN fbs' /\ mCurrentBuffer[j].fb # nf
    BY <1>1, <2>1 DEF OwnInv, Registered, Wrapped
  <2>4. QED
    BY <2>1, <2>2, <2>3 DEF Wrapped
<1>2. ASSUME Settled(k)
      PROVE  /\ mLastGemBuffer'[k] \in {"null", "last"}
             /\ mLastGemBuffer'[k] = "null" => lastBuffer'[k].fb = Null
             /\ screen'[k] = lastBuffer'[k].fb
  <2>1. mLastGemBuffer[k] \in {"null", "current"}
    BY <1>2 DEF Settled, Typed, TypeOK
  <2>2. mLastGemBuffer'[k] = IF mLastGemBuffer[k] = "current" THEN "last" ELSE "null"
    BY <2>1 DEF Wrapped, Shifted
  <2>3. screen'[k] = screen[k] /\ lastBuffer'[k] = mCurrentBuffer[k]
    BY <1>2 DEF Wrapped, Settled
  <2>4. QED
    BY <1>2, <2>1, <2>2, <2>3 DEF Settled
<1>3. QED
  BY <1>1, <1>2

(* When nothing fails, the new object is valid and goes into the request. *)
LEMMA AppliedFully ==
  ASSUME Typed, OwnInv, NEW k \in Layers, ApplyTo(k, "none")
  PROVE  \E nf \in 0 .. MaxIds, nh \in 0 .. MaxIds :
           /\ Wrapped(k, nf, nh) /\ nf \notin DOMAIN fbs /\ nf # Null
           /\ req'[k].fb = nf /\ req'[k].crtc = TRUE
           /\ \A j \in Layers : j # k => req'[j] = req[j]
<1>1. Applied(k, "none")
  BY AppliedFacts
<1>2. PICK nf \in 0 .. MaxIds, nh \in 0 .. MaxIds :
        /\ Wrapped(k, nf, nh) /\ nf \notin DOMAIN fbs
        /\ "none" \notin {"import", "addfb"} => nf # Null
        /\ "none" # "import" => nh # Null
        /\ req'[k] = IF nh = Null \/ "none" = "fbid" THEN req[k]
                     ELSE [fb |-> nf, crtc |-> "none" # "crtcid"]
        /\ \A j \in Layers : j # k => req'[j] = req[j]
  BY <1>1 DEF Applied
<1>3. nf # Null /\ nh # Null /\ "none" # "crtcid"
  BY <1>2
<1>4. req'[k] = [fb |-> nf, crtc |-> TRUE]
  <2>1. ("none" # "crtcid") = TRUE
    OBVIOUS
  <2>2. req'[k] = [fb |-> nf, crtc |-> "none" # "crtcid"]
    BY <1>2, <1>3
  <2>3. QED
    BY <2>1, <2>2, Zenon
<1>5. QED
  BY <1>2, <1>3, <1>4

(* ApplyPlane takes the client layer in. *)
LEMMA PlaneLayers ==
  ASSUME CoreInv, Accepting, LayersInv, ApplyPlane, UNCHANGED setup
  PROVE  LayersInv'
<1>1. /\ pc = "plane" /\ pc' = "cursor" /\ plane' = 0
      /\ UNCHANGED <<layerBuffer, cursorLayers, isAnimationEnd, dangling>>
      /\ ApplyTo("client", "none")
  BY NoFailures DEF ApplyPlane, inputVars
<1>2. PICK nf \in 0 .. MaxIds, nh \in 0 .. MaxIds :
        /\ Wrapped("client", nf, nh) /\ nf \notin DOMAIN fbs /\ nf # Null
        /\ req'["client"].fb = nf /\ req'["client"].crtc = TRUE
        /\ \A j \in Layers : j # "client" => req'[j] = req[j]
  BY <1>1, AppliedFully DEF CoreInv, Layers
<1>3. ~Taken("client") /\ ~Taken("cursor") /\ Taken("client")' /\ ~Taken("cursor")' /\ Pending("client")'
  BY <1>1 DEF Taken, Pending
<1>4. Settled("client") /\ (OneCursorPlane => Settled("cursor")) /\ req["cursor"].fb = Absent
  BY <1>1, <1>3 DEF LayersInv, FramesInv, CursorInv, Pending
<1>5. /\ mLastGemBuffer'["client"] \in {"null", "last"}
      /\ mLastGemBuffer'["client"] = "null" => lastBuffer'["client"].fb = Null
      /\ screen'["client"] = lastBuffer'["client"].fb
  BY <1>2, <1>4, WrapLayers DEF CoreInv, Layers
<1>6. Between("client")'
  BY <1>5 DEF Between
<1>7. HeldNew("client")'
  BY <1>1, <1>2, <1>5 DEF HeldNew, Wrapped
<1>8. FramesInv'
  BY <1>1, <1>2, <1>3, <1>4, <1>6, <1>7 DEF FramesInv, Layers
<1>9. (OneCursorPlane' <=> OneCursorPlane) /\ CursorPlanes' = CursorPlanes
  BY DEF OneCursorPlane, CursorPlanes
<1>10. ASSUME OneCursorPlane PROVE CursorInv'
  <2>1. /\ mCurrentBuffer'["cursor"] = mCurrentBuffer["cursor"]
        /\ lastBuffer'["cursor"] = lastBuffer["cursor"]
        /\ mLastGemBuffer'["cursor"] = mLastGemBuffer["cursor"]
        /\ mCurrentGemBuffer'["cursor"] = mCurrentGemBuffer["cursor"]
    BY <1>2 DEF Wrapped, Layers
  <2>2. screen'["cursor"] = screen["cursor"]
    BY <1>2, <1>4, <1>10, WrapLayers DEF CoreInv, Layers, Settled
  <2>3. Settled("cursor")'
    BY <1>4, <1>10, <2>1, <2>2 DEF Settled
  <2>4. QED
    BY <1>1, <1>3, <1>9, <1>10, <2>1, <2>3 DEF LayersInv, CursorInv
<1>11. QED
  BY <1>8, <1>9, <1>10 DEF LayersInv

(* ApplyCursor takes the cursor layer in, once per cursor plane. *)
LEMMA CursorLayersStep ==
  ASSUME CoreInv, Accepting, LayersInv, ApplyCursor, UNCHANGED setup
  PROVE  LayersInv'
<1>0. plane \in 0 .. CursorPlanes /\ CursorPlanes \in Nat
  BY CommitAssumption DEF CoreInv, Typed, TypeOK, CursorPlanes
<1>1. /\ pc = "cursor" /\ pc' = "cursor" /\ plane' = plane + 1 /\ plane < CursorPlanes
      /\ cursorLayers /\ isAnimationEnd'
      /\ UNCHANGED <<layerBuffer, cursorLayers, dangling>>
      /\ ApplyTo("cursor", "none")
  BY NoFailures DEF ApplyCursor, inputVars, CheckbootCompleted, Failed
<1>2. PICK nf \in 0 .. MaxIds, nh \in 0 .. MaxIds :
        /\ Wrapped("cursor", nf, nh) /\ nf \notin DOMAIN fbs /\ nf # Null
        /\ req'["cursor"].fb = nf /\ req'["cursor"].crtc = TRUE
        /\ \A j \in Layers : j # "cursor" => req'[j] = req[j]
  BY <1>1, AppliedFully DEF CoreInv, Layers
<1>3. /\ Taken("client") /\ Taken("client")' /\ Taken("cursor")'
      /\ Pending("client") /\ Pending("client")'
  BY <1>0, <1>1 DEF Taken, Pending
<1>4. HeldNew("client") /\ Between("client")
  BY <1>3 DEF LayersInv, FramesInv, Layers
<1>5. /\ mCurrentBuffer'["client"] = mCurrentBuffer["client"]
      /\ lastBuffer'["client"] = lastBuffer["client"]
      /\ mLastGemBuffer'["client"] = mLastGemBuffer["client"]
      /\ mCurrentGemBuffer'["client"] = mCurrentGemBuffer["client"]
  BY <1>2 DEF Wrapped, Layers
<1>6. /\ fbs'[mCurrentBuffer["client"].fb] = fbs[mCurrentBuffer["client"].fb]
      /\ screen'["client"] = screen["client"]
  <2>1. mCurrentBuffer["client"].fb # Null /\ screen["client"] = lastBuffer["client"].fb
    BY <1>1, <1>4 DEF HeldNew, Between
  <2>2. QED
    BY <1>2, <2>1, WrapLayers DEF CoreInv, Layers
<1>7. HeldNew("client")' /\ Between("client")'
  <2>1. req'["client"] = req["client"]
    BY <1>2 DEF Layers
  <2>2. Between("client")'
    BY <1>1, <1>4, <1>5, <1>6 DEF Between
  <2>3. HeldNew("client")'
    BY <1>1, <1>3, <1>4, <1>5, <1>6, <2>1 DEF HeldNew
  <2>4. QED
    BY <2>2, <2>3
<1>8. mLastGemBuffer'["cursor"] # "current"
  BY <1>2 DEF Wrapped, Shifted
<1>9. HeldNew("cursor")'
  BY <1>1, <1>2, <1>8 DEF HeldNew, Wrapped
<1>10. FramesInv'
  BY <1>1, <1>3, <1>7, <1>9 DEF FramesInv, Layers
<1>11. (OneCursorPlane' <=> OneCursorPlane) /\ CursorPlanes' = CursorPlanes
  BY DEF OneCursorPlane, CursorPlanes
<1>12. ASSUME OneCursorPlane PROVE CursorInv'
  <2>1. plane = 0 /\ CursorPlanes # 0
    BY <1>0, <1>1, <1>12 DEF OneCursorPlane
  <2>2. Settled("cursor")
    BY <1>12, <2>1 DEF LayersInv, CursorInv, Taken
  <2>3. Between("cursor")'
    BY <1>2, <2>2, WrapLayers DEF CoreInv, Layers, Between
  <2>4. QED
    BY <1>1, <1>3, <1>11, <1>12, <2>1, <2>3 DEF LayersInv, CursorInv
<1>13. QED
  BY <1>10, <1>11, <1>12 DEF LayersInv

(* A release on layer k leaves what the other layer shows alone, and what  *)
(* layer k shows unless the pointer names the current object.              *)
LEMMA ReleaseLayers ==
  ASSUME Typed, OwnInv, NEW k \in Layers, LetGo(k)
  PROVE  /\ \A j \in Layers : j # k =>
              /\ mCurrentBuffer'[j] = mCurrentBuffer[j] /\ lastBuffer'[j] = lastBuffer[j]
              /\ mLastGemBuffer'[j] = mLastGemBuffer[j]
              /\ mCurrentBuffer[j].fb # Null => fbs'[mCurrentBuffer[j].fb] = fbs[mCurrentBuffer[j].fb]
              /\ screen[j] = mCurrentBuffer[j].fb => screen'[j] = screen[j]
         /\ mLastGemBuffer[k] # "current" =>
              /\ mCurrentBuffer'[k] = mCurrentBuffer[k]
              /\ mCurrentBuffer[k].fb # Null => fbs'[mCurrentBuffer[k].fb] = fbs[mCurrentBuffer[k].fb]
              /\ screen[k] = mCurrentBuffer[k].fb => screen'[k] = screen[k]
         /\ mLastGemBuffer[k] = "last" => lastBuffer'[k].fb = Null
<1>1. \A j \in Layers : j # k =>
        /\ mCurrentBuffer'[j] = mCurrentBuffer[j] /\ lastBuffer'[j] = lastBuffer[j]
        /\ mLastGemBuffer'[j] = mLastGemBuffer[j]
  BY DEF LetGo
<1>2. Registered
  BY DEF OwnInv
<1>3. CASE mLastGemBuffer[k] \in {"null", "gone"}
  <2>1. UNCHANGED <<mCurrentBuffer, lastBuffer, fbs, screen>>
    BY <1>3 DEF LetGo, objVars, kernelVars
  <2>2. QED
    BY <1>1, <1>3, <2>1
<1>4. CASE mLastGemBuffer[k] = "current"
  <2>1. Freed(mCurrentBuffer[k], mCurrentBuffer'[k])
    BY <1>4 DEF LetGo
  <2>2. ASSUME NEW j \in Layers, j # k
        PROVE  /\ mCurrentBuffer[j].fb # Null => fbs'[mCurrentBuffer[j].fb] = fbs[mCurrentBuffer[j].fb]
               /\ screen[j] = mCurrentBuffer[j].fb => screen'[j] = screen[j]
    BY <1>2, <2>1, <2>2 DEF Freed, Registered
  <2>3. QED
    BY <1>1, <1>4, <2>2
<1>5. CASE mLastGemBuffer[k] = "last"
  <2>1. Freed(lastBuffer[k], lastBuffer'[k]) /\ UNCHANGED mCurrentBuffer
    BY <1>5 DEF LetGo
  <2>2. ASSUME NEW j \in Layers
        PROVE  /\ mCurrentBuffer[j].fb # Null => fbs'[mCurrentBuffer[j].fb] = fbs[mCurrentBuffer[j].fb]
               /\ screen[j] = mCurrentBuffer[j].fb => screen'[j] = screen[j]
    BY <1>2, <2>1, <2>2 DEF Freed, Registered
  <2>3. lastBuffer'[k].fb = Null
    BY <2>1 DEF Freed
  <2>4. QED
    BY <1>1, <2>1, <2>2, <2>3
<1>6. mLastGemBuffer[k] \in {"null", "current", "last", "gone"}
  BY DEF Typed, TypeOK, Pointers
<1>7. QED
  BY <1>3, <1>4, <1>5, <1>6

(* The loop over the cursor planes ends. *)
LEMMA DoneLayers ==
  ASSUME Typed, LayersInv, ApplyCursorDone, UNCHANGED setup
  PROVE  LayersInv'
<1>1. /\ pc = "cursor" /\ pc' = "commit"
      /\ isAnimationEnd => isAnimationEnd'
      /\ isAnimationEnd' /\ cursorLayers => plane = CursorPlanes
      /\ UNCHANGED <<layerBuffer, cursorLayers, plane, dangling, mCurrentBuffer, lastBuffer,
                     mLastGemBuffer, mCurrentGemBuffer, req, fbs, screen>>
  BY DEF ApplyCursorDone, CheckbootCompleted, inputVars, objVars, ptrVars, kernelVars
<1>2. (OneCursorPlane' <=> OneCursorPlane) /\ CursorPlanes' = CursorPlanes
  BY DEF OneCursorPlane, CursorPlanes
<1>3. \A k \in Layers : (Taken(k)' <=> Taken(k)) /\ (Pending(k)' <=> Pending(k))
  BY <1>1 DEF Taken, Pending
<1>4. \A k \in Layers : /\ HeldNew(k) => HeldNew(k)'
                        /\ Between(k) => Between(k)'
                        /\ Settled(k) => Settled(k)'
  BY <1>1, <1>3 DEF HeldNew, Between, Settled
<1>5. FramesInv'
  BY <1>1, <1>2, <1>3, <1>4 DEF LayersInv, FramesInv, Layers
<1>6. OneCursorPlane => CursorInv'
  BY <1>1, <1>2, <1>3, <1>4 DEF LayersInv, CursorInv, Layers
<1>7. QED
  BY <1>2, <1>5, <1>6 DEF LayersInv

(* The atomic commit puts the new objects on the screen. *)
LEMMA CommitLayers ==
  ASSUME Typed, LayersInv, AtomicCommit, UNCHANGED setup
  PROVE  LayersInv'
<1>1. /\ pc = "commit" /\ pc' = "release"
      /\ screen' = [k \in Layers |-> IF req[k].fb = Absent THEN screen[k] ELSE req[k].fb]
      /\ UNCHANGED <<layerBuffer, cursorLayers, isAnimationEnd, plane, dangling, mCurrentBuffer,
                     lastBuffer, mLastGemBuffer, mCurrentGemBuffer, req, fbs>>
  BY DEF AtomicCommit, inputVars, objVars, ptrVars
<1>2. (OneCursorPlane' <=> OneCursorPlane) /\ CursorPlanes' = CursorPlanes
  BY DEF OneCursorPlane, CursorPlanes
<1>3. \A k \in Layers : (Taken(k)' <=> Taken(k)) /\ (Pending(k)' <=> Pending(k))
  BY <1>1 DEF Taken, Pending
<1>4. ASSUME NEW k \in Layers, Taken(k) PROVE screen'[k] = mCurrentBuffer[k].fb
  <2>1. req[k].fb = mCurrentBuffer[k].fb
    BY <1>1, <1>4 DEF LayersInv, FramesInv, HeldNew
  <2>2. mCurrentBuffer[k].fb \in 0 .. MaxIds
    BY DEF Typed, TypeOK
  <2>3. req[k].fb # Absent
    BY <2>1, <2>2 DEF Absent, MaxIds
  <2>4. QED
    BY <1>1, <2>1, <2>3
<1>5. \A k \in Layers : Taken(k) /\ HeldNew(k) => HeldNew(k)'
  BY <1>1, <1>3, <1>4 DEF HeldNew
<1>6. \A k \in Layers : Between(k) => Between(k)'
  BY <1>1 DEF Between
<1>7. Taken("client") /\ Pending("client")
  BY <1>1 DEF Taken, Pending
<1>8. FramesInv'
  BY <1>1, <1>2, <1>3, <1>5, <1>6, <1>7 DEF LayersInv, FramesInv, Layers
<1>9. ASSUME ~Taken("cursor"), Settled("cursor") PROVE Settled("cursor")'
  <2>1. req["cursor"].fb = Absent
    BY <1>1, <1>9 DEF LayersInv, FramesInv
  <2>2. screen'["cursor"] = screen["cursor"]
    BY <1>1, <2>1 DEF Layers
  <2>3. QED
    BY <1>1, <1>9, <2>2 DEF Settled
<1>10. OneCursorPlane => CursorInv'
  BY <1>1, <1>2, <1>3, <1>6, <1>9 DEF LayersInv, CursorInv, Layers
<1>11. QED
  BY <1>2, <1>8, <1>10 DEF LayersInv

(* The client layer's last object is released. *)
LEMMA ReleaseClientLayers ==
  ASSUME CoreInv, LayersInv, Release, UNCHANGED setup
  PROVE  LayersInv'
<1>1. /\ pc = "release" /\ pc' = "releaseCursor" /\ ReleaseLast("client")
      /\ UNCHANGED <<layerBuffer, cursorLayers, isAnimationEnd, plane, mCurrentGemBuffer, req>>
  BY DEF Release, inputVars
<1>2. Typed /\ OwnInv /\ LetGo("client")
  BY <1>1, LetGoFacts DEF CoreInv, Layers
<1>3. (OneCursorPlane' <=> OneCursorPlane) /\ CursorPlanes' = CursorPlanes
  BY DEF OneCursorPlane, CursorPlanes
<1>4. /\ Taken("client") /\ Pending("client") /\ Taken("client")' /\ ~Pending("client")'
      /\ (Taken("cursor")' <=> Taken("cursor")) /\ (Pending("cursor")' <=> Pending("cursor"))
  BY <1>1 DEF Taken, Pending
<1>5. HeldNew("client") /\ Between("client")
  BY <1>4 DEF LayersInv, FramesInv, Layers
<1>6. /\ mLastGemBuffer["client"] \in {"null", "last"}
      /\ mLastGemBuffer["client"] = "null" => lastBuffer["client"].fb = Null
      /\ screen["client"] = mCurrentBuffer["client"].fb /\ mCurrentBuffer["client"].fb # Null
      /\ fbs[mCurrentBuffer["client"].fb] = layerBuffer["client"]
      /\ mCurrentGemBuffer["client"] = "current"
  BY <1>1, <1>5 DEF HeldNew, Between
<1>7. /\ mCurrentBuffer'["client"] = mCurrentBuffer["client"]
      /\ fbs'[mCurrentBuffer["client"].fb] = fbs[mCurrentBuffer["client"].fb]
      /\ screen'["client"] = screen["client"]
  BY <1>2, <1>6, ReleaseLayers DEF Layers
<1>8. lastBuffer'["client"].fb = Null
  <2>1. CASE mLastGemBuffer["client"] = "null"
    BY <1>2, <1>6, <2>1 DEF LetGo, objVars
  <2>2. CASE mLastGemBuffer["client"] = "last"
    BY <1>2, <2>2, ReleaseLayers DEF Layers
  <2>3. QED
    BY <1>6, <2>1, <2>2
<1>9. mLastGemBuffer'["client"] = "current" /\ mCurrentGemBuffer'["client"] = "current"
  BY <1>1, <1>2, <1>6 DEF LetGo
<1>10. Settled("client")' /\ HeldNew("client")'
  BY <1>1, <1>4, <1>6, <1>7, <1>8, <1>9 DEF Settled, HeldNew
<1>11. /\ mCurrentBuffer'["cursor"] = mCurrentBuffer["cursor"]
       /\ lastBuffer'["cursor"] = lastBuffer["cursor"]
       /\ mLastGemBuffer'["cursor"] = mLastGemBuffer["cursor"]
       /\ mCurrentBuffer["cursor"].fb # Null =>
            fbs'[mCurrentBuffer["cursor"].fb] = fbs[mCurrentBuffer["cursor"].fb]
       /\ screen["cursor"] = mCurrentBuffer["cursor"].fb => screen'["cursor"] = screen["cursor"]
  BY <1>2, ReleaseLayers DEF Layers
<1>12. HeldNew("cursor") => HeldNew("cursor")'
  BY <1>1, <1>4, <1>11 DEF HeldNew
<1>13. FramesInv'
  BY <1>1, <1>3, <1>4, <1>10, <1>12 DEF LayersInv, FramesInv, Layers
<1>14. (Between("cursor") => Between("cursor")') /\ (Settled("cursor") => Settled("cursor")')
  BY <1>1, <1>11 DEF Between, Settled
<1>15. UNCHANGED dangling
  BY <1>2, <1>6 DEF LetGo
<1>16. OneCursorPlane => CursorInv'
  BY <1>1, <1>3, <1>4, <1>14, <1>15 DEF LayersInv, CursorInv
<1>17. QED
  BY <1>3, <1>13, <1>16 DEF LayersInv

(* What is on the screen when Apply returns. *)
LEMMA ReleaseCursorShows ==
  ASSUME CoreInv, LayersInv, ReleaseCursor
  PROVE  /\ mCurrentBuffer'["client"] = mCurrentBuffer["client"]
         /\ screen'["client"] = mCurrentBuffer["client"].fb /\ mCurrentBuffer["client"].fb # Null
         /\ fbs'[mCurrentBuffer["client"].fb] = layerBuffer["client"]
         /\ Taken("cursor") =>
              /\ mCurrentBuffer'["cursor"] = mCurrentBuffer["cursor"]
              /\ screen'["cursor"] = mCurrentBuffer["cursor"].fb /\ mCurrentBuffer["cursor"].fb # Null
              /\ fbs'[mCurrentBuffer["cursor"].fb] = layerBuffer["cursor"]
<1>1. pc = "releaseCursor" /\ ReleaseLast("cursor") /\ UNCHANGED <<mCurrentGemBuffer, req>>
  BY DEF ReleaseCursor
<1>2. Typed /\ OwnInv /\ LetGo("cursor")
  BY <1>1, LetGoFacts DEF CoreInv, Layers
<1>3. Taken("client") /\ (Taken("cursor") => Pending("cursor"))
  BY <1>1 DEF Taken, Pending
<1>4. HeldNew("client") /\ (Taken("cursor") => HeldNew("cursor"))
  BY <1>3 DEF LayersInv, FramesInv, Layers
<1>5. /\ screen["client"] = mCurrentBuffer["client"].fb /\ mCurrentBuffer["client"].fb # Null
      /\ fbs[mCurrentBuffer["client"].fb] = layerBuffer["client"]
  BY <1>1, <1>4 DEF HeldNew
<1>6. Taken("cursor") =>
        /\ screen["cursor"] = mCurrentBuffer["cursor"].fb /\ mCurrentBuffer["cursor"].fb # Null
        /\ fbs[mCurrentBuffer["cursor"].fb] = layerBuffer["cursor"]
        /\ mLastGemBuffer["cursor"] # "current"
  BY <1>1, <1>3, <1>4 DEF HeldNew
<1>7. QED
  BY <1>2, <1>5, <1>6, ReleaseLayers DEF Layers

(* The cursor layer's last object is released and Apply returns. *)
LEMMA ReleaseCursorLayers ==
  ASSUME CoreInv, LayersInv, ReleaseCursor, UNCHANGED setup
  PROVE  LayersInv'
<1>1. /\ pc = "releaseCursor" /\ pc' = "rest" /\ ReleaseLast("cursor")
      /\ UNCHANGED <<layerBuffer, cursorLayers, isAnimationEnd, plane, mCurrentGemBuffer, req>>
  BY DEF ReleaseCursor, inputVars
<1>2. Typed /\ OwnInv /\ LetGo("cursor")
  BY <1>1, LetGoFacts DEF CoreInv, Layers
<1>3. (OneCursorPlane' <=> OneCursorPlane) /\ CursorPlanes' = CursorPlanes
  BY DEF OneCursorPlane, CursorPlanes
<1>4. \A k \in Layers : ~Taken(k)' /\ ~Pending(k)'
  BY <1>1 DEF Taken, Pending
<1>5. Settled("client")
  BY <1>1 DEF LayersInv, FramesInv, Pending
<1>6. /\ lastBuffer'["client"] = lastBuffer["client"]
      /\ mLastGemBuffer'["client"] = mLastGemBuffer["client"]
  BY <1>2, ReleaseLayers DEF Layers
<1>7. Settled("client")'
  BY <1>1, <1>5, <1>6, ReleaseCursorShows DEF Settled
<1>8. FramesInv'
  BY <1>1, <1>4, <1>7 DEF FramesInv, Layers
<1>9. ASSUME OneCursorPlane PROVE CursorInv'
  <2>1. CASE Taken("cursor")
    <3>1. Between("cursor") /\ HeldNew("cursor")
      BY <1>9, <2>1 DEF LayersInv, CursorInv, FramesInv, Layers
    <3>2. /\ mLastGemBuffer["cursor"] \in {"null", "last"}
          /\ mLastGemBuffer["cursor"] = "null" => lastBuffer["cursor"].fb = Null
          /\ mCurrentGemBuffer["cursor"] = "current"
      BY <3>1 DEF Between, HeldNew
    <3>3. lastBuffer'["cursor"].fb = Null /\ UNCHANGED dangling
      <4>1. CASE mLastGemBuffer["cursor"] = "null"
        BY <1>2, <3>2, <4>1 DEF LetGo, objVars
      <4>2. CASE mLastGemBuffer["cursor"] = "last"
        BY <1>2, <4>2 DEF LetGo, Freed
      <4>3. QED
        BY <3>2, <4>1, <4>2
    <3>4. mLastGemBuffer'["cursor"] = "current" /\ mCurrentGemBuffer'["cursor"] = "current"
      BY <1>1, <1>2, <3>2 DEF LetGo
    <3>5. Settled("cursor")'
      BY <2>1, <3>3, <3>4, ReleaseCursorShows DEF Settled
    <3>6. QED
      BY <1>1, <1>3, <1>4, <1>9, <3>3, <3>5 DEF LayersInv, CursorInv, Layers
  <2>2. CASE ~Taken("cursor")
    <3>1. plane = 0 /\ Settled("cursor")
      BY <1>1, <1>9, <2>2 DEF LayersInv, CursorInv, Taken
    <3>2. mCurrentGemBuffer["cursor"] # "current"
      BY <1>1, <1>9, <3>1 DEF LayersInv, CursorInv, FramesInv
    <3>3. mLastGemBuffer["cursor"] = "null" /\ mCurrentGemBuffer["cursor"] = "null"
      BY <1>2, <3>1, <3>2 DEF Settled, Typed, TypeOK, Layers
    <3>4. UNCHANGED <<mCurrentBuffer, lastBuffer, screen, dangling>>
      BY <1>2, <3>3 DEF LetGo, objVars, kernelVars
    <3>5. Settled("cursor")'
      BY <1>1, <1>2, <3>1, <3>3, <3>4 DEF Settled, LetGo
    <3>6. QED
      BY <1>1, <1>3, <1>4, <1>9, <3>4, <3>5 DEF LayersInv, CursorInv, Layers
  <2>3. QED
    BY <2>1, <2>2
<1>10. QED
  BY <1>3, <1>8, <1>9 DEF LayersInv

(* Every step preserves the state of the layers. *)
LEMMA NextLayers ==
  ASSUME CoreInv, Accepting, LayersInv, [Next]_vars
  PROVE  LayersInv'
<1>1. Typed /\ FramesInv
  BY DEF CoreInv, LayersInv
<1>2. CASE UNCHANGED vars
  <2>1. UNCHANGED <<pc, plane, layerBuffer, cursorLayers, isAnimationEnd, dangling, setup,
                    mCurrentBuffer, lastBuffer, mLastGemBuffer, mCurrentGemBuffer, req, fbs, screen>>
    BY <1>2 DEF vars, inputVars, objVars, ptrVars, kernelVars
  <2>2. \A k \in Layers : (Taken(k)' <=> Taken(k)) /\ (Pending(k)' <=> Pending(k))
    BY <2>1 DEF Taken, Pending
  <2>3. \A k \in Layers : /\ HeldNew(k)' <=> HeldNew(k)
                          /\ Between(k)' <=> Between(k)
                          /\ Settled(k)' <=> Settled(k)
    BY <2>1, <2>2 DEF HeldNew, Between, Settled
  <2>4. CursorPlanes' = CursorPlanes /\ (OneCursorPlane' <=> OneCursorPlane)
    BY <2>1 DEF CursorPlanes, OneCursorPlane
  <2>5. FramesInv'
    BY <1>1, <2>1, <2>2, <2>3, <2>4 DEF FramesInv, Layers
  <2>6. OneCursorPlane => CursorInv'
    BY <2>1, <2>2, <2>3, <2>4 DEF LayersInv, CursorInv, Layers
  <2>7. QED
    BY <2>4, <2>5, <2>6 DEF LayersInv
<1>3. CASE UNCHANGED setup /\ (Call \/ PushFirstFrame)
  BY <1>1, <1>3, CallLayers
<1>4. ~ApplyRefused /\ ~AtomicCommitFails
  BY <1>1, NoFailures, RequestAcceptable DEF ApplyRefused, AtomicCommitFails
<1>5. CASE UNCHANGED setup /\ Apply
  BY <1>1, <1>4, <1>5, PlaneLayers, CursorLayersStep, DoneLayers, CommitLayers,
     ReleaseClientLayers, ReleaseCursorLayers DEF Apply
<1>6. QED
  BY <1>2, <1>3, <1>5, NextCases

(* Every step preserves the lag of one frame. *)
LEMMA NextLag ==
  ASSUME CoreInv, Accepting, LayersInv, LagInv, [Next]_vars
  PROVE  LagInv'
<1>1. RestTyped /\ FenceInv /\ FramesInv
  BY TypedParts DEF CoreInv, LayersInv
<1>2. CASE UNCHANGED vars
  BY <1>2 DEF vars, fenceVars, LagInv
<1>3. CASE Commit \/ PushFirstFrame
  BY <1>3 DEF Commit, PushFirstFrame, fenceVars, LagInv
<1>4. CASE Call /\ ~Commit
  <2>1. UNCHANGED <<pc, firstFrame, outFence, releaseFences>>
    BY <1>4 DEF Call, SetDisplayClientBuffer, PrepareCursor, SetDisplayMode,
                SetDisplayPowerStatus, fenceVars
  <2>2. QED
    BY <2>1 DEF LagInv
<1>5. CASE ApplyPlane \/ ApplyCursor \/ ApplyCursorDone
  <2>1. /\ pc \in {"plane", "cursor"} /\ pc' \in {"cursor", "commit"}
        /\ UNCHANGED <<firstFrame, outFence, releaseFences>>
    BY <1>5 DEF ApplyPlane, ApplyCursor, ApplyCursorDone, fenceVars
  <2>2. QED
    BY <2>1 DEF LagInv
<1>6. CASE Release
  <2>1. /\ pc = "release" /\ pc' = "releaseCursor"
        /\ UNCHANGED <<firstFrame, outFence, releaseFences>>
    BY <1>6 DEF Release, fenceVars
  <2>2. QED
    BY <2>1 DEF LagInv
<1>7. CASE AtomicCommit
  <2>1. /\ pc = "commit" /\ pc' = "release" /\ UNCHANGED firstFrame
        /\ outFence' = NextFence /\ releaseFences' = Append(releaseFences, NextFence)
    BY <1>7 DEF AtomicCommit
  <2>2. (NextFence + 2) % FenceRing = outFence
    BY <1>1 DEF RestTyped, NextFence, FenceRing
  <2>3. Append(<<outFence>>, NextFence) = <<outFence, NextFence>>
    BY <1>1, AppendToOne DEF RestTyped, NextFence, FenceRing
  <2>4. QED
    BY <2>1, <2>2, <2>3 DEF LagInv
<1>8. CASE ReleaseCursor
  <2>1. pc = "releaseCursor" /\ pc' = "rest" /\ Answer /\ UNCHANGED <<firstFrame, outFence>>
    BY <1>8 DEF ReleaseCursor
  <2>2. CASE firstFrame
    <3>1. releaseFences = <<outFence>>
      BY <1>1, <2>1, <2>2 DEF FenceInv, Queued
    <3>2. QED
      BY <2>1, <2>2, <3>1 DEF LagInv, Answer
  <2>3. CASE ~firstFrame
    <3>1. releaseFences = <<(outFence + 2) % FenceRing, outFence>>
      BY <2>1, <2>3 DEF LagInv
    <3>2. \A a, b : Tail(<<a, b>>) = <<b>> /\ <<a, b>> # <<>>
      OBVIOUS
    <3>3. releaseFences' = <<outFence>>
      BY <2>1, <2>3, <3>1, <3>2 DEF Answer
    <3>4. QED
      BY <2>1, <3>3 DEF LagInv
  <2>4. QED
    BY <2>2, <2>3
<1>9. ~ApplyRefused /\ ~AtomicCommitFails
  BY <1>1, NoFailures, RequestAcceptable DEF ApplyRefused, AtomicCommitFails
<1>10. QED
  BY <1>2, <1>3, <1>4, <1>5, <1>6, <1>7, <1>8, <1>9, NextCases DEF Apply

(* The invariant of a kernel that accepts every call always holds.         *)
LEMMA AcceptInvariant == Spec => []AcceptInv
<1>1. Init => AcceptInv
  <2>1. SUFFICES ASSUME Init PROVE LayersInv /\ LagInv
    BY InitCore DEF AcceptInv
  <2>2. pc = "off" /\ firstFrame = FALSE /\ dangling = FALSE
    BY <2>1 DEF Init
  <2>3. \A k \in Layers : ~Taken(k) /\ ~Pending(k)
    BY <2>2 DEF Taken, Pending
  <2>4. \A k \in Layers : Settled(k)
    BY <2>1 DEF Init, Settled, Empty
  <2>5. mCurrentGemBuffer["cursor"] = "null"
    BY <2>1 DEF Init, Layers
  <2>6. QED
    BY <2>2, <2>3, <2>4, <2>5 DEF LayersInv, FramesInv, CursorInv, LagInv, Layers
<1>2. AcceptInv /\ [Next]_vars => AcceptInv'
  <2>1. SUFFICES ASSUME AcceptInv, [Next]_vars PROVE AcceptInv'
    OBVIOUS
  <2>2. CoreInv'
    BY <2>1, NextCore DEF AcceptInv
  <2>3. Accepting' <=> Accepting
    <3>1. UNCHANGED setup
      BY <2>1 DEF Next, vars
    <3>2. QED
      BY <3>1 DEF Accepting, Faults, RequestedModes
  <2>4. Accepting => LayersInv' /\ LagInv'
    BY <2>1, NextLayers, NextLag DEF AcceptInv
  <2>5. QED
    BY <2>2, <2>3, <2>4 DEF AcceptInv
<1>3. QED
  BY <1>1, <1>2, PTL DEF Spec

-----------------------------------------------------------------------------
(* With a kernel that accepts every call and at most one cursor plane,     *)
(* releaseBuffer is never called on a destroyed object, in any frame.      *)
THEOREM RawPointersOwnedAlways == Spec => []RawPointersOwned
<1>1. ASSUME AcceptInv PROVE RawPointersOwned
  <2>1. SUFFICES ASSUME Accepting, OneCursorPlane
                 PROVE  ~dangling /\ \A k \in Layers : mLastGemBuffer[k] # "gone"
    BY DEF RawPointersOwned
  <2>2. Typed /\ FramesInv /\ CursorInv
    BY <1>1, <2>1 DEF AcceptInv, LayersInv, CoreInv
  <2>3. \A k \in Layers : Settled(k) \/ Between(k)
    BY <2>2 DEF FramesInv, CursorInv, Layers
  <2>4. \A k \in Layers : mCurrentGemBuffer[k] # "gone"
    BY <2>2 DEF Typed, TypeOK
  <2>5. \A k \in Layers : mLastGemBuffer[k] # "gone"
    BY <2>3, <2>4 DEF Settled, Between
  <2>6. QED
    BY <2>2, <2>5 DEF CursorInv
<1>2. QED
  BY <1>1, AcceptInvariant, PTL

(* Nor does any number of frames leave a framebuffer behind. *)
THEOREM NoFbLeakAlways == Spec => []NoFbLeak
<1>1. ASSUME AcceptInv PROVE NoFbLeak
  <2>1. SUFFICES ASSUME Accepting, OneCursorPlane, pc = "rest"
                 PROVE  DOMAIN fbs = {screen[k] : k \in Layers} \ {Null}
    BY DEF NoFbLeak
  <2>2. Typed /\ OwnInv /\ FramesInv /\ CursorInv
    BY <1>1, <2>1 DEF AcceptInv, LayersInv, CoreInv
  <2>3. \A k \in Layers : lastBuffer[k].fb = Null /\ screen[k] = mCurrentBuffer[k].fb
    BY <2>1, <2>2 DEF FramesInv, CursorInv, Taken, Pending, Settled, Layers
  <2>4. Null \notin DOMAIN fbs
    BY <2>2 DEF Typed, TypeOK, Null
  <2>5. \A k \in Layers : screen[k] \in DOMAIN fbs \cup {Null}
    BY <2>2, <2>3 DEF OwnInv, Registered
  <2>6. \A f \in DOMAIN fbs : \E k \in Layers : screen[k] = f
    BY <2>2, <2>3, <2>4, OwnedByLayers DEF OwnInv
  <2>7. QED
    BY <2>4, <2>5, <2>6
<1>2. QED
  BY <1>1, AcceptInvariant, PTL

(* Whenever Apply returns, each plane it filled shows a registered         *)
(* framebuffer of the buffer its layer holds, whatever was released on the *)
(* way, with any number of cursor planes.                                  *)
THEOREM NewFrameShownAlways == Spec => NewFrameShown
<1> DEFINE Shown == Accepting /\ pc = "releaseCursor" /\ pc' = "rest" =>
        /\ screen'["client"] # Null /\ fbs'[screen'["client"]] = layerBuffer["client"]
        /\ (cursorLayers /\ isAnimationEnd /\ CursorPlanes > 0) =>
             screen'["cursor"] # Null /\ fbs'[screen'["cursor"]] = layerBuffer["cursor"]
<1>1. ASSUME AcceptInv, [Next]_vars PROVE Shown
  <2>1. SUFFICES ASSUME Accepting, pc = "releaseCursor", pc' = "rest"
                 PROVE  /\ screen'["client"] # Null /\ fbs'[screen'["client"]] = layerBuffer["client"]
                        /\ (cursorLayers /\ isAnimationEnd /\ CursorPlanes > 0) =>
                             screen'["cursor"] # Null /\ fbs'[screen'["cursor"]] = layerBuffer["cursor"]
    OBVIOUS
  <2>2. CoreInv /\ LayersInv
    BY <1>1, <2>1 DEF AcceptInv
  <2>3. ReleaseCursor
    BY <1>1, <2>1, NextCases
       DEF vars, Call, PushFirstFrame, Commit, SetDisplayClientBuffer, PrepareCursor,
           SetDisplayMode, SetDisplayPowerStatus, Apply, ApplyRefused, ApplyPlane, ApplyCursor,
           ApplyCursorDone, AtomicCommit, AtomicCommitFails, Release
  <2>4. cursorLayers /\ isAnimationEnd /\ CursorPlanes > 0 => Taken("cursor")
    <3>1. cursorLayers /\ isAnimationEnd => plane = CursorPlanes
      BY <2>1, <2>2 DEF LayersInv, FramesInv
    <3>2. CursorPlanes > 0 => CursorPlanes # 0
      BY <2>2, CommitAssumption DEF CoreInv, Typed, CursorPlanes
    <3>3. QED
      BY <2>1, <3>1, <3>2 DEF Taken
  <2>5. QED
    BY <2>2, <2>3, <2>4, ReleaseCursorShows
<1>2. QED
  BY <1>1, AcceptInvariant, PTL DEF Spec, NewFrameShown

(* Once lit, the primary plane stays lit in every step of every frame: a   *)
(* framebuffer is removed only when the commit has replaced it.            *)
THEOREM NeverDarkAlways == Spec => NeverDark
<1>1. ASSUME AcceptInv, [Next]_vars, Accepting, screen["client"] # Null
      PROVE  screen'["client"] # Null
  <2>1. CoreInv /\ Typed /\ OwnInv /\ LayersInv /\ FramesInv
    BY <1>1 DEF AcceptInv, LayersInv, CoreInv
  <2>2. CASE UNCHANGED screen
    BY <1>1, <2>2
  <2>3. CASE UNCHANGED vars \/ Call \/ PushFirstFrame \/ ApplyRefused \/ AtomicCommitFails
             \/ ApplyCursorDone
    BY <2>2, <2>3
       DEF vars, kernelVars, Call, PushFirstFrame, Commit, SetDisplayClientBuffer, PrepareCursor,
           SetDisplayMode, SetDisplayPowerStatus, ApplyRefused, AtomicCommitFails, ApplyCursorDone
  <2>4. CASE ApplyPlane
    <3>1. pc = "plane" /\ ApplyTo("client", "none")
      BY <1>1, <2>4, NoFailures DEF ApplyPlane
    <3>2. lastBuffer["client"].fb = Null
      BY <2>1, <3>1 DEF FramesInv, Pending, Taken, Settled
    <3>3. PICK nf \in 0 .. MaxIds, nh \in 0 .. MaxIds : Wrapped("client", nf, nh)
      BY <2>1, <3>1, AppliedFully DEF Layers
    <3>4. screen'["client"] = screen["client"]
      BY <3>2, <3>3 DEF Wrapped, Layers
    <3>5. QED
      BY <1>1, <3>4
  <2>5. CASE ApplyCursor
    <3>1. pc = "cursor" /\ ApplyTo("cursor", "none")
      BY <1>1, <2>5, NoFailures DEF ApplyCursor
    <3>2. screen["client"] = lastBuffer["client"].fb
      BY <2>1, <3>1 DEF FramesInv, Pending, Taken, Between
    <3>3. PICK nf \in 0 .. MaxIds, nh \in 0 .. MaxIds :
            Wrapped("cursor", nf, nh) /\ nf \notin DOMAIN fbs
      BY <2>1, <3>1, AppliedFully DEF Layers
    <3>4. screen'["client"] = screen["client"]
      BY <2>1, <3>2, <3>3, WrapLayers DEF Layers
    <3>5. QED
      BY <1>1, <3>4
  <2>6. CASE AtomicCommit
    <3>1. pc = "commit" /\ screen'["client"] = IF req["client"].fb = Absent THEN screen["client"]
                                               ELSE req["client"].fb
      BY <2>6 DEF AtomicCommit, Layers
    <3>2. req["client"].fb # Null
      BY <2>1, <3>1 DEF FramesInv, Taken, HeldNew, Layers
    <3>3. QED
      BY <1>1, <3>1, <3>2
  <2>7. CASE Release
    <3>1. pc = "release" /\ LetGo("client")
      BY <2>1, <2>7, LetGoFacts DEF Release, Layers
    <3>2. screen["client"] = mCurrentBuffer["client"].fb /\ mLastGemBuffer["client"] # "current"
      BY <2>1, <3>1 DEF FramesInv, Pending, Taken, HeldNew, Layers
    <3>3. screen'["client"] = screen["client"]
      BY <2>1, <3>1, <3>2, ReleaseLayers DEF Layers
    <3>4. QED
      BY <1>1, <3>3
  <2>8. CASE ReleaseCursor
    BY <2>1, <2>8, ReleaseCursorShows
  <2>9. QED
    BY <1>1, <2>3, <2>4, <2>5, <2>6, <2>7, <2>8, NextCases DEF Apply
<1>2. QED
  BY <1>1, AcceptInvariant, PTL DEF Spec, NeverDark

(* Every Commit after the first frame returns the out-fence of the commit  *)
(* before it.                                                              *)
THEOREM FenceLagsByOneAlways == Spec => FenceLagsByOne
<1>1. ASSUME AcceptInv, [Next]_vars, Accepting, pc = "releaseCursor", pc' = "rest", ~firstFrame
      PROVE  fence' = (outFence + FenceRing - 1) % FenceRing
  <2>1. ReleaseCursor
    BY <1>1, NextCases
       DEF vars, Call, PushFirstFrame, Commit, SetDisplayClientBuffer, PrepareCursor,
           SetDisplayMode, SetDisplayPowerStatus, Apply, ApplyRefused, ApplyPlane, ApplyCursor,
           ApplyCursorDone, AtomicCommit, AtomicCommitFails, Release
  <2>2. releaseFences = <<(outFence + 2) % FenceRing, outFence>>
    BY <1>1 DEF AcceptInv, LagInv
  <2>3. \A a, b : Head(<<a, b>>) = a /\ <<a, b>> # <<>>
    OBVIOUS
  <2>4. fence' = (outFence + 2) % FenceRing
    BY <1>1, <2>1, <2>2, <2>3 DEF ReleaseCursor, Answer
  <2>5. outFence \in 0 .. 2
    BY <1>1 DEF AcceptInv, CoreInv, Typed, FenceRing
  <2>6. outFence + FenceRing - 1 = outFence + 2
    BY <2>5 DEF FenceRing
  <2>7. QED
    BY <2>4, <2>6
<1>2. QED
  BY <1>1, AcceptInvariant, PTL DEF Spec, FenceLagsByOne
=============================================================================
