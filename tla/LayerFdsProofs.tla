---------------------------- MODULE LayerFdsProofs ----------------------------
(***************************************************************************)
(* The descriptors of the layers, for a table of any size, any number of   *)
(* layers, buffers and fences, and whichever dup or commit fails.          *)
(*                                                                         *)
(* Who owns what depends on the table only through the set of numbers the  *)
(* HAL has to close.  Every step of the HAL is a few moves on that set:    *)
(* a slot gets a fresh number and its old one is closed, a slot is         *)
(* emptied, a number enters the queue or leaves it.                        *)
(***************************************************************************)
EXTENDS LayerFds, TLAPS

(* The numbers the HAL has to close. *)
HalOf(t) == {n \in Fds : t[n].owner = "hal"}

Slots  == [AllLayers -> Fds \cup {NoFd}]
Tables == [Fds -> [file : Files, owner : Owners] \cup {Closed}]

(* No two slots of F hold one number. *)
Apart(F) == \A j, k \in AllLayers : F[j] # NoFd /\ F[j] = F[k] => j = k

(* What F holds is in H. *)
Within(F, H) == \A k \in AllLayers : F[k] # NoFd => F[k] \in H

(* Nothing is held both in F and in G, or both in F and in the queue. *)
NotInBoth(F, G) == \A j, k \in AllLayers : F[j] # NoFd => F[j] # G[k]
NotQueued(F, q) == \A k \in AllLayers : \A i \in 1 .. Len(q) : F[k] # q[i]

(* Buffers F, fences A and queue q hold exactly the numbers of H, each in  *)
(* one place.                                                              *)
Owns(H, F, A, q) ==
  /\ Within(F, H) /\ Within(A, H)
  /\ \A i \in 1 .. Len(q) : q[i] \in H
  /\ Apart(F) /\ Apart(A) /\ NotInBoth(F, A)
  /\ NotQueued(F, q) /\ NotQueued(A, q)
  /\ \A i, j \in 1 .. Len(q) : q[i] = q[j] => i = j
  /\ \A n \in H : \/ \E k \in AllLayers : F[k] = n \/ A[k] = n
                  \/ \E i \in 1 .. Len(q) : q[i] = n

-----------------------------------------------------------------------------
(***************************************************************************)
(* Moves on the set of owned numbers.                                      *)
(***************************************************************************)

(* The places of buffers and fences are alike. *)
LEMMA OwnsSwap ==
  ASSUME NEW H \in SUBSET Fds, NEW F \in Slots, NEW A \in Slots, NEW q \in Seq(Fds),
         Owns(H, F, A, q)
  PROVE  Owns(H, A, F, q)
<1>1. NotInBoth(A, F)
  BY DEF Owns, NotInBoth
<1> QED BY <1>1 DEF Owns

(* A slot gets a fresh number and its old one is closed. *)
LEMMA OwnsReplace ==
  ASSUME NEW H \in SUBSET Fds, NEW F \in Slots, NEW A \in Slots, NEW q \in Seq(Fds),
         Owns(H, F, A, q), NEW k \in AllLayers, NEW f \in Fds, f \notin H
  PROVE  Owns((H \cup {f}) \ {F[k]}, [F EXCEPT ![k] = f], A, q)
<1> DEFINE G == [F EXCEPT ![k] = f]
           J == (H \cup {f}) \ {F[k]}
<1>1. G[k] = f /\ \A j \in AllLayers : j # k => G[j] = F[j]
  BY DEF Slots
<1>2. f # NoFd /\ f # F[k]
  BY FdsAssumption DEF Owns, Within
<1> HIDE DEF G
<1>3. Within(G, J)
  BY <1>1, <1>2 DEF Owns, Within, Apart
<1>4. Within(A, J)
  BY DEF Owns, Within, NotInBoth
<1>5. \A i \in 1 .. Len(q) : q[i] \in J
  BY DEF Owns, NotQueued
<1>6. Apart(G)
  BY <1>1, <1>2 DEF Owns, Apart, Within
<1>7. NotInBoth(G, A)
  BY <1>1, <1>2 DEF Owns, NotInBoth, Within
<1>8. NotQueued(G, q)
  BY <1>1, <1>2 DEF Owns, NotQueued
<1>9. \A n \in J : \/ \E j \in AllLayers : G[j] = n \/ A[j] = n
                   \/ \E i \in 1 .. Len(q) : q[i] = n
  <2> SUFFICES ASSUME NEW n \in J, n # f
               PROVE  \/ \E j \in AllLayers : G[j] = n \/ A[j] = n
                      \/ \E i \in 1 .. Len(q) : q[i] = n
    BY <1>1
  <2>1. n \in H /\ n # F[k]
    OBVIOUS
  <2>2. CASE \E j \in AllLayers : F[j] = n
    BY <1>1, <2>1, <2>2
  <2> QED BY <2>1, <2>2 DEF Owns
<1> QED BY <1>3, <1>4, <1>5, <1>6, <1>7, <1>8, <1>9 DEF Owns, G

(* A slot is emptied and its number closed. *)
LEMMA OwnsClear ==
  ASSUME NEW H \in SUBSET Fds, NEW F \in Slots, NEW A \in Slots, NEW q \in Seq(Fds),
         Owns(H, F, A, q), NEW k \in AllLayers
  PROVE  Owns(H \ {F[k]}, [F EXCEPT ![k] = NoFd], A, q)
<1> DEFINE G == [F EXCEPT ![k] = NoFd]
           J == H \ {F[k]}
<1>1. G[k] = NoFd /\ \A j \in AllLayers : j # k => G[j] = F[j]
  BY DEF Slots
<1> HIDE DEF G
<1>2. Within(G, J)
  BY <1>1 DEF Owns, Within, Apart
<1>3. Within(A, J)
  BY DEF Owns, Within, NotInBoth
<1>4. \A i \in 1 .. Len(q) : q[i] \in J
  BY DEF Owns, NotQueued
<1>5. Apart(G) /\ NotInBoth(G, A)
  BY <1>1 DEF Owns, Apart, NotInBoth
<1>6. NotQueued(G, q)
  BY <1>1, FdsAssumption DEF Owns, NotQueued
<1>7. \A n \in J : \/ \E j \in AllLayers : G[j] = n \/ A[j] = n
                   \/ \E i \in 1 .. Len(q) : q[i] = n
  BY <1>1 DEF Owns
<1> QED BY <1>2, <1>3, <1>4, <1>5, <1>6, <1>7 DEF Owns, G

(* An out-fence enters the queue. *)
LEMMA OwnsPush ==
  ASSUME NEW H \in SUBSET Fds, NEW F \in Slots, NEW A \in Slots, NEW q \in Seq(Fds),
         Owns(H, F, A, q), NEW f \in Fds, f \notin H
  PROVE  Owns(H \cup {f}, F, A, Append(q, f))
<1> DEFINE r == Append(q, f)
<1>1. Len(r) = Len(q) + 1 /\ r[Len(q) + 1] = f /\ \A i \in 1 .. Len(q) : r[i] = q[i]
  OBVIOUS
<1>2. \A i \in 1 .. Len(r) : i \in 1 .. Len(q) \/ i = Len(q) + 1
  BY <1>1
<1>3. Len(q) \in Nat
  OBVIOUS
<1> HIDE DEF r
<1>4. \A i \in 1 .. Len(r) : r[i] \in H \cup {f}
  BY <1>1, <1>2 DEF Owns
<1>5. NotQueued(F, r) /\ NotQueued(A, r)
  BY <1>1, <1>2, FdsAssumption DEF Owns, NotQueued, Within
<1>6. \A i, j \in 1 .. Len(r) : r[i] = r[j] => i = j
  BY <1>1, <1>2 DEF Owns
<1>7. \A n \in H \cup {f} : \/ \E k \in AllLayers : F[k] = n \/ A[k] = n
                            \/ \E i \in 1 .. Len(r) : r[i] = n
  <2>1. Len(q) + 1 \in 1 .. Len(r) /\ \A i \in 1 .. Len(q) : i \in 1 .. Len(r)
    BY <1>1, <1>3
  <2> QED BY <1>1, <2>1 DEF Owns
<1>8. Within(F, H \cup {f}) /\ Within(A, H \cup {f})
  BY DEF Owns, Within
<1> QED BY <1>4, <1>5, <1>6, <1>7, <1>8 DEF Owns, r

(* The oldest fence leaves the queue into the caller's hands. *)
LEMMA OwnsPop ==
  ASSUME NEW H \in SUBSET Fds, NEW F \in Slots, NEW A \in Slots, NEW q \in Seq(Fds),
         Owns(H, F, A, q), q # <<>>
  PROVE  Owns(H \ {Head(q)}, F, A, Tail(q))
<1> DEFINE r == Tail(q)
<1>1. /\ Len(q) \in Nat \ {0} /\ Len(r) = Len(q) - 1 /\ Head(q) = q[1]
      /\ \A i \in 1 .. Len(r) : r[i] = q[i + 1]
  OBVIOUS
<1>2. \A i \in 1 .. Len(r) : i + 1 \in 1 .. Len(q) /\ i + 1 # 1
  BY <1>1
<1>3. \A i \in 1 .. Len(q) : i = 1 \/ (i - 1 \in 1 .. Len(r) /\ r[i - 1] = q[i])
  BY <1>1
<1> HIDE DEF r
<1>4. 1 \in 1 .. Len(q)
  BY <1>1
<1>5. Within(F, H \ {q[1]}) /\ Within(A, H \ {q[1]})
  BY <1>4 DEF Owns, Within, NotQueued
<1>6. \A i \in 1 .. Len(r) : r[i] \in H \ {q[1]}
  BY <1>1, <1>2, <1>4 DEF Owns
<1>7. NotQueued(F, r) /\ NotQueued(A, r)
  BY <1>1, <1>2 DEF Owns, NotQueued
<1>8. \A i, j \in 1 .. Len(r) : r[i] = r[j] => i = j
  <2> SUFFICES ASSUME NEW i \in 1 .. Len(r), NEW j \in 1 .. Len(r), r[i] = r[j]
               PROVE  i = j
    OBVIOUS
  <2>1. i + 1 = j + 1
    BY <1>1, <1>2 DEF Owns
  <2> QED BY <2>1, <1>1
<1>9. \A n \in H \ {q[1]} : \/ \E k \in AllLayers : F[k] = n \/ A[k] = n
                            \/ \E i \in 1 .. Len(r) : r[i] = n
  BY <1>3 DEF Owns
<1> QED BY <1>1, <1>5, <1>6, <1>7, <1>8, <1>9 DEF Owns, r

-----------------------------------------------------------------------------
(***************************************************************************)
(* The descriptor table.                                                   *)
(***************************************************************************)

(* dup fails and changes nothing, or opens a free number on the same file. *)
LEMMA DupCases ==
  ASSUME NEW t \in Tables, NEW n \in Fds \cup {NoFd}, NEW b \in Dup(t, n)
  PROVE  \/ b.fd = NoFd /\ b.table = t
         \/ /\ b.fd \in Fds /\ t[b.fd] = Closed
            /\ n \in Fds /\ t[n] \in [file : Files, owner : Owners]
            /\ b.table = Open(t, b.fd, t[n].file, "hal")
<1>1. CASE n # NoFd /\ t[n] # Closed /\ Free(t) # {}
  <2>1. PICK f \in Free(t) : b = [fd |-> f, table |-> Open(t, f, t[n].file, "hal")]
    BY <1>1 DEF Dup
  <2>2. f \in Fds /\ t[f] = Closed
    BY DEF Free
  <2>3. t[n] \in [file : Files, owner : Owners]
    BY <1>1 DEF Tables
  <2> QED BY <1>1, <2>1, <2>2, <2>3
<1>2. CASE ~(n # NoFd /\ t[n] # Closed /\ Free(t) # {})
  BY <1>2 DEF Dup
<1> QED BY <1>1, <1>2

(* Opening a number touches that entry only. *)
LEMMA OpenFacts ==
  ASSUME NEW t \in Tables, NEW n \in Fds, NEW file \in Files, NEW owner \in Owners
  PROVE  /\ Open(t, n, file, owner) \in Tables
         /\ Open(t, n, file, owner)[n] = [file |-> file, owner |-> owner]
         /\ \A x \in Fds : x # n => Open(t, n, file, owner)[x] = t[x]
  BY DEF Open, Tables

(* The HAL owns what it opened, in addition to what it had. *)
LEMMA HalOpen ==
  ASSUME NEW t \in Tables, NEW n \in Fds, NEW file \in Files
  PROVE  HalOf(Open(t, n, file, "hal")) = HalOf(t) \cup {n}
<1> DEFINE u == Open(t, n, file, "hal")
<1>1. u[n].owner = "hal" /\ \A x \in Fds : x # n => u[x] = t[x]
  BY DEF Open, Tables
<1> HIDE DEF u
<1>2. HalOf(u) = HalOf(t) \cup {n}
  BY <1>1 DEF HalOf
<1> QED BY <1>2 DEF u

(* Closing a number touches that entry only, and -1 none. *)
LEMMA CloseFacts ==
  ASSUME NEW t \in Tables, NEW n \in Fds \cup {NoFd}
  PROVE  /\ CloseFd(t, n) \in Tables
         /\ \A x \in Fds : CloseFd(t, n)[x] = IF x = n THEN Closed ELSE t[x]
         /\ HalOf(CloseFd(t, n)) = HalOf(t) \ {n}
<1> DEFINE u == CloseFd(t, n)
<1>1. u \in Tables /\ \A x \in Fds : u[x] = IF x = n THEN Closed ELSE t[x]
  BY FdsAssumption DEF CloseFd, Tables
<1> HIDE DEF u
<1>2. HalOf(u) = HalOf(t) \ {n}
  BY <1>1 DEF HalOf, Closed
<1> QED BY <1>1, <1>2 DEF u

(* A slot takes a duplicate and closes what it had: ownership stays exact, *)
(* the slot has the file of the original, and no other open number         *)
(* changes.                                                                *)
LEMMA ReplaceSlot ==
  ASSUME NEW t \in Tables, NEW F \in Slots, NEW A \in Slots, NEW q \in Seq(Fds),
         Owns(HalOf(t), F, A, q), NEW k \in AllLayers,
         NEW n \in Fds \cup {NoFd}, NEW b \in Dup(t, n),
         NEW G \in Slots, G[k] = b.fd, \A j \in AllLayers : j # k => G[j] = F[j],
         NEW u, u = CloseFd(b.table, F[k])
  PROVE  /\ u \in Tables
         /\ Owns(HalOf(u), G, A, q)
         /\ b.fd # NoFd => u[b.fd].file = t[n].file
         /\ \A x \in Fds : t[x] # Closed /\ x # F[k] => u[x] = t[x]
<1>1. HalOf(t) \in SUBSET Fds
  BY DEF HalOf
<1>2. F[k] \in Fds \cup {NoFd}
  BY DEF Slots
<1>3. CASE b.fd = NoFd /\ b.table = t
  <2>1. G = [F EXCEPT ![k] = NoFd]
    BY <1>3 DEF Slots
  <2>2. Owns(HalOf(u), G, A, q)
    <3>1. HalOf(u) = HalOf(t) \ {F[k]}
      BY <1>2, <1>3, CloseFacts
    <3>2. Owns(HalOf(t) \ {F[k]}, [F EXCEPT ![k] = NoFd], A, q)
      BY <1>1, OwnsClear
    <3> QED BY <2>1, <3>1, <3>2, Zenon
  <2>3. u \in Tables /\ \A x \in Fds : x # F[k] => u[x] = t[x]
    BY <1>2, <1>3, CloseFacts
  <2> QED BY <1>3, <2>2, <2>3
<1>4. CASE /\ b.fd \in Fds /\ t[b.fd] = Closed
           /\ n \in Fds /\ t[n] \in [file : Files, owner : Owners]
           /\ b.table = Open(t, b.fd, t[n].file, "hal")
  <2>0. t[n].file \in Files
    BY <1>4
  <2>1. /\ b.table \in Tables
        /\ b.table[b.fd] = [file |-> t[n].file, owner |-> "hal"]
        /\ \A x \in Fds : x # b.fd => b.table[x] = t[x]
        /\ HalOf(b.table) = HalOf(t) \cup {b.fd}
    <3>1. /\ Open(t, b.fd, t[n].file, "hal") \in Tables
          /\ Open(t, b.fd, t[n].file, "hal")[b.fd] = [file |-> t[n].file, owner |-> "hal"]
          /\ \A x \in Fds : x # b.fd => Open(t, b.fd, t[n].file, "hal")[x] = t[x]
      BY <1>4, <2>0, OpenFacts DEF Owners
    <3>2. HalOf(Open(t, b.fd, t[n].file, "hal")) = HalOf(t) \cup {b.fd}
      BY <1>4, <2>0, HalOpen
    <3> QED BY <1>4, <3>1, <3>2, Zenon
  <2>2. b.fd \notin HalOf(t)
    BY <1>4 DEF HalOf, Closed
  <2>3. b.fd # F[k]
    BY <1>4, <2>2, FdsAssumption DEF Owns, Within
  <2>4. G = [F EXCEPT ![k] = b.fd]
    BY DEF Slots
  <2>5. Owns(HalOf(u), G, A, q)
    <3>1. HalOf(u) = (HalOf(t) \cup {b.fd}) \ {F[k]}
      BY <1>2, <2>1, CloseFacts
    <3>2. Owns((HalOf(t) \cup {b.fd}) \ {F[k]}, [F EXCEPT ![k] = b.fd], A, q)
      BY <1>1, <1>4, <2>2, OwnsReplace
    <3> QED BY <2>4, <3>1, <3>2, Zenon
  <2>6. u \in Tables /\ \A x \in Fds : u[x] = IF x = F[k] THEN Closed ELSE b.table[x]
    <3>1. b.table \in Tables
      BY <2>1
    <3>2. /\ CloseFd(b.table, F[k]) \in Tables
          /\ \A x \in Fds : CloseFd(b.table, F[k])[x] = IF x = F[k] THEN Closed ELSE b.table[x]
      BY <1>2, <3>1, CloseFacts
    <3> QED BY <3>2, Zenon
  <2>7. u[b.fd].file = t[n].file
    BY <1>4, <2>1, <2>3, <2>6
  <2>8. \A x \in Fds : t[x] # Closed /\ x # F[k] => u[x] = t[x]
    <3>1. SUFFICES ASSUME NEW x \in Fds, t[x] # Closed, x # F[k] PROVE u[x] = t[x]
      OBVIOUS
    <3>2. x # b.fd
      BY <1>4, <3>1
    <3>3. b.table[x] = t[x]
      BY <2>1, <3>2
    <3>4. QED
      BY <2>6, <3>1, <3>3
  <2> QED BY <2>5, <2>6, <2>7, <2>8
<1> QED BY <1>3, <1>4, DupCases

-----------------------------------------------------------------------------
(***************************************************************************)
(* The invariant.                                                          *)
(***************************************************************************)

(* Before PushFirstFrame nothing is open. *)
NotStarted ==
  ~started => /\ table = [n \in Fds |-> Closed] /\ mFd = [k \in AllLayers |-> NoFd]
              /\ mHandle = [l \in Layers |-> NoFd]

(* A caller that keeps its handles open has, behind the number a layer     *)
(* remembers, still the buffer it gave.                                    *)
HandlesKept ==
  keeps => \A l \in Layers :
    mHandle[l] # NoFd => table[mHandle[l]].owner = "caller" /\ table[mHandle[l]].file = given[l]

(* The inductive invariant. *)
Inv ==
  /\ TypeOK
  /\ Owns(HalOf(table), mFd, mAcquireFence, releaseFences)
  /\ NotStarted
  /\ WaitsForLastFence
  /\ HandlesKept

(* SetLayerBuffer of HdiLayer: the layer has the buffer and the fence it   *)
(* was given, or none if dup failed, and every other number of the HAL and *)
(* of the caller keeps its file.                                           *)
LEMMA AttachFacts ==
  ASSUME Inv, NEW k \in AllLayers, NEW n \in Fds \cup {NoFd}, NEW fence \in Fds \cup {NoFd},
         fence # NoFd => table[fence].owner = "caller",
         Attach(k, n, fence)
  PROVE  /\ table' \in Tables /\ mFd' \in Slots /\ mAcquireFence' \in Slots
         /\ Owns(HalOf(table'), mFd', mAcquireFence', releaseFences)
         /\ \A x \in Fds : table[x].owner = "caller" => table'[x] = table[x]
         /\ mFd'[k] # NoFd => table'[mFd'[k]].file = table[n].file
         /\ \A j \in AllLayers : j # k \/ fence = NoFd =>
              /\ mAcquireFence'[j] = mAcquireFence[j]
              /\ mAcquireFence[j] # NoFd => table'[mAcquireFence[j]] = table[mAcquireFence[j]]
         /\ fence # NoFd /\ mAcquireFence'[k] # NoFd =>
              table'[mAcquireFence'[k]].file = table[fence].file
         /\ mHandle' = [l \in Layers |-> IF l = k THEN n ELSE mHandle[l]]
<1>1. PICK b \in Dup(table, n) :
        /\ SetAcquireFence(k, CloseFd(b.table, mFd[k]), fence)
        /\ mFd' = [mFd EXCEPT ![k] = b.fd]
        /\ mHandle' = [l \in Layers |-> IF l = k THEN NewHandle(k, n) ELSE mHandle[l]]
  BY DEF Attach
<1>2. mHandle' = [l \in Layers |-> IF l = k THEN n ELSE mHandle[l]]
  BY <1>1 DEF NewHandle
<1>3. /\ table \in Tables /\ mFd \in Slots /\ mAcquireFence \in Slots
      /\ releaseFences \in Seq(Fds)
      /\ Owns(HalOf(table), mFd, mAcquireFence, releaseFences)
  BY DEF Inv, TypeOK, Tables, Slots
<1> DEFINE u == CloseFd(b.table, mFd[k])
<1>4. b.fd \in Fds \cup {NoFd}
  BY <1>3, DupCases
<1>5. mFd' \in Slots /\ mFd'[k] = b.fd /\ \A j \in AllLayers : j # k => mFd'[j] = mFd[j]
  BY <1>1, <1>3, <1>4 DEF Slots
<1>6. /\ u \in Tables
      /\ Owns(HalOf(u), mFd', mAcquireFence, releaseFences)
      /\ b.fd # NoFd => u[b.fd].file = table[n].file
      /\ \A x \in Fds : table[x] # Closed /\ x # mFd[k] => u[x] = table[x]
  BY <1>3, <1>5, ReplaceSlot
<1> HIDE DEF u
<1>7. \A x \in Fds : table[x].owner = "caller" => u[x] = table[x]
  <2> SUFFICES ASSUME NEW x \in Fds, table[x].owner = "caller" PROVE u[x] = table[x]
    OBVIOUS
  <2>1. table[x] # Closed /\ x \notin HalOf(table)
    BY DEF Closed, HalOf
  <2>2. x # mFd[k]
    BY <1>3, <2>1, FdsAssumption DEF Owns, Within
  <2> QED BY <1>6, <2>1, <2>2
<1>8. \A j \in AllLayers : mAcquireFence[j] # NoFd =>
        /\ u[mAcquireFence[j]] = table[mAcquireFence[j]]
        /\ u[mAcquireFence[j]] # Closed
  <2> SUFFICES ASSUME NEW j \in AllLayers, mAcquireFence[j] # NoFd
               PROVE  /\ u[mAcquireFence[j]] = table[mAcquireFence[j]]
                      /\ u[mAcquireFence[j]] # Closed
    OBVIOUS
  <2>1. mAcquireFence[j] \in HalOf(table) /\ mAcquireFence[j] # mFd[k]
    BY <1>3 DEF Owns, Within, NotInBoth
  <2>2. mAcquireFence[j] \in Fds /\ table[mAcquireFence[j]] # Closed
    BY <2>1 DEF HalOf, Closed
  <2> QED BY <1>6, <2>1, <2>2
<1>9. CASE fence = NoFd
  <2>1. table' = u /\ mAcquireFence' = mAcquireFence
    BY <1>1, <1>9 DEF SetAcquireFence, u
  <2> QED BY <1>2, <1>3, <1>6, <1>5, <1>7, <1>8, <1>9, <2>1
<1>10. CASE fence # NoFd
  <2>1. PICK a \in Dup(u, fence) :
          /\ table' = CloseFd(a.table, mAcquireFence[k])
          /\ mAcquireFence' = [mAcquireFence EXCEPT ![k] = a.fd]
    BY <1>1, <1>10 DEF SetAcquireFence, u
  <2>2. Owns(HalOf(u), mAcquireFence, mFd', releaseFences)
    <3>1. HalOf(u) \in SUBSET Fds
      BY DEF HalOf
    <3> QED BY <1>3, <1>5, <1>6, <3>1, OwnsSwap
  <2>3. /\ mAcquireFence' \in Slots /\ mAcquireFence'[k] = a.fd
        /\ \A j \in AllLayers : j # k => mAcquireFence'[j] = mAcquireFence[j]
    <3>1. a.fd \in Fds \cup {NoFd}
      BY <1>6, DupCases
    <3> QED BY <1>3, <2>1, <3>1 DEF Slots
  <2>4. /\ table' \in Tables
        /\ Owns(HalOf(table'), mAcquireFence', mFd', releaseFences)
        /\ a.fd # NoFd => table'[a.fd].file = u[fence].file
        /\ \A x \in Fds : u[x] # Closed /\ x # mAcquireFence[k] => table'[x] = u[x]
    <3>1. u \in Tables /\ mAcquireFence \in Slots /\ mFd' \in Slots /\ releaseFences \in Seq(Fds)
      BY <1>3, <1>5, <1>6
    <3>2. table' = CloseFd(a.table, mAcquireFence[k])
      BY <2>1
    <3> QED BY <2>2, <2>3, <3>1, <3>2, ReplaceSlot
  <2>5. Owns(HalOf(table'), mFd', mAcquireFence', releaseFences)
    <3>1. HalOf(table') \in SUBSET Fds
      BY DEF HalOf
    <3> QED BY <1>3, <1>5, <2>3, <2>4, <3>1, OwnsSwap
  <2>6. u[fence] = table[fence]
    BY <1>7, <1>10
  <2>7. \A x \in Fds : table[x].owner = "caller" => table'[x] = table[x]
    <3> SUFFICES ASSUME NEW x \in Fds, table[x].owner = "caller" PROVE table'[x] = table[x]
      OBVIOUS
    <3>1. u[x] = table[x] /\ u[x] # Closed /\ x \notin HalOf(table)
      BY <1>7 DEF Closed, HalOf
    <3>2. x # mAcquireFence[k]
      BY <1>3, <3>1, FdsAssumption DEF Owns, Within
    <3> QED BY <2>4, <3>1, <3>2
  <2>8. \A j \in AllLayers : j # k /\ mAcquireFence[j] # NoFd =>
          table'[mAcquireFence[j]] = table[mAcquireFence[j]]
    <3>1. \A j \in AllLayers : j # k /\ mAcquireFence[j] # NoFd => mAcquireFence[j] # mAcquireFence[k]
      BY <1>3 DEF Owns, Apart
    <3>2. \A j \in AllLayers : mAcquireFence[j] # NoFd => mAcquireFence[j] \in Fds
      BY <1>3 DEF Slots
    <3> QED BY <1>8, <2>4, <3>1, <3>2
  <2>9. mFd'[k] # NoFd => table'[mFd'[k]].file = table[n].file
    <3> SUFFICES ASSUME mFd'[k] # NoFd PROVE table'[mFd'[k]] = u[mFd'[k]]
      BY <1>6, <1>5
    <3>1. mFd'[k] \in HalOf(u) /\ mFd'[k] # mAcquireFence[k]
      BY <1>6 DEF Owns, Within, NotInBoth
    <3>2. mFd'[k] \in Fds /\ u[mFd'[k]] # Closed
      BY <3>1 DEF HalOf, Closed
    <3> QED BY <2>4, <3>1, <3>2
  <2> QED BY <1>2, <1>5, <1>6, <1>10, <2>4, <2>5, <2>3, <2>6, <2>7, <2>8, <2>9
<1> QED BY <1>9, <1>10

(* Apply queues an out-fence with a fresh number, or changes nothing. *)
LEMMA AppliedFacts ==
  ASSUME NEW t \in Tables, NEW F \in Slots, NEW A \in Slots, releaseFences \in Seq(Fds),
         Owns(HalOf(t), F, A, releaseFences), NEW a \in Applied(t)
  PROVE  /\ a.table \in Tables /\ a.queue \in Seq(Fds)
         /\ Owns(HalOf(a.table), F, A, a.queue)
         /\ \A x \in Fds : t[x] # Closed => a.table[x] = t[x]
<1>1. CASE a = [table |-> t, queue |-> releaseFences]
  <2>1. a.table = t /\ a.queue = releaseFences
    BY <1>1
  <2> QED BY <2>1
<1>2. ASSUME NEW n \in Free(t), a = [table |-> Open(t, n, "out", "hal"), queue |-> Append(releaseFences, n)]
      PROVE  /\ a.table \in Tables /\ a.queue \in Seq(Fds)
             /\ Owns(HalOf(a.table), F, A, a.queue)
             /\ \A x \in Fds : t[x] # Closed => a.table[x] = t[x]
  <2>1. n \in Fds /\ t[n] = Closed
    BY DEF Free
  <2>2. n \notin HalOf(t) /\ HalOf(t) \in SUBSET Fds
    BY <2>1 DEF HalOf, Closed
  <2>3. a.table = Open(t, n, "out", "hal") /\ a.queue = Append(releaseFences, n)
    BY <1>2
  <2>4. "out" \in Files
    BY DEF Files
  <2>5. a.table \in Tables /\ \A x \in Fds : x # n => a.table[x] = t[x]
    BY <2>1, <2>3, <2>4 DEF Open, Owners, Tables
  <2>6. HalOf(a.table) = HalOf(t) \cup {n}
    BY <2>1, <2>3, <2>4, HalOpen
  <2>7. Owns(HalOf(t) \cup {n}, F, A, Append(releaseFences, n))
    BY <2>1, <2>2, OwnsPush
  <2>8. Owns(HalOf(a.table), F, A, a.queue)
    BY <2>3, <2>6, <2>7, Zenon
  <2> QED BY <2>1, <2>3, <2>5, <2>8
<1> QED BY <1>1, <1>2 DEF Applied

(* The table is empty when the display is made. *)
LEMMA InitInv == Init => Inv
<1> SUFFICES ASSUME Init PROVE Inv
  OBVIOUS
<1>1. started \in BOOLEAN /\ keeps \in BOOLEAN
  BY Zenon DEF Init
<1>2. TypeOK
  BY <1>1 DEF Init, TypeOK
<1>3. HalOf(table) = {}
  BY DEF Init, HalOf, Closed
<1>4. Owns({}, mFd, mAcquireFence, releaseFences)
  BY DEF Init, Owns, Within, Apart, NotInBoth, NotQueued
<1>5. WaitsForLastFence /\ HandlesKept /\ NotStarted
  BY DEF Init, WaitsForLastFence, HandlesKept, NotStarted
<1> QED BY <1>2, <1>3, <1>4, <1>5 DEF Inv

(* Every step of the caller and of the HAL keeps the invariant. *)
LEMMA NextInv == Inv /\ [Next]_vars => Inv'
<1> SUFFICES ASSUME Inv, [Next]_vars PROVE Inv'
  OBVIOUS
<1>0. /\ table \in Tables /\ mFd \in Slots /\ mAcquireFence \in Slots
      /\ releaseFences \in Seq(Fds)
      /\ mHandle \in [Layers -> Fds \cup {NoFd}]
      /\ given \in [Layers -> Files \cup {"none"}]
      /\ givenFence \in [AllLayers -> Files \cup {"none"}]
      /\ Owns(HalOf(table), mFd, mAcquireFence, releaseFences)
  BY DEF Inv, TypeOK, Tables, Slots
<1>1. CASE PushFirstFrame
  <2>1. PICK n \in Free(table) : \E b \in Dup(Open(table, n, FirstBuffer, "handle"), n) :
          /\ mFd' = [mFd EXCEPT !["client"] = b.fd]
          /\ \E a \in Applied(b.table) : table' = a.table /\ releaseFences' = a.queue
    BY <1>1 DEF PushFirstFrame
  <2> DEFINE t == Open(table, n, FirstBuffer, "handle")
  <2>2. PICK b \in Dup(t, n) :
          /\ mFd' = [mFd EXCEPT !["client"] = b.fd]
          /\ \E a \in Applied(b.table) : table' = a.table /\ releaseFences' = a.queue
    BY <2>1
  <2>3. ~started /\ started' = TRUE /\ UNCHANGED <<mHandle, mAcquireFence, keeps, history>>
    BY <1>1 DEF PushFirstFrame
  <2>4. table = [x \in Fds |-> Closed] /\ mFd = [k \in AllLayers |-> NoFd]
    BY <2>3 DEF Inv, NotStarted
  <2>5. FirstBuffer \in Files /\ "client" \in AllLayers /\ n \in Fds /\ mFd["client"] = NoFd
    BY <2>4 DEF Files, AllLayers, Free
  <2>6. t \in Tables /\ HalOf(t) = HalOf(table)
    <3>1. /\ t \in Tables /\ t[n] = [file |-> FirstBuffer, owner |-> "handle"]
          /\ \A x \in Fds : x # n => t[x] = table[x]
      BY <1>0, <2>5, OpenFacts DEF Owners
    <3>2. table[n].owner # "hal" /\ t[n].owner # "hal"
      BY <2>4, <2>5, <3>1 DEF Closed
    <3> HIDE DEF t
    <3>3. HalOf(t) = HalOf(table)
      BY <3>1, <3>2 DEF HalOf
    <3> QED BY <3>1, <3>3
  <2> HIDE DEF t
  <2>7. /\ b.fd \in Fds \cup {NoFd}
        /\ mFd' \in Slots /\ mFd'["client"] = b.fd
        /\ \A k \in AllLayers : k # "client" => mFd'[k] = mFd[k]
    <3>1. b.fd \in Fds \cup {NoFd}
      BY <2>5, <2>6, DupCases
    <3> QED BY <1>0, <2>2, <2>5, <3>1 DEF Slots
  <2>8. b.table \in Tables /\ Owns(HalOf(b.table), mFd', mAcquireFence, releaseFences)
    <3>1. b.table = CloseFd(b.table, mFd["client"])
      BY <2>5 DEF CloseFd
    <3>2. Owns(HalOf(t), mFd, mAcquireFence, releaseFences)
      BY <1>0, <2>6, Zenon
    <3> QED BY <1>0, <2>5, <2>6, <2>7, <3>1, <3>2, ReplaceSlot
  <2>9. /\ table' \in Tables /\ releaseFences' \in Seq(Fds)
        /\ Owns(HalOf(table'), mFd', mAcquireFence, releaseFences')
    <3>1. PICK a \in Applied(b.table) : table' = a.table /\ releaseFences' = a.queue
      BY <2>2
    <3> QED BY <1>0, <2>7, <2>8, <3>1, AppliedFacts
  <2>10. \A k \in AllLayers : mAcquireFence[k] = NoFd
    <3>1. HalOf(table) = {}
      BY <2>4 DEF HalOf, Closed
    <3> QED BY <1>0, <3>1 DEF Owns, Within
  <2>11. \A l \in Layers : mHandle[l] = NoFd
    BY <2>3 DEF Inv, NotStarted
  <2>12. TypeOK'
    <3>1. started' \in BOOLEAN /\ keeps' \in BOOLEAN
      BY <2>3, Zenon DEF Inv, TypeOK
    <3> QED BY <1>0, <2>3, <2>7, <2>9, <3>1 DEF TypeOK, Tables, Slots, history
  <2>13. WaitsForLastFence' /\ HandlesKept' /\ NotStarted'
    BY <2>3, <2>10, <2>11 DEF WaitsForLastFence, HandlesKept, NotStarted, history
  <2> QED BY <2>3, <2>9, <2>12, <2>13 DEF Inv
<1>2. CASE Commit
  <2>1. PICK a \in Applied(table) : ReleaseFenceFd(a)
    BY <1>2 DEF Commit
  <2>2. started /\ UNCHANGED <<layerVars, started, keeps, history>>
    BY <1>2 DEF Commit
  <2>3. /\ a.table \in Tables /\ a.queue \in Seq(Fds)
        /\ Owns(HalOf(a.table), mFd, mAcquireFence, a.queue)
        /\ \A x \in Fds : table[x] # Closed => a.table[x] = table[x]
    BY <1>0, AppliedFacts
  <2>4. /\ table' \in Tables /\ releaseFences' \in Seq(Fds)
        /\ Owns(HalOf(table'), mFd, mAcquireFence, releaseFences')
        /\ \A x \in Fds : (table[x].owner = "caller" \/ \E k \in AllLayers : mAcquireFence[k] = x)
                            => table'[x] = table[x]
    <3>0. \A x \in Fds : (table[x].owner = "caller" \/ \E k \in AllLayers : mAcquireFence[k] = x)
            => table[x] # Closed
      BY <1>0, FdsAssumption DEF Owns, Within, HalOf, Closed
    <3>1. CASE a.queue = <<>>
      <4>1. table' = a.table /\ releaseFences' = a.queue
        BY <2>1, <3>1 DEF ReleaseFenceFd
      <4> QED BY <2>3, <3>0, <4>1
    <3>2. CASE a.queue # <<>>
      <4>1. table' = [a.table EXCEPT ![Head(a.queue)].owner = "caller"] /\ releaseFences' = Tail(a.queue)
        BY <2>1, <3>2 DEF ReleaseFenceFd
      <4> DEFINE h == Head(a.queue)
      <4>2. h = a.queue[1] /\ 1 \in 1 .. Len(a.queue) /\ h \in Fds
        BY <2>3, <3>2
      <4>3. h \in HalOf(a.table) /\ \A k \in AllLayers : mAcquireFence[k] # h
        BY <2>3, <4>2 DEF Owns, NotQueued
      <4>4. a.table[h].owner = "hal" /\ a.table[h] \in [file : Files, owner : Owners]
        BY <2>3, <4>3 DEF HalOf, Tables, Closed
      <4> HIDE DEF h
      <4>5. /\ table' \in Tables /\ table'[h].owner = "caller"
            /\ \A x \in Fds : x # h => table'[x] = a.table[x]
        BY <2>3, <4>1, <4>2, <4>4 DEF Owners, Tables, h
      <4>6. HalOf(table') = HalOf(a.table) \ {h}
        BY <4>2, <4>5 DEF HalOf
      <4>7. HalOf(a.table) \in SUBSET Fds
        BY DEF HalOf
      <4>8. Owns(HalOf(a.table) \ {h}, mFd, mAcquireFence, Tail(a.queue))
        BY <1>0, <2>3, <3>2, <4>7, OwnsPop DEF h
      <4>9. Owns(HalOf(table'), mFd, mAcquireFence, releaseFences')
        BY <4>1, <4>6, <4>8, Zenon
      <4>10. \A x \in Fds : (table[x].owner = "caller" \/ \E k \in AllLayers : mAcquireFence[k] = x)
               => table'[x] = table[x]
        <5>1. table[h].owner # "caller"
          BY <2>3, <4>2, <4>4 DEF Closed
        <5> QED BY <2>3, <3>0, <4>3, <4>5, <5>1
      <4>11. releaseFences' \in Seq(Fds)
        BY <2>3, <3>2, <4>1
      <4> QED BY <4>5, <4>9, <4>10, <4>11
    <3> QED BY <3>1, <3>2
  <2>5. mFd' = mFd /\ mAcquireFence' = mAcquireFence /\ mHandle' = mHandle
    BY <2>2 DEF layerVars
  <2>6. TypeOK'
    BY <1>0, <2>2, <2>4, <2>5 DEF Inv, TypeOK, Tables, Slots, history
  <2>7. WaitsForLastFence' /\ HandlesKept' /\ NotStarted'
    BY <1>0, <2>2, <2>4, <2>5 DEF Inv, WaitsForLastFence, HandlesKept, NotStarted, history, Slots
  <2> QED BY <2>4, <2>5, <2>6, <2>7 DEF Inv
<1>3. ASSUME NEW file \in Buffers \cup Fences, CallerOpens(file) PROVE Inv'
  <2>1. PICK n \in Free(table) : table' = Open(table, n, file, "caller")
    BY <1>3 DEF CallerOpens
  <2>2. n \in Fds /\ table[n] = Closed /\ file \in Files
    BY DEF Free, Files
  <2>3. started /\ UNCHANGED <<layerVars, releaseFences, started, keeps, history>>
    BY <1>3 DEF CallerOpens
  <2>4. /\ table' \in Tables /\ table'[n].owner = "caller"
        /\ \A x \in Fds : x # n => table'[x] = table[x]
    BY <1>0, <2>1, <2>2 DEF Open, Owners, Tables
  <2>5. HalOf(table') = HalOf(table)
    BY <2>2, <2>4 DEF HalOf, Closed
  <2>6. mFd' = mFd /\ mAcquireFence' = mAcquireFence /\ mHandle' = mHandle
    BY <2>3 DEF layerVars
  <2>7. TypeOK'
    BY <1>0, <2>3, <2>4, <2>6 DEF Inv, TypeOK, Tables, Slots, history
  <2>8. WaitsForLastFence'
    <3>1. \A k \in AllLayers : mAcquireFence[k] # NoFd => mAcquireFence[k] \in Fds \ {n}
      BY <1>0, <2>2 DEF Owns, Within, HalOf, Closed
    <3> QED BY <2>3, <2>4, <2>6, <3>1 DEF Inv, WaitsForLastFence, history
  <2>9. HandlesKept'
    <3>1. keeps => \A l \in Layers : mHandle[l] # NoFd => mHandle[l] \in Fds \ {n}
      BY <1>0, <2>2 DEF Inv, HandlesKept, Closed
    <3> QED BY <2>3, <2>4, <2>6, <3>1 DEF Inv, HandlesKept, history
  <2> QED BY <1>0, <2>3, <2>5, <2>6, <2>7, <2>8, <2>9 DEF Inv, NotStarted
<1>4. ASSUME NEW n \in Fds, CallerCloses(n) PROVE Inv'
  <2>1. /\ table[n].owner = "caller" /\ table' = [table EXCEPT ![n] = Closed]
        /\ keeps => \A l \in Layers : mHandle[l] # n
        /\ UNCHANGED <<layerVars, releaseFences, started, keeps, history>>
    BY <1>4 DEF CallerCloses
  <2>2. table' \in Tables /\ table'[n] = Closed /\ \A x \in Fds : x # n => table'[x] = table[x]
    BY <1>0, <2>1 DEF Tables
  <2>3. HalOf(table') = HalOf(table)
    BY <2>1, <2>2 DEF HalOf, Closed
  <2>4. mFd' = mFd /\ mAcquireFence' = mAcquireFence /\ mHandle' = mHandle
    BY <2>1 DEF layerVars
  <2>5. TypeOK'
    BY <1>0, <2>1, <2>2, <2>4 DEF Inv, TypeOK, Tables, Slots, history
  <2>6. WaitsForLastFence'
    <3>1. \A k \in AllLayers : mAcquireFence[k] # NoFd => mAcquireFence[k] \in Fds \ {n}
      BY <1>0, <2>1 DEF Owns, Within, HalOf
    <3> QED BY <2>1, <2>2, <2>4, <3>1 DEF Inv, WaitsForLastFence, history
  <2>7. HandlesKept'
    BY <1>0, <2>1, <2>2, <2>4 DEF Inv, HandlesKept, history
  <2>8. NotStarted'
    <3>1. started
      BY <2>1 DEF Inv, NotStarted, Closed
    <3> QED BY <2>1, <3>1 DEF NotStarted
  <2> QED BY <1>0, <2>1, <2>3, <2>4, <2>5, <2>6, <2>7, <2>8 DEF Inv
<1>5. ASSUME NEW k \in AllLayers \ {"cursor"}, NEW n \in Callers(Buffers),
             NEW fence \in Callers(Fences) \cup {NoFd}, SetLayerBuffer(k, n, fence)
      PROVE  Inv'
  <2>1. /\ n \in Fds /\ table[n].owner = "caller" /\ table[n].file \in Buffers
        /\ fence \in Fds \cup {NoFd}
        /\ fence # NoFd => table[fence].owner = "caller" /\ table[fence].file \in Fences
    BY DEF Callers
  <2>2. /\ started /\ Attach(k, n, fence)
        /\ given' = [l \in Layers |-> IF l = k THEN table[n].file ELSE given[l]]
        /\ givenFence' = IF fence = NoFd THEN givenFence
                         ELSE [givenFence EXCEPT ![k] = table[fence].file]
        /\ UNCHANGED <<releaseFences, started, keeps>>
    BY <1>5 DEF SetLayerBuffer
  <2>3. /\ table' \in Tables /\ mFd' \in Slots /\ mAcquireFence' \in Slots
        /\ Owns(HalOf(table'), mFd', mAcquireFence', releaseFences)
        /\ \A x \in Fds : table[x].owner = "caller" => table'[x] = table[x]
        /\ \A j \in AllLayers : j # k \/ fence = NoFd =>
             /\ mAcquireFence'[j] = mAcquireFence[j]
             /\ mAcquireFence[j] # NoFd => table'[mAcquireFence[j]] = table[mAcquireFence[j]]
        /\ fence # NoFd /\ mAcquireFence'[k] # NoFd =>
             table'[mAcquireFence'[k]].file = table[fence].file
        /\ mHandle' = [l \in Layers |-> IF l = k THEN n ELSE mHandle[l]]
    BY <2>1, <2>2, AttachFacts
  <2>4. TypeOK'
    <3>1. mHandle' \in [Layers -> Fds \cup {NoFd}] /\ given' \in [Layers -> Files \cup {"none"}]
      BY <1>0, <2>1, <2>2, <2>3 DEF Files
    <3>2. givenFence' \in [AllLayers -> Files \cup {"none"}]
      BY <1>0, <2>1, <2>2 DEF Files
    <3>3. started' \in BOOLEAN /\ keeps' \in BOOLEAN
      BY <2>2 DEF Inv, TypeOK
    <3> QED BY <1>0, <2>2, <2>3, <3>1, <3>2, <3>3 DEF TypeOK, Tables, Slots
  <2>5. WaitsForLastFence'
    <3> SUFFICES ASSUME NEW j \in AllLayers, mAcquireFence'[j] # NoFd
                 PROVE  table'[mAcquireFence'[j]].file = givenFence'[j]
      BY DEF WaitsForLastFence
    <3>1. CASE j # k \/ fence = NoFd
      <4>1. givenFence'[j] = givenFence[j]
        BY <1>0, <2>2, <3>1
      <4> QED BY <2>3, <3>1, <4>1 DEF Inv, WaitsForLastFence
    <3>2. CASE j = k /\ fence # NoFd
      <4>1. givenFence'[j] = table[fence].file
        BY <1>0, <2>2, <3>2
      <4> QED BY <2>3, <3>2, <4>1
    <3> QED BY <3>1, <3>2
  <2>6. HandlesKept'
    <3> SUFFICES ASSUME keeps, NEW l \in Layers, mHandle'[l] # NoFd
                 PROVE  table'[mHandle'[l]].owner = "caller" /\ table'[mHandle'[l]].file = given'[l]
      BY <2>2 DEF HandlesKept
    <3>1. CASE l = k
      <4>1. mHandle'[l] = n /\ given'[l] = table[n].file /\ table'[n] = table[n]
        BY <2>1, <2>2, <2>3, <3>1
      <4> QED BY <2>1, <4>1
    <3>2. CASE l # k
      <4>1. mHandle'[l] = mHandle[l] /\ given'[l] = given[l] /\ mHandle[l] \in Fds
        BY <1>0, <2>2, <2>3, <3>2
      <4>2. table[mHandle[l]].owner = "caller" /\ table[mHandle[l]].file = given[l]
        BY <4>1 DEF Inv, HandlesKept
      <4> QED BY <2>3, <4>1, <4>2
    <3> QED BY <3>1, <3>2
  <2> QED BY <2>2, <2>3, <2>4, <2>5, <2>6 DEF Inv, NotStarted
<1>6. ASSUME NEW l \in Layers, PrepareCursor(l) PROVE Inv'
  <2>1. /\ started /\ mHandle[l] # NoFd /\ Attach("cursor", mHandle[l], NoFd)
        /\ UNCHANGED <<releaseFences, started, keeps, history>>
    BY <1>6 DEF PrepareCursor
  <2>2. "cursor" \in AllLayers /\ "cursor" \notin Layers /\ mHandle[l] \in Fds
    BY <1>0, <2>1, FdsAssumption DEF AllLayers
  <2>3. /\ table' \in Tables /\ mFd' \in Slots /\ mAcquireFence' \in Slots
        /\ Owns(HalOf(table'), mFd', mAcquireFence', releaseFences)
        /\ \A x \in Fds : table[x].owner = "caller" => table'[x] = table[x]
        /\ \A j \in AllLayers :
             /\ mAcquireFence'[j] = mAcquireFence[j]
             /\ mAcquireFence[j] # NoFd => table'[mAcquireFence[j]] = table[mAcquireFence[j]]
        /\ mHandle' = [j \in Layers |-> IF j = "cursor" THEN mHandle[l] ELSE mHandle[j]]
    BY <2>1, <2>2, AttachFacts
  <2>4. mHandle' = mHandle
    BY <1>0, <2>2, <2>3
  <2>5. TypeOK'
    <3>1. started' \in BOOLEAN /\ keeps' \in BOOLEAN
      BY <2>1 DEF Inv, TypeOK
    <3> QED BY <1>0, <2>1, <2>3, <2>4, <3>1 DEF TypeOK, Tables, Slots, history
  <2>6. WaitsForLastFence'
    BY <2>1, <2>3 DEF Inv, WaitsForLastFence, history
  <2>7. HandlesKept'
    BY <1>0, <2>1, <2>3, <2>4 DEF Inv, HandlesKept, history
  <2> QED BY <2>1, <2>3, <2>5, <2>6, <2>7 DEF Inv, NotStarted
<1>7. ASSUME NEW l \in Layers, DestroyLayer(l) PROVE Inv'
  <2>1. /\ mHandle[l] # NoFd
        /\ table' = CloseFd(CloseFd(table, mFd[l]), mAcquireFence[l])
        /\ mFd' = [mFd EXCEPT ![l] = NoFd]
        /\ mHandle' = [mHandle EXCEPT ![l] = NoFd]
        /\ mAcquireFence' = [mAcquireFence EXCEPT ![l] = NoFd]
        /\ given' = [given EXCEPT ![l] = "none"]
        /\ givenFence' = [givenFence EXCEPT ![l] = "none"]
        /\ UNCHANGED <<releaseFences, started, keeps>>
    BY <1>7 DEF DestroyLayer
  <2>2. l \in AllLayers /\ mFd[l] \in Fds \cup {NoFd} /\ mAcquireFence[l] \in Fds \cup {NoFd}
    BY <1>0 DEF AllLayers, Slots
  <2> DEFINE t == CloseFd(table, mFd[l])
  <2>3. /\ t \in Tables /\ HalOf(t) = HalOf(table) \ {mFd[l]}
        /\ \A x \in Fds : t[x] = IF x = mFd[l] THEN Closed ELSE table[x]
    BY <1>0, <2>2, CloseFacts
  <2>4. mFd' \in Slots /\ mAcquireFence' \in Slots
    BY <1>0, <2>1, <2>2 DEF Slots
  <2>5. Owns(HalOf(t), mFd', mAcquireFence, releaseFences)
    <3>1. HalOf(table) \in SUBSET Fds
      BY DEF HalOf
    <3>2. Owns(HalOf(table) \ {mFd[l]}, [mFd EXCEPT ![l] = NoFd], mAcquireFence, releaseFences)
      BY <1>0, <2>2, <3>1, OwnsClear
    <3> QED BY <2>1, <2>3, <3>2, Zenon
  <2> HIDE DEF t
  <2>6. /\ table' \in Tables /\ HalOf(table') = HalOf(t) \ {mAcquireFence[l]}
        /\ \A x \in Fds : table'[x] = IF x = mAcquireFence[l] THEN Closed ELSE t[x]
    BY <2>1, <2>2, <2>3, CloseFacts DEF t
  <2>7. Owns(HalOf(table'), mFd', mAcquireFence', releaseFences)
    <3>1. HalOf(t) \in SUBSET Fds /\ HalOf(table') \in SUBSET Fds
      BY DEF HalOf
    <3>2. Owns(HalOf(t), mAcquireFence, mFd', releaseFences)
      BY <1>0, <2>4, <2>5, <3>1, OwnsSwap
    <3>3. Owns(HalOf(t) \ {mAcquireFence[l]}, [mAcquireFence EXCEPT ![l] = NoFd], mFd', releaseFences)
      BY <1>0, <2>2, <2>4, <3>1, <3>2, OwnsClear
    <3>4. Owns(HalOf(table'), mAcquireFence', mFd', releaseFences)
      BY <2>1, <2>6, <3>3, Zenon
    <3> QED BY <1>0, <2>4, <3>1, <3>4, OwnsSwap
  <2>8. \A x \in Fds : x # mFd[l] /\ x # mAcquireFence[l] => table'[x] = table[x]
    BY <2>3, <2>6
  <2>9. TypeOK'
    <3>1. started' \in BOOLEAN /\ keeps' \in BOOLEAN
      BY <2>1 DEF Inv, TypeOK
    <3>2. /\ mHandle' \in [Layers -> Fds \cup {NoFd}] /\ given' \in [Layers -> Files \cup {"none"}]
          /\ givenFence' \in [AllLayers -> Files \cup {"none"}]
      BY <1>0, <2>1
    <3> QED BY <1>0, <2>1, <2>4, <2>6, <3>1, <3>2 DEF TypeOK, Tables, Slots
  <2>10. WaitsForLastFence'
    <3> SUFFICES ASSUME NEW j \in AllLayers, mAcquireFence'[j] # NoFd
                 PROVE  table'[mAcquireFence'[j]].file = givenFence'[j]
      BY DEF WaitsForLastFence
    <3>1. j # l /\ mAcquireFence'[j] = mAcquireFence[j] /\ givenFence'[j] = givenFence[j]
      BY <1>0, <2>1, <2>2 DEF Slots
    <3>2. mAcquireFence[j] # mFd[l] /\ mAcquireFence[j] # mAcquireFence[l] /\ mAcquireFence[j] \in Fds
      BY <1>0, <2>2, <3>1 DEF Owns, NotInBoth, Apart, Slots
    <3> QED BY <2>8, <3>1, <3>2 DEF Inv, WaitsForLastFence
  <2>11. HandlesKept'
    <3> SUFFICES ASSUME keeps, NEW j \in Layers, mHandle'[j] # NoFd
                 PROVE  table'[mHandle'[j]].owner = "caller" /\ table'[mHandle'[j]].file = given'[j]
      BY <2>1 DEF HandlesKept
    <3>1. j # l /\ mHandle'[j] = mHandle[j] /\ given'[j] = given[j] /\ mHandle[j] \in Fds
      BY <1>0, <2>1
    <3>2. table[mHandle[j]].owner = "caller" /\ table[mHandle[j]].file = given[j]
      BY <3>1 DEF Inv, HandlesKept
    <3>3. mHandle[j] \notin HalOf(table)
      BY <3>2 DEF HalOf
    <3>4. mHandle[j] # mFd[l] /\ mHandle[j] # mAcquireFence[l]
      BY <1>0, <2>2, <3>1, <3>3, FdsAssumption DEF Owns, Within
    <3> QED BY <2>8, <3>1, <3>2, <3>4
  <2>12. NotStarted'
    <3>1. started
      BY <1>0, <2>1 DEF Inv, NotStarted
    <3> QED BY <2>1, <3>1 DEF NotStarted
  <2> QED BY <2>1, <2>7, <2>9, <2>10, <2>11, <2>12 DEF Inv
<1>8. CASE UNCHANGED vars
  BY <1>8 DEF vars, layerVars, history, Inv, TypeOK, NotStarted, WaitsForLastFence, HandlesKept, HalOf
<1> QED BY <1>1, <1>2, <1>3, <1>4, <1>5, <1>6, <1>7, <1>8 DEF Next

(***************************************************************************)
(* The number of the first frame's handle: nobody closes it, nobody else   *)
(* gets one like it.                                                       *)
(***************************************************************************)
FirstKept ==
  started => \E f \in Fds :
    /\ table[f] = [file |-> FirstBuffer, owner |-> "handle"]
    /\ \A n \in Fds : table[n].owner = "handle" => n = f

(* Tables t and u agree on such numbers. *)
SameFirst(t, u) ==
  \A n \in Fds : t[n].owner = "handle" \/ u[n].owner = "handle" => u[n] = t[n]

(* Agreement is passed on. *)
LEMMA SameFirstTrans ==
  ASSUME NEW t, NEW u, NEW v, SameFirst(t, u), SameFirst(u, v)
  PROVE  SameFirst(t, v)
  BY DEF SameFirst

(* dup makes none and touches none. *)
LEMMA DupFirst ==
  ASSUME NEW t \in Tables, NEW n \in Fds \cup {NoFd}, NEW b \in Dup(t, n)
  PROVE  b.table \in Tables /\ SameFirst(t, b.table)
<1>1. CASE b.fd = NoFd /\ b.table = t
  BY <1>1 DEF SameFirst
<1>2. CASE /\ b.fd \in Fds /\ t[b.fd] = Closed
           /\ n \in Fds /\ t[n] \in [file : Files, owner : Owners]
           /\ b.table = Open(t, b.fd, t[n].file, "hal")
  <2>1. t[n].file \in Files /\ "hal" \in Owners
    BY <1>2 DEF Owners
  <2>2. /\ b.table \in Tables /\ b.table[b.fd].owner = "hal"
        /\ \A x \in Fds : x # b.fd => b.table[x] = t[x]
    <3> DEFINE u == Open(t, b.fd, t[n].file, "hal")
    <3>1. /\ u \in Tables /\ u[b.fd] = [file |-> t[n].file, owner |-> "hal"]
          /\ \A x \in Fds : x # b.fd => u[x] = t[x]
      BY <1>2, <2>1, OpenFacts
    <3>2. b.table = u
      BY <1>2
    <3> HIDE DEF u
    <3> QED BY <3>1, <3>2
  <2>3. t[b.fd].owner # "handle"
    BY <1>2 DEF Closed
  <2> QED BY <2>2, <2>3 DEF SameFirst
<1> QED BY <1>1, <1>2, DupCases

(* Nor does closing a number that is not one of them. *)
LEMMA CloseFirst ==
  ASSUME NEW t \in Tables, NEW n \in Fds \cup {NoFd}, n # NoFd => t[n].owner # "handle"
  PROVE  CloseFd(t, n) \in Tables /\ SameFirst(t, CloseFd(t, n))
<1>1. /\ CloseFd(t, n) \in Tables
      /\ \A x \in Fds : CloseFd(t, n)[x] = IF x = n THEN Closed ELSE t[x]
  BY CloseFacts
<1>2. \A x \in Fds : x = n => t[x].owner # "handle"
  BY FdsAssumption
<1>3. Closed.owner # "handle"
  BY DEF Closed
<1> HIDE DEF CloseFd
<1> QED BY <1>1, <1>2, <1>3 DEF SameFirst

(* What a slot holds is not one of them either, however often a table that *)
(* agrees on them was made from the one the slot belongs to.               *)
LEMMA SlotNotFirst ==
  ASSUME Inv, NEW t, SameFirst(table, t), NEW k \in AllLayers
  PROVE  /\ mFd[k] # NoFd => t[mFd[k]].owner # "handle"
         /\ mAcquireFence[k] # NoFd => t[mAcquireFence[k]].owner # "handle"
<1>1. /\ mFd[k] # NoFd => mFd[k] \in HalOf(table)
      /\ mAcquireFence[k] # NoFd => mAcquireFence[k] \in HalOf(table)
  BY DEF Inv, Owns, Within
<1>2. \A x \in HalOf(table) : x \in Fds /\ table[x].owner = "hal"
  BY DEF HalOf
<1>3. \A x \in HalOf(table) : t[x].owner # "handle"
  BY <1>2 DEF SameFirst
<1> QED BY <1>1, <1>3

(* So a layer that is given a buffer leaves them alone. *)
LEMMA AttachFirst ==
  ASSUME Inv, NEW k \in AllLayers, NEW n \in Fds \cup {NoFd}, NEW fence \in Fds \cup {NoFd},
         Attach(k, n, fence)
  PROVE  SameFirst(table, table')
<1>1. table \in Tables /\ mFd[k] \in Fds \cup {NoFd} /\ mAcquireFence[k] \in Fds \cup {NoFd}
  BY DEF Inv, TypeOK, Tables
<1>2. PICK b \in Dup(table, n) : SetAcquireFence(k, CloseFd(b.table, mFd[k]), fence)
  BY DEF Attach
<1> DEFINE u == CloseFd(b.table, mFd[k])
<1>3. b.table \in Tables /\ SameFirst(table, b.table)
  BY <1>1, DupFirst
<1>4. u \in Tables /\ SameFirst(b.table, u)
  BY <1>1, <1>3, SlotNotFirst, CloseFirst
<1> HIDE DEF u
<1>5. SameFirst(table, u)
  BY <1>3, <1>4, SameFirstTrans
<1>6. CASE fence = NoFd
  BY <1>2, <1>5, <1>6 DEF SetAcquireFence, u
<1>7. CASE fence # NoFd
  <2>1. PICK a \in Dup(u, fence) : table' = CloseFd(a.table, mAcquireFence[k])
    BY <1>2, <1>7 DEF SetAcquireFence, u
  <2>2. a.table \in Tables /\ SameFirst(u, a.table)
    BY <1>4, DupFirst
  <2>3. SameFirst(table, a.table)
    BY <1>5, <2>2, SameFirstTrans
  <2>4. SameFirst(a.table, table')
    BY <1>1, <2>1, <2>2, <2>3, SlotNotFirst, CloseFirst
  <2> QED BY <2>3, <2>4, SameFirstTrans
<1> QED BY <1>6, <1>7

(* Nor does the out-fence of a frame. *)
LEMMA AppliedFirst ==
  ASSUME NEW t \in Tables, NEW a \in Applied(t)
  PROVE  SameFirst(t, a.table)
<1>1. CASE a = [table |-> t, queue |-> releaseFences]
  BY <1>1 DEF SameFirst
<1>2. ASSUME NEW n \in Free(t), a = [table |-> Open(t, n, "out", "hal"), queue |-> Append(releaseFences, n)]
      PROVE  SameFirst(t, a.table)
  <2>1. n \in Fds /\ t[n].owner # "handle"
    BY DEF Free, Closed
  <2>2. /\ a.table[n].owner = "hal"
        /\ \A x \in Fds : x # n => a.table[x] = t[x]
    BY <1>2, <2>1 DEF Open, Tables
  <2> QED BY <2>1, <2>2 DEF SameFirst
<1> QED BY <1>1, <1>2 DEF Applied

(* The number stays as it is while the tables agree on it. *)
LEMMA FirstStays ==
  ASSUME FirstKept, SameFirst(table, table'), UNCHANGED started
  PROVE  FirstKept'
<1> SUFFICES ASSUME started
             PROVE  \E f \in Fds : /\ table'[f] = [file |-> FirstBuffer, owner |-> "handle"]
                                  /\ \A n \in Fds : table'[n].owner = "handle" => n = f
  BY DEF FirstKept
<1>1. PICK f \in Fds : /\ table[f] = [file |-> FirstBuffer, owner |-> "handle"]
                       /\ \A n \in Fds : table[n].owner = "handle" => n = f
  BY DEF FirstKept
<1>2. table'[f] = table[f]
  BY <1>1 DEF SameFirst
<1>3. \A n \in Fds : table'[n].owner = "handle" => table[n].owner = "handle"
  BY DEF SameFirst
<1> QED BY <1>1, <1>2, <1>3

(* Every step keeps it. *)
LEMMA NextFirst == Inv /\ FirstKept /\ [Next]_vars => FirstKept'
<1> SUFFICES ASSUME Inv, FirstKept, [Next]_vars PROVE FirstKept'
  OBVIOUS
<1>0. /\ table \in Tables /\ mFd \in Slots /\ mAcquireFence \in Slots
      /\ releaseFences \in Seq(Fds) /\ mHandle \in [Layers -> Fds \cup {NoFd}]
      /\ Owns(HalOf(table), mFd, mAcquireFence, releaseFences)
  BY DEF Inv, TypeOK, Tables, Slots
<1>1. CASE PushFirstFrame
  <2>1. PICK n \in Free(table) : \E b \in Dup(Open(table, n, FirstBuffer, "handle"), n) :
          \E a \in Applied(b.table) : table' = a.table
    BY <1>1 DEF PushFirstFrame
  <2> DEFINE t == Open(table, n, FirstBuffer, "handle")
  <2>2. PICK b \in Dup(t, n) : \E a \in Applied(b.table) : table' = a.table
    BY <2>1
  <2>3. PICK a \in Applied(b.table) : table' = a.table
    BY <2>2
  <2>4. table = [x \in Fds |-> Closed] /\ n \in Fds
    BY <1>1 DEF PushFirstFrame, Inv, NotStarted, Free
  <2>5. /\ t \in Tables /\ t[n] = [file |-> FirstBuffer, owner |-> "handle"]
        /\ \A x \in Fds : x # n => t[x] = table[x]
    <3>1. FirstBuffer \in Files /\ "handle" \in Owners
      BY DEF Files, Owners
    <3> QED BY <1>0, <2>4, <3>1, OpenFacts
  <2> HIDE DEF t
  <2>6. \A x \in Fds : t[x].owner = "handle" => x = n
    BY <2>4, <2>5 DEF Closed
  <2>7. b.table \in Tables /\ SameFirst(t, b.table)
    BY <2>4, <2>5, DupFirst
  <2>8. SameFirst(t, table')
    BY <2>3, <2>7, AppliedFirst, SameFirstTrans
  <2>9. /\ table'[n] = [file |-> FirstBuffer, owner |-> "handle"]
        /\ \A x \in Fds : table'[x].owner = "handle" => x = n
    BY <2>4, <2>5, <2>6, <2>8 DEF SameFirst
  <2> QED BY <2>4, <2>9 DEF FirstKept
<1>2. CASE Commit
  <2>1. PICK a \in Applied(table) : ReleaseFenceFd(a)
    BY <1>2 DEF Commit
  <2>2. SameFirst(table, a.table)
    BY <1>0, AppliedFirst
  <2>3. /\ a.table \in Tables /\ a.queue \in Seq(Fds)
        /\ Owns(HalOf(a.table), mFd, mAcquireFence, a.queue)
    BY <1>0, AppliedFacts
  <2>4. SameFirst(a.table, table')
    <3>1. CASE a.queue = <<>>
      BY <2>1, <3>1 DEF ReleaseFenceFd, SameFirst
    <3>2. CASE a.queue # <<>>
      <4>1. table' = [a.table EXCEPT ![Head(a.queue)].owner = "caller"]
        BY <2>1, <3>2 DEF ReleaseFenceFd
      <4> DEFINE h == Head(a.queue)
      <4>2. h = a.queue[1] /\ 1 \in 1 .. Len(a.queue) /\ h \in Fds
        BY <2>3, <3>2
      <4>3. h \in HalOf(a.table)
        BY <2>3, <4>2 DEF Owns
      <4>4. a.table[h].owner = "hal" /\ a.table[h] \in [file : Files, owner : Owners]
        BY <2>3, <4>3 DEF HalOf, Tables, Closed
      <4> HIDE DEF h
      <4>5. table'[h].owner = "caller" /\ \A x \in Fds : x # h => table'[x] = a.table[x]
        BY <2>3, <4>1, <4>2, <4>4 DEF Tables, h
      <4> QED BY <4>4, <4>5 DEF SameFirst
    <3> QED BY <3>1, <3>2
  <2> QED BY <1>2, <2>2, <2>4, SameFirstTrans, FirstStays DEF Commit
<1>3. ASSUME NEW file \in Buffers \cup Fences, CallerOpens(file) PROVE FirstKept'
  <2>1. PICK n \in Free(table) : table' = Open(table, n, file, "caller")
    BY <1>3 DEF CallerOpens
  <2>2. n \in Fds /\ table[n].owner # "handle"
    BY DEF Free, Closed
  <2>3. table'[n].owner = "caller" /\ \A x \in Fds : x # n => table'[x] = table[x]
    BY <1>0, <2>1, <2>2 DEF Open, Tables
  <2>4. SameFirst(table, table')
    BY <2>2, <2>3 DEF SameFirst
  <2> QED BY <1>3, <2>4, FirstStays DEF CallerOpens
<1>4. ASSUME NEW n \in Fds, CallerCloses(n) PROVE FirstKept'
  <2>1. table[n].owner = "caller" /\ table' = [table EXCEPT ![n] = Closed]
    BY <1>4 DEF CallerCloses
  <2>2. table'[n].owner # "handle" /\ \A x \in Fds : x # n => table'[x] = table[x]
    BY <1>0, <2>1 DEF Tables, Closed
  <2>3. SameFirst(table, table')
    BY <2>1, <2>2 DEF SameFirst
  <2> QED BY <1>4, <2>3, FirstStays DEF CallerCloses
<1>5. ASSUME NEW k \in AllLayers \ {"cursor"}, NEW n \in Callers(Buffers),
             NEW fence \in Callers(Fences) \cup {NoFd}, SetLayerBuffer(k, n, fence)
      PROVE  FirstKept'
  <2>1. n \in Fds /\ fence \in Fds \cup {NoFd}
    BY DEF Callers
  <2>2. Attach(k, n, fence) /\ UNCHANGED started
    BY <1>5 DEF SetLayerBuffer
  <2> QED BY <2>1, <2>2, AttachFirst, FirstStays
<1>6. ASSUME NEW l \in Layers, PrepareCursor(l) PROVE FirstKept'
  <2>1. Attach("cursor", mHandle[l], NoFd) /\ UNCHANGED started
    BY <1>6 DEF PrepareCursor
  <2>2. "cursor" \in AllLayers /\ mHandle[l] \in Fds \cup {NoFd}
    BY <1>0 DEF AllLayers
  <2> QED BY <2>1, <2>2, AttachFirst, FirstStays
<1>7. ASSUME NEW l \in Layers, DestroyLayer(l) PROVE FirstKept'
  <2>1. table' = CloseFd(CloseFd(table, mFd[l]), mAcquireFence[l]) /\ UNCHANGED started
    BY <1>7 DEF DestroyLayer
  <2>2. l \in AllLayers /\ mFd[l] \in Fds \cup {NoFd} /\ mAcquireFence[l] \in Fds \cup {NoFd}
    BY <1>0 DEF AllLayers, Slots
  <2> DEFINE t == CloseFd(table, mFd[l])
  <2>3. SameFirst(table, table)
    BY DEF SameFirst
  <2>4. t \in Tables /\ SameFirst(table, t)
    BY <1>0, <2>2, <2>3, SlotNotFirst, CloseFirst
  <2> HIDE DEF t
  <2>5. SameFirst(t, table')
    <3>1. mAcquireFence[l] # NoFd => t[mAcquireFence[l]].owner # "handle"
      BY <2>2, <2>4, SlotNotFirst
    <3>2. SameFirst(t, CloseFd(t, mAcquireFence[l]))
      BY <2>2, <2>4, <3>1, CloseFirst
    <3> QED BY <2>1, <3>2 DEF t
  <2> QED BY <2>1, <2>4, <2>5, SameFirstTrans, FirstStays
<1>8. CASE UNCHANGED vars
  BY <1>8 DEF vars, FirstKept
<1> QED BY <1>1, <1>2, <1>3, <1>4, <1>5, <1>6, <1>7, <1>8 DEF Next

(* What holds in every reachable state. *)
LEMMA Invariant == Spec => [](Inv /\ FirstKept)
<1>1. Init => FirstKept
  BY DEF Init, FirstKept
<1>2. Inv /\ FirstKept /\ [Next]_vars => (Inv /\ FirstKept)'
  BY NextInv, NextFirst
<1> QED BY InitInv, <1>1, <1>2, PTL DEF Spec

-----------------------------------------------------------------------------
(* Every number in a slot, a queue or a handle is one of the table's.      *)
THEOREM TypeCorrect == Spec => []TypeOK
<1>1. Inv => TypeOK
  BY DEF Inv
<1> QED BY Invariant, <1>1, PTL

(* The places of Held are the slots and the queue that Owns speaks of.     *)
LEMMA HeldCases ==
  ASSUME Inv, NEW p \in Holding
  PROVE  \/ \E k \in AllLayers : p = <<"buffer", k>> /\ Held(p) = mFd[k] /\ mFd[k] # NoFd
         \/ \E k \in AllLayers : p = <<"fence", k>> /\ Held(p) = mAcquireFence[k] /\ mAcquireFence[k] # NoFd
         \/ \E i \in 1 .. Len(releaseFences) : p = <<"queue", i>> /\ Held(p) = releaseFences[i]
<1>1. p \in Places /\ Held(p) # NoFd
  BY DEF Holding
<1>2. ASSUME NEW k \in AllLayers, p = <<"buffer", k>> PROVE Held(p) = mFd[k]
  BY <1>2 DEF Held
<1>3. ASSUME NEW k \in AllLayers, p = <<"fence", k>> PROVE Held(p) = mAcquireFence[k]
  BY <1>3 DEF Held
<1>4. ASSUME NEW i \in 1 .. Len(releaseFences), p = <<"queue", i>> PROVE Held(p) = releaseFences[i]
  BY <1>4 DEF Held
<1> QED BY <1>1, <1>2, <1>3, <1>4 DEF Places

(* However calls, failed dups and failed commits follow each other, a      *)
(* layer or the queue never closes or hands out a number that is not the   *)
(* HAL's own, or twice: it cannot hit a file that took the number since.   *)
THEOREM HeldAreOwnAlways == Spec => []HeldAreOwn
<1>1. Inv => HeldAreOwn
  <2> SUFFICES ASSUME Inv, NEW p \in Holding
               PROVE  /\ table[Held(p)].owner = "hal"
                      /\ \A q \in Holding : Held(p) = Held(q) => p = q
    BY DEF HeldAreOwn
  <2>1. Held(p) \in HalOf(table)
    BY HeldCases DEF Inv, Owns, Within
  <2>2. ASSUME NEW q \in Holding, Held(p) = Held(q) PROVE p = q
    <3>1. CASE \E k \in AllLayers : p = <<"buffer", k>> /\ Held(p) = mFd[k] /\ mFd[k] # NoFd
      BY <2>2, <3>1, HeldCases DEF Inv, Owns, Apart, NotInBoth, NotQueued
    <3>2. CASE \E k \in AllLayers : p = <<"fence", k>> /\ Held(p) = mAcquireFence[k]
                                    /\ mAcquireFence[k] # NoFd
      BY <2>2, <3>2, HeldCases DEF Inv, Owns, Apart, NotInBoth, NotQueued
    <3>3. CASE \E i \in 1 .. Len(releaseFences) : p = <<"queue", i>> /\ Held(p) = releaseFences[i]
      BY <2>2, <3>3, HeldCases DEF Inv, Owns, NotQueued
    <3> QED BY <3>1, <3>2, <3>3, HeldCases
  <2> QED BY <2>1, <2>2 DEF HalOf
<1> QED BY Invariant, <1>1, PTL

(* Whichever dup or commit failed, every descriptor the HAL has opened is  *)
(* still in a slot or in the queue, with the one exception of the number   *)
(* in the handle PushFirstFrame allocated and never frees.                 *)
THEOREM OnlyFirstHandleLostAlways == Spec => []OnlyFirstHandleLost
<1>1. ASSUME Inv, NEW n \in Fds, table[n].owner = "hal" PROVE \E p \in Holding : Held(p) = n
  <2>1. n \in HalOf(table) /\ n # NoFd
    BY <1>1, FdsAssumption DEF HalOf
  <2>2. ASSUME NEW k \in AllLayers, mFd[k] = n PROVE \E p \in Holding : Held(p) = n
    <3>1. <<"buffer", k>> \in Places /\ Held(<<"buffer", k>>) = n
      BY <2>2 DEF Places, Held
    <3> QED BY <2>1, <3>1 DEF Holding
  <2>3. ASSUME NEW k \in AllLayers, mAcquireFence[k] = n PROVE \E p \in Holding : Held(p) = n
    <3>1. <<"fence", k>> \in Places /\ Held(<<"fence", k>>) = n
      BY <2>3 DEF Places, Held
    <3> QED BY <2>1, <3>1 DEF Holding
  <2>4. ASSUME NEW i \in 1 .. Len(releaseFences), releaseFences[i] = n
        PROVE  \E p \in Holding : Held(p) = n
    <3>1. <<"queue", i>> \in Places /\ Held(<<"queue", i>>) = n
      BY <2>4 DEF Places, Held
    <3> QED BY <2>1, <3>1 DEF Holding
  <2> QED BY <1>1, <2>1, <2>2, <2>3, <2>4 DEF Inv, Owns
<1>2. ASSUME Inv, NEW p \in Holding PROVE Held(p) \in Fds /\ table[Held(p)].owner = "hal"
  <2>1. Held(p) \in HalOf(table)
    BY <1>2, HeldCases DEF Inv, Owns, Within
  <2> QED BY <2>1 DEF HalOf
<1>3. Inv => Lost = {n \in Fds : table[n].owner = "handle"}
  <2> SUFFICES ASSUME Inv, NEW n \in Fds
               PROVE  (table[n].owner \in {"hal", "handle"} /\ \A p \in Holding : Held(p) # n)
                        <=> table[n].owner = "handle"
    BY DEF Lost
  <2> QED BY <1>1, <1>2
<1>4. Inv /\ FirstKept => OnlyFirstHandleLost
  <2> SUFFICES ASSUME Inv, FirstKept PROVE OnlyFirstHandleLost
    OBVIOUS
  <2>1. CASE started
    <3>1. PICK f \in Fds : /\ table[f] = [file |-> FirstBuffer, owner |-> "handle"]
                           /\ \A n \in Fds : table[n].owner = "handle" => n = f
      BY <2>1 DEF FirstKept
    <3>2. {n \in Fds : table[n].owner = "handle"} = {f} /\ table[f].file = FirstBuffer
      BY <3>1
    <3> QED BY <1>3, <2>1, <3>2 DEF OnlyFirstHandleLost
  <2>2. CASE ~started
    <3>1. {n \in Fds : table[n].owner = "handle"} = {}
      BY <2>2 DEF Inv, NotStarted, Closed
    <3> QED BY <1>3, <2>2, <3>1 DEF OnlyFirstHandleLost
  <2> QED BY <2>1, <2>2
<1> QED BY Invariant, <1>4, PTL

(* The fence a layer passes to the kernel is the one it was given last.    *)
THEOREM WaitsForLastFenceAlways == Spec => []WaitsForLastFence
<1>1. Inv => WaitsForLastFence
  BY DEF Inv
<1> QED BY Invariant, <1>1, PTL

(* The cursor layer shows the buffer of the layer it is copied from, if    *)
(* the caller keeps the handle open until the layer has another one.       *)
THEOREM CursorShowsLayerAlways == Spec => CursorShowsLayer
<1>1. ASSUME Inv, NEW l \in Layers, PrepareCursor(l), keeps, mFd'["cursor"] # NoFd
      PROVE  table'[mFd'["cursor"]].file = given[l]
  <2>1. mHandle[l] # NoFd /\ Attach("cursor", mHandle[l], NoFd)
    BY <1>1 DEF PrepareCursor
  <2>2. "cursor" \in AllLayers /\ mHandle[l] \in Fds \cup {NoFd}
    BY <1>1 DEF AllLayers, Inv, TypeOK
  <2>3. table'[mFd'["cursor"]].file = table[mHandle[l]].file
    BY <1>1, <2>1, <2>2, AttachFacts
  <2>4. table[mHandle[l]].file = given[l]
    BY <1>1, <2>1 DEF Inv, HandlesKept
  <2> QED BY <2>3, <2>4
<1>2. Inv /\ [Next]_vars =>
        [\A l \in Layers :
           PrepareCursor(l) /\ keeps /\ mFd'["cursor"] # NoFd =>
             table'[mFd'["cursor"]].file = given[l]]_vars
  BY <1>1
<1> QED BY Invariant, <1>2, PTL DEF Spec, CursorShowsLayer
=============================================================================
