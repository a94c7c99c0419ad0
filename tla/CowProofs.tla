----------------------------- MODULE CowProofs -----------------------------
(* Proofs about Cow, for any number of processes, pages and frames.        *)
EXTENDS Cow, FiniteSetTheorems, TLAPS

(* Two pages of one process are never mapped to the same frame.            *)
PagesDistinct ==
  \A p \in Proc : HasPt(p) =>
    \A v1, v2 \in Va : pa[p][v1] = pa[p][v2] => v1 = v2

(* The inductive invariant.                                                *)
IInv == /\ TypeOK
        /\ PagesDistinct
        /\ WritableExclusive
        /\ RefcntCovers
        /\ LocksMatchFaults

-----------------------------------------------------------------------------
(* There are finitely many pages, and NoVa is none of them.                *)
LEMMA VaFacts == IsFiniteSet(Va) /\ NoVa \notin Va
BY FS_Interval, NVaAssumption DEF Va, NoVa

(* A page of a process is one of finitely many.                            *)
LEMMA PairsFinite == IsFiniteSet(Proc \X Va)
BY FS_Product, FiniteAssumption, VaFacts

(* So finitely many are mapped to a frame, and can be counted.             *)
LEMMA MappingFinite ==
  ASSUME NEW f
  PROVE  /\ IsFiniteSet(Mapping(f)) /\ IsFiniteSet(Counted(f))
         /\ Cardinality(Counted(f)) \in Nat
<1>1. Mapping(f) \in SUBSET (Proc \X Va) /\ Counted(f) \in SUBSET (Proc \X Va)
  BY DEF Mapping, Counted
<1> QED BY <1>1, PairsFinite, FS_Subset, FS_CardinalityType

(* A set with an element x and at most one element is {x}.                 *)
LEMMA AtMostOne ==
  ASSUME NEW S, IsFiniteSet(S), NEW x \in S, Cardinality(S) <= 1
  PROVE  S = {x}
<1>1. Cardinality({x}) = 1 /\ Cardinality({x}) <= Cardinality(S)
  BY FS_Singleton, FS_Subset
<1>2. Cardinality(S) = Cardinality({x})
  BY <1>1, FS_CardinalityType
<1> QED BY <1>2, FS_Subset

(* A page that counts on its frame makes the reference count positive.     *)
LEMMA CountedPositive ==
  ASSUME IInv, NEW p \in Proc, HasPt(p), NEW va \in Va, fault[p] # va
  PROVE  /\ <<p, va>> \in Counted(pa[p][va]) /\ pa[p][va] \in Frame
         /\ refcnt[pa[p][va]] \in Nat /\ refcnt[pa[p][va]] >= 1
<1> DEFINE f == pa[p][va]
<1>1. f \in Frame /\ refcnt[f] \in Nat
  BY DEF IInv, TypeOK
<1>2. <<p, va>> \in Counted(f)
  BY DEF Counted, Mapping
<1>3. Cardinality(Counted(f)) # 0
  BY <1>2, MappingFinite, FS_EmptySet
<1>4. refcnt[f] >= Cardinality(Counted(f))
  BY <1>1 DEF IInv, RefcntCovers
<1> QED BY <1>1, <1>2, <1>3, <1>4, MappingFinite

(* Nobody handles a fault on a frame whose lock is free.                   *)
LEMMA UnlockedCounted ==
  ASSUME IInv, NEW f \in Frame, lock[f] = Null
  PROVE  Counted(f) = Mapping(f)
<1>1. ASSUME NEW m \in Mapping(f), fault[m[1]] = m[2] PROVE FALSE
  <2>1. m[1] \in Proc /\ m[2] \in Va /\ pa[m[1]][m[2]] = f
    BY DEF Mapping
  <2>2. fault[m[1]] # NoVa
    BY <1>1, <2>1, VaFacts
  <2> QED BY <1>1, <2>1, <2>2, NullAssumption DEF IInv, LocksMatchFaults
<1> QED BY <1>1 DEF Counted

-----------------------------------------------------------------------------
(* make_from_elf gives each page a frame of its own, counted once.         *)
LEMMA InitIInv == Init => IInv
<1> SUFFICES ASSUME Init PROVE IInv OBVIOUS
<1>1. PICK p \in Proc, m \in [Va -> Frame] :
        /\ \A v1, v2 \in Va : m[v1] = m[v2] => v1 = v2
        /\ state = [r \in Proc |-> IF r = p THEN "live" ELSE "free"]
        /\ pa = [r \in Proc |-> m]
        /\ perm = [r \in Proc |-> [va \in Va |-> "w"]]
        /\ used = {m[va] : va \in Va}
        /\ refcnt = [f \in Frame |-> IF f \in used THEN 1 ELSE 0]
        /\ lock = [f \in Frame |-> Null]
        /\ data \in [Frame -> Val]
        /\ fault = [r \in Proc |-> NoVa]
        /\ mode = "run"
  BY DEF Init, LoadElf
<1>2. TypeOK
  BY <1>1 DEF TypeOK
<1>3. PagesDistinct
  BY <1>1 DEF PagesDistinct, HasPt
<1>4. ASSUME NEW f \in Frame
      PROVE  /\ \A va \in Va : m[va] = f => Mapping(f) = {<<p, va>>}
             /\ f \notin used => Mapping(f) = {}
  BY <1>1 DEF Mapping, HasPt
<1>5. WritableExclusive
  BY <1>1 DEF WritableExclusive, HasPt
<1>6. RefcntCovers
  <2> SUFFICES ASSUME NEW f \in Frame
               PROVE  /\ refcnt[f] >= Cardinality(Counted(f))
                      /\ Mapping(f) # {} => f \in used
    BY DEF RefcntCovers
  <2>1. Counted(f) = Mapping(f)
    BY <1>1, VaFacts DEF Counted, Mapping
  <2>2. CASE f \in used
    <3>1. PICK va \in Va : m[va] = f
      BY <1>1, <2>2
    <3>2. Cardinality(Mapping(f)) = 1
      BY <1>4, <3>1, FS_Singleton
    <3> QED BY <1>1, <2>1, <2>2, <3>2
  <2>3. CASE f \notin used
    <3>1. Cardinality(Mapping(f)) = 0
      BY <1>4, <2>3, FS_EmptySet
    <3> QED BY <1>1, <1>4, <2>1, <2>3, <3>1
  <2> QED BY <2>2, <2>3
<1>7. LocksMatchFaults
  BY <1>1 DEF LocksMatchFaults
<1> QED BY <1>2, <1>3, <1>5, <1>6, <1>7 DEF IInv

-----------------------------------------------------------------------------
(* Steps that leave page tables, counts and locks alone.                   *)
LEMMA StoreIInv ==
  ASSUME IInv, UNCHANGED <<state, pa, perm, refcnt, lock, used, fault>>,
         data' \in [Frame -> Val], mode' \in {"run", "spin", "panic"}
  PROVE  IInv'
<1>1. TypeOK'
  BY DEF IInv, TypeOK
<1>2. PagesDistinct' /\ WritableExclusive' /\ LocksMatchFaults'
  BY DEF IInv, PagesDistinct, WritableExclusive, LocksMatchFaults, HasPt, Mapping
<1>3. RefcntCovers'
  BY DEF IInv, RefcntCovers, Counted, Mapping, HasPt
<1> QED BY <1>1, <1>2, <1>3 DEF IInv

(* pgflt_handler takes the page over only if no other page is mapped to    *)
(* its frame (trap.d:60).                                                  *)
LEMMA TakeOverIInv ==
  ASSUME IInv, NEW p \in Proc, NEW va \in Va, TakeOver(p, va)
  PROVE  IInv'
<1> DEFINE f == pa[p][va]
<1>1. /\ HasPt(p) /\ fault[p] # va /\ f \in Frame /\ lock[f] = Null /\ refcnt[f] = 1
      /\ perm[p][va] = "cow"
  BY VaFacts DEF TakeOver, WriteFault, Running, HasPt, IInv, TypeOK
<1>2. Mapping(f) = {<<p, va>>}
  <2>1. <<p, va>> \in Counted(f) /\ Counted(f) = Mapping(f)
    BY <1>1, CountedPositive, UnlockedCounted
  <2>2. Cardinality(Mapping(f)) <= 1
    BY <1>1, <2>1 DEF IInv, RefcntCovers
  <2> QED BY <2>1, <2>2, MappingFinite, AtMostOne
<1>3. \A h : Mapping(h)' = Mapping(h) /\ Counted(h)' = Counted(h)
  BY DEF TakeOver, Counted, Mapping, HasPt
<1>4. TypeOK'
  BY DEF TakeOver, IInv, TypeOK
<1>5. PagesDistinct'
  BY DEF TakeOver, IInv, PagesDistinct, HasPt
<1>6. WritableExclusive'
  <2> SUFFICES ASSUME NEW q \in Proc, NEW r \in Proc, NEW v \in Va, NEW w \in Va,
                      HasPt(q)', HasPt(r)', perm'[q][v] = "w", pa'[r][w] = pa'[q][v]
               PROVE  r = q /\ w = v
    BY DEF WritableExclusive
  <2>1. perm[q][v] = "w" \/ (q = p /\ v = va)
    BY DEF TakeOver, IInv, TypeOK
  <2>2. HasPt(q) /\ HasPt(r) /\ pa[r][w] = pa[q][v]
    BY DEF TakeOver, HasPt
  <2>3. CASE q = p /\ v = va
    <3>1. <<r, w>> \in Mapping(f)
      BY <2>2, <2>3 DEF Mapping
    <3> QED BY <1>2, <2>3, <3>1
  <2>4. CASE perm[q][v] = "w"
    BY <2>2, <2>4 DEF IInv, WritableExclusive
  <2> QED BY <2>1, <2>3, <2>4
<1>7. RefcntCovers'
  BY <1>3 DEF TakeOver, IInv, RefcntCovers
<1>8. LocksMatchFaults'
  BY <1>1 DEF TakeOver, IInv, LocksMatchFaults, TypeOK
<1> QED BY <1>4, <1>5, <1>6, <1>7, <1>8 DEF IInv

(* A frame that kalloc hands out is mapped by no page and its lock is free.*)
LEMMA FreshFrame ==
  ASSUME IInv, NEW g \in Frame, g \notin used
  PROVE  Mapping(g) = {} /\ lock[g] = Null
<1>1. Mapping(g) = {}
  BY DEF IInv, RefcntCovers
<1>2. ASSUME lock[g] # Null PROVE FALSE
  <2> DEFINE p == lock[g]
  <2>1. p \in Proc /\ fault[p] # NoVa /\ pa[p][fault[p]] = g /\ fault[p] \in Va
    BY <1>2 DEF IInv, LocksMatchFaults, TypeOK
  <2>2. <<p, fault[p]>> \in Mapping(g)
    BY <2>1 DEF IInv, LocksMatchFaults, Mapping, HasPt
  <2> QED BY <1>1, <2>2
<1> QED BY <1>1, <1>2

(* What copying page va of p to the frame g does to the mappings.          *)
LEMMA CopyToMappings ==
  ASSUME IInv, NEW p \in Proc, HasPt(p), NEW va \in Va, NEW g \in Frame,
         CopyTo(p, va, g), state' = state
  PROVE  /\ Mapping(g)' = {<<p, va>>}
         /\ \A f : f # g => Mapping(f)' = Mapping(f) \ {<<p, va>>}
         /\ pa'[p][va] = g /\ g # pa[p][va]
         /\ \A q \in Proc, v \in Va : <<q, v>> # <<p, va>> =>
              pa'[q][v] = pa[q][v] /\ perm'[q][v] = perm[q][v]
         /\ PagesDistinct' /\ WritableExclusive'
<1> USE DEF CopyTo
<1>1. Mapping(g) = {}
  BY FreshFrame
<1>2. /\ pa'[p][va] = g
      /\ \A q \in Proc, v \in Va : <<q, v>> # <<p, va>> =>
              pa'[q][v] = pa[q][v] /\ perm'[q][v] = perm[q][v]
  BY DEF IInv, TypeOK
<1>3. ASSUME NEW q \in Proc, NEW v \in Va, HasPt(q) PROVE pa[q][v] # g
  <2>1. <<q, v>> \in Mapping(pa[q][v])
    BY <1>3 DEF Mapping
  <2> QED BY <1>1, <2>1
<1>4. \A q \in Proc : HasPt(q)' = HasPt(q)
  BY DEF HasPt
<1>5. Mapping(g)' = {<<p, va>>}
  BY <1>2, <1>3, <1>4 DEF Mapping
<1>6. \A f : f # g => Mapping(f)' = Mapping(f) \ {<<p, va>>}
  BY <1>2, <1>4 DEF Mapping
<1>7. PagesDistinct'
  <2> SUFFICES ASSUME NEW q \in Proc, HasPt(q)', NEW v1 \in Va, NEW v2 \in Va,
                      pa'[q][v1] = pa'[q][v2]
               PROVE  v1 = v2
    BY DEF PagesDistinct
  <2>1. <<q, v1>> # <<p, va>> => pa'[q][v1] = pa[q][v1] /\ pa[q][v1] # g
    BY <1>2, <1>3, <1>4
  <2>2. <<q, v2>> # <<p, va>> => pa'[q][v2] = pa[q][v2] /\ pa[q][v2] # g
    BY <1>2, <1>3, <1>4
  <2>3. pa[q][v1] = pa[q][v2] => v1 = v2
    BY <1>4 DEF IInv, PagesDistinct
  <2> QED BY <1>2, <2>1, <2>2, <2>3
<1>8. WritableExclusive'
  <2> SUFFICES ASSUME NEW q \in Proc, NEW r \in Proc, NEW v \in Va, NEW w \in Va,
                      HasPt(q)', HasPt(r)', perm'[q][v] = "w", pa'[r][w] = pa'[q][v]
               PROVE  r = q /\ w = v
    BY DEF WritableExclusive
  <2>1. HasPt(q) /\ HasPt(r)
    BY <1>4
  <2>2. <<r, w>> # <<p, va>> => pa'[r][w] = pa[r][w] /\ pa[r][w] # g
    BY <1>2, <1>3, <2>1
  <2>3. <<q, v>> # <<p, va>> =>
          pa'[q][v] = pa[q][v] /\ pa[q][v] # g /\ perm[q][v] = "w"
    BY <1>2, <1>3, <2>1
  <2>4. CASE <<q, v>> = <<p, va>> \/ <<r, w>> = <<p, va>>
    BY <1>2, <2>2, <2>3, <2>4
  <2>5. CASE <<q, v>> # <<p, va>> /\ <<r, w>> # <<p, va>>
    BY <2>1, <2>2, <2>3, <2>5 DEF IInv, WritableExclusive
  <2> QED BY <2>4, <2>5
<1> QED BY <1>2, <1>3, <1>5, <1>6, <1>7, <1>8

(* pgflt_handler copies a shared page: one mapping and one reference move  *)
(* from the old frame to the new one (trap.d:67-89).                       *)
LEMMA CopyIInv ==
  ASSUME IInv, NEW p \in Proc, NEW va \in Va, NEW g \in Frame, Copy(p, va, g)
  PROVE  IInv'
<1> DEFINE f == pa[p][va]
<1>1. /\ HasPt(p) /\ fault[p] = NoVa /\ fault[p] # va /\ f \in Frame
      /\ lock[f] = Null /\ CopyTo(p, va, g) /\ state' = state
  BY VaFacts DEF Copy, WriteFault, Running, HasPt, IInv, TypeOK
<1>2. /\ Mapping(g)' = {<<p, va>>}
      /\ \A h : h # g => Mapping(h)' = Mapping(h) \ {<<p, va>>}
      /\ pa'[p][va] = g /\ g # f
      /\ \A q \in Proc, v \in Va : <<q, v>> # <<p, va>> =>
           pa'[q][v] = pa[q][v] /\ perm'[q][v] = perm[q][v]
      /\ PagesDistinct' /\ WritableExclusive'
  BY <1>1, CopyToMappings
<1>3. <<p, va>> \in Counted(f) /\ refcnt[f] \in Nat /\ refcnt[f] >= 1
  BY <1>1, CountedPositive
<1>4. TypeOK'
  <2>1. refcnt \in [Frame -> Nat] /\ f # g
    BY <1>2 DEF IInv, TypeOK
  <2>2. refcnt' = [refcnt EXCEPT ![f] = refcnt[f] - 1, ![g] = refcnt[g] + 1]
    BY DEF Copy
  <2>3. refcnt[f] - 1 \in Nat /\ refcnt[g] + 1 \in Nat
    BY <1>3, <2>1
  <2>4. refcnt' \in [Frame -> Nat]
    <3> HIDE DEF f
    <3> QED BY <2>1, <2>2, <2>3
  <2> QED BY <1>1, <2>4 DEF Copy, CopyTo, IInv, TypeOK
<1>5. RefcntCovers'
  <2> SUFFICES ASSUME NEW h \in Frame
               PROVE  /\ refcnt'[h] >= Cardinality(Counted(h)')
                      /\ Mapping(h)' # {} => h \in used'
    BY DEF RefcntCovers
  <2>1. fault' = fault /\ used' = used \cup {g}
    BY DEF Copy, CopyTo
  <2>2. CASE h = g
    <3>1. Mapping(h)' = {<<p, va>>}
      BY <1>2, <2>2 DEF Mapping
    <3>2. Counted(h)' = {<<p, va>>}
      BY <1>1, <2>1, <3>1 DEF Counted
    <3>3. Cardinality(Counted(h)') = 1
      BY <3>2, FS_Singleton
    <3>4. refcnt'[h] = refcnt[h] + 1 /\ refcnt[h] \in Nat
      BY <1>2, <2>2 DEF Copy, IInv, TypeOK
    <3> QED BY <2>1, <2>2, <3>3, <3>4
  <2>3. CASE h # g
    <3>1. Counted(h)' = Counted(h) \ {<<p, va>>}
      BY <1>2, <2>1, <2>3 DEF Counted
    <3>2. Cardinality(Counted(h)') = IF <<p, va>> \in Counted(h)
                                     THEN Cardinality(Counted(h)) - 1
                                     ELSE Cardinality(Counted(h))
      BY <3>1, MappingFinite, FS_RemoveElement
    <3>3. refcnt'[h] = IF h = f THEN refcnt[h] - 1 ELSE refcnt[h]
      BY <2>3 DEF Copy, IInv, TypeOK
    <3>4. <<p, va>> \in Counted(h) <=> h = f
      BY <1>3 DEF Counted, Mapping
    <3>5. refcnt[h] >= Cardinality(Counted(h)) /\ refcnt[h] \in Nat
      BY DEF IInv, RefcntCovers, TypeOK
    <3>6. Mapping(h)' # {} => h \in used'
      BY <1>2, <2>1, <2>3 DEF IInv, RefcntCovers
    <3> QED BY <3>2, <3>3, <3>4, <3>5, <3>6, MappingFinite
  <2> QED BY <2>2, <2>3
<1>6. LocksMatchFaults'
  <2>1. /\ fault' = fault /\ lock' = lock /\ state' = state
    BY DEF Copy
  <2>2. ASSUME NEW q \in Proc, fault[q] # NoVa
        PROVE  fault[q] \in Va /\ <<q, fault[q]>> # <<p, va>>
    BY <1>1, <2>2 DEF IInv, TypeOK
  <2>3. ASSUME NEW h \in Frame, lock[h] # Null
        PROVE  lock[h] \in Proc
    BY <2>3 DEF IInv, TypeOK
  <2> QED BY <1>2, <2>1, <2>2, <2>3 DEF IInv, LocksMatchFaults
<1> QED BY <1>2, <1>4, <1>5, <1>6 DEF IInv

(* Without memory the faulting process gives up its reference and keeps    *)
(* the page mapped and locked.                                             *)
LEMMA CopyBlockIInv ==
  ASSUME IInv, NEW p \in Proc, NEW va \in Va, CopyBlock(p, va)
  PROVE  IInv'
<1> DEFINE f == pa[p][va]
<1>1. /\ HasPt(p) /\ state[p] = "live" /\ fault[p] = NoVa /\ fault[p] # va /\ f \in Frame
      /\ lock[f] = Null /\ perm[p][va] = "cow"
  BY VaFacts DEF CopyBlock, WriteFault, Running, HasPt, IInv, TypeOK
<1>2. <<p, va>> \in Counted(f) /\ refcnt[f] \in Nat /\ refcnt[f] >= 1
  BY <1>1, CountedPositive
<1>3. TypeOK'
  <2>1. refcnt' \in [Frame -> Nat]
    BY <1>1, <1>2 DEF CopyBlock, IInv, TypeOK
  <2> QED BY <1>1, <2>1 DEF CopyBlock, IInv, TypeOK
<1>4. PagesDistinct' /\ WritableExclusive'
  BY DEF CopyBlock, IInv, PagesDistinct, WritableExclusive, HasPt
<1>5. RefcntCovers'
  <2> SUFFICES ASSUME NEW h \in Frame
               PROVE  /\ refcnt'[h] >= Cardinality(Counted(h)')
                      /\ Mapping(h)' # {} => h \in used'
    BY DEF RefcntCovers
  <2>1. Mapping(h)' = Mapping(h)
    BY DEF CopyBlock, Mapping, HasPt
  <2>2. \A q \in Proc : fault'[q] = IF q = p THEN va ELSE fault[q]
    BY DEF CopyBlock, IInv, TypeOK
  <2>3. Counted(h)' = Counted(h) \ {<<p, va>>}
    BY <1>1, <2>1, <2>2, VaFacts DEF Counted, Mapping
  <2>4. Cardinality(Counted(h)') = IF <<p, va>> \in Counted(h)
                                   THEN Cardinality(Counted(h)) - 1
                                   ELSE Cardinality(Counted(h))
    BY <2>3, MappingFinite, FS_RemoveElement
  <2>5. refcnt'[h] = IF h = f THEN refcnt[h] - 1 ELSE refcnt[h]
    BY DEF CopyBlock, IInv, TypeOK
  <2>6. <<p, va>> \in Counted(h) <=> h = f
    BY <1>2 DEF Counted, Mapping
  <2>7. refcnt[h] >= Cardinality(Counted(h)) /\ refcnt[h] \in Nat
    BY DEF IInv, RefcntCovers, TypeOK
  <2>8. Mapping(h)' # {} => h \in used'
    BY <2>1 DEF IInv, RefcntCovers, CopyBlock
  <2> QED BY <2>4, <2>5, <2>6, <2>7, <2>8, MappingFinite
<1>6. LocksMatchFaults'
  <2>1. \A q \in Proc : fault'[q] = IF q = p THEN va ELSE fault[q]
    BY DEF CopyBlock, IInv, TypeOK
  <2>2. \A h \in Frame : lock'[h] = IF h = f THEN p ELSE lock[h]
    BY DEF CopyBlock, IInv, TypeOK
  <2>3. UNCHANGED <<state, pa, perm>> /\ va # NoVa
    BY VaFacts DEF CopyBlock
  <2>4. ASSUME NEW q \in Proc, q # p, fault[q] # NoVa
        PROVE  pa[q][fault[q]] # f /\ pa[q][fault[q]] \in Frame
    BY <1>1, <2>4, NullAssumption DEF IInv, LocksMatchFaults, TypeOK
  <2>5. ASSUME NEW h \in Frame, lock[h] # Null
        PROVE  lock[h] \in Proc /\ lock[h] # p
    BY <1>1, <2>5 DEF IInv, LocksMatchFaults, TypeOK
  <2> QED BY <1>1, <2>1, <2>2, <2>3, <2>4, <2>5 DEF IInv, LocksMatchFaults
<1> QED BY <1>3, <1>4, <1>5, <1>6 DEF IInv

(* With memory again, the copy is made and the lock released.              *)
LEMMA CopyResumeIInv ==
  ASSUME IInv, NEW p \in Proc, NEW g \in Frame, CopyResume(p, g)
  PROVE  IInv'
<1> DEFINE va == fault[p]
           f == pa[p][va]
<1>1. /\ HasPt(p) /\ va \in Va /\ va # NoVa /\ f \in Frame
      /\ lock[f] = p /\ CopyTo(p, va, g) /\ state' = state
  BY DEF CopyResume, HasPt, IInv, TypeOK, LocksMatchFaults
<1>2. /\ Mapping(g)' = {<<p, va>>}
      /\ \A h : h # g => Mapping(h)' = Mapping(h) \ {<<p, va>>}
      /\ pa'[p][va] = g /\ g # f
      /\ \A q \in Proc, v \in Va : <<q, v>> # <<p, va>> =>
           pa'[q][v] = pa[q][v] /\ perm'[q][v] = perm[q][v]
      /\ PagesDistinct' /\ WritableExclusive'
  BY <1>1, CopyToMappings
<1>3. \A q \in Proc : fault'[q] = IF q = p THEN NoVa ELSE fault[q]
  BY DEF CopyResume, IInv, TypeOK
<1>4. TypeOK'
  <2>1. refcnt' \in [Frame -> Nat]
    BY DEF CopyResume, IInv, TypeOK
  <2> QED BY <1>1, <2>1 DEF CopyResume, CopyTo, IInv, TypeOK
<1>5. RefcntCovers'
  <2> SUFFICES ASSUME NEW h \in Frame
               PROVE  /\ refcnt'[h] >= Cardinality(Counted(h)')
                      /\ Mapping(h)' # {} => h \in used'
    BY DEF RefcntCovers
  <2>1. used' = used \cup {g}
    BY DEF CopyResume, CopyTo
  <2>2. refcnt[h] \in Nat /\ refcnt[h] >= Cardinality(Counted(h))
    BY DEF IInv, TypeOK, RefcntCovers
  <2>3. refcnt'[h] = IF h = g THEN refcnt[h] + 1 ELSE refcnt[h]
    BY DEF CopyResume, IInv, TypeOK
  <2>4. CASE h = g
    <3>1. Mapping(h)' = {<<p, va>>}
      BY <1>2, <2>4 DEF Mapping
    <3>2. Counted(h)' = {<<p, va>>}
      BY <1>1, <1>3, <3>1 DEF Counted
    <3>3. Cardinality(Counted(h)') = 1
      BY <3>2, FS_Singleton
    <3> QED BY <2>1, <2>2, <2>3, <2>4, <3>3
  <2>5. CASE h # g
    <3>1. Mapping(h)' = Mapping(h) \ {<<p, va>>}
      BY <1>2, <2>5
    <3>2. Counted(h)' = Counted(h)
      BY <1>3, <3>1, VaFacts DEF Counted, Mapping
    <3>3. Mapping(h)' # {} => h \in used'
      BY <2>1, <3>1 DEF IInv, RefcntCovers
    <3> QED BY <2>2, <2>3, <2>5, <3>2, <3>3
  <2> QED BY <2>4, <2>5
<1>6. LocksMatchFaults'
  <2>1. \A h \in Frame : lock'[h] = IF h = f THEN Null ELSE lock[h]
    BY DEF CopyResume, IInv, TypeOK
  <2>2. ASSUME NEW q \in Proc, q # p, fault[q] # NoVa
        PROVE  /\ fault[q] \in Va /\ pa[q][fault[q]] \in Frame /\ pa[q][fault[q]] # f
               /\ state[q] = "live" /\ perm[q][fault[q]] = "cow"
               /\ lock[pa[q][fault[q]]] = q
               /\ pa'[q][fault[q]] = pa[q][fault[q]]
               /\ perm'[q][fault[q]] = perm[q][fault[q]]
    BY <1>1, <1>2, <2>2 DEF IInv, TypeOK, LocksMatchFaults
  <2>3. ASSUME NEW h \in Frame, h # f, lock[h] # Null
        PROVE  lock[h] \in Proc /\ lock[h] # p /\ fault[lock[h]] # NoVa
               /\ pa[lock[h]][fault[lock[h]]] = h
    BY <1>1, <2>3 DEF IInv, TypeOK, LocksMatchFaults
  <2>4. \A q \in Proc : fault'[q] # NoVa =>
          /\ state'[q] = "live" /\ perm'[q][fault'[q]] = "cow"
          /\ lock'[pa'[q][fault'[q]]] = q
    BY <1>1, <1>3, <2>1, <2>2
  <2>5. \A h \in Frame : lock'[h] # Null =>
          fault'[lock'[h]] # NoVa /\ pa'[lock'[h]][fault'[lock'[h]]] = h
    BY <1>3, <2>1, <2>2, <2>3
  <2> QED BY <2>4, <2>5 DEF LocksMatchFaults
<1> QED BY <1>2, <1>4, <1>5, <1>6 DEF IInv

(* Of the pages of one process at most one is mapped to a frame.           *)
LEMMA OneMore ==
  ASSUME IInv, NEW p \in Proc, HasPt(p), NEW S \in SUBSET Va, NEW f \in Frame
  PROVE  LET T == {va \in S : pa[p][va] = f}
         IN  /\ Cardinality(T) \in Nat
             /\ \A va \in S : pa[p][va] = f => T = {va} /\ Cardinality(T) = 1
<1> DEFINE T == {va \in S : pa[p][va] = f}
<1>1. IsFiniteSet(T)
  BY VaFacts, FS_Subset
<1>2. Cardinality(T) \in Nat
  BY <1>1, FS_CardinalityType
<1>3. ASSUME NEW va \in S, pa[p][va] = f PROVE T = {va}
  BY <1>3 DEF IInv, PagesDistinct
<1> QED BY <1>2, <1>3, FS_Singleton

(* make_from_parent shares each page of the parent once more, read-only on *)
(* both sides, and counts it (proc.d:94-103).                              *)
LEMMA ForkIInv ==
  ASSUME IInv, NEW p \in Proc, NEW c \in Proc, Fork(p, c)
  PROVE  IInv'
<1>1. /\ HasPt(p) /\ fault[p] = NoVa /\ ~HasPt(c) /\ c # p /\ fault[c] = NoVa
      /\ \A va \in Va : pa[p][va] \in Frame /\ lock[pa[p][va]] = Null
  BY DEF Fork, Running, HasPt, Unlocked, IInv, TypeOK, LocksMatchFaults
<1>2. /\ \A q \in Proc : HasPt(q)' <=> HasPt(q) \/ q = c
      /\ \A q \in Proc : pa'[q] = IF q = c THEN pa[p] ELSE pa[q]
      /\ \A q \in Proc, v \in Va : perm'[q][v] = IF q \in {p, c} THEN "cow" ELSE perm[q][v]
      /\ UNCHANGED <<fault, lock, used>>
  BY DEF Fork, HasPt, IInv, TypeOK
<1>3. \A f \in Frame : /\ refcnt'[f] = refcnt[f] + Cardinality({va \in Va : pa[p][va] = f})
                       /\ refcnt[f] \in Nat /\ refcnt'[f] \in Nat
                       /\ refcnt'[f] >= refcnt[f]
  <2> SUFFICES ASSUME NEW f \in Frame
               PROVE  /\ refcnt'[f] = refcnt[f] + Cardinality({va \in Va : pa[p][va] = f})
                      /\ refcnt[f] \in Nat /\ refcnt'[f] \in Nat
                      /\ refcnt'[f] >= refcnt[f]
    OBVIOUS
  <2>1. Cardinality({va \in Va : pa[p][va] = f}) \in Nat
    BY <1>1, OneMore
  <2>2. refcnt'[f] = refcnt[f] + Cardinality({va \in Va : pa[p][va] = f})
    BY DEF Fork, Referenced
  <2>3. refcnt[f] \in Nat
    BY DEF IInv, TypeOK
  <2> QED BY <2>1, <2>2, <2>3
<1>4. TypeOK'
  <2>1. refcnt' \in [Frame -> Nat]
    BY <1>3 DEF Fork, Referenced
  <2> QED BY <2>1 DEF Fork, IInv, TypeOK
<1>5. PagesDistinct'
  BY <1>1, <1>2 DEF IInv, PagesDistinct
<1>6. WritableExclusive'
  <2> SUFFICES ASSUME NEW q \in Proc, NEW r \in Proc, NEW v \in Va, NEW w \in Va,
                      HasPt(q)', HasPt(r)', perm'[q][v] = "w", pa'[r][w] = pa'[q][v]
               PROVE  r = q /\ w = v
    BY DEF WritableExclusive
  <2>1. q # p /\ q # c /\ HasPt(q) /\ perm[q][v] = "w" /\ pa'[q][v] = pa[q][v]
    BY <1>2
  <2>2. PICK s \in Proc : HasPt(s) /\ pa'[r][w] = pa[s][w] /\ (s = p \/ s = r)
    BY <1>1, <1>2
  <2>3. s = q /\ w = v
    BY <2>1, <2>2 DEF IInv, WritableExclusive
  <2> QED BY <2>1, <2>2, <2>3
<1>7. RefcntCovers'
  <2> SUFFICES ASSUME NEW f \in Frame
               PROVE  /\ refcnt'[f] >= Cardinality(Counted(f)')
                      /\ Mapping(f)' # {} => f \in used'
    BY DEF RefcntCovers
  <2>1. refcnt[f] >= Cardinality(Counted(f)) /\ (Mapping(f) # {} => f \in used)
    BY DEF IInv, RefcntCovers
  <2>2. CASE \E va \in Va : pa[p][va] = f
    <3>1. PICK va \in Va : pa[p][va] = f
      BY <2>2
    <3>2. Cardinality({v \in Va : pa[p][v] = f}) = 1 /\ {v \in Va : pa[p][v] = f} = {va}
      BY <1>1, <3>1, OneMore
    <3>3. Counted(f)' = Counted(f) \cup {<<c, va>>}
      <4>1. Mapping(f)' = Mapping(f) \cup {<<c, va>>}
        BY <1>1, <1>2, <3>1, <3>2 DEF Mapping
      <4> QED BY <1>1, <1>2, <4>1, VaFacts DEF Counted
    <3>4. Cardinality(Counted(f)') <= Cardinality(Counted(f)) + 1
      <4>1. Cardinality(Counted(f) \cup {<<c, va>>}) =
              IF <<c, va>> \in Counted(f) THEN Cardinality(Counted(f))
              ELSE Cardinality(Counted(f)) + 1
        BY MappingFinite, FS_AddElement
      <4>2. Cardinality(Counted(f)) \in Nat
        BY MappingFinite
      <4> QED BY <3>3, <4>1, <4>2
    <3>5. <<p, va>> \in Mapping(f)
      BY <1>1, <3>1 DEF Mapping
    <3>6. Cardinality(Counted(f)') \in Nat
      BY <3>3, MappingFinite, FS_AddElement, FS_CardinalityType
    <3> QED BY <1>2, <1>3, <2>1, <3>2, <3>4, <3>5, <3>6, MappingFinite
  <2>3. CASE ~\E va \in Va : pa[p][va] = f
    <3>1. Mapping(f)' = Mapping(f)
      BY <1>1, <1>2, <2>3 DEF Mapping
    <3>2. Counted(f)' = Counted(f)
      BY <1>2, <3>1 DEF Counted
    <3>3. refcnt'[f] >= refcnt[f] /\ refcnt'[f] \in Nat /\ refcnt[f] \in Nat
      BY <1>3
    <3>4. Cardinality(Counted(f)') = Cardinality(Counted(f)) /\ Cardinality(Counted(f)) \in Nat
      BY <3>2, MappingFinite
    <3>5. Mapping(f)' # {} => f \in used'
      BY <1>2, <2>1, <3>1
    <3> QED BY <2>1, <3>3, <3>4, <3>5
  <2> QED BY <2>2, <2>3
<1>8. LocksMatchFaults'
  <2>1. ASSUME NEW q \in Proc, fault[q] # NoVa
        PROVE  /\ q # p /\ q # c /\ fault[q] \in Va /\ state[q] = "live" /\ state'[q] = "live"
               /\ pa'[q] = pa[q] /\ perm'[q][fault[q]] = perm[q][fault[q]]
    BY <1>1, <1>2, <2>1 DEF IInv, LocksMatchFaults, TypeOK, Fork
  <2>2. ASSUME NEW h \in Frame, lock[h] # Null
        PROVE  lock[h] \in Proc
    BY <2>2 DEF IInv, TypeOK
  <2> QED BY <1>2, <2>1, <2>2 DEF IInv, LocksMatchFaults
<1> QED BY <1>4, <1>5, <1>6, <1>7, <1>8 DEF IInv

(* A fork that fails half-way leaves pages of the parent read-only and     *)
(* frames counted too often: never too seldom (proc.d:94-103).             *)
LEMMA ForkFailIInv ==
  ASSUME IInv, NEW p \in Proc, NEW n \in Va, ForkFail(p, n)
  PROVE  IInv'
<1> DEFINE S == 1 .. n - 1
<1>1. HasPt(p) /\ fault[p] = NoVa /\ S \in SUBSET Va
  BY NVaAssumption DEF ForkFail, Running, HasPt, Va
<1>2. ASSUME NEW f \in Frame
      PROVE  refcnt'[f] \in Nat /\ refcnt[f] \in Nat /\ refcnt'[f] >= refcnt[f]
  <2>1. Cardinality({va \in S : pa[p][va] = f}) \in Nat
    BY <1>1, OneMore
  <2>2. refcnt'[f] = refcnt[f] + Cardinality({va \in S : pa[p][va] = f})
    BY DEF ForkFail, Referenced
  <2>3. refcnt[f] \in Nat
    BY DEF IInv, TypeOK
  <2> QED BY <2>1, <2>2, <2>3
<1>3. used' = used
  <2>1. ASSUME NEW va \in S, NEW f \in Frame, pa[p][va] = f PROVE refcnt'[f] # 0
    <3>1. refcnt[f] >= 1
      BY <1>1, <2>1, CountedPositive, VaFacts
    <3> QED BY <1>2, <3>1
  <2> QED BY <2>1 DEF ForkFail, Released
<1>4. /\ UNCHANGED <<state, pa, lock, data, fault, mode>>
      /\ \A q \in Proc, v \in Va : perm'[q][v] = "w" => perm[q][v] = "w"
      /\ \A q \in Proc, v \in Va : perm[q][v] = "cow" => perm'[q][v] = "cow"
  BY DEF ForkFail, IInv, TypeOK
<1>5. TypeOK'
  <2>1. refcnt' \in [Frame -> Nat]
    BY <1>2 DEF ForkFail, Referenced
  <2>2. perm' \in [Proc -> [Va -> {"w", "cow"}]]
    BY DEF ForkFail, IInv, TypeOK
  <2> QED BY <1>3, <1>4, <2>1, <2>2 DEF IInv, TypeOK
<1>6. PagesDistinct' /\ WritableExclusive'
  BY <1>4 DEF IInv, PagesDistinct, WritableExclusive, HasPt
<1>7. RefcntCovers'
  <2> SUFFICES ASSUME NEW f \in Frame
               PROVE  /\ refcnt'[f] >= Cardinality(Counted(f)')
                      /\ Mapping(f)' # {} => f \in used'
    BY DEF RefcntCovers
  <2>1. Mapping(f)' = Mapping(f) /\ Counted(f)' = Counted(f)
    BY <1>4 DEF Mapping, Counted, HasPt
  <2>2. refcnt[f] >= Cardinality(Counted(f)) /\ (Mapping(f) # {} => f \in used)
    BY DEF IInv, RefcntCovers
  <2>3. Cardinality(Counted(f)) \in Nat
    BY MappingFinite
  <2> QED BY <1>2, <1>3, <2>1, <2>2, <2>3
<1>8. LocksMatchFaults'
  BY <1>4 DEF IInv, LocksMatchFaults, TypeOK
<1> QED BY <1>5, <1>6, <1>7, <1>8 DEF IInv

(* sys_exit keeps the page table.                                          *)
LEMMA ExitIInv ==
  ASSUME IInv, NEW p \in Proc, Exit(p)
  PROVE  IInv'
<1>1. /\ UNCHANGED <<pa, perm, refcnt, lock, used, data, fault, mode>>
      /\ state[p] = "live" /\ fault[p] = NoVa
      /\ \A q \in Proc : state'[q] = IF q = p THEN "zombie" ELSE state[q]
  BY DEF Exit, Running, IInv, TypeOK
<1>2. \A q \in Proc : HasPt(q)' <=> HasPt(q)
  BY <1>1 DEF HasPt
<1>3. TypeOK'
  BY <1>1 DEF Exit, IInv, TypeOK
<1>4. PagesDistinct' /\ WritableExclusive'
  BY <1>1, <1>2 DEF IInv, PagesDistinct, WritableExclusive
<1>5. \A f \in Frame : Mapping(f)' = Mapping(f) /\ Counted(f)' = Counted(f)
  BY <1>1, <1>2 DEF Mapping, Counted
<1>6. RefcntCovers'
  BY <1>1, <1>5 DEF IInv, RefcntCovers
<1>7. LocksMatchFaults'
  BY <1>1 DEF IInv, LocksMatchFaults
<1> QED BY <1>3, <1>4, <1>6, <1>7 DEF IInv

(* Reaping removes mappings and frees no frame that is still mapped.       *)
LEMMA ReapIInv ==
  ASSUME IInv, NEW z \in Proc, Reap(z)
  PROVE  IInv'
<1>1. /\ UNCHANGED <<pa, perm, refcnt, lock, data, fault, mode>>
      /\ state[z] = "zombie" /\ HasPt(z)
      /\ \A q \in Proc : state'[q] = IF q = z THEN "free" ELSE state[q]
  BY DEF Reap, HasPt, IInv, TypeOK
<1>2. fault[z] = NoVa
  BY <1>1 DEF IInv, LocksMatchFaults
<1>3. used' = used
  <2>1. ASSUME NEW va \in Va, NEW f \in Frame, pa[z][va] = f PROVE refcnt[f] # 0
    <3>1. fault[z] # va
      BY <1>2, VaFacts
    <3>2. refcnt[f] \in Nat /\ refcnt[f] >= 1
      BY <1>1, <2>1, <3>1, CountedPositive
    <3> QED BY <3>2
  <2> QED BY <2>1 DEF Reap, Released
<1>4. \A q \in Proc : HasPt(q)' <=> HasPt(q) /\ q # z
  BY <1>1 DEF HasPt
<1>5. TypeOK'
  BY <1>1, <1>3 DEF Reap, IInv, TypeOK
<1>6. PagesDistinct' /\ WritableExclusive'
  BY <1>1, <1>4 DEF IInv, PagesDistinct, WritableExclusive
<1>7. RefcntCovers'
  <2> SUFFICES ASSUME NEW f \in Frame
               PROVE  /\ refcnt'[f] >= Cardinality(Counted(f)')
                      /\ Mapping(f)' # {} => f \in used'
    BY DEF RefcntCovers
  <2>1. Mapping(f)' \subseteq Mapping(f) /\ Counted(f)' \subseteq Counted(f)
    BY <1>1, <1>4 DEF Mapping, Counted
  <2>2. refcnt[f] \in Nat /\ refcnt[f] >= Cardinality(Counted(f))
        /\ (Mapping(f) # {} => f \in used)
    BY DEF IInv, RefcntCovers, TypeOK
  <2>3. /\ Cardinality(Counted(f)') <= Cardinality(Counted(f))
        /\ Cardinality(Counted(f)') \in Nat /\ Cardinality(Counted(f)) \in Nat
    BY <2>1, MappingFinite, FS_Subset, FS_CardinalityType
  <2>4. refcnt' = refcnt
    BY <1>1
  <2> QED BY <1>3, <2>1, <2>2, <2>3, <2>4
<1>8. LocksMatchFaults'
  BY <1>1, <1>2 DEF IInv, LocksMatchFaults
<1> QED BY <1>5, <1>6, <1>7, <1>8 DEF IInv

(* Every step keeps the invariant.                                         *)
LEMMA NextIInv == IInv /\ [Next]_vars => IInv'
<1> SUFFICES ASSUME IInv, [Next]_vars PROVE IInv' OBVIOUS
<1>1. CASE UNCHANGED vars
  BY <1>1, StoreIInv DEF vars, IInv, TypeOK
<1>2. ASSUME NEW p \in Proc, NEW va \in Va, NEW v \in Val,
             UserStore(p, va, v) \/ SysRead(p, va, v)
      PROVE  IInv'
  <2>1. data' \in [Frame -> Val] /\ mode' \in {"run", "spin", "panic"}
    BY <1>2 DEF UserStore, SysRead, IInv, TypeOK
  <2> QED BY <1>2, <2>1, StoreIInv DEF UserStore, SysRead
<1>3. ASSUME NEW p \in Proc, Spin(p) PROVE IInv'
  <2>1. data' \in [Frame -> Val] /\ mode' \in {"run", "spin", "panic"}
    BY <1>3 DEF Spin, IInv, TypeOK
  <2> QED BY <1>3, <2>1, StoreIInv DEF Spin
<1>4. ASSUME NEW p \in Proc, NEW va \in Va,
             TakeOver(p, va) \/ CopyBlock(p, va) \/ ForkFail(p, va)
      PROVE  IInv'
  BY <1>4, TakeOverIInv, CopyBlockIInv, ForkFailIInv
<1>5. ASSUME NEW p \in Proc, NEW va \in Va, NEW g \in Frame, Copy(p, va, g) PROVE IInv'
  BY <1>5, CopyIInv
<1>6. ASSUME NEW p \in Proc, NEW g \in Frame, CopyResume(p, g) PROVE IInv'
  BY <1>6, CopyResumeIInv
<1>7. ASSUME NEW p \in Proc, NEW c \in Proc, Fork(p, c) PROVE IInv'
  BY <1>7, ForkIInv
<1>8. ASSUME NEW p \in Proc, Exit(p) \/ Reap(p) PROVE IInv'
  BY <1>8, ExitIInv, ReapIInv
<1> QED BY <1>1, <1>2, <1>3, <1>4, <1>5, <1>6, <1>7, <1>8 DEF Next

(* So it holds in every reachable state.                                   *)
LEMMA SpecIInv == Spec => []IInv
BY InitIInv, NextIInv, PTL DEF Spec

-----------------------------------------------------------------------------
(* Reference counts stay natural numbers, and so on.                       *)
THEOREM TypeCorrect == Spec => []TypeOK
BY SpecIInv, PTL DEF IInv

(* No page that a process can write to is shared, for any number of        *)
(* processes, whichever forks fail and whoever waits for memory            *)
(* (proc.d:98, trap.d:56-96).                                              *)
THEOREM NoSharedWritablePage == Spec => []WritableExclusive
BY SpecIInv, PTL DEF IInv

(* The reference count of a page never falls below the number of pages     *)
(* that count on it, and no mapped frame is handed out (trap.d:60-67,      *)
(* proc.d:157).                                                            *)
THEOREM RefcntAlwaysCovers == Spec => []RefcntCovers
BY SpecIInv, PTL DEF IInv

(* A page's lock is held exactly between a fault that found no memory for  *)
(* the copy and its end, and by one process only (trap.d:58, trap.d:74).   *)
THEOREM LocksStayMatched == Spec => []LocksMatchFaults
BY SpecIInv, PTL DEF IInv

-----------------------------------------------------------------------------
(* Cow implements PrivateMem.                                              *)

(* The first process has the memory that the ELF image gave it.            *)
LEMMA InitPrivate == Init => Private!AInit
<1> SUFFICES ASSUME Init PROVE Private!AInit OBVIOUS
<1>1. PICK p \in Proc, m \in [Va -> Frame] :
        /\ state = [r \in Proc |-> IF r = p THEN "live" ELSE "free"]
        /\ pa = [r \in Proc |-> m]
        /\ data \in [Frame -> Val]
  BY DEF Init
<1> DEFINE k == [va \in Va |-> data[m[va]]]
<1>2. k \in [Va -> Val]
  BY <1>1
<1>3. Live = {p}
  BY <1>1 DEF Live
<1>4. Seen = [r \in Proc |-> IF r = p THEN k ELSE <<>>]
  BY <1>1 DEF Seen
<1> QED BY <1>2, <1>3, <1>4 DEF Private!AInit

(* A store to a writable page is a store to the memory of that process     *)
(* and of no other.                                                        *)
LEMMA StorePrivate ==
  ASSUME IInv, NEW p \in Proc, NEW va \in Va, NEW v \in Val,
         state[p] = "live", perm[p][va] = "w",
         data' = [data EXCEPT ![pa[p][va]] = v], UNCHANGED <<state, pa>>
  PROVE  Private!AStore(p, va, v)
<1>1. p \in Live /\ Live' = Live
  BY DEF Live
<1>2. Seen' = [Seen EXCEPT ![p][va] = v]
  <2>1. ASSUME NEW q \in Proc, state[q] = "live", NEW w \in Va
        PROVE  data'[pa'[q][w]] = IF q = p /\ w = va THEN v ELSE data[pa[q][w]]
    <3>1. pa[q][w] = pa[p][va] => q = p /\ w = va
      BY <2>1 DEF IInv, WritableExclusive, HasPt
    <3>2. pa[q][w] \in Frame /\ pa[p][va] \in Frame /\ data \in [Frame -> Val]
      BY DEF IInv, TypeOK
    <3> QED BY <3>1, <3>2
  <2>2. Seen' = [q \in Proc |-> IF state[q] = "live"
                                THEN [w \in Va |-> IF q = p /\ w = va THEN v
                                                   ELSE data[pa[q][w]]]
                                ELSE <<>>]
    BY <2>1 DEF Seen
  <2> QED BY <2>2 DEF Seen
<1> QED BY <1>1, <1>2 DEF Private!AStore

(* Copying a page changes what nobody sees.                                *)
LEMMA CopyPrivate ==
  ASSUME IInv, NEW p \in Proc, state[p] = "live", NEW va \in Va, NEW g \in Frame,
         CopyTo(p, va, g), state' = state
  PROVE  UNCHANGED <<Live, Seen>>
<1>1. Mapping(g) = {}
  BY FreshFrame DEF CopyTo
<1>2. ASSUME NEW q \in Proc, state[q] = "live", NEW w \in Va
      PROVE  data'[pa'[q][w]] = data[pa[q][w]]
  <2>1. <<q, w>> \in Mapping(pa[q][w])
    BY <1>2 DEF Mapping, HasPt
  <2>2. pa[q][w] # g
    BY <1>1, <2>1
  <2> QED BY <2>2 DEF CopyTo, IInv, TypeOK
<1>3. Live' = Live
  BY DEF Live
<1>4. Seen' = Seen
  BY <1>2 DEF Seen
<1> QED BY <1>3, <1>4

(* Page faults, failing forks and the freeing of a process change nothing  *)
(* that a process sees (trap.d:60-97, proc.d:99, proc.d:149).              *)
LEMMA KernelWorkQuiet ==
  ASSUME IInv, NEW p \in Proc, KernelWork(p)
  PROVE  UNCHANGED <<Live, Seen>>
<1> DEFINE Same == UNCHANGED <<Live, Seen>>
<1>0. UNCHANGED <<state, pa, data>> => Same
  BY DEF Live, Seen
<1>1. ASSUME NEW va \in Va, TakeOver(p, va) \/ CopyBlock(p, va) \/ ForkFail(p, va)
      PROVE  Same
  BY <1>0, <1>1 DEF TakeOver, CopyBlock, ForkFail
<1>2. ASSUME NEW va \in Va, NEW g \in Frame, Copy(p, va, g)
      PROVE  Same
  BY <1>2, CopyPrivate DEF Copy, WriteFault, Running
<1>3. ASSUME NEW g \in Frame, CopyResume(p, g)
      PROVE  Same
  <2>1. fault[p] \in Va /\ state[p] = "live"
    BY <1>3 DEF CopyResume, IInv, LocksMatchFaults, TypeOK
  <2> QED BY <1>3, <2>1, CopyPrivate DEF CopyResume
<1>4. CASE Reap(p)
  <2>1. /\ state[p] = "zombie" /\ UNCHANGED <<pa, data>>
        /\ \A q \in Proc : state'[q] = IF q = p THEN "free" ELSE state[q]
    BY <1>4 DEF Reap, IInv, TypeOK
  <2> QED BY <2>1 DEF Live, Seen
<1> QED BY <1>1, <1>2, <1>3, <1>4 DEF KernelWork

(* The child of a fork sees a copy of its parent's memory.                 *)
LEMMA ForkPrivate ==
  ASSUME IInv, NEW p \in Proc, NEW c \in Proc, Fork(p, c)
  PROVE  Private!AFork(p, c)
<1>1. /\ state[p] = "live" /\ state[c] = "free" /\ p # c
      /\ \A q \in Proc : state'[q] = IF q = c THEN "live" ELSE state[q]
      /\ \A q \in Proc : pa'[q] = IF q = c THEN pa[p] ELSE pa[q]
      /\ data' = data
  BY DEF Fork, Running, IInv, TypeOK
<1>2. p \in Live /\ c \notin Live /\ Live' = Live \cup {c}
  BY <1>1 DEF Live
<1>3. Seen' = [Seen EXCEPT ![c] = Seen[p]]
  BY <1>1 DEF Seen
<1> QED BY <1>2, <1>3 DEF Private!AFork

(* Every step of the kernel is a step of PrivateMem or changes nothing     *)
(* that a process sees.                                                    *)
LEMMA NextPrivate ==
  IInv /\ [Next]_vars => [Private!ANext]_<<Live, Seen>>
<1> SUFFICES ASSUME IInv, [Next]_vars
             PROVE  Private!ANext \/ UNCHANGED <<Live, Seen>>
  OBVIOUS
<1> DEFINE Same == UNCHANGED <<Live, Seen>>
<1>0. UNCHANGED <<state, pa, data>> => Same
  BY DEF Live, Seen
<1>1. CASE UNCHANGED vars
  BY <1>0, <1>1 DEF vars
<1>2. ASSUME NEW p \in Proc, NEW va \in Va, NEW v \in Val,
             UserStore(p, va, v) \/ SysRead(p, va, v)
      PROVE  Private!ANext \/ Same
  <2>1. CASE perm[p][va] = "w"
    <3>1. Private!AStore(p, va, v)
      BY <1>2, <2>1, StorePrivate DEF UserStore, SysRead, Running
    <3> QED BY <3>1 DEF Private!ANext
  <2>2. CASE perm[p][va] # "w"
    BY <1>0, <1>2, <2>2 DEF UserStore, SysRead
  <2> QED BY <2>1, <2>2
<1>3. ASSUME NEW p \in Proc, KernelWork(p)
      PROVE  Same
  BY <1>3, KernelWorkQuiet
<1>4. ASSUME NEW p \in Proc, NEW c \in Proc, Fork(p, c)
      PROVE  Private!ANext
  BY <1>4, ForkPrivate DEF Private!ANext
<1>5. ASSUME NEW p \in Proc, Exit(p)
      PROVE  Private!ANext
  <2>1. /\ state[p] = "live" /\ UNCHANGED <<pa, data>>
        /\ \A q \in Proc : state'[q] = IF q = p THEN "zombie" ELSE state[q]
    BY <1>5 DEF Exit, Running, IInv, TypeOK
  <2>2. p \in Live /\ Live' = Live \ {p} /\ Seen' = [Seen EXCEPT ![p] = <<>>]
    BY <2>1 DEF Live, Seen
  <2> QED BY <2>2 DEF Private!ANext, Private!AExit
<1>6. ASSUME NEW p \in Proc, Spin(p)
      PROVE  Same
  BY <1>0, <1>6 DEF Spin
<1> QED
  BY <1>1, <1>2, <1>3, <1>4, <1>5, <1>6 DEF Next, KernelWork

(* Copy-on-write is invisible: the memory of each process changes only by  *)
(* its own stores, and fork copies it.                                     *)
THEOREM CowImplementsPrivateMem == Spec => IsPrivate
<1>1. Init => Private!AInit
  BY InitPrivate
<1>2. IInv /\ [Next]_vars => [Private!ANext]_<<Live, Seen>>
  BY NextPrivate
<1> QED
  BY <1>1, <1>2, SpecIInv, PTL DEF Spec, IsPrivate, Private!ASpec, Private!amvars

(* No byte that a process sees is changed by the kernel's page faults,     *)
(* failing forks or freeing: FaultsInvisible for any number of processes,  *)
(* pages and frames.                                                       *)
THEOREM FaultsStayInvisible == Spec => FaultsInvisible
<1>1. IInv /\ [Next]_vars =>
        [\A p \in Proc : KernelWork(p) => UNCHANGED <<Live, Seen>>]_vars
  BY KernelWorkQuiet
<1> QED BY <1>1, SpecIInv, PTL DEF Spec, FaultsInvisible
=============================================================================
