---------------------------- MODULE FilesProofs ----------------------------
(* Proofs about Files, for tables of any length, any disk and any paths.   *)
EXTENDS Files, NatFacts, FiniteSetTheorems, WellFoundedInduction, TLAPS

-----------------------------------------------------------------------------
(* The recursive function in Walk exists: it takes one Step per element.   *)
LEMMA WalkSteps ==
  ASSUME NEW w, NEW elems, NEW n \in Nat
  PROVE  \E at : /\ at = [k \in 0 .. n |-> IF k = 0 THEN w ELSE Step(at[k - 1], elems[k])]
                 /\ Walk(w, elems, n) = at[n]
<1> DEFINE Is(at, m) ==
      at = [k \in 0 .. m |-> IF k = 0 THEN w ELSE Step(at[k - 1], elems[k])]
           D == {m \in Nat : \E at : Is(at, m)}
<1>1. 0 \in D
  <2> DEFINE g == [k \in 0 .. 0 |-> w]
  <2>1. Is(g, 0)
    OBVIOUS
  <2> QED BY <2>1
<1>2. ASSUME NEW m \in D PROVE m + 1 \in D
  <2>1. PICK g : Is(g, m)
    BY <1>2
  <2> DEFINE h == [k \in 0 .. (m + 1) |-> IF k = m + 1 THEN Step(g[m], elems[m + 1]) ELSE g[k]]
  <2>2. ASSUME NEW k \in 0 .. (m + 1)
        PROVE  h[k] = IF k = 0 THEN w ELSE Step(h[k - 1], elems[k])
    <3>1. CASE k = m + 1
      BY <3>1
    <3>2. CASE k # m + 1
      <4>1. k \in 0 .. m /\ h[k] = g[k]
        BY <3>2
      <4>2. g[k] = IF k = 0 THEN w ELSE Step(g[k - 1], elems[k])
        BY <2>1, <4>1
      <4>3. k # 0 => h[k - 1] = g[k - 1]
        BY <4>1
      <4> QED BY <4>1, <4>2, <4>3
    <3> QED BY <3>1, <3>2
  <2>3. Is(h, m + 1)
    BY <2>2
  <2>4. m + 1 \in Nat
    OBVIOUS
  <2> HIDE DEF h
  <2> QED BY <2>3, <2>4
<1>3. D = Nat
  <2> HIDE DEF D
  <2>1. D \in SUBSET Nat
    BY DEF D
  <2> QED BY <1>1, <1>2, <2>1, Closed
<1>4. \E at : Is(at, n)
  BY <1>3
<1>5. Walk(w, elems, n) = (CHOOSE at : Is(at, n))[n]
  BY DEF Walk
<1> HIDE DEF Is
<1>6. Is(CHOOSE at : Is(at, n), n)
  BY <1>4
<1> QED BY <1>5, <1>6 DEF Is

(* Sequences as functions.                                                 *)
LEMMA SeqFacts ==
  ASSUME NEW T, NEW s \in Seq(T)
  PROVE  /\ Len(s) \in Nat /\ DOMAIN s = 1 .. Len(s) /\ DOMAIN s \subseteq Nat
         /\ \A i \in DOMAIN s : s[i] \in T
OBVIOUS

-----------------------------------------------------------------------------
(* Walks.  The table of inodes is typed, no inode is in it twice, and what *)
(* others hold (H) and the walk itself is counted.                         *)
Itab == [ref : [Slots -> Int], inum : [Slots -> Inums]]
Walks == [t : Itab, ip : Slots \union {Null}, panic : {"none", "refcnt", "type", "inodes"}]

OneCopy(t) ==
  \A s, u \in Slots : s # u /\ t.ref[s] > 0 /\ t.ref[u] > 0 => t.inum[s] # t.inum[u]
Covers(w, H) ==
  /\ w.panic \in {"none", "inodes"}
  /\ w.panic = "none" =>
       /\ OneCopy(w.t)
       /\ \A s \in Slots : w.t.ref[s] >= H[s] + (IF w.ip = s THEN 1 ELSE 0)

(* A walk has reached an inode in use.                                     *)
Lands(w) == Going(w) => TypeOf(w) # "free"

(* The slots of the table are natural numbers, and Null is none of them.   *)
LEMMA SlotFacts == Slots \subseteq Nat /\ Null \notin Slots /\ FileSlots \subseteq Nat
BY FilesAssumption DEF Slots, FileSlots

(* iget ends in the slot that holds the inode, or in an empty one, or      *)
(* nowhere.                                                                *)
LEMMA IgetCases ==
  ASSUME NEW w \in Walks, NEW n \in Inums
  PROVE  \/ \E m \in Slots : /\ w.t.ref[m] > 0 /\ w.t.inum[m] = n
                             /\ Iget(w, n) = Reach(w, m, n, w.t.ref[m] + 1)
         \/ \E m \in Slots : /\ w.t.ref[m] = 0
                             /\ \A s \in Slots : w.t.ref[s] > 0 => w.t.inum[s] # n
                             /\ Iget(w, n) = Reach(w, m, n, 1)
         \/ Iget(w, n) = [t |-> w.t, ip |-> w.ip, panic |-> "inodes"]
<1> DEFINE found == {s \in Slots : w.t.ref[s] > 0 /\ w.t.inum[s] = n}
           empty == {s \in Slots : w.t.ref[s] = 0}
<1>1. CASE found # {}
  <2>1. Min(found) \in found
    BY <1>1, MinIsLeast, SlotFacts
  <2>2. Iget(w, n) = Reach(w, Min(found), n, w.t.ref[Min(found)] + 1)
    BY <1>1 DEF Iget
  <2> QED BY <2>1, <2>2
<1>2. CASE found = {} /\ empty # {}
  <2>1. Min(empty) \in empty
    BY <1>2, MinIsLeast, SlotFacts
  <2>2. Iget(w, n) = Reach(w, Min(empty), n, 1)
    BY <1>2 DEF Iget
  <2>3. \A s \in Slots : w.t.ref[s] > 0 => w.t.inum[s] # n
    BY <1>2
  <2> QED BY <2>1, <2>2, <2>3
<1>3. CASE found = {} /\ empty = {}
  <2>1. Iget(w, n) = [w EXCEPT !.panic = "inodes"]
    BY <1>3 DEF Iget
  <2> QED BY <2>1 DEF Walks
<1> QED BY <1>1, <1>2, <1>3

(* The table after Reach, entry by entry.                                  *)
LEMMA ReachIs ==
  ASSUME NEW w \in Walks, NEW m \in Slots, NEW n \in Inums, NEW r \in Int
  PROVE  /\ Reach(w, m, n, r) \in Walks
         /\ Reach(w, m, n, r).ip = m /\ Reach(w, m, n, r).panic = w.panic
         /\ \A s \in Slots :
              /\ Reach(w, m, n, r).t.ref[s] = (IF s = m THEN r ELSE w.t.ref[s])
              /\ Reach(w, m, n, r).t.inum[s] = (IF s = m THEN n ELSE w.t.inum[s])
<1>1. w.t.ref \in [Slots -> Int] /\ w.t.inum \in [Slots -> Inums]
      /\ w.panic \in {"none", "refcnt", "type", "inodes"}
  BY DEF Walks, Itab
<1>2. [w.t.ref EXCEPT ![m] = r] \in [Slots -> Int]
      /\ [w.t.inum EXCEPT ![m] = n] \in [Slots -> Inums]
  BY <1>1
<1> QED BY <1>1, <1>2 DEF Reach, Walks, Itab

(* put and its result, as records.                                         *)
LEMMA PutIs ==
  ASSUME NEW t \in Itab, NEW s \in Slots
  PROVE  /\ Put(t, s) = [ref |-> [t.ref EXCEPT ![s] = @ - 1], inum |-> t.inum]
         /\ Put(t, s) \in Itab
BY DEF Put, Itab

(* iget keeps a walk a walk.                                               *)
LEMMA IgetType ==
  ASSUME NEW w \in Walks, NEW n \in Inums
  PROVE  /\ Iget(w, n) \in Walks
         /\ Iget(w, n).panic \in {w.panic, "inodes"}
         /\ Iget(w, n).ip \in Slots \union {w.ip}
<1>1. \A m \in Slots : w.t.ref[m] \in Int
  BY DEF Walks, Itab
<1>2. [t |-> w.t, ip |-> w.ip, panic |-> "inodes"] \in Walks
  BY DEF Walks
<1> QED BY <1>1, <1>2, IgetCases, ReachIs

(* One more reference to an entry that is inode n's, or empty while no     *)
(* other is, is the walk's own.                                            *)
LEMMA ReachCovers ==
  ASSUME NEW w \in Walks, NEW n \in Inums, NEW H \in [Slots -> Nat], NEW m \in Slots,
         w.panic = "none", OneCopy(w.t), \A s \in Slots : w.t.ref[s] >= H[s],
         \/ w.t.ref[m] > 0 /\ w.t.inum[m] = n
         \/ w.t.ref[m] = 0 /\ \A s \in Slots : w.t.ref[s] > 0 => w.t.inum[s] # n
  PROVE  /\ Covers(Reach(w, m, n, w.t.ref[m] + 1), H)
         /\ \A s \in Slots : Reach(w, m, n, w.t.ref[m] + 1).t.ref[s]
                             = w.t.ref[s] + (IF s = m THEN 1 ELSE 0)
<1> DEFINE x == Reach(w, m, n, w.t.ref[m] + 1)
<1>1. \A s \in Slots : w.t.ref[s] \in Int /\ H[s] \in Nat
  BY DEF Walks, Itab
<1> DEFINE r == w.t.ref[m] + 1
<1>r. r \in Int
  BY <1>1
<1>2. /\ x.ip = m /\ x.panic = "none"
      /\ \A s \in Slots : /\ x.t.ref[s] = (IF s = m THEN w.t.ref[m] + 1 ELSE w.t.ref[s])
                          /\ x.t.inum[s] = (IF s = m THEN n ELSE w.t.inum[s])
  <2> HIDE DEF r
  <2>1. /\ Reach(w, m, n, r).ip = m /\ Reach(w, m, n, r).panic = w.panic
        /\ \A s \in Slots :
             /\ Reach(w, m, n, r).t.ref[s] = (IF s = m THEN r ELSE w.t.ref[s])
             /\ Reach(w, m, n, r).t.inum[s] = (IF s = m THEN n ELSE w.t.inum[s])
    BY <1>r, ReachIs
  <2> QED BY <2>1 DEF r
<1> HIDE DEF x
<1>3. \A s \in Slots : x.t.ref[s] = w.t.ref[s] + (IF s = m THEN 1 ELSE 0)
  BY <1>1, <1>2
<1>4. ASSUME NEW s \in Slots, NEW u \in Slots, s # u, x.t.ref[s] > 0, x.t.ref[u] > 0
      PROVE  x.t.inum[s] # x.t.inum[u]
  <2>1. CASE s # m /\ u # m
    BY <1>2, <1>4, <2>1 DEF OneCopy
  <2>2. CASE s = m
    BY <1>2, <1>4, <2>2 DEF OneCopy
  <2>3. CASE u = m
    BY <1>2, <1>4, <2>3 DEF OneCopy
  <2> QED BY <2>1, <2>2, <2>3
<1>5. OneCopy(x.t)
  BY <1>4 DEF OneCopy
<1>6. \A s \in Slots : x.t.ref[s] >= H[s] + (IF x.ip = s THEN 1 ELSE 0)
  BY <1>1, <1>2, <1>3
<1>7. Covers(x, H)
  BY <1>2, <1>5, <1>6 DEF Covers
<1> QED BY <1>3, <1>7 DEF x

(* iget adds the walk's own reference.                                     *)
LEMMA IgetCovers ==
  ASSUME NEW w \in Walks, NEW n \in Inums, NEW H \in [Slots -> Nat],
         w.panic = "none", OneCopy(w.t), \A s \in Slots : w.t.ref[s] >= H[s]
  PROVE  /\ Covers(Iget(w, n), H)
         /\ Iget(w, n).panic = "none" =>
              /\ Iget(w, n).ip \in Slots
              /\ \A s \in Slots : Iget(w, n).t.ref[s]
                                  = w.t.ref[s] + (IF s = Iget(w, n).ip THEN 1 ELSE 0)
<1>1. \A s \in Slots : w.t.ref[s] \in Int
  BY DEF Walks, Itab
<1>2. \A m \in Slots : Reach(w, m, n, w.t.ref[m] + 1).ip = m
  BY <1>1, ReachIs
<1>3. CASE Iget(w, n) = [t |-> w.t, ip |-> w.ip, panic |-> "inodes"]
  BY <1>3 DEF Covers
<1>4. ASSUME NEW m \in Slots, w.t.ref[m] > 0, w.t.inum[m] = n,
             Iget(w, n) = Reach(w, m, n, w.t.ref[m] + 1)
      PROVE  Iget(w, n).ip = m /\ Covers(Iget(w, n), H)
             /\ \A s \in Slots : Iget(w, n).t.ref[s] = w.t.ref[s] + (IF s = m THEN 1 ELSE 0)
  BY <1>2, <1>4, ReachCovers
<1>5. ASSUME NEW m \in Slots, w.t.ref[m] = 0,
             \A s \in Slots : w.t.ref[s] > 0 => w.t.inum[s] # n,
             Iget(w, n) = Reach(w, m, n, 1)
      PROVE  Iget(w, n).ip = m /\ Covers(Iget(w, n), H)
             /\ \A s \in Slots : Iget(w, n).t.ref[s] = w.t.ref[s] + (IF s = m THEN 1 ELSE 0)
  <2>1. Iget(w, n) = Reach(w, m, n, w.t.ref[m] + 1)
    BY <1>5
  <2> QED BY <1>2, <1>5, <2>1, ReachCovers
<1> QED BY <1>3, <1>4, <1>5, IgetCases

(* Lookup finds an inode number.                                           *)
LEMMA LookupType ==
  ASSUME disk \in Disks, NEW w \in Walks, w.ip # Null, NEW name
  PROVE  Lookup(w, name) \in Inums \union {0}
<1> DEFINE dents == disk.dents[w.t.inum[w.ip]]
           hits == {i \in DOMAIN dents : dents[i].inum # 0 /\ dents[i].name = name}
<1>1. w.t.inum[w.ip] \in Inums
  BY DEF Walks, Itab
<1>2. dents \in Seq([name : Names, inum : Inums \union {0}])
  BY <1>1 DEF Disks
<1>3. DOMAIN dents \subseteq Nat /\ \A i \in DOMAIN dents : dents[i].inum \in Inums \union {0}
  <2>1. DOMAIN dents \subseteq Nat
        /\ \A i \in DOMAIN dents : dents[i] \in [name : Names, inum : Inums \union {0}]
    BY <1>2, SeqFacts
  <2> HIDE DEF dents
  <2> QED BY <2>1
<1>4. hits # {} => Min(hits) \in hits
  BY <1>3, MinIsLeast
<1>5. Lookup(w, name) = IF hits = {} THEN 0 ELSE dents[Min(hits)].inum
  BY DEF Lookup
<1> QED BY <1>3, <1>4, <1>5

(* What lookup finds in a directory is in use.                             *)
LEMMA LookupLeads ==
  ASSUME disk \in Disks, Leads(disk), NEW w \in Walks, w.ip # Null, TypeOf(w) = "dir",
         NEW name, Lookup(w, name) # 0
  PROVE  disk.type[Lookup(w, name)] # "free"
<1> DEFINE m == w.t.inum[w.ip]
           dents == disk.dents[m]
           hits == {i \in DOMAIN dents : dents[i].inum # 0 /\ dents[i].name = name}
<1>1. m \in Inums /\ disk.type[m] = "dir"
  BY DEF Walks, Itab, TypeOf
<1>2. dents \in Seq([name : Names, inum : Inums \union {0}])
  BY <1>1 DEF Disks
<1>3. \A i \in DOMAIN dents : dents[i].inum # 0 => disk.type[dents[i].inum] # "free"
  BY <1>1 DEF Leads
<1>4. Lookup(w, name) = IF hits = {} THEN 0 ELSE dents[Min(hits)].inum
  BY DEF Lookup
<1> HIDE DEF dents
<1>5. DOMAIN dents \subseteq Nat
  BY <1>2, SeqFacts
<1>6. hits # {} => Min(hits) \in hits
  BY <1>5, MinIsLeast
<1> QED BY <1>3, <1>4, <1>6

(* put, and the failure of a walk.                                         *)
LEMMA PutOf ==
  ASSUME NEW t \in Itab, NEW m \in Slots
  PROVE  /\ Put(t, m) \in Itab
         /\ \A s \in Slots : /\ Put(t, m).ref[s] = t.ref[s] - (IF s = m THEN 1 ELSE 0)
                             /\ Put(t, m).inum[s] = t.inum[s]
<1>1. t.ref \in [Slots -> Int] /\ \A s \in Slots : t.ref[s] \in Int
  BY DEF Itab
<1> QED BY <1>1, PutIs

LEMMA PutOneCopy ==
  ASSUME NEW t \in Itab, NEW m \in Slots, OneCopy(t)
  PROVE  OneCopy(Put(t, m))
<1> DEFINE x == Put(t, m)
<1>1. \A s \in Slots : t.ref[s] \in Int
  BY DEF Itab
<1>2. \A s \in Slots : x.inum[s] = t.inum[s] /\ (x.ref[s] > 0 => t.ref[s] > 0)
  <2>1. \A s \in Slots : x.ref[s] = t.ref[s] - (IF s = m THEN 1 ELSE 0)
    BY PutOf
  <2>2. \A s \in Slots : x.inum[s] = t.inum[s]
    BY PutOf
  <2> HIDE DEF x
  <2> QED BY <1>1, <2>1, <2>2
<1> HIDE DEF x
<1>3. OneCopy(x)
  BY <1>2 DEF OneCopy
<1> QED BY <1>3 DEF x

LEMMA FailIs ==
  ASSUME NEW w \in Walks, w.ip \in Slots
  PROVE  /\ Fail(w) \in Walks
         /\ Fail(w).t = Put(w.t, w.ip) /\ Fail(w).ip = Null /\ Fail(w).panic = w.panic
<1>1. Put(w.t, w.ip) \in Itab
  BY PutOf DEF Walks
<1> QED BY <1>1 DEF Fail, Walks

LEMMA FailCovers ==
  ASSUME NEW w \in Walks, w.ip \in Slots, NEW H \in [Slots -> Nat], Covers(w, H)
  PROVE  Covers(Fail(w), H)
<1>1. w.t \in Itab /\ \A s \in Slots : w.t.ref[s] \in Int /\ H[s] \in Nat
  BY DEF Walks, Itab
<1>2. CASE w.panic # "none"
  BY <1>2, FailIs DEF Covers
<1>3. CASE w.panic = "none"
  <2> DEFINE x == Put(w.t, w.ip)
  <2>1. \A s \in Slots : w.t.ref[s] >= H[s] + (IF w.ip = s THEN 1 ELSE 0)
    BY <1>3 DEF Covers
  <2>2. \A s \in Slots : x.ref[s] = w.t.ref[s] - (IF s = w.ip THEN 1 ELSE 0)
    BY <1>1, PutOf
  <2>3. OneCopy(x)
    BY <1>1, <1>3, PutOneCopy DEF Covers
  <2> HIDE DEF x
  <2>4. \A s \in Slots : x.ref[s] >= H[s] + (IF Null = s THEN 1 ELSE 0)
    BY <1>1, <2>1, <2>2, SlotFacts
  <2>5. Fail(w).t = x
    BY FailIs DEF x
  <2> QED BY <1>3, <2>3, <2>4, <2>5, FailIs DEF Covers
<1> QED BY <1>2, <1>3

(* The assertions in lock do not fail for a walk that has a reference to   *)
(* an inode in use.                                                        *)
LEMMA LockType ==
  ASSUME NEW w \in Walks
  PROVE  Lock(w) \in Walks /\ Lock(w).t = w.t /\ Lock(w).ip = w.ip
BY DEF Lock, Walks

LEMMA LockCovers ==
  ASSUME NEW w \in Walks, NEW H \in [Slots -> Nat], Covers(w, H), Lands(w)
  PROVE  Lock(w) = w
<1>1. ASSUME Going(w) PROVE w.t.ref[w.ip] >= 1
  <2>1. w.ip \in Slots
    BY <1>1 DEF Going, Walks
  <2>2. w.t.ref[w.ip] \in Int /\ H[w.ip] \in Nat /\ w.t.ref[w.ip] >= H[w.ip] + 1
    BY <1>1, <2>1 DEF Covers, Going, Walks, Itab
  <2> QED BY <2>2
<1>2. ASSUME Going(w) PROVE ~ (w.t.ref[w.ip] < 1)
  <2>1. w.t.ref[w.ip] \in Int
    BY <1>2 DEF Going, Walks, Itab
  <2> QED BY <1>1, <1>2, <2>1
<1> QED BY <1>2 DEF Lock, Lands

(* A walk goes on from dir to n: n is referred to before dir is put.       *)
LEMMA GoOnType ==
  ASSUME NEW dir \in Walks, dir.ip \in Slots, NEW n \in Inums
  PROVE  GoOn(dir, n) \in Walks /\ GoOn(dir, n).ip \in Slots
<1> DEFINE next == Iget(dir, n)
<1>1. next \in Walks /\ next.ip \in Slots
  BY IgetType
<1> HIDE DEF next
<1>2. Put(next.t, dir.ip) \in Itab
  BY <1>1, PutOf DEF Walks
<1>3. [next EXCEPT !.t = Put(@, dir.ip)] \in Walks
      /\ [next EXCEPT !.t = Put(@, dir.ip)].ip = next.ip
  BY <1>1, <1>2 DEF Walks
<1>4. GoOn(dir, n) = IF Going(next) THEN [next EXCEPT !.t = Put(@, dir.ip)] ELSE next
  BY DEF GoOn, next
<1> QED BY <1>1, <1>3, <1>4

LEMMA GoOnCovers ==
  ASSUME NEW dir \in Walks, Going(dir), NEW n \in Inums, NEW H \in [Slots -> Nat],
         Covers(dir, H)
  PROVE  Covers(GoOn(dir, n), H)
<1> DEFINE next == Iget(dir, n)
           G == [s \in Slots |-> H[s] + (IF s = dir.ip THEN 1 ELSE 0)]
           x == Put(next.t, dir.ip)
<1>1. dir.ip \in Slots /\ G \in [Slots -> Nat]
  BY DEF Going, Walks
<1>2. Covers(next, G)
  <2>1. dir.panic = "none" /\ OneCopy(dir.t) /\ \A s \in Slots : dir.t.ref[s] >= G[s]
    BY DEF Going, Covers
  <2> HIDE DEF G
  <2> QED BY <1>1, <2>1, IgetCovers
<1>3. next \in Walks /\ next.ip \in Slots /\ next.t \in Itab
  BY <1>1, IgetType DEF Walks
<1>4. GoOn(dir, n) = IF Going(next) THEN [next EXCEPT !.t = x] ELSE next
  BY DEF GoOn
<1>5. \A s \in Slots : next.t.ref[s] \in Int /\ H[s] \in Nat
      /\ G[s] = H[s] + (IF s = dir.ip THEN 1 ELSE 0)
  BY <1>3 DEF Itab
<1>6. \A s \in Slots : x.ref[s] = next.t.ref[s] - (IF s = dir.ip THEN 1 ELSE 0)
  <2> HIDE DEF next
  <2> QED BY <1>1, <1>3, PutOf
<1>7. next.panic = "none" => OneCopy(x)
  <2> HIDE DEF next
  <2> QED BY <1>1, <1>2, <1>3, PutOneCopy DEF Covers
<1> HIDE DEF next, G, x
<1>8. CASE Going(next)
  <2>1. \A s \in Slots : x.ref[s] >= H[s] + (IF next.ip = s THEN 1 ELSE 0)
    <3>1. \A s \in Slots : next.t.ref[s] >= G[s] + (IF next.ip = s THEN 1 ELSE 0)
      BY <1>2, <1>8 DEF Covers, Going
    <3> QED BY <1>1, <1>5, <1>6, <3>1
  <2>2. GoOn(dir, n).t = x /\ GoOn(dir, n).ip = next.ip /\ GoOn(dir, n).panic = "none"
    BY <1>3, <1>4, <1>8 DEF Going, Walks
  <2> QED BY <1>7, <1>8, <2>1, <2>2 DEF Covers, Going
<1>9. CASE ~ Going(next)
  <2>1. next.panic # "none"
    BY <1>3, <1>9, SlotFacts DEF Going
  <2> QED BY <1>2, <1>4, <1>9, <2>1 DEF Covers
<1> QED BY <1>8, <1>9

(* It has then reached n, in whatever slot.                                *)
LEMMA IgetReaches ==
  ASSUME NEW w \in Walks, NEW n \in Inums
  PROVE  Iget(w, n).panic = "none" =>
           Iget(w, n).ip \in Slots /\ Iget(w, n).t.inum[Iget(w, n).ip] = n
<1>1. \A m \in Slots : w.t.ref[m] \in Int /\ w.t.ref[m] + 1 \in Int
  BY DEF Walks, Itab
<1>2. CASE Iget(w, n) = [t |-> w.t, ip |-> w.ip, panic |-> "inodes"]
  BY <1>2
<1>3. ASSUME NEW m \in Slots, NEW r \in Int, Iget(w, n) = Reach(w, m, n, r)
      PROVE  Iget(w, n).ip = m /\ Iget(w, n).t.inum[m] = n
  BY <1>3, ReachIs
<1>4. ASSUME NEW m \in Slots, \/ Iget(w, n) = Reach(w, m, n, w.t.ref[m] + 1)
                              \/ Iget(w, n) = Reach(w, m, n, 1)
      PROVE  Iget(w, n).ip = m /\ Iget(w, n).t.inum[m] = n
  BY <1>1, <1>3, <1>4
<1> QED BY <1>2, <1>4, IgetCases

LEMMA GoOnLands ==
  ASSUME NEW dir \in Walks, dir.ip \in Slots, NEW n \in Inums, disk.type[n] # "free"
  PROVE  Lands(GoOn(dir, n))
<1> DEFINE next == Iget(dir, n)
<1>1. next \in Walks /\ next.ip \in Slots /\ next.t \in Itab
  BY IgetType DEF Walks
<1>2. next.panic = "none" => next.t.inum[next.ip] = n
  BY IgetReaches
<1>3. GoOn(dir, n) = IF Going(next) THEN [next EXCEPT !.t = Put(@, dir.ip)] ELSE next
  BY DEF GoOn
<1> HIDE DEF next
<1>4. CASE Going(next)
  <2>1. next.t.inum[next.ip] = n
    BY <1>2, <1>4 DEF Going
  <2>2. GoOn(dir, n).t = Put(next.t, dir.ip) /\ GoOn(dir, n).ip = next.ip
    BY <1>1, <1>3, <1>4 DEF Walks
  <2>3. GoOn(dir, n).t.inum[GoOn(dir, n).ip] = n
    BY <1>1, <2>1, <2>2, PutOf
  <2> QED BY <2>3 DEF Lands, TypeOf
<1>5. CASE ~ Going(next)
  BY <1>3, <1>5 DEF Lands
<1> QED BY <1>4, <1>5

(* One element of a path.                                                  *)
LEMMA StepType ==
  ASSUME disk \in Disks, NEW w \in Walks, NEW name
  PROVE  Step(w, name) \in Walks
<1> DEFINE dir == Lock(w)
<1>1. dir \in Walks
  BY LockType
<1> HIDE DEF dir
<1>2. CASE ~ Going(dir)
  BY <1>1, <1>2 DEF Step, dir
<1>3. CASE Going(dir)
  <2>1. dir.ip \in Slots
    BY <1>1, <1>3 DEF Going, Walks
  <2>2. Lookup(dir, name) \in Inums \union {0}
    BY <1>1, <1>3, LookupType DEF Going
  <2>3. Step(w, name) = IF TypeOf(dir) # "dir" \/ Lookup(dir, name) = 0 THEN Fail(dir)
                        ELSE GoOn(dir, Lookup(dir, name))
    BY <1>3 DEF Step, dir
  <2> QED BY <1>1, <2>1, <2>2, <2>3, FailIs, GoOnType
<1> QED BY <1>2, <1>3

LEMMA StepCovers ==
  ASSUME disk \in Disks, Leads(disk), NEW w \in Walks, Lands(w), NEW name,
         NEW H \in [Slots -> Nat], Covers(w, H)
  PROVE  Covers(Step(w, name), H) /\ Lands(Step(w, name))
<1>1. Lock(w) = w
  BY LockCovers
<1>2. CASE ~ Going(w)
  BY <1>1, <1>2 DEF Step
<1>3. CASE Going(w)
  <2>1. w.ip \in Slots
    BY <1>3 DEF Going, Walks
  <2>2. Lookup(w, name) \in Inums \union {0}
    BY <1>3, LookupType DEF Going
  <2>3. Step(w, name) = IF TypeOf(w) # "dir" \/ Lookup(w, name) = 0 THEN Fail(w)
                        ELSE GoOn(w, Lookup(w, name))
    BY <1>1, <1>3 DEF Step
  <2>4. CASE TypeOf(w) # "dir" \/ Lookup(w, name) = 0
    <3>1. Lands(Fail(w))
      BY <2>1, FailIs DEF Lands, Going
    <3> QED BY <2>1, <2>3, <2>4, <3>1, FailCovers
  <2>5. CASE TypeOf(w) = "dir" /\ Lookup(w, name) # 0
    <3>1. Lookup(w, name) \in Inums /\ disk.type[Lookup(w, name)] # "free"
      BY <1>3, <2>2, <2>5, LookupLeads DEF Going
    <3> QED BY <1>3, <2>1, <2>3, <2>5, <3>1, GoOnCovers, GoOnLands
  <2> QED BY <2>4, <2>5
<1> QED BY <1>2, <1>3

(* A whole path, by induction on its elements.                             *)
LEMMA WalkType ==
  ASSUME disk \in Disks, NEW w \in Walks, NEW elems, NEW n \in Nat
  PROVE  /\ Walk(w, elems, n) \in Walks
         /\ Leads(disk) /\ Lands(w) =>
              \A H \in [Slots -> Nat] : Covers(w, H) =>
                Covers(Walk(w, elems, n), H) /\ Lands(Walk(w, elems, n))
<1>1. PICK at : /\ at = [k \in 0 .. n |-> IF k = 0 THEN w ELSE Step(at[k - 1], elems[k])]
                /\ Walk(w, elems, n) = at[n]
  BY WalkSteps
<1>2. /\ at[0] = w
      /\ \A k \in 0 .. n : k + 1 \in 0 .. n => at[k + 1] = Step(at[k], elems[k + 1])
  BY <1>1
<1> DEFINE P(k) == /\ at[k] \in Walks
                   /\ Leads(disk) /\ Lands(w) =>
                        \A H \in [Slots -> Nat] : Covers(w, H) => Covers(at[k], H) /\ Lands(at[k])
           D == {k \in Nat : k <= n => P(k)}
<1>3. 0 \in D
  BY <1>2
<1>4. ASSUME NEW k \in D PROVE k + 1 \in D
  <2>1. CASE k + 1 <= n
    <3>1. P(k) /\ k \in 0 .. n /\ k + 1 \in 0 .. n
      BY <1>4, <2>1
    <3>2. at[k + 1] = Step(at[k], elems[k + 1])
      BY <1>2, <3>1
    <3>3. P(k + 1)
      BY <3>1, <3>2, StepType, StepCovers
    <3> QED BY <1>4, <3>3
  <2> QED BY <1>4, <2>1
<1>5. D = Nat
  <2>1. D \in SUBSET Nat
    OBVIOUS
  <2> HIDE DEF D
  <2> QED BY <1>3, <1>4, <2>1, Closed
<1>6. P(n)
  BY <1>5
<1> QED BY <1>1, <1>6

-----------------------------------------------------------------------------
(* Types.                                                                  *)

(* A directory has an entry, entries name inodes in use, and there are     *)
(* finitely many processes.                                                *)
Shape ==
  /\ TypeOK
  /\ Leads(disk)
  /\ \A n \in Inums : disk.type[n] = "dir" => disk.dents[n] # <<>>
  /\ IsFiniteSet(DOMAIN ofile)

(* Lookups of a process that exists are walks.                             *)
LEMMA FromType ==
  ASSUME TypeOK, NEW p \in DOMAIN ofile, NEW path
  PROVE  From(p, path) \in Walks /\ From(p, path).ip \in Slots
<1> DEFINE w == [t |-> itab, ip |-> cwd[p], panic |-> "none"]
<1>1. w \in Walks /\ w.ip \in Slots
  BY DEF TypeOK, Walks, Itab
<1>2. Iget(w, Root) \in Walks /\ Iget(w, Root).ip \in Slots
  BY <1>1, IgetType, FilesAssumption
<1> QED BY <1>1, <1>2 DEF From

LEMMA NameiType ==
  ASSUME TypeOK, NEW p \in DOMAIN ofile, NEW path \in Paths
  PROVE  Namei(p, path) \in Walks
<1>1. path.elems \in Seq(Names)
  BY FilesAssumption
<1>2. Len(path.elems) \in Nat
  BY <1>1
<1> QED BY <1>2, FromType, WalkType DEF Namei, TypeOK

LEMMA NameiParentType ==
  ASSUME TypeOK, NEW p \in DOMAIN ofile, NEW path \in Paths
  PROVE  /\ NameiParent(p, path) \in Walks
         /\ Going(NameiParent(p, path)) => TypeOf(NameiParent(p, path)) = "dir"
<1> DEFINE w == Walk(From(p, path), path.elems, Len(path.elems) - 1)
           dir == Lock(w)
<1>1. CASE path.elems = <<>>
  <2>1. NameiParent(p, path) = Fail(From(p, path))
    BY <1>1 DEF NameiParent
  <2> QED BY <2>1, FromType, FailIs DEF Going
<1>2. CASE path.elems # <<>>
  <2>1. path.elems \in Seq(Names)
    BY FilesAssumption
  <2>2. Len(path.elems) - 1 \in Nat
    BY <1>2, <2>1
  <2>3. w \in Walks
    BY <2>2, FromType, WalkType DEF TypeOK
  <2> HIDE DEF w
  <2>4. dir \in Walks
    BY <2>3, LockType
  <2> HIDE DEF dir
  <2>5. NameiParent(p, path) = IF Going(dir) /\ TypeOf(dir) # "dir" THEN Fail(dir) ELSE dir
    BY <1>2 DEF NameiParent, dir, w
  <2>6. Going(dir) => dir.ip \in Slots
    BY <2>4 DEF Going, Walks
  <2> QED BY <2>4, <2>5, <2>6, FailIs DEF Going
<1> QED BY <1>1, <1>2

(* link keeps a directory a sequence of entries.                           *)
LEMMA LinkType ==
  ASSUME NEW dents \in Seq([name : Names, inum : Inums \union {0}]), dents # <<>>,
         NEW n \in Inums
  PROVE  /\ Link(dents, n) \in Seq([name : Names, inum : Inums \union {0}])
         /\ Link(dents, n) # <<>>
<1> DEFINE E == [name : Names, inum : Inums \union {0}]
           free == {i \in DOMAIN dents : dents[i].inum = 0}
           new == [name |-> Last(dents).name, inum |-> n]
<1>1. Len(dents) \in Nat \ {0} /\ DOMAIN dents = 1 .. Len(dents)
      /\ DOMAIN dents \subseteq Nat /\ \A i \in DOMAIN dents : dents[i] \in E
  <2>1. Len(dents) # 0
    OBVIOUS
  <2>2. Len(dents) \in Nat /\ DOMAIN dents = 1 .. Len(dents) /\ DOMAIN dents \subseteq Nat
    BY SeqFacts
  <2>3. \A i \in DOMAIN dents : dents[i] \in E
    BY SeqFacts
  <2> QED BY <2>1, <2>2, <2>3
<1>2. CASE free # {}
  <2>1. Min(free) \in DOMAIN dents
    BY <1>1, <1>2, MinIsLeast
  <2>2. [dents[Min(free)] EXCEPT !.inum = n] \in E
    BY <1>1, <2>1
  <2>3. Link(dents, n) = [dents EXCEPT ![Min(free)].inum = n]
    BY <1>2 DEF Link
  <2> HIDE DEF free
  <2>4. Link(dents, n) = [i \in 1 .. Len(dents) |->
                            IF i = Min(free) THEN [dents[Min(free)] EXCEPT !.inum = n]
                            ELSE dents[i]]
    BY <1>1, <2>1, <2>3
  <2> DEFINE x == [dents[Min(free)] EXCEPT !.inum = n]
  <2>5. x \in E
    BY <2>2
  <2> HIDE DEF x, E
  <2>6. Link(dents, n) \in [1 .. Len(dents) -> E]
    BY <1>1, <2>4, <2>5 DEF x
  <2>7. Link(dents, n) \in Seq(E) /\ Len(Link(dents, n)) = Len(dents)
    BY <1>1, <2>6
  <2> QED BY <1>1, <2>7 DEF E
<1>3. CASE free = {}
  <2>1. Last(dents) \in E
    BY <1>1 DEF Last
  <2>2. new \in E
    BY <2>1
  <2>3. Link(dents, n) = Append(dents, new)
    BY <1>3 DEF Link
  <2> HIDE DEF new, E
  <2>4. Append(dents, new) \in Seq(E) /\ Append(dents, new) # <<>>
    BY <2>2 DEF E
  <2> QED BY <2>3, <2>4 DEF E
<1> QED BY <1>2, <1>3

(* Its entries are those it had and one of n.                              *)
Linked(l, dents, n) ==
  \A i \in DOMAIN l : l[i].inum = n \/ (i \in DOMAIN dents /\ l[i] = dents[i])

LEMMA LinkEntries ==
  ASSUME NEW dents \in Seq([name : Names, inum : Inums \union {0}]), NEW n \in Inums
  PROVE  Linked(Link(dents, n), dents, n)
<1> SUFFICES ASSUME NEW i \in DOMAIN Link(dents, n)
             PROVE  \/ Link(dents, n)[i].inum = n
                    \/ i \in DOMAIN dents /\ Link(dents, n)[i] = dents[i]
  BY DEF Linked
<1> DEFINE E == [name : Names, inum : Inums \union {0}]
           free == {k \in DOMAIN dents : dents[k].inum = 0}
           new == [name |-> Last(dents).name, inum |-> n]
<1>1. DOMAIN dents \subseteq Nat /\ (\A k \in DOMAIN dents : dents[k] \in E)
      /\ DOMAIN dents = 1 .. Len(dents) /\ Len(dents) \in Nat
  BY SeqFacts
<1>2. CASE free # {}
  <2>1. Min(free) \in DOMAIN dents
    BY <1>1, <1>2, MinIsLeast
  <2>2. Link(dents, n) = [dents EXCEPT ![Min(free)].inum = n]
    BY <1>2 DEF Link
  <2> HIDE DEF free
  <2>3. i \in DOMAIN dents
    BY <2>2
  <2>4. CASE i = Min(free)
    <3>1. Link(dents, n)[i] = [dents[i] EXCEPT !.inum = n]
      BY <2>1, <2>2, <2>4
    <3>2. dents[i] \in E
      BY <1>1, <2>3
    <3> QED BY <3>1, <3>2
  <2>5. CASE i # Min(free)
    BY <2>1, <2>2, <2>3, <2>5
  <2> QED BY <2>4, <2>5
<1>3. CASE free = {}
  <2>1. Link(dents, n) = Append(dents, new)
    BY <1>3 DEF Link
  <2>2. new.inum = n
    OBVIOUS
  <2> HIDE DEF new, E
  <2>3. DOMAIN Append(dents, new) = 1 .. Len(dents) + 1
        /\ Append(dents, new)[Len(dents) + 1] = new
        /\ \A k \in 1 .. Len(dents) : Append(dents, new)[k] = dents[k]
    BY <1>1
  <2>4. i \in 1 .. Len(dents) + 1
    BY <2>1, <2>3
  <2>5. CASE i = Len(dents) + 1
    BY <2>1, <2>2, <2>3, <2>5
  <2>6. CASE i \in 1 .. Len(dents)
    BY <1>1, <2>1, <2>3, <2>6
  <2> QED BY <1>1, <2>4, <2>5, <2>6
<1> QED BY <1>2, <1>3

(* A free inode that becomes a file and gets an entry leaves all entries   *)
(* with inodes in use.                                                     *)
LEMMA LinkLeads ==
  ASSUME disk \in Disks, Leads(disk), NEW m \in Inums, disk.type[m] = "free",
         NEW dnum \in Inums, disk.type[dnum] = "dir", NEW d,
         d = [type |-> [disk.type EXCEPT ![m] = "file"],
              dents |-> [disk.dents EXCEPT ![dnum] = Link(disk.dents[dnum], m)]]
  PROVE  Leads(d)
<1> DEFINE E == [name : Names, inum : Inums \union {0}]
<1>1. /\ disk.type \in [Inums -> {"free", "dir", "file", "device"}]
      /\ disk.dents \in [Inums -> Seq(E)]
  BY DEF Disks
<1>2. \A i \in Inums : d.type[i] = (IF i = m THEN "file" ELSE disk.type[i])
  BY <1>1
<1>3. \A i \in Inums : d.dents[i] = (IF i = dnum THEN Link(disk.dents[dnum], m) ELSE disk.dents[i])
  <2> DEFINE l == Link(disk.dents[dnum], m)
             S == Seq(E)
  <2>1. disk.dents \in [Inums -> S] /\ d.dents = [disk.dents EXCEPT ![dnum] = l]
    BY <1>1
  <2> HIDE DEF l, S
  <2>2. \A i \in Inums : d.dents[i] = (IF i = dnum THEN l ELSE disk.dents[i])
    BY <2>1
  <2> QED BY <2>2 DEF l
<1>4. d.type[Root] # "free"
  BY <1>2, FilesAssumption DEF Leads
<1>5. ASSUME NEW n \in Inums, d.type[n] = "dir", NEW i \in DOMAIN d.dents[n], d.dents[n][i].inum # 0
      PROVE  d.type[d.dents[n][i].inum] # "free"
  <2>1. n # m /\ disk.type[n] = "dir"
    BY <1>2, <1>5
  <2>2. disk.dents[n] \in Seq(E) /\ \A k \in DOMAIN disk.dents[n] : disk.dents[n][k] \in E
    <3>1. disk.dents[n] \in Seq(E)
      BY <1>1
    <3> QED BY <3>1, SeqFacts
  <2>3. \/ d.dents[n][i].inum = m
        \/ i \in DOMAIN disk.dents[n] /\ d.dents[n][i] = disk.dents[n][i]
    <3>1. CASE n = dnum
      <4>1. d.dents[n] = Link(disk.dents[n], m)
        BY <1>3, <3>1
      <4> DEFINE dents == disk.dents[n]
                 l == d.dents[n]
      <4>2. dents \in Seq([name : Names, inum : Inums \union {0}])
        BY <2>2
      <4>3. l = Link(dents, m)
        BY <4>1
      <4> HIDE DEF dents, l
      <4>4. Linked(l, dents, m)
        BY <4>2, <4>3, LinkEntries
      <4>5. \A k \in DOMAIN l : l[k].inum = m \/ (k \in DOMAIN dents /\ l[k] = dents[k])
        BY <4>4 DEF Linked
      <4>6. i \in DOMAIN l
        BY <1>5 DEF l
      <4> QED BY <4>5, <4>6 DEF l, dents
    <3>2. CASE n # dnum
      BY <1>3, <1>5, <3>2
    <3> QED BY <3>1, <3>2
  <2>4. CASE d.dents[n][i].inum = m
    BY <1>2, <2>4
  <2>5. CASE i \in DOMAIN disk.dents[n] /\ d.dents[n][i] = disk.dents[n][i]
    <3> DEFINE k == disk.dents[n][i].inum
    <3>1. k \in Inums
      <4>1. disk.dents[n][i] \in E
        BY <2>2, <2>5
      <4> QED BY <1>5, <2>5, <4>1
    <3>2. disk.type[k] # "free"
      BY <1>5, <2>1, <2>5 DEF Leads
    <3> QED BY <1>2, <2>5, <3>1, <3>2
  <2> QED BY <2>3, <2>4, <2>5
<1> QED BY <1>4, <1>5 DEF Leads

(* The parts of Shape about the tables; the disk is on its own.            *)
Tables ==
  /\ file \in [FileSlots -> [refcnt : Nat, type : {"NONE", "INODE", "DEVICE"},
                             ip : Slots \union {Null}]]
  /\ DOMAIN ofile \subseteq Procs /\ DOMAIN cwd = DOMAIN ofile
  /\ \A p \in DOMAIN ofile :
       ofile[p] \in [Fds -> FileSlots \union {Null}] /\ cwd[p] \in Slots
  /\ itab \in Itab
  /\ panic \in {"none", "refcnt", "null", "type", "files", "inodes"}
  /\ IsFiniteSet(DOMAIN ofile)
DiskShape ==
  /\ disk \in Disks
  /\ Leads(disk)
  /\ \A n \in Inums : disk.type[n] = "dir" => disk.dents[n] # <<>>

LEMMA ShapeParts == Shape <=> Tables /\ DiskShape /\ odd \in Nat
BY DEF Shape, TypeOK, Tables, DiskShape, Itab

LEMMA ShapeNext == Tables' /\ DiskShape' /\ odd' \in Nat => Shape'
BY DEF Shape, TypeOK, Tables, DiskShape, Itab

LEMMA InitShape == Init => Shape
<1> SUFFICES ASSUME Init PROVE Shape OBVIOUS
<1>1. PICK p \in Procs : /\ ofile = [q \in {p} |-> [d \in Fds |-> IF d <= 1 THEN d + 1 ELSE Null]]
                         /\ cwd = [q \in {p} |-> 1]
  BY DEF Init
<1>2. 1 \in Slots /\ 1 \in FileSlots /\ 2 \in FileSlots
  BY FilesAssumption DEF Slots, FileSlots
<1>3. \A d \in Fds : (IF d <= 1 THEN d + 1 ELSE Null) \in FileSlots \union {Null}
  BY <1>2, FilesAssumption DEF Fds
<1>4. IsFiniteSet(DOMAIN ofile)
  BY <1>1, FS_Singleton
<1>5. Tables
  <2>1. file \in [FileSlots -> [refcnt : Nat, type : {"NONE", "INODE", "DEVICE"},
                                ip : Slots \union {Null}]]
    BY DEF Init
  <2>2. itab \in Itab
    BY FilesAssumption DEF Init, Itab
  <2>3. panic = "none"
    BY DEF Init
  <2> QED BY <1>1, <1>2, <1>3, <1>4, <2>1, <2>2, <2>3 DEF Tables
<1>6. DiskShape /\ odd \in Nat
  BY FilesAssumption DEF Init, DiskShape
<1> QED BY <1>5, <1>6, ShapeParts

(* The three ends of a call.                                               *)
LEMMA ReturnTables ==
  ASSUME Tables, NEW w \in Walks, Return(w)
  PROVE  Tables'
BY DEF Tables, Return, Walks

LEMMA FailTables ==
  ASSUME Tables, NEW w \in Walks, Going(w), Return(Fail(w))
  PROVE  Tables'
<1>1. w.ip \in Slots
  BY DEF Going, Walks
<1> QED BY <1>1, FailIs, ReturnTables

LEMMA PanicTables ==
  ASSUME Tables, NEW why \in {"refcnt", "null", "type", "files", "inodes"}, Panic(why)
  PROVE  Tables' /\ UNCHANGED disk
BY DEF Tables, Panic

LEMMA NotFoundTables ==
  ASSUME Tables, NEW w \in Walks, NotFound(w)
  PROVE  Tables' /\ UNCHANGED disk
<1>1. CASE w.panic # "none" /\ Panic(w.panic)
  <2>1. w.panic \in {"refcnt", "type", "inodes"}
    BY <1>1 DEF Walks
  <2> QED BY <1>1, <2>1, PanicTables
<1>2. CASE w.panic = "none" /\ w.ip = Null /\ Return(w) /\ UNCHANGED disk
  BY <1>2, ReturnTables
<1> QED BY <1>1, <1>2 DEF NotFound

(* A free File and a free descriptor, the ones that open takes.            *)
LEMMA FreeSlots ==
  ASSUME Tables, NEW p \in DOMAIN ofile
  PROVE  /\ FreeFiles \subseteq FileSlots /\ FreeFds(p) \subseteq Fds
         /\ FreeFiles # {} => Min(FreeFiles) \in FreeFiles
         /\ FreeFds(p) # {} => Min(FreeFds(p)) \in FreeFds(p)
         /\ FreeFiles \ {Min(FreeFiles)} # {} =>
              Min(FreeFiles \ {Min(FreeFiles)}) \in FreeFiles \ {Min(FreeFiles)}
<1>1. FreeFiles \in SUBSET Nat /\ FreeFds(p) \in SUBSET Nat
  BY FilesAssumption DEF FreeFiles, FreeFds, FileSlots, Fds
<1>2. FreeFiles \ {Min(FreeFiles)} \in SUBSET Nat
  BY <1>1
<1> QED BY <1>1, <1>2, MinIsLeast DEF FreeFiles, FreeFds

LEMMA OpenFileTables ==
  ASSUME Tables, NEW p \in DOMAIN ofile, NEW w \in Walks, Going(w), NEW type,
         OpenFile(p, w, type)
  PROVE  Tables'
<1>1. CASE Return(Fail(w))
  BY <1>1, FailTables
<1>2. CASE ~ (FreeFiles = {} \/ FreeFds(p) = {})
  <2> DEFINE f == Min(FreeFiles)
             d == Min(FreeFds(p))
             new == [refcnt |-> 1, ip |-> w.ip,
                     type |-> IF type = "device" THEN "DEVICE" ELSE "INODE"]
  <2>1. f \in FileSlots /\ d \in Fds
    BY <1>2, FreeSlots DEF FreeFiles, FreeFds
  <2>2. /\ file' = [file EXCEPT ![f] = new]
        /\ ofile' = [ofile EXCEPT ![p][d] = f]
        /\ itab' = w.t /\ UNCHANGED <<cwd, panic>>
    BY <1>2 DEF OpenFile
  <2>3. new \in [refcnt : Nat, type : {"NONE", "INODE", "DEVICE"}, ip : Slots \union {Null}]
    BY DEF Walks
  <2> HIDE DEF f, d, new
  <2>4. file' \in [FileSlots -> [refcnt : Nat, type : {"NONE", "INODE", "DEVICE"},
                                 ip : Slots \union {Null}]]
    BY <2>1, <2>2, <2>3 DEF Tables
  <2>5. DOMAIN ofile' = DOMAIN ofile
        /\ \A q \in DOMAIN ofile : ofile'[q] \in [Fds -> FileSlots \union {Null}]
    BY <2>1, <2>2 DEF Tables
  <2>6. itab' \in Itab
    BY <2>2 DEF Walks
  <2> QED BY <2>2, <2>4, <2>5, <2>6 DEF Tables
<1> QED BY <1>1, <1>2 DEF OpenFile

(* Every call keeps the tables in shape, and only create changes the disk. *)
LEMMA OpenShape ==
  ASSUME Shape, NEW p \in Procs, NEW path \in Paths, NEW rdonly, Open(p, path, rdonly)
  PROVE  Shape'
<1> DEFINE w == Lock(Namei(p, path))
<1>1. p \in DOMAIN ofile
  BY DEF Open, Runs
<1>2. w \in Walks
  BY <1>1, NameiType, LockType DEF Shape
<1>3. odd' \in Nat
  BY ShapeParts DEF Open, Count
<1>4. \/ NotFound(w)
      \/ Going(w) /\ Return(Fail(w)) /\ UNCHANGED disk
      \/ Going(w) /\ OpenFile(p, w, TypeOf(w)) /\ UNCHANGED disk
  BY DEF Open
<1> HIDE DEF w
<1>5. Tables' /\ UNCHANGED disk
  BY <1>1, <1>2, <1>4, ShapeParts, NotFoundTables, FailTables, OpenFileTables
<1>6. DiskShape'
  BY <1>5, ShapeParts DEF DiskShape
<1> QED BY <1>3, <1>5, <1>6, ShapeNext

LEMMA ChdirShape ==
  ASSUME Shape, NEW p \in Procs, NEW path \in Paths, Chdir(p, path)
  PROVE  Shape'
<1> DEFINE w == Lock(Namei(p, path))
<1>1. p \in DOMAIN ofile /\ Tables
  BY ShapeParts DEF Chdir, Runs
<1>2. w \in Walks
  BY <1>1, NameiType, LockType DEF Shape
<1>3. odd' \in Nat
  BY ShapeParts DEF Chdir, Count
<1>4. \/ NotFound(w)
      \/ Going(w) /\ Return(Fail(w)) /\ UNCHANGED disk
      \/ /\ Going(w) /\ itab' = Put(w.t, cwd[p])
         /\ cwd' = [cwd EXCEPT ![p] = w.ip]
         /\ UNCHANGED <<file, ofile, disk, panic>>
  BY DEF Chdir
<1> HIDE DEF w
<1>5. Tables' /\ UNCHANGED disk
  <2>1. CASE /\ Going(w) /\ itab' = Put(w.t, cwd[p])
             /\ cwd' = [cwd EXCEPT ![p] = w.ip]
             /\ UNCHANGED <<file, ofile, disk, panic>>
    <3>1. w.ip \in Slots /\ w.t \in Itab /\ cwd[p] \in Slots
      BY <1>1, <1>2, <2>1 DEF Going, Walks, Tables
    <3>2. itab' \in Itab
      BY <2>1, <3>1, PutOf
    <3>3. DOMAIN cwd' = DOMAIN ofile' /\ \A q \in DOMAIN ofile : cwd'[q] \in Slots
      BY <1>1, <2>1, <3>1 DEF Tables
    <3> QED BY <1>1, <2>1, <3>2, <3>3 DEF Tables
  <2> QED BY <1>1, <1>2, <1>4, <2>1, NotFoundTables, FailTables
<1>6. DiskShape'
  BY <1>5, ShapeParts DEF DiskShape
<1> QED BY <1>3, <1>5, <1>6, ShapeNext

LEMMA CreateShape ==
  ASSUME Shape, NEW p \in Procs, NEW path \in Paths, Create(p, path)
  PROVE  Shape'
<1> DEFINE dir == NameiParent(p, path)
           n == Lookup(dir, Last(path.elems))
           freeInums == {i \in Inums : disk.type[i] = "free"}
           m == Min(freeInums)
<1>1. p \in DOMAIN ofile /\ Tables /\ DiskShape
  BY ShapeParts DEF Create, Runs
<1>2. dir \in Walks /\ (Going(dir) => TypeOf(dir) = "dir" /\ dir.ip \in Slots)
  BY <1>1, NameiParentType DEF Shape, Going, Walks
<1>3. odd' \in Nat
  BY ShapeParts DEF Create, Count
<1>4. Going(dir) => n \in Inums \union {0}
  BY <1>1, <1>2, LookupType DEF Going, DiskShape
<1>5. freeInums # {} => m \in freeInums
  BY MinIsLeast, FilesAssumption
<1>6. \/ NotFound(dir)
      \/ Going(dir) /\ n # 0 /\ CreateExisting(p, Lock(GoOn(dir, n)))
      \/ Going(dir) /\ Return(Fail(dir)) /\ UNCHANGED disk
      \/ Going(dir) /\ freeInums # {} /\ CreateNew(p, dir, m)
      \/ Going(dir) /\ freeInums # {} /\ CreateFails(dir, m)
  BY DEF Create
<1> HIDE DEF dir, n, freeInums, m
<1>7. CASE NotFound(dir) \/ (Going(dir) /\ Return(Fail(dir)) /\ UNCHANGED disk)
  <2>1. Tables' /\ UNCHANGED disk
    BY <1>1, <1>2, <1>7, NotFoundTables, FailTables
  <2> QED BY <1>1, <1>3, <2>1, ShapeNext DEF DiskShape
<1>8. CASE Going(dir) /\ n # 0 /\ CreateExisting(p, Lock(GoOn(dir, n)))
  <2> DEFINE w == Lock(GoOn(dir, n))
  <2>1. w \in Walks
    BY <1>2, <1>4, <1>8, GoOnType, LockType
  <2>2. \/ NotFound(w)
        \/ Going(w) /\ Return(Fail(w)) /\ UNCHANGED disk
        \/ Going(w) /\ OpenFile(p, w, TypeOf(w)) /\ UNCHANGED disk
    BY <1>8 DEF CreateExisting
  <2> HIDE DEF w
  <2>3. Tables' /\ UNCHANGED disk
    BY <1>1, <2>1, <2>2, NotFoundTables, FailTables, OpenFileTables
  <2> QED BY <1>1, <1>3, <2>3, ShapeNext DEF DiskShape
<1>9. CASE Going(dir) /\ freeInums # {} /\ CreateNew(p, dir, m)
  <2> DEFINE w == GoOn(dir, m)
             dnum == dir.t.inum[dir.ip]
  <2>1. m \in Inums /\ w \in Walks /\ dnum \in Inums
    BY <1>2, <1>5, <1>9, GoOnType DEF freeInums, Walks, Itab
  <2>2. \/ NotFound(w)
        \/ /\ Going(w) /\ OpenFile(p, w, "file")
           /\ disk' = [type |-> [disk.type EXCEPT ![m] = "file"],
                       dents |-> [disk.dents EXCEPT ![dnum] = Link(disk.dents[dnum], m)]]
    BY <1>9 DEF CreateNew
  <2>3. disk.type[dnum] = "dir"
    BY <1>2, <1>9 DEF TypeOf
  <2> HIDE DEF w, dnum
  <2>4. Tables'
    BY <1>1, <2>1, <2>2, NotFoundTables, OpenFileTables
  <2>5. CASE UNCHANGED disk
    BY <1>1, <1>3, <2>4, <2>5, ShapeNext DEF DiskShape
  <2>6. CASE disk' = [type |-> [disk.type EXCEPT ![m] = "file"],
                      dents |-> [disk.dents EXCEPT ![dnum] = Link(disk.dents[dnum], m)]]
    <3> DEFINE E == [name : Names, inum : Inums \union {0}]
    <3>1. /\ disk.type \in [Inums -> {"free", "dir", "file", "device"}]
          /\ disk.dents \in [Inums -> Seq(E)]
      BY <1>1 DEF DiskShape, Disks
    <3>2. disk.dents[dnum] \in Seq(E) /\ disk.dents[dnum] # <<>>
      BY <1>1, <2>1, <2>3, <3>1 DEF DiskShape
    <3>3. Link(disk.dents[dnum], m) \in Seq(E) /\ Link(disk.dents[dnum], m) # <<>>
      BY <2>1, <3>2, LinkType
    <3> DEFINE l == Link(disk.dents[dnum], m)
               S == Seq(E)
    <3>4. l \in S /\ l # <<>> /\ disk.dents \in [Inums -> S]
          /\ disk' = [type |-> [disk.type EXCEPT ![m] = "file"],
                      dents |-> [disk.dents EXCEPT ![dnum] = l]]
      BY <2>6, <3>1, <3>3
    <3> HIDE DEF l, S, E
    <3>5. /\ [disk.type EXCEPT ![m] = "file"] \in [Inums -> {"free", "dir", "file", "device"}]
          /\ [disk.dents EXCEPT ![dnum] = l] \in [Inums -> S]
      BY <2>1, <3>1, <3>4
    <3>6. disk' \in Disks
      BY <3>4, <3>5 DEF Disks, S, E
    <3>7. \A i \in Inums : disk'.type[i] = "dir" => disk'.dents[i] # <<>>
      BY <1>1, <2>1, <3>1, <3>4 DEF DiskShape
    <3>8. disk.type[m] = "free"
      BY <1>5, <1>9 DEF freeInums
    <3>9. Leads(disk')
      BY <1>1, <2>1, <2>3, <2>6, <3>8, LinkLeads DEF DiskShape
    <3>10. Leads(disk)'
      BY <3>9 DEF Leads
    <3> QED BY <1>3, <2>4, <3>6, <3>7, <3>10, ShapeNext DEF DiskShape
  <2>7. NotFound(w) => UNCHANGED disk
    BY <1>1, <2>1, NotFoundTables
  <2> QED BY <2>2, <2>5, <2>6, <2>7
<1>10. CASE Going(dir) /\ freeInums # {} /\ CreateFails(dir, m)
  <2> DEFINE w == GoOn(dir, m)
  <2>1. w \in Walks
    BY <1>2, <1>5, <1>10, GoOnType DEF freeInums
  <2>2. Going(w) /\ Return(Fail(w)) /\ UNCHANGED disk
    BY <1>10 DEF CreateFails
  <2> HIDE DEF w
  <2>3. Tables'
    BY <1>1, <2>1, <2>2, FailTables
  <2> QED BY <1>1, <1>3, <2>2, <2>3, ShapeNext DEF DiskShape
<1> QED BY <1>6, <1>7, <1>8, <1>9, <1>10

LEMMA CloseShape ==
  ASSUME Shape, NEW p \in Procs, NEW d \in Fds, Close(p, d)
  PROVE  Shape'
<1> DEFINE f == ofile[p][d]
           last == file[f].refcnt = 1
           put == last /\ file[f].type \in {"INODE", "DEVICE"}
           new == [refcnt |-> file[f].refcnt - 1, ip |-> file[f].ip,
                   type |-> IF last THEN "NONE" ELSE file[f].type]
<1>1. p \in DOMAIN ofile /\ Tables /\ DiskShape
  BY ShapeParts DEF Close, Runs
<1>2. f \in FileSlots
  BY <1>1 DEF Tables, Close
<1>3. file[f] \in [refcnt : Nat, type : {"NONE", "INODE", "DEVICE"}, ip : Slots \union {Null}]
  BY <1>1, <1>2 DEF Tables
<1>4. odd' \in Nat
  BY ShapeParts DEF Close, Count
<1>5. \/ Panic("refcnt")
      \/ Panic("null")
      \/ /\ file[f].refcnt >= 1 /\ (put => file[f].ip # Null)
         /\ ofile' = [ofile EXCEPT ![p][d] = Null]
         /\ file' = [file EXCEPT ![f] = new]
         /\ itab' = (IF put THEN Put(itab, file[f].ip) ELSE itab)
         /\ UNCHANGED <<cwd, disk, panic>>
  BY <1>3 DEF Close
<1>6. CASE Panic("refcnt") \/ Panic("null")
  <2>1. Tables' /\ UNCHANGED disk
    BY <1>1, <1>6, PanicTables
  <2> QED BY <1>1, <1>4, <2>1, ShapeNext DEF DiskShape
<1>7. CASE /\ file[f].refcnt >= 1 /\ (put => file[f].ip # Null)
           /\ ofile' = [ofile EXCEPT ![p][d] = Null]
           /\ file' = [file EXCEPT ![f] = new]
           /\ itab' = (IF put THEN Put(itab, file[f].ip) ELSE itab)
           /\ UNCHANGED <<cwd, disk, panic>>
  <2>1. new \in [refcnt : Nat, type : {"NONE", "INODE", "DEVICE"}, ip : Slots \union {Null}]
    BY <1>3, <1>7
  <2>2. itab' \in Itab
    BY <1>1, <1>3, <1>7, PutOf DEF Tables
  <2> HIDE DEF f, last, put, new
  <2>3. file' \in [FileSlots -> [refcnt : Nat, type : {"NONE", "INODE", "DEVICE"},
                                 ip : Slots \union {Null}]]
    BY <1>1, <1>2, <1>7, <2>1 DEF Tables
  <2>4. DOMAIN ofile' = DOMAIN ofile
        /\ \A q \in DOMAIN ofile : ofile'[q] \in [Fds -> FileSlots \union {Null}]
    BY <1>1, <1>7 DEF Tables
  <2>5. Tables'
    BY <1>1, <1>7, <2>2, <2>3, <2>4 DEF Tables
  <2> QED BY <1>1, <1>4, <1>7, <2>5, ShapeNext DEF DiskShape
<1> QED BY <1>5, <1>6, <1>7

LEMMA DupShape ==
  ASSUME Shape, NEW p \in Procs, NEW d \in Fds, Dup(p, d)
  PROVE  Shape'
<1>1. p \in DOMAIN ofile /\ Tables /\ DiskShape /\ odd' \in Nat
  BY ShapeParts DEF Dup, Runs
<1>2. Min(FreeFds(p)) \in Fds /\ ofile[p][d] \in FileSlots
  BY <1>1, FreeSlots DEF Dup, FreeFds, Tables
<1>3. DOMAIN ofile' = DOMAIN ofile
      /\ \A q \in DOMAIN ofile : ofile'[q] \in [Fds -> FileSlots \union {Null}]
  <2> DEFINE e == Min(FreeFds(p))
             f == ofile[p][d]
  <2>1. e \in Fds /\ f \in FileSlots /\ ofile' = [ofile EXCEPT ![p][e] = f]
    BY <1>2 DEF Dup
  <2> HIDE DEF e, f
  <2> QED BY <1>1, <2>1 DEF Tables
<1>4. Tables' /\ DiskShape'
  BY <1>1, <1>3 DEF Tables, DiskShape, Dup
<1> QED BY <1>1, <1>4, ShapeNext

LEMMA LookShape ==
  ASSUME Shape, NEW p \in Procs, NEW d \in Fds, Fstat(p, d) \/ ReadWrite(p, d)
  PROVE  Shape'
<1>1. Tables /\ DiskShape /\ odd' \in Nat
  BY ShapeParts DEF Fstat, ReadWrite, Count
<1>2. panic' \in {"none", "refcnt", "null", "type", "files", "inodes"}
      /\ UNCHANGED <<file, ofile, cwd, itab, disk>>
  BY <1>1 DEF Fstat, ReadWrite, Tables
<1>3. Tables' /\ DiskShape'
  BY <1>1, <1>2 DEF Tables, DiskShape
<1> QED BY <1>1, <1>3, ShapeNext

(* The two console Files that a new process takes.                         *)
LEMMA TwoFree ==
  ASSUME Tables, Cardinality(FreeFiles) >= 2
  PROVE  LET first == Min(FreeFiles)
             second == Min(FreeFiles \ {first})
         IN  first \in FreeFiles /\ second \in FreeFiles /\ first # second
<1>1. FreeFiles \in SUBSET Nat /\ FreeFiles \in SUBSET FileSlots /\ IsFiniteSet(FreeFiles)
  <2>1. IsFiniteSet(FileSlots) /\ FileSlots \in SUBSET Nat
    BY FS_Interval, FilesAssumption DEF FileSlots
  <2>2. FreeFiles \in SUBSET FileSlots
    BY DEF FreeFiles
  <2> QED BY <2>1, <2>2, FS_Subset
<1>2. FreeFiles # {}
  BY FS_EmptySet
<1>3. Min(FreeFiles) \in FreeFiles
  BY <1>1, <1>2, MinIsLeast
<1>4. FreeFiles # {Min(FreeFiles)}
  BY FS_Singleton
<1>5. FreeFiles \ {Min(FreeFiles)} # {} /\ FreeFiles \ {Min(FreeFiles)} \in SUBSET Nat
  BY <1>1, <1>3, <1>4
<1>6. Min(FreeFiles \ {Min(FreeFiles)}) \in FreeFiles \ {Min(FreeFiles)}
  BY <1>5, MinIsLeast
<1> QED BY <1>3, <1>6

FileType == [refcnt : Nat, type : {"NONE", "INODE", "DEVICE"}, ip : Slots \union {Null}]

LEMMA NewFilesType ==
  ASSUME Tables, NEW two
  PROVE  NewFiles(two) \in [FileSlots -> FileType]
<1>1. file \in [FileSlots -> FileType]
  BY DEF Tables, FileType
<1>2. \A f \in FileSlots : [refcnt |-> 1, type |-> "DEVICE", ip |-> file[f].ip] \in FileType
  BY <1>1 DEF FileType
<1> QED BY <1>1, <1>2 DEF NewFiles

(* A descriptor set is finite.                                             *)
LEMMA FdsFinite ==
  ASSUME NEW S \in SUBSET Fds
  PROVE  IsFiniteSet(S) /\ Cardinality(S) \in Nat
<1>1. IsFiniteSet(Fds)
  BY FS_Interval, FilesAssumption DEF Fds
<1> QED BY <1>1, FS_Subset, FS_CardinalityType

LEMMA ForkShape ==
  ASSUME Shape, NEW p \in Procs, NEW child \in Procs, Fork(p, child)
  PROVE  Shape'
<1> DEFINE first == Min(FreeFiles)
           second == Min(FreeFiles \ {first})
           new == NewFiles({first, second})
           own(d) == CASE d = 0 -> first [] d = 1 -> second [] OTHER -> Null
<1>1. p \in DOMAIN ofile /\ Tables /\ DiskShape /\ odd' \in Nat /\ child \notin DOMAIN ofile
  BY ShapeParts DEF Fork, Runs
<1>2. \/ Panic("files")
      \/ Panic("refcnt")
      \/ /\ ~ (Cardinality(FreeFiles) < 2)
         /\ file' = [f \in FileSlots |-> [new[f] EXCEPT !.refcnt = @ + Inherited(p, f)]]
         /\ ofile' = [q \in DOMAIN ofile \union {child} |->
                IF q # child THEN ofile[q]
                ELSE [d \in Fds |-> IF ofile[p][d] # Null THEN ofile[p][d] ELSE own(d)]]
         /\ cwd' = [q \in DOMAIN cwd \union {child} |-> IF q = child THEN cwd[p] ELSE cwd[q]]
         /\ itab' = [itab EXCEPT !.ref[cwd[p]] = @ + 1]
         /\ UNCHANGED <<disk, panic>>
  BY DEF Fork
<1>3. CASE Panic("files") \/ Panic("refcnt")
  <2>1. Tables' /\ UNCHANGED disk
    BY <1>1, <1>3, PanicTables
  <2> QED BY <1>1, <2>1, ShapeNext DEF DiskShape
<1>4. CASE /\ ~ (Cardinality(FreeFiles) < 2)
           /\ file' = [f \in FileSlots |-> [new[f] EXCEPT !.refcnt = @ + Inherited(p, f)]]
           /\ ofile' = [q \in DOMAIN ofile \union {child} |->
                  IF q # child THEN ofile[q]
                  ELSE [d \in Fds |-> IF ofile[p][d] # Null THEN ofile[p][d] ELSE own(d)]]
           /\ cwd' = [q \in DOMAIN cwd \union {child} |-> IF q = child THEN cwd[p] ELSE cwd[q]]
           /\ itab' = [itab EXCEPT !.ref[cwd[p]] = @ + 1]
           /\ UNCHANGED <<disk, panic>>
  <2>1. first \in FileSlots /\ second \in FileSlots
    <3>1. IsFiniteSet(FileSlots) /\ FreeFiles \in SUBSET FileSlots
      BY FS_Interval, FilesAssumption DEF FileSlots, FreeFiles
    <3>2. Cardinality(FreeFiles) \in Nat
      BY <3>1, FS_Subset, FS_CardinalityType
    <3>3. Cardinality(FreeFiles) >= 2
      BY <1>4, <3>2
    <3> QED BY <1>1, <3>1, <3>3, TwoFree
  <2>2. new \in [FileSlots -> FileType]
    BY <1>1, NewFilesType
  <2>3. \A f \in FileSlots : Inherited(p, f) \in Nat
    BY FdsFinite DEF Inherited
  <2> HIDE DEF first, second, new
  <2>4. \A f \in FileSlots : [new[f] EXCEPT !.refcnt = @ + Inherited(p, f)] \in FileType
    BY <2>2, <2>3 DEF FileType
  <2>5. file' \in [FileSlots -> FileType]
    BY <1>4, <2>4
  <2>6. DOMAIN ofile' = DOMAIN ofile \union {child} /\ DOMAIN cwd' = DOMAIN ofile'
    BY <1>1, <1>4 DEF Tables
  <2>7. \A d \in Fds : own(d) \in FileSlots \union {Null}
    BY <2>1
  <2> HIDE DEF own
  <2>8. [d \in Fds |-> IF ofile[p][d] # Null THEN ofile[p][d] ELSE own(d)]
          \in [Fds -> FileSlots \union {Null}]
    BY <1>1, <2>7 DEF Tables
  <2>9. \A q \in DOMAIN ofile' :
          ofile'[q] \in [Fds -> FileSlots \union {Null}] /\ cwd'[q] \in Slots
    BY <1>1, <1>4, <2>8 DEF Tables
  <2>10. itab' \in Itab
    BY <1>1, <1>4 DEF Tables, Itab
  <2>11. IsFiniteSet(DOMAIN ofile')
    BY <1>1, <2>6, FS_AddElement DEF Tables
  <2>12. Tables'
    BY <1>1, <1>4, <2>5, <2>6, <2>9, <2>10, <2>11 DEF Tables, FileType
  <2> QED BY <1>1, <1>4, <2>12, ShapeNext DEF DiskShape
<1> QED BY <1>2, <1>3, <1>4

LEMMA ForkFailsShape ==
  ASSUME Shape, NEW p \in Procs, ForkFails(p)
  PROVE  Shape'
<1>1. Tables /\ DiskShape /\ odd' \in Nat
  BY ShapeParts DEF ForkFails
<1>2. file' \in [FileSlots -> FileType]
  BY <1>1, NewFilesType DEF ForkFails
<1>3. Tables' /\ DiskShape'
  BY <1>1, <1>2 DEF Tables, DiskShape, ForkFails, FileType
<1> QED BY <1>1, <1>3, ShapeNext

LEMMA ExitShape ==
  ASSUME Shape, NEW p \in Procs, Exit(p)
  PROVE  Shape'
<1>1. Tables /\ DiskShape /\ odd' \in Nat
  BY ShapeParts DEF Exit
<1>2. IsFiniteSet(DOMAIN ofile')
  BY <1>1, FS_RemoveElement DEF Exit, Tables
<1>3. Tables' /\ DiskShape'
  BY <1>1, <1>2 DEF Tables, DiskShape, Exit
<1> QED BY <1>1, <1>3, ShapeNext

LEMMA NextShape == Shape /\ [Next]_vars => Shape'
<1> SUFFICES ASSUME Shape, [Next]_vars PROVE Shape' OBVIOUS
<1>1. CASE UNCHANGED vars
  BY <1>1 DEF vars, Shape, TypeOK
<1>2. CASE Next
  BY <1>2, OpenShape, ChdirShape, CreateShape, CloseShape, DupShape, LookShape, ForkShape,
     ForkFailsShape, ExitShape DEF Next
<1> QED BY <1>1, <1>2

(* Every table, the disk and the outcome of every call keep their types,   *)
(* over all system calls of plix/sysfile.d, fork and exit.                 *)
THEOREM TypeCorrect == Spec => []TypeOK
<1>1. Init => Shape
  BY InitShape
<1>2. Shape /\ [Next]_vars => Shape'
  BY NextShape
<1>3. Shape => TypeOK
  BY DEF Shape
<1> QED BY <1>1, <1>2, <1>3, PTL DEF Spec

-----------------------------------------------------------------------------
(* Reference counts, while no call has miscounted.                         *)

(* What refers to slot s of the inode table: open Files and directories.   *)
Opens(s) == {f \in Opened : file[f].ip = s}
Dirs(s) == {p \in DOMAIN cwd : cwd[p] = s}
Held == [s \in Slots |-> Cardinality(Opens(s)) + Cardinality(Dirs(s))]

FileCounts ==
  \A f \in FileSlots : /\ file[f].refcnt >= Cardinality(Descriptors(f))
                       /\ Descriptors(f) # {} => file[f].type # "NONE"
OpenedHaveInode == \A f \in Opened : file[f].ip \in Slots
ConsoleOpen ==
  \A p \in DOMAIN ofile : \A d \in {0, 1} :
    ofile[p][d] \in FileSlots /\ file[ofile[p][d]].type = "DEVICE"
InodeCounts == OneCopy(itab) /\ \A s \in Slots : itab.ref[s] >= Held[s]

Counts ==
  /\ FileCounts
  /\ OpenedHaveInode
  /\ ConsoleOpen
  /\ InodeCounts
  /\ panic \in {"none", "files", "inodes"}

(* The inductive invariant.                                                *)
IInv == Shape /\ (odd = 0 => Counts)

(* Sets of Files, processes and descriptors are finite.                    *)
LEMMA FilesFinite ==
  ASSUME NEW S \in SUBSET FileSlots
  PROVE  IsFiniteSet(S) /\ Cardinality(S) \in Nat
<1>1. IsFiniteSet(FileSlots)
  BY FS_Interval, FilesAssumption DEF FileSlots
<1> QED BY <1>1, FS_Subset, FS_CardinalityType

LEMMA SubFinite ==
  ASSUME NEW P, IsFiniteSet(P), NEW S \in SUBSET P
  PROVE  IsFiniteSet(S) /\ Cardinality(S) \in Nat
BY FS_Subset, FS_CardinalityType

LEMMA PairsFinite ==
  ASSUME NEW P, IsFiniteSet(P), NEW S \in SUBSET (P \X Fds)
  PROVE  IsFiniteSet(S) /\ Cardinality(S) \in Nat
<1>1. IsFiniteSet(P \X Fds)
  BY FS_Product, FdsFinite
<1> QED BY <1>1, SubFinite

(* Counting with one element more or less.                                 *)
LEMMA CountMore ==
  ASSUME NEW A, IsFiniteSet(A), NEW x, NEW B \in SUBSET (A \union {x})
  PROVE  /\ Cardinality(A) \in Nat /\ Cardinality(B) \in Nat
         /\ Cardinality(B) <= Cardinality(A) + 1
<1>a. Cardinality(A) \in Nat
  BY FS_CardinalityType
<1>b. /\ IsFiniteSet(A \union {x})
      /\ Cardinality(A \union {x}) = IF x \in A THEN Cardinality(A) ELSE Cardinality(A) + 1
  BY FS_AddElement
<1>1. IsFiniteSet(A \union {x}) /\ Cardinality(A) \in Nat
      /\ Cardinality(A \union {x}) <= Cardinality(A) + 1
  BY <1>a, <1>b
<1>2. Cardinality(B) <= Cardinality(A \union {x}) /\ IsFiniteSet(B)
  BY <1>1, FS_Subset
<1> QED BY <1>1, <1>2, FS_CardinalityType

LEMMA CountLess ==
  ASSUME NEW A, IsFiniteSet(A), NEW x \in A, NEW B \in SUBSET (A \ {x})
  PROVE  /\ Cardinality(A) \in Nat /\ Cardinality(B) \in Nat
         /\ Cardinality(B) <= Cardinality(A) - 1
<1>1. IsFiniteSet(A \ {x}) /\ Cardinality(A) \in Nat
      /\ Cardinality(A \ {x}) = Cardinality(A) - 1
  BY FS_RemoveElement, FS_CardinalityType
<1>2. Cardinality(B) <= Cardinality(A \ {x}) /\ IsFiniteSet(B)
  BY <1>1, FS_Subset
<1> QED BY <1>1, <1>2, FS_CardinalityType

LEMMA CountSub ==
  ASSUME NEW A, IsFiniteSet(A), NEW B \in SUBSET A
  PROVE  /\ Cardinality(A) \in Nat /\ Cardinality(B) \in Nat
         /\ Cardinality(B) <= Cardinality(A)
BY FS_Subset, FS_CardinalityType

LEMMA PartsFinite ==
  ASSUME Tables
  PROVE  /\ \A s : /\ IsFiniteSet(Opens(s)) /\ Cardinality(Opens(s)) \in Nat
                   /\ IsFiniteSet(Dirs(s)) /\ Cardinality(Dirs(s)) \in Nat
         /\ \A f : IsFiniteSet(Descriptors(f)) /\ Cardinality(Descriptors(f)) \in Nat
         /\ Held \in [Slots -> Nat]
<1>1. \A s : Opens(s) \in SUBSET FileSlots /\ Dirs(s) \in SUBSET DOMAIN ofile
  BY DEF Opens, Opened, Dirs, Tables
<1>2. \A f : Descriptors(f) \in SUBSET ((DOMAIN ofile) \X Fds)
  BY DEF Descriptors
<1>3. IsFiniteSet(DOMAIN ofile)
  BY DEF Tables
<1>4. \A s : /\ IsFiniteSet(Opens(s)) /\ Cardinality(Opens(s)) \in Nat
             /\ IsFiniteSet(Dirs(s)) /\ Cardinality(Dirs(s)) \in Nat
  BY <1>1, <1>3, FilesFinite, SubFinite
<1>5. \A f : IsFiniteSet(Descriptors(f)) /\ Cardinality(Descriptors(f)) \in Nat
  BY <1>2, <1>3, PairsFinite
<1> QED BY <1>4, <1>5 DEF Held

(* Lookups of absolute paths count what they refer to.                     *)
LEMMA FromCovers ==
  ASSUME Tables, Counts, NEW p \in DOMAIN ofile, NEW path, path.abs
  PROVE  Covers(From(p, path), Held) /\ (Leads(disk) => Lands(From(p, path)))
<1> DEFINE w == [t |-> itab, ip |-> cwd[p], panic |-> "none"]
<1>1. w \in Walks /\ w.panic = "none" /\ w.t = itab
  BY DEF Tables, Walks
<1>2. Held \in [Slots -> Nat] /\ Root \in Inums
  BY PartsFinite, FilesAssumption
<1>3. OneCopy(w.t) /\ \A s \in Slots : w.t.ref[s] >= Held[s]
  BY <1>1 DEF Counts, InodeCounts
<1>4. From(p, path) = Iget(w, Root)
  BY DEF From
<1> HIDE DEF w
<1>5. Leads(disk) => Lands(From(p, path))
  BY <1>1, <1>2, <1>4, IgetReaches DEF Lands, Leads, Going, TypeOf
<1> QED BY <1>1, <1>2, <1>3, <1>4, <1>5, IgetCovers

LEMMA NameiCovers ==
  ASSUME Shape, Counts, NEW p \in DOMAIN ofile, NEW path \in Paths, path.abs
  PROVE  /\ Namei(p, path) \in Walks /\ Covers(Namei(p, path), Held)
         /\ Lock(Namei(p, path)) = Namei(p, path)
<1>1. Tables /\ disk \in Disks /\ Leads(disk) /\ TypeOK
  BY ShapeParts DEF DiskShape, Shape
<1>2. Len(path.elems) \in Nat /\ Held \in [Slots -> Nat]
  BY <1>1, FilesAssumption, SeqFacts, PartsFinite
<1>3. Covers(Namei(p, path), Held) /\ Lands(Namei(p, path))
  BY <1>1, <1>2, FromType, FromCovers, WalkType DEF Namei
<1> QED BY <1>1, <1>2, <1>3, NameiType, LockCovers

LEMMA NameiParentCovers ==
  ASSUME Shape, Counts, NEW p \in DOMAIN ofile, NEW path \in Paths, path.abs
  PROVE  /\ NameiParent(p, path) \in Walks /\ Covers(NameiParent(p, path), Held)
         /\ Going(NameiParent(p, path)) => NameiParent(p, path).ip \in Slots
<1>1. Tables /\ disk \in Disks /\ Leads(disk) /\ TypeOK
  BY ShapeParts DEF DiskShape, Shape
<1>2. path.elems \in Seq(Names) /\ Held \in [Slots -> Nat]
  BY <1>1, FilesAssumption, PartsFinite
<1>3. NameiParent(p, path) \in Walks
  BY <1>1, NameiParentType
<1>4. CASE path.elems = <<>>
  <2>1. NameiParent(p, path) = Fail(From(p, path))
    BY <1>4 DEF NameiParent
  <2>2. Covers(NameiParent(p, path), Held)
    BY <1>1, <1>2, <2>1, FromType, FromCovers, FailCovers
  <2> QED BY <1>3, <2>2 DEF Going, Walks
<1>5. CASE path.elems # <<>>
  <2> DEFINE w == Walk(From(p, path), path.elems, Len(path.elems) - 1)
  <2>1. Len(path.elems) - 1 \in Nat
    BY <1>2, <1>5
  <2>2. w \in Walks /\ Covers(w, Held) /\ Lands(w)
    BY <1>1, <1>2, <2>1, FromType, FromCovers, WalkType
  <2> HIDE DEF w
  <2>3. Lock(w) = w
    BY <1>2, <2>2, LockCovers
  <2>4. NameiParent(p, path) = IF Going(w) /\ TypeOf(w) # "dir" THEN Fail(w) ELSE w
    BY <1>5, <2>3 DEF NameiParent, w
  <2>5. Going(w) => w.ip \in Slots
    BY <2>2 DEF Going, Walks
  <2>6. Covers(NameiParent(p, path), Held)
    BY <1>2, <2>2, <2>4, <2>5, FailCovers
  <2> QED BY <1>3, <2>6 DEF Going, Walks
<1> QED BY <1>4, <1>5

(* The ends of a call that opens nothing.                                  *)
LEMMA SameHeld ==
  ASSUME UNCHANGED <<file, ofile, cwd>>
  PROVE  /\ Held' = Held /\ Opened' = Opened
         /\ \A f \in FileSlots : Descriptors(f)' = Descriptors(f)
<1>1. \A f : Descriptors(f)' = Descriptors(f)
  BY DEF Descriptors
<1>2. Opened' = Opened
  BY <1>1 DEF Opened
<1>3. \A s : Opens(s)' = Opens(s) /\ Dirs(s)' = Dirs(s)
  BY <1>2 DEF Opens, Dirs
<1> QED BY <1>1, <1>2, <1>3 DEF Held

LEMMA SameCounts ==
  ASSUME Counts, UNCHANGED <<file, ofile, cwd>>, OneCopy(itab'),
         \A s \in Slots : itab'.ref[s] >= Held[s], panic' \in {"none", "files", "inodes"}
  PROVE  Counts'
<1>1. FileCounts' /\ OpenedHaveInode' /\ ConsoleOpen'
  BY SameHeld DEF Counts, FileCounts, OpenedHaveInode, ConsoleOpen
<1>2. InodeCounts'
  BY SameHeld DEF InodeCounts, OneCopy
<1> QED BY <1>1, <1>2 DEF Counts

LEMMA ReturnCounts ==
  ASSUME Tables, Counts, NEW w \in Walks, Covers(w, Held), w.panic = "none", Return(w)
  PROVE  Counts'
<1>1. \A s \in Slots : w.t.ref[s] \in Int /\ Held[s] \in Nat
  BY PartsFinite DEF Walks, Itab
<1>2. OneCopy(itab') /\ \A s \in Slots : itab'.ref[s] >= Held[s]
  BY <1>1 DEF Covers, Return
<1> QED BY <1>2, SameCounts DEF Return, Counts

LEMMA FailCounts ==
  ASSUME Tables, Counts, NEW w \in Walks, Covers(w, Held), Going(w), Return(Fail(w))
  PROVE  Counts'
<1>1. w.ip \in Slots /\ w.panic = "none"
  BY DEF Going, Walks
<1> QED BY <1>1, FailIs, FailCovers, PartsFinite, ReturnCounts

LEMMA PanicCounts ==
  ASSUME Counts, NEW why \in {"files", "inodes"}, Panic(why)
  PROVE  Counts'
BY SameCounts DEF Panic, Counts, InodeCounts

LEMMA NotFoundCounts ==
  ASSUME Tables, Counts, NEW w \in Walks, Covers(w, Held), NotFound(w)
  PROVE  Counts'
<1>1. CASE w.panic # "none" /\ Panic(w.panic)
  BY <1>1, PanicCounts DEF Covers
<1>2. CASE w.panic = "none" /\ w.ip = Null /\ Return(w) /\ UNCHANGED disk
  BY <1>2, ReturnCounts
<1> QED BY <1>1, <1>2 DEF NotFound

(* A File that nothing refers to is not open.                              *)
LEMMA NoDescriptors ==
  ASSUME Tables, Counts, NEW f \in FreeFiles
  PROVE  /\ f \in FileSlots /\ Descriptors(f) = {}
         /\ \A q \in DOMAIN ofile : \A e \in Fds : ofile[q][e] # f
<1>1. f \in FileSlots /\ file[f].refcnt = 0
  BY DEF FreeFiles
<1>2. Cardinality(Descriptors(f)) \in Nat /\ IsFiniteSet(Descriptors(f))
  BY PartsFinite
<1>3. 0 >= Cardinality(Descriptors(f))
  BY <1>1 DEF Counts, FileCounts
<1>4. Descriptors(f) = {}
  BY <1>2, <1>3, FS_EmptySet
<1>5. ASSUME NEW q \in DOMAIN ofile, NEW e \in Fds, ofile[q][e] = f PROVE FALSE
  <2>1. <<q, e>> \in Descriptors(f)
    BY <1>5 DEF Descriptors
  <2> QED BY <1>4, <2>1
<1> QED BY <1>1, <1>4, <1>5

(* A File behind a descriptor is counted, and one behind descriptor 2 or   *)
(* higher has an inode that is counted.                                    *)
LEMMA BehindDescriptor ==
  ASSUME Tables, Counts, NEW q \in DOMAIN ofile, NEW e \in Fds, ofile[q][e] # Null
  PROVE  /\ ofile[q][e] \in FileSlots
         /\ <<q, e>> \in Descriptors(ofile[q][e])
         /\ file[ofile[q][e]].refcnt >= 1 /\ file[ofile[q][e]].type # "NONE"
         /\ e >= 2 => /\ ofile[q][e] \in Opened
                      /\ file[ofile[q][e]].ip \in Slots
                      /\ itab.ref[file[ofile[q][e]].ip] >= 1
<1> DEFINE f == ofile[q][e]
<1>1. f \in FileSlots
  BY DEF Tables
<1>2. <<q, e>> \in Descriptors(f)
  BY DEF Descriptors
<1>3. Cardinality(Descriptors(f)) \in Nat /\ IsFiniteSet(Descriptors(f)) /\ Held \in [Slots -> Nat]
  BY PartsFinite
<1>4. Cardinality(Descriptors(f)) # 0
  BY <1>2, <1>3, FS_EmptySet
<1> HIDE DEF f
<1>5. file[f].refcnt \in Nat /\ file[f].refcnt >= Cardinality(Descriptors(f))
  BY <1>1 DEF Tables, Counts, FileCounts
<1>6. file[f].refcnt >= 1 /\ file[f].type # "NONE"
  BY <1>1, <1>2, <1>3, <1>4, <1>5 DEF Counts, FileCounts
<1>7. ASSUME e >= 2
      PROVE  f \in Opened /\ file[f].ip \in Slots /\ itab.ref[file[f].ip] >= 1
  <2>1. f \in Opened
    BY <1>1, <1>2, <1>7 DEF Opened
  <2> DEFINE s == file[f].ip
  <2>2. s \in Slots
    BY <2>1 DEF Counts, OpenedHaveInode
  <2>3. f \in Opens(s)
    BY <2>1 DEF Opens
  <2>4. IsFiniteSet(Opens(s)) /\ Cardinality(Opens(s)) \in Nat /\ Cardinality(Dirs(s)) \in Nat
    BY PartsFinite
  <2>5. Cardinality(Opens(s)) # 0
    BY <2>3, <2>4, FS_EmptySet
  <2>6. Held[s] = Cardinality(Opens(s)) + Cardinality(Dirs(s))
    BY <2>2 DEF Held
  <2>7. itab.ref[s] \in Int /\ itab.ref[s] >= Held[s]
    BY <2>2 DEF Counts, InodeCounts, Tables, Itab
  <2> HIDE DEF s
  <2>8. itab.ref[s] >= 1
    BY <2>4, <2>5, <2>6, <2>7
  <2> QED BY <2>1, <2>2, <2>8 DEF s
<1> QED BY <1>1, <1>2, <1>6, <1>7 DEF f

(* open: the File takes over the reference that the lookup has.            *)
LEMMA OpenFileCounts ==
  ASSUME Tables, Counts, NEW p \in DOMAIN ofile, NEW w \in Walks, Going(w), Covers(w, Held),
         NEW type, OpenFile(p, w, type)
  PROVE  Counts'
<1>1. CASE Return(Fail(w))
  BY <1>1, FailCounts
<1>2. CASE ~ (FreeFiles = {} \/ FreeFds(p) = {})
  <2> DEFINE new == [refcnt |-> 1, ip |-> w.ip,
                     type |-> IF type = "device" THEN "DEVICE" ELSE "INODE"]
  <2>f. PICK f \in FreeFiles : f = Min(FreeFiles)
    BY <1>2, FreeSlots
  <2>d. PICK d \in FreeFds(p) : d = Min(FreeFds(p))
    BY <1>2, FreeSlots
  <2>1. f \in FreeFiles /\ f \in FileSlots /\ d \in Fds /\ ofile[p][d] = Null
    BY DEF FreeFiles, FreeFds
  <2>2. /\ file' = [file EXCEPT ![f] = new]
        /\ ofile' = [ofile EXCEPT ![p][d] = f]
        /\ itab' = w.t /\ UNCHANGED <<cwd, panic>>
    BY <1>2, <2>f, <2>d DEF OpenFile
  <2>3. w.ip \in Slots /\ w.panic = "none" /\ new.refcnt = 1 /\ new.ip = w.ip /\ new.type # "NONE"
    BY DEF Going, Walks
  <2> HIDE DEF new
  <2>4. Descriptors(f) = {} /\ \A q \in DOMAIN ofile : \A e \in Fds : ofile[q][e] # f
    BY <2>1, NoDescriptors
  <2>5. /\ DOMAIN ofile' = DOMAIN ofile
        /\ \A q \in DOMAIN ofile : \A e \in Fds :
             ofile'[q][e] = IF q = p /\ e = d THEN f ELSE ofile[q][e]
    BY <2>1, <2>2 DEF Tables
  <2>6. \A g \in FileSlots : file'[g] = IF g = f THEN new ELSE file[g]
    BY <2>1, <2>2 DEF Tables
  <2>7. \A g \in FileSlots : g # f => Descriptors(g)' = Descriptors(g)
    BY <2>1, <2>5, SlotFacts, FilesAssumption DEF Descriptors
  <2>8. Descriptors(f)' \in SUBSET {<<p, d>>}
    BY <2>4, <2>5 DEF Descriptors
  <2>9. FileCounts'
    <3>1. Cardinality(Descriptors(f)') <= 1
      <4>1. IsFiniteSet({}) /\ Cardinality({}) = 0
        BY FS_EmptySet
      <4>2. Descriptors(f)' \in SUBSET ({} \union {<<p, d>>})
        BY <2>8
      <4> QED BY <4>1, <4>2, CountMore
    <3>2. \A g \in FileSlots : g # f =>
            /\ file'[g].refcnt >= Cardinality(Descriptors(g)')
            /\ Descriptors(g)' # {} => file'[g].type # "NONE"
      BY <2>6, <2>7 DEF Counts, FileCounts
    <3>3. Cardinality(Descriptors(f)') \in Nat
      BY <2>8, FS_Singleton, FS_Subset, FS_CardinalityType
    <3> QED BY <2>1, <2>3, <2>6, <3>1, <3>2, <3>3 DEF FileCounts
  <2>10. f \notin Opened /\ Opened' \in SUBSET (Opened \union {f})
    BY <2>4, <2>7 DEF Opened
  <2>11. OpenedHaveInode'
    BY <2>1, <2>3, <2>6, <2>10 DEF Counts, OpenedHaveInode, Opened
  <2>12. ConsoleOpen'
    <3>1. ASSUME NEW q \in DOMAIN ofile, NEW e \in {0, 1}
          PROVE  ofile'[q][e] \in FileSlots /\ file'[ofile'[q][e]].type = "DEVICE"
      <4>1. ofile[q][e] \in FileSlots /\ file[ofile[q][e]].type = "DEVICE"
        BY DEF Counts, ConsoleOpen
      <4>2. e \in Fds
        BY FilesAssumption DEF Fds
      <4>3. ofile'[q][e] = ofile[q][e] /\ ofile[q][e] # f
        BY <2>1, <2>4, <2>5, <4>1, <4>2, FilesAssumption
      <4> QED BY <2>6, <4>1, <4>3
    <3> QED BY <2>5, <3>1 DEF ConsoleOpen
  <2>13. \A s : Dirs(s)' = Dirs(s)
    BY <2>2 DEF Dirs
  <2>14. \A s : Opens(s)' \in SUBSET (Opens(s) \union {f}) /\ (s # w.ip => Opens(s)' \in SUBSET Opens(s))
    BY <2>1, <2>3, <2>6, <2>10 DEF Opens, Opened
  <2>15. ASSUME NEW s \in Slots PROVE itab'.ref[s] >= Held'[s]
    <3>1. /\ IsFiniteSet(Opens(s)) /\ Cardinality(Opens(s)) \in Nat
          /\ Cardinality(Dirs(s)) \in Nat /\ w.t.ref[s] \in Int
      BY PartsFinite DEF Walks, Itab
    <3>2. /\ Cardinality(Opens(s)') \in Nat
          /\ Cardinality(Opens(s)') <= Cardinality(Opens(s)) + (IF w.ip = s THEN 1 ELSE 0)
      <4>1. CASE w.ip = s
        BY <2>14, <3>1, <4>1, CountMore
      <4>2. CASE w.ip # s
        BY <2>14, <3>1, <4>2, CountSub
      <4> QED BY <4>1, <4>2
    <3>3. w.t.ref[s] >= Cardinality(Opens(s)) + Cardinality(Dirs(s)) + (IF w.ip = s THEN 1 ELSE 0)
      <4>1. w.t.ref[s] >= Held[s] + (IF w.ip = s THEN 1 ELSE 0)
        BY <2>3 DEF Covers
      <4> QED BY <4>1 DEF Held
    <3>4. Held'[s] = Cardinality(Opens(s)') + Cardinality(Dirs(s))
      BY <2>13 DEF Held
    <3> QED BY <2>2, <3>1, <3>2, <3>3, <3>4
  <2>16. InodeCounts'
    <3>1. OneCopy(itab')
      BY <2>2, <2>3 DEF Covers
    <3> QED BY <3>1, <2>15 DEF InodeCounts, OneCopy
  <2> QED BY <2>2, <2>9, <2>11, <2>12, <2>16 DEF Counts
<1> QED BY <1>1, <1>2 DEF OpenFile

(* Only a call with a relative path, or on a console descriptor, is odd.   *)
LEMMA NotOdd ==
  ASSUME odd = 0, NEW b \in BOOLEAN, odd' = odd + Count(b), odd' = 0
  PROVE  ~ b
BY DEF Count

LEMMA OpenCounts ==
  ASSUME Shape, Counts, odd = 0, odd' = 0,
         NEW p \in Procs, NEW path \in Paths, NEW rdonly, Open(p, path, rdonly)
  PROVE  Counts'
<1> DEFINE w == Namei(p, path)
<1>1. p \in DOMAIN ofile /\ Tables
  BY ShapeParts DEF Open, Runs
<1>2. path.abs
  <2>1. (~ path.abs) \in BOOLEAN
    OBVIOUS
  <2> QED BY <2>1, NotOdd DEF Open
<1>3. w \in Walks /\ Covers(w, Held) /\ Lock(w) = w
  BY <1>1, <1>2, NameiCovers
<1>4. \/ NotFound(w)
      \/ Going(w) /\ Return(Fail(w))
      \/ Going(w) /\ OpenFile(p, w, TypeOf(w))
  BY <1>3 DEF Open
<1> HIDE DEF w
<1> QED BY <1>1, <1>3, <1>4, NotFoundCounts, FailCounts, OpenFileCounts

(* create: the directory is put only after the inode is referred to.       *)
LEMMA CreateCounts ==
  ASSUME Shape, Counts, odd = 0, odd' = 0,
         NEW p \in Procs, NEW path \in Paths, Create(p, path)
  PROVE  Counts'
<1> DEFINE dir == NameiParent(p, path)
           n == Lookup(dir, Last(path.elems))
           freeInums == {i \in Inums : disk.type[i] = "free"}
           m == Min(freeInums)
<1>1. p \in DOMAIN ofile /\ Tables /\ DiskShape /\ Held \in [Slots -> Nat]
  BY ShapeParts, PartsFinite DEF Create, Runs
<1>2. path.abs
  <2>1. (~ path.abs) \in BOOLEAN
    OBVIOUS
  <2> QED BY <2>1, NotOdd DEF Create
<1>3. dir \in Walks /\ Covers(dir, Held) /\ (Going(dir) => dir.ip \in Slots)
  BY <1>1, <1>2, NameiParentCovers
<1>4. Going(dir) => n \in Inums \union {0}
  BY <1>1, <1>3, LookupType DEF Going, DiskShape
<1>5. freeInums # {} => m \in Inums
  BY MinIsLeast, FilesAssumption
<1>e. Going(dir) /\ n # 0 => disk.type[n] # "free"
  <2>1. Going(dir) => TypeOf(dir) = "dir"
    BY <1>1, NameiParentType DEF Shape
  <2> HIDE DEF dir
  <2> QED BY <1>1, <1>3, <2>1, LookupLeads DEF Going, DiskShape
<1>6. \/ NotFound(dir)
      \/ Going(dir) /\ n # 0 /\ CreateExisting(p, Lock(GoOn(dir, n)))
      \/ Going(dir) /\ Return(Fail(dir)) /\ UNCHANGED disk
      \/ Going(dir) /\ freeInums # {} /\ CreateNew(p, dir, m)
      \/ Going(dir) /\ freeInums # {} /\ CreateFails(dir, m)
  BY DEF Create
<1> HIDE DEF dir, n, freeInums, m
<1>7. ASSUME NEW i \in Inums, Going(dir)
      PROVE  /\ GoOn(dir, i) \in Walks /\ Covers(GoOn(dir, i), Held)
             /\ disk.type[i] # "free" => Lock(GoOn(dir, i)) = GoOn(dir, i)
  BY <1>1, <1>3, <1>7, GoOnType, GoOnCovers, GoOnLands, LockCovers
<1>8. ASSUME NEW i \in Inums, Going(dir),
             \/ NotFound(GoOn(dir, i))
             \/ Going(GoOn(dir, i)) /\ Return(Fail(GoOn(dir, i)))
             \/ Going(GoOn(dir, i)) /\ \E type : OpenFile(p, GoOn(dir, i), type)
      PROVE  Counts'
  <2> DEFINE w == GoOn(dir, i)
  <2>1. w \in Walks /\ Covers(w, Held)
    BY <1>7, <1>8
  <2>2. \/ NotFound(w)
        \/ Going(w) /\ Return(Fail(w))
        \/ Going(w) /\ \E type : OpenFile(p, w, type)
    BY <1>8
  <2> HIDE DEF w
  <2> QED BY <1>1, <2>1, <2>2, NotFoundCounts, FailCounts, OpenFileCounts
<1>9. CASE NotFound(dir) \/ (Going(dir) /\ Return(Fail(dir)) /\ UNCHANGED disk)
  BY <1>1, <1>3, <1>9, NotFoundCounts, FailCounts
<1>10. CASE Going(dir) /\ n # 0 /\ CreateExisting(p, Lock(GoOn(dir, n)))
  <2>1. n \in Inums /\ CreateExisting(p, GoOn(dir, n))
    <3>1. n \in Inums /\ disk.type[n] # "free"
      BY <1>4, <1>10, <1>e
    <3> QED BY <1>7, <1>10, <3>1
  <2>2. \/ NotFound(GoOn(dir, n))
        \/ Going(GoOn(dir, n)) /\ Return(Fail(GoOn(dir, n)))
        \/ Going(GoOn(dir, n)) /\ \E type : OpenFile(p, GoOn(dir, n), type)
    BY <2>1 DEF CreateExisting
  <2> QED BY <1>8, <1>10, <2>1, <2>2
<1>11. CASE Going(dir) /\ freeInums # {} /\ CreateNew(p, dir, m)
  <2>1. \/ NotFound(GoOn(dir, m))
        \/ Going(GoOn(dir, m)) /\ \E type : OpenFile(p, GoOn(dir, m), type)
    BY <1>11 DEF CreateNew
  <2> QED BY <1>5, <1>8, <1>11, <2>1
<1>12. CASE Going(dir) /\ freeInums # {} /\ CreateFails(dir, m)
  <2>1. Going(GoOn(dir, m)) /\ Return(Fail(GoOn(dir, m)))
    BY <1>12 DEF CreateFails
  <2> QED BY <1>5, <1>8, <1>12, <2>1
<1> QED BY <1>6, <1>9, <1>10, <1>11, <1>12

(* chdir: one process moves from one slot to another.                      *)
LEMMA ChdirCounts ==
  ASSUME Shape, Counts, odd = 0, odd' = 0,
         NEW p \in Procs, NEW path \in Paths, Chdir(p, path)
  PROVE  Counts'
<1>1. p \in DOMAIN ofile /\ Tables /\ Held \in [Slots -> Nat]
  BY ShapeParts, PartsFinite DEF Chdir, Runs
<1>2. path.abs
  <2>1. (~ path.abs) \in BOOLEAN
    OBVIOUS
  <2> QED BY <2>1, NotOdd DEF Chdir
<1>3. PICK w \in Walks : w = Namei(p, path)
  BY <1>1, <1>2, NameiCovers
<1>4. Covers(w, Held) /\ Lock(Namei(p, path)) = w
  BY <1>1, <1>2, <1>3, NameiCovers
<1>5. \/ NotFound(w)
      \/ Going(w) /\ Return(Fail(w))
      \/ /\ Going(w) /\ itab' = Put(w.t, cwd[p])
         /\ cwd' = [cwd EXCEPT ![p] = w.ip]
         /\ UNCHANGED <<file, ofile, disk, panic>>
  BY <1>4 DEF Chdir
<1>6. CASE /\ Going(w) /\ itab' = Put(w.t, cwd[p])
           /\ cwd' = [cwd EXCEPT ![p] = w.ip]
           /\ UNCHANGED <<file, ofile, disk, panic>>
  <2>1. w.ip \in Slots /\ w.t \in Itab /\ w.panic = "none"
    BY <1>6 DEF Going, Walks
  <2>2. PICK old \in Slots : old = cwd[p]
    BY <1>1 DEF Tables
  <2>3. /\ \A s \in Slots : itab'.ref[s] = w.t.ref[s] - (IF s = old THEN 1 ELSE 0)
        /\ OneCopy(Put(w.t, old))
    BY <1>4, <1>6, <2>1, <2>2, PutOf, PutOneCopy DEF Covers
  <2>4. /\ DOMAIN cwd' = DOMAIN cwd /\ p \in DOMAIN cwd
        /\ \A q \in DOMAIN cwd : cwd'[q] = IF q = p THEN w.ip ELSE cwd[q]
    BY <1>1, <1>6 DEF Tables
  <2>5. \A g : Descriptors(g)' = Descriptors(g)
    BY <1>6 DEF Descriptors
  <2>6. Opened' = Opened
    BY <2>5 DEF Opened
  <2>7. \A s : Opens(s)' = Opens(s)
    BY <1>6, <2>6 DEF Opens
  <2>8. FileCounts' /\ OpenedHaveInode' /\ ConsoleOpen'
    BY <1>6, <2>5, <2>6 DEF Counts, FileCounts, OpenedHaveInode, ConsoleOpen
  <2>9. ASSUME NEW s \in Slots PROVE itab'.ref[s] >= Held'[s]
    <3>1. /\ IsFiniteSet(Dirs(s)) /\ Cardinality(Opens(s)) \in Nat
          /\ Cardinality(Dirs(s)) \in Nat /\ w.t.ref[s] \in Int
      BY <1>1, <2>1, PartsFinite DEF Itab
    <3>2. /\ Cardinality(Dirs(s)') \in Nat
          /\ Cardinality(Dirs(s)') <= Cardinality(Dirs(s)) + (IF w.ip = s THEN 1 ELSE 0)
                                      - (IF s = old THEN 1 ELSE 0)
      <4>1. CASE w.ip = s /\ s # old
        <5>1. Dirs(s)' \in SUBSET (Dirs(s) \union {p})
          BY <2>4 DEF Dirs
        <5> QED BY <3>1, <4>1, <5>1, CountMore
      <4>2. CASE w.ip = s /\ s = old
        <5>1. Dirs(s)' \in SUBSET Dirs(s)
          BY <2>2, <2>4, <4>2 DEF Dirs
        <5> QED BY <3>1, <4>2, <5>1, CountSub
      <4>3. CASE w.ip # s /\ s # old
        <5>1. Dirs(s)' \in SUBSET Dirs(s)
          BY <2>4, <4>3 DEF Dirs
        <5> QED BY <3>1, <4>3, <5>1, CountSub
      <4>4. CASE w.ip # s /\ s = old
        <5>1. p \in Dirs(s) /\ Dirs(s)' \in SUBSET (Dirs(s) \ {p})
          BY <2>2, <2>4, <4>4 DEF Dirs
        <5> QED BY <3>1, <4>4, <5>1, CountLess
      <4> QED BY <4>1, <4>2, <4>3, <4>4
    <3>3. w.t.ref[s] >= Cardinality(Opens(s)) + Cardinality(Dirs(s)) + (IF w.ip = s THEN 1 ELSE 0)
      <4>1. w.t.ref[s] >= Held[s] + (IF w.ip = s THEN 1 ELSE 0)
        BY <1>4, <2>1 DEF Covers
      <4> QED BY <4>1 DEF Held
    <3>4. Held'[s] = Cardinality(Opens(s)) + Cardinality(Dirs(s)')
      BY <2>7 DEF Held
    <3>5. itab'.ref[s] = w.t.ref[s] - (IF s = old THEN 1 ELSE 0)
      BY <2>3
    <3> QED BY <3>1, <3>2, <3>3, <3>4, <3>5
  <2>10. InodeCounts'
    <3>1. OneCopy(itab')
      BY <1>6, <2>2, <2>3
    <3> QED BY <3>1, <2>9 DEF InodeCounts, OneCopy
  <2> QED BY <1>6, <2>8, <2>10 DEF Counts
<1> QED BY <1>1, <1>4, <1>5, <1>6, NotFoundCounts, FailCounts

(* close: only the last descriptor of a File takes its inode with it.      *)
LEMMA CloseCounts ==
  ASSUME Tables, Counts, odd = 0, odd' = 0, NEW p \in Procs, NEW d \in Fds, Close(p, d)
  PROVE  Counts'
<1>1. p \in DOMAIN ofile /\ ofile[p][d] # Null /\ Held \in [Slots -> Nat]
  BY PartsFinite DEF Close, Runs
<1>2. d >= 2
  <2>1. (d \in {0, 1}) \in BOOLEAN
    OBVIOUS
  <2>2. d \notin {0, 1}
    BY <2>1, NotOdd DEF Close
  <2> QED BY <2>2, FilesAssumption DEF Fds
<1>3. PICK f \in FileSlots : f = ofile[p][d]
  BY <1>1, BehindDescriptor
<1>4. /\ <<p, d>> \in Descriptors(f) /\ file[f].refcnt >= 1 /\ file[f].type # "NONE"
      /\ f \in Opened /\ file[f].ip \in Slots
  BY <1>1, <1>2, <1>3, BehindDescriptor
<1>5. PICK ip \in Slots : ip = file[f].ip
  BY <1>4
<1>6. file[f] \in [refcnt : Nat, type : {"NONE", "INODE", "DEVICE"}, ip : Slots \union {Null}]
  BY DEF Tables
<1> DEFINE last == file[f].refcnt = 1
           new == [refcnt |-> file[f].refcnt - 1, ip |-> file[f].ip,
                   type |-> IF last THEN "NONE" ELSE file[f].type]
<1>7. /\ ofile' = [ofile EXCEPT ![p][d] = Null]
      /\ file' = [file EXCEPT ![f] = new]
      /\ itab' = (IF last THEN Put(itab, ip) ELSE itab)
      /\ UNCHANGED <<cwd, panic>>
  <2>1. ~ (file[f].refcnt < 1) /\ file[f].ip # Null /\ file[f].type \in {"INODE", "DEVICE"}
    BY <1>4, <1>6, SlotFacts
  <2> QED BY <1>3, <1>5, <2>1 DEF Close
<1>8. new.ip = ip /\ new.refcnt = file[f].refcnt - 1 /\ (~ last => new.type = file[f].type)
  BY <1>5
<1> HIDE DEF new
<1>9. /\ DOMAIN ofile' = DOMAIN ofile
      /\ \A q \in DOMAIN ofile : \A e \in Fds :
           ofile'[q][e] = IF q = p /\ e = d THEN Null ELSE ofile[q][e]
  BY <1>7 DEF Tables
<1>10. \A g \in FileSlots : file'[g] = IF g = f THEN new ELSE file[g]
  BY <1>7 DEF Tables
<1>11. \A g \in FileSlots : Descriptors(g)' \in SUBSET Descriptors(g)
  BY <1>9, SlotFacts, FilesAssumption DEF Descriptors
<1>12. Descriptors(f)' \in SUBSET (Descriptors(f) \ {<<p, d>>})
  BY <1>9, SlotFacts, FilesAssumption DEF Descriptors
<1>13. /\ IsFiniteSet(Descriptors(f)) /\ Cardinality(Descriptors(f)) \in Nat
       /\ Cardinality(Descriptors(f)') \in Nat
       /\ Cardinality(Descriptors(f)') <= Cardinality(Descriptors(f)) - 1
       /\ file[f].refcnt \in Nat /\ file[f].refcnt >= Cardinality(Descriptors(f))
  <2>1. IsFiniteSet(Descriptors(f))
    BY PartsFinite
  <2>2. file[f].refcnt \in Nat /\ file[f].refcnt >= Cardinality(Descriptors(f))
    BY <1>6 DEF Counts, FileCounts
  <2> QED BY <1>4, <1>12, <2>1, <2>2, CountLess
<1>14. last => Descriptors(f)' = {}
  <2>1. last => Cardinality(Descriptors(f)') = 0
    BY <1>13
  <2>2. IsFiniteSet(Descriptors(f)')
    BY <1>12, <1>13, FS_Subset
  <2> QED BY <2>1, <2>2, FS_EmptySet
<1>15. FileCounts'
  <2>1. ASSUME NEW g \in FileSlots, g # f
        PROVE  /\ file'[g].refcnt >= Cardinality(Descriptors(g)')
               /\ Descriptors(g)' # {} => file'[g].type # "NONE"
    <3>1. /\ Cardinality(Descriptors(g)) \in Nat /\ Cardinality(Descriptors(g)') \in Nat
          /\ Cardinality(Descriptors(g)') <= Cardinality(Descriptors(g))
      <4>1. IsFiniteSet(Descriptors(g))
        BY PartsFinite
      <4> QED BY <1>11, <4>1, CountSub
    <3>2. file[g].refcnt \in Nat /\ file'[g] = file[g]
      BY <1>10, <2>1 DEF Tables
    <3>3. file[g].refcnt >= Cardinality(Descriptors(g))
          /\ (Descriptors(g) # {} => file[g].type # "NONE")
      BY DEF Counts, FileCounts
    <3> QED BY <1>11, <3>1, <3>2, <3>3
  <2>2. file'[f].refcnt >= Cardinality(Descriptors(f)')
    BY <1>8, <1>10, <1>13
  <2>3. Descriptors(f)' # {} => file'[f].type # "NONE"
    BY <1>4, <1>8, <1>10, <1>14
  <2> QED BY <2>1, <2>2, <2>3 DEF FileCounts
<1>16. Opened' \in SUBSET Opened /\ (last => f \notin Opened')
  BY <1>11, <1>14 DEF Opened
<1>17. \A g \in FileSlots : file'[g].ip = file[g].ip
  BY <1>5, <1>8, <1>10
<1>18. OpenedHaveInode'
  BY <1>16, <1>17 DEF Counts, OpenedHaveInode, Opened
<1>19. ConsoleOpen'
  <2>1. ASSUME NEW q \in DOMAIN ofile, NEW e \in {0, 1}
        PROVE  ofile'[q][e] \in FileSlots /\ file'[ofile'[q][e]].type = "DEVICE"
    <3>1. ofile[q][e] \in FileSlots /\ file[ofile[q][e]].type = "DEVICE"
      BY DEF Counts, ConsoleOpen
    <3>2. e \in Fds /\ e # d
      BY <1>2, FilesAssumption DEF Fds
    <3>3. ofile'[q][e] = ofile[q][e]
      BY <1>9, <3>2
    <3>4. CASE ofile[q][e] = f
      <4>1. <<q, e>> \in Descriptors(f)'
        BY <1>9, <3>2, <3>3, <3>4 DEF Descriptors
      <4>2. ~ last
        BY <1>14, <4>1
      <4> QED BY <1>8, <1>10, <3>1, <3>3, <3>4, <4>2
    <3>5. CASE ofile[q][e] # f
      BY <1>10, <3>1, <3>3, <3>5
    <3> QED BY <3>4, <3>5
  <2> QED BY <1>9, <2>1 DEF ConsoleOpen
<1>20. \A s : Dirs(s)' = Dirs(s)
  BY <1>7 DEF Dirs
<1>21. ASSUME NEW s \in Slots PROVE itab'.ref[s] >= Held'[s]
  <2>1. /\ IsFiniteSet(Opens(s)) /\ Cardinality(Opens(s)) \in Nat
        /\ Cardinality(Dirs(s)) \in Nat /\ itab.ref[s] \in Int /\ itab \in Itab
    BY PartsFinite DEF Tables, Itab
  <2>2. itab.ref[s] >= Cardinality(Opens(s)) + Cardinality(Dirs(s))
    <3>1. itab.ref[s] >= Held[s]
      BY DEF Counts, InodeCounts
    <3> QED BY <3>1 DEF Held
  <2>3. Opens(s)' \in SUBSET Opens(s)
    BY <1>16, <1>17 DEF Opens, Opened
  <2>4. /\ Cardinality(Opens(s)') \in Nat
        /\ Cardinality(Opens(s)') <= Cardinality(Opens(s))
        /\ last /\ s = ip => Cardinality(Opens(s)') <= Cardinality(Opens(s)) - 1
    <3>1. CASE last /\ s = ip
      <4>1. f \in Opens(s) /\ Opens(s)' \in SUBSET (Opens(s) \ {f})
        BY <1>4, <1>5, <1>16, <2>3, <3>1 DEF Opens
      <4> QED BY <2>1, <4>1, CountLess
    <3> QED BY <2>1, <2>3, <3>1, CountSub
  <2>5. itab'.ref[s] = itab.ref[s] - (IF last /\ s = ip THEN 1 ELSE 0)
    <3> HIDE DEF last
    <3>1. CASE last
      BY <1>7, <2>1, <3>1, PutOf
    <3>2. CASE ~ last
      BY <1>7, <2>1, <3>2
    <3> QED BY <3>1, <3>2
  <2>6. Held'[s] = Cardinality(Opens(s)') + Cardinality(Dirs(s))
    BY <1>20 DEF Held
  <2> HIDE DEF last
  <2> QED BY <2>1, <2>2, <2>4, <2>5, <2>6
<1>22. InodeCounts'
  <2>1. OneCopy(itab) /\ itab \in Itab
    BY DEF Counts, InodeCounts, Tables
  <2>2. OneCopy(itab')
    BY <1>7, <2>1, PutOneCopy
  <2> QED BY <2>2, <1>21 DEF InodeCounts, OneCopy
<1> QED BY <1>7, <1>15, <1>18, <1>19, <1>22 DEF Counts

(* fstat, read and write find what the descriptor refers to.               *)
LEMMA FstatCounts ==
  ASSUME Tables, Counts, odd = 0, odd' = 0, NEW p \in Procs, NEW d \in Fds, Fstat(p, d)
  PROVE  Counts'
<1>1. p \in DOMAIN ofile /\ ofile[p][d] # Null /\ UNCHANGED <<file, ofile, cwd, itab>>
  BY DEF Fstat, Runs
<1>2. d >= 2
  <2>1. (d \in {0, 1}) \in BOOLEAN
    OBVIOUS
  <2>2. d \notin {0, 1}
    BY <2>1, NotOdd DEF Fstat
  <2> QED BY <2>2, FilesAssumption DEF Fds
<1> DEFINE ip == file[ofile[p][d]].ip
<1>3. ip \in Slots /\ ip # Null /\ itab.ref[ip] >= 1 /\ itab.ref[ip] \in Int
  <2>1. ip \in Slots /\ itab.ref[ip] >= 1
    BY <1>1, <1>2, BehindDescriptor
  <2> HIDE DEF ip
  <2> QED BY <2>1, SlotFacts DEF Tables, Itab
<1>4. panic' = IF ip = Null THEN "null" ELSE IF itab.ref[ip] < 1 THEN "refcnt" ELSE panic
  BY DEF Fstat
<1> HIDE DEF ip
<1>5. panic' = panic
  BY <1>3, <1>4
<1> QED BY <1>1, <1>5, SameCounts DEF Counts, InodeCounts

LEMMA ReadWriteCounts ==
  ASSUME Tables, Counts, NEW p \in Procs, NEW d \in Fds, ReadWrite(p, d)
  PROVE  Counts'
<1>1. p \in DOMAIN ofile /\ ofile[p][d] # Null /\ UNCHANGED <<file, ofile, cwd, itab>>
  BY DEF ReadWrite, Runs
<1> DEFINE f == ofile[p][d]
<1>2. f \in FileSlots /\ file[f].type # "NONE"
  BY <1>1, BehindDescriptor
<1>3. file[f].type = "INODE" => ~ (itab.ref[file[f].ip] < 1)
  <2>1. CASE d \in {0, 1}
    BY <1>1, <2>1 DEF Counts, ConsoleOpen
  <2>2. CASE d \notin {0, 1}
    <3>1. d >= 2
      BY <2>2, FilesAssumption DEF Fds
    <3>2. file[f].ip \in Slots /\ itab.ref[file[f].ip] >= 1
      BY <1>1, <3>1, BehindDescriptor
    <3>3. itab.ref[file[f].ip] \in Int
      BY <3>2 DEF Tables, Itab
    <3> QED BY <3>2, <3>3
  <2> QED BY <2>1, <2>2
<1>4. panic' = IF file[f].type = "NONE" THEN "type"
               ELSE IF file[f].type = "INODE" /\ itab.ref[file[f].ip] < 1 THEN "refcnt" ELSE panic
  BY DEF ReadWrite
<1> HIDE DEF f
<1>5. panic' = panic
  BY <1>2, <1>3, <1>4
<1> QED BY <1>1, <1>5, SameCounts DEF Counts, InodeCounts

(* fork counts every descriptor of the parent for the child, which refers  *)
(* to nothing else: its descriptors 0 and 1 are open in the parent.        *)
LEMMA ForkCounts ==
  ASSUME Tables, Counts, NEW p \in Procs, NEW child \in Procs, Fork(p, child)
  PROVE  Counts'
<1>1. /\ p \in DOMAIN ofile /\ child \notin DOMAIN ofile
      /\ DOMAIN cwd = DOMAIN ofile /\ Held \in [Slots -> Nat]
  BY PartsFinite DEF Fork, Runs, Tables
<1> DEFINE a == Min(FreeFiles)
           b == Min(FreeFiles \ {a})
           new == NewFiles({a, b})
           own(d) == CASE d = 0 -> a [] d = 1 -> b [] OTHER -> Null
<1>2. CASE Panic("files")
  BY <1>2, PanicCounts
<1>3. CASE ~ (Cardinality(FreeFiles) < 2)
  <2>1. a \in FreeFiles /\ b \in FreeFiles /\ a # b
    <3>1. Cardinality(FreeFiles) \in Nat
      BY FilesFinite DEF FreeFiles
    <3>2. Cardinality(FreeFiles) >= 2
      BY <1>3, <3>1
    <3> QED BY <3>2, TwoFree
  <2>2. PICK two \in SUBSET FileSlots :
          /\ two = {a, b}
          /\ \A f \in two : Descriptors(f) = {}
                            /\ \A q \in DOMAIN ofile : \A e \in Fds : ofile[q][e] # f
    <3>1. {a, b} \in SUBSET FileSlots
      BY <2>1 DEF FreeFiles
    <3>2. \A f \in {a, b} : Descriptors(f) = {}
                           /\ \A q \in DOMAIN ofile : \A e \in Fds : ofile[q][e] # f
      BY <2>1, NoDescriptors
    <3> QED BY <3>1, <3>2
  <2>3. \A f \in FileSlots : /\ new[f].ip = file[f].ip
                             /\ f \in two => new[f].refcnt = 1 /\ new[f].type = "DEVICE"
                             /\ f \notin two => new[f] = file[f]
    BY <2>2 DEF NewFiles
  <2>4. new \in [FileSlots -> FileType]
    BY NewFilesType
  <2>5. \A d \in Fds : ofile[p][d] # Null =>
          ofile[p][d] \in FileSlots /\ ofile[p][d] \notin two /\ ~ (new[ofile[p][d]].refcnt < 1)
    <3>1. ASSUME NEW d \in Fds, ofile[p][d] # Null
          PROVE  /\ ofile[p][d] \in FileSlots /\ ofile[p][d] \notin two
                 /\ ~ (new[ofile[p][d]].refcnt < 1)
      <4>1. ofile[p][d] \in FileSlots /\ file[ofile[p][d]].refcnt >= 1
        BY <1>1, <3>1, BehindDescriptor
      <4>2. ofile[p][d] \notin two
        BY <1>1, <2>2
      <4>3. new[ofile[p][d]] = file[ofile[p][d]] /\ file[ofile[p][d]].refcnt \in Nat
        BY <2>3, <4>1, <4>2 DEF Tables
      <4> QED BY <4>1, <4>2, <4>3
    <3> QED BY <3>1
  <2>6. \A d \in Fds : (IF ofile[p][d] # Null THEN ofile[p][d] ELSE own(d)) = ofile[p][d]
    <3>1. ASSUME NEW d \in Fds, ofile[p][d] = Null PROVE own(d) = Null
      <4>1. d \notin {0, 1}
        BY <1>1, <3>1, SlotFacts, FilesAssumption DEF Counts, ConsoleOpen
      <4> QED BY <4>1
    <3> HIDE DEF own
    <3> QED BY <3>1
  <2>7. PICK old \in Slots : old = cwd[p]
    BY <1>1 DEF Tables
  <2>8. /\ file' = [f \in FileSlots |-> [new[f] EXCEPT !.refcnt = @ + Inherited(p, f)]]
        /\ ofile' = [q \in DOMAIN ofile \union {child} |->
               IF q # child THEN ofile[q]
               ELSE [d \in Fds |-> IF ofile[p][d] # Null THEN ofile[p][d] ELSE own(d)]]
        /\ cwd' = [q \in DOMAIN cwd \union {child} |-> IF q = child THEN cwd[p] ELSE cwd[q]]
        /\ itab' = [itab EXCEPT !.ref[cwd[p]] = @ + 1]
        /\ UNCHANGED <<disk, panic>>
    BY <1>3, <2>5 DEF Fork
  <2> HIDE DEF a, b, new
  <2>9. /\ DOMAIN ofile' = DOMAIN ofile \union {child}
        /\ \A q \in DOMAIN ofile : ofile'[q] = ofile[q]
        /\ \A d \in Fds : ofile'[child][d] = ofile[p][d]
    <3> HIDE DEF own
    <3> QED BY <1>1, <2>6, <2>8
  <2> HIDE DEF own
  <2>10. \A f \in FileSlots : /\ Inherited(p, f) \in Nat
                              /\ file'[f].refcnt = new[f].refcnt + Inherited(p, f)
                              /\ file'[f].ip = file[f].ip
                              /\ file'[f].type = new[f].type
    <3>1. \A f \in FileSlots : Inherited(p, f) \in Nat
      BY FdsFinite DEF Inherited
    <3> QED BY <2>3, <2>4, <2>8, <3>1 DEF FileType
  <2>11. ASSUME NEW f \in FileSlots
         PROVE  /\ Cardinality(Descriptors(f)) \in Nat /\ Cardinality(Descriptors(f)') \in Nat
                /\ Cardinality(Descriptors(f)') <= Cardinality(Descriptors(f)) + Inherited(p, f)
                /\ Descriptors(f)' # {} => Descriptors(f) # {}
    <3> DEFINE I == {d \in Fds : ofile[p][d] = f}
               J == {child} \X I
    <3>1. IsFiniteSet(I) /\ Cardinality(I) \in Nat /\ Inherited(p, f) = Cardinality(I)
      BY FdsFinite DEF Inherited
    <3>2. Descriptors(f)' = Descriptors(f) \union J
      BY <1>1, <2>9 DEF Descriptors
    <3>3. IsFiniteSet({child}) /\ Cardinality({child}) = 1
      BY FS_Singleton
    <3>4. ASSUME I # {} PROVE Descriptors(f) # {}
      <4>1. PICK d \in Fds : ofile[p][d] = f
        BY <3>4
      <4>2. <<p, d>> \in Descriptors(f)
        BY <1>1, <4>1 DEF Descriptors
      <4> QED BY <4>2
    <3>5. J # {} => I # {}
      OBVIOUS
    <3>6. IsFiniteSet(J) /\ Cardinality(J) = 1 * Cardinality(I)
      <4> HIDE DEF I
      <4> QED BY <3>1, <3>3, FS_Product
    <3>7. IsFiniteSet(Descriptors(f)) /\ Cardinality(Descriptors(f)) \in Nat
      BY PartsFinite
    <3> HIDE DEF I, J
    <3>8. /\ IsFiniteSet(Descriptors(f) \union J)
          /\ Cardinality(Descriptors(f) \union J)
               = Cardinality(Descriptors(f)) + Cardinality(J) - Cardinality(Descriptors(f) \intersect J)
      BY <3>6, <3>7, FS_Union
    <3>9. Cardinality(Descriptors(f) \intersect J) \in Nat
      BY <3>7, FS_Intersection, FS_CardinalityType
    <3>10. Cardinality(Descriptors(f) \union J) \in Nat
      BY <3>8, FS_CardinalityType
    <3> QED BY <3>1, <3>2, <3>4, <3>5, <3>6, <3>7, <3>8, <3>9, <3>10
  <2>12. FileCounts'
    <3>1. ASSUME NEW f \in FileSlots
          PROVE  /\ file'[f].refcnt >= Cardinality(Descriptors(f)')
                 /\ Descriptors(f)' # {} => file'[f].type # "NONE"
      <4>1. file[f].refcnt \in Nat /\ file[f].refcnt >= Cardinality(Descriptors(f))
            /\ (Descriptors(f) # {} => file[f].type # "NONE")
        BY DEF Tables, Counts, FileCounts
      <4>2. new[f].refcnt \in Nat /\ new[f].refcnt >= Cardinality(Descriptors(f))
        <5>1. CASE f \in two
          <6>1. Cardinality(Descriptors(f)) = 0
            BY <2>2, <5>1, FS_EmptySet
          <6> QED BY <2>3, <5>1, <6>1
        <5>2. CASE f \notin two
          BY <2>3, <4>1, <5>2
        <5> QED BY <5>1, <5>2
      <4>3. Descriptors(f)' # {} => file'[f].type # "NONE"
        BY <2>2, <2>3, <2>10, <2>11, <4>1
      <4> QED BY <2>10, <2>11, <4>2, <4>3
    <3> QED BY <3>1 DEF FileCounts
  <2>13. Opened' = Opened
    <3>1. ASSUME NEW f \in Opened' PROVE f \in Opened
      <4>1. PICK r \in Descriptors(f)' : r[2] >= 2
        BY <3>1 DEF Opened
      <4>2. r \in (DOMAIN ofile') \X Fds /\ ofile'[r[1]][r[2]] = f
        BY DEF Descriptors
      <4>3. CASE r[1] = child
        <5>1. <<p, r[2]>> \in (DOMAIN ofile) \X Fds /\ ofile[p][r[2]] = f
          BY <1>1, <2>9, <4>2, <4>3
        <5>2. <<p, r[2]>> \in Descriptors(f)
          BY <5>1 DEF Descriptors
        <5> QED BY <3>1, <4>1, <5>2 DEF Opened
      <4>4. CASE r[1] # child
        <5>1. r \in Descriptors(f)
          BY <2>9, <4>2, <4>4 DEF Descriptors
        <5> QED BY <3>1, <4>1, <5>1 DEF Opened
      <4> QED BY <4>3, <4>4
    <3>2. ASSUME NEW f \in Opened PROVE f \in Opened'
      <4>1. PICK r \in Descriptors(f) : r[2] >= 2
        BY <3>2 DEF Opened
      <4>2. r \in Descriptors(f)'
        BY <2>9 DEF Descriptors
      <4> QED BY <3>2, <4>1, <4>2 DEF Opened
    <3> QED BY <3>1, <3>2
  <2>14. OpenedHaveInode'
    BY <2>10, <2>13 DEF Counts, OpenedHaveInode, Opened
  <2>15. ConsoleOpen'
    <3>1. \A q \in DOMAIN ofile : \A d \in {0, 1} :
            ofile[q][d] \in FileSlots /\ file[ofile[q][d]].type = "DEVICE" /\ d \in Fds
      BY FilesAssumption DEF Counts, ConsoleOpen, Fds
    <3>2. \A f \in FileSlots : file[f].type = "DEVICE" => file'[f].type = "DEVICE"
      BY <2>3, <2>10
    <3> QED BY <1>1, <2>9, <3>1, <3>2 DEF ConsoleOpen
  <2>16. \A s : Opens(s)' = Opens(s)
    BY <2>10, <2>13 DEF Opens, Opened
  <2>17. /\ DOMAIN cwd' = DOMAIN cwd \union {child} /\ cwd'[child] = old
         /\ \A q \in DOMAIN cwd : cwd'[q] = cwd[q]
    BY <1>1, <2>7, <2>8
  <2>18. \A s \in Slots : /\ itab.ref[s] \in Int
                          /\ itab'.ref[s] = itab.ref[s] + (IF s = old THEN 1 ELSE 0)
                          /\ itab'.inum[s] = itab.inum[s]
    <3>1. itab' = [itab EXCEPT !.ref[old] = @ + 1]
      BY <2>7, <2>8
    <3> QED BY <3>1 DEF Tables, Itab
  <2>19. \A s \in Slots : /\ IsFiniteSet(Dirs(s)) /\ Cardinality(Opens(s)) \in Nat
                          /\ Cardinality(Dirs(s)) \in Nat
                          /\ itab.ref[s] >= Cardinality(Opens(s)) + Cardinality(Dirs(s))
    <3>1. \A s \in Slots : itab.ref[s] >= Held[s]
      BY DEF Counts, InodeCounts
    <3>2. \A s \in Slots : itab.ref[s] >= Cardinality(Opens(s)) + Cardinality(Dirs(s))
      BY <3>1 DEF Held
    <3> QED BY <3>2, PartsFinite
  <2>20. ASSUME NEW s \in Slots PROVE itab'.ref[s] >= Held'[s]
    <3>1. /\ Cardinality(Dirs(s)') \in Nat
          /\ Cardinality(Dirs(s)') <= Cardinality(Dirs(s)) + (IF s = old THEN 1 ELSE 0)
      <4>1. CASE s = old
        <5>1. Dirs(s)' \in SUBSET (Dirs(s) \union {child})
          BY <2>17 DEF Dirs
        <5> QED BY <2>19, <4>1, <5>1, CountMore
      <4>2. CASE s # old
        <5>1. Dirs(s)' \in SUBSET Dirs(s)
          BY <2>17, <4>2 DEF Dirs
        <5> QED BY <2>19, <4>2, <5>1, CountSub
      <4> QED BY <4>1, <4>2
    <3>2. Held'[s] = Cardinality(Opens(s)) + Cardinality(Dirs(s)')
      BY <2>16 DEF Held
    <3> QED BY <2>18, <2>19, <3>1, <3>2
  <2>21. itab.ref[old] >= 1
    <3>1. p \in Dirs(old)
      BY <1>1, <2>7 DEF Dirs
    <3>2. Cardinality(Dirs(old)) # 0
      BY <2>19, <3>1, FS_EmptySet
    <3> QED BY <2>18, <2>19, <3>2
  <2>22. OneCopy(itab')
    <3>1. \A s \in Slots : itab'.ref[s] > 0 => itab.ref[s] > 0
      BY <2>18, <2>21
    <3>2. OneCopy(itab)
      BY DEF Counts, InodeCounts
    <3> QED BY <2>18, <3>1, <3>2 DEF OneCopy
  <2>23. InodeCounts'
    BY <2>20, <2>22 DEF InodeCounts, OneCopy
  <2> QED BY <2>8, <2>12, <2>14, <2>15, <2>23 DEF Counts
<1>4. Cardinality(FreeFiles) < 2 => Panic("files")
  BY DEF Fork
<1> QED BY <1>2, <1>3, <1>4

(* The two Files of a fork that fails are referred to by nobody.           *)
LEMMA ForkFailsCounts ==
  ASSUME Tables, Counts, NEW p \in Procs, ForkFails(p)
  PROVE  Counts'
<1> DEFINE a == Min(FreeFiles)
           b == Min(FreeFiles \ {a})
<1>1. /\ Cardinality(FreeFiles) >= 2 /\ file' = NewFiles({a, b})
      /\ UNCHANGED <<ofile, cwd, itab, panic>>
  BY DEF ForkFails
<1>2. a \in FreeFiles /\ b \in FreeFiles
  BY <1>1, TwoFree
<1> HIDE DEF a, b
<1>3. \A f \in FileSlots : f \in FreeFiles => Descriptors(f) = {}
  BY NoDescriptors
<1>4. \A f \in FileSlots : /\ file'[f].ip = file[f].ip
                           /\ f \notin FreeFiles => file'[f] = file[f]
                           /\ file[f].type = "DEVICE" => file'[f].type = "DEVICE"
  BY <1>1, <1>2 DEF NewFiles
<1>5. \A f : Descriptors(f)' = Descriptors(f)
  BY <1>1 DEF Descriptors
<1>6. Opened' = Opened
  BY <1>5 DEF Opened
<1>7. \A s : Opens(s)' = Opens(s) /\ Dirs(s)' = Dirs(s)
  BY <1>1, <1>4, <1>6 DEF Opens, Opened, Dirs
<1>8. FileCounts'
  <2>1. ASSUME NEW f \in FileSlots, f \in FreeFiles
        PROVE  file'[f].refcnt >= Cardinality(Descriptors(f)) /\ Descriptors(f) = {}
    <3>1. Descriptors(f) = {} /\ Cardinality({}) = 0
      BY <1>3, <2>1, FS_EmptySet
    <3>2. file'[f].refcnt \in {0, 1}
      BY <1>1, <2>1 DEF NewFiles, FreeFiles
    <3> QED BY <3>1, <3>2
  <2> QED BY <1>4, <1>5, <2>1 DEF Counts, FileCounts
<1>9. OpenedHaveInode' /\ ConsoleOpen'
  BY <1>1, <1>4, <1>6 DEF Counts, OpenedHaveInode, ConsoleOpen, Opened
<1>10. InodeCounts'
  <2>1. \A s \in Slots : Held'[s] = Held[s]
    BY <1>7 DEF Held
  <2> QED BY <1>1, <2>1 DEF Counts, InodeCounts, OneCopy
<1> QED BY <1>1, <1>8, <1>9, <1>10 DEF Counts

(* A process that ends leaves its Files and its directory counted.         *)
LEMMA ExitCounts ==
  ASSUME Tables, Counts, NEW p \in Procs, Exit(p)
  PROVE  Counts'
<1>1. /\ DOMAIN ofile' = DOMAIN ofile \ {p} /\ \A q \in DOMAIN ofile' : ofile'[q] = ofile[q]
      /\ DOMAIN cwd' = DOMAIN cwd \ {p} /\ \A q \in DOMAIN cwd' : cwd'[q] = cwd[q]
      /\ UNCHANGED <<file, itab, panic>>
  BY DEF Exit
<1>2. \A f : Descriptors(f)' \in SUBSET Descriptors(f)
  BY <1>1 DEF Descriptors
<1>3. Opened' \in SUBSET Opened
  BY <1>2 DEF Opened
<1>4. \A s : Opens(s)' \in SUBSET Opens(s) /\ Dirs(s)' \in SUBSET Dirs(s)
  BY <1>1, <1>3 DEF Opens, Dirs
<1>5. FileCounts'
  <2>1. ASSUME NEW f \in FileSlots
        PROVE  /\ file[f].refcnt >= Cardinality(Descriptors(f)')
               /\ Descriptors(f)' # {} => file[f].type # "NONE"
    <3>1. /\ Cardinality(Descriptors(f)) \in Nat /\ Cardinality(Descriptors(f)') \in Nat
          /\ Cardinality(Descriptors(f)') <= Cardinality(Descriptors(f))
      <4>1. IsFiniteSet(Descriptors(f))
        BY PartsFinite
      <4> QED BY <1>2, <4>1, CountSub
    <3>2. file[f].refcnt \in Nat /\ file[f].refcnt >= Cardinality(Descriptors(f))
          /\ (Descriptors(f) # {} => file[f].type # "NONE")
      BY DEF Tables, Counts, FileCounts
    <3> QED BY <1>2, <3>1, <3>2
  <2> QED BY <1>1, <2>1 DEF FileCounts
<1>6. OpenedHaveInode' /\ ConsoleOpen'
  BY <1>1, <1>3 DEF Counts, OpenedHaveInode, ConsoleOpen
<1>7. ASSUME NEW s \in Slots PROVE itab.ref[s] >= Held'[s]
  <2>1. /\ IsFiniteSet(Opens(s)) /\ IsFiniteSet(Dirs(s)) /\ itab.ref[s] \in Int
    BY PartsFinite DEF Tables, Itab
  <2>2. /\ Cardinality(Opens(s)) \in Nat /\ Cardinality(Opens(s)') \in Nat
        /\ Cardinality(Opens(s)') <= Cardinality(Opens(s))
    BY <1>4, <2>1, CountSub
  <2>3. /\ Cardinality(Dirs(s)) \in Nat /\ Cardinality(Dirs(s)') \in Nat
        /\ Cardinality(Dirs(s)') <= Cardinality(Dirs(s))
    BY <1>4, <2>1, CountSub
  <2>4. itab.ref[s] >= Held[s]
    BY DEF Counts, InodeCounts
  <2>5. /\ Held[s] = Cardinality(Opens(s)) + Cardinality(Dirs(s))
        /\ Held'[s] = Cardinality(Opens(s)') + Cardinality(Dirs(s)')
    BY DEF Held
  <2> QED BY <2>1, <2>2, <2>3, <2>4, <2>5
<1>8. InodeCounts'
  BY <1>1, <1>7 DEF Counts, InodeCounts, OneCopy
<1> QED BY <1>1, <1>5, <1>6, <1>8 DEF Counts

LEMMA InitCounts == Init => Counts
<1> SUFFICES ASSUME Init PROVE Counts OBVIOUS
<1>1. PICK p \in Procs : /\ ofile = [q \in {p} |-> [d \in Fds |-> IF d <= 1 THEN d + 1 ELSE Null]]
                         /\ cwd = [q \in {p} |-> 1]
  BY DEF Init
<1>2. 1 \in Slots /\ 1 \in FileSlots /\ 2 \in FileSlots /\ 0 \in Fds /\ 1 \in Fds
  BY FilesAssumption DEF Slots, FileSlots, Fds
<1>3. Tables
  BY InitShape, ShapeParts
<1>4. \A f \in FileSlots : /\ f \in Int
                           /\ file[f].refcnt = (IF f <= 2 THEN 1 ELSE 0)
                           /\ file[f].type = (IF f <= 2 THEN "DEVICE" ELSE "NONE")
  BY SlotFacts DEF Init
<1>5. Cardinality({}) = 0 /\ IsFiniteSet({})
  BY FS_EmptySet
<1>6. \A d \in Fds : d \in Int /\ ofile[p][d] = IF d <= 1 THEN d + 1 ELSE Null
  BY <1>1 DEF Fds
<1>7. \A f \in FileSlots : Descriptors(f) \in SUBSET {<<p, f - 1>>}
                           /\ (Descriptors(f) # {} => f <= 2)
  <2>1. ASSUME NEW f \in FileSlots, NEW r \in Descriptors(f)
        PROVE  r = <<p, f - 1>> /\ f <= 2
    <3>1. r \in {p} \X Fds /\ ofile[r[1]][r[2]] = f
      BY <1>1 DEF Descriptors
    <3>2. ofile[p][r[2]] = f /\ r = <<p, r[2]>> /\ r[2] \in Fds
      BY <3>1
    <3>3. f # Null
      BY FilesAssumption
    <3>4. r[2] \in Int /\ r[2] <= 1 /\ f = r[2] + 1
      BY <1>6, <3>2, <3>3
    <3>5. r[2] = f - 1 /\ f <= 2
      BY <3>4
    <3> QED BY <3>2, <3>5
  <2> QED BY <2>1
<1>8. FileCounts
  <2>1. ASSUME NEW f \in FileSlots
        PROVE  /\ file[f].refcnt >= Cardinality(Descriptors(f))
               /\ Descriptors(f) # {} => file[f].type # "NONE"
    <3>1. CASE Descriptors(f) = {}
      BY <1>4, <1>5, <3>1
    <3>2. CASE Descriptors(f) # {}
      <4>1. Descriptors(f) \in SUBSET ({} \union {<<p, f - 1>>})
        BY <1>7
      <4>2. Cardinality(Descriptors(f)) <= 0 + 1 /\ Cardinality(Descriptors(f)) \in Nat
        BY <1>5, <4>1, CountMore
      <4> QED BY <1>4, <1>7, <3>2, <4>2
    <3> QED BY <3>1, <3>2
  <2> QED BY <2>1 DEF FileCounts
<1>9. Opened = {}
  <2>1. ASSUME NEW f \in Opened PROVE FALSE
    <3>1. PICK r \in Descriptors(f) : r[2] >= 2
      BY DEF Opened
    <3>2. f \in FileSlots /\ f \in Int
      BY SlotFacts DEF Opened
    <3>3. r = <<p, f - 1>> /\ f <= 2
      BY <1>7, <3>2
    <3> QED BY <3>1, <3>2, <3>3
  <2> QED BY <2>1
<1>10. OpenedHaveInode
  BY <1>9 DEF OpenedHaveInode
<1>11. ConsoleOpen
  BY <1>1, <1>2, <1>4, <1>6 DEF ConsoleOpen
<1>12. ASSUME NEW s \in Slots PROVE itab.ref[s] >= Held[s]
  <2>1. Opens(s) = {}
    BY <1>9 DEF Opens
  <2>2. itab.ref[s] = IF s = 1 THEN 1 ELSE 0
    BY DEF Init
  <2>3. Held[s] = Cardinality(Dirs(s))
    <3>1. Held[s] = Cardinality(Opens(s)) + Cardinality(Dirs(s)) /\ Cardinality(Dirs(s)) \in Nat
      BY <1>3, PartsFinite DEF Held
    <3> QED BY <1>5, <2>1, <3>1
  <2>4. CASE s = 1
    <3>1. Dirs(s) \in SUBSET ({} \union {p})
      BY <1>1 DEF Dirs
    <3>2. Cardinality(Dirs(s)) <= 0 + 1 /\ Cardinality(Dirs(s)) \in Nat
      BY <1>5, <3>1, CountMore
    <3> QED BY <2>2, <2>3, <2>4, <3>2
  <2>5. CASE s # 1
    <3>1. Dirs(s) = {}
      BY <1>1, <2>5 DEF Dirs
    <3> QED BY <1>5, <2>2, <2>3, <2>5, <3>1
  <2> QED BY <2>4, <2>5
<1>13. InodeCounts
  <2>1. \A s \in Slots : itab.ref[s] > 0 => s = 1
    BY DEF Init
  <2> QED BY <1>12, <2>1 DEF InodeCounts, OneCopy
<1>14. panic = "none"
  BY DEF Init
<1> QED BY <1>8, <1>10, <1>11, <1>13, <1>14 DEF Counts

LEMMA NextIInv == IInv /\ [Next]_vars => IInv'
<1> SUFFICES ASSUME IInv, [Next]_vars PROVE IInv' OBVIOUS
<1>1. Shape /\ Shape' /\ Tables /\ odd \in Nat
  BY NextShape, ShapeParts DEF IInv
<1> SUFFICES ASSUME odd' = 0 PROVE Counts'
  BY <1>1 DEF IInv
<1>2. CASE UNCHANGED vars
  <2>1. Counts /\ UNCHANGED <<file, ofile, cwd, itab, panic>>
    BY <1>2 DEF IInv, vars
  <2> QED BY <2>1, SameCounts DEF Counts, InodeCounts
<1>3. CASE Next
  <2>1. PICK p \in Procs :
          \/ \E path \in Paths : Create(p, path) \/ Chdir(p, path)
          \/ \E path \in Paths, rdonly \in BOOLEAN : Open(p, path, rdonly)
          \/ \E d \in Fds : Close(p, d) \/ Dup(p, d) \/ Fstat(p, d) \/ ReadWrite(p, d)
          \/ \E child \in Procs : Fork(p, child)
          \/ ForkFails(p)
          \/ Exit(p)
    BY <1>3 DEF Next
  <2>2. odd = 0 /\ ~ (\E d \in Fds : Dup(p, d))
    <3>1. ASSUME NEW d \in Fds PROVE ~ Dup(p, d)
      BY <1>1 DEF Dup
    <3>2. (\E b : odd' = odd + Count(b)) \/ odd' = odd \/ odd' = odd + 1
      <4>1. \A path \in Paths : Create(p, path) \/ Chdir(p, path)
                              => \E b : odd' = odd + Count(b)
        BY DEF Create, Chdir
      <4>2. \A path \in Paths, rdonly \in BOOLEAN :
              Open(p, path, rdonly) => \E b : odd' = odd + Count(b)
        BY DEF Open
      <4>3. \A d \in Fds : Close(p, d) \/ Fstat(p, d) => \E b : odd' = odd + Count(b)
        BY DEF Close, Fstat
      <4>4. \A d \in Fds : ReadWrite(p, d) => odd' = odd
        BY DEF ReadWrite
      <4>5. \A d \in Fds : Dup(p, d) => odd' = odd + 1
        BY DEF Dup
      <4>6. \A child \in Procs : Fork(p, child) => odd' = odd
        BY DEF Fork
      <4>7. ForkFails(p) \/ Exit(p) => odd' = odd
        BY DEF ForkFails, Exit
      <4> QED BY <2>1, <4>1, <4>2, <4>3, <4>4, <4>5, <4>6, <4>7
    <3>3. odd = 0
      BY <1>1, <3>2 DEF Count
    <3> QED BY <3>1, <3>3
  <2>3. Counts
    BY <2>2 DEF IInv
  <2> QED BY <1>1, <2>1, <2>2, <2>3, CreateCounts, ChdirCounts, OpenCounts, CloseCounts,
       FstatCounts, ReadWriteCounts, ForkCounts, ForkFailsCounts, ExitCounts
<1> QED BY <1>2, <1>3

LEMMA Inductive == Spec => []IInv
<1>1. Init => IInv
  BY InitShape, InitCounts DEF IInv
<1>2. IInv /\ [Next]_vars => IInv'
  BY NextIInv
<1> QED BY <1>1, <1>2, PTL DEF Spec

(* File.dup and File.close keep a File in the table until its last         *)
(* descriptor, in whatever process, is closed.                             *)
THEOREM FilesStayCounted == Spec => []FilesCounted
<1>1. IInv => FilesCounted
  BY DEF IInv, Counts, FileCounts, FilesCounted
<1> QED BY <1>1, Inductive, PTL

(* iget, Inode.dup and put keep an inode in its slot while an open File or *)
(* a current directory refers to it.                                       *)
THEOREM InodesStayCounted == Spec => []InodesCounted
<1>1. ASSUME IInv, odd = 0, NEW s \in Slots
      PROVE  itab.ref[s] >= Cardinality({f \in Opened : file[f].ip = s})
                            + Cardinality({p \in DOMAIN cwd : cwd[p] = s})
  <2>1. itab.ref[s] >= Held[s]
    BY <1>1 DEF IInv, Counts, InodeCounts
  <2> QED BY <2>1 DEF Held, Opens, Dirs
<1>2. IInv => InodesCounted
  BY <1>1 DEF InodesCounted
<1> QED BY <1>2, Inductive, PTL

(* iget looks for an inode before it takes an empty slot, so that no inode *)
(* is in the table twice.                                                  *)
THEOREM OneCopyInTable == Spec => []OneCopyPerInode
<1>1. IInv => OneCopyPerInode
  BY DEF IInv, Counts, InodeCounts, OneCopy, OneCopyPerInode
<1> QED BY <1>1, Inductive, PTL

(* Absolute paths and descriptors from 2 on never fail an assertion of     *)
(* plix/fs/file.d: the kernel stops only when files[] or itable is full.   *)
THEOREM CleanAssertsNeverFail == Spec => []CleanAssertsHold
<1>1. IInv => CleanAssertsHold
  BY DEF IInv, Counts, CleanAssertsHold
<1> QED BY <1>1, Inductive, PTL
=============================================================================
