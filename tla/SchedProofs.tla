---------------------------- MODULE SchedProofs ----------------------------
(* Proofs about ProcQueue and Sched, for any number of processes.          *)
EXTENDS Sched, NatFacts, FiniteSetTheorems, TLAPS

-----------------------------------------------------------------------------
(* Queue.push_front of a process that is in no queue (schedule.d:13) keeps *)
(* the links of all queues consistent and puts it into q.                  *)
LEMMA PushFrontLinks ==
  ASSUME NEW L \in Links, NEW W \in [Proc -> Queue \cup {NoQueue}],
         LinksAgree(L, W),
         NEW q \in Queue, NEW p \in Proc, W[p] = NoQueue
  PROVE  /\ PushFront(L, q, p) \in Links
         /\ LinksAgree(PushFront(L, q, p), [W EXCEPT ![p] = q])
<1> DEFINE f == L.front[q]
           M == PushFront(L, q, p)
           V == [W EXCEPT ![p] = q]
<1>1. /\ p # Null /\ f \in ProcPtr /\ f # p
      /\ f # Null => f \in Proc /\ W[f] = q /\ L.prev[f] = Null
  BY NullAssumption, QueueAssumption DEF LinksAgree, Links, ProcPtr
<1>2. M \in Links
  BY <1>1 DEF PushFront, Links, ProcPtr
<1>3. /\ M.next = [L.next EXCEPT ![p] = f]
      /\ M.prev = [r \in Proc |-> IF r = f THEN p ELSE IF r = p THEN Null ELSE L.prev[r]]
      /\ M.front = [L.front EXCEPT ![q] = p]
      /\ M.back = IF f = Null THEN [L.back EXCEPT ![q] = p] ELSE L.back
  BY DEF PushFront
<1>4. ASSUME NEW r \in Proc, V[r] \in Queue
      PROVE  /\ M.next[r] # Null => /\ V[M.next[r]] = V[r]
                                    /\ M.prev[M.next[r]] = r
             /\ M.prev[r] # Null => /\ V[M.prev[r]] = V[r]
                                    /\ M.next[M.prev[r]] = r
             /\ M.next[r] = Null => M.back[V[r]] = r
             /\ M.prev[r] = Null => M.front[V[r]] = r
  <2>1. CASE r = p
    BY <1>1, <1>3, <2>1, QueueAssumption DEF LinksAgree, Links, ProcPtr
  <2>2. CASE r # p
    <3>1. V[r] = W[r] /\ W[r] \in Queue
      BY <1>4, <2>2
    <3>2. M.next[r] = L.next[r] /\ L.next[r] # p /\ L.prev[r] # p
      BY <1>1, <1>3, <2>2, <3>1, QueueAssumption DEF LinksAgree, Links, ProcPtr
    <3> QED
      BY <1>1, <1>3, <2>2, <3>1, <3>2, NullAssumption, QueueAssumption
      DEF LinksAgree, Links, ProcPtr
  <2> QED BY <2>1, <2>2
<1>5. ASSUME NEW u \in Queue
      PROVE  /\ M.front[u] # Null => V[M.front[u]] = u /\ M.prev[M.front[u]] = Null
             /\ M.back[u] # Null => V[M.back[u]] = u /\ M.next[M.back[u]] = Null
             /\ M.front[u] = Null <=> M.back[u] = Null
  BY <1>1, <1>3, <1>5, NullAssumption, QueueAssumption DEF LinksAgree, Links, ProcPtr
<1> QED BY <1>2, <1>4, <1>5 DEF LinksAgree

(* Queue.remove of a member of q (schedule.d:25) keeps the links of all    *)
(* queues consistent and leaves the process in none.                       *)
LEMMA RemoveLinks ==
  ASSUME NEW L \in Links, NEW W \in [Proc -> Queue \cup {NoQueue}],
         LinksAgree(L, W),
         NEW q \in Queue, NEW p \in Proc, W[p] = q
  PROVE  /\ Remove(L, q, p) \in Links
         /\ LinksAgree(Remove(L, q, p), [W EXCEPT ![p] = NoQueue])
<1> DEFINE n == L.next[p]
           v == L.prev[p]
           M == Remove(L, q, p)
           V == [W EXCEPT ![p] = NoQueue]
<1>1. /\ p # Null /\ n \in ProcPtr /\ v \in ProcPtr
      /\ n # Null => n \in Proc /\ W[n] = q /\ L.prev[n] = p
      /\ v # Null => v \in Proc /\ W[v] = q /\ L.next[v] = p
      /\ n = Null => L.back[q] = p
      /\ v = Null => L.front[q] = p
  BY NullAssumption, QueueAssumption DEF LinksAgree, Links, ProcPtr
<1>2. M \in Links
  BY <1>1 DEF Remove, Links, ProcPtr
<1>3. /\ M.next = [r \in Proc |-> IF r = v THEN n ELSE L.next[r]]
      /\ M.prev = [r \in Proc |-> IF r = n THEN v ELSE L.prev[r]]
      /\ M.front = IF v = Null THEN [L.front EXCEPT ![q] = n] ELSE L.front
      /\ M.back = IF n = Null THEN [L.back EXCEPT ![q] = v] ELSE L.back
  BY DEF Remove
<1>4. ASSUME NEW r \in Proc, V[r] \in Queue
      PROVE  /\ M.next[r] # Null => /\ V[M.next[r]] = V[r]
                                    /\ M.prev[M.next[r]] = r
             /\ M.prev[r] # Null => /\ V[M.prev[r]] = V[r]
                                    /\ M.next[M.prev[r]] = r
             /\ M.next[r] = Null => M.back[V[r]] = r
             /\ M.prev[r] = Null => M.front[V[r]] = r
  <2>1. r # p /\ V[r] = W[r] /\ W[r] \in Queue
    BY <1>4, QueueAssumption
  <2>2. /\ r # v => M.next[r] = L.next[r] /\ L.next[r] # p
        /\ r = v => M.next[r] = n /\ r \in Proc /\ W[r] = q
        /\ r # n => M.prev[r] = L.prev[r] /\ L.prev[r] # p
        /\ r = n => M.prev[r] = v /\ W[r] = q
    BY <1>1, <1>3, <2>1, NullAssumption DEF LinksAgree, Links, ProcPtr
  <2>3. M.next[r] # Null => V[M.next[r]] = V[r] /\ M.prev[M.next[r]] = r
    BY <1>1, <1>3, <2>1, <2>2, NullAssumption DEF LinksAgree, Links, ProcPtr
  <2>4. M.prev[r] # Null => V[M.prev[r]] = V[r] /\ M.next[M.prev[r]] = r
    BY <1>1, <1>3, <2>1, <2>2, NullAssumption DEF LinksAgree, Links, ProcPtr
  <2>5. M.next[r] = Null => M.back[V[r]] = r
    BY <1>1, <1>3, <2>1, <2>2, NullAssumption DEF LinksAgree, Links, ProcPtr
  <2>6. M.prev[r] = Null => M.front[V[r]] = r
    BY <1>1, <1>3, <2>1, <2>2, NullAssumption DEF LinksAgree, Links, ProcPtr
  <2> QED BY <2>3, <2>4, <2>5, <2>6
<1>5. ASSUME NEW u \in Queue
      PROVE  /\ M.front[u] # Null => V[M.front[u]] = u /\ M.prev[M.front[u]] = Null
             /\ M.back[u] # Null => V[M.back[u]] = u /\ M.next[M.back[u]] = Null
             /\ M.front[u] = Null <=> M.back[u] = Null
  <2>1. CASE u = q
    BY <1>1, <1>3, <2>1, NullAssumption, QueueAssumption DEF LinksAgree, Links, ProcPtr
  <2>2. CASE u # q
    BY <1>1, <1>3, <2>2, NullAssumption, QueueAssumption DEF LinksAgree, Links, ProcPtr
  <2> QED BY <2>1, <2>2
<1> QED BY <1>2, <1>4, <1>5 DEF LinksAgree

-----------------------------------------------------------------------------
(* Walks.  That links agree locally does not exclude a member which no walk*)
(* reaches (a ring beside the queue).  It is excluded by a rank of every   *)
(* member: its distance from the front.                                    *)
Ranked(L, W, r) ==
  /\ \A p \in Proc : W[p] \in Queue =>
       /\ r[p] < L.size[W[p]]
       /\ L.next[p] # Null => r[L.next[p]] = r[p] + 1
       /\ L.next[p] = Null => r[p] + 1 = L.size[W[p]]
       /\ \A x \in Proc : W[x] = W[p] /\ r[x] = r[p] => x = p
  /\ \A q \in Queue :
       /\ L.front[q] # Null => r[L.front[q]] = 0
       /\ L.front[q] = Null <=> L.size[q] = 0

(* Queue.size counts the members.                                          *)
Counted(L, W) == \A q \in Queue : L.size[q] = Cardinality(Members(W, q))

InLine(L, W) == Counted(L, W) /\ \E r \in [Proc -> Nat] : Ranked(L, W, r)

(* A queue has finitely many members, because memory is finite.            *)
LEMMA MembersFinite ==
  ASSUME NEW W, NEW q
  PROVE  IsFiniteSet(Members(W, q)) /\ Cardinality(Members(W, q)) \in Nat
BY ProcAssumption, FS_Subset, FS_CardinalityType DEF Members

(* push_front and remove count what they do (schedule.d:22, 36).           *)
LEMMA PushFrontCounts ==
  ASSUME NEW L \in Links, NEW W \in [Proc -> Queue \cup {NoQueue}], Counted(L, W),
         NEW q \in Queue, NEW p \in Proc, W[p] = NoQueue
  PROVE  Counted(PushFront(L, q, p), [W EXCEPT ![p] = q])
<1> DEFINE V == [W EXCEPT ![p] = q]
<1> SUFFICES ASSUME NEW u \in Queue
             PROVE  PushFront(L, q, p).size[u] = Cardinality(Members(V, u))
  BY DEF Counted
<1>1. PushFront(L, q, p).size = [L.size EXCEPT ![q] = @ + 1] /\ L.size \in [Queue -> Int]
  BY DEF PushFront, Links
<1>2. L.size[u] = Cardinality(Members(W, u))
  BY DEF Counted
<1>3. CASE u = q
  <2>1. Members(V, u) = Members(W, u) \cup {p} /\ p \notin Members(W, u)
    BY <1>3, QueueAssumption DEF Members
  <2>2. Cardinality(Members(V, u)) = Cardinality(Members(W, u)) + 1
    BY <2>1, MembersFinite, FS_AddElement
  <2> QED BY <1>1, <1>2, <1>3, <2>2
<1>4. CASE u # q
  <2>1. Members(V, u) = Members(W, u)
    BY <1>4, QueueAssumption DEF Members
  <2> QED BY <1>1, <1>2, <1>4, <2>1
<1> QED BY <1>3, <1>4

(* remove counts the process out (schedule.d:36).                          *)
LEMMA RemoveCounts ==
  ASSUME NEW L \in Links, NEW W \in [Proc -> Queue \cup {NoQueue}], Counted(L, W),
         NEW q \in Queue, NEW p \in Proc, W[p] = q
  PROVE  Counted(Remove(L, q, p), [W EXCEPT ![p] = NoQueue])
<1> DEFINE V == [W EXCEPT ![p] = NoQueue]
<1> SUFFICES ASSUME NEW u \in Queue
             PROVE  Remove(L, q, p).size[u] = Cardinality(Members(V, u))
  BY DEF Counted
<1>1. Remove(L, q, p).size = [L.size EXCEPT ![q] = @ - 1] /\ L.size \in [Queue -> Int]
  BY DEF Remove, Links
<1>2. L.size[u] = Cardinality(Members(W, u))
  BY DEF Counted
<1>3. CASE u = q
  <2>1. Members(V, u) = Members(W, u) \ {p} /\ p \in Members(W, u)
    BY <1>3, QueueAssumption DEF Members
  <2>2. Cardinality(Members(W, u) \ {p}) = Cardinality(Members(W, u)) - 1
    BY <2>1, MembersFinite, FS_RemoveElement
  <2> QED BY <1>1, <1>2, <1>3, <2>1, <2>2
<1>4. CASE u # q
  <2>1. Members(V, u) = Members(W, u)
    BY <1>4, QueueAssumption DEF Members
  <2> QED BY <1>1, <1>2, <1>4, <2>1
<1> QED BY <1>3, <1>4

(* push_front moves every member of the queue one place back.              *)
LEMMA PushFrontInLine ==
  ASSUME NEW L \in Links, NEW W \in [Proc -> Queue \cup {NoQueue}],
         LinksAgree(L, W), InLine(L, W),
         NEW q \in Queue, NEW p \in Proc, W[p] = NoQueue
  PROVE  InLine(PushFront(L, q, p), [W EXCEPT ![p] = q])
<1> DEFINE f == L.front[q]
           M == PushFront(L, q, p)
           V == [W EXCEPT ![p] = q]
<1>1. PICK r \in [Proc -> Nat] : Ranked(L, W, r)
  BY DEF InLine
<1> DEFINE s == [x \in Proc |-> IF x = p THEN 0 ELSE IF W[x] = q THEN r[x] + 1 ELSE r[x]]
<1>2. s \in [Proc -> Nat]
  OBVIOUS
<1>3. /\ M.next = [L.next EXCEPT ![p] = f] /\ M.front = [L.front EXCEPT ![q] = p]
      /\ M.size = [L.size EXCEPT ![q] = @ + 1]
      /\ L.size \in [Queue -> Int] /\ L.next \in [Proc -> ProcPtr] /\ L.front \in [Queue -> ProcPtr]
  BY DEF PushFront, Links
<1>4. /\ p # Null /\ f \in ProcPtr /\ f # p
      /\ f # Null => f \in Proc /\ W[f] = q /\ r[f] = 0
      /\ f = Null <=> L.size[q] = 0
  BY <1>1, <1>3, NullAssumption, QueueAssumption DEF LinksAgree, Ranked, ProcPtr
<1>5. L.size[q] \in Nat
  BY MembersFinite DEF InLine, Counted
<1>6. ASSUME NEW x \in Proc, V[x] \in Queue
      PROVE  /\ s[x] < M.size[V[x]]
             /\ M.next[x] # Null => s[M.next[x]] = s[x] + 1
             /\ M.next[x] = Null => s[x] + 1 = M.size[V[x]]
             /\ \A y \in Proc : V[y] = V[x] /\ s[y] = s[x] => y = x
  <2>1. CASE x = p
    <3>1. V[x] = q /\ M.size[q] = L.size[q] + 1 /\ s[x] = 0 /\ M.next[x] = f
      BY <1>3, <2>1
    <3>2. f # Null => s[f] = 1
      BY <1>4
    <3>3. \A y \in Proc : V[y] = q /\ y # p => s[y] = r[y] + 1 /\ r[y] \in Nat
      OBVIOUS
    <3> QED BY <1>4, <1>5, <2>1, <3>1, <3>2, <3>3
  <2>2. CASE x # p
    <3>1. V[x] = W[x] /\ W[x] \in Queue /\ M.next[x] = L.next[x]
      BY <1>3, <1>6, <2>2
    <3>2. /\ r[x] < L.size[W[x]]
          /\ L.next[x] # Null => r[L.next[x]] = r[x] + 1
          /\ L.next[x] = Null => r[x] + 1 = L.size[W[x]]
          /\ \A y \in Proc : W[y] = W[x] /\ r[y] = r[x] => y = x
      BY <1>1, <3>1 DEF Ranked
    <3>3. L.next[x] # Null => L.next[x] \in Proc /\ W[L.next[x]] = W[x] /\ L.next[x] # p
      BY <1>3, <3>1, QueueAssumption DEF LinksAgree, ProcPtr
    <3>4. M.size[W[x]] = IF W[x] = q THEN L.size[W[x]] + 1 ELSE L.size[W[x]]
      BY <1>3, <3>1
    <3>5. r[x] \in Nat /\ L.size[W[x]] \in Int
      BY <1>3, <3>1
    <3>6. s[x] = IF W[x] = q THEN r[x] + 1 ELSE r[x]
      BY <2>2
    <3>7. L.next[x] # Null => s[L.next[x]] = IF W[x] = q THEN r[L.next[x]] + 1 ELSE r[L.next[x]]
      BY <3>3
    <3>8. \A y \in Proc : V[y] = V[x] /\ s[y] = s[x] => y = x
      <4> SUFFICES ASSUME NEW y \in Proc, V[y] = V[x], s[y] = s[x] PROVE y = x
        OBVIOUS
      <4>1. CASE y = p
        <5>1. W[x] = q /\ s[y] = 0
          BY <3>1, <4>1
        <5> QED BY <3>5, <3>6, <5>1
      <4>2. CASE y # p
        <5>1. W[y] = W[x] /\ s[y] = (IF W[x] = q THEN r[y] + 1 ELSE r[y]) /\ r[y] \in Nat
          BY <3>1, <4>2
        <5>2. r[y] = r[x]
          BY <3>5, <3>6, <5>1
        <5> QED BY <3>2, <5>1, <5>2
      <4> QED BY <4>1, <4>2
    <3> HIDE DEF s, M, V
    <3> QED BY <3>1, <3>2, <3>4, <3>5, <3>6, <3>7, <3>8
  <2> QED BY <2>1, <2>2
<1>7. ASSUME NEW u \in Queue
      PROVE  /\ M.front[u] # Null => s[M.front[u]] = 0
             /\ M.front[u] = Null <=> M.size[u] = 0
  <2>1. CASE u = q
    BY <1>3, <1>4, <1>5, <2>1
  <2>2. CASE u # q
    <3>1. M.front[u] = L.front[u] /\ M.size[u] = L.size[u]
      BY <1>3, <2>2
    <3>2. L.front[u] # Null => r[L.front[u]] = 0 /\ L.front[u] \in Proc /\ W[L.front[u]] = u
      BY <1>1, <1>3 DEF Ranked, LinksAgree, ProcPtr
    <3>3. L.front[u] # Null => L.front[u] # p
      BY <3>2, QueueAssumption
    <3> QED BY <1>1, <2>2, <3>1, <3>2, <3>3 DEF Ranked
  <2> QED BY <2>1, <2>2
<1>8. Ranked(M, V, s)
  <2> HIDE DEF s, M, V
  <2> QED BY <1>6, <1>7 DEF Ranked
<1>9. Counted(M, V)
  BY PushFrontCounts DEF InLine
<1> HIDE DEF s, M, V
<1>10. InLine(M, V)
  BY <1>2, <1>8, <1>9 DEF InLine
<1> QED BY <1>10 DEF M, V

(* remove moves every member behind p one place towards the front.         *)
LEMMA RemoveInLine ==
  ASSUME NEW L \in Links, NEW W \in [Proc -> Queue \cup {NoQueue}],
         LinksAgree(L, W), InLine(L, W),
         NEW q \in Queue, NEW p \in Proc, W[p] = q
  PROVE  InLine(Remove(L, q, p), [W EXCEPT ![p] = NoQueue])
<1> DEFINE n == L.next[p]
           v == L.prev[p]
           M == Remove(L, q, p)
           V == [W EXCEPT ![p] = NoQueue]
<1>1. PICK r \in [Proc -> Nat] : Ranked(L, W, r)
  BY DEF InLine
<1> DEFINE s == [x \in Proc |-> IF W[x] = q /\ r[x] > r[p] THEN r[x] - 1 ELSE r[x]]
<1>2. s \in [Proc -> Nat]
  <2> SUFFICES ASSUME NEW x \in Proc PROVE s[x] \in Nat
    OBVIOUS
  <2>1. r[x] \in Nat /\ r[p] \in Nat
    OBVIOUS
  <2> QED BY <2>1
<1>3. /\ M.next = [x \in Proc |-> IF x = v THEN n ELSE L.next[x]]
      /\ M.front = IF v = Null THEN [L.front EXCEPT ![q] = n] ELSE L.front
      /\ M.size = [L.size EXCEPT ![q] = @ - 1]
      /\ L.size \in [Queue -> Int] /\ L.next \in [Proc -> ProcPtr] /\ L.front \in [Queue -> ProcPtr]
      /\ L.prev \in [Proc -> ProcPtr]
  BY DEF Remove, Links
<1>4. /\ n # Null => n \in Proc /\ W[n] = q /\ r[n] = r[p] + 1
      /\ v # Null => v \in Proc /\ W[v] = q /\ L.next[v] = p /\ r[p] = r[v] + 1
      /\ v = Null => L.front[q] = p
      /\ n = Null => r[p] + 1 = L.size[q]
      /\ r[p] < L.size[q] /\ r[p] \in Nat /\ L.size[q] \in Int
      /\ \A x \in Proc : W[x] = q /\ r[x] = r[p] => x = p
  <2>1. /\ n # Null => n \in Proc /\ W[n] = q
        /\ v # Null => v \in Proc /\ W[v] = q /\ L.next[v] = p
        /\ v = Null => L.front[q] = p
    BY <1>3 DEF LinksAgree, ProcPtr
  <2>2. p # Null
    BY NullAssumption
  <2>3. v # Null => r[L.next[v]] = r[v] + 1
    BY <1>1, <2>1, <2>2 DEF Ranked
  <2>4. /\ n # Null => r[n] = r[p] + 1
        /\ n = Null => r[p] + 1 = L.size[q]
        /\ r[p] < L.size[q]
        /\ \A x \in Proc : W[x] = q /\ r[x] = r[p] => x = p
    BY <1>1 DEF Ranked
  <2> QED BY <1>3, <2>1, <2>3, <2>4
<1>5. \A x \in Proc : s[x] = (IF W[x] = q /\ r[x] > r[p] THEN r[x] - 1 ELSE r[x]) /\ r[x] \in Nat
  OBVIOUS
<1> HIDE DEF s
<1>6. ASSUME NEW x \in Proc, V[x] \in Queue
      PROVE  /\ s[x] < M.size[V[x]]
             /\ M.next[x] # Null => s[M.next[x]] = s[x] + 1
             /\ M.next[x] = Null => s[x] + 1 = M.size[V[x]]
             /\ \A y \in Proc : V[y] = V[x] /\ s[y] = s[x] => y = x
  <2>1. x # p /\ V[x] = W[x] /\ W[x] \in Queue
    BY <1>6, QueueAssumption
  <2>2. /\ r[x] < L.size[W[x]]
        /\ L.next[x] # Null => r[L.next[x]] = r[x] + 1
        /\ L.next[x] = Null => r[x] + 1 = L.size[W[x]]
        /\ \A y \in Proc : W[y] = W[x] /\ r[y] = r[x] => y = x
    BY <1>1, <2>1 DEF Ranked
  <2>3. /\ L.next[x] # Null => /\ L.next[x] \in Proc /\ W[L.next[x]] = W[x]
                               /\ L.prev[L.next[x]] = x
        /\ M.next[x] = IF x = v THEN n ELSE L.next[x]
        /\ r[x] \in Nat /\ L.size[W[x]] \in Int
    BY <1>3, <1>5, <2>1 DEF LinksAgree, ProcPtr
  <2>4. x # v => L.next[x] # p
    BY <2>3, NullAssumption
  <2>5. M.size[W[x]] = IF W[x] = q THEN L.size[W[x]] - 1 ELSE L.size[W[x]]
    BY <1>3, <2>1
  <2>6. W[x] = q => r[x] # r[p]
    BY <1>4, <2>1
  <2>7. CASE W[x] # q
    <3>1. x # v /\ s[x] = r[x]
      BY <1>4, <1>5, <2>1, <2>7, NullAssumption
    <3>2. L.next[x] # Null => s[L.next[x]] = r[L.next[x]]
      BY <1>5, <2>3, <2>7
    <3>3. \A y \in Proc : V[y] = V[x] => W[y] = W[x] /\ s[y] = r[y]
      BY <1>5, <2>1, <2>7, QueueAssumption
    <3> HIDE DEF M, V
    <3> QED BY <2>1, <2>2, <2>3, <2>5, <2>7, <3>1, <3>2, <3>3
  <2>8. CASE W[x] = q
    <3>1. s[x] = IF r[x] > r[p] THEN r[x] - 1 ELSE r[x]
      BY <1>5, <2>8
    <3>2. s[x] < M.size[q]
      <4>1. r[x] < L.size[q] /\ M.size[q] = L.size[q] - 1
        BY <2>2, <2>5, <2>8
      <4> QED BY <1>4, <2>3, <2>6, <2>8, <3>1, <4>1
    <3>3. M.next[x] # Null => s[M.next[x]] = s[x] + 1
      <4>1. CASE x = v
        <5>1. v # Null /\ M.next[x] = n
          BY <2>3, <4>1, NullAssumption
        <5>2. s[x] = r[x] /\ r[p] = r[x] + 1
          BY <1>4, <2>3, <3>1, <4>1, <5>1
        <5>3. n # Null => s[n] = r[n] - 1 /\ r[n] = r[p] + 1
          BY <1>4, <1>5
        <5> QED BY <1>4, <2>3, <5>1, <5>2, <5>3
      <4>2. CASE x # v
        <5> SUFFICES ASSUME L.next[x] # Null PROVE s[L.next[x]] = s[x] + 1
          BY <2>3, <4>2
        <5> DEFINE y == L.next[x]
        <5>1. y \in Proc /\ W[y] = q /\ y # p /\ r[y] = r[x] + 1
          BY <2>2, <2>3, <2>4, <2>8, <4>2
        <5>2. r[y] # r[p] /\ s[y] = (IF r[y] > r[p] THEN r[y] - 1 ELSE r[y])
          BY <1>4, <1>5, <5>1
        <5> HIDE DEF y
        <5>3. s[y] = s[x] + 1
          BY <1>4, <2>3, <2>6, <2>8, <3>1, <5>1, <5>2
        <5> QED BY <5>3 DEF y
      <4> QED BY <4>1, <4>2
    <3>4. M.next[x] = Null => s[x] + 1 = M.size[q]
      <4> SUFFICES ASSUME M.next[x] = Null PROVE s[x] + 1 = M.size[q]
        OBVIOUS
      <4>0. M.size[q] = L.size[q] - 1
        BY <2>5, <2>8
      <4>1. CASE x = v
        <5>1. v # Null /\ n = Null
          BY <2>3, <4>1, NullAssumption
        <5> QED BY <1>4, <2>3, <3>1, <4>0, <4>1, <5>1
      <4>2. CASE x # v
        <5>1. r[x] + 1 = L.size[q]
          BY <2>2, <2>3, <2>8, <4>2
        <5> QED BY <1>4, <2>3, <2>6, <2>8, <3>1, <4>0, <5>1
      <4> QED BY <4>1, <4>2
    <3>5. ASSUME NEW y \in Proc, V[y] = V[x], s[y] = s[x] PROVE y = x
      <4>1. y # p /\ W[y] = q
        BY <2>1, <2>8, <3>5, QueueAssumption
      <4>2. r[y] # r[p] /\ r[y] \in Nat /\ s[y] = (IF r[y] > r[p] THEN r[y] - 1 ELSE r[y])
        BY <1>4, <1>5, <4>1
      <4>3. r[y] = r[x]
        BY <1>4, <2>3, <2>6, <2>8, <3>1, <3>5, <4>2
      <4> QED BY <2>2, <2>8, <4>1, <4>3
    <3> HIDE DEF M, V
    <3> QED BY <2>1, <2>8, <3>2, <3>3, <3>4, <3>5
  <2> QED BY <2>7, <2>8
<1>7. ASSUME NEW u \in Queue
      PROVE  /\ M.front[u] # Null => s[M.front[u]] = 0
             /\ M.front[u] = Null <=> M.size[u] = 0
  <2>1. /\ L.front[u] # Null => /\ r[L.front[u]] = 0 /\ L.front[u] \in Proc
                                /\ W[L.front[u]] = u
        /\ L.front[u] = Null <=> L.size[u] = 0
    BY <1>1, <1>3 DEF Ranked, LinksAgree, ProcPtr
  <2>2. CASE u # q
    <3>1. M.front[u] = L.front[u] /\ M.size[u] = L.size[u]
      BY <1>3, <2>2
    <3> QED BY <1>5, <2>1, <2>2, <3>1
  <2>3. CASE u = q
    <3>1. M.size[u] = L.size[q] - 1
      BY <1>3, <2>3
    <3>2. CASE v = Null
      <4>1. M.front[u] = n /\ r[p] = 0
        BY <1>3, <1>4, <2>1, <2>3, <3>2, NullAssumption
      <4>2. n # Null => s[n] = 0 /\ r[n] = 1
        BY <1>4, <1>5, <4>1
      <4>3. n # Null => r[n] < L.size[q]
        BY <1>1, <1>4 DEF Ranked
      <4> QED BY <1>4, <3>1, <4>1, <4>2, <4>3
    <3>3. CASE v # Null
      <4>1. M.front[u] = L.front[q]
        BY <1>3, <2>3, <3>3
      <4>2. r[p] # 0 /\ L.size[q] > 1
        BY <1>4, <1>5, <3>3
      <4>3. L.front[q] # Null /\ r[L.front[q]] = 0 /\ L.front[q] \in Proc
        BY <1>4, <2>1, <2>3, <4>2
      <4>4. s[L.front[q]] = 0
        BY <1>4, <1>5, <4>2, <4>3
      <4> QED BY <1>4, <3>1, <4>1, <4>2, <4>3, <4>4
    <3> QED BY <3>2, <3>3
  <2> QED BY <2>2, <2>3
<1>8. Ranked(M, V, s)
  <2> HIDE DEF M, V
  <2> QED BY <1>6, <1>7 DEF Ranked
<1>9. Counted(M, V)
  BY RemoveCounts DEF InLine
<1> HIDE DEF M, V
<1>10. InLine(M, V)
  BY <1>2, <1>8, <1>9 DEF InLine
<1> QED BY <1>10 DEF M, V

(* The recursive function in Nth exists: it takes one link per number.     *)
LEMMA NthWalks ==
  ASSUME NEW L, NEW q
  PROVE  Nth(L, q) = [m \in 0 .. Cardinality(Proc) |->
                        IF m = 0 THEN L.front[q]
                        ELSE IF Nth(L, q)[m - 1] = Null THEN Null
                        ELSE L.next[Nth(L, q)[m - 1]]]
<1> DEFINE After(p) == IF p = Null THEN Null ELSE L.next[p]
           Is(g, n) == g = [m \in 0 .. n |-> IF m = 0 THEN L.front[q] ELSE After(g[m - 1])]
           D == {n \in Nat : \E g : Is(g, n)}
<1>1. 0 \in D
  <2> DEFINE g == [m \in 0 .. 0 |-> L.front[q]]
  <2>1. Is(g, 0)
    OBVIOUS
  <2> QED BY <2>1
<1> HIDE DEF After
<1>2. ASSUME NEW n \in D PROVE n + 1 \in D
  <2>1. PICK g : Is(g, n)
    BY <1>2
  <2> DEFINE h == [m \in 0 .. (n + 1) |-> IF m = n + 1 THEN After(g[n]) ELSE g[m]]
  <2>2. ASSUME NEW m \in 0 .. (n + 1)
        PROVE  h[m] = IF m = 0 THEN L.front[q] ELSE After(h[m - 1])
    <3>1. CASE m = n + 1
      BY <3>1
    <3>2. CASE m # n + 1
      <4>1. m \in 0 .. n /\ h[m] = g[m]
        BY <3>2
      <4>2. g[m] = IF m = 0 THEN L.front[q] ELSE After(g[m - 1])
        BY <2>1, <4>1
      <4>3. m # 0 => h[m - 1] = g[m - 1]
        BY <4>1
      <4> QED BY <4>1, <4>2, <4>3
    <3> QED BY <3>1, <3>2
  <2>3. Is(h, n + 1)
    BY <2>2
  <2>4. n + 1 \in Nat
    OBVIOUS
  <2> HIDE DEF h
  <2> QED BY <2>3, <2>4
<1>3. D = Nat
  <2> HIDE DEF D
  <2>1. D \in SUBSET Nat
    BY DEF D
  <2> QED BY <1>1, <1>2, <2>1, Closed
<1>4. Cardinality(Proc) \in Nat
  BY ProcAssumption, FS_CardinalityType
<1>5. \E g : Is(g, Cardinality(Proc))
  BY <1>3, <1>4
<1>6. Nth(L, q) = CHOOSE g : Is(g, Cardinality(Proc))
  BY DEF Nth, After
<1> HIDE DEF Is
<1>7. Is(Nth(L, q), Cardinality(Proc))
  BY <1>5, <1>6
<1> QED BY <1>7 DEF Is, After

(* When the members of every queue are in line, a walk from the front      *)
(* meets each of them, at its rank, and ends.                              *)
LEMMA WalkMeets ==
  ASSUME NEW L \in Links, NEW W \in [Proc -> Queue \cup {NoQueue}],
         LinksAgree(L, W), InLine(L, W)
  PROVE  WalkMeetsMembers(L, W)
<1> SUFFICES ASSUME NEW q \in Queue
             PROVE  /\ {Nth(L, q)[n] : n \in 0 .. Cardinality(Members(W, q)) - 1} = Members(W, q)
                    /\ Nth(L, q)[Cardinality(Members(W, q))] = Null
                    /\ L.size[q] = Cardinality(Members(W, q))
  BY DEF WalkMeetsMembers
<1> DEFINE k == Cardinality(Members(W, q))
           nth == Nth(L, q)
<1>1. L.size[q] = k /\ k \in Nat
  BY MembersFinite DEF InLine, Counted
<1>2. PICK r \in [Proc -> Nat] : Ranked(L, W, r)
  BY DEF InLine
<1>3. k <= Cardinality(Proc) /\ Cardinality(Proc) \in Nat
  BY ProcAssumption, FS_Subset, FS_CardinalityType DEF Members
<1>4. /\ nth[0] = L.front[q]
      /\ \A m \in Nat : m + 1 <= k =>
            nth[m + 1] = IF nth[m] = Null THEN Null ELSE L.next[nth[m]]
  <2>1. nth = [m \in 0 .. Cardinality(Proc) |->
                 IF m = 0 THEN L.front[q]
                 ELSE IF nth[m - 1] = Null THEN Null ELSE L.next[nth[m - 1]]]
    BY NthWalks
  <2> HIDE DEF nth
  <2>2. nth[0] = L.front[q]
    BY <1>3, <2>1
  <2>3. ASSUME NEW m \in Nat, m + 1 <= k
        PROVE  nth[m + 1] = IF nth[m] = Null THEN Null ELSE L.next[nth[m]]
    <3>1. m + 1 \in 0 .. Cardinality(Proc) /\ m + 1 # 0 /\ (m + 1) - 1 = m
      BY <1>1, <1>3, <2>3
    <3>2. \A j \in 0 .. Cardinality(Proc) :
            nth[j] = IF j = 0 THEN L.front[q]
                     ELSE IF nth[j - 1] = Null THEN Null ELSE L.next[nth[j - 1]]
      BY <2>1
    <3>3. nth[m + 1] = IF m + 1 = 0 THEN L.front[q]
                       ELSE IF nth[(m + 1) - 1] = Null THEN Null ELSE L.next[nth[(m + 1) - 1]]
      BY <3>1, <3>2
    <3> QED BY <3>1, <3>3
  <2> QED BY <2>2, <2>3
<1> HIDE DEF nth, k
<1>5. ASSUME NEW p \in Proc, W[p] = q
      PROVE  /\ r[p] \in Nat /\ r[p] < k
             /\ L.next[p] # Null => /\ L.next[p] \in Proc /\ W[L.next[p]] = q
                                    /\ r[L.next[p]] = r[p] + 1
             /\ L.next[p] = Null => r[p] + 1 = k
             /\ L.prev[p] # Null => /\ L.prev[p] \in Proc /\ W[L.prev[p]] = q
                                    /\ L.next[L.prev[p]] = p /\ r[p] = r[L.prev[p]] + 1
             /\ L.prev[p] = Null => L.front[q] = p /\ r[p] = 0
  <2>0. p # Null /\ L.next \in [Proc -> ProcPtr] /\ L.prev \in [Proc -> ProcPtr]
    BY NullAssumption DEF Links
  <2>1. /\ L.next[p] # Null => L.next[p] \in Proc /\ W[L.next[p]] = q
        /\ L.prev[p] # Null => /\ L.prev[p] \in Proc /\ W[L.prev[p]] = q
                               /\ L.next[L.prev[p]] = p
        /\ L.prev[p] = Null => L.front[q] = p
    BY <1>5, <2>0 DEF LinksAgree, ProcPtr
  <2>2. /\ r[p] < k
        /\ L.next[p] # Null => r[L.next[p]] = r[p] + 1
        /\ L.next[p] = Null => r[p] + 1 = k
    BY <1>1, <1>2, <1>5 DEF Ranked
  <2>3. L.prev[p] # Null => r[L.next[L.prev[p]]] = r[L.prev[p]] + 1
    BY <1>2, <2>0, <2>1 DEF Ranked
  <2>4. L.prev[p] = Null => r[p] = 0
    BY <1>2, <2>0, <2>1 DEF Ranked
  <2> QED BY <2>1, <2>2, <2>3, <2>4
<1>6. /\ L.front[q] # Null => L.front[q] \in Proc /\ W[L.front[q]] = q /\ r[L.front[q]] = 0
      /\ L.front[q] = Null <=> k = 0
  BY <1>1, <1>2 DEF Ranked, LinksAgree, Links, ProcPtr
<1> DEFINE At(m) == /\ m < k => nth[m] \in Proc /\ W[nth[m]] = q /\ r[nth[m]] = m
                    /\ m = k => nth[m] = Null
                    /\ \A p \in Proc : W[p] = q /\ r[p] = m => nth[m] = p
           D == {m \in Nat : m <= k => At(m)}
<1>7. 0 \in D
  <2>1. ASSUME NEW p \in Proc, W[p] = q, r[p] = 0 PROVE nth[0] = p
    <3>1. L.prev[p] = Null
      BY <1>2, <1>5, <2>1
    <3> QED BY <1>4, <1>5, <2>1, <3>1
  <2>2. At(0)
    BY <1>1, <1>4, <1>6, <2>1
  <2> QED BY <2>2
<1>8. ASSUME NEW m \in D PROVE m + 1 \in D
  <2> SUFFICES ASSUME m + 1 <= k PROVE At(m + 1)
    OBVIOUS
  <2>1. m \in Nat /\ m < k /\ At(m)
    BY <1>1
  <2>2. nth[m] \in Proc /\ W[nth[m]] = q /\ r[nth[m]] = m /\ nth[m] # Null
    BY <2>1, NullAssumption
  <2>3. nth[m + 1] = L.next[nth[m]]
    BY <1>4, <2>1, <2>2
  <2>4. m + 1 < k => nth[m + 1] \in Proc /\ W[nth[m + 1]] = q /\ r[nth[m + 1]] = m + 1
    BY <1>1, <1>5, <2>1, <2>2, <2>3
  <2>5. m + 1 = k => nth[m + 1] = Null
    BY <1>1, <1>5, <2>1, <2>2, <2>3
  <2>6. ASSUME NEW p \in Proc, W[p] = q, r[p] = m + 1 PROVE nth[m + 1] = p
    <3>1. L.prev[p] # Null
      BY <1>5, <2>1, <2>6
    <3>2. L.prev[p] \in Proc /\ W[L.prev[p]] = q /\ L.next[L.prev[p]] = p
          /\ m + 1 = r[L.prev[p]] + 1 /\ r[L.prev[p]] \in Nat
      BY <1>5, <2>6, <3>1
    <3>3. r[L.prev[p]] = m
      BY <2>1, <3>2
    <3>4. nth[m] = L.prev[p]
      BY <2>1, <3>2, <3>3
    <3> QED BY <2>3, <3>2, <3>4
  <2> QED BY <2>4, <2>5, <2>6
<1>9. D = Nat
  <2>1. D \in SUBSET Nat
    OBVIOUS
  <2> HIDE DEF D
  <2> QED BY <1>7, <1>8, <2>1, Closed
<1>10. \A m \in Nat : m <= k => At(m)
  BY <1>9
<1>11. nth[k] = Null
  BY <1>1, <1>10
<1>12. ASSUME NEW m \in 0 .. k - 1 PROVE nth[m] \in Members(W, q)
  BY <1>1, <1>10 DEF Members
<1>13. ASSUME NEW p \in Members(W, q) PROVE \E m \in 0 .. k - 1 : nth[m] = p
  <2>1. p \in Proc /\ W[p] = q
    BY DEF Members
  <2>2. r[p] \in 0 .. k - 1 /\ r[p] \in Nat /\ r[p] <= k
    BY <1>1, <1>5, <2>1
  <2> QED BY <1>10, <2>1, <2>2
<1>14. {nth[m] : m \in 0 .. k - 1} = Members(W, q)
  BY <1>12, <1>13
<1> QED BY <1>1, <1>11, <1>14 DEF nth, k

-----------------------------------------------------------------------------
(* The inductive invariant.  A process in a queue other than runq says so  *)
(* in wq, freed memory keeps the state exited that its last Proc had, and  *)
(* the walk of sys_wait is the only thing going on while it lasts.         *)
StateAgrees ==
  /\ \A p \in live : /\ state[p] = "blocked" => wq[p] \in {"ticks_queue", "wait_queue"}
                     /\ state[p] = "exited" => wq[p] = "exit_queue"
                     /\ state[p] # "exited" => pc[p] # "exited"
  /\ \A p \in Proc \ live : state[p] = "exited"
  /\ cur # Null => cur \in live /\ state[cur] = "runnable"
  /\ cur # Null /\ inirq => pc[cur] = "user"
  /\ zombie # Null => /\ cur # Null /\ pc[cur] = "scan"
                      /\ Where[zombie] = "exit_queue"

QueuesInLine == InLine(links, Where)

IInv == TypeOK /\ QueuesConsistent /\ QueuesInLine /\ StateAgrees

(* What Where says of a process.                                           *)
LEMMA WhereType ==
  ASSUME TypeOK
  PROVE  /\ Where \in [Proc -> Queue \cup {NoQueue}]
         /\ \A p \in Proc : Where[p] \in Queue => p \in live /\ p # cur
BY QueueNames, QueueAssumption DEF TypeOK, Where

(* A process that waits in a queue other than runq is not runnable.        *)
LEMMA WhereState ==
  ASSUME TypeOK, StateAgrees, NEW p \in Proc
  PROVE  /\ Where[p] = "runq" => state[p] = "runnable"
         /\ Where[p] \in {"ticks_queue", "wait_queue"} => state[p] = "blocked"
         /\ Where[p] = "exit_queue" => state[p] = "exited"
BY QueueNames, QueueAssumption DEF TypeOK, StateAgrees, Where, ProcState, NoQueue

(* Initially the one process is on runq and everything agrees (kmain).     *)
LEMMA InitIInv == Init => IInv
<1> SUFFICES ASSUME Init PROVE IInv OBVIOUS
<1>1. PICK p \in Proc :
        /\ live = {p}
        /\ state = [r \in Proc |-> IF r = p THEN "runnable" ELSE "exited"]
        /\ links = PushFront(EmptyLinks, "runq", p)
        /\ wq = [r \in Proc |-> NoQueue]
        /\ pc = [r \in Proc |-> "user"]
        /\ parent = [r \in Proc |-> Null] /\ children = [r \in Proc |-> 0]
        /\ left = [r \in Proc |-> 0] /\ kids = [r \in Proc |-> {}]
        /\ cur = Null /\ zombie = Null /\ inirq = FALSE
  BY DEF Init
<1> DEFINE W == [r \in Proc |-> NoQueue]
<1>2. EmptyLinks \in Links /\ LinksAgree(EmptyLinks, W)
  BY QueueAssumption DEF EmptyLinks, Links, LinksAgree, ProcPtr
<1>3. InLine(EmptyLinks, W)
  <2>1. \A q \in Queue : Members(W, q) = {}
    BY QueueAssumption DEF Members
  <2>2. Counted(EmptyLinks, W)
    BY <2>1, FS_EmptySet DEF Counted, EmptyLinks
  <2> DEFINE zero == [r \in Proc |-> 0]
  <2>3. zero \in [Proc -> Nat] /\ Ranked(EmptyLinks, W, zero)
    BY QueueAssumption DEF Ranked, EmptyLinks
  <2> QED BY <2>2, <2>3 DEF InLine
<1>4. /\ links \in Links /\ LinksAgree(links, [W EXCEPT ![p] = "runq"])
      /\ InLine(links, [W EXCEPT ![p] = "runq"])
  BY <1>1, <1>2, <1>3, PushFrontLinks, PushFrontInLine, QueueNames
<1>5. Where = [W EXCEPT ![p] = "runq"]
  BY <1>1, NullAssumption DEF Where
<1>6. TypeOK
  <2>1. 0 \in Int /\ 0 \in 0 .. MaxSleep
    BY MaxSleepAssumption
  <2> QED
    BY <1>1, <1>4, <2>1 DEF TypeOK, ProcPtr, ProcState, Location
<1>7. StateAgrees
  BY <1>1 DEF StateAgrees
<1> QED BY <1>4, <1>5, <1>6, <1>7 DEF IInv, QueuesConsistent, QueuesInLine

(* runnable_proc takes the back of runq, a runnable process.               *)
LEMMA DispatchIInv == IInv /\ Dispatch => IInv'
<1> SUFFICES ASSUME IInv, Dispatch PROVE IInv' OBVIOUS
<1> USE DEF IInv
<1> DEFINE p == links.back["runq"]
<1>1. p \in Proc /\ Where[p] = "runq" /\ cur = Null /\ cur' = p
  BY QueueNames DEF Dispatch, QueuesConsistent, LinksAgree, TypeOK, Links, ProcPtr
<1>2. p \in live /\ state[p] = "runnable"
  BY <1>1, WhereType, WhereState, QueueNames
<1>3. Where' = [Where EXCEPT ![p] = NoQueue]
  BY <1>1, <1>2, NullAssumption DEF Where, Dispatch, TypeOK
<1>4. links' \in Links /\ LinksAgree(links', Where') /\ InLine(links', Where')
  BY <1>1, <1>3, WhereType, RemoveLinks, RemoveInLine, QueueNames
  DEF Dispatch, QueuesConsistent, QueuesInLine, TypeOK
<1>5. TypeOK'
  BY <1>1, <1>4 DEF TypeOK, Dispatch, ProcPtr
<1>6. StateAgrees'
  BY <1>1, <1>2 DEF StateAgrees, Dispatch, Where
<1> QED BY <1>4, <1>5, <1>6 DEF QueuesConsistent, QueuesInLine

(* sys_fork puts the new process, which was in no queue, on runq.          *)
LEMMA ForkIInv ==
  ASSUME IInv, NEW p \in Proc, NEW c \in Proc, Fork(p, c)
  PROVE  IInv'
<1> USE DEF IInv
<1>1. p = cur /\ p \in live /\ c # p /\ c \notin live /\ Where[c] = NoQueue
  BY NullAssumption DEF Fork, InUser, StateAgrees, Where
<1>2. Where' = [Where EXCEPT ![c] = "runq"]
  BY <1>1 DEF Where, Fork, TypeOK
<1>3. links' \in Links /\ LinksAgree(links', Where') /\ InLine(links', Where')
  BY <1>1, <1>2, WhereType, PushFrontLinks, PushFrontInLine, QueueNames
  DEF Fork, QueuesConsistent, QueuesInLine, TypeOK
<1>4. TypeOK'
  <2>1. children' \in [Proc -> Int]
    BY DEF TypeOK, Fork
  <2>2. left' \in [Proc -> 0 .. MaxSleep]
    BY MaxSleepAssumption DEF TypeOK, Fork
  <2> QED
    BY <1>1, <1>3, <2>1, <2>2 DEF TypeOK, Fork, ProcPtr, ProcState, Location
<1>5. zombie = Null /\ zombie' = Null
  BY <1>1 DEF Fork, InUser, StateAgrees
<1>6. StateAgrees'
  BY <1>1, <1>5, NullAssumption DEF StateAgrees, Fork, InUser, TypeOK
<1> QED BY <1>3, <1>4, <1>6 DEF QueuesConsistent, QueuesInLine

(* Blocking the current process (proc.d:189, Proc.wait) puts it, which is  *)
(* in no queue, into q.                                                    *)
LEMMA BlockLinks ==
  ASSUME IInv, NEW p \in Proc, p = cur, NEW q \in {"ticks_queue", "wait_queue"},
         BlockAndYield(p, q), live' = live
  PROVE  /\ links' \in Links /\ LinksAgree(links', Where') /\ InLine(links', Where')
         /\ Where' = [Where EXCEPT ![p] = q]
<1> USE DEF IInv
<1>1. p \in live /\ Where[p] = NoQueue
  BY NullAssumption DEF StateAgrees, Where
<1>2. Where' = [Where EXCEPT ![p] = q]
  BY <1>1, NullAssumption DEF BlockAndYield, Where, TypeOK
<1> QED
  BY <1>1, <1>2, WhereType, PushFrontLinks, PushFrontInLine, QueueNames
  DEF BlockAndYield, QueuesConsistent, QueuesInLine, TypeOK

(* sys_wait: starting, or starting over, the walk at the front.            *)
LEMMA WaitStartIInv ==
  ASSUME IInv, NEW p \in Proc, WaitEnter(p) \/ WaitResume(p)
  PROVE  IInv'
<1> USE DEF IInv
<1>1. cur = p /\ p \in live /\ cur # Null /\ ~inirq
  BY NullAssumption DEF WaitEnter, WaitResume, InUser, StateAgrees
<1>2. Where' = Where
  BY DEF Where, WaitEnter, WaitResume
<1>3. zombie' \in ProcPtr /\ (zombie' # Null => Where[zombie'] = "exit_queue")
  BY QueueNames DEF WaitEnter, WaitResume, QueuesConsistent, LinksAgree, TypeOK, Links, ProcPtr
<1>4. TypeOK'
  BY <1>3 DEF TypeOK, WaitEnter, WaitResume, Location
<1>5. pc' = [pc EXCEPT ![p] = "scan"]
  BY DEF WaitEnter, WaitResume
<1>6. UNCHANGED <<live, state, wq, cur, inirq, links>>
  BY DEF WaitEnter, WaitResume
<1>7. StateAgrees'
  BY <1>1, <1>2, <1>3, <1>5, <1>6 DEF StateAgrees, TypeOK
<1> QED BY <1>2, <1>4, <1>6, <1>7 DEF QueuesConsistent, QueuesInLine

(* sys_wait: the walk goes on to the next member of exit_queue.            *)
LEMMA WaitSkipIInv ==
  ASSUME IInv, NEW p \in Proc, WaitSkip(p)
  PROVE  IInv'
<1> USE DEF IInv
<1>1. Where' = Where
  BY DEF Where, WaitSkip
<1>2. zombie' \in ProcPtr /\ (zombie' # Null => Where[zombie'] = "exit_queue")
  BY QueueNames DEF WaitSkip, QueuesConsistent, LinksAgree, StateAgrees, TypeOK, Links, ProcPtr
<1>3. TypeOK'
  BY <1>2 DEF TypeOK, WaitSkip
<1>4. StateAgrees'
  BY <1>1, <1>2, NullAssumption DEF StateAgrees, WaitSkip
<1> QED BY <1>1, <1>3, <1>4 DEF QueuesConsistent, QueuesInLine, WaitSkip

(* sys_wait: the zombie that is freed was on exit_queue, and is nowhere    *)
(* afterwards.                                                             *)
LEMMA WaitReapIInv ==
  ASSUME IInv, NEW p \in Proc, WaitReap(p)
  PROVE  IInv'
<1> USE DEF IInv
<1>1. /\ p = cur /\ zombie \in Proc /\ Where[zombie] = "exit_queue"
      /\ zombie \in live /\ zombie # p /\ state[zombie] = "exited" /\ ~inirq
  BY WhereType, WhereState, QueueNames, NullAssumption
  DEF WaitReap, StateAgrees, TypeOK, ProcPtr
<1>2. Where' = [Where EXCEPT ![zombie] = NoQueue]
  BY <1>1 DEF Where, WaitReap, TypeOK
<1>3. links' \in Links /\ LinksAgree(links', Where') /\ InLine(links', Where')
  BY <1>1, <1>2, WhereType, RemoveLinks, RemoveInLine, QueueNames
  DEF WaitReap, QueuesConsistent, QueuesInLine, TypeOK
<1>4. TypeOK'
  <2>1. children' \in [Proc -> Int]
    BY DEF TypeOK, WaitReap
  <2> QED
    BY <1>3, <2>1 DEF TypeOK, WaitReap, ProcPtr, Location
<1>5. StateAgrees'
  BY <1>1, NullAssumption DEF StateAgrees, WaitReap, TypeOK
<1> QED BY <1>3, <1>4, <1>5 DEF QueuesConsistent, QueuesInLine

(* sys_wait blocks with its walk ended.                                    *)
LEMMA WaitBlockIInv ==
  ASSUME IInv, NEW p \in Proc, WaitBlock(p)
  PROVE  IInv'
<1> USE DEF IInv
<1>1. p = cur /\ p \in live /\ zombie = Null
  BY NullAssumption DEF WaitBlock, StateAgrees
<1>2. links' \in Links /\ LinksAgree(links', Where') /\ InLine(links', Where')
  BY <1>1, BlockLinks DEF WaitBlock
<1>3. TypeOK'
  BY <1>2, QueueNames DEF TypeOK, WaitBlock, BlockAndYield, ProcPtr, ProcState, Location
<1>4. StateAgrees'
  BY <1>1 DEF StateAgrees, WaitBlock, BlockAndYield, TypeOK
<1> QED BY <1>2, <1>3, <1>4 DEF QueuesConsistent, QueuesInLine

(* sys_usleep blocks the caller on ticks_queue.                            *)
LEMMA UsleepIInv ==
  ASSUME IInv, NEW p \in Proc, NEW d \in 1 .. MaxSleep, Usleep(p, d)
  PROVE  IInv'
<1> USE DEF IInv
<1>1. p = cur /\ p \in live /\ zombie = Null
  BY NullAssumption DEF Usleep, InUser, StateAgrees
<1>2. links' \in Links /\ LinksAgree(links', Where') /\ InLine(links', Where')
  BY <1>1, BlockLinks DEF Usleep
<1>3. left' \in [Proc -> 0 .. MaxSleep]
  BY MaxSleepAssumption DEF TypeOK, Usleep
<1>4. TypeOK'
  BY <1>2, <1>3, QueueNames DEF TypeOK, Usleep, BlockAndYield, ProcPtr, ProcState, Location
<1>5. StateAgrees'
  BY <1>1 DEF StateAgrees, Usleep, BlockAndYield, TypeOK
<1> QED BY <1>2, <1>4, <1>5 DEF QueuesConsistent, QueuesInLine

(* sys_usleep, resumed, blocks again or returns.                           *)
LEMMA UsleepResumeIInv ==
  ASSUME IInv, NEW p \in Proc, UsleepResume(p)
  PROVE  IInv'
<1> USE DEF IInv
<1>1. p = cur /\ p \in live /\ zombie = Null /\ ~inirq
  BY NullAssumption DEF UsleepResume, StateAgrees
<1>2. CASE left[p] > 0 /\ BlockAndYield(p, "ticks_queue") /\ UNCHANGED pc
  <2>1. links' \in Links /\ LinksAgree(links', Where') /\ InLine(links', Where')
    BY <1>1, <1>2, BlockLinks DEF UsleepResume
  <2>2. TypeOK'
    BY <1>2, <2>1, QueueNames DEF TypeOK, UsleepResume, BlockAndYield, ProcPtr, ProcState
  <2>3. StateAgrees'
    BY <1>1, <1>2 DEF StateAgrees, UsleepResume, BlockAndYield, TypeOK
  <2> QED BY <2>1, <2>2, <2>3 DEF QueuesConsistent, QueuesInLine
<1>3. CASE pc' = [pc EXCEPT ![p] = "user"] /\ UNCHANGED <<state, wq, links, cur>>
  <2>1. Where' = Where
    BY <1>3 DEF Where, UsleepResume
  <2>2. TypeOK'
    BY <1>3 DEF TypeOK, UsleepResume, Location
  <2>3. StateAgrees'
    BY <1>1, <1>3, <2>1 DEF StateAgrees, UsleepResume, TypeOK
  <2> QED BY <1>3, <2>1, <2>2, <2>3 DEF QueuesConsistent, QueuesInLine
<1> QED BY <1>2, <1>3 DEF UsleepResume

(* Queue.wake moves a process that waits in q to runq.                     *)
LEMMA WakeLinks ==
  ASSUME NEW L \in Links, NEW W \in [Proc -> Queue \cup {NoQueue}],
         LinksAgree(L, W), InLine(L, W), NEW q \in Queue, NEW p \in Proc, W[p] = q
  PROVE  /\ Wake(L, q, p) \in Links
         /\ LinksAgree(Wake(L, q, p), [W EXCEPT ![p] = "runq"])
         /\ InLine(Wake(L, q, p), [W EXCEPT ![p] = "runq"])
<1> DEFINE V == [W EXCEPT ![p] = NoQueue]
<1>1. /\ V \in [Proc -> Queue \cup {NoQueue}] /\ V[p] = NoQueue
      /\ [V EXCEPT ![p] = "runq"] = [W EXCEPT ![p] = "runq"]
  OBVIOUS
<1>2. Remove(L, q, p) \in Links /\ LinksAgree(Remove(L, q, p), V) /\ InLine(Remove(L, q, p), V)
  BY RemoveLinks, RemoveInLine
<1> QED BY <1>1, <1>2, PushFrontLinks, PushFrontInLine, QueueNames DEF Wake

(* sys_exit: a parent that waits is really on wait_queue, even if the      *)
(* address was freed and reused, so waking it is sound.                    *)
LEMMA ExitIInv ==
  ASSUME IInv, NEW p \in Proc, Exit(p)
  PROVE  IInv'
<1> USE DEF IInv
<1> DEFINE r == parent[p]
           L == IF ParentWaits(p) THEN Wake(links, "wait_queue", r) ELSE links
           W == IF ParentWaits(p) THEN [Where EXCEPT ![r] = "runq"] ELSE Where
<1>1. p = cur /\ p \in live /\ state[p] = "runnable" /\ zombie = Null /\ Where[p] = NoQueue
  BY NullAssumption DEF Exit, InUser, StateAgrees, Where
<1>2. ParentWaits(p) => r \in Proc /\ r \in live /\ r # p /\ Where[r] = "wait_queue"
  BY <1>1 DEF ParentWaits, StateAgrees, TypeOK, ProcPtr, Where
<1>3. /\ L \in Links /\ W \in [Proc -> Queue \cup {NoQueue}] /\ W[p] = NoQueue
      /\ LinksAgree(L, W) /\ InLine(L, W)
  <2>1. CASE ParentWaits(p)
    BY <1>1, <1>2, <2>1, WhereType, WakeLinks, QueueNames
    DEF QueuesConsistent, QueuesInLine, TypeOK
  <2>2. CASE ~ParentWaits(p)
    BY <1>1, <2>2, WhereType DEF QueuesConsistent, QueuesInLine, TypeOK
  <2> QED BY <2>1, <2>2
<1>4. Where' = [W EXCEPT ![p] = "exit_queue"]
  BY <1>1, <1>2, NullAssumption DEF Exit, Where, TypeOK
<1>5. links' = PushFront(L, "exit_queue", p)
  BY DEF Exit
<1>6. links' \in Links /\ LinksAgree(links', Where') /\ InLine(links', Where')
  BY <1>3, <1>4, <1>5, PushFrontLinks, PushFrontInLine, QueueNames
<1>7. TypeOK'
  BY <1>6, QueueNames DEF TypeOK, Exit, ProcPtr, ProcState, Location
<1>8. StateAgrees'
  BY <1>1, <1>2 DEF StateAgrees, Exit, ParentWaits, TypeOK
<1> QED BY <1>6, <1>7, <1>8 DEF QueuesConsistent, QueuesInLine

(* Taking the timer interrupt changes no queue.                            *)
LEMMA TimerIrqIInv == IInv /\ TimerIrq => IInv'
<1> SUFFICES ASSUME IInv, TimerIrq PROVE IInv' OBVIOUS
<1> USE DEF IInv
<1>1. Where' = Where /\ zombie = Null
  BY DEF Where, TimerIrq, StateAgrees
<1>2. left' \in [Proc -> 0 .. MaxSleep]
  BY MaxSleepAssumption DEF TypeOK, TimerIrq
<1>3. TypeOK'
  BY <1>2 DEF TypeOK, TimerIrq
<1>4. StateAgrees'
  BY <1>1 DEF StateAgrees, TimerIrq
<1> QED BY <1>1, <1>3, <1>4 DEF QueuesConsistent, QueuesInLine, TimerIrq

(* wake_all wakes the front of ticks_queue, a blocked process.             *)
LEMMA WakeTickIInv == IInv /\ WakeTick => IInv'
<1> SUFFICES ASSUME IInv, WakeTick PROVE IInv' OBVIOUS
<1> USE DEF IInv
<1> DEFINE p == links.front["ticks_queue"]
<1>1. p \in Proc /\ Where[p] = "ticks_queue" /\ zombie = Null
  BY QueueNames
  DEF WakeTick, QueuesConsistent, LinksAgree, StateAgrees, TypeOK, Links, ProcPtr
<1>2. p \in live /\ p # cur /\ state[p] = "blocked"
  BY <1>1, WhereType, WhereState, QueueNames
<1>3. Where' = [Where EXCEPT ![p] = "runq"]
  BY <1>1, <1>2 DEF Where, WakeTick, TypeOK
<1>4. links' \in Links /\ LinksAgree(links', Where') /\ InLine(links', Where')
  BY <1>1, <1>3, WhereType, WakeLinks, QueueNames
  DEF WakeTick, QueuesConsistent, QueuesInLine, TypeOK
<1>5. TypeOK'
  BY <1>1, <1>4 DEF TypeOK, WakeTick, ProcState
<1>6. StateAgrees'
  BY <1>1, <1>2 DEF StateAgrees, WakeTick, TypeOK
<1> QED BY <1>4, <1>5, <1>6 DEF QueuesConsistent, QueuesInLine

(* The interrupted process, which was in no queue, goes back to runq.      *)
LEMMA IrqReturnIInv == IInv /\ IrqReturn => IInv'
<1> SUFFICES ASSUME IInv, IrqReturn PROVE IInv' OBVIOUS
<1> USE DEF IInv
<1>1. zombie = Null
  BY DEF IrqReturn, StateAgrees
<1>2. links' \in Links /\ LinksAgree(links', Where') /\ InLine(links', Where')
  <2>1. CASE cur = Null
    <3>1. Where' = Where
      BY <2>1 DEF Where, IrqReturn
    <3> QED BY <2>1, <3>1 DEF IrqReturn, QueuesConsistent, QueuesInLine, TypeOK
  <2>2. CASE cur # Null
    <3>1. cur \in Proc /\ cur \in live /\ state[cur] = "runnable" /\ Where[cur] = NoQueue
      BY <2>2 DEF StateAgrees, TypeOK, ProcPtr, Where
    <3>2. Where' = [Where EXCEPT ![cur] = "runq"]
      BY <3>1, NullAssumption DEF Where, IrqReturn, TypeOK
    <3> QED
      BY <2>2, <3>1, <3>2, WhereType, PushFrontLinks, PushFrontInLine, QueueNames
      DEF IrqReturn, QueuesConsistent, QueuesInLine, TypeOK
  <2> QED BY <2>1, <2>2
<1>3. TypeOK'
  BY <1>2 DEF TypeOK, IrqReturn, ProcPtr
<1>4. StateAgrees'
  BY <1>1 DEF StateAgrees, IrqReturn
<1> QED BY <1>2, <1>3, <1>4 DEF QueuesConsistent, QueuesInLine

(* Every step keeps the invariant.                                         *)
LEMMA NextIInv == IInv /\ [Next]_vars => IInv'
<1> SUFFICES ASSUME IInv, [Next]_vars PROVE IInv' OBVIOUS
<1>1. CASE UNCHANGED vars
  BY <1>1 DEF vars, IInv, TypeOK, QueuesConsistent, QueuesInLine, StateAgrees, Where
<1>2. CASE Dispatch
  BY <1>2, DispatchIInv
<1>3. ASSUME NEW p \in Proc, Wait(p) PROVE IInv'
  BY <1>3, WaitStartIInv, WaitSkipIInv, WaitReapIInv, WaitBlockIInv DEF Wait
<1>4. ASSUME NEW p \in Proc, Exit(p) PROVE IInv'
  BY <1>4, ExitIInv
<1>5. ASSUME NEW p \in Proc, UsleepResume(p) PROVE IInv'
  BY <1>5, UsleepResumeIInv
<1>6. ASSUME NEW p \in Proc, NEW c \in Proc, Fork(p, c) PROVE IInv'
  BY <1>6, ForkIInv
<1>7. ASSUME NEW p \in Proc, NEW d \in 1 .. MaxSleep, Usleep(p, d) PROVE IInv'
  BY <1>7, UsleepIInv
<1>8. CASE TimerIrq \/ WakeTick \/ IrqReturn
  BY <1>8, TimerIrqIInv, WakeTickIInv, IrqReturnIInv
<1> QED BY <1>1, <1>2, <1>3, <1>4, <1>5, <1>6, <1>7, <1>8 DEF Next

(* So it holds in every reachable state.                                   *)
LEMMA SpecIInv == Spec => []IInv
BY InitIInv, NextIInv, PTL DEF Spec

-----------------------------------------------------------------------------
(* Every reachable state is well typed: Proc and Queue fields hold what    *)
(* schedule.d and proc.d declare.                                          *)
THEOREM TypeCorrect == Spec => []TypeOK
BY SpecIInv, PTL DEF IInv

(* However many processes fork, sleep, wait, exit and are interrupted, the *)
(* four queues stay consistent and a process is in the queue its state     *)
(* says, and in no other (schedule.d, Queue).                              *)
THEOREM QueuesStayConsistent == Spec => []QueuesConsistent
BY SpecIInv, PTL DEF IInv

(* No process is lost: a walk of a queue from its front meets exactly the  *)
(* processes that wait there, and ends; size counts them (schedule.d, the  *)
(* walk of Queue.opApply).                                                 *)
THEOREM NoneIsLost == Spec => []NoneLost
<1>1. IInv => NoneLost
  <2> SUFFICES ASSUME IInv PROVE NoneLost OBVIOUS
  <2>1. links \in Links /\ Where \in [Proc -> Queue \cup {NoQueue}]
    BY WhereType DEF IInv, TypeOK
  <2>2. LinksAgree(links, Where) /\ InLine(links, Where)
    BY DEF IInv, QueuesConsistent, QueuesInLine
  <2> QED BY <2>1, <2>2, WalkMeets DEF NoneLost
<1> QED BY <1>1, SpecIInv, PTL

(* The assertions of the scheduler never fail: wake meets only blocked     *)
(* processes (schedule.d:56), and an exited process is not resumed         *)
(* (syscall.d:155).                                                        *)
THEOREM AssertionsNeverFail == Spec => []AssertionsHold
<1>1. IInv => AssertionsHold
  <2> SUFFICES ASSUME IInv PROVE AssertionsHold OBVIOUS
  <2>1. cur # Null => cur \in live /\ state[cur] = "runnable" /\ pc[cur] # "exited"
    BY DEF IInv, StateAgrees
  <2>2. ASSUME links.front["ticks_queue"] # Null
        PROVE  state[links.front["ticks_queue"]] = "blocked"
    <3>1. /\ links.front["ticks_queue"] \in Proc
          /\ Where[links.front["ticks_queue"]] = "ticks_queue"
      BY <2>2, QueueNames DEF IInv, TypeOK, QueuesConsistent, LinksAgree, Links, ProcPtr
    <3> QED BY <3>1, WhereState DEF IInv
  <2> QED BY <2>1, <2>2 DEF AssertionsHold
<1> QED BY <1>1, SpecIInv, PTL

(* The walk of sys_wait never stands on a process that was unlinked or     *)
(* freed (syscall.d:131-139).                                              *)
THEOREM ScanStaysOnZombies == Spec => []ScanOnZombies
<1>1. IInv => ScanOnZombies
  BY WhereType, QueueNames DEF IInv, StateAgrees, ScanOnZombies, TypeOK, ProcPtr
<1> QED BY <1>1, SpecIInv, PTL
=============================================================================
