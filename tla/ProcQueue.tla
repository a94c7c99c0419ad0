----------------------------- MODULE ProcQueue -----------------------------
(***************************************************************************)
(* The intrusive doubly linked process queues of plix/schedule.d (struct   *)
(* Queue).  A Proc carries one pair of links (Proc.next, Proc.prev), so it *)
(* can sit in at most one queue; every queue has front, back and size.     *)
(*                                                                         *)
(* A value L of the queues is a record                                     *)
(*    [next, prev : Proc -> Proc or Null, front, back : queue -> ...,      *)
(*     size : queue -> Int]                                                *)
(* and the operations are functions from such a value to the next one, so  *)
(* that a handler that calls several of them is still one action.          *)
(***************************************************************************)
EXTENDS Integers, FiniteSets

CONSTANTS Proc,   \* addresses at which a Proc can be allocated
          Null,   \* the null pointer
          Queue   \* the names of the queues

ASSUME NullAssumption == Null \notin Proc

ASSUME ProcAssumption == IsFiniteSet(Proc)   \* memory is finite

NoQueue == "none"

ASSUME QueueAssumption == NoQueue \notin Queue

ProcPtr == Proc \cup {Null}

Links == [next : [Proc -> ProcPtr], prev : [Proc -> ProcPtr],
          front : [Queue -> ProcPtr], back : [Queue -> ProcPtr],
          size : [Queue -> Int]]

EmptyLinks == [next |-> [p \in Proc |-> Null], prev |-> [p \in Proc |-> Null],
               front |-> [q \in Queue |-> Null], back |-> [q \in Queue |-> Null],
               size |-> [q \in Queue |-> 0]]

(***************************************************************************)
(* The operations.                                                         *)
(***************************************************************************)

(* Queue.push_front: p becomes the front; the old front, if any, points    *)
(* back to p, and otherwise p is the back as well.                         *)
PushFront(L, q, p) ==
  LET f == L.front[q] IN
  [next  |-> [L.next EXCEPT ![p] = f],
   prev  |-> [r \in Proc |-> IF r = f THEN p ELSE IF r = p THEN Null ELSE L.prev[r]],
   front |-> [L.front EXCEPT ![q] = p],
   back  |-> IF f = Null THEN [L.back EXCEPT ![q] = p] ELSE L.back,
   size  |-> [L.size EXCEPT ![q] = @ + 1]]

(* Faulty remove: the back stays where it was.                             *)
RemoveKeepsBack(L, q, p) ==
  LET n == L.next[p]
      v == L.prev[p]
  IN
  [L EXCEPT !.next = [r \in Proc |-> IF r = v THEN n ELSE L.next[r]],
            !.prev = [r \in Proc |-> IF r = n THEN v ELSE L.prev[r]],
            !.front = IF v = Null THEN [L.front EXCEPT ![q] = n] ELSE L.front,
            !.size = [L.size EXCEPT ![q] = @ - 1]]

(* Faulty remove: the process before p still points to it.                 *)
RemoveKeepsNext(L, q, p) ==
  LET n == L.next[p]
      v == L.prev[p]
  IN
  [L EXCEPT !.prev = [r \in Proc |-> IF r = n THEN v ELSE L.prev[r]],
            !.front = IF v = Null THEN [L.front EXCEPT ![q] = n] ELSE L.front,
            !.back = IF n = Null THEN [L.back EXCEPT ![q] = v] ELSE L.back,
            !.size = [L.size EXCEPT ![q] = @ - 1]]

(* Queue.remove: unlink p.  The links of p itself keep their old values.   *)
Remove(L, q, p) ==
  LET n == L.next[p]
      v == L.prev[p]
  IN
  [next  |-> [r \in Proc |-> IF r = v THEN n ELSE L.next[r]],
   prev  |-> [r \in Proc |-> IF r = n THEN v ELSE L.prev[r]],
   front |-> IF v = Null THEN [L.front EXCEPT ![q] = n] ELSE L.front,
   back  |-> IF n = Null THEN [L.back EXCEPT ![q] = v] ELSE L.back,
   size  |-> [L.size EXCEPT ![q] = @ - 1]]

(***************************************************************************)
(* What the queues mean.  W gives, for every process, the queue it belongs *)
(* to, or NoQueue.                                                         *)
(***************************************************************************)

(* The links around every member and at both ends of every queue agree     *)
(* with each other and with W.                                             *)
LinksAgree(L, W) ==
  /\ \A p \in Proc : W[p] \in Queue =>
       /\ L.next[p] # Null => /\ W[L.next[p]] = W[p]
                              /\ L.prev[L.next[p]] = p
       /\ L.prev[p] # Null => /\ W[L.prev[p]] = W[p]
                              /\ L.next[L.prev[p]] = p
       /\ L.next[p] = Null => L.back[W[p]] = p
       /\ L.prev[p] = Null => L.front[W[p]] = p
  /\ \A q \in Queue :
       /\ L.front[q] # Null => W[L.front[q]] = q /\ L.prev[L.front[q]] = Null
       /\ L.back[q] # Null => W[L.back[q]] = q /\ L.next[L.back[q]] = Null
       /\ L.front[q] = Null <=> L.back[q] = Null

Members(W, q) == {p \in Proc : W[p] = q}

(* The nth process of the queue when it is walked by next from the front,  *)
(* as opApply does, and Null past its end.                                 *)
Nth(L, q) ==
  LET nth[n \in 0 .. Cardinality(Proc)] ==
        IF n = 0 THEN L.front[q]
        ELSE IF nth[n - 1] = Null THEN Null ELSE L.next[nth[n - 1]]
  IN nth

(* Walking the queue meets exactly its members, each once, and ends; size  *)
(* counts them.                                                            *)
WalkMeetsMembers(L, W) ==
  \A q \in Queue :
    LET nth == Nth(L, q)
        k   == Cardinality(Members(W, q))
    IN /\ {nth[n] : n \in 0 .. k - 1} = Members(W, q)
       /\ nth[k] = Null
       /\ L.size[q] = k
=============================================================================
