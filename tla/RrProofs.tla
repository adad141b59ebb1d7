------------------------------ MODULE RrProofs ------------------------------
(***************************************************************************)
(* The theorems about rr.c.  First for runs in which no execl() fails: its *)
(* inductive invariant IInv, the safety properties that follow from it and *)
(* that unit by unit it behaves as the round robin of module IdealRr.      *)
(* Then for all runs: main's books (MainInv) and with them the ring, and   *)
(* FaultInv with what it says of the results.                              *)
(***************************************************************************)
EXTENDS RrInv, DispatchProofs, SequenceTheorems, WellFoundedInduction

-----------------------------------------------------------------------------
(* The ring as a sequence.  Module Rr finds it by following `next' links,   *)
(* with a recursive function; the proofs know it by IsRing, which says      *)
(* where each link leads and needs no recursion.                            *)

(* A set of natural numbers has a least element.                            *)
LEMMA LeastNumber ==
  ASSUME NEW T, T \subseteq Nat, T # {}
  PROVE  \E m \in T : \A k \in T : m <= k
  <1>1. PICK m \in T : \A k \in T : <<k, m>> \notin OpToRel(<, Nat)
    BY WFMin, NatLessThanWellFounded, Zenon
  <1>2. \A k \in T : k \in Nat /\ m \in Nat
    OBVIOUS
  <1>3. \A k \in T : ~(k < m)
    BY <1>1, <1>2, Zenon DEF OpToRel
  <1> QED  BY <1>2, <1>3

\* g follows the links for n steps.
Follows(g, n) == g = [i \in 1 .. n |-> IF i = 1 THEN cur_job ELSE nxt[g[i - 1]]]

(* The links can be followed for any number of steps.                       *)
LEMMA FollowsExists == \A n \in Nat : \E g : Follows(g, n)
  <1> DEFINE T == {n \in Nat : ~ \E g : Follows(g, n)}
  <1> SUFFICES ASSUME T # {} PROVE FALSE
    OBVIOUS
  <1>1. PICK m \in T : \A k \in T : m <= k
    <2>1. T \subseteq Nat
      OBVIOUS
    <2> HIDE DEF T
    <2> QED  BY <2>1, LeastNumber, Zenon
  <1>2. m \in Nat /\ ~ \E g : Follows(g, m)
    BY <1>1
  <1>3. CASE m = 0
    <2>1. Follows([i \in 1 .. 0 |-> NULL], 0)
      BY DEF Follows
    <2> QED  BY <1>2, <1>3, <2>1
  <1>4. CASE m # 0
    <2>1. m - 1 \in Nat /\ m - 1 \notin T
      BY <1>1, <1>2, <1>4
    <2>2. PICK g : Follows(g, m - 1)
      BY <2>1
    <2> DEFINE h == [i \in 1 .. m |-> IF i = 1 THEN cur_job ELSE nxt[g[i - 1]]]
    <2>3. \A i \in 1 .. m - 1 : h[i] = g[i]
      <3>1. g = [i \in 1 .. m - 1 |-> IF i = 1 THEN cur_job ELSE nxt[g[i - 1]]]
        BY <2>2 DEF Follows
      <3>2. \A i \in 1 .. m - 1 : g[i] = IF i = 1 THEN cur_job ELSE nxt[g[i - 1]]
        BY <3>1, Zenon
      <3>3. 1 .. m - 1 \subseteq 1 .. m
        BY <1>2
      <3> QED  BY <3>2, <3>3
    <2>4. \A i \in 1 .. m : i # 1 => h[i - 1] = g[i - 1]
      <3> HIDE DEF h
      <3>1. \A i \in 1 .. m : i # 1 => i - 1 \in 1 .. m - 1
        BY <1>2
      <3> QED  BY <2>3, <3>1
    <2>5. h = [i \in 1 .. m |-> IF i = 1 THEN cur_job ELSE nxt[h[i - 1]]]
      BY <2>4
    <2> HIDE DEF h
    <2>6. Follows(h, m)
      BY <2>5 DEF Follows
    <2> QED  BY <1>2, <2>6
  <1> QED  BY <1>3, <1>4

(* RingFrom follows the links.                                              *)
LEMMA RingFromFollows ==
  \A i \in 1 .. N : RingFrom[i] = IF i = 1 THEN cur_job ELSE nxt[RingFrom[i - 1]]
  <1>1. \E g : Follows(g, N)
    BY FollowsExists, NIsNat
  <1>2. Follows(RingFrom, N)
    BY <1>1, Zenon DEF RingFrom, Follows
  <1> QED  BY <1>2 DEF Follows

(* The places of a ring.                                                    *)
LEMMA Neighbours ==
  ASSUME NEW n \in Nat, NEW i \in 1 .. n
  PROVE  /\ After(i, n) \in 1 .. n /\ Before(i, n) \in 1 .. n
         /\ Before(After(i, n), n) = i /\ After(Before(i, n), n) = i
  <1>1. After(i, n) \in 1 .. n /\ Before(i, n) \in 1 .. n
    BY DEF After, Before
  <1>2. Before(After(i, n), n) = i
    BY DEF After, Before
  <1>3. After(Before(i, n), n) = i
    BY DEF After, Before
  <1> QED  BY <1>1, <1>2, <1>3

(* The ring of module Rr is the only sequence that is a ring.               *)
LEMMA RingUnique == \A r : IsRing(r) => Ring = r
  <1> SUFFICES ASSUME NEW r, IsRing(r) PROVE Ring = r
    OBVIOUS
  <1> USE NIsNat
  <1>1. /\ r \in Seq(Job) /\ Len(r) = Cardinality(nodes) /\ nodes \subseteq Job
        /\ Len(r) # 0 => cur_job = r[1]
        /\ \A i \in 1 .. Len(r) : nxt[r[i]] = r[After(i, Len(r))]
    BY DEF IsRing
  <1>2. Len(r) \in Nat /\ Len(r) <= N
    BY <1>1, JobAssumption, FS_Subset DEF N
  <1>3. \A i \in 1 .. Len(r) : RingFrom[i] = r[i]
    <2> DEFINE T == {i \in 1 .. Len(r) : RingFrom[i] # r[i]}
    <2> SUFFICES ASSUME T # {} PROVE FALSE
      OBVIOUS
    <2>1. PICK m \in T : \A k \in T : m <= k
      <3>1. T \subseteq Nat
        OBVIOUS
      <3> HIDE DEF T
      <3> QED  BY <3>1, LeastNumber, Zenon
    <2>2. m \in 1 .. Len(r) /\ RingFrom[m] # r[m] /\ m \in 1 .. N
      BY <1>2, <2>1
    <2>3. RingFrom[m] = IF m = 1 THEN cur_job ELSE nxt[RingFrom[m - 1]]
      BY <2>2, RingFromFollows
    <2>4. m # 1
      BY <1>1, <1>2, <2>2, <2>3
    <2>5. m - 1 \in 1 .. Len(r) /\ m - 1 # Len(r) /\ m = (m - 1) + 1
      BY <1>2, <2>2, <2>4
    <2>6. RingFrom[m - 1] = r[m - 1]
      BY <1>2, <2>1, <2>5
    <2>7. nxt[r[m - 1]] = r[m]
      BY <1>1, <2>2, <2>5 DEF After
    <2> QED  BY <2>2, <2>3, <2>4, <2>6, <2>7
  <1>4. Ring = [i \in 1 .. Len(r) |-> r[i]]
    BY <1>1, <1>3 DEF Ring
  <1>5. r = [i \in 1 .. Len(r) |-> r[i]]
    <2>1. r \in [1 .. Len(r) -> Job]
      BY <1>1, LenProperties
    <2> QED  BY <2>1
  <1> QED  BY <1>4, <1>5

(* What a ring is, for the property the run checks.                         *)
LEMMA RingSound == IsRing(Ring) => RingIsSound
  <1> SUFFICES ASSUME NEW r, r = Ring, IsRing(r) PROVE RingIsSound
    OBVIOUS
  <1>1. /\ r \in Seq(Job) /\ Len(r) = Cardinality(nodes) /\ nodes \subseteq Job
        /\ \A i \in 1 .. Len(r) : r[i] \in nodes
        /\ \A n \in nodes : \E i \in 1 .. Len(r) : r[i] = n
        /\ IF Len(r) = 0 THEN cur_job = NULL ELSE cur_job = r[1]
        /\ \A i \in 1 .. Len(r) : /\ nxt[r[i]] = r[After(i, Len(r))]
                                  /\ last[r[i]] = r[Before(i, Len(r))]
    BY DEF IsRing
  <1>2. Len(r) \in Nat /\ DOMAIN r = 1 .. Len(r)
    BY <1>1, LenProperties
  <1>5. ASSUME NEW n \in nodes
        PROVE  /\ nxt[n] \in nodes /\ last[n] \in nodes
               /\ last[nxt[n]] = n /\ nxt[last[n]] = n
    <2>1. PICK i \in 1 .. Len(r) : r[i] = n
      BY <1>1
    <2>2. PICK k \in 1 .. Len(r) : k = After(i, Len(r)) /\ Before(k, Len(r)) = i
      BY <1>2, Neighbours
    <2>3. PICK h \in 1 .. Len(r) : h = Before(i, Len(r)) /\ After(h, Len(r)) = i
      BY <1>2, Neighbours
    <2>a. \A m \in 1 .. Len(r) : nxt[r[m]] = r[After(m, Len(r))] /\ last[r[m]] = r[Before(m, Len(r))]
      BY <1>1
    <2>4. nxt[n] = r[k] /\ last[r[k]] = n
      BY <2>1, <2>2, <2>a, Zenon
    <2>5. last[n] = r[h] /\ nxt[r[h]] = n
      BY <2>1, <2>3, <2>a, Zenon
    <2> QED  BY <1>1, <2>4, <2>5
  <1>6. cur_job = NULL <=> nodes = {}
    <2>1. \A n \in nodes : n # NULL
      BY <1>1, JobAssumption DEF NULL
    <2>2. Len(r) = 0 <=> nodes = {}
      BY <1>1, <1>2
    <2>3. Len(r) # 0 => cur_job \in nodes
      BY <1>1, <1>2
    <2> QED  BY <1>1, <2>1, <2>2, <2>3
  <1>7. {r[i] : i \in DOMAIN r} = nodes
    BY <1>1, <1>2
  <1> QED  BY <1>5, <1>6, <1>7 DEF RingIsSound

(* The same in the next state.                                              *)
LEMMA NextRingUnique == \A r : IsRing(r)' => Ring' = r
  <1>1. (\A r : IsRing(r) => Ring = r)'
    BY RingUnique, PTL
  <1> QED  BY <1>1

(* What is said of a ring, one clause at a time.                            *)
LEMMA RingFacts ==
  ASSUME NEW r, IsRing(r)
  PROVE  /\ r \in Seq(Job) /\ Len(r) \in Nat /\ Len(r) = Cardinality(nodes)
         /\ \A i \in 1 .. Len(r) : r[i] \in nodes /\ r[i] \in Job
         /\ \A n \in nodes : \E i \in 1 .. Len(r) : r[i] = n
         /\ \A i, k \in 1 .. Len(r) : r[i] = r[k] => i = k
         /\ Len(r) = 0 => cur_job = NULL
         /\ Len(r) # 0 => cur_job = r[1]
         /\ \A i \in 1 .. Len(r) : nxt[r[i]] = r[After(i, Len(r))]
         /\ \A i \in 1 .. Len(r) : last[r[i]] = r[Before(i, Len(r))]
         /\ nodes \subseteq Job /\ IsFiniteSet(nodes) /\ Cardinality(nodes) <= N
  <1>1. /\ r \in Seq(Job) /\ Len(r) = Cardinality(nodes)
        /\ \A i \in 1 .. Len(r) : r[i] \in nodes
        /\ \A n \in nodes : \E i \in 1 .. Len(r) : r[i] = n
        /\ \A i, k \in 1 .. Len(r) : r[i] = r[k] => i = k
        /\ Len(r) = 0 => cur_job = NULL
        /\ Len(r) # 0 => cur_job = r[1]
        /\ \A i \in 1 .. Len(r) : nxt[r[i]] = r[After(i, Len(r))]
        /\ \A i \in 1 .. Len(r) : last[r[i]] = r[Before(i, Len(r))]
    BY DEF IsRing
  <1>2. nodes \subseteq Job /\ Len(r) \in Nat
    BY <1>1
  <1>3. IsFiniteSet(nodes) /\ Cardinality(nodes) <= N
    BY <1>2, JobAssumption, FS_Subset DEF N
  <1> QED  BY <1>1, <1>2, <1>3

(* add_list() puts the node at the end of the ring.                         *)
LEMMA RingAdd ==
  ASSUME NEW r, IsRing(r), nxt \in [Job -> Proc], last \in [Job -> Proc],
         NEW p \in Job, p \notin nodes, AddList(p)
  PROVE  /\ IsRing(Append(r, p))' /\ Cardinality(nodes)' = Cardinality(nodes) + 1
         /\ nxt' \in [Job -> Proc] /\ last' \in [Job -> Proc]
  <1>1. /\ r \in Seq(Job) /\ Len(r) \in Nat /\ Len(r) = Cardinality(nodes)
        /\ \A i \in 1 .. Len(r) : r[i] \in nodes /\ r[i] \in Job
        /\ \A n \in nodes : \E i \in 1 .. Len(r) : r[i] = n
        /\ \A i, k \in 1 .. Len(r) : r[i] = r[k] => i = k
        /\ IsFiniteSet(nodes) /\ nodes' = nodes \cup {p}
    BY RingFacts DEF AddList
  <1>2. PICK L \in Nat : L = Len(r)
    BY <1>1
  <1>3. PICK q : q = Append(r, p)
    OBVIOUS
  <1>4. /\ q \in Seq(Job) /\ Len(q) = L + 1 /\ q[L + 1] = p
        /\ \A i \in 1 .. L : q[i] = r[i]
    BY <1>1, <1>2, <1>3
  <1>5. Cardinality(nodes)' = L + 1
    BY <1>1, <1>2, FS_AddElement
  <1>6. \A i \in 1 .. L + 1 : i \in 1 .. L \/ i = L + 1
    BY <1>2
  <1>7. \A i \in 1 .. L + 1 : q[i] \in nodes'
    BY <1>1, <1>2, <1>4, <1>6
  <1>8. \A n \in nodes' : \E i \in 1 .. L + 1 : q[i] = n
    <2>1. 1 .. L \subseteq 1 .. L + 1 /\ L + 1 \in 1 .. L + 1
      BY <1>2
    <2>2. \A n \in nodes : \E i \in 1 .. L : q[i] = n
      BY <1>1, <1>2, <1>4
    <2> QED  BY <1>1, <1>4, <2>1, <2>2
  <1>9. \A i, k \in 1 .. L + 1 : q[i] = q[k] => i = k
    BY <1>1, <1>2, <1>4, <1>6
  <1>10. /\ cur_job' = q[1] /\ nxt' \in [Job -> Proc] /\ last' \in [Job -> Proc]
         /\ \A i \in 1 .. L + 1 : /\ nxt'[q[i]] = q[After(i, L + 1)]
                                  /\ last'[q[i]] = q[Before(i, L + 1)]
    <2>1. CASE L = 0
      <3>1. cur_job = NULL
        BY <1>2, <2>1, RingFacts
      <3>2. /\ cur_job' = p /\ nxt' = [nxt EXCEPT ![p] = p] /\ last' = [last EXCEPT ![p] = p]
        BY <3>1 DEF AddList
      <3>3. nxt'[p] = p /\ last'[p] = p
        BY <3>2
      <3>4. q[1] = p /\ \A i \in 1 .. L + 1 : i = 1
        BY <1>4, <2>1
      <3>5. After(1, L + 1) = 1 /\ Before(1, L + 1) = 1
        BY <2>1 DEF After, Before
      <3>6. p \in Proc
        BY DEF Proc
      <3> QED  BY <3>2, <3>3, <3>4, <3>5, <3>6
    <2>2. CASE L # 0
      <3>1. 1 \in 1 .. L /\ L \in 1 .. L
        BY <1>2, <2>2
      <3>2. cur_job = r[1] /\ last[r[1]] = r[L] /\ r[1] \in Job /\ r[L] \in Job
        BY <1>1, <1>2, <2>2, <3>1, RingFacts DEF Before
      <3>3. cur_job # NULL /\ r[1] # p /\ r[L] # p
        BY <1>1, <1>2, <3>1, <3>2, JobAssumption DEF NULL
      <3>4. /\ cur_job' = r[1]
            /\ nxt' = [nxt EXCEPT ![p] = r[1], ![r[L]] = p]
            /\ last' = [last EXCEPT ![p] = r[L], ![r[1]] = p]
        BY <3>2, <3>3 DEF AddList
      <3>5. /\ nxt'[p] = r[1] /\ nxt'[r[L]] = p
            /\ \A j \in Job : j # p /\ j # r[L] => nxt'[j] = nxt[j]
        BY <3>2, <3>3, <3>4
      <3>6. /\ last'[p] = r[L] /\ last'[r[1]] = p
            /\ \A j \in Job : j # p /\ j # r[1] => last'[j] = last[j]
        BY <3>2, <3>3, <3>4
      <3>7. nxt' \in [Job -> Proc] /\ last' \in [Job -> Proc]
        <4>1. p \in Proc /\ r[1] \in Proc /\ r[L] \in Proc
          BY <3>2 DEF Proc
        <4> QED  BY <3>4, <4>1
      <3>8. ASSUME NEW i \in 1 .. L + 1
            PROVE  nxt'[q[i]] = q[After(i, L + 1)]
        <4>1. CASE i = L + 1
          BY <1>2, <1>4, <3>1, <3>5, <4>1 DEF After
        <4>2. CASE i = L
          <5>1. q[i] = r[L] /\ q[After(i, L + 1)] = p
            BY <1>2, <1>4, <3>1, <4>2 DEF After
          <5> QED  BY <3>5, <5>1
        <4>3. CASE i # L /\ i # L + 1
          <5>1. i \in 1 .. L /\ i + 1 \in 1 .. L /\ After(i, L) = i + 1 /\ After(i, L + 1) = i + 1
            BY <1>2, <4>3 DEF After
          <5>2. r[i] # p /\ r[i] # r[L] /\ r[i] \in Job
            BY <1>1, <1>2, <3>1, <4>3, <5>1
          <5>3. nxt[r[i]] = r[i + 1]
            BY <1>2, <5>1, RingFacts
          <5> QED  BY <1>4, <3>5, <5>1, <5>2, <5>3
        <4> QED  BY <4>1, <4>2, <4>3
      <3>9. ASSUME NEW i \in 1 .. L + 1
            PROVE  last'[q[i]] = q[Before(i, L + 1)]
        <4>1. CASE i = L + 1
          <5>1. q[i] = p /\ Before(i, L + 1) = L
            BY <1>2, <1>4, <2>2, <4>1 DEF Before
          <5> QED  BY <1>4, <3>1, <3>6, <5>1
        <4>2. CASE i = 1
          <5>1. q[i] = r[1] /\ q[Before(i, L + 1)] = p
            BY <1>2, <1>4, <3>1, <4>2 DEF Before
          <5> QED  BY <3>6, <5>1
        <4>3. CASE i # 1 /\ i # L + 1
          <5>1. i \in 1 .. L /\ i - 1 \in 1 .. L /\ Before(i, L) = i - 1 /\ Before(i, L + 1) = i - 1
            BY <1>2, <4>3 DEF Before
          <5>2. r[i] # p /\ r[i] # r[1] /\ r[i] \in Job
            BY <1>1, <1>2, <3>1, <4>3, <5>1
          <5>3. last[r[i]] = r[i - 1]
            BY <1>2, <5>1, RingFacts
          <5> QED  BY <1>4, <3>6, <5>1, <5>2, <5>3
        <4> QED  BY <4>1, <4>2, <4>3
      <3>10. q[1] = r[1]
        BY <1>4, <3>1
      <3> QED  BY <3>4, <3>7, <3>8, <3>9, <3>10
    <2> QED  BY <2>1, <2>2
  <1>11. IsRing(q)'
    BY <1>2, <1>4, <1>5, <1>7, <1>8, <1>9, <1>10 DEF IsRing
  <1> QED  BY <1>1, <1>2, <1>3, <1>5, <1>10, <1>11

(* The sequence without its first element.                                  *)
LEMMA TailFacts ==
  ASSUME NEW r \in Seq(Job), NEW L \in Nat, L = Len(r), L # 0
  PROVE  /\ r # << >> /\ Head(r) = r[1] /\ Tail(r) \in Seq(Job) /\ Len(Tail(r)) = L - 1
         /\ \A i \in 1 .. L - 1 : Tail(r)[i] = r[i + 1]
  <1>1. r # << >>
    OBVIOUS
  <1>2. /\ Tail(r) \in Seq(Job) /\ Len(Tail(r)) = Len(r) - 1
        /\ \A i \in 1 .. Len(Tail(r)) : Tail(r)[i] = r[i + 1]
    BY <1>1, HeadTailProperties, Zenon
  <1>3. Head(r) = r[1]
    BY <1>1
  <1> QED  BY <1>1, <1>2, <1>3

(* cur_job->next: the first of the ring goes to the end.                    *)
LEMMA RingRotate ==
  ASSUME NEW r, IsRing(r), cur_job # NULL, cur_job' = nxt[cur_job],
         UNCHANGED <<nxt, last, nodes>>
  PROVE  IsRing(Append(Tail(r), Head(r)))' /\ cur_job' \in nodes
  <1>1. PICK L \in Nat : L = Len(r) /\ L # 0
    BY RingFacts
  <1>2. /\ r \in Seq(Job) /\ r # << >> /\ 1 \in 1 .. L /\ cur_job = r[1] /\ L = Cardinality(nodes)
        /\ \A i \in 1 .. L : r[i] \in nodes /\ r[i] \in Job
        /\ \A n \in nodes : \E i \in 1 .. L : r[i] = n
        /\ \A i, k \in 1 .. L : r[i] = r[k] => i = k
        /\ \A i \in 1 .. L : nxt[r[i]] = r[After(i, L)]
        /\ \A i \in 1 .. L : last[r[i]] = r[Before(i, L)]
    BY <1>1, RingFacts
  <1>3. PICK q : q = Append(Tail(r), Head(r))
    OBVIOUS
  <1>4. /\ q \in Seq(Job) /\ Len(q) = L
        /\ \A i \in 1 .. L : q[i] = r[After(i, L)]
    <2>1. /\ Head(r) = r[1] /\ Tail(r) \in Seq(Job) /\ Len(Tail(r)) = L - 1
          /\ \A i \in 1 .. L - 1 : Tail(r)[i] = r[i + 1]
      BY <1>1, <1>2, TailFacts
    <2>2. /\ q \in Seq(Job) /\ Len(q) = L /\ q[L] = r[1]
          /\ \A i \in 1 .. L - 1 : q[i] = r[i + 1]
      BY <1>1, <1>2, <1>3, <2>1
    <2>3. \A i \in 1 .. L : i = L \/ i \in 1 .. L - 1
      BY <1>1
    <2> QED  BY <1>1, <2>2, <2>3 DEF After
  <1>5. \A i \in 1 .. L : /\ After(i, L) \in 1 .. L /\ Before(i, L) \in 1 .. L
                          /\ Before(After(i, L), L) = i /\ After(Before(i, L), L) = i
    BY <1>1, Neighbours
  <1>6. \A i \in 1 .. L : q[i] \in nodes
    BY <1>2, <1>4, <1>5
  <1>7. \A n \in nodes : \E i \in 1 .. L : q[i] = n
    <2> SUFFICES ASSUME NEW n \in nodes PROVE \E i \in 1 .. L : q[i] = n
      OBVIOUS
    <2>1. PICK k \in 1 .. L : r[k] = n
      BY <1>2
    <2>2. Before(k, L) \in 1 .. L /\ q[Before(k, L)] = n
      BY <1>4, <1>5, <2>1
    <2> QED  BY <2>2
  <1>8. \A i, k \in 1 .. L : q[i] = q[k] => i = k
    <2> SUFFICES ASSUME NEW i \in 1 .. L, NEW k \in 1 .. L, q[i] = q[k] PROVE i = k
      OBVIOUS
    <2>1. After(i, L) \in 1 .. L /\ After(k, L) \in 1 .. L /\ r[After(i, L)] = r[After(k, L)]
      BY <1>4, <1>5
    <2>2. \A g, h \in 1 .. L : r[g] = r[h] => g = h
      BY <1>2
    <2>3. After(i, L) = After(k, L)
      BY <2>1, <2>2, Zenon
    <2> QED  BY <1>5, <2>3
  <1>9. ASSUME NEW i \in 1 .. L
        PROVE  nxt[q[i]] = q[After(i, L)] /\ last[q[i]] = q[Before(i, L)]
    <2>1. q[i] = r[After(i, L)] /\ After(i, L) \in 1 .. L /\ Before(i, L) \in 1 .. L
      BY <1>4, <1>5
    <2>2. nxt[q[i]] = r[After(After(i, L), L)] /\ q[After(i, L)] = r[After(After(i, L), L)]
      BY <1>2, <1>4, <2>1
    <2>3. last[q[i]] = r[Before(After(i, L), L)] /\ q[Before(i, L)] = r[After(Before(i, L), L)]
      BY <1>2, <1>4, <2>1
    <2>4. Before(After(i, L), L) = i /\ After(Before(i, L), L) = i
      BY <1>5
    <2> QED  BY <2>2, <2>3, <2>4
  <1>10. cur_job' = q[1]
    BY <1>2, <1>4
  <1>11. cur_job' \in nodes
    BY <1>2, <1>6, <1>10
  <1>12. IsRing(q)'
    BY <1>1, <1>2, <1>4, <1>6, <1>7, <1>8, <1>9, <1>10 DEF IsRing
  <1> QED  BY <1>3, <1>11, <1>12

(* remove_list() takes the first of the ring away.                          *)
LEMMA RingRemove ==
  ASSUME NEW r, IsRing(r), nxt \in [Job -> Proc], last \in [Job -> Proc],
         cur_job # NULL, RemoveList
  PROVE  /\ IsRing(Tail(r))' /\ Cardinality(nodes)' = Cardinality(nodes) - 1
         /\ nxt' \in [Job -> Proc] /\ last' \in [Job -> Proc]
         /\ cur_job' \in nodes' \cup {NULL}
  <1>1. PICK L \in Nat : L = Len(r) /\ L # 0
    BY RingFacts
  <1>2. /\ r \in Seq(Job) /\ r # << >> /\ 1 \in 1 .. L /\ L \in 1 .. L /\ cur_job = r[1]
        /\ L = Cardinality(nodes) /\ IsFiniteSet(nodes)
        /\ \A i \in 1 .. L : r[i] \in nodes /\ r[i] \in Job
        /\ \A n \in nodes : \E i \in 1 .. L : r[i] = n
        /\ \A i, k \in 1 .. L : r[i] = r[k] => i = k
        /\ \A i \in 1 .. L : nxt[r[i]] = r[After(i, L)]
        /\ \A i \in 1 .. L : last[r[i]] = r[Before(i, L)]
    BY <1>1, RingFacts
  <1>3. nodes' = nodes \ {r[1]}
    BY <1>2 DEF RemoveList
  <1>4. PICK q : q = Tail(r)
    OBVIOUS
  <1>5. PICK M \in Nat : M = L - 1
    BY <1>1
  <1>6. /\ q \in Seq(Job) /\ Len(q) = M
        /\ \A i \in 1 .. M : q[i] = r[i + 1] /\ i + 1 \in 1 .. L /\ i + 1 # 1
    <2>1. q \in Seq(Job) /\ Len(q) = M /\ \A i \in 1 .. M : q[i] = r[i + 1]
      <3>1. /\ r # << >> /\ Head(r) = r[1] /\ Tail(r) \in Seq(Job) /\ Len(Tail(r)) = L - 1
            /\ \A i \in 1 .. L - 1 : Tail(r)[i] = r[i + 1]
        BY <1>1, <1>2, TailFacts
      <3>2. L - 1 = M
        BY <1>5
      <3> QED  BY <1>4, <3>1, <3>2, Zenon
    <2>2. \A i \in 1 .. M : i + 1 \in 1 .. L /\ i + 1 # 1
      BY <1>1, <1>5
    <2> QED  BY <2>1, <2>2
  <1>7. Cardinality(nodes)' = M
    BY <1>2, <1>3, <1>5, FS_RemoveElement
  <1>8. \A i \in 1 .. M : q[i] \in nodes'
    <2> SUFFICES ASSUME NEW i \in 1 .. M PROVE q[i] \in nodes'
      OBVIOUS
    <2>1. q[i] = r[i + 1] /\ i + 1 \in 1 .. L /\ i + 1 # 1
      BY <1>6
    <2>4. r[i + 1] \in nodes
      BY <1>2, <2>1, Zenon
    <2>2. \A g, h \in 1 .. L : r[g] = r[h] => g = h
      BY <1>2
    <2>3. r[i + 1] # r[1]
      BY <1>2, <2>1, <2>2, Zenon
    <2> QED  BY <1>3, <2>1, <2>3, <2>4
  <1>9. \A n \in nodes' : \E i \in 1 .. M : q[i] = n
    <2> SUFFICES ASSUME NEW n \in nodes' PROVE \E i \in 1 .. M : q[i] = n
      OBVIOUS
    <2>1. PICK k \in 1 .. L : r[k] = n /\ k # 1
      BY <1>2, <1>3
    <2>2. k - 1 \in 1 .. M /\ (k - 1) + 1 = k
      BY <1>1, <1>5, <2>1
    <2>3. q[k - 1] = n
      BY <1>6, <2>1, <2>2
    <2> QED  BY <2>2, <2>3
  <1>10. \A i, k \in 1 .. M : q[i] = q[k] => i = k
    <2> SUFFICES ASSUME NEW i \in 1 .. M, NEW k \in 1 .. M, q[i] = q[k] PROVE i = k
      OBVIOUS
    <2>1. i + 1 \in 1 .. L /\ k + 1 \in 1 .. L /\ r[i + 1] = r[k + 1]
      BY <1>6
    <2>2. \A g, h \in 1 .. L : r[g] = r[h] => g = h
      BY <1>2
    <2>3. i + 1 = k + 1
      BY <2>1, <2>2, Zenon
    <2> QED  BY <2>3
  <1>11. /\ IF M = 0 THEN cur_job' = NULL ELSE cur_job' = q[1]
         /\ \A i \in 1 .. M : /\ nxt'[q[i]] = q[After(i, M)]
                              /\ last'[q[i]] = q[Before(i, M)]
         /\ nxt' \in [Job -> Proc] /\ last' \in [Job -> Proc]
    <2>1. CASE L = 1
      <3>1. nxt[cur_job] = cur_job
        BY <1>2, <2>1 DEF After
      <3>2. cur_job' = NULL /\ UNCHANGED <<nxt, last>>
        BY <3>1 DEF RemoveList
      <3>3. M = 0 /\ 1 .. M = {}
        BY <1>5, <2>1
      <3> QED  BY <3>2, <3>3
    <2>2. CASE L # 1
      <3>1. 2 \in 1 .. L /\ M \in 1 .. M /\ 1 \in 1 .. M /\ M + 1 = L
        BY <1>1, <1>5, <2>2
      <3>2. /\ nxt[cur_job] = r[2] /\ last[cur_job] = r[L] /\ r[2] # r[1]
            /\ q[1] = r[2] /\ q[M] = r[L] /\ r[2] \in Job /\ r[L] \in Job
        BY <1>2, <1>6, <2>2, <3>1 DEF After, Before
      <3>3. /\ last' = [last EXCEPT ![r[2]] = r[L]] /\ nxt' = [nxt EXCEPT ![r[L]] = r[2]]
            /\ cur_job' = r[2]
        BY <1>2, <3>2 DEF RemoveList
      <3>4. /\ nxt'[r[L]] = r[2] /\ \A j \in Job : j # r[L] => nxt'[j] = nxt[j]
            /\ last'[r[2]] = r[L] /\ \A j \in Job : j # r[2] => last'[j] = last[j]
        BY <3>2, <3>3
      <3>5. nxt' \in [Job -> Proc] /\ last' \in [Job -> Proc]
        <4>1. r[2] \in Proc /\ r[L] \in Proc
          BY <3>2 DEF Proc
        <4> QED  BY <3>3, <4>1
      <3>6. ASSUME NEW i \in 1 .. M
            PROVE  nxt'[q[i]] = q[After(i, M)]
        <4>1. CASE i = M
          BY <3>2, <3>4, <4>1 DEF After
        <4>2. CASE i # M
          <5>1. /\ i + 1 \in 1 .. M /\ After(i, M) = i + 1 /\ i + 1 # L /\ i + 1 \in 1 .. L
                /\ After(i + 1, L) = (i + 1) + 1
            BY <1>5, <3>1, <4>2 DEF After
          <5>2. q[i] = r[i + 1] /\ r[i + 1] # r[L] /\ r[i + 1] \in Job
            BY <1>2, <1>6, <5>1
          <5>3. nxt[r[i + 1]] = r[(i + 1) + 1] /\ q[i + 1] = r[(i + 1) + 1]
            BY <1>2, <1>6, <5>1
          <5> QED  BY <3>4, <5>1, <5>2, <5>3
        <4> QED  BY <4>1, <4>2
      <3>7. ASSUME NEW i \in 1 .. M
            PROVE  last'[q[i]] = q[Before(i, M)]
        <4>1. CASE i = 1
          BY <3>2, <3>4, <4>1 DEF Before
        <4>2. CASE i # 1
          <5>1. /\ i - 1 \in 1 .. M /\ Before(i, M) = i - 1 /\ i + 1 # 2 /\ i + 1 \in 1 .. L
                /\ Before(i + 1, L) = i /\ i = (i - 1) + 1
            BY <1>5, <3>1, <4>2 DEF Before
          <5>2. q[i] = r[i + 1] /\ r[i + 1] # r[2] /\ r[i + 1] \in Job
            BY <1>2, <1>6, <3>1, <5>1
          <5>3. last[r[i + 1]] = r[i] /\ q[i - 1] = r[i]
            BY <1>2, <1>6, <5>1
          <5> QED  BY <3>4, <5>1, <5>2, <5>3
        <4> QED  BY <4>1, <4>2
      <3>8. M # 0
        BY <3>1
      <3> QED  BY <3>2, <3>3, <3>5, <3>6, <3>7, <3>8
    <2> QED  BY <2>1, <2>2
  <1>12. cur_job' \in nodes' \cup {NULL}
    <2>1. M # 0 => 1 \in 1 .. M
      BY <1>5
    <2> QED  BY <1>8, <1>11, <2>1
  <1>13. IsRing(q)'
    BY <1>6, <1>7, <1>8, <1>9, <1>10, <1>11 DEF IsRing
  <1> QED  BY <1>1, <1>2, <1>4, <1>5, <1>7, <1>11, <1>12, <1>13

-----------------------------------------------------------------------------
(* Facts that many steps need.                                             *)

(* What follows the links in the next state is the ring then.               *)
LEMMA NextRing ==
  ASSUME NEW r, IsRing(r)'
  PROVE  Ring' = r /\ IsRing(Ring)'
  <1>1. Ring' = r
    BY NextRingUnique
  <1> QED  BY <1>1 DEF IsRing

(* A step that leaves the list alone.                                       *)
LEMMA SameRing ==
  ASSUME IsRing(Ring), UNCHANGED list
  PROVE  Ring' = Ring /\ IsRing(Ring)'
  <1>1. PICK r : r = Ring /\ IsRing(r)
    OBVIOUS
  <1>2. IsRing(r)'
    BY <1>1 DEF IsRing, list
  <1> QED  BY <1>1, <1>2, NextRing

(* The numbers main works with, and the slots they point to.               *)
LEMMA ListFacts ==
  ASSUME TypeOK, IsRing(Ring), IndexInv
  PROVE  /\ next \in 0 .. N /\ finish \in 0 .. N /\ finish + Cardinality(nodes) = next
         /\ Cardinality(nodes) \in Nat /\ (Cardinality(nodes) = 0 <=> nodes = {})
         /\ cur_time \in Nat /\ t \in Nat /\ elapsed \in Nat
         /\ Quantum \in Nat \ {0} /\ remain \in Nat /\ remain > 0 /\ remain <= Quantum
         /\ \A i \in Slot : p_arr[i] \in Job
         /\ next < N => /\ next \in Slot /\ upcoming \in Job /\ upcoming = p_arr[next]
                        /\ arrive[upcoming] \in Nat
         /\ nodes \subseteq Job /\ (cur_job = NULL <=> nodes = {})
         /\ cur_job # NULL => cur_job \in nodes /\ cur_job \in Job
         /\ nxt \in [Job -> Proc] /\ last \in [Job -> Proc]
  <1> USE NIsNat, QuantumAssumption
  <1>1. /\ next \in 0 .. N /\ finish \in 0 .. N /\ cur_time \in Nat /\ t \in Nat
        /\ elapsed \in Nat /\ remain \in 1 .. Quantum /\ p_arr \in [Slot -> Job]
        /\ arrive \in [Job -> Nat] /\ nxt \in [Job -> Proc] /\ last \in [Job -> Proc]
        /\ cur_job \in nodes \cup {NULL} /\ finish + Cardinality(nodes) = next
    BY DEF TypeOK, DispatchTypeOK, IndexInv
  <1>2. nodes \subseteq Job /\ IsFiniteSet(nodes) /\ (cur_job = NULL <=> nodes = {})
    <2>1. PICK r : IsRing(r)
      OBVIOUS
    <2>2. RingIsSound
      BY RingSound
    <2> QED  BY <2>1, <2>2, RingFacts DEF RingIsSound
  <1>3. Cardinality(nodes) \in Nat /\ (Cardinality(nodes) = 0 <=> nodes = {})
    BY <1>2, FS_CardinalityType, FS_EmptySet
  <1>4. next < N => next \in Slot
    BY <1>1 DEF Slot
  <1>5. next < N => upcoming \in Job /\ upcoming = p_arr[next] /\ arrive[upcoming] \in Nat
    BY <1>1, <1>4 DEF upcoming
  <1> QED  BY <1>1, <1>2, <1>3, <1>4, <1>5

(* In the runs in which execl() does not fail.                              *)
LEMMA MainFacts ==
  ASSUME IInv
  PROVE  /\ next \in 0 .. N /\ finish \in 0 .. N /\ finish + Cardinality(nodes) = next
         /\ Cardinality(nodes) \in Nat /\ (Cardinality(nodes) = 0 <=> nodes = {})
         /\ cur_time \in Nat /\ t \in Nat /\ elapsed \in Nat
         /\ Quantum \in Nat \ {0} /\ remain \in Nat /\ remain > 0 /\ remain <= Quantum
         /\ \A i \in Slot : p_arr[i] \in Job
         /\ next < N => /\ next \in Slot /\ upcoming \in Job /\ upcoming = p_arr[next]
                        /\ arrive[upcoming] \in Nat
         /\ nodes \subseteq Job /\ (cur_job = NULL <=> nodes = {})
         /\ cur_job # NULL => cur_job \in nodes /\ cur_job \in Job
         /\ nxt \in [Job -> Proc] /\ last \in [Job -> Proc]
  BY ListFacts DEF IInv

(* Where each job is, and that it is there only.                           *)
LEMMA SlotFacts ==
  ASSUME IInv, pc # "exited"
  PROVE  /\ \A i, k \in Slot : p_arr[i] = p_arr[k] => i = k
         /\ \A j \in Job : \E i \in Slot : p_arr[i] = j
         /\ \A i \in Slot : next <= i => ToCome(p_arr[i]) /\ p_arr[i] \notin nodes
         /\ \A i \in Slot : i < next /\ p_arr[i] \notin nodes => Finished(p_arr[i])
         /\ \A j \in nodes : (InFlight => j # cur_job) => Resting(j)
  <1>1. /\ \A i, k \in Slot : p_arr[i] = p_arr[k] => i = k
        /\ \A j \in Job : \E i \in Slot : p_arr[i] = j
    BY DEF IInv, ListingInv, Listings
  <1>2. \A i \in Slot : LET j == p_arr[i] IN
          /\ next <= i => ToCome(j) /\ j \notin nodes
          /\ i < next /\ j \notin nodes => Finished(j)
          /\ j \in nodes /\ (InFlight => j # cur_job) => Resting(j)
    BY DEF IInv, JobsInv
  <1>3. ASSUME NEW j \in nodes, InFlight => j # cur_job
        PROVE  Resting(j)
    <2>1. j \in Job
      BY MainFacts
    <2>2. PICK i \in Slot : p_arr[i] = j
      BY <1>1, <2>1
    <2> QED  BY <1>2, <1>3, <2>2
  <1> QED  BY <1>1, <1>2, <1>3

(* The job main is busy with.                                              *)
LEMMA CurrentFacts ==
  ASSUME IInv, Slicing
  PROVE  /\ cur_job \in nodes /\ cur_job \in Job /\ cur_job # NULL
         /\ remain_time[cur_job] \in Nat /\ left[cur_job] \in Int /\ x[cur_job] \in Nat
         /\ need[cur_job] \in Nat
         /\ t <= remain_time[cur_job] /\ t <= remain
         /\ ~InFlight => Resting(cur_job)
  <1>1. cur_job \in nodes /\ t <= remain_time[cur_job] /\ t <= remain
    BY DEF IInv, SliceInv
  <1>2. cur_job \in Job /\ cur_job # NULL
    BY <1>1, MainFacts, JobAssumption DEF NULL
  <1>3. ~InFlight => Resting(cur_job)
    BY <1>1, SlotFacts DEF Slicing
  <1> QED  BY <1>1, <1>2, <1>3 DEF IInv, TypeOK, DispatchTypeOK

(* Only the job main is busy with can have a slice in flight or be waiting  *)
(* to be buried while main is alive.                                        *)
LEMMA OnlyCurrentBusy ==
  ASSUME IInv, pc # "exited", NEW j \in Job,
         pipe[j] # << >> \/ x[j] # 0 \/ state[j] \in {"run", "zombie"}
  PROVE  j = cur_job /\ InFlight
  <1> USE NIsNat
  <1>1. PICK i \in Slot : p_arr[i] = j
    BY SlotFacts
  <1>2. ~Finished(j) /\ ~Resting(j) /\ ~ToCome(j)
    BY DEF Finished, Resting, ToCome, Quiet
  <1>3. i \in Int /\ next \in Int
    BY MainFacts DEF Slot
  <1>4. j \in nodes
    BY <1>1, <1>2, <1>3, SlotFacts
  <1> QED  BY <1>2, <1>4, SlotFacts

(* While main decides what to do next nobody else has anything to do.       *)
LEMMA AllQuiet ==
  ASSUME IInv, pc # "exited", ~InFlight
  PROVE  \A j \in Job : Quiet(j) /\ state[j] \notin {"run", "zombie"}
  BY OnlyCurrentBusy DEF Quiet

(* A child in its busy loop has taken the slice main has handed out.        *)
LEMMA TakenFacts ==
  ASSUME IInv, NEW j \in Job, state[j] = "run"
  PROVE  /\ j = cur_job /\ pc \in {"raise", "account"} /\ t > 0 /\ InFlight /\ Slicing /\ Taken(j)
         /\ (pc = "account" => prio[j] = RunPrio) /\ t <= remain_time[j]
         /\ left[j] \in Int /\ x[j] \in Nat /\ remain_time[j] \in Nat
  <1>1. pc # "exited"
    BY DEF IInv, ExitInv
  <1>2. j = cur_job /\ InFlight
    BY <1>1, OnlyCurrentBusy
  <1>3. pc # "wait" /\ (Handed(j) \/ Taken(j))
    BY <1>2 DEF IInv, CurrentInv
  <1>4. Slicing /\ pc \in {"raise", "account"} /\ t > 0
    BY <1>2, <1>3 DEF InFlight, Slicing
  <1>5. Taken(j) /\ (pc = "account" => prio[j] = RunPrio)
    BY <1>2, <1>3, <1>4 DEF IInv, CurrentInv, Handed
  <1> QED  BY <1>2, <1>4, <1>5, CurrentFacts

(* A step that only concerns the current job leaves the others as they were *)
LEMMA OtherJobs ==
  ASSUME IInv, Slicing, UNCHANGED <<p_arr, need, next, nodes>>,
         NEW c \in Job, c = cur_job,
         \A j \in Job : j # c =>
            /\ state'[j] = state[j] /\ pipe'[j] = pipe[j] /\ x'[j] = x[j]
            /\ left'[j] = left[j] /\ remain_time'[j] = remain_time[j],
         (InFlight' /\ cur_job' = c) \/ Resting(c)'
  PROVE  JobsInv'
  <1> SUFFICES ASSUME NEW i \in Slot, NEW j \in Job, j = p_arr[i]
               PROVE  /\ next <= i => ToCome(j)' /\ j \notin nodes
                      /\ i < next /\ j \notin nodes => Finished(j)'
                      /\ j \in nodes /\ (InFlight' => j # cur_job') => Resting(j)'
    BY MainFacts DEF JobsInv
  <1>1. pc # "exited" /\ c \in nodes
    BY CurrentFacts DEF Slicing
  <1>2. /\ next <= i => ToCome(j) /\ j \notin nodes
        /\ i < next /\ j \notin nodes => Finished(j)
        /\ j \in nodes /\ j # c => Resting(j)
    BY <1>1, SlotFacts
  <1>3. CASE j = c
    BY <1>1, <1>2, <1>3
  <1>4. CASE j # c
    <2>1. /\ state'[j] = state[j] /\ pipe'[j] = pipe[j] /\ x'[j] = x[j]
          /\ left'[j] = left[j] /\ remain_time'[j] = remain_time[j]
      BY <1>4
    <2>2. /\ ToCome(j) => ToCome(j)'
          /\ Finished(j) => Finished(j)'
          /\ Resting(j) => Resting(j)'
      BY <2>1 DEF ToCome, Finished, Resting, Quiet
    <2> QED  BY <1>2, <1>4, <2>2
  <1> QED  BY <1>3, <1>4

(* A step of main that concerns no job and dispatches nothing.              *)
LEMMA SameJobs ==
  ASSUME IInv, pc # "exited", ~InFlight, ~InFlight',
         UNCHANGED <<p_arr, need, next, nodes, state, pipe, x, left, remain_time>>
  PROVE  JobsInv'
  BY DEF IInv, JobsInv, ToCome, Finished, Resting, Quiet

-----------------------------------------------------------------------------
(* The initial states, and main alone.                                     *)

(* The initial states satisfy the invariant.                               *)
LEMMA InitInv == Init => IInv
  <1> SUFFICES ASSUME Init PROVE IInv
    OBVIOUS
  <1> USE NIsNat, QuantumAssumption
  <1>0. /\ pc = "read" /\ p_arr \in Listings /\ next = 0 /\ finish = 0 /\ cur_time = 0
        /\ elapsed = 0 /\ remain = Quantum /\ t = 0 /\ remain_time = need /\ left = need
        /\ cur_job = NULL /\ nodes = {} /\ printed = << >> /\ kind = "to_fork"
        /\ \A j \in Job : state[j] = "none" /\ pipe[j] = << >> /\ x[j] = 0 /\ began[j] = Never
    BY DEF Init, DispatchInit
  <1>1. TypeOK
    <2>1. DispatchTypeOK
      BY DispatchInitType DEF Init
    <2>2. remain_time \in [Job -> Nat]
      BY <1>0, <2>1 DEF DispatchTypeOK
    <2>3. p_arr \in [Slot -> Job]
      BY <1>0 DEF Listings
    <2>4. ts \in [Job -> [0 .. 1 -> Nat \cup {Never}]]
      BY DEF Init
    <2>5. nxt \in [Job -> Proc] /\ last \in [Job -> Proc]
      BY DEF Init, NULL, Proc
    <2>6. remain \in 1 .. Quantum
      BY <1>0
    <2>7. kind \in {"to_fork", "to_next", "to_die"} /\ cur_job \in nodes \cup {NULL}
      BY <1>0
    <2>8. printed \in Seq(Job) /\ nodes \subseteq Job
      BY <1>0
    <2> QED  BY <1>0, <2>1, <2>2, <2>3, <2>4, <2>5, <2>6, <2>7, <2>8 DEF TypeOK, MainState
  <1>2. IsRing(Ring)
    <2>1. IsRing(<< >>)
      BY <1>0, FS_EmptySet DEF IsRing
    <2> QED  BY <2>1, RingUnique
  <1>3. ListingInv /\ IndexInv
    BY <1>0, FS_EmptySet DEF ListingInv, IndexInv
  <1>4. JobsInv
    <2>1. \A j \in Job : ToCome(j)
      BY <1>0 DEF ToCome, Quiet
    <2>2. p_arr \in [Slot -> Job]
      BY <1>0 DEF Listings
    <2> QED  BY <1>0, <2>1, <2>2 DEF JobsInv, Slot
  <1>5. SliceInv /\ CurrentInv /\ FdInv /\ ExitInv /\ ClockInv
    BY <1>0 DEF SliceInv, CurrentInv, FdInv, ExitInv, ClockInv, Slicing, InFlight
  <1>6. StampInv
    <2>1. \A j \in Job : /\ remain_time[j] <= need[j] /\ left[j] <= need[j]
                         /\ ~(left[j] < need[j]) /\ began[j] = Never
      BY <1>0, <1>1 DEF TypeOK, DispatchTypeOK
    <2>2. 1 .. Len(printed) = {}
      BY <1>0
    <2> QED  BY <1>0, <2>1, <2>2 DEF StampInv, InFlight
  <1> QED  BY <1>1, <1>2, <1>3, <1>4, <1>5, <1>6 DEF IInv

(* A stuttering step.                                                       *)
LEMMA StutterInv == IInv /\ UNCHANGED vars => IInv'
  <1> SUFFICES ASSUME IInv, UNCHANGED vars PROVE IInv'
    OBVIOUS
  <1>0. /\ UNCHANGED <<arrive, need, state, prio, left, x, pipe, writers, readers, elapsed, began, ended>>
        /\ UNCHANGED <<pc, p_arr, next, finish, cur_time, remain, remain_time, ts>>
        /\ UNCHANGED <<cur_job, nxt, last, nodes, kind, t, printed, list>>
    BY DEF vars, dispatchVars, mainVars, input, child, fds, history, list, record
  <1>1. TypeOK'
    BY <1>0 DEF IInv, TypeOK, DispatchTypeOK
  <1>2. IsRing(Ring)'
    BY <1>0, SameRing DEF IInv
  <1>3. ListingInv' /\ IndexInv' /\ ClockInv'
    BY <1>0 DEF IInv, ListingInv, IndexInv, ClockInv, upcoming, Slicing
  <1>6. FdInv'
    BY <1>0 DEF IInv, FdInv, upcoming, Alive
  <1>4. JobsInv' /\ SliceInv' /\ CurrentInv'
    BY <1>0 DEF IInv, JobsInv, SliceInv, CurrentInv, Finished, Resting, ToCome, Handed, Taken,
                Quiet, InFlight, Slicing, upcoming
  <1>5. StampInv' /\ ExitInv'
    BY <1>0 DEF IInv, StampInv, ExitInv, InFlight
  <1> QED  BY <1>1, <1>2, <1>3, <1>4, <1>5, <1>6 DEF IInv

(* The input is read and the array sorted by ready time.                    *)
LEMMA ReadInputInv == IInv /\ ReadInput => IInv'
  <1> SUFFICES ASSUME IInv, ReadInput PROVE IInv'
    OBVIOUS
  <1> USE NIsNat
  <1>0. /\ pc = "read" /\ pc' = "loop" /\ p_arr \in Listings
        /\ next = 0 /\ finish = 0 /\ nodes = {} /\ cur_time = 0 /\ elapsed = 0
        /\ UNCHANGED <<arrive, need, state, prio, left, x, pipe, writers, readers, elapsed, began, ended>>
        /\ UNCHANGED <<next, finish, cur_time, remain, remain_time, ts>>
        /\ UNCHANGED <<cur_job, nxt, last, nodes, kind, t, printed, list>>
    <2>1. pc = "read" /\ p_arr \in Listings /\ next = 0 /\ cur_time = 0 /\ cur_time = elapsed
      BY DEF ReadInput, At, IInv, IndexInv, ListingInv, ClockInv
    <2>2. finish = 0 /\ nodes = {}
      BY <2>1, MainFacts
    <2> QED  BY <2>1, <2>2 DEF ReadInput, dispatchVars, input, child, fds, history, list
  <1>1. /\ p_arr' \in Listings
        /\ \A i, k \in Slot : i <= k => arrive[p_arr'[i]] <= arrive[p_arr'[k]]
    <2>1. p_arr' \in QSort(p_arr, 0, N, arrive) /\ N \in 0 .. N /\ 0 \in Nat
      BY DEF ReadInput
    <2>2. /\ p_arr' \in Listings
          /\ \A i, k \in Slot : 0 <= i /\ i <= k /\ k < N => arrive[p_arr'[i]] <= arrive[p_arr'[k]]
      BY <1>0, <2>1, QSortFacts
    <2> QED  BY <2>2 DEF Slot
  <1>2. p_arr' \in [Slot -> Job]
    BY <1>1 DEF Listings
  <1>3. TypeOK'
    BY <1>0, <1>2 DEF IInv, TypeOK, DispatchTypeOK, MainState
  <1>4. ListingInv' /\ IndexInv'
    BY <1>0, <1>1 DEF IInv, ListingInv, IndexInv
  <1>j. \A j \in Job : ToCome(j)
    <2> SUFFICES ASSUME NEW j \in Job PROVE ToCome(j)
      OBVIOUS
    <2>1. PICK i \in Slot : p_arr[i] = j
      BY <1>0, SlotFacts
    <2> QED  BY <1>0, <2>1, SlotFacts DEF Slot
  <1>5. JobsInv'
    <2>1. \A j \in Job : ToCome(j)'
      BY <1>0, <1>j DEF ToCome, Quiet
    <2> QED  BY <1>0, <1>2, <2>1 DEF JobsInv, Slot
  <1>6. ClockInv'
    <2>1. N > 0 => p_arr'[0] \in Job
      BY <1>2 DEF Slot
    <2>2. N > 0 => arrive[p_arr'[0]] \in Nat
      BY <2>1 DEF IInv, TypeOK, DispatchTypeOK
    <2>3. upcoming' = p_arr'[0]
      BY <1>0 DEF upcoming
    <2> QED  BY <1>0, <2>2, <2>3 DEF ClockInv, Slicing
  <1>7. FdInv'
    BY <1>0, <1>j DEF FdInv, ToCome, Alive
  <1>8. StampInv' /\ SliceInv' /\ CurrentInv' /\ ExitInv'
    BY <1>0 DEF IInv, StampInv, SliceInv, CurrentInv, ExitInv, InFlight, Slicing
  <1>9. IsRing(Ring)'
    BY <1>0, SameRing DEF IInv
  <1> QED  BY <1>3, <1>4, <1>5, <1>6, <1>7, <1>8, <1>9 DEF IInv

(* The top of the loop.                                                     *)
LEMMA LoopInv == IInv /\ Loop => IInv'
  <1> SUFFICES ASSUME IInv, Loop PROVE IInv'
    OBVIOUS
  <1> USE NIsNat
  <1>0. /\ pc = "loop" /\ finish < N /\ pc' \in {"fork", "choose"}
        /\ \/ Due /\ OpenPipes({upcoming}) /\ pc' = "fork"
           \/ UNCHANGED fds /\ pc' = "choose"
        /\ UNCHANGED <<arrive, need, state, prio, left, x, pipe, elapsed, began, ended>>
        /\ UNCHANGED <<p_arr, next, finish, cur_time, remain, remain_time, ts>>
        /\ UNCHANGED <<cur_job, nxt, last, nodes, kind, t, printed, list>>
    BY DEF Loop, At, input, child, history, list, record
  <1>1. pc' = "fork" => next < N /\ arrive[upcoming] = cur_time /\ upcoming \in Job
    BY <1>0, MainFacts DEF Due
  <1>2. /\ writers' \in [Job -> SUBSET Proc] /\ readers' \in [Job -> SUBSET Proc]
        /\ \A j \in Job : \/ writers'[j] = writers[j] /\ readers'[j] = readers[j]
                          \/ pc' = "fork" /\ j = upcoming
        /\ pc' = "fork" => writers'[upcoming] = {Main} /\ readers'[upcoming] = {Main}
    <2>1. CASE pc' = "fork"
      BY <1>0, <1>1, <2>1 DEF OpenPipes, IInv, TypeOK, DispatchTypeOK, Proc
    <2>2. CASE pc' = "choose"
      BY <1>0, <2>2 DEF fds, IInv, TypeOK, DispatchTypeOK
    <2> QED  BY <1>0, <2>1, <2>2
  <1>3. TypeOK'
    BY <1>0, <1>2 DEF IInv, TypeOK, DispatchTypeOK, MainState
  <1>4. ListingInv' /\ IndexInv'
    BY <1>0, <1>1 DEF IInv, ListingInv, IndexInv
  <1>5. JobsInv'
    BY <1>0, SameJobs DEF InFlight
  <1>6. ClockInv'
    BY <1>0, <1>1 DEF IInv, ClockInv, Slicing, upcoming
  <1>7. FdInv'
    <2>0. \A j \in Job : /\ state[j] # "none" => Main \in writers[j]
                         /\ Alive(j) => j \in readers[j]
      BY <1>0 DEF IInv, FdInv
    <2>1. ASSUME NEW j \in Job
          PROVE  /\ state[j] # "none" => Main \in writers'[j]
                 /\ Alive(j) => j \in readers'[j]
      <3>1. CASE pc' = "fork" /\ j = upcoming
        <4>1. ToCome(j)
          BY <1>0, <1>1, <3>1, SlotFacts, MainFacts
        <4> QED  BY <4>1 DEF ToCome, Alive
      <3>2. CASE ~(pc' = "fork" /\ j = upcoming)
        BY <1>2, <2>0, <3>2
      <3> QED  BY <3>1, <3>2
    <2>2. upcoming' = upcoming
      BY <1>0 DEF upcoming
    <2> QED  BY <1>0, <1>2, <2>1, <2>2 DEF FdInv, Alive
  <1>8. StampInv' /\ SliceInv' /\ CurrentInv' /\ ExitInv'
    BY <1>0 DEF IInv, StampInv, SliceInv, CurrentInv, ExitInv, InFlight, Slicing
  <1>9. IsRing(Ring)'
    BY <1>0, SameRing DEF IInv
  <1> QED  BY <1>3, <1>4, <1>5, <1>6, <1>7, <1>8, <1>9 DEF IInv

(* fork() of the job that is due, and its node at the end of the ring.      *)
LEMMA ForkChildInv == IInv /\ ForkChild => IInv'
  <1> SUFFICES ASSUME IInv, ForkChild PROVE IInv'
    OBVIOUS
  <1> USE NIsNat
  <1>u. PICK u \in Job : u = upcoming /\ next < N
    BY MainFacts DEF ForkChild, At, IInv, IndexInv
  <1>0. /\ pc = "fork" /\ pc' = "choose" /\ arrive[u] = cur_time /\ cur_time = elapsed
        /\ Spawn(u, need[u], TRUE) /\ AddList(u) /\ next' = next + 1 /\ finish < N
        /\ UNCHANGED <<input, elapsed, history>>
        /\ UNCHANGED <<arrive, need, elapsed, began, ended, p_arr, finish, cur_time>>
        /\ UNCHANGED <<remain, remain_time, ts, kind, t, printed>>
        /\ Main \in writers[u] /\ Main \in readers[u]
    BY <1>u DEF ForkChild, At, IInv, IndexInv, ClockInv, FdInv, input, history, record
  <1>1. /\ next \in Slot /\ next \in Nat /\ u = p_arr[next] /\ finish \in 0 .. N
        /\ finish + Cardinality(nodes) = next /\ Cardinality(nodes) \in Nat
        /\ nodes \subseteq Job /\ nxt \in [Job -> Proc] /\ last \in [Job -> Proc]
        /\ next' \in 0 .. N
    BY <1>0, <1>u, MainFacts DEF Slot
  <1>2. ToCome(u) /\ u \notin nodes
    BY <1>0, <1>1, SlotFacts
  <1>3. /\ Cardinality(nodes)' = Cardinality(nodes) + 1 /\ IsRing(Ring)'
        /\ nxt' \in [Job -> Proc] /\ last' \in [Job -> Proc]
    <2>1. PICK r : r = Ring /\ IsRing(r)
      BY DEF IInv
    <2>2. PICK q : q = Append(r, u)
      OBVIOUS
    <2>3. /\ IsRing(q)' /\ Cardinality(nodes)' = Cardinality(nodes) + 1
          /\ nxt' \in [Job -> Proc] /\ last' \in [Job -> Proc]
      BY <1>0, <1>1, <1>2, <2>1, <2>2, RingAdd
    <2> QED  BY <2>3, NextRing
  <1>4. /\ nodes' = nodes \cup {u} /\ cur_job' \in nodes'
        /\ cur_job' = IF cur_job = NULL THEN u ELSE cur_job
    BY <1>0, MainFacts DEF AddList
  <1>5. DispatchTypeOK /\ need[u] \in Int /\ TRUE \in BOOLEAN
    <2>1. DispatchTypeOK
      BY DEF IInv, TypeOK
    <2>2. need \in [Job -> Nat]
      BY <2>1 DEF DispatchTypeOK
    <2> QED  BY <2>1, <2>2
  <1>6. /\ DispatchTypeOK'
        /\ state'[u] = "forked" /\ left'[u] = need[u]
        /\ \A k \in Job : k # u => state'[k] = state[k] /\ left'[k] = left[k]
        /\ \A k \in Job : writers'[k] = IF Main \in writers[k] THEN writers[k] \cup {u}
                                                               ELSE writers[k]
        /\ \A k \in Job : k # u => readers'[k] = IF Main \in readers[k] THEN readers[k] \cup {u}
                                                                        ELSE readers[k]
        /\ u \in readers'[u]
    BY <1>0, <1>5, SpawnFacts
  <1>7. x' = x /\ pipe' = pipe
    BY <1>0 DEF Spawn
  <1>8. TypeOK'
    BY <1>0, <1>1, <1>3, <1>4, <1>6 DEF IInv, TypeOK, MainState
  <1>9. ListingInv'
    BY <1>0 DEF IInv, ListingInv
  <1>10. IndexInv'
    BY <1>0, <1>1, <1>3, <1>4 DEF IndexInv
  <1>11. JobsInv'
    <2> SUFFICES ASSUME NEW i \in Slot, NEW j \in Job, j = p_arr[i]
                 PROVE  /\ next + 1 <= i => ToCome(j)' /\ j \notin nodes'
                        /\ i < next + 1 /\ j \notin nodes' => Finished(j)'
                        /\ j \in nodes' => Resting(j)'
      BY <1>0, MainFacts DEF JobsInv
    <2>1. CASE j = u
      <3>1. i = next
        BY <1>0, <1>1, <2>1, SlotFacts
      <3>2. Resting(j)'
        BY <1>0, <1>2, <1>6, <1>7, <2>1 DEF Resting, ToCome, Quiet
      <3> QED  BY <1>1, <1>4, <2>1, <3>1, <3>2
    <2>2. CASE j # u
      <3>1. state'[j] = state[j] /\ left'[j] = left[j]
        BY <1>6, <2>2
      <3>2. /\ ToCome(j) => ToCome(j)'
            /\ Finished(j) => Finished(j)'
            /\ Resting(j) => Resting(j)'
        BY <1>0, <1>7, <3>1 DEF ToCome, Finished, Resting, Quiet
      <3>3. i # next /\ i \in Int
        BY <1>1, <2>2 DEF Slot
      <3>4. /\ next <= i => ToCome(j) /\ j \notin nodes
            /\ i < next /\ j \notin nodes => Finished(j)
            /\ j \in nodes => Resting(j)
        BY <1>0, SlotFacts DEF InFlight
      <3> QED  BY <1>1, <1>4, <2>2, <3>2, <3>3, <3>4
    <2> QED  BY <2>1, <2>2
  <1>12. ClockInv'
    <2>1. next' < N => cur_time <= arrive[p_arr[next + 1]]
      <3> SUFFICES ASSUME next' < N PROVE arrive[p_arr[next]] <= arrive[p_arr[next + 1]]
        BY <1>0, <1>1
      <3>1. next + 1 \in Slot /\ next <= next + 1
        BY <1>0, <1>1 DEF Slot
      <3> QED  BY <1>0, <1>1, <3>1 DEF IInv, ListingInv
    <2>2. upcoming' = p_arr[next + 1]
      BY <1>0 DEF upcoming
    <2> QED  BY <1>0, <2>1, <2>2 DEF ClockInv, Slicing
  <1>13. FdInv'
    <2> SUFFICES ASSUME NEW j \in Job
                 PROVE  /\ state'[j] # "none" => Main \in writers'[j]
                        /\ Alive(j)' => j \in readers'[j]
      BY <1>0 DEF FdInv
    <2>1. CASE j = u
      BY <1>0, <1>6, <2>1
    <2>2. CASE j # u
      <3>1. /\ state[j] # "none" => Main \in writers[j]
            /\ Alive(j) => j \in readers[j]
        BY <1>0 DEF IInv, FdInv
      <3> QED  BY <1>6, <2>2, <3>1 DEF Alive
    <2> QED  BY <2>1, <2>2
  <1>14. StampInv'
    <2>1. left' = left
      <3>1. \A k \in Job : left'[k] = left[k]
        BY <1>2, <1>6 DEF ToCome
      <3> QED  BY <1>6, <3>1 DEF IInv, TypeOK, DispatchTypeOK
    <2>2. \A i \in 1 .. Len(printed) : state'[printed[i]] = "reaped"
      <3> SUFFICES ASSUME NEW i \in 1 .. Len(printed) PROVE state'[printed[i]] = "reaped"
        OBVIOUS
      <3>1. printed[i] \in Job /\ state[printed[i]] = "reaped"
        BY DEF IInv, TypeOK, StampInv
      <3> QED  BY <1>2, <1>6, <3>1 DEF ToCome
    <2> QED  BY <1>0, <2>1, <2>2 DEF IInv, StampInv, InFlight
  <1>15. SliceInv' /\ CurrentInv' /\ ExitInv'
    BY <1>0 DEF SliceInv, CurrentInv, ExitInv, InFlight, Slicing
  <1> QED  BY <1>3, <1>8, <1>9, <1>10, <1>11, <1>12, <1>13, <1>14, <1>15 DEF IInv

(* main leaves: fork() has failed or every job is done.                     *)
LEMMA LeaveInv ==
  ASSUME IInv, pc = "fork" \/ (pc = "loop" /\ finish = N), Exit,
         UNCHANGED <<input, child, elapsed, history, list, record, next, finish, cur_time,
                     remain, kind, t>>
  PROVE  IInv'
  <1> USE NIsNat
  <1>0. /\ pc \in {"loop", "fork"} /\ pc' = "exited" /\ DropFds(Main)
        /\ UNCHANGED <<arrive, need, state, prio, left, x, pipe, elapsed, began, ended>>
        /\ UNCHANGED <<p_arr, next, finish, cur_time, remain, remain_time, ts>>
        /\ UNCHANGED <<cur_job, nxt, last, nodes, kind, t, printed, list>>
    BY DEF Exit, input, child, history, list, record
  <1>1. TypeOK'
    <2>1. writers' \in [Job -> SUBSET Proc] /\ readers' \in [Job -> SUBSET Proc]
      BY <1>0, DropFdsType DEF IInv, TypeOK
    <2> QED  BY <1>0, <2>1 DEF IInv, TypeOK, DispatchTypeOK, MainState
  <1>2. ListingInv' /\ IndexInv'
    BY <1>0 DEF IInv, ListingInv, IndexInv
  <1>3. ClockInv'
    BY <1>0 DEF IInv, ClockInv, upcoming, Slicing
  <1>4. ExitInv'
    <2>1. \A j \in Job : pipe'[j] = << >> /\ state'[j] # "run"
      BY <1>0, AllQuiet DEF Quiet, InFlight
    <2> QED  BY <2>1 DEF ExitInv
  <1>5. StampInv'
    BY <1>0 DEF IInv, StampInv, InFlight
  <1>6. JobsInv' /\ SliceInv' /\ CurrentInv' /\ FdInv'
    BY <1>0 DEF JobsInv, SliceInv, CurrentInv, FdInv, InFlight, Slicing
  <1>7. IsRing(Ring)'
    BY <1>0, SameRing DEF IInv
  <1> QED  BY <1>1, <1>2, <1>3, <1>4, <1>5, <1>6, <1>7 DEF IInv

(* The list is empty.                                                       *)
LEMMA StartIdleInv == IInv /\ StartIdle => IInv'
  <1> SUFFICES ASSUME IInv, StartIdle PROVE IInv'
    OBVIOUS
  <1> USE NIsNat
  <1>0. /\ pc = "choose" /\ pc' = "idle" /\ t' = 0 /\ cur_job = NULL
        /\ UNCHANGED <<arrive, need, state, prio, left, x, pipe, writers, readers, elapsed, began, ended>>
        /\ UNCHANGED <<p_arr, next, finish, cur_time, remain, remain_time, ts>>
        /\ UNCHANGED <<cur_job, nxt, last, nodes, kind, printed, list>>
    BY DEF StartIdle, At, dispatchVars, input, child, fds, history, list, record
  <1>1. nodes = {} /\ next < N /\ cur_time \in Nat
    BY <1>0, MainFacts DEF IInv, IndexInv
  <1>2. TypeOK'
    BY <1>0 DEF IInv, TypeOK, DispatchTypeOK, MainState
  <1>3. ListingInv' /\ IndexInv'
    BY <1>0, <1>1 DEF IInv, ListingInv, IndexInv
  <1>4. JobsInv'
    BY <1>0, SameJobs DEF InFlight
  <1>5. ClockInv'
    BY <1>0, <1>1 DEF IInv, ClockInv, upcoming, Slicing
  <1>6. FdInv' /\ StampInv' /\ SliceInv' /\ CurrentInv' /\ ExitInv'
    BY <1>0 DEF IInv, FdInv, StampInv, SliceInv, CurrentInv, ExitInv, InFlight, Slicing, Alive
  <1>7. IsRing(Ring)'
    BY <1>0, SameRing DEF IInv
  <1> QED  BY <1>2, <1>3, <1>4, <1>5, <1>6, <1>7 DEF IInv

(* wait_for_job().                                                          *)
LEMMA IdleInv == IInv /\ Idle => IInv'
  <1> SUFFICES ASSUME IInv, Idle PROVE IInv'
    OBVIOUS
  <1> USE NIsNat, QuantumAssumption
  <1>0. /\ pc = "idle" /\ next < N /\ nodes = {} /\ finish < N /\ cur_time + t = elapsed
        /\ cur_time + t <= arrive[upcoming]
        /\ cur_time \in Nat /\ t \in Nat /\ elapsed \in Nat /\ arrive[upcoming] \in Nat
        /\ UNCHANGED <<arrive, need, state, prio, left, x, pipe, writers, readers, began, ended>>
        /\ UNCHANGED <<p_arr, next, finish, remain_time, ts>>
        /\ UNCHANGED <<cur_job, nxt, last, nodes, kind, printed, list>>
    BY MainFacts DEF Idle, At, IInv, IndexInv, ClockInv, input, child, fds, history, list, record
  <1>1. \/ /\ t < arrive[upcoming] - cur_time /\ t' = t + 1 /\ elapsed' = elapsed + 1
           /\ pc' = "idle" /\ cur_time' = cur_time /\ remain' = remain
        \/ /\ cur_time' = arrive[upcoming] /\ remain' = Quantum /\ pc' = "loop"
           /\ t' = t /\ elapsed' = elapsed /\ cur_time' = elapsed
    BY <1>0 DEF Idle
  <1>2. /\ cur_time' \in Nat /\ t' \in Nat /\ elapsed' \in Nat /\ pc' \in {"idle", "loop"}
        /\ remain' \in 1 .. Quantum /\ remain' = Quantum
    BY <1>0, <1>1, MainFacts DEF IInv, IndexInv
  <1>3. TypeOK'
    BY <1>0, <1>2 DEF IInv, TypeOK, DispatchTypeOK, MainState
  <1>4. ListingInv' /\ IndexInv'
    BY <1>0, <1>2 DEF IInv, ListingInv, IndexInv
  <1>5. JobsInv'
    BY <1>0, <1>2, SameJobs DEF InFlight
  <1>6. ClockInv'
    <2>1. upcoming' = upcoming
      BY <1>0 DEF upcoming
    <2> QED  BY <1>0, <1>1, <2>1 DEF ClockInv, Slicing
  <1>7. StampInv'
    BY <1>0, <1>2 DEF IInv, StampInv, InFlight
  <1>8. FdInv' /\ SliceInv' /\ CurrentInv' /\ ExitInv'
    BY <1>0, <1>2 DEF IInv, FdInv, SliceInv, CurrentInv, ExitInv, InFlight, Slicing, Alive
  <1>9. IsRing(Ring)'
    BY <1>0, SameRing DEF IInv
  <1> QED  BY <1>3, <1>4, <1>5, <1>6, <1>7, <1>8, <1>9 DEF IInv

-----------------------------------------------------------------------------
(* The dispatch of a slice.                                                 *)

(* The branch taken, and what the length of the slice is then.              *)
LEMMA SliceFacts ==
  ASSUME TypeOK, IsRing(Ring), IndexInv, Choose, NEW c \in Job, c = cur_job,
         next < N => cur_time <= arrive[upcoming]
  PROVE  /\ kind' \in {"to_fork", "to_next", "to_die"} /\ t' \in Nat
         /\ t' <= remain_time[c] /\ t' <= remain
         /\ kind' = "to_fork" => /\ next < N /\ cur_time + t' = arrive[upcoming]
                                 /\ t' < remain_time[c] /\ t' < remain
         /\ kind' = "to_next" => t' = remain /\ t' < remain_time[c]
         /\ kind' = "to_die" => t' = remain_time[c]
         /\ next < N => cur_time + t' <= arrive[upcoming]
  <1>1. /\ cur_time \in Nat /\ remain \in Nat /\ remain_time[c] \in Nat
        /\ next < N => arrive[upcoming] \in Nat /\ cur_time <= arrive[upcoming]
    BY ListFacts DEF TypeOK
  <1>2. /\ kind' = IF ToFork THEN "to_fork"
                   ELSE IF remain < remain_time[c] THEN "to_next" ELSE "to_die"
        /\ t' = CASE kind' = "to_fork" -> arrive[upcoming] - cur_time
                  [] kind' = "to_next" -> remain
                  [] kind' = "to_die" -> remain_time[c]
    BY DEF Choose
  <1>3. CASE ToFork
    <2>1. kind' = "to_fork" /\ t' = arrive[upcoming] - cur_time
      BY <1>2, <1>3
    <2>2. /\ next < N /\ arrive[upcoming] - cur_time < remain
          /\ arrive[upcoming] - cur_time < remain_time[c]
      BY <1>3 DEF ToFork
    <2>3. t' \in Nat /\ t' < remain /\ t' < remain_time[c] /\ cur_time + t' = arrive[upcoming]
      BY <1>1, <2>1, <2>2
    <2> QED  BY <1>1, <2>1, <2>2, <2>3
  <1>4. CASE ~ToFork /\ remain < remain_time[c]
    <2>1. kind' = "to_next" /\ t' = remain
      BY <1>2, <1>4
    <2>2. next < N => \/ remain <= arrive[upcoming] - cur_time
                      \/ remain_time[c] <= arrive[upcoming] - cur_time
      BY <1>1, <1>4 DEF ToFork
    <2>3. next < N => cur_time + remain <= arrive[upcoming]
      BY <1>1, <1>4, <2>2
    <2> QED  BY <1>1, <1>4, <2>1, <2>3
  <1>5. CASE ~ToFork /\ ~(remain < remain_time[c])
    <2>1. kind' = "to_die" /\ t' = remain_time[c]
      BY <1>2, <1>5
    <2>2. next < N => \/ remain <= arrive[upcoming] - cur_time
                      \/ remain_time[c] <= arrive[upcoming] - cur_time
      BY <1>1, <1>5 DEF ToFork
    <2>3. next < N => cur_time + remain_time[c] <= arrive[upcoming]
      BY <1>1, <1>5, <2>2
    <2> QED  BY <1>1, <1>5, <2>1, <2>3
  <1> QED  BY <1>3, <1>4, <1>5

(* The choice of the branch; nothing is dispatched yet.                     *)
LEMMA ChooseInv == IInv /\ Choose => IInv'
  <1> SUFFICES ASSUME IInv, Choose PROVE IInv'
    OBVIOUS
  <1> USE NIsNat
  <1>c. PICK c \in Job : c = cur_job /\ c \in nodes
    BY MainFacts DEF Choose
  <1>0. /\ pc = "choose" /\ pc' \in {"write", "account"} /\ finish < N
        /\ pc' = IF t' > 0 THEN "write" ELSE "account"
        /\ UNCHANGED <<arrive, need, state, prio, left, x, pipe, writers, readers, elapsed, began, ended>>
        /\ UNCHANGED <<p_arr, next, finish, cur_time, remain, remain_time, ts>>
        /\ UNCHANGED <<cur_job, nxt, last, nodes, printed, list>>
    BY DEF Choose, At, IInv, IndexInv, dispatchVars, input, child, fds, history, list, record
  <1>1. /\ kind' \in {"to_fork", "to_next", "to_die"} /\ t' \in Nat
        /\ t' <= remain_time[c] /\ t' <= remain
        /\ kind' = "to_fork" => /\ next < N /\ cur_time + t' = arrive[upcoming]
                                /\ t' < remain_time[c] /\ t' < remain
        /\ kind' = "to_next" => t' = remain /\ t' < remain_time[c]
        /\ kind' = "to_die" => t' = remain_time[c]
        /\ next < N => cur_time + t' <= arrive[upcoming]
    BY <1>c, <1>0, SliceFacts DEF IInv, ClockInv
  <1>2. cur_time = elapsed /\ upcoming' = upcoming /\ (pc' = "account" => t' = 0)
    BY <1>0, <1>1 DEF IInv, ClockInv, upcoming
  <1>3. TypeOK'
    BY <1>0, <1>1 DEF IInv, TypeOK, DispatchTypeOK, MainState
  <1>4. ListingInv' /\ IndexInv'
    BY <1>0 DEF IInv, ListingInv, IndexInv
  <1>5. ~InFlight'
    BY <1>0, <1>1 DEF InFlight
  <1>6. JobsInv'
    BY <1>0, <1>5, SameJobs DEF InFlight
  <1>7. SliceInv'
    <2>1. pc' = "write" => t' > 0
      BY <1>0
    <2> QED  BY <1>c, <1>0, <1>1, <1>2, <2>1 DEF SliceInv
  <1>8. ClockInv'
    BY <1>0, <1>1, <1>2 DEF ClockInv
  <1>9. FdInv' /\ StampInv' /\ CurrentInv' /\ ExitInv'
    BY <1>0, <1>5 DEF IInv, FdInv, StampInv, CurrentInv, ExitInv, Alive
  <1>10. IsRing(Ring)'
    BY <1>0, SameRing DEF IInv
  <1> QED  BY <1>3, <1>4, <1>6, <1>7, <1>8, <1>9, <1>10 DEF IInv

(* run_job(): the time stamp and the write().                               *)
LEMMA RunJobWriteInv == IInv /\ RunJobWrite => IInv'
  <1> SUFFICES ASSUME IInv, RunJobWrite PROVE IInv'
    OBVIOUS
  <1> USE NIsNat
  <1>c. PICK c \in Job : c = cur_job
    BY CurrentFacts DEF RunJobWrite, At, Slicing
  <1>p. pc = "write" /\ Slicing /\ ~InFlight
    BY DEF RunJobWrite, At, Slicing, InFlight
  <1>1. /\ c \in nodes /\ Resting(c) /\ t \in Nat /\ t > 0 /\ elapsed \in Nat
        /\ cur_time = elapsed /\ finish < N
    BY <1>c, <1>p, CurrentFacts, MainFacts DEF IInv, SliceInv, ClockInv, IndexInv
  <1>2. c \in readers[c]
    BY <1>1, <1>p DEF IInv, FdInv, Resting, Alive
  <1>0. /\ pc' = "raise"
        /\ pipe' = [pipe EXCEPT ![c] = Append(@, t)]
        /\ ts' = IF remain_time[c] = need[c] THEN [ts EXCEPT ![c][0] = elapsed] ELSE ts
        /\ UNCHANGED <<arrive, need, state, prio, left, x, writers, readers, elapsed, began, ended>>
        /\ UNCHANGED <<p_arr, next, finish, cur_time, remain, remain_time>>
        /\ UNCHANGED <<cur_job, nxt, last, nodes, kind, t, printed, list>>
    BY <1>c, <1>2 DEF RunJobWrite, FirstDispatch, Send, input, fds, history, list
  <1>3. /\ pipe' \in [Job -> Seq(Nat)] /\ pipe'[c] = <<t>>
        /\ \A j \in Job : j # c => pipe'[j] = pipe[j]
    <2>1. pipe \in [Job -> Seq(Nat)] /\ pipe[c] = << >>
      BY <1>1 DEF Resting, Quiet, IInv, TypeOK, DispatchTypeOK
    <2>2. Append(pipe[c], t) = <<t>> /\ <<t>> \in Seq(Nat)
      BY <1>1, <2>1, OneMessage
    <2> QED  BY <1>0, <2>1, <2>2
  <1>4. /\ ts' \in [Job -> [0 .. 1 -> Nat \cup {Never}]]
        /\ \A j \in Job : j # c \/ remain_time[c] # need[c] => ts'[j] = ts[j]
        /\ remain_time[c] = need[c] => ts'[c][0] = elapsed
    <2>0. ts \in [Job -> [0 .. 1 -> Nat \cup {Never}]]
      BY DEF IInv, TypeOK
    <2>1. CASE remain_time[c] # need[c]
      BY <1>0, <2>0, <2>1
    <2>2. CASE remain_time[c] = need[c]
      <3>1. ts' = [ts EXCEPT ![c] = [@ EXCEPT ![0] = elapsed]]
        BY <1>0, <2>2
      <3>2. [ts[c] EXCEPT ![0] = elapsed] \in [0 .. 1 -> Nat \cup {Never}]
        BY <1>1, <2>0
      <3>3. [ts[c] EXCEPT ![0] = elapsed][0] = elapsed
        BY <2>0
      <3> QED  BY <2>0, <2>2, <3>1, <3>2, <3>3
    <2> QED  BY <2>1, <2>2
  <1>5. TypeOK'
    BY <1>0, <1>3, <1>4 DEF IInv, TypeOK, DispatchTypeOK, MainState
  <1>6. ListingInv' /\ IndexInv'
    BY <1>p, <1>0, <1>1 DEF IInv, ListingInv, IndexInv
  <1>7. InFlight' /\ upcoming' = upcoming
    BY <1>0, <1>1 DEF InFlight, upcoming
  <1>8. JobsInv'
    BY <1>c, <1>p, <1>0, <1>3, <1>7, OtherJobs
  <1>9. SliceInv'
    BY <1>p, <1>0, <1>1, <1>7 DEF IInv, SliceInv, Slicing
  <1>10. CurrentInv'
    <2>1. Handed(c)'
      BY <1>0, <1>1, <1>3 DEF Handed, Resting, Quiet
    <2> QED  BY <1>c, <1>0, <2>1 DEF CurrentInv, Handed
  <1>11. ClockInv'
    BY <1>p, <1>0, <1>7 DEF IInv, ClockInv, Slicing
  <1>12. StampInv'
    <2>1. ASSUME NEW j \in Job, left[j] < need[j]
          PROVE  began[j] # Never /\ began[j] = ts'[j][0]
      <3>1. began[j] # Never /\ began[j] = ts[j][0]
        BY <2>1 DEF IInv, StampInv
      <3>2. j # c \/ remain_time[c] # need[c]
        <4>1. left[j] \in Int /\ need[j] \in Int
          BY DEF IInv, TypeOK, DispatchTypeOK
        <4> QED  BY <1>1, <2>1, <4>1 DEF Resting
      <3> QED  BY <1>4, <3>1, <3>2
    <2>2. left[c] = need[c] => ts'[c][0] = elapsed
      BY <1>1, <1>4 DEF Resting
    <2>3. \A i \in 1 .. Len(printed) :
            /\ state[printed[i]] = "reaped" /\ ts'[printed[i]][0] = began[printed[i]]
            /\ ts'[printed[i]][1] = ended[printed[i]]
      <3> SUFFICES ASSUME NEW i \in 1 .. Len(printed)
                   PROVE  /\ state[printed[i]] = "reaped"
                          /\ ts'[printed[i]] = ts[printed[i]]
                          /\ ts[printed[i]][0] = began[printed[i]]
                          /\ ts[printed[i]][1] = ended[printed[i]]
        OBVIOUS
      <3>1. /\ printed[i] \in Job /\ state[printed[i]] = "reaped"
            /\ ts[printed[i]][0] = began[printed[i]] /\ ts[printed[i]][1] = ended[printed[i]]
        BY DEF IInv, TypeOK, StampInv
      <3>2. printed[i] # c
        BY <1>1, <3>1 DEF Resting
      <3> QED  BY <1>4, <3>1, <3>2
    <2> QED  BY <1>c, <1>0, <2>1, <2>2, <2>3 DEF IInv, StampInv
  <1>13. FdInv' /\ ExitInv'
    BY <1>p, <1>0 DEF IInv, FdInv, ExitInv, Alive
  <1>14. IsRing(Ring)'
    BY <1>0, SameRing DEF IInv
  <1> QED  BY <1>5, <1>6, <1>8, <1>9, <1>10, <1>11, <1>12, <1>13, <1>14 DEF IInv

(* run_job(): the child is raised above main.                               *)
LEMMA RunJobRaiseInv == IInv /\ RunJobRaise => IInv'
  <1> SUFFICES ASSUME IInv, RunJobRaise PROVE IInv'
    OBVIOUS
  <1> USE NIsNat
  <1>c. PICK c \in Job : c = cur_job
    BY CurrentFacts DEF RunJobRaise, At, Slicing
  <1>p. pc = "raise" /\ Slicing /\ InFlight /\ finish < N /\ t > 0 /\ state[c] # "reaped"
    <2>1. pc = "raise" /\ Slicing /\ t > 0 /\ finish < N
      BY DEF RunJobRaise, At, Slicing, IInv, SliceInv, IndexInv
    <2>2. Handed(c) \/ Taken(c)
      BY <1>c, <2>1 DEF IInv, CurrentInv, InFlight
    <2> QED  BY <2>1, <2>2 DEF InFlight, Handed, Taken
  <1>0. /\ pc' = "account"
        /\ prio' = [prio EXCEPT ![c] = RunPrio]
        /\ UNCHANGED <<arrive, need, state, left, x, pipe, writers, readers, elapsed, began, ended>>
        /\ UNCHANGED <<p_arr, next, finish, cur_time, remain, remain_time, ts>>
        /\ UNCHANGED <<cur_job, nxt, last, nodes, kind, t, printed, list>>
    BY <1>c, <1>p DEF RunJobRaise, Raise, input, fds, history, list, record
  <1>1. prio' \in [Job -> {YieldPrio, MainPrio, RunPrio}] /\ prio'[c] = RunPrio
    BY <1>0 DEF IInv, TypeOK, DispatchTypeOK
  <1>2. TypeOK'
    BY <1>0, <1>1 DEF IInv, TypeOK, DispatchTypeOK, MainState
  <1>3. ListingInv' /\ IndexInv'
    BY <1>p, <1>0 DEF IInv, ListingInv, IndexInv
  <1>4. InFlight' /\ upcoming' = upcoming
    BY <1>p, <1>0 DEF InFlight, upcoming
  <1>5. JobsInv'
    BY <1>c, <1>p, <1>0, <1>4, OtherJobs
  <1>6. SliceInv'
    BY <1>p, <1>0, <1>4 DEF IInv, SliceInv, Slicing
  <1>7. CurrentInv'
    <2>1. Handed(c) \/ Taken(c)
      BY <1>c, <1>p DEF IInv, CurrentInv
    <2>2. Handed(c)' \/ Taken(c)'
      BY <1>0, <2>1 DEF Handed, Taken
    <2> QED  BY <1>c, <1>0, <1>1, <2>2 DEF CurrentInv, Handed, Taken
  <1>8. ClockInv'
    BY <1>p, <1>0, <1>4 DEF IInv, ClockInv, Slicing
  <1>9. FdInv' /\ ExitInv'
    BY <1>p, <1>0 DEF IInv, FdInv, ExitInv, Alive
  <1>10. StampInv'
    BY <1>p, <1>0, <1>4 DEF IInv, StampInv
  <1>11. IsRing(Ring)'
    BY <1>0, SameRing DEF IInv
  <1> QED  BY <1>2, <1>3, <1>5, <1>6, <1>7, <1>8, <1>9, <1>10, <1>11 DEF IInv

(* main has the CPU again after raising the child, and that can only be     *)
(* because the child has burnt the whole slice.                             *)
LEMMA AccountFacts ==
  ASSUME IInv, At("account"), NEW c \in Job, c = cur_job
  PROVE  /\ Quiet(c) /\ left[c] = remain_time[c] - t /\ cur_time + t = elapsed
         /\ kind # "to_die" => state[c] \in {"forked", "scan"} /\ left[c] > 0
         /\ kind = "to_die" => left[c] = 0
         /\ kind = "to_die" /\ t > 0 => state[c] = "zombie" /\ Taken(c)
         /\ t = 0 => Resting(c)
  <1>0. /\ pc = "account" /\ MainMayRun /\ Slicing /\ c \in nodes
        /\ remain_time[c] \in Nat /\ left[c] \in Int /\ x[c] \in Nat
        /\ cur_time \in Nat /\ elapsed \in Nat /\ t \in Nat
        /\ kind \in {"to_fork", "to_next", "to_die"}
        /\ kind # "to_die" => t < remain_time[c]
        /\ kind = "to_die" => t = remain_time[c]
    <2>1. pc = "account" /\ MainMayRun /\ Slicing
      BY DEF At, Slicing
    <2>2. /\ c \in nodes /\ remain_time[c] \in Nat /\ left[c] \in Int /\ x[c] \in Nat
          /\ cur_time \in Nat /\ elapsed \in Nat /\ t \in Nat
      BY <2>1, CurrentFacts, MainFacts
    <2>3. kind \in {"to_fork", "to_next", "to_die"}
      BY DEF IInv, TypeOK
    <2> QED  BY <2>1, <2>2, <2>3 DEF IInv, SliceInv
  <1>1. CASE t = 0
    <2>1. Resting(c) /\ cur_time = elapsed
      BY <1>0, <1>1, CurrentFacts DEF InFlight, IInv, ClockInv
    <2> QED  BY <1>0, <1>1, <2>1 DEF Resting
  <1>2. CASE t # 0
    <2>1. /\ InFlight /\ (Handed(c) \/ Taken(c))
          /\ Handed(c) \/ state[c] = "run" => prio[c] = RunPrio
      <3>1. InFlight
        BY <1>0, <1>2 DEF InFlight
      <3> QED  BY <1>0, <3>1 DEF IInv, CurrentInv
    <2>2. ~Runnable(c) \/ prio[c] # RunPrio
      BY <1>0 DEF MainMayRun, RunPrio, MainPrio
    <2>3. ~Handed(c) /\ state[c] # "run"
      <3>1. <<t>> # << >>
        BY <1>0, OneMessage
      <3>2. Handed(c) \/ state[c] = "run" => Runnable(c)
        BY <3>1 DEF Handed, Runnable
      <3> QED  BY <2>1, <2>2, <3>2
    <2>4. Taken(c)
      BY <2>1, <2>3
    <2>5. /\ state[c] \in {"scan", "zombie"} /\ x[c] = 0 /\ pipe[c] = << >>
          /\ left[c] = remain_time[c] - t /\ cur_time + t = elapsed
          /\ state[c] = "scan" => left[c] > 0
          /\ state[c] = "zombie" => left[c] = 0
      <3>1. /\ state[c] \in {"scan", "zombie"} /\ pipe[c] = << >>
            /\ left[c] = remain_time[c] - t + x[c] /\ cur_time + t - x[c] = elapsed
            /\ state[c] = "scan" => x[c] = 0 /\ left[c] > 0
            /\ state[c] = "zombie" => x[c] = 0 /\ left[c] = 0
        BY <2>3, <2>4 DEF Taken
      <3>2. x[c] = 0
        BY <3>1
      <3>3. left[c] = remain_time[c] - t /\ cur_time + t = elapsed
        BY <1>0, <3>1, <3>2
      <3> QED  BY <3>1, <3>2, <3>3
    <2>6. left[c] = 0 <=> kind = "to_die"
      BY <1>0, <2>5
    <2> QED  BY <1>0, <1>2, <2>4, <2>5, <2>6 DEF Quiet
  <1> QED  BY <1>1, <1>2

(* The slice up to the next arrival is booked.                              *)
LEMMA AfterToForkInv == IInv /\ AfterToFork => IInv'
  <1> SUFFICES ASSUME IInv, AfterToFork PROVE IInv'
    OBVIOUS
  <1> USE NIsNat, QuantumAssumption
  <1>c. PICK c \in Job : c = cur_job /\ c \in nodes
    BY CurrentFacts DEF AfterToFork, At, Slicing
  <1>0. /\ pc = "account" /\ kind = "to_fork" /\ Slicing /\ pc' = "loop" /\ finish < N
        /\ remain' = remain - t
        /\ remain_time' = [remain_time EXCEPT ![c] = @ - t]
        /\ cur_time' = arrive[upcoming]
        /\ UNCHANGED <<arrive, need, state, prio, left, x, pipe, writers, readers, elapsed, began, ended>>
        /\ UNCHANGED <<p_arr, next, finish, ts>>
        /\ UNCHANGED <<cur_job, nxt, last, nodes, kind, t, printed, list>>
    BY <1>c DEF AfterToFork, At, Slicing, IInv, IndexInv, dispatchVars, input, child, fds, history, list
  <1>1. /\ next < N /\ cur_time + t = arrive[upcoming] /\ t < remain_time[c] /\ t < remain
        /\ arrive[upcoming] \in Nat /\ t \in Nat /\ remain \in Nat /\ remain <= Quantum
        /\ remain_time[c] \in Nat /\ remain_time[c] <= need[c] /\ need[c] \in Nat
    BY <1>c, <1>0, CurrentFacts, MainFacts DEF IInv, SliceInv, StampInv
  <1>2. /\ Quiet(c) /\ left[c] = remain_time[c] - t /\ cur_time + t = elapsed
        /\ state[c] \in {"forked", "scan"}
    <2>1. At("account")
      BY DEF AfterToFork
    <2> QED  BY <1>c, <1>0, <2>1, AccountFacts
  <1>3. /\ remain' \in 1 .. Quantum /\ cur_time' \in Nat /\ cur_time' = elapsed
        /\ remain_time' \in [Job -> Nat] /\ remain_time'[c] = left[c] /\ remain_time'[c] <= need[c]
        /\ \A j \in Job : j # c => remain_time'[j] = remain_time[j]
    <2>1. remain_time \in [Job -> Nat] /\ remain_time[c] - t \in Nat /\ remain_time[c] - t <= need[c]
      BY <1>1 DEF IInv, TypeOK
    <2> QED  BY <1>0, <1>1, <1>2, <2>1
  <1>4. TypeOK'
    BY <1>0, <1>3 DEF IInv, TypeOK, DispatchTypeOK, MainState
  <1>5. ListingInv' /\ IndexInv'
    BY <1>c, <1>0 DEF IInv, ListingInv, IndexInv
  <1>6. ~InFlight' /\ upcoming' = upcoming
    BY <1>0 DEF InFlight, upcoming
  <1>7. JobsInv'
    <2>1. Resting(c)'
      BY <1>0, <1>2, <1>3 DEF Resting, Quiet
    <2> QED  BY <1>c, <1>0, <1>3, <2>1, OtherJobs
  <1>8. ClockInv'
    <2>1. cur_time' = arrive[upcoming] /\ cur_time' = elapsed'
      BY <1>0, <1>3
    <2>2. cur_time' <= arrive[upcoming]
      BY <1>1, <2>1
    <2> QED  BY <1>0, <1>6, <2>1, <2>2 DEF ClockInv, Slicing
  <1>9. StampInv'
    BY <1>0, <1>3, <1>6 DEF IInv, StampInv
  <1>10. FdInv' /\ SliceInv' /\ CurrentInv' /\ ExitInv'
    BY <1>0, <1>6 DEF IInv, FdInv, SliceInv, CurrentInv, ExitInv, Alive, Slicing
  <1>11. IsRing(Ring)'
    BY <1>0, SameRing DEF IInv
  <1> QED  BY <1>4, <1>5, <1>7, <1>8, <1>9, <1>10, <1>11 DEF IInv

(* The quantum is over: it is booked, and the next of the ring is current.  *)
LEMMA AfterToNextInv == IInv /\ AfterToNext => IInv'
  <1> SUFFICES ASSUME IInv, AfterToNext PROVE IInv'
    OBVIOUS
  <1> USE NIsNat, QuantumAssumption
  <1>c. PICK c \in Job : c = cur_job /\ c \in nodes /\ c # NULL
    BY CurrentFacts DEF AfterToNext, At, Slicing
  <1>0. /\ pc = "account" /\ kind = "to_next" /\ Slicing /\ pc' = "loop" /\ finish < N
        /\ remain' = Quantum /\ cur_job' = nxt[c]
        /\ remain_time' = [remain_time EXCEPT ![c] = @ - remain]
        /\ cur_time' = cur_time + remain
        /\ UNCHANGED <<arrive, need, state, prio, left, x, pipe, writers, readers, elapsed, began, ended>>
        /\ UNCHANGED <<p_arr, next, finish, ts, nxt, last, nodes, kind, t, printed>>
    BY <1>c DEF AfterToNext, At, Slicing, IInv, IndexInv, dispatchVars, input, child, fds, history
  <1>1. /\ t = remain /\ t < remain_time[c] /\ t \in Nat /\ elapsed \in Nat
        /\ remain_time[c] \in Nat /\ remain_time[c] <= need[c] /\ need[c] \in Nat
        /\ next < N => cur_time + t <= arrive[upcoming]
    BY <1>c, <1>0, CurrentFacts, MainFacts DEF IInv, SliceInv, StampInv, ClockInv
  <1>2. /\ Quiet(c) /\ left[c] = remain_time[c] - t /\ cur_time + t = elapsed
        /\ state[c] \in {"forked", "scan"}
    <2>1. At("account")
      BY DEF AfterToNext
    <2> QED  BY <1>c, <1>0, <2>1, AccountFacts
  <1>3. /\ remain' \in 1 .. Quantum /\ cur_time' \in Nat /\ cur_time' = elapsed
        /\ remain_time' \in [Job -> Nat] /\ remain_time'[c] = left[c] /\ remain_time'[c] <= need[c]
        /\ \A j \in Job : j # c => remain_time'[j] = remain_time[j]
    <2>1. remain_time \in [Job -> Nat] /\ remain_time[c] - t \in Nat /\ remain_time[c] - t <= need[c]
      BY <1>1 DEF IInv, TypeOK
    <2> QED  BY <1>0, <1>1, <1>2, <2>1
  <1>r. IsRing(Ring)' /\ cur_job' \in nodes
    <2>1. PICK r : r = Ring /\ IsRing(r)
      BY DEF IInv
    <2>2. PICK q : q = Append(Tail(r), Head(r))
      OBVIOUS
    <2>3. IsRing(q)' /\ cur_job' \in nodes
      BY <1>c, <1>0, <2>1, <2>2, RingRotate
    <2> QED  BY <2>3, NextRing
  <1>4. TypeOK'
    BY <1>0, <1>3, <1>r DEF IInv, TypeOK, DispatchTypeOK, MainState
  <1>5. ListingInv' /\ IndexInv'
    BY <1>c, <1>0 DEF IInv, ListingInv, IndexInv
  <1>6. ~InFlight' /\ upcoming' = upcoming
    BY <1>0 DEF InFlight, upcoming
  <1>7. JobsInv'
    <2>1. Resting(c)'
      BY <1>0, <1>2, <1>3 DEF Resting, Quiet
    <2> QED  BY <1>c, <1>0, <1>3, <2>1, OtherJobs
  <1>8. ClockInv'
    BY <1>0, <1>1, <1>2, <1>3, <1>6 DEF ClockInv, Slicing
  <1>9. StampInv'
    BY <1>0, <1>3, <1>6 DEF IInv, StampInv
  <1>10. FdInv' /\ SliceInv' /\ CurrentInv' /\ ExitInv'
    BY <1>0, <1>6 DEF IInv, FdInv, SliceInv, CurrentInv, ExitInv, Alive, Slicing
  <1> QED  BY <1>r, <1>4, <1>5, <1>7, <1>8, <1>9, <1>10 DEF IInv

(* main is about to wait for the job that has run to its end.               *)
LEMMA StartWaitInv == IInv /\ StartWait => IInv'
  <1> SUFFICES ASSUME IInv, StartWait PROVE IInv'
    OBVIOUS
  <1> USE NIsNat
  <1>c. PICK c \in Job : c = cur_job
    BY CurrentFacts DEF StartWait, At, Slicing
  <1>0. /\ pc = "account" /\ kind = "to_die" /\ Slicing /\ pc' = "wait" /\ finish < N
        /\ UNCHANGED <<arrive, need, state, prio, left, x, pipe, writers, readers, elapsed, began, ended>>
        /\ UNCHANGED <<p_arr, next, finish, cur_time, remain, remain_time, ts>>
        /\ UNCHANGED <<cur_job, nxt, last, nodes, kind, t, printed, list>>
    BY DEF StartWait, At, Slicing, IInv, IndexInv, dispatchVars, input, child, fds, history, list, record
  <1>1. /\ t > 0 => state[c] = "zombie" /\ Taken(c)
        /\ t = 0 => Resting(c)
        /\ t \in Nat
    <2>1. At("account")
      BY DEF StartWait
    <2> QED  BY <1>c, <1>0, <2>1, AccountFacts, MainFacts
  <1>2. TypeOK'
    BY <1>0 DEF IInv, TypeOK, DispatchTypeOK, MainState
  <1>3. ListingInv' /\ IndexInv'
    BY <1>0 DEF IInv, ListingInv, IndexInv
  <1>4. (InFlight' <=> InFlight) /\ (InFlight' <=> t > 0) /\ upcoming' = upcoming
    BY <1>0 DEF InFlight, upcoming
  <1>5. JobsInv'
    <2>1. t = 0 => Resting(c)'
      BY <1>0, <1>1 DEF Resting, Quiet
    <2> QED  BY <1>c, <1>0, <1>1, <1>4, <2>1, OtherJobs
  <1>6. SliceInv' /\ ClockInv'
    BY <1>0, <1>4 DEF IInv, SliceInv, ClockInv, Slicing
  <1>7. CurrentInv'
    <2>1. t > 0 => Taken(c)'
      BY <1>0, <1>1 DEF Taken
    <2> QED  BY <1>c, <1>0, <1>1, <1>4, <2>1 DEF CurrentInv, Taken
  <1>8. StampInv'
    BY <1>0, <1>4 DEF IInv, StampInv
  <1>9. FdInv' /\ ExitInv'
    BY <1>0 DEF IInv, FdInv, ExitInv, Alive
  <1>10. IsRing(Ring)'
    BY <1>0, SameRing DEF IInv
  <1> QED  BY <1>2, <1>3, <1>5, <1>6, <1>7, <1>8, <1>9, <1>10 DEF IInv

(* wait(): the job is buried, its node freed and its result printed.        *)
LEMMA AfterToDieInv == IInv /\ AfterToDie => IInv'
  <1> SUFFICES ASSUME IInv, AfterToDie PROVE IInv'
    OBVIOUS
  <1> USE NIsNat, QuantumAssumption
  <1>c. PICK c \in Job : c = cur_job /\ c \in nodes /\ c # NULL
    BY CurrentFacts DEF AfterToDie, At, Slicing
  <1>p. pc = "wait" /\ pc' = "loop" /\ Slicing
    BY DEF AfterToDie, At, Slicing
  <1>z. InFlight /\ state' = [state EXCEPT ![c] = "reaped"]
        /\ UNCHANGED <<prio, left, x, pipe>>
    <2>1. PICK j \in Zombies : Reap(j)
      BY DEF AfterToDie
    <2>2. j \in Job /\ state[j] = "zombie"
      BY <2>1 DEF Zombies
    <2>3. j = cur_job /\ InFlight
      BY <1>p, <2>2, OnlyCurrentBusy
    <2> QED  BY <1>c, <2>1, <2>3 DEF Reap
  <1>0. /\ ts' = [ts EXCEPT ![c][1] = elapsed]
        /\ printed' = Append(printed, c)
        /\ cur_time' = cur_time + remain_time[c]
        /\ remain' = Quantum /\ RemoveList /\ finish' = finish + 1 /\ finish < N
        /\ UNCHANGED <<arrive, need, writers, readers, elapsed, began, ended>>
        /\ UNCHANGED <<p_arr, remain_time, next, kind, t>>
    BY <1>c, <1>p DEF AfterToDie, IInv, IndexInv, input, fds, history
  <1>1. /\ state[c] = "zombie" /\ Taken(c) /\ t > 0 /\ t = remain_time[c]
        /\ t \in Nat /\ cur_time \in Nat /\ elapsed \in Nat /\ need[c] \in Nat
        /\ remain_time[c] <= need[c] /\ finish \in 0 .. N
        /\ nodes \subseteq Job /\ next \in 0 .. N
        /\ finish + Cardinality(nodes) = next /\ Cardinality(nodes) \in Nat
        /\ nxt \in [Job -> Proc] /\ last \in [Job -> Proc]
    BY <1>c, <1>p, <1>z, CurrentFacts, MainFacts DEF IInv, CurrentInv, SliceInv, StampInv, InFlight
  <1>2. /\ Quiet(c) /\ left[c] = 0 /\ ended[c] = elapsed
    BY <1>1 DEF Taken, Quiet
  <1>e. cur_time' = elapsed
    <2>1. x[c] = 0 /\ cur_time + t - x[c] = elapsed
      BY <1>1 DEF Taken
    <2> QED  BY <1>0, <1>1, <2>1
  <1>3. began[c] = ts[c][0]
    <2>1. left[c] < need[c]
      BY <1>1, <1>2
    <2> QED  BY <2>1 DEF IInv, StampInv
  <1>4. /\ state' \in [Job -> ChildState] /\ state'[c] = "reaped"
        /\ \A j \in Job : j # c => state'[j] = state[j]
    BY <1>z DEF IInv, TypeOK, DispatchTypeOK, ChildState
  <1>5. /\ ts' \in [Job -> [0 .. 1 -> Nat \cup {Never}]]
        /\ ts'[c][1] = elapsed /\ ts'[c][0] = ts[c][0]
        /\ \A j \in Job : j # c => ts'[j] = ts[j]
    <2>1. ts \in [Job -> [0 .. 1 -> Nat \cup {Never}]]
      BY DEF IInv, TypeOK
    <2>2. ts' = [ts EXCEPT ![c] = [@ EXCEPT ![1] = elapsed]]
      BY <1>0
    <2>3. /\ [ts[c] EXCEPT ![1] = elapsed] \in [0 .. 1 -> Nat \cup {Never}]
          /\ [ts[c] EXCEPT ![1] = elapsed][1] = elapsed
          /\ [ts[c] EXCEPT ![1] = elapsed][0] = ts[c][0]
      BY <1>1, <2>1
    <2> QED  BY <2>1, <2>2, <2>3
  <1>6. /\ printed' \in Seq(Job) /\ Len(printed') = Len(printed) + 1 /\ Len(printed) \in Nat
        /\ printed'[Len(printed) + 1] = c
        /\ \A i \in 1 .. Len(printed) : printed'[i] = printed[i] /\ printed[i] \in Job
    BY <1>0 DEF IInv, TypeOK
  <1>7. /\ Cardinality(nodes)' = Cardinality(nodes) - 1 /\ IsRing(Ring)'
        /\ nxt' \in [Job -> Proc] /\ last' \in [Job -> Proc]
        /\ cur_job' \in nodes' \cup {NULL}
    <2>1. PICK r : r = Ring /\ IsRing(r)
      BY DEF IInv
    <2>2. PICK q : q = Tail(r)
      OBVIOUS
    <2>3. /\ IsRing(q)' /\ Cardinality(nodes)' = Cardinality(nodes) - 1
          /\ nxt' \in [Job -> Proc] /\ last' \in [Job -> Proc]
          /\ cur_job' \in nodes' \cup {NULL}
      BY <1>c, <1>0, <1>1, <2>1, <2>2, RingRemove
    <2> QED  BY <2>3, NextRing
  <1>8. nodes' = nodes \ {c} /\ finish' \in 0 .. N /\ remain' \in 1 .. Quantum /\ cur_time' \in Nat
    BY <1>c, <1>0, <1>1, <1>e DEF RemoveList
  <1>9. TypeOK'
    BY <1>p, <1>z, <1>0, <1>1, <1>4, <1>5, <1>6, <1>7, <1>8 DEF IInv, TypeOK, DispatchTypeOK, MainState
  <1>10. ListingInv' /\ IndexInv'
    BY <1>p, <1>0, <1>1, <1>7 DEF IInv, ListingInv, IndexInv
  <1>11. ~InFlight' /\ upcoming' = upcoming
    BY <1>p, <1>0 DEF InFlight, upcoming
  <1>12. JobsInv'
    <2> SUFFICES ASSUME NEW i \in Slot, NEW j \in Job, j = p_arr[i]
                 PROVE  /\ next <= i => ToCome(j)' /\ j \notin nodes'
                        /\ i < next /\ j \notin nodes' => Finished(j)'
                        /\ j \in nodes' => Resting(j)'
      BY <1>0, <1>11, MainFacts DEF JobsInv
    <2>1. CASE j = c
      <3>1. Finished(j)'
        BY <1>z, <1>2, <1>4, <2>1 DEF Finished, Quiet
      <3>2. ~(next <= i)
        BY <1>c, <1>p, <2>1, SlotFacts
      <3> QED  BY <1>8, <2>1, <3>1, <3>2
    <2>2. CASE j # c
      <3>1. state'[j] = state[j]
        BY <1>4, <2>2
      <3>2. /\ ToCome(j) => ToCome(j)'
            /\ Finished(j) => Finished(j)'
            /\ Resting(j) => Resting(j)'
        BY <1>0, <1>z, <3>1 DEF ToCome, Finished, Resting, Quiet
      <3>3. /\ next <= i => ToCome(j) /\ j \notin nodes
            /\ i < next /\ j \notin nodes => Finished(j)
            /\ j \in nodes => Resting(j)
        BY <1>c, <1>p, <2>2, SlotFacts
      <3> QED  BY <1>8, <2>2, <3>2, <3>3
    <2> QED  BY <2>1, <2>2
  <1>13. ClockInv'
    <2>1. next < N => cur_time' <= arrive[upcoming]
      <3>1. next < N => cur_time + t <= arrive[upcoming]
        BY <1>p DEF IInv, ClockInv, Slicing
      <3> QED  BY <1>0, <1>1, <3>1
    <2> QED  BY <1>p, <1>0, <1>11, <1>e, <2>1 DEF ClockInv, Slicing
  <1>14. FdInv'
    BY <1>p, <1>0, <1>1, <1>4 DEF IInv, FdInv, Alive
  <1>15. StampInv'
    <2>1. \A j \in Job : left[j] < need[j] => began[j] # Never /\ began[j] = ts'[j][0]
      <3> SUFFICES ASSUME NEW j \in Job PROVE ts'[j][0] = ts[j][0]
        BY DEF IInv, StampInv
      <3> QED  BY <1>5
    <2>2. ASSUME NEW i \in 1 .. Len(printed')
          PROVE  /\ state'[printed'[i]] = "reaped" /\ ts'[printed'[i]][0] = began[printed'[i]]
                 /\ ts'[printed'[i]][1] = ended[printed'[i]]
      <3>1. CASE i = Len(printed) + 1
        BY <1>2, <1>3, <1>4, <1>5, <1>6, <3>1
      <3>2. CASE i # Len(printed) + 1
        <4>1. i \in 1 .. Len(printed)
          BY <1>6, <2>2, <3>2
        <4>2. /\ state[printed[i]] = "reaped" /\ ts[printed[i]][0] = began[printed[i]]
              /\ ts[printed[i]][1] = ended[printed[i]]
          BY <4>1 DEF IInv, StampInv
        <4>3. printed[i] # c /\ printed'[i] = printed[i] /\ printed[i] \in Job
          BY <1>1, <1>6, <4>1, <4>2
        <4> QED  BY <1>4, <1>5, <4>2, <4>3
      <3> QED  BY <3>1, <3>2
    <2> QED  BY <1>z, <1>0, <1>11, <2>1, <2>2 DEF IInv, StampInv
  <1>16. SliceInv' /\ CurrentInv' /\ ExitInv'
    BY <1>p, <1>11 DEF SliceInv, CurrentInv, ExitInv, Slicing
  <1> QED  BY <1>7, <1>9, <1>10, <1>12, <1>13, <1>14, <1>15, <1>16 DEF IInv

-----------------------------------------------------------------------------
(* The steps of a child.                                                    *)

(* A step of a child leaves main's variables, and what they say of each     *)
(* other, alone.                                                            *)
LEMMA ChildFrame ==
  ASSUME IInv, NEW j \in Job, Exec(j, TRUE) \/ ChildProgram(j), UNCHANGED mainVars
  PROVE  /\ UNCHANGED <<arrive, need, pc, p_arr, next, finish, cur_time, remain, remain_time>>
         /\ UNCHANGED <<ts, cur_job, nxt, last, nodes, kind, t, printed, list>>
         /\ TypeOK' /\ ListingInv' /\ IndexInv' /\ IsRing(Ring)' /\ upcoming' = upcoming
         /\ (InFlight' <=> InFlight)
         /\ SliceInv'
  <1>0. /\ UNCHANGED <<arrive, need, pc, p_arr, next, finish, cur_time, remain, remain_time>>
        /\ UNCHANGED <<ts, cur_job, nxt, last, nodes, kind, t, printed, list>>
    BY DEF mainVars, list, record, Exec, ChildProgram, Scanf, ScanfEof, BurnUnit,
           Finish, Yield, input
  <1>1. DispatchTypeOK'
    <2>1. DispatchTypeOK /\ TRUE \in BOOLEAN
      BY DEF IInv, TypeOK
    <2>2. Exec(j, TRUE) \/ ExecFails(j) \/ ChildProgram(j)
      OBVIOUS
    <2> QED  BY <2>1, <2>2, ChildType
  <1>2. TypeOK'
    BY <1>0, <1>1 DEF IInv, TypeOK
  <1>3. ListingInv' /\ IndexInv'
    BY <1>0 DEF IInv, ListingInv, IndexInv
  <1>4. IsRing(Ring)'
    BY <1>0, SameRing DEF IInv
  <1>5. upcoming' = upcoming /\ (InFlight' <=> InFlight)
    BY <1>0 DEF upcoming, InFlight
  <1>6. SliceInv'
    BY <1>0, <1>5 DEF IInv, SliceInv, Slicing
  <1> QED  BY <1>0, <1>2, <1>3, <1>4, <1>5, <1>6

(* execl() of the child of j: its copies of the other pipes are closed.     *)
LEMMA ExecInv ==
  ASSUME IInv, NEW j \in Job, Exec(j, TRUE), UNCHANGED mainVars
  PROVE  IInv'
  <1> USE NIsNat
  <1>0. /\ UNCHANGED <<arrive, need, pc, p_arr, next, finish, cur_time, remain, remain_time>>
        /\ UNCHANGED <<ts, cur_job, nxt, last, nodes, kind, t, printed, list>>
        /\ TypeOK' /\ ListingInv' /\ IndexInv' /\ IsRing(Ring)' /\ upcoming' = upcoming
        /\ (InFlight' <=> InFlight) /\ SliceInv'
    BY ChildFrame
  <1>1. /\ state[j] = "forked"
        /\ \A k \in Job : /\ writers'[k] = writers[k] \ {j}
                          /\ readers'[k] = IF k = j THEN readers[k] ELSE readers[k] \ {j}
        /\ UNCHANGED <<prio, left, x, pipe, elapsed, began, ended>>
    BY DEF Exec, history
  <1>2. state'[j] = "scan" /\ \A k \in Job : k # j => state'[k] = state[k]
    BY DEF Exec, IInv, TypeOK, DispatchTypeOK
  <1>3. ASSUME NEW k \in Job
        PROVE  /\ Finished(k) => Finished(k)'
               /\ Resting(k) => Resting(k)'
               /\ ToCome(k) => ToCome(k)'
               /\ Handed(k) <=> Handed(k)'
               /\ Taken(k) => Taken(k)'
               /\ state'[k] = "run" <=> state[k] = "run"
               /\ state[k] = "zombie" => state'[k] = "zombie"
               /\ state'[k] = "none" <=> state[k] = "none"
               /\ state'[k] = "reaped" <=> state[k] = "reaped"
               /\ Alive(k)' <=> Alive(k)
    <2>1. CASE k = j
      BY <1>0, <1>1, <1>2, <2>1 DEF Finished, Resting, ToCome, Handed, Taken, Quiet, Alive
    <2>2. CASE k # j
      BY <1>0, <1>1, <1>2, <2>2 DEF Finished, Resting, ToCome, Handed, Taken, Quiet, Alive
    <2> QED  BY <2>1, <2>2
  <1>4. JobsInv'
    <2> SUFFICES ASSUME pc # "exited", NEW i \in Slot, NEW k \in Job, k = p_arr[i]
                 PROVE  /\ next <= i => ToCome(k)' /\ k \notin nodes
                        /\ i < next /\ k \notin nodes => Finished(k)'
                        /\ k \in nodes /\ (InFlight => k # cur_job) => Resting(k)'
      BY <1>0, MainFacts DEF JobsInv
    <2>1. /\ next <= i => ToCome(k) /\ k \notin nodes
          /\ i < next /\ k \notin nodes => Finished(k)
          /\ k \in nodes /\ (InFlight => k # cur_job) => Resting(k)
      BY SlotFacts
    <2> QED  BY <1>3, <2>1
  <1>5. CurrentInv'
    <2> SUFFICES ASSUME InFlight PROVE CurrentInv'
      BY <1>0 DEF CurrentInv
    <2>1. PICK c \in Job : c = cur_job
      BY CurrentFacts DEF InFlight, Slicing
    <2>2. /\ Handed(c)' <=> Handed(c)
          /\ Taken(c) => Taken(c)'
          /\ state'[c] = "run" <=> state[c] = "run"
          /\ state[c] = "zombie" => state'[c] = "zombie"
      BY <1>3
    <2> QED  BY <1>0, <1>1, <2>1, <2>2 DEF IInv, CurrentInv, Handed, Taken
  <1>6. ClockInv'
    BY <1>0, <1>1 DEF IInv, ClockInv, Slicing
  <1>7. FdInv'
    <2> SUFFICES ASSUME pc \notin {"read", "exited"} PROVE FdInv'
      BY <1>0 DEF FdInv
    <2>1. ASSUME NEW k \in Job
          PROVE  /\ state'[k] # "none" => Main \in writers'[k]
                 /\ Alive(k)' => k \in readers'[k]
      <3>1. /\ state[k] # "none" => Main \in writers[k]
            /\ Alive(k) => k \in readers[k]
        BY DEF IInv, FdInv
      <3> QED  BY <1>1, <1>3, <3>1, JobAssumption
    <2>2. pc = "fork" => Main \in writers'[upcoming] /\ Main \in readers'[upcoming]
      <3> SUFFICES ASSUME pc = "fork"
                   PROVE  Main \in writers'[upcoming] /\ Main \in readers'[upcoming]
        OBVIOUS
      <3>1. Main \in writers[upcoming] /\ Main \in readers[upcoming]
        BY DEF IInv, FdInv
      <3>2. upcoming \in Job
        BY MainFacts DEF IInv, IndexInv
      <3> QED  BY <1>1, <3>1, <3>2, JobAssumption
    <2> QED  BY <1>0, <2>1, <2>2 DEF FdInv, Alive
  <1>8. StampInv'
    <2>1. \A i \in 1 .. Len(printed) : printed[i] \in Job
      BY DEF IInv, TypeOK
    <2> QED  BY <1>0, <1>1, <1>3, <2>1 DEF IInv, StampInv
  <1>9. ExitInv'
    BY <1>0, <1>1, <1>3 DEF IInv, ExitInv
  <1> QED  BY <1>0, <1>4, <1>5, <1>6, <1>7, <1>8, <1>9 DEF IInv

(* A step of the current child that keeps the descriptors it needs.         *)
LEMMA CurrentFds ==
  ASSUME IInv, NEW j \in Job, UNCHANGED <<pc, writers, readers>>, upcoming' = upcoming,
         \A k \in Job : k # j => state'[k] = state[k],
         state[j] # "none", Alive(j)' => Alive(j)
  PROVE  FdInv'
  <1>1. ASSUME NEW k \in Job
        PROVE  /\ state'[k] # "none" => state[k] # "none"
               /\ Alive(k)' => Alive(k)
    BY DEF Alive
  <1> QED  BY <1>1 DEF IInv, FdInv

(* scanf(): the slice in the pipe is taken.                                 *)
LEMMA ScanfInv ==
  ASSUME IInv, NEW j \in Job, Scanf(j), UNCHANGED mainVars
  PROVE  IInv'
  <1> USE NIsNat
  <1>0. /\ UNCHANGED <<arrive, need, pc, p_arr, next, finish, cur_time, remain, remain_time>>
        /\ UNCHANGED <<ts, cur_job, nxt, last, nodes, kind, t, printed, list>>
        /\ TypeOK' /\ ListingInv' /\ IndexInv' /\ IsRing(Ring)' /\ upcoming' = upcoming
        /\ (InFlight' <=> InFlight) /\ SliceInv'
    BY ChildFrame DEF ChildProgram
  <1>1. /\ state[j] = "scan" /\ pipe[j] # << >>
        /\ state' = [state EXCEPT ![j] = "run"]
        /\ x' = [x EXCEPT ![j] = Head(pipe[j])]
        /\ pipe' = [pipe EXCEPT ![j] = Tail(@)]
        /\ UNCHANGED <<prio, left, writers, readers, elapsed, began, ended>>
    BY DEF Scanf, fds, history
  <1>2. pc # "exited" /\ j = cur_job /\ InFlight /\ Slicing
    <2>1. pc # "exited"
      BY <1>1 DEF IInv, ExitInv
    <2> QED  BY <1>1, <2>1, OnlyCurrentBusy DEF InFlight, Slicing
  <1>3. /\ pc \in {"raise", "account"} /\ Handed(j) /\ (pc = "account" => prio[j] = RunPrio)
        /\ left[j] \in Int /\ remain_time[j] \in Nat /\ t \in Nat
        /\ cur_time \in Nat /\ elapsed \in Nat
    <2>1. pc \in {"raise", "account"} /\ Handed(j)
      BY <1>1, <1>2 DEF InFlight, IInv, CurrentInv, Taken
    <2> QED  BY <1>2, <2>1, CurrentFacts, MainFacts DEF IInv, CurrentInv
  <1>4. Head(pipe[j]) = t /\ Tail(pipe[j]) = << >>
    BY <1>3, OneMessage DEF Handed
  <1>5. /\ state'[j] = "run" /\ x'[j] = t /\ pipe'[j] = << >>
        /\ \A k \in Job : k # j => state'[k] = state[k] /\ x'[k] = x[k] /\ pipe'[k] = pipe[k]
    BY <1>1, <1>4 DEF IInv, TypeOK, DispatchTypeOK
  <1>6. JobsInv'
    BY <1>0, <1>1, <1>2, <1>5, OtherJobs
  <1>7. CurrentInv'
    <2>1. Taken(j)'
      <3>1. left[j] = remain_time[j] - t + t /\ cur_time + t - t = elapsed /\ t <= t
        BY <1>3 DEF Handed
      <3> QED  BY <1>0, <1>1, <1>5, <3>1 DEF Taken
    <2> QED  BY <1>0, <1>1, <1>2, <1>3, <2>1 DEF CurrentInv
  <1>8. ClockInv' /\ ExitInv'
    BY <1>0, <1>1, <1>2 DEF IInv, ClockInv, ExitInv, Slicing
  <1>9. FdInv'
    BY <1>0, <1>1, <1>5, CurrentFds DEF Alive
  <1>10. StampInv'
    <2>1. \A i \in 1 .. Len(printed) : printed[i] \in Job
      BY DEF IInv, TypeOK
    <2>2. \A k \in Job : state[k] = "reaped" => state'[k] = "reaped"
      BY <1>1, <1>5
    <2> QED  BY <1>0, <1>1, <2>1, <2>2 DEF IInv, StampInv
  <1> QED  BY <1>0, <1>6, <1>7, <1>8, <1>9, <1>10 DEF IInv

(* One unit of the slice is burnt.                                          *)
LEMMA BurnUnitInv ==
  ASSUME IInv, NEW j \in Job, BurnUnit(j), UNCHANGED mainVars
  PROVE  IInv'
  <1> USE NIsNat
  <1>0. /\ UNCHANGED <<arrive, need, pc, p_arr, next, finish, cur_time, remain, remain_time>>
        /\ UNCHANGED <<ts, cur_job, nxt, last, nodes, kind, t, printed, list>>
        /\ TypeOK' /\ ListingInv' /\ IndexInv' /\ IsRing(Ring)' /\ upcoming' = upcoming
        /\ (InFlight' <=> InFlight) /\ SliceInv'
    BY ChildFrame DEF ChildProgram
  <1>1. /\ state[j] = "run" /\ x[j] > 0
        /\ x' = [x EXCEPT ![j] = @ - 1]
        /\ left' = [left EXCEPT ![j] = @ - 1]
        /\ elapsed' = elapsed + 1
        /\ began' = [began EXCEPT ![j] = IF @ = Never THEN elapsed ELSE @]
        /\ UNCHANGED <<state, prio, pipe, writers, readers, ended>>
    BY DEF BurnUnit, fds
  <1>2. /\ j = cur_job /\ pc \in {"raise", "account"} /\ Taken(j) /\ InFlight /\ Slicing /\ t > 0
        /\ (pc = "account" => prio[j] = RunPrio)
        /\ left[j] \in Int /\ x[j] \in Nat /\ remain_time[j] \in Nat /\ need[j] \in Nat
        /\ cur_time \in Nat /\ t \in Nat /\ elapsed \in Nat
    BY <1>1, TakenFacts, MainFacts, CurrentFacts
  <1>3. /\ x'[j] = x[j] - 1 /\ left'[j] = left[j] - 1
        /\ \A k \in Job : k # j => x'[k] = x[k] /\ left'[k] = left[k] /\ began'[k] = began[k]
        /\ began'[j] = IF began[j] = Never THEN elapsed ELSE began[j]
    BY <1>1 DEF IInv, TypeOK, DispatchTypeOK
  <1>4. JobsInv'
    BY <1>0, <1>1, <1>2, <1>3, OtherJobs
  <1>5. CurrentInv'
    <2>1. Taken(j)'
      <3>1. /\ left[j] = remain_time[j] - t + x[j]
            /\ cur_time + t - x[j] = elapsed /\ x[j] <= t
        BY <1>2 DEF Taken
      <3>2. /\ left'[j] = remain_time[j] - t + x'[j] /\ x'[j] <= t
            /\ cur_time + t - x'[j] = elapsed'
        BY <1>1, <1>2, <1>3, <3>1
      <3>3. state'[j] = "run" /\ pipe'[j] = << >>
        BY <1>1, <1>2 DEF Taken
      <3> QED  BY <1>0, <3>2, <3>3 DEF Taken
    <2> QED  BY <1>0, <1>1, <1>2, <2>1 DEF IInv, CurrentInv
  <1>6. ClockInv' /\ ExitInv'
    BY <1>0, <1>1, <1>2 DEF IInv, ClockInv, ExitInv, Slicing
  <1>7. FdInv'
    BY <1>0, <1>1, CurrentFds DEF Alive
  <1>8. StampInv'
    <2>0. /\ left[j] <= need[j]
          /\ left[j] < need[j] => began[j] # Never /\ began[j] = ts[j][0]
          /\ left[j] = need[j] => began[j] = Never /\ ts[j][0] = elapsed
      BY <1>2 DEF IInv, StampInv
    <2>1. /\ left'[j] < need[j] /\ began'[j] # Never /\ began'[j] = ts[j][0]
      <3>1. elapsed # Never
        BY <1>2 DEF Never
      <3>2. left'[j] < need[j]
        BY <1>2, <1>3, <2>0
      <3>3. CASE left[j] = need[j]
        BY <1>3, <2>0, <3>1, <3>2, <3>3
      <3>4. CASE left[j] < need[j]
        BY <1>3, <2>0, <3>2, <3>4
      <3> QED  BY <1>2, <2>0, <3>3, <3>4
    <2>2. ASSUME NEW k \in Job
          PROVE  /\ remain_time[k] <= need[k] /\ left'[k] <= need[k]
                 /\ left'[k] < need[k] => began'[k] # Never /\ began'[k] = ts[k][0]
                 /\ left'[k] = need[k] => began'[k] = Never
      <3>1. CASE k = j
        <4>1. left'[j] \in Int /\ remain_time[j] <= need[j]
          BY <1>2, <1>3 DEF IInv, StampInv
        <4> QED  BY <1>2, <2>1, <3>1, <4>1
      <3>2. CASE k # j
        BY <1>3, <3>2 DEF IInv, StampInv
      <3> QED  BY <3>1, <3>2
    <2>3. ASSUME NEW i \in 1 .. Len(printed)
          PROVE  /\ state[printed[i]] = "reaped" /\ ts[printed[i]][0] = began'[printed[i]]
                 /\ ts[printed[i]][1] = ended[printed[i]]
      <3>1. /\ printed[i] \in Job /\ state[printed[i]] = "reaped"
            /\ ts[printed[i]][0] = began[printed[i]] /\ ts[printed[i]][1] = ended[printed[i]]
        BY <2>3 DEF IInv, TypeOK, StampInv
      <3> QED  BY <1>1, <1>3, <3>1
    <2>4. ~(left'[j] = need[j])
      BY <1>2, <1>3, <2>1
    <2> QED  BY <1>0, <1>1, <1>2, <2>2, <2>3, <2>4 DEF StampInv
  <1> QED  BY <1>0, <1>4, <1>5, <1>6, <1>7, <1>8 DEF IInv

(* The end of the last slice.                                               *)
LEMMA FinishInv ==
  ASSUME IInv, NEW j \in Job, Finish(j), UNCHANGED mainVars
  PROVE  IInv'
  <1> USE NIsNat
  <1>0. /\ UNCHANGED <<arrive, need, pc, p_arr, next, finish, cur_time, remain, remain_time>>
        /\ UNCHANGED <<ts, cur_job, nxt, last, nodes, kind, t, printed, list>>
        /\ TypeOK' /\ ListingInv' /\ IndexInv' /\ IsRing(Ring)' /\ upcoming' = upcoming
        /\ (InFlight' <=> InFlight) /\ SliceInv'
    BY ChildFrame DEF ChildProgram
  <1>1. /\ state[j] = "run" /\ x[j] = 0 /\ left[j] <= 0
        /\ state' = [state EXCEPT ![j] = "zombie"]
        /\ ended' = [ended EXCEPT ![j] = elapsed]
        /\ \A k \in Job : writers'[k] = writers[k] \ {j} /\ readers'[k] = readers[k] \ {j}
        /\ UNCHANGED <<prio, left, x, pipe, elapsed, began>>
    BY DEF Finish, Dies, DropFds
  <1>2. /\ j = cur_job /\ pc \in {"raise", "account"} /\ Taken(j) /\ InFlight /\ Slicing
        /\ t <= remain_time[j]
        /\ left[j] \in Int /\ x[j] \in Nat /\ remain_time[j] \in Nat
        /\ cur_time \in Nat /\ t \in Nat /\ elapsed \in Nat
    BY <1>1, TakenFacts, MainFacts
  <1>3. /\ state'[j] = "zombie" /\ ended'[j] = elapsed
        /\ \A k \in Job : k # j => state'[k] = state[k] /\ ended'[k] = ended[k]
    BY <1>1 DEF IInv, TypeOK, DispatchTypeOK
  <1>4. JobsInv'
    BY <1>0, <1>1, <1>2, <1>3, OtherJobs
  <1>5. CurrentInv'
    <2>1. left[j] = 0
      <3>1. left[j] = remain_time[j] - t + x[j]
        BY <1>2 DEF Taken
      <3> QED  BY <1>1, <1>2, <3>1
    <2>2. Taken(j)' /\ ~Handed(j)'
      BY <1>0, <1>1, <1>2, <1>3, <2>1 DEF Taken, Handed
    <2> QED  BY <1>0, <1>2, <1>3, <2>2 DEF CurrentInv
  <1>6. ClockInv' /\ ExitInv'
    BY <1>0, <1>1, <1>2 DEF IInv, ClockInv, ExitInv, Slicing
  <1>7. FdInv'
    <2>1. pc \in {"raise", "account"}
      BY <1>2
    <2>2. ASSUME NEW k \in Job
          PROVE  /\ state'[k] # "none" => Main \in writers'[k]
                 /\ Alive(k)' => k \in readers'[k]
      <3>1. /\ state[k] # "none" => Main \in writers[k]
            /\ Alive(k) => k \in readers[k]
        BY <2>1 DEF IInv, FdInv
      <3>2. CASE k = j
        BY <1>1, <1>3, <3>1, <3>2, JobAssumption DEF Alive
      <3>3. CASE k # j
        BY <1>1, <1>3, <3>1, <3>3, JobAssumption DEF Alive
      <3> QED  BY <3>2, <3>3
    <2> QED  BY <1>0, <2>1, <2>2 DEF FdInv
  <1>8. StampInv'
    <2>1. \A i \in 1 .. Len(printed) : printed[i] \in Job /\ printed[i] # j
      BY <1>1 DEF IInv, TypeOK, StampInv
    <2> QED  BY <1>0, <1>1, <1>3, <2>1 DEF IInv, StampInv
  <1> QED  BY <1>0, <1>4, <1>5, <1>6, <1>7, <1>8 DEF IInv

(* The slice is burnt and the child lowers its priority.                    *)
LEMMA YieldInv ==
  ASSUME IInv, NEW j \in Job, Yield(j), UNCHANGED mainVars
  PROVE  IInv'
  <1> USE NIsNat
  <1>0. /\ UNCHANGED <<arrive, need, pc, p_arr, next, finish, cur_time, remain, remain_time>>
        /\ UNCHANGED <<ts, cur_job, nxt, last, nodes, kind, t, printed, list>>
        /\ TypeOK' /\ ListingInv' /\ IndexInv' /\ IsRing(Ring)' /\ upcoming' = upcoming
        /\ (InFlight' <=> InFlight) /\ SliceInv'
    BY ChildFrame DEF ChildProgram
  <1>1. /\ state[j] = "run" /\ x[j] = 0 /\ left[j] > 0
        /\ state' = [state EXCEPT ![j] = "scan"]
        /\ UNCHANGED <<left, x, pipe, writers, readers, elapsed, began, ended>>
    BY DEF Yield, fds, history
  <1>2. /\ j = cur_job /\ pc \in {"raise", "account"} /\ Taken(j) /\ InFlight /\ Slicing
        /\ t \in Nat
    BY <1>1, TakenFacts, MainFacts
  <1>3. state'[j] = "scan" /\ \A k \in Job : k # j => state'[k] = state[k]
    BY <1>1 DEF IInv, TypeOK, DispatchTypeOK
  <1>4. JobsInv'
    BY <1>0, <1>1, <1>2, <1>3, OtherJobs
  <1>5. CurrentInv'
    <2>1. Taken(j)'
      BY <1>0, <1>1, <1>2, <1>3 DEF Taken
    <2>2. ~Handed(j)'
      <3>1. <<t>> # << >> /\ pipe'[j] = << >>
        BY <1>1, <1>2, OneMessage DEF Taken
      <3> QED  BY <1>0, <3>1 DEF Handed
    <2> QED  BY <1>0, <1>2, <1>3, <2>1, <2>2 DEF CurrentInv
  <1>6. ClockInv' /\ ExitInv'
    BY <1>0, <1>1, <1>2 DEF IInv, ClockInv, ExitInv, Slicing
  <1>7. FdInv'
    BY <1>0, <1>1, <1>3, CurrentFds DEF Alive
  <1>8. StampInv'
    <2>1. \A i \in 1 .. Len(printed) : printed[i] \in Job /\ printed[i] # j
      BY <1>1 DEF IInv, TypeOK, StampInv
    <2> QED  BY <1>0, <1>1, <1>3, <2>1 DEF IInv, StampInv
  <1> QED  BY <1>0, <1>4, <1>5, <1>6, <1>7, <1>8 DEF IInv

(* A child reads end-of-file: main has gone.                                *)
LEMMA ScanfEofInv ==
  ASSUME IInv, NEW j \in Job, ScanfEof(j), UNCHANGED mainVars
  PROVE  IInv'
  <1> USE NIsNat
  <1>0. /\ UNCHANGED <<arrive, need, pc, p_arr, next, finish, cur_time, remain, remain_time>>
        /\ UNCHANGED <<ts, cur_job, nxt, last, nodes, kind, t, printed, list>>
        /\ TypeOK' /\ ListingInv' /\ IndexInv' /\ IsRing(Ring)' /\ upcoming' = upcoming
        /\ (InFlight' <=> InFlight) /\ SliceInv'
    BY ChildFrame DEF ChildProgram
  <1>1. /\ state[j] = "scan" /\ writers[j] = {}
        /\ state' = [state EXCEPT ![j] = "zombie"]
        /\ ended' = [ended EXCEPT ![j] = elapsed]
        /\ UNCHANGED <<prio, left, x, pipe, elapsed, began>>
    BY DEF ScanfEof, Dies
  <1>2. pc = "exited"
    <2>1. pc \in {"read", "exited"}
      BY <1>1 DEF IInv, FdInv
    <2>2. ASSUME pc = "read" PROVE FALSE
      <3>1. PICK i \in Slot : p_arr[i] = j
        BY <2>2, SlotFacts
      <3>2. next = 0 /\ i >= 0
        BY <2>2 DEF IInv, IndexInv, Slot
      <3> QED  BY <1>1, <2>2, <3>1, <3>2, SlotFacts DEF ToCome
    <2> QED  BY <2>1, <2>2
  <1>3. /\ state'[j] = "zombie" /\ ended'[j] = elapsed
        /\ \A k \in Job : k # j => state'[k] = state[k] /\ ended'[k] = ended[k]
    BY <1>1 DEF IInv, TypeOK, DispatchTypeOK
  <1>4. ClockInv'
    BY <1>0, <1>1 DEF IInv, ClockInv, Slicing
  <1>5. ExitInv'
    <2>1. \A k \in Job : pipe'[k] = << >> /\ state'[k] # "run"
      BY <1>1, <1>2, <1>3 DEF IInv, ExitInv
    <2> QED  BY <2>1 DEF ExitInv
  <1>6. StampInv'
    <2>1. \A i \in 1 .. Len(printed) : printed[i] \in Job /\ printed[i] # j
      BY <1>1 DEF IInv, TypeOK, StampInv
    <2>2. ~InFlight'
      BY <1>0, <1>2 DEF InFlight
    <2> QED  BY <1>0, <1>1, <1>3, <2>1, <2>2 DEF IInv, StampInv
  <1>7. JobsInv' /\ CurrentInv' /\ FdInv'
    BY <1>0, <1>2 DEF JobsInv, CurrentInv, FdInv, InFlight
  <1> QED  BY <1>0, <1>4, <1>5, <1>6, <1>7 DEF IInv

-----------------------------------------------------------------------------
(* The invariant, and what it is for.                                       *)

(* Whatever a child does.                                                   *)
LEMMA ChildStepInv ==
  ASSUME IInv, ~ExecMayFail, NEW j \in Job, ChildStep(j)
  PROVE  IInv'
  <1>1. UNCHANGED mainVars
    BY DEF ChildStep
  <1>2. Exec(j, TRUE) \/ Scanf(j) \/ ScanfEof(j) \/ BurnUnit(j) \/ Finish(j) \/ Yield(j)
    BY DEF ChildStep, ChildProgram, ExecFails
  <1> QED  BY <1>1, <1>2, ExecInv, ScanfInv, ScanfEofInv, BurnUnitInv, FinishInv, YieldInv

(* Whatever main does.                                                      *)
LEMMA MainStepInv == IInv /\ MainStep => IInv'
  <1> SUFFICES ASSUME IInv, MainStep PROVE IInv'
    OBVIOUS
  <1>1. CASE ForkFails
    BY <1>1, LeaveInv DEF ForkFails, At
  <1>2. CASE Return
    BY <1>2, LeaveInv DEF Return, At
  <1> QED  BY <1>1, <1>2, ReadInputInv, LoopInv, ForkChildInv, StartIdleInv, IdleInv, ChooseInv,
              RunJobWriteInv, RunJobRaiseInv, AfterToForkInv, AfterToNextInv, StartWaitInv,
              AfterToDieInv DEF MainStep

(* Every step of rr.c and of its children preserves the invariant.          *)
LEMMA NextInv == IInv /\ ~ExecMayFail /\ [Next]_vars => IInv'
  BY MainStepInv, ChildStepInv, StutterInv DEF Next

(* The safety properties of rr.c that need its children to start.           *)
LEMMA InvImplies == IInv => ClockIsTrue /\ ResultsAreTrue
  <1> SUFFICES ASSUME IInv PROVE ClockIsTrue /\ ResultsAreTrue
    OBVIOUS
  <1>1. ClockIsTrue
    BY DEF ClockIsTrue, Deciding, IInv, ClockInv
  <1>2. ResultsAreTrue
    BY DEF ResultsAreTrue, IInv, StampInv
  <1> QED  BY <1>1, <1>2

(* The invariant that ties main's list, its books and its clock to the      *)
(* children holds throughout every run of rr.c in which execl() does not    *)
(* fail, for any number of jobs, any input and any quantum, and whether or  *)
(* not fork() fails.                                                        *)
THEOREM RrInvariance ==
  ASSUME ~ExecMayFail
  PROVE  Spec => []IInv
  BY InitInv, NextInv, PTL DEF Spec

(* cur_time, which rr.c advances by what it has handed out, is the real     *)
(* time whenever rr.c decides by it.                                        *)
THEOREM RrClock ==
  ASSUME ~ExecMayFail
  PROVE  Spec => []ClockIsTrue
  BY RrInvariance, InvImplies, PTL

(* What rr.c prints of a job is when it got the CPU first and when it       *)
(* exited.                                                                  *)
THEOREM RrResults ==
  ASSUME ~ExecMayFail
  PROVE  Spec => []ResultsAreTrue
  BY RrInvariance, InvImplies, PTL

-----------------------------------------------------------------------------
(* The refinement of the ideal round robin.                                 *)

\* The units each job has been served, the jobs that are still to come and
\* the units used of the quantum, as the ideal round robin counts them.
got == [j \in Job |-> need[j] - left[j]]
coming == {j \in Job : state[j] = "none"}
used == Quantum - remain + Burnt

(* The head of the queue is the current job.                                *)
LEMMA RingHead ==
  ASSUME IInv
  PROVE  /\ cur_job # NULL => Ring # << >> /\ Head(Ring) = cur_job
         /\ cur_job = NULL => Ring = << >>
  <1>1. PICK r : r = Ring /\ IsRing(r)
    BY DEF IInv
  <1>2. /\ r \in Seq(Job) /\ Len(r) \in Nat /\ Len(r) = Cardinality(nodes)
        /\ Len(r) = 0 => cur_job = NULL
        /\ Len(r) # 0 => cur_job = r[1]
    BY <1>1, RingFacts
  <1>3. cur_job = NULL => Len(r) = 0
    BY <1>2, MainFacts
  <1>4. Len(r) # 0 => r # << >> /\ Head(r) = r[1]
    BY <1>2
  <1>5. Len(r) = 0 => r = << >>
    BY <1>2
  <1> QED  BY <1>1, <1>2, <1>3, <1>4, <1>5

(* Nobody the ideal round robin would have queued is missing from the ring, *)
(* as long as real time has not come to the next arrival.                   *)
LEMMA NobodyOverdue ==
  ASSUME IInv, pc \notin {"read", "exited"}, next < N => elapsed < arrive[upcoming]
  PROVE  Ideal!Overdue = {}
  <1> USE NIsNat
  <1> SUFFICES ASSUME NEW k \in Job, state[k] = "none", arrive[k] <= elapsed PROVE FALSE
    BY DEF Ideal!Overdue
  <1>1. PICK i \in Slot : p_arr[i] = k
    BY SlotFacts
  <1>2. i \in 0 .. N - 1 /\ next \in 0 .. N
    BY MainFacts DEF Slot
  <1>3. ASSUME i < next PROVE FALSE
    <2>1. k \in nodes
      BY <1>1, <1>3, SlotFacts DEF Finished
    <2>2. InFlight /\ k = cur_job
      BY <2>1, SlotFacts DEF Resting
    <2>3. Handed(k) \/ Taken(k)
      BY <2>2 DEF IInv, CurrentInv
    <2> QED  BY <2>3 DEF Handed, Taken
  <1>4. ASSUME next <= i PROVE FALSE
    <2>1. next < N /\ next \in Slot /\ upcoming = p_arr[next]
      BY <1>2, <1>4, MainFacts
    <2>2. arrive[upcoming] <= arrive[k]
      BY <1>1, <1>4, <2>1 DEF IInv, ListingInv
    <2>3. arrive[k] \in Nat /\ arrive[upcoming] \in Nat /\ elapsed \in Nat
      BY <2>1, MainFacts DEF IInv, TypeOK, DispatchTypeOK
    <2> QED  BY <2>1, <2>2, <2>3
  <1> QED  BY <1>2, <1>3, <1>4

(* fork() and add_list() queue the job that has arrived.                    *)
LEMMA ForkChildAdmits == IInv /\ ForkChild => \E u \in Job : Ideal!Admit(u)
  <1> SUFFICES ASSUME IInv, ForkChild PROVE \E u \in Job : Ideal!Admit(u)
    OBVIOUS
  <1> USE NIsNat, QuantumAssumption
  <1>u. PICK u \in Job : u = upcoming /\ next < N
    BY MainFacts DEF ForkChild, At, IInv, IndexInv
  <1>0. /\ pc = "fork" /\ pc' = "choose" /\ arrive[u] = cur_time /\ cur_time = elapsed
        /\ Spawn(u, need[u], TRUE) /\ AddList(u)
        /\ arrive[u] \in Nat /\ remain \in Nat /\ remain > 0 /\ Quantum \in Nat
        /\ UNCHANGED <<arrive, need, elapsed, remain>>
    BY <1>u, MainFacts DEF ForkChild, At, IInv, IndexInv, ClockInv, input
  <1>1. ToCome(u) /\ u \notin nodes
    <2>1. next \in Slot /\ p_arr[next] = u /\ next <= next
      BY <1>u, MainFacts
    <2> QED  BY <1>0, <2>1, SlotFacts
  <1>2. Ring' = Append(Ring, u)
    <2>1. PICK r : r = Ring /\ IsRing(r)
      BY DEF IInv
    <2>2. PICK q : q = Append(r, u)
      OBVIOUS
    <2>3. IsRing(q)'
      BY <1>0, <1>1, <2>1, <2>2, MainFacts, RingAdd
    <2>4. Ring' = q
      BY <2>3, NextRing
    <2> QED  BY <2>1, <2>2, <2>4
  <1>3. /\ state' = [state EXCEPT ![u] = "forked"] /\ left' = [left EXCEPT ![u] = need[u]]
    BY <1>0 DEF Spawn
  <1>4. left' = left /\ got' = got
    <2>1. left[u] = need[u] /\ left \in [Job -> Int]
      BY <1>1 DEF ToCome, IInv, TypeOK, DispatchTypeOK
    <2>2. left' = left
      BY <1>3, <2>1
    <2> QED  BY <1>0, <2>2 DEF got
  <1>5. coming' = coming \ {u}
    <2>1. \A j \in Job : state'[j] = IF j = u THEN "forked" ELSE state[j]
      BY <1>3 DEF IInv, TypeOK, DispatchTypeOK
    <2> QED  BY <2>1 DEF coming
  <1>6. used' = used /\ used # Quantum
    BY <1>0 DEF used, Burnt
  <1>7. u \in Ideal!Overdue
    BY <1>0, <1>1 DEF Ideal!Overdue, ToCome
  <1>8. ~Ideal!Expired
    BY <1>6 DEF Ideal!Expired, used
  <1>9. Ideal!Admit(u)
    BY <1>0, <1>2, <1>4, <1>5, <1>6, <1>7, <1>8 DEF Ideal!Admit, got, coming, used
  <1> QED  BY <1>9

(* A unit burnt by a child is a unit the ideal round robin serves to the    *)
(* head of its queue.                                                       *)
LEMMA BurnUnitServes ==
  ASSUME IInv, NEW j \in Job, BurnUnit(j), UNCHANGED mainVars
  PROVE  Ideal!Serve
  <1> USE NIsNat, QuantumAssumption
  <1>0. /\ state[j] = "run" /\ x[j] > 0 /\ left' = [left EXCEPT ![j] = @ - 1]
        /\ x' = [x EXCEPT ![j] = @ - 1] /\ elapsed' = elapsed + 1
        /\ UNCHANGED <<arrive, need, state, pipe, pc, next, cur_job, remain, t>> /\ Ring' = Ring
    BY ChildFrame, SameRing DEF BurnUnit, input, IInv, ChildProgram
  <1>1. /\ j = cur_job /\ pc \in {"raise", "account"} /\ Taken(j) /\ t <= remain_time[j]
        /\ InFlight /\ Slicing /\ t <= remain /\ cur_job # NULL
        /\ left[j] \in Int /\ x[j] \in Nat /\ remain_time[j] \in Nat /\ need[j] \in Nat
        /\ t \in Nat /\ cur_time \in Nat /\ elapsed \in Nat /\ remain \in Nat
        /\ next < N => arrive[upcoming] \in Nat
    BY <1>0, TakenFacts, MainFacts, CurrentFacts
  <1>2. left[j] > 0 /\ elapsed < cur_time + t /\ pipe[j] = << >>
    <2>1. left[j] = remain_time[j] - t + x[j] /\ cur_time + t - x[j] = elapsed /\ pipe[j] = << >>
      BY <1>1 DEF Taken
    <2> QED  BY <1>0, <1>1, <2>1
  <1>3. left \in [Job -> Int] /\ need \in [Job -> Nat] /\ x \in [Job -> Nat]
    BY DEF IInv, TypeOK, DispatchTypeOK
  <1>4. Ideal!Overdue = {}
    <2>1. next < N => elapsed < arrive[upcoming]
      <3>1. next < N => cur_time + t <= arrive[upcoming]
        BY <1>1 DEF IInv, ClockInv
      <3> QED  BY <1>1, <1>2, <3>1
    <2> QED  BY <1>1, <2>1, NobodyOverdue
  <1>5. Ring # << >> /\ Head(Ring) = j
    BY <1>1, RingHead
  <1>6. got' = [got EXCEPT ![j] = @ + 1]
    <2>1. \A k \in Job : left'[k] = IF k = j THEN left[k] - 1 ELSE left[k]
      BY <1>0, <1>3
    <2>2. \A k \in Job : need[k] - left'[k] = IF k = j THEN (need[k] - left[k]) + 1
                                                       ELSE need[k] - left[k]
      BY <1>3, <2>1
    <2>3. got' = [k \in Job |-> need[k] - left'[k]]
      BY <1>0 DEF got
    <2>4. [got EXCEPT ![j] = @ + 1] = [k \in Job |-> IF k = j THEN (need[k] - left[k]) + 1
                                                              ELSE need[k] - left[k]]
      BY DEF got
    <2> QED  BY <2>2, <2>3, <2>4
  <1>7. got[j] # need[j]
    BY <1>1, <1>2 DEF got
  <1>8. used = Quantum - remain + (t - x[j]) /\ used' = Quantum - remain + (t - (x[j] - 1))
    <2>1. x'[j] = x[j] - 1
      BY <1>0, <1>3
    <2> QED  BY <1>0, <1>1, <1>2, <2>1 DEF used, Burnt, Owed
  <1>9. used' = used + 1 /\ used # Quantum
    BY <1>0, <1>1, <1>8
  <1>10. coming' = coming
    BY <1>0 DEF coming
  <1>11. ~Ideal!Done /\ ~Ideal!Expired
    BY <1>5, <1>7, <1>9 DEF Ideal!Done, Ideal!Expired, got, used
  <1> QED  BY <1>0, <1>4, <1>5, <1>6, <1>9, <1>10, <1>11 DEF Ideal!Serve, got, coming, used

(* A unit main waits is one in which the ideal queue is empty.              *)
LEMMA IdleIdles ==
  ASSUME IInv, Idle, elapsed' # elapsed
  PROVE  Ideal!Idle
  <1> USE NIsNat
  <1>0. /\ pc = "idle" /\ next < N /\ nodes = {} /\ cur_time + t = elapsed
        /\ cur_time \in Nat /\ t \in Nat /\ elapsed \in Nat
        /\ arrive[upcoming] \in Nat /\ upcoming \in Job /\ upcoming = p_arr[next] /\ next \in Slot
        /\ UNCHANGED <<arrive, need, left, state, list>>
    BY MainFacts DEF Idle, At, IInv, IndexInv, ClockInv, input, child
  <1>1. /\ t < arrive[upcoming] - cur_time /\ elapsed' = elapsed + 1 /\ pc' = pc /\ remain' = remain
    BY DEF Idle
  <1>2. elapsed < arrive[upcoming]
    BY <1>0, <1>1
  <1>3. Ideal!Overdue = {}
    BY <1>0, <1>2, NobodyOverdue
  <1>4. Ring = << >> /\ Ring' = Ring
    BY <1>0, MainFacts, RingHead, SameRing DEF IInv
  <1>5. coming # {}
    <2>1. ToCome(upcoming)
      <3>1. next <= next
        BY <1>0 DEF Slot
      <3> QED  BY <1>0, <3>1, SlotFacts
    <2> QED  BY <1>0, <2>1 DEF coming, ToCome
  <1>6. got' = got /\ coming' = coming /\ used' = used
    BY <1>0, <1>1 DEF got, coming, used, Burnt
  <1> QED  BY <1>0, <1>1, <1>3, <1>4, <1>5, <1>6 DEF Ideal!Idle, got, coming, used

(* The end of the quantum sends the head of the queue to its back.          *)
LEMMA AfterToNextRotates == IInv /\ AfterToNext => Ideal!Rotate
  <1> SUFFICES ASSUME IInv, AfterToNext PROVE Ideal!Rotate
    OBVIOUS
  <1> USE NIsNat, QuantumAssumption
  <1>c. PICK c \in Job : c = cur_job /\ c \in nodes /\ c # NULL
    BY CurrentFacts DEF AfterToNext, At, Slicing
  <1>0. /\ pc = "account" /\ kind = "to_next" /\ Slicing /\ pc' = "loop"
        /\ remain' = Quantum /\ cur_job' = nxt[c]
        /\ UNCHANGED <<arrive, need, state, left, elapsed, nxt, last, nodes>>
    BY <1>c DEF AfterToNext, At, Slicing, dispatchVars, input, child
  <1>1. /\ t = remain /\ t \in Nat /\ remain \in Nat /\ need[c] \in Nat /\ left[c] \in Int
        /\ Quantum \in Nat
    BY <1>c, <1>0, CurrentFacts, MainFacts DEF IInv, SliceInv
  <1>2. pipe[c] = << >> /\ x[c] = 0 /\ left[c] > 0
    <2>1. At("account")
      BY DEF AfterToNext
    <2> QED  BY <1>c, <1>0, <2>1, AccountFacts DEF Quiet
  <1>3. Ring' = Append(Tail(Ring), Head(Ring))
    <2>1. PICK r : r = Ring /\ IsRing(r)
      BY DEF IInv
    <2>2. PICK q : q = Append(Tail(r), Head(r))
      OBVIOUS
    <2>3. IsRing(q)'
      BY <1>c, <1>0, <2>1, <2>2, RingRotate
    <2>4. Ring' = q
      BY <2>3, NextRing
    <2> QED  BY <2>1, <2>2, <2>4
  <1>4. Ring # << >> /\ Head(Ring) = c
    BY <1>c, RingHead
  <1>5. used = Quantum
    BY <1>c, <1>0, <1>1, <1>2 DEF used, Burnt, Owed
  <1>6. used' = 0
    BY <1>0, <1>1 DEF used, Burnt
  <1>7. got' = got /\ coming' = coming /\ got[c] # need[c]
    BY <1>0, <1>1, <1>2 DEF got, coming
  <1>8. Ideal!Expired
    BY <1>4, <1>5, <1>7 DEF Ideal!Expired, Ideal!Done, got, used
  <1> QED  BY <1>0, <1>3, <1>4, <1>6, <1>7, <1>8 DEF Ideal!Rotate, got, coming, used

(* The job that has run to its end leaves the queue.                        *)
LEMMA AfterToDieLeaves == IInv /\ AfterToDie => Ideal!Leave
  <1> SUFFICES ASSUME IInv, AfterToDie PROVE Ideal!Leave
    OBVIOUS
  <1> USE NIsNat, QuantumAssumption
  <1>c. PICK c \in Job : c = cur_job /\ c \in nodes /\ c # NULL
    BY CurrentFacts DEF AfterToDie, At, Slicing
  <1>0. /\ pc = "wait" /\ Slicing /\ pc' = "loop" /\ RemoveList /\ remain' = Quantum
        /\ UNCHANGED <<arrive, need, elapsed>>
    BY DEF AfterToDie, At, Slicing, input
  <1>1. PICK j \in Job : j = c /\ state[j] = "zombie" /\ Reap(j) /\ InFlight
    <2>1. PICK j \in Zombies : Reap(j)
      BY DEF AfterToDie
    <2>2. j \in Job /\ state[j] = "zombie"
      BY <2>1 DEF Zombies
    <2> QED  BY <1>c, <1>0, <2>1, <2>2, OnlyCurrentBusy
  <1>2. left[c] = 0 /\ left' = left /\ need[c] \in Nat
    <2>1. Taken(c)
      BY <1>c, <1>0, <1>1 DEF IInv, CurrentInv
    <2> QED  BY <1>c, <1>0, <1>1, <2>1, CurrentFacts DEF Taken, Reap
  <1>3. Ring' = Tail(Ring)
    <2>1. PICK r : r = Ring /\ IsRing(r)
      BY DEF IInv
    <2>2. PICK q : q = Tail(r)
      OBVIOUS
    <2>3. IsRing(q)'
      BY <1>c, <1>0, <2>1, <2>2, MainFacts, RingRemove
    <2>4. Ring' = q
      BY <2>3, NextRing
    <2> QED  BY <2>1, <2>2, <2>4
  <1>4. Ring # << >> /\ Head(Ring) = c
    BY <1>c, RingHead
  <1>5. used' = 0
    BY <1>0 DEF used, Burnt
  <1>6. got' = got /\ got[c] = need[c]
    BY <1>0, <1>2 DEF got
  <1>7. coming' = coming
    <2>1. \A k \in Job : state'[k] = IF k = c THEN "reaped" ELSE state[k]
      BY <1>1 DEF Reap, IInv, TypeOK, DispatchTypeOK
    <2> QED  BY <1>1, <2>1 DEF coming
  <1>8. Ideal!Done
    BY <1>4, <1>6 DEF Ideal!Done, got
  <1> QED  BY <1>0, <1>3, <1>4, <1>5, <1>6, <1>7, <1>8 DEF Ideal!Leave, got, coming, used

(* A step that serves nobody, queues nobody and uses nothing of the quantum *)
(* is one the ideal round robin does not see.                               *)
LEMMA Unseen ==
  ASSUME IInv, UNCHANGED <<arrive, need, elapsed, left, list>>,
         \A j \in Job : state'[j] = "none" <=> state[j] = "none", used' = used
  PROVE  UNCHANGED Ideal!vars
  <1>1. Ring' = Ring
    BY SameRing DEF IInv
  <1>2. got' = got /\ coming' = coming
    BY DEF got, coming
  <1> QED  BY <1>1, <1>2 DEF Ideal!vars, got, coming, used

(* Between the slices, and around the dispatch of one, main is not seen.    *)
LEMMA MainIsUnseen ==
  ASSUME IInv, MainStep, elapsed' = elapsed, ~ForkChild, ~AfterToNext, ~AfterToDie
  PROVE  UNCHANGED Ideal!vars
  <1> USE NIsNat, QuantumAssumption
  <1>q. remain \in Nat /\ Quantum \in Nat /\ t \in Nat
    BY MainFacts
  <1>1. CASE ReadInput \/ Loop \/ ForkFails \/ StartIdle \/ Return
    <2>1. /\ UNCHANGED <<arrive, need, elapsed, left, state, list, remain>>
          /\ pc \in {"read", "loop", "fork", "choose"}
          /\ pc' \in {"loop", "fork", "choose", "idle", "exited"}
      BY <1>1 DEF ReadInput, Loop, ForkFails, StartIdle, Return, Exit, At, dispatchVars, input, child
    <2>2. used' = used
      BY <2>1 DEF used, Burnt
    <2> QED  BY <2>1, <2>2, Unseen
  <1>2. CASE Idle
    <2>1. /\ UNCHANGED <<arrive, need, elapsed, left, state, list>>
          /\ pc = "idle" /\ pc' = "loop" /\ remain' = Quantum /\ elapsed \in Nat
      BY <1>2, MainFacts DEF Idle, At, input, child
    <2>2. remain = Quantum
      BY <2>1 DEF IInv, IndexInv
    <2>3. used' = used
      BY <2>1, <2>2 DEF used, Burnt
    <2> QED  BY <2>1, <2>3, Unseen
  <1>3. CASE Choose
    <2>1. PICK c \in Job : c = cur_job /\ c \in nodes
      BY <1>3, MainFacts DEF Choose
    <2>2. /\ UNCHANGED <<arrive, need, elapsed, left, state, pipe, x, list, remain, cur_job>>
          /\ pc = "choose" /\ pc' = IF t' > 0 THEN "write" ELSE "account"
      BY <1>3 DEF Choose, At, dispatchVars, input, child, list
    <2>3. pipe[c] = << >> /\ x[c] = 0
      BY <2>1, <2>2, AllQuiet DEF InFlight, Quiet
    <2>4. t' \in Nat
      BY <1>3, <2>1, <2>2, SliceFacts DEF IInv, ClockInv
    <2>5. used' = used
      <3>1. Burnt = 0
        BY <2>2 DEF Burnt
      <3>2. Burnt' = 0
        <4>1. CASE t' > 0
          BY <2>2, <4>1 DEF Burnt
        <4>2. CASE t' = 0
          BY <2>1, <2>2, <2>3, <4>2 DEF Burnt, Owed
        <4> QED  BY <2>4, <4>1, <4>2
      <3> QED  BY <2>2, <3>1, <3>2 DEF used
    <2> QED  BY <2>2, <2>5, Unseen
  <1>4. CASE RunJobWrite
    <2>1. PICK c \in Job : c = cur_job /\ Resting(c) /\ pc = "write"
      BY <1>4, CurrentFacts DEF RunJobWrite, At, Slicing, InFlight
    <2>2. c \in readers[c]
      BY <2>1 DEF IInv, FdInv, Resting, Alive
    <2>3. /\ pc' = "raise" /\ pipe' = [pipe EXCEPT ![c] = Append(@, t)]
          /\ UNCHANGED <<arrive, need, elapsed, left, state, list, remain, cur_job, t>>
      BY <1>4, <2>1, <2>2 DEF RunJobWrite, Send, input, list
    <2>4. pipe'[c] # << >> /\ Head(pipe'[c]) = t
      <3>1. pipe'[c] = Append(<< >>, t)
        BY <2>1, <2>3 DEF Resting, Quiet, IInv, TypeOK, DispatchTypeOK
      <3>2. Append(<< >>, t) # << >> /\ Head(Append(<< >>, t)) = t
        BY <1>q
      <3> QED  BY <3>1, <3>2, Zenon
    <2>5. used' = used
      <3>1. Burnt = 0
        BY <2>1 DEF Burnt
      <3>2. Owed(cur_job)' = t
        BY <2>1, <2>3, <2>4 DEF Owed
      <3>3. Burnt' = 0
        BY <1>q, <2>3, <3>2 DEF Burnt
      <3> QED  BY <2>3, <3>1, <3>3 DEF used
    <2> QED  BY <2>3, <2>5, Unseen
  <1>5. CASE RunJobRaise
    <2>1. PICK c \in Job : c = cur_job /\ pc = "raise" /\ (Handed(c) \/ Taken(c))
      <3>1. pc = "raise" /\ Slicing /\ InFlight
        BY <1>5 DEF RunJobRaise, At, Slicing, InFlight, IInv, SliceInv
      <3> QED  BY <3>1, CurrentFacts DEF IInv, CurrentInv
    <2>2. state[c] # "reaped"
      BY <2>1 DEF Handed, Taken
    <2>3. /\ pc' = "account"
          /\ UNCHANGED <<arrive, need, elapsed, left, state, pipe, x, list, remain, cur_job, t>>
      BY <1>5, <2>1, <2>2 DEF RunJobRaise, Raise, input, list
    <2>4. used' = used
      BY <2>1, <2>3 DEF used, Burnt, Owed
    <2> QED  BY <2>3, <2>4, Unseen
  <1>6. CASE AfterToFork
    <2>1. PICK c \in Job : c = cur_job
      BY <1>6, CurrentFacts DEF AfterToFork, At, Slicing
    <2>2. /\ At("account") /\ pc = "account" /\ pc' = "loop" /\ remain' = remain - t
          /\ UNCHANGED <<arrive, need, elapsed, left, state, list>>
      BY <1>6 DEF AfterToFork, At, dispatchVars, input, child
    <2>3. pipe[c] = << >> /\ x[c] = 0
      BY <2>1, <2>2, AccountFacts DEF Quiet
    <2>4. used = Quantum - remain + t
      BY <1>q, <2>1, <2>2, <2>3 DEF used, Burnt, Owed
    <2>5. used' = Quantum - (remain - t)
      BY <1>q, <2>2 DEF used, Burnt
    <2>6. used' = used
      BY <1>q, <2>4, <2>5
    <2> QED  BY <2>2, <2>6, Unseen
  <1>7. CASE StartWait
    <2>1. /\ pc = "account" /\ pc' = "wait"
          /\ UNCHANGED <<arrive, need, elapsed, left, state, pipe, x, list, remain, cur_job, t>>
      BY <1>7 DEF StartWait, At, dispatchVars, input, child, list
    <2>2. used' = used
      BY <2>1 DEF used, Burnt, Owed
    <2> QED  BY <2>1, <2>2, Unseen
  <1> QED  BY <1>1, <1>2, <1>3, <1>4, <1>5, <1>6, <1>7 DEF MainStep

(* Of a child, only the units it burns are seen.                            *)
LEMMA ChildIsUnseen ==
  ASSUME IInv, NEW j \in Job, UNCHANGED mainVars,
         Exec(j, TRUE) \/ Scanf(j) \/ ScanfEof(j) \/ Finish(j) \/ Yield(j)
  PROVE  UNCHANGED Ideal!vars
  <1> USE NIsNat
  <1>0. UNCHANGED <<arrive, need, elapsed, left, list, pc, remain, cur_job, t>>
    BY DEF mainVars, list, Exec, Scanf, ScanfEof, Finish, Yield, input
  <1>1. \A k \in Job : state'[k] = "none" <=> state[k] = "none"
    <2>1. state[j] # "none" /\ \E s \in ChildState : s # "none" /\ state' = [state EXCEPT ![j] = s]
      BY DEF Exec, Scanf, ScanfEof, Finish, Yield, Dies, ChildState
    <2> QED  BY <2>1 DEF IInv, TypeOK, DispatchTypeOK
  <1>2. Burnt' = Burnt
    <2>1. CASE Scanf(j)
      <3>1. state[j] = "scan" /\ pipe[j] # << >>
        BY <2>1 DEF Scanf
      <3>2. j = cur_job /\ InFlight /\ Handed(j)
        <4>1. pc # "exited"
          BY <3>1 DEF IInv, ExitInv
        <4>2. j = cur_job /\ InFlight
          BY <3>1, <4>1, OnlyCurrentBusy
        <4> QED  BY <3>1, <4>2 DEF IInv, CurrentInv, Taken
      <3>3. Head(pipe[j]) = t /\ Tail(pipe[j]) = << >>
        BY <3>2, MainFacts, OneMessage DEF Handed
      <3>4. x'[j] = t /\ pipe'[j] = << >>
        BY <2>1, <3>3 DEF Scanf, IInv, TypeOK, DispatchTypeOK
      <3> QED  BY <1>0, <3>1, <3>2, <3>3, <3>4 DEF Burnt, Owed
    <2>2. CASE ~Scanf(j)
      <3>1. UNCHANGED <<x, pipe>>
        BY <2>2 DEF Exec, ScanfEof, Finish, Yield
      <3> QED  BY <1>0, <3>1 DEF Burnt, Owed
    <2> QED  BY <2>1, <2>2
  <1>3. used' = used
    BY <1>0, <1>2 DEF used
  <1> QED  BY <1>0, <1>1, <1>3, Unseen

(* A run of rr.c starts as one of the ideal round robin does.               *)
LEMMA IdealInit ==
  ASSUME 0 \notin ExecTimes
  PROVE  Init => Ideal!Init
  <1> SUFFICES ASSUME Init PROVE Ideal!Init
    OBVIOUS
  <1> USE QuantumAssumption
  <1>1. DispatchTypeOK /\ left = need /\ elapsed = 0 /\ remain = Quantum /\ pc = "read" /\ cur_job = NULL
    BY DispatchInitType DEF Init, DispatchInit
  <1>2. [j \in Job |-> need[j] - left[j]] = [j \in Job |-> 0]
    <2>1. \A j \in Job : need[j] - left[j] = 0
      BY <1>1 DEF DispatchTypeOK
    <2> QED  BY <2>1
  <1>3. {j \in Job : state[j] = "none"} = Job
    BY DEF Init, DispatchInit
  <1>4. Ring = << >>
    BY <1>1, InitInv, RingHead
  <1>5. Quantum - remain + Burnt = 0
    BY <1>1 DEF Burnt
  <1>6. need \in [Job -> Nat \ {0}]
    <2>1. need \in [Job -> ExecTimes] /\ ExecTimes \subseteq Nat \ {0}
      BY TimeAssumption DEF Init, DispatchInit
    <2> QED  BY <2>1
  <1> QED  BY <1>1, <1>2, <1>3, <1>4, <1>5, <1>6 DEF Ideal!Init, DispatchTypeOK

(* Every step is a step of the ideal round robin or no step of it.          *)
LEMMA IdealStep ==
  ASSUME ~ExecMayFail
  PROVE  IInv /\ [Next]_vars => [Ideal!Next]_(Ideal!vars)
  <1> SUFFICES ASSUME IInv, [Next]_vars PROVE [Ideal!Next]_(Ideal!vars)
    OBVIOUS
  <1>1. CASE MainStep
    <2>1. CASE ForkChild
      BY <2>1, ForkChildAdmits DEF Ideal!Next
    <2>2. CASE AfterToNext
      BY <2>2, AfterToNextRotates DEF Ideal!Next
    <2>3. CASE AfterToDie
      BY <2>3, AfterToDieLeaves DEF Ideal!Next
    <2>4. CASE elapsed' # elapsed
      <3>1. Idle
        BY <1>1, <2>4 DEF MainStep, ReadInput, Loop, ForkChild, ForkFails, StartIdle, Choose,
             RunJobWrite, RunJobRaise, AfterToFork, AfterToNext, StartWait, AfterToDie, Return,
             dispatchVars
      <3> QED  BY <2>4, <3>1, IdleIdles DEF Ideal!Next
    <2>5. CASE ~ForkChild /\ ~AfterToNext /\ ~AfterToDie /\ elapsed' = elapsed
      BY <1>1, <2>5, MainIsUnseen
    <2> QED  BY <2>1, <2>2, <2>3, <2>4, <2>5
  <1>2. ASSUME NEW j \in Job, ChildStep(j)
        PROVE  [Ideal!Next]_(Ideal!vars)
    <2>1. /\ UNCHANGED mainVars
          /\ \/ BurnUnit(j)
             \/ Exec(j, TRUE) \/ Scanf(j) \/ ScanfEof(j) \/ Finish(j) \/ Yield(j)
      BY <1>2 DEF ChildStep, ChildProgram, ExecFails
    <2> QED  BY <2>1, BurnUnitServes, ChildIsUnseen DEF Ideal!Next
  <1>3. CASE UNCHANGED vars
    <2>1. UNCHANGED <<arrive, need, elapsed, left, state, list, pc, remain, cur_job, t, x, pipe>>
      BY <1>3 DEF vars, dispatchVars, mainVars, input, child, list
    <2>2. used' = used
      BY <2>1 DEF used, Burnt, Owed
    <2> QED  BY <2>1, <2>2, Unseen
  <1> QED  BY <1>1, <1>2, <1>3 DEF Next

(* Unit by unit, and in the order of its queue, rr.c and its children       *)
(* behave as round robin when execl() does not fail and every job has       *)
(* something to run: the list, the pipes, the priorities and main's         *)
(* bookkeeping of slices cut short by arrivals add up to the policy.        *)
THEOREM RrIsIdeal ==
  ASSUME ~ExecMayFail, 0 \notin ExecTimes
  PROVE  Spec => ImplementsRr
  <1>1. Init => Ideal!Init
    BY IdealInit
  <1>2. IInv /\ [Next]_vars => [Ideal!Next]_(Ideal!vars)
    BY IdealStep
  <1> QED  BY <1>1, <1>2, RrInvariance, PTL DEF Spec, ImplementsRr, Ideal!Spec

-----------------------------------------------------------------------------
(* main's list and its books: MainInv, whatever becomes of the children.    *)

(* The numbers main works with, the job it is busy with, and where the jobs *)
(* are in its array.                                                        *)
LEMMA BooksFacts ==
  ASSUME MainInv
  PROVE  /\ next \in 0 .. N /\ finish \in 0 .. N /\ finish + Cardinality(nodes) = next
         /\ Cardinality(nodes) \in Nat /\ (Cardinality(nodes) = 0 <=> nodes = {})
         /\ cur_time \in Nat /\ t \in Nat /\ elapsed \in Nat
         /\ remain \in 1 .. Quantum /\ Quantum \in Nat \ {0}
         /\ p_arr \in Listings /\ \A i \in Slot : p_arr[i] \in Job
         /\ \A i, k \in Slot : p_arr[i] = p_arr[k] => i = k
         /\ \A j \in Job : \E i \in Slot : p_arr[i] = j
         /\ next < N => /\ next \in Slot /\ upcoming \in Job /\ upcoming = p_arr[next]
                        /\ arrive[upcoming] \in Nat /\ upcoming \notin nodes
                        /\ remain_time[upcoming] = need[upcoming]
         /\ nodes \subseteq Job /\ (cur_job = NULL <=> nodes = {})
         /\ cur_job # NULL => cur_job \in nodes /\ cur_job \in Job
         /\ Slicing => /\ cur_job \in nodes /\ cur_job \in Job /\ cur_job # NULL
                       /\ t <= remain_time[cur_job] /\ t <= remain
                       /\ remain_time[cur_job] \in Nat
         /\ nxt \in [Job -> Proc] /\ last \in [Job -> Proc]
         /\ arrive \in [Job -> Nat] /\ need \in [Job -> Nat] /\ remain_time \in [Job -> Nat]
  <1>1. TypeOK /\ IsRing(Ring) /\ IndexInv /\ p_arr \in Listings
    BY DEF MainInv, ListingInv
  <1>2. /\ \A i, k \in Slot : p_arr[i] = p_arr[k] => i = k
        /\ \A j \in Job : \E i \in Slot : p_arr[i] = j
    BY <1>1 DEF Listings
  <1>3. /\ remain \in 1 .. Quantum /\ arrive \in [Job -> Nat] /\ need \in [Job -> Nat]
        /\ remain_time \in [Job -> Nat]
    BY <1>1 DEF TypeOK, DispatchTypeOK
  <1>4. /\ next \in 0 .. N /\ finish \in 0 .. N /\ finish + Cardinality(nodes) = next
        /\ Cardinality(nodes) \in Nat /\ (Cardinality(nodes) = 0 <=> nodes = {})
        /\ cur_time \in Nat /\ t \in Nat /\ elapsed \in Nat /\ Quantum \in Nat \ {0}
        /\ \A i \in Slot : p_arr[i] \in Job
        /\ next < N => /\ next \in Slot /\ upcoming \in Job /\ upcoming = p_arr[next]
                       /\ arrive[upcoming] \in Nat
        /\ nodes \subseteq Job /\ (cur_job = NULL <=> nodes = {})
        /\ cur_job # NULL => cur_job \in nodes /\ cur_job \in Job
        /\ nxt \in [Job -> Proc] /\ last \in [Job -> Proc]
    BY <1>1, ListFacts
  <1>5. next < N => upcoming \notin nodes /\ remain_time[upcoming] = need[upcoming]
    BY <1>4 DEF MainInv, NodesInv
  <1>6. Slicing => /\ cur_job \in nodes /\ cur_job # NULL
                   /\ t <= remain_time[cur_job] /\ t <= remain
    BY <1>4 DEF MainInv, SliceInv
  <1> QED  BY <1>1, <1>2, <1>3, <1>4, <1>5, <1>6

(* A step that leaves the list, the array and what is booked alone.         *)
LEMMA SameBooks ==
  ASSUME MainInv, pc' # "read",
         UNCHANGED <<arrive, need, p_arr, next, finish, cur_time, remain, remain_time>>,
         UNCHANGED list, pc # "read",
         TypeOK', SliceInv', PlanInv',
         pc' \notin {"loop", "exited"} => finish < N,
         pc' = "fork" => next < N,
         pc' = "idle" => next < N /\ nodes = {}
  PROVE  MainInv'
  <1>1. UNCHANGED <<cur_job, nxt, last, nodes>>
    BY DEF list
  <1>2. IsRing(Ring)'
    BY SameRing DEF MainInv
  <1>3. ListingInv' /\ IndexInv' /\ NodesInv'
    BY <1>1 DEF MainInv, ListingInv, IndexInv, NodesInv
  <1> QED  BY <1>2, <1>3 DEF MainInv

(* The initial states.                                                      *)
LEMMA InitBooks == Init => MainInv
  <1> SUFFICES ASSUME Init PROVE MainInv
    OBVIOUS
  <1>1. IInv
    BY InitInv
  <1>2. PlanInv
    BY <1>1 DEF Init, PlanInv, IInv, ClockInv, Slicing
  <1>3. NodesInv
    BY DEF Init, DispatchInit, NodesInv
  <1> QED  BY <1>1, <1>2, <1>3 DEF IInv, MainInv

(* The input is read and the array sorted by ready time.                    *)
LEMMA ReadInputBooks == MainInv /\ ReadInput => MainInv'
  <1> SUFFICES ASSUME MainInv, ReadInput PROVE MainInv'
    OBVIOUS
  <1> USE NIsNat
  <1>0. /\ pc = "read" /\ pc' = "loop" /\ next = 0 /\ finish = 0 /\ nodes = {} /\ cur_time = 0
        /\ UNCHANGED <<arrive, need, state, prio, left, x, pipe, writers, readers, elapsed, began, ended>>
        /\ UNCHANGED <<next, finish, cur_time, remain, remain_time, ts>>
        /\ UNCHANGED <<cur_job, nxt, last, nodes, kind, t, printed, list>>
    <2>1. pc = "read" /\ next = 0 /\ cur_time = 0
      BY DEF ReadInput, At, MainInv, IndexInv, PlanInv
    <2>2. finish = 0 /\ nodes = {}
      BY <2>1, BooksFacts
    <2> QED  BY <2>1, <2>2 DEF ReadInput, dispatchVars, input, child, fds, history, list
  <1>1. /\ p_arr' \in Listings
        /\ \A i, k \in Slot : i <= k => arrive[p_arr'[i]] <= arrive[p_arr'[k]]
    <2>1. p_arr' \in QSort(p_arr, 0, N, arrive) /\ N \in 0 .. N /\ 0 \in Nat
      BY DEF ReadInput
    <2>2. /\ p_arr' \in Listings
          /\ \A i, k \in Slot : 0 <= i /\ i <= k /\ k < N => arrive[p_arr'[i]] <= arrive[p_arr'[k]]
      BY <2>1, BooksFacts, QSortFacts
    <2> QED  BY <2>2 DEF Slot
  <1>2. p_arr' \in [Slot -> Job]
    BY <1>1 DEF Listings
  <1>3. TypeOK'
    BY <1>0, <1>2 DEF MainInv, TypeOK, DispatchTypeOK, MainState
  <1>4. ListingInv' /\ IndexInv' /\ NodesInv' /\ SliceInv'
    <2>1. NodesInv'
      <3>1. \A j \in Job : remain_time[j] = need[j]
        <4> SUFFICES ASSUME NEW j \in Job PROVE remain_time[j] = need[j]
          OBVIOUS
        <4>1. PICK i \in Slot : p_arr[i] = j
          BY BooksFacts
        <4> QED  BY <1>0, <4>1 DEF MainInv, NodesInv, Slot
      <3> QED  BY <1>0, <1>2, <3>1 DEF NodesInv
    <2> QED  BY <1>0, <1>1, <2>1 DEF MainInv, ListingInv, IndexInv, SliceInv, Slicing
  <1>5. PlanInv'
    <2>1. N > 0 => p_arr'[0] \in Job
      BY <1>2 DEF Slot
    <2>2. N > 0 => arrive[p_arr'[0]] \in Nat
      BY <2>1 DEF MainInv, TypeOK, DispatchTypeOK
    <2>3. upcoming' = p_arr'[0]
      BY <1>0 DEF upcoming
    <2> QED  BY <1>0, <2>2, <2>3 DEF PlanInv, Slicing
  <1>6. IsRing(Ring)'
    BY <1>0, SameRing DEF MainInv
  <1> QED  BY <1>3, <1>4, <1>5, <1>6 DEF MainInv

(* The top of the loop.                                                     *)
LEMMA LoopBooks == MainInv /\ Loop => MainInv'
  <1> SUFFICES ASSUME MainInv, Loop PROVE MainInv'
    OBVIOUS
  <1> USE NIsNat
  <1>0. /\ pc = "loop" /\ finish < N /\ pc' \in {"fork", "choose"}
        /\ \/ Due /\ OpenPipes({upcoming}) /\ pc' = "fork"
           \/ UNCHANGED fds /\ pc' = "choose"
        /\ UNCHANGED <<arrive, need, state, prio, left, x, pipe, elapsed, began, ended>>
        /\ UNCHANGED <<p_arr, next, finish, cur_time, remain, remain_time, ts>>
        /\ UNCHANGED <<cur_job, nxt, last, nodes, kind, t, printed, list>>
    BY DEF Loop, At, input, child, history, list, record
  <1>1. pc' = "fork" => next < N /\ arrive[upcoming] = cur_time
    BY <1>0 DEF Due
  <1>2. writers' \in [Job -> SUBSET Proc] /\ readers' \in [Job -> SUBSET Proc]
    <2>1. CASE pc' = "fork"
      <3>1. \A j \in Job : {Main} \in SUBSET Proc /\ writers[j] \in SUBSET Proc
                          /\ readers[j] \in SUBSET Proc
        BY DEF MainInv, TypeOK, DispatchTypeOK, Proc
      <3> QED  BY <1>0, <2>1, <3>1 DEF OpenPipes
    <2>2. CASE pc' = "choose"
      BY <1>0, <2>2 DEF fds, MainInv, TypeOK, DispatchTypeOK
    <2> QED  BY <1>0, <2>1, <2>2
  <1>3. TypeOK'
    BY <1>0, <1>2 DEF MainInv, TypeOK, DispatchTypeOK, MainState
  <1>4. SliceInv' /\ PlanInv'
    BY <1>0, <1>1 DEF MainInv, SliceInv, PlanInv, Slicing, upcoming
  <1> QED  BY <1>0, <1>1, <1>3, <1>4, SameBooks

(* fork() of the job that is due, and its node at the end of the ring.      *)
LEMMA ForkChildBooks == MainInv /\ ForkChild => MainInv'
  <1> SUFFICES ASSUME MainInv, ForkChild PROVE MainInv'
    OBVIOUS
  <1> USE NIsNat
  <1>u. PICK u \in Job : u = upcoming /\ next < N
    BY BooksFacts DEF ForkChild, At, MainInv, IndexInv
  <1>0. /\ pc = "fork" /\ pc' = "choose" /\ arrive[u] = cur_time
        /\ Spawn(u, need[u], TRUE) /\ AddList(u) /\ next' = next + 1 /\ finish < N
        /\ UNCHANGED <<input, elapsed, history>>
        /\ UNCHANGED <<arrive, need, elapsed, began, ended, p_arr, finish, cur_time>>
        /\ UNCHANGED <<remain, remain_time, ts, kind, t, printed>>
    BY <1>u DEF ForkChild, At, MainInv, IndexInv, PlanInv, input, history, record
  <1>1. /\ next \in Slot /\ next \in Nat /\ u = p_arr[next] /\ finish \in 0 .. N
        /\ finish + Cardinality(nodes) = next /\ Cardinality(nodes) \in Nat
        /\ nodes \subseteq Job /\ nxt \in [Job -> Proc] /\ last \in [Job -> Proc]
        /\ next' \in 0 .. N /\ u \notin nodes /\ remain_time[u] = need[u] /\ need[u] \in Nat
        /\ \A i, k \in Slot : p_arr[i] = p_arr[k] => i = k
    BY <1>0, <1>u, BooksFacts DEF Slot
  <1>3. /\ Cardinality(nodes)' = Cardinality(nodes) + 1 /\ IsRing(Ring)'
        /\ nxt' \in [Job -> Proc] /\ last' \in [Job -> Proc]
    <2>1. PICK r : r = Ring /\ IsRing(r)
      BY DEF MainInv
    <2>2. PICK q : q = Append(r, u)
      OBVIOUS
    <2>3. /\ IsRing(q)' /\ Cardinality(nodes)' = Cardinality(nodes) + 1
          /\ nxt' \in [Job -> Proc] /\ last' \in [Job -> Proc]
      BY <1>0, <1>1, <2>1, <2>2, RingAdd
    <2> QED  BY <2>3, NextRing
  <1>4. nodes' = nodes \cup {u} /\ cur_job' \in nodes'
    BY <1>0, BooksFacts DEF AddList
  <1>5. DispatchTypeOK /\ need[u] \in Int /\ TRUE \in BOOLEAN
    BY <1>1 DEF MainInv, TypeOK
  <1>6. DispatchTypeOK'
    BY <1>0, <1>5, SpawnFacts
  <1>8. TypeOK'
    BY <1>0, <1>1, <1>3, <1>4, <1>6 DEF MainInv, TypeOK, MainState
  <1>9. ListingInv'
    BY <1>0 DEF MainInv, ListingInv
  <1>10. IndexInv' /\ SliceInv'
    BY <1>0, <1>1, <1>3, <1>4 DEF IndexInv, SliceInv, Slicing
  <1>11. PlanInv'
    <2>1. next' < N => cur_time <= arrive[p_arr[next + 1]]
      <3> SUFFICES ASSUME next' < N PROVE arrive[p_arr[next]] <= arrive[p_arr[next + 1]]
        BY <1>0, <1>1
      <3>1. next + 1 \in Slot /\ next <= next + 1
        BY <1>0, <1>1 DEF Slot
      <3> QED  BY <1>0, <1>1, <3>1 DEF MainInv, ListingInv
    <2>2. upcoming' = p_arr[next + 1]
      BY <1>0 DEF upcoming
    <2> QED  BY <1>0, <2>1, <2>2 DEF PlanInv, Slicing
  <1>12. NodesInv'
    <2>1. \A i \in Slot : next + 1 <= i =>
            p_arr[i] \notin nodes' /\ remain_time[p_arr[i]] = need[p_arr[i]]
      <3> SUFFICES ASSUME NEW i \in Slot, next + 1 <= i
                   PROVE  p_arr[i] \notin nodes' /\ remain_time[p_arr[i]] = need[p_arr[i]]
        OBVIOUS
      <3>1. next <= i /\ i # next
        BY <1>1 DEF Slot
      <3>2. p_arr[i] \notin nodes /\ remain_time[p_arr[i]] = need[p_arr[i]]
        BY <3>1 DEF MainInv, NodesInv
      <3>3. p_arr[i] # u
        BY <1>1, <3>1
      <3> QED  BY <1>4, <3>2, <3>3
    <2>2. remain_time[u] > 0 \/ need[u] = 0
      BY <1>1
    <2> QED  BY <1>0, <1>4, <2>1, <2>2 DEF MainInv, NodesInv
  <1> QED  BY <1>3, <1>8, <1>9, <1>10, <1>11, <1>12 DEF MainInv

(* main goes, by whichever of its exits.                                    *)
LEMMA LeaveBooks ==
  ASSUME MainInv, pc # "read", pc' = "exited", DropFds(Main),
         UNCHANGED <<arrive, need, state, prio, left, x, pipe, elapsed, began, ended>>,
         UNCHANGED <<p_arr, next, finish, cur_time, remain, remain_time, list>>,
         UNCHANGED <<kind, t, printed>>,
         ts' \in [Job -> [0 .. 1 -> Nat \cup {Never}]]
  PROVE  MainInv'
  <1>1. UNCHANGED <<cur_job, nxt, last, nodes>>
    BY DEF list
  <1>2. DispatchTypeOK'
    <2>1. writers' \in [Job -> SUBSET Proc] /\ readers' \in [Job -> SUBSET Proc]
      BY DropFdsType DEF MainInv, TypeOK
    <2> QED  BY <2>1 DEF MainInv, TypeOK, DispatchTypeOK
  <1>3. TypeOK'
    BY <1>1, <1>2 DEF MainInv, TypeOK, MainState
  <1>4. SliceInv' /\ PlanInv'
    BY DEF SliceInv, PlanInv, Slicing
  <1> QED  BY <1>3, <1>4, SameBooks

(* The list is empty.                                                       *)
LEMMA StartIdleBooks == MainInv /\ StartIdle => MainInv'
  <1> SUFFICES ASSUME MainInv, StartIdle PROVE MainInv'
    OBVIOUS
  <1>0. /\ pc = "choose" /\ pc' = "idle" /\ t' = 0 /\ cur_job = NULL
        /\ UNCHANGED <<arrive, need, state, prio, left, x, pipe, writers, readers, elapsed, began, ended>>
        /\ UNCHANGED <<p_arr, next, finish, cur_time, remain, remain_time, ts>>
        /\ UNCHANGED <<cur_job, nxt, last, nodes, kind, printed, list>>
    BY DEF StartIdle, At, dispatchVars, input, child, fds, history, list, record
  <1>1. nodes = {} /\ next < N /\ finish < N /\ cur_time \in Nat
    BY <1>0, BooksFacts DEF MainInv, IndexInv
  <1>2. TypeOK'
    BY <1>0 DEF MainInv, TypeOK, DispatchTypeOK, MainState
  <1>3. SliceInv' /\ PlanInv'
    BY <1>0, <1>1 DEF MainInv, SliceInv, PlanInv, Slicing, upcoming
  <1> QED  BY <1>0, <1>1, <1>2, <1>3, SameBooks

(* wait_for_job().                                                          *)
LEMMA IdleBooks == MainInv /\ Idle => MainInv'
  <1> SUFFICES ASSUME MainInv, Idle PROVE MainInv'
    OBVIOUS
  <1> USE NIsNat, QuantumAssumption
  <1>0. /\ pc = "idle" /\ next < N /\ nodes = {} /\ finish < N
        /\ cur_time + t <= arrive[upcoming]
        /\ cur_time \in Nat /\ t \in Nat /\ elapsed \in Nat /\ arrive[upcoming] \in Nat
        /\ UNCHANGED <<arrive, need, state, prio, left, x, pipe, writers, readers, began, ended>>
        /\ UNCHANGED <<p_arr, next, finish, remain_time, ts>>
        /\ UNCHANGED <<cur_job, nxt, last, nodes, kind, printed, list>>
    BY BooksFacts DEF Idle, At, MainInv, IndexInv, PlanInv, input, child, fds, history, list, record
  <1>1. \/ /\ t < arrive[upcoming] - cur_time /\ t' = t + 1 /\ elapsed' = elapsed + 1
           /\ pc' = "idle" /\ cur_time' = cur_time /\ remain' = remain
        \/ /\ cur_time' = arrive[upcoming] /\ remain' = Quantum /\ pc' = "loop"
           /\ t' = t /\ elapsed' = elapsed
    BY <1>0 DEF Idle
  <1>2. /\ cur_time' \in Nat /\ t' \in Nat /\ elapsed' \in Nat /\ pc' \in {"idle", "loop"}
        /\ remain' \in 1 .. Quantum /\ remain' = Quantum
    BY <1>0, <1>1, BooksFacts DEF MainInv, IndexInv
  <1>3. TypeOK'
    BY <1>0, <1>2 DEF MainInv, TypeOK, DispatchTypeOK, MainState
  <1>4. ListingInv' /\ IndexInv' /\ NodesInv'
    BY <1>0, <1>2 DEF MainInv, ListingInv, IndexInv, NodesInv
  <1>5. SliceInv' /\ PlanInv'
    <2>1. upcoming' = upcoming
      BY <1>0 DEF upcoming
    <2> QED  BY <1>0, <1>1, <1>2, <2>1 DEF SliceInv, PlanInv, Slicing
  <1>6. IsRing(Ring)'
    BY <1>0, SameRing DEF MainInv
  <1> QED  BY <1>3, <1>4, <1>5, <1>6 DEF MainInv

(* The choice of the branch.                                                *)
LEMMA ChooseBooks == MainInv /\ Choose => MainInv'
  <1> SUFFICES ASSUME MainInv, Choose PROVE MainInv'
    OBVIOUS
  <1>c. PICK c \in Job : c = cur_job /\ c \in nodes
    BY BooksFacts DEF Choose
  <1>p. pc = "choose" /\ finish < N
    BY DEF Choose, At, MainInv, IndexInv
  <1>0. /\ pc = "choose" /\ pc' \in {"write", "account"} /\ finish < N
        /\ pc' = IF t' > 0 THEN "write" ELSE "account"
        /\ UNCHANGED <<arrive, need, state, prio, left, x, pipe, writers, readers, elapsed, began, ended>>
        /\ UNCHANGED <<p_arr, next, finish, cur_time, remain, remain_time, ts>>
        /\ UNCHANGED <<cur_job, nxt, last, nodes, printed, list>>
    BY <1>p DEF Choose, At, dispatchVars, input, child, fds, history, list, record
  <1>1. /\ kind' \in {"to_fork", "to_next", "to_die"} /\ t' \in Nat
        /\ t' <= remain_time[c] /\ t' <= remain
        /\ kind' = "to_fork" => /\ next < N /\ cur_time + t' = arrive[upcoming]
                                /\ t' < remain_time[c] /\ t' < remain
        /\ kind' = "to_next" => t' = remain /\ t' < remain_time[c]
        /\ kind' = "to_die" => t' = remain_time[c]
        /\ next < N => cur_time + t' <= arrive[upcoming]
    BY <1>c, <1>0, SliceFacts DEF MainInv, PlanInv
  <1>2. TypeOK'
    BY <1>0, <1>1 DEF MainInv, TypeOK, DispatchTypeOK, MainState
  <1>3. SliceInv' /\ PlanInv'
    <2>1. pc' = "write" => t' > 0
      BY <1>0
    <2>2. upcoming' = upcoming
      BY <1>0 DEF upcoming
    <2> QED  BY <1>c, <1>0, <1>1, <2>1, <2>2 DEF SliceInv, PlanInv
  <1> QED  BY <1>0, <1>2, <1>3, SameBooks

(* The time stamp run_job() takes.                                          *)
LEMMA StampFacts ==
  ASSUME TypeOK, NEW c \in Job, c = cur_job,
         ts' = IF FirstDispatch THEN [ts EXCEPT ![cur_job][0] = elapsed] ELSE ts
  PROVE  /\ ts' \in [Job -> [0 .. 1 -> Nat \cup {Never}]]
         /\ \A j \in Job : j # c \/ remain_time[c] # need[c] => ts'[j] = ts[j]
         /\ remain_time[c] = need[c] => ts'[c][0] = elapsed
  <1>0. ts \in [Job -> [0 .. 1 -> Nat \cup {Never}]] /\ elapsed \in Nat
    BY DEF TypeOK, DispatchTypeOK
  <1>1. CASE remain_time[c] # need[c]
    BY <1>0, <1>1 DEF FirstDispatch
  <1>2. CASE remain_time[c] = need[c]
    <2>1. ts' = [ts EXCEPT ![c] = [@ EXCEPT ![0] = elapsed]]
      BY <1>2 DEF FirstDispatch
    <2>2. [ts[c] EXCEPT ![0] = elapsed] \in [0 .. 1 -> Nat \cup {Never}]
      BY <1>0
    <2>3. [ts[c] EXCEPT ![0] = elapsed][0] = elapsed
      BY <1>0
    <2> QED  BY <1>0, <1>2, <2>1, <2>2, <2>3
  <1> QED  BY <1>1, <1>2

(* run_job(): the time stamp and the write().                               *)
LEMMA RunJobWriteBooks == MainInv /\ RunJobWrite => MainInv'
  <1> SUFFICES ASSUME MainInv, RunJobWrite PROVE MainInv'
    OBVIOUS
  <1>p. pc = "write" /\ Slicing
    BY DEF RunJobWrite, At, Slicing
  <1>c. PICK c \in Job : c = cur_job
    BY <1>p, BooksFacts
  <1>0. /\ ts' \in [Job -> [0 .. 1 -> Nat \cup {Never}]]
        /\ UNCHANGED <<arrive, need, state, prio, left, x, elapsed, began, ended>>
        /\ UNCHANGED <<p_arr, next, finish, cur_time, remain, remain_time>>
        /\ UNCHANGED <<kind, t, printed, list>> /\ UNCHANGED <<cur_job, nxt, last, nodes>>
    BY <1>c, StampFacts DEF RunJobWrite, Send, input, child, history, list, MainInv
  <1>1. CASE pc' = "raise"
    <2>1. Send(c, t) /\ UNCHANGED <<writers, readers>>
      BY <1>c, <1>1 DEF RunJobWrite, Exit, fds
    <2>2. pipe' \in [Job -> Seq(Nat)]
      <3>1. pipe \in [Job -> Seq(Nat)] /\ Append(pipe[c], t) \in Seq(Nat)
        BY DEF MainInv, TypeOK, DispatchTypeOK
      <3> QED  BY <2>1, <3>1 DEF Send
    <2>3. TypeOK'
      BY <1>0, <1>1, <2>1, <2>2 DEF MainInv, TypeOK, DispatchTypeOK, MainState
    <2>4. SliceInv' /\ PlanInv'
      BY <1>p, <1>0, <1>1 DEF MainInv, SliceInv, PlanInv, Slicing, upcoming
    <2>5. finish < N
      BY <1>p DEF MainInv, IndexInv
    <2> QED  BY <1>p, <1>0, <1>1, <2>3, <2>4, <2>5, SameBooks
  <1>2. CASE pc' # "raise"
    <2>1. pc' = "exited" /\ DropFds(Main) /\ pipe' = pipe
      BY <1>2 DEF RunJobWrite, Exit, child
    <2> QED  BY <1>p, <1>0, <2>1, LeaveBooks
  <1> QED  BY <1>1, <1>2

(* run_job(): the child is raised above main.                               *)
LEMMA RunJobRaiseBooks == MainInv /\ RunJobRaise => MainInv'
  <1> SUFFICES ASSUME MainInv, RunJobRaise PROVE MainInv'
    OBVIOUS
  <1>p. pc = "raise" /\ Slicing
    BY DEF RunJobRaise, At, Slicing
  <1>0. /\ UNCHANGED <<arrive, need, state, left, x, pipe, elapsed, began, ended>>
        /\ UNCHANGED <<p_arr, next, finish, cur_time, remain, remain_time, ts>>
        /\ UNCHANGED <<kind, t, printed, list>> /\ UNCHANGED <<cur_job, nxt, last, nodes>>
    BY DEF RunJobRaise, Raise, input, child, history, list, record
  <1>1. CASE pc' = "account"
    <2>1. Raise(cur_job) /\ UNCHANGED <<writers, readers>>
      BY <1>1 DEF RunJobRaise, Exit, fds
    <2>2. prio' \in [Job -> {YieldPrio, MainPrio, RunPrio}]
      BY <2>1 DEF Raise, MainInv, TypeOK, DispatchTypeOK
    <2>3. TypeOK'
      BY <1>0, <1>1, <2>1, <2>2 DEF MainInv, TypeOK, DispatchTypeOK, MainState
    <2>4. SliceInv' /\ PlanInv'
      BY <1>p, <1>0, <1>1 DEF MainInv, SliceInv, PlanInv, Slicing, upcoming
    <2>5. finish < N
      BY <1>p DEF MainInv, IndexInv
    <2> QED  BY <1>p, <1>0, <1>1, <2>3, <2>4, <2>5, SameBooks
  <1>2. CASE pc' # "account"
    <2>1. pc' = "exited" /\ DropFds(Main) /\ prio' = prio
      BY <1>2 DEF RunJobRaise, Exit, child
    <2>2. ts' \in [Job -> [0 .. 1 -> Nat \cup {Never}]]
      BY <1>0 DEF MainInv, TypeOK
    <2> QED  BY <1>p, <1>0, <2>1, <2>2, LeaveBooks
  <1> QED  BY <1>1, <1>2

(* The slice up to the next arrival is booked.                              *)
LEMMA AfterToForkBooks == MainInv /\ AfterToFork => MainInv'
  <1> SUFFICES ASSUME MainInv, AfterToFork PROVE MainInv'
    OBVIOUS
  <1> USE QuantumAssumption
  <1>p. pc = "account" /\ kind = "to_fork" /\ Slicing /\ finish < N
    BY DEF AfterToFork, At, Slicing, MainInv, IndexInv
  <1>c. PICK c \in Job : c = cur_job /\ c \in nodes
    BY <1>p, BooksFacts
  <1>0. /\ pc' = "loop" /\ remain' = remain - t
        /\ remain_time' = [remain_time EXCEPT ![c] = @ - t]
        /\ cur_time' = arrive[upcoming]
        /\ UNCHANGED <<arrive, need, state, prio, left, x, pipe, writers, readers, elapsed, began, ended>>
        /\ UNCHANGED <<p_arr, next, finish, ts>>
        /\ UNCHANGED <<cur_job, nxt, last, nodes, kind, t, printed, list>>
    BY <1>c DEF AfterToFork, dispatchVars, input, child, fds, history, list
  <1>1. /\ next < N /\ cur_time + t = arrive[upcoming] /\ t < remain_time[c] /\ t < remain
        /\ arrive[upcoming] \in Nat /\ t \in Nat /\ remain \in 1 .. Quantum
        /\ remain_time \in [Job -> Nat] /\ remain_time[c] \in Nat
    BY <1>c, <1>p, BooksFacts DEF MainInv, SliceInv
  <1>2. /\ remain' \in 1 .. Quantum /\ cur_time' \in Nat
        /\ remain_time' \in [Job -> Nat] /\ remain_time'[c] > 0
        /\ \A j \in Job : j # c => remain_time'[j] = remain_time[j]
    <2>1. remain_time[c] - t \in Nat /\ remain_time[c] - t > 0
      BY <1>1
    <2> QED  BY <1>0, <1>1, <2>1
  <1>3. TypeOK'
    BY <1>0, <1>2 DEF MainInv, TypeOK, DispatchTypeOK, MainState
  <1>4. ListingInv' /\ IndexInv'
    BY <1>c, <1>p, <1>0 DEF MainInv, ListingInv, IndexInv
  <1>5. SliceInv' /\ PlanInv'
    BY <1>0, <1>1 DEF SliceInv, PlanInv, Slicing, upcoming
  <1>6. NodesInv'
    <2>1. \A i \in Slot : next <= i => p_arr[i] # c /\ p_arr[i] \in Job
      BY <1>c, BooksFacts DEF MainInv, NodesInv
    <2>2. \A j \in nodes : j \in Job
      BY BooksFacts
    <2> QED  BY <1>0, <1>2, <2>1, <2>2 DEF MainInv, NodesInv
  <1>7. IsRing(Ring)'
    BY <1>0, SameRing DEF MainInv
  <1> QED  BY <1>3, <1>4, <1>5, <1>6, <1>7 DEF MainInv

(* The quantum is over: it is booked, and the next of the ring is current.  *)
LEMMA AfterToNextBooks == MainInv /\ AfterToNext => MainInv'
  <1> SUFFICES ASSUME MainInv, AfterToNext PROVE MainInv'
    OBVIOUS
  <1> USE QuantumAssumption
  <1>p. pc = "account" /\ kind = "to_next" /\ Slicing /\ finish < N
    BY DEF AfterToNext, At, Slicing, MainInv, IndexInv
  <1>c. PICK c \in Job : c = cur_job /\ c \in nodes /\ c # NULL
    BY <1>p, BooksFacts
  <1>0. /\ pc' = "loop" /\ remain' = Quantum /\ cur_job' = nxt[c]
        /\ remain_time' = [remain_time EXCEPT ![c] = @ - remain]
        /\ cur_time' = cur_time + remain
        /\ UNCHANGED <<arrive, need, state, prio, left, x, pipe, writers, readers, elapsed, began, ended>>
        /\ UNCHANGED <<p_arr, next, finish, ts, nxt, last, nodes, kind, t, printed>>
    BY <1>c DEF AfterToNext, dispatchVars, input, child, fds, history
  <1>1. /\ t = remain /\ t < remain_time[c] /\ t \in Nat /\ cur_time \in Nat
        /\ remain_time \in [Job -> Nat] /\ remain_time[c] \in Nat
        /\ next < N => cur_time + t <= arrive[upcoming]
    BY <1>c, <1>p, BooksFacts DEF MainInv, SliceInv, PlanInv
  <1>2. /\ remain' \in 1 .. Quantum /\ cur_time' \in Nat /\ cur_time' = cur_time + t
        /\ remain_time' \in [Job -> Nat] /\ remain_time'[c] > 0
        /\ \A j \in Job : j # c => remain_time'[j] = remain_time[j]
    <2>1. remain_time[c] - t \in Nat /\ remain_time[c] - t > 0
      BY <1>1
    <2> QED  BY <1>0, <1>1, <2>1
  <1>r. IsRing(Ring)' /\ cur_job' \in nodes
    <2>1. PICK r : r = Ring /\ IsRing(r)
      BY DEF MainInv
    <2>2. PICK q : q = Append(Tail(r), Head(r))
      OBVIOUS
    <2>3. IsRing(q)' /\ cur_job' \in nodes
      BY <1>c, <1>0, <2>1, <2>2, RingRotate
    <2> QED  BY <2>3, NextRing
  <1>3. TypeOK'
    BY <1>0, <1>2, <1>r DEF MainInv, TypeOK, DispatchTypeOK, MainState
  <1>4. ListingInv' /\ IndexInv'
    BY <1>c, <1>p, <1>0 DEF MainInv, ListingInv, IndexInv
  <1>5. SliceInv' /\ PlanInv'
    BY <1>0, <1>1, <1>2 DEF SliceInv, PlanInv, Slicing, upcoming
  <1>6. NodesInv'
    <2>1. \A i \in Slot : next <= i => p_arr[i] # c /\ p_arr[i] \in Job
      BY <1>c, BooksFacts DEF MainInv, NodesInv
    <2>2. \A j \in nodes : j \in Job
      BY BooksFacts
    <2> QED  BY <1>0, <1>2, <2>1, <2>2 DEF MainInv, NodesInv
  <1> QED  BY <1>r, <1>3, <1>4, <1>5, <1>6 DEF MainInv

(* main is about to wait.                                                   *)
LEMMA StartWaitBooks == MainInv /\ StartWait => MainInv'
  <1> SUFFICES ASSUME MainInv, StartWait PROVE MainInv'
    OBVIOUS
  <1>0. /\ pc = "account" /\ kind = "to_die" /\ pc' = "wait"
        /\ UNCHANGED <<arrive, need, state, prio, left, x, pipe, writers, readers, elapsed, began, ended>>
        /\ UNCHANGED <<p_arr, next, finish, cur_time, remain, remain_time, ts>>
        /\ UNCHANGED <<cur_job, nxt, last, nodes, kind, t, printed, list>>
    BY DEF StartWait, At, dispatchVars, input, child, fds, history, list, record
  <1>1. finish < N
    BY <1>0 DEF MainInv, IndexInv
  <1>2. TypeOK'
    BY <1>0 DEF MainInv, TypeOK, DispatchTypeOK, MainState
  <1>3. SliceInv' /\ PlanInv'
    BY <1>0 DEF MainInv, SliceInv, PlanInv, Slicing, upcoming
  <1> QED  BY <1>0, <1>1, <1>2, <1>3, SameBooks

(* wait(): whichever child is buried, the current node is freed and its     *)
(* result printed.                                                          *)
LEMMA AfterToDieBooks == MainInv /\ AfterToDie => MainInv'
  <1> SUFFICES ASSUME MainInv, AfterToDie PROVE MainInv'
    OBVIOUS
  <1> USE NIsNat, QuantumAssumption
  <1>p. pc = "wait" /\ pc' = "loop" /\ Slicing /\ finish < N
    BY DEF AfterToDie, At, Slicing, MainInv, IndexInv
  <1>c. PICK c \in Job : c = cur_job /\ c \in nodes /\ c # NULL
    BY <1>p, BooksFacts
  <1>z. PICK z \in Job : state' = [state EXCEPT ![z] = "reaped"] /\ UNCHANGED <<prio, left, x, pipe>>
    BY DEF AfterToDie, Zombies, Reap
  <1>0. /\ ts' = [ts EXCEPT ![c][1] = elapsed]
        /\ printed' = Append(printed, c)
        /\ cur_time' = cur_time + remain_time[c]
        /\ remain' = Quantum /\ RemoveList /\ finish' = finish + 1
        /\ UNCHANGED <<arrive, need, writers, readers, elapsed, began, ended>>
        /\ UNCHANGED <<p_arr, remain_time, next, kind, t>>
    BY <1>c DEF AfterToDie, input, fds, history
  <1>1. /\ t = remain_time[c] /\ t \in Nat /\ cur_time \in Nat /\ finish \in 0 .. N
        /\ nodes \subseteq Job /\ next \in 0 .. N
        /\ finish + Cardinality(nodes) = next /\ Cardinality(nodes) \in Nat
        /\ nxt \in [Job -> Proc] /\ last \in [Job -> Proc]
        /\ next < N => cur_time + t <= arrive[upcoming]
    BY <1>c, <1>p, BooksFacts DEF MainInv, SliceInv, PlanInv
  <1>2. /\ state' \in [Job -> ChildState]
        /\ ts' \in [Job -> [0 .. 1 -> Nat \cup {Never}]]
        /\ printed' \in Seq(Job)
    <2>1. state' \in [Job -> ChildState]
      BY <1>z DEF MainInv, TypeOK, DispatchTypeOK, ChildState
    <2>2. ts \in [Job -> [0 .. 1 -> Nat \cup {Never}]] /\ elapsed \in Nat /\ printed \in Seq(Job)
      BY DEF MainInv, TypeOK, DispatchTypeOK
    <2>3. ts' = [ts EXCEPT ![c] = [@ EXCEPT ![1] = elapsed]]
      BY <1>0
    <2>4. [ts[c] EXCEPT ![1] = elapsed] \in [0 .. 1 -> Nat \cup {Never}]
      BY <2>2
    <2> QED  BY <1>0, <2>1, <2>2, <2>3, <2>4
  <1>3. /\ Cardinality(nodes)' = Cardinality(nodes) - 1 /\ IsRing(Ring)'
        /\ nxt' \in [Job -> Proc] /\ last' \in [Job -> Proc]
        /\ cur_job' \in nodes' \cup {NULL}
    <2>1. PICK r : r = Ring /\ IsRing(r)
      BY DEF MainInv
    <2>2. PICK q : q = Tail(r)
      OBVIOUS
    <2>3. /\ IsRing(q)' /\ Cardinality(nodes)' = Cardinality(nodes) - 1
          /\ nxt' \in [Job -> Proc] /\ last' \in [Job -> Proc]
          /\ cur_job' \in nodes' \cup {NULL}
      BY <1>c, <1>0, <1>1, <2>1, <2>2, RingRemove
    <2> QED  BY <2>3, NextRing
  <1>4. /\ nodes' = nodes \ {c} /\ finish' \in 0 .. N /\ remain' \in 1 .. Quantum
        /\ cur_time' \in Nat /\ cur_time' = cur_time + t
    BY <1>c, <1>p, <1>0, <1>1 DEF RemoveList
  <1>5. TypeOK'
    BY <1>p, <1>z, <1>0, <1>1, <1>2, <1>3, <1>4 DEF MainInv, TypeOK, DispatchTypeOK, MainState
  <1>6. ListingInv' /\ IndexInv'
    BY <1>p, <1>0, <1>1, <1>3 DEF MainInv, ListingInv, IndexInv
  <1>7. SliceInv' /\ PlanInv'
    BY <1>p, <1>0, <1>1, <1>4 DEF SliceInv, PlanInv, Slicing, upcoming
  <1>8. NodesInv'
    BY <1>0, <1>4 DEF MainInv, NodesInv
  <1> QED  BY <1>3, <1>5, <1>6, <1>7, <1>8 DEF MainInv

(* A child cannot touch main's books.                                       *)
LEMMA ChildBooks ==
  ASSUME MainInv, NEW j \in Job, ChildStep(j)
  PROVE  MainInv'
  <1>0. /\ UNCHANGED <<arrive, need, pc, p_arr, next, finish, cur_time, remain, remain_time>>
        /\ UNCHANGED <<ts, cur_job, nxt, last, nodes, kind, t, printed, list>>
    BY DEF ChildStep, mainVars, list, record, Exec, ExecFails, ChildProgram, Scanf, ScanfEof,
           BurnUnit, Finish, Yield, input
  <1>1. TypeOK'
    <2>1. DispatchTypeOK /\ TRUE \in BOOLEAN
      BY DEF MainInv, TypeOK
    <2>2. DispatchTypeOK'
      BY <2>1, ChildType DEF ChildStep
    <2> QED  BY <1>0, <2>2 DEF MainInv, TypeOK
  <1>2. ListingInv' /\ IndexInv' /\ NodesInv'
    BY <1>0 DEF MainInv, ListingInv, IndexInv, NodesInv
  <1>3. SliceInv' /\ PlanInv'
    BY <1>0 DEF MainInv, SliceInv, PlanInv, Slicing, upcoming
  <1>4. IsRing(Ring)'
    BY <1>0, SameRing DEF MainInv
  <1> QED  BY <1>1, <1>2, <1>3, <1>4 DEF MainInv

(* A stuttering step.                                                       *)
LEMMA StutterBooks == MainInv /\ UNCHANGED vars => MainInv'
  <1> SUFFICES ASSUME MainInv, UNCHANGED vars PROVE MainInv'
    OBVIOUS
  <1>0. /\ UNCHANGED <<arrive, need, state, prio, left, x, pipe, writers, readers, elapsed, began, ended>>
        /\ UNCHANGED <<pc, p_arr, next, finish, cur_time, remain, remain_time, ts>>
        /\ UNCHANGED <<cur_job, nxt, last, nodes, kind, t, printed, list>>
    BY DEF vars, dispatchVars, mainVars, input, child, fds, history, list, record
  <1>1. TypeOK'
    BY <1>0 DEF MainInv, TypeOK, DispatchTypeOK
  <1>2. ListingInv' /\ IndexInv' /\ NodesInv'
    BY <1>0 DEF MainInv, ListingInv, IndexInv, NodesInv
  <1>3. SliceInv' /\ PlanInv'
    BY <1>0 DEF MainInv, SliceInv, PlanInv, Slicing, upcoming
  <1>4. IsRing(Ring)'
    BY <1>0, SameRing DEF MainInv
  <1> QED  BY <1>1, <1>2, <1>3, <1>4 DEF MainInv

(* Every step of rr.c keeps its books, whatever fails.                      *)
LEMMA NextBooks == MainInv /\ [Next]_vars => MainInv'
  <1> SUFFICES ASSUME MainInv, [Next]_vars PROVE MainInv'
    OBVIOUS
  <1>1. CASE ForkFails \/ Return
    <2>1. /\ pc # "read" /\ pc' = "exited" /\ DropFds(Main)
          /\ UNCHANGED <<arrive, need, state, prio, left, x, pipe, elapsed, began, ended>>
          /\ UNCHANGED <<p_arr, next, finish, cur_time, remain, remain_time, list>>
          /\ UNCHANGED <<kind, t, printed, ts>>
      BY <1>1 DEF ForkFails, Return, At, Exit, input, child, history, record
    <2>2. ts' \in [Job -> [0 .. 1 -> Nat \cup {Never}]]
      BY <2>1 DEF MainInv, TypeOK
    <2> QED  BY <2>1, <2>2, LeaveBooks
  <1>2. CASE MainStep /\ ~(ForkFails \/ Return)
    BY <1>2, ReadInputBooks, LoopBooks, ForkChildBooks, StartIdleBooks, IdleBooks, ChooseBooks,
       RunJobWriteBooks, RunJobRaiseBooks, AfterToForkBooks, AfterToNextBooks, StartWaitBooks,
       AfterToDieBooks DEF MainStep
  <1> QED  BY <1>1, <1>2, ChildBooks, StutterBooks DEF Next, MainStep

(* main's list and its books, by which it never plans a slice past the end  *)
(* of the quantum, of the job or before an arrival, are kept by every run   *)
(* of rr.c, whichever fork() or execl() fails.                              *)
THEOREM RrBooksInvariance == Spec => []MainInv
  BY InitBooks, NextBooks, PTL DEF Spec

(* add_list(), remove_list() and the walk along `next' keep the circular    *)
(* doubly linked list one ring of all its nodes, whatever becomes of the    *)
(* children.                                                                *)
THEOREM RrRing == Spec => []RingIsSound
  <1>1. MainInv => RingIsSound
    BY RingSound DEF MainInv
  <1> QED  BY <1>1, RrBooksInvariance, PTL

-----------------------------------------------------------------------------
(* The children: FaultInv, whichever fork() or execl() fails.               *)

(* While main is there only the current job can have a slice.               *)
LEMMA OnlyCurrentHasSlice ==
  ASSUME FaultInv, pc # "exited", NEW j \in Job, Alive(j)
  PROVE  \/ Resting(j)
         \/ pc \in {"raise", "account"} /\ InFlight /\ j = cur_job /\ Given(j)
  <1> USE NIsNat
  <1>1. PICK i \in Slot : p_arr[i] = j
    BY BooksFacts DEF FaultInv
  <1>2. ~Gone(j) /\ ~Failed(j) /\ ~ToCome(j)
    BY DEF Alive, Gone, Failed, ToCome
  <1>3. PlacesInv /\ i < next
    <2>1. PlacesInv /\ ~(next <= i)
      BY <1>1, <1>2 DEF FaultInv, ChildrenInv, PlacesInv
    <2>2. next \in 0 .. N /\ i \in 0 .. N - 1
      BY BooksFacts DEF FaultInv, Slot
    <2> QED  BY <2>1, <2>2
  <1>4. CASE j \notin nodes
    <2>1. Passed(j)
      BY <1>1, <1>2, <1>3, <1>4 DEF PlacesInv
    <2> QED  BY <2>1 DEF Passed
  <1>5. CASE j \in nodes /\ ~(InFlight /\ j = cur_job)
    BY <1>2, <1>3, <1>5 DEF PlacesInv
  <1>6. CASE InFlight /\ j = cur_job
    <2>1. CurrentServed /\ pc \in {"raise", "account", "wait"}
      BY <1>3, <1>6 DEF PlacesInv, InFlight
    <2>2. state[j] # "zombie"
      BY DEF Alive
    <2> QED  BY <1>2, <1>6, <2>1, <2>2 DEF CurrentServed
  <1> QED  BY <1>4, <1>5, <1>6

(* The initial states.                                                      *)
LEMMA FaultInit == Init => FaultInv
  <1> SUFFICES ASSUME Init PROVE FaultInv
    OBVIOUS
  <1>1. MainInv
    BY InitBooks
  <1>2. LeadInv /\ EofInv
    BY DEF Init, DispatchInit, LeadInv, EofInv
  <1>3. \A j \in Job : JobServed(j)
    BY <1>1 DEF Init, DispatchInit, JobServed, MainInv, TypeOK, DispatchTypeOK
  <1>4. PlacesInv
    <2>1. \A j \in Job : ToCome(j)
      BY DEF Init, DispatchInit, ToCome, Quiet
    <2>2. \A i \in Slot : p_arr[i] \in Job
      BY <1>1, BooksFacts
    <2>3. next = 0 /\ nodes = {} /\ ~InFlight /\ \A i \in Slot : ~(i < 0)
      BY DEF Init, InFlight, Slot
    <2> QED  BY <2>1, <2>2, <2>3 DEF PlacesInv
  <1>5. EndInv
    <2>1. {j \in Job : state[j] = "reaped"} = {}
      BY DEF Init, DispatchInit
    <2>2. Cardinality({}) = 0
      BY FS_EmptySet
    <2>3. printed = << >> /\ finish = 0 /\ pc = "read" /\ Len(<< >>) = 0
      BY DEF Init
    <2> QED  BY <2>1, <2>2, <2>3 DEF EndInv
  <1> QED  BY <1>1, <1>2, <1>3, <1>4, <1>5 DEF FaultInv, ChildrenInv

(* The invariant says of the clocks and of every job that has been printed  *)
(* what is claimed.                                                         *)
LEMMA FaultImplies == FaultInv => NoMissedArrival /\ ServedAreTrue
  <1> SUFFICES ASSUME FaultInv PROVE NoMissedArrival /\ ServedAreTrue
    OBVIOUS
  <1>0. MainInv /\ LeadInv /\ EndInv /\ \A j \in Job : JobServed(j)
    BY DEF FaultInv, ChildrenInv
  <1>1. NoMissedArrival
    <2> SUFFICES ASSUME next < N
                 PROVE  /\ Deciding => cur_time <= arrive[upcoming]
                        /\ elapsed <= arrive[upcoming]
      BY DEF NoMissedArrival
    <2>1. /\ pc \in MainState /\ cur_time \in Nat /\ t \in Nat /\ elapsed \in Nat
          /\ arrive[upcoming] \in Nat
      BY <1>0, BooksFacts DEF MainInv, TypeOK
    <2>2. Deciding => cur_time <= arrive[upcoming]
      BY <1>0, <2>1 DEF MainInv, PlanInv, Deciding, Slicing
    <2> QED  BY <1>0, <2>1, <2>2 DEF MainInv, PlanInv, LeadInv, MainState, Slicing
  <1>2. ASSUME NEW i \in 1 .. Len(printed), NEW j \in Job, j = printed[i], began[j] # Never
        PROVE  left[j] = 0 /\ ts[j][0] = began[j] /\ ts[j][1] = ended[j]
    <2>1. JobServed(j) /\ left[j] \in Int /\ need[j] \in Nat
      BY <1>0 DEF MainInv, TypeOK, DispatchTypeOK
    <2>2. left[j] = 0 /\ ts[j][1] = ended[j] /\ left[j] < need[j]
      BY <1>0, <1>2, <2>1 DEF EndInv, JobServed
    <2> QED  BY <2>1, <2>2 DEF JobServed
  <1>3. Len(printed) = N => \A j \in Job : state[j] = "reaped"
    <2> DEFINE reaped == {j \in Job : state[j] = "reaped"}
    <2> SUFFICES ASSUME Len(printed) = N PROVE reaped = Job
      OBVIOUS
    <2>1. Cardinality(reaped) = Cardinality(Job) /\ reaped \in SUBSET Job
      BY <1>0 DEF EndInv, N
    <2> HIDE DEF reaped
    <2> QED  BY <2>1, JobAssumption, FS_Subset
  <1>4. \A i \in 1 .. Len(printed) : printed[i] \in Job
    BY <1>0 DEF MainInv, TypeOK
  <1> QED  BY <1>1, <1>2, <1>3, <1>4 DEF ServedAreTrue

(* While main is there no pipe it has made reports end-of-file.             *)
LEMMA EofStep == MainInv /\ EofInv /\ [Next]_vars => EofInv'
  <1> SUFFICES ASSUME MainInv, EofInv, [Next]_vars PROVE EofInv'
    OBVIOUS
  <1> USE NIsNat
  <1>1. CASE UNCHANGED vars
    BY <1>1 DEF EofInv, vars, dispatchVars, child, fds, mainVars, upcoming, record
  <1>2. CASE \E j \in Job : ChildStep(j)
    <2>1. PICK j \in Job : ChildStep(j)
      BY <1>2
    <2>2. pc' = pc /\ pc # "read" /\ j # Main /\ upcoming' = upcoming
      <3>1. /\ pc' = pc /\ upcoming' = upcoming
            /\ Exec(j, TRUE) \/ ExecFails(j) \/ ChildProgram(j)
        BY <2>1 DEF ChildStep, mainVars, record, upcoming
      <3>2. state[j] # "none"
        BY <3>1 DEF Exec, ExecFails, ChildProgram, Scanf, ScanfEof, BurnUnit, Finish, Yield
      <3> QED  BY <3>1, <3>2, JobAssumption DEF EofInv
    <2>3. \A k \in Job : Main \in writers[k] => Main \in writers'[k]
      BY <2>1, <2>2 DEF ChildStep, Exec, ExecFails, ChildProgram, Scanf, ScanfEof, BurnUnit, Finish,
         Yield, Dies, DropFds, fds
    <2>4. \A k \in Job : state'[k] = "none" <=> state[k] = "none"
      BY <2>1 DEF ChildStep, Exec, ExecFails, ChildProgram, Scanf, ScanfEof, BurnUnit, Finish,
         Yield, Dies, MainInv, TypeOK, DispatchTypeOK
    <2>5. pc = "fork" => upcoming \in Job
      BY BooksFacts DEF MainInv, IndexInv
    <2> QED  BY <2>2, <2>3, <2>4, <2>5 DEF EofInv
  <1>3. CASE ReadInput
    BY <1>3 DEF ReadInput, At, EofInv, dispatchVars, child, fds
  <1>4. CASE Loop
    <2>1. /\ pc = "loop" /\ state' = state /\ upcoming' = upcoming
          /\ \/ pc' = "fork" /\ Due /\ OpenPipes({upcoming})
             \/ pc' = "choose" /\ writers' = writers
      BY <1>4 DEF Loop, At, child, fds, record, upcoming
    <2>2. Due => upcoming \in Job
      BY BooksFacts DEF Due
    <2> QED  BY <2>1, <2>2 DEF OpenPipes, EofInv
  <1>5. CASE ForkChild
    <2>1. PICK u \in Job : u = upcoming /\ next < N
      BY <1>5, BooksFacts DEF ForkChild, At, MainInv, IndexInv
    <2>2. pc = "fork" /\ pc' = "choose" /\ Main \in writers[u] /\ Spawn(u, need[u], TRUE)
      BY <1>5, <2>1 DEF ForkChild, At, EofInv
    <2>3. \A k \in Job : Main \in writers[k] => Main \in writers'[k]
      BY <2>2 DEF Spawn
    <2>4. \A k \in Job : k # u => state'[k] = state[k]
      BY <2>2 DEF Spawn, MainInv, TypeOK, DispatchTypeOK
    <2> QED  BY <2>2, <2>3, <2>4 DEF EofInv
  <1>6. CASE AfterToDie
    <2>1. pc = "wait" /\ pc' = "loop" /\ writers' = writers
      BY <1>6 DEF AfterToDie, At, fds
    <2>2. \A k \in Job : state'[k] # "none" => state[k] # "none"
      BY <1>6 DEF AfterToDie, Reap, Zombies, MainInv, TypeOK, DispatchTypeOK
    <2> QED  BY <2>1, <2>2 DEF EofInv
  <1>7. CASE \/ ForkFails \/ StartIdle \/ Idle \/ Choose \/ RunJobWrite \/ RunJobRaise
             \/ AfterToFork \/ AfterToNext \/ StartWait \/ Return
    <2>1. /\ pc \notin {"read", "exited"} /\ pc' \notin {"read", "fork"} /\ state' = state
          /\ pc' # "exited" => writers' = writers
      BY <1>7 DEF ForkFails, StartIdle, Idle, Choose, RunJobWrite, RunJobRaise, AfterToFork,
         AfterToNext, StartWait, Return, At, Exit, Send, Raise, dispatchVars, child, fds
    <2> QED  BY <2>1 DEF EofInv
  <1> QED  BY <1>1, <1>2, <1>3, <1>4, <1>5, <1>6, <1>7 DEF Next, MainStep

(* What is known while main has a slice to dispose of.                      *)
LEMMA ServedFacts ==
  ASSUME FaultInv
  PROVE  /\ MainInv /\ LeadInv /\ PlacesInv /\ EndInv /\ EofInv /\ \A j \in Job : JobServed(j)
         /\ state \in [Job -> ChildState] /\ pipe \in [Job -> Seq(Nat)] /\ x \in [Job -> Nat]
         /\ left \in [Job -> Int] /\ need \in [Job -> Nat] /\ remain_time \in [Job -> Nat]
         /\ began \in [Job -> Nat \cup {Never}] /\ ended \in [Job -> Nat \cup {Never}]
         /\ prio \in [Job -> {YieldPrio, MainPrio, RunPrio}]
         /\ ts \in [Job -> [0 .. 1 -> Nat \cup {Never}]]
         /\ elapsed \in Nat /\ cur_time \in Nat /\ t \in Nat
  BY DEF FaultInv, ChildrenInv, MainInv, TypeOK, DispatchTypeOK

(* A step that touches no job but c, a node, leaves the others where they   *)
(* are.                                                                     *)
LEMMA PlacesKept ==
  ASSUME FaultInv, pc # "exited", NEW c \in nodes, InFlight => c = cur_job,
         UNCHANGED <<p_arr, next, nodes>>,
         \A j \in Job : j # c =>
            /\ state'[j] = state[j] /\ pipe'[j] = pipe[j] /\ x'[j] = x[j]
            /\ left'[j] = left[j] /\ remain_time'[j] = remain_time[j] /\ need'[j] = need[j]
            /\ began'[j] = began[j] /\ ended'[j] = ended[j] /\ ts'[j] = ts[j],
         InFlight' => c = cur_job' /\ CurrentServed',
         ~InFlight' => Resting(c)' \/ Failed(c)'
  PROVE  PlacesInv'
  <1> USE NIsNat
  <1>0. PlacesInv /\ \A i \in Slot : p_arr[i] \in Job
    BY ServedFacts, BooksFacts
  <1>1. \A j \in Job : j # c =>
          /\ Gone(j)' = Gone(j) /\ Failed(j)' = Failed(j) /\ Resting(j)' = Resting(j)
          /\ Passed(j)' = Passed(j) /\ ToCome(j)' = ToCome(j)
    BY DEF Gone, Failed, Resting, Passed, ToCome, Quiet
  <1>2. \A i \in Slot : next <= i => p_arr[i] # c
    BY BooksFacts DEF FaultInv, MainInv, NodesInv
  <1>3. ASSUME NEW i \in Slot, next' <= i, NEW j \in Job, j = p_arr'[i]
        PROVE  ToCome(j)'
    <2>1. ToCome(j) /\ j # c
      BY <1>0, <1>2, <1>3 DEF PlacesInv
    <2> QED  BY <1>1, <2>1
  <1>4. ASSUME NEW i \in Slot, i < next', NEW j \in Job, j = p_arr'[i], j \notin nodes'
        PROVE  /\ Gone(j)' \/ Failed(j)' \/ Passed(j)'
               /\ began'[j] # Never => ts'[j][1] = ended'[j]
    <2>1. j # c
      BY <1>4
    <2>2. /\ Gone(j) \/ Failed(j) \/ Passed(j)
          /\ began[j] # Never => ts[j][1] = ended[j]
      BY <1>0, <1>4 DEF PlacesInv
    <2> QED  BY <1>1, <2>1, <2>2
  <1>5. ASSUME NEW j \in nodes', InFlight' => j # cur_job'
        PROVE  Resting(j)' \/ Failed(j)'
    <2>1. CASE j = c
      BY <1>5, <2>1
    <2>2. CASE j # c
      <3>1. j \in Job /\ j \in nodes /\ (InFlight => j # cur_job)
        BY <1>5, <2>2, BooksFacts DEF FaultInv
      <3>2. Resting(j) \/ Failed(j)
        BY <1>0, <3>1 DEF PlacesInv
      <3> QED  BY <1>1, <2>2, <3>1, <3>2
    <2> QED  BY <2>1, <2>2
  <1>6. \A i \in Slot : p_arr'[i] \in Job
    BY <1>0
  <1> QED  BY <1>3, <1>4, <1>5, <1>6 DEF PlacesInv

(* A step of main between two slices leaves all the jobs where they are.    *)
LEMMA PlacesSame ==
  ASSUME FaultInv, pc # "exited", ~InFlight, ~InFlight',
         UNCHANGED <<p_arr, next, nodes>>,
         UNCHANGED <<state, pipe, x, left, remain_time, need, began, ended, ts>>
  PROVE  PlacesInv'
  BY ServedFacts DEF PlacesInv, Gone, Failed, Resting, Passed, ToCome, Quiet

(* A step that buries nobody and does not touch a job that has been printed *)
(* keeps what is known of these.                                            *)
LEMMA EndKept ==
  ASSUME FaultInv, UNCHANGED <<finish, printed>>,
         \A j \in Job : state'[j] = "reaped" <=> state[j] = "reaped",
         pc' = "exited" => \A j \in Job : Alive(j)' => pipe'[j] = << >> /\ state'[j] # "run",
         \A j \in Job : j \notin nodes /\ state[j] # "none" =>
            /\ j \notin nodes' /\ state'[j] # "none" /\ began'[j] = began[j]
            /\ ~Alive(j) => /\ ~Alive(j)' /\ left'[j] = left[j]
                            /\ ts'[j] = ts[j] /\ ended'[j] = ended[j]
  PROVE  EndInv'
  <1>1. {j \in Job : state'[j] = "reaped"} = {j \in Job : state[j] = "reaped"}
    OBVIOUS
  <1>2. EndInv /\ \A i \in 1 .. Len(printed) : printed[i] \in Job
    BY ServedFacts DEF MainInv, TypeOK
  <1>3. ASSUME NEW i \in 1 .. Len(printed), NEW j \in Job, j = printed[i]
        PROVE  /\ j \notin nodes' /\ state'[j] # "none"
               /\ began'[j] # Never =>
                    ~Alive(j)' /\ left'[j] = 0 /\ ts'[j][1] = ended'[j]
    <2>1. /\ j \notin nodes /\ state[j] # "none"
          /\ began[j] # Never => ~Alive(j) /\ left[j] = 0 /\ ts[j][1] = ended[j]
      BY <1>2, <1>3 DEF EndInv
    <2> QED  BY <2>1
  <1> QED  BY <1>1, <1>2, <1>3 DEF EndInv

(* main goes, by whichever of its exits, while no child has a slice.        *)
LEMMA FaultExit ==
  ASSUME FaultInv, pc \notin {"read", "exited"}, pc' = "exited",
         UNCHANGED <<arrive, need, state, left, x, pipe, elapsed, began, ended>>,
         UNCHANGED <<p_arr, next, nodes, finish, remain_time, printed>>,
         \A j \in Job : ts'[j] = ts[j] \/ (j \in nodes /\ left[j] = need[j]),
         \A j \in Job : Alive(j) => Resting(j)
  PROVE  ChildrenInv'
  <1>1. LeadInv'
    BY FaultImplies DEF NoMissedArrival, LeadInv, upcoming
  <1>2. ASSUME NEW j \in Job PROVE JobServed(j)'
    <2>1. JobServed(j) /\ left[j] \in Int /\ need[j] \in Nat
      BY ServedFacts
    <2>2. left[j] < need[j] => ts'[j] = ts[j]
      BY <2>1
    <2> QED  BY <2>1, <2>2 DEF JobServed
  <1>3. PlacesInv'
    BY DEF PlacesInv
  <1>4. EndInv'
    BY EndKept DEF Alive, Resting, Quiet
  <1> QED  BY <1>1, <1>2, <1>3, <1>4 DEF ChildrenInv

(* The input is read: no child is there yet.                                *)
LEMMA ReadInputFault ==
  ASSUME FaultInv, MainInv', ReadInput
  PROVE  ChildrenInv'
  <1> USE NIsNat
  <1>0. /\ pc = "read" /\ pc' = "loop" /\ next = 0 /\ cur_time = 0 /\ nodes = {}
        /\ elapsed = 0 /\ \A j \in Job : state[j] = "none"
        /\ UNCHANGED <<arrive, need, state, prio, left, x, pipe, elapsed, began, ended>>
        /\ UNCHANGED <<next, finish, cur_time, remain_time, ts, nodes, printed>>
    <2>1. pc = "read" /\ next = 0 /\ cur_time = 0
      BY DEF ReadInput, At, FaultInv, MainInv, IndexInv, PlanInv
    <2>2. nodes = {} /\ elapsed = 0 /\ \A j \in Job : state[j] = "none"
      BY <2>1, ServedFacts, BooksFacts DEF LeadInv, EofInv
    <2> QED  BY <2>1, <2>2 DEF ReadInput, dispatchVars, input, child, history, list
  <1>1. LeadInv' /\ \A j \in Job : JobServed(j)'
    BY <1>0, ServedFacts DEF LeadInv, JobServed
  <1>2. ASSUME NEW j \in Job PROVE ToCome(j)'
    <2>1. PICK i \in Slot : p_arr[i] = j
      BY ServedFacts, BooksFacts
    <2>2. next <= i
      BY <1>0, <2>1 DEF Slot
    <2>3. ToCome(j)
      BY <1>0, <2>1, <2>2, ServedFacts DEF PlacesInv
    <2> QED  BY <1>0, <2>3 DEF ToCome, Quiet
  <1>3. PlacesInv'
    <2>1. \A i \in Slot : p_arr'[i] \in Job /\ ~(i < next')
      BY <1>0 DEF MainInv, TypeOK, Slot
    <2> QED  BY <1>0, <1>2, <2>1 DEF PlacesInv, InFlight
  <1>4. EndInv'
    BY <1>0, EndKept
  <1> QED  BY <1>1, <1>3, <1>4 DEF ChildrenInv

(* The steps between two slices: main looks at its list and at the clock.   *)
LEMMA PlanningFault ==
  ASSUME FaultInv, MainInv', Loop \/ StartIdle \/ Idle \/ Choose
  PROVE  ChildrenInv'
  <1>0. /\ ~InFlight /\ ~InFlight' /\ pc # "exited" /\ pc' # "exited"
        /\ UNCHANGED <<arrive, need, state, left, x, pipe, began, ended>>
        /\ UNCHANGED <<p_arr, next, finish, remain_time, ts, nodes, printed>>
    BY DEF Loop, StartIdle, Idle, Choose, At, InFlight, dispatchVars, input, child, history, list,
           record
  <1>1. LeadInv'
    <2>0. LeadInv /\ cur_time \in Nat /\ t \in Nat /\ elapsed \in Nat
      BY ServedFacts
    <2>1. CASE Loop
      BY <2>0, <2>1 DEF Loop, At, LeadInv
    <2>2. CASE StartIdle
      BY <2>0, <2>2 DEF StartIdle, At, LeadInv, dispatchVars
    <2>3. CASE Idle
      <3>1. pc = "idle" /\ next < N /\ arrive[upcoming] \in Nat /\ cur_time + t <= arrive[upcoming]
        BY <2>3, BooksFacts DEF Idle, At, FaultInv, MainInv, IndexInv, PlanInv
      <3>2. elapsed <= cur_time + t
        BY <2>0, <3>1 DEF LeadInv
      <3>3. CASE t < arrive[upcoming] - cur_time
        <4>1. pc' = pc /\ t' = t + 1 /\ elapsed' = elapsed + 1 /\ cur_time' = cur_time
          BY <2>3, <3>3 DEF Idle
        <4>2. elapsed + 1 <= cur_time + (t + 1)
          BY <2>0, <3>2
        <4> QED  BY <3>1, <4>1, <4>2 DEF LeadInv
      <3>4. CASE ~(t < arrive[upcoming] - cur_time)
        <4>1. pc' = "loop" /\ elapsed' = elapsed /\ cur_time' = arrive[upcoming]
          BY <2>3, <3>4 DEF Idle
        <4>2. elapsed <= arrive[upcoming]
          BY <2>0, <3>1, <3>2
        <4> QED  BY <4>1, <4>2 DEF LeadInv
      <3> QED  BY <3>3, <3>4
    <2>4. CASE Choose
      <3>1. /\ pc = "choose" /\ pc' \in {"write", "account"}
            /\ elapsed' = elapsed /\ cur_time' = cur_time
        BY <2>4 DEF Choose, At, dispatchVars
      <3>2. elapsed <= cur_time /\ t' \in Nat
        BY <2>0, <3>1 DEF LeadInv, MainInv, TypeOK
      <3>3. \A a \in Nat : elapsed <= cur_time + a
        BY <2>0, <3>2
      <3> QED  BY <3>1, <3>2, <3>3 DEF LeadInv
    <2> QED  BY <2>1, <2>2, <2>3, <2>4
  <1>2. \A j \in Job : JobServed(j)'
    BY <1>0, ServedFacts DEF JobServed
  <1>3. PlacesInv'
    BY <1>0, PlacesSame
  <1>4. EndInv'
    BY <1>0, EndKept DEF Alive
  <1> QED  BY <1>1, <1>2, <1>3, <1>4 DEF ChildrenInv

(* fork() of the job that is due.                                           *)
LEMMA ForkChildFault ==
  ASSUME FaultInv, MainInv', ForkChild
  PROVE  ChildrenInv'
  <1> USE NIsNat
  <1>u. PICK u \in Job : u = upcoming /\ next < N
    BY ServedFacts, BooksFacts DEF ForkChild, At, MainInv, IndexInv
  <1>0. /\ pc = "fork" /\ pc' = "choose" /\ ~InFlight /\ ~InFlight'
        /\ Spawn(u, need[u], TRUE) /\ next' = next + 1 /\ nodes' = nodes \cup {u}
        /\ UNCHANGED <<arrive, need, elapsed, began, ended, x, pipe>>
        /\ UNCHANGED <<p_arr, finish, cur_time, remain_time, ts, t, printed>>
        /\ UNCHANGED <<input, history>>
    BY <1>u DEF ForkChild, AddList, Spawn, At, InFlight, input, history, record
  <1>1. /\ next \in Slot /\ next \in Nat /\ u = p_arr[next] /\ u \notin nodes /\ ToCome(u)
        /\ \A i \in Slot : p_arr[i] \in Job /\ (p_arr[i] = u => i = next)
    <2>1. /\ next \in Slot /\ u = p_arr[next] /\ u \notin nodes
          /\ \A i \in Slot : p_arr[i] \in Job /\ (p_arr[i] = u => i = next)
      BY <1>u, ServedFacts, BooksFacts
    <2>2. next <= next /\ next \in Nat
      BY <2>1 DEF Slot
    <2> QED  BY <1>0, <2>1, <2>2, ServedFacts DEF PlacesInv
  <1>2. /\ state'[u] = "forked" /\ left'[u] = need[u]
        /\ \A k \in Job : k # u => state'[k] = state[k] /\ left'[k] = left[k]
    <2>1. DispatchTypeOK /\ need[u] \in Int /\ TRUE \in BOOLEAN
      BY ServedFacts DEF MainInv, TypeOK
    <2> QED  BY <1>0, <2>1, SpawnFacts
  <1>3. \A k \in Job : left'[k] = left[k]
    BY <1>1, <1>2 DEF ToCome
  <1>4. LeadInv'
    BY <1>0, ServedFacts DEF LeadInv
  <1>5. \A j \in Job : JobServed(j)'
    BY <1>0, <1>1, <1>2, <1>3, ServedFacts DEF JobServed, ToCome
  <1>6. PlacesInv'
    <2>0. PlacesInv
      BY ServedFacts
    <2>1. \A j \in Job : j # u =>
            /\ Gone(j)' = Gone(j) /\ Failed(j)' = Failed(j) /\ Resting(j)' = Resting(j)
            /\ Passed(j)' = Passed(j) /\ ToCome(j)' = ToCome(j)
      BY <1>0, <1>2, <1>3 DEF Gone, Failed, Resting, Passed, ToCome, Quiet
    <2>2. Resting(u)'
      BY <1>0, <1>1, <1>2 DEF Resting, ToCome, Quiet
    <2>3. ASSUME NEW i \in Slot, next' <= i, NEW j \in Job, j = p_arr'[i]
          PROVE  ToCome(j)'
      <3>1. next <= i /\ i # next
        BY <1>0, <1>1, <2>3 DEF Slot
      <3>2. ToCome(j) /\ j # u
        BY <1>0, <1>1, <2>0, <2>3, <3>1 DEF PlacesInv
      <3> QED  BY <2>1, <3>2
    <2>4. ASSUME NEW i \in Slot, i < next', NEW j \in Job, j = p_arr'[i], j \notin nodes'
          PROVE  /\ Gone(j)' \/ Failed(j)' \/ Passed(j)'
                 /\ began'[j] # Never => ts'[j][1] = ended'[j]
      <3>1. j # u /\ j \notin nodes /\ i # next
        BY <1>0, <1>1, <2>4
      <3>2. i < next
        BY <1>0, <1>1, <2>4, <3>1 DEF Slot
      <3>3. /\ Gone(j) \/ Failed(j) \/ Passed(j)
            /\ began[j] # Never => ts[j][1] = ended[j]
        BY <1>0, <2>0, <2>4, <3>1, <3>2 DEF PlacesInv
      <3> QED  BY <1>0, <2>1, <3>1, <3>3
    <2>5. ASSUME NEW j \in nodes' PROVE Resting(j)' \/ Failed(j)'
      <3>1. CASE j = u
        BY <2>2, <3>1
      <3>2. CASE j # u
        <4>1. j \in nodes /\ j \in Job
          BY <1>0, <2>5, <3>2, ServedFacts, BooksFacts
        <4> QED  BY <1>0, <2>0, <2>1, <3>2, <4>1 DEF PlacesInv
      <3> QED  BY <3>1, <3>2
    <2>6. \A i \in Slot : p_arr'[i] \in Job
      BY <1>0, <1>1
    <2> QED  BY <1>0, <2>3, <2>4, <2>5, <2>6 DEF PlacesInv
  <1>7. EndInv'
    <2>1. \A j \in Job : state'[j] = "reaped" <=> state[j] = "reaped"
      BY <1>1, <1>2 DEF ToCome
    <2>2. \A j \in Job : state[j] # "none" => j # u
      BY <1>1 DEF ToCome
    <2> QED  BY <1>0, <1>2, <2>1, <2>2, EndKept DEF Alive
  <1> QED  BY <1>4, <1>5, <1>6, <1>7 DEF ChildrenInv

(* main gives up because fork() failed, or has printed all the results.     *)
LEMMA LeaveFault ==
  ASSUME FaultInv, MainInv', ForkFails \/ Return
  PROVE  ChildrenInv'
  <1>0. /\ pc \in {"fork", "loop"} /\ pc' = "exited"
        /\ UNCHANGED <<arrive, need, state, left, x, pipe, elapsed, began, ended>>
        /\ UNCHANGED <<p_arr, next, nodes, finish, remain_time, printed, ts>>
    BY DEF ForkFails, Return, Exit, At, input, child, history, list, record
  <1>1. \A j \in Job : Alive(j) => Resting(j)
    BY <1>0, OnlyCurrentHasSlice
  <1> QED  BY <1>0, <1>1, FaultExit

(* run_job(): a slice is written, or there is nobody left to read it.       *)
LEMMA RunJobWriteFault ==
  ASSUME FaultInv, MainInv', RunJobWrite
  PROVE  ChildrenInv'
  <1>p. pc = "write" /\ Slicing /\ ~InFlight
    BY DEF RunJobWrite, At, Slicing, InFlight
  <1>c. PICK c \in Job : c = cur_job /\ c \in nodes
    BY <1>p, ServedFacts, BooksFacts
  <1>0. /\ UNCHANGED <<arrive, need, state, prio, left, x, elapsed, began, ended>>
        /\ UNCHANGED <<p_arr, next, finish, cur_time, remain, remain_time>>
        /\ UNCHANGED <<kind, t, printed>> /\ UNCHANGED <<cur_job, nxt, last, nodes>>
        /\ \A j \in Job : j # c \/ remain_time[c] # need[c] => ts'[j] = ts[j]
        /\ remain_time[c] = need[c] => ts'[c][0] = elapsed
    BY <1>c, ServedFacts, StampFacts DEF RunJobWrite, Send, input, child, history, list, MainInv
  <1>1. /\ Resting(c) \/ Failed(c)
        /\ LeadInv /\ t > 0 /\ elapsed <= cur_time /\ t \in Nat
    BY <1>p, <1>c, ServedFacts DEF PlacesInv, LeadInv, MainInv, SliceInv
  <1>2. remain_time[c] = need[c] => left[c] = need[c]
    BY <1>1 DEF Resting, Failed
  <1>3. CASE pc' # "raise"
    <2>1. pc' = "exited" /\ pipe' = pipe
      BY <1>3 DEF RunJobWrite, Exit, child
    <2>2. \A j \in Job : ts'[j] = ts[j] \/ (j \in nodes /\ left[j] = need[j])
      BY <1>c, <1>0, <1>2
    <2>3. \A j \in Job : Alive(j) => Resting(j)
      BY <1>p, OnlyCurrentHasSlice
    <2> QED  BY <1>p, <1>0, <2>1, <2>2, <2>3, FaultExit
  <1>4. CASE pc' = "raise"
    <2>1. /\ \A j \in Job : j # c => pipe'[j] = pipe[j]
          /\ pipe'[c] = Append(pipe[c], t)
      BY <1>c, <1>4, ServedFacts DEF RunJobWrite, Exit, Send
    <2>2. LeadInv'
      BY <1>0, <1>1, <1>4, ServedFacts DEF LeadInv
    <2>3. ASSUME NEW j \in Job PROVE JobServed(j)'
      <3>1. JobServed(j) /\ left[j] \in Int /\ need[j] \in Nat
        BY ServedFacts
      <3>2. left[j] < need[j] => ts'[j] = ts[j]
        BY <1>0, <1>2, <3>1
      <3> QED  BY <1>0, <3>1, <3>2 DEF JobServed
    <2>4. CurrentServed'
      <3>1. Failed(c)' = Failed(c)
        BY <1>0 DEF Failed
      <3>2. Resting(c) => Given(c)'
        <4>1. Resting(c) => pipe'[c] = <<t>>
          BY <1>1, <2>1, OneMessage DEF Resting, Quiet
        <4> QED  BY <1>0, <1>1, <4>1 DEF Resting, Quiet, Given
      <3>3. ~Failed(c) /\ left[c] = need[c] => ts'[c][0] = elapsed
        BY <1>0, <1>1 DEF Resting
      <3>4. state[c] = "zombie" => began[c] = Never
        BY <1>1 DEF Resting, Failed
      <3> QED  BY <1>c, <1>0, <1>1, <1>4, <3>1, <3>2, <3>3, <3>4 DEF CurrentServed
    <2>5. PlacesInv'
      <3>1. InFlight'
        BY <1>0, <1>1, <1>4 DEF InFlight
      <3> QED  BY <1>p, <1>c, <1>0, <2>1, <2>4, <3>1, PlacesKept
    <2>6. EndInv'
      BY <1>c, <1>0, <1>4, EndKept DEF Alive
    <2> QED  BY <2>2, <2>3, <2>5, <2>6 DEF ChildrenInv
  <1> QED  BY <1>3, <1>4

(* run_job(): the child is raised above main, unless it is gone already.    *)
LEMMA RunJobRaiseFault ==
  ASSUME FaultInv, MainInv', RunJobRaise
  PROVE  ChildrenInv'
  <1>p. pc = "raise" /\ Slicing /\ InFlight /\ t > 0
    BY ServedFacts DEF RunJobRaise, At, Slicing, InFlight, MainInv, SliceInv
  <1>c. PICK c \in Job : c = cur_job /\ c \in nodes
    BY <1>p, ServedFacts, BooksFacts
  <1>0. /\ UNCHANGED <<arrive, need, state, left, x, pipe, elapsed, began, ended>>
        /\ UNCHANGED <<p_arr, next, finish, cur_time, remain, remain_time, ts>>
        /\ UNCHANGED <<kind, t, printed>> /\ UNCHANGED <<cur_job, nxt, last, nodes>>
    BY DEF RunJobRaise, Raise, input, child, history, list, record
  <1>1. CASE pc' # "account"
    <2>1. pc' = "exited" /\ state[c] = "reaped"
      BY <1>c, <1>1 DEF RunJobRaise, Exit
    <2>2. \A j \in Job : Alive(j) => Resting(j)
      BY <1>p, <1>c, <2>1, OnlyCurrentHasSlice DEF Alive
    <2> QED  BY <1>p, <1>0, <2>1, <2>2, FaultExit
  <1>2. CASE pc' = "account"
    <2>1. prio'[c] = RunPrio
      BY <1>c, <1>2, ServedFacts DEF RunJobRaise, Exit, Raise
    <2>2. LeadInv' /\ \A j \in Job : JobServed(j)'
      BY <1>p, <1>0, <1>2, ServedFacts DEF LeadInv, JobServed
    <2>3. CurrentServed'
      <3>1. Failed(c)' = Failed(c) /\ Given(c)' = Given(c) /\ CurrentServed
        BY <1>p, <1>0, ServedFacts DEF Failed, Given, PlacesInv
      <3> QED  BY <1>p, <1>c, <1>0, <1>2, <2>1, <3>1 DEF CurrentServed
    <2>4. PlacesInv'
      <3>1. InFlight'
        BY <1>p, <1>0, <1>2 DEF InFlight
      <3> QED  BY <1>p, <1>c, <1>0, <2>3, <3>1, PlacesKept
    <2>5. EndInv'
      BY <1>0, <1>2, EndKept DEF Alive
    <2> QED  BY <2>2, <2>4, <2>5 DEF ChildrenInv
  <1> QED  BY <1>1, <1>2

(* When main has the CPU again after run_job(), a child that could be       *)
(* started has burnt its slice.                                             *)
LEMMA GivenIsBurnt ==
  ASSUME FaultInv, pc = "account", InFlight, MainMayRun, ~Failed(cur_job)
  PROVE  /\ state[cur_job] \in {"scan", "zombie"} /\ Quiet(cur_job)
         /\ left[cur_job] = remain_time[cur_job] - t
         /\ state[cur_job] = "scan" => left[cur_job] > 0
         /\ state[cur_job] = "zombie" => left[cur_job] = 0
  <1>c. PICK c \in Job : c = cur_job
    BY ServedFacts, BooksFacts DEF Slicing
  <1>1. CurrentServed
    BY ServedFacts DEF PlacesInv
  <1>2. Given(c) /\ ((state[c] = "run" \/ (Alive(c) /\ pipe[c] # << >>)) => prio[c] = RunPrio)
    BY <1>c, <1>1 DEF CurrentServed
  <1>3. ~Runnable(c) \/ prio[c] # RunPrio
    BY <1>c DEF MainMayRun, RunPrio, MainPrio
  <1>4. state[c] # "run" /\ ~(state[c] \in {"forked", "scan"} /\ pipe[c] # << >>)
    BY <1>2, <1>3 DEF Runnable, Alive
  <1>5. <<t>> # << >>
    BY ServedFacts, OneMessage
  <1>6. /\ state[c] \in {"run", "scan", "zombie"} /\ pipe[c] = << >>
        /\ left[c] = remain_time[c] - t + x[c]
        /\ state[c] = "scan" => x[c] = 0 /\ left[c] > 0
        /\ state[c] = "zombie" => x[c] = 0 /\ left[c] = 0
    BY <1>2, <1>4, <1>5 DEF Given
  <1> QED  BY <1>c, <1>4, <1>6, ServedFacts DEF Quiet

(* The end of a slice that does not end the job: whether it was burnt or    *)
(* not, main books it.                                                      *)
LEMMA BookedFault ==
  ASSUME FaultInv, MainInv', pc = "account", MainMayRun, pc' = "loop",
         NEW c \in nodes, c = cur_job, t < remain_time[c],
         remain_time' = [remain_time EXCEPT ![c] = @ - t], cur_time' = cur_time + t,
         UNCHANGED <<arrive, need, state, left, x, pipe, elapsed, began, ended>>,
         UNCHANGED <<p_arr, next, finish, ts, nodes, printed>>
  PROVE  ChildrenInv'
  <1>0. c \in Job /\ Slicing /\ LeadInv /\ elapsed <= cur_time + t
    BY ServedFacts, BooksFacts DEF Slicing, LeadInv
  <1>1. /\ remain_time'[c] = remain_time[c] - t
        /\ \A j \in Job : j # c => remain_time'[j] = remain_time[j]
    BY <1>0, ServedFacts
  <1>2. LeadInv'
    BY <1>0 DEF LeadInv
  <1>3. ASSUME NEW j \in Job PROVE JobServed(j)'
    <2>1. JobServed(j) /\ remain_time[j] \in Nat /\ need[j] \in Nat /\ t \in Nat
      BY ServedFacts
    <2>2. remain_time'[j] <= need[j]
      BY <1>1, <2>1 DEF JobServed
    <2> QED  BY <2>1, <2>2 DEF JobServed
  <1>4. Resting(c)' \/ Failed(c)'
    <2>1. CASE Failed(c)
      BY <2>1 DEF Failed
    <2>2. CASE ~Failed(c) /\ InFlight
      <3>1. /\ state[c] \in {"scan", "zombie"} /\ Quiet(c) /\ left[c] = remain_time[c] - t
            /\ state[c] = "zombie" => left[c] = 0
        BY <2>2, GivenIsBurnt
      <3>2. state[c] = "scan"
        BY <1>0, <3>1, ServedFacts
      <3> QED  BY <1>1, <3>1, <3>2 DEF Resting, Quiet
    <2>3. CASE ~Failed(c) /\ ~InFlight
      <3>1. Resting(c)
        BY <2>3, ServedFacts DEF PlacesInv
      <3>2. t = 0
        BY <2>3, ServedFacts DEF InFlight
      <3>3. remain_time'[c] = remain_time[c]
        BY <1>0, <1>1, <3>2, ServedFacts
      <3> QED  BY <3>1, <3>3 DEF Resting, Quiet
    <2> QED  BY <2>1, <2>2, <2>3
  <1>5. PlacesInv'
    <2>1. ~InFlight'
      BY DEF InFlight
    <2> QED  BY <1>0, <1>1, <1>4, <2>1, PlacesKept
  <1>6. EndInv'
    BY EndKept DEF Alive
  <1> QED  BY <1>2, <1>3, <1>5, <1>6 DEF ChildrenInv

(* The slice up to the next arrival, and the quantum.                       *)
LEMMA AccountFault ==
  ASSUME FaultInv, MainInv', AfterToFork \/ AfterToNext
  PROVE  ChildrenInv'
  <1>p. pc = "account" /\ Slicing /\ MainMayRun /\ pc' = "loop"
    BY DEF AfterToFork, AfterToNext, At, Slicing
  <1>c. PICK c \in Job : c = cur_job /\ c \in nodes
    BY <1>p, ServedFacts, BooksFacts
  <1>0. /\ UNCHANGED <<arrive, need, state, left, x, pipe, elapsed, began, ended>>
        /\ UNCHANGED <<p_arr, next, finish, ts, nodes, printed>>
    BY DEF AfterToFork, AfterToNext, dispatchVars, input, child, history, list
  <1>1. /\ t < remain_time[c] /\ cur_time' = cur_time + t
        /\ remain_time' = [remain_time EXCEPT ![c] = @ - t]
    <2>1. SliceInv
      BY ServedFacts DEF MainInv
    <2>2. CASE AfterToFork
      BY <1>p, <1>c, <2>1, <2>2 DEF AfterToFork, SliceInv
    <2>3. CASE AfterToNext
      BY <1>p, <1>c, <2>1, <2>3 DEF AfterToNext, SliceInv
    <2> QED  BY <2>2, <2>3
  <1> QED  BY <1>p, <1>c, <1>0, <1>1, BookedFault

(* main is about to wait: the child has exited.                             *)
LEMMA StartWaitFault ==
  ASSUME FaultInv, MainInv', StartWait
  PROVE  ChildrenInv'
  <1>p. pc = "account" /\ pc' = "wait" /\ kind = "to_die" /\ Slicing /\ MainMayRun
    BY DEF StartWait, At, Slicing
  <1>c. PICK c \in Job : c = cur_job /\ c \in nodes
    BY <1>p, ServedFacts, BooksFacts
  <1>0. /\ UNCHANGED <<arrive, need, state, prio, left, x, pipe, elapsed, began, ended>>
        /\ UNCHANGED <<p_arr, next, finish, cur_time, remain_time, ts>>
        /\ UNCHANGED <<cur_job, nodes, kind, t, printed>>
    BY DEF StartWait, dispatchVars, input, child, history, list, record
  <1>1. InFlight' = InFlight
    BY <1>p, <1>0 DEF InFlight
  <1>2. LeadInv' /\ \A j \in Job : JobServed(j)'
    BY <1>p, <1>0, ServedFacts DEF LeadInv, JobServed
  <1>3. PlacesInv'
    <2>1. CASE ~InFlight
      BY <1>p, <1>0, <1>1, <2>1, PlacesSame
    <2>2. CASE InFlight
      <3>0. CurrentServed
        BY <1>p, <2>2, ServedFacts DEF PlacesInv
      <3>1. ~Failed(c) => Gone(c) /\ state[c] = "zombie"
        <4> SUFFICES ASSUME ~Failed(c) PROVE Gone(c) /\ state[c] = "zombie"
          OBVIOUS
        <4>1. /\ state[c] \in {"scan", "zombie"} /\ Quiet(c)
              /\ left[c] = remain_time[c] - t
              /\ state[c] = "scan" => left[c] > 0
          BY <1>p, <1>c, <2>2, GivenIsBurnt
        <4>2. t = remain_time[c] /\ remain_time[c] \in Nat
          BY <1>p, <1>c, ServedFacts DEF MainInv, SliceInv
        <4> QED  BY <4>1, <4>2 DEF Gone
      <3>2. Failed(c)' = Failed(c) /\ Gone(c)' = Gone(c)
        BY <1>0 DEF Failed, Gone, Quiet
      <3>3. CurrentServed'
        BY <1>p, <1>c, <1>0, <3>0, <3>1, <3>2 DEF CurrentServed
      <3> QED  BY <1>p, <1>c, <1>0, <1>1, <2>2, <3>3, PlacesKept
    <2> QED  BY <2>1, <2>2
  <1>4. EndInv'
    BY <1>p, <1>0, EndKept DEF Alive
  <1> QED  BY <1>2, <1>3, <1>4 DEF ChildrenInv

(* wait(): it buries one child, perhaps one that could not be started       *)
(* instead of the current one, whose result is printed all the same.        *)
LEMMA AfterToDieFault ==
  ASSUME FaultInv, MainInv', AfterToDie
  PROVE  ChildrenInv'
  <1> USE NIsNat
  <1>p. pc = "wait" /\ pc' = "loop" /\ Slicing /\ kind = "to_die"
    BY ServedFacts DEF AfterToDie, At, Slicing, MainInv, SliceInv
  <1>c. PICK c \in Job : c = cur_job /\ c \in nodes
    BY <1>p, ServedFacts, BooksFacts
  <1>z. PICK z \in Job : /\ state[z] = "zombie" /\ state' = [state EXCEPT ![z] = "reaped"]
                         /\ UNCHANGED <<prio, left, x, pipe>>
    BY DEF AfterToDie, Zombies, Reap
  <1>0. /\ ts' = [ts EXCEPT ![c][1] = elapsed]
        /\ printed' = Append(printed, c)
        /\ cur_time' = cur_time + remain_time[c]
        /\ nodes' = nodes \ {c} /\ finish' = finish + 1
        /\ UNCHANGED <<arrive, need, elapsed, began, ended>>
        /\ UNCHANGED <<p_arr, remain_time, next, t>>
    BY <1>c DEF AfterToDie, RemoveList, input, history
  <1>1. /\ state'[z] = "reaped" /\ \A j \in Job : j # z => state'[j] = state[j]
        /\ \A j \in Job : state'[j] # state[j] => j = z
    BY <1>z, ServedFacts
  <1>2. /\ ts'[c][0] = ts[c][0] /\ ts'[c][1] = elapsed
        /\ \A j \in Job : j # c => ts'[j] = ts[j]
    <2>1. ts \in [Job -> [0 .. 1 -> Nat \cup {Never}]]
      BY ServedFacts
    <2>2. ts' = [ts EXCEPT ![c] = [@ EXCEPT ![1] = elapsed]]
      BY <1>0
    <2>3. ts'[c] = [ts[c] EXCEPT ![1] = elapsed]
      BY <2>1, <2>2
    <2>4. /\ [ts[c] EXCEPT ![1] = elapsed][0] = ts[c][0]
          /\ [ts[c] EXCEPT ![1] = elapsed][1] = elapsed
      BY <2>1
    <2> QED  BY <2>1, <2>2, <2>3, <2>4
  <1>3. LeadInv'
    <2>1. t = remain_time[c] /\ elapsed <= cur_time + t
      BY <1>p, <1>c, ServedFacts DEF LeadInv, MainInv, SliceInv
    <2> QED  BY <1>p, <1>0, <2>1 DEF LeadInv
  <1>4. ASSUME NEW j \in Job PROVE JobServed(j)'
    <2>1. ts'[j][0] = ts[j][0]
      BY <1>2
    <2>2. state'[j] \in {"none", "forked"} => state[j] \in {"none", "forked"}
      BY <1>1
    <2> QED  BY <1>z, <1>0, <2>1, <2>2, ServedFacts DEF JobServed
  <1>5. ASSUME NEW j \in Job
        PROVE  /\ Gone(j) => Gone(j)'
               /\ Failed(j) => Failed(j)'
               /\ Resting(j) => Resting(j)'
               /\ Passed(j) => Passed(j)'
               /\ ToCome(j) => ToCome(j)'
    BY <1>z, <1>0, <1>1 DEF Gone, Failed, Resting, Passed, ToCome, Quiet
  <1>6. /\ Gone(c) \/ Failed(c) \/ Passed(c)
        /\ began[c] # Never => state[c] = "zombie" /\ left[c] = 0 /\ ended[c] = elapsed
    <2>1. CASE InFlight
      <3>1. CurrentServed
        BY <1>p, <2>1, ServedFacts DEF PlacesInv
      <3> QED  BY <1>p, <1>c, <3>1 DEF CurrentServed, Gone, Failed
    <2>2. CASE ~InFlight
      <3>1. t = 0 /\ remain_time[c] = 0
        BY <1>p, <1>c, <2>2, ServedFacts DEF InFlight, MainInv, SliceInv
      <3>2. need[c] = 0
        BY <1>c, <3>1, ServedFacts DEF MainInv, NodesInv
      <3>3. Resting(c) \/ Failed(c)
        BY <1>p, <1>c, <2>2, ServedFacts DEF PlacesInv
      <3>4. left[c] = need[c] /\ (Resting(c) => Passed(c))
        BY <3>1, <3>2, <3>3 DEF Resting, Failed, Passed
      <3> QED  BY <3>3, <3>4, ServedFacts DEF JobServed
    <2> QED  BY <2>1, <2>2
  <1>7. PlacesInv'
    <2>0. PlacesInv /\ \A i \in Slot : p_arr'[i] \in Job
      BY <1>0, ServedFacts, BooksFacts
    <2>1. ASSUME NEW i \in Slot, next' <= i, NEW j \in Job, j = p_arr'[i]
          PROVE  ToCome(j)'
      <3>1. ToCome(j)
        BY <1>p, <1>0, <2>0, <2>1 DEF PlacesInv
      <3> QED  BY <1>5, <3>1
    <2>2. ASSUME NEW i \in Slot, i < next', NEW j \in Job, j = p_arr'[i], j \notin nodes'
          PROVE  /\ Gone(j)' \/ Failed(j)' \/ Passed(j)'
                 /\ began'[j] # Never => ts'[j][1] = ended'[j]
      <3>1. CASE j = c
        BY <1>0, <1>2, <1>5, <1>6, <3>1
      <3>2. CASE j # c
        <4>1. /\ Gone(j) \/ Failed(j) \/ Passed(j)
              /\ began[j] # Never => ts[j][1] = ended[j]
          BY <1>p, <1>0, <2>0, <2>2, <3>2 DEF PlacesInv
        <4> QED  BY <1>0, <1>2, <1>5, <3>2, <4>1
      <3> QED  BY <3>1, <3>2
    <2>3. ASSUME NEW j \in nodes' PROVE Resting(j)' \/ Failed(j)'
      <3>1. j \in nodes /\ j # c /\ j \in Job
        BY <1>0, <2>3, ServedFacts, BooksFacts
      <3>2. Resting(j) \/ Failed(j)
        BY <1>p, <1>c, <2>0, <3>1 DEF PlacesInv
      <3> QED  BY <1>5, <3>1, <3>2
    <2>4. ~InFlight'
      BY <1>p DEF InFlight
    <2> QED  BY <2>0, <2>1, <2>2, <2>3, <2>4 DEF PlacesInv
  <1>8. EndInv'
    <2> DEFINE reaped == {j \in Job : state[j] = "reaped"}
    <2>0. EndInv /\ finish \in Nat /\ printed \in Seq(Job)
      BY ServedFacts, BooksFacts DEF MainInv, TypeOK
    <2>1. {j \in Job : state'[j] = "reaped"} = reaped \cup {z}
      BY <1>z, <1>1
    <2>2. z \notin reaped /\ reaped \in SUBSET Job /\ Cardinality(reaped) = finish
      BY <1>z, <2>0 DEF EndInv
    <2>3. Cardinality(reaped \cup {z}) = finish + 1
      <3> HIDE DEF reaped
      <3>1. IsFiniteSet(reaped)
        BY <2>2, JobAssumption, FS_Subset
      <3> QED  BY <2>2, <3>1, FS_AddElement
    <2>4. /\ Len(printed') = finish + 1
          /\ \A i \in 1 .. Len(printed') :
               printed'[i] = c \/ (i \in 1 .. Len(printed) /\ printed'[i] = printed[i])
      BY <1>0, <2>0 DEF EndInv
    <2>5. ASSUME NEW i \in 1 .. Len(printed'), NEW j \in Job, j = printed'[i]
          PROVE  /\ j \notin nodes' /\ state'[j] # "none"
                 /\ began'[j] # Never => ~Alive(j)' /\ left'[j] = 0 /\ ts'[j][1] = ended'[j]
      <3>1. CASE j = c
        <4>1. state[c] # "none"
          BY <1>6 DEF Gone, Failed, Passed, Resting
        <4>2. state'[c] \in {state[c], "reaped"}
          BY <1>1
        <4> QED  BY <1>z, <1>0, <1>2, <1>6, <3>1, <4>1, <4>2 DEF Alive
      <3>2. CASE j # c
        <4>1. i \in 1 .. Len(printed) /\ j = printed[i]
          BY <2>4, <2>5, <3>2
        <4>2. /\ j \notin nodes /\ state[j] # "none"
              /\ began[j] # Never => ~Alive(j) /\ left[j] = 0 /\ ts[j][1] = ended[j]
          BY <2>0, <4>1 DEF EndInv
        <4>3. state'[j] \in {state[j], "reaped"} /\ ts'[j] = ts[j]
          BY <1>1, <1>2, <3>2
        <4> QED  BY <1>z, <1>0, <4>2, <4>3 DEF Alive
      <3> QED  BY <3>1, <3>2
    <2>6. \A i \in 1 .. Len(printed') : printed'[i] \in Job
      BY DEF MainInv, TypeOK
    <2> QED  BY <1>p, <1>0, <2>1, <2>3, <2>4, <2>5, <2>6 DEF EndInv
  <1> QED  BY <1>3, <1>4, <1>7, <1>8 DEF ChildrenInv

(* execl(), which starts the child or ends it, while main is there.         *)
LEMMA StartFault ==
  ASSUME FaultInv, MainInv', NEW j \in Job, pc # "exited", state[j] = "forked",
         NEW s \in {"scan", "zombie"}, state' = [state EXCEPT ![j] = s],
         UNCHANGED <<arrive, need, prio, left, x, pipe, elapsed, began>>, UNCHANGED mainVars,
         \A k \in Job : k # j => ended'[k] = ended[k]
  PROVE  ChildrenInv'
  <1>0. /\ UNCHANGED <<pc, p_arr, next, finish, cur_time, remain_time, ts, printed>>
        /\ UNCHANGED <<cur_job, nodes, t>>
    BY DEF mainVars, list, record
  <1>1. state'[j] = s /\ \A k \in Job : k # j => state'[k] = state[k]
    BY ServedFacts
  <1>2. left[j] = need[j] /\ began[j] = Never
    BY ServedFacts DEF JobServed
  <1>3. LeadInv'
    BY <1>0, ServedFacts DEF LeadInv
  <1>4. \A k \in Job : JobServed(k)'
    BY <1>0, <1>1, ServedFacts DEF JobServed
  <1>5. ASSUME NEW k \in Job
        PROVE  /\ Gone(k) => Gone(k)' /\ k # j
               /\ Failed(k) => Failed(k)' /\ k # j
               /\ Passed(k) => Passed(k)' \/ Failed(k)'
               /\ Resting(k) => Resting(k)' \/ Failed(k)'
               /\ Given(k) => Given(k)' \/ Failed(k)'
               /\ ToCome(k) => ToCome(k)'
    <2>1. CASE k # j
      <3>1. /\ state'[k] = state[k] /\ x'[k] = x[k] /\ pipe'[k] = pipe[k] /\ left'[k] = left[k]
            /\ remain_time'[k] = remain_time[k] /\ need'[k] = need[k] /\ began'[k] = began[k]
            /\ t' = t /\ cur_time' = cur_time /\ elapsed' = elapsed
        BY <1>0, <1>1, <2>1
      <3> QED  BY <2>1, <3>1 DEF Gone, Failed, Passed, Resting, Given, ToCome, Quiet
    <2>2. CASE k = j /\ s = "scan"
      BY <1>0, <1>1, <2>2 DEF Gone, Failed, Passed, Resting, Given, ToCome, Quiet
    <2>3. CASE k = j /\ s = "zombie"
      <3>1. Resting(k) \/ Given(k) \/ Passed(k) => x[k] = 0
        BY <2>3 DEF Resting, Given, Passed, Quiet
      <3>2. Resting(k) \/ Given(k) \/ Passed(k) => Failed(k)'
        BY <1>0, <1>1, <1>2, <2>3, <3>1 DEF Failed
      <3> QED  BY <2>3, <3>2 DEF Gone, Failed, ToCome
    <2> QED  BY <2>1, <2>2, <2>3
  <1>6. PlacesInv'
    <2>0. PlacesInv /\ \A i \in Slot : p_arr[i] \in Job
      BY ServedFacts, BooksFacts
    <2>1. ASSUME NEW i \in Slot, next <= i, NEW k \in Job, k = p_arr[i]
          PROVE  ToCome(k)'
      <3>1. ToCome(k)
        BY <2>0, <2>1 DEF PlacesInv
      <3> QED  BY <1>5, <3>1
    <2>2. ASSUME NEW i \in Slot, i < next, NEW k \in Job, k = p_arr[i], k \notin nodes
          PROVE  /\ Gone(k)' \/ Failed(k)' \/ Passed(k)'
                 /\ began'[k] # Never => ts'[k][1] = ended'[k]
      <3>1. /\ Gone(k) \/ Failed(k) \/ Passed(k)
            /\ began[k] # Never => ts[k][1] = ended[k]
        BY <2>0, <2>2 DEF PlacesInv
      <3>2. began[k] # Never => k # j
        BY <1>2
      <3> QED  BY <1>0, <1>5, <3>1, <3>2
    <2>3. ASSUME NEW k \in nodes, InFlight => k # cur_job
          PROVE  Resting(k)' \/ Failed(k)'
      <3>1. k \in Job /\ (Resting(k) \/ Failed(k))
        BY <2>0, <2>3, ServedFacts, BooksFacts DEF PlacesInv
      <3> QED  BY <1>5, <3>1
    <2>4. InFlight' = InFlight
      BY <1>0 DEF InFlight
    <2>5. ASSUME InFlight PROVE CurrentServed'
      <3>1. CurrentServed
        BY <2>0, <2>5 DEF PlacesInv
      <3>2. PICK c \in Job : c = cur_job /\ c = cur_job'
        BY <1>0, <2>5, ServedFacts, BooksFacts DEF InFlight, Slicing
      <3>3. /\ state'[c] = "run" => state[c] = "run"
            /\ Alive(c)' => Alive(c)
            /\ state'[c] = "zombie" /\ began'[c] # Never => c # j /\ state[c] = "zombie"
        BY <1>1, <1>2, <3>2 DEF Alive
      <3>4. pc = "wait" => (Gone(c)' /\ state'[c] = "zombie") \/ Failed(c)'
        BY <1>1, <1>5, <3>1, <3>2 DEF CurrentServed
      <3>5. ~Failed(c)' => ~Failed(c)
        BY <1>5
      <3>6. state'[c] = "zombie" /\ began'[c] # Never => ended'[c] = ended[c]
        BY <3>3
      <3> QED  BY <1>0, <1>5, <3>1, <3>2, <3>3, <3>4, <3>5, <3>6 DEF CurrentServed
    <2> QED  BY <1>0, <2>0, <2>1, <2>2, <2>3, <2>4, <2>5 DEF PlacesInv
  <1>7. EndInv'
    <2>1. \A k \in Job : state'[k] = "reaped" <=> state[k] = "reaped"
      BY <1>1
    <2>2. \A k \in Job : state[k] # "none" => state'[k] # "none"
      BY <1>1
    <2>3. \A k \in Job : ~Alive(k) => ~Alive(k)' /\ k # j
      BY <1>1 DEF Alive
    <2> QED  BY <1>0, <2>1, <2>2, <2>3, EndKept
  <1> QED  BY <1>3, <1>4, <1>6, <1>7 DEF ChildrenInv

(* A child that is in its busy loop, or has a slice to read, is the current *)
(* one, and the slice is the one main is waiting for.                       *)
LEMMA BusyFacts ==
  ASSUME FaultInv, NEW j \in Job, state[j] = "run" \/ (state[j] = "scan" /\ pipe[j] # << >>)
  PROVE  /\ pc \in {"raise", "account"} /\ InFlight /\ j = cur_job /\ Given(j) /\ ~Failed(j)
         /\ CurrentServed /\ t <= remain_time[j] /\ JobServed(j) /\ j \in nodes /\ Alive(j)
         /\ left[j] = need[j] => ts[j][0] = elapsed
         /\ pc = "account" => prio[j] = RunPrio
         /\ elapsed <= cur_time + t
  <1>1. Alive(j) /\ pc # "exited" /\ ~Resting(j) /\ ~Failed(j)
    BY ServedFacts DEF EndInv, Alive, Resting, Quiet, Failed
  <1>2. /\ pc \in {"raise", "account"} /\ InFlight /\ j = cur_job /\ Given(j) /\ Slicing
    BY <1>1, OnlyCurrentHasSlice DEF Slicing
  <1>3. CurrentServed
    BY <1>1, <1>2, ServedFacts DEF PlacesInv
  <1>4. t <= remain_time[j] /\ JobServed(j) /\ j \in nodes /\ elapsed <= cur_time + t
    BY <1>2, ServedFacts, BooksFacts DEF LeadInv
  <1>5. /\ left[j] = need[j] => ts[j][0] = elapsed
        /\ pc = "account" => prio[j] = RunPrio
    BY <1>1, <1>2, <1>3 DEF CurrentServed
  <1> QED  BY <1>1, <1>2, <1>3, <1>4, <1>5

(* What is left to show of a step of such a child.                          *)
LEMMA BusyChildFault ==
  ASSUME FaultInv, MainInv',
         NEW j \in Job, state[j] = "run" \/ (state[j] = "scan" /\ pipe[j] # << >>),
         UNCHANGED mainVars, UNCHANGED <<arrive, need>>,
         \A k \in Job : k # j => /\ state'[k] = state[k] /\ pipe'[k] = pipe[k] /\ x'[k] = x[k]
                                 /\ left'[k] = left[k] /\ began'[k] = began[k]
                                 /\ ended'[k] = ended[k],
         state'[j] \in {"run", "scan", "zombie"},
         pc = "account" /\ (state'[j] = "run" \/ pipe'[j] # << >>) => prio'[j] = RunPrio,
         Given(j)', JobServed(j)', elapsed' <= cur_time + t,
         left'[j] = need[j] /\ ~Failed(j)' => ts[j][0] = elapsed',
         state'[j] = "zombie" => ended'[j] = elapsed'
  PROVE  ChildrenInv'
  <1>0. /\ UNCHANGED <<pc, p_arr, next, finish, cur_time, remain_time, ts, printed>>
        /\ UNCHANGED <<cur_job, nodes, t>>
    BY DEF mainVars, list, record
  <1>1. /\ pc \in {"raise", "account"} /\ j = cur_job /\ CurrentServed /\ InFlight
        /\ j \in nodes /\ state[j] # "reaped"
    BY BusyFacts
  <1>2. LeadInv'
    BY <1>0, <1>1 DEF LeadInv
  <1>3. ASSUME NEW k \in Job PROVE JobServed(k)'
    <2>1. CASE k # j
      BY <1>0, <2>1, ServedFacts DEF JobServed
    <2> QED  BY <2>1
  <1>4. CurrentServed'
    BY <1>0, <1>1 DEF CurrentServed
  <1>5. PlacesInv'
    <2>1. InFlight'
      BY <1>0, <1>1 DEF InFlight
    <2> QED  BY <1>0, <1>1, <1>4, <2>1, PlacesKept
  <1>6. EndInv'
    <2>1. \A k \in Job : k \notin nodes => k # j
      BY <1>1
    <2>2. \A k \in Job : state'[k] = "reaped" <=> state[k] = "reaped"
      BY <1>1
    <2> QED  BY <1>0, <1>1, <2>1, <2>2, EndKept DEF Alive
  <1> QED  BY <1>2, <1>3, <1>5, <1>6 DEF ChildrenInv

(* The steps of such a child: it reads its slice, burns it, and then exits  *)
(* or hands the CPU back.                                                   *)
LEMMA BusyStepFault ==
  ASSUME FaultInv, MainInv', NEW j \in Job, Scanf(j) \/ BurnUnit(j) \/ Finish(j) \/ Yield(j),
         UNCHANGED mainVars
  PROVE  ChildrenInv'
  <1>0. UNCHANGED <<pc, cur_time, remain_time, ts, t>>
    BY DEF mainVars, record
  <1>a. state[j] = "run" \/ (state[j] = "scan" /\ pipe[j] # << >>)
    BY DEF Scanf, BurnUnit, Finish, Yield
  <1>1. /\ pc \in {"raise", "account"} /\ Given(j) /\ ~Failed(j)
        /\ t <= remain_time[j] /\ JobServed(j)
        /\ left[j] = need[j] => ts[j][0] = elapsed
        /\ pc = "account" => prio[j] = RunPrio
        /\ elapsed <= cur_time + t
    BY <1>a, BusyFacts
  <1>2. /\ state \in [Job -> ChildState] /\ pipe \in [Job -> Seq(Nat)] /\ x \in [Job -> Nat]
        /\ left \in [Job -> Int] /\ began \in [Job -> Nat \cup {Never}]
        /\ ended \in [Job -> Nat \cup {Never}]
        /\ left[j] \in Int /\ need[j] \in Nat /\ x[j] \in Nat /\ remain_time[j] \in Nat
        /\ cur_time \in Nat /\ elapsed \in Nat /\ t \in Nat
    BY ServedFacts
  <1>3. CASE Scanf(j)
    <2>1. /\ state[j] = "scan" /\ pipe[j] # << >>
          /\ state' = [state EXCEPT ![j] = "run"]
          /\ x' = [x EXCEPT ![j] = Head(pipe[j])]
          /\ pipe' = [pipe EXCEPT ![j] = Tail(@)]
          /\ UNCHANGED <<arrive, need, elapsed, began, ended, prio, left>>
      BY <1>3 DEF Scanf, input, history
    <2>2. pipe[j] = <<t>> /\ x[j] = 0 /\ left[j] = remain_time[j] /\ elapsed <= cur_time
      BY <1>1, <2>1 DEF Given
    <2>3. Head(pipe[j]) = t /\ Tail(pipe[j]) = << >>
      BY <1>2, <2>2, OneMessage
    <2>4. /\ state'[j] = "run" /\ x'[j] = t /\ pipe'[j] = << >>
          /\ \A k \in Job : k # j => /\ state'[k] = state[k] /\ pipe'[k] = pipe[k]
                                     /\ x'[k] = x[k]
      BY <1>2, <2>1, <2>3
    <2>5. Given(j)' /\ JobServed(j)'
      BY <1>0, <1>1, <1>2, <2>1, <2>2, <2>4 DEF Given, JobServed
    <2> QED  BY <1>0, <1>1, <1>a, <2>1, <2>4, <2>5, BusyChildFault
  <1>4. CASE BurnUnit(j)
    <2>1. /\ state[j] = "run" /\ x[j] > 0
          /\ x' = [x EXCEPT ![j] = @ - 1]
          /\ left' = [left EXCEPT ![j] = @ - 1]
          /\ elapsed' = elapsed + 1
          /\ began' = [began EXCEPT ![j] = IF @ = Never THEN elapsed ELSE @]
          /\ UNCHANGED <<arrive, need, state, prio, pipe, ended>>
      BY <1>4 DEF BurnUnit, input
    <2>2. /\ pipe[j] = << >> /\ left[j] = remain_time[j] - t + x[j]
          /\ elapsed + x[j] <= cur_time + t
      BY <1>1, <2>1 DEF Given
    <2>3. /\ x'[j] = x[j] - 1 /\ left'[j] = left[j] - 1
          /\ began'[j] = IF began[j] = Never THEN elapsed ELSE began[j]
          /\ \A k \in Job : k # j => x'[k] = x[k] /\ left'[k] = left[k] /\ began'[k] = began[k]
      BY <1>2, <2>1
    <2>4. Given(j)'
      <3>1. left[j] - 1 = remain_time[j] - t + (x[j] - 1)
        BY <1>2, <2>2
      <3>2. (elapsed + 1) + (x[j] - 1) <= cur_time + t /\ x[j] - 1 <= t
        BY <1>1, <1>2, <2>1, <2>2 DEF Given
      <3> QED  BY <1>0, <2>1, <2>2, <2>3, <3>1, <3>2 DEF Given
    <2>5. left'[j] < need[j] /\ left'[j] # need[j] /\ left'[j] <= need[j]
      BY <1>1, <1>2, <2>3 DEF JobServed
    <2>6. began'[j] = ts[j][0] /\ began'[j] # Never
      <3>1. CASE left[j] = need[j]
        <4>1. elapsed # Never
          BY <1>2 DEF Never
        <4> QED  BY <1>1, <2>3, <3>1, <4>1 DEF JobServed
      <3>2. CASE left[j] # need[j]
        <4>1. left[j] < need[j]
          BY <1>1, <1>2, <3>2 DEF JobServed
        <4> QED  BY <1>1, <2>3, <4>1 DEF JobServed
      <3> QED  BY <3>1, <3>2
    <2>7. JobServed(j)'
      BY <1>0, <1>1, <2>1, <2>5, <2>6 DEF JobServed
    <2>8. elapsed' <= cur_time + t
      BY <1>2, <2>1, <2>2
    <2> QED  BY <1>0, <1>1, <1>a, <2>1, <2>3, <2>4, <2>5, <2>7, <2>8, BusyChildFault
  <1>5. CASE Finish(j)
    <2>1. /\ state[j] = "run" /\ x[j] = 0 /\ left[j] <= 0
          /\ state' = [state EXCEPT ![j] = "zombie"]
          /\ ended' = [ended EXCEPT ![j] = elapsed]
          /\ UNCHANGED <<arrive, need, prio, left, x, pipe, elapsed, began>>
      BY <1>5 DEF Finish, Dies, input
    <2>2. /\ pipe[j] = << >> /\ left[j] = remain_time[j] - t + x[j]
          /\ elapsed + x[j] <= cur_time + t
      BY <1>1, <2>1 DEF Given
    <2>3. left[j] = 0
      BY <1>1, <1>2, <2>1, <2>2
    <2>4. /\ state'[j] = "zombie" /\ ended'[j] = elapsed
          /\ \A k \in Job : k # j => state'[k] = state[k] /\ ended'[k] = ended[k]
      BY <1>2, <2>1
    <2>5. Given(j)' /\ JobServed(j)'
      BY <1>0, <1>1, <1>2, <2>1, <2>2, <2>3, <2>4 DEF Given, JobServed
    <2> QED  BY <1>0, <1>1, <1>a, <2>1, <2>2, <2>4, <2>5, BusyChildFault
  <1>6. CASE Yield(j)
    <2>1. /\ state[j] = "run" /\ x[j] = 0 /\ left[j] > 0
          /\ state' = [state EXCEPT ![j] = "scan"]
          /\ UNCHANGED <<arrive, need, left, x, pipe, elapsed, began, ended>>
      BY <1>6 DEF Yield, input, history
    <2>2. /\ pipe[j] = << >> /\ left[j] = remain_time[j] - t + x[j]
          /\ elapsed + x[j] <= cur_time + t
      BY <1>1, <2>1 DEF Given
    <2>4. state'[j] = "scan" /\ \A k \in Job : k # j => state'[k] = state[k]
      BY <1>2, <2>1
    <2>5. Given(j)' /\ JobServed(j)'
      BY <1>0, <1>1, <1>2, <2>1, <2>2, <2>4 DEF Given, JobServed
    <2> QED  BY <1>0, <1>1, <1>a, <2>1, <2>2, <2>4, <2>5, BusyChildFault
  <1> QED  BY <1>3, <1>4, <1>5, <1>6

(* After main has gone the children that are left die or read end-of-file.  *)
LEMMA OrphanFault ==
  ASSUME FaultInv, MainInv', NEW j \in Job, pc = "exited", state[j] \in {"forked", "scan"},
         NEW s \in {"scan", "zombie"}, state' = [state EXCEPT ![j] = s],
         UNCHANGED <<arrive, need, prio, left, x, pipe, elapsed, began>>, UNCHANGED mainVars,
         \A k \in Job : k # j => ended'[k] = ended[k]
  PROVE  ChildrenInv'
  <1>0. /\ UNCHANGED <<pc, p_arr, next, finish, cur_time, remain_time, ts, printed>>
        /\ UNCHANGED <<cur_job, nodes, t>>
    BY DEF mainVars, list, record
  <1>1. state'[j] = s /\ \A k \in Job : k # j => state'[k] = state[k]
    BY ServedFacts
  <1>2. LeadInv' /\ PlacesInv'
    BY <1>0, ServedFacts DEF LeadInv, PlacesInv, upcoming
  <1>3. \A k \in Job : JobServed(k)'
    BY <1>0, <1>1, ServedFacts DEF JobServed
  <1>4. EndInv'
    <2>1. \A k \in Job : state'[k] = "reaped" <=> state[k] = "reaped"
      BY <1>1
    <2>2. \A k \in Job : state[k] # "none" => state'[k] # "none"
      BY <1>1
    <2>3. \A k \in Job : ~Alive(k) => ~Alive(k)' /\ k # j
      BY <1>1 DEF Alive
    <2>4. \A k \in Job : Alive(k)' => pipe'[k] = << >> /\ state'[k] # "run"
      <3>1. EndInv
        BY ServedFacts
      <3> QED  BY <1>1, <3>1 DEF EndInv, Alive
    <2> QED  BY <1>0, <2>1, <2>2, <2>3, <2>4, EndKept
  <1> QED  BY <1>2, <1>3, <1>4 DEF ChildrenInv

(* Whatever a child does.                                                   *)
LEMMA ChildStepFault ==
  ASSUME FaultInv, MainInv', NEW j \in Job, ChildStep(j)
  PROVE  ChildrenInv'
  <1>0. UNCHANGED mainVars /\ (Exec(j, TRUE) \/ ExecFails(j) \/ ChildProgram(j))
    BY DEF ChildStep
  <1>1. CASE Scanf(j) \/ BurnUnit(j) \/ Finish(j) \/ Yield(j)
    BY <1>0, <1>1, BusyStepFault
  <1>2. CASE Exec(j, TRUE)
    <2>1. /\ state[j] = "forked" /\ state' = [state EXCEPT ![j] = "scan"]
          /\ UNCHANGED <<arrive, need, prio, left, x, pipe, elapsed, began>>
          /\ ended' = ended
      BY <1>2 DEF Exec, input, history
    <2> QED  BY <1>0, <2>1, StartFault, OrphanFault
  <1>3. CASE ExecFails(j) \/ ScanfEof(j)
    <2>1. /\ state[j] \in {"forked", "scan"} /\ state' = [state EXCEPT ![j] = "zombie"]
          /\ UNCHANGED <<arrive, need, prio, left, x, pipe, elapsed, began>>
          /\ ended' = [ended EXCEPT ![j] = elapsed]
          /\ state[j] = "scan" => writers[j] = {}
      BY <1>3 DEF ExecFails, ScanfEof, Dies, input
    <2>2. \A k \in Job : k # j => ended'[k] = ended[k]
      BY <2>1, ServedFacts
    <2>3. state[j] = "scan" => pc = "exited"
      BY <2>1, ServedFacts DEF EofInv
    <2> QED  BY <1>0, <2>1, <2>2, <2>3, StartFault, OrphanFault
  <1> QED  BY <1>0, <1>1, <1>2, <1>3 DEF ChildProgram

(* A stuttering step.                                                       *)
LEMMA StutterFault == FaultInv /\ UNCHANGED vars => ChildrenInv'
  <1> SUFFICES ASSUME FaultInv, UNCHANGED vars PROVE ChildrenInv'
    OBVIOUS
  <1>0. /\ UNCHANGED <<arrive, need, state, prio, left, x, pipe, elapsed, began, ended>>
        /\ UNCHANGED <<pc, p_arr, next, finish, cur_time, remain_time, ts, printed>>
        /\ UNCHANGED <<cur_job, nodes, t>>
    BY DEF vars, dispatchVars, mainVars, list, record, input, child, history
  <1>1. LeadInv' /\ \A j \in Job : JobServed(j)'
    BY <1>0, ServedFacts DEF LeadInv, JobServed, upcoming
  <1>2. PlacesInv'
    BY <1>0, ServedFacts DEF PlacesInv, CurrentServed, InFlight, Gone, Failed, Passed, Resting,
                             ToCome, Given, Quiet, Alive
  <1>3. EndInv'
    BY <1>0, ServedFacts DEF EndInv, Alive
  <1> QED  BY <1>1, <1>2, <1>3 DEF ChildrenInv

(* Every step of rr.c, whichever call fails.                                *)
LEMMA NextFault == FaultInv /\ [Next]_vars => FaultInv'
  <1> SUFFICES ASSUME FaultInv, [Next]_vars PROVE FaultInv'
    OBVIOUS
  <1>1. MainInv' /\ EofInv'
    BY NextBooks, EofStep DEF FaultInv
  <1>2. CASE MainStep
    BY <1>1, <1>2, ReadInputFault, PlanningFault, ForkChildFault, LeaveFault, RunJobWriteFault,
       RunJobRaiseFault, AccountFault, StartWaitFault, AfterToDieFault DEF MainStep, FaultInv
  <1>3. CASE \E j \in Job : ChildStep(j)
    BY <1>1, <1>3, ChildStepFault DEF FaultInv
  <1> QED  BY <1>1, <1>2, <1>3, StutterFault DEF Next, FaultInv

(* rr.c with any fork() and any execl() failing: main's clock never falls   *)
(* behind the real time, and of every job it is known whether its child     *)
(* waits, has run to its end or could not start.                            *)
THEOREM RrFaultInvariance == Spec => []FaultInv
  BY FaultInit, NextFault, PTL DEF Spec

(* Neither cur_time, which the top of the loop compares for equality, nor   *)
(* the real time runs past the ready time of a job that is not forked,      *)
(* whatever becomes of the children.                                        *)
THEOREM RrArrivals == Spec => []NoMissedArrival
  BY RrFaultInvariance, FaultImplies, PTL

(* Whichever calls fail, a job that got the CPU is printed only after it    *)
(* has run to its end, and with its true times; and when all are printed    *)
(* every child has been waited for.                                         *)
THEOREM RrServed == Spec => []ServedAreTrue
  BY RrFaultInvariance, FaultImplies, PTL
=============================================================================
