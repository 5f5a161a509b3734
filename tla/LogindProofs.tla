---------------------------- MODULE LogindProofs ----------------------------
(***************************************************************************)
(* Proofs about Logind, for any number of connections, addresses, tunnels, *)
(* users and slots of the tarpit.                                          *)
(***************************************************************************)
EXTENDS Logind, FiniteSetTheorems, WellFoundedInduction, TLAPS

(* Where the connections are in their lives: those that wait for mbbsd, those
   that wait for a verdict, those that are held in the tarpit. *)
Acks(cn)  == {a \in Addrs : cn[a] # Null /\ cn[a].st = "WAITACK"}
Waits(cn) == {a \in Addrs : cn[a] # Null /\ cn[a].st = "ACTIVITY_WAIT"}
Holds(cn) == {a \in Addrs : cn[a] # Null /\ cn[a].tarpit}

-----------------------------------------------------------------------------
(* A set of natural numbers that is not empty has a least one. *)
LEMMA LeastExists ==
  ASSUME NEW S \in SUBSET Nat, S # {}
  PROVE  \E i \in S : \A j \in S : i <= j
<1>. DEFINE R == OpToRel(<, Nat)
<1>1. IsWellFoundedOn(R, Nat)
  BY NatLessThanWellFounded
<1>2. \A i, j \in Nat : <<j, i>> \in R <=> j < i
  BY DEF OpToRel
<1>. HIDE DEF R
<1>3. PICK i \in S : \A j \in S : ~(<<j, i>> \in R)
  BY <1>1, WFMin
<1>4. \A j \in S : ~(j < i)
  BY <1>2, <1>3
<1>. QED  BY <1>4

-----------------------------------------------------------------------------
(* g_ack_queue *)

Queues == [queue : Seq(Addrs \cup {Null}), reuse : Nat]
Holes(q) == {i \in 1 .. Len(q) : q[i] = Null}

(* A queue in which each address of W is once, nothing else is, and reuse
   counts the holes. *)
QueueOf(Q, W) ==
  /\ Q \in Queues
  /\ \A i, j \in 1 .. Len(Q.queue) : Q.queue[i] = Q.queue[j] /\ Q.queue[i] # Null => i = j
  /\ \A a \in Addrs : a \in W <=> InQueue(Q, a)
  /\ Q.reuse = Cardinality(Holes(Q.queue))

(* The holes in the acknowledgement queue can be counted. *)
LEMMA HolesFinite ==
  ASSUME NEW q \in Seq(Addrs \cup {Null})
  PROVE  /\ IsFiniteSet(Holes(q)) /\ Cardinality(Holes(q)) \in Nat
         /\ Cardinality(Holes(q)) <= Len(q)
         /\ Cardinality(Holes(q)) = Len(q) => Holes(q) = 1 .. Len(q)
<1>1. Len(q) \in Nat /\ Holes(q) \subseteq 1 .. Len(q)
  BY DEF Holes
<1>2. IsFiniteSet(1 .. Len(q)) /\ Cardinality(1 .. Len(q)) = Len(q)
  <2>1. PICK n \in Nat : n = Len(q)
    BY <1>1
  <2>2. 1 \in Int /\ n \in Int /\ (IF 1 > n THEN 0 ELSE n - 1 + 1) = n
    OBVIOUS
  <2>. QED  BY <2>1, <2>2, FS_Interval
<1>. QED  BY <1>1, <1>2, FS_Subset, FS_CardinalityType

(* ackq_gc forgets the array when it is all holes. *)
LEMMA GcOK ==
  ASSUME NEW Q, NEW W, QueueOf(Q, W)
  PROVE  QueueOf(ackq_gc(Q), W)
<1>1. CASE Q.reuse # Len(Q.queue)
  BY <1>1 DEF ackq_gc
<1>2. CASE Q.reuse = Len(Q.queue)
  <2>1. Q.queue \in Seq(Addrs \cup {Null})
    BY DEF QueueOf, Queues
  <2>2. \A i \in 1 .. Len(Q.queue) : Q.queue[i] = Null
    BY <1>2, <2>1, HolesFinite DEF QueueOf, Holes
  <2>3. \A a \in Addrs : a \notin W
    BY <2>2, LogindAssumption DEF QueueOf, InQueue
  <2>4. PICK E : E = [queue |-> <<>>, reuse |-> 0]
    OBVIOUS
  <2>5. E \in Queues /\ E.queue = <<>> /\ E.reuse = 0 /\ Len(E.queue) = 0
    BY <2>4 DEF Queues
  <2>6. Holes(E.queue) = {}
    BY <2>5 DEF Holes
  <2>7. Cardinality(Holes(E.queue)) = 0
    BY <2>6, FS_EmptySet
  <2>. QED  BY <1>2, <2>3, <2>4, <2>5, <2>7 DEF ackq_gc, QueueOf, InQueue
<1>. QED  BY <1>1, <1>2
(* ackq_add puts a pointer into the first hole, or at the end. *)
LEMMA AddOK ==
  ASSUME NEW Q, NEW W, QueueOf(Q, W), NEW a \in Addrs, a \notin W
  PROVE  QueueOf(ackq_add(Q, a), W \cup {a})
<1>0. PICK q : q = Q.queue
  OBVIOUS
<1>1. q \in Seq(Addrs \cup {Null}) /\ Q.reuse \in Nat /\ Len(q) \in Nat /\ a # Null
  BY <1>0, LogindAssumption DEF QueueOf, Queues
<1>2. Q = [queue |-> q, reuse |-> Q.reuse]
  BY <1>0 DEF QueueOf, Queues
<1>3. /\ \A i, j \in 1 .. Len(q) : q[i] = q[j] /\ q[i] # Null => i = j
      /\ \A i \in 1 .. Len(q) : q[i] # a
      /\ \A x \in Addrs : x \in W <=> \E i \in 1 .. Len(q) : q[i] = x
      /\ Q.reuse = Cardinality(Holes(q))
  BY <1>0 DEF QueueOf, InQueue
<1>4. IsFiniteSet(Holes(q)) /\ Cardinality(Holes(q)) \in Nat
  BY <1>1, HolesFinite
<1>5. CASE Q.reuse > 0
  <2>. DEFINE First(i) == i \in 1 .. Len(q) /\ q[i] = Null /\ \A j \in 1 .. i - 1 : q[j] # Null
  <2>1. Holes(q) # {}
    BY <1>3, <1>5, FS_EmptySet
  <2>2. Holes(q) \in SUBSET Nat
    BY <1>1 DEF Holes
  <2>3. PICK m \in Holes(q) : \A j \in Holes(q) : m <= j
    BY <2>1, <2>2, LeastExists
  <2>4. First(m)
    BY <1>1, <2>3 DEF Holes
  <2>0. PICK k : k = CHOOSE i \in 1 .. Len(q) : q[i] = Null /\ \A j \in 1 .. i - 1 : q[j] # Null
    OBVIOUS
  <2>5. k \in 1 .. Len(q) /\ q[k] = Null
    BY <2>0, <2>4
  <2>6. PICK p : p = [q EXCEPT ![k] = a]
    OBVIOUS
  <2>7. /\ p \in Seq(Addrs \cup {Null}) /\ Len(p) = Len(q) /\ p[k] = a
        /\ \A i \in 1 .. Len(q) : i # k => p[i] = q[i]
    BY <1>1, <2>5, <2>6
  <2>8. Holes(p) = Holes(q) \ {k} /\ k \in Holes(q)
    BY <1>1, <2>5, <2>7 DEF Holes
  <2>9. Cardinality(Holes(p)) = Q.reuse - 1 /\ Q.reuse - 1 \in Nat
    <3>1. Cardinality(Holes(q) \ {k}) = Cardinality(Holes(q)) - 1
      BY <1>4, <2>8, FS_RemoveElement
    <3>. QED  BY <1>3, <1>4, <1>5, <2>8, <3>1
  <2>10. PICK N : N = [queue |-> p, reuse |-> Q.reuse - 1]
    OBVIOUS
  <2>11. N \in Queues /\ N.queue = p /\ N.reuse = Q.reuse - 1
    BY <2>7, <2>9, <2>10 DEF Queues
  <2>12. \A i, j \in 1 .. Len(p) : p[i] = p[j] /\ p[i] # Null => i = j
    BY <1>3, <2>5, <2>7
  <2>13. \A x \in Addrs : x \in W \cup {a} <=> \E i \in 1 .. Len(p) : p[i] = x
    BY <1>1, <1>3, <2>5, <2>7, LogindAssumption
  <2>14. QueueOf(N, W \cup {a})
    BY <2>9, <2>11, <2>12, <2>13 DEF QueueOf, InQueue
  <2>15. ackq_add(Q, a) = ackq_gc(N)
    BY <1>0, <1>5, <2>0, <2>6, <2>10 DEF ackq_add
  <2>. QED  BY <2>14, <2>15, GcOK
<1>6. CASE ~(Q.reuse > 0)
  <2>1. PICK p : p = Append(q, a)
    OBVIOUS
  <2>2. /\ p \in Seq(Addrs \cup {Null}) /\ Len(p) = Len(q) + 1 /\ p[Len(q) + 1] = a
        /\ \A i \in 1 .. Len(q) : p[i] = q[i]
    BY <1>1, <2>1
  <2>3. Holes(p) = Holes(q)
    BY <1>1, <2>2 DEF Holes
  <2>4. PICK N : N = [queue |-> p, reuse |-> Q.reuse]
    OBVIOUS
  <2>5. N \in Queues /\ N.queue = p /\ N.reuse = Q.reuse
    BY <1>1, <2>2, <2>4 DEF Queues
  <2>6. \A i, j \in 1 .. Len(p) : p[i] = p[j] /\ p[i] # Null => i = j
    BY <1>1, <1>3, <2>2
  <2>7. \A x \in Addrs : x \in W \cup {a} <=> \E i \in 1 .. Len(p) : p[i] = x
    BY <1>1, <1>3, <2>2
  <2>8. QueueOf(N, W \cup {a})
    BY <1>3, <2>3, <2>5, <2>6, <2>7 DEF QueueOf, InQueue
  <2>9. ackq_add(Q, a) = ackq_gc(N)
    BY <1>0, <1>6, <2>1, <2>4 DEF ackq_add
  <2>. QED  BY <2>8, <2>9, GcOK
<1>. QED  BY <1>5, <1>6

(* ackq_del makes a hole, or the array shorter. *)
LEMMA DelOK ==
  ASSUME NEW Q, NEW W, QueueOf(Q, W), NEW a \in Addrs, a \in W
  PROVE  QueueOf(ackq_del(Q, a), W \ {a})
<1>0. PICK q : q = Q.queue
  OBVIOUS
<1>1. q \in Seq(Addrs \cup {Null}) /\ Q.reuse \in Nat /\ Len(q) \in Nat /\ a # Null
  BY <1>0, LogindAssumption DEF QueueOf, Queues
<1>2. Q \in Queues /\ InQueue(Q, a)
  BY DEF QueueOf
<1>3. /\ \A i, j \in 1 .. Len(q) : q[i] = q[j] /\ q[i] # Null => i = j
      /\ \A x \in Addrs : x \in W <=> \E i \in 1 .. Len(q) : q[i] = x
      /\ Q.reuse = Cardinality(Holes(q))
  BY <1>0 DEF QueueOf, InQueue
<1>4. IsFiniteSet(Holes(q)) /\ Cardinality(Holes(q)) \in Nat
  BY <1>1, HolesFinite
<1>5. PICK k : k = CHOOSE i \in 1 .. Len(q) : q[i] = a /\ \A j \in 1 .. i - 1 : q[j] # a
  OBVIOUS
<1>6. k \in 1 .. Len(q) /\ q[k] = a
  <2>1. PICK m \in 1 .. Len(q) : q[m] = a
    BY <1>3
  <2>2. \A j \in 1 .. m - 1 : q[j] # a
    BY <1>1, <1>3, <2>1
  <2>. QED  BY <1>5, <2>1, <2>2
<1>7. CASE k = Len(q)
  <2>1. PICK p : p = SubSeq(q, 1, Len(q) - 1)
    OBVIOUS
  <2>2. /\ p \in Seq(Addrs \cup {Null}) /\ Len(p) = Len(q) - 1
        /\ \A i \in 1 .. Len(p) : p[i] = q[i]
    BY <1>1, <1>6, <1>7, <2>1
  <2>3. Holes(p) = Holes(q)
    BY <1>1, <1>6, <1>7, <2>2 DEF Holes
  <2>4. PICK N : N = [queue |-> p, reuse |-> Q.reuse]
    OBVIOUS
  <2>5. N \in Queues /\ N.queue = p /\ N.reuse = Q.reuse
    BY <1>1, <2>2, <2>4 DEF Queues
  <2>6. \A i, j \in 1 .. Len(p) : p[i] = p[j] /\ p[i] # Null => i = j
    BY <1>1, <1>3, <2>2
  <2>7. \A x \in Addrs : x \in W \ {a} <=> \E i \in 1 .. Len(p) : p[i] = x
    BY <1>1, <1>3, <1>6, <1>7, <2>2
  <2>8. QueueOf(N, W \ {a})
    BY <1>3, <2>3, <2>5, <2>6, <2>7 DEF QueueOf, InQueue
  <2>9. ackq_del(Q, a) = ackq_gc(N)
    BY <1>0, <1>2, <1>5, <1>7, <2>1, <2>4 DEF ackq_del
  <2>. QED  BY <2>8, <2>9, GcOK
<1>8. CASE k # Len(q)
  <2>1. PICK p : p = [q EXCEPT ![k] = Null]
    OBVIOUS
  <2>2. /\ p \in Seq(Addrs \cup {Null}) /\ Len(p) = Len(q) /\ p[k] = Null
        /\ \A i \in 1 .. Len(q) : i # k => p[i] = q[i]
    BY <1>1, <1>6, <2>1
  <2>3. Holes(p) = Holes(q) \cup {k} /\ k \notin Holes(q)
    BY <1>1, <1>6, <2>2 DEF Holes
  <2>4. Cardinality(Holes(p)) = Q.reuse + 1
    <3>1. Cardinality(Holes(q) \cup {k}) = Cardinality(Holes(q)) + 1
      BY <1>4, <2>3, FS_AddElement
    <3>. QED  BY <1>3, <2>3, <3>1
  <2>5. PICK N : N = [queue |-> p, reuse |-> Q.reuse + 1]
    OBVIOUS
  <2>6. N \in Queues /\ N.queue = p /\ N.reuse = Q.reuse + 1
    BY <1>1, <2>2, <2>5 DEF Queues
  <2>7. \A i, j \in 1 .. Len(p) : p[i] = p[j] /\ p[i] # Null => i = j
    BY <1>3, <1>6, <2>2
  <2>8. \A x \in Addrs : x \in W \ {a} <=> \E i \in 1 .. Len(p) : p[i] = x
    <3>1. \A x \in Addrs : x # Null
      BY LogindAssumption
    <3>. QED  BY <1>1, <1>3, <1>6, <2>2, <3>1
  <2>9. QueueOf(N, W \ {a})
    BY <2>4, <2>6, <2>7, <2>8 DEF QueueOf, InQueue
  <2>10. ackq_del(Q, a) = ackq_gc(N)
    BY <1>0, <1>2, <1>5, <1>8, <2>1, <2>5 DEF ackq_del
  <2>. QED  BY <2>9, <2>10, GcOK
<1>. QED  BY <1>7, <1>8

-----------------------------------------------------------------------------
(* g_activity_waiting *)

(* A list with each address of W once and nothing else. *)
ListOf(w, W) ==
  /\ w \in Seq(Addrs)
  /\ \A i, j \in 1 .. Len(w) : w[i] = w[j] => i = j
  /\ \A a \in Addrs : a \in W <=> \E i \in 1 .. Len(w) : w[i] = a

(* activity_waiting_add puts a new connection in front. *)
LEMMA LinkOK ==
  ASSUME NEW w, NEW W, ListOf(w, W), NEW a \in Addrs, a \notin W
  PROVE  ListOf(<<a>> \o w, W \cup {a})
<1>1. w \in Seq(Addrs) /\ Len(w) \in Nat
  BY DEF ListOf
<1>2. PICK p : p = <<a>> \o w
  OBVIOUS
<1>3. /\ p \in Seq(Addrs) /\ Len(p) = Len(w) + 1 /\ p[1] = a
      /\ \A i \in 2 .. Len(p) : p[i] = w[i - 1] /\ i - 1 \in 1 .. Len(w)
  BY <1>1, <1>2
<1>4. \A i \in 1 .. Len(p) : i = 1 \/ i \in 2 .. Len(p)
  BY <1>1, <1>3
<1>5. \A i \in 1 .. Len(w) : w[i] # a
  BY DEF ListOf
<1>6. \A i, j \in 1 .. Len(p) : p[i] = p[j] => i = j
  <2>. SUFFICES ASSUME NEW i \in 1 .. Len(p), NEW j \in 1 .. Len(p), p[i] = p[j] PROVE i = j
    OBVIOUS
  <2>1. CASE i = 1 \/ j = 1
    BY <1>3, <1>4, <1>5, <2>1
  <2>2. CASE i \in 2 .. Len(p) /\ j \in 2 .. Len(p)
    <3>0. \A k, l \in 1 .. Len(w) : w[k] = w[l] => k = l
      BY DEF ListOf
    <3>1. i - 1 = j - 1
      <4>1. w[i - 1] = w[j - 1] /\ i - 1 \in 1 .. Len(w) /\ j - 1 \in 1 .. Len(w)
        BY <1>3, <2>2
      <4>. QED  BY <3>0, <4>1
    <3>. QED  BY <3>1
  <2>. QED  BY <1>4, <2>1, <2>2
<1>7. ASSUME NEW x \in Addrs PROVE x \in W \cup {a} <=> \E i \in 1 .. Len(p) : p[i] = x
  <2>1. CASE x = a
    BY <1>1, <1>3, <2>1
  <2>2. CASE x # a
    <3>1. ASSUME x \in W PROVE \E i \in 1 .. Len(p) : p[i] = x
      <4>1. PICK m \in 1 .. Len(w) : w[m] = x
        BY <3>1 DEF ListOf
      <4>2. m + 1 \in 2 .. Len(p) /\ m + 1 \in 1 .. Len(p) /\ (m + 1) - 1 = m
        BY <1>1, <1>3
      <4>3. p[m + 1] = w[m]
        BY <1>3, <4>2
      <4>. QED  BY <4>1, <4>2, <4>3
    <3>2. ASSUME NEW i \in 1 .. Len(p), p[i] = x PROVE x \in W
      BY <1>3, <1>4, <2>2, <3>2 DEF ListOf
    <3>. QED  BY <2>2, <3>1, <3>2
  <2>. QED  BY <2>1, <2>2
<1>. QED  BY <1>2, <1>3, <1>6, <1>7 DEF ListOf

(* activity_waiting_del takes out this connection and no other. *)
LEMMA UnlinkOK ==
  ASSUME NEW w, NEW W, ListOf(w, W), NEW a \in Addrs, a \in W
  PROVE  ListOf(activity_waiting_del(w, a), W \ {a})
<1>1. PICK n \in Nat : n = Len(w) /\ w \in Seq(Addrs)
  BY DEF ListOf
<1>2. PICK k : k = CHOOSE i \in 1 .. n : w[i] = a
  OBVIOUS
<1>3. k \in 1 .. n /\ w[k] = a
  BY <1>1, <1>2 DEF ListOf
<1>4. PICK p : p = [j \in 1 .. n - 1 |-> IF j < k THEN w[j] ELSE w[j + 1]]
  OBVIOUS
<1>5. activity_waiting_del(w, a) = p
  BY <1>1, <1>2, <1>3, <1>4 DEF activity_waiting_del
<1>6. n - 1 \in Nat /\ \A j \in 1 .. n - 1 : p[j] = w[IF j < k THEN j ELSE j + 1]
  BY <1>3, <1>4
<1>7. p \in Seq(Addrs) /\ Len(p) = n - 1
  <2>1. \A j \in 1 .. n - 1 : (IF j < k THEN w[j] ELSE w[j + 1]) \in Addrs
    BY <1>1, <1>3
  <2>. QED  BY <1>4, <1>6, <2>1
<1>8. \A i, j \in 1 .. n : w[i] = w[j] => i = j
  BY <1>1 DEF ListOf
<1>9. \A j \in 1 .. n - 1 : (IF j < k THEN j ELSE j + 1) \in 1 .. n \ {k}
  BY <1>3
<1>10. \A i, j \in 1 .. Len(p) : p[i] = p[j] => i = j
  <2>. SUFFICES ASSUME NEW i \in 1 .. n - 1, NEW j \in 1 .. n - 1, p[i] = p[j] PROVE i = j
    BY <1>7
  <2>1. (IF i < k THEN i ELSE i + 1) = (IF j < k THEN j ELSE j + 1)
    BY <1>6, <1>8, <1>9
  <2>. QED  BY <1>3, <2>1
<1>11. ASSUME NEW x \in Addrs PROVE x \in W \ {a} <=> \E i \in 1 .. Len(p) : p[i] = x
  <2>1. ASSUME x \in W, x # a PROVE \E i \in 1 .. n - 1 : p[i] = x
    <3>1. PICK m \in 1 .. n : w[m] = x
      BY <1>1, <2>1 DEF ListOf
    <3>2. CASE m < k
      BY <1>3, <1>6, <3>1, <3>2
    <3>3. CASE m > k
      <4>1. m - 1 \in 1 .. n - 1 /\ ~(m - 1 < k) /\ (m - 1) + 1 = m
        BY <1>3, <3>3
      <4>2. p[m - 1] = w[m]
        BY <1>6, <4>1
      <4>. QED  BY <3>1, <4>1, <4>2
    <3>. QED  BY <1>3, <2>1, <3>1, <3>2, <3>3
  <2>2. ASSUME NEW i \in 1 .. n - 1, p[i] = x PROVE x \in W /\ x # a
    <3>1. PICK m \in 1 .. n \ {k} : w[m] = x
      BY <1>6, <1>9, <2>2
    <3>. QED  BY <1>1, <1>3, <1>8, <3>1 DEF ListOf
  <2>. QED  BY <1>7, <2>1, <2>2
<1>. QED  BY <1>5, <1>7, <1>10, <1>11 DEF ListOf

-----------------------------------------------------------------------------
(* g_activity_tarpit *)

Cells == [ip : Ips \cup {Null}, n : Nat]

(* Every address in the table is there once and is found by its probes; a slot
   that was never used counts nothing. *)
Table(S) ==
  /\ S \in [Slots -> Cells]
  /\ \A s \in Slots : S[s].ip # Null => s \in Found(S, S[s].ip)
  /\ \A s, t \in Slots : S[s].ip = S[t].ip /\ S[s].ip # Null => s = t
  /\ \A s \in Slots : S[s].ip = Null => S[s].n = 0

(* Probing stays inside the table. *)
LEMMA ProbeInSlots ==
  ASSUME NEW ip \in Ips, NEW i \in Probes
  PROVE  Probe(ip, i) \in Slots
<1>1. PICK h \in Nat : h = Home[ip] /\ h \in 0 .. ACTIVITY_TARPIT_SLOTS - 1
  BY LogindAssumption DEF Slots
<1>2. PICK m \in Nat : m = ACTIVITY_TARPIT_SLOTS /\ m > 0
  BY <1>1, LogindAssumption
<1>3. (h + i) % m \in 0 .. m - 1
  BY <1>1, <1>2 DEF Probes
<1>. QED  BY <1>1, <1>2, <1>3 DEF Probe, Slots

(* A slot that is found is the one of the address. *)
LEMMA FoundHas ==
  ASSUME NEW S, NEW ip \in Ips, NEW s \in Found(S, ip)
  PROVE  s \in Slots /\ S[s].ip = ip
BY ProbeInSlots DEF Found, Probed

(* The count of an address is that of its slot. *)
LEMMA CountIs ==
  ASSUME NEW S, Table(S), NEW ip \in Ips
  PROVE  /\ CountOf(S, ip) \in Nat
         /\ \A s \in Slots : S[s].ip = ip => Found(S, ip) = {s} /\ CountOf(S, ip) = S[s].n
         /\ (\A s \in Slots : S[s].ip # ip) => Found(S, ip) = {} /\ CountOf(S, ip) = 0
<1>1. ip # Null
  BY LogindAssumption
<1>2. ASSUME NEW s \in Slots, S[s].ip = ip
      PROVE  Found(S, ip) = {s} /\ CountOf(S, ip) = S[s].n /\ S[s].n \in Nat
  <2>1. s \in Found(S, ip)
    BY <1>1, <1>2 DEF Table
  <2>2. \A t \in Found(S, ip) : t = s
    BY <1>1, <1>2, FoundHas DEF Table
  <2>3. Found(S, ip) = {s}
    BY <2>1, <2>2
  <2>4. slot_of(S, ip) = s
    BY <2>3 DEF slot_of
  <2>5. S[s].n \in Nat
    BY DEF Table, Cells
  <2>. QED  BY <2>3, <2>4, <2>5 DEF CountOf
<1>3. ASSUME \A s \in Slots : S[s].ip # ip
      PROVE  Found(S, ip) = {} /\ CountOf(S, ip) = 0
  <2>1. Found(S, ip) = {}
    BY <1>3, FoundHas
  <2>. QED  BY <2>1 DEF CountOf
<1>. QED  BY <1>2, <1>3

(* No slot becomes unused again, so what was found is found. *)
LEMMA FoundStays ==
  ASSUME NEW S, NEW R, \A s \in Slots : S[s].ip # Null => R[s].ip # Null,
         NEW ip \in Ips, NEW s \in Found(S, ip), R[s].ip = ip
  PROVE  s \in Found(R, ip)
<1>1. PICK i \in Probed(S, ip) : s = Probe(ip, i)
  BY DEF Found
<1>2. i \in Probes /\ \A j \in 0 .. i - 1 : S[Probe(ip, j)].ip # Null
  BY <1>1 DEF Probed
<1>3. \A j \in 0 .. i - 1 : j \in Probes
  BY <1>2, LogindAssumption DEF Probes
<1>4. \A j \in 0 .. i - 1 : R[Probe(ip, j)].ip # Null
  BY <1>2, <1>3, ProbeInSlots
<1>5. i \in Probed(R, ip)
  BY <1>2, <1>4 DEF Probed
<1>. QED  BY <1>1, <1>5 DEF Found

(* The slot of an address is written, its own one or one that it takes over. *)
LEMMA SlotWritten ==
  ASSUME NEW S, Table(S), NEW ip \in Ips, NEW s \in Slots, NEW m \in Nat,
         \/ S[s].ip = ip
         \/ /\ Found(S, ip) = {} /\ S[s].n = 0
            /\ \E i \in Probed(S, ip) : s = Probe(ip, i),
         NEW R, R = [S EXCEPT ![s] = [ip |-> ip, n |-> m]]
  PROVE  /\ Table(R) /\ CountOf(R, ip) = m
         /\ \A x \in Ips : x # ip => CountOf(R, x) = CountOf(S, x)
<1>1. /\ R \in [Slots -> Cells] /\ R[s].ip = ip /\ R[s].n = m
      /\ \A t \in Slots : t # s => R[t] = S[t]
  BY DEF Table, Cells
<1>2. ip # Null
  BY LogindAssumption
<1>3. \A t \in Slots : S[t].ip # Null => R[t].ip # Null
  BY <1>1, <1>2
<1>4. \A t \in Slots : S[t].ip = ip => t = s
  BY <1>2, CountIs DEF Table
<1>5. s \in Found(R, ip)
  <2>1. CASE S[s].ip = ip
    <3>1. s \in Found(S, ip)
      BY <1>2, <2>1 DEF Table
    <3>. QED  BY <1>1, <1>3, <3>1, FoundStays
  <2>2. CASE \E i \in Probed(S, ip) : s = Probe(ip, i)
    <3>1. PICK i \in Probes : i \in Probed(S, ip) /\ s = Probe(ip, i)
      BY <2>2 DEF Probed
    <3>2. \A j \in 0 .. i - 1 : j \in Probes
      BY <3>1, LogindAssumption DEF Probes
    <3>3. \A j \in 0 .. i - 1 : S[Probe(ip, j)].ip # Null
      BY <3>1 DEF Probed
    <3>4. i \in Probed(R, ip)
      BY <1>3, <3>1, <3>2, <3>3, ProbeInSlots DEF Probed
    <3>. QED  BY <1>1, <3>1, <3>4 DEF Found
  <2>. QED  BY <2>1, <2>2
<1>6. ASSUME NEW t \in Slots, R[t].ip # Null PROVE t \in Found(R, R[t].ip)
  <2>1. CASE t = s
    BY <1>1, <1>5, <2>1
  <2>2. CASE t # s
    <3>1. R[t] = S[t] /\ S[t].ip \in Ips /\ t \in Found(S, S[t].ip)
      BY <1>1, <1>6, <2>2 DEF Table, Cells
    <3>. QED  BY <1>3, <3>1, FoundStays
  <2>. QED  BY <2>1, <2>2
<1>7. \A t, u \in Slots : R[t].ip = R[u].ip /\ R[t].ip # Null => t = u
  BY <1>1, <1>2, <1>4 DEF Table
<1>8. \A t \in Slots : R[t].ip = Null => R[t].n = 0
  BY <1>1, <1>2 DEF Table
<1>9. Table(R)
  BY <1>1, <1>6, <1>7, <1>8 DEF Table
<1>10. CountOf(R, ip) = m
  BY <1>1, <1>9, CountIs
<1>11. ASSUME NEW x \in Ips, x # ip PROVE CountOf(R, x) = CountOf(S, x)
  <2>1. CASE \E t \in Slots : t # s /\ S[t].ip = x
    <3>1. PICK t \in Slots : t # s /\ S[t].ip = x
      BY <2>1
    <3>2. R[t].ip = x /\ R[t].n = S[t].n
      BY <1>1, <3>1
    <3>3. CountOf(R, x) = R[t].n
      BY <1>9, <3>2, CountIs
    <3>4. CountOf(S, x) = S[t].n
      BY <3>1, CountIs
    <3>. QED  BY <3>2, <3>3, <3>4
  <2>2. CASE \A t \in Slots : t # s => S[t].ip # x
    <3>1. \A t \in Slots : R[t].ip # x
      BY <1>1, <1>11, <2>2
    <3>2. CountOf(R, x) = 0
      BY <1>9, <3>1, CountIs
    <3>3. CASE S[s].ip = x
      <4>1. S[s].n = 0
        BY <1>11, <3>3
      <4>2. CountOf(S, x) = S[s].n
        BY <3>3, CountIs
      <4>. QED  BY <3>2, <4>1, <4>2
    <3>4. CASE S[s].ip # x
      <4>1. \A t \in Slots : S[t].ip # x
        BY <2>2, <3>4
      <4>. QED  BY <3>2, <4>1, CountIs
    <3>. QED  BY <3>3, <3>4
  <2>. QED  BY <2>1, <2>2
<1>. QED  BY <1>9, <1>10, <1>11

Tarpits == [slot : [Slots -> Cells], total : Nat]

(* activity_tarpit_acquire counts one more for the address, and nothing else. *)
LEMMA AcquireOK ==
  ASSUME NEW T \in Tarpits, Table(T.slot), NEW ip \in Ips, slot_of(T.slot, ip) # Null
  PROVE  LET R == Acquire(T, ip)
         IN /\ R \in Tarpits /\ Table(R.slot) /\ R.total = T.total + 1
            /\ CountOf(R.slot, ip) = CountOf(T.slot, ip) + 1
            /\ \A x \in Ips : x # ip => CountOf(R.slot, x) = CountOf(T.slot, x)
<1>1. PICK S : S = T.slot
  OBVIOUS
<1>2. PICK s : s = slot_of(S, ip)
  OBVIOUS
<1>3. /\ s \in Slots
      /\ \/ S[s].ip = ip
         \/ Found(S, ip) = {} /\ S[s].n = 0 /\ \E i \in Probed(S, ip) : s = Probe(ip, i)
  <2>1. CASE Found(S, ip) # {}
    <3>1. s \in Found(S, ip)
      BY <1>2, <2>1 DEF slot_of
    <3>. QED  BY <3>1, FoundHas
  <2>2. CASE Found(S, ip) = {}
    <3>1. Reusable(S, ip) # {} /\ s = Probe(ip, Min(Reusable(S, ip)))
      BY <1>1, <1>2, <2>2 DEF slot_of
    <3>2. Reusable(S, ip) \in SUBSET Nat
      BY DEF Reusable, Probed, Probes
    <3>3. Min(Reusable(S, ip)) \in Reusable(S, ip)
      BY <3>1, <3>2, LeastExists DEF Min
    <3>4. PICK i \in Reusable(S, ip) : s = Probe(ip, i)
      BY <3>1, <3>3
    <3>5. i \in Probed(S, ip) /\ i \in Probes /\ S[s].n = 0
      BY <3>4 DEF Reusable, Probed
    <3>. QED  BY <2>2, <3>4, <3>5, ProbeInSlots
  <2>. QED  BY <2>1, <2>2
<1>4. PICK m \in Nat : m = CountOf(S, ip) + 1
  BY <1>1, CountIs
<1>5. PICK R : R = [S EXCEPT ![s] = [ip |-> ip, n |-> m]]
  OBVIOUS
<1>6. /\ Table(R) /\ CountOf(R, ip) = m
      /\ \A x \in Ips : x # ip => CountOf(R, x) = CountOf(S, x)
  BY <1>1, <1>3, <1>5, SlotWritten
<1>7. Acquire(T, ip) = [slot |-> R, total |-> T.total + 1]
  BY <1>1, <1>2, <1>4, <1>5 DEF Acquire
<1>8. R \in [Slots -> Cells] /\ T.total + 1 \in Nat
  BY <1>6 DEF Table, Tarpits
<1>. QED  BY <1>1, <1>4, <1>6, <1>7, <1>8 DEF Tarpits

(* activity_tarpit_release takes back what was counted for the address. *)
LEMMA ReleaseOK ==
  ASSUME NEW T \in Tarpits, Table(T.slot), NEW c \in Conns, c.tarpit, c.ip \in Ips,
         CountOf(T.slot, c.ip) > 0, T.total > 0
  PROVE  LET R == Release(T, c)
         IN /\ R \in Tarpits /\ Table(R.slot) /\ R.total = T.total - 1
            /\ CountOf(R.slot, c.ip) = CountOf(T.slot, c.ip) - 1
            /\ \A x \in Ips : x # c.ip => CountOf(R.slot, x) = CountOf(T.slot, x)
<1>1. PICK S : S = T.slot
  OBVIOUS
<1>2. PICK s \in Slots : S[s].ip = c.ip
  BY <1>1, CountIs
<1>3. Found(S, c.ip) = {s} /\ CountOf(S, c.ip) = S[s].n /\ S[s].n \in Nat /\ S[s].n > 0
  BY <1>1, <1>2, CountIs
<1>4. PICK m \in Nat : m = S[s].n - 1
  BY <1>3
<1>5. PICK R : R = [S EXCEPT ![s] = [ip |-> c.ip, n |-> m]]
  OBVIOUS
<1>6. /\ Table(R) /\ CountOf(R, c.ip) = m
      /\ \A x \in Ips : x # c.ip => CountOf(R, x) = CountOf(S, x)
  BY <1>1, <1>2, <1>5, SlotWritten
<1>7. R = [t \in Slots |-> IF t \in Found(S, c.ip) /\ S[t].n > 0
                          THEN [S[t] EXCEPT !.n = @ - 1] ELSE S[t]]
  <2>1. S \in [Slots -> Cells]
    BY <1>1 DEF Tarpits
  <2>2. [S[s] EXCEPT !.n = @ - 1] = [ip |-> c.ip, n |-> m]
    <3>1. S[s] \in Cells
      BY <2>1
    <3>. QED  BY <1>2, <1>4, <3>1 DEF Cells
  <2>. QED  BY <1>3, <1>5, <2>1, <2>2
<1>8. Release(T, c) = [slot |-> R, total |-> T.total - 1]
  BY <1>1, <1>7 DEF Release
<1>9. R \in [Slots -> Cells] /\ T.total - 1 \in Nat
  BY <1>6 DEF Table, Tarpits
<1>. QED  BY <1>1, <1>3, <1>4, <1>6, <1>8, <1>9 DEF Tarpits

-----------------------------------------------------------------------------
(* One connection, whatever the others are *)

(* What is true of a connection between two callbacks.  While its client may
   type, no more attempts have failed than count, and there are some left; the
   code is asked for after the right password, and there is none in the buffer
   anywhere else; and mbbsd is handed, or will be
   when the verdict comes, what the account demands. *)
Good(c) ==
  /\ c \in Conns
  /\ c.ev = "client" => /\ c.fails <= c.retry /\ c.retry < LOGINATTEMPTS
                        /\ c.st \in {"INIT", "USERID", "PASSWD", "2FA"}
  /\ c.state = "TERMINAL" /\ c.ev # "end" => c.ip \in Ips
  /\ c.st \in {"PASSWD", "2FA"} => c.user \in Userids
  /\ c.st = "2FA" => "passwd" \in c.known
  /\ c.st \in {"ACTIVITY_WAIT", "WAITACK"} =>
       c.user \in Userids /\ Demands(c.user, c.ip) \subseteq c.known
  /\ c.ev = "verdict" <=> c.st = "ACTIVITY_WAIT"
  /\ c.ev = "verdict" => c.state = "TERMINAL"
  /\ c.state = "TUNNEL" <=> c.st = "WAITACK"
  /\ c.st = "WAITACK" => c.ev = "end"
  /\ c.tarpit => c.ip \in Ips /\ c.ev = "end" /\ c.st = "AUTH"
  /\ c.totp => c.st = "2FA"

(* A connection whose input auth_start looks at. *)
Tried(c) ==
  /\ c \in Conns /\ c.ev = "client" /\ c.state = "TERMINAL" /\ c.ip \in Ips
  /\ c.fails <= c.retry /\ c.retry < LOGINATTEMPTS
  /\ c.st = "AUTH" /\ c.user \in Userids /\ ~c.tarpit
  /\ c.totp => "passwd" \in c.known

(* The values the counters start and go on with. *)
LEMMA FieldTypes ==
  /\ 0 \in 0 .. LOGINATTEMPTS /\ {} \in SUBSET {"passwd", "code"} /\ LOGINATTEMPTS \in Nat
  /\ \A i \in Nat : i < LOGINATTEMPTS => i + 1 \in 0 .. LOGINATTEMPTS
BY LogindAssumption

(* A connection that is told to end is well-formed. *)
LEMMA EndingOK ==
  ASSUME NEW c \in Conns, c.state # "TUNNEL", ~c.tarpit
  PROVE  /\ Good(Ending(c)) /\ Ending(c).st = "AUTH" /\ Ending(c).ev = "end"
         /\ ~Ending(c).tarpit /\ Ending(c).reqid = c.reqid
<1>1. PICK e : e = Ending(c)
  OBVIOUS
<1>2. /\ e \in Conns /\ e.ev = "end" /\ e.st = "AUTH" /\ e.state = c.state
      /\ e.tarpit = c.tarpit /\ e.reqid = c.reqid /\ ~e.totp
  BY <1>1, FieldTypes DEF Ending, Conns
<1>. QED  BY <1>1, <1>2 DEF Good

(* So is one that was just accepted, *)
LEMMA NewConnOK ==
  ASSUME serial \in Nat, serial < MaxConns, NEW ip \in Ips \cup {Null}, NEW kind \in {"TERMINAL", "CONNDATA"},
         ip \in Ips \/ kind = "CONNDATA"
  PROVE  /\ Good(NewConn(ip, kind)) /\ ~NewConn(ip, kind).tarpit /\ NewConn(ip, kind).st = "INIT"
         /\ NewConn(ip, kind).reqid = 0 /\ NewConn(ip, kind).state = kind
<1>1. PICK e : e = NewConn(ip, kind)
  OBVIOUS
<1>2. /\ e \in Conns /\ e.ev = "client" /\ e.st = "INIT" /\ e.state = kind /\ ~e.tarpit
      /\ e.reqid = 0 /\ e.fails = 0 /\ e.retry = 0 /\ e.ip = ip /\ ~e.totp
  BY <1>1, LogindAssumption DEF NewConn, Conns
<1>. QED  BY <1>1, <1>2, LogindAssumption DEF Good

(* one whose password was refused, *)
LEMMA AuthFailOK ==
  ASSUME NEW c \in Conns, c.ev = "client", c.state = "TERMINAL", c.ip \in Ips, ~c.tarpit,
         c.fails <= c.retry, c.retry < LOGINATTEMPTS
  PROVE  /\ Good(auth_fail(c)) /\ auth_fail(c).st \in {"AUTH", "USERID"}
         /\ ~auth_fail(c).tarpit /\ auth_fail(c).reqid = c.reqid
<1>1. PICK r : r = [Retry(c) EXCEPT !.fails = @ + 1]
  OBVIOUS
<1>2. /\ r \in Conns /\ r.ev = "client" /\ r.st = "USERID" /\ r.state = "TERMINAL" /\ ~r.tarpit
      /\ r.reqid = c.reqid /\ r.fails = c.fails + 1 /\ r.retry = c.retry + 1 /\ r.ip = c.ip
      /\ ~r.totp
  <2>1. c.retry \in Nat /\ c.retry + 1 \in 0 .. LOGINATTEMPTS /\ c.fails + 1 \in Nat
    BY FieldTypes DEF Conns
  <2>. QED  BY <1>1, <2>1, FieldTypes DEF Retry, Conns
<1>3. CASE r.retry >= LOGINATTEMPTS
  BY <1>1, <1>2, <1>3, EndingOK DEF auth_fail
<1>4. CASE ~(r.retry >= LOGINATTEMPTS)
  <2>1. auth_fail(c) = r
    BY <1>1, <1>4 DEF auth_fail
  <2>2. r.fails <= r.retry /\ r.retry < LOGINATTEMPTS
    BY <1>2, <1>4, LogindAssumption DEF Conns
  <2>. QED  BY <1>2, <2>1, <2>2 DEF Good
<1>. QED  BY <1>3, <1>4

(* one whose code was refused, *)
LEMMA FailCodeOK ==
  ASSUME NEW c, Tried(c), ByCode(c)
  PROVE  /\ Good(fail_2fa(c)) /\ fail_2fa(c).st \in {"AUTH", "2FA"}
         /\ ~fail_2fa(c).tarpit /\ fail_2fa(c).reqid = c.reqid
<1>. c \in Conns /\ "passwd" \in c.known
  BY DEF Tried, ByCode
<1>1. PICK r : r = [c EXCEPT !.retry = @ + 1, !.fails = @ + 1, !.st = "2FA", !.totp = FALSE]
  OBVIOUS
<1>2. /\ r \in Conns /\ r.ev = "client" /\ r.st = "2FA" /\ r.state = "TERMINAL" /\ ~r.tarpit
      /\ r.reqid = c.reqid /\ r.fails = c.fails + 1 /\ r.retry = c.retry + 1 /\ r.ip = c.ip
      /\ r.user = c.user /\ r.known = c.known /\ ~r.totp
  <2>1. c.retry \in Nat /\ c.retry + 1 \in 0 .. LOGINATTEMPTS /\ c.fails + 1 \in Nat
    BY FieldTypes DEF Conns, Tried
  <2>. QED  BY <1>1, <2>1 DEF Tried, Conns
<1>3. CASE r.retry >= LOGINATTEMPTS
  BY <1>1, <1>2, <1>3, EndingOK DEF fail_2fa
<1>4. CASE ~(r.retry >= LOGINATTEMPTS)
  <2>1. fail_2fa(c) = r
    BY <1>1, <1>4 DEF fail_2fa
  <2>2. r.fails <= r.retry /\ r.retry < LOGINATTEMPTS
    BY <1>2, <1>4, FieldTypes DEF Tried, Conns
  <2>. QED  BY <1>2, <2>1, <2>2 DEF Good, Tried
<1>. QED  BY <1>3, <1>4

(* What auth_user_challenge lets pass has been verified, and it asks for a code
   only after the right password. *)
LEMMA ChallengeOK ==
  ASSUME NEW c, Tried(c), NEW right \in BOOLEAN,
         NEW v, v = Verified(c, right)
  PROVE  /\ v \in Conns /\ v.ev = c.ev /\ v.state = c.state /\ v.ip = c.ip /\ v.fails = c.fails
         /\ v.retry = c.retry /\ v.user = c.user /\ v.tarpit = c.tarpit /\ v.reqid = c.reqid
         /\ v.st = c.st /\ v.id = c.id /\ ~v.totp
         /\ auth_user_challenge(c, right) = "OK" => Demands(c.user, c.ip) \subseteq v.known
         /\ auth_user_challenge(c, right) = "NEED_2FA" => "passwd" \in v.known
         /\ auth_user_challenge(c, right) = "FAIL_2FA" => ByCode(c)
<1>. c \in Conns /\ c.user \in Userids /\ (ByCode(c) <=> c.totp)
  BY DEF Tried, ByCode
<1>1. PICK k \in SUBSET {"passwd", "code"} :
        k = IF right THEN c.known \cup {IF ByCode(c) THEN "code" ELSE "passwd"} ELSE c.known
  <2>1. c.known \in SUBSET {"passwd", "code"}
    BY DEF Conns
  <2>2. (IF ByCode(c) THEN "code" ELSE "passwd") \in {"passwd", "code"}
    OBVIOUS
  <2>. QED  BY <2>1, <2>2
<1>2. v = [c EXCEPT !.totp = FALSE, !.known = k]
  BY <1>1 DEF Verified, Conns
<1>3. /\ v \in Conns /\ v.ev = c.ev /\ v.state = c.state /\ v.ip = c.ip /\ v.fails = c.fails
      /\ v.retry = c.retry /\ v.user = c.user /\ v.tarpit = c.tarpit /\ v.reqid = c.reqid
      /\ v.st = c.st /\ v.id = c.id /\ ~v.totp /\ v.known = k
  BY <1>2 DEF Conns
<1>. PICK kind \in AccountKinds : kind = Account[c.user]
  BY LogindAssumption
<1>4. ASSUME auth_user_challenge(c, right) = "OK" PROVE Demands(c.user, c.ip) \subseteq k
  <2>1. right /\ kind \in {"plain", "2fa", "newip"}
    BY <1>4 DEF auth_user_challenge, AccountKinds
  <2>2. CASE c.totp
    <3>1. k = c.known \cup {"code"} /\ "passwd" \in c.known
      BY <1>1, <2>1, <2>2 DEF Tried
    <3>. QED  BY <3>1 DEF Demands
  <2>3. CASE ~c.totp
    <3>1. k = c.known \cup {"passwd"}
      BY <1>1, <2>1, <2>3
    <3>2. kind # "2fa" /\ ~(kind = "newip" /\ LastHost[c.user] # c.ip)
      BY <1>4, <2>1, <2>3 DEF auth_user_challenge
    <3>. QED  BY <2>1, <3>1, <3>2 DEF Demands
  <2>. QED  BY <2>2, <2>3
<1>5. ASSUME auth_user_challenge(c, right) = "NEED_2FA" PROVE "passwd" \in k
  <2>1. right /\ ~c.totp
    BY <1>5 DEF auth_user_challenge
  <2>. QED  BY <1>1, <2>1
<1>6. ASSUME auth_user_challenge(c, right) = "FAIL_2FA" PROVE ByCode(c)
  BY <1>6 DEF auth_user_challenge
<1>. QED  BY <1>3, <1>4, <1>5, <1>6

(* one that is asked for its code, *)
Prompted(v) == [v EXCEPT !.st = "2FA"]

(* Where auth_start leaves a connection that is not let in yet. *)
LEMMA NeedCodeOK ==
  ASSUME NEW c, Tried(c), NEW right \in BOOLEAN,
         auth_user_challenge(c, right) = "NEED_2FA", NEW v, v = Verified(c, right),
         NEW r, r = Prompted(v)
  PROVE  Good(r) /\ r.st = "2FA" /\ ~r.tarpit /\ r.reqid = c.reqid
<1>2. /\ v \in Conns /\ v.ev = c.ev /\ v.state = c.state /\ v.ip = c.ip /\ v.fails = c.fails
      /\ v.retry = c.retry /\ v.user = c.user /\ v.tarpit = c.tarpit /\ v.reqid = c.reqid
      /\ "passwd" \in v.known /\ ~v.totp
  BY ChallengeOK
<1>3. /\ r \in Conns /\ r.ev = v.ev /\ r.state = v.state /\ r.ip = v.ip /\ r.fails = v.fails
      /\ r.retry = v.retry /\ r.user = v.user /\ r.tarpit = v.tarpit /\ r.reqid = v.reqid
      /\ r.known = v.known /\ r.st = "2FA" /\ ~r.totp
  BY <1>2 DEF Conns, Prompted
<1>. QED  BY <1>2, <1>3 DEF Good, Tried

(* A userid was typed: the password is asked for, or the userid tried at once. *)
Named(c, u) == [c EXCEPT !.user = u, !.st = "PASSWD"]

(* one that has just given its userid, *)
LEMMA UseridOK ==
  ASSUME NEW c, Good(c), c.ev = "client", c.state = "TERMINAL", c.st \in {"INIT", "USERID"},
         NEW u \in Userids,
         NEW r, r = Named(c, u),
         NEW t, t = [r EXCEPT !.st = "AUTH"]
  PROVE  /\ Good(r) /\ r.st = "PASSWD" /\ r.state = "TERMINAL" /\ ~r.tarpit /\ r.reqid = c.reqid
         /\ Tried(t) /\ t.reqid = c.reqid
<1>. c \in Conns /\ c.ip \in Ips
  BY DEF Good
<1>0. ~c.tarpit /\ ~c.totp /\ c.fails <= c.retry /\ c.retry < LOGINATTEMPTS
  BY DEF Good
<1>2. /\ r \in Conns /\ r.ev = c.ev /\ r.state = c.state /\ r.ip = c.ip /\ r.fails = c.fails
      /\ r.retry = c.retry /\ r.user = u /\ r.tarpit = c.tarpit /\ r.reqid = c.reqid
      /\ r.st = "PASSWD" /\ r.totp = c.totp
  BY DEF Named, Conns
<1>3. /\ t \in Conns /\ t.ev = c.ev /\ t.state = c.state /\ t.ip = c.ip /\ t.fails = c.fails
      /\ t.retry = c.retry /\ t.user = u /\ t.tarpit = c.tarpit /\ t.reqid = c.reqid
      /\ t.st = "AUTH" /\ t.totp = c.totp
  BY <1>2 DEF Conns
<1>4. Good(r)
  BY <1>0, <1>2 DEF Good
<1>5. Tried(t)
  BY <1>0, <1>3 DEF Tried
<1>. QED  BY <1>0, <1>2, <1>3, <1>4, <1>5

(* A password or a code was typed. *)
LEMMA TypedOK ==
  ASSUME NEW c, Good(c), c.ev = "client", c.state = "TERMINAL", c.st \in {"PASSWD", "2FA"},
         NEW t, t = [c EXCEPT !.st = "AUTH"]
  PROVE  Tried(t) /\ t.reqid = c.reqid
<1>. c \in Conns /\ c.ip \in Ips
  BY DEF Good
<1>1. ~c.tarpit /\ c.fails <= c.retry /\ c.retry < LOGINATTEMPTS
  BY DEF Good
<1>2. /\ t \in Conns /\ t.ev = c.ev /\ t.state = c.state /\ t.ip = c.ip /\ t.fails = c.fails
      /\ t.retry = c.retry /\ t.user = c.user /\ t.tarpit = c.tarpit /\ t.reqid = c.reqid
      /\ t.st = "AUTH" /\ t.totp = c.totp /\ t.known = c.known
  BY DEF Conns
<1>. QED  BY <1>1, <1>2 DEF Tried, Good

(* Digits of a code are typed or erased. *)
LEMMA DigitsOK ==
  ASSUME NEW c, Good(c), c.ev = "client", c.state = "TERMINAL", c.st = "2FA",
         NEW digits \in BOOLEAN, NEW r, r = [c EXCEPT !.totp = digits]
  PROVE  Good(r) /\ r.st = "2FA" /\ ~r.tarpit /\ r.reqid = c.reqid
<1>. c \in Conns /\ c.ip \in Ips
  BY DEF Good
<1>1. ~c.tarpit
  BY DEF Good
<1>2. /\ r \in Conns /\ r.ev = c.ev /\ r.state = c.state /\ r.ip = c.ip /\ r.fails = c.fails
      /\ r.retry = c.retry /\ r.user = c.user /\ r.tarpit = c.tarpit /\ r.reqid = c.reqid
      /\ r.st = c.st /\ r.known = c.known
  BY DEF Conns
<1>. QED  BY <1>1, <1>2 DEF Good

(* A connection that has earned its login: it may be handed over. *)
Earned(c) ==
  /\ c \in Conns /\ c.state = "TERMINAL" /\ c.ip \in Ips /\ ~c.tarpit
  /\ c.user \in Userids /\ Demands(c.user, c.ip) \subseteq c.known

(* start_service has handed it over. *)
LEMMA HandedOK ==
  ASSUME NEW c, Earned(c),
         NEW r, r = [Ending(c) EXCEPT !.state = "TUNNEL", !.st = "WAITACK",
                                      !.ip = c.ip, !.user = c.user, !.known = c.known]
  PROVE  Good(r) /\ r.st = "WAITACK" /\ ~r.tarpit /\ r.reqid = c.reqid
<1>. c \in Conns
  BY DEF Earned
<1>1. PICK e : e = Ending(c)
  OBVIOUS
<1>2. e \in Conns /\ e.ev = "end" /\ e.tarpit = c.tarpit /\ e.reqid = c.reqid /\ ~e.totp
  BY <1>1, FieldTypes DEF Ending, Conns
<1>3. c.ip \in Ips \cup {Null} /\ c.user \in Userids \cup {Null} /\ c.known \in SUBSET {"passwd", "code"}
  BY DEF Conns
<1>4. /\ r \in Conns /\ r.ev = "end" /\ r.state = "TUNNEL" /\ r.st = "WAITACK" /\ r.ip = c.ip
      /\ r.user = c.user /\ r.known = c.known /\ r.tarpit = c.tarpit /\ r.reqid = c.reqid
      /\ ~r.totp
  BY <1>1, <1>2, <1>3 DEF Conns
<1>. QED  BY <1>4 DEF Good, Earned

(* activity_start_query: it waits for the verdict. *)
Asking(c, n) == [c EXCEPT !.st = "ACTIVITY_WAIT", !.reqid = n, !.ev = "verdict",
                          !.retry = 0, !.fails = 0]

(* and one that waits for activity.svc. *)
LEMMA QueryOK ==
  ASSUME NEW c, Earned(c), ~c.totp, NEW n \in Nat, NEW r, r = Asking(c, n)
  PROVE  Good(r) /\ r.st = "ACTIVITY_WAIT" /\ ~r.tarpit /\ r.reqid = n /\ r.id = c.id
<1>. c \in Conns
  BY DEF Earned
<1>1. /\ r \in Conns /\ r.ev = "verdict" /\ r.state = c.state /\ r.st = "ACTIVITY_WAIT"
      /\ r.ip = c.ip /\ r.user = c.user /\ r.known = c.known /\ r.tarpit = c.tarpit
      /\ r.reqid = n /\ r.id = c.id /\ r.totp = c.totp
  BY FieldTypes DEF Asking, Conns
<1>. QED  BY <1>1 DEF Good, Earned

(* activity_resume: the verdict is there, or its time is over. *)
LEMMA ResumeOK ==
  ASSUME NEW c, Good(c), c.st = "ACTIVITY_WAIT",
         NEW r, r = [c EXCEPT !.st = "AUTH", !.reqid = 0]
  PROVE  Earned(r) /\ r.reqid = 0
<1>. c \in Conns
  BY DEF Good
<1>1. /\ r \in Conns /\ r.state = c.state /\ r.ip = c.ip /\ r.user = c.user
      /\ r.known = c.known /\ r.tarpit = c.tarpit /\ r.reqid = 0
  BY DEF Conns
<1>2. c.state = "TERMINAL" /\ c.ip \in Ips /\ ~c.tarpit
  BY DEF Good
<1>. QED  BY <1>1, <1>2 DEF Good, Earned

(* It is denied and held. *)
LEMMA HoldOK ==
  ASSUME NEW c, Earned(c), NEW r, r = [Ending(c) EXCEPT !.tarpit = TRUE, !.ip = c.ip]
  PROVE  Good(r) /\ r.st = "AUTH" /\ r.tarpit /\ r.ip = c.ip /\ r.reqid = c.reqid
<1>. c \in Conns
  BY DEF Earned
<1>1. PICK e : e = Ending(c)
  OBVIOUS
<1>2. e \in Conns /\ e.ev = "end" /\ e.st = "AUTH" /\ e.state = c.state /\ e.reqid = c.reqid /\ ~e.totp
  BY <1>1, FieldTypes DEF Ending, Conns
<1>3. c.ip \in Ips \cup {Null}
  BY DEF Conns
<1>4. /\ r \in Conns /\ r.ev = "end" /\ r.st = "AUTH" /\ r.state = c.state /\ r.ip = c.ip
      /\ r.tarpit /\ r.reqid = c.reqid /\ ~r.totp
  BY <1>1, <1>2, <1>3 DEF Conns
<1>. QED  BY <1>4 DEF Good, Earned

(* auth_user_challenge lets it in. *)
LEMMA EarnedOK ==
  ASSUME NEW c, Tried(c), NEW right \in BOOLEAN
  PROVE  /\ auth_user_challenge(c, right) = "OK" =>
              /\ Earned(Verified(c, right)) /\ Verified(c, right).reqid = c.reqid
              /\ ~Verified(c, right).totp
         /\ Account[c.user] = "free" => Earned(c)
<1>1. PICK v : v = Verified(c, right)
  OBVIOUS
<1>2. ASSUME auth_user_challenge(c, right) = "OK" PROVE Earned(v) /\ v.reqid = c.reqid /\ ~v.totp
  <2>1. /\ ~v.totp /\ v \in Conns /\ v.state = c.state /\ v.ip = c.ip /\ v.user = c.user
        /\ v.tarpit = c.tarpit /\ v.reqid = c.reqid /\ Demands(c.user, c.ip) \subseteq v.known
    BY <1>1, <1>2, ChallengeOK
  <2>. QED  BY <2>1 DEF Earned, Tried
<1>3. ASSUME Account[c.user] = "free" PROVE Earned(c)
  <2>1. Demands(c.user, c.ip) = {}
    BY <1>3 DEF Demands
  <2>. QED  BY <2>1 DEF Earned, Tried
<1>. QED  BY <1>1, <1>2, <1>3

-----------------------------------------------------------------------------
(* The inductive invariant *)

HeldAt(cn, ip) == {a \in Addrs : cn[a] # Null /\ cn[a].tarpit /\ cn[a].ip = ip}

(* Every connection is as it should be between two callbacks. *)
ConnsOK ==
  /\ conn \in [Addrs -> Conns \cup {Null}]
  /\ \A a \in Addrs : conn[a] # Null => Good(conn[a])

(* Both lists of pointers hold the connections that are in the state for it. *)
QueueOK == QueueOf(ackq, Acks(conn))
ListOK  == ListOf(waiting, Waits(conn))

(* The tarpit counts the connections that are held. *)
CountsHeld(T, cn) ==
  /\ T \in Tarpits /\ Table(T.slot)
  /\ IsFiniteSet(Holds(cn)) /\ T.total = Cardinality(Holds(cn))
  /\ T.total <= ACTIVITY_TARPIT_MAX
  /\ \A ip \in Ips : /\ CountOf(T.slot, ip) = Cardinality(HeldAt(cn, ip))
                      /\ CountOf(T.slot, ip) <= ACTIVITY_TARPIT_PER_IP
TarpitOK == CountsHeld(tarpit, conn)

(* No number of a request is used twice, so that a login which waits under the
   number of an open request is the one that has asked. *)
NumbersOK ==
  /\ serial \in Nat /\ reqid \in Nat
  /\ \A q \in asked : q \in [reqid : Nat, id : 1 .. MaxConns] /\ q.reqid <= reqid
  /\ \A a \in Addrs : conn[a] # Null => conn[a].reqid <= reqid
  /\ \A q \in asked, a \in Addrs :
       conn[a] # Null /\ conn[a].st = "ACTIVITY_WAIT" /\ conn[a].reqid = q.reqid =>
         conn[a].id = q.id

TunnelsOK ==
  /\ tunnels \in Nat /\ g_tunnel \in Tunnels \cup {0} /\ watched \in Tunnels \cup {0}
  /\ open \in SUBSET Tunnels /\ up \in SUBSET Tunnels
  /\ inflight \in [Tunnels -> Seq(Addrs)]
  /\ dropped \in BOOLEAN /\ TunnelWatched

IInv == ConnsOK /\ QueueOK /\ ListOK /\ TarpitOK /\ NumbersOK /\ TunnelsOK

-----------------------------------------------------------------------------
(* One connection changes *)

(* One connection changes: which of them wait for whom after it. *)
LEMMA Moved ==
  ASSUME ConnsOK, NEW a \in Addrs, NEW r, r = Null \/ Good(r), Set(a, r)
  PROVE  /\ ConnsOK' /\ conn'[a] = r /\ \A b \in Addrs : b # a => conn'[b] = conn[b]
         /\ Acks(conn') = IF r # Null /\ r.st = "WAITACK" THEN Acks(conn) \cup {a}
                                                        ELSE Acks(conn) \ {a}
         /\ Waits(conn') = IF r # Null /\ r.st = "ACTIVITY_WAIT" THEN Waits(conn) \cup {a}
                                                              ELSE Waits(conn) \ {a}
<1>1. r \in Conns \cup {Null}
  BY DEF Good
<1>2. /\ conn' \in [Addrs -> Conns \cup {Null}] /\ conn'[a] = r
      /\ \A b \in Addrs : b # a => conn'[b] = conn[b]
  BY <1>1 DEF ConnsOK, Set
<1>3. ConnsOK'
  BY <1>2 DEF ConnsOK
<1>4. Acks(conn') = IF r # Null /\ r.st = "WAITACK" THEN Acks(conn) \cup {a}
                                                  ELSE Acks(conn) \ {a}
  BY <1>2 DEF Acks
<1>5. Waits(conn') = IF r # Null /\ r.st = "ACTIVITY_WAIT" THEN Waits(conn) \cup {a}
                                                        ELSE Waits(conn) \ {a}
  BY <1>2 DEF Waits
<1>. QED  BY <1>2, <1>3, <1>4, <1>5

(* No connection is freed in the step. *)
NoneFreed == \A b \in Addrs : conn'[b] = Null => conn[b] = Null

(* A connection is not NULL. *)
LEMMA GoodIsThere ==
  ASSUME NEW r, Good(r)
  PROVE  r # Null
BY LogindAssumption DEF Good

(* It is not held, neither before nor after. *)
LEMMA TarpitKept ==
  ASSUME ConnsOK, TarpitOK, NEW a \in Addrs, NEW r, r = Null \/ Good(r), Set(a, r),
         conn[a] = Null \/ ~conn[a].tarpit, r = Null \/ ~r.tarpit, tarpit' = tarpit
  PROVE  TarpitOK'
<1>1. conn'[a] = r /\ \A b \in Addrs : b # a => conn'[b] = conn[b]
  BY Moved
<1>2. Holds(conn') = Holds(conn)
  BY <1>1 DEF Holds
<1>3. \A ip : HeldAt(conn', ip) = HeldAt(conn, ip)
  BY <1>1 DEF HeldAt
<1>. QED  BY <1>2, <1>3 DEF TarpitOK, CountsHeld

(* No new query: the numbers of those outstanding stay distinct. *)
LEMMA NumbersKept ==
  ASSUME ConnsOK, NumbersOK, NEW a \in Addrs, NEW r, Set(a, r),
         r = Null \/ (Good(r) /\ r.st # "ACTIVITY_WAIT" /\ r.reqid <= reqid),
         reqid' = reqid, serial' \in Nat, \A q \in asked' : q \in asked
  PROVE  NumbersOK'
<1>1. conn'[a] = r /\ \A b \in Addrs : b # a => conn'[b] = conn[b]
  BY Moved
<1>. QED  BY <1>1 DEF NumbersOK

(* The lists and the tunnels are left alone, and the connection is on none. *)
LEMMA QuietOK ==
  ASSUME IInv, NEW a \in Addrs, conn[a] = Null \/ conn[a].ev = "client",
         NEW r, Good(r), r.st # "WAITACK", r.st # "ACTIVITY_WAIT", ~r.tarpit, r.reqid <= reqid,
         Set(a, r), UNCHANGED <<ackq, waiting, tarpit, svc, tun>>, serial' \in Nat
  PROVE  IInv' /\ NoneFreed
<1>. USE DEF IInv
<1>1. a \notin Acks(conn) /\ a \notin Waits(conn) /\ (conn[a] = Null \/ ~conn[a].tarpit)
  BY DEF ConnsOK, Good, Acks, Waits
<1>2. ConnsOK' /\ Acks(conn') = Acks(conn) /\ Waits(conn') = Waits(conn)
  BY <1>1, Moved
<1>3. QueueOK' /\ ListOK'
  BY <1>2 DEF QueueOK, ListOK
<1>4. TarpitOK'
  BY <1>1, TarpitKept
<1>5. NumbersOK'
  BY NumbersKept DEF svc
<1>6. TunnelsOK'
  BY DEF TunnelsOK, TunnelWatched, tun
<1>7. NoneFreed
  BY Moved, GoodIsThere DEF NoneFreed
<1>. QED  BY <1>2, <1>3, <1>4, <1>5, <1>6, <1>7

(* activity_tarpit_release: one that is held ends. *)
LEMMA ReleasedOK ==
  ASSUME ConnsOK, TarpitOK, NEW a \in Addrs, conn[a] # Null, Set(a, Null),
         tarpit' = Release(tarpit, conn[a])
  PROVE  TarpitOK'
<1>1. CASE ~conn[a].tarpit
  BY <1>1, TarpitKept DEF Release
<1>2. CASE conn[a].tarpit
  <2>1. conn'[a] = Null /\ \A b \in Addrs : b # a => conn'[b] = conn[b]
    BY Moved
  <2>2. PICK c \in Conns : c = conn[a] /\ Good(c) /\ c.ip \in Ips /\ c.tarpit
    BY <1>2 DEF ConnsOK, Good
  <2>3. Holds(conn') = Holds(conn) \ {a} /\ a \in Holds(conn)
    BY <1>2, <2>1 DEF Holds
  <2>4. HeldAt(conn', c.ip) = HeldAt(conn, c.ip) \ {a} /\ a \in HeldAt(conn, c.ip)
    BY <2>1, <2>2 DEF HeldAt
  <2>5. \A x \in Ips : x # c.ip => HeldAt(conn', x) = HeldAt(conn, x)
    BY <2>1, <2>2 DEF HeldAt
  <2>6. /\ IsFiniteSet(Holds(conn)) /\ IsFiniteSet(HeldAt(conn, c.ip))
    <3>1. HeldAt(conn, c.ip) \subseteq Holds(conn)
      BY DEF HeldAt, Holds
    <3>. QED  BY <3>1, FS_Subset DEF TarpitOK, CountsHeld
  <2>7. /\ IsFiniteSet(Holds(conn')) /\ Cardinality(Holds(conn')) = Cardinality(Holds(conn)) - 1
        /\ Cardinality(Holds(conn)) \in Nat /\ Cardinality(Holds(conn)) > 0
    <3>1. /\ IsFiniteSet(Holds(conn) \ {a})
          /\ Cardinality(Holds(conn) \ {a}) = Cardinality(Holds(conn)) - 1
      BY <2>3, <2>6, FS_RemoveElement
    <3>2. Cardinality(Holds(conn)) \in Nat /\ Cardinality(Holds(conn) \ {a}) \in Nat
      BY <2>6, <3>1, FS_CardinalityType
    <3>. QED  BY <2>3, <3>1, <3>2
  <2>8. /\ Cardinality(HeldAt(conn', c.ip)) = Cardinality(HeldAt(conn, c.ip)) - 1
        /\ Cardinality(HeldAt(conn, c.ip)) \in Nat /\ Cardinality(HeldAt(conn, c.ip)) > 0
    <3>1. /\ IsFiniteSet(HeldAt(conn, c.ip) \ {a})
          /\ Cardinality(HeldAt(conn, c.ip) \ {a}) = Cardinality(HeldAt(conn, c.ip)) - 1
      BY <2>4, <2>6, FS_RemoveElement
    <3>2. Cardinality(HeldAt(conn, c.ip)) \in Nat /\ Cardinality(HeldAt(conn, c.ip) \ {a}) \in Nat
      BY <2>6, <3>1, FS_CardinalityType
    <3>. QED  BY <2>4, <3>1, <3>2
  <2>9. /\ tarpit \in Tarpits /\ Table(tarpit.slot) /\ tarpit.total = Cardinality(Holds(conn))
        /\ tarpit.total <= ACTIVITY_TARPIT_MAX
        /\ \A ip \in Ips : /\ CountOf(tarpit.slot, ip) = Cardinality(HeldAt(conn, ip))
                            /\ CountOf(tarpit.slot, ip) <= ACTIVITY_TARPIT_PER_IP
    BY DEF TarpitOK, CountsHeld
  <2>10. /\ tarpit' \in Tarpits /\ Table(tarpit'.slot) /\ tarpit'.total = tarpit.total - 1
         /\ CountOf(tarpit'.slot, c.ip) = CountOf(tarpit.slot, c.ip) - 1
         /\ \A x \in Ips : x # c.ip => CountOf(tarpit'.slot, x) = CountOf(tarpit.slot, x)
    BY <2>2, <2>7, <2>8, <2>9, ReleaseOK
  <2>11. tarpit'.total = Cardinality(Holds(conn')) /\ tarpit'.total <= ACTIVITY_TARPIT_MAX
    BY <2>7, <2>9, <2>10, LogindAssumption
  <2>12. ASSUME NEW x \in Ips
         PROVE  /\ CountOf(tarpit'.slot, x) = Cardinality(HeldAt(conn', x))
                /\ CountOf(tarpit'.slot, x) <= ACTIVITY_TARPIT_PER_IP
    BY <2>2, <2>5, <2>8, <2>9, <2>10, LogindAssumption
  <2>13. \A x \in Ips : /\ CountOf(tarpit'.slot, x) = Cardinality(HeldAt(conn', x))
                        /\ CountOf(tarpit'.slot, x) <= ACTIVITY_TARPIT_PER_IP
    BY <2>12
  <2>. QED  BY <2>7, <2>10, <2>11, <2>13 DEF TarpitOK, CountsHeld
<1>. QED  BY <1>1, <1>2

(* activity_tarpit_acquire: one more is held, within the limits. *)
LEMMA AcquiredOK ==
  ASSUME ConnsOK, TarpitOK, NEW a \in Addrs, conn[a] # Null, ~conn[a].tarpit,
         NEW ip \in Ips, MayHold(ip), tarpit' = Acquire(tarpit, ip),
         NEW r, Good(r), r.tarpit, r.ip = ip, Set(a, r)
  PROVE  TarpitOK'
<1>1. conn'[a] = r /\ \A b \in Addrs : b # a => conn'[b] = conn[b]
  BY Moved
<1>2. r # Null
  BY LogindAssumption DEF Good
<1>3. Holds(conn') = Holds(conn) \cup {a} /\ a \notin Holds(conn)
  BY <1>1, <1>2 DEF Holds
<1>4. HeldAt(conn', ip) = HeldAt(conn, ip) \cup {a} /\ a \notin HeldAt(conn, ip)
  BY <1>1, <1>2 DEF HeldAt
<1>5. \A x \in Ips : x # ip => HeldAt(conn', x) = HeldAt(conn, x)
  BY <1>1, <1>2 DEF HeldAt
<1>6. IsFiniteSet(Holds(conn)) /\ IsFiniteSet(HeldAt(conn, ip))
  <2>1. HeldAt(conn, ip) \subseteq Holds(conn)
    BY DEF HeldAt, Holds
  <2>. QED  BY <2>1, FS_Subset DEF TarpitOK, CountsHeld
<1>7. /\ IsFiniteSet(Holds(conn')) /\ Cardinality(Holds(conn')) = Cardinality(Holds(conn)) + 1
      /\ Cardinality(Holds(conn)) \in Nat
  BY <1>3, <1>6, FS_AddElement, FS_CardinalityType
<1>8. /\ Cardinality(HeldAt(conn', ip)) = Cardinality(HeldAt(conn, ip)) + 1
      /\ Cardinality(HeldAt(conn, ip)) \in Nat
  BY <1>4, <1>6, FS_AddElement, FS_CardinalityType
<1>9. /\ tarpit \in Tarpits /\ Table(tarpit.slot) /\ tarpit.total = Cardinality(Holds(conn))
      /\ tarpit.total < ACTIVITY_TARPIT_MAX
      /\ CountOf(tarpit.slot, ip) < ACTIVITY_TARPIT_PER_IP
      /\ \A x \in Ips : /\ CountOf(tarpit.slot, x) = Cardinality(HeldAt(conn, x))
                         /\ CountOf(tarpit.slot, x) <= ACTIVITY_TARPIT_PER_IP
  BY DEF TarpitOK, CountsHeld, MayHold
<1>10. /\ tarpit' \in Tarpits /\ Table(tarpit'.slot) /\ tarpit'.total = tarpit.total + 1
       /\ CountOf(tarpit'.slot, ip) = CountOf(tarpit.slot, ip) + 1
       /\ \A x \in Ips : x # ip => CountOf(tarpit'.slot, x) = CountOf(tarpit.slot, x)
  BY <1>9, AcquireOK DEF MayHold
<1>11. tarpit'.total = Cardinality(Holds(conn')) /\ tarpit'.total <= ACTIVITY_TARPIT_MAX
  BY <1>7, <1>9, <1>10, LogindAssumption
<1>12. ASSUME NEW x \in Ips
       PROVE  /\ CountOf(tarpit'.slot, x) = Cardinality(HeldAt(conn', x))
              /\ CountOf(tarpit'.slot, x) <= ACTIVITY_TARPIT_PER_IP
  BY <1>5, <1>8, <1>9, <1>10, LogindAssumption
<1>. QED  BY <1>7, <1>10, <1>11, <1>12 DEF TarpitOK, CountsHeld

(* endconn_cb takes a connection off everything that it is on. *)
LEMMA EndconnOK ==
  ASSUME IInv, NEW a \in Addrs, conn[a] # Null, endconn(a), UNCHANGED <<svc, serial>>, TunnelsOK'
  PROVE  IInv'
<1>. USE DEF IInv
<1>1. ConnsOK' /\ Acks(conn') = Acks(conn) \ {a} /\ Waits(conn') = Waits(conn) \ {a}
  BY Moved DEF endconn
<1>2. QueueOK'
  <2>1. CASE conn[a].st = "WAITACK"
    <3>1. a \in Acks(conn) /\ ackq' = ackq_del(ackq, a)
      BY <2>1 DEF Acks, endconn
    <3>. QED  BY <1>1, <3>1, DelOK DEF QueueOK
  <2>2. CASE conn[a].st # "WAITACK"
    <3>1. Acks(conn') = Acks(conn) /\ ackq' = ackq
      BY <1>1, <2>2 DEF Acks, endconn
    <3>. QED  BY <3>1 DEF QueueOK
  <2>. QED  BY <2>1, <2>2
<1>3. ListOK'
  <2>1. CASE conn[a].st = "ACTIVITY_WAIT"
    <3>1. a \in Waits(conn) /\ waiting' = activity_waiting_del(waiting, a)
      BY <2>1 DEF Waits, endconn
    <3>. QED  BY <1>1, <3>1, UnlinkOK DEF ListOK
  <2>2. CASE conn[a].st # "ACTIVITY_WAIT"
    <3>1. Waits(conn') = Waits(conn) /\ waiting' = waiting
      BY <1>1, <2>2 DEF Waits, endconn
    <3>. QED  BY <3>1 DEF ListOK
  <2>. QED  BY <2>1, <2>2
<1>4. TarpitOK'
  BY ReleasedOK DEF endconn
<1>5. NumbersOK'
  <2>1. Set(a, Null) /\ reqid' = reqid /\ asked' = asked /\ serial' \in Nat
    BY DEF endconn, svc, NumbersOK
  <2>. QED  BY <2>1, NumbersKept
<1>. QED  BY <1>1, <1>2, <1>3, <1>4, <1>5

(* auth_finish, from the prompt or after the verdict; the caller sees to the
   list of those that wait. *)
LEMMA FinishOK ==
  ASSUME IInv, NEW a \in Addrs, conn[a] # Null, ~conn[a].tarpit, conn[a].st # "WAITACK",
         NEW c, Earned(c), c.reqid <= reqid,
         auth_finish(a, c), tarpit' = tarpit, reqid' = reqid, serial' = serial,
         \A q \in asked' : q \in asked
  PROVE  /\ ConnsOK' /\ QueueOK' /\ TarpitOK' /\ NumbersOK' /\ TunnelsOK' /\ NoneFreed
         /\ Waits(conn') = Waits(conn) \ {a} /\ \A b \in Addrs : b # a => conn'[b] = conn[b]
<1>. USE DEF IInv
<1>0. a \notin Acks(conn) /\ serial' \in Nat
  BY DEF Acks, NumbersOK
<1>. DEFINE Handed == [Ending(c) EXCEPT !.state = "TUNNEL", !.st = "WAITACK",
                                        !.ip = c.ip, !.user = c.user, !.known = c.known]
<1>1. ASSUME g_tunnel \in up, Set(a, Handed), ackq' = ackq_add(ackq, a),
             inflight' = [inflight EXCEPT ![g_tunnel] = Append(@, a)],
             UNCHANGED <<g_tunnel, watched, open, up, tunnels, dropped>>
      PROVE  /\ ConnsOK' /\ QueueOK' /\ TarpitOK' /\ NumbersOK' /\ TunnelsOK' /\ NoneFreed
             /\ Waits(conn') = Waits(conn) \ {a} /\ \A b \in Addrs : b # a => conn'[b] = conn[b]
  <2>1. PICK r : r = [Ending(c) EXCEPT !.state = "TUNNEL", !.st = "WAITACK",
                                       !.ip = c.ip, !.user = c.user, !.known = c.known]
    OBVIOUS
  <2>2. /\ Set(a, r) /\ ackq' = ackq_add(ackq, a)
        /\ inflight' = [inflight EXCEPT ![g_tunnel] = Append(@, a)]
        /\ UNCHANGED <<g_tunnel, watched, open, up, tunnels, dropped>>
    BY <1>1, <2>1
  <2>3. Good(r) /\ r.st = "WAITACK" /\ ~r.tarpit /\ r.reqid = c.reqid /\ r # Null
    BY <2>1, HandedOK, LogindAssumption DEF Good
  <2>4. /\ ConnsOK' /\ Acks(conn') = Acks(conn) \cup {a} /\ Waits(conn') = Waits(conn) \ {a}
        /\ \A b \in Addrs : b # a => conn'[b] = conn[b]
    BY <2>2, <2>3, Moved
  <2>5. QueueOK'
    BY <1>0, <2>2, <2>4, AddOK DEF QueueOK
  <2>6. TarpitOK'
    BY <2>2, <2>3, TarpitKept
  <2>7. NumbersOK'
    BY <1>0, <2>2, <2>3, NumbersKept
  <2>8. TunnelsOK'
    <3>1. inflight' \in [Tunnels -> Seq(Addrs)]
      BY <1>1, <2>2 DEF TunnelsOK
    <3>. QED  BY <2>2, <3>1 DEF TunnelsOK, TunnelWatched
  <2>9. NoneFreed
    BY <2>2, <2>3, Moved, GoodIsThere DEF NoneFreed
  <2>. QED  BY <2>4, <2>5, <2>6, <2>7, <2>8, <2>9
<1>2. ASSUME Set(a, Ending(c)), g_tunnel' = 0, dropped' = (dropped \/ g_tunnel # 0),
             UNCHANGED <<ackq, watched, open, up, inflight, tunnels>>
      PROVE  /\ ConnsOK' /\ QueueOK' /\ TarpitOK' /\ NumbersOK' /\ TunnelsOK' /\ NoneFreed
             /\ Waits(conn') = Waits(conn) \ {a} /\ \A b \in Addrs : b # a => conn'[b] = conn[b]
  <2>1. PICK r : r = Ending(c)
    OBVIOUS
  <2>2. /\ Set(a, r) /\ g_tunnel' = 0 /\ dropped' = (dropped \/ g_tunnel # 0)
        /\ UNCHANGED <<ackq, watched, open, up, inflight, tunnels>>
    BY <1>2, <2>1
  <2>3. Good(r) /\ r.st = "AUTH" /\ ~r.tarpit /\ r.reqid = c.reqid
    BY <2>1, EndingOK DEF Earned
  <2>4. /\ ConnsOK' /\ Acks(conn') = Acks(conn) /\ Waits(conn') = Waits(conn) \ {a}
        /\ \A b \in Addrs : b # a => conn'[b] = conn[b]
    BY <1>0, <2>2, <2>3, Moved
  <2>5. QueueOK'
    BY <2>2, <2>4 DEF QueueOK
  <2>6. TarpitOK'
    BY <2>2, <2>3, TarpitKept
  <2>7. NumbersOK'
    BY <1>0, <2>2, <2>3, NumbersKept
  <2>8. TunnelsOK'
    <3>1. watched' # g_tunnel' => dropped'
      BY <2>2 DEF TunnelsOK, TunnelWatched
    <3>2. dropped' \in BOOLEAN
      BY <2>2
    <3>. QED  BY <2>2, <3>1, <3>2 DEF TunnelsOK, TunnelWatched
  <2>9. NoneFreed
    BY <2>2, <2>3, Moved, GoodIsThere DEF NoneFreed
  <2>. QED  BY <2>4, <2>5, <2>6, <2>7, <2>8, <2>9
<1>. QED  BY <1>1, <1>2 DEF auth_finish

(* activity_start_query: the number is new. *)
LEMMA StartQueryOK ==
  ASSUME IInv, NEW a \in Addrs, conn[a] # Null, conn[a].ev = "client",
         NEW c, Earned(c), ~c.totp, activity_start_query(a, c), UNCHANGED <<tarpit, serial>>
  PROVE  IInv' /\ NoneFreed
<1>. USE DEF IInv
<1>0. a \notin Acks(conn) /\ a \notin Waits(conn) /\ ~conn[a].tarpit
  BY DEF ConnsOK, Good, Acks, Waits
<1>1. PICK n \in Nat : n = reqid + 1
  BY DEF NumbersOK
<1>2. PICK r : r = Asking(c, n)
  OBVIOUS
<1>3. Good(r) /\ r.st = "ACTIVITY_WAIT" /\ ~r.tarpit /\ r.reqid = n /\ r.id = c.id /\ r # Null
  <2>1. Good(r) /\ r.st = "ACTIVITY_WAIT" /\ ~r.tarpit /\ r.reqid = n /\ r.id = c.id
    BY <1>2, QueryOK
  <2>2. r # Null
    BY <2>1, LogindAssumption DEF Good
  <2>. QED  BY <2>1, <2>2
<1>4. /\ Set(a, r) /\ reqid' = n /\ asked' = asked \cup {[reqid |-> n, id |-> c.id]}
      /\ waiting' = <<a>> \o waiting /\ UNCHANGED <<ackq, tun>>
  BY <1>1, <1>2 DEF activity_start_query, Asking
<1>5. /\ ConnsOK' /\ Acks(conn') = Acks(conn) /\ Waits(conn') = Waits(conn) \cup {a}
      /\ conn'[a] = r /\ \A b \in Addrs : b # a => conn'[b] = conn[b]
  <2>1. /\ ConnsOK' /\ conn'[a] = r /\ \A b \in Addrs : b # a => conn'[b] = conn[b]
        /\ Acks(conn') = Acks(conn) \ {a} /\ Waits(conn') = Waits(conn) \cup {a}
    BY <1>3, <1>4, Moved
  <2>. QED  BY <1>0, <2>1
<1>6. QueueOK'
  BY <1>4, <1>5 DEF QueueOK
<1>7. ListOK'
  BY <1>0, <1>4, <1>5, LinkOK DEF ListOK
<1>8. TarpitOK'
  BY <1>0, <1>3, <1>4, TarpitKept
<1>9. NumbersOK'
  <2>1. PICK p : p = [reqid |-> n, id |-> c.id]
    OBVIOUS
  <2>2. p \in [reqid : Nat, id : 1 .. MaxConns] /\ p.reqid = n /\ p.id = c.id
    BY <1>1, <2>1 DEF Earned, Conns
  <2>3. asked' = asked \cup {p}
    BY <1>4, <2>1
  <2>4. \A q \in asked : q \in [reqid : Nat, id : 1 .. MaxConns] /\ q.reqid \in Nat /\ q.reqid < n
    BY <1>1 DEF NumbersOK
  <2>5. \A b \in Addrs : conn[b] # Null => conn[b].reqid \in Nat /\ conn[b].reqid < n
    BY <1>1 DEF NumbersOK, ConnsOK, Conns
  <2>6. serial' \in Nat /\ reqid' \in Nat
    BY <1>4 DEF NumbersOK
  <2>7. \A q \in asked' : q \in [reqid : Nat, id : 1 .. MaxConns] /\ q.reqid <= reqid'
    BY <1>4, <2>2, <2>3, <2>4
  <2>8. \A b \in Addrs : conn'[b] # Null => conn'[b].reqid <= reqid'
    BY <1>3, <1>4, <1>5, <2>5
  <2>9. ASSUME NEW q \in asked', NEW b \in Addrs, conn'[b] # Null,
               conn'[b].st = "ACTIVITY_WAIT", conn'[b].reqid = q.reqid
        PROVE  conn'[b].id = q.id
    <3>1. CASE q = p
      BY <1>3, <1>5, <2>2, <2>5, <2>9, <3>1
    <3>2. CASE q # p /\ b = a
      BY <1>3, <1>5, <2>3, <2>4, <2>9, <3>2
    <3>3. CASE q # p /\ b # a
      BY <1>5, <2>3, <2>9, <3>3 DEF NumbersOK
    <3>. QED  BY <3>1, <3>2, <3>3
  <2>. QED  BY <2>6, <2>7, <2>8, <2>9 DEF NumbersOK
<1>10. TunnelsOK'
  BY <1>4 DEF TunnelsOK, TunnelWatched, tun
<1>11. NoneFreed
  BY <1>3, <1>5 DEF NoneFreed
<1>. QED  BY <1>5, <1>6, <1>7, <1>8, <1>9, <1>10, <1>11

(* The tunnels are not touched. *)
LEMMA TunnelsKept ==
  ASSUME TunnelsOK, UNCHANGED tun
  PROVE  TunnelsOK'
BY DEF TunnelsOK, TunnelWatched, tun

-----------------------------------------------------------------------------
(* Each callback keeps the invariant *)

(* Admit: turned away, asked about, or handed over. *)
LEMMA AdmitOK ==
  ASSUME IInv, NEW a \in Addrs, conn[a] # Null, conn[a].ev = "client",
         NEW c, Earned(c), c.reqid <= reqid, NEW isfree \in BOOLEAN, isfree \/ ~c.totp,
         Admit(a, c, isfree), UNCHANGED <<tarpit, serial>>
  PROVE  IInv' /\ NoneFreed
<1>0. serial' \in Nat /\ ~conn[a].tarpit /\ conn[a].st # "WAITACK" /\ a \notin Waits(conn)
  BY DEF IInv, NumbersOK, ConnsOK, Good, Waits
<1>1. CASE Set(a, Ending(c)) /\ UNCHANGED <<ackq, waiting, svc, tun>>
  <2>1. PICK r : r = Ending(c)
    OBVIOUS
  <2>2. Good(r) /\ r.st = "AUTH" /\ ~r.tarpit /\ r.reqid = c.reqid
    BY <2>1, EndingOK DEF Earned
  <2>. QED  BY <1>0, <1>1, <2>1, <2>2, QuietOK
<1>2. CASE ~isfree /\ activity_start_query(a, c)
  BY <1>2, StartQueryOK
<1>3. CASE auth_finish(a, c) /\ UNCHANGED <<waiting, svc>>
  <2>1. reqid' = reqid /\ asked' = asked
    BY <1>3 DEF svc
  <2>2. /\ ConnsOK' /\ QueueOK' /\ TarpitOK' /\ NumbersOK' /\ TunnelsOK' /\ NoneFreed
        /\ Waits(conn') = Waits(conn) \ {a}
    BY <1>0, <1>3, <2>1, FinishOK
  <2>3. ListOK'
    BY <1>0, <1>3, <2>2 DEF IInv, ListOK
  <2>. QED  BY <2>2, <2>3 DEF IInv
<1>. QED  BY <1>1, <1>2, <1>3 DEF Admit

(* LOGIN_HANDLE_START_AUTH *)
LEMMA StartAuthOK ==
  ASSUME IInv, NEW a \in Addrs, conn[a] # Null, conn[a].ev = "client",
         NEW c, Tried(c), c.reqid <= reqid, NEW right \in BOOLEAN,
         StartAuth(a, c, right), UNCHANGED <<tarpit, serial>>
  PROVE  IInv' /\ NoneFreed
<1>0. serial' \in Nat /\ c \in Conns /\ c.state # "TUNNEL" /\ ~c.tarpit
  BY DEF IInv, NumbersOK, Tried
<1>1. PICK result : result = auth_user_challenge(c, right)
  OBVIOUS
<1>2. PICK v : v = Verified(c, right)
  OBVIOUS
<1>. DEFINE Quiet == UNCHANGED <<ackq, waiting, svc, tun>>
<1>3. ASSUME Set(a, Ending(c)), Quiet PROVE IInv' /\ NoneFreed
  <2>1. PICK r : r = Ending(c)
    OBVIOUS
  <2>2. Good(r) /\ r.st = "AUTH" /\ ~r.tarpit /\ r.reqid = c.reqid
    BY <1>0, <2>1, EndingOK
  <2>. QED  BY <1>0, <1>3, <2>1, <2>2, QuietOK
<1>4. ASSUME result = "NEED_2FA", Set(a, [v EXCEPT !.st = "2FA"]), Quiet PROVE IInv' /\ NoneFreed
  <2>1. PICK r : r = Prompted(v)
    OBVIOUS
  <2>2. Good(r) /\ r.st = "2FA" /\ ~r.tarpit /\ r.reqid = c.reqid
    BY <1>1, <1>2, <1>4, <2>1, NeedCodeOK
  <2>. QED  BY <1>0, <1>4, <2>1, <2>2, QuietOK DEF Prompted
<1>5. ASSUME result = "FAIL_2FA", Set(a, fail_2fa(c)), Quiet PROVE IInv' /\ NoneFreed
  <2>1. PICK r : r = fail_2fa(c)
    OBVIOUS
  <2>2. ByCode(c)
    BY <1>1, <1>2, <1>5, ChallengeOK
  <2>3. Good(r) /\ r.st \in {"AUTH", "2FA"} /\ ~r.tarpit /\ r.reqid = c.reqid
    BY <2>1, <2>2, FailCodeOK
  <2>. QED  BY <1>0, <1>5, <2>1, <2>3, QuietOK
<1>6. ASSUME Set(a, auth_fail(c)), Quiet PROVE IInv' /\ NoneFreed
  <2>1. PICK r : r = auth_fail(c)
    OBVIOUS
  <2>2. Good(r) /\ r.st \in {"AUTH", "USERID"} /\ ~r.tarpit /\ r.reqid = c.reqid
    BY <2>1, AuthFailOK DEF Tried
  <2>. QED  BY <1>0, <1>6, <2>1, <2>2, QuietOK
<1>7. ASSUME Account[c.user] = "free", Admit(a, c, TRUE) PROVE IInv' /\ NoneFreed
  BY <1>7, EarnedOK, AdmitOK
<1>8. ASSUME result = "OK", Admit(a, v, FALSE) PROVE IInv' /\ NoneFreed
  <2>1. Earned(v) /\ v.reqid = c.reqid /\ ~v.totp
    BY <1>1, <1>2, <1>8, EarnedOK
  <2>. QED  BY <1>8, <2>1, AdmitOK
<1>. QED
  BY <1>1, <1>2, <1>3, <1>4, <1>5, <1>6, <1>7, <1>8 DEF StartAuth, Banned, auth_start

LEMMA EnterUseridOK ==
  ASSUME IInv, NEW a \in Addrs, NEW u \in Userids, EnterUserid(a, u)
  PROVE  IInv' /\ NoneFreed
<1>1. PICK c : c = conn[a]
  OBVIOUS
<1>2. PICK r : r = Named(c, u)
  OBVIOUS
<1>3. /\ conn[a] # Null /\ Good(c) /\ c.ev = "client" /\ c.state = "TERMINAL"
      /\ c.st \in {"INIT", "USERID"} /\ c.reqid <= reqid /\ serial' \in Nat
      /\ UNCHANGED <<tarpit, serial>>
  BY <1>1 DEF EnterUserid, Typing, Live, IInv, ConnsOK, NumbersOK
<1>4. PICK t : t = [r EXCEPT !.st = "AUTH"]
  OBVIOUS
<1>5. /\ Good(r) /\ r.st = "PASSWD" /\ r.state = "TERMINAL" /\ ~r.tarpit /\ r.reqid = c.reqid
      /\ Tried(t) /\ t.reqid = c.reqid
  BY <1>2, <1>3, <1>4, UseridOK
<1>6. \/ Banned(a, r)
      \/ Set(a, r) /\ UNCHANGED <<ackq, waiting, svc, tun>>
      \/ StartAuth(a, t, FALSE)
  BY <1>1, <1>2, <1>4 DEF EnterUserid, Named
<1>7. CASE Banned(a, r)
  <2>1. PICK e : e = Ending(r)
    OBVIOUS
  <2>2. Good(e) /\ e.st = "AUTH" /\ ~e.tarpit /\ e.reqid = c.reqid
    BY <1>5, <2>1, EndingOK DEF Good
  <2>3. Set(a, e) /\ UNCHANGED <<ackq, waiting, svc, tun>>
    BY <1>7, <2>1 DEF Banned
  <2>. QED  BY <1>1, <1>3, <2>2, <2>3, QuietOK
<1>8. CASE Set(a, r) /\ UNCHANGED <<ackq, waiting, svc, tun>>
  BY <1>1, <1>3, <1>5, <1>8, QuietOK
<1>9. CASE StartAuth(a, t, FALSE)
  BY <1>1, <1>3, <1>5, <1>9, StartAuthOK
<1>. QED  BY <1>6, <1>7, <1>8, <1>9

LEMMA EnterPasswdOK ==
  ASSUME IInv, NEW a \in Addrs, NEW right \in BOOLEAN, EnterPasswd(a, right)
  PROVE  IInv' /\ NoneFreed
<1>1. PICK c : c = conn[a]
  OBVIOUS
<1>2. /\ conn[a] # Null /\ Good(c) /\ c.ev = "client" /\ c.state = "TERMINAL" /\ c.st = "PASSWD"
      /\ c.reqid <= reqid /\ UNCHANGED <<tarpit, serial>>
  BY <1>1 DEF EnterPasswd, Typing, Live, IInv, ConnsOK, NumbersOK
<1>3. PICK t : t = [c EXCEPT !.st = "AUTH"]
  OBVIOUS
<1>4. Tried(t) /\ t.reqid = c.reqid
  BY <1>2, <1>3, TypedOK
<1>5. StartAuth(a, t, right)
  BY <1>1, <1>3 DEF EnterPasswd
<1>. QED  BY <1>1, <1>2, <1>4, <1>5, StartAuthOK

LEMMA TypeCodeOK ==
  ASSUME IInv, NEW a \in Addrs, TypeCode(a)
  PROVE  IInv'
<1>1. PICK c : c = conn[a]
  OBVIOUS
<1>2. /\ conn[a] # Null /\ Good(c) /\ c.ev = "client" /\ c.state = "TERMINAL" /\ c.st = "2FA"
      /\ c.reqid <= reqid /\ serial' \in Nat
  BY <1>1 DEF TypeCode, Typing, Live, IInv, ConnsOK, NumbersOK
<1>3. PICK digits \in BOOLEAN : Set(a, [c EXCEPT !.totp = digits])
  BY <1>1 DEF TypeCode
<1>0. PICK r : r = [c EXCEPT !.totp = digits]
  OBVIOUS
<1>4. Good(r) /\ r.st = "2FA" /\ ~r.tarpit /\ r.reqid = c.reqid
  BY <1>0, <1>2, DigitsOK
<1>5. Set(a, r) /\ UNCHANGED <<ackq, waiting, tarpit, svc, tun>>
  BY <1>0, <1>3 DEF TypeCode
<1>. QED  BY <1>1, <1>2, <1>4, <1>5, QuietOK

LEMMA EnterCodeOK ==
  ASSUME IInv, NEW a \in Addrs, NEW right \in BOOLEAN, EnterCode(a, right)
  PROVE  IInv' /\ NoneFreed
<1>1. PICK c : c = conn[a]
  OBVIOUS
<1>2. /\ conn[a] # Null /\ Good(c) /\ c.ev = "client" /\ c.state = "TERMINAL" /\ c.st = "2FA"
      /\ c.reqid <= reqid /\ UNCHANGED <<tarpit, serial>>
  BY <1>1 DEF EnterCode, Typing, Live, IInv, ConnsOK, NumbersOK
<1>3. PICK t : t = [c EXCEPT !.st = "AUTH"]
  OBVIOUS
<1>4. Tried(t) /\ t.reqid = c.reqid
  BY <1>2, <1>3, TypedOK
<1>5. StartAuth(a, t, right)
  BY <1>1, <1>3 DEF EnterCode
<1>. QED  BY <1>1, <1>2, <1>4, <1>5, StartAuthOK

LEMMA CancelCodeOK ==
  ASSUME IInv, NEW a \in Addrs, CancelCode(a)
  PROVE  IInv'
<1>1. PICK c : c = conn[a]
  OBVIOUS
<1>2. /\ conn[a] # Null /\ Good(c) /\ c.ev = "client" /\ c.state = "TERMINAL" /\ c.st = "2FA"
      /\ c.reqid <= reqid /\ serial' \in Nat
  BY <1>1 DEF CancelCode, Typing, Live, IInv, ConnsOK, NumbersOK
<1>3. PICK r : r = auth_fail(c)
  OBVIOUS
<1>4. Good(r) /\ r.st \in {"AUTH", "USERID"} /\ ~r.tarpit /\ r.reqid = c.reqid
  <2>1. /\ c \in Conns /\ c.ip \in Ips /\ ~c.tarpit
        /\ c.fails <= c.retry /\ c.retry < LOGINATTEMPTS
    BY <1>2 DEF Good
  <2>. QED  BY <1>2, <1>3, <2>1, AuthFailOK
<1>5. Set(a, r) /\ UNCHANGED <<ackq, waiting, tarpit, svc, tun>>
  BY <1>1, <1>3 DEF CancelCode
<1>. QED  BY <1>1, <1>2, <1>4, <1>5, QuietOK

LEMMA AcceptOK ==
  ASSUME IInv, NEW a \in Addrs, Accept(a)
  PROVE  IInv'
<1>1. /\ serial \in Nat /\ serial < MaxConns /\ conn[a] = Null /\ serial' \in Nat
      /\ UNCHANGED <<ackq, waiting, tarpit, svc, tun>> /\ 0 <= reqid
  BY DEF Accept, Live, IInv, NumbersOK
<1>2. PICK r : /\ Set(a, r) /\ Good(r) /\ ~r.tarpit /\ r.st \in {"INIT", "AUTH"} /\ r.reqid = 0
  <2>1. CASE Set(a, NewConn(Null, "CONNDATA"))
    BY <1>1, <2>1, NewConnOK
  <2>2. ASSUME NEW ip \in Ips, NEW r \in Activated(NewConn(ip, "TERMINAL")), Set(a, r)
        PROVE  Good(r) /\ ~r.tarpit /\ r.st \in {"INIT", "AUTH"} /\ r.reqid = 0
    <3>1. PICK n : n = NewConn(ip, "TERMINAL")
      OBVIOUS
    <3>2. Good(n) /\ ~n.tarpit /\ n.st = "INIT" /\ n.reqid = 0 /\ n.state = "TERMINAL"
      BY <1>1, <3>1, NewConnOK
    <3>3. r = n \/ r = Ending(n)
      BY <2>2, <3>1 DEF Activated
    <3>. QED  BY <3>2, <3>3, EndingOK DEF Good
  <2>. QED  BY <2>1, <2>2 DEF Accept
<1>. QED  BY <1>1, <1>2, QuietOK

(* The record of the proxy has come. *)
LEMMA ConnDataOK ==
  ASSUME IInv, NEW a \in Addrs, ConnData(a)
  PROVE  IInv'
<1>1. PICK c : c = conn[a]
  OBVIOUS
<1>2. /\ conn[a] # Null /\ Good(c) /\ c.ev = "client" /\ c.state = "CONNDATA"
      /\ c.reqid <= reqid /\ serial' \in Nat /\ UNCHANGED <<svc, tun, serial>>
  BY <1>1 DEF ConnData, Live, IInv, ConnsOK, NumbersOK
<1>3. CASE endconn(a)
  BY <1>1, <1>2, <1>3, EndconnOK, TunnelsKept DEF IInv
<1>4. ASSUME NEW ip \in Ips, NEW r \in Activated([c EXCEPT !.ip = ip, !.state = "TERMINAL"]),
             Set(a, r), UNCHANGED <<ackq, waiting, tarpit>>
      PROVE  IInv'
  <2>1. PICK n : n = [c EXCEPT !.ip = ip, !.state = "TERMINAL"]
    OBVIOUS
  <2>2. c \in Conns /\ c.st \in {"INIT", "USERID", "PASSWD", "2FA"} /\ ~c.tarpit
    BY <1>2 DEF Good
  <2>3. /\ n \in Conns /\ n.ev = c.ev /\ n.state = "TERMINAL" /\ n.ip = ip /\ n.fails = c.fails
        /\ n.retry = c.retry /\ n.user = c.user /\ n.tarpit = c.tarpit /\ n.reqid = c.reqid
        /\ n.known = c.known /\ n.st = c.st /\ n.totp = c.totp
    BY <2>1, <2>2 DEF Conns
  <2>4. Good(n)
    BY <1>2, <2>2, <2>3 DEF Good
  <2>5. r = n \/ r = Ending(n)
    BY <1>4, <2>1 DEF Activated
  <2>6. /\ Good(r) /\ ~r.tarpit /\ r.reqid = c.reqid /\ r.st # "WAITACK"
        /\ r.st # "ACTIVITY_WAIT"
    BY <2>2, <2>3, <2>4, <2>5, EndingOK
  <2>. QED  BY <1>1, <1>2, <1>4, <2>6, QuietOK
<1>. QED  BY <1>1, <1>3, <1>4 DEF ConnData

LEMMA LostOK ==
  ASSUME IInv, NEW a \in Addrs, Lost(a)
  PROVE  IInv'
BY EndconnOK, TunnelsKept DEF Lost, Live, IInv

(* activity_resume, for a verdict and for a timeout. *)
LEMMA ActivityResumeOK ==
  ASSUME IInv, NEW a \in Addrs, conn[a] # Null, conn[a].st = "ACTIVITY_WAIT",
         NEW deny \in BOOLEAN, activity_resume(a, deny),
         reqid' = reqid, serial' = serial, \A q \in asked' : q \in asked
  PROVE  IInv' /\ NoneFreed /\ \A b \in Addrs : b # a => conn'[b] = conn[b]
<1>1. PICK c : c = [conn[a] EXCEPT !.st = "AUTH", !.reqid = 0]
  OBVIOUS
<1>2. /\ Good(conn[a]) /\ 0 <= reqid /\ serial' \in Nat /\ ~conn[a].tarpit
      /\ a \in Waits(conn) /\ a \notin Acks(conn)
  BY DEF IInv, ConnsOK, NumbersOK, Good, Waits, Acks
<1>3. Earned(c) /\ c.reqid = 0
  BY <1>1, <1>2, ResumeOK
<1>4. waiting' = activity_waiting_del(waiting, a)
  BY DEF activity_resume
<1>5. ASSUME Waits(conn') = Waits(conn) \ {a} PROVE ListOK'
  BY <1>2, <1>4, <1>5, UnlinkOK DEF IInv, ListOK
<1>6. CASE auth_finish(a, c) /\ UNCHANGED tarpit
  <2>1. /\ ConnsOK' /\ QueueOK' /\ TarpitOK' /\ NumbersOK' /\ TunnelsOK' /\ NoneFreed
        /\ Waits(conn') = Waits(conn) \ {a} /\ \A b \in Addrs : b # a => conn'[b] = conn[b]
    BY <1>2, <1>3, <1>6, FinishOK
  <2>. QED  BY <1>5, <2>1 DEF IInv
<1>7. ASSUME NEW hold \in BOOLEAN, Hold(a, c, hold), UNCHANGED <<ackq, tun>>
      PROVE  IInv' /\ NoneFreed /\ \A b \in Addrs : b # a => conn'[b] = conn[b]
  <2>1. PICK r : /\ Set(a, r) /\ Good(r) /\ r.st = "AUTH" /\ r.reqid = 0 /\ TarpitOK'
    <3>1. CASE hold /\ MayHold(c.ip)
      <4>1. PICK r : r = [Ending(c) EXCEPT !.tarpit = TRUE, !.ip = c.ip]
        OBVIOUS
      <4>2. Good(r) /\ r.st = "AUTH" /\ r.tarpit /\ r.ip = c.ip /\ r.reqid = 0
        BY <1>3, <4>1, HoldOK
      <4>3. tarpit' = Acquire(tarpit, c.ip) /\ Set(a, r)
        BY <1>7, <3>1, <4>1 DEF Hold
      <4>4. TarpitOK'
        BY <1>2, <1>3, <3>1, <4>2, <4>3, AcquiredOK DEF IInv, Earned
      <4>. QED  BY <4>2, <4>3, <4>4
    <3>2. CASE ~(hold /\ MayHold(c.ip))
      <4>1. PICK r : r = Ending(c)
        OBVIOUS
      <4>2. Good(r) /\ r.st = "AUTH" /\ ~r.tarpit /\ r.reqid = 0
        BY <1>3, <4>1, EndingOK DEF Earned
      <4>3. tarpit' = tarpit /\ Set(a, r)
        BY <1>7, <3>2, <4>1 DEF Hold
      <4>4. TarpitOK'
        BY <1>2, <4>2, <4>3, TarpitKept DEF IInv
      <4>. QED  BY <4>2, <4>3, <4>4
    <3>. QED  BY <3>1, <3>2
  <2>2. /\ ConnsOK' /\ Acks(conn') = Acks(conn) \ {a} /\ Waits(conn') = Waits(conn) \ {a}
        /\ \A b \in Addrs : b # a => conn'[b] = conn[b]
    BY <2>1, Moved DEF IInv
  <2>3. QueueOK'
    <3>1. Acks(conn') = Acks(conn)
      BY <1>2, <2>2
    <3>. QED  BY <1>7, <3>1 DEF IInv, QueueOK
  <2>4. NumbersOK'
    BY <1>2, <2>1, NumbersKept DEF IInv
  <2>5. TunnelsOK'
    BY <1>7, TunnelsKept DEF IInv
  <2>6. NoneFreed
    BY <2>1, Moved, GoodIsThere DEF NoneFreed, IInv
  <2>. QED  BY <1>5, <2>1, <2>2, <2>3, <2>4, <2>5, <2>6 DEF IInv
<1>. QED  BY <1>1, <1>6, <1>7 DEF activity_resume

(* A verdict finds the login that has asked, if it still waits. *)
LEMMA AskerIs ==
  ASSUME IInv, NEW q \in asked, NEW a \in Asker(q)
  PROVE  a \in Addrs /\ conn[a] # Null /\ conn[a].st = "ACTIVITY_WAIT" /\ conn[a].id = q.id
<1>1. a \in Addrs /\ conn[a] # Null /\ conn[a].reqid = q.reqid
  BY DEF Asker, Live
<1>2. \E i \in 1 .. Len(waiting) : waiting[i] = a
  BY DEF Asker
<1>3. a \in Waits(conn)
  BY <1>1, <1>2 DEF IInv, ListOK, ListOf
<1>. QED  BY <1>1, <1>3 DEF Waits, IInv, NumbersOK

(* A verdict changes at most the connection that asked. *)
LEMMA VerdictOK ==
  ASSUME IInv, NEW q \in asked, NEW deny \in BOOLEAN, Verdict(q, deny)
  PROVE  /\ IInv' /\ NoneFreed /\ asked' = asked \ {q}
         /\ \A b \in Addrs : conn'[b] # conn[b] => b \in Asker(q)
<1>1. asked' = asked \ {q} /\ reqid' = reqid /\ serial' = serial
  BY DEF Verdict
<1>2. CASE UNCHANGED <<conn, ackq, waiting, tarpit, tun>>
  <2>1. ConnsOK' /\ QueueOK' /\ ListOK' /\ TarpitOK'
    BY <1>2 DEF IInv, ConnsOK, QueueOK, ListOK, TarpitOK
  <2>2. NumbersOK'
    BY <1>1, <1>2 DEF IInv, NumbersOK
  <2>. QED  BY <1>1, <1>2, <2>1, <2>2, TunnelsKept DEF IInv, NoneFreed
<1>3. ASSUME NEW a \in Asker(q), activity_resume(a, deny)
      PROVE  IInv' /\ NoneFreed /\ \A b \in Addrs : conn'[b] # conn[b] => b \in Asker(q)
  <2>1. a \in Addrs /\ conn[a] # Null /\ conn[a].st = "ACTIVITY_WAIT"
    BY AskerIs
  <2>. QED  BY <1>1, <1>3, <2>1, ActivityResumeOK
<1>. QED  BY <1>1, <1>2, <1>3 DEF Verdict

(* A timeout frees a connection and leaves what is in flight to its receiver. *)
LEMMA TimeoutOK ==
  ASSUME IInv, NEW a \in Addrs, Timeout(a)
  PROVE  IInv' /\ (NoneFreed \/ inflight' = inflight)
<1>1. conn[a] # Null /\ UNCHANGED <<svc, serial>> /\ Good(conn[a])
  BY DEF Timeout, Live, IInv, ConnsOK
<1>2. CASE endconn(a) /\ UNCHANGED tun
  BY <1>1, <1>2, EndconnOK, TunnelsKept DEF IInv, tun
<1>3. CASE conn[a].ev = "verdict" /\ activity_resume(a, FALSE)
  <2>1. conn[a].st = "ACTIVITY_WAIT"
    BY <1>1, <1>3 DEF Good
  <2>2. reqid' = reqid /\ asked' = asked /\ serial' = serial
    BY <1>1 DEF svc
  <2>. QED  BY <1>1, <1>3, <2>1, <2>2, ActivityResumeOK
<1>. QED  BY <1>2, <1>3 DEF Timeout

-----------------------------------------------------------------------------
(* The tunnels *)

(* A step of the tunnels alone. *)
LEMMA ElsewhereKept ==
  ASSUME IInv, UNCHANGED <<conn, ackq, waiting, tarpit, svc, serial>>, TunnelsOK'
  PROVE  IInv'
<1>1. ConnsOK' /\ QueueOK' /\ ListOK' /\ TarpitOK'
  BY DEF IInv, ConnsOK, QueueOK, ListOK, TarpitOK
<1>2. NumbersOK'
  BY DEF IInv, NumbersOK, svc
<1>. QED  BY <1>1, <1>2 DEF IInv

LEMMA NewTunnelOK ==
  ASSUME IInv, NewTunnel
  PROVE  IInv'
<1>1. PICK t : t = tunnels + 1
  OBVIOUS
<1>2. t \in Tunnels /\ t \in Nat /\ tunnels' = t /\ g_tunnel' = t
  BY <1>1, LogindAssumption DEF NewTunnel, IInv, TunnelsOK, Tunnels
<1>3. inflight' \in [Tunnels -> Seq(Addrs)]
  BY DEF NewTunnel, IInv, TunnelsOK
<1>4. open' \in SUBSET Tunnels /\ up' \in SUBSET Tunnels
  BY <1>1, <1>2 DEF NewTunnel, IInv, TunnelsOK
<1>5. watched' \in {0, t} /\ dropped' = dropped
  BY <1>1 DEF NewTunnel
<1>6. ASSUME ~dropped PROVE watched' = t
  <2>1. watched = g_tunnel
    BY <1>6 DEF IInv, TunnelsOK, TunnelWatched
  <2>2. StopWatching = 0
    BY <2>1 DEF StopWatching
  <2>. QED  BY <1>1, <2>2 DEF NewTunnel
<1>7. TunnelsOK'
  BY <1>2, <1>3, <1>4, <1>5, <1>6 DEF IInv, TunnelsOK, TunnelWatched
<1>. QED  BY <1>7, ElsewhereKept DEF NewTunnel

LEMMA MbbsdDiesOK ==
  ASSUME IInv, NEW t \in Tunnels, MbbsdDies(t)
  PROVE  IInv'
<1>1. inflight' \in [Tunnels -> Seq(Addrs)]
  <2>1. PICK s : s = inflight[t] /\ s \in Seq(Addrs)
    BY DEF IInv, TunnelsOK
  <2>2. PICK n \in 0 .. Len(s) : inflight' = [inflight EXCEPT ![t] = SubSeq(s, 1, n)]
    BY <2>1 DEF MbbsdDies
  <2>3. SubSeq(s, 1, n) \in Seq(Addrs)
    BY <2>1, <2>2
  <2>. QED  BY <2>2, <2>3 DEF IInv, TunnelsOK
<1>2. up' \in SUBSET Tunnels
  BY DEF MbbsdDies, IInv, TunnelsOK
<1>3. TunnelsOK'
  BY <1>1, <1>2 DEF MbbsdDies, IInv, TunnelsOK, TunnelWatched
<1>. QED  BY <1>3, ElsewhereKept DEF MbbsdDies

LEMMA TunnelEofOK ==
  ASSUME IInv, TunnelEof
  PROVE  IInv'
<1>1. TunnelsOK'
  BY DEF TunnelEof, IInv, TunnelsOK, TunnelWatched
<1>. QED  BY <1>1, ElsewhereKept DEF TunnelEof

(* An acknowledgement ends a connection that waits for one, or none. *)
LEMMA AckOK ==
  ASSUME IInv, Ack
  PROVE  /\ IInv'
         /\ \A b \in Addrs : conn'[b] # conn[b] => conn[b] # Null /\ conn[b].state = "TUNNEL"
<1>1. PICK t \in Tunnels : t = watched /\ t \in open
  BY DEF Ack, IInv, TunnelsOK
<1>2. PICK s \in Seq(Addrs) : s = inflight[t] /\ s # <<>>
  BY <1>1 DEF Ack, IInv, TunnelsOK
<1>3. PICK a \in Addrs : a = Head(s) /\ Tail(s) \in Seq(Addrs)
  BY <1>2
<1>4. /\ inflight' = [inflight EXCEPT ![t] = Tail(s)]
      /\ UNCHANGED <<waiting, svc, serial, g_tunnel, watched, open, up, tunnels, dropped>>
  BY <1>1, <1>2 DEF Ack
<1>5. TunnelsOK'
  BY <1>3, <1>4 DEF IInv, TunnelsOK, TunnelWatched
<1>6. CASE UNCHANGED <<conn, ackq, tarpit>>
  BY <1>4, <1>5, <1>6, ElsewhereKept
<1>7. CASE /\ InQueue(ackq, a) /\ ackq' = ackq_del(ackq, a)
           /\ tarpit' = Release(tarpit, conn[a]) /\ Set(a, Null)
  <2>1. a \in Acks(conn)
    BY <1>7 DEF IInv, QueueOK, QueueOf
  <2>2. conn[a] # Null /\ conn[a].st = "WAITACK"
    BY <2>1 DEF Acks
  <2>3. conn[a].state = "TUNNEL"
    BY <2>2 DEF IInv, ConnsOK, Good
  <2>4. endconn(a)
    BY <1>4, <1>7, <2>2 DEF endconn
  <2>5. IInv'
    BY <1>4, <1>5, <2>2, <2>4, EndconnOK
  <2>6. \A b \in Addrs : b # a => conn'[b] = conn[b]
    BY <1>7, Moved DEF IInv
  <2>. QED  BY <2>2, <2>3, <2>5, <2>6
<1>. QED  BY <1>1, <1>2, <1>3, <1>6, <1>7 DEF Ack

-----------------------------------------------------------------------------
(* The theorems *)

LEMMA InitOK ==
  ASSUME Init
  PROVE  IInv
<1>1. conn \in [Addrs -> Conns \cup {Null}] /\ \A a \in Addrs : conn[a] = Null
  BY DEF Init
<1>2. Acks(conn) = {} /\ Waits(conn) = {} /\ Holds(conn) = {} /\ \A ip : HeldAt(conn, ip) = {}
  BY <1>1 DEF Acks, Waits, Holds, HeldAt
<1>3. ConnsOK
  BY <1>1 DEF ConnsOK
<1>4. QueueOK
  <2>1. PICK q : q = ackq.queue
    OBVIOUS
  <2>2. q = <<>> /\ ackq = [queue |-> q, reuse |-> 0] /\ ackq.reuse = 0
    BY <2>1 DEF Init
  <2>3. Holes(q) = {} /\ q \in Seq(Addrs \cup {Null}) /\ Len(q) = 0
    BY <2>2 DEF Holes
  <2>4. Cardinality(Holes(q)) = 0
    BY <2>3, FS_EmptySet
  <2>5. ackq \in Queues
    BY <2>2, <2>3 DEF Queues
  <2>6. \A a : ~InQueue(ackq, a)
    BY <2>1, <2>3 DEF InQueue
  <2>. QED  BY <1>2, <2>1, <2>2, <2>3, <2>4, <2>5, <2>6 DEF QueueOK, QueueOf
<1>5. ListOK
  <2>1. waiting = <<>> /\ waiting \in Seq(Addrs) /\ Len(waiting) = 0
    BY DEF Init
  <2>. QED  BY <1>2, <2>1 DEF ListOK, ListOf
<1>6. TarpitOK
  <2>1. PICK S : S = [s \in Slots |-> [ip |-> Null, n |-> 0]]
    OBVIOUS
  <2>2. tarpit = [slot |-> S, total |-> 0] /\ tarpit.slot = S /\ tarpit.total = 0
    BY <2>1 DEF Init
  <2>3. S \in [Slots -> Cells] /\ \A s \in Slots : S[s].ip = Null /\ S[s].n = 0
    BY <2>1 DEF Cells
  <2>4. Table(S)
    BY <2>3 DEF Table
  <2>5. \A ip \in Ips : CountOf(S, ip) = 0
    <3>1. ASSUME NEW ip \in Ips PROVE Found(S, ip) = {}
      BY <2>3, FoundHas, LogindAssumption
    <3>. QED  BY <3>1 DEF CountOf
  <2>6. tarpit \in Tarpits
    BY <2>2, <2>3 DEF Tarpits
  <2>. QED  BY <1>2, <2>2, <2>4, <2>5, <2>6, FS_EmptySet, LogindAssumption DEF TarpitOK, CountsHeld
<1>7. NumbersOK
  BY <1>1 DEF Init, NumbersOK
<1>8. TunnelsOK
  <2>1. <<>> \in Seq(Addrs)
    OBVIOUS
  <2>2. inflight \in [Tunnels -> Seq(Addrs)]
    BY <2>1 DEF Init
  <2>3. /\ tunnels \in Nat /\ g_tunnel = 0 /\ watched = 0 /\ open \in SUBSET Tunnels
        /\ up \in SUBSET Tunnels /\ dropped \in BOOLEAN
    BY DEF Init
  <2>. QED  BY <2>2, <2>3 DEF TunnelsOK, TunnelWatched
<1>. QED  BY <1>3, <1>4, <1>5, <1>6, <1>7, <1>8 DEF IInv

LEMMA NextOK ==
  ASSUME IInv, [Next]_vars
  PROVE  IInv'
<1>1. CASE Next
  BY <1>1, AcceptOK, ConnDataOK, TypeCodeOK, CancelCodeOK, LostOK, TimeoutOK, EnterUseridOK, EnterPasswdOK,
     EnterCodeOK, VerdictOK, NewTunnelOK, AckOK, TunnelEofOK, MbbsdDiesOK DEF Next
<1>2. CASE UNCHANGED vars
  <2>1. UNCHANGED <<conn, ackq, waiting, tarpit, svc, serial>> /\ UNCHANGED tun
    BY <1>2 DEF vars
  <2>. QED  BY <2>1, ElsewhereKept, TunnelsKept DEF IInv
<1>. QED  BY <1>1, <1>2

(* The invariant: every pointer, count and number that the daemon keeps between
   two callbacks is that of a connection in the state that goes with it. *)
THEOREM Invariant == Spec => []IInv
<1>1. Init => IInv
  BY InitOK
<1>2. IInv /\ [Next]_vars => IInv'
  BY NextOK
<1>. QED  BY <1>1, <1>2, PTL DEF Spec

(* Whatever clients type, and however often, mbbsd is handed no connection on
   which the password, and the code where the account or the client address
   demands it, was not verified (start_service), and no connection takes input
   after LOGINATTEMPTS failures (auth_fail). *)
THEOREM LoginsAreEarned == Spec => []LoginIsEarned
<1>1. IInv => LoginIsEarned
  <2>1. ASSUME IInv PROVE HandedIsVerified
    BY <2>1 DEF HandedIsVerified, LiveSet, Live, IInv, ConnsOK, Good
  <2>2. ASSUME IInv, NEW a \in LiveSet, conn[a].ev = "client"
        PROVE  conn[a].fails < LOGINATTEMPTS
    <3>1. PICK c : c = conn[a] /\ Good(c) /\ c \in Conns /\ c.ev = "client"
      BY <2>2 DEF LiveSet, Live, IInv, ConnsOK, Good
    <3>2. c.fails \in Nat /\ c.retry \in Nat /\ c.fails <= c.retry /\ c.retry < LOGINATTEMPTS
      BY <3>1, FieldTypes DEF Good, Conns
    <3>. QED  BY <3>1, <3>2, FieldTypes
  <2>. QED  BY <2>1, <2>2 DEF LoginIsEarned, AttemptsBounded
<1>. QED  BY <1>1, Invariant, PTL

(* However late it comes, and although the memory of a connection is used again
   as soon as it is freed: an acknowledgement (ack_cb) ends only a connection
   that was handed over, and a verdict (activity_verdict) decides only the login
   that has asked for it. *)
THEOREM LateAnswers == Spec => LateAnswersHarmless
<1>. DEFINE AckStep == \A a \in LiveSet :
                         inflight' # inflight /\ conn'[a] = Null => conn[a].state = "TUNNEL"
            AnswerStep == \A q \in asked, a \in Addrs :
                            q \notin asked' /\ conn'[a] # conn[a] => Live(a) /\ conn[a].id = q.id
<1>1. IInv /\ [Next]_vars => [AckStep]_vars
  <2>. SUFFICES ASSUME IInv, Next PROVE AckStep
    OBVIOUS
  <2>1. ASSUME NoneFreed \/ inflight' = inflight PROVE AckStep
    BY <2>1 DEF NoneFreed, LiveSet, Live
  <2>2. ASSUME NEW a \in Addrs,
               Accept(a) \/ ConnData(a) \/ TypeCode(a) \/ CancelCode(a) \/ Lost(a)
        PROVE  inflight' = inflight
    BY <2>2 DEF Accept, ConnData, TypeCode, CancelCode, Lost, tun
  <2>3. ASSUME UNCHANGED conn PROVE NoneFreed
    BY <2>3 DEF NoneFreed
  <2>4. ASSUME Ack PROVE AckStep
    BY <2>4, AckOK DEF LiveSet, Live
  <2>. QED
    BY <2>1, <2>2, <2>3, <2>4, TimeoutOK, EnterUseridOK, EnterPasswdOK, EnterCodeOK, VerdictOK
       DEF Next, NewTunnel, TunnelEof, MbbsdDies
<1>2. IInv /\ [Next]_vars => [AnswerStep]_vars
  <2>. SUFFICES ASSUME IInv, Next PROVE AnswerStep
    OBVIOUS
  <2>1. ASSUME \A q \in asked : q \in asked' PROVE AnswerStep
    BY <2>1
  <2>2. ASSUME NEW q \in asked, NEW deny \in BOOLEAN, Verdict(q, deny) PROVE AnswerStep
    BY <2>2, VerdictOK, AskerIs DEF Live
  <2>3. ASSUME NEW a \in Addrs,
               Accept(a) \/ ConnData(a) \/ TypeCode(a) \/ CancelCode(a) \/ Lost(a) \/ Timeout(a)
        PROVE  asked' = asked
    BY <2>3 DEF Accept, ConnData, TypeCode, CancelCode, Lost, Timeout, svc
  <2>4. ASSUME NewTunnel \/ Ack \/ TunnelEof \/ \E t \in Tunnels : MbbsdDies(t)
        PROVE  asked' = asked
    BY <2>4 DEF NewTunnel, Ack, TunnelEof, MbbsdDies, svc
  <2>5. ASSUME NEW a \in Addrs, NEW c, NEW isfree, Admit(a, c, isfree)
        PROVE  \A q \in asked : q \in asked'
    BY <2>5 DEF Admit, activity_start_query, svc
  <2>6. ASSUME NEW a \in Addrs, NEW c, NEW right, StartAuth(a, c, right)
        PROVE  \A q \in asked : q \in asked'
    BY <2>5, <2>6 DEF StartAuth, Banned, auth_start, svc
  <2>7. ASSUME NEW a \in Addrs,
               \/ \E u \in Userids : EnterUserid(a, u)
               \/ \E right \in BOOLEAN : EnterPasswd(a, right) \/ EnterCode(a, right)
        PROVE  \A q \in asked : q \in asked'
    BY <2>6, <2>7 DEF EnterUserid, EnterPasswd, EnterCode, Banned, svc
  <2>. QED  BY <2>1, <2>2, <2>3, <2>4, <2>7 DEF Next
<1>. QED
  BY <1>1, <1>2, Invariant, PTL
     DEF Spec, LateAnswersHarmless, AckEndsHanded, VerdictFindsItsLogin

(* The pointers in g_ack_queue and g_activity_waiting are those of the
   connections in the state that goes with them, each once, reuse counts the
   holes, the tarpit counts who is held, in total and per client address, and
   acknowledgements are read from the tunnel in use until a tunnel is dropped. *)
THEOREM BooksStayRight == Spec => []BooksAgree
<1>1. ASSUME NEW n \in Nat, NEW s, NEW a, \A i, j \in 1 .. n : s[i] = a /\ s[j] = a => i = j
      PROVE  Cardinality({i \in 1 .. n : s[i] = a}) = IF \E i \in 1 .. n : s[i] = a THEN 1 ELSE 0
  <2>1. CASE \E i \in 1 .. n : s[i] = a
    <3>1. PICK i \in 1 .. n : s[i] = a
      BY <2>1
    <3>2. {j \in 1 .. n : s[j] = a} = {i}
      BY <1>1, <3>1
    <3>. QED  BY <2>1, <3>2, FS_Singleton
  <2>2. CASE ~\E i \in 1 .. n : s[i] = a
    <3>1. {j \in 1 .. n : s[j] = a} = {}
      BY <2>2
    <3>. QED  BY <2>2, <3>1, FS_EmptySet
  <2>. QED  BY <2>1, <2>2
<1>2. IInv => PointersLive
  <2>. SUFFICES ASSUME IInv PROVE PointersLive
    OBVIOUS
  <2>1. PICK q : q = ackq.queue
    OBVIOUS
  <2>2. PICK n \in Nat : n = Len(q)
    BY <2>1 DEF IInv, QueueOK, QueueOf, Queues
  <2>3. ASSUME NEW a \in Addrs
        PROVE  Cardinality({i \in 1 .. n : q[i] = a})
                 = IF Live(a) /\ conn[a].st = "WAITACK" THEN 1 ELSE 0
    <3>1. \A i, j \in 1 .. n : q[i] = a /\ q[j] = a => i = j
      BY <2>1, <2>2, LogindAssumption DEF IInv, QueueOK, QueueOf
    <3>2. (\E i \in 1 .. n : q[i] = a) <=> (Live(a) /\ conn[a].st = "WAITACK")
      BY <2>1, <2>2 DEF IInv, QueueOK, QueueOf, InQueue, Acks, Live
    <3>3. Cardinality({i \in 1 .. n : q[i] = a}) = IF \E i \in 1 .. n : q[i] = a THEN 1 ELSE 0
      BY <1>1, <3>1
    <3>. QED  BY <3>2, <3>3
  <2>4. ackq.reuse = Cardinality({i \in 1 .. Len(q) : q[i] = Null})
    BY <2>1 DEF IInv, QueueOK, QueueOf, Holes
  <2>5. PICK w : w = waiting
    OBVIOUS
  <2>6. PICK m \in Nat : m = Len(w)
    BY <2>5 DEF IInv, ListOK, ListOf
  <2>7. ASSUME NEW a \in Addrs
        PROVE  Cardinality({i \in 1 .. m : w[i] = a})
                 = IF Live(a) /\ conn[a].st = "ACTIVITY_WAIT" THEN 1 ELSE 0
    <3>1. \A i, j \in 1 .. m : w[i] = a /\ w[j] = a => i = j
      BY <2>5, <2>6 DEF IInv, ListOK, ListOf
    <3>2. (\E i \in 1 .. m : w[i] = a) <=> (Live(a) /\ conn[a].st = "ACTIVITY_WAIT")
      BY <2>5, <2>6 DEF IInv, ListOK, ListOf, Waits, Live
    <3>3. Cardinality({i \in 1 .. m : w[i] = a}) = IF \E i \in 1 .. m : w[i] = a THEN 1 ELSE 0
      BY <1>1, <3>1
    <3>. QED  BY <3>2, <3>3
  <2>. QED  BY <2>1, <2>2, <2>3, <2>4, <2>5, <2>6, <2>7 DEF PointersLive
<1>3. IInv => TarpitExact
  <2>. SUFFICES ASSUME IInv PROVE TarpitExact
    OBVIOUS
  <2>1. Holds(conn) = {a \in LiveSet : conn[a].tarpit}
    BY DEF Holds, LiveSet, Live
  <2>2. \A ip \in Ips : HeldAt(conn, ip) = {a \in LiveSet : conn[a].tarpit /\ conn[a].ip = ip}
    BY DEF HeldAt, LiveSet, Live
  <2>3. /\ tarpit.total = Cardinality(Holds(conn))
        /\ \A ip \in Ips : /\ CountOf(tarpit.slot, ip) = Cardinality(HeldAt(conn, ip))
                            /\ CountOf(tarpit.slot, ip) <= ACTIVITY_TARPIT_PER_IP
    BY DEF IInv, TarpitOK, CountsHeld
  <2>. QED  BY <2>1, <2>2, <2>3 DEF TarpitExact
<1>4. IInv => TypeOK
  <2>. SUFFICES ASSUME IInv PROVE TypeOK
    OBVIOUS
  <2>1. PICK S : S = tarpit.slot /\ S \in [Slots -> Cells] /\ Table(S)
    BY DEF IInv, TarpitOK, CountsHeld, Tarpits
  <2>2. ASSUME NEW s \in Slots
        PROVE  S[s] \in [ip : Ips \cup {Null}, n : 0 .. ACTIVITY_TARPIT_PER_IP]
    <3>1. S[s] \in Cells /\ S[s].ip \in Ips \cup {Null} /\ S[s].n \in Nat
      BY <2>1 DEF Cells
    <3>2. S[s].n <= ACTIVITY_TARPIT_PER_IP
      <4>1. CASE S[s].ip = Null
        BY <2>1, <4>1, LogindAssumption DEF Table
      <4>2. CASE S[s].ip # Null
        <5>1. PICK ip \in Ips : ip = S[s].ip
          BY <3>1, <4>2
        <5>2. CountOf(S, ip) = S[s].n
          BY <2>1, <5>1, CountIs
        <5>. QED  BY <2>1, <5>2 DEF IInv, TarpitOK, CountsHeld
      <4>. QED  BY <4>1, <4>2
    <3>3. S[s].n \in 0 .. ACTIVITY_TARPIT_PER_IP
      BY <3>1, <3>2, LogindAssumption
    <3>. QED  BY <3>1, <3>3 DEF Cells
  <2>3. tarpit.slot \in [Slots -> [ip : Ips \cup {Null}, n : 0 .. ACTIVITY_TARPIT_PER_IP]]
    BY <2>1, <2>2
  <2>4. tarpit.total \in 0 .. ACTIVITY_TARPIT_MAX
    <3>1. tarpit.total \in Nat /\ tarpit.total <= ACTIVITY_TARPIT_MAX
      BY DEF IInv, TarpitOK, CountsHeld, Tarpits
    <3>. QED  BY <3>1, LogindAssumption
  <2>5. ackq.queue \in Seq(Addrs \cup {Null}) /\ ackq.reuse \in Nat /\ waiting \in Seq(Addrs)
    BY DEF IInv, QueueOK, QueueOf, Queues, ListOK, ListOf
  <2>6. asked \subseteq [reqid : Nat, id : 1 .. MaxConns]
    BY DEF IInv, NumbersOK
  <2>. QED  BY <2>3, <2>4, <2>5, <2>6 DEF TypeOK, IInv, ConnsOK, TunnelsOK
<1>5. IInv => BooksAgree
  BY <1>2, <1>3, <1>4 DEF BooksAgree, IInv, TunnelsOK
<1>. QED  BY <1>5, Invariant, PTL
=============================================================================
