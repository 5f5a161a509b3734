---------------------------- MODULE XchatdProofs ----------------------------
(***************************************************************************)
(* Proofs about Xchatd, for any number of connections, users, rooms and    *)
(* chatids.                                                                *)
(***************************************************************************)
EXTENDS Xchatd, FiniteSetTheorems, TLAPS

-----------------------------------------------------------------------------
(* mainuser, a list in which no connection is twice *)

Once(l) == \A i, j \in 1 .. Len(l) : l[i] = l[j] => i = j

(* Unlinking takes out exactly the connections that go, and keeps the order
   and that nobody is in the list twice. *)
LEMMA WithoutOK ==
  ASSUME NEW S, NEW l \in Seq(S), Once(l), NEW gone
  PROVE  /\ Without(l, gone) \in Seq(S) /\ Once(Without(l, gone))
         /\ Range(Without(l, gone)) = Range(l) \ gone
<1>1. PICK n \in Nat : n = Len(l)
  OBVIOUS
<1>2. PICK keep : keep = {i \in 1 .. n : l[i] \notin gone}
  OBVIOUS
<1>3. keep \in SUBSET (1 .. n) /\ IsFiniteSet(keep) /\ Cardinality(keep) \in Nat
  <2>1. IsFiniteSet(1 .. n)
    <3>1. 1 \in Int /\ n \in Int
      OBVIOUS
    <3>. QED  BY <3>1, FS_Interval
  <2>2. keep \in SUBSET (1 .. n)
    BY <1>2
  <2>. QED  BY <2>1, <2>2, FS_Subset, FS_CardinalityType
<1>0. \A i \in keep : i \in Int /\ i \in 1 .. n
  BY <1>3
<1>4. PICK m \in Nat : m = Cardinality(keep)
  BY <1>3
<1>. DEFINE upto(i) == {j \in keep : j <= i}
            rank(i) == Cardinality(upto(i))
<1>5. \A i \in keep : IsFiniteSet(upto(i)) /\ upto(i) \in SUBSET keep /\ i \in upto(i)
  <2>1. \A i \in keep : upto(i) \in SUBSET keep /\ i \in upto(i)
    BY <1>3
  <2>. QED  BY <1>3, <2>1, FS_Subset
<1>6. \A i \in keep : rank(i) \in 1 .. m
  <2>. SUFFICES ASSUME NEW i \in keep PROVE rank(i) \in 1 .. m
    OBVIOUS
  <2>1. rank(i) \in Nat /\ rank(i) # 0
    BY <1>5, FS_CardinalityType, FS_EmptySet
  <2>2. rank(i) <= Cardinality(keep)
    BY <1>3, <1>5, FS_Subset
  <2>. QED  BY <1>4, <2>1, <2>2
<1>7. \A i, k \in keep : i < k => rank(i) # rank(k)
  <2>. SUFFICES ASSUME NEW i \in keep, NEW k \in keep, i < k, rank(i) = rank(k) PROVE FALSE
    OBVIOUS
  <2>1. upto(i) \in SUBSET upto(k)
    BY <1>0
  <2>2. upto(i) = upto(k)
    BY <1>5, <2>1, FS_Subset
  <2>3. k \in upto(i)
    BY <1>5, <2>2
  <2>. QED  BY <1>3, <2>3
<1>8. PICK f : f = [i \in keep |-> rank(i)]
  OBVIOUS
<1>. HIDE DEF rank
<1>9. f \in Injection(keep, 1 .. m)
  <2>1. f \in [keep -> 1 .. m]
    BY <1>6, <1>8
  <2>2. \A i, k \in keep : f[i] = f[k] => i = k
    <3>. SUFFICES ASSUME NEW i \in keep, NEW k \in keep, f[i] = f[k] PROVE i = k
      OBVIOUS
    <3>1. i \in Int /\ k \in Int /\ rank(i) = rank(k)
      BY <1>3, <1>8
    <3>. QED  BY <1>7, <3>1
  <2>. QED  BY <2>1, <2>2 DEF Injection, IsInjective
<1>10. f \in Surjection(keep, 1 .. m)
  <2>1. IsFiniteSet(1 .. m) /\ Cardinality(1 .. m) = m
    <3>1. 1 \in Int /\ m \in Int /\ (IF 1 > m THEN 0 ELSE m - 1 + 1) = m
      OBVIOUS
    <3>. QED  BY <3>1, FS_Interval
  <2>. QED  BY <1>4, <1>9, <2>1, FS_Injection
<1>11. \A k \in 1 .. m : \E i \in keep : rank(i) = k
  BY <1>8, <1>10 DEF Surjection
<1>12. PICK pick : pick = [k \in 1 .. m |-> CHOOSE i \in keep : rank(i) = k]
  OBVIOUS
<1>13. \A k \in 1 .. m : pick[k] \in keep /\ rank(pick[k]) = k
  BY <1>11, <1>12
<1>14. \A i \in keep : rank(i) \in 1 .. m /\ pick[rank(i)] = i
  <2>. SUFFICES ASSUME NEW i \in keep PROVE rank(i) \in 1 .. m /\ pick[rank(i)] = i
    OBVIOUS
  <2>1. PICK k \in 1 .. m : k = rank(i)
    BY <1>6
  <2>2. pick[k] \in keep /\ rank(pick[k]) = rank(i)
    BY <1>13, <2>1
  <2>3. pick[k] \in Int /\ i \in Int
    BY <1>0, <2>2
  <2>. QED  BY <1>7, <2>1, <2>2, <2>3
<1>15. Without(l, gone) = [k \in 1 .. m |-> l[pick[k]]]
  BY <1>1, <1>2, <1>4, <1>12 DEF Without, rank
<1>16. PICK w : w = [k \in 1 .. m |-> l[pick[k]]]
  OBVIOUS
<1>17. \A k \in 1 .. m : pick[k] \in 1 .. n /\ l[pick[k]] \in S /\ w[k] = l[pick[k]]
  <2>. SUFFICES ASSUME NEW k \in 1 .. m
                PROVE  pick[k] \in 1 .. n /\ l[pick[k]] \in S /\ w[k] = l[pick[k]]
    OBVIOUS
  <2>1. pick[k] \in 1 .. n
    BY <1>0, <1>13
  <2>. QED  BY <1>1, <1>16, <2>1
<1>18. w \in Seq(S) /\ Len(w) = m
  BY <1>16, <1>17
<1>19. Once(w)
  <2>. SUFFICES ASSUME NEW i \in 1 .. m, NEW j \in 1 .. m, w[i] = w[j] PROVE i = j
    BY <1>18 DEF Once
  <2>1. pick[i] = pick[j]
    BY <1>1, <1>17 DEF Once
  <2>. QED  BY <1>13, <2>1
<1>20. Range(w) = Range(l) \ gone
  <2>1. ASSUME NEW k \in 1 .. m PROVE w[k] \in Range(l) \ gone
    BY <1>1, <1>2, <1>13, <1>17 DEF Range
  <2>2. ASSUME NEW i \in 1 .. n, l[i] \notin gone PROVE \E k \in 1 .. m : w[k] = l[i]
    <3>1. i \in keep
      BY <1>2, <2>2
    <3>. QED  BY <1>14, <1>17, <3>1
  <2>3. DOMAIN w = 1 .. m /\ DOMAIN l = 1 .. n
    BY <1>1, <1>16
  <2>. QED  BY <2>1, <2>2, <2>3 DEF Range
<1>. QED  BY <1>15, <1>16, <1>18, <1>19, <1>20

(* unext is another connection of the list, or none. *)
LEMMA AfterOK ==
  ASSUME list \in Seq(Conns), Once(list), NEW c \in Conn
  PROVE  After(c) \in (Conn \ {c}) \cup {None}
<1>1. PICK n \in Nat : n = Len(list) /\ DOMAIN list = 1 .. n
  OBVIOUS
<1>2. PICK i : i = CHOOSE k \in DOMAIN list : list[k] = c
  OBVIOUS
<1>3. \E k \in DOMAIN list : list[k] = c
  BY DEF Conn, Range
<1>4. i \in 1 .. n /\ list[i] = c
  BY <1>1, <1>2, <1>3
<1>5. After(c) = IF i = n THEN None ELSE list[i + 1]
  BY <1>1, <1>2 DEF After
<1>6. CASE i # n
  <2>1. i + 1 \in 1 .. n /\ i + 1 # i
    BY <1>4, <1>6
  <2>2. list[i + 1] # c
    BY <1>1, <1>4, <2>1 DEF Once
  <2>. QED  BY <1>1, <1>5, <1>6, <2>1, <2>2 DEF Conn, Range
<1>. QED  BY <1>5, <1>6

-----------------------------------------------------------------------------
(* The rooms *)

Places == Rooms \cup {None}
Put(f, x, v) == [f EXCEPT ![x] = v]
Lists  == [Rooms -> SUBSET (Users \ Sysops)]

(* What exit_room does to each part of the state, for one who is in a room. *)
LEMMA ExitParts ==
  ASSUME NEW s \in ChatType, NEW c \in Conns, NEW r \in Rooms, r = s.room[c],
         s.occ[r] > 0, NEW e, e = exit_room(s, c)
  PROVE  /\ e \in ChatType
         /\ e.room = [s.room EXCEPT ![c] = None] /\ e.op = s.op \ {c}
         /\ e.grant = [s.grant EXCEPT ![c] = None] /\ e.occ = [s.occ EXCEPT ![r] = @ - 1]
         /\ e.rooms = IF s.occ[r] = 1 /\ r # Main THEN s.rooms \ {r} ELSE s.rooms
         /\ s.occ[r] > 1 \/ r # Main => user[c] \notin e.invite[r]
<1>0. r # None /\ Main \in Rooms
  BY XchatdAssumption
<1>1. PICK left : left = [s EXCEPT !.room[c] = None, !.op = @ \ {c}, !.grant[c] = None,
                                   !.occ[r] = @ - 1]
  OBVIOUS
<1>2. s.room \in [Conns -> Places] /\ s.grant \in [Conns -> Places] /\ s.occ \in [Rooms -> Nat]
  BY DEF ChatType, Places
<1>3. /\ [s.room EXCEPT ![c] = None] \in [Conns -> Places]
      /\ [s.grant EXCEPT ![c] = None] \in [Conns -> Places]
      /\ [s.occ EXCEPT ![r] = @ - 1] \in [Rooms -> Nat]
      /\ s.occ[r] \in Nat /\ [s.occ EXCEPT ![r] = @ - 1][r] = s.occ[r] - 1
  BY <1>2 DEF Places
<1>4. /\ left \in ChatType
      /\ left.room = [s.room EXCEPT ![c] = None] /\ left.op = s.op \ {c}
      /\ left.grant = [s.grant EXCEPT ![c] = None] /\ left.occ = [s.occ EXCEPT ![r] = @ - 1]
      /\ left.rooms = s.rooms /\ left.invite = s.invite
  BY <1>1, <1>3 DEF ChatType, Places
<1>5. left.occ[r] = s.occ[r] - 1
  BY <1>3, <1>4
<1>6. CASE s.occ[r] > 1
  <2>1. e = [left EXCEPT !.invite[r] = @ \ {user[c]}]
    BY <1>0, <1>1, <1>3, <1>5, <1>6 DEF exit_room
  <2>2. left.invite \in Lists
    BY <1>4 DEF ChatType, Lists
  <2>3. PICK iv \in Lists : iv = [left.invite EXCEPT ![r] = @ \ {user[c]}] /\ user[c] \notin iv[r]
    <3>1. left.invite[r] \ {user[c]} \in SUBSET (Users \ Sysops)
      BY <2>2 DEF Lists
    <3>2. PICK x \in SUBSET (Users \ Sysops) : x = left.invite[r] \ {user[c]}
      BY <3>1
    <3>3. [left.invite EXCEPT ![r] = x] \in Lists /\ [left.invite EXCEPT ![r] = x][r] = x
      BY <2>2 DEF Lists
    <3>. QED  BY <3>2, <3>3
  <2>4. e = [left EXCEPT !.invite = iv]
    BY <2>1, <2>3
  <2>5. /\ e \in ChatType /\ e.room = left.room /\ e.op = left.op /\ e.grant = left.grant
        /\ e.occ = left.occ /\ e.rooms = left.rooms /\ e.invite = iv
    BY <1>4, <2>4 DEF ChatType, Lists
  <2>. QED  BY <1>4, <1>6, <2>3, <2>5
<1>7. CASE s.occ[r] = 1 /\ r # Main
  <2>1. e = [left EXCEPT !.rooms = @ \ {r}, !.locked = @ \ {r}, !.invite[r] = {}, !.ban[r] = {}]
    BY <1>0, <1>1, <1>3, <1>5, <1>7 DEF exit_room
  <2>2. left.invite \in Lists /\ left.ban \in Lists
    BY <1>4 DEF ChatType, Lists
  <2>3. [left.invite EXCEPT ![r] = {}] \in Lists /\ [left.ban EXCEPT ![r] = {}] \in Lists
    BY <2>2 DEF Lists
  <2>4. PICK iv \in Lists, bn \in Lists :
          iv = [left.invite EXCEPT ![r] = {}] /\ bn = [left.ban EXCEPT ![r] = {}]
    BY <2>3
  <2>5. PICK rs \in SUBSET Rooms, lk \in SUBSET Rooms :
          rs = left.rooms \ {r} /\ lk = left.locked \ {r}
    BY <1>4 DEF ChatType
  <2>6. e = [left EXCEPT !.rooms = rs, !.locked = lk, !.invite = iv, !.ban = bn]
    BY <2>1, <2>4, <2>5
  <2>7. /\ e \in ChatType /\ e.room = left.room /\ e.op = left.op /\ e.grant = left.grant
        /\ e.occ = left.occ /\ e.rooms = rs /\ e.invite = iv
    BY <1>4, <2>6 DEF ChatType, Lists
  <2>. QED  BY <1>4, <1>7, <2>2, <2>4, <2>5, <2>7 DEF Lists
<1>8. CASE s.occ[r] = 1 /\ r = Main
  <2>1. e = left
    BY <1>0, <1>1, <1>3, <1>5, <1>8 DEF exit_room
  <2>. QED  BY <1>4, <1>8, <2>1
<1>. QED  BY <1>3, <1>6, <1>7, <1>8

(* What arrive_room does. *)
LEMMA ArriveParts ==
  ASSUME NEW s \in ChatType, NEW c \in Conns, NEW r \in Rooms, NEW e, e = arrive_room(s, c, r)
  PROVE  /\ e \in ChatType
         /\ e.room = [s.room EXCEPT ![c] = r] /\ e.op = s.op /\ e.grant = s.grant
         /\ e.occ = [s.occ EXCEPT ![r] = @ + 1] /\ e.rooms = s.rooms /\ e.invite = s.invite
<1>1. s.room \in [Conns -> Places] /\ s.occ \in [Rooms -> Nat]
  BY DEF ChatType, Places
<1>2. [s.room EXCEPT ![c] = r] \in [Conns -> Places] /\ [s.occ EXCEPT ![r] = @ + 1] \in [Rooms -> Nat]
  BY <1>1 DEF Places
<1>. QED  BY <1>2 DEF arrive_room, ChatType, Places

Members(rm, r) == {c \in Conns : rm[c] = r}

(* Those in a room can be counted. *)
LEMMA MembersFinite ==
  ASSUME NEW rm, NEW r
  PROVE  IsFiniteSet(Members(rm, r)) /\ Cardinality(Members(rm, r)) \in Nat
<1>1. Members(rm, r) \in SUBSET Conns /\ IsFiniteSet(Conns)
  BY XchatdAssumption DEF Members
<1>. QED  BY <1>1, FS_Subset, FS_CardinalityType

(* Who leaves his room is one less in it, and none less elsewhere. *)
LEMMA OneLess ==
  ASSUME NEW rm \in [Conns -> Places], NEW c \in Conns, NEW r \in Rooms, rm[c] = r
  PROVE  LET q == [rm EXCEPT ![c] = None]
         IN /\ Cardinality(Members(q, r)) = Cardinality(Members(rm, r)) - 1
            /\ Cardinality(Members(rm, r)) > 0
            /\ \A x \in Rooms : x # r => Members(q, x) = Members(rm, x)
<1>0. r # None /\ None \notin Rooms
  BY XchatdAssumption
<1>1. PICK q : q = [rm EXCEPT ![c] = None]
  OBVIOUS
<1>2. q[c] = None /\ \A d \in Conns : d # c => q[d] = rm[d]
  BY <1>1
<1>3. Members(q, r) = Members(rm, r) \ {c} /\ c \in Members(rm, r)
  BY <1>0, <1>2 DEF Members
<1>4. \A x \in Rooms : x # r => Members(q, x) = Members(rm, x)
  BY <1>0, <1>2 DEF Members
<1>5. /\ Cardinality(Members(rm, r) \ {c}) = Cardinality(Members(rm, r)) - 1
      /\ Cardinality(Members(rm, r)) \in Nat /\ Cardinality(Members(q, r)) \in Nat
  BY <1>3, MembersFinite, FS_RemoveElement
<1>6. Cardinality(Members(q, r)) = Cardinality(Members(rm, r)) - 1
  BY <1>3, <1>5
<1>7. Cardinality(Members(rm, r)) > 0
  BY <1>5, <1>6
<1>. QED  BY <1>1, <1>4, <1>6, <1>7

(* Who was nowhere is one more in the room he comes to. *)
LEMMA OneMore ==
  ASSUME NEW rm \in [Conns -> Places], NEW c \in Conns, NEW r \in Rooms, rm[c] = None
  PROVE  LET q == [rm EXCEPT ![c] = r]
         IN /\ Cardinality(Members(q, r)) = Cardinality(Members(rm, r)) + 1
            /\ \A x \in Rooms : x # r => Members(q, x) = Members(rm, x)
<1>0. r # None /\ None \notin Rooms
  BY XchatdAssumption
<1>1. PICK q : q = [rm EXCEPT ![c] = r]
  OBVIOUS
<1>2. q[c] = r /\ \A d \in Conns : d # c => q[d] = rm[d]
  BY <1>1
<1>3. Members(q, r) = Members(rm, r) \cup {c} /\ c \notin Members(rm, r)
  BY <1>0, <1>2 DEF Members
<1>4. \A x \in Rooms : x # r => Members(q, x) = Members(rm, x)
  BY <1>0, <1>2 DEF Members
<1>5. Cardinality(Members(rm, r) \cup {c}) = Cardinality(Members(rm, r)) + 1
  BY <1>3, MembersFinite, FS_AddElement
<1>. QED  BY <1>1, <1>3, <1>4, <1>5

(* The rooms are right but for x, which was just made: nobody is in it yet. *)
RoomsBut(s, st, x) ==
  /\ s \in ChatType
  /\ \A r \in Rooms : s.occ[r] = Cardinality(Members(s.room, r)) + st[r]
  /\ \A r \in Rooms : r # x => (r \in s.rooms <=> (r = Main \/ s.occ[r] > 0))
  /\ \A c \in s.op : s.room[c] \in Rooms /\ s.grant[c] = s.room[c]

Strays == [Rooms -> Nat]

(* Whoever leaves r for good is not on its list, but for the last one out of
   the main room. *)
Spent(e, c, r) ==
  r \in Rooms /\ e.room[c] # r /\ user[c] \in e.invite[r] => r = Main /\ e.occ[r] = 0

(* exit_room: the rooms stay right, the flag is gone, the invitation is
   spent, and the room that was just made for him is still there. *)
LEMMA ExitOK ==
  ASSUME NEW st \in Strays, NEW x, NEW s, RoomsBut(s, st, x), NEW c \in Conns, s.room[c] # x \/ x = None,
         NEW e, e = exit_room(s, c)
  PROVE  /\ RoomsBut(e, st, x) /\ e.room = Put(s.room, c, None) /\ c \notin e.op
         /\ x \in s.rooms => x \in e.rooms
         /\ Main \in s.rooms => Main \in e.rooms
         /\ Spent(e, c, s.room[c])
<1>0. /\ None \notin Rooms /\ s \in ChatType /\ s.room \in [Conns -> Places]
      /\ s.room[c] \in Rooms \cup {None} /\ s.occ \in [Rooms -> Nat] /\ s.grant \in [Conns -> Places]
      /\ s.op \in SUBSET Conns /\ s.rooms \in SUBSET Rooms
  BY XchatdAssumption DEF RoomsBut, ChatType, Places
<1>1. CASE s.room[c] = None
  <2>1. e = s
    BY <1>1 DEF exit_room
  <2>2. Put(s.room, c, None) = s.room
    BY <1>0, <1>1 DEF Put
  <2>3. c \notin e.op
    BY <1>0, <1>1, <2>1 DEF RoomsBut
  <2>. QED  BY <1>0, <1>1, <2>1, <2>2, <2>3 DEF Spent
<1>2. CASE s.room[c] \in Rooms
  <2>1. PICK r \in Rooms : r = s.room[c]
    BY <1>2
  <2>2. PICK q : q = [s.room EXCEPT ![c] = None]
    OBVIOUS
  <2>3. /\ Cardinality(Members(q, r)) = Cardinality(Members(s.room, r)) - 1
        /\ Cardinality(Members(s.room, r)) > 0
        /\ \A y \in Rooms : y # r => Members(q, y) = Members(s.room, y)
    BY <1>0, <2>1, <2>2, OneLess
  <2>4. Cardinality(Members(s.room, r)) \in Nat /\ st[r] \in Nat
    BY MembersFinite DEF Strays
  <2>5. s.occ[r] > 0 /\ s.occ[r] = Cardinality(Members(s.room, r)) + st[r] /\ s.occ[r] \in Nat
    BY <1>0, <2>3, <2>4 DEF RoomsBut
  <2>6. /\ e \in ChatType
        /\ e.room = q /\ e.op = s.op \ {c}
        /\ e.grant = [s.grant EXCEPT ![c] = None] /\ e.occ = [s.occ EXCEPT ![r] = @ - 1]
        /\ e.rooms = IF s.occ[r] = 1 /\ r # Main THEN s.rooms \ {r} ELSE s.rooms
        /\ s.occ[r] > 1 \/ r # Main => user[c] \notin e.invite[r]
    <3>1. s \in ChatType /\ s.occ[r] > 0
      BY <1>0, <2>5
    <3>. QED  BY ONLY <2>1, <2>2, <3>1, e = exit_room(s, c), c \in Conns, r \in Rooms, ExitParts
  <2>7. e.occ[r] = s.occ[r] - 1 /\ \A y \in Rooms : y # r => e.occ[y] = s.occ[y]
    BY <1>0, <2>6
  <2>8. \A y \in Rooms : e.occ[y] = Cardinality(Members(e.room, y)) + st[y]
    <3>1. e.occ[r] = Cardinality(Members(e.room, r)) + st[r]
      BY <2>3, <2>4, <2>5, <2>6, <2>7
    <3>2. \A y \in Rooms : y # r => e.occ[y] = Cardinality(Members(e.room, y)) + st[y]
      BY <2>3, <2>6, <2>7 DEF RoomsBut
    <3>. QED  BY <3>1, <3>2
  <2>9. \A y \in Rooms : y # x => (y \in e.rooms <=> (y = Main \/ e.occ[y] > 0))
    <3>1. r # x => (r \in e.rooms <=> (r = Main \/ e.occ[r] > 0))
      BY <2>5, <2>6, <2>7 DEF RoomsBut
    <3>2. \A y \in Rooms : y # x /\ y # r => (y \in e.rooms <=> (y = Main \/ e.occ[y] > 0))
      BY <2>6, <2>7 DEF RoomsBut
    <3>. QED  BY <3>1, <3>2
  <2>10. \A d \in e.op : e.room[d] \in Rooms /\ e.grant[d] = e.room[d]
    BY <1>0, <2>2, <2>6 DEF RoomsBut
  <2>11. Spent(e, c, r)
    BY <2>5, <2>6, <2>7 DEF Spent
  <2>12. x \in s.rooms => x \in e.rooms
    BY <1>0, <2>1, <2>6
  <2>13. Main \in s.rooms => Main \in e.rooms
    BY <2>6
  <2>. QED  BY <2>1, <2>2, <2>6, <2>8, <2>9, <2>10, <2>11, <2>12, <2>13 DEF RoomsBut, Put
<1>. QED  BY <1>0, <1>1, <1>2

(* arrive_room, into a room that is there: it is right again. *)
LEMMA ArriveOK ==
  ASSUME NEW st \in Strays, NEW x, NEW s, RoomsBut(s, st, x), NEW c \in Conns, s.room[c] = None,
         NEW r \in Rooms, r \in s.rooms, x = None \/ x = r, NEW e, e = arrive_room(s, c, r)
  PROVE  /\ RoomsBut(e, st, None) /\ e.room = Put(s.room, c, r)
         /\ e.op = s.op /\ e.grant = s.grant /\ e.invite = s.invite
         /\ \A y \in Rooms : y # r => e.occ[y] = s.occ[y]
<1>0. /\ None \notin Rooms /\ s \in ChatType /\ s.room \in [Conns -> Places]
      /\ s.occ \in [Rooms -> Nat] /\ s.op \in SUBSET Conns
  BY XchatdAssumption DEF RoomsBut, ChatType, Places
<1>1. PICK q : q = [s.room EXCEPT ![c] = r]
  OBVIOUS
<1>2. /\ Cardinality(Members(q, r)) = Cardinality(Members(s.room, r)) + 1
      /\ \A y \in Rooms : y # r => Members(q, y) = Members(s.room, y)
  BY <1>0, <1>1, OneMore
<1>3. Cardinality(Members(s.room, r)) \in Nat /\ st[r] \in Nat
  BY MembersFinite DEF Strays
<1>4. /\ e \in ChatType /\ e.room = q /\ e.op = s.op /\ e.grant = s.grant
      /\ e.occ = [s.occ EXCEPT ![r] = @ + 1] /\ e.rooms = s.rooms /\ e.invite = s.invite
  BY <1>0, <1>1, ArriveParts
<1>5. e.occ[r] = s.occ[r] + 1 /\ s.occ[r] \in Nat /\ \A y \in Rooms : y # r => e.occ[y] = s.occ[y]
  BY <1>0, <1>4
<1>6. \A y \in Rooms : e.occ[y] = Cardinality(Members(e.room, y)) + st[y]
  <2>1. e.occ[r] = Cardinality(Members(e.room, r)) + st[r]
    BY <1>2, <1>3, <1>4, <1>5 DEF RoomsBut
  <2>2. \A y \in Rooms : y # r => e.occ[y] = Cardinality(Members(e.room, y)) + st[y]
    BY <1>2, <1>4, <1>5 DEF RoomsBut
  <2>. QED  BY <2>1, <2>2
<1>7. \A y \in Rooms : y \in e.rooms <=> (y = Main \/ e.occ[y] > 0)
  <2>1. r \in e.rooms /\ e.occ[r] > 0
    BY <1>4, <1>5
  <2>2. \A y \in Rooms : y # r => (y \in e.rooms <=> (y = Main \/ e.occ[y] > 0))
    BY <1>0, <1>4, <1>5 DEF RoomsBut
  <2>. QED  BY <2>1, <2>2
<1>8. \A d \in e.op : e.room[d] \in Rooms /\ e.grant[d] = e.room[d]
  <2>1. \A d \in e.op : d # c
    BY <1>0, <1>4 DEF RoomsBut
  <2>. QED  BY <1>0, <1>1, <1>4, <2>1 DEF RoomsBut
<1>. QED  BY <1>1, <1>4, <1>5, <1>6, <1>7, <1>8 DEF RoomsBut, Put

(* enter_room, whether the room is made, entered or refused. *)
LEMMA EnterOK ==
  ASSUME NEW st \in Strays, NEW s, RoomsBut(s, st, None), NEW c \in Conns, NEW r \in Rooms,
         NEW e, e = enter_room(s, c, r)
  PROVE  /\ RoomsBut(e, st, None) /\ e.room[c] \in {s.room[c], r}
         /\ \A d \in Conns : d # c => e.room[d] = s.room[d]
         /\ Spent(e, c, s.room[c])
<1>0. /\ None \notin Rooms /\ s \in ChatType /\ s.room \in [Conns -> Places]
      /\ s.room[c] \in Rooms \cup {None} /\ s.occ \in [Rooms -> Nat]
      /\ s.op \in SUBSET Conns /\ s.rooms \in SUBSET Rooms
  BY XchatdAssumption DEF RoomsBut, ChatType, Places
<1>1. CASE r \notin s.rooms
  <2>1. PICK n : n = [s EXCEPT !.rooms = @ \cup {r}]
    OBVIOUS
  <2>2. /\ n \in ChatType /\ n.room = s.room /\ n.op = s.op /\ n.grant = s.grant
        /\ n.occ = s.occ /\ n.rooms = s.rooms \cup {r}
    BY <1>0, <2>1 DEF ChatType
  <2>3. s.room[c] # r
    <3>1. s.occ[r] = 0 /\ s.occ[r] = Cardinality(Members(s.room, r)) + st[r]
      BY <1>0, <1>1 DEF RoomsBut
    <3>2. Cardinality(Members(s.room, r)) = 0
      BY <3>1, MembersFinite DEF Strays
    <3>3. Members(s.room, r) = {}
      BY <3>2, MembersFinite, FS_EmptySet
    <3>. QED  BY <3>3 DEF Members
  <2>4. RoomsBut(n, st, r)
    BY <1>0, <2>2 DEF RoomsBut
  <2>5. PICK x : x = exit_room(n, c)
    OBVIOUS
  <2>6. /\ RoomsBut(x, st, r) /\ x.room = Put(s.room, c, None) /\ c \notin x.op
        /\ r \in x.rooms /\ Spent(x, c, s.room[c])
    BY <2>2, <2>3, <2>4, <2>5, ExitOK
  <2>7. PICK a : a = arrive_room(x, c, r)
    OBVIOUS
  <2>8. x.room[c] = None
    BY <1>0, <2>6 DEF Put
  <2>9. /\ RoomsBut(a, st, None) /\ a.room = Put(x.room, c, r)
        /\ a.op = x.op /\ a.grant = x.grant /\ a.invite = x.invite
        /\ \A y \in Rooms : y # r => a.occ[y] = x.occ[y]
    BY <2>6, <2>7, <2>8, ArriveOK
  <2>10. e = [a EXCEPT !.op = @ \cup {c}, !.grant[c] = r]
    BY <1>1, <2>1, <2>5, <2>7 DEF enter_room
  <2>11. a \in ChatType /\ a.grant \in [Conns -> Places] /\ [a.grant EXCEPT ![c] = r] \in [Conns -> Places]
         /\ a.op \in SUBSET Conns
    BY <2>9 DEF RoomsBut, ChatType, Places
  <2>12. PICK g \in [Conns -> Places] : g = [a.grant EXCEPT ![c] = r]
    BY <2>11
  <2>13. PICK o \in SUBSET Conns : o = a.op \cup {c}
    BY <2>11
  <2>14. e = [a EXCEPT !.op = o, !.grant = g]
    BY <2>10, <2>12, <2>13
  <2>15. /\ e \in ChatType /\ e.room = a.room /\ e.op = o /\ e.grant = g
         /\ e.occ = a.occ /\ e.rooms = a.rooms /\ e.invite = a.invite
    BY <2>11, <2>14 DEF ChatType, Places
  <2>16. a.room[c] = r /\ \A d \in Conns : d # c => a.room[d] = s.room[d]
    BY <1>0, <2>6, <2>9 DEF Put
  <2>17. \A d \in e.op : e.room[d] \in Rooms /\ e.grant[d] = e.room[d]
    BY <2>9, <2>11, <2>12, <2>13, <2>15, <2>16 DEF RoomsBut
  <2>18. RoomsBut(e, st, None)
    BY <2>9, <2>15, <2>17 DEF RoomsBut
  <2>19. Spent(e, c, s.room[c])
    BY <1>0, <2>3, <2>6, <2>8, <2>9, <2>15 DEF Spent
  <2>. QED  BY <2>15, <2>16, <2>18, <2>19
<1>2. CASE r \in s.rooms /\ (s.room[c] = r \/ ~MayEnter(s, c, r))
  <2>1. e = s
    BY <1>2 DEF enter_room
  <2>. QED  BY <2>1 DEF Spent
<1>3. CASE r \in s.rooms /\ ~(s.room[c] = r \/ ~MayEnter(s, c, r))
  <2>1. PICK x : x = exit_room(s, c)
    OBVIOUS
  <2>2. e = arrive_room(x, c, r) /\ s.room[c] # r
    BY <1>3, <2>1 DEF enter_room
  <2>3. /\ RoomsBut(x, st, None) /\ x.room = Put(s.room, c, None) /\ c \notin x.op
        /\ Spent(x, c, s.room[c])
    BY <2>1, ExitOK
  <2>4. x.room[c] = None
    BY <1>0, <2>3 DEF Put
  <2>5. r \in x.rooms
    <3>1. x.occ \in [Rooms -> Nat] /\ x.room \in [Conns -> Places]
      BY <2>3 DEF RoomsBut, ChatType, Places
    <3>2. x.occ[r] = s.occ[r]
      <4>1. Members(x.room, r) = Members(s.room, r)
        BY <1>0, <2>2, <2>3 DEF Members, Put
      <4>. QED  BY <2>3, <4>1 DEF RoomsBut
    <3>. QED  BY <1>0, <1>3, <2>3, <3>2 DEF RoomsBut
  <2>6. /\ RoomsBut(e, st, None) /\ e.room = Put(x.room, c, r)
        /\ e.op = x.op /\ e.grant = x.grant /\ e.invite = x.invite
        /\ \A y \in Rooms : y # r => e.occ[y] = x.occ[y]
    BY <2>2, <2>3, <2>4, <2>5, ArriveOK
  <2>7. e.room[c] = r /\ \A d \in Conns : d # c => e.room[d] = s.room[d]
    BY <1>0, <2>3, <2>6 DEF Put
  <2>8. Spent(e, c, s.room[c])
    BY <1>0, <2>2, <2>3, <2>4, <2>6 DEF Spent
  <2>. QED  BY <2>6, <2>7, <2>8
<1>. QED  BY <1>1, <1>2, <1>3

(* logout_user forgets the flags and the room. *)
Forgotten(s, c) == [s EXCEPT !.room[c] = None, !.op = @ \ {c}, !.grant[c] = None]

(* What logout_user clears in the connection it frees. *)
LEMMA ForgetParts ==
  ASSUME NEW s \in ChatType, NEW c \in Conns,
         NEW e, e = Forgotten(s, c)
  PROVE  /\ e \in ChatType
         /\ e.room = Put(s.room, c, None) /\ e.op = s.op \ {c}
         /\ e.grant = Put(s.grant, c, None) /\ e.occ = s.occ /\ e.rooms = s.rooms
         /\ e.invite = s.invite
<1>1. s.room \in [Conns -> Places] /\ s.grant \in [Conns -> Places]
  BY DEF ChatType, Places
<1>2. /\ [s.room EXCEPT ![c] = None] \in [Conns -> Places]
      /\ [s.grant EXCEPT ![c] = None] \in [Conns -> Places]
  BY <1>1 DEF Places
<1>3. PICK rm \in [Conns -> Places], g \in [Conns -> Places], o \in SUBSET Conns :
        rm = [s.room EXCEPT ![c] = None] /\ g = [s.grant EXCEPT ![c] = None] /\ o = s.op \ {c}
  BY <1>2 DEF ChatType
<1>4. e = [s EXCEPT !.room = rm, !.op = o, !.grant = g]
  BY <1>3 DEF Forgotten
<1>5. /\ e \in ChatType /\ e.room = rm /\ e.op = o /\ e.grant = g /\ e.occ = s.occ
      /\ e.rooms = s.rooms /\ e.invite = s.invite
  BY <1>4 DEF ChatType, Places
<1>. QED  BY <1>3, <1>5 DEF Put

(* Nobody is in a room any more who was in none. *)
LEMMA ForgetOK ==
  ASSUME NEW st \in Strays, NEW s, RoomsBut(s, st, None), NEW c \in Conns, s.room[c] = None,
         NEW e, e = Forgotten(s, c)
  PROVE  RoomsBut(e, st, None) /\ e.room = s.room /\ e.occ = s.occ /\ e.invite = s.invite
<1>1. s \in ChatType /\ s.room \in [Conns -> Places] /\ s.grant \in [Conns -> Places] /\ s.op \in SUBSET Conns
  BY DEF RoomsBut, ChatType, Places
<1>2. /\ e \in ChatType
      /\ e.room = Put(s.room, c, None) /\ e.op = s.op \ {c}
      /\ e.grant = Put(s.grant, c, None) /\ e.occ = s.occ /\ e.rooms = s.rooms
      /\ e.invite = s.invite
  BY <1>1, ForgetParts
<1>3. e.room = s.room
  BY <1>1, <1>2 DEF Put
<1>4. \A d \in e.op : e.room[d] \in Rooms /\ e.grant[d] = e.room[d]
  BY <1>1, <1>2, <1>3 DEF RoomsBut, Put
<1>. QED  BY <1>2, <1>3, <1>4 DEF RoomsBut

(* An exception of select: the room goes on counting the one who has left. *)
LEMMA StrayOK ==
  ASSUME NEW st \in Strays, NEW s, RoomsBut(s, st, None), NEW c \in Conns,
         NEW r \in Rooms, s.room[c] = r,
         NEW t, t = Put(st, r, st[r] + 1), NEW e, e = Forgotten(s, c)
  PROVE  /\ RoomsBut(e, t, None) /\ e.room = Put(s.room, c, None) /\ t \in Strays /\ t # st
<1>1. s \in ChatType /\ s.room \in [Conns -> Places] /\ s.grant \in [Conns -> Places] /\ s.op \in SUBSET Conns
  BY DEF RoomsBut, ChatType, Places
<1>2. PICK q : q = Put(s.room, c, None)
  OBVIOUS
<1>3. /\ e \in ChatType /\ e.room = q /\ e.op = s.op \ {c}
      /\ e.grant = Put(s.grant, c, None) /\ e.occ = s.occ /\ e.rooms = s.rooms
  BY <1>1, <1>2, ForgetParts
<1>4. /\ Cardinality(Members(q, r)) = Cardinality(Members(s.room, r)) - 1
      /\ \A y \in Rooms : y # r => Members(q, y) = Members(s.room, y)
  BY <1>1, <1>2, OneLess DEF Put
<1>6. t \in Strays /\ t[r] = st[r] + 1 /\ st[r] \in Nat /\ \A y \in Rooms : y # r => t[y] = st[y]
  BY DEF Strays, Put
<1>7. \A y \in Rooms : e.occ[y] = Cardinality(Members(e.room, y)) + t[y]
  <2>1. e.occ[r] = Cardinality(Members(e.room, r)) + t[r]
    BY <1>3, <1>4, <1>6, MembersFinite DEF RoomsBut
  <2>2. \A y \in Rooms : y # r => e.occ[y] = Cardinality(Members(e.room, y)) + t[y]
    BY <1>3, <1>4, <1>6 DEF RoomsBut
  <2>. QED  BY <2>1, <2>2
<1>8. \A d \in e.op : e.room[d] \in Rooms /\ e.grant[d] = e.room[d]
  BY <1>1, <1>2, <1>3 DEF RoomsBut, Put
<1>9. t # st
  BY <1>6
<1>. QED  BY <1>2, <1>3, <1>6, <1>7, <1>8, <1>9 DEF RoomsBut

-----------------------------------------------------------------------------
(* The inductive invariant *)

(* The variables outside the rooms. *)
TypesOK ==
  /\ list \in Seq(Conns) /\ Once(list)
  /\ user \in [Conns -> Users \cup {None}] /\ chatid \in [Conns -> ChatIds \cup {None}]
  /\ dead \in SUBSET Conns /\ deadusers \in Nat /\ old \in SUBSET Conns
  /\ stray \in Strays

RoomsOK == RoomsBut(chat, stray, None)

(* Only a connection has a name, only who has one is in a room, and who was
   kicked out is in none. *)
PeersOK ==
  /\ \A c \in Conns : user[c] = None <=> chatid[c] = None
  /\ \A c \in Conns : user[c] = None => chat.room[c] = None
  /\ \A c \in Conns : c \notin Conn => user[c] = None /\ c \notin dead
  /\ \A c \in dead : chat.room[c] = None

(* Where the loop is. *)
LoopOK ==
  /\ pc \in {"select", "serve", "cmd", "reap"} /\ lines \in 0 .. MaxLines
  /\ pc \in {"select", "reap"} => cur = None
  /\ pc # "cmd" => nxt = None
  /\ pc = "serve" => cur \in Conn \cup {None}
  /\ pc = "cmd" => cur \in Conn /\ nxt \in (Conn \ {cur}) \cup {None}
  /\ pc = "select" => dead = {}

IInv == TypesOK /\ RoomsOK /\ PeersOK /\ LoopOK /\ DeadCounted /\ NickUnique

(* Nobody leaves a room, or one does and is taken off its list. *)
LEMMA NobodyLeaves ==
  ASSUME \A c \in Conns : chat'.room[c] = chat.room[c] \/ chat.room[c] = None
  PROVE  InviteSpent
BY DEF InviteSpent

(* The step property when only c moves. *)
LEMMA OneLeaves ==
  ASSUME IInv, NEW c \in Conns, Spent(chat', c, chat.room[c]),
         \A d \in Conns : d # c => chat'.room[d] = chat.room[d]
  PROVE  InviteSpent
<1>1. chat.room[c] \in Rooms \cup {None}
  BY DEF IInv, RoomsOK, RoomsBut, ChatType
<1>. QED  BY <1>1 DEF InviteSpent, Spent

(* A command that changes only the rooms. *)
LEMMA ChatStepOK ==
  ASSUME IInv, UNCHANGED <<conn, dead, deadusers, stray, old, pc, cur, nxt>>,
         lines' \in 0 .. MaxLines, RoomsBut(chat', stray, None),
         \A c \in Conns : chat'.room[c] # None => chat.room[c] # None
  PROVE  IInv'
<1>. USE DEF IInv, conn
<1>0. Conn' = Conn
  BY DEF Conn
<1>1. TypesOK'
  BY DEF TypesOK
<1>2. RoomsOK'
  BY DEF RoomsOK
<1>3. PeersOK'
  <2>1. \A c \in dead : c \in Conns
    BY DEF TypesOK
  <2>. QED  BY <1>0, <2>1 DEF PeersOK
<1>4. LoopOK'
  BY <1>0 DEF LoopOK
<1>5. DeadCounted' /\ NickUnique'
  BY <1>0 DEF DeadCounted, NickUnique
<1>. QED  BY <1>1, <1>2, <1>3, <1>4, <1>5

(* logout_user *)
LEMMA LogoutOK ==
  ASSUME IInv, NEW c \in Conn, NEW s, logout_user(s, c),
         stray' \in Strays, RoomsBut(chat', stray', None),
         chat'.room[c] = None, \A d \in Conns : d # c => chat'.room[d] = chat.room[d]
  PROVE  /\ TypesOK' /\ RoomsOK' /\ PeersOK' /\ DeadCounted' /\ NickUnique'
         /\ Conn' = Conn \ {c} /\ dead' = dead \ {c}
<1>. USE DEF IInv, logout_user, Freed
<1>1. list \in Seq(Conns) /\ Once(list) /\ list' = Without(list, {c})
  BY DEF TypesOK
<1>2. list' \in Seq(Conns) /\ Once(list') /\ Conn' = Conn \ {c}
  BY <1>1, WithoutOK DEF Conn
<1>3. c \in Conns
  <2>1. PICK i \in DOMAIN list : list[i] = c
    BY DEF Conn, Range
  <2>. QED  BY <1>1, <2>1
<1>4. IsFiniteSet(dead) /\ Cardinality(dead) \in Nat
  <2>1. dead \in SUBSET Conns /\ IsFiniteSet(Conns)
    BY XchatdAssumption DEF TypesOK
  <2>. QED  BY <2>1, FS_Subset, FS_CardinalityType
<1>5. deadusers' = Cardinality(dead') /\ deadusers' \in Nat
  <2>1. dead' = dead \ {c} /\ deadusers = Cardinality(dead)
    BY DEF DeadCounted
  <2>2. /\ IsFiniteSet(dead \ {c})
        /\ Cardinality(dead \ {c}) = IF c \in dead THEN Cardinality(dead) - 1 ELSE Cardinality(dead)
    BY <1>4, FS_RemoveElement
  <2>3. Cardinality(dead \ {c}) \in Nat
    BY <2>2, FS_CardinalityType
  <2>4. deadusers' = IF c \in dead THEN deadusers - 1 ELSE deadusers
    OBVIOUS
  <2>. QED  BY <2>1, <2>2, <2>3, <2>4
<1>6. /\ user' \in [Conns -> Users \cup {None}] /\ user'[c] = None
      /\ \A d \in Conns : d # c => user'[d] = user[d]
  BY <1>3 DEF TypesOK
<1>7. /\ chatid' \in [Conns -> ChatIds \cup {None}] /\ chatid'[c] = None
      /\ \A d \in Conns : d # c => chatid'[d] = chatid[d]
  BY <1>3 DEF TypesOK
<1>8. dead' \in SUBSET Conns /\ old' \in SUBSET Conns /\ dead' = dead \ {c}
  BY DEF TypesOK
<1>9. TypesOK'
  BY <1>2, <1>5, <1>6, <1>7, <1>8 DEF TypesOK
<1>10. RoomsOK'
  BY DEF RoomsOK
<1>11. PeersOK'
  <2>1. \A d \in Conns : user'[d] = None <=> chatid'[d] = None
    BY <1>6, <1>7 DEF PeersOK
  <2>2. \A d \in Conns : user'[d] = None => chat'.room[d] = None
    BY <1>6 DEF PeersOK
  <2>3. \A d \in Conns : d \notin Conn' => user'[d] = None /\ d \notin dead'
    BY <1>2, <1>6, <1>8 DEF PeersOK
  <2>4. \A d \in dead' : chat'.room[d] = None
    BY <1>8 DEF PeersOK
  <2>. QED  BY <2>1, <2>2, <2>3, <2>4 DEF PeersOK
<1>12. NickUnique'
  <2>1. \A d \in Conn' \ dead' : d \in Conn \ dead /\ d # c /\ chatid'[d] = chatid[d]
    <3>1. \A d \in Conn : d \in Conns
      BY <1>1 DEF Conn, Range
    <3>. QED  BY <1>2, <1>7, <1>8, <3>1
  <2>. QED  BY <2>1 DEF NickUnique
<1>. QED  BY <1>2, <1>5, <1>8, <1>9, <1>10, <1>11, <1>12 DEF DeadCounted

-----------------------------------------------------------------------------
(* The commands *)

(* What a command may rely on: cu is in the list. *)
LEMMA CmdFacts ==
  ASSUME IInv, Line
  PROVE  /\ cur \in Conn /\ cur \in Conns /\ lines' \in 0 .. MaxLines /\ Conn \in SUBSET Conns
         /\ RoomsBut(chat, stray, None) /\ stray \in Strays /\ chat.room \in [Conns -> Places]
         /\ chat \in ChatType
<1>1. cur \in Conn /\ lines' \in 0 .. MaxLines
  BY XchatdAssumption DEF IInv, LoopOK, Line
<1>2. Conn \in SUBSET Conns
  BY DEF IInv, TypesOK, Conn, Range
<1>. QED  BY <1>1, <1>2 DEF IInv, TypesOK, RoomsOK, RoomsBut, ChatType, Places

(* /join, into a new room or one that is there. *)
LEMMA JoinStep ==
  ASSUME IInv, NEW r \in Rooms, chat_join(r)
  PROVE  IInv' /\ InviteSpent
<1>1. /\ cur \in Conns /\ lines' \in 0 .. MaxLines
      /\ RoomsBut(chat, stray, None) /\ stray \in Strays
  BY CmdFacts DEF chat_join, Command
<1>2. chat' = enter_room(chat, cur, r) /\ chat.room[cur] # None
  BY DEF chat_join, Changes, Command
<1>3. /\ RoomsBut(chat', stray, None) /\ Spent(chat', cur, chat.room[cur])
      /\ \A d \in Conns : d # cur => chat'.room[d] = chat.room[d]
  BY <1>1, <1>2, EnterOK
<1>4. UNCHANGED <<conn, dead, deadusers, stray, old, pc, cur, nxt>>
  BY DEF chat_join, Changes, Command
<1>5. \A c \in Conns : chat'.room[c] # None => chat.room[c] # None
  BY <1>2, <1>3
<1>6. IInv'
  BY <1>1, <1>3, <1>4, <1>5, ChatStepOK
<1>. QED  BY <1>1, <1>3, <1>6, OneLeaves

(* /bye: out of the room, still connected. *)
LEMMA GoodbyeStep ==
  ASSUME IInv, chat_goodbye
  PROVE  IInv' /\ InviteSpent
<1>1. /\ cur \in Conns /\ lines' \in 0 .. MaxLines /\ chat.room \in [Conns -> Places]
      /\ RoomsBut(chat, stray, None) /\ stray \in Strays
  BY CmdFacts DEF chat_goodbye, Command
<1>2. chat' = exit_room(chat, cur) /\ chat.room[cur] # None
  BY DEF chat_goodbye, Changes, Command
<1>3. /\ RoomsBut(chat', stray, None) /\ Spent(chat', cur, chat.room[cur])
      /\ chat'.room = Put(chat.room, cur, None)
  BY <1>1, <1>2, ExitOK
<1>4. UNCHANGED <<conn, dead, deadusers, stray, old, pc, cur, nxt>>
  BY DEF chat_goodbye, Changes, Command
<1>5. \A d \in Conns : d # cur => chat'.room[d] = chat.room[d]
  BY <1>1, <1>3 DEF Put
<1>6. \A c \in Conns : chat'.room[c] # None => chat.room[c] # None
  BY <1>2, <1>5
<1>7. IInv'
  BY <1>1, <1>3, <1>4, <1>6, ChatStepOK
<1>. QED  BY <1>1, <1>3, <1>5, <1>7, OneLeaves

(* A command of the room's op that changes none of the rooms' counts. *)
LEMMA ListStep ==
  ASSUME IInv, Command, Changes(chat'), chat' \in ChatType,
         chat'.room = chat.room, chat'.occ = chat.occ, chat'.rooms = chat.rooms,
         \A c \in chat'.op : chat.room[c] \in Rooms /\ chat'.grant[c] = chat.room[c]
  PROVE  IInv' /\ InviteSpent
<1>1. lines' \in 0 .. MaxLines /\ RoomsBut(chat, stray, None)
  BY CmdFacts DEF Command
<1>2. RoomsBut(chat', stray, None)
  BY <1>1 DEF RoomsBut
<1>3. UNCHANGED <<conn, dead, deadusers, stray, old, pc, cur, nxt>>
  BY DEF Changes, Command
<1>4. IInv'
  BY <1>1, <1>2, <1>3, ChatStepOK
<1>. QED  BY <1>4, NobodyLeaves

(* A flag is held by somebody in a room, and was given in that room. *)
LEMMA OpsOK ==
  ASSUME IInv
  PROVE  \A c \in chat.op : c \in Conns /\ chat.room[c] \in Rooms /\ chat.grant[c] = chat.room[c]
BY DEF IInv, RoomsOK, RoomsBut, ChatType

(* /op gives and takes the flag, in the room of cu only. *)
LEMMA MakeopStep ==
  ASSUME IInv, NEW x \in Conns, chat_makeop(x)
  PROVE  IInv' /\ InviteSpent
<1>1. chat.room \in [Conns -> Places] /\ chat \in ChatType /\ cur \in Conns
  BY CmdFacts DEF chat_makeop, Command
<1>2. chat.grant \in [Conns -> Places] /\ chat.op \in SUBSET Conns
  BY <1>1 DEF ChatType, Places
<1>3. chat.room[cur] \in Rooms /\ chat.room[x] = chat.room[cur]
  BY <1>1 DEF chat_makeop, Command, Here, Places
<1>4. PICK v \in Places : v = IF x \in chat.op THEN None ELSE chat.room[cur]
  BY <1>3 DEF Places
<1>5. PICK o \in SUBSET Conns : o = IF x \in chat.op THEN chat.op \ {x} ELSE chat.op \cup {x}
  BY <1>2
<1>6. PICK g \in [Conns -> Places] : g = [chat.grant EXCEPT ![x] = v]
  BY <1>2
<1>7. chat' = [chat EXCEPT !.op = o, !.grant = g] /\ Command /\ Changes(chat')
  BY <1>4, <1>5, <1>6 DEF chat_makeop, Changes
<1>8. /\ chat' \in ChatType /\ chat'.room = chat.room /\ chat'.occ = chat.occ
      /\ chat'.rooms = chat.rooms /\ chat'.op = o /\ chat'.grant = g
  BY <1>1, <1>7 DEF ChatType, Places
<1>9. g[x] = v /\ \A c \in Conns : c # x => g[c] = chat.grant[c]
  BY <1>2, <1>6
<1>10. \A c \in chat'.op : chat.room[c] \in Rooms /\ chat'.grant[c] = chat.room[c]
  <2>. SUFFICES ASSUME NEW c \in o PROVE chat.room[c] \in Rooms /\ g[c] = chat.room[c]
    BY <1>8
  <2>1. CASE c = x
    BY <1>3, <1>4, <1>5, <1>9, <2>1
  <2>2. CASE c # x
    <3>1. c \in chat.op /\ c \in Conns
      BY <1>5, <2>2
    <3>. QED  BY <1>9, <2>2, <3>1, OpsOK
  <2>. QED  BY <2>1, <2>2
<1>. QED  BY <1>7, <1>8, <1>10, ListStep

(* /invite *)
LEMMA InviteStep ==
  ASSUME IInv, NEW x \in Conns, chat_invite(x)
  PROVE  IInv' /\ InviteSpent
<1>1. chat.room \in [Conns -> Places] /\ chat \in ChatType /\ cur \in Conns
  BY CmdFacts DEF chat_invite, Command
<1>2. chat.invite \in Lists /\ user[x] \in Users \ Sysops
  BY <1>1 DEF ChatType, Lists, chat_invite
<1>3. PICK r \in Rooms : r = chat.room[cur]
  BY <1>1 DEF chat_invite, Command, Places
<1>4. PICK w \in SUBSET (Users \ Sysops) : w = chat.invite[r] \cup {user[x]}
  BY <1>2 DEF Lists
<1>5. PICK iv \in Lists : iv = [chat.invite EXCEPT ![r] = w]
  BY <1>2 DEF Lists
<1>6. chat' = [chat EXCEPT !.invite = iv] /\ Command /\ Changes(chat')
  BY <1>3, <1>4, <1>5 DEF chat_invite, Changes
<1>7. /\ chat' \in ChatType /\ chat'.room = chat.room /\ chat'.occ = chat.occ
      /\ chat'.rooms = chat.rooms /\ chat'.op = chat.op /\ chat'.grant = chat.grant
  BY <1>1, <1>6 DEF ChatType, Lists
<1>. QED  BY <1>6, <1>7, OpsOK, ListStep

(* /ban and /unban *)
LEMMA BanStep ==
  ASSUME IInv, NEW u \in Users \ Sysops, chat_ban(u) \/ chat_unban(u)
  PROVE  IInv' /\ InviteSpent
<1>1. chat.room \in [Conns -> Places] /\ chat \in ChatType /\ cur \in Conns
  BY CmdFacts DEF chat_ban, chat_unban, Command
<1>2. chat.ban \in Lists
  BY <1>1 DEF ChatType, Lists
<1>3. PICK r \in Rooms : r = chat.room[cur]
  BY <1>1 DEF chat_ban, chat_unban, Command, Places
<1>4. \E w \in SUBSET (Users \ Sysops) :
        chat' = [chat EXCEPT !.ban[r] = w] /\ Command /\ Changes(chat')
  <2>1. chat.ban[r] \cup {u} \in SUBSET (Users \ Sysops) /\ chat.ban[r] \ {u} \in SUBSET (Users \ Sysops)
    BY <1>2 DEF Lists
  <2>2. CASE chat_ban(u)
    BY <1>3, <2>1, <2>2 DEF chat_ban, Changes
  <2>3. CASE chat_unban(u)
    BY <1>3, <2>1, <2>3 DEF chat_unban, Changes
  <2>. QED  BY <2>2, <2>3
<1>5. PICK w \in SUBSET (Users \ Sysops) : chat' = [chat EXCEPT !.ban[r] = w] /\ Command /\ Changes(chat')
  BY <1>4
<1>6. PICK bn \in Lists : bn = [chat.ban EXCEPT ![r] = w]
  BY <1>2 DEF Lists
<1>7. chat' = [chat EXCEPT !.ban = bn]
  BY <1>5, <1>6
<1>8. /\ chat' \in ChatType /\ chat'.room = chat.room /\ chat'.occ = chat.occ
      /\ chat'.rooms = chat.rooms /\ chat'.op = chat.op /\ chat'.grant = chat.grant
  BY <1>1, <1>7 DEF ChatType, Lists
<1>. QED  BY <1>5, <1>8, OpsOK, ListStep

(* /flags: locks and unlocks the room. *)
LEMMA SetroomStep ==
  ASSUME IInv, chat_setroom
  PROVE  IInv' /\ InviteSpent
<1>1. chat.room \in [Conns -> Places] /\ chat \in ChatType /\ cur \in Conns
  BY CmdFacts DEF chat_setroom, Command
<1>2. PICK r \in Rooms : r = chat.room[cur]
  BY <1>1 DEF chat_setroom, Command, Places
<1>3. PICK lk \in SUBSET Rooms :
        lk = IF r \in chat.locked THEN chat.locked \ {r} ELSE chat.locked \cup {r}
  BY <1>1 DEF ChatType
<1>4. chat' = [chat EXCEPT !.locked = lk] /\ Command /\ Changes(chat')
  BY <1>2, <1>3 DEF chat_setroom, Changes
<1>5. /\ chat' \in ChatType /\ chat'.room = chat.room /\ chat'.occ = chat.occ
      /\ chat'.rooms = chat.rooms /\ chat'.op = chat.op /\ chat'.grant = chat.grant
  BY <1>1, <1>4 DEF ChatType
<1>. QED  BY <1>4, <1>5, OpsOK, ListStep

(* /nick: the new chatid was nobody else's. *)
LEMMA NickStep ==
  ASSUME IInv, NEW id \in ChatIds, chat_nick(id)
  PROVE  IInv' /\ InviteSpent
<1>. USE DEF conn
<1>1. cur \in Conn /\ cur \in Conns /\ lines' \in 0 .. MaxLines /\ Conn \in SUBSET Conns
  BY CmdFacts DEF chat_nick, Command
<1>2. /\ UNCHANGED <<list, user, chat, dead, deadusers, old, stray, pc, cur, nxt>>
      /\ chatid' = [chatid EXCEPT ![cur] = id] /\ chat.room[cur] # None
      /\ \A c \in (Conn \ dead) \ {cur} : chatid[c] # id
  BY DEF chat_nick, Command
<1>3. Conn' = Conn /\ id # None
  BY <1>2, XchatdAssumption DEF Conn
<1>4. /\ chatid' \in [Conns -> ChatIds \cup {None}] /\ chatid'[cur] = id
      /\ \A c \in Conns : c # cur => chatid'[c] = chatid[c]
  BY <1>1, <1>2 DEF IInv, TypesOK
<1>5. TypesOK' /\ RoomsOK'
  BY <1>2, <1>4 DEF IInv, TypesOK, RoomsOK
<1>6. PeersOK'
  BY <1>1, <1>2, <1>3, <1>4 DEF IInv, PeersOK
<1>7. LoopOK' /\ DeadCounted'
  BY <1>1, <1>2, <1>3 DEF IInv, LoopOK, DeadCounted
<1>8. NickUnique'
  <2>. SUFFICES ASSUME NEW c \in Conn \ dead, NEW d \in Conn \ dead, c # d, chatid'[c] # None
                PROVE  chatid'[c] # chatid'[d]
    BY <1>2, <1>3 DEF NickUnique
  <2>. QED  BY <1>1, <1>2, <1>4 DEF IInv, NickUnique
<1>9. InviteSpent
  BY <1>2, NobodyLeaves
<1>. QED  BY <1>5, <1>6, <1>7, <1>8, <1>9 DEF IInv

(* Back into the main room, or nowhere. *)
LEMMA ReenterOK ==
  ASSUME NEW st \in Strays, NEW s, RoomsBut(s, st, None), NEW c \in Conns, s.room[c] = None,
         NEW e, e = enter_room(s, c, Main)
  PROVE  /\ RoomsBut(e, st, None) /\ \A d \in Conns : d # c => e.room[d] = s.room[d]
         /\ e.invite = s.invite /\ \A y \in Rooms : y # Main => e.occ[y] = s.occ[y]
<1>1. Main \in s.rooms /\ s \in ChatType /\ s.room \in [Conns -> Places] /\ s.op \in SUBSET Conns
      /\ Main \in Rooms /\ None \notin Rooms
  BY XchatdAssumption DEF RoomsBut, ChatType, Places
<1>2. exit_room(s, c) = s
  BY DEF exit_room
<1>3. e = s \/ e = arrive_room(s, c, Main)
  BY <1>1, <1>2 DEF enter_room
<1>4. CASE e = s
  BY <1>4
<1>5. CASE e = arrive_room(s, c, Main)
  <2>1. c \notin s.op
    BY <1>1 DEF RoomsBut
  <2>2. /\ RoomsBut(e, st, None) /\ e.room = Put(s.room, c, Main) /\ e.invite = s.invite
        /\ \A y \in Rooms : y # Main => e.occ[y] = s.occ[y]
    BY <1>1, <1>5, <2>1, ArriveOK
  <2>. QED  BY <1>1, <2>2 DEF Put
<1>. QED  BY <1>3, <1>4, <1>5

(* /kick: out of the main room the connection is only marked dead, so that
   the pointers of the loop stay good; out of another it is led back. *)
LEMMA KickStep ==
  ASSUME IInv, NEW x \in Conns, chat_kick(x)
  PROVE  IInv' /\ InviteSpent
<1>. USE DEF conn
<1>1. /\ cur \in Conn /\ cur \in Conns /\ lines' \in 0 .. MaxLines /\ chat.room \in [Conns -> Places]
      /\ RoomsBut(chat, stray, None) /\ stray \in Strays /\ Conn \in SUBSET Conns
  BY CmdFacts DEF chat_kick
<1>2. /\ UNCHANGED <<list, user, chatid, old, pc, cur, nxt, stray>> /\ pc = "cmd"
      /\ chat.room[cur] # None /\ x \in Conn \ dead /\ chat.room[x] = chat.room[cur]
  BY DEF chat_kick, Line, Here
<1>3. PICK w : w = exit_room(chat, x)
  OBVIOUS
<1>4. /\ RoomsBut(w, stray, None) /\ w.room = Put(chat.room, x, None) /\ Spent(w, x, chat.room[x])
  BY <1>1, <1>3, ExitOK
<1>5. w.room[x] = None /\ \A d \in Conns : d # x => w.room[d] = chat.room[d]
  BY <1>1, <1>4 DEF Put
<1>6. CASE chat.room[cur] = Main
  <2>1. chat' = w /\ dead' = dead \cup {x} /\ deadusers' = deadusers + 1
    BY <1>3, <1>6 DEF chat_kick
  <2>2. InviteSpent
    BY <1>4, <1>5, <2>1, OneLeaves
  <2>3. Conn' = Conn
    BY <1>2 DEF Conn
  <2>4. deadusers' = Cardinality(dead') /\ deadusers' \in Nat /\ dead' \in SUBSET Conns
    <3>1. dead \in SUBSET Conns /\ IsFiniteSet(Conns) /\ deadusers = Cardinality(dead) /\ deadusers \in Nat
      BY XchatdAssumption DEF IInv, TypesOK, DeadCounted
    <3>2. IsFiniteSet(dead)
      BY <3>1, FS_Subset
    <3>3. Cardinality(dead \cup {x}) = Cardinality(dead) + 1
      BY <1>2, <3>2, FS_AddElement
    <3>. QED  BY <2>1, <3>1, <3>3
  <2>5. TypesOK' /\ RoomsOK'
    BY <1>2, <1>4, <2>1, <2>4 DEF IInv, TypesOK, RoomsOK
  <2>6. PeersOK'
    <3>1. \A c \in dead : c \in Conns /\ chat'.room[c] = None
      BY <1>5, <2>1 DEF IInv, TypesOK, PeersOK
    <3>2. \A c \in Conns : user[c] = None => chat'.room[c] = None
      BY <1>5, <2>1 DEF IInv, PeersOK
    <3>. QED  BY <1>2, <1>5, <2>1, <2>3, <3>1, <3>2 DEF IInv, PeersOK
  <2>7. LoopOK'
    BY <1>1, <1>2, <2>3 DEF IInv, LoopOK
  <2>8. NickUnique'
    BY <1>2, <2>1, <2>3 DEF IInv, NickUnique
  <2>. QED  BY <2>2, <2>4, <2>5, <2>6, <2>7, <2>8 DEF IInv, DeadCounted
<1>7. CASE chat.room[cur] # Main
  <2>1. chat' = enter_room(w, x, Main) /\ UNCHANGED <<dead, deadusers>>
    BY <1>3, <1>7 DEF chat_kick
  <2>2. /\ RoomsBut(chat', stray, None) /\ \A d \in Conns : d # x => chat'.room[d] = w.room[d]
        /\ chat'.invite = w.invite /\ \A y \in Rooms : y # Main => chat'.occ[y] = w.occ[y]
    BY <1>1, <1>4, <1>5, <2>1, ReenterOK
  <2>3. \A c \in Conns : chat'.room[c] # None => chat.room[c] # None
    BY <1>2, <1>5, <2>2
  <2>4. IInv'
    <3>1. UNCHANGED <<conn, dead, deadusers, stray, old, pc, cur, nxt>>
      BY <1>2, <2>1
    <3>. QED  BY <1>1, <2>2, <2>3, <3>1, ChatStepOK
  <2>5. Spent(chat', x, chat.room[x])
    <3>. SUFFICES ASSUME chat.room[x] \in Rooms
                  PROVE  user[x] \notin chat'.invite[chat.room[x]]
      BY DEF Spent
    <3>1. w.room[x] # chat.room[x]
      BY <1>5, XchatdAssumption
    <3>2. chat.room[x] # Main
      BY <1>2, <1>7
    <3>. QED  BY <1>4, <2>2, <3>1, <3>2 DEF Spent
  <2>. QED  BY <1>5, <2>2, <2>4, <2>5, OneLeaves
<1>. QED  BY <1>6, <1>7

(* login_user: the chatid was free, and the flags of a former visit go. *)
LEMMA LoginStep ==
  ASSUME IInv, NEW u \in Users, NEW id \in ChatIds, login_user(u, id)
  PROVE  IInv' /\ InviteSpent
<1>. USE DEF conn
<1>0. None \notin Users /\ None \notin ChatIds /\ Main \in Rooms /\ None \notin Rooms
  BY XchatdAssumption
<1>1. /\ cur \in Conn /\ cur \in Conns /\ lines' \in 0 .. MaxLines /\ chat.room \in [Conns -> Places]
      /\ RoomsBut(chat, stray, None) /\ stray \in Strays /\ Conn \in SUBSET Conns /\ chat \in ChatType
  BY CmdFacts DEF login_user
<1>2. /\ UNCHANGED <<list, dead, deadusers, pc, cur, nxt, stray>> /\ chat.room[cur] = None
      /\ pc = "cmd" /\ cur \notin dead
  BY DEF login_user, Line
<1>3. CASE ~Free(id)
  <2>1. UNCHANGED <<user, chatid, chat, old>>
    BY <1>3 DEF login_user
  <2>2. IInv'
    BY <1>1, <1>2, <2>1, ChatStepOK
  <2>. QED  BY <2>1, <2>2, NobodyLeaves
<1>4. CASE Free(id)
  <2>1. PICK o \in SUBSET Conns, g \in [Conns -> Places] :
          o = chat.op \ {cur} /\ g = [chat.grant EXCEPT ![cur] = None]
    BY <1>1 DEF ChatType, Places
  <2>2. PICK s : s = [chat EXCEPT !.op = o, !.grant = g]
    OBVIOUS
  <2>3. chat' = arrive_room(s, cur, Main)
    BY <1>4, <2>1, <2>2 DEF login_user
  <2>4. /\ s \in ChatType /\ s.room = chat.room /\ s.occ = chat.occ /\ s.rooms = chat.rooms
        /\ s.op = o /\ s.grant = g /\ s.invite = chat.invite
    BY <1>1, <2>2 DEF ChatType, Places
  <2>5. \A c \in o : c \in Conns /\ chat.room[c] \in Rooms /\ g[c] = chat.room[c]
    <3>. SUFFICES ASSUME NEW c \in o PROVE c \in Conns /\ chat.room[c] \in Rooms /\ g[c] = chat.room[c]
      OBVIOUS
    <3>1. c \in chat.op /\ c # cur /\ c \in Conns
      BY <2>1
    <3>2. g[c] = chat.grant[c]
      BY <1>1, <2>1, <3>1 DEF ChatType
    <3>. QED  BY <3>1, <3>2, OpsOK
  <2>6. RoomsBut(s, stray, None)
    BY <1>1, <2>4, <2>5 DEF RoomsBut
  <2>7. Main \in s.rooms /\ cur \notin s.op /\ s.room[cur] = None
    BY <1>0, <1>1, <1>2, <2>1, <2>4 DEF RoomsBut
  <2>8. RoomsBut(chat', stray, None) /\ chat'.room = Put(chat.room, cur, Main)
    BY <1>0, <1>1, <2>3, <2>4, <2>6, <2>7, ArriveOK
  <2>9. chat'.room[cur] = Main /\ \A c \in Conns : c # cur => chat'.room[c] = chat.room[c]
    BY <1>1, <2>8 DEF Put
  <2>10. /\ user' = [user EXCEPT ![cur] = u] /\ chatid' = [chatid EXCEPT ![cur] = id]
         /\ old' = old \ {cur} /\ Conn' = Conn
    BY <1>2, <1>4 DEF login_user, Conn
  <2>11. /\ user' \in [Conns -> Users \cup {None}] /\ user'[cur] = u
         /\ \A c \in Conns : c # cur => user'[c] = user[c]
    BY <1>1, <2>10 DEF IInv, TypesOK
  <2>12. /\ chatid' \in [Conns -> ChatIds \cup {None}] /\ chatid'[cur] = id
         /\ \A c \in Conns : c # cur => chatid'[c] = chatid[c]
    BY <1>1, <2>10 DEF IInv, TypesOK
  <2>13. TypesOK' /\ RoomsOK'
    BY <1>2, <2>8, <2>10, <2>11, <2>12 DEF IInv, TypesOK, RoomsOK
  <2>14. PeersOK'
    <3>1. \A c \in dead : c \in Conns /\ c # cur
      BY <1>2 DEF IInv, TypesOK
    <3>2. \A c \in Conns : user'[c] = None <=> chatid'[c] = None
      BY <1>0, <2>11, <2>12 DEF IInv, PeersOK
    <3>3. \A c \in Conns : user'[c] = None => chat'.room[c] = None
      BY <1>0, <2>9, <2>11 DEF IInv, PeersOK
    <3>4. \A c \in Conns : c \notin Conn => user'[c] = None /\ c \notin dead
      BY <1>1, <2>11 DEF IInv, PeersOK
    <3>5. \A c \in dead : chat'.room[c] = None
      BY <2>9, <3>1 DEF IInv, PeersOK
    <3>. QED  BY <1>2, <2>10, <3>2, <3>3, <3>4, <3>5 DEF PeersOK
  <2>15. LoopOK' /\ DeadCounted'
    BY <1>1, <1>2, <2>10 DEF IInv, LoopOK, DeadCounted
  <2>16. NickUnique'
    <3>. SUFFICES ASSUME NEW c \in Conn \ dead, NEW d \in Conn \ dead, c # d, chatid'[c] # None
                  PROVE  chatid'[c] # chatid'[d]
      BY <1>2, <2>10 DEF NickUnique
    <3>. QED  BY <1>1, <1>4, <2>12 DEF IInv, NickUnique, Free
  <2>17. InviteSpent
    BY <1>2, <2>9, NobodyLeaves
  <2>. QED  BY <2>13, <2>14, <2>15, <2>16, <2>17 DEF IInv
<1>. QED  BY <1>3, <1>4

-----------------------------------------------------------------------------
(* The main loop *)

(* The connections, and the dead among them. *)
LEMMA ConnFacts ==
  ASSUME IInv
  PROVE  /\ Conn \in SUBSET Conns /\ list \in Seq(Conns) /\ Once(list)
         /\ RoomsBut(chat, stray, None) /\ stray \in Strays /\ chat.room \in [Conns -> Places]
         /\ \A c \in dead : c \in Conn /\ chat.room[c] = None
<1>1. Conn \in SUBSET Conns
  BY DEF IInv, TypesOK, Conn, Range
<1>. QED  BY <1>1 DEF IInv, TypesOK, PeersOK, RoomsOK, RoomsBut, ChatType, Places

(* logout_user of one who is in no room *)
LEMMA QuitOK ==
  ASSUME IInv, NEW c \in Conn, chat.room[c] = None, logout_user(chat, c), stray' = stray
  PROVE  /\ TypesOK' /\ RoomsOK' /\ PeersOK' /\ DeadCounted' /\ NickUnique'
         /\ Conn' = Conn \ {c} /\ InviteSpent
<1>1. c \in Conns /\ RoomsBut(chat, stray, None) /\ stray \in Strays
  BY ConnFacts
<1>2. chat' = Forgotten(chat, c)
  BY DEF logout_user, Forgotten
<1>3. RoomsBut(chat', stray, None) /\ chat'.room = chat.room
  BY <1>1, <1>2, ForgetOK
<1>4. RoomsBut(chat', stray', None) /\ stray' \in Strays /\ chat'.room[c] = None
      /\ \A d \in Conns : d # c => chat'.room[d] = chat.room[d]
  BY <1>1, <1>3
<1>5. TypesOK' /\ RoomsOK' /\ PeersOK' /\ DeadCounted' /\ NickUnique' /\ Conn' = Conn \ {c}
  BY <1>4, LogoutOK
<1>. QED  BY <1>3, <1>5, NobodyLeaves

(* A connection that says anything but a login is closed while it is served:
   cunext is another one. *)
LEMMA RejectedStep ==
  ASSUME IInv, Rejected
  PROVE  IInv' /\ InviteSpent
<1>1. cur \in Conn /\ lines' \in 0 .. MaxLines
  BY CmdFacts DEF Rejected
<1>2. /\ chat.room[cur] = None /\ logout_user(chat, cur) /\ stray' = stray /\ pc = "cmd"
      /\ pc' = "serve" /\ cur' = nxt /\ nxt' = None
  BY DEF Rejected, Line
<1>3. /\ TypesOK' /\ RoomsOK' /\ PeersOK' /\ DeadCounted' /\ NickUnique'
      /\ Conn' = Conn \ {cur} /\ InviteSpent
  BY <1>1, <1>2, QuitOK
<1>4. LoopOK'
  BY <1>1, <1>2, <1>3 DEF IInv, LoopOK
<1>. QED  BY <1>3, <1>4 DEF IInv

(* A chatter who kicked himself out is freed by main, not by chat_kick. *)
LEMMA ServedDeadStep ==
  ASSUME IInv, ServedDead
  PROVE  IInv' /\ InviteSpent
<1>1. /\ cur \in dead /\ logout_user(chat, cur) /\ stray' = stray /\ pc = "cmd"
      /\ pc' = "serve" /\ cur' = nxt /\ nxt' = None /\ lines' = 0
  BY DEF ServedDead, GoOn
<1>2. cur \in Conn /\ chat.room[cur] = None
  BY <1>1, ConnFacts
<1>3. /\ TypesOK' /\ RoomsOK' /\ PeersOK' /\ DeadCounted' /\ NickUnique'
      /\ Conn' = Conn \ {cur} /\ InviteSpent
  BY <1>1, <1>2, QuitOK
<1>4. LoopOK'
  BY <1>1, <1>2, <1>3, XchatdAssumption DEF IInv, LoopOK
<1>. QED  BY <1>3, <1>4 DEF IInv

(* The connection is lost: out of the room first, then out of the list. *)
LEMMA HangupStep ==
  ASSUME IInv, Hangup
  PROVE  IInv' /\ InviteSpent
<1>1. /\ Conn \in SUBSET Conns /\ list \in Seq(Conns) /\ Once(list)
      /\ RoomsBut(chat, stray, None) /\ stray \in Strays /\ chat.room \in [Conns -> Places]
  BY ConnFacts
<1>2. /\ logout_user(exit_room(chat, cur), cur) /\ stray' = stray /\ pc = "serve"
      /\ pc' = pc /\ cur' = After(cur) /\ nxt' = nxt /\ lines' = lines /\ cur # None
  BY DEF Hangup
<1>3. cur \in Conn /\ cur \in Conns
  BY <1>1, <1>2 DEF IInv, LoopOK
<1>4. PICK w : w = exit_room(chat, cur)
  OBVIOUS
<1>5. RoomsBut(w, stray, None) /\ w.room = Put(chat.room, cur, None) /\ Spent(w, cur, chat.room[cur])
  BY <1>1, <1>3, <1>4, ExitOK
<1>6. w.room[cur] = None /\ \A d \in Conns : d # cur => w.room[d] = chat.room[d]
  BY <1>1, <1>3, <1>5 DEF Put
<1>7. chat' = Forgotten(w, cur) /\ logout_user(w, cur)
  BY <1>2, <1>4 DEF logout_user, Forgotten
<1>8. RoomsBut(chat', stray, None) /\ chat'.room = w.room /\ chat'.occ = w.occ /\ chat'.invite = w.invite
  BY <1>1, <1>3, <1>5, <1>6, <1>7, ForgetOK
<1>9. /\ stray' \in Strays /\ RoomsBut(chat', stray', None)
      /\ chat'.room[cur] = None /\ \A d \in Conns : d # cur => chat'.room[d] = chat.room[d]
  BY <1>1, <1>2, <1>6, <1>8
<1>10. TypesOK' /\ RoomsOK' /\ PeersOK' /\ DeadCounted' /\ NickUnique' /\ Conn' = Conn \ {cur}
  BY <1>3, <1>7, <1>9, LogoutOK
<1>11. InviteSpent
  <2>1. Spent(chat', cur, chat.room[cur])
    BY <1>5, <1>8 DEF Spent
  <2>. QED  BY <1>3, <1>9, <2>1, OneLeaves
<1>12. cur' \in Conn' \cup {None}
  BY <1>1, <1>2, <1>3, <1>10, AfterOK
<1>13. LoopOK'
  BY <1>2, <1>12 DEF IInv, LoopOK
<1>. QED  BY <1>10, <1>11, <1>13 DEF IInv

(* select's exception: out of the list, but still counted by the room. *)
LEMMA ExceptionStep ==
  ASSUME IInv, Exception
  PROVE  IInv' /\ InviteSpent
<1>1. /\ Conn \in SUBSET Conns /\ list \in Seq(Conns) /\ Once(list)
      /\ RoomsBut(chat, stray, None) /\ stray \in Strays /\ chat.room \in [Conns -> Places]
  BY ConnFacts
<1>2. /\ logout_user(chat, cur) /\ pc = "serve"
      /\ pc' = pc /\ cur' = After(cur) /\ nxt' = nxt /\ lines' = lines /\ cur # None
      /\ stray' = IF chat.room[cur] = None THEN stray ELSE [stray EXCEPT ![chat.room[cur]] = @ + 1]
  BY Zenon DEF Exception
<1>3. cur \in Conn /\ cur \in Conns
  BY <1>1, <1>2 DEF IInv, LoopOK
<1>4. cur' \in (Conn \ {cur}) \cup {None}
  BY <1>1, <1>2, <1>3, AfterOK
<1>5. /\ TypesOK' /\ RoomsOK' /\ PeersOK' /\ DeadCounted' /\ NickUnique'
      /\ Conn' = Conn \ {cur} /\ InviteSpent
  <2>1. CASE chat.room[cur] = None
    BY <1>2, <1>3, <2>1, QuitOK
  <2>2. CASE chat.room[cur] # None
    <3>1. PICK r \in Rooms : r = chat.room[cur]
      BY <1>1, <1>3, <2>2 DEF Places
    <3>2. stray' = Put(stray, r, stray[r] + 1)
      BY <1>2, <2>2, <3>1 DEF Put
    <3>3. chat' = Forgotten(chat, cur)
      BY <1>2 DEF logout_user, Forgotten
    <3>4. /\ RoomsBut(chat', stray', None) /\ chat'.room = Put(chat.room, cur, None)
          /\ stray' \in Strays /\ stray' # stray
      BY <1>1, <1>3, <3>1, <3>2, <3>3, StrayOK
    <3>5. chat'.room[cur] = None /\ \A d \in Conns : d # cur => chat'.room[d] = chat.room[d]
      BY <1>1, <1>3, <3>4 DEF Put
    <3>6. TypesOK' /\ RoomsOK' /\ PeersOK' /\ DeadCounted' /\ NickUnique' /\ Conn' = Conn \ {cur}
      BY <1>2, <1>3, <3>4, <3>5, LogoutOK
    <3>7. InviteSpent
      <4>1. stray'[r] > stray[r]
        BY <1>1, <3>1, <3>2 DEF Put, Strays
      <4>. QED  BY <3>1, <3>5, <4>1 DEF InviteSpent
    <3>. QED  BY <3>6, <3>7
  <2>. QED  BY <2>1, <2>2
<1>6. LoopOK'
  BY <1>2, <1>4, <1>5 DEF IInv, LoopOK
<1>. QED  BY <1>5, <1>6 DEF IInv

(* The second loop of main: when deadusers is zero nobody is dead. *)
LEMMA ReapStep ==
  ASSUME IInv, Reap
  PROVE  IInv' /\ InviteSpent
<1>. USE DEF conn
<1>1. UNCHANGED <<cur, nxt, lines, stray>> /\ pc = "reap"
  BY DEF Reap
<1>2. CASE deadusers > 0 /\ dead # {}
  <2>1. PICK c \in dead : logout_user(chat, c)
    BY <1>2 DEF Reap
  <2>2. c \in Conn /\ chat.room[c] = None
    BY ConnFacts
  <2>3. /\ TypesOK' /\ RoomsOK' /\ PeersOK' /\ DeadCounted' /\ NickUnique' /\ InviteSpent
    BY <1>1, <2>1, <2>2, QuitOK
  <2>4. pc' = pc
    BY <1>2 DEF Reap
  <2>5. LoopOK'
    BY <1>1, <2>4 DEF IInv, LoopOK
  <2>. QED  BY <2>3, <2>5 DEF IInv
<1>3. CASE ~(deadusers > 0 /\ dead # {})
  <2>1. UNCHANGED <<list, user, chatid, chat, dead, deadusers, old>> /\ pc' = "select"
    BY <1>3 DEF Reap
  <2>2. dead = {}
    <3>1. dead \in SUBSET Conns /\ IsFiniteSet(Conns) /\ deadusers \in Nat /\ deadusers = Cardinality(dead)
      BY XchatdAssumption DEF IInv, TypesOK, DeadCounted
    <3>2. IsFiniteSet(dead)
      BY <3>1, FS_Subset
    <3>3. CASE Cardinality(dead) = 0
      BY <3>2, <3>3, FS_EmptySet
    <3>. QED  BY <1>3, <3>1, <3>3
  <2>3. Conn' = Conn
    BY <2>1 DEF Conn
  <2>4. TypesOK' /\ RoomsOK'
    BY <1>1, <2>1 DEF IInv, TypesOK, RoomsOK
  <2>5. PeersOK' /\ DeadCounted' /\ NickUnique'
    BY <2>1, <2>3 DEF IInv, PeersOK, DeadCounted, NickUnique
  <2>6. LoopOK'
    BY <1>1, <2>1, <2>2 DEF IInv, LoopOK
  <2>7. InviteSpent
    BY <2>1, NobodyLeaves
  <2>. QED  BY <2>4, <2>5, <2>6, <2>7 DEF IInv
<1>. QED  BY <1>2, <1>3

(* Only the pointers of the loop, or who is late, are different. *)
LEMMA LoopStep ==
  ASSUME IInv, UNCHANGED <<conn, chat, dead, deadusers, stray>>, old' \in SUBSET Conns, LoopOK'
  PROVE  IInv' /\ InviteSpent
<1>. USE DEF conn
<1>1. Conn' = Conn
  BY DEF Conn
<1>2. TypesOK' /\ RoomsOK'
  BY DEF IInv, TypesOK, RoomsOK
<1>3. PeersOK' /\ DeadCounted' /\ NickUnique'
  BY <1>1 DEF IInv, PeersOK, DeadCounted, NickUnique
<1>4. InviteSpent
  BY NobodyLeaves
<1>. QED  BY <1>2, <1>3, <1>4 DEF IInv

(* The steps that only move cu and cunext, or let time pass. *)
LEMMA PointerSteps ==
  ASSUME IInv, Ready \/ Skip \/ Receive \/ Served \/ AllServed \/ \E c \in Conns : Age(c)
  PROVE  IInv' /\ InviteSpent
<1>. USE DEF conn
<1>1. /\ Conn \in SUBSET Conns /\ list \in Seq(Conns) /\ Once(list)
  BY ConnFacts
<1>2. old \in SUBSET Conns /\ MaxLines \in Nat
  BY XchatdAssumption DEF IInv, TypesOK
<1>3. CASE Ready
  <2>1. /\ UNCHANGED <<list, user, chatid, chat, dead, deadusers, old, nxt, lines, stray>>
        /\ pc = "select" /\ list # <<>> /\ pc' = "serve" /\ cur' = Head(list)
    BY <1>3 DEF Ready
  <2>2. cur' \in Conn /\ Conn' = Conn
    <3>1. 1 \in DOMAIN list /\ Head(list) = list[1]
      BY <1>1, <2>1
    <3>. QED  BY <2>1, <3>1 DEF Conn, Range
  <2>3. LoopOK'
    BY <2>1, <2>2 DEF IInv, LoopOK
  <2>. QED  BY <1>2, <2>1, <2>3, LoopStep
<1>4. CASE Skip
  <2>1. /\ UNCHANGED <<list, user, chatid, chat, dead, deadusers, old, pc, nxt, lines, stray>>
        /\ pc = "serve" /\ cur # None /\ cur' = After(cur)
    BY <1>4 DEF Skip
  <2>2. cur' \in Conn \cup {None} /\ Conn' = Conn
    <3>1. cur \in Conn
      BY <2>1 DEF IInv, LoopOK
    <3>. QED  BY <1>1, <2>1, <3>1, AfterOK DEF Conn
  <2>3. LoopOK'
    BY <2>1, <2>2 DEF IInv, LoopOK
  <2>. QED  BY <1>2, <2>1, <2>3, LoopStep
<1>5. CASE Receive
  <2>1. /\ UNCHANGED <<list, user, chatid, chat, dead, deadusers, old, cur, stray>>
        /\ pc = "serve" /\ cur # None /\ pc' = "cmd" /\ nxt' = After(cur) /\ lines' = MaxLines
    BY <1>5 DEF Receive
  <2>2. cur \in Conn
    BY <2>1 DEF IInv, LoopOK
  <2>3. nxt' \in (Conn \ {cur}) \cup {None} /\ Conn' = Conn
    BY <1>1, <2>1, <2>2, AfterOK DEF Conn
  <2>4. LoopOK'
    BY <1>2, <2>1, <2>2, <2>3 DEF IInv, LoopOK
  <2>. QED  BY <1>2, <2>1, <2>4, LoopStep
<1>6. CASE Served
  <2>1. /\ UNCHANGED <<list, user, chatid, chat, dead, deadusers, old, stray>>
        /\ pc = "cmd" /\ pc' = "serve" /\ cur' = nxt /\ nxt' = None /\ lines' = 0
    BY <1>6 DEF Served, GoOn
  <2>2. Conn' = Conn
    BY <2>1 DEF Conn
  <2>3. LoopOK'
    BY <1>2, <2>1, <2>2 DEF IInv, LoopOK
  <2>. QED  BY <1>2, <2>1, <2>3, LoopStep
<1>7. CASE AllServed
  <2>1. /\ UNCHANGED <<list, user, chatid, chat, dead, deadusers, old, cur, nxt, lines, stray>>
        /\ pc = "serve" /\ cur = None /\ pc' = "reap"
    BY <1>7 DEF AllServed
  <2>2. LoopOK'
    BY <2>1 DEF IInv, LoopOK
  <2>. QED  BY <1>2, <2>1, <2>2, LoopStep
<1>8. ASSUME NEW c \in Conns, Age(c) PROVE IInv' /\ InviteSpent
  <2>1. UNCHANGED <<list, user, chatid, chat, dead, deadusers, pc, cur, nxt, lines, stray>>
        /\ old' = old \cup {c}
    BY <1>8 DEF Age, loop
  <2>2. Conn' = Conn /\ old' \in SUBSET Conns
    BY <1>2, <2>1 DEF Conn
  <2>3. LoopOK'
    BY <2>1, <2>2 DEF IInv, LoopOK
  <2>. QED  BY <2>1, <2>2, <2>3, LoopStep
<1>. QED  BY <1>3, <1>4, <1>5, <1>6, <1>7, <1>8

(* A new connection comes first in the list. *)
LEMMA AcceptStep ==
  ASSUME IInv, NEW c \in Conns, Accept(c)
  PROVE  IInv' /\ InviteSpent
<1>1. list \in Seq(Conns) /\ Once(list) /\ Conn \in SUBSET Conns
  BY ConnFacts
<1>2. /\ UNCHANGED <<user, chatid, chat, dead, deadusers, old, nxt, lines, stray>>
      /\ pc = "select" /\ c \notin Conn /\ list' = <<c>> \o list /\ pc' = "serve" /\ cur' = c
  BY DEF Accept
<1>3. PICK n \in Nat : n = Len(list) /\ DOMAIN list = 1 .. n
  BY <1>1
<1>4. /\ list' \in Seq(Conns) /\ Len(list') = n + 1 /\ DOMAIN list' = 1 .. n + 1 /\ list'[1] = c
      /\ \A i \in 2 .. n + 1 : list'[i] = list[i - 1]
  BY <1>1, <1>2, <1>3
<1>5. Conn' = Conn \cup {c}
  <2>1. ASSUME NEW i \in 1 .. n + 1 PROVE list'[i] \in Conn \cup {c}
    <3>1. CASE i = 1
      BY <1>4, <3>1
    <3>2. CASE i # 1
      <4>1. i \in 2 .. n + 1 /\ i - 1 \in 1 .. n
        BY <3>2
      <4>. QED  BY <1>3, <1>4, <4>1 DEF Conn, Range
    <3>. QED  BY <3>1, <3>2
  <2>2. ASSUME NEW i \in 1 .. n PROVE \E k \in 1 .. n + 1 : list'[k] = list[i]
    <3>1. i + 1 \in 2 .. n + 1 /\ i + 1 \in 1 .. n + 1 /\ (i + 1) - 1 = i
      OBVIOUS
    <3>. QED  BY <1>4, <3>1
  <2>3. 1 \in 1 .. n + 1
    OBVIOUS
  <2>4. Conn' = {list'[i] : i \in 1 .. n + 1} /\ Conn = {list[i] : i \in 1 .. n}
    BY <1>3, <1>4 DEF Conn, Range
  <2>5. \A d \in Conn' : d \in Conn \cup {c}
    BY <2>1, <2>4
  <2>6. c \in Conn'
    BY <1>4, <2>3, <2>4
  <2>7. \A d \in Conn : d \in Conn'
    BY <2>2, <2>4
  <2>. QED  BY <2>5, <2>6, <2>7
<1>6. Once(list')
  <2>. SUFFICES ASSUME NEW i \in 1 .. n + 1, NEW j \in 1 .. n + 1, i < j, list'[i] = list'[j] PROVE FALSE
    BY <1>4 DEF Once
  <2>1. j \in 2 .. n + 1 /\ j - 1 \in 1 .. n /\ list'[j] = list[j - 1]
    BY <1>4
  <2>2. CASE i = 1
    BY <1>2, <1>3, <1>4, <2>1, <2>2 DEF Conn, Range
  <2>3. CASE i # 1
    <3>1. i \in 2 .. n + 1 /\ i - 1 \in 1 .. n /\ list'[i] = list[i - 1]
      BY <1>4, <2>3
    <3>. QED  BY <1>1, <1>3, <2>1, <3>1 DEF Once
  <2>. QED  BY <2>2, <2>3
<1>7. TypesOK' /\ RoomsOK'
  BY <1>2, <1>4, <1>6 DEF IInv, TypesOK, RoomsOK
<1>8. PeersOK' /\ DeadCounted'
  BY <1>2, <1>5 DEF IInv, PeersOK, DeadCounted
<1>9. LoopOK'
  BY <1>2, <1>5 DEF IInv, LoopOK
<1>10. NickUnique'
  <2>1. chatid[c] = None
    BY <1>2 DEF IInv, PeersOK
  <2>. QED  BY <1>2, <1>5, <2>1 DEF IInv, NickUnique
<1>11. InviteSpent
  BY <1>2, NobodyLeaves
<1>. QED  BY <1>7, <1>8, <1>9, <1>10, <1>11 DEF IInv

(* Only connections without a name expire: nobody leaves a room by it. *)
LEMMA ExpireStep ==
  ASSUME IInv, Expire
  PROVE  IInv' /\ InviteSpent
<1>1. list \in Seq(Conns) /\ Once(list) /\ Conn \in SUBSET Conns
  BY ConnFacts
<1>2. PICK gone : gone = {c \in old : user[c] = None}
  OBVIOUS
<1>3. /\ UNCHANGED <<user, chatid, chat, dead, deadusers, pc, cur, nxt, lines, stray>>
      /\ pc = "select" /\ list' = Without(list, gone) /\ old' = old \ gone
  BY <1>2 DEF Expire, loop
<1>4. list' \in Seq(Conns) /\ Once(list') /\ Conn' = Conn \ gone
  BY <1>1, <1>3, WithoutOK DEF Conn
<1>5. dead = {}
  BY <1>3 DEF IInv, LoopOK
<1>6. TypesOK' /\ RoomsOK'
  BY <1>3, <1>4 DEF IInv, TypesOK, RoomsOK
<1>7. PeersOK' /\ DeadCounted'
  BY <1>2, <1>3, <1>4, <1>5 DEF IInv, PeersOK, DeadCounted
<1>8. LoopOK'
  BY <1>3 DEF IInv, LoopOK
<1>9. NickUnique'
  BY <1>3, <1>4 DEF IInv, NickUnique
<1>10. InviteSpent
  BY <1>3, NobodyLeaves
<1>. QED  BY <1>6, <1>7, <1>8, <1>9, <1>10 DEF IInv

-----------------------------------------------------------------------------
(* The theorems *)

(* The server starts with an empty main room. *)
LEMMA InitOK == Init => IInv
<1>. SUFFICES ASSUME Init PROVE IInv
  OBVIOUS
<1>1. /\ list = <<>> /\ user = [c \in Conns |-> None] /\ chatid = [c \in Conns |-> None]
      /\ dead = {} /\ deadusers = 0 /\ old = {} /\ pc = "select" /\ cur = None /\ nxt = None
      /\ lines = 0 /\ stray = [r \in Rooms |-> 0]
  BY DEF Init
<1>2. /\ chat \in ChatType /\ chat.room = [c \in Conns |-> None] /\ chat.op = {}
      /\ chat.rooms = {Main} /\ chat.occ = [r \in Rooms |-> 0]
  BY XchatdAssumption DEF Init, ChatType
<1>3. Conn = {}
  BY <1>1 DEF Conn, Range
<1>4. TypesOK
  BY <1>1 DEF TypesOK, Once, Strays
<1>5. RoomsOK
  <2>1. \A r \in Rooms : Members(chat.room, r) = {}
    BY <1>2, XchatdAssumption DEF Members
  <2>2. \A r \in Rooms : Cardinality(Members(chat.room, r)) = 0
    BY <2>1, FS_EmptySet
  <2>3. \A r \in Rooms : chat.occ[r] = Cardinality(Members(chat.room, r)) + stray[r]
    BY <1>1, <1>2, <2>2
  <2>. QED  BY <1>2, <2>3 DEF RoomsOK, RoomsBut
<1>6. PeersOK
  BY <1>1, <1>2, <1>3 DEF PeersOK
<1>7. LoopOK
  BY <1>1, XchatdAssumption DEF LoopOK
<1>8. DeadCounted
  BY <1>1, FS_EmptySet DEF DeadCounted
<1>9. NickUnique
  BY <1>3 DEF NickUnique
<1>. QED  BY <1>4, <1>5, <1>6, <1>7, <1>8, <1>9 DEF IInv

(* Every step keeps the invariant and spends the invitations. *)
LEMMA NextOK ==
  ASSUME IInv, Next
  PROVE  IInv' /\ InviteSpent
<1>1. CASE Serve
  BY <1>1, LoginStep, JoinStep, NickStep, KickStep, MakeopStep, InviteStep, BanStep,
     GoodbyeStep, SetroomStep, RejectedStep DEF Serve
<1>2. CASE MainLoop \/ Ready \/ \E c \in Conns : Accept(c) \/ Age(c)
  BY <1>2, ExpireStep, PointerSteps, ExceptionStep, HangupStep, ServedDeadStep, ReapStep,
     AcceptStep DEF MainLoop
<1>. QED  BY <1>1, <1>2 DEF Next

(* No step, no change. *)
LEMMA StutterOK ==
  ASSUME IInv, UNCHANGED vars
  PROVE  IInv'
BY DEF vars, conn, loop, IInv, TypesOK, RoomsOK, PeersOK, LoopOK, DeadCounted, NickUnique,
       Conn

(* What the server keeps between any two of its steps. *)
THEOREM Invariant == Spec => []IInv
<1>1. IInv /\ [Next]_vars => IInv'
  BY NextOK, StutterOK
<1>. QED  BY <1>1, InitOK, PTL DEF Spec

(* Whatever commands run while the loop is in the middle of its list, cu and
   cunext are connections that were not freed, and whoever was kicked out of
   the main room is gone before the next select (chat_kick, main). *)
THEOREM KickingIsSafe == Spec => []KickIsSafe
<1>1. IInv => KickIsSafe
  <2>. SUFFICES ASSUME IInv PROVE KickIsSafe
    OBVIOUS
  <2>1. {cur, nxt} \subseteq Conn \cup {None}
    BY DEF IInv, LoopOK
  <2>2. \A c \in Conns \ Conn : chat.room[c] = None /\ c \notin dead
    BY DEF IInv, PeersOK
  <2>. QED  BY <2>1, <2>2 DEF KickIsSafe, NoDangling, KickedLeaves, IInv, LoopOK
<1>. QED  BY <1>1, Invariant, PTL

(* Every room counts those who are in it and is there as long as somebody is,
   but for what select's exceptions leave behind, and no two connections
   answer to one chatid (exit_room, enter_room, login_user, chat_nick). *)
THEOREM RoomsStayExact == Spec => []ChattersAgree
<1>1. IInv => ChattersAgree
  <2>. SUFFICES ASSUME IInv PROVE ChattersAgree
    OBVIOUS
  <2>1. {cur, nxt} \subseteq Conns \cup {None}
    BY ConnFacts DEF IInv, LoopOK
  <2>2. TypeOK
    BY <2>1 DEF IInv, TypesOK, LoopOK, RoomsOK, RoomsBut, TypeOK, Strays
  <2>3. RoomsAgree
    <3>1. \A r \in Rooms : In(r) = Members(chat.room, r) /\ r # None
      BY XchatdAssumption DEF In, Members
    <3>. QED  BY <3>1 DEF IInv, RoomsOK, RoomsBut, RoomsAgree
  <2>. QED  BY <2>2, <2>3 DEF IInv, ChattersAgree
<1>. QED  BY <1>1, Invariant, PTL

(* The op flag ends with the visit it was given for on every way out, the
   invitation on /bye, /join, /kick and a lost connection, but not when
   select's exception or the last exit from the main room ends the visit
   (exit_room, enter_room, logout_user, main). *)
THEOREM PrivilegesAreLocal == Spec => PrivilegesEnd
<1>1. IInv /\ [Next]_vars => [OpIsLocal' /\ InviteSpent]_vars
  <2>. SUFFICES ASSUME IInv, Next PROVE OpIsLocal' /\ InviteSpent
    OBVIOUS
  <2>1. IInv' /\ InviteSpent
    BY NextOK
  <2>. QED  BY <2>1 DEF IInv, RoomsOK, RoomsBut, OpIsLocal
<1>. QED  BY <1>1, Invariant, PTL DEF Spec, PrivilegesEnd

=============================================================================
