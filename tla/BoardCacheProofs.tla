-------------------------- MODULE BoardCacheProofs --------------------------
(***************************************************************************)
(* Proofs about BoardCache, for any number of processes, boards, names and *)
(* operations: Bbusystate and busystate_b work as locks, and the cache is  *)
(* that of the file in every history without an accident.                  *)
(***************************************************************************)
EXTENDS BoardCache, FiniteSetTheorems, FunctionTheorems, NaturalsInduction, SequenceTheorems,
        WellFoundedInduction, TLAPS

-----------------------------------------------------------------------------
(* What is left of an operation *)

Opens == {"lock", "rlock", "fixlock"}
Inside == {"sort", "free", "load", "number", "fixset", "fixfree"}
GoesOn == {"sort", "load", "number", "fixset"}
OpensB == {"lock_b", "steal_b"}
InsideB == {"load_b", "free_b"}
Accesses ==
  Opens \cup Inside \cup OpensB \cup InsideB \cup
  {"lookup", "check", "slot", "substitute", "append", "inc1", "inc2", "num", "busy", "clear", "fix"}

(* Where one of A is, one of B follows, and nowhere else. *)
Leads(t, A, B) ==
  \A i \in 1 .. Len(t) : t[i] \in A <=> (i < Len(t) /\ t[i + 1] \in B)

(* A lock is taken right before what it guards, and given back right after. *)
Sound(t, op) ==
  /\ t \in Seq(Accesses)
  /\ Leads(t, Opens \cup GoesOn, Inside)
  /\ Leads(t, OpensB \cup {"load_b"}, InsideB)
  /\ \A i \in 1 .. Len(t) : t[i] = "clear" => op = "init"

HeadIn(t, A) == t # <<>> /\ Head(t) \in A

(* The empty list is sound. *)
LEMMA NothingLeft == \A op : Sound(<<>>, op)
BY DEF Sound, Leads

(* What is left after an access is sound, and inside a lock as the access says. *)
LEMMA TailSound ==
  ASSUME NEW op, NEW t, Sound(t, op), t # <<>>
  PROVE  /\ Sound(Tail(t), op)
         /\ HeadIn(Tail(t), Inside) <=> Head(t) \in Opens \cup GoesOn
         /\ HeadIn(Tail(t), InsideB) <=> Head(t) \in OpensB \cup {"load_b"}
<1>1. PICK n \in Nat : n = Len(t) - 1
  BY DEF Sound
<1>2. /\ Tail(t) \in Seq(Accesses) /\ Len(Tail(t)) = n /\ Head(t) = t[1]
      /\ \A i \in 1 .. n : Tail(t)[i] = t[i + 1]
  BY <1>1 DEF Sound
<1>3. ASSUME NEW A, NEW B, Leads(t, A, B)
      PROVE  Leads(Tail(t), A, B) /\ (HeadIn(Tail(t), B) <=> Head(t) \in A)
  <2>1. Leads(Tail(t), A, B)
    <3>. SUFFICES ASSUME NEW i \in 1 .. n
                  PROVE  Tail(t)[i] \in A <=> (i < n /\ Tail(t)[i + 1] \in B)
      BY <1>2 DEF Leads
    <3>1. i + 1 \in 1 .. Len(t) /\ (i + 1 < Len(t) <=> i < n) /\ (i < n => i + 1 \in 1 .. n)
      BY <1>1
    <3>. QED  BY <1>2, <1>3, <3>1 DEF Leads
  <2>2. 1 \in 1 .. Len(t) /\ (1 < Len(t) <=> n > 0)
    BY <1>1
  <2>3. Head(t) \in A <=> (1 < Len(t) /\ t[2] \in B)
    BY <1>2, <1>3, <2>2 DEF Leads
  <2>4. PICK w \in Seq(Accesses) : w = Tail(t)
    BY <1>2
  <2>5. w # <<>> <=> n > 0
    BY <1>2, <2>4
  <2>6. ASSUME n > 0 PROVE Head(w) = t[2]
    <3>1. Head(w) = w[1] /\ 1 \in 1 .. n /\ 1 + 1 = 2
      BY <1>2, <2>4, <2>6
    <3>2. w[1] = t[1 + 1]
      BY <1>2, <2>4, <3>1
    <3>. QED  BY <3>1, <3>2
  <2>. QED  BY <2>1, <2>2, <2>3, <2>4, <2>5, <2>6 DEF HeadIn
<1>4. \A i \in 1 .. n : Tail(t)[i] = "clear" => op = "init"
  BY <1>1, <1>2 DEF Sound
<1>. QED  BY <1>2, <1>3, <1>4 DEF Sound

(* One after the other, when the second starts outside of any lock. *)
LEMMA ThenSound ==
  ASSUME NEW op, NEW s, NEW t, Sound(s, op), Sound(t, op), s # <<>>,
         ~HeadIn(t, Inside), ~HeadIn(t, InsideB)
  PROVE  /\ Sound(s \o t, op) /\ s \o t # <<>> /\ Head(s \o t) = Head(s)
<1>1. PICK m \in Nat, n \in Nat : m = Len(s) /\ n = Len(t) /\ m > 0
  BY DEF Sound
<1>2. PICK w : w = s \o t
  OBVIOUS
<1>3. /\ w \in Seq(Accesses) /\ Len(w) = m + n
      /\ \A i \in 1 .. m : w[i] = s[i]
      /\ \A i \in 1 .. n : w[m + i] = t[i]
  BY <1>1, <1>2 DEF Sound
<1>4. ASSUME NEW A, NEW B, Leads(s, A, B), Leads(t, A, B), ~HeadIn(t, B)
      PROVE  Leads(w, A, B)
  <2>. SUFFICES ASSUME NEW i \in 1 .. m + n
                PROVE  w[i] \in A <=> (i < m + n /\ w[i + 1] \in B)
    BY <1>3 DEF Leads
  <2>1. CASE i < m
    <3>1. i \in 1 .. m /\ i + 1 \in 1 .. m /\ i < m + n
      BY <1>1, <2>1
    <3>. QED  BY <1>1, <1>3, <1>4, <2>1, <3>1 DEF Leads
  <2>2. CASE i = m
    <3>1. i \in 1 .. m /\ s[i] \notin A
      BY <1>1, <1>4, <2>2 DEF Leads
    <3>2. ASSUME n > 0 PROVE w[i + 1] \notin B
      <4>1. t # <<>> /\ Head(t) = t[1] /\ 1 \in 1 .. n
        BY <1>1, <3>2 DEF Sound
      <4>. QED  BY <1>3, <1>4, <2>2, <4>1 DEF HeadIn
    <3>. QED  BY <1>1, <1>3, <2>2, <3>1, <3>2
  <2>3. CASE i > m
    <3>1. PICK j \in 1 .. n : i = m + j
      <4>1. i - m \in 1 .. n /\ i = m + (i - m)
        BY <1>1, <2>3
      <4>. QED  BY <4>1
    <3>2. t[j] \in A <=> (j < n /\ t[j + 1] \in B)
      BY <1>1, <1>4, <3>1 DEF Leads
    <3>3. j < n => j + 1 \in 1 .. n /\ i + 1 = m + (j + 1)
      BY <3>1
    <3>. QED  BY <1>3, <3>1, <3>2, <3>3
  <2>. QED  BY <1>1, <2>1, <2>2, <2>3
<1>5. \A i \in 1 .. m + n : w[i] = "clear" => op = "init"
  <2>. SUFFICES ASSUME NEW i \in 1 .. m + n, w[i] = "clear" PROVE op = "init"
    OBVIOUS
  <2>1. CASE i <= m
    BY <1>1, <1>3, <2>1 DEF Sound
  <2>2. CASE i > m
    <3>1. i - m \in 1 .. n /\ w[m + (i - m)] = t[i - m] /\ m + (i - m) = i
      BY <1>1, <1>3, <2>2
    <3>. QED  BY <1>1, <3>1 DEF Sound
  <2>. QED  BY <1>1, <2>1, <2>2
<1>6. Leads(w, Opens \cup GoesOn, Inside)
  BY <1>4 DEF Sound
<1>7. Leads(w, OpensB \cup {"load_b"}, InsideB)
  BY <1>4 DEF Sound
<1>8. Sound(w, op)
  BY <1>3, <1>5, <1>6, <1>7 DEF Sound
<1>9. w # <<>> /\ Head(w) = Head(s)
  <2>1. Head(w) = w[1] /\ Head(s) = s[1] /\ 1 \in 1 .. m
    BY <1>1, <1>3 DEF Sound
  <2>. QED  BY <1>1, <1>3, <2>1
<1>. QED  BY <1>2, <1>8, <1>9

(* The pieces of which the operations are made. *)
LEMMA PiecesSound ==
  ASSUME NEW op
  PROVE  /\ Sound(SortBcache, op) /\ Sound(ResetBoard, op)
         /\ Sound(<<"rlock", "load", "number", "free">>, op)
         /\ Sound(<<"append", "inc1", "inc2", "num">>, op)
         /\ Sound(<<"fixlock", "fixset", "fixfree", "fix">>, op)
         /\ Sound(<<"substitute">>, op) /\ Sound(<<"check", "substitute">>, op)
         /\ Sound(<<"lookup", "check", "substitute">>, op)
         /\ Sound(<<"lookup", "slot">>, op) /\ Sound(<<"fix">>, op) /\ Sound(<<"free">>, op)
         /\ op = "init" => Sound(<<"clear">>, op)
<1>. USE DEF Sound, Leads, Opens, GoesOn, Inside, OpensB, InsideB, Accesses
<1>1. Sound(SortBcache, op)
  BY DEF SortBcache
<1>2. Sound(ResetBoard, op)
  BY DEF ResetBoard
<1>3. Sound(<<"rlock", "load", "number", "free">>, op)
  OBVIOUS
<1>4. Sound(<<"append", "inc1", "inc2", "num">>, op)
  OBVIOUS
<1>5. Sound(<<"fixlock", "fixset", "fixfree", "fix">>, op)
  OBVIOUS
<1>6. Sound(<<"substitute">>, op)
  OBVIOUS
<1>7. Sound(<<"check", "substitute">>, op)
  OBVIOUS
<1>8. Sound(<<"lookup", "check", "substitute">>, op)
  OBVIOUS
<1>9. Sound(<<"lookup", "slot">>, op) /\ Sound(<<"fix">>, op) /\ Sound(<<"free">>, op)
  OBVIOUS
<1>10. op = "init" => Sound(<<"clear">>, op)
  OBVIOUS
<1>. QED  BY <1>1, <1>2, <1>3, <1>4, <1>5, <1>6, <1>7, <1>8, <1>9, <1>10

Outside(t) == ~HeadIn(t, Inside) /\ ~HeadIn(t, InsideB)

(* So are the operations themselves and what their steps put in their place. *)
LEMMA ListsSound ==
  ASSUME NEW op
  PROVE  /\ Sound(SortBcache, op) /\ Outside(SortBcache)
         /\ Sound(<<"substitute">> \o ResetBoard \o SortBcache, op)
         /\ Outside(<<"substitute">> \o ResetBoard \o SortBcache)
         /\ Sound(<<"append", "inc1", "inc2", "num">> \o ResetBoard \o SortBcache, op)
         /\ Outside(<<"append", "inc1", "inc2", "num">> \o ResetBoard \o SortBcache)
         /\ Sound(<<"fixlock", "fixset", "fixfree", "fix">>, op)
         /\ Outside(<<"fixlock", "fixset", "fixfree", "fix">>)
         /\ Sound(<<"free">> \o SortBcache, op) /\ HeadIn(<<"free">> \o SortBcache, Inside)
         /\ ~HeadIn(<<"free">> \o SortBcache, InsideB)
         /\ op \in DOMAIN Program => Sound(Program[op], op) /\ Outside(Program[op])
<1>. USE DEF HeadIn, Inside, InsideB, Outside
<1>1. SortBcache # <<>> /\ Head(SortBcache) = "lock" /\ ResetBoard # <<>> /\ Head(ResetBoard) = "busy"
  BY DEF SortBcache, ResetBoard
<1>2. Outside(SortBcache) /\ Outside(ResetBoard)
  BY <1>1
<1>3. ASSUME NEW x, Sound(x, op), x # <<>>, Outside(x)
      PROVE  Sound(x \o ResetBoard \o SortBcache, op) /\ Outside(x \o ResetBoard \o SortBcache)
  <2>1. PICK y : y = x \o ResetBoard
    OBVIOUS
  <2>2. Sound(y, op) /\ y # <<>> /\ Head(y) = Head(x)
    BY <1>2, <1>3, <2>1, PiecesSound, ThenSound
  <2>3. Sound(y \o SortBcache, op) /\ y \o SortBcache # <<>> /\ Head(y \o SortBcache) = Head(y)
    BY <1>2, <2>2, PiecesSound, ThenSound
  <2>. QED  BY <1>3, <2>1, <2>2, <2>3
<1>4. /\ Sound(<<"substitute">> \o ResetBoard \o SortBcache, op)
      /\ Outside(<<"substitute">> \o ResetBoard \o SortBcache)
  <2>1. <<"substitute">> # <<>> /\ Outside(<<"substitute">>)
    OBVIOUS
  <2>. QED  BY <1>3, <2>1, PiecesSound
<1>5. /\ Sound(<<"append", "inc1", "inc2", "num">> \o ResetBoard \o SortBcache, op)
      /\ Outside(<<"append", "inc1", "inc2", "num">> \o ResetBoard \o SortBcache)
  <2>1. <<"append", "inc1", "inc2", "num">> # <<>> /\ Outside(<<"append", "inc1", "inc2", "num">>)
    OBVIOUS
  <2>. QED  BY <1>3, <2>1, PiecesSound
<1>6. Sound(ReloadBcache, op) /\ Outside(ReloadBcache)
  <2>1. PICK x : x = <<"rlock", "load", "number", "free">>
    OBVIOUS
  <2>2. x # <<>> /\ Head(x) = "rlock"
    BY <2>1
  <2>3. Sound(x \o SortBcache, op) /\ x \o SortBcache # <<>> /\ Head(x \o SortBcache) = "rlock"
    BY <1>2, <2>1, <2>2, PiecesSound, ThenSound
  <2>. QED  BY <2>1, <2>3 DEF ReloadBcache
<1>7. ASSUME op \in DOMAIN Program PROVE Sound(Program[op], op) /\ Outside(Program[op])
  <2>1. op \in {"add", "rename", "delete", "reload", "fix", "init"}
    BY <1>7 DEF Program
  <2>2. CASE op = "add"
    BY <2>2, PiecesSound DEF Program
  <2>3. CASE op = "rename"
    <3>1. PICK x : x = <<"lookup", "check", "substitute">>
      OBVIOUS
    <3>2. x # <<>> /\ Outside(x) /\ Sound(x, op)
      BY <3>1, PiecesSound
    <3>. QED  BY <1>3, <2>3, <3>1, <3>2 DEF Program
  <2>4. CASE op = "delete"
    <3>1. PICK x : x = <<"check", "substitute">>
      OBVIOUS
    <3>2. x # <<>> /\ Outside(x) /\ Sound(x, op)
      BY <3>1, PiecesSound
    <3>. QED  BY <1>3, <2>4, <3>1, <3>2 DEF Program
  <2>5. CASE op = "reload"
    BY <1>6, <2>5 DEF Program
  <2>6. CASE op = "fix"
    BY <2>6, PiecesSound DEF Program
  <2>7. CASE op = "init"
    <3>1. PICK x : x = <<"clear">>
      OBVIOUS
    <3>2. x # <<>> /\ Head(x) = "clear" /\ Sound(x, op)
      BY <2>7, <3>1, PiecesSound
    <3>3. /\ Sound(x \o ReloadBcache, op) /\ x \o ReloadBcache # <<>>
          /\ Head(x \o ReloadBcache) = "clear"
      BY <1>6, <3>2, ThenSound
    <3>. QED  BY <2>7, <3>1, <3>3 DEF Program
  <2>. QED  BY <2>1, <2>2, <2>3, <2>4, <2>5, <2>6, <2>7
<1>8. Outside(<<"fixlock", "fixset", "fixfree", "fix">>)
  OBVIOUS
<1>9. /\ Sound(<<"free">> \o SortBcache, op) /\ HeadIn(<<"free">> \o SortBcache, Inside)
      /\ ~HeadIn(<<"free">> \o SortBcache, InsideB)
  <2>1. PICK x : x = <<"free">>
    OBVIOUS
  <2>2. x # <<>> /\ Head(x) = "free" /\ Sound(x, op)
    BY <2>1, PiecesSound
  <2>3. Sound(x \o SortBcache, op) /\ x \o SortBcache # <<>> /\ Head(x \o SortBcache) = "free"
    BY <1>2, <2>2, PiecesSound, ThenSound
  <2>. QED  BY <2>1, <2>3
<1>. QED  BY <1>2, <1>4, <1>5, <1>7, <1>8, <1>9, PiecesSound

-----------------------------------------------------------------------------
(* The processes *)

IsRec(r) ==
  r = [op |-> r.op, todo |-> r.todo, name |-> r.name, old |-> r.old, b |-> r.b, t |-> r.t,
       n |-> r.n, tries |-> r.tries, alone |-> r.alone]

Good(r) == IsRec(r) /\ Sound(r.todo, r.op)

(* A process that does nothing has nothing left to do. *)
LEMMA IdleGood == Good(Idle) /\ Idle.todo = <<>> /\ Idle.op = "idle"
<1>1. IsRec(Idle) /\ Idle.todo = <<>> /\ Idle.op = "idle"
  BY DEF IsRec, Idle
<1>. QED  BY <1>1, NothingLeft DEF Good

(* The same process with other numbers in its hands. *)
Same(x, r) == IsRec(x) /\ x.op = r.op /\ x.todo = r.todo

(* Each assignment to the locals of an operation leaves the rest alone. *)
LEMMA Fields ==
  ASSUME NEW r, IsRec(r), NEW v, NEW w
  PROVE  /\ Same([r EXCEPT !.n = v], r) /\ [r EXCEPT !.n = v].b = r.b
         /\ Same([r EXCEPT !.t = v], r)
         /\ Same([r EXCEPT !.b = v], r)
         /\ Same([r EXCEPT !.tries = v], r)
         /\ Same([r EXCEPT !.alone = v], r) /\ [r EXCEPT !.alone = v].b = r.b
         /\ Same([r EXCEPT !.n = v, !.alone = w], r)
         /\ Same([r EXCEPT !.name = v, !.n = w], r)
         /\ Same([r EXCEPT !.b = v, !.tries = w], r)
<1>1. PICK o, td, nm, ol, bb, tt, nn, tr, al :
        r = [op |-> o, todo |-> td, name |-> nm, old |-> ol, b |-> bb, t |-> tt, n |-> nn,
             tries |-> tr, alone |-> al]
  BY DEF IsRec
<1>2. Same([r EXCEPT !.n = v], r) /\ [r EXCEPT !.n = v].b = r.b
  BY <1>1 DEF Same, IsRec
<1>3. Same([r EXCEPT !.t = v], r)
  BY <1>1 DEF Same, IsRec
<1>4. Same([r EXCEPT !.b = v], r)
  BY <1>1 DEF Same, IsRec
<1>5. Same([r EXCEPT !.tries = v], r)
  BY <1>1 DEF Same, IsRec
<1>6. Same([r EXCEPT !.alone = v], r) /\ [r EXCEPT !.alone = v].b = r.b
  BY <1>1 DEF Same, IsRec
<1>7. Same([r EXCEPT !.n = v, !.alone = w], r)
  <2>1. PICK x : x = [r EXCEPT !.n = v]
    OBVIOUS
  <2>2. Same(x, r)
    BY <1>1, <2>1 DEF Same, IsRec
  <2>3. PICK y : y = [x EXCEPT !.alone = w]
    OBVIOUS
  <2>4. [r EXCEPT !.n = v, !.alone = w] = y
    BY <1>1, <2>1, <2>3
  <2>5. PICK o2, td2, nm2, ol2, bb2, tt2, nn2, tr2, al2 :
          x = [op |-> o2, todo |-> td2, name |-> nm2, old |-> ol2, b |-> bb2, t |-> tt2,
               n |-> nn2, tries |-> tr2, alone |-> al2]
    BY <2>2 DEF Same, IsRec
  <2>6. Same(y, x)
    BY <2>3, <2>5 DEF Same, IsRec
  <2>. QED  BY <2>2, <2>4, <2>6 DEF Same
<1>8. Same([r EXCEPT !.name = v, !.n = w], r)
  <2>1. PICK x : x = [r EXCEPT !.name = v]
    OBVIOUS
  <2>2. Same(x, r)
    BY <1>1, <2>1 DEF Same, IsRec
  <2>3. PICK y : y = [x EXCEPT !.n = w]
    OBVIOUS
  <2>4. [r EXCEPT !.name = v, !.n = w] = y
    BY <1>1, <2>1, <2>3
  <2>5. PICK o2, td2, nm2, ol2, bb2, tt2, nn2, tr2, al2 :
          x = [op |-> o2, todo |-> td2, name |-> nm2, old |-> ol2, b |-> bb2, t |-> tt2,
               n |-> nn2, tries |-> tr2, alone |-> al2]
    BY <2>2 DEF Same, IsRec
  <2>6. Same(y, x)
    BY <2>3, <2>5 DEF Same, IsRec
  <2>. QED  BY <2>2, <2>4, <2>6 DEF Same
<1>9. Same([r EXCEPT !.b = v, !.tries = w], r)
  <2>1. PICK x : x = [r EXCEPT !.b = v]
    OBVIOUS
  <2>2. Same(x, r)
    BY <1>1, <2>1 DEF Same, IsRec
  <2>3. PICK y : y = [x EXCEPT !.tries = w]
    OBVIOUS
  <2>4. [r EXCEPT !.b = v, !.tries = w] = y
    BY <1>1, <2>1, <2>3
  <2>5. PICK o2, td2, nm2, ol2, bb2, tt2, nn2, tr2, al2 :
          x = [op |-> o2, todo |-> td2, name |-> nm2, old |-> ol2, b |-> bb2, t |-> tt2,
               n |-> nn2, tries |-> tr2, alone |-> al2]
    BY <2>2 DEF Same, IsRec
  <2>6. Same(y, x)
    BY <2>3, <2>5 DEF Same, IsRec
  <2>. QED  BY <2>2, <2>4, <2>6 DEF Same
<1>. QED  BY <1>2, <1>3, <1>4, <1>5, <1>6, <1>7, <1>8, <1>9

(* The list of what is left is replaced. *)
LEMMA TodoField ==
  ASSUME NEW r, IsRec(r), NEW t, NEW x, x = [r EXCEPT !.todo = t]
  PROVE  IsRec(x) /\ x.op = r.op /\ x.todo = t /\ x.b = r.b
<1>1. PICK o, td, nm, ol, bb, tt, nn, tr, al :
        r = [op |-> o, todo |-> td, name |-> nm, old |-> ol, b |-> bb, t |-> tt, n |-> nn,
             tries |-> tr, alone |-> al]
  BY DEF IsRec
<1>. QED  BY <1>1 DEF IsRec

-----------------------------------------------------------------------------
(* The inductive invariant *)

ProcsOK == proc = [p \in Procs |-> proc[p]] /\ \A p \in Procs : Good(proc[p])

(* shmctl init runs while no other process uses the cache. *)
InitAlone == \A p, q \in Procs : proc[p].op = "init" /\ p # q => proc[q] = Idle

FlagsOK == Bbusystate \in {0, 1} /\ busystate_b = [b \in Slots |-> busystate_b[b]]

(* Whoever is in the section has the lock. *)
Held == ~stolen => \A p \in Procs : InSection(p) => Bbusystate = 1

IInv == ProcsOK /\ InitAlone /\ FlagsOK /\ Held /\ Exclusive /\ NoLeak

In(p) == HeadIn(proc[p].todo, Inside)
InB(p) == HeadIn(proc[p].todo, InsideB)

(* To be in a section is to have one of its accesses next ... *)
LEMMA InMeans ==
  /\ \A p : InSection(p) <=> In(p)
  /\ \A p : At(p, "load_b") \/ At(p, "free_b") <=> InB(p)
BY DEF InSection, At, In, InB, HeadIn, Inside, InsideB

(* ... also in the next state. *)
LEMMA InMeansNext ==
  /\ \A p : InSection(p)' <=> In(p)'
  /\ \A p : At(p, "load_b")' \/ At(p, "free_b")' <=> InB(p)'
BY DEF InSection, At, In, InB, HeadIn, Inside, InsideB

(* -1, which stands for Bbusystate in leaked, is no header. *)
LEMMA SlotsAreNat == \A b \in Slots : b # -1
BY DEF Slots

(* One process goes on to g. *)
Moves(p, g) ==
  /\ proc' = [proc EXCEPT ![p] = g] /\ Good(g) /\ proc[p] # Idle
  /\ g = Idle \/ g.op = proc[p].op

(* A move of one process leaves the others, and init alone. *)
LEMMA MovesOK ==
  ASSUME IInv, NEW p \in Procs, NEW g, Moves(p, g)
  PROVE  /\ ProcsOK' /\ InitAlone' /\ proc'[p] = g
         /\ \A q \in Procs : q # p => proc'[q] = proc[q] /\ (In(q)' <=> In(q)) /\ (InB(q)' <=> InB(q))
<1>. USE DEF IInv
<1>1. proc'[p] = g /\ \A q \in Procs : q # p => proc'[q] = proc[q]
  BY DEF Moves, ProcsOK
<1>2. proc' = [q \in Procs |-> proc'[q]]
  BY DEF Moves, ProcsOK
<1>3. ProcsOK'
  <2>1. \A q \in Procs : Good(proc'[q])
    BY <1>1 DEF Moves, ProcsOK
  <2>. QED  BY <1>2, <2>1 DEF ProcsOK, Good
<1>4. InitAlone'
  <2>. SUFFICES ASSUME NEW q \in Procs, NEW r \in Procs, proc'[q].op = "init", q # r PROVE proc'[r] = Idle
    BY DEF InitAlone, Idle
  <2>1. CASE q = p
    <3>1. proc[p].op = "init"
      BY <1>1, <2>1, IdleGood DEF Moves
    <3>. QED  BY <1>1, <2>1, <3>1 DEF InitAlone
  <2>2. CASE q # p
    <3>1. proc[q].op = "init"
      BY <1>1, <2>2
    <3>2. CASE r = p
      <4>1. proc[p] = Idle
        BY <3>1, <3>2, <2>2 DEF InitAlone
      <4>. QED  BY <4>1 DEF Moves
    <3>. QED  BY <1>1, <2>2, <3>1, <3>2 DEF InitAlone
  <2>. QED  BY <2>1, <2>2
<1>. QED  BY <1>1, <1>3, <1>4 DEF In, InB

(* A step that is on the same side of both locks before and after it. *)
LEMMA QuietOK ==
  ASSUME IInv, NEW p \in Procs, NEW g, Moves(p, g),
         UNCHANGED <<Bbusystate, busystate_b, stolen, leaked>>,
         HeadIn(g.todo, Inside) <=> In(p), HeadIn(g.todo, InsideB) <=> InB(p),
         InB(p) => g.b = proc[p].b
  PROVE  IInv'
<1>. USE DEF IInv
<1>1. /\ ProcsOK' /\ InitAlone' /\ proc'[p] = g
      /\ \A q \in Procs : q # p => proc'[q] = proc[q] /\ (In(q)' <=> In(q)) /\ (InB(q)' <=> InB(q))
  BY MovesOK
<1>2. \A q \in Procs : (In(q)' <=> In(q)) /\ (InB(q)' <=> InB(q)) /\ (InB(q) => proc'[q].b = proc[q].b)
  BY <1>1 DEF In, InB
<1>3. FlagsOK'
  BY DEF FlagsOK
<1>4. Held' /\ Exclusive'
  BY <1>2, InMeans, InMeansNext DEF Held, Exclusive
<1>5. NoLeak'
  <2>1. Bbusystate' = 1 => -1 \in leaked' \/ \E q \in Procs : InSection(q)'
    BY <1>2, InMeans, InMeansNext DEF NoLeak
  <2>2. ASSUME NEW b \in Slots, busystate_b'[b] # 0, b \notin leaked'
        PROVE  \E q \in Procs : proc'[q].b = b /\ (At(q, "load_b")' \/ At(q, "free_b")')
    <3>1. PICK q \in Procs : proc[q].b = b /\ InB(q)
      BY <2>2, InMeans DEF NoLeak
    <3>. QED  BY <1>2, <3>1, InMeansNext
  <2>. QED  BY <2>1, <2>2 DEF NoLeak
<1>. QED  BY <1>1, <1>3, <1>4, <1>5

(* Bbusystate is taken: it was free, or shmctl waits no longer. *)
LEMMA TakesOK ==
  ASSUME IInv, NEW p \in Procs, NEW g, Moves(p, g), Bbusystate' = 1, UNCHANGED busystate_b,
         HeadIn(g.todo, Inside), ~HeadIn(g.todo, InsideB), ~In(p), ~InB(p),
         \A x \in leaked : x # -1 => x \in leaked',
         stolen => stolen', ~stolen' => Bbusystate = 0 \/ \A q \in Procs : ~InSection(q)
  PROVE  IInv'
<1>. USE DEF IInv
<1>1. /\ ProcsOK' /\ InitAlone' /\ proc'[p] = g
      /\ \A q \in Procs : q # p => proc'[q] = proc[q] /\ (In(q)' <=> In(q)) /\ (InB(q)' <=> InB(q))
  BY MovesOK
<1>2. In(p)' /\ ~InB(p)'
  BY <1>1 DEF In, InB
<1>3. FlagsOK'
  BY DEF FlagsOK
<1>4. Held'
  BY DEF Held
<1>5. Exclusive'
  <2>. SUFFICES ASSUME ~stolen', NEW q \in Procs, q # p, In(q)' PROVE FALSE
    BY InMeansNext DEF Exclusive
  <2>1. In(q) /\ ~stolen
    BY <1>1
  <2>. QED  BY <2>1, InMeans DEF Held
<1>6. NoLeak'
  <2>1. InSection(p)'
    BY <1>2, InMeansNext
  <2>2. ASSUME NEW b \in Slots, busystate_b'[b] # 0, b \notin leaked'
        PROVE  \E q \in Procs : proc'[q].b = b /\ (At(q, "load_b")' \/ At(q, "free_b")')
    <3>1. b \notin leaked
      BY <2>2, SlotsAreNat
    <3>2. PICK q \in Procs : proc[q].b = b /\ InB(q)
      BY <2>2, <3>1, InMeans DEF NoLeak
    <3>. QED  BY <1>1, <3>2, InMeansNext
  <2>. QED  BY <2>1, <2>2 DEF NoLeak
<1>. QED  BY <1>1, <1>3, <1>4, <1>5, <1>6

(* Bbusystate is given back, or cleared while nobody is in the section. *)
LEMMA GivesOK ==
  ASSUME IInv, NEW p \in Procs, NEW g, Moves(p, g), Bbusystate' = 0, UNCHANGED <<busystate_b, stolen>>,
         ~HeadIn(g.todo, Inside), ~HeadIn(g.todo, InsideB), ~InB(p),
         \A x \in leaked : x # -1 => x \in leaked',
         In(p) \/ \A q \in Procs : ~In(q)
  PROVE  IInv'
<1>. USE DEF IInv
<1>1. /\ ProcsOK' /\ InitAlone' /\ proc'[p] = g
      /\ \A q \in Procs : q # p => proc'[q] = proc[q] /\ (In(q)' <=> In(q)) /\ (InB(q)' <=> InB(q))
  BY MovesOK
<1>2. ~In(p)' /\ ~InB(p)'
  BY <1>1 DEF In, InB
<1>3. FlagsOK'
  BY DEF FlagsOK
<1>4. ASSUME ~stolen', NEW q \in Procs, In(q)' PROVE FALSE
  <2>1. q # p /\ In(q)
    BY <1>1, <1>2, <1>4
  <2>. QED  BY <1>4, <2>1, InMeans DEF Exclusive
<1>5. Held' /\ Exclusive'
  BY <1>4, InMeansNext DEF Held, Exclusive
<1>6. NoLeak'
  <2>2. ASSUME NEW b \in Slots, busystate_b'[b] # 0, b \notin leaked'
        PROVE  \E q \in Procs : proc'[q].b = b /\ (At(q, "load_b")' \/ At(q, "free_b")')
    <3>1. b \notin leaked
      BY <2>2, SlotsAreNat
    <3>2. PICK q \in Procs : proc[q].b = b /\ InB(q)
      BY <2>2, <3>1, InMeans DEF NoLeak
    <3>. QED  BY <1>1, <3>2, InMeansNext
  <2>. QED  BY <2>2 DEF NoLeak
<1>. QED  BY <1>1, <1>3, <1>5, <1>6

(* busystate_b of one header is taken, taken over or given back. *)
LEMMA HeaderOK ==
  ASSUME IInv, NEW p \in Procs, NEW g, Moves(p, g), UNCHANGED <<Bbusystate, stolen, leaked>>,
         NEW v, busystate_b' = [busystate_b EXCEPT ![proc[p].b] = v],
         ~HeadIn(g.todo, Inside), ~In(p),
         v = 0 \/ (HeadIn(g.todo, InsideB) /\ g.b = proc[p].b)
  PROVE  IInv'
<1>. USE DEF IInv
<1>1. /\ ProcsOK' /\ InitAlone' /\ proc'[p] = g
      /\ \A q \in Procs : q # p => proc'[q] = proc[q] /\ (In(q)' <=> In(q)) /\ (InB(q)' <=> InB(q))
  BY MovesOK
<1>2. ~In(p)' /\ (InB(p)' <=> HeadIn(g.todo, InsideB))
  BY <1>1 DEF In, InB
<1>3. FlagsOK'
  BY DEF FlagsOK
<1>4. \A q \in Procs : In(q)' <=> In(q)
  BY <1>1, <1>2
<1>5. Held' /\ Exclusive'
  BY <1>4, InMeans, InMeansNext DEF Held, Exclusive
<1>6. NoLeak'
  <2>1. Bbusystate' = 1 => -1 \in leaked' \/ \E q \in Procs : InSection(q)'
    BY <1>4, InMeans, InMeansNext DEF NoLeak
  <2>2. ASSUME NEW b \in Slots, busystate_b'[b] # 0, b \notin leaked'
        PROVE  \E q \in Procs : proc'[q].b = b /\ (At(q, "load_b")' \/ At(q, "free_b")')
    <3>1. CASE b = proc[p].b
      <4>1. busystate_b'[b] = v
        BY <3>1 DEF FlagsOK
      <4>2. HeadIn(g.todo, InsideB) /\ g.b = b
        BY <2>2, <3>1, <4>1
      <4>. QED  BY <1>1, <1>2, <4>2, InMeansNext
    <3>2. CASE b # proc[p].b
      <4>1. busystate_b'[b] = busystate_b[b]
        BY <3>2 DEF FlagsOK
      <4>2. PICK q \in Procs : proc[q].b = b /\ InB(q)
        BY <2>2, <4>1, InMeans DEF NoLeak
      <4>. QED  BY <1>1, <3>2, <4>2, InMeansNext
    <3>. QED  BY <3>1, <3>2
  <2>. QED  BY <2>1, <2>2 DEF NoLeak
<1>. QED  BY <1>1, <1>3, <1>5, <1>6

-----------------------------------------------------------------------------
(* How an operation goes on *)

(* A process at an access is at work, and inside a lock as the access says. *)
LEMMA AtFacts ==
  ASSUME IInv, NEW p \in Procs, NEW a, At(p, a)
  PROVE  /\ Good(proc[p]) /\ proc[p] # Idle /\ proc[p].todo # <<>> /\ Head(proc[p].todo) = a
         /\ (In(p) <=> a \in Inside) /\ (InB(p) <=> a \in InsideB)
<1>1. Good(proc[p]) /\ proc[p].todo # <<>> /\ Head(proc[p].todo) = a
  BY DEF IInv, ProcsOK, At
<1>2. proc[p] # Idle
  BY <1>1, IdleGood
<1>. QED  BY <1>1, <1>2 DEF In, InB, HeadIn

(* Goto is a move to the list that it names, which is sound ... *)
LEMMA GotoMoves ==
  ASSUME IInv, NEW p \in Procs, proc[p] # Idle, NEW r, IsRec(r), r.op = proc[p].op,
         NEW t, Sound(t, r.op), Goto(p, r, t)
  PROVE  \E g : /\ Moves(p, g) /\ (HeadIn(g.todo, Inside) <=> HeadIn(t, Inside))
                /\ (HeadIn(g.todo, InsideB) <=> HeadIn(t, InsideB))
                /\ t # <<>> => g.b = r.b
<1>1. PICK g : g = IF t = <<>> THEN Idle ELSE [r EXCEPT !.todo = t]
  OBVIOUS
<1>2. proc' = [proc EXCEPT ![p] = g]
  BY <1>1 DEF Goto
<1>3. CASE t = <<>>
  <2>1. g = Idle /\ g.todo = t /\ Good(g)
    BY <1>1, <1>3, IdleGood
  <2>. QED  BY <1>2, <1>3, <2>1 DEF Moves
<1>4. CASE t # <<>>
  <2>1. g = [r EXCEPT !.todo = t]
    BY <1>1, <1>4
  <2>2. IsRec(g) /\ g.op = r.op /\ g.todo = t /\ g.b = r.b
    BY <2>1, TodoField
  <2>3. Moves(p, g)
    BY <1>2, <2>2 DEF Moves, Good
  <2>. QED  BY <2>2, <2>3
<1>. QED  BY <1>3, <1>4

(* ... and so is Continue. *)
LEMMA ContinueMoves ==
  ASSUME IInv, NEW p \in Procs, NEW a, At(p, a), NEW r, Same(r, proc[p]), Continue(p, r)
  PROVE  \E g : /\ Moves(p, g) /\ (HeadIn(g.todo, Inside) <=> a \in Opens \cup GoesOn)
                /\ (HeadIn(g.todo, InsideB) <=> a \in OpensB \cup {"load_b"})
                /\ HeadIn(g.todo, InsideB) => g.b = r.b
<1>1. Good(proc[p]) /\ proc[p] # Idle /\ proc[p].todo # <<>> /\ Head(proc[p].todo) = a
  BY AtFacts
<1>2. PICK t : t = Tail(r.todo)
  OBVIOUS
<1>3. Sound(r.todo, r.op) /\ r.todo # <<>> /\ Head(r.todo) = a /\ r.op = proc[p].op /\ IsRec(r)
  BY <1>1 DEF Same, Good
<1>4. /\ Sound(t, r.op) /\ (HeadIn(t, Inside) <=> a \in Opens \cup GoesOn)
      /\ (HeadIn(t, InsideB) <=> a \in OpensB \cup {"load_b"})
  BY <1>2, <1>3, TailSound
<1>5. Goto(p, r, t)
  BY <1>2 DEF Continue
<1>6. PICK g : /\ Moves(p, g) /\ (HeadIn(g.todo, Inside) <=> HeadIn(t, Inside))
               /\ (HeadIn(g.todo, InsideB) <=> HeadIn(t, InsideB))
               /\ t # <<>> => g.b = r.b
  BY <1>1, <1>3, <1>4, <1>5, GotoMoves
<1>. QED  BY <1>4, <1>6 DEF HeadIn

(* The record of a process has its fields. *)
LEMMA SameSelf ==
  ASSUME IInv, NEW p \in Procs
  PROVE  IsRec(proc[p]) /\ Same(proc[p], proc[p])
BY DEF IInv, ProcsOK, Good, Same

Locks == <<Bbusystate, busystate_b, stolen, leaked>>

(* The accesses after which a process is on the same side of the locks. *)
Calm == {"lookup", "check", "slot", "substitute", "append", "inc1", "inc2", "num", "busy",
         "load_b", "sort", "load", "number", "fixset", "fix"}

(* After such an access the operation goes on. *)
LEMMA CalmContinue ==
  ASSUME IInv, NEW p \in Procs, NEW a \in Calm, At(p, a), NEW r, Same(r, proc[p]),
         a = "load_b" => r.b = proc[p].b, Continue(p, r), UNCHANGED Locks
  PROVE  IInv'
<1>1. PICK g : /\ Moves(p, g) /\ (HeadIn(g.todo, Inside) <=> a \in Opens \cup GoesOn)
               /\ (HeadIn(g.todo, InsideB) <=> a \in OpensB \cup {"load_b"})
               /\ HeadIn(g.todo, InsideB) => g.b = r.b
  BY ContinueMoves
<1>2. (In(p) <=> a \in Inside) /\ (InB(p) <=> a \in InsideB)
  BY AtFacts
<1>3. /\ HeadIn(g.todo, Inside) <=> In(p)
      /\ HeadIn(g.todo, InsideB) <=> InB(p)
      /\ InB(p) => a = "load_b"
  BY <1>1, <1>2 DEF Calm, Opens, GoesOn, Inside, OpensB, InsideB
<1>. QED  BY <1>1, <1>3, QuietOK DEF Locks

(* From outside of the locks to another place outside of them. *)
LEMMA OutsideGoto ==
  ASSUME IInv, NEW p \in Procs, proc[p] # Idle, ~In(p), ~InB(p), NEW r, IsRec(r), r.op = proc[p].op,
         NEW t, Sound(t, r.op), Outside(t), Goto(p, r, t), UNCHANGED Locks
  PROVE  IInv'
<1>1. PICK g : /\ Moves(p, g) /\ (HeadIn(g.todo, Inside) <=> HeadIn(t, Inside))
               /\ (HeadIn(g.todo, InsideB) <=> HeadIn(t, InsideB))
  BY GotoMoves
<1>. QED  BY <1>1, QuietOK DEF Locks, Outside

(* The operation ends outside of the locks. *)
LEMMA OutsideLeave ==
  ASSUME IInv, NEW p \in Procs, proc[p] # Idle, ~In(p), ~InB(p), Leave(p), UNCHANGED Locks
  PROVE  IInv'
<1>1. Moves(p, Idle) /\ ~HeadIn(Idle.todo, Inside) /\ ~HeadIn(Idle.todo, InsideB)
  BY IdleGood DEF Moves, Leave, HeadIn
<1>. QED  BY <1>1, QuietOK DEF Locks

(* The process stays where it is. *)
LEMMA StayOK ==
  ASSUME IInv, NEW p \in Procs, proc[p] # Idle, ~InB(p), NEW r, Same(r, proc[p]),
         proc' = [proc EXCEPT ![p] = r], UNCHANGED Locks
  PROVE  IInv'
<1>1. Moves(p, r)
  BY DEF IInv, ProcsOK, Good, Same, Moves
<1>2. (HeadIn(r.todo, Inside) <=> In(p)) /\ (HeadIn(r.todo, InsideB) <=> InB(p))
  BY DEF Same, In, InB
<1>. QED  BY <1>1, <1>2, QuietOK DEF Locks

-----------------------------------------------------------------------------
(* The steps *)

(* m_newbrd, m_mod_board: every step before reset_board. *)
LEMMA ChangingOK ==
  ASSUME IInv, NEW p \in Procs, Changing(p)
  PROVE  IInv'
<1>. USE DEF locks, cache, env, ghosts, Locks
<1>1. IsRec(proc[p]) /\ Same(proc[p], proc[p])
  BY SameSelf
<1>2. CASE lookup(p)
  <2>1. At(p, "lookup") /\ UNCHANGED Locks /\ (Leave(p) \/ Continue(p, proc[p]))
    BY <1>2 DEF lookup
  <2>2. proc[p] # Idle /\ ~In(p) /\ ~InB(p) /\ "lookup" \in Calm
    BY <2>1, AtFacts DEF Inside, InsideB, Calm
  <2>3. CASE Leave(p)
    BY <2>1, <2>2, <2>3, OutsideLeave
  <2>4. CASE Continue(p, proc[p])
    BY <1>1, <2>1, <2>2, <2>4, CalmContinue
  <2>. QED  BY <2>1, <2>3, <2>4
<1>3. CASE check(p)
  <2>1. At(p, "check") /\ UNCHANGED Locks /\ (Leave(p) \/ Continue(p, proc[p]))
    BY <1>3 DEF check
  <2>2. proc[p] # Idle /\ ~In(p) /\ ~InB(p) /\ "check" \in Calm
    BY <2>1, AtFacts DEF Inside, InsideB, Calm
  <2>3. CASE Leave(p)
    BY <2>1, <2>2, <2>3, OutsideLeave
  <2>4. CASE Continue(p, proc[p])
    BY <1>1, <2>1, <2>2, <2>4, CalmContinue
  <2>. QED  BY <2>1, <2>3, <2>4
<1>4. CASE slot(p)
  <2>1. At(p, "slot") /\ UNCHANGED Locks
    BY <1>4 DEF slot
  <2>2. proc[p] # Idle /\ ~In(p) /\ ~InB(p)
    BY <2>1, AtFacts DEF Inside, InsideB
  <2>3. PICK first :
          \/ Goto(p, [proc[p] EXCEPT !.b = first], <<"substitute">> \o ResetBoard \o SortBcache)
          \/ Leave(p)
          \/ Goto(p, [proc[p] EXCEPT !.n = Bnumber],
                  <<"append", "inc1", "inc2", "num">> \o ResetBoard \o SortBcache)
    BY <1>4 DEF slot
  <2>4. CASE Leave(p)
    BY <2>1, <2>2, <2>4, OutsideLeave
  <2>5. CASE Goto(p, [proc[p] EXCEPT !.b = first], <<"substitute">> \o ResetBoard \o SortBcache)
    <3>1. PICK r, t : /\ r = [proc[p] EXCEPT !.b = first]
                      /\ t = <<"substitute">> \o ResetBoard \o SortBcache
      OBVIOUS
    <3>2. IsRec(r) /\ r.op = proc[p].op
      BY <1>1, <3>1, Fields DEF Same
    <3>3. Sound(t, r.op) /\ Outside(t)
      BY <3>1, ListsSound
    <3>. QED  BY <2>1, <2>2, <2>5, <3>1, <3>2, <3>3, OutsideGoto
  <2>6. CASE Goto(p, [proc[p] EXCEPT !.n = Bnumber],
                  <<"append", "inc1", "inc2", "num">> \o ResetBoard \o SortBcache)
    <3>1. PICK r, t : /\ r = [proc[p] EXCEPT !.n = Bnumber]
                      /\ t = <<"append", "inc1", "inc2", "num">> \o ResetBoard \o SortBcache
      OBVIOUS
    <3>2. IsRec(r) /\ r.op = proc[p].op
      BY <1>1, <3>1, Fields DEF Same
    <3>3. Sound(t, r.op) /\ Outside(t)
      BY <3>1, ListsSound
    <3>. QED  BY <2>1, <2>2, <2>6, <3>1, <3>2, <3>3, OutsideGoto
  <2>. QED  BY <2>3, <2>4, <2>5, <2>6
<1>5. CASE substitute(p)
  <2>1. At(p, "substitute") /\ UNCHANGED Locks /\ Continue(p, proc[p]) /\ "substitute" \in Calm
    BY <1>5 DEF substitute, Calm
  <2>. QED  BY <1>1, <2>1, CalmContinue
<1>6. CASE append_record(p)
  <2>1. At(p, "append") /\ UNCHANGED Locks /\ Continue(p, proc[p]) /\ "append" \in Calm
    BY <1>6 DEF append_record, Calm
  <2>. QED  BY <1>1, <2>1, CalmContinue
<1>7. CASE inc1(p)
  <2>1. PICK r : r = [proc[p] EXCEPT !.n = Bnumber]
    OBVIOUS
  <2>2. At(p, "inc1") /\ UNCHANGED Locks /\ Continue(p, r) /\ "inc1" \in Calm
    BY <1>7, <2>1 DEF inc1, Calm
  <2>3. Same(r, proc[p])
    BY <1>1, <2>1, Fields
  <2>. QED  BY <2>2, <2>3, CalmContinue
<1>8. CASE inc2(p)
  <2>1. At(p, "inc2") /\ UNCHANGED Locks /\ Continue(p, proc[p]) /\ "inc2" \in Calm
    BY <1>8 DEF inc2, Calm
  <2>. QED  BY <1>1, <2>1, CalmContinue
<1>9. CASE num(p)
  <2>1. PICK r : r = [proc[p] EXCEPT !.b = Bnumber - 1]
    OBVIOUS
  <2>2. At(p, "num") /\ UNCHANGED Locks /\ Continue(p, r) /\ "num" \in Calm
    BY <1>9, <2>1 DEF num, Calm
  <2>3. Same(r, proc[p])
    BY <1>1, <2>1, Fields
  <2>. QED  BY <2>2, <2>3, CalmContinue
<1>. QED  BY <1>2, <1>3, <1>4, <1>5, <1>6, <1>7, <1>8, <1>9 DEF Changing

(* Taking a lock over comes in the place of taking it. *)
LEMMA StealSound ==
  ASSUME NEW op, NEW t, Sound(t, op), t # <<>>, Head(t) = "lock_b"
  PROVE  Sound(<<"steal_b">> \o Tail(t), op) /\ Outside(<<"steal_b">> \o Tail(t))
<1>1. PICK n \in Nat : n = Len(t) /\ n > 0
  BY DEF Sound
<1>2. PICK w : w = <<"steal_b">> \o Tail(t)
  OBVIOUS
<1>3. /\ Tail(t) \in Seq(Accesses) /\ Len(Tail(t)) = n - 1 /\ t[1] = "lock_b"
      /\ \A i \in 1 .. n - 1 : Tail(t)[i] = t[i + 1]
  BY <1>1 DEF Sound
<1>4. /\ w \in Seq(Accesses) /\ Len(w) = n /\ w[1] = "steal_b"
      /\ \A i \in 2 .. n : w[i] = Tail(t)[i - 1]
  <2>1. "steal_b" \in Accesses
    BY DEF Accesses, OpensB
  <2>. QED  BY <1>1, <1>2, <1>3, <2>1
<1>5. \A i \in 2 .. n : w[i] = t[i]
  <2>. SUFFICES ASSUME NEW i \in 2 .. n PROVE w[i] = t[i]
    OBVIOUS
  <2>1. i - 1 \in 1 .. n - 1 /\ (i - 1) + 1 = i
    BY <1>1
  <2>. QED  BY <1>3, <1>4, <2>1
<1>6. ASSUME NEW A, NEW B, Leads(t, A, B), "lock_b" \in A <=> "steal_b" \in A
      PROVE  Leads(w, A, B)
  <2>. SUFFICES ASSUME NEW i \in 1 .. n PROVE w[i] \in A <=> (i < n /\ w[i + 1] \in B)
    BY <1>4 DEF Leads
  <2>1. i < n => i + 1 \in 2 .. n
    BY <1>1
  <2>2. t[i] \in A <=> (i < n /\ t[i + 1] \in B)
    BY <1>1, <1>6 DEF Leads
  <2>3. CASE i = 1
    BY <1>3, <1>4, <1>5, <1>6, <2>1, <2>2, <2>3
  <2>4. CASE i # 1
    <3>1. i \in 2 .. n
      BY <1>1, <2>4
    <3>. QED  BY <1>5, <2>1, <2>2, <3>1
  <2>. QED  BY <2>3, <2>4
<1>7. Leads(w, Opens \cup GoesOn, Inside)
  BY <1>6 DEF Sound, Opens, GoesOn
<1>8. Leads(w, OpensB \cup {"load_b"}, InsideB)
  BY <1>6 DEF Sound, OpensB
<1>9. \A i \in 1 .. Len(w) : w[i] = "clear" => op = "init"
  <2>. SUFFICES ASSUME NEW i \in 1 .. n, w[i] = "clear" PROVE op = "init"
    BY <1>4
  <2>1. i \in 2 .. n
    BY <1>1, <1>4
  <2>. QED  BY <1>1, <1>5, <2>1 DEF Sound
<1>10. Outside(w)
  <2>1. Head(w) = "steal_b"
    BY <1>1, <1>4
  <2>. QED  BY <2>1 DEF Outside, HeadIn, Inside, InsideB
<1>. QED  BY <1>2, <1>4, <1>7, <1>8, <1>9, <1>10 DEF Sound

(* reset_board gives up: what is left is sort_bcache. *)
LEMMA RefusedOK ==
  ASSUME IInv, NEW p \in Procs, proc[p] # Idle, ~In(p), ~InB(p), Refused(p), UNCHANGED Locks
  PROVE  IInv'
<1>1. IsRec(proc[p])
  BY SameSelf
<1>2. Goto(p, proc[p], SortBcache)
  BY DEF Refused
<1>. QED  BY <1>1, <1>2, ListsSound, OutsideGoto

(* reset_board. *)
LEMMA ResettingOK ==
  ASSUME IInv, NEW p \in Procs, Resetting(p)
  PROVE  IInv'
<1>. USE DEF locks, cache, env, ghosts, Locks
<1>1. IsRec(proc[p]) /\ Same(proc[p], proc[p])
  BY SameSelf
<1>2. CASE busy(p)
  <2>1. At(p, "busy") /\ UNCHANGED Locks /\ (Refused(p) \/ Continue(p, [proc[p] EXCEPT !.t = now]))
    BY <1>2 DEF busy
  <2>2. proc[p] # Idle /\ ~In(p) /\ ~InB(p) /\ "busy" \in Calm
    BY <2>1, AtFacts DEF Inside, InsideB, Calm
  <2>3. CASE Refused(p)
    BY <2>1, <2>2, <2>3, RefusedOK
  <2>4. CASE Continue(p, [proc[p] EXCEPT !.t = now])
    <3>1. PICK r : r = [proc[p] EXCEPT !.t = now]
      OBVIOUS
    <3>2. Same(r, proc[p])
      BY <1>1, <3>1, Fields
    <3>. QED  BY <2>1, <2>2, <2>4, <3>1, <3>2, CalmContinue
  <2>. QED  BY <2>1, <2>3, <2>4
<1>3. CASE lock_b(p)
  <2>1. At(p, "lock_b") /\ UNCHANGED <<Bbusystate, stolen, leaked>>
    BY <1>3 DEF lock_b
  <2>2. /\ proc[p] # Idle /\ ~In(p) /\ ~InB(p) /\ Good(proc[p])
        /\ proc[p].todo # <<>> /\ Head(proc[p].todo) = "lock_b"
    BY <2>1, AtFacts DEF Inside, InsideB
  <2>3. CASE busystate_b' = [busystate_b EXCEPT ![proc[p].b] = proc[p].t] /\ Continue(p, proc[p])
    <3>1. PICK g : /\ Moves(p, g) /\ ~HeadIn(g.todo, Inside)
                   /\ HeadIn(g.todo, InsideB) /\ g.b = proc[p].b
      BY <1>1, <2>1, <2>3, ContinueMoves DEF Opens, GoesOn, OpensB
    <3>. QED  BY <2>1, <2>2, <2>3, <3>1, HeaderOK
  <2>4. CASE UNCHANGED busystate_b /\ Refused(p)
    BY <2>1, <2>2, <2>4, RefusedOK
  <2>5. CASE /\ UNCHANGED busystate_b
             /\ Goto(p, [proc[p] EXCEPT !.n = busystate_b[proc[p].b]], <<"steal_b">> \o Tail(proc[p].todo))
    <3>1. PICK r, t : /\ r = [proc[p] EXCEPT !.n = busystate_b[proc[p].b]]
                      /\ t = <<"steal_b">> \o Tail(proc[p].todo)
      OBVIOUS
    <3>2. IsRec(r) /\ r.op = proc[p].op
      BY <1>1, <3>1, Fields DEF Same
    <3>3. Sound(t, r.op) /\ Outside(t)
      BY <2>2, <3>1, <3>2, StealSound DEF Good
    <3>. QED  BY <2>1, <2>2, <2>5, <3>1, <3>2, <3>3, OutsideGoto
  <2>. QED  BY <1>3, <2>3, <2>4, <2>5 DEF lock_b
<1>4. CASE steal_b(p)
  <2>1. At(p, "steal_b") /\ UNCHANGED <<Bbusystate, stolen, leaked>>
    BY <1>4 DEF steal_b
  <2>2. proc[p] # Idle /\ ~In(p) /\ ~InB(p)
    BY <2>1, AtFacts DEF Inside, InsideB
  <2>3. CASE busystate_b' = [busystate_b EXCEPT ![proc[p].b] = proc[p].t] /\ Continue(p, proc[p])
    <3>1. PICK g : /\ Moves(p, g) /\ ~HeadIn(g.todo, Inside)
                   /\ HeadIn(g.todo, InsideB) /\ g.b = proc[p].b
      BY <1>1, <2>1, <2>3, ContinueMoves DEF Opens, GoesOn, OpensB
    <3>. QED  BY <2>1, <2>2, <2>3, <3>1, HeaderOK
  <2>4. CASE UNCHANGED busystate_b /\ Refused(p)
    BY <2>1, <2>2, <2>4, RefusedOK
  <2>. QED  BY <1>4, <2>3, <2>4 DEF steal_b
<1>5. CASE load_b(p)
  <2>1. At(p, "load_b") /\ UNCHANGED Locks /\ Continue(p, proc[p]) /\ "load_b" \in Calm
    BY <1>5 DEF load_b, Calm
  <2>. QED  BY <1>1, <2>1, CalmContinue
<1>6. CASE free_b(p)
  <2>1. /\ At(p, "free_b") /\ UNCHANGED <<Bbusystate, stolen, leaked>> /\ Continue(p, proc[p])
        /\ busystate_b' = [busystate_b EXCEPT ![proc[p].b] = 0]
    BY <1>6 DEF free_b
  <2>2. ~In(p)
    BY <2>1, AtFacts DEF Inside
  <2>3. PICK g : Moves(p, g) /\ ~HeadIn(g.todo, Inside)
    BY <1>1, <2>1, ContinueMoves DEF Opens, GoesOn
  <2>. QED  BY <2>1, <2>2, <2>3, HeaderOK
<1>7. CASE load_b_fails(p)
  <2>1. At(p, "load_b") /\ UNCHANGED Locks /\ Continue(p, proc[p]) /\ "load_b" \in Calm
    BY <1>7 DEF load_b_fails, Calm
  <2>. QED  BY <1>1, <2>1, CalmContinue
<1>. QED  BY <1>2, <1>3, <1>4, <1>5, <1>6, <1>7 DEF Resetting

(* sort_bcache, reload_bcache and the start of shmctl init. *)
LEMMA LoadingOK ==
  ASSUME IInv, NEW p \in Procs, Loading(p)
  PROVE  IInv'
<1>. USE DEF locks, cache, env, ghosts, Locks
<1>1. IsRec(proc[p]) /\ Same(proc[p], proc[p])
  BY SameSelf
<1>2. ASSUME NEW a \in {"lock", "rlock"}, At(p, a), Bbusystate = 0, Bbusystate' = 1,
             Continue(p, proc[p]), UNCHANGED <<busystate_b, stolen, leaked>>
      PROVE  IInv'
  <2>1. PICK g : Moves(p, g) /\ HeadIn(g.todo, Inside) /\ ~HeadIn(g.todo, InsideB)
    BY <1>1, <1>2, ContinueMoves DEF Opens, OpensB
  <2>2. ~In(p) /\ ~InB(p)
    BY <1>2, AtFacts DEF Inside, InsideB
  <2>. QED  BY <1>2, <2>1, <2>2, TakesOK
<1>3. CASE lock(p)
  <2>1. At(p, "lock") /\ UNCHANGED <<busystate_b, stolen, leaked>>
    BY <1>3 DEF lock
  <2>2. proc[p] # Idle /\ ~In(p) /\ ~InB(p)
    BY <2>1, AtFacts DEF Inside, InsideB
  <2>3. CASE Bbusystate = 0
    BY <1>2, <1>3, <2>1, <2>3 DEF lock
  <2>4. CASE Bbusystate # 0
    <3>1. Leave(p) /\ UNCHANGED Bbusystate
      BY <1>3, <2>4 DEF lock
    <3>. QED  BY <2>1, <2>2, <3>1, OutsideLeave
  <2>. QED  BY <2>3, <2>4
<1>4. CASE sort(p)
  <2>1. At(p, "sort") /\ UNCHANGED Locks /\ Continue(p, proc[p]) /\ "sort" \in Calm
    BY <1>4 DEF sort, Calm
  <2>. QED  BY <1>1, <2>1, CalmContinue
<1>5. CASE free(p)
  <2>1. At(p, "free") /\ Bbusystate' = 0 /\ UNCHANGED <<busystate_b, stolen, leaked>> /\ Continue(p, proc[p])
    BY <1>5 DEF free
  <2>2. In(p) /\ ~InB(p)
    BY <2>1, AtFacts DEF Inside, InsideB
  <2>3. PICK g : Moves(p, g) /\ ~HeadIn(g.todo, Inside) /\ ~HeadIn(g.todo, InsideB)
    BY <1>1, <2>1, ContinueMoves DEF Opens, GoesOn, OpensB
  <2>. QED  BY <2>1, <2>2, <2>3, GivesOK
<1>6. CASE rlock(p)
  <2>1. At(p, "rlock") /\ UNCHANGED <<busystate_b, stolen, leaked>>
    BY <1>6 DEF rlock
  <2>2. proc[p] # Idle /\ ~In(p) /\ ~InB(p)
    BY <2>1, AtFacts DEF Inside, InsideB
  <2>3. CASE Bbusystate = 0
    BY <1>2, <1>6, <2>1, <2>3 DEF rlock
  <2>4. CASE Bbusystate # 0 /\ Leave(p)
    <3>1. UNCHANGED Bbusystate
      BY <1>6, <2>4 DEF rlock
    <3>. QED  BY <2>1, <2>2, <2>4, <3>1, OutsideLeave
  <2>5. CASE Bbusystate # 0 /\ proc' = [proc EXCEPT ![p].tries = @ + 1]
    <3>1. UNCHANGED Bbusystate
      BY <1>6, <2>5 DEF rlock
    <3>2. PICK r : r = [proc[p] EXCEPT !.tries = proc[p].tries + 1]
      OBVIOUS
    <3>3. Same(r, proc[p]) /\ proc' = [proc EXCEPT ![p] = r]
      BY <1>1, <2>5, <3>2, Fields
    <3>. QED  BY <2>1, <2>2, <3>1, <3>3, StayOK
  <2>. QED  BY <1>6, <2>3, <2>4, <2>5 DEF rlock
<1>7. CASE load(p)
  <2>1. PICK n : At(p, "load") /\ Continue(p, [proc[p] EXCEPT !.n = n, !.alone = Alone(p)])
    BY <1>7 DEF load
  <2>2. UNCHANGED Locks /\ "load" \in Calm
    BY <1>7 DEF load, Calm
  <2>3. PICK r : r = [proc[p] EXCEPT !.n = n, !.alone = Alone(p)]
    OBVIOUS
  <2>4. Same(r, proc[p])
    BY <1>1, <2>3, Fields
  <2>. QED  BY <2>1, <2>2, <2>3, <2>4, CalmContinue
<1>7a. CASE load_fails(p)
  <2>1. PICK r : r = [proc[p] EXCEPT !.alone = FALSE]
    OBVIOUS
  <2>2. PICK t : t = <<"free">> \o SortBcache
    OBVIOUS
  <2>3. At(p, "load") /\ UNCHANGED Locks /\ Goto(p, r, t)
    BY <1>7a, <2>1, <2>2 DEF load_fails
  <2>4. /\ In(p) /\ ~InB(p) /\ proc[p] # Idle
    BY <2>3, AtFacts DEF Inside, InsideB
  <2>5. IsRec(r) /\ r.op = proc[p].op
    BY <1>1, <2>1, Fields DEF Same
  <2>6. Sound(t, r.op) /\ HeadIn(t, Inside) /\ ~HeadIn(t, InsideB)
    BY <2>2, ListsSound
  <2>7. PICK g : Moves(p, g) /\ HeadIn(g.todo, Inside) /\ ~HeadIn(g.todo, InsideB)
    BY <2>3, <2>4, <2>5, <2>6, GotoMoves
  <2>. QED  BY <2>3, <2>4, <2>7, QuietOK
<1>8. CASE number(p)
  <2>1. At(p, "number") /\ UNCHANGED Locks /\ Continue(p, proc[p]) /\ "number" \in Calm
    BY <1>8 DEF number, Calm
  <2>. QED  BY <1>1, <2>1, CalmContinue
<1>9. CASE clear(p)
  <2>1. /\ At(p, "clear") /\ Bbusystate' = 0 /\ UNCHANGED <<busystate_b, stolen>> /\ Continue(p, proc[p])
        /\ leaked' = leaked \ {-1}
    BY <1>9 DEF clear
  <2>2. /\ ~In(p) /\ ~InB(p) /\ Good(proc[p]) /\ proc[p].todo # <<>> /\ Head(proc[p].todo) = "clear"
    BY <2>1, AtFacts DEF Inside, InsideB
  <2>3. PICK g : Moves(p, g) /\ ~HeadIn(g.todo, Inside) /\ ~HeadIn(g.todo, InsideB)
    BY <1>1, <2>1, ContinueMoves DEF Opens, GoesOn, OpensB
  <2>4. proc[p].op = "init"
    <3>1. PICK t : t = proc[p].todo
      OBVIOUS
    <3>2. t \in Seq(Accesses) /\ t # <<>> /\ Head(t) = "clear"
      BY <2>2, <3>1 DEF Good, Sound
    <3>3. 1 \in 1 .. Len(t) /\ t[1] = "clear"
      BY <3>2
    <3>. QED  BY <2>2, <3>1, <3>3 DEF Good, Sound
  <2>5. \A q \in Procs : ~In(q)
    <3>. SUFFICES ASSUME NEW q \in Procs, q # p PROVE ~In(q)
      BY <2>2
    <3>1. proc[q] = Idle
      BY <2>4 DEF IInv, InitAlone
    <3>. QED  BY <3>1, IdleGood DEF In, HeadIn
  <2>6. \A x \in leaked : x # -1 => x \in leaked'
    BY <2>1
  <2>. QED  BY <2>1, <2>2, <2>3, <2>5, <2>6, GivesOK
<1>. QED  BY <1>3, <1>4, <1>5, <1>6, <1>7, <1>7a, <1>8, <1>9 DEF Loading

(* fixbcache. *)
LEMMA FixingOK ==
  ASSUME IInv, NEW p \in Procs, Fixing(p)
  PROVE  IInv'
<1>. USE DEF locks, cache, env, ghosts, Locks
<1>1. IsRec(proc[p]) /\ Same(proc[p], proc[p])
  BY SameSelf
<1>2. CASE fix(p)
  <2>1. At(p, "fix") /\ UNCHANGED Locks
    BY <1>2 DEF fix
  <2>2. proc[p] # Idle /\ ~In(p) /\ ~InB(p)
    BY <2>1, AtFacts DEF Inside, InsideB
  <2>3. \/ Goto(p, proc[p], SortBcache)
        \/ Goto(p, proc[p], <<>>)
        \/ proc' = [proc EXCEPT ![p].b = @ + 1]
        \/ Goto(p, [proc[p] EXCEPT !.name = Header(proc[p].b), !.n = 0],
                <<"fixlock", "fixset", "fixfree", "fix">>)
    BY <1>2 DEF fix
  <2>4. CASE Goto(p, proc[p], SortBcache)
    BY <1>1, <2>1, <2>2, <2>4, ListsSound, OutsideGoto
  <2>5. CASE Goto(p, proc[p], <<>>)
    <3>1. Outside(<<>>)
      BY DEF Outside, HeadIn
    <3>. QED  BY <1>1, <2>1, <2>2, <2>5, <3>1, NothingLeft, OutsideGoto
  <2>6. CASE proc' = [proc EXCEPT ![p].b = @ + 1]
    <3>1. PICK r : r = [proc[p] EXCEPT !.b = proc[p].b + 1]
      OBVIOUS
    <3>2. Same(r, proc[p]) /\ proc' = [proc EXCEPT ![p] = r]
      BY <1>1, <2>6, <3>1, Fields
    <3>. QED  BY <2>1, <2>2, <3>2, StayOK
  <2>7. CASE Goto(p, [proc[p] EXCEPT !.name = Header(proc[p].b), !.n = 0],
                  <<"fixlock", "fixset", "fixfree", "fix">>)
    <3>1. PICK h, z : h = Header(proc[p].b) /\ z = 0
      OBVIOUS
    <3>2. PICK r, t : /\ r = [proc[p] EXCEPT !.name = h, !.n = z]
                      /\ t = <<"fixlock", "fixset", "fixfree", "fix">>
      OBVIOUS
    <3>3. PICK x : x = proc[p]
      OBVIOUS
    <3>4. Same([x EXCEPT !.name = h, !.n = z], x)
      BY <1>1, <3>3, Fields
    <3>5. IsRec(r) /\ r.op = proc[p].op
      BY <3>2, <3>3, <3>4, Zenon DEF Same
    <3>6. Sound(t, r.op) /\ Outside(t)
      BY <3>2, ListsSound
    <3>. QED  BY <2>1, <2>2, <2>7, <3>1, <3>2, <3>5, <3>6, OutsideGoto
  <2>. QED  BY <2>3, <2>4, <2>5, <2>6, <2>7
<1>3. CASE fixlock(p)
  <2>1. At(p, "fixlock") /\ UNCHANGED busystate_b
    BY <1>3 DEF fixlock
  <2>2. proc[p] # Idle /\ ~In(p) /\ ~InB(p)
    BY <2>1, AtFacts DEF Inside, InsideB
  <2>3. CASE proc' = [proc EXCEPT ![p].n = @ + 1] /\ UNCHANGED <<Bbusystate, stolen, leaked>>
    <3>1. PICK r : r = [proc[p] EXCEPT !.n = proc[p].n + 1]
      OBVIOUS
    <3>2. Same(r, proc[p]) /\ proc' = [proc EXCEPT ![p] = r]
      BY <1>1, <2>3, <3>1, Fields
    <3>. QED  BY <2>1, <2>2, <2>3, <3>2, StayOK
  <2>4. CASE /\ Bbusystate' = 1 /\ Continue(p, proc[p]) /\ leaked' = leaked \ {-1}
             /\ stolen' = (stolen \/ \E q \in Procs : InSection(q))
    <3>1. PICK g : Moves(p, g) /\ HeadIn(g.todo, Inside) /\ ~HeadIn(g.todo, InsideB)
      BY <1>1, <2>1, <2>4, ContinueMoves DEF Opens, OpensB
    <3>2. \A x \in leaked : x # -1 => x \in leaked'
      BY <2>4
    <3>3. (stolen => stolen') /\ (~stolen' => \A q \in Procs : ~InSection(q))
      BY <2>4
    <3>. QED  BY <2>1, <2>2, <2>4, <3>1, <3>2, <3>3, TakesOK
  <2>. QED  BY <1>3, <2>3, <2>4 DEF fixlock
<1>4. CASE fixset(p)
  <2>1. At(p, "fixset") /\ UNCHANGED Locks /\ Continue(p, proc[p]) /\ "fixset" \in Calm
    BY <1>4 DEF fixset, Calm
  <2>. QED  BY <1>1, <2>1, CalmContinue
<1>5. CASE fixfree(p)
  <2>1. PICK r : r = [proc[p] EXCEPT !.b = proc[p].b + 1, !.tries = 1]
    OBVIOUS
  <2>2. At(p, "fixfree") /\ Bbusystate' = 0 /\ UNCHANGED <<busystate_b, stolen, leaked>> /\ Continue(p, r)
    BY <1>5, <2>1 DEF fixfree
  <2>3. Same(r, proc[p])
    BY <1>1, <2>1, Fields
  <2>4. In(p) /\ ~InB(p)
    BY <2>2, AtFacts DEF Inside, InsideB
  <2>5. PICK g : Moves(p, g) /\ ~HeadIn(g.todo, Inside) /\ ~HeadIn(g.todo, InsideB)
    BY <2>2, <2>3, ContinueMoves DEF Opens, GoesOn, OpensB
  <2>. QED  BY <2>2, <2>4, <2>5, GivesOK
<1>. QED  BY <1>2, <1>3, <1>4, <1>5 DEF Fixing

(* A process that is killed leaves its locks, and leaked says which. *)
LEMMA DieOK ==
  ASSUME IInv, NEW p \in Procs, Die(p)
  PROVE  IInv'
<1>. USE DEF IInv
<1>1. /\ proc[p] # Idle /\ UNCHANGED <<Bbusystate, busystate_b, stolen>>
      /\ leaked' = leaked \cup (IF InSection(p) THEN {-1} ELSE {})
                     \cup (IF At(p, "load_b") \/ At(p, "free_b") THEN {proc[p].b} ELSE {})
      /\ proc' = [proc EXCEPT ![p] = Idle]
  BY DEF Die, Leave, locks
<1>2. Moves(p, Idle)
  BY <1>1, IdleGood DEF Moves
<1>3. /\ ProcsOK' /\ InitAlone' /\ proc'[p] = Idle
      /\ \A q \in Procs : q # p => proc'[q] = proc[q] /\ (In(q)' <=> In(q)) /\ (InB(q)' <=> InB(q))
  BY <1>2, MovesOK
<1>4. ~In(p)'
  BY <1>3, IdleGood DEF In, HeadIn
<1>5. FlagsOK'
  BY <1>1 DEF FlagsOK
<1>6. \A q \in Procs : In(q)' => In(q)
  BY <1>3, <1>4
<1>7. Held' /\ Exclusive'
  BY <1>1, <1>6, InMeans, InMeansNext DEF Held, Exclusive
<1>8. NoLeak'
  <2>1. ASSUME Bbusystate' = 1, -1 \notin leaked' PROVE \E q \in Procs : InSection(q)'
    <3>1. PICK q \in Procs : In(q)
      BY <1>1, <2>1, InMeans DEF NoLeak
    <3>2. q # p
      BY <1>1, <2>1, <3>1, InMeans
    <3>. QED  BY <1>3, <3>1, <3>2, InMeansNext
  <2>2. ASSUME NEW b \in Slots, busystate_b'[b] # 0, b \notin leaked'
        PROVE  \E q \in Procs : proc'[q].b = b /\ (At(q, "load_b")' \/ At(q, "free_b")')
    <3>1. PICK q \in Procs : proc[q].b = b /\ InB(q)
      BY <1>1, <2>2, InMeans DEF NoLeak
    <3>2. q # p
      BY <1>1, <2>2, <3>1, InMeans
    <3>. QED  BY <1>3, <3>1, <3>2, InMeansNext
  <2>. QED  BY <2>1, <2>2 DEF NoLeak
<1>. QED  BY <1>3, <1>5, <1>7, <1>8

(* An operation begins. *)
LEMMA StartOK ==
  ASSUME IInv, NEW p \in Procs, NEW op \in DOMAIN Program, NEW r, IsRec(r), Start(p, op, r),
         op = "init" => Alone(p)
  PROVE  IInv'
<1>. USE DEF IInv
<1>1. /\ proc[p] = Idle /\ (\A q \in Procs : proc[q].op # "init")
      /\ UNCHANGED <<Bbusystate, busystate_b, stolen, leaked>>
      /\ proc' = [q \in Procs |-> IF q = p THEN [r EXCEPT !.op = op, !.todo = Program[op]]
                                  ELSE [proc[q] EXCEPT !.alone = FALSE]]
  BY DEF Start, locks, ghosts
<1>2. PICK g : g = [r EXCEPT !.op = op, !.todo = Program[op]]
  OBVIOUS
<1>3. IsRec(g) /\ g.op = op /\ g.todo = Program[op]
  <2>1. PICK o, td, nm, ol, bb, tt, nn, tr, al :
          r = [op |-> o, todo |-> td, name |-> nm, old |-> ol, b |-> bb, t |-> tt, n |-> nn,
               tries |-> tr, alone |-> al]
    BY DEF IsRec
  <2>2. PICK t : t = Program[op]
    OBVIOUS
  <2>3. g = [op |-> op, todo |-> t, name |-> nm, old |-> ol, b |-> bb, t |-> tt, n |-> nn,
             tries |-> tr, alone |-> al]
    BY <1>2, <2>1, <2>2
  <2>. QED  BY <2>2, <2>3 DEF IsRec
<1>4. proc'[p] = g /\ Good(g) /\ Outside(g.todo)
  BY <1>1, <1>2, <1>3, ListsSound DEF Good
<1>5. \A q \in Procs : q # p => Same(proc'[q], proc[q]) /\ proc'[q].b = proc[q].b
  <2>. SUFFICES ASSUME NEW q \in Procs, q # p PROVE Same(proc'[q], proc[q]) /\ proc'[q].b = proc[q].b
    OBVIOUS
  <2>1. PICK x : x = [proc[q] EXCEPT !.alone = FALSE]
    OBVIOUS
  <2>2. Same(x, proc[q]) /\ x.b = proc[q].b
    BY <2>1, SameSelf, Fields
  <2>3. proc'[q] = x
    BY <1>1, <2>1
  <2>. QED  BY <2>2, <2>3
<1>6. \A q \in Procs : (In(q)' <=> In(q)) /\ (InB(q)' <=> InB(q)) /\ (InB(q) => proc'[q].b = proc[q].b)
  <2>1. ~In(p) /\ ~InB(p) /\ ~In(p)' /\ ~InB(p)'
    BY <1>1, <1>4, IdleGood DEF In, InB, Outside, HeadIn
  <2>2. \A q \in Procs : q # p => (In(q)' <=> In(q)) /\ (InB(q)' <=> InB(q))
    BY <1>5 DEF In, InB, Same
  <2>. QED  BY <1>5, <2>1, <2>2
<1>7. ProcsOK'
  <2>1. proc' = [q \in Procs |-> proc'[q]]
    BY <1>1
  <2>2. \A q \in Procs : Good(proc'[q])
    BY <1>4, <1>5 DEF ProcsOK, Good, Same
  <2>. QED  BY <2>1, <2>2 DEF ProcsOK, Good
<1>8. InitAlone'
  <2>. SUFFICES ASSUME NEW q \in Procs, NEW z \in Procs, proc'[q].op = "init", q # z PROVE proc'[z] = Idle
    BY DEF InitAlone, Idle
  <2>1. q = p
    BY <1>1, <1>5 DEF Same
  <2>2. proc[z] = Idle
    BY <1>3, <1>4, <2>1 DEF Alone
  <2>3. [Idle EXCEPT !.alone = FALSE] = Idle
    <3>1. PICK f : f = FALSE
      OBVIOUS
    <3>2. PICK x : x = [op |-> "idle", todo |-> <<>>, name |-> 0, old |-> 0, b |-> 0, t |-> 0, n |-> 0,
                        tries |-> 0, alone |-> f]
      OBVIOUS
    <3>3. [x EXCEPT !.alone = f] = x
      BY <3>2
    <3>. QED  BY <3>1, <3>2, <3>3, Zenon DEF Idle
  <2>. QED  BY <1>1, <2>1, <2>2, <2>3
<1>9. FlagsOK'
  BY <1>1 DEF FlagsOK
<1>10. Held' /\ Exclusive'
  BY <1>1, <1>6, InMeans, InMeansNext DEF Held, Exclusive
<1>11. NoLeak'
  <2>1. Bbusystate' = 1 => -1 \in leaked' \/ \E q \in Procs : InSection(q)'
    BY <1>1, <1>6, InMeans, InMeansNext DEF NoLeak
  <2>2. ASSUME NEW b \in Slots, busystate_b'[b] # 0, b \notin leaked'
        PROVE  \E q \in Procs : proc'[q].b = b /\ (At(q, "load_b")' \/ At(q, "free_b")')
    <3>1. PICK q \in Procs : proc[q].b = b /\ InB(q)
      BY <1>1, <2>2, InMeans DEF NoLeak
    <3>. QED  BY <1>6, <3>1, InMeansNext
  <2>. QED  BY <2>1, <2>2 DEF NoLeak
<1>. QED  BY <1>7, <1>8, <1>9, <1>10, <1>11

(* Each operation does so as StartOK needs it. *)
LEMMA OperateOK ==
  ASSUME IInv, NEW p \in Procs, Operate(p)
  PROVE  IInv'
<1>1. DOMAIN Program = {"add", "rename", "delete", "reload", "fix", "init"}
  BY DEF Program
<1>2. IsRec(Idle)
  BY DEF IsRec, Idle
<1>3. ASSUME NEW n, Start(p, "add", [Idle EXCEPT !.name = n]) PROVE IInv'
  <2>1. PICK r : r = [Idle EXCEPT !.name = n]
    OBVIOUS
  <2>2. IsRec(r)
    BY <2>1 DEF IsRec, Idle
  <2>. QED  BY <1>1, <1>3, <2>1, <2>2, StartOK
<1>4. ASSUME NEW n, NEW o, NEW c,
             Start(p, IF n = 0 THEN "delete" ELSE "rename", [Idle EXCEPT !.name = n, !.old = o, !.b = c])
      PROVE  IInv'
  <2>1. PICK r : r = [Idle EXCEPT !.name = n, !.old = o, !.b = c]
    OBVIOUS
  <2>2. IsRec(r)
    BY <2>1 DEF IsRec, Idle
  <2>3. PICK op \in {"delete", "rename"} : op = IF n = 0 THEN "delete" ELSE "rename"
    OBVIOUS
  <2>4. Start(p, op, r) /\ op \in DOMAIN Program /\ op # "init"
    BY <1>1, <1>4, <2>1, <2>3
  <2>. QED  BY <2>2, <2>4, StartOK
<1>5. CASE Start(p, "reload", Idle)
  BY <1>1, <1>2, <1>5, StartOK
<1>6. CASE Start(p, "fix", Idle)
  BY <1>1, <1>2, <1>6, StartOK
<1>7. CASE Alone(p) /\ Start(p, "init", Idle)
  BY <1>1, <1>2, <1>7, StartOK
<1>8. CASE \E n \in Names : Start(p, "add", [Idle EXCEPT !.name = n])
  BY <1>3, <1>8
<1>9. CASE \E o \in Names, n \in Headers :
             /\ n # o /\ getbnum(o) > 0
             /\ Start(p, IF n = 0 THEN "delete" ELSE "rename",
                      [Idle EXCEPT !.name = n, !.old = o, !.b = getbnum(o) - 1])
  BY <1>4, <1>9
<1>. QED  BY <1>5, <1>6, <1>7, <1>8, <1>9 DEF Operate

-----------------------------------------------------------------------------
(* What does not touch the processes and the locks. *)
LEMMA StutterOK ==
  ASSUME IInv, UNCHANGED <<proc, Bbusystate, busystate_b, stolen, leaked>>
  PROVE  IInv'
<1>1. /\ proc' = proc /\ Bbusystate' = Bbusystate /\ busystate_b' = busystate_b
      /\ stolen' = stolen /\ leaked' = leaked
  OBVIOUS
<1>. QED
  BY <1>1 DEF IInv, ProcsOK, Good, IsRec, InitAlone, Idle, FlagsOK, Held, Exclusive, NoLeak, InSection, At

(* All locks are free at first. *)
LEMMA InitOK == Init => IInv
<1>. SUFFICES ASSUME Init PROVE IInv
  OBVIOUS
<1>1. /\ proc = [p \in Procs |-> Idle] /\ Bbusystate = 0 /\ busystate_b = [b \in Slots |-> 0]
  BY DEF Init
<1>2. \A p \in Procs : proc[p] = Idle
  BY <1>1
<1>3. proc = [p \in Procs |-> proc[p]]
  BY <1>1
<1>4. ProcsOK
  BY <1>2, <1>3, IdleGood DEF ProcsOK
<1>5. InitAlone /\ FlagsOK
  BY <1>1, <1>2 DEF InitAlone, FlagsOK
<1>6. \A p \in Procs : ~InSection(p)
  BY <1>2, IdleGood, InMeans DEF In, HeadIn
<1>7. Held /\ Exclusive
  BY <1>6 DEF Held, Exclusive
<1>8. NoLeak
  BY <1>1 DEF NoLeak
<1>. QED  BY <1>4, <1>5, <1>7, <1>8 DEF IInv

(* The invariant is inductive. *)
LEMMA NextOK == IInv /\ [Next]_vars => IInv'
<1>. SUFFICES ASSUME IInv, [Next]_vars PROVE IInv'
  OBVIOUS
<1>1. ASSUME NEW p \in Procs, Step(p) PROVE IInv'
  BY <1>1, ChangingOK, ResettingOK, LoadingOK, FixingOK DEF Step
<1>2. CASE Tick
  BY <1>2, StutterOK DEF Tick, locks, ghosts
<1>3. CASE UNCHANGED vars
  BY <1>3, StutterOK DEF vars
<1>. QED  BY <1>1, <1>2, <1>3, OperateOK, DieOK DEF Next

(* Bbusystate and busystate_b work as locks, for any number of processes and
   boards and any history of operations, give-ups, take-overs and kills: while
   shmctl has not taken the lock of a living process, no two processes are at
   once in what Bbusystate guards, and a flag that is set has a living process
   that will clear it, or was left by one that was killed (reset_board,
   sort_bcache, reload_bcache, lockbcache and fixbcache). *)
THEOREM LocksAreOwned == Spec => []LocksOwned
<1>1. IInv => LocksOwned
  BY DEF IInv, LocksOwned
<1>. QED  BY <1>1, InitOK, NextOK, PTL DEF Spec

-----------------------------------------------------------------------------
(* The cache.  What is left of an operation is one of 27 lists; a process is
   named by the list it has, its place. *)

(* the accesses *)
Words ==
  {"append", "busy", "check", "clear", "fix", "fixfree", "fixlock", "fixset", "free", "free_b",
    "inc1", "inc2", "load", "load_b", "lock", "lock_b", "lookup", "num", "number", "rlock", "slot",
      "sort", "steal_b", "substitute"}
(* What a process still has to do, by the next access. *)
List ==
  [idle |-> <<>>,
   free |-> <<"free">>,
   sort |-> <<"sort", "free">>,
   lock |-> <<"lock", "sort", "free">>,
   free_b |-> <<"free_b", "lock", "sort", "free">>,
   load_b |-> <<"load_b", "free_b", "lock", "sort", "free">>,
   steal_b |-> <<"steal_b", "load_b", "free_b", "lock", "sort", "free">>,
   lock_b |-> <<"lock_b", "load_b", "free_b", "lock", "sort", "free">>,
   busy |-> <<"busy", "lock_b", "load_b", "free_b", "lock", "sort", "free">>,
   substitute |-> <<"substitute", "busy", "lock_b", "load_b", "free_b", "lock", "sort", "free">>,
   check |-> <<"check", "substitute", "busy", "lock_b", "load_b", "free_b", "lock", "sort",
     "free">>,
   relook |-> <<"lookup", "check", "substitute", "busy", "lock_b", "load_b", "free_b", "lock",
     "sort", "free">>,
   num |-> <<"num", "busy", "lock_b", "load_b", "free_b", "lock", "sort", "free">>,
   inc2 |-> <<"inc2", "num", "busy", "lock_b", "load_b", "free_b", "lock", "sort", "free">>,
   inc1 |-> <<"inc1", "inc2", "num", "busy", "lock_b", "load_b", "free_b", "lock", "sort", "free">>,
   append |-> <<"append", "inc1", "inc2", "num", "busy", "lock_b", "load_b", "free_b", "lock",
     "sort", "free">>,
   slot |-> <<"slot">>,
   lookup |-> <<"lookup", "slot">>,
   refree |-> <<"free", "lock", "sort", "free">>,
   number |-> <<"number", "free", "lock", "sort", "free">>,
   load |-> <<"load", "number", "free", "lock", "sort", "free">>,
   rlock |-> <<"rlock", "load", "number", "free", "lock", "sort", "free">>,
   clear |-> <<"clear", "rlock", "load", "number", "free", "lock", "sort", "free">>,
   fix |-> <<"fix">>,
   fixfree |-> <<"fixfree", "fix">>,
   fixset |-> <<"fixset", "fixfree", "fix">>,
   fixlock |-> <<"fixlock", "fixset", "fixfree", "fix">>]
Labels == DOMAIN List
(* and what follows it *)
Then ==
  [free |-> "idle", sort |-> "free", lock |-> "sort", free_b |-> "lock", load_b |-> "free_b",
    steal_b |-> "load_b", lock_b |-> "load_b", busy |-> "lock_b", substitute |-> "busy",
      check |-> "substitute", relook |-> "check", num |-> "busy", inc2 |-> "num", inc1 |-> "inc2",
        append |-> "inc1", slot |-> "idle", lookup |-> "slot", refree |-> "lock",
          number |-> "refree", load |-> "number", rlock |-> "load", clear |-> "rlock",
            fix |-> "idle", fixfree |-> "fix", fixset |-> "fixfree", fixlock |-> "fixset"]
(* the access at the head of a list *)
First(l) == CASE l = "relook" -> "lookup" [] l = "refree" -> "free" [] OTHER -> l

(* the places an operation can be at *)
LEMMA LabelsAre == Labels = {"idle", "free", "sort", "lock", "free_b", "load_b", "steal_b",
  "lock_b", "busy", "substitute", "check", "relook", "num", "inc2", "inc1", "append", "slot",
    "lookup", "refree", "number", "load", "rlock", "clear", "fix", "fixfree", "fixset", "fixlock"}
BY DEF Labels, List

(* every list, its first access and the rest of it *)
LEMMA ListFacts ==
  /\ List.idle = <<>>
  /\ List.free # <<>> /\ Head(List.free) = First("free") /\ Tail(List.free) = List[Then["free"]]
  /\ List.sort # <<>> /\ Head(List.sort) = First("sort") /\ Tail(List.sort) = List[Then["sort"]]
  /\ List.lock # <<>> /\ Head(List.lock) = First("lock") /\ Tail(List.lock) = List[Then["lock"]]
  /\ List.free_b # <<>> /\ Head(List.free_b) = First("free_b")
     /\ Tail(List.free_b) = List[Then["free_b"]]
  /\ List.load_b # <<>> /\ Head(List.load_b) = First("load_b")
     /\ Tail(List.load_b) = List[Then["load_b"]]
  /\ List.steal_b # <<>> /\ Head(List.steal_b) = First("steal_b")
     /\ Tail(List.steal_b) = List[Then["steal_b"]]
  /\ List.lock_b # <<>> /\ Head(List.lock_b) = First("lock_b")
     /\ Tail(List.lock_b) = List[Then["lock_b"]]
  /\ List.busy # <<>> /\ Head(List.busy) = First("busy") /\ Tail(List.busy) = List[Then["busy"]]
  /\ List.substitute # <<>> /\ Head(List.substitute) = First("substitute")
     /\ Tail(List.substitute) = List[Then["substitute"]]
  /\ List.check # <<>> /\ Head(List.check) = First("check")
     /\ Tail(List.check) = List[Then["check"]]
  /\ List.relook # <<>> /\ Head(List.relook) = First("relook")
     /\ Tail(List.relook) = List[Then["relook"]]
  /\ List.num # <<>> /\ Head(List.num) = First("num") /\ Tail(List.num) = List[Then["num"]]
  /\ List.inc2 # <<>> /\ Head(List.inc2) = First("inc2") /\ Tail(List.inc2) = List[Then["inc2"]]
  /\ List.inc1 # <<>> /\ Head(List.inc1) = First("inc1") /\ Tail(List.inc1) = List[Then["inc1"]]
  /\ List.append # <<>> /\ Head(List.append) = First("append")
     /\ Tail(List.append) = List[Then["append"]]
  /\ List.slot # <<>> /\ Head(List.slot) = First("slot") /\ Tail(List.slot) = List[Then["slot"]]
  /\ List.lookup # <<>> /\ Head(List.lookup) = First("lookup")
     /\ Tail(List.lookup) = List[Then["lookup"]]
  /\ List.refree # <<>> /\ Head(List.refree) = First("refree")
     /\ Tail(List.refree) = List[Then["refree"]]
  /\ List.number # <<>> /\ Head(List.number) = First("number")
     /\ Tail(List.number) = List[Then["number"]]
  /\ List.load # <<>> /\ Head(List.load) = First("load") /\ Tail(List.load) = List[Then["load"]]
  /\ List.rlock # <<>> /\ Head(List.rlock) = First("rlock")
     /\ Tail(List.rlock) = List[Then["rlock"]]
  /\ List.clear # <<>> /\ Head(List.clear) = First("clear")
     /\ Tail(List.clear) = List[Then["clear"]]
  /\ List.fix # <<>> /\ Head(List.fix) = First("fix") /\ Tail(List.fix) = List[Then["fix"]]
  /\ List.fixfree # <<>> /\ Head(List.fixfree) = First("fixfree")
     /\ Tail(List.fixfree) = List[Then["fixfree"]]
  /\ List.fixset # <<>> /\ Head(List.fixset) = First("fixset")
     /\ Tail(List.fixset) = List[Then["fixset"]]
  /\ List.fixlock # <<>> /\ Head(List.fixlock) = First("fixlock")
     /\ Tail(List.fixlock) = List[Then["fixlock"]]
<1>1. List.free # <<>> /\ Head(List.free) = First("free") /\ Tail(List.free) = List[Then["free"]]
  <2>1. Then["free"] = "idle" /\ First("free") = "free"
    BY DEF Then, First
  <2>2. PICK s, t : s = List.free /\ t = List.idle
    OBVIOUS
  <2>3. s = <<"free">> /\ t = <<>>
    BY <2>2 DEF List
  <2>4. s # <<>> /\ Head(s) = "free" /\ Tail(s) = t
    BY <2>3
  <2>. QED BY <2>1, <2>2, <2>4
<1>2. List.sort # <<>> /\ Head(List.sort) = First("sort") /\ Tail(List.sort) = List[Then["sort"]]
  <2>1. Then["sort"] = "free" /\ First("sort") = "sort"
    BY DEF Then, First
  <2>2. PICK s, t : s = List.sort /\ t = List.free
    OBVIOUS
  <2>3. s = <<"sort", "free">> /\ t = <<"free">>
    BY <2>2 DEF List
  <2>4. s # <<>> /\ Head(s) = "sort" /\ Tail(s) = t
    BY <2>3
  <2>. QED BY <2>1, <2>2, <2>4
<1>3. List.lock # <<>> /\ Head(List.lock) = First("lock") /\ Tail(List.lock) = List[Then["lock"]]
  <2>1. Then["lock"] = "sort" /\ First("lock") = "lock"
    BY DEF Then, First
  <2>2. PICK s, t : s = List.lock /\ t = List.sort
    OBVIOUS
  <2>3. s = <<"lock", "sort", "free">> /\ t = <<"sort", "free">>
    BY <2>2 DEF List
  <2>4. s # <<>> /\ Head(s) = "lock" /\ Tail(s) = t
    BY <2>3
  <2>. QED BY <2>1, <2>2, <2>4
<1>4. List.free_b # <<>> /\ Head(List.free_b) = First("free_b")
        /\ Tail(List.free_b) = List[Then["free_b"]]
  <2>1. Then["free_b"] = "lock" /\ First("free_b") = "free_b"
    BY DEF Then, First
  <2>2. PICK s, t : s = List.free_b /\ t = List.lock
    OBVIOUS
  <2>3. s = <<"free_b", "lock", "sort", "free">> /\ t = <<"lock", "sort", "free">>
    BY <2>2 DEF List
  <2>4. s # <<>> /\ Head(s) = "free_b" /\ Tail(s) = t
    BY <2>3
  <2>. QED BY <2>1, <2>2, <2>4
<1>5. List.load_b # <<>> /\ Head(List.load_b) = First("load_b")
        /\ Tail(List.load_b) = List[Then["load_b"]]
  <2>1. Then["load_b"] = "free_b" /\ First("load_b") = "load_b"
    BY DEF Then, First
  <2>2. PICK s, t : s = List.load_b /\ t = List.free_b
    OBVIOUS
  <2>3. s = <<"load_b", "free_b", "lock", "sort", "free">> /\ t = <<"free_b", "lock", "sort",
          "free">>
    BY <2>2 DEF List
  <2>4. s # <<>> /\ Head(s) = "load_b" /\ Tail(s) = t
    BY <2>3
  <2>. QED BY <2>1, <2>2, <2>4
<1>6. List.steal_b # <<>> /\ Head(List.steal_b) = First("steal_b")
        /\ Tail(List.steal_b) = List[Then["steal_b"]]
  <2>1. Then["steal_b"] = "load_b" /\ First("steal_b") = "steal_b"
    BY DEF Then, First
  <2>2. PICK s, t : s = List.steal_b /\ t = List.load_b
    OBVIOUS
  <2>3. s = <<"steal_b", "load_b", "free_b", "lock", "sort", "free">> /\ t = <<"load_b", "free_b",
          "lock", "sort", "free">>
    BY <2>2 DEF List
  <2>4. s # <<>> /\ Head(s) = "steal_b" /\ Tail(s) = t
    BY <2>3
  <2>. QED BY <2>1, <2>2, <2>4
<1>7. List.lock_b # <<>> /\ Head(List.lock_b) = First("lock_b")
        /\ Tail(List.lock_b) = List[Then["lock_b"]]
  <2>1. Then["lock_b"] = "load_b" /\ First("lock_b") = "lock_b"
    BY DEF Then, First
  <2>2. PICK s, t : s = List.lock_b /\ t = List.load_b
    OBVIOUS
  <2>3. s = <<"lock_b", "load_b", "free_b", "lock", "sort", "free">> /\ t = <<"load_b", "free_b",
          "lock", "sort", "free">>
    BY <2>2 DEF List
  <2>4. s # <<>> /\ Head(s) = "lock_b" /\ Tail(s) = t
    BY <2>3
  <2>. QED BY <2>1, <2>2, <2>4
<1>8. List.busy # <<>> /\ Head(List.busy) = First("busy") /\ Tail(List.busy) = List[Then["busy"]]
  <2>1. Then["busy"] = "lock_b" /\ First("busy") = "busy"
    BY DEF Then, First
  <2>2. PICK s, t : s = List.busy /\ t = List.lock_b
    OBVIOUS
  <2>3. s = <<"busy", "lock_b", "load_b", "free_b", "lock", "sort", "free">> /\ t = <<"lock_b",
          "load_b", "free_b", "lock", "sort", "free">>
    BY <2>2 DEF List
  <2>4. s # <<>> /\ Head(s) = "busy" /\ Tail(s) = t
    BY <2>3
  <2>. QED BY <2>1, <2>2, <2>4
<1>9. List.substitute # <<>> /\ Head(List.substitute) = First("substitute")
        /\ Tail(List.substitute) = List[Then["substitute"]]
  <2>1. Then["substitute"] = "busy" /\ First("substitute") = "substitute"
    BY DEF Then, First
  <2>2. PICK s, t : s = List.substitute /\ t = List.busy
    OBVIOUS
  <2>3. s = <<"substitute", "busy", "lock_b", "load_b", "free_b", "lock", "sort", "free">>
          /\ t = <<"busy", "lock_b", "load_b", "free_b", "lock", "sort", "free">>
    BY <2>2 DEF List
  <2>4. s # <<>> /\ Head(s) = "substitute" /\ Tail(s) = t
    BY <2>3
  <2>. QED BY <2>1, <2>2, <2>4
<1>10. List.check # <<>> /\ Head(List.check) = First("check")
         /\ Tail(List.check) = List[Then["check"]]
  <2>1. Then["check"] = "substitute" /\ First("check") = "check"
    BY DEF Then, First
  <2>2. PICK s, t : s = List.check /\ t = List.substitute
    OBVIOUS
  <2>3. s = <<"check", "substitute", "busy", "lock_b", "load_b", "free_b", "lock", "sort",
          "free">> /\ t = <<"substitute", "busy", "lock_b", "load_b", "free_b", "lock", "sort",
            "free">>
    BY <2>2 DEF List
  <2>4. s # <<>> /\ Head(s) = "check" /\ Tail(s) = t
    BY <2>3
  <2>. QED BY <2>1, <2>2, <2>4
<1>11. List.relook # <<>> /\ Head(List.relook) = First("relook")
         /\ Tail(List.relook) = List[Then["relook"]]
  <2>1. Then["relook"] = "check" /\ First("relook") = "lookup"
    BY DEF Then, First
  <2>2. PICK s, t : s = List.relook /\ t = List.check
    OBVIOUS
  <2>3. s = <<"lookup", "check", "substitute", "busy", "lock_b", "load_b", "free_b", "lock",
          "sort", "free">> /\ t = <<"check", "substitute", "busy", "lock_b", "load_b", "free_b",
            "lock", "sort", "free">>
    BY <2>2 DEF List
  <2>4. s # <<>> /\ Head(s) = "lookup" /\ Tail(s) = t
    BY <2>3
  <2>. QED BY <2>1, <2>2, <2>4
<1>12. List.num # <<>> /\ Head(List.num) = First("num") /\ Tail(List.num) = List[Then["num"]]
  <2>1. Then["num"] = "busy" /\ First("num") = "num"
    BY DEF Then, First
  <2>2. PICK s, t : s = List.num /\ t = List.busy
    OBVIOUS
  <2>3. s = <<"num", "busy", "lock_b", "load_b", "free_b", "lock", "sort", "free">>
          /\ t = <<"busy", "lock_b", "load_b", "free_b", "lock", "sort", "free">>
    BY <2>2 DEF List
  <2>4. s # <<>> /\ Head(s) = "num" /\ Tail(s) = t
    BY <2>3
  <2>. QED BY <2>1, <2>2, <2>4
<1>13. List.inc2 # <<>> /\ Head(List.inc2) = First("inc2") /\ Tail(List.inc2) = List[Then["inc2"]]
  <2>1. Then["inc2"] = "num" /\ First("inc2") = "inc2"
    BY DEF Then, First
  <2>2. PICK s, t : s = List.inc2 /\ t = List.num
    OBVIOUS
  <2>3. s = <<"inc2", "num", "busy", "lock_b", "load_b", "free_b", "lock", "sort", "free">>
          /\ t = <<"num", "busy", "lock_b", "load_b", "free_b", "lock", "sort", "free">>
    BY <2>2 DEF List
  <2>4. s # <<>> /\ Head(s) = "inc2" /\ Tail(s) = t
    BY <2>3
  <2>. QED BY <2>1, <2>2, <2>4
<1>14. List.inc1 # <<>> /\ Head(List.inc1) = First("inc1") /\ Tail(List.inc1) = List[Then["inc1"]]
  <2>1. Then["inc1"] = "inc2" /\ First("inc1") = "inc1"
    BY DEF Then, First
  <2>2. PICK s, t : s = List.inc1 /\ t = List.inc2
    OBVIOUS
  <2>3. s = <<"inc1", "inc2", "num", "busy", "lock_b", "load_b", "free_b", "lock", "sort",
          "free">> /\ t = <<"inc2", "num", "busy", "lock_b", "load_b", "free_b", "lock", "sort",
            "free">>
    BY <2>2 DEF List
  <2>4. s # <<>> /\ Head(s) = "inc1" /\ Tail(s) = t
    BY <2>3
  <2>. QED BY <2>1, <2>2, <2>4
<1>15. List.append # <<>> /\ Head(List.append) = First("append")
         /\ Tail(List.append) = List[Then["append"]]
  <2>1. Then["append"] = "inc1" /\ First("append") = "append"
    BY DEF Then, First
  <2>2. PICK s, t : s = List.append /\ t = List.inc1
    OBVIOUS
  <2>3. s = <<"append", "inc1", "inc2", "num", "busy", "lock_b", "load_b", "free_b", "lock",
          "sort", "free">> /\ t = <<"inc1", "inc2", "num", "busy", "lock_b", "load_b", "free_b",
            "lock", "sort", "free">>
    BY <2>2 DEF List
  <2>4. s # <<>> /\ Head(s) = "append" /\ Tail(s) = t
    BY <2>3
  <2>. QED BY <2>1, <2>2, <2>4
<1>16. List.slot # <<>> /\ Head(List.slot) = First("slot") /\ Tail(List.slot) = List[Then["slot"]]
  <2>1. Then["slot"] = "idle" /\ First("slot") = "slot"
    BY DEF Then, First
  <2>2. PICK s, t : s = List.slot /\ t = List.idle
    OBVIOUS
  <2>3. s = <<"slot">> /\ t = <<>>
    BY <2>2 DEF List
  <2>4. s # <<>> /\ Head(s) = "slot" /\ Tail(s) = t
    BY <2>3
  <2>. QED BY <2>1, <2>2, <2>4
<1>17. List.lookup # <<>> /\ Head(List.lookup) = First("lookup")
         /\ Tail(List.lookup) = List[Then["lookup"]]
  <2>1. Then["lookup"] = "slot" /\ First("lookup") = "lookup"
    BY DEF Then, First
  <2>2. PICK s, t : s = List.lookup /\ t = List.slot
    OBVIOUS
  <2>3. s = <<"lookup", "slot">> /\ t = <<"slot">>
    BY <2>2 DEF List
  <2>4. s # <<>> /\ Head(s) = "lookup" /\ Tail(s) = t
    BY <2>3
  <2>. QED BY <2>1, <2>2, <2>4
<1>18. List.refree # <<>> /\ Head(List.refree) = First("refree")
         /\ Tail(List.refree) = List[Then["refree"]]
  <2>1. Then["refree"] = "lock" /\ First("refree") = "free"
    BY DEF Then, First
  <2>2. PICK s, t : s = List.refree /\ t = List.lock
    OBVIOUS
  <2>3. s = <<"free", "lock", "sort", "free">> /\ t = <<"lock", "sort", "free">>
    BY <2>2 DEF List
  <2>4. s # <<>> /\ Head(s) = "free" /\ Tail(s) = t
    BY <2>3
  <2>. QED BY <2>1, <2>2, <2>4
<1>19. List.number # <<>> /\ Head(List.number) = First("number")
         /\ Tail(List.number) = List[Then["number"]]
  <2>1. Then["number"] = "refree" /\ First("number") = "number"
    BY DEF Then, First
  <2>2. PICK s, t : s = List.number /\ t = List.refree
    OBVIOUS
  <2>3. s = <<"number", "free", "lock", "sort", "free">> /\ t = <<"free", "lock", "sort", "free">>
    BY <2>2 DEF List
  <2>4. s # <<>> /\ Head(s) = "number" /\ Tail(s) = t
    BY <2>3
  <2>. QED BY <2>1, <2>2, <2>4
<1>20. List.load # <<>> /\ Head(List.load) = First("load") /\ Tail(List.load) = List[Then["load"]]
  <2>1. Then["load"] = "number" /\ First("load") = "load"
    BY DEF Then, First
  <2>2. PICK s, t : s = List.load /\ t = List.number
    OBVIOUS
  <2>3. s = <<"load", "number", "free", "lock", "sort", "free">> /\ t = <<"number", "free", "lock",
          "sort", "free">>
    BY <2>2 DEF List
  <2>4. s # <<>> /\ Head(s) = "load" /\ Tail(s) = t
    BY <2>3
  <2>. QED BY <2>1, <2>2, <2>4
<1>21. List.rlock # <<>> /\ Head(List.rlock) = First("rlock")
         /\ Tail(List.rlock) = List[Then["rlock"]]
  <2>1. Then["rlock"] = "load" /\ First("rlock") = "rlock"
    BY DEF Then, First
  <2>2. PICK s, t : s = List.rlock /\ t = List.load
    OBVIOUS
  <2>3. s = <<"rlock", "load", "number", "free", "lock", "sort", "free">> /\ t = <<"load",
          "number", "free", "lock", "sort", "free">>
    BY <2>2 DEF List
  <2>4. s # <<>> /\ Head(s) = "rlock" /\ Tail(s) = t
    BY <2>3
  <2>. QED BY <2>1, <2>2, <2>4
<1>22. List.clear # <<>> /\ Head(List.clear) = First("clear")
         /\ Tail(List.clear) = List[Then["clear"]]
  <2>1. Then["clear"] = "rlock" /\ First("clear") = "clear"
    BY DEF Then, First
  <2>2. PICK s, t : s = List.clear /\ t = List.rlock
    OBVIOUS
  <2>3. s = <<"clear", "rlock", "load", "number", "free", "lock", "sort", "free">>
          /\ t = <<"rlock", "load", "number", "free", "lock", "sort", "free">>
    BY <2>2 DEF List
  <2>4. s # <<>> /\ Head(s) = "clear" /\ Tail(s) = t
    BY <2>3
  <2>. QED BY <2>1, <2>2, <2>4
<1>23. List.fix # <<>> /\ Head(List.fix) = First("fix") /\ Tail(List.fix) = List[Then["fix"]]
  <2>1. Then["fix"] = "idle" /\ First("fix") = "fix"
    BY DEF Then, First
  <2>2. PICK s, t : s = List.fix /\ t = List.idle
    OBVIOUS
  <2>3. s = <<"fix">> /\ t = <<>>
    BY <2>2 DEF List
  <2>4. s # <<>> /\ Head(s) = "fix" /\ Tail(s) = t
    BY <2>3
  <2>. QED BY <2>1, <2>2, <2>4
<1>24. List.fixfree # <<>> /\ Head(List.fixfree) = First("fixfree")
         /\ Tail(List.fixfree) = List[Then["fixfree"]]
  <2>1. Then["fixfree"] = "fix" /\ First("fixfree") = "fixfree"
    BY DEF Then, First
  <2>2. PICK s, t : s = List.fixfree /\ t = List.fix
    OBVIOUS
  <2>3. s = <<"fixfree", "fix">> /\ t = <<"fix">>
    BY <2>2 DEF List
  <2>4. s # <<>> /\ Head(s) = "fixfree" /\ Tail(s) = t
    BY <2>3
  <2>. QED BY <2>1, <2>2, <2>4
<1>25. List.fixset # <<>> /\ Head(List.fixset) = First("fixset")
         /\ Tail(List.fixset) = List[Then["fixset"]]
  <2>1. Then["fixset"] = "fixfree" /\ First("fixset") = "fixset"
    BY DEF Then, First
  <2>2. PICK s, t : s = List.fixset /\ t = List.fixfree
    OBVIOUS
  <2>3. s = <<"fixset", "fixfree", "fix">> /\ t = <<"fixfree", "fix">>
    BY <2>2 DEF List
  <2>4. s # <<>> /\ Head(s) = "fixset" /\ Tail(s) = t
    BY <2>3
  <2>. QED BY <2>1, <2>2, <2>4
<1>26. List.fixlock # <<>> /\ Head(List.fixlock) = First("fixlock")
         /\ Tail(List.fixlock) = List[Then["fixlock"]]
  <2>1. Then["fixlock"] = "fixset" /\ First("fixlock") = "fixlock"
    BY DEF Then, First
  <2>2. PICK s, t : s = List.fixlock /\ t = List.fixset
    OBVIOUS
  <2>3. s = <<"fixlock", "fixset", "fixfree", "fix">> /\ t = <<"fixset", "fixfree", "fix">>
    BY <2>2 DEF List
  <2>4. s # <<>> /\ Head(s) = "fixlock" /\ Tail(s) = t
    BY <2>3
  <2>. QED BY <2>1, <2>2, <2>4
<1>27. List.idle = <<>>
  BY DEF List
<1>. QED BY <1>1, <1>2, <1>3, <1>4, <1>5, <1>6, <1>7, <1>8, <1>9, <1>10, <1>11, <1>12, <1>13,
       <1>14, <1>15, <1>16, <1>17, <1>18, <1>19, <1>20, <1>21, <1>22, <1>23, <1>24, <1>25, <1>26,
         <1>27

(* what is left after the first access is again one of the lists *)
LEMMA ListFact ==
  ASSUME NEW l \in Labels, l # "idle"
  PROVE  List[l] # <<>> /\ Head(List[l]) = First(l) /\ Tail(List[l]) = List[Then[l]]
         /\ Then[l] \in Labels
<1>1. Then[l] \in Labels
  BY LabelsAre DEF Then
<1>2. List[l] # <<>> /\ Head(List[l]) = First(l) /\ Tail(List[l]) = List[Then[l]]
  BY LabelsAre, ListFacts
<1>. QED BY <1>1, <1>2

(* a list belongs to one place *)
LEMMA ListsDiffer ==
  ASSUME NEW l \in Labels, NEW m \in Labels, List[l] = List[m]
  PROVE  l = m
<1>0. List.idle = <<>>
  BY ListFacts
<1>1. CASE l = "idle" \/ m = "idle"
  BY <1>0, <1>1, ListFact
<1>2. CASE l # "idle" /\ m # "idle"
  <2>1. First(l) = First(m) /\ List[Then[l]] = List[Then[m]]
    BY <1>2, ListFact
  <2>2. Then["free"] = "idle" /\ Then["refree"] = "lock" /\ Then["lookup"] = "slot"
          /\ Then["relook"] = "check"
    BY DEF Then
  <2>3. List.lock # List.idle /\ List.slot # List.check
    <3>1. "slot" \in Labels /\ "check" \in Labels
      BY LabelsAre
    <3>2. Head(List.slot) = "slot" /\ Head(List.check) = "check"
      BY <3>1, ListFact DEF First
    <3>. QED BY <1>0, <3>2, ListFacts
  <2>4. CASE l \in {"free", "refree", "lookup", "relook"}
    BY <2>1, <2>2, <2>3, <2>4 DEF First
  <2>5. CASE l \notin {"free", "refree", "lookup", "relook"}
    BY <2>1, <2>5 DEF First
  <2>. QED BY <2>4, <2>5
<1>. QED BY <1>1, <1>2

(* where a process is *)
Place(r) == CHOOSE l \in Labels : List[l] = r.todo

(* the place is told by what is left to do *)
LEMMA PlaceIs ==
  ASSUME NEW r, NEW l \in Labels, r.todo = List[l]
  PROVE  Place(r) = l
BY ListsDiffer DEF Place

(* a list in two parts *)
LEMMA ConcatStep ==
  ASSUME NEW r \in Seq(Words), NEW s \in Seq(Words), NEW t \in Seq(Words),
         r # <<>>, t # <<>>, Head(r) = Head(t), Tail(r) \o s = Tail(t)
  PROVE  r \o s = t
<1>1. PICK m \in Nat, k \in Nat : m = Len(r) - 1 /\ k = Len(s)
  OBVIOUS
<1>2. Len(t) = 1 + m + k /\ Len(r \o s) = 1 + m + k
  <2>1. Len(Tail(r)) = m /\ Tail(r) \in Seq(Words)
    BY <1>1
  <2>2. Len(Tail(r) \o s) = m + k
    BY <1>1, <2>1
  <2>3. Len(Tail(t)) = Len(t) - 1 /\ Len(t) \in Nat
    OBVIOUS
  <2>4. Len(r \o s) = Len(r) + Len(s) /\ Len(r) = m + 1
    BY <1>1, ConcatProperties
  <2>5. Len(t) - 1 = m + k
    BY <2>2, <2>3
  <2>6. Len(t) = 1 + m + k
    <3>1. PICK x \in Nat : x = Len(t)
      BY <2>3
    <3>2. x - 1 = m + k
      BY <2>5, <3>1, Zenon
    <3>. QED BY <1>1, <3>1, <3>2
  <2>7. m + 1 + k = 1 + m + k
    BY <1>1
  <2>8. Len(r \o s) = m + 1 + k
    BY <1>1, <2>4, Zenon
  <2>. QED BY <2>6, <2>7, <2>8
<1>3. \A i \in 1 .. 1 + m + k : (r \o s)[i] = t[i]
  <2>. SUFFICES ASSUME NEW i \in 1 .. 1 + m + k PROVE (r \o s)[i] = t[i]
    OBVIOUS
  <2>1. CASE i = 1
    BY <1>1, <2>1
  <2>2. CASE i # 1
    <3>1. PICK j \in 1 .. m + k : i = j + 1
      <4>1. i - 1 \in 1 .. m + k /\ i = (i - 1) + 1
        BY <1>1, <2>2
      <4>. QED BY <4>1
    <3>2. t[i] = Tail(t)[j] /\ Tail(t)[j] = (Tail(r) \o s)[j]
      <4>1. j \in 1 .. Len(t) - 1
        BY <1>1, <1>2, <3>1
      <4>2. Tail(t)[j] = t[j + 1]
        BY <4>1
      <4>. QED BY <3>1, <4>2
    <3>3. (Tail(r) \o s)[j] = (r \o s)[i]
      <4>1. CASE j <= m
        <5>1. (Tail(r) \o s)[j] = Tail(r)[j] /\ Tail(r)[j] = r[j + 1]
          BY <1>1, <3>1, <4>1
        <5>2. (r \o s)[i] = r[i]
          BY <1>1, <3>1, <4>1
        <5>. QED BY <3>1, <5>1, <5>2
      <4>2. CASE j > m
        <5>1. Len(Tail(r)) = m /\ Tail(r) \in Seq(Words)
          BY <1>1
        <5>2. (Tail(r) \o s)[j] = s[j - m]
          BY <1>1, <3>1, <4>2, <5>1
        <5>3. (r \o s)[i] = s[i - (m + 1)] /\ i - (m + 1) = j - m
          BY <1>1, <3>1, <4>2
        <5>. QED BY <5>2, <5>3
      <4>. QED BY <1>1, <3>1, <4>1, <4>2
    <3>. QED BY <3>2, <3>3
  <2>. QED BY <2>1, <2>2
<1>4. PICK u \in Seq(Words) : u = r \o s
  BY ConcatProperties
<1>5. Len(u) = Len(t) /\ \A i \in 1 .. Len(u) : u[i] = t[i]
  BY <1>2, <1>3, <1>4
<1>6. u = t
  BY <1>5
<1>. QED BY <1>4, <1>6

(* an element of a list *)
LEMMA ContainsStep ==
  ASSUME NEW s \in Seq(Words), s # <<>>, NEW e
  PROVE  Contains(s, e) <=> Head(s) = e \/ Contains(Tail(s), e)
<1>1. PICK m \in Nat : Len(s) = m + 1
  <2>1. Len(s) \in Nat /\ Len(s) # 0
    OBVIOUS
  <2>2. Len(s) - 1 \in Nat /\ Len(s) = (Len(s) - 1) + 1
    BY <2>1
  <2>. QED BY <2>2
<1>2. Tail(s) \in Seq(Words) /\ Len(Tail(s)) = m /\ \A j \in 1 .. m : Tail(s)[j] = s[j + 1]
  BY <1>1
<1>3. ASSUME Contains(s, e) PROVE Head(s) = e \/ Contains(Tail(s), e)
  <2>1. PICK i \in 1 .. m + 1 : s[i] = e
    BY <1>1, <1>3 DEF Contains
  <2>2. CASE i = 1
    BY <2>1, <2>2
  <2>3. CASE i # 1
    <3>1. PICK j \in 1 .. m : i = j + 1
      <4>1. i - 1 \in 1 .. m /\ i = (i - 1) + 1
        BY <2>3
      <4>. QED BY <4>1
    <3>. QED BY <1>2, <2>1, <3>1 DEF Contains
  <2>. QED BY <2>2, <2>3
<1>4. ASSUME Head(s) = e PROVE Contains(s, e)
  <2>1. 1 \in 1 .. Len(s) /\ s[1] = e
    BY <1>1, <1>4
  <2>. QED BY <2>1 DEF Contains
<1>5. ASSUME Contains(Tail(s), e) PROVE Contains(s, e)
  <2>1. PICK j \in 1 .. m : Tail(s)[j] = e
    BY <1>2, <1>5 DEF Contains
  <2>2. j + 1 \in 1 .. Len(s) /\ s[j + 1] = e
    BY <1>1, <1>2, <2>1
  <2>. QED BY <2>2 DEF Contains
<1>. QED BY <1>3, <1>4, <1>5

(* the lists are sequences of accesses *)
LEMMA ListsAreLists == \A l \in Labels : List[l] \in Seq(Words)
<1>1. List.idle \in Seq(Words)
  BY DEF List, Words
<1>2. List.free \in Seq(Words)
  BY DEF List, Words
<1>3. List.sort \in Seq(Words)
  BY DEF List, Words
<1>4. List.lock \in Seq(Words)
  BY DEF List, Words
<1>5. List.free_b \in Seq(Words)
  BY DEF List, Words
<1>6. List.load_b \in Seq(Words)
  BY DEF List, Words
<1>7. List.steal_b \in Seq(Words)
  BY DEF List, Words
<1>8. List.lock_b \in Seq(Words)
  BY DEF List, Words
<1>9. List.busy \in Seq(Words)
  BY DEF List, Words
<1>10. List.substitute \in Seq(Words)
  BY DEF List, Words
<1>11. List.check \in Seq(Words)
  BY DEF List, Words
<1>12. List.relook \in Seq(Words)
  BY DEF List, Words
<1>13. List.num \in Seq(Words)
  BY DEF List, Words
<1>14. List.inc2 \in Seq(Words)
  BY DEF List, Words
<1>15. List.inc1 \in Seq(Words)
  BY DEF List, Words
<1>16. List.append \in Seq(Words)
  BY DEF List, Words
<1>17. List.slot \in Seq(Words)
  BY DEF List, Words
<1>18. List.lookup \in Seq(Words)
  BY DEF List, Words
<1>19. List.refree \in Seq(Words)
  BY DEF List, Words
<1>20. List.number \in Seq(Words)
  BY DEF List, Words
<1>21. List.load \in Seq(Words)
  BY DEF List, Words
<1>22. List.rlock \in Seq(Words)
  BY DEF List, Words
<1>23. List.clear \in Seq(Words)
  BY DEF List, Words
<1>24. List.fix \in Seq(Words)
  BY DEF List, Words
<1>25. List.fixfree \in Seq(Words)
  BY DEF List, Words
<1>26. List.fixset \in Seq(Words)
  BY DEF List, Words
<1>27. List.fixlock \in Seq(Words)
  BY DEF List, Words
<1>. QED BY LabelsAre, <1>1, <1>2, <1>3, <1>4, <1>5, <1>6, <1>7, <1>8, <1>9, <1>10, <1>11, <1>12,
       <1>13, <1>14, <1>15, <1>16, <1>17, <1>18, <1>19, <1>20, <1>21, <1>22, <1>23, <1>24, <1>25,
         <1>26, <1>27

(* reset_board and then sort_bcache *)
LEMMA ResetThenSort == <<"busy", "lock_b", "load_b", "free_b">> \o List.lock = List.busy
<1>0. /\ {"busy", "free_b", "load_b", "lock", "lock_b"} \subseteq Labels
      /\ Then["busy"] = "lock_b" /\ Then["lock_b"] = "load_b" /\ Then["load_b"] = "free_b"
         /\ Then["free_b"] = "lock"
  BY LabelsAre DEF Then
<1>1. <<>> \o List.lock = List.lock
  BY <1>0, ListsAreLists, ConcatEmptySeq
<1>2. <<"free_b">> \o List.lock = List.free_b
  <2>1. PICK r : r = <<"free_b">>
    OBVIOUS
  <2>2. r \in Seq(Words) /\ r # <<>> /\ Head(r) = "free_b" /\ Tail(r) = <<>>
    BY <2>1 DEF Words
  <2>3. List.free_b # <<>> /\ Head(List.free_b) = "free_b" /\ Tail(List.free_b) = List.lock
    BY <1>0, ListFact DEF First
  <2>4. Tail(r) \o List.lock = Tail(List.free_b)
    BY <1>1, <2>2, <2>3
  <2>5. r \o List.lock = List.free_b
    BY <1>0, <2>2, <2>3, <2>4, ListsAreLists, ConcatStep
  <2>. QED BY <2>1, <2>5
<1>3. <<"load_b", "free_b">> \o List.lock = List.load_b
  <2>1. PICK r : r = <<"load_b", "free_b">>
    OBVIOUS
  <2>2. r \in Seq(Words) /\ r # <<>> /\ Head(r) = "load_b" /\ Tail(r) = <<"free_b">>
    BY <2>1 DEF Words
  <2>3. List.load_b # <<>> /\ Head(List.load_b) = "load_b" /\ Tail(List.load_b) = List.free_b
    BY <1>0, ListFact DEF First
  <2>4. Tail(r) \o List.lock = Tail(List.load_b)
    BY <1>2, <2>2, <2>3
  <2>5. r \o List.lock = List.load_b
    BY <1>0, <2>2, <2>3, <2>4, ListsAreLists, ConcatStep
  <2>. QED BY <2>1, <2>5
<1>4. <<"lock_b", "load_b", "free_b">> \o List.lock = List.lock_b
  <2>1. PICK r : r = <<"lock_b", "load_b", "free_b">>
    OBVIOUS
  <2>2. r \in Seq(Words) /\ r # <<>> /\ Head(r) = "lock_b" /\ Tail(r) = <<"load_b", "free_b">>
    BY <2>1 DEF Words
  <2>3. List.lock_b # <<>> /\ Head(List.lock_b) = "lock_b" /\ Tail(List.lock_b) = List.load_b
    BY <1>0, ListFact DEF First
  <2>4. Tail(r) \o List.lock = Tail(List.lock_b)
    BY <1>3, <2>2, <2>3
  <2>5. r \o List.lock = List.lock_b
    BY <1>0, <2>2, <2>3, <2>4, ListsAreLists, ConcatStep
  <2>. QED BY <2>1, <2>5
<1>5. <<"busy", "lock_b", "load_b", "free_b">> \o List.lock = List.busy
  <2>1. PICK r : r = <<"busy", "lock_b", "load_b", "free_b">>
    OBVIOUS
  <2>2. r \in Seq(Words) /\ r # <<>> /\ Head(r) = "busy" /\ Tail(r) = <<"lock_b", "load_b",
          "free_b">>
    BY <2>1 DEF Words
  <2>3. List.busy # <<>> /\ Head(List.busy) = "busy" /\ Tail(List.busy) = List.lock_b
    BY <1>0, ListFact DEF First
  <2>4. Tail(r) \o List.lock = Tail(List.busy)
    BY <1>4, <2>2, <2>3
  <2>5. r \o List.lock = List.busy
    BY <1>0, <2>2, <2>3, <2>4, ListsAreLists, ConcatStep
  <2>. QED BY <2>1, <2>5
<1>. QED BY <1>5

(* what follows the first empty slot in slot *)
LEMMA SubstituteList == <<"substitute">> \o List.busy = List.substitute
<1>0. /\ {"busy", "substitute"} \subseteq Labels
      /\ Then["substitute"] = "busy"
  BY LabelsAre DEF Then
<1>1. <<>> \o List.busy = List.busy
  BY <1>0, ListsAreLists, ConcatEmptySeq
<1>2. <<"substitute">> \o List.busy = List.substitute
  <2>1. PICK r : r = <<"substitute">>
    OBVIOUS
  <2>2. r \in Seq(Words) /\ r # <<>> /\ Head(r) = "substitute" /\ Tail(r) = <<>>
    BY <2>1 DEF Words
  <2>3. List.substitute # <<>> /\ Head(List.substitute) = "substitute"
          /\ Tail(List.substitute) = List.busy
    BY <1>0, ListFact DEF First
  <2>4. Tail(r) \o List.busy = Tail(List.substitute)
    BY <1>1, <2>2, <2>3
  <2>5. r \o List.busy = List.substitute
    BY <1>0, <2>2, <2>3, <2>4, ListsAreLists, ConcatStep
  <2>. QED BY <2>1, <2>5
<1>. QED BY <1>2

(* what follows a new slot in slot *)
LEMMA AppendList == <<"append", "inc1", "inc2", "num">> \o List.busy = List.append
<1>0. /\ {"append", "busy", "inc1", "inc2", "num"} \subseteq Labels
      /\ Then["append"] = "inc1" /\ Then["inc1"] = "inc2" /\ Then["inc2"] = "num"
         /\ Then["num"] = "busy"
  BY LabelsAre DEF Then
<1>1. <<>> \o List.busy = List.busy
  BY <1>0, ListsAreLists, ConcatEmptySeq
<1>2. <<"num">> \o List.busy = List.num
  <2>1. PICK r : r = <<"num">>
    OBVIOUS
  <2>2. r \in Seq(Words) /\ r # <<>> /\ Head(r) = "num" /\ Tail(r) = <<>>
    BY <2>1 DEF Words
  <2>3. List.num # <<>> /\ Head(List.num) = "num" /\ Tail(List.num) = List.busy
    BY <1>0, ListFact DEF First
  <2>4. Tail(r) \o List.busy = Tail(List.num)
    BY <1>1, <2>2, <2>3
  <2>5. r \o List.busy = List.num
    BY <1>0, <2>2, <2>3, <2>4, ListsAreLists, ConcatStep
  <2>. QED BY <2>1, <2>5
<1>3. <<"inc2", "num">> \o List.busy = List.inc2
  <2>1. PICK r : r = <<"inc2", "num">>
    OBVIOUS
  <2>2. r \in Seq(Words) /\ r # <<>> /\ Head(r) = "inc2" /\ Tail(r) = <<"num">>
    BY <2>1 DEF Words
  <2>3. List.inc2 # <<>> /\ Head(List.inc2) = "inc2" /\ Tail(List.inc2) = List.num
    BY <1>0, ListFact DEF First
  <2>4. Tail(r) \o List.busy = Tail(List.inc2)
    BY <1>2, <2>2, <2>3
  <2>5. r \o List.busy = List.inc2
    BY <1>0, <2>2, <2>3, <2>4, ListsAreLists, ConcatStep
  <2>. QED BY <2>1, <2>5
<1>4. <<"inc1", "inc2", "num">> \o List.busy = List.inc1
  <2>1. PICK r : r = <<"inc1", "inc2", "num">>
    OBVIOUS
  <2>2. r \in Seq(Words) /\ r # <<>> /\ Head(r) = "inc1" /\ Tail(r) = <<"inc2", "num">>
    BY <2>1 DEF Words
  <2>3. List.inc1 # <<>> /\ Head(List.inc1) = "inc1" /\ Tail(List.inc1) = List.inc2
    BY <1>0, ListFact DEF First
  <2>4. Tail(r) \o List.busy = Tail(List.inc1)
    BY <1>3, <2>2, <2>3
  <2>5. r \o List.busy = List.inc1
    BY <1>0, <2>2, <2>3, <2>4, ListsAreLists, ConcatStep
  <2>. QED BY <2>1, <2>5
<1>5. <<"append", "inc1", "inc2", "num">> \o List.busy = List.append
  <2>1. PICK r : r = <<"append", "inc1", "inc2", "num">>
    OBVIOUS
  <2>2. r \in Seq(Words) /\ r # <<>> /\ Head(r) = "append" /\ Tail(r) = <<"inc1", "inc2", "num">>
    BY <2>1 DEF Words
  <2>3. List.append # <<>> /\ Head(List.append) = "append" /\ Tail(List.append) = List.inc1
    BY <1>0, ListFact DEF First
  <2>4. Tail(r) \o List.busy = Tail(List.append)
    BY <1>4, <2>2, <2>3
  <2>5. r \o List.busy = List.append
    BY <1>0, <2>2, <2>3, <2>4, ListsAreLists, ConcatStep
  <2>. QED BY <2>1, <2>5
<1>. QED BY <1>5

(* the operation delete *)
LEMMA CheckList == <<"check", "substitute">> \o List.busy = List.check
<1>0. /\ {"busy", "check", "substitute"} \subseteq Labels
      /\ Then["check"] = "substitute" /\ Then["substitute"] = "busy"
  BY LabelsAre DEF Then
<1>1. <<>> \o List.busy = List.busy
  BY <1>0, ListsAreLists, ConcatEmptySeq
<1>2. <<"substitute">> \o List.busy = List.substitute
  <2>1. PICK r : r = <<"substitute">>
    OBVIOUS
  <2>2. r \in Seq(Words) /\ r # <<>> /\ Head(r) = "substitute" /\ Tail(r) = <<>>
    BY <2>1 DEF Words
  <2>3. List.substitute # <<>> /\ Head(List.substitute) = "substitute"
          /\ Tail(List.substitute) = List.busy
    BY <1>0, ListFact DEF First
  <2>4. Tail(r) \o List.busy = Tail(List.substitute)
    BY <1>1, <2>2, <2>3
  <2>5. r \o List.busy = List.substitute
    BY <1>0, <2>2, <2>3, <2>4, ListsAreLists, ConcatStep
  <2>. QED BY <2>1, <2>5
<1>3. <<"check", "substitute">> \o List.busy = List.check
  <2>1. PICK r : r = <<"check", "substitute">>
    OBVIOUS
  <2>2. r \in Seq(Words) /\ r # <<>> /\ Head(r) = "check" /\ Tail(r) = <<"substitute">>
    BY <2>1 DEF Words
  <2>3. List.check # <<>> /\ Head(List.check) = "check" /\ Tail(List.check) = List.substitute
    BY <1>0, ListFact DEF First
  <2>4. Tail(r) \o List.busy = Tail(List.check)
    BY <1>2, <2>2, <2>3
  <2>5. r \o List.busy = List.check
    BY <1>0, <2>2, <2>3, <2>4, ListsAreLists, ConcatStep
  <2>. QED BY <2>1, <2>5
<1>. QED BY <1>3

(* the operation rename *)
LEMMA RenameList == <<"lookup", "check", "substitute">> \o List.busy = List.relook
<1>0. /\ {"busy", "check", "relook", "substitute"} \subseteq Labels
      /\ Then["relook"] = "check" /\ Then["check"] = "substitute" /\ Then["substitute"] = "busy"
  BY LabelsAre DEF Then
<1>1. <<>> \o List.busy = List.busy
  BY <1>0, ListsAreLists, ConcatEmptySeq
<1>2. <<"substitute">> \o List.busy = List.substitute
  <2>1. PICK r : r = <<"substitute">>
    OBVIOUS
  <2>2. r \in Seq(Words) /\ r # <<>> /\ Head(r) = "substitute" /\ Tail(r) = <<>>
    BY <2>1 DEF Words
  <2>3. List.substitute # <<>> /\ Head(List.substitute) = "substitute"
          /\ Tail(List.substitute) = List.busy
    BY <1>0, ListFact DEF First
  <2>4. Tail(r) \o List.busy = Tail(List.substitute)
    BY <1>1, <2>2, <2>3
  <2>5. r \o List.busy = List.substitute
    BY <1>0, <2>2, <2>3, <2>4, ListsAreLists, ConcatStep
  <2>. QED BY <2>1, <2>5
<1>3. <<"check", "substitute">> \o List.busy = List.check
  <2>1. PICK r : r = <<"check", "substitute">>
    OBVIOUS
  <2>2. r \in Seq(Words) /\ r # <<>> /\ Head(r) = "check" /\ Tail(r) = <<"substitute">>
    BY <2>1 DEF Words
  <2>3. List.check # <<>> /\ Head(List.check) = "check" /\ Tail(List.check) = List.substitute
    BY <1>0, ListFact DEF First
  <2>4. Tail(r) \o List.busy = Tail(List.check)
    BY <1>2, <2>2, <2>3
  <2>5. r \o List.busy = List.check
    BY <1>0, <2>2, <2>3, <2>4, ListsAreLists, ConcatStep
  <2>. QED BY <2>1, <2>5
<1>4. <<"lookup", "check", "substitute">> \o List.busy = List.relook
  <2>1. PICK r : r = <<"lookup", "check", "substitute">>
    OBVIOUS
  <2>2. r \in Seq(Words) /\ r # <<>> /\ Head(r) = "lookup" /\ Tail(r) = <<"check", "substitute">>
    BY <2>1 DEF Words
  <2>3. List.relook # <<>> /\ Head(List.relook) = "lookup" /\ Tail(List.relook) = List.check
    BY <1>0, ListFact DEF First
  <2>4. Tail(r) \o List.busy = Tail(List.relook)
    BY <1>3, <2>2, <2>3
  <2>5. r \o List.busy = List.relook
    BY <1>0, <2>2, <2>3, <2>4, ListsAreLists, ConcatStep
  <2>. QED BY <2>1, <2>5
<1>. QED BY <1>4

(* lock_b that takes over an old lock *)
LEMMA StealList == <<"steal_b">> \o List.load_b = List.steal_b
<1>0. /\ {"load_b", "steal_b"} \subseteq Labels
      /\ Then["steal_b"] = "load_b"
  BY LabelsAre DEF Then
<1>1. <<>> \o List.load_b = List.load_b
  BY <1>0, ListsAreLists, ConcatEmptySeq
<1>2. <<"steal_b">> \o List.load_b = List.steal_b
  <2>1. PICK r : r = <<"steal_b">>
    OBVIOUS
  <2>2. r \in Seq(Words) /\ r # <<>> /\ Head(r) = "steal_b" /\ Tail(r) = <<>>
    BY <2>1 DEF Words
  <2>3. List.steal_b # <<>> /\ Head(List.steal_b) = "steal_b" /\ Tail(List.steal_b) = List.load_b
    BY <1>0, ListFact DEF First
  <2>4. Tail(r) \o List.load_b = Tail(List.steal_b)
    BY <1>1, <2>2, <2>3
  <2>5. r \o List.load_b = List.steal_b
    BY <1>0, <2>2, <2>3, <2>4, ListsAreLists, ConcatStep
  <2>. QED BY <2>1, <2>5
<1>. QED BY <1>2

(* the rest of a reload *)
LEMMA RefreeList == <<"free">> \o List.lock = List.refree
<1>0. {"lock", "refree"} \subseteq Labels /\ Then["refree"] = "lock"
  BY LabelsAre DEF Then
<1>1. <<>> \o List.lock = List.lock
  BY <1>0, ListsAreLists, ConcatEmptySeq
<1>2. PICK r : r = <<"free">>
  OBVIOUS
<1>3. r \in Seq(Words) /\ r # <<>> /\ Head(r) = "free" /\ Tail(r) = <<>>
  BY <1>2 DEF Words
<1>4. List.refree # <<>> /\ Head(List.refree) = "free" /\ Tail(List.refree) = List.lock
  BY <1>0, ListFact DEF First
<1>5. Tail(r) \o List.lock = Tail(List.refree)
  BY <1>1, <1>3, <1>4
<1>6. r \o List.lock = List.refree
  BY <1>0, <1>3, <1>4, <1>5, ListsAreLists, ConcatStep
<1>. QED BY <1>2, <1>6

(* the operation reload *)
LEMMA ReloadList == <<"rlock", "load", "number", "free">> \o List.lock = List.rlock
<1>0. /\ {"load", "lock", "number", "refree", "rlock"} \subseteq Labels
      /\ Then["rlock"] = "load" /\ Then["load"] = "number" /\ Then["number"] = "refree"
         /\ Then["refree"] = "lock"
  BY LabelsAre DEF Then
<1>1. <<>> \o List.lock = List.lock
  BY <1>0, ListsAreLists, ConcatEmptySeq
<1>2. <<"free">> \o List.lock = List.refree
  <2>1. PICK r : r = <<"free">>
    OBVIOUS
  <2>2. r \in Seq(Words) /\ r # <<>> /\ Head(r) = "free" /\ Tail(r) = <<>>
    BY <2>1 DEF Words
  <2>3. List.refree # <<>> /\ Head(List.refree) = "free" /\ Tail(List.refree) = List.lock
    BY <1>0, ListFact DEF First
  <2>4. Tail(r) \o List.lock = Tail(List.refree)
    BY <1>1, <2>2, <2>3
  <2>5. r \o List.lock = List.refree
    BY <1>0, <2>2, <2>3, <2>4, ListsAreLists, ConcatStep
  <2>. QED BY <2>1, <2>5
<1>3. <<"number", "free">> \o List.lock = List.number
  <2>1. PICK r : r = <<"number", "free">>
    OBVIOUS
  <2>2. r \in Seq(Words) /\ r # <<>> /\ Head(r) = "number" /\ Tail(r) = <<"free">>
    BY <2>1 DEF Words
  <2>3. List.number # <<>> /\ Head(List.number) = "number" /\ Tail(List.number) = List.refree
    BY <1>0, ListFact DEF First
  <2>4. Tail(r) \o List.lock = Tail(List.number)
    BY <1>2, <2>2, <2>3
  <2>5. r \o List.lock = List.number
    BY <1>0, <2>2, <2>3, <2>4, ListsAreLists, ConcatStep
  <2>. QED BY <2>1, <2>5
<1>4. <<"load", "number", "free">> \o List.lock = List.load
  <2>1. PICK r : r = <<"load", "number", "free">>
    OBVIOUS
  <2>2. r \in Seq(Words) /\ r # <<>> /\ Head(r) = "load" /\ Tail(r) = <<"number", "free">>
    BY <2>1 DEF Words
  <2>3. List.load # <<>> /\ Head(List.load) = "load" /\ Tail(List.load) = List.number
    BY <1>0, ListFact DEF First
  <2>4. Tail(r) \o List.lock = Tail(List.load)
    BY <1>3, <2>2, <2>3
  <2>5. r \o List.lock = List.load
    BY <1>0, <2>2, <2>3, <2>4, ListsAreLists, ConcatStep
  <2>. QED BY <2>1, <2>5
<1>5. <<"rlock", "load", "number", "free">> \o List.lock = List.rlock
  <2>1. PICK r : r = <<"rlock", "load", "number", "free">>
    OBVIOUS
  <2>2. r \in Seq(Words) /\ r # <<>> /\ Head(r) = "rlock" /\ Tail(r) = <<"load", "number", "free">>
    BY <2>1 DEF Words
  <2>3. List.rlock # <<>> /\ Head(List.rlock) = "rlock" /\ Tail(List.rlock) = List.load
    BY <1>0, ListFact DEF First
  <2>4. Tail(r) \o List.lock = Tail(List.rlock)
    BY <1>4, <2>2, <2>3
  <2>5. r \o List.lock = List.rlock
    BY <1>0, <2>2, <2>3, <2>4, ListsAreLists, ConcatStep
  <2>. QED BY <2>1, <2>5
<1>. QED BY <1>5

(* the operation init *)
LEMMA ClearList == <<"clear">> \o List.rlock = List.clear
<1>0. /\ {"clear", "rlock"} \subseteq Labels
      /\ Then["clear"] = "rlock"
  BY LabelsAre DEF Then
<1>1. <<>> \o List.rlock = List.rlock
  BY <1>0, ListsAreLists, ConcatEmptySeq
<1>2. <<"clear">> \o List.rlock = List.clear
  <2>1. PICK r : r = <<"clear">>
    OBVIOUS
  <2>2. r \in Seq(Words) /\ r # <<>> /\ Head(r) = "clear" /\ Tail(r) = <<>>
    BY <2>1 DEF Words
  <2>3. List.clear # <<>> /\ Head(List.clear) = "clear" /\ Tail(List.clear) = List.rlock
    BY <1>0, ListFact DEF First
  <2>4. Tail(r) \o List.rlock = Tail(List.clear)
    BY <1>1, <2>2, <2>3
  <2>5. r \o List.rlock = List.clear
    BY <1>0, <2>2, <2>3, <2>4, ListsAreLists, ConcatStep
  <2>. QED BY <2>1, <2>5
<1>. QED BY <1>2

(* the lists that the operations are made of *)
LEMMA Lists ==
  /\ SortBcache = List.lock
  /\ <<"substitute">> \o ResetBoard \o SortBcache = List.substitute
  /\ <<"append", "inc1", "inc2", "num">> \o ResetBoard \o SortBcache = List.append
  /\ <<"fixlock", "fixset", "fixfree", "fix">> = List.fixlock
  /\ <<"steal_b">> \o List.load_b = List.steal_b
  /\ <<"free">> = List.free /\ <<>> = List.idle /\ <<"free">> \o SortBcache = List.refree
  /\ DOMAIN Program = {"add", "rename", "delete", "reload", "fix", "init"}
  /\ Program.add = List.lookup /\ Program.rename = List.relook /\ Program.delete = List.check
  /\ Program.reload = List.rlock /\ Program.fix = List.fix /\ Program.init = List.clear
<1>1. SortBcache = List.lock
  BY DEF SortBcache, List
<1>2. ResetBoard \in Seq(Words) /\ SortBcache \in Seq(Words) /\ ResetBoard \o SortBcache = List.busy
  <2>1. ResetBoard \in Seq(Words)
    BY DEF ResetBoard, Words
  <2>2. SortBcache \in Seq(Words)
    BY DEF SortBcache, Words
  <2>3. ResetBoard \o List.lock = List.busy
    BY ResetThenSort DEF ResetBoard
  <2>. QED BY <1>1, <2>1, <2>2, <2>3
<1>3. ASSUME NEW s \in Seq(Words)
      PROVE  s \o ResetBoard \o SortBcache = s \o List.busy
  <2>1. (s \o ResetBoard) \o SortBcache = s \o (ResetBoard \o SortBcache)
    <3>1. \A t, u \in Seq(Words) : (s \o t) \o u = s \o (t \o u)
      BY ConcatAssociative
    <3>2. ResetBoard \in Seq(Words) /\ SortBcache \in Seq(Words)
      BY <1>2
    <3>. QED BY <3>1, <3>2, Zenon
  <2>. QED BY <1>2, <2>1, Zenon
<1>4. <<"substitute">> \o ResetBoard \o SortBcache = List.substitute
  <2>1. <<"substitute">> \in Seq(Words)
    BY DEF Words
  <2>. QED BY <1>3, <2>1, SubstituteList
<1>5. <<"append", "inc1", "inc2", "num">> \o ResetBoard \o SortBcache = List.append
  <2>1. <<"append", "inc1", "inc2", "num">> \in Seq(Words)
    BY DEF Words
  <2>. QED BY <1>3, <2>1, AppendList
<1>6. <<"fixlock", "fixset", "fixfree", "fix">> = List.fixlock /\ <<"free">> = List.free
        /\ <<>> = List.idle
  BY DEF List
<1>7. DOMAIN Program = {"add", "rename", "delete", "reload", "fix", "init"}
  BY DEF Program
<1>8. ReloadBcache = List.rlock
  BY <1>1, ReloadList DEF ReloadBcache
<1>9. Program.add = List.lookup /\ Program.fix = List.fix
  BY DEF Program, List
<1>10. Program.reload = List.rlock /\ Program.init = List.clear
  BY <1>8, ClearList DEF Program
<1>11. Program.rename = List.relook
  <2>1. <<"lookup", "check", "substitute">> \in Seq(Words)
    BY DEF Words
  <2>2. Program.rename = <<"lookup", "check", "substitute">> \o ResetBoard \o SortBcache
    BY DEF Program
  <2>. QED BY <1>3, <2>1, <2>2, RenameList
<1>12. Program.delete = List.check
  <2>1. <<"check", "substitute">> \in Seq(Words)
    BY DEF Words
  <2>2. Program.delete = <<"check", "substitute">> \o ResetBoard \o SortBcache
    BY DEF Program
  <2>. QED BY <1>3, <2>1, <2>2, CheckList
<1>13. <<"free">> \o SortBcache = List.refree
  BY <1>1, RefreeList
<1>. QED BY <1>1, <1>4, <1>5, <1>6, <1>7, <1>9, <1>10, <1>11, <1>12, <1>13, StealList

(* who has appended a board and not yet read the number of boards *)
LEMMA NumberingIs ==
  ASSUME NEW q, NEW l \in Labels, proc[q].todo = List[l]
  PROVE  Numbering(q) <=> l \in {"inc1", "inc2", "num"}
<1>. DEFINE C(m) == Contains(List[m], "num")
           D(m) == Contains(List[m], "append")
<1>1. ~C("idle") /\ ~D("idle")
  BY DEF Contains, List
<1>2. ASSUME NEW m \in Labels, m # "idle"
      PROVE  (C(m) <=> First(m) = "num" \/ C(Then[m])) /\ (D(m) <=> First(m) = "append"
             \/ D(Then[m]))
  BY <1>2, ListsAreLists, ListFact, ContainsStep
<1>. HIDE DEF C, D
<1>3. ~C("free") /\ ~D("free")
  <2>1. "free" \in Labels /\ Then["free"] = "idle" /\ First("free") = "free"
    BY LabelsAre DEF Then, First
  <2>. QED BY <1>2, <1>1, <2>1
<1>4. ~C("slot") /\ ~D("slot")
  <2>1. "slot" \in Labels /\ Then["slot"] = "idle" /\ First("slot") = "slot"
    BY LabelsAre DEF Then, First
  <2>. QED BY <1>2, <1>1, <2>1
<1>5. ~C("fix") /\ ~D("fix")
  <2>1. "fix" \in Labels /\ Then["fix"] = "idle" /\ First("fix") = "fix"
    BY LabelsAre DEF Then, First
  <2>. QED BY <1>2, <1>1, <2>1
<1>6. ~C("sort") /\ ~D("sort")
  <2>1. "sort" \in Labels /\ Then["sort"] = "free" /\ First("sort") = "sort"
    BY LabelsAre DEF Then, First
  <2>. QED BY <1>2, <1>3, <2>1
<1>7. ~C("lookup") /\ ~D("lookup")
  <2>1. "lookup" \in Labels /\ Then["lookup"] = "slot" /\ First("lookup") = "lookup"
    BY LabelsAre DEF Then, First
  <2>. QED BY <1>2, <1>4, <2>1
<1>8. ~C("fixfree") /\ ~D("fixfree")
  <2>1. "fixfree" \in Labels /\ Then["fixfree"] = "fix" /\ First("fixfree") = "fixfree"
    BY LabelsAre DEF Then, First
  <2>. QED BY <1>2, <1>5, <2>1
<1>9. ~C("lock") /\ ~D("lock")
  <2>1. "lock" \in Labels /\ Then["lock"] = "sort" /\ First("lock") = "lock"
    BY LabelsAre DEF Then, First
  <2>. QED BY <1>2, <1>6, <2>1
<1>10. ~C("fixset") /\ ~D("fixset")
  <2>1. "fixset" \in Labels /\ Then["fixset"] = "fixfree" /\ First("fixset") = "fixset"
    BY LabelsAre DEF Then, First
  <2>. QED BY <1>2, <1>8, <2>1
<1>11. ~C("free_b") /\ ~D("free_b")
  <2>1. "free_b" \in Labels /\ Then["free_b"] = "lock" /\ First("free_b") = "free_b"
    BY LabelsAre DEF Then, First
  <2>. QED BY <1>2, <1>9, <2>1
<1>12. ~C("refree") /\ ~D("refree")
  <2>1. "refree" \in Labels /\ Then["refree"] = "lock" /\ First("refree") = "free"
    BY LabelsAre DEF Then, First
  <2>. QED BY <1>2, <1>9, <2>1
<1>13. ~C("fixlock") /\ ~D("fixlock")
  <2>1. "fixlock" \in Labels /\ Then["fixlock"] = "fixset" /\ First("fixlock") = "fixlock"
    BY LabelsAre DEF Then, First
  <2>. QED BY <1>2, <1>10, <2>1
<1>14. ~C("load_b") /\ ~D("load_b")
  <2>1. "load_b" \in Labels /\ Then["load_b"] = "free_b" /\ First("load_b") = "load_b"
    BY LabelsAre DEF Then, First
  <2>. QED BY <1>2, <1>11, <2>1
<1>15. ~C("number") /\ ~D("number")
  <2>1. "number" \in Labels /\ Then["number"] = "refree" /\ First("number") = "number"
    BY LabelsAre DEF Then, First
  <2>. QED BY <1>2, <1>12, <2>1
<1>16. ~C("steal_b") /\ ~D("steal_b")
  <2>1. "steal_b" \in Labels /\ Then["steal_b"] = "load_b" /\ First("steal_b") = "steal_b"
    BY LabelsAre DEF Then, First
  <2>. QED BY <1>2, <1>14, <2>1
<1>17. ~C("lock_b") /\ ~D("lock_b")
  <2>1. "lock_b" \in Labels /\ Then["lock_b"] = "load_b" /\ First("lock_b") = "lock_b"
    BY LabelsAre DEF Then, First
  <2>. QED BY <1>2, <1>14, <2>1
<1>18. ~C("load") /\ ~D("load")
  <2>1. "load" \in Labels /\ Then["load"] = "number" /\ First("load") = "load"
    BY LabelsAre DEF Then, First
  <2>. QED BY <1>2, <1>15, <2>1
<1>19. ~C("busy") /\ ~D("busy")
  <2>1. "busy" \in Labels /\ Then["busy"] = "lock_b" /\ First("busy") = "busy"
    BY LabelsAre DEF Then, First
  <2>. QED BY <1>2, <1>17, <2>1
<1>20. ~C("rlock") /\ ~D("rlock")
  <2>1. "rlock" \in Labels /\ Then["rlock"] = "load" /\ First("rlock") = "rlock"
    BY LabelsAre DEF Then, First
  <2>. QED BY <1>2, <1>18, <2>1
<1>21. ~C("substitute") /\ ~D("substitute")
  <2>1. "substitute" \in Labels /\ Then["substitute"] = "busy" /\ First("substitute") = "substitute"
    BY LabelsAre DEF Then, First
  <2>. QED BY <1>2, <1>19, <2>1
<1>22. C("num") /\ ~D("num")
  <2>1. "num" \in Labels /\ Then["num"] = "busy" /\ First("num") = "num"
    BY LabelsAre DEF Then, First
  <2>. QED BY <1>2, <1>19, <2>1
<1>23. ~C("clear") /\ ~D("clear")
  <2>1. "clear" \in Labels /\ Then["clear"] = "rlock" /\ First("clear") = "clear"
    BY LabelsAre DEF Then, First
  <2>. QED BY <1>2, <1>20, <2>1
<1>24. ~C("check") /\ ~D("check")
  <2>1. "check" \in Labels /\ Then["check"] = "substitute" /\ First("check") = "check"
    BY LabelsAre DEF Then, First
  <2>. QED BY <1>2, <1>21, <2>1
<1>25. C("inc2") /\ ~D("inc2")
  <2>1. "inc2" \in Labels /\ Then["inc2"] = "num" /\ First("inc2") = "inc2"
    BY LabelsAre DEF Then, First
  <2>. QED BY <1>2, <1>22, <2>1
<1>26. ~C("relook") /\ ~D("relook")
  <2>1. "relook" \in Labels /\ Then["relook"] = "check" /\ First("relook") = "lookup"
    BY LabelsAre DEF Then, First
  <2>. QED BY <1>2, <1>24, <2>1
<1>27. C("inc1") /\ ~D("inc1")
  <2>1. "inc1" \in Labels /\ Then["inc1"] = "inc2" /\ First("inc1") = "inc1"
    BY LabelsAre DEF Then, First
  <2>. QED BY <1>2, <1>25, <2>1
<1>28. C("append") /\ D("append")
  <2>1. "append" \in Labels /\ Then["append"] = "inc1" /\ First("append") = "append"
    BY LabelsAre DEF Then, First
  <2>. QED BY <1>2, <1>27, <2>1
<1>29. Numbering(q) <=> C(l) /\ ~D(l)
  BY DEF Numbering, C, D
<1>. QED BY LabelsAre, <1>1, <1>3, <1>4, <1>5, <1>6, <1>7, <1>8, <1>9, <1>10, <1>11, <1>12, <1>13,
       <1>14, <1>15, <1>16, <1>17, <1>18, <1>19, <1>20, <1>21, <1>22, <1>23, <1>24, <1>25, <1>26,
         <1>27, <1>28, <1>29

-----------------------------------------------------------------------------
(* The order of the boards, and what getbnum finds in it *)

Most == MaxBoard + MaxOps

(* what the assumption on the constants gives *)
LEMMA Sizes ==
  /\ Most \in Nat /\ Most >= 2 /\ MaxBoard \in Nat /\ MaxBoard >= 2 /\ MaxBoard <= Most
     /\ Slots = 0 .. Most - 1
  /\ MaxOps \in Nat /\ Tries \in Nat /\ Tries >= 1 /\ MaxTime \in Nat /\ MaxTime >= 1
     /\ IsFiniteSet(Procs)
  /\ 0 \in Headers /\ 1 \in Headers /\ 2 \in Headers /\ 1 \in Names /\ 2 \in Names
     /\ Headers \subseteq Nat
BY BoardCacheAssumption DEF Most, Slots, Headers, Names

(* the names of the first n boards are numbers *)
LEMMA NameIsNat ==
  ASSUME bcache \in [Slots -> Headers], NEW n \in 0 .. Most, NEW b \in 0 .. n - 1
  PROVE  b \in Slots /\ bcache[b] \in Nat
<1>1. b \in Slots
  BY Sizes
<1>2. bcache[b] \in Headers
  BY <1>1
<1>. QED BY <1>1, <1>2, Sizes

(* there are n first boards *)
LEMMA FirstBoards ==
  ASSUME NEW n \in 0 .. Most
  PROVE  IsFiniteSet(0 .. n - 1) /\ Cardinality(0 .. n - 1) = n
<1>1. n \in Nat /\ n - 1 \in Int /\ 0 \in Int
  BY Sizes
<1>2. IsFiniteSet(0 .. n - 1) /\ Cardinality(0 .. n - 1) = IF 0 > n - 1 THEN 0 ELSE n - 1 - 0 + 1
  BY <1>1, FS_Interval
<1>. QED BY <1>1, <1>2

(* who is before has the smaller rank *)
LEMMA RankLess ==
  ASSUME bcache \in [Slots -> Headers], NEW n \in 0 .. Most, NEW b \in 0 .. n - 1,
         NEW c \in 0 .. n - 1, Before(c, b)
  PROVE  Rank(c, n) < Rank(b, n)
<1>1. /\ IsFiniteSet(0 .. n - 1) /\ Cardinality(0 .. n - 1) = n
  BY FirstBoards
<1>. DEFINE X == {x \in 0 .. n - 1 : Before(x, c)}
           Y == {x \in 0 .. n - 1 : Before(x, b)}
<1>2. X \subseteq Y
  <2>. SUFFICES ASSUME NEW x \in 0 .. n - 1, Before(x, c) PROVE Before(x, b)
    OBVIOUS
  <2>1. bcache[x] \in Nat /\ bcache[c] \in Nat /\ bcache[b] \in Nat
    BY NameIsNat
  <2>. QED BY <2>1, Sizes DEF Before
<1>3. c \in Y /\ c \notin X
  <2>1. bcache[c] \in Nat
    BY NameIsNat
  <2>. QED BY <2>1, Sizes DEF Before
<1>4. IsFiniteSet(Y)
  BY <1>1, FS_Subset
<1>5. Cardinality(X) \in Nat /\ Cardinality(Y) \in Nat /\ Cardinality(X) <= Cardinality(Y)
        /\ Cardinality(X) # Cardinality(Y)
  BY <1>1, <1>2, <1>3, <1>4, FS_Subset, FS_CardinalityType
<1>. QED BY <1>5 DEF Rank

(* a rank is an index of the table *)
LEMMA RankType ==
  ASSUME NEW n \in 0 .. Most, NEW b \in 0 .. n - 1, bcache \in [Slots -> Headers]
  PROVE  Rank(b, n) \in 0 .. n - 1
<1>1. /\ IsFiniteSet(0 .. n - 1) /\ Cardinality(0 .. n - 1) = n
  BY FirstBoards
<1>. DEFINE Y == {x \in 0 .. n - 1 : Before(x, b)}
           Z == (0 .. n - 1) \ {b}
<1>2. IsFiniteSet(Z) /\ Cardinality(Z) = n - 1
  BY <1>1, FS_RemoveElement
<1>3. Y \subseteq Z
  <2>1. bcache[b] \in Nat
    BY NameIsNat
  <2>2. ~Before(b, b)
    BY <2>1, Sizes DEF Before
  <2>. QED BY <2>2
<1>4. Cardinality(Y) \in Nat /\ Cardinality(Y) <= n - 1
  BY <1>2, <1>3, FS_Subset, FS_CardinalityType
<1>. QED BY <1>4, Sizes DEF Rank

(* ranks are those of the names, and no two boards have the same *)
LEMMA RankOrder ==
  ASSUME bcache \in [Slots -> Headers], NEW n \in 0 .. Most, NEW b \in 0 .. n - 1,
         NEW c \in 0 .. n - 1,
         Rank(c, n) <= Rank(b, n)
  PROVE  (Rank(c, n) = Rank(b, n) => b = c) /\ bcache[c] <= bcache[b]
<1>1. Rank(c, n) \in Nat /\ Rank(b, n) \in Nat
  BY RankType
<1>2. ~Before(b, c)
  BY <1>1, RankLess
<1>3. bcache[b] \in Nat /\ bcache[c] \in Nat
  BY NameIsNat
<1>4. Before(c, b) \/ b = c
  BY <1>2, <1>3, Sizes DEF Before
<1>5. Rank(c, n) = Rank(b, n) => b = c
  BY <1>1, <1>4, RankLess
<1>. QED BY <1>2, <1>3, <1>5 DEF Before

(* every index has its board *)
LEMMA ByNameIs ==
  ASSUME bcache \in [Slots -> Headers], NEW n \in 0 .. Most, NEW i \in 0 .. n - 1
  PROVE  ByName(n, i) \in 0 .. n - 1 /\ Rank(ByName(n, i), n) = i
<1>. DEFINE S == 0 .. n - 1
           f == [b \in S |-> Rank(b, n)]
<1>1. /\ IsFiniteSet(S) /\ Cardinality(S) = n
  BY FirstBoards
<1>2. f \in [S -> S]
  BY RankType
<1>3. ASSUME NEW b \in S, NEW c \in S, f[b] = f[c] PROVE b = c
  <2>1. Rank(c, n) = Rank(b, n) /\ Rank(b, n) \in Nat
    BY <1>3, RankType
  <2>2. Rank(c, n) <= Rank(b, n)
    BY <2>1
  <2>. QED BY <2>1, <2>2, RankOrder
<1>4. f \in Injection(S, S)
  BY <1>2, <1>3 DEF Injection, IsInjective
<1>5. f \in Surjection(S, S)
  BY <1>1, <1>4, FS_Injection
<1>6. PICK b \in S : f[b] = i
  BY <1>5 DEF Surjection
<1>7. \E c \in 0 .. n - 1 : Rank(c, n) = i
  BY <1>6
<1>. QED BY <1>7 DEF ByName

(* sort_bcache leaves an index of slots *)
LEMMA SortedType ==
  ASSUME bcache \in [Slots -> Headers], Bnumber \in 1 .. Most, bsorted \in [Slots -> Slots]
  PROVE  Sorted \in [Slots -> Slots]
<1>1. \A i \in Slots : i < Bnumber => ByName(Bnumber, i) \in Slots
  <2>. SUFFICES ASSUME NEW i \in Slots, i < Bnumber PROVE ByName(Bnumber, i) \in Slots
    OBVIOUS
  <2>1. Bnumber \in 0 .. Most /\ i \in 0 .. Bnumber - 1
    BY Sizes
  <2>2. ByName(Bnumber, i) \in 0 .. Bnumber - 1
    BY <2>1, ByNameIs
  <2>. QED BY <2>1, <2>2, Sizes
<1>. QED BY <1>1 DEF Sorted

(* the names are in order, and every board has its place *)
Ordered ==
  /\ \A i, j \in 0 .. Bnumber - 1 : i <= j => bcache[bsorted[i]] <= bcache[bsorted[j]]
  /\ \A b \in 0 .. Bnumber - 1 : \E i \in 0 .. Bnumber - 1 : bsorted[i] = b

(* an index that was just sorted names every board once, in order *)
LEMMA SortedIsOrdered ==
  ASSUME bcache \in [Slots -> Headers], Bnumber \in 1 .. Most, bsorted \in [Slots -> Slots],
         bsorted = Sorted
  PROVE  Ordered /\ \A i \in 0 .. Bnumber - 1 : bsorted[i] \in 0 .. Bnumber - 1
<1>1. \A i \in 0 .. Bnumber - 1 : bsorted[i] \in 0 .. Bnumber - 1 /\ Rank(bsorted[i], Bnumber) = i
  <2>. SUFFICES ASSUME NEW i \in 0 .. Bnumber - 1 PROVE bsorted[i] \in 0 .. Bnumber - 1
                       /\ Rank(bsorted[i], Bnumber) = i
    OBVIOUS
  <2>1. bsorted[i] = ByName(Bnumber, i)
    BY Sizes DEF Sorted
  <2>. QED BY <2>1, ByNameIs
<1>2. ASSUME NEW i \in 0 .. Bnumber - 1, NEW j \in 0 .. Bnumber - 1, i <= j
      PROVE  bcache[bsorted[i]] <= bcache[bsorted[j]]
  BY <1>1, <1>2, RankOrder
<1>3. ASSUME NEW b \in 0 .. Bnumber - 1 PROVE \E i \in 0 .. Bnumber - 1 : bsorted[i] = b
  <2>1. PICK i \in 0 .. Bnumber - 1 : Rank(b, Bnumber) = i
    BY RankType
  <2>2. Rank(bsorted[i], Bnumber) = i /\ bsorted[i] \in 0 .. Bnumber - 1
    BY <1>1
  <2>3. Rank(bsorted[i], Bnumber) <= Rank(b, Bnumber)
    BY <2>1, <2>2
  <2>. QED BY <2>1, <2>2, <2>3, RankOrder
<1>. QED BY <1>1, <1>2, <1>3 DEF Ordered

(* a set of numbers has a least one *)
LEMMA Least ==
  ASSUME NEW T \in SUBSET Nat, T # {}
  PROVE  \E m \in T : \A n \in T : m <= n
<1>1. PICK R : R = OpToRel(<, Nat)
  OBVIOUS
<1>2. IsWellFoundedOn(R, Nat)
  BY <1>1, NatLessThanWellFounded
<1>3. PICK m \in T : \A n \in T : ~ (<<n, m>> \in R)
  BY <1>2, WFMin
<1>4. \A n \in T : n < m => <<n, m>> \in R
  BY <1>1 DEF OpToRel
<1>5. m \in Nat /\ \A n \in T : n \in Nat /\ ~(n < m)
  BY <1>3, <1>4
<1>. QED BY <1>3, <1>5

(* induction, by the least counterexample *)
LEMMA NatInd ==
  ASSUME NEW S \in SUBSET Nat, 0 \in S, \A n \in S : n + 1 \in S
  PROVE  \A n \in Nat : n \in S
<1>. SUFFICES ASSUME Nat \ S # {} PROVE FALSE
  OBVIOUS
<1>2. PICK m \in Nat \ S : \A n \in Nat \ S : m <= n
  BY Least
<1>3. m # 0 /\ m - 1 \in S
  BY <1>2
<1>. QED BY <1>2, <1>3

(* one round of getbnum *)
Round(f, n, s, e) ==
  LET i == (s + e) \div 2
      x == bcache[bsorted[i]]
  IN IF n = x THEN bsorted[i] + 1
     ELSE IF s = e THEN 0
     ELSE IF i = s THEN f[<<e, e>>]
     ELSE IF n > x THEN f[<<i, e>>] ELSE f[<<s, i>>]

Far(r) == IF r[1] <= r[2] THEN r[2] - r[1] ELSE r[1] - r[2]
Searches(f, n) == f = [r \in Slots \X Slots |-> Round(f, n, r[1], r[2])]

(* a round looks at shorter parts only *)
LEMMA RoundIsLocal ==
  ASSUME NEW f, NEW g, NEW n, NEW s \in Slots, NEW e \in Slots,
         \A a, c \in Slots : Far(<<a, c>>) < Far(<<s, e>>) \/ <<a, c>> = <<s, e>> => f[<<a,
           c>>] = g[<<a, c>>]
  PROVE  Round(f, n, s, e) = Round(g, n, s, e)
<1>1. PICK i : i = (s + e) \div 2
  OBVIOUS
<1>2. s \in Nat /\ e \in Nat /\ i \in Slots /\ (s < e => s <= i /\ i < e) /\ (s > e => e <= i
        /\ i < s)
  BY <1>1, Sizes
<1>3. CASE s = e
  BY <1>1, <1>3 DEF Round
<1>4. CASE s # e
  <2>1. f[<<e, e>>] = g[<<e, e>>]
    BY <1>2, <1>4 DEF Far
  <2>2. i # s => f[<<i, e>>] = g[<<i, e>>]
    BY <1>2, <1>4 DEF Far
  <2>3. i # s => f[<<s, i>>] = g[<<s, i>>]
    <3>1. CASE i = e
      BY <1>2, <3>1
    <3>2. CASE i # e
      BY <1>2, <1>4, <3>2 DEF Far
    <3>. QED BY <3>1, <3>2
  <2>. QED BY <1>1, <1>4, <2>1, <2>2, <2>3 DEF Round
<1>. QED BY <1>3, <1>4

(* the search ends: there is a function that does its rounds *)
LEMMA SearchExists ==
  ASSUME NEW n
  PROVE  \E f : Searches(f, n)
<1>. DEFINE Pairs == Slots \X Slots
           Upto(f, k) == /\ f = [r \in Pairs |-> f[r]]
                         /\ \A s, e \in Slots : Far(<<s, e>>) < k => f[<<s, e>>] = Round(f, n, s, e)
           S == {k \in Nat : \E f : Upto(f, k)}
<1>0. \A s, e \in Slots : Far(<<s, e>>) \in Nat /\ Far(<<s, e>>) < Most
  BY Sizes DEF Far
<1>1. 0 \in S
  <2>1. PICK f : f = [r \in Pairs |-> 0]
    OBVIOUS
  <2>2. f = [r \in Pairs |-> f[r]]
    BY <2>1
  <2>3. ASSUME NEW s \in Slots, NEW e \in Slots PROVE ~(Far(<<s, e>>) < 0)
    <3>1. PICK d \in Nat : d = Far(<<s, e>>)
      BY <1>0
    <3>. QED BY <3>1
  <2>4. Upto(f, 0)
    BY <2>2, <2>3
  <2>. QED BY <2>4
<1>2. ASSUME NEW k \in S PROVE k + 1 \in S
  <2>1. PICK f : Upto(f, k)
    OBVIOUS
  <2>2. k \in Nat
    OBVIOUS
  <2>3. PICK g : g = [r \in Pairs |-> IF Far(r) < k THEN f[r] ELSE Round(f, n, r[1], r[2])]
    OBVIOUS
  <2>4. g = [r \in Pairs |-> g[r]]
    BY <2>3
  <2>5. ASSUME NEW s \in Slots, NEW e \in Slots
        PROVE  g[<<s, e>>] = IF Far(<<s, e>>) < k THEN f[<<s, e>>] ELSE Round(f, n, s, e)
    <3>1. <<s, e>> \in Pairs /\ <<s, e>>[1] = s /\ <<s, e>>[2] = e
      OBVIOUS
    <3>. QED BY <2>3, <3>1
  <2>6. ASSUME NEW s \in Slots, NEW e \in Slots, Far(<<s, e>>) < k + 1
        PROVE  g[<<s, e>>] = Round(g, n, s, e)
    <3>1. \A a, c \in Slots : Far(<<a, c>>) < Far(<<s, e>>) => f[<<a, c>>] = g[<<a, c>>]
      BY <1>0, <2>2, <2>5, <2>6
    <3>2. g[<<s, e>>] = Round(f, n, s, e)
      BY <2>1, <2>5
    <3>3. CASE f[<<s, e>>] = g[<<s, e>>]
      <4>1. \A a, c \in Slots : Far(<<a, c>>) < Far(<<s, e>>) \/ <<a, c>> = <<s, e>> => f[<<a,
              c>>] = g[<<a, c>>]
        BY <3>1, <3>3
      <4>. QED BY <3>2, <4>1, RoundIsLocal
    <3>4. CASE f[<<s, e>>] # g[<<s, e>>]
      <4>1. PICK i : i = (s + e) \div 2
        OBVIOUS
      <4>2. s \in Nat /\ e \in Nat /\ i \in Nat /\ i \in Slots /\ (s < e => s <= i /\ i < e)
              /\ (s > e => e <= i /\ i < s)
        BY <4>1, Sizes
      <4>3. CASE i = e /\ s # e /\ ~(n = bcache[bsorted[i]]) /\ ~(n > bcache[bsorted[i]]) /\ i # s
        BY <3>2, <3>4, <4>1, <4>3 DEF Round
      <4>4. CASE ~(i = e /\ s # e /\ ~(n = bcache[bsorted[i]]) /\ ~(n > bcache[bsorted[i]])
              /\ i # s)
        <5>1. s # e => f[<<e, e>>] = g[<<e, e>>]
          BY <3>1, <4>2 DEF Far
        <5>2. s # e /\ i # s => f[<<i, e>>] = g[<<i, e>>]
          <6>1. s # e /\ i # s => Far(<<i, e>>) < Far(<<s, e>>)
            BY <4>2 DEF Far
          <6>. QED BY <3>1, <4>2, <6>1
        <5>3. s # e /\ i # s /\ i # e => f[<<s, i>>] = g[<<s, i>>]
          <6>1. s # e /\ i # s /\ i # e => Far(<<s, i>>) < Far(<<s, e>>)
            BY <4>2 DEF Far
          <6>. QED BY <3>1, <4>2, <6>1
        <5>4. Round(f, n, s, e) = Round(g, n, s, e)
          BY <4>1, <4>4, <5>1, <5>2, <5>3 DEF Round
        <5>. QED BY <3>2, <5>4
      <4>. QED BY <4>3, <4>4
    <3>. QED BY <3>3, <3>4
  <2>7. Upto(g, k + 1)
    BY <2>4, <2>6
  <2>8. k + 1 \in Nat
    BY <2>2
  <2>. HIDE DEF Upto
  <2>. QED BY <2>7, <2>8
<1>3. Most \in S
  <2>1. S \in SUBSET Nat
    OBVIOUS
  <2>. HIDE DEF S
  <2>. QED BY <1>1, <1>2, <2>1, NatInd, Sizes
<1>4. PICK f : Upto(f, Most)
  BY <1>3
<1>5. ASSUME NEW r \in Pairs PROVE f[r] = Round(f, n, r[1], r[2])
  <2>1. PICK s \in Slots, e \in Slots : r = <<s, e>>
    OBVIOUS
  <2>2. r[1] = s /\ r[2] = e
    BY <2>1
  <2>3. f[<<s, e>>] = Round(f, n, s, e)
    BY <1>0, <1>4
  <2>. QED BY <2>1, <2>2, <2>3
<1>6. f = [r \in Pairs |-> Round(f, n, r[1], r[2])]
  BY <1>4, <1>5
<1>. QED BY <1>6 DEF Searches

(* getbnum is the value that a search gives *)
LEMMA GetbnumIs ==
  ASSUME NEW n
  PROVE  \E f : Searches(f, n) /\ getbnum(n) = f[<<0, Bnumber - 1>>]
<1>1. PICK f : f = (CHOOSE g : Searches(g, n)) /\ getbnum(n) = f[<<0, Bnumber - 1>>]
  BY Zenon DEF getbnum, Searches, Round
<1>2. Searches(f, n)
  BY <1>1, SearchExists
<1>. QED BY <1>1, <1>2

(* the boards are in the order of their names *)
InOrder == \A i, j \in 0 .. Bnumber - 1 : i <= j => bcache[bsorted[i]] <= bcache[bsorted[j]]

(* what the search of the part from s to e gives *)
Found(f, n, s, e) ==
  \/ \E k \in s .. e : bcache[bsorted[k]] = n /\ f[<<s, e>>] = bsorted[k] + 1
  \/ f[<<s, e>>] = 0 /\ (InOrder => \A k \in s .. e : bcache[bsorted[k]] # n)

(* a search between two places of the index finds a board of that name, and
   misses none of them when the index is in order (by induction on the distance) *)
LEMMA SearchIsRight ==
  ASSUME bcache \in [Slots -> Headers], bsorted \in [Slots -> Slots], Bnumber \in 1 .. Most,
         NEW n \in Nat, NEW f, Searches(f, n)
  PROVE  \A s, e \in 0 .. Bnumber - 1 : s <= e => Found(f, n, s, e)
<1>. DEFINE N == 0 .. Bnumber - 1
           S == {k \in Nat : \A s, e \in N : s <= e /\ e - s < k => Found(f, n, s, e)}
<1>0. Bnumber \in Nat /\ N \subseteq Slots /\ \A k \in N : bcache[bsorted[k]] \in Nat
  <2>1. Bnumber \in Nat /\ N \subseteq Slots
    BY Sizes
  <2>2. ASSUME NEW k \in N PROVE bcache[bsorted[k]] \in Nat
    <3>1. bsorted[k] \in Slots
      BY <2>1
    <3>2. bcache[bsorted[k]] \in Headers
      BY <3>1
    <3>. QED BY <3>2, Sizes
  <2>. QED BY <2>1, <2>2
<1>1. 0 \in S
  <2>1. \A s, e \in N : ~(s <= e /\ e - s < 0)
    BY <1>0
  <2>. QED BY <2>1
<1>2. ASSUME NEW m \in S PROVE m + 1 \in S
  <2>. SUFFICES ASSUME NEW s \in N, NEW e \in N, s <= e, e - s < m + 1 PROVE Found(f, n, s, e)
    OBVIOUS
  <2>1. PICK i : i = (s + e) \div 2
    OBVIOUS
  <2>2. m \in Nat /\ s \in Nat /\ e \in Nat /\ i \in N /\ s <= i /\ i <= e /\ (s < e => i < e)
    BY <1>0, <2>1
  <2>3. PICK x \in Nat : x = bcache[bsorted[i]]
    BY <1>0, <2>2
  <2>4. f[<<s, e>>] = IF n = x THEN bsorted[i] + 1
                      ELSE IF s = e THEN 0
                      ELSE IF i = s THEN f[<<e, e>>]
                      ELSE IF n > x THEN f[<<i, e>>] ELSE f[<<s, i>>]
    <3>1. <<s, e>> \in Slots \X Slots /\ <<s, e>>[1] = s /\ <<s, e>>[2] = e
      BY <1>0
    <3>2. f[<<s, e>>] = Round(f, n, s, e)
      BY <3>1 DEF Searches
    <3>. QED BY <2>1, <2>3, <3>2 DEF Round
  <2>5. CASE n = x
    BY <2>2, <2>3, <2>4, <2>5 DEF Found
  <2>6. CASE n # x /\ s = e
    BY <2>2, <2>3, <2>4, <2>6 DEF Found
  <2>7. CASE n # x /\ s # e /\ i = s
    <3>1. e = s + 1
      BY <2>1, <2>2, <2>7
    <3>2. Found(f, n, e, e)
      BY <2>2, <2>7, <3>1
    <3>3. \A k \in s .. e : k = i \/ k \in e .. e
      BY <2>2, <2>7, <3>1
    <3>4. e .. e \subseteq s .. e
      BY <2>2, <3>1
    <3>. QED BY <2>3, <2>4, <2>7, <3>2, <3>3, <3>4 DEF Found
  <2>8. CASE n # x /\ s # e /\ i # s /\ n > x
    <3>1. Found(f, n, i, e)
      BY <2>2, <2>8
    <3>2. InOrder => \A k \in s .. i : bcache[bsorted[k]] # n
      <4>. SUFFICES ASSUME InOrder, NEW k \in s .. i PROVE bcache[bsorted[k]] # n
        OBVIOUS
      <4>1. k \in N /\ k <= i
        BY <1>0, <2>2
      <4>2. bcache[bsorted[k]] <= x /\ bcache[bsorted[k]] \in Nat
        BY <1>0, <2>2, <2>3, <4>1 DEF InOrder
      <4>. QED BY <2>8, <4>2
    <3>3. \A k \in s .. e : k \in s .. i \/ k \in i .. e
      BY <2>2
    <3>4. i .. e \subseteq s .. e
      BY <2>2
    <3>. QED BY <2>4, <2>8, <3>1, <3>2, <3>3, <3>4 DEF Found
  <2>9. CASE n # x /\ s # e /\ i # s /\ ~(n > x)
    <3>1. Found(f, n, s, i)
      BY <2>2, <2>9
    <3>2. InOrder => \A k \in i .. e : bcache[bsorted[k]] # n
      <4>. SUFFICES ASSUME InOrder, NEW k \in i .. e PROVE bcache[bsorted[k]] # n
        OBVIOUS
      <4>1. k \in N /\ i <= k
        BY <1>0, <2>2
      <4>2. x <= bcache[bsorted[k]] /\ bcache[bsorted[k]] \in Nat
        BY <1>0, <2>2, <2>3, <4>1 DEF InOrder
      <4>. QED BY <2>9, <4>2
    <3>3. \A k \in s .. e : k \in s .. i \/ k \in i .. e
      BY <2>2
    <3>4. s .. i \subseteq s .. e
      BY <2>2
    <3>. QED BY <2>4, <2>9, <3>1, <3>2, <3>3, <3>4 DEF Found
  <2>. QED BY <2>5, <2>6, <2>7, <2>8, <2>9
<1>3. \A k \in Nat : k \in S
  <2>1. S \in SUBSET Nat
    OBVIOUS
  <2>. HIDE DEF S
  <2>. QED BY <1>1, <1>2, <2>1, NatInd
<1>. SUFFICES ASSUME NEW s \in N, NEW e \in N, s <= e PROVE Found(f, n, s, e)
  OBVIOUS
<1>4. PICK k \in Nat : e - s < k
  <2>1. e - s < e - s + 1 /\ e - s + 1 \in Nat
    BY <1>0
  <2>. QED BY <2>1
<1>. QED BY <1>3, <1>4

(* getbnum finds a board of the name; 0 means that there is none, if the index
   is in order *)
LEMMA GetbnumFinds ==
  ASSUME bcache \in [Slots -> Headers], bsorted \in [Slots -> Slots], Bnumber \in 1 .. Most,
         NEW n \in Names
  PROVE  \/ \E k \in 0 .. Bnumber - 1 : bcache[bsorted[k]] = n /\ getbnum(n) = bsorted[k] + 1
         \/ getbnum(n) = 0 /\ (InOrder => \A k \in 0 .. Bnumber - 1 : bcache[bsorted[k]] # n)
<1>1. PICK f : Searches(f, n) /\ getbnum(n) = f[<<0, Bnumber - 1>>]
  BY GetbnumIs
<1>2. n \in Nat
  BY DEF Names
<1>3. 0 \in 0 .. Bnumber - 1 /\ Bnumber - 1 \in 0 .. Bnumber - 1 /\ 0 <= Bnumber - 1
  BY Sizes
<1>4. Found(f, n, 0, Bnumber - 1)
  BY <1>1, <1>2, <1>3, SearchIsRight
<1>. QED BY <1>1, <1>4 DEF Found

(* the board that getbnum finds is one of the slots *)
LEMMA GetbnumType ==
  ASSUME bcache \in [Slots -> Headers], bsorted \in [Slots -> Slots], Bnumber \in 1 .. Most,
         NEW n \in Names,
         getbnum(n) > 0
  PROVE  getbnum(n) - 1 \in Slots
<1>1. PICK k \in 0 .. Bnumber - 1 : getbnum(n) = bsorted[k] + 1
  BY GetbnumFinds
<1>2. bsorted[k] \in Slots /\ bsorted[k] \in Nat
  BY Sizes
<1>. QED BY <1>1, <1>2

(* a look-up finds the boards that are there *)
LEMMA OrderIsFound ==
  ASSUME bcache \in [Slots -> Headers], bsorted \in [Slots -> Slots], Bnumber \in 1 .. Most,
         bsorted = Sorted,
         NEW n \in Names
  PROVE  IF \E b \in 0 .. Bnumber - 1 : bcache[b] = n
         THEN getbnum(n) > 0 /\ bcache[getbnum(n) - 1] = n
         ELSE getbnum(n) = 0
<1>1. Ordered /\ InOrder /\ \A i \in 0 .. Bnumber - 1 : bsorted[i] \in 0 .. Bnumber - 1
  BY SortedIsOrdered DEF Ordered, InOrder
<1>2. ASSUME NEW k \in 0 .. Bnumber - 1, getbnum(n) = bsorted[k] + 1
      PROVE  getbnum(n) > 0 /\ getbnum(n) - 1 = bsorted[k]
  <2>1. bsorted[k] \in Nat
    BY <1>1, Sizes
  <2>. QED BY <1>2, <2>1
<1>3. CASE \E b \in 0 .. Bnumber - 1 : bcache[b] = n
  <2>1. \E k \in 0 .. Bnumber - 1 : bcache[bsorted[k]] = n
    BY <1>1, <1>3 DEF Ordered
  <2>2. PICK k \in 0 .. Bnumber - 1 : bcache[bsorted[k]] = n /\ getbnum(n) = bsorted[k] + 1
    BY <1>1, <2>1, GetbnumFinds
  <2>. QED BY <1>2, <1>3, <2>2
<1>4. CASE ~\E b \in 0 .. Bnumber - 1 : bcache[b] = n
  <2>1. \A k \in 0 .. Bnumber - 1 : bcache[bsorted[k]] # n
    BY <1>1, <1>4
  <2>. QED BY <1>4, <2>1, GetbnumFinds
<1>. QED BY <1>3, <1>4

-----------------------------------------------------------------------------
(* The processes *)

Ops == {"idle", "add", "rename", "delete", "reload", "fix", "init"}
Recs == [op : Ops, todo : {List[l] : l \in Labels}, name : Headers, old : Headers, b : 0 .. Most,
         t : 0 .. MaxTime, n : Nat, tries : 0 .. Tries - 1 \cup {1}, alone : BOOLEAN]

(* all but what is left to do *)
Like(g, r) ==
  /\ g.op = r.op /\ g.name = r.name /\ g.old = r.old /\ g.b = r.b /\ g.t = r.t /\ g.n = r.n
  /\ g.tries = r.tries /\ g.alone = r.alone

(* the place of a process *)
LEMMA PlaceOf ==
  ASSUME NEW r \in Recs
  PROVE  Place(r) \in Labels /\ r.todo = List[Place(r)]
<1>1. PICK l \in Labels : r.todo = List[l]
  BY DEF Recs
<1>. QED BY <1>1, PlaceIs

(* a process that does nothing *)
LEMMA IdleIs ==
  /\ Idle \in Recs /\ Place(Idle) = "idle" /\ Idle.todo = <<>> /\ Idle.op = "idle"
     /\ Idle.name = 0 /\ Idle.old = 0 /\ Idle.b = 0
  /\ Idle.t = 0 /\ Idle.n = 0 /\ Idle.tries = 0 /\ Idle.alone = FALSE
<1>1. "idle" \in Labels /\ List.idle = <<>>
  BY LabelsAre, ListFacts
<1>2. Idle.todo = <<>> /\ Idle.op = "idle" /\ Idle.name = 0 /\ Idle.old = 0 /\ Idle.b = 0
  /\ Idle.t = 0 /\ Idle.n = 0 /\ Idle.tries = 0 /\ Idle.alone = FALSE
  BY DEF Idle
<1>3. Place(Idle) = "idle"
  BY <1>1, <1>2, PlaceIs
<1>4. Idle \in Recs
  <2>1. <<>> \in {List[l] : l \in Labels}
    BY <1>1
  <2>2. "idle" \in Ops /\ 0 \in Headers /\ 0 \in 0 .. Most /\ 0 \in 0 .. MaxTime
          /\ 0 \in 0 .. Tries - 1
    BY Sizes DEF Ops
  <2>. QED BY <2>1, <2>2 DEF Recs, Idle
<1>. QED BY <1>2, <1>3, <1>4

(* a process that is at an access *)
LEMMA AtPlace ==
  ASSUME NEW p, proc[p] \in Recs, NEW a, At(p, a)
  PROVE  /\ Place(proc[p]) \in Labels /\ Place(proc[p]) # "idle" /\ First(Place(proc[p])) = a
         /\ Tail(proc[p].todo) = List[Then[Place(proc[p])]] /\ Then[Place(proc[p])] \in Labels
<1>1. Place(proc[p]) \in Labels /\ proc[p].todo = List[Place(proc[p])]
  BY PlaceOf
<1>2. Place(proc[p]) # "idle"
  BY <1>1, ListFacts DEF At
<1>. QED BY <1>1, <1>2, ListFact DEF At

(* p goes on to l with r in its hands, or ends *)
On(p, l, r) ==
  /\ proc' \in [Procs -> Recs] /\ proc' = [proc EXCEPT ![p] = proc'[p]]
  /\ Place(proc'[p]) = l /\ Like(proc'[p], r)
Off(p) ==
  /\ proc' \in [Procs -> Recs] /\ proc' = [proc EXCEPT ![p] = proc'[p]]
  /\ proc'[p] = Idle /\ Place(proc'[p]) = "idle"

(* Leave ends the operation *)
LEMMA LeaveIs ==
  ASSUME proc \in [Procs -> Recs], NEW p \in Procs, Leave(p)
  PROVE  Off(p)
<1>1. proc' = [proc EXCEPT ![p] = Idle]
  BY DEF Leave
<1>. QED BY <1>1, IdleIs DEF Off

(* Goto sets the place *)
LEMMA GotoIs ==
  ASSUME proc \in [Procs -> Recs], NEW p \in Procs, NEW r \in Recs, NEW l \in Labels, Goto(p, r,
         List[l])
  PROVE  IF l = "idle" THEN Off(p) ELSE On(p, l, r)
<1>1. CASE l = "idle"
  <2>1. List[l] = <<>>
    BY <1>1, ListFacts
  <2>2. proc' = [proc EXCEPT ![p] = Idle]
    BY <2>1 DEF Goto
  <2>. QED BY <1>1, <2>2, IdleIs DEF Off
<1>2. CASE l # "idle"
  <2>1. List[l] # <<>>
    BY <1>2, ListFact
  <2>2. PICK t : t = List[l]
    OBVIOUS
  <2>3. PICK g : g = [r EXCEPT !.todo = t]
    OBVIOUS
  <2>4. proc' = [proc EXCEPT ![p] = g]
    BY <2>1, <2>2, <2>3 DEF Goto
  <2>5. t \in {List[m] : m \in Labels}
    BY <2>2
  <2>6. g \in Recs /\ g.todo = t /\ Like(g, r)
    BY <2>3, <2>5 DEF Recs, Like
  <2>7. proc'[p] = g /\ proc' \in [Procs -> Recs] /\ proc' = [proc EXCEPT ![p] = proc'[p]]
    BY <2>4, <2>6
  <2>8. Place(g) = l
    BY <2>2, <2>6, PlaceIs
  <2>. QED BY <1>2, <2>6, <2>7, <2>8 DEF On
<1>. QED BY <1>1, <1>2

(* Continue goes on to the next access *)
LEMMA ContinueIs ==
  ASSUME proc \in [Procs -> Recs], NEW p \in Procs, NEW a, At(p, a), NEW r \in Recs,
         r.todo = proc[p].todo, Continue(p, r)
  PROVE  LET l == Then[Place(proc[p])] IN IF l = "idle" THEN Off(p) ELSE On(p, l, r)
<1>1. Goto(p, r, List[Then[Place(proc[p])]]) /\ Then[Place(proc[p])] \in Labels
  BY AtPlace DEF Continue
<1>. QED BY <1>1, GotoIs

(* a step of p leaves the other processes alone *)
LEMMA Unmoved ==
  ASSUME proc \in [Procs -> Recs], NEW p \in Procs, proc' = [proc EXCEPT ![p] = proc'[p]],
         NEW q \in Procs, q # p
  PROVE  proc'[q] = proc[q]
OBVIOUS

-----------------------------------------------------------------------------
(* The inductive invariant of the cache *)

(* what an operation has found out by the time it is at an access *)
KnowsAt(l, r) ==
  /\ l \in {"lookup", "slot"} => r.op = "add"
  /\ l \in {"check", "relook"} => r.b \in Slots /\ r.old # 0
  /\ l = "substitute" => r.b \in Slots
  /\ l \in {"lock_b", "steal_b", "load_b", "free_b"} => r.b < MaxBoard
  /\ l \in {"fixlock", "fixset", "fixfree"} => r.b < MaxBoard /\ r.b < Len(file)
  /\ l = "fix" => r.b <= MaxBoard
  /\ l = "number" => r.n <= MaxBoard /\ r.n > 0
  /\ l = "append" => r.n < MaxBoard
Knows(r) == (Place(r) = "idle" => r = Idle) /\ KnowsAt(Place(r), r)
StateOK ==
  /\ file \in Seq(Headers) /\ Len(file) >= 2 /\ bcache \in [Slots -> Headers]
     /\ bsorted \in [Slots -> Slots]
  /\ Bnumber \in 1 .. Most /\ Bbusystate \in {0, 1} /\ busystate_b \in [Slots -> 0 .. MaxTime]
  /\ ops \in 0 .. MaxOps /\ now \in 1 .. MaxTime
TypesOK == StateOK /\ proc \in [Procs -> Recs] /\ \A p \in Procs : Knows(proc[p])

(* what is in the cache came from the file, and a change goes to a board of the file *)
FileOK ==
  /\ \A b \in Slots : bcache[b] # 0 => b < Len(file)
  /\ \A p \in Procs : Place(proc[p]) = "substitute" /\ proc[p].op # "add" => proc[p].b < Len(file)

(* every operation raises the number of boards once *)
Adds == {"lookup", "slot", "append", "inc1", "inc2"}
Adding == {p \in Procs : Place(proc[p]) \in Adds}
BoundsOK ==
  /\ Cardinality(Adding) <= ops
  /\ Bnumber + Cardinality(Adding) <= MaxBoard + ops
  /\ \A p \in Procs : Place(proc[p]) = "inc2" => proc[p].n + Cardinality(Adding) <= MaxBoard + ops

(* only one process counts a new board, and nobody sets the number meanwhile *)
Counting == {"inc1", "inc2", "num"}
CountOK ==
  "counted" \notin blame =>
    /\ Bnumber <= MaxBoard
    /\ \A p \in Procs : Place(proc[p]) = "inc1" => Bnumber < MaxBoard
    /\ \A p \in Procs : Place(proc[p]) = "inc2" => proc[p].n < MaxBoard
    /\ \A p, q \in Procs : Place(proc[p]) \in Counting
       /\ Place(proc[q]) \in Counting \cup {"number"} => p = q

(* a reload that no one has run into *)
InFile == IF Len(file) < MaxBoard THEN Len(file) ELSE MaxBoard
Loaded == \A b \in 0 .. InFile - 1 : bcache[b] = Header(b)
Lone(p) ==
  /\ \A q \in Procs : q # p => proc[q] = Idle
  /\ Place(proc[p]) \in {"number", "refree", "lock", "sort", "free"}
  /\ Loaded
  /\ Place(proc[p]) = "number" => proc[p].n = InFile
  /\ Place(proc[p]) # "number" => Bnumber = InFile
  /\ Place(proc[p]) = "free" => bsorted = Sorted
LoneOK == \A p \in Procs : proc[p].alone = TRUE => Lone(p)

(* the number of boards is that of the file, or will be *)
NumOK ==
  /\ \A p \in Procs : Place(proc[p]) \in {"inc1", "inc2"} => Bnumber = Len(file) - 1
  /\ (\A p \in Procs : Place(proc[p]) \notin {"inc1", "inc2"}) => Bnumber = InFile
  /\ \A p \in Procs : Place(proc[p]) = "inc2" => proc[p].n = Bnumber
  /\ \A p \in Procs : Place(proc[p]) = "num" => Bnumber = Len(file)
  /\ \A p \in Procs : Place(proc[p]) = "number" => proc[p].n = InFile
  /\ \A p \in Procs : Place(proc[p]) = "substitute" => proc[p].b < Len(file)
(* a header that differs will be loaded *)
ToLoad == {"busy", "lock_b", "steal_b", "load_b"}
WillLoad(r, b) ==
  \/ Place(r) \in ToLoad /\ r.b = b
  \/ Place(r) \in Counting /\ b = Len(file) - 1
LoadOK == \A b \in 0 .. InFile - 1 : bcache[b] = Header(b) \/ \E p \in Procs : WillLoad(proc[p], b)
(* an index that is not in order will be sorted *)
SortsAt(l, k) ==
  \/ l \in {"num", "busy", "lock_b", "steal_b", "load_b", "free_b", "lock", "sort", "number",
     "refree", "fixfree"}
  \/ l \in {"fix", "fixlock", "fixset"} /\ k > 0
WillSort(r) == SortsAt(Place(r), r.tries)
SortOK == bsorted = Sorted \/ \E p \in Procs : WillSort(proc[p])
CurOK == blame = {} => NumOK /\ LoadOK /\ SortOK

CacheInv == TypesOK /\ FileOK /\ BoundsOK /\ CountOK /\ LoneOK /\ CurOK

-----------------------------------------------------------------------------
(* Steps that leave the file and the cache alone *)

Goes(p, l, m, r, g) ==
  /\ proc' \in [Procs -> Recs] /\ proc' = [proc EXCEPT ![p] = proc'[p]]
  /\ r = proc[p] /\ g = proc'[p] /\ l = Place(r) /\ m = Place(g) /\ l # "idle"
Quiet(p, l, m, r, g) ==
  /\ Goes(p, l, m, r, g)
  /\ UNCHANGED <<file, bcache, Bnumber, bsorted, ops>>
  /\ blame \subseteq blame'
  /\ m \in Adds => l \in Adds
  /\ m \notin {"number", "num", "inc1"}
  /\ m = "inc2" => l = "inc1" /\ g.n = Bnumber
  /\ m = "substitute" => g.b < Len(file) \/ (g.op = "add" /\ g.b < Bnumber)
  /\ g.alone = TRUE => r.alone = TRUE /\ l # "number" /\ m \in {"refree", "lock", "sort"}
QuietBlame(l, m, r, g) ==
  blame' = {} =>
    /\ l \notin {"inc2", "number"}
    /\ l = "inc1" => m = "inc2"
    /\ l = "num" => m = "busy" /\ g.b = Bnumber - 1
    /\ l \in ToLoad => m \in ToLoad /\ g.b = r.b
    /\ WillSort(r) => WillSort(g)

(* the right index depends on the headers and their number *)
LEMMA SortedSame ==
  ASSUME bcache' = bcache, Bnumber' = Bnumber, bsorted' = bsorted
  PROVE  Sorted' = Sorted
BY DEF Sorted, ByName, Rank, Before

(* what the file says depends on the file *)
LEMMA HeaderSame ==
  ASSUME file' = file
  PROVE  InFile' = InFile /\ \A b : Header(b)' = Header(b)
BY DEF InFile, Header

(* the number of boards in the file *)
LEMMA InFileType ==
  ASSUME StateOK
  PROVE  InFile \in 2 .. MaxBoard /\ InFile <= Len(file) /\ Len(file) \in Nat
BY Sizes DEF StateOK, InFile

(* finitely many processes add a board *)
LEMMA AddingType == IsFiniteSet(Adding) /\ Cardinality(Adding) \in Nat
<1>1. IsFiniteSet(Procs)
  BY Sizes
<1>2. Adding \subseteq Procs
  BY DEF Adding
<1>. QED BY <1>1, <1>2, FS_Subset, FS_CardinalityType

(* p stops adding, or does not begin *)
LEMMA AddingLess ==
  ASSUME proc \in [Procs -> Recs], NEW p \in Procs, proc' = [proc EXCEPT ![p] = proc'[p]],
         Place(proc'[p]) \in Adds => Place(proc[p]) \in Adds
  PROVE  /\ Cardinality(Adding') \in Nat /\ Cardinality(Adding') <= Cardinality(Adding)
         /\ Place(proc[p]) \in Adds /\ Place(proc'[p]) \notin Adds
            => Cardinality(Adding') = Cardinality(Adding) - 1
<1>1. \A q \in Procs : q # p => proc'[q] = proc[q]
  BY Unmoved
<1>2. Adding' = {q \in Procs : Place(proc'[q]) \in Adds}
  BY DEF Adding, Place
<1>3. Adding' = Adding \/ Adding' = Adding \ {p}
  BY <1>1, <1>2 DEF Adding
<1>4. Place(proc[p]) \in Adds /\ Place(proc'[p]) \notin Adds => Adding' = Adding \ {p}
        /\ p \in Adding
  BY <1>1, <1>2 DEF Adding
<1>5. PICK A, C : A = Adding /\ C = Adding'
  OBVIOUS
<1>6. IsFiniteSet(A) /\ Cardinality(A) \in Nat
  BY <1>5, AddingType
<1>7. /\ IsFiniteSet(A \ {p})
      /\ Cardinality(A \ {p}) = IF p \in A THEN Cardinality(A) - 1 ELSE Cardinality(A)
  BY <1>6, FS_RemoveElement
<1>8. Cardinality(A \ {p}) \in Nat
  BY <1>7, FS_CardinalityType
<1>9. C = A \/ C = A \ {p}
  BY <1>3, <1>5
<1>10. Place(proc[p]) \in Adds /\ Place(proc'[p]) \notin Adds => C = A \ {p} /\ p \in A
  BY <1>4, <1>5
<1>11. Cardinality(C) \in Nat /\ Cardinality(C) <= Cardinality(A)
  BY <1>6, <1>7, <1>8, <1>9
<1>12. Place(proc[p]) \in Adds /\ Place(proc'[p]) \notin Adds => Cardinality(C) = Cardinality(A) - 1
  BY <1>7, <1>10
<1>. QED BY <1>5, <1>11, <1>12

(* a step that does not set the number keeps the bounds, also when it ends an add *)
LEMMA QuietBounds ==
  ASSUME TypesOK, BoundsOK, NEW p \in Procs, NEW l, NEW m, NEW r, NEW g, Goes(p, l, m, r, g),
         UNCHANGED <<Bnumber, ops>>, m \in Adds => l \in Adds, m = "inc2" => g.n = Bnumber
  PROVE  BoundsOK'
<1>1. /\ proc \in [Procs -> Recs] /\ proc' = [proc EXCEPT ![p] = proc'[p]] /\ ops' = ops
         /\ Bnumber' = Bnumber
      /\ l = Place(proc[p]) /\ m = Place(proc'[p])
  BY DEF Goes, TypesOK
<1>2. Cardinality(Adding') \in Nat /\ Cardinality(Adding') <= Cardinality(Adding)
        /\ Cardinality(Adding) \in Nat
  BY <1>1, AddingLess, AddingType DEF Goes
<1>3. Bnumber \in Nat /\ ops \in Nat /\ MaxBoard \in Nat /\ \A q \in Procs : proc[q].n \in Nat
  BY Sizes DEF TypesOK, StateOK, Recs
<1>4. ASSUME NEW q \in Procs, Place(proc'[q]) = "inc2"
             PROVE proc'[q].n + Cardinality(Adding') <= MaxBoard + ops
  <2>1. CASE q = p
    <3>1. proc'[q].n = Bnumber
      BY <1>1, <1>4, <2>1 DEF Goes
    <3>. QED BY <1>2, <1>3, <3>1 DEF BoundsOK
  <2>2. CASE q # p
    <3>1. proc'[q] = proc[q]
      BY <1>1, <2>2, Unmoved
    <3>2. proc[q].n + Cardinality(Adding) <= MaxBoard + ops
      BY <1>4, <3>1 DEF BoundsOK
    <3>. QED BY <1>2, <1>3, <3>1, <3>2
  <2>. QED BY <2>1, <2>2
<1>5. Cardinality(Adding') <= ops' /\ Bnumber' + Cardinality(Adding') <= MaxBoard + ops'
  BY <1>1, <1>2, <1>3 DEF BoundsOK
<1>. QED BY <1>1, <1>4, <1>5 DEF BoundsOK

(* a quiet step keeps FileOK *)
LEMMA QuietFile ==
  ASSUME TypesOK, FileOK, NEW p \in Procs, NEW l, NEW m, NEW r, NEW g, Quiet(p, l, m, r, g)
  PROVE  FileOK'
<1>1. /\ proc \in [Procs -> Recs] /\ proc' = [proc EXCEPT ![p] = proc'[p]] /\ UNCHANGED <<file,
         bcache>>
      /\ m = Place(proc'[p]) /\ g = proc'[p]
  BY DEF Quiet, Goes, TypesOK
<1>2. ASSUME NEW q \in Procs, Place(proc'[q]) = "substitute", proc'[q].op # "add"
             PROVE proc'[q].b < Len(file)
  <2>1. CASE q = p
    BY <1>1, <1>2, <2>1 DEF Quiet, Goes
  <2>2. CASE q # p
    BY <1>1, <1>2, <2>2, Unmoved DEF FileOK
  <2>. QED BY <2>1, <2>2
<1>. QED BY <1>1, <1>2 DEF FileOK

(* a step that begins no counting keeps CountOK *)
LEMMA QuietCount ==
  ASSUME TypesOK, CountOK, NEW p \in Procs, NEW l, NEW m, NEW r, NEW g, Goes(p, l, m, r, g),
         Bnumber' = Bnumber, blame \subseteq blame', m \notin {"number", "num", "inc1"},
           m = "inc2" => l = "inc1" /\ g.n = Bnumber
  PROVE  CountOK'
<1>1. /\ proc \in [Procs -> Recs] /\ proc' = [proc EXCEPT ![p] = proc'[p]] /\ UNCHANGED <<Bnumber>>
      /\ m = Place(proc'[p]) /\ g = proc'[p] /\ l = Place(proc[p])
  BY DEF Goes, TypesOK
<1>2. \A q \in Procs : q # p => proc'[q] = proc[q]
  BY <1>1, Unmoved
<1>. SUFFICES ASSUME "counted" \notin blame' PROVE CountOK'
  BY DEF CountOK
<1>3. "counted" \notin blame
  BY DEF Goes
<1>4. /\ Bnumber <= MaxBoard
      /\ \A q \in Procs : Place(proc[q]) = "inc1" => Bnumber < MaxBoard
      /\ \A q \in Procs : Place(proc[q]) = "inc2" => proc[q].n < MaxBoard
      /\ \A q, x \in Procs : Place(proc[q]) \in Counting
         /\ Place(proc[x]) \in Counting \cup {"number"} => q = x
  BY <1>3 DEF CountOK
<1>5. \A q \in Procs : Place(proc'[q]) = "inc1" => Bnumber < MaxBoard
  BY <1>1, <1>2, <1>4 DEF Goes
<1>6. \A q \in Procs : Place(proc'[q]) = "inc2" => proc'[q].n < MaxBoard
  BY <1>1, <1>2, <1>4 DEF Goes
<1>7. \A q \in Procs : /\ Place(proc'[q]) \in Counting => Place(proc[q]) \in Counting
                       /\ Place(proc'[q]) \in Counting \cup {"number"}
                          => Place(proc[q]) \in Counting \cup {"number"}
  BY <1>1, <1>2 DEF Goes, Counting
<1>8. \A q, x \in Procs : Place(proc'[q]) \in Counting
        /\ Place(proc'[x]) \in Counting \cup {"number"} => q = x
  BY <1>4, <1>7
<1>. QED BY <1>1, <1>4, <1>5, <1>6, <1>8 DEF CountOK

(* whether everything is loaded depends on the file and the headers *)
LEMMA LoadedSame ==
  ASSUME file' = file, bcache' = bcache
  PROVE  Loaded' <=> Loaded
BY HeaderSame DEF Loaded

(* where one is at work no other has been alone *)
LEMMA LoneOff ==
  ASSUME proc \in [Procs -> Recs], LoneOK, NEW p \in Procs, NEW l, NEW m, NEW r, NEW g, Goes(p, l,
         m, r, g), g.alone # TRUE
  PROVE  LoneOK'
<1>1. \A q \in Procs : q # p => proc'[q] = proc[q]
  BY Unmoved DEF Goes
<1>2. ASSUME NEW q \in Procs, proc'[q].alone = TRUE PROVE FALSE
  <2>1. q # p /\ proc[q].alone = TRUE
    BY <1>1, <1>2 DEF Goes
  <2>2. proc[p] = Idle
    BY <2>1 DEF LoneOK, Lone
  <2>. QED BY <2>2, IdleIs DEF Goes
<1>. QED BY <1>2 DEF LoneOK

(* a quiet step keeps LoneOK *)
LEMMA QuietLone ==
  ASSUME TypesOK, LoneOK, NEW p \in Procs, NEW l, NEW m, NEW r, NEW g, Quiet(p, l, m, r, g)
  PROVE  LoneOK'
<1>1. /\ proc \in [Procs -> Recs] /\ proc' = [proc EXCEPT ![p] = proc'[p]] /\ UNCHANGED <<file,
         bcache, Bnumber, bsorted>>
      /\ r = proc[p] /\ m = Place(proc'[p]) /\ g = proc'[p] /\ l = Place(proc[p])
  BY DEF Quiet, Goes, TypesOK
<1>2. \A q \in Procs : q # p => proc'[q] = proc[q]
  BY <1>1, Unmoved
<1>3. InFile' = InFile /\ (Loaded' <=> Loaded)
  BY <1>1, HeaderSame, LoadedSame
<1>4. ASSUME NEW q \in Procs, proc'[q].alone = TRUE PROVE Lone(q)'
  <2>1. CASE q = p
    <3>1. r.alone = TRUE /\ l # "number" /\ m \in {"refree", "lock", "sort"}
      BY <1>1, <1>4, <2>1 DEF Quiet, Goes
    <3>2. Lone(p)
      BY <1>1, <3>1 DEF LoneOK
    <3>. QED BY <1>1, <1>2, <1>3, <2>1, <3>1, <3>2 DEF Lone
  <2>2. CASE q # p
    <3>1. Lone(q)
      BY <1>2, <1>4, <2>2 DEF LoneOK
    <3>2. l = "idle"
      BY <1>1, <2>2, <3>1, IdleIs DEF Lone
    <3>. QED BY <3>2 DEF Quiet, Goes
  <2>. QED BY <2>1, <2>2
<1>. QED BY <1>4 DEF LoneOK

(* a quiet step keeps CurOK: what was to be loaded or sorted still is *)
LEMMA QuietCur ==
  ASSUME TypesOK, CurOK, NEW p \in Procs, NEW l, NEW m, NEW r, NEW g, Quiet(p, l, m, r, g),
         QuietBlame(l, m, r, g)
  PROVE  CurOK'
<1>1. /\ proc \in [Procs -> Recs] /\ proc' = [proc EXCEPT ![p] = proc'[p]] /\ UNCHANGED <<file,
         bcache, Bnumber, bsorted>>
      /\ r = proc[p] /\ m = Place(g) /\ g = proc'[p] /\ l = Place(r)
  BY DEF Quiet, Goes, TypesOK
<1>2. \A q \in Procs : q # p => proc'[q] = proc[q]
  BY <1>1, Unmoved
<1>3. InFile' = InFile /\ \A b : Header(b)' = Header(b)
  BY <1>1, HeaderSame
<1>4. Sorted' = Sorted
  BY <1>1, SortedSame
<1>. SUFFICES ASSUME blame' = {} PROVE (NumOK /\ LoadOK /\ SortOK)'
  BY DEF CurOK
<1>5. /\ NumOK /\ LoadOK /\ SortOK
  BY DEF CurOK, Quiet, Goes
<1>6. /\ l \notin {"inc2", "number"}
      /\ l = "inc1" => m = "inc2"
      /\ l = "num" => m = "busy" /\ g.b = Bnumber - 1
      /\ l \in ToLoad => m \in ToLoad /\ g.b = r.b
      /\ WillSort(r) => WillSort(g)
  BY DEF QuietBlame
<1>7. /\ m \notin {"number", "num", "inc1"}
      /\ m = "inc2" => l = "inc1" /\ g.n = Bnumber
      /\ m = "substitute" => g.b < Len(file) \/ (g.op = "add" /\ g.b < Bnumber)
  BY DEF Quiet, Goes
<1>8. NumOK'
  <2>1. Bnumber <= Len(file)
    <3>1. Bnumber = Len(file) - 1 \/ Bnumber = InFile
      BY <1>5 DEF NumOK
    <3>. QED BY <3>1, InFileType DEF TypesOK
  <2>2. ASSUME NEW q \in Procs, Place(proc'[q]) = "substitute" PROVE proc'[q].b < Len(file)
    <3>1. CASE q = p
      <4>1. g.b < Len(file) \/ g.b < Bnumber
        BY <1>1, <1>7, <2>2, <3>1
      <4>2. g.b \in Nat /\ Bnumber \in Nat /\ Len(file) \in Nat
        <5>1. g \in Recs
          BY <1>1 DEF Quiet, Goes
        <5>2. g.b \in 0 .. Most
          BY <5>1 DEF Recs
        <5>. QED BY <5>2, InFileType, Sizes DEF TypesOK, StateOK
      <4>. QED BY <1>1, <2>1, <3>1, <4>1, <4>2
    <3>2. CASE q # p
      BY <1>2, <1>5, <2>2, <3>2 DEF NumOK
    <3>. QED BY <3>1, <3>2
  <2>3. \A q \in Procs : Place(proc'[q]) \in {"inc1", "inc2"} <=> Place(proc[q]) \in {"inc1",
          "inc2"}
    BY <1>1, <1>2, <1>6, <1>7
  <2>4. \A q \in Procs : Place(proc'[q]) = "inc2" => proc'[q].n = Bnumber
    BY <1>1, <1>2, <1>5, <1>7 DEF NumOK
  <2>5. \A q \in Procs : Place(proc'[q]) = "num" => Bnumber = Len(file)
    BY <1>1, <1>2, <1>5, <1>7 DEF NumOK
  <2>6. \A q \in Procs : Place(proc'[q]) = "number" => proc'[q].n = InFile
    BY <1>1, <1>2, <1>5, <1>7 DEF NumOK
  <2>7. /\ \A q \in Procs : Place(proc'[q]) \in {"inc1", "inc2"} => Bnumber = Len(file) - 1
        /\ (\A q \in Procs : Place(proc'[q]) \notin {"inc1", "inc2"}) => Bnumber = InFile
    BY <1>5, <2>3 DEF NumOK
  <2>. QED BY <1>1, <1>3, <2>2, <2>4, <2>5, <2>6, <2>7 DEF NumOK
<1>9. LoadOK'
  <2>. SUFFICES ASSUME NEW b \in 0 .. InFile - 1, bcache[b] # Header(b)
                PROVE  \E q \in Procs : WillLoad(proc[q], b)'
    BY <1>1, <1>3 DEF LoadOK
  <2>1. PICK q \in Procs : WillLoad(proc[q], b)
    BY <1>5 DEF LoadOK
  <2>2. CASE q # p
    <3>1. proc'[q] = proc[q]
      BY <1>2, <2>2
    <3>. QED BY <1>1, <2>1, <3>1 DEF WillLoad
  <2>3. CASE q = p
    <3>1. WillLoad(r, b)
      BY <1>1, <2>1, <2>3
    <3>2. l \in ToLoad => m \in ToLoad /\ g.b = b
      BY <1>1, <1>6, <3>1 DEF WillLoad, ToLoad, Counting
    <3>3. l = "inc1" => m = "inc2" /\ b = Len(file) - 1
      BY <1>1, <1>6, <3>1 DEF WillLoad, ToLoad
    <3>4. l = "num" => m = "busy" /\ g.b = b
      BY <1>1, <1>5, <1>6, <3>1 DEF WillLoad, ToLoad, NumOK
    <3>5. l \in ToLoad \/ l = "inc1" \/ l = "num"
      BY <1>1, <1>6, <3>1 DEF WillLoad, Counting
    <3>6. (m \in ToLoad /\ g.b = b) \/ (m \in Counting /\ b = Len(file) - 1)
      <4>1. CASE l \in ToLoad
        BY <3>2, <4>1
      <4>2. CASE l = "inc1"
        BY <3>3, <4>2 DEF Counting
      <4>3. CASE l = "num"
        BY <3>4, <4>3 DEF ToLoad
      <4>. QED BY <3>5, <4>1, <4>2, <4>3
    <3>. QED BY <1>1, <3>6 DEF WillLoad
  <2>. QED BY <2>2, <2>3
<1>10. SortOK'
  <2>1. CASE bsorted = Sorted
    BY <1>1, <1>4, <2>1 DEF SortOK
  <2>2. CASE bsorted # Sorted
    <3>1. PICK q \in Procs : WillSort(proc[q])
      BY <1>5, <2>2 DEF SortOK
    <3>2. WillSort(proc'[q])
      BY <1>1, <1>2, <1>6, <3>1
    <3>. QED BY <3>2 DEF SortOK, WillSort, Place
  <2>. QED BY <2>1, <2>2
<1>. QED BY <1>8, <1>9, <1>10

(* what a process knows stays true while the file does not shrink *)
LEMMA TypesKept ==
  ASSUME TypesOK, StateOK', Len(file') >= Len(file), NEW p \in Procs, proc' \in [Procs -> Recs],
         proc' = [proc EXCEPT ![p] = proc'[p]], NEW g, g = proc'[p], Knows(g)
  PROVE  TypesOK'
<1>1. \A q \in Procs : Knows(proc'[q])
  BY Unmoved DEF TypesOK
<1>2. Len(file) \in Nat /\ Len(file') \in Nat /\ \A q \in Procs : proc'[q].b \in Nat
  <2>1. Len(file) \in Nat /\ Len(file') \in Nat
    BY DEF TypesOK, StateOK
  <2>2. \A q \in Procs : proc'[q] \in Recs
    OBVIOUS
  <2>3. \A q \in Procs : proc'[q].b \in 0 .. Most
    BY <2>2 DEF Recs
  <2>. QED BY <2>1, <2>3, Sizes
<1>3. \A q \in Procs : Knows(proc[q])'
  <2>. SUFFICES ASSUME NEW q \in Procs PROVE Knows(proc[q])'
    OBVIOUS
  <2>1. PICK h : h = proc'[q]
    OBVIOUS
  <2>2. Knows(h) /\ h.b \in Nat
    BY <1>1, <1>2, <2>1
  <2>3. (Place(h) = "idle" => h = Idle) /\ KnowsAt(Place(h), h)'
    BY <1>2, <2>2 DEF Knows, KnowsAt
  <2>. QED BY <2>1, <2>3 DEF Knows, KnowsAt, Place
<1>. QED BY <1>3 DEF TypesOK

(* a quiet step keeps the invariant *)
LEMMA QuietKeeps ==
  ASSUME CacheInv, StateOK', NEW p \in Procs, NEW l, NEW m, NEW r, NEW g, Quiet(p, l, m, r, g),
         QuietBlame(l, m, r, g), Knows(g)
  PROVE  CacheInv'
<1>1. TypesOK /\ FileOK /\ BoundsOK /\ CountOK /\ LoneOK /\ CurOK
  BY DEF CacheInv
<1>2. TypesOK'
  <2>1. file' = file /\ Len(file) \in Nat
    BY <1>1 DEF Quiet, Goes, TypesOK, StateOK
  <2>2. Len(file') >= Len(file)
    BY <2>1
  <2>. QED BY <1>1, <2>2, TypesKept DEF Quiet, Goes
<1>3. FileOK' /\ BoundsOK' /\ CountOK' /\ LoneOK' /\ CurOK'
  BY <1>1, QuietFile, QuietBounds, QuietCount, QuietLone, QuietCur DEF Quiet
<1>. QED BY <1>2, <1>3 DEF CacheInv

(* only a reload is ever alone, and only after it has read the file *)
LEMMA NotAlone ==
  ASSUME CacheInv, NEW p \in Procs, Place(proc[p]) \notin {"number", "refree", "lock", "sort",
         "free"}
  PROVE  proc[p].alone # TRUE
BY DEF CacheInv, LoneOK, Lone

(* a process ends *)
LEMMA QuietOff ==
  ASSUME CacheInv, StateOK', UNCHANGED <<file, bcache, Bnumber, bsorted, ops>>, NEW p \in Procs,
         Off(p),
         Place(proc[p]) # "idle", blame \subseteq blame',
         blame' # {} \/ Place(proc[p]) \in {"lookup", "relook", "check", "slot", "free"}
           \/ (Place(proc[p]) = "fix" /\ ~(proc[p].tries > 0))
  PROVE  CacheInv'
<1>1. PICK l, r, g, m : l = Place(proc[p]) /\ r = proc[p] /\ g = proc'[p] /\ m = "idle"
  OBVIOUS
<1>2. g = Idle /\ Place(g) = "idle" /\ g.alone = FALSE /\ proc' \in [Procs -> Recs]
        /\ proc' = [proc EXCEPT ![p] = proc'[p]]
  BY <1>1, IdleIs DEF Off
<1>3. Quiet(p, l, m, r, g)
  BY <1>1, <1>2 DEF Quiet, Goes, Adds
<1>4. QuietBlame(l, m, r, g)
  BY <1>1 DEF QuietBlame, ToLoad, WillSort, SortsAt
<1>5. Knows(g)
  BY <1>2 DEF Knows, KnowsAt
<1>. QED BY <1>3, <1>4, <1>5, QuietKeeps

(* a process goes on *)
LEMMA QuietOn ==
  ASSUME CacheInv, StateOK', UNCHANGED <<file, bcache, Bnumber, bsorted, ops>>, NEW p \in Procs,
         NEW m, NEW s, On(p, m, s),
         NEW l, l = Place(proc[p]), l # "idle", m # "idle", blame \subseteq blame', KnowsAt(m, s),
         m \in Adds => l \in Adds,
         m \notin {"number", "num", "inc1"},
         m = "inc2" => l = "inc1" /\ s.n = Bnumber,
         m = "substitute" => s.b < Len(file) \/ (s.op = "add" /\ s.b < Bnumber),
         s.alone = TRUE => proc[p].alone = TRUE /\ l # "number" /\ m \in {"refree", "lock", "sort"},
         blame' # {} \/
           /\ l \notin {"inc2", "number"}
           /\ l = "inc1" => m = "inc2"
           /\ l = "num" => m = "busy" /\ s.b = Bnumber - 1
           /\ l \in ToLoad => m \in ToLoad /\ s.b = proc[p].b
           /\ SortsAt(l, proc[p].tries) => SortsAt(m, s.tries)
  PROVE  CacheInv'
<1>1. PICK r, g : r = proc[p] /\ g = proc'[p]
  OBVIOUS
<1>2. Place(g) = m /\ Like(g, s) /\ proc' \in [Procs -> Recs]
        /\ proc' = [proc EXCEPT ![p] = proc'[p]]
  BY <1>1 DEF On
<1>3. Quiet(p, l, m, r, g)
  BY <1>1, <1>2 DEF Quiet, Goes, Like
<1>4. QuietBlame(l, m, r, g)
  BY <1>1, <1>2 DEF QuietBlame, WillSort, Like
<1>5. Knows(g)
  BY <1>2 DEF Knows, KnowsAt, Like
<1>. QED BY <1>3, <1>4, <1>5, QuietKeeps

-----------------------------------------------------------------------------
(* The steps that leave the file and the cache alone *)

(* what the invariant says of one process *)
LEMMA Here ==
  ASSUME CacheInv, NEW p \in Procs
  PROVE  /\ TypesOK /\ StateOK /\ proc \in [Procs -> Recs] /\ proc[p] \in Recs
            /\ KnowsAt(Place(proc[p]), proc[p])
         /\ Place(proc[p]) = "idle" => proc[p] = Idle
         /\ proc[p].b \in 0 .. Most /\ proc[p].b \in Nat /\ proc[p].t \in 0 .. MaxTime
            /\ proc[p].n \in Nat
         /\ proc[p].name \in Headers /\ proc[p].old \in Headers
            /\ proc[p].tries \in 0 .. Tries - 1 \cup {1}
         /\ proc[p].tries \in Nat
<1>1. TypesOK /\ StateOK /\ proc \in [Procs -> Recs] /\ Knows(proc[p])
  BY DEF CacheInv, TypesOK
<1>2. PICK r : r = proc[p]
  OBVIOUS
<1>3. r \in Recs
  BY <1>1, <1>2
<1>4. r.b \in 0 .. Most /\ r.t \in 0 .. MaxTime /\ r.n \in Nat /\ r.name \in Headers
        /\ r.old \in Headers /\ r.tries \in 0 .. Tries - 1 \cup {1}
  BY <1>3 DEF Recs
<1>5. r.b \in Nat /\ r.tries \in Nat
  BY <1>4, Sizes
<1>. QED BY <1>1, <1>2, <1>3, <1>4, <1>5 DEF Knows

(* the number of boards is within the slots *)
LEMMA NumberType ==
  ASSUME CacheInv
  PROVE  Bnumber \in 1 .. Most /\ Bnumber \in Nat /\ Bnumber - 1 \in 0 .. Most /\ MaxBoard \in Nat
<1>1. Bnumber \in 1 .. Most
  BY DEF CacheInv, TypesOK, StateOK
<1>. QED BY <1>1, Sizes

(* the process changes what it has in its hands *)
LEMMA SetIs ==
  ASSUME proc \in [Procs -> Recs], NEW p \in Procs, NEW s \in Recs, s.todo = proc[p].todo,
         proc' = [proc EXCEPT ![p] = s]
  PROVE  On(p, Place(proc[p]), s)
<1>1. Place(proc[p]) \in Labels /\ proc[p].todo = List[Place(proc[p])]
  BY PlaceOf
<1>2. Place(s) = Place(proc[p])
  BY <1>1, PlaceIs
<1>. QED BY <1>2 DEF On, Like

(* the look-up of the new name (m_newbrd, m_mod_board) *)
LEMMA LookupKeeps ==
  ASSUME CacheInv, NEW p \in Procs, lookup(p)
  PROVE  CacheInv'
<1>1. PICK r, l : r = proc[p] /\ l = Place(proc[p])
  OBVIOUS
<1>2. At(p, "lookup") /\ UNCHANGED <<file, bcache, Bnumber, bsorted, ops, blame, Bbusystate,
        busystate_b, now>>
  BY DEF lookup, cache, locks, env, ghosts
<1>3. l \in {"lookup", "relook"} /\ (Then[l] = IF l = "lookup" THEN "slot" ELSE "check")
  <2>1. First(l) = "lookup"
    BY <1>1, <1>2, Here, AtPlace
  <2>2. l \in {"lookup", "relook"}
    BY <2>1 DEF First
  <2>. QED BY <2>2 DEF Then
<1>4. StateOK' /\ KnowsAt(l, r) /\ r.alone # TRUE
  BY <1>1, <1>2, <1>3, Here, NotAlone DEF StateOK
<1>5. CASE getbnum(proc[p].name) > 0
  <2>1. Off(p)
    BY <1>5, Here, LeaveIs DEF lookup
  <2>. QED BY <1>1, <1>2, <1>3, <1>4, <2>1, QuietOff
<1>6. CASE ~(getbnum(proc[p].name) > 0)
  <2>1. On(p, Then[l], r)
    BY <1>1, <1>2, <1>3, <1>6, Here, ContinueIs DEF lookup
  <2>2. PICK m : m = Then[l]
    OBVIOUS
  <2>3. KnowsAt(m, r) /\ (m \in Adds => l \in Adds)
    BY <1>3, <1>4, <2>2 DEF KnowsAt, Adds
  <2>4. l \notin ToLoad /\ ~SortsAt(l, r.tries)
    BY <1>3 DEF ToLoad, SortsAt
  <2>. QED BY <1>1, <1>2, <1>3, <1>4, <2>1, <2>2, <2>3, <2>4, QuietOn
<1>. QED BY <1>5, <1>6

(* mod_board_still_allowed: a header that is in the cache is in the file *)
LEMMA CheckKeeps ==
  ASSUME CacheInv, NEW p \in Procs, check(p)
  PROVE  CacheInv'
<1>1. PICK r : r = proc[p]
  OBVIOUS
<1>2. At(p, "check") /\ UNCHANGED <<file, bcache, Bnumber, bsorted, ops, blame, Bbusystate,
        busystate_b, now>>
  BY DEF check, cache, locks, env, ghosts
<1>3. Place(r) = "check" /\ Then["check"] = "substitute"
  <2>1. First(Place(r)) = "check"
    BY <1>1, <1>2, Here, AtPlace
  <2>. QED BY <2>1 DEF First, Then
<1>4. StateOK' /\ KnowsAt("check", r) /\ r.alone # TRUE
  BY <1>1, <1>2, <1>3, Here, NotAlone DEF StateOK
<1>5. CASE bcache[r.b] # r.old
  <2>1. Off(p)
    BY <1>1, <1>5, Here, LeaveIs DEF check
  <2>. QED BY <1>1, <1>2, <1>3, <1>4, <2>1, QuietOff
<1>6. CASE bcache[r.b] = r.old
  <2>1. On(p, "substitute", r)
    BY <1>1, <1>2, <1>3, <1>6, Here, ContinueIs DEF check
  <2>2. r.b \in Slots /\ r.old # 0
    BY <1>4 DEF KnowsAt
  <2>3. r.b < Len(file)
    BY <1>6, <2>2 DEF CacheInv, FileOK
  <2>4. KnowsAt("substitute", r) /\ "substitute" \notin Adds
    BY <2>2 DEF KnowsAt, Adds
  <2>5. "check" \notin ToLoad /\ ~SortsAt("check", r.tries)
    BY DEF ToLoad, SortsAt
  <2>. QED BY <1>1, <1>2, <1>3, <1>4, <2>1, <2>3, <2>4, <2>5, QuietOn
<1>. QED BY <1>5, <1>6

(* free_board_slot: the slot is one of the first Bnumber, or a new one below MAX_BOARD *)
LEMMA SlotKeeps ==
  ASSUME CacheInv, NEW p \in Procs, slot(p)
  PROVE  CacheInv'
<1>1. PICK r : r = proc[p]
  OBVIOUS
<1>2. At(p, "slot") /\ UNCHANGED <<file, bcache, Bnumber, bsorted, ops, blame, Bbusystate,
        busystate_b, now>>
  BY DEF slot, cache, locks, env, ghosts
<1>3. Place(r) = "slot"
  <2>1. First(Place(r)) = "slot"
    BY <1>1, <1>2, Here, AtPlace
  <2>. QED BY <2>1 DEF First
<1>4. StateOK' /\ KnowsAt("slot", r) /\ r.alone # TRUE /\ r \in Recs
  BY <1>1, <1>2, <1>3, Here, NotAlone DEF StateOK
<1>5. "slot" \notin ToLoad /\ ~SortsAt("slot", r.tries) /\ "substitute" \notin Adds
        /\ "slot" \in Adds
  BY DEF ToLoad, SortsAt, Adds
<1>. DEFINE empty == {b \in Slots : b < Bnumber /\ bcache[b] = 0}
<1>6. CASE empty # {}
  <2>1. PICK b : b = (CHOOSE c \in empty : \A d \in empty : c <= d)
    OBVIOUS
  <2>2. \E c \in empty : \A d \in empty : c <= d
    <3>1. empty \in SUBSET Nat
      BY Sizes
    <3>. QED BY <1>6, <3>1, Least
  <2>3. b \in empty
    BY <2>1, <2>2
  <2>4. b \in Slots /\ b < Bnumber /\ b \in 0 .. Most
    BY <2>3, Sizes
  <2>5. PICK s : s = [r EXCEPT !.b = b]
    OBVIOUS
  <2>6. s \in Recs /\ s.b = b /\ s.op = r.op /\ s.alone = r.alone
    BY <1>4, <2>4, <2>5 DEF Recs
  <2>7. Goto(p, s, List.substitute)
    BY <1>1, <1>6, <2>1, <2>5, Lists DEF slot
  <2>8. On(p, "substitute", s)
    BY <2>6, <2>7, GotoIs, Here, LabelsAre
  <2>9. KnowsAt("substitute", s) /\ s.op = "add"
    BY <1>4, <2>4, <2>6 DEF KnowsAt
  <2>. QED BY <1>1, <1>2, <1>3, <1>4, <1>5, <2>4, <2>6, <2>8, <2>9, QuietOn
<1>7. CASE empty = {} /\ Bnumber >= MaxBoard
  <2>1. Off(p)
    BY <1>7, Here, LeaveIs DEF slot
  <2>. QED BY <1>1, <1>2, <1>3, <1>4, <2>1, QuietOff
<1>8. CASE empty = {} /\ ~(Bnumber >= MaxBoard)
  <2>1. Bnumber < MaxBoard /\ Bnumber \in Nat
    BY <1>8, NumberType
  <2>2. PICK s : s = [r EXCEPT !.n = Bnumber]
    OBVIOUS
  <2>3. s \in Recs /\ s.n = Bnumber /\ s.alone = r.alone
    BY <1>4, <2>1, <2>2 DEF Recs
  <2>4. Goto(p, s, List.append)
    BY <1>1, <1>8, <2>2, Lists DEF slot
  <2>5. On(p, "append", s)
    BY <2>3, <2>4, GotoIs, Here, LabelsAre
  <2>6. KnowsAt("append", s)
    BY <2>1, <2>3 DEF KnowsAt
  <2>. QED BY <1>1, <1>2, <1>3, <1>4, <1>5, <2>3, <2>5, <2>6, QuietOn
<1>. QED BY <1>6, <1>7, <1>8

(* the read of Bnumber++ *)
LEMMA Inc1Keeps ==
  ASSUME CacheInv, NEW p \in Procs, inc1(p)
  PROVE  CacheInv'
<1>1. PICK r : r = proc[p]
  OBVIOUS
<1>2. At(p, "inc1") /\ UNCHANGED <<file, bcache, Bnumber, bsorted, ops, blame, Bbusystate,
        busystate_b, now>>
  BY DEF inc1, cache, locks, env, ghosts
<1>3. Place(r) = "inc1" /\ Then["inc1"] = "inc2"
  <2>1. First(Place(r)) = "inc1"
    BY <1>1, <1>2, Here, AtPlace
  <2>. QED BY <2>1 DEF First, Then
<1>4. StateOK' /\ r.alone # TRUE /\ r \in Recs /\ Bnumber \in Nat
  BY <1>1, <1>2, <1>3, Here, NotAlone, NumberType DEF StateOK
<1>5. PICK s : s = [r EXCEPT !.n = Bnumber]
  OBVIOUS
<1>6. s \in Recs /\ s.n = Bnumber /\ s.alone = r.alone /\ s.todo = r.todo
  BY <1>4, <1>5 DEF Recs
<1>7. On(p, "inc2", s)
  BY <1>1, <1>2, <1>3, <1>5, <1>6, Here, ContinueIs DEF inc1
<1>8. KnowsAt("inc2", s) /\ "inc1" \in Adds /\ "inc1" \notin ToLoad /\ ~SortsAt("inc1", r.tries)
  BY DEF KnowsAt, Adds, ToLoad, SortsAt
<1>. QED BY <1>1, <1>2, <1>3, <1>4, <1>6, <1>7, <1>8, QuietOn

(* reset_board(num_boards()) takes the last board *)
LEMMA NumKeeps ==
  ASSUME CacheInv, NEW p \in Procs, num(p)
  PROVE  CacheInv'
<1>1. PICK r : r = proc[p]
  OBVIOUS
<1>2. At(p, "num") /\ UNCHANGED <<file, bcache, Bnumber, bsorted, ops, blame, Bbusystate,
        busystate_b, now>>
  BY DEF num, cache, locks, env, ghosts
<1>3. Place(r) = "num" /\ Then["num"] = "busy"
  <2>1. First(Place(r)) = "num"
    BY <1>1, <1>2, Here, AtPlace
  <2>. QED BY <2>1 DEF First, Then
<1>4. StateOK' /\ r.alone # TRUE /\ r \in Recs /\ Bnumber - 1 \in 0 .. Most
  BY <1>1, <1>2, <1>3, Here, NotAlone, NumberType DEF StateOK
<1>5. PICK s : s = [r EXCEPT !.b = Bnumber - 1]
  OBVIOUS
<1>6. s \in Recs /\ s.b = Bnumber - 1 /\ s.alone = r.alone /\ s.todo = r.todo
  BY <1>4, <1>5 DEF Recs
<1>7. On(p, "busy", s)
  BY <1>1, <1>2, <1>3, <1>5, <1>6, Here, ContinueIs DEF num
<1>8. KnowsAt("busy", s) /\ "busy" \notin Adds /\ "num" \notin ToLoad /\ SortsAt("busy", s.tries)
  BY DEF KnowsAt, Adds, ToLoad, SortsAt
<1>. QED BY <1>1, <1>2, <1>3, <1>4, <1>6, <1>7, <1>8, QuietOn

(* reset_board is refused, or goes on with the same header *)
LEMMA BusyKeeps ==
  ASSUME CacheInv, NEW p \in Procs, busy(p)
  PROVE  CacheInv'
<1>1. PICK r : r = proc[p]
  OBVIOUS
<1>2. At(p, "busy") /\ UNCHANGED <<file, bcache, Bnumber, bsorted, ops, Bbusystate, busystate_b,
        now>>
  BY DEF busy, cache, locks, env
<1>3. Place(r) = "busy" /\ Then["busy"] = "lock_b"
  <2>1. First(Place(r)) = "busy"
    BY <1>1, <1>2, Here, AtPlace
  <2>. QED BY <2>1 DEF First, Then
<1>4. StateOK' /\ r.alone # TRUE /\ r \in Recs
  BY <1>1, <1>2, <1>3, Here, NotAlone DEF StateOK
<1>5. CASE r.b >= MaxBoard \/ Bbusystate # 0
  <2>1. Goto(p, r, List.lock) /\ blame' = blame \cup {"refused"}
    BY <1>1, <1>5, Lists DEF busy, Refused, Blame
  <2>2. On(p, "lock", r)
    BY <1>4, <2>1, GotoIs, Here, LabelsAre
  <2>3. KnowsAt("lock", r) /\ "lock" \notin Adds
    BY DEF KnowsAt, Adds
  <2>. QED BY <1>1, <1>2, <1>3, <1>4, <2>1, <2>2, <2>3, QuietOn
<1>6. CASE ~(r.b >= MaxBoard \/ Bbusystate # 0)
  <2>1. r.b < MaxBoard
    BY <1>1, <1>6, Here, Sizes
  <2>2. PICK s : s = [r EXCEPT !.t = now]
    OBVIOUS
  <2>3. now \in 0 .. MaxTime
    BY Here, Sizes DEF StateOK
  <2>4. s \in Recs /\ s.b = r.b /\ s.alone = r.alone /\ s.todo = r.todo
    BY <1>4, <2>2, <2>3 DEF Recs
  <2>5. On(p, "lock_b", s) /\ blame' = blame
    BY <1>1, <1>2, <1>3, <1>6, <2>2, <2>4, Here, ContinueIs DEF busy
  <2>6. KnowsAt("lock_b", s)
    BY <2>1, <2>4 DEF KnowsAt
  <2>7. "lock_b" \notin Adds /\ "lock_b" \in ToLoad /\ SortsAt("lock_b", s.tries)
    BY DEF Adds, ToLoad, SortsAt
  <2>. QED BY <1>1, <1>2, <1>3, <1>4, <2>4, <2>5, <2>6, <2>7, QuietOn
<1>. QED BY <1>5, <1>6

(* the lock of a header is taken, is old, or is refused *)
LEMMA LockBKeeps ==
  ASSUME CacheInv, NEW p \in Procs, lock_b(p)
  PROVE  CacheInv'
<1>1. PICK r : r = proc[p]
  OBVIOUS
<1>2. At(p, "lock_b") /\ UNCHANGED <<file, bcache, Bnumber, bsorted, ops, Bbusystate, now>>
  BY DEF lock_b, cache, env
<1>3. Place(r) = "lock_b" /\ Then["lock_b"] = "load_b" /\ Tail(r.todo) = List.load_b
  <2>1. First(Place(r)) = "lock_b" /\ Tail(r.todo) = List[Then[Place(r)]]
    BY <1>1, <1>2, Here, AtPlace
  <2>2. Place(r) = "lock_b"
    BY <2>1 DEF First
  <2>3. Then["lock_b"] = "load_b"
    BY DEF Then
  <2>. QED BY <2>1, <2>2, <2>3
<1>4. r.alone # TRUE /\ r \in Recs /\ KnowsAt("lock_b", r) /\ r.b \in Nat /\ r.t \in 0 .. MaxTime
  BY <1>1, <1>2, <1>3, Here, NotAlone
<1>5. r.b < MaxBoard /\ r.b \in Slots
  <2>1. r.b < MaxBoard
    BY <1>4 DEF KnowsAt
  <2>. QED BY <1>4, <2>1, Sizes
<1>6. busystate_b \in [Slots -> 0 .. MaxTime] /\ busystate_b[r.b] \in 0 .. MaxTime
        /\ busystate_b[r.b] \in Nat
  <2>1. busystate_b \in [Slots -> 0 .. MaxTime]
    BY Here DEF StateOK
  <2>2. busystate_b[r.b] \in 0 .. MaxTime
    BY <1>5, <2>1
  <2>. QED BY <2>1, <2>2, Sizes
<1>7. "lock_b" \in ToLoad /\ "load_b" \in ToLoad /\ "steal_b" \in ToLoad
        /\ (\A k : SortsAt("load_b", k) /\ SortsAt("steal_b", k))
      /\ "load_b" \notin Adds /\ "steal_b" \notin Adds /\ "lock" \notin Adds
  BY DEF ToLoad, Adds, SortsAt
<1>8. CASE busystate_b[r.b] = 0
  <2>1. busystate_b' = [busystate_b EXCEPT ![r.b] = r.t] /\ Continue(p, r) /\ blame' = blame
    BY <1>1, <1>8 DEF lock_b
  <2>2. StateOK'
    BY <1>2, <1>4, <1>6, <2>1, Here DEF StateOK
  <2>3. On(p, "load_b", r)
    BY <1>1, <1>2, <1>3, <1>4, <2>1, Here, ContinueIs
  <2>4. KnowsAt("load_b", r)
    BY <1>5 DEF KnowsAt
  <2>. QED BY <1>1, <1>2, <1>3, <1>4, <1>7, <2>1, <2>2, <2>3, <2>4, QuietOn
<1>9. CASE busystate_b[r.b] # 0 /\ r.t > busystate_b[r.b]
  <2>1. PICK s : s = [r EXCEPT !.n = busystate_b[r.b]]
    OBVIOUS
  <2>2. busystate_b' = busystate_b /\ Goto(p, s, List.steal_b) /\ blame' = blame
    <3>1. busystate_b' = busystate_b /\ Goto(p, s, <<"steal_b">> \o Tail(r.todo)) /\ blame' = blame
      BY <1>1, <1>9, <2>1 DEF lock_b
    <3>. QED BY <1>3, <3>1, Lists
  <2>3. StateOK'
    BY <1>2, <2>2, Here DEF StateOK
  <2>4. s \in Recs /\ s.b = r.b /\ s.alone = r.alone
    BY <1>4, <1>6, <2>1 DEF Recs
  <2>5. On(p, "steal_b", s)
    BY <2>2, <2>4, GotoIs, Here, LabelsAre
  <2>6. KnowsAt("steal_b", s)
    BY <1>5, <2>4 DEF KnowsAt
  <2>. QED BY <1>1, <1>2, <1>3, <1>4, <1>7, <2>2, <2>3, <2>4, <2>5, <2>6, QuietOn
<1>10. CASE busystate_b[r.b] # 0 /\ ~(r.t > busystate_b[r.b])
  <2>1. busystate_b' = busystate_b /\ Goto(p, r, List.lock) /\ blame' = blame \cup {"refused"}
    BY <1>1, <1>10, Lists DEF lock_b, Refused, Blame
  <2>2. StateOK'
    BY <1>2, <2>1, Here DEF StateOK
  <2>3. On(p, "lock", r)
    BY <1>4, <2>1, GotoIs, Here, LabelsAre
  <2>4. KnowsAt("lock", r)
    BY DEF KnowsAt
  <2>. QED BY <1>1, <1>2, <1>3, <1>4, <1>7, <2>1, <2>2, <2>3, <2>4, QuietOn
<1>. QED BY <1>8, <1>9, <1>10

(* an old lock is taken over or is lost to another *)
LEMMA StealBKeeps ==
  ASSUME CacheInv, NEW p \in Procs, steal_b(p)
  PROVE  CacheInv'
<1>1. PICK r : r = proc[p]
  OBVIOUS
<1>2. At(p, "steal_b") /\ UNCHANGED <<file, bcache, Bnumber, bsorted, ops, Bbusystate, now>>
  BY DEF steal_b, cache, env
<1>3. Place(r) = "steal_b" /\ Then["steal_b"] = "load_b"
  <2>1. First(Place(r)) = "steal_b"
    BY <1>1, <1>2, Here, AtPlace
  <2>. QED BY <2>1 DEF First, Then
<1>4. r.alone # TRUE /\ r \in Recs /\ KnowsAt("steal_b", r) /\ r.b \in Nat /\ r.t \in 0 .. MaxTime
  BY <1>1, <1>2, <1>3, Here, NotAlone
<1>5. r.b < MaxBoard
  BY <1>4 DEF KnowsAt
<1>6. "steal_b" \in ToLoad /\ "load_b" \in ToLoad /\ (\A k : SortsAt("load_b", k))
        /\ "load_b" \notin Adds /\ "lock" \notin Adds
  BY DEF ToLoad, Adds, SortsAt
<1>7. CASE busystate_b[r.b] = r.n
  <2>1. busystate_b' = [busystate_b EXCEPT ![r.b] = r.t] /\ Continue(p, r) /\ blame' = blame
    BY <1>1, <1>7 DEF steal_b
  <2>2. StateOK'
    BY <1>2, <1>4, <2>1, Here DEF StateOK
  <2>3. On(p, "load_b", r)
    BY <1>1, <1>2, <1>3, <1>4, <2>1, Here, ContinueIs
  <2>4. KnowsAt("load_b", r)
    BY <1>5 DEF KnowsAt
  <2>. QED BY <1>1, <1>2, <1>3, <1>4, <1>6, <2>1, <2>2, <2>3, <2>4, QuietOn
<1>8. CASE busystate_b[r.b] # r.n
  <2>1. busystate_b' = busystate_b /\ Goto(p, r, List.lock) /\ blame' = blame \cup {"refused"}
    BY <1>1, <1>8, Lists DEF steal_b, Refused, Blame
  <2>2. StateOK'
    BY <1>2, <2>1, Here DEF StateOK
  <2>3. On(p, "lock", r)
    BY <1>4, <2>1, GotoIs, Here, LabelsAre
  <2>4. KnowsAt("lock", r)
    BY DEF KnowsAt
  <2>. QED BY <1>1, <1>2, <1>3, <1>4, <1>6, <2>1, <2>2, <2>3, <2>4, QuietOn
<1>. QED BY <1>7, <1>8

(* the lock of a header is given back *)
LEMMA FreeBKeeps ==
  ASSUME CacheInv, NEW p \in Procs, free_b(p)
  PROVE  CacheInv'
<1>1. PICK r : r = proc[p]
  OBVIOUS
<1>2. At(p, "free_b") /\ UNCHANGED <<file, bcache, Bnumber, bsorted, ops, Bbusystate, now, blame>>
  BY DEF free_b, cache, env, ghosts
<1>3. Place(r) = "free_b" /\ Then["free_b"] = "lock"
  <2>1. First(Place(r)) = "free_b"
    BY <1>1, <1>2, Here, AtPlace
  <2>. QED BY <2>1 DEF First, Then
<1>4. r.alone # TRUE /\ r \in Recs
  BY <1>1, <1>2, <1>3, Here, NotAlone
<1>5. busystate_b' = [busystate_b EXCEPT ![r.b] = 0] /\ Continue(p, r)
  BY <1>1 DEF free_b
<1>6. StateOK'
  <2>1. 0 \in 0 .. MaxTime
    BY Sizes
  <2>. QED BY <1>2, <1>5, <2>1, Here DEF StateOK
<1>7. On(p, "lock", r)
  BY <1>1, <1>2, <1>3, <1>4, <1>5, Here, ContinueIs
<1>8. KnowsAt("lock", r) /\ "lock" \notin Adds /\ "free_b" \notin ToLoad /\ SortsAt("lock", r.tries)
  BY DEF KnowsAt, Adds, ToLoad, SortsAt
<1>. QED BY <1>1, <1>2, <1>3, <1>4, <1>6, <1>7, <1>8, QuietOn

(* sort_bcache takes Bbusystate or gives up *)
LEMMA LockKeeps ==
  ASSUME CacheInv, NEW p \in Procs, lock(p)
  PROVE  CacheInv'
<1>1. PICK r : r = proc[p]
  OBVIOUS
<1>2. At(p, "lock") /\ UNCHANGED <<file, bcache, Bnumber, bsorted, ops, busystate_b, now>>
  BY DEF lock, cache, env
<1>3. Place(r) = "lock" /\ Then["lock"] = "sort"
  <2>1. First(Place(r)) = "lock"
    BY <1>1, <1>2, Here, AtPlace
  <2>. QED BY <2>1 DEF First, Then
<1>4. r \in Recs
  BY <1>1, Here
<1>5. CASE Bbusystate = 0
  <2>1. Bbusystate' = 1 /\ Continue(p, r) /\ blame' = blame
    BY <1>1, <1>5 DEF lock
  <2>2. StateOK'
    BY <1>2, <2>1, Here DEF StateOK
  <2>3. On(p, "sort", r)
    BY <1>1, <1>2, <1>3, <1>4, <2>1, Here, ContinueIs
  <2>4. KnowsAt("sort", r) /\ "sort" \notin Adds /\ "lock" \notin ToLoad /\ SortsAt("sort", r.tries)
    BY DEF KnowsAt, Adds, ToLoad, SortsAt
  <2>. QED BY <1>1, <1>2, <1>3, <1>4, <2>1, <2>2, <2>3, <2>4, QuietOn
<1>6. CASE Bbusystate # 0
  <2>1. Bbusystate' = Bbusystate /\ Leave(p) /\ blame' = blame \cup {"refused"}
    BY <1>1, <1>6 DEF lock, Blame
  <2>2. StateOK'
    BY <1>2, <2>1, Here DEF StateOK
  <2>3. Off(p)
    BY <2>1, LeaveIs, Here
  <2>. QED BY <1>1, <1>2, <1>3, <2>1, <2>2, <2>3, QuietOff
<1>. QED BY <1>5, <1>6

(* reload_bcache takes Bbusystate, waits or gives up *)
LEMMA RlockKeeps ==
  ASSUME CacheInv, NEW p \in Procs, rlock(p)
  PROVE  CacheInv'
<1>1. PICK r : r = proc[p]
  OBVIOUS
<1>2. At(p, "rlock") /\ UNCHANGED <<file, bcache, Bnumber, bsorted, ops, busystate_b, now>>
  BY DEF rlock, cache, env
<1>3. Place(r) = "rlock" /\ Then["rlock"] = "load"
  <2>1. First(Place(r)) = "rlock"
    BY <1>1, <1>2, Here, AtPlace
  <2>. QED BY <2>1 DEF First, Then
<1>4. r \in Recs /\ r.alone # TRUE /\ r.tries \in Nat
  BY <1>1, <1>3, Here, NotAlone
<1>5. "rlock" \notin ToLoad /\ (\A k : ~SortsAt("rlock", k)) /\ "load" \notin Adds
        /\ "rlock" \notin Adds
      /\ \A s : KnowsAt("load", s) /\ KnowsAt("rlock", s)
  BY DEF KnowsAt, Adds, ToLoad, SortsAt
<1>6. CASE Bbusystate = 0
  <2>1. Bbusystate' = 1 /\ Continue(p, r) /\ blame' = blame
    BY <1>1, <1>6 DEF rlock
  <2>2. StateOK'
    BY <1>2, <2>1, Here DEF StateOK
  <2>3. On(p, "load", r)
    BY <1>1, <1>2, <1>3, <1>4, <2>1, Here, ContinueIs
  <2>. QED BY <1>1, <1>2, <1>3, <1>4, <1>5, <2>1, <2>2, <2>3, QuietOn
<1>7. CASE Bbusystate # 0 /\ r.tries + 1 < Tries
  <2>1. PICK s : s = [r EXCEPT !.tries = r.tries + 1]
    OBVIOUS
  <2>2. Bbusystate' = Bbusystate /\ proc' = [proc EXCEPT ![p] = s] /\ blame' = blame
    BY <1>1, <1>7, <2>1 DEF rlock
  <2>3. StateOK'
    BY <1>2, <2>2, Here DEF StateOK
  <2>4. r.tries + 1 \in 0 .. Tries - 1
    BY <1>4, <1>7, Sizes
  <2>5. s \in Recs /\ s.todo = r.todo /\ s.alone = r.alone
    BY <1>4, <2>1, <2>4 DEF Recs
  <2>6. On(p, "rlock", s)
    BY <1>1, <1>3, <2>2, <2>5, Here, SetIs
  <2>. QED BY <1>1, <1>2, <1>3, <1>4, <1>5, <2>2, <2>3, <2>5, <2>6, QuietOn
<1>8. CASE Bbusystate # 0 /\ ~(r.tries + 1 < Tries)
  <2>1. Bbusystate' = Bbusystate /\ Leave(p) /\ blame' = blame \cup {"refused"}
    BY <1>1, <1>8 DEF rlock, Blame
  <2>2. StateOK'
    BY <1>2, <2>1, Here DEF StateOK
  <2>3. Off(p)
    BY <2>1, LeaveIs, Here
  <2>. QED BY <1>1, <1>2, <1>3, <2>1, <2>2, <2>3, QuietOff
<1>. QED BY <1>6, <1>7, <1>8

(* do_shm_init clears Bbusystate *)
LEMMA ClearKeeps ==
  ASSUME CacheInv, NEW p \in Procs, clear(p)
  PROVE  CacheInv'
<1>1. PICK r : r = proc[p]
  OBVIOUS
<1>2. At(p, "clear") /\ UNCHANGED <<file, bcache, Bnumber, bsorted, ops, busystate_b, now,
        blame>> /\ Bbusystate' = 0 /\ Continue(p, r)
  BY <1>1 DEF clear, cache, env
<1>3. Place(r) = "clear" /\ Then["clear"] = "rlock"
  <2>1. First(Place(r)) = "clear"
    BY <1>1, <1>2, Here, AtPlace
  <2>. QED BY <2>1 DEF First, Then
<1>4. r \in Recs /\ r.alone # TRUE
  BY <1>1, <1>3, Here, NotAlone
<1>5. StateOK'
  BY <1>2, Here DEF StateOK
<1>6. On(p, "rlock", r)
  BY <1>1, <1>2, <1>3, <1>4, Here, ContinueIs
<1>7. KnowsAt("rlock", r) /\ "rlock" \notin Adds /\ "clear" \notin ToLoad /\ ~SortsAt("clear",
        r.tries)
  BY DEF KnowsAt, Adds, ToLoad, SortsAt
<1>. QED BY <1>1, <1>2, <1>3, <1>4, <1>5, <1>6, <1>7, QuietOn

(* fixbcache compares the next header *)
LEMMA FixKeeps ==
  ASSUME CacheInv, NEW p \in Procs, fix(p)
  PROVE  CacheInv'
<1>1. PICK r : r = proc[p]
  OBVIOUS
<1>2. At(p, "fix") /\ UNCHANGED <<file, bcache, Bnumber, bsorted, ops, busystate_b, Bbusystate,
        now, blame>>
  BY <1>1 DEF fix, cache, env, locks, ghosts
<1>3. Place(r) = "fix"
  <2>1. First(Place(r)) = "fix"
    BY <1>1, <1>2, Here, AtPlace
  <2>. QED BY <2>1 DEF First
<1>4. r \in Recs /\ r.alone # TRUE /\ r.b \in Nat /\ r.tries \in Nat /\ KnowsAt("fix", r)
  BY <1>1, <1>3, Here, NotAlone
<1>5. StateOK' /\ Len(file) \in Nat /\ file \in Seq(Headers)
  BY <1>2, Here DEF StateOK
<1>6. "fix" \notin ToLoad /\ "fix" \notin Adds /\ "lock" \notin Adds /\ "fixlock" \notin Adds
      /\ (\A k : SortsAt("lock", k) /\ (SortsAt("fix", k) <=> k > 0) /\ (SortsAt("fixlock", k)
         <=> k > 0))
  BY DEF Adds, ToLoad, SortsAt
<1>7. CASE (r.b >= Len(file) \/ r.b >= MaxBoard) /\ r.tries > 0
  <2>1. Goto(p, r, List.lock)
    BY <1>1, <1>7, Lists DEF fix
  <2>2. On(p, "lock", r)
    BY <1>4, <2>1, GotoIs, Here, LabelsAre
  <2>3. KnowsAt("lock", r)
    BY DEF KnowsAt
  <2>. QED BY <1>1, <1>2, <1>3, <1>4, <1>5, <1>6, <2>2, <2>3, QuietOn
<1>8. CASE (r.b >= Len(file) \/ r.b >= MaxBoard) /\ ~(r.tries > 0)
  <2>1. Goto(p, r, List.idle)
    BY <1>1, <1>8, Lists DEF fix
  <2>2. Off(p)
    BY <1>4, <2>1, GotoIs, Here, LabelsAre
  <2>. QED BY <1>1, <1>2, <1>3, <1>5, <1>8, <2>2, QuietOff
<1>9. CASE ~(r.b >= Len(file) \/ r.b >= MaxBoard) /\ Header(r.b) = bcache[r.b]
  <2>1. PICK s : s = [r EXCEPT !.b = r.b + 1]
    OBVIOUS
  <2>2. proc' = [proc EXCEPT ![p] = s]
    BY <1>1, <1>9, <2>1 DEF fix
  <2>3. r.b + 1 \in 0 .. Most /\ r.b + 1 <= MaxBoard
    BY <1>4, <1>5, <1>9, Sizes
  <2>4. s \in Recs /\ s.todo = r.todo /\ s.alone = r.alone /\ s.tries = r.tries /\ s.b = r.b + 1
    BY <1>4, <2>1, <2>3 DEF Recs
  <2>5. On(p, "fix", s)
    BY <1>1, <1>3, <2>2, <2>4, Here, SetIs
  <2>6. KnowsAt("fix", s)
    BY <2>3, <2>4 DEF KnowsAt
  <2>. QED BY <1>1, <1>2, <1>3, <1>4, <1>5, <1>6, <2>4, <2>5, <2>6, QuietOn
<1>10. CASE ~(r.b >= Len(file) \/ r.b >= MaxBoard) /\ Header(r.b) # bcache[r.b]
  <2>1. PICK s : s = [r EXCEPT !.name = Header(r.b), !.n = 0]
    OBVIOUS
  <2>2. r.b < Len(file) /\ r.b < MaxBoard
    BY <1>4, <1>5, <1>10, Sizes
  <2>3. Header(r.b) \in Headers
    BY <1>4, <1>5, <2>2 DEF Header
  <2>4. s \in Recs /\ s.alone = r.alone /\ s.tries = r.tries /\ s.b = r.b
    BY <1>4, <2>1, <2>3 DEF Recs
  <2>5. Goto(p, s, List.fixlock)
    BY <1>1, <1>10, <2>1, Lists DEF fix
  <2>6. On(p, "fixlock", s)
    BY <2>4, <2>5, GotoIs, Here, LabelsAre
  <2>7. KnowsAt("fixlock", s)
    BY <2>2, <2>4 DEF KnowsAt
  <2>. QED BY <1>1, <1>2, <1>3, <1>4, <1>5, <1>6, <2>4, <2>6, <2>7, QuietOn
<1>. QED BY <1>7, <1>8, <1>9, <1>10

(* lockbcache waits for Bbusystate and then takes it *)
LEMMA FixlockKeeps ==
  ASSUME CacheInv, NEW p \in Procs, fixlock(p)
  PROVE  CacheInv'
<1>1. PICK r : r = proc[p]
  OBVIOUS
<1>2. At(p, "fixlock") /\ UNCHANGED <<file, bcache, Bnumber, bsorted, ops, busystate_b, now, blame>>
  BY <1>1 DEF fixlock, cache, env
<1>3. Place(r) = "fixlock" /\ Then["fixlock"] = "fixset"
  <2>1. First(Place(r)) = "fixlock"
    BY <1>1, <1>2, Here, AtPlace
  <2>. QED BY <2>1 DEF First, Then
<1>4. r \in Recs /\ r.alone # TRUE /\ KnowsAt("fixlock", r) /\ r.n \in Nat
  BY <1>1, <1>3, Here, NotAlone
<1>5. "fixlock" \notin ToLoad /\ "fixlock" \notin Adds /\ "fixset" \notin Adds
      /\ (\A k : (SortsAt("fixset", k) <=> k > 0) /\ (SortsAt("fixlock", k) <=> k > 0))
  BY DEF Adds, ToLoad, SortsAt
<1>6. CASE Bbusystate # 0 /\ r.n < Tries
  <2>1. PICK s : s = [r EXCEPT !.n = r.n + 1]
    OBVIOUS
  <2>2. proc' = [proc EXCEPT ![p] = s] /\ Bbusystate' = Bbusystate
    BY <1>1, <1>6, <2>1 DEF fixlock
  <2>3. StateOK'
    BY <1>2, <2>2, Here DEF StateOK
  <2>4. r.n + 1 \in Nat
    BY <1>4
  <2>5. s \in Recs /\ s.todo = r.todo /\ s.alone = r.alone /\ s.tries = r.tries /\ s.b = r.b
    BY <1>4, <2>1, <2>4 DEF Recs
  <2>6. On(p, "fixlock", s)
    BY <1>1, <1>3, <2>2, <2>5, Here, SetIs
  <2>7. KnowsAt("fixlock", s)
    BY <1>4, <2>5 DEF KnowsAt
  <2>. QED BY <1>1, <1>2, <1>3, <1>4, <1>5, <2>3, <2>5, <2>6, <2>7, QuietOn
<1>7. CASE ~(Bbusystate # 0 /\ r.n < Tries)
  <2>1. Bbusystate' = 1 /\ Continue(p, r)
    BY <1>1, <1>7 DEF fixlock
  <2>2. StateOK'
    BY <1>2, <2>1, Here DEF StateOK
  <2>3. On(p, "fixset", r)
    BY <1>1, <1>2, <1>3, <1>4, <2>1, Here, ContinueIs
  <2>4. KnowsAt("fixset", r)
    BY <1>4 DEF KnowsAt
  <2>. QED BY <1>1, <1>2, <1>3, <1>4, <1>5, <2>2, <2>3, <2>4, QuietOn
<1>. QED BY <1>6, <1>7

(* fixbcache gives Bbusystate back and remembers to sort *)
LEMMA FixfreeKeeps ==
  ASSUME CacheInv, NEW p \in Procs, fixfree(p)
  PROVE  CacheInv'
<1>1. PICK r : r = proc[p]
  OBVIOUS
<1>2. At(p, "fixfree") /\ UNCHANGED <<file, bcache, Bnumber, bsorted, ops, busystate_b, now,
        blame>> /\ Bbusystate' = 0
  BY <1>1 DEF fixfree, cache, env, ghosts
<1>3. Place(r) = "fixfree" /\ Then["fixfree"] = "fix"
  <2>1. First(Place(r)) = "fixfree"
    BY <1>1, <1>2, Here, AtPlace
  <2>. QED BY <2>1 DEF First, Then
<1>4. r \in Recs /\ r.alone # TRUE /\ KnowsAt("fixfree", r) /\ r.b \in Nat
  BY <1>1, <1>3, Here, NotAlone
<1>5. StateOK'
  BY <1>2, Here DEF StateOK
<1>6. PICK s : s = [r EXCEPT !.b = r.b + 1, !.tries = 1]
  OBVIOUS
<1>7. r.b + 1 \in 0 .. Most /\ r.b + 1 <= MaxBoard
  <2>1. r.b < MaxBoard
    BY <1>4 DEF KnowsAt
  <2>. QED BY <1>4, <2>1, Sizes
<1>8. 1 \in 0 .. Tries - 1 \cup {1}
  OBVIOUS
<1>9. s \in Recs /\ s.todo = r.todo /\ s.alone = r.alone /\ s.tries = 1 /\ s.b = r.b + 1
  BY <1>4, <1>6, <1>7, <1>8 DEF Recs
<1>10. On(p, "fix", s)
  <2>1. Continue(p, s)
    BY <1>1, <1>6 DEF fixfree
  <2>. QED BY <1>1, <1>2, <1>3, <1>9, <2>1, Here, ContinueIs
<1>11. KnowsAt("fix", s)
  BY <1>7, <1>9 DEF KnowsAt
<1>12. "fixfree" \notin ToLoad /\ "fix" \notin Adds /\ SortsAt("fix", 1)
  BY DEF Adds, ToLoad, SortsAt
<1>. QED BY <1>1, <1>2, <1>3, <1>4, <1>5, <1>9, <1>10, <1>11, <1>12, QuietOn

(* a process is killed, which is blamed *)
LEMMA DieKeeps ==
  ASSUME CacheInv, NEW p \in Procs, Die(p)
  PROVE  CacheInv'
<1>1. UNCHANGED <<file, bcache, Bnumber, bsorted, ops, Bbusystate, busystate_b, now>>
        /\ blame' = blame \cup {"died"}
  BY DEF Die, cache, locks, Blame
<1>2. StateOK'
  BY <1>1, Here DEF StateOK
<1>3. Off(p) /\ Place(proc[p]) # "idle"
  BY LeaveIs, Here DEF Die
<1>. QED BY <1>1, <1>2, <1>3, QuietOff

-----------------------------------------------------------------------------
(* The steps that change the file or the cache *)

(* a process that goes on *)
LEMMA OnGoes ==
  ASSUME NEW p \in Procs, NEW m, NEW s, On(p, m, s), Place(proc[p]) # "idle"
  PROVE  \E l, r, g : Goes(p, l, m, r, g) /\ Like(g, s) /\ r = proc[p] /\ l = Place(proc[p])
<1>1. PICK l, r, g : l = Place(proc[p]) /\ r = proc[p] /\ g = proc'[p]
  OBVIOUS
<1>. QED BY <1>1 DEF On, Goes

(* a step that leaves the number and the length of the file keeps NumOK *)
LEMMA NumKept ==
  ASSUME proc \in [Procs -> Recs], NumOK, NEW p \in Procs, NEW l, NEW m, NEW r, NEW g, Goes(p, l,
         m, r, g),
         Bnumber' = Bnumber, Len(file') = Len(file), l \notin {"inc1", "inc2"},
         m \notin {"inc1", "inc2", "num", "substitute"}, m = "number" => g.n = InFile
  PROVE  NumOK' /\ InFile' = InFile
<1>1. \A q \in Procs : q # p => proc'[q] = proc[q]
  BY Unmoved DEF Goes
<1>2. InFile' = InFile
  BY DEF InFile
<1>3. g = proc'[p] /\ m = Place(proc'[p]) /\ l = Place(proc[p])
  BY DEF Goes
<1>4. \A q \in Procs : Place(proc'[q]) = "substitute" => proc'[q].b < Len(file)
  BY <1>1, <1>3 DEF NumOK
<1>5. \A q \in Procs : Place(proc'[q]) \in {"inc1", "inc2"} <=> Place(proc[q]) \in {"inc1", "inc2"}
  BY <1>1, <1>3
<1>6. \A q \in Procs : Place(proc'[q]) = "inc2" => proc'[q].n = Bnumber
  BY <1>1, <1>3 DEF NumOK
<1>7. \A q \in Procs : Place(proc'[q]) = "num" => Bnumber = Len(file)
  BY <1>1, <1>3 DEF NumOK
<1>8. \A q \in Procs : Place(proc'[q]) = "number" => proc'[q].n = InFile
  BY <1>1, <1>3 DEF NumOK
<1>9. /\ \A q \in Procs : Place(proc'[q]) \in {"inc1", "inc2"} => Bnumber = Len(file) - 1
      /\ (\A q \in Procs : Place(proc'[q]) \notin {"inc1", "inc2"}) => Bnumber = InFile
  BY <1>5 DEF NumOK
<1>. QED BY <1>2, <1>4, <1>6, <1>7, <1>8, <1>9 DEF NumOK

(* a process that is on its way to sort_bcache is enough for SortOK *)
LEMMA SortComes ==
  ASSUME NEW p \in Procs, NEW l, NEW m, NEW r, NEW g, Goes(p, l, m, r, g), SortsAt(m, g.tries)
  PROVE  SortOK'
<1>1. WillSort(proc'[p])
  BY DEF WillSort, Goes
<1>. QED BY <1>1 DEF SortOK, WillSort, Place

(* whoever was to sort still is *)
LEMMA SortStays ==
  ASSUME proc \in [Procs -> Recs], SortOK, UNCHANGED <<bcache, Bnumber, bsorted>>, NEW p \in Procs,
         NEW l, NEW m, NEW r, NEW g,
         Goes(p, l, m, r, g), SortsAt(l, r.tries) => SortsAt(m, g.tries)
  PROVE  SortOK'
<1>1. CASE bsorted = Sorted
  BY <1>1, SortedSame DEF SortOK
<1>2. CASE bsorted # Sorted
  <2>1. PICK q \in Procs : WillSort(proc[q])
    BY <1>2 DEF SortOK
  <2>2. WillSort(proc'[q])
    BY <2>1, Unmoved DEF WillSort, Goes
  <2>. QED BY <2>2 DEF SortOK, WillSort, Place
<1>. QED BY <1>1, <1>2

(* a header that another process is to load *)
LEMMA LoadWaits ==
  ASSUME proc \in [Procs -> Recs], NEW p \in Procs, NEW l, NEW m, NEW r, NEW g, Goes(p, l, m, r, g),
         NEW q \in Procs, q # p, NEW b, WillLoad(proc[q], b), Len(file') = Len(file)
  PROVE  \E x \in Procs : WillLoad(proc[x], b)'
<1>1. proc'[q] = proc[q]
  BY Unmoved DEF Goes
<1>. QED BY <1>1 DEF WillLoad, Place

(* what substitute writes: one header, and nothing is cut off *)
LEMMA Written ==
  ASSUME CacheInv, NEW p \in Procs, substitute(p), proc[p].b \in Slots
  PROVE  /\ file' \in Seq(Headers) /\ Len(file') >= Len(file) /\ Len(file') \in Nat
            /\ Len(file) \in Nat
         /\ proc[p].b < Len(file) => Len(file') = Len(file)
         /\ \A b \in Nat : Header(b)' = IF b = proc[p].b THEN proc[p].name ELSE Header(b)
<1>1. PICK k, n, a : k = proc[p].b /\ n = Len(file) /\ a = proc[p].name
  OBVIOUS
<1>2. k \in Nat /\ n \in Nat /\ a \in Headers /\ file \in Seq(Headers) /\ 0 \in Headers
  BY <1>1, Here, Sizes DEF StateOK
<1>3. PICK o \in Nat : o = IF k < n THEN n ELSE k + 1
  BY <1>2
<1>4. \A b \in Nat : Header(b) = (IF b < n THEN file[b + 1] ELSE 0) /\ Header(b) \in Headers
  BY <1>1, <1>2 DEF Header
<1>5. file' = [i \in 1 .. o |-> IF i = k + 1 THEN a ELSE Header(i - 1)]
  BY <1>1, <1>3 DEF substitute
<1>6. \A i \in 1 .. o : i - 1 \in Nat
  BY <1>3
<1>7. \A i \in 1 .. o : (IF i = k + 1 THEN a ELSE Header(i - 1)) \in Headers
  BY <1>2, <1>4, <1>6
<1>8. file' \in Seq(Headers) /\ Len(file') = o
  BY <1>3, <1>5, <1>7
<1>9. \A b \in Nat : Header(b)' = IF b = k THEN a ELSE Header(b)
  <2>. SUFFICES ASSUME NEW b \in Nat PROVE Header(b)' = IF b = k THEN a ELSE Header(b)
    OBVIOUS
  <2>1. Header(b)' = IF b < o THEN file'[b + 1] ELSE 0
    BY <1>8 DEF Header
  <2>2. CASE b < o
    <3>1. b + 1 \in 1 .. o /\ (b + 1 = k + 1 <=> b = k) /\ b + 1 - 1 = b
      BY <1>2, <1>3, <2>2
    <3>2. file'[b + 1] = IF b = k THEN a ELSE Header(b)
      BY <1>5, <3>1
    <3>. QED BY <2>1, <2>2, <3>2
  <2>3. CASE ~(b < o)
    <3>1. b # k /\ ~(b < n)
      BY <1>2, <1>3, <2>3
    <3>. QED BY <1>4, <2>1, <2>3, <3>1
  <2>. QED BY <2>2, <2>3
<1>10. o >= n /\ (k < n => o = n)
  BY <1>2, <1>3
<1>. QED BY <1>1, <1>2, <1>8, <1>9, <1>10

(* what is in the cache stays in the file *)
LEMMA FileKept ==
  ASSUME TypesOK, FileOK, StateOK', Len(file') >= Len(file), NEW p \in Procs, NEW l, NEW m, NEW r,
         NEW g, Goes(p, l, m, r, g),
         m # "substitute", \A b \in Slots : bcache'[b] # bcache[b] => b < Len(file)
  PROVE  FileOK'
<1>1. Len(file) \in Nat /\ Len(file') \in Nat
  BY DEF TypesOK, StateOK
<1>2. \A b \in Slots : b \in Nat
  BY Sizes
<1>3. \A b \in Slots : bcache'[b] # 0 => b < Len(file')
  <2>. SUFFICES ASSUME NEW b \in Slots, bcache'[b] # 0 PROVE b < Len(file')
    OBVIOUS
  <2>1. b < Len(file)
    BY DEF FileOK
  <2>. QED BY <1>1, <1>2, <2>1
<1>4. ASSUME NEW q \in Procs, Place(proc'[q]) = "substitute", proc'[q].op # "add"
             PROVE proc'[q].b < Len(file')
  <2>1. q # p
    BY <1>4 DEF Goes
  <2>2. proc'[q] = proc[q]
    BY <2>1, Unmoved DEF Goes, TypesOK
  <2>3. proc[q].b < Len(file)
    BY <1>4, <2>2 DEF FileOK
  <2>4. proc[q] \in Recs
    BY DEF TypesOK
  <2>5. proc[q].b \in 0 .. Most
    BY <2>4 DEF Recs
  <2>6. proc[q].b \in Nat
    BY <2>5, Sizes
  <2>. QED BY <1>1, <2>2, <2>3, <2>6
<1>5. ASSUME NEW q \in Procs, Place(proc[q])' = "substitute", proc'[q].op # "add"
             PROVE proc'[q].b < Len(file')
  BY <1>4, <1>5 DEF Place
<1>. QED BY <1>3, <1>5 DEF FileOK

(* substitute: the header that now differs is the one its writer is going to load *)
LEMMA SubstituteKeeps ==
  ASSUME CacheInv, NEW p \in Procs, substitute(p)
  PROVE  CacheInv'
<1>1. At(p, "substitute") /\ UNCHANGED <<bcache, Bnumber, bsorted, ops, Bbusystate, busystate_b,
        now, blame>> /\ Continue(p, proc[p])
  BY DEF substitute, cache, locks, env, ghosts
<1>2. Place(proc[p]) = "substitute" /\ Then["substitute"] = "busy"
  <2>1. First(Place(proc[p])) = "substitute"
    BY <1>1, Here, AtPlace
  <2>. QED BY <2>1 DEF First, Then
<1>3. On(p, "busy", proc[p])
  BY <1>1, <1>2, Here, ContinueIs
<1>4. PICK l, r, g : Goes(p, l, "busy", r, g) /\ Like(g, proc[p]) /\ r = proc[p]
        /\ l = Place(proc[p])
  BY <1>2, <1>3, OnGoes
<1>5. /\ proc \in [Procs -> Recs] /\ l = "substitute" /\ KnowsAt("substitute", r)
         /\ r.alone # TRUE /\ r.b \in Nat
      /\ g.alone = r.alone /\ g.b = r.b /\ g.tries = r.tries /\ g = proc'[p] /\ Place(g) = "busy"
  BY <1>2, <1>4, Here, NotAlone DEF Like, Goes
<1>6. r.b \in Slots
  BY <1>5 DEF KnowsAt
<1>7. /\ file' \in Seq(Headers) /\ Len(file') >= Len(file) /\ Len(file') \in Nat
         /\ Len(file) \in Nat
      /\ r.b < Len(file) => Len(file') = Len(file)
      /\ \A b \in Nat : Header(b)' = IF b = r.b THEN r.name ELSE Header(b)
  BY <1>4, <1>6, Written
<1>8. StateOK'
  BY <1>1, <1>7, Here DEF StateOK
<1>9. "busy" \notin Adds /\ "busy" \in ToLoad /\ SortsAt("busy", g.tries)
        /\ "substitute" \notin ToLoad \cup Counting
  BY DEF Adds, ToLoad, SortsAt, Counting
<1>10. TypesOK /\ FileOK /\ BoundsOK /\ CountOK /\ LoneOK /\ CurOK
  BY DEF CacheInv
<1>11. TypesOK'
  <2>1. Knows(g)
    BY <1>5 DEF Knows, KnowsAt
  <2>. QED BY <1>4, <1>7, <1>8, <1>10, <2>1, TypesKept DEF Goes
<1>12. FileOK'
  BY <1>1, <1>4, <1>7, <1>8, <1>10, FileKept
<1>13. BoundsOK' /\ CountOK' /\ LoneOK'
  BY <1>1, <1>4, <1>5, <1>9, <1>10, QuietBounds, QuietCount, LoneOff
<1>14. CurOK'
  <2>. SUFFICES ASSUME blame' = {} PROVE NumOK' /\ LoadOK' /\ SortOK'
    BY DEF CurOK
  <2>1. NumOK /\ LoadOK /\ SortOK
    BY <1>1, <1>10 DEF CurOK
  <2>2. Len(file') = Len(file)
    BY <1>4, <1>5, <1>7, <2>1 DEF NumOK
  <2>3. NumOK' /\ InFile' = InFile
    BY <1>1, <1>4, <1>5, <2>1, <2>2, NumKept
  <2>4. LoadOK'
    <3>. SUFFICES ASSUME NEW b \in 0 .. InFile' - 1, bcache'[b] # Header(b)'
                         PROVE \E x \in Procs : WillLoad(proc[x], b)'
      BY DEF LoadOK
    <3>1. b \in 0 .. InFile - 1 /\ b \in Nat
      BY <2>3, <1>10, InFileType DEF TypesOK
    <3>2. CASE b = r.b
      <4>1. Place(proc'[p]) \in ToLoad /\ proc'[p].b = b
        BY <1>5, <1>9, <3>2
      <4>. QED BY <4>1 DEF WillLoad, Place
    <3>3. CASE b # r.b
      <4>1. bcache[b] # Header(b)
        BY <1>1, <1>7, <3>1, <3>3
      <4>2. PICK q \in Procs : WillLoad(proc[q], b)
        BY <2>1, <3>1, <4>1 DEF LoadOK
      <4>3. q # p
        BY <1>4, <1>5, <1>9, <4>2 DEF WillLoad
      <4>. QED BY <1>4, <1>5, <2>2, <4>2, <4>3, LoadWaits
    <3>. QED BY <3>2, <3>3
  <2>5. SortOK'
    BY <1>4, <1>9, SortComes
  <2>. QED BY <2>3, <2>4, <2>5
<1>. QED BY <1>11, <1>12, <1>13, <1>14 DEF CacheInv

(* load_b: the header is the one of the file again *)
LEMMA LoadBKeeps ==
  ASSUME CacheInv, NEW p \in Procs, load_b(p)
  PROVE  CacheInv'
<1>1. At(p, "load_b") /\ UNCHANGED <<file, Bnumber, bsorted, ops, Bbusystate, busystate_b, now,
        blame>> /\ Continue(p, proc[p])
  BY DEF load_b, locks, env, ghosts
<1>2. Place(proc[p]) = "load_b" /\ Then["load_b"] = "free_b"
  <2>1. First(Place(proc[p])) = "load_b"
    BY <1>1, Here, AtPlace
  <2>. QED BY <2>1 DEF First, Then
<1>3. On(p, "free_b", proc[p])
  BY <1>1, <1>2, Here, ContinueIs
<1>4. PICK l, r, g : Goes(p, l, "free_b", r, g) /\ Like(g, proc[p]) /\ r = proc[p]
        /\ l = Place(proc[p])
  BY <1>2, <1>3, OnGoes
<1>5. /\ proc \in [Procs -> Recs] /\ l = "load_b" /\ KnowsAt("load_b", r) /\ r.alone # TRUE
         /\ r.b \in Nat
      /\ g.alone = r.alone /\ g.b = r.b /\ g.tries = r.tries /\ g = proc'[p] /\ Place(g) = "free_b"
  BY <1>2, <1>4, Here, NotAlone DEF Like, Goes
<1>6. r.b < MaxBoard /\ r.b \in Slots
  <2>1. r.b < MaxBoard
    BY <1>5 DEF KnowsAt
  <2>. QED BY <1>5, <2>1, Sizes
<1>7. /\ bcache \in [Slots -> Headers] /\ Len(file) \in Nat /\ Len(file') >= Len(file)
         /\ Len(file') = Len(file)
      /\ \A b \in Nat : Header(b)' = Header(b) /\ Header(b) \in Headers
  <2>1. bcache \in [Slots -> Headers] /\ file \in Seq(Headers) /\ Len(file) \in Nat
    BY Here DEF StateOK
  <2>2. \A b \in Nat : Header(b)' = Header(b) /\ Header(b) \in Headers
    BY <1>1, <2>1, Sizes DEF Header
  <2>. QED BY <1>1, <2>1, <2>2
<1>8. bcache' = IF r.b < Len(file) THEN [bcache EXCEPT ![r.b] = Header(r.b)] ELSE bcache
  BY <1>4 DEF load_b
<1>9. /\ bcache' \in [Slots -> Headers]
      /\ \A b \in Slots : bcache'[b] = IF b = r.b /\ r.b < Len(file) THEN Header(b) ELSE bcache[b]
  BY <1>5, <1>6, <1>7, <1>8
<1>10. StateOK'
  BY <1>1, <1>9, Here DEF StateOK
<1>11. "free_b" \notin Adds /\ SortsAt("free_b", g.tries) /\ "load_b" \notin Counting
  BY DEF Adds, SortsAt, Counting
<1>12. TypesOK /\ FileOK /\ BoundsOK /\ CountOK /\ LoneOK /\ CurOK
  BY DEF CacheInv
<1>13. TypesOK'
  <2>1. Knows(g)
    BY <1>5, <1>6 DEF Knows, KnowsAt
  <2>. QED BY <1>4, <1>7, <1>10, <1>12, <2>1, TypesKept DEF Goes
<1>14. FileOK'
  BY <1>4, <1>7, <1>9, <1>10, <1>12, FileKept
<1>15. BoundsOK' /\ CountOK' /\ LoneOK'
  BY <1>1, <1>4, <1>5, <1>11, <1>12, QuietBounds, QuietCount, LoneOff
<1>16. CurOK'
  <2>. SUFFICES ASSUME blame' = {} PROVE NumOK' /\ LoadOK' /\ SortOK'
    BY DEF CurOK
  <2>1. NumOK /\ LoadOK /\ SortOK
    BY <1>1, <1>12 DEF CurOK
  <2>2. NumOK' /\ InFile' = InFile
    BY <1>1, <1>4, <1>5, <1>7, <2>1, NumKept
  <2>3. LoadOK'
    <3>. SUFFICES ASSUME NEW b \in 0 .. InFile' - 1, bcache'[b] # Header(b)'
                         PROVE \E x \in Procs : WillLoad(proc[x], b)'
      BY DEF LoadOK
    <3>1. b \in 0 .. InFile - 1 /\ b \in Nat /\ b < Len(file) /\ b \in Slots
      BY <2>2, <1>12, InFileType, Sizes DEF TypesOK
    <3>2. b # r.b
      BY <1>7, <1>9, <3>1
    <3>3. bcache[b] # Header(b)
      BY <1>7, <1>9, <3>1, <3>2
    <3>4. PICK q \in Procs : WillLoad(proc[q], b)
      BY <2>1, <3>1, <3>3 DEF LoadOK
    <3>5. q # p
      BY <1>4, <1>5, <1>11, <3>2, <3>4 DEF WillLoad
    <3>. QED BY <1>4, <1>5, <1>7, <3>4, <3>5, LoadWaits
  <2>4. SortOK'
    BY <1>4, <1>11, SortComes
  <2>. QED BY <2>2, <2>3, <2>4
<1>. QED BY <1>13, <1>14, <1>15, <1>16 DEF CacheInv

(* fixset: the header is the one of the file, or the repair was overtaken *)
LEMMA FixsetKeeps ==
  ASSUME CacheInv, NEW p \in Procs, fixset(p)
  PROVE  CacheInv'
<1>1. At(p, "fixset") /\ UNCHANGED <<file, Bnumber, bsorted, ops, Bbusystate, busystate_b, now>>
        /\ Continue(p, proc[p])
  BY DEF fixset, locks, env
<1>2. Place(proc[p]) = "fixset" /\ Then["fixset"] = "fixfree"
  <2>1. First(Place(proc[p])) = "fixset"
    BY <1>1, Here, AtPlace
  <2>. QED BY <2>1 DEF First, Then
<1>3. On(p, "fixfree", proc[p])
  BY <1>1, <1>2, Here, ContinueIs
<1>4. PICK l, r, g : Goes(p, l, "fixfree", r, g) /\ Like(g, proc[p]) /\ r = proc[p]
        /\ l = Place(proc[p])
  BY <1>2, <1>3, OnGoes
<1>5. /\ proc \in [Procs -> Recs] /\ l = "fixset" /\ KnowsAt("fixset", r) /\ r.alone # TRUE
         /\ r.b \in Nat /\ r.name \in Headers
      /\ g.alone = r.alone /\ g.b = r.b /\ g.tries = r.tries /\ g = proc'[p] /\ Place(g) = "fixfree"
  BY <1>2, <1>4, Here, NotAlone DEF Like, Goes
<1>6. r.b < MaxBoard /\ r.b \in Slots /\ r.b < Len(file)
  <2>1. r.b < MaxBoard /\ r.b < Len(file)
    BY <1>5 DEF KnowsAt
  <2>. QED BY <1>5, <2>1, Sizes
<1>7. /\ bcache \in [Slots -> Headers] /\ Len(file) \in Nat /\ Len(file') >= Len(file)
         /\ Len(file') = Len(file)
      /\ \A b \in Nat : Header(b)' = Header(b)
  <2>1. bcache \in [Slots -> Headers] /\ Len(file) \in Nat
    BY Here DEF StateOK
  <2>2. \A b \in Nat : Header(b)' = Header(b)
    BY <1>1, HeaderSame
  <2>. QED BY <1>1, <2>1, <2>2
<1>8. bcache' = [bcache EXCEPT ![r.b] = r.name] /\ blame' = IF r.name # Header(r.b)
        THEN blame \cup {"overtaken"} ELSE blame
  BY <1>4 DEF fixset, Blame
<1>9. /\ bcache' \in [Slots -> Headers]
      /\ \A b \in Slots : bcache'[b] = IF b = r.b THEN r.name ELSE bcache[b]
  BY <1>5, <1>6, <1>7, <1>8
<1>10. StateOK' /\ blame \subseteq blame'
  <2>1. StateOK'
    BY <1>1, <1>9, Here DEF StateOK
  <2>. QED BY <1>8, <2>1
<1>11. "fixfree" \notin Adds /\ SortsAt("fixfree", g.tries) /\ "fixset" \notin Counting \cup ToLoad
  BY DEF Adds, SortsAt, Counting, ToLoad
<1>12. TypesOK /\ FileOK /\ BoundsOK /\ CountOK /\ LoneOK /\ CurOK
  BY DEF CacheInv
<1>13. TypesOK'
  <2>1. Knows(g)
    BY <1>5, <1>6 DEF Knows, KnowsAt
  <2>. QED BY <1>4, <1>7, <1>10, <1>12, <2>1, TypesKept DEF Goes
<1>14. FileOK'
  BY <1>4, <1>6, <1>7, <1>9, <1>10, <1>12, FileKept
<1>15. BoundsOK' /\ CountOK' /\ LoneOK'
  BY <1>1, <1>4, <1>5, <1>10, <1>11, <1>12, QuietBounds, QuietCount, LoneOff
<1>16. CurOK'
  <2>. SUFFICES ASSUME blame' = {} PROVE NumOK' /\ LoadOK' /\ SortOK'
    BY DEF CurOK
  <2>1. NumOK /\ LoadOK /\ SortOK /\ r.name = Header(r.b)
    BY <1>8, <1>12 DEF CurOK
  <2>2. NumOK' /\ InFile' = InFile
    BY <1>1, <1>4, <1>5, <1>7, <2>1, NumKept
  <2>3. LoadOK'
    <3>. SUFFICES ASSUME NEW b \in 0 .. InFile' - 1, bcache'[b] # Header(b)'
                         PROVE \E x \in Procs : WillLoad(proc[x], b)'
      BY DEF LoadOK
    <3>1. b \in 0 .. InFile - 1 /\ b \in Nat /\ b < Len(file) /\ b \in Slots
      BY <2>2, <1>12, InFileType, Sizes DEF TypesOK
    <3>2. b # r.b
      BY <1>7, <1>9, <2>1, <3>1
    <3>3. bcache[b] # Header(b)
      BY <1>7, <1>9, <3>1, <3>2
    <3>4. PICK q \in Procs : WillLoad(proc[q], b)
      BY <2>1, <3>1, <3>3 DEF LoadOK
    <3>5. q # p
      BY <1>4, <1>5, <1>11, <3>4 DEF WillLoad
    <3>. QED BY <1>4, <1>5, <1>7, <3>4, <3>5, LoadWaits
  <2>4. SortOK'
    BY <1>4, <1>11, SortComes
  <2>. QED BY <2>2, <2>3, <2>4
<1>. QED BY <1>13, <1>14, <1>15, <1>16 DEF CacheInv

(* sorting what is sorted changes nothing *)
LEMMA SortTwice ==
  ASSUME bcache' = bcache, Bnumber' = Bnumber, bsorted' = Sorted
  PROVE  Sorted' = bsorted'
<1>1. \A n, i : ByName(n, i)' = ByName(n, i)
  BY DEF ByName, Rank, Before
<1>2. Sorted' = [i \in Slots |-> IF i < Bnumber THEN ByName(Bnumber, i) ELSE bsorted'[i]]
  BY DEF Sorted, ByName, Rank, Before
<1>3. \A i \in Slots : bsorted'[i] = IF i < Bnumber THEN ByName(Bnumber, i) ELSE bsorted[i]
  BY DEF Sorted
<1>4. [i \in Slots |-> IF i < Bnumber THEN ByName(Bnumber, i) ELSE bsorted'[i]]
      = [i \in Slots |-> IF i < Bnumber THEN ByName(Bnumber, i) ELSE bsorted[i]]
  BY <1>3
<1>. QED BY <1>2, <1>4 DEF Sorted

(* sort: the index is in order *)
LEMMA SortKeeps ==
  ASSUME CacheInv, NEW p \in Procs, sort(p)
  PROVE  CacheInv'
<1>1. At(p, "sort") /\ UNCHANGED <<file, bcache, Bnumber, ops, Bbusystate, busystate_b, now,
        blame>> /\ Continue(p, proc[p])
      /\ bsorted' = Sorted
  BY DEF sort, locks, env, ghosts
<1>2. Place(proc[p]) = "sort" /\ Then["sort"] = "free"
  <2>1. First(Place(proc[p])) = "sort"
    BY <1>1, Here, AtPlace
  <2>. QED BY <2>1 DEF First, Then
<1>3. On(p, "free", proc[p])
  BY <1>1, <1>2, Here, ContinueIs
<1>4. PICK l, r, g : Goes(p, l, "free", r, g) /\ Like(g, proc[p]) /\ r = proc[p]
        /\ l = Place(proc[p])
  BY <1>2, <1>3, OnGoes
<1>5. /\ proc \in [Procs -> Recs] /\ l = "sort"
      /\ g.alone = r.alone /\ g.b = r.b /\ g.tries = r.tries /\ g = proc'[p] /\ Place(g) = "free"
  BY <1>2, <1>4, Here DEF Like, Goes
<1>6. TypesOK /\ FileOK /\ BoundsOK /\ CountOK /\ LoneOK /\ CurOK
  BY DEF CacheInv
<1>7. StateOK' /\ Len(file') = Len(file) /\ Len(file') >= Len(file)
  <2>1. Sorted \in [Slots -> Slots]
    BY Here, SortedType DEF StateOK
  <2>2. StateOK' /\ Len(file) \in Nat
    BY <1>1, <2>1, Here DEF StateOK
  <2>. QED BY <1>1, <2>2
<1>8. Sorted' = bsorted'
  BY <1>1, SortTwice
<1>9. InFile' = InFile /\ (Loaded' <=> Loaded) /\ \A b : Header(b)' = Header(b)
  BY <1>1, HeaderSame, LoadedSame
<1>10. "free" \notin Adds /\ "sort" \notin Counting \cup ToLoad
  BY DEF Adds, Counting, ToLoad
<1>11. TypesOK'
  <2>1. Knows(g)
    BY <1>5 DEF Knows, KnowsAt
  <2>. QED BY <1>4, <1>6, <1>7, <2>1, TypesKept DEF Goes
<1>12. FileOK'
  BY <1>1, <1>4, <1>6, <1>7, FileKept
<1>13. BoundsOK' /\ CountOK'
  BY <1>1, <1>4, <1>6, <1>10, QuietBounds, QuietCount
<1>14. LoneOK'
  <2>1. CASE r.alone # TRUE
    BY <1>4, <1>5, <1>6, <2>1, LoneOff
  <2>2. CASE r.alone = TRUE
    <3>1. Lone(p)
      BY <1>4, <1>6, <2>2 DEF LoneOK
    <3>2. \A q \in Procs : q # p => proc'[q] = Idle
      BY <1>4, <1>5, <3>1, Unmoved DEF Goes, Lone
    <3>3. Lone(p)'
      <4>1. Place(proc'[p]) = "free" /\ Loaded' /\ Bnumber' = InFile' /\ bsorted' = Sorted'
        BY <1>1, <1>4, <1>5, <1>8, <1>9, <3>1 DEF Lone
      <4>. QED BY <3>2, <4>1 DEF Lone, Place
    <3>4. \A q \in Procs : proc'[q].alone = TRUE => q = p
      BY <3>2, IdleIs
    <3>. QED BY <3>3, <3>4 DEF LoneOK
  <2>. QED BY <2>1, <2>2
<1>15. CurOK'
  <2>. SUFFICES ASSUME blame' = {} PROVE NumOK' /\ LoadOK' /\ SortOK'
    BY DEF CurOK
  <2>1. NumOK /\ LoadOK /\ SortOK
    BY <1>1, <1>6 DEF CurOK
  <2>2. NumOK' /\ InFile' = InFile
    BY <1>1, <1>4, <1>5, <1>7, <2>1, NumKept
  <2>3. LoadOK'
    <3>. SUFFICES ASSUME NEW b \in 0 .. InFile' - 1, bcache'[b] # Header(b)'
                         PROVE \E x \in Procs : WillLoad(proc[x], b)'
      BY DEF LoadOK
    <3>1. b \in 0 .. InFile - 1 /\ bcache[b] # Header(b)
      BY <1>1, <1>9
    <3>2. PICK q \in Procs : WillLoad(proc[q], b)
      BY <2>1, <3>1 DEF LoadOK
    <3>3. q # p
      BY <1>4, <1>5, <1>10, <3>2 DEF WillLoad
    <3>. QED BY <1>4, <1>5, <1>7, <3>2, <3>3, LoadWaits
  <2>4. SortOK'
    BY <1>8 DEF SortOK
  <2>. QED BY <2>2, <2>3, <2>4
<1>. QED BY <1>11, <1>12, <1>13, <1>14, <1>15 DEF CacheInv

(* nobody counts, nobody is about to set the number *)
LEMMA NotCounting ==
  ASSUME CacheInv, NEW q \in Procs
  PROVE  /\ Numbering(q) <=> Place(proc[q]) \in Counting
         /\ ~At(q, "number") => Place(proc[q]) # "number"
<1>1. Place(proc[q]) \in Labels /\ proc[q].todo = List[Place(proc[q])]
  BY Here, PlaceOf
<1>2. Numbering(q) <=> Place(proc[q]) \in Counting
  BY <1>1, NumberingIs DEF Counting
<1>3. ASSUME Place(proc[q]) = "number" PROVE At(q, "number")
  <2>1. proc[q].todo # <<>> /\ Head(proc[q].todo) = First("number")
    BY <1>1, <1>3, ListFact
  <2>. QED BY <2>1 DEF At, First
<1>. QED BY <1>2, <1>3

(* append_record: the file is one board longer than the number, and nobody else
   counts, unless that is blamed *)
LEMMA AppendKeeps ==
  ASSUME CacheInv, NEW p \in Procs, append_record(p)
  PROVE  CacheInv'
<1>1. At(p, "append") /\ UNCHANGED <<bcache, Bnumber, bsorted, ops, Bbusystate, busystate_b,
        now>> /\ Continue(p, proc[p])
      /\ file' = Append(file, proc[p].name)
  BY DEF append_record, cache, locks, env
<1>2. Place(proc[p]) = "append" /\ Then["append"] = "inc1"
  <2>1. First(Place(proc[p])) = "append"
    BY <1>1, Here, AtPlace
  <2>. QED BY <2>1 DEF First, Then
<1>3. On(p, "inc1", proc[p])
  BY <1>1, <1>2, Here, ContinueIs
<1>4. PICK l, r, g : Goes(p, l, "inc1", r, g) /\ Like(g, proc[p]) /\ r = proc[p]
        /\ l = Place(proc[p])
  BY <1>2, <1>3, OnGoes
<1>5. /\ proc \in [Procs -> Recs] /\ l = "append" /\ KnowsAt("append", r) /\ r.alone # TRUE
         /\ r.name \in Headers
      /\ g.alone = r.alone /\ g.b = r.b /\ g.tries = r.tries /\ g = proc'[p] /\ Place(g) = "inc1"
  BY <1>2, <1>4, Here, NotAlone DEF Like, Goes
<1>6. r.n < MaxBoard
  BY <1>5 DEF KnowsAt
<1>7. /\ file \in Seq(Headers) /\ file' \in Seq(Headers) /\ Len(file) \in Nat
         /\ Len(file') = Len(file) + 1
      /\ Len(file') >= Len(file) /\ Len(file) >= 2 /\ Len(file') >= 2
      /\ \A b \in Nat : b < Len(file) => Header(b)' = Header(b)
  <2>1. file \in Seq(Headers) /\ Len(file) \in Nat /\ Len(file) >= 2
    BY Here DEF StateOK
  <2>2. PICK a \in Headers : a = proc[p].name
    BY <1>4, <1>5
  <2>3. file' = Append(file, a)
    BY <1>1, <2>2
  <2>4. /\ file' \in Seq(Headers) /\ Len(file') = Len(file) + 1
        /\ \A i \in 1 .. Len(file) : file'[i] = file[i]
    BY <2>1, <2>3
  <2>5. \A b \in Nat : b < Len(file) => Header(b)' = Header(b)
    <3>. SUFFICES ASSUME NEW b \in Nat, b < Len(file) PROVE Header(b)' = Header(b)
      OBVIOUS
    <3>1. b + 1 \in 1 .. Len(file) /\ b < Len(file')
      BY <2>1, <2>4
    <3>. QED BY <2>4, <3>1 DEF Header
  <2>. QED BY <2>1, <2>4, <2>5
<1>8. StateOK'
  BY <1>1, <1>7, Here DEF StateOK
<1>9. "inc1" \in Adds /\ "append" \in Adds /\ ~SortsAt("append", r.tries)
        /\ "append" \notin ToLoad \cup Counting /\ "inc1" \in Counting
  BY DEF Adds, ToLoad, SortsAt, Counting
<1>10. TypesOK /\ FileOK /\ BoundsOK /\ CountOK /\ LoneOK /\ CurOK
  BY DEF CacheInv
<1>11. TypesOK'
  <2>1. Knows(g)
    BY <1>5 DEF Knows, KnowsAt
  <2>. QED BY <1>4, <1>7, <1>8, <1>10, <2>1, TypesKept DEF Goes
<1>12. FileOK'
  BY <1>1, <1>4, <1>7, <1>8, <1>10, FileKept
<1>13. BoundsOK' /\ LoneOK'
  BY <1>1, <1>4, <1>5, <1>9, <1>10, QuietBounds, LoneOff
<1>14. blame \subseteq blame'
  BY DEF append_record, Blame
<1>15. ASSUME "counted" \notin blame'
       PROVE  /\ Bnumber = r.n
              /\ \A q \in Procs : Place(proc[q]) \notin Counting \cup {"number"}
              /\ \A q \in Procs : Place(proc'[q]) \in Counting \cup {"number"} => q = p
  <2>1. Bnumber = r.n /\ \A q \in Procs \ {p} : ~Numbering(q) /\ ~At(q, "number")
    BY <1>4, <1>15 DEF append_record, Blame
  <2>2. \A q \in Procs \ {p} : Place(proc[q]) \notin Counting \cup {"number"}
    BY <2>1, NotCounting
  <2>3. \A q \in Procs : Place(proc[q]) \notin Counting \cup {"number"}
    BY <1>2, <1>9, <2>2
  <2>4. \A q \in Procs : q # p => proc'[q] = proc[q]
    BY <1>4, <1>5, Unmoved DEF Goes
  <2>. QED BY <2>1, <2>3, <2>4
<1>16. CountOK'
  <2>. SUFFICES ASSUME "counted" \notin blame' PROVE CountOK'
    BY DEF CountOK
  <2>1. Bnumber < MaxBoard /\ Bnumber <= MaxBoard
    BY <1>6, <1>15, NumberType
  <2>2. \A q \in Procs : Place(proc'[q]) # "inc2"
    BY <1>5, <1>15 DEF Counting
  <2>3. \A q, x \in Procs : Place(proc'[q]) \in Counting
          /\ Place(proc'[x]) \in Counting \cup {"number"} => q = x
    BY <1>15
  <2>. QED BY <1>1, <2>1, <2>2, <2>3 DEF CountOK, Place
<1>17. CurOK'
  <2>. SUFFICES ASSUME blame' = {} PROVE NumOK' /\ LoadOK' /\ SortOK'
    BY DEF CurOK
  <2>1. NumOK /\ LoadOK /\ SortOK
    BY <1>10, <1>14 DEF CurOK
  <2>2. /\ Bnumber = r.n
        /\ \A q \in Procs : Place(proc[q]) \notin Counting \cup {"number"}
        /\ \A q \in Procs : Place(proc'[q]) \in Counting \cup {"number"} => q = p
    BY <1>15
  <2>3. Bnumber = Len(file) /\ Len(file) < MaxBoard
    <3>1. Bnumber = InFile
      BY <2>1, <2>2 DEF NumOK, Counting
    <3>. QED BY <1>6, <1>7, <2>2, <3>1, Sizes DEF InFile
  <2>4. InFile' = Len(file) + 1
    BY <1>7, <2>3, Sizes DEF InFile
  <2>5. NumOK'
    <3>1. \A q \in Procs : Place(proc'[q]) \notin {"inc2", "num", "number"}
      BY <1>5, <2>2 DEF Counting
    <3>2. ASSUME NEW q \in Procs, Place(proc'[q]) = "substitute" PROVE proc'[q].b < Len(file')
      <4>1. q # p
        BY <1>5, <3>2
      <4>2. proc'[q] = proc[q]
        BY <1>4, <1>5, <4>1, Unmoved DEF Goes
      <4>3. proc[q].b < Len(file) /\ proc[q].b \in Nat
        BY <2>1, <3>2, <4>2, Here DEF NumOK
      <4>. QED BY <1>7, <4>2, <4>3
    <3>3. Bnumber' = Len(file') - 1
      BY <1>1, <1>7, <2>3
    <3>4. Place(proc'[p]) = "inc1"
      BY <1>5
    <3>. QED BY <3>1, <3>2, <3>3, <3>4 DEF NumOK, Place
  <2>6. LoadOK'
    <3>. SUFFICES ASSUME NEW b \in 0 .. InFile' - 1, bcache'[b] # Header(b)'
                         PROVE \E x \in Procs : WillLoad(proc[x], b)'
      BY DEF LoadOK
    <3>1. b \in Nat /\ (b < Len(file) \/ b = Len(file))
      BY <1>7, <2>4
    <3>2. CASE b = Len(file)
      <4>1. Place(proc'[p]) \in Counting /\ b = Len(file') - 1
        BY <1>5, <1>7, <1>9, <3>2
      <4>. QED BY <4>1 DEF WillLoad, Place
    <3>3. CASE b < Len(file)
      <4>1. bcache[b] # Header(b)
        BY <1>1, <1>7, <3>1, <3>3
      <4>2. b \in 0 .. InFile - 1
        BY <1>7, <2>3, <3>1, <3>3 DEF InFile
      <4>3. PICK q \in Procs : WillLoad(proc[q], b)
        BY <2>1, <4>1, <4>2 DEF LoadOK
      <4>4. Place(proc[q]) \in ToLoad /\ proc[q].b = b
        BY <2>2, <4>3 DEF WillLoad
      <4>5. q # p
        BY <1>2, <1>9, <4>4
      <4>6. proc'[q] = proc[q]
        BY <1>4, <1>5, <4>5, Unmoved DEF Goes
      <4>. QED BY <4>4, <4>6 DEF WillLoad, Place
    <3>. QED BY <3>1, <3>2, <3>3
  <2>7. SortOK'
    BY <1>1, <1>4, <1>5, <1>9, <2>1, SortStays
  <2>. QED BY <2>5, <2>6, <2>7
<1>. QED BY <1>11, <1>12, <1>13, <1>16, <1>17 DEF CacheInv

(* inc2: the number is that of the file again *)
LEMMA Inc2Keeps ==
  ASSUME CacheInv, NEW p \in Procs, inc2(p)
  PROVE  CacheInv'
<1>1. At(p, "inc2") /\ UNCHANGED <<file, bcache, bsorted, ops, Bbusystate, busystate_b, now,
        blame>> /\ Continue(p, proc[p])
      /\ Bnumber' = proc[p].n + 1
  BY DEF inc2, locks, env, ghosts
<1>2. Place(proc[p]) = "inc2" /\ Then["inc2"] = "num"
  <2>1. First(Place(proc[p])) = "inc2"
    BY <1>1, Here, AtPlace
  <2>. QED BY <2>1 DEF First, Then
<1>3. On(p, "num", proc[p])
  BY <1>1, <1>2, Here, ContinueIs
<1>4. PICK l, r, g : Goes(p, l, "num", r, g) /\ Like(g, proc[p]) /\ r = proc[p]
        /\ l = Place(proc[p])
  BY <1>2, <1>3, OnGoes
<1>5. /\ proc \in [Procs -> Recs] /\ l = "inc2" /\ r.alone # TRUE /\ r.n \in Nat
      /\ g.alone = r.alone /\ g.b = r.b /\ g.tries = r.tries /\ g = proc'[p] /\ Place(g) = "num"
  BY <1>2, <1>4, Here, NotAlone DEF Like, Goes
<1>6. TypesOK /\ FileOK /\ BoundsOK /\ CountOK /\ LoneOK /\ CurOK
  BY DEF CacheInv
<1>7. "num" \notin Adds /\ "inc2" \in Adds /\ SortsAt("num", g.tries) /\ "inc2" \notin ToLoad
        /\ "inc2" \in Counting /\ "num" \in Counting
  BY DEF Adds, ToLoad, SortsAt, Counting
<1>8. \A q \in Procs : q # p => proc'[q] = proc[q]
  BY <1>4, <1>5, Unmoved DEF Goes
<1>9. PICK k, n \in Nat : k = Cardinality(Adding) /\ n = Cardinality(Adding') /\ n = k - 1
  BY <1>4, <1>5, <1>7, AddingLess, AddingType DEF Goes
<1>10. PICK o \in Nat : o = ops /\ o <= MaxOps
  BY Here, Sizes DEF StateOK
<1>11. k <= o /\ r.n + k <= MaxBoard + o /\ \A q \in Procs : Place(proc[q]) = "inc2"
         => proc[q].n + k <= MaxBoard + o
  BY <1>2, <1>4, <1>6, <1>9, <1>10 DEF BoundsOK
<1>12. StateOK' /\ Len(file') = Len(file) /\ Len(file') >= Len(file) /\ Len(file) \in Nat
  <2>1. r.n + 1 \in 1 .. Most
    BY <1>5, <1>9, <1>10, <1>11, Sizes DEF Most
  <2>2. StateOK' /\ Len(file) \in Nat
    BY <1>1, <1>4, <2>1, Here DEF StateOK
  <2>. QED BY <1>1, <2>2
<1>13. TypesOK'
  <2>1. Knows(g)
    BY <1>5 DEF Knows, KnowsAt
  <2>. QED BY <1>4, <1>6, <1>12, <2>1, TypesKept DEF Goes
<1>14. FileOK' /\ LoneOK'
  BY <1>1, <1>4, <1>5, <1>6, <1>12, FileKept, LoneOff
<1>15. BoundsOK'
  <2>1. \A q \in Procs : Place(proc'[q]) = "inc2" => proc'[q].n + n <= MaxBoard + o
    <3>. SUFFICES ASSUME NEW q \in Procs, Place(proc'[q]) = "inc2"
                         PROVE proc'[q].n + n <= MaxBoard + o
      OBVIOUS
    <3>1. q # p
      BY <1>5
    <3>2. proc'[q].n + k <= MaxBoard + o /\ proc'[q].n \in Nat
      BY <1>8, <1>11, <3>1, Here
    <3>3. PICK x, y \in Nat : x = proc'[q].n /\ y = MaxBoard
      BY <3>2, NumberType
    <3>4. n <= k
      BY <1>9
    <3>5. x + k <= y + o
      BY <3>2, <3>3, Zenon
    <3>6. x + n <= y + o
      BY <3>4, <3>5
    <3>. QED BY <3>3, <3>6, Zenon
  <2>2. n <= o /\ r.n + 1 + n <= MaxBoard + o
    BY <1>5, <1>9, <1>11, Sizes
  <2>. QED BY <1>1, <1>4, <1>9, <1>10, <2>1, <2>2 DEF BoundsOK, Place
<1>16. ASSUME "counted" \notin blame'
       PROVE  /\ r.n < MaxBoard /\ r.n + 1 <= MaxBoard
              /\ \A q \in Procs : q # p => Place(proc[q]) \notin Counting \cup {"number"}
  <2>1. "counted" \notin blame
    BY <1>1, <1>16
  <2>2. r.n < MaxBoard /\ \A q \in Procs : Place(proc[q]) \in Counting \cup {"number"} => p = q
    BY <1>2, <1>4, <1>6, <1>7, <2>1 DEF CountOK
  <2>. QED BY <1>5, <2>2, Sizes
<1>17. CountOK'
  <2>. SUFFICES ASSUME "counted" \notin blame' PROVE CountOK'
    BY DEF CountOK
  <2>1. Bnumber' <= MaxBoard
    BY <1>1, <1>4, <1>16
  <2>2. \A q \in Procs : Place(proc'[q]) \in Counting \cup {"number"} => q = p
    BY <1>8, <1>16
  <2>3. \A q \in Procs : Place(proc'[q]) \notin {"inc1", "inc2"}
    BY <1>5, <2>2 DEF Counting
  <2>. QED BY <2>1, <2>2, <2>3 DEF CountOK, Place
<1>18. CurOK'
  <2>. SUFFICES ASSUME blame' = {} PROVE NumOK' /\ LoadOK' /\ SortOK'
    BY DEF CurOK
  <2>1. NumOK /\ LoadOK /\ SortOK
    BY <1>1, <1>6 DEF CurOK
  <2>2. /\ r.n + 1 <= MaxBoard
        /\ \A q \in Procs : q # p => Place(proc[q]) \notin Counting \cup {"number"}
    BY <1>16
  <2>3. Bnumber' = Len(file)
    <3>1. Bnumber = Len(file) - 1 /\ r.n = Bnumber
      BY <1>2, <1>4, <2>1 DEF NumOK
    <3>. QED BY <1>1, <1>4, <1>12, <3>1
  <2>4. InFile' = Len(file') /\ InFile' = InFile
    BY <1>1, <1>4, <1>12, <2>2, <2>3, Sizes DEF InFile
  <2>5. NumOK'
    <3>1. \A q \in Procs : Place(proc'[q]) \notin {"inc1", "inc2", "number"}
      BY <1>5, <1>8, <2>2 DEF Counting
    <3>2. ASSUME NEW q \in Procs, Place(proc'[q]) = "substitute" PROVE proc'[q].b < Len(file')
      <4>1. q # p
        BY <1>5, <3>2
      <4>. QED BY <1>8, <1>12, <2>1, <3>2, <4>1 DEF NumOK
    <3>. QED BY <1>12, <2>3, <2>4, <3>1, <3>2 DEF NumOK, Place
  <2>6. LoadOK'
    <3>. SUFFICES ASSUME NEW b \in 0 .. InFile' - 1, bcache'[b] # Header(b)'
                         PROVE \E x \in Procs : WillLoad(proc[x], b)'
      BY DEF LoadOK
    <3>1. b \in 0 .. InFile - 1 /\ bcache[b] # Header(b)
      BY <1>1, <2>4, HeaderSame
    <3>2. PICK q \in Procs : WillLoad(proc[q], b)
      BY <2>1, <3>1 DEF LoadOK
    <3>3. CASE q # p
      BY <1>4, <1>5, <1>12, <3>2, <3>3, LoadWaits
    <3>4. CASE q = p
      <4>1. b = Len(file) - 1
        BY <1>2, <1>7, <3>2, <3>4 DEF WillLoad
      <4>2. Place(proc'[p]) \in Counting /\ b = Len(file') - 1
        BY <1>5, <1>7, <1>12, <4>1
      <4>. QED BY <4>2 DEF WillLoad, Place
    <3>. QED BY <3>3, <3>4
  <2>7. SortOK'
    BY <1>4, <1>7, SortComes
  <2>. QED BY <2>5, <2>6, <2>7
<1>. QED BY <1>13, <1>14, <1>15, <1>17, <1>18 DEF CacheInv

(* load: every header is the one of the file *)
LEMMA LoadKeeps ==
  ASSUME CacheInv, NEW p \in Procs, load(p)
  PROVE  CacheInv'
<1>1. At(p, "load") /\ UNCHANGED <<file, Bnumber, bsorted, ops, Bbusystate, busystate_b, now>>
  BY DEF load, locks, env
<1>2. Place(proc[p]) = "load" /\ Then["load"] = "number"
  <2>1. First(Place(proc[p])) = "load"
    BY <1>1, Here, AtPlace
  <2>. QED BY <2>1 DEF First, Then
<1>3. PICK n \in Nat : n = InFile /\ n <= MaxBoard /\ n > 0 /\ n <= Len(file) /\ Len(file) \in Nat
  BY Here, InFileType, Sizes
<1>4. PICK s : s = [proc[p] EXCEPT !.n = n, !.alone = Alone(p)]
  OBVIOUS
<1>5. Alone(p) \in BOOLEAN
  BY DEF Alone
<1>6. s \in Recs /\ s.todo = proc[p].todo /\ s.n = n /\ s.alone = Alone(p)
  BY <1>3, <1>4, <1>5, Here DEF Recs
<1>7. Continue(p, s) /\ bcache' = [b \in Slots |-> IF b < n THEN Header(b) ELSE bcache[b]]
      /\ blame' = IF \E q \in Procs : Numbering(q) THEN blame \cup {"counted"} ELSE blame
  BY <1>3, <1>4 DEF load, InFile, Blame
<1>8. On(p, "number", s)
  BY <1>1, <1>2, <1>6, <1>7, Here, ContinueIs
<1>9. PICK l, r, g : Goes(p, l, "number", r, g) /\ Like(g, s) /\ r = proc[p] /\ l = Place(proc[p])
  BY <1>2, <1>8, OnGoes
<1>10. /\ proc \in [Procs -> Recs] /\ l = "load" /\ g.n = n /\ g.alone = Alone(p)
          /\ g = proc'[p] /\ Place(g) = "number"
  BY <1>2, <1>6, <1>9, Here DEF Like, Goes
<1>11. TypesOK /\ FileOK /\ BoundsOK /\ CountOK /\ LoneOK /\ CurOK
  BY DEF CacheInv
<1>12. "number" \notin Adds /\ SortsAt("number", g.tries) /\ "number" \notin Counting
  BY DEF Adds, SortsAt, Counting
<1>13. \A q \in Procs : q # p => proc'[q] = proc[q]
  BY <1>9, <1>10, Unmoved DEF Goes
<1>14. \A b \in Nat : Header(b)' = Header(b) /\ Header(b) \in Headers
  <2>1. file \in Seq(Headers) /\ Len(file) \in Nat
    BY Here DEF StateOK
  <2>. QED BY <1>1, <2>1, Sizes DEF Header
<1>15. \A b \in Slots : b \in Nat
  BY Sizes
<1>16. StateOK' /\ Len(file') = Len(file) /\ Len(file') >= Len(file)
  <2>1. bcache \in [Slots -> Headers]
    BY Here DEF StateOK
  <2>2. bcache' \in [Slots -> Headers]
    BY <1>7, <1>14, <1>15, <2>1
  <2>3. StateOK'
    BY <1>1, <2>2, Here DEF StateOK
  <2>. QED BY <1>1, <1>3, <2>3
<1>17. TypesOK'
  <2>1. Knows(g)
    BY <1>3, <1>10 DEF Knows, KnowsAt
  <2>. QED BY <1>9, <1>11, <1>16, <2>1, TypesKept DEF Goes
<1>18. FileOK'
  <2>1. \A b \in Slots : bcache'[b] # bcache[b] => b < Len(file)
    BY <1>3, <1>7, <1>15
  <2>. QED BY <1>9, <1>11, <1>16, <2>1, FileKept
<1>19. BoundsOK'
  BY <1>1, <1>9, <1>11, <1>12, QuietBounds
<1>20. blame \subseteq blame'
  BY <1>7
<1>21. Loaded' /\ InFile' = InFile /\ \A b \in 0 .. InFile - 1 : bcache'[b] = Header(b)'
  <2>1. InFile' = InFile
    BY <1>1, HeaderSame
  <2>2. \A b \in 0 .. InFile - 1 : b \in Slots /\ b < n
    BY <1>3, Sizes
  <2>3. \A b \in 0 .. InFile - 1 : bcache'[b] = Header(b)'
    BY <1>7, <1>14, <1>15, <2>2
  <2>. QED BY <2>1, <2>3 DEF Loaded
<1>22. LoneOK'
  <2>1. CASE ~Alone(p)
    BY <1>9, <1>10, <1>11, <2>1, LoneOff
  <2>2. CASE Alone(p)
    <3>1. \A q \in Procs : q # p => proc'[q] = Idle
      BY <1>13, <2>2 DEF Alone
    <3>2. Lone(p)'
      <4>1. Place(proc'[p]) = "number" /\ proc'[p].n = InFile'
        BY <1>3, <1>10, <1>21
      <4>. QED BY <1>21, <3>1, <4>1 DEF Lone, Place
    <3>3. \A q \in Procs : proc'[q].alone = TRUE => q = p
      BY <3>1, IdleIs
    <3>. QED BY <3>2, <3>3 DEF LoneOK
  <2>. QED BY <2>1, <2>2
<1>23. CountOK'
  <2>. SUFFICES ASSUME "counted" \notin blame' PROVE CountOK'
    BY DEF CountOK
  <2>1. "counted" \notin blame /\ \A q \in Procs : Place(proc[q]) \notin Counting
    BY <1>7, NotCounting
  <2>2. \A q \in Procs : Place(proc'[q]) \notin Counting
    BY <1>10, <1>12, <1>13, <2>1
  <2>3. Bnumber <= MaxBoard
    BY <1>11, <2>1 DEF CountOK
  <2>4. \A q \in Procs : Place(proc'[q]) \notin {"inc1", "inc2"}
    BY <2>2 DEF Counting
  <2>. QED BY <1>1, <2>2, <2>3, <2>4 DEF CountOK, Place
<1>24. CurOK'
  <2>. SUFFICES ASSUME blame' = {} PROVE NumOK' /\ LoadOK' /\ SortOK'
    BY DEF CurOK
  <2>1. NumOK
    BY <1>11, <1>20 DEF CurOK
  <2>2. NumOK'
    BY <1>1, <1>3, <1>9, <1>10, <1>16, <2>1, NumKept
  <2>3. LoadOK'
    BY <1>21 DEF LoadOK
  <2>4. SortOK'
    BY <1>9, <1>12, SortComes
  <2>. QED BY <2>2, <2>3, <2>4
<1>. QED BY <1>17, <1>18, <1>19, <1>22, <1>23, <1>24 DEF CacheInv

(* load_fails: nothing is loaded, and blame says so *)
LEMMA LoadFailsKeeps ==
  ASSUME CacheInv, NEW p \in Procs, load_fails(p)
  PROVE  CacheInv'
<1>1. PICK s : s = [proc[p] EXCEPT !.alone = FALSE]
  OBVIOUS
<1>2. At(p, "load") /\ UNCHANGED <<file, bcache, Bnumber, bsorted, ops, Bbusystate, busystate_b, now>>
      /\ blame' = blame \cup {"unread"} /\ Goto(p, s, List.refree)
  BY <1>1, Lists DEF load_fails, cache, locks, env, Blame
<1>3. Place(proc[p]) = "load"
  <2>1. First(Place(proc[p])) = "load"
    BY <1>2, Here, AtPlace
  <2>. QED BY <2>1 DEF First
<1>4. s \in Recs /\ s.alone = FALSE
  BY <1>1, Here DEF Recs
<1>5. StateOK'
  BY <1>2, Here DEF StateOK
<1>6. On(p, "refree", s)
  <2>1. "refree" \in Labels
    BY LabelsAre
  <2>. QED BY <1>2, <1>4, <2>1, Here, GotoIs
<1>7. KnowsAt("refree", s) /\ "refree" \notin Adds
  BY DEF KnowsAt, Adds
<1>. QED BY <1>2, <1>3, <1>4, <1>5, <1>6, <1>7, QuietOn

(* load_b_fails: neither is the header *)
LEMMA LoadBFailsKeeps ==
  ASSUME CacheInv, NEW p \in Procs, load_b_fails(p)
  PROVE  CacheInv'
<1>1. PICK r : r = proc[p]
  OBVIOUS
<1>2. At(p, "load_b") /\ UNCHANGED <<file, bcache, Bnumber, bsorted, ops, Bbusystate, busystate_b, now>>
      /\ blame' = blame \cup {"unread"} /\ Continue(p, r)
  BY <1>1 DEF load_b_fails, cache, locks, env, Blame
<1>3. Place(r) = "load_b" /\ Then["load_b"] = "free_b"
  <2>1. First(Place(r)) = "load_b"
    BY <1>1, <1>2, Here, AtPlace
  <2>. QED BY <2>1 DEF First, Then
<1>4. r \in Recs /\ r.alone # TRUE /\ KnowsAt("load_b", r)
  BY <1>1, <1>3, Here, NotAlone
<1>5. StateOK'
  BY <1>2, Here DEF StateOK
<1>6. On(p, "free_b", r)
  BY <1>1, <1>2, <1>3, <1>4, Here, ContinueIs
<1>7. KnowsAt("free_b", r) /\ "free_b" \notin Adds
  BY <1>4 DEF KnowsAt, Adds
<1>. QED BY <1>1, <1>2, <1>3, <1>4, <1>5, <1>6, <1>7, QuietOn

(* number: the number is the one that load found, and nobody counts meanwhile *)
LEMMA NumberKeeps ==
  ASSUME CacheInv, NEW p \in Procs, number(p)
  PROVE  CacheInv'
<1>1. At(p, "number") /\ UNCHANGED <<file, bcache, bsorted, ops, Bbusystate, busystate_b, now,
        blame>> /\ Continue(p, proc[p])
      /\ Bnumber' = proc[p].n
  BY DEF number, locks, env, ghosts
<1>2. Place(proc[p]) = "number" /\ Then["number"] = "refree"
  <2>1. First(Place(proc[p])) = "number"
    BY <1>1, Here, AtPlace
  <2>. QED BY <2>1 DEF First, Then
<1>3. On(p, "refree", proc[p])
  BY <1>1, <1>2, Here, ContinueIs
<1>4. PICK l, r, g : Goes(p, l, "refree", r, g) /\ Like(g, proc[p]) /\ r = proc[p]
        /\ l = Place(proc[p])
  BY <1>2, <1>3, OnGoes
<1>5. /\ proc \in [Procs -> Recs] /\ l = "number" /\ r.n \in Nat /\ KnowsAt("number", r)
      /\ g.alone = r.alone /\ g.b = r.b /\ g.tries = r.tries /\ g = proc'[p] /\ Place(g) = "refree"
  BY <1>2, <1>4, Here DEF Like, Goes
<1>6. TypesOK /\ FileOK /\ BoundsOK /\ CountOK /\ LoneOK /\ CurOK
  BY DEF CacheInv
<1>7. "refree" \notin Adds \cup Counting /\ SortsAt("refree", g.tries)
        /\ "number" \notin ToLoad \cup Counting
  BY DEF Adds, ToLoad, SortsAt, Counting
<1>8. \A q \in Procs : q # p => proc'[q] = proc[q]
  BY <1>4, <1>5, Unmoved DEF Goes
<1>9. r.n <= MaxBoard /\ r.n > 0
  BY <1>5 DEF KnowsAt
<1>10. StateOK' /\ Len(file') = Len(file) /\ Len(file') >= Len(file) /\ Len(file) \in Nat
  <2>1. r.n \in 1 .. Most
    BY <1>5, <1>9, Sizes
  <2>2. StateOK' /\ Len(file) \in Nat
    BY <1>1, <1>4, <2>1, Here DEF StateOK
  <2>. QED BY <1>1, <2>2
<1>11. TypesOK'
  <2>1. Knows(g)
    BY <1>5 DEF Knows, KnowsAt
  <2>. QED BY <1>4, <1>6, <1>10, <2>1, TypesKept DEF Goes
<1>12. FileOK'
  BY <1>1, <1>4, <1>6, <1>10, FileKept
<1>13. PICK k, n \in Nat : k = Cardinality(Adding) /\ n = Cardinality(Adding') /\ n <= k
  BY <1>4, <1>5, <1>7, AddingLess, AddingType DEF Goes
<1>14. PICK o \in Nat : o = ops
  BY Here, Sizes DEF StateOK
<1>15. BoundsOK'
  <2>1. k <= o /\ \A q \in Procs : Place(proc[q]) = "inc2" => proc[q].n + k <= MaxBoard + o
    BY <1>6, <1>13, <1>14 DEF BoundsOK
  <2>2. \A q \in Procs : Place(proc'[q]) = "inc2" => proc'[q].n + n <= MaxBoard + o
    <3>. SUFFICES ASSUME NEW q \in Procs, Place(proc'[q]) = "inc2"
                         PROVE proc'[q].n + n <= MaxBoard + o
      OBVIOUS
    <3>1. q # p
      BY <1>5
    <3>2. proc'[q].n + k <= MaxBoard + o /\ proc'[q].n \in Nat
      BY <1>8, <2>1, <3>1, Here
    <3>3. PICK x, y \in Nat : x = proc'[q].n /\ y = MaxBoard
      BY <3>2, NumberType
    <3>4. n <= k
      BY <1>13
    <3>5. x + k <= y + o
      BY <3>2, <3>3, Zenon
    <3>6. x + n <= y + o
      BY <3>4, <3>5
    <3>. QED BY <3>3, <3>6, Zenon
  <2>3. n <= o /\ r.n + n <= MaxBoard + o
    BY <1>5, <1>9, <1>13, <2>1, Sizes
  <2>. QED BY <1>1, <1>4, <1>13, <1>14, <2>2, <2>3 DEF BoundsOK, Place
<1>16. ASSUME "counted" \notin blame' PROVE \A q \in Procs : Place(proc[q]) \notin Counting
              /\ Place(proc'[q]) \notin Counting
  <2>1. \A q \in Procs : Place(proc[q]) \in Counting => q = p
    BY <1>1, <1>2, <1>6, <1>16 DEF CountOK
  <2>2. \A q \in Procs : Place(proc[q]) \notin Counting
    BY <1>2, <1>7, <2>1
  <2>. QED BY <1>5, <1>7, <1>8, <2>2
<1>17. CountOK'
  <2>. SUFFICES ASSUME "counted" \notin blame' PROVE CountOK'
    BY DEF CountOK
  <2>1. \A q \in Procs : Place(proc'[q]) \notin Counting
    BY <1>16
  <2>2. Bnumber' <= MaxBoard
    BY <1>1, <1>4, <1>9
  <2>3. \A q \in Procs : Place(proc'[q]) \notin {"inc1", "inc2"}
    BY <2>1 DEF Counting
  <2>. QED BY <2>1, <2>2, <2>3 DEF CountOK, Place
<1>18. InFile' = InFile /\ (Loaded' <=> Loaded) /\ \A b : Header(b)' = Header(b)
  BY <1>1, HeaderSame, LoadedSame
<1>19. LoneOK'
  <2>1. CASE r.alone # TRUE
    BY <1>4, <1>5, <1>6, <2>1, LoneOff
  <2>2. CASE r.alone = TRUE
    <3>1. Lone(p)
      BY <1>4, <1>6, <2>2 DEF LoneOK
    <3>2. \A q \in Procs : q # p => proc'[q] = Idle
      BY <1>8, <3>1 DEF Lone
    <3>3. Lone(p)'
      <4>1. Place(proc'[p]) = "refree" /\ Loaded' /\ Bnumber' = InFile'
        BY <1>1, <1>2, <1>5, <1>18, <3>1 DEF Lone
      <4>. QED BY <3>2, <4>1 DEF Lone, Place
    <3>4. \A q \in Procs : proc'[q].alone = TRUE => q = p
      BY <3>2, IdleIs
    <3>. QED BY <3>3, <3>4 DEF LoneOK
  <2>. QED BY <2>1, <2>2
<1>20. CurOK'
  <2>. SUFFICES ASSUME blame' = {} PROVE NumOK' /\ LoadOK' /\ SortOK'
    BY DEF CurOK
  <2>1. NumOK /\ LoadOK /\ SortOK
    BY <1>1, <1>6 DEF CurOK
  <2>2. NumOK'
    <3>1. \A q \in Procs : Place(proc'[q]) \notin {"inc1", "inc2", "num"}
      BY <1>16 DEF Counting
    <3>2. \A q \in Procs : Place(proc'[q]) = "number" => proc'[q].n = InFile'
      BY <1>5, <1>8, <1>18, <2>1 DEF NumOK
    <3>3. \A q \in Procs : Place(proc'[q]) = "substitute" => proc'[q].b < Len(file')
      BY <1>5, <1>8, <1>10, <2>1 DEF NumOK
    <3>4. Bnumber' = InFile'
      BY <1>1, <1>2, <1>18, <2>1 DEF NumOK
    <3>. QED BY <3>1, <3>2, <3>3, <3>4 DEF NumOK, Place
  <2>3. LoadOK'
    <3>. SUFFICES ASSUME NEW b \in 0 .. InFile' - 1, bcache'[b] # Header(b)'
                         PROVE \E x \in Procs : WillLoad(proc[x], b)'
      BY DEF LoadOK
    <3>1. b \in 0 .. InFile - 1 /\ bcache[b] # Header(b)
      BY <1>1, <1>18
    <3>2. PICK q \in Procs : WillLoad(proc[q], b)
      BY <2>1, <3>1 DEF LoadOK
    <3>3. q # p
      BY <1>2, <1>7, <3>2 DEF WillLoad
    <3>. QED BY <1>4, <1>5, <1>10, <3>2, <3>3, LoadWaits
  <2>4. SortOK'
    BY <1>4, <1>7, SortComes
  <2>. QED BY <2>2, <2>3, <2>4
<1>. QED BY <1>11, <1>12, <1>15, <1>17, <1>19, <1>20 DEF CacheInv

(* free: a reload that stayed alone leaves nothing to blame *)
LEMMA FreeKeeps ==
  ASSUME CacheInv, NEW p \in Procs, free(p)
  PROVE  CacheInv'
<1>1. At(p, "free") /\ UNCHANGED <<file, bcache, Bnumber, bsorted, ops, busystate_b, now>>
        /\ Continue(p, proc[p]) /\ Bbusystate' = 0
  BY DEF free, cache, env
<1>2. PICK r, l : r = proc[p] /\ l = Place(proc[p])
  OBVIOUS
<1>3. l \in {"free", "refree"} /\ r \in Recs /\ r.todo = List[l]
  <2>1. First(l) = "free"
    BY <1>1, <1>2, Here, AtPlace
  <2>2. r.todo = List[l]
    BY <1>2, Here, PlaceOf
  <2>. QED BY <1>2, <2>1, <2>2, Here DEF First
<1>4. Then["free"] = "idle" /\ Then["refree"] = "lock"
  BY DEF Then
<1>5. StateOK'
  BY <1>1, Here DEF StateOK
<1>6. CASE l = "refree"
  <2>1. r.todo # <<"free">>
    BY <1>3, <1>6, Lists, ListsDiffer, LabelsAre
  <2>2. blame' = blame
    BY <1>2, <2>1 DEF free
  <2>3. On(p, "lock", r)
    BY <1>1, <1>2, <1>4, <1>6, Here, ContinueIs
  <2>4. KnowsAt("lock", r) /\ "lock" \notin Adds /\ "refree" \notin ToLoad /\ SortsAt("lock",
          r.tries)
    BY DEF KnowsAt, Adds, ToLoad, SortsAt
  <2>. QED BY <1>1, <1>2, <1>5, <1>6, <2>2, <2>3, <2>4, QuietOn
<1>7. CASE l = "free" /\ r.alone # TRUE
  <2>1. blame' = blame
    BY <1>2, <1>7 DEF free
  <2>2. Off(p)
    BY <1>1, <1>2, <1>4, <1>7, Here, ContinueIs
  <2>. QED BY <1>1, <1>2, <1>5, <1>7, <2>1, <2>2, QuietOff
<1>8. CASE l = "free" /\ r.alone = TRUE
  <2>1. Off(p)
    BY <1>1, <1>2, <1>4, <1>8, Here, ContinueIs
  <2>2. TypesOK /\ FileOK /\ BoundsOK /\ CountOK /\ LoneOK /\ CurOK
    BY DEF CacheInv
  <2>3. Lone(p)
    BY <1>2, <1>8, <2>2 DEF LoneOK
  <2>4. \A q \in Procs : proc'[q] = Idle /\ Place(proc'[q]) = "idle"
    <3>1. \A q \in Procs : q # p => proc'[q] = proc[q]
      BY <2>1, Here, Unmoved DEF Off
    <3>2. \A q \in Procs : proc'[q] = Idle
      BY <2>1, <2>3, <3>1 DEF Lone, Off
    <3>. QED BY <3>2, IdleIs
  <2>5. Loaded /\ Bnumber = InFile /\ bsorted = Sorted
    BY <1>2, <1>8, <2>3 DEF Lone
  <2>6. Loaded' /\ Bnumber' = InFile' /\ bsorted' = Sorted' /\ InFile' = InFile
    BY <1>1, <2>5, SortedSame, HeaderSame, LoadedSame
  <2>7. InFile \in 2 .. MaxBoard /\ Len(file) \in Nat /\ Bnumber <= MaxBoard
          /\ Len(file') >= Len(file)
    <3>1. InFile \in 2 .. MaxBoard /\ Len(file) \in Nat
      BY Here, InFileType
    <3>. QED BY <1>1, <2>5, <3>1, Sizes
  <2>8. TypesOK'
    <3>1. PICK g : g = proc'[p]
      OBVIOUS
    <3>2. Knows(g)
      BY <2>1, <3>1 DEF Off, Knows, KnowsAt
    <3>. QED BY <1>5, <2>1, <2>2, <2>7, <3>1, <3>2, TypesKept DEF Off
  <2>9. FileOK'
    BY <1>1, <2>2, <2>4 DEF FileOK, Place
  <2>10. BoundsOK'
    <3>1. "idle" \notin Adds
      BY DEF Adds
    <3>2. PICK k, n \in Nat : k = Cardinality(Adding) /\ n = Cardinality(Adding') /\ n <= k
      BY <2>1, <2>4, <3>1, Here, AddingLess, AddingType DEF Off
    <3>3. PICK o \in Nat : o = ops
      BY Here, Sizes DEF StateOK
    <3>4. k <= o /\ Bnumber + k <= MaxBoard + o
      BY <2>2, <3>2, <3>3 DEF BoundsOK
    <3>5. n <= o /\ Bnumber + n <= MaxBoard + o
      BY <3>2, <3>4, NumberType
    <3>. QED BY <1>1, <2>4, <3>2, <3>3, <3>5 DEF BoundsOK, Place
  <2>11. CountOK'
    <3>1. \A q \in Procs : Place(proc'[q]) \notin Counting /\ Place(proc'[q]) \notin {"inc1",
            "inc2"}
      BY <2>4 DEF Counting
    <3>. QED BY <1>1, <2>7, <3>1 DEF CountOK, Place
  <2>12. LoneOK'
    BY <2>4, IdleIs DEF LoneOK
  <2>13. CurOK'
    <3>1. NumOK'
      BY <2>4, <2>6 DEF NumOK, Place
    <3>2. LoadOK'
      BY <2>6 DEF LoadOK, Loaded
    <3>3. SortOK'
      BY <2>6 DEF SortOK
    <3>. QED BY <3>1, <3>2, <3>3 DEF CurOK
  <2>. QED BY <2>8, <2>9, <2>10, <2>11, <2>12, <2>13 DEF CacheInv
<1>. QED BY <1>3, <1>6, <1>7, <1>8

-----------------------------------------------------------------------------
(* Operations begin *)

(* who does nothing is not alone already *)
LEMMA IdleAgain == [Idle EXCEPT !.alone = FALSE] = Idle
<1>1. Idle.alone = FALSE /\ Idle = [i \in DOMAIN Idle |-> Idle[i]]
  BY DEF Idle
<1>2. PICK x : x = Idle
  OBVIOUS
<1>3. x = [i \in DOMAIN x |-> x[i]] /\ x["alone"] = FALSE
  BY <1>1, <1>2
<1>4. [x EXCEPT !["alone"] = FALSE] = [i \in DOMAIN x |-> IF i = "alone" THEN FALSE ELSE x[i]]
  BY <1>3
<1>5. [i \in DOMAIN x |-> IF i = "alone" THEN FALSE ELSE x[i]] = [i \in DOMAIN x |-> x[i]]
  BY <1>3
<1>. QED BY <1>2, <1>3, <1>4, <1>5

(* an operation begins, and no reload is alone any more *)
LEMMA StartKeeps ==
  ASSUME CacheInv, NEW p \in Procs, NEW op \in Ops, NEW s \in Recs, NEW m \in Labels,
         Program[op] = List[m], Start(p, op, s),
         m \in {"lookup", "relook", "check", "rlock", "fix", "clear"}, s.alone = FALSE,
         m = "lookup" => op = "add", m \in {"check", "relook"} => s.b \in Slots /\ s.old # 0,
           m = "fix" => s.b = 0
  PROVE  CacheInv'
<1>1. /\ proc[p] = Idle /\ ops < MaxOps /\ ops' = ops + 1
      /\ UNCHANGED <<file, bcache, Bnumber, bsorted, Bbusystate, busystate_b, now, blame>>
  BY DEF Start, cache, locks, ghosts
<1>2. PICK t : t = List[m]
  OBVIOUS
<1>3. PICK g : g = [s EXCEPT !.op = op, !.todo = t]
  OBVIOUS
<1>4. proc' = [q \in Procs |-> IF q = p THEN g ELSE [proc[q] EXCEPT !.alone = FALSE]]
  BY <1>2, <1>3 DEF Start
<1>5. g \in Recs /\ g.todo = t /\ g.op = op /\ g.b = s.b /\ g.old = s.old /\ g.alone = FALSE
  <2>1. t \in {List[x] : x \in Labels}
    BY <1>2
  <2>. QED BY <1>3, <2>1 DEF Recs
<1>6. Place(g) = m
  BY <1>2, <1>5, PlaceIs
<1>7. proc'[p] = g
  BY <1>4
<1>8. ASSUME NEW q \in Procs, q # p
      PROVE  /\ proc'[q] \in Recs /\ Place(proc'[q]) = Place(proc[q])
                /\ proc'[q].op = proc[q].op /\ proc'[q].b = proc[q].b
             /\ proc'[q].n = proc[q].n /\ proc'[q].tries = proc[q].tries
                /\ proc'[q].old = proc[q].old /\ proc'[q].alone = FALSE
             /\ proc[q] = Idle => proc'[q] = Idle
  <2>1. PICK x, y : x = proc[q] /\ y = proc'[q]
    OBVIOUS
  <2>2. y = [x EXCEPT !.alone = FALSE]
    BY <1>4, <1>8, <2>1
  <2>3. x \in Recs
    BY <2>1, Here
  <2>4. y \in Recs /\ y.todo = x.todo /\ y.op = x.op /\ y.b = x.b /\ y.n = x.n
          /\ y.tries = x.tries /\ y.old = x.old /\ y.alone = FALSE
    BY <2>2, <2>3 DEF Recs
  <2>5. Place(y) = Place(x)
    BY <2>4 DEF Place
  <2>6. x = Idle => y = Idle
    <3>1. [Idle EXCEPT !.alone = FALSE] = Idle
      BY IdleAgain
    <3>. QED BY <2>2, <3>1
  <2>. QED BY <2>1, <2>4, <2>5, <2>6
<1>9. TypesOK /\ FileOK /\ BoundsOK /\ CountOK /\ LoneOK /\ CurOK
  BY DEF CacheInv
<1>10. PICK o \in Nat : o = ops /\ o < MaxOps
  BY <1>1, Here, Sizes DEF StateOK
<1>11. StateOK'
  <2>1. ops' \in 0 .. MaxOps
    BY <1>1, <1>10, Sizes
  <2>. QED BY <1>1, <2>1, Here DEF StateOK
<1>12. proc' \in [Procs -> Recs] /\ DOMAIN proc' = Procs
  <2>1. \A q \in Procs : proc'[q] \in Recs
    BY <1>5, <1>7, <1>8
  <2>2. proc' = [q \in Procs |-> proc'[q]]
    BY <1>4
  <2>. QED BY <2>1, <2>2
<1>13. TypesOK'
  <2>1. ASSUME NEW q \in Procs PROVE Knows(proc[q])'
    <3>1. PICK x, y : x = proc[q] /\ y = proc'[q]
      OBVIOUS
    <3>2. (Place(y) = "idle" => y = Idle) /\ KnowsAt(Place(y), y)
      <4>1. CASE q = p
        <5>1. y = g
          BY <1>7, <3>1, <4>1
        <5>2. KnowsAt(m, g)
          BY <1>5, Sizes DEF KnowsAt
        <5>. QED BY <1>6, <5>1, <5>2
      <4>2. CASE q # p
        <5>1. KnowsAt(Place(x), x) /\ (Place(x) = "idle" => x = Idle)
          BY <3>1, Here
        <5>2. Place(y) = Place(x) /\ y.op = x.op /\ y.b = x.b /\ y.n = x.n /\ y.old = x.old
                /\ (x = Idle => y = Idle)
          BY <1>8, <3>1, <4>2
        <5>. QED BY <5>1, <5>2 DEF KnowsAt
      <4>. QED BY <4>1, <4>2
    <3>3. KnowsAt(Place(y), y)'
      BY <1>1, <3>2 DEF KnowsAt
    <3>. QED BY <3>1, <3>2, <3>3 DEF Knows, KnowsAt, Place
  <2>. QED BY <1>11, <1>12, <2>1 DEF TypesOK
<1>14. FileOK'
  <2>1. \A q \in Procs : Place(proc'[q]) = "substitute" /\ proc'[q].op # "add"
          => proc'[q].b < Len(file)
    BY <1>6, <1>7, <1>8, <1>9 DEF FileOK
  <2>. QED BY <1>1, <1>9, <2>1 DEF FileOK, Place
<1>15. BoundsOK'
  <2>1. PICK A, B : A = Adding /\ B = Adding'
    OBVIOUS
  <2>2. IsFiniteSet(A) /\ Cardinality(A) \in Nat
    BY <2>1, AddingType
  <2>3. B = {q \in Procs : Place(proc'[q]) \in Adds} /\ A = {q \in Procs : Place(proc[q]) \in Adds}
    BY <2>1 DEF Adding, Place
  <2>4. B \subseteq A \cup {p}
    BY <1>8, <2>3
  <2>5. IsFiniteSet(A \cup {p}) /\ Cardinality(A \cup {p}) = IF p \in A
          THEN Cardinality(A) ELSE Cardinality(A) + 1
    BY <2>2, FS_AddElement
  <2>6. IsFiniteSet(B) /\ Cardinality(B) <= Cardinality(A \cup {p})
    BY <2>4, <2>5, FS_Subset
  <2>7. PICK k, n \in Nat : k = Cardinality(A) /\ n = Cardinality(B) /\ n <= k + 1
    <3>1. Cardinality(B) \in Nat
      BY <2>6, FS_CardinalityType
    <3>. QED BY <2>2, <2>5, <2>6, <3>1
  <2>8. k <= o /\ Bnumber + k <= MaxBoard + o /\ \A q \in Procs : Place(proc[q]) = "inc2"
          => proc[q].n + k <= MaxBoard + o
    BY <1>9, <1>10, <2>1, <2>7 DEF BoundsOK
  <2>9. n <= o + 1 /\ Bnumber + n <= MaxBoard + (o + 1)
    BY <2>7, <2>8, NumberType
  <2>10. \A q \in Procs : Place(proc'[q]) = "inc2" => proc'[q].n + n <= MaxBoard + (o + 1)
    <3>. SUFFICES ASSUME NEW q \in Procs, Place(proc'[q]) = "inc2"
                         PROVE proc'[q].n + n <= MaxBoard + (o + 1)
      OBVIOUS
    <3>1. q # p
      BY <1>6, <1>7
    <3>2. proc'[q].n + k <= MaxBoard + o /\ proc'[q].n \in Nat
      BY <1>8, <2>8, <3>1, Here
    <3>3. PICK x, y \in Nat : x = proc'[q].n /\ y = MaxBoard
      BY <3>2, NumberType
    <3>4. n <= k + 1
      BY <2>7
    <3>5. x + k <= y + o
      BY <3>2, <3>3, Zenon
    <3>6. x + n <= y + (o + 1)
      BY <3>4, <3>5
    <3>. QED BY <3>3, <3>6, Zenon
  <2>. QED BY <1>1, <1>10, <2>1, <2>7, <2>9, <2>10 DEF BoundsOK, Place
<1>16. \A q \in Procs : Place(proc'[q]) \in Counting \cup {"number", "substitute"} \cup ToLoad =>
         /\ Place(proc'[q]) = Place(proc[q]) /\ proc'[q].n = proc[q].n /\ proc'[q].b = proc[q].b
  BY <1>6, <1>7, <1>8 DEF Counting, ToLoad
<1>17. \A q \in Procs : Place(proc[q]) # "idle" => q # p
  BY <1>1, IdleIs
<1>18. CountOK'
  <2>. SUFFICES ASSUME "counted" \notin blame' PROVE CountOK'
    BY DEF CountOK
  <2>1. /\ Bnumber <= MaxBoard
        /\ \A q \in Procs : Place(proc[q]) = "inc1" => Bnumber < MaxBoard
        /\ \A q \in Procs : Place(proc[q]) = "inc2" => proc[q].n < MaxBoard
        /\ \A q, x \in Procs : Place(proc[q]) \in Counting
           /\ Place(proc[x]) \in Counting \cup {"number"} => q = x
    BY <1>1, <1>9 DEF CountOK
  <2>2. \A q \in Procs : Place(proc'[q]) = "inc1" => Bnumber < MaxBoard
    BY <1>16, <2>1 DEF Counting
  <2>3. \A q \in Procs : Place(proc'[q]) = "inc2" => proc'[q].n < MaxBoard
    BY <1>16, <2>1 DEF Counting
  <2>4. \A q, x \in Procs : Place(proc'[q]) \in Counting
          /\ Place(proc'[x]) \in Counting \cup {"number"} => q = x
    BY <1>16, <2>1
  <2>. QED BY <1>1, <2>1, <2>2, <2>3, <2>4 DEF CountOK, Place
<1>19. LoneOK'
  BY <1>5, <1>7, <1>8 DEF LoneOK
<1>20. InFile' = InFile /\ \A b : Header(b)' = Header(b)
  BY <1>1, HeaderSame
<1>21. CurOK'
  <2>. SUFFICES ASSUME blame' = {} PROVE NumOK' /\ LoadOK' /\ SortOK'
    BY DEF CurOK
  <2>1. NumOK /\ LoadOK /\ SortOK
    BY <1>1, <1>9 DEF CurOK
  <2>2. NumOK'
    <3>1. \A q \in Procs : Place(proc'[q]) \in {"inc1", "inc2"} <=> Place(proc[q]) \in {"inc1",
            "inc2"}
      BY <1>6, <1>7, <1>8, <1>17
    <3>2. /\ \A q \in Procs : Place(proc'[q]) \in {"inc1", "inc2"} => Bnumber = Len(file) - 1
          /\ (\A q \in Procs : Place(proc'[q]) \notin {"inc1", "inc2"}) => Bnumber = InFile
      BY <2>1, <3>1 DEF NumOK
    <3>3. \A q \in Procs : Place(proc'[q]) = "inc2" => proc'[q].n = Bnumber
      BY <1>16, <2>1 DEF NumOK, Counting
    <3>4. \A q \in Procs : Place(proc'[q]) = "num" => Bnumber = Len(file)
      BY <1>16, <2>1 DEF NumOK, Counting
    <3>5. \A q \in Procs : Place(proc'[q]) = "number" => proc'[q].n = InFile
      BY <1>16, <2>1 DEF NumOK
    <3>6. \A q \in Procs : Place(proc'[q]) = "substitute" => proc'[q].b < Len(file)
      BY <1>16, <2>1 DEF NumOK
    <3>. QED BY <1>1, <1>20, <3>2, <3>3, <3>4, <3>5, <3>6 DEF NumOK, Place
  <2>3. LoadOK'
    <3>. SUFFICES ASSUME NEW b \in 0 .. InFile' - 1, bcache'[b] # Header(b)'
                         PROVE \E x \in Procs : WillLoad(proc[x], b)'
      BY DEF LoadOK
    <3>1. b \in 0 .. InFile - 1 /\ bcache[b] # Header(b)
      BY <1>1, <1>20
    <3>2. PICK q \in Procs : WillLoad(proc[q], b)
      BY <2>1, <3>1 DEF LoadOK
    <3>3. q # p
      BY <1>17, <3>2 DEF WillLoad, ToLoad, Counting
    <3>4. Place(proc'[q]) = Place(proc[q]) /\ proc'[q].b = proc[q].b
      BY <1>8, <3>3
    <3>. QED BY <1>1, <3>2, <3>4 DEF WillLoad, Place
  <2>4. SortOK'
    <3>1. CASE bsorted = Sorted
      BY <1>1, <3>1, SortedSame DEF SortOK
    <3>2. CASE bsorted # Sorted
      <4>1. PICK q \in Procs : WillSort(proc[q])
        BY <2>1, <3>2 DEF SortOK
      <4>2. q # p
        BY <1>17, <4>1 DEF WillSort, SortsAt
      <4>3. Place(proc'[q]) = Place(proc[q]) /\ proc'[q].tries = proc[q].tries
        BY <1>8, <4>2
      <4>4. WillSort(proc'[q])
        BY <4>1, <4>3 DEF WillSort
      <4>. QED BY <4>4 DEF SortOK, WillSort, Place
    <3>. QED BY <3>1, <3>2
  <2>. QED BY <2>2, <2>3, <2>4
<1>. QED BY <1>13, <1>14, <1>15, <1>18, <1>19, <1>21 DEF CacheInv

(* every operation starts with a board that getbnum found *)
LEMMA OperateKeeps ==
  ASSUME CacheInv, NEW p \in Procs, Operate(p)
  PROVE  CacheInv'
<1>1. /\ \A x \in {"lookup", "relook", "check", "rlock", "fix", "clear"} : x \in Labels
      /\ \A x \in {"add", "rename", "delete", "reload", "fix", "init"} : x \in Ops
  BY LabelsAre DEF Ops
<1>2. ASSUME NEW n \in Names, Start(p, "add", [Idle EXCEPT !.name = n]) PROVE CacheInv'
  <2>1. PICK s : s = [Idle EXCEPT !.name = n]
    OBVIOUS
  <2>2. n \in Headers
    BY DEF Headers
  <2>3. s \in Recs /\ s.alone = FALSE
    BY <2>1, <2>2, IdleIs DEF Recs
  <2>. QED BY <1>1, <1>2, <2>1, <2>3, StartKeeps, Lists
<1>3. ASSUME NEW o \in Names, NEW n \in Headers, getbnum(o) > 0,
             Start(p, IF n = 0 THEN "delete" ELSE "rename", [Idle EXCEPT !.name = n, !.old = o,
               !.b = getbnum(o) - 1])
      PROVE  CacheInv'
  <2>1. PICK b : b = getbnum(o) - 1
    OBVIOUS
  <2>2. b \in Slots /\ b \in 0 .. Most
    <3>1. b \in Slots
      BY <1>3, <2>1, Here, GetbnumType DEF StateOK
    <3>. QED BY <3>1, Sizes
  <2>3. PICK s : s = [Idle EXCEPT !.name = n, !.old = o, !.b = b]
    OBVIOUS
  <2>4. o \in Headers /\ o # 0
    BY BoardCacheAssumption DEF Headers, Names
  <2>5. s \in Recs /\ s.alone = FALSE /\ s.b = b /\ s.old = o
    BY <2>2, <2>3, <2>4, IdleIs DEF Recs
  <2>6. CASE n = 0
    <3>1. Start(p, "delete", s)
      BY <1>3, <2>1, <2>3, <2>6
    <3>2. "delete" \in Ops /\ "check" \in Labels /\ Program.delete = List.check
      BY <1>1, Lists
    <3>. QED BY <2>2, <2>4, <2>5, <3>1, <3>2, StartKeeps
  <2>7. CASE n # 0
    <3>1. Start(p, "rename", s)
      BY <1>3, <2>1, <2>3, <2>7
    <3>2. "rename" \in Ops /\ "relook" \in Labels /\ Program.rename = List.relook
      BY <1>1, Lists
    <3>. QED BY <2>2, <2>4, <2>5, <3>1, <3>2, StartKeeps
  <2>. QED BY <2>6, <2>7
<1>4. ASSUME Start(p, "reload", Idle) PROVE CacheInv'
  BY <1>1, <1>4, IdleIs, StartKeeps, Lists
<1>5. ASSUME Start(p, "fix", Idle) PROVE CacheInv'
  BY <1>1, <1>5, IdleIs, StartKeeps, Lists
<1>6. ASSUME Start(p, "init", Idle) PROVE CacheInv'
  BY <1>1, <1>6, IdleIs, StartKeeps, Lists
<1>. QED BY <1>2, <1>3, <1>4, <1>5, <1>6 DEF Operate

(* nothing but the clock *)
LEMMA SameKeeps ==
  ASSUME CacheInv, now' \in 1 .. MaxTime, UNCHANGED <<file, bcache, Bnumber, bsorted, Bbusystate,
         busystate_b, proc, ops, blame>>
  PROVE  CacheInv'
<1>1. InFile' = InFile /\ Sorted' = Sorted /\ (\A b : Header(b)' = Header(b)) /\ (Loaded'
        <=> Loaded)
  BY HeaderSame, SortedSame, LoadedSame
<1>2. TypesOK' /\ FileOK'
  BY DEF CacheInv, TypesOK, StateOK, Knows, KnowsAt, FileOK, Place
<1>3. BoundsOK' /\ CountOK'
  BY DEF CacheInv, BoundsOK, Adding, CountOK, Place
<1>4. LoneOK'
  BY <1>1 DEF CacheInv, LoneOK, Lone, Place
<1>5. NumOK' <=> NumOK
  BY <1>1 DEF NumOK, Place
<1>6. LoadOK' <=> LoadOK
  BY <1>1 DEF LoadOK, WillLoad, Place
<1>7. SortOK' <=> SortOK
  BY <1>1 DEF SortOK, WillSort, Place
<1>8. CurOK'
  BY <1>5, <1>6, <1>7 DEF CacheInv, CurOK
<1>. QED BY <1>2, <1>3, <1>4, <1>8 DEF CacheInv

-----------------------------------------------------------------------------
(* The invariant *)

(* the index of the two boards that are there at the start *)
LEMMA TwoSorted ==
  ASSUME StateOK, Bnumber = 2, bcache[1] < bcache[0],
         bsorted = [i \in Slots |-> CASE i = 0 -> 1 [] i = 1 -> 0 [] OTHER -> 0]
  PROVE  bsorted = Sorted
<1>1. 2 \in 0 .. Most /\ 0 \in 0 .. 2 - 1 /\ 1 \in 0 .. 2 - 1 /\ bcache \in [Slots -> Headers]
        /\ 0 \in Slots /\ 1 \in Slots
  BY Sizes DEF StateOK
<1>2. bcache[0] \in Nat /\ bcache[1] \in Nat
  BY <1>1, NameIsNat
<1>3. Before(1, 0)
  BY DEF Before
<1>4. Rank(1, 2) < Rank(0, 2)
  BY <1>1, <1>3, RankLess
<1>5. Rank(1, 2) \in 0 .. 2 - 1 /\ Rank(0, 2) \in 0 .. 2 - 1
  BY <1>1, RankType
<1>6. Rank(1, 2) = 0 /\ Rank(0, 2) = 1
  BY <1>4, <1>5
<1>7. ByName(2, 0) \in 0 .. 2 - 1 /\ Rank(ByName(2, 0), 2) = 0
  BY <1>1, ByNameIs
<1>8. ByName(2, 1) \in 0 .. 2 - 1 /\ Rank(ByName(2, 1), 2) = 1
  BY <1>1, ByNameIs
<1>9. \A b \in 0 .. 2 - 1 : b = 0 \/ b = 1
  OBVIOUS
<1>10. ByName(2, 0) = 1
  <2>1. PICK b : b = ByName(2, 0)
    OBVIOUS
  <2>2. b \in 0 .. 2 - 1 /\ Rank(b, 2) = 0
    BY <1>7, <2>1
  <2>3. b # 0
    BY <1>6, <2>2
  <2>. QED BY <1>9, <2>1, <2>2, <2>3
<1>11. ByName(2, 1) = 0
  <2>1. PICK b : b = ByName(2, 1)
    OBVIOUS
  <2>2. b \in 0 .. 2 - 1 /\ Rank(b, 2) = 1
    BY <1>8, <2>1
  <2>3. b # 1
    BY <1>6, <2>2
  <2>. QED BY <1>9, <2>1, <2>2, <2>3
<1>12. \A i \in Slots : (CASE i = 0 -> 1 [] i = 1 -> 0 [] OTHER -> 0) = IF i < Bnumber
         THEN ByName(Bnumber, i) ELSE bsorted[i]
  <2>. SUFFICES ASSUME NEW i \in Slots
                       PROVE (CASE i = 0 -> 1 [] i = 1 -> 0 [] OTHER -> 0) = IF i < Bnumber
                             THEN ByName(Bnumber, i) ELSE bsorted[i]
    OBVIOUS
  <2>1. i \in Nat
    BY Sizes
  <2>2. CASE i = 0
    BY <1>10, <2>2
  <2>3. CASE i = 1
    BY <1>11, <2>3
  <2>4. CASE i # 0 /\ i # 1
    <3>1. ~(i < Bnumber)
      BY <2>1, <2>4
    <3>. QED BY <2>4, <3>1
  <2>. QED BY <2>2, <2>3, <2>4
<1>. QED BY <1>12 DEF Sorted

(* the invariant holds at the start *)
LEMMA InitKeeps == Init => CacheInv
<1>. SUFFICES ASSUME Init PROVE CacheInv
  OBVIOUS
<1>1. /\ file \in {<<2, 1>>, <<2, 0>>} /\ bcache = [b \in Slots |-> Header(b)] /\ Bnumber = 2
      /\ bsorted = [i \in Slots |-> CASE i = 0 -> 1 [] i = 1 -> 0 [] OTHER -> 0]
      /\ Bbusystate = 0 /\ busystate_b = [b \in Slots |-> 0] /\ proc = [p \in Procs |-> Idle]
         /\ now = 1 /\ ops = 0 /\ blame = {}
  BY DEF Init
<1>2. file \in Seq(Headers) /\ Len(file) = 2 /\ file[1] = 2 /\ file[2] \in {0, 1}
  <2>1. CASE file = <<2, 1>>
    BY <2>1, Sizes
  <2>2. CASE file = <<2, 0>>
    BY <2>2, Sizes
  <2>. QED BY <1>1, <2>1, <2>2
<1>3. \A b \in Slots : b \in Nat
  BY Sizes
<1>4. \A b \in Nat : Header(b) \in Headers /\ (Header(b) # 0 => b < 2)
  <2>. SUFFICES ASSUME NEW b \in Nat PROVE Header(b) \in Headers /\ (Header(b) # 0 => b < 2)
    OBVIOUS
  <2>1. CASE b < 2
    <3>1. Header(b) = file[b + 1] /\ b + 1 \in 1 .. 2
      BY <1>2, <2>1 DEF Header
    <3>2. file[1] \in Headers /\ file[2] \in Headers
      BY <1>2, Sizes
    <3>3. b + 1 = 1 \/ b + 1 = 2
      BY <3>1
    <3>. QED BY <2>1, <3>1, <3>2, <3>3
  <2>2. CASE ~(b < 2)
    BY <1>2, <2>2, Sizes DEF Header
  <2>. QED BY <2>1, <2>2
<1>5. Header(0) = 2 /\ Header(1) \in {0, 1}
  BY <1>2 DEF Header
<1>6. 0 \in Slots /\ 1 \in Slots /\ bcache[0] = Header(0) /\ bcache[1] = Header(1)
  BY <1>1, Sizes
<1>7. bcache[1] < bcache[0]
  BY <1>5, <1>6
<1>8. StateOK
  <2>1. bcache \in [Slots -> Headers]
    BY <1>1, <1>3, <1>4
  <2>2. bsorted \in [Slots -> Slots]
    BY <1>1, <1>6
  <2>3. busystate_b \in [Slots -> 0 .. MaxTime]
    <3>1. 0 \in 0 .. MaxTime
      BY Sizes
    <3>. QED BY <1>1, <3>1
  <2>4. Bnumber \in 1 .. Most /\ ops \in 0 .. MaxOps /\ now \in 1 .. MaxTime /\ Bbusystate \in {0,
          1}
    BY <1>1, Sizes
  <2>. QED BY <1>2, <2>1, <2>2, <2>3, <2>4 DEF StateOK
<1>9. \A p \in Procs : proc[p] = Idle /\ Place(proc[p]) = "idle"
  BY <1>1, IdleIs
<1>10. TypesOK
  <2>1. proc \in [Procs -> Recs]
    BY <1>1, IdleIs
  <2>2. \A p \in Procs : Knows(proc[p])
    BY <1>9 DEF Knows, KnowsAt
  <2>. QED BY <1>8, <2>1, <2>2 DEF TypesOK
<1>11. FileOK
  <2>1. \A b \in Slots : bcache[b] # 0 => b < Len(file)
    BY <1>1, <1>2, <1>3, <1>4
  <2>. QED BY <1>9, <2>1 DEF FileOK
<1>12. InFile = 2
  BY <1>2, Sizes DEF InFile
<1>13. BoundsOK
  <2>1. Adding = {}
    BY <1>9 DEF Adding, Adds
  <2>2. Cardinality(Adding) = 0
    BY <2>1, FS_EmptySet
  <2>. QED BY <1>1, <1>9, <2>2, Sizes DEF BoundsOK
<1>14. CountOK
  <2>1. \A p \in Procs : Place(proc[p]) \notin Counting /\ Place(proc[p]) \notin {"inc1", "inc2"}
    BY <1>9 DEF Counting
  <2>. QED BY <1>1, <2>1, Sizes DEF CountOK
<1>15. LoneOK
  BY <1>9, IdleIs DEF LoneOK
<1>16. CurOK
  <2>1. NumOK
    BY <1>1, <1>9, <1>12 DEF NumOK
  <2>2. LoadOK
    <3>1. \A b \in 0 .. InFile - 1 : b \in Slots
      BY <1>12, Sizes
    <3>. QED BY <1>1, <3>1 DEF LoadOK
  <2>3. SortOK
    BY <1>1, <1>7, <1>8, TwoSorted DEF SortOK
  <2>. QED BY <2>1, <2>2, <2>3 DEF CurOK
<1>. QED BY <1>10, <1>11, <1>13, <1>14, <1>15, <1>16 DEF CacheInv

(* every step keeps the invariant *)
LEMMA NextKeeps == CacheInv /\ [Next]_vars => CacheInv'
<1>. SUFFICES ASSUME CacheInv, [Next]_vars PROVE CacheInv'
  OBVIOUS
<1>1. ASSUME NEW p \in Procs, Changing(p) PROVE CacheInv'
  BY <1>1, LookupKeeps, CheckKeeps, SlotKeeps, SubstituteKeeps, AppendKeeps, Inc1Keeps, Inc2Keeps,
    NumKeeps DEF Changing
<1>2. ASSUME NEW p \in Procs, Resetting(p) PROVE CacheInv'
  BY <1>2, BusyKeeps, LockBKeeps, StealBKeeps, LoadBKeeps, LoadBFailsKeeps,
    FreeBKeeps DEF Resetting
<1>3. ASSUME NEW p \in Procs, Loading(p) PROVE CacheInv'
  BY <1>3, LockKeeps, SortKeeps, FreeKeeps, RlockKeeps, LoadKeeps, LoadFailsKeeps, NumberKeeps,
    ClearKeeps DEF Loading
<1>4. ASSUME NEW p \in Procs, Fixing(p) PROVE CacheInv'
  BY <1>4, FixKeeps, FixlockKeeps, FixsetKeeps, FixfreeKeeps DEF Fixing
<1>5. CASE Tick
  <2>1. now \in 1 .. MaxTime
    BY DEF CacheInv, TypesOK, StateOK
  <2>2. now' \in 1 .. MaxTime
    BY <1>5, <2>1, Sizes DEF Tick
  <2>. QED BY <1>5, <2>2, SameKeeps DEF Tick, cache, locks, ghosts
<1>6. CASE UNCHANGED vars
  <2>1. now' \in 1 .. MaxTime
    BY <1>6 DEF CacheInv, TypesOK, StateOK, vars
  <2>. QED BY <1>6, <2>1, SameKeeps DEF vars
<1>. QED BY <1>1, <1>2, <1>3, <1>4, <1>5, <1>6, OperateKeeps, DieKeeps DEF Next, Step

(* the invariant says what CacheExact promises *)
LEMMA CacheInvExact == CacheInv => CacheExact
<1>. SUFFICES ASSUME CacheInv PROVE CacheExact
  OBVIOUS
<1>1. StateOK /\ NumOK \in BOOLEAN /\ Bnumber \in 1 .. Most /\ bcache \in [Slots -> Headers]
        /\ bsorted \in [Slots -> Slots]
  BY DEF CacheInv, TypesOK, StateOK, NumOK
<1>2. TypeOK
  <2>1. \A p \in Procs : proc[p].b \in 0 .. MaxBoard + MaxOps
          /\ proc[p].tries \in 0 .. Tries - 1 \cup {1}
    BY Here DEF Most
  <2>2. Bnumber \in 0 .. MaxBoard + MaxOps
    BY <1>1, Sizes DEF Most
  <2>. QED BY <1>1, <2>1, <2>2 DEF TypeOK, StateOK
<1>3. ASSUME AtRest, blame = {}
      PROVE  Bnumber = InFile /\ bsorted = Sorted
             /\ \A b \in 0 .. Bnumber - 1 : bcache[b] = Header(b)
  <2>1. \A p \in Procs : Place(proc[p]) = "idle"
    BY <1>3, IdleIs DEF AtRest
  <2>2. NumOK /\ LoadOK /\ SortOK
    BY <1>3 DEF CacheInv, CurOK
  <2>3. Bnumber = InFile
    BY <2>1, <2>2 DEF NumOK
  <2>4. bsorted = Sorted
    BY <2>1, <2>2 DEF SortOK, WillSort, SortsAt
  <2>5. \A b \in 0 .. InFile - 1 : bcache[b] = Header(b)
    BY <2>1, <2>2 DEF LoadOK, WillLoad, ToLoad, Counting
  <2>. QED BY <2>3, <2>4, <2>5
<1>4. CacheCurrent
  BY <1>3 DEF CacheCurrent, InFile
<1>5. FindsAll
  BY <1>1, <1>3, OrderIsFound DEF FindsAll
<1>6. NumberInBounds
  BY DEF CacheInv, CountOK, NumberInBounds
<1>. QED BY <1>2, <1>4, <1>5, <1>6 DEF CacheExact

(* Cache, number and index are those of the file whenever no process is at
   work, getbnum finds exactly the boards that are there, and the number stays
   within MAX_BOARD, for any number of processes, boards, names and operations,
   unless one of the accidents that blame names has happened and no lone reload
   has repaired it (reset_board, sort_bcache, reload_bcache, addbrd_touchcache,
   fixbcache, getbnum). *)
THEOREM CacheStaysExact == Spec => []CacheExact
<1>1. Init => CacheInv
  BY InitKeeps
<1>2. CacheInv /\ [Next]_vars => CacheInv'
  BY NextKeeps
<1>3. CacheInv => CacheExact
  BY CacheInvExact
<1>. QED BY <1>1, <1>2, <1>3, PTL DEF Spec
=============================================================================
