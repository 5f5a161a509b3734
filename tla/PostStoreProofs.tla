--------------------------- MODULE PostStoreProofs ---------------------------
(***************************************************************************)
(* Proofs about PostStore, for any number of goroutines, users, requests   *)
(* and crashes.  Types says what every request knows at each access of its *)
(* program.  Kept is the invariant behind the counters: what SQLite shows, *)
(* what dirtyDeltas holds and what the goroutines carry add up to what     *)
(* Pebble holds, and a sequence is given out once.  TextInv is the one     *)
(* behind the texts: a writer that is about to answer has stored its text, *)
(* and one that is about to write over a text has archived that one.       *)
(* AgreeInv is about the two databases, SeenInv about what an editor was   *)
(* shown.                                                                  *)
(*                                                                         *)
(* Most accesses are "quiet": they move one request on and leave counters  *)
(* and sequences alone.  The others have a lemma each.                     *)
(***************************************************************************)
EXTENDS PostStore, FiniteSetTheorems, SequenceTheorems, WellFoundedInduction, TLAPS

Summing(F, g, S) ==
  F = [s \in SUBSET S |-> IF s = {} THEN 0
         ELSE g[CHOOSE x \in s : TRUE] + F[s \ {CHOOSE x \in s : TRUE}]]

(* SumFunction adds the values in some order, one at a time *)
LEMMA SumIs ==
  ASSUME NEW g, NEW S
  PROVE  SumFunctionOnSet(g, S) = (CHOOSE F : Summing(F, g, S))[S]
BY DEF SumFunctionOnSet, FoldFunctionOnSet, MapThenFoldSet, Summing

(* a set of numbers has a least one *)
LEMMA Least ==
  ASSUME NEW T \in SUBSET Nat, T # {}
  PROVE  \E m \in T : \A n \in T : m <= n
<1>1. PICK R : R = OpToRel(<, Nat)
  OBVIOUS
<1>2. IsWellFoundedOn(R, Nat)
  BY <1>1, NatLessThanWellFounded
<1>3. PICK m \in T : \A n \in T : ~ (<<n, m>> \in R)
  BY <1>2, WFMin
<1>4. \A n \in T : n < m => <<n, m>> \in R
  BY <1>1 DEF OpToRel
<1>5. m \in Nat /\ \A n \in T : n \in Nat /\ ~(n < m)
  BY <1>3, <1>4
<1>. QED BY <1>3, <1>5

(* induction, by the least counterexample *)
LEMMA NatInd ==
  ASSUME NEW S \in SUBSET Nat, 0 \in S, \A n \in S : n + 1 \in S
  PROVE  \A n \in Nat : n \in S
<1>. SUFFICES ASSUME Nat \ S # {} PROVE FALSE
  OBVIOUS
<1>2. PICK m \in Nat \ S : \A n \in Nat \ S : m <= n
  BY Least
<1>3. m # 0 /\ m - 1 \in S
  BY <1>2
<1>. QED BY <1>2, <1>3

(* every finite set has such a sum *)
LEMMA SumExists ==
  ASSUME NEW S, IsFiniteSet(S), NEW g \in [S -> Int]
  PROVE  \E F : Summing(F, g, S)
<1>. DEFINE Body(F, s) == IF s = {} THEN 0
         ELSE g[CHOOSE x \in s : TRUE] + F[s \ {CHOOSE x \in s : TRUE}]
            Works(n) == \E F \in [SUBSET S -> Int] :
                          \A s \in SUBSET S : Cardinality(s) <= n => F[s] = Body(F, s)
            Good == {n \in Nat : Works(n)}
<1>1. \A s \in SUBSET S : IsFiniteSet(s) /\ Cardinality(s) \in Nat /\ Cardinality(s) <= Cardinality(S)
  BY FS_Subset, FS_CardinalityType
<1>2. \A s \in SUBSET S : s # {} => /\ (CHOOSE x \in s : TRUE) \in s
                                    /\ s \ {CHOOSE x \in s : TRUE} \in SUBSET S
                                    /\ Cardinality(s \ {CHOOSE x \in s : TRUE}) = Cardinality(s) - 1
  BY <1>1, FS_RemoveElement
<1>3. \A s \in SUBSET S : Cardinality(s) <= 0 => s = {}
  BY <1>1, FS_EmptySet
<1>4. 0 \in Good
  <2>. DEFINE Z == [s \in SUBSET S |-> 0]
  <2>1. Z \in [SUBSET S -> Int]
    OBVIOUS
  <2>2. \A s \in SUBSET S : Cardinality(s) <= 0 => Z[s] = Body(Z, s)
    BY <1>3
  <2>. QED BY <2>1, <2>2
<1>5. ASSUME NEW n \in Good PROVE n + 1 \in Good
  <2>0. n \in Nat OBVIOUS
  <2>1. PICK F \in [SUBSET S -> Int] : \A s \in SUBSET S : Cardinality(s) <= n => F[s] = Body(F, s)
    BY <1>5
  <2>. DEFINE H == [s \in SUBSET S |-> Body(F, s)]
  <2>2. H \in [SUBSET S -> Int]
    <3>. SUFFICES ASSUME NEW s \in SUBSET S PROVE Body(F, s) \in Int
      OBVIOUS
    <3>1. CASE s = {} BY <3>1
    <3>2. CASE s # {} BY <3>2, <1>2
    <3>. QED BY <3>1, <3>2
  <2>3. ASSUME NEW s \in SUBSET S, Cardinality(s) <= n + 1 PROVE H[s] = Body(H, s)
    <3>1. CASE s = {} BY <3>1
    <3>2. CASE s # {}
      <4>. DEFINE t == s \ {CHOOSE x \in s : TRUE}
      <4>1. t \in SUBSET S /\ Cardinality(t) <= n
        BY <3>2, <1>1, <1>2, <2>0, <2>3
      <4>2. H[t] = F[t]
        BY <4>1, <2>1
      <4>3. H[s] = Body(F, s)
        OBVIOUS
      <4>. QED BY <3>2, <4>2, <4>3
    <3>. QED BY <3>1, <3>2
  <2>4. \A s \in SUBSET S : Cardinality(s) <= n + 1 => H[s] = Body(H, s)
    BY <2>3
  <2>. HIDE DEF H
  <2>5. Works(n + 1)
    BY <2>2, <2>4
  <2>. HIDE DEF Works
  <2>. QED BY <2>0, <2>5
<1>6. Cardinality(S) \in Good
  <2>1. Good \in SUBSET Nat OBVIOUS
  <2>2. Cardinality(S) \in Nat BY FS_CardinalityType
  <2>. HIDE DEF Good
  <2>. QED BY <1>4, <1>5, <2>1, <2>2, NatInd
<1>7. PICK F \in [SUBSET S -> Int] : \A s \in SUBSET S : Cardinality(s) <= Cardinality(S) => F[s] = Body(F, s)
  BY <1>6
<1>8. \A s \in SUBSET S : F[s] = Body(F, s)
  BY <1>1, <1>7
<1>9. F = [s \in SUBSET S |-> Body(F, s)]
  BY <1>8
<1>. QED BY <1>9 DEF Summing

(* a set without one element *)
LEMMA SizeStep ==
  ASSUME NEW S, IsFiniteSet(S), NEW n \in Nat, NEW s \in SUBSET S, Cardinality(s) = n + 1
  PROVE  s # {} /\ \A c \in s : Cardinality(s \ {c}) = n
<1>1. IsFiniteSet(s)
  BY FS_Subset
<1>2. s # {}
  <2>1. Cardinality({}) = 0 /\ n + 1 # 0
    BY FS_EmptySet
  <2>. QED BY <2>1
<1>3. ASSUME NEW c \in s PROVE Cardinality(s \ {c}) = n
  <2>1. Cardinality(s \ {c}) = Cardinality(s) - 1
    BY <1>1, FS_RemoveElement
  <2>. QED BY <2>1
<1>. QED BY <1>2, <1>3

(* one value more *)
LEMMA SumStep ==
  ASSUME NEW S, NEW g, NEW F, Summing(F, g, S), NEW s \in SUBSET S
  PROVE  /\ s = {} => F[s] = 0
         /\ s # {} => \E c \in s : F[s] = g[c] + F[s \ {c}]
<1>1. s # {} => (CHOOSE x \in s : TRUE) \in s
  OBVIOUS
<1>. QED BY <1>1 DEF Summing

(* sums of integers are integers *)
LEMMA SumInt ==
  ASSUME NEW S, IsFiniteSet(S), NEW g \in [S -> Int], NEW F, Summing(F, g, S)
  PROVE  \A s \in SUBSET S : F[s] \in Int
<1>. DEFINE Good == {n \in Nat : \A s \in SUBSET S : Cardinality(s) = n => F[s] \in Int}
<1>1. \A s \in SUBSET S : IsFiniteSet(s) /\ Cardinality(s) \in Nat
  BY FS_Subset, FS_CardinalityType
<1>2. 0 \in Good
  <2>1. \A s \in SUBSET S : Cardinality(s) = 0 => s = {}
    BY <1>1, FS_EmptySet
  <2>. QED BY <2>1, SumStep
<1>3. ASSUME NEW n \in Good PROVE n + 1 \in Good
  <2>1. ASSUME NEW s \in SUBSET S, Cardinality(s) = n + 1 PROVE F[s] \in Int
    <3>1. s # {} /\ \A c \in s : Cardinality(s \ {c}) = n
      BY <2>1, SizeStep
    <3>2. PICK c \in s : F[s] = g[c] + F[s \ {c}]
      BY <3>1, SumStep
    <3>4. F[s \ {c}] \in Int
      BY <3>1, <1>3
    <3>. QED BY <3>2, <3>4
  <2>. QED BY <2>1
<1>4. Good \in SUBSET Nat
  OBVIOUS
<1>5. \A n \in Nat : n \in Good
  <2>. HIDE DEF Good
  <2>. QED BY <1>2, <1>3, <1>4, NatInd
<1>. QED BY <1>1, <1>5

(* a sum is one value and the sum of the others *)
LEMMA SumTake ==
  ASSUME NEW S, IsFiniteSet(S), NEW g \in [S -> Int], NEW F, Summing(F, g, S),
         NEW T \in SUBSET S, NEW e \in T
  PROVE  F[T] = g[e] + F[T \ {e}]
<1>. DEFINE Good == {n \in Nat : \A s \in SUBSET S : Cardinality(s) = n => \A x \in s : F[s] = g[x] + F[s \ {x}]}
<1>1. \A s \in SUBSET S : IsFiniteSet(s) /\ Cardinality(s) \in Nat
  BY FS_Subset, FS_CardinalityType
<1>2. 0 \in Good
  <2>1. \A s \in SUBSET S : Cardinality(s) = 0 => s = {}
    BY <1>1, FS_EmptySet
  <2>. QED BY <2>1
<1>3. ASSUME NEW n \in Good PROVE n + 1 \in Good
  <2>1. ASSUME NEW s \in SUBSET S, Cardinality(s) = n + 1, NEW x \in s
        PROVE  F[s] = g[x] + F[s \ {x}]
    <3>2. PICK c \in s : F[s] = g[c] + F[s \ {c}]
      BY SumStep
    <3>3. CASE c = x
      BY <3>2, <3>3
    <3>4. CASE c # x
      <4>1. Cardinality(s \ {c}) = n /\ Cardinality(s \ {x}) = n
        BY <2>1, SizeStep
      <4>2. F[s \ {c}] = g[x] + F[(s \ {c}) \ {x}]
        BY <4>1, <1>3, <3>4
      <4>3. F[s \ {x}] = g[c] + F[(s \ {x}) \ {c}]
        BY <4>1, <1>3, <3>4
      <4>4. (s \ {c}) \ {x} = (s \ {x}) \ {c}
        OBVIOUS
      <4>5. F[(s \ {c}) \ {x}] \in Int /\ g[c] \in Int /\ g[x] \in Int
        BY SumInt
      <4>. DEFINE rest == F[(s \ {c}) \ {x}]
      <4>6. F[s] = g[c] + (g[x] + rest) /\ g[x] + F[s \ {x}] = g[x] + (g[c] + rest)
        BY <3>2, <4>2, <4>3, <4>4
      <4>7. rest \in Int
        BY <4>5
      <4>. HIDE DEF rest
      <4>. QED BY <4>5, <4>6, <4>7
    <3>. QED BY <3>3, <3>4
  <2>. QED BY <2>1
<1>4. Good \in SUBSET Nat
  OBVIOUS
<1>5. \A n \in Nat : n \in Good
  <2>. HIDE DEF Good
  <2>. QED BY <1>2, <1>3, <1>4, NatInd
<1>. QED BY <1>1, <1>5

(* only the values matter *)
LEMMA SumSame ==
  ASSUME NEW S, IsFiniteSet(S), NEW g \in [S -> Int], NEW h \in [S -> Int],
         NEW F, Summing(F, g, S), NEW G, Summing(G, h, S),
         NEW T \in SUBSET S, \A x \in T : g[x] = h[x]
  PROVE  F[T] = G[T]
<1>. DEFINE Good == {n \in Nat : \A s \in SUBSET T : Cardinality(s) = n => F[s] = G[s]}
<1>1. \A s \in SUBSET S : IsFiniteSet(s) /\ Cardinality(s) \in Nat
  BY FS_Subset, FS_CardinalityType
<1>2. 0 \in Good
  <2>1. \A s \in SUBSET S : Cardinality(s) = 0 => s = {}
    BY <1>1, FS_EmptySet
  <2>2. \A s \in SUBSET T : s \in SUBSET S
    OBVIOUS
  <2>. QED BY <2>1, <2>2, SumStep
<1>3. ASSUME NEW n \in Good PROVE n + 1 \in Good
  <2>1. ASSUME NEW s \in SUBSET T, Cardinality(s) = n + 1 PROVE F[s] = G[s]
    <3>1. s # {} /\ s \in SUBSET S /\ \A c \in s : Cardinality(s \ {c}) = n
      <4>1. s \in SUBSET S
        OBVIOUS
      <4>. QED BY <4>1, <2>1, SizeStep
    <3>2. PICK c \in s : F[s] = g[c] + F[s \ {c}]
      BY <3>1, SumStep
    <3>4. F[s \ {c}] = G[s \ {c}]
      BY <3>1, <1>3
    <3>5. G[s] = h[c] + G[s \ {c}]
      BY ONLY IsFiniteSet(S), h \in [S -> Int], Summing(G, h, S), c \in s, <3>1, SumTake
    <3>. QED BY <3>2, <3>4, <3>5
  <2>. QED BY <2>1
<1>4. Good \in SUBSET Nat
  OBVIOUS
<1>5. \A n \in Nat : n \in Good
  <2>. HIDE DEF Good
  <2>. QED BY <1>2, <1>3, <1>4, NatInd
<1>. QED BY <1>1, <1>5

(* a sum of zeros *)
LEMMA SumZero ==
  ASSUME NEW S, IsFiniteSet(S), NEW g \in [S -> Int], \A x \in S : g[x] = 0
  PROVE  SumFunction(g) = 0
<1>. DEFINE Z == [s \in SUBSET S |-> 0]
<1>1. PICK F : F = CHOOSE H : Summing(H, g, S)
  OBVIOUS
<1>2. Summing(F, g, S) /\ SumFunction(g) = F[S]
  BY <1>1, SumExists, SumIs DEF SumFunction
<1>3. \A s \in SUBSET S : s # {} => /\ (CHOOSE x \in s : TRUE) \in S
                                    /\ s \ {CHOOSE x \in s : TRUE} \in SUBSET S
  OBVIOUS
<1>4. Summing(Z, g, S)
  BY <1>3 DEF Summing
<1>. HIDE DEF Z
<1>5. F[S] = Z[S]
  BY <1>2, <1>4, SumSame
<1>. QED BY <1>2, <1>5 DEF Z

(* one value changes: so does the sum *)
LEMMA SumChange ==
  ASSUME NEW S, IsFiniteSet(S), NEW g \in [S -> Int], NEW h \in [S -> Int], NEW p \in S,
         \A q \in S \ {p} : g[q] = h[q]
  PROVE  /\ SumFunction(g) \in Int /\ SumFunction(h) \in Int
         /\ SumFunction(h) = SumFunction(g) - g[p] + h[p]
<1>1. PICK F : F = CHOOSE H : Summing(H, g, S)
  OBVIOUS
<1>2. PICK G : G = CHOOSE H : Summing(H, h, S)
  OBVIOUS
<1>3. Summing(F, g, S) /\ SumFunction(g) = F[S]
  BY <1>1, SumExists, SumIs DEF SumFunction
<1>4. Summing(G, h, S) /\ SumFunction(h) = G[S]
  BY <1>2, SumExists, SumIs DEF SumFunction
<1>. HIDE DEF Summing
<1>5. F[S] = g[p] + F[S \ {p}]
  BY <1>3, SumTake
<1>8. G[S] = h[p] + G[S \ {p}]
  BY <1>4, SumTake
<1>6. F[S \ {p}] = G[S \ {p}]
  BY <1>3, <1>4, SumSame
<1>7. F[S \ {p}] \in Int /\ F[S] \in Int /\ G[S] \in Int
  BY <1>3, <1>4, SumInt
<1>. QED BY <1>3, <1>4, <1>5, <1>6, <1>7, <1>8

Stage(op, t) ==
  \/ op = "idle" /\ t \in {
         <<>>}
  \/ op = "flush" /\ t \in {
         <<"apply">>}
  \/ op = "create" /\ t \in {
         <<"lookup">>, <<"insert", "setnew">>, <<"setnew">>}
  \/ op = "comment" /\ t \in {
         <<"choose">>, <<"newcomment", "count">>, <<"count">>, <<"setcomment">>}
  \/ op = "vote" /\ t \in {
         <<"getvote", "setvote", "count">>, <<"setvote", "count">>, <<"count">>}
  \/ op = "reset" /\ t \in {
         <<"delvotes", "zerodirty", "zerorow">>, <<"zerodirty", "zerorow">>, <<"zerorow">>}
  \/ op \in {"edit", "delete"} /\ t \in {
         <<"getrow", "getbody", "nextrev", "archive", "setpost", "setrow">>,
         <<"getbody", "nextrev", "archive", "setpost", "setrow">>,
         <<"nextrev", "archive", "setpost", "setrow">>, <<"archive", "setpost", "setrow">>,
         <<"setpost", "setrow">>, <<"setrow">>}
  \/ op = "title" /\ t \in {
         <<"getrow", "getbody", "nextrev", "archive", "setrow">>,
         <<"getbody", "nextrev", "archive", "setrow">>, <<"nextrev", "archive", "setrow">>,
         <<"archive", "setrow">>, <<"setrow">>}
  \/ op = "undelete" /\ t \in {
         <<"getrow", "getbody", "setpost", "setrow">>, <<"getbody", "setpost", "setrow">>,
         <<"setpost", "setrow">>, <<"setrow">>}
  \/ op = "setmeta" /\ t \in {
         <<"setmode", "getrow", "getbody", "setpost">>, <<"getrow", "getbody", "setpost">>,
         <<"getbody", "setpost">>, <<"setpost">>}
  \/ op = "cross" /\ t \in {
         <<"getrow", "getbody", "addcross", "numcross", "setcross", "setpost">>,
         <<"getbody", "addcross", "numcross", "setcross", "setpost">>,
         <<"addcross", "numcross", "setcross", "setpost">>,
         <<"numcross", "setcross", "setpost">>, <<"setcross", "setpost">>, <<"setpost">>}
  \/ op = "cedit" /\ t \in {
         <<"getcomment", "nextrev", "archive", "setcomment", "touch">>,
         <<"nextrev", "archive", "setcomment", "touch">>,
         <<"archive", "setcomment", "touch">>, <<"setcomment", "touch">>, <<"touch">>}
  \/ op = "cdelete" /\ t \in {
         <<"getcomment", "nextrev", "archive", "setcomment">>,
         <<"nextrev", "archive", "setcomment">>, <<"archive", "setcomment">>, <<"setcomment">>}
  \/ op = "cundelete" /\ t \in {
         <<"getcomment", "setcomment">>, <<"setcomment">>}
  \/ op = "purge" /\ t \in {
         <<"getrow", "getbody", "take", "apply", "delrow", "list", "forget", "delpost", "delcomments", "dropvotes", "delhist">>,
         <<"getbody", "take", "apply", "delrow", "list", "forget", "delpost", "delcomments", "dropvotes", "delhist">>,
         <<"take", "apply", "delrow", "list", "forget", "delpost", "delcomments", "dropvotes", "delhist">>,
         <<"apply", "delrow", "list", "forget", "delpost", "delcomments", "dropvotes", "delhist">>,
         <<"delrow", "list", "forget", "delpost", "delcomments", "dropvotes", "delhist">>,
         <<"list", "forget", "delpost", "delcomments", "dropvotes", "delhist">>,
         <<"forget", "delpost", "delcomments", "dropvotes", "delhist">>,
         <<"delpost", "delcomments", "dropvotes", "delhist">>, <<"delcomments", "dropvotes", "delhist">>,
         <<"dropvotes", "delhist">>, <<"delhist">>}

Follows(op, x, y) ==
  \/ op = "flush" /\ <<x, y>> \in {
         <<"apply", "none">>}
  \/ op = "create" /\ <<x, y>> \in {
         <<"lookup", "none">>, <<"insert", "setnew">>, <<"setnew", "none">>}
  \/ op = "comment" /\ <<x, y>> \in {
         <<"choose", "none">>, <<"newcomment", "count">>, <<"count", "none">>,
         <<"setcomment", "none">>}
  \/ op = "vote" /\ <<x, y>> \in {
         <<"getvote", "setvote">>, <<"setvote", "count">>, <<"count", "none">>}
  \/ op = "reset" /\ <<x, y>> \in {
         <<"delvotes", "zerodirty">>, <<"zerodirty", "zerorow">>, <<"zerorow", "none">>}
  \/ op \in {"edit", "delete"} /\ <<x, y>> \in {
         <<"getrow", "getbody">>, <<"getbody", "nextrev">>, <<"nextrev", "archive">>,
         <<"archive", "setpost">>, <<"setpost", "setrow">>, <<"setrow", "none">>}
  \/ op = "title" /\ <<x, y>> \in {
         <<"getrow", "getbody">>, <<"getbody", "nextrev">>, <<"nextrev", "archive">>,
         <<"archive", "setrow">>, <<"setrow", "none">>}
  \/ op = "undelete" /\ <<x, y>> \in {
         <<"getrow", "getbody">>, <<"getbody", "setpost">>, <<"setpost", "setrow">>,
         <<"setrow", "none">>}
  \/ op = "setmeta" /\ <<x, y>> \in {
         <<"setmode", "getrow">>, <<"getrow", "getbody">>, <<"getbody", "setpost">>,
         <<"setpost", "none">>}
  \/ op = "cross" /\ <<x, y>> \in {
         <<"getrow", "getbody">>, <<"getbody", "addcross">>, <<"addcross", "numcross">>,
         <<"numcross", "setcross">>, <<"setcross", "setpost">>, <<"setpost", "none">>}
  \/ op = "cedit" /\ <<x, y>> \in {
         <<"getcomment", "nextrev">>, <<"nextrev", "archive">>, <<"archive", "setcomment">>,
         <<"setcomment", "touch">>, <<"touch", "none">>}
  \/ op = "cdelete" /\ <<x, y>> \in {
         <<"getcomment", "nextrev">>, <<"nextrev", "archive">>, <<"archive", "setcomment">>,
         <<"setcomment", "none">>}
  \/ op = "cundelete" /\ <<x, y>> \in {
         <<"getcomment", "setcomment">>, <<"setcomment", "none">>}
  \/ op = "purge" /\ <<x, y>> \in {
         <<"getrow", "getbody">>, <<"getbody", "take">>, <<"take", "apply">>,
         <<"apply", "delrow">>, <<"delrow", "list">>, <<"list", "forget">>,
         <<"forget", "delpost">>, <<"delpost", "delcomments">>, <<"delcomments", "dropvotes">>,
         <<"dropvotes", "delhist">>, <<"delhist", "none">>}

Accesses == {"apply", "lookup", "insert", "setnew", "choose", "newcomment", "count", "setcomment", "getvote", "setvote",
 "delvotes", "zerodirty", "zerorow", "getrow", "getbody", "nextrev", "archive", "setpost", "setrow", "setmode", "addcross",
 "numcross", "setcross", "getcomment", "touch", "take", "delrow", "list", "forget", "delpost",
 "delcomments", "dropvotes", "delhist"}
(* what is left of a program when its first access is made *)
LEMMA TailsOK ==
  ASSUME NEW op, NEW t, Stage(op, t), op # "idle"
  PROVE  /\ t # <<>> /\ t \in Seq(Accesses) /\ Head(t) # "none"
         /\ Len(t) = 1 => Follows(op, Head(t), "none")
         /\ Len(t) # 1 => /\ Tail(t) # <<>> /\ Stage(op, Tail(t))
                          /\ Follows(op, Head(t), Head(Tail(t)))
<1>1. CASE op = "flush"
  <2>1. CASE t = <<"apply">>
    BY <1>1, <2>1 DEF Stage, Follows, Accesses
  <2>. QED BY <1>1, <2>1 DEF Stage
<1>2. CASE op = "create"
  <2>1. CASE t = <<"lookup">>
    BY <1>2, <2>1 DEF Stage, Follows, Accesses
  <2>2. CASE t = <<"insert", "setnew">>
    BY <1>2, <2>2 DEF Stage, Follows, Accesses
  <2>3. CASE t = <<"setnew">>
    BY <1>2, <2>3 DEF Stage, Follows, Accesses
  <2>. QED BY <1>2, <2>1, <2>2, <2>3 DEF Stage
<1>3. CASE op = "comment"
  <2>1. CASE t = <<"choose">>
    BY <1>3, <2>1 DEF Stage, Follows, Accesses
  <2>2. CASE t = <<"newcomment", "count">>
    BY <1>3, <2>2 DEF Stage, Follows, Accesses
  <2>3. CASE t = <<"count">>
    BY <1>3, <2>3 DEF Stage, Follows, Accesses
  <2>4. CASE t = <<"setcomment">>
    BY <1>3, <2>4 DEF Stage, Follows, Accesses
  <2>. QED BY <1>3, <2>1, <2>2, <2>3, <2>4 DEF Stage
<1>4. CASE op = "vote"
  <2>1. CASE t = <<"getvote", "setvote", "count">>
    BY <1>4, <2>1 DEF Stage, Follows, Accesses
  <2>2. CASE t = <<"setvote", "count">>
    BY <1>4, <2>2 DEF Stage, Follows, Accesses
  <2>3. CASE t = <<"count">>
    BY <1>4, <2>3 DEF Stage, Follows, Accesses
  <2>. QED BY <1>4, <2>1, <2>2, <2>3 DEF Stage
<1>5. CASE op = "reset"
  <2>1. CASE t = <<"delvotes", "zerodirty", "zerorow">>
    BY <1>5, <2>1 DEF Stage, Follows, Accesses
  <2>2. CASE t = <<"zerodirty", "zerorow">>
    BY <1>5, <2>2 DEF Stage, Follows, Accesses
  <2>3. CASE t = <<"zerorow">>
    BY <1>5, <2>3 DEF Stage, Follows, Accesses
  <2>. QED BY <1>5, <2>1, <2>2, <2>3 DEF Stage
<1>6. CASE op \in {"edit", "delete"}
  <2>1. CASE t = <<"getrow", "getbody", "nextrev", "archive", "setpost", "setrow">>
    BY <1>6, <2>1 DEF Stage, Follows, Accesses
  <2>2. CASE t = <<"getbody", "nextrev", "archive", "setpost", "setrow">>
    BY <1>6, <2>2 DEF Stage, Follows, Accesses
  <2>3. CASE t = <<"nextrev", "archive", "setpost", "setrow">>
    BY <1>6, <2>3 DEF Stage, Follows, Accesses
  <2>4. CASE t = <<"archive", "setpost", "setrow">>
    BY <1>6, <2>4 DEF Stage, Follows, Accesses
  <2>5. CASE t = <<"setpost", "setrow">>
    BY <1>6, <2>5 DEF Stage, Follows, Accesses
  <2>6. CASE t = <<"setrow">>
    BY <1>6, <2>6 DEF Stage, Follows, Accesses
  <2>. QED BY <1>6, <2>1, <2>2, <2>3, <2>4, <2>5, <2>6 DEF Stage
<1>7. CASE op = "title"
  <2>1. CASE t = <<"getrow", "getbody", "nextrev", "archive", "setrow">>
    BY <1>7, <2>1 DEF Stage, Follows, Accesses
  <2>2. CASE t = <<"getbody", "nextrev", "archive", "setrow">>
    BY <1>7, <2>2 DEF Stage, Follows, Accesses
  <2>3. CASE t = <<"nextrev", "archive", "setrow">>
    BY <1>7, <2>3 DEF Stage, Follows, Accesses
  <2>4. CASE t = <<"archive", "setrow">>
    BY <1>7, <2>4 DEF Stage, Follows, Accesses
  <2>5. CASE t = <<"setrow">>
    BY <1>7, <2>5 DEF Stage, Follows, Accesses
  <2>. QED BY <1>7, <2>1, <2>2, <2>3, <2>4, <2>5 DEF Stage
<1>8. CASE op = "undelete"
  <2>1. CASE t = <<"getrow", "getbody", "setpost", "setrow">>
    BY <1>8, <2>1 DEF Stage, Follows, Accesses
  <2>2. CASE t = <<"getbody", "setpost", "setrow">>
    BY <1>8, <2>2 DEF Stage, Follows, Accesses
  <2>3. CASE t = <<"setpost", "setrow">>
    BY <1>8, <2>3 DEF Stage, Follows, Accesses
  <2>4. CASE t = <<"setrow">>
    BY <1>8, <2>4 DEF Stage, Follows, Accesses
  <2>. QED BY <1>8, <2>1, <2>2, <2>3, <2>4 DEF Stage
<1>9. CASE op = "setmeta"
  <2>1. CASE t = <<"setmode", "getrow", "getbody", "setpost">>
    BY <1>9, <2>1 DEF Stage, Follows, Accesses
  <2>2. CASE t = <<"getrow", "getbody", "setpost">>
    BY <1>9, <2>2 DEF Stage, Follows, Accesses
  <2>3. CASE t = <<"getbody", "setpost">>
    BY <1>9, <2>3 DEF Stage, Follows, Accesses
  <2>4. CASE t = <<"setpost">>
    BY <1>9, <2>4 DEF Stage, Follows, Accesses
  <2>. QED BY <1>9, <2>1, <2>2, <2>3, <2>4 DEF Stage
<1>10. CASE op = "cross"
  <2>1. CASE t = <<"getrow", "getbody", "addcross", "numcross", "setcross", "setpost">>
    BY <1>10, <2>1 DEF Stage, Follows, Accesses
  <2>2. CASE t = <<"getbody", "addcross", "numcross", "setcross", "setpost">>
    BY <1>10, <2>2 DEF Stage, Follows, Accesses
  <2>3. CASE t = <<"addcross", "numcross", "setcross", "setpost">>
    BY <1>10, <2>3 DEF Stage, Follows, Accesses
  <2>4. CASE t = <<"numcross", "setcross", "setpost">>
    BY <1>10, <2>4 DEF Stage, Follows, Accesses
  <2>5. CASE t = <<"setcross", "setpost">>
    BY <1>10, <2>5 DEF Stage, Follows, Accesses
  <2>6. CASE t = <<"setpost">>
    BY <1>10, <2>6 DEF Stage, Follows, Accesses
  <2>. QED BY <1>10, <2>1, <2>2, <2>3, <2>4, <2>5, <2>6 DEF Stage
<1>11. CASE op = "cedit"
  <2>1. CASE t = <<"getcomment", "nextrev", "archive", "setcomment", "touch">>
    BY <1>11, <2>1 DEF Stage, Follows, Accesses
  <2>2. CASE t = <<"nextrev", "archive", "setcomment", "touch">>
    BY <1>11, <2>2 DEF Stage, Follows, Accesses
  <2>3. CASE t = <<"archive", "setcomment", "touch">>
    BY <1>11, <2>3 DEF Stage, Follows, Accesses
  <2>4. CASE t = <<"setcomment", "touch">>
    BY <1>11, <2>4 DEF Stage, Follows, Accesses
  <2>5. CASE t = <<"touch">>
    BY <1>11, <2>5 DEF Stage, Follows, Accesses
  <2>. QED BY <1>11, <2>1, <2>2, <2>3, <2>4, <2>5 DEF Stage
<1>12. CASE op = "cdelete"
  <2>1. CASE t = <<"getcomment", "nextrev", "archive", "setcomment">>
    BY <1>12, <2>1 DEF Stage, Follows, Accesses
  <2>2. CASE t = <<"nextrev", "archive", "setcomment">>
    BY <1>12, <2>2 DEF Stage, Follows, Accesses
  <2>3. CASE t = <<"archive", "setcomment">>
    BY <1>12, <2>3 DEF Stage, Follows, Accesses
  <2>4. CASE t = <<"setcomment">>
    BY <1>12, <2>4 DEF Stage, Follows, Accesses
  <2>. QED BY <1>12, <2>1, <2>2, <2>3, <2>4 DEF Stage
<1>13. CASE op = "cundelete"
  <2>1. CASE t = <<"getcomment", "setcomment">>
    BY <1>13, <2>1 DEF Stage, Follows, Accesses
  <2>2. CASE t = <<"setcomment">>
    BY <1>13, <2>2 DEF Stage, Follows, Accesses
  <2>. QED BY <1>13, <2>1, <2>2 DEF Stage
<1>14. CASE op = "purge"
  <2>1. CASE t = <<"getrow", "getbody", "take", "apply", "delrow", "list", "forget", "delpost", "delcomments", "dropvotes", "delhist">>
    BY <1>14, <2>1 DEF Stage, Follows, Accesses
  <2>2. CASE t = <<"getbody", "take", "apply", "delrow", "list", "forget", "delpost", "delcomments", "dropvotes", "delhist">>
    BY <1>14, <2>2 DEF Stage, Follows, Accesses
  <2>3. CASE t = <<"take", "apply", "delrow", "list", "forget", "delpost", "delcomments", "dropvotes", "delhist">>
    BY <1>14, <2>3 DEF Stage, Follows, Accesses
  <2>4. CASE t = <<"apply", "delrow", "list", "forget", "delpost", "delcomments", "dropvotes", "delhist">>
    BY <1>14, <2>4 DEF Stage, Follows, Accesses
  <2>5. CASE t = <<"delrow", "list", "forget", "delpost", "delcomments", "dropvotes", "delhist">>
    BY <1>14, <2>5 DEF Stage, Follows, Accesses
  <2>6. CASE t = <<"list", "forget", "delpost", "delcomments", "dropvotes", "delhist">>
    BY <1>14, <2>6 DEF Stage, Follows, Accesses
  <2>7. CASE t = <<"forget", "delpost", "delcomments", "dropvotes", "delhist">>
    BY <1>14, <2>7 DEF Stage, Follows, Accesses
  <2>8. CASE t = <<"delpost", "delcomments", "dropvotes", "delhist">>
    BY <1>14, <2>8 DEF Stage, Follows, Accesses
  <2>9. CASE t = <<"delcomments", "dropvotes", "delhist">>
    BY <1>14, <2>9 DEF Stage, Follows, Accesses
  <2>10. CASE t = <<"dropvotes", "delhist">>
    BY <1>14, <2>10 DEF Stage, Follows, Accesses
  <2>11. CASE t = <<"delhist">>
    BY <1>14, <2>11 DEF Stage, Follows, Accesses
  <2>. QED BY <1>14, <2>1, <2>2, <2>3, <2>4, <2>5, <2>6, <2>7, <2>8, <2>9, <2>10, <2>11 DEF Stage
<1>. QED BY <1>1, <1>2, <1>3, <1>4, <1>5, <1>6, <1>7, <1>8, <1>9, <1>10, <1>11, <1>12, <1>13, <1>14 DEF Stage
-----------------------------------------------------------------------------
(* Types *)

(* what a purge has listed *)
Listing == [xposts : {X \in SUBSET Nat : IsFiniteSet(X)}, comments : SUBSET Seqs,
            hist : [{0} \cup Seqs -> Nat], votes : SUBSET Users]

Known == Post \cup Comment \cup Votes \cup Delta \cup {None} \cup Listing
Req == [op : DOMAIN Program \cup {"idle", "flush"}, id : Ids, todo : Seq(Accesses),
        user : Users \cup {None}, vote : Votes, old : Known, post : Post \cup {None},
        seq : {0} \cup Seqs, rev : Nat, at : Times, view : [mod : Times, body : Ids] \cup {None}]

Ops == {"create", "comment", "vote", "reset", "edit", "title", "delete", "undelete", "setmeta",
        "cross", "cedit", "cdelete", "cundelete", "purge"}
ArticleOps == {"edit", "title", "delete", "undelete", "setmeta", "cross"}
CommentOps == {"cedit", "cdelete", "cundelete"}

(* r has read the comment, or the article, that it is about to change *)
HoldsComment(r) ==
  Here(r) = "setcomment" \/ (r.op \in CommentOps /\ Here(r) \in {"nextrev", "archive"})
HoldsPost(r) ==
  /\ r.op \in ArticleOps
  /\ Here(r) \in {"nextrev", "archive", "setpost", "setrow", "addcross", "numcross", "setcross"}

(* what a request knows at each of its accesses *)
Knows(r) ==
  /\ r.op = "idle" => r.seq = 0 /\ r.post = None
  /\ r.op \in {"vote", "comment"} => r.user \in Users
  /\ r.op = "vote" /\ Here(r) \in {"setvote", "count"} => r.old \in Votes
  /\ Here(r) = "apply" => r.old \in Delta
  /\ Here(r) \in {"newcomment"} => r.seq \in Seqs
  /\ r.op \in CommentOps => r.seq \in Seqs /\ r.post = None
  /\ HoldsComment(r) => r.old \in Comment /\ r.seq \in Seqs
  /\ r.op \in ArticleOps => r.seq = 0
  /\ HoldsPost(r) => r.post \in Post /\ r.old \in Post
  /\ Here(r) = "getbody" => r.post \in Post
  /\ Here(r) = "archive" => r.rev # 0
  /\ Here(r) \in {"forget", "delpost", "delcomments", "dropvotes", "delhist"} => r.old \in Listing
  /\ r.op = "edit" /\ r.view # None /\ Here(r) \in {"nextrev", "archive", "setpost"} => r.post.mod = r.view.mod

ReqOK ==
  /\ req \in [Procs -> Req]
  /\ \A p \in Procs : Stage(req[p].op, req[p].todo) /\ Knows(req[p])

Types == TypeOK /\ ReqOK

(* the requests *)
LEMMA ProgramOps == DOMAIN Program = Ops
BY DEF Program, Ops

(* a goroutine that does nothing *)
LEMMA IdleOK == Idle \in Req /\ Stage(Idle.op, Idle.todo) /\ Knows(Idle) /\ Here(Idle) = "none"
<1>1. <<>> \in Seq(Accesses)
  OBVIOUS
<1>2. Idle \in Req
  BY <1>1, PostStoreAssumption DEF Idle, Req, Known, Votes, Ids, Times
<1>3. Stage(Idle.op, Idle.todo)
  BY DEF Idle, Stage
<1>4. Here(Idle) = "none" /\ Idle.op = "idle" /\ Idle.seq = 0 /\ Idle.post = None
  BY DEF Here, Idle
<1>5. Knows(Idle)
  BY <1>4 DEF Knows, HoldsComment, HoldsPost, CommentOps, ArticleOps
<1>. QED BY <1>2, <1>3, <1>4, <1>5

(* A request makes the first access of its list, and goes on with the next *)
LEMMA Moves ==
  ASSUME ReqOK, NEW p \in Procs, Here(req[p]) # "none",
         NEW s \in Req, s.op = req[p].op, s.todo = req[p].todo, Continue(p, s)
  PROVE  /\ req' = [req EXCEPT ![p] = req'[p]] /\ req'[p] \in Req
         /\ Stage(req'[p].op, req'[p].todo)
         /\ \/ Follows(req[p].op, Here(req[p]), "none") /\ req'[p] = Idle
            \/ /\ Follows(req[p].op, Here(req[p]), Here(req'[p])) /\ Here(req'[p]) # "none"
               /\ req'[p] = [s EXCEPT !.todo = req'[p].todo]
<1>. DEFINE t == req[p].todo  op == req[p].op
<1>1. Stage(op, t) /\ op # "idle" /\ t # <<>> /\ Here(req[p]) = Head(t) /\ t \in Seq(Accesses)
  BY DEF ReqOK, Here, Stage, Req
<1>2. /\ Head(t) # "none"
      /\ Len(t) = 1 => Follows(op, Head(t), "none")
      /\ Len(t) # 1 => /\ Tail(t) # <<>> /\ Stage(op, Tail(t))
                       /\ Follows(op, Head(t), Head(Tail(t)))
  BY <1>1, TailsOK
<1>3. CASE Len(t) = 1
  <2>1. req' = [req EXCEPT ![p] = Idle] /\ req'[p] = Idle
    BY <1>3 DEF Continue, ReqOK
  <2>. QED BY <1>1, <1>2, <1>3, <2>1, IdleOK
<1>4. CASE Len(t) # 1
  <2>1. req' = [req EXCEPT ![p] = [s EXCEPT !.todo = Tail(t)]]
    BY <1>4 DEF Continue, ReqOK
  <2>2. req'[p] = [s EXCEPT !.todo = Tail(t)]
    BY <2>1 DEF ReqOK
  <2>3. Tail(t) \in Seq(Accesses)
    BY <1>1
  <2>4. req'[p] \in Req /\ req'[p].todo = Tail(t) /\ req'[p].op = op
    BY <2>2, <2>3 DEF Req
  <2>5. Here(req'[p]) = Head(Tail(t)) /\ Head(Tail(t)) # "none"
    <3>1. Head(Tail(t)) # "none"
      <4>1. Stage(op, Tail(t)) /\ op # "idle"
        BY <1>1, <1>2, <1>4
      <4>. QED BY <4>1, TailsOK
    <3>. QED BY <1>2, <1>4, <2>4, <3>1 DEF Here
  <2>. QED BY <1>1, <1>2, <1>4, <2>1, <2>2, <2>4, <2>5
<1>. QED BY <1>3, <1>4

(* p has gone on, the others have not *)
LEMMA ReqMoved ==
  ASSUME ReqOK, NEW p \in Procs, req' = [req EXCEPT ![p] = req'[p]], req'[p] \in Req,
         Stage(req'[p].op, req'[p].todo), Knows(req'[p])
  PROVE  ReqOK'
BY DEF ReqOK, Knows, Here, HoldsComment, HoldsPost

(* nobody has gone on *)
LEMMA ReqSame == ReqOK /\ UNCHANGED req => ReqOK'
BY DEF ReqOK, Knows, Here, HoldsComment, HoldsPost

(* the first access of each request *)
Begins(op) ==
  CASE op = "create" -> "lookup"
    [] op = "comment" -> "choose"
    [] op = "vote" -> "getvote"
    [] op = "reset" -> "delvotes"
    [] op = "setmeta" -> "setmode"
    [] op \in CommentOps -> "getcomment"
    [] OTHER -> "getrow"

(* a program begins with its first access *)
LEMMA ProgramStages ==
  ASSUME NEW op \in Ops
  PROVE  /\ Stage(op, Program[op]) /\ Program[op] \in Seq(Accesses) /\ Program[op] # <<>>
         /\ Head(Program[op]) = Begins(op)
<1>1. CASE op = "create" BY <1>1 DEF Program, Stage, Accesses, Begins, CommentOps
<1>2. CASE op = "comment" BY <1>2 DEF Program, Stage, Accesses, Begins, CommentOps
<1>3. CASE op = "vote" BY <1>3 DEF Program, Stage, Accesses, Begins, CommentOps
<1>4. CASE op = "reset" BY <1>4 DEF Program, Stage, Accesses, Begins, CommentOps
<1>5. CASE op = "edit" BY <1>5 DEF Program, Stage, Accesses, Begins, CommentOps
<1>6. CASE op = "title" BY <1>6 DEF Program, Stage, Accesses, Begins, CommentOps
<1>7. CASE op = "delete" BY <1>7 DEF Program, Stage, Accesses, Begins, CommentOps
<1>8. CASE op = "undelete" BY <1>8 DEF Program, Stage, Accesses, Begins, CommentOps
<1>9. CASE op = "setmeta" BY <1>9 DEF Program, Stage, Accesses, Begins, CommentOps
<1>10. CASE op = "cross" BY <1>10 DEF Program, Stage, Accesses, Begins, CommentOps
<1>11. CASE op = "cedit" BY <1>11 DEF Program, Stage, Accesses, Begins, CommentOps
<1>12. CASE op = "cdelete" BY <1>12 DEF Program, Stage, Accesses, Begins, CommentOps
<1>13. CASE op = "cundelete" BY <1>13 DEF Program, Stage, Accesses, Begins, CommentOps
<1>14. CASE op = "purge" BY <1>14 DEF Program, Stage, Accesses, Begins, CommentOps
<1>. QED BY <1>1, <1>2, <1>3, <1>4, <1>5, <1>6, <1>7, <1>8, <1>9, <1>10, <1>11, <1>12, <1>13, <1>14 DEF Ops

(* A new request knows nothing but what it was sent. *)
LEMMA StartOK ==
  ASSUME Types, NEW p \in Procs, NEW op \in Ops, NEW r \in Req, Start(p, op, r), r.post = None,
         op \in {"vote", "comment"} => r.user \in Users,
         r.seq = 0 \/ (op \in CommentOps /\ r.seq \in Seqs),
         op \in CommentOps => r.seq \in Seqs
  PROVE  /\ Types' /\ req' = [req EXCEPT ![p] = req'[p]] /\ req'[p].op = op
         /\ Here(req'[p]) = Begins(op) /\ req[p].op = "idle" /\ Here(req[p]) = "none"
<1>. DEFINE n == [r EXCEPT !.op = op, !.id = reqs + 1, !.todo = Program[op]]
<1>1. req' = [req EXCEPT ![p] = n] /\ req'[p] = n
  BY DEF Start, Types, ReqOK
<1>2. reqs + 1 \in Ids /\ reqs' \in Ids
  BY PostStoreAssumption DEF Start, Types, TypeOK, Ids
<1>3. n \in Req /\ n.op = op /\ n.todo = Program[op] /\ n.user = r.user /\ n.seq = r.seq /\ n.post = None
  BY <1>2, ProgramStages, ProgramOps DEF Req
<1>4. Here(n) = Begins(op)
  BY <1>3, ProgramStages DEF Here
<1>. HIDE DEF n
<1>5. Knows(n)
  BY <1>3, <1>4 DEF Knows, HoldsComment, HoldsPost, Begins, CommentOps, ArticleOps, Ops
<1>6. Stage(n.op, n.todo)
  BY <1>3, ProgramStages
<1>7. ReqOK'
  BY <1>1, <1>3, <1>5, <1>6, ReqMoved DEF Types
<1>8. req[p].op = "idle" /\ Here(req[p]) = "none"
  BY DEF Start, Types, ReqOK, Stage, Here
<1>9. TypeOK'
  BY <1>2, <1>7, ProgramOps DEF Types, TypeOK, ReqOK, Req, Start, ghosts
<1>. QED BY <1>1, <1>3, <1>4, <1>7, <1>8, <1>9 DEF Types

(* whatever is asked for *)
LEMMA RequestOK ==
  ASSUME Types, NEW p \in Procs, Request(p)
  PROVE  /\ Types' /\ req' = [req EXCEPT ![p] = req'[p]] /\ req'[p].op \in Ops
         /\ Here(req'[p]) = Begins(req'[p].op) /\ req[p].op = "idle" /\ Here(req[p]) = "none"
         /\ req'[p].op = "create" \/ row # None
         /\ UNCHANGED <<db, row, mem, up, now, crashes, ghosts>>
<1>0. Idle \in Req /\ Idle.seq = 0 /\ Idle.post = None
  BY IdleOK DEF Idle
<1>1. CASE Start(p, "create", Idle)
  BY <1>0, <1>1, StartOK DEF Ops, CommentOps, Start
<1>2. CASE row # None /\ Start(p, "edit", req[p])
  <2>1. req[p] \in Req /\ req[p].seq = 0 /\ req[p].post = None
    BY <1>2 DEF Types, ReqOK, Knows, Start
  <2>. QED BY <1>2, <2>1, StartOK DEF Ops, CommentOps, Start
<1>3. CASE row # None /\ \E u \in Users : Start(p, "comment", [Idle EXCEPT !.user = u])
  <2>1. PICK u \in Users : Start(p, "comment", [Idle EXCEPT !.user = u])
    BY <1>3
  <2>2. [Idle EXCEPT !.user = u] \in Req /\ [Idle EXCEPT !.user = u].user = u
        /\ [Idle EXCEPT !.user = u].seq = 0 /\ [Idle EXCEPT !.user = u].post = None
    BY IdleOK DEF Idle, Req
  <2>3. "comment" \in Ops /\ "comment" \notin CommentOps
    BY DEF Ops, CommentOps
  <2>4. /\ Types' /\ req' = [req EXCEPT ![p] = req'[p]] /\ req'[p].op = "comment"
        /\ Here(req'[p]) = Begins("comment") /\ req[p].op = "idle" /\ Here(req[p]) = "none"
    BY <2>1, <2>2, <2>3, StartOK
  <2>. QED BY <1>3, <2>1, <2>3, <2>4 DEF Start
<1>4. CASE row # None /\ \E u \in Users, v \in Votes :
             Start(p, "vote", [Idle EXCEPT !.user = u, !.vote = v])
  <2>1. PICK u \in Users, v \in Votes : Start(p, "vote", [Idle EXCEPT !.user = u, !.vote = v])
    BY <1>4
  <2>. DEFINE r == [Idle EXCEPT !.user = u, !.vote = v]
  <2>2. r \in Req /\ r.user = u /\ r.seq = 0 /\ r.post = None
    BY IdleOK DEF Idle, Req
  <2>. HIDE DEF r
  <2>3. Start(p, "vote", r) /\ "vote" \in Ops /\ "vote" \notin CommentOps
    BY <2>1 DEF r, Ops, CommentOps
  <2>4. /\ Types' /\ req' = [req EXCEPT ![p] = req'[p]] /\ req'[p].op = "vote"
        /\ Here(req'[p]) = Begins("vote") /\ req[p].op = "idle" /\ Here(req[p]) = "none"
    BY <2>2, <2>3, StartOK
  <2>. QED BY <1>4, <2>3, <2>4 DEF Start
<1>5. CASE row # None /\ \E op \in {"reset", "title", "delete", "undelete", "setmeta", "cross", "purge"} :
             Start(p, op, Idle)
  <2>1. PICK op \in {"reset", "title", "delete", "undelete", "setmeta", "cross", "purge"} :
             Start(p, op, Idle)
    BY <1>5
  <2>2. op \in Ops /\ op \notin CommentOps /\ op \notin {"vote", "comment"}
    BY DEF Ops, CommentOps
  <2>. QED BY <1>0, <1>5, <2>1, <2>2, StartOK DEF Start
<1>6. CASE row # None /\ \E s \in Present(db.comments), op \in CommentOps :
             Start(p, op, [Idle EXCEPT !.seq = s])
  <2>1. PICK s \in Present(db.comments), op \in CommentOps : Start(p, op, [Idle EXCEPT !.seq = s])
    BY <1>6
  <2>. DEFINE r == [Idle EXCEPT !.seq = s]
  <2>2. s \in Seqs
    BY DEF Present, Types, TypeOK
  <2>3. r \in Req /\ r.seq = s /\ r.post = None
    BY <2>2, IdleOK DEF Idle, Req
  <2>4. op \in Ops /\ op \notin {"vote", "comment"}
    BY DEF Ops, CommentOps
  <2>. HIDE DEF r
  <2>5. Start(p, op, r)
    BY <2>1 DEF r
  <2>6. /\ Types' /\ req' = [req EXCEPT ![p] = req'[p]] /\ req'[p].op = op
        /\ Here(req'[p]) = Begins(op) /\ req[p].op = "idle" /\ Here(req[p]) = "none"
    BY <2>2, <2>3, <2>4, <2>5, StartOK
  <2>7. UNCHANGED <<db, row, mem, up, now, crashes, ghosts>>
    BY <2>5 DEF Start
  <2>. QED BY <1>6, <2>4, <2>6, <2>7
<1>. QED BY <1>1, <1>2, <1>3, <1>4, <1>5, <1>6 DEF Request, CommentOps

-----------------------------------------------------------------------------
(* What each access does to its request *)

(* r goes on as n, and has learned nothing ... *)
Same(n, r) ==
  /\ n.op = r.op /\ n.id = r.id /\ n.user = r.user /\ n.vote = r.vote /\ n.seq = r.seq
  /\ n.old = r.old /\ n.post = r.post /\ n.rev = r.rev /\ n.at = r.at /\ n.view = r.view
(* ... or the old value, ... *)
SameButOld(n, r) ==
  /\ n.op = r.op /\ n.id = r.id /\ n.user = r.user /\ n.vote = r.vote /\ n.seq = r.seq
  /\ n.post = r.post /\ n.rev = r.rev /\ n.at = r.at /\ n.view = r.view
(* ... or the article, ... *)
SameButPost(n, r) ==
  /\ n.op = r.op /\ n.id = r.id /\ n.user = r.user /\ n.vote = r.vote /\ n.seq = r.seq
  /\ n.rev = r.rev /\ n.at = r.at /\ n.view = r.view
(* ... or a number. *)
SameButRev(n, r) ==
  /\ n.op = r.op /\ n.id = r.id /\ n.user = r.user /\ n.vote = r.vote /\ n.seq = r.seq
  /\ n.old = r.old /\ n.post = r.post /\ n.at = r.at /\ n.view = r.view
SameButAt(n, r) ==
  /\ n.op = r.op /\ n.id = r.id /\ n.user = r.user /\ n.vote = r.vote /\ n.seq = r.seq
  /\ n.old = r.old /\ n.post = r.post /\ n.rev = r.rev /\ n.view = r.view

Ends(p) == req' = [req EXCEPT ![p] = Idle] /\ req'[p] = Idle

(* a request that is refused ends *)
LEMMA RefuseOK ==
  ASSUME ReqOK, NEW p \in Procs, Refuse(p)
  PROVE  ReqOK' /\ Ends(p)
<1>1. Ends(p)
  BY DEF ReqOK, Refuse, Ends
<1>. QED BY <1>1, IdleOK, ReqMoved DEF Ends

(* A request that has learned nothing knows what it needs at its next access
   if it is none of those that need what was read just before. *)
LEMMA SameMoves ==
  ASSUME ReqOK, NEW p \in Procs, Continue(p, req[p]),
         Here(req[p]) \notin {"none", "getrow", "getbody", "getcomment", "getvote", "nextrev", "take", "list"}
  PROVE  /\ ReqOK' /\ req' = [req EXCEPT ![p] = req'[p]]
         /\ \/ Follows(req[p].op, Here(req[p]), "none") /\ req'[p] = Idle
            \/ /\ Follows(req[p].op, Here(req[p]), Here(req'[p])) /\ Here(req'[p]) # "none"
               /\ Same(req'[p], req[p])
<1>1. req[p] \in Req /\ Knows(req[p])
  BY DEF ReqOK
<1>2. /\ req' = [req EXCEPT ![p] = req'[p]] /\ req'[p] \in Req
      /\ Stage(req'[p].op, req'[p].todo)
      /\ \/ Follows(req[p].op, Here(req[p]), "none") /\ req'[p] = Idle
         \/ /\ Follows(req[p].op, Here(req[p]), Here(req'[p])) /\ Here(req'[p]) # "none"
            /\ req'[p] = [req[p] EXCEPT !.todo = req'[p].todo]
  BY <1>1, Moves
<1>3. CASE req'[p] = Idle /\ Follows(req[p].op, Here(req[p]), "none")
  BY <1>2, <1>3, IdleOK, ReqMoved
<1>4. CASE /\ Follows(req[p].op, Here(req[p]), Here(req'[p])) /\ Here(req'[p]) # "none"
           /\ req'[p] = [req[p] EXCEPT !.todo = req'[p].todo]
  <2>1. Same(req'[p], req[p])
    BY <1>1, <1>4 DEF Same, Req
  <2>2. Knows(req'[p])
    BY <1>1, <1>4, <2>1 DEF Knows, HoldsComment, HoldsPost, CommentOps, ArticleOps, Follows, Same
  <2>. QED BY <1>2, <1>4, <2>1, <2>2, ReqMoved
<1>. QED BY <1>2, <1>3, <1>4
(* the accesses from which a request learns nothing *)
LEMMA Go_insert ==
  ASSUME ReqOK, NEW p \in Procs, Here(req[p]) = "insert", Continue(p, req[p])
  PROVE  /\ ReqOK' /\ req' = [req EXCEPT ![p] = req'[p]]
         /\ req[p].op = "create" /\ Here(req'[p]) = "setnew" /\ Same(req'[p], req[p])
BY SameMoves DEF Follows, CommentOps

(* the record that CreatePost stores *)
LEMMA Go_setnew ==
  ASSUME ReqOK, NEW p \in Procs, Here(req[p]) = "setnew", Continue(p, req[p])
  PROVE  /\ ReqOK' /\ req' = [req EXCEPT ![p] = req'[p]]
         /\ req[p].op = "create" /\ req'[p] = Idle
BY SameMoves DEF Follows, CommentOps

(* the comment that AddComment stores *)
LEMMA Go_newcomment ==
  ASSUME ReqOK, NEW p \in Procs, Here(req[p]) = "newcomment", Continue(p, req[p])
  PROVE  /\ ReqOK' /\ req' = [req EXCEPT ![p] = req'[p]]
         /\ req[p].op = "comment" /\ Here(req'[p]) = "count" /\ Same(req'[p], req[p])
BY SameMoves DEF Follows, CommentOps

(* the registration in dirtyDeltas *)
LEMMA Go_count ==
  ASSUME ReqOK, NEW p \in Procs, Here(req[p]) = "count", Continue(p, req[p])
  PROVE  /\ ReqOK' /\ req' = [req EXCEPT ![p] = req'[p]]
         /\ req[p].op \in {"comment", "vote"} /\ req'[p] = Idle
BY SameMoves DEF Follows, CommentOps

(* a comment that is stored again *)
LEMMA Go_setcomment ==
  ASSUME ReqOK, NEW p \in Procs, Here(req[p]) = "setcomment", Continue(p, req[p])
  PROVE  /\ ReqOK' /\ req' = [req EXCEPT ![p] = req'[p]]
         /\ \/ req[p].op \in {"comment", "cdelete", "cundelete"} /\ req'[p] = Idle
            \/ req[p].op = "cedit" /\ Here(req'[p]) = "touch" /\ Same(req'[p], req[p])
BY SameMoves DEF Follows, CommentOps

(* the new time of the article after UpdateComment *)
LEMMA Go_touch ==
  ASSUME ReqOK, NEW p \in Procs, Here(req[p]) = "touch", Continue(p, req[p])
  PROVE  /\ ReqOK' /\ req' = [req EXCEPT ![p] = req'[p]]
         /\ req[p].op = "cedit" /\ req'[p] = Idle
BY SameMoves DEF Follows, CommentOps

(* the vote that VotePost stores *)
LEMMA Go_setvote ==
  ASSUME ReqOK, NEW p \in Procs, Here(req[p]) = "setvote", Continue(p, req[p])
  PROVE  /\ ReqOK' /\ req' = [req EXCEPT ![p] = req'[p]]
         /\ req[p].op = "vote" /\ Here(req'[p]) = "count" /\ Same(req'[p], req[p])
BY SameMoves DEF Follows, CommentOps

(* the deletion of the votes *)
LEMMA Go_delvotes ==
  ASSUME ReqOK, NEW p \in Procs, Here(req[p]) = "delvotes", Continue(p, req[p])
  PROVE  /\ ReqOK' /\ req' = [req EXCEPT ![p] = req'[p]]
         /\ req[p].op = "reset" /\ Here(req'[p]) = "zerodirty" /\ Same(req'[p], req[p])
BY SameMoves DEF Follows, CommentOps

(* the votes in dirtyDeltas are set to zero *)
LEMMA Go_zerodirty ==
  ASSUME ReqOK, NEW p \in Procs, Here(req[p]) = "zerodirty", Continue(p, req[p])
  PROVE  /\ ReqOK' /\ req' = [req EXCEPT ![p] = req'[p]]
         /\ req[p].op = "reset" /\ Here(req'[p]) = "zerorow" /\ Same(req'[p], req[p])
BY SameMoves DEF Follows, CommentOps

(* the votes in SQLite are set to zero *)
LEMMA Go_zerorow ==
  ASSUME ReqOK, NEW p \in Procs, Here(req[p]) = "zerorow", Continue(p, req[p])
  PROVE  /\ ReqOK' /\ req' = [req EXCEPT ![p] = req'[p]]
         /\ req[p].op = "reset" /\ req'[p] = Idle
BY SameMoves DEF Follows, CommentOps

(* the UPDATE at the end of a change *)
LEMMA Go_setrow ==
  ASSUME ReqOK, NEW p \in Procs, Here(req[p]) = "setrow", Continue(p, req[p])
  PROVE  /\ ReqOK' /\ req' = [req EXCEPT ![p] = req'[p]]
         /\ req[p].op \in {"edit", "title", "delete", "undelete"} /\ req'[p] = Idle
BY SameMoves DEF Follows, CommentOps

(* the mode that SetPostMeta sets in SQLite *)
LEMMA Go_setmode ==
  ASSUME ReqOK, NEW p \in Procs, Here(req[p]) = "setmode", Continue(p, req[p])
  PROVE  /\ ReqOK' /\ req' = [req EXCEPT ![p] = req'[p]]
         /\ req[p].op = "setmeta" /\ Here(req'[p]) = "getrow" /\ Same(req'[p], req[p])
BY SameMoves DEF Follows, CommentOps

(* the counter of crossposts *)
LEMMA Go_addcross ==
  ASSUME ReqOK, NEW p \in Procs, Here(req[p]) = "addcross", Continue(p, req[p])
  PROVE  /\ ReqOK' /\ req' = [req EXCEPT ![p] = req'[p]]
         /\ req[p].op = "cross" /\ Here(req'[p]) = "numcross" /\ Same(req'[p], req[p])
BY SameMoves DEF Follows, CommentOps

(* the record of a crosspost *)
LEMMA Go_setcross ==
  ASSUME ReqOK, NEW p \in Procs, Here(req[p]) = "setcross", Continue(p, req[p])
  PROVE  /\ ReqOK' /\ req' = [req EXCEPT ![p] = req'[p]]
         /\ req[p].op = "cross" /\ Here(req'[p]) = "setpost" /\ Same(req'[p], req[p])
BY SameMoves DEF Follows, CommentOps

(* the transaction of a flush *)
LEMMA Go_apply ==
  ASSUME ReqOK, NEW p \in Procs, Here(req[p]) = "apply", Continue(p, req[p])
  PROVE  /\ ReqOK' /\ req' = [req EXCEPT ![p] = req'[p]]
         /\ \/ req[p].op = "purge" /\ Here(req'[p]) = "delrow" /\ Same(req'[p], req[p])
            \/ req[p].op = "flush" /\ req'[p] = Idle
BY SameMoves DEF Follows, CommentOps

(* the DELETE of a purge *)
LEMMA Go_delrow ==
  ASSUME ReqOK, NEW p \in Procs, Here(req[p]) = "delrow", Continue(p, req[p])
  PROVE  /\ ReqOK' /\ req' = [req EXCEPT ![p] = req'[p]]
         /\ req[p].op = "purge" /\ Here(req'[p]) = "list" /\ Same(req'[p], req[p])
BY SameMoves DEF Follows, CommentOps

(* a purge empties dirtyDeltas and postSeqs *)
LEMMA Go_forget ==
  ASSUME ReqOK, NEW p \in Procs, Here(req[p]) = "forget", Continue(p, req[p])
  PROVE  /\ ReqOK' /\ req' = [req EXCEPT ![p] = req'[p]]
         /\ req[p].op = "purge" /\ Here(req'[p]) = "delpost" /\ Same(req'[p], req[p])
BY SameMoves DEF Follows, CommentOps

(* a purge deletes the record *)
LEMMA Go_delpost ==
  ASSUME ReqOK, NEW p \in Procs, Here(req[p]) = "delpost", Continue(p, req[p])
  PROVE  /\ ReqOK' /\ req' = [req EXCEPT ![p] = req'[p]]
         /\ req[p].op = "purge" /\ Here(req'[p]) = "delcomments" /\ Same(req'[p], req[p])
BY SameMoves DEF Follows, CommentOps

(* a purge deletes the comments *)
LEMMA Go_delcomments ==
  ASSUME ReqOK, NEW p \in Procs, Here(req[p]) = "delcomments", Continue(p, req[p])
  PROVE  /\ ReqOK' /\ req' = [req EXCEPT ![p] = req'[p]]
         /\ req[p].op = "purge" /\ Here(req'[p]) = "dropvotes" /\ Same(req'[p], req[p])
BY SameMoves DEF Follows, CommentOps

(* a purge deletes the votes *)
LEMMA Go_dropvotes ==
  ASSUME ReqOK, NEW p \in Procs, Here(req[p]) = "dropvotes", Continue(p, req[p])
  PROVE  /\ ReqOK' /\ req' = [req EXCEPT ![p] = req'[p]]
         /\ req[p].op = "purge" /\ Here(req'[p]) = "delhist" /\ Same(req'[p], req[p])
BY SameMoves DEF Follows, CommentOps

(* a purge deletes the history *)
LEMMA Go_delhist ==
  ASSUME ReqOK, NEW p \in Procs, Here(req[p]) = "delhist", Continue(p, req[p])
  PROVE  /\ ReqOK' /\ req' = [req EXCEPT ![p] = req'[p]]
         /\ req[p].op = "purge" /\ req'[p] = Idle
BY SameMoves DEF Follows, CommentOps

(* which requests make which access *)
LEMMA HereOps ==
  ASSUME ReqOK, NEW p \in Procs, Here(req[p]) # "none"
  PROVE  \E y : Follows(req[p].op, Here(req[p]), y)
<1>. DEFINE t == req[p].todo  op == req[p].op
<1>1. Stage(op, t) /\ op # "idle" /\ Here(req[p]) = Head(t)
  BY DEF ReqOK, Here, Stage
<1>2. Follows(op, Head(t), "none") \/ Follows(op, Head(t), Head(Tail(t)))
  BY <1>1, TailsOK
<1>. QED BY <1>1, <1>2

(* A request that has learned s. *)
LEMMA Learns ==
  ASSUME ReqOK, NEW p \in Procs, Here(req[p]) # "none",
         NEW s \in Req, s.op = req[p].op, s.todo = req[p].todo, Continue(p, s)
  PROVE  /\ req' = [req EXCEPT ![p] = req'[p]]
         /\ \/ Follows(req[p].op, Here(req[p]), "none") /\ req'[p] = Idle /\ ReqOK'
            \/ /\ Follows(req[p].op, Here(req[p]), Here(req'[p])) /\ Here(req'[p]) # "none"
               /\ Same(req'[p], s) /\ (Knows(req'[p]) => ReqOK')
<1>1. /\ req' = [req EXCEPT ![p] = req'[p]] /\ req'[p] \in Req
      /\ Stage(req'[p].op, req'[p].todo)
      /\ \/ Follows(req[p].op, Here(req[p]), "none") /\ req'[p] = Idle
         \/ /\ Follows(req[p].op, Here(req[p]), Here(req'[p])) /\ Here(req'[p]) # "none"
            /\ req'[p] = [s EXCEPT !.todo = req'[p].todo]
  BY Moves
<1>2. CASE req'[p] = Idle /\ Follows(req[p].op, Here(req[p]), "none")
  BY <1>1, <1>2, IdleOK, ReqMoved
<1>3. CASE req'[p] = [s EXCEPT !.todo = req'[p].todo]
  <2>1. Same(req'[p], s)
    BY <1>1, <1>3 DEF Same, Req
  <2>. QED BY <1>1, <1>2, <2>1, ReqMoved
<1>. QED BY <1>1, <1>2, <1>3

(* the accesses that read something *)
LEMMA Go_getvote ==
  ASSUME Types, NEW p \in Procs, getvote(p)
  PROVE  /\ ReqOK' /\ req' = [req EXCEPT ![p] = req'[p]] /\ req[p].op = "vote"
         /\ \/ req'[p] = Idle
            \/ /\ Here(req'[p]) = "setvote" /\ SameButOld(req'[p], req[p])
               /\ req'[p].old = db.votes[req[p].user]
<1>. DEFINE prev == db.votes[req[p].user]  s == [req[p] EXCEPT !.old = prev]
<1>1. ReqOK /\ req[p] \in Req /\ Knows(req[p]) /\ Here(req[p]) = "getvote"
  BY DEF Types, ReqOK, getvote, At
<1>2. req[p].op = "vote"
  BY <1>1, HereOps DEF Follows
<1>3. CASE Refuse(p)
  BY <1>1, <1>2, <1>3, RefuseOK DEF Ends
<1>4. CASE Continue(p, s)
  <2>1. prev \in Votes
    BY <1>1, <1>2 DEF Types, TypeOK, Knows
  <2>2. s \in Req /\ s.op = req[p].op /\ s.todo = req[p].todo /\ SameButOld(s, req[p]) /\ s.old = prev
    BY <1>1, <2>1 DEF Req, Known, SameButOld
  <2>. HIDE DEF s
  <2>3. /\ req' = [req EXCEPT ![p] = req'[p]] /\ Here(req'[p]) = "setvote"
        /\ Same(req'[p], s) /\ (Knows(req'[p]) => ReqOK')
    BY <1>1, <1>2, <1>4, <2>2, Learns DEF Follows
  <2>4. SameButOld(req'[p], req[p]) /\ req'[p].old = prev
    BY <2>2, <2>3 DEF SameButOld, Same
  <2>5. Knows(req'[p])
    BY <1>1, <1>2, <2>1, <2>3, <2>4 DEF Knows, HoldsComment, HoldsPost, CommentOps, ArticleOps, SameButOld
  <2>. QED BY <1>2, <2>3, <2>4, <2>5
<1>. QED BY <1>3, <1>4 DEF getvote

(* a comment is read to be changed *)
LEMMA Go_getcomment ==
  ASSUME Types, NEW p \in Procs, getcomment(p)
  PROVE  /\ ReqOK' /\ req' = [req EXCEPT ![p] = req'[p]] /\ req[p].op \in CommentOps
         /\ \/ req'[p] = Idle
            \/ /\ Here(req'[p]) = IF req[p].op = "cundelete" THEN "setcomment" ELSE "nextrev"
               /\ SameButOld(req'[p], req[p])
               /\ req'[p].old = db.comments[req[p].seq] /\ db.comments[req[p].seq] # None
<1>. DEFINE c == db.comments[req[p].seq]  s == [req[p] EXCEPT !.old = c]
<1>1. ReqOK /\ req[p] \in Req /\ Knows(req[p]) /\ Here(req[p]) = "getcomment"
  BY DEF Types, ReqOK, getcomment, At
<1>2. req[p].op \in CommentOps
  BY <1>1, HereOps DEF Follows, CommentOps
<1>3. CASE Refuse(p)
  BY <1>1, <1>2, <1>3, RefuseOK DEF Ends
<1>4. CASE c # None /\ Continue(p, s)
  <2>1. c \in Comment
    BY <1>1, <1>2, <1>4 DEF Types, TypeOK, Knows
  <2>2. s \in Req /\ s.op = req[p].op /\ s.todo = req[p].todo /\ SameButOld(s, req[p]) /\ s.old = c
    BY <1>1, <2>1 DEF Req, Known, SameButOld
  <2>. HIDE DEF s
  <2>3. /\ req' = [req EXCEPT ![p] = req'[p]]
        /\ Here(req'[p]) = IF req[p].op = "cundelete" THEN "setcomment" ELSE "nextrev"
        /\ Same(req'[p], s) /\ (Knows(req'[p]) => ReqOK')
    BY <1>1, <1>2, <1>4, <2>2, Learns DEF Follows, CommentOps
  <2>4. SameButOld(req'[p], req[p]) /\ req'[p].old = c
    BY <2>2, <2>3 DEF SameButOld, Same
  <2>5. Knows(req'[p])
    BY <1>1, <1>2, <2>1, <2>3, <2>4 DEF Knows, HoldsComment, HoldsPost, CommentOps, ArticleOps, SameButOld
  <2>. QED BY <1>2, <1>4, <2>3, <2>4, <2>5
<1>. QED BY <1>3, <1>4 DEF getcomment

(* GetPost reads the row *)
LEMMA Go_getrow ==
  ASSUME Types, NEW p \in Procs, getrow(p)
  PROVE  /\ ReqOK' /\ req' = [req EXCEPT ![p] = req'[p]]
         /\ req[p].op \in ArticleOps \cup {"purge"}
         /\ \/ req'[p] = Idle /\ row = None
            \/ /\ Here(req'[p]) = "getbody" /\ row # None
               /\ SameButPost(req'[p], req[p]) /\ req'[p].old = req[p].old
               /\ req'[p].post = [title |-> row.title, mode |-> row.mode, del |-> row.del,
                                  mod |-> row.mod, body |-> 0]
<1>. DEFINE q == [title |-> row.title, mode |-> row.mode, del |-> row.del,
                  mod |-> row.mod, body |-> 0]
            s == [req[p] EXCEPT !.post = q]
<1>1. ReqOK /\ req[p] \in Req /\ Knows(req[p]) /\ Here(req[p]) = "getrow"
  BY DEF Types, ReqOK, getrow, At
<1>2. req[p].op \in ArticleOps \cup {"purge"}
  BY <1>1, HereOps DEF Follows, ArticleOps
<1>3. CASE row = None /\ Refuse(p)
  BY <1>1, <1>2, <1>3, RefuseOK DEF Ends
<1>4. CASE row # None /\ Continue(p, s)
  <2>1. q \in Post
    BY <1>4, PostStoreAssumption DEF Types, TypeOK, Row, Post, Ids
  <2>. HIDE DEF q
  <2>2. s \in Req /\ s.op = req[p].op /\ s.todo = req[p].todo /\ SameButPost(s, req[p])
        /\ s.old = req[p].old /\ s.post = q
    BY <1>1, <2>1 DEF Req, SameButPost
  <2>. HIDE DEF s
  <2>3. /\ req' = [req EXCEPT ![p] = req'[p]] /\ Here(req'[p]) = "getbody"
        /\ Same(req'[p], s) /\ (Knows(req'[p]) => ReqOK')
    BY <1>1, <1>2, <1>4, <2>2, Learns DEF Follows, ArticleOps
  <2>4. SameButPost(req'[p], req[p]) /\ req'[p].old = req[p].old /\ req'[p].post = q
    BY <2>2, <2>3 DEF SameButPost, Same
  <2>5. Knows(req'[p])
    BY <1>1, <1>2, <2>1, <2>3, <2>4 DEF Knows, HoldsComment, HoldsPost, CommentOps, ArticleOps, SameButPost
  <2>. QED BY <1>2, <1>4, <2>3, <2>4, <2>5 DEF q
<1>. QED BY <1>3, <1>4 DEF getrow

(* what the article is to p *)
Shown(p) == [req[p].post EXCEPT !.body = db.post.body, !.del = @ \/ db.post.del]

(* GetPost reads the record *)
LEMMA Go_getbody ==
  ASSUME Types, NEW p \in Procs, getbody(p)
  PROVE  /\ ReqOK' /\ req' = [req EXCEPT ![p] = req'[p]]
         /\ req[p].op \in ArticleOps \cup {"purge"} /\ req[p].post \in Post
         /\ \/ req'[p] = Idle /\ (db.post = None \/ ~Wanted(req[p], Shown(p)))
            \/ /\ Here(req'[p]) =
                    CASE req[p].op \in {"edit", "title", "delete"} -> "nextrev"
                      [] req[p].op \in {"undelete", "setmeta"} -> "setpost"
                      [] req[p].op = "cross" -> "addcross"
                      [] OTHER -> "take"
               /\ SameButPost(req'[p], req[p]) /\ db.post \in Post
               /\ req'[p].post = Shown(p) /\ req'[p].old = db.post /\ Wanted(req[p], Shown(p))
<1>. DEFINE s == [req[p] EXCEPT !.post = Shown(p), !.old = db.post]
<1>1. ReqOK /\ req[p] \in Req /\ Knows(req[p]) /\ Here(req[p]) = "getbody" /\ req[p].post \in Post
  BY DEF Types, ReqOK, getbody, At, Knows
<1>2. req[p].op \in ArticleOps \cup {"purge"}
  BY <1>1, HereOps DEF Follows, ArticleOps
<1>3. CASE Refuse(p) /\ (db.post = None \/ ~Wanted(req[p], Shown(p)))
  BY <1>1, <1>2, <1>3, RefuseOK DEF Ends
<1>4. CASE db.post # None /\ Wanted(req[p], Shown(p)) /\ Continue(p, s)
  <2>1. Shown(p) \in Post /\ db.post \in Post
    BY <1>1, <1>4 DEF Types, TypeOK, Post, Shown
  <2>2. s \in Req /\ s.op = req[p].op /\ s.todo = req[p].todo /\ SameButPost(s, req[p])
        /\ s.old = db.post /\ s.post = Shown(p)
    BY <1>1, <2>1 DEF Req, SameButPost, Known
  <2>. HIDE DEF s
  <2>3. /\ req' = [req EXCEPT ![p] = req'[p]]
        /\ Here(req'[p]) =
             CASE req[p].op \in {"edit", "title", "delete"} -> "nextrev"
               [] req[p].op \in {"undelete", "setmeta"} -> "setpost"
               [] req[p].op = "cross" -> "addcross"
               [] OTHER -> "take"
        /\ Same(req'[p], s) /\ (Knows(req'[p]) => ReqOK')
    BY <1>1, <1>2, <1>4, <2>2, Learns DEF Follows, ArticleOps
  <2>4. SameButPost(req'[p], req[p]) /\ req'[p].old = db.post /\ req'[p].post = Shown(p)
    BY <2>2, <2>3 DEF SameButPost, Same
  <2>4a. req[p].op = "edit" /\ req[p].view # None => Shown(p).mod = req[p].view.mod
    BY <1>4 DEF Wanted
  <2>4b. req'[p].op = req[p].op /\ req'[p].view = req[p].view
    BY <2>4 DEF SameButPost
  <2>5. Knows(req'[p])
    BY <1>1, <1>2, <2>1, <2>3, <2>4, <2>4a, <2>4b DEF Knows, HoldsComment, HoldsPost, CommentOps, ArticleOps, SameButPost
  <2>. QED BY <1>1, <1>2, <1>4, <2>1, <2>3, <2>4, <2>5
<1>. QED BY <1>3, <1>4 DEF getbody, Shown

(* the next revision is looked up *)
LEMMA Go_nextrev ==
  ASSUME Types, NEW p \in Procs, nextrev(p)
  PROVE  /\ ReqOK' /\ req' = [req EXCEPT ![p] = req'[p]]
         /\ req[p].op \in {"edit", "title", "delete", "cedit", "cdelete"}
         /\ Here(req'[p]) = "archive" /\ SameButRev(req'[p], req[p])
         /\ req'[p].rev = Len(db.hist[req[p].seq]) + 1
<1>. DEFINE rev == Len(db.hist[req[p].seq]) + 1  s == [req[p] EXCEPT !.rev = rev]
<1>1. ReqOK /\ req[p] \in Req /\ Knows(req[p]) /\ Here(req[p]) = "nextrev" /\ Continue(p, s)
  BY DEF Types, ReqOK, nextrev, At
<1>2. req[p].op \in {"edit", "title", "delete", "cedit", "cdelete"}
  BY <1>1, HereOps DEF Follows
<1>3. rev \in Nat /\ rev # 0
  <2>1. db.hist[req[p].seq] \in Seq(SUBSET Ids)
    BY <1>1 DEF Types, TypeOK, Req
  <2>. QED BY <2>1
<1>. HIDE DEF rev
<1>4. s \in Req /\ s.op = req[p].op /\ s.todo = req[p].todo /\ SameButRev(s, req[p]) /\ s.rev = rev
  BY <1>1, <1>3 DEF Req, SameButRev
<1>. HIDE DEF s
<1>5. /\ req' = [req EXCEPT ![p] = req'[p]] /\ Here(req'[p]) = "archive"
      /\ Same(req'[p], s) /\ (Knows(req'[p]) => ReqOK')
  BY <1>1, <1>2, <1>4, Learns DEF Follows
<1>6. SameButRev(req'[p], req[p]) /\ req'[p].rev = rev
  BY <1>4, <1>5 DEF SameButRev, Same
<1>7. Knows(req'[p])
  BY <1>1, <1>2, <1>3, <1>5, <1>6 DEF Knows, HoldsComment, HoldsPost, CommentOps, ArticleOps, SameButRev
<1>. QED BY <1>2, <1>5, <1>6, <1>7 DEF rev

(* the old text is archived *)
LEMMA Go_archive ==
  ASSUME Types, NEW p \in Procs, archive(p)
  PROVE  /\ ReqOK' /\ req' = [req EXCEPT ![p] = req'[p]]
         /\ req[p].op \in {"edit", "title", "delete", "cedit", "cdelete"}
         /\ Here(req'[p]) = CASE req[p].op \in {"edit", "delete"} -> "setpost"
                              [] req[p].op = "title" -> "setrow"
                              [] OTHER -> "setcomment"
         /\ SameButAt(req'[p], req[p])
         /\ req'[p].at = IF req[p].post = None THEN now ELSE Later(req[p].post.mod)
<1>. DEFINE at == IF req[p].post = None THEN now ELSE Later(req[p].post.mod)
            s == [req[p] EXCEPT !.at = at]
<1>1. ReqOK /\ req[p] \in Req /\ Knows(req[p]) /\ Here(req[p]) = "archive" /\ Continue(p, s)
  BY DEF Types, ReqOK, archive, At
<1>2. req[p].op \in {"edit", "title", "delete", "cedit", "cdelete"}
  BY <1>1, HereOps DEF Follows
<1>3. at \in Times
  BY <1>1 DEF Types, TypeOK, Times, Req, Later, Post
<1>. HIDE DEF at
<1>4. s \in Req /\ s.op = req[p].op /\ s.todo = req[p].todo /\ SameButAt(s, req[p]) /\ s.at = at
  BY <1>1, <1>3 DEF Req, SameButAt
<1>. HIDE DEF s
<1>5. /\ req' = [req EXCEPT ![p] = req'[p]]
      /\ Here(req'[p]) = CASE req[p].op \in {"edit", "delete"} -> "setpost"
                           [] req[p].op = "title" -> "setrow"
                           [] OTHER -> "setcomment"
      /\ Same(req'[p], s) /\ (Knows(req'[p]) => ReqOK')
  BY <1>1, <1>2, <1>4, Learns DEF Follows
<1>6. SameButAt(req'[p], req[p]) /\ req'[p].at = at
  BY <1>4, <1>5 DEF SameButAt, Same
<1>7. Knows(req'[p])
  BY <1>1, <1>2, <1>5, <1>6 DEF Knows, HoldsComment, HoldsPost, CommentOps, ArticleOps, SameButAt
<1>. QED BY <1>2, <1>5, <1>6, <1>7 DEF at

(* the record that is stored is a record *)
LEMMA RecordOK ==
  ASSUME Types, NEW p \in Procs, Here(req[p]) = "setpost"
  PROVE  /\ req[p].op \in {"edit", "delete", "undelete", "setmeta", "cross"}
         /\ req[p].post \in Post /\ req[p].old \in Post /\ Record(req[p]) \in Post
<1>1. ReqOK /\ req[p] \in Req /\ Knows(req[p])
  BY DEF Types, ReqOK
<1>2. req[p].op \in {"edit", "delete", "undelete", "setmeta", "cross"}
  BY <1>1, HereOps DEF Follows
<1>3. req[p].post \in Post /\ req[p].old \in Post
  BY <1>1, <1>2 DEF Knows, HoldsPost, ArticleOps
<1>4. req[p].id \in Ids /\ req[p].at \in Times /\ now \in Times
  BY <1>1 DEF Req, Types, TypeOK
<1>5. Record(req[p]) \in Post
  BY <1>2, <1>3, <1>4 DEF Record, Post
<1>. QED BY <1>2, <1>3, <1>5

(* the record is stored again *)
LEMMA Go_setpost ==
  ASSUME Types, NEW p \in Procs, setpost(p)
  PROVE  /\ ReqOK' /\ req' = [req EXCEPT ![p] = req'[p]]
         /\ \/ req[p].op \in {"setmeta", "cross"} /\ req'[p] = Idle
            \/ /\ req[p].op \in {"edit", "delete", "undelete"} /\ Here(req'[p]) = "setrow"
               /\ SameButAt(req'[p], req[p]) /\ req'[p].at = Record(req[p]).mod
<1>. DEFINE at == Record(req[p]).mod  s == [req[p] EXCEPT !.at = at]
<1>1. ReqOK /\ req[p] \in Req /\ Knows(req[p]) /\ Here(req[p]) = "setpost" /\ Continue(p, s)
  BY DEF Types, ReqOK, setpost, At
<1>2. req[p].op \in {"edit", "delete", "undelete", "setmeta", "cross"} /\ at \in Times
  BY <1>1, RecordOK DEF Post
<1>. HIDE DEF at
<1>4. s \in Req /\ s.op = req[p].op /\ s.todo = req[p].todo /\ SameButAt(s, req[p]) /\ s.at = at
  BY <1>1, <1>2 DEF Req, SameButAt
<1>. HIDE DEF s
<1>5. /\ req' = [req EXCEPT ![p] = req'[p]]
      /\ \/ req[p].op \in {"setmeta", "cross"} /\ req'[p] = Idle /\ ReqOK'
         \/ /\ req[p].op \in {"edit", "delete", "undelete"} /\ Here(req'[p]) = "setrow"
            /\ Same(req'[p], s) /\ (Knows(req'[p]) => ReqOK')
  BY <1>1, <1>2, <1>4, Learns DEF Follows
<1>6. CASE req'[p] = Idle /\ ReqOK'
  BY <1>5, <1>6, IdleOK
<1>7. CASE /\ req[p].op \in {"edit", "delete", "undelete"} /\ Here(req'[p]) = "setrow"
           /\ Same(req'[p], s) /\ (Knows(req'[p]) => ReqOK')
  <2>1. SameButAt(req'[p], req[p]) /\ req'[p].at = at
    BY <1>4, <1>7 DEF SameButAt, Same
  <2>2. Knows(req'[p])
    BY <1>1, <1>7, <2>1 DEF Knows, HoldsComment, HoldsPost, CommentOps, ArticleOps, SameButAt
  <2>. QED BY <1>5, <1>7, <2>1, <2>2 DEF at
<1>. QED BY <1>5, <1>6, <1>7

(* AddCrosspost reads the counter again *)
LEMMA Go_numcross ==
  ASSUME Types, NEW p \in Procs, numcross(p)
  PROVE  /\ ReqOK' /\ req' = [req EXCEPT ![p] = req'[p]] /\ req[p].op = "cross"
         /\ Here(req'[p]) = "setcross" /\ SameButRev(req'[p], req[p])
         /\ req'[p].rev = IF row = None THEN 0 ELSE row.xp
<1>. DEFINE rev == IF row = None THEN 0 ELSE row.xp  s == [req[p] EXCEPT !.rev = rev]
<1>1. ReqOK /\ req[p] \in Req /\ Knows(req[p]) /\ Here(req[p]) = "numcross" /\ Continue(p, s)
  BY DEF Types, ReqOK, numcross, At
<1>2. req[p].op = "cross"
  BY <1>1, HereOps DEF Follows
<1>3. rev \in Nat
  BY DEF Types, TypeOK, Row
<1>. HIDE DEF rev
<1>4. s \in Req /\ s.op = req[p].op /\ s.todo = req[p].todo /\ SameButRev(s, req[p]) /\ s.rev = rev
  BY <1>1, <1>3 DEF Req, SameButRev
<1>. HIDE DEF s
<1>5. /\ req' = [req EXCEPT ![p] = req'[p]] /\ Here(req'[p]) = "setcross"
      /\ Same(req'[p], s) /\ (Knows(req'[p]) => ReqOK')
  BY <1>1, <1>2, <1>4, Learns DEF Follows
<1>6. SameButRev(req'[p], req[p]) /\ req'[p].rev = rev
  BY <1>4, <1>5 DEF SameButRev, Same
<1>7. Knows(req'[p])
  BY <1>1, <1>2, <1>5, <1>6 DEF Knows, HoldsComment, HoldsPost, CommentOps, ArticleOps, SameButRev
<1>. QED BY <1>2, <1>5, <1>6, <1>7 DEF rev

(* the flush of a purge takes the deltas *)
LEMMA Go_take ==
  ASSUME Types, NEW p \in Procs, take(p)
  PROVE  /\ ReqOK' /\ req' = [req EXCEPT ![p] = req'[p]] /\ req[p].op = "purge"
         /\ Here(req'[p]) = "apply" /\ SameButOld(req'[p], req[p]) /\ req'[p].old = mem.dirty
<1>. DEFINE s == [req[p] EXCEPT !.old = mem.dirty]
<1>1. ReqOK /\ req[p] \in Req /\ Knows(req[p]) /\ Here(req[p]) = "take" /\ Continue(p, s)
  BY DEF Types, ReqOK, take, At
<1>2. req[p].op = "purge"
  BY <1>1, HereOps DEF Follows
<1>3. mem.dirty \in Delta
  BY DEF Types, TypeOK
<1>4. s \in Req /\ s.op = req[p].op /\ s.todo = req[p].todo /\ SameButOld(s, req[p]) /\ s.old = mem.dirty
  BY <1>1, <1>3 DEF Req, SameButOld, Known
<1>. HIDE DEF s
<1>5. /\ req' = [req EXCEPT ![p] = req'[p]] /\ Here(req'[p]) = "apply"
      /\ Same(req'[p], s) /\ (Knows(req'[p]) => ReqOK')
  BY <1>1, <1>2, <1>4, Learns DEF Follows
<1>6. SameButOld(req'[p], req[p]) /\ req'[p].old = mem.dirty
  BY <1>4, <1>5 DEF SameButOld, Same
<1>7. Knows(req'[p])
  BY <1>1, <1>2, <1>3, <1>5, <1>6 DEF Knows, HoldsComment, HoldsPost, CommentOps, ArticleOps, SameButOld
<1>. QED BY <1>2, <1>5, <1>6, <1>7

(* what there is to list *)
Listed ==
  [xposts |-> db.xposts, comments |-> Present(db.comments),
   hist |-> [o \in {0} \cup Seqs |->
               IF o \in {0} \cup Present(db.comments) THEN Len(db.hist[o]) ELSE 0],
   votes |-> {u \in Users : db.votes[u] # "none"}]

(* a purge lists what it will delete *)
LEMMA Go_list ==
  ASSUME Types, NEW p \in Procs, list(p)
  PROVE  /\ ReqOK' /\ req' = [req EXCEPT ![p] = req'[p]] /\ req[p].op = "purge"
         /\ Here(req'[p]) = "forget" /\ SameButOld(req'[p], req[p])
         /\ req'[p].old = Listed
<1>. DEFINE old == Listed
            s == [req[p] EXCEPT !.old = old]
<1>1. ReqOK /\ req[p] \in Req /\ Knows(req[p]) /\ Here(req[p]) = "list" /\ Continue(p, s)
  BY DEF Types, ReqOK, list, At, Listed
<1>2. req[p].op = "purge"
  BY <1>1, HereOps DEF Follows
<1>3. old \in Listing
  <2>1. \A o \in {0} \cup Seqs : Len(db.hist[o]) \in Nat
    BY DEF Types, TypeOK
  <2>. QED BY <2>1 DEF Types, TypeOK, Present, Listed, Listing
<1>. HIDE DEF old
<1>4. s \in Req /\ s.op = req[p].op /\ s.todo = req[p].todo /\ SameButOld(s, req[p]) /\ s.old = old
  BY <1>1, <1>3 DEF Req, SameButOld, Known
<1>. HIDE DEF s
<1>5. /\ req' = [req EXCEPT ![p] = req'[p]] /\ Here(req'[p]) = "forget"
      /\ Same(req'[p], s) /\ (Knows(req'[p]) => ReqOK')
  BY <1>1, <1>2, <1>4, Learns DEF Follows
<1>6. SameButOld(req'[p], req[p]) /\ req'[p].old = old
  BY <1>4, <1>5 DEF SameButOld, Same
<1>7. Knows(req'[p])
  BY <1>1, <1>2, <1>3, <1>5, <1>6 DEF Knows, HoldsComment, HoldsPost, CommentOps, ArticleOps, SameButOld
<1>. QED BY <1>2, <1>5, <1>6, <1>7 DEF old

(* CreatePost looks for the row *)
LEMMA Go_lookup ==
  ASSUME Types, NEW p \in Procs, lookup(p)
  PROVE  /\ ReqOK' /\ req' = [req EXCEPT ![p] = req'[p]] /\ req[p].op = "create"
         /\ Here(req'[p]) = IF row = None THEN "insert" ELSE "setnew"
         /\ Same(req'[p], req[p])
<1>. DEFINE t == IF row = None THEN <<"insert", "setnew">> ELSE <<"setnew">>
<1>1. ReqOK /\ req[p] \in Req /\ Knows(req[p]) /\ Here(req[p]) = "lookup"
  BY DEF Types, ReqOK, lookup, At
<1>2. req[p].op = "create"
  BY <1>1, HereOps DEF Follows
<1>3. req' = [req EXCEPT ![p] = [req[p] EXCEPT !.todo = t]] /\ req'[p] = [req[p] EXCEPT !.todo = t]
  BY <1>1 DEF lookup, ReqOK
<1>4. t \in Seq(Accesses) /\ Stage("create", t) /\ t # <<>>
      /\ Head(t) = IF row = None THEN "insert" ELSE "setnew"
  <2>1. CASE row = None
    BY <2>1 DEF Accesses, Stage
  <2>2. CASE row # None
    BY <2>2 DEF Accesses, Stage
  <2>. QED BY <2>1, <2>2
<1>. HIDE DEF t
<1>5. req'[p] \in Req /\ req'[p].todo = t /\ Same(req'[p], req[p])
  BY <1>1, <1>3, <1>4 DEF Req, Same
<1>6. Here(req'[p]) = IF row = None THEN "insert" ELSE "setnew"
  BY <1>4, <1>5 DEF Here
<1>7. Knows(req'[p])
  BY <1>1, <1>2, <1>5, <1>6 DEF Knows, HoldsComment, HoldsPost, CommentOps, ArticleOps, Same
<1>8. Stage(req'[p].op, req'[p].todo)
  BY <1>2, <1>4, <1>5 DEF Same
<1>. QED BY <1>1, <1>2, <1>3, <1>5, <1>6, <1>7, <1>8, ReqMoved

(* a bounded set of numbers has a maximum *)
LEMMA MaxBounded ==
  ASSUME NEW S \in SUBSET Nat, S # {}, NEW N \in Nat, \A x \in S : x <= N
  PROVE  Max(S) \in S /\ \A n \in S : n <= Max(S)
<1>. DEFINE T == {N - x : x \in S}
<1>1. \A x \in S : x \in Nat /\ x <= N
  OBVIOUS
<1>2. T \in SUBSET Nat /\ T # {}
  <2>1. \A x \in S : N - x \in Nat
    BY <1>1
  <2>. QED BY <2>1
<1>3. PICK m \in T : \A n \in T : m <= n
  BY <1>2, Least
<1>4. PICK x \in S : m = N - x
  BY <1>3
<1>5. \A y \in S : N - y \in T
  OBVIOUS
<1>6. \A y \in S : N - x <= N - y
  BY <1>3, <1>4, <1>5
<1>7. \A y \in S : y <= x
  <2>. HIDE DEF T
  <2>. QED BY <1>1, <1>6
<1>8. \E z \in S : \A y \in S : z >= y
  BY <1>1, <1>7
<1>. QED BY <1>1, <1>8 DEF Max

(* lookupMaxSequence finds a sequence *)
LEMMA MaxOfSeqs ==
  ASSUME NEW S \in SUBSET Seqs, S # {}
  PROVE  Max(S) \in S /\ \A n \in S : n <= Max(S)
<1>1. MaxReqs + 1 \in Nat /\ \A x \in S : x \in Nat /\ x <= MaxReqs + 1
  BY PostStoreAssumption DEF Seqs
<1>. QED BY <1>1, MaxBounded

(* the sequence that AddComment goes on from *)
LastSeq == IF mem.seq # None THEN mem.seq ELSE MaxSequence(db.comments)

(* the last sequence of the article *)
LEMMA LastOK ==
  ASSUME Types
  PROVE  /\ LastSeq \in {0} \cup Seqs
         /\ mem.seq = None => \A n \in Present(db.comments) : n <= LastSeq
         /\ mem.seq # None => LastSeq = mem.seq /\ mem.seq \in Seqs
<1>1. Present(db.comments) \in SUBSET Seqs
  BY DEF Types, TypeOK, Present
<1>2. mem.seq \in Seqs \cup {None}
  BY DEF Types, TypeOK
<1>. QED BY <1>1, <1>2, MaxOfSeqs DEF LastSeq, MaxSequence

(* AddComment continues the last comment or takes a sequence *)
LEMMA Go_choose ==
  ASSUME Types, NEW p \in Procs, choose(p)
  PROVE  /\ ReqOK' /\ req' = [req EXCEPT ![p] = req'[p]] /\ req[p].op = "comment"
         /\ req'[p].op = "comment" /\ req'[p].user = req[p].user /\ req'[p].id = req[p].id
         /\ mem'.dirty = mem.dirty /\ mem' \in [dirty : Delta, seq : Seqs \cup {None}]
         /\ mem'.seq = req'[p].seq
         /\ \/ /\ Here(req'[p]) = "setcomment" /\ req'[p].seq = LastSeq /\ LastSeq \in Seqs
               /\ req'[p].old = db.comments[LastSeq] /\ db.comments[LastSeq] # None
            \/ Here(req'[p]) = "newcomment" /\ req'[p].seq = LastSeq + 1 /\ LastSeq + 1 \in Seqs
<1>. DEFINE prev == IF LastSeq = 0 THEN None ELSE db.comments[LastSeq]
<1>1. ReqOK /\ req[p] \in Req /\ Knows(req[p]) /\ Here(req[p]) = "choose"
  BY DEF Types, ReqOK, choose, At
<1>2. req[p].op = "comment"
  BY <1>1, HereOps DEF Follows
<1>3. mem \in [dirty : Delta, seq : Seqs \cup {None}]
  BY DEF Types, TypeOK
<1>4. /\ <<"setcomment">> \in Seq(Accesses) /\ Stage("comment", <<"setcomment">>)
      /\ <<"newcomment", "count">> \in Seq(Accesses) /\ Stage("comment", <<"newcomment", "count">>)
  BY DEF Accesses, Stage
<1>5. CASE /\ prev # None
           /\ req' = [req EXCEPT ![p].seq = LastSeq, ![p].old = prev, ![p].todo = <<"setcomment">>]
           /\ mem' = [mem EXCEPT !.seq = LastSeq]
  <2>1. LastSeq \in Seqs /\ prev = db.comments[LastSeq] /\ prev \in Comment
    BY <1>5, LastOK DEF Types, TypeOK
  <2>2. req'[p] = [req[p] EXCEPT !.seq = LastSeq, !.old = prev, !.todo = <<"setcomment">>]
        /\ req' = [req EXCEPT ![p] = req'[p]]
    BY <1>1, <1>5 DEF ReqOK
  <2>3. req'[p] \in Req
    BY <1>1, <1>4, <2>1, <2>2 DEF Req, Known
  <2>4. /\ req'[p].op = "comment" /\ req'[p].user = req[p].user /\ req'[p].id = req[p].id
        /\ req'[p].seq = LastSeq /\ req'[p].old = prev /\ req'[p].todo = <<"setcomment">>
    BY <1>1, <1>2, <2>2 DEF Req
  <2>5. Here(req'[p]) = "setcomment"
    BY <2>4 DEF Here
  <2>6. Knows(req'[p]) /\ Stage(req'[p].op, req'[p].todo)
    BY <1>1, <1>2, <1>4, <2>1, <2>4, <2>5 DEF Knows, HoldsComment, HoldsPost, CommentOps, ArticleOps
  <2>7. mem'.dirty = mem.dirty /\ mem' \in [dirty : Delta, seq : Seqs \cup {None}] /\ mem'.seq = LastSeq
    BY <1>3, <1>5, <2>1
  <2>. QED BY <1>1, <1>2, <1>5, <2>1, <2>2, <2>3, <2>4, <2>5, <2>6, <2>7, ReqMoved
<1>6. CASE /\ LastSeq <= MaxReqs
           /\ req' = [req EXCEPT ![p].seq = LastSeq + 1, ![p].todo = <<"newcomment", "count">>]
           /\ mem' = [mem EXCEPT !.seq = LastSeq + 1]
  <2>1. LastSeq + 1 \in Seqs
    BY <1>6, LastOK, PostStoreAssumption DEF Seqs
  <2>2. req'[p] = [req[p] EXCEPT !.seq = LastSeq + 1, !.todo = <<"newcomment", "count">>]
        /\ req' = [req EXCEPT ![p] = req'[p]]
    BY <1>1, <1>6 DEF ReqOK
  <2>3. req'[p] \in Req
    BY <1>1, <1>4, <2>1, <2>2 DEF Req
  <2>4. /\ req'[p].op = "comment" /\ req'[p].user = req[p].user /\ req'[p].id = req[p].id
        /\ req'[p].seq = LastSeq + 1 /\ req'[p].todo = <<"newcomment", "count">>
    BY <1>1, <1>2, <2>2 DEF Req
  <2>5. Here(req'[p]) = "newcomment"
    BY <2>4 DEF Here
  <2>6. Knows(req'[p]) /\ Stage(req'[p].op, req'[p].todo)
    BY <1>1, <1>2, <1>4, <2>1, <2>4, <2>5 DEF Knows, HoldsComment, HoldsPost, CommentOps, ArticleOps
  <2>7. mem'.dirty = mem.dirty /\ mem' \in [dirty : Delta, seq : Seqs \cup {None}] /\ mem'.seq = LastSeq + 1
    BY <1>3, <1>6, <2>1
  <2>. QED BY <1>1, <1>2, <2>1, <2>2, <2>3, <2>4, <2>5, <2>6, <2>7, ReqMoved
<1>. QED BY <1>5, <1>6 DEF choose, LastSeq

(* FlushDirtyDeltas takes the deltas *)
LEMMA Go_Flush ==
  ASSUME Types, NEW p \in Procs, Flush(p)
  PROVE  /\ ReqOK' /\ req' = [req EXCEPT ![p] = req'[p]] /\ req[p] = Idle
         /\ req'[p].op = "flush" /\ Here(req'[p]) = "apply" /\ req'[p].old = mem.dirty
<1>. DEFINE n == [Idle EXCEPT !.op = "flush", !.todo = <<"apply">>, !.old = mem.dirty]
<1>1. req' = [req EXCEPT ![p] = n] /\ req'[p] = n /\ req[p] = Idle
  BY DEF Flush, Types, ReqOK
<1>2. <<"apply">> \in Seq(Accesses) /\ Stage("flush", <<"apply">>)
  BY DEF Accesses, Stage
<1>3. mem.dirty \in Delta
  BY DEF Types, TypeOK
<1>4. n \in Req
  BY <1>2, <1>3, IdleOK DEF Req, Known
<1>5. n.op = "flush" /\ n.todo = <<"apply">> /\ n.old = mem.dirty
  BY DEF Idle
<1>. HIDE DEF n
<1>6. Here(n) = "apply"
  BY <1>5 DEF Here
<1>7. Knows(n)
  BY <1>3, <1>5, <1>6 DEF Knows, HoldsComment, HoldsPost, CommentOps, ArticleOps
<1>8. Stage(n.op, n.todo)
  BY <1>2, <1>5
<1>. QED BY <1>1, <1>4, <1>5, <1>6, <1>7, <1>8, ReqMoved DEF Types

(* an editor is shown the article *)
LEMMA Go_Fetch ==
  ASSUME Types, NEW p \in Procs, Fetch(p)
  PROVE  /\ ReqOK' /\ req' = [req EXCEPT ![p] = req'[p]] /\ req[p] = Idle /\ row # None
         /\ req'[p].op = "idle" /\ Here(req'[p]) = "none" /\ req'[p].id = 0
         /\ req'[p].view = [mod |-> row.mod, body |-> db.post.body]
<1>. DEFINE v == [mod |-> row.mod, body |-> db.post.body]
<1>1. v \in [mod : Times, body : Ids]
  BY DEF Fetch, Types, TypeOK, Row, Post
<1>. HIDE DEF v
<1>2. req' = [req EXCEPT ![p].view = v] /\ req[p] = Idle /\ row # None
  BY DEF Fetch, v
<1>3. req' = [req EXCEPT ![p] = [Idle EXCEPT !.view = v]] /\ req'[p] = [Idle EXCEPT !.view = v]
  BY <1>2 DEF Types, ReqOK
<1>4. req'[p] \in Req
  BY <1>1, <1>3, IdleOK DEF Req
<1>5. /\ req'[p].op = Idle.op /\ req'[p].todo = Idle.todo /\ req'[p].view = v
      /\ req'[p].seq = Idle.seq /\ req'[p].post = Idle.post
  BY <1>3, IdleOK DEF Req
<1>6. Here(req'[p]) = "none" /\ Stage(req'[p].op, req'[p].todo) /\ req'[p].op = "idle"
  BY <1>5, IdleOK DEF Here, Idle
<1>7. Knows(req'[p])
  BY <1>5, <1>6, IdleOK DEF Knows, HoldsComment, HoldsPost, CommentOps, ArticleOps, Idle
<1>8. req'[p].id = 0
  BY <1>3 DEF Idle
<1>. QED BY <1>2, <1>3, <1>4, <1>5, <1>6, <1>7, <1>8, ReqMoved DEF Types, v

-----------------------------------------------------------------------------
(* Types hold *)

Db == [post : Post \cup {None}, comments : [Seqs -> Comment \cup {None}],
       votes : [Users -> Votes], hist : [{0} \cup Seqs -> Seq(SUBSET Ids)],
       xposts : {X \in SUBSET Nat : IsFiniteSet(X)}]
Mem == [dirty : Delta, seq : Seqs \cup {None}]

(* what the types say of the databases *)
LEMMA TypesOf ==
  ASSUME ReqOK', db' \in Db, row' \in Row \cup {None}, mem' \in Mem, up' \in BOOLEAN,
         now' \in Times, reqs' \in Ids, acked' \subseteq Ids, lost' \in BOOLEAN
  PROVE  Types'
BY DEF Types, TypeOK, ReqOK, Req, Db, Mem

(* revisions that are deleted leave a history *)
LEMMA DroppedOK ==
  ASSUME NEW h \in Seq(SUBSET Ids), NEW n \in Nat
  PROVE  Dropped(h, n) \in Seq(SUBSET Ids)
<1>1. \A i \in 1 .. Len(h) : (IF i <= n THEN {} ELSE h[i]) \in SUBSET Ids
  OBVIOUS
<1>2. [i \in 1 .. Len(h) |-> IF i <= n THEN {} ELSE h[i]] \in Seq(SUBSET Ids)
  BY <1>1
<1>. QED BY <1>2 DEF Dropped

(* and what has to be shown of them *)
LEMMA TypesAre ==
  ASSUME Types
  PROVE  /\ ReqOK /\ db \in Db /\ row \in Row \cup {None} /\ mem \in Mem /\ up \in BOOLEAN
         /\ now \in Times /\ reqs \in Ids /\ acked \subseteq Ids /\ lost \in BOOLEAN
BY DEF Types, TypeOK, Db, Mem

(* the counters *)
LEMMA ZeroOK == Zero \in Delta /\ DOMAIN Zero = {"num", "up", "down"}
BY DEF Zero, Delta

(* setting a counter of the row ... *)
LEMMA RowUp == \A x \in Row : [x EXCEPT !.up = 0] \in Row
BY DEF Row

(* ... or the other one ... *)
LEMMA RowDown == \A x \in Row : [x EXCEPT !.down = 0] \in Row
BY DEF Row

(* ... or both *)
LEMMA RowVotes ==
  ASSUME NEW x \in Row
  PROVE  LET y == [x EXCEPT !.up = 0, !.down = 0]
         IN  y \in Row /\ y.up = 0 /\ y.down = 0 /\ y.num = x.num
<1>1. [x EXCEPT !.up = 0, !.down = 0] \in Row
  BY RowUp, RowDown, Zenon
<1>2. /\ [x EXCEPT !.up = 0, !.down = 0].up = 0 /\ [x EXCEPT !.up = 0, !.down = 0].down = 0
      /\ [x EXCEPT !.up = 0, !.down = 0].num = x.num
  BY DEF Row
<1>. QED BY <1>1, <1>2

(* the same in dirtyDeltas *)
LEMMA DirtyUp == \A x \in Delta : [x EXCEPT !.up = 0] \in Delta
BY DEF Delta, Zero

(* the other one *)
LEMMA DirtyDown == \A x \in Delta : [x EXCEPT !.down = 0] \in Delta
BY DEF Delta, Zero

(* both *)
LEMMA DirtyVotes ==
  ASSUME NEW x \in Delta
  PROVE  LET y == [x EXCEPT !.up = 0, !.down = 0]
         IN  y \in Delta /\ y.up = 0 /\ y.down = 0 /\ y.num = x.num
<1>1. [x EXCEPT !.up = 0, !.down = 0] \in Delta
  BY DirtyUp, DirtyDown, Zenon
<1>2. /\ [x EXCEPT !.up = 0, !.down = 0].up = 0 /\ [x EXCEPT !.up = 0, !.down = 0].down = 0
      /\ [x EXCEPT !.up = 0, !.down = 0].num = x.num
  BY DEF Delta, Zero
<1>. QED BY <1>1, <1>2

(* what a flush adds to the row *)
LEMMA AddedOK ==
  ASSUME NEW x \in Row, NEW d \in Delta
  PROVE  /\ Added(x, d) \in Row
         /\ \A f \in DOMAIN Zero : Added(x, d)[f] = x[f] + d[f]
<1>. DEFINE a == x.num + d.num  b == x.up + d.up  c == x.down + d.down
<1>1. d.num \in Int /\ d.up \in Int /\ d.down \in Int
  BY DEF Delta, Zero
<1>2. a \in Int /\ b \in Int /\ c \in Int
  BY <1>1 DEF Row
<1>3. Added(x, d) = [x EXCEPT !.num = a, !.up = b, !.down = c]
  BY DEF Added, Row
<1>0. Added(x, d).num = x.num + d.num /\ Added(x, d).up = x.up + d.up
      /\ Added(x, d).down = x.down + d.down
  BY DEF Added, Row
<1>. HIDE DEF a, b, c
<1>4. [x EXCEPT !.num = a, !.up = b, !.down = c] \in Row
  BY <1>2 DEF Row
<1>5. Added(x, d) \in Row
  BY <1>3, <1>4
<1>. HIDE DEF Added
<1>. QED BY <1>0, <1>5, ZeroOK

(* what is acknowledged is a text *)
LEMMA AnswerOK ==
  ASSUME Types, NEW p \in Procs, Answer(p)
  PROVE  acked' \subseteq Ids
BY DEF Answer, Types, TypeOK, ReqOK, Req

(* what CreatePost stores *)
LEMMA NewOK == Types => NewPost \in Post /\ NewRow \in Row
BY PostStoreAssumption DEF Types, TypeOK, NewPost, NewRow, Post, Row, Ids, Times

(* the article at the start *)
LEMMA InitTypes == Init => Types
<1>. SUFFICES ASSUME Init PROVE Types
  OBVIOUS
<1>1. ReqOK
  BY IdleOK DEF Init, ReqOK
<1>2. 0 \in Ids /\ 0 \in Times /\ now \in Times /\ 1 \in Seqs
  BY PostStoreAssumption DEF Init, Ids, Times, Seqs
<1>3. NewPost \in Post /\ NewRow \in Row
  BY <1>2 DEF NewPost, NewRow, Post, Row, Times
<1>4. mem \in Mem
  BY ZeroOK DEF Init, Mem
<1>5. db \in Db /\ row \in Row \cup {None}
  <2>1. PICK there \in BOOLEAN, by \in Users :
       /\ db = [post |-> IF there THEN NewPost ELSE None,
                comments |-> [n \in Seqs |-> IF there /\ n = 1
                    THEN [by |-> by, text |-> {0}, del |-> FALSE, mod |-> 0] ELSE None],
                votes |-> [u \in Users |-> "none"],
                hist |-> [o \in {0} \cup Seqs |-> <<>>],
                xposts |-> {}]
       /\ row = IF there THEN [NewRow EXCEPT !.num = 1] ELSE None
    BY DEF Init
  <2>2. [by |-> by, text |-> {0}, del |-> FALSE, mod |-> 0] \in Comment
    BY <1>2 DEF Comment
  <2>3. row \in Row \cup {None}
    BY <1>3, <2>1 DEF Row
  <2>4. <<>> \in Seq(SUBSET Ids)
    OBVIOUS
  <2>5. IsFiniteSet({})
    BY FS_EmptySet
  <2>. QED BY <1>3, <2>1, <2>2, <2>3, <2>4, <2>5 DEF Db, Votes
<1>. QED BY <1>1, <1>2, <1>4, <1>5, ProgramOps, IdleOK DEF Init, Types, TypeOK, Db, Mem, Idle

(* the text that a request archives *)
ArchivedText(r) == IF r.post = None THEN r.old.text ELSE {r.post.body}

(* what is archived is the old text, at the end of the history or in the place
   of another one *)
LEMMA ArchiveOK ==
  ASSUME Types, NEW p \in Procs, archive(p)
  PROVE  /\ ArchivedText(req[p]) \in SUBSET Ids /\ req[p].seq \in {0} \cup Seqs
         /\ db' = [db EXCEPT !.hist[req[p].seq] =
                     IF req[p].rev > Len(@) THEN Append(@, ArchivedText(req[p]))
                     ELSE [@ EXCEPT ![req[p].rev] = ArchivedText(req[p])]]
         /\ (IF req[p].rev > Len(db.hist[req[p].seq]) THEN Append(db.hist[req[p].seq], ArchivedText(req[p]))
             ELSE [db.hist[req[p].seq] EXCEPT ![req[p].rev] = ArchivedText(req[p])]) \in Seq(SUBSET Ids)
<1>. DEFINE r == req[p]  h == db.hist[r.seq]  text == ArchivedText(r)
<1>1. ReqOK /\ r \in Req /\ Knows(r) /\ Here(r) = "archive"
  BY DEF Types, ReqOK, archive, At
<1>2. r.op \in {"edit", "title", "delete", "cedit", "cdelete"}
  BY <1>1, HereOps DEF Follows
<1>3. r.rev \in Nat /\ r.rev # 0 /\ r.seq \in {0} \cup Seqs
  BY <1>1 DEF Req, Knows
<1>4. text \in SUBSET Ids
  <2>1. CASE r.op \in {"cedit", "cdelete"}
    BY <1>1, <2>1 DEF Knows, CommentOps, HoldsComment, ArchivedText, Comment
  <2>2. CASE r.op \in {"edit", "title", "delete"}
    BY <1>1, <2>2, NoneAssumption DEF Knows, ArticleOps, HoldsPost, ArchivedText, Post
  <2>. QED BY <1>2, <2>1, <2>2
<1>5. h \in Seq(SUBSET Ids)
  BY <1>3 DEF Types, TypeOK
<1>6. db' = [db EXCEPT !.hist[r.seq] = IF r.rev > Len(@) THEN Append(@, text) ELSE [@ EXCEPT ![r.rev] = text]]
  BY DEF archive, ArchivedText
<1>. HIDE DEF text, h
<1>7. (IF r.rev > Len(h) THEN Append(h, text) ELSE [h EXCEPT ![r.rev] = text]) \in Seq(SUBSET Ids)
  <2>1. CASE r.rev > Len(h)
    BY <1>4, <1>5, <2>1
  <2>2. CASE ~(r.rev > Len(h))
    <3>1. r.rev \in 1 .. Len(h)
      BY <1>3, <1>5, <2>2
    <3>. QED BY <1>4, <1>5, <2>2, <3>1, ExceptSeq
  <2>. QED BY <2>1, <2>2
<1>. QED BY <1>3, <1>4, <1>6, <1>7 DEF text, h

(* AddComment, UpdateComment, DeleteComment and UndeleteComment keep the types
   *)
LEMMA CommentTypes ==
  ASSUME Types, NEW p \in Procs, Comments(p)
  PROVE  Types'
<1>0. /\ ReqOK /\ db \in Db /\ row \in Row \cup {None} /\ mem \in Mem /\ up \in BOOLEAN
      /\ now \in Times /\ reqs \in Ids /\ acked \subseteq Ids /\ lost \in BOOLEAN
  BY TypesAre
<1>1. CASE choose(p)
  <2>1. ReqOK' /\ mem' \in Mem
    BY <1>1, Go_choose DEF Mem
  <2>. QED BY <1>0, <1>1, <2>1, TypesOf DEF choose, env, ghosts
<1>2. CASE newcomment(p)
  <2>1. ReqOK' /\ req[p].op = "comment"
    BY <1>0, <1>2, Go_newcomment DEF newcomment, At
  <2>2. req[p].seq \in Seqs /\ req[p].user \in Users /\ req[p].id \in Ids
    BY <1>0, <1>2, <2>1 DEF newcomment, At, ReqOK, Knows, Req
  <2>3. [by |-> req[p].user, text |-> {req[p].id}, del |-> FALSE, mod |-> 0] \in Comment
    BY <2>2 DEF Comment, Times
  <2>4. db' \in Db
    BY <1>0, <1>2, <2>2, <2>3 DEF newcomment, Db
  <2>. QED BY <1>0, <1>2, <2>1, <2>4, TypesOf DEF newcomment, env
<1>3. CASE count(p)
  <2>1. ReqOK'
    BY <1>0, <1>3, Go_count DEF count, At
  <2>2. \A f \in DOMAIN Zero : Gain(req[p], f) \in Int
    BY DEF Gain
  <2>3. [f \in DOMAIN Zero |-> mem.dirty[f] + Gain(req[p], f)] \in Delta
    BY <1>0, <2>2 DEF Mem, Delta
  <2>4. mem' \in Mem
    BY <1>0, <1>3, <2>3 DEF count, Mem
  <2>. QED BY <1>0, <1>3, <2>1, <2>4, TypesOf, AnswerOK DEF count, env
<1>4. CASE getcomment(p)
  <2>1. ReqOK'
    BY <1>4, Go_getcomment
  <2>. QED BY <1>0, <1>4, <2>1, TypesOf DEF getcomment, env, ghosts
<1>5. CASE setcomment(p)
  <2>1. ReqOK'
    BY <1>0, <1>5, Go_setcomment DEF setcomment, At
  <2>2. req[p].old \in Comment /\ req[p].seq \in Seqs /\ req[p].id \in Ids /\ req[p].at \in Times
    BY <1>0, <1>5 DEF setcomment, At, ReqOK, Knows, HoldsComment, Req
  <2>3. Changed(req[p]) \in Comment
    BY <2>2 DEF Changed, Comment
  <2>4. db' \in Db
    BY <1>0, <1>5, <2>2, <2>3 DEF setcomment, Db
  <2>. QED BY <1>0, <1>5, <2>1, <2>4, TypesOf, AnswerOK DEF setcomment, env
<1>6. CASE touch(p)
  <2>1. ReqOK'
    BY <1>0, <1>6, Go_touch DEF touch, At
  <2>2. req[p].at \in Times
    BY <1>0 DEF ReqOK, Req
  <2>3. row' \in Row \cup {None}
    BY <1>0, <1>6, <2>2 DEF touch, InRow, Row
  <2>. QED BY <1>0, <1>6, <2>1, <2>3, TypesOf, AnswerOK DEF touch, env
<1>. QED BY <1>1, <1>2, <1>3, <1>4, <1>5, <1>6 DEF Comments

(* VotePost and ResetVotes keep the types *)
LEMMA VoteTypes ==
  ASSUME Types, NEW p \in Procs, Voting(p)
  PROVE  Types'
<1>0. /\ ReqOK /\ db \in Db /\ row \in Row \cup {None} /\ mem \in Mem /\ up \in BOOLEAN
      /\ now \in Times /\ reqs \in Ids /\ acked \subseteq Ids /\ lost \in BOOLEAN
  BY TypesAre
<1>1. CASE getvote(p)
  <2>1. ReqOK'
    BY <1>1, Go_getvote
  <2>. QED BY <1>0, <1>1, <2>1, TypesOf DEF getvote, env, ghosts
<1>2. CASE setvote(p)
  <2>1. ReqOK' /\ req[p].op = "vote"
    BY <1>0, <1>2, Go_setvote DEF setvote, At
  <2>2. req[p].user \in Users /\ req[p].vote \in Votes
    BY <1>0, <2>1 DEF ReqOK, Knows, Req
  <2>3. db' \in Db
    BY <1>0, <1>2, <2>2 DEF setvote, Db
  <2>. QED BY <1>0, <1>2, <2>1, <2>3, TypesOf DEF setvote, env
<1>3. CASE delvotes(p)
  <2>1. ReqOK'
    BY <1>0, <1>3, Go_delvotes DEF delvotes, At
  <2>2. db' \in Db
    BY <1>0, <1>3 DEF delvotes, Db, Votes
  <2>. QED BY <1>0, <1>3, <2>1, <2>2, TypesOf DEF delvotes, env
<1>4. CASE zerodirty(p)
  <2>1. ReqOK'
    BY <1>0, <1>4, Go_zerodirty DEF zerodirty, At
  <2>2. mem' \in Mem
    <3>1. mem.dirty \in Delta /\ mem.seq \in Seqs \cup {None} /\ mem = [dirty |-> mem.dirty, seq |-> mem.seq]
      BY <1>0 DEF Mem
    <3>2. [mem.dirty EXCEPT !.up = 0, !.down = 0] \in Delta
      BY <3>1, DirtyVotes
    <3>3. mem' = [dirty |-> [mem.dirty EXCEPT !.up = 0, !.down = 0], seq |-> mem.seq]
      BY <1>4, <3>1 DEF zerodirty
    <3>. QED BY <3>1, <3>2, <3>3 DEF Mem
  <2>. QED BY <1>0, <1>4, <2>1, <2>2, TypesOf DEF zerodirty, env
<1>5. CASE zerorow(p)
  <2>1. ReqOK'
    BY <1>0, <1>5, Go_zerorow DEF zerorow, At
  <2>2. row' \in Row \cup {None}
    <3>1. CASE row = None
      BY <1>5, <3>1 DEF zerorow, InRow
    <3>2. CASE row # None
      <4>1. row \in Row /\ row' = [row EXCEPT !.up = 0, !.down = 0]
        BY <1>0, <1>5, <3>2 DEF zerorow, InRow
      <4>. QED BY <4>1, RowVotes
    <3>. QED BY <3>1, <3>2
  <2>. QED BY <1>0, <1>5, <2>1, <2>2, TypesOf DEF zerorow, env
<1>. QED BY <1>1, <1>2, <1>3, <1>4, <1>5 DEF Voting

(* CreatePost and what changes an article keep the types *)
LEMMA ArticleTypes ==
  ASSUME Types, NEW p \in Procs, Article(p)
  PROVE  Types'
<1>0. /\ ReqOK /\ db \in Db /\ row \in Row \cup {None} /\ mem \in Mem /\ up \in BOOLEAN
      /\ now \in Times /\ reqs \in Ids /\ acked \subseteq Ids /\ lost \in BOOLEAN
  BY TypesAre
<1>1. CASE lookup(p)
  <2>1. ReqOK'
    BY <1>1, Go_lookup
  <2>. QED BY <1>0, <1>1, <2>1, TypesOf DEF lookup, env, ghosts
<1>2. CASE insert(p)
  <2>1. ReqOK'
    BY <1>0, <1>2, Go_insert, RefuseOK DEF insert, At
  <2>2. row' \in Row \cup {None}
    BY <1>0, <1>2, NewOK DEF insert
  <2>. QED BY <1>0, <1>2, <2>1, <2>2, TypesOf DEF insert, env, ghosts
<1>3. CASE setnew(p)
  <2>1. ReqOK'
    BY <1>0, <1>3, Go_setnew DEF setnew, At
  <2>2. db' \in Db
    BY <1>0, <1>3, NewOK DEF setnew, Db
  <2>. QED BY <1>0, <1>3, <2>1, <2>2, TypesOf DEF setnew, env
<1>4. CASE getrow(p)
  <2>1. ReqOK'
    BY <1>4, Go_getrow
  <2>. QED BY <1>0, <1>4, <2>1, TypesOf DEF getrow, env, ghosts
<1>5. CASE import(p)
  <2>1. ReqOK'
    BY <1>0, <1>5, ReqSame DEF import
  <2>2. req[p].post \in Post
    BY <1>0, <1>5 DEF import, At, ReqOK, Knows
  <2>3. db' \in Db
    BY <1>0, <1>5, <2>2 DEF import, Db
  <2>. QED BY <1>0, <1>5, <2>1, <2>3, TypesOf DEF import, env
<1>6. CASE getbody(p)
  <2>1. ReqOK'
    BY <1>6, Go_getbody
  <2>. QED BY <1>0, <1>6, <2>1, TypesOf DEF getbody, env, ghosts
<1>7. CASE nextrev(p)
  <2>1. ReqOK'
    BY <1>7, Go_nextrev
  <2>. QED BY <1>0, <1>7, <2>1, TypesOf DEF nextrev, env, ghosts
<1>8. CASE archive(p)
  <2>1. ReqOK'
    BY <1>8, Go_archive
  <2>2. db' \in Db
    <3>. DEFINE h == IF req[p].rev > Len(db.hist[req[p].seq])
                     THEN Append(db.hist[req[p].seq], ArchivedText(req[p]))
                     ELSE [db.hist[req[p].seq] EXCEPT ![req[p].rev] = ArchivedText(req[p])]
    <3>1. db' = [db EXCEPT !.hist[req[p].seq] = h] /\ h \in Seq(SUBSET Ids)
          /\ req[p].seq \in {0} \cup Seqs
      BY <1>8, ArchiveOK
    <3>. HIDE DEF h
    <3>. QED BY <1>0, <3>1 DEF Db
  <2>. QED BY <1>0, <1>8, <2>1, <2>2, TypesOf DEF archive, env
<1>9. CASE setpost(p)
  <2>1. ReqOK'
    BY <1>9, Go_setpost
  <2>2. Record(req[p]) \in Post
    BY <1>9, RecordOK DEF setpost, At
  <2>3. db' \in Db
    BY <1>0, <1>9, <2>2 DEF setpost, Db
  <2>. QED BY <1>0, <1>9, <2>1, <2>3, TypesOf, AnswerOK DEF setpost, env
<1>10. CASE setrow(p)
  <2>1. ReqOK'
    BY <1>0, <1>10, Go_setrow DEF setrow, At
  <2>2. req[p].post \in Post /\ req[p].at \in Times /\ req[p].id \in Ids
    <3>1. req[p].op \in ArticleOps
      BY <1>0, <1>10, HereOps DEF setrow, At, Follows, ArticleOps
    <3>. QED BY <1>0, <1>10, <3>1 DEF setrow, At, ReqOK, Knows, HoldsPost, Req
  <2>3. row' \in Row \cup {None}
    BY <1>0, <1>10, <2>2 DEF setrow, InRow, Row, Post
  <2>. QED BY <1>0, <1>10, <2>1, <2>3, TypesOf, AnswerOK DEF setrow, env
<1>11. CASE setmode(p)
  <2>1. ReqOK'
    BY <1>0, <1>11, Go_setmode DEF setmode, At
  <2>2. row' \in Row \cup {None}
    BY <1>0, <1>11 DEF setmode, InRow, Row, ReqOK, Req
  <2>. QED BY <1>0, <1>11, <2>1, <2>2, TypesOf DEF setmode, env, ghosts
<1>12. CASE addcross(p)
  <2>1. ReqOK'
    BY <1>0, <1>12, Go_addcross DEF addcross, At
  <2>2. row' \in Row \cup {None}
    BY <1>0, <1>12 DEF addcross, InRow, Row
  <2>. QED BY <1>0, <1>12, <2>1, <2>2, TypesOf DEF addcross, env, ghosts
<1>13. CASE numcross(p)
  <2>1. ReqOK'
    BY <1>13, Go_numcross
  <2>. QED BY <1>0, <1>13, <2>1, TypesOf DEF numcross, env, ghosts
<1>14. CASE setcross(p)
  <2>1. ReqOK'
    BY <1>0, <1>14, Go_setcross DEF setcross, At
  <2>2. db' \in Db
    <3>0. IsFiniteSet(db.xposts) /\ req[p].rev \in Nat
      BY <1>0 DEF Db, ReqOK, Req
    <3>1. IsFiniteSet(db.xposts \cup {req[p].rev})
      BY <3>0, FS_AddElement
    <3>. QED BY <1>0, <1>14, <3>0, <3>1 DEF setcross, Db
  <2>. QED BY <1>0, <1>14, <2>1, <2>2, TypesOf DEF setcross, env
<1>. QED BY <1>1, <1>2, <1>3, <1>4, <1>5, <1>6, <1>7, <1>8, <1>9, <1>10, <1>11, <1>12, <1>13,
            <1>14 DEF Article

(* flush and purge keep the types *)
LEMMA PurgeTypes ==
  ASSUME Types, NEW p \in Procs, Purging(p)
  PROVE  Types'
<1>0. /\ ReqOK /\ db \in Db /\ row \in Row \cup {None} /\ mem \in Mem /\ up \in BOOLEAN
      /\ now \in Times /\ reqs \in Ids /\ acked \subseteq Ids /\ lost \in BOOLEAN
  BY TypesAre
<1>1. CASE take(p)
  <2>1. ReqOK'
    BY <1>1, Go_take
  <2>2. mem' \in Mem
    BY <1>0, <1>1, ZeroOK DEF take, Mem
  <2>. QED BY <1>0, <1>1, <2>1, <2>2, TypesOf DEF take, env, ghosts
<1>2. CASE apply(p)
  <2>1. ReqOK'
    BY <1>0, <1>2, Go_apply DEF apply, At
  <2>2. req[p].old \in Delta
    BY <1>0, <1>2 DEF apply, At, ReqOK, Knows
  <2>3. row' \in Row \cup {None}
    <3>1. CASE row = None
      BY <1>2, <3>1 DEF apply, InRow
    <3>2. CASE row # None
      <4>1. row \in Row /\ row' = Added(row, req[p].old)
        BY <1>0, <1>2, <3>2 DEF apply, InRow
      <4>. QED BY <2>2, <4>1, AddedOK
    <3>. QED BY <3>1, <3>2
  <2>. QED BY <1>0, <1>2, <2>1, <2>3, TypesOf DEF apply, env, ghosts
<1>3. CASE ApplyFails(p)
  <2>1. ReqOK'
    BY <1>0, <1>3, Go_apply DEF ApplyFails, At
  <2>. QED BY <1>0, <1>3, <2>1, TypesOf DEF ApplyFails, env
<1>4. CASE delrow(p)
  <2>1. ReqOK'
    BY <1>0, <1>4, Go_delrow DEF delrow, At
  <2>. QED BY <1>0, <1>4, <2>1, TypesOf DEF delrow, env
<1>5. CASE list(p)
  <2>1. ReqOK'
    BY <1>5, Go_list
  <2>. QED BY <1>0, <1>5, <2>1, TypesOf DEF list, env, ghosts
<1>6. CASE forget(p)
  <2>1. ReqOK'
    BY <1>0, <1>6, Go_forget DEF forget, At
  <2>2. mem' \in Mem
    BY <1>6, ZeroOK DEF forget, Mem
  <2>. QED BY <1>0, <1>6, <2>1, <2>2, TypesOf DEF forget, env, ghosts
<1>7. CASE delpost(p)
  <2>1. ReqOK'
    BY <1>0, <1>7, Go_delpost DEF delpost, At
  <2>2. db' \in Db
    <3>1. IsFiniteSet(db.xposts \ req[p].old.xposts) /\ db.xposts \ req[p].old.xposts \in SUBSET Nat
      BY <1>0, FS_Difference DEF Db
    <3>. QED BY <1>0, <1>7, <3>1 DEF delpost, Db
  <2>. QED BY <1>0, <1>7, <2>1, <2>2, TypesOf DEF delpost, env, ghosts
<1>8. CASE delcomments(p)
  <2>1. ReqOK'
    BY <1>0, <1>8, Go_delcomments DEF delcomments, At
  <2>2. db' \in Db
    BY <1>0, <1>8 DEF delcomments, Db
  <2>. QED BY <1>0, <1>8, <2>1, <2>2, TypesOf DEF delcomments, env, ghosts
<1>9. CASE dropvotes(p)
  <2>1. ReqOK'
    BY <1>0, <1>9, Go_dropvotes DEF dropvotes, At
  <2>2. db' \in Db
    BY <1>0, <1>9 DEF dropvotes, Db, Votes
  <2>. QED BY <1>0, <1>9, <2>1, <2>2, TypesOf DEF dropvotes, env, ghosts
<1>10. CASE delhist(p)
  <2>1. ReqOK' /\ req[p].old \in Listing
    BY <1>0, <1>10, Go_delhist DEF delhist, At, ReqOK, Knows
  <2>2. \A o \in {0} \cup Seqs : Dropped(db.hist[o], req[p].old.hist[o]) \in Seq(SUBSET Ids)
    BY <1>0, <2>1, DroppedOK DEF Db, Listing
  <2>3. db' \in Db
    BY <1>0, <1>10, <2>2 DEF delhist, Db
  <2>. QED BY <1>0, <1>10, <2>1, <2>3, TypesOf DEF delhist, env, ghosts
<1>. QED BY <1>1, <1>2, <1>3, <1>4, <1>5, <1>6, <1>7, <1>8, <1>9, <1>10 DEF Purging

-----------------------------------------------------------------------------
(* the process *)

(* the sequences, comments and votes that can be counted *)
LEMMA Countable ==
  ASSUME Types
  PROVE  /\ IsFiniteSet(Present(db.comments)) /\ Present(db.comments) \subseteq Seqs
         /\ Cardinality(Present(db.comments)) \in Nat
         /\ \A v : Voted(v) \in Nat
         /\ Cardinality(db.xposts) \in Nat
<1>1. IsFiniteSet(Seqs)
  BY PostStoreAssumption, FS_Interval DEF Seqs
<1>2. Present(db.comments) \subseteq Seqs
  BY DEF Types, TypeOK, Present
<1>3. IsFiniteSet(Present(db.comments)) /\ Cardinality(Present(db.comments)) \in Nat
  BY <1>1, <1>2, FS_Subset, FS_CardinalityType
<1>4. ASSUME NEW v PROVE Voted(v) \in Nat
  <2>1. IsFiniteSet({u \in Users : db.votes[u] = v})
    BY PostStoreAssumption, FS_Subset
  <2>. QED BY <2>1, FS_CardinalityType DEF Voted
<1>5. Cardinality(db.xposts) \in Nat
  BY FS_CardinalityType DEF Types, TypeOK
<1>. QED BY <1>2, <1>3, <1>4, <1>5

(* comments have a latest time *)
LEMMA ModBound ==
  ASSUME Types
  PROVE  \E b \in Nat : \A s \in Present(db.comments) : db.comments[s].mod <= b
<1>. DEFINE S == {n \in Nat : \E b \in Nat : \A s \in Present(db.comments) :
                                 s <= n => db.comments[s].mod <= b}
<1>0. \A s \in Present(db.comments) : s \in Nat /\ s # 0 /\ s <= MaxReqs + 1 /\ db.comments[s].mod \in Nat
  <2>1. \A s \in Present(db.comments) : s \in Seqs /\ db.comments[s] \in Comment
    BY DEF Types, TypeOK, Present
  <2>. QED BY <2>1, PostStoreAssumption DEF Seqs, Comment, Times
<1>1. 0 \in S
  BY <1>0
<1>2. ASSUME NEW n \in S PROVE n + 1 \in S
  <2>1. PICK b \in Nat : \A s \in Present(db.comments) : s <= n => db.comments[s].mod <= b
    BY <1>2
  <2>2. CASE n + 1 \in Present(db.comments)
    <3>. DEFINE m == db.comments[n + 1].mod
    <3>1. m \in Nat
      BY <1>0, <2>2
    <3>2. \A s \in Present(db.comments) : s <= n + 1 => s <= n \/ s = n + 1
      BY <1>0
    <3>3. \A s \in Present(db.comments) : s <= n + 1 => db.comments[s].mod <= b + m
      BY <1>0, <2>1, <3>1, <3>2
    <3>4. b + m \in Nat /\ n + 1 \in Nat
      BY <3>1
    <3>. HIDE DEF m
    <3>. QED BY <3>3, <3>4
  <2>3. CASE n + 1 \notin Present(db.comments)
    <3>1. \A s \in Present(db.comments) : s <= n + 1 => s <= n
      BY <1>0, <2>3
    <3>. QED BY <2>1, <3>1
  <2>. QED BY <2>2, <2>3
<1>3. MaxReqs + 1 \in S
  <2>. HIDE DEF S
  <2>1. S \in SUBSET Nat
    BY DEF S
  <2>. QED BY <1>1, <1>2, <2>1, NatInd, PostStoreAssumption
<1>. QED BY <1>0, <1>3

(* a rebuild gives a row to every record, with its counters *)
LEMMA RebuiltOK ==
  ASSUME Types
  PROVE  /\ Rebuilt \in Row \cup {None}
         /\ Rebuilt # None <=> db.post # None
         /\ Rebuilt # None => /\ Rebuilt.num = Cardinality(Present(db.comments))
                              /\ Rebuilt.up = Voted("up") /\ Rebuilt.down = Voted("down")
<1>1. CASE db.post = None
  BY <1>1 DEF Rebuilt
<1>2. CASE db.post # None
  <2>. DEFINE S == {db.post.mod} \cup {db.comments[s].mod : s \in Present(db.comments)}
  <2>1. db.post \in Post /\ db.post.mod \in Nat
    BY <1>2 DEF Types, TypeOK, Post, Times
  <2>2. \A s \in Present(db.comments) : db.comments[s].mod \in Nat
    <3>1. \A s \in Present(db.comments) : db.comments[s] \in Comment
      BY DEF Types, TypeOK, Present
    <3>. QED BY <3>1 DEF Comment, Times
  <2>3. S \in SUBSET Nat /\ S # {}
    BY <2>1, <2>2
  <2>4. PICK b \in Nat : \A s \in Present(db.comments) : db.comments[s].mod <= b
    BY ModBound
  <2>5. b + db.post.mod \in Nat /\ \A x \in S : x <= b + db.post.mod
    BY <2>1, <2>2, <2>4
  <2>6. Max(S) \in Nat
    <3>. HIDE DEF S
    <3>. QED BY <2>3, <2>5, MaxBounded
  <2>. HIDE DEF S
  <2>7. Rebuilt = [title |-> db.post.title, mode |-> db.post.mode, del |-> db.post.del,
          mod |-> Max(S), num |-> Cardinality(Present(db.comments)), up |-> Voted("up"),
          down |-> Voted("down"), xp |-> Cardinality(db.xposts)]
    BY <1>2 DEF Rebuilt, Counted, S
  <2>8. Rebuilt \in Row
    BY <2>1, <2>6, <2>7, Countable DEF Row, Post, Times
  <2>. QED BY <1>2, <2>7, <2>8, NoneAssumption
<1>. QED BY <1>1, <1>2

(* a crash keeps the types *)
LEMMA CrashOK ==
  ASSUME Types, Crash
  PROVE  Types'
<1>1. ReqOK'
  BY IdleOK DEF Crash, ReqOK, Knows, Here, HoldsComment, HoldsPost
<1>2. mem' \in Mem
  BY ZeroOK DEF Crash, Mem
<1>. QED BY <1>1, <1>2, TypesAre, TypesOf DEF Crash

(* every step keeps the types *)
LEMMA TypesNext ==
  ASSUME Types, [Next]_vars
  PROVE  Types'
<1>0. /\ ReqOK /\ db \in Db /\ row \in Row \cup {None} /\ mem \in Mem /\ up \in BOOLEAN
      /\ now \in Times /\ reqs \in Ids /\ acked \subseteq Ids /\ lost \in BOOLEAN
  BY TypesAre
<1>1. ASSUME NEW p \in Procs, Fetch(p) PROVE Types'
  BY <1>0, <1>1, Go_Fetch, TypesOf DEF Fetch, env, ghosts
<1>2. ASSUME NEW p \in Procs, Flush(p) PROVE Types'
  <2>1. mem' \in Mem
    BY <1>0, <1>2, ZeroOK DEF Flush, Mem
  <2>. QED BY <1>0, <1>2, <2>1, Go_Flush, TypesOf DEF Flush, env, ghosts
<1>3. CASE Restart
  BY <1>0, <1>3, ReqSame, TypesOf DEF Restart, ghosts
<1>4. CASE RebuildSQLiteFromPebble
  BY <1>0, <1>4, ReqSame, RebuiltOK, TypesOf DEF RebuildSQLiteFromPebble
<1>5. CASE Tick
  <2>1. now' \in Times
    BY <1>0, <1>5 DEF Tick, Times
  <2>. QED BY <1>0, <1>5, <2>1, ReqSame, TypesOf DEF Tick, ghosts
<1>6. CASE UNCHANGED vars
  BY <1>0, <1>6, ReqSame, TypesOf DEF vars
<1>. QED BY <1>1, <1>2, <1>3, <1>4, <1>5, <1>6, RequestOK, CommentTypes, VoteTypes, ArticleTypes,
            PurgeTypes, CrashOK DEF Next

(* Type correctness: the requests have the accesses, and know the values, that
   their handlers have read when they use them. *)
THEOREM TypeCorrect == Spec => []Types
<1>1. Init => Types
  BY InitTypes
<1>2. Types /\ [Next]_vars => Types'
  BY TypesNext
<1>. QED BY <1>1, <1>2, PTL DEF Spec

-----------------------------------------------------------------------------
(* The inductive invariant of the counters and the sequences *)

(* a purge that is past the deletion of the row finds none *)
RowGone ==
  \A p \in Procs : req[p].op = "purge" /\ Here(req[p]) \in {"list", "forget", "delpost", "delcomments", "dropvotes", "delhist"}
    => row = None /\ "purged" \in stale

(* a service that is down has no memory *)
Asleep == ~up => mem = [dirty |-> Zero, seq |-> None] /\ \A p \in Procs : req[p] = Idle

(* an article that was never there has no records and no requests but those that create it *)
NoRow ==
  row = None /\ "purged" \notin stale =>
    /\ mem = [dirty |-> Zero, seq |-> None]
    /\ \A p \in Procs : req[p].op \in {"idle", "create"}
    /\ ~lost => (\A s \in Seqs : db.comments[s] = None) /\ (\A u \in Users : db.votes[u] = "none")

(* a row without a record is that of a request that will store it *)
Stored ==
  row # None /\ ~lost /\ db.post = None => \E p \in Procs : Here(req[p]) = "setnew"

(* comments are deleted only by a purge *)
OldThere ==
  row # None => \A p \in Procs : HoldsComment(req[p]) => db.comments[req[p].seq] # None

(* sequences are given out once *)
SeqInv ==
  row # None =>
    /\ mem.seq # None => /\ \A s \in Present(db.comments) : s <= mem.seq
                         /\ \A p \in Procs : Here(req[p]) = "newcomment" => req[p].seq <= mem.seq
    /\ \A p \in Procs : Here(req[p]) = "newcomment" =>
         /\ mem.seq # None /\ db.comments[req[p].seq] = None
         /\ \A q \in Procs \ {p} : Here(req[q]) = "newcomment" => req[q].seq # req[p].seq

(* a reset that nobody met has nothing under way that counts votes *)
ResetInv ==
  (\E p \in Procs : req[p].op = "reset" /\ Here(req[p]) = "zerorow") /\ "votes" \notin stale =>
    /\ mem.dirty["up"] = 0 /\ mem.dirty["down"] = 0
    /\ \A q \in Procs : ~(req[q].op = "vote" /\ Here(req[q]) = "count")

PostInv == RowGone /\ Asleep /\ NoRow /\ Stored /\ OldThere /\ SeqInv /\ ResetInv

(* the counters, one by one *)
NumExact ==
  row # None /\ ~lost => row["num"] + UnderWay("num") = Cardinality(Present(db.comments))
VotesExact(f) ==
  row # None /\ ~lost /\ "votes" \notin stale /\ (\A p \in Procs : req[p].op # "reset") =>
    row[f] + UnderWay(f) = Voted(f)
Exact == NumExact /\ VotesExact("up") /\ VotesExact("down")

Kept == PostInv /\ Exact

(* what is under way are integers *)
LEMMA CarriedInt ==
  ASSUME ReqOK, NEW q \in Procs, NEW f \in DOMAIN Zero
  PROVE  Carried(req[q], f) \in Int
<1>1. CASE Here(req[q]) = "count"
  BY <1>1 DEF Carried, Gain
<1>2. CASE Here(req[q]) = "apply"
  <2>1. req[q].old \in Delta
    BY <1>2 DEF ReqOK, Knows
  <2>. QED BY <1>2, <2>1 DEF Carried, Delta
<1>3. CASE Here(req[q]) \notin {"count", "apply"}
  BY <1>3 DEF Carried
<1>. QED BY <1>1, <1>2, <1>3

(* What one step changes in what is under way is what it changes in
   dirtyDeltas and in what the one request carries that takes it. *)
LEMMA UnderWayStep ==
  ASSUME Types, Types', NEW p \in Procs, req' = [req EXCEPT ![p] = req'[p]],
         NEW f \in DOMAIN Zero
  PROVE  /\ UnderWay(f) \in Int /\ UnderWay(f)' \in Int
         /\ mem.dirty[f] \in Int /\ mem'.dirty[f] \in Int
         /\ Carried(req[p], f) \in Int /\ Carried(req'[p], f) \in Int
         /\ UnderWay(f)' = UnderWay(f) + (mem'.dirty[f] - mem.dirty[f])
                             + (Carried(req'[p], f) - Carried(req[p], f))
<1>. DEFINE g == [q \in Procs |-> Carried(req[q], f)]  h == [q \in Procs |-> Carried(req'[q], f)]
<1>1. ReqOK /\ ReqOK' /\ mem.dirty[f] \in Int /\ mem'.dirty[f] \in Int
  BY DEF Types, TypeOK, Delta
<1>2. \A q \in Procs : Carried(req[q], f) \in Int
  BY <1>1, CarriedInt
<1>3. \A q \in Procs : Carried(req'[q], f) \in Int
  <2>1. ASSUME NEW q \in Procs PROVE Carried(req[q], f)' \in Int
    <3>1. DOMAIN Zero = (DOMAIN Zero)'
      BY DEF Zero
    <3>2. CASE Here(req[q])' = "count"
      BY <3>2 DEF Carried, Gain, Here
    <3>3. CASE Here(req[q])' = "apply"
      <4>1. req'[q].old \in Delta
        BY <1>1, <3>3 DEF ReqOK, Knows, Here
      <4>. QED BY <3>3, <4>1 DEF Carried, Delta, Here
    <3>4. CASE Here(req[q])' \notin {"count", "apply"}
      BY <3>4 DEF Carried, Here
    <3>. QED BY <3>2, <3>3, <3>4
  <2>. QED BY <2>1
<1>4. g \in [Procs -> Int] /\ h \in [Procs -> Int] /\ \A q \in Procs \ {p} : g[q] = h[q]
  <2>1. \A q \in Procs \ {p} : req'[q] = req[q]
    BY <1>1 DEF ReqOK
  <2>. QED BY <1>2, <1>3, <2>1
<1>5. g[p] = Carried(req[p], f) /\ h[p] = Carried(req'[p], f)
  OBVIOUS
<1>6. UnderWay(f) = mem.dirty[f] + SumFunction(g) /\ UnderWay(f)' = mem'.dirty[f] + SumFunction(h)
  BY DEF UnderWay
<1>. HIDE DEF g, h
<1>7. /\ SumFunction(g) \in Int /\ SumFunction(h) \in Int
      /\ SumFunction(h) = SumFunction(g) - g[p] + h[p]
  BY <1>4, SumChange, PostStoreAssumption
<1>. QED BY <1>1, <1>2, <1>3, <1>5, <1>6, <1>7

(* Most steps leave the counters and the memory of the engine alone, delete no
   comment, and do not bring their request to an access that matters here. *)
Harmless(r, n) ==
  /\ {Here(r), Here(n)} \cap {"count", "apply"} = {} /\ Here(n) \notin {"newcomment", "zerorow"}
  /\ HoldsComment(n) => db.comments[n.seq] # None \/ (HoldsComment(r) /\ n.seq = r.seq)
  /\ r.op = "reset" => n.op = "reset"
  /\ n.op = "purge" /\ Here(n) \in {"list", "forget", "delpost", "delcomments", "dropvotes", "delhist"}
       => r.op = "purge" /\ Here(r) \in {"list", "forget", "delpost", "delcomments", "dropvotes", "delhist"}
  /\ r.op \in {"idle", "create"} => n.op \in {"idle", "create"} \/ row # None
  /\ Here(r) = "setnew" => Here(n) = "setnew" \/ db'.post # None
Quiet(p) ==
  /\ up /\ up' /\ req' = [req EXCEPT ![p] = req'[p]] /\ mem' = mem /\ lost' = lost
  /\ row' = None <=> row = None
  /\ row # None => \A f \in DOMAIN Zero : row'[f] = row[f]
  /\ db'.votes = db.votes
  /\ \A s \in Seqs : db'.comments[s] = None <=> db.comments[s] = None
  /\ row # None /\ db'.post = None => db.post = None
  /\ \A what \in {"purged", "votes"} : what \in stale' <=> what \in stale
  /\ Harmless(req[p], req'[p])

(* the sequences that are in use *)
LEMMA PresentIs ==
  ASSUME Types
  PROVE  Present(db.comments) = {s \in Seqs : db.comments[s] # None}
BY DEF Types, TypeOK, Present

(* a quiet step keeps the invariant ... *)
LEMMA QuietInv ==
  ASSUME Types, Types', PostInv, NEW p \in Procs, Quiet(p)
  PROVE  PostInv'
<1>. DEFINE r == req[p]  n == req'[p]
<1>0. /\ Harmless(r, n) /\ ReqOK /\ \A q \in Procs : q # p => req'[q] = req[q]
      /\ Present(db.comments)' = Present(db.comments)
  BY PresentIs DEF Quiet, Types, ReqOK, TypeOK, Present
<1>1. RowGone'
  BY <1>0 DEF Quiet, PostInv, RowGone, Harmless, Here
<1>2. Asleep'
  BY DEF Quiet, Asleep
<1>3. NoRow'
  BY <1>0 DEF Quiet, PostInv, NoRow, Harmless
<1>4. Stored'
  BY <1>0 DEF Quiet, PostInv, Stored, Harmless, Here
<1>5. OldThere'
  <2>. SUFFICES ASSUME row' # None, NEW q \in Procs, HoldsComment(req[q])'
                PROVE  db'.comments[req'[q].seq] # None
    BY DEF OldThere
  <2>1. req'[q].seq \in Seqs
    BY DEF Types, ReqOK, Knows, HoldsComment, Here
  <2>2. HoldsComment(req'[q])
    BY DEF HoldsComment, Here
  <2>3. CASE q = p
    BY <1>0, <2>1, <2>2, <2>3 DEF Quiet, PostInv, OldThere, Harmless
  <2>4. CASE q # p
    BY <1>0, <2>1, <2>2, <2>4 DEF Quiet, PostInv, OldThere
  <2>. QED BY <2>3, <2>4
<1>6. SeqInv'
  <2>. SUFFICES ASSUME row' # None PROVE SeqInv'
    BY DEF SeqInv
  <2>1. Here(n) # "newcomment"
    BY <1>0 DEF Harmless
  <2>2. \A q \in Procs : Here(req'[q]) = "newcomment" => q # p /\ req'[q] = req[q]
    BY <1>0, <2>1
  <2>3. \A q \in Procs : Here(req[q]) = "newcomment" => req[q].seq \in Seqs
    BY <1>0 DEF ReqOK, Knows
  <2>4. row # None /\ SeqInv /\ mem' = mem
    BY DEF Quiet, PostInv
  <2>5. mem'.seq # None => /\ \A s \in Present(db.comments)' : s <= mem'.seq
                           /\ \A q \in Procs : Here(req'[q]) = "newcomment" => req'[q].seq <= mem'.seq
    BY <1>0, <2>2, <2>4 DEF SeqInv
  <2>6. \A q \in Procs : Here(req'[q]) = "newcomment" =>
         /\ mem'.seq # None /\ db'.comments[req'[q].seq] = None
         /\ \A o \in Procs \ {q} : Here(req'[o]) = "newcomment" => req'[o].seq # req'[q].seq
    BY <2>2, <2>3, <2>4 DEF SeqInv, Quiet
  <2>. QED BY <2>5, <2>6 DEF SeqInv, Here
<1>7. ResetInv'
  BY <1>0 DEF Quiet, PostInv, ResetInv, Harmless, Here
<1>. QED BY <1>1, <1>2, <1>3, <1>4, <1>5, <1>6, <1>7 DEF PostInv

(* ... and the counters *)
LEMMA QuietExact ==
  ASSUME Types, Types', Exact, NEW p \in Procs, Quiet(p)
  PROVE  Exact'
<1>1. ReqOK /\ Present(db.comments)' = Present(db.comments) /\ \A f : Voted(f)' = Voted(f)
  BY PresentIs DEF Quiet, Types, TypeOK, Present, Voted
<1>2. \A f \in DOMAIN Zero : Carried(req[p], f) = 0 /\ Carried(req'[p], f) = 0
  BY DEF Quiet, Harmless, Carried
<1>3. ASSUME NEW f \in DOMAIN Zero PROVE UnderWay(f)' = UnderWay(f)
  BY <1>2, UnderWayStep DEF Quiet
<1>4. /\ row' # None => row # None
      /\ row # None => row'["num"] = row["num"] /\ row'["up"] = row["up"] /\ row'["down"] = row["down"]
  BY ZeroOK DEF Quiet
<1>5. NumExact'
  BY <1>1, <1>3, <1>4, ZeroOK DEF Exact, NumExact, Quiet
<1>6. (\A q \in Procs : req'[q].op # "reset") => \A q \in Procs : req[q].op # "reset"
  BY <1>1 DEF Quiet, Harmless, ReqOK
<1>7. VotesExact("up")'
  BY <1>1, <1>3, <1>4, <1>6, ZeroOK DEF Exact, VotesExact, Quiet
<1>8. VotesExact("down")'
  BY <1>1, <1>3, <1>4, <1>6, ZeroOK DEF Exact, VotesExact, Quiet
<1>. QED BY <1>5, <1>7, <1>8 DEF Exact

(* the steps that are quiet *)
LEMMA Quiet_Request ==
  ASSUME Types, NEW p \in Procs, Request(p)
  PROVE  Quiet(p)
<1>1. /\ req' = [req EXCEPT ![p] = req'[p]] /\ req'[p].op \in Ops
      /\ Here(req'[p]) = Begins(req'[p].op) /\ req[p].op = "idle" /\ Here(req[p]) = "none"
      /\ req'[p].op = "create" \/ row # None
      /\ UNCHANGED <<db, row, mem, up, now, crashes, ghosts>>
  BY RequestOK
<1>2. up
  BY DEF Request, Start
<1>3. Here(req'[p]) \in {"lookup", "choose", "getvote", "delvotes", "getrow", "setmode", "getcomment"}
  BY <1>1 DEF Begins, Ops, CommentOps
<1>4. Harmless(req[p], req'[p])
  BY <1>1, <1>3 DEF Harmless, HoldsComment, CommentOps
<1>. QED BY <1>1, <1>2, <1>4 DEF Quiet, ghosts

(* an editor is shown the article *)
LEMMA Quiet_Fetch ==
  ASSUME Types, NEW p \in Procs, Fetch(p)
  PROVE  Quiet(p)
<1>1. /\ req' = [req EXCEPT ![p] = req'[p]] /\ req[p] = Idle
      /\ req'[p].op = "idle" /\ Here(req'[p]) = "none" /\ Here(req[p]) = "none" /\ req[p].op = "idle"
  BY Go_Fetch, IdleOK DEF Idle
<1>2. Harmless(req[p], req'[p])
  BY <1>1 DEF Harmless, HoldsComment
<1>. QED BY <1>1, <1>2 DEF Quiet, Fetch, env, ghosts

(* a step that reads *)
LEMMA QuietRead ==
  ASSUME Types, NEW p \in Procs, up, UNCHANGED <<db, row, mem, env, ghosts>>,
         req' = [req EXCEPT ![p] = req'[p]], Harmless(req[p], req'[p])
  PROVE  Quiet(p)
BY DEF Quiet, env, ghosts

(* a step at which a request ends *)
LEMMA QuietEnd ==
  ASSUME ReqOK, NEW p \in Procs, req'[p] = Idle,
         Here(req[p]) \notin {"count", "apply", "setnew"}, req[p].op # "reset"
  PROVE  Harmless(req[p], req'[p])
<1>1. Here(req'[p]) = "none" /\ req'[p].op = "idle"
  BY IdleOK DEF Idle
<1>. QED BY <1>1 DEF Harmless, HoldsComment

(* CreatePost looks for the row *)
LEMMA Quiet_lookup ==
  ASSUME Types, NEW p \in Procs, lookup(p)
  PROVE  Quiet(p)
<1>1. /\ req' = [req EXCEPT ![p] = req'[p]] /\ req[p].op = "create" /\ Here(req[p]) = "lookup"
      /\ Here(req'[p]) \in {"insert", "setnew"} /\ req'[p].op = "create"
  BY Go_lookup DEF lookup, At, Same
<1>2. Harmless(req[p], req'[p])
  BY <1>1 DEF Harmless, HoldsComment, CommentOps
<1>. QED BY <1>1, <1>2, QuietRead DEF lookup, At

(* VotePost reads the last vote *)
LEMMA Quiet_getvote ==
  ASSUME Types, NEW p \in Procs, getvote(p)
  PROVE  Quiet(p)
<1>1. /\ req' = [req EXCEPT ![p] = req'[p]] /\ req[p].op = "vote" /\ Here(req[p]) = "getvote"
      /\ req'[p] = Idle \/ (Here(req'[p]) = "setvote" /\ req'[p].op = "vote")
  BY Go_getvote DEF getvote, At, SameButOld
<1>2. Harmless(req[p], req'[p])
  BY <1>1, QuietEnd DEF Harmless, HoldsComment, CommentOps, Types
<1>. QED BY <1>1, <1>2, QuietRead DEF getvote, At

(* a comment is read to be changed *)
LEMMA Quiet_getcomment ==
  ASSUME Types, NEW p \in Procs, getcomment(p)
  PROVE  Quiet(p)
<1>1. /\ req' = [req EXCEPT ![p] = req'[p]] /\ req[p].op \in CommentOps /\ Here(req[p]) = "getcomment"
      /\ \/ req'[p] = Idle
         \/ /\ Here(req'[p]) \in {"setcomment", "nextrev"} /\ req'[p].op = req[p].op
            /\ req'[p].seq = req[p].seq /\ db.comments[req[p].seq] # None
  BY Go_getcomment DEF getcomment, At, SameButOld
<1>2. Harmless(req[p], req'[p])
  BY <1>1, QuietEnd DEF Harmless, HoldsComment, CommentOps, Types
<1>. QED BY <1>1, <1>2, QuietRead DEF getcomment, At

(* GetPost reads the row *)
LEMMA Quiet_getrow ==
  ASSUME Types, NEW p \in Procs, getrow(p)
  PROVE  Quiet(p)
<1>1. /\ req' = [req EXCEPT ![p] = req'[p]] /\ req[p].op \in ArticleOps \cup {"purge"}
      /\ Here(req[p]) = "getrow"
      /\ req'[p] = Idle \/ (Here(req'[p]) = "getbody" /\ req'[p].op = req[p].op)
  BY Go_getrow DEF getrow, At, SameButPost
<1>2. Harmless(req[p], req'[p])
  BY <1>1, QuietEnd DEF Harmless, HoldsComment, CommentOps, ArticleOps, Types
<1>. QED BY <1>1, <1>2, QuietRead DEF getrow, At

(* GetPost reads the record *)
LEMMA Quiet_getbody ==
  ASSUME Types, NEW p \in Procs, getbody(p)
  PROVE  Quiet(p)
<1>1. /\ req' = [req EXCEPT ![p] = req'[p]] /\ req[p].op \in ArticleOps \cup {"purge"}
      /\ Here(req[p]) = "getbody"
      /\ \/ req'[p] = Idle
         \/ Here(req'[p]) \in {"nextrev", "setpost", "addcross", "take"} /\ req'[p].op = req[p].op
  BY Go_getbody DEF getbody, At, SameButPost, ArticleOps
<1>2. Harmless(req[p], req'[p])
  BY <1>1, QuietEnd DEF Harmless, HoldsComment, CommentOps, ArticleOps, Types
<1>. QED BY <1>1, <1>2, QuietRead DEF getbody, At

(* the next revision is looked up *)
LEMMA Quiet_nextrev ==
  ASSUME Types, NEW p \in Procs, nextrev(p)
  PROVE  Quiet(p)
<1>1. /\ req' = [req EXCEPT ![p] = req'[p]] /\ Here(req[p]) = "nextrev"
      /\ req[p].op \in {"edit", "title", "delete", "cedit", "cdelete"}
      /\ Here(req'[p]) = "archive" /\ req'[p].op = req[p].op /\ req'[p].seq = req[p].seq
  BY Go_nextrev DEF nextrev, At, SameButRev
<1>2. Harmless(req[p], req'[p])
  BY <1>1 DEF Harmless, HoldsComment, CommentOps
<1>. QED BY <1>1, <1>2, QuietRead DEF nextrev, At

(* AddCrosspost reads the counter again *)
LEMMA Quiet_numcross ==
  ASSUME Types, NEW p \in Procs, numcross(p)
  PROVE  Quiet(p)
<1>1. /\ req' = [req EXCEPT ![p] = req'[p]] /\ Here(req[p]) = "numcross" /\ req[p].op = "cross"
      /\ Here(req'[p]) = "setcross" /\ req'[p].op = "cross"
  BY Go_numcross DEF numcross, At, SameButRev
<1>2. Harmless(req[p], req'[p])
  BY <1>1 DEF Harmless, HoldsComment, CommentOps
<1>. QED BY <1>1, <1>2, QuietRead DEF numcross, At

(* a purge lists what it will delete *)
LEMMA Quiet_list ==
  ASSUME Types, NEW p \in Procs, list(p)
  PROVE  Quiet(p)
<1>1. /\ req' = [req EXCEPT ![p] = req'[p]] /\ Here(req[p]) = "list" /\ req[p].op = "purge"
      /\ Here(req'[p]) = "forget" /\ req'[p].op = "purge"
  BY Go_list DEF list, At, SameButOld
<1>2. Harmless(req[p], req'[p])
  BY <1>1 DEF Harmless, HoldsComment, CommentOps
<1>. QED BY <1>1, <1>2, QuietRead DEF list, At

(* an INSERT that fails *)
LEMMA Quiet_refused ==
  ASSUME Types, NEW p \in Procs, insert(p), ~(row = None /\ "purged" \notin stale)
  PROVE  Quiet(p)
<1>1. ReqOK /\ up /\ Here(req[p]) = "insert" /\ Refuse(p) /\ UNCHANGED <<db, row, mem, env, ghosts>>
  BY DEF Types, insert, At
<1>2. req' = [req EXCEPT ![p] = req'[p]] /\ req'[p] = Idle
  BY <1>1, RefuseOK DEF Ends
<1>3. req[p].op = "create"
  BY <1>1, HereOps DEF Follows
<1>4. Harmless(req[p], req'[p])
  BY <1>1, <1>2, <1>3, QuietEnd
<1>. QED BY <1>1, <1>2, <1>4, QuietRead

(* steps that change the article or its history *)
LEMMA QuietWrite ==
  ASSUME Types, NEW p \in Procs, up, UNCHANGED <<mem, env, lost>>,
         req' = [req EXCEPT ![p] = req'[p]], Harmless(req[p], req'[p]),
         row' = None <=> row = None,
         row # None => \A f \in DOMAIN Zero : row'[f] = row[f],
         row # None /\ db'.post = None => db.post = None,
         db'.votes = db.votes, db'.comments = db.comments,
         stale' \subseteq stale \cup {"post", "comments", "clock", "title"},
         stale \ {"title"} \subseteq stale'
  PROVE  Quiet(p)
BY DEF Quiet, env

(* the record that CreatePost stores *)
LEMMA Quiet_setnew ==
  ASSUME Types, NEW p \in Procs, setnew(p)
  PROVE  Quiet(p)
<1>1. ReqOK /\ Here(req[p]) = "setnew" /\ Continue(p, req[p]) /\ up
  BY DEF Types, setnew, At
<1>2. /\ req' = [req EXCEPT ![p] = req'[p]] /\ req[p].op = "create" /\ Here(req'[p]) = "none"
      /\ req'[p].op = "idle"
  BY <1>1, Go_setnew, IdleOK DEF Idle
<1>3. NewPost # None
  BY NewOK, NoneAssumption
<1>4. db'.post # None /\ db'.votes = db.votes /\ db'.comments = db.comments
  BY <1>3 DEF setnew, Types, TypeOK
<1>5. Harmless(req[p], req'[p])
  BY <1>1, <1>2, <1>4 DEF Harmless, HoldsComment, CommentOps
<1>. QED BY <1>1, <1>2, <1>4, <1>5, QuietWrite DEF setnew, Stale

(* a record is made from the file of the board *)
LEMMA Quiet_import ==
  ASSUME Types, NEW p \in Procs, import(p)
  PROVE  Quiet(p)
<1>1. /\ ReqOK /\ Here(req[p]) = "getbody" /\ up /\ req'[p] = req[p] /\ req' = [req EXCEPT ![p] = req'[p]]
  BY DEF Types, import, At, ReqOK
<1>2. req[p].post # None
  BY <1>1, NoneAssumption DEF ReqOK, Knows
<1>3. db'.post # None /\ db'.votes = db.votes /\ db'.comments = db.comments
  BY <1>2 DEF import, Types, TypeOK
<1>4. Harmless(req[p], req'[p])
  BY <1>1 DEF Harmless, HoldsComment
<1>. QED BY <1>1, <1>3, <1>4, QuietWrite DEF import, Stale

(* the old text is archived *)
LEMMA Quiet_archive ==
  ASSUME Types, NEW p \in Procs, archive(p)
  PROVE  Quiet(p)
<1>1. /\ req' = [req EXCEPT ![p] = req'[p]] /\ Here(req[p]) = "archive" /\ up
      /\ req[p].op \in {"edit", "title", "delete", "cedit", "cdelete"}
      /\ Here(req'[p]) \in {"setpost", "setrow", "setcomment"} /\ req'[p].op = req[p].op
      /\ (Here(req'[p]) = "setcomment" => req[p].op \in {"cedit", "cdelete"})
      /\ req'[p].seq = req[p].seq
  BY Go_archive DEF archive, At, SameButAt
<1>2. db'.post = db.post /\ db'.votes = db.votes /\ db'.comments = db.comments
  BY DEF archive, Types, TypeOK
<1>3. Harmless(req[p], req'[p])
  BY <1>1 DEF Harmless, HoldsComment, CommentOps
<1>. QED BY <1>1, <1>2, <1>3, QuietWrite DEF archive, Stale

(* the record is stored again *)
LEMMA Quiet_setpost ==
  ASSUME Types, NEW p \in Procs, setpost(p)
  PROVE  Quiet(p)
<1>1. /\ req' = [req EXCEPT ![p] = req'[p]] /\ Here(req[p]) = "setpost" /\ up /\ ReqOK
      /\ \/ req[p].op \in {"setmeta", "cross"} /\ req'[p] = Idle
         \/ /\ req[p].op \in {"edit", "delete", "undelete"} /\ Here(req'[p]) = "setrow"
            /\ req'[p].op = req[p].op
  BY Go_setpost DEF setpost, At, SameButAt, Types
<1>2. Record(req[p]) # None
  BY <1>1, RecordOK, NoneAssumption
<1>3. db'.post # None /\ db'.votes = db.votes /\ db'.comments = db.comments
  BY <1>2 DEF setpost, Types, TypeOK
<1>4. Harmless(req[p], req'[p])
  BY <1>1, QuietEnd DEF Harmless, HoldsComment, CommentOps
<1>. QED BY <1>1, <1>3, <1>4, QuietWrite DEF setpost

(* the record of a crosspost *)
LEMMA Quiet_setcross ==
  ASSUME Types, NEW p \in Procs, setcross(p)
  PROVE  Quiet(p)
<1>1. ReqOK /\ Here(req[p]) = "setcross" /\ Continue(p, req[p]) /\ up
  BY DEF Types, setcross, At
<1>2. /\ req' = [req EXCEPT ![p] = req'[p]] /\ req[p].op = "cross" /\ Here(req'[p]) = "setpost"
      /\ req'[p].op = "cross"
  BY <1>1, Go_setcross DEF Same
<1>3. db'.post = db.post /\ db'.votes = db.votes /\ db'.comments = db.comments
  BY DEF setcross, Types, TypeOK
<1>4. Harmless(req[p], req'[p])
  BY <1>1, <1>2 DEF Harmless, HoldsComment, CommentOps
<1>. QED BY <1>1, <1>2, <1>3, <1>4, QuietWrite DEF setcross, Stale

(* a purge deletes the record *)
LEMMA Quiet_delpost ==
  ASSUME Types, PostInv, NEW p \in Procs, delpost(p)
  PROVE  Quiet(p)
<1>1. ReqOK /\ Here(req[p]) = "delpost" /\ Continue(p, req[p]) /\ up
  BY DEF Types, delpost, At
<1>2. /\ req' = [req EXCEPT ![p] = req'[p]] /\ req[p].op = "purge" /\ Here(req'[p]) = "delcomments"
      /\ req'[p].op = "purge"
  BY <1>1, Go_delpost DEF Same
<1>3. row = None
  BY <1>1, <1>2 DEF PostInv, RowGone
<1>4. db'.votes = db.votes /\ db'.comments = db.comments
  BY DEF delpost, Types, TypeOK
<1>5. Harmless(req[p], req'[p])
  BY <1>1, <1>2 DEF Harmless, HoldsComment, CommentOps
<1>. QED BY <1>1, <1>2, <1>3, <1>4, <1>5, QuietWrite DEF delpost, ghosts

(* steps that change the row, but no counter *)
LEMMA Quiet_touch ==
  ASSUME Types, NEW p \in Procs, touch(p)
  PROVE  Quiet(p)
<1>1. ReqOK /\ Here(req[p]) = "touch" /\ Continue(p, req[p]) /\ up /\ row \in Row \cup {None}
  BY DEF Types, TypeOK, touch, At
<1>2. /\ req' = [req EXCEPT ![p] = req'[p]] /\ req[p].op = "cedit" /\ req'[p] = Idle
  BY <1>1, Go_touch
<1>3. /\ row' = None <=> row = None
      /\ row # None => \A f \in DOMAIN Zero : row'[f] = row[f]
  <2>1. req[p].at \in Times
    BY <1>1 DEF ReqOK, Req
  <2>2. CASE row = None
    BY <2>2 DEF touch, InRow
  <2>3. CASE row # None
    <3>1. row' = row \/ row' = [row EXCEPT !.mod = req[p].at]
      BY <2>3 DEF touch, InRow
    <3>2. row' \in Row /\ \A f \in DOMAIN Zero : row'[f] = row[f]
      BY <1>1, <2>1, <2>3, <3>1, ZeroOK DEF Row
    <3>. QED BY <2>3, <3>2, NoneAssumption
  <2>. QED BY <2>2, <2>3
<1>4. Harmless(req[p], req'[p])
  BY <1>1, <1>2, QuietEnd
<1>. QED BY <1>1, <1>2, <1>3, <1>4, QuietWrite DEF touch, Stale

(* the UPDATE at the end of a change *)
LEMMA Quiet_setrow ==
  ASSUME Types, NEW p \in Procs, setrow(p)
  PROVE  Quiet(p)
<1>1. ReqOK /\ Here(req[p]) = "setrow" /\ Continue(p, req[p]) /\ up /\ row \in Row \cup {None}
  BY DEF Types, TypeOK, setrow, At
<1>2. /\ req' = [req EXCEPT ![p] = req'[p]] /\ req[p].op \in ArticleOps /\ req'[p] = Idle
  BY <1>1, Go_setrow DEF ArticleOps
<1>3. /\ row' = None <=> row = None
      /\ row # None => \A f \in DOMAIN Zero : row'[f] = row[f]
  <2>1. req[p].post \in Post /\ req[p].at \in Times /\ req[p].id \in Ids
    BY <1>1, <1>2 DEF ReqOK, Knows, HoldsPost, Req
  <2>2. CASE row = None
    BY <2>2 DEF setrow, InRow
  <2>3. CASE row # None
    <3>1. \/ row' = [row EXCEPT !.title = req[p].post.title, !.mod = req[p].at]
          \/ row' = [row EXCEPT !.title = req[p].id, !.mod = req[p].at]
          \/ row' = [row EXCEPT !.del = (req[p].op = "delete"), !.mod = req[p].at]
      BY <2>3 DEF setrow, InRow
    <3>2. row' \in Row /\ \A f \in DOMAIN Zero : row'[f] = row[f]
      BY <1>1, <2>1, <2>3, <3>1, ZeroOK DEF Row, Post
    <3>. QED BY <2>3, <3>2, NoneAssumption
  <2>. QED BY <2>2, <2>3
<1>4. Harmless(req[p], req'[p])
  BY <1>1, <1>2, QuietEnd DEF ArticleOps
<1>. QED BY <1>1, <1>2, <1>3, <1>4, QuietWrite DEF setrow, Stale

(* the mode that SetPostMeta sets in SQLite *)
LEMMA Quiet_setmode ==
  ASSUME Types, NEW p \in Procs, setmode(p)
  PROVE  Quiet(p)
<1>1. ReqOK /\ Here(req[p]) = "setmode" /\ Continue(p, req[p]) /\ up /\ row \in Row \cup {None}
  BY DEF Types, TypeOK, setmode, At
<1>2. /\ req' = [req EXCEPT ![p] = req'[p]] /\ req[p].op = "setmeta"
      /\ Here(req'[p]) = "getrow" /\ req'[p].op = "setmeta"
  BY <1>1, Go_setmode DEF Same
<1>3. /\ row' = None <=> row = None
      /\ row # None => \A f \in DOMAIN Zero : row'[f] = row[f]
  <2>1. req[p].id \in Ids
    BY <1>1 DEF ReqOK, Req
  <2>2. CASE row = None
    BY <2>2 DEF setmode, InRow
  <2>3. CASE row # None
    <3>1. row' = [row EXCEPT !.mode = req[p].id]
      BY <2>3 DEF setmode, InRow
    <3>2. row' \in Row /\ \A f \in DOMAIN Zero : row'[f] = row[f]
      BY <1>1, <2>1, <2>3, <3>1, ZeroOK DEF Row
    <3>. QED BY <2>3, <3>2, NoneAssumption
  <2>. QED BY <2>2, <2>3
<1>4. Harmless(req[p], req'[p])
  BY <1>1, <1>2 DEF Harmless, HoldsComment, CommentOps
<1>. QED BY <1>1, <1>2, <1>3, <1>4, QuietWrite DEF setmode, ghosts

(* the counter of crossposts *)
LEMMA Quiet_addcross ==
  ASSUME Types, NEW p \in Procs, addcross(p)
  PROVE  Quiet(p)
<1>1. ReqOK /\ Here(req[p]) = "addcross" /\ Continue(p, req[p]) /\ up /\ row \in Row \cup {None}
  BY DEF Types, TypeOK, addcross, At
<1>2. /\ req' = [req EXCEPT ![p] = req'[p]] /\ req[p].op = "cross"
      /\ Here(req'[p]) = "numcross" /\ req'[p].op = "cross"
  BY <1>1, Go_addcross DEF Same
<1>3. /\ row' = None <=> row = None
      /\ row # None => \A f \in DOMAIN Zero : row'[f] = row[f]
  <2>2. CASE row = None
    BY <2>2 DEF addcross, InRow
  <2>3. CASE row # None
    <3>1. row' = [row EXCEPT !.xp = @ + 1]
      BY <2>3 DEF addcross, InRow
    <3>2. row' \in Row /\ \A f \in DOMAIN Zero : row'[f] = row[f]
      BY <1>1, <2>3, <3>1, ZeroOK DEF Row
    <3>. QED BY <2>3, <3>2, NoneAssumption
  <2>. QED BY <2>2, <2>3
<1>4. Harmless(req[p], req'[p])
  BY <1>1, <1>2 DEF Harmless, HoldsComment, CommentOps
<1>. QED BY <1>1, <1>2, <1>3, <1>4, QuietWrite DEF addcross, ghosts

(* a comment that is changed is there before and after *)
LEMMA Quiet_setcomment ==
  ASSUME Types, PostInv, NEW p \in Procs, setcomment(p), row # None
  PROVE  Quiet(p)
<1>1. ReqOK /\ Here(req[p]) = "setcomment" /\ Continue(p, req[p]) /\ up
  BY DEF Types, setcomment, At
<1>2. /\ req' = [req EXCEPT ![p] = req'[p]]
      /\ \/ req[p].op \in {"comment", "cdelete", "cundelete"} /\ req'[p] = Idle
         \/ req[p].op = "cedit" /\ Here(req'[p]) = "touch" /\ req'[p].op = "cedit"
  BY <1>1, Go_setcomment DEF Same
<1>3. /\ req[p].old \in Comment /\ req[p].seq \in Seqs /\ req[p].id \in Ids /\ req[p].at \in Times
  BY <1>1 DEF ReqOK, Knows, HoldsComment, Req
<1>4. Changed(req[p]) # None
  <2>1. Changed(req[p]) \in Comment
    BY <1>3 DEF Changed, Comment
  <2>. QED BY <2>1, NoneAssumption
<1>5. db.comments[req[p].seq] # None
  BY <1>1 DEF PostInv, OldThere, HoldsComment
<1>6. /\ db'.post = db.post /\ db'.votes = db.votes
      /\ db'.comments = [db.comments EXCEPT ![req[p].seq] = Changed(req[p])]
      /\ db.comments \in [Seqs -> Comment \cup {None}]
  BY DEF setcomment, Types, TypeOK
<1>7. \A s \in Seqs : db'.comments[s] = None <=> db.comments[s] = None
  BY <1>3, <1>4, <1>5, <1>6
<1>8. Harmless(req[p], req'[p])
  BY <1>1, <1>2, QuietEnd DEF Harmless, HoldsComment, CommentOps
<1>. QED BY <1>1, <1>2, <1>6, <1>7, <1>8 DEF Quiet, setcomment, Stale, env

-----------------------------------------------------------------------------
(* the steps that are not quiet *)

(* a purged article has no counters *)
LEMMA Gone ==
  ASSUME row' = None, "purged" \in stale', up', ResetInv'
  PROVE  Kept'
<1>1. RowGone' /\ Asleep' /\ NoRow' /\ Stored' /\ OldThere' /\ SeqInv'
  BY DEF RowGone, Asleep, NoRow, Stored, OldThere, SeqInv
<1>2. NumExact' /\ VotesExact("up")' /\ VotesExact("down")'
  BY DEF NumExact, VotesExact
<1>. QED BY <1>1, <1>2 DEF Kept, PostInv, Exact

(* only a purge takes the row away from those who work on it *)
LEMMA PurgedOf ==
  ASSUME PostInv, NEW p \in Procs, req[p].op \notin {"idle", "create"}, row = None
  PROVE  "purged" \in stale
BY DEF PostInv, NoRow

(* a reset is met by those who count votes *)
LEMMA ResetStep ==
  ASSUME ReqOK, ResetInv, NEW p \in Procs, req' = [req EXCEPT ![p] = req'[p]],
         "votes" \in stale => "votes" \in stale', Here(req'[p]) # "zerorow",
         mem'.dirty["up"] \in {mem.dirty["up"], 0}, mem'.dirty["down"] \in {mem.dirty["down"], 0},
         ~(req'[p].op = "vote" /\ Here(req'[p]) = "count")
  PROVE  ResetInv'
<1>1. \A q \in Procs : q # p => req'[q] = req[q]
  BY DEF ReqOK
<1>. SUFFICES ASSUME NEW o \in Procs, req'[o].op = "reset", Here(req'[o]) = "zerorow", "votes" \notin stale'
              PROVE  /\ mem'.dirty["up"] = 0 /\ mem'.dirty["down"] = 0
                     /\ \A q \in Procs : ~(req'[q].op = "vote" /\ Here(req'[q]) = "count")
  BY DEF ResetInv, Here
<1>2. o # p /\ req'[o] = req[o]
  BY <1>1
<1>3. /\ mem.dirty["up"] = 0 /\ mem.dirty["down"] = 0
      /\ \A q \in Procs : ~(req[q].op = "vote" /\ Here(req[q]) = "count")
  BY <1>2 DEF ResetInv
<1>. QED BY <1>1, <1>3

(* sequences, when none is given out *)
LEMMA SeqKeep ==
  ASSUME Types, Types', SeqInv, NEW p \in Procs, req' = [req EXCEPT ![p] = req'[p]],
         row # None, mem'.seq = mem.seq, Here(req'[p]) # "newcomment",
         db'.comments = db.comments
  PROVE  SeqInv'
<1>0. ReqOK /\ \A q \in Procs : q # p => req'[q] = req[q]
  BY DEF Types, ReqOK
<1>1. \A q \in Procs : Here(req'[q]) = "newcomment" => q # p /\ req'[q] = req[q]
  BY <1>0
<1>2. Present(db.comments)' = Present(db.comments)
  BY DEF Present
<1>3. mem'.seq # None => /\ \A s \in Present(db.comments)' : s <= mem'.seq
                         /\ \A q \in Procs : Here(req'[q]) = "newcomment" => req'[q].seq <= mem'.seq
  BY <1>1, <1>2 DEF SeqInv
<1>4. \A q \in Procs : Here(req'[q]) = "newcomment" =>
       /\ mem'.seq # None /\ db'.comments[req'[q].seq] = None
       /\ \A o \in Procs \ {q} : Here(req'[o]) = "newcomment" => req'[o].seq # req'[q].seq
  BY <1>1 DEF SeqInv
<1>. QED BY <1>3, <1>4 DEF SeqInv, Here

(* the row and the requests, when no comment is stored *)
LEMMA RowStep ==
  ASSUME Types, Types', PostInv, NEW p \in Procs, req' = [req EXCEPT ![p] = req'[p]],
         row # None, row' # None, up', lost => lost', db'.post = db.post, Here(req[p]) # "setnew",
         ~(req'[p].op = "purge" /\ Here(req'[p]) \in {"list", "forget", "delpost", "delcomments", "dropvotes", "delhist"}),
         \A s \in Seqs : db'.comments[s] = None => db.comments[s] = None,
         HoldsComment(req'[p]) => db.comments[req'[p].seq] # None,
         SeqInv', ResetInv'
  PROVE  PostInv'
<1>0. ReqOK /\ ReqOK' /\ \A q \in Procs : q # p => req'[q] = req[q]
  BY DEF Types, ReqOK
<1>1. RowGone'
  BY <1>0 DEF PostInv, RowGone, Here
<1>2. Asleep' /\ NoRow'
  BY DEF Asleep, NoRow
<1>3. Stored'
  BY <1>0 DEF PostInv, Stored, Here
<1>4. OldThere'
  <2>. SUFFICES ASSUME NEW q \in Procs, HoldsComment(req'[q])
                PROVE  db'.comments[req'[q].seq] # None
    BY DEF OldThere, HoldsComment, Here
  <2>1. req'[q].seq \in Seqs
    BY <1>0 DEF ReqOK, Knows, HoldsComment, Here
  <2>2. db.comments[req'[q].seq] # None
    BY <1>0 DEF PostInv, OldThere
  <2>. QED BY <2>1, <2>2
<1>. QED BY <1>1, <1>2, <1>3, <1>4 DEF PostInv

(* the number of comments, when one is stored or counted *)
LEMMA NumStep ==
  ASSUME Types, Types', Exact, NEW p \in Procs, req' = [req EXCEPT ![p] = req'[p]],
         row # None, row' # None,
         ~lost' => /\ ~lost
                   /\ Cardinality(Present(db.comments))' = Cardinality(Present(db.comments))
                        + (row'["num"] - row["num"]) + (mem'.dirty["num"] - mem.dirty["num"])
                        + (Carried(req'[p], "num") - Carried(req[p], "num"))
  PROVE  NumExact'
<1>1. /\ UnderWay("num") \in Int /\ UnderWay("num")' \in Int
      /\ mem.dirty["num"] \in Int /\ mem'.dirty["num"] \in Int
      /\ Carried(req[p], "num") \in Int /\ Carried(req'[p], "num") \in Int
      /\ UnderWay("num")' = UnderWay("num") + (mem'.dirty["num"] - mem.dirty["num"])
                             + (Carried(req'[p], "num") - Carried(req[p], "num"))
  BY UnderWayStep, ZeroOK
<1>2. row["num"] \in Int /\ row'["num"] \in Int
  BY DEF Types, TypeOK, Row
<1>3. ~lost => row["num"] + UnderWay("num") = Cardinality(Present(db.comments))
  BY DEF Exact, NumExact
<1>4. Cardinality(Present(db.comments)) \in Int
  BY Countable
<1>5. ~lost' => row'["num"] + UnderWay("num")' = Cardinality(Present(db.comments))'
  BY <1>1, <1>2, <1>3, <1>4
<1>. QED BY <1>5 DEF NumExact

(* the number of votes of one kind *)
LEMMA VoteStep ==
  ASSUME Types, Types', Exact, NEW p \in Procs, req' = [req EXCEPT ![p] = req'[p]],
         row # None, row' # None, NEW f \in {"up", "down"},
         ~lost' /\ "votes" \notin stale' /\ (\A q \in Procs : req'[q].op # "reset") =>
           /\ ~lost /\ "votes" \notin stale /\ (\A q \in Procs : req[q].op # "reset")
           /\ Voted(f)' = Voted(f)
                + (row'[f] - row[f]) + (mem'.dirty[f] - mem.dirty[f])
                + (Carried(req'[p], f) - Carried(req[p], f))
  PROVE  VotesExact(f)'
<1>1. /\ UnderWay(f) \in Int /\ UnderWay(f)' \in Int
      /\ mem.dirty[f] \in Int /\ mem'.dirty[f] \in Int
      /\ Carried(req[p], f) \in Int /\ Carried(req'[p], f) \in Int
      /\ UnderWay(f)' = UnderWay(f) + (mem'.dirty[f] - mem.dirty[f])
                             + (Carried(req'[p], f) - Carried(req[p], f))
  BY UnderWayStep, ZeroOK
<1>2. row[f] \in Int /\ row'[f] \in Int
  BY DEF Types, TypeOK, Row
<1>. SUFFICES ASSUME ~lost', "votes" \notin stale', \A q \in Procs : req'[q].op # "reset"
              PROVE  row'[f] + UnderWay(f)' = Voted(f)'
  BY DEF VotesExact
<1>3. row[f] + UnderWay(f) = Voted(f)
  BY DEF Exact, VotesExact
<1>4. Voted(f) \in Int
  BY Countable
<1>. QED BY <1>1, <1>2, <1>3, <1>4

(* an idle goroutine carries nothing *)
LEMMA IdleIs == Here(Idle) = "none" /\ Idle.op = "idle" /\ ~HoldsComment(Idle) /\ \A f : Carried(Idle, f) = 0
<1>1. Here(Idle) = "none" /\ Idle.op = "idle"
  BY IdleOK DEF Idle
<1>. QED BY <1>1 DEF HoldsComment, Carried

(* AddComment takes a sequence that nothing has *)
LEMMA Kept_choose ==
  ASSUME Types, Types', Kept, NEW p \in Procs, choose(p)
  PROVE  Kept'
<1>1. /\ ReqOK /\ req' = [req EXCEPT ![p] = req'[p]] /\ req[p].op = "comment"
      /\ req'[p].op = "comment" /\ mem'.dirty = mem.dirty /\ mem'.seq = req'[p].seq
      /\ \/ /\ Here(req'[p]) = "setcomment" /\ req'[p].seq = LastSeq /\ LastSeq \in Seqs
            /\ db.comments[LastSeq] # None
         \/ Here(req'[p]) = "newcomment" /\ req'[p].seq = LastSeq + 1 /\ LastSeq + 1 \in Seqs
  BY Go_choose DEF Types
<1>2. up /\ Here(req[p]) = "choose" /\ UNCHANGED <<db, row, up, stale, lost>>
  BY DEF choose, At, env, ghosts
<1>3. PostInv /\ Exact
  BY DEF Kept
<1>4. ResetInv'
  BY <1>1, <1>2, <1>3, ResetStep DEF PostInv
<1>5. CASE row = None
  BY <1>1, <1>2, <1>3, <1>4, <1>5, Gone, PurgedOf
<1>6. CASE row # None
  <2>1. /\ LastSeq \in Nat /\ \A s \in Present(db.comments) : s \in Nat /\ s <= LastSeq
        /\ \A q \in Procs : Here(req[q]) = "newcomment" => req[q].seq \in Nat /\ req[q].seq <= LastSeq
    <3>1. Seqs \subseteq Nat
      BY PostStoreAssumption DEF Seqs
    <3>2. \A q \in Procs : Here(req[q]) = "newcomment" => req[q].seq \in Seqs
      BY <1>1 DEF ReqOK, Knows
    <3>3. Present(db.comments) \subseteq Seqs
      BY Countable
    <3>4. SeqInv
      BY <1>3 DEF PostInv
    <3>5. LastSeq \in Nat
      <4>1. LastSeq \in {0} \cup Seqs
        BY LastOK
      <4>. QED BY <4>1, PostStoreAssumption DEF Seqs
    <3>6. CASE mem.seq = None
      BY <1>6, <3>1, <3>3, <3>4, <3>5, <3>6, LastOK DEF SeqInv
    <3>7. CASE mem.seq # None
      <4>1. LastSeq = mem.seq
        BY <3>7, LastOK
      <4>. QED BY <1>6, <3>1, <3>2, <3>3, <3>4, <3>5, <3>7, <4>1 DEF SeqInv
    <3>. QED BY <3>6, <3>7
  <2>2. SeqInv'
    <3>0. /\ \A q \in Procs : q # p => req'[q] = req[q]
          /\ Present(db.comments)' = Present(db.comments)
      BY <1>1, <1>2 DEF ReqOK, Present
    <3>1. mem'.seq \in Nat /\ LastSeq <= mem'.seq /\ mem'.seq # None
      BY <1>1, <2>1, NoneAssumption
    <3>2. ASSUME NEW q \in Procs, Here(req'[q]) = "newcomment"
          PROVE  /\ req'[q].seq <= mem'.seq /\ db'.comments[req'[q].seq] = None
                 /\ \A o \in Procs \ {q} : Here(req'[o]) = "newcomment" => req'[o].seq # req'[q].seq
      <4>1. SeqInv
        BY <1>3 DEF PostInv
      <4>2. CASE q = p
        <5>1. req'[q].seq = LastSeq + 1 /\ LastSeq + 1 \in Seqs
          BY <1>1, <3>2, <4>2
        <5>2. LastSeq + 1 \notin Present(db.comments)
          BY <2>1
        <5>3. db.comments[LastSeq + 1] = None
          BY <5>1, <5>2, PresentIs
        <5>4. \A o \in Procs \ {q} : Here(req'[o]) = "newcomment" => req'[o].seq # LastSeq + 1
          BY <2>1, <3>0, <4>2
        <5>. QED BY <1>1, <1>2, <2>1, <3>1, <4>2, <5>1, <5>3, <5>4
      <4>3. CASE q # p
        <5>1. req'[q] = req[q] /\ req[q].seq <= LastSeq /\ req[q].seq \in Nat
          BY <2>1, <3>0, <3>2, <4>3
        <5>2. db.comments[req[q].seq] = None
          BY <1>6, <3>2, <4>1, <5>1 DEF SeqInv
        <5>3. ASSUME NEW o \in Procs \ {q}, Here(req'[o]) = "newcomment" PROVE req'[o].seq # req[q].seq
          <6>1. CASE o = p
            BY <1>1, <2>1, <5>1, <5>3, <6>1
          <6>2. CASE o # p
            BY <1>6, <3>0, <3>2, <4>1, <5>1, <5>3, <6>2 DEF SeqInv
          <6>. QED BY <6>1, <6>2
        <5>. QED BY <1>2, <2>1, <3>1, <5>1, <5>2, <5>3
      <4>. QED BY <4>2, <4>3
    <3>3. \A s \in Present(db.comments)' : s <= mem'.seq
      BY <2>1, <3>0, <3>1
    <3>. QED BY <3>1, <3>2, <3>3 DEF SeqInv, Here
  <2>3. HoldsComment(req'[p]) => db.comments[req'[p].seq] # None
    BY <1>1 DEF HoldsComment, CommentOps
  <2>4. PostInv'
    BY <1>1, <1>2, <1>3, <1>4, <1>6, <2>2, <2>3, RowStep
  <2>5. \A f : Carried(req[p], f) = 0 /\ Carried(req'[p], f) = 0
    BY <1>1, <1>2 DEF Carried
  <2>6. row \in Row /\ mem.dirty \in Delta
    BY <1>6 DEF Types, TypeOK
  <2>7. /\ Cardinality(Present(db.comments))' = Cardinality(Present(db.comments))
        /\ \A f : Voted(f)' = Voted(f)
        /\ Cardinality(Present(db.comments)) \in Int /\ \A f : Voted(f) \in Int
    BY <1>2, Countable DEF Present, Voted
  <2>8. NumExact'
    BY <1>1, <1>2, <1>3, <1>6, <2>5, <2>6, <2>7, NumStep, ZeroOK DEF Row, Delta
  <2>9. \A q \in Procs : req'[q].op = req[q].op
    BY <1>1 DEF ReqOK
  <2>10. VotesExact("up")' /\ VotesExact("down")'
    BY <1>1, <1>2, <1>3, <1>6, <2>5, <2>6, <2>7, <2>9, VoteStep, ZeroOK DEF Row, Delta
  <2>. QED BY <2>4, <2>8, <2>10 DEF Kept, Exact
<1>. QED BY <1>5, <1>6

(* a new comment is one more *)
LEMMA Kept_newcomment ==
  ASSUME Types, Types', Kept, NEW p \in Procs, newcomment(p)
  PROVE  Kept'
<1>1. /\ ReqOK /\ up /\ Here(req[p]) = "newcomment" /\ Continue(p, req[p])
      /\ UNCHANGED <<row, mem, up, lost>> /\ Stale({"comments"}, row = None)
  BY DEF newcomment, At, env, Types
<1>2. /\ req' = [req EXCEPT ![p] = req'[p]] /\ req[p].op = "comment"
      /\ Here(req'[p]) = "count" /\ req'[p].op = "comment"
  BY <1>1, Go_newcomment DEF Same
<1>3. PostInv /\ Exact
  BY DEF Kept
<1>4. ResetInv'
  BY <1>1, <1>2, <1>3, ResetStep DEF PostInv, Stale
<1>5. CASE row = None
  BY <1>1, <1>2, <1>3, <1>4, <1>5, Gone, PurgedOf DEF Stale
<1>6. CASE row # None
  <2>. DEFINE s == req[p].seq
             c == [by |-> req[p].user, text |-> {req[p].id}, del |-> FALSE, mod |-> 0]
  <2>1. /\ s \in Seqs /\ c # None
    <3>1. s \in Seqs /\ req[p].user \in Users /\ req[p].id \in Ids
      BY <1>1, <1>2 DEF ReqOK, Knows, Req
    <3>2. c \in Comment
      BY <3>1 DEF Comment, Times
    <3>. QED BY <3>1, <3>2, NoneAssumption
  <2>2. /\ db'.post = db.post /\ db'.votes = db.votes /\ db'.comments = [db.comments EXCEPT ![s] = c]
        /\ db.comments \in [Seqs -> Comment \cup {None}]
    BY DEF newcomment, Types, TypeOK
  <2>. HIDE DEF c
  <2>3. /\ mem.seq # None /\ db.comments[s] = None /\ s <= mem.seq
        /\ \A q \in Procs \ {p} : Here(req[q]) = "newcomment" => req[q].seq # s
    BY <1>1, <1>3, <1>6 DEF PostInv, SeqInv
  <2>4. Present(db.comments)' = Present(db.comments) \cup {s} /\ s \notin Present(db.comments)
    <3>1. Present(db.comments)' = {n \in Seqs : db'.comments[n] # None}
      BY <2>2 DEF Present
    <3>. QED BY <2>1, <2>2, <2>3, <3>1, PresentIs
  <2>5. SeqInv'
    <3>0. \A q \in Procs : q # p => req'[q] = req[q]
      BY <1>1, <1>2 DEF ReqOK
    <3>1. \A q \in Procs : Here(req'[q]) = "newcomment" =>
             q # p /\ req'[q] = req[q] /\ req[q].seq # s /\ req[q].seq \in Seqs
      BY <1>1, <1>2, <2>3, <3>0 DEF ReqOK, Knows
    <3>2. SeqInv
      BY <1>3 DEF PostInv
    <3>3. \A x \in Present(db.comments)' : x <= mem'.seq
      BY <1>1, <1>6, <2>3, <2>4, <3>2 DEF SeqInv
    <3>4. \A q \in Procs : Here(req'[q]) = "newcomment" =>
            /\ req'[q].seq <= mem'.seq /\ db'.comments[req'[q].seq] = None
            /\ \A o \in Procs \ {q} : Here(req'[o]) = "newcomment" => req'[o].seq # req'[q].seq
      BY <1>1, <1>6, <2>2, <3>1, <3>2 DEF SeqInv
    <3>. QED BY <1>1, <2>3, <3>3, <3>4 DEF SeqInv, Here
  <2>6. ~HoldsComment(req'[p])
    BY <1>2 DEF HoldsComment
  <2>7. \A x \in Seqs : db'.comments[x] = None => db.comments[x] = None
    BY <2>1, <2>2
  <2>8. PostInv'
    BY <1>1, <1>2, <1>3, <1>4, <1>6, <2>2, <2>5, <2>6, <2>7, RowStep
  <2>9. /\ \A f \in {"num", "up", "down"} : Carried(req[p], f) = 0
        /\ Carried(req'[p], "num") = 1 /\ Carried(req'[p], "up") = 0 /\ Carried(req'[p], "down") = 0
    BY <1>1, <1>2 DEF Carried, Gain
  <2>10. Cardinality(Present(db.comments))' = Cardinality(Present(db.comments)) + 1
    BY <2>4, Countable, FS_AddElement
  <2>11. /\ Cardinality(Present(db.comments)) \in Int
         /\ \A f : Voted(f)' = Voted(f) /\ Voted(f) \in Int
    <3>1. \A f : Voted(f)' = Voted(f)
      BY <2>2 DEF Voted
    <3>. QED BY <3>1, Countable
  <2>12. row \in Row /\ mem.dirty \in Delta
    BY <1>6 DEF Types, TypeOK
  <2>13. NumExact'
    BY <1>1, <1>2, <1>3, <1>6, <2>9, <2>10, <2>11, <2>12, NumStep, ZeroOK DEF Row, Delta
  <2>14. \A q \in Procs : req'[q].op = req[q].op
    BY <1>1, <1>2 DEF ReqOK
  <2>15. VotesExact("up")' /\ VotesExact("down")'
    BY <1>1, <1>2, <1>3, <1>6, <2>9, <2>11, <2>12, <2>14, VoteStep, ZeroOK DEF Row, Delta, Stale
  <2>. QED BY <2>8, <2>13, <2>15 DEF Kept, Exact
<1>. QED BY <1>5, <1>6

(* steps that store no comment and give out no sequence *)
LEMMA CounterStep ==
  ASSUME Types, Types', Kept, NEW p \in Procs, req' = [req EXCEPT ![p] = req'[p]],
         row # None, row' # None, up', lost => lost', mem'.seq = mem.seq,
         db'.comments = db.comments, db'.post = db.post,
         Here(req[p]) # "setnew", Here(req'[p]) # "newcomment", ~HoldsComment(req'[p]),
         ~(req'[p].op = "purge" /\ Here(req'[p]) \in {"list", "forget", "delpost", "delcomments", "dropvotes", "delhist"}),
         ~lost' => row'["num"] + mem'.dirty["num"] + Carried(req'[p], "num") =
                   row["num"] + mem.dirty["num"] + Carried(req[p], "num"),
         ResetInv', VotesExact("up")', VotesExact("down")'
  PROVE  Kept'
<1>1. PostInv /\ Exact
  BY DEF Kept
<1>2. SeqInv'
  BY <1>1, SeqKeep DEF PostInv
<1>3. PostInv'
  BY <1>1, <1>2, RowStep
<1>4. /\ Cardinality(Present(db.comments))' = Cardinality(Present(db.comments))
      /\ Cardinality(Present(db.comments)) \in Int
  BY Countable DEF Present
<1>5. row["num"] \in Int /\ row'["num"] \in Int
  BY DEF Types, TypeOK, Row
<1>6. /\ mem.dirty["num"] \in Int /\ mem'.dirty["num"] \in Int
      /\ Carried(req[p], "num") \in Int /\ Carried(req'[p], "num") \in Int
  BY UnderWayStep, ZeroOK
<1>7. NumExact'
  BY <1>1, <1>4, <1>5, <1>6, NumStep
<1>. QED BY <1>3, <1>7 DEF Kept, Exact

(* the registration in dirtyDeltas *)
LEMMA Kept_count ==
  ASSUME Types, Types', Kept, NEW p \in Procs, count(p)
  PROVE  Kept'
<1>1. /\ ReqOK /\ up /\ Here(req[p]) = "count" /\ Continue(p, req[p])
      /\ UNCHANGED <<db, row, up, stale, lost>>
  BY DEF count, At, env, Types
<1>2. /\ req' = [req EXCEPT ![p] = req'[p]] /\ req[p].op \in {"comment", "vote"} /\ req'[p] = Idle
  BY <1>1, Go_count
<1>3. PostInv /\ Exact
  BY DEF Kept
<1>4. /\ Here(req'[p]) = "none" /\ req'[p].op = "idle" /\ ~HoldsComment(req'[p])
      /\ \A f : Carried(req'[p], f) = 0
  BY <1>2, IdleIs
<1>5. /\ mem'.seq = mem.seq
      /\ \A f \in DOMAIN Zero : /\ mem'.dirty[f] = mem.dirty[f] + Gain(req[p], f)
                                /\ mem.dirty[f] \in Int /\ Gain(req[p], f) \in Int
                                /\ Carried(req[p], f) = Gain(req[p], f)
  <2>1. mem \in [dirty : Delta, seq : Seqs \cup {None}]
    BY DEF Types, TypeOK
  <2>2. \A f \in DOMAIN Zero : Gain(req[p], f) \in Int /\ Carried(req[p], f) = Gain(req[p], f)
    BY <1>1 DEF Gain, Carried
  <2>. QED BY <2>1, <2>2 DEF count, Delta
<1>6. ResetInv'
  <2>1. CASE req[p].op = "comment"
    <3>1. Gain(req[p], "up") = 0 /\ Gain(req[p], "down") = 0
      BY <2>1 DEF Gain
    <3>2. mem'.dirty["up"] = mem.dirty["up"] /\ mem'.dirty["down"] = mem.dirty["down"]
      BY <1>5, <3>1, ZeroOK
    <3>. QED BY <1>1, <1>2, <1>3, <1>4, <3>2, ResetStep DEF PostInv
  <2>2. CASE req[p].op = "vote"
    <3>. SUFFICES ASSUME NEW o \in Procs, req'[o].op = "reset", Here(req'[o]) = "zerorow",
                         "votes" \notin stale'
                  PROVE  FALSE
      BY DEF ResetInv, Here
    <3>1. o # p /\ req'[o] = req[o]
      BY <1>1, <1>2, <1>4 DEF ReqOK
    <3>. QED BY <1>1, <1>3, <2>2, <3>1 DEF PostInv, ResetInv
  <2>. QED BY <1>2, <2>1, <2>2
<1>7. CASE row = None
  BY <1>1, <1>2, <1>3, <1>6, <1>7, Gone, PurgedOf
<1>8. CASE row # None
  <2>1. row \in Row
    BY <1>8 DEF Types, TypeOK
  <2>2. \A f : Voted(f)' = Voted(f)
    BY <1>1 DEF Voted
  <2>3. \A f : Voted(f) \in Int
    BY Countable
  <2>4. (\A q \in Procs : req'[q].op # "reset") => \A q \in Procs : req[q].op # "reset"
    BY <1>1, <1>2 DEF ReqOK
  <2>5. ASSUME NEW f \in {"up", "down"} PROVE VotesExact(f)'
    <3>1. Voted(f)' = Voted(f) + (row'[f] - row[f]) + (mem'.dirty[f] - mem.dirty[f])
                     + (Carried(req'[p], f) - Carried(req[p], f))
      BY <1>1, <1>4, <1>5, <2>1, <2>2, <2>3, ZeroOK DEF Row
    <3>. QED BY <1>1, <1>2, <1>3, <1>8, <2>4, <3>1, VoteStep
  <2>6. row'["num"] + mem'.dirty["num"] + Carried(req'[p], "num") =
                   row["num"] + mem.dirty["num"] + Carried(req[p], "num")
    BY <1>1, <1>4, <1>5, <2>1, ZeroOK DEF Row
  <2>. QED BY <1>1, <1>2, <1>4, <1>5, <1>6, <1>8, <2>5, <2>6, CounterStep
<1>. QED BY <1>7, <1>8

(* the flush takes what is registered with it *)
LEMMA Kept_Taken ==
  ASSUME Types, Types', Kept, NEW p \in Procs, req' = [req EXCEPT ![p] = req'[p]], up,
         req[p].op \in {"idle", "purge"}, Here(req[p]) \in {"none", "take"},
         Here(req'[p]) = "apply", req'[p].op \in {"flush", "purge"}, req'[p].old = mem.dirty,
         row = None => req[p].op = "purge",
         mem' = [mem EXCEPT !.dirty = Zero], UNCHANGED <<db, row, up, stale, lost>>
  PROVE  Kept'
<1>1. ReqOK /\ PostInv /\ Exact
  BY DEF Kept, Types
<1>2. /\ mem'.seq = mem.seq
      /\ \A f \in DOMAIN Zero : /\ mem'.dirty[f] = 0 /\ mem.dirty[f] \in Int
                                /\ Carried(req[p], f) = 0 /\ Carried(req'[p], f) = mem.dirty[f]
  <2>1. mem \in [dirty : Delta, seq : Seqs \cup {None}]
    BY DEF Types, TypeOK
  <2>2. \A f \in DOMAIN Zero : Carried(req[p], f) = 0 /\ Carried(req'[p], f) = mem.dirty[f]
    BY DEF Carried
  <2>3. mem'.dirty = Zero /\ \A f \in DOMAIN Zero : Zero[f] = 0
    BY <2>1 DEF Zero
  <2>. QED BY <2>1, <2>2, <2>3 DEF Delta
<1>3. ResetInv'
  <2>1. mem'.dirty["up"] = 0 /\ mem'.dirty["down"] = 0
    BY <1>2, ZeroOK
  <2>. QED BY <1>1, <2>1, ResetStep DEF PostInv
<1>4. CASE row = None
  BY <1>1, <1>3, <1>4, Gone, PurgedOf
<1>5. CASE row # None
  <2>1. row \in Row
    BY <1>5 DEF Types, TypeOK
  <2>2. \A f : Voted(f)' = Voted(f)
    BY DEF Voted
  <2>3. \A f : Voted(f) \in Int
    BY Countable
  <2>4. (\A q \in Procs : req'[q].op # "reset") => \A q \in Procs : req[q].op # "reset"
    BY <1>1 DEF ReqOK
  <2>5. ASSUME NEW f \in {"up", "down"} PROVE VotesExact(f)'
    <3>1. Voted(f)' = Voted(f) + (row'[f] - row[f]) + (mem'.dirty[f] - mem.dirty[f])
                     + (Carried(req'[p], f) - Carried(req[p], f))
      BY <1>2, <2>1, <2>2, <2>3, ZeroOK DEF Row
    <3>. QED BY <1>1, <1>5, <2>4, <3>1, VoteStep
  <2>6. row'["num"] + mem'.dirty["num"] + Carried(req'[p], "num") =
                   row["num"] + mem.dirty["num"] + Carried(req[p], "num")
    BY <1>2, <2>1, ZeroOK DEF Row
  <2>7. ~HoldsComment(req'[p])
    BY DEF HoldsComment
  <2>. QED BY <1>2, <1>3, <1>5, <2>5, <2>6, <2>7, CounterStep
<1>. QED BY <1>4, <1>5

(* FlushDirtyDeltas takes the deltas *)
LEMMA Kept_Flush ==
  ASSUME Types, Types', Kept, NEW p \in Procs, Flush(p)
  PROVE  Kept'
<1>1. /\ req' = [req EXCEPT ![p] = req'[p]] /\ req[p].op = "idle" /\ Here(req[p]) = "none"
      /\ req'[p].op = "flush" /\ Here(req'[p]) = "apply" /\ req'[p].old = mem.dirty
  BY Go_Flush, IdleIs
<1>2. /\ up /\ mem' = [mem EXCEPT !.dirty = Zero] /\ UNCHANGED <<db, row, up, stale, lost>>
      /\ mem.dirty # Zero
  BY DEF Flush, env, ghosts
<1>3. CASE row = None /\ "purged" \notin stale
  <2>1. mem = [dirty |-> Zero, seq |-> None]
    BY <1>3 DEF Kept, PostInv, NoRow
  <2>. QED BY <1>2, <2>1
<1>4. CASE row = None /\ "purged" \in stale
  <2>1. mem'.dirty["up"] = 0 /\ mem'.dirty["down"] = 0
    BY <1>2 DEF Types, TypeOK, Zero
  <2>2. ResetInv'
    BY <1>1, <1>2, <2>1, ResetStep DEF Kept, PostInv, Types
  <2>. QED BY <1>2, <1>4, <2>2, Gone
<1>5. CASE row # None
  BY <1>1, <1>2, <1>5, Kept_Taken
<1>. QED BY <1>3, <1>4, <1>5

(* the flush of a purge takes the deltas *)
LEMMA Kept_take ==
  ASSUME Types, Types', Kept, NEW p \in Procs, take(p)
  PROVE  Kept'
<1>1. /\ req' = [req EXCEPT ![p] = req'[p]] /\ req[p].op = "purge" /\ Here(req[p]) = "take"
      /\ req'[p].op = "purge" /\ Here(req'[p]) = "apply" /\ req'[p].old = mem.dirty
  BY Go_take DEF take, At, SameButOld
<1>2. up /\ mem' = [mem EXCEPT !.dirty = Zero] /\ UNCHANGED <<db, row, up, stale, lost>>
  BY DEF take, At, env, ghosts
<1>. QED BY <1>1, <1>2, Kept_Taken

(* ... and adds it to the row, or loses it *)
LEMMA Kept_applied ==
  ASSUME Types, Types', Kept, NEW p \in Procs, apply(p) \/ ApplyFails(p)
  PROVE  Kept'
<1>1. /\ ReqOK /\ up /\ Here(req[p]) = "apply" /\ Continue(p, req[p])
      /\ UNCHANGED <<db, mem, up, stale>> /\ (lost => lost')
      /\ PostInv /\ Exact
  <2>1. ReqOK /\ PostInv /\ Exact /\ lost \in BOOLEAN
    BY DEF Types, TypeOK, Kept
  <2>2. CASE apply(p)
    BY <2>1, <2>2 DEF apply, At, env, ghosts
  <2>3. CASE ApplyFails(p)
    BY <2>1, <2>3 DEF ApplyFails, At, env
  <2>. QED BY <2>2, <2>3
<1>2. /\ req' = [req EXCEPT ![p] = req'[p]]
      /\ \/ req[p].op = "flush" /\ req'[p] = Idle
         \/ req[p].op = "purge" /\ Here(req'[p]) = "delrow" /\ req'[p].op = "purge"
  BY <1>1, Go_apply DEF Same
<1>3. /\ Here(req'[p]) \in {"none", "delrow"} /\ req'[p].op \in {"idle", "purge"}
      /\ ~HoldsComment(req'[p]) /\ \A f : Carried(req'[p], f) = 0
  BY <1>2, IdleIs DEF HoldsComment, Carried
<1>4. req[p].old \in Delta /\ mem.dirty \in Delta
  BY <1>1 DEF ReqOK, Knows, Types, TypeOK
<1>5. ResetInv'
  BY <1>1, <1>2, <1>3, ResetStep DEF PostInv
<1>6. CASE row = None
  BY <1>1, <1>2, <1>5, <1>6, Gone, PurgedOf DEF apply, ApplyFails, InRow
<1>7. CASE row # None
  <2>1. /\ row \in Row /\ row' # None
        /\ ~lost' => \A f \in DOMAIN Zero : row'[f] = row[f] + req[p].old[f]
    <3>1. row \in Row
      BY <1>7 DEF Types, TypeOK
    <3>2. CASE apply(p)
      <4>1. row' = Added(row, req[p].old)
        BY <1>7, <3>2 DEF apply, InRow
      <4>. QED BY <1>4, <3>1, <4>1, AddedOK, NoneAssumption
    <3>3. CASE ApplyFails(p)
      <4>1. row' = row /\ (~lost' => req[p].old = Zero)
        BY <3>3 DEF ApplyFails
      <4>2. \A f \in DOMAIN Zero : row[f] \in Int /\ Zero[f] = 0
        BY <3>1, ZeroOK DEF Row, Zero
      <4>. QED BY <1>7, <3>1, <4>1, <4>2
    <3>. QED BY <3>2, <3>3
  <2>2. \A f \in DOMAIN Zero : /\ Carried(req[p], f) = req[p].old[f] /\ req[p].old[f] \in Int
                               /\ mem.dirty[f] \in Int /\ row[f] \in Int
    BY <1>1, <1>4, <2>1, ZeroOK DEF Carried, Delta, Row
  <2>3. \A f : Voted(f)' = Voted(f)
    BY <1>1 DEF Voted
  <2>4. \A f : Voted(f) \in Int
    BY Countable
  <2>5. (\A q \in Procs : req'[q].op # "reset") => \A q \in Procs : req[q].op # "reset"
    BY <1>1, <1>2 DEF ReqOK
  <2>6. ASSUME NEW f \in {"up", "down"} PROVE VotesExact(f)'
    <3>1. ~lost' => Voted(f)' = Voted(f) + (row'[f] - row[f]) + (mem'.dirty[f] - mem.dirty[f])
                     + (Carried(req'[p], f) - Carried(req[p], f))
      BY <1>1, <1>3, <2>1, <2>2, <2>3, <2>4, ZeroOK
    <3>. QED BY <1>1, <1>2, <1>7, <2>1, <2>5, <3>1, VoteStep
  <2>7. ~lost' => row'["num"] + mem'.dirty["num"] + Carried(req'[p], "num") =
                   row["num"] + mem.dirty["num"] + Carried(req[p], "num")
    BY <1>1, <1>3, <2>1, <2>2, ZeroOK
  <2>. QED BY <1>1, <1>2, <1>3, <1>5, <1>7, <2>1, <2>6, <2>7, CounterStep
<1>. QED BY <1>6, <1>7

(* a vote that takes the place of another one *)
LEMMA VotedChange ==
  ASSUME Types, NEW u \in Users, NEW v \in Votes, db'.votes = [db.votes EXCEPT ![u] = v], NEW f
  PROVE  /\ Voted(f) \in Int
         /\ Voted(f)' = Voted(f) + (IF v = f THEN 1 ELSE 0) - (IF db.votes[u] = f THEN 1 ELSE 0)
<1>. DEFINE S == {x \in Users : db.votes[x] = f}  T == {x \in Users : db'.votes[x] = f}
<1>1. db.votes \in [Users -> Votes]
  BY DEF Types, TypeOK
<1>2. IsFiniteSet(S) /\ Cardinality(S) \in Int
  BY PostStoreAssumption, FS_Subset, FS_CardinalityType
<1>3. Voted(f) = Cardinality(S) /\ Voted(f)' = Cardinality(T)
  BY DEF Voted
<1>4. CASE v = f /\ db.votes[u] = f
  <2>1. T = S
    BY <1>1, <1>4
  <2>. QED BY <1>2, <1>3, <1>4, <2>1
<1>5. CASE v = f /\ db.votes[u] # f
  <2>1. T = S \cup {u} /\ u \notin S
    BY <1>1, <1>5
  <2>2. Cardinality(T) = Cardinality(S) + 1
    BY <1>2, <2>1, FS_AddElement
  <2>. QED BY <1>2, <1>3, <1>5, <2>2
<1>6. CASE v # f /\ db.votes[u] = f
  <2>1. T = S \ {u} /\ u \in S
    BY <1>1, <1>6
  <2>2. Cardinality(T) = Cardinality(S) - 1
    BY <1>2, <2>1, FS_RemoveElement
  <2>. QED BY <1>2, <1>3, <1>6, <2>2
<1>7. CASE v # f /\ db.votes[u] # f
  <2>1. T = S
    BY <1>1, <1>7
  <2>2. Cardinality(T) = Cardinality(S)
    BY <2>1
  <2>. HIDE DEF S, T
  <2>. QED BY <1>2, <1>3, <1>7, <2>2
<1>. QED BY <1>4, <1>5, <1>6, <1>7

(* the vote that VotePost stores *)
LEMMA Kept_setvote ==
  ASSUME Types, Types', Kept, NEW p \in Procs, setvote(p)
  PROVE  Kept'
<1>1. /\ ReqOK /\ up /\ Here(req[p]) = "setvote" /\ Continue(p, req[p])
      /\ UNCHANGED <<row, mem, up, lost>> /\ PostInv /\ Exact
      /\ Stale({"votes"}, \/ row = None \/ db.votes[req[p].user] # req[p].old
                          \/ \E q \in Procs : req[q].op = "reset")
  BY DEF setvote, At, env, Types, Kept
<1>2. /\ req' = [req EXCEPT ![p] = req'[p]] /\ req[p].op = "vote"
      /\ Here(req'[p]) = "count" /\ Same(req'[p], req[p])
  BY <1>1, Go_setvote
<1>3. req'[p].op = "vote" /\ req'[p].vote = req[p].vote /\ req'[p].old = req[p].old
  BY <1>2 DEF Same
<1>4. req[p].user \in Users /\ req[p].vote \in Votes
  BY <1>1, <1>2 DEF ReqOK, Knows, Req
<1>5. /\ db'.votes = [db.votes EXCEPT ![req[p].user] = req[p].vote]
      /\ db'.comments = db.comments /\ db'.post = db.post
  BY DEF setvote, Types, TypeOK
<1>6. ResetInv'
  <2>. SUFFICES ASSUME NEW o \in Procs, req'[o].op = "reset", "votes" \notin stale' PROVE FALSE
    BY DEF ResetInv
  <2>1. o # p /\ req'[o] = req[o]
    BY <1>1, <1>2, <1>3 DEF ReqOK
  <2>. QED BY <1>1, <2>1 DEF Stale
<1>7. CASE row = None
  BY <1>1, <1>2, <1>6, <1>7, Gone, PurgedOf DEF Stale
<1>8. CASE row # None
  <2>1. row \in Row /\ mem.dirty \in Delta
    BY <1>8 DEF Types, TypeOK
  <2>2. \A f : /\ Carried(req[p], f) = 0
               /\ Carried(req'[p], f) = (IF req[p].vote = f THEN 1 ELSE 0) - (IF req[p].old = f THEN 1 ELSE 0)
    BY <1>1, <1>2, <1>3 DEF Carried, Gain
  <2>3. Carried(req'[p], "num") = 0
    BY <1>1, <1>2, <1>4, <2>2 DEF Votes, ReqOK, Knows
  <2>4. row'["num"] + mem'.dirty["num"] + Carried(req'[p], "num") =
                   row["num"] + mem.dirty["num"] + Carried(req[p], "num")
    BY <1>1, <2>2, <2>3
  <2>5. ASSUME NEW f \in {"up", "down"} PROVE VotesExact(f)'
    <3>1. row[f] \in Int /\ mem.dirty[f] \in Int
      BY <2>1, ZeroOK DEF Row, Delta
    <3>2. /\ Voted(f) \in Int
          /\ Voted(f)' = Voted(f) + (IF req[p].vote = f THEN 1 ELSE 0)
                           - (IF db.votes[req[p].user] = f THEN 1 ELSE 0)
      BY <1>4, <1>5, VotedChange
    <3>3. "votes" \notin stale' => /\ db.votes[req[p].user] = req[p].old /\ "votes" \notin stale
                                   /\ \A q \in Procs : req[q].op # "reset"
      BY <1>1 DEF Stale
    <3>4. "votes" \notin stale' =>
            Voted(f)' = Voted(f) + (row'[f] - row[f]) + (mem'.dirty[f] - mem.dirty[f])
                     + (Carried(req'[p], f) - Carried(req[p], f))
      BY <1>1, <2>2, <3>1, <3>2, <3>3
    <3>. QED BY <1>1, <1>2, <1>8, <3>3, <3>4, VoteStep
  <2>6. ~HoldsComment(req'[p])
    BY <1>2 DEF HoldsComment
  <2>. QED BY <1>1, <1>2, <1>3, <1>5, <1>6, <1>8, <2>4, <2>5, <2>6, CounterStep
<1>. QED BY <1>7, <1>8

(* the votes are not compared while they are reset *)
LEMMA Kept_delvotes ==
  ASSUME Types, Types', Kept, NEW p \in Procs, delvotes(p)
  PROVE  Kept'
<1>1. /\ ReqOK /\ up /\ Here(req[p]) = "delvotes" /\ Continue(p, req[p])
      /\ UNCHANGED <<row, mem, up, lost>> /\ PostInv
      /\ Stale({"votes"}, Disturbed(p))
  BY DEF delvotes, At, env, Types, Kept
<1>2. /\ req' = [req EXCEPT ![p] = req'[p]] /\ req[p].op = "reset"
      /\ Here(req'[p]) = "zerodirty" /\ req'[p].op = "reset"
  BY <1>1, Go_delvotes DEF Same
<1>3. db'.comments = db.comments /\ db'.post = db.post
  BY DEF delvotes, Types, TypeOK
<1>4. ResetInv'
  BY <1>1, <1>2, ResetStep DEF PostInv, Stale
<1>5. CASE row = None
  BY <1>1, <1>2, <1>4, <1>5, Gone, PurgedOf DEF Stale
<1>6. CASE row # None
  <2>1. VotesExact("up")' /\ VotesExact("down")'
    BY <1>2 DEF VotesExact
  <2>2. /\ ~HoldsComment(req'[p]) /\ Carried(req[p], "num") = 0 /\ Carried(req'[p], "num") = 0
    BY <1>1, <1>2 DEF HoldsComment, CommentOps, Carried
  <2>. QED BY <1>1, <1>2, <1>3, <1>4, <1>6, <2>1, <2>2, CounterStep
<1>. QED BY <1>5, <1>6

(* the votes in dirtyDeltas are set to zero *)
LEMMA Kept_zerodirty ==
  ASSUME Types, Types', Kept, NEW p \in Procs, zerodirty(p)
  PROVE  Kept'
<1>1. /\ ReqOK /\ up /\ Here(req[p]) = "zerodirty" /\ Continue(p, req[p])
      /\ UNCHANGED <<db, row, up, lost>> /\ PostInv
      /\ Stale({"votes"}, Disturbed(p))
  BY DEF zerodirty, At, env, Types, Kept
<1>2. /\ req' = [req EXCEPT ![p] = req'[p]] /\ req[p].op = "reset"
      /\ Here(req'[p]) = "zerorow" /\ req'[p].op = "reset"
  BY <1>1, Go_zerodirty DEF Same
<1>3. /\ mem'.seq = mem.seq /\ mem'.dirty["num"] = mem.dirty["num"]
      /\ mem'.dirty["up"] = 0 /\ mem'.dirty["down"] = 0
  <2>1. mem \in [dirty : Delta, seq : Seqs \cup {None}]
    BY DEF Types, TypeOK
  <2>2. mem'.dirty = [mem.dirty EXCEPT !.up = 0, !.down = 0] /\ mem'.seq = mem.seq
    BY <2>1 DEF zerodirty
  <2>. QED BY <2>1, <2>2, DirtyVotes
<1>4. ResetInv'
  <2>. SUFFICES ASSUME "votes" \notin stale', NEW q \in Procs
                PROVE  ~(req'[q].op = "vote" /\ Here(req'[q]) = "count")
    BY <1>3 DEF ResetInv, Here
  <2>1. q # p => req'[q] = req[q] /\ req[q].op # "vote"
    BY <1>1, <1>2 DEF Stale, Disturbed, ReqOK
  <2>. QED BY <1>2, <2>1
<1>5. CASE row = None
  BY <1>1, <1>2, <1>4, <1>5, Gone, PurgedOf DEF Stale
<1>6. CASE row # None
  <2>1. VotesExact("up")' /\ VotesExact("down")'
    BY <1>2 DEF VotesExact
  <2>2. /\ ~HoldsComment(req'[p]) /\ Carried(req[p], "num") = 0 /\ Carried(req'[p], "num") = 0
    BY <1>1, <1>2 DEF HoldsComment, CommentOps, Carried
  <2>. QED BY <1>1, <1>2, <1>3, <1>4, <1>6, <2>1, <2>2, CounterStep
<1>. QED BY <1>5, <1>6

(* when a reset that nobody met has ended there are no votes at all *)
LEMMA Kept_zerorow ==
  ASSUME Types, Types', Kept, NEW p \in Procs, zerorow(p)
  PROVE  Kept'
<1>1. /\ ReqOK /\ up /\ Here(req[p]) = "zerorow" /\ Continue(p, req[p])
      /\ UNCHANGED <<db, mem, up, lost>> /\ PostInv
      /\ Stale({"votes"}, Disturbed(p))
  BY DEF zerorow, At, env, Types, Kept
<1>2. /\ req' = [req EXCEPT ![p] = req'[p]] /\ req[p].op = "reset" /\ req'[p] = Idle
  BY <1>1, Go_zerorow
<1>3. /\ Here(req'[p]) = "none" /\ req'[p].op = "idle" /\ ~HoldsComment(req'[p])
      /\ \A f : Carried(req'[p], f) = 0
  BY <1>2, IdleIs
<1>4. ResetInv'
  BY <1>1, <1>2, <1>3, ResetStep DEF PostInv, Stale
<1>5. CASE row = None
  BY <1>1, <1>2, <1>4, <1>5, Gone, PurgedOf DEF Stale, zerorow, InRow
<1>6. CASE row # None
  <2>1. /\ row \in Row /\ row' # None /\ row'["num"] = row["num"]
        /\ row'["up"] = 0 /\ row'["down"] = 0
    <3>1. row \in Row /\ row' = [row EXCEPT !.up = 0, !.down = 0]
      BY <1>6 DEF Types, TypeOK, zerorow, InRow
    <3>. QED BY <3>1, RowVotes, NoneAssumption
  <2>2. Carried(req[p], "num") = 0
    BY <1>1 DEF Carried
  <2>3. ASSUME NEW f \in {"up", "down"} PROVE VotesExact(f)'
    <3>. SUFFICES ASSUME "votes" \notin stale' PROVE row'[f] + UnderWay(f)' = Voted(f)'
      BY DEF VotesExact
    <3>1. /\ "votes" \notin stale /\ Voted("none") = Cardinality(Users)
          /\ \A q \in Procs \ {p} : req[q].op \notin {"vote", "reset", "flush", "purge"}
      BY <1>1 DEF Stale, Disturbed
    <3>2. mem'.dirty[f] = 0
      BY <1>1, <1>2, <3>1 DEF PostInv, ResetInv
    <3>3. Voted(f)' = 0
      <4>1. {u \in Users : db.votes[u] = "none"} = Users
        BY <3>1, PostStoreAssumption, FS_Subset DEF Voted
      <4>2. {u \in Users : db'.votes[u] = f} = {}
        BY <1>1, <4>1
      <4>. QED BY <4>2, FS_EmptySet DEF Voted
    <3>4. \A q \in Procs : Carried(req'[q], f) = 0
      <4>1. ASSUME NEW q \in Procs, q # p PROVE Carried(req[q], f) = 0
        <5>1. Here(req[q]) # "none" => \E y : Follows(req[q].op, Here(req[q]), y)
          BY <1>1, HereOps
        <5>2. Here(req[q]) # "apply" /\ (Here(req[q]) = "count" => req[q].op = "comment")
          BY <3>1, <4>1, <5>1 DEF Follows
        <5>. QED BY <5>2 DEF Carried, Gain
      <4>2. \A q \in Procs : q # p => req'[q] = req[q]
        BY <1>1, <1>2 DEF ReqOK
      <4>. QED BY <1>3, <4>1, <4>2
    <3>5. UnderWay(f)' = 0
      <4>. DEFINE g == [q \in Procs |-> Carried(req'[q], f)]
      <4>1. g \in [Procs -> Int] /\ \A q \in Procs : g[q] = 0
        BY <3>4
      <4>2. UnderWay(f)' = mem'.dirty[f] + SumFunction(g)
        BY DEF UnderWay
      <4>. HIDE DEF g
      <4>3. SumFunction(g) = 0
        BY <4>1, SumZero, PostStoreAssumption
      <4>. QED BY <3>2, <4>2, <4>3
    <3>. QED BY <2>1, <3>3, <3>5
  <2>. QED BY <1>1, <1>2, <1>3, <1>4, <1>6, <2>1, <2>2, <2>3, CounterStep
<1>. QED BY <1>5, <1>6

(* a purge *)
LEMMA Kept_delrow ==
  ASSUME Types, Types', Kept, NEW p \in Procs, delrow(p)
  PROVE  Kept'
<1>1. /\ ReqOK /\ up /\ Here(req[p]) = "delrow" /\ Continue(p, req[p])
      /\ UNCHANGED <<mem, up, lost>> /\ row' = None /\ stale' = stale \cup {"purged"}
  BY DEF delrow, At, env, Types, Stale
<1>2. req' = [req EXCEPT ![p] = req'[p]] /\ Here(req'[p]) = "list" /\ req'[p].op = "purge"
  BY <1>1, Go_delrow DEF Same
<1>3. ResetInv'
  BY <1>1, <1>2, ResetStep DEF Kept, PostInv
<1>. QED BY <1>1, <1>3, Gone

(* a purge empties dirtyDeltas and postSeqs *)
LEMMA Kept_forget ==
  ASSUME Types, Types', Kept, NEW p \in Procs, forget(p)
  PROVE  Kept'
<1>1. /\ ReqOK /\ up /\ Here(req[p]) = "forget" /\ Continue(p, req[p])
      /\ UNCHANGED <<row, up, stale>> /\ mem' = [dirty |-> Zero, seq |-> None]
  BY DEF forget, At, env, ghosts, Types
<1>2. /\ req' = [req EXCEPT ![p] = req'[p]] /\ req[p].op = "purge"
      /\ Here(req'[p]) = "delpost" /\ req'[p].op = "purge"
  BY <1>1, Go_forget DEF Same
<1>3. mem'.dirty["up"] = 0 /\ mem'.dirty["down"] = 0
  BY <1>1 DEF Zero
<1>4. ResetInv'
  BY <1>1, <1>2, <1>3, ResetStep DEF Kept, PostInv
<1>5. row = None /\ "purged" \in stale
  BY <1>1, <1>2 DEF Kept, PostInv, RowGone
<1>. QED BY <1>1, <1>4, <1>5, Gone

(* a purge deletes the comments *)
LEMMA Kept_delcomments ==
  ASSUME Types, Types', Kept, NEW p \in Procs, delcomments(p)
  PROVE  Kept'
<1>1. /\ ReqOK /\ up /\ Here(req[p]) = "delcomments" /\ Continue(p, req[p])
      /\ UNCHANGED <<row, mem, up, stale>>
  BY DEF delcomments, At, env, ghosts, Types
<1>2. req' = [req EXCEPT ![p] = req'[p]] /\ req[p].op = "purge" /\ Here(req'[p]) = "dropvotes" /\ req'[p].op = "purge"
  BY <1>1, Go_delcomments DEF Same
<1>3. ResetInv'
  BY <1>1, <1>2, ResetStep, IdleIs DEF Kept, PostInv
<1>4. row = None /\ "purged" \in stale
  BY <1>1, <1>2 DEF Kept, PostInv, RowGone
<1>. QED BY <1>1, <1>3, <1>4, Gone

(* a purge deletes the votes *)
LEMMA Kept_dropvotes ==
  ASSUME Types, Types', Kept, NEW p \in Procs, dropvotes(p)
  PROVE  Kept'
<1>1. /\ ReqOK /\ up /\ Here(req[p]) = "dropvotes" /\ Continue(p, req[p])
      /\ UNCHANGED <<row, mem, up, stale>>
  BY DEF dropvotes, At, env, ghosts, Types
<1>2. req' = [req EXCEPT ![p] = req'[p]] /\ req[p].op = "purge" /\ Here(req'[p]) = "delhist" /\ req'[p].op = "purge"
  BY <1>1, Go_dropvotes DEF Same
<1>3. ResetInv'
  BY <1>1, <1>2, ResetStep, IdleIs DEF Kept, PostInv
<1>4. row = None /\ "purged" \in stale
  BY <1>1, <1>2 DEF Kept, PostInv, RowGone
<1>. QED BY <1>1, <1>3, <1>4, Gone

(* a purge deletes the history *)
LEMMA Kept_delhist ==
  ASSUME Types, Types', Kept, NEW p \in Procs, delhist(p)
  PROVE  Kept'
<1>1. /\ ReqOK /\ up /\ Here(req[p]) = "delhist" /\ Continue(p, req[p])
      /\ UNCHANGED <<row, mem, up, stale>>
  BY DEF delhist, At, env, ghosts, Types
<1>2. req' = [req EXCEPT ![p] = req'[p]] /\ req[p].op = "purge" /\ req'[p] = Idle
  BY <1>1, Go_delhist DEF Same
<1>3. ResetInv'
  BY <1>1, <1>2, ResetStep, IdleIs DEF Kept, PostInv
<1>4. row = None /\ "purged" \in stale
  BY <1>1, <1>2 DEF Kept, PostInv, RowGone
<1>. QED BY <1>1, <1>3, <1>4, Gone

(* quiet steps *)
LEMMA Kept_Quiet ==
  ASSUME Types, Types', Kept, NEW p \in Procs, Quiet(p)
  PROVE  Kept'
BY QuietInv, QuietExact DEF Kept

(* a comment that is stored again *)
LEMMA Kept_setcomment ==
  ASSUME Types, Types', Kept, NEW p \in Procs, setcomment(p)
  PROVE  Kept'
<1>1. CASE row # None
  BY <1>1, Quiet_setcomment, Kept_Quiet DEF Kept
<1>2. CASE row = None
  <2>1. /\ ReqOK /\ up /\ Here(req[p]) = "setcomment" /\ Continue(p, req[p])
        /\ UNCHANGED <<row, mem, up>> /\ stale \subseteq stale' /\ stale' \subseteq stale \cup {"comments"}
    BY DEF setcomment, At, env, Types, Stale
  <2>2. /\ req' = [req EXCEPT ![p] = req'[p]] /\ req[p].op \in {"comment", "cdelete", "cundelete", "cedit"}
        /\ Here(req'[p]) \in {"none", "touch"}
    BY <2>1, Go_setcomment, IdleIs
  <2>3. ResetInv'
    BY <2>1, <2>2, ResetStep DEF Kept, PostInv
  <2>4. "purged" \in stale
    BY <1>2, <2>2, PurgedOf DEF Kept
  <2>. QED BY <1>2, <2>1, <2>3, <2>4, Gone
<1>. QED BY <1>1, <1>2

-----------------------------------------------------------------------------
(* nothing is under way *)

(* nobody carries anything *)
LEMMA NothingCarried ==
  ASSUME NEW m, NEW r, NEW f \in DOMAIN Zero, m[f] = 0, \A q \in Procs : Carried(r[q], f) = 0
  PROVE  m[f] + SumFunction([q \in Procs |-> Carried(r[q], f)]) = 0
<1>. DEFINE g == [q \in Procs |-> Carried(r[q], f)]
<1>1. g \in [Procs -> Int] /\ \A q \in Procs : g[q] = 0
  OBVIOUS
<1>. HIDE DEF g
<1>2. SumFunction(g) = 0
  BY <1>1, SumZero, PostStoreAssumption
<1>. QED BY <1>2 DEF g

(* a create carries nothing *)
LEMMA NotStarted ==
  ASSUME ReqOK, NEW q \in Procs, req[q].op \in {"idle", "create"}
  PROVE  /\ Here(req[q]) \in {"none", "lookup", "insert", "setnew"}
         /\ ~HoldsComment(req[q]) /\ \A f : Carried(req[q], f) = 0
<1>1. Here(req[q]) # "none" => \E y : Follows(req[q].op, Here(req[q]), y)
  BY HereOps
<1>2. Here(req[q]) \in {"none", "lookup", "insert", "setnew"}
  BY <1>1 DEF Follows
<1>. QED BY <1>2 DEF HoldsComment, CommentOps, Carried

(* the counters of a new article are zero *)
LEMMA Kept_insert ==
  ASSUME Types, Types', Kept, NEW p \in Procs, insert(p)
  PROVE  Kept'
<1>0. CASE ~(row = None /\ "purged" \notin stale)
  BY <1>0, Quiet_refused, Kept_Quiet
<1>. SUFFICES ASSUME row = None, "purged" \notin stale PROVE Kept'
  BY <1>0
<1>1. /\ ReqOK /\ up /\ Here(req[p]) = "insert" /\ Continue(p, req[p])
      /\ UNCHANGED <<db, mem, up, stale, lost>> /\ row' = NewRow
  BY DEF insert, At, env, ghosts, Types
<1>2. /\ req' = [req EXCEPT ![p] = req'[p]] /\ req[p].op = "create"
      /\ Here(req'[p]) = "setnew" /\ req'[p].op = "create"
  BY <1>1, Go_insert DEF Same
<1>3. /\ row' # None /\ row'["num"] = 0 /\ row'["up"] = 0 /\ row'["down"] = 0
  BY <1>1, NewOK, NoneAssumption DEF NewRow
<1>4. /\ mem = [dirty |-> Zero, seq |-> None]
      /\ \A q \in Procs : req[q].op \in {"idle", "create"}
      /\ ~lost => (\A s \in Seqs : db.comments[s] = None) /\ (\A u \in Users : db.votes[u] = "none")
  BY DEF Kept, PostInv, NoRow
<1>5. \A q \in Procs : /\ req'[q].op \in {"idle", "create"}
                       /\ Here(req'[q]) \in {"none", "lookup", "insert", "setnew"}
                       /\ ~HoldsComment(req'[q]) /\ \A f : Carried(req'[q], f) = 0
  <2>1. ASSUME NEW q \in Procs, q # p
        PROVE  /\ req'[q].op \in {"idle", "create"}
               /\ Here(req'[q]) \in {"none", "lookup", "insert", "setnew"}
               /\ ~HoldsComment(req'[q]) /\ \A f : Carried(req'[q], f) = 0
    <3>1. req'[q] = req[q]
      BY <1>1, <1>2, <2>1 DEF ReqOK
    <3>. QED BY <1>1, <1>4, <3>1, NotStarted
  <2>2. ~HoldsComment(req'[p]) /\ \A f : Carried(req'[p], f) = 0
    BY <1>2 DEF HoldsComment, CommentOps, Carried
  <2>. QED BY <1>2, <2>1, <2>2
<1>6. RowGone' /\ Asleep' /\ NoRow' /\ Stored' /\ ResetInv'
  <2>1. RowGone' /\ ResetInv'
    BY <1>5 DEF RowGone, ResetInv
  <2>2. Asleep' /\ NoRow'
    BY <1>1, <1>3 DEF Asleep, NoRow
  <2>3. Stored'
    BY <1>2 DEF Stored, Here
  <2>. QED BY <2>1, <2>2, <2>3
<1>7. OldThere'
  <2>1. \A q \in Procs : ~HoldsComment(req[q])'
    BY <1>5 DEF HoldsComment, Here
  <2>. QED BY <2>1 DEF OldThere
<1>8. SeqInv'
  <2>1. mem'.seq = None /\ \A q \in Procs : Here(req[q])' # "newcomment"
    BY <1>1, <1>4, <1>5 DEF Here
  <2>. QED BY <2>1 DEF SeqInv
<1>9. ASSUME NEW f \in DOMAIN Zero PROVE UnderWay(f)' = 0
  <2>1. mem'.dirty[f] = 0
    BY <1>1, <1>4 DEF Zero
  <2>2. UnderWay(f)' = mem'.dirty[f] + SumFunction([q \in Procs |-> Carried(req'[q], f)])
    BY DEF UnderWay
  <2>3. \A q \in Procs : Carried(req'[q], f) = 0
    BY <1>5
  <2>. QED BY <2>1, <2>2, <2>3, NothingCarried
<1>10. NumExact'
  <2>1. ~lost => Cardinality(Present(db.comments))' = 0
    <3>1. ~lost => Present(db.comments)' = {}
      BY <1>1, <1>4, PresentIs DEF Present
    <3>. QED BY <3>1, FS_EmptySet
  <2>. QED BY <1>1, <1>3, <1>9, <2>1, ZeroOK DEF NumExact
<1>11. ASSUME NEW f \in {"up", "down"} PROVE VotesExact(f)'
  <2>1. ~lost => Voted(f)' = 0
    <3>1. ~lost => {u \in Users : db'.votes[u] = f} = {}
      BY <1>1, <1>4
    <3>. QED BY <3>1, FS_EmptySet DEF Voted
  <2>. QED BY <1>1, <1>3, <1>9, <2>1, ZeroOK DEF VotesExact
<1>. QED BY <1>6, <1>7, <1>8, <1>10, <1>11 DEF Kept, PostInv, Exact

(* a crash forgets what was under way, and says so *)
LEMMA Kept_Crash ==
  ASSUME Types, Types', Kept, Crash
  PROVE  Kept'
<1>1. /\ ReqOK /\ PostInv /\ Exact /\ lost \in BOOLEAN /\ UNCHANGED <<db, row>> /\ ~up'
      /\ mem' = [dirty |-> Zero, seq |-> None] /\ \A q \in Procs : req'[q] = Idle
      /\ stale \subseteq stale' /\ stale' \subseteq stale \cup {"comments"}
      /\ lost' = (lost \/ ~AtRest)
  BY DEF Types, TypeOK, Kept, Crash, Stale
<1>2. ~lost' => ~lost /\ mem.dirty = Zero /\ \A q \in Procs : req[q].todo = <<>>
  BY <1>1 DEF AtRest
<1>3. ~lost' => \A q \in Procs : Here(req[q]) = "none" /\ req[q].op = "idle"
  <2>1. ASSUME NEW q \in Procs, req[q].todo = <<>> PROVE Here(req[q]) = "none" /\ req[q].op = "idle"
    <3>1. Stage(req[q].op, <<>>)
      BY <1>1, <2>1 DEF ReqOK
    <3>2. req[q].op = "idle"
      BY <3>1 DEF Stage
    <3>. QED BY <2>1, <3>2 DEF Here
  <2>. QED BY <1>2, <2>1
<1>4. \A q \in Procs : /\ Here(req'[q]) = "none" /\ req'[q].op = "idle" /\ ~HoldsComment(req'[q])
                       /\ \A f : Carried(req'[q], f) = 0
  BY <1>1, IdleIs
<1>5. RowGone' /\ Asleep' /\ ResetInv'
  BY <1>1, <1>4 DEF RowGone, Asleep, ResetInv
<1>6. NoRow'
  BY <1>1, <1>2, <1>4 DEF PostInv, NoRow
<1>7. Stored'
  BY <1>1, <1>2, <1>3 DEF PostInv, Stored
<1>8. OldThere'
  <2>1. \A q \in Procs : ~HoldsComment(req[q])'
    BY <1>4 DEF HoldsComment, Here
  <2>. QED BY <2>1 DEF OldThere
<1>9. SeqInv'
  <2>1. mem'.seq = None /\ \A q \in Procs : Here(req[q])' # "newcomment"
    BY <1>1, <1>4 DEF Here
  <2>. QED BY <2>1 DEF SeqInv
<1>10. ASSUME NEW f \in DOMAIN Zero PROVE UnderWay(f)' = 0
  <2>1. mem'.dirty[f] = 0
    BY <1>1 DEF Zero
  <2>2. UnderWay(f)' = mem'.dirty[f] + SumFunction([q \in Procs |-> Carried(req'[q], f)])
    BY DEF UnderWay
  <2>. QED BY <1>4, <2>1, <2>2, NothingCarried
<1>11. ASSUME NEW f \in DOMAIN Zero, ~lost' PROVE UnderWay(f) = 0
  <2>1. mem.dirty[f] = 0
    BY <1>2, <1>11 DEF Zero
  <2>2. \A q \in Procs : Carried(req[q], f) = 0
    BY <1>3, <1>11 DEF Carried
  <2>3. UnderWay(f) = mem.dirty[f] + SumFunction([q \in Procs |-> Carried(req[q], f)])
    BY DEF UnderWay
  <2>. QED BY <2>1, <2>2, <2>3, NothingCarried
<1>12. NumExact'
  <2>1. Present(db.comments)' = Present(db.comments)
    BY <1>1 DEF Present
  <2>. QED BY <1>1, <1>2, <1>10, <1>11, <2>1, ZeroOK DEF Exact, NumExact
<1>13. VotesExact("up")' /\ VotesExact("down")'
  <2>1. \A f : Voted(f)' = Voted(f)
    BY <1>1 DEF Voted
  <2>. QED BY <1>1, <1>2, <1>3, <1>10, <1>11, <2>1, ZeroOK DEF Exact, VotesExact
<1>. QED BY <1>5, <1>6, <1>7, <1>8, <1>9, <1>12, <1>13 DEF Kept, PostInv, Exact

(* a rebuild counts again *)
LEMMA Kept_Rebuild ==
  ASSUME Types, Types', Kept, RebuildSQLiteFromPebble
  PROVE  Kept'
<1>1. /\ ReqOK /\ PostInv /\ lost \in BOOLEAN /\ UNCHANGED <<db, mem, req, up>> /\ ~up
      /\ row' = Rebuilt /\ lost' = (lost /\ Rebuilt = None)
      /\ stale' = IF Rebuilt = None THEN stale ELSE stale \ {"title", "votes", "clock", "purged"}
  BY DEF Types, TypeOK, Kept, RebuildSQLiteFromPebble
<1>2. mem = [dirty |-> Zero, seq |-> None] /\ \A q \in Procs : req[q] = Idle
  BY <1>1 DEF PostInv, Asleep
<1>3. \A q \in Procs : /\ Here(req[q]) = "none" /\ req[q].op = "idle" /\ ~HoldsComment(req[q])
                       /\ \A f : Carried(req[q], f) = 0
  BY <1>2, IdleIs
<1>4. RowGone' /\ Asleep' /\ ResetInv' /\ OldThere'
  BY <1>1, <1>2, <1>3 DEF RowGone, Asleep, ResetInv, OldThere, HoldsComment, Here
<1>5. NoRow'
  <2>. SUFFICES ASSUME row' = None, "purged" \notin stale' PROVE NoRow'
    BY DEF NoRow
  <2>1. db.post = None /\ stale' = stale /\ lost' = lost
    BY <1>1, RebuiltOK
  <2>2. row # None => lost
    BY <1>1, <1>3, <2>1 DEF PostInv, Stored
  <2>. QED BY <1>1, <1>2, <1>3, <2>1, <2>2 DEF PostInv, NoRow
<1>6. Stored'
  BY <1>1, RebuiltOK DEF Stored
<1>7. SeqInv'
  <2>1. mem'.seq = None /\ \A q \in Procs : Here(req[q])' # "newcomment"
    BY <1>1, <1>2, <1>3 DEF Here
  <2>. QED BY <2>1 DEF SeqInv
<1>8. ASSUME NEW f \in DOMAIN Zero PROVE UnderWay(f)' = 0
  <2>1. mem.dirty[f] = 0
    BY <1>2 DEF Zero
  <2>2. UnderWay(f)' = mem.dirty[f] + SumFunction([q \in Procs |-> Carried(req[q], f)])
    BY <1>1 DEF UnderWay
  <2>. QED BY <1>3, <2>1, <2>2, NothingCarried
<1>9. NumExact'
  <2>1. Present(db.comments)' = Present(db.comments) /\ Cardinality(Present(db.comments)) \in Int
    BY <1>1, Countable DEF Present
  <2>2. row' # None => row'["num"] = Cardinality(Present(db.comments))
    BY <1>1, RebuiltOK
  <2>. QED BY <1>8, <2>1, <2>2, ZeroOK DEF NumExact
<1>10. VotesExact("up")' /\ VotesExact("down")'
  <2>1. \A f : Voted(f)' = Voted(f)
    BY <1>1 DEF Voted
  <2>2. \A f : Voted(f) \in Int
    BY Countable
  <2>3. row' # None => row'["up"] = Voted("up") /\ row'["down"] = Voted("down")
    BY <1>1, RebuiltOK
  <2>. QED BY <1>8, <2>1, <2>2, <2>3, ZeroOK DEF VotesExact
<1>. QED BY <1>4, <1>5, <1>6, <1>7, <1>9, <1>10 DEF Kept, PostInv, Exact

(* the clock and a restart *)
LEMMA KeptSame ==
  ASSUME Kept, UNCHANGED <<db, row, mem, req, stale, lost>>, up => up'
  PROVE  Kept'
<1>1. RowGone' /\ NoRow' /\ Stored' /\ ResetInv'
  BY DEF Kept, PostInv, RowGone, NoRow, Stored, ResetInv, Here
<1>2. Asleep' /\ OldThere'
  BY DEF Kept, PostInv, Asleep, OldThere, HoldsComment, Here
<1>3. SeqInv'
  BY DEF Kept, PostInv, SeqInv, Here, Present
<1>4. Exact'
  <2>1. \A f : UnderWay(f)' = UnderWay(f) /\ Voted(f)' = Voted(f)
    BY DEF UnderWay, Voted
  <2>2. Present(db.comments)' = Present(db.comments)
    BY DEF Present
  <2>. QED BY <2>1, <2>2 DEF Kept, Exact, NumExact, VotesExact
<1>. QED BY <1>1, <1>2, <1>3, <1>4 DEF Kept, PostInv

(* the counters of the article at the start *)
LEMMA InitKept ==
  ASSUME Init, Types
  PROVE  Kept
<1>1. PICK there \in BOOLEAN, by \in Users :
       /\ db = [post |-> IF there THEN NewPost ELSE None,
                comments |-> [n \in Seqs |-> IF there /\ n = 1
                    THEN [by |-> by, text |-> {0}, del |-> FALSE, mod |-> 0] ELSE None],
                votes |-> [u \in Users |-> "none"],
                hist |-> [o \in {0} \cup Seqs |-> <<>>],
                xposts |-> {}]
       /\ row = IF there THEN [NewRow EXCEPT !.num = 1] ELSE None
  BY DEF Init
<1>2. /\ mem = [dirty |-> Zero, seq |-> None] /\ up /\ ~lost
      /\ \A q \in Procs : req[q] = Idle
  BY DEF Init
<1>3. \A q \in Procs : /\ Here(req[q]) = "none" /\ req[q].op = "idle" /\ ~HoldsComment(req[q])
                       /\ \A f : Carried(req[q], f) = 0
  BY <1>2, IdleIs
<1>4. NewPost # None /\ NewRow \in Row
  BY NewOK, NoneAssumption
<1>5. RowGone /\ Asleep /\ ResetInv /\ OldThere
  BY <1>2, <1>3 DEF RowGone, Asleep, ResetInv, OldThere
<1>6. row # None <=> there
  BY <1>1, <1>4, NoneAssumption DEF Row
<1>7. NoRow /\ Stored
  BY <1>1, <1>2, <1>3, <1>4, <1>6 DEF NoRow, Stored
<1>8. SeqInv
  BY <1>2, <1>3 DEF SeqInv
<1>9. ASSUME NEW f \in DOMAIN Zero PROVE UnderWay(f) = 0
  <2>1. mem.dirty[f] = 0
    BY <1>2 DEF Zero
  <2>2. UnderWay(f) = mem.dirty[f] + SumFunction([q \in Procs |-> Carried(req[q], f)])
    BY DEF UnderWay
  <2>3. \A q \in Procs : Carried(req[q], f) = 0
    BY <1>3
  <2>. QED BY <2>1, <2>2, <2>3, NothingCarried
<1>10. NumExact
  <2>. SUFFICES ASSUME there PROVE row["num"] = 1 /\ Cardinality(Present(db.comments)) = 1
    BY <1>6, <1>9, ZeroOK DEF NumExact
  <2>1. row["num"] = 1
    BY <1>1, <1>4 DEF Row
  <2>2. [by |-> by, text |-> {0}, del |-> FALSE, mod |-> 0] # None
    <3>1. [by |-> by, text |-> {0}, del |-> FALSE, mod |-> 0] \in Comment
      BY PostStoreAssumption DEF Comment, Ids, Times
    <3>. QED BY <3>1, NoneAssumption
  <2>3. 1 \in Seqs
    BY PostStoreAssumption DEF Seqs
  <2>4. Present(db.comments) = {1}
    BY <1>1, <2>2, <2>3, PresentIs
  <2>. QED BY <2>1, <2>4, FS_Singleton
<1>11. ASSUME NEW f \in {"up", "down"} PROVE VotesExact(f)
  <2>. SUFFICES ASSUME there PROVE row[f] = 0 /\ Voted(f) = 0
    BY <1>6, <1>9, ZeroOK DEF VotesExact
  <2>1. row[f] = 0
    BY <1>1, <1>4 DEF NewRow
  <2>2. {u \in Users : db.votes[u] = f} = {}
    BY <1>1
  <2>. QED BY <2>1, <2>2, FS_EmptySet DEF Voted
<1>. QED BY <1>5, <1>7, <1>8, <1>10, <1>11 DEF Kept, PostInv, Exact

(* every step keeps the counters *)
LEMMA KeptNext ==
  ASSUME Types, Types', Kept, [Next]_vars
  PROVE  Kept'
<1>1. ASSUME NEW p \in Procs, Comments(p) PROVE Kept'
  BY <1>1, Kept_choose, Kept_newcomment, Kept_count, Kept_setcomment, Quiet_getcomment, Quiet_touch,
     Kept_Quiet DEF Comments
<1>2. ASSUME NEW p \in Procs, Voting(p) PROVE Kept'
  BY <1>2, Quiet_getvote, Kept_Quiet, Kept_setvote, Kept_delvotes, Kept_zerodirty, Kept_zerorow
     DEF Voting
<1>3. ASSUME NEW p \in Procs, Article(p) PROVE Kept'
  BY <1>3, Kept_Quiet, Kept_insert, Quiet_lookup, Quiet_setnew, Quiet_getrow, Quiet_import,
     Quiet_getbody, Quiet_nextrev, Quiet_archive, Quiet_setpost, Quiet_setrow, Quiet_setmode,
     Quiet_addcross, Quiet_numcross, Quiet_setcross DEF Article
<1>4. ASSUME NEW p \in Procs, Purging(p) PROVE Kept'
  BY <1>4, Kept_Quiet, Kept_take, Kept_applied, Kept_delrow, Quiet_list, Kept_forget, Quiet_delpost,
     Kept_delcomments, Kept_dropvotes, Kept_delhist DEF Purging, Kept
<1>5. ASSUME NEW p \in Procs, Request(p) \/ Fetch(p) \/ Flush(p) PROVE Kept'
  BY <1>5, Quiet_Request, Quiet_Fetch, Kept_Quiet, Kept_Flush
<1>6. CASE Restart \/ Tick \/ UNCHANGED vars
  BY <1>6, KeptSame DEF Restart, Tick, vars, ghosts
<1>. QED BY <1>1, <1>2, <1>3, <1>4, <1>5, <1>6, Kept_Crash, Kept_Rebuild DEF Next

(* The invariant behind the counters holds in every reachable state: what SQLite
   shows, what dirtyDeltas holds and what goroutines carry add up to the records
   in Pebble. *)
THEOREM AlwaysKept == Spec => [](Types /\ Kept)
<1>1. Init => Types /\ Kept
  BY InitTypes, InitKept
<1>2. Types /\ Kept /\ [Next]_vars => (Types /\ Kept)'
  BY TypesNext, KeptNext
<1>. QED BY <1>1, <1>2, PTL DEF Spec

(* The counters that SQLite shows are, with what is under way, the number of
   records in Pebble: comments until deltas are lost in a crash or a failed
   flush, votes also as long as no two votes of one user have met and no reset
   has met votes or a flush. *)
THEOREM CountersAreExact == Spec => []CountersExact
<1>1. Types /\ Kept => CountersExact
  BY DEF Kept, Exact, NumExact, VotesExact, CountersExact, Counted
<1>. QED BY <1>1, AlwaysKept, PTL

-----------------------------------------------------------------------------
(* The inductive invariant of the texts *)

Clean == {"post", "comments", "purged"} \cap stale = {}

(* a text is the current one, or in the history *)
Somewhere(id) ==
  \/ db.post # None /\ db.post.body = id
  \/ \E s \in Present(db.comments) : id \in db.comments[s].text
  \/ \E o \in DOMAIN db.hist : \E i \in DOMAIN db.hist[o] : id \in db.hist[o][i]
InHist(o, text) == \E i \in DOMAIN db.hist[o] : db.hist[o][i] = text

(* r has stored its text and not answered yet *)
PastStore(r) ==
  \/ r.op = "edit" /\ Here(r) = "setrow"
  \/ r.op = "comment" /\ Here(r) = "count"
  \/ r.op = "cedit" /\ Here(r) = "touch"

(* what r is about to write over has been archived *)
ArchDone(r) ==
  /\ r.op = "edit" /\ Here(r) = "setpost" => InHist(0, {r.post.body})
  /\ r.op = "cedit" /\ Here(r) = "setcomment" => InHist(r.seq, r.old.text)

(* r will delete the record *)
BeforeDel(r) == r.op = "purge" /\ Here(r) \in {"list", "forget", "delpost"}

TextInv ==
  /\ \A p \in Procs : HoldsPost(req[p]) => req[p].post.body = req[p].old.body
  /\ Clean => /\ \A id \in acked : Somewhere(id)
              /\ \A p \in Procs : PastStore(req[p]) => Somewhere(req[p].id)
              /\ \A p \in Procs : ArchDone(req[p])
  /\ "purged" \in stale => row = None
  /\ "purged" \in stale /\ {"post", "comments"} \cap stale = {} =>
       db.post = None \/ \E p \in Procs : BeforeDel(req[p])

HistKept ==
  \A o \in {0} \cup Seqs : \A i \in DOMAIN db.hist[o] :
    i \in DOMAIN db'.hist[o] /\ db'.hist[o][i] = db.hist[o][i]

(* a step of one request that keeps what is stored *)
LEMMA TextStep ==
  ASSUME Types, Types', TextInv, NEW p \in Procs, req' = [req EXCEPT ![p] = req'[p]],
         \A w \in {"post", "comments", "purged"} : w \in stale => w \in stale',
         "purged" \in stale' => "purged" \in stale,
         "purged" \in stale => row' = None,
         "purged" \in stale /\ "post" \notin stale' => db'.post \in {db.post, None},
         BeforeDel(req[p]) => BeforeDel(req'[p]) \/ db'.post = None,
         Clean' => HistKept /\ \A id : Somewhere(id) => Somewhere(id)',
         \A id \in acked' : id \in acked \/ (Clean' => Somewhere(id)'),
         Clean' /\ PastStore(req'[p]) => Somewhere(req[p].id)',
         Clean' => ArchDone(req[p])',
         HoldsPost(req'[p]) => req'[p].post.body = req'[p].old.body
  PROVE  TextInv'
<1>0. ReqOK /\ \A q \in Procs : q # p => req'[q] = req[q]
  BY DEF Types, ReqOK
<1>1. Clean' => Clean
  BY DEF Clean
<1>2. \A q \in Procs : HoldsPost(req[q])' => req'[q].post.body = req'[q].old.body
  <2>1. \A q \in Procs : HoldsPost(req'[q]) => req'[q].post.body = req'[q].old.body
    BY <1>0 DEF TextInv
  <2>. QED BY <2>1 DEF HoldsPost, Here
<1>3. ASSUME Clean' PROVE /\ \A id \in acked' : Somewhere(id)'
                          /\ \A q \in Procs : PastStore(req[q])' => Somewhere(req[q].id)'
  <2>1. /\ \A id \in acked : Somewhere(id)
        /\ \A q \in Procs : PastStore(req[q]) => Somewhere(req[q].id)
    BY <1>1, <1>3 DEF TextInv
  <2>2. \A id \in acked' : Somewhere(id)'
    BY <1>3, <2>1
  <2>3. ASSUME NEW q \in Procs, PastStore(req'[q]) PROVE Somewhere(req[q].id)'
    <3>1. CASE q = p
      BY <1>3, <2>3, <3>1
    <3>2. CASE q # p
      <4>1. req'[q] = req[q]
        BY <1>0, <3>2
      <4>2. Somewhere(req[q].id)
        BY <2>1, <2>3, <4>1
      <4>3. Somewhere(req[q].id) => Somewhere(req[q].id)'
        BY <1>3, <4>1
      <4>. QED BY <4>2, <4>3
    <3>. QED BY <3>1, <3>2
  <2>4. \A q \in Procs : PastStore(req[q])' => PastStore(req'[q])
    BY DEF PastStore, Here
  <2>. QED BY <2>2, <2>3, <2>4
<1>4. ASSUME Clean', NEW q \in Procs PROVE ArchDone(req[q])'
  <2>1. CASE q = p
    BY <1>4, <2>1
  <2>2. CASE q # p
    <3>1. req'[q] = req[q] /\ ArchDone(req[q])
      BY <1>0, <1>1, <1>4, <2>2 DEF TextInv
    <3>2. HistKept /\ req[q].seq \in {0} \cup Seqs
      BY <1>0, <1>4 DEF ReqOK, Req
    <3>3. ASSUME NEW o \in {0} \cup Seqs, NEW t, InHist(o, t)
          PROVE  \E i \in DOMAIN db'.hist[o] : db'.hist[o][i] = t
      BY <3>2, <3>3 DEF InHist, HistKept
    <3>4. req[q].op = "edit" /\ Here(req[q]) = "setpost" =>
            \E i \in DOMAIN db'.hist[0] : db'.hist[0][i] = {req[q].post.body}
      BY <3>1, <3>3 DEF ArchDone
    <3>5. req[q].op = "cedit" /\ Here(req[q]) = "setcomment" =>
            \E i \in DOMAIN db'.hist[req[q].seq] : db'.hist[req[q].seq][i] = req[q].old.text
      BY <3>1, <3>2, <3>3 DEF ArchDone
    <3>. HIDE DEF HistKept
    <3>. QED BY <3>1, <3>4, <3>5 DEF ArchDone, InHist, Here
  <2>. QED BY <2>1, <2>2
<1>5. "purged" \in stale' => row' = None
  OBVIOUS
<1>6. "purged" \in stale' /\ {"post", "comments"} \cap stale' = {} =>
        db'.post = None \/ \E q \in Procs : BeforeDel(req[q])'
  <2>. SUFFICES ASSUME "purged" \in stale', {"post", "comments"} \cap stale' = {}, db'.post # None
                PROVE  \E q \in Procs : BeforeDel(req'[q])
    BY DEF BeforeDel, Here
  <2>1. "purged" \in stale /\ {"post", "comments"} \cap stale = {} /\ db.post # None
    OBVIOUS
  <2>2. PICK q \in Procs : BeforeDel(req[q])
    BY <2>1 DEF TextInv
  <2>. QED BY <1>0, <2>2
<1>. QED BY <1>2, <1>3, <1>4, <1>5, <1>6 DEF TextInv

(* texts are where they were *)
LEMMA SomewhereSame ==
  ASSUME db'.post = db.post, db'.comments = db.comments, db'.hist = db.hist
  PROVE  HistKept /\ \A id : Somewhere(id)' <=> Somewhere(id)
BY DEF HistKept, Somewhere, Present

(* what becomes of a request that stores no text *)
TextCalm(r, n) ==
  /\ BeforeDel(r) => BeforeDel(n)
  /\ ~PastStore(n)
  /\ ~(n.op = "edit" /\ Here(n) = "setpost") /\ ~(n.op = "cedit" /\ Here(n) = "setcomment")
  /\ HoldsPost(n) => n.post.body = n.old.body

(* steps that leave the records alone, some of which answer *)
LEMMA TextRead ==
  ASSUME Types, Types', TextInv, NEW p \in Procs, req' = [req EXCEPT ![p] = req'[p]],
         db'.post = db.post, db'.comments = db.comments, db'.hist = db.hist,
         \A w \in {"post", "comments", "purged"} : w \in stale => w \in stale',
         "purged" \in stale' => "purged" \in stale,
         "purged" \in stale /\ row = None => row' = None,
         TextCalm(req[p], req'[p]),
         \A id \in acked' : id \in acked \/ (PastStore(req[p]) /\ id = req[p].id)
  PROVE  TextInv'
<1>1. HistKept /\ \A id : Somewhere(id)' <=> Somewhere(id)
  BY SomewhereSame
<1>2. Clean' => Clean
  BY DEF Clean
<1>3. \A id \in acked' : id \in acked \/ (Clean' => Somewhere(id)')
  BY <1>1, <1>2 DEF TextInv
<1>4. ArchDone(req[p])'
  BY DEF ArchDone, Here, TextCalm
<1>5. "purged" \in stale => row' = None
  BY DEF TextInv
<1>. HIDE DEF HistKept
<1>. QED BY <1>1, <1>3, <1>4, <1>5, TextStep DEF TextCalm

(* a request that ends *)
LEMMA IdleCalm ==
  ASSUME NEW r, NEW n, n = Idle, ~BeforeDel(r)
  PROVE  TextCalm(r, n)
<1>1. Here(n) = "none" /\ n.op = "idle"
  BY IdleIs
<1>. QED BY <1>1 DEF TextCalm, PastStore, HoldsPost, ArticleOps

(* a request that changes no text *)
LEMMA OtherCalm ==
  ASSUME NEW r, NEW n, n.op \notin ArticleOps, ~PastStore(n), ~BeforeDel(r) \/ BeforeDel(n),
         Here(n) # "setcomment"
  PROVE  TextCalm(r, n)
BY DEF TextCalm, HoldsPost, ArticleOps

(* a request that goes on with what it has read *)
LEMMA SameCalm ==
  ASSUME TextInv, NEW p \in Procs, HoldsPost(req[p]), req'[p].op = req[p].op,
         Here(req'[p]) \in {"archive", "numcross", "setcross"} \/ (Here(req'[p]) = "setpost" /\ req[p].op # "edit"),
         req'[p].post = req[p].post, req'[p].old = req[p].old
  PROVE  TextCalm(req[p], req'[p])
BY DEF TextCalm, TextInv, HoldsPost, PastStore, BeforeDel, ArticleOps

(* a request comes in *)
LEMMA Text_Request ==
  ASSUME Types, Types', TextInv, NEW p \in Procs, Request(p)
  PROVE  TextInv'
<1>1. /\ req' = [req EXCEPT ![p] = req'[p]] /\ req'[p].op \in Ops
      /\ Here(req'[p]) = Begins(req'[p].op) /\ Here(req[p]) = "none"
      /\ Here(req'[p]) \in {"lookup", "choose", "getvote", "delvotes", "getrow", "setmode", "getcomment"}
      /\ UNCHANGED <<db, row, ghosts>>
  BY RequestOK DEF Begins, Ops, CommentOps
<1>2. TextCalm(req[p], req'[p])
  BY <1>1 DEF TextCalm, PastStore, BeforeDel, HoldsPost
<1>. QED BY <1>1, <1>2, TextRead DEF ghosts

(* an editor is shown the article *)
LEMMA Text_Fetch ==
  ASSUME Types, Types', TextInv, NEW p \in Procs, Fetch(p)
  PROVE  TextInv'
<1>1. /\ req' = [req EXCEPT ![p] = req'[p]] /\ req'[p].op = "idle" /\ req[p].op = "idle" /\ Here(req'[p]) = "none"
  BY Go_Fetch, IdleIs
<1>2. TextCalm(req[p], req'[p])
  BY <1>1, OtherCalm DEF PastStore, BeforeDel, ArticleOps, CommentOps
<1>. QED BY <1>1, <1>2, TextRead DEF Fetch, ghosts

(* CreatePost looks for the row *)
LEMMA Text_lookup ==
  ASSUME Types, Types', TextInv, NEW p \in Procs, lookup(p)
  PROVE  TextInv'
<1>1. /\ req' = [req EXCEPT ![p] = req'[p]] /\ req[p].op = "create" /\ req'[p].op = "create"
      /\ Here(req'[p]) \in {"insert", "setnew"}
  BY Go_lookup DEF Same
<1>2. TextCalm(req[p], req'[p])
  BY <1>1, OtherCalm DEF PastStore, BeforeDel, ArticleOps, CommentOps
<1>. QED BY <1>1, <1>2, TextRead DEF lookup, ghosts

(* VotePost reads the last vote *)
LEMMA Text_getvote ==
  ASSUME Types, Types', TextInv, NEW p \in Procs, getvote(p)
  PROVE  TextInv'
<1>1. /\ req' = [req EXCEPT ![p] = req'[p]] /\ req[p].op = "vote"
      /\ req'[p] = Idle \/ (Here(req'[p]) = "setvote" /\ req'[p].op = "vote")
  BY Go_getvote DEF SameButOld
<1>2. TextCalm(req[p], req'[p])
  BY <1>1, OtherCalm, IdleCalm DEF PastStore, BeforeDel, ArticleOps, CommentOps
<1>. QED BY <1>1, <1>2, TextRead DEF getvote, ghosts

(* a comment is read to be changed *)
LEMMA Text_getcomment ==
  ASSUME Types, Types', TextInv, NEW p \in Procs, getcomment(p)
  PROVE  TextInv'
<1>1. /\ req' = [req EXCEPT ![p] = req'[p]] /\ req[p].op \in CommentOps
      /\ \/ req'[p] = Idle
         \/ /\ Here(req'[p]) \in {"setcomment", "nextrev"} /\ req'[p].op = req[p].op
            /\ Here(req'[p]) = "setcomment" => req[p].op = "cundelete"
  BY Go_getcomment DEF SameButOld
<1>2. TextCalm(req[p], req'[p])
  BY <1>1, IdleCalm DEF TextCalm, HoldsPost, PastStore, BeforeDel, ArticleOps, CommentOps
<1>. QED BY <1>1, <1>2, TextRead DEF getcomment, ghosts

(* GetPost reads the row *)
LEMMA Text_getrow ==
  ASSUME Types, Types', TextInv, NEW p \in Procs, getrow(p)
  PROVE  TextInv'
<1>1. /\ req' = [req EXCEPT ![p] = req'[p]] /\ Here(req[p]) = "getrow"
      /\ req'[p] = Idle \/ (Here(req'[p]) = "getbody" /\ req'[p].op = req[p].op)
  BY Go_getrow DEF getrow, At, SameButPost
<1>2. TextCalm(req[p], req'[p])
  BY <1>1, IdleCalm DEF TextCalm, HoldsPost, PastStore, BeforeDel, ArticleOps, CommentOps
<1>. QED BY <1>1, <1>2, TextRead DEF getrow, ghosts

(* GetPost reads the record *)
LEMMA Text_getbody ==
  ASSUME Types, Types', TextInv, NEW p \in Procs, getbody(p)
  PROVE  TextInv'
<1>1. /\ req' = [req EXCEPT ![p] = req'[p]] /\ Here(req[p]) = "getbody" /\ req[p].post \in Post
      /\ \/ req'[p] = Idle
         \/ /\ Here(req'[p]) \in {"nextrev", "setpost", "addcross", "take"} /\ req'[p].op = req[p].op
            /\ (req[p].op = "edit" => Here(req'[p]) = "nextrev")
            /\ req'[p].post = Shown(p) /\ req'[p].old = db.post
  BY Go_getbody DEF getbody, At, SameButPost, ArticleOps
<1>2. TextCalm(req[p], req'[p])
  BY <1>1, IdleCalm DEF TextCalm, HoldsPost, Shown, Post, PastStore, BeforeDel, ArticleOps, CommentOps
<1>. QED BY <1>1, <1>2, TextRead DEF getbody, ghosts

(* the next revision is looked up *)
LEMMA Text_nextrev ==
  ASSUME Types, Types', TextInv, NEW p \in Procs, nextrev(p)
  PROVE  TextInv'
<1>1. /\ req' = [req EXCEPT ![p] = req'[p]] /\ Here(req[p]) = "nextrev" /\ req'[p].op = req[p].op
      /\ Here(req'[p]) = "archive" /\ req'[p].post = req[p].post /\ req'[p].old = req[p].old
  BY Go_nextrev DEF nextrev, At, SameButRev
<1>2. TextCalm(req[p], req'[p])
  BY <1>1, SameCalm, OtherCalm DEF HoldsPost, PastStore, BeforeDel, ArticleOps, CommentOps
<1>. QED BY <1>1, <1>2, TextRead DEF nextrev, ghosts

(* AddCrosspost reads the counter again *)
LEMMA Text_numcross ==
  ASSUME Types, Types', TextInv, NEW p \in Procs, numcross(p)
  PROVE  TextInv'
<1>1. /\ req' = [req EXCEPT ![p] = req'[p]] /\ Here(req[p]) = "numcross" /\ req[p].op = "cross" /\ req'[p].op = "cross"
      /\ Here(req'[p]) = "setcross" /\ req'[p].post = req[p].post /\ req'[p].old = req[p].old
  BY Go_numcross DEF numcross, At, SameButRev
<1>2. TextCalm(req[p], req'[p])
  BY <1>1, SameCalm DEF HoldsPost, ArticleOps
<1>. QED BY <1>1, <1>2, TextRead DEF numcross, ghosts

(* a purge lists what it will delete *)
LEMMA Text_list ==
  ASSUME Types, Types', TextInv, NEW p \in Procs, list(p)
  PROVE  TextInv'
<1>1. /\ req' = [req EXCEPT ![p] = req'[p]] /\ Here(req[p]) = "list" /\ req[p].op = "purge"
      /\ Here(req'[p]) = "forget" /\ req'[p].op = "purge"
  BY Go_list DEF list, At, SameButOld
<1>2. TextCalm(req[p], req'[p])
  BY <1>1, OtherCalm DEF PastStore, BeforeDel, ArticleOps, CommentOps
<1>. QED BY <1>1, <1>2, TextRead DEF list, ghosts

(* AddComment continues the last comment or takes a sequence *)
LEMMA Text_choose ==
  ASSUME Types, Types', TextInv, NEW p \in Procs, choose(p)
  PROVE  TextInv'
<1>1. /\ req' = [req EXCEPT ![p] = req'[p]] /\ req[p].op = "comment" /\ req'[p].op = "comment"
      /\ Here(req'[p]) \in {"setcomment", "newcomment"}
  BY Go_choose
<1>2. TextCalm(req[p], req'[p])
  BY <1>1 DEF TextCalm, HoldsPost, PastStore, BeforeDel, ArticleOps, CommentOps
<1>. QED BY <1>1, <1>2, TextRead DEF choose, ghosts

(* FlushDirtyDeltas takes the deltas *)
LEMMA Text_Flush ==
  ASSUME Types, Types', TextInv, NEW p \in Procs, Flush(p)
  PROVE  TextInv'
<1>1. /\ req' = [req EXCEPT ![p] = req'[p]] /\ req[p].op = "idle" /\ req'[p].op = "flush" /\ Here(req'[p]) = "apply"
  BY Go_Flush, IdleIs
<1>2. TextCalm(req[p], req'[p])
  BY <1>1, OtherCalm DEF PastStore, BeforeDel, ArticleOps, CommentOps
<1>. QED BY <1>1, <1>2, TextRead DEF Flush, ghosts

(* the flush of a purge takes the deltas *)
LEMMA Text_take ==
  ASSUME Types, Types', TextInv, NEW p \in Procs, take(p)
  PROVE  TextInv'
<1>1. /\ req' = [req EXCEPT ![p] = req'[p]] /\ req'[p].op = "purge" /\ Here(req[p]) = "take" /\ Here(req'[p]) = "apply"
  BY Go_take DEF take, At, SameButOld
<1>2. TextCalm(req[p], req'[p])
  BY <1>1, OtherCalm DEF PastStore, BeforeDel, ArticleOps, CommentOps
<1>. QED BY <1>1, <1>2, TextRead DEF take, ghosts

(* the mode that SetPostMeta sets in SQLite *)
LEMMA Text_setmode ==
  ASSUME Types, Types', TextInv, NEW p \in Procs, setmode(p)
  PROVE  TextInv'
<1>0. ReqOK /\ Here(req[p]) = "setmode" /\ Continue(p, req[p])
  BY DEF setmode, At, Types
<1>1. req' = [req EXCEPT ![p] = req'[p]] /\ req'[p].op = "setmeta" /\ Here(req'[p]) = "getrow"
  BY <1>0, Go_setmode DEF Same
<1>2. TextCalm(req[p], req'[p])
  BY <1>0, <1>1, OtherCalm DEF TextCalm, HoldsPost, PastStore, BeforeDel
<1>. QED BY <1>0, <1>1, <1>2, TextRead DEF setmode, InRow, ghosts

(* the counter of crossposts *)
LEMMA Text_addcross ==
  ASSUME Types, Types', TextInv, NEW p \in Procs, addcross(p)
  PROVE  TextInv'
<1>0. ReqOK /\ Here(req[p]) = "addcross" /\ Continue(p, req[p])
  BY DEF addcross, At, Types
<1>1. /\ req' = [req EXCEPT ![p] = req'[p]] /\ req[p].op = "cross" /\ req'[p].op = "cross" /\ Here(req'[p]) = "numcross"
      /\ req'[p].post = req[p].post /\ req'[p].old = req[p].old
  BY <1>0, Go_addcross DEF Same
<1>2. TextCalm(req[p], req'[p])
  BY <1>0, <1>1, SameCalm DEF HoldsPost, ArticleOps
<1>. QED BY <1>0, <1>1, <1>2, TextRead DEF addcross, InRow, ghosts

(* the record of a crosspost *)
LEMMA Text_setcross ==
  ASSUME Types, Types', TextInv, NEW p \in Procs, setcross(p)
  PROVE  TextInv'
<1>0. ReqOK /\ Here(req[p]) = "setcross" /\ Continue(p, req[p])
  BY DEF setcross, At, Types
<1>1. /\ req' = [req EXCEPT ![p] = req'[p]] /\ req[p].op = "cross" /\ req'[p].op = "cross" /\ Here(req'[p]) = "setpost"
      /\ req'[p].post = req[p].post /\ req'[p].old = req[p].old
  BY <1>0, Go_setcross DEF Same
<1>2. TextCalm(req[p], req'[p])
  BY <1>0, <1>1, SameCalm DEF HoldsPost, ArticleOps
<1>3. db'.post = db.post /\ db'.comments = db.comments /\ db'.hist = db.hist
  BY DEF setcross, Types, TypeOK
<1>. QED BY <1>0, <1>1, <1>2, <1>3, TextRead DEF setcross, Stale

(* the vote that VotePost stores *)
LEMMA Text_setvote ==
  ASSUME Types, Types', TextInv, NEW p \in Procs, setvote(p)
  PROVE  TextInv'
<1>0. ReqOK /\ Here(req[p]) = "setvote" /\ Continue(p, req[p])
  BY DEF setvote, At, Types
<1>1. req' = [req EXCEPT ![p] = req'[p]] /\ req'[p].op = "vote" /\ Here(req'[p]) = "count"
  BY <1>0, Go_setvote DEF Same
<1>2. TextCalm(req[p], req'[p])
  BY <1>0, <1>1, OtherCalm DEF PastStore, BeforeDel, ArticleOps, CommentOps
<1>3. db'.post = db.post /\ db'.comments = db.comments /\ db'.hist = db.hist
  BY DEF setvote, Types, TypeOK
<1>. QED BY <1>0, <1>1, <1>2, <1>3, TextRead DEF setvote, Stale

(* the deletion of the votes *)
LEMMA Text_delvotes ==
  ASSUME Types, Types', TextInv, NEW p \in Procs, delvotes(p)
  PROVE  TextInv'
<1>0. ReqOK /\ Here(req[p]) = "delvotes" /\ Continue(p, req[p])
  BY DEF delvotes, At, Types
<1>1. req' = [req EXCEPT ![p] = req'[p]] /\ req'[p].op = "reset" /\ Here(req'[p]) = "zerodirty"
  BY <1>0, Go_delvotes DEF Same
<1>2. TextCalm(req[p], req'[p])
  BY <1>0, <1>1, OtherCalm DEF PastStore, BeforeDel, ArticleOps, CommentOps
<1>3. db'.post = db.post /\ db'.comments = db.comments /\ db'.hist = db.hist
  BY DEF delvotes, Types, TypeOK
<1>. QED BY <1>0, <1>1, <1>2, <1>3, TextRead DEF delvotes, Stale

(* the votes in dirtyDeltas are set to zero *)
LEMMA Text_zerodirty ==
  ASSUME Types, Types', TextInv, NEW p \in Procs, zerodirty(p)
  PROVE  TextInv'
<1>0. ReqOK /\ Here(req[p]) = "zerodirty" /\ Continue(p, req[p])
  BY DEF zerodirty, At, Types
<1>1. req' = [req EXCEPT ![p] = req'[p]] /\ req'[p].op = "reset" /\ Here(req'[p]) = "zerorow"
  BY <1>0, Go_zerodirty DEF Same
<1>2. TextCalm(req[p], req'[p])
  BY <1>0, <1>1, OtherCalm DEF PastStore, BeforeDel, ArticleOps, CommentOps
<1>. QED BY <1>0, <1>1, <1>2, TextRead DEF zerodirty, Stale

(* the votes in SQLite are set to zero *)
LEMMA Text_zerorow ==
  ASSUME Types, Types', TextInv, NEW p \in Procs, zerorow(p)
  PROVE  TextInv'
<1>0. ReqOK /\ Here(req[p]) = "zerorow" /\ Continue(p, req[p])
  BY DEF zerorow, At, Types
<1>1. req' = [req EXCEPT ![p] = req'[p]] /\ req'[p] = Idle
  BY <1>0, Go_zerorow DEF Same
<1>2. TextCalm(req[p], req'[p])
  BY <1>0, <1>1, IdleCalm DEF BeforeDel
<1>. QED BY <1>0, <1>1, <1>2, TextRead DEF zerorow, Stale, InRow

(* a purge empties dirtyDeltas and postSeqs *)
LEMMA Text_forget ==
  ASSUME Types, Types', TextInv, NEW p \in Procs, forget(p)
  PROVE  TextInv'
<1>0. ReqOK /\ Here(req[p]) = "forget" /\ Continue(p, req[p])
  BY DEF forget, At, Types
<1>1. req' = [req EXCEPT ![p] = req'[p]] /\ req'[p].op = "purge" /\ Here(req'[p]) = "delpost"
  BY <1>0, Go_forget DEF Same
<1>2. TextCalm(req[p], req'[p])
  BY <1>0, <1>1, OtherCalm DEF PastStore, BeforeDel, ArticleOps, CommentOps
<1>. QED BY <1>0, <1>1, <1>2, TextRead DEF forget, ghosts

(* the registration in dirtyDeltas *)
LEMMA Text_count ==
  ASSUME Types, Types', TextInv, NEW p \in Procs, count(p)
  PROVE  TextInv'
<1>0. ReqOK /\ Here(req[p]) = "count" /\ Continue(p, req[p])
  BY DEF count, At, Types
<1>1. req' = [req EXCEPT ![p] = req'[p]] /\ req[p].op \in {"comment", "vote"} /\ req'[p] = Idle
  BY <1>0, Go_count DEF Same
<1>2. TextCalm(req[p], req'[p])
  BY <1>0, <1>1, IdleCalm DEF BeforeDel
<1>. QED BY <1>0, <1>1, <1>2, TextRead DEF count, Answer, PastStore

(* the new time of the article after UpdateComment *)
LEMMA Text_touch ==
  ASSUME Types, Types', TextInv, NEW p \in Procs, touch(p)
  PROVE  TextInv'
<1>0. ReqOK /\ Here(req[p]) = "touch" /\ Continue(p, req[p])
  BY DEF touch, At, Types
<1>1. req' = [req EXCEPT ![p] = req'[p]] /\ req[p].op = "cedit" /\ req'[p] = Idle
  BY <1>0, Go_touch DEF Same
<1>2. TextCalm(req[p], req'[p])
  BY <1>0, <1>1, IdleCalm DEF BeforeDel
<1>. QED BY <1>0, <1>1, <1>2, TextRead DEF touch, Answer, PastStore, Stale, InRow

(* the UPDATE at the end of a change *)
LEMMA Text_setrow ==
  ASSUME Types, Types', TextInv, NEW p \in Procs, setrow(p)
  PROVE  TextInv'
<1>0. ReqOK /\ Here(req[p]) = "setrow" /\ Continue(p, req[p])
  BY DEF setrow, At, Types
<1>1. req' = [req EXCEPT ![p] = req'[p]] /\ req[p].op \in {"edit", "title", "delete", "undelete"} /\ req'[p] = Idle
  BY <1>0, Go_setrow DEF Same
<1>2. TextCalm(req[p], req'[p])
  BY <1>0, <1>1, IdleCalm DEF BeforeDel
<1>. QED BY <1>0, <1>1, <1>2, TextRead DEF setrow, Answer, PastStore, Stale, InRow

(* the INSERT of CreatePost *)
LEMMA Text_insert ==
  ASSUME Types, Types', TextInv, NEW p \in Procs, insert(p)
  PROVE  TextInv'
<1>0. ReqOK /\ Here(req[p]) = "insert" /\ (Continue(p, req[p]) \/ Refuse(p))
  BY DEF insert, At, Types
<1>1. /\ req' = [req EXCEPT ![p] = req'[p]]
      /\ req'[p] = Idle \/ (req'[p].op = "create" /\ Here(req'[p]) = "setnew")
  BY <1>0, Go_insert, RefuseOK DEF Same, Ends
<1>2. TextCalm(req[p], req'[p])
  BY <1>0, <1>1, OtherCalm, IdleCalm DEF PastStore, BeforeDel, ArticleOps
<1>. QED BY <1>0, <1>1, <1>2, TextRead DEF insert, ghosts

(* a flush is applied or fails *)
LEMMA Text_applied ==
  ASSUME Types, Types', TextInv, NEW p \in Procs, apply(p) \/ ApplyFails(p)
  PROVE  TextInv'
<1>0. /\ ReqOK /\ Here(req[p]) = "apply" /\ Continue(p, req[p]) /\ UNCHANGED <<db, stale, acked>>
      /\ row = None => row' = None
  BY DEF apply, ApplyFails, At, Types, InRow, ghosts
<1>1. /\ req' = [req EXCEPT ![p] = req'[p]]
      /\ req'[p] = Idle \/ (req'[p].op = "purge" /\ Here(req'[p]) = "delrow")
  BY <1>0, Go_apply DEF Same
<1>2. TextCalm(req[p], req'[p])
  BY <1>0, <1>1, OtherCalm, IdleCalm DEF PastStore, BeforeDel, ArticleOps
<1>. QED BY <1>0, <1>1, <1>2, TextRead

-----------------------------------------------------------------------------
(* steps that write records *)

(* the record that CreatePost stores *)
LEMMA Text_setnew ==
  ASSUME Types, Types', TextInv, NEW p \in Procs, setnew(p)
  PROVE  TextInv'
<1>0. /\ ReqOK /\ Here(req[p]) = "setnew" /\ Continue(p, req[p]) /\ UNCHANGED <<row, acked>>
      /\ Stale({"post"}, row # NewRow \/ db.post \notin {None, NewPost})
  BY DEF setnew, At, Types
<1>1. req' = [req EXCEPT ![p] = req'[p]] /\ req'[p] = Idle
  BY <1>0, Go_setnew
<1>2. TextCalm(req[p], req'[p])
  BY <1>0, <1>1, IdleCalm DEF BeforeDel
<1>3. /\ db'.post = NewPost /\ db'.comments = db.comments /\ db'.hist = db.hist
  BY DEF setnew, Types, TypeOK
<1>4. NewPost # None /\ NewRow # None
  BY NewOK, NoneAssumption
<1>5. "post" \notin stale' => row # None /\ db.post \in {None, NewPost}
  BY <1>0, <1>4 DEF Stale
<1>6. "post" \notin stale' => HistKept /\ \A id : Somewhere(id) => Somewhere(id)'
  BY <1>3, <1>4, <1>5 DEF HistKept, Somewhere, Present
<1>7. ArchDone(req[p])'
  BY <1>2 DEF TextCalm, ArchDone, Here
<1>8. Clean' => "post" \notin stale'
  BY DEF Clean
<1>9. "purged" \in stale => row = None
  BY DEF TextInv
<1>. HIDE DEF HistKept
<1>. QED BY <1>0, <1>1, <1>2, <1>3, <1>5, <1>6, <1>7, <1>8, <1>9, TextStep DEF TextCalm, Stale

(* a record is made from the file of the board *)
LEMMA Text_import ==
  ASSUME Types, Types', TextInv, NEW p \in Procs, import(p)
  PROVE  TextInv'
<1>0. /\ ReqOK /\ Here(req[p]) = "getbody" /\ UNCHANGED <<row, acked>> /\ req'[p] = req[p]
      /\ req' = [req EXCEPT ![p] = req'[p]] /\ stale' = stale \cup {"post"}
  BY DEF import, At, Types, ReqOK, Stale
<1>1. ~Clean'
  BY <1>0 DEF Clean
<1>2. "purged" \in stale => row = None
  BY DEF TextInv
<1>3. ~BeforeDel(req[p]) /\ ~HoldsPost(req'[p])
  BY <1>0 DEF BeforeDel, HoldsPost
<1>. QED BY <1>0, <1>1, <1>2, <1>3, TextStep

(* the old text is archived *)
LEMMA Text_archive ==
  ASSUME Types, Types', TextInv, NEW p \in Procs, archive(p)
  PROVE  TextInv'
<1>. DEFINE r == req[p]  o == req[p].seq  h == db.hist[o]  text == ArchivedText(r)
<1>0. /\ ReqOK /\ Here(r) = "archive" /\ UNCHANGED <<row, acked>>
      /\ Stale({"post", "comments"}, row = None \/ (r.rev <= Len(h) /\ h[r.rev] # text))
  BY DEF archive, At, Types, ArchivedText
<1>1. /\ req' = [req EXCEPT ![p] = req'[p]] /\ r.op \in {"edit", "title", "delete", "cedit", "cdelete"}
      /\ Here(req'[p]) = CASE r.op \in {"edit", "delete"} -> "setpost"
                              [] r.op = "title" -> "setrow"
                              [] OTHER -> "setcomment"
      /\ req'[p].op = r.op /\ req'[p].post = r.post /\ req'[p].old = r.old /\ req'[p].seq = o
  BY Go_archive DEF SameButAt
<1>2. /\ r.rev \in Nat /\ r.rev # 0 /\ o \in {0} \cup Seqs /\ h \in Seq(SUBSET Ids)
      /\ text \in SUBSET Ids
  BY <1>0, ArchiveOK DEF ReqOK, Req, Knows, Types, TypeOK
<1>3. /\ db'.post = db.post /\ db'.comments = db.comments
      /\ db'.hist = [db.hist EXCEPT ![o] = IF r.rev > Len(h) THEN Append(h, text)
                                           ELSE [h EXCEPT ![r.rev] = text]]
      /\ db.hist \in [{0} \cup Seqs -> Seq(SUBSET Ids)]
  <2>1. db \in [post : Post \cup {None}, comments : [Seqs -> Comment \cup {None}],
            votes : [Users -> Votes], hist : [{0} \cup Seqs -> Seq(SUBSET Ids)],
            xposts : {X \in SUBSET Nat : IsFiniteSet(X)}]
    BY DEF Types, TypeOK
  <2>2. db' = [db EXCEPT !.hist = [db.hist EXCEPT ![o] = IF r.rev > Len(h) THEN Append(h, text)
                                           ELSE [h EXCEPT ![r.rev] = text]]]
    BY <1>2, <2>1, ArchiveOK
  <2>. HIDE DEF h, text
  <2>. QED BY <2>1, <2>2
<1>. HIDE DEF h, text
<1>4. ASSUME "post" \notin stale'
      PROVE  /\ \A i \in DOMAIN h : i \in DOMAIN db'.hist[o] /\ db'.hist[o][i] = h[i]
             /\ \E i \in DOMAIN db'.hist[o] : db'.hist[o][i] = text
  <2>1. CASE r.rev > Len(h)
    <3>1. db'.hist[o] = Append(h, text)
      BY <1>2, <1>3, <2>1
    <3>2. /\ DOMAIN Append(h, text) = 1 .. Len(h) + 1 /\ DOMAIN h = 1 .. Len(h)
          /\ \A i \in 1 .. Len(h) : Append(h, text)[i] = h[i]
          /\ Append(h, text)[Len(h) + 1] = text /\ Len(h) \in Nat
      BY <1>2
    <3>. QED BY <3>1, <3>2
  <2>2. CASE ~(r.rev > Len(h))
    <3>1. h[r.rev] = text /\ r.rev \in 1 .. Len(h) /\ DOMAIN h = 1 .. Len(h)
      BY <1>0, <1>2, <1>4, <2>2 DEF Stale
    <3>2. db'.hist[o] = [h EXCEPT ![r.rev] = text]
      BY <1>2, <1>3, <2>2
    <3>3. db'.hist[o] = h
      BY <1>2, <3>1, <3>2
    <3>. QED BY <3>1, <3>3
  <2>. QED BY <2>1, <2>2
<1>5. "post" \notin stale' => HistKept
  <2>1. \A x \in {0} \cup Seqs : x # o => db'.hist[x] = db.hist[x]
    BY <1>3
  <2>. QED BY <1>4, <2>1 DEF HistKept, h
<1>6. ASSUME "post" \notin stale', NEW id, Somewhere(id) PROVE Somewhere(id)'
  <2>1. DOMAIN db'.hist = {0} \cup Seqs /\ DOMAIN db.hist = {0} \cup Seqs
    BY <1>3
  <2>2. HistKept
    BY <1>5, <1>6
  <2>. QED BY <1>3, <1>6, <2>1, <2>2 DEF Somewhere, HistKept, Present
<1>7. "post" \notin stale' => ArchDone(req[p])'
  <2>. SUFFICES ASSUME "post" \notin stale' PROVE ArchDone(req[p])'
    OBVIOUS
  <2>1. \E i \in DOMAIN db'.hist[o] : db'.hist[o][i] = text
    BY <1>4
  <2>2. r.op = "edit" => text = {r.post.body} /\ o = 0
    <3>1. r.op = "edit" => r.post \in Post /\ o = 0
      BY <1>0 DEF ReqOK, Knows, HoldsPost, ArticleOps
    <3>. QED BY <3>1, NoneAssumption DEF text, ArchivedText
  <2>3. r.op = "cedit" => text = r.old.text
    BY <1>0 DEF ReqOK, Knows, CommentOps, text, ArchivedText
  <2>. QED BY <1>1, <2>1, <2>2, <2>3 DEF ArchDone, InHist, Here
<1>8. Clean' => "post" \notin stale'
  BY DEF Clean
<1>9. /\ "purged" \in stale => row = None
      /\ HoldsPost(req'[p]) => req'[p].post.body = req'[p].old.body
  BY <1>0, <1>1 DEF TextInv, HoldsPost, ArticleOps
<1>10. ~PastStore(req'[p]) /\ ~BeforeDel(req[p])
  BY <1>0, <1>1 DEF PastStore, BeforeDel
<1>. HIDE DEF HistKept, o, r
<1>. QED BY <1>0, <1>1, <1>3, <1>5, <1>6, <1>7, <1>8, <1>9, <1>10, TextStep DEF Stale, r

(* an edit writes over a text that is in the history *)
LEMMA Text_setpost ==
  ASSUME Types, Types', TextInv, NEW p \in Procs, setpost(p)
  PROVE  TextInv'
<1>. DEFINE r == req[p]
<1>0. /\ ReqOK /\ Here(r) = "setpost" /\ UNCHANGED row /\ Answer(p)
      /\ \A w \in {"post", "comments", "purged"} : w \in stale => w \in stale'
      /\ "purged" \in stale' => "purged" \in stale
      /\ "post" \notin stale' => row # None /\ db.post = r.old
  BY DEF setpost, At, Types, Overtaken
<1>1. /\ req' = [req EXCEPT ![p] = req'[p]]
      /\ \/ r.op \in {"setmeta", "cross"} /\ req'[p] = Idle
         \/ /\ r.op \in {"edit", "delete", "undelete"} /\ Here(req'[p]) = "setrow"
            /\ req'[p].op = r.op /\ req'[p].post = r.post /\ req'[p].old = r.old
            /\ req'[p].id = r.id
  BY Go_setpost DEF SameButAt
<1>2. /\ r.op \in {"edit", "delete", "undelete", "setmeta", "cross"}
      /\ r.post \in Post /\ r.old \in Post /\ Record(r) \in Post
  BY <1>0, RecordOK
<1>3. Record(r).body = IF r.op = "edit" THEN r.id ELSE r.post.body
  BY <1>2 DEF Record, Post
<1>4. /\ db'.post = Record(r) /\ db'.comments = db.comments /\ db'.hist = db.hist /\ db'.post # None
      /\ DOMAIN db.hist = {0} \cup Seqs
  BY <1>2, NoneAssumption DEF setpost, Types, TypeOK
<1>5. r.post.body = r.old.body
  BY <1>0, <1>2 DEF TextInv, HoldsPost, ArticleOps
<1>6. Clean' => Clean /\ "post" \notin stale'
  BY <1>0 DEF Clean
<1>7. HistKept
  BY <1>4 DEF HistKept
<1>8. ASSUME Clean', NEW id, Somewhere(id) PROVE Somewhere(id)'
  <2>1. CASE db.post # None /\ db.post.body = id
    <3>1. id = r.post.body
      BY <1>0, <1>5, <1>6, <1>8, <2>1
    <3>2. CASE r.op # "edit"
      BY <1>3, <1>4, <3>1, <3>2 DEF Somewhere
    <3>3. CASE r.op = "edit"
      <4>1. InHist(0, {id})
        BY <1>0, <1>6, <1>8, <3>1, <3>3 DEF TextInv, ArchDone
      <4>2. PICK i \in DOMAIN db'.hist[0] : id \in db'.hist[0][i]
        BY <1>4, <4>1 DEF InHist
      <4>. QED BY <1>4, <4>2 DEF Somewhere
    <3>. QED BY <3>2, <3>3
  <2>2. CASE \E s \in Present(db.comments) : id \in db.comments[s].text
    BY <1>4, <2>2 DEF Somewhere, Present
  <2>3. CASE \E o \in DOMAIN db.hist : \E i \in DOMAIN db.hist[o] : id \in db.hist[o][i]
    BY <1>4, <2>3 DEF Somewhere
  <2>. QED BY <1>8, <2>1, <2>2, <2>3 DEF Somewhere
<1>9. r.op = "edit" => \A id : id = r.id => Somewhere(id)'
  BY <1>3, <1>4 DEF Somewhere
<1>10. \A id \in acked' : id \in acked \/ Somewhere(id)'
  BY <1>2, <1>9, <1>0 DEF Answer
<1>11. PastStore(req'[p]) => Somewhere(req[p].id)'
  <2>1. PastStore(req'[p]) => r.op = "edit" /\ req'[p].id = r.id
    BY <1>1, IdleIs DEF PastStore
  <2>. QED BY <1>9, <2>1
<1>12. ArchDone(req[p])'
  BY <1>1, IdleIs DEF ArchDone, Here
<1>13. HoldsPost(req'[p]) => req'[p].post.body = req'[p].old.body
  BY <1>1, <1>5, IdleIs DEF HoldsPost
<1>14. /\ ~BeforeDel(r)
       /\ "purged" \in stale => row' = None
       /\ "purged" \in stale => "post" \in stale'
  BY <1>0 DEF BeforeDel, TextInv
<1>. HIDE DEF HistKept, r
<1>. QED BY <1>0, <1>1, <1>4, <1>7, <1>8, <1>10, <1>11, <1>12, <1>13, <1>14, TextStep DEF r

(* the comment that AddComment stores *)
LEMMA Text_newcomment ==
  ASSUME Types, Types', PostInv, TextInv, NEW p \in Procs, newcomment(p)
  PROVE  TextInv'
<1>. DEFINE r == req[p]  s == req[p].seq
            c == [by |-> req[p].user, text |-> {req[p].id}, del |-> FALSE, mod |-> 0]
<1>0. /\ ReqOK /\ Here(r) = "newcomment" /\ Continue(p, req[p]) /\ UNCHANGED <<row, acked>>
      /\ Stale({"comments"}, row = None)
  BY DEF newcomment, At, Types
<1>1. /\ req' = [req EXCEPT ![p] = req'[p]] /\ Here(req'[p]) = "count" /\ req'[p].op = "comment"
      /\ req'[p].id = r.id /\ r.op = "comment"
  BY <1>0, Go_newcomment DEF Same
<1>2. s \in Seqs /\ c # None
  <2>1. s \in Seqs /\ req[p].user \in Users /\ req[p].id \in Ids
    BY <1>0, <1>1 DEF ReqOK, Knows, Req
  <2>2. c \in Comment
    BY <2>1 DEF Comment, Times
  <2>. QED BY <2>1, <2>2, NoneAssumption
<1>3. /\ db'.post = db.post /\ db'.hist = db.hist /\ db'.comments = [db.comments EXCEPT ![s] = c]
      /\ db.comments \in [Seqs -> Comment \cup {None}] /\ c.text = {r.id}
  BY DEF newcomment, Types, TypeOK
<1>. HIDE DEF c
<1>4. row # None => db.comments[s] = None
  BY <1>0 DEF PostInv, SeqInv
<1>5. Clean' => row # None
  BY <1>0 DEF Clean, Stale
<1>6. HistKept
  BY <1>3 DEF HistKept
<1>7. \A id : id = r.id => Somewhere(id)'
  BY <1>2, <1>3 DEF Somewhere, Present
<1>8. ASSUME Clean', NEW id, Somewhere(id) PROVE Somewhere(id)'
  <2>1. db.comments[s] = None
    BY <1>4, <1>5, <1>8
  <2>2. \A x \in Present(db.comments) : x \in Present(db'.comments) /\ db'.comments[x] = db.comments[x]
    BY <1>2, <1>3, <2>1 DEF Present
  <2>. QED BY <1>3, <1>8, <2>2 DEF Somewhere, Present
<1>9. PastStore(req'[p]) => Somewhere(req[p].id)'
  BY <1>1, <1>7
<1>10. ArchDone(req[p])' /\ ~HoldsPost(req'[p]) /\ ~BeforeDel(req[p])
  BY <1>0, <1>1 DEF ArchDone, Here, HoldsPost, BeforeDel, ArticleOps
<1>11. "purged" \in stale => row = None
  BY DEF TextInv
<1>. HIDE DEF HistKept, r, s
<1>. QED BY <1>0, <1>1, <1>3, <1>6, <1>8, <1>9, <1>10, <1>11, TextStep DEF Stale

(* a comment that is stored again *)
LEMMA Text_setcomment ==
  ASSUME Types, Types', TextInv, NEW p \in Procs, setcomment(p)
  PROVE  TextInv'
<1>. DEFINE r == req[p]  s == req[p].seq  c == Changed(req[p])
<1>0. /\ ReqOK /\ Here(r) = "setcomment" /\ Continue(p, req[p]) /\ UNCHANGED row /\ Answer(p)
      /\ Stale({"comments"}, db.comments[s] # r.old)
  BY DEF setcomment, At, Types
<1>1. /\ req' = [req EXCEPT ![p] = req'[p]]
      /\ \/ r.op \in {"comment", "cdelete", "cundelete"} /\ req'[p] = Idle
         \/ /\ r.op = "cedit" /\ Here(req'[p]) = "touch" /\ req'[p].op = "cedit"
            /\ req'[p].id = r.id
  BY <1>0, Go_setcomment DEF Same
<1>2. r.old \in Comment /\ s \in Seqs /\ r.id \in Ids /\ r.at \in Times
  <2>1. HoldsComment(r) /\ r \in Req /\ Knows(r)
    BY <1>0, <1>1 DEF ReqOK, HoldsComment
  <2>. QED BY <2>1 DEF Knows, Req
<1>3. /\ c \in Comment /\ c # None
      /\ c.text = CASE r.op = "comment" -> r.old.text \cup {r.id}
                    [] r.op = "cedit" -> {r.id}
                    [] OTHER -> r.old.text
  <2>1. /\ c \in Comment
        /\ c.text = CASE r.op = "comment" -> r.old.text \cup {r.id}
                      [] r.op = "cedit" -> {r.id}
                      [] OTHER -> r.old.text
    <3>1. CASE r.op = "comment"
      BY <1>2, <3>1 DEF Changed, Comment
    <3>2. CASE r.op = "cedit"
      BY <1>2, <3>2 DEF Changed, Comment
    <3>3. CASE r.op \in {"cdelete", "cundelete"}
      BY <1>2, <3>3 DEF Changed, Comment
    <3>. QED BY <1>1, <3>1, <3>2, <3>3
  <2>. QED BY <2>1, NoneAssumption
<1>4. /\ db'.post = db.post /\ db'.hist = db.hist /\ db'.comments = [db.comments EXCEPT ![s] = c]
      /\ db.comments \in [Seqs -> Comment \cup {None}] /\ DOMAIN db.hist = {0} \cup Seqs
  BY DEF setcomment, Types, TypeOK
<1>. HIDE DEF c
<1>5. Clean' => Clean /\ db.comments[s] = r.old
  BY <1>0 DEF Clean, Stale
<1>6. HistKept
  BY <1>4 DEF HistKept
<1>7. s \in Present(db'.comments) /\ db'.comments[s] = c
  BY <1>2, <1>3, <1>4 DEF Present
<1>8. r.op \in {"comment", "cedit"} => \A id : id = r.id => Somewhere(id)'
  BY <1>3, <1>7 DEF Somewhere, Present
<1>9. ASSUME Clean', NEW id, Somewhere(id) PROVE Somewhere(id)'
  <2>1. CASE db.post # None /\ db.post.body = id
    BY <1>4, <2>1 DEF Somewhere
  <2>2. CASE \E o \in DOMAIN db.hist : \E i \in DOMAIN db.hist[o] : id \in db.hist[o][i]
    BY <1>4, <2>2 DEF Somewhere
  <2>3. ASSUME NEW x \in Present(db.comments), id \in db.comments[x].text PROVE Somewhere(id)'
    <3>1. CASE x # s
      <4>1. x \in Present(db'.comments) /\ db'.comments[x] = db.comments[x]
        BY <1>4, <3>1 DEF Present
      <4>. QED BY <2>3, <4>1 DEF Somewhere, Present
    <3>2. CASE x = s
      <4>1. id \in r.old.text
        BY <1>5, <1>9, <2>3, <3>2
      <4>2. CASE r.op # "cedit"
        <5>1. id \in c.text
          BY <1>1, <1>3, <4>1, <4>2
        <5>. QED BY <1>7, <5>1 DEF Somewhere, Present
      <4>3. CASE r.op = "cedit"
        <5>1. InHist(s, r.old.text)
          BY <1>0, <1>5, <1>9, <4>3 DEF TextInv, ArchDone
        <5>2. PICK i \in DOMAIN db'.hist[s] : id \in db'.hist[s][i]
          BY <1>4, <4>1, <5>1 DEF InHist
        <5>3. s \in DOMAIN db'.hist
          BY <1>2, <1>4
        <5>. QED BY <5>2, <5>3 DEF Somewhere
      <4>. QED BY <4>2, <4>3
    <3>. QED BY <3>1, <3>2
  <2>. QED BY <1>9, <2>1, <2>2, <2>3 DEF Somewhere
<1>10. \A id \in acked' : id \in acked \/ Somewhere(id)'
  BY <1>0, <1>1, <1>8 DEF Answer
<1>11. PastStore(req'[p]) => Somewhere(req[p].id)'
  <2>1. PastStore(req'[p]) => r.op = "cedit" /\ req'[p].id = r.id
    BY <1>1, IdleIs DEF PastStore
  <2>. QED BY <1>8, <2>1
<1>12. ArchDone(req[p])' /\ ~HoldsPost(req'[p])
  BY <1>1, IdleIs DEF ArchDone, Here, HoldsPost, ArticleOps
<1>13. /\ ~BeforeDel(r)
       /\ "purged" \in stale => row' = None
  BY <1>0 DEF BeforeDel, TextInv
<1>. HIDE DEF HistKept, r, s
<1>. QED BY <1>0, <1>1, <1>4, <1>6, <1>9, <1>10, <1>11, <1>12, <1>13, TextStep DEF r, Stale

(* a purge deletes the record *)
LEMMA Text_delpost ==
  ASSUME Types, Types', PostInv, TextInv, NEW p \in Procs, delpost(p)
  PROVE  TextInv'
<1>1. /\ ReqOK /\ Here(req[p]) = "delpost" /\ Continue(p, req[p]) /\ UNCHANGED <<row, stale, acked>>
      /\ db'.post = None
  BY DEF delpost, At, Types, TypeOK, ghosts
<1>2. req' = [req EXCEPT ![p] = req'[p]] /\ req[p].op = "purge" /\ Here(req'[p]) = "delcomments" /\ req'[p].op = "purge"
  BY <1>1, Go_delpost DEF Same
<1>3. row = None /\ ~Clean'
  BY <1>1, <1>2 DEF PostInv, RowGone, Clean
<1>4. ~HoldsPost(req'[p])
  BY <1>2 DEF HoldsPost, ArticleOps
<1>. QED BY <1>1, <1>2, <1>3, <1>4, TextStep

(* a purge deletes the comments *)
LEMMA Text_delcomments ==
  ASSUME Types, Types', PostInv, TextInv, NEW p \in Procs, delcomments(p)
  PROVE  TextInv'
<1>1. /\ ReqOK /\ Here(req[p]) = "delcomments" /\ Continue(p, req[p]) /\ UNCHANGED <<row, stale, acked>>
      /\ db'.post = db.post
  BY DEF delcomments, At, Types, TypeOK, ghosts
<1>2. req' = [req EXCEPT ![p] = req'[p]] /\ req[p].op = "purge" /\ Here(req'[p]) = "dropvotes" /\ req'[p].op = "purge"
  BY <1>1, Go_delcomments DEF Same
<1>3. row = None /\ ~Clean'
  BY <1>1, <1>2 DEF PostInv, RowGone, Clean
<1>4. ~HoldsPost(req'[p]) /\ ~BeforeDel(req[p])
  BY <1>1, <1>2, IdleIs DEF HoldsPost, ArticleOps, BeforeDel
<1>. QED BY <1>1, <1>2, <1>3, <1>4, TextStep

(* a purge deletes the votes *)
LEMMA Text_dropvotes ==
  ASSUME Types, Types', PostInv, TextInv, NEW p \in Procs, dropvotes(p)
  PROVE  TextInv'
<1>1. /\ ReqOK /\ Here(req[p]) = "dropvotes" /\ Continue(p, req[p]) /\ UNCHANGED <<row, stale, acked>>
      /\ db'.post = db.post
  BY DEF dropvotes, At, Types, TypeOK, ghosts
<1>2. req' = [req EXCEPT ![p] = req'[p]] /\ req[p].op = "purge" /\ Here(req'[p]) = "delhist" /\ req'[p].op = "purge"
  BY <1>1, Go_dropvotes DEF Same
<1>3. row = None /\ ~Clean'
  BY <1>1, <1>2 DEF PostInv, RowGone, Clean
<1>4. ~HoldsPost(req'[p]) /\ ~BeforeDel(req[p])
  BY <1>1, <1>2, IdleIs DEF HoldsPost, ArticleOps, BeforeDel
<1>. QED BY <1>1, <1>2, <1>3, <1>4, TextStep

(* a purge deletes the history *)
LEMMA Text_delhist ==
  ASSUME Types, Types', PostInv, TextInv, NEW p \in Procs, delhist(p)
  PROVE  TextInv'
<1>1. /\ ReqOK /\ Here(req[p]) = "delhist" /\ Continue(p, req[p]) /\ UNCHANGED <<row, stale, acked>>
      /\ db'.post = db.post
  BY DEF delhist, At, Types, TypeOK, ghosts
<1>2. req' = [req EXCEPT ![p] = req'[p]] /\ req[p].op = "purge" /\ req'[p] = Idle
  BY <1>1, Go_delhist
<1>3. row = None /\ ~Clean'
  BY <1>1, <1>2 DEF PostInv, RowGone, Clean
<1>4. ~HoldsPost(req'[p]) /\ ~BeforeDel(req[p])
  BY <1>1, <1>2, IdleIs DEF HoldsPost, ArticleOps, BeforeDel
<1>. QED BY <1>1, <1>2, <1>3, <1>4, TextStep

(* the row is deleted first: from here on the record is doomed *)
LEMMA Text_delrow ==
  ASSUME Types, Types', TextInv, NEW p \in Procs, delrow(p)
  PROVE  TextInv'
<1>1. /\ ReqOK /\ Here(req[p]) = "delrow" /\ Continue(p, req[p]) /\ row' = None /\ "purged" \in stale'
  BY DEF delrow, At, Types, Stale
<1>2. req' = [req EXCEPT ![p] = req'[p]] /\ req[p].op = "purge" /\ Here(req'[p]) = "list" /\ req'[p].op = "purge"
  BY <1>1, Go_delrow DEF Same
<1>3. BeforeDel(req[p])' /\ ~Clean'
  BY <1>1, <1>2 DEF BeforeDel, Here, Clean
<1>4. \A q \in Procs : HoldsPost(req[q])' => req'[q].post.body = req'[q].old.body
  <2>1. \A q \in Procs : q # p => req'[q] = req[q]
    BY <1>1, <1>2 DEF ReqOK
  <2>2. ~HoldsPost(req[p])'
    BY <1>2 DEF HoldsPost, ArticleOps, Here
  <2>3. ASSUME NEW q \in Procs, q # p, HoldsPost(req[q])' PROVE req'[q].post.body = req'[q].old.body
    BY <2>1, <2>3 DEF HoldsPost, Here, TextInv
  <2>. QED BY <2>2, <2>3
<1>. QED BY <1>1, <1>3, <1>4 DEF TextInv

(* an idle goroutine stores nothing *)
LEMMA IdleText ==
  ASSUME NEW r, r = Idle
  PROVE  ~HoldsPost(r) /\ ~PastStore(r) /\ ArchDone(r) /\ ~BeforeDel(r)
BY IdleIs DEF HoldsPost, PastStore, ArchDone, BeforeDel, ArticleOps

(* the process dies *)
LEMMA Text_Crash ==
  ASSUME Types, Types', PostInv, TextInv, Crash
  PROVE  TextInv'
<1>1. /\ UNCHANGED <<db, row, acked>> /\ \A q \in Procs : req'[q] = Idle
      /\ Stale({"comments"}, row = None /\ \E p \in Procs : req[p].op = "purge")
  BY DEF Crash
<1>2. \A q \in Procs : /\ ~HoldsPost(req[q])' /\ ~PastStore(req[q])' /\ ArchDone(req[q])'
  <2>1. \A q \in Procs : Here(req[q])' = "none" /\ req'[q].op = "idle"
    BY <1>1, IdleIs DEF Here
  <2>. QED BY <2>1 DEF HoldsPost, PastStore, ArchDone, ArticleOps
<1>3. Clean' => Clean
  BY <1>1 DEF Clean, Stale
<1>4. \A id : Somewhere(id)' <=> Somewhere(id)
  BY <1>1, SomewhereSame
<1>5. "purged" \in stale' => "purged" \in stale /\ row = None
  BY <1>1 DEF TextInv, Stale
<1>6. "purged" \in stale' /\ {"post", "comments"} \cap stale' = {} => db'.post = None
  BY <1>1, <1>5 DEF TextInv, Stale, BeforeDel
<1>. QED BY <1>1, <1>2, <1>3, <1>4, <1>5, <1>6 DEF TextInv

(* SQLite is rebuilt *)
LEMMA Text_Rebuild ==
  ASSUME Types, Types', PostInv, TextInv, RebuildSQLiteFromPebble
  PROVE  TextInv'
<1>1. /\ UNCHANGED <<db, req, acked>> /\ row' = Rebuilt
      /\ stale' = IF Rebuilt = None THEN stale ELSE stale \ {"title", "votes", "clock", "purged"}
      /\ \A q \in Procs : req[q] = Idle
  BY DEF RebuildSQLiteFromPebble, PostInv, Asleep
<1>2. \A q \in Procs : /\ ~HoldsPost(req[q])' /\ ~PastStore(req[q])' /\ ArchDone(req[q])' /\ ~BeforeDel(req[q])
  <2>1. \A q \in Procs : Here(req[q])' = "none" /\ req'[q].op = "idle" /\ req[q].op = "idle"
    BY <1>1, IdleIs DEF Here
  <2>. QED BY <2>1 DEF HoldsPost, PastStore, ArchDone, ArticleOps, BeforeDel
<1>3. "purged" \in stale /\ {"post", "comments"} \cap stale = {} => Rebuilt = None
  BY <1>2, RebuiltOK DEF TextInv
<1>4. Clean' => Clean
  BY <1>1, <1>3 DEF Clean
<1>5. \A id : Somewhere(id)' <=> Somewhere(id)
  BY <1>1, SomewhereSame
<1>6. /\ "purged" \in stale' => row' = None
      /\ "purged" \in stale' /\ {"post", "comments"} \cap stale' = {} => db'.post = None
  BY <1>1, <1>2 DEF TextInv
<1>. QED BY <1>1, <1>2, <1>4, <1>5, <1>6 DEF TextInv

(* the clock and a restart *)
LEMMA TextSame ==
  ASSUME TextInv, UNCHANGED <<db, row, req, stale, acked>>
  PROVE  TextInv'
<1>1. /\ \A id : Somewhere(id)' <=> Somewhere(id)
      /\ Clean' <=> Clean
  BY SomewhereSame DEF Clean
<1>2. ASSUME NEW q \in Procs
      PROVE  /\ HoldsPost(req[q])' <=> HoldsPost(req[q])
             /\ PastStore(req[q])' <=> PastStore(req[q])
             /\ ArchDone(req[q])' <=> ArchDone(req[q])
             /\ BeforeDel(req[q])' <=> BeforeDel(req[q])
             /\ Somewhere(req[q].id)' <=> Somewhere(req[q].id)
  BY <1>1 DEF HoldsPost, PastStore, ArchDone, BeforeDel, InHist, Here, Somewhere, Present
<1>. QED BY <1>1, <1>2 DEF TextInv

(* nothing is acknowledged at the start *)
LEMMA InitText ==
  ASSUME Init
  PROVE  TextInv
<1>1. acked = {} /\ stale = {} /\ \A q \in Procs : req[q] = Idle
  BY DEF Init
<1>. QED BY <1>1, IdleText DEF TextInv

(* every step keeps the texts *)
LEMMA TextNext ==
  ASSUME Types, Types', Kept, TextInv, [Next]_vars
  PROVE  TextInv'
<1>0. PostInv
  BY DEF Kept
<1>1. ASSUME NEW p \in Procs, Comments(p) PROVE TextInv'
  BY <1>0, <1>1, Text_choose, Text_newcomment, Text_count, Text_setcomment, Text_getcomment, Text_touch
     DEF Comments
<1>2. ASSUME NEW p \in Procs, Voting(p) PROVE TextInv'
  BY <1>2, Text_getvote, Text_setvote, Text_delvotes, Text_zerodirty, Text_zerorow DEF Voting
<1>3. ASSUME NEW p \in Procs, Article(p) PROVE TextInv'
  BY <1>3, Text_insert, Text_lookup, Text_setnew, Text_getrow, Text_import,
     Text_getbody, Text_nextrev, Text_archive, Text_setpost, Text_setrow, Text_setmode,
     Text_addcross, Text_numcross, Text_setcross DEF Article
<1>4. ASSUME NEW p \in Procs, Purging(p) PROVE TextInv'
  BY <1>0, <1>4, Text_take, Text_applied, Text_delrow, Text_list, Text_forget, Text_delpost,
     Text_delcomments, Text_dropvotes, Text_delhist DEF Purging
<1>5. ASSUME NEW p \in Procs, Request(p) \/ Fetch(p) \/ Flush(p) PROVE TextInv'
  BY <1>5, Text_Request, Text_Fetch, Text_Flush
<1>6. CASE Restart \/ Tick \/ UNCHANGED vars
  BY <1>6, TextSame DEF Restart, Tick, vars, ghosts
<1>. QED BY <1>0, <1>1, <1>2, <1>3, <1>4, <1>5, <1>6, Text_Crash, Text_Rebuild DEF Next

(* The invariant behind the texts holds in every reachable state: what was
   acknowledged, or is stored and about to be, is the current text or in the
   history, and what an edit is about to write over is archived. *)
THEOREM AlwaysText == Spec => [](Types /\ Kept /\ TextInv)
<1>1. Init => Types /\ Kept /\ TextInv
  BY InitTypes, InitKept, InitText
<1>2. Types /\ Kept /\ TextInv /\ [Next]_vars => (Types /\ Kept /\ TextInv)'
  BY TypesNext, KeptNext, TextNext
<1>. QED BY <1>1, <1>2, PTL DEF Spec

(* A text that its writer was told to be stored is the current one or in the
   history until a request writes over a version that it has not seen, or the
   article is purged; and while the article has its row no new comment takes
   the place of another one, for any number of goroutines, users and requests. *)
THEOREM TextsAreKept == Spec => TextsKept
<1>1. TextInv => NothingForgotten
  BY DEF TextInv, NothingForgotten, Clean, Somewhere
<1>2. Kept => SequenceFresh
  <2>. SUFFICES ASSUME Kept, NEW p \in Procs, At(p, "newcomment"), row # None
                PROVE  db.comments[req[p].seq] = None
    BY DEF SequenceFresh
  <2>. QED BY DEF Kept, PostInv, SeqInv, At
<1>. QED BY <1>1, <1>2, AlwaysText, PTL DEF TextsKept

-----------------------------------------------------------------------------
(* The inductive invariant of the two databases *)

(* the article is in both of them, and nothing was written unseen *)
Sure == row # None /\ ~lost /\ "post" \notin stale
Both == Sure /\ db.post # None

(* r has counted a crosspost and not recorded it *)
Crossing(r) == IF Here(r) \in {"numcross", "setcross"} THEN 1 ELSE 0
Crossings == SumFunction([p \in Procs |-> Crossing(req[p])])
(* r will store a mode, or change the row as it has changed the record *)
Metaing(r) == r.op = "setmeta" /\ Here(r) \in {"getrow", "getbody", "setpost"}
Settling(r) == r.op \in {"edit", "delete", "undelete"} /\ Here(r) = "setrow"
Touching(r) == Here(r) = "touch"

(* before an article is created it has no record, and nobody is about to store one *)
Unborn ==
  row = None /\ "purged" \notin stale =>
    /\ ~lost => db.post = None /\ db.xposts = {}
    /\ \A p \in Procs : Here(req[p]) # "setnew"

XpExact == Sure => row.xp = Cardinality(db.xposts) + Crossings
TitleSame == Both => "title" \in stale \/ row.title = db.post.title
ModeSame == Both => row.mode = db.post.mode \/ \E p \in Procs : Metaing(req[p])
DelSame ==
  Both => row.del = db.post.del
            \/ \E p \in Procs : Settling(req[p]) /\ req[p].op \in {"delete", "undelete"}
RowInv == Unborn /\ XpExact /\ TitleSame /\ ModeSame /\ DelSame

(* the time of the row is the latest one of the records, but for changes that
   are between Pebble and SQLite *)
Clear == Both /\ {"clock", "comments"} \cap stale = {}
PostTime ==
  Clear => db.post.mod <= row.mod
             \/ \E p \in Procs : Settling(req[p]) /\ req[p].at = db.post.mod
CommentTimes ==
  Clear => \A s \in Present(db.comments) :
             \/ db.comments[s].mod <= row.mod
             \/ \E p \in Procs : Touching(req[p]) /\ req[p].at = db.comments[s].mod
RowTime ==
  Clear => \/ row.mod = db.post.mod
           \/ \E s \in Present(db.comments) : row.mod = db.comments[s].mod
           \/ \E p \in Procs : Touching(req[p]) \/ Settling(req[p])
(* a comment is not older than the edit that is about to set the time *)
Touched ==
  row # None /\ "comments" \notin stale =>
    \A p \in Procs : Touching(req[p]) =>
      db.comments[req[p].seq] # None /\ req[p].at <= db.comments[req[p].seq].mod
Timely(r) ==
  /\ HoldsComment(r) => r.old.mod <= now
  /\ r.op = "cedit" /\ Here(r) = "setcomment" => r.old.mod <= r.at /\ r.at <= now
Clocked ==
  /\ \A s \in Present(db.comments) : db.comments[s].mod <= now
  /\ \A p \in Procs : Timely(req[p])
TimeInv == PostTime /\ CommentTimes /\ RowTime /\ Touched /\ Clocked

(* a purge has deleted what was there, or has listed it, or will *)
Doomed == "purged" \in stale /\ ~lost /\ {"post", "comments"} \cap stale = {}
BeforeComments(r) == r.op = "purge" /\ Here(r) \in {"list", "forget", "delpost", "delcomments"}
BeforeVotes(r) == r.op = "purge" /\ Here(r) \in {"list", "forget", "delpost", "delcomments", "dropvotes"}
Purger(r) == r.op = "purge" /\ Here(r) \in {"list", "forget", "delpost", "delcomments", "dropvotes", "delhist"}
Voters == {u \in Users : db.votes[u] # "none"}
WillDrop(r, o) ==
  /\ Purger(r)
  /\ IF Here(r) = "list" THEN o \in {0} \cup Present(db.comments) ELSE Len(db.hist[o]) <= r.old.hist[o]
CrossGone ==
  Doomed => \/ db.xposts = {}
            \/ \E p \in Procs : /\ BeforeDel(req[p])
                                /\ Here(req[p]) # "list" => db.xposts \subseteq req[p].old.xposts
CommentsGone ==
  Doomed => \/ Present(db.comments) = {}
            \/ \E p \in Procs : /\ BeforeComments(req[p])
                                /\ Here(req[p]) # "list" => Present(db.comments) \subseteq req[p].old.comments
VotesGone ==
  Doomed /\ "votes" \notin stale =>
    \/ Voters = {}
    \/ \E p \in Procs : /\ BeforeVotes(req[p])
                        /\ Here(req[p]) # "list" => Voters \subseteq req[p].old.votes
HistGone ==
  Doomed => \A o \in {0} \cup Seqs : db.hist[o] = <<>> \/ \E p \in Procs : WillDrop(req[p], o)
(* with a comment its revisions were listed *)
HistListed ==
  Doomed => \A p \in Procs : Purger(req[p]) /\ Here(req[p]) # "list" =>
              \A o \in req[p].old.comments : Len(db.hist[o]) <= req[p].old.hist[o]
GoneInv == CrossGone /\ CommentsGone /\ VotesGone /\ HistGone /\ HistListed

AgreeInv == RowInv /\ TimeInv /\ GoneInv

(* Revisions are those of the article and of comments that are there. *)
HistThere ==
  {"post", "comments", "purged"} \cap stale = {} =>
    \A o \in Seqs : db.hist[o] # <<>> => db.comments[o] # None

(* at the start there are none *)
LEMMA InitHist == Init => HistThere
BY DEF Init, HistThere

(* most steps archive nothing and delete no comment *)
LEMMA HistStays ==
  ASSUME HistThere, \A w \in {"post", "comments", "purged"} : w \in stale => w \in stale',
         \A o \in Seqs : /\ db'.hist[o] # <<>> => db.hist[o] # <<>>
                         /\ db'.comments[o] = None => db.comments[o] = None
  PROVE  HistThere'
BY DEF HistThere

(* every step of a request but those two *)
LEMMA HistRequests ==
  ASSUME Types, Types', HistThere, NEW p \in Procs,
         \/ Request(p) \/ Fetch(p) \/ Flush(p) \/ Voting(p) \/ Comments(p)
         \/ (Article(p) /\ ~archive(p)) \/ (Purging(p) /\ ~delcomments(p) /\ ~delhist(p))
  PROVE  HistThere'
<1>0. TypeOK /\ ReqOK
  BY DEF Types
<1>1. CASE Request(p) \/ Fetch(p) \/ Flush(p)
  <2>1. db' = db /\ stale' = stale
    BY <1>1 DEF Request, Start, Fetch, Flush, ghosts
  <2>. QED BY <2>1, HistStays
<1>2. CASE Voting(p)
  <2>1. db'.hist = db.hist /\ db'.comments = db.comments /\ stale \subseteq stale'
    BY <1>0, <1>2 DEF TypeOK, Voting, getvote, setvote, delvotes, zerodirty, zerorow, Stale, ghosts
  <2>. QED BY <2>1, HistStays
<1>3. CASE newcomment(p) \/ setcomment(p)
  <2>1. db'.hist = db.hist /\ stale \subseteq stale'
    BY <1>0, <1>3 DEF TypeOK, newcomment, setcomment, Stale
  <2>2. ASSUME newcomment(p), NEW o \in Seqs, db'.comments[o] = None PROVE db.comments[o] = None
    <3>1. /\ req[p].seq \in Seqs /\ req[p].user \in Users /\ req[p].id \in Ids
      <4>1. Here(req[p]) = "newcomment"
        BY <2>2 DEF newcomment, At
      <4>2. PICK y : Follows(req[p].op, Here(req[p]), y)
        BY <1>0, <4>1, HereOps
      <4>3. req[p].op = "comment"
        BY <4>1, <4>2 DEF Follows, CommentOps
      <4>. QED BY <1>0, <4>1, <4>3 DEF ReqOK, Knows, Req
    <3>2. [by |-> req[p].user, text |-> {req[p].id}, del |-> FALSE, mod |-> 0] \in Comment
      BY <3>1 DEF Comment, Times
    <3>3. [by |-> req[p].user, text |-> {req[p].id}, del |-> FALSE, mod |-> 0] # None
      BY <3>2, NoneAssumption
    <3>. QED BY <1>0, <2>2, <3>1, <3>3 DEF newcomment, TypeOK
  <2>3. ASSUME setcomment(p), NEW o \in Seqs, db'.comments[o] = None PROVE db.comments[o] = None
    <3>1. req[p].old \in Comment /\ req[p].seq \in Seqs /\ req[p].id \in Ids /\ req[p].at \in Times
      BY <1>0, <2>3 DEF setcomment, At, ReqOK, Knows, HoldsComment, Req
    <3>2. Changed(req[p]) \in Comment
      BY <3>1 DEF Changed, Comment
    <3>3. Changed(req[p]) # None
      BY <3>2, NoneAssumption
    <3>. QED BY <1>0, <2>3, <3>1, <3>3 DEF setcomment, TypeOK
  <2>. QED BY <1>3, <2>1, <2>2, <2>3, HistStays
<1>4. CASE choose(p) \/ count(p) \/ getcomment(p) \/ touch(p)
  <2>1. db' = db /\ stale \subseteq stale'
    BY <1>4 DEF choose, count, getcomment, touch, Stale, ghosts
  <2>. QED BY <2>1, HistStays
<1>5. CASE Article(p) /\ ~archive(p)
  <2>1. /\ db'.hist = db.hist /\ db'.comments = db.comments
        /\ \A w \in {"post", "comments", "purged"} : w \in stale => w \in stale'
    BY <1>0, <1>5 DEF TypeOK, Article, lookup, insert, setnew, getrow, import, getbody, nextrev, setpost,
       setrow, setmode, addcross, numcross, setcross, Stale, ghosts
  <2>. QED BY <2>1, HistStays
<1>6. CASE Purging(p) /\ ~delcomments(p) /\ ~delhist(p)
  <2>1. db'.hist = db.hist /\ db'.comments = db.comments /\ stale \subseteq stale'
    BY <1>0, <1>6 DEF TypeOK, Purging, take, apply, ApplyFails, delrow, list, forget, delpost, dropvotes, Stale, ghosts
  <2>. QED BY <2>1, HistStays
<1>. QED BY <1>1, <1>2, <1>3, <1>4, <1>5, <1>6 DEF Comments

(* every step keeps the revisions with their comments *)
LEMMA HistNext ==
  ASSUME Types, Types', Kept, TextInv, HistThere, [Next]_vars
  PROVE  HistThere'
<1>0. TypeOK /\ ReqOK
  BY DEF Types
<1>1. ASSUME NEW p \in Procs, archive(p) PROVE HistThere'
  <2>. SUFFICES ASSUME {"post", "comments", "purged"} \cap stale' = {}, NEW o \in Seqs, db'.hist[o] # <<>>
                PROVE  db'.comments[o] # None
    BY DEF HistThere
  <2>1. /\ stale \subseteq stale' /\ row # None /\ db'.comments = db.comments
        /\ \A x \in Seqs : x # req[p].seq => db'.hist[x] = db.hist[x]
    BY <1>0, <1>1 DEF archive, Stale, TypeOK
  <2>2. CASE o # req[p].seq
    BY <2>1, <2>2 DEF HistThere
  <2>3. CASE o = req[p].seq
    <3>1. Here(req[p]) = "archive" /\ req[p].op \in {"edit", "title", "delete", "cedit", "cdelete"}
      BY <1>1, Go_archive DEF archive, At
    <3>2. req[p].op \in CommentOps
      BY <1>0, <2>3, <3>1 DEF ReqOK, Knows, ArticleOps, CommentOps, Seqs
    <3>3. HoldsComment(req[p])
      BY <3>1, <3>2 DEF HoldsComment
    <3>. QED BY <2>1, <2>3, <3>3 DEF Kept, PostInv, OldThere
  <2>. QED BY <2>2, <2>3
<1>2. ASSUME NEW p \in Procs, delcomments(p) \/ delhist(p) PROVE HistThere'
  <2>1. Here(req[p]) \in {"delcomments", "delhist"} /\ stale' = stale
    BY <1>2 DEF delcomments, delhist, At, ghosts
  <2>2. PICK y : Follows(req[p].op, Here(req[p]), y)
    BY <1>0, <2>1, HereOps
  <2>3. req[p].op = "purge"
    BY <2>1, <2>2 DEF Follows, CommentOps
  <2>4. "purged" \in stale
    BY <2>1, <2>3 DEF Kept, PostInv, RowGone
  <2>. QED BY <2>1, <2>4 DEF HistThere
<1>3. ASSUME NEW p \in Procs,
             Request(p) \/ Fetch(p) \/ Flush(p) \/ Comments(p) \/ Voting(p) \/ Article(p) \/ Purging(p)
      PROVE  HistThere'
  BY <1>1, <1>2, <1>3, HistRequests
<1>4. CASE Crash \/ Restart \/ Tick \/ UNCHANGED vars
  <2>1. db' = db /\ stale \subseteq stale'
    BY <1>4 DEF Crash, Restart, Tick, Stale, ghosts, vars
  <2>. QED BY <2>1, HistStays
<1>5. CASE RebuildSQLiteFromPebble
  <2>1. db' = db /\ stale' = (IF Rebuilt = None THEN stale ELSE stale \ {"title", "votes", "clock", "purged"})
    BY <1>5 DEF RebuildSQLiteFromPebble
  <2>2. \A q \in Procs : req[q] = Idle
    BY <1>5 DEF RebuildSQLiteFromPebble, Kept, PostInv, Asleep
  <2>3. \A q \in Procs : ~BeforeDel(req[q])
    BY <2>2, IdleIs DEF BeforeDel
  <2>4. CASE Rebuilt = None
    BY <2>1, <2>4, HistStays
  <2>5. CASE Rebuilt # None
    <3>1. db.post # None
      BY <2>5 DEF Rebuilt
    <3>2. {"post", "comments"} \cap stale = {} => "purged" \notin stale
      BY <2>3, <3>1 DEF TextInv
    <3>3. {"post", "comments", "purged"} \cap stale' = {} => {"post", "comments", "purged"} \cap stale = {}
      BY <2>1, <2>5, <3>2
    <3>. QED BY <2>1, <3>3 DEF HistThere
  <2>. QED BY <2>4, <2>5
<1>. QED BY <1>3, <1>4, <1>5 DEF Next

(* one goroutine goes on: only its own crosspost is counted anew *)
LEMMA CrossingsStep ==
  ASSUME ReqOK, NEW p \in Procs, req' = [req EXCEPT ![p] = req'[p]]
  PROVE  /\ Crossings \in Int /\ Crossings' \in Int
         /\ Crossings' = Crossings - Crossing(req[p]) + Crossing(req'[p])
<1>. DEFINE g == [q \in Procs |-> Crossing(req[q])]  h == [q \in Procs |-> Crossing(req'[q])]
<1>1. \A q \in Procs \ {p} : req'[q] = req[q]
  BY DEF ReqOK
<1>2. g \in [Procs -> Int] /\ h \in [Procs -> Int] /\ \A q \in Procs \ {p} : g[q] = h[q]
  BY <1>1 DEF Crossing
<1>3. g[p] = Crossing(req[p]) /\ h[p] = Crossing(req'[p])
  OBVIOUS
<1>4. Crossings = SumFunction(g) /\ Crossings' = SumFunction(h)
  BY DEF Crossings, Crossing, Here
<1>. HIDE DEF g, h
<1>5. /\ SumFunction(g) \in Int /\ SumFunction(h) \in Int
      /\ SumFunction(h) = SumFunction(g) - g[p] + h[p]
  BY <1>2, SumChange, PostStoreAssumption
<1>. QED BY <1>3, <1>4, <1>5

(* nobody is between the counter and the record of a crosspost *)
LEMMA NoCrossings ==
  ASSUME \A q \in Procs : Here(req[q]) \notin {"numcross", "setcross"}
  PROVE  Crossings = 0
<1>. DEFINE g == [q \in Procs |-> Crossing(req[q])]
<1>1. g \in [Procs -> Int] /\ \A q \in Procs : g[q] = 0
  BY DEF Crossing
<1>2. Crossings = SumFunction(g)
  BY DEF Crossings
<1>. HIDE DEF g
<1>. QED BY <1>1, <1>2, SumZero, PostStoreAssumption

(* a request that goes on without changing the article *)
RowCalm(r, n) ==
  /\ Here(n) = "setnew" => Here(r) = "setnew" \/ row # None
  /\ Metaing(r) => Metaing(n) \/ db.post = None \/ row = None
  /\ Settling(r) => Settling(n) /\ n.at = r.at /\ n.op = r.op
TimeCalm(r, n) ==
  /\ Settling(r) => Settling(n) /\ n.at = r.at /\ n.op = r.op
  /\ Touching(n) <=> Touching(r)
  /\ Touching(r) => n.at = r.at /\ n.seq = r.seq
  /\ Timely(r) => Timely(n)

(* the row and the record are kept, and p is about to do no less to them *)
LEMMA RowStays ==
  ASSUME Types, Types', RowInv, NEW p \in Procs, req' = [req EXCEPT ![p] = req'[p]],
         row' = None <=> row = None,
         row # None => row'.title = row.title /\ row'.mode = row.mode /\ row'.del = row.del /\ row'.xp = row.xp,
         db'.post = db.post, db'.xposts = db.xposts, lost => lost',
         \A w \in {"post", "title", "purged"} : w \in stale => w \in stale',
         RowCalm(req[p], req'[p]), Crossing(req'[p]) = Crossing(req[p])
  PROVE  RowInv'
<1>0. ReqOK /\ \A q \in Procs : q # p => req'[q] = req[q]
  BY DEF Types, ReqOK
<1>1. Unborn'
  BY <1>0 DEF RowInv, Unborn, RowCalm, Here
<1>2. /\ Sure' => Sure
      /\ Both' => Both
  BY DEF Sure, Both
<1>3. XpExact'
  <2>1. Crossings' = Crossings
    BY <1>0, CrossingsStep DEF Crossing
  <2>. QED BY <1>2, <2>1 DEF RowInv, XpExact, Sure
<1>4. TitleSame'
  BY <1>2 DEF RowInv, TitleSame, Both, Sure
<1>5. ModeSame'
  <2>1. \A q \in Procs : Metaing(req[q]) => Metaing(req[q])' \/ db.post = None \/ row = None
    BY <1>0 DEF RowCalm, Metaing, Here
  <2>. QED BY <1>2, <2>1 DEF RowInv, ModeSame, Both, Sure
<1>6. DelSame'
  <2>1. \A q \in Procs : Settling(req[q]) => Settling(req[q])' /\ req'[q].op = req[q].op
    BY <1>0 DEF RowCalm, Settling, Here
  <2>. QED BY <1>2, <2>1 DEF RowInv, DelSame, Both, Sure
<1>. QED BY <1>1, <1>3, <1>4, <1>5, <1>6 DEF RowInv

(* the times are kept, and p is about to do no less to them *)
LEMMA TimeStays ==
  ASSUME Types, Types', TimeInv, NEW p \in Procs, req' = [req EXCEPT ![p] = req'[p]],
         row' = None <=> row = None,
         row # None => row'.mod = row.mod,
         db'.post = db.post, db'.comments = db.comments, lost => lost', now' = now,
         \A w \in {"post", "clock", "comments"} : w \in stale => w \in stale',
         TimeCalm(req[p], req'[p])
  PROVE  TimeInv'
<1>0. ReqOK /\ \A q \in Procs : q # p => req'[q] = req[q]
  BY DEF Types, ReqOK
<1>1. Clear' => Clear
  BY DEF Clear, Both, Sure
<1>2. \A q \in Procs : /\ Settling(req[q]) => Settling(req[q])' /\ req'[q].at = req[q].at
                       /\ Touching(req[q])' <=> Touching(req[q])
                       /\ Touching(req[q]) => req'[q].at = req[q].at /\ req'[q].seq = req[q].seq
                       /\ Timely(req[q])'
  BY <1>0 DEF TimeCalm, Settling, Touching, Timely, HoldsComment, Here, TimeInv, Clocked
<1>3. Present(db.comments)' = Present(db.comments)
  BY DEF Present
<1>4. PostTime'
  BY <1>1, <1>2 DEF TimeInv, PostTime, Clear, Both, Sure
<1>5. CommentTimes'
  BY <1>1, <1>2, <1>3 DEF TimeInv, CommentTimes, Clear, Both, Sure
<1>6. RowTime'
  BY <1>1, <1>2, <1>3 DEF TimeInv, RowTime, Clear, Both, Sure
<1>7. Touched'
  BY <1>2 DEF TimeInv, Touched
<1>8. Clocked'
  BY <1>2, <1>3 DEF TimeInv, Clocked
<1>. QED BY <1>4, <1>5, <1>6, <1>7, <1>8 DEF TimeInv

(* what a purge has listed it still deletes, and nothing comes in unmarked *)
GoneCalm(r, n) ==
  /\ Purger(n) /\ Here(n) = "list" => Purger(r) /\ Here(r) = "list"
  /\ Purger(n) /\ Here(n) # "list" =>
       /\ Purger(r)
       /\ \/ Here(r) # "list" /\ n.old = r.old
          \/ Here(r) = "list" /\ n.old = Listed /\ db' = db
  /\ BeforeDel(r) => BeforeDel(n) \/ (Here(r) # "list" /\ db'.xposts = db.xposts \ r.old.xposts)
  /\ BeforeComments(r) =>
       BeforeComments(n) \/ (Here(r) # "list" /\ Present(db'.comments) = Present(db.comments) \ r.old.comments)
  /\ BeforeVotes(r) => BeforeVotes(n) \/ (Here(r) # "list" /\ Voters' = Voters \ r.old.votes)
  /\ Purger(r) =>
       Purger(n) \/ (/\ Here(r) # "list"
                     /\ \A o \in {0} \cup Seqs : Len(db.hist[o]) <= r.old.hist[o] => db'.hist[o] = <<>>)

(* most steps are not those of a purge *)
LEMMA NoPurger ==
  ASSUME NEW r, NEW n,
         {Here(r), Here(n)} \cap {"list", "forget", "delpost", "delcomments", "dropvotes", "delhist"} = {}
  PROVE  GoneCalm(r, n)
BY DEF GoneCalm, Purger, BeforeDel, BeforeComments, BeforeVotes

(* nothing comes back after a purge *)
LEMMA GoneStays ==
  ASSUME Types, Types', GoneInv, NEW p \in Procs, req' = [req EXCEPT ![p] = req'[p]],
         lost => lost', \A w \in {"post", "comments", "votes"} : w \in stale => w \in stale',
         "purged" \in stale' => "purged" \in stale,
         GoneCalm(req[p], req'[p]),
         Doomed' => /\ db'.xposts \subseteq db.xposts
                    /\ Present(db'.comments) \subseteq Present(db.comments)
                    /\ "votes" \notin stale' => Voters' \subseteq Voters
                    /\ \A o \in {0} \cup Seqs :
                         db'.hist[o] = <<>> \/ (db.hist[o] # <<>> /\ Len(db'.hist[o]) = Len(db.hist[o]))
                    /\ \A o \in Present(db.comments) \ Present(db'.comments) :
                         Purger(req'[p]) /\ Here(req'[p]) # "list" /\ o \in req'[p].old.comments
  PROVE  GoneInv'
<1>0. ReqOK /\ \A q \in Procs : q # p => req'[q] = req[q]
  BY DEF Types, ReqOK
<1>1. Doomed' => Doomed
  BY DEF Doomed
<1>2. /\ \A q \in Procs : /\ Here(req[q])' = Here(req'[q])
                          /\ BeforeDel(req[q])' <=> BeforeDel(req'[q])
                          /\ BeforeComments(req[q])' <=> BeforeComments(req'[q])
                          /\ BeforeVotes(req[q])' <=> BeforeVotes(req'[q])
                          /\ Purger(req[q])' <=> Purger(req'[q])
      /\ Present(db.comments)' = Present(db'.comments)
  BY DEF BeforeDel, BeforeComments, BeforeVotes, Purger, Here, Present
<1>3. \A q \in Procs : /\ BeforeDel(req'[q]) => Purger(req'[q])
                       /\ BeforeComments(req'[q]) => Purger(req'[q])
                       /\ BeforeVotes(req'[q]) => Purger(req'[q])
  BY DEF BeforeDel, BeforeComments, BeforeVotes, Purger
<1>4. CrossGone'
  <2>. SUFFICES ASSUME Doomed', db'.xposts # {}
                PROVE  \E q \in Procs : /\ BeforeDel(req'[q])
                                        /\ Here(req'[q]) # "list" => db'.xposts \subseteq req'[q].old.xposts
    BY <1>2 DEF CrossGone
  <2>1. PICK q \in Procs : /\ BeforeDel(req[q])
                           /\ Here(req[q]) # "list" => db.xposts \subseteq req[q].old.xposts
    BY <1>1 DEF GoneInv, CrossGone
  <2>2. CASE q # p
    BY <1>0, <2>1, <2>2
  <2>3. CASE q = p
    <3>1. BeforeDel(req'[p])
      BY <2>1, <2>3 DEF GoneCalm
    <3>2. CASE Here(req'[p]) # "list" /\ Here(req[p]) # "list" /\ req'[p].old = req[p].old
      BY <2>1, <2>3, <3>1, <3>2
    <3>3. CASE Here(req'[p]) # "list" /\ req'[p].old = Listed /\ db' = db
      BY <3>1, <3>3 DEF Listed
    <3>. QED BY <1>3, <3>1, <3>2, <3>3 DEF GoneCalm
  <2>. QED BY <2>2, <2>3
<1>5. CommentsGone'
  <2>. SUFFICES ASSUME Doomed', Present(db'.comments) # {}
                PROVE  \E q \in Procs : /\ BeforeComments(req'[q])
                                        /\ Here(req'[q]) # "list" => Present(db'.comments) \subseteq req'[q].old.comments
    BY <1>2 DEF CommentsGone
  <2>1. PICK q \in Procs : /\ BeforeComments(req[q])
                           /\ Here(req[q]) # "list" => Present(db.comments) \subseteq req[q].old.comments
    BY <1>1 DEF GoneInv, CommentsGone
  <2>2. CASE q # p
    BY <1>0, <2>1, <2>2
  <2>3. CASE q = p
    <3>1. BeforeComments(req'[p])
      BY <2>1, <2>3 DEF GoneCalm
    <3>2. CASE Here(req'[p]) # "list" /\ Here(req[p]) # "list" /\ req'[p].old = req[p].old
      BY <2>1, <2>3, <3>1, <3>2
    <3>3. CASE Here(req'[p]) # "list" /\ req'[p].old = Listed /\ db' = db
      BY <3>1, <3>3 DEF Listed
    <3>. QED BY <1>3, <3>1, <3>2, <3>3 DEF GoneCalm
  <2>. QED BY <2>2, <2>3
<1>6. VotesGone'
  <2>. SUFFICES ASSUME Doomed', "votes" \notin stale', Voters' # {}
                PROVE  \E q \in Procs : /\ BeforeVotes(req'[q])
                                        /\ Here(req'[q]) # "list" => Voters' \subseteq req'[q].old.votes
    BY <1>2 DEF VotesGone
  <2>1. PICK q \in Procs : /\ BeforeVotes(req[q])
                           /\ Here(req[q]) # "list" => Voters \subseteq req[q].old.votes
    BY <1>1 DEF GoneInv, VotesGone
  <2>2. CASE q # p
    BY <1>0, <2>1, <2>2
  <2>3. CASE q = p
    <3>1. BeforeVotes(req'[p])
      BY <2>1, <2>3 DEF GoneCalm
    <3>2. CASE Here(req'[p]) # "list" /\ Here(req[p]) # "list" /\ req'[p].old = req[p].old
      BY <2>1, <2>3, <3>1, <3>2
    <3>3. CASE Here(req'[p]) # "list" /\ req'[p].old = Listed /\ db' = db
      BY <3>1, <3>3 DEF Listed, Voters
    <3>. QED BY <1>3, <3>1, <3>2, <3>3 DEF GoneCalm
  <2>. QED BY <2>2, <2>3
<1>7. HistListed'
  <2>. SUFFICES ASSUME Doomed', NEW q \in Procs, Purger(req'[q]), Here(req'[q]) # "list", NEW o \in req'[q].old.comments
                PROVE  Len(db'.hist[o]) <= req'[q].old.hist[o]
    BY <1>2 DEF HistListed
  <2>0. Here(req'[q]) \in {"forget", "delpost", "delcomments", "dropvotes", "delhist"}
    BY DEF Purger
  <2>1. req'[q].old \in Listing /\ o \in Seqs /\ req'[q].old.hist[o] \in Nat
    BY <1>2, <2>0 DEF Types, ReqOK, Knows, Listing
  <2>2. ASSUME Purger(req[q]), Here(req[q]) # "list", req'[q].old = req[q].old
        PROVE  Len(db'.hist[o]) <= req'[q].old.hist[o]
    BY <1>1, <2>1, <2>2 DEF GoneInv, HistListed
  <2>3. CASE q # p
    BY <1>0, <2>2, <2>3
  <2>4. CASE q = p
    <3>1. CASE Here(req[p]) # "list" /\ req'[p].old = req[p].old
      BY <2>2, <2>4, <3>1 DEF GoneCalm
    <3>2. CASE req'[p].old = Listed /\ db' = db
      <4>1. o \in Present(db.comments) /\ req'[q].old.hist[o] = Len(db.hist[o])
        BY <2>1, <2>4, <3>2 DEF Listed
      <4>. QED BY <2>1, <3>2, <4>1
    <3>. QED BY <2>4, <3>1, <3>2 DEF GoneCalm
  <2>. QED BY <2>3, <2>4
<1>8. HistGone'
  <2>. SUFFICES ASSUME Doomed', NEW o \in {0} \cup Seqs, db'.hist[o] # <<>>
                PROVE  \E q \in Procs :
                         /\ Purger(req'[q])
                         /\ IF Here(req'[q]) = "list" THEN o \in {0} \cup Present(db'.comments)
                            ELSE Len(db'.hist[o]) <= req'[q].old.hist[o]
    BY <1>2 DEF HistGone, WillDrop
  <2>1. db.hist[o] # <<>> /\ Len(db'.hist[o]) = Len(db.hist[o])
    OBVIOUS
  <2>2. PICK q \in Procs : WillDrop(req[q], o)
    BY <1>1, <2>1 DEF GoneInv, HistGone
  <2>3. CASE Here(req[q]) = "list" /\ o \notin {0} \cup Present(db'.comments)
    <3>1. o \in Present(db.comments)
      BY <2>2, <2>3 DEF WillDrop
    <3>2. Purger(req'[p]) /\ Here(req'[p]) # "list" /\ o \in req'[p].old.comments
      BY <2>3, <3>1
    <3>. QED BY <1>2, <1>7, <3>2 DEF HistListed
  <2>4. CASE Here(req[q]) # "list" \/ o \in {0} \cup Present(db'.comments)
    <3>1. CASE q # p
      BY <1>0, <2>1, <2>2, <2>4, <3>1 DEF WillDrop
    <3>2. CASE q = p
      <4>1. Purger(req[p]) /\ Purger(req'[p])
        BY <2>1, <2>2, <3>2 DEF GoneCalm, WillDrop
      <4>2. CASE Here(req'[p]) = "list"
        BY <2>4, <3>2, <4>1, <4>2 DEF GoneCalm
      <4>3. CASE Here(req'[p]) # "list" /\ Here(req[p]) # "list" /\ req'[p].old = req[p].old
        BY <2>1, <2>2, <3>2, <4>1, <4>3 DEF WillDrop
      <4>4. CASE Here(req'[p]) # "list" /\ Here(req[p]) = "list" /\ req'[p].old = Listed /\ db' = db
        <5>1. o \in {0} \cup Present(db.comments) /\ req'[p].old.hist[o] = Len(db.hist[o])
          BY <2>2, <3>2, <4>4 DEF WillDrop, Listed
        <5>2. Len(db.hist[o]) \in Nat
          BY DEF Types, TypeOK
        <5>. QED BY <2>1, <4>1, <4>4, <5>1, <5>2
      <4>. QED BY <4>1, <4>2, <4>3, <4>4 DEF GoneCalm
    <3>. QED BY <3>1, <3>2
  <2>. QED BY <2>3, <2>4
<1>. QED BY <1>4, <1>5, <1>6, <1>7, <1>8 DEF GoneInv

(* steps that leave the article and its comments alone *)
Calm(p) ==
  /\ req' = [req EXCEPT ![p] = req'[p]] /\ now' = now
  /\ row' = None <=> row = None
  /\ row # None => /\ row'.title = row.title /\ row'.mode = row.mode /\ row'.del = row.del
                   /\ row'.xp = row.xp /\ row'.mod = row.mod
  /\ db'.post = db.post /\ db'.comments = db.comments /\ db'.xposts = db.xposts
  /\ lost => lost'
  /\ \A w \in {"post", "title", "clock", "comments", "purged", "votes"} : w \in stale => w \in stale'
  /\ "purged" \in stale' => "purged" \in stale
  /\ RowCalm(req[p], req'[p]) /\ Crossing(req'[p]) = Crossing(req[p])
  /\ TimeCalm(req[p], req'[p]) /\ GoneCalm(req[p], req'[p])
  /\ Doomed' => /\ "votes" \notin stale' => Voters' \subseteq Voters
                /\ db'.hist = db.hist

(* a step that changes neither of the databases keeps the invariant *)
LEMMA CalmAgree ==
  ASSUME Types, Types', AgreeInv, NEW p \in Procs, Calm(p)
  PROVE  AgreeInv'
<1>1. RowInv'
  BY RowStays DEF AgreeInv, Calm
<1>2. TimeInv'
  BY TimeStays DEF AgreeInv, Calm
<1>3. GoneInv'
  BY GoneStays DEF AgreeInv, Calm
<1>. QED BY <1>1, <1>2, <1>3 DEF AgreeInv

(* what becomes of a request that leaves the article alone *)
CalmReq(r, n) ==
  RowCalm(r, n) /\ Crossing(n) = Crossing(r) /\ TimeCalm(r, n) /\ GoneCalm(r, n)
Busy == {"setrow", "touch", "numcross", "setcross",
         "list", "forget", "delpost", "delcomments", "dropvotes", "delhist"}

(* a goroutine that goes on to an access which promises nothing *)
LEMMA CalmMove ==
  ASSUME NEW r, NEW n,
         Here(r) \notin Busy \cup {"setcomment", "setpost"}, Here(n) \notin Busy,
         Here(n) = "setnew" => row # None,
         Here(n) = "setcomment" => n.op # "cedit",
         Metaing(r) => Metaing(n) \/ db.post = None \/ row = None,
         HoldsComment(n) => n.old.mod <= now
  PROVE  CalmReq(r, n)
<1>1. ~Settling(r) /\ ~Touching(r) /\ ~Touching(n)
  BY DEF Busy, Settling, Touching
<1>2. Crossing(r) = 0 /\ Crossing(n) = 0
  BY DEF Busy, Crossing
<1>3. RowCalm(r, n)
  BY <1>1 DEF RowCalm
<1>4. TimeCalm(r, n)
  BY <1>1 DEF TimeCalm, Timely
<1>5. GoneCalm(r, n)
  BY NoPurger DEF Busy
<1>. QED BY <1>1, <1>2, <1>3, <1>4, <1>5 DEF CalmReq

(* a goroutine that ends *)
LEMMA CalmEnd ==
  ASSUME NEW r, NEW n, n = Idle, Here(r) \notin Busy \cup {"setcomment", "setpost"},
         ~Metaing(r) \/ db.post = None \/ row = None
  PROVE  CalmReq(r, n)
<1>1. Here(n) = "none" /\ n.op = "idle" /\ ~HoldsComment(n)
  BY IdleIs
<1>. QED BY <1>1, CalmMove DEF Busy

(* a step that only reads *)
LEMMA CalmRead ==
  ASSUME Types, Types', AgreeInv, NEW p \in Procs, req' = [req EXCEPT ![p] = req'[p]],
         UNCHANGED <<db, row, now, stale>>, lost => lost', CalmReq(req[p], req'[p])
  PROVE  AgreeInv'
<1>1. Voters' = Voters
  BY DEF Voters
<1>2. Calm(p)
  BY <1>1 DEF Calm, CalmReq
<1>. QED BY <1>2, CalmAgree

(* steps that change the votes or the counters *)
LEMMA CalmWrite ==
  ASSUME Types, Types', AgreeInv, NEW p \in Procs, req' = [req EXCEPT ![p] = req'[p]],
         now' = now, lost => lost', row' = None <=> row = None,
         row # None => /\ row'.title = row.title /\ row'.mode = row.mode /\ row'.del = row.del
                       /\ row'.xp = row.xp /\ row'.mod = row.mod,
         db'.post = db.post, db'.comments = db.comments, db'.xposts = db.xposts, db'.hist = db.hist,
         stale \subseteq stale', "purged" \in stale' => "purged" \in stale,
         Doomed' /\ "votes" \notin stale' => Voters' \subseteq Voters,
         CalmReq(req[p], req'[p])
  PROVE  AgreeInv'
<1>1. Calm(p)
  BY DEF Calm, CalmReq
<1>. QED BY <1>1, CalmAgree

(* a request comes in *)
LEMMA Agree_Request ==
  ASSUME Types, Types', AgreeInv, NEW p \in Procs, Request(p)
  PROVE  AgreeInv'
<1>1. /\ req' = [req EXCEPT ![p] = req'[p]] /\ req'[p].op \in Ops
      /\ Here(req'[p]) = Begins(req'[p].op) /\ Here(req[p]) = "none"
      /\ Here(req'[p]) \in {"lookup", "choose", "getvote", "delvotes", "getrow", "setmode", "getcomment"}
      /\ UNCHANGED <<db, row, now, ghosts>>
  BY RequestOK DEF Begins, Ops, CommentOps
<1>3. CalmReq(req[p], req'[p])
  BY <1>1, CalmMove DEF Busy, HoldsComment, Metaing
<1>. QED BY <1>1, <1>3, CalmRead DEF ghosts

(* an editor is shown the article *)
LEMMA Agree_Fetch ==
  ASSUME Types, Types', AgreeInv, NEW p \in Procs, Fetch(p)
  PROVE  AgreeInv'
<1>1. /\ req' = [req EXCEPT ![p] = req'[p]] /\ req'[p].op = "idle" /\ req[p].op = "idle" /\ Here(req'[p]) = "none"
      /\ Here(req[p]) = "none"
  BY Go_Fetch, IdleIs
<1>2. CalmReq(req[p], req'[p])
  BY <1>1, CalmMove DEF Busy, HoldsComment, Metaing
<1>. QED BY <1>1, <1>2, CalmRead DEF Fetch, ghosts, env

(* FlushDirtyDeltas takes the deltas *)
LEMMA Agree_Flush ==
  ASSUME Types, Types', AgreeInv, NEW p \in Procs, Flush(p)
  PROVE  AgreeInv'
<1>1. /\ req' = [req EXCEPT ![p] = req'[p]] /\ Here(req[p]) = "none" /\ Here(req'[p]) = "apply"
  BY Go_Flush, IdleIs
<1>2. CalmReq(req[p], req'[p])
  BY <1>1, CalmMove DEF Busy, HoldsComment, Metaing
<1>. QED BY <1>1, <1>2, CalmRead DEF Flush, ghosts, env

(* CreatePost looks for the row *)
LEMMA Agree_lookup ==
  ASSUME Types, Types', AgreeInv, NEW p \in Procs, lookup(p)
  PROVE  AgreeInv'
<1>1. /\ req' = [req EXCEPT ![p] = req'[p]] /\ Here(req[p]) = "lookup"
      /\ Here(req'[p]) = IF row = None THEN "insert" ELSE "setnew"
  BY Go_lookup DEF lookup, At
<1>2. CalmReq(req[p], req'[p])
  BY <1>1, CalmMove DEF Busy, HoldsComment, Metaing
<1>. QED BY <1>1, <1>2, CalmRead DEF lookup, ghosts, env

(* AddComment continues the last comment or takes a sequence *)
LEMMA Agree_choose ==
  ASSUME Types, Types', AgreeInv, NEW p \in Procs, choose(p)
  PROVE  AgreeInv'
<1>1. /\ req' = [req EXCEPT ![p] = req'[p]] /\ Here(req[p]) = "choose" /\ req'[p].op = "comment"
      /\ \/ /\ Here(req'[p]) = "setcomment" /\ LastSeq \in Seqs
            /\ req'[p].old = db.comments[LastSeq] /\ db.comments[LastSeq] # None
         \/ Here(req'[p]) = "newcomment"
  BY Go_choose DEF choose, At
<1>2. HoldsComment(req'[p]) => req'[p].old.mod <= now
  <2>1. \A s \in Seqs : db.comments[s] # None => db.comments[s].mod <= now
    BY PresentIs DEF AgreeInv, TimeInv, Clocked
  <2>. QED BY <1>1, <2>1 DEF HoldsComment, CommentOps
<1>3. CalmReq(req[p], req'[p])
  BY <1>1, <1>2, CalmMove DEF Busy, Metaing
<1>. QED BY <1>1, <1>3, CalmRead DEF choose, ghosts, env

(* a comment is read to be changed *)
LEMMA Agree_getcomment ==
  ASSUME Types, Types', AgreeInv, NEW p \in Procs, getcomment(p)
  PROVE  AgreeInv'
<1>1. /\ req' = [req EXCEPT ![p] = req'[p]] /\ Here(req[p]) = "getcomment" /\ req[p].op \in CommentOps
      /\ \/ req'[p] = Idle
         \/ /\ Here(req'[p]) \in {"setcomment", "nextrev"} /\ req'[p].op = req[p].op
            /\ Here(req'[p]) = "setcomment" => req[p].op = "cundelete"
            /\ req'[p].old = db.comments[req[p].seq] /\ db.comments[req[p].seq] # None
  BY Go_getcomment DEF SameButOld, getcomment, At
<1>2. CASE req'[p] = Idle
  <2>1. CalmReq(req[p], req'[p])
    BY <1>1, <1>2, CalmEnd DEF Busy, Metaing
  <2>. QED BY <1>1, <2>1, CalmRead DEF getcomment, ghosts, env
<1>3. CASE req'[p] # Idle
  <2>1. req[p].seq \in Seqs
    BY <1>1 DEF Types, ReqOK, Knows
  <2>2. \A s \in Seqs : db.comments[s] # None => db.comments[s].mod <= now
    BY PresentIs DEF AgreeInv, TimeInv, Clocked
  <2>3. CalmReq(req[p], req'[p])
    BY <1>1, <1>3, <2>1, <2>2, CalmMove DEF Busy, Metaing, CommentOps
  <2>. QED BY <1>1, <2>3, CalmRead DEF getcomment, ghosts, env
<1>. QED BY <1>2, <1>3

(* VotePost reads the last vote *)
LEMMA Agree_getvote ==
  ASSUME Types, Types', AgreeInv, NEW p \in Procs, getvote(p)
  PROVE  AgreeInv'
<1>1. /\ req' = [req EXCEPT ![p] = req'[p]] /\ Here(req[p]) = "getvote"
      /\ req'[p] = Idle \/ Here(req'[p]) = "setvote"
  BY Go_getvote DEF getvote, At
<1>2. CalmReq(req[p], req'[p])
  BY <1>1, CalmMove, CalmEnd DEF Busy, Metaing, HoldsComment
<1>. QED BY <1>1, <1>2, CalmRead DEF getvote, ghosts, env

(* GetPost reads the row *)
LEMMA Agree_getrow ==
  ASSUME Types, Types', AgreeInv, NEW p \in Procs, getrow(p)
  PROVE  AgreeInv'
<1>1. /\ req' = [req EXCEPT ![p] = req'[p]] /\ Here(req[p]) = "getrow"
      /\ (req'[p] = Idle /\ row = None) \/ (Here(req'[p]) = "getbody" /\ req'[p].op = req[p].op)
  BY Go_getrow DEF getrow, At, SameButPost
<1>2. CalmReq(req[p], req'[p])
  BY <1>1, CalmMove, CalmEnd DEF Busy, Metaing, HoldsComment
<1>. QED BY <1>1, <1>2, CalmRead DEF getrow, ghosts, env

(* GetPost reads the record *)
LEMMA Agree_getbody ==
  ASSUME Types, Types', AgreeInv, NEW p \in Procs, getbody(p)
  PROVE  AgreeInv'
<1>1. /\ req' = [req EXCEPT ![p] = req'[p]] /\ Here(req[p]) = "getbody"
      /\ req[p].op \in ArticleOps \cup {"purge"}
      /\ \/ req'[p] = Idle /\ (db.post = None \/ ~Wanted(req[p], Shown(p)))
         \/ /\ Here(req'[p]) \in {"nextrev", "setpost", "addcross", "take"} /\ req'[p].op = req[p].op
            /\ (req[p].op = "setmeta" => Here(req'[p]) = "setpost")
  BY Go_getbody DEF getbody, At, SameButPost, ArticleOps
<1>2. req'[p] = Idle => db.post = None \/ ~Metaing(req[p])
  <2>1. req[p].op = "setmeta" => Wanted(req[p], Shown(p))
    BY DEF Wanted
  <2>. QED BY <1>1, <2>1, IdleIs DEF Metaing
<1>3. CalmReq(req[p], req'[p])
  BY <1>1, <1>2, CalmMove, CalmEnd DEF Busy, Metaing, HoldsComment, ArticleOps, CommentOps
<1>. QED BY <1>1, <1>3, CalmRead DEF getbody, ghosts, env

(* the next revision is looked up *)
LEMMA Agree_nextrev ==
  ASSUME Types, Types', AgreeInv, NEW p \in Procs, nextrev(p)
  PROVE  AgreeInv'
<1>1. /\ req' = [req EXCEPT ![p] = req'[p]] /\ Here(req[p]) = "nextrev" /\ req'[p].op = req[p].op
      /\ Here(req'[p]) = "archive" /\ req'[p].old = req[p].old
  BY Go_nextrev DEF nextrev, At, SameButRev
<1>2. HoldsComment(req'[p]) => req'[p].old.mod <= now
  BY <1>1 DEF AgreeInv, TimeInv, Clocked, Timely, HoldsComment
<1>3. CalmReq(req[p], req'[p])
  BY <1>1, <1>2, CalmMove DEF Busy, Metaing
<1>. QED BY <1>1, <1>3, CalmRead DEF nextrev, ghosts, env

(* AddCrosspost reads the counter again *)
LEMMA Agree_numcross ==
  ASSUME Types, Types', AgreeInv, NEW p \in Procs, numcross(p)
  PROVE  AgreeInv'
<1>1. /\ req' = [req EXCEPT ![p] = req'[p]] /\ Here(req[p]) = "numcross" /\ req[p].op = "cross"
      /\ req'[p].op = "cross" /\ Here(req'[p]) = "setcross"
  BY Go_numcross DEF numcross, At, SameButRev
<1>2. CalmReq(req[p], req'[p])
  BY <1>1, NoPurger DEF CalmReq, RowCalm, TimeCalm, Crossing, Metaing, Settling, Touching, Timely,
              HoldsComment, CommentOps
<1>. QED BY <1>1, <1>2, CalmRead DEF numcross, ghosts, env

(* the flush of a purge takes the deltas *)
LEMMA Agree_take ==
  ASSUME Types, Types', AgreeInv, NEW p \in Procs, take(p)
  PROVE  AgreeInv'
<1>1. /\ req' = [req EXCEPT ![p] = req'[p]] /\ Here(req[p]) = "take" /\ Here(req'[p]) = "apply"
  BY Go_take DEF take, At
<1>2. CalmReq(req[p], req'[p])
  BY <1>1, CalmMove DEF Busy, Metaing, HoldsComment
<1>. QED BY <1>1, <1>2, CalmRead DEF take, ghosts, env

(* a purge lists what it will delete *)
LEMMA Agree_list ==
  ASSUME Types, Types', AgreeInv, NEW p \in Procs, list(p)
  PROVE  AgreeInv'
<1>1. /\ req' = [req EXCEPT ![p] = req'[p]] /\ Here(req[p]) = "list" /\ req[p].op = "purge"
      /\ req'[p].op = "purge" /\ Here(req'[p]) = "forget" /\ db' = db
      /\ req'[p].old = Listed
  BY Go_list DEF list, At, SameButOld
<1>2. GoneCalm(req[p], req'[p])
  BY <1>1 DEF GoneCalm, Purger, BeforeDel, BeforeComments, BeforeVotes
<1>3. CalmReq(req[p], req'[p])
  BY <1>1, <1>2 DEF CalmReq, RowCalm, TimeCalm, Crossing, Metaing, Settling, Touching, Timely,
              HoldsComment, CommentOps
<1>. QED BY <1>1, <1>3, CalmRead DEF list, ghosts, env

(* a purge empties dirtyDeltas and postSeqs *)
LEMMA Agree_forget ==
  ASSUME Types, Types', AgreeInv, NEW p \in Procs, forget(p)
  PROVE  AgreeInv'
<1>0. ReqOK /\ Here(req[p]) = "forget" /\ Continue(p, req[p])
  BY DEF forget, At, Types
<1>1. /\ req' = [req EXCEPT ![p] = req'[p]] /\ req[p].op = "purge" /\ req'[p].op = "purge"
      /\ Here(req'[p]) = "delpost" /\ req'[p].old = req[p].old
  BY <1>0, Go_forget DEF Same
<1>2. CalmReq(req[p], req'[p])
  <2>1. GoneCalm(req[p], req'[p])
    BY <1>0, <1>1 DEF GoneCalm, Purger, BeforeDel, BeforeComments, BeforeVotes
  <2>. QED BY <1>0, <1>1, <2>1 DEF CalmReq, RowCalm, TimeCalm, Crossing, Metaing, Settling, Touching, Timely,
              HoldsComment, CommentOps
<1>. QED BY <1>1, <1>2, CalmRead DEF forget, ghosts, env

(* the registration in dirtyDeltas *)
LEMMA Agree_count ==
  ASSUME Types, Types', AgreeInv, NEW p \in Procs, count(p)
  PROVE  AgreeInv'
<1>0. ReqOK /\ Here(req[p]) = "count" /\ Continue(p, req[p])
  BY DEF count, At, Types
<1>1. req' = [req EXCEPT ![p] = req'[p]] /\ req'[p] = Idle
  BY <1>0, Go_count
<1>2. CalmReq(req[p], req'[p])
  BY <1>0, <1>1, CalmEnd DEF Busy, Metaing
<1>. QED BY <1>1, <1>2, CalmRead DEF count, env

(* the votes in dirtyDeltas are set to zero *)
LEMMA Agree_zerodirty ==
  ASSUME Types, Types', AgreeInv, NEW p \in Procs, zerodirty(p)
  PROVE  AgreeInv'
<1>0. ReqOK /\ Here(req[p]) = "zerodirty" /\ Continue(p, req[p])
  BY DEF zerodirty, At, Types
<1>1. req' = [req EXCEPT ![p] = req'[p]] /\ Here(req'[p]) = "zerorow"
  BY <1>0, Go_zerodirty
<1>2. CalmReq(req[p], req'[p])
  BY <1>0, <1>1, CalmMove DEF Busy, Metaing, HoldsComment
<1>3. /\ UNCHANGED <<db, row, now, lost>> /\ stale \subseteq stale'
      /\ "purged" \in stale' => "purged" \in stale
  BY DEF zerodirty, Stale, env
<1>4. Voters' = Voters
  BY <1>3 DEF Voters
<1>. QED BY <1>1, <1>2, <1>3, <1>4, CalmWrite

(* the votes in SQLite are set to zero *)
LEMMA Agree_zerorow ==
  ASSUME Types, Types', AgreeInv, NEW p \in Procs, zerorow(p)
  PROVE  AgreeInv'
<1>0. ReqOK /\ Here(req[p]) = "zerorow" /\ Continue(p, req[p])
  BY DEF zerorow, At, Types
<1>1. req' = [req EXCEPT ![p] = req'[p]] /\ req'[p] = Idle
  BY <1>0, Go_zerorow
<1>2. CalmReq(req[p], req'[p])
  BY <1>0, <1>1, CalmEnd DEF Busy, Metaing
<1>3. /\ UNCHANGED <<db, now, lost>> /\ stale \subseteq stale'
      /\ "purged" \in stale' => "purged" \in stale
      /\ row' = IF row = None THEN None ELSE [row EXCEPT !.up = 0, !.down = 0]
  BY DEF zerorow, Stale, env, InRow
<1>4. Voters' = Voters
  BY <1>3 DEF Voters
<1>5. /\ row' = None <=> row = None
      /\ row # None => /\ row'.title = row.title /\ row'.mode = row.mode /\ row'.del = row.del
                       /\ row'.xp = row.xp /\ row'.mod = row.mod
  <2>1. CASE row # None
    <3>1. row \in Row
      BY <2>1 DEF Types, TypeOK
    <3>2. row' \in Row /\ row' = [row EXCEPT !.up = 0, !.down = 0]
      BY <1>3, <2>1, <3>1, RowVotes
    <3>. QED BY <2>1, <3>1, <3>2, NoneAssumption DEF Row
  <2>. QED BY <1>3, <2>1
<1>. QED BY <1>1, <1>2, <1>3, <1>4, <1>5, CalmWrite

(* a flush is applied or fails *)
LEMMA Agree_applied ==
  ASSUME Types, Types', AgreeInv, NEW p \in Procs, apply(p) \/ ApplyFails(p)
  PROVE  AgreeInv'
<1>0. /\ ReqOK /\ Here(req[p]) = "apply" /\ Continue(p, req[p]) /\ UNCHANGED <<db, stale, now>>
      /\ row' = row \/ row' = IF row = None THEN None ELSE Added(row, req[p].old)
  BY DEF apply, ApplyFails, At, Types, InRow, ghosts, env
<1>6. lost => lost'
  <2>1. CASE apply(p)
    BY <2>1 DEF apply, ghosts
  <2>2. CASE ApplyFails(p)
    <3>1. lost' = (lost \/ req[p].old # Zero)
      BY <2>2 DEF ApplyFails
    <3>. QED BY <3>1, Zenon
  <2>. QED BY <2>1, <2>2
<1>1. /\ req' = [req EXCEPT ![p] = req'[p]]
      /\ req'[p] = Idle \/ Here(req'[p]) = "delrow"
  BY <1>0, Go_apply
<1>2. CalmReq(req[p], req'[p])
  BY <1>0, <1>1, CalmMove, CalmEnd DEF Busy, Metaing, HoldsComment
<1>4. Voters' = Voters
  BY <1>0 DEF Voters
<1>5. /\ row' = None <=> row = None
      /\ row # None => /\ row'.title = row.title /\ row'.mode = row.mode /\ row'.del = row.del
                       /\ row'.xp = row.xp /\ row'.mod = row.mod
  <2>1. CASE row # None /\ row' = Added(row, req[p].old)
    <3>1. row \in Row /\ row' \in Row \cup {None} /\ req[p].old \in Delta
      BY <1>0, <2>1 DEF Types, TypeOK, ReqOK, Knows
    <3>2. Added(row, req[p].old) \in Row
      BY <3>1, AddedOK
    <3>. QED BY <2>1, <3>1, <3>2, NoneAssumption DEF Row, Added
  <2>. QED BY <1>0, <2>1
<1>. QED BY <1>0, <1>6, <1>1, <1>2, <1>4, <1>5, CalmWrite

(* the vote that VotePost stores *)
LEMMA Agree_setvote ==
  ASSUME Types, Types', TextInv, AgreeInv, NEW p \in Procs, setvote(p)
  PROVE  AgreeInv'
<1>0. ReqOK /\ Here(req[p]) = "setvote" /\ Continue(p, req[p])
  BY DEF setvote, At, Types
<1>1. req' = [req EXCEPT ![p] = req'[p]] /\ req'[p].op = "vote" /\ Here(req'[p]) = "count"
  BY <1>0, Go_setvote DEF Same
<1>2. CalmReq(req[p], req'[p])
  BY <1>0, <1>1, CalmMove DEF Busy, Metaing, HoldsComment
<1>3. db'.post = db.post /\ db'.comments = db.comments /\ db'.hist = db.hist /\ db'.xposts = db.xposts
  BY DEF setvote, Types, TypeOK
<1>4. /\ UNCHANGED <<row, now, lost>> /\ stale \subseteq stale'
      /\ "purged" \in stale' => "purged" \in stale
      /\ row = None => "votes" \in stale'
  BY DEF setvote, Stale, env
<1>5. Doomed' => "votes" \in stale'
  BY <1>4 DEF Doomed, TextInv
<1>. QED BY <1>0, <1>1, <1>2, <1>3, <1>4, <1>5, CalmWrite

(* the deletion of the votes *)
LEMMA Agree_delvotes ==
  ASSUME Types, Types', AgreeInv, NEW p \in Procs, delvotes(p)
  PROVE  AgreeInv'
<1>0. ReqOK /\ Here(req[p]) = "delvotes" /\ Continue(p, req[p])
  BY DEF delvotes, At, Types
<1>1. req' = [req EXCEPT ![p] = req'[p]] /\ Here(req'[p]) = "zerodirty"
  BY <1>0, Go_delvotes
<1>2. CalmReq(req[p], req'[p])
  BY <1>0, <1>1, CalmMove DEF Busy, Metaing, HoldsComment
<1>3. /\ db'.post = db.post /\ db'.comments = db.comments /\ db'.hist = db.hist /\ db'.xposts = db.xposts
      /\ db'.votes = [u \in Users |-> "none"]
  BY DEF delvotes, Types, TypeOK
<1>4. /\ UNCHANGED <<row, now, lost>> /\ stale \subseteq stale'
      /\ "purged" \in stale' => "purged" \in stale
  BY DEF delvotes, Stale, env
<1>5. Voters' \subseteq Voters
  BY <1>3 DEF Voters
<1>. QED BY <1>0, <1>1, <1>2, <1>3, <1>4, <1>5, CalmWrite

(* the old text is archived *)
LEMMA Agree_archive ==
  ASSUME Types, Types', TextInv, AgreeInv, NEW p \in Procs, archive(p)
  PROVE  AgreeInv'
<1>0. ReqOK /\ Here(req[p]) = "archive" /\ now \in Nat
  BY DEF archive, At, Types, TypeOK, Times
<1>1. /\ req' = [req EXCEPT ![p] = req'[p]] /\ SameButAt(req'[p], req[p])
      /\ req[p].op \in {"edit", "title", "delete", "cedit", "cdelete"}
      /\ Here(req'[p]) = CASE req[p].op \in {"edit", "delete"} -> "setpost"
                           [] req[p].op = "title" -> "setrow"
                           [] OTHER -> "setcomment"
      /\ req'[p].at = IF req[p].post = None THEN now ELSE Later(req[p].post.mod)
  BY Go_archive
<1>3. TimeCalm(req[p], req'[p])
  <2>1. ~Settling(req[p]) /\ ~Touching(req[p]) /\ ~Touching(req'[p])
    BY <1>0, <1>1 DEF Settling, Touching
  <2>2. Timely(req[p]) => Timely(req'[p])
    <3>1. CASE req[p].op \in {"cedit", "cdelete"}
      <4>1. HoldsComment(req[p]) /\ req[p].post = None /\ req'[p].old = req[p].old /\ req'[p].at = now
        BY <1>0, <1>1, <3>1 DEF HoldsComment, CommentOps, ReqOK, Knows, SameButAt
      <4>. QED BY <1>0, <4>1 DEF Timely
    <3>2. CASE req[p].op \in {"edit", "title", "delete"}
      BY <1>1, <3>2 DEF Timely, HoldsComment, CommentOps, SameButAt
    <3>. QED BY <1>1, <3>1, <3>2
  <2>. QED BY <2>1, <2>2 DEF TimeCalm
<1>4. RowCalm(req[p], req'[p]) /\ Crossing(req'[p]) = Crossing(req[p]) /\ GoneCalm(req[p], req'[p])
  BY <1>0, <1>1, NoPurger DEF RowCalm, Crossing, Metaing, Settling
<1>5. /\ db'.post = db.post /\ db'.comments = db.comments /\ db'.xposts = db.xposts /\ db'.votes = db.votes
  BY DEF archive, Types, TypeOK
<1>6. /\ UNCHANGED <<row, now, lost>> /\ stale \subseteq stale'
      /\ "purged" \in stale' => "purged" \in stale
      /\ row = None => "post" \in stale'
  BY DEF archive, Stale, env
<1>7. Voters' = Voters
  BY <1>5 DEF Voters
<1>8. ~Doomed'
  BY <1>6 DEF Doomed, TextInv
<1>9. Calm(p)
  BY <1>1, <1>3, <1>4, <1>5, <1>6, <1>7, <1>8 DEF Calm
<1>. QED BY <1>9, CalmAgree

(* what the others do is not touched by a step of p *)
LEMMA Unmoved ==
  ASSUME Types, NEW p \in Procs, req' = [req EXCEPT ![p] = req'[p]]
  PROVE  /\ \A q \in Procs : q # p =>
              /\ req'[q] = req[q] /\ Here(req[q])' = Here(req[q])
              /\ Settling(req[q])' <=> Settling(req[q])
              /\ Touching(req[q])' <=> Touching(req[q])
              /\ Metaing(req[q])' <=> Metaing(req[q])
              /\ Timely(req[q]) /\ now' = now => Timely(req[q])'
              /\ Purger(req[q])' <=> Purger(req[q])
              /\ BeforeDel(req[q])' <=> BeforeDel(req[q])
         /\ Here(req[p])' = Here(req'[p])
         /\ Settling(req[p])' <=> Settling(req'[p])
         /\ Touching(req[p])' <=> Touching(req'[p])
         /\ Metaing(req[p])' <=> Metaing(req'[p])
         /\ Timely(req'[p]) /\ now' = now => Timely(req[p])'
         /\ Purger(req[p])' <=> Purger(req'[p])
<1>1. \A q \in Procs : q # p => req'[q] = req[q]
  BY DEF Types, ReqOK
<1>. QED BY <1>1 DEF Settling, Touching, Metaing, Timely, HoldsComment, Purger, BeforeDel, Here

(* an idle goroutine owes nothing to either database *)
LEMMA IdleDoesNothing ==
  ~Settling(Idle) /\ ~Touching(Idle) /\ ~Metaing(Idle) /\ ~Purger(Idle) /\ Timely(Idle) /\ Crossing(Idle) = 0
BY IdleIs DEF Settling, Touching, Metaing, Purger, Timely, Crossing

(* nothing is there that an article could be rebuilt from, or a purge could leave *)
LEMMA PurgedHasNoRow ==
  ASSUME TextInv, row # None, "purged" \in stale' => "purged" \in stale
  PROVE  ~Doomed /\ ~Doomed'
BY DEF TextInv, Doomed

(* without a purge nothing has to be gone *)
LEMMA NotDoomed ==
  ASSUME ~Doomed'
  PROVE  GoneInv'
BY DEF GoneInv, CrossGone, CommentsGone, VotesGone, HistGone, HistListed

(* the clock, when the comments stay *)
LEMMA ClockedStays ==
  ASSUME Types, Types', TimeInv, NEW p \in Procs, req' = [req EXCEPT ![p] = req'[p]], now' = now,
         db'.comments = db.comments, Timely(req'[p])
  PROVE  Clocked'
<1>1. Present(db.comments)' = Present(db.comments)
  BY DEF Present
<1>2. \A q \in Procs : Timely(req[q])'
  BY Unmoved DEF TimeInv, Clocked
<1>. QED BY <1>1, <1>2 DEF TimeInv, Clocked

(* who is about to set the time still has its comment *)
LEMMA TouchedStays ==
  ASSUME Types, Types', TimeInv, NEW p \in Procs, req' = [req EXCEPT ![p] = req'[p]],
         row' # None => row # None, db'.comments = db.comments, "comments" \in stale => "comments" \in stale',
         ~Touching(req'[p])
  PROVE  Touched'
<1>1. \A q \in Procs : Touching(req[q])' => Touching(req[q]) /\ req'[q] = req[q]
  BY Unmoved
<1>. QED BY <1>1 DEF TimeInv, Touched

(* the INSERT of CreatePost *)
LEMMA Agree_insert ==
  ASSUME Types, Types', Kept, AgreeInv, NEW p \in Procs, insert(p)
  PROVE  AgreeInv'
<1>0. ReqOK /\ Here(req[p]) = "insert" /\ UNCHANGED <<db, now, stale, lost>>
  BY DEF insert, At, Types, env, ghosts
<1>1. CASE Refuse(p) /\ UNCHANGED row
  <2>1. req' = [req EXCEPT ![p] = req'[p]] /\ req'[p] = Idle
    BY <1>0, <1>1, RefuseOK DEF Ends
  <2>2. CalmReq(req[p], req'[p])
    BY <1>0, <2>1, CalmEnd DEF Busy, Metaing
  <2>. QED BY <1>0, <1>1, <2>1, <2>2, CalmRead
<1>2. CASE row = None /\ "purged" \notin stale /\ row' = NewRow /\ Continue(p, req[p])
  <2>1. req' = [req EXCEPT ![p] = req'[p]] /\ Here(req'[p]) = "setnew"
    BY <1>0, <1>2, Go_insert
  <2>2. \A q \in Procs : req[q].op \in {"idle", "create"}
    BY <1>2 DEF Kept, PostInv, NoRow
  <2>3. \A q \in Procs : Here(req[q]) \in {"none", "lookup", "insert", "setnew"}
    <3>1. ASSUME NEW q \in Procs, Here(req[q]) # "none" PROVE Here(req[q]) \in {"lookup", "insert", "setnew"}
      <4>1. PICK y : Follows(req[q].op, Here(req[q]), y)
        BY <1>0, <3>1, HereOps
      <4>. QED BY <2>2, <4>1 DEF Follows, CommentOps
    <3>. QED BY <3>1
  <2>4. Crossings' = 0
    <3>1. Crossings = 0
      BY <2>3, NoCrossings
    <3>2. Crossing(req[p]) = 0 /\ Crossing(req'[p]) = 0
      BY <1>0, <2>1 DEF Crossing
    <3>. QED BY <1>0, <2>1, <3>1, <3>2, CrossingsStep
  <2>5. ~lost => db.post = None /\ db.xposts = {}
    BY <1>2 DEF AgreeInv, RowInv, Unborn
  <2>6. row' # None /\ row'.xp = 0
    BY <1>2, NewOK, NoneAssumption DEF NewRow
  <2>7. ~Both' /\ ~Clear' /\ ~Doomed'
    BY <1>0, <1>2, <2>5 DEF Both, Sure, Clear, Doomed
  <2>8. RowInv'
    <3>1. XpExact'
      BY <1>0, <2>4, <2>5, <2>6, FS_EmptySet DEF XpExact, Sure
    <3>. QED BY <2>6, <2>7, <3>1 DEF RowInv, Unborn, TitleSame, ModeSame, DelSame
  <2>9. TimeInv'
    <3>1. Timely(req'[p]) /\ ~Touching(req'[p])
      BY <2>1 DEF Timely, HoldsComment, Touching
    <3>2. Clocked'
      BY <1>0, <2>1, <3>1, ClockedStays DEF AgreeInv
    <3>3. \A q \in Procs : ~Touching(req[q])'
      BY <2>1, <2>3, <3>1, Unmoved DEF Touching
    <3>. QED BY <2>7, <3>2, <3>3 DEF TimeInv, PostTime, CommentTimes, RowTime, Touched
  <2>. QED BY <2>7, <2>8, <2>9, NotDoomed DEF AgreeInv
<1>. QED BY <1>1, <1>2 DEF insert

(* the record that CreatePost stores *)
LEMMA Agree_setnew ==
  ASSUME Types, Types', TextInv, AgreeInv, NEW p \in Procs, setnew(p)
  PROVE  AgreeInv'
<1>0. /\ ReqOK /\ Here(req[p]) = "setnew" /\ Continue(p, req[p]) /\ UNCHANGED <<row, now, lost>>
      /\ stale' = IF row # NewRow \/ db.post \notin {None, NewPost} THEN stale \cup {"post"} ELSE stale
  BY DEF setnew, At, Types, env, Stale
<1>1. req' = [req EXCEPT ![p] = req'[p]] /\ req'[p] = Idle
  BY <1>0, Go_setnew
<1>2. /\ db'.post = NewPost /\ db'.comments = db.comments /\ db'.xposts = db.xposts
  BY DEF setnew, Types, TypeOK
<1>3. stale \subseteq stale' /\ ("purged" \in stale' => "purged" \in stale) /\ ("post" \notin stale' => row = NewRow)
  BY <1>0
<1>4. NewRow \in Row /\ NewRow # None /\ NewRow.title = NewPost.title /\ NewRow.mode = NewPost.mode
      /\ NewRow.del = NewPost.del /\ NewRow.mod = NewPost.mod /\ NewRow.mod = now
  BY NewOK, NoneAssumption DEF NewRow, NewPost
<1>5. RowInv'
  <2>1. Unborn'
    <3>1. row # None \/ "purged" \in stale
      BY <1>0 DEF AgreeInv, RowInv, Unborn
    <3>. QED BY <1>0, <1>3, <3>1 DEF Unborn
  <2>2. XpExact'
    <3>1. Crossings' = Crossings
      BY <1>0, <1>1, CrossingsStep, IdleDoesNothing DEF Crossing
    <3>. QED BY <1>0, <1>2, <1>3, <3>1 DEF AgreeInv, RowInv, XpExact, Sure
  <2>3. Both' => row'.title = db'.post.title /\ row'.mode = db'.post.mode /\ row'.del = db'.post.del
    BY <1>0, <1>2, <1>3, <1>4 DEF Both, Sure
  <2>. QED BY <2>1, <2>2, <2>3 DEF RowInv, TitleSame, ModeSame, DelSame
<1>6. TimeInv'
  <2>1. Clear' => row' = NewRow /\ row'.mod = now /\ db'.post.mod = now
    BY <1>0, <1>2, <1>3, <1>4 DEF Clear, Both, Sure
  <2>2. now \in Nat
    BY DEF Types, TypeOK, Times
  <2>3. Present(db.comments)' = Present(db.comments) /\ \A s \in Present(db.comments) : db'.comments[s].mod <= now
    BY <1>2 DEF AgreeInv, TimeInv, Clocked, Present
  <2>4. PostTime' /\ CommentTimes' /\ RowTime'
    BY <2>1, <2>2, <2>3 DEF PostTime, CommentTimes, RowTime
  <2>5. Clocked' /\ Touched'
    BY <1>0, <1>1, <1>2, <1>3, IdleDoesNothing, ClockedStays, TouchedStays DEF AgreeInv
  <2>. QED BY <2>4, <2>5 DEF TimeInv
<1>7. ~Doomed'
  BY <1>0, <1>3, <1>4, PurgedHasNoRow DEF Doomed
<1>. QED BY <1>5, <1>6, <1>7, NotDoomed DEF AgreeInv

(* a record is made from the file of the board *)
LEMMA Agree_import ==
  ASSUME Types, Types', Kept, AgreeInv, NEW p \in Procs, import(p)
  PROVE  AgreeInv'
<1>0. /\ ReqOK /\ Here(req[p]) = "getbody" /\ UNCHANGED <<req, row, now, lost>>
      /\ stale' = stale \cup {"post"}
  BY DEF import, At, Types, env, Stale
<1>1. db'.comments = db.comments
  BY DEF import, Types, TypeOK
<1>2. ~Sure' /\ ~Both' /\ ~Clear' /\ ~Doomed'
  BY <1>0 DEF Sure, Both, Clear, Doomed
<1>3. row # None \/ "purged" \in stale
  <2>1. req[p].op \notin {"idle", "create"}
    <3>1. PICK y : Follows(req[p].op, Here(req[p]), y)
      BY <1>0, HereOps
    <3>. QED BY <1>0, <3>1 DEF Follows
  <2>. QED BY <2>1 DEF Kept, PostInv, NoRow
<1>4. RowInv'
  BY <1>0, <1>2, <1>3 DEF RowInv, Unborn, XpExact, TitleSame, ModeSame, DelSame
<1>5. Touched'
  BY <1>0, <1>1 DEF AgreeInv, TimeInv, Touched, Touching, Here
<1>6. Clocked'
  BY <1>0, <1>1 DEF AgreeInv, TimeInv, Clocked, Present, Timely, HoldsComment, Here
<1>7. TimeInv'
  BY <1>2, <1>5, <1>6 DEF TimeInv, PostTime, CommentTimes, RowTime
<1>. QED BY <1>2, <1>4, <1>7, NotDoomed DEF AgreeInv

(* the comment that AddComment stores *)
LEMMA Agree_newcomment ==
  ASSUME Types, Types', Kept, TextInv, AgreeInv, NEW p \in Procs, newcomment(p)
  PROVE  AgreeInv'
<1>. DEFINE n == req[p].seq
            new == [by |-> req[p].user, text |-> {req[p].id}, del |-> FALSE, mod |-> 0]
<1>0. /\ ReqOK /\ Here(req[p]) = "newcomment" /\ Continue(p, req[p]) /\ UNCHANGED <<row, now, lost>>
      /\ stale' = IF row = None THEN stale \cup {"comments"} ELSE stale
  BY DEF newcomment, At, Types, env, Stale
<1>1. /\ req' = [req EXCEPT ![p] = req'[p]] /\ Here(req'[p]) = "count" /\ req[p].op = "comment"
  BY <1>0, Go_newcomment
<1>2. /\ n \in Seqs /\ db'.post = db.post /\ db'.xposts = db.xposts
      /\ db'.comments = [db.comments EXCEPT ![n] = new] /\ db.comments \in [Seqs -> Comment \cup {None}]
  BY <1>0 DEF newcomment, Types, TypeOK, ReqOK, Knows
<1>3. stale \subseteq stale' /\ ("purged" \in stale' => "purged" \in stale)
  BY <1>0
<1>4. RowInv'
  <2>1. RowCalm(req[p], req'[p]) /\ Crossing(req'[p]) = Crossing(req[p])
    BY <1>0, <1>1 DEF RowCalm, Crossing, Metaing, Settling
  <2>. QED BY <1>0, <1>1, <1>2, <1>3, <2>1, RowStays DEF AgreeInv
<1>5. new.mod = 0 /\ new # None
  <2>1. db'.comments[n] = new /\ db'.comments[n] \in Comment \cup {None}
    BY <1>2 DEF Types, TypeOK
  <2>2. new \in Comment
    <3>1. req[p].user \in Users /\ {req[p].id} \in SUBSET Ids
      BY <1>0, <1>1 DEF ReqOK, Knows, Req
    <3>. QED BY <3>1 DEF Comment, Times
  <2>. QED BY <2>2, NoneAssumption
<1>. HIDE DEF new
<1>6. /\ db'.comments[n] = new /\ \A s \in Seqs : s # n => db'.comments[s] = db.comments[s]
      /\ Present(db.comments)' = {s \in Seqs : db'.comments[s] # None}
      /\ Present(db.comments) = {s \in Seqs : db.comments[s] # None}
      /\ n \in Seqs /\ new.mod = 0 /\ new # None
  BY <1>2, <1>5, PresentIs DEF Present
<1>7. TimeInv'
  <2>0. /\ now \in Nat /\ (row # None => row.mod \in Nat) /\ UNCHANGED <<row, now, lost>>
        /\ db'.post = db.post
    BY <1>0, <1>2 DEF Types, TypeOK, Times, Row
  <2>1. row # None => db.comments[n] = None
    BY <1>0 DEF Kept, PostInv, SeqInv
  <2>2. Clear' => Clear /\ row # None
    BY <1>0, <1>2, <1>3 DEF Clear, Both, Sure
  <2>3. \A q \in Procs : /\ Settling(req[q]) => Settling(req[q])' /\ req'[q] = req[q]
                         /\ Touching(req[q])' <=> Touching(req[q])
                         /\ Touching(req[q]) => req'[q] = req[q]
    BY <1>0, <1>1, Unmoved DEF Settling, Touching
  <2>. HIDE DEF n
  <2>4. PostTime'
    BY <2>0, <2>2, <2>3 DEF AgreeInv, TimeInv, PostTime
  <2>5. CommentTimes'
    <3>. SUFFICES ASSUME Clear', NEW s \in Seqs, db'.comments[s] # None
                  PROVE  \/ db'.comments[s].mod <= row'.mod
                         \/ \E q \in Procs : Touching(req[q])' /\ req'[q].at = db'.comments[s].mod
      BY <1>6 DEF CommentTimes
    <3>1. CASE s = n
      BY <1>6, <2>0, <2>2, <3>1
    <3>2. CASE s # n
      <4>1. s \in Present(db.comments) /\ db'.comments[s] = db.comments[s]
        BY <1>6, <3>2
      <4>. QED BY <2>0, <2>2, <2>3, <4>1 DEF AgreeInv, TimeInv, CommentTimes
    <3>. QED BY <3>1, <3>2
  <2>6. RowTime'
    <3>1. ASSUME Clear' PROVE \A s \in Present(db.comments) : s \in Present(db.comments)' /\ db'.comments[s] = db.comments[s]
      BY <1>6, <2>1, <2>2, <3>1
    <3>. QED BY <2>0, <2>2, <2>3, <3>1 DEF AgreeInv, TimeInv, RowTime
  <2>7. Touched'
    <3>. SUFFICES ASSUME row' # None, "comments" \notin stale', NEW q \in Procs, Touching(req[q])'
                  PROVE  db'.comments[req'[q].seq] # None /\ req'[q].at <= db'.comments[req'[q].seq].mod
      BY DEF Touched
    <3>1. Touching(req[q]) /\ req'[q] = req[q]
      BY <2>3
    <3>2. db.comments[req[q].seq] # None /\ req[q].at <= db.comments[req[q].seq].mod
      BY <1>0, <1>3, <3>1 DEF AgreeInv, TimeInv, Touched
    <3>3. req[q].seq \in Seqs
      <4>1. PICK y : Follows(req[q].op, Here(req[q]), y)
        BY <1>0, <3>1, HereOps DEF Touching
      <4>. QED BY <1>0, <3>1, <4>1 DEF Follows, Touching, ReqOK, Knows, CommentOps
    <3>4. db'.comments[req[q].seq] = db.comments[req[q].seq]
      BY <1>0, <1>6, <2>1, <3>2, <3>3
    <3>. QED BY <3>1, <3>2, <3>4
  <2>8. Clocked'
    <3>1. \A s \in Present(db.comments)' : db'.comments[s].mod <= now'
      BY <1>6, <2>0 DEF AgreeInv, TimeInv, Clocked
    <3>2. Timely(req'[p])
      BY <1>1 DEF Timely, HoldsComment
    <3>3. \A q \in Procs : Timely(req[q])'
      BY <1>1, <2>0, <3>2, Unmoved DEF AgreeInv, TimeInv, Clocked
    <3>. QED BY <3>1, <3>3 DEF Clocked
  <2>. QED BY <2>4, <2>5, <2>6, <2>7, <2>8 DEF TimeInv
<1>8. ~Doomed'
  BY <1>0, <1>3, PurgedHasNoRow DEF Doomed
<1>. QED BY <1>4, <1>7, <1>8, NotDoomed DEF AgreeInv

(* only UpdateComment sets the time of the article *)
LEMMA TouchOps ==
  ASSUME ReqOK, NEW q \in Procs, Touching(req[q])
  PROVE  req[q].op = "cedit" /\ req[q].seq \in Seqs
<1>1. PICK y : Follows(req[q].op, Here(req[q]), y)
  BY HereOps DEF Touching
<1>. QED BY <1>1 DEF Follows, Touching, ReqOK, Knows, CommentOps

(* a comment that is stored again *)
LEMMA Agree_setcomment ==
  ASSUME Types, Types', AgreeInv, NEW p \in Procs, setcomment(p)
  PROVE  AgreeInv'
<1>. DEFINE n == req[p].seq  new == Changed(req[p])  old == req[p].old
<1>0. /\ ReqOK /\ Here(req[p]) = "setcomment" /\ Continue(p, req[p]) /\ UNCHANGED <<row, now, lost>>
      /\ stale' = IF db.comments[n] # old THEN stale \cup {"comments"} ELSE stale
  BY DEF setcomment, At, Types, env, Stale
<1>1. /\ req' = [req EXCEPT ![p] = req'[p]]
      /\ \/ req[p].op \in {"comment", "cdelete", "cundelete"} /\ req'[p] = Idle
         \/ req[p].op = "cedit" /\ Here(req'[p]) = "touch" /\ Same(req'[p], req[p])
  BY <1>0, Go_setcomment
<1>2. /\ n \in Seqs /\ db'.post = db.post /\ db'.xposts = db.xposts /\ db'.hist = db.hist /\ db'.votes = db.votes
      /\ db'.comments = [db.comments EXCEPT ![n] = new] /\ db.comments \in [Seqs -> Comment \cup {None}]
      /\ old \in Comment
  BY <1>0 DEF setcomment, Types, TypeOK, ReqOK, Knows, HoldsComment
<1>3. /\ stale \subseteq stale' /\ ("purged" \in stale' => "purged" \in stale)
      /\ "comments" \notin stale' => db.comments[n] = old
  BY <1>0
<1>4. /\ RowCalm(req[p], req'[p]) /\ Crossing(req'[p]) = Crossing(req[p]) /\ GoneCalm(req[p], req'[p])
  <2>1. CASE req'[p] = Idle
    BY <1>0, <2>1, IdleIs, IdleDoesNothing, NoPurger DEF RowCalm, Crossing, Metaing, Settling
  <2>2. CASE Here(req'[p]) = "touch"
    BY <1>0, <2>2, NoPurger DEF RowCalm, Crossing, Metaing, Settling
  <2>. QED BY <1>1, <2>1, <2>2
<1>5. RowInv'
  BY <1>0, <1>1, <1>2, <1>3, <1>4, RowStays DEF AgreeInv
<1>6. /\ new.mod = IF req[p].op = "cedit" THEN req[p].at ELSE old.mod
      /\ new # None /\ old # None /\ new.mod \in Nat /\ old.mod \in Nat /\ req[p].at \in Nat
  <2>1. req[p].at \in Nat /\ req[p].id \in Ids /\ old.mod \in Nat
    BY <1>0, <1>2 DEF ReqOK, Req, Times, Comment
  <2>2. new \in Comment /\ new.mod = IF req[p].op = "cedit" THEN req[p].at ELSE old.mod
    BY <1>2, <2>1 DEF Changed, Comment, Times
  <2>. HIDE DEF new
  <2>. QED BY <1>2, <2>1, <2>2, NoneAssumption
<1>7. /\ old.mod <= now
      /\ req[p].op = "cedit" => old.mod <= req[p].at /\ req[p].at <= now
  BY <1>0 DEF AgreeInv, TimeInv, Clocked, Timely, HoldsComment
<1>. HIDE DEF new, old
<1>8. /\ db'.comments[n] = new /\ \A s \in Seqs : s # n => db'.comments[s] = db.comments[s]
      /\ Present(db.comments)' = {s \in Seqs : db'.comments[s] # None}
      /\ Present(db.comments) = {s \in Seqs : db.comments[s] # None}
      /\ n \in Seqs
  BY <1>2, PresentIs DEF Present
<1>9. TimeInv'
  <2>0. /\ now \in Nat /\ (row # None => row.mod \in Nat) /\ UNCHANGED <<row, now, lost>>
        /\ db'.post = db.post
    BY <1>0, <1>2 DEF Types, TypeOK, Times, Row
  <2>1. Clear' => Clear /\ row # None /\ db.comments[n] = old
    BY <1>0, <1>2, <1>3 DEF Clear, Both, Sure
  <2>2. /\ req[p].op = "cedit" => Touching(req[p])' /\ req'[p].at = req[p].at /\ req'[p].seq = n
        /\ req[p].op # "cedit" => ~Touching(req[p])'
        /\ ~Settling(req[p]) /\ ~Touching(req[p])
    <3>1. CASE req'[p] = Idle /\ req[p].op # "cedit"
      BY <1>0, <1>1, <3>1, Unmoved, IdleDoesNothing DEF Settling, Touching
    <3>2. CASE req[p].op = "cedit" /\ Here(req'[p]) = "touch" /\ Same(req'[p], req[p])
      BY <1>0, <1>1, <3>2, Unmoved DEF Settling, Touching, Same
    <3>. QED BY <1>1, <3>1, <3>2
  <2>3. \A q \in Procs : /\ Settling(req[q]) => Settling(req[q])' /\ req'[q] = req[q]
                         /\ Touching(req[q]) => Touching(req[q])' /\ req'[q] = req[q]
                         /\ Touching(req[q])' => q = p \/ (Touching(req[q]) /\ req'[q] = req[q])
    BY <1>1, <2>2, Unmoved
  <2>. HIDE DEF n
  <2>4. PostTime'
    BY <2>0, <2>1, <2>3 DEF AgreeInv, TimeInv, PostTime
  <2>5. CommentTimes'
    <3>. SUFFICES ASSUME Clear', NEW s \in Seqs, db'.comments[s] # None
                  PROVE  \/ db'.comments[s].mod <= row'.mod
                         \/ \E q \in Procs : Touching(req[q])' /\ req'[q].at = db'.comments[s].mod
      BY <1>8 DEF CommentTimes
    <3>1. CASE s = n /\ req[p].op = "cedit"
      BY <1>6, <1>8, <2>2, <3>1
    <3>2. CASE s # n \/ req[p].op # "cedit"
      <4>1. s \in Present(db.comments) /\ db'.comments[s].mod = db.comments[s].mod
        BY <1>6, <1>8, <2>1, <3>2
      <4>. QED BY <2>0, <2>1, <2>3, <4>1 DEF AgreeInv, TimeInv, CommentTimes
    <3>. QED BY <3>1, <3>2
  <2>6. RowTime'
    <3>. SUFFICES ASSUME Clear', ~\E q \in Procs : (Touching(req[q]) \/ Settling(req[q]))'
                  PROVE  \/ row'.mod = db'.post.mod
                         \/ \E s \in Present(db.comments)' : row'.mod = db'.comments[s].mod
      BY DEF RowTime
    <3>1. \A q \in Procs : ~Touching(req[q]) /\ ~Settling(req[q])
      BY <2>3
    <3>2. req[p].op # "cedit"
      BY <2>2
    <3>3. \A s \in Present(db.comments) : s \in Present(db.comments)' /\ db'.comments[s].mod = db.comments[s].mod
      BY <1>6, <1>8, <2>1, <3>2
    <3>. QED BY <2>0, <2>1, <3>1, <3>3 DEF AgreeInv, TimeInv, RowTime
  <2>7. Touched'
    <3>. SUFFICES ASSUME row' # None, "comments" \notin stale', NEW q \in Procs, Touching(req[q])'
                  PROVE  db'.comments[req'[q].seq] # None /\ req'[q].at <= db'.comments[req'[q].seq].mod
      BY DEF Touched
    <3>1. CASE q = p
      BY <1>6, <1>8, <2>2, <3>1
    <3>2. CASE q # p
      <4>1. Touching(req[q]) /\ req'[q] = req[q]
        BY <2>3, <3>2
      <4>2. db.comments[req[q].seq] # None /\ req[q].at <= db.comments[req[q].seq].mod
        BY <1>0, <1>3, <4>1 DEF AgreeInv, TimeInv, Touched
      <4>3. req[q].seq \in Seqs /\ req[q].at \in Nat
        BY <1>0, <4>1, TouchOps DEF ReqOK, Req, Times
      <4>4. CASE req[q].seq = n
        BY <1>3, <1>6, <1>7, <1>8, <4>1, <4>2, <4>3, <4>4
      <4>5. CASE req[q].seq # n
        BY <1>8, <4>1, <4>2, <4>3, <4>5
      <4>. QED BY <4>4, <4>5
    <3>. QED BY <3>1, <3>2
  <2>8. Clocked'
    <3>1. \A s \in Present(db.comments)' : db'.comments[s].mod <= now'
      BY <1>6, <1>7, <1>8, <2>0 DEF AgreeInv, TimeInv, Clocked
    <3>2. Timely(req'[p])
      <4>1. CASE req'[p] = Idle
        BY <4>1, IdleDoesNothing
      <4>2. CASE Here(req'[p]) = "touch"
        BY <4>2 DEF Timely, HoldsComment
      <4>. QED BY <1>1, <4>1, <4>2
    <3>3. \A q \in Procs : Timely(req[q])'
      BY <1>1, <2>0, <3>2, Unmoved DEF AgreeInv, TimeInv, Clocked
    <3>. QED BY <3>1, <3>3 DEF Clocked
  <2>. QED BY <2>4, <2>5, <2>6, <2>7, <2>8 DEF TimeInv
<1>10. GoneInv'
  <2>1. ASSUME Doomed' PROVE Present(db'.comments) = Present(db.comments)
    <3>1. db.comments[n] = old /\ Doomed
      BY <1>0, <1>3, <2>1 DEF Doomed
    <3>2. Present(db'.comments) = Present(db.comments)'
      BY DEF Present
    <3>. QED BY <1>6, <1>8, <3>1, <3>2
  <2>2. Voters' = Voters
    BY <1>2 DEF Voters
  <2>3. \A o \in {0} \cup Seqs : db'.hist[o] = <<>> \/ (db.hist[o] # <<>> /\ Len(db'.hist[o]) = Len(db.hist[o]))
    BY <1>2
  <2>. QED BY <1>0, <1>1, <1>2, <1>3, <1>4, <2>1, <2>2, <2>3, GoneStays DEF AgreeInv
<1>. QED BY <1>5, <1>9, <1>10 DEF AgreeInv

(* the new time of the article after UpdateComment *)
LEMMA Agree_touch ==
  ASSUME Types, Types', AgreeInv, NEW p \in Procs, touch(p)
  PROVE  AgreeInv'
<1>. DEFINE n == req[p].seq  at == req[p].at
<1>0. /\ ReqOK /\ Here(req[p]) = "touch" /\ Continue(p, req[p]) /\ UNCHANGED <<db, now, lost>>
      /\ stale' = IF row # None /\ row.mod >= at THEN stale \cup {"clock"} ELSE stale
      /\ row' = IF db.post = None \/ row = None THEN row ELSE [row EXCEPT !.mod = at]
  BY DEF touch, At, Types, env, Stale, InRow
<1>1. /\ req' = [req EXCEPT ![p] = req'[p]] /\ req'[p] = Idle
  BY <1>0, Go_touch
<1>2. /\ stale \subseteq stale' /\ ("purged" \in stale' => "purged" \in stale)
      /\ Touching(req[p]) /\ n \in Seqs /\ at \in Nat
  BY <1>0, TouchOps DEF Touching, ReqOK, Req, Times
<1>3. /\ row' = None <=> row = None
      /\ row # None => /\ row'.title = row.title /\ row'.mode = row.mode /\ row'.del = row.del /\ row'.xp = row.xp
                       /\ row.mod \in Nat /\ (db.post # None => row'.mod = at)
  <2>1. CASE row # None /\ db.post # None
    <3>1. row \in Row
      BY <2>1 DEF Types, TypeOK
    <3>2. row' = [row EXCEPT !.mod = at] /\ row' \in Row
      BY <1>0, <1>2, <2>1, <3>1 DEF Row, Times
    <3>. QED BY <2>1, <3>1, <3>2, NoneAssumption DEF Row, Times
  <2>2. CASE row = None \/ db.post = None
    BY <1>0, <2>2 DEF Types, TypeOK, Row, Times
  <2>. QED BY <2>1, <2>2
<1>4. RowInv'
  <2>1. RowCalm(req[p], req'[p]) /\ Crossing(req'[p]) = Crossing(req[p])
    BY <1>0, <1>1, IdleIs, IdleDoesNothing DEF RowCalm, Crossing, Metaing, Settling
  <2>. QED BY <1>0, <1>1, <1>2, <1>3, <2>1, RowStays DEF AgreeInv
<1>5. GoneInv'
  <2>1. GoneCalm(req[p], req'[p])
    BY <1>0, <1>1, IdleIs, NoPurger
  <2>2. Voters' = Voters
    BY <1>0 DEF Voters
  <2>. QED BY <1>0, <1>1, <1>2, <2>1, <2>2, GoneStays DEF AgreeInv
<1>6. TimeInv'
  <2>1. Clear' => Clear /\ row.mod < at /\ row'.mod = at /\ row.mod \in Nat
    BY <1>0, <1>2, <1>3 DEF Clear, Both, Sure
  <2>2. \A q \in Procs : /\ Settling(req[q]) => Settling(req[q])' /\ req'[q] = req[q]
                         /\ Touching(req[q]) => q = p \/ (Touching(req[q])' /\ req'[q] = req[q])
    BY <1>0, <1>1, Unmoved DEF Settling
  <2>3. Present(db.comments)' = Present(db.comments) /\ db' = db
    BY <1>0 DEF Present
  <2>4. \A s \in Present(db.comments) : s \in Seqs /\ db.comments[s] # None /\ db.comments[s].mod \in Nat
    BY PresentIs DEF Types, TypeOK, Comment, Times
  <2>. HIDE DEF n, at
  <2>5. PostTime'
    <3>. SUFFICES ASSUME Clear' PROVE PostTime'
      BY DEF PostTime
    <3>1. db.post.mod \in Nat
      BY <2>1 DEF Clear, Both, Types, TypeOK, Post, Times
    <3>2. CASE db.post.mod <= row.mod
      BY <1>2, <2>1, <2>3, <3>1, <3>2 DEF PostTime
    <3>3. CASE \E q \in Procs : Settling(req[q]) /\ req[q].at = db.post.mod
      BY <2>2, <2>3, <3>3 DEF PostTime
    <3>. QED BY <2>1, <3>2, <3>3 DEF AgreeInv, TimeInv, PostTime
  <2>6. CommentTimes'
    <3>. SUFFICES ASSUME Clear', NEW s \in Present(db.comments)
                  PROVE  \/ db'.comments[s].mod <= row'.mod
                         \/ \E q \in Procs : Touching(req[q])' /\ req'[q].at = db'.comments[s].mod
      BY <2>3 DEF CommentTimes
    <3>1. CASE db.comments[s].mod <= row.mod
      BY <1>2, <2>1, <2>3, <2>4, <3>1
    <3>2. CASE \E q \in Procs : Touching(req[q]) /\ req[q].at = db.comments[s].mod
      <4>1. PICK q \in Procs : Touching(req[q]) /\ req[q].at = db.comments[s].mod
        BY <3>2
      <4>2. CASE q = p
        BY <1>2, <2>1, <2>3, <4>1, <4>2 DEF at
      <4>3. CASE q # p
        BY <2>2, <2>3, <4>1, <4>3
      <4>. QED BY <4>2, <4>3
    <3>. QED BY <2>1, <3>1, <3>2 DEF AgreeInv, TimeInv, CommentTimes
  <2>7. RowTime'
    <3>. SUFFICES ASSUME Clear' PROVE RowTime'
      BY DEF RowTime
    <3>1. db.comments[n] # None /\ at <= db.comments[n].mod
      BY <1>2, <2>1 DEF AgreeInv, TimeInv, Touched, Clear, Both, Sure, n, at
    <3>2. n \in Present(db.comments)
      BY <1>2, <3>1, PresentIs
    <3>3. ~(db.comments[n].mod <= row.mod)
      BY <1>2, <2>1, <2>4, <3>1, <3>2
    <3>4. PICK q \in Procs : Touching(req[q]) /\ req[q].at = db.comments[n].mod
      BY <2>1, <3>2, <3>3 DEF AgreeInv, TimeInv, CommentTimes
    <3>5. CASE q = p
      BY <2>1, <2>3, <3>2, <3>4, <3>5 DEF RowTime, at
    <3>6. CASE q # p
      BY <2>2, <3>4, <3>6 DEF RowTime
    <3>. QED BY <3>5, <3>6
  <2>8. Clocked' /\ Touched'
    BY <1>0, <1>1, <1>2, <1>3, IdleDoesNothing, ClockedStays, TouchedStays DEF AgreeInv
  <2>. QED BY <2>5, <2>6, <2>7, <2>8 DEF TimeInv
<1>. QED BY <1>4, <1>5, <1>6 DEF AgreeInv

(* a request that changes the article is not made before it is there *)
LEMMA ThereOrPurged ==
  ASSUME ReqOK, Kept, NEW p \in Procs, Here(req[p]) \in {"setpost", "setcross"}
  PROVE  row # None \/ "purged" \in stale
<1>1. PICK y : Follows(req[p].op, Here(req[p]), y)
  BY HereOps
<1>2. req[p].op \notin {"idle", "create"}
  BY <1>1 DEF Follows
<1>. QED BY <1>2 DEF Kept, PostInv, NoRow

(* the record is stored again *)
LEMMA Agree_setpost ==
  ASSUME Types, Types', Kept, TextInv, AgreeInv, NEW p \in Procs, setpost(p)
  PROVE  AgreeInv'
<1>. DEFINE r == req[p]  new == Record(req[p])
<1>0. /\ ReqOK /\ Here(req[p]) = "setpost" /\ UNCHANGED <<row, now, lost>>
      /\ stale' = (stale \ {"title"}) \cup (IF Overtaken(r) \/ db.post # r.old THEN {"post"} ELSE {})
                   \cup (IF row # None /\ row.mod # r.post.mod THEN {"clock"} ELSE {})
  BY DEF setpost, At, Types, env
<1>1. /\ req' = [req EXCEPT ![p] = req'[p]]
      /\ \/ req[p].op \in {"setmeta", "cross"} /\ req'[p] = Idle
         \/ /\ req[p].op \in {"edit", "delete", "undelete"} /\ Here(req'[p]) = "setrow"
            /\ SameButAt(req'[p], req[p]) /\ req'[p].at = new.mod
  BY Go_setpost
<1>2. /\ db'.post = new /\ db'.comments = db.comments /\ db'.xposts = db.xposts
  BY DEF setpost, Types, TypeOK
<1>3. /\ \A w \in {"post", "clock", "comments", "purged"} : w \in stale => w \in stale'
      /\ "purged" \in stale' => "purged" \in stale
      /\ "title" \notin stale'
      /\ "post" \notin stale' => ~Overtaken(r) /\ db.post = r.old
      /\ "clock" \notin stale' => row = None \/ row.mod = r.post.mod
  BY <1>0
<1>4. r.post \in Post /\ r.old \in Post /\ new \in Post /\ r.op \in {"edit", "delete", "undelete", "setmeta", "cross"}
  BY <1>0, RecordOK
<1>5. /\ new.title = r.post.title /\ new.mode = r.post.mode
      /\ r.op \in {"edit", "setmeta", "cross"} => new.del = r.post.del
      /\ r.op \in {"setmeta", "cross"} => new.mod = r.post.mod
  <2>1. r.id \in Ids /\ r.at \in Times /\ now \in Times
    BY <1>0 DEF ReqOK, Req, Types, TypeOK
  <2>. QED BY <1>4, <2>1 DEF Record, Post
<1>. HIDE DEF new
<1>6. Both' => /\ Both /\ row.title = r.post.title /\ row.mode = r.post.mode /\ row.del = r.post.del
  BY <1>0, <1>3, <1>4, NoneAssumption DEF Both, Sure, Overtaken
<1>7. r.op \in {"edit", "delete", "undelete"} => Settling(req[p])' /\ req'[p].op = r.op /\ req'[p].at = new.mod
  <2>1. SUFFICES ASSUME r.op \in {"edit", "delete", "undelete"}
                 PROVE  Settling(req[p])' /\ req'[p].op = r.op /\ req'[p].at = new.mod
    OBVIOUS
  <2>2. Here(req'[p]) = "setrow" /\ SameButAt(req'[p], req[p]) /\ req'[p].at = new.mod
    BY <1>1, <2>1
  <2>3. Settling(req'[p])
    BY <2>1, <2>2 DEF Settling, SameButAt
  <2>. QED BY <1>1, <2>2, <2>3, Unmoved DEF SameButAt
<1>8. ~Touching(req'[p]) /\ Timely(req'[p]) /\ Crossing(req'[p]) = 0 /\ Here(req'[p]) # "setnew"
  <2>1. CASE req'[p] = Idle
    BY <2>1, IdleIs, IdleDoesNothing
  <2>2. CASE Here(req'[p]) = "setrow"
    BY <2>2 DEF Touching, Timely, HoldsComment, Crossing
  <2>. QED BY <1>1, <2>1, <2>2
<1>9. RowInv'
  <2>1. Unborn'
    <3>1. row # None \/ "purged" \in stale
      BY <1>0, ThereOrPurged
    <3>. QED BY <1>0, <1>3, <3>1 DEF Unborn
  <2>2. XpExact'
    <3>1. Crossing(req[p]) = 0
      BY <1>0 DEF Crossing
    <3>2. Crossings' = Crossings
      BY <1>0, <1>1, <1>8, <3>1, CrossingsStep
    <3>3. Sure' => Sure
      BY <1>0, <1>3 DEF Sure
    <3>. QED BY <1>0, <1>2, <3>2, <3>3 DEF AgreeInv, RowInv, XpExact
  <2>3. TitleSame' /\ ModeSame'
    BY <1>0, <1>2, <1>5, <1>6 DEF TitleSame, ModeSame
  <2>4. DelSame'
    <3>1. CASE r.op \in {"edit", "setmeta", "cross"}
      BY <1>0, <1>2, <1>5, <1>6, <3>1 DEF DelSame
    <3>2. CASE r.op \in {"delete", "undelete"}
      BY <1>7, <3>2 DEF DelSame
    <3>. QED BY <1>4, <3>1, <3>2
  <2>. QED BY <2>1, <2>2, <2>3, <2>4 DEF RowInv
<1>10. TimeInv'
  <2>1. Clear' => Clear /\ row.mod = r.post.mod /\ row.mod \in Nat
    BY <1>0, <1>3, <1>6 DEF Clear, Both, Sure, Types, TypeOK, Row, Times
  <2>2. PostTime' /\ RowTime'
    <3>1. CASE r.op \in {"setmeta", "cross"}
      BY <1>0, <1>2, <1>5, <2>1, <3>1 DEF PostTime, RowTime
    <3>2. CASE r.op \in {"edit", "delete", "undelete"}
      BY <1>2, <1>7, <3>2 DEF PostTime, RowTime
    <3>. QED BY <1>4, <3>1, <3>2
  <2>3. CommentTimes'
    <3>1. Present(db.comments)' = Present(db.comments)
      BY <1>2 DEF Present
    <3>2. \A q \in Procs : Touching(req[q]) => Touching(req[q])' /\ req'[q] = req[q]
      BY <1>0, <1>1, Unmoved DEF Touching
    <3>. QED BY <1>0, <1>2, <2>1, <3>1, <3>2 DEF AgreeInv, TimeInv, CommentTimes
  <2>4. Clocked' /\ Touched'
    BY <1>0, <1>1, <1>2, <1>3, <1>8, ClockedStays, TouchedStays DEF AgreeInv
  <2>. QED BY <2>2, <2>3, <2>4 DEF TimeInv
<1>11. ~Doomed'
  BY <1>0, <1>3, PurgedHasNoRow DEF Doomed, Overtaken
<1>. QED BY <1>9, <1>10, <1>11, NotDoomed DEF AgreeInv

(* the UPDATE at the end of a change *)
LEMMA Agree_setrow ==
  ASSUME Types, Types', TextInv, AgreeInv, NEW p \in Procs, setrow(p)
  PROVE  AgreeInv'
<1>. DEFINE r == req[p]
<1>0. /\ ReqOK /\ Here(req[p]) = "setrow" /\ Continue(p, req[p]) /\ UNCHANGED <<db, now, lost>>
      /\ row' = IF row = None THEN None ELSE
                CASE r.op = "edit" -> [row EXCEPT !.title = r.post.title, !.mod = r.at]
                  [] r.op = "title" -> [row EXCEPT !.title = r.id, !.mod = r.at]
                  [] OTHER -> [row EXCEPT !.del = (r.op = "delete"), !.mod = r.at]
      /\ stale' = stale \cup ((IF r.op = "title" THEN {"title"} ELSE {})
             \cup (IF Overtaken(r) \/ Replaced(r) THEN {"post"} ELSE {})
             \cup (IF row # None /\ row.mod >= r.at THEN {"clock"} ELSE {})
             \cup (IF db.post # None /\ db.post.mod # r.at THEN {"clock"} ELSE {}))
  BY DEF setrow, At, Types, env, Stale, InRow
<1>1. /\ req' = [req EXCEPT ![p] = req'[p]] /\ req'[p] = Idle /\ r.op \in {"edit", "title", "delete", "undelete"}
  BY <1>0, Go_setrow
<1>2. /\ stale \subseteq stale' /\ ("purged" \in stale' => "purged" \in stale)
      /\ r.op = "title" => "title" \in stale'
      /\ "post" \notin stale' => ~Overtaken(r) /\ ~Replaced(r)
      /\ "clock" \notin stale' => (row = None \/ ~(row.mod >= r.at)) /\ (db.post = None \/ db.post.mod = r.at)
  BY <1>0
<1>3. r.post \in Post /\ r.at \in Nat /\ r.id \in Ids
  BY <1>0, <1>1 DEF ReqOK, Req, Knows, HoldsPost, ArticleOps, Times
<1>4. /\ row' = None <=> row = None
      /\ row # None => /\ row'.mode = row.mode /\ row'.xp = row.xp /\ row'.mod = r.at /\ row.mod \in Nat
                       /\ row'.title = IF r.op = "edit" THEN r.post.title
                                       ELSE IF r.op = "title" THEN r.id ELSE row.title
                       /\ row'.del = IF r.op \in {"delete", "undelete"} THEN (r.op = "delete") ELSE row.del
  <2>1. CASE row # None
    <3>1. row \in Row /\ row' \in Row \cup {None} /\ row.mod \in Nat
      BY <2>1 DEF Types, TypeOK, Row, Times
    <3>2. CASE r.op = "edit"
      <4>1. row' = [row EXCEPT !.title = r.post.title, !.mod = r.at] /\ row' \in Row
        BY <1>0, <1>3, <2>1, <3>1, <3>2 DEF Row, Post, Times
      <4>. QED BY <2>1, <3>1, <3>2, <4>1, NoneAssumption DEF Row
    <3>3. CASE r.op = "title"
      <4>1. row' = [row EXCEPT !.title = r.id, !.mod = r.at] /\ row' \in Row
        BY <1>0, <1>3, <2>1, <3>1, <3>3 DEF Row, Post, Times
      <4>. QED BY <2>1, <3>1, <3>3, <4>1, NoneAssumption DEF Row
    <3>4. CASE r.op \in {"delete", "undelete"}
      <4>1. row' = [row EXCEPT !.del = (r.op = "delete"), !.mod = r.at] /\ row' \in Row
        BY <1>0, <1>3, <2>1, <3>1, <3>4 DEF Row, Post, Times
      <4>. QED BY <2>1, <3>1, <3>4, <4>1, NoneAssumption DEF Row
    <3>. QED BY <1>1, <3>2, <3>3, <3>4
  <2>. QED BY <1>0, <2>1
<1>. HIDE DEF r
<1>5. Both' => /\ Both /\ row.title = r.post.title /\ row.mode = r.post.mode /\ row.del = r.post.del
               /\ ~Replaced(r)
  BY <1>0, <1>2, <1>4 DEF Both, Sure, Overtaken
<1>6. RowInv'
  <2>1. Unborn'
    <3>1. \A q \in Procs : Here(req[q])' = "setnew" => Here(req[q]) = "setnew"
      BY <1>0, <1>1, IdleIs, Unmoved
    <3>. QED BY <1>0, <1>2, <1>4, <3>1 DEF AgreeInv, RowInv, Unborn
  <2>2. XpExact'
    <3>1. Crossings' = Crossings
      BY <1>0, <1>1, CrossingsStep, IdleDoesNothing DEF Crossing
    <3>. QED BY <1>0, <1>2, <1>4, <3>1 DEF AgreeInv, RowInv, XpExact, Sure
  <2>3. TitleSame'
    <3>1. CASE r.op = "title"
      BY <1>2, <3>1 DEF TitleSame
    <3>2. CASE r.op # "title"
      <4>1. Both' => row'.title = row.title
        BY <1>4, <1>5, <3>2 DEF Both, Sure
      <4>. QED BY <1>0, <1>2, <1>5, <4>1 DEF AgreeInv, RowInv, TitleSame
    <3>. QED BY <3>1, <3>2
  <2>4. ModeSame'
    <3>1. \A q \in Procs : Metaing(req[q]) => Metaing(req[q])'
      BY <1>0, <1>1, Unmoved DEF Metaing
    <3>. QED BY <1>0, <1>4, <1>5, <3>1 DEF AgreeInv, RowInv, ModeSame, Both, Sure
  <2>5. DelSame'
    <3>1. CASE r.op \in {"delete", "undelete"}
      <4>1. Both' => db.post.del = (r.op = "delete")
        <5>1. SUFFICES ASSUME Both' PROVE db.post.del = (r.op = "delete")
          OBVIOUS
        <5>2. ~Replaced(r) /\ db.post # None
          BY <1>5, <5>1 DEF Both
        <5>. QED BY <3>1, <5>2 DEF Replaced
      <4>. QED BY <1>0, <1>4, <1>5, <3>1, <4>1 DEF DelSame, Both, Sure
    <3>2. CASE r.op \notin {"delete", "undelete"}
      <4>1. \A q \in Procs : Settling(req[q]) /\ req[q].op \in {"delete", "undelete"} =>
                               Settling(req[q])' /\ req'[q] = req[q]
        BY <1>1, <3>2, Unmoved DEF r
      <4>2. Both' => row'.del = row.del
        BY <1>4, <1>5, <3>2 DEF Both, Sure
      <4>. QED BY <1>0, <1>5, <4>1, <4>2 DEF AgreeInv, RowInv, DelSame
    <3>. QED BY <3>1, <3>2
  <2>. QED BY <2>1, <2>2, <2>3, <2>4, <2>5 DEF RowInv
<1>7. TimeInv'
  <2>1. Clear' => Clear /\ row.mod < r.at /\ row'.mod = r.at /\ db'.post.mod = r.at /\ row.mod \in Nat
    BY <1>0, <1>2, <1>3, <1>4, <1>5 DEF Clear, Both, Sure
  <2>2. PostTime' /\ RowTime'
    BY <1>3, <2>1 DEF PostTime, RowTime
  <2>3. CommentTimes'
    <3>1. Present(db.comments)' = Present(db.comments)
      BY <1>0 DEF Present
    <3>2. \A q \in Procs : Touching(req[q]) => Touching(req[q])' /\ req'[q] = req[q]
      BY <1>0, <1>1, Unmoved DEF Touching
    <3>3. \A s \in Present(db.comments) : db.comments[s].mod \in Nat
      BY PresentIs DEF Types, TypeOK, Comment, Times
    <3>4. ASSUME Clear', NEW s \in Present(db.comments)
          PROVE  \/ db.comments[s].mod <= row'.mod
                 \/ \E q \in Procs : Touching(req[q])' /\ req'[q].at = db.comments[s].mod
      <4>1. CASE db.comments[s].mod <= row.mod
        BY <1>3, <2>1, <3>3, <3>4, <4>1
      <4>2. CASE \E q \in Procs : Touching(req[q]) /\ req[q].at = db.comments[s].mod
        BY <3>2, <4>2
      <4>. QED BY <2>1, <3>4, <4>1, <4>2 DEF AgreeInv, TimeInv, CommentTimes
    <3>. QED BY <1>0, <3>1, <3>4 DEF CommentTimes
  <2>4. Clocked' /\ Touched'
    BY <1>0, <1>1, <1>2, <1>4, IdleDoesNothing, ClockedStays, TouchedStays DEF AgreeInv
  <2>. QED BY <2>2, <2>3, <2>4 DEF TimeInv
<1>8. ~Doomed'
  BY <1>0, <1>2, PurgedHasNoRow DEF Doomed, Overtaken
<1>. QED BY <1>6, <1>7, <1>8, NotDoomed DEF AgreeInv

(* the mode that SetPostMeta sets in SQLite *)
LEMMA Agree_setmode ==
  ASSUME Types, Types', AgreeInv, NEW p \in Procs, setmode(p)
  PROVE  AgreeInv'
<1>0. /\ ReqOK /\ Here(req[p]) = "setmode" /\ Continue(p, req[p]) /\ UNCHANGED <<db, now, lost, stale>>
      /\ row' = IF row = None THEN None ELSE [row EXCEPT !.mode = req[p].id]
  BY DEF setmode, At, Types, env, ghosts, InRow
<1>1. /\ req' = [req EXCEPT ![p] = req'[p]] /\ req[p].op = "setmeta" /\ req'[p].op = "setmeta"
      /\ Here(req'[p]) = "getrow"
  BY <1>0, Go_setmode DEF Same
<1>2. /\ row' = None <=> row = None
      /\ row # None => row'.title = row.title /\ row'.del = row.del /\ row'.xp = row.xp /\ row'.mod = row.mod
  <2>1. CASE row # None
    <3>1. row \in Row /\ req[p].id \in Ids
      BY <1>0, <2>1 DEF Types, TypeOK, ReqOK, Req
    <3>2. row' = [row EXCEPT !.mode = req[p].id] /\ row' \in Row
      BY <1>0, <2>1, <3>1 DEF Row
    <3>. QED BY <2>1, <3>1, <3>2, NoneAssumption DEF Row
  <2>. QED BY <1>0, <2>1
<1>3. RowInv'
  <2>1. Both' => Both
    BY <1>0, <1>2 DEF Both, Sure
  <2>2. Unborn'
    <3>1. \A q \in Procs : Here(req[q])' = "setnew" => Here(req[q]) = "setnew"
      BY <1>0, <1>1, Unmoved
    <3>. QED BY <1>0, <1>2, <3>1 DEF AgreeInv, RowInv, Unborn
  <2>3. XpExact'
    <3>1. Crossings' = Crossings
      BY <1>0, <1>1, CrossingsStep DEF Crossing
    <3>. QED BY <1>0, <1>2, <3>1 DEF AgreeInv, RowInv, XpExact, Sure
  <2>4. TitleSame'
    BY <1>0, <1>2, <2>1 DEF AgreeInv, RowInv, TitleSame, Both, Sure
  <2>5. Metaing(req[p])'
    BY <1>1, Unmoved DEF Metaing
  <2>6. DelSame'
    <3>1. \A q \in Procs : Settling(req[q]) => Settling(req[q])' /\ req'[q] = req[q]
      BY <1>0, <1>1, Unmoved DEF Settling
    <3>. QED BY <1>0, <1>2, <2>1, <3>1 DEF AgreeInv, RowInv, DelSame, Both, Sure
  <2>. QED BY <2>2, <2>3, <2>4, <2>5, <2>6 DEF RowInv, ModeSame
<1>4. TimeInv'
  <2>1. TimeCalm(req[p], req'[p])
    BY <1>0, <1>1 DEF TimeCalm, Settling, Touching, Timely, HoldsComment
  <2>. QED BY <1>0, <1>1, <1>2, <2>1, TimeStays DEF AgreeInv
<1>5. GoneInv'
  <2>1. GoneCalm(req[p], req'[p])
    BY <1>0, <1>1, IdleIs, NoPurger
  <2>2. Voters' = Voters
    BY <1>0 DEF Voters
  <2>. QED BY <1>0, <1>1, <2>1, <2>2, GoneStays DEF AgreeInv
<1>. QED BY <1>3, <1>4, <1>5 DEF AgreeInv

(* the counter of crossposts *)
LEMMA Agree_addcross ==
  ASSUME Types, Types', AgreeInv, NEW p \in Procs, addcross(p)
  PROVE  AgreeInv'
<1>0. /\ ReqOK /\ Here(req[p]) = "addcross" /\ Continue(p, req[p]) /\ UNCHANGED <<db, now, lost, stale>>
      /\ row' = IF row = None THEN None ELSE [row EXCEPT !.xp = @ + 1]
  BY DEF addcross, At, Types, env, ghosts, InRow
<1>1. /\ req' = [req EXCEPT ![p] = req'[p]] /\ req[p].op = "cross" /\ req'[p].op = "cross"
      /\ Here(req'[p]) = "numcross"
  BY <1>0, Go_addcross DEF Same
<1>2. /\ row' = None <=> row = None
      /\ row # None => /\ row'.title = row.title /\ row'.del = row.del /\ row'.mode = row.mode /\ row'.mod = row.mod
                       /\ row.xp \in Nat /\ row'.xp = row.xp + 1
  <2>1. CASE row # None
    <3>1. row \in Row /\ row.xp + 1 \in Nat /\ row.xp \in Nat
      BY <2>1 DEF Types, TypeOK, Row
    <3>2. row' = [row EXCEPT !.xp = row.xp + 1] /\ row' \in Row
      BY <1>0, <2>1, <3>1 DEF Row
    <3>. QED BY <2>1, <3>1, <3>2, NoneAssumption DEF Row
  <2>. QED BY <1>0, <2>1
<1>3. RowInv'
  <2>1. Both' => Both
    BY <1>0, <1>2 DEF Both, Sure
  <2>2. Unborn'
    <3>1. \A q \in Procs : Here(req[q])' = "setnew" => Here(req[q]) = "setnew"
      BY <1>0, <1>1, Unmoved
    <3>. QED BY <1>0, <1>2, <3>1 DEF AgreeInv, RowInv, Unborn
  <2>3. XpExact'
    <3>1. Crossing(req[p]) = 0 /\ Crossing(req'[p]) = 1
      BY <1>0, <1>1 DEF Crossing
    <3>2. Crossings' = Crossings + 1 /\ Crossings \in Int
      BY <1>0, <1>1, <3>1, CrossingsStep
    <3>3. Cardinality(db.xposts) \in Nat
      BY FS_CardinalityType DEF Types, TypeOK
    <3>4. Sure' => Sure
      BY <1>0, <1>2 DEF Sure
    <3>5. Sure => row.xp = Cardinality(db.xposts) + Crossings
      BY DEF AgreeInv, RowInv, XpExact
    <3>6. Sure' => row'.xp = Cardinality(db.xposts) + Crossings'
      BY <1>2, <3>2, <3>3, <3>4, <3>5 DEF Sure
    <3>. QED BY <1>0, <3>6 DEF XpExact
  <2>4. TitleSame'
    BY <1>0, <1>2, <2>1 DEF AgreeInv, RowInv, TitleSame, Both, Sure
  <2>5. ModeSame'
    <3>1. \A q \in Procs : Metaing(req[q]) => Metaing(req[q])'
      BY <1>0, <1>1, Unmoved DEF Metaing
    <3>. QED BY <1>0, <1>2, <2>1, <3>1 DEF AgreeInv, RowInv, ModeSame, Both, Sure
  <2>6. DelSame'
    <3>1. \A q \in Procs : Settling(req[q]) => Settling(req[q])' /\ req'[q] = req[q]
      BY <1>0, <1>1, Unmoved DEF Settling
    <3>. QED BY <1>0, <1>2, <2>1, <3>1 DEF AgreeInv, RowInv, DelSame, Both, Sure
  <2>. QED BY <2>2, <2>3, <2>4, <2>5, <2>6 DEF RowInv
<1>4. TimeInv'
  <2>1. TimeCalm(req[p], req'[p])
    BY <1>0, <1>1 DEF TimeCalm, Settling, Touching, Timely, HoldsComment
  <2>. QED BY <1>0, <1>1, <1>2, <2>1, TimeStays DEF AgreeInv
<1>5. GoneInv'
  <2>1. GoneCalm(req[p], req'[p])
    BY <1>0, <1>1, IdleIs, NoPurger
  <2>2. Voters' = Voters
    BY <1>0 DEF Voters
  <2>. QED BY <1>0, <1>1, <2>1, <2>2, GoneStays DEF AgreeInv
<1>. QED BY <1>3, <1>4, <1>5 DEF AgreeInv

(* the record of a crosspost *)
LEMMA Agree_setcross ==
  ASSUME Types, Types', Kept, TextInv, AgreeInv, NEW p \in Procs, setcross(p)
  PROVE  AgreeInv'
<1>. DEFINE rev == req[p].rev
<1>0. /\ ReqOK /\ Here(req[p]) = "setcross" /\ Continue(p, req[p]) /\ UNCHANGED <<row, now, lost>>
      /\ stale' = IF row = None \/ rev \in db.xposts THEN stale \cup {"post"} ELSE stale
  BY DEF setcross, At, Types, env, Stale
<1>1. /\ req' = [req EXCEPT ![p] = req'[p]] /\ req[p].op = "cross" /\ req'[p].op = "cross"
      /\ Here(req'[p]) = "setpost"
  BY <1>0, Go_setcross DEF Same
<1>2. /\ db'.post = db.post /\ db'.comments = db.comments /\ db'.xposts = db.xposts \cup {rev}
  BY DEF setcross, Types, TypeOK
<1>3. /\ stale \subseteq stale' /\ ("purged" \in stale' => "purged" \in stale)
      /\ "post" \notin stale' => row # None /\ rev \notin db.xposts
      /\ "title" \in stale' => "title" \in stale
  BY <1>0
<1>. HIDE DEF rev
<1>4. RowInv'
  <2>1. Both' => Both
    BY <1>0, <1>2, <1>3 DEF Both, Sure
  <2>2. Unborn'
    <3>1. row # None \/ "purged" \in stale
      BY <1>0, ThereOrPurged
    <3>. QED BY <1>0, <1>3, <3>1 DEF Unborn
  <2>3. XpExact'
    <3>1. Crossing(req[p]) = 1 /\ Crossing(req'[p]) = 0
      BY <1>0, <1>1 DEF Crossing
    <3>2. Crossings' = Crossings - 1 /\ Crossings \in Int
      BY <1>0, <1>1, <3>1, CrossingsStep
    <3>3. IsFiniteSet(db.xposts) /\ Cardinality(db.xposts) \in Nat
      BY FS_CardinalityType DEF Types, TypeOK
    <3>4. Sure' => Sure /\ rev \notin db.xposts
      BY <1>0, <1>3 DEF Sure
    <3>5. Sure => row.xp = Cardinality(db.xposts) + Crossings
      BY DEF AgreeInv, RowInv, XpExact
    <3>6. rev \notin db.xposts => Cardinality(db'.xposts) = Cardinality(db.xposts) + 1
      BY <1>2, <3>3, FS_AddElement
    <3>7. Sure' => row'.xp = Cardinality(db'.xposts) + Crossings'
      BY <1>0, <3>2, <3>3, <3>4, <3>5, <3>6
    <3>. QED BY <3>7 DEF XpExact
  <2>4. TitleSame'
    BY <1>0, <1>2, <1>3, <2>1 DEF AgreeInv, RowInv, TitleSame
  <2>5. ModeSame'
    <3>1. \A q \in Procs : Metaing(req[q]) => Metaing(req[q])'
      BY <1>0, <1>1, Unmoved DEF Metaing
    <3>. QED BY <1>0, <1>2, <2>1, <3>1 DEF AgreeInv, RowInv, ModeSame
  <2>6. DelSame'
    <3>1. \A q \in Procs : Settling(req[q]) => Settling(req[q])' /\ req'[q] = req[q]
      BY <1>0, <1>1, Unmoved DEF Settling
    <3>. QED BY <1>0, <1>2, <2>1, <3>1 DEF AgreeInv, RowInv, DelSame
  <2>. QED BY <2>2, <2>3, <2>4, <2>5, <2>6 DEF RowInv
<1>5. TimeInv'
  <2>1. TimeCalm(req[p], req'[p])
    BY <1>0, <1>1 DEF TimeCalm, Settling, Touching, Timely, HoldsComment, CommentOps
  <2>. QED BY <1>0, <1>1, <1>2, <1>3, <2>1, TimeStays DEF AgreeInv
<1>6. ~Doomed'
  BY <1>0, <1>3, PurgedHasNoRow DEF Doomed
<1>. QED BY <1>4, <1>5, <1>6, NotDoomed DEF AgreeInv

(* a purge *)
LEMMA NoRowAgrees ==
  ASSUME row' = None, "purged" \in stale'
  PROVE  RowInv' /\ (Clocked' => TimeInv')
<1>1. ~Sure' /\ ~Both' /\ ~Clear'
  BY DEF Sure, Both, Clear
<1>. QED BY <1>1 DEF RowInv, Unborn, XpExact, TitleSame, ModeSame, DelSame,
                     TimeInv, PostTime, CommentTimes, RowTime, Touched

(* the DELETE of a purge *)
LEMMA Agree_delrow ==
  ASSUME Types, Types', Kept, HistThere, AgreeInv, NEW p \in Procs, delrow(p)
  PROVE  AgreeInv'
<1>0. /\ ReqOK /\ Here(req[p]) = "delrow" /\ Continue(p, req[p]) /\ UNCHANGED <<db, now, lost>>
      /\ row' = None /\ stale' = stale \cup {"purged"}
  BY DEF delrow, At, Types, env, Stale
<1>1. /\ req' = [req EXCEPT ![p] = req'[p]] /\ req'[p].op = "purge" /\ Here(req'[p]) = "list"
  BY <1>0, Go_delrow DEF Same
<1>2. /\ Purger(req[p])' /\ Here(req[p])' = "list" /\ BeforeDel(req[p])'
      /\ BeforeComments(req[p])' /\ BeforeVotes(req[p])'
  BY <1>1 DEF Purger, BeforeDel, BeforeComments, BeforeVotes, Here
<1>3. Clocked'
  <2>1. Timely(req'[p])
    BY <1>1 DEF Timely, HoldsComment
  <2>. QED BY <1>0, <1>1, <2>1, ClockedStays DEF AgreeInv
<1>4. CrossGone' /\ CommentsGone' /\ VotesGone'
  BY <1>2 DEF CrossGone, CommentsGone, VotesGone
<1>5. HistGone' /\ HistListed'
  <2>0. /\ \A q \in Procs : q # p => /\ req'[q] = req[q] /\ Here(req[q])' = Here(req[q])
                                     /\ Purger(req[q])' <=> Purger(req[q])
      /\ Present(db.comments)' = Present(db.comments) /\ ~Purger(req[p])
    BY <1>0, <1>1, Unmoved DEF Present, Purger
  <2>1. CASE "purged" \in stale
    <3>1. Doomed' => Doomed
      BY <1>0, <2>1 DEF Doomed
    <3>2. HistListed'
      BY <1>0, <1>2, <2>0, <3>1 DEF HistListed, AgreeInv, GoneInv
    <3>3. ASSUME NEW o, NEW q \in Procs, WillDrop(req[q], o) PROVE WillDrop(req[q], o)'
      BY <1>0, <2>0, <3>3 DEF WillDrop
    <3>4. HistGone'
      BY <1>0, <3>1, <3>3 DEF HistGone, AgreeInv, GoneInv
    <3>. QED BY <3>2, <3>4
  <2>2. CASE "purged" \notin stale
    <3>1. \A q \in Procs : ~Purger(req[q])
      BY <2>2 DEF Kept, PostInv, RowGone, Purger
    <3>2. HistListed'
      BY <1>2, <2>0, <3>1 DEF HistListed
    <3>3. ASSUME Doomed', NEW o \in {0} \cup Seqs, db.hist[o] # <<>> PROVE WillDrop(req[p], o)'
      <4>1. o \in {0} \cup Present(db.comments)
        BY <1>0, <2>2, <3>3, PresentIs DEF HistThere, Doomed
      <4>. QED BY <1>2, <2>0, <4>1 DEF WillDrop
    <3>4. HistGone'
      BY <1>0, <3>3 DEF HistGone
    <3>. QED BY <3>2, <3>4
  <2>. QED BY <2>1, <2>2
<1>. QED BY <1>0, <1>3, <1>4, <1>5, NoRowAgrees DEF AgreeInv, GoneInv

(* a purge deletes the record and the crossposts *)
LEMMA Agree_delpost ==
  ASSUME Types, Types', Kept, AgreeInv, NEW p \in Procs, delpost(p)
  PROVE  AgreeInv'
<1>. DEFINE old == req[p].old
<1>0. /\ ReqOK /\ Here(req[p]) = "delpost" /\ Continue(p, req[p]) /\ UNCHANGED <<row, now, lost, stale>>
  BY DEF delpost, At, Types, env, ghosts
<1>1. /\ req' = [req EXCEPT ![p] = req'[p]] /\ req[p].op = "purge" /\ req'[p].op = "purge"
      /\ Here(req'[p]) = "delcomments" /\ req'[p].old = req[p].old
  BY <1>0, Go_delpost DEF Same
<1>2. /\ db'.xposts = db.xposts \ old.xposts /\ db'.comments = db.comments /\ db'.votes = db.votes /\ db'.hist = db.hist
  BY DEF delpost, Types, TypeOK
<1>3. row' = None /\ "purged" \in stale'
  BY <1>0, <1>1 DEF Kept, PostInv, RowGone
<1>4. Clocked'
  <2>1. Timely(req'[p])
    BY <1>1 DEF Timely, HoldsComment, CommentOps
  <2>. QED BY <1>0, <1>1, <1>2, <2>1, ClockedStays DEF AgreeInv
<1>6. GoneInv'
  <2>1. GoneCalm(req[p], req'[p])
    BY <1>0, <1>1, <1>2 DEF GoneCalm, BeforeDel, BeforeComments, BeforeVotes, Purger
  <2>2. Voters' = Voters
    BY <1>2 DEF Voters
  <2>. QED BY <1>0, <1>1, <1>2, <2>1, <2>2, GoneStays DEF AgreeInv
<1>. QED BY <1>3, <1>4, <1>6, NoRowAgrees DEF AgreeInv

(* a purge deletes the comments *)
LEMMA Agree_delcomments ==
  ASSUME Types, Types', Kept, AgreeInv, NEW p \in Procs, delcomments(p)
  PROVE  AgreeInv'
<1>. DEFINE old == req[p].old
<1>0. /\ ReqOK /\ Here(req[p]) = "delcomments" /\ Continue(p, req[p]) /\ UNCHANGED <<row, now, lost, stale>>
  BY DEF delcomments, At, Types, env, ghosts
<1>1. /\ req' = [req EXCEPT ![p] = req'[p]] /\ req[p].op = "purge" /\ req'[p].op = "purge"
      /\ Here(req'[p]) = "dropvotes" /\ req'[p].old = req[p].old
  BY <1>0, Go_delcomments DEF Same
<1>2. /\ db'.xposts = db.xposts /\ db'.votes = db.votes /\ db'.hist = db.hist
      /\ db'.comments = [s \in Seqs |-> IF s \in old.comments THEN None ELSE db.comments[s]]
  BY DEF delcomments, Types, TypeOK
<1>3. row' = None /\ "purged" \in stale'
  BY <1>0, <1>1 DEF Kept, PostInv, RowGone
<1>4. /\ Present(db.comments)' = Present(db.comments) \ old.comments
      /\ Present(db'.comments) = Present(db.comments) \ old.comments
      /\ \A s \in Present(db.comments)' : s \in Present(db.comments) /\ db'.comments[s] = db.comments[s]
  <2>1. /\ Present(db.comments)' = {s \in Seqs : db'.comments[s] # None}
        /\ Present(db'.comments) = {s \in Seqs : db'.comments[s] # None}
    BY <1>2 DEF Present
  <2>. QED BY <1>2, <2>1, PresentIs
<1>5. Clocked'
  <2>1. \A s \in Present(db.comments)' : db'.comments[s].mod <= now'
    BY <1>0, <1>4 DEF AgreeInv, TimeInv, Clocked
  <2>2. Timely(req'[p])
    BY <1>1 DEF Timely, HoldsComment, CommentOps
  <2>3. \A q \in Procs : Timely(req[q])'
    BY <1>0, <1>1, <2>2, Unmoved DEF AgreeInv, TimeInv, Clocked
  <2>. QED BY <2>1, <2>3 DEF Clocked
<1>6. GoneInv'
  <2>1. GoneCalm(req[p], req'[p])
    BY <1>0, <1>1, <1>2, <1>4 DEF GoneCalm, BeforeDel, BeforeComments, BeforeVotes, Purger
  <2>2. Voters' = Voters
    BY <1>2 DEF Voters
  <2>3. \A o \in Present(db.comments) \ Present(db'.comments) :
          Purger(req'[p]) /\ Here(req'[p]) # "list" /\ o \in req'[p].old.comments
    BY <1>1, <1>4 DEF Purger
  <2>4. Present(db'.comments) \subseteq Present(db.comments)
    BY <1>4
  <2>. QED BY <1>0, <1>1, <1>2, <2>1, <2>2, <2>3, <2>4, GoneStays DEF AgreeInv
<1>. QED BY <1>3, <1>5, <1>6, NoRowAgrees DEF AgreeInv

(* a purge deletes the votes *)
LEMMA Agree_dropvotes ==
  ASSUME Types, Types', Kept, AgreeInv, NEW p \in Procs, dropvotes(p)
  PROVE  AgreeInv'
<1>. DEFINE old == req[p].old
<1>0. /\ ReqOK /\ Here(req[p]) = "dropvotes" /\ Continue(p, req[p]) /\ UNCHANGED <<row, now, lost, stale>>
  BY DEF dropvotes, At, Types, env, ghosts
<1>1. /\ req' = [req EXCEPT ![p] = req'[p]] /\ req[p].op = "purge" /\ req'[p].op = "purge"
      /\ Here(req'[p]) = "delhist" /\ req'[p].old = req[p].old
  BY <1>0, Go_dropvotes DEF Same
<1>2. /\ db'.xposts = db.xposts /\ db'.comments = db.comments /\ db'.hist = db.hist
      /\ db'.votes = [u \in Users |-> IF u \in old.votes THEN "none" ELSE db.votes[u]]
  BY DEF dropvotes, Types, TypeOK
<1>3. row' = None /\ "purged" \in stale'
  BY <1>0, <1>1 DEF Kept, PostInv, RowGone
<1>4. Clocked'
  <2>1. Timely(req'[p])
    BY <1>1 DEF Timely, HoldsComment, CommentOps
  <2>. QED BY <1>0, <1>1, <1>2, <2>1, ClockedStays DEF AgreeInv
<1>5. Voters' = Voters \ old.votes
  BY <1>2 DEF Voters
<1>6. GoneInv'
  <2>1. GoneCalm(req[p], req'[p])
    BY <1>0, <1>1, <1>2, <1>5 DEF GoneCalm, BeforeDel, BeforeComments, BeforeVotes, Purger
  <2>2. Voters' \subseteq Voters
    BY <1>5
  <2>. QED BY <1>0, <1>1, <1>2, <2>1, <2>2, GoneStays DEF AgreeInv
<1>. QED BY <1>3, <1>4, <1>6, NoRowAgrees DEF AgreeInv

(* a purge deletes the history *)
LEMMA Agree_delhist ==
  ASSUME Types, Types', Kept, AgreeInv, NEW p \in Procs, delhist(p)
  PROVE  AgreeInv'
<1>. DEFINE old == req[p].old
<1>0. /\ ReqOK /\ Here(req[p]) = "delhist" /\ Continue(p, req[p]) /\ UNCHANGED <<row, now, lost, stale>>
  BY DEF delhist, At, Types, env, ghosts
<1>1. req' = [req EXCEPT ![p] = req'[p]] /\ req[p].op = "purge" /\ req'[p] = Idle
  BY <1>0, Go_delhist
<1>2. /\ db'.xposts = db.xposts /\ db'.comments = db.comments /\ db'.votes = db.votes
      /\ db'.hist = [o \in {0} \cup Seqs |-> Dropped(db.hist[o], old.hist[o])]
  BY DEF delhist, Types, TypeOK
<1>3. row' = None /\ "purged" \in stale'
  BY <1>0, <1>1 DEF Kept, PostInv, RowGone
<1>4. Clocked'
  <2>1. Timely(req'[p])
    BY <1>1, IdleDoesNothing
  <2>. QED BY <1>0, <1>1, <1>2, <2>1, ClockedStays DEF AgreeInv
<1>5. ASSUME NEW o \in {0} \cup Seqs
      PROVE  /\ Len(db.hist[o]) <= old.hist[o] => db'.hist[o] = <<>>
             /\ db'.hist[o] = <<>> \/ (db.hist[o] # <<>> /\ Len(db'.hist[o]) = Len(db.hist[o]))
  <2>1. db.hist[o] \in Seq(SUBSET Ids) /\ old.hist[o] \in Nat
    BY <1>0 DEF Types, TypeOK, ReqOK, Knows, Listing
  <2>2. db'.hist[o] = Dropped(db.hist[o], old.hist[o])
    BY <1>2
  <2>. HIDE DEF old
  <2>3. CASE Len(db.hist[o]) <= old.hist[o]
    BY <2>1, <2>2, <2>3 DEF Dropped
  <2>4. CASE ~(Len(db.hist[o]) <= old.hist[o])
    <3>1. db'.hist[o] = [i \in 1 .. Len(db.hist[o]) |-> IF i <= old.hist[o] THEN {} ELSE db.hist[o][i]]
      BY <2>2, <2>4 DEF Dropped
    <3>2. Len(db'.hist[o]) = Len(db.hist[o]) /\ db.hist[o] # <<>>
      BY <2>1, <2>4, <3>1
    <3>. QED BY <2>4, <3>2
  <2>. QED BY <2>3, <2>4
<1>6. GoneInv'
  <2>1. GoneCalm(req[p], req'[p])
    BY <1>0, <1>1, <1>2, <1>5, IdleIs DEF GoneCalm, BeforeDel, BeforeComments, BeforeVotes, Purger
  <2>2. Voters' = Voters
    BY <1>2 DEF Voters
  <2>. QED BY <1>0, <1>1, <1>2, <1>5, <2>1, <2>2, GoneStays DEF AgreeInv
<1>. QED BY <1>3, <1>4, <1>6, NoRowAgrees DEF AgreeInv

(* the process *)
LEMMA RestMeans ==
  ASSUME ReqOK, AtRest, NEW q \in Procs
  PROVE  Here(req[q]) = "none" /\ req[q].op = "idle"
<1>1. req[q].todo = <<>> /\ Stage(req[q].op, <<>>)
  BY DEF ReqOK, AtRest
<1>2. req[q].op = "idle"
  BY <1>1 DEF Stage
<1>. QED BY <1>1, <1>2 DEF Here

(* the same of any requests *)
LEMMA NobodyCrosses ==
  ASSUME NEW r, \A q \in Procs : Here(r[q]) \notin {"numcross", "setcross"}
  PROVE  SumFunction([q \in Procs |-> Crossing(r[q])]) = 0
<1>. DEFINE g == [q \in Procs |-> Crossing(r[q])]
<1>1. g \in [Procs -> Int] /\ \A q \in Procs : g[q] = 0
  BY DEF Crossing
<1>. HIDE DEF g
<1>2. SumFunction(g) = 0
  BY <1>1, SumZero, PostStoreAssumption
<1>. QED BY <1>2 DEF g

(* without requests *)
LEMMA Quiescent ==
  ASSUME \A q \in Procs : req[q] = Idle
  PROVE  /\ Crossings = 0
         /\ \A q \in Procs : /\ Here(req[q]) = "none" /\ ~Settling(req[q]) /\ ~Touching(req[q]) /\ ~Metaing(req[q])
                             /\ Timely(req[q]) /\ ~Purger(req[q]) /\ ~BeforeDel(req[q])
                             /\ ~BeforeComments(req[q]) /\ ~BeforeVotes(req[q])
<1>1. \A q \in Procs : Here(req[q]) = "none" /\ req[q].op = "idle" /\ ~HoldsComment(req[q])
  BY IdleIs
<1>2. Crossings = 0
  BY <1>1, NobodyCrosses DEF Crossings
<1>. QED BY <1>1, <1>2 DEF Settling, Touching, Metaing, Timely, Purger, BeforeDel, BeforeComments, BeforeVotes

(* the process dies *)
LEMMA Agree_Crash ==
  ASSUME Types, Types', AgreeInv, Crash
  PROVE  AgreeInv'
<1>1. /\ ReqOK /\ lost \in BOOLEAN /\ UNCHANGED <<db, row, now>> /\ \A q \in Procs : req'[q] = Idle
      /\ stale \subseteq stale' /\ stale' \subseteq stale \cup {"comments"}
      /\ lost' = (lost \/ ~AtRest)
  BY DEF Types, TypeOK, Crash, Stale
<1>2. /\ \A q \in Procs : /\ ~Settling(req[q])' /\ ~Touching(req[q])' /\ ~Metaing(req[q])' /\ Timely(req[q])'
                          /\ Here(req[q])' = "none"
      /\ Crossings' = 0
  <2>1. \A q \in Procs : Here(req'[q]) = "none" /\ req'[q].op = "idle"
    BY <1>1, IdleIs
  <2>2. Crossings' = SumFunction([q \in Procs |-> Crossing(req'[q])])
    BY DEF Crossings, Crossing, Here
  <2>3. Crossings' = 0
    BY <2>1, <2>2, NobodyCrosses
  <2>. QED BY <2>1, <2>3 DEF Settling, Touching, Metaing, Timely, HoldsComment, CommentOps, Here
<1>3. ~lost' => ~lost /\ AtRest
  BY <1>1
<1>4. ASSUME ~lost'
      PROVE  /\ Crossings = 0
             /\ \A q \in Procs : /\ ~Settling(req[q]) /\ ~Touching(req[q]) /\ ~Metaing(req[q])
                                 /\ ~Purger(req[q]) /\ ~BeforeDel(req[q]) /\ ~BeforeComments(req[q]) /\ ~BeforeVotes(req[q])
  <2>1. \A q \in Procs : Here(req[q]) = "none" /\ req[q].op = "idle"
    BY <1>1, <1>3, <1>4, RestMeans
  <2>2. Crossings = 0
    BY <2>1, NobodyCrosses DEF Crossings
  <2>. QED BY <2>1, <2>2 DEF Settling, Touching, Metaing, Purger, BeforeDel, BeforeComments, BeforeVotes
<1>5. /\ Sure' => Sure /\ ~lost'
      /\ Both' => Both /\ ~lost'
      /\ Clear' => Clear /\ ~lost'
      /\ Doomed' => Doomed /\ ~lost'
  BY <1>1, <1>3 DEF Sure, Both, Clear, Doomed
<1>6. RowInv'
  <2>1. Unborn'
    BY <1>1, <1>2, <1>3 DEF AgreeInv, RowInv, Unborn
  <2>2. XpExact'
    BY <1>1, <1>2, <1>4, <1>5 DEF AgreeInv, RowInv, XpExact
  <2>3. TitleSame'
    BY <1>1, <1>5 DEF AgreeInv, RowInv, TitleSame
  <2>4. ModeSame' /\ DelSame'
    BY <1>1, <1>4, <1>5 DEF AgreeInv, RowInv, ModeSame, DelSame
  <2>. QED BY <2>1, <2>2, <2>3, <2>4 DEF RowInv
<1>7. TimeInv'
  <2>1. Present(db.comments)' = Present(db.comments)
    BY <1>1 DEF Present
  <2>2. PostTime' /\ CommentTimes' /\ RowTime'
    BY <1>1, <1>4, <1>5, <2>1 DEF AgreeInv, TimeInv, PostTime, CommentTimes, RowTime
  <2>3. Touched'
    BY <1>2 DEF Touched
  <2>4. Clocked'
    BY <1>1, <1>2, <2>1 DEF AgreeInv, TimeInv, Clocked
  <2>. QED BY <2>2, <2>3, <2>4 DEF TimeInv
<1>8. GoneInv'
  <2>1. Present(db.comments)' = Present(db.comments) /\ Voters' = Voters
    BY <1>1 DEF Present, Voters
  <2>2. CrossGone'
    BY <1>1, <1>4, <1>5 DEF AgreeInv, GoneInv, CrossGone
  <2>3. CommentsGone'
    BY <1>4, <1>5, <2>1 DEF AgreeInv, GoneInv, CommentsGone
  <2>4. VotesGone'
    BY <1>1, <1>4, <1>5, <2>1 DEF AgreeInv, GoneInv, VotesGone
  <2>5. HistGone'
    BY <1>1, <1>4, <1>5 DEF AgreeInv, GoneInv, HistGone, WillDrop
  <2>6. HistListed'
    BY <1>2 DEF HistListed, Purger
  <2>. QED BY <2>2, <2>3, <2>4, <2>5, <2>6 DEF GoneInv
<1>. QED BY <1>6, <1>7, <1>8 DEF AgreeInv

(* what a rebuild writes *)
LEMMA RebuiltIs ==
  ASSUME Types, db.post # None
  PROVE  /\ Rebuilt \in Row
         /\ Rebuilt.title = db.post.title /\ Rebuilt.mode = db.post.mode /\ Rebuilt.del = db.post.del
         /\ Rebuilt.num = Cardinality(Present(db.comments)) /\ Rebuilt.up = Voted("up")
         /\ Rebuilt.down = Voted("down") /\ Rebuilt.xp = Cardinality(db.xposts)
         /\ Rebuilt.mod \in Nat /\ db.post.mod <= Rebuilt.mod
         /\ \A s \in Present(db.comments) : db.comments[s].mod \in Nat /\ db.comments[s].mod <= Rebuilt.mod
         /\ \/ Rebuilt.mod = db.post.mod
            \/ \E s \in Present(db.comments) : Rebuilt.mod = db.comments[s].mod
<1>. DEFINE S == {db.post.mod} \cup {db.comments[s].mod : s \in Present(db.comments)}
<1>1. db.post \in Post /\ db.post.mod \in Nat
  BY DEF Types, TypeOK, Post, Times
<1>2. \A s \in Present(db.comments) : db.comments[s].mod \in Nat
  <2>1. \A s \in Present(db.comments) : db.comments[s] \in Comment
    BY DEF Types, TypeOK, Present
  <2>. QED BY <2>1 DEF Comment, Times
<1>3. S \in SUBSET Nat /\ S # {}
  BY <1>1, <1>2
<1>4. PICK b \in Nat : \A s \in Present(db.comments) : db.comments[s].mod <= b
  BY ModBound
<1>5. b + db.post.mod \in Nat /\ \A x \in S : x <= b + db.post.mod
  BY <1>1, <1>2, <1>4
<1>6. Max(S) \in S /\ \A x \in S : x <= Max(S)
  <2>. HIDE DEF S
  <2>. QED BY <1>3, <1>5, MaxBounded
<1>7. /\ Max(S) \in Nat /\ db.post.mod <= Max(S)
      /\ \A s \in Present(db.comments) : db.comments[s].mod <= Max(S)
      /\ Max(S) = db.post.mod \/ \E s \in Present(db.comments) : Max(S) = db.comments[s].mod
  <2>1. db.post.mod \in S /\ \A s \in Present(db.comments) : db.comments[s].mod \in S
    OBVIOUS
  <2>2. \A x \in S : x = db.post.mod \/ \E s \in Present(db.comments) : x = db.comments[s].mod
    OBVIOUS
  <2>. HIDE DEF S
  <2>. QED BY <1>3, <1>6, <2>1, <2>2
<1>. HIDE DEF S
<1>8. Rebuilt = [title |-> db.post.title, mode |-> db.post.mode, del |-> db.post.del,
        mod |-> Max(S), num |-> Cardinality(Present(db.comments)), up |-> Voted("up"),
        down |-> Voted("down"), xp |-> Cardinality(db.xposts)]
  BY DEF Rebuilt, Counted, S
<1>9. Rebuilt \in Row
  BY <1>1, <1>7, <1>8, Countable DEF Row, Post, Times
<1>. QED BY <1>2, <1>7, <1>8, <1>9

(* SQLite is rebuilt *)
LEMMA Agree_Rebuild ==
  ASSUME Types, Types', Kept, AgreeInv, RebuildSQLiteFromPebble
  PROVE  AgreeInv'
<1>1. /\ UNCHANGED <<db, req, now>> /\ row' = Rebuilt
      /\ stale' = IF Rebuilt = None THEN stale ELSE stale \ {"title", "votes", "clock", "purged"}
      /\ lost' = (lost /\ Rebuilt = None) /\ lost \in BOOLEAN
      /\ \A q \in Procs : req[q] = Idle
  BY DEF RebuildSQLiteFromPebble, Kept, PostInv, Asleep, Types, TypeOK
<1>2. /\ Crossings = 0
      /\ \A q \in Procs : /\ Here(req[q]) = "none" /\ ~Settling(req[q]) /\ ~Touching(req[q]) /\ ~Metaing(req[q])
                          /\ Timely(req[q]) /\ ~Purger(req[q]) /\ ~BeforeDel(req[q])
                          /\ ~BeforeComments(req[q]) /\ ~BeforeVotes(req[q])
  BY <1>1, Quiescent
<1>3. /\ \A q \in Procs : Here(req[q])' = "none" /\ ~Touching(req[q])' /\ Timely(req[q])'
      /\ Crossings' = 0
      /\ Present(db.comments)' = Present(db.comments) /\ Voters' = Voters
  <2>1. Crossings' = Crossings
    BY <1>1 DEF Crossings, Crossing, Here
  <2>. QED BY <1>1, <1>2, <2>1 DEF Here, Touching, Timely, HoldsComment, Present, Voters
<1>4. Clocked' /\ Touched'
  BY <1>1, <1>3 DEF AgreeInv, TimeInv, Clocked, Touched
<1>5. CASE db.post = None
  <2>1. row' = None /\ lost' = lost /\ stale' = stale /\ ~Sure' /\ ~Both' /\ ~Clear'
    BY <1>1, <1>5 DEF Rebuilt, Sure, Both, Clear
  <2>2. Unborn'
    <3>1. ASSUME ~lost PROVE row = None
      BY <1>2, <1>5, <3>1 DEF Kept, PostInv, Stored
    <3>. QED BY <1>1, <1>3, <2>1, <3>1 DEF AgreeInv, RowInv, Unborn
  <2>3. RowInv'
    BY <2>1, <2>2 DEF RowInv, XpExact, TitleSame, ModeSame, DelSame
  <2>4. TimeInv'
    BY <1>4, <2>1 DEF TimeInv, PostTime, CommentTimes, RowTime
  <2>5. GoneInv'
    <3>1. Doomed' => Doomed
      BY <2>1 DEF Doomed
    <3>2. CrossGone' /\ HistGone'
      BY <1>1, <1>2, <3>1 DEF AgreeInv, GoneInv, CrossGone, HistGone, WillDrop
    <3>5. HistListed'
      BY <1>3 DEF HistListed, Purger
    <3>3. CommentsGone'
      BY <1>2, <1>3, <3>1 DEF AgreeInv, GoneInv, CommentsGone
    <3>4. VotesGone'
      BY <1>2, <1>3, <2>1, <3>1 DEF AgreeInv, GoneInv, VotesGone
    <3>. QED BY <3>2, <3>3, <3>4, <3>5 DEF GoneInv
  <2>. QED BY <2>3, <2>4, <2>5 DEF AgreeInv
<1>6. CASE db.post # None
  <2>1. row' \in Row /\ row' # None /\ "purged" \notin stale'
    BY <1>1, <1>6, RebuiltIs, NoneAssumption
  <2>2. RowInv'
    <3>1. /\ row'.title = db'.post.title /\ row'.mode = db'.post.mode /\ row'.del = db'.post.del
          /\ row'.xp = Cardinality(db'.xposts) /\ Cardinality(db'.xposts) \in Nat
      BY <1>1, <1>6, RebuiltIs, Countable
    <3>2. XpExact'
      BY <1>3, <3>1 DEF XpExact
    <3>. QED BY <2>1, <3>1, <3>2 DEF RowInv, Unborn, TitleSame, ModeSame, DelSame
  <2>3. TimeInv'
    <3>1. PostTime' /\ CommentTimes' /\ RowTime'
      BY <1>1, <1>3, <1>6, RebuiltIs DEF PostTime, CommentTimes, RowTime
    <3>. QED BY <1>4, <3>1 DEF TimeInv
  <2>4. ~Doomed'
    BY <2>1 DEF Doomed
  <2>. QED BY <2>2, <2>3, <2>4, NotDoomed DEF AgreeInv
<1>. QED BY <1>5, <1>6

(* the clock, and a restart *)
LEMMA AgreeSame ==
  ASSUME Types, AgreeInv, UNCHANGED <<db, row, req, stale, lost>>, now' \in Nat, now <= now'
  PROVE  AgreeInv'
<1>1. /\ Sure' <=> Sure
      /\ Both' <=> Both
      /\ Clear' <=> Clear
      /\ Doomed' <=> Doomed
      /\ Crossings' = Crossings /\ Present(db.comments)' = Present(db.comments) /\ Voters' = Voters
  BY DEF Sure, Both, Clear, Doomed, Crossings, Crossing, Here, Present, Voters
<1>2. \A q \in Procs :
        /\ Here(req[q])' = Here(req[q]) /\ req'[q] = req[q]
        /\ Settling(req[q])' <=> Settling(req[q])
        /\ Touching(req[q])' <=> Touching(req[q])
        /\ Metaing(req[q])' <=> Metaing(req[q])
        /\ Purger(req[q])' <=> Purger(req[q])
        /\ BeforeDel(req[q])' <=> BeforeDel(req[q])
        /\ BeforeComments(req[q])' <=> BeforeComments(req[q])
        /\ BeforeVotes(req[q])' <=> BeforeVotes(req[q])
        /\ \A o : WillDrop(req[q], o)' <=> WillDrop(req[q], o)
  BY <1>1 DEF Settling, Touching, Metaing, Purger, BeforeDel, BeforeComments, BeforeVotes, WillDrop, Here
<1>3. RowInv'
  <2>1. Unborn' /\ XpExact' /\ TitleSame'
    BY <1>1, <1>2 DEF AgreeInv, RowInv, Unborn, XpExact, TitleSame
  <2>2. ModeSame' /\ DelSame'
    BY <1>1, <1>2 DEF AgreeInv, RowInv, ModeSame, DelSame
  <2>. QED BY <2>1, <2>2 DEF RowInv
<1>4. TimeInv'
  <2>1. PostTime' /\ CommentTimes' /\ RowTime' /\ Touched'
    BY <1>1, <1>2 DEF AgreeInv, TimeInv, PostTime, CommentTimes, RowTime, Touched
  <2>2. now \in Nat /\ ReqOK
    BY DEF Types, TypeOK, Times
  <2>3. \A s \in Present(db.comments) : db.comments[s].mod \in Nat /\ db.comments[s].mod <= now
    BY PresentIs DEF Types, TypeOK, Comment, Times, AgreeInv, TimeInv, Clocked
  <2>4. ASSUME NEW q \in Procs PROVE Timely(req[q])'
    <3>1. Timely(req[q])
      BY DEF AgreeInv, TimeInv, Clocked
    <3>2. /\ HoldsComment(req[q]) => req[q].old.mod \in Nat
          /\ req[q].at \in Nat
          /\ Here(req[q]) = "setcomment" => HoldsComment(req[q])
      BY <2>2 DEF ReqOK, Knows, Req, Comment, Times, HoldsComment
    <3>3. /\ HoldsComment(req[q]) => req[q].old.mod <= now'
          /\ req[q].op = "cedit" /\ Here(req[q]) = "setcomment" => req[q].old.mod <= req[q].at /\ req[q].at <= now'
      BY <2>2, <3>1, <3>2 DEF Timely
    <3>4. HoldsComment(req[q])' <=> HoldsComment(req[q])
      BY DEF HoldsComment, Here
    <3>. QED BY <1>2, <3>3, <3>4 DEF Timely
  <2>5. Clocked'
    BY <1>1, <2>2, <2>3, <2>4 DEF Clocked
  <2>. QED BY <2>1, <2>5 DEF TimeInv
<1>5. GoneInv'
  <2>1. CrossGone' /\ HistGone'
    BY <1>1, <1>2 DEF AgreeInv, GoneInv, CrossGone, HistGone
  <2>2. CommentsGone' /\ VotesGone'
    BY <1>1, <1>2 DEF AgreeInv, GoneInv, CommentsGone, VotesGone
  <2>3. HistListed'
    BY <1>1, <1>2 DEF AgreeInv, GoneInv, HistListed
  <2>. QED BY <2>1, <2>2, <2>3 DEF GoneInv
<1>. QED BY <1>3, <1>4, <1>5 DEF AgreeInv

(* at the start the two databases agree *)
LEMMA InitAgree ==
  ASSUME Types, Init
  PROVE  AgreeInv
<1>1. /\ now = 1 /\ stale = {} /\ lost = FALSE /\ \A q \in Procs : req[q] = Idle
  BY DEF Init
<1>2. /\ Crossings = 0
      /\ \A q \in Procs : /\ Here(req[q]) = "none" /\ ~Settling(req[q]) /\ ~Touching(req[q]) /\ ~Metaing(req[q])
                          /\ Timely(req[q]) /\ ~Purger(req[q]) /\ ~BeforeDel(req[q])
                          /\ ~BeforeComments(req[q]) /\ ~BeforeVotes(req[q])
  BY <1>1, Quiescent
<1>3. PICK there \in BOOLEAN, by \in Users :
       /\ db = [post |-> IF there THEN NewPost ELSE None,
                comments |-> [n \in Seqs |-> IF there /\ n = 1
                    THEN [by |-> by, text |-> {0}, del |-> FALSE, mod |-> 0] ELSE None],
                votes |-> [u \in Users |-> "none"],
                hist |-> [o \in {0} \cup Seqs |-> <<>>],
                xposts |-> {}]
       /\ row = IF there THEN [NewRow EXCEPT !.num = 1] ELSE None
  BY DEF Init
<1>4. db.xposts = {} /\ Cardinality(db.xposts) = 0
  BY <1>3, FS_EmptySet
<1>5. \A s \in Present(db.comments) : db.comments[s].mod = 0
  BY <1>3 DEF Present
<1>6. GoneInv
  BY <1>1 DEF GoneInv, CrossGone, CommentsGone, VotesGone, HistGone, HistListed, Doomed
<1>7. Clocked /\ Touched
  BY <1>1, <1>2, <1>5 DEF Clocked, Touched
<1>8. CASE there
  <2>1. db.post = NewPost /\ row = [NewRow EXCEPT !.num = 1]
    BY <1>3, <1>8
  <2>2. /\ row.title = db.post.title /\ row.mode = db.post.mode /\ row.del = db.post.del
        /\ row.xp = 0 /\ row.mod = now /\ db.post.mod = now
    BY <2>1 DEF NewRow, NewPost
  <2>3. row # None
    <3>1. NewRow \in Row
      BY NewOK
    <3>2. [NewRow EXCEPT !.num = 1] \in Row
      BY <3>1 DEF Row
    <3>. QED BY <2>1, <3>2, NoneAssumption
  <2>4. RowInv
    BY <1>2, <1>4, <2>2, <2>3 DEF RowInv, Unborn, XpExact, TitleSame, ModeSame, DelSame
  <2>5. PostTime /\ CommentTimes /\ RowTime
    BY <1>1, <1>5, <2>2 DEF PostTime, CommentTimes, RowTime
  <2>. QED BY <1>6, <1>7, <2>4, <2>5 DEF AgreeInv, TimeInv
<1>9. CASE ~there
  <2>1. row = None /\ db.post = None /\ ~Sure /\ ~Both /\ ~Clear
    BY <1>3, <1>9 DEF Sure, Both, Clear
  <2>2. RowInv
    BY <1>2, <1>4, <2>1 DEF RowInv, Unborn, XpExact, TitleSame, ModeSame, DelSame
  <2>. QED BY <1>6, <1>7, <2>1, <2>2 DEF AgreeInv, TimeInv, PostTime, CommentTimes, RowTime
<1>. QED BY <1>8, <1>9

(* every step keeps the two databases in agreement *)
LEMMA AgreeNext ==
  ASSUME Types, Types', Kept, TextInv, HistThere, AgreeInv, [Next]_vars
  PROVE  AgreeInv'
<1>1. ASSUME NEW p \in Procs, Comments(p) PROVE AgreeInv'
  BY <1>1, Agree_choose, Agree_newcomment, Agree_count, Agree_setcomment, Agree_getcomment, Agree_touch
     DEF Comments
<1>2. ASSUME NEW p \in Procs, Voting(p) PROVE AgreeInv'
  BY <1>2, Agree_getvote, Agree_setvote, Agree_delvotes, Agree_zerodirty, Agree_zerorow DEF Voting
<1>3. ASSUME NEW p \in Procs, Article(p) PROVE AgreeInv'
  BY <1>3, Agree_insert, Agree_lookup, Agree_setnew, Agree_getrow, Agree_import,
     Agree_getbody, Agree_nextrev, Agree_archive, Agree_setpost, Agree_setrow, Agree_setmode,
     Agree_addcross, Agree_numcross, Agree_setcross DEF Article
<1>4. ASSUME NEW p \in Procs, Purging(p) PROVE AgreeInv'
  BY <1>4, Agree_take, Agree_applied, Agree_delrow, Agree_list, Agree_forget, Agree_delpost,
     Agree_delcomments, Agree_dropvotes, Agree_delhist DEF Purging
<1>5. ASSUME NEW p \in Procs, Request(p) \/ Fetch(p) \/ Flush(p) PROVE AgreeInv'
  BY <1>5, Agree_Request, Agree_Fetch, Agree_Flush
<1>6. CASE Restart \/ Tick \/ UNCHANGED vars
  <2>1. now \in Nat
    BY DEF Types, TypeOK, Times
  <2>2. UNCHANGED <<db, row, req, stale, lost>> /\ now' \in Nat /\ now <= now'
    BY <1>6, <2>1 DEF Restart, Tick, vars, ghosts
  <2>. QED BY <2>2, AgreeSame
<1>. QED BY <1>1, <1>2, <1>3, <1>4, <1>5, <1>6, Agree_Crash, Agree_Rebuild DEF Next

(* The invariant of the two databases holds in every reachable state: whatever
   SQLite says and Pebble does not, a request that has done one of its two
   writes is about to do the other one. *)
THEOREM AlwaysAgree == Spec => [](Types /\ Kept /\ TextInv /\ AgreeInv)
<1>1. Init => Types /\ AgreeInv /\ HistThere
  BY InitTypes, InitAgree, InitHist
<1>2. Types /\ Types' /\ Kept /\ TextInv /\ HistThere /\ AgreeInv /\ [Next]_vars => HistThere' /\ AgreeInv'
  BY AgreeNext, HistNext
<1>. QED BY <1>1, <1>2, AlwaysText, PTL DEF Spec

(* two rows with the same columns *)
LEMMA SameRow ==
  ASSUME NEW a \in Row, NEW b \in Row, a.title = b.title, a.mode = b.mode, a.del = b.del,
         a.mod = b.mod, a.num = b.num, a.up = b.up, a.down = b.down, a.xp = b.xp
  PROVE  a = b
BY DEF Row

(* at rest the row is what the records give *)
LEMMA GivenBack ==
  ASSUME Types, Kept, AgreeInv, AtRest, row # None, ~lost, {"post", "votes"} \cap stale = {}
  PROVE  row = IF "title" \in stale THEN [Rebuilt EXCEPT !.title = row.title, !.mod = row.mod]
               ELSE IF {"clock", "comments"} \cap stale # {} THEN [Rebuilt EXCEPT !.mod = row.mod] ELSE Rebuilt
<1>1. ReqOK /\ row \in Row /\ \A q \in Procs : Here(req[q]) = "none" /\ req[q].op = "idle"
  BY RestMeans DEF Types, TypeOK
<1>2. Both /\ Sure /\ db.post # None
  BY <1>1 DEF Kept, PostInv, Stored, Both, Sure
<1>3. \A q \in Procs : ~Settling(req[q]) /\ ~Touching(req[q]) /\ ~Metaing(req[q])
  BY <1>1 DEF Settling, Touching, Metaing
<1>4. Crossings = 0
  BY <1>1, NobodyCrosses DEF Crossings
<1>5. ASSUME NEW f \in DOMAIN Zero PROVE UnderWay(f) = 0
  <2>1. mem.dirty[f] = 0
    BY DEF AtRest, Zero
  <2>2. \A q \in Procs : Carried(req[q], f) = 0
    BY <1>1 DEF Carried
  <2>3. UnderWay(f) = mem.dirty[f] + SumFunction([q \in Procs |-> Carried(req[q], f)])
    BY DEF UnderWay
  <2>. QED BY <2>1, <2>2, <2>3, NothingCarried
<1>6. /\ Rebuilt \in Row /\ Rebuilt.title = db.post.title /\ Rebuilt.mode = db.post.mode
      /\ Rebuilt.del = db.post.del
      /\ Rebuilt.num = Cardinality(Present(db.comments)) /\ Rebuilt.up = Voted("up")
      /\ Rebuilt.down = Voted("down") /\ Rebuilt.xp = Cardinality(db.xposts)
  BY <1>2, RebuiltIs
<1>7. row.num = Rebuilt.num /\ row.up = Rebuilt.up /\ row.down = Rebuilt.down
  <2>1. row.num \in Int /\ row.up \in Int /\ row.down \in Int
    BY <1>1 DEF Row
  <2>2. row.num + UnderWay("num") = Cardinality(Present(db.comments))
    BY DEF Kept, Exact, NumExact
  <2>3. row.up + UnderWay("up") = Voted("up") /\ row.down + UnderWay("down") = Voted("down")
    BY <1>1 DEF Kept, Exact, VotesExact
  <2>4. UnderWay("num") = 0 /\ UnderWay("up") = 0 /\ UnderWay("down") = 0
    BY <1>5, ZeroOK
  <2>. QED BY <1>6, <2>1, <2>2, <2>3, <2>4
<1>8. row.xp = Rebuilt.xp
  <2>1. row.xp = Cardinality(db.xposts) + 0
    BY <1>2, <1>4 DEF AgreeInv, RowInv, XpExact
  <2>. QED BY <1>6, <2>1, Countable
<1>9. row.mode = Rebuilt.mode /\ row.del = Rebuilt.del
  BY <1>2, <1>3, <1>6 DEF AgreeInv, RowInv, ModeSame, DelSame
<1>10. CASE "title" \in stale
  <2>. DEFINE b == [Rebuilt EXCEPT !.title = row.title, !.mod = row.mod]
  <2>1. /\ b \in Row /\ b.title = row.title /\ b.mod = row.mod /\ b.mode = Rebuilt.mode /\ b.del = Rebuilt.del
        /\ b.num = Rebuilt.num /\ b.up = Rebuilt.up /\ b.down = Rebuilt.down /\ b.xp = Rebuilt.xp
    BY <1>1, <1>6 DEF Row
  <2>2. row = b
    <3>. HIDE DEF b
    <3>. QED BY <1>1, <1>7, <1>8, <1>9, <2>1, SameRow
  <2>. QED BY <1>10, <2>2
<1>11. CASE "title" \notin stale /\ {"clock", "comments"} \cap stale # {}
  <2>. DEFINE b == [Rebuilt EXCEPT !.mod = row.mod]
  <2>1. /\ b \in Row /\ b.title = Rebuilt.title /\ b.mod = row.mod /\ b.mode = Rebuilt.mode /\ b.del = Rebuilt.del
        /\ b.num = Rebuilt.num /\ b.up = Rebuilt.up /\ b.down = Rebuilt.down /\ b.xp = Rebuilt.xp
    BY <1>1, <1>6 DEF Row
  <2>2. row.title = Rebuilt.title
    BY <1>2, <1>6, <1>11 DEF AgreeInv, RowInv, TitleSame
  <2>3. row = b
    <3>. HIDE DEF b
    <3>. QED BY <1>1, <1>7, <1>8, <1>9, <2>1, <2>2, SameRow
  <2>. QED BY <1>11, <2>3
<1>12. CASE "title" \notin stale /\ {"clock", "comments"} \cap stale = {}
  <2>1. row.title = Rebuilt.title
    BY <1>2, <1>6, <1>12 DEF AgreeInv, RowInv, TitleSame
  <2>2. Clear
    BY <1>2, <1>12 DEF Clear
  <2>3. /\ db.post.mod <= row.mod /\ \A s \in Present(db.comments) : db.comments[s].mod <= row.mod
        /\ row.mod = db.post.mod \/ \E s \in Present(db.comments) : row.mod = db.comments[s].mod
    BY <1>3, <2>2 DEF AgreeInv, TimeInv, PostTime, CommentTimes, RowTime
  <2>4. row.mod \in Nat /\ db.post.mod \in Nat
    BY <1>1, <1>2 DEF Row, Types, TypeOK, Post, Times
  <2>5. /\ Rebuilt.mod \in Nat /\ db.post.mod <= Rebuilt.mod
        /\ \A s \in Present(db.comments) : db.comments[s].mod \in Nat /\ db.comments[s].mod <= Rebuilt.mod
        /\ \/ Rebuilt.mod = db.post.mod
           \/ \E s \in Present(db.comments) : Rebuilt.mod = db.comments[s].mod
    BY <1>2, RebuiltIs
  <2>6. row.mod <= Rebuilt.mod
    BY <2>3, <2>5
  <2>7. Rebuilt.mod <= row.mod
    BY <2>3, <2>5
  <2>8. row.mod = Rebuilt.mod
    BY <2>4, <2>5, <2>6, <2>7
  <2>9. row = Rebuilt
    BY <1>1, <1>6, <1>7, <1>8, <1>9, <2>1, <2>8, SameRow
  <2>. QED BY <1>12, <2>9
<1>. QED BY <1>10, <1>11, <1>12

(* at rest nothing of a purged article is left *)
LEMMA PurgeLeftNothing ==
  ASSUME Types, TextInv, AgreeInv
  PROVE  PurgedIsGone
<1>. SUFFICES ASSUME AtRest, "purged" \in stale, ~lost, {"post", "comments", "votes"} \cap stale = {}
              PROVE  /\ db.post = None /\ Present(db.comments) = {} /\ Voted("none") = Cardinality(Users)
                     /\ db.xposts = {} /\ \A o \in DOMAIN db.hist : db.hist[o] = <<>>
  BY DEF PurgedIsGone
<1>1. \A q \in Procs : Here(req[q]) = "none" /\ req[q].op = "idle"
  BY RestMeans DEF Types
<1>2. \A q \in Procs : /\ ~Purger(req[q]) /\ ~BeforeDel(req[q])
                       /\ ~BeforeComments(req[q]) /\ ~BeforeVotes(req[q])
  BY <1>1 DEF Purger, BeforeDel, BeforeComments, BeforeVotes
<1>3. Doomed /\ "votes" \notin stale
  BY DEF Doomed
<1>4. db.post = None /\ db.xposts = {}
  BY <1>2, <1>3 DEF TextInv, AgreeInv, GoneInv, CrossGone
<1>5. Present(db.comments) = {} /\ Voters = {}
  BY <1>2, <1>3 DEF AgreeInv, GoneInv, CommentsGone, VotesGone
<1>6. {u \in Users : db.votes[u] = "none"} = Users
  BY <1>5 DEF Voters
<1>7. DOMAIN db.hist = {0} \cup Seqs
  BY DEF Types, TypeOK
<1>8. \A o \in {0} \cup Seqs : db.hist[o] = <<>>
  BY <1>2, <1>3 DEF AgreeInv, GoneInv, HistGone, WillDrop
<1>. QED BY <1>4, <1>5, <1>6, <1>7, <1>8 DEF Voted

(* When nothing is under way, the row in SQLite is what a rebuild from the
   records in Pebble would give, unless a request has written over what it had
   not seen, votes have met or deltas were lost; and of an article whose listed
   keys purgePostRecord deleted, store by store, nothing is left, unless
   something was written to it after its row was gone or a crash cut the purge
   short.  For any number of goroutines, users, comments and requests. *)
THEOREM StoresAlwaysAgree == Spec => []StoresAgree
<1>1. Types /\ Kept /\ AgreeInv => RebuildGivesBack
  BY GivenBack DEF RebuildGivesBack
<1>2. Types /\ TextInv /\ AgreeInv => PurgedIsGone
  BY PurgeLeftNothing
<1>3. Types /\ Kept /\ TextInv /\ AgreeInv => StoresAgree
  BY <1>1, <1>2 DEF StoresAgree, Types
<1>. QED BY <1>3, AlwaysAgree, PTL
-----------------------------------------------------------------------------
(* What an editor was shown *)

(* An editor that was shown the article finds it in both databases until it is
   purged.  The time it was shown is not later than that of the row, and when it
   is the same, the text is the one it was shown or somebody who has stored
   another text is about to set the time. *)
SeenInv ==
  \A p \in Procs : req[p].view # None =>
    /\ row # None \/ "purged" \in stale
    /\ row # None => db.post # None
    /\ row # None /\ {"post", "clock"} \cap stale = {} =>
         /\ req[p].view.mod <= row.mod
         /\ req[p].view.mod = row.mod =>
              req[p].view.body = db.post.body \/ \E q \in Procs : Settling(req[q])

(* what editors were shown does not change when p goes on *)
SameView(p) == req' = [req EXCEPT ![p] = req'[p]] /\ (req'[p].view = None \/ req'[p].view = req[p].view)

(* a goroutine that does nothing has shown nothing *)
LEMMA IdleView == Idle.view = None
BY DEF Idle

(* the steps that leave the article where it is *)
LEMMA SeenStep ==
  ASSUME Types, Types', SeenInv, NEW p \in Procs, SameView(p),
         \A w \in {"post", "clock", "purged"} : w \in stale => w \in stale',
         row' = None => row = None \/ "purged" \in stale',
         row' # None => row # None,
         row' # None /\ db.post # None => db'.post # None,
         row' # None /\ {"post", "clock"} \cap stale' = {} =>
           \/ row.mod < row'.mod
           \/ /\ row'.mod = row.mod /\ (Settling(req[p]) => Settling(req'[p]))
              /\ db.post # None => db'.post.body = db.post.body \/ Settling(req'[p])
  PROVE  SeenInv'
<1>1. /\ \A q \in Procs : q # p => req'[q] = req[q] /\ (Settling(req[q])' <=> Settling(req[q]))
      /\ Settling(req[p])' <=> Settling(req'[p])
  BY Unmoved DEF SameView
<1>. SUFFICES ASSUME NEW q \in Procs, req'[q].view # None
              PROVE  /\ row' # None \/ "purged" \in stale'
                     /\ row' # None => db'.post # None
                     /\ row' # None /\ {"post", "clock"} \cap stale' = {} =>
                          /\ req'[q].view.mod <= row'.mod
                          /\ req'[q].view.mod = row'.mod =>
                               req'[q].view.body = db'.post.body \/ \E o \in Procs : Settling(req[o])'
  BY DEF SeenInv
<1>2. req[q].view = req'[q].view /\ req[q].view # None
  BY <1>1 DEF SameView
<1>3. /\ row # None \/ "purged" \in stale
      /\ row # None => db.post # None
      /\ row # None /\ {"post", "clock"} \cap stale = {} =>
           /\ req[q].view.mod <= row.mod
           /\ req[q].view.mod = row.mod =>
                req[q].view.body = db.post.body \/ \E o \in Procs : Settling(req[o])
  BY <1>2 DEF SeenInv
<1>4. (row' # None \/ "purged" \in stale') /\ (row' # None => db'.post # None)
  BY <1>3
<1>5. ASSUME row' # None, {"post", "clock"} \cap stale' = {}
      PROVE  /\ req'[q].view.mod <= row'.mod
             /\ req'[q].view.mod = row'.mod =>
                  req'[q].view.body = db'.post.body \/ \E o \in Procs : Settling(req[o])'
  <2>1. row # None /\ {"post", "clock"} \cap stale = {} /\ db.post # None
    BY <1>3, <1>5
  <2>2. row.mod \in Nat /\ row'.mod \in Nat /\ req[q].view.mod \in Nat /\ req[q].view.mod <= row.mod
    BY <1>2, <1>3, <1>5, <2>1 DEF Types, TypeOK, ReqOK, Req, Row, Times
  <2>3. CASE row.mod < row'.mod
    BY <1>2, <2>2, <2>3
  <2>4. CASE /\ row'.mod = row.mod /\ (Settling(req[p]) => Settling(req'[p]))
             /\ db'.post.body = db.post.body \/ Settling(req'[p])
    <3>1. req[q].view.mod = row.mod =>
            req[q].view.body = db.post.body \/ \E o \in Procs : Settling(req[o])
      BY <1>3, <2>1
    <3>2. (\E o \in Procs : Settling(req[o])) => \E o \in Procs : Settling(req[o])'
      BY <1>1, <2>4
    <3>3. Settling(req'[p]) => \E o \in Procs : Settling(req[o])'
      BY <1>1
    <3>. QED BY <1>2, <2>2, <2>4, <3>1, <3>2, <3>3
  <2>. QED BY <1>5, <2>1, <2>3, <2>4
<1>. QED BY <1>4, <1>5

(* the steps that change neither the record nor the time of the row *)
LEMMA SeenCalm ==
  ASSUME Types, Types', SeenInv, NEW p \in Procs, SameView(p), Here(req[p]) # "setrow",
         db'.post = db.post, \A w \in {"post", "clock", "purged"} : w \in stale => w \in stale',
         row' = row \/ ((row' = None <=> row = None) /\ (row # None => row'.mod = row.mod))
  PROVE  SeenInv'
<1>1. ~Settling(req[p])
  BY DEF Settling
<1>. QED BY <1>1, SeenStep

(* CreatePost looks for the row *)
LEMMA Seen_lookup ==
  ASSUME Types, Types', SeenInv, NEW p \in Procs, lookup(p)
  PROVE  SeenInv'
<1>1. SameView(p) /\ Here(req[p]) = "lookup"
  BY Go_lookup, IdleView DEF SameView, Same, lookup, At
<1>. QED BY <1>1, SeenCalm DEF lookup, ghosts

(* VotePost reads the last vote *)
LEMMA Seen_getvote ==
  ASSUME Types, Types', SeenInv, NEW p \in Procs, getvote(p)
  PROVE  SeenInv'
<1>1. SameView(p) /\ Here(req[p]) = "getvote"
  BY Go_getvote, IdleView DEF SameView, SameButOld, getvote, At
<1>. QED BY <1>1, SeenCalm DEF getvote, ghosts

(* a comment is read to be changed *)
LEMMA Seen_getcomment ==
  ASSUME Types, Types', SeenInv, NEW p \in Procs, getcomment(p)
  PROVE  SeenInv'
<1>1. SameView(p) /\ Here(req[p]) = "getcomment"
  BY Go_getcomment, IdleView DEF SameView, SameButOld, getcomment, At
<1>. QED BY <1>1, SeenCalm DEF getcomment, ghosts

(* GetPost reads the row *)
LEMMA Seen_getrow ==
  ASSUME Types, Types', SeenInv, NEW p \in Procs, getrow(p)
  PROVE  SeenInv'
<1>1. SameView(p) /\ Here(req[p]) = "getrow"
  BY Go_getrow, IdleView DEF SameView, SameButPost, getrow, At
<1>. QED BY <1>1, SeenCalm DEF getrow, ghosts

(* GetPost reads the record *)
LEMMA Seen_getbody ==
  ASSUME Types, Types', SeenInv, NEW p \in Procs, getbody(p)
  PROVE  SeenInv'
<1>1. SameView(p) /\ Here(req[p]) = "getbody"
  BY Go_getbody, IdleView DEF SameView, SameButPost, getbody, At
<1>. QED BY <1>1, SeenCalm DEF getbody, ghosts

(* the next revision is looked up *)
LEMMA Seen_nextrev ==
  ASSUME Types, Types', SeenInv, NEW p \in Procs, nextrev(p)
  PROVE  SeenInv'
<1>1. SameView(p) /\ Here(req[p]) = "nextrev"
  BY Go_nextrev, IdleView DEF SameView, SameButRev, nextrev, At
<1>. QED BY <1>1, SeenCalm DEF nextrev, ghosts

(* AddCrosspost reads the counter again *)
LEMMA Seen_numcross ==
  ASSUME Types, Types', SeenInv, NEW p \in Procs, numcross(p)
  PROVE  SeenInv'
<1>1. SameView(p) /\ Here(req[p]) = "numcross"
  BY Go_numcross, IdleView DEF SameView, SameButRev, numcross, At
<1>. QED BY <1>1, SeenCalm DEF numcross, ghosts

(* the flush of a purge takes the deltas *)
LEMMA Seen_take ==
  ASSUME Types, Types', SeenInv, NEW p \in Procs, take(p)
  PROVE  SeenInv'
<1>1. SameView(p) /\ Here(req[p]) = "take"
  BY Go_take, IdleView DEF SameView, SameButOld, take, At
<1>. QED BY <1>1, SeenCalm DEF take, ghosts

(* a purge lists what it will delete *)
LEMMA Seen_list ==
  ASSUME Types, Types', SeenInv, NEW p \in Procs, list(p)
  PROVE  SeenInv'
<1>1. SameView(p) /\ Here(req[p]) = "list"
  BY Go_list, IdleView DEF SameView, SameButOld, list, At
<1>. QED BY <1>1, SeenCalm DEF list, ghosts

(* the old text is archived *)
LEMMA Seen_archive ==
  ASSUME Types, Types', SeenInv, NEW p \in Procs, archive(p)
  PROVE  SeenInv'
<1>1. SameView(p) /\ Here(req[p]) = "archive"
  BY Go_archive DEF SameView, SameButAt, archive, At
<1>2. db'.post = db.post /\ row' = row /\ stale \subseteq stale'
  BY DEF archive, Stale, Types, TypeOK
<1>. QED BY <1>1, <1>2, SeenCalm

(* AddComment continues the last comment or takes a sequence *)
LEMMA Seen_choose ==
  ASSUME Types, Types', SeenInv, NEW p \in Procs, choose(p)
  PROVE  SeenInv'
<1>1. SameView(p) /\ Here(req[p]) = "choose"
  <2>1. req' = [req EXCEPT ![p] = req'[p]] /\ Here(req[p]) = "choose" /\ req[p] \in Req
    BY Go_choose DEF choose, At, Types, ReqOK
  <2>2. req'[p].view = req[p].view
    BY <2>1 DEF choose, Types, ReqOK, Req
  <2>. QED BY <2>1, <2>2 DEF SameView
<1>. QED BY <1>1, SeenCalm DEF choose, ghosts

(* FlushDirtyDeltas takes the deltas *)
LEMMA Seen_Flush ==
  ASSUME Types, Types', SeenInv, NEW p \in Procs, Flush(p)
  PROVE  SeenInv'
<1>1. SameView(p) /\ Here(req[p]) = "none"
  <2>1. req' = [req EXCEPT ![p] = req'[p]] /\ req[p] = Idle
    BY Go_Flush
  <2>2. req'[p].view = None
    BY DEF Flush, Types, ReqOK, Idle
  <2>. QED BY <2>1, <2>2, IdleIs DEF SameView
<1>. QED BY <1>1, SeenCalm DEF Flush, ghosts

(* the registration in dirtyDeltas *)
LEMMA Seen_count ==
  ASSUME Types, Types', SeenInv, NEW p \in Procs, count(p)
  PROVE  SeenInv'
<1>0. ReqOK /\ Here(req[p]) = "count" /\ Continue(p, req[p])
  BY DEF count, At, Types
<1>1. SameView(p)
  BY <1>0, Go_count, IdleView DEF SameView, Same
<1>2. db'.post = db.post /\ row' = row /\ stale \subseteq stale'
  BY DEF count
<1>. QED BY <1>0, <1>1, <1>2, SeenCalm

(* a purge empties dirtyDeltas and postSeqs *)
LEMMA Seen_forget ==
  ASSUME Types, Types', SeenInv, NEW p \in Procs, forget(p)
  PROVE  SeenInv'
<1>0. ReqOK /\ Here(req[p]) = "forget" /\ Continue(p, req[p])
  BY DEF forget, At, Types
<1>1. SameView(p)
  BY <1>0, Go_forget, IdleView DEF SameView, Same
<1>2. db'.post = db.post /\ row' = row /\ stale \subseteq stale'
  BY DEF forget, ghosts
<1>. QED BY <1>0, <1>1, <1>2, SeenCalm

(* the votes in dirtyDeltas are set to zero *)
LEMMA Seen_zerodirty ==
  ASSUME Types, Types', SeenInv, NEW p \in Procs, zerodirty(p)
  PROVE  SeenInv'
<1>0. ReqOK /\ Here(req[p]) = "zerodirty" /\ Continue(p, req[p])
  BY DEF zerodirty, At, Types
<1>1. SameView(p)
  BY <1>0, Go_zerodirty, IdleView DEF SameView, Same
<1>2. db'.post = db.post /\ row' = row /\ stale \subseteq stale'
  BY DEF zerodirty, Stale
<1>. QED BY <1>0, <1>1, <1>2, SeenCalm

(* the comment that AddComment stores *)
LEMMA Seen_newcomment ==
  ASSUME Types, Types', SeenInv, NEW p \in Procs, newcomment(p)
  PROVE  SeenInv'
<1>0. ReqOK /\ Here(req[p]) = "newcomment" /\ Continue(p, req[p])
  BY DEF newcomment, At, Types
<1>1. SameView(p)
  BY <1>0, Go_newcomment, IdleView DEF SameView, Same
<1>2. db'.post = db.post /\ row' = row /\ stale \subseteq stale'
  BY DEF newcomment, Stale, Types, TypeOK
<1>. QED BY <1>0, <1>1, <1>2, SeenCalm

(* the comment that is stored again *)
LEMMA Seen_setcomment ==
  ASSUME Types, Types', SeenInv, NEW p \in Procs, setcomment(p)
  PROVE  SeenInv'
<1>0. ReqOK /\ Here(req[p]) = "setcomment" /\ Continue(p, req[p])
  BY DEF setcomment, At, Types
<1>1. SameView(p)
  BY <1>0, Go_setcomment, IdleView DEF SameView, Same
<1>2. db'.post = db.post /\ row' = row /\ stale \subseteq stale'
  BY DEF setcomment, Stale, Types, TypeOK
<1>. QED BY <1>0, <1>1, <1>2, SeenCalm

(* the vote that VotePost stores *)
LEMMA Seen_setvote ==
  ASSUME Types, Types', SeenInv, NEW p \in Procs, setvote(p)
  PROVE  SeenInv'
<1>0. ReqOK /\ Here(req[p]) = "setvote" /\ Continue(p, req[p])
  BY DEF setvote, At, Types
<1>1. SameView(p)
  BY <1>0, Go_setvote, IdleView DEF SameView, Same
<1>2. db'.post = db.post /\ row' = row /\ stale \subseteq stale'
  BY DEF setvote, Stale, Types, TypeOK
<1>. QED BY <1>0, <1>1, <1>2, SeenCalm

(* the deletion of the votes *)
LEMMA Seen_delvotes ==
  ASSUME Types, Types', SeenInv, NEW p \in Procs, delvotes(p)
  PROVE  SeenInv'
<1>0. ReqOK /\ Here(req[p]) = "delvotes" /\ Continue(p, req[p])
  BY DEF delvotes, At, Types
<1>1. SameView(p)
  BY <1>0, Go_delvotes, IdleView DEF SameView, Same
<1>2. db'.post = db.post /\ row' = row /\ stale \subseteq stale'
  BY DEF delvotes, Stale, Types, TypeOK
<1>. QED BY <1>0, <1>1, <1>2, SeenCalm

(* the record of a crosspost *)
LEMMA Seen_setcross ==
  ASSUME Types, Types', SeenInv, NEW p \in Procs, setcross(p)
  PROVE  SeenInv'
<1>0. ReqOK /\ Here(req[p]) = "setcross" /\ Continue(p, req[p])
  BY DEF setcross, At, Types
<1>1. SameView(p)
  BY <1>0, Go_setcross, IdleView DEF SameView, Same
<1>2. db'.post = db.post /\ row' = row /\ stale \subseteq stale'
  BY DEF setcross, Stale, Types, TypeOK
<1>. QED BY <1>0, <1>1, <1>2, SeenCalm

(* a purge deletes the comments *)
LEMMA Seen_delcomments ==
  ASSUME Types, Types', SeenInv, NEW p \in Procs, delcomments(p)
  PROVE  SeenInv'
<1>0. ReqOK /\ Here(req[p]) = "delcomments" /\ Continue(p, req[p])
  BY DEF delcomments, At, Types
<1>1. SameView(p)
  BY <1>0, Go_delcomments, IdleView DEF SameView, Same
<1>2. db'.post = db.post /\ row' = row /\ stale \subseteq stale'
  BY DEF delcomments, ghosts, Types, TypeOK
<1>. QED BY <1>0, <1>1, <1>2, SeenCalm

(* a purge deletes the votes *)
LEMMA Seen_dropvotes ==
  ASSUME Types, Types', SeenInv, NEW p \in Procs, dropvotes(p)
  PROVE  SeenInv'
<1>0. ReqOK /\ Here(req[p]) = "dropvotes" /\ Continue(p, req[p])
  BY DEF dropvotes, At, Types
<1>1. SameView(p)
  BY <1>0, Go_dropvotes, IdleView DEF SameView, Same
<1>2. db'.post = db.post /\ row' = row /\ stale \subseteq stale'
  BY DEF dropvotes, ghosts, Types, TypeOK
<1>. QED BY <1>0, <1>1, <1>2, SeenCalm

(* a purge deletes the history *)
LEMMA Seen_delhist ==
  ASSUME Types, Types', SeenInv, NEW p \in Procs, delhist(p)
  PROVE  SeenInv'
<1>0. ReqOK /\ Here(req[p]) = "delhist" /\ Continue(p, req[p])
  BY DEF delhist, At, Types
<1>1. SameView(p)
  BY <1>0, Go_delhist, IdleView DEF SameView, Same
<1>2. db'.post = db.post /\ row' = row /\ stale \subseteq stale'
  BY DEF delhist, ghosts, Types, TypeOK
<1>. QED BY <1>0, <1>1, <1>2, SeenCalm

(* the votes in SQLite are set to zero *)
LEMMA Seen_zerorow ==
  ASSUME Types, Types', SeenInv, NEW p \in Procs, zerorow(p)
  PROVE  SeenInv'
<1>0. ReqOK /\ Here(req[p]) = "zerorow" /\ Continue(p, req[p])
  BY DEF zerorow, At, Types
<1>1. SameView(p)
  BY <1>0, Go_zerorow, IdleView DEF SameView, Same
<1>2. /\ db' = db /\ stale \subseteq stale'
      /\ row' = IF row = None THEN None ELSE [row EXCEPT !.up = 0, !.down = 0]
  BY DEF zerorow, Stale, InRow
<1>3. CASE row # None
  <2>1. row \in Row
    BY <1>3 DEF Types, TypeOK
  <2>2. row'.mod = row.mod
    BY <1>2, <1>3, <2>1 DEF Row
  <2>3. row' # None
    BY <1>0, <1>2, <1>3, <2>1, RowVotes, NoneAssumption DEF Row, ReqOK, Req
  <2>. QED BY <1>0, <1>1, <1>2, <1>3, <2>2, <2>3, SeenCalm
<1>4. CASE row = None
  BY <1>0, <1>1, <1>2, <1>4, SeenCalm
<1>. QED BY <1>3, <1>4

(* SetPostMeta changes the mode in SQLite *)
LEMMA Seen_setmode ==
  ASSUME Types, Types', SeenInv, NEW p \in Procs, setmode(p)
  PROVE  SeenInv'
<1>0. ReqOK /\ Here(req[p]) = "setmode" /\ Continue(p, req[p])
  BY DEF setmode, At, Types
<1>1. SameView(p)
  BY <1>0, Go_setmode, IdleView DEF SameView, Same
<1>2. /\ db' = db /\ stale \subseteq stale'
      /\ row' = IF row = None THEN None ELSE [row EXCEPT !.mode = req[p].id]
  BY DEF setmode, ghosts, InRow
<1>3. CASE row # None
  <2>1. row \in Row
    BY <1>3 DEF Types, TypeOK
  <2>2. row'.mod = row.mod
    BY <1>2, <1>3, <2>1 DEF Row
  <2>3. row' # None
    BY <1>0, <1>2, <1>3, <2>1, NoneAssumption DEF Row, ReqOK, Req
  <2>. QED BY <1>0, <1>1, <1>2, <1>3, <2>2, <2>3, SeenCalm
<1>4. CASE row = None
  BY <1>0, <1>1, <1>2, <1>4, SeenCalm
<1>. QED BY <1>3, <1>4

(* AddCrosspost counts in SQLite *)
LEMMA Seen_addcross ==
  ASSUME Types, Types', SeenInv, NEW p \in Procs, addcross(p)
  PROVE  SeenInv'
<1>0. ReqOK /\ Here(req[p]) = "addcross" /\ Continue(p, req[p])
  BY DEF addcross, At, Types
<1>1. SameView(p)
  BY <1>0, Go_addcross, IdleView DEF SameView, Same
<1>2. /\ db' = db /\ stale \subseteq stale'
      /\ row' = IF row = None THEN None ELSE [row EXCEPT !.xp = @ + 1]
  BY DEF addcross, ghosts, InRow
<1>3. CASE row # None
  <2>1. row \in Row
    BY <1>3 DEF Types, TypeOK
  <2>2. row'.mod = row.mod
    BY <1>2, <1>3, <2>1 DEF Row
  <2>3. row' # None
    BY <1>0, <1>2, <1>3, <2>1, NoneAssumption DEF Row, ReqOK, Req
  <2>. QED BY <1>0, <1>1, <1>2, <1>3, <2>2, <2>3, SeenCalm
<1>4. CASE row = None
  BY <1>0, <1>1, <1>2, <1>4, SeenCalm
<1>. QED BY <1>3, <1>4

(* a flush fails *)
LEMMA Seen_ApplyFails ==
  ASSUME Types, Types', SeenInv, NEW p \in Procs, ApplyFails(p)
  PROVE  SeenInv'
<1>0. ReqOK /\ Here(req[p]) = "apply" /\ Continue(p, req[p])
  BY DEF ApplyFails, At, Types
<1>1. SameView(p)
  BY <1>0, Go_apply, IdleView DEF SameView, Same
<1>. QED BY <1>0, <1>1, SeenCalm DEF ApplyFails

(* a flush is applied *)
LEMMA Seen_apply ==
  ASSUME Types, Types', SeenInv, NEW p \in Procs, apply(p)
  PROVE  SeenInv'
<1>0. ReqOK /\ Here(req[p]) = "apply" /\ Continue(p, req[p])
  BY DEF apply, At, Types
<1>1. SameView(p)
  BY <1>0, Go_apply, IdleView DEF SameView, Same
<1>2. /\ db' = db /\ stale' = stale
      /\ row' = IF row = None THEN None ELSE Added(row, req[p].old)
  BY DEF apply, ghosts, InRow
<1>3. CASE row # None
  <2>1. row \in Row /\ req[p].old \in Delta
    BY <1>0, <1>3 DEF Types, TypeOK, ReqOK, Knows
  <2>2. Added(row, req[p].old) \in Row /\ Added(row, req[p].old).mod = row.mod
    BY <2>1, AddedOK DEF Added, Row
  <2>3. row' # None
    BY <1>2, <1>3, <2>2, NoneAssumption
  <2>. QED BY <1>0, <1>1, <1>2, <1>3, <2>2, <2>3, SeenCalm
<1>4. CASE row = None
  BY <1>0, <1>1, <1>2, <1>4, SeenCalm
<1>. QED BY <1>3, <1>4

(* the text is imported from the board *)
LEMMA Seen_import ==
  ASSUME Types, Types', SeenInv, NEW p \in Procs, import(p)
  PROVE  SeenInv'
<1>1. SameView(p) /\ Here(req[p]) = "getbody"
  BY DEF SameView, import, At, Types, ReqOK
<1>2. row' = row /\ "post" \in stale' /\ stale \subseteq stale' /\ db.post = None
  BY DEF import, Stale
<1>. QED BY <1>1, <1>2, SeenStep

(* the record that CreatePost stores *)
LEMMA Seen_setnew ==
  ASSUME Types, Types', SeenInv, NEW p \in Procs, setnew(p)
  PROVE  SeenInv'
<1>0. ReqOK /\ Here(req[p]) = "setnew" /\ Continue(p, req[p])
  BY DEF setnew, At, Types
<1>1. SameView(p) /\ ~Settling(req[p])
  BY <1>0, Go_setnew, IdleView DEF SameView, Settling
<1>2. row' = row /\ stale \subseteq stale' /\ db'.post = NewPost
      /\ ("post" \notin stale' => db.post \in {None, NewPost})
  BY DEF setnew, Stale, Types, TypeOK
<1>3. NewPost # None
  BY NewOK, NoneAssumption
<1>. QED BY <1>1, <1>2, <1>3, SeenStep

(* CreatePost inserts the row *)
LEMMA Seen_insert ==
  ASSUME Types, Types', SeenInv, NEW p \in Procs, insert(p)
  PROVE  SeenInv'
<1>0. ReqOK /\ Here(req[p]) = "insert"
  BY DEF insert, At, Types
<1>1. CASE row' = row /\ Refuse(p)
  <2>1. SameView(p)
    BY <1>0, <1>1, RefuseOK, IdleView DEF SameView, Ends
  <2>. QED BY <1>0, <1>1, <2>1, SeenCalm DEF insert, ghosts
<1>2. CASE row = None /\ "purged" \notin stale /\ Continue(p, req[p])
  <2>1. SameView(p)
    BY <1>0, <1>2, Go_insert DEF SameView, Same
  <2>2. \A q \in Procs : req[q].view = None
    BY <1>2 DEF SeenInv
  <2>3. \A q \in Procs : req'[q].view = None
    BY <1>0, <2>1, <2>2 DEF SameView, ReqOK
  <2>. QED BY <2>3 DEF SeenInv
<1>. QED BY <1>1, <1>2 DEF insert

(* the time of an edited comment *)
LEMMA Seen_touch ==
  ASSUME Types, Types', SeenInv, NEW p \in Procs, touch(p)
  PROVE  SeenInv'
<1>0. ReqOK /\ Here(req[p]) = "touch" /\ Continue(p, req[p])
  BY DEF touch, At, Types
<1>1. SameView(p) /\ ~Settling(req[p])
  BY <1>0, Go_touch, IdleView DEF SameView, Settling
<1>2. /\ db' = db /\ stale \subseteq stale' /\ (row # None /\ row.mod >= req[p].at => "clock" \in stale')
      /\ row' = row \/ (row # None /\ row' = [row EXCEPT !.mod = req[p].at])
  BY DEF touch, Stale, InRow
<1>3. CASE row' = row
  BY <1>0, <1>1, <1>2, <1>3, SeenCalm
<1>4. CASE row # None /\ row' = [row EXCEPT !.mod = req[p].at]
  <2>1. row \in Row /\ row.mod \in Nat /\ req[p].at \in Nat /\ row'.mod = req[p].at
    BY <1>0, <1>4 DEF Types, TypeOK, Row, Times, ReqOK, Req
  <2>2. row' \in Row
    BY <1>4, <2>1 DEF Row, Times
  <2>3. row' # None /\ ("clock" \notin stale' => row.mod < row'.mod)
    BY <1>2, <1>4, <2>1, <2>2, NoneAssumption
  <2>. QED BY <1>1, <1>2, <1>4, <2>3, SeenStep
<1>. QED BY <1>2, <1>3, <1>4

(* the row is changed as the record was *)
LEMMA Seen_setrow ==
  ASSUME Types, Types', SeenInv, NEW p \in Procs, setrow(p)
  PROVE  SeenInv'
<1>0. ReqOK /\ Here(req[p]) = "setrow" /\ Continue(p, req[p])
  BY DEF setrow, At, Types
<1>1. SameView(p) /\ req[p].op \in {"edit", "title", "delete", "undelete"}
  BY <1>0, Go_setrow, IdleView DEF SameView
<1>2. /\ db' = db /\ stale \subseteq stale' /\ (row # None /\ row.mod >= req[p].at => "clock" \in stale')
      /\ row = None => row' = None
  BY DEF setrow, Stale, InRow
<1>3. CASE row # None
  <2>1. /\ row \in Row /\ row.mod \in Nat /\ req[p].at \in Nat /\ row' \in Row \cup {None}
        /\ row' = CASE req[p].op = "edit" -> [row EXCEPT !.title = req[p].post.title, !.mod = req[p].at]
                    [] req[p].op = "title" -> [row EXCEPT !.title = req[p].id, !.mod = req[p].at]
                    [] OTHER -> [row EXCEPT !.del = (req[p].op = "delete"), !.mod = req[p].at]
    BY <1>0, <1>3 DEF Types, TypeOK, Row, Times, ReqOK, Req, setrow, InRow
  <2>2. row'.mod = req[p].at
    BY <1>1, <2>1 DEF Row
  <2>3. row' # None => ("clock" \notin stale' => row.mod < row'.mod)
    BY <1>2, <1>3, <2>1, <2>2
  <2>4. row' # None
    <3>1. req[p].post \in Post /\ req[p].id \in Ids
      BY <1>0, <1>1 DEF ReqOK, Req, Knows, HoldsPost, ArticleOps
    <3>2. CASE req[p].op = "edit"
      BY <2>1, <3>1, <3>2, NoneAssumption DEF Row, Post, Times
    <3>3. CASE req[p].op = "title"
      BY <2>1, <3>1, <3>3, NoneAssumption DEF Row, Times
    <3>4. CASE req[p].op \in {"delete", "undelete"}
      BY <2>1, <3>1, <3>4, NoneAssumption DEF Row, Times
    <3>. QED BY <1>1, <3>2, <3>3, <3>4
  <2>. QED BY <1>1, <1>2, <1>3, <2>3, <2>4, SeenStep
<1>4. CASE row = None
  <2>1. row' = None /\ stale \subseteq stale'
    BY <1>2, <1>4
  <2>. QED BY <1>1, <1>4, <2>1, SeenStep
<1>. QED BY <1>3, <1>4

(* the record is stored again *)
LEMMA Seen_setpost ==
  ASSUME Types, Types', SeenInv, TextInv, NEW p \in Procs, setpost(p)
  PROVE  SeenInv'
<1>0. ReqOK /\ Here(req[p]) = "setpost"
  BY DEF setpost, At, Types
<1>1. /\ SameView(p) /\ ~Settling(req[p])
      /\ \/ req[p].op \in {"setmeta", "cross"}
         \/ req[p].op \in {"edit", "delete", "undelete"} /\ Settling(req'[p])
  BY <1>0, Go_setpost, IdleView DEF SameView, Settling, SameButAt
<1>2. HoldsPost(req[p]) /\ req[p].post \in Post /\ req[p].old \in Post
  BY <1>0, <1>1 DEF HoldsPost, ArticleOps, ReqOK, Knows
<1>3. /\ row' = row /\ db'.post = Record(req[p])
      /\ \A w \in {"post", "clock", "purged"} : w \in stale => w \in stale'
      /\ "post" \notin stale' => db.post = req[p].old
  BY DEF setpost, Types, TypeOK
<1>4. Record(req[p]) # None
  BY <1>0, <1>2, RecordOK, NoneAssumption DEF Types
<1>5. req[p].op \in {"setmeta", "cross"} => Record(req[p]).body = req[p].old.body
  BY <1>2 DEF Record, TextInv
<1>. QED BY <1>1, <1>3, <1>4, <1>5, SeenStep

(* a purge deletes the row *)
LEMMA Seen_delrow ==
  ASSUME Types, Types', SeenInv, NEW p \in Procs, delrow(p)
  PROVE  SeenInv'
<1>0. ReqOK /\ Here(req[p]) = "delrow" /\ Continue(p, req[p])
  BY DEF delrow, At, Types
<1>1. SameView(p)
  BY <1>0, Go_delrow DEF SameView, Same
<1>2. row' = None /\ "purged" \in stale' /\ stale \subseteq stale'
  BY DEF delrow, Stale
<1>. QED BY <1>1, <1>2, SeenStep

(* a purge deletes the record *)
LEMMA Seen_delpost ==
  ASSUME Types, Types', SeenInv, PostInv, NEW p \in Procs, delpost(p)
  PROVE  SeenInv'
<1>0. ReqOK /\ Here(req[p]) = "delpost" /\ Continue(p, req[p])
  BY DEF delpost, At, Types
<1>1. SameView(p) /\ req[p].op = "purge"
  BY <1>0, Go_delpost DEF SameView, Same
<1>2. row = None /\ row' = None /\ stale' = stale
  BY <1>0, <1>1 DEF delpost, ghosts, PostInv, RowGone
<1>. QED BY <1>1, <1>2, SeenStep

(* an editor is shown the article *)
LEMMA Seen_Fetch ==
  ASSUME Types, Types', SeenInv, NEW p \in Procs, Fetch(p)
  PROVE  SeenInv'
<1>1. /\ req' = [req EXCEPT ![p] = req'[p]] /\ row # None /\ db.post # None
      /\ req'[p].view = [mod |-> row.mod, body |-> db.post.body]
      /\ Here(req[p]) = "none" /\ UNCHANGED <<db, row, stale>>
  BY Go_Fetch, IdleIs DEF Fetch, ghosts
<1>2. \A q \in Procs : q # p => req'[q] = req[q] /\ (Settling(req[q])' <=> Settling(req[q]))
  BY <1>1, Unmoved
<1>3. (\E q \in Procs : Settling(req[q])) => \E q \in Procs : Settling(req[q])'
  BY <1>1, <1>2 DEF Settling
<1>4. row.mod \in Nat
  BY <1>1 DEF Types, TypeOK, Row, Times
<1>. SUFFICES ASSUME NEW q \in Procs, req'[q].view # None
              PROVE  /\ db.post # None
                     /\ {"post", "clock"} \cap stale = {} =>
                          /\ req'[q].view.mod <= row.mod
                          /\ req'[q].view.mod = row.mod =>
                               req'[q].view.body = db.post.body \/ \E o \in Procs : Settling(req[o])'
  BY <1>1 DEF SeenInv
<1>5. CASE q = p
  BY <1>1, <1>4, <1>5
<1>6. CASE q # p
  BY <1>1, <1>2, <1>3, <1>6 DEF SeenInv
<1>. QED BY <1>5, <1>6

(* a request comes in *)
LEMMA Seen_Request ==
  ASSUME Types, Types', SeenInv, NEW p \in Procs, Request(p)
  PROVE  SeenInv'
<1>1. /\ req' = [req EXCEPT ![p] = req'[p]] /\ Here(req[p]) = "none" /\ UNCHANGED <<db, row, stale>>
  BY RequestOK DEF ghosts
<1>2. req[p] \in Req /\ req \in [Procs -> Req]
  BY DEF Types, ReqOK
<1>3. ASSUME NEW op, NEW r, r.view = None \/ r.view = req[p].view, r \in Req, Start(p, op, r)
      PROVE  req'[p].view = None \/ req'[p].view = req[p].view
  BY <1>2, <1>3 DEF Start, Req
<1>4. req'[p].view = None \/ req'[p].view = req[p].view
  <2>2. Idle \in Req /\ Idle.view = None
    BY IdleOK, IdleView
  <2>3. Present(db.comments) \subseteq Seqs
    BY DEF Present, Types, TypeOK
  <2>4. CASE \E u \in Users : Start(p, "comment", [Idle EXCEPT !.user = u])
    <3>1. PICK u \in Users : Start(p, "comment", [Idle EXCEPT !.user = u])
      BY <2>4
    <3>2. [Idle EXCEPT !.user = u] \in Req /\ [Idle EXCEPT !.user = u].view = None
      BY <2>2 DEF Req
    <3>. QED BY <1>3, <3>1, <3>2
  <2>5. CASE \E u \in Users, v \in Votes : Start(p, "vote", [Idle EXCEPT !.user = u, !.vote = v])
    <3>1. PICK u \in Users, v \in Votes : Start(p, "vote", [Idle EXCEPT !.user = u, !.vote = v])
      BY <2>5
    <3>2. [Idle EXCEPT !.user = u, !.vote = v] \in Req /\ [Idle EXCEPT !.user = u, !.vote = v].view = None
      BY <2>2 DEF Req
    <3>. QED BY <1>3, <3>1, <3>2
  <2>6. CASE \E s \in Present(db.comments), op \in {"cedit", "cdelete", "cundelete"} :
               Start(p, op, [Idle EXCEPT !.seq = s])
    <3>1. PICK s \in Present(db.comments), op \in {"cedit", "cdelete", "cundelete"} :
               Start(p, op, [Idle EXCEPT !.seq = s])
      BY <2>6
    <3>2. [Idle EXCEPT !.seq = s] \in Req /\ [Idle EXCEPT !.seq = s].view = None
      BY <2>2, <2>3 DEF Req
    <3>. QED BY <1>3, <3>1, <3>2
  <2>7. CASE \E op : Start(p, op, Idle)
    BY <1>3, <2>2, <2>7
  <2>8. CASE Start(p, "edit", req[p])
    BY <1>2, <1>3, <2>8
  <2>. QED BY <2>4, <2>5, <2>6, <2>7, <2>8 DEF Request
<1>. QED BY <1>1, <1>4, SeenCalm DEF SameView

(* the process dies *)
LEMMA Seen_Crash ==
  ASSUME Crash
  PROVE  SeenInv'
<1>1. \A q \in Procs : req'[q].view = None
  BY IdleView DEF Crash
<1>. QED BY <1>1 DEF SeenInv

(* SQLite is rebuilt *)
LEMMA Seen_Rebuild ==
  ASSUME PostInv, RebuildSQLiteFromPebble
  PROVE  SeenInv'
<1>1. \A q \in Procs : req'[q].view = None
  BY IdleView DEF RebuildSQLiteFromPebble, PostInv, Asleep
<1>. QED BY <1>1 DEF SeenInv

(* the clock and a restart *)
LEMMA SeenSame ==
  ASSUME SeenInv, UNCHANGED <<db, row, req, stale>>
  PROVE  SeenInv'
<1>1. \A q \in Procs : Settling(req[q])' <=> Settling(req[q])
  BY DEF Settling, Here
<1>. QED BY <1>1 DEF SeenInv

(* nobody was shown anything at the start *)
LEMMA InitSeen ==
  ASSUME Init
  PROVE  SeenInv
BY IdleView DEF Init, SeenInv

(* every step keeps what editors were shown apart from what has changed since *)
LEMMA SeenNext ==
  ASSUME Types, Types', Kept, TextInv, SeenInv, [Next]_vars
  PROVE  SeenInv'
<1>0. PostInv
  BY DEF Kept
<1>1. ASSUME NEW p \in Procs, Comments(p) PROVE SeenInv'
  BY <1>1, Seen_choose, Seen_newcomment, Seen_count, Seen_setcomment, Seen_getcomment, Seen_touch
     DEF Comments
<1>2. ASSUME NEW p \in Procs, Voting(p) PROVE SeenInv'
  BY <1>2, Seen_getvote, Seen_setvote, Seen_delvotes, Seen_zerodirty, Seen_zerorow DEF Voting
<1>3. ASSUME NEW p \in Procs, Article(p) PROVE SeenInv'
  BY <1>3, Seen_insert, Seen_lookup, Seen_setnew, Seen_getrow, Seen_import,
     Seen_getbody, Seen_nextrev, Seen_archive, Seen_setpost, Seen_setrow, Seen_setmode,
     Seen_addcross, Seen_numcross, Seen_setcross DEF Article
<1>4. ASSUME NEW p \in Procs, Purging(p) PROVE SeenInv'
  BY <1>0, <1>4, Seen_take, Seen_apply, Seen_ApplyFails, Seen_delrow, Seen_list, Seen_forget, Seen_delpost,
     Seen_delcomments, Seen_dropvotes, Seen_delhist DEF Purging
<1>5. ASSUME NEW p \in Procs, Request(p) \/ Fetch(p) \/ Flush(p) PROVE SeenInv'
  BY <1>5, Seen_Request, Seen_Fetch, Seen_Flush
<1>6. CASE Restart \/ Tick \/ UNCHANGED vars
  BY <1>6, SeenSame DEF Restart, Tick, vars, ghosts
<1>. QED BY <1>0, <1>1, <1>2, <1>3, <1>4, <1>5, <1>6, Seen_Crash, Seen_Rebuild DEF Next

(* nobody else changes what p is doing *)
LEMMA OthersStay ==
  ASSUME ReqOK, NEW p \in Procs, NEW q \in Procs, q # p,
         \/ Request(q) \/ Fetch(q) \/ Flush(q) \/ Comments(q) \/ Voting(q) \/ Article(q) \/ Purging(q)
  PROVE  req'[p] = req[p]
<1>0. req \in [Procs -> Req]
  BY DEF ReqOK
<1>1. ASSUME NEW r, Continue(q, r) PROVE req'[p] = req[p]
  BY <1>0, <1>1 DEF Continue
<1>2. CASE Request(q) \/ Fetch(q) \/ Flush(q)
  BY <1>0, <1>2 DEF Request, Start, Fetch, Flush
<1>3. CASE Comments(q)
  BY <1>0, <1>1, <1>3 DEF Comments, choose, newcomment, count, getcomment, setcomment, touch, Refuse
<1>4. CASE Voting(q)
  BY <1>0, <1>1, <1>4 DEF Voting, getvote, setvote, delvotes, zerodirty, zerorow, Refuse
<1>5. CASE Article(q)
  BY <1>0, <1>1, <1>5 DEF Article, lookup, insert, setnew, getrow, import, getbody, nextrev, archive, setpost,
     setrow, setmode, addcross, numcross, setcross, Refuse
<1>6. CASE Purging(q)
  BY <1>0, <1>1, <1>6 DEF Purging, take, apply, ApplyFails, delrow, list, forget, delpost, delcomments, dropvotes, delhist
<1>. QED BY <1>2, <1>3, <1>4, <1>5, <1>6

(* an edit that has archived the old text goes on by storing the new one *)
LEMMA StoresText ==
  ASSUME Types, [Next]_vars, NEW p \in Procs, Here(req[p]) = "setpost", req'[p].op = "edit", req'[p] # req[p]
  PROVE  setpost(p)
<1>0. ReqOK /\ Here(req[p]) # "none"
  BY DEF Types
<1>1. req[p].op # "idle" /\ req[p] # Idle
  BY <1>0, IdleIs DEF ReqOK, Stage, Here
<1>2. ~Crash
  BY IdleIs DEF Crash
<1>3. ~(Restart \/ RebuildSQLiteFromPebble \/ Tick \/ UNCHANGED vars)
  BY DEF Restart, RebuildSQLiteFromPebble, Tick, vars
<1>4. PICK q \in Procs :
        Request(q) \/ Fetch(q) \/ Flush(q) \/ Comments(q) \/ Voting(q) \/ Article(q) \/ Purging(q)
  BY <1>2, <1>3 DEF Next
<1>5. q = p
  BY <1>0, <1>4, OthersStay
<1>6. ~(Request(p) \/ Fetch(p) \/ Flush(p))
  BY <1>1 DEF Request, Start, Fetch, Flush
<1>7. ~(Comments(p) \/ Voting(p) \/ Purging(p))
  BY DEF Comments, choose, newcomment, count, getcomment, setcomment, touch, Voting, getvote, setvote,
     delvotes, zerodirty, zerorow, Purging, take, apply, ApplyFails, delrow, list, forget, delpost, delcomments, dropvotes, delhist, At
<1>. QED
  BY <1>4, <1>5, <1>6, <1>7 DEF Article, lookup, insert, setnew, getrow, import, getbody, nextrev, archive,
     setrow, setmode, addcross, numcross, setcross, At

(* an edit that is accepted was made on the text that it replaces *)
LEMMA SawLatest ==
  ASSUME Types, SeenInv, [Next]_vars, NEW p \in Procs, Replaces(p),
         {"post", "clock"} \cap stale' = {}, \A q \in Procs : Here(req[q]) # "setrow"
  PROVE  db.post.body = req[p].view.body
<1>0. /\ ReqOK /\ Here(req[p]) = "setpost" /\ req[p].op = "edit" /\ req[p].view # None
      /\ req'[p].op = "edit" /\ req'[p] # req[p]
  BY DEF Types, Replaces, At
<1>1. setpost(p)
  BY <1>0, StoresText
<1>2. {"post", "clock"} \cap stale = {} /\ row # None /\ row.mod = req[p].post.mod
  BY <1>1 DEF setpost, Overtaken
<1>3. req[p].view.mod = row.mod
  BY <1>0, <1>2 DEF ReqOK, Knows
<1>4. ~ \E q \in Procs : Settling(req[q])
  BY DEF Settling
<1>. QED BY <1>0, <1>2, <1>3, <1>4 DEF SeenInv

(* What editors were shown and what has changed since are told apart by the time
   of the row in every reachable state. *)
THEOREM AlwaysSeen == Spec => [](Types /\ Kept /\ TextInv /\ SeenInv)
<1>1. Init => SeenInv
  BY InitSeen
<1>2. Types /\ Types' /\ Kept /\ TextInv /\ SeenInv /\ [Next]_vars => SeenInv'
  BY SeenNext
<1>. QED BY <1>1, <1>2, AlwaysText, PTL DEF Spec

(* UpdatePost's comparison of times stands for one of texts: the text over which
   an accepted edit is written is the one its editor was shown, for any number of
   goroutines, users and requests.  Excepted are writes of the article by others
   since UpdatePost read it, a time that has changed since or stood for two
   changes, and changes between their two writes. *)
THEOREM EditsSawLatest == Spec => EditSawLatest
<1>1. ASSUME Types, SeenInv, [Next]_vars
      PROVE  [\A p \in Procs :
       Replaces(p) /\ {"post", "clock"} \cap stale' = {} /\ (\A q \in Procs : Here(req[q]) # "setrow")
         => db.post.body = req[p].view.body]_vars
  BY <1>1, SawLatest
<1>. QED BY <1>1, AlwaysSeen, PTL DEF Spec, EditSawLatest
=============================================================================
