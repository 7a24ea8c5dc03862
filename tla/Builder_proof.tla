---------------------------- MODULE Builder_proof ----------------------------
(***************************************************************************)
(* What is proved of Builder, for any names, calls and sizes of trees: the *)
(* loops with the explicit stack come to the leaves from left to right, so *)
(* that the builder implements CmdStages, and nothing of a stage that was  *)
(* marked secret is displayed.                                             *)
(*                                                                         *)
(* The argument is by listings: a listing of a tree is the sequence of the *)
(* positions of its leaves from left to right.  Pipes join listings, the   *)
(* other builders keep them, the loops follow them, and the reference      *)
(* definition of the stages by their rank is what they list.               *)
(***************************************************************************)
EXTENDS Builder, FiniteSetTheorems, TLAPS

Sides     == {"left", "right"}
Positions == Seq(Sides)

LEMMA BeforeOrder ==
  ASSUME NEW p \in Positions, NEW q \in Positions, Before(p, q)
  PROVE  p # q /\ ~Before(q, p)
<1> USE DEF Positions, Sides
<1>1. PICK k \in DOMAIN p : /\ p[k] = "left" /\ k \in DOMAIN q /\ q[k] = "right"
                            /\ \A j \in 1..(k - 1) : p[j] = q[j]
  BY DEF Before
<1>2. ASSUME Before(q, p) PROVE FALSE
  <2>1. PICK i \in DOMAIN q : /\ q[i] = "left" /\ i \in DOMAIN p /\ p[i] = "right"
                              /\ \A j \in 1..(i - 1) : q[j] = p[j]
    BY <1>2 DEF Before
  <2>2. i < k \/ i = k \/ k < i
    BY <1>1, <2>1
  <2>3. (i < k => i \in 1..(k - 1)) /\ (k < i => k \in 1..(i - 1))
    BY <1>1, <2>1
  <2> QED BY <1>1, <2>1, <2>2, <2>3
<1> QED BY <1>1, <1>2

(* A position is above another if the way to the other goes through it.    *)
Above(p, q) == Len(p) <= Len(q) /\ \A k \in 1..Len(p) : p[k] = q[k]

LEMMA AboveBefore ==
  ASSUME NEW p \in Positions, NEW q \in Positions, NEW r \in Positions
  PROVE  /\ Above(p, q) => ~Before(p, q) /\ ~Before(q, p)
         /\ Before(p, q) /\ Above(q, r) => Before(p, r)
         /\ Before(q, p) /\ Above(q, r) => Before(r, p)
<1> USE DEF Positions, Sides
<1>1. ASSUME Above(p, q) PROVE ~Before(p, q) /\ ~Before(q, p)
  <2>1. \A k \in DOMAIN p : p[k] = q[k]
    BY <1>1 DEF Above
  <2>2. ~Before(p, q)
    BY <2>1 DEF Before
  <2>3. ~Before(q, p)
    BY <2>1 DEF Before
  <2> QED BY <2>2, <2>3
<1>2. ASSUME Before(p, q), Above(q, r) PROVE Before(p, r)
  <2>1. PICK k \in DOMAIN p : /\ p[k] = "left" /\ k \in DOMAIN q /\ q[k] = "right"
                              /\ \A j \in 1..(k - 1) : p[j] = q[j]
    BY <1>2 DEF Before
  <2>2. k \in DOMAIN r /\ r[k] = "right" /\ \A j \in 1..(k - 1) : p[j] = r[j]
    BY <1>2, <2>1 DEF Above
  <2> QED BY <2>1, <2>2 DEF Before
<1>3. ASSUME Before(q, p), Above(q, r) PROVE Before(r, p)
  <2>1. PICK k \in DOMAIN q : /\ q[k] = "left" /\ k \in DOMAIN p /\ p[k] = "right"
                              /\ \A j \in 1..(k - 1) : q[j] = p[j]
    BY <1>3 DEF Before
  <2>2. k \in DOMAIN r /\ r[k] = "left" /\ \A j \in 1..(k - 1) : r[j] = p[j]
    BY <1>3, <2>1 DEF Above
  <2> QED BY <2>1, <2>2 DEF Before
<1> QED BY <1>1, <1>2, <1>3

(* The two ways on from a position.                                        *)
LEMMA SidesOf ==
  ASSUME NEW p \in Positions, NEW q \in Positions
  PROVE  /\ Append(p, "left") \in Positions /\ Append(p, "right") \in Positions
         /\ Before(Append(p, "left"), Append(p, "right"))
         /\ Above(p, Append(p, "left")) /\ Above(p, Append(p, "right"))
         /\ Above(p, q) /\ p # q =>
              Above(Append(p, "left"), q) \/ Above(Append(p, "right"), q)
         /\ \A s \in Sides : Above(Append(p, s), q) => Above(p, q)
<1> USE DEF Positions, Sides
<1>1. ASSUME NEW s \in Sides
      PROVE  /\ Append(p, s) \in Positions /\ Len(Append(p, s)) = Len(p) + 1
             /\ Append(p, s)[Len(p) + 1] = s
             /\ \A k \in 1..Len(p) : Append(p, s)[k] = p[k]
             /\ DOMAIN Append(p, s) = 1..(Len(p) + 1)
  OBVIOUS
<1>2. Before(Append(p, "left"), Append(p, "right"))
  <2>1. Len(p) \in Nat
    OBVIOUS
  <2> QED BY <1>1, <2>1 DEF Before
<1>3. \A s \in Sides : Above(p, Append(p, s))
  BY <1>1 DEF Above
<1>4. ASSUME Above(p, q), p # q
      PROVE  \E s \in Sides : Above(Append(p, s), q)
  <2>1. Len(p) < Len(q)
    BY <1>4 DEF Above
  <2>2. Len(p) + 1 \in DOMAIN q /\ q[Len(p) + 1] \in Sides
    BY <2>1
  <2>3. Above(Append(p, q[Len(p) + 1]), q)
    BY <1>1, <1>4, <2>1, <2>2 DEF Above
  <2> QED BY <2>2, <2>3
<1>5. ASSUME NEW s \in Sides, Above(Append(p, s), q)
      PROVE  Above(p, q)
  BY <1>1, <1>5 DEF Above
<1> QED BY <1>1, <1>2, <1>3, <1>4, <1>5
-----------------------------------------------------------------------------
(* Listings: the leaves of a tree from left to right.                      *)

Listing(tree, n, f) ==
  /\ n \in Nat /\ f \in [1..n -> DOMAIN tree]
  /\ \A p \in DOMAIN tree : \E i \in 1..n : f[i] = p
  /\ \A i, j \in 1..n : i < j => Before(f[i], f[j])

LEMMA ListingFacts ==
  ASSUME NEW tree, DOMAIN tree \subseteq Positions,
         NEW n, NEW f, Listing(tree, n, f)
  PROVE  /\ n \in Nat
         /\ \A i \in 1..n : f[i] \in DOMAIN tree /\ f[i] \in Positions
         /\ \A i, j \in 1..n : Before(f[i], f[j]) <=> i < j
         /\ \A i, j \in 1..n : f[i] = f[j] => i = j
<1>1. n \in Nat /\ \A i \in 1..n : f[i] \in DOMAIN tree /\ f[i] \in Positions
  BY DEF Listing
<1>2. ASSUME NEW i \in 1..n, NEW j \in 1..n, i < j
      PROVE  Before(f[i], f[j]) /\ ~Before(f[j], f[i]) /\ f[i] # f[j]
  <2>1. Before(f[i], f[j])
    BY <1>2 DEF Listing
  <2> QED BY <1>1, <2>1, BeforeOrder
<1>3. ASSUME NEW i \in 1..n PROVE ~Before(f[i], f[i])
  BY <1>1, BeforeOrder
<1>4. \A i, j \in 1..n : i < j \/ i = j \/ j < i
  BY <1>1
<1> QED BY <1>1, <1>2, <1>3, <1>4

LEMMA Counted ==
  ASSUME NEW S, NEW m \in Nat, NEW g \in [1..m -> S],
         \A x \in S : \E i \in 1..m : g[i] = x,
         \A i, j \in 1..m : g[i] = g[j] => i = j
  PROVE  Cardinality(S) = m
<1>1. g \in Surjection(1..m, S)
  BY DEF Surjection
<1>2. g \in Injection(1..m, S)
  BY DEF Injection, IsInjective
<1>3. ExistsBijection(1..m, S)
  BY <1>1, <1>2 DEF ExistsBijection, Bijection
<1> QED BY <1>3, FS_CountingElements

(* The reference definition of the stages by their rank is the listing.    *)
LEMMA ListingInOrder ==
  ASSUME NEW tree, DOMAIN tree \subseteq Positions,
         NEW n, NEW f, Listing(tree, n, f)
  PROVE  /\ Leaves(tree) = n
         /\ InOrder(tree) = [i \in 1..n |-> tree[f[i]]]
<1>1. /\ n \in Nat /\ f \in [1..n -> DOMAIN tree]
      /\ \A p \in DOMAIN tree : \E i \in 1..n : f[i] = p
      /\ \A i, j \in 1..n : Before(f[i], f[j]) <=> i < j
      /\ \A i, j \in 1..n : f[i] = f[j] => i = j
  <2>1. /\ n \in Nat /\ f \in [1..n -> DOMAIN tree]
        /\ \A p \in DOMAIN tree : \E i \in 1..n : f[i] = p
    BY DEF Listing
  <2> QED BY <2>1, ListingFacts
<1>2. Leaves(tree) = n
  BY <1>1, Counted DEF Leaves
<1>3. ASSUME NEW i \in 1..n
      PROVE  Cardinality({q \in DOMAIN tree : Before(q, f[i])}) = i - 1
  <2> DEFINE S == {q \in DOMAIN tree : Before(q, f[i])}
             g == [j \in 1..(i - 1) |-> f[j]]
  <2>1. i - 1 \in Nat /\ \A j \in 1..(i - 1) : j \in 1..n /\ j < i
    BY <1>1
  <2>2. g \in [1..(i - 1) -> S]
    <3>1. \A j \in 1..(i - 1) : f[j] \in S
      BY <1>1, <2>1
    <3> QED BY <3>1
  <2>3. \A j, k \in 1..(i - 1) : g[j] = g[k] => j = k
    BY <1>1, <2>1
  <2>4. \A q \in S : \E j \in 1..(i - 1) : g[j] = q
    <3> TAKE q \in S
    <3>1. PICK j \in 1..n : f[j] = q
      BY <1>1
    <3>2. j \in 1..(i - 1)
      BY <1>1, <3>1
    <3> QED BY <3>1, <3>2
  <2> HIDE DEF S, g
  <2>5. Cardinality(S) = i - 1
    BY <2>1, <2>2, <2>3, <2>4, Counted
  <2> QED BY <2>5 DEF S
<1>4. ASSUME NEW i \in 1..n
      PROVE  (CHOOSE p \in DOMAIN tree :
                Cardinality({q \in DOMAIN tree : Before(q, p)}) = i - 1) = f[i]
  <2> DEFINE Rank(p) == Cardinality({q \in DOMAIN tree : Before(q, p)})
  <2>1. Rank(f[i]) = i - 1 /\ f[i] \in DOMAIN tree
    BY <1>1, <1>3
  <2>2. ASSUME NEW p \in DOMAIN tree, Rank(p) = i - 1 PROVE p = f[i]
    <3>1. PICK j \in 1..n : f[j] = p
      BY <1>1
    <3>2. Rank(p) = j - 1
      BY <1>3, <3>1
    <3>3. i = j
      BY <1>1, <2>2, <3>2
    <3> QED BY <3>1, <3>3
  <2> HIDE DEF Rank
  <2>3. (CHOOSE p \in DOMAIN tree : Rank(p) = i - 1) = f[i]
    BY <2>1, <2>2
  <2> QED BY <2>3 DEF Rank
<1> HIDE DEF Leaves
<1>5. InOrder(tree) =
        [i \in 1..n |-> tree[CHOOSE p \in DOMAIN tree :
                               Cardinality({q \in DOMAIN tree : Before(q, p)}) = i - 1]]
  BY <1>2 DEF InOrder
<1> QED BY <1>2, <1>4, <1>5
-----------------------------------------------------------------------------
(* Trees.                                                                  *)

Stage == [program : Nat, ops : Seq(StageOps), marked : BOOLEAN]

AllRight(p) == \A k \in DOMAIN p : p[k] = "right"

IsTree(tree) ==
  /\ DOMAIN tree \subseteq Positions
  /\ tree \in [DOMAIN tree -> Stage]
  /\ \E n, f : Listing(tree, n, f)
  /\ \E p \in DOMAIN tree : AllRight(p)

(* The leaf that is on the right all the way is the last one, and there is *)
(* one.                                                                    *)
LEMMA RightmostIsLast ==
  ASSUME NEW tree, IsTree(tree), NEW n, NEW f, Listing(tree, n, f)
  PROVE  /\ n \in Nat /\ n > 0 /\ n \in 1..n
         /\ AllRight(f[n])
         /\ Rightmost(tree) = f[n]
<1>1. /\ n \in Nat
      /\ \A p \in DOMAIN tree : \E i \in 1..n : f[i] = p
      /\ \A i \in 1..n : f[i] \in DOMAIN tree
      /\ \A i, j \in 1..n : Before(f[i], f[j]) <=> i < j
  BY ListingFacts DEF IsTree, Listing
<1>2. ASSUME NEW p \in DOMAIN tree, AllRight(p)
      PROVE  n > 0 /\ p = f[n]
  <2>1. PICK i \in 1..n : f[i] = p
    BY <1>1
  <2>2. ~Before(f[i], f[n])
    BY <1>2, <2>1 DEF Before, AllRight
  <2>3. n \in 1..n /\ ~(i < n)
    BY <1>1, <2>2
  <2> QED BY <1>1, <2>1, <2>3
<1>3. PICK p \in DOMAIN tree : AllRight(p)
  BY DEF IsTree
<1>4. n > 0 /\ AllRight(f[n]) /\ f[n] \in DOMAIN tree
  BY <1>2, <1>3
<1>5. Rightmost(tree) = f[n]
  <2>1. Rightmost(tree) = CHOOSE q \in DOMAIN tree : AllRight(q)
    BY DEF Rightmost, AllRight
  <2> QED BY <1>2, <1>4, <2>1
<1> QED BY <1>1, <1>4, <1>5

LEMMA TreeFacts ==
  ASSUME NEW tree, IsTree(tree)
  PROVE  /\ Leaves(tree) \in Nat /\ Leaves(tree) > 0
         /\ InOrder(tree) \in Seq(Stage) /\ Len(InOrder(tree)) = Leaves(tree)
         /\ DOMAIN InOrder(tree) = 1..Leaves(tree)
         /\ \E f : /\ Listing(tree, Leaves(tree), f)
                   /\ InOrder(tree) = [i \in 1..Leaves(tree) |-> tree[f[i]]]
<1>1. PICK n, f : Listing(tree, n, f)
  BY DEF IsTree
<1>2. n \in Nat /\ n > 0 /\ \A i \in 1..n : f[i] \in DOMAIN tree
  BY <1>1, RightmostIsLast DEF Listing
<1>3. Leaves(tree) = n /\ InOrder(tree) = [i \in 1..n |-> tree[f[i]]]
  BY <1>1, ListingInOrder DEF IsTree
<1>4. \A i \in 1..n : tree[f[i]] \in Stage
  BY <1>2 DEF IsTree
<1>5. [i \in 1..n |-> tree[f[i]]] \in Seq(Stage)
      /\ Len([i \in 1..n |-> tree[f[i]]]) = n
  BY <1>2, <1>4
<1> QED BY <1>1, <1>2, <1>3, <1>5

LEMMA SameLeaves ==
  ASSUME NEW tree, NEW other, IsTree(tree),
         DOMAIN other = DOMAIN tree, other \in [DOMAIN tree -> Stage]
  PROVE  /\ IsTree(other) /\ Leaves(other) = Leaves(tree)
         /\ \A f : Listing(tree, Leaves(tree), f) =>
                     InOrder(other) = [i \in 1..Leaves(tree) |-> other[f[i]]]
<1>1. \A n, f : Listing(tree, n, f) => Listing(other, n, f)
  BY DEF Listing
<1>2. IsTree(other) /\ Leaves(other) = Leaves(tree)
  BY <1>1 DEF IsTree, Leaves
<1> QED BY <1>1, <1>2, ListingInOrder DEF IsTree

LEMMA SequenceIsFunction ==
  ASSUME NEW S, NEW s \in Seq(S)
  PROVE  s = [i \in 1..Len(s) |-> s[i]]
OBVIOUS

LEMMA ConcatIsSeq ==
  ASSUME NEW S, NEW s \in Seq(S), NEW t \in Seq(S)
  PROVE  s \o t \in Seq(S) /\ Len(s \o t) = Len(s) + Len(t)
OBVIOUS

LEMMA ConcatRight ==
  ASSUME NEW S, NEW s \in Seq(S), NEW t \in Seq(S), NEW i \in 1..Len(t)
  PROVE  (s \o t)[Len(s) + i] = t[i]
OBVIOUS

LEMMA SingleTree ==
  ASSUME NEW s \in Stage
  PROVE  IsTree(Single(s)) /\ InOrder(Single(s)) = <<s>>
<1> DEFINE t == Single(s)
           f == [i \in 1..1 |-> <<>>]
<1>1. DOMAIN t = {<<>>} /\ t[<<>>] = s /\ t \in [DOMAIN t -> Stage]
  BY DEF Single
<1>2. <<>> \in Positions /\ AllRight(<<>>)
  BY DEF Positions, AllRight
<1> HIDE DEF t
<1>3. Listing(t, 1, f)
  BY <1>1 DEF Listing
<1>4. IsTree(t)
  BY <1>1, <1>2, <1>3 DEF IsTree
<1>5. InOrder(t) = [i \in 1..1 |-> t[f[i]]]
  BY <1>1, <1>2, <1>3, ListingInOrder
<1>6. InOrder(t) = <<s>>
  BY <1>1, <1>5
<1> QED BY <1>4, <1>6 DEF t
Behind(s, p) == <<s>> \o p

LEMMA BehindFacts ==
  ASSUME NEW s \in Sides, NEW p \in Positions
  PROVE  /\ Behind(s, p) \in Positions /\ Len(Behind(s, p)) = Len(p) + 1
         /\ DOMAIN Behind(s, p) = 1..(Len(p) + 1)
         /\ Head(Behind(s, p)) = s /\ Tail(Behind(s, p)) = p
         /\ Behind(s, p)[1] = s
         /\ \A k \in 1..Len(p) : Behind(s, p)[k + 1] = p[k]
<1> USE DEF Positions, Behind
<1>1. <<s>> \in Positions /\ Len(<<s>>) = 1 /\ <<s>>[1] = s
  OBVIOUS
<1>2. /\ <<s>> \o p \in Positions /\ Len(<<s>> \o p) = Len(p) + 1
      /\ DOMAIN (<<s>> \o p) = 1..(Len(p) + 1)
      /\ (<<s>> \o p)[1] = s
      /\ \A k \in 1..Len(p) : (<<s>> \o p)[k + 1] = p[k]
  BY <1>1
<1>3. Head(<<s>> \o p) = s
  BY <1>2
<1>4. Tail(<<s>> \o p) = p
  <2>1. Tail(<<s>> \o p) \in Positions /\ Len(Tail(<<s>> \o p)) = Len(p)
    BY <1>2
  <2>2. \A k \in 1..Len(p) : Tail(<<s>> \o p)[k] = p[k]
    BY <1>2
  <2> QED BY <2>1, <2>2
<1> QED BY <1>2, <1>3, <1>4

LEMMA BeforeBehind ==
  ASSUME NEW p \in Positions, NEW q \in Positions
  PROVE  /\ \A s \in Sides : Before(p, q) => Before(Behind(s, p), Behind(s, q))
         /\ Before(Behind("left", p), Behind("right", q))
<1>1. ASSUME NEW s \in Sides, Before(p, q)
      PROVE  Before(Behind(s, p), Behind(s, q))
  <2> DEFINE u == Behind(s, p)
             v == Behind(s, q)
  <2>1. PICK k \in DOMAIN p : /\ p[k] = "left" /\ k \in DOMAIN q /\ q[k] = "right"
                              /\ \A j \in 1..(k - 1) : p[j] = q[j]
    BY <1>1 DEF Before
  <2>2. /\ k \in 1..Len(p) /\ k \in 1..Len(q) /\ Len(p) \in Nat /\ Len(q) \in Nat
        /\ k \in Nat
    BY <2>1 DEF Positions
  <2>3. /\ DOMAIN u = 1..(Len(p) + 1) /\ DOMAIN v = 1..(Len(q) + 1)
        /\ u[1] = s /\ v[1] = s
        /\ \A j \in 1..Len(p) : u[j + 1] = p[j]
        /\ \A j \in 1..Len(q) : v[j + 1] = q[j]
    BY BehindFacts
  <2> HIDE DEF u, v
  <2>4. /\ k + 1 \in DOMAIN u /\ u[k + 1] = "left"
        /\ k + 1 \in DOMAIN v /\ v[k + 1] = "right"
    BY <2>1, <2>2, <2>3
  <2>5. \A j \in 1..k : u[j] = v[j]
    <3> TAKE j \in 1..k
    <3>1. CASE j = 1
      BY <2>3, <3>1
    <3>2. CASE j # 1
      <4>1. j - 1 \in 1..(k - 1) /\ j - 1 \in 1..Len(p) /\ j - 1 \in 1..Len(q)
        BY <2>2, <3>2
      <4>2. j = (j - 1) + 1
        BY <2>2
      <4>3. u[(j - 1) + 1] = p[j - 1] /\ v[(j - 1) + 1] = q[j - 1]
        BY <2>3, <4>1
      <4> QED BY <2>1, <4>1, <4>2, <4>3
    <3> QED BY <3>1, <3>2
  <2>6. Before(u, v)
    BY <2>2, <2>4, <2>5 DEF Before
  <2> QED BY <2>6 DEF u, v
<1>2. Before(Behind("left", p), Behind("right", q))
  <2> DEFINE u == Behind("left", p)
             v == Behind("right", q)
  <2>1. /\ DOMAIN u = 1..(Len(p) + 1) /\ DOMAIN v = 1..(Len(q) + 1)
        /\ u[1] = "left" /\ v[1] = "right"
    BY BehindFacts DEF Sides
  <2>2. Len(p) \in Nat /\ Len(q) \in Nat
    BY DEF Positions
  <2> HIDE DEF u, v
  <2>3. /\ 1 \in DOMAIN u /\ u[1] = "left" /\ 1 \in DOMAIN v /\ v[1] = "right"
        /\ \A j \in 1..(1 - 1) : u[j] = v[j]
    BY <2>1, <2>2
  <2>4. Before(u, v)
    BY <2>3 DEF Before
  <2> QED BY <2>4 DEF u, v
<1> QED BY <1>1, <1>2

LEMMA PipeOfLeaves ==
  ASSUME NEW l, NEW r, IsTree(l), IsTree(r)
  PROVE  /\ \A p \in DOMAIN PipeOf(l, r) :
              \/ \E q \in DOMAIN l : p = Behind("left", q)
              \/ \E q \in DOMAIN r : p = Behind("right", q)
         /\ \A q \in DOMAIN l : /\ Behind("left", q) \in DOMAIN PipeOf(l, r)
                               /\ PipeOf(l, r)[Behind("left", q)] = l[q]
         /\ \A q \in DOMAIN r : /\ Behind("right", q) \in DOMAIN PipeOf(l, r)
                               /\ PipeOf(l, r)[Behind("right", q)] = r[q]
         /\ PipeOf(l, r) = [p \in DOMAIN PipeOf(l, r) |-> PipeOf(l, r)[p]]
<1> DEFINE D == {Behind("left", q) : q \in DOMAIN l}
                \union {Behind("right", q) : q \in DOMAIN r}
<1>1. PipeOf(l, r) =
        [p \in D |-> IF Head(p) = "left" THEN l[Tail(p)] ELSE r[Tail(p)]]
  BY DEF PipeOf, Behind
<1>2. ASSUME NEW q \in DOMAIN l
      PROVE  /\ Behind("left", q) \in D /\ Head(Behind("left", q)) = "left"
             /\ Tail(Behind("left", q)) = q
  BY BehindFacts DEF IsTree, Sides
<1>3. ASSUME NEW q \in DOMAIN r
      PROVE  /\ Behind("right", q) \in D /\ Head(Behind("right", q)) # "left"
             /\ Tail(Behind("right", q)) = q
  BY BehindFacts DEF IsTree, Sides
<1>4. \A p \in D : \/ \E q \in DOMAIN l : p = Behind("left", q)
                  \/ \E q \in DOMAIN r : p = Behind("right", q)
  OBVIOUS
<1> DEFINE P == PipeOf(l, r)
<1> HIDE DEF D, P
<1>5. /\ DOMAIN P = D
      /\ \A p \in D : P[p] = IF Head(p) = "left" THEN l[Tail(p)] ELSE r[Tail(p)]
      /\ P = [p \in D |-> P[p]]
  BY <1>1 DEF P
<1>6. \A q \in DOMAIN l : Behind("left", q) \in D /\ P[Behind("left", q)] = l[q]
  BY <1>2, <1>5
<1>7. \A q \in DOMAIN r : Behind("right", q) \in D /\ P[Behind("right", q)] = r[q]
  BY <1>3, <1>5
<1> QED BY <1>4, <1>5, <1>6, <1>7 DEF P

(* The leaves of a pipe are those of its left side, then those of its      *)
(* right side.                                                             *)
LEMMA PipeTree ==
  ASSUME NEW l, NEW r, IsTree(l), IsTree(r)
  PROVE  /\ IsTree(PipeOf(l, r))
         /\ InOrder(PipeOf(l, r)) = InOrder(l) \o InOrder(r)
<1> DEFINE t == PipeOf(l, r)
           n == Leaves(l)
           m == Leaves(r)
<1>1. n \in Nat /\ m \in Nat /\ m > 0
  BY TreeFacts
<1>2. PICK f : Listing(l, n, f) /\ InOrder(l) = [i \in 1..n |-> l[f[i]]]
  BY TreeFacts
<1>3. PICK g : Listing(r, m, g) /\ InOrder(r) = [i \in 1..m |-> r[g[i]]]
  BY TreeFacts
<1>4. /\ \A i \in 1..n : f[i] \in DOMAIN l /\ f[i] \in Positions
      /\ \A p \in DOMAIN l : \E i \in 1..n : f[i] = p
      /\ \A i, j \in 1..n : i < j => Before(f[i], f[j])
  BY <1>2 DEF Listing, IsTree
<1>5. /\ \A i \in 1..m : g[i] \in DOMAIN r /\ g[i] \in Positions
      /\ \A p \in DOMAIN r : \E i \in 1..m : g[i] = p
      /\ \A i, j \in 1..m : i < j => Before(g[i], g[j])
  BY <1>3 DEF Listing, IsTree
<1>6. /\ \A p \in DOMAIN t : \/ \E q \in DOMAIN l : p = Behind("left", q)
                            \/ \E q \in DOMAIN r : p = Behind("right", q)
      /\ \A q \in DOMAIN l : Behind("left", q) \in DOMAIN t
                            /\ t[Behind("left", q)] = l[q]
      /\ \A q \in DOMAIN r : Behind("right", q) \in DOMAIN t
                            /\ t[Behind("right", q)] = r[q]
      /\ t = [p \in DOMAIN t |-> t[p]]
  BY PipeOfLeaves
<1> HIDE DEF t, n, m
<1>7. DOMAIN t \subseteq Positions
  <2>1. \A q \in DOMAIN l : Behind("left", q) \in Positions
    BY BehindFacts DEF IsTree, Sides
  <2>2. \A q \in DOMAIN r : Behind("right", q) \in Positions
    BY BehindFacts DEF IsTree, Sides
  <2> QED BY <1>6, <2>1, <2>2
<1>8. t \in [DOMAIN t -> Stage]
  <2>1. \A p \in DOMAIN t : t[p] \in Stage
    BY <1>6 DEF IsTree
  <2> QED BY <1>6, <2>1
<1> DEFINE h == [i \in 1..(n + m) |->
                   IF i <= n THEN Behind("left", f[i]) ELSE Behind("right", g[i - n])]
<1>9. /\ n + m \in Nat
      /\ \A i \in 1..n : i \in 1..(n + m) /\ h[i] = Behind("left", f[i])
      /\ \A i \in 1..m : n + i \in 1..(n + m) /\ h[n + i] = Behind("right", g[i])
  BY <1>1
<1>10. h \in [1..(n + m) -> DOMAIN t]
  <2>1. \A i \in 1..(n + m) : i \in 1..n \/ (i - n \in 1..m /\ i = n + (i - n))
    BY <1>1
  <2>2. \A i \in 1..n : h[i] \in DOMAIN t
    BY <1>4, <1>6, <1>9
  <2>3. \A i \in 1..m : h[n + i] \in DOMAIN t
    BY <1>5, <1>6, <1>9
  <2>4. \A i \in 1..(n + m) : h[i] \in DOMAIN t
    BY <2>1, <2>2, <2>3
  <2>5. h = [i \in 1..(n + m) |-> h[i]]
    OBVIOUS
  <2> HIDE DEF h
  <2> QED BY <2>4, <2>5
<1> HIDE DEF h
<1>11. ASSUME NEW p \in DOMAIN t PROVE \E i \in 1..(n + m) : h[i] = p
  <2>1. ASSUME NEW q \in DOMAIN l, p = Behind("left", q)
        PROVE  \E i \in 1..(n + m) : h[i] = p
    BY <1>4, <1>9, <2>1
  <2>2. ASSUME NEW q \in DOMAIN r, p = Behind("right", q)
        PROVE  \E i \in 1..(n + m) : h[i] = p
    <3>1. PICK i \in 1..m : g[i] = q
      BY <1>5
    <3> QED BY <1>9, <2>2, <3>1
  <2> QED BY <1>6, <2>1, <2>2
<1>12. ASSUME NEW i \in 1..(n + m), NEW j \in 1..(n + m), i < j
       PROVE  Before(h[i], h[j])
  <2>1. CASE j <= n
    <3>1. i \in 1..n /\ j \in 1..n
      BY <1>1, <1>12, <2>1
    <3> QED BY <1>4, <1>9, <1>12, <3>1, BeforeBehind DEF Sides
  <2>2. CASE i <= n /\ n < j
    <3>1. i \in 1..n /\ j - n \in 1..m /\ j = n + (j - n)
      BY <1>1, <1>12, <2>2
    <3>2. h[i] = Behind("left", f[i]) /\ h[j] = Behind("right", g[j - n])
      BY <1>9, <3>1
    <3>3. f[i] \in Positions /\ g[j - n] \in Positions
      BY <1>4, <1>5, <3>1
    <3> QED BY <3>2, <3>3, BeforeBehind
  <2>3. CASE n < i
    <3>1. /\ i - n \in 1..m /\ i = n + (i - n) /\ j - n \in 1..m /\ j = n + (j - n)
          /\ i - n < j - n
      BY <1>1, <1>12, <2>3
    <3>2. h[i] = Behind("right", g[i - n]) /\ h[j] = Behind("right", g[j - n])
      BY <1>9, <3>1
    <3>3. /\ g[i - n] \in Positions /\ g[j - n] \in Positions
          /\ Before(g[i - n], g[j - n])
      BY <1>5, <3>1
    <3> QED BY <3>2, <3>3, BeforeBehind DEF Sides
  <2> QED BY <1>1, <1>12, <2>1, <2>2, <2>3
<1>13. Listing(t, n + m, h)
  BY <1>9, <1>10, <1>11, <1>12 DEF Listing
<1>14. \E p \in DOMAIN t : AllRight(p)
  <2>1. PICK q \in DOMAIN r : AllRight(q)
    BY DEF IsTree
  <2>2. Behind("right", q) \in DOMAIN t
    BY <1>6
  <2>3. q \in Positions /\ "right" \in Sides
    BY DEF IsTree, Sides
  <2>4. \A k \in 1..(Len(q) + 1) : k = 1 \/ (k - 1 \in 1..Len(q) /\ k = (k - 1) + 1)
    BY <2>3 DEF Positions
  <2>5. \A k \in 1..Len(q) : q[k] = "right"
    BY <2>1, <2>3 DEF AllRight, Positions
  <2>6. \A k \in DOMAIN Behind("right", q) : Behind("right", q)[k] = "right"
    <3>1. /\ DOMAIN Behind("right", q) = 1..(Len(q) + 1)
          /\ Behind("right", q)[1] = "right"
          /\ \A k \in 1..Len(q) : Behind("right", q)[k + 1] = q[k]
      BY <2>3, BehindFacts
    <3> TAKE k \in DOMAIN Behind("right", q)
    <3>2. CASE k = 1
      BY <3>1, <3>2
    <3>3. CASE k - 1 \in 1..Len(q) /\ k = (k - 1) + 1
      <4>1. Behind("right", q)[(k - 1) + 1] = "right"
        BY <2>5, <3>1, <3>3
      <4> QED BY <3>3, <4>1
    <3> QED BY <2>4, <3>1, <3>2, <3>3
  <2> QED BY <2>2, <2>6 DEF AllRight
<1>15. IsTree(t)
  BY <1>7, <1>8, <1>13, <1>14 DEF IsTree
<1>16. InOrder(t) = InOrder(l) \o InOrder(r)
  <2>1. InOrder(t) = [i \in 1..(n + m) |-> t[h[i]]]
    BY <1>7, <1>13, ListingInOrder
  <2>2. /\ InOrder(l) \in Seq(Stage) /\ InOrder(r) \in Seq(Stage)
        /\ Len(InOrder(l)) = n /\ Len(InOrder(r)) = m
    BY TreeFacts DEF n, m
  <2>3. \A i \in 1..n : t[h[i]] = InOrder(l)[i]
    BY <1>2, <1>4, <1>6, <1>9
  <2>4. \A i \in 1..m : t[h[n + i]] = InOrder(r)[i]
    BY <1>3, <1>5, <1>6, <1>9
  <2>5. \A i \in 1..(n + m) : t[h[i]] = (InOrder(l) \o InOrder(r))[i]
    <3> TAKE i \in 1..(n + m)
    <3>1. CASE i \in 1..n
      BY <2>2, <2>3, <3>1
    <3>2. CASE i \notin 1..n
      <4>1. i - n \in 1..m /\ i = n + (i - n)
        BY <1>1, <3>2
      <4>2. (InOrder(l) \o InOrder(r))[i] = InOrder(r)[i - n]
        BY <1>1, <2>2, <3>2
      <4> QED BY <2>4, <4>1, <4>2
    <3> QED BY <3>1, <3>2
  <2>6. InOrder(l) \o InOrder(r) = [i \in 1..(n + m) |-> (InOrder(l) \o InOrder(r))[i]]
    <3>1. /\ InOrder(l) \o InOrder(r) \in Seq(Stage)
          /\ Len(InOrder(l) \o InOrder(r)) = n + m
      BY <1>1, <2>2
    <3> QED BY <3>1, SequenceIsFunction
  <2> QED BY <2>1, <2>5, <2>6
<1> QED BY <1>15, <1>16 DEF t

LEMMA StageChanges ==
  ASSUME NEW s \in Stage, NEW op \in StageOps
  PROVE  /\ [s EXCEPT !.ops = Append(@, op)] \in Stage
         /\ [s EXCEPT !.marked = TRUE] \in Stage
<1>1. Append(s.ops, op) \in Seq(StageOps)
  BY DEF Stage
<1> QED BY <1>1 DEF Stage

(* A call on the rightmost leaf changes the last stage and no other.       *)
LEMMA RightmostTree ==
  ASSUME NEW tree, IsTree(tree), NEW op \in StageOps
  PROVE  /\ IsTree(OnRightmost(tree, op))
         /\ InOrder(OnRightmost(tree, op)) =
              [InOrder(tree) EXCEPT ![Leaves(tree)].ops = Append(@, op)]
<1> DEFINE n == Leaves(tree)
           u == OnRightmost(tree, op)
<1>1. PICK f : Listing(tree, n, f) /\ InOrder(tree) = [i \in 1..n |-> tree[f[i]]]
  BY TreeFacts
<1>2. /\ n \in Nat /\ n \in 1..n /\ Rightmost(tree) = f[n]
      /\ \A i \in 1..n : f[i] \in DOMAIN tree
      /\ \A i \in 1..n : f[i] = f[n] => i = n
  BY <1>1, RightmostIsLast, ListingFacts DEF IsTree
<1> DEFINE last == [tree[f[n]] EXCEPT !.ops = Append(@, op)]
<1>3. last \in Stage
  BY <1>2, StageChanges DEF IsTree
<1>4. u = [tree EXCEPT ![f[n]] = last]
  BY <1>2 DEF OnRightmost
<1> HIDE DEF last, n, u
<1>5. /\ DOMAIN u = DOMAIN tree /\ u \in [DOMAIN tree -> Stage]
      /\ \A p \in DOMAIN tree : u[p] = IF p = f[n] THEN last ELSE tree[p]
  BY <1>2, <1>3, <1>4 DEF IsTree
<1>6. IsTree(u) /\ InOrder(u) = [i \in 1..n |-> u[f[i]]]
  BY <1>1, <1>5, SameLeaves DEF n
<1>7. \A i \in 1..n : u[f[i]] = IF i = n THEN last ELSE tree[f[i]]
  BY <1>2, <1>5
<1>8. InOrder(u) = [i \in 1..n |-> IF i = n THEN last ELSE tree[f[i]]]
  BY <1>6, <1>7
<1>9. InOrder(u) = [InOrder(tree) EXCEPT ![n] = last]
  BY <1>1, <1>8
<1>10. last = [InOrder(tree)[n] EXCEPT !.ops = Append(@, op)]
  BY <1>1, <1>2 DEF last
<1> QED BY <1>6, <1>9, <1>10 DEF n, u

LEMMA MarkedTree ==
  ASSUME NEW tree, IsTree(tree)
  PROVE  /\ IsTree(Marked(tree))
         /\ Leaves(Marked(tree)) = Leaves(tree)
         /\ \A i \in 1..Leaves(tree) :
              InOrder(Marked(tree))[i] = [InOrder(tree)[i] EXCEPT !.marked = TRUE]
<1> DEFINE n == Leaves(tree)
           u == Marked(tree)
<1>1. PICK f : Listing(tree, n, f) /\ InOrder(tree) = [i \in 1..n |-> tree[f[i]]]
  BY TreeFacts
<1>2. \A i \in 1..n : f[i] \in DOMAIN tree
  BY <1>1, ListingFacts DEF IsTree
<1>3. DOMAIN u = DOMAIN tree /\ u \in [DOMAIN tree -> Stage]
  BY DEF Marked, IsTree, Stage
<1> HIDE DEF u
<1>4. /\ IsTree(u) /\ Leaves(u) = n
      /\ InOrder(u) = [i \in 1..n |-> u[f[i]]]
  BY <1>1, <1>3, SameLeaves
<1>5. \A p \in DOMAIN tree : u[p] = [tree[p] EXCEPT !.marked = TRUE]
  BY DEF Marked, u
<1> HIDE DEF n
<1>6. \A i \in 1..n : InOrder(u)[i] = [InOrder(tree)[i] EXCEPT !.marked = TRUE]
  BY <1>1, <1>2, <1>4, <1>5
<1> QED BY <1>4, <1>6 DEF n, u

-----------------------------------------------------------------------------
(* The loop of flatten and flatten_owned.  What has come out is the first  *)
(* of the leaves; every other one is under exactly the positions on the    *)
(* stack, those nearer to the top further to the left.                     *)

Unfolding(tree, st, o) ==
  \E f : /\ Listing(tree, Leaves(tree), f)
         /\ Len(o) <= Leaves(tree)
         /\ \A i \in 1..Len(o) : o[i] = tree[f[i]]
         /\ \A j \in 1..Leaves(tree) :
              Len(o) < j => \E k \in 1..Len(st) : Above(st[k], f[j])
         /\ \A i \in 1..Len(o), k \in 1..Len(st) : ~Above(st[k], f[i])
         /\ \A k, l \in 1..Len(st) : k < l => Before(st[l], st[k])

LEMMA UnfoldingStarts ==
  ASSUME NEW tree, IsTree(tree)
  PROVE  /\ <<<<>>>> \in Seq(Positions)
         /\ Unfolding(tree, <<<<>>>>, <<>>)
<1>1. PICK f : Listing(tree, Leaves(tree), f)
  BY TreeFacts
<1>2. Leaves(tree) \in Nat /\ \A i \in 1..Leaves(tree) : f[i] \in Positions
  BY <1>1, TreeFacts, ListingFacts DEF IsTree
<1>3. \A p \in Positions : Above(<<>>, p)
  BY DEF Above, Positions
<1>4. <<>> \in Positions
  BY DEF Positions
<1> HIDE DEF Positions
<1>5. /\ <<<<>>>> \in Seq(Positions) /\ Len(<<<<>>>>) = 1 /\ <<<<>>>>[1] = <<>>
      /\ Len(<<>>) = 0
  BY <1>4
<1>6. \A j \in 1..Leaves(tree) : \E k \in 1..Len(<<<<>>>>) : Above(<<<<>>>>[k], f[j])
  BY <1>2, <1>3, <1>5
<1> QED BY <1>1, <1>2, <1>5, <1>6 DEF Unfolding

LEMMA UnfoldingEnds ==
  ASSUME NEW tree, IsTree(tree), NEW o \in Seq(Stage), Unfolding(tree, <<>>, o)
  PROVE  o = InOrder(tree)
<1>1. PICK f : /\ Listing(tree, Leaves(tree), f)
               /\ Len(o) <= Leaves(tree)
               /\ \A i \in 1..Len(o) : o[i] = tree[f[i]]
               /\ \A j \in 1..Leaves(tree) :
                    Len(o) < j => \E k \in 1..Len(<<>>) : Above(<<>>[k], f[j])
  BY DEF Unfolding
<1>2. InOrder(tree) = [i \in 1..Leaves(tree) |-> tree[f[i]]]
  BY <1>1, ListingInOrder DEF IsTree
<1>3. Leaves(tree) \in Nat /\ Len(o) \in Nat
  BY TreeFacts
<1>4. Len(o) = Leaves(tree)
  BY <1>1, <1>3
<1>5. o = [i \in 1..Len(o) |-> o[i]]
  BY SequenceIsFunction
<1> QED BY <1>1, <1>2, <1>4, <1>5

(* The stack without its top.                                              *)
LEMMA PoppedFacts ==
  ASSUME NEW S, NEW st \in Seq(S), st # <<>>
  PROVE  LET rest == SubSeq(st, 1, Len(st) - 1)
         IN  /\ Len(st) \in Nat /\ Len(st) > 0 /\ st[Len(st)] \in S
             /\ rest \in Seq(S) /\ Len(rest) = Len(st) - 1
             /\ \A k \in 1..(Len(st) - 1) : rest[k] = st[k] /\ k \in 1..Len(st)
<1> DEFINE n == Len(st) - 1
<1>1. Len(st) \in Nat /\ Len(st) > 0 /\ n \in Nat
  OBVIOUS
<1>2. \A i \in 1..Len(st) : st[i] \in S
  OBVIOUS
<1>3. \A i \in 1..n : st[i] \in S /\ i \in 1..Len(st)
  BY <1>1, <1>2
<1> HIDE DEF n
<1>4. /\ SubSeq(st, 1, n) \in Seq(S) /\ Len(SubSeq(st, 1, n)) = n
      /\ \A i \in 1..n : SubSeq(st, 1, n)[i] = st[i]
  BY <1>1, <1>3
<1> QED BY <1>1, <1>2, <1>3, <1>4 DEF n

(* A leaf on top of the stack is the next one from the left.               *)
LEMMA UnfoldingLeaf ==
  ASSUME NEW tree, IsTree(tree), NEW st \in Seq(Positions), st # <<>>,
         NEW o \in Seq(Stage), Unfolding(tree, st, o), st[Len(st)] \in DOMAIN tree
  PROVE  /\ Append(o, tree[st[Len(st)]]) \in Seq(Stage)
         /\ Unfolding(tree, SubSeq(st, 1, Len(st) - 1), Append(o, tree[st[Len(st)]]))
<1> DEFINE n    == Leaves(tree)
           top  == st[Len(st)]
           rest == SubSeq(st, 1, Len(st) - 1)
           next == Append(o, tree[top])
           m    == Len(o)
<1>1. PICK f : /\ Listing(tree, n, f)
               /\ m <= n
               /\ \A i \in 1..m : o[i] = tree[f[i]]
               /\ \A j \in 1..n : m < j => \E k \in 1..Len(st) : Above(st[k], f[j])
               /\ \A i \in 1..m, k \in 1..Len(st) : ~Above(st[k], f[i])
               /\ \A k, l \in 1..Len(st) : k < l => Before(st[l], st[k])
  BY DEF Unfolding
<1>2. /\ n \in Nat /\ m \in Nat
      /\ \A i \in 1..n : f[i] \in Positions
      /\ \A i, j \in 1..n : Before(f[i], f[j]) <=> i < j
      /\ \A p \in DOMAIN tree : \E i \in 1..n : f[i] = p
      /\ tree[top] \in Stage
  <2>1. \A p \in DOMAIN tree : \E i \in 1..n : f[i] = p
    BY <1>1 DEF Listing
  <2>2. DOMAIN tree \subseteq Positions /\ tree[top] \in Stage
    BY DEF IsTree
  <2>3. m \in Nat
    OBVIOUS
  <2> HIDE DEF n, m, top
  <2> QED BY <1>1, <2>1, <2>2, <2>3, ListingFacts
<1>3. /\ Len(st) \in Nat /\ Len(st) > 0 /\ Len(st) \in 1..Len(st)
      /\ Len(rest) = Len(st) - 1
      /\ \A k \in 1..Len(rest) : rest[k] = st[k] /\ k \in 1..Len(st) /\ k < Len(st)
      /\ \A k \in 1..Len(st) : st[k] \in Positions
      /\ \A k \in 1..Len(st) : k \in 1..Len(rest) \/ k = Len(st)
  <2>1. /\ Len(st) \in Nat /\ Len(st) > 0 /\ Len(rest) = Len(st) - 1
        /\ \A k \in 1..(Len(st) - 1) : rest[k] = st[k] /\ k \in 1..Len(st)
    BY PoppedFacts
  <2> HIDE DEF rest
  <2> QED BY <2>1
<1>4. /\ next \in Seq(Stage) /\ Len(next) = m + 1
      /\ next[m + 1] = tree[top]
      /\ \A i \in 1..m : next[i] = o[i]
  BY <1>2
<1> HIDE DEF n, rest, next, m
<1>5. \A k \in 1..Len(rest) : Before(top, rest[k])
  BY <1>1, <1>3
<1>6. top = f[m + 1] /\ m + 1 \in 1..n
  <2>1. PICK i \in 1..n : f[i] = top
    BY <1>2
  <2>2. Above(top, top)
    BY <1>3 DEF Above, Positions
  <2>3. m < i
    <3>1. i \notin 1..m
      BY <1>1, <1>3, <2>1, <2>2
    <3> QED BY <1>2, <3>1
  <2>4. m + 1 \in 1..n
    BY <1>2, <2>3
  <2>5. PICK k \in 1..Len(st) : Above(st[k], f[m + 1])
    BY <1>1, <1>2, <2>4
  <2>6. ~Before(f[i], f[m + 1])
    BY <1>2, <2>3, <2>4
  <2>7. k = Len(st)
    <3>1. ASSUME k \in 1..Len(rest) PROVE FALSE
      <4>1. Before(top, st[k])
        BY <1>3, <1>5, <3>1
      <4>2. Before(f[i], f[m + 1])
        BY <1>2, <1>3, <2>1, <2>4, <2>5, <4>1, AboveBefore
      <4> QED BY <2>6, <4>2
    <3> QED BY <1>3, <3>1
  <2>8. ~Before(f[m + 1], f[i])
    BY <1>2, <1>3, <2>1, <2>4, <2>5, <2>7, AboveBefore
  <2> QED BY <1>2, <2>1, <2>3, <2>4, <2>8
<1>7. \A i \in 1..(m + 1) : next[i] = tree[f[i]]
  BY <1>1, <1>2, <1>4, <1>6
<1>8. ASSUME NEW j \in 1..n, m + 1 < j
      PROVE  \E k \in 1..Len(rest) : Above(rest[k], f[j])
  <2>1. PICK k \in 1..Len(st) : Above(st[k], f[j])
    BY <1>1, <1>2, <1>8
  <2>2. Before(f[m + 1], f[j])
    BY <1>2, <1>6, <1>8
  <2>3. k # Len(st)
    BY <1>2, <1>6, <2>1, <2>2, AboveBefore
  <2> QED BY <1>3, <2>1, <2>3
<1>9. ASSUME NEW i \in 1..(m + 1), NEW k \in 1..Len(rest)
      PROVE  ~Above(rest[k], f[i])
  <2>1. CASE i \in 1..m
    BY <1>1, <1>3, <2>1
  <2>2. CASE i = m + 1
    <3>1. Before(f[m + 1], rest[k]) /\ rest[k] \in Positions /\ f[m + 1] \in Positions
      BY <1>2, <1>3, <1>5, <1>6
    <3> QED BY <2>2, <3>1, AboveBefore
  <2> QED BY <1>2, <2>1, <2>2
<1>10. \A k, l \in 1..Len(rest) : k < l => Before(rest[l], rest[k])
  BY <1>1, <1>3
<1>11. Unfolding(tree, rest, next)
  <2>1. m + 1 <= n
    BY <1>2, <1>6
  <2> QED BY <1>1, <1>4, <1>7, <1>8, <1>9, <1>10, <2>1 DEF Unfolding, n
<1> QED BY <1>4, <1>11 DEF rest, next

(* A pipe on top of the stack gives way to its sides, the right one first. *)
LEMMA UnfoldingPipe ==
  ASSUME NEW tree, IsTree(tree), NEW st \in Seq(Positions), st # <<>>,
         NEW o \in Seq(Stage), Unfolding(tree, st, o), st[Len(st)] \notin DOMAIN tree
  PROVE  LET top  == st[Len(st)]
             next == SubSeq(st, 1, Len(st) - 1)
                       \o <<Append(top, "right"), Append(top, "left")>>
         IN  next \in Seq(Positions) /\ Unfolding(tree, next, o)
<1> DEFINE n     == Leaves(tree)
           top   == st[Len(st)]
           left  == Append(top, "left")
           right == Append(top, "right")
           rest  == SubSeq(st, 1, Len(st) - 1)
           next  == rest \o <<right, left>>
           m     == Len(o)
           z     == Len(st)
<1>1. PICK f : /\ Listing(tree, n, f)
               /\ m <= n
               /\ \A i \in 1..m : o[i] = tree[f[i]]
               /\ \A j \in 1..n : m < j => \E k \in 1..z : Above(st[k], f[j])
               /\ \A i \in 1..m, k \in 1..z : ~Above(st[k], f[i])
               /\ \A k, l \in 1..z : k < l => Before(st[l], st[k])
  BY DEF Unfolding
<1>2. /\ n \in Nat /\ m \in Nat
      /\ \A i \in 1..n : f[i] \in Positions /\ f[i] \in DOMAIN tree
  <2>1. m \in Nat
    OBVIOUS
  <2> HIDE DEF n, m
  <2> QED BY <1>1, <2>1, ListingFacts DEF IsTree
<1>3. /\ z \in Nat /\ z > 0 /\ top \in Positions
      /\ rest \in Seq(Positions) /\ Len(rest) = z - 1
      /\ \A k \in 1..(z - 1) : rest[k] = st[k] /\ k \in 1..z
      /\ \A k \in 1..z : st[k] \in Positions
  <2>1. \A k \in 1..z : st[k] \in Positions
    OBVIOUS
  <2> QED BY <2>1, PoppedFacts
<1>4. /\ left \in Positions /\ right \in Positions /\ Before(left, right)
      /\ Above(top, left) /\ Above(top, right)
      /\ \A p \in Positions : /\ Above(left, p) \/ Above(right, p) => Above(top, p)
                              /\ Above(top, p) /\ top # p =>
                                   Above(left, p) \/ Above(right, p)
  BY <1>3, SidesOf DEF Sides
<1> HIDE DEF n, m, z, left, right, rest, top
<1>5. /\ next \in Seq(Positions) /\ Len(next) = z + 1
      /\ \A k \in 1..(z - 1) : next[k] = st[k]
      /\ next[z] = right /\ next[z + 1] = left
  <2>1. <<right, left>> \in Seq(Positions) /\ Len(<<right, left>>) = 2
        /\ <<right, left>>[1] = right /\ <<right, left>>[2] = left
    BY <1>4
  <2>2. next \in Seq(Positions) /\ Len(next) = Len(rest) + 2
    BY <1>3, <2>1
  <2>3. \A k \in 1..(z - 1) : next[k] = rest[k]
    BY <1>3, <2>1
  <2>4. next[z] = right
    BY <1>3, <2>1
  <2>5. next[z + 1] = left
    <3>1. 2 \in 1..Len(<<right, left>>)
      BY <2>1
    <3>2. next[Len(rest) + 2] = <<right, left>>[2]
      BY <1>3, <2>1, <3>1, ConcatRight
    <3>3. Len(rest) + 2 = z + 1
      BY <1>3
    <3> QED BY <2>1, <3>2, <3>3
  <2>6. Len(next) = z + 1
    BY <1>3, <2>2
  <2> QED BY <1>3, <2>2, <2>3, <2>4, <2>5, <2>6
<1> HIDE DEF next
<1>6. \A k \in 1..(z + 1) : k \in 1..(z - 1) \/ k = z \/ k = z + 1
  BY <1>3
<1>7. z \in 1..z /\ st[z] = top
  BY <1>3 DEF z, top
<1>8. ASSUME NEW j \in 1..n, m < j
      PROVE  \E k \in 1..(z + 1) : Above(next[k], f[j])
  <2>1. PICK k \in 1..z : Above(st[k], f[j])
    BY <1>1, <1>8
  <2>2. CASE k \in 1..(z - 1)
    <3>1. k \in 1..(z + 1) /\ next[k] = st[k]
      BY <1>3, <1>5, <2>2
    <3> QED BY <2>1, <3>1
  <2>3. CASE k = z
    <3>1. f[j] # top
      BY <1>2 DEF top
    <3>2. Above(left, f[j]) \/ Above(right, f[j])
      BY <1>2, <1>4, <1>7, <2>1, <2>3, <3>1
    <3>3. z \in 1..(z + 1) /\ z + 1 \in 1..(z + 1)
      BY <1>3
    <3> QED BY <1>5, <3>2, <3>3
  <2> QED BY <1>3, <2>1, <2>2, <2>3
<1>9. ASSUME NEW i \in 1..m, NEW k \in 1..(z + 1)
      PROVE  ~Above(next[k], f[i])
  <2>1. i \in 1..n /\ f[i] \in Positions
    BY <1>1, <1>2
  <2>2. ~Above(top, f[i]) /\ \A l \in 1..(z - 1) : ~Above(st[l], f[i])
    BY <1>1, <1>3, <1>7
  <2>3. ~Above(left, f[i]) /\ ~Above(right, f[i])
    BY <1>4, <2>1, <2>2
  <2> QED BY <1>5, <1>6, <2>2, <2>3
<1>10. ASSUME NEW k \in 1..(z + 1), NEW l \in 1..(z + 1), k < l
       PROVE  Before(next[l], next[k])
  <2>1. CASE l \in 1..(z - 1)
    <3>1. k \in 1..(z - 1) /\ k \in 1..z /\ l \in 1..z
      BY <1>3, <1>10, <2>1
    <3> QED BY <1>1, <1>5, <1>10, <2>1, <3>1
  <2>2. CASE l \in {z, z + 1} /\ k \in 1..(z - 1)
    <3>1. Before(top, st[k]) /\ st[k] \in Positions
      BY <1>1, <1>3, <1>7, <2>2
    <3>2. Before(left, st[k]) /\ Before(right, st[k])
      BY <1>3, <1>4, <3>1, AboveBefore
    <3> QED BY <1>5, <2>2, <3>2
  <2>3. CASE l = z + 1 /\ k = z
    BY <1>4, <1>5, <2>3
  <2> QED BY <1>3, <1>6, <1>10, <2>1, <2>2, <2>3
<1>11. Unfolding(tree, next, o)
  BY <1>1, <1>5, <1>8, <1>9, <1>10 DEF Unfolding, n, m
<1> QED BY <1>5, <1>11 DEF next, rest, left, right, top

-----------------------------------------------------------------------------
(* Commands.                                                               *)

IsCmd(c) ==
  /\ c = [tree |-> c.tree, knobs |-> c.knobs, secret |-> c.secret]
  /\ IsTree(c.tree) /\ c.secret \in BOOLEAN
  /\ \A p \in DOMAIN c.tree : c.tree[p].marked => c.secret

(* What a name can hold.                                                   *)
Held(x) == x = Nothing \/ \E c : IsCmd(c) /\ x = <<c>>

LEMMA NewCmd ==
  ASSUME NEW k \in Nat
  PROVE  /\ [program |-> k, ops |-> <<>>, marked |-> FALSE] \in Stage
         /\ IsCmd([tree |-> Single([program |-> k, ops |-> <<>>, marked |-> FALSE]),
                   knobs |-> {}, secret |-> FALSE])
<1> DEFINE s == [program |-> k, ops |-> <<>>, marked |-> FALSE]
           t == Single(s)
<1>1. s \in Stage
  BY DEF Stage
<1>2. IsTree(t)
  BY <1>1, SingleTree
<1>3. \A p \in DOMAIN t : t[p].marked = FALSE
  BY DEF Single
<1> HIDE DEF t
<1>4. IsCmd([tree |-> t, knobs |-> {}, secret |-> FALSE])
  BY <1>2, <1>3 DEF IsCmd
<1> QED BY <1>1, <1>4 DEF t

(* The stages of a pipe that were marked are on a side that is secret.     *)
LEMMA PipedCmd ==
  ASSUME NEW a, NEW b, IsCmd(a), IsCmd(b)
  PROVE  IsCmd(Piped(a, b))
<1> DEFINE t == PipeOf(a.tree, b.tree)
<1>1. IsTree(a.tree) /\ IsTree(b.tree)
  BY DEF IsCmd
<1>2. IsTree(t)
  BY <1>1, PipeTree
<1>3. \A p \in DOMAIN t : (\E q \in DOMAIN a.tree : t[p] = a.tree[q])
                          \/ (\E q \in DOMAIN b.tree : t[p] = b.tree[q])
  BY <1>1, PipeOfLeaves
<1>4. \A p \in DOMAIN t : t[p].marked => a.secret \/ b.secret
  BY <1>3 DEF IsCmd
<1> HIDE DEF t
<1>5. /\ Piped(a, b) = [tree |-> t, knobs |-> a.knobs, secret |-> a.secret \/ b.secret]
      /\ (a.secret \/ b.secret) \in BOOLEAN
  BY DEF Piped, t, IsCmd
<1> QED BY <1>2, <1>4, <1>5 DEF IsCmd

LEMMA ChangedCmd ==
  ASSUME NEW c, IsCmd(c)
  PROVE  /\ \A op \in StageOps : IsCmd([c EXCEPT !.tree = OnRightmost(@, op)])
         /\ \A ks : IsCmd([c EXCEPT !.knobs = ks])
         /\ IsCmd(Secret(c))
<1>1. ASSUME NEW op \in StageOps
      PROVE  IsCmd([c EXCEPT !.tree = OnRightmost(@, op)])
  <2> DEFINE t == OnRightmost(c.tree, op)
  <2>1. IsTree(t)
    BY RightmostTree DEF IsCmd
  <2>2. /\ DOMAIN t = DOMAIN c.tree
        /\ \A p \in DOMAIN c.tree : t[p].marked = c.tree[p].marked
    <3>1. \A p \in DOMAIN c.tree : c.tree[p] \in Stage
      BY DEF IsCmd, IsTree
    <3>2. t = [c.tree EXCEPT ![Rightmost(c.tree)] =
                 [c.tree[Rightmost(c.tree)] EXCEPT !.ops = Append(@, op)]]
      BY DEF OnRightmost
    <3>3. \A s \in Stage : [s EXCEPT !.ops = Append(@, op)].marked = s.marked
      BY DEF Stage
    <3> HIDE DEF t
    <3> QED BY <3>1, <3>2, <3>3 DEF IsCmd, IsTree
  <2> HIDE DEF t
  <2>3. [c EXCEPT !.tree = t] = [tree |-> t, knobs |-> c.knobs, secret |-> c.secret]
    BY DEF IsCmd
  <2>4. IsCmd([c EXCEPT !.tree = t])
    BY <2>1, <2>2, <2>3 DEF IsCmd
  <2> QED BY <2>4 DEF t
<1>2. ASSUME NEW ks PROVE IsCmd([c EXCEPT !.knobs = ks])
  <2>1. [c EXCEPT !.knobs = ks] = [tree |-> c.tree, knobs |-> ks, secret |-> c.secret]
    BY DEF IsCmd
  <2> QED BY <2>1 DEF IsCmd
<1>3. IsCmd(Secret(c))
  BY MarkedTree DEF IsCmd, Secret
<1> QED BY <1>1, <1>2, <1>3

-----------------------------------------------------------------------------
(* The invariant.                                                          *)

Displayed(stages, secret) ==
  [i \in DOMAIN stages |->
     [program |-> stages[i].program,
      ops |-> IF secret THEN <<"secret">> ELSE stages[i].ops]]

Commands ==
  /\ made \in Nat
  /\ cmds = [n \in Names |-> cmds[n]]
  /\ \A n \in Names : Held(cmds[n])

Unfolds ==
  /\ phase \in {"building", "display", "stages", "spawned"}
  /\ stack \in Seq(Positions) /\ out \in Seq(Stage)
  /\ phase = "building" => stack = <<>> /\ out = <<>>
  /\ phase \in {"display", "stages"} =>
       run \in Names /\ cmds[run] # Nothing /\ Unfolding(Tree, stack, out)
  /\ phase = "stages" => shown = Displayed(InOrder(Tree), cmds[run][1].secret)

Inv == Commands /\ Unfolds /\ SecretsHidden

LEMMA HeldCmd ==
  ASSUME Commands, NEW n \in Names, cmds[n] # Nothing
  PROVE  /\ IsCmd(cmds[n][1]) /\ cmds[n] = <<cmds[n][1]>>
         /\ IsTree(cmds[n][1].tree) /\ cmds[n][1].secret \in BOOLEAN
<1>1. PICK c : IsCmd(c) /\ cmds[n] = <<c>>
  BY DEF Commands, Held
<1>2. cmds[n][1] = c
  BY <1>1
<1> QED BY <1>1, <1>2 DEF IsCmd

LEMMA InitInv == Init => Inv
<1> SUFFICES ASSUME Init PROVE Inv
  OBVIOUS
<1>1. Commands
  BY DEF Init, Commands, Held
<1>2. Unfolds /\ SecretsHidden
  BY DEF Init, Unfolds, SecretsHidden
<1> QED BY <1>1, <1>2 DEF Inv

LEMMA OneElement ==
  ASSUME NEW c, NEW d
  PROVE  [<<c>> EXCEPT ![1] = d] = <<d>>
OBVIOUS

(* What the builders make of the Cmd that a name holds.                    *)
LEMMA Changes ==
  ASSUME Commands, NEW n \in Names, cmds[n] # Nothing
  PROVE  LET c == cmds[n][1]
         IN  /\ \A op \in StageOps :
                  [cmds EXCEPT ![n][1].tree = OnRightmost(@, op)] =
                    [cmds EXCEPT ![n] = <<[c EXCEPT !.tree = OnRightmost(@, op)]>>]
             /\ \A k \in Knobs :
                  [cmds EXCEPT ![n][1].knobs = @ \union {k}] =
                    [cmds EXCEPT ![n] = <<[c EXCEPT !.knobs = @ \union {k}]>>]
<1> DEFINE c == cmds[n][1]
<1>1. cmds[n] = <<c>>
  BY HeldCmd
<1> HIDE DEF c
<1>2. \A d : [cmds[n] EXCEPT ![1] = d] = <<d>>
  BY <1>1, OneElement
<1> QED BY <1>2 DEF c

LEMMA CommandsSet ==
  ASSUME Commands, NEW n \in Names, NEW x, Held(x), made' \in Nat,
         cmds' = [cmds EXCEPT ![n] = x]
  PROVE  Commands'
BY DEF Commands

LEMMA BuildSteps ==
  ASSUME Commands, NEW n \in Names, NEW m \in Names,
         New(n) \/ Configure(n) \/ Set(n) \/ Pipe(n, m) \/ Clone(n, m)
  PROVE  Commands'
<1>1. CASE New(n)
  <2>1. /\ made' \in Nat
        /\ cmds' = [cmds EXCEPT ![n] =
             <<[tree |-> Single([program |-> made', ops |-> <<>>, marked |-> FALSE]),
                knobs |-> {}, secret |-> FALSE]>>]
    BY <1>1 DEF New, Commands
  <2> QED BY <2>1, NewCmd, CommandsSet DEF Held
<1>2. CASE Configure(n)
  <2>1. cmds[n] # Nothing /\ made' \in Nat
    BY <1>2 DEF Configure, Holds, Commands
  <2>2. PICK op \in StageOps : cmds' = [cmds EXCEPT ![n][1].tree = OnRightmost(@, op)]
    BY <1>2 DEF Configure
  <2>3. cmds' = [cmds EXCEPT ![n] = <<[cmds[n][1] EXCEPT !.tree = OnRightmost(@, op)]>>]
    BY <2>1, <2>2, Changes
  <2>4. IsCmd([cmds[n][1] EXCEPT !.tree = OnRightmost(@, op)])
    BY <2>1, HeldCmd, ChangedCmd
  <2> QED BY <2>1, <2>3, <2>4, CommandsSet DEF Held
<1>3. CASE Set(n)
  <2>1. cmds[n] # Nothing /\ made' \in Nat
    BY <1>3 DEF Set, Holds, Commands
  <2>2. IsCmd(cmds[n][1])
    BY <2>1, HeldCmd
  <2>3. ASSUME NEW k \in Knobs, cmds' = [cmds EXCEPT ![n][1].knobs = @ \union {k}]
        PROVE  Commands'
    <3>1. cmds' = [cmds EXCEPT ![n] = <<[cmds[n][1] EXCEPT !.knobs = @ \union {k}]>>]
      BY <2>1, <2>3, Changes
    <3>2. IsCmd([cmds[n][1] EXCEPT !.knobs = @ \union {k}])
      BY <2>2, ChangedCmd
    <3> QED BY <2>1, <3>1, <3>2, CommandsSet DEF Held
  <2>4. ASSUME cmds' = [cmds EXCEPT ![n] = <<Secret(cmds[n][1])>>]
        PROVE  Commands'
    <3>1. IsCmd(Secret(cmds[n][1]))
      BY <2>2, ChangedCmd
    <3> QED BY <2>1, <2>4, <3>1, CommandsSet DEF Held
  <2> QED BY <1>3, <2>3, <2>4 DEF Set
<1>4. CASE Pipe(n, m)
  <2>1. /\ cmds[n] # Nothing /\ cmds[m] # Nothing /\ made' \in Nat
        /\ cmds' = [cmds EXCEPT ![n] = <<Piped(cmds[n][1], cmds[m][1])>>, ![m] = Nothing]
    BY <1>4 DEF Pipe, Holds, Commands
  <2>2. IsCmd(Piped(cmds[n][1], cmds[m][1]))
    BY <2>1, HeldCmd, PipedCmd
  <2>3. Held(<<Piped(cmds[n][1], cmds[m][1])>>) /\ Held(Nothing)
    BY <2>2 DEF Held
  <2> QED BY <2>1, <2>3 DEF Commands
<1>5. CASE Clone(n, m)
  <2>1. /\ made' \in Nat /\ Held(cmds[n])
        /\ cmds' = [cmds EXCEPT ![m] = cmds[n]]
    BY <1>5 DEF Clone, Commands
  <2> QED BY <2>1, CommandsSet
<1> QED BY <1>1, <1>2, <1>3, <1>4, <1>5

LEMMA MarkedIsSecret ==
  ASSUME NEW c, IsCmd(c)
  PROVE  \A i \in DOMAIN InOrder(c.tree) : InOrder(c.tree)[i].marked => c.secret
<1>1. PICK f : /\ Listing(c.tree, Leaves(c.tree), f)
               /\ InOrder(c.tree) = [i \in 1..Leaves(c.tree) |-> c.tree[f[i]]]
  BY TreeFacts DEF IsCmd
<1>2. \A i \in 1..Leaves(c.tree) : f[i] \in DOMAIN c.tree
  BY <1>1, ListingFacts DEF IsCmd, IsTree
<1> QED BY <1>1, <1>2 DEF IsCmd

LEMMA RunStep ==
  ASSUME Inv, NEW n \in Names, Run(n)
  PROVE  Inv'
<1>1. /\ phase = "building" /\ phase' = "display" /\ run' = n
      /\ stack' = <<<<>>>> /\ out' = out /\ cmds' = cmds /\ made' = made
      /\ cmds[n] # Nothing
  BY DEF Run, Holds
<1>2. Commands'
  BY <1>1 DEF Inv, Commands
<1>3. out = <<>> /\ out \in Seq(Stage)
  BY <1>1 DEF Inv, Unfolds
<1>4. Tree' = cmds[n][1].tree
  BY <1>1 DEF Tree
<1>5. IsTree(cmds[n][1].tree)
  BY <1>1, HeldCmd DEF Inv
<1>6. stack' \in Seq(Positions) /\ Unfolding(Tree', stack', out')
  BY <1>1, <1>3, <1>4, <1>5, UnfoldingStarts
<1>7. Unfolds'
  BY <1>1, <1>3, <1>6 DEF Unfolds
<1> QED BY <1>1, <1>2, <1>7 DEF Inv, SecretsHidden

LEMMA FlattenStep ==
  ASSUME Inv, Flatten
  PROVE  Inv'
<1>1. /\ phase \in {"display", "stages"} /\ stack # <<>>
      /\ UNCHANGED <<made, cmds, phase, shown, run>>
      /\ Tree' = Tree
  BY DEF Flatten, Tree
<1>2. /\ run \in Names /\ cmds[run] # Nothing /\ Unfolding(Tree, stack, out)
      /\ stack \in Seq(Positions) /\ out \in Seq(Stage)
  BY <1>1 DEF Inv, Unfolds
<1>3. IsTree(Tree)
  BY <1>2, HeldCmd DEF Inv, Tree
<1>4. stack' \in Seq(Positions) /\ out' \in Seq(Stage) /\ Unfolding(Tree, stack', out')
  <2>1. CASE Top \in DOMAIN Tree
    <3>1. stack' = SubSeq(stack, 1, Len(stack) - 1)
          /\ out' = Append(out, Tree[stack[Len(stack)]])
          /\ stack[Len(stack)] \in DOMAIN Tree
      BY <2>1 DEF Flatten, Popped, Top
    <3>2. SubSeq(stack, 1, Len(stack) - 1) \in Seq(Positions)
      BY <1>1, <1>2, PoppedFacts
    <3> QED BY <1>1, <1>2, <1>3, <3>1, <3>2, UnfoldingLeaf
  <2>2. CASE Top \notin DOMAIN Tree
    <3>1. /\ stack' = SubSeq(stack, 1, Len(stack) - 1)
                        \o <<Append(stack[Len(stack)], "right"),
                             Append(stack[Len(stack)], "left")>>
          /\ out' = out /\ stack[Len(stack)] \notin DOMAIN Tree
      BY <2>2 DEF Flatten, Popped, Top
    <3> QED BY <1>1, <1>2, <1>3, <3>1, UnfoldingPipe
  <2> QED BY <2>1, <2>2
<1>5. Commands'
  BY <1>1 DEF Inv, Commands
<1>6. Unfolds'
  BY <1>1, <1>2, <1>4 DEF Inv, Unfolds
<1> QED BY <1>1, <1>5, <1>6 DEF Inv, SecretsHidden

LEMMA DisplayStep ==
  ASSUME Inv, Display
  PROVE  Inv'
<1>1. /\ phase = "display" /\ phase' = "stages" /\ stack = <<>>
      /\ shown' = Displayed(out, cmds[run][1].secret)
      /\ stack' = <<<<>>>> /\ out' = <<>>
      /\ UNCHANGED <<made, cmds, run>> /\ Tree' = Tree
  BY DEF Display, Displayed, Tree
<1>2. /\ run \in Names /\ cmds[run] # Nothing /\ Unfolding(Tree, stack, out)
      /\ out \in Seq(Stage)
  BY <1>1 DEF Inv, Unfolds
<1>3. IsTree(Tree)
  BY <1>2, HeldCmd DEF Inv, Tree
<1>4. out = InOrder(Tree)
  BY <1>1, <1>2, <1>3, UnfoldingEnds
<1>5. stack' \in Seq(Positions) /\ out' \in Seq(Stage) /\ Unfolding(Tree, stack', out')
  BY <1>1, <1>3, UnfoldingStarts
<1>6. Commands'
  BY <1>1 DEF Inv, Commands
<1>7. Unfolds'
  BY <1>1, <1>2, <1>4, <1>5 DEF Unfolds
<1> QED BY <1>1, <1>6, <1>7 DEF Inv, SecretsHidden

(* When the stages have come out, they are those of the display, and the   *)
(* tree's from left to right.                                              *)
LEMMA SpawnFacts ==
  ASSUME Inv, Spawn
  PROVE  /\ phase = "stages" /\ run \in Names /\ cmds[run] # Nothing
         /\ out = InOrder(Tree)
         /\ shown = Displayed(out, cmds[run][1].secret)
<1>1. phase = "stages" /\ stack = <<>>
  BY DEF Spawn
<1>2. /\ run \in Names /\ cmds[run] # Nothing /\ Unfolding(Tree, stack, out)
      /\ out \in Seq(Stage) /\ shown = Displayed(InOrder(Tree), cmds[run][1].secret)
  BY <1>1 DEF Inv, Unfolds
<1>3. IsTree(Tree)
  BY <1>2, HeldCmd DEF Inv, Tree
<1>4. out = InOrder(Tree)
  BY <1>1, <1>2, <1>3, UnfoldingEnds
<1> QED BY <1>1, <1>2, <1>4

LEMMA SpawnStep ==
  ASSUME Inv, Spawn
  PROVE  Inv'
<1>1. /\ phase' = "spawned" /\ cmds' = [cmds EXCEPT ![run] = Nothing]
      /\ UNCHANGED <<made, stack, out, shown, run>>
  BY DEF Spawn
<1>2. /\ run \in Names /\ cmds[run] # Nothing /\ out = InOrder(Tree)
      /\ shown = Displayed(out, cmds[run][1].secret)
  BY SpawnFacts
<1>3. Commands'
  <2>1. Held(Nothing) /\ made' \in Nat
    BY <1>1 DEF Held, Inv, Commands
  <2> QED BY <1>1, <1>2, <2>1, CommandsSet DEF Inv
<1>4. Unfolds'
  BY <1>1 DEF Inv, Unfolds
<1>5. IsCmd(cmds[run][1])
  BY <1>2, HeldCmd DEF Inv
<1>6. ASSUME NEW i \in DOMAIN out, out[i].marked
      PROVE  shown[i].ops = <<"secret">>
  <2>1. cmds[run][1].secret
    BY <1>2, <1>5, <1>6, MarkedIsSecret DEF Tree
  <2> QED BY <1>2, <2>1 DEF Displayed
<1>7. SecretsHidden'
  BY <1>1, <1>6 DEF SecretsHidden
<1> QED BY <1>3, <1>4, <1>7 DEF Inv

LEMMA InvStep == Inv /\ [Next]_vars => Inv'
<1> SUFFICES ASSUME Inv, [Next]_vars PROVE Inv'
  OBVIOUS
<1>1. CASE UNCHANGED vars
  BY <1>1 DEF vars, loop, Inv, Commands, Unfolds, SecretsHidden, Tree
<1>2. ASSUME NEW n \in Names, NEW m \in Names,
             New(n) \/ Configure(n) \/ Set(n) \/ Pipe(n, m) \/ Clone(n, m)
      PROVE  Inv'
  <2>1. phase = "building" /\ UNCHANGED loop
    BY <1>2 DEF New, Configure, Set, Pipe, Clone, Holds
  <2>2. Commands'
    BY <1>2, BuildSteps DEF Inv
  <2>3. Unfolds' /\ SecretsHidden'
    BY <2>1 DEF loop, Inv, Unfolds, SecretsHidden
  <2> QED BY <2>2, <2>3 DEF Inv
<1> QED BY <1>1, <1>2, RunStep, FlattenStep, DisplayStep, SpawnStep DEF Next

(* Whatever was cloned, piped or configured in whatever order, the         *)
(* arguments of a stage that was part of a Cmd when that was marked secret *)
(* are not displayed (Cmd::secret, pipe, display).                         *)
THEOREM SecretsCorrect == Spec => []SecretsHidden
<1>1. Inv => SecretsHidden
  BY DEF Inv
<1> QED BY <1>1, InitInv, InvStep, PTL DEF Spec

-----------------------------------------------------------------------------
(* The refinement of CmdStages.                                            *)

Abs(c) == [stages |-> Plain(InOrder(c.tree)), knobs |-> c.knobs, secret |-> c.secret]

Mapped == [n \in Names |-> Abstract(cmds[n])]

LEMMA AbstractOf ==
  /\ Abstract(Nothing) = Nothing
  /\ \A c : Abstract(<<c>>) = <<Abs(c)>>
<1>1. Abstract(Nothing) = Nothing
  BY DEF Abstract, Nothing
<1>2. ASSUME NEW c PROVE Abstract(<<c>>) = <<Abs(c)>>
  <2>1. Abstract(<<c>>) = [i \in 1..1 |-> Abs(<<c>>[i])]
    BY DEF Abstract, Abs
  <2>2. [i \in 1..1 |-> Abs(<<c>>[i])] = <<Abs(c)>>
    <3> DEFINE A(x) == Abs(x)
    <3> HIDE DEF A
    <3>1. [i \in 1..1 |-> A(<<c>>[i])] = <<A(c)>>
      OBVIOUS
    <3> QED BY <3>1 DEF A
  <2> QED BY <2>1, <2>2
<1> QED BY <1>1, <1>2

LEMMA PlainFacts ==
  /\ \A s \in Seq(Stage) : Len(Plain(s)) = Len(s) /\ DOMAIN Plain(s) = DOMAIN s
  /\ \A s, t \in Seq(Stage) : Plain(s \o t) = Plain(s) \o Plain(t)
  /\ \A s \in Stage : Plain(<<s>>) = <<[program |-> s.program, ops |-> s.ops]>>
<1> DEFINE P(x) == [program |-> x.program, ops |-> x.ops]
           Q    == {P(x) : x \in Stage}
<1>1. \A s : Plain(s) = [i \in DOMAIN s |-> P(s[i])]
  BY DEF Plain
<1>0. \A x \in Stage : P(x) \in Q
  OBVIOUS
<1> HIDE DEF P, Q
<1>2. ASSUME NEW s \in Seq(Stage)
      PROVE  /\ Plain(s) \in Seq(Q) /\ Len(Plain(s)) = Len(s)
             /\ DOMAIN Plain(s) = DOMAIN s /\ \A i \in DOMAIN s : Plain(s)[i] = P(s[i])
  <2>1. Plain(s) = [i \in 1..Len(s) |-> P(s[i])]
    BY <1>1
  <2>2. /\ Len(s) \in Nat /\ DOMAIN s = 1..Len(s)
        /\ \A i \in 1..Len(s) : P(s[i]) \in Q
    BY <1>0
  <2> QED BY <2>1, <2>2
<1>3. ASSUME NEW s \in Seq(Stage), NEW t \in Seq(Stage)
      PROVE  Plain(s \o t) = Plain(s) \o Plain(t)
  <2>1. DOMAIN (s \o t) = 1..(Len(s) + Len(t)) /\ Len(s) \in Nat /\ Len(t) \in Nat
    OBVIOUS
  <2>2. /\ Plain(s \o t) = [i \in 1..(Len(s) + Len(t)) |-> P((s \o t)[i])]
    BY <1>1, <2>1
  <2> DEFINE u == Plain(s)
             v == Plain(t)
  <2>6. /\ u \in Seq(Q) /\ v \in Seq(Q) /\ Len(u) = Len(s) /\ Len(v) = Len(t)
        /\ \A i \in 1..Len(s) : u[i] = P(s[i])
        /\ \A i \in 1..Len(t) : v[i] = P(t[i])
    <3>1. DOMAIN s = 1..Len(s) /\ DOMAIN t = 1..Len(t)
      OBVIOUS
    <3> HIDE DEF u, v
    <3>2. u = Plain(s) /\ v = Plain(t)
      BY DEF u, v
    <3> QED BY <1>2, <3>1, <3>2
  <2> HIDE DEF u, v
  <2>3. /\ u \o v \in Seq(Q)
        /\ Len(u \o v) = Len(s) + Len(t)
    <3>1. u \in Seq(Q) /\ v \in Seq(Q) /\ Len(u) = Len(s) /\ Len(v) = Len(t)
      BY <2>6
    <3>2. u \o v \in Seq(Q) /\ Len(u \o v) = Len(u) + Len(v)
      BY <3>1, ConcatIsSeq
    <3> QED BY <3>1, <3>2
  <2>4. u \o v =
          [i \in 1..(Len(s) + Len(t)) |-> (u \o v)[i]]
    BY <2>3, SequenceIsFunction
  <2>5. ASSUME NEW i \in 1..(Len(s) + Len(t))
        PROVE  P((s \o t)[i]) = (u \o v)[i]
    <3>1. CASE i \in 1..Len(s)
      <4>1. (s \o t)[i] = s[i] /\ (u \o v)[i] = u[i]
        BY <2>6, <3>1
      <4> QED BY <2>6, <3>1, <4>1
    <3>2. CASE i \notin 1..Len(s)
      <4>1. i - Len(s) \in 1..Len(t) /\ i = Len(s) + (i - Len(s))
        BY <3>2
      <4>2. (s \o t)[i] = t[i - Len(s)]
        BY <4>1, ConcatRight
      <4>3. (u \o v)[i] = v[i - Len(s)]
        BY <2>6, <4>1, ConcatRight
      <4> QED BY <2>6, <4>1, <4>2, <4>3
    <3> QED BY <3>1, <3>2
  <2> QED BY <2>2, <2>4, <2>5 DEF u, v
<1>4. ASSUME NEW s \in Stage PROVE Plain(<<s>>) = <<P(s)>>
  <2>1. Plain(<<s>>) = [i \in 1..1 |-> P(<<s>>[i])]
    BY <1>1
  <2> QED BY <2>1
<1> QED BY <1>2, <1>3, <1>4 DEF P

LEMMA MappedSet ==
  ASSUME Commands, NEW n \in Names, NEW x, cmds' = [cmds EXCEPT ![n] = x]
  PROVE  Mapped' = [Mapped EXCEPT ![n] = Abstract(x)]
BY DEF Commands, Mapped

LEMMA MappedCmd ==
  ASSUME Commands, NEW n \in Names
  PROVE  /\ Mapped[n] = Nothing <=> cmds[n] = Nothing
         /\ cmds[n] # Nothing => Mapped[n] = <<Abs(cmds[n][1])>>
                                 /\ Mapped[n][1] = Abs(cmds[n][1])
<1>1. Mapped[n] = Abstract(cmds[n])
  BY DEF Mapped
<1>2. CASE cmds[n] = Nothing
  BY <1>1, <1>2, AbstractOf
<1>3. CASE cmds[n] # Nothing
  <2>1. cmds[n] = <<cmds[n][1]>>
    BY <1>3, HeldCmd
  <2>2. Mapped[n] = <<Abs(cmds[n][1])>>
    BY <1>1, <2>1, AbstractOf
  <2>3. Mapped[n] # Nothing /\ Mapped[n][1] = Abs(cmds[n][1])
    BY <2>2 DEF Nothing
  <2> QED BY <1>3, <2>2, <2>3
<1> QED BY <1>2, <1>3

LEMMA AbsCmds ==
  /\ \A k \in Nat : Abs([tree |-> Single([program |-> k, ops |-> <<>>, marked |-> FALSE]),
                        knobs |-> {}, secret |-> FALSE]) =
                    [stages |-> <<[program |-> k, ops |-> <<>>]>>,
                     knobs |-> {}, secret |-> FALSE]
  /\ \A a, b : IsCmd(a) /\ IsCmd(b) =>
       Abs(Piped(a, b)) = [stages |-> Abs(a).stages \o Abs(b).stages,
                           knobs |-> Abs(a).knobs,
                           secret |-> Abs(a).secret \/ Abs(b).secret]
  /\ \A c : IsCmd(c) =>
       /\ Abs(Secret(c)) = [stages |-> Abs(c).stages, knobs |-> Abs(c).knobs,
                            secret |-> TRUE]
       /\ \A k : Abs([c EXCEPT !.knobs = @ \union {k}]) =
                 [Abs(c) EXCEPT !.knobs = @ \union {k}]
       /\ \A op \in StageOps :
            Abs([c EXCEPT !.tree = OnRightmost(@, op)]) =
            [Abs(c) EXCEPT !.stages[Len(Abs(c).stages)].ops = Append(@, op)]
<1>1. ASSUME NEW k \in Nat
      PROVE  Abs([tree |-> Single([program |-> k, ops |-> <<>>, marked |-> FALSE]),
                  knobs |-> {}, secret |-> FALSE]) =
             [stages |-> <<[program |-> k, ops |-> <<>>]>>, knobs |-> {}, secret |-> FALSE]
  <2> DEFINE s == [program |-> k, ops |-> <<>>, marked |-> FALSE]
  <2>1. s \in Stage /\ s.program = k /\ s.ops = <<>>
    BY NewCmd
  <2> HIDE DEF s
  <2>2. Plain(InOrder(Single(s))) = <<[program |-> k, ops |-> <<>>]>>
    BY <2>1, SingleTree, PlainFacts
  <2>3. Abs([tree |-> Single(s), knobs |-> {}, secret |-> FALSE]) =
          [stages |-> Plain(InOrder(Single(s))), knobs |-> {}, secret |-> FALSE]
    BY DEF Abs
  <2> QED BY <2>2, <2>3 DEF s
<1>2. ASSUME NEW a, NEW b, IsCmd(a), IsCmd(b)
      PROVE  Abs(Piped(a, b)) = [stages |-> Abs(a).stages \o Abs(b).stages,
                                 knobs |-> Abs(a).knobs,
                                 secret |-> Abs(a).secret \/ Abs(b).secret]
  <2>1. IsTree(a.tree) /\ IsTree(b.tree)
    BY <1>2 DEF IsCmd
  <2>2. InOrder(a.tree) \in Seq(Stage) /\ InOrder(b.tree) \in Seq(Stage)
    BY <2>1, TreeFacts
  <2>3. Plain(InOrder(PipeOf(a.tree, b.tree))) =
          Plain(InOrder(a.tree)) \o Plain(InOrder(b.tree))
    <3>1. InOrder(PipeOf(a.tree, b.tree)) = InOrder(a.tree) \o InOrder(b.tree)
      BY <2>1, PipeTree
    <3>2. \A s, t \in Seq(Stage) : Plain(s \o t) = Plain(s) \o Plain(t)
      BY PlainFacts
    <3>3. Plain(InOrder(a.tree) \o InOrder(b.tree)) =
            Plain(InOrder(a.tree)) \o Plain(InOrder(b.tree))
      BY <2>2, <3>2
    <3> QED BY <3>1, <3>3
  <2> QED BY <2>3 DEF Abs, Piped
<1>3. ASSUME NEW c, IsCmd(c)
      PROVE  Abs(Secret(c)) = [stages |-> Abs(c).stages, knobs |-> Abs(c).knobs,
                               secret |-> TRUE]
  <2> DEFINE t == c.tree
             u == Marked(c.tree)
             n == Leaves(c.tree)
  <2>1. /\ n \in Nat /\ InOrder(t) \in Seq(Stage) /\ InOrder(u) \in Seq(Stage)
        /\ DOMAIN InOrder(t) = 1..n /\ DOMAIN InOrder(u) = 1..n
        /\ \A i \in 1..n : InOrder(u)[i] = [InOrder(t)[i] EXCEPT !.marked = TRUE]
    BY <1>3, MarkedTree, TreeFacts DEF IsCmd
  <2> HIDE DEF t, u, n
  <2>2. ASSUME NEW i \in 1..n
        PROVE  /\ InOrder(u)[i].program = InOrder(t)[i].program
               /\ InOrder(u)[i].ops = InOrder(t)[i].ops
    <3>1. InOrder(t)[i] \in Stage
      BY <2>1
    <3> QED BY <2>1, <3>1 DEF Stage
  <2>3. Plain(InOrder(u)) = Plain(InOrder(t))
    BY <2>1, <2>2 DEF Plain
  <2> QED BY <2>3 DEF Abs, Secret, t, u
<1>4. ASSUME NEW c, IsCmd(c), NEW k
      PROVE  Abs([c EXCEPT !.knobs = @ \union {k}]) =
             [Abs(c) EXCEPT !.knobs = @ \union {k}]
  BY <1>4 DEF Abs, IsCmd
<1>5. ASSUME NEW c, IsCmd(c), NEW op \in StageOps
      PROVE  Abs([c EXCEPT !.tree = OnRightmost(@, op)]) =
             [Abs(c) EXCEPT !.stages[Len(Abs(c).stages)].ops = Append(@, op)]
  <2> DEFINE t == c.tree
             u == OnRightmost(c.tree, op)
             n == Leaves(c.tree)
             s == InOrder(t)
  <2>1. /\ n \in Nat /\ n > 0 /\ s \in Seq(Stage) /\ Len(s) = n /\ DOMAIN s = 1..n
        /\ InOrder(u) = [s EXCEPT ![n].ops = Append(@, op)]
    BY <1>5, RightmostTree, TreeFacts DEF IsCmd
  <2> HIDE DEF t, u, n, s
  <2>2. Plain(s) = [i \in 1..n |-> [program |-> s[i].program, ops |-> s[i].ops]]
    BY <2>1 DEF Plain
  <2>3. s[n] \in Stage /\ n \in 1..n
    BY <2>1
  <2> DEFINE last == [s[n] EXCEPT !.ops = Append(@, op)]
  <2>4. last.program = s[n].program /\ last.ops = Append(s[n].ops, op)
    BY <2>3 DEF Stage
  <2>5. InOrder(u) = [s EXCEPT ![n] = last]
    BY <2>1
  <2> HIDE DEF last
  <2>6. Plain(InOrder(u)) =
          [i \in 1..n |-> [program |-> s[i].program,
                           ops |-> IF i = n THEN Append(s[n].ops, op) ELSE s[i].ops]]
    BY <2>1, <2>4, <2>5 DEF Plain
  <2>7. Plain(s)[n] = [program |-> s[n].program, ops |-> s[n].ops]
    BY <2>2, <2>3
  <2>8. [Plain(s)[n] EXCEPT !.ops = Append(@, op)] =
          [program |-> s[n].program, ops |-> Append(s[n].ops, op)]
    <3>1. \A x, y : [[program |-> x, ops |-> y] EXCEPT !.ops = Append(@, op)] =
                      [program |-> x, ops |-> Append(y, op)]
      OBVIOUS
    <3> QED BY <2>7, <3>1
  <2>9. Plain(InOrder(u)) = [Plain(s) EXCEPT ![n].ops = Append(@, op)]
    BY <2>2, <2>3, <2>6, <2>8
  <2>10. Len(Plain(s)) = n
    BY <2>1, PlainFacts
  <2>11. Abs(c) = [stages |-> Plain(s), knobs |-> c.knobs, secret |-> c.secret]
    BY DEF Abs, s, t
  <2>12. Abs([c EXCEPT !.tree = u]) =
           [stages |-> Plain(InOrder(u)), knobs |-> c.knobs, secret |-> c.secret]
    BY <1>5 DEF Abs, IsCmd
  <2>13. [Abs(c) EXCEPT !.stages[n].ops = Append(@, op)] =
           [stages |-> [Plain(s) EXCEPT ![n].ops = Append(@, op)],
            knobs |-> c.knobs, secret |-> c.secret]
    BY <2>11
  <2>14. Len(Abs(c).stages) = n
    BY <2>10, <2>11
  <2> QED BY <2>9, <2>12, <2>13, <2>14 DEF u
<1> QED BY <1>1, <1>2, <1>3, <1>4, <1>5

(* Each builder is the builder of the sequence.                            *)
LEMMA BuildMaps ==
  ASSUME Inv, NEW n \in Names, NEW m \in Names,
         New(n) \/ Configure(n) \/ Set(n) \/ Pipe(n, m) \/ Clone(n, m)
  PROVE  Promise!Build(n)
<1> USE DEF Nothing
<1>1. Commands /\ phase = "building" /\ phase' = "building"
  BY DEF Inv, New, Configure, Set, Pipe, Clone, Holds, loop
<1>2. /\ Mapped[n] = Nothing <=> cmds[n] = Nothing
      /\ Mapped[m] = Nothing <=> cmds[m] = Nothing
      /\ cmds[n] # Nothing => /\ Mapped[n] = <<Abs(cmds[n][1])>>
                              /\ Mapped[n][1] = Abs(cmds[n][1]) /\ IsCmd(cmds[n][1])
      /\ cmds[m] # Nothing => Mapped[m][1] = Abs(cmds[m][1]) /\ IsCmd(cmds[m][1])
  BY <1>1, MappedCmd, HeldCmd
<1>3. CASE New(n)
  <2>1. /\ cmds[n] = Nothing /\ made' = made + 1 /\ made' \in Nat
        /\ cmds' = [cmds EXCEPT ![n] =
             <<[tree |-> Single([program |-> made', ops |-> <<>>, marked |-> FALSE]),
                knobs |-> {}, secret |-> FALSE]>>]
    BY <1>1, <1>3 DEF New, Commands
  <2>2. Mapped' = [Mapped EXCEPT ![n] =
          <<[stages |-> <<[program |-> made', ops |-> <<>>]>>,
             knobs |-> {}, secret |-> FALSE]>>]
    <3> DEFINE c == [tree |-> Single([program |-> made', ops |-> <<>>, marked |-> FALSE]),
                     knobs |-> {}, secret |-> FALSE]
    <3>1. Abs(c) = [stages |-> <<[program |-> made', ops |-> <<>>]>>,
                    knobs |-> {}, secret |-> FALSE]
      BY <2>1, AbsCmds
    <3>2. cmds' = [cmds EXCEPT ![n] = <<c>>]
      BY <2>1
    <3> HIDE DEF c
    <3>3. Mapped' = [Mapped EXCEPT ![n] = <<Abs(c)>>]
      BY <1>1, <3>2, MappedSet, AbstractOf
    <3> QED BY <3>1, <3>3
  <2>3. Promise!New(n)
    BY <1>2, <2>1, <2>2 DEF Promise!New, Promise!Nothing, Mapped
  <2> QED BY <1>1, <2>3 DEF Promise!Build
<1>4. CASE Configure(n)
  <2>1. cmds[n] # Nothing /\ made' = made
    BY <1>4 DEF Configure, Holds
  <2>2. PICK op \in StageOps : cmds' = [cmds EXCEPT ![n][1].tree = OnRightmost(@, op)]
    BY <1>4 DEF Configure
  <2>3. cmds' = [cmds EXCEPT ![n] = <<[cmds[n][1] EXCEPT !.tree = OnRightmost(@, op)]>>]
    BY <1>1, <2>1, <2>2, Changes
  <2> DEFINE a == Abs(cmds[n][1])
             b == [a EXCEPT !.stages[Len(a.stages)].ops = Append(@, op)]
  <2>4. Mapped' = [Mapped EXCEPT ![n] = <<b>>]
    <3>1. Mapped' = [Mapped EXCEPT ![n] =
                       <<Abs([cmds[n][1] EXCEPT !.tree = OnRightmost(@, op)])>>]
      BY <1>1, <2>3, MappedSet, AbstractOf
    <3> QED BY <1>2, <2>1, <3>1, AbsCmds
  <2> HIDE DEF a
  <2>5. Mapped[n] = <<a>> /\ Mapped[n][1] = a
    BY <1>2, <2>1 DEF a
  <2>6. [Mapped EXCEPT ![n][1].stages[Len(Mapped[n][1].stages)].ops = Append(@, op)] =
          [Mapped EXCEPT ![n] = <<b>>]
    <3>1. \A d : [Mapped[n] EXCEPT ![1] = d] = <<d>>
      BY <2>5, OneElement
    <3> QED BY <2>5, <3>1
  <2>7. Promise!Configure(n)
    <3>1. \E o \in StageOps :
            Mapped' = [Mapped EXCEPT ![n][1].stages[Len(Mapped[n][1].stages)].ops =
                         Append(@, o)]
      BY <2>4, <2>6
    <3>2. Mapped[n] # Nothing
      BY <1>2, <2>1
    <3> QED BY <2>1, <3>1, <3>2 DEF Promise!Configure, Promise!Nothing, Mapped
  <2> QED BY <1>1, <2>7 DEF Promise!Build
<1>5. CASE Set(n)
  <2>1. cmds[n] # Nothing /\ made' = made
    BY <1>5 DEF Set, Holds
  <2> DEFINE a == Abs(cmds[n][1])
  <2>2. Mapped[n] = <<a>> /\ Mapped[n][1] = a
    BY <1>2, <2>1
  <2>3. ASSUME NEW k \in Knobs, cmds' = [cmds EXCEPT ![n][1].knobs = @ \union {k}]
        PROVE  Promise!Set(n)
    <3>1. Mapped' = [Mapped EXCEPT ![n] =
                       <<Abs([cmds[n][1] EXCEPT !.knobs = @ \union {k}])>>]
      <4>1. cmds' = [cmds EXCEPT ![n] = <<[cmds[n][1] EXCEPT !.knobs = @ \union {k}]>>]
        BY <1>1, <2>1, <2>3, Changes
      <4> QED BY <1>1, <4>1, MappedSet, AbstractOf
    <3>2. Mapped' = [Mapped EXCEPT ![n] = <<[a EXCEPT !.knobs = @ \union {k}]>>]
      BY <1>2, <2>1, <3>1, AbsCmds
    <3> HIDE DEF a
    <3>3. [Mapped EXCEPT ![n][1].knobs = @ \union {k}] =
            [Mapped EXCEPT ![n] = <<[a EXCEPT !.knobs = @ \union {k}]>>]
      <4>1. \A d : [Mapped[n] EXCEPT ![1] = d] = <<d>>
        BY <2>2, OneElement
      <4> QED BY <2>2, <4>1
    <3> QED BY <1>2, <2>1, <2>3, <3>2, <3>3 DEF Promise!Set, Promise!Nothing, Mapped
  <2>4. ASSUME cmds' = [cmds EXCEPT ![n] = <<Secret(cmds[n][1])>>]
        PROVE  Promise!Set(n)
    <3>1. Mapped' = [Mapped EXCEPT ![n] = <<Abs(Secret(cmds[n][1]))>>]
      BY <1>1, <2>4, MappedSet, AbstractOf
    <3>2. Mapped' = [Mapped EXCEPT ![n] =
            <<[stages |-> a.stages, knobs |-> a.knobs, secret |-> TRUE]>>]
      BY <1>2, <2>1, <3>1, AbsCmds
    <3> HIDE DEF a
    <3> QED BY <1>2, <2>1, <2>2, <3>2 DEF Promise!Set, Promise!Nothing, Mapped
  <2>5. Promise!Set(n)
    BY <1>5, <2>3, <2>4 DEF Set
  <2> QED BY <1>1, <2>5 DEF Promise!Build
<1>6. CASE Pipe(n, m)
  <2>1. /\ cmds[n] # Nothing /\ cmds[m] # Nothing /\ n # m /\ made' = made
        /\ cmds' = [cmds EXCEPT ![n] = <<Piped(cmds[n][1], cmds[m][1])>>, ![m] = Nothing]
    BY <1>6 DEF Pipe, Holds
  <2> DEFINE a == Abs(cmds[n][1])
             b == Abs(cmds[m][1])
             c == [stages |-> a.stages \o b.stages, knobs |-> a.knobs,
                   secret |-> a.secret \/ b.secret]
  <2>2. Abs(Piped(cmds[n][1], cmds[m][1])) = c
    BY <1>2, <2>1, AbsCmds
  <2> HIDE DEF c
  <2>3. Mapped' = [Mapped EXCEPT ![n] = <<c>>, ![m] = Nothing]
    <3>1. \A k \in Names : cmds'[k] = IF k = m THEN Nothing
                                      ELSE IF k = n THEN <<Piped(cmds[n][1], cmds[m][1])>>
                                      ELSE cmds[k]
      BY <1>1, <2>1 DEF Commands
    <3>2. \A k \in Names : Abstract(cmds'[k]) = IF k = m THEN Nothing
                                                ELSE IF k = n THEN <<c>>
                                                ELSE Abstract(cmds[k])
      BY <2>2, <3>1, AbstractOf
    <3> QED BY <3>2 DEF Mapped
  <2>4. Mapped' = [Mapped EXCEPT
          ![n] = <<[stages |-> Mapped[n][1].stages \o Mapped[m][1].stages,
                    knobs |-> Mapped[n][1].knobs,
                    secret |-> Mapped[n][1].secret \/ Mapped[m][1].secret]>>,
          ![m] = Nothing]
    BY <1>2, <2>1, <2>3 DEF c
  <2>5. Promise!Pipe(n, m)
    BY <1>2, <2>1, <2>4 DEF Promise!Pipe, Promise!Nothing, Mapped
  <2> QED BY <1>1, <2>5 DEF Promise!Build
<1>7. CASE Clone(n, m)
  <2>1. /\ cmds[n] # Nothing /\ cmds[m] = Nothing /\ made' = made
        /\ cmds' = [cmds EXCEPT ![m] = cmds[n]]
    BY <1>7 DEF Clone, Holds
  <2>2. Mapped' = [Mapped EXCEPT ![m] = Mapped[n]]
    BY <1>1, <2>1, MappedSet DEF Mapped
  <2>3. Promise!Clone(n, m)
    BY <1>2, <2>1, <2>2 DEF Promise!Clone, Promise!Nothing, Mapped
  <2> QED BY <1>1, <2>3 DEF Promise!Build
<1> QED BY <1>3, <1>4, <1>5, <1>6, <1>7

(* The spawn is the run of the sequence; the loops before it are not seen. *)
LEMMA RunMaps ==
  ASSUME Inv, Spawn
  PROVE  run \in Names /\ Promise!Run(run)
<1>1. /\ phase = "stages" /\ run \in Names /\ cmds[run] # Nothing
      /\ out = InOrder(Tree) /\ shown = Displayed(out, cmds[run][1].secret)
      /\ Commands
  BY SpawnFacts DEF Inv
<1>2. /\ phase' = "spawned" /\ cmds' = [cmds EXCEPT ![run] = Nothing]
      /\ UNCHANGED <<made, out, shown, run>>
  BY DEF Spawn
<1> DEFINE a == Abs(cmds[run][1])
<1>3. Mapped[run] # Nothing /\ Mapped[run][1] = a
  BY <1>1, MappedCmd, HeldCmd
<1>4. a.stages = Plain(out) /\ a.secret = cmds[run][1].secret
  BY <1>1 DEF Abs, Tree
<1>5. Mapped' = [Mapped EXCEPT ![run] = Nothing]
  BY <1>1, <1>2, MappedSet, AbstractOf
<1>6. out \in Seq(Stage)
  BY <1>1 DEF Inv, Unfolds
<1>7. shown = Promise!Show(Plain(out), a.secret)
  <2>1. DOMAIN Plain(out) = DOMAIN out
        /\ \A i \in DOMAIN out : Plain(out)[i].program = out[i].program
                                 /\ Plain(out)[i].ops = out[i].ops
    BY DEF Plain
  <2> HIDE DEF a
  <2> QED BY <1>1, <1>4, <2>1 DEF Displayed, Promise!Show
<1> HIDE DEF a
<1> QED BY <1>1, <1>2, <1>3, <1>4, <1>5, <1>7
        DEF Promise!Run, Promise!Nothing, Nothing, Mapped

LEMMA InitMaps == Init => Promise!Init
<1> SUFFICES ASSUME Init PROVE Promise!Init
  OBVIOUS
<1>1. [n \in Names |-> Abstract(cmds[n])] = [n \in Names |-> <<>>]
  BY AbstractOf DEF Init, Nothing
<1> QED BY <1>1 DEF Init, Promise!Init, Promise!Nothing

LEMMA StepMaps == Inv /\ [Next]_vars => [Promise!Next]_Promise!vars
<1> SUFFICES ASSUME Inv, [Next]_vars PROVE [Promise!Next]_Promise!vars
  OBVIOUS
<1>1. ASSUME UNCHANGED <<made, cmds>>, phase # "spawned", phase' # "spawned"
      PROVE  UNCHANGED Promise!vars
  BY <1>1 DEF Promise!vars
<1>2. CASE UNCHANGED vars
  BY <1>2 DEF vars, loop, Promise!vars
<1>3. CASE \E n \in Names : \/ New(n) \/ Configure(n) \/ Set(n)
                            \/ \E m \in Names : Pipe(n, m) \/ Clone(n, m)
  <2>1. PICK n \in Names : \/ New(n) \/ Configure(n) \/ Set(n)
                           \/ \E m \in Names : Pipe(n, m) \/ Clone(n, m)
    BY <1>3
  <2>2. Promise!Build(n)
    BY <2>1, BuildMaps
  <2> QED BY <2>2 DEF Promise!Next
<1>4. CASE (\E n \in Names : Run(n)) \/ Flatten \/ Display
  BY <1>1, <1>4 DEF Run, Holds, Flatten, Display
<1>5. CASE Spawn
  BY <1>5, RunMaps DEF Promise!Next
<1> QED BY <1>2, <1>3, <1>4, <1>5 DEF Next

(* The builder with its tree, clones and loops implements CmdStages: every *)
(* builder acts on the sequence of the stages, and what is spawned and     *)
(* displayed is that sequence (CmdTree::flatten, flatten_owned,            *)
(* rightmost_mut, Cmd::pipe).                                              *)
THEOREM SequenceKept == Spec => BuildsSequence
<1>1. Inv /\ [Next]_vars => Inv'
  BY InvStep
<1> QED BY InitInv, <1>1, InitMaps, StepMaps, PTL DEF Spec, BuildsSequence, Promise!Spec

=============================================================================
