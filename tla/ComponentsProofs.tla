-------------------------- MODULE ComponentsProofs --------------------------
(***************************************************************************)
(* Proofs about HeadroomWire, Migration and HeadroomRetrieval, for every   *)
(* value of their constants: whatever the chunks a connection is cut into, *)
(* a call is answered with exactly its reply; for any number of            *)
(* invocations, crashes and rows, any mapping of projects and any quota,   *)
(* what says that it is migrated is complete; whatever the archives, nodes *)
(* and texts, and whatever vanishes, comes back or is added between two    *)
(* pages, a client that follows the cursors is shown all it asked for,     *)
(* once and in order.                                                      *)
(***************************************************************************)
EXTENDS Migration, HeadroomWire, HeadroomRetrieval, FiniteSetTheorems, SequenceTheorems, WellFoundedInduction, TLAPS

-----------------------------------------------------------------------------
(* Induction *)

\* A property of numbers that has a counterexample has a least one.
LEMMA LeastNumber ==
  ASSUME NEW S, S \subseteq Nat, S # {}
  PROVE  \E x \in S : \A y \in S : x <= y
<1> DEFINE R == {p \in Nat \X Nat : p[1] < p[2]}
<1>1. IsWellFoundedOn(R, Nat)  BY NatLessThanWellFounded DEF OpToRel
<1>2. \A y, z \in Nat : y < z => <<y, z>> \in R  OBVIOUS
<1> HIDE DEF R
<1>3. PICK x \in S : \A y \in S : ~(<<y, x>> \in R)  BY <1>1, WFMin
<1>4. ASSUME NEW y \in S  PROVE x <= y
  <2>1. y \in Nat /\ x \in Nat  OBVIOUS
  <2>2. ~(y < x)  BY <2>1, <1>2, <1>3
  <2>3. QED  BY <2>1, <2>2
<1>5. QED  BY <1>4

\* Induction on numbers, for a set of numbers.
LEMMA AllNumbers ==
  ASSUME NEW P, 0 \in P, \A n \in Nat : n \in P => n + 1 \in P
  PROVE  \A n \in Nat : n \in P
<1> DEFINE Bad == {n \in Nat : n \notin P}
<1>1. SUFFICES ASSUME Bad # {}  PROVE FALSE  OBVIOUS
<1>2. PICK n \in Bad : \A k \in Bad : n <= k
  <2>1. Bad \subseteq Nat  OBVIOUS
  <2> HIDE DEF Bad
  <2>2. QED  BY <1>1, <2>1, LeastNumber
<1>3. n \in Nat /\ n \notin P  OBVIOUS
<1>4. n # 0  BY <1>3
<1>5. n - 1 \in Nat /\ ~(n <= n - 1) /\ (n - 1) + 1 = n  BY <1>3, <1>4
<1>6. n - 1 \in P
  <2>1. n - 1 \notin Bad
    <3> HIDE DEF Bad
    <3>1. QED  BY <1>2, <1>5
  <2>2. QED  BY <2>1, <1>5
<1>7. n \in P  BY <1>5, <1>6
<1>8. QED  BY <1>3, <1>7

-----------------------------------------------------------------------------
(* The parts of a stream *)

\* g holds the parts of every prefix of a chunk, up to N units.
CutsOf(chunk, N, g) ==
  g = [n \in 0..N |-> IF n = 0 THEN << <<>> >> ELSE AddUnit(g[n - 1], chunk[n])]

\* The recursive function by which Parts cuts a chunk exists.
LEMMA CutExists ==
  ASSUME NEW chunk, NEW N \in Nat
  PROVE  \E g : CutsOf(chunk, N, g)
<1> DEFINE P == {n \in Nat : \E g : CutsOf(chunk, n, g)}
<1>1. 0 \in P
  <2> DEFINE g == [n \in 0..0 |-> << <<>> >>]
  <2>1. CutsOf(chunk, 0, g)  BY DEF CutsOf
  <2>2. QED  BY <2>1
<1>2. ASSUME NEW n \in Nat, n \in P  PROVE n + 1 \in P
  <2>1. PICK g : CutsOf(chunk, n, g)  BY <1>2
  <2> DEFINE h == [k \in 0..(n + 1) |-> IF k = 0 THEN << <<>> >> ELSE AddUnit(g[k - 1], chunk[k])]
  <2>2. \A k \in 0..n : h[k] = g[k]
    <3>1. \A k \in 0..n : k \in 0..(n + 1)  OBVIOUS
    <3>2. \A k \in 0..n : g[k] = IF k = 0 THEN << <<>> >> ELSE AddUnit(g[k - 1], chunk[k])
      BY <2>1 DEF CutsOf
    <3>3. QED  BY <3>1, <3>2
  <2>3. \A k \in 0..(n + 1) : k # 0 => k - 1 \in 0..n  OBVIOUS
  <2>4. \A k \in 0..(n + 1) : h[k] = IF k = 0 THEN << <<>> >> ELSE AddUnit(h[k - 1], chunk[k])
    BY <2>2, <2>3
  <2>5. h = [k \in 0..(n + 1) |-> h[k]]  OBVIOUS
  <2> HIDE DEF h
  <2>6. CutsOf(chunk, n + 1, h)  BY <2>4, <2>5 DEF CutsOf
  <2>7. QED  BY <2>6
<1> HIDE DEF P
<1>3. N \in P  BY <1>1, <1>2, AllNumbers
<1>4. QED  BY <1>3 DEF P

\* Chunks that begin alike have the same parts there.
LEMMA CutsAgree ==
  ASSUME NEW c, NEW d, NEW M \in Nat, NEW N \in Nat, NEW g, NEW h, CutsOf(c, M, g), CutsOf(d, N, h),
         NEW m \in Nat, m <= M, m <= N, \A k \in 1..m : c[k] = d[k]
  PROVE  g[m] = h[m]
<1> DEFINE P == {n \in Nat : n <= m => g[n] = h[n]}
<1>1. \A n \in Nat : n <= m => n \in 0..M /\ n \in 0..N  OBVIOUS
<1>2. 0 \in P
  <2>1. g[0] = << <<>> >> /\ h[0] = << <<>> >>  BY <1>1 DEF CutsOf
  <2>2. QED  BY <2>1
<1>3. ASSUME NEW n \in Nat, n \in P  PROVE n + 1 \in P
  <2>1. SUFFICES ASSUME n + 1 <= m  PROVE g[n + 1] = h[n + 1]  OBVIOUS
  <2>2. n + 1 \in 0..M /\ n + 1 \in 0..N /\ n + 1 # 0 /\ (n + 1) - 1 = n /\ n + 1 \in 1..m
    BY <2>1
  <2>3. g[n] = h[n]  BY <1>3, <2>1
  <2>4. g[n + 1] = AddUnit(g[n], c[n + 1])  BY <2>2 DEF CutsOf
  <2>5. h[n + 1] = AddUnit(h[n], d[n + 1])  BY <2>2 DEF CutsOf
  <2>6. QED  BY <2>2, <2>3, <2>4, <2>5
<1> HIDE DEF P
<1>4. m \in P  BY <1>2, <1>3, AllNumbers
<1>5. QED  BY <1>4 DEF P

\* What Parts computes.
LEMMA PartsCut ==
  ASSUME NEW chunk, Len(chunk) \in Nat
  PROVE  \E g : CutsOf(chunk, Len(chunk), g) /\ Parts(chunk) = g[Len(chunk)]
<1> DEFINE h == CHOOSE g : CutsOf(chunk, Len(chunk), g)
<1>1. \E g : CutsOf(chunk, Len(chunk), g)  BY CutExists
<1>2. CutsOf(chunk, Len(chunk), h)  BY <1>1
<1>3. Parts(chunk) = h[Len(chunk)]  BY DEF Parts, CutsOf
<1>4. QED  BY <1>2, <1>3

\* The parts of nothing, and of a chunk with one more unit.
LEMMA PartsEmpty ==  Parts(<<>>) = << <<>> >>
<1>1. Len(<<>>) = 0  OBVIOUS
<1>2. PICK g : CutsOf(<<>>, 0, g) /\ Parts(<<>>) = g[0]  BY <1>1, PartsCut
<1>3. QED  BY <1>2 DEF CutsOf

\* One more unit is put on the last part, or begins a new one.
LEMMA PartsAppend ==
  ASSUME NEW S, NEW s \in Seq(S), NEW u \in S
  PROVE  Parts(Append(s, u)) = AddUnit(Parts(s), u)
<1> DEFINE t == Append(s, u)
<1>1. /\ Len(s) \in Nat /\ Len(t) = Len(s) + 1 /\ t[Len(s) + 1] = u
      /\ \A k \in 1..Len(s) : s[k] = t[k]
  OBVIOUS
<1> HIDE DEF t
<1>2. PICK g : CutsOf(s, Len(s), g) /\ Parts(s) = g[Len(s)]  BY <1>1, PartsCut
<1>3. PICK h : CutsOf(t, Len(s) + 1, h) /\ Parts(t) = h[Len(s) + 1]  BY <1>1, PartsCut
<1>4. g[Len(s)] = h[Len(s)]
  <2>1. Len(s) <= Len(s) /\ Len(s) <= Len(s) + 1 /\ Len(s) + 1 \in Nat  BY <1>1
  <2>2. QED  BY <1>1, <1>2, <1>3, <2>1, CutsAgree
<1>5. h[Len(s) + 1] = AddUnit(h[Len(s)], u)
  <2>1. Len(s) + 1 \in 0..(Len(s) + 1) /\ Len(s) + 1 # 0 /\ (Len(s) + 1) - 1 = Len(s)  BY <1>1
  <2>2. QED  BY <1>1, <1>3, <2>1 DEF CutsOf
<1>6. QED  BY <1>2, <1>3, <1>4, <1>5 DEF t


\* Induction on sequences, for a set of sequences.
LEMMA AllSequences ==
  ASSUME NEW S, NEW P, <<>> \in P, \A s \in Seq(S), u \in S : s \in P => Append(s, u) \in P
  PROVE  \A s \in Seq(S) : s \in P
<1> DEFINE Q == {n \in Nat : \A s \in Seq(S) : Len(s) = n => s \in P}
<1>1. 0 \in Q
  <2>1. \A s \in Seq(S) : Len(s) = 0 => s = <<>>  OBVIOUS
  <2>2. QED  BY <2>1
<1>2. ASSUME NEW n \in Nat, n \in Q  PROVE n + 1 \in Q
  <2>1. SUFFICES ASSUME NEW s \in Seq(S), Len(s) = n + 1  PROVE s \in P  OBVIOUS
  <2>2. s # <<>>  BY <2>1
  <2>3. PICK t \in Seq(S), u \in S : s = Append(t, u)  BY <2>2, SequenceEmptyOrAppend
  <2>4. Len(t) = n  BY <2>1, <2>3
  <2>5. t \in P  BY <2>4, <1>2
  <2>6. QED  BY <2>3, <2>5
<1> HIDE DEF Q
<1>3. \A n \in Nat : n \in Q  BY <1>1, <1>2, AllNumbers
<1>4. ASSUME NEW s \in Seq(S)  PROVE s \in P
  <2>1. Len(s) \in Nat /\ Len(s) \in Q  BY <1>3
  <2>2. QED  BY <2>1 DEF Q
<1>5. QED  BY <1>4

\* The last of some parts grows, or a new one begins.
LEMMA AddUnitIs ==
  ASSUME NEW S, NEW p \in Seq(Seq(S \ {"nl"})), Len(p) >= 1, NEW u \in S
  PROVE  /\ AddUnit(p, u) \in Seq(Seq(S \ {"nl"})) /\ Len(AddUnit(p, u)) >= 1
         /\ u = "nl" => /\ Len(AddUnit(p, u)) = Len(p) + 1 /\ AddUnit(p, u)[Len(p) + 1] = <<>>
                        /\ \A k \in 1..Len(p) : AddUnit(p, u)[k] = p[k]
         /\ u # "nl" => /\ Len(AddUnit(p, u)) = Len(p)
                        /\ AddUnit(p, u)[Len(p)] = Append(p[Len(p)], u)
                        /\ \A k \in 1..(Len(p) - 1) : AddUnit(p, u)[k] = p[k]
<1> DEFINE T == Seq(S \ {"nl"})
<1>1. Len(p) \in Nat /\ Len(p) \in 1..Len(p) /\ p[Len(p)] \in T /\ <<>> \in T  OBVIOUS
<1>2. CASE u = "nl"
  <2>1. AddUnit(p, u) = Append(p, <<>>)  BY <1>2 DEF AddUnit
  <2>2. p \in Seq(T)  OBVIOUS
  <2> HIDE DEF T
  <2>3. /\ Append(p, <<>>) \in Seq(T) /\ Len(Append(p, <<>>)) = Len(p) + 1
        /\ Append(p, <<>>)[Len(p) + 1] = <<>>
        /\ \A k \in 1..Len(p) : Append(p, <<>>)[k] = p[k]
    BY <1>1, <2>2, AppendProperties
  <2>4. Len(AddUnit(p, u)) >= 1  BY <1>1, <2>1, <2>3
  <2>5. AddUnit(p, u) \in Seq(Seq(S \ {"nl"}))  BY <2>1, <2>3 DEF T
  <2>6. QED  BY <1>2, <2>1, <2>3, <2>4, <2>5
<1>3. CASE u # "nl"
  <2> DEFINE v == Append(p[Len(p)], u)
  <2>1. v \in T  BY <1>1, <1>3
  <2>2. AddUnit(p, u) = [p EXCEPT ![Len(p)] = v]  BY <1>3 DEF AddUnit
  <2> HIDE DEF T
  <2>3. p \in Seq(T)  BY DEF T
  <2>4. AddUnit(p, u) \in Seq(T) /\ Len(AddUnit(p, u)) = Len(p)
        /\ \A k \in 1..Len(p) : AddUnit(p, u)[k] = IF k = Len(p) THEN v ELSE p[k]
    <3> HIDE DEF v
    <3>1. QED  BY <1>1, <2>1, <2>2, <2>3, ExceptSeq
  <2>5. \A k \in 1..(Len(p) - 1) : k \in 1..Len(p) /\ k # Len(p)  BY <1>1
  <2>6. QED  BY <1>1, <1>3, <2>4, <2>5 DEF T
<1>4. QED  BY <1>2, <1>3

\* There is at least one part, and no part holds a newline.
LEMMA PartsType ==
  ASSUME NEW S, NEW s \in Seq(S)
  PROVE  Parts(s) \in Seq(Seq(S \ {"nl"})) /\ Len(Parts(s)) \in Nat /\ Len(Parts(s)) >= 1
<1> DEFINE P == {t \in Seq(S) : Parts(t) \in Seq(Seq(S \ {"nl"})) /\ Len(Parts(t)) >= 1}
<1>1. <<>> \in P
  <2>1. << <<>> >> \in Seq(Seq(S \ {"nl"})) /\ Len(<< <<>> >>) = 1  OBVIOUS
  <2>2. <<>> \in Seq(S)  OBVIOUS
  <2> DEFINE one == << <<>> >>
  <2>3. one \in Seq(Seq(S \ {"nl"})) /\ Len(one) >= 1  OBVIOUS
  <2>4. Parts(<<>>) = one  BY PartsEmpty
  <2> HIDE DEF one
  <2>5. QED  BY <2>2, <2>3, <2>4
<1>2. ASSUME NEW t \in Seq(S), NEW u \in S, t \in P  PROVE Append(t, u) \in P
  <2>1. AddUnit(Parts(t), u) \in Seq(Seq(S \ {"nl"})) /\ Len(AddUnit(Parts(t), u)) >= 1
    BY <1>2, AddUnitIs
  <2>2. Append(t, u) \in Seq(S)  OBVIOUS
  <2>3. QED  BY <2>1, <2>2, PartsAppend
<1> HIDE DEF P
<1>3. s \in P  BY <1>1, <1>2, AllSequences
<1>4. Parts(s) \in Seq(Seq(S \ {"nl"})) /\ Len(Parts(s)) >= 1  BY <1>3 DEF P
<1>5. QED  BY <1>4

\* r are the parts of a stream whose beginning has the parts p and whose end has the parts q.
Joined(p, q, r) ==
  /\ Len(r) = Len(p) + Len(q) - 1
  /\ \A k \in 1..(Len(p) - 1) : r[k] = p[k]
  /\ r[Len(p)] = p[Len(p)] \o q[1]
  /\ \A k \in 2..Len(q) : r[Len(p) + k - 1] = q[k]

\* The last of the parts p grows by u, or a new one begins, and they become q.
Grows(p, q, u) ==
  \/ /\ u = "nl" /\ Len(q) = Len(p) + 1 /\ q[Len(p) + 1] = <<>>
     /\ \A k \in 1..Len(p) : q[k] = p[k]
  \/ /\ u # "nl" /\ Len(q) = Len(p) /\ q[Len(p)] = Append(p[Len(p)], u)
     /\ \A k \in 1..(Len(p) - 1) : q[k] = p[k]

\* What a unit more does to a sequence of parts, member by member.
LEMMA AddUnitGrows ==
  ASSUME NEW S, NEW p \in Seq(Seq(S \ {"nl"})), Len(p) >= 1, NEW u \in S
  PROVE  Grows(p, AddUnit(p, u), u)
<1> DEFINE q == AddUnit(p, u)
<1>1. /\ u = "nl" => /\ Len(q) = Len(p) + 1 /\ q[Len(p) + 1] = <<>>
                     /\ \A k \in 1..Len(p) : q[k] = p[k]
      /\ u # "nl" => /\ Len(q) = Len(p) /\ q[Len(p)] = Append(p[Len(p)], u)
                     /\ \A k \in 1..(Len(p) - 1) : q[k] = p[k]
  BY AddUnitIs
<1> HIDE DEF q
<1>2. Grows(p, q, u)  BY <1>1, Zenon DEF Grows
<1>3. QED  BY <1>2 DEF q

\* A unit at the end of two texts in a row.
Associates(a, b, u) == Append(a \o b, u) = a \o Append(b, u)

\* Appending to a concatenation appends to its second half.
LEMMA ConcatAppend ==
  ASSUME NEW S, NEW a \in Seq(S), NEW b \in Seq(S), NEW u \in S
  PROVE  Associates(a, b, u)
<1>1. <<u>> \in Seq(S) /\ a \o b \in Seq(S)  OBVIOUS
<1>2. Append(a \o b, u) = (a \o b) \o <<u>>  BY <1>1, AppendIsConcat
<1>3. Append(b, u) = b \o <<u>>  BY AppendIsConcat
<1>4. QED  BY <1>1, <1>2, <1>3, ConcatAssociative DEF Associates

\* One more unit at the end of both.
LEMMA JoinedGrow ==
  ASSUME NEW p, NEW q, NEW r, NEW q1, NEW r1, NEW u, Joined(p, q, r), Grows(q, q1, u), Grows(r, r1, u),
         Len(p) \in Nat, Len(q) \in Nat, Len(r) \in Nat, Len(p) >= 1, Len(q) >= 1,
         u # "nl" => Associates(p[Len(p)], q[1], u)
  PROVE  Joined(p, q1, r1)
<1>2. /\ Len(r) = Len(p) + Len(q) - 1
      /\ \A k \in 1..(Len(p) - 1) : r[k] = p[k]
      /\ r[Len(p)] = p[Len(p)] \o q[1]
      /\ \A k \in 2..Len(q) : r[Len(p) + k - 1] = q[k]
  BY DEF Joined
<1>3. CASE u = "nl"
  <2>1. /\ Len(q1) = Len(q) + 1 /\ q1[Len(q) + 1] = <<>> /\ \A k \in 1..Len(q) : q1[k] = q[k]
        /\ Len(r1) = Len(r) + 1 /\ r1[Len(r) + 1] = <<>> /\ \A k \in 1..Len(r) : r1[k] = r[k]
    BY <1>3 DEF Grows
  <2>2. Len(r1) = Len(p) + Len(q1) - 1  BY <2>1, <1>2
  <2>3. ASSUME NEW k \in 1..(Len(p) - 1)  PROVE r1[k] = p[k]
    <3>1. k \in 1..Len(r)  BY <1>2
    <3>2. QED  BY <3>1, <2>1, <1>2
  <2>4. r1[Len(p)] = p[Len(p)] \o q1[1]
    <3>1. Len(p) \in 1..Len(r) /\ 1 \in 1..Len(q)  BY <1>2
    <3>2. QED  BY <3>1, <2>1, <1>2
  <2>5. ASSUME NEW k \in 2..Len(q1)  PROVE r1[Len(p) + k - 1] = q1[k]
    <3>1. CASE k = Len(q) + 1
      <4>1. Len(p) + k - 1 = Len(r) + 1  BY <3>1, <1>2
      <4>2. QED  BY <4>1, <3>1, <2>1
    <3>2. CASE k # Len(q) + 1
      <4>1. k \in 2..Len(q) /\ k \in 1..Len(q) /\ Len(p) + k - 1 \in 1..Len(r)
        BY <3>2, <2>1, <1>2
      <4>2. QED  BY <4>1, <2>1, <1>2
    <3>3. QED  BY <3>1, <3>2
  <2>6. QED  BY <2>2, <2>3, <2>4, <2>5 DEF Joined
<1>4. CASE u # "nl"
  <2>1. /\ Len(q1) = Len(q) /\ q1[Len(q)] = Append(q[Len(q)], u)
        /\ \A k \in 1..(Len(q) - 1) : q1[k] = q[k]
        /\ Len(r1) = Len(r) /\ r1[Len(r)] = Append(r[Len(r)], u)
        /\ \A k \in 1..(Len(r) - 1) : r1[k] = r[k]
    BY <1>4 DEF Grows
  <2>2. Len(r1) = Len(p) + Len(q1) - 1  BY <2>1, <1>2
  <2>3. ASSUME NEW k \in 1..(Len(p) - 1)  PROVE r1[k] = p[k]
    <3>1. k \in 1..(Len(r) - 1)  BY <1>2
    <3>2. QED  BY <3>1, <2>1, <1>2
  <2>4. r1[Len(p)] = p[Len(p)] \o q1[1]
    <3>1. CASE Len(q) = 1
      <4>1. Len(r) = Len(p)  BY <3>1, <1>2
      <4>2. r1[Len(p)] = Append(p[Len(p)] \o q[1], u)  BY <4>1, <2>1, <1>2
      <4>3. q1[1] = Append(q[1], u)  BY <3>1, <2>1
      <4>4. QED  BY <4>2, <4>3, <1>4 DEF Associates
    <3>2. CASE Len(q) > 1
      <4>1. Len(p) \in 1..(Len(r) - 1) /\ 1 \in 1..(Len(q) - 1)  BY <3>2, <1>2
      <4>2. QED  BY <4>1, <2>1, <1>2
    <3>3. \A n \in Nat : n >= 1 => n = 1 \/ n > 1  OBVIOUS
    <3>4. Len(q) = 1 \/ Len(q) > 1  BY <3>3
    <3>5. QED  BY <3>1, <3>2, <3>4
  <2>5. ASSUME NEW k \in 2..Len(q1)  PROVE r1[Len(p) + k - 1] = q1[k]
    <3>1. CASE k = Len(q)
      <4>1. Len(p) + k - 1 = Len(r) /\ k \in 2..Len(q)  BY <3>1, <2>1, <1>2
      <4>2. r[Len(r)] = q[Len(q)]  BY <4>1, <3>1, <1>2
      <4>3. QED  BY <4>1, <4>2, <3>1, <2>1
    <3>2. CASE k # Len(q)
      <4>1. k \in 2..Len(q) /\ k \in 1..(Len(q) - 1) /\ Len(p) + k - 1 \in 1..(Len(r) - 1)
        <5>1. k \in 2..Len(q)  BY <2>1
        <5>2. QED  BY <5>1, <3>2, <1>2
      <4>2. QED  BY <4>1, <2>1, <1>2
    <3>3. QED  BY <3>1, <3>2
  <2>6. QED  BY <2>2, <2>3, <2>4, <2>5 DEF Joined
<1>5. QED  BY <1>3, <1>4

\* Parts that join two streams still do when the second stream has a unit more.
LEMMA JoinedAdd ==
  ASSUME NEW S, NEW p \in Seq(Seq(S \ {"nl"})), NEW q \in Seq(Seq(S \ {"nl"})),
         NEW r \in Seq(Seq(S \ {"nl"})), Len(p) >= 1, Len(q) >= 1, Len(r) >= 1,
         Joined(p, q, r), NEW u \in S
  PROVE  Joined(p, AddUnit(q, u), AddUnit(r, u))
<1>1. Grows(q, AddUnit(q, u), u)  BY AddUnitGrows
<1>2. Grows(r, AddUnit(r, u), u)  BY AddUnitGrows
<1>3. /\ Len(p) \in Nat /\ Len(q) \in Nat /\ Len(r) \in Nat
      /\ p[Len(p)] \in Seq(S \ {"nl"}) /\ q[1] \in Seq(S \ {"nl"})
  OBVIOUS
<1>4. ASSUME u # "nl"  PROVE Associates(p[Len(p)], q[1], u)
  <2> DEFINE S1 == S \ {"nl"}
  <2>1. u \in S1 /\ p[Len(p)] \in Seq(S1) /\ q[1] \in Seq(S1)  BY <1>3, <1>4
  <2> HIDE DEF S1
  <2>2. QED  BY <2>1, ConcatAppend
<1> DEFINE q1 == AddUnit(q, u)
           r1 == AddUnit(r, u)
<1> HIDE DEF q1, r1
<1>5. Joined(p, q1, r1)  BY <1>1, <1>2, <1>3, <1>4, JoinedGrow DEF q1, r1
<1>6. QED  BY <1>5 DEF q1, r1

\* Wherever a stream is cut in two.
LEMMA PartsJoin ==
  ASSUME NEW S, NEW s \in Seq(S), NEW t \in Seq(S)
  PROVE  Joined(Parts(s), Parts(t), Parts(s \o t))
<1> DEFINE P == {v \in Seq(S) : Joined(Parts(s), Parts(v), Parts(s \o v))}
<1>0. Parts(s) \in Seq(Seq(S \ {"nl"})) /\ Len(Parts(s)) \in Nat /\ Len(Parts(s)) >= 1
  BY PartsType
<1>1. <<>> \in P
  <2> DEFINE p == Parts(s)
             T == Seq(S \ {"nl"})
  <2>1. s \o <<>> = s /\ <<>> \in Seq(S)  OBVIOUS
  <2> HIDE DEF p
  <2>2. p \in Seq(T) /\ Len(p) \in Nat /\ Len(p) >= 1  BY <1>0 DEF p
  <2>3. p[Len(p)] \in T  BY <2>2
  <2>4. p[Len(p)] \o <<>> = p[Len(p)]  BY <2>3
  <2>5. << <<>> >>[1] = <<>> /\ Len(<< <<>> >>) = 1 /\ 2..1 = {}  OBVIOUS
  <2> HIDE DEF T
  <2>6. Joined(p, << <<>> >>, p)
    <3>1. Len(p) = Len(p) + 1 - 1  BY <2>2
    <3> HIDE DEF T
    <3>2. QED  BY <3>1, <2>4, <2>5 DEF Joined
  <2>7. QED  BY <2>1, <2>6, PartsEmpty DEF p
<1>2. ASSUME NEW v \in Seq(S), NEW u \in S, v \in P  PROVE Append(v, u) \in P
  <2>1. s \o v \in Seq(S) /\ Append(v, u) \in Seq(S) /\ s \o Append(v, u) = Append(s \o v, u)
    OBVIOUS
  <2>2. Parts(Append(v, u)) = AddUnit(Parts(v), u)  BY PartsAppend
  <2>3. Parts(s \o Append(v, u)) = AddUnit(Parts(s \o v), u)  BY <2>1, PartsAppend
  <2>4. Parts(v) \in Seq(Seq(S \ {"nl"})) /\ Len(Parts(v)) >= 1  BY PartsType
  <2>5. Parts(s \o v) \in Seq(Seq(S \ {"nl"})) /\ Len(Parts(s \o v)) >= 1  BY <2>1, PartsType
  <2>6. Joined(Parts(s), Parts(v), Parts(s \o v))  BY <1>2
  <2>7. Joined(Parts(s), AddUnit(Parts(v), u), AddUnit(Parts(s \o v), u))
    BY <1>0, <2>4, <2>5, <2>6, JoinedAdd
  <2>8. QED  BY <2>1, <2>2, <2>3, <2>7
<1> HIDE DEF P
<1>3. t \in P  BY <1>1, <1>2, AllSequences
<1>4. QED  BY <1>3 DEF P


-----------------------------------------------------------------------------
(* The bytes of a text *)

EndsHigh(s) == s # <<>> /\ s[Len(s)] = "hi"
\* The bytes a unit adds to a text.
Weight(s, u) ==
  IF u \notin {"hi", "lo"} \/ (u = "lo" /\ EndsHigh(s)) THEN 1 ELSE 3

\* A text has finitely many surrogates and pairs, all of them inside it.
LEMMA SetsFinite ==
  ASSUME NEW S, NEW s \in Seq(S)
  PROVE  /\ IsFiniteSet(Surrogates(s)) /\ Cardinality(Surrogates(s)) \in Nat
         /\ IsFiniteSet(Pairs(s)) /\ Cardinality(Pairs(s)) \in Nat
         /\ Len(s) + 1 \notin Surrogates(s) /\ Len(s) \notin Pairs(s)
<1>1. Len(s) \in Nat /\ Len(s) - 1 \in Int  OBVIOUS
<1>2. IsFiniteSet(1..Len(s)) /\ IsFiniteSet(1..(Len(s) - 1))  BY <1>1, FS_Interval
<1>3. Surrogates(s) \subseteq 1..Len(s) /\ Pairs(s) \subseteq 1..(Len(s) - 1)
  BY DEF Surrogates, Pairs
<1>4. IsFiniteSet(Surrogates(s)) /\ IsFiniteSet(Pairs(s))  BY <1>2, <1>3, FS_Subset
<1>5. Len(s) + 1 \notin 1..Len(s) /\ Len(s) \notin 1..(Len(s) - 1)  BY <1>1
<1>6. QED  BY <1>3, <1>4, <1>5, FS_CardinalityType

\* What a unit more does to the surrogates and the pairs of a text.
LEMMA SetsAppend ==
  ASSUME NEW S, NEW s \in Seq(S), NEW u \in S
  PROVE  /\ Surrogates(Append(s, u)) =
              IF u \in {"hi", "lo"} THEN Surrogates(s) \cup {Len(s) + 1} ELSE Surrogates(s)
         /\ Pairs(Append(s, u)) =
              IF u = "lo" /\ EndsHigh(s) THEN Pairs(s) \cup {Len(s)} ELSE Pairs(s)
<1> DEFINE t == Append(s, u)
           n == Len(s)
<1>1. /\ n \in Nat /\ Len(t) = n + 1 /\ t[n + 1] = u
      /\ \A k \in 1..n : t[k] = s[k]
      /\ s = <<>> <=> n = 0
  OBVIOUS
<1> HIDE DEF t, n
<1>2. 1..(n + 1) = (1..n) \cup {n + 1} /\ n + 1 \notin 1..n  BY <1>1
<1>3. Surrogates(t) = IF u \in {"hi", "lo"} THEN Surrogates(s) \cup {n + 1} ELSE Surrogates(s)
  <2>1. Surrogates(t) = {k \in 1..(n + 1) : t[k] \in {"hi", "lo"}}  BY <1>1 DEF Surrogates
  <2>2. Surrogates(s) = {k \in 1..n : s[k] \in {"hi", "lo"}}  BY DEF Surrogates, n
  <2>3. QED  BY <1>1, <1>2, <2>1, <2>2
<1>4. Pairs(t) = IF u = "lo" /\ EndsHigh(s) THEN Pairs(s) \cup {n} ELSE Pairs(s)
  <2>1. Pairs(t) = {k \in 1..n : t[k] = "hi" /\ t[k + 1] = "lo"}
    <3>1. (n + 1) - 1 = n  BY <1>1
    <3>2. QED  BY <1>1, <3>1 DEF Pairs
  <2>2. Pairs(s) = {k \in 1..(n - 1) : s[k] = "hi" /\ s[k + 1] = "lo"}  BY DEF Pairs, n
  <2>3. ASSUME NEW k \in 1..(n - 1)  PROVE k \in 1..n /\ t[k] = s[k] /\ t[k + 1] = s[k + 1]
    <3>1. k \in 1..n /\ k + 1 \in 1..n  BY <1>1
    <3>2. QED  BY <1>1, <3>1
  <2>4. \A k \in 1..n : k \in 1..(n - 1) \/ k = n  BY <1>1
  <2>5. n \in 1..n <=> s # <<>>  BY <1>1
  <2>6. ASSUME n \in 1..n  PROVE t[n] = s[n] /\ t[n + 1] = u  BY <1>1, <2>6
  <2>7. EndsHigh(s) <=> s # <<>> /\ s[n] = "hi"  BY DEF EndsHigh, n
  <2>8. n \notin 1..(n - 1)  BY <1>1
  <2>9. ASSUME NEW k  PROVE k \in Pairs(t) <=> (k \in Pairs(s) \/ (k = n /\ u = "lo" /\ EndsHigh(s)))
    <3>1. CASE k = n
      <4>1. k \notin Pairs(s)  BY <3>1, <2>2, <2>8
      <4>2. k \in Pairs(t) <=> n \in 1..n /\ t[n] = "hi" /\ t[n + 1] = "lo"  BY <3>1, <2>1
      <4>3. QED  BY <3>1, <4>1, <4>2, <2>5, <2>6, <2>7
    <3>2. CASE k # n
      <4>1. k \in Pairs(t) <=> k \in 1..(n - 1) /\ t[k] = "hi" /\ t[k + 1] = "lo"
        BY <3>2, <2>1, <2>3, <2>4
      <4>2. k \in Pairs(s) <=> k \in 1..(n - 1) /\ s[k] = "hi" /\ s[k + 1] = "lo"  BY <2>2
      <4>3. QED  BY <3>2, <4>1, <4>2, <2>3
    <3>3. QED  BY <3>1, <3>2
  <2>10. QED  BY <2>9
<1>5. QED  BY <1>3, <1>4 DEF t, n

\* A set with a new member has one member more.
LEMMA OneMore ==
  ASSUME NEW S, IsFiniteSet(S), NEW x, x \notin S
  PROVE  Cardinality(S \cup {x}) = Cardinality(S) + 1
BY FS_AddElement

\* What a unit more weighs: a low surrogate after a high one completes four bytes.
LEMMA BytesAppend ==
  ASSUME NEW S, NEW s \in Seq(S), NEW u \in S
  PROVE  /\ ByteLength(Append(s, u)) = ByteLength(s) + Weight(s, u)
         /\ ByteLength(s) \in Int /\ Weight(s, u) \in 1..3
<1> DEFINE t == Append(s, u)
           a == Cardinality(Surrogates(s))
           b == Cardinality(Pairs(s))
           n == Len(s)
<1>1. n \in Nat /\ Len(t) = n + 1 /\ t \in Seq(S)  OBVIOUS
<1>2. a \in Nat /\ b \in Nat  BY SetsFinite
<1>3. Cardinality(Surrogates(t)) = IF u \in {"hi", "lo"} THEN a + 1 ELSE a
  <2>1. Cardinality(Surrogates(s) \cup {n + 1}) = a + 1  BY SetsFinite, OneMore
  <2>2. QED  BY <2>1, SetsAppend
<1>4. Cardinality(Pairs(t)) = IF u = "lo" /\ EndsHigh(s) THEN b + 1 ELSE b
  <2>1. Cardinality(Pairs(s) \cup {n}) = b + 1  BY SetsFinite, OneMore
  <2>2. QED  BY <2>1, SetsAppend
<1>5. ByteLength(s) = n + 2 * a - 2 * b  BY DEF ByteLength
<1>6. ByteLength(t) = Len(t) + 2 * Cardinality(Surrogates(t)) - 2 * Cardinality(Pairs(t))
  BY DEF ByteLength
<1> HIDE DEF t, a, b, n
<1>7. CASE u \notin {"hi", "lo"}
  <2>1. u # "lo" /\ Weight(s, u) = 1  BY <1>7 DEF Weight
  <2>2. QED  BY <1>1, <1>2, <1>3, <1>4, <1>5, <1>6, <1>7, <2>1 DEF t
<1>8. CASE u = "lo" /\ EndsHigh(s)
  <2>1. u \in {"hi", "lo"} /\ Weight(s, u) = 1  BY <1>8 DEF Weight
  <2>2. QED  BY <1>1, <1>2, <1>3, <1>4, <1>5, <1>6, <1>8, <2>1 DEF t
<1>9. CASE u \in {"hi", "lo"} /\ ~(u = "lo" /\ EndsHigh(s))
  <2>1. Weight(s, u) = 3  BY <1>9 DEF Weight
  <2>2. QED  BY <1>1, <1>2, <1>3, <1>4, <1>5, <1>6, <1>9, <2>1 DEF t
<1>10. QED  BY <1>7, <1>8, <1>9

\* The empty text has no bytes.
LEMMA BytesEmpty ==  ByteLength(<<>>) = 0
<1>1. Len(<<>>) = 0 /\ 1..0 = {} /\ 1..(0 - 1) = {}  OBVIOUS
<1>2. Surrogates(<<>>) = {} /\ Pairs(<<>>) = {}  BY <1>1 DEF Surrogates, Pairs
<1>3. Cardinality(Surrogates(<<>>)) = 0 /\ Cardinality(Pairs(<<>>)) = 0  BY <1>2, FS_EmptySet
<1>4. ByteLength(<<>>) = 0 + 2 * 0 - 2 * 0  BY <1>1, <1>3 DEF ByteLength
<1>5. QED  BY <1>4

\* The bytes of a text are a natural number.
LEMMA BytesType ==
  ASSUME NEW S, NEW s \in Seq(S)
  PROVE  ByteLength(s) \in Nat
<1> DEFINE P == {t \in Seq(S) : ByteLength(t) \in Nat}
<1>1. <<>> \in P  BY BytesEmpty
<1>2. ASSUME NEW t \in Seq(S), NEW u \in S, t \in P  PROVE Append(t, u) \in P
  <2>1. ByteLength(t) \in Nat /\ Append(t, u) \in Seq(S)  BY <1>2
  <2>2. ByteLength(Append(t, u)) = ByteLength(t) + Weight(t, u) /\ Weight(t, u) \in 1..3
    BY BytesAppend
  <2>3. ByteLength(Append(t, u)) \in Nat  BY <2>1, <2>2
  <2>4. QED  BY <2>1, <2>3
<1> HIDE DEF P
<1>3. s \in P  BY <1>1, <1>2, AllSequences
<1>4. QED  BY <1>3 DEF P

\* The bytes of two texts in a row: a pair that straddles them takes two less.
Straddle(a, b) == IF EndsHigh(a) /\ b[1] = "lo" THEN 2 ELSE 0

\* The bytes of two texts together, less the pair that straddles the cut (append in jsonl.ts).
LEMMA BytesConcat ==
  ASSUME NEW S, NEW a \in Seq(S), NEW b \in Seq(S), b # <<>>
  PROVE  /\ ByteLength(a \o b) = ByteLength(a) + ByteLength(b) - Straddle(a, b)
         /\ ByteLength(a \o b) >= ByteLength(a)
<1> DEFINE P == {t \in Seq(S) : /\ ByteLength(a \o t) >= ByteLength(a)
                                /\ t # <<>> => ByteLength(a \o t) =
                                                 ByteLength(a) + ByteLength(t) - Straddle(a, t)}
<1>0. ByteLength(a) \in Nat  BY BytesType
<1>1. <<>> \in P
  <2>1. a \o <<>> = a /\ <<>> \in Seq(S)  OBVIOUS
  <2>2. ByteLength(a) >= ByteLength(a)  BY <1>0
  <2>3. QED  BY <2>1, <2>2
<1>2. ASSUME NEW t \in Seq(S), NEW u \in S, t \in P  PROVE Append(t, u) \in P
  <2> DEFINE v == Append(t, u)
  <2>1. v \in Seq(S) /\ a \o t \in Seq(S) /\ v # <<>>  OBVIOUS
  <2>2. a \o v = Append(a \o t, u)  BY ConcatAppend DEF Associates
  <2>3. ByteLength(a \o v) = ByteLength(a \o t) + Weight(a \o t, u) /\ Weight(a \o t, u) \in 1..3
    BY <2>1, <2>2, BytesAppend
  <2>4. ByteLength(v) = ByteLength(t) + Weight(t, u) /\ Weight(t, u) \in 1..3  BY BytesAppend
  <2>5. ByteLength(t) \in Nat /\ ByteLength(a \o t) \in Nat  BY <2>1, BytesType
  <2>6. ByteLength(a \o t) >= ByteLength(a)  BY <1>2
  <2>7. ByteLength(a \o v) >= ByteLength(a)  BY <1>0, <2>3, <2>5, <2>6
  <2>8. ByteLength(a \o v) = ByteLength(a) + ByteLength(v) - Straddle(a, v)
    <3>1. CASE t = <<>>
      <4>1. a \o t = a /\ v[1] = u  BY <3>1
      <4>2. ByteLength(t) = 0 /\ ~EndsHigh(t)  BY <3>1, BytesEmpty DEF EndsHigh
      <4>3. Weight(a, u) = Weight(t, u) - Straddle(a, v)
        BY <4>1, <4>2 DEF Weight, Straddle
      <4>4. Straddle(a, v) \in 0..2  BY DEF Straddle
      <4> HIDE DEF v
      <4>5. QED  BY <1>0, <2>3, <2>4, <4>1, <4>2, <4>3, <4>4
    <3>2. CASE t # <<>>
      <4>1. v[1] = t[1] /\ Straddle(a, v) = Straddle(a, t)
        <5>1. Len(t) \in Nat /\ 1 \in 1..Len(t)  BY <3>2
        <5>2. v[1] = t[1]  BY <5>1
        <5>3. QED  BY <5>2 DEF Straddle
      <4>2. EndsHigh(a \o t) <=> EndsHigh(t)
        <5>1. /\ Len(t) \in Nat /\ Len(t) >= 1 /\ Len(a \o t) = Len(a) + Len(t) /\ Len(a) \in Nat
              /\ (a \o t)[Len(a) + Len(t)] = t[Len(t)]
          BY <3>2
        <5>2. a \o t # <<>>  BY <5>1
        <5>3. QED  BY <3>2, <5>1, <5>2 DEF EndsHigh
      <4>3. Weight(a \o t, u) = Weight(t, u)  BY <4>2 DEF Weight
      <4>4. ByteLength(a \o t) = ByteLength(a) + ByteLength(t) - Straddle(a, t)  BY <1>2, <3>2
      <4>5. Straddle(a, t) \in 0..2  BY DEF Straddle
      <4> DEFINE x == ByteLength(a)
                 y == ByteLength(t)
                 z == ByteLength(a \o t)
                 w == Weight(t, u)
                 d == Straddle(a, t)
      <4>6. x \in Nat /\ y \in Nat /\ z \in Nat /\ w \in 1..3 /\ d \in 0..2 /\ z = x + y - d
        BY <1>0, <2>4, <2>5, <4>4, <4>5
      <4>7. ByteLength(a \o v) = z + w /\ ByteLength(v) = y + w /\ Straddle(a, v) = d
        BY <2>3, <2>4, <4>1, <4>3
      <4> HIDE DEF x, y, z, w, d
      <4>8. z + w = x + (y + w) - d  BY <4>6
      <4> HIDE DEF v
      <4>9. QED  BY <4>7, <4>8 DEF x
    <3>3. QED  BY <3>1, <3>2
  <2>9. QED  BY <2>1, <2>7, <2>8
<1> HIDE DEF P
<1>3. b \in P  BY <1>1, <1>2, AllSequences
<1>4. QED  BY <1>3 DEF P

-----------------------------------------------------------------------------
(* The line reconstructor *)

\* A reconstructor that holds the open part a, and one that has given up.
Open(a) == [text |-> a, bytes |-> ByteLength(a), high |-> EndsHigh(a), over |-> FALSE]
Overflow == [text |-> <<>>, bytes |-> 0, high |-> FALSE, over |-> TRUE]

\* An empty reconstructor is one that is open at an empty text.
LEMMA EmptyIsOpen ==  EmptyLine = Open(<<>>) /\ [EmptyLine EXCEPT !.over = TRUE] = Overflow
<1>1. ByteLength(<<>>) = 0  BY BytesEmpty
<1>2. EndsHigh(<<>>) = FALSE  BY DEF EndsHigh
<1>3. EmptyLine = Open(<<>>)  BY <1>1, <1>2 DEF EmptyLine, Open
<1>4. ASSUME NEW e, NEW n, NEW h, NEW b, NEW c
      PROVE  [[text |-> e, bytes |-> n, high |-> h, over |-> b] EXCEPT !.over = c] =
               [text |-> e, bytes |-> n, high |-> h, over |-> c]
  OBVIOUS
<1> DEFINE none == <<>>
           no == FALSE
           yes == TRUE
<1> HIDE DEF none, no, yes
<1>5. [EmptyLine EXCEPT !.over = TRUE] = Overflow
  <2>1. EmptyLine = [text |-> none, bytes |-> 0, high |-> no, over |-> no]  BY DEF EmptyLine, none, no
  <2>2. Overflow = [text |-> none, bytes |-> 0, high |-> no, over |-> yes]  BY DEF Overflow, none, no, yes
  <2>3. [EmptyLine EXCEPT !.over = yes] = Overflow  BY <2>1, <2>2, <1>4
  <2>4. QED  BY <2>3 DEF yes
<1>6. QED  BY <1>3, <1>5

\* append counts the bytes of the text as a whole, wherever it was cut.
LEMMA AppendIs ==
  ASSUME NEW S, NEW a \in Seq(S), NEW b \in Seq(S), ByteLength(a) <= MaxFrame
  PROVE  AppendPart(Open(a), b) = IF ByteLength(a \o b) > MaxFrame THEN Overflow ELSE Open(a \o b)
<1>0. ByteLength(a) \in Nat /\ ByteLength(a \o b) \in Nat /\ MaxFrame \in Nat
  <2>1. a \o b \in Seq(S)  OBVIOUS
  <2>2. QED  BY <2>1, BytesType, WireAssumption
<1>1. CASE b = <<>>
  <2>1. a \o b = a  BY <1>1
  <2>2. ~(ByteLength(a) > MaxFrame)  BY <1>0
  <2>3. AppendPart(Open(a), b) = Open(a)  BY <1>1 DEF AppendPart
  <2>4. QED  BY <2>1, <2>2, <2>3
<1>2. CASE b # <<>>
  <2> DEFINE bytes == Open(a).bytes + ByteLength(b) - (IF Open(a).high /\ b[1] = "lo" THEN 2 ELSE 0)
  <2>1. Open(a).bytes = ByteLength(a) /\ Open(a).high = EndsHigh(a) /\ Open(a).text = a
    BY DEF Open
  <2>2. bytes = ByteLength(a \o b)  BY <2>1, <1>2, BytesConcat DEF Straddle
  <2>3. AppendPart(Open(a), b) =
          IF bytes > MaxFrame THEN [EmptyLine EXCEPT !.over = TRUE]
          ELSE [text |-> Open(a).text \o b, bytes |-> bytes, high |-> b[Len(b)] = "hi", over |-> FALSE]
    BY <1>2 DEF AppendPart
  <2> HIDE DEF bytes
  <2>4. EndsHigh(a \o b) = (b[Len(b)] = "hi")
    <3>1. /\ Len(b) \in Nat /\ Len(b) >= 1 /\ Len(a \o b) = Len(a) + Len(b) /\ Len(a) \in Nat
          /\ (a \o b)[Len(a) + Len(b)] = b[Len(b)]
      BY <1>2
    <3>2. a \o b # <<>>  BY <3>1
    <3>3. QED  BY <3>1, <3>2 DEF EndsHigh
  <2>5. Open(a \o b) = [text |-> a \o b, bytes |-> ByteLength(a \o b), high |-> EndsHigh(a \o b), over |-> FALSE]
    BY DEF Open
  <2> DEFINE c == a \o b
             n == ByteLength(a \o b)
  <2> HIDE DEF c, n
  <2>6. CASE n > MaxFrame  BY <2>2, <2>3, <2>6, EmptyIsOpen DEF n
  <2>7. CASE ~(n > MaxFrame)
    <3>1. AppendPart(Open(a), b) =
            [text |-> c, bytes |-> n, high |-> (b[Len(b)] = "hi"), over |-> FALSE]
      BY <2>1, <2>2, <2>3, <2>7 DEF n, c
    <3>2. Open(a \o b) = [text |-> c, bytes |-> n, high |-> (b[Len(b)] = "hi"), over |-> FALSE]
      BY <2>4, <2>5 DEF n, c
    <3>3. QED  BY <3>1, <3>2, <2>7 DEF n
  <2>8. QED  BY <2>6, <2>7 DEF n
<1>3. QED  BY <1>1, <1>2

\* g holds what push has after each of the first N parts.
RoundsOf(line, parts, N, g) ==
  g = [n \in 0..N |-> IF n = 0 THEN [line |-> line, lines |-> <<>>]
                      ELSE CompletePart(g[n - 1], parts[n])]

\* The recursive function over the parts of a chunk exists.
LEMMA RoundsExist ==
  ASSUME NEW line, NEW parts, NEW N \in Nat
  PROVE  \E g : RoundsOf(line, parts, N, g)
<1> DEFINE P == {n \in Nat : \E g : RoundsOf(line, parts, n, g)}
           start == [line |-> line, lines |-> <<>>]
<1>1. 0 \in P
  <2> DEFINE g == [n \in 0..0 |-> start]
  <2>1. RoundsOf(line, parts, 0, g)  BY DEF RoundsOf
  <2>2. QED  BY <2>1
<1>2. ASSUME NEW n \in Nat, n \in P  PROVE n + 1 \in P
  <2>1. PICK g : RoundsOf(line, parts, n, g)  BY <1>2
  <2> HIDE DEF start
  <2> DEFINE h == [k \in 0..(n + 1) |-> IF k = 0 THEN start ELSE CompletePart(g[k - 1], parts[k])]
  <2>2. \A k \in 0..n : h[k] = g[k]
    <3>1. \A k \in 0..n : k \in 0..(n + 1)  OBVIOUS
    <3>2. \A k \in 0..n : g[k] = IF k = 0 THEN start ELSE CompletePart(g[k - 1], parts[k])
      BY <2>1 DEF RoundsOf, start
    <3>3. QED  BY <3>1, <3>2
  <2>3. \A k \in 0..(n + 1) : k # 0 => k - 1 \in 0..n  OBVIOUS
  <2>4. \A k \in 0..(n + 1) : h[k] = IF k = 0 THEN start ELSE CompletePart(h[k - 1], parts[k])
    BY <2>2, <2>3
  <2>5. h = [k \in 0..(n + 1) |-> h[k]]  OBVIOUS
  <2> HIDE DEF h
  <2>6. RoundsOf(line, parts, n + 1, h)  BY <2>4, <2>5 DEF RoundsOf, start
  <2>7. QED  BY <2>6
<1> HIDE DEF P
<1>3. N \in P  BY <1>1, <1>2, AllNumbers
<1>4. QED  BY <1>3 DEF P

\* What push returns after the last of its rounds.
Finished(done, part) ==
  IF done.line.over THEN done ELSE [line |-> AppendPart(done.line, part), lines |-> done.lines]

\* push completes every part of a chunk but the last, and appends that one.
LEMMA PushRounds ==
  ASSUME NEW line, NEW t, Len(Parts(t)) \in Nat, Len(Parts(t)) >= 1
  PROVE  \E g : /\ RoundsOf(line, Parts(t), Len(Parts(t)) - 1, g)
                /\ Push(line, t) = Finished(g[Len(Parts(t)) - 1], Parts(t)[Len(Parts(t))])
<1> DEFINE parts == Parts(t)
           h == CHOOSE g : RoundsOf(line, parts, Len(parts) - 1, g)
<1>1. Len(parts) - 1 \in Nat  OBVIOUS
<1>2. RoundsOf(line, parts, Len(parts) - 1, h)
  <2> HIDE DEF parts
  <2>1. \E g : RoundsOf(line, parts, Len(parts) - 1, g)  BY <1>1, RoundsExist
  <2>2. QED  BY <2>1
<1>3. Push(line, t) = Finished(h[Len(parts) - 1], parts[Len(parts)])
  BY DEF Push, RoundsOf, Finished
<1>4. QED  BY <1>2, <1>3

\* A line without its carriage return is a text.
LEMMA WithoutCRType ==
  ASSUME NEW S, NEW a \in Seq(S)
  PROVE  WithoutCR(a) \in Seq(S)
<1>1. CASE a # <<>> /\ a[Len(a)] = "cr"
  <2>1. WithoutCR(a) = SubSeq(a, 1, Len(a) - 1)  BY <1>1 DEF WithoutCR
  <2>2. QED  BY <2>1
<1>2. CASE ~(a # <<>> /\ a[Len(a)] = "cr")  BY <1>2 DEF WithoutCR
<1>3. QED  BY <1>1, <1>2

Large(part) == ByteLength(part) > MaxFrame

JoinsTo(a, b, whole) == whole = a \o b
Holds(acc, line, ls) == acc = [line |-> line, lines |-> ls]

\* One round of push.
LEMMA RoundStep ==
  ASSUME NEW S, NEW a \in Seq(S), NEW part \in Seq(S), ByteLength(a) <= MaxFrame, NEW ls, NEW acc,
         NEW whole, JoinsTo(a, part, whole), Holds(acc, Open(a), ls)
  PROVE  /\ Large(whole) => Holds(CompletePart(acc, part), Overflow, ls)
         /\ ~Large(whole) =>
              Holds(CompletePart(acc, part), Open(<<>>), Append(ls, WithoutCR(whole)))
<1> DEFINE next == AppendPart(acc.line, part)
<1>1. acc.line = Open(a) /\ acc.lines = ls  BY DEF Holds
<1>2. next = IF Large(whole) THEN Overflow ELSE Open(whole)  BY <1>1, AppendIs DEF Large, JoinsTo
<1>3. Open(a).over = FALSE /\ Overflow.over = TRUE /\ Open(whole).over = FALSE
      /\ Open(whole).text = whole
  BY DEF Open, Overflow
<1>4. CompletePart(acc, part) =
        IF acc.line.over THEN acc
        ELSE IF next.over THEN [acc EXCEPT !.line = next]
        ELSE [line |-> EmptyLine, lines |-> Append(acc.lines, WithoutCR(next.text))]
  BY DEF CompletePart
<1>5. [acc EXCEPT !.line = next] = [line |-> next, lines |-> ls]
  <2> HIDE DEF next
  <2>1. QED  BY DEF Holds
<1> HIDE DEF next
<1>6. ASSUME Large(whole)  PROVE CompletePart(acc, part) = [line |-> Overflow, lines |-> ls]
  <2>1. next = Overflow  BY <1>2, <1>6
  <2>2. CompletePart(acc, part) = [acc EXCEPT !.line = next]  BY <1>1, <1>3, <1>4, <2>1
  <2>3. QED  BY <1>5, <2>1, <2>2
<1>7. ASSUME ~Large(whole)
      PROVE  CompletePart(acc, part) = [line |-> Open(<<>>), lines |-> Append(ls, WithoutCR(whole))]
  <2>1. next = Open(whole)  BY <1>2, <1>7
  <2>2. CompletePart(acc, part) = [line |-> EmptyLine, lines |-> Append(ls, WithoutCR(whole))]
    BY <1>1, <1>3, <1>4, <2>1
  <2>3. QED  BY <2>2, EmptyIsOpen
<1>8. QED  BY <1>6, <1>7 DEF Holds

\* A reconstructor that has met a frame too large stays so.
LEMMA RoundOver ==
  ASSUME NEW ls, NEW part
  PROVE  CompletePart([line |-> Overflow, lines |-> ls], part) = [line |-> Overflow, lines |-> ls]
<1> DEFINE acc == [line |-> Overflow, lines |-> ls]
<1>1. acc.line.over = TRUE  BY DEF Overflow
<1> HIDE DEF acc
<1>2. CompletePart(acc, part) = acc  BY <1>1 DEF CompletePart
<1>3. QED  BY <1>2 DEF acc

\* What is open after n parts.
Kept(n, last) == IF n = 0 THEN last ELSE <<>>

\* acc is what push has after the n parts that follow m - 1 parts of r: the j lines before
\* the first part that is too large, or all n.  last is what was open at its start.
LinesAre(ls, j, m, r) ==
  /\ Len(ls) = j
  /\ \A i \in 1..j : ls[i] = WithoutCR(r[m + i - 1]) /\ ~Large(r[m + i - 1])
Progress(S, acc, n, m, last, r) ==
  \E j \in 0..n, ls \in Seq(Seq(S)) :
    /\ LinesAre(ls, j, m, r)
    /\ \/ j = n /\ acc = [line |-> Open(Kept(n, last)), lines |-> ls]
       \/ j < n /\ Large(r[m + j]) /\ acc = [line |-> Overflow, lines |-> ls]

\* The next line delivered is the next part of the stream.
LEMMA LinesMore ==
  ASSUME NEW T, NEW ls \in Seq(T), NEW j \in Nat, NEW m \in Nat, NEW r, LinesAre(ls, j, m, r),
         ~Large(r[m + j]), NEW v \in T, v = WithoutCR(r[m + j])
  PROVE  LinesAre(Append(ls, v), j + 1, m, r) /\ Append(ls, v) \in Seq(T)
<1> DEFINE ks == Append(ls, v)
<1>1. Len(ls) = j /\ \A i \in 1..j : ls[i] = WithoutCR(r[m + i - 1]) /\ ~Large(r[m + i - 1])
  BY DEF LinesAre
<1>2. ks \in Seq(T) /\ Len(ks) = j + 1 /\ ks[j + 1] = v /\ \A i \in 1..j : ks[i] = ls[i]
  BY <1>1, AppendProperties
<1> HIDE DEF ks
<1>3. ASSUME NEW i \in 1..(j + 1)  PROVE ks[i] = WithoutCR(r[m + i - 1]) /\ ~Large(r[m + i - 1])
  <2>1. CASE i = j + 1
    <3>1. m + i - 1 = m + j  BY <2>1
    <3>2. QED  BY <2>1, <3>1, <1>2
  <2>2. CASE i # j + 1
    <3>1. i \in 1..j  BY <2>2
    <3>2. QED  BY <3>1, <1>1, <1>2
  <2>3. QED  BY <2>1, <2>2
<1>4. LinesAre(ks, j + 1, m, r)  BY <1>2, <1>3 DEF LinesAre
<1>5. QED  BY <1>2, <1>4 DEF ks

\* What is open after n parts, with the next part, is the next part of the stream.
LEMMA OpenJoins ==
  ASSUME NEW S, NEW p, NEW q, NEW r, Joined(p, q, r), Len(p) \in Nat, Len(q) \in Nat,
         NEW n \in Nat, n < Len(q), q[n + 1] \in Seq(S)
  PROVE  JoinsTo(Kept(n, p[Len(p)]), q[n + 1], r[Len(p) + n])
<1>1. CASE n = 0
  <2>1. n + 1 = 1 /\ Len(p) + n = Len(p)  BY <1>1
  <2>2. r[Len(p)] = p[Len(p)] \o q[1]  BY DEF Joined
  <2>3. QED  BY <1>1, <2>1, <2>2 DEF Kept, JoinsTo
<1>2. CASE n # 0
  <2>1. n + 1 \in 2..Len(q) /\ n + 1 \in 1..Len(q) /\ Len(p) + (n + 1) - 1 = Len(p) + n  BY <1>2
  <2>2. r[Len(p) + n] = q[n + 1]  BY <2>1 DEF Joined
  <2>3. <<>> \o q[n + 1] = q[n + 1]  OBVIOUS
  <2>4. QED  BY <1>2, <2>2, <2>3 DEF Kept, JoinsTo
<1>3. QED  BY <1>1, <1>2

\* Completing a part keeps what the rounds have done so far.
LEMMA ProgressStep ==
  ASSUME NEW S, NEW acc, NEW n \in Nat, NEW m \in Nat, NEW last \in Seq(S), NEW part \in Seq(S), NEW r,
         Progress(S, acc, n, m, last, r), ByteLength(last) <= MaxFrame,
         JoinsTo(Kept(n, last), part, r[m + n]), r[m + n] \in Seq(S)
  PROVE  Progress(S, CompletePart(acc, part), n + 1, m, last, r)
<1> DEFINE a == Kept(n, last)
           v == WithoutCR(r[m + n])
<1>1. PICK j \in 0..n, ls \in Seq(Seq(S)) :
        /\ LinesAre(ls, j, m, r)
        /\ \/ j = n /\ acc = [line |-> Open(a), lines |-> ls]
           \/ j < n /\ Large(r[m + j]) /\ acc = [line |-> Overflow, lines |-> ls]
  BY DEF Progress
<1>2. a \in Seq(S) /\ ByteLength(a) <= MaxFrame
  <2>1. <<>> \in Seq(S) /\ 0 <= MaxFrame  BY WireAssumption
  <2>2. QED  BY <2>1, BytesEmpty DEF Kept
<1>3. JoinsTo(a, part, r[m + n])  OBVIOUS
<1>4. Kept(n + 1, last) = <<>>  BY DEF Kept
<1> HIDE DEF a
<1>5. CASE j = n /\ Large(r[m + n])
  <2>1. acc = [line |-> Open(a), lines |-> ls]  BY <1>1, <1>5
  <2>2. CompletePart(acc, part) = [line |-> Overflow, lines |-> ls]
    <3>1. Holds(acc, Open(a), ls)  BY <2>1 DEF Holds
    <3>2. Holds(CompletePart(acc, part), Overflow, ls)  BY <3>1, <1>2, <1>3, <1>5, RoundStep
    <3>3. QED  BY <3>2 DEF Holds
  <2>3. j \in 0..(n + 1) /\ j < n + 1 /\ Large(r[m + j])  BY <1>5
  <2>4. QED  BY <1>1, <2>2, <2>3 DEF Progress
<1>6. CASE j = n /\ ~Large(r[m + n])
  <2>1. acc = [line |-> Open(a), lines |-> ls]  BY <1>1, <1>6
  <2>2. CompletePart(acc, part) = [line |-> Open(<<>>), lines |-> Append(ls, v)]
    <3>1. Holds(acc, Open(a), ls)  BY <2>1 DEF Holds
    <3>2. Holds(CompletePart(acc, part), Open(<<>>), Append(ls, v))
      BY <3>1, <1>2, <1>3, <1>6, RoundStep
    <3>3. QED  BY <3>2 DEF Holds
  <2> DEFINE T == Seq(S)
  <2>3. v \in T  BY WithoutCRType
  <2> HIDE DEF T, v
  <2>4. LinesAre(Append(ls, v), n + 1, m, r) /\ Append(ls, v) \in Seq(T)
    <3>1. ls \in Seq(T) /\ LinesAre(ls, n, m, r) /\ v = WithoutCR(r[m + n])  BY <1>1, <1>6 DEF T, v
    <3>2. QED  BY <3>1, <2>3, <1>6, LinesMore
  <2> DEFINE ks == Append(ls, v)
  <2> HIDE DEF ks
  <2>5. ks \in Seq(Seq(S)) /\ LinesAre(ks, n + 1, m, r) /\ n + 1 \in 0..(n + 1)  BY <2>4 DEF ks, T
  <2>6. CompletePart(acc, part) = [line |-> Open(Kept(n + 1, last)), lines |-> ks]
    BY <2>2, <1>4 DEF ks
  <2>7. QED  BY <2>5, <2>6 DEF Progress
<1>7. CASE j < n
  <2>1. acc = [line |-> Overflow, lines |-> ls] /\ Large(r[m + j])  BY <1>1, <1>7
  <2>2. CompletePart(acc, part) = [line |-> Overflow, lines |-> ls]  BY <2>1, RoundOver
  <2>3. j \in 0..(n + 1) /\ j < n + 1  BY <1>7
  <2>4. QED  BY <1>1, <2>1, <2>2, <2>3 DEF Progress
<1>8. QED  BY <1>1, <1>5, <1>6, <1>7

\* After all rounds, every line before the last part has been delivered.
LEMMA RoundsProgress ==
  ASSUME NEW S, NEW p, NEW q, NEW r, Joined(p, q, r), Len(p) \in Nat, Len(p) >= 1, Len(q) \in Nat, Len(q) >= 1,
         p[Len(p)] \in Seq(S), \A k \in 1..Len(q) : q[k] \in Seq(S), \A k \in 1..Len(r) : r[k] \in Seq(S),
         ByteLength(p[Len(p)]) <= MaxFrame, NEW g, RoundsOf(Open(p[Len(p)]), q, Len(q) - 1, g)
  PROVE  Progress(S, g[Len(q) - 1], Len(q) - 1, Len(p), p[Len(p)], r)
<1> DEFINE m == Len(p)
           last == p[m]
           N == Len(q) - 1
           P == {n \in Nat : n <= N => Progress(S, g[n], n, m, last, r)}
<1>1. N \in Nat /\ m \in Nat /\ Len(r) = m + N  BY DEF Joined
<1>2. \A n \in 0..N : g[n] = IF n = 0 THEN [line |-> Open(last), lines |-> <<>>]
                             ELSE CompletePart(g[n - 1], q[n])
  BY DEF RoundsOf
<1>3. 0 \in P
  <2>1. 0 \in 0..N  BY <1>1
  <2>2. g[0] = [line |-> Open(Kept(0, last)), lines |-> <<>>]  BY <1>2, <2>1 DEF Kept
  <2>3. <<>> \in Seq(Seq(S)) /\ Len(<<>>) = 0 /\ 1..0 = {} /\ 0 \in 0..0  OBVIOUS
  <2>4. LinesAre(<<>>, 0, m, r)  BY <2>3 DEF LinesAre
  <2>5. Progress(S, g[0], 0, m, last, r)
    <3> HIDE DEF m, last
    <3>1. QED  BY <2>2, <2>3, <2>4 DEF Progress
  <2>6. QED  BY <2>5
<1>4. ASSUME NEW n \in Nat, n \in P  PROVE n + 1 \in P
  <2>1. SUFFICES ASSUME n + 1 <= N  PROVE Progress(S, g[n + 1], n + 1, m, last, r)  OBVIOUS
  <2>2. Progress(S, g[n], n, m, last, r)  BY <1>1, <1>4, <2>1
  <2>3. n + 1 \in 0..N /\ n + 1 # 0 /\ (n + 1) - 1 = n /\ n < Len(q) /\ n + 1 \in 1..Len(q) /\ m + n \in 1..Len(r)
    BY <1>1, <2>1
  <2>4. g[n + 1] = CompletePart(g[n], q[n + 1])  BY <1>2, <2>3
  <2>5. r[m + n] \in Seq(S) /\ q[n + 1] \in Seq(S) /\ last \in Seq(S)  BY <2>3
  <2>6. JoinsTo(Kept(n, last), q[n + 1], r[m + n])  BY <2>3, <2>5, OpenJoins
  <2>7. ByteLength(last) <= MaxFrame  OBVIOUS
  <2> HIDE DEF m, last, P, N
  <2>8. QED  BY <1>1, <2>2, <2>4, <2>5, <2>6, <2>7, ProgressStep
<1>5. N \in P
  <2> HIDE DEF P, N
  <2>1. QED  BY <1>1, <1>3, <1>4, AllNumbers
<1>6. QED  BY <1>1, <1>5

\* push, for a chunk t that follows s: the whole frames, in whatever chunks they came, and
\* what is open after them.
Delivers(S, m, r, pushed) ==
  \E j \in Nat, ls \in Seq(Seq(S)) :
    /\ LinesAre(ls, j, m, r) /\ m + j <= Len(r)
    /\ \/ Large(r[m + j]) /\ pushed = [line |-> Overflow, lines |-> ls]
       \/ ~Large(r[m + j]) /\ m + j = Len(r) /\ pushed = [line |-> Open(r[m + j]), lines |-> ls]

\* Appending the last part ends a push.
LEMMA FinishedDelivers ==
  ASSUME NEW S, NEW p, NEW q, NEW r, Joined(p, q, r), Len(p) \in Nat, Len(p) >= 1, Len(q) \in Nat, Len(q) >= 1,
         p[Len(p)] \in Seq(S), \A k \in 1..Len(q) : q[k] \in Seq(S),
         ByteLength(p[Len(p)]) <= MaxFrame, NEW acc,
         Progress(S, acc, Len(q) - 1, Len(p), p[Len(p)], r)
  PROVE  Delivers(S, Len(p), r, Finished(acc, q[Len(q)]))
<1> DEFINE m == Len(p)
           N == Len(q) - 1
           last == p[Len(p)]
           a == Kept(N, last)
<1>1. N \in Nat /\ m \in Nat /\ Len(r) = m + N  BY DEF Joined
<1>2. PICK j \in 0..N, ls \in Seq(Seq(S)) :
        /\ LinesAre(ls, j, m, r)
        /\ \/ j = N /\ acc = [line |-> Open(a), lines |-> ls]
           \/ j < N /\ Large(r[m + j]) /\ acc = [line |-> Overflow, lines |-> ls]
  BY DEF Progress
<1>3. JoinsTo(a, q[Len(q)], r[m + N])
  <2>1. N < Len(q) /\ N + 1 = Len(q) /\ q[Len(q)] \in Seq(S)  OBVIOUS
  <2>2. QED  BY <1>1, <2>1, OpenJoins
<1>4. a \in Seq(S) /\ ByteLength(a) <= MaxFrame /\ q[Len(q)] \in Seq(S)
  <2>1. <<>> \in Seq(S) /\ 0 <= MaxFrame  BY WireAssumption
  <2>2. QED  BY <2>1, BytesEmpty DEF Kept
<1>5. j \in Nat /\ m + j <= Len(r) /\ m + N = Len(r)  BY <1>1
<1> HIDE DEF N, m, last, a
<1>6. CASE j < N
  <2>1. acc = [line |-> Overflow, lines |-> ls] /\ Large(r[m + j])  BY <1>1, <1>2, <1>6
  <2>2. acc.line.over = TRUE  BY <2>1 DEF Overflow
  <2>3. Finished(acc, q[Len(q)]) = acc  BY <2>2 DEF Finished
  <2>4. QED  BY <1>2, <1>5, <2>1, <2>3 DEF Delivers, m
<1>7. CASE j = N
  <2>1. acc = [line |-> Open(a), lines |-> ls]  BY <1>1, <1>2, <1>7
  <2>2. acc.line = Open(a) /\ acc.lines = ls /\ acc.line.over = FALSE  BY <2>1 DEF Open
  <2>3. Finished(acc, q[Len(q)]) = [line |-> AppendPart(Open(a), q[Len(q)]), lines |-> ls]
    BY <2>2 DEF Finished
  <2>4. AppendPart(Open(a), q[Len(q)]) = IF Large(r[m + N]) THEN Overflow ELSE Open(r[m + N])
    BY <1>3, <1>4, AppendIs DEF Large, JoinsTo
  <2>5. CASE Large(r[m + N])
    <3>1. Finished(acc, q[Len(q)]) = [line |-> Overflow, lines |-> ls]  BY <2>3, <2>4, <2>5
    <3>2. QED  BY <1>2, <1>5, <1>7, <2>5, <3>1 DEF Delivers, m
  <2>6. CASE ~Large(r[m + N])
    <3>1. Finished(acc, q[Len(q)]) = [line |-> Open(r[m + N]), lines |-> ls]  BY <2>3, <2>4, <2>6
    <3>2. QED  BY <1>2, <1>5, <1>7, <2>6, <3>1 DEF Delivers, m
  <2>7. QED  BY <2>5, <2>6
<1>8. QED  BY <1>1, <1>6, <1>7

\* A reconstructor that holds the end of one stream and is pushed another delivers the lines of both together.
LEMMA PushDelivers ==
  ASSUME NEW S, NEW s \in Seq(S), NEW t \in Seq(S), ~Large(Parts(s)[Len(Parts(s))])
  PROVE  Delivers(S, Len(Parts(s)), Parts(s \o t), Push(Open(Parts(s)[Len(Parts(s))]), t))
<1> DEFINE p == Parts(s)
           q == Parts(t)
           r == Parts(s \o t)
           T == S \ {"nl"}
<1>1. p \in Seq(Seq(T)) /\ Len(p) \in Nat /\ Len(p) >= 1  BY PartsType
<1>2. q \in Seq(Seq(T)) /\ Len(q) \in Nat /\ Len(q) >= 1  BY PartsType
<1>3. r \in Seq(Seq(T))
  <2>1. s \o t \in Seq(S)  OBVIOUS
  <2>2. QED  BY <2>1, PartsType
<1>4. Joined(p, q, r)  BY PartsJoin
<1>5. ASSUME NEW v \in Seq(T)  PROVE v \in Seq(S)  OBVIOUS
<1>6. p[Len(p)] \in Seq(T) /\ (\A k \in 1..Len(q) : q[k] \in Seq(T)) /\ \A k \in 1..Len(r) : r[k] \in Seq(T)
  <2> HIDE DEF p, q, r, T
  <2>1. QED  BY <1>1, <1>2, <1>3
<1>7. p[Len(p)] \in Seq(S) /\ (\A k \in 1..Len(q) : q[k] \in Seq(S)) /\ \A k \in 1..Len(r) : r[k] \in Seq(S)
  <2> HIDE DEF p, q, r, T
  <2>1. QED  BY <1>5, <1>6
<1>8. ByteLength(p[Len(p)]) <= MaxFrame
  <2>1. ByteLength(p[Len(p)]) \in Nat /\ MaxFrame \in Nat  BY <1>7, BytesType, WireAssumption
  <2>2. ~(ByteLength(p[Len(p)]) > MaxFrame)  BY DEF Large
  <2> HIDE DEF p
  <2>3. QED  BY <2>1, <2>2
<1>9. PICK g : /\ RoundsOf(Open(p[Len(p)]), q, Len(q) - 1, g)
               /\ Push(Open(p[Len(p)]), t) = Finished(g[Len(q) - 1], q[Len(q)])
  BY <1>2, PushRounds
<1> HIDE DEF p, q, r, T
<1>10. Progress(S, g[Len(q) - 1], Len(q) - 1, Len(p), p[Len(p)], r)
  BY <1>1, <1>2, <1>4, <1>7, <1>8, <1>9, RoundsProgress
<1>11. Delivers(S, Len(p), r, Push(Open(p[Len(p)]), t))
  BY <1>1, <1>2, <1>4, <1>7, <1>8, <1>9, <1>10, FinishedDelivers
<1>12. QED  BY <1>11 DEF p, r

\* The units a reconstructor returns and keeps are those it was given.
TextsIn(acc, S) ==
  /\ acc = [line |-> acc.line, lines |-> acc.lines]
  /\ acc.line.text \in Seq(S) /\ acc.lines \in Seq(Seq(S))

\* What append keeps is a text.
LEMMA AppendType ==
  ASSUME NEW S, NEW line, line.text \in Seq(S), NEW part \in Seq(S)
  PROVE  AppendPart(line, part).text \in Seq(S)
<1> DEFINE joined == IF line.high /\ part[1] = "lo" THEN 2 ELSE 0
           bytes  == line.bytes + ByteLength(part) - joined
<1>1. line.text \o part \in Seq(S) /\ <<>> \in Seq(S)  OBVIOUS
<1>2. AppendPart(line, part) =
        IF part = <<>> THEN line
        ELSE IF bytes > MaxFrame THEN [EmptyLine EXCEPT !.over = TRUE]
        ELSE [text |-> line.text \o part, bytes |-> bytes, high |-> part[Len(part)] = "hi", over |-> FALSE]
  BY DEF AppendPart
<1> HIDE DEF bytes
<1>3. CASE part = <<>>  BY <1>2, <1>3
<1>4. CASE part # <<>> /\ bytes > MaxFrame
  <2>1. AppendPart(line, part) = Overflow  BY <1>2, <1>4, EmptyIsOpen
  <2>2. QED  BY <1>1, <2>1 DEF Overflow
<1>5. CASE part # <<>> /\ ~(bytes > MaxFrame)
  <2>1. AppendPart(line, part).text = line.text \o part  BY <1>2, <1>5
  <2>2. QED  BY <1>1, <2>1
<1>6. QED  BY <1>3, <1>4, <1>5

\* What a completed part leaves and delivers are texts.
LEMMA CompleteType ==
  ASSUME NEW S, NEW acc, TextsIn(acc, S), NEW part \in Seq(S)
  PROVE  TextsIn(CompletePart(acc, part), S)
<1> DEFINE next == AppendPart(acc.line, part)
<1>1. next.text \in Seq(S)  BY AppendType DEF TextsIn
<1>2. CompletePart(acc, part) =
        IF acc.line.over THEN acc
        ELSE IF next.over THEN [acc EXCEPT !.line = next]
        ELSE [line |-> EmptyLine, lines |-> Append(acc.lines, WithoutCR(next.text))]
  BY DEF CompletePart
<1> HIDE DEF next
<1>3. CASE acc.line.over
  <2>1. CompletePart(acc, part) = acc  BY <1>2, <1>3
  <2>2. QED  BY <2>1
<1>4. CASE ~acc.line.over /\ next.over
  <2>1. CompletePart(acc, part) = [line |-> next, lines |-> acc.lines]  BY <1>2, <1>4 DEF TextsIn
  <2>2. QED  BY <1>1, <2>1 DEF TextsIn
<1>5. CASE ~acc.line.over /\ ~next.over
  <2> DEFINE T == Seq(S)
             v == WithoutCR(next.text)
             ls == acc.lines
  <2>1. v \in T  BY <1>1, WithoutCRType
  <2>2. ls \in Seq(T)  BY DEF TextsIn
  <2>3. <<>> \in T  OBVIOUS
  <2> HIDE DEF T, v, ls
  <2>4. Append(ls, v) \in Seq(T)  BY <2>1, <2>2
  <2>5. CompletePart(acc, part) = [line |-> EmptyLine, lines |-> Append(ls, v)]  BY <1>2, <1>5 DEF v, ls
  <2>6. EmptyLine.text \in T  BY <2>3 DEF EmptyLine
  <2>7. QED  BY <2>4, <2>5, <2>6 DEF TextsIn, T
<1>6. QED  BY <1>3, <1>4, <1>5

\* What a push leaves and delivers are texts.
LEMMA PushType ==
  ASSUME NEW S, NEW line, line.text \in Seq(S), NEW t \in Seq(S)
  PROVE  Push(line, t).line.text \in Seq(S) /\ Push(line, t).lines \in Seq(Seq(S))
<1> DEFINE q == Parts(t)
           N == Len(q) - 1
           T == S \ {"nl"}
           start == [line |-> line, lines |-> <<>>]
<1>1. q \in Seq(Seq(T)) /\ Len(q) \in Nat /\ Len(q) >= 1 /\ N \in Nat  BY PartsType
<1>2. ASSUME NEW v \in Seq(T)  PROVE v \in Seq(S)  OBVIOUS
<1>3. ASSUME NEW k \in 1..Len(q)  PROVE q[k] \in Seq(S)
  <2> HIDE DEF q, T
  <2>1. q[k] \in Seq(T)  BY <1>1
  <2>2. QED  BY <2>1, <1>2
<1>4. PICK g : RoundsOf(line, q, N, g) /\ Push(line, t) = Finished(g[N], q[Len(q)])
  BY <1>1, PushRounds
<1>5. \A n \in 0..N : g[n] = IF n = 0 THEN start ELSE CompletePart(g[n - 1], q[n])
  BY <1>4 DEF RoundsOf
<1>6. N + 1 = Len(q)  BY <1>1
<1>7. TextsIn(start, S)
  <2>1. <<>> \in Seq(Seq(S))  OBVIOUS
  <2>2. start.line = line /\ start.lines = <<>>  OBVIOUS
  <2>3. QED  BY <2>1, <2>2 DEF TextsIn
<1> DEFINE P == {n \in Nat : n <= N => TextsIn(g[n], S)}
<1> HIDE DEF q, N, T, start
<1>8. 0 \in P
  <2>1. 0 \in 0..N  BY <1>1
  <2>2. g[0] = start  BY <1>5, <2>1
  <2>3. QED  BY <2>2, <1>7
<1>9. ASSUME NEW n \in Nat, n \in P  PROVE n + 1 \in P
  <2>1. SUFFICES ASSUME n + 1 <= N  PROVE TextsIn(g[n + 1], S)  OBVIOUS
  <2>2. TextsIn(g[n], S)  BY <1>1, <1>9, <2>1
  <2>3. n + 1 \in 0..N /\ n + 1 # 0 /\ (n + 1) - 1 = n /\ n + 1 \in 1..Len(q)  BY <1>1, <1>6, <2>1
  <2>4. g[n + 1] = CompletePart(g[n], q[n + 1])  BY <1>5, <2>3
  <2>5. QED  BY <2>2, <2>3, <2>4, <1>3, CompleteType
<1>10. TextsIn(g[N], S)
  <2> HIDE DEF P
  <2>1. N \in P  BY <1>1, <1>8, <1>9, AllNumbers
  <2>2. QED  BY <1>1, <2>1 DEF P
<1>11. q[Len(q)] \in Seq(S)  BY <1>1, <1>3
<1>12. AppendPart(g[N].line, q[Len(q)]).text \in Seq(S)  BY <1>10, <1>11, AppendType DEF TextsIn
<1>13. CASE g[N].line.over
  <2>1. Push(line, t) = g[N]  BY <1>4, <1>13 DEF Finished
  <2>2. QED  BY <2>1, <1>10 DEF TextsIn
<1>14. CASE ~g[N].line.over
  <2>1. Push(line, t) = [line |-> AppendPart(g[N].line, q[Len(q)]), lines |-> g[N].lines]
    BY <1>4, <1>14 DEF Finished
  <2>2. QED  BY <2>1, <1>10, <1>12 DEF TextsIn
<1>15. QED  BY <1>13, <1>14

-----------------------------------------------------------------------------
(* The frames of a stream *)

\* The earliest of some numbers is the least of them.
LEMMA EarliestIs ==
  ASSUME NEW S, S \subseteq Nat, S # {}
  PROVE  Earliest(S) \in S /\ \A j \in S : Earliest(S) <= j
<1>1. \E k \in S : \A j \in S : k <= j  BY LeastNumber
<1>2. QED  BY <1>1 DEF Earliest

\* The parts up to f: none before f is too large, and f is too large or the last.
LEMMA FramesAre ==
  ASSUME NEW s, Len(Parts(s)) \in Nat, NEW f \in 1..Len(Parts(s)),
         \A k \in 1..(f - 1) : ~Large(Parts(s)[k]), Large(Parts(s)[f]) \/ f = Len(Parts(s))
  PROVE  /\ Frames(s).whole = SubSeq(Parts(s), 1, f - 1) /\ Frames(s).rest = Parts(s)[f]
         /\ Frames(s).over <=> Large(Parts(s)[f])
<1> DEFINE parts == Parts(s)
           large == TooLarge(parts)
           first == IF large = {} THEN Len(parts) ELSE Earliest(large)
<1>1. /\ Frames(s).whole = SubSeq(parts, 1, first - 1) /\ Frames(s).rest = parts[first]
      /\ Frames(s).over <=> (large # {})
  BY DEF Frames
<1>2. large = {k \in 1..Len(parts) : Large(parts[k])}  BY DEF TooLarge, Large
<1>3. first = f /\ (large # {}) = Large(parts[f])
  <2> HIDE DEF parts
  <2>1. CASE Large(parts[f])
    <3>1. f \in large  BY <1>2, <2>1 DEF parts
    <3>2. large \subseteq Nat  BY <1>2 DEF parts
    <3> HIDE DEF large
    <3>3. Earliest(large) \in large /\ Earliest(large) <= f  BY <3>1, <3>2, EarliestIs
    <3>4. Earliest(large) \in 1..Len(parts) /\ Large(parts[Earliest(large)])  BY <1>2, <3>3
    <3>5. ~(Earliest(large) \in 1..(f - 1))  BY <3>4 DEF parts
    <3>6. Earliest(large) = f  BY <3>3, <3>4, <3>5 DEF parts
    <3>7. QED  BY <3>1, <3>6, <2>1
  <2>2. CASE ~Large(parts[f])
    <3>1. f = Len(parts)  BY <2>2 DEF parts
    <3>2. ASSUME NEW k \in large  PROVE FALSE
      <4>1. k \in 1..Len(parts) /\ Large(parts[k])  BY <1>2, <3>2
      <4>2. k \in 1..(f - 1) \/ k = f  BY <3>1, <4>1 DEF parts
      <4>3. QED  BY <4>1, <4>2, <2>2 DEF parts
    <3>3. large = {}  BY <3>2
    <3>4. first = f  BY <3>1, <3>3
    <3> HIDE DEF large
    <3>5. (large # {}) = Large(parts[f])  BY <3>3, <2>2 DEF Large
    <3>6. QED  BY <3>4, <3>5
  <2>3. QED  BY <2>1, <2>2
<1> HIDE DEF first, large, parts
<1>4. QED  BY <1>1, <1>3 DEF parts

\* The reconstructor that has read a stream.
Expect(s) == IF Frames(s).over THEN Overflow ELSE Open(Frames(s).rest)

\* Part k of r begins with c.
Begins(r, k, c) == r[k] # <<>> /\ r[k][1] = c

\* A call has an answer among the first lines exactly when one of them begins with its id.
LEMMA MineBefore ==
  ASSUME NEW T, NEW r \in Seq(T), NEW n \in 0..Len(r), NEW c
  PROVE  Mine(SubSeq(r, 1, n), c) # {} <=> \E k \in 1..n : Begins(r, k, c)
<1>1. Len(SubSeq(r, 1, n)) = n /\ \A k \in 1..n : SubSeq(r, 1, n)[k] = r[k]  OBVIOUS
<1> DEFINE w == SubSeq(r, 1, n)
<1> HIDE DEF w
<1>2. Len(w) = n /\ \A k \in 1..n : w[k] = r[k]  BY <1>1 DEF w
<1>3. Mine(w, c) = {k \in 1..n : Begins(r, k, c)}  BY <1>2 DEF Mine, Begins
<1>4. QED  BY <1>3 DEF w

\* The same among the lines a push delivers.
LEMMA MineLines ==
  ASSUME NEW ls, NEW j \in Nat, NEW m \in Nat, NEW r, NEW c, LinesAre(ls, j, m, r),
         \A i \in 1..j : WithoutCR(r[m + i - 1]) = r[m + i - 1]
  PROVE  Mine(ls, c) # {} <=> \E i \in 1..j : Begins(r, m + i - 1, c)
<1>1. Len(ls) = j /\ \A i \in 1..j : ls[i] = r[m + i - 1]  BY DEF LinesAre
<1>2. Mine(ls, c) = {i \in 1..j : Begins(r, m + i - 1, c)}  BY <1>1 DEF Mine, Begins
<1>3. QED  BY <1>2

\* No frame of r ends with a carriage return.
Plain(r) == \A k \in 1..(Len(r) - 1) : WithoutCR(r[k]) = r[k]

\* A stream s is read a chunk further, to st with the parts r: what the reconstructor is left
\* with, and which frames are new.
ReadsOn(S, s, st, r, pushed) ==
  /\ pushed.line = Expect(st) /\ pushed.lines \in Seq(Seq(S))
  /\ \A i \in 1..Len(pushed.lines) : \E k \in 1..(Len(r) - 1) : pushed.lines[i] = r[k]
  /\ \A c : Mine(Frames(st).whole, c) # {} <=>
              (Mine(Frames(s).whole, c) # {} \/ Mine(pushed.lines, c) # {})

\* Reading a chunk more gives the frames of everything read.
LEMMA FramesGrow ==
  ASSUME NEW S, NEW s \in Seq(S), NEW t \in Seq(S), ~Frames(s).over,
         NEW st, JoinsTo(s, t, st), NEW r, r = Parts(st), Plain(r),
         NEW pushed, pushed = Push(Open(Frames(s).rest), t)
  PROVE  ReadsOn(S, s, st, r, pushed)
<1> DEFINE p == Parts(s)
           q == Parts(t)
           T == S \ {"nl"}
           m == Len(p)
<1>0. st = s \o t  BY DEF JoinsTo
<1>1. p \in Seq(Seq(T)) /\ m \in Nat /\ m >= 1  BY PartsType
<1>2. r \in Seq(Seq(T)) /\ Len(r) \in Nat /\ Len(r) >= 1
  <2>1. st \in Seq(S)  BY <1>0
  <2>2. QED  BY <2>1, PartsType
<1>3. Joined(p, q, r)  BY <1>0, PartsJoin
<1>4. \A k \in 1..m : ~Large(p[k])
  <2>1. Frames(s).over = (TooLarge(p) # {})  BY DEF Frames
  <2>2. TooLarge(p) = {k \in 1..m : Large(p[k])}  BY DEF TooLarge, Large
  <2> HIDE DEF p, m
  <2>3. QED  BY <2>1, <2>2
<1>5. m \in 1..m /\ \A k \in 1..(m - 1) : k \in 1..m  BY <1>1
<1>6. Frames(s).rest = p[m] /\ Frames(s).whole = SubSeq(p, 1, m - 1)
  <2>1. \A k \in 1..(m - 1) : ~Large(p[k])  BY <1>4, <1>5
  <2>2. QED  BY <1>1, <1>5, <2>1, FramesAre
<1>8. Delivers(S, m, r, pushed)
  <2>1. ~Large(p[m])  BY <1>4, <1>5
  <2>2. QED  BY <1>0, <1>6, <2>1, PushDelivers
<1>9. PICK j \in Nat, ls \in Seq(Seq(S)) :
        /\ LinesAre(ls, j, m, r) /\ m + j <= Len(r)
        /\ \/ Large(r[m + j]) /\ pushed = [line |-> Overflow, lines |-> ls]
           \/ ~Large(r[m + j]) /\ m + j = Len(r) /\ pushed = [line |-> Open(r[m + j]), lines |-> ls]
  BY <1>8 DEF Delivers
<1>10. pushed.lines = ls  BY <1>9
<1>11. \A k \in 1..(m - 1) : r[k] = p[k]  BY <1>3 DEF Joined
<1> HIDE DEF p, q, T, m
<1>12. ASSUME NEW k \in 1..(m + j - 1)  PROVE ~Large(r[k])
  <2>1. CASE k \in 1..(m - 1)  BY <2>1, <1>4, <1>5, <1>11
  <2>2. CASE k \notin 1..(m - 1)
    <3>1. k - m + 1 \in 1..j /\ m + (k - m + 1) - 1 = k  BY <1>1, <2>2
    <3>2. QED  BY <3>1, <1>9 DEF LinesAre
  <2>3. QED  BY <2>1, <2>2
<1>13. m + j \in 1..Len(r)  BY <1>1, <1>2, <1>9
<1> DEFINE fr == Frames(st)
<1>14. r = Parts(st)  OBVIOUS
<1> HIDE DEF fr
<1>15. fr.whole = SubSeq(r, 1, m + j - 1) /\ fr.rest = r[m + j] /\ (fr.over <=> Large(r[m + j]))
  <2>1. Large(r[m + j]) \/ m + j = Len(r)  BY <1>9
  <2>2. \A k \in 1..(m + j - 1) : ~Large(r[k])  BY <1>12
  <2>3. PICK f \in Int : f = m + j  BY <1>1
  <2>4. f \in 1..Len(r) /\ (Large(r[f]) \/ f = Len(r))  BY <1>13, <2>1, <2>3
  <2>5. \A k \in 1..(f - 1) : ~Large(r[k])  BY <1>1, <2>2, <2>3
  <2>6. fr.whole = SubSeq(r, 1, f - 1) /\ fr.rest = r[f] /\ (fr.over <=> Large(r[f]))
    BY ONLY <1>2, <1>14, <2>4, <2>5, FramesAre DEF fr
  <2>7. QED  BY <1>1, <2>3, <2>6
<1>16. pushed.line = Expect(st)
  <2>1. Expect(st) = IF fr.over THEN Overflow ELSE Open(fr.rest)  BY DEF Expect, fr
  <2>2. (fr.over <=> Large(r[m + j])) /\ fr.rest = r[m + j]  BY <1>15
  <2>3. pushed.line = IF Large(r[m + j]) THEN Overflow ELSE Open(r[m + j])  BY <1>9
  <2>4. QED  BY <2>1, <2>2, <2>3
<1>17. \A i \in 1..j : m + i - 1 \in 1..(Len(r) - 1)  BY <1>1, <1>2, <1>9
<1>18. ASSUME NEW i \in 1..Len(ls)  PROVE \E k \in 1..(Len(r) - 1) : ls[i] = r[k]
  <2>1. i \in 1..j  BY <1>9 DEF LinesAre
  <2>2. ls[i] = WithoutCR(r[m + i - 1]) /\ m + i - 1 \in 1..(Len(r) - 1)  BY <2>1, <1>9, <1>17 DEF LinesAre
  <2>3. QED  BY <2>2 DEF Plain
<1>19. ASSUME NEW c
       PROVE  Mine(Frames(st).whole, c) # {} <=> (Mine(Frames(s).whole, c) # {} \/ Mine(ls, c) # {})
  <2>1. fr.whole = SubSeq(r, 1, m + j - 1)  BY <1>15
  <2>2. m + j - 1 \in 0..Len(r) /\ m - 1 \in 0..m  BY <1>1, <1>2, <1>9
  <2>3. Mine(fr.whole, c) # {} <=> \E k \in 1..(m + j - 1) : Begins(r, k, c)
    <3>1. Mine(SubSeq(r, 1, m + j - 1), c) # {} <=> \E k \in 1..(m + j - 1) : Begins(r, k, c)
      BY <1>2, <2>2, MineBefore
    <3>2. QED  BY <3>1, <2>1
  <2>4. Mine(Frames(s).whole, c) # {} <=> \E k \in 1..(m - 1) : Begins(p, k, c)
    <3>1. Mine(SubSeq(p, 1, m - 1), c) # {} <=> \E k \in 1..(m - 1) : Begins(p, k, c)
      <4>1. p \in Seq(Seq(T)) /\ m - 1 \in 0..Len(p)  BY <1>1, <2>2 DEF m
      <4>2. QED  BY <4>1, MineBefore
    <3>2. QED  BY <3>1, <1>6
  <2>5. \A k \in 1..(m - 1) : Begins(r, k, c) <=> Begins(p, k, c)  BY <1>11 DEF Begins
  <2>6. Mine(ls, c) # {} <=> \E i \in 1..j : Begins(r, m + i - 1, c)
    <3>1. \A i \in 1..j : WithoutCR(r[m + i - 1]) = r[m + i - 1]  BY <1>17 DEF Plain
    <3>2. QED  BY <1>1, <1>9, <3>1, MineLines
  <2>7. (\E k \in 1..(m + j - 1) : Begins(r, k, c)) <=>
          ((\E k \in 1..(m - 1) : Begins(r, k, c)) \/ \E i \in 1..j : Begins(r, m + i - 1, c))
    <3>1. \A k \in 1..(m - 1) : k \in 1..(m + j - 1)  BY <1>1
    <3>2. \A i \in 1..j : m + i - 1 \in 1..(m + j - 1)  BY <1>1
    <3>3. ASSUME NEW k \in 1..(m + j - 1), k \notin 1..(m - 1)
          PROVE  \E i \in 1..j : k = m + i - 1
      <4>1. k - m + 1 \in 1..j /\ m + (k - m + 1) - 1 = k  BY <1>1, <3>3
      <4>2. QED  BY <4>1
    <3>4. ASSUME NEW k \in 1..(m + j - 1), Begins(r, k, c)
          PROVE  (\E l \in 1..(m - 1) : Begins(r, l, c)) \/ \E i \in 1..j : Begins(r, m + i - 1, c)
      <4>1. CASE k \in 1..(m - 1)  BY <3>4, <4>1
      <4>2. CASE k \notin 1..(m - 1)
        <5>1. PICK i \in 1..j : k = m + i - 1  BY <4>2, <3>3
        <5>2. QED  BY <3>4, <5>1
      <4>3. QED  BY <4>1, <4>2
    <3>5. QED  BY <3>1, <3>2, <3>4
  <2>8. QED  BY <2>3, <2>4, <2>5, <2>6, <2>7 DEF fr
<1>20. QED  BY <1>10, <1>16, <1>18, <1>19 DEF ReadsOn

-----------------------------------------------------------------------------
(* The stream of answers *)

\* The frames a daemon writes.
Answers == {<<c>> \o Reply[c] : c \in Calls} \cup {<<"?">>}
Units == Calls \cup OneByte \cup Signs

\* Every frame of a stream is an answer, and the last is not begun.
WholeAnswers(s) == \A k \in 1..(Len(Parts(s)) - 1) : Parts(s)[k] \in Answers
AtEnd(s) == Parts(s)[Len(Parts(s))] = <<>>

\* A text without newlines is one part.
LEMMA PartsPlain ==
  ASSUME NEW S, "nl" \notin S, NEW x \in Seq(S)
  PROVE  Parts(x) = <<x>>
<1> DEFINE P == {t \in Seq(S) : Parts(t) = <<t>>}
<1>1. <<>> \in P  BY PartsEmpty
<1>2. ASSUME NEW t \in Seq(S), NEW u \in S, t \in P  PROVE Append(t, u) \in P
  <2> DEFINE v == Append(t, u)
  <2>1. Parts(v) = AddUnit(<<t>>, u)  BY <1>2, PartsAppend
  <2>2. u # "nl"  OBVIOUS
  <2>3. v \in Seq(S)  OBVIOUS
  <2> DEFINE one == <<t>>
  <2>4. Len(one) = 1 /\ one[1] = t /\ one \in [1..1 -> {t}]  OBVIOUS
  <2>5. AddUnit(one, u) = [one EXCEPT ![Len(one)] = Append(@, u)]  BY <2>2 DEF AddUnit
  <2> HIDE DEF v
  <2>6. [one EXCEPT ![1] = v] = <<v>>  OBVIOUS
  <2> HIDE DEF one
  <2>7. AddUnit(one, u) = <<v>>  BY <2>4, <2>5, <2>6 DEF v
  <2>8. Parts(v) = <<v>>  BY <2>1, <2>7 DEF one
  <2>9. QED  BY <2>3, <2>8 DEF v
<1> HIDE DEF P
<1>3. x \in P  BY <1>1, <1>2, AllSequences
<1>4. QED  BY <1>3 DEF P

\* A line with its newline is the line and an empty part.
LEMMA PartsLine ==
  ASSUME NEW S, "nl" \notin S, NEW x \in Seq(S)
  PROVE  /\ Len(Parts(Append(x, "nl"))) = 2 /\ Parts(Append(x, "nl"))[1] = x
         /\ Parts(Append(x, "nl"))[2] = <<>>
<1> DEFINE T == S \cup {"nl"}
           none == <<>>
<1>1. x \in Seq(T) /\ "nl" \in T  OBVIOUS
<1> HIDE DEF T
<1>2. Parts(Append(x, "nl")) = AddUnit(Parts(x), "nl")  BY <1>1, PartsAppend
<1>3. AddUnit(Parts(x), "nl") = Append(<<x>>, none)  BY PartsPlain DEF AddUnit
<1> HIDE DEF none
<1> DEFINE one == <<x>>
           W == {x, none}
<1>4. one \in Seq(W) /\ none \in W /\ Len(one) = 1 /\ one[1] = x  OBVIOUS
<1> HIDE DEF one, W
<1>5. Len(Append(one, none)) = 2 /\ Append(one, none)[1] = x /\ Append(one, none)[2] = none
  BY <1>4
<1>6. QED  BY <1>2, <1>3, <1>5 DEF none, one

\* What comes first in a stream of whole answers is a stream of whole answers.
LEMMA WholePrefix ==
  ASSUME NEW S, NEW s \in Seq(S), NEW t \in Seq(S), WholeAnswers(s \o t)
  PROVE  WholeAnswers(s)
<1> DEFINE p == Parts(s)
           q == Parts(t)
           r == Parts(s \o t)
<1>1. Len(p) \in Nat /\ Len(p) >= 1 /\ Len(q) \in Nat /\ Len(q) >= 1  BY PartsType
<1>2. Joined(p, q, r)  BY PartsJoin
<1>3. \A k \in 1..(Len(r) - 1) : r[k] \in Answers  BY DEF WholeAnswers
<1> HIDE DEF p, q, r
<1>4. Len(r) = Len(p) + Len(q) - 1 /\ \A k \in 1..(Len(p) - 1) : r[k] = p[k]  BY <1>2 DEF Joined
<1>5. \A k \in 1..(Len(p) - 1) : k \in 1..(Len(r) - 1)  BY <1>1, <1>4
<1>6. \A k \in 1..(Len(p) - 1) : p[k] \in Answers  BY <1>3, <1>4, <1>5
<1>7. QED  BY <1>6 DEF WholeAnswers, p

\* An answer the daemon writes is not empty, has no newline, and is the reply of its call.
LEMMA AnswerForm ==
  ASSUME NEW x \in Answers
  PROVE  /\ x \in Seq(Units \ {"nl"}) /\ x # <<>> /\ WithoutCR(x) = x
         /\ \A c \in Calls : x[1] = c => Tail(x) = Reply[c]
<1>1. CASE x = <<"?">>
  <2>1. "?" \in Units \ {"nl"} /\ "?" \notin Calls  BY WireAssumption DEF Units, Signs
  <2>2. x # <<>> /\ x[1] = "?" /\ Len(x) = 1  BY <1>1
  <2>3. x \in Seq(Units \ {"nl"})  BY <1>1, <2>1
  <2>4. WithoutCR(x) = x  BY <2>2 DEF WithoutCR
  <2>5. QED  BY <2>1, <2>2, <2>3, <2>4
<1>2. CASE x # <<"?">>
  <2>1. PICK d \in Calls : x = <<d>> \o Reply[d]  BY <1>2 DEF Answers
  <2> DEFINE y == Reply[d]
             T == Units \ {"nl"}
             C == OneByte \cup {"hi", "lo"}
  <2>2. y \in Seq(C)  BY WireAssumption DEF Texts
  <2>3. C \subseteq T /\ d \in T /\ "cr" \notin C /\ "cr" # d
    BY WireAssumption DEF Units, Signs
  <2> HIDE DEF y, T, C
  <2>4. y \in Seq(T) /\ <<d>> \in Seq(T)  BY <2>2, <2>3
  <2>5. x = <<d>> \o y  BY <2>1 DEF y
  <2>6. /\ x \in Seq(T) /\ x # <<>> /\ x[1] = d /\ Tail(x) = y /\ Len(x) = Len(y) + 1
        /\ Len(y) \in Nat /\ \A k \in 1..Len(y) : x[k + 1] = y[k]
    BY <2>4, <2>5
  <2>7. x[Len(x)] # "cr"
    <3>1. CASE Len(y) = 0  BY <3>1, <2>3, <2>6
    <3>2. CASE Len(y) # 0
      <4>1. Len(y) \in 1..Len(y)  BY <3>2, <2>6
      <4>2. x[Len(y) + 1] = y[Len(y)] /\ y[Len(y)] \in C  BY <4>1, <2>2, <2>6
      <4>3. QED  BY <4>2, <2>3, <2>6
    <3>3. QED  BY <3>1, <3>2
  <2>8. WithoutCR(x) = x  BY <2>7 DEF WithoutCR
  <2>9. QED  BY <2>6, <2>8 DEF y, T
<1>3. QED  BY <1>1, <1>2

\* An answer more keeps a stream of whole answers.
LEMMA WholeMore ==
  ASSUME NEW s \in Seq(Units), WholeAnswers(s), AtEnd(s), NEW x \in Answers
  PROVE  WholeAnswers(s \o Append(x, "nl")) /\ AtEnd(s \o Append(x, "nl"))
<1> DEFINE p == Parts(s)
           t == Append(x, "nl")
           q == Parts(t)
           r == Parts(s \o t)
           T == Units \ {"nl"}
           m == Len(p)
<1>1. m \in Nat /\ m >= 1  BY PartsType
<1>2. "nl" \notin T /\ x \in Seq(T)  BY AnswerForm
<1>3. Len(q) = 2 /\ q[1] = x /\ q[2] = <<>>
  <2> HIDE DEF T
  <2>1. QED  BY <1>2, PartsLine
<1>4. t \in Seq(Units)
  <2>1. "nl" \in Units  BY DEF Units, Signs
  <2>2. x \in Seq(Units)  BY <1>2
  <2>3. QED  BY <2>1, <2>2
<1>5. Joined(p, q, r)
  <2> HIDE DEF t
  <2>1. QED  BY <1>4, PartsJoin
<1>6. \A k \in 1..(m - 1) : p[k] \in Answers  BY DEF WholeAnswers
<1>7. p[m] = <<>>  BY DEF AtEnd
<1>8. <<>> \o x = x  BY <1>2
<1> HIDE DEF p, q, r, T, m, t
<1>9. Len(r) = m + 1 /\ (\A k \in 1..(m - 1) : r[k] = p[k]) /\ r[m] = p[m] \o q[1] /\ r[m + 1] = <<>>
  <2>1. Len(r) = m + 2 - 1 /\ (\A k \in 1..(m - 1) : r[k] = p[k]) /\ r[m] = p[m] \o q[1]
    BY <1>3, <1>5 DEF Joined, m
  <2>2. 2 \in 2..Len(q) /\ m + 2 - 1 = m + 1  BY <1>1, <1>3
  <2>3. r[m + 2 - 1] = q[2]  BY <2>2, <1>5 DEF Joined, m
  <2>4. QED  BY <2>1, <2>2, <2>3, <1>3
<1>10. r[m] = x  BY <1>3, <1>7, <1>8, <1>9
<1>11. ASSUME NEW k \in 1..(Len(r) - 1)  PROVE r[k] \in Answers
  <2>1. k \in 1..(m - 1) \/ k = m  BY <1>1, <1>9
  <2>2. QED  BY <2>1, <1>6, <1>9, <1>10
<1>12. r[Len(r)] = <<>>  BY <1>9
<1>13. QED  BY <1>11, <1>12 DEF WholeAnswers, AtEnd, r, t

-----------------------------------------------------------------------------
(* The inductive invariant of a connection *)

\* The units that may be under way: no id of a call that was not made yet.
Sent == OneByte \cup Signs \cup {c \in Calls : calls[c].state # "new"}
CallRecords ==
  [state : {"new", "waiting", "refused", "late", "failed", "answered"}, text : Texts]

WireTypes ==
  /\ calls \in [Calls -> CallRecords]
  /\ closed \in BOOLEAN /\ attached \in BOOLEAN /\ serving \in BOOLEAN
WireUnits ==
  /\ heard \in Seq(Sent) /\ toClient \in Seq(Sent) /\ toDaemon \in Seq(Sent)
  /\ desk.text \in Seq(Sent) /\ tail \in Seq(Seq(Sent))
\* The client's reconstructor holds what the chunks it has read make in one piece.
WireEar == ear = Expect(heard) /\ (attached => ~Frames(heard).over)
\* What the daemon has written are whole answers.
WireStream == WholeAnswers(heard \o toClient) /\ (serving => AtEnd(heard \o toClient))
Got(c) == Mine(Frames(heard).whole, c) # {}
WireCalls ==
  \A c \in Calls : /\ calls[c].state = "answered" => Got(c) /\ calls[c].text = Reply[c]
                   /\ calls[c].state = "waiting" => ~Got(c) /\ attached /\ ~closed
                   /\ calls[c].state = "failed" => closed \/ (~Got(c) /\ ~attached)
WireInv == WireTypes /\ WireUnits /\ WireEar /\ WireStream /\ WireCalls

\* Sequences over a smaller set are sequences over a larger one.
LEMMA SeqMore ==
  ASSUME NEW S, NEW T, S \subseteq T
  PROVE  Seq(S) \subseteq Seq(T) /\ Seq(Seq(S)) \subseteq Seq(Seq(T))
<1>1. ASSUME NEW A, NEW B, A \subseteq B, NEW s \in Seq(A)  PROVE s \in Seq(B)  BY <1>1
<1>2. Seq(S) \subseteq Seq(T)  BY <1>1
<1>3. QED  BY <1>1, <1>2

\* What is sent consists of units.
LEMMA SentUnits ==  Sent \subseteq Units
BY DEF Sent, Units

\* The whole frames of a stream have its units.
LEMMA FramesType ==
  ASSUME NEW S, NEW s \in Seq(S)
  PROVE  /\ \A c : c \notin S => Mine(Frames(s).whole, c) = {}
         /\ Frames(s).over => Frames(s).over = TRUE
<1> DEFINE parts == Parts(s)
           large == TooLarge(parts)
           first == IF large = {} THEN Len(parts) ELSE Earliest(large)
           w == SubSeq(parts, 1, first - 1)
           T == S \ {"nl"}
<1>1. parts \in Seq(Seq(T)) /\ Len(parts) \in Nat /\ Len(parts) >= 1  BY PartsType
<1>2. Frames(s).whole = w /\ (Frames(s).over = (large # {}))  BY DEF Frames
<1>3. first \in 1..Len(parts)
  <2> HIDE DEF parts
  <2>1. large \subseteq 1..Len(parts) /\ large \subseteq Nat  BY DEF TooLarge
  <2> HIDE DEF large
  <2>2. CASE large = {}  BY <1>1, <2>2
  <2>3. CASE large # {}
    <3>1. Earliest(large) \in large  BY <2>1, <2>3, EarliestIs
    <3>2. QED  BY <2>1, <2>3, <3>1
  <2>4. QED  BY <2>2, <2>3
<1> HIDE DEF first, parts, large
<1>4. Len(w) \in Nat /\ \A k \in 1..Len(w) : w[k] \in Seq(T)  BY <1>1, <1>3
<1>5. ASSUME NEW c, c \notin S, NEW k \in Mine(w, c)  PROVE FALSE
  <2> HIDE DEF w
  <2>1. k \in 1..Len(w) /\ w[k] # <<>> /\ w[k][1] = c  BY <1>5 DEF Mine
  <2>2. w[k] \in Seq(T)  BY <2>1, <1>4
  <2>3. w[k][1] \in T  BY <2>1, <2>2
  <2>4. QED  BY <2>1, <2>3, <1>5
<1>6. QED  BY <1>2, <1>5

\* A new connection satisfies the invariant.
LEMMA WireStart ==  WireInit => WireInv
<1>1. SUFFICES ASSUME WireInit  PROVE WireInv  OBVIOUS
<1>2. heard = <<>> /\ toClient = <<>> /\ toDaemon = <<>> /\ tail = <<>> /\ ear = EmptyLine
      /\ desk = EmptyLine /\ closed = FALSE /\ attached = TRUE /\ serving = TRUE
      /\ calls = [c \in Calls |-> [state |-> "new", text |-> <<>>]]
  BY <1>1 DEF WireInit
<1>3. WireTypes
  <2>1. <<>> \in Texts  BY DEF Texts
  <2>2. [state |-> "new", text |-> <<>>] \in CallRecords  BY <2>1 DEF CallRecords
  <2>3. QED  BY <1>2, <2>2 DEF WireTypes
<1>4. WireUnits
  <2>1. <<>> \in Seq(Sent) /\ <<>> \in Seq(Seq(Sent))  OBVIOUS
  <2>2. desk.text = <<>>  BY <1>2 DEF EmptyLine
  <2>3. QED  BY <1>2, <2>1, <2>2 DEF WireUnits
<1> DEFINE one == << <<>> >>
<1>5. Len(one) = 1 /\ one[1] = <<>> /\ 1 \in Nat /\ 1 \in 1..1 /\ 1..(1 - 1) = {}  OBVIOUS
<1>6. Parts(<<>>) = one  BY PartsEmpty
<1> HIDE DEF one
<1>7. ~Large(<<>>)  BY BytesEmpty, WireAssumption DEF Large
<1>8. Frames(<<>>).rest = <<>> /\ ~Frames(<<>>).over
  BY <1>5, <1>6, <1>7, FramesAre
<1>9. WireEar
  <2>1. Expect(<<>>) = Open(<<>>)  BY <1>8 DEF Expect
  <2>2. QED  BY <1>2, <1>8, <2>1, EmptyIsOpen DEF WireEar
<1>10. WireStream
  <2>1. heard \o toClient = <<>>  BY <1>2
  <2>2. WholeAnswers(<<>>) /\ AtEnd(<<>>)  BY <1>5, <1>6 DEF WholeAnswers, AtEnd
  <2>3. QED  BY <2>1, <2>2 DEF WireStream
<1>11. WireCalls  BY <1>2 DEF WireCalls
<1>12. QED  BY <1>3, <1>4, <1>9, <1>10, <1>11 DEF WireInv

\* A call that is made, refused or queued keeps the invariant.
LEMMA AskStep ==
  ASSUME WireInv, NEW c \in Calls, Ask(c)
  PROVE  WireInv'
<1>1. WireTypes /\ WireUnits /\ WireEar /\ WireStream /\ WireCalls  BY DEF WireInv
<1>2. /\ calls[c].state = "new"
      /\ UNCHANGED <<closed, attached, serving, toClient, heard, ear, desk, tail>>
  BY DEF Ask
<1>3. PICK v \in {"refused", "waiting"} :
        /\ calls' = [calls EXCEPT ![c].state = v]
        /\ v = "waiting" => attached /\ ~closed
        /\ toDaemon' # toDaemon => v = "waiting" /\ toDaemon' = toDaemon \o <<c>> \o Question[c] \o <<"nl">>
  <2>1. CASE calls' = [calls EXCEPT ![c].state = "refused"] /\ toDaemon' = toDaemon  BY <2>1
  <2>2. CASE /\ ~closed /\ attached /\ calls' = [calls EXCEPT ![c].state = "waiting"]
             /\ toDaemon' = IF serving THEN toDaemon \o <<c>> \o Question[c] \o <<"nl">> ELSE toDaemon
    BY <2>2
  <2>3. QED  BY <2>1, <2>2 DEF Ask
<1>4. /\ calls' \in [Calls -> CallRecords] /\ calls'[c].state = v
      /\ \A d \in Calls : d # c => calls'[d] = calls[d]
  BY <1>1, <1>3 DEF WireTypes, CallRecords
<1>5. WireTypes'  BY <1>1, <1>2, <1>4 DEF WireTypes
<1>6. Sent \subseteq Sent' /\ c \in Sent' /\ c \notin Sent
  <2>1. v # "new"  OBVIOUS
  <2>2. c \notin OneByte \cup Signs  BY WireAssumption
  <2>3. QED  BY <1>2, <1>4, <2>1, <2>2 DEF Sent
<1>7. WireUnits'
  <2>1. Seq(Sent) \subseteq Seq(Sent') /\ Seq(Seq(Sent)) \subseteq Seq(Seq(Sent'))  BY <1>6, SeqMore
  <2>2. /\ heard' \in Seq(Sent') /\ toClient' \in Seq(Sent') /\ desk'.text \in Seq(Sent')
        /\ tail' \in Seq(Seq(Sent')) /\ toDaemon \in Seq(Sent')
    BY <1>1, <1>2, <2>1 DEF WireUnits
  <2>3. toDaemon' \in Seq(Sent')
    <3>1. Question[c] \in Seq(Sent')
      <4>1. OneByte \cup {"hi", "lo"} \subseteq Sent'  BY DEF Sent, Signs
      <4>2. Question[c] \in Seq(OneByte \cup {"hi", "lo"})  BY WireAssumption DEF Texts
      <4>3. QED  BY <4>1, <4>2, SeqMore
    <3>2. <<c>> \in Seq(Sent') /\ <<"nl">> \in Seq(Sent')
      <4>1. "nl" \in Sent'  BY DEF Sent, Signs
      <4>2. QED  BY <1>6, <4>1
    <3> DEFINE T == Sent'
    <3> HIDE DEF T
    <3>3. toDaemon \o <<c>> \o Question[c] \o <<"nl">> \in Seq(T)  BY <2>2, <3>1, <3>2 DEF T
    <3>4. QED  BY <1>3, <2>2, <3>3 DEF T
  <2>4. QED  BY <2>2, <2>3 DEF WireUnits
<1>8. WireEar'  BY <1>1, <1>2 DEF WireEar
<1>9. WireStream'  BY <1>1, <1>2 DEF WireStream
<1>10. ~Got(c)  BY <1>1, <1>6, FramesType DEF Got, WireUnits
<1>11. WireCalls'
  <2>1. ASSUME NEW d \in Calls
        PROVE  /\ calls'[d].state = "answered" => Got(d)' /\ calls'[d].text = Reply[d]
               /\ calls'[d].state = "waiting" => ~Got(d)' /\ attached' /\ ~closed'
               /\ calls'[d].state = "failed" => closed' \/ (~Got(d)' /\ ~attached')
    <3>1. Got(d)' <=> Got(d)  BY <1>2 DEF Got
    <3>2. CASE d # c  BY <1>1, <1>2, <1>4, <3>1, <3>2 DEF WireCalls
    <3>3. CASE d = c  BY <1>2, <1>3, <1>4, <1>10, <3>1, <3>3
    <3>4. QED  BY <3>2, <3>3
  <2>2. QED  BY <2>1 DEF WireCalls
<1>12. QED  BY <1>5, <1>7, <1>8, <1>9, <1>11 DEF WireInv

\* Calls that wait are given up, and nothing is read or written.
LEMMA RetireStep ==
  ASSUME WireInv, UNCHANGED <<serving, toDaemon, toClient, heard, ear, desk, tail>>,
         calls' \in [Calls -> CallRecords], closed' \in BOOLEAN, attached' \in BOOLEAN, attached' => attached,
         closed => closed',
         \A c \in Calls : \/ calls'[c] = calls[c]
                          \/ calls[c].state = "waiting" /\ calls'[c].state = "late"
                          \/ /\ calls[c].state = "waiting" /\ calls'[c].state = "failed"
                             /\ closed' \/ ~attached',
         \A c \in Calls : calls'[c].state = "waiting" => attached' /\ ~closed'
  PROVE  WireInv'
<1>1. WireTypes /\ WireUnits /\ WireEar /\ WireStream /\ WireCalls  BY DEF WireInv
<1>2. WireTypes'  BY <1>1 DEF WireTypes
<1>3. Sent' = Sent
  <2>1. \A c \in Calls : calls'[c].state # "new" <=> calls[c].state # "new"  OBVIOUS
  <2>2. QED  BY <2>1 DEF Sent
<1>4. WireUnits'  BY <1>1, <1>3 DEF WireUnits
<1>5. WireEar'  BY <1>1 DEF WireEar
<1>6. WireStream'  BY <1>1 DEF WireStream
<1>7. WireCalls'
  <2>1. ASSUME NEW d \in Calls
        PROVE  /\ calls'[d].state = "answered" => Got(d)' /\ calls'[d].text = Reply[d]
               /\ calls'[d].state = "waiting" => ~Got(d)' /\ attached' /\ ~closed'
               /\ calls'[d].state = "failed" => closed' \/ (~Got(d)' /\ ~attached')
    <3>1. Got(d)' <=> Got(d)  BY DEF Got
    <3>2. CASE calls'[d] = calls[d]  BY <1>1, <3>1, <3>2 DEF WireCalls
    <3>3. CASE calls'[d].state = "late"  BY <3>3
    <3>4. CASE calls[d].state = "waiting" /\ calls'[d].state = "failed" /\ (closed' \/ ~attached')
      BY <1>1, <3>1, <3>4 DEF WireCalls
    <3>5. QED  BY <3>2, <3>3, <3>4
  <2>2. QED  BY <2>1 DEF WireCalls
<1>8. QED  BY <1>2, <1>4, <1>5, <1>6, <1>7 DEF WireInv

\* A call that times out keeps the invariant.
LEMMA TimeoutStep ==
  ASSUME WireInv, NEW c \in Calls, AskTimesOut(c)
  PROVE  WireInv'
<1>1. WireTypes /\ WireCalls  BY DEF WireInv
<1>2. /\ calls[c].state = "waiting" /\ calls' = [calls EXCEPT ![c].state = "late"]
      /\ UNCHANGED <<closed, attached, serving, toDaemon, toClient, heard, ear, desk, tail>>
  BY DEF AskTimesOut, Waiting
<1>3. /\ calls' \in [Calls -> CallRecords] /\ calls'[c].state = "late"
      /\ \A d \in Calls : d # c => calls'[d] = calls[d]
  BY <1>1, <1>2 DEF WireTypes, CallRecords
<1>4. \A d \in Calls : calls'[d].state = "waiting" => attached' /\ ~closed'
  BY <1>1, <1>2, <1>3 DEF WireCalls
<1>5. closed' \in BOOLEAN /\ attached' \in BOOLEAN /\ (attached' => attached) /\ (closed => closed')
  BY <1>1, <1>2 DEF WireTypes
<1>6. QED  BY <1>2, <1>3, <1>4, <1>5, RetireStep

\* Failing every call leaves none waiting and touches no call that has ended.
LEMMA AllFail ==
  ASSUME WireInv
  PROVE  /\ FailAll \in [Calls -> CallRecords]
         /\ \A c \in Calls : /\ FailAll[c].state # "waiting"
                             /\ \/ FailAll[c] = calls[c]
                                \/ calls[c].state = "waiting" /\ FailAll[c].state = "failed"
<1>1. calls \in [Calls -> CallRecords]  BY DEF WireInv, WireTypes
<1>2. ASSUME NEW c \in Calls
      PROVE  /\ FailAll[c] \in CallRecords /\ FailAll[c].state # "waiting"
             /\ \/ FailAll[c] = calls[c]
                \/ calls[c].state = "waiting" /\ FailAll[c].state = "failed"
  <2>1. FailAll[c] = IF c \in Waiting THEN [calls[c] EXCEPT !.state = "failed"] ELSE calls[c]
    BY DEF FailAll
  <2>2. CASE c \in Waiting
    <3>1. FailAll[c] = [calls[c] EXCEPT !.state = "failed"] /\ calls[c].state = "waiting"
      BY <2>1, <2>2 DEF Waiting
    <3>2. calls[c] \in CallRecords  BY <1>1
    <3>3. QED  BY <3>1, <3>2 DEF CallRecords
  <2>3. CASE c \notin Waiting
    <3>1. FailAll[c] = calls[c] /\ calls[c].state # "waiting"  BY <2>1, <2>3 DEF Waiting
    <3>2. QED  BY <3>1, <1>1
  <2>4. QED  BY <2>2, <2>3
<1>3. FailAll = [c \in Calls |-> FailAll[c]]  BY DEF FailAll
<1>4. FailAll \in [Calls -> CallRecords]  BY <1>2, <1>3
<1>5. QED  BY <1>2, <1>4

\* The end of a connection keeps the invariant.
LEMMA DisconnectedStep ==
  ASSUME WireInv, Disconnected
  PROVE  WireInv'
<1>1. /\ attached' = FALSE /\ calls' = FailAll
      /\ UNCHANGED <<closed, serving, toDaemon, toClient, heard, ear, desk, tail>>
  BY DEF Disconnected
<1>2. closed \in BOOLEAN  BY DEF WireInv, WireTypes
<1>3. QED  BY <1>1, <1>2, AllFail, RetireStep

\* Closing the client keeps the invariant.
LEMMA CloseStep ==
  ASSUME WireInv, CloseClient
  PROVE  WireInv'
<1>1. /\ closed' = TRUE /\ calls' = IF attached THEN FailAll ELSE calls
      /\ UNCHANGED <<attached, serving, toDaemon, toClient, heard, ear, desk, tail>>
  BY DEF CloseClient
<1>2. attached \in BOOLEAN /\ calls \in [Calls -> CallRecords] /\ WireCalls  BY DEF WireInv, WireTypes
<1>3. CASE attached
  <2>1. calls' = FailAll  BY <1>1, <1>3
  <2>2. QED  BY <1>1, <1>2, <2>1, AllFail, RetireStep
<1>4. CASE ~attached
  <2>1. calls' = calls /\ \A c \in Calls : calls[c].state # "waiting"  BY <1>1, <1>2, <1>4 DEF WireCalls
  <2>2. QED  BY <1>1, <1>2, <2>1, RetireStep
<1>5. QED  BY <1>3, <1>4

\* The daemon reads, or writes whole answers, or loses the end of what it wrote.
LEMMA DaemonStep ==
  ASSUME WireInv, UNCHANGED <<calls, closed, attached, heard, ear>>, serving' \in BOOLEAN,
         toClient' \in Seq(Sent), toDaemon' \in Seq(Sent), desk'.text \in Seq(Sent), tail' \in Seq(Seq(Sent)),
         WholeAnswers(heard \o toClient'), serving' => AtEnd(heard \o toClient')
  PROVE  WireInv'
<1>1. WireTypes /\ WireUnits /\ WireEar /\ WireStream /\ WireCalls  BY DEF WireInv
<1>2. WireTypes'  BY <1>1 DEF WireTypes
<1>3. Sent' = Sent  BY DEF Sent
<1>4. WireUnits'  BY <1>1, <1>3 DEF WireUnits
<1>5. WireEar'  BY <1>1 DEF WireEar
<1>6. WireStream'  BY <1>1 DEF WireStream
<1>7. WireCalls'
  <2>1. \A d \in Calls : Got(d)' <=> Got(d)  BY DEF Got
  <2>2. QED  BY <1>1, <2>1 DEF WireCalls
<1>8. QED  BY <1>2, <1>4, <1>5, <1>6, <1>7 DEF WireInv

\* A sequence is what comes before a place and what comes after it.
LEMMA SplitAt ==
  ASSUME NEW S, NEW s \in Seq(S), NEW k \in 0..Len(s)
  PROVE  /\ SubSeq(s, 1, k) \in Seq(S) /\ SubSeq(s, k + 1, Len(s)) \in Seq(S)
         /\ JoinsTo(SubSeq(s, 1, k), SubSeq(s, k + 1, Len(s)), s)
<1>1. SubSeq(s, 1, k) \in Seq(S) /\ SubSeq(s, k + 1, Len(s)) \in Seq(S)  OBVIOUS
<1>2. Len(s) \in Nat /\ 1 \in 1..(Len(s) + 1) /\ k \in (1 - 1)..Len(s) /\ Len(s) \in k..Len(s)
  OBVIOUS
<1>3. SubSeq(s, 1, k) \o SubSeq(s, k + 1, Len(s)) = SubSeq(s, 1, Len(s))
  BY <1>2, ConcatAdjacentSubSeq
<1>4. SubSeq(s, 1, Len(s)) = s  BY SubSeqFull
<1>5. QED  BY <1>1, <1>3, <1>4 DEF JoinsTo

\* A stream that loses its end is still one of whole answers.
LEMMA CutStream ==
  ASSUME NEW S, NEW h \in Seq(S), NEW sent \in Seq(S), WholeAnswers(h \o sent), NEW v \in Cut(sent)
  PROVE  v \in Seq(S) /\ WholeAnswers(h \o v)
<1>1. PICK k \in 0..Len(sent) : v = SubSeq(sent, 1, k)  BY DEF Cut
<1> DEFINE w == SubSeq(sent, k + 1, Len(sent))
<1>2. v \in Seq(S) /\ w \in Seq(S) /\ sent = v \o w  BY <1>1, SplitAt DEF JoinsTo
<1> HIDE DEF w
<1>3. h \o v \in Seq(S) /\ (h \o v) \o w = h \o sent  BY <1>2, ConcatAssociative
<1> DEFINE hv == h \o v
<1> HIDE DEF hv
<1>4. hv \in Seq(S) /\ WholeAnswers(hv \o w)  BY <1>3 DEF hv
<1>5. WholeAnswers(hv)  BY <1>2, <1>4, WholePrefix
<1>6. QED  BY <1>2, <1>5 DEF hv

\* The connection is destroyed; some of what was sent, and then of one more answer, arrives.
LEMMA DestroyedStep ==
  ASSUME WireInv, UNCHANGED <<calls, closed, attached, heard, ear>>, NEW sent \in Seq(Sent),
         WholeAnswers(heard \o sent), Destroyed(sent), desk'.text \in Seq(Sent), tail' \in Seq(Seq(Sent))
  PROVE  WireInv'
<1>1. serving' = FALSE /\ toDaemon' = <<>> /\ toClient' \in Cut(sent)  BY DEF Destroyed
<1>2. heard \in Seq(Sent)  BY DEF WireInv, WireUnits
<1>3. toClient' \in Seq(Sent) /\ WholeAnswers(heard \o toClient')  BY <1>1, <1>2, CutStream
<1>4. toDaemon' \in Seq(Sent)  BY <1>1
<1>5. QED  BY <1>1, <1>3, <1>4, DaemonStep

\* A sequence of two members.
LEMMA Two ==
  ASSUME NEW a, NEW b
  PROVE  Append(<<a>>, b) = <<a, b>>
<1> DEFINE W == {a, b}
           s == Append(<<a>>, b)
           t == <<a, b>>
           one == <<a>>
<1>1. t \in Seq(W) /\ Len(t) = 2 /\ t[1] = a /\ t[2] = b  OBVIOUS
<1>2. one \in Seq(W) /\ b \in W /\ Len(one) = 1 /\ one[1] = a  OBVIOUS
<1>3. s \in Seq(W) /\ Len(s) = 2 /\ s[1] = a /\ s[2] = b
  <2> HIDE DEF one, W
  <2> DEFINE o == Append(one, b)
  <2> HIDE DEF o
  <2>1. /\ o \in Seq(W) /\ Len(o) = Len(one) + 1 /\ o[Len(one) + 1] = b
        /\ \A i \in 1..Len(one) : o[i] = one[i]
    BY <1>2 DEF o
  <2>2. Len(one) + 1 = 2 /\ 1 \in 1..Len(one)  BY <1>2
  <2>3. o \in Seq(W) /\ Len(o) = 2 /\ o[1] = a /\ o[2] = b  BY <1>2, <2>1, <2>2
  <2>4. QED  BY <2>3 DEF o, one
<1> HIDE DEF W, s, t
<1>4. \A i \in 1..Len(s) : s[i] = t[i]
  <2>1. \A i \in 1..2 : i = 1 \/ i = 2  OBVIOUS
  <2>2. QED  BY <1>1, <1>3, <2>1
<1>5. s = t  BY <1>1, <1>3, <1>4, SeqEqual
<1>6. QED  BY <1>5 DEF s, t

Regroups(a, b, c) == (a \o b) \o c = a \o (b \o c)

\* Concatenation is associative.
LEMMA Regroup ==
  ASSUME NEW S, NEW a \in Seq(S), NEW b \in Seq(S), NEW c \in Seq(S)
  PROVE  b \o c \in Seq(S) /\ Regroups(a, b, c)
BY ConcatAssociative DEF Regroups

\* The daemon reading a chunk keeps the invariant.
LEMMA ReadRequestsStep ==
  ASSUME WireInv, NEW n \in 1..Len(toDaemon), NEW room \in 0..(MaxAdmitted - Len(tail)), ReadRequests(n, room)
  PROVE  WireInv'
<1> DEFINE chunk == SubSeq(toDaemon, 1, n)
           pushed == Push(desk, chunk)
           ls == pushed.lines
           upto == IF Len(ls) > room THEN room ELSE Len(ls)
           taken == IF pushed.line.over THEN <<>> ELSE SubSeq(ls, 1, upto)
           T == Seq(Sent)
<1>1. /\ serving /\ desk' = pushed.line /\ tail' = tail \o taken
      /\ UNCHANGED <<calls, closed, attached, heard, ear>>
  BY DEF ReadRequests
<1>2. \/ Destroyed(toClient \o <<"?", "nl">>)
      \/ Destroyed(toClient)
      \/ toDaemon' = SubSeq(toDaemon, n + 1, Len(toDaemon)) /\ UNCHANGED <<serving, toClient>>
  BY DEF ReadRequests
<1>3. /\ heard \in T /\ toClient \in T /\ toDaemon \in T /\ desk.text \in T /\ tail \in Seq(T)
      /\ serving \in BOOLEAN /\ WholeAnswers(heard \o toClient)
      /\ serving => AtEnd(heard \o toClient)
  BY DEF WireInv, WireUnits, WireTypes, WireStream
<1>4. n \in 0..Len(toDaemon) /\ chunk \in T /\ SubSeq(toDaemon, n + 1, Len(toDaemon)) \in T
  <2>1. n \in 0..Len(toDaemon)  OBVIOUS
  <2>2. QED  BY <1>3, <2>1, SplitAt
<1>5. pushed.line.text \in T /\ ls \in Seq(T)
  <2> HIDE DEF chunk
  <2>1. QED  BY <1>3, <1>4, PushType
<1>6. tail' \in Seq(T)
  <2> HIDE DEF T, ls, pushed
  <2>1. room \in Int /\ Len(ls) \in Nat  BY <1>3, <1>5, WireAssumption
  <2>2. upto \in Int /\ upto <= Len(ls)  BY <2>1
  <2> HIDE DEF upto
  <2>3. SubSeq(ls, 1, upto) \in Seq(T)  BY <1>5, <2>1, <2>2
  <2>4. taken \in Seq(T)  BY <2>3
  <2> HIDE DEF taken
  <2>5. QED  BY <1>1, <1>3, <2>4
<1>7. desk'.text \in T  BY <1>1, <1>5
<1> HIDE DEF chunk, pushed, ls, upto, taken
<1>8. CASE Destroyed(toClient \o <<"?", "nl">>)
  <2> DEFINE x == <<"?">>
             sent == toClient \o <<"?", "nl">>
             hc == heard \o toClient
  <2>1. x \in Answers  BY DEF Answers
  <2>2. hc \in T /\ T \subseteq Seq(Units)
    <3>1. hc \in T  BY <1>3
    <3>2. QED  BY <3>1, SentUnits, SeqMore
  <2>3. Append(x, "nl") = <<"?", "nl">>  BY Two
  <2>4. "?" \in Sent /\ "nl" \in Sent  BY DEF Sent, Signs
  <2>5. <<"?", "nl">> \in T  BY <2>4
  <2> DEFINE y == <<"?", "nl">>
  <2> HIDE DEF y
  <2>6. hc \o <<"?", "nl">> = heard \o sent /\ sent \in T
    <3>1. y \in T  BY <2>5 DEF y
    <3>2. toClient \o y \in T  BY <1>3, <3>1
    <3>3. Regroups(heard, toClient, y)  BY <1>3, <3>1, Regroup
    <3>4. (heard \o toClient) \o y = heard \o (toClient \o y)  BY ONLY <3>3 DEF Regroups
    <3>5. QED  BY <3>2, <3>4 DEF y
  <2>7. WholeAnswers(hc \o Append(x, "nl"))
    <3> HIDE DEF x, hc
    <3>1. hc \in Seq(Units) /\ WholeAnswers(hc) /\ AtEnd(hc)  BY <1>1, <1>3, <2>2 DEF hc
    <3>2. QED  BY <2>1, <3>1, WholeMore
  <2>8. WholeAnswers(heard \o sent)  BY <2>3, <2>6, <2>7
  <2>9. Destroyed(sent)  BY <1>8
  <2> HIDE DEF sent
  <2>10. QED  BY <1>1, <1>6, <1>7, <2>6, <2>8, <2>9, DestroyedStep DEF T
<1>9. CASE Destroyed(toClient)  BY <1>1, <1>3, <1>6, <1>7, <1>9, DestroyedStep DEF T
<1>10. CASE toDaemon' = SubSeq(toDaemon, n + 1, Len(toDaemon)) /\ UNCHANGED <<serving, toClient>>
  <2>1. toDaemon' \in T  BY <1>4, <1>10
  <2>2. QED  BY <1>1, <1>3, <1>6, <1>7, <1>10, <2>1, DaemonStep DEF T
<1>11. QED  BY <1>2, <1>8, <1>9, <1>10

\* What the daemon answers a line with.
LEMMA ResponseIs ==
  ASSUME NEW line \in Seq(Sent)
  PROVE  \E x \in Answers : Response(line) = Append(x, "nl") /\ Append(x, "nl") \in Seq(Sent)
<1>0. "?" \in Sent /\ "nl" \in Sent /\ OneByte \cup {"hi", "lo"} \subseteq Sent  BY DEF Sent, Signs
<1>1. CASE line # <<>> /\ line[1] \in Calls
  <2> DEFINE c == line[1]
             x == <<c>> \o Reply[c]
  <2>1. Response(line) = x \o <<"nl">>  BY <1>1 DEF Response
  <2>2. c \in Sent /\ c \in Calls  BY <1>1
  <2>3. x \in Answers  BY <2>2 DEF Answers
  <2>4. Reply[c] \in Seq(Sent)
    <3>1. Reply[c] \in Seq(OneByte \cup {"hi", "lo"})  BY <2>2, WireAssumption DEF Texts
    <3>2. QED  BY <1>0, <3>1, SeqMore
  <2>5. x \in Seq(Sent)
    <3> HIDE DEF c
    <3>1. <<c>> \in Seq(Sent)  BY <2>2
    <3>2. QED  BY <2>4, <3>1
  <2> HIDE DEF x, c
  <2>6. Append(x, "nl") = x \o <<"nl">> /\ Append(x, "nl") \in Seq(Sent)  BY <1>0, <2>5, AppendIsConcat
  <2>7. QED  BY <2>1, <2>3, <2>6
<1>2. CASE ~(line # <<>> /\ line[1] \in Calls)
  <2> DEFINE x == <<"?">>
  <2>1. Response(line) = <<"?", "nl">>  BY <1>2 DEF Response
  <2>2. Append(x, "nl") = <<"?", "nl">>  BY Two
  <2>3. x \in Answers  BY DEF Answers
  <2>4. <<"?", "nl">> \in Seq(Sent)  BY <1>0
  <2> HIDE DEF x
  <2>5. QED  BY <2>1, <2>2, <2>3, <2>4
<1>3. QED  BY <1>1, <1>2

\* The daemon handling a line keeps the invariant.
LEMMA HandleLineStep ==
  ASSUME WireInv, HandleLine
  PROVE  WireInv'
<1> DEFINE T == Seq(Sent)
           frame == Response(Head(tail))
<1>1. /\ tail # <<>> /\ tail' = Tail(tail) /\ Respond(frame)
      /\ UNCHANGED <<calls, closed, attached, heard, ear, desk>>
  BY DEF HandleLine
<1>2. /\ heard \in T /\ toClient \in T /\ toDaemon \in T /\ desk.text \in T /\ tail \in Seq(T)
      /\ serving \in BOOLEAN /\ WholeAnswers(heard \o toClient)
      /\ serving => AtEnd(heard \o toClient)
  BY DEF WireInv, WireUnits, WireTypes, WireStream
<1>3. Head(tail) \in T /\ tail' \in Seq(T)
  <2> HIDE DEF T
  <2>1. QED  BY <1>1, <1>2, HeadTailProperties
<1>4. desk'.text \in T  BY <1>1, <1>2
<1>5. PICK x \in Answers : frame = Append(x, "nl") /\ frame \in T  BY <1>3, ResponseIs
<1> HIDE DEF frame
<1>6. CASE serving /\ toClient' = toClient \o frame /\ UNCHANGED <<serving, toDaemon>>
  <2> DEFINE hc == heard \o toClient
  <2>1. hc \in T /\ hc \in Seq(Units)
    <3>1. hc \in T  BY <1>2
    <3>2. QED  BY <3>1, SentUnits, SeqMore
  <2>2. hc \o frame = heard \o toClient' /\ toClient' \in T
    <3>1. toClient \o frame \in T  BY <1>2, <1>5
    <3>2. Regroups(heard, toClient, frame)  BY <1>2, <1>5, Regroup
    <3>3. (heard \o toClient) \o frame = heard \o (toClient \o frame)  BY ONLY <3>2 DEF Regroups
    <3>4. QED  BY <3>1, <3>3, <1>6
  <2>3. WholeAnswers(hc) /\ AtEnd(hc)  BY <1>2, <1>6
  <2> HIDE DEF hc
  <2>4. WholeAnswers(hc \o frame) /\ AtEnd(hc \o frame)  BY <1>5, <2>1, <2>3, WholeMore
  <2>5. WholeAnswers(heard \o toClient') /\ AtEnd(heard \o toClient')  BY <2>2, <2>4
  <2>6. serving' \in BOOLEAN /\ toDaemon' \in T  BY <1>2, <1>6
  <2>7. QED  BY <1>1, <1>3, <1>4, <2>2, <2>5, <2>6, DaemonStep DEF T
<1>7. CASE Destroyed(toClient)  BY <1>1, <1>2, <1>3, <1>4, <1>7, DestroyedStep DEF T
<1>8. CASE ~serving /\ UNCHANGED <<serving, toDaemon, toClient>>
  BY <1>1, <1>2, <1>3, <1>4, <1>8, DaemonStep DEF T
<1>9. QED  BY <1>1, <1>6, <1>7, <1>8 DEF Respond

\* The daemon's end of a connection keeps the invariant.
LEMMA ServerEndsStep ==
  ASSUME WireInv, ServerEnds
  PROVE  WireInv'
<1>1. Destroyed(toClient) /\ UNCHANGED <<calls, closed, attached, heard, ear, desk, tail>>
  BY DEF ServerEnds
<1>2. /\ toClient \in Seq(Sent) /\ desk.text \in Seq(Sent) /\ tail \in Seq(Seq(Sent))
      /\ WholeAnswers(heard \o toClient)
  BY DEF WireInv, WireUnits, WireStream
<1>3. QED  BY <1>1, <1>2, DestroyedStep

\* The client reading a chunk keeps the invariant.
LEMMA OnDataStep ==
  ASSUME WireInv, NEW n \in 1..Len(toClient), OnData(n)
  PROVE  WireInv'
<1> DEFINE t == SubSeq(toClient, 1, n)
           u == SubSeq(toClient, n + 1, Len(toClient))
           pushed == Push(ear, t)
           ls == pushed.lines
           settled == Settled(ls)
           r == Parts(heard \o t)
<1>1. WireTypes /\ WireUnits /\ WireEar /\ WireStream /\ WireCalls  BY DEF WireInv
<1>2. /\ attached /\ toClient' = u /\ heard' = heard \o t /\ ear' = pushed.line
      /\ attached' = ~pushed.line.over
      /\ calls' = [c \in Calls |-> IF pushed.line.over /\ settled[c].state = "waiting"
                                     THEN [settled[c] EXCEPT !.state = "failed"] ELSE settled[c]]
      /\ UNCHANGED <<closed, serving, toDaemon, desk, tail>>
  BY DEF OnData
<1>3. heard \in Seq(Sent) /\ toClient \in Seq(Sent)  BY <1>1 DEF WireUnits
<1>4. t \in Seq(Sent) /\ u \in Seq(Sent) /\ toClient = t \o u
  <2>1. n \in 0..Len(toClient)  OBVIOUS
  <2>2. QED  BY <1>3, <2>1, SplitAt DEF JoinsTo
<1> HIDE DEF t, u
<1>5. heard' \in Seq(Sent) /\ heard' \o toClient' = heard \o toClient
  <2>1. Regroups(heard, t, u)  BY <1>3, <1>4, Regroup
  <2>2. (heard \o t) \o u = heard \o (t \o u)  BY ONLY <2>1 DEF Regroups
  <2>3. heard \o t \in Seq(Sent)  BY <1>3, <1>4
  <2>4. QED  BY <1>2, <1>4, <2>2, <2>3
<1>6. WholeAnswers(heard')
  <2>1. WholeAnswers(heard' \o u)  BY <1>1, <1>2, <1>5 DEF WireStream
  <2>2. QED  BY <1>4, <1>5, <2>1, WholePrefix
<1>7. \A k \in 1..(Len(r) - 1) : r[k] \in Answers
  <2>1. r = Parts(heard')  BY <1>2
  <2> HIDE DEF r
  <2>2. QED  BY <1>6, <2>1 DEF WholeAnswers
<1>8. ~Frames(heard).over /\ ear = Open(Frames(heard).rest)  BY <1>1, <1>2 DEF WireEar, Expect
<1>9. /\ pushed.line = Expect(heard \o t) /\ ls \in Seq(Seq(Sent))
      /\ \A i \in 1..Len(ls) : \E k \in 1..(Len(r) - 1) : ls[i] = r[k]
      /\ \A c : Mine(Frames(heard \o t).whole, c) # {} <=>
                  (Mine(Frames(heard).whole, c) # {} \/ Mine(ls, c) # {})
  <2>1. Plain(r)  BY <1>7, AnswerForm DEF Plain
  <2>2. pushed = Push(Open(Frames(heard).rest), t)  BY <1>8
  <2> DEFINE st == heard \o t
  <2>3. JoinsTo(heard, t, st)  BY DEF JoinsTo
  <2> HIDE DEF pushed, r, st
  <2>4. r = Parts(st)  BY DEF r, st
  <2>5. ReadsOn(Sent, heard, st, r, pushed)
    BY <1>3, <1>4, <1>8, <2>1, <2>2, <2>3, <2>4, FramesGrow
  <2>6. QED  BY <2>5 DEF ReadsOn, st
<1>10. \A i \in 1..Len(ls) : ls[i] \in Answers  BY <1>7, <1>9
<1> HIDE DEF pushed, r, ls, settled
<1>11. \A c \in Calls : Got(c)' <=> (Got(c) \/ Mine(ls, c) # {})  BY <1>2, <1>9 DEF Got
<1>12. ear' = Expect(heard') /\ (attached' <=> ~Frames(heard').over) /\ attached' \in BOOLEAN
  <2>1. ear' = Expect(heard')  BY <1>2, <1>9
  <2>2. ear'.over <=> Frames(heard').over
    <3>1. CASE Frames(heard').over  BY <2>1, <3>1 DEF Expect, Overflow
    <3>2. CASE ~Frames(heard').over  BY <2>1, <3>2 DEF Expect, Open
    <3>3. QED  BY <3>1, <3>2
  <2>3. attached' = ~ear'.over  BY <1>2
  <2>4. QED  BY <2>1, <2>2, <2>3
<1>13. WireEar'  BY <1>12 DEF WireEar
<1>14. WireStream'  BY <1>1, <1>2, <1>5 DEF WireStream
<1>15. ASSUME NEW c \in Calls
       PROVE  /\ calls'[c] \in CallRecords /\ (calls'[c].state = "new" <=> calls[c].state = "new")
              /\ calls'[c].state = "answered" => Got(c)' /\ calls'[c].text = Reply[c]
              /\ calls'[c].state = "waiting" => ~Got(c)' /\ attached' /\ ~closed'
              /\ calls'[c].state = "failed" => closed' \/ (~Got(c)' /\ ~attached')
  <2>1. calls[c] \in CallRecords  BY <1>1 DEF WireTypes
  <2>2. calls'[c] = IF pushed.line.over /\ settled[c].state = "waiting"
                      THEN [settled[c] EXCEPT !.state = "failed"] ELSE settled[c]
    BY <1>2
  <2>3. settled[c] = IF c \in Waiting /\ Mine(ls, c) # {}
                       THEN [state |-> "answered", text |-> Tail(ls[Earliest(Mine(ls, c))])]
                       ELSE calls[c]
    BY DEF settled, Settled
  <2>4. CASE c \in Waiting /\ Mine(ls, c) # {}
    <3> DEFINE k == Earliest(Mine(ls, c))
    <3>1. k \in Mine(ls, c)
      <4>1. Mine(ls, c) \subseteq Nat  BY DEF Mine
      <4>2. QED  BY <4>1, <2>4, EarliestIs
    <3> HIDE DEF k
    <3>2. k \in 1..Len(ls) /\ ls[k][1] = c  BY <3>1 DEF Mine
    <3>3. Tail(ls[k]) = Reply[c]  BY <1>10, <3>2, AnswerForm
    <3>4. Reply[c] \in Texts  BY WireAssumption
    <3>5. settled[c] = [state |-> "answered", text |-> Reply[c]]  BY <2>3, <2>4, <3>3 DEF k
    <3>6. calls'[c] = [state |-> "answered", text |-> Reply[c]]  BY <2>2, <3>5
    <3>7. calls[c].state = "waiting"  BY <2>4 DEF Waiting
    <3>8. Got(c)'  BY <1>11, <2>4
    <3>9. QED  BY <3>4, <3>6, <3>7, <3>8 DEF CallRecords
  <2>5. CASE c \in Waiting /\ Mine(ls, c) = {} /\ pushed.line.over
    <3>1. settled[c] = calls[c] /\ calls[c].state = "waiting"  BY <2>3, <2>5 DEF Waiting
    <3>2. calls'[c] = [calls[c] EXCEPT !.state = "failed"]  BY <2>2, <2>5, <3>1
    <3>3. calls'[c] \in CallRecords /\ calls'[c].state = "failed"  BY <2>1, <3>2 DEF CallRecords
    <3>4. ~Got(c)  BY <1>1, <3>1 DEF WireCalls
    <3>5. ~Got(c)' /\ ~attached'  BY <1>2, <1>11, <2>5, <3>4
    <3>6. QED  BY <3>1, <3>3, <3>5
  <2>6. CASE c \in Waiting /\ Mine(ls, c) = {} /\ ~pushed.line.over
    <3>1. settled[c] = calls[c] /\ calls[c].state = "waiting"  BY <2>3, <2>6 DEF Waiting
    <3>2. calls'[c] = calls[c]  BY <2>2, <2>6, <3>1
    <3>3. attached' /\ closed' = closed  BY <1>2, <2>6
    <3>4. ~Got(c) /\ ~closed  BY <1>1, <3>1 DEF WireCalls
    <3>5. ~Got(c)'  BY <1>11, <2>6, <3>4
    <3>6. QED  BY <2>1, <3>1, <3>2, <3>3, <3>4, <3>5
  <2>7. CASE c \notin Waiting
    <3>1. settled[c] = calls[c] /\ calls[c].state # "waiting"  BY <2>3, <2>7 DEF Waiting
    <3>2. calls'[c] = calls[c]  BY <2>2, <3>1
    <3>3. calls[c].state = "answered" => Got(c) /\ calls[c].text = Reply[c]  BY <1>1 DEF WireCalls
    <3>4. Got(c) => Got(c)'  BY <1>11
    <3>5. calls[c].state = "failed" => closed'  BY <1>1, <1>2 DEF WireCalls
    <3>6. QED  BY <2>1, <3>1, <3>2, <3>3, <3>4, <3>5
  <2>8. QED  BY <2>4, <2>5, <2>6, <2>7
<1>16. WireTypes'
  <2>1. calls' = [c \in Calls |-> calls'[c]]  BY <1>2
  <2>2. calls' \in [Calls -> CallRecords]  BY <1>15, <2>1
  <2>3. QED  BY <1>1, <1>2, <1>12, <2>2 DEF WireTypes
<1>17. Sent' = Sent  BY <1>15 DEF Sent
<1>18. WireUnits'  BY <1>1, <1>2, <1>4, <1>5, <1>17 DEF WireUnits
<1>19. WireCalls'  BY <1>15 DEF WireCalls
<1>20. QED  BY <1>13, <1>14, <1>16, <1>18, <1>19 DEF WireInv

\* Every step keeps the invariant.
LEMMA WireStep ==
  ASSUME WireInv, [WireNext]_wireVars
  PROVE  WireInv'
<1>1. CASE UNCHANGED wireVars
  <2>1. UNCHANGED <<calls, closed, attached, serving, toDaemon, toClient, heard, ear, desk, tail>>
    BY <1>1 DEF wireVars
  <2>2. Sent' = Sent /\ \A c : Got(c)' <=> Got(c)  BY <2>1 DEF Sent, Got
  <2>3. QED
    BY <2>1, <2>2 DEF WireInv, WireTypes, WireUnits, WireEar, WireStream, WireCalls
<1>2. CASE WireNext
  <2>1. CASE \E c \in Calls : Ask(c) \/ AskTimesOut(c)  BY <2>1, AskStep, TimeoutStep
  <2>2. CASE \E n \in 1..Len(toClient) : OnData(n)  BY <2>2, OnDataStep
  <2>3. CASE \E n \in 1..Len(toDaemon), room \in 0..(MaxAdmitted - Len(tail)) : ReadRequests(n, room)
    BY <2>3, ReadRequestsStep
  <2>4. CASE Disconnected  BY <2>4, DisconnectedStep
  <2>5. CASE CloseClient  BY <2>5, CloseStep
  <2>6. CASE HandleLine  BY <2>6, HandleLineStep
  <2>7. CASE ServerEnds  BY <2>7, ServerEndsStep
  <2>8. QED  BY <1>2, <2>1, <2>2, <2>3, <2>4, <2>5, <2>6, <2>7 DEF WireNext
<1>3. QED  BY <1>1, <1>2

\* The invariant contains the property.
LEMMA WireSays ==  WireInv => AnswersExact
<1>1. SUFFICES ASSUME WireInv  PROVE AnswersExact  OBVIOUS
<1>2. ear = Expect(heard) /\ WireCalls  BY <1>1 DEF WireInv, WireEar
<1> DEFINE frames == Frames(heard)
<1>3. frames.over \in BOOLEAN  BY DEF Frames
<1>4. \A c : Got(c) <=> Mine(frames.whole, c) # {}  BY DEF Got
<1> HIDE DEF frames
<1>5. ear = IF frames.over THEN Overflow ELSE Open(frames.rest)  BY <1>2 DEF Expect, frames
<1>6. ear.over = frames.over /\ (~frames.over => ear.text = frames.rest /\ ear.bytes = ByteLength(frames.rest))
  <2>1. CASE frames.over
    <3>1. ear.over = TRUE  BY <1>5, <2>1 DEF Overflow
    <3>2. QED  BY <1>3, <2>1, <3>1
  <2>2. CASE ~frames.over
    <3>1. ear.over = FALSE /\ ear.text = frames.rest /\ ear.bytes = ByteLength(frames.rest)
      BY <1>5, <2>2 DEF Open
    <3>2. QED  BY <1>3, <2>2, <3>1
  <2>3. QED  BY <2>1, <2>2
<1>7. \A c \in Calls : /\ calls[c].state = "answered" => Mine(frames.whole, c) # {} /\ calls[c].text = Reply[c]
                       /\ calls[c].state = "waiting" => ~(Mine(frames.whole, c) # {}) /\ attached /\ ~closed
                       /\ calls[c].state = "failed" => closed \/ (~(Mine(frames.whole, c) # {}) /\ ~attached)
  BY <1>2, <1>4 DEF WireCalls
<1>8. QED  BY <1>6, <1>7 DEF AnswersExact, frames

\* The inductive invariant of a connection (client.ts, server.ts, jsonl.ts): the client's line
\* reconstructor holds what the chunks make in one piece, the daemon has written whole answers,
\* and no unit under way is the id of a call that was not made yet.
THEOREM WireCorrect ==  WireSpec => []WireInv
<1>1. WireInit => WireInv  BY WireStart
<1>2. WireInv /\ [WireNext]_wireVars => WireInv'  BY WireStep
<1>3. QED  BY <1>1, <1>2, PTL DEF WireSpec

\* However the socket cuts the stream, a client has handled exactly the answers among the whole
\* frames it has read (client.ts onData, jsonl.ts push): for every set of calls, every question
\* and answer, every frame limit, and any number of chunks.
THEOREM AnswersAlwaysExact ==  WireSpec => []AnswersExact
<1>1. WireInv => AnswersExact  BY WireSays
<1>2. QED  BY <1>1, WireCorrect, PTL

-----------------------------------------------------------------------------
(* Migration *)

RowHashes == {Hash(row) : row \in Rows}
\* The names a session or project may have before or after a migration.
Names == {row[1] : row \in Rows}
         \cup UNION {{Mapping[id][p] : p \in DOMAIN Mapping[id]} : id \in Identities}
Ids == Identities \cup {"none"}
Written == SUBSET (Rows \X (Ids \cup {"name"}) \X Names)

MigratorType ==
  [pc : {"idle", "check", "copy", "map", "mark", "rename", "finally", "end"}, id : Ids,
   rows : Written, objects : SUBSET RowHashes, result : {"none", "error", "already", "migrated"}]
TargetType ==
  [kind : {"absent", "empty", "live", "migrated"}, id : Ids, rows : Written,
   objects : SUBSET RowHashes]

\* Where the state lies; nobody migrates before there is a legacy store.
MigrationTypeOK ==
  /\ legacy \subseteq RowHashes /\ target \in TargetType
  /\ migrators \in [Migrators -> MigratorType]
  /\ store = "none" => target.kind = "absent" /\ \A m \in Migrators : migrators[m].pc = "idle"

\* A copy that has everything the invocation owes.
Complete(id, rows, objects) ==
  rows = {Owed(id, row) : row \in Rows} /\ RowHashes \subseteq objects

\* What an invocation has in its stage when it is at pc.
Staged(mig) ==
  /\ mig.pc = "idle" => mig = Idle
  /\ mig.pc # "idle" => mig.id \in Identities
  /\ mig.pc = "check" => mig.rows = {} /\ mig.objects = {}
  /\ (mig.pc = "copy" /\ store = "rtk") =>
       \A r \in mig.rows : \E row \in Rows : r = Owed(mig.id, row) /\ Hash(row) \in mig.objects
  /\ mig.pc = "map" =>
       /\ store = "headroom" /\ RowHashes \subseteq mig.objects
       /\ mig.rows = {<<row, "name", row[1]>> : row \in Rows}
  /\ mig.pc \in {"mark", "rename"} => Complete(mig.id, mig.rows, mig.objects)

\* An invocation that reports success finds its own at the target.
Reported(mig) ==
  mig.result \in {"migrated", "already"} => target.kind = "migrated" /\ target.id = mig.id

MigrationInv ==
  /\ MigrationTypeOK
  /\ \A m \in Migrators : Staged(migrators[m]) /\ Reported(migrators[m])
  /\ target.kind = "migrated" => Complete(target.id, target.rows, target.objects)

-----------------------------------------------------------------------------
\* The fields of an invocation in the types they have.
LEMMA MigratorFacts ==
  ASSUME MigrationInv, NEW m \in Migrators
  PROVE  migrators[m] \in MigratorType /\ Staged(migrators[m]) /\ Reported(migrators[m])
  BY DEF MigrationInv, MigrationTypeOK

\* A step of one invocation m, which becomes mig, while the store and the target stay.
LEMMA InvocationStep ==
  ASSUME MigrationInv, NEW m \in Migrators, NEW mig \in MigratorType,
         migrators' = [migrators EXCEPT ![m] = mig], UNCHANGED <<store, legacy, target>>,
         store # "none", Staged(mig), Reported(mig)
  PROVE  MigrationInv'
<1>1. MigrationTypeOK'  BY DEF MigrationInv, MigrationTypeOK
<1>2. ASSUME NEW n \in Migrators  PROVE (Staged(migrators[n]) /\ Reported(migrators[n]))'
  <2>1. migrators'[n] = IF n = m THEN mig ELSE migrators[n]  BY DEF MigrationInv, MigrationTypeOK
  <2>2. Staged(migrators'[n]) /\ Reported(migrators'[n])  BY <2>1 DEF MigrationInv
  <2>3. QED  BY <2>2 DEF Staged, Reported, Complete, Owed
<1>3. (target.kind = "migrated" => Complete(target.id, target.rows, target.objects))'
  BY DEF MigrationInv, Complete, Owed
<1>4. QED  BY <1>1, <1>2, <1>3 DEF MigrationInv

\* Ending with an error, or with a success that is at the target.
LEMMA ConcludeStep ==
  ASSUME MigrationInv, NEW m \in Migrators, NEW result \in {"error", "already"},
         migrators[m].pc # "idle", Conclude(m, result), UNCHANGED <<store, legacy, target>>,
         result = "already" => target.kind = "migrated" /\ target.id = migrators[m].id
  PROVE  MigrationInv'
<1> DEFINE mig == [migrators[m] EXCEPT !.pc = "finally", !.result = result]
<1>1. migrators[m] \in MigratorType /\ Staged(migrators[m])  BY MigratorFacts
<1>2. migrators' = [migrators EXCEPT ![m] = mig]  BY DEF Conclude
<1>3. mig \in MigratorType /\ mig.pc = "finally" /\ mig.id = migrators[m].id /\ mig.result = result
  BY <1>1 DEF MigratorType
<1>4. Staged(mig) /\ Reported(mig)  BY <1>1, <1>3 DEF Staged, Reported
<1>5. store # "none"  BY DEF MigrationInv, MigrationTypeOK
<1> HIDE DEF mig
<1>6. QED  BY <1>2, <1>3, <1>4, <1>5, InvocationStep

\* An invocation that goes on with the stage its next step needs keeps the invariant.
LEMMA MoveStep ==
  ASSUME MigrationInv, NEW m \in Migrators, migrators[m].pc # "idle",
         NEW pc \in {"copy", "mark", "rename", "end"}, Move(m, pc),
         UNCHANGED <<store, legacy, target>>, Staged([migrators[m] EXCEPT !.pc = pc])
  PROVE  MigrationInv'
<1> DEFINE mig == [migrators[m] EXCEPT !.pc = pc]
<1>1. migrators[m] \in MigratorType /\ Reported(migrators[m])  BY MigratorFacts
<1>2. migrators' = [migrators EXCEPT ![m] = mig]  BY DEF Move
<1>3. mig \in MigratorType /\ mig.id = migrators[m].id /\ mig.result = migrators[m].result
  BY <1>1 DEF MigratorType
<1>4. Staged(mig) /\ Reported(mig)  BY <1>1, <1>3 DEF Reported
<1>5. store # "none"  BY DEF MigrationInv, MigrationTypeOK
<1> HIDE DEF mig
<1>6. QED  BY <1>2, <1>3, <1>4, <1>5, InvocationStep

\* Taking the lock file keeps the invariant.
LEMMA TakeLockStep == ASSUME MigrationInv, NEW m \in Migrators, TakeLock(m)  PROVE MigrationInv'
<1>1. PICK id \in Identities : migrators' = [migrators EXCEPT
         ![m].id = id, ![m].pc = IF lock = "none" THEN "check" ELSE "end",
         ![m].result = IF lock = "none" THEN @ ELSE "error"]
  BY DEF TakeLock
<1> DEFINE pc == IF lock = "none" THEN "check" ELSE "end"
           result == IF lock = "none" THEN "none" ELSE "error"
           mig == [pc |-> pc, id |-> id, rows |-> {}, objects |-> {}, result |-> result]
<1>2. migrators[m] = Idle /\ migrators \in [Migrators -> MigratorType]
  BY MigratorFacts DEF TakeLock, Staged, MigrationInv, MigrationTypeOK
<1>3. migrators' = [migrators EXCEPT ![m] = mig]  BY <1>1, <1>2 DEF Idle
<1>4. mig \in MigratorType  BY DEF MigratorType, Written, Ids
<1>5. Staged(mig) /\ Reported(mig)  BY DEF Staged, Reported
<1> HIDE DEF mig
<1>6. QED  BY <1>3, <1>4, <1>5, InvocationStep DEF TakeLock

\* Checking the target keeps the invariant.
LEMMA CheckStep == ASSUME MigrationInv, NEW m \in Migrators, Check(m)  PROVE MigrationInv'
<1>1. migrators[m] \in MigratorType /\ Staged(migrators[m]) /\ migrators[m].pc = "check"
      /\ UNCHANGED <<store, legacy, target>> /\ target \in TargetType
  BY MigratorFacts DEF Check, MigrationInv, MigrationTypeOK
<1>2. CASE target.kind = "migrated"
  <2>1. Conclude(m, IF target.id = migrators[m].id THEN "already" ELSE "error")
    BY <1>2 DEF Check
  <2>2. CASE target.id = migrators[m].id  BY <1>1, <1>2, <2>1, <2>2, ConcludeStep
  <2>3. CASE target.id # migrators[m].id  BY <1>1, <2>1, <2>3, ConcludeStep
  <2>4. QED  BY <2>2, <2>3
<1>3. CASE target.kind \in {"empty", "live"}
  <2>1. Conclude(m, "error")  BY <1>3 DEF Check
  <2>2. QED  BY <1>1, <2>1, ConcludeStep
<1>4. CASE target.kind = "absent"
  <2>1. Move(m, "copy")  BY <1>4 DEF Check
  <2>2. Staged([migrators[m] EXCEPT !.pc = "copy"])  BY <1>1 DEF Staged, MigratorType
  <2>3. QED  BY <1>1, <2>1, <2>2, MoveStep
<1>5. QED  BY <1>1, <1>2, <1>3, <1>4 DEF TargetType

\* Copying a row keeps the invariant.
LEMMA CopyRowStep == ASSUME MigrationInv, NEW m \in Migrators, CopyRow(m)  PROVE MigrationInv'
<1> DEFINE old == migrators[m]
           left == {row \in Rows : ~\E r \in old.rows : r[1] = row}
<1>1. old \in MigratorType /\ Staged(old) /\ Reported(old) /\ old.pc = "copy" /\ store = "rtk"
      /\ UNCHANGED <<store, legacy, target>>
  BY MigratorFacts DEF CopyRow
<1>2. \A r \in old.rows : \E row \in Rows : r = Owed(old.id, row) /\ Hash(row) \in old.objects
  BY <1>1 DEF Staged
<1>3. \A row \in Rows : Owed(old.id, row) = <<row, old.id, row[1]>>  BY <1>1 DEF Owed
<1>4. CASE left = {} /\ Move(m, "mark")
  <2>1. ASSUME NEW row \in Rows  PROVE Owed(old.id, row) \in old.rows /\ Hash(row) \in old.objects
    <3>1. PICK r \in old.rows : r[1] = row  BY <1>4
    <3>2. PICK other \in Rows : r = Owed(old.id, other) /\ Hash(other) \in old.objects  BY <1>2
    <3>3. other = row  BY <1>3, <3>1, <3>2
    <3>4. QED  BY <3>2, <3>3
  <2>2. Complete(old.id, old.rows, old.objects)  BY <1>2, <2>1 DEF Complete, RowHashes
  <2>3. Staged([old EXCEPT !.pc = "mark"])  BY <1>1, <2>2 DEF Staged, MigratorType
  <2>4. QED  BY <1>1, <1>4, <2>3, MoveStep
<1>5. ASSUME NEW row \in left,
             migrators' = [migrators EXCEPT ![m].objects = @ \cup {Hash(row)},
                                            ![m].rows = @ \cup {<<row, old.id, row[1]>>}]
      PROVE  MigrationInv'
  <2> DEFINE mig == [old EXCEPT !.objects = @ \cup {Hash(row)},
                                !.rows = @ \cup {<<row, old.id, row[1]>>}]
  <2>1. migrators' = [migrators EXCEPT ![m] = mig]  BY <1>5 DEF MigrationInv, MigrationTypeOK
  <2>2. Hash(row) \in RowHashes /\ <<row, old.id, row[1]>> \in Rows \X (Ids \cup {"name"}) \X Names
    BY <1>1 DEF RowHashes, Names, MigratorType
  <2>3. mig \in MigratorType /\ mig.pc = "copy" /\ mig.id = old.id /\ mig.result = old.result
        /\ mig.rows = old.rows \cup {<<row, old.id, row[1]>>}
        /\ mig.objects = old.objects \cup {Hash(row)}
    BY <1>1, <2>2 DEF MigratorType, Written
  <2> HIDE DEF mig
  <2>4. \A r \in mig.rows : \E w \in Rows : r = Owed(mig.id, w) /\ Hash(w) \in mig.objects
    BY <1>2, <1>3, <2>3
  <2>5. Staged(mig) /\ Reported(mig)  BY <1>1, <2>3, <2>4 DEF Staged, Reported
  <2>6. QED  BY <1>1, <2>1, <2>3, <2>5, InvocationStep
<1>6. CASE Conclude(m, "error")  BY <1>1, <1>6, ConcludeStep
<1>7. QED  BY <1>4, <1>5, <1>6 DEF CopyRow

\* Copying everything keeps the invariant.
LEMMA CopyAllStep == ASSUME MigrationInv, NEW m \in Migrators, CopyAll(m)  PROVE MigrationInv'
<1> DEFINE old == migrators[m]
           copied == {<<row, "name", row[1]>> : row \in Rows}
           mig == [old EXCEPT !.pc = "map", !.objects = legacy, !.rows = copied]
<1>1. old \in MigratorType /\ Staged(old) /\ Reported(old) /\ old.pc = "copy" /\ store = "headroom"
      /\ UNCHANGED <<store, legacy, target>> /\ legacy \subseteq RowHashes
  BY MigratorFacts DEF CopyAll, MigrationInv, MigrationTypeOK
<1>2. CASE Conclude(m, "error")  BY <1>1, <1>2, ConcludeStep
<1>3. CASE (\A row \in Rows : Hash(row) \in legacy) /\ migrators' = [migrators EXCEPT ![m] = mig]
  <2>1. copied \in Written  BY DEF Written, Names
  <2> HIDE DEF copied
  <2>2. mig \in MigratorType /\ mig.pc = "map" /\ mig.id = old.id /\ mig.result = old.result
        /\ mig.rows = copied /\ mig.objects = legacy
    BY <1>1, <2>1 DEF MigratorType
  <2> HIDE DEF mig
  <2>3. Staged(mig) /\ Reported(mig)
    BY <1>1, <1>3, <2>2 DEF Staged, Reported, RowHashes, copied
  <2>4. QED  BY <1>1, <1>3, <2>2, <2>3, InvocationStep
<1>4. QED  BY <1>2, <1>3 DEF CopyAll

\* The two passes of the renaming give every row the name asked for.
LEMMA Renamed ==
  ASSUME NEW id, store # "rtk"
  PROVE  Together(Apart({<<row, "name", row[1]>> : row \in Rows}, Mapping[id]), Mapping[id])
           = {Owed(id, row) : row \in Rows}
<1> DEFINE mapping == Mapping[id]
           apart(row) == IF row[1] \in DOMAIN mapping THEN <<row, "temp", row[1]>>
                                                      ELSE <<row, "name", row[1]>>
           plain(row) == <<row, "name", row[1]>>
<1>1. Apart({plain(row) : row \in Rows}, mapping) = {apart(row) : row \in Rows}
  <2>1. \A row \in Rows :
          (IF plain(row)[3] \in DOMAIN mapping THEN <<plain(row)[1], "temp", plain(row)[3]>>
                                               ELSE plain(row)) = apart(row)
    OBVIOUS
  <2> HIDE DEF apart, plain
  <2>2. QED  BY <2>1 DEF Apart
<1>2. \A row \in Rows :
        (IF apart(row)[2] = "temp" THEN <<apart(row)[1], "name", mapping[apart(row)[3]]>>
                                   ELSE apart(row)) = Owed(id, row)
  BY DEF Owed
<1> HIDE DEF apart
<1>3. Together({apart(row) : row \in Rows}, mapping) = {Owed(id, row) : row \in Rows}
  BY <1>2 DEF Together
<1>4. QED  BY <1>1, <1>3, Zenon

\* Mapping the projects keeps the invariant.
LEMMA MapProjectsStep == ASSUME MigrationInv, NEW m \in Migrators, MapProjects(m)  PROVE MigrationInv'
<1> DEFINE old == migrators[m]
           mapped == Together(Apart(old.rows, Mapping[old.id]), Mapping[old.id])
           mig == [old EXCEPT !.pc = "mark", !.rows = mapped]
<1>1. old \in MigratorType /\ Staged(old) /\ Reported(old) /\ old.pc = "map"
      /\ UNCHANGED <<store, legacy, target>>
  BY MigratorFacts DEF MapProjects
<1>2. store = "headroom" /\ RowHashes \subseteq old.objects /\ old.id \in Identities
      /\ old.rows = {<<row, "name", row[1]>> : row \in Rows}
  BY <1>1 DEF Staged
<1>3. CASE Conclude(m, "error")  BY <1>1, <1>3, ConcludeStep
<1>4. CASE migrators' = [migrators EXCEPT ![m] = mig]
  <2>1. mapped = {Owed(old.id, row) : row \in Rows}  BY <1>2, Renamed
  <2>2. \A row \in Rows : Owed(old.id, row) \in Rows \X (Ids \cup {"name"}) \X Names
    BY <1>2 DEF Owed, Names
  <2> HIDE DEF mapped
  <2>3. mapped \in Written  BY <2>1, <2>2 DEF Written
  <2>4. mig \in MigratorType /\ mig.pc = "mark" /\ mig.id = old.id /\ mig.result = old.result
        /\ mig.rows = mapped /\ mig.objects = old.objects
    BY <1>1, <2>3 DEF MigratorType
  <2> HIDE DEF mig
  <2>5. Staged(mig) /\ Reported(mig)
    BY <1>1, <1>2, <2>1, <2>4 DEF Staged, Reported, Complete
  <2>6. QED  BY <1>1, <1>2, <1>4, <2>4, <2>5, InvocationStep
<1>5. QED  BY <1>3, <1>4 DEF MapProjects

\* Marking the stage keeps the invariant: it is complete.
LEMMA MarkStep == ASSUME MigrationInv, NEW m \in Migrators, Mark(m)  PROVE MigrationInv'
<1>1. migrators[m] \in MigratorType /\ Staged(migrators[m]) /\ migrators[m].pc = "mark"
      /\ UNCHANGED <<store, legacy, target>>
  BY MigratorFacts DEF Mark
<1>2. CASE Conclude(m, "error")  BY <1>1, <1>2, ConcludeStep
<1>3. CASE Move(m, "rename")
  <2>1. Staged([migrators[m] EXCEPT !.pc = "rename"])  BY <1>1 DEF Staged, MigratorType
  <2>2. QED  BY <1>1, <1>3, <2>1, MoveStep
<1>4. QED  BY <1>2, <1>3 DEF Mark

\* The rename that publishes: nobody has reported success before.
LEMMA PublishStep == ASSUME MigrationInv, NEW m \in Migrators, Publish(m)  PROVE MigrationInv'
<1> DEFINE old == migrators[m]
           mig(r) == [old EXCEPT !.pc = "finally", !.result = r]
<1>1. old \in MigratorType /\ Staged(old) /\ old.pc = "rename" /\ UNCHANGED <<store, legacy>>
  BY MigratorFacts DEF Publish
<1>2. CASE UNCHANGED target /\ Conclude(m, "error")  BY <1>1, <1>2, ConcludeStep
<1>3. CASE /\ target.kind \in {"absent", "empty"}
           /\ Conclude(m, "migrated") \/ Conclude(m, "error")
           /\ target' = [kind |-> "migrated", id |-> old.id, rows |-> old.rows,
                         objects |-> old.objects]
  <2>1. PICK r \in {"migrated", "error"} : migrators' = [migrators EXCEPT ![m] = mig(r)]
    BY <1>3 DEF Conclude
  <2>9. migrators \in [Migrators -> MigratorType]  BY DEF MigrationInv, MigrationTypeOK
  <2>2. target' \in TargetType /\ target'.kind = "migrated" /\ target'.id = old.id
        /\ target'.rows = old.rows /\ target'.objects = old.objects
    BY <1>1, <1>3 DEF TargetType, MigratorType
  <2>3. mig(r) \in MigratorType /\ mig(r).pc = "finally" /\ mig(r).id = old.id /\ mig(r).result = r
    BY <1>1 DEF MigratorType
  <2> HIDE DEF mig
  <2>4. store # "none"  BY <1>1 DEF MigrationInv, MigrationTypeOK
  <2>5. MigrationTypeOK'  BY <1>1, <2>1, <2>2, <2>3, <2>4, <2>9 DEF MigrationInv, MigrationTypeOK
  <2>6. ASSUME NEW n \in Migrators  PROVE (Staged(migrators[n]) /\ Reported(migrators[n]))'
    <3>1. CASE n = m
      <4>1. migrators'[n] = mig(r)  BY <2>1, <2>9, <3>1
      <4>2. QED  BY <1>1, <2>2, <2>3, <4>1 DEF Staged, Reported
    <3>2. CASE n # m
      <4>1. migrators'[n] = migrators[n]  BY <2>1, <2>9, <3>2
      <4>2. Staged(migrators[n]) /\ migrators[n].result \notin {"migrated", "already"}
        BY <1>3, MigratorFacts DEF Reported
      <4>3. QED  BY <1>1, <4>1, <4>2 DEF Staged, Reported, Complete, Owed
    <3>3. QED  BY <3>1, <3>2
  <2>7. Complete(target'.id, target'.rows, target'.objects)  BY <1>1, <2>2 DEF Staged
  <2>8. QED  BY <1>1, <2>5, <2>6, <2>7 DEF MigrationInv, Complete, Owed
<1>4. QED  BY <1>2, <1>3 DEF Publish

\* The finally clause, or a crash in place of it, keeps the invariant.
LEMMA EndStep ==
  ASSUME MigrationInv, NEW m \in Migrators, Finally(m) \/ Dies(m)  PROVE MigrationInv'
<1>1. migrators[m] \in MigratorType /\ Staged(migrators[m]) /\ migrators[m].pc # "idle"
      /\ UNCHANGED <<store, legacy, target>> /\ Move(m, "end")
  BY MigratorFacts DEF Finally, Dies
<1>2. Staged([migrators[m] EXCEPT !.pc = "end"])  BY <1>1 DEF Staged, MigratorType
<1>3. QED  BY <1>1, <1>2, MoveStep

\* A new invocation keeps the invariant.
LEMMA RunAgainStep == ASSUME MigrationInv, NEW m \in Migrators, RunAgain(m)  PROVE MigrationInv'
<1>1. migrators' = [migrators EXCEPT ![m] = Idle] /\ UNCHANGED <<store, legacy, target>>
      /\ migrators[m].pc = "end"
  BY DEF RunAgain
<1>2. store # "none"  BY <1>1 DEF MigrationInv, MigrationTypeOK
<1>3. Idle \in MigratorType  BY DEF Idle, MigratorType, Written, Ids
<1>4. Staged(Idle) /\ Reported(Idle)  BY DEF Staged, Reported, Idle
<1>5. QED  BY <1>1, <1>2, <1>3, <1>4, InvocationStep

\* A version 1 program that leaves a store keeps the invariant.
LEMMA LegacyStoreStep == ASSUME MigrationInv, LegacyStore  PROVE MigrationInv'
<1>1. store = "none" /\ legacy' \subseteq RowHashes /\ UNCHANGED <<target, migrators>>
  BY DEF LegacyStore, RowHashes
<1>2. target.kind = "absent" /\ \A m \in Migrators : migrators[m].pc = "idle"
  BY <1>1 DEF MigrationInv, MigrationTypeOK
<1>3. MigrationTypeOK'  BY <1>1, <1>2 DEF MigrationInv, MigrationTypeOK
<1>4. ASSUME NEW n \in Migrators  PROVE (Staged(migrators[n]) /\ Reported(migrators[n]))'
  BY <1>1, <1>2, MigratorFacts DEF Staged, Reported
<1>5. QED  BY <1>1, <1>2, <1>3, <1>4 DEF MigrationInv

\* A server that creates the target keeps the invariant.
LEMMA ServerStartsStep == ASSUME MigrationInv, ServerStarts  PROVE MigrationInv'
<1>1. /\ target \in TargetType /\ target' # target /\ UNCHANGED <<store, legacy, migrators>>
      /\ store # "none"
  BY DEF ServerStarts, MigrationInv, MigrationTypeOK
<1>2. target.kind # "migrated" /\ target' \in TargetType /\ target'.kind \in {"empty", "live"}
  BY <1>1 DEF ServerStarts, Absent, TargetType, Written, Ids
<1>3. MigrationTypeOK'  BY <1>1, <1>2 DEF MigrationInv, MigrationTypeOK
<1>4. ASSUME NEW n \in Migrators  PROVE (Staged(migrators[n]) /\ Reported(migrators[n]))'
  BY <1>1, <1>2, MigratorFacts DEF Staged, Reported, Complete, Owed
<1>5. QED  BY <1>2, <1>3, <1>4 DEF MigrationInv

-----------------------------------------------------------------------------
(* Every invocation, crash and server keeps the invariant: a stage that is
   about to be published is complete, and a success that was reported is at
   the target (migration.ts of rtk and of headroomd). *)
THEOREM MigrationCorrect == MigrationSpec => []MigrationInv
<1>1. MigrationInit => MigrationInv
  <2>1. SUFFICES ASSUME MigrationInit  PROVE MigrationInv  OBVIOUS
  <2>2. Idle \in MigratorType /\ Absent \in TargetType
    BY DEF Idle, MigratorType, Absent, TargetType, Written, Ids
  <2>3. QED
    BY <2>1, <2>2 DEF MigrationInit, MigrationInv, MigrationTypeOK, Staged, Reported, Idle, Absent
<1>2. MigrationInv /\ [MigrationNext]_migrationVars => MigrationInv'
  <2>1. SUFFICES ASSUME MigrationInv, [MigrationNext]_migrationVars  PROVE MigrationInv'
    OBVIOUS
  <2>2. CASE LegacyStore  BY <2>1, <2>2, LegacyStoreStep
  <2>3. CASE ServerStarts  BY <2>1, <2>3, ServerStartsStep
  <2>4. ASSUME NEW m \in Migrators,
               \/ TakeLock(m) \/ Check(m) \/ CopyRow(m) \/ CopyAll(m) \/ MapProjects(m)
               \/ Mark(m) \/ Publish(m) \/ Finally(m) \/ Dies(m) \/ RunAgain(m)
        PROVE  MigrationInv'
    BY <2>1, <2>4, TakeLockStep, CheckStep, CopyRowStep, CopyAllStep, MapProjectsStep, MarkStep,
       PublishStep, EndStep, RunAgainStep
  <2>5. CASE UNCHANGED migrationVars
    BY <2>1, <2>5 DEF migrationVars, MigrationInv, MigrationTypeOK, Staged, Reported, Complete, Owed
  <2>6. QED  BY <2>1, <2>2, <2>3, <2>4, <2>5 DEF MigrationNext
<1>3. QED  BY <1>1, <1>2, PTL DEF MigrationSpec

(* A store that says it is migrated has every row under the owner asked for
   and every object, and an invocation that reports success finds its own
   there, however many invocations, crashes and servers race (migration.ts of
   rtk and of headroomd). *)
THEOREM MigratedAlwaysComplete == MigrationSpec => []MigratedIsComplete
<1>1. MigrationInv => MigratedIsComplete
  BY DEF MigrationInv, MigratedIsComplete, Reported, Complete, RowHashes
<1>2. QED  BY MigrationCorrect, <1>1, PTL

-----------------------------------------------------------------------------
(* Concatenation and FlattenSeq *)

\* One sequence, then another.
Then(a, b) == a \o b

\* One sequence and then another is a sequence.
LEMMA ThenType ==
  ASSUME NEW S, NEW a \in Seq(S), NEW b \in Seq(S)
  PROVE  Then(a, b) \in Seq(S)
BY DEF Then

\* The empty sequence adds nothing.
LEMMA ThenEmpty ==
  ASSUME NEW S, NEW a \in Seq(S)
  PROVE  Then(a, <<>>) = a /\ Then(<<>>, a) = a
BY ConcatEmptySeq DEF Then

\* Then is associative.
LEMMA ThenThen ==
  ASSUME NEW S, NEW a \in Seq(S), NEW b \in Seq(S), NEW c \in Seq(S)
  PROVE  Then(Then(a, b), c) = Then(a, Then(b, c))
BY ConcatAssociative DEF Then

\* g holds what the first members of seqs make together, up to the Nth.
FlatsOf(seqs, N, g) ==
  g = [i \in 1..N |-> IF i = 1 THEN seqs[i] ELSE g[i - 1] \o seqs[i]]

\* The recursive function in FlattenSeq exists.
LEMMA FlatsExist ==
  ASSUME NEW seqs, NEW N \in Nat
  PROVE  \E g : FlatsOf(seqs, N, g)
<1> DEFINE P == {n \in Nat : \E g : FlatsOf(seqs, n, g)}
<1>1. 0 \in P
  <2> DEFINE g == [i \in 1..0 |-> <<>>]
  <2>1. FlatsOf(seqs, 0, g)  BY DEF FlatsOf
  <2>2. QED  BY <2>1
<1>2. ASSUME NEW n \in Nat, n \in P  PROVE n + 1 \in P
  <2>1. PICK g : FlatsOf(seqs, n, g)  BY <1>2
  <2> DEFINE h == [i \in 1..(n + 1) |-> IF i = 1 THEN seqs[i] ELSE Then(g[i - 1], seqs[i])]
  <2>2. \A i \in 1..n : h[i] = g[i]
    <3>1. \A i \in 1..n : i \in 1..(n + 1)  OBVIOUS
    <3>2. \A i \in 1..n : g[i] = IF i = 1 THEN seqs[i] ELSE Then(g[i - 1], seqs[i])
      BY <2>1 DEF FlatsOf, Then
    <3>3. QED  BY <3>1, <3>2
  <2>3. \A i \in 1..(n + 1) : i # 1 => i - 1 \in 1..n  OBVIOUS
  <2>4. \A i \in 1..(n + 1) : h[i] = IF i = 1 THEN seqs[i] ELSE Then(h[i - 1], seqs[i])
    BY <2>2, <2>3
  <2>5. h = [i \in 1..(n + 1) |-> h[i]]  OBVIOUS
  <2> HIDE DEF h
  <2>6. h = [i \in 1..(n + 1) |-> IF i = 1 THEN seqs[i] ELSE Then(h[i - 1], seqs[i])]
    BY <2>4, <2>5
  <2>7. FlatsOf(seqs, n + 1, h)  BY <2>6 DEF FlatsOf, Then
  <2>8. QED  BY <2>7
<1> HIDE DEF P
<1>3. N \in P  BY <1>1, <1>2, AllNumbers
<1>4. QED  BY <1>3 DEF P

\* Two sequences begin alike.
Alike(s, t, m) == \A k \in 1..m : s[k] = t[k]

\* What it holds for the first members depends on those members only.
LEMMA FlatsAgree ==
  ASSUME NEW s, NEW t, NEW M \in Nat, NEW N \in Nat, NEW g, NEW h, FlatsOf(s, M, g), FlatsOf(t, N, h),
         NEW m \in Nat, m <= M, m <= N, Alike(s, t, m)
  PROVE  Alike(g, h, m)
<1> DEFINE P == {n \in Nat : n \in 1..m => g[n] = h[n]}
<1>1. \A n \in 1..m : n \in 1..M /\ n \in 1..N  OBVIOUS
<1>2. 0 \in P  OBVIOUS
<1>3. ASSUME NEW n \in Nat, n \in P  PROVE n + 1 \in P
  <2>1. SUFFICES ASSUME n + 1 \in 1..m  PROVE g[n + 1] = h[n + 1]  OBVIOUS
  <2>2. n + 1 \in 1..M /\ n + 1 \in 1..N /\ (n + 1) - 1 = n  BY <1>1, <2>1
  <2>3. g[n + 1] = IF n + 1 = 1 THEN s[n + 1] ELSE Then(g[n], s[n + 1])
    BY <2>2 DEF FlatsOf, Then
  <2>4. h[n + 1] = IF n + 1 = 1 THEN t[n + 1] ELSE Then(h[n], t[n + 1])
    BY <2>2 DEF FlatsOf, Then
  <2>5. n + 1 # 1 => g[n] = h[n]  BY <1>3, <2>1
  <2>6. s[n + 1] = t[n + 1]  BY <2>1 DEF Alike
  <2>7. QED  BY <2>1, <2>3, <2>4, <2>5, <2>6
<1> HIDE DEF P
<1>4. \A n \in Nat : n \in P  BY <1>2, <1>3, AllNumbers
<1>5. QED  BY <1>4 DEF P, Alike

\* FlattenSeq is its value at the last member.
LEMMA FlattenIs ==
  ASSUME NEW seqs, Len(seqs) \in Nat, Len(seqs) # 0
  PROVE  \E g : FlatsOf(seqs, Len(seqs), g) /\ FlattenSeq(seqs) = g[Len(seqs)]
<1> DEFINE h == CHOOSE g : FlatsOf(seqs, Len(seqs), g)
<1>1. \E g : FlatsOf(seqs, Len(seqs), g)  BY FlatsExist
<1>2. FlatsOf(seqs, Len(seqs), h)  BY <1>1
<1>3. FlattenSeq(seqs) = h[Len(seqs)]  BY DEF FlattenSeq, FlatsOf
<1>4. QED  BY <1>2, <1>3

\* Nothing makes nothing.
LEMMA FlattenEmpty ==  FlattenSeq(<<>>) = <<>>
BY DEF FlattenSeq

\* The last member comes last.
LEMMA FlattenAppend ==
  ASSUME NEW S, NEW s \in Seq(Seq(S)), NEW x \in Seq(S)
  PROVE  FlattenSeq(Append(s, x)) = Then(FlattenSeq(s), x)
<1> DEFINE t == Append(s, x)
           n == Len(s)
<1>1. /\ n \in Nat /\ Len(t) = n + 1 /\ t[n + 1] = x
      /\ \A k \in 1..n : s[k] = t[k]
  OBVIOUS
<1>0. n = 0 => s = <<>>  OBVIOUS
<1> HIDE DEF t, n
<1>2. Len(t) \in Nat /\ Len(t) # 0  BY <1>1
<1>3. PICK h : FlatsOf(t, n + 1, h) /\ FlattenSeq(t) = h[n + 1]  BY <1>1, <1>2, FlattenIs
<1>4. n + 1 \in 1..(n + 1) /\ (n + 1) - 1 = n  BY <1>1
<1>5. h[n + 1] = IF n + 1 = 1 THEN t[n + 1] ELSE Then(h[n], t[n + 1])
  BY <1>3, <1>4 DEF FlatsOf, Then
<1>6. CASE n = 0
  <2>1. FlattenSeq(s) = <<>>  BY <1>0, <1>6, FlattenEmpty
  <2>2. n + 1 = 1  BY <1>6
  <2>3. QED  BY <1>1, <1>3, <1>5, <2>1, <2>2, ThenEmpty DEF t
<1>7. CASE n # 0
  <2>1. PICK g : FlatsOf(s, n, g) /\ FlattenSeq(s) = g[n]  BY <1>1, <1>7, FlattenIs DEF n
  <2>2. n <= n /\ n <= n + 1 /\ n + 1 \in Nat /\ n \in 1..n /\ n + 1 # 1  BY <1>1, <1>7
  <2>3. \A k \in 1..n : g[k] = h[k]
    <3>1. n \in Nat /\ n + 1 \in Nat /\ n <= n /\ n <= n + 1 /\ Alike(s, t, n)
      BY <1>1, <2>2 DEF Alike
    <3>2. Alike(g, h, n)  BY <1>3, <2>1, <3>1, FlatsAgree
    <3>3. QED  BY <3>2 DEF Alike
  <2>4. QED  BY <1>1, <1>3, <1>5, <2>1, <2>2, <2>3 DEF t
<1>8. QED  BY <1>6, <1>7

\* FlattenSeq of sequences is a sequence of their members.
LEMMA FlattenType ==
  ASSUME NEW S, NEW s \in Seq(Seq(S))
  PROVE  FlattenSeq(s) \in Seq(S)
<1> DEFINE P == {t \in Seq(Seq(S)) : FlattenSeq(t) \in Seq(S)}
<1>1. <<>> \in P
  <2>1. <<>> \in Seq(Seq(S)) /\ <<>> \in Seq(S)  OBVIOUS
  <2>2. QED  BY <2>1, FlattenEmpty
<1>2. ASSUME NEW t \in Seq(Seq(S)), NEW x \in Seq(S), t \in P  PROVE Append(t, x) \in P
  <2>1. FlattenSeq(Append(t, x)) = Then(FlattenSeq(t), x)  BY FlattenAppend
  <2>2. FlattenSeq(t) \in Seq(S) /\ Append(t, x) \in Seq(Seq(S))  BY <1>2
  <2>3. QED  BY <2>1, <2>2, ThenType
<1> HIDE DEF P
<1>3. s \in P  BY <1>1, <1>2, AllSequences
<1>4. QED  BY <1>3 DEF P

\* FlattenSeq of a concatenation is the concatenation of both.
LEMMA FlattenThen ==
  ASSUME NEW S, NEW s \in Seq(Seq(S)), NEW t \in Seq(Seq(S))
  PROVE  FlattenSeq(Then(s, t)) = Then(FlattenSeq(s), FlattenSeq(t))
<1> DEFINE P == {u \in Seq(Seq(S)) : FlattenSeq(Then(s, u)) = Then(FlattenSeq(s), FlattenSeq(u))}
<1>1. <<>> \in P
  <2>1. <<>> \in Seq(Seq(S)) /\ Then(s, <<>>) = s  BY ThenEmpty
  <2>2. FlattenSeq(s) \in Seq(S)  BY FlattenType
  <2>3. Then(FlattenSeq(s), <<>>) = FlattenSeq(s)  BY <2>2, ThenEmpty
  <2>4. QED  BY <2>1, <2>3, FlattenEmpty
<1>2. ASSUME NEW u \in Seq(Seq(S)), NEW x \in Seq(S), u \in P  PROVE Append(u, x) \in P
  <2>1. Then(s, Append(u, x)) = Append(Then(s, u), x) /\ Then(s, u) \in Seq(Seq(S))  BY DEF Then
  <2>2. FlattenSeq(Append(Then(s, u), x)) = Then(FlattenSeq(Then(s, u)), x)  BY <2>1, FlattenAppend
  <2>3. FlattenSeq(Append(u, x)) = Then(FlattenSeq(u), x)  BY FlattenAppend
  <2>4. FlattenSeq(Then(s, u)) = Then(FlattenSeq(s), FlattenSeq(u))  BY <1>2
  <2>5. FlattenSeq(s) \in Seq(S) /\ FlattenSeq(u) \in Seq(S)  BY FlattenType
  <2>6. Then(Then(FlattenSeq(s), FlattenSeq(u)), x) = Then(FlattenSeq(s), Then(FlattenSeq(u), x))
    BY <2>5, ThenThen
  <2>7. Append(u, x) \in Seq(Seq(S))  OBVIOUS
  <2>8. QED  BY <2>1, <2>2, <2>3, <2>4, <2>6, <2>7
<1> HIDE DEF P
<1>3. t \in P  BY <1>1, <1>2, AllSequences
<1>4. QED  BY <1>3 DEF P

\* The first member comes first.
LEMMA FlattenFirst ==
  ASSUME NEW S, NEW x \in Seq(S), NEW t \in Seq(Seq(S))
  PROVE  FlattenSeq(Then(<<x>>, t)) = Then(x, FlattenSeq(t))
<1>1. <<x>> \in Seq(Seq(S)) /\ <<>> \in Seq(Seq(S)) /\ <<x>> = Append(<<>>, x)  OBVIOUS
<1>2. FlattenSeq(<<x>>) = Then(FlattenSeq(<<>>), x)  BY <1>1, FlattenAppend
<1>3. FlattenSeq(<<x>>) = x  BY <1>2, FlattenEmpty, ThenEmpty
<1>4. QED  BY <1>1, <1>3, FlattenThen

-----------------------------------------------------------------------------
(* What is left of a sequence of blocks, and of a stack of them *)

Suffix(blocks, i) == [k \in 1..(Len(blocks) - i) |-> blocks[i + k]]
\* What the blocks after the first i make.
After(blocks, i) == FlattenSeq(Suffix(blocks, i))

\* What is left of a sequence is one.
LEMMA SuffixType ==
  ASSUME NEW S, NEW blocks \in Seq(S), NEW i \in Nat
  PROVE  Suffix(blocks, i) \in Seq(S)
<1>1. CASE i <= Len(blocks)
  <2>1. Len(blocks) \in Nat /\ Len(blocks) - i \in Nat  BY <1>1
  <2>2. \A k \in 1..(Len(blocks) - i) : i + k \in 1..Len(blocks)  BY <2>1
  <2>3. \A k \in 1..(Len(blocks) - i) : blocks[i + k] \in S  BY <2>2
  <2>4. QED  BY <2>1, <2>3, IsASeq DEF Suffix
<1>2. CASE i > Len(blocks)
  <2>1. Len(blocks) \in Nat /\ 1..(Len(blocks) - i) = {}  BY <1>2
  <2>2. Suffix(blocks, i) = <<>>  BY <2>1 DEF Suffix
  <2>3. QED  BY <2>2
<1>3. QED
  <2>1. Len(blocks) \in Nat  OBVIOUS
  <2>2. QED  BY <2>1, <1>1, <1>2

\* What comes after the first blocks is a sequence of their members.
LEMMA AfterType ==
  ASSUME NEW S, NEW blocks \in Seq(Seq(S)), NEW i \in Nat
  PROVE  After(blocks, i) \in Seq(S)
BY SuffixType, FlattenType DEF After

\* Nothing comes after the last block.
LEMMA AfterAll ==
  ASSUME NEW S, NEW blocks \in Seq(Seq(S)), NEW i \in Nat, i >= Len(blocks)
  PROVE  After(blocks, i) = <<>>
<1>1. Len(blocks) \in Nat /\ 1..(Len(blocks) - i) = {}  OBVIOUS
<1>2. Suffix(blocks, i) = <<>>  BY <1>1 DEF Suffix
<1>3. QED  BY <1>2, FlattenEmpty DEF After

\* After no block comes everything.
LEMMA AfterNone ==
  ASSUME NEW S, NEW blocks \in Seq(S)
  PROVE  After(blocks, 0) = FlattenSeq(blocks)
<1>1. Len(blocks) \in Nat /\ Len(blocks) - 0 = Len(blocks)  OBVIOUS
<1>2. \A k \in 1..Len(blocks) : 0 + k = k  BY <1>1
<1>3. Suffix(blocks, 0) = [k \in 1..Len(blocks) |-> blocks[k]]  BY <1>1, <1>2 DEF Suffix
<1>4. blocks = [k \in 1..Len(blocks) |-> blocks[k]]  OBVIOUS
<1>5. QED  BY <1>3, <1>4 DEF After

\* After i blocks come block i + 1 and what comes after it.
LEMMA AfterNext ==
  ASSUME NEW S, NEW blocks \in Seq(Seq(S)), NEW i \in Nat, i < Len(blocks)
  PROVE  After(blocks, i) = Then(blocks[i + 1], After(blocks, i + 1))
<1> DEFINE T == Seq(S)
           x == blocks[i + 1]
           s == Suffix(blocks, i)
           t == Suffix(blocks, i + 1)
           n == Len(blocks)
<1>1. n \in Nat /\ i + 1 \in Nat /\ i + 1 \in 1..n /\ x \in T /\ n - i \in Nat /\ n - (i + 1) \in Nat
  OBVIOUS
<1>2. s \in Seq(T) /\ t \in Seq(T)  BY <1>1, SuffixType
<1>3. Len(s) = n - i /\ Len(t) = n - (i + 1)  BY <1>1 DEF Suffix
<1>4. (\A k \in 1..(n - i) : s[k] = blocks[i + k]) /\ \A k \in 1..(n - (i + 1)) : t[k] = blocks[i + 1 + k]
  BY <1>1 DEF Suffix
<1>5. s = Then(<<x>>, t)
  <2> DEFINE u == Then(<<x>>, t)
             one == <<x>>
  <2>1. one \in Seq(T) /\ Len(one) = 1 /\ one[1] = x  BY <1>1
  <2>2. /\ u \in Seq(T) /\ Len(u) = 1 + Len(t)
        /\ \A k \in 1..(1 + Len(t)) : u[k] = IF k <= 1 THEN x ELSE t[k - 1]
    <3> HIDE DEF one, t, T, x
    <3>1. /\ one \o t \in Seq(T) /\ Len(one \o t) = Len(one) + Len(t)
          /\ \A k \in 1..(Len(one) + Len(t)) : (one \o t)[k] = IF k <= Len(one) THEN one[k] ELSE t[k - Len(one)]
      BY <1>2, <2>1, ConcatProperties
    <3>2. \A k \in 1..(1 + Len(t)) : k <= 1 => k = 1  BY <1>1, <1>3
    <3>3. QED  BY <2>1, <3>1, <3>2 DEF Then, one
  <2> HIDE DEF u, s, t, x, T, n
  <2>3. ASSUME NEW k \in 1..Len(s)  PROVE s[k] = u[k]
    <3>1. k \in 1..(n - i) /\ k \in 1..(1 + Len(t)) /\ k \in Nat  BY <1>1, <1>3
    <3>2. CASE k = 1
      <4>1. s[k] = x  BY <1>4, <3>1, <3>2 DEF x
      <4>2. QED  BY <2>2, <3>1, <3>2, <4>1
    <3>3. CASE k # 1
      <4>1. k - 1 \in 1..(n - (i + 1)) /\ i + 1 + (k - 1) = i + k /\ ~(k <= 1)  BY <1>1, <3>1, <3>3
      <4>2. t[k - 1] = blocks[i + k]  BY <1>4, <4>1
      <4>3. QED  BY <1>4, <2>2, <3>1, <4>1, <4>2
    <3>4. QED  BY <3>2, <3>3
  <2>4. Len(s) = Len(u)  BY <1>1, <1>3, <2>2
  <2>5. s = u  BY <1>2, <2>2, <2>3, <2>4, SeqEqual
  <2>6. QED  BY <2>5 DEF u
<1>6. QED  BY <1>1, <1>2, <1>5, FlattenFirst DEF After

\* What a stack of sequences makes, the last one first.
Reversed(stack) == [k \in 1..Len(stack) |-> stack[Len(stack) + 1 - k]]
Down(stack) == FlattenSeq(Reversed(stack))

\* A stack turned over is a sequence.
LEMMA ReversedType ==
  ASSUME NEW S, NEW stack \in Seq(S)
  PROVE  Reversed(stack) \in Seq(S)
<1>1. Len(stack) \in Nat /\ \A k \in 1..Len(stack) : Len(stack) + 1 - k \in 1..Len(stack)  OBVIOUS
<1>2. \A k \in 1..Len(stack) : stack[Len(stack) + 1 - k] \in S  BY <1>1
<1>3. QED  BY <1>1, <1>2, IsASeq DEF Reversed

\* What a stack holds from the top down is a sequence.
LEMMA DownType ==
  ASSUME NEW S, NEW stack \in Seq(Seq(S))
  PROVE  Down(stack) \in Seq(S)
BY ReversedType, FlattenType DEF Down

\* An empty stack holds nothing.
LEMMA DownEmpty ==  Down(<<>>) = <<>>
<1>1. Reversed(<<>>) = <<>>  BY DEF Reversed
<1>2. QED  BY <1>1, FlattenEmpty DEF Down

\* What is pushed comes first.
LEMMA DownAppend ==
  ASSUME NEW S, NEW stack \in Seq(Seq(S)), NEW x \in Seq(S)
  PROVE  Down(Append(stack, x)) = Then(x, Down(stack))
<1> DEFINE T == Seq(S)
           n == Len(stack)
           a == Append(stack, x)
           r == Reversed(a)
           t == Reversed(stack)
           one == <<x>>
           u == Then(one, t)
<1>1. n \in Nat /\ a \in Seq(T) /\ Len(a) = n + 1 /\ a[n + 1] = x /\ \A k \in 1..n : a[k] = stack[k]
  OBVIOUS
<1>2. r \in Seq(T) /\ t \in Seq(T)  BY <1>1, ReversedType
<1>3. Len(r) = n + 1 /\ Len(t) = n
  <2> HIDE DEF a
  <2>1. QED  BY <1>1 DEF Reversed
<1>4. (\A k \in 1..(n + 1) : r[k] = a[n + 1 + 1 - k]) /\ \A k \in 1..n : t[k] = stack[n + 1 - k]
  <2> HIDE DEF a
  <2>1. QED  BY <1>1 DEF Reversed
<1>5. one \in Seq(T) /\ Len(one) = 1 /\ one[1] = x  OBVIOUS
<1> HIDE DEF T, n, a, r, t, one
<1>6. /\ u \in Seq(T) /\ Len(u) = Len(one) + Len(t)
      /\ \A k \in 1..(Len(one) + Len(t)) : u[k] = IF k <= Len(one) THEN one[k] ELSE t[k - Len(one)]
  BY <1>2, <1>5, ConcatProperties DEF Then
<1> HIDE DEF u
<1>7. ASSUME NEW k \in 1..Len(r)  PROVE r[k] = u[k]
  <2>1. k \in 1..(n + 1) /\ k \in 1..(Len(one) + Len(t)) /\ k \in Nat  BY <1>1, <1>3, <1>5
  <2>2. CASE k = 1
    <3>1. n + 1 + 1 - k = n + 1 /\ k <= Len(one)  BY <1>1, <1>5, <2>2
    <3>2. r[k] = a[n + 1]  BY <1>4, <2>1, <3>1
    <3>3. u[k] = one[1]  BY <1>6, <2>1, <2>2, <3>1
    <3>4. QED  BY <1>1, <1>5, <3>2, <3>3
  <2>3. CASE k # 1
    <3>1. /\ k - 1 \in 1..n /\ n + 1 - (k - 1) \in 1..n /\ n + 1 + 1 - k = n + 1 - (k - 1)
          /\ ~(k <= Len(one)) /\ k - Len(one) = k - 1
      BY <1>1, <1>5, <2>1, <2>3
    <3>2. r[k] = stack[n + 1 - (k - 1)]  BY <1>1, <1>4, <2>1, <3>1
    <3>3. u[k] = t[k - 1]  BY <1>6, <2>1, <3>1
    <3>4. t[k - 1] = stack[n + 1 - (k - 1)]  BY <1>4, <3>1
    <3>5. QED  BY <3>2, <3>3, <3>4
  <2>4. QED  BY <2>2, <2>3
<1>8. Len(r) = Len(u)  BY <1>1, <1>3, <1>5, <1>6
<1>9. r = u  BY <1>2, <1>6, <1>7, <1>8, SeqEqual
<1>10. FlattenSeq(u) = Then(x, FlattenSeq(t))  BY <1>2, FlattenFirst DEF T, u, one
<1>11. QED  BY <1>9, <1>10 DEF Down, r, a, t

-----------------------------------------------------------------------------
(* Pages of a text *)

\* A set of integers within bounds has a greatest member.
LEMMA GreatestIn ==
  ASSUME NEW S, NEW a \in Int, NEW b \in Int, S \subseteq a..b, S # {}
  PROVE  \E m \in S : \A j \in S : j <= m
<1> DEFINE D == {b - k : k \in S}
<1>1. \A k \in S : k \in Int /\ b - k \in Nat /\ b - (b - k) = k  OBVIOUS
<1>2. D \subseteq Nat /\ D # {}  BY <1>1
<1> HIDE DEF D
<1>3. PICK x \in D : \A y \in D : x <= y  BY <1>2, LeastNumber
<1>4. PICK m \in S : x = b - m  BY <1>3 DEF D
<1>5. ASSUME NEW j \in S  PROVE j <= m
  <2>1. b - j \in D  BY DEF D
  <2>2. b - m <= b - j  BY <1>3, <1>4, <2>1
  <2>3. QED  BY <1>1, <2>2
<1>6. QED  BY <1>5

\* Offsets of later code points are not less.
LEMMA OffsetGrows ==
  ASSUME NEW text, NEW j \in Nat \ {0}, NEW k \in Nat \ {0}, j <= k
  PROVE  Offset(text, j) \in Nat /\ Offset(text, k) \in Nat /\ Offset(text, j) <= Offset(text, k)
<1> DEFINE A == {i \in 1..(j - 1) : text[i] = 4}
           B == {i \in 1..(k - 1) : text[i] = 4}
<1>1. IsFiniteSet(1..(k - 1))  BY FS_Interval
<1>2. B \subseteq 1..(k - 1) /\ A \subseteq B  OBVIOUS
<1> HIDE DEF A, B
<1>3. IsFiniteSet(B)  BY <1>1, <1>2, FS_Subset
<1>4. IsFiniteSet(A) /\ Cardinality(A) <= Cardinality(B)  BY <1>2, <1>3, FS_Subset
<1>5. Cardinality(A) \in Nat /\ Cardinality(B) \in Nat  BY <1>3, <1>4, FS_CardinalityType
<1>6. Offset(text, j) = (j - 1) + Cardinality(A) /\ Offset(text, k) = (k - 1) + Cardinality(B)
  BY DEF Offset, A, B
<1>7. QED  BY <1>4, <1>5, <1>6

\* The bytes of a stretch are a natural number, none for an empty stretch.
LEMMA BytesCount ==
  ASSUME NEW text, NEW j \in Int, NEW k \in Int
  PROVE  Bytes(text, j, k) \in Nat /\ (k < j => Bytes(text, j, k) = 0)
<1> DEFINE B == {b \in (j..k) \X (1..4) : b[2] <= text[b[1]]}
<1>1. IsFiniteSet(j..k) /\ IsFiniteSet(1..4)
  <2>1. IsFiniteSet(j..k)  BY FS_Interval
  <2>2. 1 \in Int /\ 4 \in Int  OBVIOUS
  <2>3. \A a, b \in Int : IsFiniteSet(a..b)  BY FS_Interval
  <2>4. QED  BY <2>1, <2>2, <2>3
<1>2. IsFiniteSet((j..k) \X (1..4))  BY <1>1, FS_Product
<1>3. B \subseteq (j..k) \X (1..4)  OBVIOUS
<1>4. k < j => B = {}
  <2>1. SUFFICES ASSUME k < j  PROVE B = {}  OBVIOUS
  <2>2. j..k = {}  BY <2>1
  <2>3. QED  BY <2>2
<1> HIDE DEF B
<1>5. IsFiniteSet(B)  BY <1>2, <1>3, FS_Subset
<1>6. Cardinality(B) \in Nat  BY <1>5, FS_CardinalityType
<1>7. k < j => Cardinality(B) = 0  BY <1>4, FS_EmptySet
<1>8. Bytes(text, j, k) = Cardinality(B)  BY DEF Bytes, B
<1>9. QED  BY <1>6, <1>7, <1>8

\* A page ends where a code point does, not before its start; without more it is the rest.
LEMMA PageIs ==
  ASSUME NEW text, Len(text) \in Nat, NEW start \in Nat, NEW budget \in Int, budget > 0,
         NEW p, p = PaginateText(text, start, budget), p.kind = "page"
  PROVE  /\ p.end \in Nat /\ start <= p.end /\ p.end <= Length(text) /\ p.bytes \in Nat
         /\ p.more \in BOOLEAN /\ (~p.more => p.end = Length(text))
<1> DEFINE n == Len(text)
           at == {k \in 1..n + 1 : Offset(text, k) = start}
           first == CHOOSE k \in at : TRUE
           fits == {k \in (first - 1)..n : Bytes(text, first, k) <= budget}
           last == CHOOSE k \in fits : \A j \in fits : j <= k
           page == [kind |-> "page", end |-> Offset(text, last + 1),
                    bytes |-> Bytes(text, first, last), more |-> last < n]
<1>1. p = IF at = {} THEN [kind |-> "bad"]
          ELSE IF last = first - 1 /\ first <= n THEN [kind |-> "small"] ELSE page
  BY DEF PaginateText
<1>2. at # {} /\ p = page
  <2> HIDE DEF at, last, first, n
  <2>1. [kind |-> "bad"].kind # "page" /\ [kind |-> "small"].kind # "page"  OBVIOUS
  <2>2. QED  BY <1>1, <2>1
<1>3. first \in at  BY <1>2
<1>4. first \in 1..n + 1 /\ Offset(text, first) = start /\ n \in Nat
  <2>1. QED  BY <1>3
<1> HIDE DEF first
<1>5. first - 1 \in fits
  <2>1. first - 1 \in (first - 1)..n /\ first \in Int /\ first - 1 \in Int /\ first - 1 < first  BY <1>4
  <2>2. Bytes(text, first, first - 1) = 0  BY <2>1, BytesCount
  <2>3. QED  BY <2>1, <2>2
<1>6. fits \subseteq (first - 1)..n  OBVIOUS
<1>7. last \in fits
  <2> HIDE DEF fits
  <2>1. first - 1 \in Int /\ n \in Int  BY <1>4
  <2>2. \E m \in fits : \A j \in fits : j <= m  BY <1>5, <1>6, <2>1, GreatestIn
  <2>3. QED  BY <2>2
<1> HIDE DEF last
<1>8. last \in (first - 1)..n  BY <1>6, <1>7
<1>9. /\ last \in Int /\ first \in Nat \ {0} /\ last + 1 \in Nat \ {0} /\ n + 1 \in Nat \ {0}
      /\ first <= last + 1 /\ last + 1 <= n + 1
  BY <1>4, <1>8
<1>10. /\ Offset(text, last + 1) \in Nat /\ Offset(text, first) <= Offset(text, last + 1)
       /\ Offset(text, last + 1) <= Offset(text, n + 1)
  BY <1>9, OffsetGrows
<1>11. Bytes(text, first, last) \in Nat  BY <1>9, BytesCount
<1>12. ~(last < n) => last + 1 = n + 1  BY <1>4, <1>8
<1>13. page.end = Offset(text, last + 1) /\ page.bytes = Bytes(text, first, last) /\ page.more = (last < n)
  OBVIOUS
<1>14. p.more \in BOOLEAN  BY <1>2, <1>13
<1>15. p.more = (last < n)  BY <1>2, <1>13
<1> HIDE DEF page
<1>16. ~p.more => p.end = Offset(text, n + 1)  BY <1>2, <1>12, <1>13, <1>15
<1>17. QED  BY <1>2, <1>4, <1>10, <1>11, <1>13, <1>14, <1>16 DEF Length

-----------------------------------------------------------------------------
(* Stretches of a text *)

TextUnits == Hashes \X Nat

\* A stretch of a message is a sequence of units.
LEMMA SpanType ==
  ASSUME NEW h \in Hashes, NEW a \in Nat, NEW b \in Nat
  PROVE  Span(h, a, b) \in Seq(TextUnits)
<1>1. CASE a <= b
  <2>1. b - a \in Nat /\ \A k \in 1..(b - a) : <<h, a + k - 1>> \in TextUnits  BY <1>1 DEF TextUnits
  <2>2. QED  BY <2>1, IsASeq DEF Span
<1>2. CASE ~(a <= b)
  <2>1. 1..(b - a) = {}  BY <1>2
  <2>2. Span(h, a, b) = <<>>  BY <2>1 DEF Span
  <2>3. QED  BY <2>2
<1>3. QED  BY <1>1, <1>2

\* Two stretches that meet are one.
LEMMA SpanThen ==
  ASSUME NEW h \in Hashes, NEW a \in Nat, NEW b \in Nat, NEW c \in Nat, a <= b, b <= c
  PROVE  Then(Span(h, a, b), Span(h, b, c)) = Span(h, a, c)
<1> DEFINE s == Span(h, a, b)
           t == Span(h, b, c)
           u == Span(h, a, c)
           v == Then(s, t)
<1>1. s \in Seq(TextUnits) /\ t \in Seq(TextUnits) /\ u \in Seq(TextUnits)  BY SpanType
<1>2. b - a \in Nat /\ c - b \in Nat /\ c - a \in Nat /\ (b - a) + (c - b) = c - a  OBVIOUS
<1>3. Len(s) = b - a /\ Len(t) = c - b /\ Len(u) = c - a  BY <1>2 DEF Span
<1>4. /\ \A k \in 1..(b - a) : s[k] = <<h, a + k - 1>>
      /\ \A k \in 1..(c - b) : t[k] = <<h, b + k - 1>>
      /\ \A k \in 1..(c - a) : u[k] = <<h, a + k - 1>>
  BY DEF Span
<1> HIDE DEF s, t, u
<1>5. /\ v \in Seq(TextUnits) /\ Len(v) = Len(s) + Len(t)
      /\ \A k \in 1..(Len(s) + Len(t)) : v[k] = IF k <= Len(s) THEN s[k] ELSE t[k - Len(s)]
  BY <1>1, ConcatProperties DEF Then
<1> HIDE DEF v
<1>6. ASSUME NEW k \in 1..Len(v)  PROVE v[k] = u[k]
  <2>1. k \in 1..(Len(s) + Len(t)) /\ k \in 1..(c - a) /\ k \in Nat  BY <1>2, <1>3, <1>5
  <2>2. CASE k <= b - a
    <3>1. k \in 1..(b - a) /\ k <= Len(s)  BY <1>3, <2>1, <2>2
    <3>2. v[k] = s[k]  BY <1>5, <2>1, <3>1
    <3>3. QED  BY <1>4, <2>1, <3>1, <3>2
  <2>3. CASE ~(k <= b - a)
    <3>1. /\ k - (b - a) \in 1..(c - b) /\ b + (k - (b - a)) - 1 = a + k - 1
          /\ ~(k <= Len(s)) /\ k - Len(s) = k - (b - a)
      BY <1>2, <1>3, <2>1, <2>3
    <3>2. v[k] = t[k - (b - a)]  BY <1>5, <2>1, <3>1
    <3>3. t[k - (b - a)] = <<h, b + (k - (b - a)) - 1>>  BY <1>4, <3>1
    <3>4. QED  BY <1>4, <2>1, <3>1, <3>2, <3>3
  <2>4. QED  BY <2>2, <2>3
<1>7. Len(v) = Len(u)  BY <1>2, <1>3, <1>5
<1>8. QED  BY <1>1, <1>5, <1>6, <1>7, SeqEqual DEF v, s, t, u

-----------------------------------------------------------------------------
(* What a container holds *)

Listed == NodeIds \cup Hashes

\* A container holds hashes and nodes.
LEMMA HeldType ==
  ASSUME NEW c \in Containers
  PROVE  Held(c) \in Seq(Listed)
<1>1. CASE c \in Histories
  <2>1. Messages[c] \in Seq(Hashes)  BY <1>1, RetrievalAssumption
  <2>2. Hashes \subseteq Listed  BY DEF Listed
  <2>3. QED  BY <1>1, <2>1, <2>2, SeqMonotonic DEF Held
<1>2. CASE c \notin Histories
  <2>1. NodeChildren[c] \in Seq(NodeIds) /\ NodeSources[c] \in Seq(Hashes)
    BY <1>2, RetrievalAssumption DEF Containers
  <2>2. Hashes \subseteq Listed /\ NodeIds \subseteq Listed  BY DEF Listed
  <2>3. NodeChildren[c] \in Seq(Listed) /\ NodeSources[c] \in Seq(Listed)  BY <2>1, <2>2, SeqMonotonic
  <2>4. NodeChildren[c] \o NodeSources[c] \in Seq(Listed)  BY <2>3, ConcatProperties
  <2>5. QED  BY <1>2, <2>4 DEF Held
<1>3. QED  BY <1>1, <1>2

\* The one container an entry stands for.
Container(c, e) == CHOOSE b \in StandsFor(c, e) : TRUE

\* An entry stands for one container, or is a message with a text.
LEMMA StandsForOne ==
  ASSUME NEW c, NEW e \in Listed
  PROVE  /\ StandsFor(c, e) = {} => e \in Hashes
         /\ StandsFor(c, e) # {} => /\ Container(c, e) \in Containers
                                    /\ StandsFor(c, e) = {Container(c, e)}
<1>1. StandsFor(c, e) = {} => e \in Hashes  BY DEF StandsFor, Listed
<1>2. StandsFor(c, e) \subseteq Containers  BY RetrievalAssumption DEF StandsFor, Containers
<1>3. \A a, b \in StandsFor(c, e) : a = b  BY DEF StandsFor
<1>4. StandsFor(c, e) # {} => Container(c, e) \in StandsFor(c, e)  BY DEF Container
<1>5. QED  BY <1>1, <1>2, <1>3, <1>4

\* Lengths of texts are natural numbers.
LEMMA LengthType ==
  ASSUME NEW e \in Hashes
  PROVE  Len(Text[e]) \in Nat /\ Length(Text[e]) \in Nat
<1>1. Text[e] \in Seq(1..4)  BY RetrievalAssumption
<1>2. Len(Text[e]) \in Nat  BY <1>1, LenProperties
<1>3. Len(Text[e]) + 1 \in Nat \ {0} /\ Len(Text[e]) + 1 <= Len(Text[e]) + 1  BY <1>2
<1>4. QED  BY <1>2, <1>3, OffsetGrows DEF Length

\* A whole message is a sequence of units.
LEMMA WholeType ==
  ASSUME NEW e \in Hashes
  PROVE  Whole(e) \in Seq(TextUnits)
BY LengthType, SpanType DEF Whole

\* One level of the recursion of UnitsTo.
PieceAt(d, c, e, below) ==
  IF StandsFor(c, e) = {} THEN Whole(e)
  ELSE IF d = 0 THEN <<>>
  ELSE below[CHOOSE b \in StandsFor(c, e) : TRUE]
PiecesAt(d, c, below) == [k \in 1..Len(Held(c)) |-> PieceAt(d, c, Held(c)[k], below)]
LevelAt(d, below) == [c \in Containers |-> FlattenSeq(PiecesAt(d, c, below))]
LevelsOf(N, g) == g = [d \in 0..N |-> LevelAt(d, g[d - 1])]

\* At depth 0 nothing below is looked at.
LEMMA LevelZero ==
  ASSUME NEW x, NEW y
  PROVE  LevelAt(0, x) = LevelAt(0, y)
<1>1. \A c \in Containers : PiecesAt(0, c, x) = PiecesAt(0, c, y)  BY DEF PiecesAt, PieceAt
<1>2. QED  BY <1>1 DEF LevelAt

\* The recursive function UnitsTo exists.
LEMMA LevelsExist ==
  ASSUME NEW N \in Nat
  PROVE  \E g : LevelsOf(N, g)
<1> DEFINE P == {n \in Nat : \E g : LevelsOf(n, g)}
<1>1. 0 \in P
  <2> DEFINE g == [d \in 0..0 |-> LevelAt(0, <<>>)]
  <2>1. g = [d \in 0..0 |-> LevelAt(d, g[d - 1])]
    <3>1. \A d \in 0..0 : d = 0  OBVIOUS
    <3>2. \A d \in 0..0 : LevelAt(d, g[d - 1]) = LevelAt(0, <<>>)  BY <3>1, LevelZero
    <3>3. QED  BY <3>2
  <2>2. LevelsOf(0, g)  BY <2>1 DEF LevelsOf
  <2>3. QED  BY <2>2
<1>2. ASSUME NEW n \in Nat, n \in P  PROVE n + 1 \in P
  <2>1. PICK g : LevelsOf(n, g)  BY <1>2
  <2> DEFINE h == [d \in 0..(n + 1) |-> LevelAt(d, g[d - 1])]
  <2>2. \A d \in 0..n : h[d] = g[d]
    <3>1. \A d \in 0..n : d \in 0..(n + 1)  OBVIOUS
    <3>2. \A d \in 0..n : g[d] = LevelAt(d, g[d - 1])  BY <2>1 DEF LevelsOf
    <3>3. QED  BY <3>1, <3>2
  <2>3. \A d \in 0..(n + 1) : d = 0 \/ d - 1 \in 0..n  OBVIOUS
  <2>4. ASSUME NEW d \in 0..(n + 1)  PROVE LevelAt(d, g[d - 1]) = LevelAt(d, h[d - 1])
    <3> HIDE DEF h
    <3>1. CASE d = 0  BY <3>1, LevelZero
    <3>2. CASE d # 0
      <4>1. h[d - 1] = g[d - 1]  BY <2>2, <2>3, <3>2
      <4>2. QED  BY <4>1
    <3>3. QED  BY <3>1, <3>2
  <2>5. h = [d \in 0..(n + 1) |-> LevelAt(d, h[d - 1])]  BY <2>4
  <2>6. LevelsOf(n + 1, h)
    <3> HIDE DEF h
    <3>1. QED  BY <2>5 DEF LevelsOf
  <2>7. QED  BY <2>6
<1> HIDE DEF P
<1>3. N \in P  BY <1>1, <1>2, AllNumbers
<1>4. QED  BY <1>3 DEF P

\* UnitsTo satisfies its equation at every depth.
LEMMA UnitsStep ==
  ASSUME NEW d \in 0..MaxDepth
  PROVE  UnitsTo[d] = LevelAt(d, UnitsTo[d - 1])
<1> DEFINE h == CHOOSE g : LevelsOf(MaxDepth, g)
<1>1. \E g : LevelsOf(MaxDepth, g)  BY RetrievalAssumption, LevelsExist
<1>2. LevelsOf(MaxDepth, h)  BY <1>1
<1>3. UnitsTo = h  BY DEF UnitsTo, LevelsOf, LevelAt, PiecesAt, PieceAt
<1> HIDE DEF h
<1>4. LevelsOf(MaxDepth, UnitsTo)  BY <1>2, <1>3
<1>5. QED  BY <1>4 DEF LevelsOf

\* What the entries of a container stand for are sequences of units.
LEMMA PiecesAtType ==
  ASSUME NEW d \in Nat, NEW c \in Containers, NEW below,
         d # 0 => below \in [Containers -> Seq(TextUnits)]
  PROVE  PiecesAt(d, c, below) \in Seq(Seq(TextUnits))
<1> DEFINE S == Seq(TextUnits)
           rows == Held(c)
<1>1. rows \in Seq(Listed) /\ Len(rows) \in Nat  BY HeldType, LenProperties
<1> HIDE DEF rows
<1>2. ASSUME NEW k \in 1..Len(rows)  PROVE PieceAt(d, c, rows[k], below) \in S
  <2>1. rows[k] \in Listed  BY <1>1, ElementOfSeq
  <2>2. CASE StandsFor(c, rows[k]) = {}
    <3>1. PieceAt(d, c, rows[k], below) = Whole(rows[k])  BY <2>2 DEF PieceAt
    <3>2. QED  BY <2>1, <2>2, <3>1, StandsForOne, WholeType
  <2>3. CASE StandsFor(c, rows[k]) # {} /\ d = 0
    <3>1. <<>> \in S  OBVIOUS
    <3>2. QED  BY <2>3, <3>1 DEF PieceAt
  <2>4. CASE StandsFor(c, rows[k]) # {} /\ d # 0
    <3>1. Container(c, rows[k]) \in Containers  BY <2>1, <2>4, StandsForOne
    <3>2. PieceAt(d, c, rows[k], below) = below[Container(c, rows[k])]  BY <2>4 DEF PieceAt, Container
    <3>3. QED  BY <2>4, <3>1, <3>2
  <2>5. QED  BY <2>2, <2>3, <2>4
<1> HIDE DEF S
<1>3. PiecesAt(d, c, below) = [k \in 1..Len(rows) |-> PieceAt(d, c, rows[k], below)]
  BY DEF PiecesAt, rows
<1>4. [k \in 1..Len(rows) |-> PieceAt(d, c, rows[k], below)] \in Seq(S)  BY <1>1, <1>2, IsASeq
<1>5. QED  BY <1>3, <1>4 DEF S

\* UnitsTo gives sequences of units.
LEMMA UnitsType ==  \A d \in 0..MaxDepth : UnitsTo[d] \in [Containers -> Seq(TextUnits)]
<1> DEFINE P == {d \in Nat : d <= MaxDepth => UnitsTo[d] \in [Containers -> Seq(TextUnits)]}
<1>0. MaxDepth \in Nat  BY RetrievalAssumption
<1>1. ASSUME NEW d \in 0..MaxDepth, d # 0 => UnitsTo[d - 1] \in [Containers -> Seq(TextUnits)]
      PROVE  UnitsTo[d] \in [Containers -> Seq(TextUnits)]
  <2>1. UnitsTo[d] = [c \in Containers |-> FlattenSeq(PiecesAt(d, c, UnitsTo[d - 1]))]
    BY UnitsStep DEF LevelAt
  <2>2. d \in Nat  OBVIOUS
  <2>3. ASSUME NEW c \in Containers  PROVE FlattenSeq(PiecesAt(d, c, UnitsTo[d - 1])) \in Seq(TextUnits)
    <3>1. PiecesAt(d, c, UnitsTo[d - 1]) \in Seq(Seq(TextUnits))  BY <1>1, <2>2, PiecesAtType
    <3>2. QED  BY <3>1, FlattenType
  <2>4. QED  BY <2>1, <2>3
<1>2. 0 \in P
  <2>1. 0 \in 0..MaxDepth  BY <1>0
  <2>2. QED  BY <1>1, <2>1
<1>3. ASSUME NEW d \in Nat, d \in P  PROVE d + 1 \in P
  <2>1. SUFFICES ASSUME d + 1 <= MaxDepth  PROVE UnitsTo[d + 1] \in [Containers -> Seq(TextUnits)]
    OBVIOUS
  <2>2. d + 1 \in 0..MaxDepth /\ (d + 1) - 1 = d /\ d <= MaxDepth  BY <1>0, <2>1
  <2>3. UnitsTo[d] \in [Containers -> Seq(TextUnits)]  BY <1>3, <2>2
  <2>4. QED  BY <1>1, <2>2, <2>3
<1> HIDE DEF P
<1>4. \A d \in Nat : d \in P  BY <1>2, <1>3, AllNumbers
<1>5. QED  BY <1>0, <1>4 DEF P

\* Below the height of a container the level no longer matters.
LEMMA UnitsStable ==
  ASSUME NEW height \in [Containers -> 0..MaxDepth],
         \A c \in Containers : \A k \in 1..Len(Held(c)) :
           \A b \in StandsFor(c, Held(c)[k]) : height[b] < height[c]
  PROVE  \A c \in Containers : \A d, e \in height[c]..MaxDepth : UnitsTo[d][c] = UnitsTo[e][c]
<1> DEFINE Q == {n \in Nat : \A c \in Containers : height[c] <= n =>
                   \A d, e \in height[c]..MaxDepth : UnitsTo[d][c] = UnitsTo[e][c]}
<1>0. MaxDepth \in Nat /\ \A c \in Containers : height[c] \in Nat /\ height[c] <= MaxDepth
  BY RetrievalAssumption
<1>1. ASSUME NEW c \in Containers, NEW d \in 0..MaxDepth, NEW e \in 0..MaxDepth,
             height[c] <= d, height[c] <= e,
             \A b \in Containers : height[b] < height[c] => UnitsTo[d - 1][b] = UnitsTo[e - 1][b]
      PROVE  UnitsTo[d][c] = UnitsTo[e][c]
  <2> DEFINE rows == Held(c)
  <2>1. rows \in Seq(Listed)  BY HeldType
  <2>2. ASSUME NEW k \in 1..Len(rows)
        PROVE  PieceAt(d, c, rows[k], UnitsTo[d - 1]) = PieceAt(e, c, rows[k], UnitsTo[e - 1])
    <3>1. rows[k] \in Listed /\ \A b \in StandsFor(c, rows[k]) : height[b] < height[c]
      BY <2>1, ElementOfSeq
    <3> HIDE DEF rows
    <3>2. CASE StandsFor(c, rows[k]) = {}  BY <3>2 DEF PieceAt
    <3>3. CASE StandsFor(c, rows[k]) # {}
      <4> DEFINE b == Container(c, rows[k])
      <4>1. b \in Containers /\ b \in StandsFor(c, rows[k])  BY <3>1, <3>3, StandsForOne
      <4>2. height[b] < height[c]  BY <3>1, <4>1
      <4>3. UnitsTo[d - 1][b] = UnitsTo[e - 1][b]  BY <1>1, <4>1, <4>2
      <4>4. d # 0 /\ e # 0
        <5>1. height[b] \in Nat /\ height[c] \in Nat  BY <1>0, <4>1
        <5>2. QED  BY <1>1, <4>2, <5>1
      <4>5. QED  BY <3>3, <4>3, <4>4 DEF PieceAt, Container
    <3>4. QED  BY <3>2, <3>3
  <2>3. PiecesAt(d, c, UnitsTo[d - 1]) = PiecesAt(e, c, UnitsTo[e - 1])  BY <2>2 DEF PiecesAt
  <2>4. UnitsTo[d][c] = FlattenSeq(PiecesAt(d, c, UnitsTo[d - 1]))  BY UnitsStep DEF LevelAt
  <2>5. UnitsTo[e][c] = FlattenSeq(PiecesAt(e, c, UnitsTo[e - 1]))  BY UnitsStep DEF LevelAt
  <2>6. QED  BY <2>3, <2>4, <2>5
<1>2. 0 \in Q
  <2>1. ASSUME NEW c \in Containers, height[c] <= 0, NEW d \in height[c]..MaxDepth,
               NEW e \in height[c]..MaxDepth
        PROVE  UnitsTo[d][c] = UnitsTo[e][c]
    <3>1. height[c] = 0 /\ d \in 0..MaxDepth /\ e \in 0..MaxDepth /\ height[c] <= d /\ height[c] <= e
      BY <1>0, <2>1
    <3>2. \A b \in Containers : ~(height[b] < height[c])  BY <1>0, <3>1
    <3>3. QED  BY <1>1, <3>1, <3>2
  <2>2. QED  BY <2>1
<1>3. ASSUME NEW n \in Nat, n \in Q  PROVE n + 1 \in Q
  <2>1. ASSUME NEW c \in Containers, height[c] <= n + 1, NEW d \in height[c]..MaxDepth,
               NEW e \in height[c]..MaxDepth
        PROVE  UnitsTo[d][c] = UnitsTo[e][c]
    <3>1. height[c] \in Nat /\ d \in 0..MaxDepth /\ e \in 0..MaxDepth /\ height[c] <= d /\ height[c] <= e
      BY <1>0, <2>1
    <3>2. ASSUME NEW b \in Containers, height[b] < height[c]
          PROVE  UnitsTo[d - 1][b] = UnitsTo[e - 1][b]
      <4>1. height[b] \in Nat /\ height[b] <= n  BY <1>0, <2>1, <3>1, <3>2
      <4>2. d - 1 \in height[b]..MaxDepth /\ e - 1 \in height[b]..MaxDepth  BY <1>0, <3>1, <3>2, <4>1
      <4>3. QED  BY <1>3, <4>1, <4>2
    <3>3. QED  BY <1>1, <3>1, <3>2
  <2>2. QED  BY <2>1
<1> HIDE DEF Q
<1>4. \A n \in Nat : n \in Q  BY <1>2, <1>3, AllNumbers
<1>5. QED  BY <1>0, <1>4 DEF Q

\* What an entry of a container stands for, in units.
PieceOf(c, e) == IF StandsFor(c, e) = {} THEN Whole(e) ELSE Content(Container(c, e))
Pieces(c, rows) == [k \in 1..Len(rows) |-> PieceOf(c, rows[k])]

\* The text below a container is a sequence of units.
LEMMA ContentType ==
  ASSUME NEW c \in Containers
  PROVE  Content(c) \in Seq(TextUnits)
<1>1. MaxDepth \in 0..MaxDepth  BY RetrievalAssumption
<1>2. QED  BY <1>1, UnitsType DEF Content

\* What an entry stands for is a sequence of units.
LEMMA PieceType ==
  ASSUME NEW c, NEW e \in Listed
  PROVE  PieceOf(c, e) \in Seq(TextUnits)
BY StandsForOne, WholeType, ContentType DEF PieceOf

\* So is what each row of a list stands for.
LEMMA PiecesType ==
  ASSUME NEW c, NEW rows \in Seq(Listed)
  PROVE  /\ Pieces(c, rows) \in Seq(Seq(TextUnits)) /\ Len(Pieces(c, rows)) = Len(rows)
         /\ \A k \in 1..Len(rows) : Pieces(c, rows)[k] = PieceOf(c, rows[k])
<1> DEFINE S == Seq(TextUnits)
<1>1. Len(rows) \in Nat  OBVIOUS
<1>2. \A k \in 1..Len(rows) : PieceOf(c, rows[k]) \in S
  <2>1. \A k \in 1..Len(rows) : rows[k] \in Listed  BY ElementOfSeq
  <2>2. QED  BY <2>1, PieceType
<1> HIDE DEF S
<1>3. [k \in 1..Len(rows) |-> PieceOf(c, rows[k])] \in Seq(S)  BY <1>1, <1>2, IsASeq
<1>4. QED  BY <1>1, <1>3 DEF S, Pieces

\* A container's content is that of its entries, one after the other.
LEMMA ContentIs ==
  ASSUME NEW c \in Containers
  PROVE  Content(c) = FlattenSeq(Pieces(c, Held(c)))
<1> DEFINE rows == Held(c)
<1>1. PICK height \in [Containers -> 0..MaxDepth] :
        \A a \in Containers : \A k \in 1..Len(Held(a)) :
          \A b \in StandsFor(a, Held(a)[k]) : height[b] < height[a]
  BY NestingAssumption
<1>2. \A a \in Containers : \A d, e \in height[a]..MaxDepth : UnitsTo[d][a] = UnitsTo[e][a]
  BY <1>1, UnitsStable
<1>3. MaxDepth \in Nat /\ MaxDepth \in 0..MaxDepth  BY RetrievalAssumption
<1>4. Content(c) = FlattenSeq(PiecesAt(MaxDepth, c, UnitsTo[MaxDepth - 1]))
  BY <1>3, UnitsStep DEF Content, LevelAt
<1>5. rows \in Seq(Listed) /\ \A k \in 1..Len(rows) : rows[k] \in Listed  BY HeldType, ElementOfSeq
<1>6. ASSUME NEW k \in 1..Len(rows)
      PROVE  PieceAt(MaxDepth, c, rows[k], UnitsTo[MaxDepth - 1]) = PieceOf(c, rows[k])
  <2>1. \A b \in StandsFor(c, rows[k]) : height[b] < height[c]  BY <1>1
  <2> HIDE DEF rows
  <2>2. CASE StandsFor(c, rows[k]) = {}  BY <2>2 DEF PieceAt, PieceOf
  <2>3. CASE StandsFor(c, rows[k]) # {}
    <3> DEFINE b == Container(c, rows[k])
    <3>1. b \in Containers /\ b \in StandsFor(c, rows[k])  BY <1>5, <2>3, StandsForOne
    <3>2. height[b] < height[c] /\ height[b] \in 0..MaxDepth /\ height[c] \in 0..MaxDepth
      BY <1>1, <2>1, <3>1
    <3> HIDE DEF b
    <3>3. MaxDepth # 0 /\ MaxDepth - 1 \in height[b]..MaxDepth /\ MaxDepth \in height[b]..MaxDepth
      BY <1>3, <3>2
    <3>4. UnitsTo[MaxDepth - 1][b] = UnitsTo[MaxDepth][b]  BY <1>2, <3>1, <3>3
    <3>5. QED  BY <2>3, <3>3, <3>4 DEF PieceAt, PieceOf, Content, Container, b
  <2>4. QED  BY <2>2, <2>3
<1>7. PiecesAt(MaxDepth, c, UnitsTo[MaxDepth - 1]) = Pieces(c, rows)  BY <1>6 DEF PiecesAt, Pieces
<1>8. QED  BY <1>4, <1>7

-----------------------------------------------------------------------------
(* What is left for a reader *)

Places == Containers \cup {"hits"}
Stacks == Seq(Places \X Nat)
RowsOf(c, snapshot) == IF c \in Containers THEN Held(c) ELSE snapshot

\* What is left of the container of a frame, and of a stack of frames.
Left(f, snapshot) == After(Pieces(f[1], RowsOf(f[1], snapshot)), f[2])
Lefts(stack, snapshot) == [k \in 1..Len(stack) |-> Left(stack[k], snapshot)]
Remaining(stack, snapshot) == Down(Lefts(stack, snapshot))

\* The rows of a container, or of a list of hits, are hashes and nodes.
LEMMA RowsType ==
  ASSUME NEW c, NEW snapshot \in Seq(Hashes)
  PROVE  RowsOf(c, snapshot) \in Seq(Listed)
<1>1. Hashes \subseteq Listed  BY DEF Listed
<1>2. QED  BY <1>1, HeldType, SeqMonotonic DEF RowsOf

\* What is left of a container is a sequence of units.
LEMMA LeftType ==
  ASSUME NEW f \in Places \X Nat, NEW snapshot \in Seq(Hashes)
  PROVE  Left(f, snapshot) \in Seq(TextUnits)
<1>1. RowsOf(f[1], snapshot) \in Seq(Listed) /\ f[2] \in Nat  BY RowsType
<1>2. Pieces(f[1], RowsOf(f[1], snapshot)) \in Seq(Seq(TextUnits))  BY <1>1, PiecesType
<1>3. QED  BY <1>1, <1>2, AfterType DEF Left

\* So is what is left at each level of a stack.
LEMMA LeftsType ==
  ASSUME NEW stack \in Stacks, NEW snapshot \in Seq(Hashes)
  PROVE  Lefts(stack, snapshot) \in Seq(Seq(TextUnits)) /\ Len(Lefts(stack, snapshot)) = Len(stack)
<1> DEFINE S == Seq(TextUnits)
<1>1. Len(stack) \in Nat  BY LenProperties DEF Stacks
<1>2. \A k \in 1..Len(stack) : Left(stack[k], snapshot) \in S
  <2>1. \A k \in 1..Len(stack) : stack[k] \in Places \X Nat  BY ElementOfSeq DEF Stacks
  <2>2. QED  BY <2>1, LeftType
<1> HIDE DEF S
<1>3. [k \in 1..Len(stack) |-> Left(stack[k], snapshot)] \in Seq(S)  BY <1>1, <1>2, IsASeq
<1>4. QED  BY <1>1, <1>3 DEF S, Lefts

\* And what is left of a stack.
LEMMA RemainingType ==
  ASSUME NEW stack \in Stacks, NEW snapshot \in Seq(Hashes)
  PROVE  Remaining(stack, snapshot) \in Seq(TextUnits)
BY LeftsType, DownType DEF Remaining

\* After a push, what is left of the new container comes first.
LEMMA RemainingPush ==
  ASSUME NEW stack \in Stacks, NEW f \in Places \X Nat, NEW snapshot \in Seq(Hashes)
  PROVE  /\ Append(stack, f) \in Stacks
         /\ Remaining(Append(stack, f), snapshot) = Then(Left(f, snapshot), Remaining(stack, snapshot))
<1> DEFINE S == Seq(TextUnits)
           a == Append(stack, f)
           l == Lefts(stack, snapshot)
           u == Lefts(a, snapshot)
           x == Left(f, snapshot)
           v == Append(l, x)
           n == Len(stack)
<1>1. a \in Stacks /\ n \in Nat /\ Len(a) = n + 1 /\ a[n + 1] = f /\ \A k \in 1..n : a[k] = stack[k]
  BY AppendProperties, LenProperties DEF Stacks
<1> HIDE DEF a
<1>2. l \in Seq(S) /\ u \in Seq(S) /\ Len(l) = n /\ Len(u) = n + 1  BY <1>1, LeftsType
<1>3. x \in S  BY LeftType
<1>4. (\A k \in 1..n : l[k] = Left(stack[k], snapshot)) /\ \A k \in 1..(n + 1) : u[k] = Left(a[k], snapshot)
  BY <1>1 DEF Lefts
<1> HIDE DEF S, l, u, x, n
<1>5. v \in Seq(S) /\ Len(v) = n + 1 /\ v[n + 1] = x /\ \A k \in 1..n : v[k] = l[k]
  BY <1>2, <1>3, AppendProperties
<1> HIDE DEF v
<1>6. ASSUME NEW k \in 1..Len(u)  PROVE u[k] = v[k]
  <2>1. k \in 1..(n + 1)  BY <1>2
  <2>2. CASE k = n + 1  BY <1>1, <1>4, <1>5, <2>1, <2>2 DEF x
  <2>3. CASE k # n + 1
    <3>1. k \in 1..n  BY <1>1, <2>1, <2>3
    <3>2. QED  BY <1>1, <1>4, <1>5, <2>1, <3>1
  <2>4. QED  BY <2>2, <2>3
<1>7. Len(u) = Len(v)  BY <1>2, <1>5
<1>8. u = v  BY <1>2, <1>5, <1>6, <1>7, SeqEqual
<1>9. Down(v) = Then(x, Down(l))  BY <1>2, <1>3, DownAppend DEF S, v
<1>10. QED  BY <1>1, <1>8, <1>9 DEF Remaining, u, l, x, a

\* A sequence is its front and its last member.
LEMMA FrontLast ==
  ASSUME NEW S, NEW s \in Seq(S), s # <<>>
  PROVE  Front(s) \in Seq(S) /\ Last(s) \in S /\ s = Append(Front(s), Last(s)) /\ Len(Front(s)) = Len(s) - 1
<1>1. PICK t \in Seq(S), x \in S : s = Append(t, x)  BY SequenceEmptyOrAppend
<1>2. Len(t) \in Nat /\ Len(s) = Len(t) + 1 /\ s[Len(t) + 1] = x /\ \A k \in 1..Len(t) : s[k] = t[k]
  BY <1>1, AppendProperties, LenProperties
<1>3. Last(s) = x  BY <1>2 DEF Last
<1>4. Front(s) = t
  <2>1. Len(s) - 1 = Len(t) /\ Len(s) \in Nat  BY <1>2
  <2>2. Front(s) = SubSeq(s, 1, Len(t))  BY <2>1 DEF Front
  <2>3. \A k \in 1..Len(t) : k \in 1..Len(s)  BY <1>2
  <2>4. SubSeq(s, 1, Len(t)) = [k \in 1..Len(t) |-> s[k]]  BY <1>2, <2>3
  <2>5. t = [k \in 1..Len(t) |-> t[k]]  OBVIOUS
  <2>6. QED  BY <1>2, <2>2, <2>4, <2>5
<1>5. QED  BY <1>1, <1>2, <1>3, <1>4

\* The stack when the reader has gone past the entry it is at.
StepOn(stack) == Append(Front(stack), <<Last(stack)[1], Last(stack)[2] + 1>>)
At(stack, snapshot) == RowsOf(Last(stack)[1], snapshot)
Entry(stack, snapshot) == At(stack, snapshot)[Last(stack)[2] + 1]

\* A stack that steps on to the next entry is a stack.
LEMMA StepOnType ==
  ASSUME NEW stack \in Stacks, stack # <<>>
  PROVE  /\ StepOn(stack) \in Stacks /\ Front(stack) \in Stacks /\ Last(stack) \in Places \X Nat
         /\ <<Last(stack)[1], Last(stack)[2] + 1>> \in Places \X Nat
<1>1. Front(stack) \in Stacks /\ Last(stack) \in Places \X Nat  BY FrontLast DEF Stacks
<1>2. <<Last(stack)[1], Last(stack)[2] + 1>> \in Places \X Nat  BY <1>1
<1>3. QED  BY <1>1, <1>2, AppendProperties DEF StepOn, Stacks

\* What is left of a stack: of the container on top, then of those below.
LEMMA RemainingTop ==
  ASSUME NEW stack \in Stacks, stack # <<>>, NEW snapshot \in Seq(Hashes)
  PROVE  Remaining(stack, snapshot) = Then(Left(Last(stack), snapshot), Remaining(Front(stack), snapshot))
<1>1. stack = Append(Front(stack), Last(stack))  BY FrontLast DEF Stacks
<1>2. Front(stack) \in Stacks /\ Last(stack) \in Places \X Nat  BY StepOnType
<1>3. QED  BY <1>1, <1>2, RemainingPush

\* A container without rows left may be taken off.
LEMMA RemainingPop ==
  ASSUME NEW stack \in Stacks, stack # <<>>, NEW snapshot \in Seq(Hashes),
         Last(stack)[2] >= Len(At(stack, snapshot))
  PROVE  Remaining(Front(stack), snapshot) = Remaining(stack, snapshot)
<1> DEFINE f == Last(stack)
           rows == At(stack, snapshot)
<1>1. Front(stack) \in Stacks /\ f \in Places \X Nat  BY StepOnType
<1>2. rows \in Seq(Listed) /\ f[2] \in Nat  BY <1>1, RowsType DEF At
<1>3. Pieces(f[1], rows) \in Seq(Seq(TextUnits)) /\ Len(Pieces(f[1], rows)) = Len(rows)
  BY <1>2, PiecesType
<1>4. After(Pieces(f[1], rows), f[2]) = <<>>  BY <1>2, <1>3, AfterAll
<1>5. Left(f, snapshot) = <<>>  BY <1>4 DEF Left, At
<1>6. Remaining(Front(stack), snapshot) \in Seq(TextUnits)  BY <1>1, RemainingType
<1>7. QED  BY <1>5, <1>6, RemainingTop, ThenEmpty

\* What is left begins with what the entry at hand stands for.
LEMMA RemainingStep ==
  ASSUME NEW stack \in Stacks, stack # <<>>, NEW snapshot \in Seq(Hashes),
         Last(stack)[2] < Len(At(stack, snapshot))
  PROVE  /\ Entry(stack, snapshot) \in Listed
         /\ Remaining(stack, snapshot) =
              Then(PieceOf(Last(stack)[1], Entry(stack, snapshot)), Remaining(StepOn(stack), snapshot))
<1> DEFINE f == Last(stack)
           rows == At(stack, snapshot)
           p == Pieces(f[1], rows)
           r == Remaining(Front(stack), snapshot)
           g == <<f[1], f[2] + 1>>
           e == Entry(stack, snapshot)
<1>1. Front(stack) \in Stacks /\ f \in Places \X Nat /\ g \in Places \X Nat  BY StepOnType
<1>2. rows \in Seq(Listed) /\ f[2] \in Nat  BY <1>1, RowsType DEF At
<1>3. f[2] + 1 \in 1..Len(rows)  BY <1>2
<1>4. e \in Listed  BY <1>2, <1>3, ElementOfSeq DEF Entry
<1>5. p \in Seq(Seq(TextUnits)) /\ Len(p) = Len(rows) /\ p[f[2] + 1] = PieceOf(f[1], e)
  BY <1>2, <1>3, PiecesType DEF Entry
<1>6. After(p, f[2]) = Then(p[f[2] + 1], After(p, f[2] + 1))
  <2> HIDE DEF p, rows, f
  <2>1. QED  BY <1>2, <1>5, AfterNext DEF rows, f
<1>7. g[1] = f[1] /\ g[2] = f[2] + 1  OBVIOUS
<1>8. Left(f, snapshot) = After(p, f[2]) /\ Left(g, snapshot) = After(p, f[2] + 1)
  BY <1>7 DEF Left, At
<1>9. Remaining(StepOn(stack), snapshot) = Then(Left(g, snapshot), r)  BY <1>1, RemainingPush DEF StepOn
<1>10. r \in Seq(TextUnits) /\ Left(g, snapshot) \in Seq(TextUnits) /\ PieceOf(f[1], e) \in Seq(TextUnits)
  BY <1>1, <1>4, RemainingType, LeftType, PieceType
<1> HIDE DEF f, rows, p, r, g, e
<1>11. Then(Then(PieceOf(f[1], e), Left(g, snapshot)), r) = Then(PieceOf(f[1], e), Then(Left(g, snapshot), r))
  BY <1>10, ThenThen
<1>12. Remaining(stack, snapshot) = Then(Left(f, snapshot), r)  BY RemainingTop DEF f, r
<1>13. QED  BY <1>4, <1>5, <1>6, <1>8, <1>9, <1>11, <1>12 DEF f, e

\* Of a container just opened everything is left.
LEMMA LeftWhole ==
  ASSUME NEW c \in Containers, NEW snapshot
  PROVE  Left(<<c, 0>>, snapshot) = Content(c)
<1>1. Pieces(c, Held(c)) \in Seq(Seq(TextUnits))  BY HeldType, PiecesType
<1>2. RowsOf(c, snapshot) = Held(c)  BY DEF RowsOf
<1>3. After(Pieces(c, Held(c)), 0) = FlattenSeq(Pieces(c, Held(c)))  BY <1>1, AfterNone
<1>4. QED  BY <1>2, <1>3, ContentIs DEF Left

\* Going on inside an entry changes nothing about what is left.
LEMMA RemainingInside ==
  ASSUME NEW stack \in Stacks, stack # <<>>, NEW snapshot \in Seq(Hashes),
         Last(stack)[2] < Len(At(stack, snapshot)),
         NEW b, b \in StandsFor(Last(stack)[1], Entry(stack, snapshot))
  PROVE  /\ b \in Containers /\ Append(StepOn(stack), <<b, 0>>) \in Stacks
         /\ Remaining(Append(StepOn(stack), <<b, 0>>), snapshot) = Remaining(stack, snapshot)
<1>1. Entry(stack, snapshot) \in Listed  BY RemainingStep
<1>2. b \in Containers /\ b = Container(Last(stack)[1], Entry(stack, snapshot))  BY <1>1, StandsForOne
<1>3. PieceOf(Last(stack)[1], Entry(stack, snapshot)) = Content(b)  BY <1>2 DEF PieceOf
<1>4. StepOn(stack) \in Stacks /\ <<b, 0>> \in Places \X Nat  BY <1>2, StepOnType DEF Places
<1>5. Remaining(Append(StepOn(stack), <<b, 0>>), snapshot) =
        Then(Left(<<b, 0>>, snapshot), Remaining(StepOn(stack), snapshot))
  BY <1>4, RemainingPush
<1>6. QED  BY <1>2, <1>3, <1>4, <1>5, RemainingPush, RemainingStep, LeftWhole

-----------------------------------------------------------------------------
(* The inductive invariant of a reader *)

\* What is left at a place: of the units of a history, of sources or of hits, or of the nodes
\* at a depth below a node.
Ahead(place, snapshot) ==
  LET e == Entry(place.stack, snapshot)
  IN IF place.intra = 0 THEN Remaining(place.stack, snapshot)
     ELSE Then(Span(e, place.intra, Length(Text[e])), Remaining(StepOn(place.stack), snapshot))

NodeBlocks(n, d) == [j \in 1..Len(NodeChildren[n]) |-> NodesAt[d][NodeChildren[n][j]]]
NodeLeft(f, k, depth) ==
  IF k - 1 >= depth \/ NodeChildren[f[1]] = <<>> THEN <<f[1]>>
  ELSE After(NodeBlocks(f[1], depth - k), f[2])
NodesLeft(stack, depth) == [k \in 1..Len(stack) |-> NodeLeft(stack[k], k, depth)]

Item == [hash : Hashes, from : Nat, to : Nat, missing : BOOLEAN]
Place == [stack : Stacks, intra : Nat]
ReaderType(items) ==
  [mode : {"history", "source", "children", "query"}, root : Places, depth : 0..MaxDepth,
   snapshot : Seq(Hashes), cursor : Place, state : Place, budget : Int, limit : Int,
   page : Seq(items), seen : Seq(items), busy : BOOLEAN, done : BOOLEAN,
   failed : BOOLEAN]

\* What the client is shown by items, what is left for it, and what it wants.
ItemsOf(r) == IF r.mode = "children" THEN NodeIds ELSE Item
UnitsOf(r) == IF r.mode = "children" THEN NodeIds ELSE TextUnits
ShownTo(r, items) == IF r.mode = "children" THEN items ELSE Shown(items)
LeftFor(r, place) ==
  IF r.mode = "children" THEN Down(NodesLeft(place.stack, r.depth)) ELSE Ahead(place, r.snapshot)
WantedBy(r) ==
  CASE r.mode = "children" -> NodesAt[r.depth][r.root]
    [] r.mode = "query" -> FlattenSeq([k \in 1..Len(r.snapshot) |-> Whole(r.snapshot[k])])
    [] OTHER -> Content(r.root)

\* The containers a reader may be in; inside a text only of an entry that is one.
Ground(r, stored) ==
  CASE r.mode = "history" -> stored [] r.mode = "query" -> {"hits"} [] OTHER -> NodeIds
Within(stack, places) == \A k \in 1..Len(stack) : stack[k][1] \in places
InText(stack, snapshot) ==
  /\ stack # <<>> /\ Last(stack)[2] < Len(At(stack, snapshot))
  /\ StandsFor(Last(stack)[1], Entry(stack, snapshot)) = {}
PlaceOK(r, place, stored) ==
  /\ Within(place.stack, Ground(r, stored))
  /\ place.intra # 0 => r.mode # "children" /\ InText(place.stack, r.snapshot)

\* Shown and left make what is wanted, at the cursor and at the page under way.
Accounted(r, items, place) == Then(ShownTo(r, items), LeftFor(r, place)) = WantedBy(r)
ReaderInv(r, stored) ==
  /\ r \in ReaderType(ItemsOf(r))
  /\ PlaceOK(r, r.cursor, stored) /\ (r.busy => PlaceOK(r, r.state, stored))
  /\ Accounted(r, r.seen, r.cursor) /\ (r.busy => Accounted(r, Then(r.seen, r.page), r.state))
  /\ r.done => r.cursor.stack = <<>>
  /\ IF r.busy THEN r.page = <<>> => r.budget > 0 /\ r.limit > 0 ELSE r.page = <<>>

ArchivesOK(stored) ==
  /\ stored \subseteq Owned
  /\ \A h \in stored : \A e \in ToSet(Messages[h]) : ChildOf[e] \in Owned => ChildOf[e] \in stored
RetrievalInv == ArchivesOK(archived) /\ (reader # Nobody => ReaderInv(reader, archived))

\* At an entry that is a text, its rest is what comes next.
LEMMA AheadLeaf ==
  ASSUME NEW place \in Place, NEW snapshot \in Seq(Hashes), InText(place.stack, snapshot)
  PROVE  /\ Entry(place.stack, snapshot) \in Hashes
         /\ Ahead(place, snapshot) =
              Then(Span(Entry(place.stack, snapshot), place.intra, Length(Text[Entry(place.stack, snapshot)])),
                   Remaining(StepOn(place.stack), snapshot))
<1> DEFINE s == place.stack
           e == Entry(s, snapshot)
<1>1. s \in Stacks /\ place.intra \in Nat  BY DEF Place
<1>2. s # <<>> /\ Last(s)[2] < Len(At(s, snapshot)) /\ StandsFor(Last(s)[1], e) = {}  BY DEF InText
<1> HIDE DEF s
<1>3. e \in Listed /\ Remaining(s, snapshot) = Then(PieceOf(Last(s)[1], e), Remaining(StepOn(s), snapshot))
  BY <1>1, <1>2, RemainingStep
<1>4. e \in Hashes  BY <1>2, <1>3, StandsForOne
<1>5. PieceOf(Last(s)[1], e) = Span(e, 0, Length(Text[e]))  BY <1>2 DEF PieceOf, Whole
<1> HIDE DEF e
<1>6. CASE place.intra = 0  BY <1>3, <1>4, <1>5, <1>6 DEF Ahead, s, e
<1>7. CASE place.intra # 0  BY <1>4, <1>7 DEF Ahead, s, e
<1>8. QED  BY <1>6, <1>7

\* What is ahead of a place is a sequence of units.
LEMMA AheadType ==
  ASSUME NEW place \in Place, NEW snapshot \in Seq(Hashes),
         place.intra # 0 => InText(place.stack, snapshot)
  PROVE  Ahead(place, snapshot) \in Seq(TextUnits)
<1> DEFINE s == place.stack
           e == Entry(s, snapshot)
<1>1. s \in Stacks /\ place.intra \in Nat  BY DEF Place
<1>2. CASE place.intra = 0
  <2>1. Ahead(place, snapshot) = Remaining(s, snapshot)  BY <1>2 DEF Ahead
  <2>2. QED  BY <1>1, <2>1, RemainingType
<1>3. CASE place.intra # 0
  <2>1. e \in Hashes /\ Ahead(place, snapshot) = Then(Span(e, place.intra, Length(Text[e])), Remaining(StepOn(s), snapshot))
    BY <1>3, AheadLeaf
  <2>2. s # <<>>  BY <1>3 DEF InText
  <2>3. Span(e, place.intra, Length(Text[e])) \in Seq(TextUnits)  BY <1>1, <2>1, LengthType, SpanType
  <2>4. Remaining(StepOn(s), snapshot) \in Seq(TextUnits)  BY <1>1, <2>2, StepOnType, RemainingType
  <2>5. QED  BY <2>1, <2>3, <2>4, ThenType
<1>4. QED  BY <1>2, <1>3

-----------------------------------------------------------------------------
(* What items show *)

\* What an item shows is a sequence of units.
LEMMA ShownByType ==
  ASSUME NEW item \in Item
  PROVE  ShownBy(item) \in Seq(TextUnits)
<1>1. item.hash \in Hashes /\ item.from \in Nat /\ item.to \in Nat  BY DEF Item
<1>2. Span(item.hash, item.from, item.to) \in Seq(TextUnits)  BY <1>1, SpanType
<1>3. ChildOf[item.hash] \in Owned => Content(ChildOf[item.hash]) \in Seq(TextUnits)
  <2>1. ChildOf[item.hash] \in Owned => ChildOf[item.hash] \in Containers
    BY RetrievalAssumption DEF Containers
  <2>2. QED  BY <2>1, ContentType
<1>4. QED  BY <1>2, <1>3 DEF ShownBy

ShownBlocks(items) == [k \in 1..Len(items) |-> ShownBy(items[k])]

\* So is what each of some items shows.
LEMMA ShownBlocksType ==
  ASSUME NEW items \in Seq(Item)
  PROVE  ShownBlocks(items) \in Seq(Seq(TextUnits)) /\ Len(ShownBlocks(items)) = Len(items)
<1> DEFINE S == Seq(TextUnits)
<1>1. Len(items) \in Nat  OBVIOUS
<1>2. \A k \in 1..Len(items) : ShownBy(items[k]) \in S
  <2>1. \A k \in 1..Len(items) : items[k] \in Item  BY ElementOfSeq
  <2>2. QED  BY <2>1, ShownByType
<1> HIDE DEF S
<1>3. [k \in 1..Len(items) |-> ShownBy(items[k])] \in Seq(S)  BY <1>1, <1>2, IsASeq
<1>4. QED  BY <1>1, <1>3 DEF S, ShownBlocks

\* And what they show together.
LEMMA ShownType ==
  ASSUME NEW items \in Seq(Item)
  PROVE  Shown(items) \in Seq(TextUnits)
BY ShownBlocksType, FlattenType DEF Shown, ShownBlocks

\* No items show nothing.
LEMMA ShownEmpty ==  Shown(<<>>) = <<>>
<1>1. [k \in 1..Len(<<>>) |-> ShownBy(<<>>[k])] = <<>>  OBVIOUS
<1>2. QED  BY <1>1, FlattenEmpty DEF Shown

\* An item more shows its units after the others.
LEMMA ShownAppend ==
  ASSUME NEW items \in Seq(Item), NEW item \in Item
  PROVE  Shown(Append(items, item)) = Then(Shown(items), ShownBy(item))
<1> DEFINE S == Seq(TextUnits)
           a == Append(items, item)
           l == ShownBlocks(items)
           u == ShownBlocks(a)
           x == ShownBy(item)
           v == Append(l, x)
           n == Len(items)
<1>1. a \in Seq(Item) /\ n \in Nat /\ Len(a) = n + 1 /\ a[n + 1] = item /\ \A k \in 1..n : a[k] = items[k]
  BY AppendProperties, LenProperties
<1> HIDE DEF a
<1>2. l \in Seq(S) /\ u \in Seq(S) /\ Len(l) = n /\ Len(u) = n + 1  BY <1>1, ShownBlocksType
<1>3. x \in S  BY ShownByType
<1>4. (\A k \in 1..n : l[k] = ShownBy(items[k])) /\ \A k \in 1..(n + 1) : u[k] = ShownBy(a[k])
  BY <1>1 DEF ShownBlocks
<1> HIDE DEF S, l, u, x, n
<1>5. v \in Seq(S) /\ Len(v) = n + 1 /\ v[n + 1] = x /\ \A k \in 1..n : v[k] = l[k]
  BY <1>2, <1>3, AppendProperties
<1> HIDE DEF v
<1>6. ASSUME NEW k \in 1..Len(u)  PROVE u[k] = v[k]
  <2>1. k \in 1..(n + 1)  BY <1>2
  <2>2. CASE k = n + 1  BY <1>1, <1>4, <1>5, <2>1, <2>2 DEF x
  <2>3. CASE k # n + 1
    <3>1. k \in 1..n  BY <1>1, <2>1, <2>3
    <3>2. QED  BY <1>1, <1>4, <1>5, <2>1, <3>1
  <2>4. QED  BY <2>2, <2>3
<1>7. Len(u) = Len(v)  BY <1>2, <1>5
<1>8. u = v  BY <1>2, <1>5, <1>6, <1>7, SeqEqual
<1>9. FlattenSeq(v) = Then(FlattenSeq(l), x)  BY <1>2, <1>3, FlattenAppend DEF S, v
<1>10. QED  BY <1>8, <1>9 DEF Shown, ShownBlocks, u, l, x, a

-----------------------------------------------------------------------------
(* The nodes at a depth *)

NodeLevelAt(d, below) ==
  [n \in NodeIds |->
     IF d = 0 \/ NodeChildren[n] = <<>> THEN <<n>>
     ELSE FlattenSeq([k \in 1..Len(NodeChildren[n]) |-> below[NodeChildren[n][k]]])]
NodeLevelsOf(N, g) == g = [d \in 0..N |-> NodeLevelAt(d, g[d - 1])]

\* The recursive function NodesAt exists.
LEMMA NodeLevelsExist ==
  ASSUME NEW N \in Nat
  PROVE  \E g : NodeLevelsOf(N, g)
<1> DEFINE P == {n \in Nat : \E g : NodeLevelsOf(n, g)}
<1>0. \A x, y : NodeLevelAt(0, x) = NodeLevelAt(0, y)  BY DEF NodeLevelAt
<1>1. 0 \in P
  <2> DEFINE g == [d \in 0..0 |-> NodeLevelAt(0, <<>>)]
  <2>1. g = [d \in 0..0 |-> NodeLevelAt(d, g[d - 1])]
    <3>1. \A d \in 0..0 : d = 0  OBVIOUS
    <3>2. \A d \in 0..0 : NodeLevelAt(d, g[d - 1]) = NodeLevelAt(0, <<>>)  BY <1>0, <3>1
    <3>3. QED  BY <3>2
  <2>2. NodeLevelsOf(0, g)  BY <2>1 DEF NodeLevelsOf
  <2>3. QED  BY <2>2
<1>2. ASSUME NEW n \in Nat, n \in P  PROVE n + 1 \in P
  <2>1. PICK g : NodeLevelsOf(n, g)  BY <1>2
  <2> DEFINE h == [d \in 0..(n + 1) |-> NodeLevelAt(d, g[d - 1])]
  <2>2. \A d \in 0..n : h[d] = g[d]
    <3>1. \A d \in 0..n : d \in 0..(n + 1)  OBVIOUS
    <3>2. \A d \in 0..n : g[d] = NodeLevelAt(d, g[d - 1])  BY <2>1 DEF NodeLevelsOf
    <3>3. QED  BY <3>1, <3>2
  <2>3. \A d \in 0..(n + 1) : d = 0 \/ d - 1 \in 0..n  OBVIOUS
  <2>4. ASSUME NEW d \in 0..(n + 1)  PROVE NodeLevelAt(d, g[d - 1]) = NodeLevelAt(d, h[d - 1])
    <3> HIDE DEF h
    <3>1. CASE d = 0  BY <1>0, <3>1
    <3>2. CASE d # 0
      <4>1. h[d - 1] = g[d - 1]  BY <2>2, <2>3, <3>2
      <4>2. QED  BY <4>1
    <3>3. QED  BY <3>1, <3>2
  <2>5. h = [d \in 0..(n + 1) |-> NodeLevelAt(d, h[d - 1])]  BY <2>4
  <2>6. NodeLevelsOf(n + 1, h)
    <3> HIDE DEF h
    <3>1. QED  BY <2>5 DEF NodeLevelsOf
  <2>7. QED  BY <2>6
<1> HIDE DEF P
<1>3. N \in P  BY <1>1, <1>2, AllNumbers
<1>4. QED  BY <1>3 DEF P

\* NodesAt satisfies its equation at every depth.
LEMMA NodesStep ==
  ASSUME NEW d \in 0..MaxDepth
  PROVE  NodesAt[d] = NodeLevelAt(d, NodesAt[d - 1])
<1> DEFINE h == CHOOSE g : NodeLevelsOf(MaxDepth, g)
<1>1. \E g : NodeLevelsOf(MaxDepth, g)  BY RetrievalAssumption, NodeLevelsExist
<1>2. NodeLevelsOf(MaxDepth, h)  BY <1>1
<1>3. NodesAt = h  BY DEF NodesAt, NodeLevelsOf, NodeLevelAt
<1> HIDE DEF h
<1>4. NodeLevelsOf(MaxDepth, NodesAt)  BY <1>2, <1>3
<1>5. QED  BY <1>4 DEF NodeLevelsOf

\* The children of a node are nodes.
LEMMA KidsType ==
  ASSUME NEW n \in NodeIds
  PROVE  /\ NodeChildren[n] \in Seq(NodeIds) /\ Len(NodeChildren[n]) \in Nat
         /\ \A k \in 1..Len(NodeChildren[n]) : NodeChildren[n][k] \in NodeIds
<1>1. NodeChildren[n] \in Seq(NodeIds)  BY RetrievalAssumption
<1>2. QED  BY <1>1, LenProperties, ElementOfSeq

\* The nodes at a depth below a node.
LEMMA NodesIs ==
  ASSUME NEW d \in 0..MaxDepth, NEW n \in NodeIds
  PROVE  NodesAt[d][n] = IF d = 0 \/ NodeChildren[n] = <<>> THEN <<n>>
                         ELSE FlattenSeq(NodeBlocks(n, d - 1))
BY NodesStep DEF NodeLevelAt, NodeBlocks

\* The nodes below each child of a node are sequences of nodes.
LEMMA BlocksType ==
  ASSUME NEW d, NodesAt[d] \in [NodeIds -> Seq(NodeIds)], NEW n \in NodeIds
  PROVE  /\ NodeBlocks(n, d) \in Seq(Seq(NodeIds)) /\ Len(NodeBlocks(n, d)) = Len(NodeChildren[n])
         /\ \A k \in 1..Len(NodeChildren[n]) : NodeBlocks(n, d)[k] = NodesAt[d][NodeChildren[n][k]]
<1> DEFINE S == Seq(NodeIds)
<1>1. Len(NodeChildren[n]) \in Nat /\ \A k \in 1..Len(NodeChildren[n]) : NodesAt[d][NodeChildren[n][k]] \in S
  BY KidsType
<1> HIDE DEF S
<1>2. [k \in 1..Len(NodeChildren[n]) |-> NodesAt[d][NodeChildren[n][k]]] \in Seq(S)  BY <1>1, IsASeq
<1>3. QED  BY <1>1, <1>2 DEF S, NodeBlocks

\* NodesAt gives sequences of nodes.
LEMMA NodesType ==  \A d \in 0..MaxDepth : NodesAt[d] \in [NodeIds -> Seq(NodeIds)]
<1> DEFINE P == {d \in Nat : d <= MaxDepth => NodesAt[d] \in [NodeIds -> Seq(NodeIds)]}
<1>0. MaxDepth \in Nat  BY RetrievalAssumption
<1>1. ASSUME NEW d \in 0..MaxDepth, d # 0 => NodesAt[d - 1] \in [NodeIds -> Seq(NodeIds)]
      PROVE  NodesAt[d] \in [NodeIds -> Seq(NodeIds)]
  <2>1. NodesAt[d] = [n \in NodeIds |-> NodesAt[d][n]]
    <3>1. NodesAt[d] = NodeLevelAt(d, NodesAt[d - 1])  BY NodesStep
    <3>2. QED  BY <3>1 DEF NodeLevelAt
  <2>2. ASSUME NEW n \in NodeIds  PROVE NodesAt[d][n] \in Seq(NodeIds)
    <3>1. CASE d = 0 \/ NodeChildren[n] = <<>>
      <4>1. <<n>> \in Seq(NodeIds)  OBVIOUS
      <4>2. QED  BY <3>1, <4>1, NodesIs
    <3>2. CASE ~(d = 0 \/ NodeChildren[n] = <<>>)
      <4>1. NodeBlocks(n, d - 1) \in Seq(Seq(NodeIds))  BY <1>1, <3>2, BlocksType
      <4>2. NodesAt[d][n] = FlattenSeq(NodeBlocks(n, d - 1))  BY <3>2, NodesIs
      <4>3. QED  BY <4>1, <4>2, FlattenType
    <3>3. QED  BY <3>1, <3>2
  <2>3. QED  BY <2>1, <2>2
<1>2. 0 \in P
  <2>1. 0 \in 0..MaxDepth  BY <1>0
  <2>2. QED  BY <1>1, <2>1
<1>3. ASSUME NEW d \in Nat, d \in P  PROVE d + 1 \in P
  <2>1. SUFFICES ASSUME d + 1 <= MaxDepth  PROVE NodesAt[d + 1] \in [NodeIds -> Seq(NodeIds)]
    OBVIOUS
  <2>2. d + 1 \in 0..MaxDepth /\ (d + 1) - 1 = d /\ d <= MaxDepth  BY <1>0, <2>1
  <2>3. NodesAt[d] \in [NodeIds -> Seq(NodeIds)]  BY <1>3, <2>2
  <2>4. QED  BY <1>1, <2>2, <2>3
<1> HIDE DEF P
<1>4. \A d \in Nat : d \in P  BY <1>2, <1>3, AllNumbers
<1>5. QED  BY <1>0, <1>4 DEF P

NodeStacks == Seq(NodeIds \X Nat)

\* The nodes left at a level of the stack are a sequence of nodes.
LEMMA NodeLeftType ==
  ASSUME NEW f \in NodeIds \X Nat, NEW k \in Nat \ {0}, NEW depth \in 0..MaxDepth
  PROVE  NodeLeft(f, k, depth) \in Seq(NodeIds)
<1>1. f[1] \in NodeIds /\ f[2] \in Nat  OBVIOUS
<1>2. CASE k - 1 >= depth \/ NodeChildren[f[1]] = <<>>
  <2>1. <<f[1]>> \in Seq(NodeIds)  BY <1>1
  <2>2. QED  BY <1>2, <2>1 DEF NodeLeft
<1>3. CASE ~(k - 1 >= depth \/ NodeChildren[f[1]] = <<>>)
  <2>1. depth - k \in 0..MaxDepth  BY <1>3, RetrievalAssumption
  <2>2. NodeBlocks(f[1], depth - k) \in Seq(Seq(NodeIds))  BY <1>1, <2>1, NodesType, BlocksType
  <2>3. NodeLeft(f, k, depth) = After(NodeBlocks(f[1], depth - k), f[2])  BY <1>3 DEF NodeLeft
  <2>4. QED  BY <1>1, <2>2, <2>3, AfterType
<1>4. QED  BY <1>2, <1>3

\* So are those left of a stack.
LEMMA NodesLeftType ==
  ASSUME NEW stack \in NodeStacks, NEW depth \in 0..MaxDepth
  PROVE  /\ NodesLeft(stack, depth) \in Seq(Seq(NodeIds)) /\ Len(NodesLeft(stack, depth)) = Len(stack)
         /\ Down(NodesLeft(stack, depth)) \in Seq(NodeIds)
<1> DEFINE S == Seq(NodeIds)
<1>1. Len(stack) \in Nat  BY LenProperties DEF NodeStacks
<1>2. \A k \in 1..Len(stack) : NodeLeft(stack[k], k, depth) \in S
  <2>1. \A k \in 1..Len(stack) : stack[k] \in NodeIds \X Nat /\ k \in Nat \ {0}
    BY <1>1, ElementOfSeq DEF NodeStacks
  <2>2. QED  BY <2>1, NodeLeftType
<1> HIDE DEF S
<1>3. [k \in 1..Len(stack) |-> NodeLeft(stack[k], k, depth)] \in Seq(S)  BY <1>1, <1>2, IsASeq
<1>4. NodesLeft(stack, depth) \in Seq(S) /\ Len(NodesLeft(stack, depth)) = Len(stack)
  BY <1>1, <1>3 DEF NodesLeft
<1>5. QED  BY <1>4, DownType DEF S

\* After a push, the nodes below the new one come first.
LEMMA NodesPush ==
  ASSUME NEW stack \in NodeStacks, NEW f \in NodeIds \X Nat, NEW depth \in 0..MaxDepth
  PROVE  Down(NodesLeft(Append(stack, f), depth)) =
           Then(NodeLeft(f, Len(stack) + 1, depth), Down(NodesLeft(stack, depth)))
<1> DEFINE S == Seq(NodeIds)
           a == Append(stack, f)
           n == Len(stack)
           l == NodesLeft(stack, depth)
           u == NodesLeft(a, depth)
           x == NodeLeft(f, n + 1, depth)
           v == Append(l, x)
<1>1. a \in NodeStacks /\ n \in Nat /\ Len(a) = n + 1 /\ a[n + 1] = f /\ \A k \in 1..n : a[k] = stack[k]
  BY AppendProperties, LenProperties DEF NodeStacks
<1> HIDE DEF a
<1>2. l \in Seq(S) /\ u \in Seq(S) /\ Len(l) = n /\ Len(u) = n + 1  BY <1>1, NodesLeftType
<1>3. x \in S
  <2>1. n + 1 \in Nat \ {0}  BY <1>1
  <2>2. QED  BY <2>1, NodeLeftType
<1>4. /\ \A k \in 1..n : l[k] = NodeLeft(stack[k], k, depth)
      /\ \A k \in 1..(n + 1) : u[k] = NodeLeft(a[k], k, depth)
  BY <1>1 DEF NodesLeft
<1> HIDE DEF S, l, u, x, n
<1>5. v \in Seq(S) /\ Len(v) = n + 1 /\ v[n + 1] = x /\ \A k \in 1..n : v[k] = l[k]
  BY <1>2, <1>3, AppendProperties
<1> HIDE DEF v
<1>6. ASSUME NEW k \in 1..Len(u)  PROVE u[k] = v[k]
  <2>1. k \in 1..(n + 1)  BY <1>2
  <2>2. CASE k = n + 1  BY <1>1, <1>4, <1>5, <2>1, <2>2 DEF x
  <2>3. CASE k # n + 1
    <3>1. k \in 1..n  BY <1>1, <2>1, <2>3
    <3>2. QED  BY <1>1, <1>4, <1>5, <2>1, <3>1
  <2>4. QED  BY <2>2, <2>3
<1>7. Len(u) = Len(v)  BY <1>2, <1>5
<1>8. u = v  BY <1>2, <1>5, <1>6, <1>7, SeqEqual
<1>9. Down(v) = Then(x, Down(l))  BY <1>2, <1>3, DownAppend DEF S, v
<1>10. QED  BY <1>8, <1>9 DEF u, l, x, a, n

\* The nodes left: below the one on top, then those of the stack below.
LEMMA NodesTop ==
  ASSUME NEW stack \in NodeStacks, stack # <<>>, NEW depth \in 0..MaxDepth
  PROVE  /\ Front(stack) \in NodeStacks /\ Last(stack) \in NodeIds \X Nat /\ Len(stack) \in Nat \ {0}
         /\ Down(NodesLeft(stack, depth)) =
              Then(NodeLeft(Last(stack), Len(stack), depth), Down(NodesLeft(Front(stack), depth)))
<1>1. /\ stack = Append(Front(stack), Last(stack)) /\ Front(stack) \in NodeStacks
      /\ Last(stack) \in NodeIds \X Nat /\ Len(Front(stack)) = Len(stack) - 1
  BY FrontLast DEF NodeStacks
<1>2. Len(stack) \in Nat \ {0} /\ Len(Front(stack)) + 1 = Len(stack)
  <2>1. Len(stack) \in Nat /\ Len(Front(stack)) \in Nat  BY <1>1, LenProperties DEF NodeStacks
  <2>2. QED  BY <1>1, <2>1
<1>3. QED  BY <1>1, <1>2, NodesPush

\* A node without children, or at the depth asked for, is the next one.
LEMMA NodesEmit ==
  ASSUME NEW stack \in NodeStacks, stack # <<>>, NEW depth \in 0..MaxDepth,
         Len(stack) - 1 >= depth \/ NodeChildren[Last(stack)[1]] = <<>>
  PROVE  Down(NodesLeft(stack, depth)) = Then(<<Last(stack)[1]>>, Down(NodesLeft(Front(stack), depth)))
BY NodesTop DEF NodeLeft

\* A node whose children are done leaves nothing.
LEMMA NodesPop ==
  ASSUME NEW stack \in NodeStacks, stack # <<>>, NEW depth \in 0..MaxDepth,
         ~(Len(stack) - 1 >= depth), NodeChildren[Last(stack)[1]] # <<>>,
         Last(stack)[2] >= Len(NodeChildren[Last(stack)[1]])
  PROVE  Down(NodesLeft(Front(stack), depth)) = Down(NodesLeft(stack, depth))
<1> DEFINE f == Last(stack)
           k == Len(stack)
<1>1. Front(stack) \in NodeStacks /\ f \in NodeIds \X Nat /\ k \in Nat \ {0}  BY NodesTop
<1>2. f[1] \in NodeIds /\ f[2] \in Nat  BY <1>1
<1>3. NodeLeft(f, k, depth) = After(NodeBlocks(f[1], depth - k), f[2])  BY DEF NodeLeft
<1>4. depth - k \in 0..MaxDepth  BY <1>1, RetrievalAssumption
<1>5. NodeBlocks(f[1], depth - k) \in Seq(Seq(NodeIds)) /\ Len(NodeBlocks(f[1], depth - k)) = Len(NodeChildren[f[1]])
  BY <1>2, <1>4, NodesType, BlocksType
<1>6. After(NodeBlocks(f[1], depth - k), f[2]) = <<>>  BY <1>2, <1>5, AfterAll
<1>7. Down(NodesLeft(Front(stack), depth)) \in Seq(NodeIds)  BY <1>1, NodesLeftType
<1>8. QED  BY <1>3, <1>6, <1>7, NodesTop, ThenEmpty

\* Going down to a child changes nothing about what is left.
LEMMA NodesInside ==
  ASSUME NEW stack \in NodeStacks, stack # <<>>, NEW depth \in 0..MaxDepth,
         ~(Len(stack) - 1 >= depth), NodeChildren[Last(stack)[1]] # <<>>,
         Last(stack)[2] < Len(NodeChildren[Last(stack)[1]]),
         NEW kid, kid = NodeChildren[Last(stack)[1]][Last(stack)[2] + 1]
  PROVE  /\ Append(StepOn(stack), <<kid, 0>>) \in NodeStacks
         /\ Down(NodesLeft(Append(StepOn(stack), <<kid, 0>>), depth)) = Down(NodesLeft(stack, depth))
<1> DEFINE f == Last(stack)
           g == <<f[1], f[2] + 1>>
           k == Len(stack)
           d == depth - k
           B == NodeBlocks(f[1], d)
           on == StepOn(stack)
           r == Down(NodesLeft(Front(stack), depth))
           z == <<kid, 0>>
<1>1. Front(stack) \in NodeStacks /\ f \in NodeIds \X Nat /\ k \in Nat \ {0}  BY NodesTop
<1>2. f[1] \in NodeIds /\ f[2] \in Nat /\ g \in NodeIds \X Nat  BY <1>1
<1>3. d \in 0..MaxDepth /\ depth \in Nat  BY <1>1, RetrievalAssumption
<1>4. f[2] + 1 \in 1..Len(NodeChildren[f[1]])  BY <1>2, KidsType
<1>5. kid \in NodeIds /\ z \in NodeIds \X Nat  BY <1>2, <1>4, KidsType
<1>6. on \in NodeStacks /\ Len(on) = k
  <2>1. Len(Front(stack)) = k - 1  BY FrontLast DEF NodeStacks
  <2>2. Len(Front(stack)) \in Nat  BY <1>1, LenProperties DEF NodeStacks
  <2>3. on \in NodeStacks /\ Len(on) = Len(Front(stack)) + 1  BY <1>1, <1>2, AppendProperties DEF NodeStacks, StepOn
  <2>4. QED  BY <1>1, <2>1, <2>2, <2>3
<1>7. B \in Seq(Seq(NodeIds)) /\ Len(B) = Len(NodeChildren[f[1]]) /\ B[f[2] + 1] = NodesAt[d][kid]
  <2>1. NodesAt[d] \in [NodeIds -> Seq(NodeIds)]  BY <1>3, NodesType
  <2> HIDE DEF d
  <2>2. /\ B \in Seq(Seq(NodeIds)) /\ Len(B) = Len(NodeChildren[f[1]])
        /\ \A j \in 1..Len(NodeChildren[f[1]]) : B[j] = NodesAt[d][NodeChildren[f[1]][j]]
    BY <1>2, <2>1, BlocksType
  <2> HIDE DEF B
  <2>3. QED  BY <1>4, <2>2
<1>8. After(B, f[2]) = Then(NodesAt[d][kid], After(B, f[2] + 1))
  <2> HIDE DEF B
  <2>1. QED  BY <1>2, <1>7, AfterNext
<1>9. NodeLeft(z, k + 1, depth) = NodesAt[d][kid]
  <2>1. z[1] = kid /\ z[2] = 0  OBVIOUS
  <2>2. NodesAt[d][kid] = IF d = 0 \/ NodeChildren[kid] = <<>> THEN <<kid>>
                          ELSE FlattenSeq(NodeBlocks(kid, d - 1))
    BY <1>3, <1>5, NodesIs
  <2>3. ((k + 1) - 1 >= depth) <=> (d = 0)  BY <1>1, <1>3
  <2>4. CASE d = 0 \/ NodeChildren[kid] = <<>>
    BY <2>1, <2>2, <2>3, <2>4 DEF NodeLeft
  <2>5. CASE ~(d = 0 \/ NodeChildren[kid] = <<>>)
    <3>1. depth - (k + 1) = d - 1 /\ d - 1 \in 0..MaxDepth
      <4>1. MaxDepth \in Nat /\ d # 0  BY <2>5, RetrievalAssumption
      <4>2. QED  BY <1>1, <1>3, <4>1
    <3>2. NodeLeft(z, k + 1, depth) = After(NodeBlocks(kid, d - 1), 0)
      BY <2>1, <2>3, <2>5, <3>1 DEF NodeLeft
    <3>3. NodeBlocks(kid, d - 1) \in Seq(Seq(NodeIds))  BY <1>5, <3>1, NodesType, BlocksType
    <3>4. After(NodeBlocks(kid, d - 1), 0) = FlattenSeq(NodeBlocks(kid, d - 1))  BY <3>3, AfterNone
    <3>5. QED  BY <2>2, <2>5, <3>2, <3>4
  <2>6. QED  BY <2>4, <2>5
<1>10. g[1] = f[1] /\ g[2] = f[2] + 1  OBVIOUS
<1>11. NodeLeft(f, k, depth) = After(B, f[2]) /\ NodeLeft(g, k, depth) = After(B, f[2] + 1)
  BY <1>10 DEF NodeLeft
<1>12. Len(Front(stack)) + 1 = k
  <2>1. Len(Front(stack)) = k - 1  BY FrontLast DEF NodeStacks
  <2>2. QED  BY <1>1, <2>1
<1>13. Down(NodesLeft(on, depth)) = Then(NodeLeft(g, k, depth), r)
  BY <1>1, <1>2, <1>12, NodesPush DEF StepOn
<1>14. Down(NodesLeft(Append(on, z), depth)) = Then(NodeLeft(z, k + 1, depth), Down(NodesLeft(on, depth)))
  BY <1>5, <1>6, NodesPush
<1>15. Down(NodesLeft(stack, depth)) = Then(NodeLeft(f, k, depth), r)  BY NodesTop
<1>16. r \in Seq(NodeIds) /\ NodesAt[d][kid] \in Seq(NodeIds) /\ NodeLeft(g, k, depth) \in Seq(NodeIds)
  BY <1>1, <1>2, <1>3, <1>5, NodesLeftType, NodesType, NodeLeftType
<1>17. Append(on, z) \in NodeStacks  BY <1>5, <1>6, AppendProperties DEF NodeStacks
<1> HIDE DEF f, g, k, d, B, on, r, z
<1>18. Then(Then(NodesAt[d][kid], NodeLeft(g, k, depth)), r) = Then(NodesAt[d][kid], Then(NodeLeft(g, k, depth), r))
  BY <1>16, ThenThen
<1>19. Down(NodesLeft(Append(on, z), depth)) = Down(NodesLeft(stack, depth))
  BY <1>8, <1>9, <1>11, <1>13, <1>14, <1>15, <1>18
<1>20. QED  BY <1>17, <1>19 DEF on, z

-----------------------------------------------------------------------------
(* What a reader is shown, and what is left for it *)

\* What one item shows to a reader.
UnitsBy(r, item) == IF r.mode = "children" THEN <<item>> ELSE ShownBy(item)

\* What a client was shown is a sequence of what it asked for.
LEMMA ShownToType ==
  ASSUME NEW r, NEW items \in Seq(ItemsOf(r))
  PROVE  ShownTo(r, items) \in Seq(UnitsOf(r))
<1>1. CASE r.mode = "children"  BY <1>1 DEF ShownTo, UnitsOf, ItemsOf
<1>2. CASE r.mode # "children"  BY <1>2, ShownType DEF ShownTo, UnitsOf, ItemsOf
<1>3. QED  BY <1>1, <1>2

\* An item more is shown after the others.
LEMMA ShownToAppend ==
  ASSUME NEW r, NEW items \in Seq(ItemsOf(r)), NEW item \in ItemsOf(r)
  PROVE  /\ UnitsBy(r, item) \in Seq(UnitsOf(r))
         /\ ShownTo(r, Append(items, item)) = Then(ShownTo(r, items), UnitsBy(r, item))
<1>1. CASE r.mode = "children"
  <2>1. items \in Seq(NodeIds) /\ item \in NodeIds  BY <1>1 DEF ItemsOf
  <2>2. <<item>> \in Seq(NodeIds) /\ Append(items, item) = items \o <<item>>  BY <2>1
  <2>3. QED  BY <1>1, <2>2 DEF ShownTo, UnitsOf, UnitsBy, Then
<1>2. CASE r.mode # "children"
  <2>1. items \in Seq(Item) /\ item \in Item  BY <1>2 DEF ItemsOf
  <2>2. ShownBy(item) \in Seq(TextUnits)  BY <2>1, ShownByType
  <2>3. Shown(Append(items, item)) = Then(Shown(items), ShownBy(item))  BY <2>1, ShownAppend
  <2>4. QED  BY <1>2, <2>2, <2>3 DEF ShownTo, UnitsOf, UnitsBy
<1>3. QED  BY <1>1, <1>2

\* A stack of nodes only is one a children request may have.
LEMMA NodeStack ==
  ASSUME NEW stack \in Stacks, Within(stack, NodeIds)
  PROVE  stack \in NodeStacks
<1> DEFINE F == NodeIds \X Nat
<1>1. Len(stack) \in Nat /\ stack = [k \in 1..Len(stack) |-> stack[k]]  BY DEF Stacks
<1>2. \A k \in 1..Len(stack) : stack[k] \in F
  <2>1. ASSUME NEW k \in 1..Len(stack)  PROVE stack[k] \in F
    <3>1. stack[k] \in Places \X Nat  BY ElementOfSeq DEF Stacks
    <3>2. stack[k][1] \in NodeIds  BY DEF Within
    <3>3. QED  BY <3>1, <3>2
  <2>2. QED  BY <2>1
<1> HIDE DEF F
<1>3. [k \in 1..Len(stack) |-> stack[k]] \in Seq(F)  BY <1>1, <1>2, IsASeq
<1>4. QED  BY <1>1, <1>3 DEF F, NodeStacks

\* What is left for a reader is a sequence of what it asked for.
LEMMA LeftForType ==
  ASSUME NEW r, r \in ReaderType(ItemsOf(r)), NEW stored, NEW place \in Place, PlaceOK(r, place, stored)
  PROVE  LeftFor(r, place) \in Seq(UnitsOf(r))
<1>1. r.depth \in 0..MaxDepth /\ r.snapshot \in Seq(Hashes)  BY DEF ReaderType
<1>2. place.stack \in Stacks  BY DEF Place
<1>3. CASE r.mode = "children"
  <2>1. Within(place.stack, NodeIds)  BY <1>3 DEF PlaceOK, Ground
  <2>2. place.stack \in NodeStacks  BY <1>2, <2>1, NodeStack
  <2>3. Down(NodesLeft(place.stack, r.depth)) \in Seq(NodeIds)  BY <1>1, <2>2, NodesLeftType
  <2>4. QED  BY <1>3, <2>3 DEF LeftFor, UnitsOf
<1>4. CASE r.mode # "children"
  <2>1. place.intra # 0 => InText(place.stack, r.snapshot)  BY DEF PlaceOK
  <2>2. Ahead(place, r.snapshot) \in Seq(TextUnits)  BY <1>1, <2>1, AheadType
  <2>3. QED  BY <1>4, <2>2 DEF LeftFor, UnitsOf
<1>5. QED  BY <1>3, <1>4

\* An item that shows what comes next is accounted for.
LEMMA AccountedAdd ==
  ASSUME NEW r, r \in ReaderType(ItemsOf(r)), NEW stored,
         NEW place \in Place, PlaceOK(r, place, stored), NEW next \in Place, PlaceOK(r, next, stored),
         NEW items \in Seq(ItemsOf(r)), NEW item \in ItemsOf(r), Accounted(r, items, place),
         Then(UnitsBy(r, item), LeftFor(r, next)) = LeftFor(r, place)
  PROVE  Accounted(r, Append(items, item), next)
<1> DEFINE s == ShownTo(r, items)
           x == UnitsBy(r, item)
           n == LeftFor(r, next)
<1>1. s \in Seq(UnitsOf(r)) /\ x \in Seq(UnitsOf(r)) /\ n \in Seq(UnitsOf(r))
  BY ShownToType, ShownToAppend, LeftForType
<1>2. ShownTo(r, Append(items, item)) = Then(s, x)  BY ShownToAppend
<1>3. Then(s, LeftFor(r, place)) = WantedBy(r)  BY DEF Accounted
<1> HIDE DEF s, x, n
<1>4. Then(Then(s, x), n) = Then(s, Then(x, n))  BY <1>1, ThenThen
<1>5. Then(x, n) = LeftFor(r, place)  BY DEF x, n
<1>6. Then(Then(s, x), n) = WantedBy(r)  BY <1>3, <1>4, <1>5
<1>7. QED  BY <1>2, <1>6 DEF Accounted, n

-----------------------------------------------------------------------------
(* What happens to a reader *)

\* The reader with another cursor, place, page and so on, of the same request.
Changed(r, cursor, state, budget, limit, page, seen, busy, done, failed) ==
  [mode |-> r.mode, root |-> r.root, depth |-> r.depth, snapshot |-> r.snapshot,
   cursor |-> cursor, state |-> state, budget |-> budget, limit |-> limit,
   page |-> page, seen |-> seen, busy |-> busy, done |-> done, failed |-> failed]

\* The updates of the actions, field by field.
LEMMA ReaderIs ==
  ASSUME NEW S, NEW r \in ReaderType(S)
  PROVE  r = Changed(r, r.cursor, r.state, r.budget, r.limit, r.page, r.seen, r.busy, r.done, r.failed)
BY DEF ReaderType, Changed

\* Changing the cursor of a changed reader.
LEMMA SetCursor ==
  ASSUME NEW r, NEW cursor, NEW state, NEW budget, NEW limit, NEW page, NEW seen, NEW busy, NEW done,
         NEW failed,
         NEW q, q = Changed(r, cursor, state, budget, limit, page, seen, busy, done, failed), NEW value
  PROVE  [q EXCEPT !.cursor = value] = Changed(r, value, state, budget, limit, page, seen, busy, done, failed)
BY DEF Changed

\* Changing its place.
LEMMA SetState ==
  ASSUME NEW r, NEW cursor, NEW state, NEW budget, NEW limit, NEW page, NEW seen, NEW busy, NEW done,
         NEW failed,
         NEW q, q = Changed(r, cursor, state, budget, limit, page, seen, busy, done, failed), NEW value
  PROVE  [q EXCEPT !.state = value] = Changed(r, cursor, value, budget, limit, page, seen, busy, done, failed)
BY DEF Changed

\* Changing its budget.
LEMMA SetBudget ==
  ASSUME NEW r, NEW cursor, NEW state, NEW budget, NEW limit, NEW page, NEW seen, NEW busy, NEW done,
         NEW failed,
         NEW q, q = Changed(r, cursor, state, budget, limit, page, seen, busy, done, failed), NEW value
  PROVE  [q EXCEPT !.budget = value] = Changed(r, cursor, state, value, limit, page, seen, busy, done, failed)
BY DEF Changed

\* Changing its limit.
LEMMA SetLimit ==
  ASSUME NEW r, NEW cursor, NEW state, NEW budget, NEW limit, NEW page, NEW seen, NEW busy, NEW done,
         NEW failed,
         NEW q, q = Changed(r, cursor, state, budget, limit, page, seen, busy, done, failed), NEW value
  PROVE  [q EXCEPT !.limit = value] = Changed(r, cursor, state, budget, value, page, seen, busy, done, failed)
BY DEF Changed

\* Changing its page.
LEMMA SetPage ==
  ASSUME NEW r, NEW cursor, NEW state, NEW budget, NEW limit, NEW page, NEW seen, NEW busy, NEW done,
         NEW failed,
         NEW q, q = Changed(r, cursor, state, budget, limit, page, seen, busy, done, failed), NEW value
  PROVE  [q EXCEPT !.page = value] = Changed(r, cursor, state, budget, limit, value, seen, busy, done, failed)
BY DEF Changed

\* Changing what was shown.
LEMMA SetSeen ==
  ASSUME NEW r, NEW cursor, NEW state, NEW budget, NEW limit, NEW page, NEW seen, NEW busy, NEW done,
         NEW failed,
         NEW q, q = Changed(r, cursor, state, budget, limit, page, seen, busy, done, failed), NEW value
  PROVE  [q EXCEPT !.seen = value] = Changed(r, cursor, state, budget, limit, page, value, busy, done, failed)
BY DEF Changed

\* Changing whether a page is under way.
LEMMA SetBusy ==
  ASSUME NEW r, NEW cursor, NEW state, NEW budget, NEW limit, NEW page, NEW seen, NEW busy, NEW done,
         NEW failed,
         NEW q, q = Changed(r, cursor, state, budget, limit, page, seen, busy, done, failed), NEW value
  PROVE  [q EXCEPT !.busy = value] = Changed(r, cursor, state, budget, limit, page, seen, value, done, failed)
BY DEF Changed

\* Changing whether the last page was shown.
LEMMA SetDone ==
  ASSUME NEW r, NEW cursor, NEW state, NEW budget, NEW limit, NEW page, NEW seen, NEW busy, NEW done,
         NEW failed,
         NEW q, q = Changed(r, cursor, state, budget, limit, page, seen, busy, done, failed), NEW value
  PROVE  [q EXCEPT !.done = value] = Changed(r, cursor, state, budget, limit, page, seen, busy, value, failed)
BY DEF Changed

\* Changing whether the last request was answered with an error.
LEMMA SetFailed ==
  ASSUME NEW r, NEW cursor, NEW state, NEW budget, NEW limit, NEW page, NEW seen, NEW busy, NEW done,
         NEW failed,
         NEW q, q = Changed(r, cursor, state, budget, limit, page, seen, busy, done, failed), NEW value
  PROVE  [q EXCEPT !.failed = value] = Changed(r, cursor, state, budget, limit, page, seen, busy, done, value)
BY DEF Changed

\* The fields after a page is dropped.
LEMMA DropIs ==
  ASSUME NEW S, NEW r \in ReaderType(S), NEW busy, NEW failed, NEW page,
         NEW q, q = [r EXCEPT !.busy = busy, !.failed = failed, !.page = page]
  PROVE  q = Changed(r, r.cursor, r.state, r.budget, r.limit, page, r.seen, busy, r.done, failed)
<1> DEFINE q1 == [r EXCEPT !.busy = busy]
           q2 == [q1 EXCEPT !.failed = failed]
           q3 == [q2 EXCEPT !.page = page]
<1>0. r = Changed(r, r.cursor, r.state, r.budget, r.limit, r.page, r.seen, r.busy, r.done, r.failed)  BY ReaderIs
<1>1. q1 = Changed(r, r.cursor, r.state, r.budget, r.limit, r.page, r.seen, busy, r.done, r.failed)  BY <1>0, SetBusy
<1> HIDE DEF q1
<1>2. q2 = Changed(r, r.cursor, r.state, r.budget, r.limit, r.page, r.seen, busy, r.done, failed)  BY <1>1, SetFailed
<1> HIDE DEF q2
<1>3. q3 = Changed(r, r.cursor, r.state, r.budget, r.limit, page, r.seen, busy, r.done, failed)  BY <1>2, SetPage
<1>4. q = q3  BY Zenon DEF q1, q2, q3
<1>5. QED  BY <1>3, <1>4

\* The fields after a move to another place.
LEMMA MoveIs ==
  ASSUME NEW S, NEW r \in ReaderType(S), NEW next
  PROVE  [r EXCEPT !.state = next] =
           Changed(r, r.cursor, next, r.budget, r.limit, r.page, r.seen, r.busy, r.done, r.failed)
<1> DEFINE q1 == [r EXCEPT !.state = next]
<1>0. r = Changed(r, r.cursor, r.state, r.budget, r.limit, r.page, r.seen, r.busy, r.done, r.failed)  BY ReaderIs
<1>1. q1 = Changed(r, r.cursor, next, r.budget, r.limit, r.page, r.seen, r.busy, r.done, r.failed)  BY <1>0, SetState
<1>2. [r EXCEPT !.state = next] = q1  BY Zenon DEF q1
<1>3. QED  BY <1>1, <1>2

\* The fields after an item without bytes is added.
LEMMA ShowIs ==
  ASSUME NEW S, NEW r \in ReaderType(S), NEW page, NEW next,
         NEW q, q = [r EXCEPT !.page = page, !.state = next]
  PROVE  q = Changed(r, r.cursor, next, r.budget, r.limit, page, r.seen, r.busy, r.done, r.failed)
<1> DEFINE q1 == [r EXCEPT !.page = page]
           q2 == [q1 EXCEPT !.state = next]
<1>0. r = Changed(r, r.cursor, r.state, r.budget, r.limit, r.page, r.seen, r.busy, r.done, r.failed)  BY ReaderIs
<1>1. q1 = Changed(r, r.cursor, r.state, r.budget, r.limit, page, r.seen, r.busy, r.done, r.failed)  BY <1>0, SetPage
<1> HIDE DEF q1
<1>2. q2 = Changed(r, r.cursor, next, r.budget, r.limit, page, r.seen, r.busy, r.done, r.failed)  BY <1>1, SetState
<1>3. q = q2  BY Zenon DEF q1, q2
<1>4. QED  BY <1>2, <1>3

\* The fields after an item is added.
LEMMA AddIs ==
  ASSUME NEW S, NEW r \in ReaderType(S), NEW page, NEW budget, NEW next,
         NEW q, q = [r EXCEPT !.page = page, !.budget = budget, !.state = next]
  PROVE  q = Changed(r, r.cursor, next, budget, r.limit, page, r.seen, r.busy, r.done, r.failed)
<1> DEFINE q1 == [r EXCEPT !.page = page]
           q2 == [q1 EXCEPT !.budget = budget]
           q3 == [q2 EXCEPT !.state = next]
<1>0. r = Changed(r, r.cursor, r.state, r.budget, r.limit, r.page, r.seen, r.busy, r.done, r.failed)  BY ReaderIs
<1>1. q1 = Changed(r, r.cursor, r.state, r.budget, r.limit, page, r.seen, r.busy, r.done, r.failed)  BY <1>0, SetPage
<1> HIDE DEF q1
<1>2. q2 = Changed(r, r.cursor, r.state, budget, r.limit, page, r.seen, r.busy, r.done, r.failed)  BY <1>1, SetBudget
<1> HIDE DEF q2
<1>3. q3 = Changed(r, r.cursor, next, budget, r.limit, page, r.seen, r.busy, r.done, r.failed)  BY <1>2, SetState
<1>4. q = q3  BY Zenon DEF q1, q2, q3
<1>5. QED  BY <1>3, <1>4

\* The fields of a changed reader; the request stays.
LEMMA ChangedFields ==
  ASSUME NEW r, NEW cursor, NEW state, NEW budget, NEW limit, NEW page, NEW seen, NEW busy, NEW done,
         NEW failed,
         NEW q, q = Changed(r, cursor, state, budget, limit, page, seen, busy, done, failed)
  PROVE  /\ q.mode = r.mode /\ q.root = r.root /\ q.depth = r.depth /\ q.snapshot = r.snapshot
         /\ q.cursor = cursor /\ q.state = state /\ q.budget = budget /\ q.limit = limit
         /\ q.page = page /\ q.seen = seen /\ q.busy = busy /\ q.done = done /\ q.failed = failed
BY DEF Changed

\* What the invariant says of a place depends on the request only.
LEMMA SameRequest ==
  ASSUME NEW r, NEW q, q.mode = r.mode, q.root = r.root, q.depth = r.depth, q.snapshot = r.snapshot
  PROVE  /\ ItemsOf(q) = ItemsOf(r)
         /\ \A place, stored : PlaceOK(q, place, stored) <=> PlaceOK(r, place, stored)
         /\ \A items, place : Accounted(q, items, place) <=> Accounted(r, items, place)
<1>1. ItemsOf(q) = ItemsOf(r)  BY DEF ItemsOf
<1>2. \A place, stored : PlaceOK(q, place, stored) <=> PlaceOK(r, place, stored)
  <2>1. \A stored : Ground(q, stored) = Ground(r, stored)  BY DEF Ground
  <2>2. QED  BY <2>1 DEF PlaceOK
<1>3. \A items, place : Accounted(q, items, place) <=> Accounted(r, items, place)
  <2>1. WantedBy(q) = WantedBy(r)  BY DEF WantedBy
  <2>2. \A items : ShownTo(q, items) = ShownTo(r, items)  BY DEF ShownTo
  <2>3. \A place : LeftFor(q, place) = LeftFor(r, place)  BY DEF LeftFor
  <2>4. QED  BY <2>1, <2>2, <2>3 DEF Accounted
<1>4. QED  BY <1>1, <1>2, <1>3

PageOK(busy, page, budget, limit) ==
  IF busy THEN page = <<>> => budget > 0 /\ limit > 0 ELSE page = <<>>

\* A changed reader satisfies the invariant if its new fields do.
LEMMA ChangedKeeps ==
  ASSUME NEW r, NEW stored, r \in ReaderType(ItemsOf(r)),
         NEW cursor \in Place, NEW state \in Place, NEW budget \in Int, NEW limit \in Int,
         NEW page \in Seq(ItemsOf(r)), NEW seen \in Seq(ItemsOf(r)), NEW busy \in BOOLEAN, NEW done \in BOOLEAN,
         NEW failed \in BOOLEAN,
         PlaceOK(r, cursor, stored), busy => PlaceOK(r, state, stored),
         Accounted(r, seen, cursor), busy => Accounted(r, Then(seen, page), state),
         done => cursor.stack = <<>>, PageOK(busy, page, budget, limit)
  PROVE  ReaderInv(Changed(r, cursor, state, budget, limit, page, seen, busy, done, failed), stored)
<1> DEFINE q == Changed(r, cursor, state, budget, limit, page, seen, busy, done, failed)
<1>1. /\ q.mode = r.mode /\ q.root = r.root /\ q.depth = r.depth /\ q.snapshot = r.snapshot
      /\ q.cursor = cursor /\ q.state = state /\ q.budget = budget /\ q.limit = limit
      /\ q.page = page /\ q.seen = seen /\ q.busy = busy /\ q.done = done /\ q.failed = failed
  <2> HIDE DEF q
  <2>1. q = Changed(r, cursor, state, budget, limit, page, seen, busy, done, failed)  BY DEF q
  <2>2. QED  BY <2>1, ChangedFields
<1>2. q \in ReaderType(ItemsOf(r))
  <2> DEFINE S == ItemsOf(r)
  <2>1. r \in ReaderType(S)  OBVIOUS
  <2> HIDE DEF S
  <2>2. r.mode \in {"history", "source", "children", "query"} /\ r.root \in Places
        /\ r.depth \in 0..MaxDepth /\ r.snapshot \in Seq(Hashes)
    BY <2>1 DEF ReaderType
  <2>3. page \in Seq(S) /\ seen \in Seq(S)  BY DEF S
  <2>4. q \in ReaderType(S)  BY <2>2, <2>3 DEF ReaderType, Changed
  <2>5. QED  BY <2>4 DEF S
<1> HIDE DEF q
<1>3. ItemsOf(q) = ItemsOf(r)  BY <1>1, SameRequest
<1>4. PlaceOK(q, cursor, stored) /\ (busy => PlaceOK(q, state, stored))  BY <1>1, SameRequest
<1>5. Accounted(q, seen, cursor) /\ (busy => Accounted(q, Then(seen, page), state))
  BY <1>1, SameRequest
<1>6. IF busy THEN page = <<>> => budget > 0 /\ limit > 0 ELSE page = <<>>  BY DEF PageOK
<1>7. ReaderInv(q, stored)  BY <1>1, <1>2, <1>3, <1>4, <1>5, <1>6 DEF ReaderInv
<1>8. QED  BY <1>7 DEF q

\* A page that is not refused is the last one or has something in it.
Advances(r, q) ==
  (r.busy /\ ~q.busy /\ ~q.failed) => q.done \/ Len(q.seen) > Len(r.seen)
\* What is shown of a reader after a step.
GoesWell(r, q, stored) == ReaderInv(q, stored) /\ Advances(r, q)

\* The invariant, field by field.
LEMMA ReaderFields ==
  ASSUME NEW r, NEW stored, ReaderInv(r, stored)
  PROVE  /\ r \in ReaderType(ItemsOf(r)) /\ r.mode \in {"history", "source", "children", "query"}
         /\ r.depth \in 0..MaxDepth /\ r.snapshot \in Seq(Hashes)
         /\ r.cursor \in Place /\ r.state \in Place /\ r.budget \in Int /\ r.limit \in Int
         /\ r.page \in Seq(ItemsOf(r)) /\ r.seen \in Seq(ItemsOf(r)) /\ r.busy \in BOOLEAN /\ r.done \in BOOLEAN
         /\ r.failed \in BOOLEAN
         /\ PlaceOK(r, r.cursor, stored) /\ (r.busy => PlaceOK(r, r.state, stored))
         /\ Accounted(r, r.seen, r.cursor) /\ (r.busy => Accounted(r, Then(r.seen, r.page), r.state))
         /\ (r.done => r.cursor.stack = <<>>) /\ PageOK(r.busy, r.page, r.budget, r.limit)
<1> DEFINE S == ItemsOf(r)
<1>1. r \in ReaderType(S)  BY DEF ReaderInv
<1> HIDE DEF S
<1>2. /\ r.mode \in {"history", "source", "children", "query"}
      /\ r.depth \in 0..MaxDepth /\ r.snapshot \in Seq(Hashes)
      /\ r.cursor \in Place /\ r.state \in Place /\ r.budget \in Int /\ r.limit \in Int
      /\ r.page \in Seq(S) /\ r.seen \in Seq(S) /\ r.busy \in BOOLEAN /\ r.done \in BOOLEAN
      /\ r.failed \in BOOLEAN
  BY <1>1 DEF ReaderType
<1>3. QED  BY <1>1, <1>2 DEF S, ReaderInv, PageOK

\* A page that is dropped falls back on the cursor.
LEMMA DropKeeps ==
  ASSUME NEW r, NEW stored, ReaderInv(r, stored)
  PROVE  GoesWell(r, [r EXCEPT !.busy = FALSE, !.failed = TRUE, !.page = <<>>], stored)
<1> DEFINE no == FALSE
           yes == TRUE
           none == <<>>
           q == [r EXCEPT !.busy = no, !.failed = yes, !.page = none]
           c == Changed(r, r.cursor, r.state, r.budget, r.limit, none, r.seen, no, r.done, yes)
           S == ItemsOf(r)
<1>1. no \in BOOLEAN /\ ~no /\ yes \in BOOLEAN /\ yes /\ none \in Seq(S) /\ none = <<>>  OBVIOUS
<1>2. r \in ReaderType(S)  BY ReaderFields
<1> HIDE DEF S, no, yes, none
<1>3. q = c  BY <1>2, DropIs
<1>4. PageOK(no, none, r.budget, r.limit)  BY <1>1 DEF PageOK
<1>5. ReaderInv(c, stored)
  <2>1. /\ r \in ReaderType(S) /\ r.cursor \in Place /\ r.state \in Place /\ r.budget \in Int /\ r.limit \in Int
        /\ r.seen \in Seq(S) /\ r.done \in BOOLEAN /\ PlaceOK(r, r.cursor, stored)
        /\ Accounted(r, r.seen, r.cursor) /\ (r.done => r.cursor.stack = <<>>)
    BY ReaderFields DEF S
  <2> HIDE DEF c
  <2>2. QED  BY <1>1, <1>4, <2>1, ChangedKeeps, ZenonT(60) DEF S, c
<1>6. c.failed = yes
  <2> HIDE DEF c
  <2>1. c = Changed(r, r.cursor, r.state, r.budget, r.limit, none, r.seen, no, r.done, yes)  BY DEF c
  <2>2. QED  BY <2>1, ChangedFields
<1> HIDE DEF c
<1>7. GoesWell(r, c, stored)  BY <1>1, <1>5, <1>6 DEF GoesWell, Advances
<1>8. QED  BY <1>3, <1>7 DEF no, yes, none

\* The reader moves to a place from which the same is left.
LEMMA MoveKeeps ==
  ASSUME NEW r, NEW stored, ReaderInv(r, stored), r.busy = TRUE,
         NEW next \in Place, PlaceOK(r, next, stored), LeftFor(r, next) = LeftFor(r, r.state)
  PROVE  GoesWell(r, [r EXCEPT !.state = next], stored)
<1> DEFINE q == [r EXCEPT !.state = next]
           c == Changed(r, r.cursor, next, r.budget, r.limit, r.page, r.seen, r.busy, r.done, r.failed)
           S == ItemsOf(r)
<1>2. r \in ReaderType(S)  BY ReaderFields
<1> HIDE DEF S
<1>3. q = c  BY <1>2, MoveIs, Zenon
<1>4. Accounted(r, Then(r.seen, r.page), next)  BY ReaderFields DEF Accounted
<1>5. ReaderInv(c, stored)  BY <1>4, ReaderFields, ChangedKeeps DEF S
<1>6. c.busy = r.busy
  <2> HIDE DEF c
  <2>1. c = Changed(r, r.cursor, next, r.budget, r.limit, r.page, r.seen, r.busy, r.done, r.failed)  BY DEF c
  <2>2. QED  BY <2>1, ChangedFields
<1> HIDE DEF c
<1>7. GoesWell(r, c, stored)  BY <1>5, <1>6 DEF GoesWell, Advances
<1>8. QED  BY <1>3, <1>7

\* Something more makes a sequence longer.
LEMMA ThenMore ==
  ASSUME NEW S, NEW a \in Seq(S), NEW b \in Seq(S), b # <<>>
  PROVE  Len(Then(a, b)) > Len(a)
<1>1. Len(Then(a, b)) = Len(a) + Len(b)  BY ConcatProperties DEF Then
<1>2. Len(a) \in Nat /\ Len(b) \in Nat /\ Len(b) # 0  BY EmptySeq, LenProperties
<1>3. QED  BY <1>1, <1>2

\* So does a member more.
LEMMA ThenLonger ==
  ASSUME NEW S, NEW a \in Seq(S), NEW b \in Seq(S), NEW x \in S
  PROVE  /\ Append(Then(a, b), x) \in Seq(S) /\ Len(Append(Then(a, b), x)) > Len(a)
<1> DEFINE t == Then(a, b)
<1>1. t \in Seq(S) /\ Len(t) = Len(a) + Len(b)  BY ConcatProperties DEF Then
<1>2. Len(a) \in Nat /\ Len(b) \in Nat  BY LenProperties
<1> HIDE DEF t
<1>3. Append(t, x) \in Seq(S) /\ Len(Append(t, x)) = Len(t) + 1  BY <1>1, AppendProperties
<1>4. QED  BY <1>1, <1>2, <1>3 DEF t

\* Appending to two sequences appends to the second.
LEMMA ThenAppend ==
  ASSUME NEW S, NEW a \in Seq(S), NEW b \in Seq(S), NEW x \in S
  PROVE  Append(Then(a, b), x) = Then(a, Append(b, x)) /\ Then(a, b) \in Seq(S) /\ Append(b, x) \in Seq(S)
         /\ Append(b, x) # <<>>
BY DEF Then

\* The reader puts an item on the page and moves past what it shows.
LEMMA AddKeeps ==
  ASSUME NEW r, NEW stored, ReaderInv(r, stored), r.busy = TRUE,
         NEW next \in Place, PlaceOK(r, next, stored), NEW item \in ItemsOf(r), NEW budget \in Int,
         Then(UnitsBy(r, item), LeftFor(r, next)) = LeftFor(r, r.state)
  PROVE  GoesWell(r, Changed(r, r.cursor, next, budget, r.limit, Append(r.page, item), r.seen, r.busy, r.done, r.failed),
                  stored)
<1> DEFINE page == Append(r.page, item)
           c == Changed(r, r.cursor, next, budget, r.limit, page, r.seen, r.busy, r.done, r.failed)
           S == ItemsOf(r)
<1>1. r.seen \in Seq(S) /\ r.page \in Seq(S) /\ item \in S  BY ReaderFields
<1>2. r \in ReaderType(S)  BY ReaderFields
<1> HIDE DEF S
<1>3. /\ Append(Then(r.seen, r.page), item) = Then(r.seen, page) /\ Then(r.seen, r.page) \in Seq(S)
      /\ page \in Seq(S) /\ page # <<>>
  <2>1. Append(Then(r.seen, r.page), item) = Then(r.seen, page)  BY <1>1, ThenAppend
  <2>2. Then(r.seen, r.page) \in Seq(S)  BY <1>1, ThenAppend
  <2>3. page \in Seq(S)  BY <1>1, ThenAppend
  <2>4. page # <<>>
    <3>1. Len(r.page) \in Nat /\ Len(page) = Len(r.page) + 1  BY <1>1, AppendProperties, LenProperties
    <3> HIDE DEF page
    <3>2. Len(page) # 0  BY <3>1
    <3>3. QED  BY <3>2
  <2>5. QED  BY <2>1, <2>2, <2>3, <2>4
<1> HIDE DEF page
<1>5. Accounted(r, Then(r.seen, page), next)
  <2>1. Accounted(r, Append(Then(r.seen, r.page), item), next)  BY <1>3, ReaderFields, AccountedAdd DEF S
  <2>2. QED  BY <1>3, <2>1
<1>6. PageOK(r.busy, page, budget, r.limit)  BY <1>3 DEF PageOK
<1>7. ReaderInv(c, stored)
  <2>1. /\ r \in ReaderType(S) /\ r.cursor \in Place /\ r.limit \in Int /\ r.seen \in Seq(S)
        /\ r.busy \in BOOLEAN /\ r.done \in BOOLEAN /\ r.failed \in BOOLEAN /\ PlaceOK(r, r.cursor, stored)
        /\ Accounted(r, r.seen, r.cursor) /\ (r.done => r.cursor.stack = <<>>)
    BY ReaderFields DEF S
  <2> HIDE DEF c
  <2>2. QED  BY <1>3, <1>5, <1>6, <2>1, ChangedKeeps, ZenonT(60) DEF S, c
<1>8. c.busy = r.busy
  <2> HIDE DEF c
  <2>1. c = Changed(r, r.cursor, next, budget, r.limit, page, r.seen, r.busy, r.done, r.failed)  BY DEF c
  <2>2. QED  BY <2>1, ChangedFields
<1> HIDE DEF c
<1>9. GoesWell(r, c, stored)  BY <1>7, <1>8 DEF GoesWell, Advances
<1>10. QED  BY <1>9 DEF page, c

\* The page is answered.
LEMMA PublishKeeps ==
  ASSUME NEW r, NEW stored, ReaderInv(r, stored), r.busy = TRUE, NEW more \in BOOLEAN,
         IF more THEN r.page # <<>> ELSE r.state.stack = <<>>
  PROVE  GoesWell(r, Changed(r, r.state, r.state, r.budget, r.limit, <<>>, r.seen \o r.page, FALSE, ~more, r.failed), stored)
<1> DEFINE no == FALSE
           none == <<>>
           done == ~more
           seen == Then(r.seen, r.page)
           c == Changed(r, r.state, r.state, r.budget, r.limit, none, seen, no, done, r.failed)
           S == ItemsOf(r)
<1>1. no \in BOOLEAN /\ ~no /\ none \in Seq(S) /\ none = <<>> /\ done \in BOOLEAN  OBVIOUS
<1>2. r \in ReaderType(S) /\ r.seen \in Seq(S) /\ r.page \in Seq(S)  BY ReaderFields
<1> HIDE DEF S, no, none
<1>3. seen \in Seq(S) /\ (r.page # <<>> => Len(seen) > Len(r.seen))  BY <1>2, ThenType, ThenMore
<1> HIDE DEF seen, done
<1>5. PageOK(no, none, r.budget, r.limit)  BY <1>1 DEF PageOK
<1>6. Accounted(r, seen, r.state)  BY ReaderFields DEF seen
<1>7. done => r.state.stack = <<>>  BY DEF done
<1>8. ReaderInv(c, stored)
  <2>1. /\ r \in ReaderType(S) /\ r.state \in Place /\ r.budget \in Int /\ r.limit \in Int
        /\ PlaceOK(r, r.state, stored) /\ r.failed \in BOOLEAN
    BY ReaderFields DEF S
  <2> HIDE DEF c
  <2>2. QED  BY <1>1, <1>3, <1>5, <1>6, <1>7, <2>1, ChangedKeeps, ZenonT(60) DEF S, c
<1>9. c.seen = seen /\ c.done = done
  <2> HIDE DEF c
  <2>1. c = Changed(r, r.state, r.state, r.budget, r.limit, none, seen, no, done, r.failed)  BY DEF c
  <2>2. QED  BY <2>1, ChangedFields
<1> HIDE DEF c
<1>10. done \/ Len(seen) > Len(r.seen)  BY <1>3 DEF done
<1>11. GoesWell(r, c, stored)  BY <1>8, <1>9, <1>10 DEF GoesWell, Advances
<1>12. QED  BY <1>11 DEF c, no, none, done, seen, Then

\* The page is answered with a last item that is cut off in the middle.
LEMMA PartKeeps ==
  ASSUME NEW r, NEW stored, ReaderInv(r, stored), r.busy = TRUE,
         NEW next \in Place, PlaceOK(r, next, stored), NEW item \in ItemsOf(r),
         Then(UnitsBy(r, item), LeftFor(r, next)) = LeftFor(r, r.state)
  PROVE  GoesWell(r, Changed(r, next, r.state, r.budget, r.limit, <<>>,
                             Append(r.seen \o r.page, item), FALSE, FALSE, r.failed), stored)
<1> DEFINE no == FALSE
           none == <<>>
           base == Then(r.seen, r.page)
           seen == Append(base, item)
           c == Changed(r, next, r.state, r.budget, r.limit, none, seen, no, no, r.failed)
           S == ItemsOf(r)
<1>1. no \in BOOLEAN /\ ~no /\ none \in Seq(S) /\ none = <<>>  OBVIOUS
<1>2. r \in ReaderType(S) /\ r.seen \in Seq(S) /\ r.page \in Seq(S) /\ item \in S  BY ReaderFields
<1> HIDE DEF S, no, none
<1>3. base \in Seq(S)  BY <1>2, ThenType
<1>4. seen \in Seq(S) /\ Len(seen) > Len(r.seen)  BY <1>2, ThenLonger
<1>5. Accounted(r, seen, next)
  <2>1. Accounted(r, base, r.state)  BY ReaderFields
  <2> HIDE DEF base
  <2>2. QED  BY <1>2, <1>3, <2>1, ReaderFields, AccountedAdd DEF S
<1> HIDE DEF seen
<1>6. PageOK(no, none, r.budget, r.limit)  BY <1>1 DEF PageOK
<1>7. ReaderInv(c, stored)
  <2>1. /\ r \in ReaderType(S) /\ r.state \in Place /\ r.budget \in Int /\ r.limit \in Int
        /\ r.failed \in BOOLEAN
    BY ReaderFields DEF S
  <2> HIDE DEF c
  <2>2. QED  BY <1>1, <1>4, <1>5, <1>6, <2>1, ChangedKeeps, ZenonT(60) DEF S, c
<1>8. c.seen = seen
  <2> HIDE DEF c
  <2>1. c = Changed(r, next, r.state, r.budget, r.limit, none, seen, no, no, r.failed)  BY DEF c
  <2>2. QED  BY <2>1, ChangedFields
<1> HIDE DEF c
<1>9. GoesWell(r, c, stored)  BY <1>4, <1>7, <1>8 DEF GoesWell, Advances
<1>10. QED  BY <1>9 DEF c, no, none, seen, base, Then

-----------------------------------------------------------------------------
(* A round of a reader *)

\* Stepping on, popping and pushing keep a stack within the archive.
LEMMA WithinMoves ==
  ASSUME NEW stack \in Stacks, stack # <<>>, NEW places, Within(stack, places)
  PROVE  /\ Last(stack)[1] \in places /\ Within(Front(stack), places) /\ Within(StepOn(stack), places)
         /\ \A c \in places : Within(Append(StepOn(stack), <<c, 0>>), places)
<1> DEFINE n == Len(stack)
           f == Front(stack)
           l == Last(stack)
           g == <<l[1], l[2] + 1>>
           o == StepOn(stack)
<1>1. /\ f \in Stacks /\ l \in Places \X Nat /\ stack = Append(f, l) /\ Len(f) = n - 1
      /\ g \in Places \X Nat /\ o \in Stacks
  BY FrontLast, StepOnType DEF Stacks
<1>2. n \in Nat /\ Len(f) \in Nat  BY <1>1, LenProperties DEF Stacks
<1> HIDE DEF f, l, n, o
<1>3. stack[n] = l /\ \A k \in 1..(n - 1) : stack[k] = f[k]
  <2>1. stack[Len(f) + 1] = l /\ \A k \in 1..Len(f) : stack[k] = f[k]  BY <1>1, AppendProperties DEF Stacks
  <2>2. Len(f) + 1 = n  BY <1>1, <1>2
  <2>3. QED  BY <1>1, <2>1, <2>2
<1>4. n \in 1..n /\ \A k \in 1..(n - 1) : k \in 1..n  BY <1>1, <1>2
<1>5. l[1] \in places  BY <1>3, <1>4 DEF Within, n
<1>6. \A k \in 1..Len(f) : f[k][1] \in places  BY <1>1, <1>3, <1>4 DEF Within, n
<1>7. g[1] = l[1]  OBVIOUS
<1>8. Len(o) = n /\ o[n] = g /\ \A k \in 1..(n - 1) : o[k] = f[k]
  <2>1. o = Append(f, g)  BY DEF o, f, l, StepOn
  <2> HIDE DEF g
  <2>2. Len(o) = Len(f) + 1 /\ o[Len(f) + 1] = g /\ \A k \in 1..Len(f) : o[k] = f[k]
    BY <1>1, <2>1, AppendProperties DEF Stacks
  <2>3. Len(f) + 1 = n  BY <1>1, <1>2
  <2>4. QED  BY <1>1, <2>2, <2>3
<1> HIDE DEF g
<1>9. \A k \in 1..Len(o) : o[k][1] \in places
  <2>1. ASSUME NEW k \in 1..n  PROVE o[k][1] \in places
    <3>1. CASE k = n  BY <1>5, <1>7, <1>8, <3>1
    <3>2. CASE k # n
      <4>1. k \in 1..(n - 1)  BY <1>2, <3>2
      <4>2. QED  BY <1>1, <1>6, <1>8, <4>1
    <3>3. QED  BY <3>1, <3>2
  <2>2. QED  BY <1>8, <2>1
<1>10. ASSUME NEW c \in places  PROVE Within(Append(o, <<c, 0>>), places)
  <2> DEFINE z == <<c, 0>>
             a == Append(o, z)
  <2>1. z[1] = c  OBVIOUS
  <2> HIDE DEF z
  <2>2. Len(a) = n + 1 /\ a[n + 1] = z /\ \A k \in 1..n : a[k] = o[k]
    <3>1. o \in Seq(Places \X Nat)  BY <1>1 DEF Stacks
    <3>2. QED  BY <1>8, <3>1
  <2> HIDE DEF a
  <2>3. ASSUME NEW k \in 1..(n + 1)  PROVE a[k][1] \in places
    <3>1. CASE k = n + 1  BY <1>10, <2>1, <2>2, <3>1
    <3>2. CASE k # n + 1
      <4>1. k \in 1..n  BY <1>2, <3>2
      <4>2. QED  BY <1>8, <1>9, <2>2, <4>1
    <3>3. QED  BY <3>1, <3>2
  <2>4. Within(a, places)  BY <2>2, <2>3 DEF Within
  <2>5. QED  BY <2>4 DEF a, z
<1>11. QED  BY <1>5, <1>6, <1>9, <1>10 DEF Within, f, l, o

\* Between pages a reader may be in a container, and what it is at there.
AtRow(r, stored) ==
  /\ ReaderInv(r, stored) /\ ArchivesOK(stored) /\ r.busy = TRUE /\ r.mode # "children"
  /\ r.state.stack # <<>>

\* What the invariant says of the place of a page being read row by row.
LEMMA RowPlace ==
  ASSUME NEW r, NEW stored, AtRow(r, stored)
  PROVE  /\ r.state \in Place /\ r.state.stack \in Stacks /\ r.state.stack # <<>> /\ r.state.intra \in Nat
         /\ r.snapshot \in Seq(Hashes) /\ Last(r.state.stack) \in Places \X Nat
         /\ Within(r.state.stack, Ground(r, stored)) /\ Last(r.state.stack)[1] \in Ground(r, stored)
         /\ (r.state.intra # 0 => InText(r.state.stack, r.snapshot))
         /\ r.mode \in {"history", "source", "query"}
<1>1. ReaderInv(r, stored) /\ r.busy = TRUE /\ r.mode # "children" /\ r.state.stack # <<>>  BY DEF AtRow
<1>2. r.state \in Place /\ r.snapshot \in Seq(Hashes) /\ PlaceOK(r, r.state, stored)
      /\ r.mode \in {"history", "source", "children", "query"}
  BY <1>1, ReaderFields
<1>3. r.state.stack \in Stacks /\ r.state.intra \in Nat  BY <1>2 DEF Place
<1>4. Within(r.state.stack, Ground(r, stored)) /\ (r.state.intra # 0 => InText(r.state.stack, r.snapshot))
  BY <1>2 DEF PlaceOK
<1>5. Last(r.state.stack) \in Places \X Nat /\ Last(r.state.stack)[1] \in Ground(r, stored)
  BY <1>1, <1>3, <1>4, StepOnType, WithinMoves
<1>6. QED  BY <1>1, <1>2, <1>3, <1>4, <1>5

\* The rows that are read are those of the container on top.
LEMMA RowEntries ==
  ASSUME AtRow(reader, archived)
  PROVE  TopEntries = At(reader.state.stack, reader.snapshot) /\ Top = Last(reader.state.stack)
<1> DEFINE c == Last(reader.state.stack)[1]
<1>1. c \in Ground(reader, archived) /\ reader.mode \in {"history", "source", "query"}  BY RowPlace
<1>2. archived \subseteq Histories  BY RetrievalAssumption DEF AtRow, ArchivesOK
<1>3. Top = Last(reader.state.stack) /\ TopEntries = Entries(c)  BY DEF Top, TopEntries
<1>4. At(reader.state.stack, reader.snapshot) = RowsOf(c, reader.snapshot)  BY DEF At
<1> HIDE DEF c
<1>5. Entries(c) = RowsOf(c, reader.snapshot)
  <2>1. CASE reader.mode = "history"
    <3>1. c \in archived  BY <1>1, <2>1 DEF Ground
    <3>2. c \in Histories  BY <1>2, <3>1
    <3>3. QED  BY <3>1, <3>2 DEF Entries, RowsOf, Held, Containers
  <2>2. CASE reader.mode = "source"
    <3>1. c \in NodeIds  BY <1>1, <2>2 DEF Ground
    <3>2. c \notin Histories  BY <3>1, RetrievalAssumption
    <3>3. QED  BY <3>1, <3>2 DEF Entries, RowsOf, Held, Containers
  <2>3. CASE reader.mode = "query"
    <3>1. c = "hits"  BY <1>1, <2>3 DEF Ground
    <3>2. c \notin Histories /\ c \notin NodeIds  BY <3>1, RetrievalAssumption
    <3>3. QED  BY <3>2 DEF Entries, RowsOf, Containers
  <2>4. QED  BY <1>1, <2>1, <2>2, <2>3
<1>6. QED  BY <1>3, <1>4, <1>5

\* What an entry opens is what it stands for, unless its object cannot be read.
LEMMA RowOpens ==
  ASSUME AtRow(reader, archived), NEW c, c = Last(reader.state.stack)[1],
         Last(reader.state.stack)[2] < Len(At(reader.state.stack, reader.snapshot)),
         NEW e, e = Entry(reader.state.stack, reader.snapshot)
  PROVE  /\ e \in Listed /\ Opens(e) \subseteq StandsFor(c, e) /\ Opens(e) \subseteq Ground(reader, archived)
         /\ (Opens(e) = {} => e \in Hashes)
         /\ ((Opens(e) = {} /\ HasText(e)) => StandsFor(c, e) = {})
         /\ ((Opens(e) = {} /\ ~HasText(e)) =>
               reader.mode \in {"history", "source"} /\ (reader.mode = "history" => StandsFor(c, e) = {ChildOf[e]} \cap Owned))
<1> DEFINE stack == reader.state.stack
           rows == At(stack, reader.snapshot)
           k == Last(stack)[2] + 1
<1>1. c \in Ground(reader, archived) /\ reader.mode \in {"history", "source", "query"}  BY RowPlace
<1>2. archived \subseteq Histories /\ archived \subseteq Owned  BY RetrievalAssumption DEF AtRow, ArchivesOK
<1>3. e \in Listed /\ rows = RowsOf(c, reader.snapshot) /\ rows \in Seq(Listed) /\ k \in 1..Len(rows) /\ e = rows[k]
  <2>1. rows = RowsOf(c, reader.snapshot)  BY DEF At
  <2>2. rows \in Seq(Listed) /\ Last(stack)[2] \in Nat  BY <2>1, RowPlace, RowsType
  <2>3. e = rows[k]  BY DEF Entry
  <2>4. k \in 1..Len(rows)
    <3>1. Len(rows) \in Nat /\ Last(stack)[2] < Len(rows)  BY <2>2, LenProperties
    <3> HIDE DEF rows
    <3>2. QED  BY <2>2, <3>1
  <2>5. e \in Listed  BY <2>2, <2>3, <2>4, ElementOfSeq
  <2>6. QED  BY <2>1, <2>2, <2>3, <2>4, <2>5
<1> HIDE DEF rows, k, stack
<1>4. Hashes \cap NodeIds = {} /\ Histories \cap NodeIds = {} /\ "hits" \notin Histories \cup NodeIds
  BY RetrievalAssumption
<1>5. CASE reader.mode = "history"
  <2>1. c \in archived /\ Ground(reader, archived) = archived  BY <1>1, <1>5 DEF Ground
  <2>2. c \in Histories  BY <1>2, <2>1
  <2>3. rows = Messages[c]  BY <1>3, <2>2 DEF RowsOf, Held, Containers
  <2>4. Messages[c] \in Seq(Hashes)  BY <2>2, RetrievalAssumption
  <2>5. e \in Hashes  BY <1>3, <2>3, <2>4, ElementOfSeq
  <2>6. e \notin NodeIds  BY <1>4, <2>5
  <2>7. e \in ToSet(Messages[c])  BY <1>3, <2>3 DEF ToSet
  <2>8. ChildOf[e] \in Owned => ChildOf[e] \in archived  BY <2>1, <2>7 DEF AtRow, ArchivesOK
  <2>9. StandsFor(c, e) = {ChildOf[e]} \cap Owned  BY <2>2, <2>6 DEF StandsFor
  <2>10. Opens(e) = IF e \in readable THEN {ChildOf[e]} \cap archived ELSE {}  BY <1>5, <2>6 DEF Opens
  <2>11. HasText(e) <=> e \in readable  BY <1>5 DEF HasText
  <2>12. QED  BY <1>2, <1>3, <1>5, <2>1, <2>5, <2>8, <2>9, <2>10, <2>11
<1>6. CASE reader.mode = "source"
  <2>1. c \in NodeIds /\ Ground(reader, archived) = NodeIds  BY <1>1, <1>6 DEF Ground
  <2>2. c \notin Histories  BY <1>4, <2>1
  <2>3. StandsFor(c, e) = IF e \in NodeIds THEN {e} ELSE {}  BY <2>2 DEF StandsFor
  <2>4. Opens(e) = IF e \in NodeIds THEN {e} ELSE {}  BY <1>6 DEF Opens
  <2>5. e \notin NodeIds => e \in Hashes  BY <1>3 DEF Listed
  <2>6. QED  BY <1>3, <1>6, <2>1, <2>3, <2>4, <2>5
<1>7. CASE reader.mode = "query"
  <2>1. c = "hits"  BY <1>1, <1>7 DEF Ground
  <2>2. c \notin Histories /\ c \notin NodeIds  BY <1>4, <2>1
  <2>3. rows = reader.snapshot /\ reader.snapshot \in Seq(Hashes)  BY <1>3, <2>2, RowPlace DEF RowsOf, Containers
  <2>4. e \in Hashes  BY <1>3, <2>3, ElementOfSeq
  <2>5. e \notin NodeIds  BY <1>4, <2>4
  <2>6. StandsFor(c, e) = {} /\ Opens(e) = {} /\ HasText(e)  BY <1>7, <2>2, <2>5 DEF StandsFor, Opens, HasText
  <2>7. QED  BY <1>3, <1>7, <2>4, <2>6
<1>8. QED  BY <1>1, <1>5, <1>6, <1>7

\* Changing the stack of a place keeps its offset.
LEMMA StackIs ==
  ASSUME NEW S, NEW r \in ReaderType(S), NEW stack
  PROVE  [r EXCEPT !.state.stack = stack] = [r EXCEPT !.state = [stack |-> stack, intra |-> r.state.intra]]
<1>1. r.state \in Place  BY DEF ReaderType
<1>2. [r.state EXCEPT !.stack = stack] = [stack |-> stack, intra |-> r.state.intra]  BY <1>1 DEF Place
<1>3. [r EXCEPT !.state.stack = stack] = [r EXCEPT !.state = [r.state EXCEPT !.stack = stack]]  BY Zenon
<1>4. QED  BY <1>2, <1>3

\* The reader moves its stack, from an entry that is not a text it is inside of.
LEMMA StackMoves ==
  ASSUME NEW r, NEW stored, AtRow(r, stored), NEW stack \in Stacks, Within(stack, Ground(r, stored)),
         ~InText(r.state.stack, r.snapshot),
         Remaining(stack, r.snapshot) = Remaining(r.state.stack, r.snapshot)
  PROVE  GoesWell(r, [r EXCEPT !.state.stack = stack], stored)
<1> DEFINE next == [stack |-> stack, intra |-> r.state.intra]
<1>1. ReaderInv(r, stored) /\ r.busy = TRUE /\ r.mode # "children"  BY DEF AtRow
<1>2. r.state.intra = 0  BY RowPlace
<1>3. next \in Place /\ next.stack = stack /\ next.intra = 0  BY <1>2 DEF Place
<1>4. [r EXCEPT !.state.stack = stack] = [r EXCEPT !.state = next]
  <2>1. PICK S : r \in ReaderType(S)  BY <1>1, ReaderFields
  <2>2. QED  BY <2>1, StackIs
<1> HIDE DEF next
<1>5. PlaceOK(r, next, stored)  BY <1>3 DEF PlaceOK
<1>6. LeftFor(r, next) = Remaining(stack, r.snapshot)  BY <1>1, <1>3 DEF LeftFor, Ahead
<1>7. LeftFor(r, r.state) = Remaining(r.state.stack, r.snapshot)  BY <1>1, <1>2 DEF LeftFor, Ahead
<1>8. LeftFor(r, next) = LeftFor(r, r.state)  BY <1>6, <1>7
<1>9. GoesWell(r, [r EXCEPT !.state = next], stored)  BY <1>1, <1>3, <1>5, <1>8, MoveKeeps
<1>10. QED  BY <1>4, <1>9

\* Leaving a container that has no rows left keeps the invariant.
LEMMA PopFrameKeeps ==
  ASSUME AtRow(reader, archived), PopFrame
  PROVE  GoesWell(reader, reader', archived)
<1> DEFINE stack == reader.state.stack
<1>1. Last(stack)[2] >= Len(At(stack, reader.snapshot))  BY RowEntries DEF PopFrame
<1>2. ~InText(stack, reader.snapshot)
  <2>1. At(stack, reader.snapshot) \in Seq(Listed) /\ Last(stack)[2] \in Nat  BY RowPlace, RowsType DEF At
  <2>2. Len(At(stack, reader.snapshot)) \in Nat  BY <2>1, LenProperties
  <2>3. ~(Last(stack)[2] < Len(At(stack, reader.snapshot)))  BY <1>1, <2>1, <2>2
  <2>4. QED  BY <2>3 DEF InText
<1>3. Remaining(Front(stack), reader.snapshot) = Remaining(stack, reader.snapshot)
  BY <1>1, RowPlace, RemainingPop
<1>4. Front(stack) \in Stacks /\ Within(Front(stack), Ground(reader, archived))
  BY RowPlace, StepOnType, WithinMoves
<1>5. reader' = [reader EXCEPT !.state.stack = Front(stack)]  BY DEF PopFrame
<1> HIDE DEF stack
<1>6. GoesWell(reader, [reader EXCEPT !.state.stack = Front(stack)], archived)
  BY <1>2, <1>3, <1>4, StackMoves DEF stack
<1>7. QED  BY <1>5, <1>6

\* The code's advance steps on to the next entry.
LEMMA AdvancedIs ==
  ASSUME AtRow(reader, archived)
  PROVE  Advanced = StepOn(reader.state.stack)
BY RowEntries DEF Advanced, StepOn

\* An error keeps the invariant.
LEMMA DropsWell ==
  ASSUME ReaderInv(reader, archived)
  PROVE  GoesWell(reader, Dropped, archived)
BY DropKeeps DEF Dropped

\* The reader is at row e of a container.
AtEntry(e) ==
  /\ AtRow(reader, archived) /\ Top[2] < Len(TopEntries) /\ e = TopEntries[Top[2] + 1]

\* What the invariant says at an entry.
LEMMA EntryPlace ==
  ASSUME NEW e, AtEntry(e)
  PROVE  /\ AtRow(reader, archived) /\ ReaderInv(reader, archived) /\ reader.busy = TRUE
         /\ Last(reader.state.stack)[2] < Len(At(reader.state.stack, reader.snapshot))
         /\ e = Entry(reader.state.stack, reader.snapshot)
BY RowEntries DEF AtEntry, Entry, AtRow

\* Going on inside a container keeps the invariant: what the entry stands for is what is inside.
LEMMA DescendKeeps ==
  ASSUME NEW e, AtEntry(e), Descend(e)
  PROVE  GoesWell(reader, reader', archived)
<1> DEFINE stack == reader.state.stack
           c == Last(stack)[1]
<1>1. /\ AtRow(reader, archived) /\ ReaderInv(reader, archived)
      /\ Last(stack)[2] < Len(At(stack, reader.snapshot)) /\ e = Entry(stack, reader.snapshot)
  BY EntryPlace
<1>2. PICK b \in Opens(e) :
        reader' = IF \E k \in 1..Len(stack) : stack[k][1] = b
                    THEN Dropped ELSE [reader EXCEPT !.state.stack = Append(Advanced, <<b, 0>>)]
  BY DEF Descend
<1>3. b \in StandsFor(c, e) /\ b \in Ground(reader, archived)  BY <1>1, RowOpens
<1>4. CASE reader' = Dropped  BY <1>1, <1>4, DropsWell
<1>5. CASE reader' = [reader EXCEPT !.state.stack = Append(Advanced, <<b, 0>>)]
  <2> DEFINE next == Append(StepOn(stack), <<b, 0>>)
  <2>1. next \in Stacks /\ Remaining(next, reader.snapshot) = Remaining(stack, reader.snapshot)
    BY <1>1, <1>3, RowPlace, RemainingInside
  <2>2. Within(next, Ground(reader, archived))  BY <1>1, <1>3, RowPlace, WithinMoves
  <2>3. ~InText(stack, reader.snapshot)  BY <1>1, <1>3 DEF InText
  <2>4. reader' = [reader EXCEPT !.state.stack = next]  BY <1>1, <1>5, AdvancedIs
  <2> HIDE DEF next, stack
  <2>5. GoesWell(reader, [reader EXCEPT !.state.stack = next], archived)
    BY <1>1, <2>1, <2>2, <2>3, StackMoves DEF stack
  <2>6. QED  BY <2>4, <2>5
<1>6. QED  BY <1>2, <1>4, <1>5

\* Where a reader stands past a row, and what it has left there.
LEMMA PastEntry ==
  ASSUME NEW e, AtEntry(e), NEW next, next = [stack |-> StepOn(reader.state.stack), intra |-> 0]
  PROVE  /\ next \in Place /\ PlaceOK(reader, next, archived)
         /\ LeftFor(reader, next) = Remaining(StepOn(reader.state.stack), reader.snapshot)
<1> DEFINE stack == reader.state.stack
<1>1. AtRow(reader, archived) /\ reader.mode # "children"  BY EntryPlace DEF AtRow
<1>2. StepOn(stack) \in Stacks /\ Within(StepOn(stack), Ground(reader, archived))
  BY <1>1, RowPlace, StepOnType, WithinMoves
<1>3. next \in Place /\ next.stack = StepOn(stack) /\ next.intra = 0  BY <1>2 DEF Place
<1> HIDE DEF stack
<1>4. PlaceOK(reader, next, archived)  BY <1>2, <1>3 DEF PlaceOK
<1>5. LeftFor(reader, next) = Remaining(StepOn(stack), reader.snapshot)  BY <1>1, <1>3 DEF LeftFor, Ahead
<1>6. QED  BY <1>3, <1>4, <1>5 DEF stack

\* Reporting a message missing keeps the invariant: the report stands for the rest of it.
LEMMA MissKeeps ==
  ASSUME NEW e, AtEntry(e), Miss(e)
  PROVE  GoesWell(reader, reader', archived)
<1> DEFINE stack == reader.state.stack
           c == Last(stack)[1]
           snapshot == reader.snapshot
           rest == Remaining(StepOn(stack), snapshot)
           intra == reader.state.intra
           end == Length(Text[e])
           yes == TRUE
           item == [hash |-> e, from |-> intra, to |-> end, missing |-> yes]
           next == [stack |-> StepOn(stack), intra |-> 0]
           page == Append(reader.page, item)
<1>1. /\ AtRow(reader, archived) /\ ReaderInv(reader, archived) /\ reader.busy = TRUE
      /\ Last(stack)[2] < Len(At(stack, snapshot)) /\ e = Entry(stack, snapshot)
  BY EntryPlace
<1>2. CASE reader' = Dropped  BY <1>1, <1>2, DropsWell
<1>3. CASE reader.mode # "source" /\
           reader' = [reader EXCEPT !.page = Append(@, [hash |-> e, from |-> reader.state.intra,
                                                        to |-> Length(Text[e]), missing |-> TRUE]),
                                    !.state = [stack |-> Advanced, intra |-> 0]]
  <2>1. Opens(e) = {} /\ ~HasText(e)  BY DEF Miss
  <2>2. e \in Hashes /\ reader.mode = "history" /\ StandsFor(c, e) = {ChildOf[e]} \cap Owned
    BY <1>1, <1>3, <2>1, RowOpens
  <2>3. next \in Place /\ PlaceOK(reader, next, archived) /\ LeftFor(reader, next) = rest  BY PastEntry
  <2>4. intra \in Nat /\ end \in Nat /\ yes \in BOOLEAN  BY <1>1, <2>2, RowPlace, LengthType
  <2> HIDE DEF end, yes
  <2>5. item \in Item /\ item.hash = e /\ item.from = intra /\ item.to = end /\ item.missing = yes
    BY <2>2, <2>4 DEF Item
  <2>6. reader.state \in Place /\ snapshot \in Seq(Hashes) /\ stack \in Stacks /\ stack # <<>>
        /\ (intra # 0 => InText(stack, snapshot))
    BY <1>1, RowPlace
  <2>7. LeftFor(reader, reader.state) = Ahead(reader.state, snapshot) /\ ItemsOf(reader) = Item
        /\ UnitsBy(reader, item) = ShownBy(item)
    BY <2>2 DEF LeftFor, ItemsOf, UnitsBy
  <2> HIDE DEF item, next, rest
  <2>8. Then(ShownBy(item), rest) = Ahead(reader.state, snapshot)
    <3>1. CASE ChildOf[e] \in Owned
      <4>1. StandsFor(c, e) = {ChildOf[e]}  BY <2>2, <3>1
      <4>2. intra = 0  BY <1>1, <2>6, <4>1 DEF InText
      <4>3. Container(c, e) = ChildOf[e]  BY <4>1 DEF Container
      <4>4. PieceOf(c, e) = Content(ChildOf[e])  BY <4>1, <4>3 DEF PieceOf
      <4>5. Remaining(stack, snapshot) = Then(PieceOf(c, e), rest)  BY <1>1, <2>6, RemainingStep DEF rest
      <4>6. ShownBy(item) = Content(ChildOf[e])  BY <2>5, <3>1 DEF ShownBy, yes
      <4>7. Ahead(reader.state, snapshot) = Remaining(stack, snapshot)  BY <4>2 DEF Ahead
      <4>8. QED  BY <4>4, <4>5, <4>6, <4>7
    <3>2. CASE ChildOf[e] \notin Owned
      <4>1. StandsFor(c, e) = {}  BY <2>2, <3>2
      <4>2. InText(stack, snapshot)  BY <1>1, <2>6, <4>1 DEF InText
      <4>3. Ahead(reader.state, snapshot) = Then(Span(e, intra, end), rest)
        BY <1>1, <2>6, <4>2, AheadLeaf DEF rest, end
      <4>4. ShownBy(item) = Span(e, intra, end)  BY <2>5, <3>2 DEF ShownBy
      <4>5. QED  BY <4>3, <4>4
    <3>3. QED  BY <3>1, <3>2
  <2>9. Then(UnitsBy(reader, item), LeftFor(reader, next)) = LeftFor(reader, reader.state)
    BY <2>3, <2>7, <2>8
  <2>10. reader.budget \in Int  BY <1>1, ReaderFields
  <2>11. GoesWell(reader, Changed(reader, reader.cursor, next, reader.budget, reader.limit, page,
                                  reader.seen, reader.busy, reader.done, reader.failed), archived)
    BY <1>1, <2>3, <2>5, <2>7, <2>9, <2>10, AddKeeps
  <2>12. reader' = [reader EXCEPT !.page = page, !.state = next]
    BY <1>1, <1>3, AdvancedIs DEF item, next, end, yes
  <2>13. PICK S : reader \in ReaderType(S)  BY <1>1, ReaderFields
  <2> HIDE DEF page
  <2>14. reader' = Changed(reader, reader.cursor, next, reader.budget, reader.limit, page,
                           reader.seen, reader.busy, reader.done, reader.failed)
    BY <2>12, <2>13, ShowIs
  <2>15. QED  BY <2>11, <2>14
<1>4. QED  BY <1>2, <1>3 DEF Miss

\* The fields after a page is published.
LEMMA PublishedIs ==
  ASSUME ReaderInv(reader, archived), NEW more \in BOOLEAN
  PROVE  Published(more) = Changed(reader, reader.state, reader.state, reader.budget, reader.limit, <<>>,
                                   reader.seen \o reader.page, FALSE, ~more, reader.failed)
<1> DEFINE no == FALSE
           none == <<>>
           done == ~more
           seen == reader.seen \o reader.page
           q1 == [reader EXCEPT !.seen = seen]
           q2 == [q1 EXCEPT !.page = none]
           q3 == [q2 EXCEPT !.busy = no]
           q4 == [q3 EXCEPT !.done = done]
           q5 == [q4 EXCEPT !.cursor = reader.state]
<1>1. PICK S : reader \in ReaderType(S)  BY ReaderFields
<1>2. Published(more) = q5  BY Zenon DEF Published
<1>3. reader = Changed(reader, reader.cursor, reader.state, reader.budget, reader.limit, reader.page, reader.seen,
                       reader.busy, reader.done, reader.failed)
  BY <1>1, ReaderIs
<1> HIDE DEF no, none, done, seen
<1>4. q1 = Changed(reader, reader.cursor, reader.state, reader.budget, reader.limit, reader.page, seen,
                   reader.busy, reader.done, reader.failed)
  BY <1>3, SetSeen
<1> HIDE DEF q1
<1>5. q2 = Changed(reader, reader.cursor, reader.state, reader.budget, reader.limit, none, seen,
                   reader.busy, reader.done, reader.failed)
  BY <1>4, SetPage
<1> HIDE DEF q2
<1>6. q3 = Changed(reader, reader.cursor, reader.state, reader.budget, reader.limit, none, seen, no, reader.done, reader.failed)
  BY <1>5, SetBusy
<1> HIDE DEF q3
<1>7. q4 = Changed(reader, reader.cursor, reader.state, reader.budget, reader.limit, none, seen, no, done, reader.failed)
  BY <1>6, SetDone
<1> HIDE DEF q4
<1>8. q5 = Changed(reader, reader.state, reader.state, reader.budget, reader.limit, none, seen, no, done, reader.failed)
  BY <1>7, SetCursor
<1> HIDE DEF q5
<1>9. QED  BY <1>2, <1>8 DEF no, none, done, seen

\* A page that ends with something in it, or with nothing left, keeps the invariant and advances.
LEMMA PublishesWell ==
  ASSUME ReaderInv(reader, archived), reader.busy = TRUE, NEW more \in BOOLEAN,
         IF more THEN reader.page # <<>> ELSE reader.state.stack = <<>>
  PROVE  GoesWell(reader, Published(more), archived)
BY PublishedIs, PublishKeeps

\* The page ends inside the text the reader is at.
LEMMA PartIs ==
  ASSUME ReaderInv(reader, archived), NEW item, NEW end
  PROVE  [Published(TRUE) EXCEPT !.seen = Append(@, item), !.cursor.intra = end] =
           Changed(reader, [stack |-> reader.state.stack, intra |-> end], reader.state, reader.budget,
                   reader.limit, <<>>, Append(reader.seen \o reader.page, item), FALSE, FALSE, reader.failed)
<1> DEFINE no == FALSE
           none == <<>>
           base == reader.seen \o reader.page
           seen == Append(base, item)
           q == Published(TRUE)
           q1 == [q EXCEPT !.seen = seen]
           place == [stack |-> reader.state.stack, intra |-> end]
           q2 == [q1 EXCEPT !.cursor = place]
<1>1. q = Changed(reader, reader.state, reader.state, reader.budget, reader.limit, none, base, no, no, reader.failed)
  BY PublishedIs
<1> HIDE DEF q, no, none, base
<1>2. q.seen = base  BY <1>1, ChangedFields
<1> HIDE DEF seen
<1>3. q1 = Changed(reader, reader.state, reader.state, reader.budget, reader.limit, none, seen, no, no, reader.failed)
  BY <1>1, SetSeen
<1> HIDE DEF q1
<1>4. q1.cursor = reader.state  BY <1>3, ChangedFields
<1>5. reader.state \in Place  BY ReaderFields
<1>6. [reader.state EXCEPT !.intra = end] = place  BY <1>5 DEF Place
<1> HIDE DEF place
<1>7. q2 = Changed(reader, place, reader.state, reader.budget, reader.limit, none, seen, no, no, reader.failed)
  BY <1>3, SetCursor
<1>8. [q EXCEPT !.seen = Append(@, item), !.cursor.intra = end] = q2
  <2>1. [q EXCEPT !.seen = Append(@, item), !.cursor.intra = end] = [q1 EXCEPT !.cursor.intra = end]
    BY <1>2, Zenon DEF q1, seen
  <2>2. [q1 EXCEPT !.cursor.intra = end] = [q1 EXCEPT !.cursor = [q1.cursor EXCEPT !.intra = end]]  BY Zenon
  <2>3. QED  BY <1>4, <1>6, <2>1, <2>2
<1>9. QED  BY <1>7, <1>8 DEF q, place, no, none, seen, base

\* A full page is not empty, since budgets and limits are positive.
LEMMA FullPage ==
  ASSUME ReaderInv(reader, archived), reader.busy = TRUE, Full
  PROVE  reader.page # <<>>
<1>1. reader.budget \in Int /\ reader.limit \in Int /\ PageOK(reader.busy, reader.page, reader.budget, reader.limit)
  BY ReaderFields
<1>2. reader.page = <<>> => reader.budget > 0 /\ reader.limit > 0  BY <1>1 DEF PageOK
<1>3. reader.budget <= 0 \/ Len(reader.page) >= reader.limit  BY DEF Full
<1>4. SUFFICES ASSUME reader.page = <<>>  PROVE FALSE  OBVIOUS
<1>5. Len(reader.page) = 0  BY <1>4
<1>6. QED  BY <1>1, <1>2, <1>3, <1>4, <1>5

\* Taking a message, or as much of it as fits, keeps the invariant.
LEMMA TakeKeeps ==
  ASSUME NEW e, AtEntry(e), Take(e)
  PROVE  GoesWell(reader, reader', archived)
<1> DEFINE stack == reader.state.stack
           c == Last(stack)[1]
           snapshot == reader.snapshot
           rest == Remaining(StepOn(stack), snapshot)
           intra == reader.state.intra
           text == Text[e]
           p == PaginateText(text, intra, reader.budget)
           no == FALSE
           item == [hash |-> e, from |-> intra, to |-> p.end, missing |-> no]
           next == [stack |-> StepOn(stack), intra |-> 0]
           place == [stack |-> stack, intra |-> p.end]
           page == Append(reader.page, item)
<1>1. /\ AtRow(reader, archived) /\ ReaderInv(reader, archived) /\ reader.busy = TRUE
      /\ Last(stack)[2] < Len(At(stack, snapshot)) /\ e = Entry(stack, snapshot)
  BY EntryPlace
<1>2. Opens(e) = {} /\ HasText(e)  BY DEF Take
<1>3. e \in Hashes /\ StandsFor(c, e) = {}  BY <1>1, <1>2, RowOpens
<1>4. /\ reader.state \in Place /\ snapshot \in Seq(Hashes) /\ stack \in Stacks /\ stack # <<>> /\ intra \in Nat
      /\ reader.budget \in Int /\ reader.mode # "children"
  BY <1>1, RowPlace, ReaderFields DEF AtRow
<1>5. InText(stack, snapshot)  BY <1>1, <1>3, <1>4 DEF InText
<1>6. Ahead(reader.state, snapshot) = Then(Span(e, intra, Length(text)), rest)  BY <1>1, <1>4, <1>5, AheadLeaf
<1>7. /\ LeftFor(reader, reader.state) = Ahead(reader.state, snapshot) /\ ItemsOf(reader) = Item
      /\ \A x : UnitsBy(reader, x) = ShownBy(x)
  BY <1>4 DEF LeftFor, ItemsOf, UnitsBy
<1>8. text \in Seq(1..4) /\ Length(text) \in Nat  BY <1>3, LengthType, RetrievalAssumption
<1>9. \/ p.kind # "page" /\ reader' = IF HasItem THEN Published(TRUE) ELSE Dropped
      \/ p.kind = "page" /\ ~p.more /\
         reader' = [reader EXCEPT !.page = Append(@, item), !.budget = @ - p.bytes,
                                  !.state = [stack |-> Advanced, intra |-> 0]]
      \/ p.kind = "page" /\ p.more /\
         reader' = [Published(TRUE) EXCEPT !.seen = Append(@, item), !.cursor.intra = p.end]
  BY DEF Take
<1>10. ASSUME p.kind = "page"
       PROVE  /\ p.end \in Nat /\ intra <= p.end /\ p.end <= Length(text) /\ p.bytes \in Nat
              /\ (~p.more => p.end = Length(text))
  <2>1. Len(text) \in Nat /\ reader.budget > 0
    <3>1. ~Full  BY DEF Take
    <3>2. QED  BY <1>4, <1>8, <3>1, LenProperties DEF Full
  <2> HIDE DEF text, intra
  <2>2. QED  BY <1>4, <1>10, <2>1, PageIs DEF intra
<1> HIDE DEF p, rest, text, no
<1>11. ASSUME p.kind = "page"
       PROVE  item \in Item /\ ShownBy(item) = Span(e, intra, p.end)
  <2>1. no \in BOOLEAN /\ ~no  BY DEF no
  <2>2. p.end \in Nat  BY <1>10, <1>11
  <2>3. item \in Item /\ item.hash = e /\ item.from = intra /\ item.to = p.end /\ item.missing = no
    BY <1>3, <1>4, <2>1, <2>2 DEF Item
  <2> HIDE DEF item
  <2>4. ShownBy(item) = Span(e, intra, p.end)  BY <2>1, <2>3 DEF ShownBy
  <2>5. QED  BY <2>3, <2>4
<1> HIDE DEF item
<1>12. CASE p.kind # "page" /\ reader' = IF HasItem THEN Published(TRUE) ELSE Dropped
  <2>1. CASE HasItem
    <3>1. reader.page # <<>>
      <4>1. PICK k \in 1..Len(reader.page) : TRUE  BY <2>1 DEF HasItem
      <4>2. QED  BY <4>1
    <3>2. reader' = Published(TRUE)  BY <1>12, <2>1
    <3>3. QED  BY <1>1, <3>1, <3>2, PublishesWell
  <2>2. CASE ~HasItem  BY <1>1, <1>12, <2>2, DropsWell
  <2>3. QED  BY <2>1, <2>2
<1>13. CASE p.kind = "page" /\ ~p.more /\
            reader' = [reader EXCEPT !.page = Append(@, item), !.budget = @ - p.bytes,
                                     !.state = [stack |-> Advanced, intra |-> 0]]
  <2> DEFINE budget == reader.budget - p.bytes
  <2>1. p.end = Length(text) /\ p.bytes \in Nat  BY <1>10, <1>13
  <2>2. item \in Item /\ ShownBy(item) = Span(e, intra, p.end)  BY <1>11, <1>13
  <2>3. next \in Place /\ PlaceOK(reader, next, archived) /\ LeftFor(reader, next) = rest
    BY PastEntry DEF rest
  <2>4. budget \in Int  BY <1>4, <2>1
  <2> HIDE DEF next, budget
  <2>5. Then(UnitsBy(reader, item), LeftFor(reader, next)) = LeftFor(reader, reader.state)
    BY <1>6, <1>7, <2>1, <2>2, <2>3
  <2>6. GoesWell(reader, Changed(reader, reader.cursor, next, budget, reader.limit, page,
                                 reader.seen, reader.busy, reader.done, reader.failed), archived)
    BY <1>1, <1>7, <2>2, <2>3, <2>4, <2>5, AddKeeps
  <2>7. reader' = [reader EXCEPT !.page = page, !.budget = budget, !.state = next]
    BY <1>1, <1>13, AdvancedIs DEF next, budget
  <2>8. PICK S : reader \in ReaderType(S)  BY <1>1, ReaderFields
  <2> HIDE DEF page
  <2>9. reader' = Changed(reader, reader.cursor, next, budget, reader.limit, page, reader.seen, reader.busy, reader.done, reader.failed)
    BY <2>7, <2>8, AddIs
  <2>10. QED  BY <2>6, <2>9
<1>14. CASE p.kind = "page" /\ p.more /\
            reader' = [Published(TRUE) EXCEPT !.seen = Append(@, item), !.cursor.intra = p.end]
  <2>1. p.end \in Nat /\ intra <= p.end /\ p.end <= Length(text)  BY <1>10, <1>14
  <2>2. item \in Item /\ ShownBy(item) = Span(e, intra, p.end)  BY <1>11, <1>14
  <2>3. place \in Place /\ place.stack = stack /\ place.intra = p.end  BY <1>4, <2>1 DEF Place
  <2> HIDE DEF place
  <2>4. Within(stack, Ground(reader, archived))  BY <1>1, RowPlace
  <2>5. PlaceOK(reader, place, archived)  BY <1>4, <1>5, <2>3, <2>4 DEF PlaceOK
  <2>6. Ahead(place, snapshot) = Then(Span(e, p.end, Length(text)), rest)
    BY <1>1, <1>4, <1>5, <2>3, AheadLeaf DEF rest, text
  <2>7. LeftFor(reader, place) = Ahead(place, snapshot)  BY <1>4 DEF LeftFor
  <2>8. Then(Span(e, intra, p.end), Span(e, p.end, Length(text))) = Span(e, intra, Length(text))
    BY <1>3, <1>4, <1>8, <2>1, SpanThen
  <2>9. /\ Span(e, intra, p.end) \in Seq(TextUnits) /\ Span(e, p.end, Length(text)) \in Seq(TextUnits)
        /\ rest \in Seq(TextUnits)
    BY <1>3, <1>4, <1>8, <2>1, SpanType, StepOnType, RemainingType DEF rest
  <2>10. Then(Then(Span(e, intra, p.end), Span(e, p.end, Length(text))), rest) =
           Then(Span(e, intra, p.end), Then(Span(e, p.end, Length(text)), rest))
    BY <2>9, ThenThen
  <2>11. Then(UnitsBy(reader, item), LeftFor(reader, place)) = LeftFor(reader, reader.state)
    BY <1>6, <1>7, <2>2, <2>6, <2>7, <2>8, <2>10
  <2>12. GoesWell(reader, Changed(reader, place, reader.state, reader.budget, reader.limit, <<>>,
                                  Append(reader.seen \o reader.page, item), FALSE, FALSE, reader.failed), archived)
    BY <1>1, <1>7, <2>2, <2>3, <2>5, <2>11, PartKeeps
  <2>13. reader' = Changed(reader, place, reader.state, reader.budget, reader.limit, <<>>,
                           Append(reader.seen \o reader.page, item), FALSE, FALSE, reader.failed)
    BY <1>1, <1>14, PartIs DEF place
  <2>14. QED  BY <2>12, <2>13
<1>15. QED  BY <1>9, <1>12, <1>13, <1>14

\* Every round of readHistoryPage keeps the invariant.
LEMMA ReadRowKeeps ==
  ASSUME ArchivesOK(archived), reader # Nobody => ReaderInv(reader, archived), ReadRow
  PROVE  GoesWell(reader, reader', archived)
<1>1. AtRow(reader, archived)
  <2>1. ReaderInv(reader, archived) /\ reader.busy /\ reader.mode # "children" /\ reader.state.stack # <<>>
    BY DEF ReadRow
  <2>2. reader.busy \in BOOLEAN  BY <2>1, ReaderFields
  <2>3. QED  BY <2>1, <2>2 DEF AtRow
<1>2. CASE PopFrame  BY <1>1, <1>2, PopFrameKeeps
<1>3. CASE ~PopFrame
  <2> DEFINE e == TopEntries[Top[2] + 1]
  <2>1. /\ Top[2] < Len(TopEntries)
        /\ Descend(e) \/ Miss(e) \/ Take(e) \/ (Opens(e) = {} /\ Full /\ reader' = Published(TRUE))
    BY <1>3 DEF ReadRow
  <2>2. AtEntry(e)  BY <1>1, <2>1 DEF AtEntry
  <2> HIDE DEF e
  <2>3. CASE Descend(e)  BY <2>2, <2>3, DescendKeeps
  <2>4. CASE Miss(e)  BY <2>2, <2>4, MissKeeps
  <2>5. CASE Take(e)  BY <2>2, <2>5, TakeKeeps
  <2>6. CASE Full /\ reader' = Published(TRUE)
    <3>1. ReaderInv(reader, archived) /\ reader.busy = TRUE  BY <1>1 DEF AtRow
    <3>2. reader.page # <<>>  BY <2>6, <3>1, FullPage
    <3>3. QED  BY <2>6, <3>1, <3>2, PublishesWell
  <2>7. QED  BY <2>1, <2>3, <2>4, <2>5, <2>6
<1>4. QED  BY <1>2, <1>3

\* A reader of the children of a node.
AtNode(r, stored) ==
  ReaderInv(r, stored) /\ r.busy = TRUE /\ r.mode = "children" /\ r.state.stack # <<>>

\* What the invariant says of the place of a page of children.
LEMMA NodePlace ==
  ASSUME NEW r, NEW stored, AtNode(r, stored)
  PROVE  /\ r.state \in Place /\ r.state.stack \in Stacks /\ r.state.stack \in NodeStacks /\ r.state.stack # <<>>
         /\ r.state.intra = 0 /\ r.depth \in 0..MaxDepth
         /\ Within(r.state.stack, NodeIds) /\ Ground(r, stored) = NodeIds
         /\ LeftFor(r, r.state) = Down(NodesLeft(r.state.stack, r.depth))
         /\ Last(r.state.stack) \in NodeIds \X Nat /\ ItemsOf(r) = NodeIds
<1>1. ReaderInv(r, stored) /\ r.busy = TRUE /\ r.mode = "children" /\ r.state.stack # <<>>  BY DEF AtNode
<1>2. r.state \in Place /\ r.depth \in 0..MaxDepth /\ PlaceOK(r, r.state, stored)  BY <1>1, ReaderFields
<1>3. r.state.stack \in Stacks  BY <1>2 DEF Place
<1>4. Ground(r, stored) = NodeIds  BY <1>1 DEF Ground
<1>5. Within(r.state.stack, NodeIds) /\ r.state.intra = 0  BY <1>1, <1>2, <1>4 DEF PlaceOK
<1>6. r.state.stack \in NodeStacks  BY <1>3, <1>5, NodeStack
<1>7. LeftFor(r, r.state) = Down(NodesLeft(r.state.stack, r.depth)) /\ ItemsOf(r) = NodeIds
  BY <1>1 DEF LeftFor, ItemsOf
<1>8. Last(r.state.stack) \in NodeIds \X Nat  BY <1>1, <1>6, FrontLast DEF NodeStacks
<1>9. QED  BY <1>1, <1>2, <1>3, <1>4, <1>5, <1>6, <1>7, <1>8

\* Stacks of nodes are stacks.
LEMMA NodeStacksAre ==  NodeStacks \subseteq Stacks
<1>1. NodeIds \X Nat \subseteq Places \X Nat  BY DEF Places, Containers
<1>2. QED  BY <1>1, SeqMonotonic DEF NodeStacks, Stacks

\* Where such a reader stands with another stack, and what it has left there.
LEMMA NodeNext ==
  ASSUME NEW r, NEW stored, AtNode(r, stored), NEW stack \in NodeStacks, Within(stack, NodeIds),
         NEW next, next = [stack |-> stack, intra |-> r.state.intra]
  PROVE  /\ next \in Place /\ PlaceOK(r, next, stored) /\ LeftFor(r, next) = Down(NodesLeft(stack, r.depth))
<1>1. r.state.intra = 0 /\ Ground(r, stored) = NodeIds /\ r.mode = "children"  BY NodePlace DEF AtNode
<1>2. next \in Place /\ next.stack = stack /\ next.intra = 0  BY <1>1, NodeStacksAre DEF Place
<1>3. QED  BY <1>1, <1>2 DEF PlaceOK, LeftFor

\* A move that leaves the same nodes keeps the invariant.
LEMMA NodeMoves ==
  ASSUME NEW r, NEW stored, AtNode(r, stored), NEW stack \in NodeStacks, Within(stack, NodeIds),
         Down(NodesLeft(stack, r.depth)) = Down(NodesLeft(r.state.stack, r.depth))
  PROVE  GoesWell(r, [r EXCEPT !.state.stack = stack], stored)
<1> DEFINE next == [stack |-> stack, intra |-> r.state.intra]
<1>1. ReaderInv(r, stored) /\ r.busy = TRUE  BY DEF AtNode
<1>2. next \in Place /\ PlaceOK(r, next, stored) /\ LeftFor(r, next) = Down(NodesLeft(stack, r.depth))
  BY NodeNext
<1>3. [r EXCEPT !.state.stack = stack] = [r EXCEPT !.state = next]
  <2>1. PICK S : r \in ReaderType(S)  BY <1>1, ReaderFields
  <2>2. QED  BY <2>1, StackIs
<1> HIDE DEF next
<1>4. LeftFor(r, next) = LeftFor(r, r.state)  BY <1>2, NodePlace
<1>5. GoesWell(r, [r EXCEPT !.state = next], stored)  BY <1>1, <1>2, <1>4, MoveKeeps
<1>6. QED  BY <1>3, <1>5

\* The fields after a node is added to a page.
LEMMA EmitIs ==
  ASSUME NEW S, NEW r \in ReaderType(S), NEW page, NEW stack,
         NEW q, q = [r EXCEPT !.page = page, !.state.stack = stack]
  PROVE  q = Changed(r, r.cursor, [stack |-> stack, intra |-> r.state.intra], r.budget, r.limit, page,
                     r.seen, r.busy, r.done, r.failed)
<1> DEFINE q1 == [r EXCEPT !.page = page]
           next == [stack |-> stack, intra |-> r.state.intra]
           q2 == [q1 EXCEPT !.state = next]
<1>1. r = Changed(r, r.cursor, r.state, r.budget, r.limit, r.page, r.seen, r.busy, r.done, r.failed)  BY ReaderIs
<1>2. q1 = Changed(r, r.cursor, r.state, r.budget, r.limit, page, r.seen, r.busy, r.done, r.failed)  BY <1>1, SetPage
<1>3. r.state \in Place  BY DEF ReaderType
<1>4. [r.state EXCEPT !.stack = stack] = next  BY <1>3 DEF Place
<1> HIDE DEF q1, next
<1>5. q1.state = r.state  BY <1>2, ChangedFields
<1>6. q2 = Changed(r, r.cursor, next, r.budget, r.limit, page, r.seen, r.busy, r.done, r.failed)  BY <1>2, SetState
<1>7. q = q2
  <2>1. q = [q1 EXCEPT !.state.stack = stack]  BY Zenon DEF q1
  <2>2. [q1 EXCEPT !.state.stack = stack] = [q1 EXCEPT !.state = [q1.state EXCEPT !.stack = stack]]  BY Zenon
  <2>3. QED  BY <1>4, <1>5, <2>1, <2>2
<1>8. QED  BY <1>6, <1>7 DEF next

\* Every round of readNodeChildren keeps the invariant.
LEMMA ReadChildKeeps ==
  ASSUME reader # Nobody => ReaderInv(reader, archived), ReadChild
  PROVE  GoesWell(reader, reader', archived)
<1> DEFINE stack == reader.state.stack
           f == Last(stack)
           kids == NodeChildren[f[1]]
           depth == reader.depth
<1>1. AtNode(reader, archived) /\ ReaderInv(reader, archived) /\ reader.busy = TRUE
  <2>1. ReaderInv(reader, archived) /\ reader.busy /\ reader.mode = "children" /\ reader.state.stack # <<>>
    BY DEF ReadChild
  <2>2. reader.busy \in BOOLEAN  BY <2>1, ReaderFields
  <2>3. QED  BY <2>1, <2>2 DEF AtNode
<1>2. /\ stack \in Stacks /\ stack \in NodeStacks /\ stack # <<>> /\ depth \in 0..MaxDepth /\ f \in NodeIds \X Nat
      /\ Within(stack, NodeIds) /\ LeftFor(reader, reader.state) = Down(NodesLeft(stack, depth))
      /\ ItemsOf(reader) = NodeIds /\ reader.mode = "children"
  BY <1>1, NodePlace DEF AtNode
<1>3. Front(stack) \in NodeStacks /\ Within(Front(stack), NodeIds) /\ Len(stack) \in Nat /\ f[1] \in NodeIds /\ f[2] \in Nat
  BY <1>2, WithinMoves, FrontLast, LenProperties DEF NodeStacks
<1>4. Top = f  BY DEF Top
<1>5. \/ reader' = Dropped
      \/ reader.page # <<>> /\ reader' = Published(TRUE)
      \/ /\ Len(stack) - 1 >= depth \/ kids = <<>>
         /\ reader' = [reader EXCEPT !.page = Append(@, f[1]), !.state.stack = Front(@)]
      \/ /\ Len(stack) - 1 < depth /\ kids # <<>> /\ f[2] >= Len(kids)
         /\ reader' = [reader EXCEPT !.state.stack = Front(@)]
      \/ /\ Len(stack) - 1 < depth /\ kids # <<>> /\ ~(f[2] >= Len(kids))
         /\ reader' = [reader EXCEPT !.state.stack = Append(Advanced, <<kids[f[2] + 1], 0>>)]
  BY <1>4 DEF ReadChild
<1>6. CASE reader.page # <<>> /\ reader' = Published(TRUE)  BY <1>1, <1>6, PublishesWell
<1>0. CASE reader' = Dropped  BY <1>0, <1>1, DropsWell
<1>7. CASE /\ Len(stack) - 1 >= depth \/ kids = <<>>
           /\ reader' = [reader EXCEPT !.page = Append(@, f[1]), !.state.stack = Front(@)]
  <2> DEFINE next == [stack |-> Front(stack), intra |-> reader.state.intra]
             page == Append(reader.page, f[1])
  <2>1. next \in Place /\ PlaceOK(reader, next, archived) /\ LeftFor(reader, next) = Down(NodesLeft(Front(stack), depth))
    BY <1>1, <1>3, NodeNext
  <2>2. Down(NodesLeft(stack, depth)) = Then(<<f[1]>>, Down(NodesLeft(Front(stack), depth)))
    BY <1>2, <1>7, NodesEmit
  <2>3. UnitsBy(reader, f[1]) = <<f[1]>>  BY <1>2 DEF UnitsBy
  <2>4. f[1] \in ItemsOf(reader) /\ reader.budget \in Int  BY <1>1, <1>2, <1>3, ReaderFields
  <2>5. reader' = [reader EXCEPT !.page = page, !.state.stack = Front(stack)]  BY <1>7
  <2>6. PICK S : reader \in ReaderType(S)  BY <1>1, ReaderFields
  <2>7. Then(UnitsBy(reader, f[1]), LeftFor(reader, next)) = LeftFor(reader, reader.state)
    BY <1>2, <2>1, <2>2, <2>3
  <2> HIDE DEF next
  <2>8. GoesWell(reader, Changed(reader, reader.cursor, next, reader.budget, reader.limit, page,
                                 reader.seen, reader.busy, reader.done, reader.failed), archived)
    BY <1>1, <2>1, <2>4, <2>7, AddKeeps
  <2> HIDE DEF page
  <2>9. reader' = Changed(reader, reader.cursor, next, reader.budget, reader.limit, page,
                          reader.seen, reader.busy, reader.done, reader.failed)
    BY <2>5, <2>6, EmitIs DEF next
  <2>10. QED  BY <2>8, <2>9
<1>8. CASE /\ Len(stack) - 1 < depth /\ kids # <<>> /\ f[2] >= Len(kids)
           /\ reader' = [reader EXCEPT !.state.stack = Front(@)]
  <2>1. ~(Len(stack) - 1 >= depth)  BY <1>2, <1>3, <1>8
  <2>2. Down(NodesLeft(Front(stack), depth)) = Down(NodesLeft(stack, depth))  BY <1>2, <1>8, <2>1, NodesPop
  <2>3. GoesWell(reader, [reader EXCEPT !.state.stack = Front(stack)], archived)
    BY <1>1, <1>3, <2>2, NodeMoves
  <2>4. QED  BY <1>8, <2>3
<1>9. CASE /\ Len(stack) - 1 < depth /\ kids # <<>> /\ ~(f[2] >= Len(kids))
           /\ reader' = [reader EXCEPT !.state.stack = Append(Advanced, <<kids[f[2] + 1], 0>>)]
  <2> DEFINE kid == kids[f[2] + 1]
             next == Append(StepOn(stack), <<kid, 0>>)
  <2>1. ~(Len(stack) - 1 >= depth)  BY <1>2, <1>3, <1>9
  <2>2. f[2] < Len(kids)
    <3>1. Len(kids) \in Nat  BY <1>3, KidsType
    <3>2. QED  BY <1>3, <1>9, <3>1
  <2>3. next \in NodeStacks /\ Down(NodesLeft(next, depth)) = Down(NodesLeft(stack, depth))
    BY <1>2, <1>9, <2>1, <2>2, NodesInside
  <2>4. kid \in NodeIds
    <3>1. f[2] + 1 \in 1..Len(kids)
      <4>1. Len(kids) \in Nat  BY <1>3, KidsType
      <4>2. QED  BY <1>3, <2>2, <4>1
    <3>2. QED  BY <1>3, <3>1, KidsType
  <2>5. Within(next, NodeIds)  BY <1>2, <2>4, WithinMoves
  <2>6. Advanced = StepOn(stack)  BY <1>4 DEF Advanced, StepOn
  <2>7. reader' = [reader EXCEPT !.state.stack = next]  BY <1>9, <2>6
  <2> HIDE DEF next
  <2>8. GoesWell(reader, [reader EXCEPT !.state.stack = next], archived)  BY <1>1, <2>3, <2>5, NodeMoves
  <2>9. QED  BY <2>7, <2>8
<1>10. QED  BY <1>0, <1>5, <1>6, <1>7, <1>8, <1>9

\* The last page keeps the invariant.
LEMMA LastPageKeeps ==
  ASSUME reader # Nobody => ReaderInv(reader, archived), LastPage
  PROVE  GoesWell(reader, reader', archived)
<1>1. ReaderInv(reader, archived) /\ reader.busy /\ reader.state.stack = <<>> /\ reader' = Published(FALSE)
  BY DEF LastPage
<1>2. reader.busy = TRUE  BY <1>1, ReaderFields
<1>3. QED  BY <1>1, <1>2, PublishesWell

\* An answer that is lost keeps the invariant.
LEMMA PageLostKeeps ==
  ASSUME reader # Nobody => ReaderInv(reader, archived), PageLost
  PROVE  GoesWell(reader, reader', archived)
BY DropsWell DEF PageLost

\* A page starts at the cursor, with a budget and a limit that are positive.
LEMMA StartKeeps ==
  ASSUME NEW r, NEW stored, ReaderInv(r, stored), ~r.busy, NEW budget \in Int, budget > 0, NEW limit \in Int, limit > 0
  PROVE  GoesWell(r, [r EXCEPT !.busy = TRUE, !.failed = FALSE, !.budget = budget, !.state = r.cursor, !.limit = limit], stored)
<1> DEFINE yes == TRUE
           no == FALSE
           q == [r EXCEPT !.busy = yes, !.failed = no, !.budget = budget, !.state = r.cursor, !.limit = limit]
           c == Changed(r, r.cursor, r.cursor, budget, limit, r.page, r.seen, yes, r.done, no)
           S == ItemsOf(r)
<1>1. /\ r \in ReaderType(S) /\ r.cursor \in Place /\ r.page \in Seq(S) /\ r.seen \in Seq(S) /\ r.done \in BOOLEAN
      /\ PlaceOK(r, r.cursor, stored) /\ Accounted(r, r.seen, r.cursor) /\ (r.done => r.cursor.stack = <<>>)
      /\ PageOK(r.busy, r.page, r.budget, r.limit) /\ yes \in BOOLEAN /\ yes /\ no \in BOOLEAN
  BY ReaderFields
<1>2. r.page = <<>>  BY <1>1 DEF PageOK
<1>3. Then(r.seen, r.page) = r.seen  BY <1>1, <1>2, ThenEmpty
<1> HIDE DEF S, yes, no
<1>4. q = c
  <2> DEFINE q1 == [r EXCEPT !.busy = yes]
             q2 == [q1 EXCEPT !.failed = no]
             q3 == [q2 EXCEPT !.budget = budget]
             q4 == [q3 EXCEPT !.state = r.cursor]
             q5 == [q4 EXCEPT !.limit = limit]
  <2>0. r = Changed(r, r.cursor, r.state, r.budget, r.limit, r.page, r.seen, r.busy, r.done, r.failed)  BY <1>1, ReaderIs
  <2>1. q1 = Changed(r, r.cursor, r.state, r.budget, r.limit, r.page, r.seen, yes, r.done, r.failed)  BY <2>0, SetBusy
  <2> HIDE DEF q1
  <2>2. q2 = Changed(r, r.cursor, r.state, r.budget, r.limit, r.page, r.seen, yes, r.done, no)  BY <2>1, SetFailed
  <2> HIDE DEF q2
  <2>3. q3 = Changed(r, r.cursor, r.state, budget, r.limit, r.page, r.seen, yes, r.done, no)  BY <2>2, SetBudget
  <2> HIDE DEF q3
  <2>4. q4 = Changed(r, r.cursor, r.cursor, budget, r.limit, r.page, r.seen, yes, r.done, no)  BY <2>3, SetState
  <2> HIDE DEF q4
  <2>5. q5 = c  BY <2>4, SetLimit
  <2>6. q = q5  BY Zenon DEF q1, q2, q3, q4
  <2>7. QED  BY <2>5, <2>6
<1>5. Accounted(r, Then(r.seen, r.page), r.cursor)  BY <1>1, <1>3
<1>6. PageOK(yes, r.page, budget, limit)  BY <1>1 DEF PageOK
<1>7. ReaderInv(c, stored)  BY <1>1, <1>5, <1>6, ChangedKeeps DEF S
<1> HIDE DEF c
<1>8. GoesWell(r, c, stored)  BY <1>7 DEF GoesWell, Advances
<1>9. QED  BY <1>4, <1>8 DEF yes, no

\* The request for a page keeps the invariant.
LEMMA StartPageKeeps ==
  ASSUME reader # Nobody => ReaderInv(reader, archived), StartPage
  PROVE  reader' = Nobody \/ GoesWell(reader, reader', archived)
<1> DEFINE Limit(limit) == CASE reader.mode = "source" -> 1
                             [] reader.mode = "query" -> Len(Ranked) + 1
                             [] OTHER -> limit
<1>1. ReaderInv(reader, archived) /\ ~reader.busy  BY DEF StartPage
<1>2. CASE reader' = Nobody  BY <1>2
<1>3. CASE reader' # Nobody
  <2>1. PICK budget \in Budgets, limit \in Limits :
          reader' = [reader EXCEPT !.busy = TRUE, !.failed = FALSE, !.budget = budget, !.state = reader.cursor, !.limit = Limit(limit)]
    BY <1>3 DEF StartPage
  <2>2. budget \in Int /\ budget > 0 /\ limit \in Int /\ limit > 0  BY RetrievalAssumption
  <2>3. Len(Ranked) \in Nat  BY RetrievalAssumption, LenProperties
  <2>4. Limit(limit) \in Int /\ Limit(limit) > 0
    <3>1. CASE reader.mode = "source"  BY <3>1
    <3>2. CASE reader.mode = "query"  BY <2>3, <3>2
    <3>3. CASE reader.mode # "source" /\ reader.mode # "query"  BY <2>2, <3>3
    <3>4. QED  BY <3>1, <3>2, <3>3
  <2> HIDE DEF Limit
  <2>5. GoesWell(reader, [reader EXCEPT !.busy = TRUE, !.failed = FALSE, !.budget = budget, !.state = reader.cursor,
                                        !.limit = Limit(limit)], archived)
    BY <1>1, <2>2, <2>4, StartKeeps
  <2>6. QED  BY <2>1, <2>5
<1>4. QED  BY <1>2, <1>3

-----------------------------------------------------------------------------
(* A new request *)

\* A new request has its fields, and its place is the container asked for.
LEMMA RequestType ==
  ASSUME NEW mode \in {"history", "source", "children", "query"}, NEW root \in Places,
         NEW depth \in 0..MaxDepth, NEW snapshot \in Seq(Hashes), NEW S
  PROVE  Request(mode, root, depth, snapshot) \in ReaderType(S) /\ Frontier(root) \in Place
         /\ Frontier(root).stack = <<<<root, 0>>>> /\ Frontier(root).intra = 0
<1> DEFINE place == Frontier(root)
           none == <<>>
           no == FALSE
<1>1. <<root, 0>> \in Places \X Nat  OBVIOUS
<1>2. <<<<root, 0>>>> \in Stacks  BY <1>1 DEF Stacks
<1>3. place \in Place /\ place.stack = <<<<root, 0>>>> /\ place.intra = 0
  <2> DEFINE s == <<<<root, 0>>>>
  <2>1. s \in Stacks  BY <1>2
  <2> HIDE DEF s
  <2>2. [stack |-> s, intra |-> 0] \in Place /\ [stack |-> s, intra |-> 0].stack = s /\ [stack |-> s, intra |-> 0].intra = 0
    BY <2>1 DEF Place
  <2>3. QED  BY <2>2 DEF s, Frontier
<1>4. none \in Seq(S) /\ no \in BOOLEAN  OBVIOUS
<1> HIDE DEF place, none, no
<1>5. [mode |-> mode, root |-> root, depth |-> depth, snapshot |-> snapshot, cursor |-> place, state |-> place,
       budget |-> 0, limit |-> 0, page |-> none, seen |-> none, busy |-> no, done |-> no,
       failed |-> no] \in ReaderType(S)
  BY <1>3, <1>4 DEF ReaderType
<1>6. QED  BY <1>3, <1>5 DEF Request, place, none, no

\* A new request for which everything is left satisfies the invariant.
LEMMA RequestKeeps ==
  ASSUME NEW mode \in {"history", "source", "children", "query"}, NEW root \in Places,
         NEW depth \in 0..MaxDepth, NEW snapshot \in Seq(Hashes), NEW stored,
         NEW q, q = Request(mode, root, depth, snapshot), root \in Ground(q, stored),
         LeftFor(q, Frontier(root)) = WantedBy(q)
  PROVE  ReaderInv(q, stored)
<1> DEFINE S == ItemsOf(q)
           place == Frontier(root)
<1>1. /\ q.cursor = place /\ q.state = place /\ q.page = <<>> /\ q.seen = <<>>
      /\ q.busy = FALSE /\ q.done = FALSE
  BY DEF Request
<1>2. q \in ReaderType(S) /\ place \in Place /\ place.stack = <<<<root, 0>>>> /\ place.intra = 0
  BY RequestType
<1> HIDE DEF place, S
<1>3. Within(place.stack, Ground(q, stored))
  <2>1. Len(place.stack) = 1 /\ place.stack[1][1] = root  BY <1>2
  <2>2. \A k \in 1..1 : k = 1  OBVIOUS
  <2>3. QED  BY <2>1, <2>2 DEF Within
<1>4. PlaceOK(q, place, stored)  BY <1>2, <1>3 DEF PlaceOK
<1>5. LeftFor(q, place) \in Seq(UnitsOf(q))  BY <1>2, <1>4, LeftForType DEF S
<1>6. ShownTo(q, <<>>) = <<>>  BY ShownEmpty DEF ShownTo
<1>7. Then(<<>>, LeftFor(q, place)) = LeftFor(q, place)  BY <1>5, ThenEmpty
<1>8. Accounted(q, <<>>, place)  BY <1>6, <1>7 DEF Accounted, place
<1>9. QED  BY <1>1, <1>2, <1>4, <1>8 DEF ReaderInv, S

\* What is left of a stack of one container.
LEMMA OneFrame ==
  ASSUME NEW c \in Places, NEW snapshot \in Seq(Hashes)
  PROVE  Remaining(<<<<c, 0>>>>, snapshot) = Left(<<c, 0>>, snapshot)
<1> DEFINE f == <<c, 0>>
<1>1. f \in Places \X Nat  OBVIOUS
<1> HIDE DEF f
<1>2. <<>> \in Stacks /\ <<f>> = Append(<<>>, f)  BY DEF Stacks
<1>3. Remaining(<<f>>, snapshot) = Then(Left(f, snapshot), Remaining(<<>>, snapshot))  BY <1>1, <1>2, RemainingPush
<1>4. Remaining(<<>>, snapshot) = <<>>
  <2>1. Lefts(<<>>, snapshot) = <<>>  BY DEF Lefts
  <2>2. QED  BY <2>1, DownEmpty DEF Remaining
<1>5. Left(f, snapshot) \in Seq(TextUnits)  BY <1>1, LeftType
<1>6. QED  BY <1>3, <1>4, <1>5, ThenEmpty DEF f

\* At the start all of a container is left.
LEMMA AskContainer ==
  ASSUME NEW mode \in {"history", "source"}, NEW root \in Containers, NEW snapshot \in Seq(Hashes), NEW stored,
         NEW q, q = Request(mode, root, 0, snapshot), root \in Ground(q, stored)
  PROVE  ReaderInv(q, stored)
<1>1. root \in Places /\ 0 \in 0..MaxDepth  BY RetrievalAssumption DEF Places
<1>2. q.mode = mode /\ q.root = root /\ q.snapshot = snapshot  BY DEF Request
<1>3. q.mode # "children" /\ q.mode # "query" /\ mode \in {"history", "source", "children", "query"}  BY <1>2
<1>4. Frontier(root).stack = <<<<root, 0>>>> /\ Frontier(root).intra = 0  BY <1>1, <1>3, RequestType
<1>5. LeftFor(q, Frontier(root)) = Remaining(<<<<root, 0>>>>, snapshot)  BY <1>2, <1>3, <1>4 DEF LeftFor, Ahead
<1>6. Remaining(<<<<root, 0>>>>, snapshot) = Content(root)  BY <1>1, OneFrame, LeftWhole
<1>7. WantedBy(q) = Content(root)  BY <1>2, <1>3 DEF WantedBy
<1>8. LeftFor(q, Frontier(root)) = WantedBy(q)  BY <1>5, <1>6, <1>7
<1>9. QED  BY <1>1, <1>3, <1>8, RequestKeeps

\* A request for children satisfies the invariant.
LEMMA AskNodes ==
  ASSUME NEW root \in NodeIds, NEW depth \in 0..MaxDepth, NEW snapshot \in Seq(Hashes), NEW stored,
         NEW q, q = Request("children", root, depth, snapshot)
  PROVE  ReaderInv(q, stored)
<1> DEFINE mode == "children"
           f == <<root, 0>>
           one == <<f>>
<1>1. root \in Places /\ mode \in {"history", "source", "children", "query"}  BY DEF Places, Containers
<1>2. q.mode = "children" /\ q.root = root /\ q.depth = depth  BY DEF Request
<1>3. Frontier(root).stack = one /\ Frontier(root).intra = 0  BY <1>1, RequestType
<1>4. root \in Ground(q, stored)  BY <1>2 DEF Ground
<1>5. f \in NodeIds \X Nat /\ f[1] = root /\ f[2] = 0  OBVIOUS
<1> HIDE DEF f
<1>6. <<>> \in NodeStacks /\ one = Append(<<>>, f) /\ Len(<<>>) + 1 = 1  BY DEF NodeStacks
<1>7. Down(NodesLeft(one, depth)) = Then(NodeLeft(f, 1, depth), Down(NodesLeft(<<>>, depth)))
  BY <1>5, <1>6, NodesPush
<1>8. Down(NodesLeft(<<>>, depth)) = <<>>
  <2>1. NodesLeft(<<>>, depth) = <<>>  BY DEF NodesLeft
  <2>2. QED  BY <2>1, DownEmpty
<1>9. NodeLeft(f, 1, depth) \in Seq(NodeIds)  BY <1>5, NodeLeftType
<1>10. NodeLeft(f, 1, depth) = NodesAt[depth][root]
  <2>1. NodesAt[depth][root] = IF depth = 0 \/ NodeChildren[root] = <<>> THEN <<root>>
                               ELSE FlattenSeq(NodeBlocks(root, depth - 1))
    BY NodesIs
  <2>2. (1 - 1 >= depth) <=> (depth = 0)  BY RetrievalAssumption
  <2>3. CASE depth = 0 \/ NodeChildren[root] = <<>>  BY <1>5, <2>1, <2>2, <2>3 DEF NodeLeft
  <2>4. CASE ~(depth = 0 \/ NodeChildren[root] = <<>>)
    <3>1. depth - 1 \in 0..MaxDepth
      <4>1. MaxDepth \in Nat /\ depth # 0  BY <2>4, RetrievalAssumption
      <4>2. QED  BY <4>1
    <3>2. NodeLeft(f, 1, depth) = After(NodeBlocks(root, depth - 1), 0)  BY <1>5, <2>2, <2>4 DEF NodeLeft
    <3>3. NodeBlocks(root, depth - 1) \in Seq(Seq(NodeIds))  BY <3>1, NodesType, BlocksType
    <3>4. After(NodeBlocks(root, depth - 1), 0) = FlattenSeq(NodeBlocks(root, depth - 1))  BY <3>3, AfterNone
    <3>5. QED  BY <2>1, <2>4, <3>2, <3>4
  <2>5. QED  BY <2>3, <2>4
<1>11. LeftFor(q, Frontier(root)) = Down(NodesLeft(one, depth))  BY <1>2, <1>3 DEF LeftFor
<1>12. WantedBy(q) = NodesAt[depth][root]  BY <1>2 DEF WantedBy
<1>13. LeftFor(q, Frontier(root)) = WantedBy(q)  BY <1>7, <1>8, <1>9, <1>10, <1>11, <1>12, ThenEmpty
<1>14. q = Request(mode, root, depth, snapshot)  OBVIOUS
<1> HIDE DEF mode
<1>15. QED  BY <1>1, <1>4, <1>13, <1>14, RequestKeeps

\* A query satisfies the invariant.
LEMMA AskHits ==
  ASSUME NEW snapshot \in Seq(Hashes), NEW stored, NEW q, q = Request("query", "hits", 0, snapshot)
  PROVE  ReaderInv(q, stored)
<1> DEFINE mode == "query"
           root == "hits"
<1>1. root \in Places /\ mode \in {"history", "source", "children", "query"} /\ 0 \in 0..MaxDepth
  BY RetrievalAssumption DEF Places
<1>2. q.mode = "query" /\ q.root = "hits" /\ q.snapshot = snapshot  BY DEF Request
<1>3. Frontier(root).stack = <<<<root, 0>>>> /\ Frontier(root).intra = 0  BY <1>1, RequestType
<1>4. root \in Ground(q, stored)  BY <1>2 DEF Ground
<1>5. root \notin Containers /\ root \notin Histories  BY RetrievalAssumption DEF Containers
<1> HIDE DEF root
<1>6. LeftFor(q, Frontier(root)) = Remaining(<<<<root, 0>>>>, snapshot)  BY <1>2, <1>3 DEF LeftFor, Ahead
<1>7. Remaining(<<<<root, 0>>>>, snapshot) = Left(<<root, 0>>, snapshot)  BY <1>1, OneFrame
<1>8. Left(<<root, 0>>, snapshot) = FlattenSeq(Pieces(root, snapshot))
  <2>1. RowsOf(root, snapshot) = snapshot  BY <1>5 DEF RowsOf
  <2>2. snapshot \in Seq(Listed)
    <3>1. Hashes \subseteq Listed  BY DEF Listed
    <3>2. QED  BY <3>1, SeqMonotonic
  <2>3. Pieces(root, snapshot) \in Seq(Seq(TextUnits))  BY <2>2, PiecesType
  <2>4. After(Pieces(root, snapshot), 0) = FlattenSeq(Pieces(root, snapshot))  BY <2>3, AfterNone
  <2>5. QED  BY <2>1, <2>4 DEF Left
<1>9. Pieces(root, snapshot) = [k \in 1..Len(snapshot) |-> Whole(snapshot[k])]
  <2>1. ASSUME NEW k \in 1..Len(snapshot)  PROVE PieceOf(root, snapshot[k]) = Whole(snapshot[k])
    <3>1. snapshot[k] \in Hashes  BY ElementOfSeq
    <3>2. snapshot[k] \notin NodeIds  BY <3>1, RetrievalAssumption
    <3>3. StandsFor(root, snapshot[k]) = {}  BY <1>5, <3>2 DEF StandsFor
    <3>4. QED  BY <3>3 DEF PieceOf
  <2>2. QED  BY <2>1 DEF Pieces
<1>10. WantedBy(q) = FlattenSeq([k \in 1..Len(snapshot) |-> Whole(snapshot[k])])  BY <1>2 DEF WantedBy
<1>11. LeftFor(q, Frontier(root)) = WantedBy(q)  BY <1>6, <1>7, <1>8, <1>9, <1>10
<1>12. q = Request(mode, root, 0, snapshot)  BY DEF root
<1> HIDE DEF mode
<1>13. QED  BY <1>1, <1>4, <1>11, <1>12, RequestKeeps

\* Hits are messages.
LEMMA HitsType ==  Hits \in Seq(Hashes)
<1> DEFINE Shows(k) == Ranked[k] \in readable /\ \E h \in archived : Ranked[k] \in ToSet(Messages[h])
           Block(k) == IF Shows(k) THEN <<Ranked[k]>> ELSE <<>>
           T == Seq(Hashes)
<1>1. Ranked \in Seq(Hashes)  BY RetrievalAssumption
<1>2. Len(Ranked) \in Nat /\ \A k \in 1..Len(Ranked) : Ranked[k] \in Hashes  BY <1>1, LenProperties, ElementOfSeq
<1> HIDE DEF Shows
<1>3. \A k \in 1..Len(Ranked) : Block(k) \in T
  <2>1. \A k \in 1..Len(Ranked) : <<Ranked[k]>> \in T  BY <1>2
  <2>2. <<>> \in T  OBVIOUS
  <2>3. QED  BY <2>1, <2>2
<1> HIDE DEF T, Block
<1>4. [k \in 1..Len(Ranked) |-> Block(k)] \in Seq(T)  BY <1>2, <1>3, IsASeq
<1>5. FlattenSeq([k \in 1..Len(Ranked) |-> Block(k)]) \in Seq(Hashes)  BY <1>4, FlattenType DEF T
<1>6. QED  BY <1>5 DEF Hits, Block, Shows

\* What is archived by one more history is still in order, and so is a reader's place.
LEMMA StoredGrows ==
  ASSUME NEW r, NEW stored, NEW more, stored \subseteq more, ReaderInv(r, stored)
  PROVE  ReaderInv(r, more)
<1>1. Ground(r, stored) \subseteq Ground(r, more)  BY DEF Ground
<1>2. \A place : PlaceOK(r, place, stored) => PlaceOK(r, place, more)  BY <1>1 DEF PlaceOK, Within
<1>3. QED  BY <1>2 DEF ReaderInv

\* At first nobody reads.
LEMMA RetrievalInit_Inv ==  RetrievalInit => RetrievalInv
BY DEF RetrievalInit, RetrievalInv, ArchivesOK

\* Every step keeps the invariant and gets ahead.
LEMMA RetrievalStep ==
  ASSUME RetrievalInv, RetrievalNext
  PROVE  RetrievalInv' /\ ((reader # Nobody /\ reader' # Nobody) => Advances(reader, reader'))
<1>1. ArchivesOK(archived) /\ (reader # Nobody => ReaderInv(reader, archived))  BY DEF RetrievalInv
<1>2. ASSUME archived' = archived, reader # Nobody, reader' = Nobody \/ GoesWell(reader, reader', archived)
      PROVE  RetrievalInv' /\ ((reader # Nobody /\ reader' # Nobody) => Advances(reader, reader'))
  <2>1. reader' # Nobody => ReaderInv(reader', archived) /\ Advances(reader, reader')  BY <1>2 DEF GoesWell
  <2>2. QED  BY <1>1, <1>2, <2>1 DEF RetrievalInv
<1>3. ASSUME archived' = archived, reader = Nobody, ReaderInv(reader', archived)
      PROVE  RetrievalInv' /\ ((reader # Nobody /\ reader' # Nobody) => Advances(reader, reader'))
  BY <1>1, <1>3 DEF RetrievalInv
<1>4. ASSUME reader' = reader, ArchivesOK(archived'), archived \subseteq archived'
      PROVE  RetrievalInv' /\ ((reader # Nobody /\ reader' # Nobody) => Advances(reader, reader'))
  <2>1. reader # Nobody => ReaderInv(reader, archived')  BY <1>1, <1>4, StoredGrows
  <2>2. Advances(reader, reader')  BY <1>4 DEF Advances
  <2>3. QED  BY <1>4, <2>1, <2>2 DEF RetrievalInv
<1>5. ASSUME NEW h \in Histories, ArchiveHistory(h)
      PROVE  RetrievalInv' /\ ((reader # Nobody /\ reader' # Nobody) => Advances(reader, reader'))
  <2>1. /\ archived' = archived \cup {h} /\ h \in Owned /\ reader' = reader
        /\ \A e \in ToSet(Messages[h]) : ChildOf[e] \in Owned => ChildOf[e] \in archived
    BY <1>5 DEF ArchiveHistory
  <2>2. ArchivesOK(archived')  BY <1>1, <2>1 DEF ArchivesOK
  <2>3. QED  BY <1>4, <2>1, <2>2
<1>6. ASSUME NEW hash \in Hashes, ObjectChanges(hash)
      PROVE  RetrievalInv' /\ ((reader # Nobody /\ reader' # Nobody) => Advances(reader, reader'))
  BY <1>1, <1>4, <1>6 DEF ObjectChanges
<1>7. ASSUME AskHistory
      PROVE  RetrievalInv' /\ ((reader # Nobody /\ reader' # Nobody) => Advances(reader, reader'))
  <2>1. PICK h \in archived : AskFor("history", h, 0, <<>>)  BY <1>7 DEF AskHistory
  <2>2. reader' = Request("history", h, 0, <<>>) /\ reader = Nobody /\ archived' = archived
    BY <2>1 DEF AskFor
  <2>3. h \in Containers /\ <<>> \in Seq(Hashes)
    BY <1>1, RetrievalAssumption DEF ArchivesOK, Containers
  <2>4. h \in Ground(reader', archived)  BY <2>2 DEF Ground, Request
  <2>5. ReaderInv(reader', archived)  BY <2>2, <2>3, <2>4, AskContainer
  <2>6. QED  BY <1>3, <2>2, <2>5
<1>8. ASSUME AskNode
      PROVE  RetrievalInv' /\ ((reader # Nobody /\ reader' # Nobody) => Advances(reader, reader'))
  <2>1. PICK n \in NodeIds : AskFor("source", n, 0, <<>>) \/ \E d \in Depths : AskFor("children", n, d, <<>>)
    BY <1>8 DEF AskNode
  <2>2. n \in Containers /\ <<>> \in Seq(Hashes)  BY DEF Containers
  <2>3. CASE AskFor("source", n, 0, <<>>)
    <3>1. reader' = Request("source", n, 0, <<>>) /\ reader = Nobody /\ archived' = archived
      BY <2>3 DEF AskFor
    <3>2. n \in Ground(reader', archived)  BY <3>1 DEF Ground, Request
    <3>3. ReaderInv(reader', archived)  BY <2>2, <3>1, <3>2, AskContainer
    <3>4. QED  BY <1>3, <3>1, <3>3
  <2>4. CASE \E d \in Depths : AskFor("children", n, d, <<>>)
    <3>1. PICK d \in Depths : AskFor("children", n, d, <<>>)  BY <2>4
    <3>2. reader' = Request("children", n, d, <<>>) /\ reader = Nobody /\ archived' = archived
      BY <3>1 DEF AskFor
    <3>3. d \in 0..MaxDepth  BY RetrievalAssumption
    <3>4. ReaderInv(reader', archived)  BY <2>2, <3>2, <3>3, AskNodes
    <3>5. QED  BY <1>3, <3>2, <3>4
  <2>5. QED  BY <2>1, <2>3, <2>4
<1>9. ASSUME AskQuery
      PROVE  RetrievalInv' /\ ((reader # Nobody /\ reader' # Nobody) => Advances(reader, reader'))
  <2>1. reader' = Request("query", "hits", 0, Hits) /\ reader = Nobody /\ archived' = archived
    BY <1>9 DEF AskQuery, AskFor
  <2>2. ReaderInv(reader', archived)  BY <2>1, HitsType, AskHits
  <2>3. QED  BY <1>3, <2>1, <2>2
<1>10. ASSUME StartPage
       PROVE  RetrievalInv' /\ ((reader # Nobody /\ reader' # Nobody) => Advances(reader, reader'))
  <2>1. archived' = archived /\ reader # Nobody  BY <1>10 DEF StartPage
  <2>2. QED  BY <1>1, <1>2, <1>10, <2>1, StartPageKeeps
<1>11. ASSUME ReadRow
       PROVE  RetrievalInv' /\ ((reader # Nobody /\ reader' # Nobody) => Advances(reader, reader'))
  <2>1. archived' = archived /\ reader # Nobody  BY <1>11 DEF ReadRow
  <2>2. QED  BY <1>1, <1>2, <1>11, <2>1, ReadRowKeeps
<1>12. ASSUME ReadChild
       PROVE  RetrievalInv' /\ ((reader # Nobody /\ reader' # Nobody) => Advances(reader, reader'))
  <2>1. archived' = archived /\ reader # Nobody  BY <1>12 DEF ReadChild
  <2>2. QED  BY <1>1, <1>2, <1>12, <2>1, ReadChildKeeps
<1>13. ASSUME LastPage
       PROVE  RetrievalInv' /\ ((reader # Nobody /\ reader' # Nobody) => Advances(reader, reader'))
  <2>1. archived' = archived /\ reader # Nobody  BY <1>13 DEF LastPage
  <2>2. QED  BY <1>1, <1>2, <1>13, <2>1, LastPageKeeps
<1>14. ASSUME PageLost
       PROVE  RetrievalInv' /\ ((reader # Nobody /\ reader' # Nobody) => Advances(reader, reader'))
  <2>1. archived' = archived /\ reader # Nobody  BY <1>14 DEF PageLost
  <2>2. QED  BY <1>1, <1>2, <1>14, <2>1, PageLostKeeps
<1>15. ASSUME StopReading
       PROVE  RetrievalInv' /\ ((reader # Nobody /\ reader' # Nobody) => Advances(reader, reader'))
  <2>1. archived' = archived /\ reader # Nobody /\ reader' = Nobody  BY <1>15 DEF StopReading
  <2>2. QED  BY <1>2, <2>1
<1>16. QED
  BY <1>5, <1>6, <1>7, <1>8, <1>9, <1>10, <1>11, <1>12, <1>13, <1>14, <1>15 DEF RetrievalNext

\* A sequence and what follows it.
LEMMA PrefixOfThen ==
  ASSUME NEW S, NEW a \in Seq(S), NEW b \in Seq(S)
  PROVE  IsPrefix(a, Then(a, b))
<1>1. a \o b \in Seq(S) /\ Len(a \o b) = Len(a) + Len(b) /\ Len(a) \in Nat /\ Len(b) \in Nat
  BY ConcatProperties, LenProperties
<1>2. \A k \in 1..Len(a) : (a \o b)[k] = a[k] /\ k \in 1..Len(a \o b)  BY <1>1
<1>3. Len(a) <= Len(a \o b)  BY <1>1
<1>4. SubSeq(a, 1, Len(a)) = SubSeq(a \o b, 1, Len(a))  BY <1>1, <1>2, <1>3
<1>5. QED  BY <1>3, <1>4 DEF IsPrefix, Then

\* The invariant contains the property.
LEMMA InvPagesInOrder ==  RetrievalInv => PagesInOrder
<1>1. SUFFICES ASSUME RetrievalInv, reader # Nobody
               PROVE  /\ IsPrefix(ShownTo(reader, reader.seen), WantedBy(reader))
                      /\ (reader.done => ShownTo(reader, reader.seen) = WantedBy(reader))
  BY DEF PagesInOrder, ShownTo, WantedBy, Wanted
<1> DEFINE shown == ShownTo(reader, reader.seen)
           left == LeftFor(reader, reader.cursor)
<1>2. ReaderInv(reader, archived)  BY <1>1 DEF RetrievalInv
<1>3. /\ reader \in ReaderType(ItemsOf(reader)) /\ reader.cursor \in Place /\ reader.seen \in Seq(ItemsOf(reader))
      /\ PlaceOK(reader, reader.cursor, archived) /\ Accounted(reader, reader.seen, reader.cursor)
      /\ (reader.done => reader.cursor.stack = <<>>)
  BY <1>2, ReaderFields
<1>4. shown \in Seq(UnitsOf(reader)) /\ left \in Seq(UnitsOf(reader))  BY <1>3, ShownToType, LeftForType
<1>5. Then(shown, left) = WantedBy(reader)  BY <1>3 DEF Accounted
<1>6. ASSUME reader.done  PROVE left = <<>>
  <2>1. reader.cursor.stack = <<>>  BY <1>3, <1>6
  <2>2. CASE reader.mode = "children"
    <3>1. NodesLeft(<<>>, reader.depth) = <<>>  BY DEF NodesLeft
    <3>2. QED  BY <2>1, <2>2, <3>1, DownEmpty DEF LeftFor
  <2>3. CASE reader.mode # "children"
    <3>1. reader.cursor.intra = 0  BY <1>3, <2>1 DEF PlaceOK, InText
    <3>2. left = Remaining(<<>>, reader.snapshot)  BY <2>1, <2>3, <3>1 DEF LeftFor, Ahead
    <3>3. Lefts(<<>>, reader.snapshot) = <<>>  BY DEF Lefts
    <3>4. QED  BY <3>2, <3>3, DownEmpty DEF Remaining
  <2>4. QED  BY <2>2, <2>3
<1> HIDE DEF shown, left
<1>7. IsPrefix(shown, WantedBy(reader))  BY <1>4, <1>5, PrefixOfThen
<1>8. reader.done => shown = WantedBy(reader)  BY <1>4, <1>5, <1>6, ThenEmpty
<1>9. QED  BY <1>7, <1>8 DEF shown

(* The inductive invariant: what the client has been shown, with what is left
   at its cursor, is what it asked for, and so is that with the page under way
   and what is left where the reader stands, for every archive that nests. *)
THEOREM RetrievalCorrect ==  RetrievalSpec => []RetrievalInv
<1>1. RetrievalInit => RetrievalInv  BY RetrievalInit_Inv
<1>2. RetrievalInv /\ [RetrievalNext]_retrievalVars => RetrievalInv'
  <2>1. SUFFICES ASSUME RetrievalInv, [RetrievalNext]_retrievalVars  PROVE RetrievalInv'  OBVIOUS
  <2>2. CASE RetrievalNext  BY <2>1, <2>2, RetrievalStep
  <2>3. CASE UNCHANGED retrievalVars
    <3>1. archived' = archived /\ reader' = reader  BY <2>3 DEF retrievalVars
    <3>2. QED  BY <2>1, <3>1 DEF RetrievalInv
  <2>4. QED  BY <2>1, <2>2, <2>3
<1>3. QED  BY <1>1, <1>2, PTL DEF RetrievalSpec

(* readHistoryPage, readNodeSource, readNodeChildren and the paging of hits: a
   client that follows the cursors is shown everything it asked for once and in
   order, whatever pages are dropped, whatever objects vanish or come back. *)
THEOREM PagesAlwaysInOrder ==  RetrievalSpec => []PagesInOrder
BY RetrievalCorrect, InvPagesInOrder, PTL

(* A page that says there is more moves the cursor on: no client turns in circles. *)
THEOREM PagesAlwaysAdvance ==  RetrievalSpec => PagesAdvance
<1> DEFINE A == (reader # Nobody /\ reader' # Nobody /\ reader.busy /\ ~reader'.busy /\ ~reader'.failed) =>
                  reader'.done \/ Len(reader'.seen) > Len(reader.seen)
<1>1. RetrievalInv /\ [RetrievalNext]_retrievalVars => [A]_retrievalVars
  <2>1. SUFFICES ASSUME RetrievalInv, RetrievalNext  PROVE A  OBVIOUS
  <2>2. (reader # Nobody /\ reader' # Nobody) => Advances(reader, reader')  BY <2>1, RetrievalStep
  <2>3. QED  BY <2>2 DEF Advances
<1> HIDE DEF A
<1>2. RetrievalSpec => [][A]_retrievalVars  BY <1>1, RetrievalCorrect, PTL DEF RetrievalSpec
<1>3. QED  BY <1>2 DEF A, PagesAdvance
=============================================================================
