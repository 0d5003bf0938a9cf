---------------------------- MODULE Scraper_proofs ----------------------------
(***************************************************************************)
(* For every board, every rendering of it and every question.              *)
(*                                                                         *)
(* The provers have no induction over texts and lists, so it is done here  *)
(* over sets (Least, NatInduct, SeqInduct).  Upon it stand, in this order: *)
(*   - what Select, FlattenSeq and images of lists do (At, Only, Image);   *)
(*   - rows, tables and pages: the items are an image of what is listed    *)
(*     (ItemsAre), and ReadInv, the invariant: what a state has of them;   *)
(*   - the answers: the same for each kind of question (Exact);            *)
(*   - the ink of a text, which is what a number is read from (Ink, Value, *)
(*     Change), and that no script, grouping or spacing changes it;        *)
(*   - the columns: LayoutIs, and with them the row of an instrument;      *)
(*   - what is printed: its digits stand for the number it was made of     *)
(*     (Worth, PrintedIs), and so does its text (ThousandsRead).           *)
(***************************************************************************)
EXTENDS BoardQuery, SequenceTheorems, FiniteSetTheorems, WellFoundedInduction,
        TLAPS

----------------------------------------------------------------------------
(* Induction, over a set instead of a predicate.                             *)

LEMMA Least ==
    ASSUME NEW T, T \subseteq Nat, T # {}
    PROVE  \E x \in T : \A y \in T : x <= y
<1> DEFINE R == {ss \in Nat \X Nat : ss[1] < ss[2]}
<1>1. IsWellFoundedOn(R, Nat)
  BY NatLessThanWellFounded DEF OpToRel
<1>2. \A x, y \in Nat : <<y, x>> \in R <=> y < x
  OBVIOUS
<1> HIDE DEF R
<1>3. PICK x \in T : \A y \in T : ~(<<y, x>> \in R)
  BY <1>1, WFMin
<1>4. \A y \in T : x <= y
  <2> TAKE y \in T
  <2>1. x \in Nat /\ y \in Nat
    OBVIOUS
  <2>2. ~(y < x)
    BY <1>2, <1>3, <2>1, Zenon
  <2> QED BY <2>1, <2>2
<1> QED BY <1>4

LEMMA NatInduct ==
    ASSUME NEW X, 0 \in X, \A n \in Nat : n \in X => n + 1 \in X
    PROVE  \A n \in Nat : n \in X
<1> DEFINE T == {n \in Nat : n \notin X}
<1> SUFFICES ASSUME T # {} PROVE FALSE
  OBVIOUS
<1>1. PICK n \in T : \A m \in T : n <= m
  BY Least
<1>2. n # 0
  OBVIOUS
<1>3. n - 1 \in Nat /\ (n - 1) + 1 = n /\ ~(n <= n - 1)
  BY <1>2
<1>4. n - 1 \in X
  BY <1>1, <1>3
<1> QED BY <1>3, <1>4

LEMMA SeqInduct ==
    ASSUME NEW S, NEW X, <<>> \in X,
           \A s \in Seq(S), e \in S : s \in X => Append(s, e) \in X
    PROVE  \A s \in Seq(S) : s \in X
<1> DEFINE N == {n \in Nat : \A s \in Seq(S) : Len(s) = n => s \in X}
<1>1. 0 \in N
  <2>1. \A s \in Seq(S) : Len(s) = 0 => s = <<>>
    OBVIOUS
  <2> QED BY <2>1
<1>2. ASSUME NEW n \in Nat, n \in N PROVE n + 1 \in N
  <2>1. ASSUME NEW s \in Seq(S), Len(s) = n + 1 PROVE s \in X
    <3>1. s # <<>>
      BY <2>1
    <3>2. PICK t \in Seq(S), e \in S : s = Append(t, e)
      BY <3>1, SequenceEmptyOrAppend
    <3>3. Len(t) = n
      BY <2>1, <3>2, AppendProperties, LenProperties
    <3> QED BY <1>2, <3>2, <3>3
  <2> QED BY <2>1
<1> HIDE DEF N
<1>3. \A n \in Nat : n \in N
  BY <1>1, <1>2, NatInduct
<1>4. ASSUME NEW s \in Seq(S) PROVE s \in X
  <2>1. Len(s) \in Nat /\ Len(s) \in N
    BY <1>3, LenProperties
  <2> QED BY <2>1 DEF N
<1> QED BY <1>4

\* A function that starts with a and goes on by G exists: its beginnings do.
Runs(f, S, a, G) ==
    f \in [Nat -> S] /\ f[0] = a /\ \A n \in Nat : f[n + 1] = G[n + 1][f[n]]
LEMMA Recursion ==
    ASSUME NEW S, NEW a \in S, NEW G \in [Nat -> [S -> S]]
    PROVE  \E f : Runs(f, S, a, G)
<1> DEFINE Up(n) == {g \in [0..n -> S] : g[0] = a /\ \A i \in 1..n : g[i] = G[i][g[i - 1]]}
           N == {n \in Nat : Up(n) # {}}
<1>1. 0 \in N
  <2>1. [i \in 0..0 |-> a] \in Up(0)
    OBVIOUS
  <2> QED BY <2>1
<1>2. ASSUME NEW n \in Nat, n \in N PROVE n + 1 \in N
  <2>1. PICK g \in [0..n -> S] : g[0] = a /\ \A i \in 1..n : g[i] = G[i][g[i - 1]]
    BY <1>2
  <2> DEFINE h == [i \in 0..(n + 1) |-> IF i = n + 1 THEN G[n + 1][g[n]] ELSE g[i]]
  <2>2. g[n] \in S /\ G[n + 1] \in [S -> S]
    OBVIOUS
  <2>3. G[n + 1][g[n]] \in S
    BY <2>2
  <2>4. \A i \in 0..(n + 1) : i # n + 1 => i \in 0..n
    OBVIOUS
  <2>5. h \in [0..(n + 1) -> S]
    BY <2>3, <2>4
  <2>6. h[0] = a
    BY <2>1
  <2>7. ASSUME NEW i \in 1..(n + 1) PROVE h[i] = G[i][h[i - 1]]
    <3>1. CASE i = n + 1
      BY <3>1
    <3>2. CASE i # n + 1
      BY <2>1, <3>2
    <3> QED BY <3>1, <3>2
  <2>8. h \in Up(n + 1)
    BY <2>5, <2>6, <2>7
  <2>9. n + 1 \in Nat
    OBVIOUS
  <2> HIDE DEF h, Up
  <2> QED BY <2>8, <2>9
<1>3. \A n \in Nat : Up(n) # {}
  <2> HIDE DEF N
  <2>1. \A n \in Nat : n \in N
    BY <1>1, <1>2, NatInduct
  <2> QED BY <2>1 DEF N
<1>4. ASSUME NEW m \in Nat, NEW n \in Nat, m <= n, NEW g \in Up(m), NEW h \in Up(n)
      PROVE  \A k \in 0..m : g[k] = h[k]
  <2> DEFINE K == {k \in Nat : k \in 0..m => g[k] = h[k]}
  <2>1. 0 \in K
    OBVIOUS
  <2>2. ASSUME NEW k \in Nat, k \in K PROVE k + 1 \in K
    <3>1. k + 1 \in 0..m => k \in 0..m /\ k + 1 \in 1..m /\ k + 1 \in 1..n /\ (k + 1) - 1 = k
      BY <1>4
    <3> QED BY <2>2, <3>1
  <2> HIDE DEF K
  <2>3. \A k \in Nat : k \in K
    BY <2>1, <2>2, NatInduct
  <2> QED BY <2>3 DEF K
<1> DEFINE f == [n \in Nat |-> (CHOOSE g \in Up(n) : TRUE)[n]]
<1>5. ASSUME NEW n \in Nat, NEW g \in Up(n) PROVE f[n] = g[n]
  <2>1. (CHOOSE h \in Up(n) : TRUE) \in Up(n)
    BY <1>3
  <2> HIDE DEF Up
  <2> QED BY <1>4, <2>1
<1>6. f[0] = a
  <2>1. PICK g : g \in Up(0)
    BY <1>3
  <2>2. g[0] = a
    BY <2>1
  <2> HIDE DEF f, Up
  <2> QED BY <1>5, <2>1, <2>2
<1>7. ASSUME NEW n \in Nat PROVE f[n] \in S /\ f[n + 1] = G[n + 1][f[n]]
  <2>1. PICK g : g \in Up(n + 1)
    BY <1>3
  <2>2. PICK h : h \in Up(n)
    BY <1>3
  <2>3. f[n + 1] = g[n + 1] /\ f[n] = h[n] /\ h[n] = g[n]
    <3> HIDE DEF f, Up
    <3>1. n \in 0..n /\ n <= n + 1
      OBVIOUS
    <3> QED BY <1>4, <1>5, <2>1, <2>2, <3>1
  <2>4. h[n] \in S
    BY <2>2
  <2>5. g[n + 1] = G[n + 1][g[(n + 1) - 1]]
    BY <2>1
  <2>6. (n + 1) - 1 = n
    OBVIOUS
  <2> HIDE DEF f, Up
  <2> QED BY <2>3, <2>4, <2>5, <2>6
<1>8. f \in [Nat -> S]
  <2> HIDE DEF Up
  <2>1. f = [n \in Nat |-> f[n]]
    OBVIOUS
  <2> HIDE DEF f
  <2> QED BY <1>7, <2>1
<1> HIDE DEF f, Up
<1> QED BY <1>6, <1>7, <1>8 DEF Runs

----------------------------------------------------------------------------
(* At: the elements of a sequence at some of its indices.                    *)

Keeps(f, S, s, W) ==
    /\ f \in [0..Len(s) -> Seq(S)]
    /\ f[0] = <<>>
    /\ \A n \in 1..Len(s) : f[n] = IF n \in W THEN Append(f[n - 1], s[n]) ELSE f[n - 1]
    /\ At(s, W) = f[Len(s)]
LEMMA AtUnfolds ==
    ASSUME NEW S, NEW s \in Seq(S), NEW W
    PROVE  \E f : Keeps(f, S, s, W)
<1>1. PICK L \in Nat : L = Len(s)
  BY LenProperties
<1>2. \A n \in 1..L : s[n] \in S
  BY <1>1, ElementOfSeq
<1> DEFINE Step(n, x) == IF n \in W /\ n \in 1..L THEN Append(x, s[n]) ELSE x
           G == [n \in Nat |-> [x \in Seq(S) |-> Step(n, x)]]
<1>3. \A n \in Nat, x \in Seq(S) : Step(n, x) \in Seq(S)
  BY <1>2, AppendProperties
<1>4. G \in [Nat -> [Seq(S) -> Seq(S)]]
  BY <1>3
<1>5. \A n \in Nat, x \in Seq(S) : G[n][x] = Step(n, x)
  OBVIOUS
<1>6. <<>> \in Seq(S)
  OBVIOUS
<1> HIDE DEF G
<1>7. PICK g : g \in [Nat -> Seq(S)] /\ g[0] = <<>> /\ \A n \in Nat : g[n + 1] = G[n + 1][g[n]]
  <2> DEFINE Q == Seq(S)
  <2>1. <<>> \in Q /\ G \in [Nat -> [Q -> Q]]
    BY <1>4, <1>6
  <2> HIDE DEF Q
  <2>2. \E g : Runs(g, Q, <<>>, G)
    BY <2>1, Recursion
  <2> QED BY <2>2, Zenon DEF Runs, Q
<1> DEFINE f == [n \in 0..L |-> g[n]]
<1>8. ASSUME NEW n \in 1..L
      PROVE  f[n] = IF n \in W THEN Append(f[n - 1], s[n]) ELSE f[n - 1]
  <2>1. n - 1 \in Nat /\ (n - 1) + 1 = n /\ n \in Nat /\ n \in 0..L /\ n - 1 \in 0..L
    OBVIOUS
  <2>2. g[n] = G[n][g[n - 1]] /\ g[n - 1] \in Seq(S)
    BY <1>7, <2>1
  <2>3. g[n] = Step(n, g[n - 1])
    BY <1>5, <2>1, <2>2
  <2> QED BY <2>1, <2>3
<1>9. f \in [0..L -> Seq(S)] /\ f[0] = <<>>
  BY <1>7
<1>10. f = [n \in 0..L |-> IF n = 0 THEN <<>>
                           ELSE IF n \in W THEN Append(f[n - 1], s[n]) ELSE f[n - 1]]
  <2>1. ASSUME NEW n \in 0..L
        PROVE  f[n] = IF n = 0 THEN <<>>
                      ELSE IF n \in W THEN Append(f[n - 1], s[n]) ELSE f[n - 1]
    <3>1. n = 0 \/ n \in 1..L
      OBVIOUS
    <3> HIDE DEF f
    <3> QED BY <1>8, <1>9, <3>1
  <2>2. f = [n \in 0..L |-> f[n]]
    OBVIOUS
  <2> HIDE DEF f
  <2> QED BY <2>1, <2>2, Zenon
<1> HIDE DEF f
<1>11. PICK k : /\ At(s, W) = k[L]
                /\ k = [n \in 0..L |-> IF n = 0 THEN <<>>
                             ELSE IF n \in W THEN Append(k[n - 1], s[n]) ELSE k[n - 1]]
  <2>1. f = [n \in 0..Len(s) |-> IF n = 0 THEN <<>>
                             ELSE IF n \in W THEN Append(f[n - 1], s[n]) ELSE f[n - 1]]
    BY <1>1, <1>10, Zenon
  <2>2. \E k : /\ At(s, W) = k[Len(s)]
               /\ k = [n \in 0..Len(s) |-> IF n = 0 THEN <<>>
                             ELSE IF n \in W THEN Append(k[n - 1], s[n]) ELSE k[n - 1]]
    BY <2>1, Zenon DEF At
  <2> QED BY <1>1, <2>2, Zenon
<1>12. /\ k[0] = <<>>
       /\ \A n \in 1..L : k[n] = IF n \in W THEN Append(k[n - 1], s[n]) ELSE k[n - 1]
  <2>1. \A n \in 0..L : k[n] = IF n = 0 THEN <<>>
                               ELSE IF n \in W THEN Append(k[n - 1], s[n]) ELSE k[n - 1]
    BY <1>11, Zenon
  <2> QED BY <2>1
<1>13. \A n \in Nat : n \in 0..L => k[n] = f[n]
  <2> DEFINE X == {n \in Nat : n \in 0..L => k[n] = f[n]}
  <2>1. 0 \in X
    BY <1>9, <1>12
  <2>2. ASSUME NEW n \in Nat, n \in X PROVE n + 1 \in X
    <3>1. n + 1 \in 0..L => n \in 0..L /\ n + 1 \in 1..L /\ (n + 1) - 1 = n
      OBVIOUS
    <3> SUFFICES ASSUME n + 1 \in 0..L PROVE k[n + 1] = f[n + 1]
      OBVIOUS
    <3>2. k[n] = f[n]
      BY <2>2, <3>1
    <3>3. k[n + 1] = IF n + 1 \in W THEN Append(k[n], s[n + 1]) ELSE k[n]
      BY <1>12, <3>1
    <3>4. f[n + 1] = IF n + 1 \in W THEN Append(f[n], s[n + 1]) ELSE f[n]
      BY <1>8, <3>1
    <3> QED BY <3>2, <3>3, <3>4
  <2> HIDE DEF X
  <2>3. \A n \in Nat : n \in X
    BY <2>1, <2>2, NatInduct
  <2> QED BY <2>3 DEF X
<1>14. At(s, W) = f[L]
  BY <1>11, <1>13
<1>15. Keeps(f, S, s, W)
  BY <1>1, <1>8, <1>9, <1>14 DEF Keeps
<1> QED BY <1>15

LEMMA AtType ==
    ASSUME NEW S, NEW s \in Seq(S), NEW W
    PROVE  At(s, W) \in Seq(S)
<1>1. PICK f : Keeps(f, S, s, W)
  BY AtUnfolds
<1> QED BY <1>1, LenProperties DEF Keeps

LEMMA AtEmpty ==
    ASSUME NEW W
    PROVE  At(<<>>, W) = <<>>
<1>1. PICK s : s \in Seq({}) /\ s = <<>> /\ Len(s) = 0
  <2>1. <<>> \in Seq({}) /\ Len(<<>>) = 0
    OBVIOUS
  <2> QED BY <2>1
<1>2. PICK f : Keeps(f, {}, s, W)
  BY <1>1, AtUnfolds
<1> QED BY <1>1, <1>2 DEF Keeps

LEMMA AtAppend ==
    ASSUME NEW S, NEW s \in Seq(S), NEW e \in S, NEW W
    PROVE  At(Append(s, e), W) = IF Len(s) + 1 \in W THEN Append(At(s, W), e) ELSE At(s, W)
<1>1. PICK L \in Nat : L = Len(s)
  BY LenProperties
<1>2. PICK t \in Seq(S) : t = Append(s, e)
  BY AppendProperties
<1>3. Len(t) = L + 1 /\ (\A i \in 1..L : t[i] = s[i]) /\ t[L + 1] = e
  BY <1>1, <1>2, AppendProperties
<1>4. PICK f \in [0..L -> Seq(S)] :
          /\ f[0] = <<>>
          /\ \A n \in 1..L : f[n] = IF n \in W THEN Append(f[n - 1], s[n]) ELSE f[n - 1]
          /\ At(s, W) = f[L]
  <2>1. \E f : Keeps(f, S, s, W)
    BY AtUnfolds
  <2> QED BY <1>1, <2>1, Zenon DEF Keeps
<1>5. PICK h \in [0..(L + 1) -> Seq(S)] :
          /\ h[0] = <<>>
          /\ \A n \in 1..(L + 1) : h[n] = IF n \in W THEN Append(h[n - 1], t[n]) ELSE h[n - 1]
          /\ At(t, W) = h[L + 1]
  <2>1. \E h : Keeps(h, S, t, W)
    BY AtUnfolds
  <2> QED BY <1>3, <2>1, Zenon DEF Keeps
<1> DEFINE X == {n \in Nat : n \in 0..L => h[n] = f[n]}
<1>6. 0 \in X
  BY <1>4, <1>5
<1>7. ASSUME NEW n \in Nat, n \in X PROVE n + 1 \in X
  <2>1. n + 1 \in 0..L => /\ n \in 0..L /\ n + 1 \in 1..L /\ n + 1 \in 1..(L + 1)
                          /\ (n + 1) - 1 = n
    OBVIOUS
  <2> SUFFICES ASSUME n + 1 \in 0..L PROVE h[n + 1] = f[n + 1]
    OBVIOUS
  <2>2. h[n] = f[n] /\ t[n + 1] = s[n + 1]
    BY <1>3, <1>7, <2>1
  <2>3. h[n + 1] = IF n + 1 \in W THEN Append(h[n], t[n + 1]) ELSE h[n]
    BY <1>5, <2>1
  <2>4. f[n + 1] = IF n + 1 \in W THEN Append(f[n], s[n + 1]) ELSE f[n]
    BY <1>4, <2>1
  <2> QED BY <2>2, <2>3, <2>4
<1> HIDE DEF X
<1>8. L \in X
  BY <1>6, <1>7, NatInduct
<1>9. h[L] = At(s, W)
  BY <1>4, <1>8 DEF X
<1>10. L + 1 \in 1..(L + 1) /\ (L + 1) - 1 = L
  OBVIOUS
<1> QED BY <1>1, <1>2, <1>3, <1>5, <1>9, <1>10

\* Only the indices of the sequence count.
LEMMA AtSame ==
    ASSUME NEW S, NEW s \in Seq(S), NEW V, NEW W,
           \A i \in 1..Len(s) : i \in V <=> i \in W
    PROVE  At(s, V) = At(s, W)
<1> DEFINE X == {t \in Seq(S) : (\A i \in 1..Len(t) : i \in V <=> i \in W) => At(t, V) = At(t, W)}
<1>1. <<>> \in X
  BY AtEmpty
<1>2. ASSUME NEW t \in Seq(S), NEW e \in S, t \in X PROVE Append(t, e) \in X
  <2>1. Append(t, e) \in Seq(S) /\ Len(Append(t, e)) = Len(t) + 1 /\ Len(t) \in Nat
    BY AppendProperties, LenProperties
  <2>2. At(Append(t, e), V) = IF Len(t) + 1 \in V THEN Append(At(t, V), e) ELSE At(t, V)
    BY AtAppend
  <2>3. At(Append(t, e), W) = IF Len(t) + 1 \in W THEN Append(At(t, W), e) ELSE At(t, W)
    BY AtAppend
  <2> SUFFICES ASSUME \A i \in 1..(Len(t) + 1) : i \in V <=> i \in W
               PROVE  At(Append(t, e), V) = At(Append(t, e), W)
    BY <2>1
  <2>4. At(t, V) = At(t, W)
    <3>1. \A i \in 1..Len(t) : i \in 1..(Len(t) + 1)
      BY <2>1
    <3> QED BY <1>2, <3>1
  <2>5. Len(t) + 1 \in V <=> Len(t) + 1 \in W
    BY <2>1
  <2> QED BY <2>2, <2>3, <2>4, <2>5
<1> HIDE DEF X
<1>3. s \in X
  BY <1>1, <1>2, SeqInduct
<1> QED BY <1>3 DEF X

LEMMA AtAll ==
    ASSUME NEW S, NEW s \in Seq(S), NEW W, \A i \in 1..Len(s) : i \in W
    PROVE  At(s, W) = s
<1> DEFINE X == {t \in Seq(S) : (\A i \in 1..Len(t) : i \in W) => At(t, W) = t}
<1>1. <<>> \in X
  BY AtEmpty
<1>2. ASSUME NEW t \in Seq(S), NEW e \in S, t \in X PROVE Append(t, e) \in X
  <2>1. Append(t, e) \in Seq(S) /\ Len(Append(t, e)) = Len(t) + 1 /\ Len(t) \in Nat
    BY AppendProperties, LenProperties
  <2>2. At(Append(t, e), W) = IF Len(t) + 1 \in W THEN Append(At(t, W), e) ELSE At(t, W)
    BY AtAppend
  <2>3. \A i \in 1..Len(t) : i \in 1..(Len(t) + 1)
    BY <2>1
  <2>4. Len(t) + 1 \in 1..(Len(t) + 1)
    BY <2>1
  <2> QED BY <1>2, <2>1, <2>2, <2>3, <2>4
<1> HIDE DEF X
<1>3. s \in X
  BY <1>1, <1>2, SeqInduct
<1> QED BY <1>3 DEF X

----------------------------------------------------------------------------
(* Only: the elements of a sequence that lie in a set, which is what Select  *)
(* leaves.                                                                   *)

Only(s, P) == At(s, {i \in 1..Len(s) : s[i] \in P})

LEMMA OnlyType ==
    ASSUME NEW S, NEW s \in Seq(S), NEW P
    PROVE  Only(s, P) \in Seq(S)
BY AtType DEF Only

LEMMA OnlyEmpty ==
    ASSUME NEW P
    PROVE  Only(<<>>, P) = <<>>
BY AtEmpty DEF Only

LEMMA OnlyAppend ==
    ASSUME NEW S, NEW s \in Seq(S), NEW e \in S, NEW P
    PROVE  Only(Append(s, e), P) = IF e \in P THEN Append(Only(s, P), e) ELSE Only(s, P)
<1>1. PICK t : t = Append(s, e)
  OBVIOUS
<1>2. /\ t \in Seq(S) /\ Len(t) = Len(s) + 1 /\ Len(s) \in Nat
      /\ (\A i \in 1..Len(s) : t[i] = s[i]) /\ t[Len(s) + 1] = e
  BY <1>1, AppendProperties, LenProperties
<1> DEFINE W == {i \in 1..Len(t) : t[i] \in P}
<1>3. At(t, W) = IF Len(s) + 1 \in W THEN Append(At(s, W), e) ELSE At(s, W)
  <2> HIDE DEF W
  <2> QED BY <1>1, AtAppend
<1>4. Len(s) + 1 \in W <=> e \in P
  BY <1>2
<1>5. \A i \in 1..Len(s) : i \in W <=> i \in {j \in 1..Len(s) : s[j] \in P}
  BY <1>2
<1>6. At(s, W) = Only(s, P)
  <2> DEFINE V == {j \in 1..Len(s) : s[j] \in P}
  <2>1. \A i \in 1..Len(s) : i \in W <=> i \in V
    BY <1>5
  <2> HIDE DEF W, V
  <2>2. At(s, W) = At(s, V)
    BY <2>1, AtSame
  <2> QED BY <2>2 DEF Only, V
<1>7. Only(t, P) = At(t, W)
  BY DEF Only
<1> HIDE DEF W
<1> QED BY <1>1, <1>3, <1>4, <1>6, <1>7

LEMMA OnlyAll ==
    ASSUME NEW S, NEW s \in Seq(S), NEW P, \A i \in 1..Len(s) : s[i] \in P
    PROVE  Only(s, P) = s
BY AtAll DEF Only

\* Images under g.
Image(g, s) == [i \in 1..Len(s) |-> g[s[i]]]

Maps(g, S, T) == \A x \in S : g[x] \in T
Lists(h, S, T) == \A x \in S : h[x] \in Seq(T)

LEMMA Mapped == \A g, S : \E T : Maps(g, S, T)
<1> TAKE g, S
<1>1. Maps(g, S, {g[x] : x \in S})
  BY DEF Maps
<1> QED BY <1>1

LEMMA ImageType ==
    ASSUME NEW S, NEW T, NEW g, NEW s \in Seq(S), Maps(g, S, T)
    PROVE  Image(g, s) \in Seq(T)
<1>1. Len(s) \in Nat /\ \A i \in 1..Len(s) : g[s[i]] \in T
  BY LenProperties, ElementOfSeq DEF Maps
<1> QED BY <1>1 DEF Image

LEMMA ImageLen ==
    ASSUME NEW S, NEW g, NEW s \in Seq(S)
    PROVE  Len(Image(g, s)) = Len(s)
<1>1. Len(s) \in Nat
  BY LenProperties
<1> QED BY <1>1 DEF Image

LEMMA ImageAppend ==
    ASSUME NEW S, NEW g, NEW s \in Seq(S), NEW e \in S
    PROVE  Image(g, Append(s, e)) = Append(Image(g, s), g[e])
<1>1. PICK t \in Seq(S) : t = Append(s, e)
  BY AppendProperties
<1>2. Len(t) = Len(s) + 1 /\ Len(s) \in Nat /\ (\A i \in 1..Len(s) : t[i] = s[i])
      /\ t[Len(s) + 1] = e
  BY <1>1, AppendProperties, LenProperties
<1>3. PICK T : Maps(g, S, T)
  BY Mapped
<1>4. PICK a \in Seq(T), b \in Seq(T) : a = Image(g, s) /\ b = Image(g, t)
  BY <1>3, ImageType
<1>5. Len(a) = Len(s) /\ Len(b) = Len(s) + 1 /\ g[e] \in T
  BY <1>2, <1>3, <1>4, ImageLen DEF Maps
<1>6. /\ Append(a, g[e]) \in Seq(T) /\ Len(Append(a, g[e])) = Len(s) + 1
      /\ (\A i \in 1..Len(s) : Append(a, g[e])[i] = a[i])
      /\ Append(a, g[e])[Len(s) + 1] = g[e]
  BY <1>5, AppendProperties
<1>7. ASSUME NEW i \in 1..(Len(s) + 1) PROVE b[i] = Append(a, g[e])[i]
  <2>1. b[i] = g[t[i]] /\ (i \in 1..Len(s) => a[i] = g[s[i]])
    BY <1>2, <1>4 DEF Image
  <2>2. i \in 1..Len(s) \/ i = Len(s) + 1
    BY <1>2
  <2> QED BY <1>2, <1>6, <2>1, <2>2
<1>8. b = Append(a, g[e])
  BY <1>5, <1>6, <1>7, SeqEqual
<1> QED BY <1>1, <1>4, <1>8, Zenon

LEMMA ImageConcat ==
    ASSUME NEW S, NEW g, NEW s \in Seq(S), NEW t \in Seq(S)
    PROVE  Image(g, s \o t) = Image(g, s) \o Image(g, t)
<1>0. PICK T : Maps(g, S, T)
  BY Mapped
<1>1. PICK u \in Seq(S) : u = s \o t
  BY ConcatProperties
<1>2. /\ Len(u) = Len(s) + Len(t) /\ Len(s) \in Nat /\ Len(t) \in Nat
      /\ \A i \in 1..Len(u) : u[i] = IF i <= Len(s) THEN s[i] ELSE t[i - Len(s)]
  BY <1>1, ConcatProperties, LenProperties
<1>3. PICK a \in Seq(T), b \in Seq(T), c \in Seq(T) :
         a = Image(g, s) /\ b = Image(g, t) /\ c = Image(g, u)
  BY <1>0, ImageType
<1>4. Len(a) = Len(s) /\ Len(b) = Len(t) /\ Len(c) = Len(u)
  BY <1>3, ImageLen
<1>5. a \o b \in Seq(T) /\ Len(a \o b) = Len(u)
      /\ \A i \in 1..Len(u) : (a \o b)[i] = IF i <= Len(s) THEN a[i] ELSE b[i - Len(s)]
  <2>1. /\ a \o b \in Seq(T) /\ Len(a \o b) = Len(a) + Len(b)
        /\ \A i \in 1..(Len(a) + Len(b)) :
             (a \o b)[i] = IF i <= Len(a) THEN a[i] ELSE b[i - Len(a)]
    BY ConcatProperties, Zenon
  <2>2. Len(a) = Len(s) /\ Len(b) = Len(t) /\ Len(a) + Len(b) = Len(u)
    BY <1>2, <1>4
  <2> QED BY <2>1, <2>2, Zenon
<1>6. ASSUME NEW i \in 1..Len(u) PROVE c[i] = (a \o b)[i]
  <2>1. c[i] = g[u[i]]
    BY <1>3 DEF Image
  <2>2. CASE i <= Len(s)
    <3>1. i \in 1..Len(s)
      BY <1>2, <2>2
    <3>2. a[i] = g[s[i]]
      BY <1>3, <3>1 DEF Image
    <3> QED BY <1>2, <1>5, <2>1, <2>2, <3>2
  <2>3. CASE ~(i <= Len(s))
    <3>1. i - Len(s) \in 1..Len(t)
      BY <1>2, <2>3
    <3>2. b[i - Len(s)] = g[t[i - Len(s)]]
      BY <1>3, <3>1 DEF Image
    <3> QED BY <1>2, <1>5, <2>1, <2>3, <3>2
  <2> QED BY <2>2, <2>3
<1>7. c = a \o b
  BY <1>4, <1>5, <1>6, SeqEqual
<1> QED BY <1>1, <1>3, <1>7, Zenon

\* Elements are appended to a concatenation at its end.
LEMMA ConcatAppend ==
    ASSUME NEW S, NEW s \in Seq(S), NEW t \in Seq(S), NEW e \in S
    PROVE  s \o Append(t, e) = Append(s \o t, e)
<1>1. s \o t \in Seq(S) /\ <<e>> \in Seq(S)
  BY ConcatProperties
<1>2. Append(t, e) = t \o <<e>> /\ Append(s \o t, e) = (s \o t) \o <<e>>
  BY <1>1, AppendIsConcat
<1> QED BY <1>1, <1>2, ConcatAssociative

LEMMA OnlyConcat ==
    ASSUME NEW S, NEW s \in Seq(S), NEW t \in Seq(S), NEW P
    PROVE  Only(s \o t, P) = Only(s, P) \o Only(t, P)
<1> DEFINE X == {u \in Seq(S) : Only(s \o u, P) = Only(s, P) \o Only(u, P)}
<1>1. <<>> \in X
  <2>1. <<>> \in Seq(S) /\ s \o <<>> = s /\ Only(s, P) \in Seq(S)
    BY ConcatEmptySeq, OnlyType
  <2>2. Only(s, P) \o <<>> = Only(s, P)
    BY <2>1, ConcatEmptySeq
  <2> QED BY <2>1, <2>2, OnlyEmpty
<1>2. ASSUME NEW u \in Seq(S), NEW e \in S, u \in X PROVE Append(u, e) \in X
  <2>1. Append(u, e) \in Seq(S) /\ s \o u \in Seq(S)
    BY AppendProperties, ConcatProperties
  <2>2. s \o Append(u, e) = Append(s \o u, e)
    BY ConcatAppend
  <2>3. Only(Append(s \o u, e), P) = IF e \in P THEN Append(Only(s \o u, P), e)
                                     ELSE Only(s \o u, P)
    BY <2>1, OnlyAppend
  <2>4. Only(Append(u, e), P) = IF e \in P THEN Append(Only(u, P), e) ELSE Only(u, P)
    BY OnlyAppend
  <2>5. Only(s, P) \in Seq(S) /\ Only(u, P) \in Seq(S)
    BY OnlyType
  <2>6. Only(s, P) \o Append(Only(u, P), e) = Append(Only(s, P) \o Only(u, P), e)
    BY <2>5, ConcatAppend
  <2>7. Only(s \o u, P) = Only(s, P) \o Only(u, P)
    BY <1>2
  <2> QED BY <2>1, <2>2, <2>3, <2>4, <2>6, <2>7
<1> HIDE DEF X
<1>3. t \in X
  BY <1>1, <1>2, SeqInduct
<1> QED BY <1>3 DEF X

LEMMA OnlyParts ==
    \A S, x, y, P : x \in Seq(S) /\ y \in Seq(S) =>
                      Only(x \o y, P) = Only(x, P) \o Only(y, P)
  BY OnlyConcat

LEMMA ImageParts ==
    \A S, x, y, g : x \in Seq(S) /\ y \in Seq(S) =>
                      Image(g, x \o y) = Image(g, x) \o Image(g, y)
  BY ImageConcat

LEMMA OnlyNone ==
    ASSUME NEW S, NEW s \in Seq(S), NEW P, \A i \in 1..Len(s) : s[i] \notin P
    PROVE  Only(s, P) = <<>>
<1>1. At(s, {i \in 1..Len(s) : s[i] \in P}) = At(s, {})
  <2> DEFINE V == {i \in 1..Len(s) : s[i] \in P}
  <2>1. \A i \in 1..Len(s) : i \in V <=> i \in {}
    OBVIOUS
  <2> HIDE DEF V
  <2>2. At(s, V) = At(s, {})
    BY <2>1, AtSame
  <2> QED BY <2>2 DEF V
<1> DEFINE X == {u \in Seq(S) : At(u, {}) = <<>>}
<1>2. <<>> \in X
  BY AtEmpty
<1>3. ASSUME NEW u \in Seq(S), NEW e \in S, u \in X PROVE Append(u, e) \in X
  <2>1. Append(u, e) \in Seq(S)
    BY AppendProperties
  <2>2. At(Append(u, e), {}) = IF Len(u) + 1 \in {} THEN Append(At(u, {}), e) ELSE At(u, {})
    BY AtAppend
  <2> QED BY <1>3, <2>1, <2>2
<1> HIDE DEF X
<1>4. s \in X
  BY <1>2, <1>3, SeqInduct
<1> QED BY <1>1, <1>4 DEF X, Only

\* Nothing is left exactly when no element lies in the set.
LEMMA OnlyExists ==
    ASSUME NEW S, NEW s \in Seq(S), NEW P
    PROVE  Only(s, P) = <<>> <=> \A i \in 1..Len(s) : s[i] \notin P
<1> DEFINE X == {u \in Seq(S) : Only(u, P) = <<>> => \A i \in 1..Len(u) : u[i] \notin P}
<1>1. <<>> \in X
  OBVIOUS
<1>2. ASSUME NEW u \in Seq(S), NEW e \in S, u \in X PROVE Append(u, e) \in X
  <2>1. Append(u, e) \in Seq(S) /\ Len(Append(u, e)) = Len(u) + 1 /\ Len(u) \in Nat
        /\ (\A i \in 1..Len(u) : Append(u, e)[i] = u[i]) /\ Append(u, e)[Len(u) + 1] = e
    BY AppendProperties, LenProperties
  <2>2. Only(Append(u, e), P) = IF e \in P THEN Append(Only(u, P), e) ELSE Only(u, P)
    BY OnlyAppend
  <2>3. Append(Only(u, P), e) # <<>>
    BY OnlyType, AppendProperties
  <2>4. ASSUME Only(Append(u, e), P) = <<>>, NEW i \in 1..(Len(u) + 1)
        PROVE  Append(u, e)[i] \notin P
    <3>1. e \notin P /\ Only(u, P) = <<>>
      BY <2>2, <2>3, <2>4
    <3>2. \A j \in 1..Len(u) : u[j] \notin P
      BY <1>2, <3>1
    <3>3. i \in 1..Len(u) \/ i = Len(u) + 1
      BY <2>1
    <3> QED BY <2>1, <3>1, <3>2, <3>3
  <2> QED BY <2>1, <2>4
<1> HIDE DEF X
<1>3. s \in X
  BY <1>1, <1>2, SeqInduct
<1> QED BY <1>3, OnlyNone DEF X

\* Choosing from the images is taking the images of what is chosen.
LEMMA OnlyImage ==
    ASSUME NEW S, NEW g, NEW s \in Seq(S), NEW P, NEW Q,
           \A x \in S : g[x] \in P <=> x \in Q
    PROVE  Only(Image(g, s), P) = Image(g, Only(s, Q))
<1>0. PICK T : Maps(g, S, T)
  BY Mapped
<1> DEFINE X == {u \in Seq(S) : Only(Image(g, u), P) = Image(g, Only(u, Q))}
<1>1. <<>> \in X
  <2>1. Image(g, <<>>) = <<>>
    BY DEF Image
  <2> QED BY <2>1, OnlyEmpty
<1>2. ASSUME NEW u \in Seq(S), NEW e \in S, u \in X PROVE Append(u, e) \in X
  <2>0. Image(g, u) \in Seq(T) /\ g[e] \in T
    BY <1>0, ImageType DEF Maps
  <2>1. Append(u, e) \in Seq(S) /\ Only(u, Q) \in Seq(S)
    BY AppendProperties, OnlyType
  <2>2. Only(Append(u, e), Q) = IF e \in Q THEN Append(Only(u, Q), e) ELSE Only(u, Q)
    BY OnlyAppend
  <2>3. Only(Append(Image(g, u), g[e]), P) =
          IF g[e] \in P THEN Append(Only(Image(g, u), P), g[e]) ELSE Only(Image(g, u), P)
    <3>1. \A w \in Seq(T), d \in T :
             Only(Append(w, d), P) = IF d \in P THEN Append(Only(w, P), d) ELSE Only(w, P)
      BY OnlyAppend
    <3> QED BY <2>0, <3>1, Zenon
  <2>4. Image(g, Append(u, e)) = Append(Image(g, u), g[e])
    BY ImageAppend
  <2>5. Image(g, Append(Only(u, Q), e)) = Append(Image(g, Only(u, Q)), g[e])
    BY <2>1, ImageAppend
  <2>6. Only(Image(g, u), P) = Image(g, Only(u, Q))
    BY <1>2
  <2>7. g[e] \in P <=> e \in Q
    OBVIOUS
  <2> QED BY <2>1, <2>2, <2>3, <2>4, <2>5, <2>6, <2>7
<1> HIDE DEF X
<1>3. s \in X
  BY <1>1, <1>2, SeqInduct
<1> QED BY <1>3 DEF X

----------------------------------------------------------------------------
(* FlattenSeq: one sequence after the other.                                 *)

Flattens(f, S, ss) ==
    /\ f \in [1..Len(ss) -> Seq(S)]
    /\ f[1] = ss[1]
    /\ \A n \in 1..Len(ss) : n # 1 => f[n] = f[n - 1] \o ss[n]
    /\ FlattenSeq(ss) = f[Len(ss)]

LEMMA FlattenUnfolds ==
    ASSUME NEW S, NEW ss \in Seq(Seq(S)), Len(ss) # 0
    PROVE  \E f : Flattens(f, S, ss)
<1>1. PICK L \in Nat : L = Len(ss) /\ L # 0
  BY LenProperties
<1>2. \A n \in 1..L : ss[n] \in Seq(S)
  BY <1>1, ElementOfSeq
<1> DEFINE Q == Seq(S)
           Step(n, x) == IF n \in 1..L THEN x \o ss[n] ELSE x
           G == [n \in Nat |-> [x \in Q |-> Step(n, x)]]
<1>3. \A n \in Nat, x \in Q : Step(n, x) \in Q
  BY <1>2, ConcatProperties
<1>4. <<>> \in Q /\ G \in [Nat -> [Q -> Q]]
  BY <1>3
<1>5. \A n \in Nat, x \in Q : G[n][x] = Step(n, x)
  OBVIOUS
<1>6. PICK g : Runs(g, Q, <<>>, G)
  <2> HIDE DEF G, Q
  <2> QED BY <1>4, Recursion
<1>7. g \in [Nat -> Q] /\ g[0] = <<>> /\ \A n \in Nat : g[n + 1] = G[n + 1][g[n]]
  BY <1>6, Zenon DEF Runs
<1> HIDE DEF G
<1> DEFINE f == [n \in 1..L |-> g[n]]
<1>8. ASSUME NEW n \in 1..L
      PROVE  f[n] = IF n = 1 THEN ss[n] ELSE f[n - 1] \o ss[n]
  <2>1. n - 1 \in Nat /\ (n - 1) + 1 = n /\ n \in Nat /\ (n # 1 => n - 1 \in 1..L)
    OBVIOUS
  <2>2. g[n] = G[n][g[n - 1]] /\ g[n - 1] \in Q
    BY <1>7, <2>1
  <2>3. g[n] = g[n - 1] \o ss[n]
    BY <1>5, <2>1, <2>2
  <2>4. n = 1 => g[n - 1] = <<>>
    BY <1>7
  <2>5. <<>> \o ss[n] = ss[n]
    BY <1>2, ConcatEmptySeq
  <2> QED BY <2>1, <2>3, <2>4, <2>5
<1>9. f \in [1..L -> Q]
  BY <1>7
<1>10. f = [n \in 1..L |-> IF n = 1 THEN ss[n] ELSE f[n - 1] \o ss[n]]
  <2>1. f = [n \in 1..L |-> f[n]]
    OBVIOUS
  <2> HIDE DEF f
  <2> QED BY <1>8, <2>1, Zenon
<1> HIDE DEF f
<1>11. PICK k : /\ FlattenSeq(ss) = k[L]
                /\ k = [n \in 1..L |-> IF n = 1 THEN ss[n] ELSE k[n - 1] \o ss[n]]
  <2>1. f = [n \in 1..Len(ss) |-> IF n = 1 THEN ss[n] ELSE f[n - 1] \o ss[n]]
    BY <1>1, <1>10, Zenon
  <2>2. Len(ss) # 0
    OBVIOUS
  <2>3. \E k : /\ FlattenSeq(ss) = k[Len(ss)]
               /\ k = [n \in 1..Len(ss) |-> IF n = 1 THEN ss[n] ELSE k[n - 1] \o ss[n]]
    BY <2>1, <2>2, Zenon DEF FlattenSeq
  <2> QED BY <1>1, <2>3, Zenon
<1>12. \A n \in 1..L : k[n] = IF n = 1 THEN ss[n] ELSE k[n - 1] \o ss[n]
  BY <1>11, Zenon
<1>13. \A n \in Nat : n + 1 \in 1..L => k[n + 1] = f[n + 1]
  <2> DEFINE X == {n \in Nat : n + 1 \in 1..L => k[n + 1] = f[n + 1]}
  <2>1. 0 \in X
    BY <1>8, <1>12
  <2>2. ASSUME NEW n \in Nat, n \in X PROVE n + 1 \in X
    <3> SUFFICES ASSUME (n + 1) + 1 \in 1..L PROVE k[(n + 1) + 1] = f[(n + 1) + 1]
      OBVIOUS
    <3>1. n + 1 \in 1..L /\ (n + 1) + 1 # 1 /\ ((n + 1) + 1) - 1 = n + 1
      OBVIOUS
    <3>2. k[n + 1] = f[n + 1]
      BY <2>2, <3>1
    <3>3. k[(n + 1) + 1] = k[n + 1] \o ss[(n + 1) + 1]
      BY <1>12, <3>1
    <3>4. f[(n + 1) + 1] = f[n + 1] \o ss[(n + 1) + 1]
      BY <1>8, <3>1
    <3> QED BY <3>2, <3>3, <3>4
  <2> HIDE DEF X
  <2>3. \A n \in Nat : n \in X
    BY <2>1, <2>2, NatInduct
  <2> QED BY <2>3 DEF X
<1>14. FlattenSeq(ss) = f[L]
  <2>1. L - 1 \in Nat /\ (L - 1) + 1 = L /\ L \in 1..L
    BY <1>1
  <2> QED BY <1>11, <1>13, <2>1
<1>15. 1 \in 1..L
  BY <1>1
<1>16. Flattens(f, S, ss)
  BY <1>1, <1>8, <1>9, <1>14, <1>15 DEF Flattens
<1> QED BY <1>16

LEMMA FlattenEmpty == FlattenSeq(<<>>) = <<>>
BY DEF FlattenSeq

LEMMA FlattenType ==
    ASSUME NEW S, NEW ss \in Seq(Seq(S))
    PROVE  FlattenSeq(ss) \in Seq(S)
<1>1. CASE Len(ss) = 0
  <2>1. ss = <<>>
    BY <1>1, EmptySeq
  <2>2. <<>> \in Seq(S)
    OBVIOUS
  <2> QED BY <2>1, <2>2, FlattenEmpty, Zenon
<1>2. CASE Len(ss) # 0
  <2>1. PICK f : Flattens(f, S, ss)
    BY <1>2, FlattenUnfolds
  <2>2. Len(ss) \in 1..Len(ss)
    BY <1>2, LenProperties
  <2> QED BY <2>1, <2>2 DEF Flattens
<1> QED BY <1>1, <1>2

LEMMA FlattenAppend ==
    ASSUME NEW S, NEW ss \in Seq(Seq(S)), NEW s \in Seq(S)
    PROVE  FlattenSeq(Append(ss, s)) = FlattenSeq(ss) \o s
<1>1. PICK L \in Nat : L = Len(ss)
  BY LenProperties
<1>2. PICK tt \in Seq(Seq(S)) : tt = Append(ss, s)
  BY AppendProperties
<1>3. Len(tt) = L + 1 /\ (\A i \in 1..L : tt[i] = ss[i]) /\ tt[L + 1] = s
  BY <1>1, <1>2, AppendProperties
<1>4. PICK h : Flattens(h, S, tt)
  <2>1. Len(tt) # 0
    BY <1>3
  <2> QED BY <2>1, FlattenUnfolds
<1>5. /\ h[1] = tt[1]
      /\ \A n \in 1..(L + 1) : n # 1 => h[n] = h[n - 1] \o tt[n]
      /\ FlattenSeq(tt) = h[L + 1]
  BY <1>3, <1>4 DEF Flattens
<1>6. CASE L = 0
  <2>1. Len(ss) = 0 /\ L + 1 = 1
    BY <1>1, <1>6
  <2>2. ss = <<>>
    BY <2>1, EmptySeq
  <2>3. FlattenSeq(tt) = s
    BY <1>3, <1>5, <2>1
  <2>4. <<>> \o s = s
    BY ConcatEmptySeq
  <2> QED BY <1>2, <2>2, <2>3, <2>4, FlattenEmpty, Zenon
<1>7. CASE L # 0
  <2>1. PICK f : Flattens(f, S, ss)
    BY <1>1, <1>7, FlattenUnfolds
  <2>2. /\ f[1] = ss[1]
        /\ \A n \in 1..L : n # 1 => f[n] = f[n - 1] \o ss[n]
        /\ FlattenSeq(ss) = f[L]
    BY <1>1, <2>1 DEF Flattens
  <2> DEFINE X == {n \in Nat : n + 1 \in 1..L => h[n + 1] = f[n + 1]}
  <2>3. 0 \in X
    BY <1>3, <1>5, <1>7, <2>2
  <2>4. ASSUME NEW n \in Nat, n \in X PROVE n + 1 \in X
    <3> SUFFICES ASSUME (n + 1) + 1 \in 1..L PROVE h[(n + 1) + 1] = f[(n + 1) + 1]
      OBVIOUS
    <3>1. /\ n + 1 \in 1..L /\ (n + 1) + 1 # 1 /\ ((n + 1) + 1) - 1 = n + 1
          /\ (n + 1) + 1 \in 1..(L + 1)
      OBVIOUS
    <3>2. h[n + 1] = f[n + 1] /\ tt[(n + 1) + 1] = ss[(n + 1) + 1]
      BY <1>3, <2>4, <3>1
    <3>3. h[(n + 1) + 1] = h[n + 1] \o tt[(n + 1) + 1]
      BY <1>5, <3>1
    <3>4. f[(n + 1) + 1] = f[n + 1] \o ss[(n + 1) + 1]
      BY <2>2, <3>1
    <3> QED BY <3>2, <3>3, <3>4
  <2> HIDE DEF X
  <2>5. \A n \in Nat : n \in X
    BY <2>3, <2>4, NatInduct
  <2>6. h[L] = f[L]
    <3>1. L - 1 \in Nat /\ (L - 1) + 1 = L /\ L \in 1..L
      BY <1>7
    <3>2. L - 1 \in X
      BY <2>5, <3>1
    <3> QED BY <3>1, <3>2 DEF X
  <2>7. h[L + 1] = h[L] \o tt[L + 1]
    <3>1. L + 1 \in 1..(L + 1) /\ L + 1 # 1 /\ (L + 1) - 1 = L
      BY <1>7
    <3> QED BY <1>5, <3>1
  <2> QED BY <1>2, <1>3, <1>5, <2>2, <2>6, <2>7
<1> QED BY <1>6, <1>7

LEMMA FlattenImageAppend ==
    ASSUME NEW S, NEW T, NEW h, Lists(h, S, T), NEW v \in Seq(S), NEW e \in S
    PROVE  /\ FlattenSeq(Image(h, Append(v, e))) = FlattenSeq(Image(h, v)) \o h[e]
           /\ FlattenSeq(Image(h, v)) \in Seq(T)
<1>0. Maps(h, S, Seq(T))
  BY DEF Maps, Lists
<1>1. Image(h, v) \in Seq(Seq(T)) /\ h[e] \in Seq(T)
  BY <1>0, ImageType DEF Maps
<1>2. Image(h, Append(v, e)) = Append(Image(h, v), h[e])
  BY ImageAppend
<1>3. FlattenSeq(Append(Image(h, v), h[e])) = FlattenSeq(Image(h, v)) \o h[e]
  BY <1>1, FlattenAppend
<1>4. FlattenSeq(Image(h, v)) \in Seq(T)
  BY <1>1, FlattenType
<1> QED BY <1>2, <1>3, <1>4, Zenon

LEMMA ImageEmpty == \A g : Image(g, <<>>) = <<>>
BY DEF Image

\* The images of sequences that are themselves images, flattened.
LEMMA FlattenImage ==
    ASSUME NEW S, NEW T, NEW h, NEW k, NEW g, NEW u \in Seq(S),
           Lists(h, S, T), \A x \in S : k[x] = Image(g, h[x])
    PROVE  FlattenSeq(Image(k, u)) = Image(g, FlattenSeq(Image(h, u)))
<1> DEFINE X == {v \in Seq(S) : FlattenSeq(Image(k, v)) = Image(g, FlattenSeq(Image(h, v)))}
<1>1. PICK V : Lists(k, S, V)
  <2>1. PICK V : Maps(g, T, V)
    BY Mapped
  <2>2. \A x \in S : k[x] \in Seq(V)
    BY <2>1, ImageType DEF Lists
  <2> QED BY <2>2 DEF Lists
<1>2. <<>> \in X
  BY ImageEmpty, FlattenEmpty
<1>3. ASSUME NEW v \in Seq(S), NEW e \in S, v \in X PROVE Append(v, e) \in X
  <2>1. k[e] = Image(g, h[e]) /\ h[e] \in Seq(T)
    BY DEF Lists
  <2>2. FlattenSeq(Image(k, v)) = Image(g, FlattenSeq(Image(h, v)))
    BY <1>3
  <2>3. Append(v, e) \in Seq(S)
    BY AppendProperties
  <2>4. FlattenSeq(Image(k, Append(v, e))) = FlattenSeq(Image(k, v)) \o k[e]
    BY <1>1, FlattenImageAppend
  <2>5. PICK a \in Seq(T), b \in Seq(T) : a = FlattenSeq(Image(h, v)) /\ b = h[e]
    BY <2>1, FlattenImageAppend
  <2>6. FlattenSeq(Image(h, Append(v, e))) = FlattenSeq(Image(h, v)) \o h[e]
    BY FlattenImageAppend
  <2>7. Image(g, a \o b) = Image(g, a) \o Image(g, b)
    BY ImageParts
  <2> QED BY <2>1, <2>2, <2>3, <2>4, <2>5, <2>6, <2>7, Zenon
<1> HIDE DEF X
<1>4. u \in X
  BY <1>2, <1>3, SeqInduct
<1> QED BY <1>4 DEF X

\* Sequences that have nothing in them can be left out.
LEMMA FlattenOnly ==
    ASSUME NEW S, NEW T, NEW h, NEW u \in Seq(S), NEW P,
           Lists(h, S, T), \A x \in S : x \notin P => h[x] = <<>>
    PROVE  FlattenSeq(Image(h, Only(u, P))) = FlattenSeq(Image(h, u))
<1> DEFINE X == {v \in Seq(S) : FlattenSeq(Image(h, Only(v, P))) = FlattenSeq(Image(h, v))}
<1>1. <<>> \in X
  BY OnlyEmpty
<1>2. ASSUME NEW v \in Seq(S), NEW e \in S, v \in X PROVE Append(v, e) \in X
  <2>1. Append(v, e) \in Seq(S) /\ Only(v, P) \in Seq(S)
    BY AppendProperties, OnlyType
  <2>2. FlattenSeq(Image(h, v)) \in Seq(T)
    BY FlattenImageAppend
  <2>3. FlattenSeq(Image(h, Append(v, e))) = FlattenSeq(Image(h, v)) \o h[e]
    BY FlattenImageAppend
  <2>4. FlattenSeq(Image(h, Only(v, P))) = FlattenSeq(Image(h, v))
    BY <1>2
  <2>5. CASE e \in P
    <3>1. Only(Append(v, e), P) = Append(Only(v, P), e)
      BY <2>5, OnlyAppend
    <3>2. FlattenSeq(Image(h, Append(Only(v, P), e))) = FlattenSeq(Image(h, Only(v, P))) \o h[e]
      BY <2>1, FlattenImageAppend
    <3> QED BY <2>1, <2>3, <2>4, <3>1, <3>2
  <2>6. CASE e \notin P
    <3>1. Only(Append(v, e), P) = Only(v, P)
      BY <2>6, OnlyAppend
    <3>2. h[e] = <<>>
      BY <2>6
    <3>3. FlattenSeq(Image(h, v)) \o <<>> = FlattenSeq(Image(h, v))
      BY <2>2, ConcatEmptySeq
    <3> QED BY <2>1, <2>3, <2>4, <3>1, <3>2, <3>3
  <2> QED BY <2>5, <2>6
<1> HIDE DEF X
<1>3. u \in X
  BY <1>1, <1>2, SeqInduct
<1> QED BY <1>3 DEF X

\* Choosing from each sequence is choosing from all of them.
LEMMA FlattenEachOnly ==
    ASSUME NEW S, NEW T, NEW h, NEW k, NEW u \in Seq(S), NEW P,
           Lists(h, S, T), \A x \in S : k[x] = Only(h[x], P)
    PROVE  FlattenSeq(Image(k, u)) = Only(FlattenSeq(Image(h, u)), P)
<1> DEFINE X == {v \in Seq(S) : FlattenSeq(Image(k, v)) = Only(FlattenSeq(Image(h, v)), P)}
<1>1. Lists(k, S, T)
  BY OnlyType DEF Lists
<1>2. <<>> \in X
  BY ImageEmpty, FlattenEmpty, OnlyEmpty
<1>3. ASSUME NEW v \in Seq(S), NEW e \in S, v \in X PROVE Append(v, e) \in X
  <2>1. k[e] = Only(h[e], P) /\ h[e] \in Seq(T)
    BY DEF Lists
  <2>2. FlattenSeq(Image(k, v)) = Only(FlattenSeq(Image(h, v)), P)
    BY <1>3
  <2>3. Append(v, e) \in Seq(S)
    BY AppendProperties
  <2>4. FlattenSeq(Image(k, Append(v, e))) = FlattenSeq(Image(k, v)) \o k[e]
    BY <1>1, FlattenImageAppend
  <2>5. PICK a \in Seq(T), b \in Seq(T) : a = FlattenSeq(Image(h, v)) /\ b = h[e]
    BY <2>1, FlattenImageAppend
  <2>6. FlattenSeq(Image(h, Append(v, e))) = FlattenSeq(Image(h, v)) \o h[e]
    BY FlattenImageAppend
  <2>7. Only(a \o b, P) = Only(a, P) \o Only(b, P)
    BY OnlyParts
  <2> QED BY <2>1, <2>2, <2>3, <2>4, <2>5, <2>6, <2>7, Zenon
<1> HIDE DEF X
<1>4. u \in X
  BY <1>2, <1>3, SeqInduct
<1> QED BY <1>4 DEF X

LEMMA ImageImage ==
    ASSUME NEW S, NEW h, NEW g, NEW k, NEW s \in Seq(S), \A x \in S : k[x] = g[h[x]]
    PROVE  Image(g, Image(h, s)) = Image(k, s)
<1>1. Len(Image(h, s)) = Len(s)
  BY ImageLen
<1>2. \A i \in 1..Len(s) : s[i] \in S
  BY ElementOfSeq
<1> QED BY <1>1, <1>2 DEF Image

----------------------------------------------------------------------------
(* The name of an instrument and the link to its page.                       *)

LEMMA MinOf ==
    ASSUME NEW T, T \subseteq Nat, T # {}
    PROVE  Min(T) \in T /\ \A y \in T : Min(T) <= y
BY Least DEF Min

LEMMA MaxOf ==
    ASSUME NEW n \in Nat, NEW T, T \subseteq 0..n, T # {}
    PROVE  Max(T) \in T /\ \A y \in T : Max(T) >= y
<1> DEFINE U == {i \in Nat : \A y \in T : i >= y}
<1>1. n \in U
  OBVIOUS
<1>2. PICK m \in U : \A i \in U : m <= i
  <2>1. U \subseteq Nat /\ U # {}
    BY <1>1
  <2> HIDE DEF U
  <2> QED BY <2>1, Least
<1>3. m \in T
  <2> SUFFICES ASSUME m \notin T PROVE FALSE
    OBVIOUS
  <2>1. PICK y \in T : TRUE
    OBVIOUS
  <2>2. m \in Nat /\ (\A z \in T : z \in Nat /\ m >= z /\ z # m) /\ m >= y
    OBVIOUS
  <2>3. m - 1 \in Nat /\ \A z \in T : m - 1 >= z
    BY <2>2
  <2>4. m - 1 \in U
    BY <2>3
  <2>5. m <= m - 1
    <3> HIDE DEF U
    <3> QED BY <1>2, <2>4
  <2> QED BY <2>2, <2>5
<1>4. \E m2 \in T : \A y \in T : m2 >= y
  BY <1>3
<1> QED BY <1>4 DEF Max

LEMMA SubSeqOf ==
    ASSUME NEW S, NEW s \in Seq(S), NEW m \in Nat, NEW n \in Nat,
           1 <= m, m <= n + 1, n <= Len(s)
    PROVE  /\ SubSeq(s, m, n) \in Seq(S)
           /\ Len(SubSeq(s, m, n)) = (n + 1) - m
           /\ \A i \in 1..((n + 1) - m) : SubSeq(s, m, n)[i] = s[(m - 1) + i]
<1>1. m \in Int /\ n \in Int /\ (\A i \in m..n : s[i] \in S)
  <2>1. \A i \in m..n : i \in 1..Len(s)
    BY LenProperties
  <2> QED BY <2>1, ElementOfSeq
<1>2. /\ SubSeq(s, m, n) \in Seq(S)
      /\ Len(SubSeq(s, m, n)) = IF m <= n THEN n - m + 1 ELSE 0
      /\ \A i \in 1..(n - m + 1) : SubSeq(s, m, n)[i] = s[m + i - 1]
  BY <1>1
<1>3. (IF m <= n THEN n - m + 1 ELSE 0) = (n + 1) - m /\ n - m + 1 = (n + 1) - m
  OBVIOUS
<1>4. \A i \in 1..((n + 1) - m) : m + i - 1 = (m - 1) + i
  OBVIOUS
<1> QED BY <1>2, <1>3, <1>4

\* The last segment of a path, up to a question mark.
LEMMA LastSegment ==
    ASSUME NEW S, NEW path \in Seq(S), NEW m \in 1..Len(path), path[m] = "/",
           NEW e \in (m + 1)..Len(path),
           \A i \in (m + 1)..e : path[i] \notin Marks,
           e = Len(path) \/ path[e + 1] = "?",
           \A i \in (e + 1)..Len(path) : path[i] # "/"
    PROVE  SlugFromHref(path) = SubSeq(path, m + 1, e)
<1>1. PICK L \in Nat : L = Len(path)
  BY LenProperties
<1>2. m \in Nat /\ e \in Nat /\ m < e /\ e <= L /\ m <= L
  BY <1>1
<1>3. path # <<>> /\ Last(path) # "/"
  <2>1. path[L] # "/"
    <3>1. CASE e = L
      <4>1. L \in (m + 1)..e
        BY <1>2, <3>1
      <4> QED BY <4>1 DEF Marks
    <3>2. CASE e # L
      <4>1. L \in (e + 1)..Len(path)
        BY <1>1, <1>2, <3>2
      <4> QED BY <4>1
    <3> QED BY <3>1, <3>2
  <2> QED BY <1>1, <1>2, <2>1 DEF Last
<1> DEFINE I == {i \in 1..Len(path) : path[i] = "/"}
<1>4. SelectLastInSeq(path, LAMBDA t : t = "/") = m
  <2>1. \A i \in I : i <= m
    <3> TAKE i \in I
    <3>1. i \in Nat /\ i <= L /\ path[i] = "/"
      BY <1>1
    <3> SUFFICES ASSUME i > m PROVE FALSE
      BY <1>2, <3>1
    <3>2. CASE i <= e
      <4>1. i \in (m + 1)..e
        BY <1>2, <3>1, <3>2
      <4> QED BY <3>1, <4>1 DEF Marks
    <3>3. CASE i > e
      <4>1. i \in (e + 1)..Len(path)
        BY <1>1, <1>2, <3>1, <3>3
      <4> QED BY <3>1, <4>1
    <3> QED BY <1>2, <3>1, <3>2, <3>3
  <2>2. m \in I /\ I \subseteq 0..L
    BY <1>1
  <2>3. Max(I) \in I /\ \A y \in I : Max(I) >= y
    <3> HIDE DEF I
    <3> QED BY <2>2, MaxOf
  <2>4. Max(I) = m
    <3>1. Max(I) \in Nat /\ Max(I) <= m /\ Max(I) >= m
      BY <1>1, <2>1, <2>2, <2>3
    <3> QED BY <1>2, <3>1
  <2>5. SelectLastInSeq(path, LAMBDA t : t = "/") = IF I # {} THEN Max(I) ELSE 0
    BY DEF SelectLastInSeq
  <2> HIDE DEF I
  <2> QED BY <2>2, <2>4, <2>5
<1> DEFINE name == SubSeq(path, m + 1, Len(path))
<1>5. /\ name \in Seq(S) /\ Len(name) = L - m
      /\ \A i \in 1..(L - m) : name[i] = path[m + i]
  <2>1. m + 1 \in Nat /\ 1 <= m + 1 /\ m + 1 <= L + 1 /\ L = Len(path)
    BY <1>1, <1>2
  <2>2. /\ name \in Seq(S) /\ Len(name) = (L + 1) - (m + 1)
        /\ \A i \in 1..((L + 1) - (m + 1)) : name[i] = path[((m + 1) - 1) + i]
    BY <2>1, SubSeqOf
  <2>3. m \in Nat /\ L \in Nat
    BY <1>1, <1>2
  <2>4. (L + 1) - (m + 1) = L - m /\ \A i \in 1..(L - m) : ((m + 1) - 1) + i = m + i
    BY <2>3
  <2> QED BY <2>2, <2>4
<1> DEFINE J == {i \in 1..Len(name) : name[i] \in {"?", "#"}}
<1>6. SelectInSeq(name, LAMBDA t : t \in {"?", "#"}) = IF J # {} THEN Min(J) ELSE 0
  BY DEF SelectInSeq
<1> HIDE DEF name
<1>7. \A i \in J : i \in Nat /\ i > e - m
  <2> TAKE i \in J
  <2>1. i \in 1..(L - m) /\ path[m + i] \in {"?", "#"} /\ i \in Nat
    BY <1>5
  <2> SUFFICES ASSUME i <= e - m PROVE FALSE
    BY <1>2, <2>1
  <2>2. m + i \in (m + 1)..e
    BY <1>2, <2>1
  <2> QED BY <2>1, <2>2 DEF Marks
<1>8. SlugFromHref(path) =
        IF (IF J # {} THEN Min(J) ELSE 0) = 0 THEN name
        ELSE SubSeq(name, 1, (IF J # {} THEN Min(J) ELSE 0) - 1)
  <2>1. SlugFromHref(path) =
          LET mark == SelectInSeq(name, LAMBDA t : t \in {"?", "#"})
          IN IF mark = 0 THEN name ELSE SubSeq(name, 1, mark - 1)
    BY <1>3, <1>4, Zenon DEF SlugFromHref, name
  <2> HIDE DEF J
  <2> QED BY <1>6, <2>1
<1>9. CASE e = L
  <2>1. J = {}
    BY <1>2, <1>5, <1>7, <1>9
  <2> QED BY <1>1, <1>8, <1>9, <2>1 DEF name
<1>10. CASE e # L
  <2>1. (e - m) + 1 \in J
    <3>1. (e - m) + 1 \in 1..(L - m) /\ m + ((e - m) + 1) = e + 1
      BY <1>2, <1>10
    <3> QED BY <1>1, <1>5, <1>10, <3>1
  <2>2. J \subseteq Nat /\ J # {}
    BY <1>7, <2>1
  <2>3. Min(J) \in J /\ Min(J) <= (e - m) + 1
    <3> HIDE DEF J
    <3> QED BY <2>1, <2>2, MinOf
  <2>4. Min(J) = (e - m) + 1
    <3> HIDE DEF J
    <3>1. Min(J) \in Nat /\ Min(J) > e - m
      BY <1>7, <2>3
    <3> QED BY <1>2, <2>3, <3>1
  <2>5. SlugFromHref(path) = SubSeq(name, 1, e - m)
    <3> HIDE DEF J
    <3>1. (e - m) + 1 # 0 /\ ((e - m) + 1) - 1 = e - m
      BY <1>2
    <3> QED BY <1>8, <2>2, <2>4, <3>1
  <2>6. SubSeq(name, 1, e - m) = SubSeq(path, m + 1, e)
    <3>1. e - m \in 0..Len(name) /\ 1 \in 1..(Len(name) + 1)
      BY <1>2, <1>5
    <3>2. /\ SubSeq(name, 1, e - m) \in Seq(S) /\ Len(SubSeq(name, 1, e - m)) = e - m
          /\ \A i \in 1..(e - m) : SubSeq(name, 1, e - m)[i] = name[i]
      BY <1>2, <1>5, <3>1, SubSeqProperties
    <3>3. /\ SubSeq(path, m + 1, e) \in Seq(S) /\ Len(SubSeq(path, m + 1, e)) = e - m
          /\ \A i \in 1..(e - m) : SubSeq(path, m + 1, e)[i] = path[m + i]
      <4>1. PICK k \in Nat : k = m + 1 /\ 1 <= k /\ k <= e + 1 /\ e <= Len(path)
                             /\ (e + 1) - k = e - m /\ k - 1 = m
        BY <1>1, <1>2
      <4>2. /\ SubSeq(path, k, e) \in Seq(S)
            /\ Len(SubSeq(path, k, e)) = (e + 1) - k
            /\ \A i \in 1..((e + 1) - k) : SubSeq(path, k, e)[i] = path[(k - 1) + i]
        BY <1>2, <4>1, SubSeqOf
      <4> QED BY <4>1, <4>2
    <3>4. \A i \in 1..(e - m) : i \in 1..(L - m)
      BY <1>2
    <3>5. PICK a \in Seq(S), b \in Seq(S) :
             a = SubSeq(name, 1, e - m) /\ b = SubSeq(path, m + 1, e)
      BY <3>2, <3>3
    <3>6. Len(a) = e - m /\ Len(b) = e - m /\ \A i \in 1..(e - m) : a[i] = b[i]
      BY <1>5, <3>2, <3>3, <3>4, <3>5
    <3>7. a = b
      BY <3>6, SeqEqual
    <3> QED BY <3>5, <3>7, Zenon
  <2> QED BY <2>5, <2>6
<1> QED BY <1>9, <1>10

\* What stands between a last slash and the end, a slash or a query.
LEMMA NameRead ==
    ASSUME NEW S, {"/", "?", "chart"} \subseteq S,
           NEW pre \in Seq(S), pre # <<>>, pre[Len(pre)] = "/",
           NEW key \in Seq(S), key # <<>>, \A i \in 1..Len(key) : key[i] \notin Marks
    PROVE  /\ SlugFromHref(pre \o key) = key
           /\ SlugFromHref((pre \o key) \o <<"?", "chart">>) = key
           /\ SlugFromHref((pre \o key) \o <<"/">>) = key
<1>1. PICK n \in Nat, k \in Nat : n = Len(pre) /\ k = Len(key) /\ n # 0 /\ k # 0
  BY LenProperties, EmptySeq
<1>2. key \in Seq(S) /\ \A i \in 1..k : key[i] \notin Marks
  BY <1>1
<1>3. PICK h \in Seq(S) : h = pre \o key
  BY <1>2, ConcatProperties
<1>4. /\ Len(h) = n + k
      /\ \A i \in 1..(n + k) : h[i] = IF i <= n THEN pre[i] ELSE key[i - n]
  BY <1>1, <1>2, <1>3, ConcatProperties
<1>5. h[n] = "/" /\ n \in 1..(n + k) /\ n + k \in (n + 1)..(n + k)
  <2>1. n \in 1..(n + k) /\ n <= n /\ n + k \in (n + 1)..(n + k)
    BY <1>1
  <2> QED BY <1>1, <1>4, <2>1
<1>6. \A i \in (n + 1)..(n + k) : h[i] \notin Marks
  <2> TAKE i \in (n + 1)..(n + k)
  <2>1. i - n \in 1..k /\ i \in 1..(n + k) /\ ~(i <= n)
    OBVIOUS
  <2>2. h[i] = key[i - n]
    BY <1>4, <2>1
  <2> QED BY <1>2, <2>1, <2>2
<1>7. ASSUME NEW q \in Seq(S), q = <<>> \/ q[1] = "?", \A i \in 1..Len(q) : q[i] # "/"
      PROVE  SlugFromHref(h \o q) = key
  <2>1. PICK l \in Nat : l = Len(q)
    BY LenProperties
  <2>2. PICK path \in Seq(S) : path = h \o q
    BY ConcatProperties
  <2>3. /\ Len(path) = n + k + l
        /\ \A i \in 1..(n + k + l) : path[i] = IF i <= n + k THEN h[i] ELSE q[i - (n + k)]
    <3>1. /\ Len(h \o q) = Len(h) + Len(q)
          /\ \A i \in 1..(Len(h) + Len(q)) :
               (h \o q)[i] = IF i <= Len(h) THEN h[i] ELSE q[i - Len(h)]
      BY ConcatProperties, Zenon
    <3>2. Len(h) = n + k /\ Len(q) = l /\ Len(h) + Len(q) = n + k + l
      BY <1>4, <2>1
    <3> QED BY <2>2, <3>1, <3>2, Zenon
  <2>4. path[n] = "/" /\ n \in 1..Len(path) /\ n + k \in (n + 1)..Len(path)
    BY <1>1, <1>5, <2>3
  <2>5. ASSUME NEW i \in (n + 1)..(n + k) PROVE path[i] \notin Marks
    <3>1. i \in 1..(n + k + l) /\ i <= n + k
      OBVIOUS
    <3> QED BY <1>6, <2>3, <3>1
  <2>6. n + k = Len(path) \/ path[(n + k) + 1] = "?"
    <3>1. CASE l = 0
      BY <2>3, <3>1
    <3>2. CASE l # 0
      <4>1. (n + k) + 1 \in 1..(n + k + l) /\ ~((n + k) + 1 <= n + k)
            /\ ((n + k) + 1) - (n + k) = 1
        BY <3>2
      <4>2. q # <<>>
        BY <2>1, <3>2
      <4> QED BY <1>7, <2>3, <4>1, <4>2
    <3> QED BY <3>1, <3>2
  <2>7. ASSUME NEW i \in ((n + k) + 1)..Len(path) PROVE path[i] # "/"
    <3>1. i \in 1..(n + k + l) /\ ~(i <= n + k) /\ i - (n + k) \in 1..Len(q)
      BY <2>1, <2>3
    <3> QED BY <1>7, <2>3, <3>1
  <2>8. SlugFromHref(path) = SubSeq(path, n + 1, n + k)
    BY <2>4, <2>5, <2>6, <2>7, LastSegment
  <2>9. SubSeq(path, n + 1, n + k) = key
    <3>1. PICK m \in Nat, e \in Nat : m = n + 1 /\ e = n + k
      OBVIOUS
    <3>2. /\ 1 <= m /\ m <= e + 1 /\ e <= Len(path) /\ (e + 1) - m = k
          /\ \A i \in 1..k : (m - 1) + i = n + i
      BY <2>3, <3>1
    <3>3. /\ SubSeq(path, m, e) \in Seq(S) /\ Len(SubSeq(path, m, e)) = (e + 1) - m
          /\ \A i \in 1..((e + 1) - m) : SubSeq(path, m, e)[i] = path[(m - 1) + i]
      BY <3>2, SubSeqOf
    <3>4. PICK a \in Seq(S) : a = SubSeq(path, m, e)
      BY <3>3
    <3>5. Len(a) = k /\ \A i \in 1..k : a[i] = path[n + i]
      BY <3>2, <3>3, <3>4
    <3>6. \A i \in 1..k : path[n + i] = key[i]
      <4> TAKE i \in 1..k
      <4>1. /\ n + i \in 1..(n + k + l) /\ n + i <= n + k /\ ~(n + i <= n)
            /\ (n + i) - n = i /\ n + i \in 1..(n + k)
        OBVIOUS
      <4> QED BY <1>4, <2>3, <4>1
    <3>7. a = key
      BY <1>1, <1>2, <3>5, <3>6, SeqEqual
    <3> QED BY <3>1, <3>4, <3>7, Zenon
  <2> QED BY <2>2, <2>8, <2>9
<1>8. SlugFromHref(h) = key
  <2>1. <<>> \in Seq(S) /\ (\A i \in 1..Len(<<>>) : <<>>[i] # "/") /\ h \o <<>> = h
    BY ConcatEmptySeq
  <2>2. PICK q : q = <<>>
    OBVIOUS
  <2>3. q \in Seq(S) /\ (\A i \in 1..Len(q) : q[i] # "/") /\ h \o q = h
    BY <2>1, <2>2
  <2> QED BY <1>7, <2>2, <2>3
<1>9. SlugFromHref(h \o <<"?", "chart">>) = key
  <2>1. PICK q : q = <<"?", "chart">>
    OBVIOUS
  <2>2. q \in Seq(S) /\ q[1] = "?" /\ q[2] = "chart" /\ Len(q) = 2
    <3>1. "?" \in S /\ "chart" \in S
      OBVIOUS
    <3>2. q = Append(Append(<<>>, "?"), "chart") /\ <<>> \in Seq(S)
      BY <2>1
    <3>3. q \in Seq(S)
      BY <3>1, <3>2, AppendProperties
    <3> QED BY <2>1, <3>3
  <2>3. \A i \in 1..Len(q) : q[i] # "/"
    <3>1. \A i \in 1..2 : i = 1 \/ i = 2
      OBVIOUS
    <3>2. "?" # "/" /\ "chart" # "/"
      OBVIOUS
    <3> QED BY <2>2, <3>1, <3>2
  <2> QED BY <1>7, <2>1, <2>2, <2>3
<1>10. SlugFromHref(h \o <<"/">>) = key
  <2>1. PICK t \in Seq(S) : t = h \o <<"/">> /\ t = Append(h, "/")
    <3>1. Append(h, "/") = h \o <<"/">> /\ Append(h, "/") \in Seq(S)
      OBVIOUS
    <3> QED BY <3>1, Zenon
  <2>2. Len(t) = (n + k) + 1 /\ (\A i \in 1..(n + k) : t[i] = h[i]) /\ t[(n + k) + 1] = "/"
    BY <1>4, <2>1, AppendProperties
  <2>3. t # <<>> /\ Last(t) = "/"
    <3>1. Len(t) # 0
      BY <2>2
    <3> QED BY <2>2, <3>1 DEF Last
  <2>4. Front(t) = h
    <3>1. Front(t) = SubSeq(t, 1, n + k)
      <4>1. Len(t) - 1 = n + k
        BY <2>2
      <4> QED BY <4>1, Zenon DEF Front
    <3>2. PICK m \in Nat, e \in Nat : m = 1 /\ e = n + k /\ 1 <= m /\ m <= e + 1
             /\ e <= Len(t) /\ (e + 1) - m = n + k /\ \A i \in 1..(n + k) : (m - 1) + i = i
      BY <2>2
    <3>3. /\ SubSeq(t, m, e) \in Seq(S) /\ Len(SubSeq(t, m, e)) = (e + 1) - m
          /\ \A i \in 1..((e + 1) - m) : SubSeq(t, m, e)[i] = t[(m - 1) + i]
      BY <3>2, SubSeqOf
    <3>4. PICK a \in Seq(S) : a = SubSeq(t, m, e)
      BY <3>3
    <3>5. Len(a) = n + k /\ \A i \in 1..(n + k) : a[i] = h[i]
      BY <2>2, <3>2, <3>3, <3>4
    <3>6. a = h
      BY <1>4, <3>5, SeqEqual
    <3> QED BY <3>1, <3>2, <3>4, <3>6, Zenon
  <2>5. h # <<>> => Last(h) # "/"
    <3>1. h[n + k] \notin Marks
      BY <1>1, <1>6
    <3> QED BY <1>4, <3>1 DEF Last, Marks
  <2>6. SlugFromHref(t) = SlugFromHref(h)
    BY <2>3, <2>4, <2>5, Zenon DEF SlugFromHref
  <2> QED BY <1>8, <2>1, <2>6
<1> QED BY <1>3, <1>8, <1>9, <1>10

\* A literal is a string too, which the provers do not know.
Words == STRING \cup {"/", "?", "#", "chart", "profile", "https:", "http:", "tgju", "shop"}

LEMMA WordsOf ==
    ASSUME NEW x \in Instruments
    PROVE  /\ x.key \in Seq(Words) /\ x.key # <<>> /\ x.title # ""
           /\ \A i \in 1..Len(x.key) : x.key[i] \notin Marks
<1>1. x.key \in Seq(STRING \ Marks) \ {<<>>} /\ x.title \in STRING \ {""}
  BY Zenon DEF Instruments
<1>2. \A i \in 1..Len(x.key) : x.key[i] \in STRING \ Marks
  BY <1>1, ElementOfSeq
<1>3. x.key \in Seq(Words)
  <2>1. STRING \ Marks \subseteq Words
    BY DEF Words
  <2>2. Seq(STRING \ Marks) \subseteq Seq(Words)
    BY <2>1, SeqMonotonic
  <2> QED BY <1>1, <2>2
<1> QED BY <1>1, <1>2, <1>3

\* What a link is: a way to the profiles, the name, and what may follow it.
LinkForm(href, key) ==
    \E pre \in Seq(Words) :
        /\ pre # <<>> /\ pre[Len(pre)] = "/"
        /\ \/ href = pre \o key
           \/ href = (pre \o key) \o <<"?", "chart">>
           \/ href = (pre \o key) \o <<"/">>

LEMMA WaysTo ==
    /\ <<"profile", "/">> \in Seq(Words) /\ <<"/", "profile", "/">> \in Seq(Words)
    /\ Base \in Seq(Words) /\ Tail(Base) \in Seq(Words)
    /\ Len(Base) = 4 /\ Len(Tail(Base)) = 3
    /\ \A b \in Seq(Words) : LET p == b \o <<"/", "profile", "/">>
                             IN p \in Seq(Words) /\ p # <<>> /\ p[Len(p)] = "/"
<1>1. /\ "/" \in Words /\ "profile" \in Words /\ "https:" \in Words /\ "tgju" \in Words
  BY DEF Words
<1>2. <<"profile", "/">> \in Seq(Words)
  <2>1. <<"profile", "/">> = Append(Append(<<>>, "profile"), "/") /\ <<>> \in Seq(Words)
    OBVIOUS
  <2> QED BY <1>1, <2>1, AppendProperties
<1>3. <<"/", "profile", "/">> \in Seq(Words)
  <2>1. <<"/", "profile", "/">> = Append(Append(Append(<<>>, "/"), "profile"), "/")
        /\ <<>> \in Seq(Words)
    OBVIOUS
  <2> QED BY <1>1, <2>1, AppendProperties
<1>4. Base \in Seq(Words) /\ Len(Base) = 4
  <2>1. Base = Append(Append(Append(Append(<<>>, "https:"), "/"), "/"), "tgju")
        /\ <<>> \in Seq(Words)
    BY DEF Base
  <2> QED BY <1>1, <2>1, AppendProperties DEF Base
<1>5. Tail(Base) \in Seq(Words) /\ Len(Tail(Base)) = 3
  <2>1. Base # <<>>
    BY <1>4
  <2> QED BY <1>4, <2>1, HeadTailProperties
<1>6. ASSUME NEW b \in Seq(Words), NEW p, p = b \o <<"/", "profile", "/">>
      PROVE  p \in Seq(Words) /\ p # <<>> /\ p[Len(p)] = "/"
  <2>1. PICK c \in Seq(Words) : c = <<"/", "profile", "/">> /\ Len(c) = 3 /\ c[3] = "/"
    BY <1>3
  <2>2. /\ p \in Seq(Words) /\ Len(p) = Len(b) + 3 /\ Len(b) \in Nat
        /\ \A i \in 1..(Len(b) + 3) : p[i] = IF i <= Len(b) THEN b[i] ELSE c[i - Len(b)]
    BY <1>6, <2>1, ConcatProperties, LenProperties
  <2>3. Len(b) + 3 \in 1..(Len(b) + 3) /\ ~(Len(b) + 3 <= Len(b)) /\ (Len(b) + 3) - Len(b) = 3
    BY <2>2
  <2>4. Len(p) # 0
    BY <2>2
  <2> QED BY <2>1, <2>2, <2>3, <2>4
<1> QED BY <1>2, <1>3, <1>4, <1>5, <1>6

LEMMA LinkFormed ==
    ASSUME NEW x \in Instruments, NEW style \in Styles
    PROVE  LinkForm(HrefOf(x, style), x.key)
<1>1. style.link \in {"relative", "rooted", "absolute", "schemeless", "query", "slash"}
  BY DEF Styles
<1>2. PICK r \in Seq(Words) : r = <<"profile", "/">> /\ r # <<>> /\ r[Len(r)] = "/"
  BY WaysTo
<1>3. PICK s \in Seq(Words) : s = <<"/", "profile", "/">> /\ s # <<>> /\ s[Len(s)] = "/"
  BY WaysTo
<1>4. PICK a \in Seq(Words) : a = Base \o <<"/", "profile", "/">> /\ a # <<>> /\ a[Len(a)] = "/"
  BY WaysTo
<1>5. PICK t \in Seq(Words) : t = Tail(Base) \o <<"/", "profile", "/">> /\ t # <<>>
                              /\ t[Len(t)] = "/"
  BY WaysTo
<1>6. CASE style.link = "relative"
  <2>1. HrefOf(x, style) = r \o x.key
    BY <1>2, <1>6 DEF HrefOf
  <2> QED BY <1>2, <2>1 DEF LinkForm
<1>7. CASE style.link = "rooted"
  <2>1. HrefOf(x, style) = s \o x.key
    BY <1>3, <1>7 DEF HrefOf
  <2> QED BY <1>3, <2>1 DEF LinkForm
<1>8. CASE style.link = "absolute"
  <2>1. HrefOf(x, style) = a \o x.key
    BY <1>4, <1>8 DEF HrefOf
  <2> QED BY <1>4, <2>1 DEF LinkForm
<1>9. CASE style.link = "schemeless"
  <2>1. HrefOf(x, style) = t \o x.key
    BY <1>5, <1>9 DEF HrefOf
  <2> QED BY <1>5, <2>1 DEF LinkForm
<1>10. CASE style.link = "query"
  <2>1. HrefOf(x, style) = (r \o x.key) \o <<"?", "chart">>
    BY <1>2, <1>10 DEF HrefOf
  <2> QED BY <1>2, <2>1 DEF LinkForm
<1>11. CASE style.link = "slash"
  <2>1. HrefOf(x, style) = (r \o x.key) \o <<"/">>
    BY <1>2, <1>11 DEF HrefOf
  <2> QED BY <1>2, <2>1 DEF LinkForm
<1> QED BY <1>1, <1>6, <1>7, <1>8, <1>9, <1>10, <1>11

LEMMA SlugRead ==
    ASSUME NEW x \in Instruments, NEW style \in Styles
    PROVE  SlugFromHref(HrefOf(x, style)) = x.key
<1>1. PICK pre \in Seq(Words) :
        /\ pre # <<>> /\ pre[Len(pre)] = "/"
        /\ \/ HrefOf(x, style) = pre \o x.key
           \/ HrefOf(x, style) = (pre \o x.key) \o <<"?", "chart">>
           \/ HrefOf(x, style) = (pre \o x.key) \o <<"/">>
  BY LinkFormed DEF LinkForm
<1>2. PICK key \in Seq(Words) : /\ key = x.key /\ key # <<>>
                                /\ \A i \in 1..Len(key) : key[i] \notin Marks
  BY WordsOf
<1>3. {"/", "?", "chart"} \subseteq Words
  BY DEF Words
<1>4. /\ SlugFromHref(pre \o key) = key
      /\ SlugFromHref((pre \o key) \o <<"?", "chart">>) = key
      /\ SlugFromHref((pre \o key) \o <<"/">>) = key
  BY <1>1, <1>2, <1>3, NameRead
<1> QED BY <1>1, <1>2, <1>4, Zenon

LEMMA NoSlug == SlugFromHref(<<>>) = <<>>
<1> DEFINE I == {i \in 1..Len(<<>>) : <<>>[i] = "/"}
           J == {i \in 1..Len(<<>>) : <<>>[i] \in {"?", "#"}}
<1>1. I = {} /\ J = {}
  OBVIOUS
<1>2. SelectLastInSeq(<<>>, LAMBDA t : t = "/") = IF I # {} THEN Max(I) ELSE 0
  BY DEF SelectLastInSeq
<1>3. SelectInSeq(<<>>, LAMBDA t : t \in {"?", "#"}) = IF J # {} THEN Min(J) ELSE 0
  BY DEF SelectInSeq
<1>4. SelectLastInSeq(<<>>, LAMBDA t : t = "/") = 0
  BY <1>1, <1>2
<1>5. SelectInSeq(<<>>, LAMBDA t : t \in {"?", "#"}) = 0
  BY <1>1, <1>3
<1>6. SubSeq(<<>>, 0 + 1, Len(<<>>)) = <<>>
  OBVIOUS
<1> HIDE DEF I, J
<1> QED BY <1>4, <1>5, <1>6, Zenon DEF SlugFromHref

----------------------------------------------------------------------------
(* A table: of its rows only the instruments are prices.                     *)

LEMMA RowRead ==
    ASSUME NEW x \in Instruments, NEW style \in Styles, NEW cols,
           NEW row, row = ReadRow(RowOf(x, style), cols)
    PROVE  /\ row.slug = x.key /\ row.title = x.title
           /\ row.profile = IF style.short THEN <<>> ELSE HrefOf(x, style)
           /\ IsPrice(row)
<1>1. style.short \in BOOLEAN /\ style.slugged \in BOOLEAN /\ (style.short => style.slugged)
  BY DEF Styles
<1>2. PICK tr : tr = RowOf(x, style)
  OBVIOUS
<1>3. /\ tr.slug = IF style.slugged THEN x.key ELSE <<>>
      /\ tr.title = x.title
      /\ tr.href = IF style.short THEN <<>> ELSE HrefOf(x, style)
  BY <1>2 DEF RowOf
<1>4. /\ row.slug = IF tr.slug = <<>> THEN SlugFromHref(tr.href) ELSE tr.slug
      /\ row.title = tr.title /\ row.profile = tr.href
  BY <1>2 DEF ReadRow
<1>5. x.key # <<>> /\ x.title # ""
  BY WordsOf
<1>6. row.slug = x.key
  <2>1. CASE style.slugged
    BY <1>3, <1>4, <1>5, <2>1
  <2>2. CASE ~style.slugged
    <3>1. tr.slug = <<>> /\ tr.href = HrefOf(x, style)
      BY <1>1, <1>3, <2>2
    <3> QED BY <1>4, <3>1, SlugRead
  <2> QED BY <2>1, <2>2
<1> QED BY <1>3, <1>4, <1>5, <1>6 DEF IsPrice

LEMMA OtherRead ==
    ASSUME NEW r \in OtherRows, NEW cols
    PROVE  ~IsPrice(ReadRow(r, cols))
<1>1. r.title = "" \/ (r.slug = <<>> /\ r.href = <<>>)
  BY DEF OtherRows
<1>2. PICK row : row = ReadRow(r, cols)
  OBVIOUS
<1>3. /\ row.slug = IF r.slug = <<>> THEN SlugFromHref(r.href) ELSE r.slug
      /\ row.title = r.title
  BY <1>2 DEF ReadRow
<1>4. CASE r.title = ""
  BY <1>2, <1>3, <1>4 DEF IsPrice
<1>5. CASE r.slug = <<>> /\ r.href = <<>>
  BY <1>2, <1>3, <1>5, NoSlug DEF IsPrice
<1> QED BY <1>1, <1>4, <1>5

LEMMA ThreeParts ==
    ASSUME NEW S, NEW a \in Seq(S), NEW b \in Seq(S), NEW c \in Seq(S)
    PROVE  /\ \A g : Image(g, (a \o b) \o c) = (Image(g, a) \o Image(g, b)) \o Image(g, c)
           /\ \A P : Only((a \o b) \o c, P) = (Only(a, P) \o Only(b, P)) \o Only(c, P)
<1>1. PICK u \in Seq(S) : u = a \o b
  BY ConcatProperties
<1>2. ASSUME NEW g PROVE Image(g, u \o c) = (Image(g, a) \o Image(g, b)) \o Image(g, c)
  <2>1. Image(g, u \o c) = Image(g, u) \o Image(g, c)
    BY ImageParts
  <2>2. Image(g, a \o b) = Image(g, a) \o Image(g, b)
    BY ImageParts
  <2> QED BY <1>1, <2>1, <2>2, Zenon
<1>3. ASSUME NEW P PROVE Only(u \o c, P) = (Only(a, P) \o Only(b, P)) \o Only(c, P)
  <2>1. Only(u \o c, P) = Only(u, P) \o Only(c, P)
    BY OnlyParts
  <2>2. Only(a \o b, P) = Only(a, P) \o Only(b, P)
    BY OnlyParts
  <2> QED BY <1>1, <2>1, <2>2, Zenon
<1> QED BY <1>1, <1>2, <1>3, Zenon

\* Of what is read from three parts of a table only the middle one is kept.
Inside(g, s, P) == \A i \in 1..Len(s) : g[s[i]] \in P
Outside(g, s, P) == \A i \in 1..Len(s) : g[s[i]] \notin P
LEMMA MiddleKept ==
    ASSUME NEW R, NEW rd, NEW P, NEW junk \in Seq(R), NEW real \in Seq(R),
           Outside(rd, junk, P), Inside(rd, real, P)
    PROVE  Only(Image(rd, (junk \o real) \o junk), P) = Image(rd, real)
<1>1. Image(rd, (junk \o real) \o junk) = (Image(rd, junk) \o Image(rd, real)) \o Image(rd, junk)
  BY ThreeParts
<1>2. PICK V : Maps(rd, R, V)
  BY Mapped
<1>3. PICK a \in Seq(V) : a = Image(rd, junk)
  BY <1>2, ImageType
<1>4. PICK b \in Seq(V) : b = Image(rd, real)
  BY <1>2, ImageType
<1>5. Only((a \o b) \o a, P) = (Only(a, P) \o Only(b, P)) \o Only(a, P)
  BY ThreeParts
<1>6. Only(a, P) = <<>>
  <2>1. Len(a) = Len(junk)
    BY <1>3, ImageLen
  <2>2. \A i \in 1..Len(a) : a[i] \notin P
    BY <1>3, <2>1 DEF Image, Outside
  <2> QED BY <2>2, OnlyNone
<1>7. Only(b, P) = b
  <2>1. Len(b) = Len(real)
    BY <1>4, ImageLen
  <2>2. \A i \in 1..Len(b) : b[i] \in P
    BY <1>4, <2>1 DEF Image, Inside
  <2> QED BY <2>2, OnlyAll
<1>8. <<>> \o b = b /\ b \o <<>> = b
  BY ConcatEmptySeq
<1> QED BY <1>1, <1>3, <1>4, <1>5, <1>6, <1>7, <1>8, Zenon

Layout(style) == LayoutOf(IF style.headed THEN HeaderOf(style) ELSE <<>>)
Reading(style) == [x \in Instruments |-> ReadRow(RowOf(x, style), Layout(style))]

LEMMA TableRead ==
    ASSUME NEW s \in Sections, NEW style \in Styles
    PROVE  ParseTable(TableOf(s, style)) =
             [title |-> s.title, rows |-> Image(Reading(style), s.instruments)]
<1>1. s.instruments \in Seq(Instruments)
  BY Zenon DEF Sections
<1>2. style.junk \in Seq(OtherRows)
  BY DEF Styles
<1> DEFINE cols == Layout(style)
           wr == [x \in Instruments |-> RowOf(x, style)]
           R == OtherRows \cup {RowOf(x, style) : x \in Instruments}
           rd == [r \in R |-> ReadRow(r, cols)]
           V == {ReadRow(r, cols) : r \in R}
           P == {v \in V : IsPrice(v)}
<1>3. PICK junk \in Seq(R) : junk = style.junk /\ \A i \in 1..Len(junk) : junk[i] \in OtherRows
  <2>1. OtherRows \subseteq R
    OBVIOUS
  <2>2. style.junk \in Seq(R)
    <3> HIDE DEF R
    <3> QED BY <1>2, <2>1, SeqMonotonic
  <2>3. \A i \in 1..Len(style.junk) : style.junk[i] \in OtherRows
    BY <1>2, ElementOfSeq
  <2> HIDE DEF R
  <2> QED BY <2>2, <2>3
<1>4. Maps(wr, Instruments, R) /\ \A x \in Instruments : wr[x] = RowOf(x, style)
  BY DEF Maps
<1>5. Maps(rd, R, V) /\ \A r \in R : rd[r] = ReadRow(r, cols)
  BY DEF Maps
<1>6. \A x \in Instruments : wr[x] \in R /\ rd[wr[x]] \in P /\ Reading(style)[x] = rd[wr[x]]
  <2> TAKE x \in Instruments
  <2>1. RowOf(x, style) \in R
    OBVIOUS
  <2>2. IsPrice(ReadRow(RowOf(x, style), cols))
    <3> HIDE DEF cols
    <3> QED BY RowRead
  <2>3. rd[wr[x]] = ReadRow(RowOf(x, style), cols)
    BY <2>1
  <2>4. ReadRow(RowOf(x, style), cols) \in V
    BY <2>1
  <2> QED BY <2>1, <2>2, <2>3, <2>4 DEF Reading
<1>7. \A r \in OtherRows : r \in R /\ rd[r] \notin P
  <2> TAKE r \in OtherRows
  <2>1. ~IsPrice(ReadRow(r, cols))
    <3> HIDE DEF cols
    <3> QED BY OtherRead
  <2> QED BY <2>1
<1>8. \A v \in V : v \in P <=> IsPrice(v)
  OBVIOUS
<1> HIDE DEF cols, wr, R, rd, V, P
<1>9. PICK real \in Seq(R) : real = Image(wr, s.instruments)
  BY <1>1, <1>4, ImageType
<1>10. real = [i \in DOMAIN s.instruments |-> RowOf(s.instruments[i], style)]
  <2>1. DOMAIN s.instruments = 1..Len(s.instruments)
    BY <1>1, LenProperties
  <2>2. \A i \in 1..Len(s.instruments) : s.instruments[i] \in Instruments
    BY <1>1, ElementOfSeq
  <2> QED BY <1>4, <1>9, <2>1, <2>2 DEF Image
<1>11. PICK rows \in Seq(R) : rows = (junk \o real) \o junk
  BY ConcatProperties
<1>12. PICK m \in Seq(V) : m = Image(rd, rows)
  BY <1>5, ImageType
<1>13. Only(m, P) = Image(rd, real)
  <2>1. Outside(rd, junk, P)
    BY <1>3, <1>7 DEF Outside
  <2>2. ASSUME NEW i \in 1..Len(real) PROVE rd[real[i]] \in P
    <3>1. Len(real) = Len(s.instruments)
      BY <1>1, <1>9, ImageLen
    <3>2. s.instruments[i] \in Instruments
      BY <1>1, <3>1, ElementOfSeq
    <3>3. real[i] = wr[s.instruments[i]]
      BY <1>9, <3>1 DEF Image
    <3> QED BY <1>6, <3>2, <3>3
  <2>3. Inside(rd, real, P)
    BY <2>2 DEF Inside
  <2>4. Only(Image(rd, (junk \o real) \o junk), P) = Image(rd, real)
    BY <2>1, <2>3, MiddleKept
  <2> QED BY <1>11, <1>12, <2>4, Zenon
<1>14. Image(rd, real) = Image(Reading(style), s.instruments)
  <2>1. \A x \in Instruments : Reading(style)[x] = rd[wr[x]]
    BY <1>6
  <2> QED BY <1>1, <1>9, <2>1, ImageImage
<1>15. PICK table : table = TableOf(s, style)
  OBVIOUS
<1>16. table.title = s.title /\ table.rows = rows
       /\ table.head = IF style.headed THEN HeaderOf(style) ELSE <<>>
  <2>1. table.rows = (style.junk \o [i \in DOMAIN s.instruments |-> RowOf(s.instruments[i], style)])
                       \o style.junk
    BY <1>15 DEF TableOf
  <2> QED BY <1>3, <1>10, <1>11, <1>15, <2>1 DEF TableOf
<1>17. m = [i \in DOMAIN rows |-> ReadRow(rows[i], cols)]
  <2>1. DOMAIN rows = 1..Len(rows)
    BY LenProperties
  <2>2. \A i \in 1..Len(rows) : rows[i] \in R
    BY ElementOfSeq
  <2> QED BY <1>5, <1>12, <2>1, <2>2 DEF Image
<1>18. Select(m, IsPrice) = Only(m, P)
  <2>1. DOMAIN m = 1..Len(m)
    BY LenProperties
  <2>2. \A i \in 1..Len(m) : m[i] \in V
    BY ElementOfSeq
  <2>3. {i \in DOMAIN m : IsPrice(m[i])} = {i \in 1..Len(m) : m[i] \in P}
    BY <1>8, <2>1, <2>2
  <2> QED BY <2>3, Zenon DEF Select, Only
<1>19. ParseTable(table) = [title |-> table.title, rows |-> Select(m, IsPrice)]
  BY <1>16, <1>17, Zenon DEF ParseTable, cols, Layout
<1> QED BY <1>13, <1>14, <1>15, <1>16, <1>18, <1>19

----------------------------------------------------------------------------
(* A page: its items are the images of what the site listed.                 *)

MarketSections == {s \in Sections : s.market}
FilledSections == {s \in Sections : s.instruments # <<>>}
Markets == Only(published.board, MarketSections)

Sheet(style) == [s \in Sections |-> TableOf(s, style)]
Parsed(style) ==
    [s \in Sections |-> [title |-> s.title, rows |-> Image(Reading(style), s.instruments)]]

Entries == [caption: STRING, instrument: Instruments]
ItemOf(style) == [e \in Entries |-> ItemFrom(e.caption, Reading(style)[e.instrument])]
Captioned ==
    [s \in Sections |->
        [i \in 1..Len(s.instruments) |->
            [caption |-> s.title, instrument |-> s.instruments[i]]]]
ItemsOf(style) == [s \in Sections |-> Image(ItemOf(style), Captioned[s])]
Category(style) == [s \in Sections |-> [title |-> s.title, items |-> ItemsOf(style)[s]]]

LEMMA SectionType ==
    ASSUME NEW s \in Sections
    PROVE  s.title \in STRING /\ s.market \in BOOLEAN /\ s.instruments \in Seq(Instruments)
BY DEF Sections

LEMMA CaptionedType ==
    /\ Lists(Captioned, Sections, Entries)
    /\ \A s \in Sections : Len(Captioned[s]) = Len(s.instruments)
<1>1. ASSUME NEW s \in Sections
      PROVE  Captioned[s] \in Seq(Entries) /\ Len(Captioned[s]) = Len(s.instruments)
  <2>1. s.title \in STRING /\ s.instruments \in Seq(Instruments)
    BY SectionType
  <2>2. Len(s.instruments) \in Nat /\ \A i \in 1..Len(s.instruments) : s.instruments[i] \in Instruments
    BY <2>1, LenProperties, ElementOfSeq
  <2>3. \A i \in 1..Len(s.instruments) :
          [caption |-> s.title, instrument |-> s.instruments[i]] \in Entries
    BY <2>1, <2>2 DEF Entries
  <2> QED BY <2>2, <2>3 DEF Captioned
<1> QED BY <1>1 DEF Lists

LEMMA MarketTablesAre ==
    ASSUME published \in Publications
    PROVE  /\ Markets \in Seq(Sections)
           /\ MarketTables = Image(Sheet(published.style), Markets)
<1>1. PICK board : board = published.board
  OBVIOUS
<1>2. PICK style : style = published.style
  OBVIOUS
<1>3. board \in Seq(Sections)
  BY <1>1, PublicationsAssumption
<1> DEFINE g == Sheet(style)
           V == {TableOf(s, style) : s \in Sections}
           P == {t \in V : t.market}
<1>4. \A s \in Sections : g[s] = TableOf(s, style) /\ g[s] \in V
  BY DEF Sheet
<1>5. \A s \in Sections : TableOf(s, style).market = s.market
  BY DEF TableOf
<1>6. \A s \in Sections : g[s] \in P <=> s \in MarketSections
  BY <1>4, <1>5, Zenon DEF MarketSections
<1>7. Page(board, style) = Image(g, board)
  <2>1. DOMAIN board = 1..Len(board) /\ \A i \in 1..Len(board) : board[i] \in Sections
    BY <1>3, ElementOfSeq, LenProperties
  <2> QED BY <1>4, <2>1 DEF Page, Image
<1>8. Maps(g, Sections, V)
  BY <1>4 DEF Maps
<1>9. \A t \in V : t \in P <=> t.market
  OBVIOUS
<1> HIDE DEF g, V, P
<1>10. PICK page \in Seq(V) : page = Page(board, style)
  BY <1>3, <1>7, <1>8, ImageType
<1>11. Select(page, LAMBDA t : t.market) = Only(page, P)
  <2>1. DOMAIN page = 1..Len(page) /\ \A i \in 1..Len(page) : page[i] \in V
    BY LenProperties, ElementOfSeq
  <2>2. {i \in DOMAIN page : page[i].market} = {i \in 1..Len(page) : page[i] \in P}
    BY <1>9, <2>1, Zenon
  <2> QED BY <2>2, Zenon DEF Select, Only
<1>12. Only(Image(g, board), P) = Image(g, Only(board, MarketSections))
  BY <1>3, <1>6, OnlyImage
<1>13. Markets \in Seq(Sections)
  BY <1>1, <1>3, OnlyType DEF Markets
<1>14. MarketTables = Select(page, LAMBDA t : t.market)
  BY <1>1, <1>2, <1>10, Zenon DEF MarketTables
<1> QED BY <1>1, <1>2, <1>7, <1>10, <1>11, <1>12, <1>13, <1>14, Zenon DEF Markets, g

LEMMA SnapshotIs ==
    ASSUME NEW style \in Styles, NEW u \in Seq(Sections)
    PROVE  SnapshotFrom(Image(Parsed(style), u)) = Image(Category(style), Only(u, FilledSections))
<1> DEFINE g == Parsed(style)
           V == {g[s] : s \in Sections}
           P == {t \in V : t.rows # <<>>}
<1>1. \A s \in Sections : /\ g[s] \in V
                          /\ g[s].title = s.title
                          /\ g[s].rows = Image(Reading(style), s.instruments)
  BY DEF Parsed
<1>2. \A s \in Sections : g[s] \in P <=> s \in FilledSections
  <2> TAKE s \in Sections
  <2>1. s.instruments \in Seq(Instruments)
    BY SectionType
  <2>2. Image(Reading(style), s.instruments) = <<>> <=> s.instruments = <<>>
    <3>1. Len(Image(Reading(style), s.instruments)) = Len(s.instruments)
      BY <2>1, ImageLen
    <3>2. PICK V2 : Maps(Reading(style), Instruments, V2)
      BY Mapped
    <3>3. Image(Reading(style), s.instruments) \in Seq(V2)
      BY <2>1, <3>2, ImageType
    <3> QED BY <2>1, <3>1, <3>3, EmptySeq
  <2> QED BY <1>1, <2>2 DEF FilledSections
<1>3. Maps(g, Sections, V)
  BY <1>1 DEF Maps
<1>4. \A t \in V : t \in P <=> t.rows # <<>>
  OBVIOUS
<1> HIDE DEF g, V, P
<1>5. PICK read \in Seq(V) : read = Image(g, u)
  BY <1>3, ImageType
<1>6. PICK w \in Seq(Sections) : w = Only(u, FilledSections)
  BY OnlyType
<1>7. Select(read, LAMBDA t : t.rows # <<>>) = Image(g, w)
  <2>1. DOMAIN read = 1..Len(read) /\ \A i \in 1..Len(read) : read[i] \in V
    BY LenProperties, ElementOfSeq
  <2>2. {i \in DOMAIN read : read[i].rows # <<>>} = {i \in 1..Len(read) : read[i] \in P}
    BY <1>4, <2>1, Zenon
  <2>3. Select(read, LAMBDA t : t.rows # <<>>) = Only(read, P)
    BY <2>2, Zenon DEF Select, Only
  <2>4. Only(Image(g, u), P) = Image(g, Only(u, FilledSections))
    BY <1>2, OnlyImage
  <2> QED BY <1>5, <1>6, <2>3, <2>4, Zenon
<1>8. PICK filled : filled = Image(g, w)
  OBVIOUS
<1>9. DOMAIN filled = 1..Len(w) /\ \A i \in 1..Len(w) : w[i] \in Sections /\ filled[i] = g[w[i]]
  <2>1. \A i \in 1..Len(w) : w[i] \in Sections
    BY ElementOfSeq
  <2> QED BY <1>8, <2>1 DEF Image
<1>10. ASSUME NEW s \in Sections
       PROVE  [title |-> g[s].title,
               items |-> [j \in DOMAIN g[s].rows |-> ItemFrom(g[s].title, g[s].rows[j])]] =
                Category(style)[s]
  <2>1. PICK a \in Seq(Instruments) : a = s.instruments
    BY SectionType
  <2>2. s.title \in STRING
    BY SectionType
  <2>3. PICK r : r = Reading(style)
    OBVIOUS
  <2>4. g[s].title = s.title /\ g[s].rows = [j \in 1..Len(a) |-> r[a[j]]]
    BY <1>1, <2>1, <2>3, Zenon DEF Image
  <2>5. [j \in DOMAIN g[s].rows |-> ItemFrom(g[s].title, g[s].rows[j])] =
          [j \in 1..Len(a) |-> ItemFrom(s.title, r[a[j]])]
    BY <2>4
  <2>6. \A j \in 1..Len(a) : a[j] \in Instruments
    BY ElementOfSeq
  <2>7. Captioned[s] = [j \in 1..Len(a) |-> [caption |-> s.title, instrument |-> a[j]]]
    BY <2>1, Zenon DEF Captioned
  <2>8. Len(Captioned[s]) = Len(a)
    BY <2>1, CaptionedType
  <2>9. \A j \in 1..Len(a) : [caption |-> s.title, instrument |-> a[j]] \in Entries
    BY <2>2, <2>6 DEF Entries
  <2>10. \A j \in 1..Len(a) :
           ItemOf(style)[[caption |-> s.title, instrument |-> a[j]]] = ItemFrom(s.title, r[a[j]])
    BY <2>3, <2>9 DEF ItemOf
  <2>11. Image(ItemOf(style), Captioned[s]) = [j \in 1..Len(a) |-> ItemFrom(s.title, r[a[j]])]
    BY <2>7, <2>8, <2>10 DEF Image
  <2> QED BY <2>4, <2>5, <2>11, Zenon DEF Category, ItemsOf
<1>11. [i \in DOMAIN filled |->
          [title |-> filled[i].title,
           items |-> [j \in DOMAIN filled[i].rows |->
                        ItemFrom(filled[i].title, filled[i].rows[j])]]] =
         Image(Category(style), w)
  BY <1>9, <1>10, Zenon DEF Image
<1>12. SnapshotFrom(read) =
         [i \in DOMAIN filled |->
            [title |-> filled[i].title,
             items |-> [j \in DOMAIN filled[i].rows |->
                          ItemFrom(filled[i].title, filled[i].rows[j])]]]
  BY <1>7, <1>8, Zenon DEF SnapshotFrom
<1> QED BY <1>5, <1>6, <1>11, <1>12, Zenon DEF g

LEMMA ListedIs ==
    ASSUME published \in Publications
    PROVE  /\ Listed = FlattenSeq(Image(Captioned, Markets))
           /\ Listed \in Seq(Entries)
<1>1. PICK board \in Seq(Sections) : board = published.board
  BY PublicationsAssumption
<1>2. PICK u \in Seq(Sections) : u = Markets
  BY MarketTablesAre
<1>3. Select(board, LAMBDA s : s.market) = u
  <2>1. DOMAIN board = 1..Len(board) /\ \A i \in 1..Len(board) : board[i] \in Sections
    BY LenProperties, ElementOfSeq
  <2>2. {i \in DOMAIN board : board[i].market} = {i \in 1..Len(board) : board[i] \in MarketSections}
    BY <2>1, Zenon DEF MarketSections
  <2> QED BY <1>1, <1>2, <2>2, Zenon DEF Select, Only, Markets
<1>4. DOMAIN u = 1..Len(u) /\ \A i \in 1..Len(u) : u[i] \in Sections
  BY LenProperties, ElementOfSeq
<1>5. \A s \in Sections :
        [i \in DOMAIN s.instruments |-> [caption |-> s.title, instrument |-> s.instruments[i]]] =
          Captioned[s]
  <2> TAKE s \in Sections
  <2>1. DOMAIN s.instruments = 1..Len(s.instruments)
    BY SectionType, LenProperties
  <2> QED BY <2>1, Zenon DEF Captioned
<1>6. [i \in DOMAIN u |->
         [j \in DOMAIN u[i].instruments |->
            [caption |-> u[i].title, instrument |-> u[i].instruments[j]]]] = Image(Captioned, u)
  BY <1>4, <1>5, Zenon DEF Image
<1>7. Listed = FlattenSeq(Image(Captioned, u))
  BY <1>1, <1>3, <1>6, Zenon DEF Listed
<1>8. Maps(Captioned, Sections, Seq(Entries))
  BY CaptionedType DEF Lists, Maps
<1>9. Image(Captioned, u) \in Seq(Seq(Entries))
  BY <1>8, ImageType
<1>10. FlattenSeq(Image(Captioned, u)) \in Seq(Entries)
  BY <1>9, FlattenType
<1> QED BY <1>2, <1>7, <1>10, Zenon

LEMMA AllIs ==
    ASSUME NEW style \in Styles, NEW u \in Seq(Sections)
    PROVE  All(Image(Category(style), u)) = FlattenSeq(Image(ItemsOf(style), u))
<1>1. Len(Image(Category(style), u)) = Len(u)
  BY ImageLen
<1>2. DOMAIN Image(Category(style), u) = 1..Len(u)
  BY DEF Image
<1>3. \A i \in 1..Len(u) : u[i] \in Sections
  BY ElementOfSeq
<1>4. \A i \in 1..Len(u) : Image(Category(style), u)[i].items = ItemsOf(style)[u[i]]
  BY <1>3 DEF Image, Category
<1> QED BY <1>2, <1>4, Zenon DEF All, Image

LEMMA ItemsAre ==
    ASSUME NEW style \in Styles, NEW u \in Seq(Sections)
    PROVE  All(SnapshotFrom(Image(Parsed(style), u))) =
             Image(ItemOf(style), FlattenSeq(Image(Captioned, u)))
<1>1. PICK w \in Seq(Sections) : w = Only(u, FilledSections)
  BY OnlyType
<1>2. PICK T : Maps(ItemOf(style), Entries, T)
  BY Mapped
<1>3. \A s \in Sections : ItemsOf(style)[s] = Image(ItemOf(style), Captioned[s])
  BY DEF ItemsOf
<1>4. Lists(Captioned, Sections, Entries)
  BY CaptionedType
<1>5. Lists(ItemsOf(style), Sections, T)
  <2>1. \A s \in Sections : Captioned[s] \in Seq(Entries)
    BY <1>4 DEF Lists
  <2>2. \A s \in Sections : Image(ItemOf(style), Captioned[s]) \in Seq(T)
    BY <1>2, <2>1, ImageType
  <2> QED BY <1>3, <2>2 DEF Lists
<1>6. ASSUME NEW s \in Sections, s \notin FilledSections PROVE ItemsOf(style)[s] = <<>>
  <2>1. s.instruments = <<>>
    BY <1>6 DEF FilledSections
  <2>2. Captioned[s] \in Seq(Entries) /\ Len(Captioned[s]) = 0
    BY <2>1, CaptionedType DEF Lists
  <2>3. Captioned[s] = <<>>
    BY <2>2, EmptySeq
  <2> QED BY <1>3, <2>3, ImageEmpty
<1>7. FlattenSeq(Image(ItemsOf(style), w)) = FlattenSeq(Image(ItemsOf(style), u))
  BY <1>1, <1>5, <1>6, FlattenOnly
<1>8. FlattenSeq(Image(ItemsOf(style), u)) = Image(ItemOf(style), FlattenSeq(Image(Captioned, u)))
  BY <1>3, <1>4, FlattenImage
<1>9. All(Image(Category(style), w)) = FlattenSeq(Image(ItemsOf(style), w))
  BY AllIs
<1> QED BY <1>1, <1>7, <1>8, <1>9, SnapshotIs, Zenon

----------------------------------------------------------------------------
(* The states: the tables read so far are the first of the page, and what    *)
(* load returns is what all of them hold.                                    *)

ParsedTables == Image(Parsed(published.style), Markets)
Snapshot == SnapshotFrom(ParsedTables)
Outcome ==
    IF Markets = <<>> THEN Error("ErrNoTables")
    ELSE IF IsEmpty(Snapshot) THEN Error("ErrEmpty")
    ELSE [kind |-> "snapshot", categories |-> Snapshot]

ReadInv ==
    /\ published \in Publications
    /\ Len(tables) \in Nat /\ Len(tables) <= Len(Markets)
    /\ tables = [i \in 1..Len(tables) |-> ParsedTables[i]]
    /\ pc \in {"parsing", "reading", "done", "answered"}
    /\ pc = "parsing" => tables = <<>>
    /\ pc = "reading" => Markets # <<>>
    /\ pc \in {"parsing", "reading"} => result = Pending
    /\ pc \in {"done", "answered"} => result = Outcome
    /\ pc = "answered" => answer = Reply

LEMMA TablesAre ==
    ASSUME published \in Publications
    PROVE  /\ Len(MarketTables) = Len(Markets) /\ Len(ParsedTables) = Len(Markets)
           /\ Len(Markets) \in Nat
           /\ MarketTables = <<>> <=> Markets = <<>>
           /\ ParsedTables = [i \in 1..Len(Markets) |-> ParsedTables[i]]
           /\ \A i \in 1..Len(Markets) : ParseTable(MarketTables[i]) = ParsedTables[i]
<1>1. PICK u \in Seq(Sections) : u = Markets
  BY MarketTablesAre
<1>2. PICK style \in Styles : style = published.style
  BY PublicationsAssumption
<1>3. PICK V : Maps(Sheet(style), Sections, V)
  BY Mapped
<1>4. PICK mt \in Seq(V) : mt = Image(Sheet(style), u) /\ mt = MarketTables
  BY <1>1, <1>2, <1>3, MarketTablesAre, ImageType
<1>5. PICK W : Maps(Parsed(style), Sections, W)
  BY Mapped
<1>6. PICK pt \in Seq(W) : pt = Image(Parsed(style), u) /\ pt = ParsedTables
  <2>1. Image(Parsed(style), u) \in Seq(W)
    BY <1>5, ImageType
  <2> QED BY <1>1, <1>2, <2>1 DEF ParsedTables
<1>7. Len(mt) = Len(u) /\ Len(pt) = Len(u) /\ Len(u) \in Nat
  <2>1. Len(Image(Sheet(style), u)) = Len(u)
    BY ImageLen
  <2>2. Len(Image(Parsed(style), u)) = Len(u)
    BY ImageLen
  <2> QED BY <1>4, <1>6, <2>1, <2>2, LenProperties
<1>8. mt = <<>> <=> u = <<>>
  BY <1>7, EmptySeq
<1>9. pt = [i \in 1..Len(u) |-> pt[i]]
  BY <1>7
<1>10. ASSUME NEW i \in 1..Len(u) PROVE ParseTable(mt[i]) = pt[i]
  <2>1. u[i] \in Sections
    BY ElementOfSeq
  <2>2. mt[i] = TableOf(u[i], style)
    BY <1>4, <2>1 DEF Image, Sheet
  <2>3. pt[i] = [title |-> u[i].title, rows |-> Image(Reading(style), u[i].instruments)]
    BY <1>6, <2>1 DEF Image, Parsed
  <2> QED BY <2>1, <2>2, <2>3, TableRead
<1> QED BY <1>1, <1>4, <1>6, <1>7, <1>8, <1>9, <1>10, Zenon

LEMMA ReadInit == QueryInit => ReadInv
<1> SUFFICES ASSUME QueryInit PROVE ReadInv
  OBVIOUS
<1>1. published \in Publications /\ pc = "parsing" /\ tables = <<>> /\ result = Pending
  BY DEF QueryInit, Init
<1>2. Len(Markets) \in Nat
  BY <1>1, TablesAre
<1>3. tables = [i \in 1..Len(tables) |-> ParsedTables[i]]
  BY <1>1
<1> QED BY <1>1, <1>2, <1>3 DEF ReadInv

LEMMA ReadStep == ReadInv /\ [QueryNext]_queryVars => ReadInv'
<1> SUFFICES ASSUME ReadInv, [QueryNext]_queryVars PROVE ReadInv'
  OBVIOUS
<1>1. /\ Len(MarketTables) = Len(Markets) /\ Len(Markets) \in Nat
      /\ Len(ParsedTables) = Len(Markets)
      /\ MarketTables = <<>> <=> Markets = <<>>
      /\ ParsedTables = [i \in 1..Len(Markets) |-> ParsedTables[i]]
      /\ \A i \in 1..Len(Markets) : ParseTable(MarketTables[i]) = ParsedTables[i]
  BY TablesAre DEF ReadInv
<1>2. published' = published
  BY DEF queryVars, QueryNext, Next, FindTables, ReadTable, Assemble, Answer
<1>3. Markets' = Markets /\ ParsedTables' = ParsedTables /\ Outcome' = Outcome
  BY <1>2 DEF Markets, ParsedTables, Outcome, Snapshot
<1>4. ASSUME result' = result PROVE Reply' = Reply
  BY <1>2, <1>4 DEF Reply, request, LoadError, FilterCategories, Board, BoardItems,
                    BoardItem, Flat, Grouped, Get
<1>5. CASE FindTables
  <2>1. pc = "parsing" /\ UNCHANGED <<published, tables>> /\ tables = <<>>
    BY <1>5 DEF FindTables, ReadInv
  <2>2. IF Markets = <<>> THEN pc' = "done" /\ result' = Error("ErrNoTables")
        ELSE pc' = "reading" /\ result' = result
    BY <1>1, <1>5 DEF FindTables, Return
  <2>3. Markets = <<>> => Outcome = Error("ErrNoTables")
    BY DEF Outcome
  <2> QED BY <1>3, <2>1, <2>2, <2>3 DEF ReadInv
<1>6. CASE ReadTable
  <2>1. /\ pc = "reading" /\ Len(tables) < Len(Markets)
        /\ tables' = Append(tables, ParseTable(MarketTables[Len(tables) + 1]))
        /\ UNCHANGED <<published, pc, result>>
    BY <1>1, <1>6 DEF ReadTable
  <2>2. PICK n \in Nat : n = Len(tables) /\ n < Len(Markets)
    BY <2>1 DEF ReadInv
  <2>3. tables = [i \in 1..n |-> ParsedTables[i]]
    BY <2>2 DEF ReadInv
  <2>4. tables' = Append([i \in 1..n |-> ParsedTables[i]], ParsedTables[n + 1])
    BY <1>1, <2>1, <2>2, <2>3
  <2>5. tables' = [i \in 1..(n + 1) |-> ParsedTables[i]] /\ Len(tables') = n + 1
    BY <2>4
  <2> QED BY <1>1, <1>3, <2>1, <2>2, <2>5 DEF ReadInv
<1>7. CASE Assemble
  <2>1. pc = "reading" /\ Len(tables) = Len(Markets) /\ UNCHANGED <<published, tables>>
        /\ pc' = "done"
    BY <1>1, <1>7 DEF Assemble, Return
  <2>2. tables = ParsedTables /\ Markets # <<>>
    BY <1>1, <2>1 DEF ReadInv
  <2>3. result' = IF IsEmpty(SnapshotFrom(tables)) THEN Error("ErrEmpty")
                  ELSE [kind |-> "snapshot", categories |-> SnapshotFrom(tables)]
    BY <1>7, Zenon DEF Assemble, Return
  <2>4. result' = Outcome
    BY <2>2, <2>3, Zenon DEF Outcome, Snapshot
  <2> QED BY <1>3, <2>1, <2>4 DEF ReadInv
<1>8. CASE Answer
  <2>1. pc = "done" /\ pc' = "answered" /\ UNCHANGED <<published, tables, result>>
        /\ answer' = Reply
    BY <1>8 DEF Answer
  <2>2. answer' = Reply'
    BY <1>4, <2>1, Zenon
  <2> QED BY <1>3, <2>1, <2>2 DEF ReadInv
<1>9. CASE UNCHANGED queryVars
  <2>1. UNCHANGED <<published, pc, tables, result, answer>>
    BY <1>9 DEF queryVars
  <2>2. answer' = answer /\ Reply' = Reply
    BY <1>4, <2>1
  <2> QED BY <1>3, <2>1, <2>2 DEF ReadInv
<1> QED BY <1>5, <1>6, <1>7, <1>8, <1>9 DEF QueryNext, Next

LEMMA Reads == QuerySpec => []ReadInv
BY ReadInit, ReadStep, PTL DEF QuerySpec

----------------------------------------------------------------------------
(* Nothing published is told from a page that changed, and no instrument is  *)
(* lost.                                                                     *)

LEMMA ItemsListed ==
    ASSUME published \in Publications
    PROVE  /\ All(Snapshot) = Image(ItemOf(published.style), Listed)
           /\ Listed \in Seq(Entries)
           /\ Len(All(Snapshot)) = Len(Listed)
<1>1. PICK u \in Seq(Sections) : u = Markets
  BY MarketTablesAre
<1>2. PICK style \in Styles : style = published.style
  BY PublicationsAssumption
<1>3. All(SnapshotFrom(Image(Parsed(style), u))) =
        Image(ItemOf(style), FlattenSeq(Image(Captioned, u)))
  BY ItemsAre
<1>4. Listed = FlattenSeq(Image(Captioned, u)) /\ Listed \in Seq(Entries)
  BY <1>1, ListedIs
<1>5. Len(Image(ItemOf(style), Listed)) = Len(Listed)
  BY <1>4, ImageLen
<1> QED BY <1>1, <1>2, <1>3, <1>4, <1>5, Zenon DEF Snapshot, ParsedTables

\* "tgju changed its markup" is told from "tgju published nothing", and neither
\* from a board.
THEOREM NothingPublishedReported == QuerySpec => []EmptyReported
<1>1. ReadInv => EmptyReported
  <2> SUFFICES ASSUME ReadInv, pc \in {"done", "answered"}
               PROVE  /\ result.kind = "ErrNoTables" <=>
                            \A i \in DOMAIN published.board : ~published.board[i].market
                      /\ Read <=> Listed # <<>>
    BY DEF EmptyReported
  <2>1. published \in Publications /\ result = Outcome
    BY DEF ReadInv
  <2>2. PICK board \in Seq(Sections) : board = published.board
    BY <2>1, PublicationsAssumption
  <2>3. Markets = <<>> <=> \A i \in DOMAIN published.board : ~published.board[i].market
    <3>1. Markets = <<>> <=> \A i \in 1..Len(board) : board[i] \notin MarketSections
      BY <2>2, OnlyExists DEF Markets
    <3>2. DOMAIN board = 1..Len(board) /\ \A i \in 1..Len(board) : board[i] \in Sections
      BY LenProperties, ElementOfSeq
    <3> QED BY <2>2, <3>1, <3>2, Zenon DEF MarketSections
  <2>4. IsEmpty(Snapshot) <=> Listed = <<>>
    <3>1. Len(All(Snapshot)) = Len(Listed) /\ Listed \in Seq(Entries)
      BY <2>1, ItemsListed
    <3> QED BY <3>1, EmptySeq DEF IsEmpty
  <2>5. Markets = <<>> => Listed = <<>>
    BY <2>1, ListedIs, ImageEmpty, FlattenEmpty
  <2>6. CASE Markets = <<>>
    <3>1. result.kind = "ErrNoTables"
      BY <2>1, <2>6 DEF Outcome, Error
    <3> QED BY <2>3, <2>5, <2>6, <3>1 DEF Read
  <2>7. CASE Markets # <<>> /\ IsEmpty(Snapshot)
    <3>1. result.kind = "ErrEmpty"
      BY <2>1, <2>7 DEF Outcome, Error
    <3> QED BY <2>3, <2>4, <2>7, <3>1 DEF Read
  <2>8. CASE Markets # <<>> /\ ~IsEmpty(Snapshot)
    <3>1. result.kind = "snapshot"
      BY <2>1, <2>8 DEF Outcome
    <3> QED BY <2>3, <2>4, <2>8, <3>1 DEF Read
  <2> QED BY <2>6, <2>7, <2>8
<1> QED BY <1>1, Reads, PTL

LEMMA StartsAt ==
    ASSUME NEW S, NEW h \in Seq(S), NEW p \in Seq(S)
    PROVE  StartsWith(h, p) <=> Len(p) <= Len(h) /\ \A i \in 1..Len(p) : h[i] = p[i]
<1>1. PICK n \in Nat : n = Len(p)
  BY LenProperties
<1>2. CASE n <= Len(h)
  <2>1. PICK one : one \in Nat /\ one = 1 /\ one <= n + 1 /\ (n + 1) - one = n
                   /\ \A i \in 1..n : (one - 1) + i = i
    <3>1. 1 \in Nat /\ 1 <= n + 1 /\ (n + 1) - 1 = n /\ \A i \in 1..n : (1 - 1) + i = i
      OBVIOUS
    <3> QED BY <3>1, Zenon
  <2>2. /\ SubSeq(h, one, n) \in Seq(S) /\ Len(SubSeq(h, one, n)) = (n + 1) - one
        /\ \A i \in 1..((n + 1) - one) : SubSeq(h, one, n)[i] = h[(one - 1) + i]
    <3>1. n \in Nat /\ one \in Nat /\ 1 <= one /\ one <= n + 1 /\ n <= Len(h)
      BY <1>2, <2>1
    <3> QED BY <3>1, SubSeqOf, Zenon
  <2>3. PICK q \in Seq(S) : q = SubSeq(h, 1, n) /\ Len(q) = n /\ \A i \in 1..n : q[i] = h[i]
    <3>1. PICK r \in Seq(S) : /\ r = SubSeq(h, one, n) /\ Len(r) = (n + 1) - one
                              /\ \A i \in 1..((n + 1) - one) : r[i] = h[(one - 1) + i]
      BY <2>2, Zenon
    <3>2. Len(r) = n /\ \A i \in 1..n : r[i] = h[i]
      BY <2>1, <3>1
    <3>3. r = SubSeq(h, 1, n)
      BY <2>1, <3>1, Zenon
    <3> QED BY <3>2, <3>3, Zenon
  <2>4. q = p <=> \A i \in 1..n : h[i] = p[i]
    <3>1. (\A i \in 1..n : q[i] = p[i]) => q = p
      BY <1>1, <2>3, SeqEqual
    <3> QED BY <2>3, <3>1
  <2> QED BY <1>1, <1>2, <2>3, <2>4 DEF StartsWith
<1>3. CASE ~(n <= Len(h))
  BY <1>1, <1>3 DEF StartsWith
<1> QED BY <1>2, <1>3

LEMMA StartsConcat ==
    ASSUME NEW S, NEW a \in Seq(S), NEW b \in Seq(S)
    PROVE  StartsWith(a \o b, a)
<1>1. PICK c \in Seq(S) : c = a \o b
  BY ConcatProperties
<1>2. Len(c) = Len(a) + Len(b) /\ Len(a) \in Nat /\ Len(b) \in Nat
      /\ \A i \in 1..Len(a) : c[i] = a[i]
  BY <1>1, ConcatProperties, LenProperties
<1>3. StartsWith(c, a) <=> Len(a) <= Len(c) /\ \A i \in 1..Len(a) : c[i] = a[i]
  BY StartsAt
<1> QED BY <1>1, <1>2, <1>3

\* A link by how it begins.
LEMMA Absolute ==
    ASSUME NEW h \in Seq(Words), Len(h) >= 3
    PROVE  /\ h[1] = "https:" /\ h[2] = "/" /\ h[3] = "/" => AbsoluteURL(h) = h
           /\ h[1] = "/" /\ h[2] = "/" => AbsoluteURL(h) = <<"https:">> \o h
           /\ h[1] = "/" /\ h[2] # "/" => AbsoluteURL(h) = Base \o h
           /\ h[1] = "profile" => AbsoluteURL(h) = (Base \o <<"/">>) \o h
<1>1. "/" \in Words /\ "http:" \in Words /\ "https:" \in Words /\ <<>> \in Seq(Words)
  BY DEF Words
<1>2. PICK a \in Seq(Words) : a = <<"http:", "/", "/">>
  <2>1. <<"http:", "/", "/">> = Append(Append(Append(<<>>, "http:"), "/"), "/")
    OBVIOUS
  <2> QED BY <1>1, <2>1, AppendProperties
<1>3. PICK b \in Seq(Words) : b = <<"https:", "/", "/">>
  <2>1. <<"https:", "/", "/">> = Append(Append(Append(<<>>, "https:"), "/"), "/")
    OBVIOUS
  <2> QED BY <1>1, <2>1, AppendProperties
<1>4. PICK c \in Seq(Words) : c = <<"/", "/">>
  <2>1. <<"/", "/">> = Append(Append(<<>>, "/"), "/")
    OBVIOUS
  <2> QED BY <1>1, <2>1, AppendProperties
<1>5. PICK d \in Seq(Words) : d = <<"/">>
  <2>1. <<"/">> = Append(<<>>, "/")
    OBVIOUS
  <2> QED BY <1>1, <2>1, AppendProperties
<1>6. StartsWith(h, a) <=> h[1] = "http:" /\ h[2] = "/" /\ h[3] = "/"
  <2>1. StartsWith(h, a) <=> Len(a) <= Len(h) /\ \A i \in 1..Len(a) : h[i] = a[i]
    BY StartsAt
  <2>2. Len(a) = 3 /\ a[1] = "http:" /\ a[2] = "/" /\ a[3] = "/"
        /\ \A i \in 1..3 : i = 1 \/ i = 2 \/ i = 3
    BY <1>2
  <2> QED BY <2>1, <2>2
<1>7. StartsWith(h, b) <=> h[1] = "https:" /\ h[2] = "/" /\ h[3] = "/"
  <2>1. StartsWith(h, b) <=> Len(b) <= Len(h) /\ \A i \in 1..Len(b) : h[i] = b[i]
    BY StartsAt
  <2>2. Len(b) = 3 /\ b[1] = "https:" /\ b[2] = "/" /\ b[3] = "/"
        /\ \A i \in 1..3 : i = 1 \/ i = 2 \/ i = 3
    BY <1>3
  <2> QED BY <2>1, <2>2
<1>8. StartsWith(h, c) <=> h[1] = "/" /\ h[2] = "/"
  <2>1. StartsWith(h, c) <=> Len(c) <= Len(h) /\ \A i \in 1..Len(c) : h[i] = c[i]
    BY StartsAt
  <2>2. Len(c) = 2 /\ c[1] = "/" /\ c[2] = "/" /\ (\A i \in 1..2 : i = 1 \/ i = 2) /\ 2 <= Len(h)
    BY <1>4, LenProperties
  <2> QED BY <2>1, <2>2
<1>9. StartsWith(h, d) <=> h[1] = "/"
  <2>1. StartsWith(h, d) <=> Len(d) <= Len(h) /\ \A i \in 1..Len(d) : h[i] = d[i]
    BY StartsAt
  <2>2. Len(d) = 1 /\ d[1] = "/" /\ (\A i \in 1..1 : i = 1) /\ 1 <= Len(h)
    BY <1>5, LenProperties
  <2> QED BY <2>1, <2>2
<1>10. h # <<>>
  OBVIOUS
<1>11. AbsoluteURL(h) =
         CASE h = <<>> -> <<>>
           [] StartsWith(h, a) \/ StartsWith(h, b) -> h
           [] StartsWith(h, c) -> <<"https:">> \o h
           [] StartsWith(h, d) /\ ~StartsWith(h, c) -> Base \o h
           [] OTHER -> (Base \o <<"/">>) \o h
  BY <1>2, <1>3, <1>4, <1>5 DEF AbsoluteURL
<1>12. CASE h[1] = "https:" /\ h[2] = "/" /\ h[3] = "/"
  BY <1>6, <1>7, <1>8, <1>9, <1>10, <1>11, <1>12
<1>13. CASE h[1] = "/" /\ h[2] = "/"
  BY <1>6, <1>7, <1>8, <1>9, <1>10, <1>11, <1>13
<1>14. CASE h[1] = "/" /\ h[2] # "/"
  BY <1>6, <1>7, <1>8, <1>9, <1>10, <1>11, <1>14
<1>15. CASE h[1] = "profile"
  BY <1>6, <1>7, <1>8, <1>9, <1>10, <1>11, <1>15
<1> QED BY <1>12, <1>13, <1>14, <1>15

\* One sequence behind another, and what stands where in the two of them.
Joined(c, a, b) == c = a \o b
Parts(c, a, b) ==
    /\ Len(c) = Len(a) + Len(b)
    /\ \A i \in 1..Len(a) : c[i] = a[i]
    /\ \A i \in 1..Len(b) : c[Len(a) + i] = b[i]

LEMMA JoinedParts ==
    ASSUME NEW S, NEW a \in Seq(S), NEW b \in Seq(S), NEW c, Joined(c, a, b)
    PROVE  c \in Seq(S) /\ Parts(c, a, b)
<1>1. Len(a) \in Nat /\ Len(b) \in Nat
  BY LenProperties
<1>2. PICK m \in Nat, n \in Nat : m = Len(a) /\ n = Len(b)
  BY <1>1
<1>3. /\ \A i \in 1..m : i \in 1..(m + n) /\ i <= m
      /\ \A i \in 1..n : m + i \in 1..(m + n) /\ ~(m + i <= m) /\ (m + i) - m = i
  OBVIOUS
<1>4. c \in Seq(S) /\ Len(c) = m + n
      /\ \A i \in 1..(m + n) : c[i] = IF i <= m THEN a[i] ELSE b[i - m]
  BY <1>2, ConcatProperties DEF Joined
<1>5. \A i \in 1..m : c[i] = a[i]
  BY <1>3, <1>4
<1>6. \A i \in 1..n : c[m + i] = b[i]
  BY <1>3, <1>4
<1> QED BY <1>2, <1>4, <1>5, <1>6, Zenon DEF Parts

LEMMA Regroup ==
    ASSUME NEW S, NEW a \in Seq(S), NEW b \in Seq(S), NEW c \in Seq(S),
           NEW u, Joined(u, a, b), NEW v, Joined(v, b, c)
    PROVE  \A z : Joined(z, a, v) <=> Joined(z, u, c)
<1>1. (a \o b) \o c = a \o (b \o c)
  BY ConcatAssociative
<1> QED BY <1>1, Zenon DEF Joined

LEMMA Restored ==
    ASSUME NEW S, NEW s \in Seq(S), s # <<>>, NEW a \in Seq(S), Len(a) = 1, a[1] = s[1]
    PROVE  a \o Tail(s) = s
<1>1. PICK t : t = Tail(s)
  OBVIOUS
<1>2. t \in Seq(S) /\ Len(t) = Len(s) - 1 /\ \A i \in 1..Len(t) : t[i] = s[i + 1]
  BY <1>1, HeadTailProperties
<1>3. PICK n \in Nat : n = Len(t) /\ Len(s) = 1 + n
  <2>1. Len(t) \in Nat /\ Len(s) \in Nat
    BY <1>2, LenProperties
  <2> QED BY <1>2, <2>1
<1>4. PICK z : Joined(z, a, t)
  BY DEF Joined
<1>5. z \in Seq(S) /\ Parts(z, a, t)
  BY <1>2, <1>4, JoinedParts, Zenon
<1>6. Len(z) = 1 + n /\ z[1] = s[1] /\ \A j \in 1..n : z[1 + j] = s[j + 1]
  BY <1>2, <1>3, <1>5 DEF Parts
<1>7. \A i \in 1..(1 + n) : i = 1 \/ (i - 1 \in 1..n /\ 1 + (i - 1) = i /\ (i - 1) + 1 = i)
  OBVIOUS
<1>8. \A i \in 1..(1 + n) : z[i] = s[i]
  BY <1>6, <1>7
<1>9. z = s
  BY <1>3, <1>5, <1>6, <1>8, SeqEqual
<1> QED BY <1>1, <1>4, <1>9, Zenon DEF Joined

\* A word, two or three of them, as sequences.
LEMMA Written ==
    ASSUME NEW a \in Words, NEW b \in Words, NEW c \in Words
    PROVE  /\ <<a>> \in Seq(Words) /\ <<a, b>> \in Seq(Words) /\ <<a, b, c>> \in Seq(Words)
           /\ <<a>> \o <<b, c>> = <<a, b, c>>
<1>1. <<>> \in Seq(Words) /\ <<a>> = Append(<<>>, a) /\ <<a, b>> = Append(<<a>>, b)
      /\ <<a, b, c>> = Append(<<a, b>>, c)
  OBVIOUS
<1>2. <<a>> \in Seq(Words) /\ <<a, b>> \in Seq(Words) /\ <<a, b, c>> \in Seq(Words)
  BY <1>1, AppendProperties
<1>3. PICK z : Joined(z, <<a>>, <<b, c>>)
  BY DEF Joined
<1>4. <<b, c>> \in Seq(Words)
  <2>1. <<b>> = Append(<<>>, b) /\ <<b, c>> = Append(<<b>>, c)
    OBVIOUS
  <2> QED BY <1>1, <2>1, AppendProperties
<1>5. z \in Seq(Words) /\ Parts(z, <<a>>, <<b, c>>)
  BY <1>2, <1>3, <1>4, JoinedParts, Zenon
<1>6. Len(z) = 3 /\ z[1] = a /\ z[2] = b /\ z[3] = c
  <2>1. Len(<<a>>) = 1 /\ Len(<<b, c>>) = 2 /\ <<a>>[1] = a /\ <<b, c>>[1] = b /\ <<b, c>>[2] = c
    OBVIOUS
  <2>2. 1 \in 1..1 /\ 1 \in 1..2 /\ 2 \in 1..2
    OBVIOUS
  <2> QED BY <1>5, <2>1, <2>2 DEF Parts
<1>7. PICK y \in Seq(Words) : y = <<a, b, c>> /\ Len(y) = 3 /\ y[1] = a /\ y[2] = b /\ y[3] = c
  BY <1>2
<1>8. \A i \in 1..3 : z[i] = y[i]
  <2>1. \A i \in 1..3 : i = 1 \/ i = 2 \/ i = 3
    OBVIOUS
  <2> QED BY <1>6, <1>7, <2>1
<1>9. z = y
  BY <1>5, <1>6, <1>7, <1>8, SeqEqual
<1> QED BY <1>2, <1>3, <1>7, <1>9, Zenon DEF Joined

LEMMA Literals ==
    /\ <<"https:">> \o Tail(Base) = Base
    /\ <<"/">> \o <<"profile", "/">> = <<"/", "profile", "/">>
    /\ <<"/">> \in Seq(Words) /\ <<"https:">> \in Seq(Words) /\ <<"?", "chart">> \in Seq(Words)
    /\ Tail(Base)[1] = "/" /\ Tail(Base)[2] = "/"
<1>1. "/" \in Words /\ "https:" \in Words /\ "?" \in Words /\ "chart" \in Words
      /\ "profile" \in Words
  BY DEF Words
<1>2. <<"/">> \in Seq(Words) /\ <<"https:">> \in Seq(Words) /\ <<"?", "chart">> \in Seq(Words)
      /\ <<"/">> \o <<"profile", "/">> = <<"/", "profile", "/">>
  BY <1>1, Written, Zenon
<1>3. PICK b \in Seq(Words) : b = Base /\ b # <<>> /\ Len(b) = 4 /\ b[1] = "https:"
                              /\ b[2] = "/" /\ b[3] = "/"
  BY WaysTo DEF Base
<1>4. Tail(b)[1] = "/" /\ Tail(b)[2] = "/"
  <2>1. Len(Tail(b)) = 4 - 1 /\ \A i \in 1..Len(Tail(b)) : Tail(b)[i] = b[i + 1]
    BY <1>3, HeadTailProperties
  <2>2. 1 \in 1..Len(Tail(b)) /\ 2 \in 1..Len(Tail(b)) /\ 1 + 1 = 2 /\ 2 + 1 = 3
    BY <2>1
  <2> QED BY <1>3, <2>1, <2>2
<1>5. <<"https:">> \o Tail(b) = b
  <2>1. PICK a \in Seq(Words) : a = <<"https:">> /\ Len(a) = 1 /\ a[1] = b[1]
    BY <1>2, <1>3
  <2> QED BY <1>3, <2>1, Restored
<1> QED BY <1>2, <1>3, <1>4, <1>5, Zenon

ProfilePath == <<"/", "profile", "/">>

\* The links, as far as the name and what follows it.
LEMMA FromPage ==
    ASSUME NEW k \in Seq(Words), k # <<>>, NEW h, Joined(h, <<"profile", "/">>, k),
           NEW p, Joined(p, Base, ProfilePath)
    PROVE  Joined(AbsoluteURL(h), p, k)
<1>1. PICK r \in Seq(Words) : r = <<"profile", "/">> /\ Len(r) = 2 /\ r[1] = "profile"
  BY WaysTo
<1>2. h \in Seq(Words) /\ Parts(h, r, k)
  BY <1>1, JoinedParts, Zenon
<1>3. Len(k) \in Nat /\ Len(k) # 0
  BY EmptySeq, LenProperties
<1>4. Len(h) >= 3 /\ h[1] = "profile"
  BY <1>1, <1>2, <1>3 DEF Parts
<1>5. AbsoluteURL(h) = (Base \o <<"/">>) \o h
  BY <1>2, <1>4, Absolute, Zenon
<1>6. PICK b \in Seq(Words) : b = Base
  BY WaysTo
<1>7. PICK d \in Seq(Words) : d = <<"/">>
  BY Literals
<1>8. PICK bd : Joined(bd, b, d)
  BY DEF Joined
<1>9. Joined(ProfilePath, d, r)
  BY <1>1, <1>7, Literals, Zenon DEF ProfilePath, Joined
<1>10. Joined(p, bd, r)
  BY <1>6, <1>8, <1>9, Regroup
<1>11. bd \in Seq(Words)
  BY <1>8, JoinedParts, Zenon
<1>12. \A z : Joined(z, bd, h) <=> Joined(z, p, k)
  <2>1. Joined(h, r, k)
    BY <1>1, Zenon
  <2> QED BY <1>10, <1>11, <2>1, Regroup
<1>13. Joined(AbsoluteURL(h), bd, h)
  BY <1>5, <1>6, <1>7, <1>8, Zenon DEF Joined
<1> QED BY <1>12, <1>13

LEMMA FromRoot ==
    ASSUME NEW k \in Seq(Words), k # <<>>, NEW h, Joined(h, ProfilePath, k)
    PROVE  Joined(AbsoluteURL(h), Base, h)
<1>1. PICK r \in Seq(Words) : r = ProfilePath /\ Len(r) = 3 /\ r[1] = "/" /\ r[2] = "profile"
  BY WaysTo DEF ProfilePath
<1>2. h \in Seq(Words) /\ Parts(h, r, k)
  BY <1>1, JoinedParts, Zenon
<1>3. Len(k) \in Nat
  BY LenProperties
<1>4. Len(h) >= 3 /\ h[1] = "/" /\ h[2] # "/"
  BY <1>1, <1>2, <1>3 DEF Parts
<1> QED BY <1>2, <1>4, Absolute, Zenon DEF Joined

LEMMA FromScheme ==
    ASSUME NEW z \in Seq(Words), NEW h, Joined(h, Base, z)
    PROVE  AbsoluteURL(h) = h
<1>1. PICK b \in Seq(Words) : b = Base /\ Len(b) = 4 /\ b[1] = "https:" /\ b[2] = "/" /\ b[3] = "/"
  BY WaysTo DEF Base
<1>2. h \in Seq(Words) /\ Parts(h, b, z)
  BY <1>1, JoinedParts, Zenon
<1>3. Len(z) \in Nat
  BY LenProperties
<1>4. Len(h) >= 3 /\ h[1] = "https:" /\ h[2] = "/" /\ h[3] = "/"
  BY <1>1, <1>2, <1>3 DEF Parts
<1> QED BY <1>2, <1>4, Absolute, Zenon

LEMMA FromHost ==
    ASSUME NEW z \in Seq(Words), NEW h, Joined(h, Tail(Base), z)
    PROVE  Joined(AbsoluteURL(h), Base, z)
<1>1. PICK b \in Seq(Words) : b = Tail(Base) /\ Len(b) = 3 /\ b[1] = "/" /\ b[2] = "/"
  BY WaysTo, Literals
<1>2. h \in Seq(Words) /\ Parts(h, b, z)
  BY <1>1, JoinedParts, Zenon
<1>3. Len(z) \in Nat
  BY LenProperties
<1>4. Len(h) >= 3 /\ h[1] = "/" /\ h[2] = "/"
  <2>1. 1 \in 1..Len(b) /\ 2 \in 1..Len(b)
    <3>1. 1 \in 1..3 /\ 2 \in 1..3
      OBVIOUS
    <3> QED BY <1>1, <3>1, Zenon
  <2>2. h[1] = b[1] /\ h[2] = b[2] /\ Len(h) = 3 + Len(z)
    BY <1>1, <1>2, <2>1, Zenon DEF Parts
  <2> QED BY <1>1, <1>3, <2>2
<1>5. AbsoluteURL(h) = <<"https:">> \o h
  BY <1>2, <1>4, Absolute, Zenon
<1>6. PICK e \in Seq(Words) : e = <<"https:">>
  BY Literals
<1>7. Joined(Base, e, b)
  BY <1>1, <1>6, Literals, Zenon DEF Joined
<1>8. \A y : Joined(y, e, h) <=> Joined(y, Base, z)
  <2>1. Joined(h, b, z)
    BY <1>1, Zenon
  <2> QED BY <1>7, <2>1, Regroup
<1>9. Joined(AbsoluteURL(h), e, h)
  BY <1>5, <1>6, Zenon DEF Joined
<1> QED BY <1>8, <1>9

\* A link begins with the page of its instrument, in full.
LEMMA ProfileOf ==
    ASSUME NEW x \in Instruments, NEW style \in Styles
    PROVE  StartsWith(AbsoluteURL(HrefOf(x, style)), (Base \o ProfilePath) \o x.key)
<1>1. PICK k \in Seq(Words) : k = x.key /\ k # <<>>
  BY WordsOf
<1>2. PICK b \in Seq(Words) : b = Base
  BY WaysTo
<1>3. PICK r \in Seq(Words) : r = ProfilePath
  BY WaysTo DEF ProfilePath
<1>4. PICK o \in Seq(Words) : o = <<"profile", "/">>
  BY WaysTo
<1>5. PICK p : Joined(p, b, r)
  BY DEF Joined
<1>6. p \in Seq(Words)
  BY <1>5, JoinedParts, Zenon
<1>7. PICK g : Joined(g, p, k)
  BY DEF Joined
<1>8. g \in Seq(Words)
  BY <1>6, <1>7, JoinedParts, Zenon
<1>9. StartsWith(g, g)
  BY <1>8, StartsAt
<1>10. PICK z : Joined(z, r, k)
  BY DEF Joined
<1>11. z \in Seq(Words)
  BY <1>10, JoinedParts, Zenon
<1>12. \A y : Joined(y, b, z) <=> Joined(y, p, k)
  BY <1>5, <1>10, Regroup
<1> DEFINE a == AbsoluteURL(HrefOf(x, style))
<1> SUFFICES StartsWith(a, g)
  BY <1>1, <1>2, <1>3, <1>5, <1>7, Zenon DEF Joined
<1>13. style.link \in {"relative", "rooted", "absolute", "schemeless", "query", "slash"}
  BY DEF Styles
<1>14. CASE style.link = "relative"
  <2>1. Joined(HrefOf(x, style), o, k)
    BY <1>1, <1>4, <1>14 DEF HrefOf, Joined
  <2>2. Joined(a, p, k)
    BY <1>1, <1>2, <1>3, <1>4, <1>5, <2>1, FromPage, Zenon
  <2> QED BY <1>7, <1>9, <2>2, Zenon DEF Joined
<1>15. CASE style.link = "rooted"
  <2>1. HrefOf(x, style) = z
    BY <1>1, <1>3, <1>10, <1>15 DEF HrefOf, ProfilePath, Joined
  <2>2. Joined(a, b, z)
    BY <1>1, <1>2, <1>3, <1>10, <2>1, FromRoot, Zenon
  <2>3. Joined(a, p, k)
    BY <1>12, <2>2
  <2> QED BY <1>7, <1>9, <2>3, Zenon DEF Joined
<1>16. CASE style.link = "absolute"
  <2>1. HrefOf(x, style) = g
    BY <1>1, <1>2, <1>3, <1>5, <1>7, <1>16 DEF HrefOf, ProfilePath, Joined
  <2>2. Joined(g, b, z)
    BY <1>7, <1>12
  <2>3. AbsoluteURL(g) = g
    BY <1>2, <1>11, <2>2, FromScheme, Zenon
  <2> QED BY <1>9, <2>1, <2>3, Zenon
<1>17. CASE style.link = "schemeless"
  <2>1. PICK c \in Seq(Words) : c = Tail(Base)
    BY WaysTo
  <2>2. PICK d : Joined(d, c, r)
    BY DEF Joined
  <2>3. Joined(HrefOf(x, style), d, k)
    BY <1>1, <1>3, <1>17, <2>1, <2>2 DEF HrefOf, ProfilePath, Joined
  <2>4. Joined(HrefOf(x, style), c, z)
    <3>1. \A y : Joined(y, c, z) <=> Joined(y, d, k)
      BY <1>10, <2>2, Regroup
    <3> QED BY <2>3, <3>1
  <2>5. Joined(a, b, z)
    BY <1>2, <1>11, <2>1, <2>4, FromHost, Zenon
  <2>6. Joined(a, p, k)
    BY <1>12, <2>5
  <2> QED BY <1>7, <1>9, <2>6, Zenon DEF Joined
<1>18. ASSUME NEW more \in Seq(Words), NEW n, Joined(n, o, k),
              Joined(HrefOf(x, style), n, more)
       PROVE  StartsWith(a, g)
  <2>1. PICK m : Joined(m, k, more)
    BY DEF Joined
  <2>2. m \in Seq(Words) /\ Parts(m, k, more)
    BY <2>1, JoinedParts, Zenon
  <2>3. m # <<>>
    <3>1. Len(k) \in Nat /\ Len(more) \in Nat /\ Len(k) # 0
      BY <1>1, EmptySeq, LenProperties
    <3>2. Len(m) # 0
      BY <2>2, <3>1 DEF Parts
    <3> QED BY <3>2
  <2>4. Joined(HrefOf(x, style), o, m)
    <3>1. \A y : Joined(y, o, m) <=> Joined(y, n, more)
      BY <1>18, <2>1, Regroup
    <3> QED BY <1>18, <3>1
  <2>5. Joined(a, p, m)
    BY <1>2, <1>3, <1>4, <1>5, <2>2, <2>3, <2>4, FromPage, Zenon
  <2>6. Joined(a, g, more)
    <3>1. \A y : Joined(y, p, m) <=> Joined(y, g, more)
      BY <1>6, <1>7, <2>1, Regroup
    <3> QED BY <2>5, <3>1
  <2>7. StartsWith(g \o more, g)
    BY <1>8, StartsConcat
  <2> QED BY <2>6, <2>7, Zenon DEF Joined
<1>19. PICK n : Joined(n, o, k)
  BY DEF Joined
<1>20. CASE style.link = "query"
  <2>1. Joined(HrefOf(x, style), n, <<"?", "chart">>)
    BY <1>1, <1>4, <1>19, <1>20 DEF HrefOf, Joined
  <2> QED BY <1>18, <1>19, <2>1, Literals, Zenon
<1>21. CASE style.link = "slash"
  <2>1. Joined(HrefOf(x, style), n, <<"/">>)
    BY <1>1, <1>4, <1>19, <1>21 DEF HrefOf, Joined
  <2> QED BY <1>18, <1>19, <2>1, Literals, Zenon
<1> QED BY <1>13, <1>14, <1>15, <1>16, <1>17, <1>20, <1>21

\* The rows of a snapshot are the rows of the board, in order, each under its
\* section's caption and with the link to its own page.
THEOREM EveryInstrumentKept == QuerySpec => []InstrumentsKept
<1>1. ReadInv => InstrumentsKept
  <2> SUFFICES ASSUME ReadInv, Read PROVE RowsKept /\ ProfileReached
    BY DEF InstrumentsKept
  <2>1. published \in Publications /\ result.kind = "snapshot"
    BY DEF ReadInv, Read
  <2>2. PICK style \in Styles : style = published.style
    BY <2>1, PublicationsAssumption
  <2>3. Items = Image(ItemOf(style), Listed) /\ Listed \in Seq(Entries)
        /\ Len(Items) = Len(Listed)
    <3>1. result.kind # "pending"
      BY <2>1
    <3>2. result = Outcome
      <4>1. result # Pending
        BY <3>1 DEF Pending
      <4> QED BY <4>1 DEF ReadInv
    <3>3. result.categories = Snapshot
      <4>1. Error("ErrNoTables").kind # "snapshot" /\ Error("ErrEmpty").kind # "snapshot"
        BY DEF Error
      <4>2. Outcome = [kind |-> "snapshot", categories |-> Snapshot]
        BY <2>1, <3>2, <4>1 DEF Outcome
      <4> QED BY <3>2, <4>2
    <3> QED BY <2>1, <2>2, <3>3, ItemsListed, Zenon DEF Items
  <2>4. ASSUME NEW i \in DOMAIN Items
        PROVE  /\ Items[i].key = Listed[i].instrument.key
               /\ Items[i].title = Listed[i].instrument.title
               /\ Items[i].category = Listed[i].caption
               /\ \/ style.short
                  \/ StartsWith(Items[i].profile,
                                Base \o <<"/", "profile", "/">> \o Listed[i].instrument.key)
    <3>1. i \in 1..Len(Listed)
      BY <2>3, <2>4 DEF Image
    <3>2. PICK e \in Entries : e = Listed[i]
      BY <2>3, <3>1, ElementOfSeq
    <3>3. PICK x \in Instruments : x = e.instrument
      BY DEF Entries
    <3>4. PICK row : row = ReadRow(RowOf(x, style), Layout(style))
      OBVIOUS
    <3>5. Items[i] = ItemFrom(e.caption, row)
      BY <2>3, <3>1, <3>2, <3>3, <3>4 DEF Image, ItemOf, Reading
    <3>6. /\ row.slug = x.key /\ row.title = x.title
          /\ row.profile = IF style.short THEN <<>> ELSE HrefOf(x, style)
      BY <3>4, RowRead
    <3>7. /\ Items[i].key = row.slug /\ Items[i].title = row.title
          /\ Items[i].category = e.caption /\ Items[i].profile = AbsoluteURL(row.profile)
      BY <3>5 DEF ItemFrom
    <3>8. style.short \in BOOLEAN
      BY DEF Styles
    <3>9. style.short \/ StartsWith(Items[i].profile, (Base \o ProfilePath) \o x.key)
      BY <3>6, <3>7, <3>8, ProfileOf, Zenon
    <3> QED BY <3>2, <3>3, <3>6, <3>7, <3>9, Zenon DEF ProfilePath
  <2> QED BY <2>2, <2>3, <2>4, Zenon DEF RowsKept, ProfileReached
<1> QED BY <1>1, Reads, PTL

----------------------------------------------------------------------------
(* What an answer selects.                                                   *)

LEMMA AtImage ==
    ASSUME NEW S, NEW g, NEW s \in Seq(S), NEW W
    PROVE  At(Image(g, s), W) = Image(g, At(s, W))
<1>0. PICK T : Maps(g, S, T)
  BY Mapped
<1> DEFINE X == {u \in Seq(S) : At(Image(g, u), W) = Image(g, At(u, W))}
<1>1. <<>> \in X
  BY ImageEmpty, AtEmpty
<1>2. ASSUME NEW u \in Seq(S), NEW e \in S, u \in X PROVE Append(u, e) \in X
  <2>1. PICK v \in Seq(T) : v = Image(g, u)
    BY <1>0, ImageType
  <2>2. g[e] \in T /\ Len(v) = Len(u)
    BY <1>0, <2>1, ImageLen DEF Maps
  <2>3. At(Append(v, g[e]), W) = IF Len(v) + 1 \in W THEN Append(At(v, W), g[e]) ELSE At(v, W)
    <3>1. \A y \in Seq(T), d \in T :
             At(Append(y, d), W) = IF Len(y) + 1 \in W THEN Append(At(y, W), d) ELSE At(y, W)
      BY AtAppend
    <3> QED BY <2>2, <3>1, Zenon
  <2>4. At(Append(u, e), W) = IF Len(u) + 1 \in W THEN Append(At(u, W), e) ELSE At(u, W)
    BY AtAppend
  <2>5. Image(g, Append(u, e)) = Append(Image(g, u), g[e])
    BY ImageAppend
  <2>6. Image(g, Append(At(u, W), e)) = Append(Image(g, At(u, W)), g[e])
    BY AtType, ImageAppend
  <2>7. At(v, W) = Image(g, At(u, W))
    BY <1>2, <2>1
  <2>8. Append(u, e) \in Seq(S)
    BY AppendProperties
  <2>9. At(Image(g, Append(u, e)), W) = Image(g, At(Append(u, e), W))
    <3>1. CASE Len(u) + 1 \in W
      BY <2>1, <2>2, <2>3, <2>4, <2>5, <2>6, <2>7, <3>1, Zenon
    <3>2. CASE Len(u) + 1 \notin W
      BY <2>1, <2>2, <2>3, <2>4, <2>5, <2>7, <3>2, Zenon
    <3> QED BY <3>1, <3>2
  <2> QED BY <2>8, <2>9
<1> HIDE DEF X
<1>3. s \in X
  BY <1>1, <1>2, SeqInduct
<1> QED BY <1>3 DEF X

\* Choosing from the images by an index set that is a condition on the elements.
LEMMA AtImageOnly ==
    ASSUME NEW S, NEW g, NEW s \in Seq(S), NEW W, NEW Q,
           \A i \in 1..Len(s) : i \in W <=> s[i] \in Q
    PROVE  At(Image(g, s), W) = Image(g, Only(s, Q))
<1> DEFINE V == {i \in 1..Len(s) : s[i] \in Q}
<1>1. \A i \in 1..Len(s) : i \in W <=> i \in V
  OBVIOUS
<1> HIDE DEF V
<1>2. At(s, W) = At(s, V)
  BY <1>1, AtSame
<1>3. At(s, V) = Only(s, Q)
  BY DEF Only, V
<1>4. At(Image(g, s), W) = Image(g, At(s, W))
  BY AtImage
<1> QED BY <1>2, <1>3, <1>4, Zenon

LEMMA OnlyIn ==
    ASSUME NEW S, NEW s \in Seq(S), NEW P
    PROVE  \A i \in 1..Len(Only(s, P)) : Only(s, P)[i] \in S /\ Only(s, P)[i] \in P
<1> DEFINE R == {x \in S : x \in P}
           X == {u \in Seq(S) : Only(u, P) \in Seq(R)}
<1>1. <<>> \in X
  <2> HIDE DEF R
  <2>1. <<>> \in Seq(S) /\ <<>> \in Seq(R)
    OBVIOUS
  <2>2. Only(<<>>, P) = <<>>
    BY OnlyEmpty
  <2> QED BY <2>1, <2>2
<1>2. ASSUME NEW u \in Seq(S), NEW e \in S, u \in X PROVE Append(u, e) \in X
  <2>1. Append(u, e) \in Seq(S)
    BY AppendProperties
  <2>2. Only(Append(u, e), P) = IF e \in P THEN Append(Only(u, P), e) ELSE Only(u, P)
    BY OnlyAppend
  <2>3. Only(u, P) \in Seq(R) /\ (e \in P => e \in R)
    BY <1>2
  <2>4. e \in P => Append(Only(u, P), e) \in Seq(R)
    <3> HIDE DEF R
    <3> QED BY <2>3, AppendProperties
  <2> QED BY <2>1, <2>2, <2>3, <2>4
<1> HIDE DEF X
<1>3. s \in X
  BY <1>1, <1>2, SeqInduct
<1>4. Only(s, P) \in Seq(R)
  BY <1>3 DEF X
<1>5. \A i \in 1..Len(Only(s, P)) : Only(s, P)[i] \in R
  <2> HIDE DEF R
  <2> QED BY <1>4, ElementOfSeq
<1> QED BY <1>5

\* The first element that lies in the set is the first that is left.
First(s, n, P) == s[n] \in P /\ \A j \in 1..Len(s) : j < n => s[j] \notin P
LEMMA OnlyFirst ==
    ASSUME NEW S, NEW s \in Seq(S), NEW P
    PROVE  \A n \in 1..Len(s) :
             First(s, n, P) => Len(Only(s, P)) >= 1 /\ Only(s, P)[1] = s[n]
<1> DEFINE X == {u \in Seq(S) : \A n \in 1..Len(u) :
                    First(u, n, P) => Len(Only(u, P)) >= 1 /\ Only(u, P)[1] = u[n]}
<1>1. <<>> \in X
  OBVIOUS
<1>2. ASSUME NEW u \in Seq(S), NEW e \in S, u \in X PROVE Append(u, e) \in X
  <2>1. PICK v \in Seq(S) : v = Append(u, e)
    BY AppendProperties
  <2>2. Len(v) = Len(u) + 1 /\ Len(u) \in Nat
        /\ (\A i \in 1..Len(u) : v[i] = u[i]) /\ v[Len(u) + 1] = e
    BY <2>1, AppendProperties, LenProperties
  <2>3. PICK w \in Seq(S) : w = Only(u, P)
    BY OnlyType
  <2>4. Only(v, P) = IF e \in P THEN Append(w, e) ELSE w
    BY <2>1, <2>3, OnlyAppend
  <2>5. /\ Len(Append(w, e)) = Len(w) + 1 /\ Len(w) \in Nat
        /\ \A i \in 1..Len(w) : Append(w, e)[i] = w[i]
        /\ Append(w, e)[Len(w) + 1] = e
    BY AppendProperties, LenProperties
  <2>6. ASSUME NEW n \in 1..Len(v), First(v, n, P)
        PROVE  Len(Only(v, P)) >= 1 /\ Only(v, P)[1] = v[n]
    <3>1. CASE n = Len(u) + 1
      <4>1. \A i \in 1..Len(u) : u[i] \notin P
        BY <2>2, <2>6, <3>1 DEF First
      <4>2. w = <<>>
        BY <2>3, <4>1, OnlyNone
      <4>3. e \in P
        BY <2>2, <2>6, <3>1 DEF First
      <4>4. Len(w) = 0
        BY <4>2
      <4> QED BY <2>2, <2>4, <2>5, <3>1, <4>3, <4>4
    <3>2. CASE n # Len(u) + 1
      <4>1. n \in 1..Len(u)
        BY <2>2, <3>2
      <4>2. First(u, n, P)
        BY <2>2, <2>6, <4>1 DEF First
      <4>3. Len(w) >= 1 /\ w[1] = u[n]
        BY <1>2, <2>3, <4>1, <4>2
      <4>4. Append(w, e)[1] = w[1] /\ Len(Append(w, e)) >= 1
        BY <2>5, <4>3
      <4> QED BY <2>2, <2>4, <4>1, <4>3, <4>4
    <3> QED BY <3>1, <3>2
  <2> QED BY <2>1, <2>6
<1> HIDE DEF X
<1>3. s \in X
  BY <1>1, <1>2, SeqInduct
<1> QED BY <1>3 DEF X

LEMMA FlattenOne ==
    ASSUME NEW S, NEW s \in Seq(S)
    PROVE  FlattenSeq(<<s>>) = s
<1>1. <<>> \in Seq(Seq(S)) /\ <<s>> = Append(<<>>, s)
  OBVIOUS
<1>2. FlattenSeq(Append(<<>>, s)) = FlattenSeq(<<>>) \o s
  BY <1>1, FlattenAppend
<1>3. <<>> \o s = s
  BY ConcatEmptySeq
<1> QED BY <1>1, <1>2, <1>3, FlattenEmpty, Zenon

\* The rows that are left of each section, the groups they are given in, and
\* the sections that have any.
KeptOf(W) == [s \in Sections |-> Only(Captioned[s], W)]
Held(h, W) == [s \in Sections |-> Group(s.title, Image(h, KeptOf(W)[s]))]
Picked(z, u, W) ==
    /\ z \in Seq(Sections)
    /\ FlattenSeq(Image(KeptOf(W), z)) = Only(FlattenSeq(Image(Captioned, u)), W)
    /\ \A i \in 1..Len(z) : KeptOf(W)[z[i]] # <<>>

\* Rows that tell of entries; groups whose rows stand under their own caption.
Tells(h) == \A e \in Entries : h[e].key = e.instrument.key /\ h[e].category = e.caption
Given(items, es) ==
    /\ Len(items) = Len(es)
    /\ \A i \in DOMAIN items : /\ items[i].key = es[i].instrument.key
                               /\ items[i].category = es[i].caption
Headed(groups) ==
    \A i \in DOMAIN groups :
        LET g == groups[i]
            captions == {g.items[j].category : j \in DOMAIN g.items}
        IN g.title # "" => captions = {g.title}

LEMMA GivenImage ==
    ASSUME NEW h, Tells(h), NEW es \in Seq(Entries)
    PROVE  Given(Image(h, es), es)
<1>1. Len(Image(h, es)) = Len(es) /\ DOMAIN Image(h, es) = 1..Len(es)
  BY ImageLen DEF Image
<1>2. \A i \in 1..Len(es) : es[i] \in Entries /\ Image(h, es)[i] = h[es[i]]
  BY ElementOfSeq DEF Image
<1> QED BY <1>1, <1>2 DEF Given, Tells

LEMMA KeptType ==
    ASSUME NEW W
    PROVE  /\ Lists(KeptOf(W), Sections, Entries)
           /\ \A s \in Sections : \A i \in 1..Len(KeptOf(W)[s]) :
                 KeptOf(W)[s][i].caption = s.title
<1>1. ASSUME NEW s \in Sections
      PROVE  /\ KeptOf(W)[s] \in Seq(Entries)
             /\ \A i \in 1..Len(KeptOf(W)[s]) : KeptOf(W)[s][i].caption = s.title
  <2> DEFINE R == {e \in Entries : e.caption = s.title}
  <2>1. Captioned[s] \in Seq(Entries) /\ Len(Captioned[s]) = Len(s.instruments)
        /\ Len(s.instruments) \in Nat
    BY CaptionedType, SectionType, LenProperties DEF Lists
  <2>2. \A i \in 1..Len(s.instruments) : Captioned[s][i].caption = s.title
    BY DEF Captioned
  <2>3. \A i \in 1..Len(Captioned[s]) : Captioned[s][i] \in R
    BY <2>1, <2>2, ElementOfSeq
  <2>4. KeptOf(W)[s] = Only(Captioned[s], W)
    BY DEF KeptOf
  <2> HIDE DEF R
  <2>5. Captioned[s] \in Seq(R)
    BY <2>1, <2>3
  <2>6. Only(Captioned[s], W) \in Seq(R) /\ Only(Captioned[s], W) \in Seq(Entries)
    BY <2>1, <2>5, OnlyType
  <2>7. \A i \in 1..Len(Only(Captioned[s], W)) : Only(Captioned[s], W)[i] \in R
    BY <2>6, ElementOfSeq
  <2> QED BY <2>4, <2>6, <2>7 DEF R
<1> QED BY <1>1 DEF Lists

LEMMA GroupsAre ==
    ASSUME NEW h, NEW u, NEW W, NEW z, Tells(h), Picked(z, u, W),
           NEW groups, groups = Image(Held(h, W), z)
    PROVE  /\ All(groups) = Image(h, Only(FlattenSeq(Image(Captioned, u)), W))
           /\ Headed(groups)
<1>1. z \in Seq(Sections) /\ Lists(KeptOf(W), Sections, Entries)
  BY KeptType DEF Picked
<1> DEFINE k == [s \in Sections |-> Image(h, KeptOf(W)[s])]
<1>2. \A s \in Sections : k[s] = Image(h, KeptOf(W)[s])
  OBVIOUS
<1>3. \A s \in Sections : Held(h, W)[s].title = s.title /\ Held(h, W)[s].items = k[s]
  BY DEF Held, Group
<1> HIDE DEF k
<1>4. DOMAIN groups = 1..Len(z) /\ \A i \in 1..Len(z) : z[i] \in Sections
      /\ groups[i] = Held(h, W)[z[i]]
  BY <1>1, ElementOfSeq DEF Image
<1>5. All(groups) = FlattenSeq(Image(k, z))
  BY <1>3, <1>4, Zenon DEF All, Image
<1>6. FlattenSeq(Image(k, z)) = Image(h, FlattenSeq(Image(KeptOf(W), z)))
  BY <1>1, <1>2, FlattenImage
<1>7. ASSUME NEW i \in 1..Len(z)
      PROVE  {groups[i].items[j].category : j \in DOMAIN groups[i].items} = {groups[i].title}
  <2>1. PICK s \in Sections : s = z[i]
    BY <1>4
  <2>2. PICK c \in Seq(Entries) : c = KeptOf(W)[s]
    BY <1>1 DEF Lists
  <2>3. c # <<>> /\ \A j \in 1..Len(c) : c[j].caption = s.title
    BY <2>1, <2>2, KeptType DEF Picked
  <2>4. Len(c) \in Nat /\ Len(c) # 0
    BY <2>3, EmptySeq, LenProperties
  <2>5. groups[i].title = s.title /\ groups[i].items = Image(h, c)
    BY <1>2, <1>3, <1>4, <2>1, <2>2
  <2>6. DOMAIN Image(h, c) = 1..Len(c) /\ 1 \in 1..Len(c)
    BY <2>4 DEF Image
  <2>7. \A j \in 1..Len(c) : Image(h, c)[j].category = s.title
    <3>1. \A j \in 1..Len(c) : c[j] \in Entries /\ Image(h, c)[j] = h[c[j]]
      BY ElementOfSeq DEF Image
    <3> QED BY <2>3, <3>1 DEF Tells
  <2>8. {Image(h, c)[j].category : j \in 1..Len(c)} = {s.title}
    BY <2>6, <2>7
  <2> QED BY <2>5, <2>6, <2>8, Zenon
<1>8. Headed(groups)
  BY <1>4, <1>7, Zenon DEF Headed
<1> QED BY <1>5, <1>6, <1>8, Zenon DEF Picked

LEMMA TellsItem ==
    ASSUME NEW style \in Styles
    PROVE  Tells(ItemOf(style))
<1> SUFFICES ASSUME NEW e \in Entries
             PROVE  /\ ItemOf(style)[e].key = e.instrument.key
                    /\ ItemOf(style)[e].category = e.caption
  BY DEF Tells
<1>1. PICK x \in Instruments : x = e.instrument
  BY DEF Entries
<1>2. PICK row : row = ReadRow(RowOf(x, style), Layout(style))
  OBVIOUS
<1>3. ItemOf(style)[e] = ItemFrom(e.caption, row)
  BY <1>1, <1>2 DEF ItemOf, Reading
<1>4. row.slug = x.key
  BY <1>2, RowRead
<1>5. ItemFrom(e.caption, row).key = row.slug /\ ItemFrom(e.caption, row).category = e.caption
  BY DEF ItemFrom
<1> QED BY <1>1, <1>3, <1>4, <1>5

\* The sections with nothing left make no difference to what is left.
LEMMA PickedSome ==
    ASSUME NEW u \in Seq(Sections), NEW W, NEW P, NEW z, z = Only(u, P),
           \A s \in Sections : s \notin P => KeptOf(W)[s] = <<>>
    PROVE  /\ z \in Seq(Sections)
           /\ FlattenSeq(Image(KeptOf(W), z)) = FlattenSeq(Image(KeptOf(W), u))
<1>1. Lists(KeptOf(W), Sections, Entries)
  BY KeptType
<1>2. FlattenSeq(Image(KeptOf(W), Only(u, P))) = FlattenSeq(Image(KeptOf(W), u))
  BY <1>1, FlattenOnly
<1>3. Only(u, P) \in Seq(Sections)
  BY OnlyType
<1> QED BY <1>2, <1>3, Zenon

LEMMA PickedAll ==
    ASSUME NEW u \in Seq(Sections), NEW W
    PROVE  FlattenSeq(Image(KeptOf(W), u)) = Only(FlattenSeq(Image(Captioned, u)), W)
<1>1. Lists(Captioned, Sections, Entries)
  BY CaptionedType
<1>2. \A s \in Sections : KeptOf(W)[s] = Only(Captioned[s], W)
  BY DEF KeptOf
<1> QED BY <1>1, <1>2, FlattenEachOnly

LEMMA FilledHas ==
    ASSUME NEW s \in Sections
    PROVE  Captioned[s] = <<>> <=> s \notin FilledSections
<1>1. Captioned[s] \in Seq(Entries) /\ Len(Captioned[s]) = Len(s.instruments)
      /\ s.instruments \in Seq(Instruments)
  BY CaptionedType, SectionType DEF Lists
<1>2. Captioned[s] = <<>> <=> Len(s.instruments) = 0
  BY <1>1, EmptySeq
<1>3. s.instruments = <<>> <=> Len(s.instruments) = 0
  BY <1>1, EmptySeq
<1> QED BY <1>2, <1>3 DEF FilledSections

\* A snapshot is the groups of the filled sections, with all their rows.
LEMMA WholeIs ==
    ASSUME NEW style \in Styles, NEW u \in Seq(Sections),
           NEW w, w = Only(u, FilledSections)
    PROVE  /\ SnapshotFrom(Image(Parsed(style), u)) = Image(Held(ItemOf(style), Entries), w)
           /\ Picked(w, u, Entries)
<1>1. \A s \in Sections : KeptOf(Entries)[s] = Captioned[s]
  <2> TAKE s \in Sections
  <2>1. Captioned[s] \in Seq(Entries)
    BY CaptionedType DEF Lists
  <2>2. Only(Captioned[s], Entries) = Captioned[s]
    BY <2>1, OnlyAll, ElementOfSeq
  <2> QED BY <2>2 DEF KeptOf
<1>2. w \in Seq(Sections)
  BY OnlyType
<1>3. \A i \in 1..Len(w) : w[i] \in Sections /\ w[i] \in FilledSections
  BY OnlyIn
<1>4. \A s \in Sections : Held(ItemOf(style), Entries)[s] = Category(style)[s]
  BY <1>1 DEF Held, Group, Category, ItemsOf
<1>5. Image(Held(ItemOf(style), Entries), w) = Image(Category(style), w)
  BY <1>3, <1>4 DEF Image
<1>6. \A s \in Sections : s \notin FilledSections => KeptOf(Entries)[s] = <<>>
  BY <1>1, FilledHas
<1>7. FlattenSeq(Image(KeptOf(Entries), w)) = FlattenSeq(Image(KeptOf(Entries), u))
  BY <1>6, PickedSome
<1>8. \A i \in 1..Len(w) : KeptOf(Entries)[w[i]] # <<>>
  BY <1>1, <1>3, FilledHas
<1>9. FlattenSeq(Image(KeptOf(Entries), u)) = Only(FlattenSeq(Image(Captioned, u)), Entries)
  BY PickedAll
<1>10. Picked(w, u, Entries)
  BY <1>2, <1>7, <1>8, <1>9, Zenon DEF Picked
<1> QED BY <1>5, <1>10, SnapshotIs, Zenon

\* The filters leave the groups of the sections with a row that is asked for.
AskedFor(category, keys) ==
    {e \in Entries : /\ category = <<>> \/ category = <<e.caption>>
                     /\ keys = {} \/ e.instrument.key \in keys}
TitledBy(category) == {s \in Sections : category = <<>> \/ category = <<s.title>>}

\* What the caption alone decides.
LEMMA KeptTitled ==
    ASSUME NEW category, NEW keys, NEW s \in Sections
    PROVE  /\ s \notin TitledBy(category) => KeptOf(AskedFor(category, keys))[s] = <<>>
           /\ s \in TitledBy(category) /\ keys = {} =>
                 KeptOf(AskedFor(category, keys))[s] = Captioned[s]
           /\ s \in TitledBy(category) /\ keys # {} =>
                 \A i \in 1..Len(Captioned[s]) :
                    Captioned[s][i] \in AskedFor(category, keys) <=>
                    Captioned[s][i].instrument.key \in keys
<1> DEFINE W == AskedFor(category, keys)
<1>1. PICK c \in Seq(Entries) : c = Captioned[s]
  BY CaptionedType DEF Lists
<1>2. \A i \in 1..Len(c) : c[i] \in Entries /\ c[i].caption = s.title
  <2>1. Len(c) = Len(s.instruments)
    BY <1>1, CaptionedType
  <2>2. \A i \in 1..Len(s.instruments) : Captioned[s][i].caption = s.title
    BY DEF Captioned
  <2> QED BY <1>1, <2>1, <2>2, ElementOfSeq
<1>3. KeptOf(W)[s] = Only(c, W)
  BY <1>1 DEF KeptOf
<1>4. \A i \in 1..Len(c) :
         c[i] \in W <=> /\ category = <<>> \/ category = <<s.title>>
                        /\ keys = {} \/ c[i].instrument.key \in keys
  BY <1>2, Zenon DEF AskedFor
<1>5. s \in TitledBy(category) <=> (category = <<>> \/ category = <<s.title>>)
  BY Zenon DEF TitledBy
<1> HIDE DEF W
<1>6. s \notin TitledBy(category) => Only(c, W) = <<>>
  BY <1>4, <1>5, OnlyNone
<1>7. s \in TitledBy(category) /\ keys = {} => Only(c, W) = c
  BY <1>4, <1>5, OnlyAll
<1> QED BY <1>1, <1>3, <1>4, <1>5, <1>6, <1>7 DEF W

LEMMA FilterIs ==
    ASSUME NEW style \in Styles, NEW u \in Seq(Sections), NEW category, NEW keys,
           NEW snap, snap = SnapshotFrom(Image(Parsed(style), u)),
           NEW W, W = AskedFor(category, keys)
    PROVE  \E z : /\ Picked(z, u, W)
                  /\ Filter(snap, category, keys) = Image(Held(ItemOf(style), W), z)
<1>1. PICK w \in Seq(Sections) : w = Only(u, FilledSections)
  BY OnlyType
<1>2. snap = Image(Category(style), w)
  BY <1>1, SnapshotIs
<1>3. PICK t \in Seq(Sections) : t = Only(w, TitledBy(category))
  BY OnlyType
<1>4. \A i \in 1..Len(t) : t[i] \in Sections /\ t[i] \in TitledBy(category)
  BY <1>3, OnlyIn
<1>5. PICK titled : titled = Select(snap, LAMBDA c : category = <<>> \/ category = <<c.title>>)
  OBVIOUS
<1>6. titled = Image(Category(style), t)
  <2> DEFINE I == {i \in DOMAIN snap : category = <<>> \/ category = <<snap[i].title>>}
  <2>1. titled = At(snap, I)
    BY <1>5, Zenon DEF Select
  <2>2. \A i \in 1..Len(w) : i \in I <=> w[i] \in TitledBy(category)
    <3>1. DOMAIN snap = 1..Len(w)
      BY <1>2 DEF Image
    <3>2. \A i \in 1..Len(w) : w[i] \in Sections /\ snap[i].title = w[i].title
      <4>1. \A i \in 1..Len(w) : w[i] \in Sections /\ snap[i] = Category(style)[w[i]]
        BY <1>2, ElementOfSeq DEF Image
      <4>2. \A s \in Sections : Category(style)[s].title = s.title
        BY DEF Category
      <4> QED BY <4>1, <4>2
    <3> QED BY <3>1, <3>2, Zenon DEF TitledBy
  <2> HIDE DEF I
  <2>3. At(Image(Category(style), w), I) = Image(Category(style), Only(w, TitledBy(category)))
    BY <2>2, AtImageOnly
  <2> QED BY <1>2, <1>3, <2>1, <2>3, Zenon
<1>7. /\ FlattenSeq(Image(KeptOf(W), t)) = FlattenSeq(Image(KeptOf(W), w))
      /\ FlattenSeq(Image(KeptOf(W), w)) = FlattenSeq(Image(KeptOf(W), u))
  <2>1. \A s \in Sections : s \notin TitledBy(category) => KeptOf(W)[s] = <<>>
    BY KeptTitled
  <2>2. \A s \in Sections : s \notin FilledSections => KeptOf(W)[s] = <<>>
    <3>1. \A s \in Sections : s \notin FilledSections => Captioned[s] = <<>>
      BY FilledHas
    <3> QED BY <3>1, OnlyEmpty DEF KeptOf
  <2>3. FlattenSeq(Image(KeptOf(W), t)) = FlattenSeq(Image(KeptOf(W), w))
    BY <1>3, <2>1, PickedSome
  <2>4. FlattenSeq(Image(KeptOf(W), w)) = FlattenSeq(Image(KeptOf(W), u))
    BY <1>1, <2>2, PickedSome
  <2> QED BY <2>3, <2>4
<1>8. FlattenSeq(Image(KeptOf(W), u)) = Only(FlattenSeq(Image(Captioned, u)), W)
  BY PickedAll
<1>9. CASE keys = {}
  <2>1. \A i \in 1..Len(t) : KeptOf(W)[t[i]] = Captioned[t[i]]
    BY <1>4, <1>9, KeptTitled
  <2>2. \A i \in 1..Len(t) : Captioned[t[i]] # <<>>
    <3>1. \A i \in 1..Len(t) : t[i] \in FilledSections
      <4>1. \A i \in 1..Len(w) : w[i] \in FilledSections
        BY <1>1, OnlyIn
      <4>2. w \in Seq(FilledSections)
        BY <4>1
      <4>3. Only(w, TitledBy(category)) \in Seq(FilledSections)
        BY <4>2, OnlyType
      <4> QED BY <1>3, <4>3, ElementOfSeq
    <3> QED BY <1>4, <3>1, FilledHas
  <2>3. \A i \in 1..Len(t) : Held(ItemOf(style), W)[t[i]] = Category(style)[t[i]]
    BY <1>4, <2>1 DEF Held, Group, Category, ItemsOf
  <2>4. Image(Category(style), t) = Image(Held(ItemOf(style), W), t)
    BY <2>3 DEF Image
  <2>5. Picked(t, u, W)
    BY <1>7, <1>8, <2>1, <2>2, Zenon DEF Picked
  <2>6. Filter(snap, category, keys) = titled
    BY <1>5, <1>9, Zenon DEF Filter
  <2> QED BY <1>6, <2>4, <2>5, <2>6, Zenon
<1>10. CASE keys # {}
  <2> DEFINE N == {s \in Sections : KeptOf(W)[s] # <<>>}
             h == ItemOf(style)
  <2>1. PICK kept :
          kept = [i \in DOMAIN titled |->
                    [title |-> titled[i].title,
                     items |-> Select(titled[i].items, LAMBDA x : x.key \in keys)]]
    OBVIOUS
  <2>2. ASSUME NEW s \in Sections, s \in TitledBy(category)
        PROVE  Select(Category(style)[s].items, LAMBDA x : x.key \in keys) =
                 Image(h, KeptOf(W)[s])
    <3>1. PICK c \in Seq(Entries) : c = Captioned[s]
      BY CaptionedType DEF Lists
    <3>2. Category(style)[s].items = Image(h, c)
      BY <3>1 DEF Category, ItemsOf
    <3> DEFINE I == {i \in DOMAIN Image(h, c) : Image(h, c)[i].key \in keys}
    <3>3. \A i \in 1..Len(c) : i \in I <=> c[i] \in W
      <4>1. DOMAIN Image(h, c) = 1..Len(c)
        BY DEF Image
      <4>2. \A i \in 1..Len(c) : Image(h, c)[i].key = c[i].instrument.key
        <5>1. \A i \in 1..Len(c) : c[i] \in Entries /\ Image(h, c)[i] = h[c[i]]
          BY ElementOfSeq DEF Image
        <5>2. Tells(h)
          BY TellsItem
        <5> QED BY <5>1, <5>2 DEF Tells
      <4>3. \A i \in 1..Len(c) : c[i] \in W <=> c[i].instrument.key \in keys
        BY <1>10, <2>2, <3>1, KeptTitled
      <4> QED BY <4>1, <4>2, <4>3
    <3> HIDE DEF I, h
    <3>4. At(Image(h, c), I) = Image(h, Only(c, W))
      BY <3>3, AtImageOnly
    <3>5. Select(Image(h, c), LAMBDA x : x.key \in keys) = At(Image(h, c), I)
      BY Zenon DEF Select, I
    <3>6. KeptOf(W)[s] = Only(c, W)
      BY <3>1 DEF KeptOf
    <3> QED BY <3>2, <3>4, <3>5, <3>6, Zenon
  <2>3. kept = Image(Held(h, W), t)
    <3>1. DOMAIN titled = 1..Len(t) /\ \A i \in 1..Len(t) : titled[i] = Category(style)[t[i]]
      BY <1>6 DEF Image
    <3>2. \A s \in Sections : Category(style)[s].title = s.title
      BY DEF Category
    <3>3. \A s \in Sections :
            Held(h, W)[s] = [title |-> s.title, items |-> Image(h, KeptOf(W)[s])]
      BY DEF Held, Group
    <3> HIDE DEF h
    <3>4. ASSUME NEW i \in 1..Len(t)
          PROVE  [title |-> titled[i].title,
                  items |-> Select(titled[i].items, LAMBDA x : x.key \in keys)] =
                    Held(h, W)[t[i]]
      <4>1. PICK s \in Sections : s = t[i] /\ s \in TitledBy(category)
        BY <1>4
      <4>2. titled[i] = Category(style)[s]
        BY <3>1, <4>1
      <4>3. Select(Category(style)[s].items, LAMBDA x : x.key \in keys) = Image(h, KeptOf(W)[s])
        BY <2>2, <4>1
      <4> QED BY <3>2, <3>3, <4>1, <4>2, <4>3, Zenon
    <3> QED BY <2>1, <3>1, <3>4, Zenon DEF Image
  <2> HIDE DEF h
  <2>4. Select(kept, LAMBDA c : c.items # <<>>) = Image(Held(h, W), Only(t, N))
    <3> DEFINE I == {i \in DOMAIN kept : kept[i].items # <<>>}
    <3>1. DOMAIN kept = 1..Len(t)
      BY <2>3 DEF Image
    <3>2. \A i \in 1..Len(t) : kept[i].items = Image(h, KeptOf(W)[t[i]])
      BY <1>4, <2>3 DEF Image, Held, Group
    <3>3. \A i \in 1..Len(t) : Image(h, KeptOf(W)[t[i]]) # <<>> <=> KeptOf(W)[t[i]] # <<>>
      <4>1. \A s \in Sections : KeptOf(W)[s] \in Seq(Entries)
        BY KeptType DEF Lists
      <4>2. ASSUME NEW c \in Seq(Entries) PROVE Image(h, c) # <<>> <=> c # <<>>
        <5>1. Len(Image(h, c)) = Len(c)
          BY ImageLen
        <5>2. PICK V : Maps(h, Entries, V)
          BY Mapped
        <5>3. Image(h, c) \in Seq(V)
          BY <5>2, ImageType
        <5> QED BY <5>1, <5>3, EmptySeq
      <4> QED BY <1>4, <4>1, <4>2
    <3>4. \A i \in 1..Len(t) : i \in I <=> t[i] \in N
      BY <1>4, <3>1, <3>2, <3>3
    <3> HIDE DEF I, N
    <3>5. At(Image(Held(h, W), t), I) = Image(Held(h, W), Only(t, N))
      BY <3>4, AtImageOnly
    <3>6. Select(kept, LAMBDA c : c.items # <<>>) = At(kept, I)
      BY Zenon DEF Select, I
    <3> QED BY <2>3, <3>5, <3>6, Zenon
  <2>5. PICK z \in Seq(Sections) : z = Only(t, N)
    BY OnlyType
  <2>6. \A i \in 1..Len(z) : KeptOf(W)[z[i]] # <<>>
    <3>1. \A i \in 1..Len(z) : z[i] \in N
      BY <2>5, OnlyIn
    <3> QED BY <3>1
  <2>7. FlattenSeq(Image(KeptOf(W), z)) = FlattenSeq(Image(KeptOf(W), t))
    <3>1. \A s \in Sections : s \notin N => KeptOf(W)[s] = <<>>
      OBVIOUS
    <3> HIDE DEF N
    <3> QED BY <2>5, <3>1, PickedSome
  <2>8. Picked(z, u, W)
    BY <1>7, <1>8, <2>6, <2>7, Zenon DEF Picked
  <2>9. Filter(snap, category, keys) = Select(kept, LAMBDA c : c.items # <<>>)
    BY <1>5, <1>10, <2>1, Zenon DEF Filter
  <2> QED BY <2>4, <2>5, <2>8, <2>9, Zenon DEF h
<1> QED BY <1>9, <1>10

----------------------------------------------------------------------------
(* The answers, one kind of question after the other.                        *)

Matched == {e \in Entries : Wanted(e)}
Exact(a, es) ==
    /\ Given(All(a.groups), es)
    /\ a.status \in {0, 200} => Headed(a.groups)
    /\ a.status \notin {0, 200} => es = <<>>

LEMMA RequestType ==
    ASSUME published \in Publications
    PROVE  /\ request.kind \in {"board", "items", "item", "flat", "grouped", "get"}
           /\ request.category \in Texts /\ request.keys \in Seq(Texts)
           /\ request.unit \in Units
BY RequestsAssumption DEF Requests, request

\* A blank part of a list of keys is the one of which trimming leaves nothing.
LEMMA BlankParts ==
    ASSUME NEW text \in Texts
    PROVE  Trimmed(text) = <<>> <=> ~ \E i \in DOMAIN text : text[i] # " "
<1> DEFINE P == {w \in STRING : w # " "}
           I == {i \in DOMAIN text : text[i] # " "}
<1>1. text \in Seq(STRING)
  BY DEF Texts
<1>2. DOMAIN text = 1..Len(text) /\ \A i \in 1..Len(text) : text[i] \in STRING
  BY <1>1, LenProperties, ElementOfSeq
<1>3. I = {i \in 1..Len(text) : text[i] \in P}
  BY <1>2
<1>4. Trimmed(text) = At(text, I)
  BY Zenon DEF Trimmed, Select
<1>5. \A w \in STRING : w \in P <=> w # " "
  OBVIOUS
<1> HIDE DEF I, P
<1>6. Trimmed(text) = Only(text, P)
  BY <1>3, <1>4, Zenon DEF Only
<1>7. Only(text, P) = <<>> <=> \A i \in 1..Len(text) : text[i] \notin P
  BY <1>1, OnlyExists
<1> QED BY <1>2, <1>5, <1>6, <1>7

LEMMA MatchedIs ==
    ASSUME published \in Publications
    PROVE  /\ request.kind \in {"board", "items"} =>
                 Matched = AskedFor(Trimmed(request.category), SplitKeys(request.keys))
           /\ request.kind = "get" =>
                 Matched = AskedFor(request.category, SplitKeys(request.keys))
           /\ request.kind = "item" =>
                 Matched = {e \in Entries : e.instrument.key = request.key}
           /\ request.kind \in {"flat", "grouped"} => Matched = Entries
<1> DEFINE parts == ToSet(request.keys)
           asked == {text \in parts : \E i \in DOMAIN text : text[i] # " "}
           keys == SplitKeys(request.keys)
<1>1. \A text \in parts : text \in Texts
  BY RequestType, ElementOfSeq DEF ToSet
<1>2. \A text \in parts : (\E i \in DOMAIN text : text[i] # " ") <=> Trimmed(text) # <<>>
  BY <1>1, BlankParts
<1>3. keys = {Trimmed(p) : p \in parts} \ {<<>>}
  BY DEF SplitKeys
<1>4. \A text : text \in asked <=> text \in parts /\ Trimmed(text) # <<>>
  BY <1>2
<1>5. \A key : key \in keys <=> \E text \in asked : Trimmed(text) = key
  <2> HIDE DEF asked, parts
  <2> QED BY <1>3, <1>4
<1>6. keys = {} <=> asked = {}
  <2> HIDE DEF asked, keys
  <2>1. ASSUME keys = {} PROVE asked = {}
    <3>1. \A text \in asked : Trimmed(text) \in keys
      BY <1>5
    <3> QED BY <2>1, <3>1
  <2>2. ASSUME asked = {} PROVE keys = {}
    BY <1>5, <2>2
  <2> QED BY <2>1, <2>2
<1>7. ASSUME NEW e
      PROVE  Wanted(e) <=>
               IF request.kind = "item" THEN e.instrument.key = request.key
               ELSE request.kind \in {"board", "items", "get"} =>
                      LET category == IF request.kind = "get" THEN request.category
                                      ELSE Trimmed(request.category)
                      IN /\ category = <<>> \/ category = <<e.caption>>
                         /\ keys = {} \/ e.instrument.key \in keys
  <2>1. (asked = {} \/ \E text \in asked : Trimmed(text) = e.instrument.key) <=>
          (keys = {} \/ e.instrument.key \in keys)
    <3> HIDE DEF asked, keys
    <3> QED BY <1>5, <1>6
  <2> HIDE DEF keys
  <2> QED BY <2>1, Zenon DEF Wanted
<1> HIDE DEF keys
<1>8. CASE request.kind \in {"board", "items"}
  <2>1. \A e \in Entries : Wanted(e) <=>
            /\ Trimmed(request.category) = <<>> \/ Trimmed(request.category) = <<e.caption>>
            /\ keys = {} \/ e.instrument.key \in keys
    BY <1>7, <1>8
  <2> QED BY <1>8, <2>1, Zenon DEF Matched, AskedFor, keys
<1>9. CASE request.kind = "get"
  <2>1. \A e \in Entries : Wanted(e) <=>
            /\ request.category = <<>> \/ request.category = <<e.caption>>
            /\ keys = {} \/ e.instrument.key \in keys
    BY <1>7, <1>9
  <2> QED BY <1>9, <2>1, Zenon DEF Matched, AskedFor, keys
<1>10. CASE request.kind = "item"
  <2>1. \A e \in Entries : Wanted(e) <=> e.instrument.key = request.key
    BY <1>7, <1>10
  <2> QED BY <1>10, <2>1 DEF Matched
<1>11. CASE request.kind \in {"flat", "grouped"}
  <2>1. \A e \in Entries : Wanted(e)
    BY <1>7, <1>11
  <2> QED BY <1>11, <2>1 DEF Matched
<1> QED BY <1>8, <1>9, <1>10, <1>11

LEMMA AllOfNone == All(<<>>) = <<>>
<1>1. [i \in DOMAIN <<>> |-> <<>>[i].items] = <<>>
  OBVIOUS
<1> QED BY <1>1, FlattenEmpty, Zenon DEF All

LEMMA NothingGiven ==
    ASSUME NEW status
    PROVE  Exact(Refused(status), <<>>)
<1>1. Refused(status).groups = <<>>
  BY DEF Refused
<1>2. All(<<>>) = <<>>
  BY AllOfNone
<1>3. Given(<<>>, <<>>) /\ Headed(<<>>)
  BY DEF Given, Headed
<1> QED BY <1>1, <1>2, <1>3 DEF Exact

\* One group without a caption.
LEMMA OneGroup ==
    ASSUME NEW h, Tells(h), NEW es \in Seq(Entries)
    PROVE  /\ Exact(OK(<<Group("", Image(h, es))>>), es)
           /\ All(OK(<<Group("", Image(h, es))>>).groups) = Image(h, es)
<1>1. PICK V : Maps(h, Entries, V)
  BY Mapped
<1>2. PICK items \in Seq(V) : items = Image(h, es)
  BY <1>1, ImageType
<1>3. PICK g : g = Group("", items)
  OBVIOUS
<1>4. g.items = items /\ g.title = ""
  BY <1>3 DEF Group
<1>5. PICK gs : gs = <<g>>
  OBVIOUS
<1>6. DOMAIN gs = 1..1 /\ \A i \in DOMAIN gs : gs[i] = g
  BY <1>5
<1>7. [i \in DOMAIN gs |-> gs[i].items] = <<items>>
  <2>1. [i \in DOMAIN gs |-> gs[i].items] = [i \in 1..1 |-> items]
    BY <1>4, <1>6, Zenon
  <2>2. [i \in 1..1 |-> items] = <<items>>
    OBVIOUS
  <2> QED BY <2>1, <2>2
<1>8. All(gs) = items
  <2>1. FlattenSeq(<<items>>) = items
    BY FlattenOne
  <2> QED BY <1>7, <2>1, Zenon DEF All
<1>9. Headed(gs)
  BY <1>4, <1>6, Zenon DEF Headed
<1>10. OK(gs).groups = gs /\ OK(gs).status = 200
  BY DEF OK
<1>11. Given(items, es)
  BY <1>2, GivenImage
<1> QED BY <1>2, <1>3, <1>5, <1>8, <1>9, <1>10, <1>11 DEF Exact

\* The groups of the sections with something left.
LEMMA ManyGroups ==
    ASSUME published \in Publications, NEW h, Tells(h), NEW W, NEW z, Picked(z, Markets, W),
           NEW a, a.groups = Image(Held(h, W), z), a.status \in {0, 200}
    PROVE  Exact(a, Only(Listed, W)) /\ All(a.groups) = Image(h, Only(Listed, W))
<1>1. Listed = FlattenSeq(Image(Captioned, Markets)) /\ Listed \in Seq(Entries)
  BY ListedIs
<1>2. All(a.groups) = Image(h, Only(Listed, W)) /\ Headed(a.groups)
  BY <1>1, GroupsAre
<1>3. Only(Listed, W) \in Seq(Entries)
  BY <1>1, OnlyType
<1>4. Given(Image(h, Only(Listed, W)), Only(Listed, W))
  BY <1>3, GivenImage
<1> QED BY <1>2, <1>4 DEF Exact

\* The rows the interfaces make of an item tell of its entry too.
AsLegacy(h) == [e \in Entries |-> LegacyItem(h[e])]
AsRow(h, unit) == [e \in Entries |-> Row(h[e], unit)]

Rows(is, unit) == [i \in DOMAIN is |-> Row(is[i], unit)]

LEMMA TellsToo ==
    ASSUME NEW h, Tells(h), NEW unit
    PROVE  /\ Tells(AsLegacy(h)) /\ Tells(AsRow(h, unit))
           /\ \A es \in Seq(Entries) :
                 /\ LegacyItems(Image(h, es)) = Image(AsLegacy(h), es)
                 /\ Rows(Image(h, es), unit) = Image(AsRow(h, unit), es)
<1>1. ASSUME NEW e \in Entries
      PROVE  /\ AsLegacy(h)[e].key = h[e].key /\ AsLegacy(h)[e].category = h[e].category
             /\ AsRow(h, unit)[e].key = h[e].key /\ AsRow(h, unit)[e].category = h[e].category
  <2>1. AsLegacy(h)[e] = LegacyItem(h[e]) /\ AsRow(h, unit)[e] = Row(h[e], unit)
    BY DEF AsLegacy, AsRow
  <2>2. \A x : LegacyItem(x).key = x.key /\ LegacyItem(x).category = x.category
    BY DEF LegacyItem
  <2>3. \A x : Row(x, unit).key = x.key /\ Row(x, unit).category = x.category
    BY DEF Row
  <2> QED BY <2>1, <2>2, <2>3
<1>2. ASSUME NEW es \in Seq(Entries)
      PROVE  /\ LegacyItems(Image(h, es)) = Image(AsLegacy(h), es)
             /\ Rows(Image(h, es), unit) = Image(AsRow(h, unit), es)
  <2>1. DOMAIN Image(h, es) = 1..Len(es)
        /\ \A i \in 1..Len(es) : Image(h, es)[i] = h[es[i]] /\ es[i] \in Entries
    BY ElementOfSeq DEF Image
  <2>2. \A i \in 1..Len(es) : /\ LegacyItem(Image(h, es)[i]) = AsLegacy(h)[es[i]]
                              /\ Row(Image(h, es)[i], unit) = AsRow(h, unit)[es[i]]
    BY <2>1, Zenon DEF AsLegacy, AsRow
  <2>3. LegacyItems(Image(h, es)) = Image(AsLegacy(h), es)
    BY <2>1, <2>2, Zenon DEF LegacyItems, Image
  <2>4. Rows(Image(h, es), unit) = Image(AsRow(h, unit), es)
    BY <2>1, <2>2, Zenon DEF Image, Rows
  <2> QED BY <2>3, <2>4
<1> QED BY <1>1, <1>2 DEF Tells

LEMMA FoundIs ==
    ASSUME published \in Publications, NEW key, NEW snap, snap = Snapshot
    PROVE  LET matching == Only(Listed, {e \in Entries : e.instrument.key = key})
               found == Lookup(snap, key)
           IN /\ found = <<>> => matching = <<>>
              /\ found # <<>> => /\ matching # <<>>
                                 /\ Head(matching) \in Entries
                                 /\ found = <<ItemOf(published.style)[Head(matching)]>>
<1> DEFINE P == {e \in Entries : e.instrument.key = key}
<1>1. PICK style \in Styles : style = published.style
  BY PublicationsAssumption
<1>2. PICK l \in Seq(Entries) : l = Listed /\ Len(l) \in Nat
  BY ListedIs, LenProperties
<1>3. PICK items : items = All(snap) /\ items = Image(ItemOf(style), l) /\ Len(items) = Len(l)
  BY <1>1, <1>2, ItemsListed
<1>4. \A i \in 1..Len(l) : /\ l[i] \in Entries /\ items[i] = ItemOf(style)[l[i]]
                           /\ items[i].key = l[i].instrument.key
  <2>1. \A i \in 1..Len(l) : l[i] \in Entries /\ items[i] = ItemOf(style)[l[i]]
    BY <1>3, ElementOfSeq DEF Image
  <2>2. Tells(ItemOf(style))
    BY TellsItem
  <2> QED BY <2>1, <2>2 DEF Tells
<1> DEFINE I == {i \in 1..Len(items) : items[i].key = key}
           n == SelectInSeq(All(snap), LAMBDA x : x.key = key)
<1>5. n = IF I # {} THEN Min(I) ELSE 0
  BY <1>3, Zenon DEF SelectInSeq
<1>6. \A i \in 1..Len(l) : i \in I <=> l[i] \in P
  BY <1>3, <1>4
<1>7. I \subseteq 1..Len(l)
  BY <1>3
<1>8. Lookup(snap, key) = IF n = 0 THEN <<>> ELSE <<All(snap)[n]>>
  BY DEF Lookup
<1>9. PICK m \in Seq(Entries) : m = Only(l, P)
  BY OnlyType
<1> HIDE DEF I, n, P
<1>10. CASE I = {}
  <2>1. \A i \in 1..Len(l) : l[i] \notin P
    BY <1>6, <1>10
  <2>2. Only(l, P) = <<>>
    BY <2>1, OnlyNone
  <2>3. Lookup(snap, key) = <<>>
    BY <1>5, <1>8, <1>10
  <2> QED BY <1>2, <2>2, <2>3, Zenon DEF P
<1>11. CASE I # {}
  <2>1. PICK k \in 1..Len(l) : k = n /\ k \in I /\ \A y \in I : k <= y
    <3>1. I \subseteq Nat
      BY <1>2, <1>7
    <3>2. Min(I) \in I /\ \A y \in I : Min(I) <= y
      BY <1>11, <3>1, MinOf
    <3>3. n = Min(I)
      BY <1>5, <1>11
    <3> QED BY <1>7, <3>2, <3>3
  <2>2. First(l, k, P)
    <3>1. \A j \in 1..Len(l) : j < k => l[j] \notin P
      BY <1>2, <1>6, <2>1
    <3> QED BY <1>6, <2>1, <3>1 DEF First
  <2>3. Len(m) >= 1 /\ m[1] = l[k]
    BY <1>9, <2>2, OnlyFirst
  <2>4. m # <<>> /\ Head(m) = l[k]
    BY <2>3
  <2>5. Lookup(snap, key) = <<items[k]>> /\ <<items[k]>> # <<>>
    <3>1. n # 0 /\ All(snap)[n] = items[k]
      BY <1>3, <2>1
    <3>2. <<items[k]>> # <<>>
      OBVIOUS
    <3> QED BY <1>8, <3>1, <3>2, Zenon
  <2>6. items[k] = ItemOf(style)[l[k]] /\ l[k] \in Entries
    BY <1>4
  <2> QED BY <1>1, <1>2, <1>9, <2>4, <2>5, <2>6, Zenon DEF P
<1> QED BY <1>10, <1>11

\* What load returned: nothing was listed, or a snapshot.
LEMMA LoadedIs ==
    ASSUME published \in Publications, result = Outcome
    PROVE  /\ result.kind # "snapshot" => Listed = <<>>
           /\ result.kind = "snapshot" => result.categories = Snapshot
<1>1. IsEmpty(Snapshot) => Listed = <<>>
  <2>1. Len(All(Snapshot)) = Len(Listed) /\ Listed \in Seq(Entries)
    BY ItemsListed
  <2> QED BY <2>1, EmptySeq DEF IsEmpty
<1>2. Markets = <<>> => Listed = <<>>
  BY ListedIs, ImageEmpty, FlattenEmpty
<1>3. Error("ErrNoTables").kind # "snapshot" /\ Error("ErrEmpty").kind # "snapshot"
  BY DEF Error
<1>4. CASE Markets = <<>>
  BY <1>2, <1>3, <1>4 DEF Outcome
<1>5. CASE Markets # <<>> /\ IsEmpty(Snapshot)
  BY <1>1, <1>3, <1>5 DEF Outcome
<1>6. CASE Markets # <<>> /\ ~IsEmpty(Snapshot)
  <2>1. result = [kind |-> "snapshot", categories |-> Snapshot]
    BY <1>6 DEF Outcome
  <2> QED BY <2>1
<1> QED BY <1>4, <1>5, <1>6

\* The groups of an answer given as rows.
Rowed(left, unit) ==
    [i \in DOMAIN left |-> Group(left[i].title, Rows(left[i].items, unit))]

\* Rows made of the groups tell exactly the listings es.
RowsExact(left, es) ==
    \A a, unit :
        a.status = 0 /\ a.groups = Rowed(left, unit) =>
          /\ Exact(a, es)
          /\ All(a.groups) = Image(AsRow(ItemOf(published.style), unit), es)

\* Groups without an item, and nothing listed.
Agree(left, es) == IsEmpty(left) => es = <<>>

\* The three shapes an answer to filters has.
LEMMA FilteredExact ==
    ASSUME published \in Publications, NEW snap, snap = Snapshot, NEW category, NEW keys,
           NEW es, es = Only(Listed, AskedFor(category, keys)),
           NEW left, left = Filter(snap, category, keys)
    PROVE  /\ Exact(OK(left), es)
           /\ Exact(OK(<<Group("", All(left))>>), es)
           /\ RowsExact(left, es) /\ Agree(left, es)
<1>1. PICK style \in Styles : style = published.style
  BY PublicationsAssumption
<1>2. PICK u \in Seq(Sections) : u = Markets
  BY MarketTablesAre
<1>3. PICK W : W = AskedFor(category, keys)
  OBVIOUS
<1>4. PICK h : h = ItemOf(style) /\ Tells(h)
  BY TellsItem
<1>5. PICK z : Picked(z, u, W) /\ left = Image(Held(h, W), z)
  <2>1. snap = SnapshotFrom(Image(Parsed(style), u))
    BY <1>1, <1>2, Zenon DEF Snapshot, ParsedTables
  <2> QED BY <1>3, <1>4, <2>1, FilterIs
<1>6. z \in Seq(Sections)
  BY <1>5 DEF Picked
<1>7. Listed = FlattenSeq(Image(Captioned, u)) /\ Listed \in Seq(Entries)
  BY <1>2, ListedIs
<1>8. es \in Seq(Entries) /\ es = Only(Listed, W)
  BY <1>3, <1>7, OnlyType
<1>9. All(left) = Image(h, es)
  BY <1>4, <1>5, <1>7, <1>8, GroupsAre
<1>10. Exact(OK(left), es)
  <2>1. OK(left).groups = Image(Held(h, W), z) /\ OK(left).status \in {0, 200}
    BY <1>5 DEF OK
  <2> QED BY <1>2, <1>4, <1>5, <1>8, <2>1, ManyGroups
<1>11. Exact(OK(<<Group("", All(left))>>), es)
  <2>1. Exact(OK(<<Group("", Image(h, es))>>), es)
    BY <1>4, <1>8, OneGroup
  <2> QED BY <1>9, <2>1, Zenon
<1>12. IsEmpty(left) => es = <<>>
  <2>1. Len(Image(h, es)) = Len(es)
    BY <1>8, ImageLen
  <2> QED BY <1>8, <1>9, <2>1, EmptySeq DEF IsEmpty
<1>13. ASSUME NEW a, NEW unit, a.status = 0, a.groups = Rowed(left, unit)
       PROVE  Exact(a, es) /\ All(a.groups) = Image(AsRow(h, unit), es)
  <2>1. Tells(AsRow(h, unit))
    BY <1>4, TellsToo
  <2>0. \A c \in Seq(Entries) : Rows(Image(h, c), unit) = Image(AsRow(h, unit), c)
    BY <1>4, TellsToo
  <2>2. ASSUME NEW s \in Sections
        PROVE  Group(Held(h, W)[s].title,
                     Rows(Held(h, W)[s].items, unit)) =
                 Held(AsRow(h, unit), W)[s]
    <3>1. PICK c \in Seq(Entries) : c = KeptOf(W)[s]
      BY KeptType DEF Lists
    <3>2. Held(h, W)[s].title = s.title /\ Held(h, W)[s].items = Image(h, c)
      BY <3>1 DEF Held, Group
    <3>3. Rows(Image(h, c), unit) = Image(AsRow(h, unit), c)
      BY <2>0, <3>1, Zenon
    <3>4. Held(AsRow(h, unit), W)[s] = Group(s.title, Image(AsRow(h, unit), c))
      BY <3>1 DEF Held
    <3> QED BY <3>2, <3>3, <3>4, Zenon
  <2>3. DOMAIN left = 1..Len(z)
        /\ \A i \in 1..Len(z) : z[i] \in Sections /\ left[i] = Held(h, W)[z[i]]
    BY <1>5, <1>6, ElementOfSeq DEF Image
  <2>4. a.groups = Image(Held(AsRow(h, unit), W), z)
    <3>1. ASSUME NEW i \in 1..Len(z)
          PROVE  Group(left[i].title,
                       Rows(left[i].items, unit)) =
                   Held(AsRow(h, unit), W)[z[i]]
      BY <2>2, <2>3, Zenon
    <3> QED BY <1>13, <2>3, <3>1, Zenon DEF Image, Rowed
  <2>5. a.status \in {0, 200}
    BY <1>13
  <2> QED BY <1>2, <1>5, <1>8, <2>1, <2>4, <2>5, ManyGroups
<1>14. RowsExact(left, es)
  BY <1>1, <1>4, <1>13, Zenon DEF RowsExact
<1> QED BY <1>10, <1>11, <1>12, <1>14 DEF Agree

\* The whole snapshot in the shapes of the old interface.
LEMMA LegacyExact ==
    ASSUME published \in Publications, NEW snap, snap = Snapshot
    PROVE  \A a \in {Flat(snap), Grouped(snap)} :
              /\ Exact(a, Listed)
              /\ All(a.groups) = Image(AsLegacy(ItemOf(published.style)), Listed)
<1>1. PICK style \in Styles : style = published.style
  BY PublicationsAssumption
<1>2. PICK u \in Seq(Sections) : u = Markets
  BY MarketTablesAre
<1>3. PICK h : h = ItemOf(style) /\ Tells(h)
  BY TellsItem
<1>4. PICK g : g = AsLegacy(h) /\ Tells(g)
  BY <1>3, TellsToo
<1>5. Listed \in Seq(Entries) /\ All(snap) = Image(h, Listed)
  BY <1>1, <1>3, ItemsListed
<1>6. Only(Listed, Entries) = Listed
  BY <1>5, OnlyAll, ElementOfSeq
<1>7. \A es \in Seq(Entries) : LegacyItems(Image(h, es)) = Image(g, es)
  BY <1>3, <1>4, TellsToo
<1>8. Exact(Flat(snap), Listed) /\ All(Flat(snap).groups) = Image(g, Listed)
  <2>1. LegacyItems(All(snap)) = Image(g, Listed)
    BY <1>5, <1>7
  <2>2. /\ Exact(OK(<<Group("", Image(g, Listed))>>), Listed)
        /\ All(OK(<<Group("", Image(g, Listed))>>).groups) = Image(g, Listed)
    BY <1>4, <1>5, OneGroup
  <2> QED BY <2>1, <2>2, Zenon DEF Flat
<1>9. Exact(Grouped(snap), Listed) /\ All(Grouped(snap).groups) = Image(g, Listed)
  <2>1. PICK z \in Seq(Sections) : z = Only(u, FilledSections)
    BY OnlyType
  <2>2. snap = Image(Held(h, Entries), z) /\ Picked(z, u, Entries)
    <3>1. snap = SnapshotFrom(Image(Parsed(style), u))
      BY <1>1, <1>2, Zenon DEF Snapshot, ParsedTables
    <3> QED BY <1>3, <2>1, <3>1, WholeIs
  <2>3. ASSUME NEW s \in Sections
        PROVE  Group(Held(h, Entries)[s].title, LegacyItems(Held(h, Entries)[s].items)) =
                 Held(g, Entries)[s]
    <3>1. PICK c \in Seq(Entries) : c = KeptOf(Entries)[s]
      BY KeptType DEF Lists
    <3>2. Held(h, Entries)[s].title = s.title /\ Held(h, Entries)[s].items = Image(h, c)
      BY <3>1 DEF Held, Group
    <3>3. LegacyItems(Image(h, c)) = Image(g, c)
      BY <1>7
    <3>4. Held(g, Entries)[s] = Group(s.title, Image(g, c))
      BY <3>1 DEF Held
    <3> QED BY <3>2, <3>3, <3>4, Zenon
  <2>4. DOMAIN snap = 1..Len(z)
        /\ \A i \in 1..Len(z) : z[i] \in Sections /\ snap[i] = Held(h, Entries)[z[i]]
    BY <2>2, ElementOfSeq DEF Image
  <2>5. [i \in DOMAIN snap |-> Group(snap[i].title, LegacyItems(snap[i].items))] =
          Image(Held(g, Entries), z)
    BY <2>3, <2>4, Zenon DEF Image
  <2>6. Grouped(snap).groups = Image(Held(g, Entries), z) /\ Grouped(snap).status \in {0, 200}
    BY <2>5 DEF Grouped, OK
  <2>7. /\ Exact(Grouped(snap), Only(Listed, Entries))
        /\ All(Grouped(snap).groups) = Image(g, Only(Listed, Entries))
    BY <1>2, <1>4, <2>2, <2>6, ManyGroups
  <2> QED BY <1>6, <2>7, Zenon
<1>10. g = AsLegacy(ItemOf(published.style))
  BY <1>1, <1>3, <1>4, Zenon
<1> QED BY <1>8, <1>9, <1>10, Zenon

\* Through every interface a reader is given exactly what the site listed and
\* the question asked for, whatever the page and the question.
THEOREM EveryAnswerExact == QuerySpec => []SelectionExact
<1> DEFINE matching == Only(Listed, Matched)
           wanted == IF request.kind = "item" /\ matching # <<>>
                     THEN <<Head(matching)>> ELSE matching
<1>1. ASSUME ReadInv, pc = "answered" PROVE Exact(Reply, wanted)
  <2>1. published \in Publications /\ result = Outcome
    BY <1>1 DEF ReadInv
  <2>2. Listed \in Seq(Entries)
    BY <2>1, ListedIs
  <2>3. request.kind \in {"board", "items", "item", "flat", "grouped", "get"}
    BY <2>1, RequestType
  <2>4. CASE result.kind # "snapshot"
    <3>1. matching = <<>>
      <4>1. Listed = <<>>
        BY <2>1, <2>4, LoadedIs
      <4> QED BY <4>1, OnlyEmpty
    <3>2. wanted = <<>>
      BY <3>1
    <3>3. \E status : Reply = Refused(status)
      <4>1. CASE request.kind = "get"
        BY <2>4, <4>1 DEF Reply
      <4>2. CASE request.kind # "get"
        BY <2>4, <4>2 DEF Reply
      <4> QED BY <4>1, <4>2
    <3> QED BY <3>2, <3>3, NothingGiven
  <2>5. CASE result.kind = "snapshot"
    <3>1. PICK snap : snap = result.categories /\ snap = Snapshot
      BY <2>1, <2>5, LoadedIs
    <3>2. PICK keys : keys = SplitKeys(request.keys)
      OBVIOUS
    <3>3. PICK trimmed : trimmed = Trimmed(request.category)
      OBVIOUS
    <3>4. CASE request.kind = "board"
      <4>1. Reply = OK(Filter(snap, trimmed, keys))
        BY <2>5, <3>1, <3>2, <3>3, <3>4 DEF Reply, Board, FilterCategories
      <4>2. wanted = Only(Listed, AskedFor(trimmed, keys))
        BY <2>1, <3>2, <3>3, <3>4, MatchedIs
      <4> QED BY <2>1, <3>1, <4>1, <4>2, FilteredExact
    <3>5. CASE request.kind = "items"
      <4>1. Reply = OK(<<Group("", All(Filter(snap, trimmed, keys)))>>)
        BY <2>5, <3>1, <3>2, <3>3, <3>5 DEF Reply, BoardItems, FilterCategories
      <4>2. wanted = Only(Listed, AskedFor(trimmed, keys))
        BY <2>1, <3>2, <3>3, <3>5, MatchedIs
      <4> QED BY <2>1, <3>1, <4>1, <4>2, FilteredExact
    <3>6. CASE request.kind = "item"
      <4>1. Reply = IF Lookup(snap, request.key) = <<>> THEN Refused(404)
                    ELSE OK(<<Group("", Lookup(snap, request.key))>>)
        BY <2>5, <3>1, <3>6 DEF Reply, BoardItem
      <4>2. matching = Only(Listed, {e \in Entries : e.instrument.key = request.key})
        BY <2>1, <3>6, MatchedIs
      <4>3. PICK style \in Styles : style = published.style
        BY <2>1, PublicationsAssumption
      <4>4. /\ Lookup(snap, request.key) = <<>> => matching = <<>>
            /\ Lookup(snap, request.key) # <<>> =>
                 /\ matching # <<>> /\ Head(matching) \in Entries
                 /\ Lookup(snap, request.key) = <<ItemOf(style)[Head(matching)]>>
        <5> HIDE DEF matching
        <5> QED BY <2>1, <3>1, <4>2, <4>3, FoundIs, Zenon
      <4>5. CASE Lookup(snap, request.key) = <<>>
        <5>1. wanted = <<>>
          BY <4>4, <4>5
        <5> QED BY <4>1, <4>5, <5>1, NothingGiven
      <4>6. CASE Lookup(snap, request.key) # <<>>
        <5>1. PICK e \in Entries : e = Head(matching)
          BY <4>4, <4>6
        <5>2. wanted = <<e>>
          BY <3>6, <4>4, <4>6, <5>1
        <5>3. Image(ItemOf(style), <<e>>) = <<ItemOf(style)[e]>>
          BY DEF Image
        <5>4. Tells(ItemOf(style)) /\ <<e>> \in Seq(Entries)
          BY TellsItem
        <5>5. Exact(OK(<<Group("", Image(ItemOf(style), <<e>>))>>), <<e>>)
          BY <5>4, OneGroup
        <5> QED BY <4>1, <4>4, <4>6, <5>1, <5>2, <5>3, <5>5, Zenon
      <4> QED BY <4>5, <4>6
    <3>7. CASE request.kind \in {"flat", "grouped"}
      <4>1. wanted = Listed
        <5>1. Matched = Entries
          BY <2>1, <3>7, MatchedIs
        <5>2. Only(Listed, Entries) = Listed
          BY <2>2, OnlyAll, ElementOfSeq
        <5> QED BY <3>7, <5>1, <5>2
      <4>2. CASE request.kind = "flat"
        <5>1. Reply = Flat(snap)
          BY <2>5, <3>1, <4>2 DEF Reply
        <5> QED BY <2>1, <3>1, <4>1, <5>1, LegacyExact
      <4>3. CASE request.kind = "grouped"
        <5>1. Reply = Grouped(snap)
          BY <2>5, <3>1, <4>3 DEF Reply
        <5> QED BY <2>1, <3>1, <4>1, <5>1, LegacyExact
      <4> QED BY <3>7, <4>2, <4>3
    <3>8. CASE request.kind = "get"
      <4>1. PICK left : left = Filter(snap, request.category, keys)
        OBVIOUS
      <4>2. PICK es : es = Only(Listed, AskedFor(request.category, keys))
        OBVIOUS
      <4>0. /\ IsEmpty(left) => es = <<>>
            /\ RowsExact(left, es)
        <5>1. RowsExact(left, es) /\ Agree(left, es)
          BY <2>1, <3>1, <4>1, <4>2, FilteredExact
        <5> QED BY <5>1 DEF Agree
      <4>3. wanted = es
        BY <2>1, <3>2, <3>8, <4>2, MatchedIs
      <4>4. Reply = Get(snap)
        BY <2>5, <3>1, <3>8 DEF Reply
      <4>5. CASE IsEmpty(left)
        <5>1. es = <<>>
          BY <4>0, <4>5, Zenon
        <5>2. \E status : Reply = Refused(status)
          BY <3>2, <4>1, <4>4, <4>5, Zenon DEF Get
        <5> QED BY <4>3, <5>1, <5>2, NothingGiven
      <4>6. CASE ~IsEmpty(left)
        <5>1. Reply = [status |-> 0, groups |-> Rowed(left, request.unit)]
          BY <3>2, <4>1, <4>4, <4>6, Zenon DEF Get, Rowed, Rows
        <5>2. PICK a : a = Reply
          OBVIOUS
        <5>3. a.status = 0 /\ a.groups = Rowed(left, request.unit)
          BY <5>1, <5>2
        <5>4. Exact(a, es)
          BY <4>0, <5>3, Zenon DEF RowsExact
        <5> QED BY <4>3, <5>2, <5>4
      <4> QED BY <4>5, <4>6
    <3> QED BY <2>3, <3>4, <3>5, <3>6, <3>7, <3>8
  <2> QED BY <2>4, <2>5
<1>2. ReadInv => SelectionExact
  <2> SUFFICES ASSUME ReadInv, pc = "answered"
               PROVE  LET left == Select(Listed, Wanted)
                          one == request.kind = "item" /\ left # <<>>
                          asked == IF one THEN <<Head(left)>> ELSE left
                      IN Exact(answer, asked)
    BY Zenon DEF SelectionExact, Exact, Given, Headed
  <2>1. answer = Reply
    BY DEF ReadInv
  <2>2. Listed \in Seq(Entries)
    BY ListedIs DEF ReadInv
  <2>3. Select(Listed, Wanted) = matching
    <3>1. DOMAIN Listed = 1..Len(Listed) /\ \A i \in 1..Len(Listed) : Listed[i] \in Entries
      BY <2>2, LenProperties, ElementOfSeq
    <3>2. {i \in DOMAIN Listed : Wanted(Listed[i])} = {i \in 1..Len(Listed) : Listed[i] \in Matched}
      BY <3>1, Zenon DEF Matched
    <3> QED BY <3>2, Zenon DEF Select, Only
  <2>4. Exact(Reply, wanted)
    BY <1>1
  <2> QED BY <2>1, <2>3, <2>4, Zenon
<1> QED BY <1>2, Reads, PTL

----------------------------------------------------------------------------
(* Collapsing spaces, one rune at a time.                                    *)

Runes == Nat
Blank == [r \in Runes |-> IF r \notin Spaces THEN r ELSE Space]
Gaps(s) ==
    {i \in 1..Len(s) :
        \/ s[i] \notin Spaces
        \/ /\ i > 1 /\ s[i] \in Spaces /\ s[i - 1] \notin Spaces
           /\ \E j \in 1..Len(s) : j > i /\ s[j] \notin Spaces}

\* The text with the space that follows it, if one does.
LooseGaps(s) ==
    {i \in 1..Len(s) : s[i] \notin Spaces \/ (i > 1 /\ s[i - 1] \notin Spaces)}
Loose(s) == At(Image(Blank, s), LooseGaps(s))

LEMMA SpacesAre == Space \in Runes /\ Space \in Spaces /\ Spaces \subseteq Runes
BY DEF Space, Spaces, Runes

LEMMA CollapsedIs ==
    ASSUME NEW s \in Seq(Runes)
    PROVE  Collapsed(s) = At(Image(Blank, s), Gaps(s))
<1>1. DOMAIN s = 1..Len(s) /\ \A i \in 1..Len(s) : s[i] \in Runes
  BY LenProperties, ElementOfSeq
<1>2. [i \in DOMAIN s |-> IF s[i] \notin Spaces THEN s[i] ELSE Space] = Image(Blank, s)
  <2>1. \A i \in 1..Len(s) : Blank[s[i]] = IF s[i] \notin Spaces THEN s[i] ELSE Space
    BY <1>1 DEF Blank
  <2> QED BY <1>1, <2>1 DEF Image
<1>3. {i \in DOMAIN s : s[i] \notin Spaces \/
         (/\ i > 1 /\ s[i] \in Spaces /\ s[i - 1] \notin Spaces
          /\ \E j \in DOMAIN s : j > i /\ s[j] \notin Spaces)} = Gaps(s)
  BY <1>1, Zenon DEF Gaps
<1> QED BY <1>2, <1>3, Zenon DEF Collapsed

LEMMA Collapsing ==
    ASSUME NEW s \in Seq(Runes), NEW r \in Runes
    PROVE  /\ Append(s, r) \in Seq(Runes)
           /\ Collapsed(Append(s, r)) = IF r \in Spaces THEN Collapsed(s) ELSE Append(Loose(s), r)
           /\ Loose(Append(s, r)) =
                IF r \notin Spaces THEN Append(Loose(s), r)
                ELSE IF s # <<>> /\ s[Len(s)] \notin Spaces THEN Append(Loose(s), Space)
                ELSE Loose(s)
<1>1. PICK u \in Seq(Runes) : u = Append(s, r)
  BY AppendProperties
<1>2. PICK n \in Nat : n = Len(s)
  BY LenProperties
<1>3. Len(u) = n + 1 /\ u[n + 1] = r /\ \A i \in 1..n : u[i] = s[i]
  BY <1>1, <1>2, AppendProperties
<1>4. PICK v \in Seq(Runes) : v = Image(Blank, s)
  <2>1. Maps(Blank, Runes, Runes)
    BY SpacesAre DEF Maps, Blank
  <2> QED BY <2>1, ImageType
<1>5. Len(v) = n
  BY <1>2, <1>4, ImageLen
<1>6. PICK e \in Runes : e = Blank[r] /\ e = IF r \notin Spaces THEN r ELSE Space
  BY SpacesAre DEF Blank
<1>7. Image(Blank, u) = Append(v, e)
  BY <1>1, <1>4, <1>6, ImageAppend
<1>8. \A W : At(Append(v, e), W) = IF n + 1 \in W THEN Append(At(v, W), e) ELSE At(v, W)
  <2> TAKE W
  <2>1. At(Append(v, e), W) = IF Len(v) + 1 \in W THEN Append(At(v, W), e) ELSE At(v, W)
    BY AtAppend
  <2> QED BY <1>5, <2>1
<1>9. \A V, W : (\A i \in 1..n : i \in V <=> i \in W) => At(v, V) = At(v, W)
  BY <1>5, AtSame
<1>10. Loose(s) = At(v, LooseGaps(s)) /\ Loose(u) = At(Append(v, e), LooseGaps(u))
  BY <1>4, <1>7 DEF Loose
<1>11. Collapsed(s) = At(v, Gaps(s)) /\ Collapsed(u) = At(Append(v, e), Gaps(u))
  BY <1>4, <1>7, CollapsedIs
<1>12. 1..n \subseteq 1..(n + 1) /\ (\A i \in 1..n : i > 1 => i - 1 \in 1..n)
       /\ n + 1 \in 1..(n + 1) /\ (n + 1) - 1 = n
  OBVIOUS
<1>13. \A i \in 1..n : i \in LooseGaps(s) <=> i \in LooseGaps(u)
  BY <1>2, <1>3, <1>12 DEF LooseGaps
<1>14. CASE r \in Spaces
  <2>1. n + 1 \notin Gaps(u)
    <3>1. \A j \in 1..(n + 1) : ~(j > n + 1)
      OBVIOUS
    <3> QED BY <1>3, <1>14, <3>1 DEF Gaps
  <2>2. \A i \in 1..n : i \in Gaps(s) <=> i \in Gaps(u)
    <3>1. \A i \in 1..n : (\E j \in 1..n : j > i /\ s[j] \notin Spaces) <=>
                          (\E j \in 1..(n + 1) : j > i /\ u[j] \notin Spaces)
      <4>1. \A j \in 1..(n + 1) : j \in 1..n \/ j = n + 1
        OBVIOUS
      <4> QED BY <1>3, <1>12, <1>14, <4>1
    <3> QED BY <1>2, <1>3, <1>12, <3>1 DEF Gaps
  <2>3. Collapsed(u) = Collapsed(s)
    BY <1>8, <1>9, <1>11, <2>1, <2>2
  <2>4. At(v, LooseGaps(u)) = Loose(s)
    BY <1>9, <1>10, <1>13
  <2>5. n + 1 \in LooseGaps(u) <=> s # <<>> /\ s[Len(s)] \notin Spaces
    <3>1. s = <<>> <=> n = 0
      BY <1>2, EmptySeq
    <3>2. n + 1 \in LooseGaps(u) <=> n + 1 > 1 /\ u[n] \notin Spaces
      BY <1>3, <1>12, <1>14 DEF LooseGaps
    <3>3. n + 1 > 1 <=> n # 0
      OBVIOUS
    <3>4. n # 0 => n \in 1..n
      OBVIOUS
    <3> QED BY <1>2, <1>3, <3>1, <3>2, <3>3, <3>4
  <2> QED BY <1>1, <1>6, <1>8, <1>10, <1>14, <2>3, <2>4, <2>5
<1>15. CASE r \notin Spaces
  <2>1. n + 1 \in Gaps(u) /\ n + 1 \in LooseGaps(u)
    BY <1>3, <1>12, <1>15 DEF Gaps, LooseGaps
  <2>2. \A i \in 1..n : i \in LooseGaps(s) <=> i \in Gaps(u)
    <3>1. \A i \in 1..n : n + 1 > i
      OBVIOUS
    <3>2. \A i \in 1..n : \E j \in 1..(n + 1) : j > i /\ u[j] \notin Spaces
      BY <1>3, <1>12, <1>15, <3>1
    <3> QED BY <1>2, <1>3, <1>12, <3>2 DEF LooseGaps, Gaps
  <2>3. At(v, Gaps(u)) = Loose(s) /\ At(v, LooseGaps(u)) = Loose(s)
    BY <1>9, <1>10, <1>13, <2>2
  <2> QED BY <1>1, <1>6, <1>8, <1>10, <1>11, <1>15, <2>1, <2>3
<1> QED BY <1>14, <1>15

\* What a space adds to a text that may end with one.
Spaced(l) == IF l = <<>> \/ l[Len(l)] \in Spaces THEN l ELSE Append(l, Space)

LEMMA Collapses ==
    ASSUME NEW s \in Seq(Runes)
    PROVE  /\ Collapsed(s) \in Seq(Runes) /\ Loose(s) \in Seq(Runes)
           /\ Loose(s) = Collapsed(s) \/ Loose(s) = Append(Collapsed(s), Space)
           /\ \A r \in Runes : Loose(Append(s, r)) = IF r \in Spaces THEN Spaced(Loose(s))
                                                   ELSE Append(Loose(s), r)
<1> DEFINE X == {x \in Seq(Runes) :
                   /\ Collapsed(x) \in Seq(Runes) /\ Loose(x) \in Seq(Runes)
                   /\ Loose(x) = Collapsed(x) \/ Loose(x) = Append(Collapsed(x), Space)
                   /\ Spaced(Loose(x)) =
                        IF x # <<>> /\ x[Len(x)] \notin Spaces THEN Append(Loose(x), Space)
                        ELSE Loose(x)
                   /\ x # <<>> /\ x[Len(x)] \notin Spaces => Loose(x) = Collapsed(x)}
<1>1. <<>> \in X
  <2>1. <<>> \in Seq(Runes) /\ Image(Blank, <<>>) = <<>>
    BY ImageEmpty
  <2>2. Collapsed(<<>>) = <<>> /\ Loose(<<>>) = <<>>
    BY <2>1, CollapsedIs, AtEmpty DEF Loose
  <2>3. Spaced(<<>>) = <<>>
    BY DEF Spaced
  <2> QED BY <2>1, <2>2, <2>3
<1>2. ASSUME NEW x \in Seq(Runes), NEW r \in Runes, x \in X PROVE Append(x, r) \in X
  <2>1. PICK u \in Seq(Runes) : u = Append(x, r)
    BY AppendProperties
  <2>2. u # <<>> /\ u[Len(u)] = r
    BY <2>1, AppendProperties, LenProperties
  <2>3. PICK l \in Seq(Runes) : l = Loose(x)
    BY <1>2
  <2>4. PICK c \in Seq(Runes) : c = Collapsed(x)
    BY <1>2
  <2>5. l = c \/ l = Append(c, Space)
    BY <1>2, <2>3, <2>4
  <2>6. Collapsed(u) = IF r \in Spaces THEN c ELSE Append(l, r)
    BY <2>1, <2>3, <2>4, Collapsing
  <2>7. Loose(u) = IF r \notin Spaces THEN Append(l, r)
                   ELSE IF x # <<>> /\ x[Len(x)] \notin Spaces THEN Append(l, Space) ELSE l
    BY <2>1, <2>3, Collapsing
  <2>8. \A d \in Runes : /\ Append(l, d) \in Seq(Runes) /\ Append(l, d) # <<>>
                        /\ Append(l, d)[Len(Append(l, d))] = d
    <3> TAKE d \in Runes
    <3> QED BY AppendProperties, LenProperties
  <2>9. CASE r \notin Spaces
    <3>1. Collapsed(u) = Append(l, r) /\ Loose(u) = Append(l, r) /\ Append(l, r) \in Seq(Runes)
      BY <2>6, <2>7, <2>8, <2>9
    <3>2. Spaced(Append(l, r)) = Append(Append(l, r), Space)
      BY <2>8, <2>9, Zenon DEF Spaced
    <3> QED BY <2>1, <2>2, <2>9, <3>1, <3>2
  <2>10. CASE r \in Spaces
    <3>1. Collapsed(u) = c
      BY <2>6, <2>10
    <3>2. CASE x # <<>> /\ x[Len(x)] \notin Spaces
      <4>1. Loose(u) = Append(l, Space) /\ Append(l, Space) \in Seq(Runes)
        BY <2>7, <2>8, <2>10, <3>2, SpacesAre
      <4>2. Spaced(Append(l, Space)) = Append(l, Space)
        BY <2>8, SpacesAre, Zenon DEF Spaced
      <4>3. l = c
        BY <1>2, <2>3, <2>4, <3>2
      <4>4. Loose(u) = Append(Collapsed(u), Space)
        BY <3>1, <4>1, <4>3
      <4>5. Spaced(Loose(u)) = Loose(u) /\ u[Len(u)] \in Spaces /\ c \in Seq(Runes)
        BY <2>2, <2>10, <4>1, <4>2
      <4> QED BY <2>1, <3>1, <4>1, <4>4, <4>5, Zenon
    <3>3. CASE x = <<>> \/ x[Len(x)] \in Spaces
      <4>1. Loose(u) = l /\ Spaced(l) = l
        BY <1>2, <2>3, <2>7, <2>10, <3>3
      <4>2. Loose(u) = Collapsed(u) \/ Loose(u) = Append(Collapsed(u), Space)
        BY <2>5, <3>1, <4>1
      <4>3. Spaced(Loose(u)) = Loose(u) /\ u[Len(u)] \in Spaces
        BY <2>2, <2>10, <4>1
      <4> QED BY <2>1, <2>3, <2>4, <3>1, <4>1, <4>2, <4>3, Zenon
    <3> QED BY <3>2, <3>3
  <2> QED BY <2>9, <2>10
<1> HIDE DEF X
<1>3. \A x \in Seq(Runes) : x \in X
  BY <1>1, <1>2, SeqInduct
<1>4. s \in X
  BY <1>3
<1>5. ASSUME NEW r \in Runes
      PROVE  Loose(Append(s, r)) = IF r \in Spaces THEN Spaced(Loose(s)) ELSE Append(Loose(s), r)
  BY <1>4, Collapsing DEF X
<1> QED BY <1>4, <1>5 DEF X

LEMMA CollapsedEmpty == Collapsed(<<>>) = <<>> /\ Loose(<<>>) = <<>>
<1>1. <<>> \in Seq(Runes) /\ Image(Blank, <<>>) = <<>>
  BY ImageEmpty
<1> QED BY <1>1, CollapsedIs, AtEmpty DEF Loose

\* What is no space stays, in order.
LEMMA CollapsedOnly ==
    ASSUME NEW s \in Seq(Runes), NEW P, \A r \in Spaces : r \notin P
    PROVE  Only(Collapsed(s), P) = Only(s, P)
<1> DEFINE X == {x \in Seq(Runes) :
                   Only(Collapsed(x), P) = Only(x, P) /\ Only(Loose(x), P) = Only(x, P)}
<1>1. <<>> \in X
  BY CollapsedEmpty
<1>2. ASSUME NEW x \in Seq(Runes), NEW r \in Runes, x \in X PROVE Append(x, r) \in X
  <2>1. PICK u \in Seq(Runes) : u = Append(x, r)
    BY AppendProperties
  <2>2. PICK l \in Seq(Runes) : l = Loose(x)
    BY Collapses
  <2>3. Only(l, P) = Only(x, P) /\ Only(Collapsed(x), P) = Only(x, P)
    BY <1>2, <2>2
  <2>4. Only(u, P) = IF r \in P THEN Append(Only(x, P), r) ELSE Only(x, P)
    BY <2>1, OnlyAppend
  <2>5. /\ Collapsed(u) = IF r \in Spaces THEN Collapsed(x) ELSE Append(l, r)
        /\ Loose(u) = IF r \in Spaces THEN Spaced(l) ELSE Append(l, r)
    BY <2>1, <2>2, Collapsing, Collapses
  <2>6. Only(Append(l, r), P) = IF r \in P THEN Append(Only(l, P), r) ELSE Only(l, P)
    BY OnlyAppend
  <2>7. Only(Spaced(l), P) = Only(l, P)
    <3>1. Only(Append(l, Space), P) = Only(l, P)
      BY SpacesAre, OnlyAppend
    <3> QED BY <3>1, Zenon DEF Spaced
  <2>8. CASE r \in Spaces
    <3>1. r \notin P
      BY <2>8
    <3>2. Only(Collapsed(u), P) = Only(u, P) /\ Only(Loose(u), P) = Only(u, P)
      BY <2>3, <2>4, <2>5, <2>7, <2>8, <3>1
    <3> QED BY <2>1, <3>2, Zenon
  <2>9. CASE r \notin Spaces
    <3>1. Only(Collapsed(u), P) = Only(u, P) /\ Only(Loose(u), P) = Only(u, P)
      BY <2>3, <2>4, <2>5, <2>6, <2>9
    <3> QED BY <2>1, <3>1, Zenon
  <2> QED BY <2>8, <2>9
<1> HIDE DEF X
<1>3. s \in X
  BY <1>1, <1>2, SeqInduct
<1> QED BY <1>3 DEF X

\* Spaces before and behind do not count.
LEMMA CollapsedBefore ==
    ASSUME NEW a \in Seq(Spaces), NEW s \in Seq(Runes)
    PROVE  Collapsed(a \o s) = Collapsed(s)
<1> DEFINE A == {x \in Seq(Spaces) : Loose(x) = <<>> /\ Collapsed(x) = <<>>}
           X == {x \in Seq(Runes) :
                   Collapsed(a \o x) = Collapsed(x) /\ Loose(a \o x) = Loose(x)}
<1>1. Seq(Spaces) \subseteq Seq(Runes)
  BY SpacesAre, SeqMonotonic
<1>2. a \in A
  <2>1. <<>> \in A
    BY CollapsedEmpty
  <2>2. ASSUME NEW x \in Seq(Spaces), NEW r \in Spaces, x \in A PROVE Append(x, r) \in A
    <3>1. x \in Seq(Runes) /\ r \in Runes /\ Append(x, r) \in Seq(Spaces)
      BY <1>1, SpacesAre, AppendProperties
    <3>2. Collapsed(Append(x, r)) = Collapsed(x) /\ Loose(Append(x, r)) = Spaced(Loose(x))
      BY <3>1, Collapsing, Collapses
    <3>3. Spaced(<<>>) = <<>>
      BY DEF Spaced
    <3> QED BY <2>2, <3>1, <3>2, <3>3
  <2> HIDE DEF A
  <2> QED BY <2>1, <2>2, SeqInduct
<1>3. <<>> \in X
  <2>1. a \o <<>> = a
    BY ConcatEmptySeq
  <2> QED BY <1>2, <2>1, CollapsedEmpty
<1>4. ASSUME NEW x \in Seq(Runes), NEW r \in Runes, x \in X PROVE Append(x, r) \in X
  <2>1. PICK u \in Seq(Runes) : u = Append(x, r)
    BY AppendProperties
  <2>2. PICK v \in Seq(Runes) : v = a \o x
    BY <1>1, ConcatProperties
  <2>3. a \o u = Append(v, r)
    BY <1>1, <2>1, <2>2, ConcatAppend
  <2>4. /\ Collapsed(u) = IF r \in Spaces THEN Collapsed(x) ELSE Append(Loose(x), r)
        /\ Loose(u) = IF r \in Spaces THEN Spaced(Loose(x)) ELSE Append(Loose(x), r)
    BY <2>1, Collapsing, Collapses
  <2>5. /\ Collapsed(Append(v, r)) = IF r \in Spaces THEN Collapsed(v) ELSE Append(Loose(v), r)
        /\ Loose(Append(v, r)) = IF r \in Spaces THEN Spaced(Loose(v)) ELSE Append(Loose(v), r)
    BY Collapsing, Collapses
  <2>6. Collapsed(v) = Collapsed(x) /\ Loose(v) = Loose(x)
    BY <1>4, <2>2
  <2>7. Collapsed(a \o u) = Collapsed(u) /\ Loose(a \o u) = Loose(u)
    BY <2>3, <2>4, <2>5, <2>6, Zenon
  <2> QED BY <2>1, <2>7, Zenon
<1> HIDE DEF X
<1>5. s \in X
  BY <1>3, <1>4, SeqInduct
<1> QED BY <1>5 DEF X

LEMMA CollapsedBehind ==
    ASSUME NEW s \in Seq(Runes), NEW b \in Seq(Spaces)
    PROVE  Collapsed(s \o b) = Collapsed(s)
<1> DEFINE X == {x \in Seq(Spaces) : Collapsed(s \o x) = Collapsed(s)}
<1>1. Seq(Spaces) \subseteq Seq(Runes)
  BY SpacesAre, SeqMonotonic
<1>2. <<>> \in X
  BY ConcatEmptySeq
<1>3. ASSUME NEW x \in Seq(Spaces), NEW r \in Spaces, x \in X PROVE Append(x, r) \in X
  <2>1. PICK v \in Seq(Runes) : v = s \o x
    BY <1>1, ConcatProperties
  <2>2. r \in Runes /\ x \in Seq(Runes) /\ Append(x, r) \in Seq(Spaces)
    BY <1>1, SpacesAre, AppendProperties
  <2>3. s \o Append(x, r) = Append(v, r)
    BY <2>1, <2>2, ConcatAppend
  <2>4. Collapsed(Append(v, r)) = Collapsed(v)
    BY <2>2, Collapsing
  <2> QED BY <1>3, <2>1, <2>2, <2>3, <2>4, Zenon
<1> HIDE DEF X
<1>4. b \in X
  BY <1>2, <1>3, SeqInduct
<1> QED BY <1>4 DEF X

----------------------------------------------------------------------------
(* Digits of any script.                                                     *)

Shown == {r \in Runes : Visible(r)}
AsciiOf == [r \in Runes |-> Ascii(r)]

LEMMA AsciiIs ==
    ASSUME NEW r \in Runes
    PROVE  /\ AsciiOf[r] \in Runes /\ AsciiOf[r] = Ascii(r)
           /\ AsciiOf[r] \in Spaces <=> r \in Spaces
           /\ r \in Spaces => r \in Shown /\ AsciiOf[r] = r
<1>1. AsciiOf[r] = Ascii(r)
  BY DEF AsciiOf
<1>2. r \in Nat
  BY DEF Runes
<1>3. CASE r \in PersianDigits
  <2>1. r \in 1776..1785 /\ Ascii(r) = r - 1776 + 48
    BY <1>3, SMT DEF Ascii, ArabicDigits, PersianDigits, ArabicDecimal
  <2>2. Ascii(r) \in 48..57
    BY <2>1
  <2> QED BY <1>1, <2>1, <2>2 DEF Runes, Spaces, Space
<1>4. CASE r \notin PersianDigits /\ r \in ArabicDigits
  <2>1. r \in 1632..1641 /\ Ascii(r) = r - 1632 + 48
    BY <1>4, SMT DEF Ascii, ArabicDigits, PersianDigits, ArabicDecimal
  <2>2. Ascii(r) \in 48..57
    BY <2>1
  <2> QED BY <1>1, <2>1, <2>2 DEF Runes, Spaces, Space
<1>5. CASE r \notin PersianDigits /\ r \notin ArabicDigits /\ r = ArabicDecimal
  BY <1>1, <1>2, <1>5 DEF Ascii, ArabicDecimal, Dot, Runes, Spaces, Space
<1>6. CASE r \notin PersianDigits /\ r \notin ArabicDigits /\ r # ArabicDecimal
  BY <1>1, <1>2, <1>6 DEF Ascii, Runes, Spaces, Space, Shown, Visible, ZeroWidth
<1>7. r \in Spaces => r \notin PersianDigits /\ r \notin ArabicDigits /\ r # ArabicDecimal
  BY <1>2 DEF Spaces, Space, PersianDigits, ArabicDigits, ArabicDecimal
<1> QED BY <1>3, <1>4, <1>5, <1>6, <1>7

LEMMA DigitsAre ==
    ASSUME NEW s \in Seq(Runes)
    PROVE  Digits(s) = Image(AsciiOf, Only(s, Shown)) /\ Digits(s) \in Seq(Runes)
<1>1. DOMAIN s = 1..Len(s) /\ \A i \in 1..Len(s) : s[i] \in Runes
  BY LenProperties, ElementOfSeq
<1>2. {i \in DOMAIN s : Visible(s[i])} = {i \in 1..Len(s) : s[i] \in Shown}
  BY <1>1, Zenon DEF Shown
<1>3. Select(s, Visible) = Only(s, Shown)
  BY <1>2, Zenon DEF Select, Only
<1>4. PICK kept \in Seq(Runes) : kept = Only(s, Shown)
  BY OnlyType
<1>5. DOMAIN kept = 1..Len(kept) /\ \A i \in 1..Len(kept) : kept[i] \in Runes
  BY LenProperties, ElementOfSeq
<1>6. [i \in DOMAIN kept |-> Ascii(kept[i])] = Image(AsciiOf, kept)
  <2>1. \A i \in 1..Len(kept) : Ascii(kept[i]) = AsciiOf[kept[i]]
    BY <1>5, AsciiIs
  <2> QED BY <1>5, <2>1, Zenon DEF Image
<1>7. Digits(s) = Image(AsciiOf, kept)
  BY <1>3, <1>4, <1>6, Zenon DEF Digits
<1>8. Image(AsciiOf, kept) \in Seq(Runes)
  <2>1. Maps(AsciiOf, Runes, Runes)
    BY AsciiIs DEF Maps
  <2> QED BY <2>1, ImageType
<1> QED BY <1>4, <1>7, <1>8

LEMMA ConcatRules ==
    \A s, t \in Seq(Runes) :
      /\ s \o t \in Seq(Runes)
      /\ \A P : Only(s \o t, P) = Only(s, P) \o Only(t, P)
      /\ \A g : Image(g, s \o t) = Image(g, s) \o Image(g, t)
<1> TAKE s, t \in Seq(Runes)
<1>1. s \o t \in Seq(Runes)
  BY ConcatProperties
<1>2. \A P : Only(s \o t, P) = Only(s, P) \o Only(t, P)
  BY OnlyParts
<1>3. \A g : Image(g, s \o t) = Image(g, s) \o Image(g, t)
  BY ImageParts
<1> QED BY <1>1, <1>2, <1>3

LEMMA DigitsConcat ==
    ASSUME NEW s \in Seq(Runes), NEW t \in Seq(Runes)
    PROVE  Digits(s \o t) = Digits(s) \o Digits(t)
<1>1. PICK c \in Seq(Runes) : c = s \o t
  BY ConcatProperties
<1>2. PICK a \in Seq(Runes) : a = Only(s, Shown)
  BY OnlyType
<1>3. PICK b \in Seq(Runes) : b = Only(t, Shown)
  BY OnlyType
<1>4. Only(c, Shown) = a \o b
  <2>1. \A P : Only(s \o t, P) = Only(s, P) \o Only(t, P)
    BY OnlyParts
  <2> QED BY <1>1, <1>2, <1>3, <2>1, Zenon
<1>5. Image(AsciiOf, a \o b) = Image(AsciiOf, a) \o Image(AsciiOf, b)
  BY ImageParts
<1>6. Digits(c) = Image(AsciiOf, Only(c, Shown)) /\ Digits(s) = Image(AsciiOf, a)
      /\ Digits(t) = Image(AsciiOf, b)
  BY <1>2, <1>3, DigitsAre
<1> QED BY <1>1, <1>4, <1>5, <1>6, Zenon

LEMMA DigitsAppend ==
    ASSUME NEW s \in Seq(Runes), NEW r \in Runes
    PROVE  Digits(Append(s, r)) = IF r \in Shown THEN Append(Digits(s), AsciiOf[r]) ELSE Digits(s)
<1>1. PICK u \in Seq(Runes) : u = Append(s, r)
  BY AppendProperties
<1>2. PICK a \in Seq(Runes) : a = Only(s, Shown)
  BY OnlyType
<1>3. Only(u, Shown) = IF r \in Shown THEN Append(a, r) ELSE a
  BY <1>1, <1>2, OnlyAppend
<1>4. Image(AsciiOf, Append(a, r)) = Append(Image(AsciiOf, a), AsciiOf[r])
  BY ImageAppend
<1>5. Digits(u) = Image(AsciiOf, Only(u, Shown)) /\ Digits(s) = Image(AsciiOf, a)
  BY <1>2, DigitsAre
<1> QED BY <1>1, <1>3, <1>4, <1>5, Zenon

LEMMA CleanType ==
    ASSUME NEW s \in Seq(Runes)
    PROVE  Clean(s) \in Seq(Runes) /\ Clean(s) = Collapsed(Digits(s))
<1>1. Digits(s) \in Seq(Runes)
  BY DigitsAre
<1> QED BY <1>1, Collapses DEF Clean

\* Cleaning what was collapsed before is cleaning it.
LEMMA CleanAgain ==
    ASSUME NEW s \in Seq(Runes)
    PROVE  Clean(Collapsed(s)) = Clean(s)
<1> DEFINE X == {x \in Seq(Runes) :
                   /\ Collapsed(Digits(Collapsed(x))) = Collapsed(Digits(x))
                   /\ Collapsed(Digits(Loose(x))) = Collapsed(Digits(x))
                   /\ Loose(Digits(Loose(x))) = Loose(Digits(x))}
<1>1. <<>> \in X
  BY CollapsedEmpty
<1>2. \A l \in Seq(Runes) : Spaced(Spaced(l)) = Spaced(l)
  <2> TAKE l \in Seq(Runes)
  <2>1. PICK m \in Seq(Runes) : m = Append(l, Space)
    BY SpacesAre, AppendProperties
  <2>2. m[Len(m)] = Space
    BY <2>1, SpacesAre, AppendProperties, LenProperties
  <2>3. Spaced(m) = m
    BY <2>2, SpacesAre, Zenon DEF Spaced
  <2> QED BY <2>1, <2>3, Zenon DEF Spaced
<1>3. ASSUME NEW x \in Seq(Runes), NEW r \in Runes, x \in X PROVE Append(x, r) \in X
  <2>1. PICK u \in Seq(Runes) : u = Append(x, r)
    BY AppendProperties
  <2>2. PICK l \in Seq(Runes) : l = Loose(x)
    BY Collapses
  <2>3. PICK c \in Seq(Runes) : c = Collapsed(x)
    BY Collapses
  <2>4. PICK dl \in Seq(Runes) : dl = Digits(l)
    BY DigitsAre
  <2>5. PICK dc \in Seq(Runes) : dc = Digits(c)
    BY DigitsAre
  <2>6. PICK dx \in Seq(Runes) : dx = Digits(x)
    BY DigitsAre
  <2>7. Collapsed(dc) = Collapsed(dx) /\ Collapsed(dl) = Collapsed(dx) /\ Loose(dl) = Loose(dx)
    BY <1>3, <2>2, <2>3, <2>4, <2>5, <2>6
  <2>8. /\ Collapsed(u) = IF r \in Spaces THEN c ELSE Append(l, r)
        /\ Loose(u) = IF r \in Spaces THEN Spaced(l) ELSE Append(l, r)
    BY <2>1, <2>2, <2>3, Collapsing, Collapses
  <2>9. PICK e \in Runes : e = AsciiOf[r] /\ (e \in Spaces <=> r \in Spaces)
                           /\ (r \in Spaces => r \in Shown /\ e = r)
    BY AsciiIs
  <2>10. /\ Digits(u) = IF r \in Shown THEN Append(dx, e) ELSE dx
         /\ Digits(Append(l, r)) = IF r \in Shown THEN Append(dl, e) ELSE dl
    BY <2>1, <2>4, <2>6, <2>9, DigitsAppend
  <2>11. \A d \in Seq(Runes) :
           /\ Collapsed(Append(d, e)) = IF e \in Spaces THEN Collapsed(d) ELSE Append(Loose(d), e)
           /\ Loose(Append(d, e)) = IF e \in Spaces THEN Spaced(Loose(d)) ELSE Append(Loose(d), e)
    BY Collapsing, Collapses
  <2>12. CASE r \notin Spaces /\ r \in Shown
    <3>1. /\ Collapsed(Append(dl, e)) = Append(Loose(dl), e) /\ Loose(Append(dl, e)) = Append(Loose(dl), e)
          /\ Collapsed(Append(dx, e)) = Append(Loose(dx), e) /\ Loose(Append(dx, e)) = Append(Loose(dx), e)
      BY <2>9, <2>11, <2>12, Zenon
    <3>2. /\ Collapsed(u) = Append(l, r) /\ Loose(u) = Append(l, r)
          /\ Digits(u) = Append(dx, e) /\ Digits(Append(l, r)) = Append(dl, e)
      BY <2>8, <2>10, <2>12
    <3>3. /\ Collapsed(Digits(Collapsed(u))) = Collapsed(Digits(u))
          /\ Collapsed(Digits(Loose(u))) = Collapsed(Digits(u))
          /\ Loose(Digits(Loose(u))) = Loose(Digits(u))
      BY <2>7, <3>1, <3>2, Zenon
    <3> QED BY <2>1, <3>3, Zenon
  <2>13. CASE r \notin Shown
    <3>1. r \notin Spaces
      BY <2>9, <2>13
    <3>2. /\ Collapsed(u) = Append(l, r) /\ Loose(u) = Append(l, r)
          /\ Digits(u) = dx /\ Digits(Append(l, r)) = dl
      BY <2>8, <2>10, <2>13, <3>1
    <3>3. /\ Collapsed(Digits(Collapsed(u))) = Collapsed(Digits(u))
          /\ Collapsed(Digits(Loose(u))) = Collapsed(Digits(u))
          /\ Loose(Digits(Loose(u))) = Loose(Digits(u))
      BY <2>7, <3>2, Zenon
    <3> QED BY <2>1, <3>3, Zenon
  <2>14. CASE r \in Spaces
    <3>1. PICK ds \in Seq(Runes) : ds = Append(dl, Space)
      BY SpacesAre, AppendProperties
    <3>2. Digits(Append(l, Space)) = ds
      <4>1. AsciiOf[Space] = Space /\ Space \in Shown
        BY SpacesAre, AsciiIs
      <4> QED BY <2>4, <3>1, <4>1, SpacesAre, DigitsAppend
    <3>3. Collapsed(ds) = Collapsed(dl) /\ Loose(ds) = Spaced(Loose(dl))
      BY <3>1, SpacesAre, Collapsing, Collapses
    <3>4. Digits(u) = Append(dx, e) /\ e \in Spaces
      BY <2>9, <2>10, <2>14
    <3>5. Collapsed(Digits(u)) = Collapsed(dx) /\ Loose(Digits(u)) = Spaced(Loose(dx))
      BY <2>11, <3>4, Zenon
    <3>6. Collapsed(u) = c /\ Loose(u) = Spaced(l)
      BY <2>8, <2>14
    <3>7. Collapsed(Digits(Spaced(l))) = Collapsed(dx)
      BY <2>4, <2>7, <3>2, <3>3, Zenon DEF Spaced
    <3>8. Loose(Digits(Spaced(l))) = Spaced(Loose(dx))
      <4>1. CASE l = <<>> \/ l[Len(l)] \in Spaces
        <5>1. CASE l = <<>>
          <6>1. dl = <<>>
            <7>1. Only(<<>>, Shown) = <<>> /\ <<>> \in Seq(Runes)
              BY OnlyEmpty
            <7> QED BY <2>4, <5>1, <7>1, DigitsAre, ImageEmpty
          <6>2. Spaced(Loose(dl)) = Loose(dl)
            BY <6>1, CollapsedEmpty, Zenon DEF Spaced
          <6> QED BY <2>4, <2>7, <4>1, <6>2, Zenon DEF Spaced
        <5>2. CASE l # <<>> /\ l[Len(l)] \in Spaces
          <6>1. PICK k \in Seq(Runes), q \in Runes : l = Append(k, q)
            BY <5>2, SequenceEmptyOrAppend
          <6>2. q \in Spaces
            BY <5>2, <6>1, AppendProperties, LenProperties
          <6>3. PICK dk \in Seq(Runes) : dk = Digits(k)
            BY DigitsAre
          <6>4. AsciiOf[q] = q /\ q \in Shown
            BY <6>2, AsciiIs
          <6>5. dl = Append(dk, q)
            BY <2>4, <6>1, <6>3, <6>4, DigitsAppend
          <6>6. Loose(dl) = Spaced(Loose(dk)) /\ Loose(dk) \in Seq(Runes)
            BY <6>2, <6>5, Collapses
          <6>7. Spaced(Loose(dl)) = Loose(dl)
            BY <1>2, <6>6
          <6> QED BY <2>4, <2>7, <4>1, <6>7, Zenon DEF Spaced
        <5> QED BY <4>1, <5>1, <5>2
      <4>2. CASE ~(l = <<>> \/ l[Len(l)] \in Spaces)
        <5>1. Spaced(l) = Append(l, Space)
          BY <4>2, Zenon DEF Spaced
        <5> QED BY <2>7, <3>2, <3>3, <5>1
      <4> QED BY <4>1, <4>2
    <3>9. /\ Collapsed(Digits(Collapsed(u))) = Collapsed(Digits(u))
          /\ Collapsed(Digits(Loose(u))) = Collapsed(Digits(u))
          /\ Loose(Digits(Loose(u))) = Loose(Digits(u))
      BY <2>5, <2>7, <3>5, <3>6, <3>7, <3>8, Zenon
    <3> QED BY <2>1, <3>9, Zenon
  <2> QED BY <2>12, <2>13, <2>14
<1> HIDE DEF X
<1>4. s \in X
  BY <1>1, <1>3, SeqInduct
<1> QED BY <1>4 DEF X, Clean

----------------------------------------------------------------------------
(* What of a text a number is read from: the digits, points, signs and       *)
(* parentheses.                                                              *)

Marked == {r \in Runes : AsciiOf[r] \in AsciiDigits \cup {Dot, Minus, Open, Shut}}
Ink(s) == Image(AsciiOf, Only(s, Marked))

LEMMA MarkedIs ==
    ASSUME NEW r \in Runes
    PROVE  /\ AsciiOf[AsciiOf[r]] = AsciiOf[r]
           /\ AsciiOf[r] \in Marked <=> r \in Marked
           /\ r \in Marked => r \in Shown /\ r \notin Spaces
<1>1. AsciiOf[r] \in Runes
  BY AsciiIs
<1>2. AsciiOf[AsciiOf[r]] = AsciiOf[r]
  <2>1. AsciiOf[r] = Ascii(r) /\ AsciiOf[Ascii(r)] = Ascii(Ascii(r))
    BY <1>1, AsciiIs
  <2>2. \A q \in Runes : q \notin PersianDigits /\ q \notin ArabicDigits /\ q # ArabicDecimal
                            => Ascii(q) = q
    BY DEF Ascii
  <2>3. Ascii(r) \notin PersianDigits /\ Ascii(r) \notin ArabicDigits /\ Ascii(r) # ArabicDecimal
    <3>1. r \in Nat
      BY DEF Runes
    <3>2. CASE r \in PersianDigits
      <4>1. r \in 1776..1785 /\ Ascii(r) = r - 1776 + 48
        BY <3>2, SMT DEF Ascii, ArabicDigits, PersianDigits, ArabicDecimal
      <4> QED BY <4>1 DEF ArabicDigits, PersianDigits, ArabicDecimal
    <3>3. CASE r \notin PersianDigits /\ r \in ArabicDigits
      <4>1. r \in 1632..1641 /\ Ascii(r) = r - 1632 + 48
        BY <3>3, SMT DEF Ascii, ArabicDigits, PersianDigits, ArabicDecimal
      <4> QED BY <4>1 DEF ArabicDigits, PersianDigits, ArabicDecimal
    <3>4. CASE r \notin PersianDigits /\ r \notin ArabicDigits /\ r = ArabicDecimal
      BY <3>4 DEF Ascii, ArabicDigits, PersianDigits, ArabicDecimal, Dot
    <3>5. CASE r \notin PersianDigits /\ r \notin ArabicDigits /\ r # ArabicDecimal
      BY <3>5, <2>2
    <3> QED BY <3>2, <3>3, <3>4, <3>5
  <2> QED BY <1>1, <2>1, <2>2, <2>3
<1>3. AsciiOf[r] \in Marked <=> r \in Marked
  BY <1>1, <1>2 DEF Marked
<1>4. ASSUME r \in Marked PROVE r \in Shown /\ r \notin Spaces
  <2>1. r \notin Spaces
    <3>1. AsciiOf[r] \notin Spaces
      BY <1>4 DEF Marked, AsciiDigits, Dot, Minus, Open, Shut, Spaces, Space
    <3> QED BY <3>1, AsciiIs
  <2>2. r \in Shown
    <3>1. r \in Nat
      BY DEF Runes
    <3>2. CASE r \in ZeroWidth
      <4>1. Ascii(r) = r
        BY <3>1, <3>2, SMT DEF Ascii, ZeroWidth, ArabicDigits, PersianDigits, ArabicDecimal
      <4>2. r \notin AsciiDigits \cup {Dot, Minus, Open, Shut}
        BY <3>1, <3>2 DEF ZeroWidth, AsciiDigits, Dot, Minus, Open, Shut
      <4> QED BY <1>4, <4>1, <4>2, AsciiIs DEF Marked
    <3> QED BY <3>2 DEF Shown, Visible
  <2> QED BY <2>1, <2>2
<1> QED BY <1>2, <1>3, <1>4

LEMMA OnlyOnly ==
    ASSUME NEW S, NEW s \in Seq(S), NEW P, NEW Q, \A x \in S : x \in Q => x \in P
    PROVE  Only(Only(s, P), Q) = Only(s, Q)
<1> DEFINE X == {t \in Seq(S) : Only(Only(t, P), Q) = Only(t, Q)}
<1>1. <<>> \in X
  BY OnlyEmpty
<1>2. ASSUME NEW t \in Seq(S), NEW e \in S, t \in X PROVE Append(t, e) \in X
  <2>1. PICK u \in Seq(S) : u = Append(t, e)
    BY AppendProperties
  <2>2. PICK o \in Seq(S) : o = Only(t, P)
    BY OnlyType
  <2>3. Only(u, P) = IF e \in P THEN Append(o, e) ELSE o
    BY <2>1, <2>2, OnlyAppend
  <2>4. Only(u, Q) = IF e \in Q THEN Append(Only(t, Q), e) ELSE Only(t, Q)
    BY <2>1, OnlyAppend
  <2>5. Only(Append(o, e), Q) = IF e \in Q THEN Append(Only(o, Q), e) ELSE Only(o, Q)
    BY OnlyAppend
  <2>6. Only(o, Q) = Only(t, Q)
    BY <1>2, <2>2
  <2>7. Only(Only(u, P), Q) = Only(u, Q)
    BY <2>3, <2>4, <2>5, <2>6, Zenon
  <2> QED BY <2>1, <2>7, Zenon
<1> HIDE DEF X
<1>3. s \in X
  BY <1>1, <1>2, SeqInduct
<1> QED BY <1>3 DEF X

\* Rewriting its digits, collapsing its spaces or cutting them off leaves the
\* ink of a text as it is.
LEMMA InkOfDigits ==
    ASSUME NEW s \in Seq(Runes)
    PROVE  Only(Digits(s), Marked) = Ink(s) /\ Ink(Digits(s)) = Ink(s) /\ Ink(s) \in Seq(Runes)
<1>1. PICK k \in Seq(Runes) : k = Only(s, Shown)
  BY OnlyType
<1>2. Digits(s) = Image(AsciiOf, k)
  BY <1>1, DigitsAre
<1>3. PICK m \in Seq(Runes) : m = Only(s, Marked)
  BY OnlyType
<1>4. Only(k, Marked) = m
  BY <1>1, <1>3, MarkedIs, OnlyOnly
<1>5. Only(Image(AsciiOf, k), Marked) = Image(AsciiOf, Only(k, Marked))
  BY MarkedIs, OnlyImage
<1>6. Only(Digits(s), Marked) = Ink(s)
  BY <1>2, <1>3, <1>4, <1>5, Zenon DEF Ink
<1>7. Image(AsciiOf, Image(AsciiOf, m)) = Image(AsciiOf, m)
  BY MarkedIs, ImageImage
<1>8. Ink(s) \in Seq(Runes)
  <2>1. Maps(AsciiOf, Runes, Runes)
    BY AsciiIs DEF Maps
  <2> QED BY <1>3, <2>1, ImageType DEF Ink
<1> QED BY <1>3, <1>6, <1>7, <1>8, Zenon DEF Ink

LEMMA InkOfCollapsed ==
    ASSUME NEW s \in Seq(Runes)
    PROVE  Ink(Collapsed(s)) = Ink(s)
<1>1. \A r \in Spaces : r \notin Marked
  BY SpacesAre, MarkedIs
<1>2. Only(Collapsed(s), Marked) = Only(s, Marked)
  BY <1>1, CollapsedOnly
<1> QED BY <1>2 DEF Ink

LEMMA InkOfClean ==
    ASSUME NEW s \in Seq(Runes)
    PROVE  Ink(Clean(s)) = Ink(s) /\ Only(Clean(s), Marked) = Ink(s)
<1>1. PICK d \in Seq(Runes) : d = Digits(s)
  BY DigitsAre
<1>2. Ink(Collapsed(d)) = Ink(d) /\ Ink(d) = Ink(s) /\ Only(d, Marked) = Ink(s)
  BY <1>1, InkOfCollapsed, InkOfDigits
<1>3. Only(Collapsed(d), Marked) = Only(d, Marked)
  <2>1. \A r \in Spaces : r \notin Marked
    BY SpacesAre, MarkedIs
  <2> QED BY <2>1, CollapsedOnly
<1> QED BY <1>1, <1>2, <1>3, Zenon DEF Clean

LEMMA InkConcat ==
    \A s, t \in Seq(Runes) : Ink(s \o t) = Ink(s) \o Ink(t)
<1> TAKE s, t \in Seq(Runes)
<1>1. PICK a \in Seq(Runes) : a = Only(s, Marked)
  BY OnlyType
<1>2. PICK b \in Seq(Runes) : b = Only(t, Marked)
  BY OnlyType
<1>3. \A P : Only(s \o t, P) = Only(s, P) \o Only(t, P)
  BY OnlyParts
<1>4. Image(AsciiOf, a \o b) = Image(AsciiOf, a) \o Image(AsciiOf, b)
  BY ImageParts
<1> QED BY <1>1, <1>2, <1>3, <1>4, Zenon DEF Ink

\* Cutting off spaces leaves the ink, and a cleaned text as it is.
LEMMA OnlyAt ==
    ASSUME NEW S, NEW s \in Seq(S), NEW W, NEW P, \A i \in 1..Len(s) : s[i] \in P => i \in W
    PROVE  Only(At(s, W), P) = Only(s, P)
<1> DEFINE X == {t \in Seq(S) : (\A i \in 1..Len(t) : t[i] \in P => i \in W) =>
                                   Only(At(t, W), P) = Only(t, P)}
<1>1. <<>> \in X
  BY AtEmpty
<1>2. ASSUME NEW t \in Seq(S), NEW e \in S, t \in X PROVE Append(t, e) \in X
  <2>1. PICK u \in Seq(S) : u = Append(t, e)
    BY AppendProperties
  <2>2. /\ Len(u) = Len(t) + 1 /\ Len(t) \in Nat /\ u[Len(t) + 1] = e
        /\ \A i \in 1..Len(t) : u[i] = t[i]
    BY <2>1, AppendProperties, LenProperties
  <2>3. SUFFICES ASSUME \A i \in 1..Len(u) : u[i] \in P => i \in W
                 PROVE  Only(At(u, W), P) = Only(u, P)
    BY <2>1
  <2>4. (\A i \in 1..Len(t) : t[i] \in P => i \in W) /\ (e \in P => Len(t) + 1 \in W)
    <3>1. 1..Len(t) \subseteq 1..Len(u) /\ Len(t) + 1 \in 1..Len(u)
      BY <2>2
    <3> QED BY <2>2, <2>3, <3>1
  <2>5. PICK a \in Seq(S) : a = At(t, W)
    BY AtType
  <2>6. Only(a, P) = Only(t, P)
    BY <1>2, <2>4, <2>5
  <2>7. At(u, W) = IF Len(t) + 1 \in W THEN Append(a, e) ELSE a
    BY <2>1, <2>5, AtAppend
  <2>8. Only(u, P) = IF e \in P THEN Append(Only(t, P), e) ELSE Only(t, P)
    BY <2>1, OnlyAppend
  <2>9. Only(Append(a, e), P) = IF e \in P THEN Append(Only(a, P), e) ELSE Only(a, P)
    BY OnlyAppend
  <2>10. CASE e \in P
    <3>1. At(u, W) = Append(a, e) /\ Only(Append(a, e), P) = Append(Only(a, P), e)
      BY <2>4, <2>7, <2>9, <2>10
    <3> QED BY <2>6, <2>8, <2>10, <3>1
  <2>11. CASE e \notin P
    <3>1. Only(At(u, W), P) = Only(a, P)
      BY <2>7, <2>9, <2>11
    <3> QED BY <2>6, <2>8, <2>11, <3>1
  <2> QED BY <2>10, <2>11
<1> HIDE DEF X
<1>3. s \in X
  BY <1>1, <1>2, SeqInduct
<1> QED BY <1>3 DEF X

LEMMA InkOfTrimmed ==
    ASSUME NEW s \in Seq(Runes)
    PROVE  TrimSpace(s) \in Seq(Runes) /\ Ink(TrimSpace(s)) = Ink(s)
<1> DEFINE words == {i \in DOMAIN s : s[i] \notin Spaces}
           W == {i \in DOMAIN s : \E j, k \in words : j <= i /\ i <= k}
<1>1. TrimSpace(s) = At(s, W)
  BY Zenon DEF TrimSpace
<1>2. \A i \in 1..Len(s) : s[i] \in Marked => i \in W
  <2> TAKE i \in 1..Len(s)
  <2>1. DOMAIN s = 1..Len(s) /\ i <= i /\ s[i] \in Runes
    BY LenProperties, ElementOfSeq
  <2>2. s[i] \in Marked => s[i] \notin Spaces
    BY <2>1, MarkedIs
  <2> QED BY <2>1, <2>2
<1> HIDE DEF W
<1>3. Only(At(s, W), Marked) = Only(s, Marked) /\ At(s, W) \in Seq(Runes)
  BY <1>2, OnlyAt, AtType
<1> QED BY <1>1, <1>3 DEF Ink

LEMMA CollapsedEnds ==
    ASSUME NEW s \in Seq(Runes)
    PROVE  \/ Collapsed(s) = <<>>
           \/ Collapsed(s)[1] \notin Spaces /\ Collapsed(s)[Len(Collapsed(s))] \notin Spaces
<1> DEFINE X == {x \in Seq(Runes) :
                   /\ Loose(x) = <<>> \/ Loose(x)[1] \notin Spaces
                   /\ \/ Collapsed(x) = <<>>
                      \/ /\ Collapsed(x)[1] \notin Spaces
                         /\ Collapsed(x)[Len(Collapsed(x))] \notin Spaces}
<1>1. <<>> \in X
  BY CollapsedEmpty
<1>2. ASSUME NEW x \in Seq(Runes), NEW r \in Runes, x \in X PROVE Append(x, r) \in X
  <2>1. PICK u \in Seq(Runes) : u = Append(x, r)
    BY AppendProperties
  <2>2. PICK l \in Seq(Runes) : l = Loose(x)
    BY Collapses
  <2>3. /\ Collapsed(u) = IF r \in Spaces THEN Collapsed(x) ELSE Append(l, r)
        /\ Loose(u) = IF r \in Spaces THEN Spaced(l) ELSE Append(l, r)
    BY <2>1, <2>2, Collapsing, Collapses
  <2>4. l = <<>> \/ l[1] \notin Spaces
    BY <1>2, <2>2
  <2>5. \A e \in Runes : /\ Append(l, e)[Len(Append(l, e))] = e
                         /\ Append(l, e)[1] = IF l = <<>> THEN e ELSE l[1]
    <3> TAKE e \in Runes
    <3>1. Len(l) \in Nat /\ (l = <<>> <=> Len(l) = 0)
      BY LenProperties, EmptySeq
    <3>2. /\ Len(Append(l, e)) = Len(l) + 1 /\ Append(l, e)[Len(l) + 1] = e
          /\ \A i \in 1..Len(l) : Append(l, e)[i] = l[i]
      BY AppendProperties
    <3>3. Len(l) # 0 => 1 \in 1..Len(l)
      BY <3>1
    <3> QED BY <3>1, <3>2, <3>3
  <2>6. Spaced(l) = <<>> \/ Spaced(l)[1] \notin Spaces
    <3>1. CASE l = <<>>
      BY <3>1, Zenon DEF Spaced
    <3>2. CASE l # <<>>
      <4>1. Append(l, Space)[1] = l[1]
        BY <2>5, <3>2, SpacesAre
      <4> QED BY <2>4, <3>2, <4>1, Zenon DEF Spaced
    <3> QED BY <3>1, <3>2
  <2>7. CASE r \in Spaces
    BY <1>2, <2>1, <2>3, <2>6, <2>7, Zenon
  <2>8. CASE r \notin Spaces
    <3>1. Append(l, r)[1] \notin Spaces /\ Append(l, r)[Len(Append(l, r))] \notin Spaces
      BY <2>4, <2>5, <2>8, Zenon
    <3>2. Collapsed(u) = Append(l, r) /\ Loose(u) = Append(l, r)
      BY <2>3, <2>8
    <3> QED BY <2>1, <3>1, <3>2, Zenon
  <2> QED BY <2>7, <2>8
<1> HIDE DEF X
<1>3. s \in X
  BY <1>1, <1>2, SeqInduct
<1> QED BY <1>3 DEF X

LEMMA TrimmedClean ==
    ASSUME NEW s \in Seq(Runes)
    PROVE  TrimSpace(Clean(s)) = Clean(s)
<1>1. PICK d \in Seq(Runes) : d = Digits(s)
  BY DigitsAre
<1>2. PICK c \in Seq(Runes) : c = Collapsed(d)
  BY Collapses
<1>3. c = <<>> \/ (c[1] \notin Spaces /\ c[Len(c)] \notin Spaces)
  BY <1>2, CollapsedEnds
<1> DEFINE words == {i \in DOMAIN c : c[i] \notin Spaces}
           W == {i \in DOMAIN c : \E j, k \in words : j <= i /\ i <= k}
<1>4. \A i \in 1..Len(c) : i \in W
  <2> TAKE i \in 1..Len(c)
  <2>1. DOMAIN c = 1..Len(c) /\ Len(c) \in Nat /\ c # <<>>
    BY LenProperties, EmptySeq
  <2>2. 1 \in words /\ Len(c) \in words /\ 1 <= i /\ i <= Len(c)
    BY <1>3, <2>1
  <2> QED BY <2>1, <2>2
<1> HIDE DEF W
<1>5. At(c, W) = c
  BY <1>4, AtAll
<1>6. TrimSpace(c) = At(c, W)
  BY Zenon DEF TrimSpace, W
<1> QED BY <1>1, <1>2, <1>5, <1>6 DEF Clean

----------------------------------------------------------------------------
(* A text at the first of a mark.                                            *)

LEMMA OnlyFrom ==
    ASSUME NEW S, NEW s \in Seq(S), NEW P
    PROVE  \A i \in 1..Len(Only(s, P)) : \E j \in 1..Len(s) : Only(s, P)[i] = s[j]
<1> DEFINE V == {s[j] : j \in 1..Len(s)}
<1>1. V \subseteq S
  BY ElementOfSeq
<1>2. s \in Seq(V)
  <2>1. s = [i \in 1..Len(s) |-> s[i]] /\ Len(s) \in Nat
    BY LenProperties
  <2>2. \A i \in 1..Len(s) : s[i] \in V
    OBVIOUS
  <2> HIDE DEF V
  <2> QED BY <2>1, <2>2, IsASeq
<1> HIDE DEF V
<1>3. \A i \in 1..Len(Only(s, P)) : Only(s, P)[i] \in V
  BY <1>2, OnlyIn
<1> QED BY <1>3 DEF V

\* Cut(c, u, m, v): m stands in c between u, where it does not occur, and v.
Free(u, m) == \A i \in 1..Len(u) : u[i] # m
Cut(c, u, m, v) ==
    /\ Len(c) = Len(u) + 1 + Len(v)
    /\ \A i \in 1..Len(u) : c[i] = u[i]
    /\ c[Len(u) + 1] = m
    /\ \A i \in 1..Len(v) : c[Len(u) + 1 + i] = v[i]

LEMMA CutMade ==
    ASSUME NEW S, NEW u \in Seq(S), NEW m \in S, NEW v \in Seq(S)
    PROVE  Cut((u \o <<m>>) \o v, u, m, v) /\ (u \o <<m>>) \o v \in Seq(S)
<1>1. PICK w \in Seq(S) : w = Append(u, m) /\ Len(w) = Len(u) + 1 /\ w[Len(u) + 1] = m
                          /\ \A i \in 1..Len(u) : w[i] = u[i]
  <2>1. /\ Append(u, m) \in Seq(S) /\ Len(Append(u, m)) = Len(u) + 1
        /\ Append(u, m)[Len(u) + 1] = m /\ \A i \in 1..Len(u) : Append(u, m)[i] = u[i]
    BY AppendProperties
  <2> QED BY <2>1
<1>2. u \o <<m>> = w
  <2>1. u \o Append(<<>>, m) = Append(u \o <<>>, m) /\ u \o <<>> = u
    BY ConcatAppend, ConcatEmptySeq
  <2>2. Append(<<>>, m) = <<m>>
    OBVIOUS
  <2> QED BY <1>1, <2>1, <2>2
<1>3. PICK c : Joined(c, w, v)
  BY DEF Joined
<1>4. c \in Seq(S) /\ Parts(c, w, v)
  BY <1>3, JoinedParts
<1>5. PICK n \in Nat, k \in Nat : n = Len(u) /\ k = Len(v)
  BY LenProperties
<1>6. Cut(c, u, m, v)
  <2>1. 1..n \subseteq 1..(n + 1) /\ n + 1 \in 1..(n + 1) /\ (n + 1) + k = n + 1 + k
    OBVIOUS
  <2>2. Len(c) = (n + 1) + k /\ (\A i \in 1..(n + 1) : c[i] = w[i])
        /\ \A i \in 1..k : c[(n + 1) + i] = v[i]
    BY <1>1, <1>4, <1>5, Zenon DEF Parts
  <2> QED BY <1>1, <1>5, <2>1, <2>2 DEF Cut
<1> QED BY <1>2, <1>3, <1>4, <1>6, Zenon DEF Joined

LEMMA CutOnce ==
    ASSUME NEW S, NEW m \in S, NEW c \in Seq(S),
           NEW u \in Seq(S), NEW v \in Seq(S), Cut(c, u, m, v), Free(u, m),
           NEW x \in Seq(S), NEW y \in Seq(S), Cut(c, x, m, y), Free(x, m)
    PROVE  u = x /\ v = y
<1>1. Len(u) \in Nat /\ Len(v) \in Nat /\ Len(x) \in Nat /\ Len(y) \in Nat
  BY LenProperties
<1>2. PICK nu \in Nat, nv \in Nat, nx \in Nat, ny \in Nat :
         nu = Len(u) /\ nv = Len(v) /\ nx = Len(x) /\ ny = Len(y)
  BY <1>1
<1>3. /\ Len(c) = nu + 1 + nv /\ Len(c) = nx + 1 + ny
      /\ c[nu + 1] = m /\ c[nx + 1] = m
      /\ (\A i \in 1..nu : c[i] = u[i] /\ u[i] # m) /\ \A i \in 1..nx : c[i] = x[i] /\ x[i] # m
  BY <1>2, Zenon DEF Cut, Free
<1>4. nu = nx
  <2>1. ~(nu < nx)
    <3>1. nu < nx => nu + 1 \in 1..nx
      OBVIOUS
    <3> QED BY <1>3, <3>1
  <2>2. ~(nx < nu)
    <3>1. nx < nu => nx + 1 \in 1..nu
      OBVIOUS
    <3> QED BY <1>3, <3>1
  <2> QED BY <2>1, <2>2
<1>5. nv = ny
  BY <1>3, <1>4
<1>6. \A i \in 1..nu : u[i] = x[i]
  BY <1>3, <1>4
<1>7. \A i \in 1..nv : v[i] = y[i]
  BY <1>2, <1>4, <1>5, Zenon DEF Cut
<1>8. u = x
  BY <1>2, <1>4, <1>6, SeqEqual
<1>9. v = y
  BY <1>2, <1>5, <1>7, SeqEqual
<1> QED BY <1>8, <1>9

LEMMA CutIs ==
    ASSUME NEW S, NEW c \in Seq(S), NEW u \in Seq(S), NEW m \in S, NEW v \in Seq(S),
           Cut(c, u, m, v)
    PROVE  c = (u \o <<m>>) \o v
<1>1. PICK d : d = (u \o <<m>>) \o v
  OBVIOUS
<1>2. d \in Seq(S) /\ Cut(d, u, m, v)
  BY <1>1, CutMade, Zenon
<1>3. PICK n \in Nat, k \in Nat : n = Len(u) /\ k = Len(v)
  BY LenProperties
<1>4. Len(c) = n + 1 + k /\ Len(d) = n + 1 + k
  BY <1>2, <1>3, Zenon DEF Cut
<1>5. /\ \A i \in 1..n : c[i] = d[i]
      /\ c[n + 1] = d[n + 1]
      /\ \A i \in 1..k : c[n + 1 + i] = d[n + 1 + i]
  BY <1>2, <1>3, Zenon DEF Cut
<1>6. \A i \in 1..(n + 1 + k) : i \in 1..n \/ i = n + 1 \/ \E j \in 1..k : i = n + 1 + j
  <2> TAKE i \in 1..(n + 1 + k)
  <2>1. i > n + 1 => i - (n + 1) \in 1..k /\ i = n + 1 + (i - (n + 1))
    OBVIOUS
  <2>2. i \in 1..n \/ i = n + 1 \/ i > n + 1
    OBVIOUS
  <2> QED BY <2>1, <2>2
<1>7. \A i \in 1..(n + 1 + k) : c[i] = d[i]
  BY <1>5, <1>6, Zenon
<1>8. c = d
  BY <1>2, <1>4, <1>7, SeqEqual
<1> QED BY <1>1, <1>8

LEMMA OnlyAround ==
    ASSUME NEW S, NEW c \in Seq(S), NEW a \in Seq(S), NEW m \in S, NEW b \in Seq(S),
           Cut(c, a, m, b), NEW P, m \in P
    PROVE  Cut(Only(c, P), Only(a, P), m, Only(b, P))
<1>00. \A x, y \in Seq(S) : Only(x \o y, P) = Only(x, P) \o Only(y, P)
  BY OnlyParts
<1>1. PICK w : w = <<m>>
  OBVIOUS
<1>0. w \in Seq(S) /\ Len(w) = 1 /\ w[1] = m
  BY <1>1
<1>2. \A i \in 1..Len(w) : w[i] \in P
  BY <1>0
<1>3. Only(w, P) = w
  BY <1>0, <1>2, OnlyAll
<1>4. PICK d \in Seq(S) : d = a \o w
  BY <1>0, ConcatProperties
<1>5. Only(d, P) = Only(a, P) \o w
  <2>1. w \in Seq(S)
    BY <1>0
  <2>2. Only(a \o w, P) = Only(a, P) \o Only(w, P)
    BY <1>00, <2>1, Zenon
  <2> QED BY <1>3, <1>4, <2>2, Zenon
<1>6. Only(d \o b, P) = Only(d, P) \o Only(b, P)
  BY <1>00, Zenon
<1>7. d \o b = c
  <2>1. c = (a \o <<m>>) \o b
    BY CutIs
  <2> QED BY <1>1, <1>4, <2>1
<1>8. Only(c, P) = (Only(a, P) \o <<m>>) \o Only(b, P)
  BY <1>1, <1>5, <1>6, <1>7
<1>9. PICK x \in Seq(S), y \in Seq(S) : x = Only(a, P) /\ y = Only(b, P)
  BY OnlyType
<1>10. Cut((x \o <<m>>) \o y, x, m, y)
  BY CutMade
<1> QED BY <1>8, <1>9, <1>10

\* A text is cut where its marks are.
CutAt(S, s, P, m, k, u, v) ==
    /\ s[k] = m /\ \A i \in 1..(k - 1) : s[i] # m
    /\ SubSeq(s, 1, k - 1) \in Seq(S) /\ SubSeq(s, k + 1, Len(s)) \in Seq(S)
    /\ Only(SubSeq(s, 1, k - 1), P) = u
    /\ Only(SubSeq(s, k + 1, Len(s)), P) = v
LEMMA OnlyCut ==
    ASSUME NEW S, NEW s \in Seq(S), NEW P, NEW m \in S, m \in P,
           NEW u \in Seq(S), NEW v \in Seq(S), Cut(Only(s, P), u, m, v), Free(u, m)
    PROVE  \E k \in 1..Len(s) : CutAt(S, s, P, m, k, u, v)
<1>1. PICK c \in Seq(S) : c = Only(s, P)
  BY OnlyType
<1>2. \E j \in 1..Len(s) : s[j] = m
  <2>1. Len(u) \in Nat /\ Len(v) \in Nat
    BY LenProperties
  <2>2. Len(c) = Len(u) + 1 + Len(v) /\ c[Len(u) + 1] = m
    BY <1>1 DEF Cut
  <2>3. Len(u) + 1 \in 1..Len(c)
    BY <2>1, <2>2
  <2>4. \A i \in 1..Len(c) : \E j \in 1..Len(s) : c[i] = s[j]
    BY <1>1, OnlyFrom
  <2>5. \E j \in 1..Len(s) : c[Len(u) + 1] = s[j]
    BY <2>3, <2>4, Zenon
  <2> QED BY <2>2, <2>5
<1> DEFINE T == {j \in 1..Len(s) : s[j] = m}
<1>3. PICK k \in T : \A j \in T : k <= j
  <2>1. T \subseteq Nat /\ T # {}
    BY <1>2
  <2> HIDE DEF T
  <2> QED BY <2>1, Least
<1>4. PICK n \in Nat : n = Len(s)
  BY LenProperties
<1>5. k \in 1..n /\ s[k] = m /\ \A i \in 1..(k - 1) : s[i] # m
  <2>1. \A i \in 1..(k - 1) : i \in 1..n /\ ~(k <= i)
    BY <1>4
  <2> QED BY <1>3, <1>4, <2>1
<1> HIDE DEF T
<1>6. k \in Nat /\ k - 1 \in Nat /\ k + 1 \in Nat /\ (k - 1) + 1 = k
      /\ 1 <= (k - 1) + 1 /\ k - 1 <= n /\ 1 <= k + 1 /\ k + 1 <= n + 1
      /\ (n + 1) - (k + 1) \in Nat
      /\ (k - 1) + 1 + ((n + 1) - (k + 1)) = n
  BY <1>5
<1>7. PICK a \in Seq(S) : /\ a = SubSeq(s, 1, k - 1) /\ Len(a) = k - 1
                          /\ \A i \in 1..(k - 1) : a[i] = s[i]
  <2>1. /\ SubSeq(s, 1, k - 1) \in Seq(S) /\ Len(SubSeq(s, 1, k - 1)) = ((k - 1) + 1) - 1
        /\ \A i \in 1..(((k - 1) + 1) - 1) : SubSeq(s, 1, k - 1)[i] = s[(1 - 1) + i]
    BY <1>4, <1>6, SubSeqOf
  <2>2. ((k - 1) + 1) - 1 = k - 1 /\ \A i \in 1..(k - 1) : (1 - 1) + i = i
    BY <1>6
  <2> QED BY <2>1, <2>2
<1>8. PICK b \in Seq(S) : /\ b = SubSeq(s, k + 1, n) /\ Len(b) = (n + 1) - (k + 1)
                          /\ \A i \in 1..((n + 1) - (k + 1)) : b[i] = s[k + i]
  <2>1. /\ SubSeq(s, k + 1, n) \in Seq(S) /\ Len(SubSeq(s, k + 1, n)) = (n + 1) - (k + 1)
        /\ \A i \in 1..((n + 1) - (k + 1)) : SubSeq(s, k + 1, n)[i] = s[((k + 1) - 1) + i]
    BY <1>4, <1>6, SubSeqOf
  <2>2. \A i \in 1..((n + 1) - (k + 1)) : ((k + 1) - 1) + i = k + i
    BY <1>6
  <2> QED BY <2>1, <2>2
<1>9. Cut(s, a, m, b)
  <2>1. Len(s) = (k - 1) + 1 + ((n + 1) - (k + 1)) /\ (k - 1) + 1 = k
    BY <1>4, <1>6
  <2>2. \A i \in 1..((n + 1) - (k + 1)) : s[(k - 1) + 1 + i] = b[i]
    BY <1>8, <2>1, Zenon
  <2>3. (\A i \in 1..(k - 1) : s[i] = a[i]) /\ s[(k - 1) + 1] = m
    BY <1>5, <1>7, <2>1, Zenon
  <2> QED BY <1>7, <1>8, <2>1, <2>2, <2>3, Zenon DEF Cut
<1>12. PICK x \in Seq(S) : x = Only(a, P)
  BY OnlyType
<1>13. PICK y \in Seq(S) : y = Only(b, P)
  BY OnlyType
<1>14. Cut(c, x, m, y)
  <2>1. Cut(Only(s, P), Only(a, P), m, Only(b, P))
    BY <1>9, OnlyAround
  <2> QED BY <1>1, <1>12, <1>13, <2>1
<1>15. Free(x, m)
  <2>1. \A i \in 1..Len(x) : \E j \in 1..Len(a) : x[i] = a[j]
    <3>1. a \in Seq(S)
      OBVIOUS
    <3>2. \A i \in 1..Len(Only(a, P)) : \E j \in 1..Len(a) : Only(a, P)[i] = a[j]
      BY <3>1, OnlyFrom
    <3> QED BY <1>12, <3>2, Zenon
  <2>2. \A j \in 1..Len(a) : a[j] # m
    BY <1>5, <1>7, Zenon
  <2> QED BY <2>1, <2>2, Zenon DEF Free
<1>16. u = x /\ v = y
  BY <1>1, <1>14, <1>15, CutOnce
<1>17. CutAt(S, s, P, m, k, u, v)
  BY <1>4, <1>5, <1>7, <1>8, <1>12, <1>13, <1>16, Zenon DEF CutAt
<1> QED BY <1>4, <1>5, <1>17

----------------------------------------------------------------------------
(* A number is read from the ink of a text.                                  *)

FromAscii == [r \in Runes |-> r - 48]
InkDigit == [d \in 0..9 |-> 48 + d]

\* The digits of a text, as numbers.
DigitsIn(text) == Image(FromAscii, Only(Ink(text), AsciiDigits))

LEMMA DigitsMarked == \A r \in Runes : r \in AsciiDigits => r \in Marked /\ r \notin {Dot, Minus, Open, Shut}
<1> TAKE r \in Runes
<1>1. AsciiOf[r] = Ascii(r)
  BY AsciiIs
<1>2. r \in AsciiDigits => Ascii(r) = r
  BY DEF Ascii, AsciiDigits, PersianDigits, ArabicDigits, ArabicDecimal, Dot
<1>3. r \in AsciiDigits => r \in Marked
  BY <1>1, <1>2, Zenon DEF Marked
<1> QED BY <1>3 DEF AsciiDigits, Dot, Minus, Open, Shut

\* How often an element of a set stands in a sequence.
Places(s, P) == {i \in 1..Len(s) : s[i] \in P}
LEMMA PlacesAppend ==
    ASSUME NEW S, NEW s \in Seq(S), NEW e \in S, NEW P
    PROVE  Places(Append(s, e), P) =
             IF e \in P THEN Places(s, P) \cup {Len(s) + 1} ELSE Places(s, P)
<1>1. PICK n \in Nat : n = Len(s)
  BY LenProperties
<1>2. /\ Len(Append(s, e)) = n + 1 /\ Append(s, e)[n + 1] = e
      /\ \A i \in 1..n : Append(s, e)[i] = s[i]
  BY <1>1
<1>3. 1..(n + 1) = (1..n) \cup {n + 1} /\ n + 1 \notin 1..n
  OBVIOUS
<1>4. \A i : i \in Places(Append(s, e), P) <=> i \in 1..(n + 1) /\ Append(s, e)[i] \in P
  BY <1>2, Zenon DEF Places
<1>5. \A i : i \in Places(s, P) <=> i \in 1..n /\ s[i] \in P
  BY <1>1, Zenon DEF Places
<1>6. \A i : i \in Places(Append(s, e), P) <=> i \in Places(s, P) \/ (i = n + 1 /\ e \in P)
  BY <1>2, <1>3, <1>4, <1>5, Zenon
<1>7. CASE e \in P
  <2>1. \A i : i \in Places(Append(s, e), P) <=> i \in Places(s, P) \cup {n + 1}
    BY <1>6, <1>7, Zenon
  <2> QED BY <1>1, <1>7, <2>1
<1>8. CASE e \notin P
  <2>1. \A i : i \in Places(Append(s, e), P) <=> i \in Places(s, P)
    BY <1>6, <1>8, Zenon
  <2> QED BY <1>8, <2>1
<1> QED BY <1>7, <1>8

LEMMA CountOnly ==
    ASSUME NEW S, NEW P, NEW s \in Seq(S)
    PROVE  Cardinality(Places(s, P)) = Len(Only(s, P))
<1> DEFINE X == {t \in Seq(S) : /\ IsFiniteSet(Places(t, P))
                               /\ Cardinality(Places(t, P)) = Len(Only(t, P))}
<1>1. <<>> \in X
  <2>1. Places(<<>>, P) = {}
    BY DEF Places
  <2>2. Only(<<>>, P) = <<>> /\ Len(<<>>) = 0
    BY OnlyEmpty
  <2> QED BY <2>1, <2>2, FS_EmptySet
<1>2. ASSUME NEW t \in Seq(S), NEW e \in S, t \in X PROVE Append(t, e) \in X
  <2>1. PICK n \in Nat : n = Len(t)
    BY LenProperties
  <2>2. Len(t) + 1 \notin Places(t, P)
    BY <2>1 DEF Places
  <2>3. IsFiniteSet(Places(t, P)) /\ Cardinality(Places(t, P)) = Len(Only(t, P))
    BY <1>2
  <2>4. Append(t, e) \in Seq(S)
    OBVIOUS
  <2>5. PICK o \in Seq(S) : o = Only(t, P)
    BY OnlyType
  <2>6. Len(Append(o, e)) = Len(o) + 1
    OBVIOUS
  <2>7. CASE e \in P
    <3>1. Places(Append(t, e), P) = Places(t, P) \cup {Len(t) + 1}
      BY <2>7, PlacesAppend
    <3>2. Only(Append(t, e), P) = Append(o, e)
      BY <2>5, <2>7, OnlyAppend
    <3>3. /\ IsFiniteSet(Places(t, P) \cup {Len(t) + 1})
          /\ Cardinality(Places(t, P) \cup {Len(t) + 1}) = Cardinality(Places(t, P)) + 1
      BY <2>2, <2>3, FS_AddElement, Zenon
    <3> QED BY <2>3, <2>4, <2>5, <2>6, <3>1, <3>2, <3>3, Zenon
  <2>8. CASE e \notin P
    <3>1. Places(Append(t, e), P) = Places(t, P)
      BY <2>8, PlacesAppend
    <3>2. Only(Append(t, e), P) = Only(t, P)
      BY <2>8, OnlyAppend
    <3> QED BY <2>3, <2>4, <3>1, <3>2, Zenon
  <2> QED BY <2>7, <2>8
<1> HIDE DEF X
<1>3. \A t \in Seq(S) : t \in X
  BY <1>1, <1>2, SeqInduct
<1> QED BY <1>3 DEF X

\* What Value makes of a text, by the runes of its digits.
Decimals(s) == {i \in 1..Len(s) : s[i] \in AsciiDigits /\ FirstDot(s) \in 1..i}
LEMMA ValueIs ==
    ASSUME NEW text \in Seq(Runes), NEW s, s = Digits(text)
    PROVE  Value(text) = IF Only(s, AsciiDigits) = <<>> THEN Unreadable
                         ELSE Number(s[1] = Minus, Image(FromAscii, Only(s, AsciiDigits)),
                                     Cardinality(Decimals(s)))
<1>1. s \in Seq(Runes)
  BY DigitsAre
<1>2. DOMAIN s = 1..Len(s)
  BY <1>1
<1>3. Select(s, IsDigit) = Only(s, AsciiDigits)
  BY <1>2, Zenon DEF Select, Only, IsDigit
<1>4. {i \in DOMAIN s : IsDigit(s[i]) /\ FirstDot(s) \in 1..i} = Decimals(s)
  BY <1>2, Zenon DEF Decimals, IsDigit
<1>5. PICK o \in Seq(Runes) : o = Only(s, AsciiDigits)
  BY <1>1, OnlyType
<1>6. [i \in DOMAIN o |-> o[i] - 48] = Image(FromAscii, o)
  <2>1. DOMAIN o = 1..Len(o) /\ \A i \in 1..Len(o) : o[i] \in Runes
    OBVIOUS
  <2>2. \A i \in 1..Len(o) : FromAscii[o[i]] = o[i] - 48
    BY <2>1 DEF FromAscii
  <2> QED BY <2>1, <2>2 DEF Image
<1> QED BY <1>3, <1>4, <1>5, <1>6 DEF Value

\* What is left of a published number when only its ink is read.
NumberInk(n) ==
    IF n = Missing THEN <<Minus>>
    ELSE IF n.part = <<>> THEN Image(InkDigit, n.whole)
    ELSE (Image(InkDigit, n.whole) \o <<Dot>>) \o Image(InkDigit, n.part)

LEMMA NumberType ==
    ASSUME NEW n \in Numbers
    PROVE  /\ n.whole \in Seq(0..9) /\ n.part \in Seq(0..9)
           /\ n.whole = <<>> => n = Missing
           /\ n = Missing => n.whole = <<>> /\ n.part = <<>>
  BY DEF Numbers, Missing

LEMMA DigitBack == \A d \in 0..9 : FromAscii[48 + d] = d
<1> TAKE d \in 0..9
<1>1. 48 + d \in Nat /\ (48 + d) - 48 = d
  OBVIOUS
<1>2. FromAscii[48 + d] = (48 + d) - 48
  BY <1>1, Zenon DEF FromAscii, Runes
<1> QED BY <1>1, <1>2

LEMMA WrittenDigits ==
    ASSUME NEW t \in Seq(0..9), NEW w, w = Image(InkDigit, t)
    PROVE  /\ w \in Seq(Runes) /\ Len(w) = Len(t)
           /\ \A i \in 1..Len(w) : w[i] \in AsciiDigits
           /\ Only(w, AsciiDigits) = w /\ Image(FromAscii, w) = t
           /\ Free(w, Dot) /\ Free(w, Shut) /\ Free(w, Open)
<1>1. PICK n \in Nat : n = Len(t)
  BY LenProperties
<1>2. \A d \in 0..9 : InkDigit[d] = 48 + d /\ 48 + d \in AsciiDigits /\ 48 + d \in Runes
  BY DEF InkDigit, AsciiDigits, Runes
<1>3. Maps(InkDigit, 0..9, Runes)
  BY <1>2, Zenon DEF Maps
<1>4. w \in Seq(Runes)
  BY <1>3, ImageType
<1>5. Len(w) = n
  BY <1>1, ImageLen
<1>6. \A i \in 1..n : t[i] \in 0..9
  BY <1>1
<1>7. \A i \in 1..n : w[i] = InkDigit[t[i]]
  BY <1>1 DEF Image
<1>8. \A i \in 1..n : w[i] \in AsciiDigits
  BY <1>2, <1>6, <1>7, Zenon
<1>9. Only(w, AsciiDigits) = w
  BY <1>4, <1>5, <1>8, OnlyAll
<1>10. Image(FromAscii, w) = t
  <2>1. \A d \in 0..9 : FromAscii[48 + d] = d
    BY DigitBack
  <2>2. \A i \in 1..n : FromAscii[w[i]] = t[i]
    <3> TAKE i \in 1..n
    <3>1. PICK d \in 0..9 : d = t[i]
      BY <1>6
    <3>2. w[i] = 48 + d
      BY <1>2, <1>7, <3>1
    <3> QED BY <2>1, <3>1, <3>2
  <2>3. t = [i \in 1..n |-> t[i]]
    BY <1>1
  <2>4. Image(FromAscii, w) = [i \in 1..n |-> FromAscii[w[i]]]
    BY <1>5, Zenon DEF Image
  <2> QED BY <2>2, <2>3, <2>4
<1>11. \A i \in 1..n : w[i] # Dot /\ w[i] # Shut /\ w[i] # Open
  BY <1>8 DEF AsciiDigits, Dot, Shut, Open
<1> QED BY <1>1, <1>4, <1>5, <1>8, <1>9, <1>10, <1>11, Zenon DEF Free

\* A rune of ink stands in the text, and the other way round.
LEMMA InkOnly ==
    ASSUME NEW text \in Seq(Runes), NEW P, \A r \in Runes : r \in P => r \in Marked
    PROVE  Only(Digits(text), P) = Only(Ink(text), P)
<1>1. PICK s \in Seq(Runes) : s = Digits(text)
  BY DigitsAre
<1>2. Only(s, Marked) = Ink(text)
  BY <1>1, InkOfDigits
<1>3. Only(Only(s, Marked), P) = Only(s, P)
  BY OnlyOnly
<1> QED BY <1>1, <1>2, <1>3

LEMMA MarksAre ==
    /\ Dot \in Runes /\ Minus \in Runes /\ Open \in Runes /\ Shut \in Runes
    /\ Dot \in Marked /\ Minus \in Marked /\ Open \in Marked /\ Shut \in Marked
<1>1. Dot \in Runes /\ Minus \in Runes /\ Open \in Runes /\ Shut \in Runes
  BY DEF Dot, Minus, Open, Shut, Runes
<1>2. Ascii(Dot) = Dot /\ Ascii(Minus) = Minus /\ Ascii(Open) = Open /\ Ascii(Shut) = Shut
  BY DEF Ascii, Dot, Minus, Open, Shut, PersianDigits, ArabicDigits, ArabicDecimal
<1>3. /\ AsciiOf[Dot] = Dot /\ AsciiOf[Minus] = Minus
      /\ AsciiOf[Open] = Open /\ AsciiOf[Shut] = Shut
  BY <1>1, <1>2, Zenon DEF AsciiOf
<1> QED BY <1>1, <1>3, Zenon DEF Marked

\* The digits Value reads are those of the ink.
LEMMA ValueDigits ==
    ASSUME NEW text \in Seq(Runes)
    PROVE  Value(text).digits = DigitsIn(text)
<1>1. PICK s \in Seq(Runes) : s = Digits(text)
  BY DigitsAre
<1>2. Only(s, AsciiDigits) = Only(Ink(text), AsciiDigits)
  BY <1>1, DigitsMarked, InkOnly
<1>3. CASE Only(s, AsciiDigits) = <<>>
  <2>1. Value(text) = Unreadable
    BY <1>1, <1>3, ValueIs
  <2>2. DigitsIn(text) = <<>>
    BY <1>2, <1>3, ImageEmpty, Zenon DEF DigitsIn
  <2> QED BY <2>1, <2>2 DEF Unreadable, Number
<1>4. CASE Only(s, AsciiDigits) # <<>>
  <2>1. Value(text) = Number(s[1] = Minus, Image(FromAscii, Only(s, AsciiDigits)),
                             Cardinality(Decimals(s)))
    BY <1>1, <1>4, ValueIs
  <2>2. \A a, b, c : Number(a, b, c).digits = b
    BY DEF Number
  <2>3. DigitsIn(text) = Image(FromAscii, Only(s, AsciiDigits))
    BY <1>2, Zenon DEF DigitsIn
  <2> QED BY <2>1, <2>2, <2>3
<1> QED BY <1>3, <1>4

\* Where the point is in the text, and how many digits follow it.
LEMMA NoPoint ==
    ASSUME NEW text \in Seq(Runes), Only(Ink(text), {Dot}) = <<>>
    PROVE  Cardinality(Decimals(Digits(text))) = 0
<1>1. PICK s \in Seq(Runes) : s = Digits(text)
  BY DigitsAre
<1>2. Only(s, {Dot}) = <<>>
  <2>1. \A r \in Runes : r \in {Dot} => r \in Marked
    BY MarksAre
  <2> QED BY <1>1, <2>1, InkOnly
<1>3. \A i \in 1..Len(s) : s[i] # Dot
  BY <1>2, OnlyExists
<1>4. FirstDot(s) = 0
  <2>1. {i \in 1..Len(s) : s[i] = Dot} = {}
    BY <1>3
  <2> QED BY <2>1 DEF FirstDot, SelectInSeq
<1>5. Decimals(s) = {}
  <2>1. Len(s) \in Nat
    BY LenProperties
  <2>2. \A i \in 1..Len(s) : 0 \notin 1..i
    BY <2>1
  <2> QED BY <1>4, <2>2 DEF Decimals
<1> QED BY <1>1, <1>5, FS_EmptySet

LEMMA AfterPoint ==
    ASSUME NEW text \in Seq(Runes), NEW u \in Seq(Runes), NEW v \in Seq(Runes),
           Cut(Ink(text), u, Dot, v), Free(u, Dot)
    PROVE  Cardinality(Decimals(Digits(text))) = Len(Only(v, AsciiDigits))
<1>1. PICK s \in Seq(Runes), n \in Nat : s = Digits(text) /\ n = Len(s)
  BY DigitsAre, LenProperties
<1>2. Cut(Only(s, Marked), u, Dot, v)
  BY <1>1, InkOfDigits
<1>3. PICK k \in 1..n :
        /\ s[k] = Dot /\ \A i \in 1..(k - 1) : s[i] # Dot
        /\ SubSeq(s, k + 1, n) \in Seq(Runes) /\ Only(SubSeq(s, k + 1, n), Marked) = v
  <2>1. PICK k \in 1..Len(s) : CutAt(Runes, s, Marked, Dot, k, u, v)
    BY <1>2, MarksAre, OnlyCut
  <2> QED BY <1>1, <2>1, Zenon DEF CutAt
<1>4. PICK b \in Seq(Runes) : b = SubSeq(s, k + 1, n)
  BY <1>3
<1>5. FirstDot(s) = k
  <2> DEFINE T == {i \in 1..n : s[i] = Dot}
  <2>1. k \in T /\ T \subseteq Nat
    BY <1>3
  <2>2. Min(T) \in T /\ \A y \in T : Min(T) <= y
    <3> HIDE DEF T
    <3> QED BY <2>1, MinOf
  <2>3. Min(T) = k
    <3>1. Min(T) <= k /\ Min(T) \in 1..n /\ s[Min(T)] = Dot
      BY <2>1, <2>2
    <3>2. Min(T) \notin 1..(k - 1)
      BY <1>3, <3>1
    <3> QED BY <3>1, <3>2
  <2>4. FirstDot(s) = IF T # {} THEN Min(T) ELSE 0
    BY <1>1, Zenon DEF FirstDot, SelectInSeq
  <2> HIDE DEF T
  <2> QED BY <2>1, <2>3, <2>4
<1>6. Len(b) = n - k /\ \A i \in 1..(n - k) : b[i] = s[k + i]
  <2>1. 1 <= k + 1 /\ k + 1 <= n + 1 /\ n <= Len(s) /\ (n + 1) - (k + 1) = n - k
        /\ k + 1 \in Nat /\ (k + 1) - 1 = k
    BY <1>1
  <2> QED BY <1>4, <2>1, SubSeqOf
<1>7. \A i : i \in Decimals(s) <=> i \in 1..n /\ i > k /\ s[i] \in AsciiDigits
  <2>1. Dot \notin AsciiDigits
    BY DEF Dot, AsciiDigits
  <2>2. \A i \in 1..n : k \in 1..i <=> i >= k
    OBVIOUS
  <2>3. \A i : i \in Decimals(s) <=> i \in 1..n /\ s[i] \in AsciiDigits /\ k \in 1..i
    BY <1>1, <1>5, Zenon DEF Decimals
  <2> QED BY <1>3, <2>1, <2>2, <2>3
<1>8. /\ IsFiniteSet(Places(b, AsciiDigits))
      /\ Cardinality(Decimals(s)) = Cardinality(Places(b, AsciiDigits))
  <2> DEFINE A == Places(b, AsciiDigits)
             f == [i \in A |-> k + i]
  <2>1. \A i : i \in A <=> i \in 1..(n - k) /\ s[k + i] \in AsciiDigits
    BY <1>6 DEF Places
  <2>2. IsFiniteSet(A)
    <3>1. A \subseteq 1..n
      BY <2>1
    <3>2. IsFiniteSet(1..n)
      BY FS_Interval
    <3> QED BY <3>1, <3>2, FS_Subset
  <2>3. f \in Bijection(A, Decimals(s))
    <3>1. \A i \in A : k + i \in Decimals(s)
      <4> TAKE i \in A
      <4>1. i \in 1..(n - k) /\ s[k + i] \in AsciiDigits
        BY <2>1
      <4>2. k + i \in 1..n /\ k + i > k
        BY <4>1
      <4> QED BY <1>7, <4>1, <4>2
    <3>2. \A j \in Decimals(s) : \E i \in A : k + i = j
      <4> TAKE j \in Decimals(s)
      <4>1. j \in 1..n /\ j > k /\ s[j] \in AsciiDigits
        BY <1>7
      <4>2. j - k \in 1..(n - k) /\ k + (j - k) = j
        BY <4>1
      <4>3. j - k \in A
        BY <2>1, <4>1, <4>2
      <4> QED BY <4>2, <4>3
    <3>3. \A i, j \in A : k + i = k + j => i = j
      BY <2>1
    <3>4. f \in [A -> Decimals(s)]
      BY <3>1
    <3>5. f \in Injection(A, Decimals(s))
      BY <3>3, <3>4 DEF Injection, IsInjective
    <3>6. f \in Surjection(A, Decimals(s))
      BY <3>2, <3>4 DEF Surjection
    <3> QED BY <3>5, <3>6 DEF Bijection
  <2>4. ExistsBijection(A, Decimals(s))
    BY <2>3 DEF ExistsBijection
  <2> HIDE DEF A, f
  <2> QED BY <2>2, <2>4, FS_Bijection DEF A
<1>9. Cardinality(Places(b, AsciiDigits)) = Len(Only(b, AsciiDigits))
  BY CountOnly
<1>10. Only(b, AsciiDigits) = Only(v, AsciiDigits)
  <2>1. Only(b, Marked) = v
    BY <1>3, <1>4
  <2>2. Only(Only(b, Marked), AsciiDigits) = Only(b, AsciiDigits)
    BY DigitsMarked, OnlyOnly
  <2> QED BY <2>1, <2>2
<1> QED BY <1>1, <1>8, <1>9, <1>10

LEMMA FreeCut ==
    ASSUME NEW S, NEW c \in Seq(S), NEW u \in Seq(S), NEW m \in S, NEW v \in Seq(S),
           Cut(c, u, m, v), NEW x, m # x, Free(u, x), Free(v, x)
    PROVE  Free(c, x)
<1>1. PICK k \in Nat, l \in Nat : k = Len(u) /\ l = Len(v)
  BY LenProperties
<1>2. /\ Len(c) = k + 1 + l /\ \A i \in 1..k : c[i] = u[i]
      /\ c[k + 1] = m /\ \A i \in 1..l : c[k + 1 + i] = v[i]
  BY <1>1, Zenon DEF Cut
<1>3. (\A i \in 1..k : u[i] # x) /\ (\A i \in 1..l : v[i] # x)
  BY <1>1, Zenon DEF Free
<1>4. ASSUME NEW i \in 1..(k + 1 + l) PROVE c[i] # x
  <2>1. CASE i \in 1..k
    BY <1>2, <1>3, <2>1, Zenon
  <2>2. CASE i = k + 1
    BY <1>2, <2>2
  <2>3. CASE i > k + 1
    <3>1. PICK j \in 1..l : i = k + 1 + j
      <4>1. i - (k + 1) \in 1..l /\ i = k + 1 + (i - (k + 1))
        BY <2>3
      <4> QED BY <4>1
    <3> QED BY <1>2, <1>3, <3>1, Zenon
  <2> QED BY <2>1, <2>2, <2>3
<1> QED BY <1>2, <1>4, Zenon DEF Free

LEMMA InkOfNumber ==
    ASSUME NEW n \in Numbers, n # Missing, NEW ink, ink = NumberInk(n)
    PROVE  /\ ink \in Seq(Runes) /\ ink # <<>> /\ ink[1] \in AsciiDigits
           /\ Only(ink, AsciiDigits) = Image(InkDigit, n.whole \o n.part)
           /\ n.whole \o n.part \in Seq(0..9) /\ n.whole \o n.part # <<>>
           /\ Free(ink, Shut) /\ Free(ink, Open)
<1>1. PICK a \in Seq(0..9), b \in Seq(0..9) : a = n.whole /\ b = n.part
  BY NumberType
<1>2. a # <<>>
  BY <1>1, NumberType
<1>3. PICK u \in Seq(Runes), v \in Seq(Runes) : u = Image(InkDigit, a) /\ v = Image(InkDigit, b)
  BY WrittenDigits
<1>4. /\ Len(u) = Len(a) /\ Only(u, AsciiDigits) = u /\ Free(u, Shut) /\ Free(u, Open)
      /\ \A i \in 1..Len(u) : u[i] \in AsciiDigits
  BY <1>3, WrittenDigits
<1>5. Only(v, AsciiDigits) = v /\ Free(v, Shut) /\ Free(v, Open)
  BY <1>3, WrittenDigits
<1>6. u # <<>> /\ u[1] \in AsciiDigits
  <2>1. Len(a) \in Nat \ {0}
    BY <1>2, LenProperties, EmptySeq
  <2> QED BY <1>4, <2>1
<1>7. a \o b \in Seq(0..9) /\ a \o b # <<>>
  <2>1. a \o b \in Seq(0..9) /\ Len(a \o b) = Len(a) + Len(b)
    BY ConcatProperties
  <2>2. Len(a) \in Nat \ {0} /\ Len(b) \in Nat /\ Len(<<>>) = 0
    BY <1>2, LenProperties, EmptySeq
  <2> QED BY <2>1, <2>2
<1>8. Image(InkDigit, a \o b) = u \o v
  <2>1. Image(InkDigit, a \o b) = Image(InkDigit, a) \o Image(InkDigit, b)
    BY ImageParts
  <2> QED BY <1>3, <2>1, Zenon
<1>9. CASE b = <<>>
  <2>1. ink = u
    BY <1>1, <1>3, <1>9, Zenon DEF NumberInk
  <2>2. a \o b = a
    BY <1>9, ConcatEmptySeq
  <2>3. Only(ink, AsciiDigits) = Image(InkDigit, a \o b)
    BY <1>3, <1>4, <2>1, <2>2, Zenon
  <2> QED BY <1>1, <1>4, <1>6, <1>7, <2>1, <2>3, Zenon
<1>10. CASE b # <<>>
  <2>1. ink = (u \o <<Dot>>) \o v
    BY <1>1, <1>3, <1>10, Zenon DEF NumberInk
  <2>2. Cut(ink, u, Dot, v) /\ ink \in Seq(Runes)
    BY <2>1, MarksAre, CutMade
  <2>3. PICK k \in Nat, l \in Nat : k = Len(u) /\ l = Len(v)
    BY LenProperties
  <2>4. /\ Len(ink) = k + 1 + l /\ \A i \in 1..k : ink[i] = u[i]
        /\ ink[k + 1] = Dot /\ \A i \in 1..l : ink[k + 1 + i] = v[i]
    BY <2>2, <2>3, Zenon DEF Cut
  <2>5. k # 0
    BY <1>6, <2>3, EmptySeq
  <2>6. ink # <<>> /\ ink[1] \in AsciiDigits
    BY <1>6, <2>4, <2>5
  <2>9. Dot # Shut /\ Dot # Open
    BY DEF Dot, Shut, Open
  <2>10. Free(ink, Shut) /\ Free(ink, Open)
    BY <1>4, <1>5, <2>2, <2>9, MarksAre, FreeCut
  <2>11. Only(ink, AsciiDigits) = u \o v
    <3>1. Only(u \o <<Dot>>, AsciiDigits) = u
      <4>1. Append(u, Dot) = u \o <<Dot>> /\ Dot \notin AsciiDigits
        <5>1. Dot \notin AsciiDigits
          BY DEF Dot, AsciiDigits
        <5> QED BY <5>1, MarksAre, AppendIsConcat
      <4>2. Only(Append(u, Dot), AsciiDigits) = Only(u, AsciiDigits)
        BY <4>1, MarksAre, OnlyAppend
      <4> QED BY <1>4, <4>1, <4>2
    <3>2. PICK w \in Seq(Runes) : w = u \o <<Dot>>
      <4>1. Append(u, Dot) \in Seq(Runes) /\ Append(u, Dot) = u \o <<Dot>>
        BY MarksAre
      <4> QED BY <4>1
    <3>3. Only(w \o v, AsciiDigits) = Only(w, AsciiDigits) \o Only(v, AsciiDigits)
      BY OnlyParts
    <3> QED BY <1>5, <2>1, <3>1, <3>2, <3>3, Zenon
  <2>12. Only(ink, AsciiDigits) = Image(InkDigit, a \o b)
    BY <1>8, <2>11, Zenon
  <2> QED BY <1>1, <1>7, <2>2, <2>6, <2>10, <2>12, Zenon
<1> QED BY <1>9, <1>10

LEMMA InkOfMissing ==
    /\ NumberInk(Missing) = <<Minus>> /\ <<Minus>> \in Seq(Runes)
    /\ Only(<<Minus>>, AsciiDigits) = <<>>
    /\ Free(<<Minus>>, Shut) /\ Free(<<Minus>>, Open)
<1>1. Minus \in Runes /\ Minus \notin AsciiDigits /\ Minus # Shut /\ Minus # Open
  BY MarksAre DEF Minus, AsciiDigits, Shut, Open
<1>2. PICK w : w = <<Minus>>
  OBVIOUS
<1>3. w \in Seq(Runes) /\ Len(w) = 1 /\ w[1] = Minus
  BY <1>1, <1>2
<1>4. \A i \in 1..Len(w) : w[i] = Minus
  BY <1>3
<1>5. Only(w, AsciiDigits) = <<>>
  BY <1>1, <1>3, <1>4, OnlyNone
<1>6. Free(w, Shut) /\ Free(w, Open)
  BY <1>1, <1>4, Zenon DEF Free
<1>7. NumberInk(Missing) = <<Minus>>
  BY DEF NumberInk
<1> QED BY <1>2, <1>3, <1>5, <1>6, <1>7, Zenon

\* A text with the ink of a number has its value, and is as readable.
LEMMA ValueOf ==
    ASSUME NEW text \in Seq(Runes), NEW n \in Numbers, Ink(text) = NumberInk(n)
    PROVE  Value(text) = NumberOf(n) /\ (Readable(Value(text)) <=> n # Missing)
<1>1. PICK s \in Seq(Runes) : s = Digits(text)
  BY DigitsAre
<1>2. Only(s, AsciiDigits) = Only(Ink(text), AsciiDigits)
  BY <1>1, DigitsMarked, InkOnly
<1>3. CASE n = Missing
  <2>1. Only(s, AsciiDigits) = <<>>
    BY <1>2, <1>3, InkOfMissing, Zenon
  <2>2. Value(text) = Unreadable
    BY <1>1, <2>1, ValueIs
  <2>3. NumberOf(Missing) = Unreadable
    BY DEF NumberOf, Missing, Unreadable
  <2> QED BY <1>3, <2>2, <2>3 DEF Readable, Unreadable, Number
<1>4. CASE n # Missing
  <2>1. PICK a \in Seq(0..9), b \in Seq(0..9) : a = n.whole /\ b = n.part
    BY NumberType
  <2>2. PICK d \in Seq(0..9) : d = a \o b /\ d # <<>>
    BY <1>4, <2>1, InkOfNumber
  <2>3. PICK ink \in Seq(Runes) : ink = Ink(text) /\ ink # <<>> /\ ink[1] \in AsciiDigits
    BY <1>4, InkOfNumber
  <2>4. Only(s, AsciiDigits) = Image(InkDigit, d)
    BY <1>2, <1>4, <2>1, <2>2, InkOfNumber
  <2>5. Image(FromAscii, Only(s, AsciiDigits)) = d
    BY <2>4, WrittenDigits
  <2>6. Only(s, AsciiDigits) # <<>>
    BY <2>2, <2>5, ImageEmpty
  <2>7. (s[1] = Minus) = FALSE
    <3> SUFFICES ASSUME s[1] = Minus PROVE FALSE
      OBVIOUS
    <3>1. s # <<>>
      BY <2>6, OnlyEmpty
    <3>2. 1 \in 1..Len(s)
      BY <3>1, LenProperties, EmptySeq
    <3>3. First(s, 1, Marked)
      BY <3>2, MarksAre DEF First
    <3>4. Only(s, Marked)[1] = Minus
      BY <3>2, <3>3, OnlyFirst
    <3>5. Only(s, Marked) = ink
      BY <1>1, <2>3, InkOfDigits
    <3> QED BY <2>3, <3>4, <3>5 DEF Minus, AsciiDigits
  <2>8. Cardinality(Decimals(s)) = Len(b)
    <3>1. PICK u \in Seq(Runes), v \in Seq(Runes) : u = Image(InkDigit, a) /\ v = Image(InkDigit, b)
      BY WrittenDigits
    <3>2. CASE b = <<>>
      <4>1. Ink(text) = u
        BY <1>4, <2>1, <3>1, <3>2, Zenon DEF NumberInk
      <4>2. Free(u, Dot)
        BY <3>1, WrittenDigits
      <4>3. Only(u, {Dot}) = <<>>
        BY <4>2, OnlyNone DEF Free
      <4>4. Cardinality(Decimals(s)) = 0
        BY <1>1, <4>1, <4>3, NoPoint
      <4> QED BY <3>2, <4>4
    <3>3. CASE b # <<>>
      <4>1. Ink(text) = (u \o <<Dot>>) \o v
        BY <1>4, <2>1, <3>1, <3>3, Zenon DEF NumberInk
      <4>2. Free(u, Dot)
        BY <3>1, WrittenDigits
      <4>3. Cut(Ink(text), u, Dot, v)
        BY <4>1, MarksAre, CutMade
      <4>4. Cardinality(Decimals(s)) = Len(Only(v, AsciiDigits))
        BY <1>1, <4>2, <4>3, AfterPoint
      <4>5. Only(v, AsciiDigits) = v /\ Len(v) = Len(b)
        BY <3>1, WrittenDigits
      <4> QED BY <4>4, <4>5
    <3> QED BY <3>2, <3>3
  <2>9. Value(text) = Number(FALSE, d, Len(b))
    <3>1. Value(text) = Number(s[1] = Minus, Image(FromAscii, Only(s, AsciiDigits)),
                               Cardinality(Decimals(s)))
      BY <1>1, <2>6, ValueIs
    <3> QED BY <2>5, <2>7, <2>8, <3>1, Zenon
  <2>10. NumberOf(n) = Number(FALSE, d, Len(b))
    BY <2>1, <2>2, Zenon DEF NumberOf
  <2>11. Number(FALSE, d, Len(b)).digits = d
    BY DEF Number
  <2> QED BY <1>4, <2>2, <2>9, <2>10, <2>11 DEF Readable
<1> QED BY <1>3, <1>4

----------------------------------------------------------------------------
(* What the site writes, as ink.                                             *)

LEMMA InkEmpty == Ink(<<>>) = <<>>
<1>1. Only(<<>>, Marked) = <<>>
  BY OnlyEmpty
<1> QED BY <1>1, ImageEmpty, Zenon DEF Ink

LEMMA InkOne ==
    ASSUME NEW r \in Runes
    PROVE  /\ <<r>> \in Seq(Runes)
           /\ Ink(<<r>>) = IF r \in Marked THEN <<AsciiOf[r]>> ELSE <<>>
<1>1. PICK e \in Seq(Runes) : e = <<>>
  BY EmptySeq
<1>2. \A x : Append(e, x) = <<x>>
  BY <1>1
<1>3. Only(e, Marked) = <<>>
  BY <1>1, OnlyEmpty
<1>4. Only(Append(e, r), Marked) = IF r \in Marked THEN Append(e, r) ELSE e
  <2>1. Only(Append(e, r), Marked) = IF r \in Marked THEN Append(Only(e, Marked), r)
                                     ELSE Only(e, Marked)
    BY OnlyAppend
  <2> QED BY <1>1, <1>3, <2>1, Zenon
<1>5. Image(AsciiOf, Append(e, r)) = Append(Image(AsciiOf, e), AsciiOf[r])
  BY ImageAppend
<1>6. Image(AsciiOf, e) = e
  BY <1>1, ImageEmpty
<1>7. Ink(Append(e, r)) = IF r \in Marked THEN Append(e, AsciiOf[r]) ELSE e
  BY <1>4, <1>5, <1>6, Zenon DEF Ink
<1>8. <<r>> \in Seq(Runes)
  OBVIOUS
<1> QED BY <1>1, <1>2, <1>7, <1>8, Zenon

LEMMA InkNone ==
    ASSUME NEW s \in Seq(Runes), \A i \in 1..Len(s) : s[i] \notin Marked
    PROVE  Ink(s) = <<>>
<1>1. Only(s, Marked) = <<>>
  BY OnlyNone
<1> QED BY <1>1, ImageEmpty, Zenon DEF Ink

\* Texts of one marked rune each, one after the other.
EachInk(ss, d) == Len(d) = Len(ss) /\ \A i \in 1..Len(d) : Ink(ss[i]) = <<d[i]>>
LEMMA FlattenInk ==
    ASSUME NEW ss \in Seq(Seq(Runes)), NEW d \in Seq(Runes), EachInk(ss, d)
    PROVE  FlattenSeq(ss) \in Seq(Runes) /\ Ink(FlattenSeq(ss)) = d
<1> DEFINE X == {xs \in Seq(Seq(Runes)) :
                   \A e \in Seq(Runes) : EachInk(xs, e) => Ink(FlattenSeq(xs)) = e}
<1>1. <<>> \in X
  <2>1. <<>> \in Seq(Seq(Runes)) /\ Len(<<>>) = 0
    OBVIOUS
  <2>2. ASSUME NEW e \in Seq(Runes), EachInk(<<>>, e) PROVE Ink(FlattenSeq(<<>>)) = e
    <3>1. Len(e) = 0
      BY <2>1, <2>2, Zenon DEF EachInk
    <3>2. e = <<>>
      BY <3>1, EmptySeq
    <3> QED BY <3>2, FlattenEmpty, InkEmpty
  <2> QED BY <2>1, <2>2
<1>2. ASSUME NEW xs \in Seq(Seq(Runes)), NEW t \in Seq(Runes), xs \in X
      PROVE  Append(xs, t) \in X
  <2>1. PICK n \in Nat : n = Len(xs)
    BY LenProperties
  <2>2. /\ Append(xs, t) \in Seq(Seq(Runes)) /\ Len(Append(xs, t)) = n + 1
        /\ Append(xs, t)[n + 1] = t /\ \A i \in 1..n : Append(xs, t)[i] = xs[i]
    BY <2>1, AppendProperties
  <2>3. ASSUME NEW e \in Seq(Runes), EachInk(Append(xs, t), e)
        PROVE  Ink(FlattenSeq(Append(xs, t))) = e
    <3>1. Len(e) = n + 1 /\ \A i \in 1..(n + 1) : Ink(Append(xs, t)[i]) = <<e[i]>>
      BY <2>2, <2>3, Zenon DEF EachInk
    <3>2. e # <<>>
      BY <3>1, EmptySeq
    <3>3. PICK f \in Seq(Runes), r \in Runes : e = Append(f, r)
      BY <3>2, SequenceEmptyOrAppend
    <3>4. Len(f) = n /\ e[n + 1] = r /\ \A i \in 1..n : e[i] = f[i]
      BY <3>1, <3>3, AppendProperties
    <3>5. 1..n \subseteq 1..(n + 1) /\ n + 1 \in 1..(n + 1)
      OBVIOUS
    <3>6. EachInk(xs, f)
      <4>1. \A i \in 1..n : Ink(xs[i]) = <<f[i]>>
        BY <2>2, <3>1, <3>4, <3>5, Zenon
      <4> QED BY <2>1, <3>4, <4>1, Zenon DEF EachInk
    <3>7. Ink(FlattenSeq(xs)) = f
      BY <1>2, <3>6
    <3>8. Ink(t) = <<r>>
      BY <2>2, <3>1, <3>4, <3>5, Zenon
    <3>9. FlattenSeq(Append(xs, t)) = FlattenSeq(xs) \o t
      BY FlattenAppend
    <3>10. FlattenSeq(xs) \in Seq(Runes)
      BY FlattenType
    <3>11. Ink(FlattenSeq(xs) \o t) = Ink(FlattenSeq(xs)) \o Ink(t)
      BY <3>10, InkConcat, Zenon
    <3>12. Append(f, r) = f \o <<r>>
      BY AppendIsConcat
    <3> QED BY <3>3, <3>7, <3>8, <3>9, <3>11, <3>12, Zenon
  <2> QED BY <2>2, <2>3
<1> HIDE DEF X
<1>3. \A xs \in Seq(Seq(Runes)) : xs \in X
  BY <1>1, <1>2, SeqInduct
<1>4. FlattenSeq(ss) \in Seq(Runes)
  BY FlattenType
<1> QED BY <1>3, <1>4 DEF X

\* The runes of a rendering: digits and points are read, what groups and wraps
\* them is not.
LEMMA UnmarkedRunes ==
    /\ \A r \in {Comma, ArabicThousands, Space, NonJoiner, Percent} : r \in Runes /\ r \notin Marked
    /\ \A r \in Spaces \cup ZeroWidth : r \in Runes /\ r \notin Marked
<1> DEFINE U == {Comma, ArabicThousands, Space, NonJoiner, Percent} \cup Spaces \cup ZeroWidth
<1>1. \A r \in U : r \in Nat /\ r \notin PersianDigits /\ r \notin ArabicDigits /\ r # ArabicDecimal
  BY DEF Comma, ArabicThousands, Space, NonJoiner, Percent, Spaces, ZeroWidth, PersianDigits,
         ArabicDigits, ArabicDecimal
<1>2. \A r \in U : r \notin AsciiDigits /\ r \notin {Dot, Minus, Open, Shut}
  BY DEF Comma, ArabicThousands, Space, NonJoiner, Percent, Spaces, ZeroWidth, AsciiDigits,
         Dot, Minus, Open, Shut
<1> HIDE DEF U
<1>3. \A r \in U : r \in Runes /\ AsciiOf[r] = r
  <2> TAKE r \in U
  <2>1. r \in Runes
    BY <1>1 DEF Runes
  <2>2. Ascii(r) = r
    <3>1. r \notin PersianDigits /\ r \notin ArabicDigits /\ r # ArabicDecimal
      BY <1>1
    <3> QED BY <3>1 DEF Ascii
  <2> QED BY <2>1, <2>2, Zenon DEF AsciiOf
<1>4. \A r \in U : r \in Runes /\ r \notin Marked
  BY <1>2, <1>3, Zenon DEF Marked
<1> QED BY <1>4 DEF U

Numerals == 0..9
Zeros == {48, 1632, 1776}
Points == {Dot, ArabicDecimal}
NumeralRune(zero, d) == zero + d

LEMMA MarkedNumeral ==
    ASSUME NEW zero \in Zeros, NEW d \in Numerals
    PROVE  /\ NumeralRune(zero, d) \in Runes /\ NumeralRune(zero, d) \in Marked
           /\ AsciiOf[NumeralRune(zero, d)] = InkDigit[d]
<1>1. PICK r : r = NumeralRune(zero, d)
  OBVIOUS
<1>2. r \in Runes
  BY <1>1 DEF Runes, Numerals, Zeros, NumeralRune
<1>3. Ascii(r) = 48 + d /\ 48 + d \in AsciiDigits
  <2>1. zero = 48 \/ zero = 1632 \/ zero = 1776
    BY DEF Zeros
  <2>2. CASE zero = 48
    BY <1>1, <2>2 DEF NumeralRune, Numerals, Ascii, AsciiDigits, PersianDigits, ArabicDigits,
                      ArabicDecimal
  <2>3. CASE zero = 1632
    BY <1>1, <2>3 DEF NumeralRune, Numerals, Ascii, AsciiDigits, PersianDigits, ArabicDigits,
                      ArabicDecimal
  <2>4. CASE zero = 1776
    BY <1>1, <2>4 DEF NumeralRune, Numerals, Ascii, AsciiDigits, PersianDigits, ArabicDigits,
                      ArabicDecimal
  <2> QED BY <2>1, <2>2, <2>3, <2>4
<1>4. AsciiOf[r] = Ascii(r)
  BY <1>2, AsciiIs
<1>5. InkDigit[d] = 48 + d
  BY DEF InkDigit, Numerals
<1>6. r \in Marked
  BY <1>2, <1>3, <1>4 DEF Marked
<1> QED BY <1>1, <1>2, <1>3, <1>4, <1>5, <1>6

LEMMA MarkedPoint ==
    ASSUME NEW point \in Points
    PROVE  point \in Runes /\ point \in Marked /\ AsciiOf[point] = Dot
<1>1. point \in Runes
  BY DEF Runes, Points, Dot, ArabicDecimal
<1>2. Ascii(point) = Dot
  BY DEF Ascii, Points, PersianDigits, ArabicDigits, ArabicDecimal, Dot
<1>3. AsciiOf[point] = Dot
  BY <1>1, <1>2, AsciiIs
<1> QED BY <1>1, <1>3, Zenon DEF Marked

LEMMA StyleType ==
    ASSUME NEW style \in Styles
    PROVE  /\ style.zero \in Zeros /\ style.point \in Points
           /\ style.group \in Seq(Runes) /\ Ink(style.group) = <<>>
           /\ style.wrap \in Seq(Runes) /\ style.wrap \in Seq(Spaces \cup ZeroWidth)
           /\ Ink(style.wrap) = <<>>
           /\ style.raw \in Seq(Runes) /\ style.split \in Nat
<1>1. /\ style.zero \in Zeros /\ style.point \in Points
      /\ style.group \in Seq({Comma, ArabicThousands, Space, NonJoiner})
      /\ style.wrap \in Seq(Spaces \cup ZeroWidth)
      /\ style.raw \in Seq(Nat) /\ style.split \in Nat
  BY DEF Styles, Zeros, Points
<1>2. PICK g, w : g = style.group /\ w = style.wrap
  OBVIOUS
<1>3. g \in Seq(Runes) /\ \A i \in 1..Len(g) : g[i] \notin Marked
  <2>1. {Comma, ArabicThousands, Space, NonJoiner} \subseteq Runes
    BY UnmarkedRunes
  <2>2. \A i \in 1..Len(g) : g[i] \in {Comma, ArabicThousands, Space, NonJoiner}
    BY <1>1, <1>2
  <2>3. g \in Seq(Runes)
    BY <1>1, <1>2, <2>1
  <2> QED BY <2>2, <2>3, UnmarkedRunes
<1>4. w \in Seq(Runes) /\ \A i \in 1..Len(w) : w[i] \notin Marked
  <2>1. Spaces \cup ZeroWidth \subseteq Runes
    BY UnmarkedRunes
  <2>2. \A i \in 1..Len(w) : w[i] \in Spaces \cup ZeroWidth
    BY <1>1, <1>2
  <2>3. w \in Seq(Runes)
    BY <1>1, <1>2, <2>1
  <2> QED BY <2>2, <2>3, UnmarkedRunes
<1>5. Ink(g) = <<>> /\ Ink(w) = <<>>
  BY <1>3, <1>4, InkNone
<1>6. style.raw \in Seq(Runes)
  BY <1>1 DEF Runes
<1> QED BY <1>1, <1>2, <1>3, <1>4, <1>5, <1>6

\* A digit behind what groups it.
LEMMA InkOfDigit ==
    ASSUME NEW zero \in Zeros, NEW d \in Numerals, NEW g \in Seq(Runes), Ink(g) = <<>>
    PROVE  /\ g \o <<NumeralRune(zero, d)>> \in Seq(Runes)
           /\ Ink(g \o <<NumeralRune(zero, d)>>) = <<InkDigit[d]>>
           /\ <<NumeralRune(zero, d)>> \in Seq(Runes)
           /\ Ink(<<NumeralRune(zero, d)>>) = <<InkDigit[d]>>
<1>1. PICK r \in Runes : r = NumeralRune(zero, d) /\ r \in Marked /\ AsciiOf[r] = InkDigit[d]
  BY MarkedNumeral
<1>2. <<r>> \in Seq(Runes) /\ Ink(<<r>>) = <<InkDigit[d]>>
  BY <1>1, InkOne
<1>3. PICK w \in Seq(Runes) : w = <<r>>
  BY <1>2
<1>4. g \o w \in Seq(Runes) /\ Ink(g \o w) = Ink(g) \o Ink(w)
  BY InkConcat, ConcatRules, Zenon
<1>5. <<InkDigit[d]>> \in Seq({InkDigit[d]})
  OBVIOUS
<1>6. <<>> \o <<InkDigit[d]>> = <<InkDigit[d]>>
  BY <1>5, ConcatEmptySeq
<1>7. Ink(g \o w) = <<InkDigit[d]>>
  BY <1>2, <1>3, <1>4, <1>6, Zenon
<1> QED BY <1>1, <1>2, <1>3, <1>4, <1>7, Zenon

\* The digits of a number, some of them behind what groups them.
Lettered(zero, group, a, W) ==
    [i \in 1..Len(a) |->
        (IF i \in W THEN group ELSE <<>>) \o <<NumeralRune(zero, a[i])>>]
LEMMA LetteredInk ==
    ASSUME NEW zero \in Zeros, NEW group \in Seq(Runes), Ink(group) = <<>>,
           NEW a \in Seq(Numerals), NEW W, NEW ss, ss = Lettered(zero, group, a, W)
    PROVE  FlattenSeq(ss) \in Seq(Runes) /\ Ink(FlattenSeq(ss)) = Image(InkDigit, a)
<1>1. PICK n \in Nat : n = Len(a)
  BY LenProperties
<1>2. \A i \in 1..n : a[i] \in Numerals
  BY <1>1
<1>3. \A i \in 1..n : ss[i] \in Seq(Runes) /\ Ink(ss[i]) = <<InkDigit[a[i]]>>
  <2> TAKE i \in 1..n
  <2>1. PICK d \in Numerals : d = a[i]
    BY <1>2
  <2>2. PICK g \in Seq(Runes) : g = (IF i \in W THEN group ELSE <<>>) /\ Ink(g) = <<>>
    BY InkEmpty, EmptySeq
  <2>3. g \o <<NumeralRune(zero, d)>> \in Seq(Runes)
        /\ Ink(g \o <<NumeralRune(zero, d)>>) = <<InkDigit[d]>>
    BY <2>2, InkOfDigit
  <2>4. ss[i] = g \o <<NumeralRune(zero, d)>>
    BY <1>1, <2>1, <2>2, Zenon DEF Lettered
  <2> QED BY <2>1, <2>3, <2>4, Zenon
<1>4. ss \in Seq(Seq(Runes)) /\ Len(ss) = n
  <2>1. ss = [i \in 1..n |-> ss[i]]
    BY <1>1, Zenon DEF Lettered
  <2> QED BY <1>1, <1>3, <2>1, SeqDef
<1>5. PICK u \in Seq(Runes) : /\ u = Image(InkDigit, a) /\ Len(u) = n
                              /\ \A i \in 1..n : u[i] = InkDigit[a[i]]
  <2>1. Image(InkDigit, a) \in Seq(Runes) /\ Len(Image(InkDigit, a)) = n
    BY <1>1, WrittenDigits DEF Numerals
  <2>2. \A i \in 1..n : Image(InkDigit, a)[i] = InkDigit[a[i]]
    BY <1>1, Zenon DEF Image
  <2> QED BY <2>1, <2>2
<1>6. EachInk(ss, u)
  BY <1>3, <1>4, <1>5, Zenon DEF EachInk
<1> QED BY <1>4, <1>5, <1>6, FlattenInk

\* A number as it is written: its digits and, if it has a part, a point.
Grouped3(a) == {i \in 1..Len(a) : i > 1 /\ (Len(a) - i + 1) % 3 = 0}
WrittenAs(n, style) ==
    FlattenSeq(Lettered(style.zero, style.group, n.whole, Grouped3(n.whole))) \o
    (IF n.part = <<>> THEN <<>>
     ELSE <<style.point>> \o FlattenSeq(Lettered(style.zero, style.group, n.part, {})))
LEMMA RenderedIs ==
    ASSUME NEW n \in Numbers, NEW style \in Styles
    PROVE  Rendered(n, style) = IF n = Missing THEN <<Minus>> ELSE WrittenAs(n, style)
<1>1. PICK a \in Seq(Numerals), b \in Seq(Numerals) : a = n.whole /\ b = n.part
  BY NumberType DEF Numerals
<1>2. PICK zero, group, point : zero = style.zero /\ group = style.group /\ point = style.point
  OBVIOUS
<1> DEFINE groups(i) == i > 1 /\ (Len(a) - i + 1) % 3 = 0
           whole == [i \in DOMAIN a |->
                       (IF groups(i) THEN group ELSE <<>>) \o <<zero + a[i]>>]
           part == [i \in DOMAIN b |-> <<zero + b[i]>>]
<1>3. Rendered(n, style) =
        IF n = Missing THEN <<Minus>>
        ELSE FlattenSeq(whole) \o
             (IF part = <<>> THEN <<>> ELSE <<point>> \o FlattenSeq(part))
  BY <1>1, <1>2, Zenon DEF Rendered
<1>4. DOMAIN a = 1..Len(a) /\ DOMAIN b = 1..Len(b)
  OBVIOUS
<1>5. \A d : zero + d = NumeralRune(zero, d)
  BY DEF NumeralRune
<1>6. whole = Lettered(zero, group, a, Grouped3(a))
  <2>1. \A i \in 1..Len(a) : i \in Grouped3(a) <=> groups(i)
    BY Zenon DEF Grouped3
  <2> HIDE DEF groups
  <2>2. \A i \in 1..Len(a) :
          (IF groups(i) THEN group ELSE <<>>) \o <<zero + a[i]>> =
          (IF i \in Grouped3(a) THEN group ELSE <<>>) \o <<NumeralRune(zero, a[i])>>
    BY <1>5, <2>1, Zenon
  <2> QED BY <1>4, <2>2, Zenon DEF Lettered
<1>7. part = Lettered(zero, group, b, {})
  <2>1. \A i \in 1..Len(b) :
          <<zero + b[i]>> = (IF i \in {} THEN group ELSE <<>>) \o <<NumeralRune(zero, b[i])>>
    <3> TAKE i \in 1..Len(b)
    <3>1. PICK r : r = NumeralRune(zero, b[i]) /\ zero + b[i] = r
      BY <1>5
    <3>2. <<r>> \in Seq({r})
      OBVIOUS
    <3>3. <<>> \o <<r>> = <<r>>
      BY <3>2, ConcatEmptySeq
    <3> QED BY <3>1, <3>3, Zenon
  <2> QED BY <1>4, <2>1, Zenon DEF Lettered
<1>8. part = <<>> <=> b = <<>>
  <2>1. Len(b) \in Nat /\ (Len(b) = 0 <=> b = <<>>)
    BY LenProperties, EmptySeq
  <2>2. part = <<>> <=> DOMAIN b = {}
    OBVIOUS
  <2> QED BY <1>4, <2>1, <2>2
<1> HIDE DEF whole, part
<1> QED BY <1>1, <1>2, <1>3, <1>6, <1>7, <1>8, Zenon DEF WrittenAs

LEMMA RenderedInk ==
    ASSUME NEW n \in Numbers, NEW style \in Styles
    PROVE  Rendered(n, style) \in Seq(Runes) /\ Ink(Rendered(n, style)) = NumberInk(n)
<1>1. PICK a \in Seq(Numerals), b \in Seq(Numerals) : a = n.whole /\ b = n.part
  BY NumberType DEF Numerals
<1>2. PICK zero \in Zeros, group \in Seq(Runes), point \in Points :
        zero = style.zero /\ group = style.group /\ Ink(group) = <<>> /\ point = style.point
  BY StyleType
<1>3. PICK u \in Seq(Runes), v \in Seq(Runes) : u = Image(InkDigit, a) /\ v = Image(InkDigit, b)
  BY WrittenDigits DEF Numerals
<1>4. PICK t \in Seq(Runes) : t = FlattenSeq(Lettered(zero, group, a, Grouped3(a))) /\ Ink(t) = u
  BY <1>2, <1>3, LetteredInk
<1>5. PICK q \in Seq(Runes) : q = FlattenSeq(Lettered(zero, group, b, {})) /\ Ink(q) = v
  BY <1>2, <1>3, LetteredInk
<1>6. WrittenAs(n, style) = t \o (IF b = <<>> THEN <<>> ELSE <<point>> \o q)
  BY <1>1, <1>2, <1>4, <1>5, Zenon DEF WrittenAs
<1>7. CASE n = Missing
  <2>1. Rendered(n, style) = <<Minus>>
    BY <1>7, RenderedIs
  <2>2. AsciiOf[Minus] = Minus
    <3>1. Ascii(Minus) = Minus
      BY DEF Ascii, Minus, PersianDigits, ArabicDigits, ArabicDecimal
    <3> QED BY <3>1, MarksAre, AsciiIs
  <2>3. Ink(<<Minus>>) = <<Minus>>
    BY <2>2, MarksAre, InkOne
  <2> QED BY <1>7, <2>1, <2>3, InkOfMissing
<1>8. CASE n # Missing /\ b = <<>>
  <2>1. Rendered(n, style) = t \o <<>>
    BY <1>6, <1>8, RenderedIs
  <2>2. t \o <<>> = t
    BY ConcatEmptySeq
  <2>3. NumberInk(n) = u
    BY <1>1, <1>3, <1>8, Zenon DEF NumberInk
  <2> QED BY <1>4, <2>1, <2>2, <2>3, Zenon
<1>9. CASE n # Missing /\ b # <<>>
  <2>1. PICK p \in Seq(Runes) : p = <<point>> /\ Ink(p) = <<Dot>>
    BY MarkedPoint, InkOne
  <2>2. p \o q \in Seq(Runes) /\ Ink(p \o q) = Ink(p) \o Ink(q)
    BY InkConcat, ConcatRules, Zenon
  <2>3. PICK w \in Seq(Runes) : w = p \o q /\ Ink(w) = <<Dot>> \o v
    BY <1>5, <2>1, <2>2, Zenon
  <2>4. t \o w \in Seq(Runes) /\ Ink(t \o w) = Ink(t) \o Ink(w)
    BY InkConcat, ConcatRules, Zenon
  <2>5. u \o (<<Dot>> \o v) = (u \o <<Dot>>) \o v
    <3>1. PICK d : d = <<Dot>>
      OBVIOUS
    <3>2. d \in Seq(Runes)
      BY <3>1, MarksAre
    <3>3. PICK x, y : Joined(x, u, d) /\ Joined(y, d, v)
      BY Zenon DEF Joined
    <3>4. \A z : Joined(z, u, y) <=> Joined(z, x, v)
      BY <3>2, <3>3, Regroup
    <3> QED BY <3>1, <3>3, <3>4, Zenon DEF Joined
  <2>6. NumberInk(n) = (u \o <<Dot>>) \o v
    BY <1>1, <1>3, <1>9, Zenon DEF NumberInk
  <2>7. Rendered(n, style) = t \o w
    BY <1>6, <1>9, <2>1, <2>3, RenderedIs
  <2> QED BY <1>4, <2>3, <2>4, <2>5, <2>6, <2>7, Zenon
<1> QED BY <1>7, <1>8, <1>9

LEMMA InkAppend ==
    ASSUME NEW s \in Seq(Runes), NEW r \in Runes
    PROVE  /\ Append(s, r) \in Seq(Runes)
           /\ Ink(Append(s, r)) = IF r \in Marked THEN Append(Ink(s), AsciiOf[r]) ELSE Ink(s)
<1>1. PICK o \in Seq(Runes) : o = Only(s, Marked)
  BY OnlyType
<1>2. Only(Append(s, r), Marked) = IF r \in Marked THEN Append(o, r) ELSE o
  BY <1>1, OnlyAppend
<1>3. Image(AsciiOf, Append(o, r)) = Append(Image(AsciiOf, o), AsciiOf[r])
  BY ImageAppend
<1> QED BY <1>1, <1>2, <1>3, AppendProperties DEF Ink

----------------------------------------------------------------------------
(* A cell, as dom.Text and Clean read it.                                    *)

LEMMA Couple ==
    ASSUME NEW T, NEW x \in T, NEW y \in T
    PROVE  <<x>> \in Seq(T) /\ Append(<<x>>, y) = <<x, y>>
<1>1. <<>> \in Seq(T) /\ <<x>> = Append(<<>>, x) /\ <<x, y>> = Append(<<x>>, y)
  OBVIOUS
<1>2. Append(<<>>, x) \in Seq(T)
  BY <1>1, AppendProperties
<1> QED BY <1>1, <1>2, Zenon

LEMMA FlattenTwo ==
    ASSUME NEW S, NEW s \in Seq(S), NEW t \in Seq(S)
    PROVE  FlattenSeq(<<s, t>>) = s \o t
<1>1. PICK ss : ss = <<s>>
  OBVIOUS
<1>2. ss \in Seq(Seq(S)) /\ Append(ss, t) = <<s, t>>
  <2>1. PICK T : T = Seq(S)
    OBVIOUS
  <2>2. s \in T /\ t \in T
    BY <2>1
  <2>3. ss \in Seq(T) /\ Append(ss, t) = <<s, t>>
    BY <1>1, <2>2, Couple
  <2> QED BY <2>1, <2>3
<1>3. FlattenSeq(ss) = s
  BY <1>1, FlattenOne
<1>4. FlattenSeq(Append(ss, t)) = FlattenSeq(ss) \o t
  BY <1>2, FlattenAppend
<1> QED BY <1>2, <1>3, <1>4

LEMMA TextOne ==
    ASSUME NEW cell, NEW t \in Seq(Runes), cell.nodes = <<t>>
    PROVE  Text(cell) = Collapsed(Append(t, Space))
<1>1. [i \in DOMAIN cell.nodes |-> Append(cell.nodes[i], Space)] = <<Append(t, Space)>>
  OBVIOUS
<1>2. Append(t, Space) \in Seq(Runes)
  BY SpacesAre, AppendProperties
<1>3. FlattenSeq(<<Append(t, Space)>>) = Append(t, Space)
  BY <1>2, FlattenOne
<1> QED BY <1>1, <1>3, Zenon DEF Text

LEMMA TextTwo ==
    ASSUME NEW cell, NEW a \in Seq(Runes), NEW b \in Seq(Runes), cell.nodes = <<a, b>>
    PROVE  Text(cell) = Collapsed(Append(a, Space) \o Append(b, Space))
<1>1. [i \in DOMAIN cell.nodes |-> Append(cell.nodes[i], Space)]
        = <<Append(a, Space), Append(b, Space)>>
  OBVIOUS
<1>2. Append(a, Space) \in Seq(Runes) /\ Append(b, Space) \in Seq(Runes)
  BY SpacesAre, AppendProperties
<1>3. FlattenSeq(<<Append(a, Space), Append(b, Space)>>) = Append(a, Space) \o Append(b, Space)
  BY <1>2, FlattenTwo
<1> QED BY <1>1, <1>3, Zenon DEF Text

LEMMA TextNone == Text(NoCell) = <<>> /\ Clean(<<>>) = <<>> /\ StatusOf(NoCell) = ""
<1>1. [i \in DOMAIN NoCell.nodes |-> Append(NoCell.nodes[i], Space)] = <<>>
  BY DEF NoCell
<1>2. Text(NoCell) = <<>>
  BY <1>1, FlattenEmpty, CollapsedEmpty, Zenon DEF Text
<1>3. Digits(<<>>) = <<>>
  <2>1. PICK e \in Seq(Runes) : e = <<>>
    BY EmptySeq
  <2>2. Digits(e) = Image(AsciiOf, Only(e, Shown))
    BY DigitsAre
  <2> QED BY <2>1, <2>2, OnlyEmpty, ImageEmpty, Zenon
<1>4. Clean(<<>>) = <<>>
  BY <1>3, CollapsedEmpty DEF Clean
<1>5. StatusOf(NoCell) = ""
  BY DEF NoCell, StatusOf, SelectInSeq
<1> QED BY <1>2, <1>4, <1>5

LEMMA SplitSub ==
    ASSUME NEW S, NEW t \in Seq(S), NEW k \in Nat, k < Len(t)
    PROVE  /\ SubSeq(t, 1, k) \in Seq(S) /\ SubSeq(t, k + 1, Len(t)) \in Seq(S)
           /\ SubSeq(t, 1, k) \o SubSeq(t, k + 1, Len(t)) = t
<1>1. PICK n \in Nat : n = Len(t)
  BY LenProperties
<1>2. PICK a \in Seq(S) : a = SubSeq(t, 1, k) /\ Len(a) = k /\ \A i \in 1..k : a[i] = t[i]
  <2>1. 1 <= k + 1 /\ k <= Len(t)
    BY <1>1
  <2>2. /\ SubSeq(t, 1, k) \in Seq(S) /\ Len(SubSeq(t, 1, k)) = (k + 1) - 1
        /\ \A i \in 1..((k + 1) - 1) : SubSeq(t, 1, k)[i] = t[(1 - 1) + i]
    BY <2>1, SubSeqOf
  <2>3. (k + 1) - 1 = k /\ \A i \in 1..k : (1 - 1) + i = i
    OBVIOUS
  <2> QED BY <2>2, <2>3
<1>3. PICK b \in Seq(S) : /\ b = SubSeq(t, k + 1, n) /\ Len(b) = n - k
                          /\ \A i \in 1..(n - k) : b[i] = t[k + i]
  <2>1. 1 <= k + 1 /\ k + 1 <= n + 1 /\ n <= Len(t) /\ k + 1 \in Nat
    BY <1>1
  <2>2. /\ SubSeq(t, k + 1, n) \in Seq(S) /\ Len(SubSeq(t, k + 1, n)) = (n + 1) - (k + 1)
        /\ \A i \in 1..((n + 1) - (k + 1)) : SubSeq(t, k + 1, n)[i] = t[((k + 1) - 1) + i]
    BY <2>1, SubSeqOf
  <2>3. (n + 1) - (k + 1) = n - k /\ \A i \in 1..(n - k) : ((k + 1) - 1) + i = k + i
    OBVIOUS
  <2> QED BY <2>2, <2>3
<1>4. PICK c \in Seq(S) : /\ c = a \o b /\ Len(c) = n
                          /\ \A i \in 1..n : c[i] = IF i <= k THEN a[i] ELSE b[i - k]
  <2>1. k + (n - k) = n
    BY <1>1
  <2>2. Len(a) + Len(b) = n /\ Len(a) = k
    BY <1>2, <1>3, <2>1
  <2>3. /\ a \o b \in Seq(S) /\ Len(a \o b) = Len(a) + Len(b)
        /\ \A i \in 1..(Len(a) + Len(b)) :
              (a \o b)[i] = IF i <= Len(a) THEN a[i] ELSE b[i - Len(a)]
    BY ConcatProperties
  <2> QED BY <2>2, <2>3
<1>5. \A i \in 1..n : c[i] = t[i]
  <2> TAKE i \in 1..n
  <2>1. CASE i <= k
    <3>1. i \in 1..k
      BY <2>1
    <3> QED BY <1>2, <1>4, <2>1, <3>1
  <2>2. CASE i > k
    <3>1. i - k \in 1..(n - k) /\ k + (i - k) = i /\ ~(i <= k)
      BY <2>2
    <3>2. c[i] = b[i - k]
      BY <1>4, <3>1
    <3>3. b[i - k] = t[k + (i - k)]
      BY <1>3, <3>1
    <3> QED BY <3>1, <3>2, <3>3
  <2> QED BY <2>1, <2>2
<1>6. c = t
  BY <1>1, <1>4, <1>5, SeqEqual
<1> QED BY <1>1, <1>2, <1>3, <1>4, <1>6

\* What the site puts around a text, and the space at its end, are no ink.
LEMMA WrapInk ==
    ASSUME NEW body \in Seq(Runes), NEW wrap \in Seq(Runes), Ink(wrap) = <<>>
    PROVE  /\ (wrap \o body) \o wrap \in Seq(Runes)
           /\ Ink((wrap \o body) \o wrap) = Ink(body)
<1>1. PICK w \in Seq(Runes) : w = wrap \o body
  BY ConcatProperties
<1>2. Ink(w) = <<>> \o Ink(body)
  BY <1>1, InkConcat, Zenon
<1>3. w \o wrap \in Seq(Runes) /\ Ink(w \o wrap) = Ink(w) \o <<>>
  <2>1. w \o wrap \in Seq(Runes) /\ Ink(w \o wrap) = Ink(w) \o Ink(wrap)
    BY InkConcat, ConcatRules, Zenon
  <2> QED BY <2>1
<1>4. Ink(body) \in Seq(Runes)
  BY InkOfDigits
<1>5. <<>> \o Ink(body) = Ink(body) /\ Ink(body) \o <<>> = Ink(body)
  BY <1>4, ConcatEmptySeq
<1> QED BY <1>1, <1>2, <1>3, <1>5, Zenon

LEMMA SpacedInk ==
    ASSUME NEW t \in Seq(Runes)
    PROVE  Append(t, Space) \in Seq(Runes) /\ Ink(Append(t, Space)) = Ink(t)
<1>1. Space \in Runes /\ Space \notin Marked
  BY UnmarkedRunes
<1> QED BY <1>1, InkAppend

LEMMA WrapDigits ==
    ASSUME NEW wrap \in Seq(Spaces \cup ZeroWidth)
    PROVE  wrap \in Seq(Runes) /\ Digits(wrap) \in Seq(Spaces)
<1>1. Spaces \cup ZeroWidth \subseteq Runes
  BY UnmarkedRunes
<1>2. wrap \in Seq(Runes)
  BY <1>1
<1>3. PICK o \in Seq(Runes) : o = Only(wrap, Shown)
  BY <1>2, OnlyType
<1>4. \A i \in 1..Len(o) : o[i] \in Spaces \cup ZeroWidth /\ o[i] \in Shown
  BY <1>3, OnlyIn
<1>5. \A r \in Shown : r \notin ZeroWidth
  BY DEF Shown, Visible
<1>6. \A i \in 1..Len(o) : o[i] \in Spaces
  BY <1>4, <1>5
<1>7. \A r \in Spaces : AsciiOf[r] \in Spaces
  BY SpacesAre, AsciiIs
<1>8. o \in Seq(Spaces)
  <2>1. Len(o) \in Nat /\ o = [i \in 1..Len(o) |-> o[i]]
    BY <1>3
  <2> QED BY <1>6, <2>1, SeqDef
<1>9. Maps(AsciiOf, Spaces, Spaces)
  BY <1>7, Zenon DEF Maps
<1>10. Image(AsciiOf, o) \in Seq(Spaces)
  BY <1>8, <1>9, ImageType
<1>11. Digits(wrap) = Image(AsciiOf, o)
  BY <1>2, <1>3, DigitsAre
<1> QED BY <1>2, <1>10, <1>11

LEMMA WrapClean ==
    ASSUME NEW body \in Seq(Runes), NEW wrap \in Seq(Spaces \cup ZeroWidth)
    PROVE  Clean(Collapsed(Append((wrap \o body) \o wrap, Space))) = Clean(body)
<1>1. PICK w \in Seq(Runes), c \in Seq(Spaces) : w = wrap /\ c = Digits(w)
  BY WrapDigits
<1>2. PICK a \in Seq(Runes) : a = w \o body
  BY ConcatProperties
<1>3. PICK t \in Seq(Runes) : t = a \o w
  BY ConcatProperties
<1>4. PICK s \in Seq(Runes) : s = Append(t, Space)
  BY SpacedInk
<1>5. Clean(Collapsed(s)) = Clean(s)
  BY CleanAgain
<1>6. Clean(s) = Collapsed(Digits(s))
  BY CleanType
<1>7. PICK d \in Seq(Runes), b \in Seq(Runes), e \in Seq(Runes) :
        d = Digits(t) /\ b = Digits(body) /\ e = Digits(a)
  BY DigitsAre
<1>8. Digits(s) = Append(d, Space)
  <2>1. Space \in Runes /\ Space \in Shown /\ AsciiOf[Space] = Space
    BY SpacesAre, AsciiIs
  <2> QED BY <1>4, <1>7, <2>1, DigitsAppend
<1>9. Collapsed(Append(d, Space)) = Collapsed(d)
  BY SpacesAre, Collapsing
<1>10. d = e \o c
  BY <1>1, <1>3, <1>7, DigitsConcat
<1>11. e = c \o b
  BY <1>1, <1>2, <1>7, DigitsConcat
<1>12. Collapsed(e \o c) = Collapsed(e)
  BY CollapsedBehind
<1>13. Collapsed(c \o b) = Collapsed(b)
  BY CollapsedBefore
<1>14. Clean(body) = Collapsed(b)
  BY <1>7, CleanType
<1>15. Clean(Collapsed(s)) = Clean(body)
  BY <1>5, <1>6, <1>8, <1>9, <1>10, <1>11, <1>12, <1>13, <1>14, Zenon
<1> QED BY <1>1, <1>2, <1>3, <1>4, <1>15, Zenon

LEMMA Triple ==
    ASSUME NEW T, NEW a \in T, NEW b \in T, NEW c \in T
    PROVE  Append(Append(<<a>>, b), c) = <<a, b, c>> /\ Append(<<>>, b) = <<b>>
<1>1. <<a, b>> = Append(<<a>>, b) /\ <<a, b, c>> = Append(<<a, b>>, c)
      /\ <<b>> = Append(<<>>, b)
  OBVIOUS
<1> QED BY <1>1, Zenon

LEMMA MarkTriple ==
    /\ <<Open>> \in Seq(Runes) /\ Ink(<<Open>>) = <<Open>>
    /\ <<Percent, Shut, Space>> \in Seq(Runes) /\ Ink(<<Percent, Shut, Space>>) = <<Shut>>
<1>1. PICK o \in Runes, p \in Runes, s \in Runes, b \in Runes :
        o = Open /\ p = Percent /\ s = Shut /\ b = Space
        /\ o \in Marked /\ p \notin Marked /\ s \in Marked /\ b \notin Marked
  BY MarksAre, UnmarkedRunes
<1>2. AsciiOf[o] = o /\ AsciiOf[s] = s
  <2>1. Ascii(Open) = Open /\ Ascii(Shut) = Shut
    BY DEF Ascii, Open, Shut, PersianDigits, ArabicDigits, ArabicDecimal
  <2> QED BY <1>1, <2>1, AsciiIs
<1>3. <<o>> \in Seq(Runes) /\ Ink(<<o>>) = <<o>>
  BY <1>1, <1>2, InkOne
<1>4. <<p>> \in Seq(Runes) /\ Ink(<<p>>) = <<>>
  BY <1>1, InkOne
<1>5. Append(<<p>>, s) \in Seq(Runes) /\ Ink(Append(<<p>>, s)) = Append(<<>>, s)
  BY <1>1, <1>2, <1>4, InkAppend
<1>6. /\ Append(Append(<<p>>, s), b) \in Seq(Runes)
      /\ Ink(Append(Append(<<p>>, s), b)) = Append(<<>>, s)
  BY <1>1, <1>5, InkAppend
<1>7. Append(Append(<<p>>, s), b) = <<p, s, b>> /\ Append(<<>>, s) = <<s>>
  BY Triple
<1> QED BY <1>1, <1>3, <1>6, <1>7, Zenon

LEMMA TextType ==
    ASSUME NEW x \in Instruments, NEW style \in Styles, NEW f \in Fields
    PROVE  TextOf(x, f, style) \in Seq(Runes)
<1>1. /\ x.price \in Numbers /\ x.low \in Numbers /\ x.high \in Numbers
      /\ x.percent \in Numbers /\ x.amount \in Numbers /\ x.time \in Seq(Nat)
  BY DEF Instruments
<1>2. CASE f = "price"
  BY <1>1, <1>2, RenderedInk DEF TextOf
<1>3. CASE f = "low"
  BY <1>1, <1>3, RenderedInk DEF TextOf
<1>4. CASE f = "high"
  BY <1>1, <1>4, RenderedInk DEF TextOf
<1>5. CASE f = "time"
  BY <1>1, <1>5 DEF TextOf, Runes
<1>6. CASE f = "change"
  <2>1. PICK p \in Seq(Runes), a \in Seq(Runes), w \in Seq(Runes) :
          p = Rendered(x.percent, style) /\ a = Rendered(x.amount, style) /\ w = style.raw
    BY <1>1, RenderedInk, StyleType
  <2>2. PICK o \in Seq(Runes), m \in Seq(Runes) :
          o = <<Open>> /\ m = <<Percent, Shut, Space>>
    BY MarkTriple
  <2>3. TextOf(x, f, style) = IF w # <<>> THEN w ELSE ((o \o p) \o m) \o a
    BY <1>6, <2>1, <2>2, Zenon DEF TextOf
  <2>4. ((o \o p) \o m) \o a \in Seq(Runes)
    <3>1. PICK y \in Seq(Runes) : y = o \o p
      BY ConcatProperties
    <3>2. PICK z \in Seq(Runes) : z = y \o m
      BY ConcatProperties
    <3> QED BY <3>1, <3>2, ConcatProperties
  <2> QED BY <2>3, <2>4
<1> QED BY <1>2, <1>3, <1>4, <1>5, <1>6 DEF Fields

\* The ink of a cell is that of what it shows; an unsplit one is cleaned alike.
LEMMA CellInk ==
    ASSUME NEW x \in Instruments, NEW style \in Styles, NEW f \in Fields,
           NEW body, body = TextOf(x, f, style)
    PROVE  /\ Text(CellOf(x, f, style)) \in Seq(Runes)
           /\ Ink(Text(CellOf(x, f, style))) = Ink(body)
           /\ style.split = 0 \/ f = "time" =>
                Clean(Text(CellOf(x, f, style))) = Clean(body)
<1>1. body \in Seq(Runes)
  BY TextType
<1>2. PICK wrap \in Seq(Runes), k \in Nat : wrap = style.wrap /\ k = style.split
      /\ wrap \in Seq(Spaces \cup ZeroWidth) /\ Ink(wrap) = <<>>
  BY StyleType
<1>3. PICK t \in Seq(Runes) : t = (wrap \o body) \o wrap /\ Ink(t) = Ink(body)
  BY <1>1, <1>2, WrapInk
<1>4. PICK cell : cell = CellOf(x, f, style)
  OBVIOUS
<1>5. cell.nodes = IF k = 0 \/ k >= Len(t) \/ f = "time" THEN <<t>>
                   ELSE <<SubSeq(t, 1, k), SubSeq(t, k + 1, Len(t))>>
  <2>1. \A a, b : [nodes |-> a, classes |-> b].nodes = a
    OBVIOUS
  <2> QED BY <1>2, <1>3, <1>4, <2>1, Zenon DEF CellOf
<1>6. CASE k = 0 \/ k >= Len(t) \/ f = "time"
  <2>1. cell.nodes = <<t>>
    BY <1>5, <1>6, Zenon
  <2>2. Text(cell) = Collapsed(Append(t, Space))
    BY <2>1, TextOne
  <2>3. PICK s \in Seq(Runes) : s = Append(t, Space) /\ Ink(s) = Ink(t)
    BY SpacedInk
  <2>4. Collapsed(s) \in Seq(Runes) /\ Ink(Collapsed(s)) = Ink(s)
    BY Collapses, InkOfCollapsed
  <2>5. Clean(Text(cell)) = Clean(body)
    BY <1>1, <1>2, <1>3, <2>2, WrapClean
  <2> QED BY <1>3, <1>4, <2>2, <2>3, <2>4, <2>5, Zenon
<1>7. CASE ~(k = 0 \/ k >= Len(t) \/ f = "time")
  <2>1. k < Len(t)
    BY <1>7, LenProperties
  <2>2. PICK a \in Seq(Runes), b \in Seq(Runes) :
          a = SubSeq(t, 1, k) /\ b = SubSeq(t, k + 1, Len(t)) /\ a \o b = t
    <3>1. /\ SubSeq(t, 1, k) \in Seq(Runes) /\ SubSeq(t, k + 1, Len(t)) \in Seq(Runes)
          /\ SubSeq(t, 1, k) \o SubSeq(t, k + 1, Len(t)) = t
      BY <2>1, SplitSub
    <3> QED BY <3>1, Zenon
  <2>3. cell.nodes = <<a, b>>
    BY <1>5, <1>7, <2>2, Zenon
  <2>4. Text(cell) = Collapsed(Append(a, Space) \o Append(b, Space))
    BY <2>3, TextTwo
  <2>5. PICK y \in Seq(Runes), z \in Seq(Runes) :
          y = Append(a, Space) /\ Ink(y) = Ink(a) /\ z = Append(b, Space) /\ Ink(z) = Ink(b)
    BY SpacedInk
  <2>6. y \o z \in Seq(Runes) /\ Ink(y \o z) = Ink(y) \o Ink(z) /\ Ink(a \o b) = Ink(a) \o Ink(b)
    BY InkConcat, ConcatRules, Zenon
  <2>7. PICK s \in Seq(Runes) : s = y \o z /\ Ink(s) = Ink(t)
    BY <2>2, <2>5, <2>6, Zenon
  <2>8. Collapsed(s) \in Seq(Runes) /\ Ink(Collapsed(s)) = Ink(s)
    BY Collapses, InkOfCollapsed
  <2>9. ~(style.split = 0 \/ f = "time")
    BY <1>2, <1>7, Zenon
  <2> QED BY <1>3, <1>4, <2>4, <2>5, <2>7, <2>8, <2>9, Zenon
<1> QED BY <1>6, <1>7

----------------------------------------------------------------------------
(* The column of a field.                                                    *)

CaptionWords == {"livePrice", "change", "lowest", "highest", "time"}

LEMMA OrderType ==
    ASSUME NEW style \in Styles
    PROVE  /\ style.order \in Seq(Fields \cup {"other"})
           /\ \A i, j \in 1..Len(style.order) : style.order[i] = style.order[j] => i = j
           /\ \A f \in Fields : \E j \in 1..Len(style.order) : style.order[j] = f
           /\ style.named \subseteq Fields /\ style.tip \subseteq {"time"}
           /\ style.headed \in BOOLEAN /\ style.short \in BOOLEAN
           /\ ~style.headed \/ Cardinality(style.named) < 3 => IsPrefix(Historical, style.order)
<1>1. /\ style.order \in Seq(Fields \cup {"other"})
      /\ IsInjective(style.order) /\ Fields \subseteq ToSet(style.order)
      /\ style.named \subseteq Fields /\ style.tip \subseteq {"time"}
      /\ style.headed \in BOOLEAN /\ style.short \in BOOLEAN
      /\ ~style.headed \/ Cardinality(style.named) < 3 => IsPrefix(Historical, style.order)
  BY DEF Styles
<1>2. PICK o \in Seq(Fields \cup {"other"}) : o = style.order
  BY <1>1
<1>3. DOMAIN o = 1..Len(o)
  OBVIOUS
<1>4. \A i, j \in 1..Len(o) : o[i] = o[j] => i = j
  BY <1>1, <1>2, <1>3, Zenon DEF IsInjective
<1>5. \A f \in Fields : \E j \in 1..Len(o) : o[j] = f
  BY <1>1, <1>2, <1>3 DEF ToSet
<1> QED BY <1>1, <1>2, <1>4, <1>5, Zenon

LEMMA FieldNamedIs ==
    /\ FieldNamed({}) = "none"
    /\ \A f \in Fields, tip \in SUBSET {"time"} : FieldNamed({WordFor[f]} \cup tip) = f
<1> DEFINE I(caption) == {i \in 1..Len(HeaderKeywords) : HeaderKeywords[i].word \in caption}
           Least1(caption) == IF I(caption) # {} THEN Min(I(caption)) ELSE 0
<1>1. \A caption : FieldNamed(caption) =
        IF Least1(caption) = 0 THEN "none" ELSE HeaderKeywords[Least1(caption)].field
  BY Zenon DEF FieldNamed, SelectInSeq
<1>2. /\ Len(HeaderKeywords) = 6
      /\ HeaderKeywords[1].word = "livePrice" /\ HeaderKeywords[1].field = "price"
      /\ HeaderKeywords[2].word = "liveRate"
      /\ HeaderKeywords[3].word = "change" /\ HeaderKeywords[3].field = "change"
      /\ HeaderKeywords[4].word = "lowest" /\ HeaderKeywords[4].field = "low"
      /\ HeaderKeywords[5].word = "highest" /\ HeaderKeywords[5].field = "high"
      /\ HeaderKeywords[6].word = "time" /\ HeaderKeywords[6].field = "time"
  BY DEF HeaderKeywords, Keyword
<1>3. I({}) = {}
  OBVIOUS
<1>4. FieldNamed({}) = "none"
  <2>1. Least1({}) = 0
    BY <1>3
  <2> HIDE DEF Least1
  <2> QED BY <1>1, <2>1
<1>5. ASSUME NEW f \in Fields, NEW tip \in SUBSET {"time"}
      PROVE  FieldNamed({WordFor[f]} \cup tip) = f
  <2>1. PICK c : c = {WordFor[f]} \cup tip
    OBVIOUS
  <2>2. ASSUME NEW k \in 1..6, HeaderKeywords[k].word \in c,
               \A i \in 1..6 : HeaderKeywords[i].word \in c => k <= i
        PROVE  FieldNamed(c) = HeaderKeywords[k].field
    <3>1. k \in I(c) /\ I(c) \subseteq Nat /\ \A i \in I(c) : i \in 1..6 /\ k <= i
      BY <1>2, <2>2
    <3>2. I(c) # {}
      BY <3>1
    <3>3. PICK T : T = I(c)
      OBVIOUS
    <3>4. Min(T) \in T /\ \A y \in T : Min(T) <= y
      <4>1. T \subseteq Nat /\ T # {}
        BY <3>1, <3>3
      <4> QED BY <4>1, MinOf
    <3>5. Min(T) = k
      <4>1. Min(T) <= k /\ k <= Min(T) /\ Min(T) \in 1..6
        BY <3>1, <3>3, <3>4
      <4> QED BY <4>1
    <3>6. Least1(c) = k
      BY <3>2, <3>3, <3>5
    <3>7. k # 0
      OBVIOUS
    <3> HIDE DEF Least1
    <3> QED BY <1>1, <3>6, <3>7
  <2>3. \A i \in 1..6 : i = 1 \/ i = 2 \/ i = 3 \/ i = 4 \/ i = 5 \/ i = 6
    OBVIOUS
  <2> HIDE DEF I, Least1
  <2>4. CASE f = "price"
    <3>1. WordFor[f] = "livePrice"
      BY <2>4 DEF WordFor
    <3>2. HeaderKeywords[1].word \in c
      BY <1>2, <2>1, <3>1
    <3>3. \A i \in 1..6 : HeaderKeywords[i].word \in c => 1 <= i
      OBVIOUS
    <3> QED BY <1>2, <2>1, <2>2, <2>4, <3>2, <3>3
  <2>5. CASE f = "change"
    <3>1. WordFor[f] = "change"
      BY <2>5 DEF WordFor
    <3>2. HeaderKeywords[3].word \in c
      BY <1>2, <2>1, <3>1
    <3>3. \A i \in 1..6 : HeaderKeywords[i].word \in c => 3 <= i
      BY <1>2, <2>1, <2>3, <3>1
    <3> QED BY <1>2, <2>1, <2>2, <2>5, <3>2, <3>3
  <2>6. CASE f = "low"
    <3>1. WordFor[f] = "lowest"
      BY <2>6 DEF WordFor
    <3>2. HeaderKeywords[4].word \in c
      BY <1>2, <2>1, <3>1
    <3>3. \A i \in 1..6 : HeaderKeywords[i].word \in c => 4 <= i
      BY <1>2, <2>1, <2>3, <3>1
    <3> QED BY <1>2, <2>1, <2>2, <2>6, <3>2, <3>3
  <2>7. CASE f = "high"
    <3>1. WordFor[f] = "highest"
      BY <2>7 DEF WordFor
    <3>2. HeaderKeywords[5].word \in c
      BY <1>2, <2>1, <3>1
    <3>3. \A i \in 1..6 : HeaderKeywords[i].word \in c => 5 <= i
      BY <1>2, <2>1, <2>3, <3>1
    <3> QED BY <1>2, <2>1, <2>2, <2>7, <3>2, <3>3
  <2>8. CASE f = "time"
    <3>1. WordFor[f] = "time"
      BY <2>8 DEF WordFor
    <3>2. HeaderKeywords[6].word \in c
      BY <1>2, <2>1, <3>1
    <3>3. \A i \in 1..6 : HeaderKeywords[i].word \in c => 6 <= i
      BY <1>2, <2>1, <2>3, <3>1
    <3> QED BY <1>2, <2>1, <2>2, <2>8, <3>2, <3>3
  <2> QED BY <2>4, <2>5, <2>6, <2>7, <2>8 DEF Fields
<1> QED BY <1>4, <1>5

\* The cells of a header behind its first: one per column, and an empty one.
Captions == SUBSET CaptionWords
CaptionOf(style, j) ==
    IF style.order[j] \in style.named
    THEN {WordFor[style.order[j]]} \cup style.tip ELSE {}
Heads(style, n, cells) ==
    /\ cells \in Seq(Captions) /\ Len(cells) = n + 1
    /\ \A j \in 1..n : cells[j] = CaptionOf(style, j)
    /\ cells[n + 1] = {}
LEMMA HeaderCells ==
    ASSUME NEW style \in Styles, NEW n \in Nat, n = Len(style.order)
    PROVE  HeaderOf(style) # <<>> /\ Heads(style, n, Tail(HeaderOf(style)))
<1> DEFINE mid == [j \in 1..n |-> CaptionOf(style, j)]
<1>1. \A j \in 1..n : CaptionOf(style, j) \in Captions
  <2> TAKE j \in 1..n
  <2>1. CASE style.order[j] \in style.named
    <3>1. PICK f \in Fields : f = style.order[j]
      BY <2>1, OrderType
    <3>2. WordFor[f] \in CaptionWords
      BY DEF WordFor, CaptionWords, Fields
    <3>3. style.tip \subseteq CaptionWords
      BY OrderType DEF CaptionWords
    <3> QED BY <2>1, <3>1, <3>2, <3>3 DEF CaptionOf, Captions
  <2>2. CASE style.order[j] \notin style.named
    BY <2>2 DEF CaptionOf, Captions
  <2> QED BY <2>1, <2>2
<1>2. PICK m \in Seq(Captions) : m = mid /\ Len(m) = n /\ \A j \in 1..n : m[j] = CaptionOf(style, j)
  <2>1. mid \in Seq(Captions) /\ Len(mid) = n
    BY <1>1
  <2> QED BY <2>1
<1>3. PICK e \in Captions : e = {}
  BY DEF Captions
<1>4. PICK w \in Seq(Captions) : w = <<e>> /\ Len(w) = 1 /\ w[1] = e
  <2>1. <<e>> \in Seq(Captions) /\ Len(<<e>>) = 1 /\ <<e>>[1] = e
    OBVIOUS
  <2> QED BY <2>1, Zenon
<1>5. HeaderOf(style) = (w \o m) \o w
  <2>1. style.order \in Seq(Fields \cup {"other"})
    BY OrderType
  <2>2. DOMAIN style.order = 1..n
    BY <2>1
  <2>3. mid = [j \in DOMAIN style.order |->
                  IF style.order[j] \in style.named
                  THEN {WordFor[style.order[j]]} \cup style.tip ELSE {}]
    BY <2>2, Zenon DEF CaptionOf
  <2> QED BY <1>2, <1>3, <1>4, <2>3, Zenon DEF HeaderOf
<1> HIDE DEF mid
<1>6. PICK a \in Seq(Captions) : Joined(a, w, m)
  BY ConcatProperties DEF Joined
<1>7. PICK h \in Seq(Captions) : Joined(h, a, w)
  BY ConcatProperties DEF Joined
<1>8. Parts(a, w, m) /\ Parts(h, a, w)
  BY <1>6, <1>7, JoinedParts
<1>9. Len(a) = 1 + n /\ a[1] = e /\ \A j \in 1..n : a[1 + j] = m[j]
  <2>1. 1 \in 1..1
    OBVIOUS
  <2> QED BY <1>2, <1>4, <1>8, <2>1, Zenon DEF Parts
<1>10. Len(h) = n + 2 /\ h[n + 2] = e /\ \A i \in 1..(1 + n) : h[i] = a[i]
  <2>1. Len(h) = (1 + n) + 1 /\ h[(1 + n) + 1] = w[1] /\ \A i \in 1..(1 + n) : h[i] = a[i]
    <3>1. 1 \in 1..1
      OBVIOUS
    <3> QED BY <1>4, <1>8, <1>9, <3>1, Zenon DEF Parts
  <2>2. (1 + n) + 1 = n + 2
    OBVIOUS
  <2> QED BY <1>4, <2>1, <2>2, Zenon
<1>11. h = HeaderOf(style)
  BY <1>5, <1>6, <1>7, Zenon DEF Joined
<1>12. h # <<>>
  BY <1>10, EmptySeq
<1>13. PICK c \in Seq(Captions) : c = Tail(h) /\ Len(c) = n + 1 /\ \A i \in 1..(n + 1) : c[i] = h[i + 1]
  <2>1. /\ Tail(h) \in Seq(Captions) /\ Len(Tail(h)) = Len(h) - 1
        /\ \A i \in 1..Len(Tail(h)) : Tail(h)[i] = h[i + 1]
    BY <1>12, HeadTailProperties
  <2>2. Len(Tail(h)) = n + 1
    BY <1>10, <2>1
  <2> QED BY <2>1, <2>2, Zenon
<1>14. \A j \in 1..n : c[j] = CaptionOf(style, j)
  <2> TAKE j \in 1..n
  <2>1. j \in 1..(n + 1) /\ j + 1 \in 1..(1 + n) /\ j + 1 = 1 + j
    OBVIOUS
  <2> QED BY <1>2, <1>9, <1>10, <1>13, <2>1, Zenon
<1>15. c[n + 1] = {}
  <2>1. n + 1 \in 1..(n + 1) /\ (n + 1) + 1 = n + 2
    OBVIOUS
  <2> QED BY <1>3, <1>10, <1>13, <2>1, Zenon
<1> QED BY <1>11, <1>12, <1>13, <1>14, <1>15, Zenon DEF Heads

\* As many columns are named as there are names.
NamedAt(style) == {j \in 1..Len(style.order) : style.order[j] \in style.named}
LEMMA NamedCount ==
    ASSUME NEW style \in Styles
    PROVE  Cardinality(NamedAt(style)) = Cardinality(style.named)
<1>1. PICK o, n, named : /\ o = style.order /\ n = Len(o) /\ named = style.named
                         /\ n \in Nat /\ NamedAt(style) = {j \in 1..n : o[j] \in named}
  <2>1. Len(style.order) \in Nat
    BY OrderType, LenProperties
  <2> QED BY <2>1, Zenon DEF NamedAt
<1>2. /\ \A i, j \in 1..n : o[i] = o[j] => i = j
      /\ \A f \in named : \E j \in 1..n : o[j] = f
  <2>1. /\ \A i, j \in 1..Len(style.order) : style.order[i] = style.order[j] => i = j
        /\ \A f \in Fields : \E j \in 1..Len(style.order) : style.order[j] = f
        /\ style.named \subseteq Fields
    BY OrderType
  <2>2. \A f \in style.named : f \in Fields
    BY <2>1
  <2> QED BY <1>1, <2>1, <2>2, Zenon
<1> DEFINE N == {j \in 1..n : o[j] \in named}
           g == [j \in N |-> o[j]]
<1>3. IsFiniteSet(N)
  <2>1. 1 \in Int /\ n \in Int
    BY <1>1
  <2>2. IsFiniteSet(1..n)
    BY <2>1, FS_Interval
  <2>3. N \in SUBSET (1..n)
    OBVIOUS
  <2> QED BY <2>2, <2>3, FS_Subset
<1>4. g \in [N -> named]
  OBVIOUS
<1>5. g \in Injection(N, named)
  BY <1>2, <1>4 DEF Injection, IsInjective
<1>6. g \in Surjection(N, named)
  <2>1. \A f \in named : \E j \in N : g[j] = f
    BY <1>2
  <2> QED BY <1>4, <2>1 DEF Surjection
<1>7. ExistsBijection(N, named)
  BY <1>5, <1>6 DEF Bijection, ExistsBijection
<1> HIDE DEF N, g
<1>8. Cardinality(named) = Cardinality(N)
  BY <1>3, <1>7, FS_Bijection
<1> QED BY <1>1, <1>8 DEF N

\* The layout read from the header of a page, before its columns are looked up.
NamesOf(style) ==
    [j \in 1..(Len(style.order) + 1) |->
        IF j \in 1..Len(style.order) /\ style.order[j] \in style.named
        THEN style.order[j] ELSE "none"]
LastOf(names, f) == SelectLastInSeq(names, LAMBDA g : g = f)

CellsOf(head) == IF head = <<>> THEN <<>> ELSE Tail(head)
NamesIn(cells) == [i \in DOMAIN cells |-> FieldNamed(cells[i])]
LaidOut(cells, fields) ==
    IF Cardinality({i \in DOMAIN cells : fields[i] # "none"}) < 3 THEN DefaultLayout
    ELSE [f \in Fields |-> LastOf(fields, f)]
LEMMA LayoutUnfolds ==
    /\ \A head : LayoutOf(head) = LaidOut(CellsOf(head), NamesIn(CellsOf(head)))
    /\ LayoutOf(<<>>) = DefaultLayout
<1>1. \A head : LayoutOf(head) = LaidOut(CellsOf(head), NamesIn(CellsOf(head)))
  BY Zenon DEF LayoutOf, LastOf, LaidOut, CellsOf, NamesIn
<1>2. CellsOf(<<>>) = <<>>
  BY DEF CellsOf
<1>3. {i \in DOMAIN <<>> : NamesIn(<<>>)[i] # "none"} = {}
  OBVIOUS
<1>4. Cardinality({}) < 3
  BY FS_EmptySet
<1>5. LaidOut(<<>>, NamesIn(<<>>)) = DefaultLayout
  BY <1>3, <1>4, Zenon DEF LaidOut
<1> QED BY <1>1, <1>2, <1>5, Zenon

LEMMA FieldsFinite ==
    ASSUME NEW named, named \subseteq Fields
    PROVE  Cardinality(named) \in Nat
<1>1. IsFiniteSet({})
  BY FS_EmptySet
<1>2. IsFiniteSet({} \cup {"price"})
  BY <1>1, FS_AddElement
<1>3. IsFiniteSet(({} \cup {"price"}) \cup {"change"})
  BY <1>2, FS_AddElement
<1>4. IsFiniteSet((({} \cup {"price"}) \cup {"change"}) \cup {"low"})
  BY <1>3, FS_AddElement
<1>5. IsFiniteSet(((({} \cup {"price"}) \cup {"change"}) \cup {"low"}) \cup {"high"})
  BY <1>4, FS_AddElement
<1>6. IsFiniteSet((((({} \cup {"price"}) \cup {"change"}) \cup {"low"}) \cup {"high"}) \cup {"time"})
  BY <1>5, FS_AddElement
<1>7. Fields = ((((({} \cup {"price"}) \cup {"change"}) \cup {"low"}) \cup {"high"}) \cup {"time"})
  BY DEF Fields
<1>8. IsFiniteSet(Fields)
  BY <1>6, <1>7
<1> QED BY <1>8, FS_Subset, FS_CardinalityType

LEMMA HeadLayout ==
    ASSUME NEW style \in Styles
    PROVE  LayoutOf(HeaderOf(style)) =
             IF Cardinality(style.named) < 3 THEN DefaultLayout
             ELSE [f \in Fields |-> LastOf(NamesOf(style), f)]
<1>1. PICK n \in Nat : n = Len(style.order)
  BY OrderType, LenProperties
<1>0. PICK head : head = HeaderOf(style)
  OBVIOUS
<1>2. PICK cells : cells = Tail(head)
  OBVIOUS
<1>3. /\ head # <<>> /\ cells \in Seq(Captions) /\ Len(cells) = n + 1
      /\ \A j \in 1..n : cells[j] = CaptionOf(style, j)
      /\ cells[n + 1] = {}
  <2>1. cells = Tail(HeaderOf(style))
    BY <1>0, <1>2
  <2>2. HeaderOf(style) # <<>> /\ Heads(style, n, Tail(HeaderOf(style)))
    BY <1>1, HeaderCells
  <2> QED BY <1>0, <2>1, <2>2, Zenon DEF Heads
<1>4. DOMAIN cells = 1..(n + 1)
  BY <1>3
<1>5. PICK fields : fields = [i \in DOMAIN cells |-> FieldNamed(cells[i])]
  OBVIOUS
<1>6. LayoutOf(head) = LaidOut(cells, fields)
  <2>1. cells = CellsOf(head) /\ fields = NamesIn(cells)
    BY <1>2, <1>3, <1>5, Zenon DEF CellsOf, NamesIn
  <2> QED BY <2>1, LayoutUnfolds, Zenon
<1>7. ASSUME NEW j \in 1..n
      PROVE  FieldNamed(cells[j]) =
               IF style.order[j] \in style.named THEN style.order[j] ELSE "none"
  <2>1. CASE style.order[j] \in style.named
    <3>1. PICK f \in Fields : f = style.order[j]
      BY <2>1, OrderType
    <3>2. PICK tip \in SUBSET {"time"} : tip = style.tip
      BY OrderType
    <3>3. cells[j] = {WordFor[f]} \cup tip
      BY <1>3, <2>1, <3>1, <3>2, Zenon DEF CaptionOf
    <3>4. FieldNamed({WordFor[f]} \cup tip) = f
      BY FieldNamedIs
    <3> QED BY <2>1, <3>1, <3>3, <3>4, Zenon
  <2>2. CASE style.order[j] \notin style.named
    <3>1. cells[j] = {}
      BY <1>3, <2>2, Zenon DEF CaptionOf
    <3> QED BY <2>2, <3>1, FieldNamedIs, Zenon
  <2> QED BY <2>1, <2>2
<1>8. FieldNamed(cells[n + 1]) = "none" /\ n + 1 \notin 1..n
  BY <1>3, FieldNamedIs
<1>9. \A j \in 1..(n + 1) : j \in 1..n \/ j = n + 1
  OBVIOUS
<1>10. fields = NamesOf(style)
  <2>1. \A j \in 1..(n + 1) :
          FieldNamed(cells[j]) = IF j \in 1..n /\ style.order[j] \in style.named
                                 THEN style.order[j] ELSE "none"
    BY <1>7, <1>8, <1>9, Zenon
  <2> QED BY <1>1, <1>4, <1>5, <2>1, Zenon DEF NamesOf
<1>11. {i \in DOMAIN cells : fields[i] # "none"} = NamedAt(style)
  <2>1. "none" \notin Fields /\ style.named \subseteq Fields
    BY OrderType DEF Fields
  <2>2. \A j \in 1..(n + 1) :
          fields[j] = IF j \in 1..n /\ style.order[j] \in style.named
                      THEN style.order[j] ELSE "none"
    BY <1>1, <1>10, Zenon DEF NamesOf
  <2>3. \A j \in 1..(n + 1) :
          fields[j] # "none" <=> j \in 1..n /\ style.order[j] \in style.named
    BY <2>1, <2>2
  <2>4. \A j : j \in 1..n => j \in 1..(n + 1)
    OBVIOUS
  <2> QED BY <1>1, <1>4, <2>3, <2>4, Zenon DEF NamedAt
<1> QED BY <1>0, <1>6, <1>10, <1>11, NamedCount, Zenon DEF LaidOut

\* Where the layout of a style puts a field.
Known(style, f) == Cardinality(style.named) >= 3 /\ style.headed => f \in style.named
LEMMA LayoutIs ==
    ASSUME NEW style \in Styles, NEW f \in Fields,
           NEW j \in 1..Len(style.order), style.order[j] = f
    PROVE  Layout(style)[f] = IF Known(style, f) THEN j ELSE 0
<1>1. PICK o, n, named : n \in Nat /\
        o = style.order /\ n = Len(o) /\ named = style.named
  BY OrderType, LenProperties, Zenon
<1>2. j \in 1..n /\ o[j] = f /\ \A i \in 1..n : o[i] = f => i = j
  BY <1>1, OrderType, Zenon
<1>3. style.headed \in BOOLEAN /\ named \subseteq Fields
  BY <1>1, OrderType
<1>4. CASE ~style.headed \/ Cardinality(named) < 3
  <2>1. Layout(style) = DefaultLayout
    BY <1>1, <1>3, <1>4, HeadLayout, LayoutUnfolds DEF Layout
  <2>2. IsPrefix(Historical, o)
    BY <1>1, <1>4, OrderType
  <2>3. Len(Historical) = 5 /\ Historical \in Seq(Fields)
    BY DEF Historical, Fields
  <2>4. 5 <= n /\ SubSeq(Historical, 1, 5) = SubSeq(o, 1, 5)
    BY <1>1, <2>2, <2>3, Zenon DEF IsPrefix
  <2>5. \A i \in 1..5 : Historical[i] = o[i]
    <3>1. o \in Seq(Fields \cup {"other"})
      BY <1>1, OrderType
    <3> DEFINE U == Fields \cup {"other"}
    <3> HIDE DEF U
    <3>2. \A i \in 1..((5 + 1) - 1) : SubSeq(o, 1, 5)[i] = o[(1 - 1) + i]
      <4>1. o \in Seq(U) /\ 1 \in Nat /\ 5 \in Nat /\ 1 <= 1 /\ 1 <= 5 + 1 /\ 5 <= Len(o)
        BY <1>1, <2>4, <3>1 DEF U
      <4> QED BY <4>1, SubSeqOf
    <3>3. \A i \in 1..((5 + 1) - 1) : SubSeq(Historical, 1, 5)[i] = Historical[(1 - 1) + i]
      <4>1. 1 \in Nat /\ 5 \in Nat /\ 1 <= 1 /\ 1 <= 5 + 1 /\ 5 <= Len(Historical)
        BY <2>3
      <4> QED BY <2>3, <4>1, SubSeqOf
    <3>4. \A i \in 1..5 : i \in 1..((5 + 1) - 1) /\ (1 - 1) + i = i
      OBVIOUS
    <3> QED BY <2>4, <3>2, <3>3, <3>4, Zenon
  <2>6. DefaultLayout[f] \in 1..5 /\ Historical[DefaultLayout[f]] = f
    BY DEF DefaultLayout, Historical, Fields
  <2>7. DefaultLayout[f] = j
    <3>1. \A i \in 1..5 : i \in 1..n
      BY <1>1, <2>4
    <3> QED BY <1>2, <2>5, <2>6, <3>1, Zenon
  <2>8. Known(style, f)
    <3>1. Cardinality(named) < 3 => ~(Cardinality(named) >= 3)
      <4>1. Cardinality(named) \in Nat
        BY <1>3, FieldsFinite
      <4> QED BY <4>1
    <3> QED BY <1>1, <1>4, <3>1, Zenon DEF Known
  <2> QED BY <2>1, <2>7, <2>8
<1>5. CASE style.headed /\ ~(Cardinality(named) < 3)
  <2>1. Cardinality(named) >= 3
    <3>1. Cardinality(named) \in Nat
      BY <1>3, FieldsFinite
    <3> QED BY <1>5, <3>1
  <2>2. Known(style, f) <=> f \in named
    BY <1>1, <1>5, <2>1 DEF Known
  <2>3. PICK names : names = NamesOf(style)
    OBVIOUS
  <2>4. /\ Len(names) = n + 1
        /\ \A i \in 1..(n + 1) : names[i] = IF i \in 1..n /\ o[i] \in named THEN o[i] ELSE "none"
    BY <1>1, <2>3 DEF NamesOf
  <2>5. Layout(style)[f] = LastOf(names, f)
    <3>1. Layout(style) = [g \in Fields |-> LastOf(names, g)]
      BY <1>1, <1>5, <2>3, HeadLayout, Zenon DEF Layout
    <3> QED BY <3>1
  <2> DEFINE I == {i \in 1..(n + 1) : names[i] = f}
  <2>6. LastOf(names, f) = IF I # {} THEN Max(I) ELSE 0
    BY <2>4, Zenon DEF LastOf, SelectLastInSeq
  <2>7. f # "none"
    BY DEF Fields
  <2>8. I = IF f \in named THEN {j} ELSE {}
    <3>1. \A i \in 1..(n + 1) : names[i] = f <=> i \in 1..n /\ o[i] \in named /\ o[i] = f
      BY <2>4, <2>7
    <3>2. j \in 1..(n + 1)
      BY <1>1, <1>2
    <3> QED BY <1>2, <3>1, <3>2
  <2>9. CASE f \in named
    <3>1. PICK T : T = {j}
      OBVIOUS
    <3>2. T \subseteq 0..n /\ T # {}
      BY <1>2, <3>1
    <3>3. Max(T) \in T
      BY <1>1, <3>2, MaxOf
    <3>4. Max(T) = j
      BY <3>1, <3>3
    <3>5. LastOf(names, f) = j
      BY <2>6, <2>8, <2>9, <3>1, <3>2, <3>4
    <3> QED BY <2>2, <2>5, <2>9, <3>5
  <2>10. CASE f \notin named
    <3>1. LastOf(names, f) = 0
      BY <2>6, <2>8, <2>10
    <3> QED BY <2>2, <2>5, <2>10, <3>1
  <2> QED BY <2>9, <2>10
<1> QED BY <1>4, <1>5, <1>3

----------------------------------------------------------------------------
(* The row read for an instrument.                                           *)

FoundIn(style, f) ==
    /\ Known(style, f)
    /\ style.short => 1 \in {j \in DOMAIN style.order : style.order[j] = f}
Seen(x, f, style) == IF FoundIn(style, f) THEN CellOf(x, f, style) ELSE NoCell
Looked(tr, cols, f) == IF cols[f] \in DOMAIN tr.cells THEN tr.cells[cols[f]] ELSE NoCell

LEMMA CellSeen ==
    ASSUME NEW x \in Instruments, NEW style \in Styles, NEW f \in Fields
    PROVE  Looked(RowOf(x, style), Layout(style), f) = Seen(x, f, style)
<1>1. PICK o, n, short, cols, tr :
        /\ o = style.order /\ n = Len(o) /\ n \in Nat /\ short = style.short
        /\ cols = Layout(style) /\ tr = RowOf(x, style)
  BY OrderType, LenProperties, Zenon
<1>2. DOMAIN o = 1..n /\ short \in BOOLEAN /\ o \in Seq(Fields \cup {"other"})
  BY <1>1, OrderType, LenProperties
<1>3. PICK j : j \in 1..n /\ o[j] = f
  BY <1>1, OrderType, Zenon
<1>4. \A i \in 1..n : o[i] = f => i = j
  BY <1>1, <1>3, OrderType, Zenon
<1>5. cols[f] = IF Known(style, f) THEN j ELSE 0
  BY <1>1, <1>3, LayoutIs
<1> DEFINE V == {CellOf(x, g, style) : g \in Fields \cup {"other"}} \cup {NoCell}
           all == [i \in DOMAIN o |-> CellOf(x, o[i], style)]
<1>6. PICK s \in Seq(V), e \in V :
        s = all /\ Len(s) = n /\ e = NoCell /\ \A i \in 1..n : s[i] = CellOf(x, o[i], style)
  <2>1. NoCell \in V
    OBVIOUS
  <2>2. \A i \in 1..n : CellOf(x, o[i], style) \in V
    BY <1>1, <1>2
  <2>3. all = [i \in 1..n |-> CellOf(x, o[i], style)]
    BY <1>2
  <2> HIDE DEF V
  <2>4. all \in Seq(V) /\ Len(all) = n /\ \A i \in 1..n : all[i] = CellOf(x, o[i], style)
    BY <1>1, <2>2, <2>3
  <2> QED BY <2>1, <2>4, Zenon
<1>7. tr.cells = IF short THEN <<s[1]>> ELSE Append(s, e)
  <2>1. \A a, b, c, d, g : [slug |-> a, title |-> b, dataPrice |-> c, cells |-> d, href |-> g].cells = d
    OBVIOUS
  <2>2. tr.cells = IF style.short THEN <<all[1]>> ELSE Append(all, NoCell)
    BY <1>1, <2>1, Zenon DEF RowOf
  <2> QED BY <1>1, <1>6, <2>2, Zenon
<1> HIDE DEF V, all
<1>8. s[j] = CellOf(x, f, style)
  BY <1>3, <1>6, Zenon
<1>9. FoundIn(style, f) <=> Known(style, f) /\ (short => j = 1)
  <2>1. 1 \in {i \in DOMAIN o : o[i] = f} <=> j = 1
    BY <1>2, <1>3, <1>4
  <2> QED BY <1>1, <2>1, Zenon DEF FoundIn
<1>10. Looked(tr, cols, f) = IF cols[f] \in DOMAIN tr.cells THEN tr.cells[cols[f]] ELSE e
  BY <1>6, Zenon DEF Looked
<1>11. CASE short
  <2>1. DOMAIN tr.cells = 1..1 /\ tr.cells[1] = s[1]
    BY <1>7, <1>11
  <2>2. cols[f] \in 1..1 <=> Known(style, f) /\ j = 1
    BY <1>1, <1>3, <1>5
  <2>3. cols[f] \in 1..1 => cols[f] = 1
    BY <1>1, <1>3, <1>5
  <2> QED BY <1>1, <1>6, <1>8, <1>9, <1>10, <1>11, <2>1, <2>2, <2>3, Zenon DEF Seen
<1>12. CASE ~short
  <2>1. PICK w \in Seq(V) : w = Append(s, e) /\ Len(w) = n + 1 /\ \A i \in 1..n : w[i] = s[i]
    <3>1. /\ Append(s, e) \in Seq(V) /\ Len(Append(s, e)) = n + 1
          /\ \A i \in 1..n : Append(s, e)[i] = s[i]
      BY <1>6, AppendProperties
    <3> QED BY <3>1, Zenon
  <2>2. DOMAIN tr.cells = 1..(n + 1) /\ \A i \in 1..n : tr.cells[i] = s[i]
    <3>1. tr.cells = w
      BY <1>7, <1>12, <2>1, Zenon
    <3>2. DOMAIN w = 1..(n + 1)
      BY <2>1
    <3> QED BY <2>1, <3>1, <3>2, Zenon
  <2>3. cols[f] \in 1..(n + 1) <=> Known(style, f)
    BY <1>1, <1>3, <1>5
  <2> QED BY <1>1, <1>3, <1>5, <1>6, <1>8, <1>9, <1>10, <1>12, <2>2, <2>3, Zenon DEF Seen
<1> QED BY <1>2, <1>11, <1>12

Wording(x, f, style) == Clean(Text(Seen(x, f, style)))
LEMMA RowFields ==
    ASSUME NEW x \in Instruments, NEW style \in Styles,
           NEW row, row = ReadRow(RowOf(x, style), Layout(style))
    PROVE  /\ row.price = IF Wording(x, "price", style) = <<>> THEN Clean(Rendered(x.price, style))
                          ELSE Wording(x, "price", style)
           /\ row.low = Wording(x, "low", style) /\ row.high = Wording(x, "high", style)
           /\ row.time = Wording(x, "time", style) /\ row.change = Wording(x, "change", style)
           /\ row.status = StatusOf(Seen(x, "change", style))
<1>1. PICK tr, cols : tr = RowOf(x, style) /\ cols = Layout(style)
  OBVIOUS
<1>2. tr.dataPrice = Rendered(x.price, style)
  BY <1>1 DEF RowOf
<1>3. /\ "price" \in Fields /\ "low" \in Fields /\ "high" \in Fields
      /\ "time" \in Fields /\ "change" \in Fields
  BY DEF Fields
<1>4. \A f \in Fields : Looked(tr, cols, f) = Seen(x, f, style)
  BY <1>1, CellSeen
<1>5. \A f \in Fields : Clean(Text(Looked(tr, cols, f))) = Wording(x, f, style)
  BY <1>4, Zenon DEF Wording
<1>6. /\ row.price = IF Clean(Text(Looked(tr, cols, "price"))) = <<>> THEN Clean(tr.dataPrice)
                     ELSE Clean(Text(Looked(tr, cols, "price")))
      /\ row.low = Clean(Text(Looked(tr, cols, "low")))
      /\ row.high = Clean(Text(Looked(tr, cols, "high")))
      /\ row.time = Clean(Text(Looked(tr, cols, "time")))
      /\ row.change = Clean(Text(Looked(tr, cols, "change")))
      /\ row.status = StatusOf(Looked(tr, cols, "change"))
  BY <1>1 DEF ReadRow, Looked
<1> QED BY <1>2, <1>3, <1>4, <1>5, <1>6, Zenon

LEMMA WordingIs ==
    ASSUME NEW x \in Instruments, NEW style \in Styles, NEW f \in Fields
    PROVE  /\ Wording(x, f, style) \in Seq(Runes)
           /\ ~FoundIn(style, f) => Wording(x, f, style) = <<>>
           /\ FoundIn(style, f) => Ink(Wording(x, f, style)) = Ink(TextOf(x, f, style))
           /\ FoundIn(style, f) /\ (style.split = 0 \/ f = "time") =>
                Wording(x, f, style) = Clean(TextOf(x, f, style))
<1>1. CASE ~FoundIn(style, f)
  <2>1. Wording(x, f, style) = <<>>
    BY <1>1, TextNone, Zenon DEF Wording, Seen
  <2>2. <<>> \in Seq(Runes)
    BY EmptySeq
  <2> QED BY <1>1, <2>1, <2>2
<1>2. CASE FoundIn(style, f)
  <2>1. PICK t \in Seq(Runes) :
          /\ t = Text(CellOf(x, f, style)) /\ Ink(t) = Ink(TextOf(x, f, style))
          /\ style.split = 0 \/ f = "time" => Clean(t) = Clean(TextOf(x, f, style))
    BY CellInk
  <2>2. Wording(x, f, style) = Clean(t)
    BY <1>2, <2>1, Zenon DEF Wording, Seen
  <2>3. Clean(t) \in Seq(Runes) /\ Ink(Clean(t)) = Ink(t)
    BY CleanType, InkOfClean
  <2> QED BY <1>2, <2>1, <2>2, <2>3, Zenon
<1> QED BY <1>1, <1>2

LEMMA MissingIs == Missing \in Numbers
BY DEF Missing, Numbers

\* The number, and the text it was read from.
Exactly(amount, n) ==
    IF n = Missing THEN amount = NoAmount
    ELSE /\ amount # NoAmount /\ amount.value = NumberOf(n)
         /\ Value(amount.text) = NumberOf(n)
LEMMA ExactlyShows ==
    \A amount, n : n \in Numbers /\ Exactly(amount, n) => Shows(amount, n)
<1> TAKE amount, n
<1> SUFFICES ASSUME n \in Numbers, Exactly(amount, n) PROVE Shows(amount, n)
  OBVIOUS
<1>1. CASE n = Missing
  BY <1>1 DEF Exactly, Shows
<1>2. CASE n # Missing
  <2>1. amount.value = NumberOf(n)
    BY <1>2, Zenon DEF Exactly
  <2>2. PICK d : d = n.whole \o n.part /\ d # <<>>
    <3>1. PICK ink : ink = NumberInk(n)
      OBVIOUS
    <3>2. n.whole \o n.part # <<>>
      BY <1>2, <3>1, InkOfNumber
    <3> QED BY <3>2, Zenon
  <2>3. NumberOf(n).digits = d
    BY <2>2 DEF NumberOf, Number
  <2>4. Readable(amount.value)
    BY <2>1, <2>2, <2>3, Zenon DEF Readable
  <2>5. SameNumber(amount.value, NumberOf(n))
    BY <2>1, Zenon DEF SameNumber
  <2> QED BY <1>2, <2>4, <2>5, Zenon DEF Shows
<1> QED BY <1>1, <1>2

\* A text with the ink of a number gives it; one without ink gives nothing.
LEMMA AmountShows ==
    ASSUME NEW s \in Seq(Runes), NEW n \in Numbers, Ink(s) = NumberInk(n)
    PROVE  Exactly(AmountOf(s), n)
<1>1. PICK t \in Seq(Runes) : t = TrimSpace(s) /\ Ink(t) = NumberInk(n)
  BY InkOfTrimmed
<1>2. PICK v : v = Value(t) /\ v = NumberOf(n) /\ (Readable(v) <=> n # Missing)
  BY <1>1, ValueOf
<1>3. AmountOf(s) = IF Readable(v) THEN [text |-> t, value |-> v] ELSE NoAmount
  BY <1>1, <1>2, Zenon DEF AmountOf
<1>4. CASE n = Missing
  BY <1>2, <1>3, <1>4, Zenon DEF Exactly
<1>5. CASE n # Missing
  <2>1. PICK a : a = AmountOf(s) /\ a = [text |-> t, value |-> v]
    BY <1>2, <1>3, <1>5, Zenon
  <2>2. a.value = v /\ a.text = t
    BY <2>1
  <2>3. a # NoAmount
    <3>1. NoAmount.value.digits = <<>>
      BY DEF NoAmount, Unreadable, Number
    <3>2. v.digits # <<>>
      BY <1>2, <1>5, Zenon DEF Readable
    <3> QED BY <2>2, <3>1, <3>2, Zenon
  <2> QED BY <1>2, <1>5, <2>1, <2>2, <2>3, Zenon DEF Exactly
<1> QED BY <1>4, <1>5

LEMMA AmountNone ==
    /\ AmountOf(<<>>) = NoAmount /\ Value(<<>>) = Unreadable
    /\ Exactly(AmountOf(<<>>), Missing)
<1>1. PICK s \in Seq(Runes) : s = <<>>
  BY EmptySeq
<1>2. Digits(s) = <<>>
  BY <1>1, DigitsAre, OnlyEmpty, ImageEmpty, Zenon
<1>3. Value(s) = Unreadable
  <2>1. PICK d : d = Digits(s)
    OBVIOUS
  <2>2. Only(d, AsciiDigits) = <<>>
    BY <1>2, <2>1, OnlyEmpty, Zenon
  <2> QED BY <2>1, <2>2, ValueIs
<1>4. PICK t \in Seq(Runes) : t = TrimSpace(s) /\ Ink(t) = Ink(s)
  BY InkOfTrimmed
<1>5. Value(t).digits = <<>>
  <2>1. Value(t).digits = DigitsIn(t) /\ Value(s).digits = DigitsIn(s)
    BY ValueDigits
  <2>2. Value(s).digits = <<>>
    BY <1>3 DEF Unreadable, Number
  <2> QED BY <1>4, <2>1, <2>2, Zenon DEF DigitsIn
<1>6. AmountOf(s) = NoAmount
  BY <1>4, <1>5, Zenon DEF AmountOf, Readable
<1> QED BY <1>1, <1>3, <1>6, Zenon DEF Exactly

\* The first element of a kind, behind others or among none.
FirstOf(c, D) == SelectInSeq(c, LAMBDA r : r \in D)
Apart(S, D) == \A r \in S : r \notin D
LEMMA FirstBehind ==
    ASSUME NEW S, NEW D, Apart(S, D), NEW a \in Seq(S), NEW e \in D
    PROVE  /\ FirstOf(a, D) = 0
           /\ FirstOf(a \o <<e>>, D) # 0
           /\ (a \o <<e>>)[FirstOf(a \o <<e>>, D)] = e
<1>1. PICK n : n \in Nat /\ n = Len(a)
  BY LenProperties, Zenon
<1>2. \A i \in 1..n : a[i] \in S /\ a[i] \notin D
  BY <1>1, ElementOfSeq DEF Apart
<1>3. FirstOf(a, D) = 0
  <2>1. {i \in 1..Len(a) : a[i] \in D} = {}
    BY <1>1, <1>2
  <2> QED BY <2>1, Zenon DEF FirstOf, SelectInSeq
<1> DEFINE U == S \cup D
<1>4. a \in Seq(U) /\ e \in U
  OBVIOUS
<1> HIDE DEF U
<1>5. PICK d \in Seq(U) : d = <<e>> /\ Len(d) = 1 /\ d[1] = e
  <2>1. <<e>> \in Seq(U) /\ Len(<<e>>) = 1 /\ <<e>>[1] = e
    BY <1>4
  <2> QED BY <2>1, Zenon
<1>6. PICK c : Joined(c, a, d) /\ c = a \o <<e>>
  BY <1>5, Zenon DEF Joined
<1>7. Parts(c, a, d)
  BY <1>4, <1>6, JoinedParts
<1>8. Len(c) = n + 1 /\ (\A i \in 1..n : c[i] = a[i]) /\ c[n + 1] = e
  <2>1. 1 \in 1..1
    OBVIOUS
  <2> QED BY <1>1, <1>5, <1>7, <2>1, Zenon DEF Parts
<1> DEFINE I == {i \in 1..(n + 1) : c[i] \in D}
<1>9. I = {n + 1}
  <2>1. \A i \in 1..(n + 1) : i \in 1..n \/ i = n + 1
    BY <1>1
  <2>2. n + 1 \in 1..(n + 1)
    BY <1>1
  <2> QED BY <1>2, <1>8, <2>1, <2>2
<1>10. FirstOf(c, D) = IF I # {} THEN Min(I) ELSE 0
  BY <1>8, Zenon DEF FirstOf, SelectInSeq
<1> HIDE DEF I
<1>11. PICK T : T = I /\ T \subseteq Nat /\ T # {}
  <2>1. n + 1 \in Nat
    BY <1>1
  <2>2. I \subseteq Nat /\ I # {}
    BY <1>9, <2>1
  <2> QED BY <2>2, Zenon
<1>12. Min(T) \in T
  BY <1>11, MinOf
<1>13. Min(T) = n + 1 /\ n + 1 # 0
  BY <1>1, <1>9, <1>11, <1>12
<1> QED BY <1>3, <1>6, <1>8, <1>10, <1>11, <1>13, Zenon

Directions == {"low", "high"}
OtherClasses == STRING \ {"low", "high"}
LEMMA StatusRead ==
    ASSUME NEW x \in Instruments, NEW style \in Styles
    PROVE  StatusOf(CellOf(x, "change", style)) = x.status
<1>1. x.status = "" \/ x.status \in Directions
  BY DEF Instruments, Directions
<1>2. style.class \in Seq(OtherClasses)
  BY DEF Styles, OtherClasses
<1>3. Apart(OtherClasses, Directions)
  BY Zenon DEF OtherClasses, Directions, Apart
<1>4. PICK cell : cell = CellOf(x, "change", style)
  OBVIOUS
<1>5. cell.classes = style.class \o (IF x.status = "" THEN <<>> ELSE <<x.status>>)
  <2>1. \A a, b : [nodes |-> a, classes |-> b].classes = b
    OBVIOUS
  <2> QED BY <1>4, <2>1, Zenon DEF CellOf
<1>6. PICK k : k = FirstOf(cell.classes, Directions)
  OBVIOUS
<1>7. StatusOf(cell) = IF k = 0 THEN "" ELSE cell.classes[k]
  BY <1>6, Zenon DEF StatusOf, FirstOf, Directions
<1>8. CASE x.status = ""
  <2>1. cell.classes = style.class \o <<>>
    BY <1>5, <1>8, Zenon
  <2>2. style.class \o <<>> = style.class
    BY <1>2, ConcatEmptySeq
  <2>3. FirstOf(style.class, Directions) = 0
    <3>1. \E e : e \in Directions
      BY DEF Directions
    <3> QED BY <1>2, <1>3, <3>1, FirstBehind
  <2> QED BY <1>4, <1>6, <1>7, <1>8, <2>1, <2>2, <2>3, Zenon
<1>9. CASE x.status \in Directions
  <2>1. x.status # ""
    BY <1>9 DEF Directions
  <2>2. cell.classes = style.class \o <<x.status>>
    BY <1>5, <2>1, Zenon
  <2>3. k # 0 /\ cell.classes[k] = x.status
    <3>1. ASSUME NEW a \in Seq(OtherClasses), NEW e \in Directions
          PROVE  /\ FirstOf(a \o <<e>>, Directions) # 0
                 /\ (a \o <<e>>)[FirstOf(a \o <<e>>, Directions)] = e
      BY <1>3, FirstBehind
    <3> QED BY <1>2, <1>6, <1>9, <2>2, <3>1, Zenon
  <2> QED BY <1>4, <1>7, <2>3, Zenon
<1> QED BY <1>1, <1>8, <1>9

LEMMA AmountsRead ==
    ASSUME NEW x \in Instruments, NEW style \in Styles,
           NEW row, row = ReadRow(RowOf(x, style), Layout(style))
    PROVE  /\ Exactly(AmountOf(row.price), x.price)
           /\ Exactly(AmountOf(row.low), IF FoundIn(style, "low") THEN x.low ELSE Missing)
           /\ Exactly(AmountOf(row.high), IF FoundIn(style, "high") THEN x.high ELSE Missing)
           /\ row.time = IF FoundIn(style, "time") THEN Clean(x.time) ELSE <<>>
<1>1. /\ "price" \in Fields /\ "low" \in Fields /\ "high" \in Fields /\ "time" \in Fields
  BY DEF Fields
<1>2. x.price \in Numbers /\ x.low \in Numbers /\ x.high \in Numbers
  BY DEF Instruments
<1>3. /\ TextOf(x, "price", style) = Rendered(x.price, style)
      /\ TextOf(x, "low", style) = Rendered(x.low, style)
      /\ TextOf(x, "high", style) = Rendered(x.high, style)
      /\ TextOf(x, "time", style) = x.time
  BY DEF TextOf
<1>4. /\ row.price = IF Wording(x, "price", style) = <<>> THEN Clean(Rendered(x.price, style))
                     ELSE Wording(x, "price", style)
      /\ row.low = Wording(x, "low", style) /\ row.high = Wording(x, "high", style)
      /\ row.time = Wording(x, "time", style)
  BY RowFields
<1>5. \A n \in Numbers : Rendered(n, style) \in Seq(Runes) /\ Ink(Rendered(n, style)) = NumberInk(n)
  BY RenderedInk
<1>6. Exactly(AmountOf(row.price), x.price)
  <2>1. PICK t \in Seq(Runes), b \in Seq(Runes) :
          t = Wording(x, "price", style) /\ b = Rendered(x.price, style)
          /\ (~FoundIn(style, "price") => t = <<>>)
          /\ (FoundIn(style, "price") => Ink(t) = Ink(b)) /\ Ink(b) = NumberInk(x.price)
    BY <1>1, <1>2, <1>3, <1>5, WordingIs
  <2>2. Clean(b) \in Seq(Runes) /\ Ink(Clean(b)) = Ink(b)
    BY CleanType, InkOfClean
  <2>3. PICK s \in Seq(Runes) : s = row.price /\ Ink(s) = NumberInk(x.price)
    <3>1. CASE t = <<>>
      <4>1. row.price = Clean(b)
        BY <1>4, <2>1, <3>1, Zenon
      <4> QED BY <2>1, <2>2, <4>1
    <3>2. CASE t # <<>>
      <4>1. row.price = t
        BY <1>4, <2>1, <3>2, Zenon
      <4> QED BY <2>1, <3>2, <4>1
    <3> QED BY <3>1, <3>2
  <2> QED BY <1>2, <2>3, AmountShows
<1>7. ASSUME NEW f \in Fields, NEW n \in Numbers, TextOf(x, f, style) = Rendered(n, style)
      PROVE  Exactly(AmountOf(Wording(x, f, style)), IF FoundIn(style, f) THEN n ELSE Missing)
  <2>1. PICK t \in Seq(Runes) : t = Wording(x, f, style)
          /\ (~FoundIn(style, f) => t = <<>>)
          /\ (FoundIn(style, f) => Ink(t) = NumberInk(n))
    BY <1>5, <1>7, WordingIs
  <2>2. CASE FoundIn(style, f)
    <3>1. Exactly(AmountOf(t), n)
      BY <2>1, <2>2, AmountShows
    <3> QED BY <2>1, <2>2, <3>1, Zenon
  <2>3. CASE ~FoundIn(style, f)
    BY <2>1, <2>3, AmountNone, Zenon
  <2> QED BY <2>2, <2>3
<1>8. Exactly(AmountOf(row.low), IF FoundIn(style, "low") THEN x.low ELSE Missing)
  BY <1>1, <1>2, <1>3, <1>4, <1>7, Zenon
<1>9. Exactly(AmountOf(row.high), IF FoundIn(style, "high") THEN x.high ELSE Missing)
  BY <1>1, <1>2, <1>3, <1>4, <1>7, Zenon
<1>10. row.time = IF FoundIn(style, "time") THEN Clean(x.time) ELSE <<>>
  <2>1. /\ ~FoundIn(style, "time") => Wording(x, "time", style) = <<>>
        /\ FoundIn(style, "time") => Wording(x, "time", style) = Clean(TextOf(x, "time", style))
    BY <1>1, WordingIs
  <2> QED BY <1>3, <1>4, <2>1, Zenon
<1> QED BY <1>6, <1>8, <1>9, <1>10

----------------------------------------------------------------------------
(* The cell of a change, at its parentheses.                                 *)

\* Runes that Digits leaves as they are.
Still(s) == \A i \in 1..Len(s) : AsciiOf[s[i]] = s[i]
LEMMA StillIs ==
    /\ \A s \in Seq(Runes) : Still(s) => Image(AsciiOf, s) = s
    /\ \A t \in Seq(Runes) : Ink(t) \in Seq(Runes) /\ Still(Ink(t))
<1>1. ASSUME NEW s \in Seq(Runes), Still(s) PROVE Image(AsciiOf, s) = s
  <2>1. s = [i \in 1..Len(s) |-> s[i]]
    BY LenProperties
  <2> QED BY <1>1, <2>1, Zenon DEF Still, Image
<1>2. ASSUME NEW t \in Seq(Runes) PROVE Ink(t) \in Seq(Runes) /\ Still(Ink(t))
  <2>1. PICK c \in Seq(Runes), k \in Seq(Runes) : c = Clean(t) /\ k = Ink(t)
    BY CleanType, InkOfDigits
  <2>2. Ink(c) = k /\ Only(c, Marked) = k
    BY <2>1, InkOfClean
  <2>3. Image(AsciiOf, k) = k
    BY <2>2, Zenon DEF Ink
  <2>4. \A i \in 1..Len(k) : Image(AsciiOf, k)[i] = AsciiOf[k[i]]
    BY Zenon DEF Image
  <2> QED BY <2>1, <2>3, <2>4, Zenon DEF Still
<1> QED BY <1>1, <1>2

LEMMA StillParts ==
    ASSUME NEW c \in Seq(Runes), NEW u \in Seq(Runes), NEW m \in Runes, NEW v \in Seq(Runes),
           Cut(c, u, m, v), Still(c)
    PROVE  Still(u) /\ Still(v)
<1>1. PICK n, k : n = Len(u) /\ k = Len(v) /\ n \in Nat /\ k \in Nat
  BY LenProperties, Zenon
<1>2. \A i \in 1..(n + 1 + k) : AsciiOf[c[i]] = c[i]
  BY <1>1, Zenon DEF Still, Cut
<1>3. /\ \A i \in 1..n : i \in 1..(n + 1 + k)
      /\ \A i \in 1..k : n + 1 + i \in 1..(n + 1 + k)
  BY <1>1
<1>4. (\A i \in 1..n : c[i] = u[i]) /\ \A i \in 1..k : c[n + 1 + i] = v[i]
  BY <1>1, Zenon DEF Cut
<1>5. Still(u)
  <2>1. \A i \in 1..n : AsciiOf[u[i]] = u[i]
    BY <1>2, <1>3, <1>4, Zenon
  <2> QED BY <1>1, <2>1, Zenon DEF Still
<1>6. Still(v)
  <2>1. \A i \in 1..k : AsciiOf[v[i]] = v[i]
    BY <1>2, <1>3, <1>4, Zenon
  <2> QED BY <1>1, <2>1, Zenon DEF Still
<1> QED BY <1>5, <1>6

\* What Change finds: the first opening parenthesis, and the first closing one
\* behind it.
OpenOf(s) == SelectInSeq(s, LAMBDA r : r = Open)
ShutOf(s) == SelectInSubSeq(s, OpenOf(s) + 1, Len(s), LAMBDA r : r = Shut)
LEMMA ChangeUnfolds ==
    ASSUME NEW t, NEW s, s = Clean(t)
    PROVE  /\ OpenOf(s) = 0 \/ ShutOf(s) = 0 => Change(t) = [percent |-> Unreadable, amount |-> s]
           /\ OpenOf(s) # 0 /\ ShutOf(s) # 0 =>
                Change(t) = [percent |-> Value(SubSeq(s, OpenOf(s) + 1, ShutOf(s) - 1)),
                             amount |-> TrimSpace(SubSeq(s, ShutOf(s) + 1, Len(s)))]
BY Zenon DEF Change, OpenOf, ShutOf

LEMMA OpenIs ==
    ASSUME NEW s \in Seq(Runes)
    PROVE  /\ Free(s, Open) => OpenOf(s) = 0
           /\ \A k \in 1..Len(s) : s[k] = Open /\ (\A i \in 1..(k - 1) : s[i] # Open) => OpenOf(s) = k
<1>1. PICK n : n \in Nat /\ n = Len(s)
  BY LenProperties, Zenon
<1> DEFINE I == {i \in 1..Len(s) : s[i] = Open}
<1>2. OpenOf(s) = IF I # {} THEN Min(I) ELSE 0
  BY Zenon DEF OpenOf, SelectInSeq
<1>3. Free(s, Open) => I = {}
  BY DEF Free
<1>4. ASSUME NEW k \in 1..n, s[k] = Open, \A i \in 1..(k - 1) : s[i] # Open
      PROVE  OpenOf(s) = k
  <2>1. k \in I /\ I \subseteq 1..n /\ \A i \in I : s[i] = Open
    BY <1>1, <1>4
  <2>2. I \subseteq Nat /\ I # {}
    BY <2>1
  <2> HIDE DEF I
  <2>3. Min(I) \in I /\ \A i \in I : Min(I) <= i
    BY <2>2, MinOf
  <2>4. PICK m : m = Min(I) /\ m \in 1..n /\ m <= k /\ s[m] = Open
    BY <2>1, <2>3
  <2>5. m < k => m \in 1..(k - 1)
    BY <1>1, <2>4
  <2>6. m = k
    BY <1>1, <1>4, <2>4, <2>5
  <2> QED BY <1>2, <2>2, <2>4, <2>6
<1> HIDE DEF I
<1> QED BY <1>1, <1>2, <1>3, <1>4

LEMMA ShutIs ==
    ASSUME NEW s \in Seq(Runes), NEW k \in 1..Len(s), OpenOf(s) = k
    PROVE  /\ (\A i \in (k + 1)..Len(s) : s[i] # Shut) => ShutOf(s) = 0
           /\ \A j \in (k + 1)..Len(s) :
                s[j] = Shut /\ (\A i \in (k + 1)..(j - 1) : s[i] # Shut) => ShutOf(s) = j
<1>0. PICK n : n \in Nat /\ n = Len(s)
  BY LenProperties, Zenon
<1>1. n \in Nat /\ n = Len(s) /\ k \in Nat
  BY <1>0
<1> DEFINE I == {i \in (k + 1)..Len(s) : s[i] = Shut}
<1>2. ShutOf(s) = IF I # {} THEN Min(I) ELSE 0
  BY Zenon DEF ShutOf, SelectInSubSeq
<1>3. (\A i \in (k + 1)..Len(s) : s[i] # Shut) => I = {}
  OBVIOUS
<1>4. ASSUME NEW j \in (k + 1)..n, s[j] = Shut, \A i \in (k + 1)..(j - 1) : s[i] # Shut
      PROVE  ShutOf(s) = j
  <2>1. j \in I /\ I \subseteq (k + 1)..n /\ \A i \in I : s[i] = Shut
    BY <1>1, <1>4
  <2>2. I \subseteq Nat /\ I # {}
    BY <1>1, <2>1
  <2> HIDE DEF I
  <2>3. Min(I) \in I /\ \A i \in I : Min(I) <= i
    BY <2>2, MinOf
  <2>4. PICK m : m = Min(I) /\ m \in (k + 1)..n /\ m <= j /\ s[m] = Shut
    BY <2>1, <2>3
  <2>5. m < j => m \in (k + 1)..(j - 1)
    BY <1>1, <2>4
  <2>6. m = j
    BY <1>1, <1>4, <2>4, <2>5
  <2> QED BY <1>2, <2>2, <2>4, <2>6
<1> HIDE DEF I
<1> QED BY <1>1, <1>2, <1>3, <1>4

LEMMA SubSub ==
    ASSUME NEW S, NEW s \in Seq(S), NEW n \in Nat, n = Len(s), NEW k \in Nat, k <= n,
           NEW b, b = SubSeq(s, k + 1, n), NEW p \in Nat, NEW q \in Nat,
           1 <= p, p <= q + 1, q <= n - k
    PROVE  SubSeq(b, p, q) = SubSeq(s, k + p, k + q)
<1>1. b \in Seq(S) /\ Len(b) = (n + 1) - (k + 1)
      /\ \A i \in 1..((n + 1) - (k + 1)) : b[i] = s[((k + 1) - 1) + i]
  <2>1. k + 1 \in Nat /\ 1 <= k + 1 /\ k + 1 <= n + 1
    OBVIOUS
  <2> QED BY <2>1, SubSeqOf
<1>2. (n + 1) - (k + 1) = n - k
      /\ \A i \in 1..(n - k) : ((k + 1) - 1) + i = k + i
  OBVIOUS
<1>3. PICK u \in Seq(S) : u = SubSeq(b, p, q) /\ Len(u) = (q + 1) - p
                          /\ \A i \in 1..((q + 1) - p) : u[i] = b[(p - 1) + i]
  <2>1. q <= Len(b)
    BY <1>1, <1>2
  <2>2. /\ SubSeq(b, p, q) \in Seq(S) /\ Len(SubSeq(b, p, q)) = (q + 1) - p
        /\ \A i \in 1..((q + 1) - p) : SubSeq(b, p, q)[i] = b[(p - 1) + i]
    BY <1>1, <2>1, SubSeqOf
  <2> QED BY <2>2, Zenon
<1>4. PICK w \in Seq(S) : w = SubSeq(s, k + p, k + q) /\ Len(w) = ((k + q) + 1) - (k + p)
                          /\ \A i \in 1..(((k + q) + 1) - (k + p)) : w[i] = s[((k + p) - 1) + i]
  <2>1. k + p \in Nat /\ k + q \in Nat /\ 1 <= k + p /\ k + p <= (k + q) + 1 /\ k + q <= Len(s)
    OBVIOUS
  <2>2. /\ SubSeq(s, k + p, k + q) \in Seq(S)
        /\ Len(SubSeq(s, k + p, k + q)) = ((k + q) + 1) - (k + p)
        /\ \A i \in 1..(((k + q) + 1) - (k + p)) :
             SubSeq(s, k + p, k + q)[i] = s[((k + p) - 1) + i]
    BY <2>1, SubSeqOf
  <2> QED BY <2>2, Zenon
<1>5. ((k + q) + 1) - (k + p) = (q + 1) - p
      /\ \A i \in 1..((q + 1) - p) :
           (p - 1) + i \in 1..(n - k) /\ k + ((p - 1) + i) = ((k + p) - 1) + i
  OBVIOUS
<1>6. \A i \in 1..((q + 1) - p) : u[i] = w[i]
  <2> TAKE i \in 1..((q + 1) - p)
  <2>1. PICK j : j = (p - 1) + i /\ j \in 1..(n - k) /\ k + j = ((k + p) - 1) + i
    BY <1>5
  <2>2. u[i] = b[j]
    BY <1>3, <2>1, Zenon
  <2>3. w[i] = s[k + j]
    BY <1>4, <1>5, <2>1, Zenon
  <2>4. b[j] = s[k + j]
    BY <1>1, <1>2, <2>1, Zenon
  <2> QED BY <2>2, <2>3, <2>4
<1>7. u = w
  BY <1>3, <1>4, <1>5, <1>6, SeqEqual
<1> QED BY <1>3, <1>4, <1>7

\* The two parts of a cell whose ink has both parentheses.
LEMMA ChangeIs ==
    ASSUME NEW t \in Seq(Runes), NEW u \in Seq(Runes), NEW r \in Seq(Runes),
           NEW p \in Seq(Runes), NEW a \in Seq(Runes),
           Cut(Ink(t), u, Open, r), Free(u, Open), Cut(r, p, Shut, a), Free(p, Shut)
    PROVE  \E x, y \in Seq(Runes) :
             /\ Change(t) = [percent |-> Value(x), amount |-> TrimSpace(y)]
             /\ Ink(x) = p /\ Ink(y) = a
<1>1. PICK s \in Seq(Runes) : s = Clean(t) /\ Only(s, Marked) = Ink(t)
  BY CleanType, InkOfClean
<1>2. PICK n : n \in Nat /\ n = Len(s)
  BY LenProperties, Zenon
<1>3. PICK k \in 1..Len(s) : CutAt(Runes, s, Marked, Open, k, u, r)
  BY <1>1, MarksAre, OnlyCut
<1>4. PICK b \in Seq(Runes) :
        /\ b = SubSeq(s, k + 1, n) /\ Only(b, Marked) = r
        /\ s[k] = Open /\ \A i \in 1..(k - 1) : s[i] # Open
  BY <1>2, <1>3, Zenon DEF CutAt
<1>5. PICK l \in 1..Len(b) : CutAt(Runes, b, Marked, Shut, l, p, a)
  BY <1>4, MarksAre, OnlyCut
<1>6. PICK x \in Seq(Runes), y \in Seq(Runes) :
        /\ x = SubSeq(b, 1, l - 1) /\ Only(x, Marked) = p
        /\ y = SubSeq(b, l + 1, Len(b)) /\ Only(y, Marked) = a
        /\ b[l] = Shut /\ \A i \in 1..(l - 1) : b[i] # Shut
  BY <1>5, Zenon DEF CutAt
<1>7. k \in Nat /\ k <= n /\ 1 <= k /\ k + 1 \in Nat /\ 1 <= k + 1 /\ k + 1 <= n + 1
  BY <1>2, <1>3
<1>8. Len(b) = (n + 1) - (k + 1)
      /\ \A i \in 1..((n + 1) - (k + 1)) : b[i] = s[((k + 1) - 1) + i]
  BY <1>2, <1>4, <1>7, SubSeqOf
<1>9. Len(b) = n - k /\ \A i \in 1..(n - k) : b[i] = s[k + i]
  <2>1. (n + 1) - (k + 1) = n - k
        /\ \A i \in 1..(n - k) : ((k + 1) - 1) + i = k + i
    BY <1>2, <1>7
  <2> QED BY <1>8, <2>1, Zenon
<1>10. OpenOf(s) = k
  BY <1>3, <1>4, OpenIs
<1>11. ShutOf(s) = k + l
  <2>0. l \in Nat /\ 1 <= l /\ l <= n - k
    <3>1. Len(b) \in Nat /\ Len(b) = n - k
      BY <1>9, LenProperties
    <3> QED BY <1>5, <3>1
  <2>1. k + l \in (k + 1)..n /\ l \in 1..(n - k)
    BY <1>2, <1>7, <2>0
  <2>2. s[k + l] = Shut
    BY <1>6, <1>9, <2>1, Zenon
  <2>3. ASSUME NEW i \in (k + 1)..((k + l) - 1) PROVE s[i] # Shut
    <3>1. i - k \in 1..(l - 1) /\ i - k \in 1..(n - k) /\ k + (i - k) = i
      BY <1>2, <1>7, <2>1
    <3> QED BY <1>6, <1>9, <3>1, Zenon
  <2> QED BY <1>2, <1>3, <1>10, <2>1, <2>2, <2>3, ShutIs
<1>12. Change(t) = [percent |-> Value(SubSeq(s, k + 1, (k + l) - 1)),
                    amount |-> TrimSpace(SubSeq(s, (k + l) + 1, n))]
  <2>1. k # 0 /\ k + l # 0
    BY <1>5, <1>7, <1>9, <1>2
  <2> QED BY <1>1, <1>2, <1>10, <1>11, <2>1, ChangeUnfolds, Zenon
<1>13. x = SubSeq(s, k + 1, (k + l) - 1)
  <2>1. l \in Nat /\ l - 1 \in Nat /\ 1 \in Nat /\ 1 <= 1 /\ 1 <= (l - 1) + 1 /\ l - 1 <= n - k
    BY <1>2, <1>5, <1>7, <1>9
  <2>2. SubSeq(b, 1, l - 1) = SubSeq(s, k + 1, k + (l - 1))
    BY <1>2, <1>4, <1>7, <2>1, SubSub
  <2>3. k + (l - 1) = (k + l) - 1
    BY <1>7, <2>1
  <2> QED BY <1>6, <2>2, <2>3
<1>14. y = SubSeq(s, (k + l) + 1, n)
  <2>1. l \in Nat /\ l + 1 \in Nat /\ n - k \in Nat /\ 1 <= l + 1 /\ l + 1 <= (n - k) + 1
        /\ n - k <= n - k
    BY <1>2, <1>5, <1>7, <1>9
  <2>2. SubSeq(b, l + 1, n - k) = SubSeq(s, k + (l + 1), k + (n - k))
    BY <1>2, <1>4, <1>7, <2>1, SubSub
  <2>3. k + (l + 1) = (k + l) + 1 /\ k + (n - k) = n
    BY <1>2, <1>7, <2>1
  <2> QED BY <1>6, <1>9, <2>2, <2>3
<1>15. Still(p) /\ Still(a)
  <2>1. PICK c \in Seq(Runes) : c = Ink(t) /\ Still(c)
    BY StillIs
  <2>2. Still(r)
    BY <2>1, MarksAre, StillParts
  <2> QED BY <2>2, MarksAre, StillParts
<1>16. Ink(x) = p /\ Ink(y) = a
  <2>1. Image(AsciiOf, p) = p /\ Image(AsciiOf, a) = a
    BY <1>15, StillIs
  <2> QED BY <1>6, <2>1, Zenon DEF Ink
<1> QED BY <1>12, <1>13, <1>14, <1>16, Zenon

LEMMA FreeOfOnly ==
    ASSUME NEW S, NEW s \in Seq(S), NEW P, NEW m \in P, Free(Only(s, P), m)
    PROVE  Free(s, m)
<1>1. PICK c \in Seq(S) : c = Only(s, P)
  BY OnlyType
<1>2. Only(c, {m}) = <<>>
  <2>1. \A i \in 1..Len(c) : c[i] \notin {m}
    BY <1>1 DEF Free
  <2> QED BY <2>1, OnlyNone
<1>3. Only(c, {m}) = Only(s, {m})
  <2>1. \A r \in S : r \in {m} => r \in P
    OBVIOUS
  <2> QED BY <1>1, <2>1, OnlyOnly
<1>4. \A i \in 1..Len(s) : s[i] \notin {m}
  BY <1>2, <1>3, OnlyExists
<1> QED BY <1>4 DEF Free

\* A cell without them, or with the closing one only in front: all of it is
\* amount.
LEMMA ChangeNot ==
    ASSUME NEW t \in Seq(Runes),
           \/ Free(Ink(t), Open)
           \/ \E u, r \in Seq(Runes) : Cut(Ink(t), u, Open, r) /\ Free(u, Open) /\ Free(r, Shut)
    PROVE  Change(t) = [percent |-> Unreadable, amount |-> Clean(t)]
<1>1. PICK s \in Seq(Runes) : s = Clean(t) /\ Only(s, Marked) = Ink(t)
  BY CleanType, InkOfClean
<1>2. CASE Free(Ink(t), Open)
  <2>1. Free(s, Open)
    BY <1>1, <1>2, MarksAre, FreeOfOnly
  <2>2. OpenOf(s) = 0
    BY <2>1, OpenIs
  <2> QED BY <1>1, <2>2, ChangeUnfolds, Zenon
<1>3. ASSUME NEW u \in Seq(Runes), NEW r \in Seq(Runes),
             Cut(Ink(t), u, Open, r), Free(u, Open), Free(r, Shut)
      PROVE  Change(t) = [percent |-> Unreadable, amount |-> s]
  <2>1. PICK n : n \in Nat /\ n = Len(s)
    BY LenProperties, Zenon
  <2>2. PICK k \in 1..Len(s) : CutAt(Runes, s, Marked, Open, k, u, r)
    BY <1>1, <1>3, MarksAre, OnlyCut
  <2>3. PICK b \in Seq(Runes) :
          /\ b = SubSeq(s, k + 1, n) /\ Only(b, Marked) = r
          /\ s[k] = Open /\ \A i \in 1..(k - 1) : s[i] # Open
    BY <2>1, <2>2, Zenon DEF CutAt
  <2>4. Free(b, Shut)
    BY <1>3, <2>3, MarksAre, FreeOfOnly
  <2>5. k \in Nat /\ k <= n /\ 1 <= k /\ k + 1 \in Nat /\ 1 <= k + 1 /\ k + 1 <= n + 1
    BY <2>1, <2>2
  <2>6. Len(b) = (n + 1) - (k + 1)
        /\ \A i \in 1..((n + 1) - (k + 1)) : b[i] = s[((k + 1) - 1) + i]
    BY <2>1, <2>3, <2>5, SubSeqOf
  <2>7. ASSUME NEW i \in (k + 1)..n PROVE s[i] # Shut
    <3>1. i - k \in 1..((n + 1) - (k + 1)) /\ ((k + 1) - 1) + (i - k) = i
      BY <2>1, <2>5
    <3>2. b[i - k] = s[i] /\ i - k \in 1..Len(b)
      BY <2>6, <3>1, Zenon
    <3> QED BY <2>4, <3>2, Zenon DEF Free
  <2>8. OpenOf(s) = k
    BY <2>2, <2>3, OpenIs
  <2>9. ShutOf(s) = 0
    BY <2>1, <2>2, <2>7, <2>8, ShutIs
  <2> QED BY <1>1, <2>9, ChangeUnfolds, Zenon
<1> QED BY <1>1, <1>2, <1>3, Zenon

LEMMA NumberInkType ==
    ASSUME NEW n \in Numbers
    PROVE  NumberInk(n) \in Seq(Runes) /\ Free(NumberInk(n), Shut)
<1>1. CASE n = Missing
  BY <1>1, InkOfMissing, Zenon
<1>2. CASE n # Missing
  BY <1>2, InkOfNumber
<1> QED BY <1>1, <1>2

\* The ink of a change as the site writes it.
LEMMA ChangeInk ==
    ASSUME NEW x \in Instruments, NEW style \in Styles, style.raw = <<>>,
           NEW p, p = NumberInk(x.percent), NEW a, a = NumberInk(x.amount)
    PROVE  \E u, r \in Seq(Runes) :
             /\ Cut(Ink(TextOf(x, "change", style)), u, Open, r) /\ Free(u, Open)
             /\ Cut(r, p, Shut, a) /\ Free(p, Shut)
<1>1. x.percent \in Numbers /\ x.amount \in Numbers
  BY DEF Instruments
<1>2. p \in Seq(Runes) /\ a \in Seq(Runes) /\ Free(p, Shut)
  BY <1>1, NumberInkType
<1>3. PICK tp \in Seq(Runes), ta \in Seq(Runes) :
        /\ tp = Rendered(x.percent, style) /\ Ink(tp) = p
        /\ ta = Rendered(x.amount, style) /\ Ink(ta) = a
  BY <1>1, RenderedInk
<1>4. PICK o \in Seq(Runes), m \in Seq(Runes), s \in Seq(Runes) :
        /\ o = <<Open>> /\ Ink(o) = o
        /\ m = <<Percent, Shut, Space>> /\ s = <<Shut>> /\ Ink(m) = s
  <2>1. <<Shut>> \in Seq(Runes)
    BY MarksAre, InkOne
  <2> QED BY <2>1, MarkTriple, Zenon
<1>5. TextOf(x, "change", style) = ((o \o tp) \o m) \o ta
  <2>1. "change" # "price" /\ "change" # "low" /\ "change" # "high" /\ "change" # "time"
        /\ "change" # "other"
    OBVIOUS
  <2> QED BY <1>3, <1>4, <2>1, Zenon DEF TextOf
<1>6. PICK q \in Seq(Runes), h \in Seq(Runes), c \in Seq(Runes) :
        Joined(q, o, p) /\ Joined(h, q, s) /\ Joined(c, h, a)
  BY <1>2, ConcatProperties DEF Joined
<1>7. Ink(((o \o tp) \o m) \o ta) = c
  <2>1. PICK y \in Seq(Runes) : y = o \o tp /\ Ink(y) = q
    <3>1. o \o tp \in Seq(Runes) /\ Ink(o \o tp) = Ink(o) \o Ink(tp)
      BY InkConcat, ConcatRules, Zenon
    <3> QED BY <1>3, <1>4, <1>6, <3>1, Zenon DEF Joined
  <2>2. PICK z \in Seq(Runes) : z = y \o m /\ Ink(z) = h
    <3>1. y \o m \in Seq(Runes) /\ Ink(y \o m) = Ink(y) \o Ink(m)
      BY InkConcat, ConcatRules, Zenon
    <3> QED BY <1>4, <1>6, <2>1, <3>1, Zenon DEF Joined
  <2>3. Ink(z \o ta) = Ink(z) \o Ink(ta)
    BY InkConcat, Zenon
  <2> QED BY <1>3, <1>6, <2>1, <2>2, <2>3, Zenon DEF Joined
<1>8. PICK w \in Seq(Runes), r \in Seq(Runes) : Joined(w, p, s) /\ Joined(r, w, a)
  BY <1>2, ConcatProperties DEF Joined
<1>9. Joined(h, o, w)
  <2>1. \A z : Joined(z, o, w) <=> Joined(z, q, s)
    BY <1>2, <1>6, <1>8, Regroup
  <2> QED BY <1>6, <2>1
<1>10. Joined(c, o, r)
  <2>1. \A z : Joined(z, o, r) <=> Joined(z, h, a)
    BY <1>2, <1>8, <1>9, Regroup
  <2> QED BY <1>6, <2>1
<1>11. Cut(r, p, Shut, a)
  <2>1. Cut((p \o <<Shut>>) \o a, p, Shut, a)
    BY <1>2, MarksAre, CutMade
  <2> QED BY <1>4, <1>8, <2>1, Zenon DEF Joined
<1>12. PICK u \in Seq(Runes) : u = <<>> /\ Free(u, Open)
  <2>1. <<>> \in Seq(Runes)
    BY EmptySeq
  <2>2. Free(<<>>, Open)
    BY DEF Free
  <2> QED BY <2>1, <2>2
<1>13. Cut(c, u, Open, r)
  <2>1. Cut((u \o <<Open>>) \o r, u, Open, r)
    BY MarksAre, CutMade
  <2>2. u \o o = o
    BY <1>12, ConcatEmptySeq
  <2> QED BY <1>4, <1>10, <2>1, <2>2, Zenon DEF Joined
<1> QED BY <1>2, <1>5, <1>7, <1>11, <1>12, <1>13, Zenon

LEMMA ChangeRead ==
    ASSUME NEW x \in Instruments, NEW style \in Styles,
           NEW row, row = ReadRow(RowOf(x, style), Layout(style))
    PROVE  /\ row.status = IF FoundIn(style, "change") THEN x.status ELSE ""
           /\ style.raw = <<>> =>
                /\ SameNumber(Change(row.change).percent,
                              IF FoundIn(style, "change") THEN NumberOf(x.percent) ELSE Unreadable)
                /\ Exactly(AmountOf(Change(row.change).amount),
                         IF FoundIn(style, "change") THEN x.amount ELSE Missing)
<1>0. PICK found \in BOOLEAN : found <=> FoundIn(style, "change")
  OBVIOUS
<1>1. "change" \in Fields
  BY DEF Fields
<1>2. x.percent \in Numbers /\ x.amount \in Numbers
  BY DEF Instruments
<1>3. PICK t \in Seq(Runes) :
        /\ t = row.change
        /\ ~found => t = <<>>
        /\ found => Ink(t) = Ink(TextOf(x, "change", style))
  BY <1>0, <1>1, RowFields, WordingIs
<1>4. row.status = IF FoundIn(style, "change") THEN x.status ELSE ""
  <2>1. row.status = StatusOf(Seen(x, "change", style))
    BY RowFields
  <2> QED BY <2>1, StatusRead, TextNone, Zenon DEF Seen
<1>5. \A v : SameNumber(v, v)
  BY Zenon DEF SameNumber
<1>6. \A v, w : [percent |-> v, amount |-> w].percent = v /\ [percent |-> v, amount |-> w].amount = w
  OBVIOUS
<1>7. CASE found
  <2> SUFFICES ASSUME style.raw = <<>>
               PROVE  /\ SameNumber(Change(t).percent, NumberOf(x.percent))
                      /\ Exactly(AmountOf(Change(t).amount), x.amount)
    BY <1>0, <1>3, <1>4, <1>7, Zenon
  <2>1. PICK p \in Seq(Runes), a \in Seq(Runes) : p = NumberInk(x.percent) /\ a = NumberInk(x.amount)
    BY <1>2, NumberInkType
  <2>2. PICK u, r \in Seq(Runes) :
          /\ Cut(Ink(TextOf(x, "change", style)), u, Open, r) /\ Free(u, Open)
          /\ Cut(r, p, Shut, a) /\ Free(p, Shut)
    BY <2>1, ChangeInk
  <2>3. Cut(Ink(t), u, Open, r)
    BY <1>3, <1>7, <2>2, Zenon
  <2>4. PICK y, z \in Seq(Runes) :
          /\ Change(t) = [percent |-> Value(y), amount |-> TrimSpace(z)]
          /\ Ink(y) = p /\ Ink(z) = a
    BY <2>2, <2>3, ChangeIs
  <2>5. Value(y) = NumberOf(x.percent)
    BY <1>2, <2>1, <2>4, ValueOf
  <2>6. PICK d \in Seq(Runes) : d = TrimSpace(z) /\ Ink(d) = NumberInk(x.amount)
    BY <2>1, <2>4, InkOfTrimmed
  <2>7. Exactly(AmountOf(d), x.amount)
    BY <1>2, <2>6, AmountShows
  <2> QED BY <1>5, <1>6, <2>4, <2>5, <2>6, <2>7, Zenon
<1>8. CASE ~found
  <2>1. t = <<>>
    BY <1>3, <1>8
  <2>2. Free(Ink(t), Open)
    BY <2>1, InkEmpty DEF Free
  <2>3. Change(t) = [percent |-> Unreadable, amount |-> Clean(t)]
    BY <2>2, ChangeNot
  <2>4. Clean(t) = <<>>
    BY <2>1, TextNone
  <2>5. Change(t).percent = Unreadable /\ Change(t).amount = <<>>
    BY <1>6, <2>3, <2>4, Zenon
  <2>6. SameNumber(Change(t).percent, Unreadable)
    BY <1>5, <2>5, Zenon
  <2>7. Exactly(AmountOf(Change(t).amount), Missing)
    BY <2>5, AmountNone, Zenon
  <2> QED BY <1>0, <1>3, <1>4, <1>8, <2>6, <2>7, Zenon
<1> QED BY <1>7, <1>8

----------------------------------------------------------------------------
(* What is made of any cell at all.                                          *)

DigitRunes(p) == Image(FromAscii, Only(p, AsciiDigits))
LEMMA DigitRunesAre ==
    /\ \A p \in Seq(Runes) : DigitRunes(p) \in Seq(Int)
    /\ \A p, q \in Seq(Runes) : DigitRunes(p \o q) = DigitRunes(p) \o DigitRunes(q)
<1>1. Maps(FromAscii, Runes, Int)
  BY DEF Maps, FromAscii, Runes
<1>2. ASSUME NEW p \in Seq(Runes) PROVE DigitRunes(p) \in Seq(Int)
  <2>1. Only(p, AsciiDigits) \in Seq(Runes)
    BY OnlyType
  <2> QED BY <1>1, <2>1, ImageType DEF DigitRunes
<1>3. ASSUME NEW p \in Seq(Runes), NEW q \in Seq(Runes)
      PROVE  DigitRunes(p \o q) = DigitRunes(p) \o DigitRunes(q)
  <2>1. PICK c \in Seq(Runes), d \in Seq(Runes) : c = Only(p, AsciiDigits) /\ d = Only(q, AsciiDigits)
    BY OnlyType
  <2>2. Only(p \o q, AsciiDigits) = c \o d
    <3>1. Only(p \o q, AsciiDigits) = Only(p, AsciiDigits) \o Only(q, AsciiDigits)
      BY OnlyParts
    <3> QED BY <2>1, <3>1, Zenon
  <2>3. Image(FromAscii, c \o d) = Image(FromAscii, c) \o Image(FromAscii, d)
    BY ImageParts
  <2> QED BY <2>1, <2>2, <2>3, Zenon DEF DigitRunes
<1> QED BY <1>2, <1>3

LEMMA DigitsCut ==
    ASSUME NEW c \in Seq(Runes), NEW u \in Seq(Runes), NEW m \in {Open, Shut}, NEW v \in Seq(Runes),
           Cut(c, u, m, v)
    PROVE  DigitRunes(c) = DigitRunes(u) \o DigitRunes(v)
<1>1. m \in Runes /\ m \notin AsciiDigits
  BY MarksAre DEF Open, Shut, AsciiDigits
<1>2. c = (u \o <<m>>) \o v
  BY <1>1, CutIs
<1>3. PICK w \in Seq(Runes) : w = <<m>> /\ Only(w, AsciiDigits) = <<>>
  <2>1. PICK w \in Seq(Runes) : w = <<m>> /\ Len(w) = 1 /\ w[1] = m
    <3>1. <<m>> \in Seq(Runes) /\ Len(<<m>>) = 1 /\ <<m>>[1] = m
      BY <1>1
    <3> QED BY <3>1, Zenon
  <2>2. \A i \in 1..Len(w) : w[i] \notin AsciiDigits
    BY <1>1, <2>1
  <2> QED BY <2>1, <2>2, OnlyNone
<1>4. DigitRunes(w) = <<>>
  BY <1>3, ImageEmpty, Zenon DEF DigitRunes
<1>5. PICK y \in Seq(Runes) : y = u \o w
  BY ConcatProperties
<1>6. PICK d \in Seq(Int) : d = DigitRunes(u)
  BY DigitRunesAre
<1>7. d \o <<>> = d
  BY ConcatEmptySeq
<1>8. DigitRunes(y) = d
  BY <1>4, <1>5, <1>6, <1>7, DigitRunesAre, Zenon
<1>9. DigitRunes(y \o v) = DigitRunes(y) \o DigitRunes(v)
  BY DigitRunesAre, Zenon
<1> QED BY <1>2, <1>3, <1>5, <1>6, <1>8, <1>9, Zenon

LEMMA AmountDigits ==
    ASSUME NEW s \in Seq(Runes)
    PROVE  AmountOf(s).value.digits = DigitRunes(Ink(s))
<1>1. PICK t \in Seq(Runes) : t = TrimSpace(s) /\ Ink(t) = Ink(s)
  BY InkOfTrimmed
<1>2. PICK v : v = Value(t) /\ v.digits = DigitRunes(Ink(s))
  BY <1>1, ValueDigits, Zenon DEF DigitsIn, DigitRunes
<1>3. AmountOf(s) = IF v.digits # <<>> THEN [text |-> t, value |-> v] ELSE NoAmount
  BY <1>1, <1>2, Zenon DEF AmountOf, Readable
<1>4. NoAmount.value.digits = <<>>
  BY DEF NoAmount, Unreadable, Number
<1>5. CASE v.digits # <<>>
  <2>1. [text |-> t, value |-> v].value = v
    OBVIOUS
  <2> QED BY <1>2, <1>3, <1>5, <2>1
<1>6. CASE v.digits = <<>>
  <2>1. AmountOf(s) = NoAmount
    BY <1>3, <1>6, Zenon
  <2> QED BY <1>2, <1>4, <1>6, <2>1, Zenon
<1> QED BY <1>5, <1>6

\* A sequence is cut at the first of a mark it has.
LEMMA CutThere ==
    ASSUME NEW S, NEW c \in Seq(S), NEW m \in S, ~Free(c, m)
    PROVE  \E u, v \in Seq(S) : Cut(c, u, m, v) /\ Free(u, m)
<1> DEFINE T == {j \in 1..Len(c) : c[j] = m}
<1>1. PICK k \in T : \A j \in T : k <= j
  <2>1. T \subseteq Nat /\ T # {}
    BY DEF Free
  <2> HIDE DEF T
  <2> QED BY <2>1, Least
<1>2. PICK n : n \in Nat /\ n = Len(c)
  BY LenProperties, Zenon
<1>3. k \in 1..n /\ c[k] = m /\ \A i \in 1..(k - 1) : c[i] # m
  <2>1. \A i \in 1..(k - 1) : i \in 1..n /\ ~(k <= i)
    BY <1>2
  <2> QED BY <1>1, <1>2, <2>1
<1> HIDE DEF T
<1>4. k \in Nat /\ k - 1 \in Nat /\ k + 1 \in Nat /\ (k - 1) + 1 = k
      /\ 1 <= (k - 1) + 1 /\ k - 1 <= n /\ 1 <= k + 1 /\ k + 1 <= n + 1
      /\ (n + 1) - (k + 1) \in Nat
      /\ (k - 1) + 1 + ((n + 1) - (k + 1)) = n
  BY <1>2, <1>3
<1>5. PICK a \in Seq(S) : Len(a) = k - 1 /\ \A i \in 1..(k - 1) : a[i] = c[i]
  <2>1. /\ SubSeq(c, 1, k - 1) \in Seq(S) /\ Len(SubSeq(c, 1, k - 1)) = ((k - 1) + 1) - 1
        /\ \A i \in 1..(((k - 1) + 1) - 1) : SubSeq(c, 1, k - 1)[i] = c[(1 - 1) + i]
    BY <1>2, <1>4, SubSeqOf
  <2>2. ((k - 1) + 1) - 1 = k - 1 /\ \A i \in 1..(k - 1) : (1 - 1) + i = i
    BY <1>4
  <2> QED BY <2>1, <2>2
<1>6. PICK b \in Seq(S) : /\ Len(b) = (n + 1) - (k + 1)
                          /\ \A i \in 1..((n + 1) - (k + 1)) : b[i] = c[k + i]
  <2>1. /\ SubSeq(c, k + 1, n) \in Seq(S) /\ Len(SubSeq(c, k + 1, n)) = (n + 1) - (k + 1)
        /\ \A i \in 1..((n + 1) - (k + 1)) : SubSeq(c, k + 1, n)[i] = c[((k + 1) - 1) + i]
    BY <1>2, <1>4, SubSeqOf
  <2>2. \A i \in 1..((n + 1) - (k + 1)) : ((k + 1) - 1) + i = k + i
    BY <1>4
  <2> QED BY <2>1, <2>2
<1>7. Cut(c, a, m, b)
  <2>1. Len(c) = (k - 1) + 1 + ((n + 1) - (k + 1)) /\ (k - 1) + 1 = k
    BY <1>2, <1>4
  <2>2. \A i \in 1..((n + 1) - (k + 1)) : c[(k - 1) + 1 + i] = b[i]
    BY <1>6, <2>1, Zenon
  <2>3. (\A i \in 1..(k - 1) : c[i] = a[i]) /\ c[(k - 1) + 1] = m
    BY <1>3, <1>5, <2>1, Zenon
  <2> QED BY <1>5, <1>6, <2>1, <2>2, <2>3, Zenon DEF Cut
<1>8. Free(a, m)
  BY <1>3, <1>5, Zenon DEF Free
<1> QED BY <1>7, <1>8

\* The digits used are the last ones of the cell, or all of them.
UsedIn(t) == Change(t).percent.digits \o AmountOf(Change(t).amount).value.digits
LEMMA DigitsUsed ==
    ASSUME NEW t \in Seq(Runes)
    PROVE  \E e, d \in Seq(Int) :
             /\ DigitRunes(Ink(t)) = e \o d /\ UsedIn(t) = d
             /\ Free(Ink(t), Open) => DigitRunes(Ink(t)) = d
<1>1. PICK c \in Seq(Runes) : c = Ink(t)
  BY StillIs
<1>2. \A v, w : [percent |-> v, amount |-> w].percent = v /\ [percent |-> v, amount |-> w].amount = w
  OBVIOUS
<1>3. PICK z \in Seq(Int) : z = <<>>
  BY EmptySeq
<1>4. PICK all \in Seq(Int) : all = DigitRunes(c)
  BY DigitRunesAre
<1>5. z \o all = all
  BY <1>3, ConcatEmptySeq
<1>6. ASSUME Change(t) = [percent |-> Unreadable, amount |-> Clean(t)]
      PROVE  UsedIn(t) = all
  <2>1. Unreadable.digits = z
    BY <1>3 DEF Unreadable, Number
  <2>2. Clean(t) \in Seq(Runes) /\ Ink(Clean(t)) = c
    BY <1>1, CleanType, InkOfClean
  <2>3. AmountOf(Clean(t)).value.digits = all
    BY <1>4, <2>2, AmountDigits
  <2>4. Change(t).percent = Unreadable /\ Change(t).amount = Clean(t)
    BY <1>2, <1>6, Zenon
  <2>5. UsedIn(t) = z \o all
    BY <2>1, <2>3, <2>4, Zenon DEF UsedIn
  <2> QED BY <1>5, <2>5
<1>7. CASE Free(c, Open)
  <2>1. UsedIn(t) = all
    BY <1>1, <1>6, <1>7, ChangeNot
  <2> QED BY <1>1, <1>3, <1>4, <1>5, <2>1, Zenon
<1>8. CASE ~Free(c, Open)
  <2>1. PICK u, r \in Seq(Runes) : Cut(c, u, Open, r) /\ Free(u, Open)
    BY <1>8, MarksAre, CutThere
  <2>2. CASE Free(r, Shut)
    <3>1. UsedIn(t) = all
      BY <1>1, <1>6, <2>1, <2>2, ChangeNot
    <3> QED BY <1>1, <1>3, <1>4, <1>5, <1>8, <3>1, Zenon
  <2>3. CASE ~Free(r, Shut)
    <3>1. PICK p, a \in Seq(Runes) : Cut(r, p, Shut, a) /\ Free(p, Shut)
      BY <2>3, MarksAre, CutThere
    <3>2. PICK x, y \in Seq(Runes) :
            /\ Change(t) = [percent |-> Value(x), amount |-> TrimSpace(y)]
            /\ Ink(x) = p /\ Ink(y) = a
      BY <1>1, <2>1, <3>1, ChangeIs
    <3>3. PICK f \in Seq(Int), g \in Seq(Int), h \in Seq(Int) :
            f = DigitRunes(u) /\ g = DigitRunes(p) /\ h = DigitRunes(a)
      BY DigitRunesAre
    <3>4. Value(x).digits = g
      BY <3>2, <3>3, ValueDigits, Zenon DEF DigitsIn, DigitRunes
    <3>5. AmountOf(TrimSpace(y)).value.digits = h
      <4>1. TrimSpace(y) \in Seq(Runes) /\ Ink(TrimSpace(y)) = a
        BY <3>2, InkOfTrimmed
      <4> QED BY <3>3, <4>1, AmountDigits
    <3>6. PICK d \in Seq(Int) : d = g \o h
      BY ConcatProperties
    <3>7. DigitRunes(r) = d
      <4>1. Shut \in {Open, Shut}
        OBVIOUS
      <4>2. DigitRunes(r) = DigitRunes(p) \o DigitRunes(a)
        BY <3>1, <4>1, DigitsCut
      <4> QED BY <3>3, <3>6, <4>2
    <3>8. all = f \o d
      <4>1. Open \in {Open, Shut}
        OBVIOUS
      <4>2. DigitRunes(c) = DigitRunes(u) \o DigitRunes(r)
        BY <2>1, <4>1, DigitsCut
      <4> QED BY <1>4, <3>3, <3>7, <4>2
    <3>9. UsedIn(t) = d
      BY <1>2, <3>2, <3>4, <3>5, <3>6, Zenon DEF UsedIn
    <3> QED BY <1>1, <1>4, <1>8, <3>8, <3>9, Zenon
  <2> QED BY <2>2, <2>3
<1> QED BY <1>7, <1>8

LEMMA ReverseOf ==
    ASSUME NEW S, NEW s \in Seq(S)
    PROVE  /\ Reverse(s) \in Seq(S) /\ Len(Reverse(s)) = Len(s)
           /\ \A i \in 1..Len(s) : Reverse(s)[i] = s[(Len(s) - i) + 1]
<1>1. PICK n : n \in Nat /\ n = Len(s)
  BY LenProperties, Zenon
<1>2. Reverse(s) = [i \in 1..n |-> s[(n - i) + 1]]
  BY <1>1, Zenon DEF Reverse
<1>3. \A i \in 1..n : s[(n - i) + 1] \in S
  <2>1. \A i \in 1..n : (n - i) + 1 \in 1..n
    BY <1>1
  <2> QED BY <1>1, <2>1, ElementOfSeq
<1> DEFINE r == [i \in 1..n |-> s[(n - i) + 1]]
<1>4. r \in [1..n -> S]
  BY <1>3
<1>5. r \in Seq(S) /\ Len(r) = n
  <2> HIDE DEF r
  <2> QED BY <1>1, <1>4
<1>6. \A i \in 1..n : r[i] = s[(n - i) + 1]
  OBVIOUS
<1> HIDE DEF r
<1>7. r = Reverse(s)
  BY <1>2 DEF r
<1> QED BY <1>1, <1>5, <1>6, <1>7, Zenon

LEMMA SuffixOf ==
    ASSUME NEW S, NEW a \in Seq(S), NEW b \in Seq(S), NEW c, Joined(c, a, b)
    PROVE  IsSuffix(b, c)
<1>1. PICK m, n : m = Len(a) /\ n = Len(b) /\ m \in Nat /\ n \in Nat
  BY LenProperties, Zenon
<1>2. /\ c \in Seq(S) /\ Len(c) = m + n
      /\ \A i \in 1..n : c[m + i] = b[i]
  <2>1. c \in Seq(S) /\ Parts(c, a, b)
    BY JoinedParts
  <2> QED BY <1>1, <2>1, Zenon DEF Parts
<1>3. PICK q \in Seq(S) : q = Reverse(b) /\ Len(q) = n /\ \A i \in 1..n : q[i] = b[(n - i) + 1]
  BY <1>1, ReverseOf
<1>4. PICK w \in Seq(S) : w = Reverse(c) /\ Len(w) = m + n
                          /\ \A i \in 1..(m + n) : w[i] = c[((m + n) - i) + 1]
  BY <1>2, ReverseOf
<1>5. ASSUME NEW i \in 1..n PROVE q[i] = w[i]
  <2>1. (n - i) + 1 \in 1..n /\ ((m + n) - i) + 1 = m + ((n - i) + 1) /\ i \in 1..(m + n)
    BY <1>1
  <2>2. q[i] = b[(n - i) + 1]
    BY <1>3
  <2>3. w[i] = c[m + ((n - i) + 1)]
    BY <1>4, <2>1, Zenon
  <2>4. c[m + ((n - i) + 1)] = b[(n - i) + 1]
    BY <1>2, <2>1, Zenon
  <2> QED BY <2>2, <2>3, <2>4, Zenon
<1>6. PICK u \in Seq(S) : u = SubSeq(q, 1, n) /\ Len(u) = (n + 1) - 1
                          /\ \A i \in 1..((n + 1) - 1) : u[i] = q[(1 - 1) + i]
  <2>1. 1 <= n + 1 /\ n <= Len(q)
    BY <1>1, <1>3
  <2>2. /\ SubSeq(q, 1, n) \in Seq(S) /\ Len(SubSeq(q, 1, n)) = (n + 1) - 1
        /\ \A i \in 1..((n + 1) - 1) : SubSeq(q, 1, n)[i] = q[(1 - 1) + i]
    BY <1>1, <2>1, SubSeqOf
  <2> QED BY <2>2, Zenon
<1>7. PICK v \in Seq(S) : v = SubSeq(w, 1, n) /\ Len(v) = (n + 1) - 1
                          /\ \A i \in 1..((n + 1) - 1) : v[i] = w[(1 - 1) + i]
  <2>1. 1 <= n + 1 /\ n <= Len(w)
    BY <1>1, <1>4
  <2>2. /\ SubSeq(w, 1, n) \in Seq(S) /\ Len(SubSeq(w, 1, n)) = (n + 1) - 1
        /\ \A i \in 1..((n + 1) - 1) : SubSeq(w, 1, n)[i] = w[(1 - 1) + i]
    BY <1>1, <2>1, SubSeqOf
  <2> QED BY <2>2, Zenon
<1>8. (n + 1) - 1 = n /\ \A i \in 1..n : (1 - 1) + i = i
  BY <1>1
<1>9. \A i \in 1..((n + 1) - 1) : u[i] = v[i]
  BY <1>5, <1>6, <1>7, <1>8, Zenon
<1>10. u = v
  BY <1>6, <1>7, <1>9, SeqEqual
<1>11. n <= m + n
  BY <1>1
<1> QED BY <1>3, <1>4, <1>6, <1>7, <1>10, <1>11, Zenon DEF IsSuffix, IsPrefix

----------------------------------------------------------------------------
(* Every value under its caption, and none that the page does not hold.      *)

LEMMA ItemRead ==
    ASSUME ReadInv, Read, NEW i \in DOMAIN Items
    PROVE  \E e \in Entries, style \in Styles :
             /\ e = Listed[i] /\ style = published.style /\ e.instrument \in Instruments
             /\ Items[i] = ItemFrom(e.caption, ReadRow(RowOf(e.instrument, style), Layout(style)))
<1>1. published \in Publications /\ result.kind = "snapshot"
  BY DEF ReadInv, Read
<1>2. PICK style \in Styles : style = published.style
  BY <1>1, PublicationsAssumption
<1>3. Items = Image(ItemOf(style), Listed) /\ Listed \in Seq(Entries)
      /\ Len(Items) = Len(Listed)
  <2>1. result.kind # "pending"
    BY <1>1
  <2>2. result = Outcome
    <3>1. result # Pending
      BY <2>1 DEF Pending
    <3> QED BY <3>1 DEF ReadInv
  <2>3. result.categories = Snapshot
    <3>1. Error("ErrNoTables").kind # "snapshot" /\ Error("ErrEmpty").kind # "snapshot"
      BY DEF Error
    <3>2. Outcome = [kind |-> "snapshot", categories |-> Snapshot]
      BY <1>1, <2>2, <3>1 DEF Outcome
    <3> QED BY <2>2, <3>2
  <2> QED BY <1>1, <1>2, <2>3, ItemsListed, Zenon DEF Items
<1>4. i \in 1..Len(Listed)
  BY <1>3 DEF Image
<1>5. PICK e \in Entries : e = Listed[i]
  BY <1>3, <1>4, ElementOfSeq
<1>6. e.instrument \in Instruments
  BY DEF Entries
<1>7. Items[i] = ItemFrom(e.caption, ReadRow(RowOf(e.instrument, style), Layout(style)))
  BY <1>3, <1>4, <1>5, <1>6 DEF Image, ItemOf, Reading
<1> QED BY <1>2, <1>5, <1>6, <1>7

LEMMA FoundThere == \A f : Found(f) <=> FoundIn(published.style, f)
BY Zenon DEF Found, FoundIn, Known

\* No value of a board is found under another caption than the site's, whatever
\* the order of the columns, the script, the grouping and the spacing: the
\* amounts and the time of every item are those published for it, the two parts
\* of a change are told apart, and a column that is not there is missing.
THEOREM EveryValueUnderItsCaption == QuerySpec => []ColumnsKept
<1>1. ReadInv => ColumnsKept
  <2> SUFFICES ASSUME ReadInv, Read, NEW i \in DOMAIN Items
               PROVE  LET x == Items[i]  n == Listed[i].instrument IN
                      /\ Shows(x.price, n.price)
                      /\ Shows(x.low, IF Found("low") THEN n.low ELSE Missing)
                      /\ Shows(x.high, IF Found("high") THEN n.high ELSE Missing)
                      /\ x.time = IF Found("time") THEN Clean(n.time) ELSE <<>>
                      /\ published.style.raw = <<>> =>
                           /\ x.status = IF Found("change") THEN n.status ELSE ""
                           /\ SameNumber(x.percent, IF Found("change") THEN NumberOf(n.percent)
                                                    ELSE Unreadable)
                           /\ Shows(x.amount, IF Found("change") THEN n.amount ELSE Missing)
    BY Zenon DEF ColumnsKept, AmountsUnderTheirCaptions, ChangeSplit
  <2>1. PICK e, style :
          /\ e \in Entries /\ style \in Styles
          /\ e = Listed[i] /\ style = published.style /\ e.instrument \in Instruments
          /\ Items[i] = ItemFrom(e.caption, ReadRow(RowOf(e.instrument, style), Layout(style)))
    BY ItemRead, Zenon
  <2>2. PICK n \in Instruments : n = e.instrument
    BY <2>1
  <2>3. PICK row : row = ReadRow(RowOf(n, style), Layout(style))
    OBVIOUS
  <2>4. PICK x : x = ItemFrom(e.caption, row)
    OBVIOUS
  <2>5. /\ x.price = AmountOf(row.price) /\ x.low = AmountOf(row.low)
        /\ x.high = AmountOf(row.high) /\ x.time = row.time /\ x.status = row.status
        /\ x.percent = Change(row.change).percent
        /\ x.amount = AmountOf(Change(row.change).amount)
    BY <2>4 DEF ItemFrom
  <2>6. Items[i] = x /\ Listed[i].instrument = n
    BY <2>1, <2>2, <2>3, <2>4
  <2>7. \A f : Found(f) <=> FoundIn(style, f)
    BY <2>1, FoundThere, Zenon
  <2>0. /\ Missing \in Numbers /\ n.price \in Numbers /\ n.low \in Numbers
        /\ n.high \in Numbers /\ n.amount \in Numbers
    BY MissingIs DEF Instruments
  <2>8. /\ Shows(AmountOf(row.price), n.price)
        /\ Shows(AmountOf(row.low), IF FoundIn(style, "low") THEN n.low ELSE Missing)
        /\ Shows(AmountOf(row.high), IF FoundIn(style, "high") THEN n.high ELSE Missing)
        /\ row.time = IF FoundIn(style, "time") THEN Clean(n.time) ELSE <<>>
    <3>1. /\ Exactly(AmountOf(row.price), n.price)
          /\ Exactly(AmountOf(row.low), IF FoundIn(style, "low") THEN n.low ELSE Missing)
          /\ Exactly(AmountOf(row.high), IF FoundIn(style, "high") THEN n.high ELSE Missing)
          /\ row.time = IF FoundIn(style, "time") THEN Clean(n.time) ELSE <<>>
      BY <2>1, <2>3, AmountsRead, Zenon
    <3> QED BY <2>0, <3>1, ExactlyShows, Zenon
  <2>9. PICK status, percent, amount :
          status = row.status /\ percent = Change(row.change).percent
          /\ amount = AmountOf(Change(row.change).amount)
    OBVIOUS
  <2>10. /\ status = IF FoundIn(style, "change") THEN n.status ELSE ""
         /\ style.raw = <<>> =>
              /\ SameNumber(percent, IF FoundIn(style, "change") THEN NumberOf(n.percent)
                                     ELSE Unreadable)
              /\ Shows(amount, IF FoundIn(style, "change") THEN n.amount ELSE Missing)
    <3>1. /\ status = IF FoundIn(style, "change") THEN n.status ELSE ""
          /\ style.raw = <<>> =>
               /\ SameNumber(percent, IF FoundIn(style, "change") THEN NumberOf(n.percent)
                                      ELSE Unreadable)
               /\ Exactly(amount, IF FoundIn(style, "change") THEN n.amount ELSE Missing)
      BY <2>1, <2>3, <2>9, ChangeRead, Zenon
    <3> QED BY <2>0, <3>1, ExactlyShows, Zenon
  <2>11. /\ Shows(x.price, n.price)
         /\ Shows(x.low, IF Found("low") THEN n.low ELSE Missing)
         /\ Shows(x.high, IF Found("high") THEN n.high ELSE Missing)
         /\ x.time = IF Found("time") THEN Clean(n.time) ELSE <<>>
    BY <2>5, <2>7, <2>8, Zenon
  <2>12. published.style.raw = <<>> =>
           /\ x.status = IF Found("change") THEN n.status ELSE ""
           /\ SameNumber(x.percent, IF Found("change") THEN NumberOf(n.percent) ELSE Unreadable)
           /\ Shows(x.amount, IF Found("change") THEN n.amount ELSE Missing)
    BY <2>1, <2>5, <2>7, <2>9, <2>10, Zenon
  <2> QED BY <2>6, <2>11, <2>12, Zenon
<1> QED BY <1>1, Reads, PTL

\* Whatever the cell of a change holds, the digits of its percentage and of its
\* amount are digits of the cell, each once and in order, the last ones if there
\* is an opening parenthesis and all of them if there is none.
THEOREM NoDigitInvented == QuerySpec => []NothingInvented
<1>1. ReadInv => NothingInvented
  <2> DEFINE cellOf(i) == Digits(TextOf(Listed[i].instrument, "change", published.style))
             digitsOf(i) == Select(cellOf(i), IsDigit)
             valuesOf(i) == [j \in DOMAIN digitsOf(i) |-> digitsOf(i)[j] - 48]
             usedOf(i) == Items[i].percent.digits \o Items[i].amount.value.digits
  <2> SUFFICES ASSUME ReadInv, Read, NEW i \in DOMAIN Items, Found("change")
               PROVE  /\ IsSuffix(usedOf(i), valuesOf(i))
                      /\ Open \notin ToSet(cellOf(i)) => usedOf(i) = valuesOf(i)
    BY Zenon DEF NothingInvented
  <2>0. PICK cell, digits, values, used :
          cell = cellOf(i) /\ digits = digitsOf(i) /\ values = valuesOf(i) /\ used = usedOf(i)
          /\ digits = Select(cell, IsDigit) /\ values = [j \in DOMAIN digits |-> digits[j] - 48]
    OBVIOUS
  <2> HIDE DEF cellOf, digitsOf, valuesOf, usedOf
  <2>1. PICK e, style :
          /\ e \in Entries /\ style \in Styles
          /\ e = Listed[i] /\ style = published.style /\ e.instrument \in Instruments
          /\ Items[i] = ItemFrom(e.caption, ReadRow(RowOf(e.instrument, style), Layout(style)))
    BY ItemRead, Zenon
  <2>2. PICK n \in Instruments : n = e.instrument
    BY <2>1
  <2>3. PICK row : row = ReadRow(RowOf(n, style), Layout(style))
    OBVIOUS
  <2>4. /\ Items[i].percent = Change(row.change).percent
        /\ Items[i].amount = AmountOf(Change(row.change).amount)
    <3>1. PICK x : x = ItemFrom(e.caption, row)
      OBVIOUS
    <3>2. x.percent = Change(row.change).percent /\ x.amount = AmountOf(Change(row.change).amount)
      BY <3>1 DEF ItemFrom
    <3> QED BY <2>1, <2>2, <2>3, <3>1, <3>2, Zenon
  <2>5. "change" \in Fields /\ FoundIn(style, "change")
    BY <2>1, FoundThere, Zenon DEF Fields
  <2>6. PICK text \in Seq(Runes) : text = TextOf(n, "change", style) /\ cell = Digits(text)
    BY <2>0, <2>1, <2>2, <2>5, TextType DEF cellOf
  <2>7. PICK t \in Seq(Runes) : t = row.change /\ Ink(t) = Ink(text)
    <3>1. Wording(n, "change", style) \in Seq(Runes)
          /\ Ink(Wording(n, "change", style)) = Ink(TextOf(n, "change", style))
      BY <2>1, <2>5, WordingIs
    <3>2. row.change = Wording(n, "change", style)
      BY <2>1, <2>3, RowFields
    <3> QED BY <2>6, <3>1, <3>2
  <2>8. used = UsedIn(t)
    BY <2>0, <2>4, <2>7, Zenon DEF UsedIn, usedOf
  <2>9. cell \in Seq(Runes)
    BY <2>6, DigitsAre
  <2>10. values = DigitRunes(Ink(t))
    <3>1. DOMAIN cell = 1..Len(cell)
      BY <2>9
    <3>2. digits = Only(cell, AsciiDigits)
      BY <2>0, <3>1, Zenon DEF Select, Only, IsDigit
    <3>3. digits \in Seq(Runes)
      BY <2>9, <3>2, OnlyType
    <3>4. values = Image(FromAscii, digits)
      <4>1. DOMAIN digits = 1..Len(digits) /\ \A j \in 1..Len(digits) : digits[j] \in Runes
        BY <3>3, ElementOfSeq
      <4>2. \A j \in 1..Len(digits) : FromAscii[digits[j]] = digits[j] - 48
        BY <4>1 DEF FromAscii
      <4> QED BY <2>0, <4>1, <4>2 DEF Image
    <3>5. digits = Only(Ink(text), AsciiDigits)
      BY <2>6, <3>2, DigitsMarked, InkOnly
    <3> QED BY <2>7, <3>4, <3>5, Zenon DEF DigitRunes
  <2>11. PICK f, d \in Seq(Int) :
           /\ DigitRunes(Ink(t)) = f \o d /\ UsedIn(t) = d
           /\ Free(Ink(t), Open) => DigitRunes(Ink(t)) = d
    BY DigitsUsed
  <2>12. IsSuffix(used, values)
    <3>1. Joined(values, f, d)
      BY <2>10, <2>11, Zenon DEF Joined
    <3> QED BY <2>8, <2>11, <3>1, SuffixOf
  <2>13. ASSUME Open \notin ToSet(cell) PROVE used = values
    <3>1. \A j \in 1..Len(cell) : cell[j] # Open
      BY <2>9, <2>13 DEF ToSet
    <3>2. Only(cell, Marked) = Ink(text)
      BY <2>6, InkOfDigits
    <3>3. \A j \in 1..Len(Ink(text)) : \E k \in 1..Len(cell) : Ink(text)[j] = cell[k]
      <4>1. \A j \in 1..Len(Only(cell, Marked)) :
              \E k \in 1..Len(cell) : Only(cell, Marked)[j] = cell[k]
        BY <2>9, OnlyFrom
      <4> QED BY <3>2, <4>1, Zenon
    <3>4. Free(Ink(text), Open)
      BY <3>1, <3>3, Zenon DEF Free
    <3>5. Free(Ink(t), Open)
      BY <2>7, <3>4, Zenon
    <3> QED BY <2>8, <2>10, <2>11, <3>5
  <2> QED BY <2>0, <2>12, <2>13, Zenon
<1> QED BY <1>1, Reads, PTL

----------------------------------------------------------------------------
(* The strings of the old interface.                                         *)

\* The text of an amount is the cleaned text it was read from.
LEMMA AmountText ==
    ASSUME NEW s \in Seq(Runes), NEW n \in Numbers, Ink(s) = NumberInk(n)
    PROVE  AmountOf(Clean(s)).text = IF n = Missing THEN <<>> ELSE Clean(s)
<1>1. PICK c \in Seq(Runes) : c = Clean(s) /\ Ink(c) = NumberInk(n)
  BY CleanType, InkOfClean
<1>2. TrimSpace(c) = c
  BY <1>1, TrimmedClean
<1>3. PICK v : v = Value(c) /\ (Readable(v) <=> n # Missing)
  BY <1>1, ValueOf
<1>4. AmountOf(c) = IF Readable(v) THEN [text |-> c, value |-> v] ELSE NoAmount
  BY <1>2, <1>3, Zenon DEF AmountOf
<1>5. NoAmount.text = <<>> /\ [text |-> c, value |-> v].text = c
  BY DEF NoAmount
<1> QED BY <1>1, <1>3, <1>4, <1>5, Zenon

AsShown(x, f, style) == IF x[f] = Missing THEN <<>> ELSE Clean(TextOf(x, f, style))
LEMMA TextsRead ==
    ASSUME NEW x \in Instruments, NEW style \in Styles, style.split = 0,
           NEW row, row = ReadRow(RowOf(x, style), Layout(style))
    PROVE  /\ AmountOf(row.price).text = AsShown(x, "price", style)
           /\ AmountOf(row.low).text =
                IF FoundIn(style, "low") THEN AsShown(x, "low", style) ELSE <<>>
           /\ AmountOf(row.high).text =
                IF FoundIn(style, "high") THEN AsShown(x, "high", style) ELSE <<>>
           /\ row.status = IF FoundIn(style, "change") THEN x.status ELSE ""
<1> DEFINE A == {"price", "low", "high"}
<1>1. A \subseteq Fields
  BY DEF Fields
<1>2. \A f \in A : x[f] \in Numbers /\ TextOf(x, f, style) = Rendered(x[f], style)
  BY DEF TextOf, Instruments
<1> HIDE DEF A
<1>3. ASSUME NEW f \in A PROVE AmountOf(Clean(TextOf(x, f, style))).text = AsShown(x, f, style)
  <2>1. PICK n \in Numbers : n = x[f]
    BY <1>2
  <2>2. PICK s \in Seq(Runes) : s = TextOf(x, f, style) /\ Ink(s) = NumberInk(n)
    BY <1>2, <2>1, RenderedInk
  <2>3. AmountOf(Clean(s)).text = IF n = Missing THEN <<>> ELSE Clean(s)
    BY <2>2, AmountText
  <2> QED BY <2>1, <2>2, <2>3, Zenon DEF AsShown
<1>4. ASSUME NEW f \in A
      PROVE  /\ FoundIn(style, f) => Wording(x, f, style) = Clean(TextOf(x, f, style))
             /\ ~FoundIn(style, f) => Wording(x, f, style) = <<>>
  BY <1>1, WordingIs
<1>5. AmountOf(<<>>).text = <<>>
  BY AmountNone DEF NoAmount
<1>6. ASSUME NEW f \in A
      PROVE  AmountOf(Wording(x, f, style)).text =
               IF FoundIn(style, f) THEN AsShown(x, f, style) ELSE <<>>
  BY <1>3, <1>4, <1>5, Zenon
<1>7. /\ row.price = IF Wording(x, "price", style) = <<>> THEN Clean(Rendered(x.price, style))
                     ELSE Wording(x, "price", style)
      /\ row.low = Wording(x, "low", style) /\ row.high = Wording(x, "high", style)
      /\ row.status = StatusOf(Seen(x, "change", style))
  BY RowFields
<1>8. "price" \in A /\ "low" \in A /\ "high" \in A
  BY DEF A
<1>9. row.price = Clean(TextOf(x, "price", style))
  <2>1. TextOf(x, "price", style) = Rendered(x.price, style)
    BY DEF TextOf
  <2> QED BY <1>4, <1>7, <1>8, <2>1, Zenon
<1>10. row.status = IF FoundIn(style, "change") THEN x.status ELSE ""
  BY <1>7, StatusRead, TextNone, Zenon DEF Seen
<1> QED BY <1>3, <1>6, <1>7, <1>8, <1>9, <1>10, Zenon

LEMMA LegacyAnswer ==
    ASSUME ReadInv, pc = "answered", request.kind \in {"flat", "grouped"},
           NEW i \in DOMAIN All(answer.groups)
    PROVE  /\ Read /\ i \in DOMAIN Items
           /\ All(answer.groups)[i] = LegacyItem(Items[i])
<1>1. published \in Publications /\ result = Outcome /\ answer = Reply
  BY DEF ReadInv
<1>2. Read
  <2> SUFFICES ASSUME result.kind # "snapshot" PROVE FALSE
    BY DEF Read
  <2>1. PICK status : Reply = Refused(status)
    BY DEF Reply
  <2>2. All(answer.groups) = <<>>
    BY <1>1, <2>1, AllOfNone DEF Refused
  <2> QED BY <2>2
<1>3. PICK snap : snap = result.categories /\ snap = Snapshot
  BY <1>1, <1>2, LoadedIs DEF Read
<1>4. Reply = Flat(snap) \/ Reply = Grouped(snap)
  BY <1>2, <1>3 DEF Reply, Read
<1>5. PICK h : h = ItemOf(published.style)
  OBVIOUS
<1>6. All(answer.groups) = Image(AsLegacy(h), Listed)
  BY <1>1, <1>3, <1>4, <1>5, LegacyExact, Zenon
<1>7. Items = Image(h, Listed) /\ Listed \in Seq(Entries)
  BY <1>1, <1>3, <1>5, ItemsListed, Zenon DEF Items
<1>8. i \in 1..Len(Listed) /\ All(answer.groups)[i] = AsLegacy(h)[Listed[i]]
      /\ DOMAIN Items = 1..Len(Listed) /\ Items[i] = h[Listed[i]]
  BY <1>6, <1>7 DEF Image
<1>9. Listed[i] \in Entries
  BY <1>7, <1>8, ElementOfSeq
<1>10. AsLegacy(h)[Listed[i]] = LegacyItem(h[Listed[i]])
  BY <1>9, Zenon DEF AsLegacy
<1> QED BY <1>2, <1>8, <1>10, Zenon

\* The strings of the old interface are the site's own rendering with the digits
\* of a program, "" where the site showed a dash, whatever the page.
THEOREM LegacyTexts == QuerySpec => []LegacyFaithful
<1>1. ReadInv => LegacyFaithful
  <2> SUFFICES ASSUME ReadInv, pc = "answered", request.kind \in {"flat", "grouped"},
                      published.style.split = 0, NEW i \in DOMAIN All(answer.groups)
               PROVE  LET x == All(answer.groups)[i]
                          n == Listed[i].instrument
                          shown(f) == AsShown(n, f, published.style)
                      IN /\ x.price = shown("price")
                         /\ x.low = IF Found("low") THEN shown("low") ELSE <<>>
                         /\ x.high = IF Found("high") THEN shown("high") ELSE <<>>
                         /\ x.status = IF Found("change") THEN n.status ELSE ""
    BY Zenon DEF LegacyFaithful, AsShown
  <2>1. Read /\ i \in DOMAIN Items /\ All(answer.groups)[i] = LegacyItem(Items[i])
    BY LegacyAnswer
  <2>2. PICK e, style :
          /\ e \in Entries /\ style \in Styles
          /\ e = Listed[i] /\ style = published.style /\ e.instrument \in Instruments
          /\ Items[i] = ItemFrom(e.caption, ReadRow(RowOf(e.instrument, style), Layout(style)))
    BY <2>1, ItemRead, Zenon
  <2>3. PICK n \in Instruments : n = e.instrument
    BY <2>2
  <2>4. PICK row : row = ReadRow(RowOf(n, style), Layout(style))
    OBVIOUS
  <2>5. PICK x : x = LegacyItem(Items[i])
    OBVIOUS
  <2>6. /\ x.price = AmountOf(row.price).text /\ x.low = AmountOf(row.low).text
        /\ x.high = AmountOf(row.high).text /\ x.status = row.status
    <3>1. PICK y : y = ItemFrom(e.caption, row)
      OBVIOUS
    <3>2. /\ y.price = AmountOf(row.price) /\ y.low = AmountOf(row.low)
          /\ y.high = AmountOf(row.high) /\ y.status = row.status
      BY <3>1 DEF ItemFrom
    <3>3. x = LegacyItem(y)
      BY <2>2, <2>3, <2>4, <2>5, <3>1, Zenon
    <3>4. /\ x.price = y.price.text /\ x.low = y.low.text /\ x.high = y.high.text
          /\ x.status = y.status
      BY <3>3 DEF LegacyItem
    <3> QED BY <3>2, <3>4
  <2>7. /\ AmountOf(row.price).text = AsShown(n, "price", style)
        /\ AmountOf(row.low).text =
             IF FoundIn(style, "low") THEN AsShown(n, "low", style) ELSE <<>>
        /\ AmountOf(row.high).text =
             IF FoundIn(style, "high") THEN AsShown(n, "high", style) ELSE <<>>
        /\ row.status = IF FoundIn(style, "change") THEN n.status ELSE ""
    <3>1. style \in Styles /\ style.split = 0
      BY <2>2
    <3> QED BY <2>4, <3>1, TextsRead
  <2>8. \A f : Found(f) <=> FoundIn(style, f)
    BY <2>2, FoundThere, Zenon
  <2> QED BY <2>1, <2>2, <2>3, <2>5, <2>6, <2>7, <2>8, Zenon
<1> QED BY <1>1, Reads, PTL

----------------------------------------------------------------------------
(* The number a literal stands for.                                          *)

\* The number a sequence of digits stands for.
Worth(s) == Magnitude(Number(FALSE, s, 0))

LEMMA WorthIs ==
    ASSUME NEW b, NEW s, NEW k
    PROVE  /\ Magnitude(Number(b, s, k)) = Worth(s)
           /\ Number(b, s, k).negative = b /\ Number(b, s, k).scale = k
<1>1. /\ Number(b, s, k).digits = s /\ Number(FALSE, s, 0).digits = s
      /\ Number(b, s, k).negative = b /\ Number(b, s, k).scale = k
  BY DEF Number
<1>2. Magnitude(Number(b, s, k)) = Magnitude(Number(FALSE, s, 0))
  BY <1>1, Zenon DEF Magnitude
<1> QED BY <1>1, <1>2, Zenon DEF Worth

Counts(f, s) ==
    /\ f \in [0..Len(s) -> Nat]
    /\ f[0] = 0
    /\ \A n \in 1..Len(s) : f[n] = 10 * f[n - 1] + s[n]
    /\ Worth(s) = f[Len(s)]
LEMMA WorthUnfolds ==
    ASSUME NEW s \in Seq(Numerals)
    PROVE  \E f : Counts(f, s)
<1>1. PICK L \in Nat : L = Len(s)
  BY LenProperties
<1>2. \A n \in 1..L : s[n] \in Nat
  BY <1>1, ElementOfSeq DEF Numerals
<1> DEFINE Step(n, x) == IF n \in 1..L THEN 10 * x + s[n] ELSE x
           G == [n \in Nat |-> [x \in Nat |-> Step(n, x)]]
<1>3. \A n \in Nat, x \in Nat : Step(n, x) \in Nat
  BY <1>2
<1>4. G \in [Nat -> [Nat -> Nat]]
  BY <1>3
<1>5. \A n \in Nat, x \in Nat : G[n][x] = Step(n, x)
  OBVIOUS
<1> HIDE DEF G
<1>6. PICK g : Runs(g, Nat, 0, G)
  BY <1>4, Recursion
<1>7. g \in [Nat -> Nat] /\ g[0] = 0 /\ \A n \in Nat : g[n + 1] = G[n + 1][g[n]]
  BY <1>6, Zenon DEF Runs
<1> DEFINE f == [n \in 0..L |-> g[n]]
<1>8. ASSUME NEW n \in 1..L
      PROVE  f[n] = 10 * f[n - 1] + s[n]
  <2>1. n - 1 \in Nat /\ (n - 1) + 1 = n /\ n \in Nat /\ n \in 0..L /\ n - 1 \in 0..L
    OBVIOUS
  <2>2. g[n] = G[n][g[n - 1]] /\ g[n - 1] \in Nat
    BY <1>7, <2>1
  <2>3. g[n] = Step(n, g[n - 1])
    BY <1>5, <2>1, <2>2
  <2> QED BY <2>1, <2>3
<1>9. f \in [0..L -> Nat] /\ f[0] = 0
  BY <1>7
<1>10. f = [n \in 0..L |-> IF n = 0 THEN 0 ELSE 10 * f[n - 1] + s[n]]
  <2>1. ASSUME NEW n \in 0..L
        PROVE  f[n] = IF n = 0 THEN 0 ELSE 10 * f[n - 1] + s[n]
    <3>1. n = 0 \/ n \in 1..L
      OBVIOUS
    <3> HIDE DEF f
    <3> QED BY <1>8, <1>9, <3>1
  <2>2. f = [n \in 0..L |-> f[n]]
    OBVIOUS
  <2> HIDE DEF f
  <2> QED BY <2>1, <2>2, Zenon
<1> HIDE DEF f
<1>11. PICK k : /\ Worth(s) = k[L]
                /\ k = [n \in 0..L |-> IF n = 0 THEN 0 ELSE 10 * k[n - 1] + s[n]]
  <2>0. Number(FALSE, s, 0).digits = s
    BY DEF Number
  <2>1. PICK v : v = Number(FALSE, s, 0)
    OBVIOUS
  <2>2. v.digits = s
    BY <2>0, <2>1
  <2>3. f = [n \in 0..Len(v.digits) |-> IF n = 0 THEN 0 ELSE 10 * f[n - 1] + v.digits[n]]
    BY <1>1, <1>10, <2>2, Zenon
  <2>4. \E k : /\ Magnitude(v) = k[Len(v.digits)]
               /\ k = [n \in 0..Len(v.digits) |->
                          IF n = 0 THEN 0 ELSE 10 * k[n - 1] + v.digits[n]]
    BY <2>3, Zenon DEF Magnitude
  <2>5. \E k : /\ Magnitude(v) = k[Len(s)]
               /\ k = [n \in 0..Len(s) |-> IF n = 0 THEN 0 ELSE 10 * k[n - 1] + s[n]]
    BY <2>2, <2>4, Zenon
  <2> QED BY <1>1, <2>1, <2>5, Zenon DEF Worth
<1>12. k[0] = 0 /\ \A n \in 1..L : k[n] = 10 * k[n - 1] + s[n]
  <2>1. \A n \in 0..L : k[n] = IF n = 0 THEN 0 ELSE 10 * k[n - 1] + s[n]
    BY <1>11, Zenon
  <2> QED BY <2>1
<1>13. \A n \in Nat : n \in 0..L => k[n] = f[n]
  <2> DEFINE X == {n \in Nat : n \in 0..L => k[n] = f[n]}
  <2>1. 0 \in X
    BY <1>9, <1>12
  <2>2. ASSUME NEW n \in Nat, n \in X PROVE n + 1 \in X
    <3>1. n + 1 \in 0..L => n \in 0..L /\ n + 1 \in 1..L /\ (n + 1) - 1 = n
      OBVIOUS
    <3> SUFFICES ASSUME n + 1 \in 0..L PROVE k[n + 1] = f[n + 1]
      OBVIOUS
    <3>2. k[n] = f[n]
      BY <2>2, <3>1
    <3>3. k[n + 1] = 10 * k[n] + s[n + 1] /\ f[n + 1] = 10 * f[n] + s[n + 1]
      BY <1>8, <1>12, <3>1
    <3> QED BY <3>2, <3>3
  <2> HIDE DEF X
  <2>3. \A n \in Nat : n \in X
    BY <2>1, <2>2, NatInduct
  <2> QED BY <2>3 DEF X
<1>14. Worth(s) = f[L]
  BY <1>11, <1>13
<1>15. Counts(f, s)
  BY <1>1, <1>8, <1>9, <1>14 DEF Counts
<1> QED BY <1>15

LEMMA WorthEmpty == Worth(<<>>) = 0
<1>1. PICK s : s \in Seq(Numerals) /\ s = <<>> /\ Len(s) = 0
  <2>1. <<>> \in Seq(Numerals) /\ Len(<<>>) = 0
    OBVIOUS
  <2> QED BY <2>1
<1>2. PICK f : Counts(f, s)
  BY <1>1, WorthUnfolds
<1> QED BY <1>1, <1>2 DEF Counts

LEMMA WorthType ==
    ASSUME NEW s \in Seq(Numerals)
    PROVE  Worth(s) \in Nat
<1>1. PICK f : Counts(f, s)
  BY WorthUnfolds
<1> QED BY <1>1, LenProperties DEF Counts

LEMMA WorthAppend ==
    ASSUME NEW s \in Seq(Numerals), NEW e \in Numerals
    PROVE  Worth(Append(s, e)) = 10 * Worth(s) + e
<1>1. PICK L \in Nat : L = Len(s)
  BY LenProperties
<1>2. PICK t \in Seq(Numerals) : t = Append(s, e)
  BY AppendProperties
<1>3. Len(t) = L + 1 /\ (\A i \in 1..L : t[i] = s[i]) /\ t[L + 1] = e
  BY <1>1, <1>2, AppendProperties
<1>4. PICK f : /\ f[0] = 0 /\ Worth(s) = f[L]
               /\ \A n \in 1..L : f[n] = 10 * f[n - 1] + s[n]
  <2>1. \E f : Counts(f, s)
    BY WorthUnfolds
  <2> QED BY <1>1, <2>1, Zenon DEF Counts
<1>5. PICK h : /\ h[0] = 0 /\ Worth(t) = h[L + 1]
               /\ \A n \in 1..(L + 1) : h[n] = 10 * h[n - 1] + t[n]
  <2>1. \E h : Counts(h, t)
    BY WorthUnfolds
  <2> QED BY <1>3, <2>1, Zenon DEF Counts
<1> DEFINE X == {n \in Nat : n \in 0..L => h[n] = f[n]}
<1>6. 0 \in X
  BY <1>4, <1>5
<1>7. ASSUME NEW n \in Nat, n \in X PROVE n + 1 \in X
  <2>1. n + 1 \in 0..L => /\ n \in 0..L /\ n + 1 \in 1..L /\ n + 1 \in 1..(L + 1)
                          /\ (n + 1) - 1 = n
    OBVIOUS
  <2> SUFFICES ASSUME n + 1 \in 0..L PROVE h[n + 1] = f[n + 1]
    OBVIOUS
  <2>2. h[n] = f[n] /\ t[n + 1] = s[n + 1]
    BY <1>3, <1>7, <2>1
  <2>3. h[n + 1] = 10 * h[n] + t[n + 1] /\ f[n + 1] = 10 * f[n] + s[n + 1]
    BY <1>4, <1>5, <2>1
  <2> QED BY <2>2, <2>3
<1> HIDE DEF X
<1>8. L \in X
  BY <1>6, <1>7, NatInduct
<1>9. h[L] = Worth(s)
  BY <1>4, <1>8 DEF X
<1>10. L + 1 \in 1..(L + 1) /\ (L + 1) - 1 = L
  OBVIOUS
<1> QED BY <1>2, <1>3, <1>5, <1>9, <1>10

LEMMA TenToIs ==
    /\ TenTo[0] = 1
    /\ \A n \in Nat : TenTo[n + 1] = 10 * TenTo[n] /\ TenTo[n] \in Nat \ {0}
<1> DEFINE G == [n \in Nat |-> [x \in Nat |-> 10 * x]]
<1>1. G \in [Nat -> [Nat -> Nat]] /\ \A n \in Nat, x \in Nat : G[n][x] = 10 * x
  OBVIOUS
<1> HIDE DEF G
<1>2. PICK g : Runs(g, Nat, 1, G)
  BY <1>1, Recursion
<1>3. g \in [Nat -> Nat] /\ g[0] = 1 /\ \A n \in Nat : g[n + 1] = G[n + 1][g[n]]
  BY <1>2, Zenon DEF Runs
<1>4. \A n \in Nat : n + 1 \in Nat /\ g[n] \in Nat
  BY <1>3
<1>5. \A n \in Nat : g[n + 1] = 10 * g[n]
  BY <1>1, <1>3, <1>4, Zenon
<1>6. g = [n \in Nat |-> IF n = 0 THEN 1 ELSE 10 * g[n - 1]]
  <2>1. ASSUME NEW n \in Nat PROVE g[n] = IF n = 0 THEN 1 ELSE 10 * g[n - 1]
    <3>1. CASE n = 0
      BY <1>3, <3>1
    <3>2. CASE n # 0
      <4>1. n - 1 \in Nat /\ (n - 1) + 1 = n
        BY <3>2
      <4>2. g[(n - 1) + 1] = 10 * g[n - 1]
        BY <1>5, <4>1
      <4> QED BY <3>2, <4>1, <4>2
    <3> QED BY <3>1, <3>2
  <2>2. g = [n \in Nat |-> g[n]]
    BY <1>3
  <2> QED BY <2>1, <2>2, Zenon
<1>7. TenTo = [n \in Nat |-> IF n = 0 THEN 1 ELSE 10 * TenTo[n - 1]]
  BY <1>6, Zenon DEF TenTo
<1>8. TenTo[0] = 1
  BY <1>7
<1>9. ASSUME NEW n \in Nat PROVE TenTo[n + 1] = 10 * TenTo[n]
  <2>1. n + 1 \in Nat /\ n + 1 # 0 /\ (n + 1) - 1 = n
    OBVIOUS
  <2>2. TenTo[n + 1] = IF n + 1 = 0 THEN 1 ELSE 10 * TenTo[(n + 1) - 1]
    BY <1>7, <2>1, Zenon
  <2> QED BY <2>1, <2>2
<1> DEFINE X == {n \in Nat : TenTo[n] \in Nat \ {0}}
<1>10. 0 \in X
  BY <1>8
<1>11. ASSUME NEW n \in Nat, n \in X PROVE n + 1 \in X
  BY <1>9, <1>11
<1>12. \A n \in Nat : n \in X
  <2> HIDE DEF X
  <2> QED BY <1>10, <1>11, NatInduct
<1> QED BY <1>8, <1>9, <1>12

\* Zeros say nothing in front.
LEMMA ZeroFirst ==
    ASSUME NEW s \in Seq(Numerals)
    PROVE  /\ <<0>> \o s \in Seq(Numerals) /\ Len(<<0>> \o s) = Len(s) + 1
           /\ Worth(<<0>> \o s) = Worth(s)
<1>1. PICK z : z = <<0>> /\ z \in Seq(Numerals) /\ Len(z) = 1 /\ Append(<<>>, 0) = z
  <2>1. <<0>> \in Seq(Numerals) /\ Len(<<0>>) = 1 /\ Append(<<>>, 0) = <<0>>
    BY DEF Numerals
  <2> QED BY <2>1
<1> DEFINE X == {t \in Seq(Numerals) : Worth(z \o t) = Worth(t)}
<1>2. <<>> \in X
  <2>1. <<>> \in Seq(Numerals) /\ z \o <<>> = z /\ 0 \in Numerals
    BY <1>1, ConcatEmptySeq DEF Numerals
  <2>2. Worth(Append(<<>>, 0)) = 10 * Worth(<<>>) + 0
    BY <2>1, WorthAppend
  <2> QED BY <1>1, <2>1, <2>2, WorthEmpty
<1>3. ASSUME NEW t \in Seq(Numerals), NEW e \in Numerals, t \in X PROVE Append(t, e) \in X
  <2>1. PICK u \in Seq(Numerals) : u = z \o t
    BY <1>1, ConcatProperties
  <2>2. z \o Append(t, e) = Append(u, e) /\ Append(t, e) \in Seq(Numerals)
    BY <1>1, <2>1, ConcatAppend, AppendProperties
  <2>3. Worth(Append(u, e)) = 10 * Worth(u) + e /\ Worth(Append(t, e)) = 10 * Worth(t) + e
    BY WorthAppend
  <2>4. Worth(u) = Worth(t)
    BY <1>3, <2>1
  <2> QED BY <2>2, <2>3, <2>4
<1> HIDE DEF X
<1>4. s \in X
  BY <1>2, <1>3, SeqInduct
<1>5. z \o s \in Seq(Numerals) /\ Len(z \o s) = Len(s) + 1
  BY <1>1, ConcatProperties, LenProperties
<1> QED BY <1>1, <1>4, <1>5 DEF X

LEMMA AtSome ==
    ASSUME NEW S, NEW s \in Seq(S), NEW W, NEW k \in 1..Len(s), k \in W
    PROVE  At(s, W) # <<>>
<1> DEFINE X == {t \in Seq(S) : (\E i \in 1..Len(t) : i \in W) => At(t, W) # <<>>}
<1>1. <<>> \in X
  OBVIOUS
<1>2. ASSUME NEW t \in Seq(S), NEW e \in S, t \in X PROVE Append(t, e) \in X
  <2>1. Append(t, e) \in Seq(S) /\ Len(Append(t, e)) = Len(t) + 1 /\ Len(t) \in Nat
    BY AppendProperties, LenProperties
  <2>2. At(Append(t, e), W) = IF Len(t) + 1 \in W THEN Append(At(t, W), e) ELSE At(t, W)
    BY AtAppend
  <2>3. Append(At(t, W), e) # <<>>
    BY AtType, AppendProperties
  <2>4. \A i \in 1..(Len(t) + 1) : i # Len(t) + 1 => i \in 1..Len(t)
    BY <2>1
  <2> QED BY <1>2, <2>1, <2>2, <2>3, <2>4
<1> HIDE DEF X
<1>3. s \in X
  BY <1>1, <1>2, SeqInduct
<1> QED BY <1>3 DEF X

LEMMA AtNone ==
    ASSUME NEW S, NEW s \in Seq(S), NEW W, \A i \in 1..Len(s) : i \notin W
    PROVE  At(s, W) = <<>>
<1> DEFINE X == {t \in Seq(S) : (\A i \in 1..Len(t) : i \notin W) => At(t, W) = <<>>}
<1>1. <<>> \in X
  BY AtEmpty
<1>2. ASSUME NEW t \in Seq(S), NEW e \in S, t \in X PROVE Append(t, e) \in X
  <2>1. Append(t, e) \in Seq(S) /\ Len(Append(t, e)) = Len(t) + 1 /\ Len(t) \in Nat
    BY AppendProperties, LenProperties
  <2>2. At(Append(t, e), W) = IF Len(t) + 1 \in W THEN Append(At(t, W), e) ELSE At(t, W)
    BY AtAppend
  <2>3. Len(t) + 1 \in 1..(Len(t) + 1) /\ \A i \in 1..Len(t) : i \in 1..(Len(t) + 1)
    BY <2>1
  <2> QED BY <1>2, <2>1, <2>2, <2>3
<1> HIDE DEF X
<1>3. s \in X
  BY <1>1, <1>2, SeqInduct
<1> QED BY <1>3 DEF X

LEMMA AllZero ==
    ASSUME NEW s \in Seq(Numerals), \A i \in 1..Len(s) : s[i] = 0
    PROVE  Worth(s) = 0
<1> DEFINE X == {t \in Seq(Numerals) : (\A i \in 1..Len(t) : t[i] = 0) => Worth(t) = 0}
<1>1. <<>> \in X
  BY WorthEmpty
<1>2. ASSUME NEW t \in Seq(Numerals), NEW e \in Numerals, t \in X PROVE Append(t, e) \in X
  <2>1. /\ Append(t, e) \in Seq(Numerals) /\ Len(Append(t, e)) = Len(t) + 1 /\ Len(t) \in Nat
        /\ Append(t, e)[Len(t) + 1] = e /\ \A i \in 1..Len(t) : Append(t, e)[i] = t[i]
    BY AppendProperties, LenProperties
  <2>2. Worth(Append(t, e)) = 10 * Worth(t) + e
    BY WorthAppend
  <2>3. Len(t) + 1 \in 1..(Len(t) + 1) /\ \A i \in 1..Len(t) : i \in 1..(Len(t) + 1)
    BY <2>1
  <2>4. ASSUME \A i \in 1..(Len(t) + 1) : Append(t, e)[i] = 0 PROVE Worth(Append(t, e)) = 0
    <3>1. e = 0 /\ \A i \in 1..Len(t) : t[i] = 0
      BY <2>1, <2>3, <2>4
    <3>2. Worth(t) = 0
      BY <1>2, <3>1
    <3> QED BY <2>2, <3>1, <3>2
  <2> QED BY <2>1, <2>4
<1> HIDE DEF X
<1>3. s \in X
  BY <1>1, <1>2, SeqInduct
<1> QED BY <1>3 DEF X

Balanced(w, p, x, q) == w * p = x * q
LEMMA Scaled ==
    ASSUME NEW w \in Nat, NEW x \in Nat, NEW p \in Nat, NEW q \in Nat, NEW e \in Nat,
           Balanced(w, p, x, q)
    PROVE  /\ e = 0 \/ p = q => Balanced(10 * w + e, 10 * p, 10 * x + e, 10 * q)
           /\ e = 0 => Balanced(w, 10 * p, 10 * x + e, q)
<1>1. w * p = x * q
  BY DEF Balanced
<1>2. p = q => e * q = e * p
  OBVIOUS
<1>3. (10 * w + e) * (10 * p) = 100 * (w * p) + 10 * (e * p)
  OBVIOUS
<1>4. (10 * x + e) * (10 * q) = 100 * (x * q) + 10 * (e * q)
  OBVIOUS
<1>5. w * (10 * p) = 10 * (w * p) /\ (10 * x) * q = 10 * (x * q)
  OBVIOUS
<1>6. e = 0 \/ p = q => (10 * w + e) * (10 * p) = (10 * x + e) * (10 * q)
  BY <1>1, <1>2, <1>3, <1>4
<1>7. e = 0 => w * (10 * p) = (10 * x + e) * q
  BY <1>1, <1>5
<1> QED BY <1>6, <1>7, Zenon DEF Balanced

\* Dropping zeros in front of the first l digits and behind the others leaves the
\* number, at the scale of what is left.
Idle(s, W, l) ==
    \A i \in 1..Len(s) :
        i \notin W => \A j \in (IF i <= l THEN 1..i ELSE i..Len(s)) : s[j] = 0
Past(s, l) == IF Len(s) > l THEN Len(s) - l ELSE 0
LeftOf(W, l) == {i \in W : i <= l}
RightOf(W, l) == {i \in W : i > l}
Weighs(s, W, l) ==
    LET a == At(s, LeftOf(W, l))
        b == At(s, RightOf(W, l))
    IN /\ Worth(a \o b) * TenTo[Past(s, l)] = Worth(s) * TenTo[Len(b)]
       /\ (\A i \in 1..Len(s) : i > l => i \in W) => Len(b) = Past(s, l)
LEMMA IdleDropped ==
    ASSUME NEW s \in Seq(Numerals), NEW W \in SUBSET Nat, NEW l \in Nat, Idle(s, W, l)
    PROVE  Weighs(s, W, l)
<1> DEFINE X == {t \in Seq(Numerals) : Idle(t, W, l) => Weighs(t, W, l)}
<1>1. <<>> \in X
  <2>1. <<>> \in Seq(Numerals) /\ Len(<<>>) = 0 /\ <<>> \o <<>> = <<>>
    OBVIOUS
  <2>2. Past(<<>>, l) = 0
    BY <2>1 DEF Past
  <2> QED BY <2>1, <2>2, AtEmpty, WorthEmpty, Zenon DEF Weighs
<1>2. ASSUME NEW t \in Seq(Numerals), NEW e \in Numerals, t \in X PROVE Append(t, e) \in X
  <2>0. PICK n : n \in Nat /\ n = Len(t)
    BY LenProperties, Zenon
  <2>1. PICK u \in Seq(Numerals) : u = Append(t, e)
    BY AppendProperties
  <2>2. Len(u) = n + 1 /\ u[n + 1] = e /\ \A i \in 1..n : u[i] = t[i]
    BY <2>0, <2>1, AppendProperties
  <2> SUFFICES ASSUME Idle(u, W, l) PROVE Weighs(u, W, l)
    BY <2>1
  <2>3. \A i \in 1..(n + 1) :
          i \notin W => \A j \in (IF i <= l THEN 1..i ELSE i..(n + 1)) : u[j] = 0
    BY <2>2 DEF Idle
  <2>4. Idle(t, W, l)
    <3> SUFFICES ASSUME NEW i \in 1..n, i \notin W,
                        NEW j \in (IF i <= l THEN 1..i ELSE i..n)
                 PROVE  t[j] = 0
      BY <2>0 DEF Idle
    <3>1. i \in 1..(n + 1) /\ j \in 1..n /\ j \in (IF i <= l THEN 1..i ELSE i..(n + 1))
      BY <2>0
    <3> QED BY <2>2, <2>3, <3>1
  <2>5. PICK a \in Seq(Numerals), b \in Seq(Numerals) :
          a = At(t, LeftOf(W, l)) /\ b = At(t, RightOf(W, l))
    BY AtType
  <2>6. PICK w \in Nat, x \in Nat, k \in Nat :
          w = Worth(a \o b) /\ x = Worth(t) /\ k = Len(b)
    <3>1. a \o b \in Seq(Numerals)
      BY ConcatProperties
    <3> QED BY <3>1, WorthType, LenProperties
  <2>7. PICK m \in Nat : m = Past(t, l)
    <3>1. Past(t, l) = IF n > l THEN n - l ELSE 0
      BY <2>0 DEF Past
    <3>2. (IF n > l THEN n - l ELSE 0) \in Nat
      BY <2>0
    <3> QED BY <3>1, <3>2
  <2>8. PICK p \in Nat, q \in Nat : p = TenTo[m] /\ q = TenTo[k]
    BY TenToIs
  <2>9. /\ w * p = x * q
        /\ (\A i \in 1..n : i > l => i \in W) => k = m
    BY <1>2, <2>0, <2>4, <2>5, <2>6, <2>7, <2>8, Zenon DEF Weighs
  <2>10. Worth(u) = 10 * x + e
    BY <2>1, <2>6, WorthAppend
  <2>11. /\ n + 1 \in LeftOf(W, l) <=> n + 1 \in W /\ n + 1 <= l
         /\ n + 1 \in RightOf(W, l) <=> n + 1 \in W /\ n + 1 > l
    BY DEF LeftOf, RightOf
  <2>12. /\ At(u, LeftOf(W, l)) = IF n + 1 \in LeftOf(W, l) THEN Append(a, e) ELSE a
         /\ At(u, RightOf(W, l)) = IF n + 1 \in RightOf(W, l) THEN Append(b, e) ELSE b
    BY <2>0, <2>1, <2>5, AtAppend
  <2>13. e \in Nat
    BY DEF Numerals
  <2>14. CASE n + 1 <= l
    <3>1. m = 0 /\ Past(u, l) = 0
      BY <2>0, <2>2, <2>7, <2>14 DEF Past
    <3>2. b = <<>>
      <4>1. \A i \in 1..Len(t) : i \notin RightOf(W, l)
        BY <2>0, <2>14 DEF RightOf
      <4> QED BY <2>5, <4>1, AtNone
    <3>3. k = 0 /\ p = 1 /\ q = 1
      BY <2>6, <2>8, <3>1, <3>2, TenToIs
    <3>4. a \o b = a /\ Append(a, e) \o b = Append(a, e) /\ Worth(a) = x
      <4>1. a \o <<>> = a /\ Append(a, e) \o <<>> = Append(a, e)
        BY ConcatEmptySeq, AppendProperties
      <4> QED BY <2>6, <2>9, <3>2, <3>3, <4>1
    <3>5. At(u, RightOf(W, l)) = b
      BY <2>11, <2>12, <2>14, <2>0
    <3>6. Worth(At(u, LeftOf(W, l)) \o b) = Worth(u)
      <4>1. CASE n + 1 \in W
        <5>1. At(u, LeftOf(W, l)) = Append(a, e)
          BY <2>11, <2>12, <2>14, <4>1
        <5>2. Worth(Append(a, e)) = 10 * Worth(a) + e
          BY WorthAppend
        <5> QED BY <2>10, <3>4, <5>1, <5>2
      <4>2. CASE n + 1 \notin W
        <5>1. At(u, LeftOf(W, l)) = a
          BY <2>11, <2>12, <4>2
        <5>2. \A j \in 1..(n + 1) : u[j] = 0
          <6>1. n + 1 \in 1..(n + 1)
            BY <2>0
          <6> QED BY <2>3, <2>14, <4>2, <6>1
        <5>3. e = 0 /\ x = 0
          <6>1. n + 1 \in 1..(n + 1) /\ \A j \in 1..n : j \in 1..(n + 1)
            BY <2>0
          <6>2. e = 0 /\ \A j \in 1..Len(t) : t[j] = 0
            BY <2>0, <2>2, <5>2, <6>1
          <6>3. Worth(t) = 0
            BY <6>2, AllZero
          <6> QED BY <2>6, <6>2, <6>3
        <5>4. Worth(u) = x
          BY <2>10, <5>3
        <5> QED BY <3>4, <5>1, <5>4, Zenon
      <4> QED BY <4>1, <4>2
    <3>7. PICK y \in Nat : y = Worth(u) /\ y * 1 = y * 1
      BY WorthType
    <3>8. TenTo[Past(u, l)] = 1 /\ TenTo[Len(b)] = 1 /\ Len(b) = Past(u, l)
      BY <2>6, <3>1, <3>3, TenToIs
    <3> QED BY <3>5, <3>6, <3>7, <3>8, Zenon DEF Weighs
  <2>15. CASE n + 1 > l
    <3>1. Past(u, l) = m + 1 /\ m = n - l
      BY <2>0, <2>2, <2>7, <2>15 DEF Past
    <3>2. TenTo[m + 1] = 10 * p /\ TenTo[k + 1] = 10 * q
      BY <2>8, TenToIs
    <3>3. At(u, LeftOf(W, l)) = a
      BY <2>0, <2>11, <2>12, <2>15
    <3>4. CASE n + 1 \in W
      <4>1. PICK c \in Seq(Numerals) : c = Append(b, e) /\ c = At(u, RightOf(W, l))
        BY <2>11, <2>12, <2>15, <3>4, AppendProperties
      <4>2. Len(c) = k + 1
        <5>1. Len(Append(b, e)) = Len(b) + 1
          BY AppendProperties
        <5> QED BY <2>6, <4>1, <5>1, Zenon
      <4>3. Worth(a \o c) = 10 * w + e
        <5>1. PICK d \in Seq(Numerals) : d = a \o b
          BY ConcatProperties
        <5>2. a \o c = Append(d, e)
          <6>1. a \o Append(b, e) = Append(a \o b, e)
            BY ConcatAppend
          <6> QED BY <4>1, <5>1, <6>1, Zenon
        <5>3. Worth(Append(d, e)) = 10 * Worth(d) + e
          BY WorthAppend
        <5> QED BY <2>6, <5>1, <5>2, <5>3
      <4>4. e = 0 \/ k = m
        <5> SUFFICES ASSUME e # 0 PROVE k = m
          OBVIOUS
        <5>1. \A i \in 1..n : i > l => i \in W
          <6> SUFFICES ASSUME NEW i \in 1..n, i > l, i \notin W PROVE FALSE
            OBVIOUS
          <6>1. i \in 1..(n + 1) /\ ~(i <= l) /\ n + 1 \in i..(n + 1)
            BY <2>0
          <6>2. u[n + 1] = 0
            BY <2>3, <6>1
          <6> QED BY <2>2, <6>2
        <5> QED BY <2>9, <5>1
      <4>5. e = 0 \/ p = q
        BY <2>8, <4>4
      <4>6. (10 * w + e) * (10 * p) = (10 * x + e) * (10 * q)
        <5>1. Balanced(w, p, x, q)
          BY <2>9, Zenon DEF Balanced
        <5>2. Balanced(10 * w + e, 10 * p, 10 * x + e, 10 * q)
          BY <2>13, <4>5, <5>1, Scaled, Zenon
        <5> QED BY <5>2, Zenon DEF Balanced
      <4>7. (\A i \in 1..(n + 1) : i > l => i \in W) => k + 1 = m + 1
        <5>1. \A i \in 1..n : i \in 1..(n + 1)
          BY <2>0
        <5> QED BY <2>9, <5>1
      <4>8. Worth(a \o c) * TenTo[Past(u, l)] = Worth(u) * TenTo[Len(c)]
        BY <2>10, <3>1, <3>2, <4>2, <4>3, <4>6, Zenon
      <4>9. (\A i \in 1..Len(u) : i > l => i \in W) => Len(c) = Past(u, l)
        BY <2>2, <3>1, <4>2, <4>7, Zenon
      <4> QED BY <3>3, <4>1, <4>8, <4>9, Zenon DEF Weighs
    <3>5. CASE n + 1 \notin W
      <4>1. n + 1 \in 1..(n + 1) /\ n + 1 \in (n + 1)..(n + 1)
        BY <2>0
      <4>2. e = 0
        <5>1. ~(n + 1 <= l)
          BY <2>0, <2>15
        <5> QED BY <2>2, <2>3, <3>5, <4>1, <5>1
      <4>3. At(u, RightOf(W, l)) = b
        BY <2>11, <2>12, <3>5
      <4>4. w * (10 * p) = (10 * x + e) * q
        <5>1. Balanced(w, p, x, q)
          BY <2>9, Zenon DEF Balanced
        <5>2. Balanced(w, 10 * p, 10 * x + e, q)
          BY <2>13, <4>2, <5>1, Scaled, Zenon
        <5> QED BY <5>2, Zenon DEF Balanced
      <4>5. Worth(a \o b) * TenTo[Past(u, l)] = Worth(u) * TenTo[Len(b)]
        BY <2>6, <2>8, <2>10, <3>1, <3>2, <4>4, Zenon
      <4>6. ~(\A i \in 1..Len(u) : i > l => i \in W)
        BY <2>2, <2>15, <3>5, <4>1
      <4> QED BY <3>3, <4>3, <4>5, <4>6, Zenon DEF Weighs
    <3> QED BY <3>4, <3>5
  <2>16. n + 1 <= l \/ n + 1 > l
    BY <2>0
  <2> QED BY <2>14, <2>15, <2>16
<1> HIDE DEF X
<1>3. s \in X
  BY <1>1, <1>2, SeqInduct
<1> QED BY <1>3 DEF X

\* What strconv prints: a number of at least one digit, the one it is given.
IsLiteral(v, d, k) == d \in Seq(Numerals) /\ k \in 0..Len(d) /\ v = Number(FALSE, d, k)
LEMMA PrintedIs ==
    ASSUME NEW v, NEW d, NEW k, IsLiteral(v, d, k)
    PROVE  /\ FormatFloat(v) \in Numbers /\ FormatFloat(v) # Missing
           /\ SameNumber(NumberOf(FormatFloat(v)), v)
<1>1. PICK L : L \in Nat /\ L = Len(d) /\ d \in Seq(Numerals) /\ k \in 0..L
               /\ v.digits = d /\ v.scale = k /\ v.negative = FALSE /\ Magnitude(v) = Worth(d)
  <2>1. d \in Seq(Numerals) /\ k \in 0..Len(d) /\ v = Number(FALSE, d, k)
    BY DEF IsLiteral
  <2>2. v.digits = d /\ v.scale = k /\ v.negative = FALSE
    BY <2>1 DEF Number
  <2>3. Magnitude(v) = Worth(d)
    BY <2>1, WorthIs, Zenon
  <2>4. Len(d) \in Nat
    BY <2>1, LenProperties
  <2> QED BY <2>1, <2>2, <2>3, <2>4, Zenon
<1>2. PICK n \in Nat : n = L - k /\ n <= L
  <2>1. L - k \in Nat /\ L - k <= L
    BY <1>1
  <2> QED BY <2>1
<1> DEFINE whole == {i \in 1..n : \E j \in 1..i : d[j] # 0}
           part == {i \in 1..L : i > n /\ \E j \in i..L : d[j] # 0}
           W == whole \cup part
<1>3. DOMAIN d = 1..L
  BY <1>1
<1>4. FormatFloat(v) = [whole |-> IF whole = {} THEN <<0>> ELSE At(d, whole), part |-> At(d, part)]
  BY <1>1, <1>2, <1>3, Zenon DEF FormatFloat
<1>5. whole = LeftOf(W, n) /\ part = RightOf(W, n) /\ W \in SUBSET Nat
  BY <1>1, <1>2 DEF LeftOf, RightOf
<1>6. Idle(d, W, n)
  <2> SUFFICES ASSUME NEW i \in 1..L, i \notin W, NEW j \in (IF i <= n THEN 1..i ELSE i..L)
               PROVE  d[j] = 0
    BY <1>1 DEF Idle
  <2>1. CASE i <= n
    <3>1. i \in 1..n /\ j \in 1..i
      BY <1>1, <1>2, <2>1
    <3> QED BY <3>1
  <2>2. CASE ~(i <= n)
    <3>1. i > n /\ j \in i..L
      BY <1>1, <1>2, <2>2
    <3> QED BY <3>1
  <2> QED BY <2>1, <2>2
<1>7. whole # {} => \E i \in 1..L : i \in whole
  BY <1>1, <1>2
<1> HIDE DEF whole, part, W
<1>8. PICK a \in Seq(Numerals), b \in Seq(Numerals) : a = At(d, whole) /\ b = At(d, part)
  BY <1>1, AtType
<1>9. Worth(a \o b) * TenTo[k] = Worth(d) * TenTo[Len(b)]
  <2>1. Weighs(d, W, n)
    BY <1>1, <1>5, <1>6, IdleDropped
  <2>2. Past(d, n) = k
    BY <1>1, <1>2 DEF Past
  <2> QED BY <1>5, <1>8, <2>1, <2>2, Zenon DEF Weighs
<1>10. PICK w \in Seq(Numerals) : /\ w = (IF whole = {} THEN <<0>> ELSE a)
                                  /\ w # <<>> /\ Worth(w \o b) = Worth(a \o b)
  <2>1. CASE whole = {}
    <3>1. a = <<>>
      BY <1>1, <1>8, <2>1, AtNone
    <3>2. <<>> \o b = b
      BY ConcatEmptySeq
    <3>3. Worth(<<0>> \o b) = Worth(b)
      BY ZeroFirst
    <3>4. <<0>> \in Seq(Numerals) /\ <<0>> # <<>>
      BY DEF Numerals
    <3>5. Worth(<<0>> \o b) = Worth(a \o b)
      BY <3>1, <3>2, <3>3, Zenon
    <3> QED BY <2>1, <3>4, <3>5, Zenon
  <2>2. CASE whole # {}
    <3>1. PICK i \in 1..Len(d) : i \in whole
      BY <1>1, <1>7, <2>2
    <3>2. a # <<>>
      BY <1>1, <1>8, <3>1, AtSome
    <3> QED BY <2>2, <3>2, Zenon
  <2> QED BY <2>1, <2>2
<1>11. PICK f : f = FormatFloat(v) /\ f = [whole |-> w, part |-> b]
  BY <1>4, <1>8, <1>10, Zenon
<1>12. f.whole = w /\ f.part = b
  BY <1>11
<1>13. f \in Numbers /\ f # Missing
  <2>1. f \in [whole: Seq(Numerals), part: Seq(Numerals)]
    BY <1>11
  <2>2. f.whole # <<>>
    BY <1>10, <1>12
  <2>3. Missing.whole = <<>>
    BY DEF Missing
  <2> QED BY <2>1, <2>2, <2>3 DEF Numbers, Numerals
<1>14. SameNumber(NumberOf(f), v)
  <2>1. NumberOf(f) = Number(FALSE, w \o b, Len(b))
    BY <1>12, Zenon DEF NumberOf
  <2>2. /\ Magnitude(NumberOf(f)) = Worth(w \o b)
        /\ NumberOf(f).negative = FALSE /\ NumberOf(f).scale = Len(b)
    <3>1. PICK c, m : c = w \o b /\ m = Len(b)
      OBVIOUS
    <3>2. Magnitude(Number(FALSE, c, m)) = Worth(c)
      BY WorthIs, Zenon
    <3>3. Number(FALSE, c, m).negative = FALSE /\ Number(FALSE, c, m).scale = m
      BY DEF Number
    <3> QED BY <2>1, <3>1, <3>2, <3>3, Zenon
  <2>3. Signed(NumberOf(f)) = Worth(w \o b) /\ Signed(v) = Worth(d)
    BY <1>1, <2>2, Zenon DEF Signed
  <2>4. Worth(w \o b) * TenTo[k] = Worth(d) * TenTo[Len(b)]
    BY <1>9, <1>10, Zenon
  <2> QED BY <1>1, <2>2, <2>3, <2>4, Zenon DEF SameNumber
<1> QED BY <1>11, <1>13, <1>14

----------------------------------------------------------------------------
(* The ink of what is printed.                                               *)

\* A number behind its point, from the ink of its two parts.
Pointed(t, b, p, q) == t \o (IF b = <<>> THEN <<>> ELSE <<p>> \o q)
LEMMA PointInk ==
    ASSUME NEW n \in Numbers, n # Missing, NEW point \in Points,
           NEW t \in Seq(Runes), Ink(t) = Image(InkDigit, n.whole),
           NEW q \in Seq(Runes), Ink(q) = Image(InkDigit, n.part)
    PROVE  /\ Pointed(t, n.part, point, q) \in Seq(Runes)
           /\ Ink(Pointed(t, n.part, point, q)) = NumberInk(n)
<1>1. PICK b \in Seq(Numerals) : b = n.part
  BY NumberType DEF Numerals
<1>2. n.whole \in Seq(Numerals)
  BY NumberType DEF Numerals
<1>3. PICK u \in Seq(Runes), v \in Seq(Runes) : u = Image(InkDigit, n.whole) /\ v = Image(InkDigit, b)
  BY <1>2, WrittenDigits DEF Numerals
<1>4. CASE b = <<>>
  <2>1. Pointed(t, b, point, q) = t \o <<>>
    BY <1>4, Zenon DEF Pointed
  <2>2. t \o <<>> = t
    BY ConcatEmptySeq
  <2>3. NumberInk(n) = u
    BY <1>1, <1>3, <1>4, Zenon DEF NumberInk
  <2> QED BY <1>1, <1>3, <2>1, <2>2, <2>3, Zenon
<1>5. CASE b # <<>>
  <2>1. PICK p \in Seq(Runes) : p = <<point>> /\ Ink(p) = <<Dot>>
    BY MarkedPoint, InkOne
  <2>2. p \o q \in Seq(Runes) /\ Ink(p \o q) = Ink(p) \o Ink(q)
    BY InkConcat, ConcatRules, Zenon
  <2>3. PICK w \in Seq(Runes) : w = p \o q /\ Ink(w) = <<Dot>> \o v
    BY <1>1, <1>3, <2>1, <2>2, Zenon
  <2>4. t \o w \in Seq(Runes) /\ Ink(t \o w) = Ink(t) \o Ink(w)
    BY InkConcat, ConcatRules, Zenon
  <2>5. u \o (<<Dot>> \o v) = (u \o <<Dot>>) \o v
    <3>1. PICK d : d = <<Dot>>
      OBVIOUS
    <3>2. d \in Seq(Runes)
      BY <3>1, MarksAre
    <3>3. PICK x, y : Joined(x, u, d) /\ Joined(y, d, v)
      BY Zenon DEF Joined
    <3>4. \A z : Joined(z, u, y) <=> Joined(z, x, v)
      BY <3>2, <3>3, Regroup
    <3> QED BY <3>1, <3>3, <3>4, Zenon DEF Joined
  <2>6. NumberInk(n) = (u \o <<Dot>>) \o v
    BY <1>1, <1>3, <1>5, Zenon DEF NumberInk
  <2>7. Pointed(t, b, point, q) = t \o w
    BY <1>5, <2>1, <2>3, Zenon DEF Pointed
  <2> QED BY <1>1, <1>3, <2>3, <2>4, <2>5, <2>6, <2>7, Zenon
<1> QED BY <1>4, <1>5

LEMMA DigitsStill == \A r \in Runes : r \in AsciiDigits => r \in Marked /\ AsciiOf[r] = r
<1> TAKE r \in Runes
<1>1. AsciiOf[r] = Ascii(r)
  BY AsciiIs
<1>2. r \in AsciiDigits => Ascii(r) = r
  BY DEF Ascii, AsciiDigits, PersianDigits, ArabicDigits, ArabicDecimal, Dot
<1> QED BY <1>1, <1>2, DigitsMarked, Zenon

\* ASCII digits are all ink.
LEMMA AsciiInk ==
    ASSUME NEW a \in Seq(Numerals), NEW w, w = Image(InkDigit, a)
    PROVE  w \in Seq(Runes) /\ Ink(w) = w
<1>1. PICK n : n \in Nat /\ n = Len(a)
  BY LenProperties, Zenon
<1>2. w \in Seq(Runes) /\ Len(w) = n /\ \A i \in 1..n : w[i] \in AsciiDigits
  BY <1>1, WrittenDigits DEF Numerals
<1>3. \A r \in Runes : r \in AsciiDigits => r \in Marked /\ AsciiOf[r] = r
  BY DigitsStill
<1>6. \A i \in 1..n : w[i] \in Runes
  BY <1>2, ElementOfSeq
<1>4. Only(w, Marked) = w
  BY <1>2, <1>3, <1>6, OnlyAll
<1>5. Image(AsciiOf, w) = w
  <2>1. w = [i \in 1..n |-> w[i]]
    BY <1>2
  <2>2. \A i \in 1..n : AsciiOf[w[i]] = w[i]
    BY <1>2, <1>3, <1>6
  <2> QED BY <1>2, <2>1, <2>2, Zenon DEF Image
<1> QED BY <1>2, <1>4, <1>5, Zenon DEF Ink

\* group writes a number the way the site does: with its ink.
LEMMA ThousandsInk ==
    ASSUME NEW v, v.negative = FALSE, NEW n \in Numbers, n = FormatFloat(v), n # Missing
    PROVE  Thousands(v) \in Seq(Runes) /\ Ink(Thousands(v)) = NumberInk(n)
<1>1. PICK a \in Seq(Numerals), b \in Seq(Numerals) : a = n.whole /\ b = n.part
  BY NumberType DEF Numerals
<1>2. /\ 48 \in Zeros /\ Dot \in Points
      /\ \E c : c = <<Comma>> /\ c \in Seq(Runes) /\ Ink(c) = <<>>
  <2>1. 48 \in Zeros /\ Dot \in Points
    BY DEF Zeros, Points
  <2>2. Comma \in Runes /\ Comma \notin Marked
    BY UnmarkedRunes
  <2>3. PICK c \in Seq(Runes) : c = <<Comma>> /\ Len(c) = 1 /\ c[1] = Comma
    <3>1. <<Comma>> \in Seq(Runes) /\ Len(<<Comma>>) = 1 /\ <<Comma>>[1] = Comma
      BY <2>2
    <3> QED BY <3>1, Zenon
  <2>4. \A i \in 1..Len(c) : c[i] \notin Marked
    BY <2>2, <2>3
  <2>5. Ink(c) = <<>>
    BY <2>4, InkNone
  <2> QED BY <2>1, <2>3, <2>5, Zenon
<1>3. PICK t \in Seq(Runes) : /\ t = FlattenSeq(Lettered(48, <<Comma>>, a, Grouped3(a)))
                              /\ Ink(t) = Image(InkDigit, a)
  <2>1. PICK c \in Seq(Runes) : c = <<Comma>> /\ Ink(c) = <<>>
    BY <1>2
  <2>0. PICK z \in Zeros : z = 48
    BY <1>2
  <2>2. PICK W : W = Grouped3(a)
    OBVIOUS
  <2>4. PICK ss : ss = Lettered(z, c, a, W)
    OBVIOUS
  <2>3. FlattenSeq(ss) \in Seq(Runes) /\ Ink(FlattenSeq(ss)) = Image(InkDigit, a)
    <3>1. Ink(c) = <<>>
      BY <2>1
    <3> QED BY <2>4, <3>1, LetteredInk
  <2> QED BY <2>0, <2>1, <2>2, <2>3, <2>4, Zenon
<1>4. PICK q \in Seq(Runes) : q = Image(InkDigit, b) /\ Ink(q) = Image(InkDigit, b)
  BY AsciiInk
<1> DEFINE Separator(i) == IF i > 1 /\ (Len(a) - i + 1) % 3 = 0 THEN <<Comma>> ELSE <<>>
           whole == [i \in DOMAIN a |-> Separator(i) \o <<48 + a[i]>>]
           part == [i \in DOMAIN b |-> 48 + b[i]]
<1>5. Thousands(v) = (<<>> \o FlattenSeq(whole)) \o (IF part = <<>> THEN <<>> ELSE <<Dot>> \o part)
  BY <1>1, Zenon DEF Thousands
<1>6. whole = Lettered(48, <<Comma>>, a, Grouped3(a))
  <2>1. \A i \in 1..Len(a) : i \in Grouped3(a) <=> i > 1 /\ (Len(a) - i + 1) % 3 = 0
    BY Zenon DEF Grouped3
  <2>2. \A i \in 1..Len(a) :
          Separator(i) \o <<48 + a[i]>> =
          (IF i \in Grouped3(a) THEN <<Comma>> ELSE <<>>) \o <<NumeralRune(48, a[i])>>
    BY <2>1, Zenon DEF NumeralRune
  <2>3. DOMAIN a = 1..Len(a)
    OBVIOUS
  <2> HIDE DEF Separator
  <2> QED BY <2>2, <2>3, Zenon DEF Lettered
<1>7. part = q
  <2>1. DOMAIN b = 1..Len(b) /\ \A i \in 1..Len(b) : b[i] \in 0..9
    BY ElementOfSeq DEF Numerals
  <2>2. \A i \in 1..Len(b) : InkDigit[b[i]] = 48 + b[i]
    BY <2>1 DEF InkDigit
  <2> QED BY <1>4, <2>1, <2>2, Zenon DEF Image
<1>8. part = <<>> <=> b = <<>>
  <2>1. Len(q) = Len(b)
    BY <1>4, ImageLen
  <2>2. (q = <<>> <=> Len(q) = 0) /\ (b = <<>> <=> Len(b) = 0)
    BY EmptySeq
  <2> QED BY <1>7, <2>1, <2>2
<1> HIDE DEF whole, part, Separator
<1>9. <<>> \o t = t
  BY ConcatEmptySeq
<1>10. Thousands(v) = Pointed(t, b, Dot, q)
  BY <1>3, <1>5, <1>6, <1>7, <1>8, <1>9, Zenon DEF Pointed
<1>11. /\ Pointed(t, n.part, Dot, q) \in Seq(Runes)
       /\ Ink(Pointed(t, n.part, Dot, q)) = NumberInk(n)
  BY <1>1, <1>2, <1>3, <1>4, PointInk
<1> QED BY <1>1, <1>10, <1>11, Zenon

\* What is printed reads as the number it was printed for.
LEMMA ThousandsRead ==
    ASSUME NEW v, NEW d, NEW k, IsLiteral(v, d, k)
    PROVE  SameNumber(Value(Thousands(v)), v)
<1>1. PICK n \in Numbers : n = FormatFloat(v) /\ n # Missing /\ SameNumber(NumberOf(n), v)
  BY PrintedIs
<1>2. v.negative = FALSE
  BY WorthIs DEF IsLiteral
<1>3. PICK t \in Seq(Runes) : t = Thousands(v) /\ Ink(t) = NumberInk(n)
  BY <1>1, <1>2, ThousandsInk
<1>4. Value(t) = NumberOf(n)
  BY <1>3, ValueOf
<1> QED BY <1>1, <1>3, <1>4, Zenon

\* What is printed for the number of an amount, in each unit.
Meant(unit, n) ==
    IF unit = "toman" THEN Number(FALSE, NumberOf(n).digits, NumberOf(n).scale + 1)
    ELSE NumberOf(n)
Printed(shown, unit, n) ==
    IF n = Missing THEN shown = Dash ELSE SameNumber(Value(shown), Meant(unit, n))

\* The literal of a number that is there.
LEMMA NumberLiteral ==
    ASSUME NEW n \in Numbers, n # Missing
    PROVE  \E d, k : /\ IsLiteral(NumberOf(n), d, k)
                     /\ NumberOf(n).digits = d /\ NumberOf(n).scale = k
<1>1. PICK a \in Seq(Numerals), b \in Seq(Numerals) : a = n.whole /\ b = n.part
  BY NumberType DEF Numerals
<1>2. PICK d, k : d = a \o b /\ k = Len(b)
  OBVIOUS
<1>3. d \in Seq(Numerals) /\ k \in 0..Len(d)
  <2>1. a \o b \in Seq(Numerals) /\ Len(a \o b) = Len(a) + Len(b)
    BY ConcatRules
  <2>2. Len(a) \in Nat /\ Len(b) \in Nat
    BY LenProperties
  <2> QED BY <1>2, <2>1, <2>2
<1>4. NumberOf(n) = Number(FALSE, d, k)
  BY <1>1, <1>2, Zenon DEF NumberOf
<1>5. Number(FALSE, d, k).digits = d /\ Number(FALSE, d, k).scale = k
  BY DEF Number
<1> QED BY <1>3, <1>4, <1>5, Zenon DEF IsLiteral

\* A tenth of it.
LEMMA TenthRead ==
    ASSUME NEW v, NEW d, NEW k, IsLiteral(v, d, k)
    PROVE  SameNumber(Value(Thousands(Toman(v))), Number(FALSE, d, k + 1))
<1>1. d \in Seq(Numerals) /\ k \in 0..Len(d) /\ v = Number(FALSE, d, k)
  BY DEF IsLiteral
<1>2. PICK z \in Seq(Numerals) : z = <<0>> \o d /\ Len(z) = Len(d) + 1 /\ Worth(z) = Worth(d)
  BY <1>1, ZeroFirst
<1>3. PICK w : w = Number(FALSE, z, k + 1)
  OBVIOUS
<1>4. Toman(v) = w
  <2>1. v.negative = FALSE /\ v.digits = d /\ v.scale = k
    BY <1>1 DEF Number
  <2> QED BY <1>2, <1>3, <2>1, Zenon DEF Toman
<1>5. IsLiteral(w, z, k + 1)
  <2>1. Len(d) \in Nat
    BY <1>1, LenProperties
  <2>2. k + 1 \in 0..Len(z)
    BY <1>1, <1>2, <2>1
  <2> QED BY <1>2, <1>3, <2>2, Zenon DEF IsLiteral
<1>6. SameNumber(Value(Thousands(w)), w)
  BY <1>5, ThousandsRead
<1>7. PICK u : u = Number(FALSE, d, k + 1)
  OBVIOUS
<1>8. w.scale = u.scale /\ Signed(w) = Signed(u)
  <2>1. Magnitude(w) = Worth(z) /\ Magnitude(u) = Worth(d)
    BY <1>3, <1>7, WorthIs
  <2>2. w.scale = k + 1 /\ u.scale = k + 1 /\ w.negative = u.negative
    BY <1>3, <1>7 DEF Number
  <2> QED BY <1>2, <2>1, <2>2, Zenon DEF Signed
<1>9. SameNumber(Value(Thousands(w)), u)
  BY <1>6, <1>8, Zenon DEF SameNumber
<1> QED BY <1>4, <1>7, <1>9, Zenon

\* An amount is printed as the number it was read as.
LEMMA RenderShows ==
    ASSUME NEW n \in Numbers, NEW amount, Exactly(amount, n), NEW unit \in Units
    PROVE  Printed(Render(unit, amount), unit, n)
<1>1. CASE n = Missing
  <2>1. amount = NoAmount
    BY <1>1, Zenon DEF Exactly
  <2>2. Render(unit, amount) = Dash
    BY <2>1 DEF Render
  <2> QED BY <1>1, <2>2, Zenon DEF Printed
<1>2. CASE n # Missing
  <2>1. amount # NoAmount /\ amount.value = NumberOf(n) /\ Value(amount.text) = NumberOf(n)
    BY <1>2, Zenon DEF Exactly
  <2>2. PICK d, k : /\ IsLiteral(NumberOf(n), d, k)
                    /\ NumberOf(n).digits = d /\ NumberOf(n).scale = k
    BY <1>2, NumberLiteral
  <2>3. PICK v : v = NumberOf(n)
    OBVIOUS
  <2>4. CASE unit = "raw"
    <3>1. Render(unit, amount) = amount.text /\ unit # "toman"
      BY <2>1, <2>4 DEF Render
    <3>2. Meant(unit, n) = NumberOf(n)
      BY <3>1, Zenon DEF Meant
    <3>3. SameNumber(v, v)
      BY Zenon DEF SameNumber
    <3> QED BY <1>2, <2>1, <2>3, <3>1, <3>2, <3>3, Zenon DEF Printed
  <2>5. CASE unit = "rial"
    <3>1. Render(unit, amount) = Thousands(amount.value) /\ unit # "toman"
      BY <2>1, <2>5 DEF Render
    <3>2. Meant(unit, n) = NumberOf(n)
      BY <3>1, Zenon DEF Meant
    <3>3. IsLiteral(v, d, k)
      BY <2>2, <2>3, Zenon
    <3>4. SameNumber(Value(Thousands(v)), v)
      BY <3>3, ThousandsRead
    <3> QED BY <1>2, <2>1, <2>3, <3>1, <3>2, <3>4, Zenon DEF Printed
  <2>6. CASE unit = "toman"
    <3>1. Render(unit, amount) = Thousands(Toman(amount.value))
      BY <2>1, <2>6 DEF Render
    <3>2. Meant(unit, n) = Number(FALSE, d, k + 1)
      BY <2>2, <2>6, Zenon DEF Meant
    <3>3. IsLiteral(v, d, k)
      BY <2>2, <2>3, Zenon
    <3>4. SameNumber(Value(Thousands(Toman(v))), Number(FALSE, d, k + 1))
      BY <3>3, TenthRead
    <3> QED BY <1>2, <2>1, <2>3, <3>1, <3>2, <3>4, Zenon DEF Printed
  <2> QED BY <2>4, <2>5, <2>6 DEF Units
<1> QED BY <1>1, <1>2

\* The rows of tgju get are those of the listings asked for, in order.
LEMMA GetAnswer ==
    ASSUME ReadInv, pc = "answered", request.kind = "get",
           NEW i \in DOMAIN All(answer.groups)
    PROVE  \E e \in Entries, style \in Styles :
             /\ style = published.style /\ e = Select(Listed, Wanted)[i]
             /\ e.instrument \in Instruments
             /\ All(answer.groups)[i] =
                  Row(ItemFrom(e.caption, ReadRow(RowOf(e.instrument, style), Layout(style))),
                      request.unit)
<1>1. published \in Publications /\ result = Outcome /\ answer = Reply
  BY DEF ReadInv
<1>2. PICK style \in Styles : style = published.style
  BY <1>1, PublicationsAssumption
<1>3. PICK keys : keys = SplitKeys(request.keys)
  OBVIOUS
<1>4. \A status : answer # Refused(status)
  <2> SUFFICES ASSUME NEW status, answer = Refused(status) PROVE FALSE
    OBVIOUS
  <2>1. All(answer.groups) = <<>>
    BY AllOfNone DEF Refused
  <2> QED BY <2>1
<1>5. result.kind = "snapshot"
  <2> SUFFICES ASSUME result.kind # "snapshot" PROVE FALSE
    OBVIOUS
  <2>1. PICK status : Reply = Refused(status)
    BY DEF Reply
  <2> QED BY <1>1, <1>4, <2>1
<1>6. PICK snap : snap = result.categories /\ snap = Snapshot
  BY <1>1, <1>5, LoadedIs
<1>7. PICK left : left = Filter(snap, request.category, keys)
  OBVIOUS
<1>8. PICK es : es = Only(Listed, AskedFor(request.category, keys))
  OBVIOUS
<1>9. answer = Get(snap)
  BY <1>1, <1>5, <1>6 DEF Reply
<1>10. answer = [status |-> 0, groups |-> Rowed(left, request.unit)]
  <2>1. ~IsEmpty(left)
    <3> SUFFICES ASSUME IsEmpty(left) PROVE FALSE
      OBVIOUS
    <3>1. \E status : answer = Refused(status)
      BY <1>3, <1>7, <1>9, Zenon DEF Get
    <3> QED BY <1>4, <3>1, Zenon
  <2> QED BY <1>3, <1>7, <1>9, <2>1, Zenon DEF Get, Rowed, Rows
<1>11. answer.status = 0 /\ answer.groups = Rowed(left, request.unit)
  BY <1>10
<1>12. RowsExact(left, es)
  BY <1>1, <1>6, <1>7, <1>8, FilteredExact
<1>13. PICK h : h = AsRow(ItemOf(style), request.unit)
  OBVIOUS
<1>14. All(answer.groups) = Image(h, es)
  BY <1>2, <1>11, <1>12, <1>13, Zenon DEF RowsExact
<1>15. Listed \in Seq(Entries)
  BY <1>1, ListedIs
<1>16. es \in Seq(Entries)
  BY <1>8, <1>15, OnlyType
<1>17. Select(Listed, Wanted) = es
  <2>1. Matched = AskedFor(request.category, keys)
    BY <1>1, <1>3, MatchedIs
  <2>2. DOMAIN Listed = 1..Len(Listed) /\ \A j \in 1..Len(Listed) : Listed[j] \in Entries
    BY <1>15, LenProperties, ElementOfSeq
  <2>3. {j \in DOMAIN Listed : Wanted(Listed[j])} = {j \in 1..Len(Listed) : Listed[j] \in Matched}
    BY <2>2, Zenon DEF Matched
  <2> QED BY <1>8, <2>1, <2>3, Zenon DEF Select, Only
<1>18. i \in 1..Len(es) /\ All(answer.groups)[i] = h[es[i]]
  BY <1>14, <1>16 DEF Image
<1>19. PICK e \in Entries : e = es[i] /\ e.instrument \in Instruments
  <2>1. es[i] \in Entries
    BY <1>16, <1>18, ElementOfSeq
  <2>2. \A e \in Entries : e.instrument \in Instruments
    BY DEF Entries
  <2> QED BY <2>1, <2>2
<1>20. h[e] = Row(ItemOf(style)[e], request.unit)
  BY <1>13, Zenon DEF AsRow
<1>21. ItemOf(style)[e] = ItemFrom(e.caption, ReadRow(RowOf(e.instrument, style), Layout(style)))
  BY <1>19, Zenon DEF ItemOf, Reading
<1> QED BY <1>2, <1>17, <1>18, <1>19, <1>20, <1>21, Zenon

\* The price a person reads on the terminal is the site's, in whatever unit and
\* whatever the page: the printed text, read back, is the number published or a
\* tenth of it, and what is not there is a dash.
THEOREM UnitsPrinted == QuerySpec => []UnitsAgree
<1>1. ReadInv => UnitsAgree
  <2> SUFFICES ASSUME ReadInv, pc = "answered", request.kind = "get",
                      NEW i \in DOMAIN All(answer.groups),
                      NEW f \in {"price", "low", "high"}
                               \cup IF published.style.raw = <<>> THEN {"amount"} ELSE {}
               PROVE  LET n == Select(Listed, Wanted)[i].instrument[f]
                          there == f = "price" \/ Found(IF f = "amount" THEN "change" ELSE f)
                          rials == NumberOf(n)
                          shown == All(answer.groups)[i][f]
                      IN IF n = Missing \/ ~there THEN shown = Dash
                         ELSE SameNumber(Value(shown),
                                         IF request.unit = "toman"
                                         THEN Number(FALSE, rials.digits, rials.scale + 1)
                                         ELSE rials)
    BY Zenon DEF UnitsAgree
  <2>1. PICK e \in Entries, style \in Styles :
          /\ style = published.style /\ e = Select(Listed, Wanted)[i]
          /\ e.instrument \in Instruments
          /\ All(answer.groups)[i] =
               Row(ItemFrom(e.caption, ReadRow(RowOf(e.instrument, style), Layout(style))),
                   request.unit)
    BY GetAnswer
  <2>2. PICK x \in Instruments : x = e.instrument
    BY <2>1
  <2>3. PICK row : row = ReadRow(RowOf(x, style), Layout(style))
    OBVIOUS
  <2>4. PICK unit \in Units : unit = request.unit
    <3>1. request.unit \in Units
      BY RequestType DEF ReadInv
    <3> QED BY <3>1
  <2>5. PICK y : y = ItemFrom(e.caption, row)
    OBVIOUS
  <2>6. /\ y.price = AmountOf(row.price) /\ y.low = AmountOf(row.low)
        /\ y.high = AmountOf(row.high) /\ y.amount = AmountOf(Change(row.change).amount)
    BY <2>5 DEF ItemFrom
  <2>7. PICK r : r = Row(y, unit)
    OBVIOUS
  <2>8. /\ r.price = Render(unit, y.price) /\ r.low = Render(unit, y.low)
        /\ r.high = Render(unit, y.high) /\ r.amount = Render(unit, y.amount)
    BY <2>7 DEF Row
  <2>9. All(answer.groups)[i] = r /\ Select(Listed, Wanted)[i].instrument = x
    BY <2>1, <2>2, <2>3, <2>4, <2>5, <2>7, Zenon
  <2>10. /\ Missing \in Numbers /\ x.price \in Numbers /\ x.low \in Numbers
         /\ x.high \in Numbers /\ x.amount \in Numbers
    BY MissingIs DEF Instruments
  <2> DEFINE Out(g, n) == IF FoundIn(style, g) THEN n ELSE Missing
  <2>11. /\ Exactly(y.price, x.price)
         /\ Exactly(y.low, Out("low", x.low))
         /\ Exactly(y.high, Out("high", x.high))
         /\ style.raw = <<>> => Exactly(y.amount, Out("change", x.amount))
    BY <2>3, <2>6, AmountsRead, ChangeRead, Zenon
  <2>12. \A g : Found(g) <=> FoundIn(style, g)
    BY <2>1, FoundThere, Zenon
  <2>13. ASSUME NEW n \in Numbers, NEW g, NEW amount, Exactly(amount, Out(g, n))
         PROVE  Printed(Render(unit, amount), unit, Out(g, n))
    <3>1. Out(g, n) \in Numbers
      BY <2>10, Zenon
    <3> HIDE DEF Out
    <3>2. PICK m \in Numbers : m = Out(g, n)
      BY <3>1
    <3>3. Printed(Render(unit, amount), unit, m)
      BY <2>13, <3>2, RenderShows
    <3> QED BY <3>2, <3>3
  <2>14. \A n, g, shown : Printed(shown, unit, Out(g, n)) =>
           IF n = Missing \/ ~Found(g) THEN shown = Dash
           ELSE SameNumber(Value(shown), Meant(unit, n))
    BY <2>12, Zenon DEF Printed
  <2>15. CASE f = "price"
    <3>1. Printed(r.price, unit, x.price)
      BY <2>8, <2>10, <2>11, RenderShows
    <3> QED BY <2>4, <2>9, <2>15, <3>1, Zenon DEF Printed, Meant
  <2>16. CASE f \in {"low", "high"}
    <3>1. Printed(r[f], unit, Out(f, x[f]))
      BY <2>8, <2>10, <2>11, <2>12, <2>13, <2>16
    <3>2. f # "price" /\ f # "amount"
      BY <2>16
    <3>3. (IF f = "amount" THEN "change" ELSE f) = f
      BY <3>2
    <3>4. IF x[f] = Missing \/ ~Found(f) THEN r[f] = Dash
          ELSE SameNumber(Value(r[f]), Meant(unit, x[f]))
      <4> HIDE DEF Out
      <4> QED BY <2>14, <3>1, Zenon
    <3> QED BY <2>4, <2>9, <3>2, <3>3, <3>4, Zenon DEF Meant
  <2>17. CASE f = "amount"
    <3>0. style.raw = <<>>
      BY <2>1, <2>17
    <3>1. Printed(r.amount, unit, Out("change", x.amount))
      BY <2>8, <2>10, <2>11, <2>12, <2>13, <3>0
    <3>2. f # "price"
      BY <2>17
    <3>3. (IF f = "amount" THEN "change" ELSE f) = "change"
      BY <2>17
    <3>4. IF x.amount = Missing \/ ~Found("change") THEN r.amount = Dash
          ELSE SameNumber(Value(r.amount), Meant(unit, x.amount))
      <4> HIDE DEF Out
      <4> QED BY <2>14, <3>1, Zenon
    <3> QED BY <2>4, <2>9, <2>17, <3>2, <3>3, <3>4, Zenon DEF Meant
  <2> QED BY <2>15, <2>16, <2>17
<1> QED BY <1>1, Reads, PTL
=============================================================================
