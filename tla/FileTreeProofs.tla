--------------------------- MODULE FileTreeProofs ---------------------------
(***************************************************************************)
(* A theorem about FileTree: what a fingerprint tells of a tree.  The        *)
(* definitions behind it are recursive, so its lemmas go from one index to   *)
(* the next by looking at the smallest index for which they would be wrong.  *)
(***************************************************************************)
EXTENDS FileTree, SequenceTheorems, WellFoundedInduction, TLAPS

(* A set of numbers that is not empty has a smallest member.                 *)
LEMMA Smallest ==
  ASSUME NEW T, T \subseteq Nat, T # {}
  PROVE  \E n \in T : \A m \in T : n <= m
<1>1. IsWellFoundedOn(OpToRel(<, Nat), Nat) BY NatLessThanWellFounded
<1>2. PICK n \in T : \A m \in T : ~ (<<m, n>> \in OpToRel(<, Nat)) BY <1>1, WFMin
<1>3. \A m \in T : n <= m
  <2>1. \A m \in T : m \in Nat /\ n \in Nat OBVIOUS
  <2>2. \A m \in T : ~ (m < n) BY <1>2, <2>1, Zenon DEF OpToRel
  <2> HIDE <1>2
  <2> QED BY <2>1, <2>2
<1> QED BY <1>3

-----------------------------------------------------------------------------
(* Sequences of sequences. *)

(* What FlattenSeq computes on the way: the first i sequences, flattened.    *)
Flattening(E, N, S) ==
  {f \in [1..N -> Seq(S)] : \A i \in 1..N : f[i] = IF i = 1 THEN E[i] ELSE f[i - 1] \o E[i]}

LEMMA StepsExist ==
  ASSUME NEW S, NEW N \in Nat \ {0}, NEW E \in [1..N -> Seq(S)]
  PROVE  Flattening(E, N, S) # {}
<1> DEFINE Built(k) == Flattening(E, k, S)
           T == {k \in 1..N : Built(k) = {}}
<1>1. SUFFICES ASSUME T # {} PROVE FALSE
  <2>1. T = {} => Built(N) # {}
    <3>1. N \in 1..N OBVIOUS
    <3> HIDE DEF Built
    <3> QED BY <3>1
  <2> HIDE DEF T, Built
  <2> QED BY <2>1 DEF Built
<1>2. PICK n \in T : \A m \in T : n <= m
  <2>1. T \subseteq Nat OBVIOUS
  <2> HIDE DEF T
  <2> QED BY <1>1, <2>1, Smallest
<1>3. n \in 1..N /\ Built(n) = {} OBVIOUS
<1>4. CASE n = 1
  <2>1. [i \in 1..1 |-> E[i]] \in Built(1) BY DEF Flattening
  <2> QED BY <1>3, <1>4, <2>1
<1>5. CASE n # 1
  <2>1. n - 1 \in 1..N /\ ~ (n <= n - 1) BY <1>3, <1>5
  <2>2. n - 1 \notin T BY <1>2, <2>1
  <2>3. PICK f \in [1..(n - 1) -> Seq(S)] :
          \A i \in 1..(n - 1) : f[i] = IF i = 1 THEN E[i] ELSE f[i - 1] \o E[i]
    BY <2>1, <2>2 DEF Flattening
  <2> DEFINE g == [i \in 1..n |-> IF i = n THEN f[n - 1] \o E[n] ELSE f[i]]
  <2>4. f[n - 1] \in Seq(S) /\ E[n] \in Seq(S) BY <2>1, <2>3, <1>3
  <2>5. f[n - 1] \o E[n] \in Seq(S) BY <2>4
  <2>6. \A i \in 1..n : i # n => i \in 1..(n - 1) BY <1>3
  <2>7. g \in [1..n -> Seq(S)] BY <2>3, <2>5, <2>6
  <2>8. ASSUME NEW i \in 1..n PROVE g[i] = IF i = 1 THEN E[i] ELSE g[i - 1] \o E[i]
    <3>1. CASE i = n
      <4>1. n - 1 \in 1..n /\ n - 1 # n BY <2>1, <1>3
      <4>2. g[n - 1] = f[n - 1] BY <4>1
      <4> QED BY <3>1, <4>2, <1>5
    <3>2. CASE i # n
      <4>1. f[i] = IF i = 1 THEN E[i] ELSE f[i - 1] \o E[i] BY <2>3, <2>6, <3>2
      <4>2. i # 1 => i - 1 \in 1..n /\ i - 1 # n BY <1>3
      <4> QED BY <3>2, <4>1, <4>2
    <3> QED BY <3>1, <3>2
  <2> HIDE DEF g
  <2>9. g \in Built(n) BY <2>7, <2>8 DEF Flattening
  <2> QED BY <2>9, <1>3
<1> QED BY <1>4, <1>5

(* A flattened sequence holds its parts one after the other: that of E[i]    *)
(* ends at L[i].                                                             *)
FlatEnds(E, N, S, L) ==
  /\ L \in [0..N -> Nat] /\ L[0] = 0 /\ \A i \in 1..N : L[i] = L[i - 1] + Len(E[i])
  /\ FlattenSeq(E) \in Seq(S) /\ Len(FlattenSeq(E)) = L[N]
  /\ \A i \in 1..N : \A j \in 1..Len(E[i]) : FlattenSeq(E)[L[i - 1] + j] = E[i][j]

LEMMA FlattenFacts ==
  ASSUME NEW S, NEW N \in Nat, NEW E \in [1..N -> Seq(S)]
  PROVE  \E L : FlatEnds(E, N, S, L)
<1>1. E \in Seq(Seq(S)) /\ Len(E) = N OBVIOUS
<1>2. CASE N = 0
  <2>1. FlattenSeq(E) = E BY <1>1, <1>2 DEF FlattenSeq
  <2>2. E \in Seq(S) /\ E = <<>> BY <1>2
  <2> DEFINE L == [i \in 0..0 |-> 0]
  <2>3. L \in [0..N -> Nat] /\ L[0] = 0 /\ L[N] = 0 BY <1>2
  <2>4. 1..N = {} /\ Len(E) = 0 BY <1>2
  <2> HIDE DEF L
  <2>5. FlatEnds(E, N, S, L) BY <1>2, <2>1, <2>2, <2>3, <2>4 DEF FlatEnds
  <2> QED BY <2>5
<1>3. CASE N # 0
  <2>1. PICK f \in [1..N -> Seq(S)] : \A i \in 1..N : f[i] = IF i = 1 THEN E[i] ELSE f[i - 1] \o E[i]
    <3>1. Flattening(E, N, S) # {} BY <1>3, StepsExist
    <3> QED BY <3>1 DEF Flattening
  <2> DEFINE F(g) == [i \in 1..N |-> IF i = 1 THEN E[i] ELSE g[i - 1] \o E[i]]
             c == CHOOSE g : g = F(g)
  <2>2. f = F(f) BY <2>1
  <2>3. c = F(c) BY <2>2
  <2>4. FlattenSeq(E) = c[N] BY <1>1, <1>3 DEF FlattenSeq
  <2> DEFINE T == {i \in 1..N : c[i] # f[i]}
  <2>5. ASSUME T # {} PROVE FALSE
    <3>1. PICK n \in T : \A m \in T : n <= m
      <4>1. T \subseteq Nat OBVIOUS
      <4> HIDE DEF T
      <4> QED BY <2>5, <4>1, Smallest
    <3>2. n \in 1..N /\ c[n] # f[n] OBVIOUS
    <3>3. n # 1 => n - 1 \in 1..N /\ c[n - 1] = f[n - 1]
      <4>1. n # 1 => n - 1 \in 1..N /\ ~ (n <= n - 1) BY <3>2
      <4>2. n - 1 \in T => n <= n - 1 BY <3>1
      <4>3. n - 1 \in 1..N => n - 1 \in T \/ c[n - 1] = f[n - 1] OBVIOUS
      <4> HIDE DEF T, c
      <4> QED BY <4>1, <4>2, <4>3
    <3>4. c[n] = IF n = 1 THEN E[n] ELSE c[n - 1] \o E[n] BY <2>3, <3>2
    <3>5. f[n] = IF n = 1 THEN E[n] ELSE f[n - 1] \o E[n] BY <2>1, <3>2
    <3> QED BY <3>2, <3>3, <3>4, <3>5
  <2>6. FlattenSeq(E) = f[N]
    <3>1. T = {} => c[N] = f[N]
      <4>1. N \in 1..N BY <1>3
      <4> HIDE DEF c
      <4> QED BY <4>1
    <3> HIDE DEF T, c
    <3> QED BY <2>4, <2>5, <3>1
  <2> DEFINE L == [i \in 0..N |-> IF i = 0 THEN 0 ELSE Len(f[i])]
  <2>7. \A i \in 1..N : f[i] \in Seq(S) /\ Len(f[i]) \in Nat /\ E[i] \in Seq(S) /\ Len(E[i]) \in Nat OBVIOUS
  <2>8. L \in [0..N -> Nat] /\ L[0] = 0 BY <2>7
  <2>9. ASSUME NEW i \in 1..N
        PROVE  /\ L[i] = L[i - 1] + Len(E[i])
               /\ \A j \in 1..Len(E[i]) : f[i][L[i - 1] + j] = E[i][j]
               /\ \A j \in 1..L[i - 1] : i # 1 /\ f[i][j] = f[i - 1][j]
    <3>1. CASE i = 1
      <4>1. f[i] = E[i] /\ L[i - 1] = 0 /\ L[i] = Len(E[i]) BY <2>1, <3>1
      <4>2. 1..L[i - 1] = {} /\ Len(E[i]) \in Nat BY <2>7, <4>1
      <4> HIDE DEF L
      <4> QED BY <4>1, <4>2
    <3>2. CASE i # 1
      <4>1. i - 1 \in 1..N /\ f[i] = f[i - 1] \o E[i] BY <2>1, <3>2
      <4>2. L[i - 1] = Len(f[i - 1]) /\ L[i] = Len(f[i])
        <5>1. i \in 0..N /\ i # 0 /\ i - 1 \in 0..N /\ i - 1 # 0 BY <4>1
        <5> QED BY <5>1
      <4>3. f[i - 1] \in Seq(S) /\ E[i] \in Seq(S) BY <4>1, <2>7
      <4> HIDE DEF L
      <4> QED BY <3>2, <4>1, <4>2, <4>3
    <3> QED BY <3>1, <3>2
  <2> HIDE DEF L
  (* What a part put at its place stays there. *)
  <2>10. ASSUME NEW i \in 1..N, NEW j \in 1..Len(E[i])
         PROVE  f[N][L[i - 1] + j] = E[i][j]
    <3> DEFINE U == {k \in i..N : f[k][L[i - 1] + j] # E[i][j] \/ L[k] < L[i]}
    <3>1. ASSUME U # {} PROVE FALSE
      <4>1. PICK n \in U : \A m \in U : n <= m
        <5>1. U \subseteq Nat OBVIOUS
        <5> HIDE DEF U
        <5> QED BY <3>1, <5>1, Smallest
      <4>2. n \in i..N /\ n \in 1..N OBVIOUS
      <4>3. n # i
        <5>1. f[i][L[i - 1] + j] = E[i][j] /\ L[i] \in Nat BY <2>8, <2>9
        <5> QED BY <4>1, <5>1
      <4>4. n - 1 \in i..N /\ n - 1 \notin U BY <4>1, <4>2, <4>3
      <4>5. f[n - 1][L[i - 1] + j] = E[i][j] /\ ~ (L[n - 1] < L[i]) BY <4>4
      <4>6. L[i - 1] \in Nat /\ L[i] \in Nat /\ L[n - 1] \in Nat /\ L[n] \in Nat /\ Len(E[n]) \in Nat /\ Len(E[i]) \in Nat
        <5>1. i - 1 \in 0..N /\ i \in 0..N /\ n - 1 \in 0..N /\ n \in 0..N BY <4>2
        <5> HIDE DEF U
        <5> QED BY <2>7, <2>8, <4>2, <5>1
      <4>7. L[i] = L[i - 1] + Len(E[i]) /\ L[n] = L[n - 1] + Len(E[n]) BY <2>9, <4>2
      <4>8. L[i - 1] + j \in 1..L[n - 1] 
        <5>1. \A a, b, m, l \in Nat : b = a + l /\ ~ (m < b) => \A k \in 1..l : a + k \in 1..m OBVIOUS
        <5> HIDE DEF U, L
        <5> QED BY <4>5, <4>6, <4>7, <5>1
      <4>9. f[n][L[i - 1] + j] = f[n - 1][L[i - 1] + j] BY <2>9, <4>2, <4>8
      <4>10. ~ (L[n] < L[i]) 
        <5>1. \A a, b, m, l \in Nat : a = b + l /\ ~ (b < m) => ~ (a < m) OBVIOUS
        <5> HIDE DEF U, L
        <5> QED BY <4>5, <4>6, <4>7, <5>1
      <4> QED BY <4>1, <4>5, <4>9, <4>10
    <3>2. N \in i..N OBVIOUS
    <3> QED BY <3>1, <3>2
  <2>11. f[N] \in Seq(S) /\ Len(f[N]) = L[N] BY <1>3, <2>7 DEF L
  <2> HIDE DEF c, F, T
  <2>12. \A i \in 1..N : L[i] = L[i - 1] + Len(E[i]) BY <2>9
  <2>13. \A i \in 1..N : \A j \in 1..Len(E[i]) : FlattenSeq(E)[L[i - 1] + j] = E[i][j] BY <2>6, <2>10
  <2>14. FlattenSeq(E) \in Seq(S) /\ Len(FlattenSeq(E)) = L[N] BY <2>6, <2>11
  <2>15. FlatEnds(E, N, S, L) BY <2>8, <2>12, <2>13, <2>14 DEF FlatEnds
  <2> QED BY <2>15
<1> QED BY <1>2, <1>3

-----------------------------------------------------------------------------
(* What is hashed. *)

(* The places of the paths whose files a fingerprint covers.                 *)
Listed(tree, excluded) == {i \in DOMAIN Sorted : Sorted[i] \in FilesIn(tree, excluded)}
(* From place s on, w has a path and a Sep.                                  *)
Starts(w, s, p) == w[s + Len(p) + 1] = Sep /\ \A j \in 1..Len(p) : w[s + j] = p[j]
(* In w the entry of every path ends at L[i].                                *)
Placed(tree, excluded, w, L) ==
  /\ L \in [0..Len(Sorted) -> Nat] /\ L[0] = 0 /\ L[Len(Sorted)] = Len(w)
  /\ \A i \in DOMAIN Sorted \ Listed(tree, excluded) : L[i] = L[i - 1]
  /\ \A i \in Listed(tree, excluded) :
       LET p == Sorted[i]  data == Bytes(tree, p) IN
       /\ L[i] = L[i - 1] + (Len(p) + 1 + Len(data))
       /\ Starts(w, L[i - 1], p)
       /\ \A j \in 1..Len(data) : w[L[i - 1] + (Len(p) + 1 + j)] = data[j]

LEMMA SortedFacts ==
  /\ Len(Sorted) \in Nat /\ DOMAIN Sorted = 1..Len(Sorted)
  /\ \A i \in DOMAIN Sorted : Sorted[i] \in Paths /\ Sorted[i] \in Seq(Names) /\ Len(Sorted[i]) \in Nat
BY TreeAssumption DEF Paths

LEMMA FileNode ==
  ASSUME NEW p, NEW n \in NodesAt(p), n.kind = "file"
  PROVE  p # Root /\ n.data \in Contents[p]
<1>1. CASE \E m \in Modes : n = Dir(m) BY <1>1 DEF Dir
<1>2. CASE p # Root /\ \E q \in Paths : n = Link(q) BY <1>2 DEF Link
<1>3. CASE p # Root /\ \E m \in Modes, c \in Contents[p] : n = File(m, c) BY <1>3 DEF File
<1> QED BY <1>1, <1>2, <1>3 DEF NodesAt

(* What a file of a tree holds can be at the path that it is found at.       *)
LEMMA BytesTyped ==
  ASSUME NEW tree, IsTree(tree), NEW p, IsFile(tree, p)
  PROVE  Bytes(tree, p) \in UNION {Contents[q] : q \in Paths}
<1>1. Follow(tree, p) \in DOMAIN tree /\ tree[Follow(tree, p)].kind = "file" BY DEF IsFile
<1>2. tree[Follow(tree, p)] \in NodesAt(Follow(tree, p)) BY <1>1 DEF IsTree
<1>3. Follow(tree, p) # Root /\ Bytes(tree, p) \in Contents[Follow(tree, p)] BY <1>1, <1>2, FileNode DEF Bytes
<1>4. Follow(tree, p) \in Paths BY <1>1, <1>3 DEF IsTree
<1> QED BY <1>3, <1>4

LEMMA BytesAreTokens ==
  ASSUME NEW tree, IsTree(tree), NEW excluded, NEW p \in FilesIn(tree, excluded)
  PROVE  /\ p \in Paths
         /\ Bytes(tree, p) \in Seq(UNION {ToSet(c) : c \in UNION {Contents[q] : q \in Paths}})
         /\ Len(Bytes(tree, p)) \in Nat
<1> DEFINE All == UNION {Contents[q] : q \in Paths}
           Tokens == UNION {ToSet(c) : c \in All}
<1>1. p \in Paths BY DEF FilesIn, Below, IsTree
<1>2. Bytes(tree, p) \in All BY BytesTyped DEF FilesIn
<1>3. \A c \in All : c \in Seq(ToSet(c)) BY TreeAssumption
<1>4. Bytes(tree, p) \in Seq(ToSet(Bytes(tree, p))) /\ ToSet(Bytes(tree, p)) \subseteq Tokens BY <1>2, <1>3
<1>5. \A A, B : A \subseteq B => Seq(A) \subseteq Seq(B) OBVIOUS
<1>6. Bytes(tree, p) \in Seq(Tokens) BY <1>4, <1>5
<1> HIDE DEF Tokens
<1>7. Len(Bytes(tree, p)) \in Nat BY <1>6
<1> QED BY <1>1, <1>6, <1>7 DEF Tokens

LEMMA FingerprintIsPlaced ==
  ASSUME NEW tree, IsTree(tree), NEW excluded
  PROVE  \E L : Placed(tree, excluded, Fingerprint(tree, excluded), L)
<1> DEFINE All == UNION {Contents[q] : q \in Paths}
           Tokens == UNION {ToSet(c) : c \in All}
           S == Names \cup {Sep} \cup Tokens
           N == Len(Sorted)
           w == Fingerprint(tree, excluded)
           E == [i \in DOMAIN Sorted |->
                   IF Sorted[i] \in FilesIn(tree, excluded)
                   THEN Sorted[i] \o <<Sep>> \o Bytes(tree, Sorted[i]) ELSE <<>>]
<1>1. N \in Nat /\ DOMAIN Sorted = 1..N BY SortedFacts
<1>2. \A i \in Listed(tree, excluded) :
        /\ Sorted[i] \in Seq(S) /\ Bytes(tree, Sorted[i]) \in Seq(S) /\ <<Sep>> \in Seq(S)
        /\ Len(Sorted[i]) \in Nat /\ Len(Bytes(tree, Sorted[i])) \in Nat
  <2> TAKE i \in Listed(tree, excluded)
  <2>1. i \in DOMAIN Sorted /\ Sorted[i] \in FilesIn(tree, excluded) BY DEF Listed
  <2>2. Sorted[i] \in Seq(Names) /\ Len(Sorted[i]) \in Nat BY <2>1, SortedFacts
  <2>3. Bytes(tree, Sorted[i]) \in Seq(Tokens) /\ Len(Bytes(tree, Sorted[i])) \in Nat BY <2>1, BytesAreTokens
  <2>4. \A A, B : A \subseteq B => Seq(A) \subseteq Seq(B) OBVIOUS
  <2>5. Names \subseteq S /\ Tokens \subseteq S /\ Sep \in S OBVIOUS
  <2> HIDE DEF Tokens, S
  <2>6. Sorted[i] \in Seq(S) /\ Bytes(tree, Sorted[i]) \in Seq(S) BY <2>2, <2>3, <2>4, <2>5
  <2>7. <<Sep>> \in Seq(S) BY <2>5
  <2> QED BY <2>2, <2>3, <2>6, <2>7
<1> HIDE DEF S, Tokens
<1>3. ASSUME NEW i \in Listed(tree, excluded)
      PROVE  LET p == Sorted[i]  data == Bytes(tree, p) IN
             /\ E[i] \in Seq(S) /\ Len(E[i]) = Len(p) + 1 + Len(data)
             /\ E[i][Len(p) + 1] = Sep /\ \A j \in 1..Len(p) : E[i][j] = p[j]
             /\ \A j \in 1..Len(data) : E[i][Len(p) + 1 + j] = data[j]
  <2> DEFINE p == Sorted[i]  data == Bytes(tree, p)
  <2>1. E[i] = p \o <<Sep>> \o data BY DEF Listed
  <2>2. p \in Seq(S) /\ data \in Seq(S) /\ <<Sep>> \in Seq(S) /\ Len(p) \in Nat /\ Len(data) \in Nat
    BY <1>2
  <2> DEFINE h == p \o <<Sep>>
  <2> HIDE DEF E, p, data
  <2>3. h \in Seq(S) /\ Len(h) = Len(p) + 1 /\ h[Len(p) + 1] = Sep /\ \A j \in 1..Len(p) : h[j] = p[j] BY <2>2
  <2>4. E[i] = h \o data BY <2>1
  <2> HIDE DEF h
  <2>5. E[i] \in Seq(S) /\ Len(E[i]) = Len(h) + Len(data)
    <3>1. h \o data \in Seq(S) /\ Len(h \o data) = Len(h) + Len(data) BY <2>2, <2>3
    <3> QED BY <2>4, <3>1
  <2>6. \A j \in 1..Len(h) : E[i][j] = h[j] BY <2>2, <2>3, <2>4
  <2>7. \A j \in 1..Len(data) : E[i][Len(h) + j] = data[j] BY <2>2, <2>3, <2>4
  <2>8. Len(p) + 1 \in 1..Len(h) /\ \A j \in 1..Len(p) : j \in 1..Len(h) BY <2>2, <2>3
  <2> QED BY <2>2, <2>3, <2>5, <2>6, <2>7, <2>8 DEF p, data
<1>4. ASSUME NEW i \in DOMAIN Sorted \ Listed(tree, excluded) PROVE E[i] = <<>>
  BY DEF Listed
<1>5. E \in [1..N -> Seq(S)]
  <2>1. DOMAIN E = 1..N /\ E = [i \in 1..N |-> E[i]] BY <1>1
  <2>2. \A i \in 1..N : E[i] \in Seq(S)
    <3>1. <<>> \in Seq(S) OBVIOUS
    <3> HIDE DEF E
    <3> QED BY <1>1, <1>3, <1>4, <3>1
  <2> HIDE DEF E
  <2> QED BY <2>1, <2>2
<1>6. w = FlattenSeq(E) BY DEF Fingerprint
<1> HIDE DEF E, w, N
<1>7. PICK L \in [0..N -> Nat] :
        /\ L[0] = 0 /\ \A i \in 1..N : L[i] = L[i - 1] + Len(E[i])
        /\ w \in Seq(S) /\ Len(w) = L[N]
        /\ \A i \in 1..N : \A j \in 1..Len(E[i]) : w[L[i - 1] + j] = E[i][j]
  <2>1. N \in Nat /\ E \in [1..N -> Seq(S)] BY <1>1, <1>5
  <2>2. PICK L : FlatEnds(E, N, S, L) BY <2>1, FlattenFacts
  <2> QED BY <2>2, <1>6 DEF FlatEnds
<1>8. ASSUME NEW i \in DOMAIN Sorted \ Listed(tree, excluded) PROVE L[i] = L[i - 1]
  <2>1. Len(E[i]) = 0 BY <1>4
  <2>2. i \in 1..N /\ i - 1 \in 0..N BY <1>1
  <2> QED BY <1>7, <2>1, <2>2
<1>9. ASSUME NEW i \in Listed(tree, excluded)
      PROVE  LET p == Sorted[i]  data == Bytes(tree, p) IN
             /\ L[i] = L[i - 1] + (Len(p) + 1 + Len(data))
             /\ Starts(w, L[i - 1], p)
             /\ \A j \in 1..Len(data) : w[L[i - 1] + (Len(p) + 1 + j)] = data[j]
  <2> DEFINE p == Sorted[i]  data == Bytes(tree, p)
  <2>1. i \in 1..N /\ i - 1 \in 0..N BY <1>1 DEF Listed
  <2>2. Len(p) \in Nat /\ Len(data) \in Nat BY <1>2
  <2>3. /\ Len(E[i]) = Len(p) + 1 + Len(data)
        /\ E[i][Len(p) + 1] = Sep /\ \A j \in 1..Len(p) : E[i][j] = p[j]
        /\ \A j \in 1..Len(data) : E[i][Len(p) + 1 + j] = data[j]
    BY <1>3
  <2> HIDE DEF p, data
  <2>4. \A j \in 1..Len(E[i]) : w[L[i - 1] + j] = E[i][j] BY <1>7, <2>1
  <2>5. L[i] = L[i - 1] + (Len(p) + 1 + Len(data)) BY <1>7, <2>1, <2>2, <2>3
  <2>6. L[i - 1] \in Nat BY <2>1
  <2>7. \A j \in 1..Len(p) : w[L[i - 1] + j] = p[j]
    <3>1. \A j \in 1..Len(p) : j \in 1..Len(E[i]) BY <2>2, <2>3
    <3> QED BY <2>3, <2>4, <3>1
  <2>8. w[L[i - 1] + Len(p) + 1] = Sep
    <3>1. Len(p) + 1 \in 1..Len(E[i]) /\ L[i - 1] + (Len(p) + 1) = L[i - 1] + Len(p) + 1 BY <2>2, <2>3, <2>6
    <3>2. w[L[i - 1] + (Len(p) + 1)] = Sep BY <2>3, <2>4, <3>1
    <3> QED BY <3>1, <3>2
  <2>9. \A j \in 1..Len(data) : w[L[i - 1] + (Len(p) + 1 + j)] = data[j]
    <3>1. \A j \in 1..Len(data) : Len(p) + 1 + j \in 1..Len(E[i]) BY <2>2, <2>3
    <3> QED BY <2>3, <2>4, <3>1
  <2> QED BY <2>5, <2>7, <2>8, <2>9 DEF p, data, Starts
<1>10. Placed(tree, excluded, w, L)
  <2>1. L \in [0..Len(Sorted) -> Nat] /\ L[0] = 0 /\ L[Len(Sorted)] = Len(w) BY <1>7 DEF N
  <2> QED BY <2>1, <1>8, <1>9 DEF Placed
<1> QED BY <1>10 DEF w

(* Places only grow.                                                         *)
LEMMA PlacesGrow ==
  ASSUME NEW tree, IsTree(tree), NEW excluded, NEW w, NEW L, Placed(tree, excluded, w, L),
         NEW i \in 0..Len(Sorted), NEW k \in 0..Len(Sorted), i <= k
  PROVE  L[i] <= L[k]
<1> DEFINE T == {m \in i..k : L[m] < L[i]}
<1>1. ASSUME T # {} PROVE FALSE
  <2>1. PICK n \in T : \A m \in T : n <= m
    <3>1. T \subseteq Nat BY SortedFacts
    <3> HIDE DEF T
    <3> QED BY <1>1, <3>1, Smallest
  <2>2. n \in i..k /\ L[n] < L[i] /\ n # i
    <3>1. L[i] \in Nat BY DEF Placed
    <3> QED BY <3>1
  <2>3. n - 1 \in i..k /\ n \in DOMAIN Sorted /\ n - 1 \in 0..Len(Sorted) /\ n \in 0..Len(Sorted) BY <2>2, SortedFacts
  <2>4. ~ (L[n - 1] < L[i])
    <3>1. n - 1 \in T => n <= n - 1 BY <2>1
    <3>2. n - 1 \in T \/ ~ (L[n - 1] < L[i]) BY <2>3
    <3> HIDE DEF T
    <3> QED BY <3>1, <3>2, <2>2, <2>3
  <2>5. L[n - 1] \in Nat /\ L[n] \in Nat /\ L[i] \in Nat BY <2>3 DEF Placed
  <2>6. ~ (L[n] < L[n - 1])
    <3>1. CASE n \in Listed(tree, excluded)
      <4> DEFINE p == Sorted[n]  data == Bytes(tree, p)
      <4>1. Len(p) \in Nat /\ Len(data) \in Nat BY <3>1, SortedFacts, BytesAreTokens DEF Listed
      <4>2. L[n] = L[n - 1] + (Len(p) + 1 + Len(data)) BY <3>1 DEF Placed
      <4> HIDE DEF p, data
      <4> QED BY <2>5, <4>1, <4>2
    <3>2. CASE n \notin Listed(tree, excluded) BY <3>2, <2>3, <2>5 DEF Placed
    <3> QED BY <3>1, <3>2
  <2> HIDE DEF T
  <2> QED BY <2>2, <2>4, <2>5, <2>6
<1>2. k \in i..k /\ L[i] \in Nat /\ L[k] \in Nat BY DEF Placed
<1> QED BY <1>1, <1>2

(* If w goes on after an entry, then with the next entry.                    *)
LEMMA NextEntry ==
  ASSUME NEW tree, IsTree(tree), NEW excluded, NEW w, NEW L, Placed(tree, excluded, w, L),
         NEW i \in 0..Len(Sorted), L[i] # Len(w)
  PROVE  \E k \in Listed(tree, excluded) :
           i < k /\ L[k - 1] = L[i] /\ \A m \in Listed(tree, excluded) : i < m => k <= m
<1> DEFINE T == {m \in i..Len(Sorted) : L[m] # L[i]}
<1>1. Len(Sorted) \in T BY SortedFacts DEF Placed
<1>2. PICK k \in T : \A m \in T : k <= m
  <2>1. T \subseteq Nat BY SortedFacts
  <2> HIDE DEF T
  <2> QED BY <1>1, <2>1, Smallest
<1>3. k \in i..Len(Sorted) /\ L[k] # L[i] /\ k # i OBVIOUS
<1>4. k \in DOMAIN Sorted /\ k - 1 \in i..Len(Sorted) /\ i < k BY <1>3, SortedFacts
<1>5. L[k - 1] = L[i]
  <2>1. k - 1 \in T => k <= k - 1 BY <1>2
  <2>2. k - 1 \in T \/ L[k - 1] = L[i] BY <1>4
  <2> HIDE DEF T
  <2> QED BY <2>1, <2>2, <1>3, <1>4
<1>6. k \in Listed(tree, excluded) BY <1>3, <1>4, <1>5 DEF Placed
<1>7. ASSUME NEW m \in Listed(tree, excluded), i < m, m < k PROVE FALSE
  <2> DEFINE p == Sorted[m]  data == Bytes(tree, p)
  <2>1. m \in DOMAIN Sorted /\ m \in i..Len(Sorted) /\ m - 1 \in i..Len(Sorted) BY <1>7, SortedFacts DEF Listed
  <2>2. m \notin T /\ m - 1 \notin T
    <3>1. ~ (k <= m) /\ ~ (k <= m - 1) BY <1>3, <1>7, <2>1
    <3> HIDE DEF T
    <3> QED BY <1>2, <3>1
  <2>3. L[m] = L[i] /\ L[m - 1] = L[i] BY <2>1, <2>2
  <2>4. Len(p) \in Nat /\ Len(data) \in Nat BY SortedFacts, BytesAreTokens DEF Listed
  <2>5. L[m] = L[m - 1] + (Len(p) + 1 + Len(data)) BY DEF Placed
  <2>6. L[i] \in Nat BY DEF Placed
  <2> HIDE DEF p, data
  <2> QED BY <2>3, <2>4, <2>5, <2>6
<1>8. \A m \in Listed(tree, excluded) : i < m => k <= m
  <2>1. \A m \in Listed(tree, excluded) : m \in Nat /\ k \in Nat BY <1>4, SortedFacts DEF Listed
  <2> HIDE DEF T
  <2> QED BY <1>7, <2>1
<1> HIDE DEF T
<1> QED BY <1>4, <1>5, <1>6, <1>8

(* No name is Sep, so where one path starts within another they end at the   *)
(* same place.                                                               *)
EndsWith(p, r, c) == c + Len(r) = Len(p) /\ \A j \in 1..Len(r) : r[j] = p[c + j]
LEMMA EndTogether ==
  ASSUME NEW w, NEW s \in Nat, NEW p \in Seq(Names), NEW c \in 0..Len(p), NEW r \in Seq(Names),
         Starts(w, s, p), Starts(w, s + c, r)
  PROVE  EndsWith(p, r, c)
<1>1. Len(p) \in Nat /\ Len(r) \in Nat /\ c \in Nat OBVIOUS
<1>2. /\ w[s + Len(p) + 1] = Sep /\ \A j \in 1..Len(p) : w[s + j] = p[j] /\ p[j] # Sep
      /\ w[s + c + Len(r) + 1] = Sep /\ \A j \in 1..Len(r) : w[s + c + j] = r[j] /\ r[j] # Sep
  BY TreeAssumption DEF Starts
<1>3. ASSUME c + Len(r) < Len(p) PROVE FALSE
  <2>1. c + Len(r) + 1 \in 1..Len(p) /\ s + (c + Len(r) + 1) = s + c + Len(r) + 1 BY <1>1, <1>3
  <2>2. w[s + (c + Len(r) + 1)] # Sep BY <1>2, <2>1
  <2> QED BY <1>2, <2>1, <2>2
<1>4. ASSUME Len(p) < c + Len(r) PROVE FALSE
  <2>1. Len(p) + 1 - c \in 1..Len(r) /\ s + c + (Len(p) + 1 - c) = s + Len(p) + 1 BY <1>1, <1>4
  <2>2. w[s + c + (Len(p) + 1 - c)] # Sep BY <1>2, <2>1
  <2> QED BY <1>2, <2>1, <2>2
<1>5. c + Len(r) = Len(p) BY <1>1, <1>3, <1>4
<1>6. ASSUME NEW j \in 1..Len(r) PROVE r[j] = p[c + j]
  <2>1. c + j \in 1..Len(p) /\ s + (c + j) = s + c + j BY <1>1, <1>5
  <2>2. w[s + (c + j)] = p[c + j] BY <1>2, <2>1
  <2> QED BY <1>2, <2>1, <2>2
<1> QED BY <1>5, <1>6 DEF EndsWith

LEMMA EndIsSuffix ==
  ASSUME NEW p \in Seq(Names), NEW r \in Seq(Names), NEW c \in Nat, EndsWith(p, r, c)
  PROVE  IsSuffix(r, p)
<1> DEFINE x == Reverse(r)  y == Reverse(p)
<1>1. Len(p) \in Nat /\ Len(r) \in Nat OBVIOUS
<1>2. /\ x \in Seq(Names) /\ Len(x) = Len(r) /\ \A j \in 1..Len(r) : x[j] = r[Len(r) - j + 1]
      /\ y \in Seq(Names) /\ Len(y) = Len(p) /\ \A j \in 1..Len(p) : y[j] = p[Len(p) - j + 1]
  BY <1>1 DEF Reverse
<1>3. Len(r) <= Len(p) /\ c + Len(r) = Len(p) BY <1>1 DEF EndsWith
<1>4. ASSUME NEW j \in 1..Len(r) PROVE x[j] = y[j]
  <2>1. /\ j \in 1..Len(p) /\ Len(r) - j + 1 \in 1..Len(r) /\ c + (Len(r) - j + 1) = Len(p) - j + 1
    BY <1>1, <1>3
  <2>2. r[Len(r) - j + 1] = p[c + (Len(r) - j + 1)] BY <2>1 DEF EndsWith
  <2> QED BY <1>2, <2>1, <2>2
<1> HIDE DEF x, y
<1>5. SubSeq(x, 1, Len(x)) = SubSeq(y, 1, Len(x)) BY <1>1, <1>2, <1>3, <1>4
<1> QED BY <1>2, <1>3, <1>5 DEF IsSuffix, IsPrefix, x, y

-----------------------------------------------------------------------------
(* Two trees with the same fingerprint. *)

SamePrint(one, other, excluded, w, L, M) ==
  /\ IsTree(one) /\ IsTree(other)
  /\ Placed(one, excluded, w, L) /\ Placed(other, excluded, w, M)

IsEntry(tree, excluded, w, L, i) ==
  LET p == Sorted[i]  data == Bytes(tree, p) IN
  /\ i \in 1..Len(Sorted) /\ Len(Sorted) \in Nat /\ i \in DOMAIN Sorted
  /\ p \in FilesIn(tree, excluded) /\ p \in Seq(Names) /\ Len(p) \in Nat /\ Len(data) \in Nat
  /\ L[i - 1] \in Nat /\ L[i] = L[i - 1] + (Len(p) + 1 + Len(data)) /\ L[i] <= Len(w) /\ Len(w) \in Nat
  /\ Starts(w, L[i - 1], p)
  /\ \A j \in 1..Len(data) : w[L[i - 1] + (Len(p) + 1 + j)] = data[j]
LEMMA EntryFacts ==
  ASSUME NEW tree, IsTree(tree), NEW excluded, NEW w, NEW L, Placed(tree, excluded, w, L),
         NEW i \in Listed(tree, excluded)
  PROVE  IsEntry(tree, excluded, w, L, i)
<1> DEFINE p == Sorted[i]  data == Bytes(tree, p)
<1>1. i \in 1..Len(Sorted) /\ Len(Sorted) \in Nat /\ p \in FilesIn(tree, excluded) /\ i \in DOMAIN Sorted
  BY SortedFacts DEF Listed
<1>2. p \in Seq(Names) /\ Len(p) \in Nat BY <1>1, SortedFacts
<1>3. Len(data) \in Nat BY <1>1, BytesAreTokens
<1>4. i - 1 \in 0..Len(Sorted) /\ i \in 0..Len(Sorted) /\ Len(Sorted) \in 0..Len(Sorted) /\ i <= Len(Sorted) BY <1>1
<1>5. L[i - 1] \in Nat /\ L[Len(Sorted)] = Len(w) /\ Len(w) \in Nat BY <1>4 DEF Placed
<1>6. L[i] <= Len(w)
  <2>1. L[i] <= L[Len(Sorted)] BY <1>4, PlacesGrow
  <2> QED BY <1>5, <2>1
<1>7. /\ L[i] = L[i - 1] + (Len(p) + 1 + Len(data)) /\ Starts(w, L[i - 1], p)
      /\ \A j \in 1..Len(data) : w[L[i - 1] + (Len(p) + 1 + j)] = data[j]
  BY DEF Placed
<1> QED BY <1>1, <1>2, <1>3, <1>5, <1>6, <1>7 DEF IsEntry

(* Entries that start at the same place are of the same path.                *)
LEMMA ListedTogether ==
  ASSUME NEW one, NEW other, NEW excluded, NEW w, NEW L, NEW M, SamePrint(one, other, excluded, w, L, M),
         NEW i \in Listed(one, excluded), L[i - 1] = M[i - 1]
  PROVE  i \in Listed(other, excluded)
<1> DEFINE p == Sorted[i]
<1>1. SUFFICES ASSUME i \notin Listed(other, excluded) PROVE FALSE OBVIOUS
<1>2. /\ i \in 1..Len(Sorted) /\ Len(Sorted) \in Nat /\ i \in DOMAIN Sorted
      /\ p \in Seq(Names) /\ Len(p) \in Nat /\ Len(Bytes(one, p)) \in Nat
      /\ L[i - 1] \in Nat /\ L[i] = L[i - 1] + (Len(p) + 1 + Len(Bytes(one, p))) /\ L[i] <= Len(w) /\ Len(w) \in Nat
      /\ Starts(w, L[i - 1], p)
  <2>1. IsEntry(one, excluded, w, L, i) BY EntryFacts DEF SamePrint
  <2> QED BY <2>1 DEF IsEntry
<1>3. M[i] = L[i - 1] BY <1>1, <1>2 DEF SamePrint, Placed
<1>4. M[i] # Len(w)
  <2>1. \A a, l, b, n, m \in Nat : b = a + (l + 1 + n) /\ b <= m => a # m OBVIOUS
  <2>2. L[i] \in Nat BY <1>2
  <2> HIDE DEF p
  <2> QED BY <1>2, <1>3, <2>1, <2>2
<1>5. i \in 0..Len(Sorted) BY <1>2
<1>6. PICK k \in Listed(other, excluded) : i < k /\ M[k - 1] = M[i] BY <1>4, <1>5, NextEntry DEF SamePrint
<1>7. /\ Sorted[k] \in Seq(Names) /\ k \in 1..Len(Sorted) /\ k \in DOMAIN Sorted
      /\ Starts(w, M[k - 1], Sorted[k])
  <2>1. IsEntry(other, excluded, w, M, k) BY EntryFacts DEF SamePrint
  <2> QED BY <2>1 DEF IsEntry
<1>8. Starts(w, L[i - 1] + 0, Sorted[k]) BY <1>2, <1>3, <1>6, <1>7
<1>9. 0 \in 0..Len(p) BY <1>2
<1>10. EndsWith(p, Sorted[k], 0) BY <1>2, <1>7, <1>8, <1>9, EndTogether
<1>11. Sorted[k] = p
  <2> DEFINE r == Sorted[k]
  <2>1. r \in Seq(Names) /\ p \in Seq(Names) /\ Len(r) \in Nat BY <1>2, <1>7
  <2>2. 0 + Len(r) = Len(p) /\ \A j \in 1..Len(r) : r[j] = p[0 + j] BY <1>10 DEF EndsWith
  <2> HIDE DEF p, r
  <2>3. Len(r) = Len(p) BY <1>2, <2>1, <2>2
  <2>4. \A j \in 1..Len(r) : j \in Nat /\ 0 + j = j BY <2>1
  <2>5. \A j \in 1..Len(r) : r[j] = p[j] BY <2>2, <2>4
  <2>6. r = p BY <2>1, <2>3, <2>5
  <2> QED BY <2>6 DEF r
<1>12. k = i BY <1>2, <1>7, <1>11, TreeAssumption
<1> QED BY <1>2, <1>6, <1>12

LEMMA SameSizeSameBytes ==
  ASSUME NEW one, NEW other, NEW excluded, NEW w, NEW L, NEW M, SamePrint(one, other, excluded, w, L, M),
         NEW i \in Listed(one, excluded), i \in Listed(other, excluded), L[i - 1] = M[i - 1],
         Len(Bytes(one, Sorted[i])) = Len(Bytes(other, Sorted[i]))
  PROVE  Bytes(one, Sorted[i]) = Bytes(other, Sorted[i]) /\ L[i] = M[i]
<1> DEFINE p == Sorted[i]  d == Bytes(one, p)  e == Bytes(other, p)
           S == UNION {ToSet(c) : c \in UNION {Contents[q] : q \in Paths}}
<1>1. /\ p \in FilesIn(one, excluded) /\ L[i] = L[i - 1] + (Len(p) + 1 + Len(d))
      /\ \A j \in 1..Len(d) : w[L[i - 1] + (Len(p) + 1 + j)] = d[j]
  <2>1. IsEntry(one, excluded, w, L, i) BY EntryFacts DEF SamePrint
  <2> QED BY <2>1 DEF IsEntry
<1>2. /\ p \in FilesIn(other, excluded) /\ M[i] = M[i - 1] + (Len(p) + 1 + Len(e))
      /\ \A j \in 1..Len(e) : w[M[i - 1] + (Len(p) + 1 + j)] = e[j]
  <2>1. IsEntry(other, excluded, w, M, i) BY EntryFacts DEF SamePrint
  <2> QED BY <2>1 DEF IsEntry
<1>3. d \in Seq(S) /\ e \in Seq(S) BY <1>1, <1>2, BytesAreTokens DEF SamePrint
<1>4. \A j \in 1..Len(d) : d[j] = e[j] BY <1>1, <1>2
<1>5. Len(d) = Len(e) OBVIOUS
<1> HIDE DEF d, e, S
<1>6. d = e BY <1>3, <1>4, <1>5
<1> QED BY <1>1, <1>2, <1>5, <1>6 DEF d, e, p

(* If one file is shorter the other holds the path after it, or a path ends  *)
(* like the one that comes after it.                                         *)
LEMMA ShorterIsAmbiguous ==
  ASSUME NEW one, NEW other, NEW excluded, NEW w, NEW L, NEW M, SamePrint(one, other, excluded, w, L, M),
         NEW i \in Listed(one, excluded), i \in Listed(other, excluded), L[i - 1] = M[i - 1],
         Len(Bytes(one, Sorted[i])) < Len(Bytes(other, Sorted[i]))
  PROVE  Ambiguous(one, other, excluded)
<1> DEFINE p == Sorted[i]  d == Bytes(one, p)  e == Bytes(other, p)  s == L[i]
           S == UNION {ToSet(c) : c \in UNION {Contents[q] : q \in Paths}}
<1>1. /\ i \in 1..Len(Sorted) /\ Len(Sorted) \in Nat /\ Len(p) \in Nat /\ Len(d) \in Nat
      /\ L[i - 1] \in Nat /\ L[i] = L[i - 1] + (Len(p) + 1 + Len(d)) /\ Len(w) \in Nat
  <2>1. IsEntry(one, excluded, w, L, i) BY EntryFacts DEF SamePrint
  <2> QED BY <2>1 DEF IsEntry
<1>2. /\ p \in FilesIn(other, excluded) /\ Len(e) \in Nat
      /\ M[i] = L[i - 1] + (Len(p) + 1 + Len(e)) /\ M[i] <= Len(w)
  <2>1. IsEntry(other, excluded, w, M, i) BY EntryFacts DEF SamePrint
  <2> QED BY <2>1 DEF IsEntry
<1>12. \A j \in 1..Len(e) : w[L[i - 1] + (Len(p) + 1 + j)] = e[j]
  <2>1. IsEntry(other, excluded, w, M, i) BY EntryFacts DEF SamePrint
  <2> QED BY <2>1 DEF IsEntry
<1>3. e \in Seq(S) BY <1>2, BytesAreTokens DEF SamePrint
<1>4. Len(d) < Len(e) OBVIOUS
<1> HIDE DEF p, d, e, S, s
<1>5. s \in Nat /\ M[i] \in Nat /\ s < M[i] /\ M[i] = s + (Len(e) - Len(d)) BY <1>1, <1>2, <1>4 DEF s
<1>6. L[i] # Len(w) BY <1>2, <1>5, <1>1 DEF s
<1>7. i \in 0..Len(Sorted) BY <1>1
<1>8. PICK k \in Listed(one, excluded) :
        i < k /\ L[k - 1] = L[i] /\ \A m \in Listed(one, excluded) : i < m => k <= m
  BY <1>6, <1>7, NextEntry DEF SamePrint
<1> DEFINE q == Sorted[k]
<1>9. /\ k \in 1..Len(Sorted) /\ q \in FilesIn(one, excluded) /\ q \in Seq(Names) /\ Len(q) \in Nat
      /\ L[k] <= Len(w) /\ Starts(w, s, q)
      /\ L[k] = s + (Len(q) + 1 + Len(Bytes(one, q))) /\ Len(Bytes(one, q)) \in Nat
  <2>1. IsEntry(one, excluded, w, L, k) BY EntryFacts DEF SamePrint
  <2> QED BY <2>1, <1>8 DEF IsEntry, s
<1> HIDE DEF q
<1>13. s + Len(q) + 1 <= Len(w)
  <2>1. \A a, l, n, b, m \in Nat : b = a + (l + 1 + n) /\ b <= m => a + l + 1 <= m OBVIOUS
  <2>2. L[k] \in Nat BY <1>5, <1>9
  <2> QED BY <1>1, <1>5, <1>9, <2>1, <2>2
<1>10. CASE s + Len(q) + 1 <= M[i]
  <2>1. Len(d) + Len(q) + 1 <= Len(e)
    <3>1. \A a, n, x, y, m \in Nat : m = a + (x - y) /\ a + n + 1 <= m => y + n + 1 <= x OBVIOUS
    <3> QED BY <1>1, <1>2, <1>5, <1>9, <1>10, <3>1
  <2> DEFINE a == Len(d) + 1
             held == SubSeq(e, a, a + Len(q))
  <2>2. a \in 1..(Len(e) - Len(q)) /\ a + Len(q) <= Len(e) /\ a \in Nat
    <3>1. \A x, y, n \in Nat : y + n + 1 <= x => y + 1 \in 1..(x - n) /\ y + 1 + n <= x /\ y + 1 \in Nat OBVIOUS
    <3> QED BY <1>1, <1>2, <1>9, <2>1, <3>1
  <2>3. /\ held \in Seq(S) /\ Len(held) = Len(q) + 1
        /\ \A j \in 1..(Len(q) + 1) : held[j] = e[a + j - 1]
    <3>1. \A n \in Nat : \A x \in 1..(Len(e) - n) : x + n <= Len(e) =>
            LET h == SubSeq(e, x, x + n) IN
            h \in Seq(S) /\ Len(h) = n + 1 /\ \A j \in 1..(n + 1) : h[j] = e[x + j - 1]
      BY <1>2, <1>3
    <3> HIDE DEF a
    <3> QED BY <1>9, <2>2, <3>1
  <2>4. \A j \in 1..(Len(q) + 1) : e[a + j - 1] = w[s + j]
    <3> TAKE j \in 1..(Len(q) + 1)
    <3>1. a + j - 1 \in 1..Len(e) /\ L[i - 1] + (Len(p) + 1 + (a + j - 1)) = s + j
      <4>5. \A b, n, y, l \in Nat : b + (n + 1 + (y + l)) = b + (n + 1 + y) + l OBVIOUS
      <4>2. s = L[i - 1] + (Len(p) + 1 + Len(d)) BY <1>1 DEF s
      <4>3. j \in Nat /\ 1 <= j /\ j <= Len(q) + 1 BY <1>9
      <4>4. Len(d) + 1 + Len(q) <= Len(e) BY <2>2
      <4>8. Len(d) \in Nat /\ Len(e) \in Nat /\ Len(q) \in Nat BY <1>1, <1>2, <1>9
      <4>6. a + j - 1 \in 1..Len(e) /\ a + j - 1 = Len(d) + j
        <5>1. a + j - 1 = Len(d) + j BY <4>3, <4>8
        <5>2. Len(d) + j \in Nat /\ 1 <= Len(d) + j BY <4>3, <4>8
        <5>3. Len(d) + j <= Len(e) BY <4>3, <4>4, <4>8
        <5> QED BY <5>1, <5>2, <5>3, <4>8
      <4>7. L[i - 1] + (Len(p) + 1 + (Len(d) + j)) = s + j BY <1>1, <4>2, <4>3, <4>5
      <4> QED BY <4>6, <4>7
    <3> QED BY <1>12, <3>1
  <2>5. \A j \in 1..(Len(q) + 1) : w[s + j] = Append(q, Sep)[j]
    <3> TAKE j \in 1..(Len(q) + 1)
    <3>1. CASE j = Len(q) + 1
      <4>1. w[s + Len(q) + 1] = Sep /\ s + (Len(q) + 1) = s + Len(q) + 1 BY <1>5, <1>9 DEF Starts
      <4>2. Append(q, Sep)[Len(q) + 1] = Sep BY <1>9
      <4> QED BY <3>1, <4>1, <4>2
    <3>2. CASE j # Len(q) + 1
      <4>1. j \in 1..Len(q) BY <1>9, <3>2
      <4>2. w[s + j] = q[j] BY <1>9, <4>1 DEF Starts
      <4>3. Append(q, Sep)[j] = q[j] BY <1>9, <4>1
      <4> QED BY <4>2, <4>3
    <3> QED BY <3>1, <3>2
  <2>6. held = Append(q, Sep)
    <3>1. Append(q, Sep) \in Seq(Names \cup {Sep}) /\ Len(Append(q, Sep)) = Len(q) + 1 BY <1>9
    <3>2. \A j \in 1..(Len(q) + 1) : held[j] = Append(q, Sep)[j] BY <2>3, <2>4, <2>5
    <3> DEFINE f == Append(q, Sep)  n == Len(q) + 1
    <3>3. held = [j \in 1..n |-> held[j]]
      <4>1. held \in Seq(S) /\ Len(held) = n BY <2>3
      <4> HIDE DEF held, n
      <4> QED BY <4>1
    <3>4. f = [j \in 1..n |-> f[j]]
      <4>1. f \in Seq(Names \cup {Sep}) /\ Len(f) = n BY <3>1
      <4> HIDE DEF f, n
      <4> QED BY <4>1
    <3> HIDE DEF held, f, n
    <3>5. \A j \in 1..n : held[j] = f[j] BY <3>2 DEF f, n
    <3> QED BY <3>3, <3>4, <3>5 DEF f
  <2>7. Holds(e, q) BY <2>2, <2>6 DEF Holds
  <2> QED BY <1>2, <1>9, <2>7 DEF Ambiguous, e
<1>11. CASE ~ (s + Len(q) + 1 <= M[i])
  <2> DEFINE c == M[i] - s
  <2>1. c \in 1..Len(q) /\ c \in 0..Len(q) /\ s + c = M[i] BY <1>5, <1>9, <1>11
  <2>2. M[i] # Len(w) BY <1>5, <1>9, <1>11, <1>13
  <2>3. PICK m \in Listed(other, excluded) :
          i < m /\ M[m - 1] = M[i] /\ \A n \in Listed(other, excluded) : i < n => m <= n
    BY <1>7, <2>2, NextEntry DEF SamePrint
  <2> DEFINE r == Sorted[m]
  <2>4. /\ m \in 1..Len(Sorted) /\ r \in FilesIn(other, excluded) /\ r \in Seq(Names) /\ Len(r) \in Nat
        /\ Starts(w, M[i], r)
    <3>1. IsEntry(other, excluded, w, M, m) BY EntryFacts DEF SamePrint
    <3> QED BY <2>3, <3>1 DEF IsEntry
  <2> HIDE DEF c, r
  <2>5. EndsWith(q, r, c) BY <1>5, <1>9, <2>1, <2>4, EndTogether
  <2>6. r # q BY <1>9, <2>1, <2>4, <2>5 DEF EndsWith
  <2>7. FilesIn(one, excluded) # FilesIn(other, excluded)
    <3>1. SUFFICES ASSUME Listed(one, excluded) = Listed(other, excluded) PROVE FALSE BY DEF Listed
    <3>2. k <= m /\ m <= k BY <1>8, <2>3, <3>1
    <3> QED BY <1>9, <2>4, <2>6, <3>2 DEF r, q
  <2>8. IsStrictSuffix(r, q) BY <1>9, <2>1, <2>4, <2>5, <2>6, EndIsSuffix DEF IsStrictSuffix
  <2> QED BY <1>9, <2>4, <2>7, <2>8 DEF Ambiguous
<1> QED BY <1>10, <1>11

LEMMA EntriesAgree ==
  ASSUME NEW one, NEW other, NEW excluded, NEW w, NEW L, NEW M, SamePrint(one, other, excluded, w, L, M),
         ~ Ambiguous(one, other, excluded), ~ Ambiguous(other, one, excluded),
         NEW i \in DOMAIN Sorted, L[i - 1] = M[i - 1]
  PROVE  /\ i \in Listed(one, excluded) <=> i \in Listed(other, excluded)
         /\ i \in Listed(one, excluded) => Bytes(one, Sorted[i]) = Bytes(other, Sorted[i])
         /\ L[i] = M[i]
<1>1. SamePrint(other, one, excluded, w, M, L) BY DEF SamePrint
<1>2. i \in Listed(one, excluded) <=> i \in Listed(other, excluded) BY <1>1, ListedTogether
<1>3. CASE i \notin Listed(one, excluded)
  BY <1>2, <1>3 DEF SamePrint, Placed
<1>4. CASE i \in Listed(one, excluded)
  <2> DEFINE n == Len(Bytes(one, Sorted[i]))  m == Len(Bytes(other, Sorted[i]))
  <2>1. n \in Nat /\ m \in Nat
    <3>1. IsEntry(one, excluded, w, L, i) /\ IsEntry(other, excluded, w, M, i)
      BY <1>2, <1>4, EntryFacts DEF SamePrint
    <3> QED BY <3>1 DEF IsEntry
  <2>2. ~ (n < m) BY <1>2, <1>4, ShorterIsAmbiguous
  <2>3. ~ (m < n) BY <1>1, <1>2, <1>4, ShorterIsAmbiguous
  <2>4. n = m
    <3> HIDE DEF n, m
    <3> QED BY <2>1, <2>2, <2>3
  <2> QED BY <1>2, <1>4, <2>4, SameSizeSameBytes
<1> QED BY <1>2, <1>3, <1>4

LEMMA AmbiguousSymmetric ==
  ASSUME NEW one, NEW other, NEW excluded, Ambiguous(one, other, excluded)
  PROVE  Ambiguous(other, one, excluded)
BY DEF Ambiguous

(* tree_fingerprint, as tree_fingerprint(export) != export_before and        *)
(* tree_fingerprint(repository) != repository_before use it: trees that have *)
(* the same fingerprint have the same files with the same contents, or else  *)
(* one is where the paths and the contents of files can be confused.         *)
THEOREM FingerprintTells ==
  ASSUME NEW one, IsTree(one), NEW other, IsTree(other), NEW excluded,
         Fingerprint(one, excluded) = Fingerprint(other, excluded)
  PROVE  SameFiles(one, other, excluded) \/ Ambiguous(one, other, excluded)
<1> SUFFICES ASSUME ~ Ambiguous(one, other, excluded) PROVE SameFiles(one, other, excluded) OBVIOUS
<1>1. ~ Ambiguous(other, one, excluded) BY AmbiguousSymmetric
<1> DEFINE w == Fingerprint(one, excluded)  N == Len(Sorted)
<1>2. PICK L : Placed(one, excluded, w, L) BY FingerprintIsPlaced
<1>3. PICK M : Placed(other, excluded, w, M) BY FingerprintIsPlaced
<1> HIDE DEF w
<1>4. SamePrint(one, other, excluded, w, L, M) BY <1>2, <1>3 DEF SamePrint
<1>5. ASSUME NEW i \in DOMAIN Sorted, L[i - 1] = M[i - 1]
      PROVE  /\ i \in Listed(one, excluded) <=> i \in Listed(other, excluded)
             /\ i \in Listed(one, excluded) => Bytes(one, Sorted[i]) = Bytes(other, Sorted[i])
             /\ L[i] = M[i]
  BY <1>1, <1>4, <1>5, EntriesAgree
<1>6. N \in Nat /\ DOMAIN Sorted = 1..N BY SortedFacts
<1> DEFINE T == {i \in 0..N : L[i] # M[i]}
<1>7. ASSUME T # {} PROVE FALSE
  <2>1. PICK n \in T : \A m \in T : n <= m
    <3>1. T \subseteq Nat BY <1>6
    <3> HIDE DEF T
    <3> QED BY <1>7, <3>1, Smallest
  <2>2. n \in 0..N /\ L[n] # M[n] OBVIOUS
  <2>3. n # 0 BY <2>2, <1>2, <1>3 DEF Placed
  <2>4. n \in 1..N /\ n - 1 \in 0..N /\ ~ (n <= n - 1) BY <1>6, <2>2, <2>3
  <2>5. L[n - 1] = M[n - 1] BY <2>1, <2>4
  <2> HIDE DEF T
  <2> QED BY <1>5, <1>6, <2>2, <2>4, <2>5
<1>8. ASSUME NEW i \in DOMAIN Sorted PROVE L[i - 1] = M[i - 1]
  <2>1. i - 1 \in 0..N BY <1>6
  <2> QED BY <1>7, <2>1
<1>9. ASSUME NEW p PROVE p \in FilesIn(one, excluded) => p \in FilesIn(other, excluded) /\ Bytes(one, p) = Bytes(other, p)
  <2> SUFFICES ASSUME p \in FilesIn(one, excluded) PROVE p \in FilesIn(other, excluded) /\ Bytes(one, p) = Bytes(other, p)
    OBVIOUS
  <2>1. p \in Paths BY BytesAreTokens
  <2>2. PICK i \in DOMAIN Sorted : p = Sorted[i] BY <2>1 DEF Paths
  <2>3. i \in Listed(one, excluded) BY <2>2 DEF Listed
  <2> QED BY <1>5, <1>8, <2>2, <2>3 DEF Listed
<1>10. ASSUME NEW p \in FilesIn(other, excluded) PROVE p \in FilesIn(one, excluded)
  <2>1. p \in Paths BY BytesAreTokens
  <2>2. PICK i \in DOMAIN Sorted : p = Sorted[i] BY <2>1 DEF Paths
  <2>3. i \in Listed(other, excluded) BY <2>2 DEF Listed
  <2> QED BY <1>5, <1>8, <2>2, <2>3 DEF Listed
<1> QED BY <1>9, <1>10 DEF SameFiles
=============================================================================
