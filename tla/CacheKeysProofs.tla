--------------------------- MODULE CacheKeysProofs ---------------------------
(***************************************************************************)
(* How far a request and the one whose answer is found under its key are   *)
(* the same, for any requests and prefixes.                                *)
(***************************************************************************)
EXTENDS CacheKeys, SequenceTheorems, WellFoundedInduction, TLAPS

-----------------------------------------------------------------------------
(* Joining texts of a single line.                                         *)

\* A set of naturals has a least element.
LEMMA Least ==
    ASSUME NEW T \in SUBSET Nat, T # {}
    PROVE  \E x \in T : \A y \in T : ~(y < x)
<1> DEFINE R == OpToRel(<, Nat)
<1>1. IsWellFoundedOn(R, Nat)
  BY NatLessThanWellFounded, Zenon
<1>2. \A x, y \in Nat : <<x, y>> \in R <=> x < y
  BY DEF OpToRel
<1> HIDE DEF R
<1>3. PICK x \in T : \A y \in T : ~(<<y, x>> \in R)
  BY <1>1, WFMin
<1> QED
  BY <1>2, <1>3, Zenon

\* FlattenSeq of pieces of one line each is the sequence of their lines.
LEMMA FlattenLines ==
    ASSUME NEW T, NEW t \in Seq(T), t # <<>>,
           NEW pieces, pieces = [i \in 1 .. Len(t) |-> <<t[i]>>]
    PROVE  FlattenSeq(pieces) = t
<1> DEFINE n == Len(t)
           body(f) == [i \in 1 .. n |-> IF i = 1 THEN pieces[i] ELSE f[i - 1] \o pieces[i]]
           g == [i \in 1 .. n |-> SubSeq(t, 1, i)]
           f0 == CHOOSE f : f = body(f)
<1>1. n \in Nat /\ n > 0
  BY LenProperties, EmptySeq
<1>2. Len(pieces) = n
  <2> DEFINE U == {<<t[i]>> : i \in 1 .. n}
  <2>1. pieces \in [1 .. n -> U] /\ DOMAIN pieces = 1 .. n
    OBVIOUS
  <2> HIDE DEF n, U
  <2>2. pieces \in Seq(U)
    BY <1>1, <2>1, SeqDef
  <2>3. Len(pieces) \in Nat /\ DOMAIN pieces = 1 .. Len(pieces)
    BY <2>2, LenProperties
  <2> QED
    BY <1>1, <2>1, <2>3
<1>3. \A i \in 1 .. n : t[i] \in T
  BY <1>1, ElementOfSeq
<1>4. g = body(g)
  <2>1. ASSUME NEW i \in 1 .. n
        PROVE  g[i] = IF i = 1 THEN pieces[i] ELSE g[i - 1] \o pieces[i]
    <3>1. SubSeq(t, 1, i) = SubSeq(t, 1, i - 1) \o <<t[i]>>
      <4>1. 1 \in 1 .. n + 1 /\ i \in 1 .. n
        BY <1>1
      <4> QED
        BY <1>1, <4>1, SubSeqRecursiveSecond
    <3>2. CASE i = 1
      <4>1. SubSeq(t, 1, i - 1) = <<>>
        BY <3>2, SubSeqEmpty
      <4>2. <<t[i]>> \in Seq(T)
        BY <1>3
      <4>3. <<>> \o <<t[i]>> = <<t[i]>>
        BY <4>2, ConcatEmptySeq
      <4>4. SubSeq(t, 1, i) = <<t[i]>>
        BY <3>1, <4>1, <4>3
      <4>5. g[i] = <<t[i]>> /\ pieces[i] = <<t[i]>>
        BY <4>4
      <4> QED
        BY <3>2, <4>5
    <3>3. CASE i # 1
      <4>1. i - 1 \in 1 .. n
        BY <1>1, <3>3
      <4> QED
        BY <3>1, <3>3, <4>1
    <3> QED
      BY <3>2, <3>3
  <2> QED
    BY <2>1
<1>5. f0 = body(f0)
  <2> HIDE DEF body
  <2> QED
    BY <1>4
<1> HIDE DEF f0
<1>6. \A i \in 1 .. n : f0[i] = g[i]
  <2> DEFINE Bad == {i \in 1 .. n : f0[i] # g[i]}
  <2>1. SUFFICES ASSUME Bad # {} PROVE FALSE
    OBVIOUS
  <2>a. Bad \in SUBSET Nat
    BY <1>1
  <2>2. PICK i \in Bad : \A j \in Bad : ~(j < i)
    <3> HIDE DEF Bad
    <3> QED
      BY <2>1, <2>a, Least
  <2>3. i \in 1 .. n /\ f0[i] # g[i]
    OBVIOUS
  <2>4. i # 1 => i - 1 \in 1 .. n /\ f0[i - 1] = g[i - 1]
    <3>1. i - 1 \notin Bad
      <4>1. i \in Nat /\ i - 1 < i
        BY <2>3
      <4> HIDE DEF Bad
      <4> QED
        BY <2>2, <4>1
    <3> HIDE DEF g
    <3> QED
      BY <1>1, <2>3, <3>1
  <2>5. f0[i] = IF i = 1 THEN pieces[i] ELSE f0[i - 1] \o pieces[i]
    BY <1>5
  <2>6. g[i] = IF i = 1 THEN pieces[i] ELSE g[i - 1] \o pieces[i]
    BY <1>4
  <2> HIDE DEF g
  <2> QED
    BY <2>3, <2>4, <2>5, <2>6
<1>7. FlattenSeq(pieces) = f0[n]
  BY <1>1, <1>2 DEF FlattenSeq, f0
<1> QED
  BY <1>1, <1>6, <1>7, SubSeqFull

\* Texts of one line.
OneLine(T) == {x \in Seq(T) : Len(x) = 1}

\* What pieces of one line each are.
LEMMA OneLineEach ==
    ASSUME NEW T, NEW p \in Seq(OneLine(T))
    PROVE  /\ Len(p) \in Nat /\ DOMAIN p = 1 .. Len(p)
           /\ p \in Seq(Seq(T))
           /\ \A i \in 1 .. Len(p) : p[i] \in Seq(T) /\ Len(p[i]) = 1
<1>1. OneLine(T) \subseteq Seq(T)
  BY DEF OneLine
<1>2. p \in Seq(Seq(T)) /\ Len(p) \in Nat /\ DOMAIN p = 1 .. Len(p)
  BY <1>1, SeqMonotonic, LenProperties
<1>3. \A i \in 1 .. Len(p) : p[i] \in OneLine(T)
  BY ElementOfSeq
<1> QED
  BY <1>2, <1>3 DEF OneLine

\* So is Join, unless there is nothing to join.
LEMMA JoinLines ==
    ASSUME NEW T, NEW p \in Seq(OneLine(T))
    PROVE  Join(p) = IF p = <<>> THEN <<"">> ELSE [i \in 1 .. Len(p) |-> p[i][1]]
<1>1. CASE p = <<>>
  BY <1>1 DEF Join
<1>2. CASE p # <<>>
  <2> DEFINE n == Len(p)
             t == [i \in 1 .. n |-> p[i][1]]
  <2>1. n \in Nat /\ n # 0 /\ p \in [1 .. n -> Seq(T)]
    BY <1>2, OneLineEach, LenProperties, EmptySeq
  <2>2. ASSUME NEW i \in 1 .. n
        PROVE  p[i][1] \in T /\ p[i] = <<p[i][1]>>
    <3>1. p[i] \in Seq(T) /\ Len(p[i]) = 1
      BY OneLineEach
    <3>2. PICK s : s = p[i]
      OBVIOUS
    <3>3. s \in [1 .. 1 -> T]
      BY <3>1, <3>2, LenProperties
    <3> QED
      BY <3>2, <3>3
  <2>3. t \in [1 .. n -> T]
    BY <2>2
  <2>4. t \in Seq(T) /\ DOMAIN t = 1 .. n
    <3> HIDE DEF t, n
    <3> QED
      BY <2>1, <2>3, SeqDef
  <2>5. Len(t) = n
    <3>1. Len(t) \in Nat /\ DOMAIN t = 1 .. Len(t)
      BY <2>4, LenProperties
    <3> HIDE DEF t, n
    <3> QED
      BY <2>1, <2>4, <3>1
  <2>6. p = [i \in 1 .. n |-> <<t[i]>>]
    BY <2>1, <2>2
  <2>7. t # <<>>
    BY <2>1, <2>5, EmptySeq
  <2> HIDE DEF t, n
  <2>8. FlattenSeq(p) = t
    BY <2>4, <2>5, <2>6, <2>7, FlattenLines
  <2> QED
    BY <1>2, <2>8 DEF Join, t, n
<1> QED
  BY <1>1, <1>2

\* Pieces of one line each can be told from what they are joined to.
LEMMA JoinTellsPieces ==
    ASSUME NEW T, NEW p \in Seq(OneLine(T)), NEW q \in Seq(OneLine(T)), p # <<>>, q # <<>>,
           Join(p) = Join(q)
    PROVE  p = q
<1> DEFINE s == [i \in 1 .. Len(p) |-> p[i][1]]
           t == [i \in 1 .. Len(q) |-> q[i][1]]
<1>1. s = t
  BY JoinLines
<1>2. Len(p) = Len(q)
  <2>1. Len(p) \in Nat /\ Len(q) \in Nat
    BY LenProperties
  <2>2. 1 .. Len(p) = 1 .. Len(q)
    BY <1>1
  <2> QED
    BY <2>1, <2>2
<1>3. ASSUME NEW i \in 1 .. Len(p)
      PROVE  p[i] = q[i]
  <2>1. p[i] \in Seq(T) /\ Len(p[i]) = 1 /\ q[i] \in Seq(T) /\ Len(q[i]) = 1
    BY <1>2, OneLineEach
  <2>2. p[i][1] = q[i][1]
    <3>1. s[i] = p[i][1] /\ t[i] = q[i][1]
      BY <1>2
    <3> HIDE DEF s, t
    <3> QED
      BY <1>1, <3>1
  <2> QED
    BY <2>1, <2>2, SeqEqual
<1> QED
  BY <1>2, <1>3, SeqEqual

\* Nothing joined reads as one empty line.
LEMMA JoinOfNothing ==
    ASSUME NEW T, NEW q \in Seq(OneLine(T)), q # <<>>, Join(<<>>) = Join(q)
    PROVE  Len(q) = 1 /\ q[1] = <<"">>
<1> DEFINE t == [i \in 1 .. Len(q) |-> q[i][1]]
<1>1. t = <<"">>
  BY JoinLines DEF Join
<1>2. Len(q) \in Nat /\ 1 .. Len(q) = 1 .. 1
  <2>1. Len(q) \in Nat
    BY LenProperties
  <2>2. DOMAIN t = 1 .. Len(q)
    OBVIOUS
  <2>3. DOMAIN <<"">> = 1 .. 1
    OBVIOUS
  <2> HIDE DEF t
  <2> QED
    BY <1>1, <2>1, <2>2, <2>3
<1>3. Len(q) = 1
  <2>1. 1 \in 1 .. Len(q)
    BY <1>2
  <2>2. Len(q) \in 1 .. Len(q)
    BY <1>2, <2>1
  <2>3. Len(q) \in 1 .. 1
    BY <1>2, <2>2
  <2> QED
    BY <1>2, <2>3
<1>4. q[1][1] = ""
  <2>1. t[1] = q[1][1]
    BY <1>3
  <2> HIDE DEF t
  <2> QED
    BY <1>1, <2>1
<1>5. q[1] \in Seq(T) /\ Len(q[1]) = 1
  BY <1>3, OneLineEach
<1>6. PICK s : s = q[1]
  OBVIOUS
<1>7. s \in [1 .. 1 -> T]
  BY <1>5, <1>6, LenProperties
<1>8. s = <<s[1]>>
  BY <1>7
<1> QED
  BY <1>3, <1>4, <1>6, <1>8

\* Where a concatenation is taken apart at the same place, its parts are equal.
LEMMA SplitEqual ==
    ASSUME NEW S, NEW a \in Seq(S), NEW b \in Seq(S), NEW c \in Seq(S), NEW d \in Seq(S),
           a \o b = c \o d, Len(a) = Len(c)
    PROVE  a = c /\ b = d
<1>1. Len(a) \in Nat /\ Len(b) \in Nat /\ Len(d) \in Nat
  BY LenProperties
<1>2. /\ Len(a \o b) = Len(a) + Len(b)
      /\ \A i \in 1 .. Len(a) + Len(b) :
           (a \o b)[i] = IF i <= Len(a) THEN a[i] ELSE b[i - Len(a)]
  BY ConcatProperties
<1>3. /\ Len(c \o d) = Len(c) + Len(d)
      /\ \A i \in 1 .. Len(c) + Len(d) :
           (c \o d)[i] = IF i <= Len(c) THEN c[i] ELSE d[i - Len(c)]
  BY ConcatProperties
<1>4. Len(b) = Len(d)
  BY <1>1, <1>2, <1>3
<1>5. \A i \in 1 .. Len(a) : a[i] = c[i]
  BY <1>1, <1>2, <1>3, <1>4
<1>6. ASSUME NEW i \in 1 .. Len(b)
      PROVE  b[i] = d[i]
  <2>1. Len(a) + i \in 1 .. Len(a) + Len(b) /\ ~(Len(a) + i <= Len(a))
        /\ Len(a) + i - Len(a) = i
    BY <1>1
  <2> QED
    BY <1>2, <1>3, <1>4, <2>1
<1> QED
  BY <1>4, <1>5, <1>6, SeqEqual

\* So can prefixes of one length and what follows them, if something does.
LEMMA PrefixedTold ==
    ASSUME NEW T, NEW p \in Seq(OneLine(T)), NEW q \in Seq(OneLine(T)), Len(p) = Len(q),
           NEW a \in Seq(OneLine(T)), NEW b \in Seq(OneLine(T)), a # <<>>, b # <<>>,
           Join(p \o a) = Join(q \o b)
    PROVE  p = q /\ a = b
<1> DEFINE P == OneLine(T)
<1>1. PICK c, d : c = p \o a /\ d = q \o b
  OBVIOUS
<1>2. c \in Seq(P) /\ d \in Seq(P)
  BY <1>1, ConcatProperties
<1>3. c # <<>> /\ d # <<>>
  BY <1>1, ConcatEqualIffEmpty
<1>4. c = d
  BY <1>1, <1>2, <1>3, JoinTellsPieces
<1> QED
  BY <1>1, <1>4, SplitEqual

\* None of the texts is empty.
AllNamed(p) == \A i \in DOMAIN p : p[i] # <<"">>

\* And if none of the pieces that follow is empty, then even if there are none.
LEMMA PrefixedNamesTold ==
    ASSUME NEW T, NEW p \in Seq(OneLine(T)), NEW q \in Seq(OneLine(T)), Len(p) = Len(q),
           NEW a \in Seq(OneLine(T)), NEW b \in Seq(OneLine(T)),
           AllNamed(a), AllNamed(b),
           Join(p \o a) = Join(q \o b)
    PROVE  p = q /\ a = b
<1> DEFINE P == OneLine(T)
<1>1. PICK c, d : c = p \o a /\ d = q \o b
  OBVIOUS
<1>2. c \in Seq(P) /\ d \in Seq(P) /\ Len(c) = Len(p) + Len(a) /\ Len(d) = Len(q) + Len(b)
  BY <1>1, ConcatProperties
<1>3. Len(p) \in Nat /\ Len(a) \in Nat /\ Len(b) \in Nat
      /\ DOMAIN a = 1 .. Len(a) /\ DOMAIN b = 1 .. Len(b)
  BY LenProperties
<1>4. c # <<>> /\ d # <<>> => c = d
  BY <1>1, <1>2, JoinTellsPieces
<1>z. \A x, y \in Nat : x + y = 0 => x = 0 /\ y = 0
  OBVIOUS
<1>e. \A x \in Seq(P) : x = <<>> <=> Len(x) = 0
  BY EmptySeq
<1>5. c = <<>> => p = <<>> /\ a = <<>>
  <2>1. Len(c) = 0 => Len(p) = 0 /\ Len(a) = 0
    BY <1>2, <1>3, <1>z, Zenon
  <2> HIDE DEF P
  <2> QED
    BY <1>2, <1>e, <2>1 DEF P
<1>6. d = <<>> => q = <<>> /\ b = <<>>
  <2>1. Len(q) \in Nat
    BY LenProperties
  <2>2. Len(d) = 0 => Len(q) = 0 /\ Len(b) = 0
    BY <1>2, <1>3, <2>1, <1>z, Zenon
  <2> HIDE DEF P
  <2> QED
    BY <1>2, <1>e, <2>2 DEF P
<1>7. ASSUME c = <<>>, d # <<>> PROVE FALSE
  <2>1. p = <<>> /\ q = <<>>
    BY <1>3, <1>5, <1>7, EmptySeq
  <2>2. d = b
    BY <1>1, <2>1, ConcatEmptySeq
  <2>3. Join(<<>>) = Join(b)
    BY <1>1, <1>7, <2>2
  <2>4. Len(b) = 1 /\ b[1] = <<"">>
    BY <1>7, <2>2, <2>3, JoinOfNothing
  <2>5. DOMAIN b = 1 .. 1
    BY <1>3, <2>4, Zenon
  <2>6. 1 \in 1 .. 1
    OBVIOUS
  <2> QED
    BY <2>4, <2>5, <2>6, Zenon DEF AllNamed
<1>8. ASSUME c # <<>>, d = <<>> PROVE FALSE
  <2>1. p = <<>> /\ q = <<>>
    BY <1>3, <1>6, <1>8, EmptySeq
  <2>2. c = a
    BY <1>1, <2>1, ConcatEmptySeq
  <2>3. Join(<<>>) = Join(a)
    BY <1>1, <1>8, <2>2
  <2>4. Len(a) = 1 /\ a[1] = <<"">>
    BY <1>8, <2>2, <2>3, JoinOfNothing
  <2>5. DOMAIN a = 1 .. 1
    BY <1>3, <2>4, Zenon
  <2>6. 1 \in 1 .. 1
    OBVIOUS
  <2> QED
    BY <2>4, <2>5, <2>6, Zenon DEF AllNamed
<1>9. c = d
  BY <1>4, <1>7, <1>8
<1> QED
  BY <1>1, <1>9, SplitEqual

-----------------------------------------------------------------------------
(* Keys tell apart what is asked.                                          *)

\* The lines of texts, and those a constant, a number or a truth value is printed as.
Printed(xs) == Lines \cup ArtifactType \cup SearchType \cup {ToString(x) : x \in xs}

\* A text of one line, and a printed value, are pieces of one line.
LEMMA PiecesOfOneLine ==
    ASSUME NEW xs
    PROVE  /\ \A t \in Texts : Plain(t) => t \in OneLine(Printed(xs))
           /\ \A x \in xs : Line(x) \in OneLine(Printed(xs))
           /\ \A x \in ArtifactType \cup SearchType : <<x>> \in OneLine(Printed(xs))
<1>1. ASSUME NEW t \in Texts, Plain(t)
      PROVE  t \in OneLine(Printed(xs))
  <2>1. t \in Seq(Lines) /\ Len(t) = 1
    BY <1>1 DEF Texts, Plain
  <2>2. Lines \subseteq Printed(xs)
    BY DEF Printed
  <2>3. t \in Seq(Printed(xs))
    BY <2>1, <2>2, SeqMonotonic
  <2> QED
    BY <2>1, <2>3 DEF OneLine
<1>2. ASSUME NEW z \in Printed(xs)
      PROVE  <<z>> \in OneLine(Printed(xs))
  BY DEF OneLine
<1>3. ASSUME NEW x \in xs
      PROVE  Line(x) \in OneLine(Printed(xs))
  <2>1. ToString(x) \in Printed(xs)
    BY DEF Printed
  <2> QED
    BY <1>2, <2>1 DEF Line
<1>4. ASSUME NEW x \in ArtifactType \cup SearchType
      PROVE  <<x>> \in OneLine(Printed(xs))
  <2>1. x \in Printed(xs)
    BY DEF Printed
  <2> QED
    BY <1>2, <2>1
<1> QED
  BY <1>1, <1>3, <1>4

\* Texts of one line each are such pieces.
LEMMA PlainPieces ==
    ASSUME NEW xs, NEW p \in Seq(Texts), \A i \in DOMAIN p : Plain(p[i])
    PROVE  p \in Seq(OneLine(Printed(xs)))
<1>1. Len(p) \in Nat /\ p \in [1 .. Len(p) -> Texts] /\ DOMAIN p = 1 .. Len(p)
  BY LenProperties
<1>2. \A i \in 1 .. Len(p) : p[i] \in OneLine(Printed(xs))
  BY <1>1, PiecesOfOneLine
<1>3. p \in [1 .. Len(p) -> OneLine(Printed(xs))]
  BY <1>1, <1>2
<1> QED
  BY <1>1, <1>3, SeqDef

\* So are the prefixes of a caller.
LEMMA PrefixPieces ==
    ASSUME NEW xs, NEW p \in CallerPrefixes
    PROVE  p \in Seq(OneLine(Printed(xs)))
<1>1. p \in Seq(Texts) /\ \A i \in DOMAIN p : Plain(p[i])
  BY CacheKeysAssumption DEF Plain
<1> QED
  BY <1>1, PlainPieces

\* ArtifactsGetKey tells apart hashes, transactions and prefixes.
LEMMA ArtifactsTold ==
    ASSUME NEW r \in Requests["ArtifactsGet"], NEW s \in Requests["ArtifactsGet"],
           NEW p \in CallerPrefixes, NEW q \in CallerPrefixes,
           \A i \in DOMAIN r.Hashes : Plain(r.Hashes[i]),
           \A i \in DOMAIN s.Hashes : Plain(s.Hashes[i]),
           ArtifactsGetKey(r, p) = ArtifactsGetKey(s, q)
    PROVE  p = q /\ r.Hashes = s.Hashes /\ r.ProveSinceTx = s.ProveSinceTx
<1> DEFINE xs == {r.ProveSinceTx, s.ProveSinceTx}
           P == OneLine(Printed(xs))
           u == Line(r.ProveSinceTx)
           v == Line(s.ProveSinceTx)
<1>1. r.Hashes \in Seq(Texts) /\ s.Hashes \in Seq(Texts)
  BY CacheKeysAssumption DEF VCNArtifactsGetRequest
<1>2. r.Hashes \in Seq(P) /\ s.Hashes \in Seq(P)
  BY <1>1, PlainPieces
<1>3. p \in Seq(P) /\ q \in Seq(P) /\ Len(p) = Len(q)
  BY PrefixPieces, CacheKeysAssumption
<1>4. u \in P /\ v \in P
  BY PiecesOfOneLine
<1>h1. PICK g : g = r.Hashes
  OBVIOUS
<1>h2. PICK h : h = s.Hashes
  OBVIOUS
<1>k. Join((g \o p) \o <<u>>) = Join((h \o q) \o <<v>>)
  <2>1. ArtifactsGetKey(r, p) = Join((g \o p) \o <<u>>)
    BY <1>h1 DEF ArtifactsGetKey
  <2>2. ArtifactsGetKey(s, q) = Join((h \o q) \o <<v>>)
    BY <1>h2 DEF ArtifactsGetKey
  <2> QED
    BY <2>1, <2>2
<1> HIDE DEF u, v
<1>j. p = q /\ g = h /\ u = v
  <2>h. P = OneLine(Printed(xs))
    OBVIOUS
  <2> HIDE DEF P, xs
  <2>1. g \in Seq(P) /\ h \in Seq(P)
    BY <1>2, <1>h1, <1>h2
  <2>2. g \o p \in Seq(P) /\ Len(g \o p) = Len(g) + Len(p)
    BY <1>3, <2>1, ConcatProperties
  <2>3. h \o q \in Seq(P) /\ Len(h \o q) = Len(h) + Len(q)
    BY <1>3, <2>1, ConcatProperties
  <2>4. PICK a, b : a = g \o p /\ b = h \o q
    OBVIOUS
  <2>5. a \in Seq(P) /\ b \in Seq(P)
    BY <2>2, <2>3, <2>4
  <2>6. PICK y, z : y = <<u>> /\ z = <<v>>
    OBVIOUS
  <2>7. y \in Seq(P) /\ z \in Seq(P) /\ Len(y) = 1 /\ Len(z) = 1
    BY <1>4, <2>6
  <2>8. /\ a \o y \in Seq(P) /\ b \o z \in Seq(P)
        /\ Len(a \o y) = Len(a) + 1 /\ Len(b \o z) = Len(b) + 1
    <3>1. a \o y \in Seq(P) /\ Len(a \o y) = Len(a) + Len(y)
      BY <2>5, <2>7, ConcatProperties
    <3>2. b \o z \in Seq(P) /\ Len(b \o z) = Len(b) + Len(z)
      BY <2>5, <2>7, ConcatProperties
    <3> QED
      BY <2>7, <3>1, <3>2
  <2>9. Len(a) \in Nat /\ Len(b) \in Nat /\ Len(g) \in Nat /\ Len(h) \in Nat /\ Len(p) \in Nat
        /\ Len(q) \in Nat
    BY <1>3, <2>1, <2>5, LenProperties
  <2>10. PICK c, d : c = a \o y /\ d = b \o z
    OBVIOUS
  <2>11. c \in Seq(P) /\ d \in Seq(P) /\ c # <<>> /\ d # <<>>
    <3>1. Len(c) = Len(a) + 1 /\ Len(d) = Len(b) + 1
      BY <2>8, <2>10
    <3>2. Len(c) # 0 /\ Len(d) # 0
      BY <2>9, <3>1
    <3> QED
      BY <2>8, <2>10, <3>2, EmptySeq
  <2>12. Join(c) = Join(d)
    BY <1>k, <2>4, <2>6, <2>10
  <2>13. c = d
    BY <2>11, <2>12, <2>h, JoinTellsPieces
  <2>14. Len(a) = Len(b)
    BY <2>8, <2>9, <2>10, <2>13
  <2>15. a = b /\ y = z
    BY <2>5, <2>7, <2>10, <2>13, <2>14, SplitEqual
  <2>16. Len(g) = Len(h)
    BY <1>3, <2>2, <2>3, <2>4, <2>9, <2>15
  <2>17. g = h /\ p = q
    BY <1>3, <2>1, <2>4, <2>15, <2>16, SplitEqual
  <2> QED
    BY <2>6, <2>15, <2>17
<1>5. r.ProveSinceTx = s.ProveSinceTx
  BY <1>j, PrintingAssumption DEF u, v
<1> QED
  BY <1>5, <1>j, <1>h1, <1>h2

\* The fields of a search that SearchKey prints.
Selects(r) ==
    <<r.Hash, r.SignerID, <<r.AType>>, <<r.Type>>, Line(r.Limit), Line(r.Desc), Line(r.StartTS),
      Line(r.EndTS), r.AttachName, r.ArtifactName, r.UID>>

\* They are pieces of one line when the texts among them are.
LEMMA SearchPieces ==
    ASSUME NEW xs, NEW r \in Requests["Search"], {r.Limit, r.Desc, r.StartTS, r.EndTS} \subseteq xs,
           \A f \in {"Hash", "SignerID", "AttachName", "ArtifactName", "UID"} : Plain(r[f])
    PROVE  Selects(r) \in Seq(OneLine(Printed(xs))) /\ Selects(r) # <<>>
<1> DEFINE P == OneLine(Printed(xs))
<1>1. r \in VCNSearchRequest
  BY CacheKeysAssumption
<1>2. /\ r.Hash \in Texts /\ r.SignerID \in Texts /\ r.AttachName \in Texts
      /\ r.ArtifactName \in Texts /\ r.UID \in Texts
      /\ r.AType \in ArtifactType /\ r.Type \in SearchType
  <2>1. r.Hash \in Texts /\ r.SignerID \in Texts /\ r.AttachName \in Texts
    BY <1>1 DEF VCNSearchRequest
  <2>2. r.ArtifactName \in Texts /\ r.UID \in Texts
    BY <1>1 DEF VCNSearchRequest
  <2>3. r.AType \in ArtifactType /\ r.Type \in SearchType
    BY <1>1 DEF VCNSearchRequest
  <2> QED
    BY <2>1, <2>2, <2>3
<1>3. /\ Plain(r.Hash) /\ Plain(r.SignerID) /\ Plain(r.AttachName)
      /\ Plain(r.ArtifactName) /\ Plain(r.UID)
  OBVIOUS
<1>4. r.Hash \in P /\ r.SignerID \in P /\ r.AttachName \in P /\ r.ArtifactName \in P /\ r.UID \in P
  BY <1>2, <1>3, PiecesOfOneLine
<1>5. <<r.AType>> \in P /\ <<r.Type>> \in P
  BY <1>2, PiecesOfOneLine
<1>6. Line(r.Limit) \in P /\ Line(r.Desc) \in P /\ Line(r.StartTS) \in P /\ Line(r.EndTS) \in P
  BY PiecesOfOneLine
<1>7. PICK e1, e2 : e1 = <<r.AType>> /\ e2 = <<r.Type>>
  OBVIOUS
<1> HIDE DEF P
<1>8. Selects(r) \in Seq(P) /\ Len(Selects(r)) = 11
  BY <1>4, <1>5, <1>6, <1>7 DEF Selects
<1>9. PICK t : t = Selects(r)
  OBVIOUS
<1>10. t # <<>>
  <2>1. Len(t) = 11
    BY <1>8, <1>9
  <2>2. Len(<<>>) = 0
    OBVIOUS
  <2> QED
    BY <2>1, <2>2
<1> QED
  BY <1>8, <1>9, <1>10 DEF P

\* SearchKey tells apart all that selects or orders what is found.
LEMMA SearchTold ==
    ASSUME NEW r \in Requests["Search"], NEW s \in Requests["Search"],
           NEW p \in CallerPrefixes, NEW q \in CallerPrefixes,
           \A f \in {"Hash", "SignerID", "AttachName", "ArtifactName", "UID"} : Plain(r[f]),
           \A f \in {"Hash", "SignerID", "AttachName", "ArtifactName", "UID"} : Plain(s[f]),
           SearchKey(r, p) = SearchKey(s, q)
    PROVE  p = q /\ [r EXCEPT !.ContinuationToken = s.ContinuationToken] = s
<1> DEFINE xs == {r.Limit, r.Desc, r.StartTS, r.EndTS, s.Limit, s.Desc, s.StartTS, s.EndTS}
           P == OneLine(Printed(xs))
<1>1. p \in Seq(P) /\ q \in Seq(P) /\ Len(p) = Len(q)
  BY PrefixPieces, CacheKeysAssumption
<1>2. Selects(r) \in Seq(P) /\ Selects(r) # <<>>
  <2>1. {r.Limit, r.Desc, r.StartTS, r.EndTS} \subseteq xs
    OBVIOUS
  <2> HIDE DEF xs
  <2> QED
    BY <2>1, SearchPieces
<1>3. Selects(s) \in Seq(P) /\ Selects(s) # <<>>
  <2>1. {s.Limit, s.Desc, s.StartTS, s.EndTS} \subseteq xs
    OBVIOUS
  <2> HIDE DEF xs
  <2> QED
    BY <2>1, SearchPieces
<1>4. Join(p \o Selects(r)) = Join(q \o Selects(s))
  BY DEF SearchKey, Selects
<1>5. p = q /\ Selects(r) = Selects(s)
  <2>1. PICK a, b : a = Selects(r) /\ b = Selects(s)
    OBVIOUS
  <2>2. a \in Seq(P) /\ b \in Seq(P) /\ a # <<>> /\ b # <<>>
    BY <1>2, <1>3, <2>1
  <2>3. Join(p \o a) = Join(q \o b)
    BY <1>4, <2>1
  <2> HIDE DEF xs
  <2> QED
    BY <1>1, <2>1, <2>2, <2>3, PrefixedTold
<1>6. /\ r.Hash = s.Hash /\ r.SignerID = s.SignerID /\ <<r.AType>> = <<s.AType>>
      /\ <<r.Type>> = <<s.Type>> /\ Line(r.Limit) = Line(s.Limit) /\ Line(r.Desc) = Line(s.Desc)
      /\ Line(r.StartTS) = Line(s.StartTS) /\ Line(r.EndTS) = Line(s.EndTS)
      /\ r.AttachName = s.AttachName /\ r.ArtifactName = s.ArtifactName /\ r.UID = s.UID
  BY <1>5 DEF Selects
<1>7. r.AType = s.AType /\ r.Type = s.Type
  BY <1>6
<1>8. r.Limit = s.Limit /\ r.Desc = s.Desc /\ r.StartTS = s.StartTS /\ r.EndTS = s.EndTS
  BY <1>6, PrintingAssumption
<1>9. r \in VCNSearchRequest /\ s \in VCNSearchRequest
  BY CacheKeysAssumption
<1> QED
  BY <1>5, <1>6, <1>7, <1>8, <1>9 DEF VCNSearchRequest

\* The hashes of a request for labels.
HashesOf(r) == [i \in DOMAIN r.Request |-> r.Request[i].Hash]

LEMMA HashesOfType ==
    ASSUME NEW r \in Requests["LabelsGet"]
    PROVE  HashesOf(r) \in Seq(Texts)
<1>1. r.Request \in Seq(LabelsGetRequest)
  BY CacheKeysAssumption DEF VCNLabelsGetRequest
<1>2. PICK t : t = r.Request
  OBVIOUS
<1>3. Len(t) \in Nat /\ DOMAIN t = 1 .. Len(t) /\ t \in [1 .. Len(t) -> LabelsGetRequest]
  BY <1>1, <1>2, LenProperties
<1>4. \A i \in 1 .. Len(t) : t[i].Hash \in Texts
  BY <1>3 DEF LabelsGetRequest
<1>5. HashesOf(r) \in [1 .. Len(t) -> Texts]
  BY <1>2, <1>3, <1>4 DEF HashesOf
<1> QED
  BY <1>3, <1>5, SeqDef

\* LabelsGetKey tells apart hashes, in their order, and prefixes.
LEMMA LabelsTold ==
    ASSUME NEW r \in Requests["LabelsGet"], NEW s \in Requests["LabelsGet"],
           NEW p \in CallerPrefixes, NEW q \in CallerPrefixes,
           \A i \in DOMAIN r.Request : Named(r.Request[i].Hash),
           \A i \in DOMAIN s.Request : Named(s.Request[i].Hash),
           LabelsGetKey(r, p) = LabelsGetKey(s, q)
    PROVE  p = q /\ HashesOf(r) = HashesOf(s)
<1> DEFINE P == OneLine(Printed({}))
<1>1. p \in Seq(P) /\ q \in Seq(P) /\ Len(p) = Len(q)
  BY PrefixPieces, CacheKeysAssumption
<1>2. HashesOf(r) \in Seq(Texts) /\ \A i \in DOMAIN HashesOf(r) : Named(HashesOf(r)[i])
  BY HashesOfType DEF HashesOf
<1>3. HashesOf(s) \in Seq(Texts) /\ \A i \in DOMAIN HashesOf(s) : Named(HashesOf(s)[i])
  BY HashesOfType DEF HashesOf
<1>4. PICK a, b : a = HashesOf(r) /\ b = HashesOf(s)
  OBVIOUS
<1>5. Join(p \o a) = Join(q \o b)
  BY <1>4 DEF LabelsGetKey, HashesOf
<1>6. a \in Seq(P) /\ b \in Seq(P) /\ AllNamed(a) /\ AllNamed(b)
  BY <1>2, <1>3, <1>4, PlainPieces DEF Named, AllNamed
<1> HIDE DEF P
<1>7. p = q /\ a = b
  <2>1. PICK T : T = Printed({})
    OBVIOUS
  <2>2. P = OneLine(T)
    BY <2>1 DEF P
  <2>3. /\ p \in Seq(OneLine(T)) /\ q \in Seq(OneLine(T))
        /\ a \in Seq(OneLine(T)) /\ b \in Seq(OneLine(T))
    BY <1>1, <1>6, <2>2
  <2>4. AllNamed(a) /\ AllNamed(b)
    BY <1>6
  <2>5. Len(p) = Len(q)
    BY <1>1
  <2> QED
    BY <1>5, <2>3, <2>4, <2>5, PrefixedNamesTold
<1> QED
  BY <1>4, <1>7

-----------------------------------------------------------------------------
(* The cache.                                                              *)

Questions == [request : Requests[kind], prefix : CallerPrefixes]
KeyOf(question) == GetKey(kind, question.request, question.prefix)

\* Each question is cached under its own key, and was found under the same key
\* as the one that was asked.
CachedUnderOwnKey ==
    \A key \in DOMAIN cache : cache[key] \in Questions /\ KeyOf(cache[key]) = key

HitHasSameKey ==
    hit # Nothing => /\ hit.asked \in Questions /\ hit.cached \in Questions
                     /\ KeyOf(hit.asked) = KeyOf(hit.cached)

CacheInv == kind \in Kinds /\ CachedUnderOwnKey /\ HitHasSameKey

LEMMA CacheInvariant == Spec => []CacheInv
<1>1. Init => CacheInv
  BY DEF Init, CacheInv, CachedUnderOwnKey, HitHasSameKey
<1>2. ASSUME CacheInv, [Next]_vars
      PROVE  CacheInv'
  <2> USE <1>2 DEF CacheInv
  <2>1. CASE UNCHANGED vars
    BY <2>1 DEF vars, CachedUnderOwnKey, HitHasSameKey, Questions, KeyOf
  <2>2. ASSUME NEW r \in Requests[kind], NEW prefix \in CallerPrefixes, Ask(r, prefix)
        PROVE  CacheInv'
    <3> DEFINE key == GetKey(kind, r, prefix)
               asked == [request |-> r, prefix |-> prefix]
    <3>1. kind' = kind
      BY <2>2 DEF Ask
    <3>2. asked \in Questions /\ KeyOf(asked) = key
      BY DEF Questions, KeyOf
    <3>3. CASE key \in DOMAIN cache
      <4>1. hit' = [asked |-> asked, cached |-> cache[key]] /\ cache' = cache
        BY <2>2, <3>3 DEF Ask
      <4>2. cache[key] \in Questions /\ KeyOf(cache[key]) = key
        BY <3>3 DEF CachedUnderOwnKey
      <4> HIDE DEF key, asked
      <4>3. hit'.asked = asked /\ hit'.cached = cache[key]
        BY <4>1
      <4>4. HitHasSameKey'
        BY <3>1, <3>2, <4>2, <4>3 DEF HitHasSameKey, Questions, KeyOf
      <4>5. CachedUnderOwnKey'
        BY <3>1, <4>1 DEF CachedUnderOwnKey, Questions, KeyOf
      <4> QED
        BY <3>1, <4>4, <4>5
    <3>4. CASE key \notin DOMAIN cache
      <4>1. /\ cache' = [k \in DOMAIN cache \cup {key} |-> IF k = key THEN asked ELSE cache[k]]
            /\ hit' = hit
        BY <2>2, <3>4 DEF Ask
      <4> HIDE DEF key, asked
      <4>2. ASSUME NEW k \in DOMAIN cache'
            PROVE  cache'[k] \in Questions /\ KeyOf(cache'[k]) = k
        <5>1. CASE k = key
          BY <3>2, <4>1, <5>1
        <5>2. CASE k # key
          <6>1. k \in DOMAIN cache /\ cache'[k] = cache[k]
            BY <4>1, <4>2, <5>2
          <6> QED
            BY <6>1 DEF CachedUnderOwnKey
        <5> QED
          BY <5>1, <5>2
      <4>3. CachedUnderOwnKey'
        BY <3>1, <4>2 DEF CachedUnderOwnKey, Questions, KeyOf
      <4>4. HitHasSameKey'
        BY <3>1, <4>1 DEF HitHasSameKey, Questions, KeyOf
      <4> QED
        BY <3>1, <4>3, <4>4
    <3> QED
      BY <3>3, <3>4
  <2> QED
    BY <2>1, <2>2 DEF Next
<1> QED
  BY <1>1, <1>2, PTL DEF Spec

\* Artifacts found under the key of a request are the answer to one that differs from
\* it in UID, SignerID and Verify at most, the fields VCNArtifactsGetRequest.GetKey
\* leaves out.
THEOREM ArtifactsOwn == Spec => []ArtifactsHitIsOwn
<1>1. ASSUME CacheInv PROVE ArtifactsHitIsOwn
  <2> SUFFICES ASSUME Hit("ArtifactsGet"),
                      \A r \in {Asked, Cached} : \A i \in DOMAIN r.Hashes : Plain(r.Hashes[i])
               PROVE  /\ hit.asked.prefix = hit.cached.prefix
                      /\ [Asked EXCEPT !.UID = Cached.UID, !.SignerID = Cached.SignerID,
                                       !.Verify = Cached.Verify] = Cached
    BY DEF ArtifactsHitIsOwn
  <2>1. kind = "ArtifactsGet" /\ hit.asked \in Questions /\ hit.cached \in Questions
        /\ KeyOf(hit.asked) = KeyOf(hit.cached)
    BY <1>1 DEF CacheInv, HitHasSameKey, Hit
  <2>2. /\ Asked \in Requests["ArtifactsGet"] /\ Cached \in Requests["ArtifactsGet"]
        /\ hit.asked.prefix \in CallerPrefixes /\ hit.cached.prefix \in CallerPrefixes
    BY <2>1 DEF Questions, Asked, Cached
  <2>3. ArtifactsGetKey(Asked, hit.asked.prefix) = ArtifactsGetKey(Cached, hit.cached.prefix)
    BY <2>1 DEF KeyOf, GetKey, Asked, Cached
  <2>4. /\ \A i \in DOMAIN Asked.Hashes : Plain(Asked.Hashes[i])
        /\ \A i \in DOMAIN Cached.Hashes : Plain(Cached.Hashes[i])
    OBVIOUS
  <2>5. /\ hit.asked.prefix = hit.cached.prefix
        /\ Asked.Hashes = Cached.Hashes /\ Asked.ProveSinceTx = Cached.ProveSinceTx
    BY <2>2, <2>3, <2>4, ArtifactsTold
  <2>6. Asked \in VCNArtifactsGetRequest /\ Cached \in VCNArtifactsGetRequest
    BY <2>2, CacheKeysAssumption
  <2>7. ASSUME NEW r \in VCNArtifactsGetRequest, NEW s \in VCNArtifactsGetRequest,
               r.Hashes = s.Hashes, r.ProveSinceTx = s.ProveSinceTx
        PROVE  [r EXCEPT !.UID = s.UID, !.SignerID = s.SignerID, !.Verify = s.Verify] = s
    BY <2>7 DEF VCNArtifactsGetRequest
  <2> QED
    BY <2>5, <2>6, <2>7
<1> QED
  BY <1>1, CacheInvariant, PTL

\* A search found under the key of another asks for the same, but for the page.
THEOREM SearchOwn == Spec => []SearchHitIsOwn
<1>1. ASSUME CacheInv PROVE SearchHitIsOwn
  <2> DEFINE texts == {"Hash", "SignerID", "AttachName", "ArtifactName", "UID"}
  <2> SUFFICES ASSUME Hit("Search"),
                      \A r \in {Asked, Cached} : \A f \in texts : Plain(r[f])
               PROVE  /\ hit.asked.prefix = hit.cached.prefix
                      /\ [Asked EXCEPT !.ContinuationToken = Cached.ContinuationToken] = Cached
    BY DEF SearchHitIsOwn
  <2>1. kind = "Search" /\ hit.asked \in Questions /\ hit.cached \in Questions
        /\ KeyOf(hit.asked) = KeyOf(hit.cached)
    BY <1>1 DEF CacheInv, HitHasSameKey, Hit
  <2>2. /\ Asked \in Requests["Search"] /\ Cached \in Requests["Search"]
        /\ hit.asked.prefix \in CallerPrefixes /\ hit.cached.prefix \in CallerPrefixes
    BY <2>1 DEF Questions, Asked, Cached
  <2>3. SearchKey(Asked, hit.asked.prefix) = SearchKey(Cached, hit.cached.prefix)
    BY <2>1 DEF KeyOf, GetKey, Asked, Cached
  <2>4. (\A f \in texts : Plain(Asked[f])) /\ (\A f \in texts : Plain(Cached[f]))
    <3> HIDE DEF texts
    <3> QED
      OBVIOUS
  <2> QED
    BY <2>2, <2>3, <2>4, SearchTold
<1> QED
  BY <1>1, CacheInvariant, PTL

\* Labels found under the key of a request are those of the same hashes, in order,
\* of whichever signers.
THEOREM LabelsOwn == Spec => []LabelsHitIsOwn
<1>1. ASSUME CacheInv PROVE LabelsHitIsOwn
  <2> SUFFICES ASSUME Hit("LabelsGet"),
                      \A r \in {Asked, Cached} :
                          \A i \in DOMAIN r.Request : Named(r.Request[i].Hash)
               PROVE  /\ hit.asked.prefix = hit.cached.prefix
                      /\ HashesOf(Asked) = HashesOf(Cached)
    BY DEF LabelsHitIsOwn, HashesOf
  <2>1. kind = "LabelsGet" /\ hit.asked \in Questions /\ hit.cached \in Questions
        /\ KeyOf(hit.asked) = KeyOf(hit.cached)
    BY <1>1 DEF CacheInv, HitHasSameKey, Hit
  <2>2. /\ Asked \in Requests["LabelsGet"] /\ Cached \in Requests["LabelsGet"]
        /\ hit.asked.prefix \in CallerPrefixes /\ hit.cached.prefix \in CallerPrefixes
    BY <2>1 DEF Questions, Asked, Cached
  <2>3. LabelsGetKey(Asked, hit.asked.prefix) = LabelsGetKey(Cached, hit.cached.prefix)
    BY <2>1 DEF KeyOf, GetKey, Asked, Cached
  <2>4. /\ \A i \in DOMAIN Asked.Request : Named(Asked.Request[i].Hash)
        /\ \A i \in DOMAIN Cached.Request : Named(Cached.Request[i].Hash)
    OBVIOUS
  <2> QED
    BY <2>2, <2>3, <2>4, LabelsTold
<1> QED
  BY <1>1, CacheInvariant, PTL

=============================================================================
