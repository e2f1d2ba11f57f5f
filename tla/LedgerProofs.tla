---------------------------- MODULE LedgerProofs ----------------------------
(***************************************************************************)
(* Facts about histories and their prefixes, about what VerifyState        *)
(* accepts and about what LcServer answers, for every history, state,      *)
(* answer and request.                                                     *)
(***************************************************************************)
EXTENDS LcServer, SequenceTheorems, FiniteSetTheorems, WellFoundedInduction, TLAPS

-----------------------------------------------------------------------------
(* Prefixes.                                                               *)

\* IsPrefix compares lengths and elements.
LEMMA PrefixElements ==
    ASSUME NEW S, NEW s \in Seq(S), NEW t \in Seq(S)
    PROVE  IsPrefix(s, t) <=>
             Len(s) <= Len(t) /\ \A i \in 1 .. Len(s) : s[i] = t[i]
<1>1. Len(s) \in Nat /\ Len(t) \in Nat
  BY LenProperties
<1>2. SubSeq(s, 1, Len(s)) = s
  BY SubSeqFull
<1>3. ASSUME Len(s) <= Len(t)
      PROVE  /\ SubSeq(t, 1, Len(s)) \in Seq(S)
             /\ Len(SubSeq(t, 1, Len(s))) = Len(s)
             /\ \A i \in 1 .. Len(s) : SubSeq(t, 1, Len(s))[i] = t[i]
  <2>1. \A i \in 1 .. Len(s) : t[i] \in S
    BY <1>1, <1>3, ElementOfSeq
  <2> QED
    BY <1>1, <2>1, SubSeqProperties
<1>4. ASSUME Len(s) <= Len(t), \A i \in 1 .. Len(s) : s[i] = t[i]
      PROVE  s = SubSeq(t, 1, Len(s))
  BY <1>1, <1>3, <1>4, SeqEqual
<1> QED
  BY <1>1, <1>2, <1>3, <1>4 DEF IsPrefix

\* IsPrefix is reflexive.
LEMMA PrefixReflexive ==
    ASSUME NEW S, NEW s \in Seq(S)
    PROVE  IsPrefix(s, s)
<1>1. Len(s) \in Nat
  BY LenProperties
<1> QED
  BY <1>1 DEF IsPrefix

\* IsPrefix is transitive.
LEMMA PrefixTransitive ==
    ASSUME NEW S, NEW s \in Seq(S), NEW t \in Seq(S), NEW u \in Seq(S),
           IsPrefix(s, t), IsPrefix(t, u)
    PROVE  IsPrefix(s, u)
<1>1. Len(s) \in Nat /\ Len(t) \in Nat /\ Len(u) \in Nat
  BY LenProperties
<1>2. Len(s) <= Len(t) /\ \A i \in 1 .. Len(s) : s[i] = t[i]
  BY PrefixElements
<1>3. Len(t) <= Len(u) /\ \A i \in 1 .. Len(t) : t[i] = u[i]
  BY PrefixElements
<1>4. Len(s) <= Len(u) /\ \A i \in 1 .. Len(s) : s[i] = u[i]
  BY <1>1, <1>2, <1>3
<1> QED
  BY <1>4, PrefixElements

\* The empty history is a prefix of every history.
LEMMA PrefixEmpty ==
    ASSUME NEW S, NEW t \in Seq(S)
    PROVE  IsPrefix(<<>>, t)
<1> DEFINE e == <<>>
<1>1. e \in Seq(S) /\ Len(e) = 0 /\ Len(t) \in Nat
  BY EmptySeq, LenProperties
<1>2. Len(e) <= Len(t) /\ \A i \in 1 .. Len(e) : e[i] = t[i]
  BY <1>1
<1> HIDE DEF e
<1>3. IsPrefix(e, t)
  BY <1>1, <1>2, PrefixElements
<1> QED
  BY <1>3 DEF e

\* Two prefixes of one history are on the same branch.
LEMMA PrefixBranch ==
    ASSUME NEW S, NEW s \in Seq(S), NEW t \in Seq(S), NEW u \in Seq(S),
           IsPrefix(s, u), IsPrefix(t, u)
    PROVE  IsPrefix(s, t) \/ IsPrefix(t, s)
<1>1. Len(s) \in Nat /\ Len(t) \in Nat /\ Len(u) \in Nat
  BY LenProperties
<1>2. Len(s) <= Len(u) /\ \A i \in 1 .. Len(s) : s[i] = u[i]
  BY PrefixElements
<1>3. Len(t) <= Len(u) /\ \A i \in 1 .. Len(t) : t[i] = u[i]
  BY PrefixElements
<1>4. CASE Len(s) <= Len(t)
  BY <1>1, <1>2, <1>3, <1>4, PrefixElements
<1>5. CASE Len(t) <= Len(s)
  BY <1>1, <1>2, <1>3, <1>5, PrefixElements
<1> QED
  BY <1>1, <1>4, <1>5

-----------------------------------------------------------------------------
(* Reads.                                                                  *)

\* The state a verified read leads to is a state.
LEMMA GetNewStateType ==
    ASSUME NEW st \in ImmutableState, NEW item \in VerifiableEntry, NEW db \in DbName
    PROVE  GetNewState(st, item, db) \in ImmutableState
<1>1. ReadTx(item) \in Nat
  BY DEF ReadTx, VerifiableEntry, Reference, TxId
<1>2. item.dual.target \in History /\ item.signature \in Signature
  BY DEF VerifiableEntry, DualProof, Header
<1> QED
  BY <1>1, <1>2 DEF GetNewState, ImmutableState

\* A verified read is of an entry of the transaction of its header.
LEMMA GetIncluded ==
    ASSUME NEW st, NEW item, NEW key, VerifyGet(st, item, key)
    PROVE  ReadSpec(item, key) \in Eh(ReadHeader(st, item))
BY DEF VerifyGet, VerifyInclusion

\* A verified read is of a transaction on the branch of the trusted history,
\* and the history it leads to has both as prefixes.
LEMMA GetOnBranch ==
    ASSUME NEW st \in ImmutableState, NEW item \in VerifiableEntry, NEW key,
           NEW db, VerifyGet(st, item, key)
    PROVE  LET new == Digest(GetNewState(st, item, db))
               header == ReadHeader(st, item)
           IN  /\ header \in History
               /\ new \in History
               /\ IsPrefix(Digest(st), new)
               /\ IsPrefix(header, new)
               /\ IsPrefix(header, Digest(st)) \/ IsPrefix(Digest(st), header)
<1> DEFINE vTx == ReadTx(item)
           source == item.dual.source
           target == item.dual.target
<1>1. vTx \in Nat \ {0}
  BY DEF ReadTx, VerifiableEntry, Reference, TxId
<1>2. source \in History /\ target \in History
  BY DEF VerifiableEntry, DualProof, Header
<1>3. st.txId \in Nat /\ st.txHash \in History
  BY DEF ImmutableState
<1>4. CASE Forward(st, item) /\ st.txId = 0
  <2>1. Digest(st) = <<>> /\ Digest(GetNewState(st, item, db)) = target
    BY <1>1, <1>4 DEF Digest, GetNewState, Forward
  <2>2. ReadHeader(st, item) = target
    BY <1>4 DEF ReadHeader
  <2> QED
    BY <1>2, <2>1, <2>2, PrefixEmpty, PrefixReflexive DEF History
<1>5. CASE Forward(st, item) /\ st.txId > 0
  <2>1. Digest(st) = st.txHash /\ Digest(GetNewState(st, item, db)) = target
    BY <1>1, <1>3, <1>5 DEF Digest, GetNewState
  <2>2. ReadHeader(st, item) = target
    BY <1>5 DEF ReadHeader
  <2>3. IsPrefix(st.txHash, target)
    BY <1>5 DEF VerifyGet, VerifyDualProof
  <2> QED
    BY <1>2, <2>1, <2>2, <2>3, PrefixReflexive DEF History
<1>6. CASE ~Forward(st, item)
  <2>1. st.txId > 0
    BY <1>1, <1>3, <1>6 DEF Forward
  <2>2. Digest(st) = st.txHash /\ Digest(GetNewState(st, item, db)) = st.txHash
    BY <1>3, <1>6, <2>1 DEF Digest, GetNewState
  <2>3. ReadHeader(st, item) = source
    BY <1>6 DEF ReadHeader
  <2>4. IsPrefix(source, st.txHash)
    BY <1>6, <2>1 DEF VerifyGet, VerifyDualProof
  <2> QED
    BY <1>2, <1>3, <2>2, <2>3, <2>4, PrefixReflexive DEF History
<1> QED
  BY <1>3, <1>4, <1>5, <1>6

\* The state a verified read leads to is that of the transaction read, or the
\* one it was verified against.
LEMMA GetNewDigest ==
    ASSUME NEW st \in ImmutableState, NEW item \in VerifiableEntry, NEW db
    PROVE  Digest(GetNewState(st, item, db)) \in {Digest(st), ReadHeader(st, item)}
<1>1. ReadTx(item) \in Nat \ {0} /\ st.txId \in Nat
  BY DEF ReadTx, VerifiableEntry, Reference, TxId, ImmutableState
<1> QED
  BY <1>1 DEF Digest, GetNewState, ReadHeader, Forward

-----------------------------------------------------------------------------
(* Writes.                                                                 *)

\* The state a verified write leads to is a state.
LEMMA SetNewStateType ==
    ASSUME NEW vTx \in VerifiableTx, NEW db \in DbName
    PROVE  SetNewState(vTx, db) \in ImmutableState
<1>1. vTx.header \in History /\ vTx.signature \in Signature
  BY DEF VerifiableTx, Header
<1>2. Len(vTx.header) \in Nat
  BY <1>1, LenProperties DEF History
<1> QED
  BY <1>1, <1>2 DEF SetNewState, ImmutableState

\* Each pair of a verified write is an entry of the transaction it made.
LEMMA SetIncluded ==
    ASSUME NEW st, NEW vTx, NEW kvs, NEW single, VerifySet(st, vTx, kvs, single),
           NEW i \in DOMAIN kvs
    PROVE  EncodeEntrySpec(kvs[i].key, vTx.body[i].deleted, kvs[i].value)
             \in Eh(vTx.header)
BY DEF VerifySet, VerifyInclusion

\* The history a verified write leads to extends the trusted one.
LEMMA SetExtends ==
    ASSUME NEW st \in ImmutableState, NEW vTx \in VerifiableTx, NEW kvs,
           NEW single, NEW db, VerifySet(st, vTx, kvs, single)
    PROVE  /\ Digest(SetNewState(vTx, db)) = vTx.header
           /\ vTx.header \in History
           /\ IsPrefix(Digest(st), vTx.header)
<1>1. vTx.header \in History /\ vTx.header # <<>>
  BY DEF VerifiableTx, Header
<1>2. Len(vTx.header) \in Nat \ {0}
  BY <1>1, EmptySeq DEF History
<1>3. Digest(SetNewState(vTx, db)) = vTx.header
  BY <1>2 DEF Digest, SetNewState
<1>4. st.txId \in Nat
  BY DEF ImmutableState
<1>5. CASE st.txId = 0
  BY <1>1, <1>3, <1>5, PrefixEmpty DEF Digest, History
<1>6. CASE st.txId > 0
  BY <1>1, <1>3, <1>6 DEF Digest, VerifySet, VerifyDualProof
<1> QED
  BY <1>4, <1>5, <1>6

-----------------------------------------------------------------------------
(* What the server has.                                                    *)

\* A set of naturals has a least element.
LEMMA LeastElement ==
    ASSUME NEW T \in SUBSET Nat, T # {}
    PROVE  \E x \in T : \A y \in T : x <= y
<1> DEFINE R == OpToRel(<, Nat)
<1>1. IsWellFoundedOn(R, Nat)
  BY NatLessThanWellFounded, Zenon
<1>2. \A x, y \in Nat : <<x, y>> \in R <=> x < y
  BY DEF OpToRel
<1> HIDE DEF R
<1>3. PICK x \in T : \A y \in T : ~(<<y, x>> \in R)
  BY <1>1, WFMin
<1>4. \A y \in T : ~(y < x)
  BY <1>2, <1>3, Zenon
<1> QED
  BY <1>4

\* A set of positions has a greatest element.
LEMMA GreatestElement ==
    ASSUME NEW n \in Nat, NEW S \in SUBSET (1 .. n), S # {}
    PROVE  Max(S) \in S
<1> DEFINE T == {d \in 0 .. n : n - d \in S}
<1>1. \A y \in S : y \in 1 .. n /\ n - y \in 0 .. n /\ n - (n - y) = y
  OBVIOUS
<1>2. T \in SUBSET Nat
  OBVIOUS
<1>3. \A y \in S : n - y \in T
  BY <1>1
<1>4. T # {}
  BY <1>3
<1>5. PICK m \in T : \A y \in T : m <= y
  BY <1>2, <1>4, LeastElement
<1>6. m \in 0 .. n /\ n - m \in S
  OBVIOUS
<1>7. \A y \in S : m <= n - y
  BY <1>3, <1>5
<1> HIDE DEF T
<1>8. \A y \in S : n - m >= y
  BY <1>1, <1>6, <1>7
<1> QED
  BY <1>6, <1>8 DEF Max

\* The first transactions of a history are a prefix of it.
LEMMA UptoPrefix ==
    ASSUME NEW h \in History, NEW n \in Nat, n <= Len(h)
    PROVE  /\ Upto(h, n) \in History
           /\ Len(Upto(h, n)) = n
           /\ \A i \in 1 .. n : Upto(h, n)[i] = h[i]
           /\ IsPrefix(Upto(h, n), h)
<1>1. h \in Seq(Tx) /\ Len(h) \in Nat
  BY LenProperties DEF History
<1>2. \A i \in 1 .. n : h[i] \in Tx
  BY <1>1, ElementOfSeq
<1>3. /\ Upto(h, n) \in Seq(Tx)
      /\ Len(Upto(h, n)) = n
      /\ \A i \in 1 .. n : Upto(h, n)[i] = h[i]
  BY <1>1, <1>2, SubSeqProperties DEF Upto
<1>4. IsPrefix(Upto(h, n), h)
  BY <1>1, <1>3, PrefixElements
<1> QED
  BY <1>3, <1>4 DEF History

\* A history is a prefix of what is committed after it.
LEMMA CommittedExtends ==
    ASSUME NEW h \in History, NEW e \in Nat, NEW entries \in SUBSET EntrySpec
    PROVE  LET longer == Committed(h, e, entries)
           IN  /\ longer \in History
               /\ Len(longer) = Len(h) + 1
               /\ longer[Len(longer)].entries = entries
               /\ IsPrefix(h, longer)
<1> DEFINE tx == [epoch |-> e, entries |-> entries]
           longer == Append(h, tx)
<1>1. h \in Seq(Tx) /\ Len(h) \in Nat /\ tx \in Tx
  BY LenProperties DEF History, Tx
<1>2. /\ longer \in Seq(Tx)
      /\ Len(longer) = Len(h) + 1
      /\ \A i \in 1 .. Len(h) : longer[i] = h[i]
      /\ longer[Len(h) + 1] = tx
  BY <1>1, AppendProperties
<1>3. tx.entries = entries
  OBVIOUS
<1> HIDE DEF longer, tx
<1>4. IsPrefix(h, longer)
  BY <1>1, <1>2, PrefixElements
<1>5. longer[Len(longer)].entries = entries
  BY <1>2, <1>3
<1> QED
  BY <1>2, <1>4, <1>5 DEF Committed, History, longer, tx

\* A request is answered from a transaction that has an entry for its key.
LEMMA LocatedType ==
    ASSUME NEW h \in History, NEW key, NEW atTx
    PROVE  LET n == Located(h, key, atTx)
           IN  /\ n \in Nat /\ n <= Len(h)
               /\ n # 0 => /\ EntryAt(h, key, n) \in h[n].entries
                           /\ EntryAt(h, key, n) \in EntrySpec
                           /\ EntryAt(h, key, n).key = key
<1> DEFINE txs == TxsOf(h, key) \cap (IF atTx = 0 THEN DOMAIN h ELSE {atTx})
<1>1. Len(h) \in Nat /\ DOMAIN h = 1 .. Len(h) /\ \A i \in 1 .. Len(h) : h[i] \in Tx
  BY LenProperties, ElementOfSeq DEF History
<1>2. txs \in SUBSET (1 .. Len(h)) /\ txs \subseteq TxsOf(h, key)
  BY <1>1 DEF TxsOf
<1>3. ASSUME NEW n \in TxsOf(h, key)
      PROVE  /\ EntryAt(h, key, n) \in h[n].entries
             /\ EntryAt(h, key, n) \in EntrySpec
             /\ EntryAt(h, key, n).key = key
  <2>1. n \in 1 .. Len(h) /\ \E e \in h[n].entries : e.key = key
    BY <1>1, <1>3 DEF TxsOf
  <2>2. EntryAt(h, key, n) \in h[n].entries /\ EntryAt(h, key, n).key = key
    BY <2>1 DEF EntryAt
  <2> QED
    BY <1>1, <2>1, <2>2 DEF Tx
<1> HIDE DEF txs
<1>4. CASE txs = {}
  BY <1>1, <1>4 DEF Located, txs
<1>5. CASE txs # {}
  <2>1. Max(txs) \in txs /\ Located(h, key, atTx) = Max(txs)
    BY <1>1, <1>2, <1>5, GreatestElement DEF Located, txs
  <2>2. Located(h, key, atTx) \in 1 .. Len(h) /\ Located(h, key, atTx) \in TxsOf(h, key)
    BY <1>2, <2>1
  <2> QED
    BY <1>1, <1>3, <2>2
<1> QED
  BY <1>4, <1>5

\* The two ends of a dual proof are of the ledger.
LEMMA DualProofOfLedger ==
    ASSUME NEW h \in History, NEW n \in Nat, n <= Len(h), NEW since \in Nat, since <= Len(h)
    PROVE  LET dual == DualProofFor(h, n, since)
           IN  IsPrefix(dual.source, h) /\ IsPrefix(dual.target, h)
<1> DEFINE from == IF since = 0 THEN n ELSE since
<1>1. from \in Nat /\ from <= Len(h)
  OBVIOUS
<1>2. IsPrefix(Upto(h, n), h) /\ IsPrefix(Upto(h, from), h)
  BY <1>1, UptoPrefix
<1> QED
  BY <1>2 DEF DualProofFor

\* A sequence is as long as another with its positions.
LEMMA SameInterval ==
    ASSUME NEW m \in Nat, NEW n \in Nat, 1 .. m = 1 .. n
    PROVE  m = n
<1>1. Cardinality(1 .. m) = m /\ Cardinality(1 .. n) = n
  BY FS_Interval
<1> QED
  BY <1>1

-----------------------------------------------------------------------------
(* An honest server is believed.                                           *)

\* A state is one the ledger has been in.
Of(st, h) == st.txId <= Len(h) /\ st.txHash = Upto(h, st.txId)

\* Of two beginnings of a history the shorter is a prefix of the longer.
LEMMA UptoOrdered ==
    ASSUME NEW h \in History, NEW m \in Nat, NEW n \in Nat, m <= n, n <= Len(h)
    PROVE  IsPrefix(Upto(h, m), Upto(h, n))
<1>1. Len(h) \in Nat
  BY LenProperties DEF History
<1>2. m <= Len(h)
  BY <1>1
<1>3. Upto(h, m) \in Seq(Tx) /\ Len(Upto(h, m)) = m /\ \A i \in 1 .. m : Upto(h, m)[i] = h[i]
  BY <1>2, UptoPrefix DEF History
<1>4. Upto(h, n) \in Seq(Tx) /\ Len(Upto(h, n)) = n /\ \A i \in 1 .. n : Upto(h, n)[i] = h[i]
  BY UptoPrefix DEF History
<1>5. \A i \in 1 .. m : Upto(h, m)[i] = Upto(h, n)[i]
  BY <1>3, <1>4
<1> QED
  BY <1>3, <1>4, <1>5, PrefixElements

\* The beginning of a history is that of a longer one.
LEMMA UptoOfLonger ==
    ASSUME NEW h \in History, NEW longer \in History, IsPrefix(h, longer),
           NEW n \in Nat, n <= Len(h)
    PROVE  n <= Len(longer) /\ Upto(longer, n) = Upto(h, n)
<1>1. Len(h) \in Nat /\ Len(longer) \in Nat
  BY LenProperties DEF History
<1>2. Len(h) <= Len(longer) /\ \A i \in 1 .. Len(h) : h[i] = longer[i]
  BY PrefixElements DEF History
<1>3. n <= Len(longer)
  BY <1>1, <1>2
<1>4. /\ Upto(h, n) \in Seq(Tx) /\ Len(Upto(h, n)) = n
      /\ \A i \in 1 .. n : Upto(h, n)[i] = h[i]
  BY UptoPrefix DEF History
<1>5. /\ Upto(longer, n) \in Seq(Tx) /\ Len(Upto(longer, n)) = n
      /\ \A i \in 1 .. n : Upto(longer, n)[i] = longer[i]
  BY <1>3, UptoPrefix DEF History
<1>6. \A i \in 1 .. n : Upto(longer, n)[i] = Upto(h, n)[i]
  BY <1>1, <1>2, <1>4, <1>5
<1> QED
  BY <1>3, <1>4, <1>5, <1>6, SeqEqual

\* A state of a ledger is one of the ledger when it has grown.
LEMMA OfLonger ==
    ASSUME NEW st, st.txId \in Nat, NEW h \in History, NEW longer \in History,
           IsPrefix(h, longer), Of(st, h)
    PROVE  Of(st, longer)
BY UptoOfLonger DEF Of

\* The transaction that ends the beginning of a history.
LEMMA EhUpto ==
    ASSUME NEW h \in History, NEW n \in Nat \ {0}, n <= Len(h)
    PROVE  Eh(Upto(h, n)) = h[n].entries
<1>1. Len(Upto(h, n)) = n /\ Upto(h, n)[n] = h[n]
  BY UptoPrefix
<1> QED
  BY <1>1 DEF Eh, Last

\* A verifiable answer names the transaction located, and the digest that is
\* looked for is that of the entry found there.
LEMMA ReadOfEntry ==
    ASSUME NEW h \in History, NEW key, NEW atTx, NEW since, NEW db, NEW vKey,
           Found(h, key, atTx),
           IsReference(EntryAt(h, key, Located(h, key, atTx))) \/ vKey = key
    PROVE  LET n == Located(h, key, atTx)
               item == VerifiableGet(h, key, atTx, since, db)
           IN  n # 0 /\ ReadTx(item) = n /\ ReadSpec(item, vKey) = EntryAt(h, key, n)
<1> DEFINE n == Located(h, key, atTx)
           e == EntryAt(h, key, n)
           item == VerifiableGet(h, key, atTx, since, db)
<1>1. n # 0
  BY DEF Found, HasValue
<1>2. e \in EntrySpec /\ e.key = key
  BY <1>1, LocatedType
<1>3. CASE e \in RefEntry
  <2>1. DOMAIN e = {"key", "deleted", "target", "atTx"}
    BY <1>3 DEF RefEntry
  <2>2. e \notin KVEntry
    <3>1. \A f \in KVEntry : DOMAIN f = {"key", "deleted", "value"}
      BY DEF KVEntry
    <3> QED
      BY <2>1, <3>1
  <2>3. HasValue(h, e.target, e.atTx)
    BY <2>2 DEF Found, HasValue
  <2> DEFINE m == Located(h, e.target, e.atTx)
             t == EntryAt(h, e.target, m)
             ref == [key |-> e.key, deleted |-> e.deleted, tx |-> n, atTx |-> e.atTx]
  <2>4. m # 0 /\ t.key = e.target
    <3>1. m # 0
      BY <2>3 DEF HasValue
    <3> QED
      BY <3>1, LocatedType
  <2>5. item.entry = t /\ item.ref = ref
    BY <1>3 DEF VerifiableGet, IsReference
  <2>6. ref # NoRef
    <3>1. "tx" \in DOMAIN ref /\ "tx" \notin DOMAIN NoRef
      BY DEF NoRef
    <3> QED
      BY <3>1
  <2>7. ref.tx = n /\ ref.key = e.key /\ ref.deleted = e.deleted /\ ref.atTx = e.atTx
    OBVIOUS
  <2>8. e = [key |-> e.key, deleted |-> e.deleted, target |-> e.target, atTx |-> e.atTx]
    BY <1>3 DEF RefEntry
  <2> HIDE DEF e, item, ref, t, m, n
  <2>9. ReadTx(item) = n
    BY <2>5, <2>6, <2>7 DEF ReadTx
  <2>10. ReadSpec(item, vKey) = e
    BY <2>4, <2>5, <2>6, <2>7, <2>8 DEF ReadSpec, EncodeReference
  <2> QED
    BY <1>1, <2>9, <2>10 DEF e, item, n
<1>4. CASE e \notin RefEntry
  <2>1. e \in KVEntry /\ vKey = key
    BY <1>2, <1>4 DEF EntrySpec, IsReference
  <2>2. item.entry = e /\ item.ref = NoRef /\ item.tx = n
    BY <1>4 DEF VerifiableGet, IsReference
  <2>3. e = [key |-> e.key, deleted |-> e.deleted, value |-> e.value]
    BY <2>1 DEF KVEntry
  <2> HIDE DEF e, item, n
  <2>4. ReadTx(item) = n
    BY <2>2 DEF ReadTx
  <2>5. ReadSpec(item, vKey) = e
    BY <1>2, <2>1, <2>2, <2>3 DEF ReadSpec, EncodeEntrySpec
  <2> QED
    BY <1>1, <2>4, <2>5 DEF e, item, n
<1> QED
  BY <1>3, <1>4

\* A value that can be served is found, and is an entry of the key.
LEMMA ValueRead ==
    ASSUME NEW h \in History, NEW key, NEW atTx, NEW since, NEW db,
           HasValue(h, key, atTx)
    PROVE  Found(h, key, atTx) /\ VerifiableGet(h, key, atTx, since, db).entry.key = key
<1> DEFINE e == EntryAt(h, key, Located(h, key, atTx))
<1>1. Located(h, key, atTx) # 0 /\ e \in KVEntry
  BY DEF HasValue
<1>2. e.key = key
  BY <1>1, LocatedType
<1>3. e \notin RefEntry
  <2>1. DOMAIN e = {"key", "deleted", "value"}
    BY <1>1 DEF KVEntry
  <2>2. \A f \in RefEntry : DOMAIN f = {"key", "deleted", "target", "atTx"}
    BY DEF RefEntry
  <2> QED
    BY <2>1, <2>2
<1>4. VerifiableGet(h, key, atTx, since, db).entry = e
  BY <1>3 DEF VerifiableGet, IsReference
<1> QED
  BY <1>2, <1>4 DEF Found

\* The answer to a read verifies against any state of the ledger, and leads to
\* a state of the ledger, signed if the server signs in the client's name.
LEMMA ReadComplete ==
    ASSUME NEW h \in History, NEW st \in ImmutableState, Of(st, h),
           NEW key, NEW atTx, NEW db, NEW vKey, Found(h, key, atTx),
           IsReference(EntryAt(h, key, Located(h, key, atTx))) \/ vKey = key,
           NEW name \in DbName
    PROVE  LET item == VerifiableGet(h, key, atTx, st.txId, db)
               new == GetNewState(st, item, name)
           IN  /\ VerifyGet(st, item, vKey)
               /\ Of(new, h)
               /\ db = name => CheckSignature(new)
<1> DEFINE n == Located(h, key, atTx)
           s == st.txId
           e == EntryAt(h, key, n)
           from == IF s = 0 THEN n ELSE s
           A == Upto(h, n)
           B == Upto(h, from)
           dual == DualProofFor(h, n, s)
           item == VerifiableGet(h, key, atTx, s, db)
           new == GetNewState(st, item, name)
<1>1. n # 0 /\ ReadTx(item) = n /\ ReadSpec(item, vKey) = e
  BY ReadOfEntry
<1>2. n \in Nat \ {0} /\ n <= Len(h) /\ e \in h[n].entries
  BY <1>1, LocatedType
<1>3. s \in Nat /\ s <= Len(h) /\ st.txHash = Upto(h, s)
  BY DEF Of, ImmutableState
<1>4. item.dual = dual /\ item.signature = Signed(db, dual.target)
      /\ item.inclusion = h[n].entries \ {e}
  BY DEF VerifiableGet, InclusionProof
<1> HIDE DEF item, n, s
<1>5. from \in Nat \ {0} /\ from <= Len(h)
  BY <1>2, <1>3
<1>6. /\ A \in History /\ Len(A) = n
      /\ B \in History /\ Len(B) = from
      /\ n <= from => IsPrefix(A, B)
      /\ from <= n => IsPrefix(B, A)
  BY <1>2, <1>5, UptoPrefix, UptoOrdered
<1>7. Eh(A) = h[n].entries
  BY <1>2, EhUpto
<1>8. dual = IF from <= n THEN [source |-> B, target |-> A] ELSE [source |-> A, target |-> B]
  BY DEF DualProofFor
<1>9. Forward(st, item) <=> s <= n
  BY <1>1 DEF Forward, s
<1>10. s > 0 => from = s /\ B = st.txHash
  BY <1>3
<1> HIDE DEF A, B, from, dual, e
<1>11. CASE s <= n
  <2>1. from <= n /\ dual.source = B /\ dual.target = A
    BY <1>2, <1>3, <1>8, <1>11 DEF from
  <2>2. ReadHeader(st, item) = A
    BY <1>4, <1>9, <1>11, <2>1 DEF ReadHeader
  <2>3. VerifyInclusion(item.inclusion, ReadSpec(item, vKey), Eh(ReadHeader(st, item)))
    BY <1>1, <1>2, <1>4, <1>7, <2>2 DEF VerifyInclusion
  <2>4. s > 0 => VerifyDualProof(dual, s, n, st.txHash, dual.target)
    BY <1>6, <1>10, <1>11, <2>1 DEF VerifyDualProof
  <2>5. VerifyGet(st, item, vKey)
    BY <1>1, <1>4, <1>9, <1>11, <2>3, <2>4 DEF VerifyGet, s
  <2>6. new.db = name /\ new.txId = n /\ new.txHash = A /\ new.signature = Signed(db, A)
    BY <1>1, <1>4, <1>9, <1>11, <2>1 DEF GetNewState
  <2>7. Of(new, h)
    BY <1>2, <2>6 DEF Of, A
  <2>8. db = name => CheckSignature(new)
    BY <1>6, <2>6 DEF CheckSignature, Signed, DbName
  <2> QED
    BY <2>5, <2>7, <2>8 DEF item, s
<1>12. CASE ~(s <= n)
  <2>1. s > 0 /\ from = s /\ ~(from <= n) /\ n <= from
    BY <1>2, <1>3, <1>10, <1>12
  <2>2. dual.source = A /\ dual.target = B /\ B = st.txHash
    BY <1>8, <1>10, <2>1
  <2>3. ReadHeader(st, item) = A
    BY <1>4, <1>9, <1>12, <2>2 DEF ReadHeader
  <2>4. VerifyInclusion(item.inclusion, ReadSpec(item, vKey), Eh(ReadHeader(st, item)))
    BY <1>1, <1>2, <1>4, <1>7, <2>3 DEF VerifyInclusion
  <2>5. VerifyDualProof(dual, n, s, dual.source, st.txHash)
    BY <1>2, <1>6, <2>1, <2>2 DEF VerifyDualProof
  <2>6. VerifyGet(st, item, vKey)
    BY <1>1, <1>4, <1>9, <1>12, <2>4, <2>5 DEF VerifyGet, s
  <2>7. new.db = name /\ new.txId = s /\ new.txHash = B /\ new.signature = Signed(db, B)
    BY <1>1, <1>4, <1>9, <1>12, <2>2 DEF GetNewState, s
  <2>8. Of(new, h)
    BY <1>3, <2>2, <2>7 DEF Of
  <2>9. db = name => CheckSignature(new)
    BY <1>6, <2>1, <2>7 DEF CheckSignature, Signed, DbName
  <2> QED
    BY <2>6, <2>8, <2>9 DEF item, s
<1> QED
  BY <1>11, <1>12

\* The entries a write commits.
EntriesOf(kvs) == {EncodeEntrySpec(kvs[i].key, FALSE, kvs[i].value) : i \in DOMAIN kvs}

\* The answer to a write of distinct keys verifies against any state of the
\* ledger before it, and leads to the state of the ledger after it, signed if
\* the server signs in the client's name.
LEMMA WriteComplete ==
    ASSUME NEW h \in History, NEW longer \in History, IsPrefix(h, longer),
           Len(longer) = Len(h) + 1, NEW st \in ImmutableState, Of(st, h),
           NEW kvs \in Seq(KeyValue), NEW single \in BOOLEAN, single => Len(kvs) = 1,
           \A i, j \in DOMAIN kvs : kvs[i].key = kvs[j].key => i = j,
           longer[Len(longer)].entries = EntriesOf(kvs), NEW db, NEW name \in DbName
    PROVE  LET vTx == VerifiableSet(longer, kvs, st.txId, db)
               new == SetNewState(vTx, name)
           IN  /\ VerifySet(st, vTx, kvs, single)
               /\ Of(new, longer)
               /\ db = name => CheckSignature(new)
<1> DEFINE vTx == VerifiableSet(longer, kvs, st.txId, db)
           new == SetNewState(vTx, name)
           n == Len(longer)
           s == st.txId
           spec(i) == EncodeEntrySpec(kvs[i].key, FALSE, kvs[i].value)
           body == [i \in DOMAIN kvs |-> spec(i)]
           entries == {spec(i) : i \in DOMAIN kvs}
           dual == DualProofFor(longer, n, s)
<1>1. /\ Len(h) \in Nat /\ n \in Nat \ {0} /\ n = Len(h) + 1
      /\ Len(kvs) \in Nat /\ DOMAIN kvs = 1 .. Len(kvs)
  BY LenProperties DEF History
<1>2. s \in Nat /\ s < n /\ s <= Len(longer) /\ st.txHash = Upto(longer, s)
  BY <1>1, UptoOfLonger DEF Of, ImmutableState
<1>3. Upto(longer, n) = longer
  BY SubSeqFull DEF History, Upto
<1>4. Eh(longer) = entries
  BY DEF Eh, Last, EntriesOf
<1>5. /\ vTx.header = longer /\ vTx.body = body /\ vTx.dual = dual
      /\ vTx.signature = Signed(db, dual.target)
  BY DEF VerifiableSet
<1>6. dual.target = longer /\ (s > 0 => dual.source = st.txHash)
  BY <1>1, <1>2, <1>3 DEF DualProofFor
<1>7. \A i \in DOMAIN kvs : /\ body[i] = spec(i) /\ spec(i).key = kvs[i].key
                            /\ body[i].key = kvs[i].key /\ body[i].deleted = FALSE
  BY DEF EncodeEntrySpec
<1>8. DOMAIN body = DOMAIN kvs /\ Len(body) = Len(kvs)
  <2>1. DOMAIN body = DOMAIN kvs
    OBVIOUS
  <2>2. body \in Seq(entries)
    <3>1. body \in [1 .. Len(kvs) -> entries]
      BY <1>1
    <3> HIDE DEF body, entries
    <3> QED
      BY <1>1, <3>1, SeqDef
  <2>3. Len(body) \in Nat /\ DOMAIN body = 1 .. Len(body)
    BY <2>2, LenProperties
  <2> QED
    BY <1>1, <2>1, <2>3, SameInterval
<1>9. Cardinality(entries) = Len(kvs)
  <2>1. body \in [1 .. Len(kvs) -> entries]
    BY <1>1
  <2>2. \A i, j \in 1 .. Len(kvs) : body[i] = body[j] => i = j
    <3>1. ASSUME NEW i \in DOMAIN kvs, NEW j \in DOMAIN kvs, body[i] = body[j]
          PROVE  i = j
      <4>1. kvs[i].key = kvs[j].key
        BY <1>7, <3>1
      <4> QED
        BY <4>1
    <3> QED
      BY <1>1, <3>1
  <2>3. \A e \in entries : \E i \in 1 .. Len(kvs) : body[i] = e
    BY <1>1
  <2> HIDE DEF body, entries
  <2>4. ExistsBijection(1 .. Len(kvs), entries)
    BY <2>1, <2>2, <2>3
       DEF ExistsBijection, Bijection, Injection, Surjection, IsInjective
  <2> QED
    BY <1>1, <2>4, FS_CountingElements
<1>10. ASSUME NEW i \in DOMAIN kvs
       PROVE  /\ HasProof(body, kvs[i].key)
              /\ VerifyInclusion(BodyProof(body, kvs[i].key),
                                 EncodeEntrySpec(kvs[i].key, body[i].deleted, kvs[i].value),
                                 entries)
  <2>1. EncodeEntrySpec(kvs[i].key, body[i].deleted, kvs[i].value) = spec(i)
    BY <1>7 DEF EncodeEntrySpec
  <2>2. \A j \in DOMAIN kvs : body[j].key # kvs[i].key <=> j # i
    BY <1>7
  <2>3. BodyProof(body, kvs[i].key) = {spec(j) : j \in DOMAIN kvs \ {i}}
    <3>1. {j \in DOMAIN body : body[j].key # kvs[i].key} = DOMAIN kvs \ {i}
      BY <1>8, <2>2
    <3>2. \A j \in DOMAIN kvs : body[j] = spec(j)
      BY <1>7
    <3> HIDE DEF body, spec
    <3> QED
      BY <3>1, <3>2 DEF BodyProof
  <2>4. \A j \in DOMAIN kvs \ {i} : spec(j) # spec(i)
    <3>1. \A j \in DOMAIN kvs \ {i} : kvs[j].key # kvs[i].key
      OBVIOUS
    <3>2. \A j \in DOMAIN kvs : spec(j).key = kvs[j].key
      BY <1>7
    <3> HIDE DEF spec
    <3> QED
      BY <3>1, <3>2
  <2>5. HasProof(body, kvs[i].key)
    BY <1>7, <1>8 DEF HasProof
  <2> HIDE DEF spec
  <2>6. spec(i) \notin BodyProof(body, kvs[i].key)
    BY <2>3, <2>4
  <2>7. BodyProof(body, kvs[i].key) \cup {spec(i)} = entries
    BY <2>3
  <2> QED
    BY <2>1, <2>5, <2>6, <2>7 DEF VerifyInclusion
<1>11. single => ~body[1].deleted
  <2>1. single => 1 \in DOMAIN kvs
    BY <1>1
  <2> HIDE DEF body
  <2> QED
    BY <1>7, <2>1
<1>12. s > 0 => VerifyDualProof(dual, s, n, st.txHash, longer)
  <2>1. Len(st.txHash) = s
    BY <1>2, UptoPrefix
  <2>2. IsPrefix(st.txHash, longer)
    BY <1>2, UptoPrefix
  <2> QED
    BY <1>1, <1>2, <1>6, <2>1, <2>2 DEF VerifyDualProof
<1>13. new.db = name /\ new.txId = n /\ new.txHash = longer /\ new.signature = Signed(db, longer)
  BY <1>5, <1>6 DEF SetNewState
<1> HIDE DEF vTx, new, body, entries, dual, s
<1>14. VerifySet(st, vTx, kvs, single)
  BY <1>4, <1>5, <1>6, <1>8, <1>9, <1>10, <1>11, <1>12 DEF VerifySet, s
<1>15. Of(new, longer)
  BY <1>1, <1>3, <1>13 DEF Of
<1>16. db = name => CheckSignature(new)
  BY <1>13 DEF CheckSignature, Signed, DbName
<1> QED
  BY <1>14, <1>15, <1>16 DEF vTx, new

\* So are the answers to CurrentState.
LEMMA CurrentComplete ==
    ASSUME NEW h \in History, NEW db \in DbName \cup {"none"}
    PROVE  /\ Of(CurrentState(h, db), h)
           /\ db # "none" => CheckSignature(CurrentState(h, db))
<1>1. Len(h) \in Nat /\ Upto(h, Len(h)) = h
  BY LenProperties, SubSeqFull DEF History, Upto
<1>2. Of(CurrentState(h, db), h)
  BY <1>1 DEF Of, CurrentState
<1>3. db # "none" => CheckSignature(CurrentState(h, db))
  BY DEF CheckSignature, CurrentState, Signed
<1> QED
  BY <1>2, <1>3

=============================================================================
