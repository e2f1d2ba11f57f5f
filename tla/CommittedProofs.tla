--------------------------- MODULE CommittedProofs ---------------------------
(***************************************************************************)
(* What the client keeps and returns against what the server has: only     *)
(* signed states are kept, what is returned as verified is in the ledger   *)
(* and no right answer is refused, as long as the ledger is not restored.  *)
(***************************************************************************)
EXTENDS TrustProofs

-----------------------------------------------------------------------------
(* Signed states.                                                          *)

\* Only operations that check a new state before they keep it are called.
ChecksFirst == \A cl \in Calls : CheckFirst(cl.op)

\* A state that is about to be kept has passed the check of its signature.
Passed(c) ==
    HasPubKey[c] /\ pc[c] \in {"cacheState", "setState"} => CheckSignature(newState[c])

SignedInv == Control /\ (\A c \in Clients : Passed(c)) /\ OnlySignedKept

\* The steps that keep a state, keep a signed one when a key is configured.
LEMMA SignedKept ==
    ASSUME SignedInv, NEW c \in Clients, CacheState(c) \/ SetState(c)
    PROVE  OnlySignedKept'
<1> DEFINE k == ApiKeyOf[c]
<1>1. TypeOK /\ k \in ApiKeys
  BY ClientAssumption DEF SignedInv, Control
<1>2. cache' = [cache EXCEPT ![k] = newState[c]]
  BY DEF CacheState, SetState
<1>3. HasPubKey[c] => CheckSignature(newState[c])
  BY DEF SignedInv, Passed, CacheState, SetState
<1>4. ASSUME NEW j \in ApiKeys, cache'[j] # NoState, \A d \in Clients : HasPubKey[d]
      PROVE  CheckSignature(cache'[j])
  <2>1. CASE j = k
    BY <1>1, <1>2, <1>3, <1>4, <2>1 DEF TypeOK
  <2>2. CASE j # k
    BY <1>1, <1>2, <1>4, <2>2 DEF TypeOK, SignedInv, OnlySignedKept
  <2> QED
    BY <2>1, <2>2
<1> QED
  BY <1>4 DEF OnlySignedKept

\* The other steps leave the cache alone.
LEMMA CacheUnchanged ==
    ASSUME NEW c \in Clients,
           \/ Begin(c) \/ CacheLock(c) \/ CacheLockFails(c) \/ GetStateHit(c)
           \/ GetStateMiss(c) \/ GetStateFails(c) \/ Serve(c) \/ ServeWrongly(c)
           \/ PartMissing(c) \/ RpcFails(c) \/ Retry(c) \/ Receive(c) \/ VerifyWrite(c) \/ VerifyRead(c)
           \/ SkipItem(c) \/ AllVerified(c) \/ SetStateFails(c) \/ CheckNewState(c)
           \/ Return(c) \/ Crash(c)
    PROVE  cache' = cache
BY DEF Begin, CacheLock, CacheLockFails, GetStateHit, GetStateMiss, GetStateFails, Serve,
   ServeWrongly, PartMissing, RpcFails, Retry, Receive, VerifyWrite, VerifyRead, SkipItem,
   AllVerified, SetStateFails, CheckNewState, Return, Crash

\* Apart from CurrentState and CheckNewState, no step leads to one that keeps
\* a state.
LEMMA NothingToKeep ==
    ASSUME ChecksFirst, SignedInv, NEW c \in Clients,
           \/ Begin(c) \/ CacheLock(c) \/ CacheLockFails(c) \/ GetStateHit(c)
           \/ CacheState(c) \/ GetStateFails(c) \/ Serve(c) \/ ServeWrongly(c)
           \/ PartMissing(c) \/ RpcFails(c) \/ Retry(c) \/ Receive(c) \/ VerifyWrite(c) \/ VerifyRead(c)
           \/ SkipItem(c) \/ AllVerified(c) \/ SetState(c) \/ SetStateFails(c)
           \/ Return(c) \/ Crash(c)
    PROVE  pc'[c] \notin {"cacheState", "setState"}
<1>1. TypeOK /\ Shape(c)
  BY DEF SignedInv, Control
<1>2. CASE VerifyWrite(c) \/ VerifyRead(c)
  <2>1. CheckFirst(call[c].op)
    BY <1>1, <1>2 DEF ChecksFirst, Shape, VerifyWrite, VerifyRead
  <2>2. AfterVerify(call[c].op) = "checkSignature"
    BY <2>1 DEF AfterVerify
  <2> QED
    BY <1>1, <1>2, <2>2 DEF VerifyWrite, VerifyRead, Finish, Goto, TypeOK
<1>3. CASE SetState(c)
  BY <1>1, <1>3 DEF SetState, Goto, TypeOK
<1>4. CASE CacheLockFails(c) \/ Return(c) \/ Crash(c)
  BY <1>1, <1>4 DEF CacheLockFails, Return, Crash, Reset, Goto, TypeOK
<1>5. CASE ServeWrongly(c) \/ SkipItem(c)
  BY <1>1, <1>5 DEF ServeWrongly, SkipItem, TypeOK
<1>6. CASE Receive(c) \/ GetStateFails(c) \/ RpcFails(c) \/ AllVerified(c) \/ SetStateFails(c)
           \/ PartMissing(c)
  BY <1>1, <1>6 DEF PartMissing, Receive, GetStateFails, RpcFails, AllVerified, SetStateFails, Finish,
     Goto, TypeOK
<1>7. CASE Begin(c) \/ CacheLock(c) \/ GetStateHit(c) \/ CacheState(c) \/ Serve(c) \/ Retry(c)
  BY <1>1, <1>7 DEF Begin, CacheLock, GetStateHit, CacheState, Serve, Retry, Goto, TypeOK
<1> QED
  BY <1>2, <1>3, <1>4, <1>5, <1>6, <1>7

\* The two that lead there check the signature.
LEMMA CheckedBefore ==
    ASSUME SignedInv, NEW c \in Clients, GetStateMiss(c) \/ CheckNewState(c)
    PROVE  Passed(c)'
<1>1. TypeOK /\ Passed(c)
  BY DEF SignedInv, Control
<1>2. CASE GetStateMiss(c)
  BY <1>1, <1>2 DEF GetStateMiss, Finish, Goto, Passed, TypeOK
<1>3. CASE CheckNewState(c)
  BY <1>1, <1>3 DEF CheckNewState, Finish, Goto, Passed, TypeOK
<1> QED
  BY <1>2, <1>3

\* A step of a client leaves the variables of the others.
LEMMA LocalStep ==
    ASSUME Control, NEW c \in Clients,
           \/ Begin(c) \/ CacheLock(c) \/ CacheLockFails(c) \/ Step(c)
           \/ ServeWrongly(c) \/ PartMissing(c) \/ Crash(c)
    PROVE  OnlyLocals(c)
<1>1. CASE Step(c)
  BY <1>1, ControlGetStateHit,
     ControlGetStateMiss,
     ControlCacheState,
     ControlGetStateFails,
     ControlServe,
     ControlRpcFails,
     ControlRetry,
     ControlReceive,
     ControlVerifyWrite,
     ControlVerifyRead,
     ControlSkipItem,
     ControlAllVerified,
     ControlSetState,
     ControlSetStateFails,
     ControlCheckNewState,
     ControlReturn DEF Step
<1> QED
  BY <1>1, ControlBegin, ControlCacheLock, ControlCacheLockFails, ControlServeWrongly,
     ControlPartMissing, ControlCrash

\* Every step keeps SignedInv.
LEMMA SignedStep ==
    ASSUME ChecksFirst, SignedInv, [Next]_vars
    PROVE  SignedInv'
<1>1. Control /\ Control'
  BY ControlStep DEF SignedInv
<1>2. ASSUME NEW c \in Clients,
             \/ Begin(c) \/ CacheLock(c) \/ CacheLockFails(c) \/ Step(c)
             \/ ServeWrongly(c) \/ PartMissing(c) \/ Crash(c)
      PROVE  SignedInv'
  <2>1. \A d \in Clients \ {c} : pc'[d] = pc[d] /\ newState'[d] = newState[d]
    BY <1>1, <1>2, LocalStep DEF OnlyLocals
  <2>2. \A d \in Clients \ {c} : Passed(d)'
    BY <2>1 DEF SignedInv, Passed
  <2>3. Passed(c)'
    BY <1>2, NothingToKeep, CheckedBefore DEF Passed, Step
  <2>4. OnlySignedKept'
    <3>1. CASE CacheState(c) \/ SetState(c)
      BY <3>1, SignedKept
    <3>2. CASE cache' = cache
      BY <3>2 DEF SignedInv, OnlySignedKept
    <3> QED
      BY <1>2, <3>1, <3>2, CacheUnchanged DEF Step
  <2> QED
    BY <1>1, <2>2, <2>3, <2>4 DEF SignedInv
<1>3. CASE (\E k \in ApiKeys : Write(k) \/ Restore(k)) \/ UNCHANGED vars
  <2>1. UNCHANGED <<cache, pc, newState>>
    BY <1>3 DEF Write, Restore, locals, vars
  <2> QED
    BY <1>1, <2>1 DEF SignedInv, Passed, OnlySignedKept
<1> QED
  BY <1>2, <1>3 DEF Next

\* With a server key configured for all clients, only signed states are kept,
\* if the operations called are of those that check the signature first
\* (VerifiedSet, StreamVerifiedSet, StreamVerifiedGet).
THEOREM SignedOnly ==
    ASSUME ChecksFirst
    PROVE  Spec => []OnlySignedKept
<1>1. Init => SignedInv
  BY ControlInit DEF Init, SignedInv, Passed, OnlySignedKept
<1>2. SignedInv /\ [Next]_vars => SignedInv'
  BY SignedStep
<1>3. SignedInv => OnlySignedKept
  BY DEF SignedInv
<1> QED
  BY <1>1, <1>2, <1>3, PTL DEF Spec

-----------------------------------------------------------------------------
(* Verified is committed.                                                  *)

\* The headers an answer shows the client.
HeadersOf(cl, a) ==
    IF cl.op \in SetOp THEN {a.header, a.dual.source, a.dual.target}
    ELSE UNION {{a[i].dual.source, a[i].dual.target} :
                  i \in {j \in DOMAIN a : a[j] # ItemError}}

\* Of the transactions with entries, a wrong answer shows only some on the
\* histories the right one shows.  (Of a transaction nobody committed the
\* client cannot know: on first contact, or past the last transaction it has
\* seen, it trusts the server's word.)
Unforged ==
    \A cl \in Calls : \A a \in AnswerTo(cl) : \A g \in Garbled(cl, a) \cap AnswerTo(cl) :
        \A header \in HeadersOf(cl, g) :
            Eh(header) # {} =>
                \E right \in HeadersOf(cl, a) : Eh(right) # {} /\ IsPrefix(header, right)

\* The client has an answer in hand.
InHand == {"answered", "verify", "setState", "checkSignature"}

\* What a client knows of transactions with entries is on the history h.
GenuineAt(c, h) ==
    /\ call[c].op \in SetOp => call[c].kvs # <<>>
    /\ state[c] # NoState => IsPrefix(Digest(state[c]), h)
    /\ newState[c] # NoState => IsPrefix(Digest(newState[c]), h)
    /\ pc[c] \in InHand =>
         \A header \in HeadersOf(call[c], answer[c]) :
             Eh(header) # {} => IsPrefix(header, h)
    /\ \A r \in accepted[c] : IsPrefix(r.header, h)

KeptGenuine ==
    \A k \in ApiKeys : cache[k] # NoState => IsPrefix(Digest(cache[k]), ledger[k])

Genuine ==
    /\ \A c \in Clients : GenuineAt(c, ledger[ApiKeyOf[c]])
    /\ KeptGenuine
    /\ VerifiedCommitted

GenuineInv == Inv /\ (epoch = 0 => Genuine)

\* The headers of an answer are histories.
LEMMA HeadersType ==
    ASSUME NEW cl, NEW a \in AnswerTo(cl), NEW header \in HeadersOf(cl, a)
    PROVE  header \in History
<1>1. CASE cl.op \in SetOp
  BY <1>1 DEF HeadersOf, AnswerTo, VerifiableTx, DualProof, Header
<1>2. CASE cl.op \notin SetOp
  <2>1. PICK i \in DOMAIN a : a[i] # ItemError /\ header \in {a[i].dual.source, a[i].dual.target}
    BY <1>2 DEF HeadersOf
  <2>2. a \in Seq(VerifiableEntry \cup {ItemError})
    BY <1>2 DEF AnswerTo
  <2>3. a[i] \in VerifiableEntry
    BY <2>1, <2>2, LenProperties, ElementOfSeq
  <2> QED
    BY <2>1, <2>3 DEF VerifiableEntry, DualProof, Header
<1> QED
  BY <1>1, <1>2

\* The server answers a read from the ledger it has.
LEMMA ServedRead ==
    ASSUME Control, NEW c \in Clients, Serve(c), call[c].op \notin SetOp
    PROVE  LET h == ledger[ApiKeyOf[c]]
               cl == call[c]
               since == ProveSinceTx(c)
           IN  /\ ledger' = ledger
               /\ answer'[c] \in AnswerTo(cl)
               /\ Len(answer'[c]) = Len(cl.reqs)
               /\ \E db \in ServerDbs : \E full \in [DOMAIN cl.reqs -> Keys] :
                  \A i \in DOMAIN answer'[c] :
                     \/ answer'[c][i] = ItemError
                     \/ /\ i \in DOMAIN cl.reqs
                        /\ full[i] \in AnsweredKeys(cl, cl.reqs[i])
                        /\ since <= Len(h)
                        /\ IF cl.op = "VCNGetArtifacts" THEN HasValue(h, full[i], 0)
                                                        ELSE Found(h, full[i], cl.reqs[i].atTx)
                        /\ answer'[c][i] = VerifiableGet(h, full[i], cl.reqs[i].atTx, since, db)
<1> DEFINE h == ledger[ApiKeyOf[c]]
           cl == call[c]
           since == ProveSinceTx(c)
           CanAnswer(key, req) ==
             /\ since <= Len(h)
             /\ IF cl.op = "VCNGetArtifacts" THEN HasValue(h, key, 0)
                                             ELSE Found(h, key, req.atTx)
           Item(i, full, db) == IF CanAnswer(full[i], cl.reqs[i])
                                THEN VerifiableGet(h, full[i], cl.reqs[i].atTx, since, db)
                                ELSE ItemError
           Answer(full, db) == [i \in DOMAIN cl.reqs |-> Item(i, full, db)]
<1>1. TypeOK /\ cl \in Call
  BY CallAssumption DEF Control, Shape, Serve
<1>2. ServeRead(c)
  BY DEF Serve
<1>3. PICK db \in ServerDbs, full \in [DOMAIN cl.reqs -> Keys] :
        /\ \A i \in DOMAIN cl.reqs : full[i] \in AnsweredKeys(cl, cl.reqs[i])
        /\ Deliver(c, Answer(full, db))
        /\ UNCHANGED ledger
  BY <1>2 DEF ServeRead
<1> HIDE DEF Item
<1>4. answer'[c] = Answer(full, db) /\ answer'[c] \in AnswerTo(cl)
  BY <1>1, <1>3 DEF Deliver, TypeOK
<1>5. DOMAIN answer'[c] = DOMAIN cl.reqs
      /\ \A i \in DOMAIN cl.reqs : answer'[c][i] = Item(i, full, db)
  BY <1>4
<1>6. Len(answer'[c]) = Len(cl.reqs)
  <2>1. answer'[c] \in Seq(VerifiableEntry \cup {ItemError})
    BY <1>4 DEF AnswerTo
  <2>2. cl.reqs \in Seq([key : Keys, atTx : Nat])
    BY <1>1 DEF Call
  <2>3. /\ Len(answer'[c]) \in Nat /\ DOMAIN answer'[c] = 1 .. Len(answer'[c])
        /\ Len(cl.reqs) \in Nat /\ DOMAIN cl.reqs = 1 .. Len(cl.reqs)
    BY <2>1, <2>2, LenProperties
  <2> QED
    BY <1>5, <2>3, SameInterval
<1>7. ASSUME NEW i \in DOMAIN answer'[c]
      PROVE  \/ answer'[c][i] = ItemError
             \/ /\ i \in DOMAIN cl.reqs
                /\ full[i] \in AnsweredKeys(cl, cl.reqs[i])
                /\ CanAnswer(full[i], cl.reqs[i])
                /\ answer'[c][i] = VerifiableGet(h, full[i], cl.reqs[i].atTx, since, db)
  BY <1>3, <1>5 DEF Item
<1> QED
  BY <1>3, <1>4, <1>6, <1>7

\* The server answers a write from the ledger it has made longer.
LEMMA ServedWrite ==
    ASSUME Control, NEW c \in Clients, Serve(c), call[c].op \in SetOp
    PROVE  LET k == ApiKeyOf[c]
               h == ledger[k]
               longer == ledger'[k]
               kvs == call[c].kvs
               since == ProveSinceTx(c)
           IN  /\ since \in Nat /\ since <= Len(h)
               /\ ledger' = [ledger EXCEPT ![k] = longer]
               /\ longer \in History
               /\ Len(longer) = Len(h) + 1
               /\ longer[Len(longer)].entries =
                    {EncodeEntrySpec(kvs[i].key, FALSE, kvs[i].value) : i \in DOMAIN kvs}
               /\ IsPrefix(h, longer)
               /\ \E db \in ServerDbs : answer'[c] = VerifiableSet(longer, kvs, since, db)
<1> DEFINE k == ApiKeyOf[c]
           h == ledger[k]
           kvs == call[c].kvs
           since == ProveSinceTx(c)
           entries == {EncodeEntrySpec(kvs[i].key, FALSE, kvs[i].value) : i \in DOMAIN kvs}
<1>1. TypeOK /\ k \in ApiKeys /\ call[c] \in Call
  BY ClientAssumption, CallAssumption DEF Control, Shape, Serve
<1>2. ServeWrite(c)
  BY DEF Serve
<1>3. PICK db \in ServerDbs :
        /\ since <= Len(h)
        /\ ledger' = [ledger EXCEPT ![k] = Committed(h, epoch, entries)]
        /\ Deliver(c, VerifiableSet(Committed(h, epoch, entries), kvs, since, db))
  BY <1>2 DEF ServeWrite
<1>4. entries \in SUBSET EntrySpec
  <2>1. \A i \in DOMAIN kvs : kvs[i] \in KeyValue
    BY <1>1, LenProperties, ElementOfSeq DEF Call
  <2>2. ASSUME NEW i \in DOMAIN kvs
        PROVE  EncodeEntrySpec(kvs[i].key, FALSE, kvs[i].value) \in KVEntry
    <3>1. kvs[i].key \in Keys /\ kvs[i].value \in Values
      BY <2>1 DEF KeyValue
    <3> QED
      BY <3>1 DEF EncodeEntrySpec, KVEntry
  <2> QED
    BY <2>2 DEF EntrySpec
<1>5. h \in History /\ epoch \in Nat
  BY <1>1 DEF TypeOK
<1>6. since \in Nat
  BY <1>1 DEF ProveSinceTx, Control, Shape, Serve, Trusting, ImmutableState, Call
<1> HIDE DEF entries
<1>7. ledger'[k] = Committed(h, epoch, entries)
  BY <1>1, <1>3 DEF TypeOK
<1>8. answer'[c] = VerifiableSet(ledger'[k], kvs, since, db)
  BY <1>1, <1>3, <1>7 DEF Deliver, TypeOK
<1>9. /\ ledger'[k] \in History
      /\ Len(ledger'[k]) = Len(h) + 1
      /\ ledger'[k][Len(ledger'[k])].entries = entries
      /\ IsPrefix(h, ledger'[k])
  <2> DEFINE longer == Committed(h, epoch, entries)
  <2>1. /\ longer \in History
        /\ Len(longer) = Len(h) + 1
        /\ longer[Len(longer)].entries = entries
        /\ IsPrefix(h, longer)
    BY <1>4, <1>5, CommittedExtends
  <2> HIDE DEF longer
  <2> QED
    BY <1>7, <2>1 DEF longer
<1> QED
  BY <1>3, <1>6, <1>7, <1>8, <1>9 DEF entries

\* A ledger that is not restored only grows.
LEMMA LedgerGrows ==
    ASSUME Control, [Next]_vars, epoch' = 0
    PROVE  epoch = 0 /\ \A k \in ApiKeys : IsPrefix(ledger[k], ledger'[k])
<1>1. TypeOK
  BY DEF Control
<1>2. \A k \in ApiKeys : ledger[k] \in History /\ IsPrefix(ledger[k], ledger[k])
  BY <1>1, PrefixReflexive DEF TypeOK, History
<1>3. CASE UNCHANGED <<ledger, epoch>>
  BY <1>2, <1>3
<1>4. ASSUME NEW c \in Clients, Serve(c)
      PROVE  epoch = 0 /\ \A k \in ApiKeys : IsPrefix(ledger[k], ledger'[k])
  <2>1. epoch' = epoch
    BY <1>4 DEF Serve
  <2>2. CASE call[c].op \in SetOp
    BY <1>1, <1>2, <1>4, <2>1, <2>2, ServedWrite DEF TypeOK
  <2>3. CASE call[c].op \notin SetOp
    BY <1>2, <1>4, <2>1, <2>3, ServedRead
  <2> QED
    BY <2>2, <2>3
<1>5. ASSUME NEW j \in ApiKeys, Write(j)
      PROVE  epoch = 0 /\ \A k \in ApiKeys : IsPrefix(ledger[k], ledger'[k])
  <2>1. PICK entries \in ForeignWrites :
          ledger' = [ledger EXCEPT ![j] = Committed(ledger[j], epoch, entries)]
    BY <1>5 DEF Write
  <2>2. IsPrefix(ledger[j], Committed(ledger[j], epoch, entries))
    BY <1>1, <1>2, ServerAssumption, CommittedExtends DEF TypeOK
  <2> QED
    BY <1>1, <1>2, <1>5, <2>1, <2>2 DEF TypeOK, Write
<1>6. ASSUME NEW j \in ApiKeys, Restore(j)
      PROVE  FALSE
  BY <1>1, <1>6 DEF TypeOK, Restore
<1>7. ASSUME NEW c \in Clients,
             \/ Begin(c) \/ CacheLock(c) \/ CacheLockFails(c)
             \/ ServeWrongly(c) \/ PartMissing(c) \/ Crash(c) \/ (Step(c) /\ ~Serve(c))
      PROVE  UNCHANGED <<ledger, epoch>>
  BY <1>7 DEF Begin, CacheLock, CacheLockFails, ServeWrongly, PartMissing, Crash, Step, GetStateHit,
     GetStateMiss, CacheState, GetStateFails, RpcFails, Retry, Receive, VerifyWrite,
     VerifyRead, SkipItem, AllVerified, SetState, SetStateFails, CheckNewState, Return
<1> QED
  BY <1>3, <1>4, <1>5, <1>6, <1>7 DEF Next, vars

\* What is genuine of a ledger is genuine of a longer one.
LEMMA GenuineGrows ==
    ASSUME Control', NEW c \in Clients, NEW h \in History, NEW longer \in History,
           IsPrefix(h, longer), GenuineAt(c, h)'
    PROVE  GenuineAt(c, longer)'
<1>1. TypeOK' /\ Shape(c)'
  BY DEF Control
<1>2. ASSUME NEW s \in History, IsPrefix(s, h)
      PROVE  IsPrefix(s, longer)
  BY <1>2, PrefixTransitive DEF History
<1>3. state'[c] # NoState => IsPrefix(Digest(state'[c]), longer)
  BY <1>1, <1>2, DigestType DEF GenuineAt, TypeOK
<1>4. newState'[c] # NoState => IsPrefix(Digest(newState'[c]), longer)
  BY <1>1, <1>2, DigestType DEF GenuineAt, TypeOK
<1>5. ASSUME pc'[c] \in InHand, NEW header \in HeadersOf(call'[c], answer'[c])
      PROVE  Eh(header) # {} => IsPrefix(header, longer)
  <2>1. answer'[c] \in AnswerTo(call'[c])
    BY <1>1, <1>5 DEF Shape, InHand, Answered
  <2>2. header \in History
    BY <1>5, <2>1, HeadersType
  <2>3. Eh(header) # {} => IsPrefix(header, h)
    BY <1>5 DEF GenuineAt
  <2> QED
    BY <1>2, <2>2, <2>3
<1>6. \A r \in accepted'[c] : IsPrefix(r.header, longer)
  BY <1>1, <1>2 DEF GenuineAt, TypeOK, Result
<1> QED
  BY <1>3, <1>4, <1>5, <1>6 DEF GenuineAt

\* The beginning of a call.
LEMMA GenuineBegin ==
    ASSUME Inv, NEW c \in Clients, NEW h, GenuineAt(c, h), Begin(c)
    PROVE  GenuineAt(c, h)'
<1>1. TypeOK
  BY DEF Inv, Control
<1>2. PICK cl \in Calls :
        /\ cl.op = "StreamVerifiedSet" => cl.kvs # <<>>
        /\ call' = [call EXCEPT ![c] = cl]
  BY DEF Begin
<1>3. cl.op \in SetOp => cl.kvs # <<>>
  BY <1>2, CallAssumption, EmptySeq DEF WellFormed, SetOp
<1>4. pc'[c] \notin InHand /\ call'[c] = cl
  BY <1>1, <1>2 DEF Begin, Goto, InHand, TypeOK
<1> QED
  BY <1>3, <1>4 DEF Begin, GenuineAt

\* The end of a call.
LEMMA GenuineEnd ==
    ASSUME Inv, NEW c \in Clients, NEW h, Reset(c)
    PROVE  GenuineAt(c, h)'
<1>1. TypeOK
  BY DEF Inv, Control
<1>2. /\ pc'[c] = "idle" /\ call'[c] = NoCall /\ state'[c] = NoState
      /\ newState'[c] = NoState /\ accepted'[c] = {}
  BY <1>1 DEF Reset, Goto, TypeOK
<1> QED
  BY <1>2 DEF GenuineAt, InHand, NoCall, SetOp

\* Steps that leave what the client knows alone.
LEMMA GenuineQuiet ==
    ASSUME Inv, NEW c \in Clients, NEW h, GenuineAt(c, h),
           \/ CacheLock(c) \/ RpcFails(c) \/ Receive(c) \/ SkipItem(c) \/ AllVerified(c)
           \/ SetState(c) \/ SetStateFails(c) \/ CheckNewState(c) \/ PartMissing(c)
    PROVE  GenuineAt(c, h)'
<1>1. TypeOK
  BY DEF Inv, Control
<1>2. UNCHANGED <<call, state, newState, answer, accepted>>
  BY DEF CacheLock, RpcFails, Receive, SkipItem, AllVerified, SetState, SetStateFails,
     CheckNewState, PartMissing
<1>3. pc'[c] \in InHand => pc[c] \in InHand
  <2>1. CASE CacheLock(c) \/ RpcFails(c) \/ AllVerified(c) \/ SetStateFails(c) \/ PartMissing(c)
    BY <1>1, <2>1 DEF PartMissing, CacheLock, RpcFails, AllVerified, SetStateFails, Finish, Goto, TypeOK,
       InHand
  <2>2. CASE Receive(c) \/ SkipItem(c) \/ SetState(c) \/ CheckNewState(c)
    BY <1>1, <2>2 DEF Receive, SkipItem, SetState, CheckNewState, InHand
  <2> QED
    BY <2>1, <2>2
<1> QED
  BY <1>2, <1>3 DEF GenuineAt

\* GetState: the kept state, or the current one of the ledger.
LEMMA GenuineGetState ==
    ASSUME Inv, NEW c \in Clients, NEW h, GenuineAt(c, h), KeptGenuine,
           h = ledger[ApiKeyOf[c]],
           GetStateHit(c) \/ GetStateMiss(c) \/ CacheState(c) \/ GetStateFails(c)
    PROVE  GenuineAt(c, h)'
<1>1. TypeOK /\ ApiKeyOf[c] \in ApiKeys
  BY ClientAssumption DEF Inv, Control
<1>2. UNCHANGED <<call, accepted>> /\ pc'[c] \notin InHand
  BY <1>1 DEF GetStateHit, GetStateMiss, CacheState, GetStateFails, Finish, Goto, TypeOK,
     InHand
<1>3. CASE GetStateHit(c)
  BY <1>1, <1>2, <1>3 DEF GetStateHit, KeptGenuine, GenuineAt, TypeOK
<1>4. CASE GetStateMiss(c)
  <2>1. \A db : Digest(CurrentState(h, db)) = IF Len(h) = 0 THEN <<>> ELSE h
    BY DEF Digest, CurrentState
  <2>2. h \in History
    BY <1>1 DEF TypeOK
  <2>3. \A db : IsPrefix(Digest(CurrentState(h, db)), h)
    BY <2>1, <2>2, PrefixEmpty, PrefixReflexive DEF History
  <2>4. \/ UNCHANGED newState
        \/ \E db \in ServerDbs : newState'[c] = CurrentState(h, db)
    BY <1>1, <1>4 DEF GetStateMiss, TypeOK
  <2> QED
    BY <1>2, <1>4, <2>3, <2>4 DEF GetStateMiss, GenuineAt
<1>5. CASE CacheState(c)
  BY <1>1, <1>2, <1>5 DEF CacheState, GenuineAt, TypeOK
<1>6. CASE GetStateFails(c)
  BY <1>1, <1>2, <1>6 DEF GetStateFails, GenuineAt, TypeOK
<1> QED
  BY <1>3, <1>4, <1>5, <1>6

\* A wrong answer shows what the right one showed.
LEMMA GenuineServeWrongly ==
    ASSUME Unforged, Inv, NEW c \in Clients, NEW h \in History, GenuineAt(c, h),
           ServeWrongly(c)
    PROVE  GenuineAt(c, h)'
<1>1. TypeOK /\ Shape(c)
  BY DEF Inv, Control
<1>2. pc[c] = "answered" /\ call[c] \in Calls /\ answer[c] \in AnswerTo(call[c])
  BY <1>1 DEF ServeWrongly, Shape
<1>3. UNCHANGED <<pc, call, state, newState, accepted>>
  BY DEF ServeWrongly
<1>4. answer'[c] \in Garbled(call[c], answer[c]) \cap AnswerTo(call[c])
  BY <1>1 DEF ServeWrongly, Deliver, TypeOK
<1>5. ASSUME NEW header \in HeadersOf(call[c], answer'[c]), Eh(header) # {}
      PROVE  IsPrefix(header, h)
  <2>1. PICK right \in HeadersOf(call[c], answer[c]) :
          Eh(right) # {} /\ IsPrefix(header, right)
    BY <1>2, <1>4, <1>5 DEF Unforged
  <2>2. IsPrefix(right, h)
    BY <1>2, <2>1 DEF GenuineAt, InHand
  <2>3. header \in History /\ right \in History
    BY <1>2, <1>4, <1>5, HeadersType
  <2> QED
    BY <2>1, <2>2, <2>3, PrefixTransitive DEF History
<1> QED
  BY <1>2, <1>3, <1>5 DEF GenuineAt

\* The transaction a request asks the proof from.
LEMMA SinceType ==
    ASSUME Control, NEW c \in Clients, pc[c] = "rpc"
    PROVE  ProveSinceTx(c) \in Nat
<1>1. call[c] \in Call /\ state[c] \in ImmutableState
  BY CallAssumption DEF Control, Shape, Trusting
<1> QED
  BY <1>1 DEF ProveSinceTx, ImmutableState, Call

\* The answer of the server shows what is in the ledger.
LEMMA ServedHeaders ==
    ASSUME Control, Control', NEW c \in Clients, Serve(c),
           NEW header \in HeadersOf(call[c], answer'[c])
    PROVE  IsPrefix(header, ledger'[ApiKeyOf[c]])
<1> DEFINE k == ApiKeyOf[c]
           since == ProveSinceTx(c)
<1>1. ledger[k] \in History /\ ledger'[k] \in History
  BY ClientAssumption DEF Control, TypeOK
<1>2. since \in Nat
  BY SinceType DEF Serve
<1> HIDE DEF since
<1>3. CASE call[c].op \in SetOp
  <2>1. PICK db \in ServerDbs :
          answer'[c] = VerifiableSet(ledger'[k], call[c].kvs, since, db)
    BY <1>3, ServedWrite DEF since
  <2>2. Len(ledger'[k]) = Len(ledger[k]) + 1 /\ since <= Len(ledger[k])
    BY <1>3, ServedWrite DEF since
  <2>3. Len(ledger'[k]) \in Nat /\ Len(ledger[k]) \in Nat
    BY <1>1, LenProperties DEF History
  <2>4. IsPrefix(ledger'[k], ledger'[k])
    BY <1>1, PrefixReflexive DEF History
  <2>5. LET dual == DualProofFor(ledger'[k], Len(ledger'[k]), since)
        IN  IsPrefix(dual.source, ledger'[k]) /\ IsPrefix(dual.target, ledger'[k])
    BY <1>1, <1>2, <2>2, <2>3, DualProofOfLedger
  <2>6. answer'[c].header = ledger'[k]
        /\ answer'[c].dual = DualProofFor(ledger'[k], Len(ledger'[k]), since)
    BY <2>1 DEF VerifiableSet
  <2> QED
    BY <1>3, <2>4, <2>5, <2>6 DEF HeadersOf
<1>4. CASE call[c].op \notin SetOp
  <2>1. PICK i \in DOMAIN answer'[c] :
          /\ answer'[c][i] # ItemError
          /\ header \in {answer'[c][i].dual.source, answer'[c][i].dual.target}
    BY <1>4 DEF HeadersOf
  <2>2. PICK key, atTx, db :
          /\ since <= Len(ledger[k])
          /\ answer'[c][i] = VerifiableGet(ledger[k], key, atTx, since, db)
    BY <1>4, <2>1, ServedRead DEF since
  <2> DEFINE n == Located(ledger[k], key, atTx)
  <2>3. answer'[c][i].dual = DualProofFor(ledger[k], n, since)
    BY <2>2 DEF VerifiableGet
  <2>4. n \in Nat /\ n <= Len(ledger[k])
    BY <1>1, LocatedType
  <2> HIDE DEF n
  <2>5. LET dual == DualProofFor(ledger[k], n, since)
        IN  IsPrefix(dual.source, ledger[k]) /\ IsPrefix(dual.target, ledger[k])
    BY <1>1, <1>2, <2>2, <2>4, DualProofOfLedger
  <2>6. ledger' = ledger
    BY <1>4, ServedRead
  <2> QED
    BY <2>1, <2>3, <2>5, <2>6
<1> QED
  BY <1>3, <1>4

\* The answer of the server is genuine.
LEMMA GenuineServe ==
    ASSUME Inv, Control', NEW c \in Clients, GenuineAt(c, ledger[ApiKeyOf[c]]), Serve(c),
           IsPrefix(ledger[ApiKeyOf[c]], ledger'[ApiKeyOf[c]]), NEW h,
           h = ledger'[ApiKeyOf[c]]
    PROVE  GenuineAt(c, h)'
<1> DEFINE g == ledger[ApiKeyOf[c]]
<1>1. TypeOK /\ g \in History /\ h \in History
  BY ClientAssumption DEF Inv, Control, TypeOK
<1>2. UNCHANGED <<call, state, newState, accepted>>
  BY DEF Serve
<1>3. ASSUME NEW s \in History, IsPrefix(s, g)
      PROVE  IsPrefix(s, h)
  BY <1>1, <1>3, PrefixTransitive DEF History
<1>4. state[c] # NoState => IsPrefix(Digest(state[c]), h)
  BY <1>1, <1>3, DigestType DEF GenuineAt, TypeOK
<1>5. newState[c] # NoState => IsPrefix(Digest(newState[c]), h)
  BY <1>1, <1>3, DigestType DEF GenuineAt, TypeOK
<1>6. \A r \in accepted[c] : IsPrefix(r.header, h)
  BY <1>1, <1>3 DEF GenuineAt, TypeOK, Result
<1>7. \A header \in HeadersOf(call[c], answer'[c]) : IsPrefix(header, h)
  BY ServedHeaders DEF Inv
<1> QED
  BY <1>2, <1>4, <1>5, <1>6, <1>7 DEF GenuineAt

\* An answer that is asked for again is forgotten.
LEMMA GenuineRetry ==
    ASSUME Inv, NEW c \in Clients, NEW h, GenuineAt(c, h), Retry(c)
    PROVE  GenuineAt(c, h)'
<1>1. pc'[c] \notin InHand
  BY DEF Retry, Goto, InHand, Inv, Control, TypeOK
<1> QED
  BY <1>1 DEF Retry, GenuineAt

\* A verified write is of a transaction with entries, so of the ledger.
LEMMA GenuineVerifyWrite ==
    ASSUME Inv, NEW c \in Clients, NEW h, GenuineAt(c, h), VerifyWrite(c)
    PROVE  GenuineAt(c, h)'
<1>1. TypeOK /\ Shape(c)
  BY DEF Inv, Control
<1>2. answer[c] \in VerifiableTx /\ state[c] \in ImmutableState /\ call[c] \in Call
  BY <1>1, CallAssumption DEF VerifyWrite, Shape, Trusting, Answered, AnswerTo
<1>3. pc[c] \in InHand /\ call[c].op \in SetOp /\ UNCHANGED <<call, state, answer>>
  BY DEF VerifyWrite, InHand
<1> DEFINE new == SetNewState(answer[c], DbOf(call[c].op))
           results == WriteResults(answer[c], call[c].kvs)
<1>4. ASSUME WriteVerifies(c)
      PROVE  IsPrefix(Digest(new), h) /\ \A r \in results : IsPrefix(r.header, h)
  <2>1. 1 \in DOMAIN call[c].kvs
    <3>1. call[c].kvs # <<>> /\ call[c].kvs \in Seq(KeyValue)
      BY <1>2, <1>3 DEF GenuineAt, Call
    <3> QED
      BY <3>1, EmptySeq, LenProperties
  <2>2. Eh(answer[c].header) # {}
    BY <1>4, <2>1, SetIncluded DEF WriteVerifies
  <2>3. IsPrefix(answer[c].header, h)
    BY <1>3, <2>2 DEF GenuineAt, HeadersOf
  <2>4. Digest(new) = answer[c].header
    BY <1>2, <1>4, SetExtends DEF WriteVerifies
  <2> QED
    BY <2>3, <2>4 DEF WriteResults
<1> HIDE DEF new, results
<1>5. \/ /\ WriteVerifies(c)
         /\ newState' = [newState EXCEPT ![c] = new]
         /\ accepted' = [accepted EXCEPT ![c] = results]
      \/ UNCHANGED <<newState, accepted>>
  BY DEF VerifyWrite, new, results
<1>6. newState'[c] # NoState => IsPrefix(Digest(newState'[c]), h)
  BY <1>1, <1>4, <1>5 DEF GenuineAt, TypeOK
<1>7. \A r \in accepted'[c] : IsPrefix(r.header, h)
  BY <1>1, <1>4, <1>5 DEF GenuineAt, TypeOK
<1> QED
  BY <1>3, <1>6, <1>7 DEF GenuineAt

\* The item a read verifies next is one of the answer.
LEMMA NextItem ==
    ASSUME Control, NEW c \in Clients, VerifyRead(c)
    PROVE  LET i == index[c] + 1
           IN  /\ i \in DOMAIN answer[c]
               /\ answer[c][i] # ItemError
               /\ answer[c][i] \in VerifiableEntry
<1> DEFINE i == index[c] + 1
<1>1. TypeOK /\ Shape(c) /\ call[c] \in Call /\ call[c].op \notin SetOp
  BY CallAssumption DEF Control, Shape, VerifyRead
<1>2. Items(call[c]) \in Nat
  BY <1>1, ItemsType
<1>3. answer[c] \in AnswerTo(call[c]) /\ Len(answer[c]) >= Items(call[c])
      /\ index[c] \in Nat /\ index[c] < Items(call[c])
  BY <1>1 DEF VerifyRead, Shape, Answered, TypeOK
<1>4. Len(answer[c]) \in Nat /\ DOMAIN answer[c] = 1 .. Len(answer[c])
  BY <1>1, <1>3, LenProperties DEF AnswerTo
<1>5. i \in Nat /\ 0 < i /\ i <= Len(answer[c])
  BY <1>2, <1>3, <1>4
<1> QED
  BY <1>1, <1>3, <1>4, <1>5, ItemType DEF VerifyRead

\* A verified read is of a transaction with entries, so of the ledger.
LEMMA GenuineVerifyRead ==
    ASSUME Inv, NEW c \in Clients, NEW h, GenuineAt(c, h), VerifyRead(c)
    PROVE  GenuineAt(c, h)'
<1>1. TypeOK /\ Shape(c)
  BY DEF Inv, Control
<1> DEFINE i == index[c] + 1
           item == answer[c][i]
           key == VerifiedKey(call[c], i, item)
           new == GetNewState(state[c], item, DbOf(call[c].op))
           result == [header |-> ReadHeader(state[c], item), spec |-> ReadSpec(item, key)]
<1>2. state[c] \in ImmutableState /\ state[c] # NoState /\ call[c] \in Call
  BY <1>1, CallAssumption, ClientAssumption DEF VerifyRead, Shape, Trusting
<1>3. pc[c] \in InHand /\ call[c].op \notin SetOp /\ UNCHANGED <<call, state, answer>>
  BY DEF VerifyRead, InHand
<1>4. i \in DOMAIN answer[c] /\ item # ItemError /\ item \in VerifiableEntry
  BY NextItem DEF Inv
<1>5. ASSUME ReadVerifies(c, i)
      PROVE  IsPrefix(Digest(new), h) /\ IsPrefix(result.header, h)
  <2>1. Eh(result.header) # {}
    BY <1>5, GetIncluded DEF ReadVerifies
  <2>2. result.header \in HeadersOf(call[c], answer[c])
    BY <1>3, <1>4 DEF HeadersOf, ReadHeader
  <2>3. IsPrefix(result.header, h)
    BY <1>3, <2>1, <2>2 DEF GenuineAt
  <2>4. IsPrefix(Digest(state[c]), h)
    BY <1>2 DEF GenuineAt
  <2>5. Digest(new) \in {Digest(state[c]), result.header}
    BY <1>2, <1>4, GetNewDigest
  <2> QED
    BY <2>3, <2>4, <2>5
<1>6. \/ /\ ReadVerifies(c, i)
         /\ newState' = [newState EXCEPT ![c] = new]
         /\ accepted' = [accepted EXCEPT ![c] = @ \cup {result}]
      \/ UNCHANGED <<newState, accepted>>
  BY DEF VerifyRead
<1> HIDE DEF new, result
<1>7. newState'[c] # NoState => IsPrefix(Digest(newState'[c]), h)
  BY <1>1, <1>5, <1>6 DEF GenuineAt, TypeOK
<1>8. \A r \in accepted'[c] : IsPrefix(r.header, h)
  BY <1>1, <1>5, <1>6 DEF GenuineAt, TypeOK
<1> QED
  BY <1>3, <1>7, <1>8 DEF GenuineAt

\* What the client that takes a step knows stays genuine.
LEMMA GenuineOwn ==
    ASSUME Unforged, Inv, Inv', NEW c \in Clients, Genuine,
           IsPrefix(ledger[ApiKeyOf[c]], ledger'[ApiKeyOf[c]]),
           \/ Begin(c) \/ CacheLock(c) \/ CacheLockFails(c) \/ Step(c)
           \/ ServeWrongly(c) \/ PartMissing(c) \/ Crash(c)
    PROVE  GenuineAt(c, ledger[ApiKeyOf[c]])'
<1>1. PICK h : h = ledger[ApiKeyOf[c]]
  OBVIOUS
<1>2. PICK longer : longer = ledger'[ApiKeyOf[c]]
  OBVIOUS
<1>3. h \in History /\ longer \in History /\ GenuineAt(c, h) /\ KeptGenuine
  BY <1>1, <1>2, ClientAssumption DEF Inv, Control, TypeOK, Genuine
<1>4. CASE Serve(c)
  <2>1. GenuineAt(c, longer)'
    BY <1>1, <1>2, <1>3, <1>4, GenuineServe DEF Inv
  <2> QED
    BY <1>2, <2>1
<1>5. CASE ~Serve(c)
  <2>1. GenuineAt(c, h)'
    <3>1. CASE CacheLockFails(c) \/ Return(c) \/ Crash(c)
      BY <3>1, GenuineEnd DEF CacheLockFails, Return, Crash
    <3>2. CASE GetStateHit(c) \/ GetStateMiss(c) \/ CacheState(c) \/ GetStateFails(c)
      BY <1>1, <1>3, <3>2, GenuineGetState
    <3>3. CASE \/ CacheLock(c) \/ RpcFails(c) \/ Receive(c) \/ SkipItem(c) \/ AllVerified(c)
               \/ SetState(c) \/ SetStateFails(c) \/ CheckNewState(c) \/ PartMissing(c)
      BY <1>3, <3>3, GenuineQuiet
    <3>4. CASE Begin(c) \/ ServeWrongly(c) \/ Retry(c)
      BY <1>3, <3>4, GenuineBegin, GenuineServeWrongly, GenuineRetry
    <3>5. CASE VerifyWrite(c) \/ VerifyRead(c)
      BY <1>3, <3>5, GenuineVerifyWrite, GenuineVerifyRead
    <3> QED
      BY <1>5, <3>1, <3>2, <3>3, <3>4, <3>5 DEF Step
  <2>2. GenuineAt(c, longer)'
    BY <1>1, <1>2, <1>3, <2>1, GenuineGrows DEF Inv
  <2> QED
    BY <1>2, <2>2
<1> QED
  BY <1>4, <1>5

\* What the others know stays genuine.
LEMMA GenuineOther ==
    ASSUME Control, Control', Genuine, NEW d \in Clients,
           IsPrefix(ledger[ApiKeyOf[d]], ledger'[ApiKeyOf[d]]),
           /\ pc'[d] = pc[d] /\ call'[d] = call[d] /\ state'[d] = state[d]
           /\ answer'[d] = answer[d] /\ newState'[d] = newState[d]
           /\ accepted'[d] = accepted[d]
    PROVE  GenuineAt(d, ledger[ApiKeyOf[d]])'
<1>1. PICK h : h = ledger[ApiKeyOf[d]]
  OBVIOUS
<1>2. PICK longer : longer = ledger'[ApiKeyOf[d]]
  OBVIOUS
<1>3. h \in History /\ longer \in History
  BY <1>1, <1>2, ClientAssumption DEF Control, TypeOK
<1>4. GenuineAt(d, h)'
  BY <1>1 DEF Genuine, GenuineAt
<1>5. GenuineAt(d, longer)'
  BY <1>1, <1>2, <1>3, <1>4, GenuineGrows
<1> QED
  BY <1>2, <1>5

\* What is in the cache stays genuine.
LEMMA GenuineCache ==
    ASSUME Inv, Inv', [Next]_vars, Genuine, NEW k \in ApiKeys, cache'[k] # NoState,
           IsPrefix(ledger[k], ledger'[k])
    PROVE  IsPrefix(Digest(cache'[k]), ledger'[k])
<1>1. TypeOK /\ TypeOK' /\ cache'[k] \in ImmutableState
  BY DEF Inv, Control, TypeOK
<1>2. ledger[k] \in History /\ ledger'[k] \in History /\ Digest(cache'[k]) \in History
  BY <1>1, DigestType DEF TypeOK
<1>3. IsPrefix(Digest(cache'[k]), ledger[k])
  <2>1. CASE cache'[k] = cache[k]
    BY <2>1 DEF Genuine, KeptGenuine
  <2>2. ASSUME NEW c \in Clients, SetState(c) \/ CacheState(c), cache'[k] # cache[k]
        PROVE  IsPrefix(Digest(cache'[k]), ledger[k])
    <3>1. k = ApiKeyOf[c] /\ cache'[k] = newState[c]
      BY <1>1, <2>2 DEF SetState, CacheState, TypeOK
    <3> QED
      BY <3>1 DEF Genuine, GenuineAt
  <2>3. \/ UNCHANGED cache
        \/ \E c \in Clients : SetState(c) \/ CacheState(c)
    BY CacheUnchanged DEF Next, Step, vars, locals, Write, Restore
  <2> QED
    BY <2>1, <2>2, <2>3
<1> QED
  BY <1>2, <1>3, PrefixTransitive DEF History

\* What is returned as verified is in the ledger.
LEMMA GenuineVerified ==
    ASSUME Inv, Inv', [Next]_vars, Genuine, epoch = 0, NEW k \in ApiKeys, NEW r \in verified'[k],
           IsPrefix(ledger[k], ledger'[k])
    PROVE  r.spec \in Eh(r.header) /\ IsPrefix(r.header, ledger'[k])
<1>1. TypeOK /\ TypeOK'
  BY DEF Inv, Control
<1>2. ledger[k] \in History /\ ledger'[k] \in History /\ r.header \in History
  BY <1>1 DEF TypeOK, Result
<1>3. r.spec \in Eh(r.header) /\ IsPrefix(r.header, ledger[k])
  <2>1. CASE r \in verified[k]
    BY <2>1 DEF Genuine, VerifiedCommitted
  <2>2. ASSUME NEW c \in Clients, Return(c), r \notin verified[k]
        PROVE  r.spec \in Eh(r.header) /\ IsPrefix(r.header, ledger[k])
    <3>1. k = ApiKeyOf[c] /\ r \in accepted[c]
      BY <1>1, <2>2 DEF Return, TypeOK
    <3> QED
      BY <3>1 DEF Genuine, GenuineAt, Inv, Trust
  <2>3. UNCHANGED verified \/ \E c \in Clients : Return(c)
    BY DEF Next, vars, locals, Step, Begin, CacheLock, CacheLockFails, GetStateHit,
       GetStateMiss, CacheState, GetStateFails, Serve, ServeWrongly, PartMissing, RpcFails, Retry,
       Receive, VerifyWrite, VerifyRead, SkipItem, AllVerified, SetState, SetStateFails,
       CheckNewState, Crash, Write, Restore
  <2> QED
    BY <2>1, <2>2, <2>3
<1> QED
  BY <1>2, <1>3, PrefixTransitive DEF History

\* Every step keeps GenuineInv.
LEMMA GenuineStep ==
    ASSUME Unforged, GenuineInv, [Next]_vars
    PROVE  GenuineInv'
<1>1. Inv /\ Inv'
  BY InvStep DEF GenuineInv
<1>2. ASSUME epoch' = 0
      PROVE  Genuine'
  <2>1. epoch = 0 /\ \A k \in ApiKeys : IsPrefix(ledger[k], ledger'[k])
    BY <1>1, <1>2, LedgerGrows DEF Inv
  <2>2. Genuine
    BY <2>1 DEF GenuineInv
  <2>3. \A d \in Clients : ApiKeyOf[d] \in ApiKeys
    BY ClientAssumption
  <2>4. ASSUME NEW d \in Clients
        PROVE  GenuineAt(d, ledger[ApiKeyOf[d]])'
    <3>1. CASE /\ pc'[d] = pc[d] /\ call'[d] = call[d] /\ state'[d] = state[d]
               /\ answer'[d] = answer[d] /\ newState'[d] = newState[d]
               /\ accepted'[d] = accepted[d]
      BY <1>1, <2>1, <2>2, <2>3, <3>1, GenuineOther DEF Inv
    <3>2. ASSUME NEW c \in Clients,
                 \/ Begin(c) \/ CacheLock(c) \/ CacheLockFails(c) \/ Step(c)
                 \/ ServeWrongly(c) \/ PartMissing(c) \/ Crash(c)
          PROVE  GenuineAt(d, ledger[ApiKeyOf[d]])'
      <4>1. CASE c = d
        BY <1>1, <2>1, <2>2, <2>3, <3>2, <4>1, GenuineOwn
      <4>2. CASE c # d
        BY <1>1, <3>1, <3>2, <4>2, LocalStep DEF OnlyLocals, Inv
      <4> QED
        BY <4>1, <4>2
    <3>3. CASE (\E k \in ApiKeys : Write(k) \/ Restore(k)) \/ UNCHANGED vars
      BY <3>1, <3>3 DEF Write, Restore, locals, vars
    <3> QED
      BY <3>2, <3>3 DEF Next
  <2>5. KeptGenuine'
    BY <1>1, <2>1, <2>2, GenuineCache DEF KeptGenuine
  <2>6. VerifiedCommitted'
    BY <1>1, <2>1, <2>2, GenuineVerified DEF VerifiedCommitted
  <2> QED
    BY <2>4, <2>5, <2>6 DEF Genuine
<1> QED
  BY <1>1, <1>2 DEF GenuineInv

\* A ledger that was never restored holds all that was returned as verified,
\* each entry in the transaction it was proven in, whatever wrong answers mix
\* up of what was committed (VerifyInclusion and the dual proof together).
THEOREM VerifiedIsCommitted ==
    ASSUME Unforged
    PROVE  Spec => []VerifiedCommitted
<1>1. Init => GenuineInv
  <2> SUFFICES ASSUME Init PROVE GenuineInv
    OBVIOUS
  <2>1. \A c \in Clients : GenuineAt(c, ledger[ApiKeyOf[c]])
    BY DEF Init, GenuineAt, NoCall, SetOp, InHand
  <2>2. KeptGenuine /\ VerifiedCommitted
    BY DEF Init, KeptGenuine, VerifiedCommitted
  <2> QED
    BY <2>1, <2>2, InvInit DEF GenuineInv, Genuine
<1>2. GenuineInv /\ [Next]_vars => GenuineInv'
  BY GenuineStep
<1>3. GenuineInv => VerifiedCommitted
  BY DEF GenuineInv, Genuine, VerifiedCommitted
<1> QED
  BY <1>1, <1>2, <1>3, PTL DEF Spec
-----------------------------------------------------------------------------
(* An honest server is believed.                                           *)

\* Calls whose right answers verify: they ask for the proof from the trusted
\* transaction (StreamVerifiedGet asks for it from its caller's) and write
\* every key once.
Provable ==
    \A cl \in Calls :
        /\ cl.op # "StreamVerifiedGet"
        /\ cl.op \in SetOp =>
             \A i, j \in DOMAIN cl.kvs : cl.kvs[i].key = cl.kvs[j].key => i = j

\* The server signs in the name under which the signatures are checked.
NamesFit ==
    \A c \in Clients : HasPubKey[c] =>
        \A db \in ServerDbs : \A cl \in Calls : db = DbOf(cl.op)

\* A state of the history h that the client will not refuse.
Fits(c, new, h) == Of(new, h) /\ (HasPubKey[c] => CheckSignature(new))

\* The answer in hand verifies, and leads to states that fit.
RightAt(c, h) ==
    IF call[c].op \in SetOp
    THEN WriteVerifies(c) /\ Fits(c, SetNewState(answer[c], DbOf(call[c].op)), h)
    ELSE /\ ~NoEntry(call[c], answer[c]) /\ ~OtherArtifact(call[c], answer[c])
         /\ \A i \in DOMAIN answer[c] : answer[c][i] # ItemError =>
              /\ ReadVerifies(c, i)
              /\ Fits(c, GetNewState(state[c], answer[c][i], DbOf(call[c].op)), h)

HonestAt(c, h) ==
    /\ state[c] # NoState => Of(state[c], h)
    /\ newState[c] # NoState => Of(newState[c], h)
    /\ HasPubKey[c] /\ pc[c] \in {"setState", "checkSignature"} =>
         CheckSignature(newState[c])
    /\ pc[c] \in InHand => RightAt(c, h)
    /\ outcome[c] \notin {"corrupted", "unsigned", "panic"}

KeptHonest == \A k \in ApiKeys : cache[k] # NoState => Of(cache[k], ledger[k])

Honest == (\A c \in Clients : HonestAt(c, ledger[ApiKeyOf[c]])) /\ KeptHonest

HonestInv == Inv /\ (epoch = 0 /\ faults = 0 => Honest)

\* What is right of a ledger is right of a longer one.
LEMMA RightGrows ==
    ASSUME Control', NEW c \in Clients, NEW h \in History, NEW longer \in History,
           IsPrefix(h, longer), pc'[c] \in InHand, RightAt(c, h)'
    PROVE  RightAt(c, longer)'
<1>1. Shape(c)'
  BY DEF Control
<1>2. answer'[c] \in AnswerTo(call'[c]) /\ state'[c] \in ImmutableState
  BY <1>1 DEF Shape, InHand, Answered, Trusting
<1>3. CASE call'[c].op \in SetOp
  <2>1. PICK new : new = SetNewState(answer'[c], DbOf(call'[c].op))
    OBVIOUS
  <2>2. answer'[c].header \in Seq(Tx)
    BY <1>2, <1>3 DEF AnswerTo, VerifiableTx, Header, History
  <2>3. new.txId \in Nat
    BY <2>1, <2>2, LenProperties DEF SetNewState
  <2>4. Fits(c, new, h)
    BY <1>3, <2>1 DEF RightAt
  <2>5. Fits(c, new, longer)
    BY <2>3, <2>4, OfLonger DEF Fits
  <2> QED
    BY <1>3, <2>1, <2>5 DEF RightAt
<1>4. CASE call'[c].op \notin SetOp
  <2>1. ASSUME NEW i \in DOMAIN answer'[c], answer'[c][i] # ItemError
        PROVE  Fits(c, GetNewState(state'[c], answer'[c][i], DbOf(call'[c].op)), longer)
    <3>1. PICK new : new = GetNewState(state'[c], answer'[c][i], DbOf(call'[c].op))
      OBVIOUS
    <3>2. answer'[c][i] \in VerifiableEntry
      BY <1>2, <1>4, <2>1, LenProperties, ElementOfSeq DEF AnswerTo
    <3>3. new.txId \in Nat
      BY <1>2, <3>1, <3>2 DEF GetNewState, ReadTx, VerifiableEntry, Reference,
         ImmutableState, TxId
    <3>4. Fits(c, new, h)
      BY <1>4, <2>1, <3>1 DEF RightAt
    <3>5. Fits(c, new, longer)
      BY <3>3, <3>4, OfLonger DEF Fits
    <3> QED
      BY <3>1, <3>5
  <2> QED
    BY <1>4, <2>1 DEF RightAt
<1> QED
  BY <1>3, <1>4

\* So is all that the client holds.
LEMMA HonestGrows ==
    ASSUME Control', NEW c \in Clients, NEW h \in History, NEW longer \in History,
           IsPrefix(h, longer), HonestAt(c, h)'
    PROVE  HonestAt(c, longer)'
<1>1. TypeOK'
  BY DEF Control
<1>2. \A st \in ImmutableState : Of(st, h) => Of(st, longer)
  BY OfLonger DEF ImmutableState
<1>3. state'[c] # NoState => Of(state'[c], longer)
  BY <1>1, <1>2 DEF HonestAt, TypeOK
<1>4. newState'[c] # NoState => Of(newState'[c], longer)
  BY <1>1, <1>2 DEF HonestAt, TypeOK
<1>5. pc'[c] \in InHand => RightAt(c, longer)'
  BY RightGrows DEF HonestAt
<1> QED
  BY <1>3, <1>4, <1>5 DEF HonestAt

\* The end of a call.
LEMMA HonestEnd ==
    ASSUME Inv, NEW c \in Clients, NEW h, Reset(c)
    PROVE  HonestAt(c, h)'
<1>1. TypeOK
  BY DEF Inv, Control
<1>2. /\ pc'[c] = "idle" /\ state'[c] = NoState /\ newState'[c] = NoState
      /\ outcome'[c] = "none"
  BY <1>1 DEF Reset, Goto, TypeOK
<1> QED
  BY <1>2 DEF HonestAt, InHand

\* The steps that ask nothing of the answer.
LEMMA HonestQuiet ==
    ASSUME Inv, NEW c \in Clients, NEW h, HonestAt(c, h),
           \/ Begin(c) \/ CacheLock(c) \/ RpcFails(c) \/ SkipItem(c) \/ AllVerified(c)
           \/ SetState(c) \/ SetStateFails(c) \/ Retry(c)
    PROVE  HonestAt(c, h)'
<1>1. TypeOK
  BY DEF Inv, Control
<1>2. CASE Begin(c) \/ CacheLock(c) \/ Retry(c)
  <2>1. UNCHANGED <<state, newState, outcome>>
        /\ pc'[c] \notin InHand /\ pc'[c] \notin {"setState", "checkSignature"}
    BY <1>1, <1>2 DEF Begin, CacheLock, Retry, Goto, TypeOK, InHand
  <2> QED
    BY <2>1 DEF HonestAt
<1>3. CASE RpcFails(c) \/ AllVerified(c) \/ SetStateFails(c)
  <2>1. /\ UNCHANGED <<state, newState>>
        /\ outcome'[c] \in {"ok", "error"}
        /\ pc'[c] \notin InHand /\ pc'[c] \notin {"setState", "checkSignature"}
    BY <1>1, <1>3 DEF RpcFails, AllVerified, SetStateFails, Finish, Goto, TypeOK, InHand
  <2> QED
    BY <2>1 DEF HonestAt
<1>4. CASE SkipItem(c) \/ SetState(c)
  <2>1. UNCHANGED <<call, state, newState, answer, outcome>>
    BY <1>4 DEF SkipItem, SetState
  <2>2. pc[c] \in InHand
        /\ (pc'[c] \in {"setState", "checkSignature"} =>
              pc[c] \in {"setState", "checkSignature"})
    BY <1>1, <1>4 DEF SkipItem, SetState, InHand, Goto, TypeOK
  <2>3. RightAt(c, h)'
    BY <2>1, <2>2 DEF HonestAt, RightAt, WriteVerifies, ReadVerifies
  <2> QED
    BY <2>1, <2>2, <2>3 DEF HonestAt
<1> QED
  BY <1>2, <1>3, <1>4
\* The steps that do refuse nothing.
LEMMA HonestChecks ==
    ASSUME Inv, NEW c \in Clients, NEW h, HonestAt(c, h), Receive(c) \/ CheckNewState(c)
    PROVE  HonestAt(c, h)'
<1>1. TypeOK
  BY DEF Inv, Control
<1>2. UNCHANGED <<call, state, newState, answer>>
  BY DEF Receive, CheckNewState
<1>3. pc[c] \in InHand /\ RightAt(c, h)
  BY DEF Receive, CheckNewState, InHand, HonestAt
<1>4. RightAt(c, h)'
  BY <1>2, <1>3 DEF RightAt, WriteVerifies, ReadVerifies
<1>5. CASE Receive(c)
  <2>1. ~NoEntry(call[c], answer[c]) /\ ~OtherArtifact(call[c], answer[c])
    BY <1>3 DEF RightAt, NoEntry, OtherArtifact, SetOp
  <2>2. outcome'[c] \in {outcome[c], "error"} /\ pc'[c] \notin {"setState", "checkSignature"}
    BY <1>1, <1>5, <2>1 DEF Receive, Finish, Goto, TypeOK
  <2> QED
    BY <1>2, <1>4, <2>2 DEF HonestAt
<1>6. CASE CheckNewState(c)
  <2>1. HasPubKey[c] => CheckSignature(newState[c])
    BY <1>6 DEF CheckNewState, HonestAt
  <2>2. UNCHANGED outcome
    BY <1>6, <2>1 DEF CheckNewState
  <2> QED
    BY <1>2, <1>4, <2>1, <2>2 DEF HonestAt
<1> QED
  BY <1>5, <1>6

\* GetState: the kept state, or the current one of the ledger.
LEMMA HonestGetState ==
    ASSUME NamesFit, Inv, NEW c \in Clients, NEW h, HonestAt(c, h), KeptHonest,
           h = ledger[ApiKeyOf[c]],
           GetStateHit(c) \/ GetStateMiss(c) \/ CacheState(c) \/ GetStateFails(c)
    PROVE  HonestAt(c, h)'
<1>1. TypeOK /\ Shape(c) /\ ApiKeyOf[c] \in ApiKeys
  BY ClientAssumption DEF Inv, Control
<1>2. pc'[c] \notin InHand /\ pc'[c] \notin {"setState", "checkSignature"}
  BY <1>1 DEF GetStateHit, GetStateMiss, CacheState, GetStateFails, Finish, Goto, TypeOK,
     InHand
<1>3. CASE GetStateHit(c)
  BY <1>1, <1>2, <1>3 DEF GetStateHit, KeptHonest, HonestAt, TypeOK
<1>4. CASE GetStateMiss(c)
  <2>1. h \in History /\ call[c] \in Calls
    BY <1>1, <1>4 DEF TypeOK, Shape, GetStateMiss
  <2>2. ASSUME NEW db \in ServerDbs
        PROVE  /\ Of(CurrentState(h, db), h)
               /\ HasPubKey[c] => CheckSignature(CurrentState(h, db))
    <3>1. HasPubKey[c] => db # "none"
      BY <2>1 DEF NamesFit, DbOf
    <3> QED
      BY <2>1, <3>1, ServerAssumption, CurrentComplete
  <2>3. UNCHANGED <<state, outcome>>
        /\ \E db \in ServerDbs : newState'[c] = CurrentState(h, db)
    BY <1>1, <1>4, <2>2 DEF GetStateMiss, TypeOK
  <2> QED
    BY <1>2, <2>2, <2>3 DEF HonestAt
<1>5. CASE CacheState(c)
  BY <1>1, <1>2, <1>5 DEF CacheState, HonestAt, TypeOK
<1>6. CASE GetStateFails(c)
  BY <1>1, <1>2, <1>6 DEF GetStateFails, Finish, HonestAt, TypeOK
<1> QED
  BY <1>3, <1>4, <1>5, <1>6

\* A right answer to a write is accepted.
LEMMA HonestVerifyWrite ==
    ASSUME Inv, NEW c \in Clients, NEW h, HonestAt(c, h), VerifyWrite(c)
    PROVE  HonestAt(c, h)'
<1>1. TypeOK
  BY DEF Inv, Control
<1> DEFINE new == SetNewState(answer[c], DbOf(call[c].op))
<1>2. RightAt(c, h) /\ call[c].op \in SetOp /\ UNCHANGED <<call, state, answer>>
  BY DEF VerifyWrite, InHand, HonestAt
<1>3. WriteVerifies(c) /\ Fits(c, new, h)
  BY <1>2 DEF RightAt
<1>4. newState' = [newState EXCEPT ![c] = new] /\ UNCHANGED outcome
  BY <1>3 DEF VerifyWrite
<1> HIDE DEF new
<1>5. RightAt(c, h)'
  BY <1>2 DEF RightAt, WriteVerifies
<1>6. newState'[c] = new
  BY <1>1, <1>4 DEF TypeOK
<1> QED
  BY <1>2, <1>3, <1>4, <1>5, <1>6 DEF HonestAt, Fits

\* So is every item of a right answer to a read.
LEMMA HonestVerifyRead ==
    ASSUME Inv, NEW c \in Clients, NEW h, HonestAt(c, h), VerifyRead(c)
    PROVE  HonestAt(c, h)'
<1>1. TypeOK /\ Shape(c)
  BY DEF Inv, Control
<1> DEFINE i == index[c] + 1
           new == GetNewState(state[c], answer[c][i], DbOf(call[c].op))
<1>2. RightAt(c, h) /\ call[c].op \notin SetOp /\ UNCHANGED <<call, state, answer>>
  BY DEF VerifyRead, InHand, HonestAt
<1>3. i \in DOMAIN answer[c] /\ answer[c][i] # ItemError
  BY NextItem DEF Inv
<1>4. ReadVerifies(c, i) /\ Fits(c, new, h)
  BY <1>2, <1>3 DEF RightAt
<1>5. newState' = [newState EXCEPT ![c] = new] /\ UNCHANGED outcome
  BY <1>4 DEF VerifyRead
<1> HIDE DEF new
<1>6. RightAt(c, h)'
  BY <1>2 DEF RightAt, ReadVerifies
<1>7. newState'[c] = new
  BY <1>1, <1>5 DEF TypeOK
<1> QED
  BY <1>2, <1>4, <1>5, <1>6, <1>7 DEF HonestAt, Fits
\* The request of the client asks for the proof from a state of the ledger.
LEMMA HonestRequest ==
    ASSUME Provable, NamesFit, Inv, NEW c \in Clients, NEW h,
           h = ledger[ApiKeyOf[c]], HonestAt(c, h), pc[c] = "rpc"
    PROVE  /\ h \in History
           /\ call[c] \in Calls /\ call[c] \in Call /\ WellFormed(call[c])
           /\ state[c] \in ImmutableState /\ Of(state[c], h)
           /\ ProveSinceTx(c) = state[c].txId
           /\ DbOf(call[c].op) \in DbName
           /\ \A db \in ServerDbs : HasPubKey[c] => db = DbOf(call[c].op)
<1>1. TypeOK /\ Shape(c) /\ ApiKeyOf[c] \in ApiKeys
  BY ClientAssumption DEF Inv, Control
<1>2. call[c] \in Calls /\ state[c] \in ImmutableState
  BY <1>1 DEF Shape, Trusting
<1> QED
  BY <1>1, <1>2, ClientAssumption, CallAssumption, DbOfType
     DEF TypeOK, HonestAt, Provable, NamesFit, ProveSinceTx

\* The right answer to a read verifies.
LEMMA HonestServeRead ==
    ASSUME Provable, NamesFit, Inv, NEW c \in Clients, NEW h,
           h = ledger[ApiKeyOf[c]], HonestAt(c, h), Serve(c), call[c].op \notin SetOp
    PROVE  RightAt(c, h)'
<1> DEFINE a == answer'[c]
           cl == call[c]
           st == state[c]
           name == DbOf(cl.op)
<1>1. pc[c] = "rpc" /\ UNCHANGED <<call, state>>
  BY DEF Serve
<1>2. /\ h \in History
      /\ cl \in Call /\ WellFormed(cl)
      /\ st \in ImmutableState /\ Of(st, h)
      /\ ProveSinceTx(c) = st.txId
      /\ name \in DbName
      /\ \A db \in ServerDbs : HasPubKey[c] => db = name
  BY <1>1, HonestRequest
<1>3. a \in AnswerTo(cl) /\ Len(a) = Len(cl.reqs)
  BY ServedRead DEF Inv
<1>4. PICK db \in ServerDbs, full \in [DOMAIN cl.reqs -> Keys] :
        \A i \in DOMAIN a :
           \/ a[i] = ItemError
           \/ /\ i \in DOMAIN cl.reqs
              /\ full[i] \in AnsweredKeys(cl, cl.reqs[i])
              /\ IF cl.op = "VCNGetArtifacts" THEN HasValue(h, full[i], 0)
                                              ELSE Found(h, full[i], cl.reqs[i].atTx)
              /\ a[i] = VerifiableGet(h, full[i], cl.reqs[i].atTx, st.txId, db)
  BY <1>2, ServedRead DEF Inv
<1>5. cl.op = "VCNGetArtifacts" => Len(cl.reqs) = 1 /\ cl.reqs[1].atTx = 0
  BY <1>2 DEF WellFormed, ReadOp, VerifiedOp, SetOp
<1>6. DOMAIN cl.reqs = 1 .. Len(cl.reqs) /\ DOMAIN a = 1 .. Len(a)
      /\ Len(cl.reqs) \in Nat
  BY <1>2, <1>3, LenProperties DEF Call, AnswerTo
<1> HIDE DEF a, cl, st, name
<1>7. ASSUME NEW i \in DOMAIN a, a[i] # ItemError
      PROVE  /\ VerifyGet(st, a[i], VerifiedKey(cl, i, a[i]))
             /\ Fits(c, GetNewState(st, a[i], name), h)
             /\ cl.op = "VCNGetArtifacts" => i = 1 /\ a[i].entry.key \in FullKeys[cl.reqs[i].key]
  <2> DEFINE key == full[i]
             atTx == cl.reqs[i].atTx
             vKey == VerifiedKey(cl, i, a[i])
  <2>1. /\ i \in DOMAIN cl.reqs
        /\ key \in AnsweredKeys(cl, cl.reqs[i])
        /\ IF cl.op = "VCNGetArtifacts" THEN HasValue(h, key, 0) ELSE Found(h, key, atTx)
        /\ a[i] = VerifiableGet(h, key, atTx, st.txId, db)
    BY <1>4, <1>7
  <2> HIDE DEF key
  <2>2. /\ Found(h, key, atTx) /\ vKey = key
        /\ cl.op = "VCNGetArtifacts" => i = 1 /\ key \in FullKeys[cl.reqs[i].key]
                                        /\ a[i].entry.key = key
    <3>1. CASE cl.op = "VCNGetArtifacts"
      <4>1. i = 1 /\ atTx = 0
        BY <1>5, <1>6, <2>1, <3>1
      <4>2. Found(h, key, atTx) /\ a[i].entry.key = key
        BY <1>2, <2>1, <3>1, <4>1, ValueRead
      <4>3. key \in FullKeys[cl.reqs[i].key]
        BY <2>1, <3>1 DEF AnsweredKeys
      <4> QED
        BY <3>1, <4>1, <4>2, <4>3 DEF VerifiedKey
    <3>2. CASE cl.op # "VCNGetArtifacts"
      BY <2>1, <3>2 DEF AnsweredKeys, VerifiedKey
    <3> QED
      BY <3>1, <3>2
  <2> HIDE DEF vKey, atTx
  <2>3. LET item == VerifiableGet(h, key, atTx, st.txId, db)
            new == GetNewState(st, item, name)
        IN  VerifyGet(st, item, vKey) /\ Of(new, h) /\ (db = name => CheckSignature(new))
    BY <1>2, <2>2, ReadComplete
  <2> QED
    BY <1>2, <2>1, <2>2, <2>3 DEF Fits, vKey
<1>8. ~NoEntry(cl, a) /\ ~OtherArtifact(cl, a)
  <2> SUFFICES ASSUME cl.op = "VCNGetArtifacts"
               PROVE  Len(a) # 0 /\ a[1].entry.key \in FullKeys[cl.reqs[1].key]
    BY DEF NoEntry, OtherArtifact
  <2>1. Len(a) = 1 /\ 1 \in DOMAIN a
    BY <1>3, <1>5, <1>6
  <2>2. a[1].ref = NoRef /\ a[1] \in VerifiableEntry
    BY <1>3, <2>1 DEF AnswerTo, SetOp
  <2>3. a[1] # ItemError
    <3>1. "tx" \in DOMAIN a[1] /\ "tx" \notin DOMAIN ItemError
      BY <2>2 DEF VerifiableEntry, ItemError
    <3> QED
      BY <3>1
  <2> QED
    BY <1>7, <2>1, <2>3
<1> QED
  BY <1>1, <1>7, <1>8 DEF RightAt, ReadVerifies, a, cl, st, name

\* The right answer to a write verifies.
LEMMA HonestServeWrite ==
    ASSUME Provable, NamesFit, Inv, NEW c \in Clients, NEW h, NEW longer,
           h = ledger[ApiKeyOf[c]], longer = ledger'[ApiKeyOf[c]],
           HonestAt(c, h), Serve(c), call[c].op \in SetOp
    PROVE  RightAt(c, longer)'
<1> DEFINE kvs == call[c].kvs
           st == state[c]
           name == DbOf(call[c].op)
           single == call[c].op = "VerifiedSet"
<1>1. pc[c] = "rpc" /\ UNCHANGED <<call, state>>
  BY DEF Serve
<1>2. /\ h \in History
      /\ call[c] \in Calls /\ call[c] \in Call /\ WellFormed(call[c])
      /\ st \in ImmutableState /\ Of(st, h)
      /\ ProveSinceTx(c) = st.txId
      /\ name \in DbName
      /\ \A db \in ServerDbs : HasPubKey[c] => db = name
  BY <1>1, HonestRequest
<1>3. /\ longer \in History /\ Len(longer) = Len(h) + 1 /\ IsPrefix(h, longer)
      /\ longer[Len(longer)].entries = EntriesOf(kvs)
  BY ServedWrite DEF Inv, EntriesOf
<1>4. PICK db \in ServerDbs : answer'[c] = VerifiableSet(longer, kvs, st.txId, db)
  BY <1>2, ServedWrite DEF Inv
<1>5. /\ kvs \in Seq(KeyValue)
      /\ single => Len(kvs) = 1
      /\ \A i, j \in DOMAIN kvs : kvs[i].key = kvs[j].key => i = j
  BY <1>2 DEF Call, WellFormed, Provable
<1>6. single \in BOOLEAN
  OBVIOUS
<1> HIDE DEF kvs, st, name, single
<1>7. LET vTx == VerifiableSet(longer, kvs, st.txId, db)
          new == SetNewState(vTx, name)
      IN  /\ VerifySet(st, vTx, kvs, single)
          /\ Of(new, longer)
          /\ db = name => CheckSignature(new)
  BY <1>2, <1>3, <1>5, <1>6, WriteComplete
<1>8. /\ VerifySet(st, answer'[c], kvs, single)
      /\ Fits(c, SetNewState(answer'[c], name), longer)
  BY <1>2, <1>4, <1>7 DEF Fits
<1> QED
  BY <1>1, <1>8 DEF RightAt, WriteVerifies, kvs, st, name, single
\* What the client that takes a step holds stays right.
LEMMA HonestOwn ==
    ASSUME Provable, NamesFit, Inv, Inv', NEW c \in Clients, Honest,
           IsPrefix(ledger[ApiKeyOf[c]], ledger'[ApiKeyOf[c]]),
           \/ Begin(c) \/ CacheLock(c) \/ CacheLockFails(c) \/ Step(c) \/ Crash(c)
    PROVE  HonestAt(c, ledger[ApiKeyOf[c]])'
<1>1. PICK h : h = ledger[ApiKeyOf[c]]
  OBVIOUS
<1>2. PICK longer : longer = ledger'[ApiKeyOf[c]]
  OBVIOUS
<1>3. h \in History /\ longer \in History /\ HonestAt(c, h) /\ KeptHonest
  BY <1>1, <1>2, ClientAssumption DEF Inv, Control, TypeOK, Honest
<1>4. HonestAt(c, longer)'
  <2>1. CASE Serve(c)
    <3>1. RightAt(c, longer)'
      <4>1. CASE call[c].op \in SetOp
        BY <1>1, <1>2, <1>3, <2>1, <4>1, HonestServeWrite
      <4>2. CASE call[c].op \notin SetOp
        <5>1. longer = h
          BY <1>1, <1>2, <2>1, <4>2, ServedRead DEF Inv
        <5> QED
          BY <1>1, <1>3, <2>1, <4>2, <5>1, HonestServeRead
      <4> QED
        BY <4>1, <4>2
    <3>2. TypeOK /\ UNCHANGED <<state, newState, outcome>>
          /\ pc'[c] \notin {"setState", "checkSignature"}
      BY <2>1 DEF Serve, Goto, Inv, Control, TypeOK
    <3>3. \A st \in ImmutableState : Of(st, h) => Of(st, longer)
      BY <1>1, <1>2, <1>3, OfLonger DEF ImmutableState
    <3>4. /\ state[c] # NoState => Of(state[c], longer)
          /\ newState[c] # NoState => Of(newState[c], longer)
          /\ outcome[c] \notin {"corrupted", "unsigned", "panic"}
      BY <1>3, <3>2, <3>3 DEF HonestAt, TypeOK
    <3> QED
      BY <3>1, <3>2, <3>4 DEF HonestAt
  <2>2. CASE ~Serve(c)
    <3>1. HonestAt(c, h)'
      <4>1. CASE CacheLockFails(c) \/ Return(c) \/ Crash(c)
        BY <4>1, HonestEnd DEF CacheLockFails, Return, Crash
      <4>2. CASE GetStateHit(c) \/ GetStateMiss(c) \/ CacheState(c) \/ GetStateFails(c)
        BY <1>1, <1>3, <4>2, HonestGetState
      <4>3. CASE \/ Begin(c) \/ CacheLock(c) \/ RpcFails(c) \/ SkipItem(c) \/ AllVerified(c)
                 \/ SetState(c) \/ SetStateFails(c) \/ Retry(c)
        BY <1>3, <4>3, HonestQuiet
      <4>4. CASE Receive(c) \/ CheckNewState(c)
        BY <1>3, <4>4, HonestChecks
      <4>5. CASE VerifyWrite(c) \/ VerifyRead(c)
        BY <1>3, <4>5, HonestVerifyWrite, HonestVerifyRead
      <4> QED
        BY <2>2, <4>1, <4>2, <4>3, <4>4, <4>5 DEF Step
    <3> QED
      BY <1>1, <1>2, <1>3, <3>1, HonestGrows DEF Inv
  <2> QED
    BY <2>1, <2>2
<1> QED
  BY <1>2, <1>4

\* What the others hold stays right.
LEMMA HonestOther ==
    ASSUME Control, Control', Honest, NEW d \in Clients,
           IsPrefix(ledger[ApiKeyOf[d]], ledger'[ApiKeyOf[d]]),
           /\ pc'[d] = pc[d] /\ call'[d] = call[d] /\ state'[d] = state[d]
           /\ answer'[d] = answer[d] /\ newState'[d] = newState[d]
           /\ outcome'[d] = outcome[d]
    PROVE  HonestAt(d, ledger[ApiKeyOf[d]])'
<1>1. PICK h : h = ledger[ApiKeyOf[d]]
  OBVIOUS
<1>2. PICK longer : longer = ledger'[ApiKeyOf[d]]
  OBVIOUS
<1>3. h \in History /\ longer \in History
  BY <1>1, <1>2, ClientAssumption DEF Control, TypeOK
<1>4. HonestAt(d, h)'
  BY <1>1 DEF Honest, HonestAt, RightAt, WriteVerifies, ReadVerifies
<1>5. HonestAt(d, longer)'
  BY <1>1, <1>2, <1>3, <1>4, HonestGrows
<1> QED
  BY <1>2, <1>5

\* What is in the cache stays right.
LEMMA HonestCache ==
    ASSUME Inv, Inv', [Next]_vars, Honest, NEW k \in ApiKeys, cache'[k] # NoState,
           IsPrefix(ledger[k], ledger'[k])
    PROVE  Of(cache'[k], ledger'[k])
<1>1. TypeOK /\ TypeOK' /\ cache'[k] \in ImmutableState
  BY DEF Inv, Control, TypeOK
<1>2. ledger[k] \in History /\ ledger'[k] \in History /\ cache'[k].txId \in Nat
  BY <1>1 DEF TypeOK, ImmutableState
<1>3. Of(cache'[k], ledger[k])
  <2>1. CASE cache'[k] = cache[k]
    BY <2>1 DEF Honest, KeptHonest
  <2>2. ASSUME NEW c \in Clients, SetState(c) \/ CacheState(c), cache'[k] # cache[k]
        PROVE  Of(cache'[k], ledger[k])
    <3>1. k = ApiKeyOf[c] /\ cache'[k] = newState[c]
      BY <1>1, <2>2 DEF SetState, CacheState, TypeOK
    <3> QED
      BY <3>1 DEF Honest, HonestAt
  <2>3. \/ UNCHANGED cache
        \/ \E c \in Clients : SetState(c) \/ CacheState(c)
    BY CacheUnchanged DEF Next, Step, vars, locals, Write, Restore
  <2> QED
    BY <2>1, <2>2, <2>3
<1> QED
  BY <1>2, <1>3, OfLonger

\* A client ends its calls with no hand in how the others end theirs.
LEMMA OutcomeStep ==
    ASSUME NEW c \in Clients, NEW d \in Clients, c # d, TypeOK,
           Begin(c) \/ CacheLock(c) \/ CacheLockFails(c) \/ Step(c) \/ Crash(c)
    PROVE  outcome'[d] = outcome[d]
BY DEF TypeOK, Begin, CacheLock, CacheLockFails, Crash, Step, GetStateHit, GetStateMiss,
   CacheState, GetStateFails, Serve, RpcFails, Retry, Receive, VerifyWrite, VerifyRead,
   SkipItem, AllVerified, SetState, SetStateFails, CheckNewState, Return, Finish, Reset

\* A step before which nothing was answered wrongly, and none is in it.
LEMMA FaultlessStep ==
    ASSUME Control, [Next]_vars, faults' = 0
    PROVE  /\ faults = 0
           /\ \A c \in Clients : ~ServeWrongly(c) /\ ~PartMissing(c)
<1>1. faults \in Nat
  BY DEF Control, TypeOK
<1>2. \A c \in Clients : ~ServeWrongly(c) /\ ~PartMissing(c)
  BY <1>1 DEF ServeWrongly, PartMissing
<1>3. faults' = faults
  BY <1>2 DEF Next, vars, locals, Step, Begin, CacheLock, CacheLockFails, GetStateHit,
     GetStateMiss, CacheState, GetStateFails, Serve, RpcFails, Retry, Receive, VerifyWrite,
     VerifyRead, SkipItem, AllVerified, SetState, SetStateFails, CheckNewState, Return,
     Crash, Write, Restore
<1> QED
  BY <1>2, <1>3

\* Every step keeps HonestInv.
LEMMA HonestStep ==
    ASSUME Provable, NamesFit, HonestInv, [Next]_vars
    PROVE  HonestInv'
<1>1. Inv /\ Inv'
  BY InvStep DEF HonestInv
<1>2. ASSUME epoch' = 0, faults' = 0
      PROVE  Honest'
  <2>1. epoch = 0 /\ \A k \in ApiKeys : IsPrefix(ledger[k], ledger'[k])
    BY <1>1, <1>2, LedgerGrows DEF Inv
  <2>2. faults = 0 /\ \A c \in Clients : ~ServeWrongly(c) /\ ~PartMissing(c)
    BY <1>1, <1>2, FaultlessStep DEF Inv
  <2>3. Honest
    BY <2>1, <2>2 DEF HonestInv
  <2>4. \A d \in Clients : ApiKeyOf[d] \in ApiKeys
    BY ClientAssumption
  <2>5. ASSUME NEW d \in Clients
        PROVE  HonestAt(d, ledger[ApiKeyOf[d]])'
    <3>1. CASE /\ pc'[d] = pc[d] /\ call'[d] = call[d] /\ state'[d] = state[d]
               /\ answer'[d] = answer[d] /\ newState'[d] = newState[d]
               /\ outcome'[d] = outcome[d]
      BY <1>1, <2>1, <2>3, <2>4, <3>1, HonestOther DEF Inv
    <3>2. ASSUME NEW c \in Clients,
                 \/ Begin(c) \/ CacheLock(c) \/ CacheLockFails(c) \/ Step(c) \/ Crash(c)
          PROVE  HonestAt(d, ledger[ApiKeyOf[d]])'
      <4>1. CASE c = d
        BY <1>1, <2>1, <2>3, <2>4, <3>2, <4>1, HonestOwn
      <4>2. CASE c # d
        <5>1. OnlyLocals(c)
          BY <1>1, <3>2, LocalStep DEF Inv
        <5>2. outcome'[d] = outcome[d]
          BY <1>1, <3>2, <4>2, OutcomeStep DEF Inv, Control
        <5> QED
          BY <3>1, <4>2, <5>1, <5>2 DEF OnlyLocals
      <4> QED
        BY <4>1, <4>2
    <3>3. CASE (\E k \in ApiKeys : Write(k) \/ Restore(k)) \/ UNCHANGED vars
      BY <3>1, <3>3 DEF Write, Restore, locals, vars
    <3> QED
      BY <2>2, <3>2, <3>3 DEF Next
  <2>6. KeptHonest'
    BY <1>1, <2>1, <2>3, HonestCache DEF KeptHonest
  <2> QED
    BY <2>5, <2>6 DEF Honest
<1> QED
  BY <1>1, <1>2 DEF HonestInv

\* No answer of a server that never answered wrongly and was never restored
\* is refused, whatever other writers commit between any two steps, to the
\* operations that ask for the proof from the trusted transaction.
THEOREM HonestBelieved ==
    ASSUME Provable, NamesFit
    PROVE  Spec => []HonestNeverRefused
<1>1. Init => HonestInv
  <2> SUFFICES ASSUME Init PROVE HonestInv
    OBVIOUS
  <2>1. \A c \in Clients : HonestAt(c, ledger[ApiKeyOf[c]])
    BY DEF Init, HonestAt, InHand
  <2>2. KeptHonest
    BY DEF Init, KeptHonest
  <2> QED
    BY <2>1, <2>2, InvInit DEF HonestInv, Honest
<1>2. HonestInv /\ [Next]_vars => HonestInv'
  BY HonestStep
<1>3. HonestInv => HonestNeverRefused
  BY DEF HonestInv, Honest, HonestAt, HonestNeverRefused
<1> QED
  BY <1>1, <1>2, <1>3, PTL DEF Spec


=============================================================================
