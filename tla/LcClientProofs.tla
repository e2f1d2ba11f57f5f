--------------------------- MODULE LcClientProofs ---------------------------
(***************************************************************************)
(* The safety of LcClient, for any number of clients and API keys, any     *)
(* calls and any answers of the server.                                    *)
(***************************************************************************)
EXTENDS LcClient, LedgerProofs

-----------------------------------------------------------------------------
(* Control: what the local variables of a client are at each step.         *)

Between == {"idle", "lock"}

\* The steps that use the trusted state.
Trusting == {"rpc", "answered", "verify", "setState", "checkSignature"}

\* The steps that use the answer.
Answered == {"verify", "setState", "checkSignature"}

\* Nothing has been done yet.
Blank(c) ==
    /\ state[c] = NoState
    /\ answer[c] = NoAnswer
    /\ newState[c] = NoState
    /\ accepted[c] = {}
    /\ index[c] = 0

Shape(c) ==
    /\ pc[c] = "idle" => call[c] = NoCall
    /\ pc[c] # "idle" => call[c] \in Calls
    /\ pc[c] \in Between => Blank(c)
    /\ pc[c] = "getState" => Blank(c)
    /\ pc[c] = "cacheState" =>
         /\ newState[c] \in ImmutableState
         /\ state[c] = NoState /\ accepted[c] = {} /\ index[c] = 0
    /\ pc[c] \in Trusting => state[c] \in ImmutableState
    /\ pc[c] \in {"rpc", "answered"} => accepted[c] = {} /\ index[c] = 0
    /\ pc[c] = "answered" => answer[c] \in AnswerTo(call[c])
    /\ pc[c] \in Answered =>
         /\ answer[c] \in AnswerTo(call[c])
         /\ call[c].op \notin SetOp => Len(answer[c]) >= Items(call[c])
         /\ index[c] <= Items(call[c])
    /\ pc[c] \in {"setState", "checkSignature"} =>
         /\ newState[c] \in ImmutableState
         /\ index[c] < Items(call[c])
    /\ lock = c <=> pc[c] \in Critical

Control == TypeOK /\ \A c \in Clients : Shape(c)

\* A call has a number of items.
LEMMA ItemsType ==
    ASSUME NEW cl \in Call
    PROVE  Items(cl) \in Nat
BY LenProperties DEF Items, Call

\* An operation checks its new state in one of the two names.
LEMMA DbOfType ==
    ASSUME NEW op
    PROVE  DbOf(op) \in DbName
BY DEF DbOf, DbName

\* The answer to CurrentState is a state.
LEMMA CurrentStateType ==
    ASSUME NEW h \in History, NEW db \in DbName \cup {"none"}
    PROVE  CurrentState(h, db) \in ImmutableState
<1>1. Len(h) \in Nat
  BY LenProperties DEF History
<1>2. Signed(db, h) \in Signature
  BY <1>1 DEF Signed, Signature, NoSignature
<1> QED
  BY <1>1, <1>2 DEF CurrentState, ImmutableState, DbName

\* The item of an answer that is next is a verifiable entry.
LEMMA ItemType ==
    ASSUME NEW cl \in Call, cl.op \notin SetOp, NEW a \in AnswerTo(cl),
           NEW i \in Nat, 0 < i, i <= Len(a), a[i] # ItemError
    PROVE  a[i] \in VerifiableEntry
<1>1. a \in Seq(VerifiableEntry \cup {ItemError})
  BY DEF AnswerTo
<1>2. i \in 1 .. Len(a)
  BY <1>1, LenProperties
<1> QED
  BY <1>1, <1>2, ElementOfSeq

\* The answer to a write is a verifiable transaction.
LEMMA WriteAnswerType ==
    ASSUME NEW cl, cl.op \in SetOp, NEW a \in AnswerTo(cl)
    PROVE  a \in VerifiableTx
BY DEF AnswerTo

\* What a verified read returns is a result.
LEMMA ReadResultType ==
    ASSUME NEW st, NEW item \in VerifiableEntry, NEW key \in Keys
    PROVE  [header |-> ReadHeader(st, item), spec |-> ReadSpec(item, key)] \in Result
<1>1. ReadHeader(st, item) \in History
  BY DEF ReadHeader, VerifiableEntry, DualProof, Header
<1>2. item.entry.key \in Keys /\ item.entry.deleted \in BOOLEAN /\ item.entry.value \in Values
  BY DEF VerifiableEntry, KVEntry
<1>3. ReadSpec(item, key) \in EntrySpec
  <2>1. CASE item.ref = NoRef
    BY <1>2, <2>1 DEF ReadSpec, EncodeEntrySpec, EntrySpec, KVEntry
  <2>2. CASE item.ref # NoRef
    <3>1. item.ref \in Reference
      BY <2>2 DEF VerifiableEntry
    <3> QED
      BY <1>2, <2>2, <3>1 DEF ReadSpec, EncodeReference, EntrySpec, RefEntry, Reference
  <2> QED
    BY <2>1, <2>2
<1> QED
  BY <1>1, <1>3 DEF Result

\* What a verified write returns are results.
LEMMA WriteResultsType ==
    ASSUME NEW vTx \in VerifiableTx, NEW kvs \in Seq(KeyValue),
           Len(vTx.body) = Len(kvs)
    PROVE  WriteResults(vTx, kvs) \subseteq Result
<1>1. vTx.header \in History /\ vTx.body \in Seq(KVEntry)
  BY DEF VerifiableTx, Header
<1>2. ASSUME NEW i \in DOMAIN kvs
      PROVE  [header |-> vTx.header,
              spec   |-> EncodeEntrySpec(kvs[i].key, vTx.body[i].deleted, kvs[i].value)]
               \in Result
  <2>1. i \in 1 .. Len(kvs)
    BY <1>2, LenProperties
  <2>2. kvs[i] \in KeyValue /\ vTx.body[i] \in KVEntry
    BY <1>1, <2>1, ElementOfSeq
  <2> QED
    BY <1>1, <2>2 DEF Result, EntrySpec, EncodeEntrySpec, KVEntry, KeyValue
<1> QED
  BY <1>2 DEF WriteResults

\* A step of client c leaves the others as they are.
OnlyLocals(c) ==
    \A d \in Clients \ {c} :
        /\ pc'[d] = pc[d] /\ call'[d] = call[d] /\ state'[d] = state[d]
        /\ answer'[d] = answer[d] /\ index'[d] = index[d]
        /\ newState'[d] = newState[d] /\ accepted'[d] = accepted[d]
        /\ lock' = d <=> lock = d

\* Then their control is as it was.
LEMMA OtherShapes ==
    ASSUME NEW c \in Clients, \A d \in Clients : Shape(d), OnlyLocals(c),
           NEW d \in Clients, d # c
    PROVE  Shape(d)'
BY DEF OnlyLocals, Shape, Blank

\* Control holds initially.
LEMMA ControlInit == Init => Control
<1> SUFFICES ASSUME Init PROVE Control
  OBVIOUS
<1>1. TypeOK
  BY EmptySeq DEF Init, TypeOK, History, Critical, Outcome
<1>2. ASSUME NEW c \in Clients PROVE Shape(c)
  BY ClientAssumption DEF Init, Shape, Blank, Between, Trusting, Answered, Critical
<1> QED
  BY <1>1, <1>2 DEF Control

\* Begin keeps Control.
LEMMA ControlBegin ==
    ASSUME Control, NEW c \in Clients, Begin(c)
    PROVE  Control' /\ OnlyLocals(c)
<1> USE DEF Begin, Goto
<1>1. TypeOK /\ \A d \in Clients : Shape(d)
  BY DEF Control
<1>2. TypeOK'
  BY <1>1 DEF TypeOK, Shape, Blank, Between, Critical
<1>3. Shape(c)'
  BY <1>1 DEF TypeOK, Shape, Blank, Between, Trusting, Answered, Critical
<1>4. OnlyLocals(c)
  BY <1>1, ClientAssumption DEF TypeOK, Shape, Critical, OnlyLocals
<1> QED
  BY <1>1, <1>2, <1>3, <1>4, OtherShapes DEF Control

\* CacheLock keeps Control.
LEMMA ControlCacheLock ==
    ASSUME Control, NEW c \in Clients, CacheLock(c)
    PROVE  Control' /\ OnlyLocals(c)
<1> USE DEF CacheLock, Goto
<1>1. TypeOK /\ \A d \in Clients : Shape(d)
  BY DEF Control
<1>2. TypeOK'
  BY <1>1 DEF TypeOK, Critical
<1>3. Shape(c)'
  BY <1>1 DEF TypeOK, Shape, Blank, Between, Trusting, Answered, Critical
<1>4. OnlyLocals(c)
  BY <1>1, ClientAssumption DEF TypeOK, Shape, Critical, OnlyLocals
<1> QED
  BY <1>1, <1>2, <1>3, <1>4, OtherShapes DEF Control

\* CacheLockFails keeps Control.
LEMMA ControlCacheLockFails ==
    ASSUME Control, NEW c \in Clients, CacheLockFails(c)
    PROVE  Control' /\ OnlyLocals(c)
<1> USE DEF CacheLockFails, Reset, Goto
<1>1. TypeOK /\ \A d \in Clients : Shape(d)
  BY DEF Control
<1>2. TypeOK'
  BY <1>1 DEF TypeOK, Critical, Outcome
<1>3. Shape(c)'
  BY <1>1, ClientAssumption DEF TypeOK, Shape, Blank, Between, Trusting, Answered, Critical
<1>4. OnlyLocals(c)
  BY <1>1, ClientAssumption DEF TypeOK, Shape, Critical, OnlyLocals
<1> QED
  BY <1>1, <1>2, <1>3, <1>4, OtherShapes DEF Control

\* GetStateHit keeps Control.
LEMMA ControlGetStateHit ==
    ASSUME Control, NEW c \in Clients, GetStateHit(c)
    PROVE  Control' /\ OnlyLocals(c)
<1> USE DEF GetStateHit, Goto
<1>1. TypeOK /\ \A d \in Clients : Shape(d)
  BY DEF Control
<1>2. TypeOK'
  BY <1>1, ClientAssumption DEF TypeOK, Critical
<1>3. Shape(c)'
  BY <1>1, ClientAssumption DEF TypeOK, Shape, Blank, Between, Trusting, Answered, Critical
<1>4. OnlyLocals(c)
  BY <1>1, ClientAssumption DEF TypeOK, Shape, Critical, OnlyLocals
<1> QED
  BY <1>1, <1>2, <1>3, <1>4, OtherShapes DEF Control

\* GetStateMiss keeps Control.
LEMMA ControlGetStateMiss ==
    ASSUME Control, NEW c \in Clients, GetStateMiss(c)
    PROVE  Control' /\ OnlyLocals(c)
<1> USE DEF GetStateMiss, Goto, Finish
<1>1. TypeOK /\ \A d \in Clients : Shape(d)
  BY DEF Control
<1>a. \A db \in ServerDbs : CurrentState(ledger[ApiKeyOf[c]], db) \in ImmutableState
  BY <1>1, ClientAssumption, ServerAssumption, CurrentStateType DEF TypeOK
<1>2. TypeOK'
  BY <1>1, <1>a DEF TypeOK, Critical, Outcome
<1>3. Shape(c)'
  BY <1>1, <1>a DEF TypeOK, Shape, Blank, Between, Trusting, Answered, Critical
<1>4. OnlyLocals(c)
  BY <1>1, ClientAssumption DEF TypeOK, Shape, Critical, OnlyLocals
<1> QED
  BY <1>1, <1>2, <1>3, <1>4, OtherShapes DEF Control

\* CacheState keeps Control.
LEMMA ControlCacheState ==
    ASSUME Control, NEW c \in Clients, CacheState(c)
    PROVE  Control' /\ OnlyLocals(c)
<1> USE DEF CacheState, Goto
<1>1. TypeOK /\ \A d \in Clients : Shape(d)
  BY DEF Control
<1>2. TypeOK'
  BY <1>1, ClientAssumption DEF TypeOK, Shape, Critical
<1>3. Shape(c)'
  BY <1>1 DEF TypeOK, Shape, Blank, Between, Trusting, Answered, Critical
<1>4. OnlyLocals(c)
  BY <1>1, ClientAssumption DEF TypeOK, Shape, Critical, OnlyLocals
<1> QED
  BY <1>1, <1>2, <1>3, <1>4, OtherShapes DEF Control

\* GetStateFails keeps Control.
LEMMA ControlGetStateFails ==
    ASSUME Control, NEW c \in Clients, GetStateFails(c)
    PROVE  Control' /\ OnlyLocals(c)
<1> USE DEF GetStateFails, Finish, Goto
<1>1. TypeOK /\ \A d \in Clients : Shape(d)
  BY DEF Control
<1>2. TypeOK'
  BY <1>1 DEF TypeOK, Critical, Outcome
<1>3. Shape(c)'
  BY <1>1 DEF TypeOK, Shape, Blank, Between, Trusting, Answered, Critical
<1>4. OnlyLocals(c)
  BY <1>1, ClientAssumption DEF TypeOK, Shape, Critical, OnlyLocals
<1> QED
  BY <1>1, <1>2, <1>3, <1>4, OtherShapes DEF Control

\* RpcFails keeps Control.
LEMMA ControlRpcFails ==
    ASSUME Control, NEW c \in Clients, RpcFails(c)
    PROVE  Control' /\ OnlyLocals(c)
<1> USE DEF RpcFails, Finish, Goto
<1>1. TypeOK /\ \A d \in Clients : Shape(d)
  BY DEF Control
<1>2. TypeOK'
  BY <1>1 DEF TypeOK, Critical, Outcome
<1>3. Shape(c)'
  BY <1>1 DEF TypeOK, Shape, Blank, Between, Trusting, Answered, Critical
<1>4. OnlyLocals(c)
  BY <1>1, ClientAssumption DEF TypeOK, Shape, Critical, OnlyLocals
<1> QED
  BY <1>1, <1>2, <1>3, <1>4, OtherShapes DEF Control

\* Retry keeps Control.
LEMMA ControlRetry ==
    ASSUME Control, NEW c \in Clients, Retry(c)
    PROVE  Control' /\ OnlyLocals(c)
<1> USE DEF Retry, Goto
<1>1. TypeOK /\ \A d \in Clients : Shape(d)
  BY DEF Control
<1>2. TypeOK'
  BY <1>1 DEF TypeOK, Critical, Outcome
<1>3. Shape(c)'
  BY <1>1 DEF TypeOK, Shape, Blank, Between, Trusting, Answered, Critical
<1>4. OnlyLocals(c)
  BY <1>1, ClientAssumption DEF TypeOK, Shape, Critical, OnlyLocals
<1> QED
  BY <1>1, <1>2, <1>3, <1>4, OtherShapes DEF Control

\* AllVerified keeps Control.
LEMMA ControlAllVerified ==
    ASSUME Control, NEW c \in Clients, AllVerified(c)
    PROVE  Control' /\ OnlyLocals(c)
<1> USE DEF AllVerified, Finish, Goto
<1>1. TypeOK /\ \A d \in Clients : Shape(d)
  BY DEF Control
<1>2. TypeOK'
  BY <1>1 DEF TypeOK, Critical, Outcome
<1>3. Shape(c)'
  BY <1>1 DEF TypeOK, Shape, Blank, Between, Trusting, Answered, Critical
<1>4. OnlyLocals(c)
  BY <1>1, ClientAssumption DEF TypeOK, Shape, Critical, OnlyLocals
<1> QED
  BY <1>1, <1>2, <1>3, <1>4, OtherShapes DEF Control

\* SkipItem keeps Control.
LEMMA ControlSkipItem ==
    ASSUME Control, NEW c \in Clients, SkipItem(c)
    PROVE  Control' /\ OnlyLocals(c)
<1> USE DEF SkipItem
<1>1. TypeOK /\ \A d \in Clients : Shape(d)
  BY DEF Control
<1>a. call[c] \in Call /\ Items(call[c]) \in Nat
  BY <1>1, CallAssumption, ItemsType DEF Shape
<1>2. TypeOK'
  BY <1>1 DEF TypeOK, Critical, Outcome
<1>3. Shape(c)'
  BY <1>1, <1>a DEF TypeOK, Shape, Blank, Between, Trusting, Answered, Critical
<1>4. OnlyLocals(c)
  BY <1>1, ClientAssumption DEF TypeOK, Shape, Critical, OnlyLocals
<1> QED
  BY <1>1, <1>2, <1>3, <1>4, OtherShapes DEF Control

\* SetState keeps Control.
LEMMA ControlSetState ==
    ASSUME Control, NEW c \in Clients, SetState(c)
    PROVE  Control' /\ OnlyLocals(c)
<1> USE DEF SetState, Goto
<1>1. TypeOK /\ \A d \in Clients : Shape(d)
  BY DEF Control
<1>b. newState[c] \in ImmutableState /\ index[c] \in Nat
  BY <1>1 DEF TypeOK, Shape
<1>a. call[c] \in Call /\ Items(call[c]) \in Nat
  BY <1>1, CallAssumption, ItemsType DEF Shape
<1>2. TypeOK'
  BY <1>1, <1>b, ClientAssumption DEF TypeOK, Critical, Outcome
<1>3. Shape(c)'
  BY <1>1, <1>a DEF TypeOK, Shape, Blank, Between, Trusting, Answered, Critical
<1>4. OnlyLocals(c)
  BY <1>1, ClientAssumption DEF TypeOK, Shape, Critical, OnlyLocals
<1> QED
  BY <1>1, <1>2, <1>3, <1>4, OtherShapes DEF Control

\* SetStateFails keeps Control.
LEMMA ControlSetStateFails ==
    ASSUME Control, NEW c \in Clients, SetStateFails(c)
    PROVE  Control' /\ OnlyLocals(c)
<1> USE DEF SetStateFails, Finish, Goto
<1>1. TypeOK /\ \A d \in Clients : Shape(d)
  BY DEF Control
<1>2. TypeOK'
  BY <1>1 DEF TypeOK, Critical, Outcome
<1>3. Shape(c)'
  BY <1>1 DEF TypeOK, Shape, Blank, Between, Trusting, Answered, Critical
<1>4. OnlyLocals(c)
  BY <1>1, ClientAssumption DEF TypeOK, Shape, Critical, OnlyLocals
<1> QED
  BY <1>1, <1>2, <1>3, <1>4, OtherShapes DEF Control

\* PartMissing keeps Control.
LEMMA ControlPartMissing ==
    ASSUME Control, NEW c \in Clients, PartMissing(c)
    PROVE  Control' /\ OnlyLocals(c)
<1> USE DEF PartMissing, Finish, Goto
<1>1. TypeOK /\ \A d \in Clients : Shape(d)
  BY DEF Control
<1>2. TypeOK'
  BY <1>1 DEF TypeOK, Critical, Outcome
<1>3. Shape(c)'
  BY <1>1 DEF TypeOK, Shape, Blank, Between, Trusting, Answered, Critical
<1>4. OnlyLocals(c)
  BY <1>1, ClientAssumption DEF TypeOK, Shape, Critical, OnlyLocals
<1> QED
  BY <1>1, <1>2, <1>3, <1>4, OtherShapes DEF Control

\* CheckNewState keeps Control.
LEMMA ControlCheckNewState ==
    ASSUME Control, NEW c \in Clients, CheckNewState(c)
    PROVE  Control' /\ OnlyLocals(c)
<1> USE DEF CheckNewState, Finish, Goto
<1>1. TypeOK /\ \A d \in Clients : Shape(d)
  BY DEF Control
<1>a. call[c] \in Call /\ Items(call[c]) \in Nat
  BY <1>1, CallAssumption, ItemsType DEF Shape
<1>2. TypeOK'
  BY <1>1 DEF TypeOK, Critical, Outcome
<1>3. Shape(c)'
  BY <1>1, <1>a DEF TypeOK, Shape, Blank, Between, Trusting, Answered, Critical
<1>4. OnlyLocals(c)
  BY <1>1, ClientAssumption DEF TypeOK, Shape, Critical, OnlyLocals
<1> QED
  BY <1>1, <1>2, <1>3, <1>4, OtherShapes DEF Control

\* Return keeps Control.
LEMMA ControlReturn ==
    ASSUME Control, NEW c \in Clients, Return(c)
    PROVE  Control' /\ OnlyLocals(c)
<1> USE DEF Return, Reset, Goto
<1>1. TypeOK /\ \A d \in Clients : Shape(d)
  BY DEF Control
<1>2. TypeOK'
  BY <1>1, ClientAssumption DEF TypeOK, Critical, Outcome
<1>3. Shape(c)'
  BY <1>1, ClientAssumption DEF TypeOK, Shape, Blank, Between, Trusting, Answered, Critical
<1>4. OnlyLocals(c)
  BY <1>1, ClientAssumption DEF TypeOK, Shape, Critical, OnlyLocals
<1> QED
  BY <1>1, <1>2, <1>3, <1>4, OtherShapes DEF Control

\* Crash keeps Control.
LEMMA ControlCrash ==
    ASSUME Control, NEW c \in Clients, Crash(c)
    PROVE  Control' /\ OnlyLocals(c)
<1> USE DEF Crash, Reset, Goto
<1>1. TypeOK /\ \A d \in Clients : Shape(d)
  BY DEF Control
<1>2. TypeOK'
  BY <1>1 DEF TypeOK, Critical, Outcome
<1>3. Shape(c)'
  BY <1>1, ClientAssumption DEF TypeOK, Shape, Blank, Between, Trusting, Answered, Critical
<1>4. OnlyLocals(c)
  BY <1>1, ClientAssumption DEF TypeOK, Shape, Critical, OnlyLocals
<1> QED
  BY <1>1, <1>2, <1>3, <1>4, OtherShapes DEF Control

\* ServeWrongly keeps Control.
LEMMA ControlServeWrongly ==
    ASSUME Control, NEW c \in Clients, ServeWrongly(c)
    PROVE  Control' /\ OnlyLocals(c)
<1> USE DEF ServeWrongly, Deliver
<1>1. TypeOK /\ \A d \in Clients : Shape(d)
  BY DEF Control
<1>2. TypeOK'
  <2>1. answer'[c] \in AnswerTo(call[c]) /\ DOMAIN answer' = Clients
    BY <1>1 DEF TypeOK
  <2>2. \A d \in Clients \ {c} : answer'[d] = answer[d]
    BY <1>1 DEF TypeOK
  <2> QED
    BY <1>1, <2>1, <2>2 DEF TypeOK
<1>3. Shape(c)'
  BY <1>1 DEF TypeOK, Shape, Blank, Between, Trusting, Answered, Critical
<1>4. OnlyLocals(c)
  BY <1>1, ClientAssumption DEF TypeOK, Shape, Critical, OnlyLocals
<1> QED
  BY <1>1, <1>2, <1>3, <1>4, OtherShapes DEF Control

\* Serve keeps Control.
LEMMA ControlServe ==
    ASSUME Control, NEW c \in Clients, Serve(c)
    PROVE  Control' /\ OnlyLocals(c)
<1> USE DEF Serve, Deliver, Goto
<1>1. TypeOK /\ \A d \in Clients : Shape(d)
  BY DEF Control
<1>a. answer' = [answer EXCEPT ![c] = answer'[c]] /\ answer'[c] \in AnswerTo(call[c])
  BY <1>1 DEF TypeOK, ServeRead, ServeWrite
<1>b. ledger' \in [ApiKeys -> History]
  <2>1. CASE call[c].op \notin SetOp
    BY <1>1, <2>1 DEF TypeOK, ServeRead
  <2>2. CASE call[c].op \in SetOp
    <3> DEFINE kvs == call[c].kvs
               entries == {EncodeEntrySpec(kvs[i].key, FALSE, kvs[i].value) : i \in DOMAIN kvs}
               h == ledger[ApiKeyOf[c]]
    <3>1. kvs \in Seq(KeyValue)
      BY <1>1, CallAssumption DEF Shape, Call
    <3>2. \A i \in DOMAIN kvs : kvs[i] \in KeyValue
      BY <3>1, LenProperties, ElementOfSeq
    <3>a. \A i \in DOMAIN kvs :
            EncodeEntrySpec(kvs[i].key, FALSE, kvs[i].value) \in EntrySpec
      BY <3>2 DEF EncodeEntrySpec, EntrySpec, KVEntry, KeyValue
    <3>3. entries \subseteq EntrySpec
      BY <3>a
    <3>4. h \in Seq(Tx) /\ [epoch |-> epoch, entries |-> entries] \in Tx
      BY <1>1, <3>3, ClientAssumption DEF TypeOK, History, Tx
    <3>5. Append(h, [epoch |-> epoch, entries |-> entries]) \in History
      BY <3>4, AppendProperties DEF History
    <3>6. ledger' = [ledger EXCEPT ![ApiKeyOf[c]] = Append(h, [epoch |-> epoch, entries |-> entries])]
      BY <2>2 DEF ServeWrite, Committed
    <3> QED
      BY <1>1, <3>5, <3>6, ClientAssumption DEF TypeOK
  <2> QED
    BY <2>1, <2>2
<1>2. TypeOK'
  BY <1>1, <1>a, <1>b DEF TypeOK, Critical
<1>3. Shape(c)'
  BY <1>1, <1>a DEF TypeOK, Shape, Blank, Between, Trusting, Answered, Critical
<1>4. OnlyLocals(c)
  BY <1>1, <1>a, ClientAssumption DEF TypeOK, Shape, Critical, OnlyLocals
<1> QED
  BY <1>1, <1>2, <1>3, <1>4, OtherShapes DEF Control

\* Receive keeps Control.
LEMMA ControlReceive ==
    ASSUME Control, NEW c \in Clients, Receive(c)
    PROVE  Control' /\ OnlyLocals(c)
<1> USE DEF Receive, Finish, Goto
<1>1. TypeOK /\ \A d \in Clients : Shape(d)
  BY DEF Control
<1>a. call[c] \in Call /\ Items(call[c]) \in Nat /\ WellFormed(call[c])
  BY <1>1, CallAssumption, ItemsType DEF Shape
<1>b. answer[c] \in AnswerTo(call[c]) /\ index[c] = 0 /\ accepted[c] = {}
       /\ call[c] \in Calls /\ state[c] \in ImmutableState /\ lock = c
  BY <1>1 DEF Shape, Trusting, Critical
<1>c. ASSUME pc'[c] = "verify", call[c].op \notin SetOp
      PROVE  Len(answer[c]) >= Items(call[c])
  <2>1. ~CountDiffers(call[c], answer[c]) /\ ~NoEntry(call[c], answer[c])
    BY <1>1, <1>c DEF TypeOK
  <2>2. answer[c] \in Seq(VerifiableEntry \cup {ItemError}) /\ Len(answer[c]) \in Nat
    BY <1>b, <1>c, LenProperties DEF AnswerTo
  <2>3. CASE call[c].op = "VerifiedGetExtAtMulti"
    BY <1>a, <2>1, <2>2, <2>3 DEF CountDiffers, Items, SetOp
  <2>4. CASE call[c].op = "VCNGetArtifacts"
    <3>1. Len(answer[c]) # 0
      BY <2>1, <2>4 DEF NoEntry
    <3>2. Len(call[c].reqs) = 1
      BY <1>a, <1>c, <2>4 DEF WellFormed, ReadOp, Call
    <3> QED
      BY <1>c, <2>2, <3>1, <3>2 DEF Items
  <2>5. CASE call[c].op \notin {"VCNGetArtifacts", "VerifiedGetExtAtMulti"}
    <3>1. Len(answer[c]) = 1
      BY <1>b, <1>c, <2>5 DEF AnswerTo
    <3>2. Len(call[c].reqs) = 1
      BY <1>a, <1>c, <2>5 DEF WellFormed, ReadOp, Call
    <3> QED
      BY <1>c, <3>1, <3>2 DEF Items
  <2> QED
    BY <2>3, <2>4, <2>5
<1>2. TypeOK'
  BY <1>1 DEF TypeOK, Critical, Outcome
<1>3. Shape(c)'
  BY <1>1, <1>a, <1>b, <1>c DEF TypeOK, Shape, Between, Trusting, Answered, Critical
<1>4. OnlyLocals(c)
  BY <1>1, ClientAssumption DEF TypeOK, Shape, Critical, OnlyLocals
<1> QED
  BY <1>1, <1>2, <1>3, <1>4, OtherShapes DEF Control

\* VerifyWrite keeps Control.
LEMMA ControlVerifyWrite ==
    ASSUME Control, NEW c \in Clients, VerifyWrite(c)
    PROVE  Control' /\ OnlyLocals(c)
<1> USE DEF VerifyWrite, Finish, Goto
<1>1. TypeOK /\ \A d \in Clients : Shape(d)
  BY DEF Control
<1>a. call[c] \in Call /\ Items(call[c]) \in Nat /\ WellFormed(call[c])
  BY <1>1, CallAssumption, ItemsType DEF Shape
<1>b. state[c] \in ImmutableState /\ answer[c] \in VerifiableTx /\ Items(call[c]) = 1
       /\ call[c].kvs \in Seq(KeyValue)
  BY <1>1, <1>a DEF Shape, Trusting, Answered, AnswerTo, Items, Call
<1>c. SetNewState(answer[c], DbOf(call[c].op)) \in ImmutableState
  BY <1>b, DbOfType, SetNewStateType
<1>d. WriteVerifies(c) => WriteResults(answer[c], call[c].kvs) \subseteq Result
  BY <1>b, WriteResultsType DEF WriteVerifies, VerifySet
<1>2. TypeOK'
  BY <1>1, <1>c, <1>d DEF TypeOK, Critical, Outcome, AfterVerify
<1>3. Shape(c)'
  BY <1>1, <1>a, <1>b, <1>c DEF TypeOK, Shape, Between, Trusting, Answered, Critical, AfterVerify
<1>4. OnlyLocals(c)
  BY <1>1, ClientAssumption DEF TypeOK, Shape, Critical, OnlyLocals
<1> QED
  BY <1>1, <1>2, <1>3, <1>4, OtherShapes DEF Control

\* VerifyRead keeps Control.
LEMMA ControlVerifyRead ==
    ASSUME Control, NEW c \in Clients, VerifyRead(c)
    PROVE  Control' /\ OnlyLocals(c)
<1> USE DEF VerifyRead, Finish, Goto
<1>1. TypeOK /\ \A d \in Clients : Shape(d)
  BY DEF Control
<1>a. call[c] \in Call /\ Items(call[c]) \in Nat /\ WellFormed(call[c])
  BY <1>1, CallAssumption, ItemsType DEF Shape
<1> DEFINE i == index[c] + 1
           item == answer[c][i]
           key == VerifiedKey(call[c], i, item)
           new == GetNewState(state[c], item, DbOf(call[c].op))
           result == [header |-> ReadHeader(state[c], item), spec |-> ReadSpec(item, key)]
<1>b. state[c] \in ImmutableState /\ answer[c] \in AnswerTo(call[c])
       /\ Len(answer[c]) >= Items(call[c]) /\ call[c].op \notin SetOp
  BY <1>1 DEF Shape, Trusting, Answered
<1>c. i \in Nat /\ 0 < i /\ i <= Items(call[c]) /\ i <= Len(answer[c])
  <2>1. answer[c] \in Seq(VerifiableEntry \cup {ItemError})
    BY <1>b DEF AnswerTo
  <2>2. Len(answer[c]) \in Nat
    BY <2>1, LenProperties
  <2> QED
    BY <1>1, <1>a, <1>b, <2>2 DEF TypeOK
<1>d. item \in VerifiableEntry
  BY <1>a, <1>b, <1>c, ItemType
<1>e. key \in Keys
  <2>1. item.entry.key \in Keys
    BY <1>d DEF VerifiableEntry, KVEntry
  <2>2. Items(call[c]) = Len(call[c].reqs) /\ call[c].reqs \in Seq([key : Keys, atTx : Nat])
    BY <1>a, <1>b DEF Items, Call
  <2>3. call[c].reqs[i] \in [key : Keys, atTx : Nat]
    <3> DEFINE rs == call[c].reqs
    <3>1. rs \in Seq([key : Keys, atTx : Nat]) /\ i \in 1 .. Len(rs)
      BY <1>a, <1>c, <2>2
    <3> HIDE DEF rs, i
    <3>2. rs[i] \in [key : Keys, atTx : Nat]
      BY <3>1, ElementOfSeq
    <3> QED
      BY <3>2 DEF rs
  <2> QED
    BY <2>1, <2>3 DEF VerifiedKey
<1>f. new \in ImmutableState /\ result \in Result
  BY <1>b, <1>d, <1>e, DbOfType, GetNewStateType, ReadResultType
<1> HIDE DEF new, result
<1>g. \/ /\ newState' = [newState EXCEPT ![c] = new]
          /\ accepted' = [accepted EXCEPT ![c] = @ \cup {result}]
          /\ pc' = [pc EXCEPT ![c] = AfterVerify(call[c].op)]
          /\ UNCHANGED outcome
       \/ /\ pc' = [pc EXCEPT ![c] = "unlock"]
          /\ outcome' = [outcome EXCEPT ![c] = "corrupted"]
          /\ UNCHANGED <<newState, accepted>>
  BY DEF new, result
<1>2. TypeOK'
  BY <1>1, <1>f, <1>g DEF TypeOK, Critical, Outcome, AfterVerify
<1>3. Shape(c)'
  BY <1>1, <1>a, <1>b, <1>f, <1>g DEF TypeOK, Shape, Between, Trusting, Answered, Critical, AfterVerify
<1>4. OnlyLocals(c)
  BY <1>1, ClientAssumption DEF TypeOK, Shape, Critical, OnlyLocals
<1> QED
  BY <1>1, <1>2, <1>3, <1>4, OtherShapes DEF Control

\* A write of another application changes the ledger only.
LEMMA ControlWrite ==
    ASSUME Control, NEW k \in ApiKeys, Write(k)
    PROVE  Control'
<1>1. PICK entries \in ForeignWrites :
        ledger' = [ledger EXCEPT ![k] = Append(@, [epoch |-> epoch, entries |-> entries])]
  BY DEF Write, Committed
<1>2. ledger[k] \in Seq(Tx) /\ [epoch |-> epoch, entries |-> entries] \in Tx
  BY ServerAssumption DEF Control, TypeOK, History, Tx
<1>3. Append(ledger[k], [epoch |-> epoch, entries |-> entries]) \in History
  BY <1>2, AppendProperties DEF History
<1> QED
  BY <1>1, <1>3 DEF Control, TypeOK, Shape, Blank, Write, locals

\* So does a restore.
LEMMA ControlRestore ==
    ASSUME Control, NEW k \in ApiKeys, Restore(k)
    PROVE  Control'
<1>1. PICK n \in 0 .. Len(ledger[k]) - 1 : ledger' = [ledger EXCEPT ![k] = SubSeq(@, 1, n)]
  BY DEF Restore, Upto
<1>2. ledger[k] \in Seq(Tx) /\ Len(ledger[k]) \in Nat
  BY LenProperties DEF Control, TypeOK, History
<1>3. \A i \in 1 .. n : ledger[k][i] \in Tx
  BY <1>2, ElementOfSeq
<1>4. SubSeq(ledger[k], 1, n) \in History
  BY <1>2, <1>3, SubSeqProperties DEF History
<1>5. epoch' = epoch + 1 /\ UNCHANGED <<faults, lock, cache, verified, locals>>
  BY DEF Restore
<1> QED
  BY <1>1, <1>4, <1>5 DEF Control, TypeOK, Shape, Blank, locals

\* Every step keeps Control.
LEMMA ControlStep ==
    ASSUME Control, [Next]_vars
    PROVE  Control'
<1>1. ASSUME NEW c \in Clients, Step(c) PROVE Control'
  BY <1>1, ControlGetStateHit,
     ControlGetStateMiss,
     ControlCacheState,
     ControlGetStateFails,
     ControlServe,
     ControlRpcFails,
     ControlRetry,
     ControlReceive,
     ControlVerifyWrite,
     ControlVerifyRead,
     ControlSkipItem,
     ControlAllVerified,
     ControlSetState,
     ControlSetStateFails,
     ControlCheckNewState,
     ControlReturn DEF Step
<1>2. ASSUME NEW c \in Clients,
             \/ Begin(c) \/ CacheLock(c) \/ CacheLockFails(c)
             \/ ServeWrongly(c) \/ PartMissing(c) \/ Crash(c)
      PROVE  Control'
  BY <1>2, ControlBegin, ControlCacheLock, ControlCacheLockFails, ControlServeWrongly,
     ControlPartMissing, ControlCrash
<1>3. ASSUME NEW k \in ApiKeys, Write(k) \/ Restore(k) PROVE Control'
  BY <1>3, ControlWrite, ControlRestore
<1>4. CASE UNCHANGED vars
  BY <1>4 DEF Control, TypeOK, Shape, Blank, vars
<1> QED
  BY <1>1, <1>2, <1>3, <1>4 DEF Next

\* Control is an invariant.
LEMMA ControlInvariant == Spec => []Control
<1>1. Init => Control
  BY ControlInit
<1>2. Control /\ [Next]_vars => Control'
  BY ControlStep
<1> QED
  BY <1>1, <1>2, PTL DEF Spec

\* Every variable keeps its type: the states kept and used are well formed, and
\* an answer is only ever one to the operation its client is in.
THEOREM TypeCorrect == Spec => []TypeOK
<1>1. Control => TypeOK
  BY DEF Control
<1> QED
  BY <1>1, ControlInvariant, PTL

=============================================================================
