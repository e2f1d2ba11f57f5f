----------------------------- MODULE TrustProofs -----------------------------
(***************************************************************************)
(* LcClient implements TrustedState: whatever the calls and the answers,   *)
(* there is one trusted history per API key that is adopted once and only  *)
(* extended, and every result returned as verified is on its branch.       *)
(* When no call reads more than one key, the cached state covers all that  *)
(* was ever verified and only grows, so all that is verified under an API  *)
(* key, by whichever client, lies on one history.                          *)
(***************************************************************************)
EXTENDS LcClientProofs

-----------------------------------------------------------------------------
(* Trust: how what a client holds relates to the cache.                    *)

Trust(c) ==
    LET kept == cache[ApiKeyOf[c]]
    IN  /\ pc[c] = "cacheState" => kept = NoState
        /\ BeforeFirstSetState(c) => state[c] = kept
        /\ state[c] # NoState =>
             kept # NoState /\ IsPrefix(Digest(state[c]), Digest(kept))
        /\ pc[c] \in {"setState", "checkSignature"} =>
             IsPrefix(Digest(state[c]), Digest(newState[c]))
        /\ accepted[c] # {} => state[c] # NoState
        /\ \A r \in accepted[c] :
             /\ r.spec \in Eh(r.header)
             /\ \/ IsPrefix(r.header, Digest(state[c]))
                \/ IsPrefix(Digest(state[c]), r.header)

Inv == Control /\ \A c \in Clients : Trust(c)

\* The history of a state is a history.
LEMMA DigestType ==
    ASSUME NEW st \in ImmutableState
    PROVE  Digest(st) \in History
BY EmptySeq DEF Digest, ImmutableState, History

\* The cache changes only by the hand of the holder of the lock, so a step of
\* client c leaves the trust of the others as it was.
LEMMA OtherTrust ==
    ASSUME Inv, NEW c \in Clients, OnlyLocals(c), UNCHANGED cache \/ lock = c,
           NEW d \in Clients, d # c
    PROVE  Trust(d)'
<1>1. Shape(d) /\ Trust(d)
  BY DEF Inv, Control
<1>2. CASE UNCHANGED cache
  BY <1>1, <1>2 DEF OnlyLocals, Trust, BeforeFirstSetState
<1>3. CASE lock = c
  <2>1. pc[d] \in Between /\ Blank(d)
    BY <1>1, <1>3 DEF Shape, Inv, Control, TypeOK, Critical, Between
  <2> QED
    BY <2>1 DEF OnlyLocals, Trust, BeforeFirstSetState, Between, Blank
<1> QED
  BY <1>2, <1>3

\* A step that keeps the trust of the client that takes it keeps Inv.
LEMMA TrustOfAll ==
    ASSUME Inv, NEW c \in Clients, Control', OnlyLocals(c), Trust(c)',
           UNCHANGED cache \/ lock = c
    PROVE  Inv'
BY OtherTrust DEF Inv

\* Begin keeps Inv.
LEMMA TrustBegin ==
    ASSUME Inv, NEW c \in Clients, Begin(c)
    PROVE  Inv'
<1>1. Control' /\ OnlyLocals(c)
  BY ControlBegin DEF Inv
<1>2. TypeOK /\ Shape(c) /\ Trust(c)
  BY DEF Inv, Control
<1>3. Trust(c)'
  BY <1>2 DEF Begin, Goto, Shape, Blank, Between, Trust, TypeOK, BeforeFirstSetState
<1> QED
  BY <1>1, <1>2, <1>3, TrustOfAll DEF Begin, Shape, Critical

\* CacheLock keeps Inv.
LEMMA TrustCacheLock ==
    ASSUME Inv, NEW c \in Clients, CacheLock(c)
    PROVE  Inv'
<1>1. Control' /\ OnlyLocals(c)
  BY ControlCacheLock DEF Inv
<1>2. TypeOK /\ Shape(c) /\ Trust(c)
  BY DEF Inv, Control
<1>3. Trust(c)'
  BY <1>2 DEF CacheLock, Goto, Shape, Blank, Between, Trust, TypeOK, BeforeFirstSetState
<1> QED
  BY <1>1, <1>2, <1>3, TrustOfAll DEF CacheLock, Shape, Critical

\* CacheLockFails keeps Inv.
LEMMA TrustCacheLockFails ==
    ASSUME Inv, NEW c \in Clients, CacheLockFails(c)
    PROVE  Inv'
<1>1. Control' /\ OnlyLocals(c)
  BY ControlCacheLockFails DEF Inv
<1>2. TypeOK /\ Shape(c) /\ Trust(c)
  BY DEF Inv, Control
<1>3. Trust(c)'
  BY <1>2 DEF CacheLockFails, Reset, Goto, Shape, Blank, Between, Trust, TypeOK, BeforeFirstSetState
<1> QED
  BY <1>1, <1>2, <1>3, TrustOfAll DEF CacheLockFails, Shape, Critical

\* GetStateMiss keeps Inv.
LEMMA TrustGetStateMiss ==
    ASSUME Inv, NEW c \in Clients, GetStateMiss(c)
    PROVE  Inv'
<1>1. Control' /\ OnlyLocals(c)
  BY ControlGetStateMiss DEF Inv
<1>2. TypeOK /\ Shape(c) /\ Trust(c)
  BY DEF Inv, Control
<1>3. Trust(c)'
  BY <1>2 DEF GetStateMiss, Finish, Goto, Shape, Blank, Trust, TypeOK, BeforeFirstSetState
<1> QED
  BY <1>1, <1>2, <1>3, TrustOfAll DEF GetStateMiss, Shape, Critical

\* GetStateFails keeps Inv.
LEMMA TrustGetStateFails ==
    ASSUME Inv, NEW c \in Clients, GetStateFails(c)
    PROVE  Inv'
<1>1. Control' /\ OnlyLocals(c)
  BY ControlGetStateFails DEF Inv
<1>2. TypeOK /\ Shape(c) /\ Trust(c)
  BY DEF Inv, Control
<1>3. Trust(c)'
  BY <1>2 DEF GetStateFails, Finish, Goto, Shape, Blank, Trust, TypeOK, BeforeFirstSetState
<1> QED
  BY <1>1, <1>2, <1>3, TrustOfAll DEF GetStateFails, Shape, Critical

\* Serve keeps Inv.
LEMMA TrustServe ==
    ASSUME Inv, NEW c \in Clients, Serve(c)
    PROVE  Inv'
<1>1. Control' /\ OnlyLocals(c)
  BY ControlServe DEF Inv
<1>2. TypeOK /\ Shape(c) /\ Trust(c)
  BY DEF Inv, Control
<1>3. Trust(c)'
  BY <1>2 DEF Serve, Goto, Trust, TypeOK, BeforeFirstSetState
<1> QED
  BY <1>1, <1>2, <1>3, TrustOfAll DEF Serve, Shape, Critical

\* ServeWrongly keeps Inv.
LEMMA TrustServeWrongly ==
    ASSUME Inv, NEW c \in Clients, ServeWrongly(c)
    PROVE  Inv'
<1>1. Control' /\ OnlyLocals(c)
  BY ControlServeWrongly DEF Inv
<1>2. TypeOK /\ Shape(c) /\ Trust(c)
  BY DEF Inv, Control
<1>3. Trust(c)'
  BY <1>2 DEF ServeWrongly, Deliver, Trust, TypeOK, BeforeFirstSetState
<1> QED
  BY <1>1, <1>2, <1>3, TrustOfAll DEF ServeWrongly, Shape, Critical

\* RpcFails keeps Inv.
LEMMA TrustRpcFails ==
    ASSUME Inv, NEW c \in Clients, RpcFails(c)
    PROVE  Inv'
<1>1. Control' /\ OnlyLocals(c)
  BY ControlRpcFails DEF Inv
<1>2. TypeOK /\ Shape(c) /\ Trust(c)
  BY DEF Inv, Control
<1>3. Trust(c)'
  BY <1>2 DEF RpcFails, Finish, Goto, Trust, TypeOK, BeforeFirstSetState
<1> QED
  BY <1>1, <1>2, <1>3, TrustOfAll DEF RpcFails, Shape, Critical

\* Retry keeps Inv.
LEMMA TrustRetry ==
    ASSUME Inv, NEW c \in Clients, Retry(c)
    PROVE  Inv'
<1>1. Control' /\ OnlyLocals(c)
  BY ControlRetry DEF Inv
<1>2. TypeOK /\ Shape(c) /\ Trust(c)
  BY DEF Inv, Control
<1>3. Trust(c)'
  BY <1>2 DEF Retry, Goto, Shape, Trust, TypeOK, BeforeFirstSetState
<1> QED
  BY <1>1, <1>2, <1>3, TrustOfAll DEF Retry, Shape, Critical

\* Receive keeps Inv.
LEMMA TrustReceive ==
    ASSUME Inv, NEW c \in Clients, Receive(c)
    PROVE  Inv'
<1>1. Control' /\ OnlyLocals(c)
  BY ControlReceive DEF Inv
<1>2. TypeOK /\ Shape(c) /\ Trust(c)
  BY DEF Inv, Control
<1>3. Trust(c)'
  BY <1>2 DEF Receive, Finish, Goto, Shape, Trust, TypeOK, BeforeFirstSetState
<1> QED
  BY <1>1, <1>2, <1>3, TrustOfAll DEF Receive, Shape, Critical

\* SkipItem keeps Inv.
LEMMA TrustSkipItem ==
    ASSUME Inv, NEW c \in Clients, SkipItem(c)
    PROVE  Inv'
<1>1. Control' /\ OnlyLocals(c)
  BY ControlSkipItem DEF Inv
<1>2. TypeOK /\ Shape(c) /\ Trust(c)
  BY DEF Inv, Control
<1>3. Trust(c)'
  BY <1>2 DEF SkipItem, Goto, Trust, TypeOK, BeforeFirstSetState
<1> QED
  BY <1>1, <1>2, <1>3, TrustOfAll DEF SkipItem, Shape, Critical

\* AllVerified keeps Inv.
LEMMA TrustAllVerified ==
    ASSUME Inv, NEW c \in Clients, AllVerified(c)
    PROVE  Inv'
<1>1. Control' /\ OnlyLocals(c)
  BY ControlAllVerified DEF Inv
<1>2. TypeOK /\ Shape(c) /\ Trust(c)
  BY DEF Inv, Control
<1>3. Trust(c)'
  BY <1>2 DEF AllVerified, Finish, Goto, Trust, TypeOK, BeforeFirstSetState
<1> QED
  BY <1>1, <1>2, <1>3, TrustOfAll DEF AllVerified, Shape, Critical

\* SetStateFails keeps Inv.
LEMMA TrustSetStateFails ==
    ASSUME Inv, NEW c \in Clients, SetStateFails(c)
    PROVE  Inv'
<1>1. Control' /\ OnlyLocals(c)
  BY ControlSetStateFails DEF Inv
<1>2. TypeOK /\ Shape(c) /\ Trust(c)
  BY DEF Inv, Control
<1>3. Trust(c)'
  BY <1>2 DEF SetStateFails, Finish, Goto, Trust, TypeOK, BeforeFirstSetState
<1> QED
  BY <1>1, <1>2, <1>3, TrustOfAll DEF SetStateFails, Shape, Critical

\* PartMissing keeps Inv.
LEMMA TrustPartMissing ==
    ASSUME Inv, NEW c \in Clients, PartMissing(c)
    PROVE  Inv'
<1>1. Control' /\ OnlyLocals(c)
  BY ControlPartMissing DEF Inv
<1>2. TypeOK /\ Shape(c) /\ Trust(c)
  BY DEF Inv, Control
<1>3. Trust(c)'
  BY <1>2 DEF PartMissing, Finish, Goto, Trust, TypeOK, BeforeFirstSetState
<1> QED
  BY <1>1, <1>2, <1>3, TrustOfAll DEF PartMissing, Shape, Critical

\* CheckNewState keeps Inv.
LEMMA TrustCheckNewState ==
    ASSUME Inv, NEW c \in Clients, CheckNewState(c)
    PROVE  Inv'
<1>1. Control' /\ OnlyLocals(c)
  BY ControlCheckNewState DEF Inv
<1>2. TypeOK /\ Shape(c) /\ Trust(c)
  BY DEF Inv, Control
<1>3. Trust(c)'
  BY <1>2 DEF CheckNewState, Finish, Goto, Trust, TypeOK, BeforeFirstSetState
<1> QED
  BY <1>1, <1>2, <1>3, TrustOfAll DEF CheckNewState, Shape, Critical

\* Return keeps Inv.
LEMMA TrustReturn ==
    ASSUME Inv, NEW c \in Clients, Return(c)
    PROVE  Inv'
<1>1. Control' /\ OnlyLocals(c)
  BY ControlReturn DEF Inv
<1>2. TypeOK /\ Shape(c) /\ Trust(c)
  BY DEF Inv, Control
<1>3. Trust(c)'
  BY <1>2 DEF Return, Reset, Goto, Trust, TypeOK, BeforeFirstSetState
<1> QED
  BY <1>1, <1>2, <1>3, TrustOfAll DEF Return, Shape, Critical

\* Crash keeps Inv.
LEMMA TrustCrash ==
    ASSUME Inv, NEW c \in Clients, Crash(c)
    PROVE  Inv'
<1>1. Control' /\ OnlyLocals(c)
  BY ControlCrash DEF Inv
<1>2. TypeOK /\ Shape(c) /\ Trust(c)
  BY DEF Inv, Control
<1>3. Trust(c)'
  BY <1>2 DEF Crash, Reset, Goto, Trust, TypeOK, BeforeFirstSetState
<1> QED
  BY <1>1, <1>2, <1>3, TrustOfAll DEF Crash, Shape, Critical

\* GetStateHit keeps Inv.
LEMMA TrustGetStateHit ==
    ASSUME Inv, NEW c \in Clients, GetStateHit(c)
    PROVE  Inv'
<1>1. Control' /\ OnlyLocals(c)
  BY ControlGetStateHit DEF Inv
<1>2. TypeOK /\ Shape(c) /\ Trust(c)
  BY DEF Inv, Control
<1>a. cache[ApiKeyOf[c]] \in ImmutableState
  BY <1>2, ClientAssumption DEF GetStateHit, TypeOK
<1>b. IsPrefix(Digest(cache[ApiKeyOf[c]]), Digest(cache[ApiKeyOf[c]]))
  BY <1>a, DigestType, PrefixReflexive DEF History
<1>3. Trust(c)'
  BY <1>2, <1>a, <1>b DEF GetStateHit, Goto, Trust, TypeOK, BeforeFirstSetState, Shape, Blank
<1> QED
  BY <1>1, <1>2, <1>3, TrustOfAll DEF GetStateHit, Shape, Critical

\* CacheState keeps Inv.
LEMMA TrustCacheState ==
    ASSUME Inv, NEW c \in Clients, CacheState(c)
    PROVE  Inv'
<1>1. Control' /\ OnlyLocals(c)
  BY ControlCacheState DEF Inv
<1>2. TypeOK /\ Shape(c) /\ Trust(c)
  BY DEF Inv, Control
<1>a. newState[c] \in ImmutableState /\ newState[c] # NoState
  BY <1>2, ClientAssumption DEF CacheState, Shape
<1>b. IsPrefix(Digest(newState[c]), Digest(newState[c]))
  BY <1>a, DigestType, PrefixReflexive DEF History
<1>3. Trust(c)'
  BY <1>2, <1>a, <1>b, ClientAssumption
     DEF CacheState, Goto, Trust, TypeOK, BeforeFirstSetState, Shape
<1> QED
  BY <1>1, <1>2, <1>3, TrustOfAll DEF CacheState, Shape, Critical

\* SetState keeps Inv.
LEMMA TrustSetState ==
    ASSUME Inv, NEW c \in Clients, SetState(c)
    PROVE  Inv'
<1>1. Control' /\ OnlyLocals(c)
  BY ControlSetState DEF Inv
<1>2. TypeOK /\ Shape(c) /\ Trust(c)
  BY DEF Inv, Control
<1>a. newState[c] \in ImmutableState /\ newState[c] # NoState /\ index[c] \in Nat
  BY <1>2, ClientAssumption DEF SetState, Shape, TypeOK
<1>3. Trust(c)'
  BY <1>2, <1>a, ClientAssumption
     DEF SetState, Goto, Trust, TypeOK, BeforeFirstSetState, Shape
<1> QED
  BY <1>1, <1>2, <1>3, TrustOfAll DEF SetState, Shape, Critical

\* VerifyWrite keeps Inv.
LEMMA TrustVerifyWrite ==
    ASSUME Inv, NEW c \in Clients, VerifyWrite(c)
    PROVE  Inv'
<1>1. Control' /\ OnlyLocals(c)
  BY ControlVerifyWrite DEF Inv
<1>2. TypeOK /\ Shape(c) /\ Trust(c)
  BY DEF Inv, Control
<1> DEFINE new == SetNewState(answer[c], DbOf(call[c].op))
           results == WriteResults(answer[c], call[c].kvs)
<1>a. state[c] \in ImmutableState /\ state[c] # NoState /\ answer[c] \in VerifiableTx
  BY <1>2, ClientAssumption DEF VerifyWrite, Shape, Trusting, Answered, AnswerTo
<1>b. ASSUME WriteVerifies(c)
      PROVE  /\ IsPrefix(Digest(state[c]), Digest(new))
             /\ \A r \in results :
                  /\ r.spec \in Eh(r.header)
                  /\ IsPrefix(Digest(state[c]), r.header)
  <2>1. Digest(new) = answer[c].header /\ IsPrefix(Digest(state[c]), answer[c].header)
    BY <1>a, <1>b, SetExtends DEF WriteVerifies
  <2>2. \A i \in DOMAIN call[c].kvs :
          EncodeEntrySpec(call[c].kvs[i].key, answer[c].body[i].deleted, call[c].kvs[i].value)
            \in Eh(answer[c].header)
    BY <1>b, SetIncluded DEF WriteVerifies
  <2> QED
    BY <2>1, <2>2 DEF WriteResults
<1> HIDE DEF new, results
<1>c. \/ /\ WriteVerifies(c)
          /\ newState' = [newState EXCEPT ![c] = new]
          /\ accepted' = [accepted EXCEPT ![c] = results]
          /\ pc' = [pc EXCEPT ![c] = AfterVerify(call[c].op)]
       \/ /\ pc' = [pc EXCEPT ![c] = "unlock"]
          /\ UNCHANGED <<newState, accepted>>
  BY DEF VerifyWrite, Finish, Goto, new, results
<1>d. pc[c] = "verify" /\ index[c] = 0 /\ UNCHANGED <<cache, state, call, index>>
  BY DEF VerifyWrite
<1>3. Trust(c)'
  BY <1>2, <1>a, <1>b, <1>c, <1>d
     DEF Trust, TypeOK, BeforeFirstSetState, AfterVerify
<1> QED
  BY <1>1, <1>2, <1>3, TrustOfAll DEF VerifyWrite, Shape, Critical

\* VerifyRead keeps Inv.
LEMMA TrustVerifyRead ==
    ASSUME Inv, NEW c \in Clients, VerifyRead(c)
    PROVE  Inv'
<1>1. Control' /\ OnlyLocals(c)
  BY ControlVerifyRead DEF Inv
<1>2. TypeOK /\ Shape(c) /\ Trust(c)
  BY DEF Inv, Control
<1> DEFINE i == index[c] + 1
           item == answer[c][i]
           key == VerifiedKey(call[c], i, item)
           new == GetNewState(state[c], item, DbOf(call[c].op))
           result == [header |-> ReadHeader(state[c], item), spec |-> ReadSpec(item, key)]
<1>a. state[c] \in ImmutableState /\ state[c] # NoState
  BY <1>2, ClientAssumption DEF VerifyRead, Shape, Trusting
<1>b. item \in VerifiableEntry
  <2>1. call[c] \in Call /\ Items(call[c]) \in Nat
    BY <1>2, CallAssumption, ItemsType DEF Shape, VerifyRead
  <2>2. answer[c] \in AnswerTo(call[c]) /\ Len(answer[c]) >= Items(call[c])
        /\ index[c] \in Nat /\ index[c] < Items(call[c]) /\ call[c].op \notin SetOp
    BY <1>2 DEF VerifyRead, Shape, Answered, TypeOK
  <2>3. Len(answer[c]) \in Nat
    BY <2>2, LenProperties DEF AnswerTo
  <2>4. i \in Nat /\ 0 < i /\ i <= Len(answer[c])
    BY <2>1, <2>2, <2>3
  <2> QED
    BY <2>1, <2>2, <2>4, ItemType DEF VerifyRead
<1>c. ASSUME ReadVerifies(c, i)
      PROVE  /\ IsPrefix(Digest(state[c]), Digest(new))
             /\ result.spec \in Eh(result.header)
             /\ \/ IsPrefix(result.header, Digest(state[c]))
                \/ IsPrefix(Digest(state[c]), result.header)
  BY <1>a, <1>b, <1>c, GetOnBranch, GetIncluded DEF ReadVerifies
<1>d. \/ /\ ReadVerifies(c, i)
          /\ newState' = [newState EXCEPT ![c] = new]
          /\ accepted' = [accepted EXCEPT ![c] = @ \cup {result}]
          /\ pc' = [pc EXCEPT ![c] = AfterVerify(call[c].op)]
       \/ /\ pc' = [pc EXCEPT ![c] = "unlock"]
          /\ UNCHANGED <<newState, accepted>>
  BY DEF VerifyRead, Finish, Goto
<1> HIDE DEF new, result
<1>e. pc[c] = "verify" /\ UNCHANGED <<cache, state, call, index>>
  BY DEF VerifyRead
<1>3. Trust(c)'
  BY <1>2, <1>a, <1>c, <1>d, <1>e
     DEF Trust, TypeOK, BeforeFirstSetState, AfterVerify
<1> QED
  BY <1>1, <1>2, <1>3, TrustOfAll DEF VerifyRead, Shape, Critical

\* Every step keeps Inv.
LEMMA InvStep ==
    ASSUME Inv, [Next]_vars
    PROVE  Inv'
<1>1. ASSUME NEW c \in Clients, Step(c) PROVE Inv'
  BY <1>1, TrustGetStateHit,
     TrustGetStateMiss,
     TrustCacheState,
     TrustGetStateFails,
     TrustServe,
     TrustRpcFails,
     TrustRetry,
     TrustReceive,
     TrustVerifyWrite,
     TrustVerifyRead,
     TrustSkipItem,
     TrustAllVerified,
     TrustSetState,
     TrustSetStateFails,
     TrustCheckNewState,
     TrustReturn DEF Step
<1>2. ASSUME NEW c \in Clients,
             \/ Begin(c) \/ CacheLock(c) \/ CacheLockFails(c)
             \/ ServeWrongly(c) \/ PartMissing(c) \/ Crash(c)
      PROVE  Inv'
  BY <1>2, TrustBegin, TrustCacheLock, TrustCacheLockFails, TrustServeWrongly,
     TrustPartMissing, TrustCrash
<1>3. CASE (\E k \in ApiKeys : Write(k) \/ Restore(k)) \/ UNCHANGED vars
  <2>1. UNCHANGED <<cache, pc, call, state, index, newState, accepted>>
    BY <1>3 DEF Write, Restore, locals, vars
  <2>2. Control'
    BY ControlStep DEF Inv
  <2> QED
    BY <2>1, <2>2 DEF Inv, Trust, BeforeFirstSetState
<1> QED
  BY <1>1, <1>2, <1>3 DEF Next

\* Inv holds initially.
LEMMA InvInit == Init => Inv
<1> SUFFICES ASSUME Init PROVE Inv
  OBVIOUS
<1>1. Control
  BY ControlInit
<1>2. ASSUME NEW c \in Clients PROVE Trust(c)
  BY DEF Init, Trust, BeforeFirstSetState
<1> QED
  BY <1>1, <1>2 DEF Inv

\* Inv is an invariant.
LEMMA Invariant == Spec => []Inv
<1>1. Inv /\ [Next]_vars => Inv'
  BY InvStep
<1> QED
  BY <1>1, InvInit, PTL DEF Spec

\* What a call verifies against is never stale: until its own first SetState
\* the state it has read is the one in the cache.
THEOREM SnapshotIsFresh == Spec => []SnapshotFresh
<1>1. Inv => SnapshotFresh
  BY DEF Inv, Trust, SnapshotFresh
<1> QED
  BY <1>1, Invariant, PTL

-----------------------------------------------------------------------------
(* Refinement.                                                             *)

\* TrustedState means by histories, prefixes and entries what LcClient does.
LEMMA SameNotions ==
    /\ Abstract!History = History
    /\ \A s, t : Abstract!IsPrefix(s, t) <=> IsPrefix(s, t)
    /\ \A h : Abstract!Eh(h) = Eh(h)
<1>1. Abstract!EntrySpec = EntrySpec
  BY DEF Abstract!EntrySpec, Abstract!KVEntry, Abstract!RefEntry, EntrySpec, KVEntry, RefEntry
<1> QED
  BY <1>1 DEF Abstract!History, Abstract!Tx, Abstract!IsPrefix, Abstract!Eh, Abstract!Last,
     History, Tx, IsPrefix, Eh, Last

\* Initially nothing is trusted.
LEMMA RefinementInit == Init => Abstract!Init
BY ClientAssumption DEF Init, Abstract!Init, Trusted

\* A step that leaves lock, cache, states read and results alone is none of
\* TrustedState's.
LEMMA RefinementStutter ==
    ASSUME UNCHANGED <<lock, cache, state, verified>>
    PROVE  UNCHANGED Abstract!vars
BY DEF Trusted, Abstract!vars

\* Under an API key whose lock holder has read a state, that state is trusted.
LEMMA TrustedOfHolder ==
    ASSUME NEW c \in Clients, lock = c, state[c] # NoState
    PROVE  Trusted[ApiKeyOf[c]] = Digest(state[c])
BY ClientAssumption DEF Trusted

\* Else the cached state is.
LEMMA TrustedOfCache ==
    ASSUME NEW k \in ApiKeys,
           lock = NoClient \/ ApiKeyOf[lock] # k \/ state[lock] = NoState
    PROVE  Trusted[k] = IF cache[k] = NoState THEN None ELSE Digest(cache[k])
BY DEF Trusted

\* The end of a call, returned or crashed: what the cache has becomes the
\* trusted history, an extension of what was trusted during the call.
LEMMA RefinementEnd ==
    ASSUME Inv, NEW c \in Clients, lock = c, lock' = NoClient, UNCHANGED cache,
           state' = [state EXCEPT ![c] = NoState],
           \/ UNCHANGED verified
           \/ verified' = [verified EXCEPT ![ApiKeyOf[c]] = @ \cup accepted[c]]
    PROVE  [Abstract!Next]_(Abstract!vars)
<1> DEFINE k == ApiKeyOf[c]
<1>1. TypeOK /\ Trust(c) /\ k \in ApiKeys
  BY ClientAssumption DEF Inv, Control
<1>2. \A j \in ApiKeys : Trusted'[j] = IF cache[j] = NoState THEN None ELSE Digest(cache[j])
  BY DEF Trusted
<1>3. \A j \in ApiKeys \ {k} : Trusted'[j] = Trusted[j]
  BY <1>2, TrustedOfCache
<1>4. CASE state[c] = NoState
  <2>1. Trusted'[k] = Trusted[k]
    BY <1>1, <1>2, <1>4, TrustedOfCache
  <2>2. Trusted' = Trusted
    BY <1>1, <1>3, <2>1 DEF Trusted
  <2>3. verified' = verified
    <3>1. accepted[c] = {}
      BY <1>1, <1>4 DEF Trust
    <3>2. verified \in [ApiKeys -> SUBSET Result] /\ verified[k] \cup {} = verified[k]
      BY <1>1 DEF TypeOK
    <3> QED
      BY <1>1, <3>1, <3>2
  <2> QED
    BY <2>2, <2>3 DEF Abstract!vars
<1>5. CASE state[c] # NoState
  <2>1. Trusted[k] = Digest(state[c])
    BY <1>5, TrustedOfHolder
  <2>2. cache[k] # NoState /\ cache[k] \in ImmutableState
        /\ IsPrefix(Digest(state[c]), Digest(cache[k]))
    BY <1>1, <1>5 DEF Trust, TypeOK
  <2>3. Trusted'[k] = Digest(cache[k]) /\ Digest(cache[k]) \in History
    BY <1>1, <1>2, <2>2, DigestType
  <2>4. Digest(state[c]) \in History
    BY <1>1, <1>5, DigestType DEF TypeOK
  <2>5. Trusted[k] # None
    BY <2>1, <2>4, ClientAssumption
  <2>6. /\ verified[k] \subseteq verified'[k]
        /\ \A r \in verified'[k] \ verified[k] : r \in accepted[c]
        /\ \A j \in ApiKeys \ {k} : verified'[j] = verified[j]
    BY <1>1 DEF TypeOK
  <2>7. \A r \in verified'[k] \ verified[k] :
          /\ r.spec \in Abstract!Eh(r.header)
          /\ Abstract!SameBranch(r.header, Trusted[k])
    BY <1>1, <2>1, <2>6, SameNotions DEF Abstract!SameBranch, Trust
  <2>8. Abstract!IsPrefix(Trusted[k], Trusted'[k]) /\ Trusted'[k] \in Abstract!History
    BY <2>1, <2>2, <2>3, SameNotions
  <2>9. Abstract!Advance(k)
    BY <2>5, <2>6, <2>7, <2>8 DEF Abstract!Advance
  <2> QED
    BY <1>1, <1>3, <2>9 DEF Abstract!Next
<1> QED
  BY <1>4, <1>5

\* First contact: the state that was cached is adopted.
LEMMA RefinementCacheState ==
    ASSUME Inv, NEW c \in Clients, CacheState(c)
    PROVE  [Abstract!Next]_(Abstract!vars)
<1> DEFINE k == ApiKeyOf[c]
<1>1. TypeOK /\ Shape(c) /\ Trust(c) /\ k \in ApiKeys
  BY ClientAssumption DEF Inv, Control
<1>2. lock = c /\ state[c] = NoState /\ cache[k] = NoState
      /\ newState[c] \in ImmutableState
  BY <1>1 DEF CacheState, Shape, Trust, Critical
<1>3. state' = [state EXCEPT ![c] = newState[c]] /\ lock' = c
      /\ cache' = [cache EXCEPT ![k] = newState[c]] /\ verified' = verified
  BY <1>2 DEF CacheState
<1>4. Trusted[k] = None
  BY <1>1, <1>2, TrustedOfCache
<1>5. Trusted'[k] = Digest(newState[c])
  BY <1>1, <1>2, <1>3, ClientAssumption DEF Trusted, TypeOK
<1>6. \A j \in ApiKeys \ {k} : Trusted'[j] = Trusted[j]
  BY <1>1, <1>2, <1>3 DEF Trusted, TypeOK
<1>7. Abstract!Adopt(k)
  BY <1>2, <1>3, <1>4, <1>5, DigestType, SameNotions DEF Abstract!Adopt
<1> QED
  BY <1>1, <1>6, <1>7 DEF Abstract!Next

\* While the lock is held, the cache may change under the state read.
LEMMA RefinementSetState ==
    ASSUME Inv, NEW c \in Clients, SetState(c)
    PROVE  UNCHANGED Abstract!vars
<1>1. TypeOK /\ Shape(c)
  BY DEF Inv, Control
<1>2. lock = c /\ state[c] # NoState
  BY <1>1, ClientAssumption DEF SetState, Shape, Critical, Trusting
<1>3. UNCHANGED <<lock, state, verified>>
      /\ cache' = [cache EXCEPT ![ApiKeyOf[c]] = newState[c]]
  BY DEF SetState
<1>4. \A k \in ApiKeys : Trusted'[k] = Trusted[k]
  BY <1>1, <1>2, <1>3, ClientAssumption DEF Trusted, TypeOK
<1> QED
  BY <1>3, <1>4 DEF Trusted, Abstract!vars

\* Taking the lock changes nothing in TrustedState.
LEMMA RefinementCacheLock ==
    ASSUME Inv, NEW c \in Clients, CacheLock(c)
    PROVE  UNCHANGED Abstract!vars
<1>1. state[c] = NoState
  BY DEF Inv, Control, Shape, Blank, Between, CacheLock
<1>2. \A k \in ApiKeys : Trusted'[k] = Trusted[k]
  BY <1>1 DEF Trusted, CacheLock
<1> QED
  BY <1>2 DEF Trusted, Abstract!vars, CacheLock

\* Reading the cached state under the lock changes nothing in TrustedState.
LEMMA RefinementGetStateHit ==
    ASSUME Inv, NEW c \in Clients, GetStateHit(c)
    PROVE  UNCHANGED Abstract!vars
<1>1. TypeOK /\ lock = c /\ state[c] = NoState
  BY DEF Inv, Control, Shape, Blank, GetStateHit, Critical
<1>2. \A k \in ApiKeys : Trusted'[k] = Trusted[k]
  BY <1>1, ClientAssumption DEF Trusted, GetStateHit, TypeOK
<1> QED
  BY <1>2 DEF Trusted, Abstract!vars, GetStateHit

\* A call that ends without the lock changes nothing in TrustedState.
LEMMA RefinementCacheLockFails ==
    ASSUME Inv, NEW c \in Clients, CacheLockFails(c)
    PROVE  UNCHANGED Abstract!vars
<1>1. TypeOK /\ state[c] = NoState
  BY DEF Inv, Control, Shape, Blank, Between, CacheLockFails
<1>2. state' = state
  BY <1>1 DEF CacheLockFails, Reset, TypeOK
<1> QED
  BY <1>2, RefinementStutter DEF CacheLockFails

\* A call that returns is a step of TrustedState.
LEMMA RefinementReturn ==
    ASSUME Inv, NEW c \in Clients, Return(c)
    PROVE  [Abstract!Next]_(Abstract!vars)
<1>1. lock = c
  BY DEF Inv, Control, Shape, Return, Critical
<1> QED
  BY <1>1, RefinementEnd DEF Return, Reset

\* A client that dies gives up the lock or never had it.
LEMMA RefinementCrash ==
    ASSUME Inv, NEW c \in Clients, Crash(c)
    PROVE  [Abstract!Next]_(Abstract!vars)
<1>1. CASE lock = c
  BY <1>1, RefinementEnd DEF Crash, Reset
<1>2. CASE lock # c
  <2>1. TypeOK /\ state[c] = NoState
    BY <1>2 DEF Inv, Control, Shape, Blank, TypeOK, Between, Critical
  <2>2. state' = state
    BY <2>1 DEF Crash, Reset, TypeOK
  <2> QED
    BY <1>2, <2>2, RefinementStutter DEF Crash
<1> QED
  BY <1>1, <1>2

\* Every step of the clients is a step of TrustedState or none.
LEMMA RefinementStep ==
    ASSUME Inv, [Next]_vars
    PROVE  [Abstract!Next]_(Abstract!vars)
<1>1. ASSUME NEW c \in Clients, Begin(c) \/ ServeWrongly(c) \/ PartMissing(c)
      PROVE  UNCHANGED <<lock, cache, state, verified>>
  BY <1>1 DEF Begin, ServeWrongly, PartMissing
<1>2. ASSUME NEW c \in Clients, CacheLock(c) \/ CacheLockFails(c) \/ Crash(c)
      PROVE  [Abstract!Next]_(Abstract!vars)
  BY <1>2, RefinementCacheLock, RefinementCacheLockFails, RefinementCrash
<1>3. ASSUME NEW c \in Clients, Step(c)
      PROVE  [Abstract!Next]_(Abstract!vars)
  <2>1. ASSUME \/ GetStateMiss(c) \/ GetStateFails(c) \/ Serve(c) \/ RpcFails(c)
               \/ Retry(c) \/ Receive(c) \/ VerifyWrite(c) \/ VerifyRead(c)
               \/ SkipItem(c) \/ AllVerified(c) \/ SetStateFails(c) \/ CheckNewState(c)
        PROVE  UNCHANGED <<lock, cache, state, verified>>
    BY <2>1 DEF GetStateMiss, GetStateFails, Serve, RpcFails, Retry, Receive,
         VerifyWrite, VerifyRead, SkipItem, AllVerified, SetStateFails, CheckNewState
  <2>2. CASE GetStateHit(c) \/ CacheState(c) \/ SetState(c) \/ Return(c)
    BY <2>2, RefinementGetStateHit, RefinementCacheState, RefinementSetState,
       RefinementReturn
  <2> QED
    BY <1>3, <2>1, <2>2, RefinementStutter DEF Step
<1>4. ASSUME NEW k \in ApiKeys, Write(k) \/ Restore(k)
      PROVE  UNCHANGED <<lock, cache, state, verified>>
  BY <1>4 DEF Write, Restore, locals
<1>5. CASE UNCHANGED vars
  BY <1>5, RefinementStutter DEF vars
<1> QED
  BY <1>1, <1>2, <1>3, <1>4, <1>5, RefinementStutter DEF Next

\* The clients implement TrustedState.
THEOREM Refinement == Spec => ImplementsTrustedState
<1>1. Init => Abstract!Init
  BY RefinementInit
<1>2. Inv /\ [Next]_vars => [Abstract!Next]_(Abstract!vars)
  BY RefinementStep
<1> QED
  BY <1>1, <1>2, Invariant, PTL DEF Spec, ImplementsTrustedState, Abstract!Spec

-----------------------------------------------------------------------------
(* One history.                                                            *)

\* No call has more than one item to verify: VerifiedGetExtAtMulti is not
\* called, or with one key.
SingleItems == \A cl \in Calls : Items(cl) <= 1

\* The new state is not kept yet.
Unsaved(c) ==
    \/ pc[c] = "setState"
    \/ pc[c] = "checkSignature" /\ CheckFirst(call[c].op)

\* It is kept, and the call may still succeed.
Saved(c) ==
    \/ pc[c] = "checkSignature" /\ ~CheckFirst(call[c].op)
    \/ pc[c] = "verify"
    \/ pc[c] = "unlock" /\ outcome[c] = "ok"

\* The results of the call in progress are covered by its new state, then by
\* the cache.
Cover(c) ==
    /\ pc[c] = "verify" /\ index[c] = 0 => accepted[c] = {}
    /\ Unsaved(c) => \A r \in accepted[c] : IsPrefix(r.header, Digest(newState[c]))
    /\ Saved(c) =>
         \A r \in accepted[c] : IsPrefix(r.header, Digest(cache[ApiKeyOf[c]]))

CoverInv == Inv /\ (\A c \in Clients : Cover(c)) /\ KeptCoversVerified

-----------------------------------------------------------------------------
(* Steps that leave the cache and the results alone.                       *)

\* The others are covered as before.
LEMMA OtherCover ==
    ASSUME CoverInv, NEW c \in Clients, OnlyLocals(c), UNCHANGED cache \/ lock = c,
           \A d \in Clients \ {c} : outcome'[d] = outcome[d],
           NEW d \in Clients, d # c
    PROVE  Cover(d)'
<1>1. Shape(d) /\ Cover(d)
  BY DEF CoverInv, Inv, Control
<1>2. CASE UNCHANGED cache
  BY <1>1, <1>2 DEF OnlyLocals, Cover, Saved, Unsaved
<1>3. CASE lock = c
  <2>1. pc[d] \in Between /\ Blank(d)
    BY <1>1, <1>3 DEF Shape, CoverInv, Inv, Control, TypeOK, Critical, Between
  <2> QED
    BY <2>1 DEF OnlyLocals, Cover, Saved, Unsaved, Between, Blank
<1> QED
  BY <1>2, <1>3

\* A step that changes neither the cache nor the results keeps CoverInv when
\* it keeps the cover of the client that takes it.
LEMMA CoverOfAll ==
    ASSUME CoverInv, NEW c \in Clients, Inv', OnlyLocals(c), Cover(c)',
           UNCHANGED <<cache, verified>>,
           \A d \in Clients \ {c} : outcome'[d] = outcome[d]
    PROVE  CoverInv'
<1>1. KeptCoversVerified'
  BY DEF CoverInv, KeptCoversVerified
<1> QED
  BY <1>1, OtherCover DEF CoverInv

\* Begin keeps CoverInv.
LEMMA CoverBegin ==
    ASSUME CoverInv, NEW c \in Clients, Begin(c)
    PROVE  CoverInv'
<1>1. Inv' /\ OnlyLocals(c)
  BY TrustBegin, ControlBegin DEF CoverInv, Inv
<1>2. TypeOK /\ Shape(c) /\ Trust(c) /\ Cover(c)
  BY DEF CoverInv, Inv, Control
<1>3. Cover(c)'
  BY <1>2 DEF Begin, Goto, Cover, Saved, Unsaved, TypeOK, Shape, Blank, Between
<1>4. UNCHANGED <<cache, verified>> /\ \A d \in Clients \ {c} : outcome'[d] = outcome[d]
  BY <1>2 DEF Begin, Goto, TypeOK
<1> QED
  BY <1>1, <1>3, <1>4, CoverOfAll

\* CacheLock keeps CoverInv.
LEMMA CoverCacheLock ==
    ASSUME CoverInv, NEW c \in Clients, CacheLock(c)
    PROVE  CoverInv'
<1>1. Inv' /\ OnlyLocals(c)
  BY TrustCacheLock, ControlCacheLock DEF CoverInv, Inv
<1>2. TypeOK /\ Shape(c) /\ Trust(c) /\ Cover(c)
  BY DEF CoverInv, Inv, Control
<1>3. Cover(c)'
  BY <1>2 DEF CacheLock, Goto, Cover, Saved, Unsaved, TypeOK, Shape, Blank, Between
<1>4. UNCHANGED <<cache, verified>> /\ \A d \in Clients \ {c} : outcome'[d] = outcome[d]
  BY <1>2 DEF CacheLock, Goto, TypeOK
<1> QED
  BY <1>1, <1>3, <1>4, CoverOfAll

\* CacheLockFails keeps CoverInv.
LEMMA CoverCacheLockFails ==
    ASSUME CoverInv, NEW c \in Clients, CacheLockFails(c)
    PROVE  CoverInv'
<1>1. Inv' /\ OnlyLocals(c)
  BY TrustCacheLockFails, ControlCacheLockFails DEF CoverInv, Inv
<1>2. TypeOK /\ Shape(c) /\ Trust(c) /\ Cover(c)
  BY DEF CoverInv, Inv, Control
<1>3. Cover(c)'
  BY <1>2 DEF CacheLockFails, Reset, Goto, Cover, Saved, Unsaved, TypeOK, Shape, Blank, Between
<1>4. UNCHANGED <<cache, verified>> /\ \A d \in Clients \ {c} : outcome'[d] = outcome[d]
  BY <1>2 DEF CacheLockFails, Reset, Goto, TypeOK
<1> QED
  BY <1>1, <1>3, <1>4, CoverOfAll

\* GetStateHit keeps CoverInv.
LEMMA CoverGetStateHit ==
    ASSUME CoverInv, NEW c \in Clients, GetStateHit(c)
    PROVE  CoverInv'
<1>1. Inv' /\ OnlyLocals(c)
  BY TrustGetStateHit, ControlGetStateHit DEF CoverInv, Inv
<1>2. TypeOK /\ Shape(c) /\ Trust(c) /\ Cover(c)
  BY DEF CoverInv, Inv, Control
<1>3. Cover(c)'
  BY <1>2 DEF GetStateHit, Goto, Cover, Saved, Unsaved, TypeOK
<1>4. UNCHANGED <<cache, verified>> /\ \A d \in Clients \ {c} : outcome'[d] = outcome[d]
  BY <1>2 DEF GetStateHit, Goto, TypeOK
<1> QED
  BY <1>1, <1>3, <1>4, CoverOfAll

\* GetStateMiss keeps CoverInv.
LEMMA CoverGetStateMiss ==
    ASSUME CoverInv, NEW c \in Clients, GetStateMiss(c)
    PROVE  CoverInv'
<1>1. Inv' /\ OnlyLocals(c)
  BY TrustGetStateMiss, ControlGetStateMiss DEF CoverInv, Inv
<1>2. TypeOK /\ Shape(c) /\ Trust(c) /\ Cover(c)
  BY DEF CoverInv, Inv, Control
<1>3. Cover(c)'
  BY <1>2 DEF GetStateMiss, Finish, Goto, Cover, Saved, Unsaved, TypeOK
<1>4. UNCHANGED <<cache, verified>> /\ \A d \in Clients \ {c} : outcome'[d] = outcome[d]
  BY <1>2 DEF GetStateMiss, Finish, Goto, TypeOK
<1> QED
  BY <1>1, <1>3, <1>4, CoverOfAll

\* GetStateFails keeps CoverInv.
LEMMA CoverGetStateFails ==
    ASSUME CoverInv, NEW c \in Clients, GetStateFails(c)
    PROVE  CoverInv'
<1>1. Inv' /\ OnlyLocals(c)
  BY TrustGetStateFails, ControlGetStateFails DEF CoverInv, Inv
<1>2. TypeOK /\ Shape(c) /\ Trust(c) /\ Cover(c)
  BY DEF CoverInv, Inv, Control
<1>3. Cover(c)'
  BY <1>2 DEF GetStateFails, Finish, Goto, Cover, Saved, Unsaved, TypeOK
<1>4. UNCHANGED <<cache, verified>> /\ \A d \in Clients \ {c} : outcome'[d] = outcome[d]
  BY <1>2 DEF GetStateFails, Finish, Goto, TypeOK
<1> QED
  BY <1>1, <1>3, <1>4, CoverOfAll

\* Serve keeps CoverInv.
LEMMA CoverServe ==
    ASSUME CoverInv, NEW c \in Clients, Serve(c)
    PROVE  CoverInv'
<1>1. Inv' /\ OnlyLocals(c)
  BY TrustServe, ControlServe DEF CoverInv, Inv
<1>2. TypeOK /\ Shape(c) /\ Trust(c) /\ Cover(c)
  BY DEF CoverInv, Inv, Control
<1>3. Cover(c)'
  BY <1>2 DEF Serve, Goto, Cover, Saved, Unsaved, TypeOK
<1>4. UNCHANGED <<cache, verified>> /\ \A d \in Clients \ {c} : outcome'[d] = outcome[d]
  BY <1>2 DEF Serve, Goto, TypeOK
<1> QED
  BY <1>1, <1>3, <1>4, CoverOfAll

\* ServeWrongly keeps CoverInv.
LEMMA CoverServeWrongly ==
    ASSUME CoverInv, NEW c \in Clients, ServeWrongly(c)
    PROVE  CoverInv'
<1>1. Inv' /\ OnlyLocals(c)
  BY TrustServeWrongly, ControlServeWrongly DEF CoverInv, Inv
<1>2. TypeOK /\ Shape(c) /\ Trust(c) /\ Cover(c)
  BY DEF CoverInv, Inv, Control
<1>3. Cover(c)'
  BY <1>2 DEF ServeWrongly, Deliver, Cover, Saved, Unsaved, TypeOK
<1>4. UNCHANGED <<cache, verified>> /\ \A d \in Clients \ {c} : outcome'[d] = outcome[d]
  BY <1>2 DEF ServeWrongly, Deliver, TypeOK
<1> QED
  BY <1>1, <1>3, <1>4, CoverOfAll

\* RpcFails keeps CoverInv.
LEMMA CoverRpcFails ==
    ASSUME CoverInv, NEW c \in Clients, RpcFails(c)
    PROVE  CoverInv'
<1>1. Inv' /\ OnlyLocals(c)
  BY TrustRpcFails, ControlRpcFails DEF CoverInv, Inv
<1>2. TypeOK /\ Shape(c) /\ Trust(c) /\ Cover(c)
  BY DEF CoverInv, Inv, Control
<1>3. Cover(c)'
  BY <1>2 DEF RpcFails, Finish, Goto, Cover, Saved, Unsaved, TypeOK
<1>4. UNCHANGED <<cache, verified>> /\ \A d \in Clients \ {c} : outcome'[d] = outcome[d]
  BY <1>2 DEF RpcFails, Finish, Goto, TypeOK
<1> QED
  BY <1>1, <1>3, <1>4, CoverOfAll

\* Retry keeps CoverInv.
LEMMA CoverRetry ==
    ASSUME CoverInv, NEW c \in Clients, Retry(c)
    PROVE  CoverInv'
<1>1. Inv' /\ OnlyLocals(c)
  BY TrustRetry, ControlRetry DEF CoverInv, Inv
<1>2. TypeOK /\ Shape(c) /\ Trust(c) /\ Cover(c)
  BY DEF CoverInv, Inv, Control
<1>3. Cover(c)'
  BY <1>2 DEF Retry, Goto, Cover, Saved, Unsaved, TypeOK
<1>4. UNCHANGED <<cache, verified>> /\ \A d \in Clients \ {c} : outcome'[d] = outcome[d]
  BY <1>2 DEF Retry, Goto, TypeOK
<1> QED
  BY <1>1, <1>3, <1>4, CoverOfAll

\* Receive keeps CoverInv.
LEMMA CoverReceive ==
    ASSUME CoverInv, NEW c \in Clients, Receive(c)
    PROVE  CoverInv'
<1>1. Inv' /\ OnlyLocals(c)
  BY TrustReceive, ControlReceive DEF CoverInv, Inv
<1>2. TypeOK /\ Shape(c) /\ Trust(c) /\ Cover(c)
  BY DEF CoverInv, Inv, Control
<1>3. Cover(c)'
  BY <1>2 DEF Receive, Finish, Goto, Cover, Saved, Unsaved, TypeOK, Shape
<1>4. UNCHANGED <<cache, verified>> /\ \A d \in Clients \ {c} : outcome'[d] = outcome[d]
  BY <1>2 DEF Receive, Finish, Goto, TypeOK
<1> QED
  BY <1>1, <1>3, <1>4, CoverOfAll

\* SkipItem keeps CoverInv.
LEMMA CoverSkipItem ==
    ASSUME CoverInv, NEW c \in Clients, SkipItem(c)
    PROVE  CoverInv'
<1>1. Inv' /\ OnlyLocals(c)
  BY TrustSkipItem, ControlSkipItem DEF CoverInv, Inv
<1>2. TypeOK /\ Shape(c) /\ Trust(c) /\ Cover(c)
  BY DEF CoverInv, Inv, Control
<1>3. Cover(c)'
  BY <1>2 DEF SkipItem, Goto, Cover, Saved, Unsaved, TypeOK
<1>4. UNCHANGED <<cache, verified>> /\ \A d \in Clients \ {c} : outcome'[d] = outcome[d]
  BY <1>2 DEF SkipItem, Goto, TypeOK
<1> QED
  BY <1>1, <1>3, <1>4, CoverOfAll

\* AllVerified keeps CoverInv.
LEMMA CoverAllVerified ==
    ASSUME CoverInv, NEW c \in Clients, AllVerified(c)
    PROVE  CoverInv'
<1>1. Inv' /\ OnlyLocals(c)
  BY TrustAllVerified, ControlAllVerified DEF CoverInv, Inv
<1>2. TypeOK /\ Shape(c) /\ Trust(c) /\ Cover(c)
  BY DEF CoverInv, Inv, Control
<1>3. Cover(c)'
  BY <1>2 DEF AllVerified, Finish, Goto, Cover, Saved, Unsaved, TypeOK
<1>4. UNCHANGED <<cache, verified>> /\ \A d \in Clients \ {c} : outcome'[d] = outcome[d]
  BY <1>2 DEF AllVerified, Finish, Goto, TypeOK
<1> QED
  BY <1>1, <1>3, <1>4, CoverOfAll

\* SetStateFails keeps CoverInv.
LEMMA CoverSetStateFails ==
    ASSUME CoverInv, NEW c \in Clients, SetStateFails(c)
    PROVE  CoverInv'
<1>1. Inv' /\ OnlyLocals(c)
  BY TrustSetStateFails, ControlSetStateFails DEF CoverInv, Inv
<1>2. TypeOK /\ Shape(c) /\ Trust(c) /\ Cover(c)
  BY DEF CoverInv, Inv, Control
<1>3. Cover(c)'
  BY <1>2 DEF SetStateFails, Finish, Goto, Cover, Saved, Unsaved, TypeOK
<1>4. UNCHANGED <<cache, verified>> /\ \A d \in Clients \ {c} : outcome'[d] = outcome[d]
  BY <1>2 DEF SetStateFails, Finish, Goto, TypeOK
<1> QED
  BY <1>1, <1>3, <1>4, CoverOfAll

\* PartMissing keeps CoverInv.
LEMMA CoverPartMissing ==
    ASSUME CoverInv, NEW c \in Clients, PartMissing(c)
    PROVE  CoverInv'
<1>1. Inv' /\ OnlyLocals(c)
  BY TrustPartMissing, ControlPartMissing DEF CoverInv, Inv
<1>2. TypeOK /\ Shape(c) /\ Trust(c) /\ Cover(c)
  BY DEF CoverInv, Inv, Control
<1>3. Cover(c)'
  BY <1>2 DEF PartMissing, Finish, Goto, Cover, Saved, Unsaved, TypeOK
<1>4. UNCHANGED <<cache, verified>> /\ \A d \in Clients \ {c} : outcome'[d] = outcome[d]
  BY <1>2 DEF PartMissing, Finish, Goto, TypeOK
<1> QED
  BY <1>1, <1>3, <1>4, CoverOfAll

\* CheckNewState keeps CoverInv.
LEMMA CoverCheckNewState ==
    ASSUME CoverInv, NEW c \in Clients, CheckNewState(c)
    PROVE  CoverInv'
<1>1. Inv' /\ OnlyLocals(c)
  BY TrustCheckNewState, ControlCheckNewState DEF CoverInv, Inv
<1>2. TypeOK /\ Shape(c) /\ Trust(c) /\ Cover(c)
  BY DEF CoverInv, Inv, Control
<1>3. Cover(c)'
  BY <1>2 DEF CheckNewState, Finish, Goto, Cover, Saved, Unsaved, TypeOK
<1>4. UNCHANGED <<cache, verified>> /\ \A d \in Clients \ {c} : outcome'[d] = outcome[d]
  BY <1>2 DEF CheckNewState, Finish, Goto, TypeOK
<1> QED
  BY <1>1, <1>3, <1>4, CoverOfAll

\* Crash keeps CoverInv.
LEMMA CoverCrash ==
    ASSUME CoverInv, NEW c \in Clients, Crash(c)
    PROVE  CoverInv'
<1>1. Inv' /\ OnlyLocals(c)
  BY TrustCrash, ControlCrash DEF CoverInv, Inv
<1>2. TypeOK /\ Shape(c) /\ Trust(c) /\ Cover(c)
  BY DEF CoverInv, Inv, Control
<1>3. Cover(c)'
  BY <1>2 DEF Crash, Reset, Goto, Cover, Saved, Unsaved, TypeOK
<1>4. UNCHANGED <<cache, verified>> /\ \A d \in Clients \ {c} : outcome'[d] = outcome[d]
  BY <1>2 DEF Crash, Reset, Goto, TypeOK
<1> QED
  BY <1>1, <1>3, <1>4, CoverOfAll

\* VerifyWrite keeps CoverInv.
LEMMA CoverVerifyWrite ==
    ASSUME CoverInv, NEW c \in Clients, VerifyWrite(c)
    PROVE  CoverInv'
<1>1. Inv' /\ OnlyLocals(c)
  BY TrustVerifyWrite, ControlVerifyWrite DEF CoverInv, Inv
<1>2. TypeOK /\ Shape(c) /\ Trust(c) /\ Cover(c)
  BY DEF CoverInv, Inv, Control
<1> DEFINE new == SetNewState(answer[c], DbOf(call[c].op))
           results == WriteResults(answer[c], call[c].kvs)
<1>a. state[c] \in ImmutableState /\ answer[c] \in VerifiableTx
  BY <1>2 DEF VerifyWrite, Shape, Trusting, Answered, AnswerTo
<1>b. ASSUME WriteVerifies(c)
      PROVE  \A r \in results : IsPrefix(r.header, Digest(new))
  <2>1. Digest(new) = answer[c].header /\ answer[c].header \in History
    BY <1>a, <1>b, SetExtends DEF WriteVerifies
  <2>2. IsPrefix(answer[c].header, Digest(new))
    BY <2>1, PrefixReflexive DEF History
  <2> QED
    BY <2>2 DEF WriteResults
<1> HIDE DEF new, results
<1>c. \/ /\ WriteVerifies(c)
          /\ newState' = [newState EXCEPT ![c] = new]
          /\ accepted' = [accepted EXCEPT ![c] = results]
          /\ pc' = [pc EXCEPT ![c] = AfterVerify(call[c].op)]
       \/ /\ pc' = [pc EXCEPT ![c] = "unlock"]
          /\ outcome' = [outcome EXCEPT ![c] = "corrupted"]
  BY DEF VerifyWrite, Finish, Goto, new, results
<1>d. UNCHANGED call
  BY DEF VerifyWrite
<1>3. Cover(c)'
  BY <1>2, <1>b, <1>c, <1>d DEF Cover, Saved, Unsaved, TypeOK, AfterVerify
<1>4. UNCHANGED <<cache, verified>> /\ \A d \in Clients \ {c} : outcome'[d] = outcome[d]
  BY <1>2 DEF VerifyWrite, Finish, Goto, TypeOK
<1> QED
  BY <1>1, <1>3, <1>4, CoverOfAll

\* VerifyRead keeps CoverInv.
LEMMA CoverVerifyRead ==
    ASSUME SingleItems, CoverInv, NEW c \in Clients, VerifyRead(c)
    PROVE  CoverInv'
<1>1. Inv' /\ OnlyLocals(c)
  BY TrustVerifyRead, ControlVerifyRead DEF CoverInv, Inv
<1>2. TypeOK /\ Shape(c) /\ Trust(c) /\ Cover(c)
  BY DEF CoverInv, Inv, Control
<1> DEFINE i == index[c] + 1
           item == answer[c][i]
           key == VerifiedKey(call[c], i, item)
           new == GetNewState(state[c], item, DbOf(call[c].op))
           result == [header |-> ReadHeader(state[c], item), spec |-> ReadSpec(item, key)]
<1>a. state[c] \in ImmutableState /\ accepted[c] = {}
  <2>1. Items(call[c]) <= 1 /\ Items(call[c]) \in Nat
    BY <1>2, CallAssumption, ItemsType DEF SingleItems, Shape, VerifyRead
  <2>2. index[c] = 0
    BY <1>2, <2>1 DEF VerifyRead, TypeOK
  <2> QED
    BY <1>2, <2>2 DEF VerifyRead, Shape, Trusting, Cover
<1>b. item \in VerifiableEntry
  <2>1. call[c] \in Call /\ Items(call[c]) \in Nat
    BY <1>2, CallAssumption, ItemsType DEF Shape, VerifyRead
  <2>2. answer[c] \in AnswerTo(call[c]) /\ Len(answer[c]) >= Items(call[c])
        /\ index[c] \in Nat /\ index[c] < Items(call[c]) /\ call[c].op \notin SetOp
    BY <1>2 DEF VerifyRead, Shape, Answered, TypeOK
  <2>3. Len(answer[c]) \in Nat
    BY <2>2, LenProperties DEF AnswerTo
  <2>4. i \in Nat /\ 0 < i /\ i <= Len(answer[c])
    BY <2>1, <2>2, <2>3
  <2> QED
    BY <2>1, <2>2, <2>4, ItemType DEF VerifyRead
<1>c. ASSUME ReadVerifies(c, i)
      PROVE  IsPrefix(result.header, Digest(new))
  BY <1>a, <1>b, <1>c, GetOnBranch DEF ReadVerifies
<1>d. \/ /\ ReadVerifies(c, i)
          /\ newState' = [newState EXCEPT ![c] = new]
          /\ accepted' = [accepted EXCEPT ![c] = @ \cup {result}]
          /\ pc' = [pc EXCEPT ![c] = AfterVerify(call[c].op)]
       \/ /\ pc' = [pc EXCEPT ![c] = "unlock"]
          /\ outcome' = [outcome EXCEPT ![c] = "corrupted"]
  BY DEF VerifyRead, Finish, Goto
<1> HIDE DEF new, result
<1>e. UNCHANGED call
  BY DEF VerifyRead
<1>3. Cover(c)'
  BY <1>2, <1>a, <1>c, <1>d, <1>e DEF Cover, Saved, Unsaved, TypeOK, AfterVerify
<1>4. UNCHANGED <<cache, verified>> /\ \A d \in Clients \ {c} : outcome'[d] = outcome[d]
  BY <1>2 DEF VerifyRead, Finish, Goto, TypeOK
<1> QED
  BY <1>1, <1>3, <1>4, CoverOfAll

-----------------------------------------------------------------------------
(* Steps that change the cache or the results.                             *)

\* When a new state is about to be kept, the cache still has the state it was
\* verified against.
LEMMA SavedExtends ==
    ASSUME SingleItems, CoverInv, NEW c \in Clients, SetState(c)
    PROVE  /\ newState[c] \in ImmutableState
           /\ cache[ApiKeyOf[c]] \in ImmutableState
           /\ IsPrefix(Digest(cache[ApiKeyOf[c]]), Digest(newState[c]))
<1>1. TypeOK /\ Shape(c) /\ Trust(c)
  BY DEF CoverInv, Inv, Control
<1>2. Items(call[c]) <= 1 /\ Items(call[c]) \in Nat
  BY <1>1, CallAssumption, ItemsType DEF SingleItems, Shape, SetState
<1>3. index[c] = 0
  BY <1>1, <1>2 DEF SetState, Shape, TypeOK
<1>4. state[c] = cache[ApiKeyOf[c]]
  BY <1>1, <1>3 DEF SetState, Trust, BeforeFirstSetState
<1> QED
  BY <1>1, <1>4 DEF SetState, Shape, Trust, Trusting

\* SetState keeps CoverInv: what the old state covered, the new one does.
LEMMA CoverSetState ==
    ASSUME SingleItems, CoverInv, NEW c \in Clients, SetState(c)
    PROVE  CoverInv'
<1> DEFINE k == ApiKeyOf[c]
<1>1. Inv' /\ OnlyLocals(c)
  BY TrustSetState, ControlSetState DEF CoverInv, Inv
<1>2. TypeOK /\ Shape(c) /\ Cover(c) /\ k \in ApiKeys /\ lock = c
  BY ClientAssumption DEF CoverInv, Inv, Control, SetState, Shape, Critical
<1>3. /\ cache' = [cache EXCEPT ![k] = newState[c]]
      /\ UNCHANGED <<verified, accepted, newState, call, outcome>>
      /\ pc[c] = "setState"
  BY DEF SetState
<1>4. newState[c] \in ImmutableState /\ cache[k] \in ImmutableState
      /\ IsPrefix(Digest(cache[k]), Digest(newState[c]))
  BY SavedExtends
<1>5. Cover(c)'
  <2>1. index'[c] # 0 \/ pc'[c] # "verify"
    BY <1>2 DEF SetState, Goto, TypeOK
  <2>2. pc'[c] # "setState" /\ (pc'[c] = "checkSignature" => ~CheckFirst(call[c].op))
    BY <1>2 DEF SetState, Goto, TypeOK
  <2>3. cache'[k] = newState[c]
    BY <1>2, <1>3 DEF TypeOK
  <2>4. \A r \in accepted[c] : IsPrefix(r.header, Digest(newState[c]))
    BY <1>2, <1>3 DEF Cover, Unsaved
  <2> QED
    BY <1>3, <2>1, <2>2, <2>3, <2>4 DEF Cover, Saved, Unsaved
<1>6. KeptCoversVerified'
  <2>1. ASSUME NEW r \in verified[k]
        PROVE  newState[c] # NoState /\ IsPrefix(r.header, Digest(newState[c]))
    <3>1. IsPrefix(r.header, Digest(cache[k])) /\ r.header \in History
      BY <1>2, <2>1 DEF CoverInv, KeptCoversVerified, TypeOK, Result
    <3>2. Digest(cache[k]) \in History /\ Digest(newState[c]) \in History
      BY <1>4, DigestType
    <3> QED
      BY <1>4, <3>1, <3>2, PrefixTransitive, ClientAssumption DEF History
  <2> QED
    BY <1>2, <1>3, <2>1 DEF CoverInv, KeptCoversVerified, TypeOK
<1>7. \A d \in Clients \ {c} : Cover(d)'
  BY <1>1, <1>2, <1>3, OtherCover
<1> QED
  BY <1>1, <1>5, <1>6, <1>7 DEF CoverInv

\* The first state cached under a key finds no result under it.
LEMMA CoverCacheState ==
    ASSUME CoverInv, NEW c \in Clients, CacheState(c)
    PROVE  CoverInv'
<1> DEFINE k == ApiKeyOf[c]
<1>1. Inv' /\ OnlyLocals(c)
  BY TrustCacheState, ControlCacheState DEF CoverInv, Inv
<1>2. TypeOK /\ Shape(c) /\ Trust(c) /\ k \in ApiKeys /\ lock = c
  BY ClientAssumption DEF CoverInv, Inv, Control, CacheState, Shape, Critical
<1>3. /\ cache' = [cache EXCEPT ![k] = newState[c]]
      /\ UNCHANGED <<verified, accepted, outcome>>
      /\ pc' = [pc EXCEPT ![c] = "rpc"]
  BY DEF CacheState, Goto
<1>4. verified[k] = {}
  BY <1>2 DEF CacheState, Trust, CoverInv, KeptCoversVerified
<1>5. Cover(c)'
  BY <1>2, <1>3 DEF Cover, Saved, Unsaved, TypeOK
<1>6. KeptCoversVerified'
  BY <1>2, <1>3, <1>4 DEF CoverInv, KeptCoversVerified, TypeOK
<1>7. \A d \in Clients \ {c} : Cover(d)'
  BY <1>1, <1>2, <1>3, OtherCover
<1> QED
  BY <1>1, <1>5, <1>6, <1>7 DEF CoverInv

\* A call that returns leaves results that the cache covers.
LEMMA CoverReturn ==
    ASSUME CoverInv, NEW c \in Clients, Return(c)
    PROVE  CoverInv'
<1> DEFINE k == ApiKeyOf[c]
<1>1. Inv' /\ OnlyLocals(c)
  BY TrustReturn, ControlReturn DEF CoverInv, Inv
<1>2. TypeOK /\ Shape(c) /\ Trust(c) /\ Cover(c) /\ k \in ApiKeys
  BY ClientAssumption DEF CoverInv, Inv, Control
<1>3. /\ UNCHANGED cache
      /\ pc' = [pc EXCEPT ![c] = "idle"]
      /\ outcome' = [outcome EXCEPT ![c] = "none"]
  BY DEF Return, Reset, Goto
<1>4. Cover(c)'
  BY <1>2, <1>3 DEF Cover, Saved, Unsaved, TypeOK
<1>5. ASSUME NEW r \in accepted[c], outcome[c] = "ok"
      PROVE  cache[k] # NoState /\ IsPrefix(r.header, Digest(cache[k]))
  BY <1>2, <1>5 DEF Return, Trust, Cover, Saved
<1>6. ASSUME NEW j \in ApiKeys, NEW r \in verified'[j]
      PROVE  cache[j] # NoState /\ IsPrefix(r.header, Digest(cache[j]))
  <2>1. r \in verified[j] \/ (j = k /\ r \in accepted[c] /\ outcome[c] = "ok")
    BY <1>2, <1>6 DEF Return, TypeOK
  <2> QED
    BY <1>5, <2>1 DEF CoverInv, KeptCoversVerified
<1>7. KeptCoversVerified'
  BY <1>3, <1>6 DEF KeptCoversVerified
<1>8. \A d \in Clients \ {c} : outcome'[d] = outcome[d]
  BY <1>2, <1>3 DEF TypeOK
<1>9. \A d \in Clients \ {c} : Cover(d)'
  BY <1>1, <1>3, <1>8, OtherCover
<1> QED
  BY <1>1, <1>4, <1>7, <1>9 DEF CoverInv

-----------------------------------------------------------------------------
(* The theorems.                                                           *)

\* Every step keeps CoverInv.
LEMMA CoverStep ==
    ASSUME SingleItems, CoverInv, [Next]_vars
    PROVE  CoverInv'
<1>1. ASSUME NEW c \in Clients, Step(c) PROVE CoverInv'
  BY <1>1, CoverGetStateHit,
     CoverGetStateMiss,
     CoverCacheState,
     CoverGetStateFails,
     CoverServe,
     CoverRpcFails,
     CoverRetry,
     CoverReceive,
     CoverVerifyWrite,
     CoverVerifyRead,
     CoverSkipItem,
     CoverAllVerified,
     CoverSetState,
     CoverSetStateFails,
     CoverCheckNewState,
     CoverReturn DEF Step
<1>2. ASSUME NEW c \in Clients,
             \/ Begin(c) \/ CacheLock(c) \/ CacheLockFails(c)
             \/ ServeWrongly(c) \/ PartMissing(c) \/ Crash(c)
      PROVE  CoverInv'
  BY <1>2, CoverBegin, CoverCacheLock, CoverCacheLockFails, CoverServeWrongly,
     CoverPartMissing, CoverCrash
<1>3. CASE (\E k \in ApiKeys : Write(k) \/ Restore(k)) \/ UNCHANGED vars
  <2>1. UNCHANGED <<cache, verified, locals>>
    BY <1>3 DEF Write, Restore, locals, vars
  <2>2. Inv'
    BY InvStep DEF CoverInv
  <2> QED
    BY <2>1, <2>2 DEF CoverInv, Cover, Saved, Unsaved, KeptCoversVerified, locals
<1> QED
  BY <1>1, <1>2, <1>3 DEF Next

\* CoverInv holds initially.
LEMMA CoverInit == Init => CoverInv
<1>1. Init => Inv
  BY InvInit
<1>2. Init => KeptCoversVerified /\ \A c \in Clients : Cover(c)
  BY DEF Init, KeptCoversVerified, Cover, Saved, Unsaved
<1> QED
  BY <1>1, <1>2 DEF CoverInv

\* CoverInv is an invariant.
LEMMA CoverInvariant ==
    ASSUME SingleItems
    PROVE  Spec => []CoverInv
<1>1. CoverInv /\ [Next]_vars => CoverInv'
  BY CoverStep
<1> QED
  BY <1>1, CoverInit, PTL DEF Spec

\* The kept state is that of the latest transaction anything was verified in.
THEOREM KeptCovers ==
    ASSUME SingleItems
    PROVE  Spec => []KeptCoversVerified
<1>1. CoverInv => KeptCoversVerified
  BY DEF CoverInv
<1> QED
  BY <1>1, CoverInvariant, PTL

\* All that was ever returned as verified under an API key lies on one
\* history: no two clients are ever shown, and accept, diverging histories.
THEOREM OneHistory ==
    ASSUME SingleItems
    PROVE  Spec => []VerifiedOnOneHistory
<1>1. ASSUME CoverInv, NEW k \in ApiKeys, NEW r1 \in verified[k], NEW r2 \in verified[k]
      PROVE  IsPrefix(r1.header, r2.header) \/ IsPrefix(r2.header, r1.header)
  <2>1. TypeOK /\ KeptCoversVerified
    BY <1>1 DEF CoverInv, Inv, Control
  <2>2. r1.header \in History /\ r2.header \in History
    BY <2>1 DEF TypeOK, Result
  <2>3. Digest(cache[k]) \in History
    BY <2>1, DigestType DEF TypeOK, KeptCoversVerified
  <2>4. IsPrefix(r1.header, Digest(cache[k])) /\ IsPrefix(r2.header, Digest(cache[k]))
    BY <2>1 DEF KeptCoversVerified
  <2> QED
    BY <2>2, <2>3, <2>4, PrefixBranch DEF History
<1>2. CoverInv => VerifiedOnOneHistory
  BY <1>1 DEF VerifiedOnOneHistory
<1> QED
  BY <1>2, CoverInvariant, PTL

\* A kept state is only ever replaced by one that extends it.
THEOREM KeptGrows ==
    ASSUME SingleItems
    PROVE  Spec => KeptOnlyGrows
<1> DEFINE Grows(k) ==
      cache[k] # NoState => IsPrefix(Digest(cache[k]), Digest(cache'[k]))
<1>1. ASSUME CoverInv, [Next]_vars, NEW k \in ApiKeys
      PROVE  Grows(k)
  <2>1. TypeOK
    BY <1>1 DEF CoverInv, Inv, Control
  <2>2. CASE cache'[k] = cache[k]
    BY <2>1, <2>2, DigestType, PrefixReflexive DEF TypeOK, History
  <2>3. ASSUME NEW c \in Clients, SetState(c)
        PROVE  Grows(k)
    <3>1. CASE k = ApiKeyOf[c]
      <4>1. cache'[k] = newState[c]
        BY <2>1, <2>3, <3>1 DEF SetState, TypeOK
      <4> QED
        BY <1>1, <2>3, <3>1, <4>1, SavedExtends
    <3>2. CASE k # ApiKeyOf[c]
      BY <2>1, <2>2, <2>3, <3>2 DEF SetState, TypeOK
    <3> QED
      BY <3>1, <3>2
  <2>4. ASSUME NEW c \in Clients, CacheState(c)
        PROVE  Grows(k)
    <3>1. CASE k = ApiKeyOf[c]
      <4>1. cache[k] = NoState
        BY <1>1, <2>4, <3>1 DEF CoverInv, Inv, Trust, CacheState
      <4> QED
        BY <4>1
    <3>2. CASE k # ApiKeyOf[c]
      BY <2>1, <2>2, <2>4, <3>2 DEF CacheState, TypeOK
    <3> QED
      BY <3>1, <3>2
  <2>5. \/ UNCHANGED cache
        \/ \E c \in Clients : SetState(c) \/ CacheState(c)
    BY <1>1 DEF Next, vars, locals, Step, Begin, CacheLock, CacheLockFails, GetStateHit,
       GetStateMiss, GetStateFails, Serve, ServeWrongly, PartMissing, RpcFails, Retry, Receive,
       VerifyWrite, VerifyRead, SkipItem, AllVerified, SetStateFails, CheckNewState,
       Return, Crash, Write, Restore
  <2> QED
    BY <2>2, <2>3, <2>4, <2>5
<1>2. CoverInv /\ [Next]_vars =>
        [\A k \in ApiKeys : cache[k] # NoState =>
           IsPrefix(Digest(cache[k]), Digest(cache'[k]))]_vars
  BY <1>1
<1> QED
  BY <1>2, CoverInvariant, PTL DEF Spec, KeptOnlyGrows

=============================================================================
