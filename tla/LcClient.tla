------------------------------ MODULE LcClient ------------------------------
(***************************************************************************)
(* The verified operations of the ledger compliance client                 *)
(* (src/grpcclient/lc_api.go, lc_streams_api.go, lc_state_service.go) run  *)
(* by several clients, processes or goroutines, that keep their trusted    *)
(* states in one cache directory, against a server that other             *)
(* applications write to, that may fail, answer wrongly or be restored     *)
(* from a backup.                                                          *)
(*                                                                         *)
(* Every operation has the same shape:                                     *)
(*   CacheLock, GetState, RPC, verification, {SetState, CheckSignature},   *)
(*   deferred CacheUnlock                                                  *)
(* and they differ in the order of the pair in braces, in the name they    *)
(* check the signature under, and in what they ask the server for.         *)
(***************************************************************************)
EXTENDS LcServer

CONSTANTS Clients,      \* the clients that share the cache directory
          ApiKeys,      \* the API keys they use, each with a ledger of its own
          ApiKeyOf,     \* ApiKeyOf[c]: the key client c is configured with
          HasPubKey,    \* HasPubKey[c]: a server signing key is configured
          Calls,        \* the operations called, with their arguments
          ForeignWrites,\* the sets of entries other writers commit
          ServerDbs,    \* the names the server signs its states under
          Garbled(_, _),\* Garbled(call, a): wrong answers in the place of a
          MaxTx,        \* bound: transactions in a ledger
          MaxFaults,    \* bound: wrong answers
          MaxRestores,  \* bound: restores of a ledger from a backup
          MaxRetries,   \* bound: repetitions of an RPC (RetryOptions)
          NoClient, NoState, NoAnswer, None

VerifiedOp == {"VerifiedSet", "StreamVerifiedSet", "StreamVerifiedGet",
               "VCNGetArtifacts", "VerifiedGet", "VerifiedGetExt",
               "VerifiedGetExtAtMulti"}

SetOp == {"VerifiedSet", "StreamVerifiedSet"}

ReadOp == VerifiedOp \ SetOp

\* A call: the keys read (each at a transaction, or 0 for the latest), the
\* pairs written, and the ProveSinceTx StreamVerifiedGet is given.
Call == [op : VerifiedOp, reqs : Seq([key : Keys, atTx : Nat]),
         kvs : Seq(KeyValue), since : Nat]

\* How many requests and pairs an operation takes; an artifact is not asked
\* for at a transaction.
WellFormed(cl) ==
    /\ cl.op \in ReadOp \ {"VerifiedGetExtAtMulti"} => Len(cl.reqs) = 1
    /\ cl.op = "VCNGetArtifacts" => cl.reqs[1].atTx = 0
    /\ cl.op = "VerifiedSet" => Len(cl.kvs) = 1

\* An item of an answer to a read; ItemError is a non-empty errs[i].
ItemError == [entry |-> "error"]

\* The answers the client can make sense of; those to VCNGetArtifacts have
\* no field for a reference.
AnswerTo(cl) ==
    IF cl.op \in SetOp THEN VerifiableTx
    ELSE {a \in Seq(VerifiableEntry \cup {ItemError}) :
            /\ cl.op # "VerifiedGetExtAtMulti" =>
                 \A i \in DOMAIN a : a[i] \in VerifiableEntry
            /\ cl.op = "VCNGetArtifacts" => \A i \in DOMAIN a : a[i].ref = NoRef
            /\ cl.op \notin {"VCNGetArtifacts", "VerifiedGetExtAtMulti"} => Len(a) = 1}

ASSUME ClientAssumption ==
    /\ ApiKeyOf \in [Clients -> ApiKeys]
    /\ HasPubKey \in [Clients -> BOOLEAN]
    /\ NoClient \notin Clients
    /\ NoState \notin ImmutableState
    /\ None \notin History

ASSUME CallAssumption == \A cl \in Calls : cl \in Call /\ WellFormed(cl)

ASSUME ServerAssumption ==
    /\ ForeignWrites \subseteq SUBSET EntrySpec
    /\ ServerDbs \subseteq DbName \cup {"none"}

ASSUME BoundAssumption == {MaxTx, MaxFaults, MaxRestores, MaxRetries} \subseteq Nat

VARIABLES
    ledger,    \* ledger[k]: the server's history of ledger k
    epoch,     \* the restores so far
    faults,    \* the wrong answers so far
    lock,      \* the holder of the cache lock
    cache,     \* cache[k]: the state kept for k in the cache directory
    verified,  \* verified[k]: the results returned as verified (history)
    pc,        \* pc[c]: the next step of client c
    call,      \* call[c]: the operation c is in
    state,     \* state[c]: what GetState returned
    answer,    \* answer[c]: the server's answer
    index,     \* index[c]: the items of the answer that are done with
    newState,  \* newState[c]: the state of the item last verified
    accepted,  \* accepted[c]: the results verified so far in this call
    outcome,   \* outcome[c]: how the call ends
    retries    \* retries[c]: the times the RPC was retried

locals == <<pc, call, state, answer, index, newState, accepted, outcome, retries>>
vars == <<ledger, epoch, faults, lock, cache, verified, pc, call, state, answer, index,
          newState, accepted, outcome, retries>>

NoCall == [op |-> "none", reqs |-> <<>>, kvs |-> <<>>, since |-> 0]

Outcome == {"none", "ok", "error", "corrupted", "unsigned", "panic"}

\* The steps between CacheLock and CacheUnlock.
Critical == {"getState", "cacheState", "rpc", "answered", "verify",
             "setState", "checkSignature", "unlock"}

Result == [header : History, spec : EntrySpec]

TypeOK ==
    /\ ledger \in [ApiKeys -> History]
    /\ epoch \in Nat
    /\ faults \in Nat
    /\ lock \in Clients \cup {NoClient}
    /\ cache \in [ApiKeys -> ImmutableState \cup {NoState}]
    /\ verified \in [ApiKeys -> SUBSET Result]
    /\ pc \in [Clients -> Critical \cup {"idle", "lock"}]
    /\ call \in [Clients -> Calls \cup {NoCall}]
    /\ state \in [Clients -> ImmutableState \cup {NoState}]
    /\ DOMAIN answer = Clients
    /\ \A c \in Clients : answer[c] = NoAnswer \/ answer[c] \in AnswerTo(call[c])
    /\ index \in [Clients -> Nat]
    /\ newState \in [Clients -> ImmutableState \cup {NoState}]
    /\ accepted \in [Clients -> SUBSET Result]
    /\ outcome \in [Clients -> Outcome]
    /\ retries \in [Clients -> Nat]

-----------------------------------------------------------------------------
(* How the operations differ.                                              *)

\* These check the signature before they keep the new state, the others
\* keep the new state first.
CheckFirst(op) == op \in {"VerifiedSet", "StreamVerifiedSet", "StreamVerifiedGet"}

\* Mutant of DbOf: a state without the hash of the API key.
DbLeftOut(op) == IF CheckFirst(op) THEN "ApiKey" ELSE "none"

\* The name of the database in the state whose signature is checked.
DbOf(op) == IF CheckFirst(op) THEN "ApiKey" ELSE "ApiKeyHash"

\* Mutant of ProveSinceTx: the request as the caller filled it.
ProveSinceTxOfCaller(c) == call[c].since

\* ProveSinceTx of the request: the trusted transaction, except that
\* StreamVerifiedGet sends its caller's request as it is.
ProveSinceTx(c) ==
    IF call[c].op = "StreamVerifiedGet" THEN call[c].since ELSE state[c].txId

\* The items of the answer that are verified, one after the other.
Items(cl) == IF cl.op \in SetOp THEN 1 ELSE Len(cl.reqs)

-----------------------------------------------------------------------------
Init ==
    /\ ledger = [k \in ApiKeys |-> <<>>]
    /\ epoch = 0
    /\ faults = 0
    /\ lock = NoClient
    /\ cache = [k \in ApiKeys |-> NoState]
    /\ verified = [k \in ApiKeys |-> {}]
    /\ pc = [c \in Clients |-> "idle"]
    /\ call = [c \in Clients |-> NoCall]
    /\ state = [c \in Clients |-> NoState]
    /\ answer = [c \in Clients |-> NoAnswer]
    /\ index = [c \in Clients |-> 0]
    /\ newState = [c \in Clients |-> NoState]
    /\ accepted = [c \in Clients |-> {}]
    /\ outcome = [c \in Clients |-> "none"]
    /\ retries = [c \in Clients |-> 0]

Goto(c, step) == pc' = [pc EXCEPT ![c] = step]

\* The call is over but for the deferred unlock.
Finish(c, result) ==
    /\ Goto(c, "unlock")
    /\ outcome' = [outcome EXCEPT ![c] = result]

\* The variables of client c as they are between two calls.
Reset(c) ==
    /\ Goto(c, "idle")
    /\ call' = [call EXCEPT ![c] = NoCall]
    /\ state' = [state EXCEPT ![c] = NoState]
    /\ answer' = [answer EXCEPT ![c] = NoAnswer]
    /\ index' = [index EXCEPT ![c] = 0]
    /\ newState' = [newState EXCEPT ![c] = NoState]
    /\ accepted' = [accepted EXCEPT ![c] = {}]
    /\ outcome' = [outcome EXCEPT ![c] = "none"]
    /\ retries' = [retries EXCEPT ![c] = 0]

-----------------------------------------------------------------------------
(* The lock and the cached state.                                          *)

\* An application calls a verified operation.  A streamed write without
\* pairs is refused before the lock is asked for.
Begin(c) ==
    /\ pc[c] = "idle"
    /\ \E cl \in Calls :
         /\ cl.op = "StreamVerifiedSet" => cl.kvs # <<>>
         /\ call' = [call EXCEPT ![c] = cl]
    /\ Goto(c, "lock")
    /\ UNCHANGED <<ledger, epoch, faults, lock, cache, verified, state, answer, index,
                   newState, accepted, outcome, retries>>

\* Mutant of CacheLock: the lock is not waited for.
CacheLockShared(c) ==
    /\ pc[c] = "lock"
    /\ lock' = c
    /\ Goto(c, "getState")
    /\ UNCHANGED <<ledger, epoch, faults, cache, verified, call, state, answer, index,
                   newState, accepted, outcome, retries>>

CacheLock(c) ==
    /\ pc[c] = "lock"
    /\ lock = NoClient
    /\ lock' = c
    /\ Goto(c, "getState")
    /\ UNCHANGED <<ledger, epoch, faults, cache, verified, call, state, answer, index,
                   newState, accepted, outcome, retries>>

\* CacheLock returns an error: the call ends with nothing to unlock.
CacheLockFails(c) ==
    /\ pc[c] = "lock"
    /\ Reset(c)
    /\ UNCHANGED <<ledger, epoch, faults, lock, cache, verified>>

\* GetState finds a state in the cache.
GetStateHit(c) ==
    /\ pc[c] = "getState"
    /\ cache[ApiKeyOf[c]] # NoState
    /\ state' = [state EXCEPT ![c] = cache[ApiKeyOf[c]]]
    /\ Goto(c, "rpc")
    /\ UNCHANGED <<ledger, epoch, faults, lock, cache, verified, call, answer, index,
                   newState, accepted, outcome, retries>>

\* GetState finds none and asks the server for its current state, whose
\* signature SignatureVerifierInterceptor checks.
GetStateMiss(c) ==
    /\ pc[c] = "getState"
    /\ cache[ApiKeyOf[c]] = NoState
    /\ \E db \in ServerDbs :
         LET current == CurrentState(ledger[ApiKeyOf[c]], db)
         IN  IF HasPubKey[c] /\ ~CheckSignature(current)
             THEN /\ Finish(c, "unsigned")
                  /\ UNCHANGED newState
             ELSE /\ newState' = [newState EXCEPT ![c] = current]
                  /\ Goto(c, "cacheState")
                  /\ UNCHANGED outcome
    /\ UNCHANGED <<ledger, epoch, faults, lock, cache, verified, call, state, answer,
                   index, accepted, retries>>

\* ... and keeps it.
CacheState(c) ==
    /\ pc[c] = "cacheState"
    /\ cache' = [cache EXCEPT ![ApiKeyOf[c]] = newState[c]]
    /\ state' = [state EXCEPT ![c] = newState[c]]
    /\ newState' = [newState EXCEPT ![c] = NoState]
    /\ Goto(c, "rpc")
    /\ UNCHANGED <<ledger, epoch, faults, lock, verified, call, answer, index,
                   accepted, outcome, retries>>

\* GetState returns an error: the cache cannot be read or written, or
\* CurrentState fails.
GetStateFails(c) ==
    /\ pc[c] \in {"getState", "cacheState"}
    /\ Finish(c, "error")
    /\ newState' = [newState EXCEPT ![c] = NoState]
    /\ UNCHANGED <<ledger, epoch, faults, lock, cache, verified, call, state, answer,
                   index, accepted, retries>>

-----------------------------------------------------------------------------
(* The RPC.                                                                *)

\* The full key a request is answered for: VCNGetArtifacts asks for an
\* artifact hash, which the server finds the full key of.
AnsweredKeys(cl, req) ==
    IF cl.op = "VCNGetArtifacts" THEN FullKeys[req.key] ELSE {req.key}

\* Only an answer of the reply's type reaches the client: any other fails to
\* unmarshal, an error of the RPC.  One of that type with a message left out of it
\* is not delivered here, either: PartMissing is what becomes of it.
Deliver(c, a) ==
    /\ a \in AnswerTo(call[c])
    /\ answer' = [answer EXCEPT ![c] = a]

\* The server answers a read.  A single read that finds nothing, or asks for
\* a proof from a transaction the server does not have, is an error of the
\* RPC; in a multi read it is an error of the item.
ServeRead(c) ==
    LET h == ledger[ApiKeyOf[c]]
        cl == call[c]
        since == ProveSinceTx(c)
        CanAnswer(key, req) ==
            /\ since <= Len(h)
            /\ IF cl.op = "VCNGetArtifacts" THEN HasValue(h, key, 0)
                                            ELSE Found(h, key, req.atTx)
    IN  \E db \in ServerDbs :
        \E full \in [DOMAIN cl.reqs -> Keys] :
          /\ \A i \in DOMAIN cl.reqs : full[i] \in AnsweredKeys(cl, cl.reqs[i])
          /\ cl.op # "VerifiedGetExtAtMulti" =>
               \A i \in DOMAIN cl.reqs : CanAnswer(full[i], cl.reqs[i])
          /\ Deliver(c, [i \in DOMAIN cl.reqs |->
               IF CanAnswer(full[i], cl.reqs[i])
               THEN VerifiableGet(h, full[i], cl.reqs[i].atTx, since, db)
               ELSE ItemError])
          /\ UNCHANGED ledger

\* The server commits a write and answers it.
ServeWrite(c) ==
    LET h == ledger[ApiKeyOf[c]]
        kvs == call[c].kvs
        entries == {EncodeEntrySpec(kvs[i].key, FALSE, kvs[i].value) : i \in DOMAIN kvs}
        longer == Committed(h, epoch, entries)
    IN  \E db \in ServerDbs :
          /\ ProveSinceTx(c) <= Len(h)
          /\ Len(h) < MaxTx
          /\ ledger' = [ledger EXCEPT ![ApiKeyOf[c]] = longer]
          /\ Deliver(c, VerifiableSet(longer, kvs, ProveSinceTx(c), db))

Serve(c) ==
    /\ pc[c] = "rpc"
    /\ IF call[c].op \in SetOp THEN ServeWrite(c) ELSE ServeRead(c)
    /\ Goto(c, "answered")
    /\ UNCHANGED <<epoch, faults, lock, cache, verified, call, state, index, newState,
                   accepted, outcome, retries>>

\* The answer on its way to the client is not the one it should be.
ServeWrongly(c) ==
    /\ pc[c] = "answered"
    /\ faults < MaxFaults
    /\ \E a \in Garbled(call[c], answer[c]) : Deliver(c, a)
    /\ faults' = faults + 1
    /\ UNCHANGED <<ledger, epoch, lock, cache, verified, pc, call, state, index,
                   newState, accepted, outcome, retries>>

\* The request or the answer is lost, or the server answers with an error.
RpcFails(c) ==
    /\ pc[c] \in {"rpc", "answered"}
    /\ Finish(c, "error")
    /\ UNCHANGED <<ledger, epoch, faults, lock, cache, verified, call, state, answer,
                   index, newState, accepted, retries>>

\* ... and the interceptor sends the request again.  A stream of requests
\* cannot be sent again.
Retry(c) ==
    /\ pc[c] \in {"rpc", "answered"}
    /\ retries[c] < MaxRetries
    /\ call[c].op # "StreamVerifiedSet"
    /\ retries' = [retries EXCEPT ![c] = @ + 1]
    /\ answer' = [answer EXCEPT ![c] = NoAnswer]
    /\ Goto(c, "rpc")
    /\ UNCHANGED <<ledger, epoch, faults, lock, cache, verified, call, state, index,
                   newState, accepted, outcome>>

\* What is checked of an answer before its items are: the number of items of
\* a multi read, the full key of an artifact.  VCNGetArtifacts takes the first
\* entry of the answer without asking whether there is one.
CountDiffers(cl, a) == cl.op = "VerifiedGetExtAtMulti" /\ Len(a) # Len(cl.reqs)

NoEntry(cl, a) == cl.op = "VCNGetArtifacts" /\ Len(a) = 0

OtherArtifact(cl, a) ==
    /\ cl.op = "VCNGetArtifacts"
    /\ Len(a) > 0
    /\ a[1].entry.key \notin FullKeys[cl.reqs[1].key]

Receive(c) ==
    LET cl == call[c]
        a == answer[c]
    IN  /\ pc[c] = "answered"
        /\ \/ CountDiffers(cl, a) /\ Finish(c, "error")
           \/ NoEntry(cl, a) /\ Finish(c, "panic")
           \/ OtherArtifact(cl, a) /\ Finish(c, "corrupted")
           \/ /\ ~CountDiffers(cl, a) /\ ~NoEntry(cl, a) /\ ~OtherArtifact(cl, a)
              /\ Goto(c, "verify")
              /\ UNCHANGED outcome
        /\ UNCHANGED <<ledger, epoch, faults, lock, cache, verified, call, state,
                       answer, index, newState, accepted, retries>>

-----------------------------------------------------------------------------
(* Verification, one item at a time, and the new state.                    *)

\* The key verifyGet is called with.
VerifiedKey(cl, i, item) ==
    IF cl.op = "VCNGetArtifacts" THEN item.entry.key ELSE cl.reqs[i].key

WriteVerifies(c) ==
    VerifySet(state[c], answer[c], call[c].kvs, call[c].op = "VerifiedSet")

ReadVerifies(c, i) ==
    LET item == answer[c][i]
    IN  VerifyGet(state[c], item, VerifiedKey(call[c], i, item))

\* What a verified write has verified.
WriteResults(vTx, kvs) ==
    {[header |-> vTx.header,
      spec   |-> EncodeEntrySpec(kvs[i].key, vTx.body[i].deleted, kvs[i].value)] :
       i \in DOMAIN kvs}

\* The step after a verification.
AfterVerify(op) == IF CheckFirst(op) THEN "checkSignature" ELSE "setState"

VerifyWrite(c) ==
    /\ pc[c] = "verify"
    /\ call[c].op \in SetOp
    /\ index[c] = 0
    /\ IF WriteVerifies(c)
       THEN /\ newState' = [newState EXCEPT ![c] = SetNewState(answer[c], DbOf(call[c].op))]
            /\ accepted' = [accepted EXCEPT ![c] = WriteResults(answer[c], call[c].kvs)]
            /\ Goto(c, AfterVerify(call[c].op))
            /\ UNCHANGED outcome
       ELSE /\ Finish(c, "corrupted")
            /\ UNCHANGED <<newState, accepted>>
    /\ UNCHANGED <<ledger, epoch, faults, lock, cache, verified, call, state, answer,
                   index, retries>>

VerifyRead(c) ==
    LET i == index[c] + 1
        item == answer[c][i]
        result == [header |-> ReadHeader(state[c], item),
                   spec   |-> ReadSpec(item, VerifiedKey(call[c], i, item))]
    IN  /\ pc[c] = "verify"
        /\ call[c].op \notin SetOp
        /\ index[c] < Items(call[c])
        /\ item # ItemError
        /\ IF ReadVerifies(c, i)
           THEN /\ newState' = [newState EXCEPT ![c] =
                     GetNewState(state[c], item, DbOf(call[c].op))]
                /\ accepted' = [accepted EXCEPT ![c] = @ \cup {result}]
                /\ Goto(c, AfterVerify(call[c].op))
                /\ UNCHANGED outcome
           ELSE /\ Finish(c, "corrupted")
                /\ UNCHANGED <<newState, accepted>>
        /\ UNCHANGED <<ledger, epoch, faults, lock, cache, verified, call, state,
                       answer, index, retries>>

\* A message that the verification takes apart, the transaction, the entry or a proof,
\* is not in the answer: nil, and a panic before anything is kept of this item.
PartMissing(c) ==
    /\ pc[c] = "verify"
    /\ index[c] < Items(call[c])
    /\ call[c].op \notin SetOp => answer[c][index[c] + 1] # ItemError
    /\ faults < MaxFaults
    /\ faults' = faults + 1
    /\ Finish(c, "panic")
    /\ UNCHANGED <<ledger, epoch, lock, cache, verified, call, state, answer, index,
                   newState, accepted, retries>>

\* An item of a multi read that the server has no answer for is left out.
SkipItem(c) ==
    /\ pc[c] = "verify"
    /\ call[c].op \notin SetOp
    /\ index[c] < Items(call[c])
    /\ answer[c][index[c] + 1] = ItemError
    /\ index' = [index EXCEPT ![c] = @ + 1]
    /\ UNCHANGED <<ledger, epoch, faults, lock, cache, verified, pc, call, state,
                   answer, newState, accepted, outcome, retries>>

AllVerified(c) ==
    /\ pc[c] = "verify"
    /\ index[c] = Items(call[c])
    /\ Finish(c, "ok")
    /\ UNCHANGED <<ledger, epoch, faults, lock, cache, verified, call, state, answer,
                   index, newState, accepted, retries>>

\* Mutant of SetState: the new state is not kept.
SetStateForgotten(c) ==
    /\ pc[c] = "setState"
    /\ IF CheckFirst(call[c].op)
       THEN index' = [index EXCEPT ![c] = @ + 1] /\ Goto(c, "verify")
       ELSE UNCHANGED index /\ Goto(c, "checkSignature")
    /\ UNCHANGED <<ledger, epoch, faults, lock, cache, verified, call, state, answer,
                   newState, accepted, outcome, retries>>

\* The new state replaces the one in the cache.
SetState(c) ==
    /\ pc[c] = "setState"
    /\ cache' = [cache EXCEPT ![ApiKeyOf[c]] = newState[c]]
    /\ IF CheckFirst(call[c].op)
       THEN index' = [index EXCEPT ![c] = @ + 1] /\ Goto(c, "verify")
       ELSE UNCHANGED index /\ Goto(c, "checkSignature")
    /\ UNCHANGED <<ledger, epoch, faults, lock, verified, call, state, answer,
                   newState, accepted, outcome, retries>>

SetStateFails(c) ==
    /\ pc[c] = "setState"
    /\ Finish(c, "error")
    /\ UNCHANGED <<ledger, epoch, faults, lock, cache, verified, call, state, answer,
                   index, newState, accepted, retries>>

\* Mutants of CheckNewState: the state is kept only when there was a signature
\* to check; the error of the check is not returned.
CheckNewStateKeepsSigned(c) ==
    /\ pc[c] = "checkSignature"
    /\ IF CheckFirst(call[c].op) /\ HasPubKey[c]
       THEN UNCHANGED index /\ Goto(c, "setState")
       ELSE index' = [index EXCEPT ![c] = @ + 1] /\ Goto(c, "verify")
    /\ UNCHANGED <<ledger, epoch, faults, lock, cache, verified, call, state, answer,
                   newState, accepted, outcome, retries>>

CheckNewStateShadowed(c) ==
    /\ pc[c] = "checkSignature"
    /\ IF CheckFirst(call[c].op)
       THEN UNCHANGED index /\ Goto(c, "setState")
       ELSE index' = [index EXCEPT ![c] = @ + 1] /\ Goto(c, "verify")
    /\ UNCHANGED <<ledger, epoch, faults, lock, cache, verified, call, state, answer,
                   newState, accepted, outcome, retries>>

\* The signature of the new state, when a key is configured.
CheckNewState(c) ==
    /\ pc[c] = "checkSignature"
    /\ IF HasPubKey[c] /\ ~CheckSignature(newState[c])
       THEN Finish(c, "unsigned") /\ UNCHANGED index
       ELSE /\ IF CheckFirst(call[c].op)
               THEN UNCHANGED index /\ Goto(c, "setState")
               ELSE index' = [index EXCEPT ![c] = @ + 1] /\ Goto(c, "verify")
            /\ UNCHANGED outcome
    /\ UNCHANGED <<ledger, epoch, faults, lock, cache, verified, call, state, answer,
                   newState, accepted, retries>>

\* Mutant of Return: the unlock is not deferred, only success reaches it.
ReturnUnlocksSuccess(c) ==
    /\ pc[c] = "unlock"
    /\ lock' = IF outcome[c] = "ok" THEN NoClient ELSE lock
    /\ Reset(c)
    /\ UNCHANGED <<ledger, epoch, faults, cache, verified>>

\* The deferred CacheUnlock; the call returns.
Return(c) ==
    /\ pc[c] = "unlock"
    /\ lock' = NoClient
    /\ verified' = IF outcome[c] = "ok"
                   THEN [verified EXCEPT ![ApiKeyOf[c]] = @ \cup accepted[c]]
                   ELSE verified
    /\ Reset(c)
    /\ UNCHANGED <<ledger, epoch, faults, cache>>

\* The process dies: the lock, a lock on a file, goes with it, the cache
\* stays.
Crash(c) ==
    /\ pc[c] # "idle"
    /\ lock' = IF lock = c THEN NoClient ELSE lock
    /\ Reset(c)
    /\ UNCHANGED <<ledger, epoch, faults, cache, verified>>

-----------------------------------------------------------------------------
(* The rest of the world.                                                  *)

\* A write that is not verified, of this client (Set, SetAll, ExecAll,
\* StreamSet, VCNSetArtifacts, ...) or of another application: none of them
\* takes the cache lock.
Write(k) ==
    /\ Len(ledger[k]) < MaxTx
    /\ \E entries \in ForeignWrites :
         ledger' = [ledger EXCEPT ![k] = Committed(@, epoch, entries)]
    /\ UNCHANGED <<epoch, faults, lock, cache, verified, locals>>

\* The server is restored from a backup and has lost its last transactions.
Restore(k) ==
    /\ epoch < MaxRestores
    /\ \E n \in 0 .. Len(ledger[k]) - 1 : ledger' = [ledger EXCEPT ![k] = Upto(@, n)]
    /\ epoch' = epoch + 1
    /\ UNCHANGED <<faults, lock, cache, verified, locals>>

\* What a client does once it has the lock, to the end of the call.
Step(c) ==
    \/ GetStateHit(c) \/ GetStateMiss(c) \/ CacheState(c) \/ GetStateFails(c)
    \/ Serve(c) \/ RpcFails(c) \/ Retry(c) \/ Receive(c)
    \/ VerifyWrite(c) \/ VerifyRead(c) \/ SkipItem(c) \/ AllVerified(c)
    \/ SetState(c) \/ SetStateFails(c) \/ CheckNewState(c) \/ Return(c)

Next ==
    \/ \E c \in Clients :
         \/ Begin(c) \/ CacheLock(c) \/ CacheLockFails(c) \/ Step(c)
         \/ ServeWrongly(c) \/ PartMissing(c) \/ Crash(c)
    \/ \E k \in ApiKeys : Write(k) \/ Restore(k)

Spec == Init /\ [][Next]_vars

\* The steps of a call are taken one after the other without waiting for anything
\* but the server.  Keepalive makes a dead transport an error, RpcFails; that a server
\* behind a live one answers, if only with an error, is an assumption about it.
Fairness == \A c \in Clients : WF_vars(Step(c))

FairSpec == Spec /\ Fairness

-----------------------------------------------------------------------------
(* Properties.                                                             *)

\* The state read under the lock is the one in the cache until the call has
\* kept a state of its own: what a call verifies against is never stale
\* (lc_api.go: CacheLock to SetState in each operation).
BeforeFirstSetState(c) ==
    /\ index[c] = 0
    /\ \/ pc[c] \in {"rpc", "answered", "verify"}
       \/ pc[c] = "setState"
       \/ pc[c] = "checkSignature" /\ CheckFirst(call[c].op)

SnapshotFresh ==
    \A c \in Clients : BeforeFirstSetState(c) => state[c] = cache[ApiKeyOf[c]]

\* The kept state is that of the latest transaction any result was verified
\* in, so no later verification can accept less (lc_api.go SetState calls).
KeptCoversVerified ==
    \A k \in ApiKeys : \A r \in verified[k] :
        cache[k] # NoState /\ IsPrefix(r.header, Digest(cache[k]))

\* All that was ever returned as verified under an API key, to whichever
\* client, lies on one history of the ledger: two results on diverging
\* histories are never both accepted (verifyGet, VerifiedSet).
VerifiedOnOneHistory ==
    \A k \in ApiKeys : \A r1, r2 \in verified[k] :
        \/ IsPrefix(r1.header, r2.header)
        \/ IsPrefix(r2.header, r1.header)

\* A ledger that was never restored holds all that was returned as verified,
\* each entry in the transaction it was proven in: wrong answers are not
\* taken for the ledger's (VerifyInclusion and the dual proof together).
VerifiedCommitted ==
    epoch = 0 =>
        \A k \in ApiKeys : \A r \in verified[k] :
            r.spec \in Eh(r.header) /\ IsPrefix(r.header, ledger[k])

\* No step replaces a kept state by an earlier one or one of another history.
KeptOnlyGrows ==
    [][\A k \in ApiKeys : cache[k] # NoState =>
          IsPrefix(Digest(cache[k]), Digest(cache'[k]))]_vars

\* With a server key configured for all, only signed states are kept.
OnlySignedKept ==
    \A k \in ApiKeys :
        (/\ cache[k] # NoState
         /\ \A c \in Clients : HasPubKey[c]) => CheckSignature(cache[k])

\* No answer of a server that never answered wrongly and was never restored
\* is refused, whatever other writers commit between any two steps: verifyGet,
\* VerifySet and the signature checks are complete as well as sound.
HonestNeverRefused ==
    epoch = 0 /\ faults = 0 =>
        \A c \in Clients : outcome[c] \notin {"corrupted", "unsigned", "panic"}

\* Whoever holds the lock gives it back, whatever fails on the way.
LockReleased == \A c \in Clients : (lock = c) ~> (lock # c)

-----------------------------------------------------------------------------
(* Refinement of TrustedState: what is trusted under an API key is the     *)
(* state the holder of the lock has read, else the cached one.             *)

Trusted ==
    [k \in ApiKeys |->
        IF lock # NoClient /\ ApiKeyOf[lock] = k /\ state[lock] # NoState
        THEN Digest(state[lock])
        ELSE IF cache[k] = NoState THEN None ELSE Digest(cache[k])]

Abstract == INSTANCE TrustedState WITH trusted <- Trusted

\* The clients implement TrustedState.
ImplementsTrustedState == Abstract!Spec

=============================================================================
