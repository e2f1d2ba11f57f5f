---------------------------- MODULE Connection -----------------------------
(***************************************************************************)
(* One LcClient shared by threads that call its operations while its owner *)
(* connects, disconnects and changes the server's key: the fields of the   *)
(* client that calls read again and again, the chain of interceptors every *)
(* RPC goes down and comes back through, and the lock of the cache.        *)
(***************************************************************************)
EXTENDS LcApi, SequencesExt, FiniteSetsExt

CONSTANTS
    Threads,      \* goroutines that call operations
    Owner,        \* the goroutine that connects and disconnects
    Ops,          \* Ops[t]: the operations thread t calls
    Setters,      \* lists of options the client may be made with
    Implemented,  \* the methods the server has
    MaxConns,     \* bound: connections, the injected one counted
    MaxKeySets,   \* bound: calls of SetServerSigningPubKey
    NoOne

ASSUME ConnectionAssumption ==
    /\ Owner \notin Threads
    /\ NoOne \notin Threads \cup {Owner}
    /\ Ops \in [Threads -> SUBSET DOMAIN RpcOf]
    /\ Implemented \subseteq Methods
    /\ MaxConns \in Nat \ {0}
    /\ MaxKeySets \in Nat

VARIABLES
    options,       \* what NewLcClient made of its options
    conns,         \* the last connection dialled
    open,          \* the connections that are open
    clientConn,    \* the fields of the client: a connection, or the one that
    service,       \*   the stubs or the state service were made for, or Nil
    stateService,
    pubKey,        \* a server key is set
    keySets,
    lock,          \* the thread that holds the lock of the cache directory
    adopted,       \* how the cached state was first got
    swapped,       \* threads whose state service was replaced while they locked
    call           \* the call of each process

fields == <<clientConn, service, stateService>>
net == <<options, conns, open>>
keys == <<pubKey, keySets>>
vars == <<net, fields, keys, lock, adopted, swapped, call>>

Processes == Threads \cup {Owner}
Nil == 0
Injected == 1  \* the connection a caller made itself and passed as an option

-----------------------------------------------------------------------------
(* Construction.                                                           *)

DefaultOptions ==
    [apiKey |-> FALSE, metadata |-> FALSE, keepalive |-> TRUE, attempts |-> 0, key |-> FALSE,
     clientConn |-> Nil, service |-> Nil, stateService |-> Nil]

\* DialOptions replaces the default dial options, keepalive among them.
ApiKey == [field |-> "apiKey", value |-> TRUE]
MetadataPairs == [field |-> "metadata", value |-> TRUE]
DialOptions == [field |-> "keepalive", value |-> FALSE]
RetryOptions(n) == [field |-> "attempts", value |-> n]
ClientConn == [field |-> "clientConn", value |-> Injected]
ServiceClient == [field |-> "service", value |-> Injected]
StateService == [field |-> "stateService", value |-> Injected]
ServerSigningPubKey == [field |-> "key", value |-> TRUE]

NewLcClient(setters) ==
    FoldLeft(LAMBDA c, s : [c EXCEPT ![s.field] = s.value], DefaultOptions, setters)

\* Mutants of the chains: the checker inside the retries, a stream without key.
UnaryChainCheckInside ==
    (IF options.key THEN <<"SignatureVerifier">> ELSE <<>>)
    \o <<"Retry", "ConnectionChecker", "ApiKeySetter">>

StreamChainWithoutKey == <<"Retry">>

\* The interceptors of a connection the client dials, outermost first; the
\* verifier is among them only when the key was an option.
UnaryChain ==
    IF options.key THEN <<"SignatureVerifier", "ConnectionChecker", "ApiKeySetter", "Retry">>
                   ELSE <<"ConnectionChecker", "ApiKeySetter", "Retry">>

StreamChain == <<"ApiKeySetter", "Retry">>

IsStream(method) == method \in DOMAIN StreamStubs

\* The RPC whose reply the verifier checks goes down the unary chain.
ASSUME CurrentStateIsUnary == ~IsStream("CurrentState")

\* An injected connection was dialled without them.
Chain(rpc) ==
    IF rpc.via = Injected THEN <<>>
    ELSE IF IsStream(rpc.method) THEN StreamChain ELSE UnaryChain

OptionsType ==
    [apiKey : BOOLEAN, metadata : BOOLEAN, keepalive : BOOLEAN, attempts : Nat, key : BOOLEAN,
     clientConn : {Nil, Injected}, service : {Nil, Injected}, stateService : {Nil, Injected}]

\* An option sets a field to a value of its type.
ASSUME SettersAssumption == \A s \in Setters : NewLcClient(s) \in OptionsType

-----------------------------------------------------------------------------
(* Calls.                                                                  *)

NoRpc == [method |-> "none", via |-> Nil, stage |-> "none", at |-> 0, attempts |-> 0,
          carries |-> {}, checked |-> FALSE, result |-> "none"]

Rpc(method, via) == [NoRpc EXCEPT !.method = method, !.via = via, !.stage = "in", !.at = 1]

Started(op, todo) ==
    [op |-> op, todo |-> todo, lockOn |-> Nil, unlockOn |-> Nil, rpc |-> NoRpc,
     ran |-> 0, outcome |-> "none"]

Init ==
    /\ options \in {NewLcClient(s) : s \in Setters}
    /\ conns = Injected
    /\ open = {Injected}
    /\ clientConn = options.clientConn
    /\ service = options.service
    /\ stateService = options.stateService
    /\ pubKey = options.key
    /\ keySets = 0
    /\ lock = NoOne
    /\ adopted = "none"
    /\ swapped = {}
    /\ call = [p \in Processes |-> Started("none", <<>>)]

Idle(p) == call[p].todo = <<>>

\* Process p is at a phase of its call, outside any RPC.
At(p, phase) == ~Idle(p) /\ Head(call[p].todo) = phase /\ call[p].rpc.stage = "none"

\* Mutant of Return: the release is not deferred, only success reaches it.
ReturnUnlocksSuccess(p, outcome) ==
    /\ call' = [call EXCEPT ![p] = [Started("none", <<>>) EXCEPT !.ran = call[p].ran,
                                                                !.outcome = outcome]]
    /\ lock' = IF lock = p /\ outcome = "ok" THEN NoOne ELSE lock

\* The call ends.  The deferred release was bound to the state service of the
\* time of the defer, and frees only the lock that service took.
Return(p, outcome) ==
    /\ call' = [call EXCEPT ![p] = [Started("none", <<>>) EXCEPT !.ran = call[p].ran,
                                                                !.outcome = outcome]]
    /\ lock' = IF lock = p /\ call[p].unlockOn # Nil /\ call[p].unlockOn = call[p].lockOn
               THEN NoOne ELSE lock

\* The call goes on after its next n phases, its record changed to c, or is done.
Advance(p, c, n) ==
    IF Len(c.todo) = n THEN Return(p, "ok")
    ELSE call' = [call EXCEPT ![p] = [c EXCEPT !.todo = SubSeq(@, n + 1, Len(@)), !.rpc = NoRpc]]
         /\ UNCHANGED lock

\* A call that is refused for its arguments before it does anything is no call here.
Begin(t, op) ==
    /\ Idle(t)
    /\ call' = [call EXCEPT ![t] = Started(op, Phases(op))]
    /\ UNCHANGED <<net, fields, keys, lock, adopted, swapped>>

\* c.StateService is read, then its CacheLock waits for the directory.
CacheLock(t) ==
    /\ At(t, "lock")
    /\ IF stateService = Nil
       THEN Return(t, "panic") /\ UNCHANGED swapped
       ELSE /\ Advance(t, [call[t] EXCEPT !.lockOn = stateService], 1)
            /\ swapped' = IF lock = t THEN swapped ELSE swapped \ {t}
    /\ UNCHANGED <<net, fields, keys, adopted>>

\* The lock is had, or the service fails to take it.
Acquire(t) ==
    /\ At(t, "acquire")
    /\ \/ /\ lock = NoOne
          /\ lock' = t
          /\ call' = [call EXCEPT ![t].todo = Tail(@)]
       \/ Return(t, "final")
    /\ UNCHANGED <<net, fields, keys, adopted, swapped>>

\* defer c.StateService.CacheUnlock() reads the field a second time.
DeferUnlock(t) ==
    /\ At(t, "defer")
    /\ IF stateService = Nil THEN Return(t, "panic")
       ELSE Advance(t, [call[t] EXCEPT !.unlockOn = stateService], 1)
    /\ UNCHANGED <<net, fields, keys, adopted, swapped>>

\* A third read.  The service may fail, one that is not locked in any case.
GetState(t) ==
    /\ At(t, "state")
    /\ \/ stateService = Nil /\ Return(t, "panic")
       \/ stateService # Nil /\ Return(t, "final")
       \/ stateService # Nil /\ adopted # "none" /\ Advance(t, call[t], 1)
       \/ /\ stateService # Nil
          /\ adopted = "none"
          /\ call' = [call EXCEPT ![t].rpc = Rpc("CurrentState", stateService)]
          /\ UNCHANGED lock
    /\ UNCHANGED <<net, fields, keys, adopted, swapped>>

\* An RPC of p, made in this phase, has come back through all interceptors.
Answered(p, phase) == ~Idle(p) /\ Head(call[p].todo) = phase /\ call[p].rpc.stage = "done"

StateAnswered(t) ==
    /\ Answered(t, "state")
    /\ IF call[t].rpc.result = "ok"
       THEN /\ adopted' = IF call[t].rpc.checked THEN "checked" ELSE "unchecked"
            /\ Advance(t, call[t], 1)
       ELSE Return(t, call[t].rpc.result) /\ UNCHANGED adopted
    /\ UNCHANGED <<net, fields, keys, swapped>>

\* The method of a nil ServiceClient: a panic before any interceptor.
\* StreamVerifiedSet may have failed to read the contents it is to send.
CallService(t) ==
    /\ At(t, "rpc")
    /\ \/ service = Nil /\ Return(t, "panic")
       \/ call[t].op = "StreamVerifiedSet" /\ Return(t, "final")
       \/ /\ service # Nil
          /\ call' = [call EXCEPT ![t].rpc = Rpc(RpcOf[call[t].op], service)]
          /\ UNCHANGED lock
    /\ UNCHANGED <<net, fields, keys, adopted, swapped>>

\* An operation that verifies may refuse the answer (LcClient says when), one
\* that writes a file may fail to.
ServiceAnswered(t) ==
    /\ Answered(t, "rpc")
    /\ \/ call[t].rpc.result = "ok" /\ Advance(t, call[t], 1)
       \/ /\ call[t].rpc.result = "ok"
          /\ call[t].op \in DOMAIN KeepFirst \cup DOMAIN CheckFirst \cup {"GetFile"}
          /\ Return(t, "final")
       \/ call[t].rpc.result # "ok" /\ Return(t, call[t].rpc.result)
    /\ UNCHANGED <<net, fields, keys, adopted, swapped>>

SetState(t) ==
    /\ At(t, "keep")
    /\ \/ stateService = Nil /\ Return(t, "panic")
       \/ stateService # Nil /\ Return(t, "final")
       \/ stateService # Nil /\ Advance(t, call[t], 1)
    /\ UNCHANGED <<net, fields, keys, adopted, swapped>>

\* The key is looked for, and read again to check with; if it was removed in
\* between, CheckSignature gets nil.
LookForKey(t) ==
    /\ At(t, "key")
    /\ Advance(t, call[t], IF pubKey THEN 1 ELSE 2)
    /\ UNCHANGED <<net, fields, keys, adopted, swapped>>

CheckSignature(t) ==
    /\ At(t, "check")
    /\ \/ pubKey /\ Advance(t, call[t], 1)
       \/ ~pubKey /\ Return(t, "panic")
       \/ Return(t, "final")
    /\ UNCHANGED <<net, fields, keys, adopted, swapped>>

-----------------------------------------------------------------------------
(* The way of an RPC through the interceptors.                             *)

UpdateRpc(p, rpc) ==
    /\ call' = [call EXCEPT ![p].rpc = rpc]
    /\ UNCHANGED <<net, fields, keys, lock, adopted, swapped>>

\* Mutants of In and Out: every other interceptor is skipped; the outermost never returns.
InByTwo(rpc) == [rpc EXCEPT !.at = @ + 2]
OutStays(rpc) == [rpc EXCEPT !.stage = "out", !.at = IF @ > 1 THEN @ - 1 ELSE 1]

In(rpc) == [rpc EXCEPT !.at = @ + 1]

\* On the way out only the retry and the verifier do something; the others pass
\* the result on.
Out(rpc) ==
    LET ahead == {i \in 1..(rpc.at - 1) : Chain(rpc)[i] \in {"Retry", "SignatureVerifier"}}
    IN  IF ahead = {} THEN [rpc EXCEPT !.stage = "done", !.at = 0]
        ELSE [rpc EXCEPT !.stage = "out", !.at = Max(ahead)]

OutWith(rpc, result) == [Out(rpc) EXCEPT !.result = result]

\* The RPC is on its way in or out, at the interceptor with this name.
Before(rpc, stage, name) ==
    rpc.stage = stage /\ rpc.at \in DOMAIN Chain(rpc) /\ Chain(rpc)[rpc.at] = name

\* What is decided on the way in: an interceptor passes the call on or answers.
EnterVerifier(p) ==
    LET rpc == call[p].rpc
    IN  Before(rpc, "in", "SignatureVerifier") /\ UpdateRpc(p, In(rpc))

CheckConnection(p) ==
    LET rpc == call[p].rpc
    IN  /\ Before(rpc, "in", "ConnectionChecker")
        /\ UpdateRpc(p, IF clientConn = Nil \/ service = Nil
                        THEN OutWith(rpc, "notConnected") ELSE In(rpc))

\* The metadata of a stream goes only with an API key.
Credentials(rpc) ==
    {c \in {"apiKey", "metadata"} :
        /\ options[c]
        /\ c = "metadata" /\ IsStream(rpc.method) => options.apiKey}

SetApiKey(p) ==
    LET rpc == call[p].rpc
    IN  /\ Before(rpc, "in", "ApiKeySetter")
        /\ UpdateRpc(p, [In(rpc) EXCEPT !.carries = Credentials(rpc)])

\* The retry interceptor refuses to retry a stream the client sends on.
EnterRetry(p) ==
    LET rpc == call[p].rpc
    IN  /\ Before(rpc, "in", "Retry")
        /\ UpdateRpc(p, IF /\ options.attempts > 0
                           /\ IsStream(rpc.method)
                           /\ StreamStubs[rpc.method].kind # "server"
                        THEN OutWith(rpc, "final") ELSE In(rpc))

\* An attempt: sent on an open connection to a server that has the method, it
\* runs; or it is lost before it gets there.
Send(p) ==
    LET rpc == [call[p].rpc EXCEPT !.attempts = @ + 1]
        runs == Answering(Implemented, rpc.method)
    IN  /\ rpc.stage = "in"
        /\ rpc.at = Len(Chain(rpc)) + 1
        /\ \/ /\ rpc.via \in open
              /\ runs # "Unimplemented"
              /\ call' = [call EXCEPT ![p].rpc = [rpc EXCEPT !.stage = "sent"],
                                      ![p].ran = IF /\ Head(call[p].todo) = "rpc"
                                                    /\ runs = RpcOf[call[p].op]
                                                 THEN @ + 1 ELSE @]
           \/ /\ rpc.via \in open
              /\ call' = [call EXCEPT ![p].rpc = OutWith(rpc, "transient")]
           \/ /\ rpc.via \notin open \/ runs = "Unimplemented"
              /\ call' = [call EXCEPT ![p].rpc = OutWith(rpc, "final")]
        /\ UNCHANGED <<net, fields, keys, lock, adopted, swapped>>

\* The answer, the server's error or, for want of either, the connection's.
Receive(p) ==
    LET rpc == call[p].rpc
    IN  /\ rpc.stage = "sent"
        /\ \E result \in IF rpc.via \in open THEN {"ok", "transient", "final"} ELSE {"final"} :
              UpdateRpc(p, OutWith(rpc, result))

Retry(p) ==
    LET rpc == call[p].rpc
    IN  /\ Before(rpc, "out", "Retry")
        /\ UpdateRpc(p, IF rpc.result = "transient" /\ rpc.attempts < options.attempts
                        THEN [In(rpc) EXCEPT !.stage = "in"] ELSE Out(rpc))

\* Mutant of LeaveVerifier: without a key nothing is verified.
LeaveVerifierWithoutKey(p) ==
    LET rpc == call[p].rpc
    IN  /\ Before(rpc, "out", "SignatureVerifier")
        /\ UpdateRpc(p, IF pubKey /\ rpc.method = "CurrentState"
                        THEN [rpc EXCEPT !.stage = "verify"] ELSE Out(rpc))

\* The verifier looks for the key when the RPC is over, whatever it returned.
LeaveVerifier(p) ==
    LET rpc == call[p].rpc
    IN  /\ Before(rpc, "out", "SignatureVerifier")
        /\ UpdateRpc(p, IF ~pubKey THEN OutWith(rpc, "final")
                        ELSE IF rpc.method = "CurrentState" THEN [rpc EXCEPT !.stage = "verify"]
                        ELSE Out(rpc))

\* The reply of CurrentState is checked with the key of now; an RPC that failed
\* left an empty reply, which does not verify.
VerifyReply(p) ==
    LET rpc == call[p].rpc
    IN  /\ rpc.stage = "verify"
        /\ \/ /\ pubKey /\ rpc.result = "ok"
              /\ UpdateRpc(p, [Out(rpc) EXCEPT !.checked = TRUE])
           \/ UpdateRpc(p, OutWith(rpc, "final"))
           \/ /\ ~pubKey
              /\ Return(p, "panic")
              /\ UNCHANGED <<net, fields, keys, adopted, swapped>>

-----------------------------------------------------------------------------
(* The owner.                                                              *)

Connect ==
    /\ Idle(Owner)
    /\ conns < MaxConns
    /\ call' = [call EXCEPT ![Owner] = Started("Connect", <<"dial", "stubs", "health">>)]
    /\ UNCHANGED <<net, fields, keys, lock, adopted, swapped>>

Dial ==
    /\ At(Owner, "dial")
    /\ \/ /\ conns < MaxConns
          /\ conns' = conns + 1
          /\ open' = open \cup {conns + 1}
          /\ clientConn' = conns + 1
          /\ Advance(Owner, call[Owner], 1)
       \/ /\ clientConn' = Nil
          /\ Return(Owner, "final")
          /\ UNCHANGED <<conns, open>>
    /\ UNCHANGED <<options, service, stateService, keys, adopted, swapped>>

MakeStubs ==
    /\ At(Owner, "stubs")
    /\ service' = clientConn
    /\ Advance(Owner, call[Owner], 1)
    /\ UNCHANGED <<net, clientConn, stateService, keys, adopted, swapped>>

\* NewLcStateService asks the server for its UUID with a Health RPC.
AskUuid ==
    /\ At(Owner, "health")
    /\ call' = [call EXCEPT ![Owner].rpc = Rpc("Health", service)]
    /\ UNCHANGED <<net, fields, keys, lock, adopted, swapped>>

\* Without a UUID there is no state service, not even the one of before.
NewLcStateService ==
    /\ Answered(Owner, "health")
    /\ \/ /\ call[Owner].rpc.result = "ok"
          /\ stateService' = call[Owner].rpc.via
          /\ Advance(Owner, call[Owner], 1)
       \/ /\ stateService' = Nil
          /\ Return(Owner, "final")
    /\ swapped' = swapped \cup {t \in Threads : At(t, "acquire") \/ At(t, "defer")}
    /\ UNCHANGED <<net, clientConn, service, keys, adopted>>

Disconnect ==
    /\ Idle(Owner)
    /\ service' = Nil
    /\ call' = [call EXCEPT ![Owner] = Started("Disconnect", <<"close">>)]
    /\ UNCHANGED <<net, clientConn, stateService, keys, lock, adopted, swapped>>

\* ClientConn keeps the closed connection.
CloseConn ==
    /\ At(Owner, "close")
    /\ IF clientConn = Nil THEN Return(Owner, "panic")
       ELSE IF clientConn \in open THEN Return(Owner, "ok") ELSE Return(Owner, "final")
    /\ open' = open \ {clientConn}
    /\ UNCHANGED <<options, conns, fields, keys, adopted, swapped>>

SetServerSigningPubKey ==
    /\ keySets < MaxKeySets
    /\ keySets' = keySets + 1
    /\ pubKey' = ~pubKey
    /\ UNCHANGED <<net, fields, lock, adopted, swapped, call>>

-----------------------------------------------------------------------------

\* A step of an RPC that does not wait for the server.
Intercept(p) ==
    \/ EnterVerifier(p) \/ CheckConnection(p) \/ SetApiKey(p) \/ EnterRetry(p) \/ Send(p)
    \/ Retry(p) \/ LeaveVerifier(p) \/ VerifyReply(p)

\* A step of a call that has begun and holds the lock it needs.
Step(t) ==
    \/ CacheLock(t) \/ DeferUnlock(t) \/ GetState(t) \/ StateAnswered(t)
    \/ CallService(t) \/ ServiceAnswered(t) \/ SetState(t) \/ LookForKey(t)
    \/ CheckSignature(t) \/ Intercept(t)

OwnerStep ==
    \/ Dial \/ MakeStubs \/ AskUuid \/ NewLcStateService \/ CloseConn \/ Intercept(Owner)

Next ==
    \/ \E t \in Threads : Step(t) \/ Receive(t) \/ Acquire(t) \/ \E op \in Ops[t] : Begin(t, op)
    \/ OwnerStep \/ Receive(Owner)
    \/ Connect \/ Disconnect \/ SetServerSigningPubKey

Spec == Init /\ [][Next]_vars

\* An attempt that is sent comes to an end: the connection is closed, or it is one
\* the client dialled with keepalive, which notices that the transport is dead.  That
\* a server behind a live one answers at all is an assumption about the server.
\* Nothing ends an attempt over a connection of the caller's making, or one dialled
\* with dial options of the caller's.
Answerable(rpc) ==
    \/ rpc.via \notin open
    \/ options.keepalive /\ rpc.via # Injected

\* Threads are scheduled, and what is answerable is answered.  Nothing is assumed
\* of the owner, nor of the lock being had.
Fairness == \A t \in Threads : WF_vars(Step(t) \/ (Answerable(call[t].rpc) /\ Receive(t)))

FairSpec == Spec /\ Fairness

-----------------------------------------------------------------------------
(* Properties.                                                             *)

Results == {"ok", "notConnected", "transient", "final"}

RpcType ==
    [method : Methods \cup {"none"}, via : 0..MaxConns,
     stage : {"none", "in", "sent", "out", "verify", "done"},
     at : 0..5, attempts : Nat, carries : SUBSET {"apiKey", "metadata"},
     checked : BOOLEAN, result : Results \cup {"none"}]

\* Types; an RPC is never at more than one place beyond its chain.
TypeOK ==
    /\ conns \in Injected..MaxConns
    /\ open \subseteq Injected..conns
    /\ {clientConn, service, stateService} \subseteq 0..conns
    /\ pubKey \in BOOLEAN
    /\ keySets \in 0..MaxKeySets
    /\ lock \in Threads \cup {NoOne}
    /\ adopted \in {"none", "checked", "unchecked"}
    /\ swapped \subseteq Threads
    /\ \A p \in Processes :
          /\ call[p].rpc \in RpcType
          /\ call[p].rpc.at <= Len(Chain(call[p].rpc)) + 1
          /\ call[p].rpc.stage # "none" => ~Idle(p)
          /\ {call[p].lockOn, call[p].unlockOn} \subseteq 0..conns
          /\ call[p].outcome \in Results \cup {"none", "panic"}

\* What a caller is told is what happened: a call that succeeds has run on the
\* server, one told "not connected" has not, through retries and with the
\* connection changing under it; and it ran no more often than attempts are
\* allowed (connection_checker_interceptor.go, the chain of NewLcClient).
ResultTruthful ==
    \A t \in Threads : Idle(t) =>
        /\ call[t].outcome = "ok" => call[t].ran > 0
        /\ call[t].outcome = "notConnected" => call[t].ran = 0
        /\ call[t].ran > 1 => call[t].ran <= options.attempts

\* A client made with the server's key trusts no first state it has not checked,
\* even if the key is removed while the state is on its way
\* (signature_verifier_interceptor.go); a state service of the caller's own is
\* the caller's affair.
AdoptedChecked ==
    adopted = "unchecked" => ~options.key \/ options.stateService = Injected

\* Every attempt that reaches the server over a connection of the client's, a retry
\* too, has the API key and the metadata the client was given; one of a stream, if
\* there is a key: without, its metadata is not sent (apikey_setter_interceptor.go).
EveryAttemptKeyed ==
    \A p \in Processes :
        LET rpc == call[p].rpc
        IN  /\ rpc.stage = "sent"
            /\ rpc.via # Injected
            /\ options.apiKey \/ ~IsStream(rpc.method)
            => rpc.carries = {c \in {"apiKey", "metadata"} : options[c]}

\* A call that is over, by whatever error or panic, has given the lock back,
\* unless Connect replaced the state service between its lock and its defer
\* (lc_api.go, the first lines of each verified operation).
LockGivenBack ==
    \A t \in Threads : Idle(t) /\ lock = t => t \in swapped

\* A call comes to an end, through retries, reconnections and removed keys, or to the
\* lock, or waits for ever for the answer over an open connection that has not got the
\* client's keepalive (lc_client.go:167-175, 208).
Waits(t) == call[t].rpc.stage = "sent" /\ ~Answerable(call[t].rpc)

CallsReturn ==
    \A t \in Threads : ~Idle(t) ~> Idle(t) \/ At(t, "acquire") \/ []Waits(t)

\* An operation on a client that is not connected says so, as the checker's
\* "not connected" has it; the code panics.
DisconnectedReported == \A t \in Threads : call[t].outcome # "panic"

=============================================================================
