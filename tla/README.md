# Verification of the ledger compliance Go client

The repository is a gRPC client (`src/grpcclient`) for a ledger compliance
server, which is backed by immudb.  What is its own is the *verified*
operations: each reads the ledger state the client trusts from a cache directory
that several processes may share, asks the server for an answer with proofs,
verifies them against the trusted state, and keeps the newer state.  Around them
are a connection that may be made, closed and made again under running calls, a
chain of interceptors, streams, and keys for a cache of answers.  This project
models all of these, checks them with TLC and proves the main results with
TLAPS.

## 1. Inventory

| Part | State | Operations | What makes it correct | Module |
|---|---|---|---|---|
| Verification of answers (`lc_api.go` verifyGet, VerifiedSet; `lc_streams_api.go`) | none: predicates over the trusted state and an answer | verify a read, verify a write, derive the new state | only entries of the ledger verify; every honest answer verifies; the new state extends the trusted one | `VerifyState` |
| Verified operations (same files) | local: state read, answer, new state | VCNGetArtifacts (Verify), VerifiedSet, VerifiedGet/At/Since, VerifiedGetExt/Since/At, VerifiedGetExtAtMulti, StreamVerifiedSet, StreamVerifiedGet | all results under an API key lie on one history; the kept state only grows, covers what was returned, and is signed when a key is configured; the lock is given back | `LcClient` |
| State service (`lc_state_service.go`, `lc_state_provider.go`) | cache directory: a state per API key and a lock | CacheLock, CacheUnlock, GetState, SetState | a state read under the lock stays the one in the cache | `LcClient` |
| Connection lifecycle (`lc_client.go`, `lc_uuid_provider.go`) | ClientConn, ServiceClient, StateService, signing key | NewLcClient, Connect, Disconnect, SetServerSigningPubKey | a call over a client that changes under it gives the lock back and returns | `Connection` |
| Interceptors (`signature_verifier_`, `connection_checker_`, `apikey_setter_interceptor.go`) | the configured key, connection, API key | wrap every RPC | CurrentState is checked before it is adopted; an RPC that ran is not reported otherwise; every attempt carries its credentials | `Connection` |
| Retries, keepalive (`lc_client.go`) | attempts of an RPC | repeat an RPC, notice a dead connection | an RPC ends unless its answer is waited for; no more runs than attempts | `Connection`, `Streams` |
| Unverified operations (`lc_api.go`) | none | forward one RPC | each reaches the method it names | `LcApi`, `LcService` |
| Service protocol (`schema/lc_grpc.pb.go`) | none | stubs, handlers, the default server | a stub and its handler agree | `LcService` |
| Stream framing (`lc_streams_api.go`) | readers and buffers | send key-values, receive until end of stream | what is sent is what is verified; a list is whole; a write is all or nothing | `Streams` |
| Request cache keys (`schema/cache.go`) | none | GetKey | requests under one key differ only in the fields the key leaves out | `CacheKeys` |
| Options (`lc_client_options.go`) | - | set a field of the client | - | `Connection`, those that change behaviour |
| Messages, logger, errors, examples | - | - | - | - |

Interaction: an operation calls the state service (a directory shared between
processes, so the lock is the only synchronisation), the state service calls the
server through CurrentState when the cache is empty, and every RPC passes the
interceptors.  Unverified operations bypass the lock and write to the same
ledger.  The goroutines that share an `LcClient` share its fields, which its
owner assigns without a lock that calls would take.

Hard behaviour: clients interleave over one directory; a call is a sequence of
a lock, two file operations and a remote call, each of which may fail or be the
last one before a crash; other writers commit at any moment; the server may
answer wrongly, retry a committed write, or be restored from a backup and grow
a different history; the operations differ in the order of keeping and
checking.  A call reads the client's fields again and again, so that one call may
see two state services, or a stub of a connection that was closed; a retry
repeats what may have run; a stream may end between any two messages.
`PROJECT.json` lists each hazard with its line.

## 2. Modules

| Module | Role |
|---|---|
| `ImmuLedger` | External notions of immudb: entries, transactions, histories, inclusion and dual proofs, signed states |
| `VerifyState` | What the client accepts (`VerifyGet`, `VerifySet`) and trusts next (`GetNewState`, `SetNewState`) |
| `LcServer` | External: the answers of a server that works as it should |
| `LcClient` | Clients, cache, lock, server, faults: the verified operations step by step |
| `TrustedState` | Abstract specification: one trusted history per API key |
| `LcService` | Tables of the protocol: stubs, handlers, the default server, the descriptor |
| `LcApi` | The operations: the RPC each makes and its phases around it |
| `Connection` | One client shared by goroutines, its connection and its interceptors |
| `Streams` | One streamed call, message by message |
| `CacheKeys` | GetKey and a cache under its keys |
| `MCLcClient`, `MCConnection`, `MCStreams`, `MCCacheKeys` | Instances for TLC |
| `LedgerProofs` | Lemmas about prefixes, about what `VerifyGet` and `VerifySet` accept, and that they accept `LcServer`'s answers |
| `LcClientProofs` | Type correctness and the control invariant of `LcClient` |
| `TrustProofs` | The fresh snapshot, the refinement of `TrustedState`, one history, a covering and growing cache |
| `CommittedProofs` | Only signed states are kept; what is verified is committed; right answers are believed |
| `ConnectionProofs` | Type correctness of `Connection`, and the lock that is given back |
| `ChainProofs` | The credentials of every attempt, the check of the first state, results that are true |
| `StreamsProofs` | The streamed call: whole lists, whole writes, whole entries |
| `CacheKeysProofs` | What a key tells of its request |

`VerifyState` EXTENDS `ImmuLedger`, `LcServer` EXTENDS `VerifyState`, `LcClient`
EXTENDS `LcServer` and INSTANCEs `TrustedState` with
`trusted <- Trusted`.  `LcApi` EXTENDS `LcService`; `Connection` and `Streams`
both EXTEND `LcApi` and look at the same operations from two sides.

The three state machines divide the work.  `LcClient` has several clients, each
making one call at a time, the data and the cache; an RPC is one step there.
`Connection` has the goroutines of one client and takes an RPC apart, without the
data: an operation is its sequence of phases, and whether a verification succeeds
is a choice.  `Streams` takes a streamed RPC apart.  A call of `LcClient` is a
call of `Connection` that sees no change of the client's fields.

### How LcClient corresponds to the code

`pc[c]` is where client `c` is in an operation; the steps are the calls that
can fail, block, or be seen by others:

| Step (`pc`) | Actions | Code |
|---|---|---|
| `idle` | `Begin` | the exported method; the early return of StreamVerifiedSet |
| `lock` | `CacheLock`, `CacheLockFails` | `StateService.CacheLock()` |
| `getState` | `GetStateHit`, `GetStateMiss`, `GetStateFails` | `StateService.GetState`, the interceptor's check on a miss |
| `cacheState` | `CacheState`, `GetStateFails` | the write of the state adopted on a miss |
| `rpc` | `Serve`, `RpcFails`, `Retry` | the call of `ServiceClient`, its commit or read at the server |
| `answered` | `Receive`, `ServeWrongly`, `RpcFails`, `Retry` | the answer on its way; item counts, full key |
| `verify` | `VerifyRead`, `VerifyWrite`, `PartMissing`, `SkipItem`, `AllVerified` | verifyGet or its copies; one iteration per item |
| `setState` | `SetState`, `SetStateFails` | `StateService.SetState` |
| `checkSignature` | `CheckNewState` | `newState.CheckSignature` |
| `unlock` | `Return` | the deferred `CacheUnlock`, the return |

The differences between the operations are definitions: `CheckFirst` (VerifiedSet
and the streamed ones check before they keep, the others after), `DbOf` (the
name in the state that is checked), `ProveSinceTx` (StreamVerifiedGet sends its
caller's), `AnsweredKeys` and `OtherArtifact` (VCNGetArtifacts asks by hash),
`Items` (a multi read loops).

A digest is what it digests, so a transaction's accumulative hash is the history
up to it, an entries hash is the set of entries, and a header ends its history.
`epoch` tells apart transactions with equal content on diverging histories.
`Write` is every commit that no verified operation makes; `Restore` takes the
ledger back to an earlier length; `ServeWrongly` replaces an answer by one of
`Garbled`; `Crash` ends a process at any step: the lock is one on a file and
goes with it.  An answer that is not of the reply's type does not reach the client
(`Deliver`); one of that type with a message left out of it, which the verification
dereferences, is a panic (`PartMissing`).  Transactions are numbered from 1.

### How Connection corresponds to the code

`options` is what NewLcClient made of its setters, `clientConn`, `service` and
`stateService` are the three fields of the client; each holds the number of the
connection it was made for, `Injected` for one the caller passed as an option, or
`Nil`.  `call[p]` is the call of a goroutine, with the phases it still has
to go through (`todo`), the state service its lock was taken on (`lockOn`) and the
one its deferred unlock is bound to (`unlockOn`), and its RPC: the method, the
connection, the place in the chain of interceptors, the attempts, the
credentials, the result.

| Phase | Actions | Code |
|---|---|---|
| `lock`, `acquire`, `defer` | `CacheLock`, `Acquire`, `DeferUnlock` | the first lines of a verified operation, three reads of `c.StateService` |
| `state` | `GetState`, `StateAnswered` | `GetState`, with the RPC CurrentState when nothing is cached |
| `rpc` | `CallService`, `ServiceAnswered` | the call of `c.ServiceClient`, verification of its answer |
| `keep` | `SetState` | `c.StateService.SetState` |
| `key`, `check` | `LookForKey`, `CheckSignature` | `if c.serverSigningPubKey != nil`, and the use of the key in it |
| `dial`, `stubs`, `health` | `Dial`, `MakeStubs`, `AskUuid`, `NewLcStateService` | Connect |
| `close` | `Disconnect`, `CloseConn` | Disconnect |

The way of an RPC is `EnterVerifier`, `CheckConnection`, `SetApiKey`, `EnterRetry`,
`Send`, `Receive`, `Retry`, `LeaveVerifier` and `VerifyReply`, in the order of
`UnaryChain` or `StreamChain` as NewLcClient passes them to grpc.  An RPC over an
injected connection has no interceptors of the client's.  `Send` takes the method
through the stub, path and handler tables of `LcService`: what the server runs is
what `Answering` says, so that a stub wired to another path would show in
`ResultTruthful`.  A nil field is a panic, which is an outcome of its own and runs
the deferred unlock, as Go does.

### How Streams corresponds to the code

An entry is `Parts(op)` messages.  `contents` are the readers the caller passed,
with the size it announced and the bytes they have; `collected` is what
StreamVerifiedSet has read of them for its verification.  `Collect` is its loop,
`SendMessage`, `CloseSend` and `RecvAnswer` are the sending operations,
`ReadMessage` and `ReadEnd` the receiving ones; `Open` and `Retry` are the retry
interceptor.  The server sends or receives a message at a time, may end a stream
before the last (`cut`), commits what has come only after the client has closed
its side, and may fail at any point, with or without loss of what is in flight.

### How CacheKeys corresponds to the code

`GetKey` is the three methods of `schema/cache.go`.  A text is the sequence of its
lines, as GetKey joins pieces with line breaks; the digest is injective.  The cache
itself is external: the repository has the keys only.  The keys leave fields out that
change the answer: UID, SignerID and Verify of a request for artifacts, ContinuationToken
of a search, SignerID of a request for labels.  A cache under these keys does answer a
request for one UID, or one signer, with the artifacts of another, unless its caller puts
them into the prefixes; the properties name these fields as what may differ and
exclude every other difference.

## 3. Runs

The runs of `LcClient` have two clients with one API key over one cache
directory and one ledger: the smallest system in which a state can be stale, a
cache overwritten and a history diverge.

| Run | What it has | Shows |
|---|---|---|
| `single` | VerifiedGet, VerifiedGetExt at 1, VerifiedSet; 3 transactions, a wrong answer, a restore, a retry | `TypeOK`, `SnapshotFresh`, `KeptCoversVerified`, `VerifiedOnOneHistory`, `KeptOnlyGrows`, `ImplementsTrustedState` |
| `artifacts` | VCNGetArtifacts, a read through a reference, StreamVerifiedSet of two pairs; 2 transactions | `VerifiedCommitted`, `HonestNeverRefused` |
| `streams` | StreamVerifiedGet with ProveSinceTx 1 and 2, VerifiedSet, a server key and a server that may not sign | `KeptCoversVerified`, `VerifiedCommitted`, `OnlySignedKept`, `KeptOnlyGrows` |
| `multi` | VerifiedGetExtAtMulti of a key at its latest transaction and at 1, VerifiedGet, VCNGetArtifacts; a server key, and a server that signs in the name those check; a retry, fairness | `SnapshotFresh`, `HonestNeverRefused`, `ImplementsTrustedState`, `LockReleased` |
| `multi_forgets` | the multi read and VerifiedGet, 3 transactions | violates `KeptCoversVerified` |
| `unsigned_kept` | the calls of `multi`, a server key | violates `OnlySignedKept` |
| `stream_refused` | StreamVerifiedGet without ProveSinceTx, VerifiedSet | violates `HonestNeverRefused` |
| `connection` | a goroutine that calls VerifiedGet, one that calls StreamScan, an owner; three sets of options; fairness | `TypeOK`, `ResultTruthful`, `AdoptedChecked`, `EveryAttemptKeyed`, `LockGivenBack`, `CallsReturn` |
| `not_connected` | a goroutine that calls every kind of operation | violates `DisconnectedReported` |
| `framing` | every streamed operation over no, one and two entries, whole and short, without retries and with two attempts; fairness | `TypeOK`, `ScanWhole`, `AllOrNothing`, `VerifiedIsWhole`, `StreamsReturn` |
| `short_read` | StreamVerifiedSet of whole contents | violates `PutBackWhole` |
| `cachekeys` | requests for artifacts that differ in any fields, searches that differ in up to four, labels of two signers; empty, plain and two-line texts | `ArtifactsHitIsOwn`, `SearchHitIsOwn`, `LabelsHitIsOwn` |

`single` and `streams` have some 700,000 states each, `artifacts` 1.5 million, `multi`
200,000, `connection` 250,000, `framing` 3,000 and `cachekeys` 3,000; every run that passes
searches its state space whole.

Bounds of `LcClient`.  `MaxTx = 3` gives a trusted transaction, one before and one after it,
so that reads move backward, stay and move forward; the runs with 2 have none
between.  `MaxRestores = 1` with up to 3 transactions lets a history lose its
tail and grow another of the same length.  `MaxFaults = 1` is one wrong answer in a
behaviour.  `MaxRetries = 1` (`single`, `streams`, `multi`) lets a write be
committed twice by one call.  The wrong answers are another value, a proof of another transaction or
from another start, a transaction with other entries, a list cut short, and an answer
without one of its messages.  The keys are
two, as many as a reference needs.

Bounds of `Connection`.  `MaxConns = 2` is the injected connection and one that is
dialled: it comes, and goes, at any moment of calls that began on the injected one or
on none; that a state service is replaced under a call (`swapped`) is reached with the
options that inject one.  A
second dialled connection is left to the proofs, which have no bound.
`MaxKeySets = 1` removes the key, or sets it, once.  Two attempts are the smallest number
with which something is retried.

Bounds of `Streams`.  Two entries are the fewest with something after an entry that
was taken, contents of two bytes the smallest of which a part can be read, a window
of two messages (`MaxWire`) makes sender and receiver wait for one another, as entries
have up to five.  `MaxCached = 1` in `cachekeys`: a collision is of two requests.

Fairness.  In `multi` each client's own steps from `getState` to `unlock` are
weakly fair.  The code takes them one after the other and waits for nothing but
the server.  The keepalive parameters of `NewLcClient` (`lc_client.go:167-175`) make a dead
transport an error, which is `RpcFails`; that a server behind a live one answers, if only
with an error, is an assumption about the server, as calls have no deadline of
their own; `Retry` is bounded by the retry
options.  Nothing is assumed of applications calling, of taking the lock, of
other writers, restores, wrong answers and crashes.  In `connection` goroutines are
scheduled, and what is `Answerable` is answered: an attempt over a connection that was
closed, or over one the client dialled (`lc_client.go:208`) with the keepalive parameters, under
the same assumption about the server.  An attempt over an injected connection, or one dialled
with options of the caller's (`DialOptions` replaces the default ones), may wait for ever:
`CallsReturn` has it as one of the two places where a call can stay, the lock being the
other.  Nothing is assumed of the owner, nor of the lock being had.  In `framing` the client
is scheduled and the server does something about a stream it serves, if only fail,
which again is an assumption about the server and the transport.

### What the violated runs show

* `multi_forgets`: verifiedGetExtMulti keeps the state of each item in turn, so the
  last one stays, even if an earlier item was verified in a later transaction.
  What was returned as verified is then no longer protected by the cache.
* `unsigned_kept`: verifiedGet, verifiedGetExt, verifiedGetExtMulti and
  VCNGetArtifacts keep the new state before its signature is checked.
* `stream_refused`: StreamVerifiedGet sends the caller's ProveSinceTx and checks
  against the cached one; called as in `examples/streams/main.go`, a right answer
  is reported as corrupted data once another transaction is in between.
* `not_connected`: every operation calls a method of `c.ServiceClient`, nil before
  Connect and after Disconnect, and panics before the connection checker could answer
  "not connected"; the checker's error reaches only a call that read the field
  before it was cleared.
* `short_read`: StreamVerifiedSet reads each content with a single Read and puts back
  what that returned, so a reader that returns less than it has makes the
  write fail.  `VerifiedIsWhole` shows that it never makes a wrong one verify.

What `connection` tells beside its properties: a call whose state service is replaced
between its lock and its defer leaves the old lock held (`LockGivenBack` names exactly
this case), and a key removed between the test and the use of it is a panic.

## 4. Proofs

The theorems about `LcClient` are for any finite or infinite sets of clients, API
keys, keys and values, any calls, foreign writes and wrong answers, and any bounds;
those about `Connection` for any goroutines, operations, options and bounds, those about
`Streams` for any contents, limits of retries and windows, and those about `CacheKeys` for
any requests and any prefixes of a caller.  Every invariant that a passing run checks
is a theorem.

* `LcClientProofs!TypeCorrect`: `Spec => []TypeOK`, from the inductive
  `Control`, which adds to the types a `Shape` of each client: which variables are
  set at which step, and that a client between lock and unlock is the lock's
  holder.  Without it the type of `newState` at `setState` cannot be kept.
* `TrustProofs!SnapshotIsFresh`: `Spec => []SnapshotFresh`, from
  `Inv == Control /\ Trust`, where `Trust` relates a call's state, new state and
  accepted results to the cache.
* `TrustProofs!Refinement`: `Spec => ImplementsTrustedState`.  The refinement
  mapping takes the state read by the holder of the lock as the trusted one and
  the cached one otherwise: the states a multi read keeps in between are no step
  of `TrustedState`, and at the end of the call, or at a crash within it, the
  trusted history moves once, to one that extends it.
* `TrustProofs!KeptCovers`, `!OneHistory`, `!KeptGrows`: for calls of a
  single item (`SingleItems`) the cache covers all that was returned as verified
  and only grows; as all results are prefixes of what is kept, they lie on one
  history.  `SingleItems` is necessary: `multi_forgets` refutes `KeptCoversVerified`
  without it.
* `CommittedProofs!SignedOnly`: `Spec => []OnlySignedKept`, for operations that check
  a new state before they keep it (`ChecksFirst`); `Passed` adds to `Control` that
  a state on its way to the cache has been checked.  `ChecksFirst` is necessary:
  `unsigned_kept` refutes the property without it.
* `CommittedProofs!VerifiedIsCommitted`: `Spec => []VerifiedCommitted`.  `Genuine` says of all
  a client holds (its state, its new state, the headers of the answer in hand that have
  entries, the accepted results) and of the cache that it is a prefix of the ledger, as long as
  that was never restored; a header that is proven to contain an entry has entries, so
  what is accepted is in the ledger.  The hypothesis is `Unforged`: a wrong answer shows, of
  transactions with entries, only such as the right one shows.  It cannot be dropped, as a client
  takes the server's word for transactions past the last one it has seen, and for all of them
  at first contact; the wrong answers of the runs have it (another value, a proof of
  another transaction or from another start, a transaction without its entries, a short list).
* `CommittedProofs!HonestBelieved`: `Spec => []HonestNeverRefused`.  `LedgerProofs` has the
  completeness of the checks: an answer read off the ledger (`ReadComplete`), one that
  commits (`WriteComplete`) and a current state (`CurrentComplete`) verify against any earlier
  state of the same ledger.  `HonestInv` carries this from `Serve` to `VerifyRead` and
  `VerifyWrite`: `RightAt` is that the answer in hand would verify item by item, and lead to a
  state on the ledger with a good signature.  A multi read needs that for the state of each item,
  and all of them that the ledger may have grown since (`RightGrows`).  The hypotheses are
  `Provable`, no StreamVerifiedGet, which asks for a proof from another transaction than it
  verifies against (`stream_refused` refutes the property with it), and no key written twice
  in one call; and `NamesFit`, that with a server key the server signs in the name the
  operation checks, `ApiKey` for some operations and `ApiKeyHash` for others.  No
  server does so for both kinds of operation; `multi` has the reads, with a key.
* `ConnectionProofs!TypeCorrect`: `Spec => []TypeOK`, and `!LocksGivenBack`:
  `Spec => []LockGivenBack`, both from the inductive `Control`.  It is `Fields` (types), a
  `Shaped` of each process and a `Held` of each goroutine.  `Shaped` says that the phases left
  are in order, that an RPC is under way only in a phase that makes one, within its
  chain and over a connection that was made: without the order, the type of `todo` after
  a key is not found, two phases on, cannot be kept.  `Held` is the chain of facts behind the lock:
  unless it was swapped, a goroutine at `acquire` has locked on the present state service,
  the holder at `defer` too, and from then on `unlockOn = lockOn`, so that whatever ends the
  call, a panic too, frees the lock.  One lemma (`PhaseKeeps`) covers the actions that return,
  go on or begin an RPC, another (`RpcKeeps`) those of the interceptors.
* `ChainProofs!AttemptsKeyed`: `Spec => []EveryAttemptKeyed`, from `Chained`, which adds to
  `Control` a `Way` of each RPC: one that is beyond the setter has the credentials, and one
  that is sent is beyond its whole chain.  Attempts go back to the retry, which is inside the
  setter, so they keep what the first one got.  A stream without a key is not claimed to carry
its metadata: the code does not send it.
* `ChainProofs!FirstStateChecked`: `Spec => []AdoptedChecked`, from `Trusting`.  `Way` also says
  that CurrentState is done well only if checked, the verifier being first in the chain; but
  this holds of a connection the client dialled, so `Trusting` follows what the owner makes:
  after the dial `clientConn`, after the stubs `service`, with the UUID `stateService` is not
  a caller's own (`OwnerDials`), and the RPC of a goroutine goes over the one it read
  (`AsksState`).  `Fate` says what any step does to any RPC, and serves both theorems.
* `ChainProofs!ResultsTruthful`: `Spec => []ResultTruthful`, from `Counting`.  `Counted` adds to
  `Control` that an operation calls the service once (`CallsOnce`), that its method has run no
  more often than its RPC was tried while it is trying, and at least once afterwards, and
  `Tried`, that a second attempt has the consent of the retry interceptor and that what the checker
  refuses has not been tried: the checker is outside the retry.
* `StreamsProofs!TypeCorrect`, `!ScansWhole`, `!WritesAtomic`, `!VerifiesWhole`, all from
  `Streamed`: `Counts` and `Contained` are numbers and what is left of the contents,
  `Reading` ties what the client has taken to what the server has sent and to how the stream
  ended, `Writing` what was sent to what is committed (a stream is closed
  only after its last message, and only a closed one is committed), and `Collecting` says that an
  entry that was sent by StreamVerifiedSet was whole, as the content put back has the length of
  what was read.
* `CacheKeysProofs!ArtifactsOwn`, `!SearchOwn`, `!LabelsOwn`, from `CacheInv`: what is cached is
  under its own key, and a hit has the key of what was asked.  How far equal keys
  mean equal requests, up to the fields the keys leave out, is a lemma each.  Pieces of one line each joined give the sequence of
  their lines (`FlattenLines`, by the least index at which they differ, in place of
  an induction), so they can be told from it (`JoinTellsPieces`), and prefixes of one length split off.
  No pieces at all and one empty piece give the same key (`JoinOfNothing`), which is why
  `LabelsOwn` is about hashes that are not empty.
* `LedgerProofs`: `GetOnBranch`, `GetIncluded`, `SetExtends` and `SetIncluded` say
  what `VerifyGet` and `VerifySet` guarantee of any answer.

Assumptions: those named in `LcServer` and `LcClient` (`FullKeysAssumption`,
`ClientAssumption`, `CallAssumption`, `ServerAssumption`, `BoundAssumption`), in
`Connection` (`ConnectionAssumption`, and `SettersAssumption`: NewLcClient makes options of
their type, which needs an induction over its setters; and `CurrentStateIsUnary`, as the
prover cannot expand the table of the streams), in `LcService` and `LcApi`
(`StubsReachTheirMethods`, `OperationsHaveStubs`), in `Streams` (`StreamsAssumption`: no message
is announced shorter than it is; and `StreamVerifiedSetSends`, `ListsAreReads`: the kind of a
stream, again from the table) and in `CacheKeys` (`CacheKeysAssumption`: the prefixes of one caller
have one length and a line each; `PrintingAssumption`: what `%d` and `%t` print of different values
differs).  They say that constants have their types and that the tables fit, and are evaluated in
every run; beside them the model's injective hashing, and that an answer is of the reply's type.
The hypotheses of single theorems (`SingleItems`, `ChecksFirst`, `Unforged`, `Provable`, `NamesFit`)
are about the calls made and the server, and are given with each.

Model-checked only: the liveness properties `LockReleased`, `CallsReturn` and `StreamsReturn`, which
are out of the prover's reach, and the five violations.

## 5. Not modelled

Digest formats and header versions; SinceTx, which only makes the server wait for its
index; answers with a transaction numbered 0; UUIDs and the per-server part of the
cache; back-off of retries; the chunks a message is made of, which are immudb's; the
generated accessors and descriptors of messages, which are payloads here, and the
generated code that wraps a grpc stream into typed Send and Recv; options that set a
value for use elsewhere (directory, host, port, timestamps, logger); logging, errors and
the examples, which are the source of `ExampleCalls`.  For an entry behind a reference the
proof covers the reference, so a model's result is the reference and not the value behind it.
What a server answers to an unverified operation is passed on and is no state of the client.

## 6. Plan

Done: the verified operations with their refinement; the connection, the interceptors and the
tables of the protocol; streams; cache keys; proofs of all invariants.

Left:

1. Answers with transaction 0 and empty lists as inputs of `VerifyState`.
2. Two API keys in one directory: the proofs are for any number, the runs have one.
3. A request shared by two goroutines (`ProveSinceTx` is written into it).
