-------------------------- MODULE ConnectionProofs --------------------------
(***************************************************************************)
(* The control of Connection for any number of goroutines, any options and *)
(* any bounds: every call is where its interceptors and phases allow it to *)
(* be, and the lock of the cache is given back.                            *)
(***************************************************************************)
EXTENDS Connection, SequenceTheorems, TLAPS

-----------------------------------------------------------------------------
(* The inductive invariant.                                                *)

Phase == {"lock", "acquire", "defer", "state", "rpc", "keep", "key", "check",
          "dial", "stubs", "health", "close"}

Outcome == Results \cup {"none", "panic"}

CallType ==
    [op : DOMAIN RpcOf \cup {"none", "Connect", "Disconnect"}, todo : Seq(Phase),
     lockOn : 0..MaxConns, unlockOn : 0..MaxConns, rpc : RpcType, ran : Nat, outcome : Outcome]

Fields ==
    /\ options \in OptionsType
    /\ conns \in Injected..MaxConns
    /\ open \subseteq Injected..conns
    /\ clientConn \in 0..conns /\ service \in 0..conns /\ stateService \in 0..conns
    /\ pubKey \in BOOLEAN
    /\ keySets \in 0..MaxKeySets
    /\ lock \in Threads \cup {NoOne}
    /\ adopted \in {"none", "checked", "unchecked"}
    /\ swapped \subseteq Threads
    /\ call \in [Processes -> CallType]

\* The lock is asked for, had and its release deferred in this order and before
\* all else; a key that is found is checked with.
Ordered(todo) ==
    \A i \in 1..Len(todo) :
        /\ todo[i] = "lock" => i = 1 /\ 1 < Len(todo) /\ todo[2] = "acquire"
        /\ todo[i] = "acquire" => i = 1 \/ todo[i - 1] = "lock"
        /\ todo[i] = "acquire" => i < Len(todo) /\ todo[i + 1] = "defer"
        /\ todo[i] = "defer" => i = 1 \/ todo[i - 1] = "acquire"
        /\ todo[i] = "defer" => i < Len(todo)
        /\ todo[i] = "key" => i < Len(todo) /\ todo[i + 1] = "check"

\* The phases that make an RPC.
Asking == {"state", "rpc", "health"}

\* An RPC is within its chain, in a phase that makes one, over a connection
\* that was made.
Shaped(p) ==
    /\ Ordered(call[p].todo)
    /\ call[p].rpc.stage # "none" => ~Idle(p) /\ Head(call[p].todo) \in Asking
    /\ call[p].rpc.at <= Len(Chain(call[p].rpc)) + 1
    /\ call[p].rpc.via <= conns
    /\ call[p].lockOn <= conns /\ call[p].unlockOn <= conns
    /\ p \in Threads /\ ~Idle(p) => call[p].op \in DOMAIN RpcOf

\* A thread that was not swapped and waits for the lock, or holds it, has one
\* state service to take and release it with.
Held(t) ==
    t \notin swapped =>
        /\ ~Idle(t) /\ Head(call[t].todo) = "acquire" =>
              stateService = call[t].lockOn /\ call[t].lockOn # Nil
        /\ lock = t =>
              /\ ~Idle(t)
              /\ call[t].lockOn # Nil
              /\ Head(call[t].todo) \notin {"lock", "acquire"}
              /\ IF Head(call[t].todo) = "defer" THEN stateService = call[t].lockOn
                 ELSE call[t].unlockOn = call[t].lockOn

Control ==
    /\ Fields
    /\ \A p \in Processes : Shaped(p)
    /\ \A t \in Threads : Held(t)

-----------------------------------------------------------------------------
(* Sequences of phases and chains of interceptors.                         *)

\* The first phase of a call that is not over.
LEMMA FirstPhase ==
    ASSUME NEW todo \in Seq(Phase), todo # <<>>
    PROVE  /\ Len(todo) \in Nat \ {0}
           /\ Head(todo) = todo[1]
           /\ Head(todo) \in Phase
OBVIOUS

\* What is left after n phases is in order too, and begins where they end.
LEMMA Rest ==
    ASSUME NEW todo \in Seq(Phase), Ordered(todo), NEW n \in Nat \ {0}, n < Len(todo)
    PROVE  LET rest == SubSeq(todo, n + 1, Len(todo))
           IN  /\ rest \in Seq(Phase)
               /\ Ordered(rest)
               /\ rest # <<>>
               /\ Head(rest) = todo[n + 1]
<1> DEFINE rest == SubSeq(todo, n + 1, Len(todo))
<1>1. /\ rest \in Seq(Phase)
      /\ Len(rest) = Len(todo) - n
      /\ \A i \in 1..(Len(todo) - n) : rest[i] = todo[n + i]
  BY SubSeqProperties, LenProperties
<1>2. Len(todo) \in Nat
  BY LenProperties
<1>3. rest # <<>> /\ Head(rest) = todo[n + 1]
  <2>1. Len(rest) > 0 /\ rest[1] = todo[n + 1]
    BY <1>1, <1>2
  <2>2. rest # <<>>
    BY <1>1, <2>1, EmptySeq
  <2> HIDE DEF rest
  <2> QED
    BY <1>1, <2>1, <2>2, FirstPhase
<1>4. Ordered(rest)
  <2> SUFFICES ASSUME NEW i \in 1..Len(rest)
               PROVE  /\ rest[i] # "lock"
                      /\ rest[i] = "acquire" => i = 1 \/ rest[i - 1] = "lock"
                      /\ rest[i] = "acquire" => i < Len(rest) /\ rest[i + 1] = "defer"
                      /\ rest[i] = "defer" => i = 1 \/ rest[i - 1] = "acquire"
                      /\ rest[i] = "defer" => i < Len(rest)
                      /\ rest[i] = "key" => i < Len(rest) /\ rest[i + 1] = "check"
    BY DEF Ordered
  <2>1. n + i \in 1..Len(todo) /\ n + i # 1 /\ rest[i] = todo[n + i]
    BY <1>1, <1>2
  <2>2. i # 1 => rest[i - 1] = todo[(n + i) - 1]
    BY <1>1, <1>2
  <2>3. i < Len(rest) => rest[i + 1] = todo[(n + i) + 1]
    BY <1>1, <1>2
  <2>4. n + i < Len(todo) <=> i < Len(rest)
    BY <1>1, <1>2
  <2> QED
    BY <2>1, <2>2, <2>3, <2>4 DEF Ordered
<1> QED
  BY <1>1, <1>3, <1>4

\* The phases of an operation are in order.
LEMMA PhasesOrdered ==
    ASSUME NEW op
    PROVE  /\ Phases(op) \in Seq(Phase)
           /\ Phases(op) # <<>>
           /\ Ordered(Phases(op))
           /\ Head(Phases(op)) \in {"rpc", "lock"}
<1>1. CASE op \in DOMAIN Direct
  BY <1>1 DEF Phases, Phase, Ordered
<1>2. CASE op \notin DOMAIN Direct /\ op \in DOMAIN KeepFirst
  <2>1. Phases(op) = <<"lock", "acquire", "defer", "state", "rpc", "keep", "key", "check">>
    BY <1>2 DEF Phases
  <2> QED
    BY <2>1 DEF Phase, Ordered
<1>3. CASE op \notin DOMAIN Direct /\ op \notin DOMAIN KeepFirst
  <2>1. Phases(op) = <<"lock", "acquire", "defer", "state", "rpc", "key", "check", "keep">>
    BY <1>3 DEF Phases
  <2> QED
    BY <2>1 DEF Phase, Ordered
<1> QED
  BY <1>1, <1>2, <1>3

\* A chain has at most four interceptors.
LEMMA ChainShort ==
    ASSUME NEW rpc
    PROVE  /\ Len(Chain(rpc)) \in 0..4
           /\ DOMAIN Chain(rpc) = 1..Len(Chain(rpc))
<1>1. /\ Len(UnaryChain) \in 0..4
      /\ DOMAIN UnaryChain = 1..Len(UnaryChain)
  <2>1. CASE options.key
    <3>1. UnaryChain = <<"SignatureVerifier", "ConnectionChecker", "ApiKeySetter", "Retry">>
      BY <2>1 DEF UnaryChain
    <3> QED
      BY <3>1
  <2>2. CASE ~options.key
    <3>1. UnaryChain = <<"ConnectionChecker", "ApiKeySetter", "Retry">>
      BY <2>2 DEF UnaryChain
    <3> QED
      BY <3>1
  <2> QED
    BY <2>1, <2>2
<1>2. /\ Len(StreamChain) = 2 /\ DOMAIN StreamChain = 1..2
      /\ Len(<<>>) = 0 /\ DOMAIN <<>> = 1..0
  BY DEF StreamChain
<1> QED
  BY <1>1, <1>2 DEF Chain

-----------------------------------------------------------------------------
(* Steps of an RPC.                                                        *)

\* An RPC in its chain.
Placed(rpc) == rpc \in RpcType /\ rpc.via <= conns /\ rpc.at <= Len(Chain(rpc)) + 1

\* A new RPC is before the first interceptor.
LEMMA RpcPlaced ==
    ASSUME Fields, NEW method \in Methods, NEW via \in 0..conns
    PROVE  Placed(Rpc(method, via)) /\ Rpc(method, via).stage # "none"
<1>1. NoRpc \in RpcType
  BY ConnectionAssumption DEF NoRpc, RpcType, Nil
<1>2. via \in 0..MaxConns
  BY ConnectionAssumption DEF Fields, Injected
<1>3. Rpc(method, via) \in RpcType /\ Rpc(method, via).via = via
      /\ Rpc(method, via).at = 1 /\ Rpc(method, via).stage = "in"
  <2>1. PICK first \in RpcType : first = [NoRpc EXCEPT !.method = method]
    BY <1>1 DEF RpcType
  <2>2. PICK second \in RpcType : second = [first EXCEPT !.via = via]
    BY <1>2, <2>1 DEF RpcType
  <2>3. PICK third \in RpcType : third = [second EXCEPT !.stage = "in"]
    BY <2>2 DEF RpcType
  <2>4. PICK fourth \in RpcType : fourth = [third EXCEPT !.at = 1]
    <3> DEFINE one == 1
    <3>1. one \in 0..5
      OBVIOUS
    <3> HIDE DEF one
    <3>2. [third EXCEPT !.at = one] \in RpcType
      BY <2>3, <3>1 DEF RpcType
    <3> QED
      BY <3>2 DEF one
  <2>5. Rpc(method, via) = fourth
    BY <2>1, <2>2, <2>3, <2>4 DEF Rpc
  <2>6. fourth.via = via /\ fourth.at = 1 /\ fourth.stage = "in"
    BY <2>1, <2>2, <2>3, <2>4 DEF RpcType
  <2> QED
    BY <2>5, <2>6
<1> QED
  BY <1>3, ChainShort DEF Placed, Fields

\* The greatest of some of the first four numbers is one of them.
LEMMA MaxIsOne ==
    ASSUME NEW S \in SUBSET (1..4), S # {}
    PROVE  Max(S) \in S
<1>1. \E x \in S : \A y \in S : x >= y
  <2>1. CASE 4 \in S
    BY <2>1
  <2>2. CASE 4 \notin S /\ 3 \in S
    BY <2>2
  <2>3. CASE 4 \notin S /\ 3 \notin S /\ 2 \in S
    BY <2>3
  <2>4. CASE 4 \notin S /\ 3 \notin S /\ 2 \notin S
    <3>1. \A y \in S : y = 1
      BY <2>4
    <3>2. PICK x \in S : TRUE
      OBVIOUS
    <3> QED
      BY <3>1, <3>2
  <2> QED
    BY <2>1, <2>2, <2>3, <2>4
<1> QED
  BY <1>1 DEF Max

\* On the way out an RPC stays in its chain, over its connection.
LEMMA OutPlaced ==
    ASSUME Fields, NEW rpc, Placed(rpc)
    PROVE  /\ Placed(Out(rpc)) /\ Out(rpc).stage # "none"
           /\ \A r \in Results : Placed(OutWith(rpc, r)) /\ OutWith(rpc, r).stage # "none"
           /\ Placed([Out(rpc) EXCEPT !.checked = TRUE])
<1> DEFINE ahead == {i \in 1..(rpc.at - 1) : Chain(rpc)[i] \in {"Retry", "SignatureVerifier"}}
<1>1. rpc.at \in 0..5 /\ rpc.at <= Len(Chain(rpc)) + 1
  BY DEF Placed, RpcType
<1>2. PICK stage \in {"out", "done"}, at \in 0..5 :
         Out(rpc) = [rpc EXCEPT !.stage = stage, !.at = at] /\ at <= Len(Chain(rpc)) + 1
  <2>1. CASE ahead = {}
    BY <2>1, ChainShort DEF Out
  <2>2. CASE ahead # {}
    <3>1. ahead \in SUBSET (1..4)
      BY <1>1, ChainShort
    <3>2. Max(ahead) \in 1..(rpc.at - 1)
      <4> HIDE DEF ahead
      <4>1. Max(ahead) \in ahead
        BY <2>2, <3>1, MaxIsOne
      <4> QED
        BY <4>1 DEF ahead
    <3>3. Out(rpc) = [rpc EXCEPT !.stage = "out", !.at = Max(ahead)]
      BY <2>2 DEF Out
    <3>4. Max(ahead) \in 0..5 /\ Max(ahead) <= Len(Chain(rpc)) + 1
      <4> HIDE DEF ahead
      <4> QED
        BY <1>1, <3>2, ChainShort
    <3> HIDE DEF ahead
    <3> QED
      BY <3>3, <3>4
  <2> QED
    BY <2>1, <2>2
<1>3. ASSUME NEW result \in Results \cup {"none"}, NEW checked \in BOOLEAN,
             NEW out, out = [rpc EXCEPT !.stage = stage, !.at = at, !.result = result,
                                        !.checked = checked]
      PROVE  Placed(out) /\ out.stage # "none"
  <2>1. out \in RpcType /\ out.via = rpc.via /\ out.method = rpc.method /\ out.at = at
        /\ out.stage = stage
    BY <1>3 DEF Placed, RpcType
  <2>2. Chain(out) = Chain(rpc)
    BY <2>1 DEF Chain
  <2> QED
    BY <1>2, <2>1, <2>2 DEF Placed
<1>4. Out(rpc) = [rpc EXCEPT !.stage = stage, !.at = at, !.result = rpc.result,
                             !.checked = rpc.checked]
  BY <1>2 DEF Placed, RpcType
<1>5. \A r \in Results : OutWith(rpc, r) = [rpc EXCEPT !.stage = stage, !.at = at, !.result = r,
                                                       !.checked = rpc.checked]
  BY <1>2 DEF OutWith, Placed, RpcType
<1>6. [Out(rpc) EXCEPT !.checked = TRUE] = [rpc EXCEPT !.stage = stage, !.at = at,
                                             !.result = rpc.result, !.checked = TRUE]
  BY <1>2 DEF Placed, RpcType
<1>7. rpc.result \in Results \cup {"none"} /\ rpc.checked \in BOOLEAN
  BY DEF Placed, RpcType
<1>8. Placed(Out(rpc)) /\ Out(rpc).stage # "none"
  BY <1>3, <1>4, <1>7
<1>9. \A r \in Results : Placed(OutWith(rpc, r)) /\ OutWith(rpc, r).stage # "none"
  BY <1>3, <1>5, <1>7
<1>10. Placed([Out(rpc) EXCEPT !.checked = TRUE])
  BY <1>3, <1>6, <1>7
<1> QED
  BY <1>8, <1>9, <1>10

-----------------------------------------------------------------------------
(* Steps of a call.                                                        *)

\* A process that does nothing stays as it is, with connections only added.
LEMMA ShapedElsewhere ==
    ASSUME Control, options' = options, conns' \in Nat, conns' >= conns,
           NEW q \in Processes, call'[q] = call[q]
    PROVE  Shaped(q)'
<1>1. Shaped(q) /\ call[q] \in CallType /\ conns \in Nat
  BY DEF Control, Fields, Injected
<1>2. Chain(call[q].rpc)' = Chain(call[q].rpc)
  BY DEF Chain, UnaryChain, StreamChain
<1>3. call[q].rpc.via \in Nat /\ call[q].lockOn \in Nat /\ call[q].unlockOn \in Nat
  BY <1>1 DEF CallType, RpcType
<1> QED
  BY <1>1, <1>2, <1>3 DEF Shaped, Idle, Chain, UnaryChain, StreamChain

\* Nor is its lock touched by another process.
LEMMA HeldElsewhere ==
    ASSUME Control, NEW t \in Threads, NEW p, p # t, call'[t] = call[t],
           stateService' = stateService, t \in swapped' <=> t \in swapped,
           lock' \in {lock, NoOne, p}
    PROVE  Held(t)'
<1>1. Held(t) /\ NoOne # t
  BY ConnectionAssumption DEF Control
<1> QED
  BY <1>1 DEF Held, Idle

\* What a step of a call leaves in order, of all calls.
CallsKept ==
    /\ (call \in [Processes -> CallType])'
    /\ lock' \in Threads \cup {NoOne}
    /\ \A q \in Processes : Shaped(q)'
    /\ stateService' = stateService /\ swapped' = swapped => \A t \in Threads : Held(t)'

\* A call that returns gives back what it holds.
LEMMA Returns ==
    ASSUME Control, options' = options, conns' \in Nat, conns' >= conns,
           NEW p \in Processes, ~Idle(p),
           Head(call[p].todo) = "defer" => stateService = Nil,
           NEW result \in Outcome, Return(p, result)
    PROVE  CallsKept
<1> DEFINE over == [[Started("none", <<>>) EXCEPT !.ran = call[p].ran] EXCEPT !.outcome = result]
<1>1. call' = [call EXCEPT ![p] = over]
  BY DEF Return
<1>2. /\ over \in CallType
      /\ over.todo = <<>> /\ over.rpc = NoRpc /\ over.lockOn = 0 /\ over.unlockOn = 0
  <2>1. Started("none", <<>>) \in CallType
    <3>1. NoRpc \in RpcType
      BY ConnectionAssumption DEF NoRpc, RpcType, Nil
    <3>2. <<>> \in Seq(Phase)
      OBVIOUS
    <3> QED
      BY <3>1, <3>2, ConnectionAssumption DEF Started, CallType, Outcome, Nil
  <2>2. call[p].ran \in Nat
    BY DEF Control, Fields, CallType
  <2> QED
    BY <2>1, <2>2 DEF Started, CallType, Nil
<1> HIDE DEF over
<1>3. /\ call' \in [Processes -> CallType]
      /\ call'[p] = over
      /\ \A q \in Processes \ {p} : call'[q] = call[q]
  BY <1>1, <1>2 DEF Control, Fields
<1>4. lock' \in {lock, NoOne}
  BY DEF Return
<1>5. lock' \in Threads \cup {NoOne}
  BY <1>4 DEF Control, Fields
<1>6. ASSUME NEW q \in Processes
      PROVE  Shaped(q)'
  <2>1. CASE q # p
    BY <1>3, <2>1, ShapedElsewhere
  <2>2. CASE q = p
    <3>1. Ordered(<<>>)
      BY DEF Ordered
    <3>2. NoRpc.stage = "none" /\ NoRpc.at = 0 /\ NoRpc.via = 0
      BY DEF NoRpc, Nil
    <3>3. \A rpc : Len(Chain(rpc))' \in Nat
      BY ChainShort, <1>3 DEF Chain, UnaryChain, StreamChain
    <3> QED
      BY <1>2, <1>3, <2>2, <3>1, <3>2, <3>3 DEF Shaped, Idle
  <2> QED
    BY <2>1, <2>2
<1>7. ASSUME stateService' = stateService, swapped' = swapped, NEW t \in Threads
      PROVE  Held(t)'
  <2>1. CASE t # p
    <3>1. t \in Processes
      BY DEF Processes
    <3> QED
      BY <1>3, <1>4, <1>7, <2>1, <3>1, HeldElsewhere
  <2>2. CASE t = p
    <3>1. t \notin swapped => lock' # t
      BY <2>2, ConnectionAssumption DEF Control, Held, Return
    <3> QED
      BY <1>2, <1>3, <1>7, <2>2, <3>1 DEF Held, Idle
  <2> QED
    BY <2>1, <2>2
<1> QED
  BY <1>3, <1>5, <1>6, <1>7 DEF CallsKept

\* A step that only shortens what is left to do, beyond the lock, or changes the
\* RPC of a phase that makes one.
LEMMA GoesOn ==
    ASSUME Control, options' = options, conns' \in Nat, conns' >= conns, lock' = lock,
           NEW p \in Processes, ~Idle(p),
           Head(call[p].todo) \notin {"lock", "acquire", "defer"},
           NEW c \in CallType, call' = [call EXCEPT ![p] = c],
           c.op = call[p].op, c.lockOn = call[p].lockOn, c.unlockOn = call[p].unlockOn,
           c.todo # <<>>, Ordered(c.todo), Head(c.todo) \notin {"lock", "acquire", "defer"},
           c.rpc.via <= conns, c.rpc.at <= Len(Chain(c.rpc)) + 1,
           c.rpc.stage # "none" => Head(c.todo) \in Asking
    PROVE  CallsKept
<1>1. /\ call' \in [Processes -> CallType]
      /\ call'[p] = c
      /\ \A q \in Processes \ {p} : call'[q] = call[q]
  BY DEF Control, Fields
<1>2. lock' \in Threads \cup {NoOne}
  BY DEF Control, Fields
<1>3. ASSUME NEW q \in Processes
      PROVE  Shaped(q)'
  <2>1. CASE q # p
    BY <1>1, <2>1, ShapedElsewhere
  <2>2. CASE q = p
    <3>1. \A rpc : Chain(rpc)' = Chain(rpc)
      BY DEF Chain, UnaryChain, StreamChain
    <3>2. c.rpc.via <= conns' /\ c.lockOn <= conns' /\ c.unlockOn <= conns'
      <4>a. c.rpc \in RpcType /\ c.lockOn \in 0..MaxConns /\ c.unlockOn \in 0..MaxConns
        BY DEF CallType
      <4>1. c.rpc.via \in Nat /\ c.lockOn \in Nat /\ c.unlockOn \in Nat /\ conns \in Nat
        BY <4>a, ConnectionAssumption DEF RpcType, Control, Fields, Injected
      <4>2. c.lockOn <= conns /\ c.unlockOn <= conns
        BY DEF Control, Shaped
      <4> QED
        BY <4>1, <4>2
    <3>3. p \in Threads => c.op \in DOMAIN RpcOf
      BY DEF Control, Shaped
    <3> QED
      BY <1>1, <2>2, <3>1, <3>2, <3>3 DEF Shaped, Idle
  <2> QED
    BY <2>1, <2>2
<1>4. ASSUME stateService' = stateService, swapped' = swapped, NEW t \in Threads
      PROVE  Held(t)'
  <2>1. CASE t # p
    <3>1. t \in Processes
      BY DEF Processes
    <3> QED
      BY <1>1, <1>4, <2>1, <3>1, HeldElsewhere
  <2>2. CASE t = p
    BY <1>1, <1>4, <2>2 DEF Held, Idle, Control
  <2> QED
    BY <2>1, <2>2
<1> QED
  BY <1>1, <1>2, <1>3, <1>4 DEF CallsKept

\* A call that is beyond the lock goes on, or returns.
LEMMA Advances ==
    ASSUME Control, options' = options, conns' \in Nat, conns' >= conns,
           NEW p \in Processes, ~Idle(p),
           Head(call[p].todo) \notin {"lock", "acquire", "defer"},
           NEW n \in {1, 2}, n = 2 => Head(call[p].todo) = "key",
           Advance(p, call[p], n)
    PROVE  CallsKept
<1> DEFINE todo == call[p].todo
<1>1. todo \in Seq(Phase) /\ todo # <<>> /\ Ordered(todo) /\ call[p] \in CallType
  BY DEF Control, Fields, CallType, Shaped, Idle
<1>2. Len(todo) \in Nat \ {0} /\ Head(todo) = todo[1]
  BY <1>1, FirstPhase
<1>3. CASE Len(todo) = n
  <2>1. Return(p, "ok")
    BY <1>3 DEF Advance
  <2> QED
    BY <2>1, Returns DEF Outcome, Results
<1>4. CASE Len(todo) # n
  <2>1. n < Len(todo)
    BY <1>1, <1>2, <1>4 DEF Ordered
  <2> DEFINE rest == SubSeq(todo, n + 1, Len(todo))
             c == [[call[p] EXCEPT !.todo = rest] EXCEPT !.rpc = NoRpc]
  <2>2. /\ rest \in Seq(Phase) /\ Ordered(rest) /\ rest # <<>> /\ Head(rest) = todo[n + 1]
    BY <1>1, <2>1, Rest
  <2>3. todo[n + 1] \notin {"lock", "acquire", "defer"}
    <3>1. n + 1 \in 1..Len(todo) /\ 1 \in 1..Len(todo) /\ (n + 1) - 1 = n
      BY <1>2, <2>1
    <3>2. CASE n = 1
      BY <1>1, <1>2, <3>1, <3>2 DEF Ordered
    <3>3. CASE n = 2
      <4>1. todo[2] = "check"
        BY <1>1, <1>2, <3>1, <3>3 DEF Ordered
      <4> QED
        BY <1>1, <3>1, <3>3, <4>1 DEF Ordered
    <3> QED
      BY <3>2, <3>3
  <2>4. call' = [call EXCEPT ![p] = c] /\ lock' = lock
    BY <1>4 DEF Advance
  <2>5. NoRpc \in RpcType /\ NoRpc.stage = "none" /\ NoRpc.at = 0 /\ NoRpc.via = 0
    BY ConnectionAssumption DEF NoRpc, RpcType, Nil
  <2> HIDE DEF rest
  <2>6. /\ c \in CallType /\ c.op = call[p].op /\ c.lockOn = call[p].lockOn
        /\ c.unlockOn = call[p].unlockOn /\ c.todo = rest /\ c.rpc = NoRpc
    BY <1>1, <2>2, <2>5 DEF CallType
  <2>7. 0 <= conns /\ 0 <= Len(Chain(NoRpc)) + 1
    BY ChainShort DEF Control, Fields, Injected
  <2> HIDE DEF c, todo
  <2> QED
    BY <2>2, <2>3, <2>4, <2>5, <2>6, <2>7, GoesOn DEF todo
<1> QED
  BY <1>3, <1>4

\* What a step of an RPC leaves in order.
LEMMA Asks ==
    ASSUME Control, UNCHANGED <<net, fields, keys, lock, swapped>>,
           NEW p \in Processes, ~Idle(p), Head(call[p].todo) \in Asking,
           NEW r, Placed(r), NEW k \in Nat,
           call' = [call EXCEPT ![p] = [@ EXCEPT !.rpc = r, !.ran = k]]
    PROVE  CallsKept
<1> DEFINE c == [[call[p] EXCEPT !.rpc = r] EXCEPT !.ran = k]
<1>1. call[p] \in CallType /\ Ordered(call[p].todo) /\ call[p].todo # <<>>
  BY DEF Control, Fields, Shaped, Idle
<1>2. /\ c \in CallType /\ c.op = call[p].op /\ c.lockOn = call[p].lockOn
      /\ c.unlockOn = call[p].unlockOn /\ c.todo = call[p].todo /\ c.rpc = r
  BY <1>1 DEF CallType, Placed
<1>3. call' = [call EXCEPT ![p] = c]
  BY DEF Control, Fields
<1>4. options' = options /\ conns' = conns /\ conns' \in Nat /\ lock' = lock
  BY DEF net, Control, Fields, Injected
<1>5. conns' >= conns
  BY <1>4
<1>6. /\ c.todo # <<>> /\ Ordered(c.todo) /\ Head(c.todo) \notin {"lock", "acquire", "defer"}
      /\ Head(call[p].todo) \notin {"lock", "acquire", "defer"} /\ Head(c.todo) \in Asking
  BY <1>1, <1>2 DEF Asking
<1>7. c.rpc.via <= conns /\ c.rpc.at <= Len(Chain(c.rpc)) + 1
  BY <1>2 DEF Placed
<1> HIDE DEF c
<1> QED
  BY <1>2, <1>3, <1>4, <1>5, <1>6, <1>7, GoesOn

\* So does UpdateRpc.
LEMMA Updates ==
    ASSUME Control, NEW p \in Processes, ~Idle(p), Head(call[p].todo) \in Asking,
           NEW r, Placed(r), UpdateRpc(p, r)
    PROVE  CallsKept
<1>1. call[p] \in CallType
  BY DEF Control, Fields
<1>2. [call[p] EXCEPT !.rpc = r] = [call[p] EXCEPT !.rpc = r, !.ran = call[p].ran]
  BY <1>1 DEF CallType
<1>3. call' = [call EXCEPT ![p] = [@ EXCEPT !.rpc = r, !.ran = call[p].ran]]
  BY <1>2 DEF UpdateRpc
<1>4. call[p].ran \in Nat
  BY <1>1 DEF CallType
<1> QED
  BY <1>3, <1>4, Asks DEF UpdateRpc

-----------------------------------------------------------------------------
(* The actions of a thread.                                                *)

\* Calls in order, with the other variables kept, are all there is.
LEMMA Kept ==
    ASSUME Control, CallsKept, UNCHANGED <<net, fields, keys, swapped>>,
           adopted' \in {"none", "checked", "unchecked"}
    PROVE  Control'
BY DEF Control, CallsKept, Fields, net, fields, keys

\* A process at a phase has this phase first.
LEMMA AtPhase ==
    ASSUME Control, NEW p \in Processes, NEW phase, At(p, phase)
    PROVE  /\ ~Idle(p) /\ Head(call[p].todo) = phase
           /\ call[p] \in CallType /\ Shaped(p)
           /\ call[p].todo \in Seq(Phase) /\ Ordered(call[p].todo) /\ call[p].todo # <<>>
BY DEF At, Control, Fields, CallType, Shaped, Idle

\* So has one whose RPC has come back.
LEMMA AnsweredPhase ==
    ASSUME NEW p, NEW phase, Answered(p, phase)
    PROVE  ~Idle(p) /\ Head(call[p].todo) = phase
BY DEF Answered

\* A call that begins.
LEMMA Starts ==
    ASSUME Control, options' = options, conns' = conns, lock' = lock,
           NEW p \in Processes, Idle(p),
           NEW op \in DOMAIN RpcOf \cup {"Connect", "Disconnect"}, p \in Threads => op \in DOMAIN RpcOf,
           NEW todo \in Seq(Phase), todo # <<>>, Ordered(todo), Head(todo) # "acquire",
           call' = [call EXCEPT ![p] = Started(op, todo)]
    PROVE  CallsKept
<1> DEFINE c == Started(op, todo)
<1>1. NoRpc \in RpcType /\ NoRpc.stage = "none" /\ NoRpc.at = 0 /\ NoRpc.via = 0
  BY ConnectionAssumption DEF NoRpc, RpcType, Nil
<1>2. c \in CallType /\ c.op = op /\ c.todo = todo /\ c.rpc = NoRpc
      /\ c.lockOn = 0 /\ c.unlockOn = 0
  BY <1>1, ConnectionAssumption DEF Started, CallType, Outcome, Nil
<1> HIDE DEF c
<1>3. /\ call' \in [Processes -> CallType]
      /\ call'[p] = c
      /\ \A q \in Processes \ {p} : call'[q] = call[q]
  BY <1>2 DEF Control, Fields, c
<1>4. conns \in Nat /\ lock \in Threads \cup {NoOne}
  BY DEF Control, Fields, Injected
<1>5. ASSUME NEW q \in Processes
      PROVE  Shaped(q)'
  <2>1. CASE q # p
    BY <1>3, <1>4, <2>1, ShapedElsewhere
  <2>2. CASE q = p
    <3>1. Len(Chain(NoRpc))' \in Nat
      BY ChainShort DEF Chain, UnaryChain, StreamChain
    <3> QED
      BY <1>1, <1>2, <1>3, <1>4, <2>2, <3>1 DEF Shaped, Idle
  <2> QED
    BY <2>1, <2>2
<1>6. ASSUME stateService' = stateService, swapped' = swapped, NEW u \in Threads
      PROVE  Held(u)'
  <2>1. CASE u # p
    BY <1>3, <1>6, <2>1, HeldElsewhere DEF Processes
  <2>2. CASE u = p
    <3>1. lock = u => u \in swapped
      BY <2>2 DEF Control, Held
    <3> QED
      BY <1>2, <1>3, <1>6, <2>2, <3>1 DEF Held
  <2> QED
    BY <2>1, <2>2
<1> QED
  BY <1>3, <1>4, <1>5, <1>6 DEF CallsKept

LEMMA BeginKeeps ==
    ASSUME Control, NEW t \in Threads, NEW op \in Ops[t], Begin(t, op)
    PROVE  Control'
<1>1. op \in DOMAIN RpcOf /\ t \in Processes
  BY ConnectionAssumption DEF Processes
<1>2. /\ Phases(op) \in Seq(Phase) /\ Phases(op) # <<>> /\ Ordered(Phases(op))
      /\ Head(Phases(op)) # "acquire"
  BY PhasesOrdered
<1>3. CallsKept
  BY <1>1, <1>2, Starts DEF Begin, net
<1> QED
  BY <1>3, Kept DEF Begin, Control, Fields

LEMMA CacheLockKeeps ==
    ASSUME Control, NEW t \in Threads, CacheLock(t)
    PROVE  Control'
<1>1. t \in Processes
  BY DEF Processes
<1>2. /\ ~Idle(t) /\ Head(call[t].todo) = "lock" /\ call[t] \in CallType /\ Shaped(t)
      /\ call[t].todo \in Seq(Phase) /\ Ordered(call[t].todo) /\ call[t].todo # <<>>
  BY <1>1, AtPhase DEF CacheLock
<1>3. /\ options' = options /\ conns' = conns /\ conns \in Nat
      /\ UNCHANGED <<net, fields, keys, adopted>> /\ stateService' = stateService
  BY DEF CacheLock, net, fields, Control, Fields, Injected
<1>4. CASE stateService = Nil
  <2>1. Return(t, "panic") /\ swapped' = swapped
    BY <1>4 DEF CacheLock
  <2>2. CallsKept
    BY <1>1, <1>2, <1>3, <2>1, Returns DEF Outcome
  <2> QED
    BY <1>3, <2>1, <2>2, Kept DEF Control, Fields
<1>5. CASE stateService # Nil
  <2> DEFINE todo == call[t].todo
             rest == SubSeq(todo, 2, Len(todo))
             c == [[[call[t] EXCEPT !.lockOn = stateService] EXCEPT !.todo = rest] EXCEPT !.rpc = NoRpc]
  <2>1. Len(todo) \in Nat \ {0} /\ Head(todo) = todo[1]
    BY <1>2, FirstPhase
  <2>2. 1 < Len(todo) /\ todo[2] = "acquire"
    BY <1>2, <2>1 DEF Ordered
  <2>3. rest \in Seq(Phase) /\ Ordered(rest) /\ rest # <<>> /\ Head(rest) = "acquire"
    BY <1>2, <2>2, Rest
  <2>4. /\ call' = [call EXCEPT ![t] = [[call[t] EXCEPT !.lockOn = stateService]
                                          EXCEPT !.todo = rest, !.rpc = NoRpc]]
        /\ lock' = lock
        /\ swapped' = IF lock = t THEN swapped ELSE swapped \ {t}
    <3>1. Len([call[t] EXCEPT !.lockOn = stateService].todo) # 1
      BY <1>2, <2>1, <2>2 DEF CallType
    <3>2. [call[t] EXCEPT !.lockOn = stateService].todo = todo
      BY <1>2 DEF CallType
    <3> QED
      BY <1>5, <3>1, <3>2 DEF CacheLock, Advance
  <2>5. NoRpc \in RpcType /\ NoRpc.stage = "none" /\ NoRpc.at = 0 /\ NoRpc.via = 0
    BY ConnectionAssumption DEF NoRpc, RpcType, Nil
  <2>6. stateService \in 0..conns /\ stateService \in 0..MaxConns
    BY ConnectionAssumption DEF Control, Fields, Injected
  <2> HIDE DEF rest
  <2>7. /\ c \in CallType /\ c.op = call[t].op /\ c.todo = rest /\ c.rpc = NoRpc
        /\ c.lockOn = stateService /\ c.unlockOn = call[t].unlockOn
    BY <1>2, <2>3, <2>5, <2>6 DEF CallType
  <2>8. call' = [call EXCEPT ![t] = c]
    BY <2>4
  <2> HIDE DEF c, todo
  <2>9. /\ call' \in [Processes -> CallType]
        /\ call'[t] = c
        /\ \A q \in Processes \ {t} : call'[q] = call[q]
    BY <1>1, <2>7, <2>8 DEF Control, Fields
  <2>10. ASSUME NEW q \in Processes
         PROVE  Shaped(q)'
    <3>1. CASE q # t
      BY <1>3, <2>9, <3>1, ShapedElsewhere
    <3>2. CASE q = t
      <4>1. Len(Chain(NoRpc))' \in Nat
        BY <1>3, ChainShort DEF Chain, UnaryChain, StreamChain
      <4> QED
        BY <1>2, <1>3, <2>3, <2>5, <2>6, <2>7, <2>9, <3>2, <4>1 DEF Shaped, Idle
    <3> QED
      BY <3>1, <3>2
  <2>11. ASSUME NEW u \in Threads
         PROVE  Held(u)'
    <3>1. CASE u # t
      BY <1>3, <2>4, <2>9, <3>1, HeldElsewhere DEF Processes
    <3>2. CASE u = t
      <4>1. lock = t => t \in swapped
        BY <1>2 DEF Control, Held
      <4> QED
        BY <1>3, <1>5, <2>3, <2>4, <2>7, <2>9, <3>2, <4>1 DEF Held
    <3> QED
      BY <3>1, <3>2
  <2> QED
    BY <1>3, <2>4, <2>9, <2>10, <2>11 DEF Control, Fields, net, fields, keys
<1> QED
  BY <1>4, <1>5

LEMMA AcquireKeeps ==
    ASSUME Control, NEW t \in Threads, Acquire(t)
    PROVE  Control'
<1>1. t \in Processes
  BY DEF Processes
<1>2. /\ ~Idle(t) /\ Head(call[t].todo) = "acquire" /\ call[t] \in CallType /\ Shaped(t)
      /\ call[t].todo \in Seq(Phase) /\ Ordered(call[t].todo) /\ call[t].todo # <<>>
  BY <1>1, AtPhase DEF Acquire
<1>3. /\ options' = options /\ conns' = conns /\ conns \in Nat
      /\ UNCHANGED <<net, fields, keys, adopted, swapped>> /\ stateService' = stateService
  BY DEF Acquire, net, fields, Control, Fields, Injected
<1>4. CASE Return(t, "final")
  <2>1. CallsKept
    BY <1>1, <1>2, <1>3, <1>4, Returns DEF Outcome, Results
  <2> QED
    BY <1>3, <2>1, Kept DEF Control, Fields
<1>5. CASE lock = NoOne /\ lock' = t /\ call' = [call EXCEPT ![t].todo = Tail(@)]
  <2> DEFINE todo == call[t].todo
             rest == SubSeq(todo, 2, Len(todo))
             c == [call[t] EXCEPT !.todo = rest]
  <2>1. Len(todo) \in Nat \ {0} /\ Head(todo) = todo[1]
    BY <1>2, FirstPhase
  <2>2. 1 < Len(todo) /\ todo[2] = "defer"
    BY <1>2, <2>1 DEF Ordered
  <2>3. rest \in Seq(Phase) /\ Ordered(rest) /\ rest # <<>> /\ Head(rest) = "defer"
    BY <1>2, <2>2, Rest
  <2>4. Tail(todo) = rest
    BY <1>2, <2>1, TailIsSubSeq
  <2> HIDE DEF rest
  <2>5. /\ c \in CallType /\ c.op = call[t].op /\ c.todo = rest /\ c.rpc = call[t].rpc
        /\ c.lockOn = call[t].lockOn /\ c.unlockOn = call[t].unlockOn
    BY <1>2, <2>3 DEF CallType
  <2>6. call' = [call EXCEPT ![t] = c]
    BY <1>5, <2>4
  <2> HIDE DEF c, todo
  <2>7. /\ call' \in [Processes -> CallType]
        /\ call'[t] = c
        /\ \A q \in Processes \ {t} : call'[q] = call[q]
    BY <1>1, <2>5, <2>6 DEF Control, Fields
  <2>8. call[t].rpc.stage = "none"
    BY <1>5 DEF Acquire, At
  <2>9. ASSUME NEW q \in Processes
        PROVE  Shaped(q)'
    <3>1. CASE q # t
      BY <1>3, <2>7, <3>1, ShapedElsewhere
    <3>2. CASE q = t
      <4>1. \A rpc : Chain(rpc)' = Chain(rpc)
        BY <1>3 DEF Chain, UnaryChain, StreamChain
      <4> QED
        BY <1>2, <1>3, <2>3, <2>5, <2>7, <2>8, <3>2, <4>1 DEF Shaped, Idle
    <3> QED
      BY <3>1, <3>2
  <2>10. ASSUME NEW u \in Threads
         PROVE  Held(u)'
    <3>1. CASE u # t
      BY <1>3, <1>5, <2>7, <3>1, HeldElsewhere DEF Processes
    <3>2. CASE u = t
      BY <1>2, <1>3, <2>3, <2>5, <2>7, <3>2 DEF Held, Idle, Control
    <3> QED
      BY <3>1, <3>2
  <2> QED
    BY <1>3, <1>5, <2>7, <2>9, <2>10 DEF Control, Fields, net, fields, keys
<1> QED
  BY <1>4, <1>5 DEF Acquire

LEMMA DeferUnlockKeeps ==
    ASSUME Control, NEW t \in Threads, DeferUnlock(t)
    PROVE  Control'
<1>1. t \in Processes
  BY DEF Processes
<1>2. /\ ~Idle(t) /\ Head(call[t].todo) = "defer" /\ call[t] \in CallType /\ Shaped(t)
      /\ call[t].todo \in Seq(Phase) /\ Ordered(call[t].todo) /\ call[t].todo # <<>>
  BY <1>1, AtPhase DEF DeferUnlock
<1>3. /\ options' = options /\ conns' = conns /\ conns \in Nat
      /\ UNCHANGED <<net, fields, keys, adopted, swapped>> /\ stateService' = stateService
  BY DEF DeferUnlock, net, fields, Control, Fields, Injected
<1>4. CASE stateService = Nil
  <2>1. Return(t, "panic")
    BY <1>4 DEF DeferUnlock
  <2>2. CallsKept
    BY <1>1, <1>2, <1>3, <1>4, <2>1, Returns DEF Outcome
  <2> QED
    BY <1>3, <2>2, Kept DEF Control, Fields
<1>5. CASE stateService # Nil
  <2> DEFINE todo == call[t].todo
             rest == SubSeq(todo, 2, Len(todo))
             c == [[[call[t] EXCEPT !.unlockOn = stateService] EXCEPT !.todo = rest] EXCEPT !.rpc = NoRpc]
  <2>1. Len(todo) \in Nat \ {0} /\ Head(todo) = todo[1]
    BY <1>2, FirstPhase
  <2>2. 1 < Len(todo) /\ todo[2] \notin {"lock", "acquire", "defer"}
    BY <1>2, <2>1 DEF Ordered
  <2>3. /\ rest \in Seq(Phase) /\ Ordered(rest) /\ rest # <<>>
        /\ Head(rest) \notin {"lock", "acquire", "defer"}
    BY <1>2, <2>2, Rest
  <2>4. /\ call' = [call EXCEPT ![t] = [[call[t] EXCEPT !.unlockOn = stateService]
                                          EXCEPT !.todo = rest, !.rpc = NoRpc]]
        /\ lock' = lock
    <3>1. [call[t] EXCEPT !.unlockOn = stateService].todo = todo
      BY <1>2 DEF CallType
    <3> QED
      BY <1>5, <2>1, <2>2, <3>1 DEF DeferUnlock, Advance
  <2>5. NoRpc \in RpcType /\ NoRpc.stage = "none" /\ NoRpc.at = 0 /\ NoRpc.via = 0
    BY ConnectionAssumption DEF NoRpc, RpcType, Nil
  <2>6. stateService \in 0..conns /\ stateService \in 0..MaxConns
    BY ConnectionAssumption DEF Control, Fields, Injected
  <2> HIDE DEF rest
  <2>7. /\ c \in CallType /\ c.op = call[t].op /\ c.todo = rest /\ c.rpc = NoRpc
        /\ c.lockOn = call[t].lockOn /\ c.unlockOn = stateService
    BY <1>2, <2>3, <2>5, <2>6 DEF CallType
  <2>8. call' = [call EXCEPT ![t] = c]
    BY <2>4
  <2> HIDE DEF c, todo
  <2>9. /\ call' \in [Processes -> CallType]
        /\ call'[t] = c
        /\ \A q \in Processes \ {t} : call'[q] = call[q]
    BY <1>1, <2>7, <2>8 DEF Control, Fields
  <2>10. ASSUME NEW q \in Processes
         PROVE  Shaped(q)'
    <3>1. CASE q # t
      BY <1>3, <2>9, <3>1, ShapedElsewhere
    <3>2. CASE q = t
      <4>1. Len(Chain(NoRpc))' \in Nat
        BY <1>3, ChainShort DEF Chain, UnaryChain, StreamChain
      <4> QED
        BY <1>2, <1>3, <2>3, <2>5, <2>6, <2>7, <2>9, <3>2, <4>1 DEF Shaped, Idle
    <3> QED
      BY <3>1, <3>2
  <2>11. ASSUME NEW u \in Threads
         PROVE  Held(u)'
    <3>1. CASE u # t
      BY <1>3, <2>4, <2>9, <3>1, HeldElsewhere DEF Processes
    <3>2. CASE u = t
      <4>1. Held(t)
        BY DEF Control
      <4> QED
        BY <1>2, <1>3, <2>3, <2>4, <2>7, <2>9, <3>2, <4>1 DEF Held, Idle
    <3> QED
      BY <3>1, <3>2
  <2> QED
    BY <1>3, <2>4, <2>9, <2>10, <2>11 DEF Control, Fields, net, fields, keys
<1> QED
  BY <1>4, <1>5

\* A step in a phase beyond the lock that returns, goes on to another phase or
\* begins an RPC, and keeps all that is not the call's own.
LEMMA PhaseKeeps ==
    ASSUME Control, NEW p \in Processes, ~Idle(p),
           Head(call[p].todo) \notin {"lock", "acquire", "defer"},
           UNCHANGED <<net, fields, keys, swapped>>,
           adopted' \in {"none", "checked", "unchecked"},
           \/ \E result \in Outcome : Return(p, result)
           \/ Advance(p, call[p], 1)
           \/ Head(call[p].todo) = "key" /\ Advance(p, call[p], 2)
           \/ /\ Head(call[p].todo) \in Asking
              /\ lock' = lock
              /\ \E method \in Methods, via \in 0..conns :
                    call' = [call EXCEPT ![p].rpc = Rpc(method, via)]
    PROVE  Control'
<1>1. options' = options /\ conns' = conns /\ conns \in Nat
  BY DEF net, Control, Fields, Injected
<1>2. CASE \E result \in Outcome : Return(p, result)
  <2>1. CallsKept
    BY <1>1, <1>2, Returns
  <2> QED
    BY <2>1, Kept
<1>3. CASE Advance(p, call[p], 1)
  <2>1. CallsKept
    BY <1>1, <1>3, Advances
  <2> QED
    BY <2>1, Kept
<1>4. CASE Head(call[p].todo) = "key" /\ Advance(p, call[p], 2)
  <2>1. CallsKept
    BY <1>1, <1>4, Advances
  <2> QED
    BY <2>1, Kept
<1>5. CASE /\ Head(call[p].todo) \in Asking
           /\ lock' = lock
           /\ \E method \in Methods, via \in 0..conns :
                 call' = [call EXCEPT ![p].rpc = Rpc(method, via)]
  <2>1. PICK method \in Methods, via \in 0..conns :
           call' = [call EXCEPT ![p].rpc = Rpc(method, via)]
    BY <1>5
  <2>2. Placed(Rpc(method, via))
    BY RpcPlaced DEF Control
  <2>3. call[p] \in CallType
    BY DEF Control, Fields
  <2>4. call[p].ran \in Nat
    BY <2>3 DEF CallType
  <2>5. [call[p] EXCEPT !.rpc = Rpc(method, via)]
          = [call[p] EXCEPT !.rpc = Rpc(method, via), !.ran = call[p].ran]
    BY <2>3 DEF CallType
  <2>6. call' = [call EXCEPT ![p] = [@ EXCEPT !.rpc = Rpc(method, via), !.ran = call[p].ran]]
    BY <2>1, <2>5
  <2>7. CallsKept
    BY <1>5, <2>2, <2>4, <2>6, Asks
  <2> QED
    BY <2>7, Kept
<1> QED
  BY <1>2, <1>3, <1>4, <1>5

LEMMA GetStateKeeps ==
    ASSUME Control, NEW t \in Threads, GetState(t)
    PROVE  Control'
<1>1. t \in Processes
  BY DEF Processes
<1>2. ~Idle(t) /\ Head(call[t].todo) = "state"
  BY DEF GetState, At
<1>3. adopted \in {"none", "checked", "unchecked"} /\ stateService \in 0..conns
  BY DEF Control, Fields
<1>4. "CurrentState" \in Methods /\ "panic" \in Outcome /\ "final" \in Outcome
  BY DEF Methods, Outcome, Results
<1> QED
  BY <1>1, <1>2, <1>3, <1>4, PhaseKeeps DEF GetState, Asking

LEMMA StateAnsweredKeeps ==
    ASSUME Control, NEW t \in Threads, StateAnswered(t)
    PROVE  Control'
<1>1. t \in Processes
  BY DEF Processes
<1>2. ~Idle(t) /\ Head(call[t].todo) = "state"
  BY AnsweredPhase DEF StateAnswered
<1>3. adopted \in {"none", "checked", "unchecked"} /\ call[t].rpc.result \in Outcome
  BY <1>1 DEF Control, Fields, CallType, RpcType, Outcome
<1> QED
  BY <1>1, <1>2, <1>3, PhaseKeeps DEF StateAnswered

LEMMA CallServiceKeeps ==
    ASSUME Control, NEW t \in Threads, CallService(t)
    PROVE  Control'
<1>1. t \in Processes
  BY DEF Processes
<1>2. ~Idle(t) /\ Head(call[t].todo) = "rpc"
  BY DEF CallService, At
<1>3. adopted \in {"none", "checked", "unchecked"} /\ service \in 0..conns
  BY DEF Control, Fields
<1>4. RpcOf[call[t].op] \in Methods
  BY <1>1, <1>2, OperationsHaveStubs DEF Control, Shaped
<1>5. "panic" \in Outcome /\ "final" \in Outcome
  BY DEF Outcome, Results
<1> QED
  BY <1>1, <1>2, <1>3, <1>4, <1>5, PhaseKeeps DEF CallService, Asking

LEMMA ServiceAnsweredKeeps ==
    ASSUME Control, NEW t \in Threads, ServiceAnswered(t)
    PROVE  Control'
<1>1. t \in Processes
  BY DEF Processes
<1>2. ~Idle(t) /\ Head(call[t].todo) = "rpc"
  BY AnsweredPhase DEF ServiceAnswered
<1>3. adopted \in {"none", "checked", "unchecked"} /\ call[t].rpc.result \in Outcome
  BY <1>1 DEF Control, Fields, CallType, RpcType, Outcome
<1>4. "final" \in Outcome
  BY DEF Outcome, Results
<1> QED
  BY <1>1, <1>2, <1>3, <1>4, PhaseKeeps DEF ServiceAnswered

LEMMA SetStateKeeps ==
    ASSUME Control, NEW t \in Threads, SetState(t)
    PROVE  Control'
<1>1. t \in Processes
  BY DEF Processes
<1>2. ~Idle(t) /\ Head(call[t].todo) = "keep"
  BY DEF SetState, At
<1>3. adopted \in {"none", "checked", "unchecked"}
  BY DEF Control, Fields
<1>4. "panic" \in Outcome /\ "final" \in Outcome
  BY DEF Outcome, Results
<1> QED
  BY <1>1, <1>2, <1>3, <1>4, PhaseKeeps DEF SetState

LEMMA LookForKeyKeeps ==
    ASSUME Control, NEW t \in Threads, LookForKey(t)
    PROVE  Control'
<1>1. t \in Processes
  BY DEF Processes
<1>2. ~Idle(t) /\ Head(call[t].todo) = "key"
  BY DEF LookForKey, At
<1>3. adopted \in {"none", "checked", "unchecked"}
  BY DEF Control, Fields
<1>4. Advance(t, call[t], 1) \/ Advance(t, call[t], 2)
  BY DEF LookForKey
<1> QED
  BY <1>1, <1>2, <1>3, <1>4, PhaseKeeps DEF LookForKey

LEMMA CheckSignatureKeeps ==
    ASSUME Control, NEW t \in Threads, CheckSignature(t)
    PROVE  Control'
<1>1. t \in Processes
  BY DEF Processes
<1>2. ~Idle(t) /\ Head(call[t].todo) = "check"
  BY DEF CheckSignature, At
<1>3. adopted \in {"none", "checked", "unchecked"}
  BY DEF Control, Fields
<1>4. "panic" \in Outcome /\ "final" \in Outcome
  BY DEF Outcome, Results
<1> QED
  BY <1>1, <1>2, <1>3, <1>4, PhaseKeeps DEF CheckSignature

-----------------------------------------------------------------------------
(* The way of an RPC.                                                      *)

\* An RPC that has begun is in its chain, in a phase that makes one.
LEMMA InRpc ==
    ASSUME Control, NEW p \in Processes, call[p].rpc.stage # "none"
    PROVE  ~Idle(p) /\ Head(call[p].todo) \in Asking /\ Placed(call[p].rpc)
BY DEF Control, Fields, CallType, Shaped, Placed

\* An RPC that is changed within its chain keeps the invariant.
LEMMA RpcKeeps ==
    ASSUME Control, NEW p \in Processes, call[p].rpc.stage # "none",
           NEW r, Placed(r), UpdateRpc(p, r)
    PROVE  Control'
<1>1. CallsKept
  BY InRpc, Updates
<1> QED
  BY <1>1, Kept DEF UpdateRpc, Control, Fields

\* An interceptor passes an RPC on, to the next or to its own later part.
LEMMA InPlaced ==
    ASSUME NEW rpc, Placed(rpc), rpc.at \in DOMAIN Chain(rpc),
           NEW carries \in SUBSET {"apiKey", "metadata"}
    PROVE  /\ Placed(In(rpc)) /\ Placed([In(rpc) EXCEPT !.stage = "in"])
           /\ Placed([In(rpc) EXCEPT !.carries = carries])
           /\ Placed([rpc EXCEPT !.stage = "verify"])
<1>1. rpc.at \in 1..4 /\ rpc.at + 1 <= Len(Chain(rpc)) + 1
  BY ChainShort
<1>2. ASSUME NEW stage \in {"none", "in", "sent", "out", "verify", "done"}, NEW at \in 0..5,
             at <= Len(Chain(rpc)) + 1, NEW has \in SUBSET {"apiKey", "metadata"},
             NEW out, out = [rpc EXCEPT !.at = at, !.stage = stage, !.carries = has]
      PROVE  Placed(out)
  <2>1. out \in RpcType /\ out.via = rpc.via /\ out.method = rpc.method /\ out.at = at
    BY <1>2 DEF Placed, RpcType
  <2>2. Chain(out) = Chain(rpc)
    BY <2>1 DEF Chain
  <2> QED
    BY <1>2, <2>1, <2>2 DEF Placed
<1>3. PICK next \in 0..5 : next = rpc.at + 1
  BY <1>1
<1>4. rpc.stage \in {"none", "in", "sent", "out", "verify", "done"} /\ rpc.at \in 0..5
      /\ rpc.carries \in SUBSET {"apiKey", "metadata"} /\ rpc.at <= Len(Chain(rpc)) + 1
  BY DEF Placed, RpcType
<1>5. In(rpc) = [rpc EXCEPT !.at = next, !.stage = rpc.stage, !.carries = rpc.carries]
  BY <1>3 DEF In, Placed, RpcType
<1>6. [In(rpc) EXCEPT !.stage = "in"] = [rpc EXCEPT !.at = next, !.stage = "in", !.carries = rpc.carries]
  BY <1>3 DEF In, Placed, RpcType
<1>7. [In(rpc) EXCEPT !.carries = carries]
        = [rpc EXCEPT !.at = next, !.stage = rpc.stage, !.carries = carries]
  BY <1>3 DEF In, Placed, RpcType
<1>8. [rpc EXCEPT !.stage = "verify"]
        = [rpc EXCEPT !.at = rpc.at, !.stage = "verify", !.carries = rpc.carries]
  BY DEF Placed, RpcType
<1>9. next <= Len(Chain(rpc)) + 1
  BY <1>1, <1>3
<1>10. Placed(In(rpc))
  BY <1>2, <1>4, <1>5, <1>9
<1>11. Placed([In(rpc) EXCEPT !.stage = "in"])
  BY <1>2, <1>4, <1>6, <1>9
<1>12. Placed([In(rpc) EXCEPT !.carries = carries])
  BY <1>2, <1>4, <1>7, <1>9
<1>13. Placed([rpc EXCEPT !.stage = "verify"])
  BY <1>2, <1>4, <1>8
<1> QED
  BY <1>10, <1>11, <1>12, <1>13

\* An RPC at an interceptor has begun and is at a place of its chain.
LEMMA BeforePlaced ==
    ASSUME Control, NEW p \in Processes, NEW stage \in {"in", "out"}, NEW name,
           Before(call[p].rpc, stage, name)
    PROVE  /\ call[p].rpc.stage # "none"
           /\ call[p].rpc.at \in DOMAIN Chain(call[p].rpc)
           /\ Placed(call[p].rpc)
<1>1. call[p].rpc.stage # "none" /\ call[p].rpc.at \in DOMAIN Chain(call[p].rpc)
  BY DEF Before
<1> QED
  BY <1>1, InRpc

LEMMA EnterKeeps ==
    ASSUME Control, NEW p \in Processes,
           EnterVerifier(p) \/ CheckConnection(p) \/ SetApiKey(p) \/ EnterRetry(p)
    PROVE  Control'
<1> DEFINE rpc == call[p].rpc
<1>1. rpc.stage # "none" /\ rpc.at \in DOMAIN Chain(rpc) /\ Placed(rpc)
  BY BeforePlaced DEF EnterVerifier, CheckConnection, SetApiKey, EnterRetry
<1>2. Placed(In(rpc)) /\ Placed([In(rpc) EXCEPT !.carries = Credentials(rpc)])
  <2>1. Credentials(rpc) \in SUBSET {"apiKey", "metadata"}
    BY DEF Credentials
  <2> QED
    BY <1>1, <2>1, InPlaced
<1>3. \A r \in Results : Placed(OutWith(rpc, r))
  BY <1>1, OutPlaced DEF Control
<1>4. PICK r : Placed(r) /\ UpdateRpc(p, r)
  BY <1>2, <1>3 DEF EnterVerifier, CheckConnection, SetApiKey, EnterRetry, Results
<1> QED
  BY <1>1, <1>4, RpcKeeps

LEMMA LeaveKeeps ==
    ASSUME Control, NEW p \in Processes, Retry(p) \/ LeaveVerifier(p)
    PROVE  Control'
<1> DEFINE rpc == call[p].rpc
<1>1. rpc.stage # "none" /\ rpc.at \in DOMAIN Chain(rpc) /\ Placed(rpc)
  BY BeforePlaced DEF Retry, LeaveVerifier
<1>2. Placed([In(rpc) EXCEPT !.stage = "in"]) /\ Placed([rpc EXCEPT !.stage = "verify"])
  BY <1>1, InPlaced
<1>3. Placed(Out(rpc)) /\ \A r \in Results : Placed(OutWith(rpc, r))
  BY <1>1, OutPlaced DEF Control
<1>4. PICK r : Placed(r) /\ UpdateRpc(p, r)
  BY <1>2, <1>3 DEF Retry, LeaveVerifier, Results
<1> QED
  BY <1>1, <1>4, RpcKeeps

LEMMA ReceiveKeeps ==
    ASSUME Control, NEW p \in Processes, Receive(p)
    PROVE  Control'
<1>1. call[p].rpc.stage # "none"
  BY DEF Receive
<1>2. \A r \in Results : Placed(OutWith(call[p].rpc, r))
  BY <1>1, InRpc, OutPlaced DEF Control
<1>3. PICK r \in Results : UpdateRpc(p, OutWith(call[p].rpc, r))
  BY DEF Receive, Results
<1> QED
  BY <1>1, <1>2, <1>3, RpcKeeps

LEMMA VerifyReplyKeeps ==
    ASSUME Control, NEW p \in Processes, VerifyReply(p)
    PROVE  Control'
<1> DEFINE rpc == call[p].rpc
<1>1. rpc.stage # "none"
  BY DEF VerifyReply
<1>2. ~Idle(p) /\ Head(call[p].todo) \in Asking /\ Placed(rpc)
  BY <1>1, InRpc
<1>3. /\ Placed([Out(rpc) EXCEPT !.checked = TRUE])
      /\ \A r \in Results : Placed(OutWith(rpc, r))
  BY <1>2, OutPlaced DEF Control
<1>4. CASE \E r : Placed(r) /\ UpdateRpc(p, r)
  BY <1>1, <1>4, RpcKeeps
<1>5. CASE Return(p, "panic") /\ UNCHANGED <<net, fields, keys, adopted, swapped>>
  <2>1. "panic" \in Outcome /\ adopted \in {"none", "checked", "unchecked"}
    BY DEF Outcome, Control, Fields
  <2> QED
    BY <1>2, <1>5, <2>1, PhaseKeeps DEF Asking
<1> QED
  BY <1>3, <1>4, <1>5 DEF VerifyReply, Results

LEMMA SendKeeps ==
    ASSUME Control, NEW p \in Processes, Send(p)
    PROVE  Control'
<1> DEFINE rpc == [call[p].rpc EXCEPT !.attempts = @ + 1]
<1>1. call[p].rpc \in RpcType /\ call[p].ran \in Nat /\ call[p] \in CallType
  BY DEF Control, Fields, CallType
<1>2. rpc \in RpcType /\ rpc.stage = call[p].rpc.stage /\ rpc.via = call[p].rpc.via
      /\ rpc.at = call[p].rpc.at /\ rpc.method = call[p].rpc.method
  BY <1>1 DEF RpcType
<1>3. call[p].rpc.stage = "in"
  BY <1>2 DEF Send
<1>4. ~Idle(p) /\ Head(call[p].todo) \in Asking /\ Placed(call[p].rpc)
  BY <1>3, InRpc
<1>5. Placed(rpc)
  <2>1. Chain(rpc) = Chain(call[p].rpc)
    BY <1>2 DEF Chain
  <2> QED
    BY <1>2, <1>4, <2>1 DEF Placed
<1>6. Placed([rpc EXCEPT !.stage = "sent"])
  <2> HIDE DEF rpc
  <2>1. /\ [rpc EXCEPT !.stage = "sent"] \in RpcType
        /\ [rpc EXCEPT !.stage = "sent"].via = rpc.via
        /\ [rpc EXCEPT !.stage = "sent"].at = rpc.at
        /\ [rpc EXCEPT !.stage = "sent"].method = rpc.method
    BY <1>5 DEF Placed, RpcType
  <2>2. Chain([rpc EXCEPT !.stage = "sent"]) = Chain(rpc)
    BY <2>1 DEF Chain
  <2> QED
    BY <1>5, <2>1, <2>2 DEF Placed
<1>7. \A r \in Results : Placed(OutWith(rpc, r))
  BY <1>5, OutPlaced DEF Control
<1>8. UNCHANGED <<net, fields, keys, lock, swapped>> /\ adopted' = adopted
  BY DEF Send
<1> HIDE DEF rpc
<1>9. CASE \E r \in {"transient", "final"} : call' = [call EXCEPT ![p].rpc = OutWith(rpc, r)]
  <2>1. PICK r \in Results : call' = [call EXCEPT ![p].rpc = OutWith(rpc, r)]
    BY <1>9 DEF Results
  <2>2. UpdateRpc(p, OutWith(rpc, r))
    BY <1>8, <2>1 DEF UpdateRpc
  <2> QED
    BY <1>3, <1>7, <2>2, RpcKeeps
<1>10. CASE \E k \in Nat : call' = [call EXCEPT ![p].rpc = [rpc EXCEPT !.stage = "sent"],
                                                ![p].ran = k]
  <2> DEFINE sent == [rpc EXCEPT !.stage = "sent"]
  <2>1. PICK k \in Nat : call' = [call EXCEPT ![p].rpc = sent, ![p].ran = k]
    BY <1>10
  <2> HIDE DEF sent
  <2>2. call' = [call EXCEPT ![p] = [@ EXCEPT !.rpc = sent, !.ran = k]]
    BY <2>1 DEF Control, Fields
  <2>3. CallsKept
    BY <1>4, <1>6, <1>8, <2>2, Asks DEF sent
  <2> QED
    BY <1>8, <2>3, Kept DEF Control, Fields
<1>11. \A b \in BOOLEAN : (IF b THEN call[p].ran + 1 ELSE call[p].ran) \in Nat
  BY <1>1
<1> QED
  BY <1>1, <1>9, <1>10, <1>11 DEF Send, rpc

-----------------------------------------------------------------------------
(* The owner.                                                              *)

\* Calls in order, with new values of the client's fields.
LEMMA FieldsKept ==
    ASSUME Control, CallsKept, UNCHANGED <<options, stateService, keys, adopted, swapped>>,
           conns' \in Injected..MaxConns, conns' >= conns, open' \subseteq Injected..conns',
           clientConn' \in 0..conns', service' \in 0..conns'
    PROVE  Control'
<1>1. stateService \in 0..conns' /\ options \in OptionsType /\ pubKey \in BOOLEAN
      /\ keySets \in 0..MaxKeySets /\ adopted \in {"none", "checked", "unchecked"}
      /\ swapped \subseteq Threads
  BY DEF Control, Fields, Injected
<1> QED
  BY <1>1 DEF Control, CallsKept, Fields, keys

\* The owner is one of the processes and holds no lock.
LEMMA OwnerIdle == Owner \in Processes /\ Owner \notin Threads
BY ConnectionAssumption DEF Processes

LEMMA ConnectKeeps ==
    ASSUME Control, Connect
    PROVE  Control'
<1> DEFINE todo == <<"dial", "stubs", "health">>
<1>1. todo \in Seq(Phase) /\ todo # <<>> /\ Ordered(todo) /\ Head(todo) # "acquire"
  BY DEF Phase, Ordered
<1> HIDE DEF todo
<1>2. CallsKept
  BY <1>1, OwnerIdle, Starts DEF Connect, net, todo
<1> QED
  BY <1>2, Kept DEF Connect, Control, Fields

LEMMA DisconnectKeeps ==
    ASSUME Control, Disconnect
    PROVE  Control'
<1> DEFINE todo == <<"close">>
<1>1. todo \in Seq(Phase) /\ todo # <<>> /\ Ordered(todo) /\ Head(todo) # "acquire"
  BY DEF Phase, Ordered
<1> HIDE DEF todo
<1>2. CallsKept
  BY <1>1, OwnerIdle, Starts DEF Disconnect, net, todo
<1> QED
  BY <1>2, FieldsKept DEF Disconnect, net, Control, Fields, Injected, Nil

LEMMA DialKeeps ==
    ASSUME Control, Dial
    PROVE  Control'
<1>1. ~Idle(Owner) /\ Head(call[Owner].todo) = "dial"
  BY DEF Dial, At
<1>2. /\ conns \in Injected..MaxConns /\ open \subseteq Injected..conns
      /\ service \in 0..conns
      /\ UNCHANGED <<options, service, stateService, keys, adopted, swapped>>
  BY DEF Dial, Control, Fields
<1>3. CASE /\ conns < MaxConns
           /\ conns' = conns + 1
           /\ open' = open \cup {conns + 1}
           /\ clientConn' = conns + 1
           /\ Advance(Owner, call[Owner], 1)
  <2>1. conns' \in Injected..MaxConns /\ conns' >= conns /\ open' \subseteq Injected..conns'
        /\ clientConn' \in 0..conns' /\ service' \in 0..conns'
    BY <1>2, <1>3, ConnectionAssumption DEF Injected
  <2>2. conns' \in Nat
    BY <1>2, <1>3 DEF Injected
  <2>3. CallsKept
    BY <1>1, <1>2, <1>3, <2>1, <2>2, OwnerIdle, Advances
  <2> QED
    BY <1>2, <2>1, <2>3, FieldsKept
<1>4. CASE clientConn' = Nil /\ Return(Owner, "final") /\ UNCHANGED <<conns, open>>
  <2>1. conns' \in Nat /\ conns' >= conns
    BY <1>2, <1>4 DEF Injected
  <2>2. CallsKept
    BY <1>1, <1>2, <1>4, <2>1, OwnerIdle, Returns DEF Outcome, Results
  <2> QED
    BY <1>2, <1>4, <2>1, <2>2, FieldsKept DEF Injected, Nil
<1> QED
  BY <1>3, <1>4 DEF Dial

LEMMA MakeStubsKeeps ==
    ASSUME Control, MakeStubs
    PROVE  Control'
<1>1. ~Idle(Owner) /\ Head(call[Owner].todo) = "stubs"
  BY DEF MakeStubs, At
<1>2. /\ conns \in Injected..MaxConns /\ open \subseteq Injected..conns
      /\ clientConn \in 0..conns
      /\ UNCHANGED <<options, conns, open, clientConn, stateService, keys, adopted, swapped>>
      /\ service' = clientConn
  BY DEF MakeStubs, net, Control, Fields
<1>3. conns' \in Nat /\ conns' >= conns
  BY <1>2 DEF Injected
<1>4. CallsKept
  BY <1>1, <1>2, <1>3, OwnerIdle, Advances DEF MakeStubs
<1> QED
  BY <1>2, <1>3, <1>4, FieldsKept

LEMMA AskUuidKeeps ==
    ASSUME Control, AskUuid
    PROVE  Control'
<1>1. ~Idle(Owner) /\ Head(call[Owner].todo) = "health"
  BY DEF AskUuid, At
<1>2. adopted \in {"none", "checked", "unchecked"} /\ service \in 0..conns
  BY DEF Control, Fields
<1>3. "Health" \in Methods
  BY DEF Methods
<1> QED
  BY <1>1, <1>2, <1>3, OwnerIdle, PhaseKeeps DEF AskUuid, Asking

\* A thread that waits for the lock, or is about to defer its release, may find
\* another state service than it locked: it counts as swapped.
LEMMA NewLcStateServiceKeeps ==
    ASSUME Control, NewLcStateService
    PROVE  Control'
<1>1. ~Idle(Owner) /\ Head(call[Owner].todo) = "health"
  BY AnsweredPhase DEF NewLcStateService
<1>2. /\ UNCHANGED <<options, conns, open, clientConn, service, keys, adopted>>
      /\ swapped' = swapped \cup {t \in Threads : At(t, "acquire") \/ At(t, "defer")}
      /\ conns \in Nat
  BY DEF NewLcStateService, net, Control, Fields, Injected
<1>3. CallsKept /\ stateService' \in 0..conns
  <2>1. CASE stateService' = call[Owner].rpc.via /\ Advance(Owner, call[Owner], 1)
    <3>1. CallsKept
      BY <1>1, <1>2, <2>1, OwnerIdle, Advances
    <3>2. call[Owner].rpc.via \in 0..conns
      <4>1. call[Owner] \in CallType /\ Shaped(Owner)
        BY OwnerIdle DEF Control, Fields
      <4> QED
        BY <1>2, <4>1, ConnectionAssumption DEF CallType, RpcType, Shaped
    <3> QED
      BY <2>1, <3>1, <3>2
  <2>2. CASE stateService' = Nil /\ Return(Owner, "final")
    <3>1. CallsKept
      BY <1>1, <1>2, <2>2, OwnerIdle, Returns DEF Outcome, Results
    <3> QED
      BY <1>2, <2>2, <3>1 DEF Nil
  <2> QED
    BY <2>1, <2>2 DEF NewLcStateService
<1>4. \A t \in Threads : call'[t] = call[t] /\ lock' \in {lock, NoOne} /\ t # Owner
  BY OwnerIdle DEF NewLcStateService, Advance, Return, Control, Fields, Processes
<1>5. ASSUME NEW t \in Threads
      PROVE  Held(t)'
  <2>1. SUFFICES ASSUME t \notin swapped'
                 PROVE  Held(t)'
    BY DEF Held
  <2>2. t \notin swapped /\ ~At(t, "acquire") /\ ~At(t, "defer")
    BY <1>2, <2>1
  <2>3. ~Idle(t) => Head(call[t].todo) \notin {"acquire", "defer"}
    <3>1. t \in Processes
      BY DEF Processes
    <3>2. Shaped(t)
      BY <3>1 DEF Control
    <3> QED
      BY <2>2, <3>2 DEF Shaped, At, Asking
  <2>4. Held(t) /\ NoOne # t
    BY ConnectionAssumption DEF Control
  <2> QED
    BY <1>4, <2>1, <2>2, <2>3, <2>4 DEF Held, Idle
<1> QED
  BY <1>2, <1>3, <1>5 DEF Control, CallsKept, Fields, keys

LEMMA CloseConnKeeps ==
    ASSUME Control, CloseConn
    PROVE  Control'
<1>1. ~Idle(Owner) /\ Head(call[Owner].todo) = "close"
  BY DEF CloseConn, At
<1>2. /\ UNCHANGED <<options, conns, clientConn, service, stateService, keys, adopted, swapped>>
      /\ conns \in Injected..MaxConns /\ conns' \in Nat /\ conns' >= conns
      /\ clientConn \in 0..conns /\ service \in 0..conns
      /\ open' \subseteq Injected..conns
  BY DEF CloseConn, fields, Control, Fields, Injected
<1>3. PICK result \in Outcome : Return(Owner, result)
  BY DEF CloseConn, Outcome, Results
<1>4. CallsKept
  BY <1>1, <1>2, <1>3, OwnerIdle, Returns
<1> QED
  BY <1>2, <1>4, FieldsKept

LEMMA CallsUntouched ==
    ASSUME Control, UNCHANGED <<net, fields, lock, swapped, call>>
    PROVE  CallsKept
<1>1. options' = options /\ conns' = conns /\ conns \in Nat /\ lock' = lock
      /\ stateService' = stateService /\ call' = call /\ swapped' = swapped
  BY DEF net, fields, Control, Fields, Injected
<1>2. \A q \in Processes : Shaped(q)'
  BY <1>1, ShapedElsewhere
<1>3. \A t \in Threads : Held(t)'
  BY <1>1 DEF Control, Held, Idle
<1> QED
  BY <1>1, <1>2, <1>3 DEF CallsKept, Control, Fields

LEMMA SetServerSigningPubKeyKeeps ==
    ASSUME Control, SetServerSigningPubKey
    PROVE  Control'
<1>1. CallsKept
  BY CallsUntouched DEF SetServerSigningPubKey
<1>2. pubKey' \in BOOLEAN /\ keySets' \in 0..MaxKeySets
  BY ConnectionAssumption DEF SetServerSigningPubKey, Control, Fields
<1> QED
  BY <1>1, <1>2 DEF SetServerSigningPubKey, Control, CallsKept, Fields, net, fields

-----------------------------------------------------------------------------
(* The specification.                                                      *)

LEMMA InitControl == Init => Control
<1> SUFFICES ASSUME Init
             PROVE  Control
  OBVIOUS
<1> DEFINE none == Started("none", <<>>)
<1>1. options \in OptionsType
  BY SettersAssumption DEF Init
<1>2. NoRpc \in RpcType /\ NoRpc.stage = "none" /\ NoRpc.at = 0 /\ NoRpc.via = 0
  BY ConnectionAssumption DEF NoRpc, RpcType, Nil
<1>3. none \in CallType /\ none.todo = <<>> /\ none.rpc = NoRpc
      /\ none.lockOn = 0 /\ none.unlockOn = 0
  <2>1. <<>> \in Seq(Phase)
    OBVIOUS
  <2> QED
    BY <1>2, <2>1, ConnectionAssumption DEF Started, CallType, Outcome, Nil
<1>4. call = [p \in Processes |-> none]
  BY DEF Init
<1> HIDE DEF none
<1>5. Fields
  <2>1. clientConn \in 0..1 /\ service \in 0..1 /\ stateService \in 0..1 /\ pubKey \in BOOLEAN
    BY <1>1 DEF Init, OptionsType, Nil, Injected
  <2>2. conns = 1 /\ conns \in 1..MaxConns /\ open \subseteq 1..1
    BY ConnectionAssumption DEF Init, Injected
  <2>3. /\ keySets \in 0..MaxKeySets /\ lock \in Threads \cup {NoOne}
        /\ adopted \in {"none", "checked", "unchecked"} /\ swapped \subseteq Threads
    BY ConnectionAssumption DEF Init
  <2>4. call \in [Processes -> CallType]
    BY <1>3, <1>4
  <2> QED
    BY <1>1, <2>1, <2>2, <2>3, <2>4 DEF Fields, Injected
<1>6. ASSUME NEW p \in Processes
      PROVE  Shaped(p)
  <2>1. Ordered(<<>>)
    BY DEF Ordered
  <2>2. call[p] = none /\ conns = 1
    BY <1>4 DEF Init, Injected
  <2> QED
    BY <1>2, <1>3, <2>1, <2>2, ChainShort DEF Shaped, Idle
<1>7. ASSUME NEW t \in Threads
      PROVE  Held(t)
  <2>1. lock # t /\ call[t] = none
    BY <1>4, ConnectionAssumption DEF Init, Processes
  <2> QED
    BY <1>3, <2>1 DEF Held, Idle
<1> QED
  BY <1>5, <1>6, <1>7 DEF Control

LEMMA InterceptKeeps ==
    ASSUME Control, NEW p \in Processes, Intercept(p)
    PROVE  Control'
<1>1. CASE EnterVerifier(p) \/ CheckConnection(p) \/ SetApiKey(p) \/ EnterRetry(p)
  BY <1>1, EnterKeeps
<1>2. CASE Send(p)
  BY <1>2, SendKeeps
<1>3. CASE Retry(p) \/ LeaveVerifier(p)
  BY <1>3, LeaveKeeps
<1>4. CASE VerifyReply(p)
  BY <1>4, VerifyReplyKeeps
<1> QED
  BY <1>1, <1>2, <1>3, <1>4 DEF Intercept

LEMMA StepKeeps ==
    ASSUME Control, NEW t \in Threads, Step(t)
    PROVE  Control'
<1>1. t \in Processes
  BY DEF Processes
<1>2. CASE CacheLock(t)
  BY <1>2, CacheLockKeeps
<1>3. CASE DeferUnlock(t)
  BY <1>3, DeferUnlockKeeps
<1>4. CASE GetState(t)
  BY <1>4, GetStateKeeps
<1>5. CASE StateAnswered(t)
  BY <1>5, StateAnsweredKeeps
<1>6. CASE CallService(t)
  BY <1>6, CallServiceKeeps
<1>7. CASE ServiceAnswered(t)
  BY <1>7, ServiceAnsweredKeeps
<1>8. CASE SetState(t)
  BY <1>8, SetStateKeeps
<1>9. CASE LookForKey(t)
  BY <1>9, LookForKeyKeeps
<1>10. CASE CheckSignature(t)
  BY <1>10, CheckSignatureKeeps
<1>11. CASE Intercept(t)
  BY <1>1, <1>11, InterceptKeeps
<1> QED
  BY <1>2, <1>3, <1>4, <1>5, <1>6, <1>7, <1>8, <1>9, <1>10, <1>11 DEF Step

LEMMA OwnerStepKeeps ==
    ASSUME Control, OwnerStep
    PROVE  Control'
<1>1. CASE Dial
  BY <1>1, DialKeeps
<1>2. CASE MakeStubs
  BY <1>2, MakeStubsKeeps
<1>3. CASE AskUuid
  BY <1>3, AskUuidKeeps
<1>4. CASE NewLcStateService
  BY <1>4, NewLcStateServiceKeeps
<1>5. CASE CloseConn
  BY <1>5, CloseConnKeeps
<1>6. CASE Intercept(Owner)
  BY <1>6, OwnerIdle, InterceptKeeps
<1> QED
  BY <1>1, <1>2, <1>3, <1>4, <1>5, <1>6 DEF OwnerStep

LEMMA NextKeeps == Control /\ [Next]_vars => Control'
<1> SUFFICES ASSUME Control, [Next]_vars
             PROVE  Control'
  OBVIOUS
<1>1. CASE \E t \in Threads : Step(t) \/ Acquire(t) \/ \E op \in Ops[t] : Begin(t, op)
  BY <1>1, StepKeeps, AcquireKeeps, BeginKeeps
<1>2. CASE \E p \in Processes : Receive(p)
  BY <1>2, ReceiveKeeps
<1>3. CASE OwnerStep
  BY <1>3, OwnerStepKeeps
<1>4. CASE Connect \/ Disconnect
  BY <1>4, ConnectKeeps, DisconnectKeeps
<1>5. CASE SetServerSigningPubKey
  BY <1>5, SetServerSigningPubKeyKeeps
<1>6. CASE UNCHANGED vars
  <2>1. CallsKept
    BY <1>6, CallsUntouched DEF vars
  <2> QED
    BY <1>6, <2>1, Kept DEF vars, Control, Fields
<1> QED
  BY <1>1, <1>2, <1>3, <1>4, <1>5, <1>6 DEF Next, Processes

LEMMA AlwaysControl == Spec => []Control
BY InitControl, NextKeeps, PTL DEF Spec

\* Whatever the goroutines, the options and the number of connections, every
\* field of the client and every call has a value it may have, and an RPC is
\* never beyond the end of the chain it was begun on, while calls retry and the
\* owner connects, disconnects and changes the key.
THEOREM TypeCorrect == Spec => []TypeOK
<1>1. Control => TypeOK
  <2> SUFFICES ASSUME Control
               PROVE  TypeOK
    OBVIOUS
  <2>1. ASSUME NEW p \in Processes
        PROVE  /\ call[p].rpc \in RpcType
               /\ call[p].rpc.at <= Len(Chain(call[p].rpc)) + 1
               /\ call[p].rpc.stage # "none" => ~Idle(p)
               /\ {call[p].lockOn, call[p].unlockOn} \subseteq 0..conns
               /\ call[p].outcome \in Results \cup {"none", "panic"}
    <3>1. Shaped(p) /\ call[p] \in CallType /\ conns \in Nat
      BY DEF Control, Fields, Injected
    <3>2. /\ call[p].rpc \in RpcType /\ call[p].lockOn \in Nat /\ call[p].unlockOn \in Nat
          /\ call[p].outcome \in Results \cup {"none", "panic"}
      BY <3>1, ConnectionAssumption DEF CallType, Outcome
    <3> QED
      BY <3>1, <3>2 DEF Shaped
  <2> QED
    BY <2>1 DEF Control, Fields, TypeOK
<1> QED
  BY <1>1, AlwaysControl, PTL

\* A call that is over, however it ended, holds the lock of the cache only if
\* the owner replaced the state service while the call was between its
\* CacheLock and the defer of its CacheUnlock (lc_api.go, the first lines of
\* each verified operation): for any number of goroutines and connections.
THEOREM LocksGivenBack == Spec => []LockGivenBack
<1>1. Control => LockGivenBack
  BY DEF Control, Held, LockGivenBack
<1> QED
  BY <1>1, AlwaysControl, PTL

=============================================================================
