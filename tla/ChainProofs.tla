---------------------------- MODULE ChainProofs -----------------------------
(***************************************************************************)
(* What the chain of interceptors gives every RPC of Connection, for any    *)
(* goroutines, options and bounds: the credentials of each attempt, the    *)
(* check of the first state that is trusted, and results that are true.    *)
(***************************************************************************)
EXTENDS ConnectionProofs

-----------------------------------------------------------------------------
(* What the place of an RPC in its chain says.                             *)

\* It is beyond the interceptor with this name.
Beyond(rpc, name) == \E i \in 1..(rpc.at - 1) : Chain(rpc)[i] = name

\* What an attempt has to carry.
AllCredentials == {c \in {"apiKey", "metadata"} : options[c]}

\* A stream gets its metadata only with a key.
Entitled(rpc) == options.apiKey \/ ~IsStream(rpc.method)

\* An RPC beyond the setter has the credentials; it is sent beyond all.
Keyed(rpc) ==
    /\ Entitled(rpc) /\ Beyond(rpc, "ApiKeySetter") => rpc.carries = AllCredentials
    /\ rpc.stage = "sent" => rpc.at = Len(Chain(rpc)) + 1

\* The RPCs the verifier checks the reply of.
Verifying(rpc) == options.key /\ rpc.via # Injected /\ rpc.method = "CurrentState"

\* Such an RPC is not done before the verifier, and done well only if checked.
Verified(rpc) ==
    Verifying(rpc) =>
        /\ rpc.stage \in {"in", "sent", "out"} => rpc.at >= 1
        /\ rpc.stage = "done" /\ rpc.result = "ok" => rpc.checked

Way(rpc) == Keyed(rpc) /\ Verified(rpc)

-----------------------------------------------------------------------------
(* Chains.                                                                 *)

\* A chain of the client's has the setter, and the retry not first; the chain of
\* CurrentState begins with the verifier if there is a key.
LEMMA Chains ==
    ASSUME NEW rpc
    PROVE  /\ rpc.via # Injected => \E i \in 1..Len(Chain(rpc)) : Chain(rpc)[i] = "ApiKeySetter"
           /\ \A i \in 1..Len(Chain(rpc)) : Chain(rpc)[i] = "Retry" => i >= 2
           /\ Verifying(rpc) => Len(Chain(rpc)) = 4 /\ Chain(rpc)[1] = "SignatureVerifier"
<1>1. CASE rpc.via = Injected
  <2>1. Chain(rpc) = <<>>
    BY <1>1 DEF Chain
  <2> QED
    BY <1>1, <2>1 DEF Verifying
<1>2. CASE rpc.via # Injected /\ IsStream(rpc.method)
  <2>1. Chain(rpc) = <<"ApiKeySetter", "Retry">>
    BY <1>2 DEF Chain, StreamChain
  <2>2. rpc.method # "CurrentState"
    BY <1>2, CurrentStateIsUnary
  <2> QED
    BY <2>1, <2>2 DEF Verifying
<1>3. CASE rpc.via # Injected /\ ~IsStream(rpc.method) /\ options.key
  <2>1. Chain(rpc) = <<"SignatureVerifier", "ConnectionChecker", "ApiKeySetter", "Retry">>
    BY <1>3 DEF Chain, UnaryChain
  <2> QED
    BY <2>1
<1>4. CASE rpc.via # Injected /\ ~IsStream(rpc.method) /\ ~options.key
  <2>1. Chain(rpc) = <<"ConnectionChecker", "ApiKeySetter", "Retry">>
    BY <1>4 DEF Chain, UnaryChain
  <2> QED
    BY <1>4, <2>1 DEF Verifying
<1> QED
  BY <1>1, <1>2, <1>3, <1>4

\* A step on the way out keeps what the place says, if it does not report an
\* unchecked success past the verifier.
LEMMA OutWay ==
    ASSUME Fields, NEW rpc, Placed(rpc), Way(rpc),
           NEW out, out.via = Out(rpc).via, out.method = Out(rpc).method,
           out.stage = Out(rpc).stage, out.at = Out(rpc).at, out.carries = Out(rpc).carries,
           Verifying(rpc) => rpc.at >= 2 \/ out.result # "ok" \/ out.checked
    PROVE  Way(out) /\ out.via = rpc.via /\ out.method = rpc.method
<1> DEFINE ahead == {i \in 1..(rpc.at - 1) : Chain(rpc)[i] \in {"Retry", "SignatureVerifier"}}
<1>1. rpc \in RpcType /\ rpc.at \in 0..5 /\ rpc.at <= Len(Chain(rpc)) + 1
      /\ Len(Chain(rpc)) \in 0..4
  BY ChainShort DEF Placed, RpcType
<1>2. CASE ahead = {}
  <2>1. Out(rpc) = [rpc EXCEPT !.stage = "done", !.at = 0]
    BY <1>2 DEF Out
  <2>2. /\ out.via = rpc.via /\ out.method = rpc.method /\ out.stage = "done" /\ out.at = 0
    BY <1>1, <2>1 DEF RpcType
  <2>3. ~Beyond(out, "ApiKeySetter")
    BY <2>2 DEF Beyond
  <2>4. Verifying(rpc) => ~(rpc.at >= 2)
    <3> SUFFICES ASSUME Verifying(rpc), rpc.at >= 2
                 PROVE  FALSE
      OBVIOUS
    <3>1. 1 \in 1..(rpc.at - 1) /\ Chain(rpc)[1] = "SignatureVerifier"
      BY <1>1, Chains
    <3> QED
      BY <1>2, <3>1
  <2> QED
    BY <2>2, <2>3, <2>4 DEF Way, Keyed, Verified, Verifying
<1>3. CASE ahead # {}
  <2>1. Max(ahead) \in 1..(rpc.at - 1)
    <3>1. ahead \in SUBSET (1..4)
      BY <1>1
    <3> HIDE DEF ahead
    <3>2. Max(ahead) \in ahead
      BY <1>3, <3>1, MaxIsOne
    <3> QED
      BY <3>2 DEF ahead
  <2>2. Out(rpc) = [rpc EXCEPT !.stage = "out", !.at = Max(ahead)]
    BY <1>3 DEF Out
  <2> HIDE DEF ahead
  <2>3. /\ out.via = rpc.via /\ out.method = rpc.method /\ out.stage = "out"
        /\ out.at = Max(ahead) /\ out.carries = rpc.carries
    BY <1>1, <2>2 DEF RpcType
  <2>4. Chain(out) = Chain(rpc)
    BY <2>3 DEF Chain
  <2>5. Beyond(out, "ApiKeySetter") => Beyond(rpc, "ApiKeySetter")
    BY <1>1, <2>1, <2>3, <2>4 DEF Beyond
  <2>6. out.at >= 1
    BY <1>1, <2>1, <2>3
  <2> QED
    BY <2>3, <2>5, <2>6 DEF Way, Keyed, Entitled, Verified
<1> QED
  BY <1>2, <1>3

\* So does one that changes the result only, not to an unchecked success.
LEMMA OutWithWay ==
    ASSUME Fields, NEW rpc, Placed(rpc), Way(rpc), NEW result \in Results,
           Verifying(rpc) => rpc.at >= 2 \/ result # "ok"
    PROVE  /\ Way(OutWith(rpc, result))
           /\ OutWith(rpc, result).via = rpc.via /\ OutWith(rpc, result).method = rpc.method
<1> DEFINE out == OutWith(rpc, result)
<1>1. Out(rpc) \in RpcType
  BY OutPlaced DEF Placed
<1>2. /\ out.via = Out(rpc).via /\ out.method = Out(rpc).method /\ out.stage = Out(rpc).stage
      /\ out.at = Out(rpc).at /\ out.carries = Out(rpc).carries /\ out.result = result
  BY <1>1 DEF OutWith, RpcType
<1> HIDE DEF out
<1>3. Way(out) /\ out.via = rpc.via /\ out.method = rpc.method
  BY <1>2, OutWay
<1> QED
  BY <1>3 DEF out

\* And one that changes nothing else, before the verifier or past it for an RPC
\* that it does not check.
LEMMA OutPlainWay ==
    ASSUME Fields, NEW rpc, Placed(rpc), Way(rpc), Verifying(rpc) => rpc.at >= 2
    PROVE  Way(Out(rpc)) /\ Out(rpc).via = rpc.via /\ Out(rpc).method = rpc.method
<1> DEFINE out == Out(rpc)
<1>1. Way(out) /\ out.via = rpc.via /\ out.method = rpc.method
  BY OutWay
<1> QED
  BY <1>1

\* An interceptor that passes an RPC on keeps what the place says, if it is not
\* the setter or adds the credentials.
LEMMA InWay ==
    ASSUME NEW rpc, Placed(rpc), Way(rpc), rpc.at \in DOMAIN Chain(rpc),
           NEW in, in.via = rpc.via, in.method = rpc.method, in.stage \in {"in", "out"},
           in.at = rpc.at + 1,
           IF Chain(rpc)[rpc.at] = "ApiKeySetter" THEN Entitled(rpc) => in.carries = AllCredentials
                                                  ELSE in.carries = rpc.carries
    PROVE  Way(in)
<1>1. rpc \in RpcType /\ rpc.at \in 1..Len(Chain(rpc)) /\ Len(Chain(rpc)) \in 0..4
  BY ChainShort DEF Placed
<1>3. Chain(in) = Chain(rpc)
  BY DEF Chain
<1>4. Beyond(in, "ApiKeySetter") => Beyond(rpc, "ApiKeySetter") \/ Chain(rpc)[rpc.at] = "ApiKeySetter"
  BY <1>1, <1>3 DEF Beyond
<1>6. Entitled(in) <=> Entitled(rpc)
  BY DEF Entitled
<1>5. Entitled(in) /\ Beyond(in, "ApiKeySetter") => in.carries = AllCredentials
  <2>1. CASE Chain(rpc)[rpc.at] = "ApiKeySetter"
    BY <1>6, <2>1
  <2>2. CASE Chain(rpc)[rpc.at] # "ApiKeySetter"
    BY <1>4, <1>6, <2>2 DEF Way, Keyed
  <2> QED
    BY <2>1, <2>2
<1> QED
  BY <1>1, <1>5 DEF Way, Keyed, Verified

-----------------------------------------------------------------------------
(* The steps of an RPC.                                                    *)

\* The RPC of a process goes on over its connection, as its place says.
GoesItsWay(p) ==
    /\ call[p].rpc.stage # "none"
    /\ Way(call'[p].rpc)
    /\ call'[p].rpc.via = call[p].rpc.via
    /\ call'[p].rpc.method = call[p].rpc.method
    /\ call'[p].todo = call[p].todo

LEMMA UpdatedWay ==
    ASSUME Control, NEW p \in Processes, call[p].rpc.stage # "none",
           NEW r, UpdateRpc(p, r), Way(r),
           r.via = call[p].rpc.via, r.method = call[p].rpc.method
    PROVE  GoesItsWay(p)
<1>1. call[p] \in CallType /\ call' = [call EXCEPT ![p].rpc = r]
  BY DEF Control, Fields, UpdateRpc
<1>2. call'[p].rpc = r /\ call'[p].todo = call[p].todo
  BY <1>1 DEF Control, Fields, CallType
<1> QED
  BY <1>2 DEF GoesItsWay

\* The same with no credentials or with new ones.
LEMMA InPlainWay ==
    ASSUME NEW rpc, Placed(rpc), Way(rpc), rpc.at \in DOMAIN Chain(rpc),
           Chain(rpc)[rpc.at] # "ApiKeySetter", rpc.stage \in {"in", "out"}
    PROVE  /\ Way(In(rpc)) /\ In(rpc).via = rpc.via /\ In(rpc).method = rpc.method
           /\ Way([In(rpc) EXCEPT !.stage = "in"])
           /\ [In(rpc) EXCEPT !.stage = "in"].via = rpc.via
           /\ [In(rpc) EXCEPT !.stage = "in"].method = rpc.method
<1>1. rpc \in RpcType /\ rpc.at \in Nat /\ rpc.carries \in SUBSET {"apiKey", "metadata"}
  BY DEF Placed, RpcType
<1> DEFINE in == In(rpc)
           again == [in EXCEPT !.stage = "in"]
<1>2. /\ in.via = rpc.via /\ in.method = rpc.method /\ in.stage = rpc.stage
      /\ in.at = rpc.at + 1 /\ in.carries = rpc.carries
  BY <1>1 DEF In, RpcType
<1>3. /\ again.via = rpc.via /\ again.method = rpc.method /\ again.stage = "in"
      /\ again.at = rpc.at + 1 /\ again.carries = rpc.carries
  BY <1>1 DEF In, RpcType
<1> HIDE DEF in, again
<1>4. Way(in)
  BY <1>2, InWay
<1>5. Way(again)
  BY <1>3, InWay
<1> QED
  BY <1>2, <1>3, <1>4, <1>5 DEF in, again

LEMMA SetApiKeyWay ==
    ASSUME Control, NEW p \in Processes, Way(call[p].rpc), SetApiKey(p)
    PROVE  GoesItsWay(p)
<1> DEFINE rpc == call[p].rpc
           carries == Credentials(rpc)
<1>1. /\ rpc.stage = "in" /\ rpc.at \in DOMAIN Chain(rpc) /\ Chain(rpc)[rpc.at] = "ApiKeySetter"
      /\ Placed(rpc) /\ rpc \in RpcType
  BY BeforePlaced DEF SetApiKey, Before, Placed
<1>2. carries \in SUBSET {"apiKey", "metadata"} /\ (Entitled(rpc) => carries = AllCredentials)
  BY DEF Credentials, AllCredentials, Entitled
<1> DEFINE in == [In(rpc) EXCEPT !.carries = carries]
<1>3. /\ in.via = rpc.via /\ in.method = rpc.method /\ in.stage = "in"
      /\ in.at = rpc.at + 1 /\ in.carries = carries
  BY <1>1 DEF In, RpcType
<1>4. UpdateRpc(p, in)
  BY DEF SetApiKey
<1> HIDE DEF carries, in
<1>5. Way(in)
  BY <1>1, <1>2, <1>3, InWay
<1> QED
  BY <1>1, <1>3, <1>4, <1>5, UpdatedWay

LEMMA EnterWay ==
    ASSUME Control, NEW p \in Processes, Way(call[p].rpc),
           EnterVerifier(p) \/ CheckConnection(p) \/ EnterRetry(p)
    PROVE  GoesItsWay(p)
<1> DEFINE rpc == call[p].rpc
<1>1. /\ rpc.stage = "in" /\ rpc.at \in DOMAIN Chain(rpc) /\ Chain(rpc)[rpc.at] # "ApiKeySetter"
      /\ Placed(rpc)
  BY BeforePlaced DEF EnterVerifier, CheckConnection, EnterRetry, Before
<1>2. Way(In(rpc)) /\ In(rpc).via = rpc.via /\ In(rpc).method = rpc.method
  BY <1>1, InPlainWay
<1>3. ASSUME NEW result \in {"notConnected", "final"}
      PROVE  /\ Way(OutWith(rpc, result))
             /\ OutWith(rpc, result).via = rpc.via /\ OutWith(rpc, result).method = rpc.method
  BY <1>1, OutWithWay DEF Control, Results
<1>4. UpdateRpc(p, In(rpc)) \/ \E result \in {"notConnected", "final"} : UpdateRpc(p, OutWith(rpc, result))
  BY DEF EnterVerifier, CheckConnection, EnterRetry
<1> QED
  BY <1>1, <1>2, <1>3, <1>4, UpdatedWay

\* The way out, with or without another attempt.
LEMMA LeaveWay ==
    ASSUME Control, NEW p \in Processes, Way(call[p].rpc), Retry(p) \/ LeaveVerifier(p)
    PROVE  GoesItsWay(p)
<1> DEFINE rpc == call[p].rpc
           verify == [rpc EXCEPT !.stage = "verify"]
<1>1. /\ rpc.stage = "out" /\ rpc.at \in DOMAIN Chain(rpc) /\ Chain(rpc)[rpc.at] # "ApiKeySetter"
      /\ Placed(rpc) /\ rpc \in RpcType
  BY BeforePlaced DEF Retry, LeaveVerifier, Before, Placed
<1>2. CASE UpdateRpc(p, [In(rpc) EXCEPT !.stage = "in"])
  <2>1. /\ Way([In(rpc) EXCEPT !.stage = "in"])
        /\ [In(rpc) EXCEPT !.stage = "in"].via = rpc.via
        /\ [In(rpc) EXCEPT !.stage = "in"].method = rpc.method
    BY <1>1, InPlainWay
  <2>2. PICK r : r = [In(rpc) EXCEPT !.stage = "in"]
    OBVIOUS
  <2>3. UpdateRpc(p, r) /\ Way(r) /\ r.via = rpc.via /\ r.method = rpc.method
    BY <1>2, <2>1, <2>2
  <2> QED
    BY <1>1, <2>3, UpdatedWay
<1>3. CASE UpdateRpc(p, Out(rpc)) /\ (rpc.method = "CurrentState" => rpc.at >= 2)
  BY <1>1, <1>3, OutPlainWay, UpdatedWay DEF Control, Verifying
<1>4. CASE UpdateRpc(p, OutWith(rpc, "final"))
  BY <1>1, <1>4, OutWithWay, UpdatedWay DEF Control, Results
<1>5. CASE UpdateRpc(p, verify)
  <2>1. /\ verify.via = rpc.via /\ verify.method = rpc.method /\ verify.stage = "verify"
        /\ verify.at = rpc.at /\ verify.carries = rpc.carries
    BY <1>1 DEF RpcType
  <2> HIDE DEF verify
  <2>2. Chain(verify) = Chain(rpc)
    BY <2>1 DEF Chain
  <2>3. Way(verify)
    BY <2>1, <2>2 DEF Way, Keyed, Entitled, Verified, Beyond
  <2> QED
    BY <1>1, <1>5, <2>1, <2>3, UpdatedWay
<1>6. Retry(p) => rpc.at >= 2
  BY <1>1, Chains, ChainShort DEF Retry, Before
<1> QED
  BY <1>2, <1>3, <1>4, <1>5, <1>6 DEF Retry, LeaveVerifier

LEMMA VerifyReplyWay ==
    ASSUME Control, NEW p \in Processes, Way(call[p].rpc), VerifyReply(p)
    PROVE  GoesItsWay(p) \/ Return(p, "panic")
<1> DEFINE rpc == call[p].rpc
           checked == [Out(rpc) EXCEPT !.checked = TRUE]
<1>1. rpc.stage = "verify" /\ Placed(rpc)
  BY InRpc DEF VerifyReply
<1>2. Out(rpc) \in RpcType
  BY <1>1, OutPlaced DEF Control, Placed
<1>3. CASE UpdateRpc(p, checked)
  <2>1. /\ checked.via = Out(rpc).via /\ checked.method = Out(rpc).method
        /\ checked.stage = Out(rpc).stage /\ checked.at = Out(rpc).at
        /\ checked.carries = Out(rpc).carries /\ checked.checked
    BY <1>2 DEF RpcType
  <2> HIDE DEF checked
  <2>2. Way(checked) /\ checked.via = rpc.via /\ checked.method = rpc.method
    BY <1>1, <2>1, OutWay DEF Control
  <2> QED
    BY <1>1, <1>3, <2>2, UpdatedWay
<1>4. CASE UpdateRpc(p, OutWith(rpc, "final"))
  BY <1>1, <1>4, OutWithWay, UpdatedWay DEF Control, Results
<1> QED
  BY <1>3, <1>4 DEF VerifyReply

\* The answer comes to an RPC that is beyond its whole chain.
LEMMA ReceiveWay ==
    ASSUME Control, NEW p \in Processes, Way(call[p].rpc), Receive(p)
    PROVE  GoesItsWay(p)
<1> DEFINE rpc == call[p].rpc
<1>1. rpc.stage = "sent" /\ Placed(rpc)
  BY InRpc DEF Receive
<1>2. Verifying(rpc) => rpc.at >= 2
  <2>1. rpc.at = Len(Chain(rpc)) + 1
    BY <1>1 DEF Way, Keyed
  <2> QED
    BY <2>1, Chains
<1>3. PICK result \in Results : UpdateRpc(p, OutWith(rpc, result))
  BY DEF Receive, Results
<1> QED
  BY <1>1, <1>2, <1>3, OutWithWay, UpdatedWay DEF Control

LEMMA SendWay ==
    ASSUME Control, NEW p \in Processes, Way(call[p].rpc), Send(p)
    PROVE  GoesItsWay(p)
<1> DEFINE rpc == [call[p].rpc EXCEPT !.attempts = @ + 1]
           sent == [rpc EXCEPT !.stage = "sent"]
<1>1. call[p] \in CallType /\ call[p].rpc \in RpcType
  BY DEF Control, Fields, CallType
<1>2. /\ rpc \in RpcType /\ rpc.stage = call[p].rpc.stage /\ rpc.via = call[p].rpc.via
      /\ rpc.at = call[p].rpc.at /\ rpc.method = call[p].rpc.method
      /\ rpc.carries = call[p].rpc.carries /\ rpc.result = call[p].rpc.result
      /\ rpc.checked = call[p].rpc.checked
  BY <1>1 DEF RpcType
<1>3. rpc.stage = "in" /\ rpc.at = Len(Chain(rpc)) + 1
  BY DEF Send
<1>4. Chain(rpc) = Chain(call[p].rpc)
  BY <1>2 DEF Chain
<1>5. Placed(rpc) /\ Way(rpc)
  <2>1. Placed(call[p].rpc)
    BY <1>2, <1>3, InRpc
  <2> HIDE DEF rpc
  <2> QED
    BY <1>2, <1>4, <2>1 DEF Placed, Way, Keyed, Entitled, Verified, Verifying, Beyond
<1> HIDE DEF rpc
<1>6. /\ sent.via = rpc.via /\ sent.method = rpc.method /\ sent.stage = "sent"
      /\ sent.at = rpc.at /\ sent.carries = rpc.carries
  BY <1>2 DEF RpcType
<1> HIDE DEF sent
<1>7. Way(sent)
  <2>1. Chain(sent) = Chain(rpc)
    BY <1>6 DEF Chain
  <2> QED
    BY <1>3, <1>5, <1>6, <2>1 DEF Way, Keyed, Entitled, Verified, Verifying, Beyond
<1>8. ASSUME NEW result \in {"transient", "final"}
      PROVE  /\ Way(OutWith(rpc, result))
             /\ OutWith(rpc, result).via = rpc.via /\ OutWith(rpc, result).method = rpc.method
  BY <1>5, OutWithWay DEF Control, Results
<1>9. PICK r : /\ call'[p].rpc = r /\ call'[p].todo = call[p].todo
               /\ r = sent \/ \E result \in {"transient", "final"} : r = OutWith(rpc, result)
  <2>1. CASE \E r : call' = [call EXCEPT ![p].rpc = r]
                    /\ \E result \in {"transient", "final"} : r = OutWith(rpc, result)
    <3>1. PICK r : call' = [call EXCEPT ![p].rpc = r]
                   /\ \E result \in {"transient", "final"} : r = OutWith(rpc, result)
      BY <2>1
    <3>2. call'[p].rpc = r /\ call'[p].todo = call[p].todo
      BY <1>1, <3>1 DEF Control, Fields, CallType
    <3> QED
      BY <3>1, <3>2
  <2>2. CASE \E k : call' = [call EXCEPT ![p].rpc = sent, ![p].ran = k]
    <3>1. PICK k : call' = [call EXCEPT ![p].rpc = sent, ![p].ran = k]
      BY <2>2
    <3>2. call'[p].rpc = sent /\ call'[p].todo = call[p].todo
      BY <1>1, <3>1 DEF Control, Fields, CallType
    <3> QED
      BY <3>2
  <2> QED
    BY <2>1, <2>2 DEF Send, rpc, sent
<1> QED
  BY <1>2, <1>3, <1>5, <1>6, <1>7, <1>8, <1>9 DEF GoesItsWay

-----------------------------------------------------------------------------
(* What a step does to the RPC of each process.                            *)

\* An RPC begins in a phase that makes one, over the connection of the field
\* that is read there.
Begins(p) ==
    /\ ~Idle(p)
    /\ call'[p].todo = call[p].todo
    /\ \/ Head(call[p].todo) = "state" /\ call'[p].rpc = Rpc("CurrentState", stateService)
       \/ Head(call[p].todo) = "rpc" /\ \E method : call'[p].rpc = Rpc(method, service)
       \/ Head(call[p].todo) = "health" /\ call'[p].rpc = Rpc("Health", service)

Fate(p) ==
    \/ call'[p] = call[p]
    \/ call'[p].rpc = NoRpc
    \/ call[p].rpc.stage = "none" /\ call'[p].rpc = call[p].rpc
    \/ Begins(p)
    \/ GoesItsWay(p)

\* A step of p is no step of another.
LEMMA Alone ==
    ASSUME Control, NEW p \in Processes, NEW c, call' = [call EXCEPT ![p] = c],
           NEW q \in Processes \ {p}
    PROVE  call'[q] = call[q]
BY DEF Control, Fields

\* A call that returns, or goes on to its next phase, leaves its RPC.
LEMMA EndsFate ==
    ASSUME Control, NEW p \in Processes, NEW q \in Processes,
           \/ \E result : Return(p, result)
           \/ \E n : Advance(p, call[p], n)
           \/ \E n : Advance(p, [call[p] EXCEPT !.lockOn = stateService], n)
           \/ \E n : Advance(p, [call[p] EXCEPT !.unlockOn = stateService], n)
    PROVE  Fate(q)
<1>1. call[p] \in CallType
  BY DEF Control, Fields
<1>2. ASSUME NEW result, Return(p, result)
      PROVE  Fate(q)
  <2> DEFINE c == [Started("none", <<>>) EXCEPT !.ran = call[p].ran, !.outcome = result]
  <2>1. call' = [call EXCEPT ![p] = c]
    BY <1>2 DEF Return
  <2>2. c.rpc = NoRpc
    BY DEF Started
  <2> HIDE DEF c
  <2>3. call'[p] = c
    BY <2>1 DEF Control, Fields
  <2> QED
    BY <2>1, <2>2, <2>3, Alone DEF Fate
<1>3. ASSUME NEW c \in CallType, NEW n, Advance(p, c, n)
      PROVE  Fate(q)
  <2>1. CASE Return(p, "ok")
    BY <1>2, <2>1
  <2>2. CASE call' = [call EXCEPT ![p] = [c EXCEPT !.todo = SubSeq(@, n + 1, Len(@)), !.rpc = NoRpc]]
    <3> DEFINE d == [c EXCEPT !.todo = SubSeq(@, n + 1, Len(@)), !.rpc = NoRpc]
    <3>1. d.rpc = NoRpc
      BY DEF CallType
    <3> HIDE DEF d
    <3>2. call' = [call EXCEPT ![p] = d]
      BY <2>2 DEF d
    <3>3. call'[p] = d
      BY <3>2 DEF Control, Fields
    <3> QED
      BY <3>1, <3>2, <3>3, Alone DEF Fate
  <2> QED
    BY <1>3, <2>1, <2>2 DEF Advance
<1>4. stateService \in 0..MaxConns
  BY ConnectionAssumption DEF Control, Fields, Injected
<1>5. /\ [call[p] EXCEPT !.lockOn = stateService] \in CallType
      /\ [call[p] EXCEPT !.unlockOn = stateService] \in CallType
  BY <1>1, <1>4 DEF CallType
<1> QED
  BY <1>1, <1>2, <1>3, <1>5

LEMMA AcquireFate ==
    ASSUME Control, NEW t \in Threads, NEW q \in Processes, Acquire(t)
    PROVE  Fate(q)
<1>1. t \in Processes
  BY DEF Processes
<1>2. CASE Return(t, "final")
  BY <1>1, <1>2, EndsFate
<1>3. CASE call' = [call EXCEPT ![t].todo = Tail(@)]
  <2>1. call[t].rpc.stage = "none" /\ call[t] \in CallType
    BY <1>1 DEF Acquire, At, Control, Fields
  <2>2. call'[t].rpc = call[t].rpc
    BY <1>1, <1>3, <2>1 DEF Control, Fields, CallType
  <2>3. q # t => call'[q] = call[q]
    BY <1>1, <1>3 DEF Control, Fields
  <2> QED
    BY <2>1, <2>2, <2>3 DEF Fate
<1> QED
  BY <1>2, <1>3 DEF Acquire

\* A call that begins has no RPC yet.
LEMMA StartsFate ==
    ASSUME Control, NEW p \in Processes, NEW q \in Processes, NEW op, NEW todo,
           call' = [call EXCEPT ![p] = Started(op, todo)]
    PROVE  Fate(q)
<1> DEFINE c == Started(op, todo)
<1>1. c.rpc = NoRpc
  BY DEF Started
<1> HIDE DEF c
<1>2. call'[p] = c /\ (q # p => call'[q] = call[q])
  BY DEF c, Control, Fields
<1> QED
  BY <1>1, <1>2 DEF Fate

\* An RPC that begins.
LEMMA BeginsFate ==
    ASSUME Control, NEW p \in Processes, NEW q \in Processes, ~Idle(p),
           NEW r, call' = [call EXCEPT ![p].rpc = r],
           \/ Head(call[p].todo) = "state" /\ r = Rpc("CurrentState", stateService)
           \/ Head(call[p].todo) = "rpc" /\ \E method : r = Rpc(method, service)
           \/ Head(call[p].todo) = "health" /\ r = Rpc("Health", service)
    PROVE  Fate(q)
<1>1. call[p] \in CallType
  BY DEF Control, Fields
<1>2. call'[p].rpc = r /\ call'[p].todo = call[p].todo /\ (q # p => call'[q] = call[q])
  BY <1>1 DEF Control, Fields, CallType
<1> QED
  BY <1>2 DEF Fate, Begins

LEMMA RpcFate ==
    ASSUME Control, NEW p \in Processes, NEW q \in Processes, Way(call[p].rpc),
           Intercept(p) \/ Receive(p)
    PROVE  Fate(q)
<1>1. CASE Return(p, "panic")
  BY <1>1, EndsFate
<1>2. CASE \E c : call' = [call EXCEPT ![p] = c]
  <2>1. GoesItsWay(p) \/ Return(p, "panic")
    BY SetApiKeyWay, EnterWay, LeaveWay, VerifyReplyWay, ReceiveWay, SendWay DEF Intercept
  <2> QED
    BY <1>1, <1>2, <2>1, Alone DEF Fate
<1>3. (\E c : call' = [call EXCEPT ![p] = c]) \/ Return(p, "panic")
  BY DEF Intercept, EnterVerifier, CheckConnection, SetApiKey, EnterRetry, Send, Retry,
         LeaveVerifier, VerifyReply, Receive, UpdateRpc
<1> QED
  BY <1>1, <1>2, <1>3

LEMMA StepFate ==
    ASSUME Control, NEW t \in Threads, NEW q \in Processes, Way(call[t].rpc), Step(t)
    PROVE  Fate(q)
<1>1. t \in Processes
  BY DEF Processes
<1>2. CASE Intercept(t)
  BY <1>1, <1>2, RpcFate
<1>3. CASE CacheLock(t) \/ DeferUnlock(t)
  BY <1>1, <1>3, EndsFate DEF CacheLock, DeferUnlock
<1>4. CASE StateAnswered(t) \/ ServiceAnswered(t)
  BY <1>1, <1>4, EndsFate DEF StateAnswered, ServiceAnswered
<1>5. CASE SetState(t) \/ LookForKey(t) \/ CheckSignature(t)
  BY <1>1, <1>5, EndsFate DEF SetState, LookForKey, CheckSignature
<1>6. CASE GetState(t)
  <2>1. ~Idle(t) /\ Head(call[t].todo) = "state"
    BY <1>6 DEF GetState, At
  <2>2. CASE call' = [call EXCEPT ![t].rpc = Rpc("CurrentState", stateService)]
    BY <1>1, <2>1, <2>2, BeginsFate
  <2> QED
    BY <1>1, <1>6, <2>2, EndsFate DEF GetState
<1>7. CASE CallService(t)
  <2>1. ~Idle(t) /\ Head(call[t].todo) = "rpc"
    BY <1>7 DEF CallService, At
  <2>2. CASE call' = [call EXCEPT ![t].rpc = Rpc(RpcOf[call[t].op], service)]
    BY <1>1, <2>1, <2>2, BeginsFate
  <2> QED
    BY <1>1, <1>7, <2>2, EndsFate DEF CallService
<1> QED
  BY <1>2, <1>3, <1>4, <1>5, <1>6, <1>7 DEF Step

LEMMA OwnerFate ==
    ASSUME Control, NEW q \in Processes, Way(call[Owner].rpc),
           OwnerStep \/ Connect \/ Disconnect
    PROVE  Fate(q)
<1>1. CASE Intercept(Owner)
  BY <1>1, OwnerIdle, RpcFate
<1>2. CASE Dial \/ MakeStubs
  BY <1>2, OwnerIdle, EndsFate DEF Dial, MakeStubs
<1>3. CASE NewLcStateService \/ CloseConn
  BY <1>3, OwnerIdle, EndsFate DEF NewLcStateService, CloseConn
<1>4. CASE AskUuid
  BY <1>4, OwnerIdle, BeginsFate DEF AskUuid, At
<1>5. CASE Connect \/ Disconnect
  BY <1>5, OwnerIdle, StartsFate DEF Connect, Disconnect
<1> QED
  BY <1>1, <1>2, <1>3, <1>4, <1>5 DEF OwnerStep

LEMMA Fates ==
    ASSUME Control, \A p \in Processes : Way(call[p].rpc), [Next]_vars, NEW q \in Processes
    PROVE  Fate(q)
<1>1. Threads \subseteq Processes
  BY DEF Processes
<1>2. CASE \E t \in Threads : Step(t) \/ Acquire(t) \/ \E op \in Ops[t] : Begin(t, op)
  BY <1>1, <1>2, StepFate, AcquireFate, StartsFate DEF Begin
<1>3. CASE \E p \in Processes : Receive(p)
  BY <1>3, RpcFate
<1>4. CASE OwnerStep \/ Connect \/ Disconnect
  BY <1>4, OwnerIdle, OwnerFate
<1>5. CASE UNCHANGED call
  BY <1>5 DEF Fate
<1> QED
  BY <1>2, <1>3, <1>4, <1>5 DEF Next, Processes, SetServerSigningPubKey, vars

-----------------------------------------------------------------------------
(* Credentials.                                                            *)

Chained == Control /\ \A p \in Processes : Way(call[p].rpc)

LEMMA OptionsKept == [Next]_vars => options' = options
<1> SUFFICES ASSUME [Next]_vars
             PROVE  options' = options
  OBVIOUS
<1>1. ASSUME NEW p, Intercept(p) \/ Receive(p)
      PROVE  options' = options
  BY <1>1 DEF Intercept, EnterVerifier, CheckConnection, SetApiKey, EnterRetry, Send, Retry,
              LeaveVerifier, VerifyReply, Receive, UpdateRpc, net
<1>2. ASSUME NEW t, Step(t) \/ Acquire(t) \/ \E op : Begin(t, op)
      PROVE  options' = options
  BY <1>1, <1>2 DEF Step, CacheLock, DeferUnlock, GetState, StateAnswered, CallService,
                    ServiceAnswered, SetState, LookForKey, CheckSignature, Acquire, Begin, net
<1>3. CASE OwnerStep \/ Connect \/ Disconnect \/ SetServerSigningPubKey
  BY <1>1, <1>3 DEF OwnerStep, Dial, MakeStubs, AskUuid, NewLcStateService, CloseConn, Connect,
                    Disconnect, SetServerSigningPubKey, net
<1> QED
  BY <1>1, <1>2, <1>3 DEF Next, vars, net

\* What the place of an RPC says does not change while the options do not.
LEMMA WayStays ==
    ASSUME options' = options, NEW p
    PROVE  Way(call'[p].rpc) <=> Way(call[p].rpc)'
BY DEF Way, Keyed, Entitled, Verified, Verifying, Beyond, Chain, UnaryChain, StreamChain,
       AllCredentials

LEMMA FirstWay ==
    /\ Way(NoRpc)
    /\ \A method, via : Way(Rpc(method, via))
<1>1. NoRpc.at = 0 /\ NoRpc.stage = "none"
  BY DEF NoRpc
<1>2. ASSUME NEW method, NEW via
      PROVE  Rpc(method, via).at = 1 /\ Rpc(method, via).stage = "in"
  BY DEF Rpc, NoRpc
<1>3. ASSUME NEW rpc, rpc.at \in {0, 1}, rpc.stage \in {"none", "in"}, rpc.stage = "in" => rpc.at = 1
      PROVE  Way(rpc)
  BY <1>3 DEF Way, Keyed, Verified, Beyond
<1> QED
  BY <1>1, <1>2, <1>3

LEMMA InitChained == Init => Chained
<1> SUFFICES ASSUME Init
             PROVE  Chained
  OBVIOUS
<1>1. \A p \in Processes : call[p].rpc = NoRpc
  BY DEF Init, Started
<1> QED
  BY <1>1, InitControl, FirstWay DEF Chained

LEMMA NextChained == Chained /\ [Next]_vars => Chained'
<1> SUFFICES ASSUME Chained, [Next]_vars
             PROVE  Chained'
  OBVIOUS
<1>1. Control'
  BY NextKeeps DEF Chained
<1>2. ASSUME NEW p \in Processes
      PROVE  Way(call[p].rpc)'
  <2>1. Fate(p)
    BY Fates DEF Chained
  <2>2. Way(call'[p].rpc)
    BY <2>1, FirstWay DEF Fate, Begins, GoesItsWay, Chained
  <2> QED
    BY <2>2, OptionsKept, WayStays
<1> QED
  BY <1>1, <1>2 DEF Chained

LEMMA AlwaysChained == Spec => []Chained
BY InitChained, NextChained, PTL DEF Spec

\* Every attempt that reaches a server over a connection of the client's has
\* the API key and the metadata (those of a stream, if there is a key), however often
\* it is retried and whatever the owner does meanwhile (apikey_setter_interceptor.go, both interceptors).
THEOREM AttemptsKeyed == Spec => []EveryAttemptKeyed
<1>1. Chained => EveryAttemptKeyed
  <2> SUFFICES ASSUME Chained, NEW p \in Processes, call[p].rpc.stage = "sent",
                      call[p].rpc.via # Injected, Entitled(call[p].rpc)
               PROVE  call[p].rpc.carries = AllCredentials
    BY DEF EveryAttemptKeyed, AllCredentials, Entitled
  <2> DEFINE rpc == call[p].rpc
  <2>1. Way(rpc) /\ rpc.at = Len(Chain(rpc)) + 1
    BY DEF Chained, Way, Keyed
  <2>2. Beyond(rpc, "ApiKeySetter")
    BY <2>1, Chains, ChainShort DEF Beyond
  <2> QED
    BY <2>1, <2>2 DEF Way, Keyed
<1> QED
  BY <1>1, AlwaysChained, PTL

-----------------------------------------------------------------------------
(* The first state that is trusted.                                        *)

\* What Connect has yet to do is in its order; Disconnect has one thing to do.
Planned(todo) ==
    \A i \in 1..(Len(todo) - 1) :
        \/ todo[i] = "dial" /\ todo[i + 1] = "stubs"
        \/ todo[i] = "stubs" /\ todo[i + 1] = "health"

\* The state service the owner makes is not one of the caller's own.
OwnerDials ==
    LET todo == call[Owner].todo
    IN  /\ Planned(todo)
        /\ todo # <<>> /\ Head(todo) = "stubs" => clientConn # Injected
        /\ todo # <<>> /\ Head(todo) = "health" =>
              /\ service # Injected
              /\ call[Owner].rpc.stage # "none" => call[Owner].rpc.via # Injected

\* An RPC for the first state is one that the verifier checks.
AsksState(t) ==
    call[t].rpc.stage # "none" /\ Head(call[t].todo) = "state" =>
        call[t].rpc.via # Injected /\ call[t].rpc.method = "CurrentState"

\* The client was made with the key and makes its own state service.
OwnStates == options.key /\ options.stateService # Injected

Trusting ==
    /\ Chained
    /\ OwnStates =>
          /\ stateService # Injected
          /\ adopted # "unchecked"
          /\ OwnerDials
          /\ \A t \in Threads : AsksState(t)

\* What is left of the plan after its first phase.
LEMMA RestPlanned ==
    ASSUME NEW todo \in Seq(Phase), Planned(todo), 1 < Len(todo)
    PROVE  LET rest == SubSeq(todo, 2, Len(todo))
           IN  /\ Planned(rest)
               /\ rest # <<>>
               /\ \/ todo[1] = "dial" /\ Head(rest) = "stubs"
                  \/ todo[1] = "stubs" /\ Head(rest) = "health"
<1> DEFINE rest == SubSeq(todo, 2, Len(todo))
<1>1. /\ rest \in Seq(Phase)
      /\ Len(rest) = Len(todo) - 1
      /\ \A i \in 1..(Len(todo) - 1) : rest[i] = todo[i + 1]
      /\ Len(todo) \in Nat
  BY SubSeqProperties, LenProperties
<1> HIDE DEF rest
<1>2. rest # <<>> /\ Head(rest) = todo[2]
  <2>1. Len(rest) > 0 /\ rest[1] = todo[2]
    BY <1>1
  <2>2. rest # <<>>
    BY <1>1, <2>1, EmptySeq
  <2> QED
    BY <1>1, <2>1, <2>2, FirstPhase
<1>3. Planned(rest)
  <2> SUFFICES ASSUME NEW i \in 1..(Len(rest) - 1)
               PROVE  \/ rest[i] = "dial" /\ rest[i + 1] = "stubs"
                      \/ rest[i] = "stubs" /\ rest[i + 1] = "health"
    BY DEF Planned
  <2>1. i + 1 \in 1..(Len(todo) - 1) /\ rest[i] = todo[i + 1] /\ rest[i + 1] = todo[(i + 1) + 1]
    BY <1>1
  <2> QED
    BY <2>1 DEF Planned
<1>4. \/ todo[1] = "dial" /\ todo[2] = "stubs"
      \/ todo[1] = "stubs" /\ todo[2] = "health"
  <2>1. 1 \in 1..(Len(todo) - 1)
    BY <1>1
  <2> QED
    BY <2>1 DEF Planned
<1> QED
  BY <1>2, <1>3, <1>4 DEF rest

\* The owner's call returns.
LEMMA OwnerReturns ==
    ASSUME Control, NEW result, Return(Owner, result)
    PROVE  call'[Owner].todo = <<>> /\ OwnerDials'
<1> DEFINE c == [Started("none", <<>>) EXCEPT !.ran = call[Owner].ran, !.outcome = result]
<1>1. c.todo = <<>>
  BY DEF Started
<1>2. call'[Owner] = c
  <2> HIDE DEF c
  <2>1. call' = [call EXCEPT ![Owner] = c]
    BY DEF Return, c
  <2> QED
    BY <2>1, OwnerIdle DEF Control, Fields
<1>3. Planned(<<>>)
  BY DEF Planned
<1> QED
  BY <1>1, <1>2, <1>3 DEF OwnerDials

\* The owner's call goes on after its first phase, or returns.
LEMMA OwnerAdvances ==
    ASSUME Control, ~Idle(Owner), Planned(call[Owner].todo), Advance(Owner, call[Owner], 1)
    PROVE  LET todo == call[Owner].todo
           IN  /\ Planned(call'[Owner].todo)
               /\ call'[Owner].rpc.stage = "none"
               /\ \/ call'[Owner].todo = <<>>
                  \/ Head(todo) = "dial" /\ Head(call'[Owner].todo) = "stubs"
                  \/ Head(todo) = "stubs" /\ Head(call'[Owner].todo) = "health"
<1> DEFINE todo == call[Owner].todo
           rest == SubSeq(todo, 2, Len(todo))
<1>1. call[Owner] \in CallType /\ todo \in Seq(Phase) /\ todo # <<>>
  BY OwnerIdle DEF Control, Fields, CallType, Idle
<1>2. CASE Return(Owner, "ok")
  <2>1. call'[Owner].todo = <<>>
    BY <1>2, OwnerReturns
  <2>2. call'[Owner].rpc = NoRpc
    <3> DEFINE c == [Started("none", <<>>) EXCEPT !.ran = call[Owner].ran, !.outcome = "ok"]
    <3>1. c.rpc = NoRpc
      BY DEF Started
    <3>2. call' = [call EXCEPT ![Owner] = c]
      BY <1>2 DEF Return
    <3> HIDE DEF c
    <3> QED
      BY <3>1, <3>2, OwnerIdle DEF Control, Fields
  <2> QED
    BY <2>1, <2>2 DEF Planned, NoRpc
<1>3. CASE Len(todo) # 1
  <2>1. call' = [call EXCEPT ![Owner] = [call[Owner] EXCEPT !.todo = rest, !.rpc = NoRpc]]
    BY <1>3 DEF Advance
  <2>2. call'[Owner].todo = rest /\ call'[Owner].rpc = NoRpc
    <3> HIDE DEF rest
    <3> QED
      BY <1>1, <2>1, OwnerIdle DEF Control, Fields, CallType
  <2>3. 1 < Len(todo) /\ Head(todo) = todo[1]
    <3>1. Len(todo) \in Nat \ {0} /\ Head(todo) = todo[1]
      <4> HIDE DEF todo
      <4> QED
        BY <1>1, FirstPhase
    <3>2. PICK length : length = Len(todo)
      OBVIOUS
    <3>3. length \in Nat \ {0} /\ length # 1
      BY <1>3, <3>1, <3>2
    <3>4. 1 < length
      BY <3>3
    <3> QED
      BY <3>1, <3>2, <3>4
  <2>4. /\ Planned(rest)
        /\ \/ todo[1] = "dial" /\ Head(rest) = "stubs"
           \/ todo[1] = "stubs" /\ Head(rest) = "health"
    BY <1>1, <2>3, RestPlanned
  <2> HIDE DEF rest, todo
  <2> QED
    BY <2>2, <2>3, <2>4 DEF todo, NoRpc
<1> QED
  BY <1>2, <1>3 DEF Advance

\* A step of a thread leaves the owner's call and the fields of the client.
LEMMA OwnerLeft ==
    ASSUME Control, NEW t \in Threads,
           Step(t) \/ Receive(t) \/ Acquire(t) \/ \E op : Begin(t, op)
    PROVE  call'[Owner] = call[Owner] /\ UNCHANGED fields
<1>1. t \in Processes /\ Owner \in Processes \ {t}
  BY OwnerIdle DEF Processes
<1>2. (\E c : call' = [call EXCEPT ![t] = c]) => call'[Owner] = call[Owner]
  BY <1>1, Alone
<1>3. (\E result : Return(t, result)) => call'[Owner] = call[Owner]
  BY <1>2 DEF Return
<1>4. (\E c, n : Advance(t, c, n)) => call'[Owner] = call[Owner]
  BY <1>2, <1>3 DEF Advance
<1>5. CASE Intercept(t) \/ Receive(t)
  <2>1. (\E r : UpdateRpc(t, r)) => call'[Owner] = call[Owner] /\ UNCHANGED fields
    BY <1>2 DEF UpdateRpc
  <2>2. CASE Send(t)
    <3>1. call'[Owner] = call[Owner]
      BY <1>2, <2>2 DEF Send
    <3> QED
      BY <2>2, <3>1 DEF Send
  <2> QED
    BY <1>3, <1>5, <2>1, <2>2 DEF Intercept, EnterVerifier, CheckConnection, SetApiKey,
          EnterRetry, Retry, LeaveVerifier, VerifyReply, Receive
<1>6. CASE CacheLock(t) \/ Acquire(t) \/ DeferUnlock(t) \/ GetState(t) \/ StateAnswered(t)
  BY <1>2, <1>3, <1>4, <1>6 DEF CacheLock, Acquire, DeferUnlock, GetState, StateAnswered
<1>7. CASE CallService(t) \/ ServiceAnswered(t) \/ SetState(t) \/ LookForKey(t) \/ CheckSignature(t)
  BY <1>2, <1>3, <1>4, <1>7 DEF CallService, ServiceAnswered, SetState, LookForKey, CheckSignature
<1>8. CASE \E op : Begin(t, op)
  BY <1>2, <1>8 DEF Begin
<1> QED
  BY <1>5, <1>6, <1>7, <1>8 DEF Step

LEMMA OwnerDialsLeft ==
    ASSUME OwnerDials, call'[Owner] = call[Owner], UNCHANGED fields
    PROVE  OwnerDials'
BY DEF OwnerDials, fields, Planned

\* The RPC for the first state keeps its connection on its way.
LEMMA AskedWay ==
    ASSUME Control, stateService # Injected, NEW t \in Threads, AsksState(t), Fate(t)
    PROVE  AsksState(t)'
<1>1. CASE call'[t] = call[t]
  BY <1>1 DEF AsksState
<1>2. CASE call'[t].rpc = NoRpc
  BY <1>2 DEF AsksState, NoRpc
<1>3. CASE call[t].rpc.stage = "none" /\ call'[t].rpc = call[t].rpc
  BY <1>3 DEF AsksState
<1>4. CASE Begins(t)
  <2>1. /\ Rpc("CurrentState", stateService).via = stateService
        /\ Rpc("CurrentState", stateService).method = "CurrentState"
    BY DEF Rpc, NoRpc
  <2> QED
    BY <1>4, <2>1 DEF AsksState, Begins
<1>5. CASE GoesItsWay(t)
  BY <1>5 DEF AsksState, GoesItsWay
<1> QED
  BY <1>1, <1>2, <1>3, <1>4, <1>5 DEF Fate

\* The first state is had from an answer, which the verifier has checked.
LEMMA AdoptedWell ==
    ASSUME Chained, OwnStates, adopted # "unchecked", [Next]_vars,
           \A t \in Threads : AsksState(t)
    PROVE  adopted' # "unchecked"
<1>1. ASSUME NEW t \in Threads, StateAnswered(t)
      PROVE  adopted' # "unchecked"
  <2>1. /\ call[t].rpc.stage = "done" /\ Head(call[t].todo) = "state"
        /\ adopted' = adopted \/ call[t].rpc.result = "ok"
    BY <1>1 DEF StateAnswered, Answered
  <2>2. Verifying(call[t].rpc)
    BY <2>1 DEF AsksState, Verifying, OwnStates
  <2>3. call[t].rpc.result = "ok" => call[t].rpc.checked
    BY <2>1, <2>2 DEF Chained, Way, Verified, Processes
  <2> QED
    BY <1>1, <2>1, <2>3 DEF StateAnswered
<1>2. ASSUME NEW p, Intercept(p) \/ Receive(p)
      PROVE  adopted' = adopted
  BY <1>2 DEF Intercept, EnterVerifier, CheckConnection, SetApiKey, EnterRetry, Send, Retry,
              LeaveVerifier, VerifyReply, Receive, UpdateRpc
<1>3. ASSUME NEW t \in Threads, Step(t) \/ Acquire(t) \/ \E op : Begin(t, op), ~StateAnswered(t)
      PROVE  adopted' = adopted
  BY <1>2, <1>3 DEF Step, CacheLock, DeferUnlock, GetState, CallService, ServiceAnswered,
                    SetState, LookForKey, CheckSignature, Acquire, Begin
<1>4. CASE OwnerStep \/ Connect \/ Disconnect \/ SetServerSigningPubKey
  BY <1>2, <1>4 DEF OwnerStep, Dial, MakeStubs, AskUuid, NewLcStateService, CloseConn, Connect,
                    Disconnect, SetServerSigningPubKey
<1> QED
  BY <1>1, <1>2, <1>3, <1>4 DEF Next, vars

\* The owner's steps.
LEMMA OwnerTrusts ==
    ASSUME Chained, stateService # Injected, OwnerDials,
           OwnerStep \/ Receive(Owner) \/ Connect \/ Disconnect \/ SetServerSigningPubKey
    PROVE  stateService' # Injected /\ OwnerDials'
<1> DEFINE todo == call[Owner].todo
<1>1. Control /\ Way(call[Owner].rpc) /\ call[Owner] \in CallType /\ conns \in Nat \ {0}
  BY OwnerIdle DEF Chained, Control, Fields, Injected
<1>2. CASE Intercept(Owner) \/ Receive(Owner)
  <2>1. UNCHANGED fields
    BY <1>2 DEF Intercept, EnterVerifier, CheckConnection, SetApiKey, EnterRetry, Send, Retry,
                LeaveVerifier, VerifyReply, Receive, UpdateRpc
  <2>2. GoesItsWay(Owner) \/ Return(Owner, "panic")
    BY <1>1, <1>2, OwnerIdle, SetApiKeyWay, EnterWay, LeaveWay, VerifyReplyWay, ReceiveWay, SendWay
       DEF Intercept
  <2> QED
    BY <1>1, <2>1, <2>2, OwnerReturns DEF OwnerDials, GoesItsWay, fields, Planned
<1>3. CASE Dial
  <2>1. ~Idle(Owner) /\ Head(todo) = "dial" /\ UNCHANGED <<service, stateService>>
    BY <1>3 DEF Dial, At
  <2>2. CASE Return(Owner, "final")
    BY <1>1, <2>1, <2>2, OwnerReturns
  <2>3. CASE clientConn' = conns + 1 /\ Advance(Owner, call[Owner], 1)
    <3>1. /\ Planned(call'[Owner].todo)
          /\ call'[Owner].todo = <<>> \/ Head(call'[Owner].todo) = "stubs"
      BY <1>1, <2>1, <2>3, OwnerAdvances DEF OwnerDials
    <3>2. clientConn' # Injected
      BY <1>1, <2>3 DEF Injected
    <3> QED
      BY <2>1, <3>1, <3>2 DEF OwnerDials, Planned
  <2> QED
    BY <1>3, <2>2, <2>3 DEF Dial
<1>4. CASE MakeStubs
  <2>1. /\ ~Idle(Owner) /\ Head(todo) = "stubs" /\ UNCHANGED <<clientConn, stateService>>
        /\ service' = clientConn
    BY <1>4 DEF MakeStubs, At
  <2>2. /\ Planned(call'[Owner].todo) /\ call'[Owner].rpc.stage = "none"
        /\ call'[Owner].todo = <<>> \/ Head(call'[Owner].todo) = "health"
    BY <1>1, <1>4, <2>1, OwnerAdvances DEF OwnerDials, MakeStubs
  <2>3. clientConn # Injected
    BY <2>1 DEF OwnerDials, Idle
  <2> QED
    BY <2>1, <2>2, <2>3 DEF OwnerDials, Planned
<1>5. CASE AskUuid
  <2>1. ~Idle(Owner) /\ Head(todo) = "health" /\ UNCHANGED fields
    BY <1>5 DEF AskUuid, At
  <2>2. call'[Owner].rpc = Rpc("Health", service) /\ call'[Owner].todo = todo
    BY <1>1, <1>5, OwnerIdle DEF AskUuid, Control, Fields, CallType
  <2>3. Rpc("Health", service).via = service
    BY DEF Rpc, NoRpc
  <2> QED
    BY <2>1, <2>2, <2>3 DEF OwnerDials, Planned, fields, Idle
<1>6. CASE NewLcStateService
  <2>1. ~Idle(Owner) /\ Head(todo) = "health" /\ call[Owner].rpc.stage = "done"
        /\ UNCHANGED <<clientConn, service>>
    BY <1>6 DEF NewLcStateService, Answered
  <2>2. CASE stateService' = Nil /\ Return(Owner, "final")
    BY <1>1, <2>2, OwnerReturns DEF Nil, Injected
  <2>3. CASE stateService' = call[Owner].rpc.via /\ Advance(Owner, call[Owner], 1)
    <3>1. call[Owner].rpc.via # Injected
      BY <2>1 DEF OwnerDials, Idle
    <3>2. Planned(call'[Owner].todo) /\ call'[Owner].todo = <<>>
      BY <1>1, <2>1, <2>3, OwnerAdvances DEF OwnerDials
    <3> QED
      BY <2>3, <3>1, <3>2 DEF OwnerDials, Planned
  <2> QED
    BY <1>6, <2>2, <2>3 DEF NewLcStateService
<1>7. CASE CloseConn
  <2>1. \E result : Return(Owner, result)
    BY <1>7 DEF CloseConn
  <2> QED
    BY <1>1, <1>7, <2>1, OwnerReturns DEF CloseConn, fields
<1>8. CASE Connect \/ Disconnect
  <2>1. PICK op, next : /\ call' = [call EXCEPT ![Owner] = Started(op, next)]
                        /\ next = <<"dial", "stubs", "health">> \/ next = <<"close">>
    BY <1>8 DEF Connect, Disconnect
  <2>2. call'[Owner].todo = next
    <3> DEFINE c == Started(op, next)
    <3>1. c.todo = next
      BY DEF Started
    <3>2. call' = [call EXCEPT ![Owner] = c]
      BY <2>1 DEF c
    <3> HIDE DEF c
    <3> QED
      BY <1>1, <3>1, <3>2, OwnerIdle DEF Control, Fields
  <2>3. Planned(next) /\ Head(next) \in {"dial", "close"}
    <3>1. CASE next = <<"dial", "stubs", "health">>
      BY <3>1 DEF Planned
    <3>2. CASE next = <<"close">>
      BY <3>2 DEF Planned
    <3> QED
      BY <2>1, <3>1, <3>2
  <2>4. stateService' = stateService
    BY <1>8 DEF Connect, Disconnect, fields
  <2> QED
    BY <2>2, <2>3, <2>4 DEF OwnerDials, Planned
<1>9. CASE SetServerSigningPubKey
  BY <1>9 DEF SetServerSigningPubKey, OwnerDials, Planned, fields
<1> QED
  BY <1>2, <1>3, <1>4, <1>5, <1>6, <1>7, <1>8, <1>9 DEF OwnerStep

LEMMA InitTrusting == Init => Trusting
<1> SUFFICES ASSUME Init
             PROVE  Trusting
  OBVIOUS
<1>1. \A p \in Processes : call[p].rpc = NoRpc /\ call[p].todo = <<>>
  BY DEF Init, Started
<1>2. Planned(<<>>)
  BY DEF Planned
<1>3. OwnerDials
  BY <1>1, <1>2, OwnerIdle DEF OwnerDials
<1>4. \A t \in Threads : AsksState(t)
  BY <1>1 DEF AsksState, NoRpc, Processes
<1>5. stateService = options.stateService /\ adopted = "none"
  BY DEF Init
<1> QED
  BY <1>3, <1>4, <1>5, InitChained DEF Trusting, OwnStates

LEMMA NextTrusting == Trusting /\ [Next]_vars => Trusting'
<1> SUFFICES ASSUME Trusting, [Next]_vars, OwnStates
             PROVE  /\ stateService' # Injected
                    /\ adopted' # "unchecked"
                    /\ OwnerDials'
                    /\ \A t \in Threads : AsksState(t)'
  BY NextChained, OptionsKept DEF Trusting, OwnStates
<1>1. /\ Chained /\ Control /\ stateService # Injected /\ adopted # "unchecked" /\ OwnerDials
      /\ \A t \in Threads : AsksState(t)
  BY DEF Trusting, Chained
<1>2. adopted' # "unchecked"
  BY <1>1, AdoptedWell
<1>3. \A t \in Threads : AsksState(t)'
  BY <1>1, Fates, AskedWay DEF Chained, Processes
<1>4. stateService' # Injected /\ OwnerDials'
  <2>1. CASE UNCHANGED vars
    BY <1>1, <2>1, OwnerDialsLeft DEF vars, fields
  <2>2. CASE \E t \in Threads : Step(t) \/ Receive(t) \/ Acquire(t) \/ \E op \in Ops[t] : Begin(t, op)
    BY <1>1, <2>2, OwnerLeft, OwnerDialsLeft DEF fields
  <2>3. CASE OwnerStep \/ Receive(Owner) \/ Connect \/ Disconnect \/ SetServerSigningPubKey
    BY <1>1, <2>3, OwnerTrusts
  <2> QED
    BY <2>1, <2>2, <2>3 DEF Next
<1> QED
  BY <1>2, <1>3, <1>4

LEMMA AlwaysTrusting == Spec => []Trusting
BY InitTrusting, NextTrusting, PTL DEF Spec

\* A client that was made with the server's key, and makes its own state
\* service, trusts no first state that the verifier has not checked, whatever
\* the owner connects, disconnects or sets meanwhile
\* (signature_verifier_interceptor.go).
THEOREM FirstStateChecked == Spec => []AdoptedChecked
<1>1. Trusting => AdoptedChecked
  BY DEF Trusting, OwnStates, AdoptedChecked
<1> QED
  BY <1>1, AlwaysTrusting, PTL


-----------------------------------------------------------------------------
(* What a caller is told against what has run: the attempts of an RPC are  *)
(* counted along its chain, its runs along its attempts.                    *)

\* There is no more than the first attempt without the retry interceptor's
\* consent, nothing is decided before the call is over, and what the checker
\* refuses has not been tried.
Tried(rpc) ==
    /\ rpc.stage = "none" => rpc.attempts = 0 /\ rpc.result = "none"
    /\ rpc.attempts > 1 => rpc.attempts <= options.attempts
    /\ rpc.stage = "in" /\ rpc.attempts > 0 =>
          rpc.at = Len(Chain(rpc)) + 1 /\ rpc.attempts < options.attempts
    /\ rpc.stage \in {"in", "sent"} => rpc.result \in {"none", "transient"}
    /\ rpc.result = "notConnected" => rpc.attempts = 0

Calls(todo) == \E i \in 1..Len(todo) : todo[i] = "rpc"

\* An operation calls the service once, after it has the state.
CallsOnce(todo) ==
    \A i \in 1..Len(todo) :
        /\ todo[i] = "rpc" => \A j \in 1..Len(todo) : todo[j] = "rpc" => j = i
        /\ todo[i] = "state" => i < Len(todo) /\ todo[i + 1] = "rpc"

\* What was said of the call before it, or can be said of it now.
Told(c) ==
    /\ c.outcome = "ok" => c.ran > 0
    /\ c.outcome = "notConnected" => c.ran = 0

\* A call runs no more than its RPC is tried, not before it and, beyond it, at
\* least once; an answer that is good or on its way is one of the operation.
Counted(c) ==
    /\ c.ran > 1 => c.ran <= options.attempts
    /\ Tried(c.rpc)
    /\ c.todo = <<>> => Told(c)
    /\ c.todo # <<>> =>
          /\ CallsOnce(c.todo)
          /\ IF Calls(c.todo) THEN c.ran <= (IF Head(c.todo) = "rpc" THEN c.rpc.attempts ELSE 0)
                              ELSE c.ran > 0
          /\ Head(c.todo) = "rpc" /\ c.rpc.stage # "none" => c.rpc.method = RpcOf[c.op]
          /\ Head(c.todo) = "rpc" /\ (c.rpc.stage = "sent" \/ c.rpc.result = "ok") => c.ran > 0

Counting == Control /\ \A t \in Threads : Counted(call[t])

-----------------------------------------------------------------------------
(* Chains, and the way out.                                                *)

\* The retry is innermost.
LEMMA RetryLast ==
    ASSUME NEW rpc
    PROVE  \A i \in 1..Len(Chain(rpc)) : Chain(rpc)[i] = "Retry" => i = Len(Chain(rpc))
<1>1. CASE rpc.via = Injected
  <2>1. Chain(rpc) = <<>>
    BY <1>1 DEF Chain
  <2> QED
    BY <2>1
<1>2. CASE rpc.via # Injected /\ IsStream(rpc.method)
  <2>1. Chain(rpc) = <<"ApiKeySetter", "Retry">>
    BY <1>2 DEF Chain, StreamChain
  <2> QED
    BY <2>1
<1>3. CASE rpc.via # Injected /\ ~IsStream(rpc.method) /\ options.key
  <2>1. Chain(rpc) = <<"SignatureVerifier", "ConnectionChecker", "ApiKeySetter", "Retry">>
    BY <1>3 DEF Chain, UnaryChain
  <2> QED
    BY <2>1
<1>4. CASE rpc.via # Injected /\ ~IsStream(rpc.method) /\ ~options.key
  <2>1. Chain(rpc) = <<"ConnectionChecker", "ApiKeySetter", "Retry">>
    BY <1>4 DEF Chain, UnaryChain
  <2> QED
    BY <2>1
<1> QED
  BY <1>1, <1>2, <1>3, <1>4

\* What the way out leaves as it is.
LEMMA OutParts ==
    ASSUME NEW rpc \in RpcType
    PROVE  /\ Out(rpc).stage \in {"out", "done"} /\ Out(rpc).method = rpc.method
           /\ Out(rpc).attempts = rpc.attempts /\ Out(rpc).result = rpc.result
           /\ \A result : LET out == OutWith(rpc, result)
                          IN  /\ out.stage \in {"out", "done"} /\ out.method = rpc.method
                              /\ out.attempts = rpc.attempts /\ out.result = result
           /\ LET out == [Out(rpc) EXCEPT !.checked = TRUE]
              IN  /\ out.stage \in {"out", "done"} /\ out.method = rpc.method
                  /\ out.attempts = rpc.attempts /\ out.result = rpc.result
<1>a. PICK stage \in {"out", "done"} : \E at : Out(rpc) = [rpc EXCEPT !.stage = stage, !.at = at]
  BY DEF Out
<1>1. PICK at : Out(rpc) = [rpc EXCEPT !.stage = stage, !.at = at]
  BY <1>a
<1>2. /\ Out(rpc).stage = stage /\ Out(rpc).method = rpc.method
      /\ Out(rpc).attempts = rpc.attempts /\ Out(rpc).result = rpc.result
  BY <1>1 DEF RpcType
<1>3. ASSUME NEW result
      PROVE  /\ OutWith(rpc, result).stage = stage /\ OutWith(rpc, result).method = rpc.method
             /\ OutWith(rpc, result).attempts = rpc.attempts
             /\ OutWith(rpc, result).result = result
  BY <1>1 DEF RpcType, OutWith
<1>4. LET out == [Out(rpc) EXCEPT !.checked = TRUE]
      IN  /\ out.stage = stage /\ out.method = rpc.method
          /\ out.attempts = rpc.attempts /\ out.result = rpc.result
  BY <1>1 DEF RpcType
<1> QED
  BY <1>2, <1>3, <1>4

-----------------------------------------------------------------------------
(* The steps of an RPC.                                                    *)

\* What has only been counted in does not depend on the place.
LEMMA TriedOut ==
    ASSUME NEW rpc, Tried(rpc), NEW out, out.stage \in {"out", "verify", "done"},
           out.attempts = rpc.attempts, out.result = "notConnected" => out.attempts = 0
    PROVE  Tried(out)
BY DEF Tried

\* An RPC that goes on, without being sent or coming back, leaves its call as it
\* was.
LEMMA UpdatedCounted ==
    ASSUME Control, NEW t \in Threads, Counted(call[t]), call[t].rpc.stage # "none",
           NEW r, UpdateRpc(t, r), Tried(r), r.stage # "sent",
           r.method = call[t].rpc.method, r.attempts = call[t].rpc.attempts,
           r.result = "ok" => call[t].rpc.result = "ok" \/ call[t].rpc.stage = "sent"
    PROVE  Counted(call'[t])
<1>1. t \in Processes /\ call[t] \in CallType
  BY DEF Control, Fields, Processes
<1>2. ~Idle(t)
  BY <1>1, InRpc
<1>3. /\ call'[t].rpc = r /\ call'[t].todo = call[t].todo /\ call'[t].ran = call[t].ran
      /\ call'[t].op = call[t].op
  BY <1>1 DEF UpdateRpc, Control, Fields, CallType
<1> QED
  BY <1>2, <1>3 DEF Counted, Idle

LEMMA EnterCounted ==
    ASSUME Control, NEW t \in Threads, Counted(call[t]),
           EnterVerifier(t) \/ CheckConnection(t) \/ SetApiKey(t) \/ EnterRetry(t)
    PROVE  Counted(call'[t])
<1> DEFINE rpc == call[t].rpc
<1>1. t \in Processes
  BY DEF Processes
<1>2. /\ rpc.stage = "in" /\ rpc.at \in DOMAIN Chain(rpc) /\ rpc \in RpcType /\ Tried(rpc)
  BY <1>1, BeforePlaced DEF EnterVerifier, CheckConnection, SetApiKey, EnterRetry, Before,
     Placed, Counted
<1>3. rpc.attempts = 0 /\ rpc.result \in {"none", "transient"}
  <2>1. rpc.at # Len(Chain(rpc)) + 1
    BY <1>2, ChainShort
  <2> QED
    BY <1>2, <2>1 DEF Tried, RpcType
<1>4. ASSUME NEW r, UpdateRpc(t, r), r.stage \in {"in", "out", "done"}, r.method = rpc.method,
             r.attempts = 0, r.result \in {"none", "transient", "notConnected", "final"},
             r.stage = "in" => r.result = rpc.result
      PROVE  Counted(call'[t])
  <2>1. Tried(r)
    BY <1>3, <1>4 DEF Tried
  <2> QED
    BY <1>2, <1>3, <1>4, <2>1, UpdatedCounted
<1>5. CASE \E result \in {"notConnected", "final"} : UpdateRpc(t, OutWith(rpc, result))
  BY <1>2, <1>3, <1>4, <1>5, OutParts
<1>6. CASE UpdateRpc(t, In(rpc))
  <2>1. /\ In(rpc).stage = "in" /\ In(rpc).method = rpc.method
        /\ In(rpc).attempts = rpc.attempts /\ In(rpc).result = rpc.result
    BY <1>2 DEF In, RpcType
  <2> QED
    BY <1>3, <1>4, <1>6, <2>1
<1>7. CASE UpdateRpc(t, [In(rpc) EXCEPT !.carries = Credentials(rpc)])
  <2> DEFINE in == [In(rpc) EXCEPT !.carries = Credentials(rpc)]
  <2>1. /\ in.stage = "in" /\ in.method = rpc.method
        /\ in.attempts = rpc.attempts /\ in.result = rpc.result
    BY <1>2 DEF In, RpcType
  <2> HIDE DEF in
  <2>2. UpdateRpc(t, in)
    BY <1>7 DEF in
  <2> QED
    BY <1>3, <1>4, <2>1, <2>2
<1> QED
  BY <1>5, <1>6, <1>7 DEF EnterVerifier, CheckConnection, SetApiKey, EnterRetry

\* The retry sends an RPC in again only if it may have another attempt.
LEMMA LeaveCounted ==
    ASSUME Control, NEW t \in Threads, Counted(call[t]), Retry(t) \/ LeaveVerifier(t)
    PROVE  Counted(call'[t])
<1> DEFINE rpc == call[t].rpc
           again == [In(rpc) EXCEPT !.stage = "in"]
           verify == [rpc EXCEPT !.stage = "verify"]
<1>1. t \in Processes
  BY DEF Processes
<1>2. /\ rpc.stage = "out" /\ rpc.at \in DOMAIN Chain(rpc) /\ rpc \in RpcType /\ Tried(rpc)
  BY <1>1, BeforePlaced DEF Retry, LeaveVerifier, Before, Placed, Counted
<1>3. CASE UpdateRpc(t, Out(rpc))
  <2>1. Tried(Out(rpc))
    BY <1>2, OutParts, TriedOut DEF Tried
  <2> QED
    BY <1>2, <1>3, <2>1, OutParts, UpdatedCounted
<1>4. CASE UpdateRpc(t, OutWith(rpc, "final"))
  <2>1. Tried(OutWith(rpc, "final"))
    BY <1>2, OutParts, TriedOut
  <2> QED
    BY <1>2, <1>4, <2>1, OutParts, UpdatedCounted
<1>5. CASE UpdateRpc(t, verify)
  <2>1. /\ verify.stage = "verify" /\ verify.method = rpc.method
        /\ verify.attempts = rpc.attempts /\ verify.result = rpc.result
    BY <1>2 DEF RpcType
  <2> HIDE DEF verify
  <2>2. Tried(verify)
    BY <1>2, <2>1, TriedOut DEF Tried
  <2> QED
    BY <1>2, <1>5, <2>1, <2>2, UpdatedCounted
<1>6. CASE /\ UpdateRpc(t, again) /\ Chain(rpc)[rpc.at] = "Retry"
           /\ rpc.result = "transient" /\ rpc.attempts < options.attempts
  <2>1. /\ again.stage = "in" /\ again.method = rpc.method /\ again.via = rpc.via
        /\ again.attempts = rpc.attempts /\ again.result = "transient" /\ again.at = rpc.at + 1
    BY <1>2, <1>6 DEF In, RpcType
  <2> HIDE DEF again
  <2>2. Chain(again) = Chain(rpc)
    BY <2>1 DEF Chain
  <2>3. rpc.at = Len(Chain(rpc))
    BY <1>2, <1>6, RetryLast, ChainShort
  <2>4. Tried(again)
    BY <1>2, <1>6, <2>1, <2>2, <2>3 DEF Tried
  <2> QED
    BY <1>2, <1>6, <2>1, <2>4, UpdatedCounted
<1> QED
  BY <1>3, <1>4, <1>5, <1>6 DEF Retry, LeaveVerifier, Before

LEMMA ReceiveCounted ==
    ASSUME Control, NEW t \in Threads, Counted(call[t]), Receive(t)
    PROVE  Counted(call'[t])
<1> DEFINE rpc == call[t].rpc
<1>1. t \in Processes /\ rpc.stage = "sent"
  BY DEF Processes, Receive
<1>2. rpc \in RpcType /\ Tried(rpc)
  BY <1>1, InRpc DEF Placed, Counted
<1>3. PICK result \in {"ok", "transient", "final"} : UpdateRpc(t, OutWith(rpc, result))
  BY DEF Receive
<1>4. Tried(OutWith(rpc, result))
  BY <1>2, OutParts, TriedOut
<1> QED
  BY <1>1, <1>2, <1>3, <1>4, OutParts, UpdatedCounted

\* A call that returns has been told what happened.
LEMMA ReturnsCounted ==
    ASSUME Control, NEW t \in Threads, Counted(call[t]), NEW result, Return(t, result),
           result = "ok" => call[t].ran > 0, result = "notConnected" => call[t].ran = 0
    PROVE  Counted(call'[t])
<1> DEFINE c == [Started("none", <<>>) EXCEPT !.ran = call[t].ran, !.outcome = result]
<1>1. /\ c.todo = <<>> /\ c.rpc = NoRpc /\ c.ran = call[t].ran /\ c.outcome = result
  BY DEF Started
<1> HIDE DEF c
<1>2. call' = [call EXCEPT ![t] = c]
  BY DEF Return, c
<1>3. call'[t] = c
  BY <1>2 DEF Control, Fields, Processes
<1>4. Tried(NoRpc)
  BY DEF Tried, NoRpc
<1> QED
  BY <1>1, <1>3, <1>4 DEF Counted, Told

LEMMA VerifyReplyCounted ==
    ASSUME Control, NEW t \in Threads, Counted(call[t]), VerifyReply(t)
    PROVE  Counted(call'[t])
<1> DEFINE rpc == call[t].rpc
           checked == [Out(rpc) EXCEPT !.checked = TRUE]
<1>1. t \in Processes /\ rpc.stage = "verify"
  BY DEF Processes, VerifyReply
<1>2. rpc \in RpcType /\ Tried(rpc)
  BY <1>1, InRpc DEF Placed, Counted
<1>3. CASE UpdateRpc(t, checked)
  <2>1. /\ checked.stage \in {"out", "done"} /\ checked.method = rpc.method
        /\ checked.attempts = rpc.attempts /\ checked.result = rpc.result
    BY <1>2, OutParts
  <2> HIDE DEF checked
  <2>2. Tried(checked)
    BY <1>2, <2>1, TriedOut DEF Tried
  <2> QED
    BY <1>1, <1>3, <2>1, <2>2, UpdatedCounted
<1>4. CASE UpdateRpc(t, OutWith(rpc, "final"))
  <2>1. Tried(OutWith(rpc, "final"))
    BY <1>2, OutParts, TriedOut
  <2> QED
    BY <1>1, <1>2, <1>4, <2>1, OutParts, UpdatedCounted
<1> QED
  BY <1>3, <1>4, ReturnsCounted DEF VerifyReply

\* A server that runs anything for an operation runs what the operation is for.
LEMMA RunsItsMethod ==
    ASSUME NEW o \in DOMAIN RpcOf, Answering(Implemented, RpcOf[o]) # "Unimplemented"
    PROVE  Answering(Implemented, RpcOf[o]) = RpcOf[o]
<1> DEFINE method == RpcOf[o]
<1>1. method \in Methods /\ HandlerOf(Stubs[method].path).runs = method
  BY OperationsHaveStubs, StubsReachTheirMethods
<1> HIDE DEF method
<1>2. Answering(Implemented, method) =
         IF method \in Implemented THEN method ELSE UnimplementedLcServiceServer[method]
  BY <1>1 DEF Answering, RegisterLcServiceServer, LcServiceServer
<1>3. UnimplementedLcServiceServer[method] = "Unimplemented"
  BY <1>1 DEF UnimplementedLcServiceServer, LcServiceServer
<1>4. Answering(Implemented, method) # "Unimplemented"
  BY DEF method
<1>5. Answering(Implemented, method) = method
  BY <1>2, <1>3, <1>4
<1> QED
  BY <1>5 DEF method

\* An attempt counts whether it runs or not.
LEMMA SendCounted ==
    ASSUME Control, NEW t \in Threads, Counted(call[t]), Send(t)
    PROVE  Counted(call'[t])
<1> DEFINE c == call[t]
           rpc == [c.rpc EXCEPT !.attempts = @ + 1]
           sent == [rpc EXCEPT !.stage = "sent"]
           runs == Answering(Implemented, rpc.method)
           itsOwn == Head(c.todo) = "rpc" /\ runs = RpcOf[c.op]
<1>1. /\ t \in Processes /\ c \in CallType /\ c.rpc \in RpcType /\ c.ran \in Nat
      /\ c.rpc.attempts \in Nat /\ options.attempts \in Nat
  BY DEF Processes, Control, Fields, CallType, RpcType, OptionsType
<1>2. /\ rpc \in RpcType /\ rpc.stage = c.rpc.stage /\ rpc.via = c.rpc.via
      /\ rpc.at = c.rpc.at /\ rpc.method = c.rpc.method
      /\ rpc.attempts = c.rpc.attempts + 1 /\ rpc.result = c.rpc.result
  BY <1>1 DEF RpcType
<1>3. c.rpc.stage = "in" /\ c.todo # <<>> /\ Tried(c.rpc)
  <2>1. c.rpc.stage = "in"
    BY <1>2 DEF Send
  <2> QED
    BY <1>1, <2>1, InRpc DEF Counted, Idle
<1>4. /\ sent.stage = "sent" /\ sent.method = rpc.method
      /\ sent.attempts = rpc.attempts /\ sent.result = rpc.result
  BY <1>2 DEF RpcType
<1>5. rpc.attempts > 1 => rpc.attempts <= options.attempts
  <2>1. c.rpc.attempts > 0 => c.rpc.attempts < options.attempts
    BY <1>3 DEF Tried
  <2> QED
    BY <1>1, <1>2, <2>1
<1>6. c.rpc.result \in {"none", "transient"}
  BY <1>3 DEF Tried
<1>7. c.op \in DOMAIN RpcOf
  BY <1>1, <1>3 DEF Control, Shaped, Idle
<1> DEFINE ranSoFar == IF Calls(c.todo) THEN c.ran <= (IF Head(c.todo) = "rpc" THEN c.rpc.attempts ELSE 0)
                       ELSE c.ran > 0
<1>8. /\ CallsOnce(c.todo) /\ ranSoFar /\ (c.ran > 1 => c.ran <= options.attempts)
      /\ Head(c.todo) = "rpc" => c.rpc.method = RpcOf[c.op]
  BY <1>3 DEF Counted
<1>9. Head(c.todo) = "rpc" => Calls(c.todo)
  <2>1. Head(c.todo) = c.todo[1] /\ Len(c.todo) \in Nat \ {0}
    BY <1>1, <1>3, FirstPhase DEF CallType
  <2> QED
    BY <2>1 DEF Calls
<1>10. PICK r, k : /\ call'[t].rpc = r /\ call'[t].ran = k
                   /\ call'[t].todo = c.todo /\ call'[t].op = c.op
                   /\ \/ /\ r = sent /\ runs # "Unimplemented"
                         /\ k = IF itsOwn THEN c.ran + 1 ELSE c.ran
                      \/ k = c.ran /\ \E result \in {"transient", "final"} : r = OutWith(rpc, result)
  <2>1. CASE \E result \in {"transient", "final"} : call' = [call EXCEPT ![t].rpc = OutWith(rpc, result)]
    <3>1. PICK result \in {"transient", "final"} : call' = [call EXCEPT ![t].rpc = OutWith(rpc, result)]
      BY <2>1
    <3>2. PICK r : r = OutWith(rpc, result)
      OBVIOUS
    <3>3. call' = [call EXCEPT ![t].rpc = r]
      BY <3>1, <3>2
    <3>4. call'[t].rpc = r /\ call'[t].ran = c.ran /\ call'[t].todo = c.todo /\ call'[t].op = c.op
      BY <1>1, <3>3 DEF Control, Fields, CallType
    <3> QED
      BY <3>2, <3>4
  <2>2. CASE /\ runs # "Unimplemented"
             /\ call' = [call EXCEPT ![t].rpc = sent, ![t].ran = IF itsOwn THEN @ + 1 ELSE @]
    <3>1. PICK k : k = IF itsOwn THEN c.ran + 1 ELSE c.ran
      OBVIOUS
    <3>2. call' = [call EXCEPT ![t].rpc = sent, ![t].ran = k]
      BY <1>1, <2>2, <3>1 DEF Control, Fields, CallType
    <3> HIDE DEF sent, itsOwn, runs
    <3>3. call'[t].rpc = sent /\ call'[t].ran = k /\ call'[t].todo = c.todo /\ call'[t].op = c.op
      BY <1>1, <3>2 DEF Control, Fields, CallType
    <3> QED
      BY <2>2, <3>1, <3>3
  <2> QED
    BY <2>1, <2>2 DEF Send
<1> HIDE DEF sent
<1>11. /\ r.attempts = rpc.attempts /\ r.method = rpc.method
       /\ r.stage \in {"sent", "out", "done"} /\ r.result \in {"none", "transient", "final"}
       /\ r.stage = "sent" => r.result \in {"none", "transient"} /\ r = sent
  <2>1. CASE r = sent
    BY <1>2, <1>4, <1>6, <2>1
  <2>2. ASSUME NEW result \in {"transient", "final"}, r = OutWith(rpc, result)
        PROVE  /\ r.attempts = rpc.attempts /\ r.method = rpc.method
               /\ r.stage \in {"out", "done"} /\ r.result = result
    <3> HIDE DEF rpc
    <3> QED
      BY <1>2, <2>2, OutParts
  <2> QED
    BY <1>10, <2>1, <2>2
<1>12. Tried(r)
  <2>1. r.attempts > 1 => r.attempts <= options.attempts
    BY <1>5, <1>11
  <2> HIDE DEF rpc
  <2> QED
    BY <1>11, <2>1 DEF Tried
<1>13. k \in Nat /\ c.ran <= k /\ (k # c.ran => Head(c.todo) = "rpc" /\ k = c.ran + 1)
  BY <1>1, <1>10
<1>14. Head(c.todo) = "rpc" /\ r.stage = "sent" => k > 0
  <2> SUFFICES ASSUME Head(c.todo) = "rpc", r.stage = "sent"
               PROVE  k > 0
    OBVIOUS
  <2>1. r = sent
    BY <1>11
  <2>2. rpc.method = RpcOf[c.op]
    BY <1>2, <1>8
  <2>3. CASE runs # "Unimplemented" /\ k = IF itsOwn THEN c.ran + 1 ELSE c.ran
    <3>1. runs = RpcOf[c.op]
      <4> HIDE DEF rpc
      <4> QED
        BY <1>7, <2>2, <2>3, RunsItsMethod
    <3> QED
      BY <1>1, <2>3, <3>1
  <2>4. CASE \E result \in {"transient", "final"} : r = OutWith(rpc, result)
    <3>1. r.stage \in {"out", "done"}
      <4> HIDE DEF rpc
      <4> QED
        BY <1>2, <2>4, OutParts
    <3> QED
      BY <3>1
  <2> QED
    BY <1>10, <2>3, <2>4
<1>15. Head(c.todo) = "rpc" => k <= r.attempts
  BY <1>1, <1>2, <1>8, <1>9, <1>11, <1>13
<1>16. k > 1 => k <= options.attempts
  <2>1. CASE k = c.ran
    BY <1>8, <2>1
  <2>2. CASE k # c.ran
    BY <1>1, <1>2, <1>5, <1>11, <1>13, <1>15, <2>2
  <2> QED
    BY <2>1, <2>2
<1>17. IF Calls(c.todo) THEN k <= (IF Head(c.todo) = "rpc" THEN r.attempts ELSE 0) ELSE k > 0
  BY <1>1, <1>8, <1>9, <1>13, <1>15
<1>18. r.result # "ok" /\ (Head(c.todo) = "rpc" => r.method = RpcOf[c.op])
  BY <1>2, <1>8, <1>11
<1> HIDE DEF rpc, runs, itsOwn, ranSoFar
<1> QED
  BY <1>3, <1>8, <1>10, <1>12, <1>14, <1>16, <1>17, <1>18 DEF Counted

-----------------------------------------------------------------------------
(* The phases of a call.                                                   *)

\* What is left of a call after its next phases calls the service once more or,
\* if they did, no more.
LEMMA RestCalls ==
    ASSUME NEW todo \in Seq(Phase), CallsOnce(todo), NEW n \in Nat \ {0}, n < Len(todo)
    PROVE  LET rest == SubSeq(todo, n + 1, Len(todo))
           IN  /\ CallsOnce(rest)
               /\ Calls(rest) => Calls(todo) /\ \A i \in 1..n : todo[i] # "rpc"
               /\ Calls(todo) => Calls(rest) \/ \E i \in 1..n : todo[i] = "rpc"
<1> DEFINE rest == SubSeq(todo, n + 1, Len(todo))
<1>1. /\ rest \in Seq(Phase)
      /\ Len(rest) = Len(todo) - n
      /\ \A i \in 1..(Len(todo) - n) : rest[i] = todo[n + i]
      /\ Len(todo) \in Nat
  BY SubSeqProperties, LenProperties
<1> HIDE DEF rest
<1>2. CallsOnce(rest)
  <2>1. ASSUME NEW i \in 1..Len(rest), rest[i] = "rpc", NEW j \in 1..Len(rest), rest[j] = "rpc"
        PROVE  j = i
    <3>1. n + i \in 1..Len(todo) /\ todo[n + i] = "rpc" /\ n + j \in 1..Len(todo) /\ todo[n + j] = "rpc"
      BY <1>1, <2>1
    <3>2. n + j = n + i
      BY <3>1 DEF CallsOnce
    <3> QED
      BY <3>2
  <2>2. ASSUME NEW i \in 1..Len(rest), rest[i] = "state"
        PROVE  i < Len(rest) /\ rest[i + 1] = "rpc"
    <3>1. n + i \in 1..Len(todo) /\ todo[n + i] = "state"
      BY <1>1, <2>2
    <3>2. n + i < Len(todo) /\ todo[(n + i) + 1] = "rpc"
      BY <3>1 DEF CallsOnce
    <3>3. i + 1 \in 1..(Len(todo) - n) /\ n + (i + 1) = (n + i) + 1
      BY <1>1, <3>2
    <3> QED
      BY <1>1, <3>2, <3>3
  <2> QED
    BY <2>1, <2>2 DEF CallsOnce
<1>3. ASSUME Calls(rest)
      PROVE  Calls(todo) /\ \A i \in 1..n : todo[i] # "rpc"
  <2>1. PICK j \in 1..Len(rest) : rest[j] = "rpc"
    BY <1>3 DEF Calls
  <2>2. n + j \in 1..Len(todo) /\ todo[n + j] = "rpc"
    BY <1>1, <2>1
  <2>3. ASSUME NEW i \in 1..n, todo[i] = "rpc"
        PROVE  FALSE
    <3>1. i \in 1..Len(todo) /\ n + j # i
      BY <1>1, <2>1
    <3> QED
      BY <2>2, <2>3, <3>1 DEF CallsOnce
  <2> QED
    BY <2>2, <2>3 DEF Calls
<1>4. ASSUME Calls(todo), ~(\E i \in 1..n : todo[i] = "rpc")
      PROVE  Calls(rest)
  <2>1. PICK j \in 1..Len(todo) : todo[j] = "rpc"
    BY <1>4 DEF Calls
  <2>2. j \notin 1..n
    BY <1>4, <2>1
  <2>3. PICK i \in 1..(Len(todo) - n) : n + i = j
    <3>1. j - n \in 1..(Len(todo) - n) /\ n + (j - n) = j
      BY <1>1, <2>1, <2>2
    <3> QED
      BY <3>1
  <2>4. rest[i] = "rpc" /\ i \in 1..Len(rest)
    BY <1>1, <2>1, <2>3
  <2> QED
    BY <2>4 DEF Calls
<1> QED
  BY <1>2, <1>3, <1>4 DEF rest

\* The phases that are done call the service, or run it not.
LEMMA HeadCalls ==
    ASSUME NEW todo \in Seq(Phase), Ordered(todo), todo # <<>>,
           NEW n \in {1, 2}, n <= Len(todo), n = 2 => Head(todo) = "key"
    PROVE  \A i \in 1..n : todo[i] = "rpc" => Head(todo) = "rpc" /\ i = 1
<1>1. Head(todo) = todo[1] /\ Len(todo) \in Nat \ {0}
  BY FirstPhase
<1>2. n = 2 => todo[2] = "check"
  <2>1. todo[1] = "key" => todo[1 + 1] = "check"
    BY <1>1 DEF Ordered
  <2> QED
    BY <1>1, <2>1
<1> QED
  BY <1>1, <1>2

\* A call goes on with its next phase: beyond the service it has run.
LEMMA GoesOnCounted ==
    ASSUME NEW c, c.todo \in Seq(Phase), Ordered(c.todo), c.todo # <<>>, c.ran \in Nat, Counted(c),
           NEW n \in {1, 2}, n < Len(c.todo), n = 2 => Head(c.todo) = "key",
           Head(c.todo) = "rpc" => c.ran > 0,
           NEW d, d.todo = SubSeq(c.todo, n + 1, Len(c.todo)), d.rpc.stage = "none", Tried(d.rpc),
           d.ran = c.ran
    PROVE  Counted(d)
<1>1. /\ CallsOnce(d.todo)
      /\ Calls(d.todo) => Calls(c.todo) /\ \A i \in 1..n : c.todo[i] # "rpc"
      /\ Calls(c.todo) => Calls(d.todo) \/ \E i \in 1..n : c.todo[i] = "rpc"
  BY RestCalls DEF Counted
<1>2. Head(c.todo) = c.todo[1] /\ 1 \in 1..n
  BY FirstPhase
<1>3. Calls(d.todo) => d.ran <= 0
  BY <1>1, <1>2 DEF Counted
<1>4. ~Calls(d.todo) => d.ran > 0
  BY <1>1, HeadCalls DEF Counted
<1>5. d.todo # <<>>
  BY Rest
<1>6. d.rpc.attempts = 0 /\ d.rpc.result = "none"
  BY DEF Tried
<1>7. IF Calls(d.todo) THEN d.ran <= (IF Head(d.todo) = "rpc" THEN d.rpc.attempts ELSE 0)
                       ELSE d.ran > 0
  BY <1>3, <1>4, <1>6
<1>8. d.ran > 1 => d.ran <= options.attempts
  BY DEF Counted
<1> QED
  BY <1>1, <1>5, <1>6, <1>7, <1>8 DEF Counted

LEMMA AdvancesCounted ==
    ASSUME Control, NEW t \in Threads, Counted(call[t]), ~Idle(t),
           NEW n \in {1, 2}, n = 2 => Head(call[t].todo) = "key",
           Head(call[t].todo) = "rpc" => call[t].ran > 0,
           NEW c \in CallType, c.todo = call[t].todo, c.ran = call[t].ran, Advance(t, c, n)
    PROVE  Counted(call'[t])
<1>1. /\ call[t] \in CallType /\ call[t].todo \in Seq(Phase) /\ call[t].todo # <<>>
      /\ call[t].ran \in Nat /\ Ordered(call[t].todo) /\ t \in Processes
  BY DEF Control, Fields, CallType, Processes, Shaped, Idle
<1>2. /\ Len(c.todo) \in Nat \ {0} /\ Head(c.todo) = c.todo[1]
      /\ n <= Len(c.todo)
  <2>1. Len(c.todo) \in Nat \ {0} /\ Head(c.todo) = c.todo[1]
    BY <1>1, FirstPhase
  <2>2. c.todo[1] = "key" => 1 < Len(c.todo)
    BY <1>1, <2>1 DEF Ordered
  <2> QED
    BY <2>1, <2>2
<1>3. CASE Len(c.todo) = n
  <2>1. Return(t, "ok")
    BY <1>3 DEF Advance
  <2>2. call[t].ran > 0
    <3>1. CASE Calls(c.todo)
      <4>1. PICK i \in 1..n : c.todo[i] = "rpc"
        BY <1>3, <3>1 DEF Calls
      <4>2. Head(c.todo) = "rpc"
        BY <1>1, <1>2, <4>1, HeadCalls
      <4> QED
        BY <4>2
    <3>2. CASE ~Calls(c.todo)
      BY <1>1, <3>2 DEF Counted
    <3> QED
      BY <3>1, <3>2
  <2> QED
    BY <2>1, <2>2, ReturnsCounted
<1>4. CASE Len(c.todo) # n
  <2> DEFINE d == [c EXCEPT !.todo = SubSeq(@, n + 1, Len(@)), !.rpc = NoRpc]
  <2>1. d.todo = SubSeq(c.todo, n + 1, Len(c.todo)) /\ d.rpc = NoRpc /\ d.ran = c.ran
    BY DEF CallType
  <2>2. call' = [call EXCEPT ![t] = d]
    BY <1>4 DEF Advance
  <2> HIDE DEF d
  <2>3. call'[t] = d
    BY <1>1, <2>2 DEF Control, Fields
  <2>4. Tried(NoRpc) /\ NoRpc.stage = "none"
    BY DEF Tried, NoRpc
  <2>5. n < Len(call[t].todo)
    BY <1>2, <1>4
  <2>6. /\ d.todo = SubSeq(call[t].todo, n + 1, Len(call[t].todo)) /\ d.rpc.stage = "none"
        /\ Tried(d.rpc) /\ d.ran = call[t].ran
    BY <2>1, <2>4
  <2>7. PICK before : before = call[t]
    OBVIOUS
  <2>8. Counted(d)
    BY <1>1, <2>5, <2>6, <2>7, GoesOnCounted
  <2> QED
    BY <2>3, <2>8
<1> QED
  BY <1>3, <1>4

\* An RPC that begins has not been tried.
LEMMA AsksCounted ==
    ASSUME Control, NEW t \in Threads, Counted(call[t]), ~Idle(t), call[t].rpc.stage = "none",
           NEW method, NEW via, call' = [call EXCEPT ![t].rpc = Rpc(method, via)],
           Head(call[t].todo) = "rpc" => method = RpcOf[call[t].op]
    PROVE  Counted(call'[t])
<1> DEFINE rpc == Rpc(method, via)
<1>1. call[t] \in CallType /\ t \in Processes
  BY DEF Control, Fields, Processes
<1>2. /\ rpc.stage = "in" /\ rpc.attempts = 0 /\ rpc.result = "none" /\ rpc.method = method
  BY DEF Rpc, NoRpc
<1> HIDE DEF rpc
<1>3. call' = [call EXCEPT ![t].rpc = rpc]
  BY DEF rpc
<1>4. /\ call'[t].rpc = rpc /\ call'[t].todo = call[t].todo /\ call'[t].ran = call[t].ran
      /\ call'[t].op = call[t].op
  BY <1>1, <1>3 DEF Control, Fields, CallType
<1>5. Tried(rpc)
  BY <1>2 DEF Tried
<1>6. call[t].rpc.attempts = 0
  BY DEF Counted, Tried
<1> QED
  BY <1>2, <1>4, <1>5, <1>6 DEF Counted, Idle

\* The lock is had.
LEMMA AcquireCounted ==
    ASSUME Control, NEW t \in Threads, Counted(call[t]), Acquire(t)
    PROVE  Counted(call'[t])
<1> DEFINE c == call[t]
<1>1. t \in Processes
  BY DEF Processes
<1>2. /\ Head(c.todo) = "acquire" /\ c \in CallType /\ c.todo \in Seq(Phase)
      /\ Ordered(c.todo) /\ c.todo # <<>> /\ c.ran \in Nat /\ c.rpc.stage = "none"
  BY <1>1, AtPhase DEF Acquire, At, CallType
<1>3. CASE Return(t, "final")
  BY <1>3, ReturnsCounted
<1>4. CASE call' = [call EXCEPT ![t].todo = Tail(@)]
  <2>1. 1 < Len(c.todo)
    <3>1. Head(c.todo) = c.todo[1] /\ Len(c.todo) \in Nat \ {0}
      BY <1>2, FirstPhase
    <3> QED
      BY <1>2, <3>1 DEF Ordered
  <2>2. PICK d : d = call'[t]
    OBVIOUS
  <2>3. d.todo = Tail(c.todo) /\ d.rpc = c.rpc /\ d.ran = c.ran
    BY <1>1, <1>2, <1>4, <2>2 DEF Control, Fields, CallType
  <2>4. d.todo = SubSeq(c.todo, 1 + 1, Len(c.todo)) /\ d.rpc.stage = "none" /\ Tried(d.rpc)
    BY <1>2, <2>3, TailIsSubSeq DEF Counted
  <2>5. PICK before : before = call[t]
    OBVIOUS
  <2>6. Head(before.todo) # "rpc" /\ Counted(before) /\ before.ran = d.ran
    BY <1>2, <2>3, <2>5
  <2>7. Counted(d)
    BY <1>2, <2>1, <2>4, <2>5, <2>6, GoesOnCounted
  <2> QED
    BY <2>2, <2>7
<1> QED
  BY <1>3, <1>4 DEF Acquire

\* A call that begins has not run.
LEMMA BeginCounted ==
    ASSUME Control, NEW t \in Threads, NEW o, Begin(t, o)
    PROVE  Counted(call'[t])
<1> DEFINE todo == Phases(o)
           c == Started(o, todo)
<1>1. todo \in Seq(Phase) /\ todo # <<>>
  BY PhasesOrdered
<1>2. CallsOnce(todo) /\ Calls(todo)
  <2>1. CASE o \in DOMAIN Direct
    <3>1. todo = <<"rpc">>
      BY <2>1 DEF Phases
    <3>2. Len(<<"rpc">>) = 1 /\ <<"rpc">>[1] = "rpc"
      OBVIOUS
    <3> HIDE DEF todo
    <3> QED
      BY <3>1, <3>2 DEF CallsOnce, Calls
  <2>2. CASE o \notin DOMAIN Direct /\ o \in DOMAIN KeepFirst
    <3>1. todo = <<"lock", "acquire", "defer", "state", "rpc", "keep", "key", "check">>
      BY <2>2 DEF Phases
    <3> HIDE DEF todo
    <3> QED
      BY <3>1 DEF CallsOnce, Calls
  <2>3. CASE o \notin DOMAIN Direct /\ o \notin DOMAIN KeepFirst
    <3>1. todo = <<"lock", "acquire", "defer", "state", "rpc", "key", "check", "keep">>
      BY <2>3 DEF Phases
    <3> HIDE DEF todo
    <3> QED
      BY <3>1 DEF CallsOnce, Calls
  <2> QED
    BY <2>1, <2>2, <2>3
<1>3. /\ c.todo = todo /\ c.rpc = NoRpc /\ c.ran = 0
  BY DEF Started
<1>4. Tried(NoRpc) /\ NoRpc.stage = "none" /\ NoRpc.attempts = 0 /\ NoRpc.result = "none"
  BY DEF Tried, NoRpc
<1> HIDE DEF todo, c
<1>5. call' = [call EXCEPT ![t] = c]
  BY DEF Begin, c, todo
<1>6. call'[t] = c
  BY <1>5 DEF Control, Fields, Processes
<1> QED
  BY <1>1, <1>2, <1>3, <1>4, <1>6 DEF Counted

\* A phase of a call that makes no RPC, or has its answer.
LEMMA PhaseCounted ==
    ASSUME Control, NEW t \in Threads, Counted(call[t]),
           \/ CacheLock(t) \/ DeferUnlock(t) \/ StateAnswered(t) \/ ServiceAnswered(t)
           \/ SetState(t) \/ LookForKey(t) \/ CheckSignature(t)
    PROVE  Counted(call'[t])
<1> DEFINE c == call[t]
<1>1. t \in Processes /\ c \in CallType /\ c.ran \in Nat
  BY DEF Control, Fields, CallType, Processes
<1>2. stateService \in 0..MaxConns
  BY ConnectionAssumption DEF Control, Fields, Injected
<1>3. /\ c.todo # <<>>
      /\ \/ CacheLock(t) /\ Head(c.todo) = "lock"
         \/ DeferUnlock(t) /\ Head(c.todo) = "defer"
         \/ StateAnswered(t) /\ Head(c.todo) = "state"
         \/ ServiceAnswered(t) /\ Head(c.todo) = "rpc"
         \/ SetState(t) /\ Head(c.todo) = "keep"
         \/ LookForKey(t) /\ Head(c.todo) = "key"
         \/ CheckSignature(t) /\ Head(c.todo) = "check"
  BY DEF CacheLock, DeferUnlock, StateAnswered, ServiceAnswered, SetState, LookForKey,
         CheckSignature, At, Answered, Idle
<1>4. ~Idle(t)
  BY <1>3 DEF Idle
<1>5. ASSUME NEW d \in CallType, d.todo = c.todo, d.ran = c.ran, Advance(t, d, 1),
             Head(c.todo) # "rpc"
      PROVE  Counted(call'[t])
  BY <1>4, <1>5, AdvancesCounted
<1>6. /\ [c EXCEPT !.lockOn = stateService] \in CallType
      /\ [c EXCEPT !.unlockOn = stateService] \in CallType
  BY <1>1, <1>2 DEF CallType
<1>7. ASSUME NEW result \in {"final", "panic"}, Return(t, result)
      PROVE  Counted(call'[t])
  BY <1>7, ReturnsCounted
<1>8. CASE CacheLock(t) /\ Head(c.todo) = "lock"
  <2>1. PICK d : d = [c EXCEPT !.lockOn = stateService]
    OBVIOUS
  <2>2. d \in CallType /\ d.todo = c.todo /\ d.ran = c.ran
    BY <1>1, <1>6, <2>1 DEF CallType
  <2>3. Return(t, "panic") \/ Advance(t, d, 1)
    BY <1>8, <2>1 DEF CacheLock
  <2> QED
    BY <1>5, <1>7, <1>8, <2>2, <2>3
<1>9. CASE DeferUnlock(t) /\ Head(c.todo) = "defer"
  <2>1. PICK d : d = [c EXCEPT !.unlockOn = stateService]
    OBVIOUS
  <2>2. d \in CallType /\ d.todo = c.todo /\ d.ran = c.ran
    BY <1>1, <1>6, <2>1 DEF CallType
  <2>3. Return(t, "panic") \/ Advance(t, d, 1)
    BY <1>9, <2>1 DEF DeferUnlock
  <2> QED
    BY <1>5, <1>7, <1>9, <2>2, <2>3
<1>10. CASE StateAnswered(t) /\ Head(c.todo) = "state"
  <2>1. CASE c.rpc.result = "ok"
    BY <1>1, <1>5, <1>10, <2>1 DEF StateAnswered
  <2>2. CASE c.rpc.result # "ok"
    <3>1. Return(t, c.rpc.result)
      BY <1>10, <2>2 DEF StateAnswered
    <3>2. Calls(c.todo)
      <4>1. Head(c.todo) = c.todo[1] /\ Len(c.todo) \in Nat \ {0}
        BY <1>1, <1>3, FirstPhase DEF CallType
      <4>2. 1 < Len(c.todo) /\ c.todo[1 + 1] = "rpc"
        BY <1>3, <1>10, <4>1 DEF Counted, CallsOnce
      <4> QED
        BY <4>1, <4>2 DEF Calls
    <3>3. c.ran = 0
      BY <1>1, <1>3, <1>10, <3>2 DEF Counted
    <3> QED
      BY <2>2, <3>1, <3>3, ReturnsCounted
  <2> QED
    BY <2>1, <2>2
<1>11. CASE ServiceAnswered(t) /\ Head(c.todo) = "rpc"
  <2>1. c.rpc.result = "ok" => c.ran > 0
    BY <1>3, <1>11 DEF Counted
  <2>2. c.rpc.result = "notConnected" => c.ran = 0
    <3>1. Calls(c.todo)
      <4>1. Head(c.todo) = c.todo[1] /\ Len(c.todo) \in Nat \ {0}
        BY <1>1, <1>3, FirstPhase DEF CallType
      <4> QED
        BY <1>11, <4>1 DEF Calls
    <3>2. c.rpc.result = "notConnected" => c.rpc.attempts = 0
      BY DEF Counted, Tried
    <3> QED
      BY <1>1, <1>3, <1>11, <3>1, <3>2 DEF Counted
  <2>3. CASE c.rpc.result = "ok" /\ Advance(t, c, 1)
    BY <1>1, <1>4, <2>1, <2>3, AdvancesCounted
  <2>4. CASE c.rpc.result # "ok" /\ Return(t, c.rpc.result)
    BY <2>2, <2>4, ReturnsCounted
  <2> QED
    BY <1>7, <1>11, <2>3, <2>4 DEF ServiceAnswered
<1>12. CASE SetState(t) /\ Head(c.todo) = "keep"
  BY <1>1, <1>5, <1>7, <1>12 DEF SetState
<1>13. CASE LookForKey(t) /\ Head(c.todo) = "key"
  <2>1. PICK n \in {1, 2} : Advance(t, c, n)
    BY <1>13 DEF LookForKey
  <2> QED
    BY <1>1, <1>4, <1>13, <2>1, AdvancesCounted
<1>14. CASE CheckSignature(t) /\ Head(c.todo) = "check"
  BY <1>1, <1>5, <1>7, <1>14 DEF CheckSignature
<1> QED
  BY <1>3, <1>8, <1>9, <1>10, <1>11, <1>12, <1>13, <1>14

LEMMA StepCounted ==
    ASSUME Control, NEW t \in Threads, Counted(call[t]), Step(t)
    PROVE  Counted(call'[t])
<1>1. CASE Intercept(t)
  BY <1>1, EnterCounted, LeaveCounted, SendCounted, VerifyReplyCounted DEF Intercept
<1>2. CASE GetState(t)
  <2>1. ~Idle(t) /\ Head(call[t].todo) = "state" /\ call[t].rpc.stage = "none"
        /\ t \in Processes /\ call[t] \in CallType
    BY <1>2 DEF GetState, At, Control, Fields, Processes
  <2>2. CASE Return(t, "panic") \/ Return(t, "final")
    BY <2>2, ReturnsCounted
  <2>3. CASE Advance(t, call[t], 1)
    BY <2>1, <2>3, AdvancesCounted
  <2>4. CASE call' = [call EXCEPT ![t].rpc = Rpc("CurrentState", stateService)]
    BY <2>1, <2>4, AsksCounted
  <2> QED
    BY <1>2, <2>2, <2>3, <2>4 DEF GetState
<1>3. CASE CallService(t)
  <2>1. ~Idle(t) /\ Head(call[t].todo) = "rpc" /\ call[t].rpc.stage = "none"
    BY <1>3 DEF CallService, At
  <2>2. CASE Return(t, "panic") \/ Return(t, "final")
    BY <2>2, ReturnsCounted
  <2>3. CASE call' = [call EXCEPT ![t].rpc = Rpc(RpcOf[call[t].op], service)]
    BY <2>1, <2>3, AsksCounted
  <2> QED
    BY <1>3, <2>2, <2>3 DEF CallService
<1> QED
  BY <1>1, <1>2, <1>3, PhaseCounted DEF Step

-----------------------------------------------------------------------------
(* The property.                                                           *)

\* What is counted does not change while the options do not.
LEMMA CountedStays ==
    ASSUME options' = options, NEW p
    PROVE  Counted(call'[p]) <=> Counted(call[p])'
BY DEF Counted, Tried, Chain, UnaryChain, StreamChain

LEMMA InitCounting == Init => Counting
<1> SUFFICES ASSUME Init, NEW t \in Threads
             PROVE  Counted(call[t])
  BY InitControl DEF Counting
<1> DEFINE c == Started("none", <<>>)
<1>1. call[t] = c
  BY DEF Init, Processes
<1>2. c.todo = <<>> /\ c.rpc = NoRpc /\ c.ran = 0 /\ c.outcome = "none"
  BY DEF Started
<1> HIDE DEF c
<1>3. Tried(NoRpc)
  BY DEF Tried, NoRpc
<1> QED
  BY <1>1, <1>2, <1>3 DEF Counted, Told

\* The owner's steps, and those of other threads, leave a thread's call alone.
LEMMA CallsElsewhere ==
    ASSUME Control, NEW p \in Processes, NEW q \in Processes, q # p,
           \/ Intercept(p) \/ Receive(p)
           \/ p = Owner /\ (OwnerStep \/ Connect \/ Disconnect)
           \/ p \in Threads /\ (Step(p) \/ Acquire(p) \/ \E o : Begin(p, o))
    PROVE  call'[q] = call[q]
<1>1. ASSUME \E c : call' = [call EXCEPT ![p] = c]
      PROVE  call'[q] = call[q]
  BY <1>1, Alone
<1>2. ASSUME NEW result, Return(p, result)
      PROVE  call'[q] = call[q]
  BY <1>1, <1>2 DEF Return
<1>3. ASSUME NEW c, NEW n, Advance(p, c, n)
      PROVE  call'[q] = call[q]
  BY <1>1, <1>2, <1>3 DEF Advance
<1>4. ASSUME NEW r, UpdateRpc(p, r)
      PROVE  call'[q] = call[q]
  BY <1>4 DEF UpdateRpc, Control, Fields
<1>5. CASE Intercept(p) \/ Receive(p)
  <2>1. CASE Send(p)
    BY <2>1 DEF Send, Control, Fields
  <2> QED
    BY <1>2, <1>4, <1>5, <2>1 DEF Intercept, EnterVerifier, CheckConnection, SetApiKey,
       EnterRetry, Retry, LeaveVerifier, VerifyReply, Receive
<1>6. CASE p = Owner /\ (OwnerStep \/ Connect \/ Disconnect)
  <2>1. CASE AskUuid
    BY <1>6, <2>1 DEF AskUuid, Control, Fields
  <2>2. CASE Dial \/ MakeStubs \/ NewLcStateService \/ CloseConn
    BY <1>2, <1>3, <1>6, <2>2 DEF Dial, MakeStubs, NewLcStateService, CloseConn
  <2>3. CASE Connect \/ Disconnect
    BY <1>1, <1>6, <2>3 DEF Connect, Disconnect
  <2> QED
    BY <1>5, <1>6, <2>1, <2>2, <2>3 DEF OwnerStep
<1>7. CASE p \in Threads /\ (Step(p) \/ Acquire(p) \/ \E o : Begin(p, o))
  <2>1. CASE Acquire(p)
    BY <1>2, <2>1 DEF Acquire, Control, Fields
  <2>2. CASE \E o : Begin(p, o)
    BY <1>1, <2>2 DEF Begin
  <2>3. CASE GetState(p) \/ CallService(p)
    BY <1>2, <1>3, <2>3 DEF GetState, CallService, Control, Fields
  <2>4. CASE \/ CacheLock(p) \/ DeferUnlock(p) \/ StateAnswered(p) \/ ServiceAnswered(p)
             \/ SetState(p) \/ LookForKey(p) \/ CheckSignature(p)
    BY <1>2, <1>3, <2>4 DEF CacheLock, DeferUnlock, StateAnswered, ServiceAnswered, SetState,
       LookForKey, CheckSignature
  <2> QED
    BY <1>5, <1>7, <2>1, <2>2, <2>3, <2>4 DEF Step
<1> QED
  BY <1>5, <1>6, <1>7

LEMMA NextCounting == Counting /\ [Next]_vars => Counting'
<1> SUFFICES ASSUME Counting, [Next]_vars
             PROVE  Counting'
  OBVIOUS
<1>1. Control /\ Control' /\ \A t \in Threads : Counted(call[t])
  BY NextKeeps DEF Counting
<1>2. ASSUME NEW t \in Threads
      PROVE  Counted(call[t])'
  <2>1. t \in Processes /\ Threads \subseteq Processes /\ Owner \in Processes /\ t # Owner
    BY OwnerIdle DEF Processes
  <2>2. CASE Step(t) \/ Receive(t) \/ Acquire(t) \/ \E o \in Ops[t] : Begin(t, o)
    BY <1>1, <2>2, StepCounted, ReceiveCounted, AcquireCounted, BeginCounted,
       OptionsKept, CountedStays
  <2>3. ASSUME NEW u \in Threads \ {t},
               Step(u) \/ Receive(u) \/ Acquire(u) \/ \E o \in Ops[u] : Begin(u, o)
        PROVE  Counted(call[t])'
    <3>1. call'[t] = call[t]
      BY <1>1, <2>1, <2>3, CallsElsewhere
    <3> QED
      BY <1>1, <3>1, OptionsKept, CountedStays
  <2>4. CASE OwnerStep \/ Receive(Owner) \/ Connect \/ Disconnect
    <3>1. call'[t] = call[t]
      BY <1>1, <2>1, <2>4, CallsElsewhere
    <3> QED
      BY <1>1, <3>1, OptionsKept, CountedStays
  <2>5. CASE SetServerSigningPubKey \/ UNCHANGED vars
    <3>1. call' = call
      BY <2>5 DEF SetServerSigningPubKey, vars
    <3> QED
      BY <1>1, <3>1, OptionsKept, CountedStays
  <2> QED
    BY <2>2, <2>3, <2>4, <2>5 DEF Next
<1> QED
  BY <1>1, <1>2 DEF Counting

LEMMA AlwaysCounting == Spec => []Counting
BY InitCounting, NextCounting, PTL DEF Spec

\* A caller that is told of success has had its method run, one that is told the
\* client is not connected has not, and none has it run more often than the
\* retry options allow: for every operation, through any reconnections
\* (connection_checker_interceptor.go, the chain of NewLcClient, the stubs).
THEOREM ResultsTruthful == Spec => []ResultTruthful
<1>1. Counting => ResultTruthful
  BY DEF Counting, Counted, Told, ResultTruthful, Idle
<1> QED
  BY <1>1, AlwaysCounting, PTL

=============================================================================
