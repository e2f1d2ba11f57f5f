------------------------------ MODULE Streams ------------------------------
(***************************************************************************)
(* One streamed call of the client and the server's side of it, message by *)
(* message.  An entry is several messages (a key and a value, say), each   *)
(* with its announced size; messages arrive in order, so the ones in       *)
(* flight are those sent and not yet received.  A read is a stream of the  *)
(* server's, a write one of the client's that CloseAndRecv ends; verified  *)
(* ones run between the lock and the verification of LcClient.             *)
(***************************************************************************)
EXTENDS LcApi

CONSTANTS
    Ops,        \* the operations called
    Inputs,     \* Inputs[op]: the messages to be streamed, each [size, has]
    Limits,     \* numbers of attempts the retry interceptor may be given
    MaxWire     \* bound: messages in flight (flow control)

StreamCallOps == DOMAIN StreamOps \cup {"StreamVerifiedSet", "StreamVerifiedGet"}

Contents == [size : Nat \ {0}, has : Nat]

\* No message is announced shorter than what there is of it.
ASSUME StreamsAssumption ==
    /\ Ops \subseteq StreamCallOps
    /\ \A op \in Ops : Inputs[op] \subseteq Seq(Contents)
    /\ \A op \in Ops : \A c \in Inputs[op] : \A j \in DOMAIN c : c[j].has <= c[j].size
    /\ Limits \subseteq Nat
    /\ MaxWire \in Nat \ {0}

\* The messages of StreamVerifiedSet are the client's.
ASSUME StreamVerifiedSetSends == StreamStubs[RpcOf["StreamVerifiedSet"]].kind = "client"

VARIABLES
    op,         \* the operation
    given,      \* the contents the caller passed, or the server has
    contents,   \* what is left of them to be sent
    collected,  \* bytes StreamVerifiedSet has read of each, to verify with
    limit,      \* attempts of the retry interceptor; 0 for none
    tries,      \* streams opened
    pc,         \* where the client is
    n,          \* messages the client has sent or read on the stream
    stream,     \* the stream: [sent, rcvd, closed, end]
    cut,        \* the server ended a stream well before its last message
    committed,  \* entries the server has committed
    outcome

input == <<op, given, limit>>
vars == <<input, contents, collected, tries, pc, n, stream, cut, committed, outcome>>

IsRead == StreamStubs[RpcOf[op]].kind = "server"
Gets == {"StreamGet", "StreamVerifiedGet"}

\* Messages of one entry; the value comes last.
Parts(o) == CASE o = "StreamZScan" -> 5           \* set, key, score, transaction
              [] o = "StreamVerifiedGet" -> 4     \* entry, transaction, proof
              [] o = "StreamExecAll" -> 3         \* kind of operation, key
              [] OTHER -> 2                       \* key

\* StreamVerifiedSet first sends the trusted transaction.
Prelude == IF op = "StreamVerifiedSet" THEN 1 ELSE 0

Total == Prelude + Len(given)
InFlight == stream.sent - stream.rcvd
NoStream == [sent |-> 0, rcvd |-> 0, closed |-> FALSE, end |-> "none"]

Init ==
    /\ op \in Ops
    /\ given \in Inputs[op]
    /\ contents = given
    /\ collected = [j \in DOMAIN given |-> 0]
    /\ limit \in Limits
    /\ tries = 0
    /\ pc = IF op = "StreamVerifiedSet" THEN "collect" ELSE "open"
    /\ n = 0
    /\ stream = NoStream
    /\ cut = FALSE
    /\ committed = 0
    /\ outcome = "none"

Return(result) == pc' = "done" /\ outcome' = result

-----------------------------------------------------------------------------
(* The client.                                                             *)

NextToCollect == {j \in DOMAIN given : collected[j] = 0 /\ \A i \in 1..(j - 1) : collected[i] # 0}

\* Mutants of Collect: the content is left as it was; the padding counts as read.
CollectFrom(j, r, left, count) ==
    /\ collected' = [collected EXCEPT ![j] = count]
    /\ contents' = [contents EXCEPT ![j].has = left]
    /\ pc' = IF j = Len(given) THEN "open" ELSE "collect"
    /\ UNCHANGED <<outcome, input, tries, n, stream, cut, committed>>

CollectKeepsContent ==
    /\ pc = "collect"
    /\ \E j \in NextToCollect : \E r \in 1..contents[j].has :
          CollectFrom(j, r, contents[j].has, r)

CollectPadded ==
    /\ pc = "collect"
    /\ \E j \in NextToCollect : \E r \in 1..contents[j].has :
          CollectFrom(j, r, r, given[j].size)

\* One Read per content: it returns any part of what there is, an error when
\* there is nothing; what it returned is put back as the new content.
Collect ==
    /\ pc = "collect"
    /\ \/ /\ given = <<>>
          /\ Return("error")
          /\ UNCHANGED <<contents, collected>>
       \/ \E j \in NextToCollect :
             \/ /\ contents[j].has = 0
                /\ Return("error")
                /\ UNCHANGED <<contents, collected>>
             \/ \E r \in 1..contents[j].has :
                   /\ collected' = [collected EXCEPT ![j] = r]
                   /\ contents' = [contents EXCEPT ![j].has = r]
                   /\ pc' = IF j = Len(given) THEN "open" ELSE "collect"
                   /\ UNCHANGED outcome
    /\ UNCHANGED <<input, tries, n, stream, cut, committed>>

\* The retry interceptor does not open streams the client sends on.
Open ==
    /\ pc = "open"
    /\ \/ /\ IsRead \/ limit = 0
          /\ pc' = IF IsRead THEN "read" ELSE "send"
          /\ tries' = tries + 1
          /\ UNCHANGED outcome
       \/ Return("error") /\ UNCHANGED tries
    /\ UNCHANGED <<input, contents, collected, n, stream, cut, committed>>

\* A message goes out whole or not at all: its content may be short of its
\* size, the server may have ended the stream.  After an error nobody closes.
Short == n >= Prelude /\ contents[n - Prelude + 1].has < contents[n - Prelude + 1].size

\* Mutant of SendMessage: an error ends the loop, not the call.
SendMessageGoesOn ==
    /\ pc = "send"
    /\ n < Total
    /\ \/ /\ Short \/ stream.end # "none"
          /\ stream' = [stream EXCEPT !.closed = TRUE]
          /\ pc' = "answer"
          /\ UNCHANGED n
       \/ /\ ~Short
          /\ stream.end = "none"
          /\ InFlight < MaxWire
          /\ n' = n + 1
          /\ stream' = [stream EXCEPT !.sent = @ + 1]
          /\ UNCHANGED pc
    /\ UNCHANGED <<input, contents, collected, tries, cut, committed, outcome>>

SendMessage ==
    /\ pc = "send"
    /\ n < Total
    /\ \/ /\ Short \/ stream.end # "none"
          /\ Return("error")
          /\ UNCHANGED <<n, stream>>
       \/ /\ ~Short
          /\ stream.end = "none"
          /\ InFlight < MaxWire
          /\ n' = n + 1
          /\ stream' = [stream EXCEPT !.sent = @ + 1]
          /\ UNCHANGED <<pc, outcome>>
    /\ UNCHANGED <<input, contents, collected, tries, cut, committed>>

CloseSend ==
    /\ pc = "send"
    /\ n = Total
    /\ stream' = [stream EXCEPT !.closed = TRUE]
    /\ pc' = "answer"
    /\ UNCHANGED <<input, contents, collected, tries, n, cut, committed, outcome>>

RecvAnswer ==
    /\ pc = "answer"
    /\ stream.end # "none"
    /\ Return(IF stream.end = "ok" THEN "ok" ELSE "error")
    /\ UNCHANGED <<input, contents, collected, tries, n, stream, cut, committed>>

\* The next message to read is the value of an entry.
AtValue == n % Parts(op) = Parts(op) - 1

\* A single read returns with its first entry, and leaves the stream as it is.
ReadMessage ==
    /\ pc = "read"
    /\ InFlight > 0
    /\ n' = n + 1
    /\ stream' = [stream EXCEPT !.rcvd = @ + 1]
    /\ IF op \in Gets /\ AtValue THEN Return("ok") ELSE UNCHANGED <<pc, outcome>>
    /\ UNCHANGED <<input, contents, collected, tries, cut, committed>>

\* Mutant of ReadEnd: any error ends a list.
ReadEndAnyError ==
    /\ pc = "read"
    /\ InFlight = 0
    /\ stream.end # "none"
    /\ Return(IF op \notin Gets /\ ~AtValue THEN "ok" ELSE "error")
    /\ UNCHANGED <<input, contents, collected, tries, n, stream, cut, committed>>

\* A list ends where the stream ends before a value; at a value the data is
\* missing.  A single read must not find the end, and nothing an error.
ReadEnd ==
    /\ pc = "read"
    /\ InFlight = 0
    /\ stream.end # "none"
    /\ Return(IF stream.end = "ok" /\ op \notin Gets /\ ~AtValue THEN "ok" ELSE "error")
    /\ UNCHANGED <<input, contents, collected, tries, n, stream, cut, committed>>

\* Mutant of Retry: attempts are not counted.
RetryUncounted ==
    /\ pc = "read"
    /\ stream.end = "error"
    /\ stream.rcvd = 0
    /\ tries <= limit
    /\ stream' = NoStream
    /\ UNCHANGED <<input, contents, collected, tries, pc, n, cut, committed, outcome>>

\* A read that failed before its first message is tried again.
Retry ==
    /\ pc = "read"
    /\ stream.end = "error"
    /\ stream.rcvd = 0
    /\ tries < limit
    /\ tries' = tries + 1
    /\ stream' = NoStream
    /\ UNCHANGED <<input, contents, collected, pc, n, cut, committed, outcome>>

Client ==
    \/ Collect \/ Open \/ SendMessage \/ CloseSend \/ RecvAnswer
    \/ ReadMessage \/ ReadEnd \/ Retry

-----------------------------------------------------------------------------
(* The server and the network.                                             *)

Serving == tries > 0 /\ stream.end = "none"

Serve(s) == stream' = s /\ UNCHANGED <<input, contents, collected, tries, pc, n, outcome>>

ServerSend ==
    /\ Serving /\ IsRead
    /\ stream.sent < Total
    /\ InFlight < MaxWire
    /\ Serve([stream EXCEPT !.sent = @ + 1])
    /\ UNCHANGED <<cut, committed>>

\* All is sent; or, wrongly, the server stops in the middle.
ServerEnd ==
    /\ Serving /\ IsRead
    /\ Serve([stream EXCEPT !.end = "ok"])
    /\ cut' = (stream.sent < Total)
    /\ UNCHANGED committed

ServerReceive ==
    /\ Serving /\ ~IsRead
    /\ InFlight > 0
    /\ Serve([stream EXCEPT !.rcvd = @ + 1])
    /\ UNCHANGED <<cut, committed>>

\* Once the client has closed its side, what has come is committed, if it is a
\* number of whole entries; the answer may still be lost.
ServerCommit ==
    /\ Serving /\ ~IsRead
    /\ stream.closed
    /\ InFlight = 0
    /\ stream.rcvd > Prelude
    /\ (stream.rcvd - Prelude) % Parts(op) = 0
    /\ committed' = (stream.rcvd - Prelude) \div Parts(op)
    /\ \E end \in {"ok", "error"} : Serve([stream EXCEPT !.end = end])
    /\ UNCHANGED cut

\* The server fails or the connection breaks: what is in flight is lost, or not.
StreamFails ==
    /\ Serving
    /\ \E lost \in {0, InFlight} : Serve([stream EXCEPT !.end = "error", !.sent = @ - lost])
    /\ UNCHANGED <<cut, committed>>

Server == ServerSend \/ ServerEnd \/ ServerReceive \/ ServerCommit \/ StreamFails

-----------------------------------------------------------------------------

Next == Client \/ Server

Spec == Init /\ [][Next]_vars

\* The client is scheduled.  That the server goes on with a stream it serves, or the
\* transport is found dead, is an assumption about them.
FairSpec == Spec /\ WF_vars(Client) /\ WF_vars(Server)

-----------------------------------------------------------------------------
(* Properties.                                                             *)

TypeOK ==
    /\ contents \in Seq(Contents) /\ Len(contents) = Len(given)
    /\ \A j \in DOMAIN given : collected[j] \in 0..given[j].has
    /\ pc \in {"collect", "open", "send", "answer", "read", "done"}
    /\ outcome \in {"none", "ok", "error"} /\ (outcome = "none" <=> pc # "done")
    /\ n \in 0..Total
    /\ stream.rcvd \in 0..stream.sent /\ stream.sent \in 0..Total
    /\ InFlight <= MaxWire
    /\ committed \in 0..Len(given)

Done(result) == pc = "done" /\ outcome = result

Lists == {"StreamScan", "StreamHistory", "StreamZScan"}

\* The messages of a list are the server's.
ASSUME ListsAreReads == \A o \in Lists : StreamStubs[RpcOf[o]].kind = "server"

\* A list that is returned without error is the whole list, whatever failed on
\* the way and however often it was retried; if the server itself ended early,
\* no part of an entry is silently dropped at its value (StreamScan,
\* StreamHistory, StreamZScan).
ScanWhole ==
    Done("ok") /\ op \in Lists => IF cut THEN ~AtValue ELSE n = Total

\* A streamed write is committed whole or not at all, whatever the caller is
\* told, and whole when it is told so: a send that fails must not end in a
\* commit of what went before (StreamSet, StreamVerifiedSet, StreamExecAll).
AllOrNothing ==
    ~IsRead =>
        /\ committed # 0 => committed * Parts(op) = Len(given)
        /\ Done("ok") => committed # 0

\* The entries StreamVerifiedSet verifies with are the entries it has sent: one
\* padded after a short read is never verified.
VerifiedIsWhole ==
    op = "StreamVerifiedSet" /\ Done("ok") =>
        \A j \in DOMAIN given : collected[j] = given[j].size

\* A streamed call comes to an end.
StreamsReturn == <>(pc = "done")

\* What StreamVerifiedSet puts back is what it has taken, as its comments say.
PutBackWhole == [][pc = "collect" => contents' = contents]_vars

=============================================================================
