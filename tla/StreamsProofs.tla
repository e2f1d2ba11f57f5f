---------------------------- MODULE StreamsProofs ---------------------------
(***************************************************************************)
(* Streamed calls for any contents, sizes, numbers of attempts and messages *)
(* in flight: what is in order between the two ends of a stream, and what  *)
(* the result of a call says of it.                                        *)
(***************************************************************************)
EXTENDS Streams, TLAPS

-----------------------------------------------------------------------------
(* The inductive invariant.                                                *)

StreamType ==
    [sent : Nat, rcvd : Nat, closed : BOOLEAN, end : {"none", "ok", "error"}]

\* Numbers and places.
Counts ==
    /\ op \in Ops /\ limit \in Nat /\ tries \in Nat
    /\ pc \in {"collect", "open", "send", "answer", "read", "done"}
    /\ outcome \in {"none", "ok", "error"} /\ (outcome = "none" <=> pc # "done")
    /\ n \in Nat /\ n <= Total
    /\ stream \in StreamType
    /\ stream.rcvd <= stream.sent /\ stream.sent <= Total /\ stream.sent <= stream.rcvd + MaxWire
    /\ cut \in BOOLEAN
    /\ committed \in Nat /\ committed <= Len(given)
    /\ stream.end = "none" => committed = 0

\* What is left of the contents, and what has been read of them.
Contained ==
    /\ given \in Inputs[op]
    /\ contents \in Seq(Contents) /\ Len(contents) = Len(given)
    /\ DOMAIN collected = DOMAIN given
    /\ \A j \in DOMAIN given :
          /\ collected[j] \in 0..given[j].has
          /\ contents[j].size = given[j].size
          /\ contents[j].has = IF collected[j] = 0 THEN given[j].has ELSE collected[j]

\* On a read the client has what it has taken from the stream, and a stream
\* the server ends well without its last message is cut.
Reading ==
    IsRead =>
        /\ pc \notin {"send", "answer"}
        /\ n = stream.rcvd
        /\ committed = 0
        /\ cut => stream.end = "ok"
        /\ stream.end = "ok" => cut \/ stream.sent = Total
        /\ Done("ok") /\ op \notin Gets =>
              stream.end = "ok" /\ stream.sent = stream.rcvd /\ ~AtValue

\* On a write the server has what was sent, as long as it serves the stream, and
\* only a stream that was closed after its last message is committed.
Writing ==
    ~IsRead =>
        /\ pc # "read"
        /\ ~cut
        /\ stream.end = "none" => stream.sent = n
        /\ stream.closed => n = Total
        /\ pc = "answer" \/ Done("ok") => stream.closed
        /\ stream.end = "ok" => committed # 0
        /\ committed # 0 => committed * Parts(op) = Len(given)
        /\ Done("ok") => stream.end = "ok"

\* StreamVerifiedSet has read something of all contents before it sends, and
\* what it has sent is whole.
Collecting ==
    op = "StreamVerifiedSet" =>
        /\ pc = "collect" => n = 0
        /\ pc \notin {"collect", "done"} \/ Done("ok") => \A j \in DOMAIN given : collected[j] # 0
        /\ \A j \in DOMAIN given : j < n => contents[j].has = contents[j].size

Streamed == Counts /\ Contained /\ Reading /\ Writing /\ Collecting

-----------------------------------------------------------------------------
(* Numbers of messages.                                                    *)

LEMMA PartsFew == Parts(op) \in {2, 3, 4, 5}
BY DEF Parts

\* The contents a call is made with.
LEMMA GivenContents ==
    ASSUME Counts, Contained
    PROVE  /\ given \in Seq(Contents) /\ Len(given) \in Nat /\ DOMAIN given = 1..Len(given)
           /\ \A j \in DOMAIN given : given[j] \in Contents /\ given[j].has <= given[j].size
           /\ Prelude \in {0, 1} /\ Total \in Nat /\ Total = Prelude + Len(given)
<1>1. given \in Seq(Contents) /\ \A j \in DOMAIN given : given[j].has <= given[j].size
  BY StreamsAssumption DEF Counts, Contained
<1>2. Len(given) \in Nat /\ DOMAIN given = 1..Len(given)
  BY <1>1
<1>3. \A j \in DOMAIN given : given[j] \in Contents
  BY <1>1
<1> QED
  BY <1>1, <1>2, <1>3 DEF Prelude, Total

\* What depends on the input only stays as it is.
LEMMA InputKept ==
    ASSUME UNCHANGED input
    PROVE  /\ op' = op /\ given' = given /\ limit' = limit
           /\ Total' = Total /\ Prelude' = Prelude /\ (IsRead' <=> IsRead)
BY DEF input, Total, Prelude, IsRead

LEMMA ContainedKept ==
    ASSUME Contained, UNCHANGED <<input, contents, collected>>
    PROVE  Contained'
BY InputKept DEF Contained

-----------------------------------------------------------------------------
(* The client's steps.                                                     *)

LEMMA InitStreamed == Init => Streamed
<1> SUFFICES ASSUME Init
             PROVE  Streamed
  OBVIOUS
<1>1. given \in Seq(Contents)
  BY StreamsAssumption DEF Init
<1>2. Len(given) \in Nat /\ DOMAIN given = 1..Len(given)
      /\ \A j \in DOMAIN given : given[j].has \in Nat
  <2>1. \A j \in DOMAIN given : given[j] \in Contents
    BY <1>1
  <2> QED
    BY <1>1, <2>1 DEF Contents
<1>3. Total \in Nat
  BY <1>2 DEF Total, Prelude
<1>4. stream \in StreamType /\ stream.sent = 0 /\ stream.rcvd = 0 /\ ~stream.closed
      /\ stream.end = "none"
  BY DEF NoStream, StreamType, Init
<1>5. MaxWire \in Nat /\ limit \in Nat
  BY StreamsAssumption DEF Init
<1>6. Counts
  <2>1. op \in Ops /\ tries = 0 /\ pc \in {"collect", "open"} /\ outcome = "none" /\ n = 0
        /\ cut = FALSE /\ committed = 0
    BY DEF Init
  <2>2. /\ n <= Total /\ stream.rcvd <= stream.sent /\ stream.sent <= Total
        /\ stream.sent <= stream.rcvd + MaxWire /\ committed <= Len(given)
    BY <1>2, <1>3, <1>4, <1>5, <2>1
  <2>3. n \in Nat /\ tries \in Nat /\ committed \in Nat /\ cut \in BOOLEAN
    BY <2>1
  <2>4. pc # "done" /\ pc \in {"collect", "open", "send", "answer", "read", "done"}
    BY <2>1
  <2> QED
    BY <1>4, <1>5, <2>1, <2>2, <2>3, <2>4 DEF Counts
<1>7. Contained
  BY <1>1, <1>2 DEF Contained, Init
<1>8. Reading /\ Writing
  BY <1>4 DEF Reading, Writing, Init, Done
<1>9. Collecting
  BY <1>2 DEF Collecting, Init, Done
<1> QED
  BY <1>6, <1>7, <1>8, <1>9 DEF Streamed

LEMMA CollectKeeps ==
    ASSUME Streamed, Collect
    PROVE  Streamed'
<1>1. /\ pc = "collect" /\ UNCHANGED <<input, tries, n, stream, cut, committed>>
      /\ Counts /\ Contained /\ Reading /\ Writing /\ Collecting
  BY DEF Collect, Streamed
<1>2. CASE Return("error") /\ UNCHANGED <<contents, collected>>
  <2>1. Counts'
    BY <1>1, <1>2, InputKept DEF Counts, Return
  <2>2. Reading' /\ Writing'
    BY <1>1, <1>2, InputKept DEF Reading, Writing, Return, Done
  <2>3. Collecting'
    BY <1>1, <1>2, InputKept DEF Collecting, Return, Done
  <2> QED
    BY <1>1, <1>2, <2>1, <2>2, <2>3, ContainedKept DEF Streamed
<1>3. ASSUME NEW j \in NextToCollect, NEW r \in 1..contents[j].has,
             collected' = [collected EXCEPT ![j] = r],
             contents' = [contents EXCEPT ![j].has = r],
             pc' = IF j = Len(given) THEN "open" ELSE "collect",
             UNCHANGED outcome
      PROVE  Streamed'
  <2>1. /\ j \in DOMAIN given /\ collected[j] = 0 /\ \A i \in 1..(j - 1) : collected[i] # 0
        /\ contents[j] \in Contents /\ given[j] \in Contents
        /\ DOMAIN given = 1..Len(given) /\ Len(given) \in Nat /\ DOMAIN contents = DOMAIN given
    BY <1>1, <1>3, GivenContents DEF NextToCollect, Contained
  <2>2. contents[j].has = given[j].has /\ r \in Nat /\ r # 0 /\ r <= given[j].has
    BY <1>1, <1>3, <2>1 DEF Contained, Contents
  <2>3. Counts'
    BY <1>1, <1>3, InputKept DEF Counts
  <2>4. Contained'
    <3>1. contents' \in Seq(Contents) /\ Len(contents') = Len(given)
      <4>1. [contents[j] EXCEPT !.has = r] \in Contents
        BY <2>1, <2>2 DEF Contents
      <4> QED
        BY <1>1, <1>3, <2>1, <4>1 DEF Contained
    <3>2. ASSUME NEW i \in DOMAIN given
          PROVE  /\ collected'[i] \in 0..given[i].has
                 /\ contents'[i].size = given[i].size
                 /\ contents'[i].has = IF collected'[i] = 0 THEN given[i].has ELSE collected'[i]
      <4>1. CASE i = j
        BY <1>1, <1>3, <2>1, <2>2, <4>1 DEF Contained, Contents
      <4>2. CASE i # j
        BY <1>1, <1>3, <2>1, <4>2 DEF Contained
      <4> QED
        BY <4>1, <4>2
    <3>3. DOMAIN collected' = DOMAIN given
      BY <1>1, <1>3 DEF Contained
    <3> QED
      BY <1>1, <3>1, <3>2, <3>3, InputKept DEF Contained
  <2>5. Reading' /\ Writing'
    BY <1>1, <1>3, InputKept DEF Reading, Writing, Done, Counts
  <2>6. Collecting'
    <3> SUFFICES ASSUME op = "StreamVerifiedSet"
                 PROVE  /\ n = 0
                        /\ pc' # "collect" => \A i \in DOMAIN given : collected'[i] # 0
      BY <1>1, <1>3, <2>1, InputKept DEF Collecting, Done, Counts
    <3>1. n = 0
      BY <1>1 DEF Collecting
    <3>2. ASSUME j = Len(given), NEW i \in DOMAIN given
          PROVE  collected'[i] # 0
      BY <1>1, <1>3, <2>1, <2>2, <3>2 DEF Contained
    <3> QED
      BY <1>3, <3>1, <3>2
  <2> QED
    BY <2>3, <2>4, <2>5, <2>6 DEF Streamed
<1> QED
  BY <1>2, <1>3 DEF Collect

\* An error, before anything is sent or on the way.
LEMMA ErrorKeeps ==
    ASSUME Streamed, Return("error"), pc # "done",
           UNCHANGED <<input, contents, collected, n, stream, cut, committed>>,
           tries' = tries
    PROVE  Streamed'
<1>1. Counts /\ Contained /\ Reading /\ Writing /\ Collecting
  BY DEF Streamed
<1>2. Counts'
  BY <1>1, InputKept DEF Counts, Return
<1>3. Reading' /\ Writing'
  BY <1>1, InputKept DEF Reading, Writing, Return, Done, Parts
<1>4. Collecting'
  BY <1>1, InputKept DEF Collecting, Return, Done
<1> QED
  BY <1>1, <1>2, <1>3, <1>4, ContainedKept DEF Streamed

LEMMA OpenKeeps ==
    ASSUME Streamed, Open
    PROVE  Streamed'
<1>1. /\ pc = "open" /\ UNCHANGED <<input, contents, collected, n, stream, cut, committed>>
      /\ Counts /\ Contained /\ Reading /\ Writing /\ Collecting
  BY DEF Open, Streamed
<1>2. CASE pc' = (IF IsRead THEN "read" ELSE "send") /\ tries' = tries + 1 /\ UNCHANGED outcome
  <2>1. Counts'
    BY <1>1, <1>2, InputKept DEF Counts
  <2>2. Reading' /\ Writing'
    BY <1>1, <1>2, InputKept DEF Reading, Writing, Done, Parts, Counts
  <2>3. Collecting'
    BY <1>1, <1>2, InputKept DEF Collecting, Done, Counts
  <2> QED
    BY <1>1, <2>1, <2>2, <2>3, ContainedKept DEF Streamed
<1> QED
  BY <1>1, <1>2, ErrorKeeps DEF Open

LEMMA SendMessageKeeps ==
    ASSUME Streamed, SendMessage
    PROVE  Streamed'
<1>1. /\ pc = "send" /\ n < Total
      /\ UNCHANGED <<input, contents, collected, tries, cut, committed>>
      /\ Counts /\ Contained /\ Reading /\ Writing /\ Collecting
  BY DEF SendMessage, Streamed
<1>2. CASE Return("error") /\ UNCHANGED <<n, stream>>
  BY <1>1, <1>2, ErrorKeeps
<1>3. CASE /\ ~Short /\ stream.end = "none" /\ InFlight < MaxWire
           /\ n' = n + 1
           /\ stream' = [stream EXCEPT !.sent = @ + 1]
           /\ UNCHANGED <<pc, outcome>>
  <2>1. /\ stream' \in StreamType
        /\ stream'.sent = stream.sent + 1 /\ stream'.rcvd = stream.rcvd
        /\ stream'.closed = stream.closed /\ stream'.end = "none"
    BY <1>1, <1>3 DEF Counts, StreamType
  <2>2. ~IsRead
    BY <1>1 DEF Reading
  <2>3. stream.sent = n /\ ~stream.closed
    BY <1>1, <1>3, <2>2, GivenContents DEF Writing, Counts
  <2>4. stream.sent \in Nat /\ stream.rcvd \in Nat /\ MaxWire \in Nat
    BY <1>1, StreamsAssumption DEF Counts, StreamType
  <2>5. Counts'
    <3>1. n' \in Nat /\ n' <= Total
      BY <1>1, <1>3, GivenContents DEF Counts
    <3>2. /\ stream'.rcvd <= stream'.sent /\ stream'.sent <= Total
          /\ stream'.sent <= stream'.rcvd + MaxWire
      BY <1>1, <1>3, <2>1, <2>3, <2>4, <3>1 DEF Counts, InFlight
    <3> QED
      BY <1>1, <1>3, <2>1, <3>1, <3>2, InputKept DEF Counts
  <2>6. Reading' /\ Writing'
    BY <1>1, <1>3, <2>1, <2>2, <2>3, InputKept DEF Reading, Writing, Done, Counts, Parts
  <2>7. Collecting'
    <3> SUFFICES ASSUME op = "StreamVerifiedSet"
                 PROVE  \A j \in DOMAIN given : j < n + 1 => contents[j].has = contents[j].size
      BY <1>1, <1>3, InputKept DEF Collecting, Done, Counts
    <3> SUFFICES ASSUME NEW j \in DOMAIN given, j < n + 1
                 PROVE  contents[j].has = contents[j].size
      OBVIOUS
    <3>1. n \in Nat /\ j \in Nat /\ j >= 1
      BY <1>1, GivenContents DEF Counts
    <3>2. CASE j < n
      BY <1>1, <3>2 DEF Collecting
    <3>3. CASE j = n
      <4>1. Prelude = 1 /\ n - Prelude + 1 = n
        BY <3>1 DEF Prelude
      <4>2. ~(contents[n].has < contents[n].size)
        BY <1>3, <3>1, <3>3, <4>1 DEF Short
      <4>3. contents[j].has <= contents[j].size
        BY <1>1, GivenContents DEF Contained, Contents
      <4>4. contents[j] \in Contents
        BY <1>1, GivenContents DEF Contained
      <4> QED
        BY <3>3, <4>2, <4>3, <4>4 DEF Contents
    <3> QED
      BY <3>1, <3>2, <3>3
  <2> QED
    BY <1>1, <2>5, <2>6, <2>7, ContainedKept DEF Streamed
<1> QED
  BY <1>1, <1>2, <1>3 DEF SendMessage

LEMMA CloseSendKeeps ==
    ASSUME Streamed, CloseSend
    PROVE  Streamed'
<1>1. /\ pc = "send" /\ n = Total /\ stream' = [stream EXCEPT !.closed = TRUE] /\ pc' = "answer"
      /\ UNCHANGED <<input, contents, collected, tries, n, cut, committed, outcome>>
      /\ Counts /\ Contained /\ Reading /\ Writing /\ Collecting
  BY DEF CloseSend, Streamed
<1>2. /\ stream' \in StreamType /\ stream'.closed
      /\ stream'.sent = stream.sent /\ stream'.rcvd = stream.rcvd /\ stream'.end = stream.end
  BY <1>1 DEF Counts, StreamType
<1>3. Counts'
  BY <1>1, <1>2, InputKept DEF Counts
<1>4. Reading' /\ Writing'
  BY <1>1, <1>2, InputKept DEF Reading, Writing, Done, Parts
<1>5. Collecting'
  BY <1>1, InputKept DEF Collecting, Done
<1> QED
  BY <1>1, <1>3, <1>4, <1>5, ContainedKept DEF Streamed

LEMMA RecvAnswerKeeps ==
    ASSUME Streamed, RecvAnswer
    PROVE  Streamed'
<1>1. /\ pc = "answer" /\ stream.end # "none"
      /\ UNCHANGED <<input, contents, collected, tries, n, stream, cut, committed>>
      /\ Return(IF stream.end = "ok" THEN "ok" ELSE "error")
      /\ Counts /\ Contained /\ Reading /\ Writing /\ Collecting
  BY DEF RecvAnswer, Streamed
<1>2. CASE stream.end # "ok"
  BY <1>1, <1>2, ErrorKeeps
<1>3. CASE stream.end = "ok"
  <2>1. pc' = "done" /\ outcome' = "ok" /\ ~IsRead
    BY <1>1, <1>3 DEF Return, Reading
  <2>2. Counts'
    BY <1>1, <2>1, InputKept DEF Counts
  <2>3. Reading' /\ Writing'
    BY <1>1, <1>3, <2>1, InputKept DEF Reading, Writing, Done, Parts
  <2>4. Collecting'
    BY <1>1, <2>1, InputKept DEF Collecting, Done
  <2> QED
    BY <1>1, <2>2, <2>3, <2>4, ContainedKept DEF Streamed
<1> QED
  BY <1>2, <1>3

LEMMA ReadMessageKeeps ==
    ASSUME Streamed, ReadMessage
    PROVE  Streamed'
<1>1. /\ pc = "read" /\ InFlight > 0 /\ n' = n + 1
      /\ stream' = [stream EXCEPT !.rcvd = @ + 1]
      /\ UNCHANGED <<input, contents, collected, tries, cut, committed>>
      /\ \/ Return("ok") /\ op \in Gets
         \/ UNCHANGED <<pc, outcome>>
      /\ Counts /\ Contained /\ Reading /\ Writing /\ Collecting
  BY DEF ReadMessage, Streamed
<1>2. /\ stream' \in StreamType /\ stream'.closed = stream.closed
      /\ stream'.sent = stream.sent /\ stream'.rcvd = stream.rcvd + 1 /\ stream'.end = stream.end
      /\ stream.sent \in Nat /\ stream.rcvd \in Nat /\ MaxWire \in Nat
  BY <1>1, StreamsAssumption DEF Counts, StreamType
<1>3. IsRead /\ n = stream.rcvd
  BY <1>1 DEF Reading, Writing
<1>4. Counts'
  <2>1. /\ n' \in Nat /\ n' <= Total
        /\ stream'.rcvd <= stream'.sent /\ stream'.sent <= Total
        /\ stream'.sent <= stream'.rcvd + MaxWire
    BY <1>1, <1>2, <1>3, GivenContents DEF Counts, InFlight
  <2> QED
    BY <1>1, <1>2, <2>1, InputKept DEF Counts, Return
<1>5. Reading' /\ Writing'
  BY <1>1, <1>2, <1>3, InputKept DEF Reading, Writing, Done, Return, Gets, Counts
<1>6. Collecting'
  BY <1>1, <1>3, StreamVerifiedSetSends, InputKept DEF Collecting, IsRead
<1> QED
  BY <1>1, <1>4, <1>5, <1>6, ContainedKept DEF Streamed

LEMMA ReadEndKeeps ==
    ASSUME Streamed, ReadEnd
    PROVE  Streamed'
<1>1. /\ pc = "read" /\ InFlight = 0 /\ stream.end # "none"
      /\ UNCHANGED <<input, contents, collected, tries, n, stream, cut, committed>>
      /\ Return(IF stream.end = "ok" /\ op \notin Gets /\ ~AtValue THEN "ok" ELSE "error")
      /\ Counts /\ Contained /\ Reading /\ Writing /\ Collecting
  BY DEF ReadEnd, Streamed
<1>2. CASE ~(stream.end = "ok" /\ op \notin Gets /\ ~AtValue)
  BY <1>1, <1>2, ErrorKeeps
<1>3. CASE stream.end = "ok" /\ op \notin Gets /\ ~AtValue
  <2>1. pc' = "done" /\ outcome' = "ok" /\ IsRead /\ (AtValue' <=> AtValue)
    BY <1>1, <1>3, InputKept DEF Return, Writing, AtValue, Parts
  <2>2. stream.sent = stream.rcvd
    BY <1>1 DEF InFlight, Counts, StreamType
  <2>3. Counts'
    BY <1>1, <2>1, InputKept DEF Counts
  <2>4. Reading' /\ Writing'
    BY <1>1, <1>3, <2>1, <2>2, InputKept DEF Reading, Writing, Done
  <2>5. Collecting'
    BY <1>1, <2>1, StreamVerifiedSetSends, InputKept DEF Collecting, IsRead
  <2> QED
    BY <1>1, <2>3, <2>4, <2>5, ContainedKept DEF Streamed
<1> QED
  BY <1>2, <1>3

LEMMA RetryKeeps ==
    ASSUME Streamed, Retry
    PROVE  Streamed'
<1>1. /\ pc = "read" /\ stream.end = "error" /\ stream.rcvd = 0
      /\ tries' = tries + 1 /\ stream' = NoStream
      /\ UNCHANGED <<input, contents, collected, pc, n, cut, committed, outcome>>
      /\ Counts /\ Contained /\ Reading /\ Writing /\ Collecting
  BY DEF Retry, Streamed
<1>2. /\ stream' \in StreamType /\ stream'.closed = FALSE
      /\ stream'.sent = 0 /\ stream'.rcvd = 0 /\ stream'.end = "none" /\ MaxWire \in Nat
  BY <1>1, StreamsAssumption DEF NoStream, StreamType
<1>3. IsRead /\ n = 0 /\ ~cut /\ committed = 0
  BY <1>1 DEF Reading, Writing, Counts
<1>4. Counts'
  BY <1>1, <1>2, <1>3, GivenContents, InputKept DEF Counts
<1>5. Reading' /\ Writing'
  BY <1>1, <1>2, <1>3, InputKept DEF Reading, Writing, Done, Counts
<1>6. Collecting'
  BY <1>1, <1>3, StreamVerifiedSetSends, InputKept DEF Collecting, IsRead
<1> QED
  BY <1>1, <1>4, <1>5, <1>6, ContainedKept DEF Streamed

-----------------------------------------------------------------------------
(* The server's steps.                                                     *)

\* They touch nothing of the client's.
LEMMA ServeKeeps ==
    ASSUME Streamed, NEW s, Serve(s)
    PROVE  /\ Contained' /\ Collecting' /\ (AtValue' <=> AtValue) /\ stream' = s
           /\ (Done("ok")' <=> Done("ok"))
<1>1. Contained /\ Collecting
  BY DEF Streamed
<1>2. UNCHANGED <<input, contents, collected, pc, n, outcome>> /\ stream' = s
  BY DEF Serve
<1>3. Collecting'
  BY <1>1, <1>2, InputKept DEF Collecting, Done
<1> QED
  BY <1>1, <1>2, <1>3, ContainedKept, InputKept DEF AtValue, Parts, Done

LEMMA ServerSendKeeps ==
    ASSUME Streamed, ServerSend
    PROVE  Streamed'
<1>1. /\ Serving /\ IsRead /\ stream.sent < Total /\ InFlight < MaxWire
      /\ Serve([stream EXCEPT !.sent = @ + 1])
      /\ UNCHANGED <<cut, committed>>
      /\ Counts /\ Contained /\ Reading /\ Writing /\ Collecting
  BY DEF ServerSend, Streamed
<1>2. /\ stream' \in StreamType /\ stream'.closed = stream.closed
      /\ stream'.sent = stream.sent + 1 /\ stream'.rcvd = stream.rcvd /\ stream'.end = "none"
      /\ stream.sent \in Nat /\ stream.rcvd \in Nat /\ MaxWire \in Nat
  BY <1>1, StreamsAssumption DEF Counts, StreamType, Serve, Serving
<1>3. UNCHANGED <<input, tries, pc, n, outcome>>
  BY <1>1 DEF Serve
<1>4. Counts'
  <2>1. /\ stream'.rcvd <= stream'.sent /\ stream'.sent <= Total
        /\ stream'.sent <= stream'.rcvd + MaxWire
    BY <1>1, <1>2, GivenContents DEF Counts, InFlight
  <2> QED
    BY <1>1, <1>2, <1>3, <2>1, InputKept DEF Counts, Serving
<1>5. Reading' /\ Writing'
  BY <1>1, <1>2, <1>3, InputKept DEF Reading, Writing, Done, Serving
<1> QED
  BY <1>1, <1>4, <1>5, ServeKeeps DEF Streamed

LEMMA ServerEndKeeps ==
    ASSUME Streamed, ServerEnd
    PROVE  Streamed'
<1>1. /\ Serving /\ IsRead /\ cut' = (stream.sent < Total) /\ UNCHANGED committed
      /\ Serve([stream EXCEPT !.end = "ok"])
      /\ Counts /\ Contained /\ Reading /\ Writing /\ Collecting
  BY DEF ServerEnd, Streamed
<1>2. /\ stream' \in StreamType /\ stream'.closed = stream.closed
      /\ stream'.sent = stream.sent /\ stream'.rcvd = stream.rcvd /\ stream'.end = "ok"
      /\ stream.sent \in Nat /\ stream.end = "none"
  BY <1>1 DEF Counts, StreamType, Serve, Serving
<1>3. UNCHANGED <<input, tries, pc, n, outcome>>
  BY <1>1 DEF Serve
<1>4. Counts'
  BY <1>1, <1>2, <1>3, InputKept DEF Counts
<1>5. cut' \/ stream'.sent = Total
  <2>1. stream.sent < Total \/ stream.sent = Total
    BY <1>1, <1>2, GivenContents DEF Counts
  <2> QED
    BY <1>1, <1>2, <2>1
<1>6. Reading' /\ Writing'
  BY <1>1, <1>2, <1>3, <1>5, InputKept DEF Reading, Writing, Done
<1> QED
  BY <1>1, <1>4, <1>6, ServeKeeps DEF Streamed

LEMMA ServerReceiveKeeps ==
    ASSUME Streamed, ServerReceive
    PROVE  Streamed'
<1>1. /\ Serving /\ ~IsRead /\ InFlight > 0 /\ UNCHANGED <<cut, committed>>
      /\ Serve([stream EXCEPT !.rcvd = @ + 1])
      /\ Counts /\ Contained /\ Reading /\ Writing /\ Collecting
  BY DEF ServerReceive, Streamed
<1>2. /\ stream' \in StreamType /\ stream'.closed = stream.closed
      /\ stream'.sent = stream.sent /\ stream'.rcvd = stream.rcvd + 1 /\ stream'.end = "none"
      /\ stream.sent \in Nat /\ stream.rcvd \in Nat /\ MaxWire \in Nat
  BY <1>1, StreamsAssumption DEF Counts, StreamType, Serve, Serving
<1>3. UNCHANGED <<input, tries, pc, n, outcome>>
  BY <1>1 DEF Serve
<1>4. Counts'
  <2>1. /\ stream'.rcvd <= stream'.sent /\ stream'.sent <= Total
        /\ stream'.sent <= stream'.rcvd + MaxWire
    BY <1>1, <1>2, GivenContents DEF Counts, InFlight
  <2> QED
    BY <1>1, <1>2, <1>3, <2>1, InputKept DEF Counts, Serving
<1>5. Reading' /\ Writing'
  BY <1>1, <1>2, <1>3, InputKept DEF Reading, Writing, Done, Serving, Parts
<1> QED
  BY <1>1, <1>4, <1>5, ServeKeeps DEF Streamed

\* What the server commits is what the caller passed: the client closes its side
\* only after its last message.
LEMMA ServerCommitKeeps ==
    ASSUME Streamed, ServerCommit
    PROVE  Streamed'
<1>1. /\ Serving /\ ~IsRead /\ stream.closed /\ InFlight = 0
      /\ stream.rcvd > Prelude /\ (stream.rcvd - Prelude) % Parts(op) = 0
      /\ committed' = (stream.rcvd - Prelude) \div Parts(op)
      /\ UNCHANGED cut
      /\ Counts /\ Contained /\ Reading /\ Writing /\ Collecting
  BY DEF ServerCommit, Streamed
<1>2. PICK end \in {"ok", "error"} : Serve([stream EXCEPT !.end = end])
  BY DEF ServerCommit
<1>3. /\ stream' \in StreamType /\ stream'.closed = stream.closed
      /\ stream'.sent = stream.sent /\ stream'.rcvd = stream.rcvd /\ stream'.end = end
      /\ stream.sent \in Nat /\ stream.rcvd \in Nat /\ stream.end = "none"
  BY <1>1, <1>2 DEF Counts, StreamType, Serve, Serving
<1>4. UNCHANGED <<input, tries, pc, n, outcome>>
  BY <1>2 DEF Serve
<1>5. stream.rcvd - Prelude = Len(given) /\ Len(given) \in Nat
  <2>1. stream.rcvd = stream.sent
    BY <1>1, <1>3 DEF InFlight
  <2>2. stream.sent = n /\ n = Total
    BY <1>1, <1>3 DEF Writing
  <2> QED
    BY <1>1, <2>1, <2>2, GivenContents
<1>6. Len(given) # 0
  BY <1>1, <1>3, <1>5, GivenContents
<1>7. committed' \in Nat /\ committed' <= Len(given) /\ committed' * Parts(op) = Len(given)
      /\ committed' # 0
  <2>1. committed' = Len(given) \div Parts(op) /\ Len(given) % Parts(op) = 0
    BY <1>1, <1>5
  <2>2. ASSUME NEW len \in Nat \ {0}, NEW parts \in {2, 3, 4, 5}, len % parts = 0
        PROVE  /\ len \div parts \in Nat /\ len \div parts <= len
               /\ (len \div parts) * parts = len /\ len \div parts # 0
    <3>1. CASE parts = 2
      BY <2>2, <3>1
    <3>2. CASE parts = 3
      BY <2>2, <3>2
    <3>3. CASE parts = 4
      BY <2>2, <3>3
    <3>4. CASE parts = 5
      BY <2>2, <3>4
    <3> QED
      BY <3>1, <3>2, <3>3, <3>4
  <2> QED
    BY <1>5, <1>6, <2>1, <2>2, PartsFew
<1>8. Counts'
  BY <1>1, <1>3, <1>4, <1>7, InputKept DEF Counts
<1>9. Parts(op)' = Parts(op)
  BY <1>4, InputKept DEF Parts
<1>10. Reading' /\ Writing'
  BY <1>1, <1>3, <1>4, <1>7, <1>9, InputKept DEF Reading, Writing, Done
<1> QED
  BY <1>2, <1>8, <1>10, ServeKeeps DEF Streamed

LEMMA StreamFailsKeeps ==
    ASSUME Streamed, StreamFails
    PROVE  Streamed'
<1>1. /\ Serving /\ UNCHANGED <<cut, committed>>
      /\ Counts /\ Contained /\ Reading /\ Writing /\ Collecting
  BY DEF StreamFails, Streamed
<1>2. PICK lost \in {0, InFlight} : Serve([stream EXCEPT !.end = "error", !.sent = @ - lost])
  BY DEF StreamFails
<1>3. /\ stream.sent \in Nat /\ stream.rcvd \in Nat /\ stream.rcvd <= stream.sent
      /\ lost = 0 \/ lost = stream.sent - stream.rcvd
      /\ stream.end = "none" /\ MaxWire \in Nat
  BY <1>1, <1>2, StreamsAssumption DEF Counts, StreamType, InFlight, Serving
<1>4. /\ stream'.closed = stream.closed
      /\ stream'.sent = stream.sent - lost /\ stream'.rcvd = stream.rcvd /\ stream'.end = "error"
      /\ DOMAIN stream' = DOMAIN stream
  BY <1>1, <1>2 DEF Counts, StreamType, Serve
<1>5. stream'.sent \in Nat /\ stream'.rcvd <= stream'.sent /\ stream'.sent <= stream.sent
  BY <1>3, <1>4
<1>6. stream' \in StreamType
  <2>1. stream' = [stream EXCEPT !.end = "error", !.sent = stream.sent - lost]
    BY <1>1, <1>2 DEF Counts, StreamType, Serve
  <2>2. stream.sent - lost \in Nat
    BY <1>4, <1>5
  <2> QED
    BY <1>1, <2>1, <2>2 DEF Counts, StreamType
<1>7. UNCHANGED <<input, tries, pc, n, outcome>>
  BY <1>2 DEF Serve
<1>8. Counts'
  <2>1. stream'.sent <= Total /\ stream'.sent <= stream'.rcvd + MaxWire
    BY <1>1, <1>3, <1>4, <1>5, GivenContents DEF Counts
  <2> QED
    BY <1>1, <1>4, <1>5, <1>6, <1>7, <2>1, InputKept DEF Counts, Serving
<1>9. Reading' /\ Writing'
  BY <1>1, <1>3, <1>4, <1>7, InputKept DEF Reading, Writing, Done, Parts, Counts
<1> QED
  BY <1>2, <1>8, <1>9, ServeKeeps DEF Streamed

-----------------------------------------------------------------------------
(* The properties.                                                         *)

LEMMA NextStreamed ==
    ASSUME Streamed, [Next]_vars
    PROVE  Streamed'
<1>1. CASE Client
  BY <1>1, CollectKeeps, OpenKeeps, SendMessageKeeps, CloseSendKeeps, RecvAnswerKeeps,
     ReadMessageKeeps, ReadEndKeeps, RetryKeeps DEF Client
<1>2. CASE Server
  BY <1>2, ServerSendKeeps, ServerEndKeeps, ServerReceiveKeeps, ServerCommitKeeps,
     StreamFailsKeeps DEF Server
<1>3. CASE UNCHANGED vars
  <2>1. UNCHANGED <<input, contents, collected, tries, pc, n, stream, cut, committed, outcome>>
    BY <1>3 DEF vars
  <2>2. Counts' /\ Contained'
    BY <2>1, InputKept, ContainedKept DEF Streamed, Counts
  <2>3. Reading' /\ Writing'
    BY <2>1, InputKept DEF Streamed, Reading, Writing, Done, Parts, AtValue
  <2>4. Collecting'
    BY <2>1, InputKept DEF Streamed, Collecting, Done
  <2> QED
    BY <2>2, <2>3, <2>4 DEF Streamed
<1> QED
  BY <1>1, <1>2, <1>3 DEF Next

LEMMA AlwaysStreamed == Spec => []Streamed
BY InitStreamed, NextStreamed, PTL DEF Spec

\* The two ends of a stream count the same messages: none is read that was not
\* sent, none sent that the caller or the server does not have, no more is under
\* way than flow control lets through, and StreamVerifiedSet reads no more of a
\* content than there is (lc_streams_api.go, and the stream package it calls).
THEOREM TypeCorrect == Spec => []TypeOK
<1>1. ASSUME Streamed
      PROVE  TypeOK
  <2>1. Counts /\ Contained
    BY <1>1 DEF Streamed
  <2>2. n \in 0..Total /\ committed \in 0..Len(given) /\ InFlight <= MaxWire
        /\ stream.rcvd \in 0..stream.sent /\ stream.sent \in 0..Total
    BY <2>1, GivenContents, StreamsAssumption DEF Counts, StreamType, InFlight
  <2>3. \A j \in DOMAIN given : collected[j] \in 0..given[j].has
    BY <2>1 DEF Contained
  <2> QED
    BY <2>1, <2>2, <2>3 DEF Counts, Contained, TypeOK
<1> QED
  BY <1>1, AlwaysStreamed, PTL

\* The list that StreamScan, StreamHistory or StreamZScan returns without error
\* is the whole list, for any number of entries and of attempts and whatever
\* failed on the way; a server that ends early cannot make it drop an entry's
\* value in silence.
THEOREM ScansWhole == Spec => []ScanWhole
<1>1. ASSUME Streamed, Done("ok"), op \in Lists
      PROVE  IF cut THEN ~AtValue ELSE n = Total
  <2>1. Counts /\ Contained /\ Reading /\ Writing
    BY <1>1 DEF Streamed
  <2>2. op \notin Gets
    BY <1>1 DEF Lists, Gets
  <2>3. IsRead
    BY <1>1, ListsAreReads DEF IsRead
  <2>4. n = stream.rcvd /\ stream.end = "ok" /\ stream.sent = stream.rcvd /\ ~AtValue
        /\ (cut \/ stream.sent = Total)
    BY <1>1, <2>1, <2>2, <2>3 DEF Reading
  <2> QED
    BY <2>4
<1>2. Streamed => ScanWhole
  BY <1>1 DEF ScanWhole
<1> QED
  BY <1>2, AlwaysStreamed, PTL

\* StreamSet, StreamVerifiedSet and StreamExecAll write all they were given or
\* nothing, however many entries that are, wherever the stream broke and
\* whatever the caller is told.
THEOREM WritesAtomic == Spec => []AllOrNothing
<1>1. Streamed => AllOrNothing
  BY DEF Streamed, Writing, AllOrNothing
<1> QED
  BY <1>1, AlwaysStreamed, PTL

\* StreamVerifiedSet checks the server's proof against entries it has sent in
\* full, whatever its readers returned to it on the way.
THEOREM VerifiesWhole == Spec => []VerifiedIsWhole
<1>1. ASSUME Streamed, op = "StreamVerifiedSet", Done("ok"), NEW j \in DOMAIN given
      PROVE  collected[j] = given[j].size
  <2>1. Counts /\ Contained /\ Writing /\ Collecting
    BY <1>1 DEF Streamed
  <2>2. ~IsRead
    BY <1>1, StreamVerifiedSetSends DEF IsRead
  <2>3. n = Total
    BY <1>1, <2>1, <2>2 DEF Writing
  <2>4. j < n
    BY <1>1, <2>1, <2>3, GivenContents DEF Prelude
  <2>5. collected[j] # 0 /\ contents[j].has = contents[j].size
    BY <1>1, <2>1, <2>4 DEF Collecting
  <2> QED
    BY <1>1, <2>1, <2>5 DEF Contained
<1>2. Streamed => VerifiedIsWhole
  BY <1>1 DEF VerifiedIsWhole
<1> QED
  BY <1>2, AlwaysStreamed, PTL

=============================================================================
