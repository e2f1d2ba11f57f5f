----------------------------- MODULE MCLcClient -----------------------------
(***************************************************************************)
(* Instances of LcClient for TLC.                                          *)
(***************************************************************************)
EXTENDS LcClient

CONSTANTS c1, c2, a1, a2, k1, k2, v1, v2

OneKey == [c \in Clients |-> a1]

NoPubKey == [c \in Clients |-> FALSE]
AllPubKey == [c \in Clients |-> TRUE]

\* The full key of every artifact hash is k1.
FullKeyK1 == [k \in Keys |-> {k1}]

-----------------------------------------------------------------------------
(* Calls.                                                                  *)

Read(op, key, atTx) ==
    [op |-> op, reqs |-> <<[key |-> key, atTx |-> atTx]>>, kvs |-> <<>>, since |-> 0]

StreamRead(key, since) == [Read("StreamVerifiedGet", key, 0) EXCEPT !.since = since]

MultiRead(reqs) ==
    [op |-> "VerifiedGetExtAtMulti", reqs |-> reqs, kvs |-> <<>>, since |-> 0]

WriteOne(key, value) ==
    [op |-> "VerifiedSet", reqs |-> <<>>, kvs |-> <<[key |-> key, value |-> value]>>, since |-> 0]

WriteTwo ==
    [op |-> "StreamVerifiedSet", reqs |-> <<>>,
     kvs |-> <<[key |-> k1, value |-> v1], [key |-> k2, value |-> v2]>>, since |-> 0]

\* Reads and writes of a single entry, streamed or not.
SingleCalls ==
    {Read("VerifiedGet", k1, 0), Read("VerifiedGetExt", k1, 1), WriteOne(k1, v1)}

\* Reads by artifact hash and through a reference, writes of two entries.
ArtifactCalls ==
    {Read("VCNGetArtifacts", k2, 0), Read("VerifiedGet", k2, 0), WriteTwo}

\* Streamed reads that carry a proof transaction, right or wrong.
StreamCalls == {StreamRead(k1, 1), StreamRead(k1, 2), WriteOne(k1, v1)}

\* A streamed read as examples/streams/main.go makes it.
ExampleCalls == {StreamRead(k1, 0), WriteOne(k1, v1)}

MultiCalls ==
    {MultiRead(<<[key |-> k1, atTx |-> 0], [key |-> k1, atTx |-> 1]>>),
     Read("VerifiedGet", k1, 0)}

SaveFirstCalls == {Read("VerifiedGet", k1, 0), Read("VCNGetArtifacts", k2, 0),
                   MultiRead(<<[key |-> k1, atTx |-> 0], [key |-> k1, atTx |-> 1]>>)}

\* What other writers commit.
SetEntry == EncodeEntrySpec(k1, FALSE, v1)
ReferenceEntry == EncodeReference(k2, FALSE, k1, 0)

PlainWrites == {{SetEntry}}
LinkedWrites == {{SetEntry, ReferenceEntry}, {SetEntry}}

-----------------------------------------------------------------------------
(* Wrong answers: another value, the proof of another transaction or from   *)
(* another start, a list cut short.                                         *)

Other(v) == IF v = v1 THEN v2 ELSE v1

GarbledWrite(a) ==
    {[a EXCEPT !.header[Len(a.header)].entries = {}],
     [a EXCEPT !.dual.target = a.dual.source]}

GarbledItem(item) ==
    {[item EXCEPT !.entry.value = Other(@)],
     [item EXCEPT !.dual.target = item.dual.source],
     [item EXCEPT !.dual.source = item.dual.target]}

MCGarbled(cl, a) ==
    IF cl.op \in SetOp THEN GarbledWrite(a)
    ELSE UNION {{[a EXCEPT ![i] = g] : g \in GarbledItem(a[i])} :
                  i \in {j \in DOMAIN a : a[j] # ItemError}}
         \cup (IF a = <<>> THEN {} ELSE {Front(a)})

=============================================================================
