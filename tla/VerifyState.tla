---------------------------- MODULE VerifyState ----------------------------
(***************************************************************************)
(* What the client accepts.  The verification of a read                    *)
(* (src/grpcclient/lc_api.go, verifyGet; repeated in StreamVerifiedGet)    *)
(* and of a write (VerifiedSet, StreamVerifiedSet), each as a predicate    *)
(* over the trusted state and the server's answer, and the state the       *)
(* client goes on to trust.                                                *)
(***************************************************************************)
EXTENDS ImmuLedger

\* The history a state stands for.  A state of transaction 0 stands for
\* none, whatever its hash: the dual proof is skipped for it.
Digest(st) == IF st.txId = 0 THEN <<>> ELSE st.txHash

-----------------------------------------------------------------------------
(* Answers to reads.  `entry` is Entry.{Key,Metadata,Value}, `tx` is       *)
(* Entry.Tx; `ref` is Entry.ReferencedBy, a record or NoRef.               *)

NoRef == [key |-> "nil"]

Reference == [key : Keys, deleted : BOOLEAN, tx : TxId, atTx : Nat]

VerifiableEntry ==
    [entry : KVEntry, tx : TxId, ref : {NoRef} \cup Reference,
     inclusion : SUBSET EntrySpec, dual : DualProof, signature : Signature]

\* Mutant of ReadTx: references forgotten.
ReadTxOfValue(vEntry) == vEntry.tx

\* The transaction the read is proven at: the reference's when there is one.
ReadTx(vEntry) ==
    IF vEntry.ref = NoRef THEN vEntry.tx ELSE vEntry.ref.tx

\* The entry whose digest is looked for in that transaction.  A plain entry
\* takes the key the caller asked for, a reference the key in the answer.
ReadSpec(vEntry, key) ==
    IF vEntry.ref = NoRef
    THEN EncodeEntrySpec(key, vEntry.entry.deleted, vEntry.entry.value)
    ELSE EncodeReference(vEntry.ref.key, vEntry.ref.deleted,
                         vEntry.entry.key, vEntry.ref.atTx)

\* The read is at the trusted transaction or later.
Forward(state, vEntry) == state.txId <= ReadTx(vEntry)

\* The header of the transaction the read is proven at.
ReadHeader(state, vEntry) ==
    IF Forward(state, vEntry) THEN vEntry.dual.target ELSE vEntry.dual.source

\* Mutants of VerifyGet: without the inclusion proof, without the dual proof,
\* with the dual proof of reads that move forward alone.
VerifyGetUnincluded(state, vEntry, key) ==
    LET proof == vEntry.dual
    IN  state.txId > 0 =>
          IF Forward(state, vEntry)
          THEN VerifyDualProof(proof, state.txId, ReadTx(vEntry), state.txHash, proof.target)
          ELSE VerifyDualProof(proof, ReadTx(vEntry), state.txId, proof.source, state.txHash)

VerifyGetUnlinked(state, vEntry, key) ==
    VerifyInclusion(vEntry.inclusion, ReadSpec(vEntry, key), Eh(ReadHeader(state, vEntry)))

VerifyGetForwardOnly(state, vEntry, key) ==
    /\ VerifyGetUnlinked(state, vEntry, key)
    /\ state.txId > 0 /\ Forward(state, vEntry) =>
         VerifyDualProof(vEntry.dual, state.txId, ReadTx(vEntry), state.txHash,
                         vEntry.dual.target)

\* verifyGet returns no error.
VerifyGet(state, vEntry, key) ==
    LET vTx == ReadTx(vEntry)
        proof == vEntry.dual
    IN  /\ VerifyInclusion(vEntry.inclusion, ReadSpec(vEntry, key),
                           Eh(ReadHeader(state, vEntry)))
        /\ state.txId > 0 =>
             IF Forward(state, vEntry)
             THEN VerifyDualProof(proof, state.txId, vTx, state.txHash, proof.target)
             ELSE VerifyDualProof(proof, vTx, state.txId, proof.source, state.txHash)

\* Mutant of GetNewState: the transaction read, even an earlier one.
GetNewStateOfRead(state, vEntry, db) ==
    [db |-> db, txId |-> ReadTx(vEntry), txHash |-> ReadHeader(state, vEntry),
     signature |-> vEntry.signature]

\* The state verifyGet returns.
GetNewState(state, vEntry, db) ==
    [db        |-> db,
     txId      |-> IF Forward(state, vEntry) THEN ReadTx(vEntry) ELSE state.txId,
     txHash    |-> IF Forward(state, vEntry) THEN vEntry.dual.target ELSE state.txHash,
     signature |-> vEntry.signature]

-----------------------------------------------------------------------------
(* Answers to writes.  `header` is Tx.Header, `body` Tx.Entries; the       *)
(* inclusion proof is computed by the client from the body.                *)

KeyValue == [key : Keys, value : Values]

VerifiableTx ==
    [header : Header, body : Seq(KVEntry), dual : DualProof, signature : Signature]

\* tx.Proof(key): an error when no entry of the body has the key.
HasProof(body, key) == \E i \in DOMAIN body : body[i].key = key

BodyProof(body, key) ==
    {body[i] : i \in {j \in DOMAIN body : body[j].key # key}}

\* Mutant of VerifySet: without the dual proof.
VerifySetUnlinked(state, vTx, kvs, single) ==
    /\ Cardinality(Eh(vTx.header)) = Len(kvs)
    /\ \A i \in DOMAIN kvs :
         VerifyInclusion(BodyProof(vTx.body, kvs[i].key),
                         EncodeEntrySpec(kvs[i].key, vTx.body[i].deleted, kvs[i].value),
                         Eh(vTx.header))
    /\ Eh(vTx.header) = Eh(vTx.dual.target)

\* No step between the answer to a write and its new state returns an error.
\* VerifiedSet alone (single = TRUE) refuses an entry marked deleted.
VerifySet(state, vTx, kvs, single) ==
    LET header == vTx.header
        body == vTx.body
    IN  /\ Cardinality(Eh(header)) = Len(kvs)
        /\ Len(body) = Len(kvs)
        /\ single => ~body[1].deleted
        /\ \A i \in DOMAIN kvs :
             /\ HasProof(body, kvs[i].key)
             /\ VerifyInclusion(BodyProof(body, kvs[i].key),
                                EncodeEntrySpec(kvs[i].key, body[i].deleted, kvs[i].value),
                                Eh(header))
        /\ Eh(header) = Eh(vTx.dual.target)
        /\ state.txId > 0 =>
             VerifyDualProof(vTx.dual, state.txId, Len(header), state.txHash, header)

\* The state a verified write goes on to trust.
SetNewState(vTx, db) ==
    [db |-> db, txId |-> Len(vTx.header), txHash |-> vTx.header,
     signature |-> vTx.signature]

=============================================================================
