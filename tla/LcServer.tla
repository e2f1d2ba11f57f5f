------------------------------ MODULE LcServer ------------------------------
(***************************************************************************)
(* The ledger compliance server as the client uses it (external): what it  *)
(* answers, from the history of one ledger, when it works as it should.    *)
(***************************************************************************)
EXTENDS VerifyState

CONSTANT FullKeys  \* FullKeys[key]: the full keys that contain an artifact hash

ASSUME FullKeysAssumption == FullKeys \in [Keys -> SUBSET Keys]

-----------------------------------------------------------------------------
(* What a ledger holds.                                                    *)

\* The transactions that have an entry for the key, and that entry.
TxsOf(h, key) == {n \in DOMAIN h : \E e \in h[n].entries : e.key = key}

EntryAt(h, key, n) == CHOOSE e \in h[n].entries : e.key = key

IsReference(e) == e \in RefEntry

\* The transaction a request for (key, atTx) is answered from; 0 when none.
Located(h, key, atTx) ==
    LET txs == TxsOf(h, key) \cap (IF atTx = 0 THEN DOMAIN h ELSE {atTx})
    IN  IF txs = {} THEN 0 ELSE Max(txs)

\* A value can be served for (key, atTx): one that is not marked deleted.
HasValue(h, key, atTx) ==
    LET n == Located(h, key, atTx)
    IN  n # 0 /\ EntryAt(h, key, n) \in KVEntry /\ ~EntryAt(h, key, n).deleted

\* So it can directly or, one step further, through a reference.
Found(h, key, atTx) ==
    LET n == Located(h, key, atTx)
    IN  \/ HasValue(h, key, atTx)
        \/ /\ n # 0
           /\ IsReference(EntryAt(h, key, n))
           /\ HasValue(h, EntryAt(h, key, n).target, EntryAt(h, key, n).atTx)

-----------------------------------------------------------------------------
(* Answers.                                                                *)

\* The signature of the state that ends a history, in the name of `db`; a
\* server without a signing key (db = "none") signs nothing.
Signed(db, h) ==
    IF db = "none" THEN NoSignature
    ELSE [db |-> db, txId |-> Len(h), txHash |-> h]

\* The proof that joins transaction n to the one the client asks to start
\* from, the earlier of the two first; from n itself when it asks for none.
DualProofFor(h, n, since) ==
    LET from == IF since = 0 THEN n ELSE since
    IN  IF from <= n THEN [source |-> Upto(h, from), target |-> Upto(h, n)]
                     ELSE [source |-> Upto(h, n), target |-> Upto(h, from)]

\* The answer to a verifiable read of (key, atTx).
VerifiableGet(h, key, atTx, since, db) ==
    LET n == Located(h, key, atTx)
        e == EntryAt(h, key, n)
        dual == DualProofFor(h, n, since)
        valueTx == IF IsReference(e) THEN Located(h, e.target, e.atTx) ELSE n
    IN  [entry     |-> IF IsReference(e) THEN EntryAt(h, e.target, valueTx) ELSE e,
         tx        |-> valueTx,
         ref       |-> IF IsReference(e)
                       THEN [key |-> e.key, deleted |-> e.deleted, tx |-> n, atTx |-> e.atTx]
                       ELSE NoRef,
         inclusion |-> InclusionProof(h[n].entries, e),
         dual      |-> dual,
         signature |-> Signed(db, dual.target)]

\* The answer to a verifiable write that is the last transaction of h.
VerifiableSet(h, kvs, since, db) ==
    LET dual == DualProofFor(h, Len(h), since)
    IN  [header    |-> h,
         body      |-> [i \in DOMAIN kvs |->
                           EncodeEntrySpec(kvs[i].key, FALSE, kvs[i].value)],
         dual      |-> dual,
         signature |-> Signed(db, dual.target)]

\* A history longer by a transaction with these entries.
Committed(h, epoch, entries) == Append(h, [epoch |-> epoch, entries |-> entries])

CurrentState(h, db) ==
    [db |-> IF db = "none" THEN "ApiKeyHash" ELSE db, txId |-> Len(h), txHash |-> h,
     signature |-> Signed(db, h)]

=============================================================================
