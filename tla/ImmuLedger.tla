----------------------------- MODULE ImmuLedger -----------------------------
(***************************************************************************)
(* The immudb notions the client verifies with: transactions, headers,     *)
(* accumulative hashes, inclusion and dual proofs, signed states.  Their   *)
(* code is the library github.com/codenotary/immudb (external); they are   *)
(* modelled from how src/grpcclient uses them.                             *)
(*                                                                         *)
(* Hashing is injective: a digest IS what it digests.  The accumulative    *)
(* hash (Alh) of transaction n is the sequence of the first n              *)
(* transactions, the entries hash (Eh) of a transaction is its set of      *)
(* entries, and a transaction header is the history that it ends.          *)
(***************************************************************************)
EXTENDS Naturals, Sequences, SequencesExt

CONSTANTS Keys,    \* the keys entries are stored under
          Values   \* the values entries hold

-----------------------------------------------------------------------------
(* Entries.  The digest of an entry covers its key, metadata and value; a  *)
(* reference binds one key to another and carries no value.                *)

EncodeEntrySpec(key, deleted, value) ==
    [key |-> key, deleted |-> deleted, value |-> value]

EncodeReference(key, deleted, target, atTx) ==
    [key |-> key, deleted |-> deleted, target |-> target, atTx |-> atTx]

KVEntry == [key : Keys, deleted : BOOLEAN, value : Values]

RefEntry == [key : Keys, deleted : BOOLEAN, target : Keys, atTx : Nat]

EntrySpec == KVEntry \cup RefEntry

-----------------------------------------------------------------------------
(* Histories.  `epoch` stands for what tells apart two transactions with   *)
(* equal content at equal positions of diverging histories (the timestamp  *)
(* in the header).                                                         *)

\* Transactions are numbered from 1.
TxId == Nat \ {0}

Tx == [epoch : Nat, entries : SUBSET EntrySpec]

History == Seq(Tx)

\* The header of a transaction, and at once its accumulative hash.
Header == History \ {<<>>}

\* The header of transaction n of a history; Upto(h, 0) is the empty digest.
Upto(h, n) == SubSeq(h, 1, n)

Eh(header) == Last(header).entries

-----------------------------------------------------------------------------
(* Proofs.  An inclusion proof is the rest of the transaction's entries: a *)
(* Merkle path leads from a leaf to the root only with all the other       *)
(* leaves.                                                                 *)

InclusionProof(entries, e) == entries \ {e}

VerifyInclusion(proof, e, eh) ==
    /\ e \notin proof
    /\ proof \cup {e} = eh

DualProof == [source : Header, target : Header]

\* store.VerifyDualProof: the two ends are the ones asked about, in order,
\* and the source's history is a prefix of the target's.
VerifyDualProof(proof, sourceID, targetID, sourceAlh, targetAlh) ==
    /\ Len(proof.source) = sourceID
    /\ Len(proof.target) = targetID
    /\ proof.source = sourceAlh
    /\ proof.target = targetAlh
    /\ 0 < sourceID
    /\ sourceID <= targetID
    /\ IsPrefix(proof.source, proof.target)

-----------------------------------------------------------------------------
(* States.  A signature is the triple it signs.                            *)

\* The two names the client gives the database in a state it checks.
DbName == {"ApiKey", "ApiKeyHash"}

NoSignature == [db |-> "none", txId |-> 0, txHash |-> <<>>]

Signature == [db : DbName, txId : Nat, txHash : History] \cup {NoSignature}

ImmutableState ==
    [db : DbName, txId : Nat, txHash : History, signature : Signature]

CheckSignature(st) ==
    st.signature = [db |-> st.db, txId |-> st.txId, txHash |-> st.txHash]

=============================================================================
