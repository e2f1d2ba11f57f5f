----------------------------- MODULE CacheKeys -----------------------------
(***************************************************************************)
(* The keys under which a caller may cache the answers to three kinds of    *)
(* request, and such a cache (external: none is in the repository).  A key  *)
(* is a digest, which is injective, of pieces of text joined with line      *)
(* breaks; a text is the sequence of its lines.                            *)
(***************************************************************************)
EXTENDS Naturals, Sequences, SequencesExt, FiniteSets, TLC

CONSTANTS
    Requests,   \* Requests[kind]: the requests asked
    CallerPrefixes,   \* the prefixes a caller passes to GetKey
    MaxCached,  \* bound: answers cached
    Nothing

Kinds == {"ArtifactsGet", "Search", "LabelsGet"}

Lines == STRING
Texts == Seq(Lines) \ {<<>>}
Line(x) == <<ToString(x)>>

-----------------------------------------------------------------------------
(* The messages.                                                           *)

VCNArtifactsGetRequest ==
    [Hashes : Seq(Texts), Verify : BOOLEAN, ProveSinceTx : Nat, UID : Texts, SignerID : Texts]

ArtifactType == {"Direct", "Indirect", "Base"}
SearchType == {"Artifact", "Dependencies", "WhatIncludes", "ArtifactTimed", "Attachment",
               "ByApiKey", "ByName", "History"}

VCNSearchRequest ==
    [Hash : Texts, SignerID : Texts, AType : ArtifactType, Type : SearchType, Limit : Nat,
     Desc : BOOLEAN, StartTS : Nat, EndTS : Nat, AttachName : Texts, ArtifactName : Texts,
     UID : Texts, ContinuationToken : Texts]

LabelsGetRequest == [Hash : Texts, SignerID : Texts]
VCNLabelsGetRequest == [Request : Seq(LabelsGetRequest)]

\* One caller passes prefixes of one length, with a line each.
ASSUME CacheKeysAssumption ==
    /\ Requests["ArtifactsGet"] \subseteq VCNArtifactsGetRequest
    /\ Requests["Search"] \subseteq VCNSearchRequest
    /\ Requests["LabelsGet"] \subseteq VCNLabelsGetRequest
    /\ CallerPrefixes \subseteq Seq(Texts)
    /\ \A p, q \in CallerPrefixes : Len(p) = Len(q)
    /\ \A p \in CallerPrefixes : \A i \in DOMAIN p : Len(p[i]) = 1
    /\ MaxCached \in Nat

\* What %d and %t print of different values differs.
ASSUME PrintingAssumption ==
    /\ \A r, s \in Requests["ArtifactsGet"] :
          Line(r.ProveSinceTx) = Line(s.ProveSinceTx) => r.ProveSinceTx = s.ProveSinceTx
    /\ \A r, s \in Requests["Search"] : \A f \in {"Limit", "Desc", "StartTS", "EndTS"} :
          Line(r[f]) = Line(s[f]) => r[f] = s[f]

-----------------------------------------------------------------------------
(* GetKey.                                                                 *)

\* strings.Join: the empty text when there are no pieces.
Join(pieces) == IF pieces = <<>> THEN <<"">> ELSE FlattenSeq(pieces)

\* Mutant of ArtifactsGetKey: the transaction left out.
ArtifactsGetKeyTimeless(r, prefix) == Join(r.Hashes \o prefix)

ArtifactsGetKey(r, prefix) == Join(r.Hashes \o prefix \o <<Line(r.ProveSinceTx)>>)

\* Mutant of SearchKey: the order left out.
SearchKeyUnordered(r, prefix) ==
    Join(prefix \o <<r.Hash, r.SignerID, <<r.AType>>, <<r.Type>>, Line(r.Limit),
                     Line(r.StartTS), Line(r.EndTS), r.AttachName, r.ArtifactName, r.UID>>)

SearchKey(r, prefix) ==
    Join(prefix \o <<r.Hash, r.SignerID, <<r.AType>>, <<r.Type>>, Line(r.Limit), Line(r.Desc),
                     Line(r.StartTS), Line(r.EndTS), r.AttachName, r.ArtifactName, r.UID>>)

\* Mutant of LabelsGetKey: each hash replaces the one before.
LabelsGetKeyOfLast(r, prefix) ==
    Join(prefix \o IF r.Request = <<>> THEN <<>> ELSE <<Last(r.Request).Hash>>)

LabelsGetKey(r, prefix) == Join(prefix \o [i \in DOMAIN r.Request |-> r.Request[i].Hash])

GetKey(k, r, prefix) ==
    CASE k = "ArtifactsGet" -> ArtifactsGetKey(r, prefix)
      [] k = "Search"       -> SearchKey(r, prefix)
      [] k = "LabelsGet"    -> LabelsGetKey(r, prefix)

-----------------------------------------------------------------------------
(* A cache of answers to requests of one kind.                             *)

VARIABLES
    kind,
    cache,  \* the requests that were answered, by key
    hit     \* the last request answered from the cache: [asked, cached]

vars == <<kind, cache, hit>>

Init ==
    /\ kind \in Kinds
    /\ cache = [key \in {} |-> Nothing]
    /\ hit = Nothing

Ask(r, prefix) ==
    LET key == GetKey(kind, r, prefix)
        asked == [request |-> r, prefix |-> prefix]
    IN  /\ IF key \in DOMAIN cache
           THEN hit' = [asked |-> asked, cached |-> cache[key]] /\ UNCHANGED cache
           ELSE /\ Cardinality(DOMAIN cache) < MaxCached
                /\ cache' = [k \in DOMAIN cache \cup {key} |->
                                IF k = key THEN asked ELSE cache[k]]
                /\ UNCHANGED hit
        /\ UNCHANGED kind

Next == \E r \in Requests[kind], prefix \in CallerPrefixes : Ask(r, prefix)

Spec == Init /\ [][Next]_vars

-----------------------------------------------------------------------------
(* Properties.                                                             *)

\* A text of a single line; a hash to ask labels for is not empty, either.
Plain(text) == Len(text) = 1
Named(text) == Plain(text) /\ text # <<"">>

Hit(k) == kind = k /\ hit # Nothing
Asked == hit.asked.request
Cached == hit.cached.request

\* An answer that is found under a key is one for the same prefix to a request for
\* the same hashes since the same transaction.  The two may still differ in all
\* that GetKey leaves out: whose artifacts are asked for, which UID and SignerID
\* say, and whether with proofs, which Verify says (cache.go:9-16).
ArtifactsHitIsOwn ==
    /\ Hit("ArtifactsGet")
    /\ \A r \in {Asked, Cached} : \A i \in DOMAIN r.Hashes : Plain(r.Hashes[i])
    => /\ hit.asked.prefix = hit.cached.prefix
       /\ [Asked EXCEPT !.UID = Cached.UID, !.SignerID = Cached.SignerID,
                        !.Verify = Cached.Verify] = Cached

\* Of searches, nothing that selects or orders what is found differs: only the page
\* may, which ContinuationToken says and the key does not (cache.go:18-34).
SearchHitIsOwn ==
    /\ Hit("Search")
    /\ \A r \in {Asked, Cached} :
          \A f \in {"Hash", "SignerID", "AttachName", "ArtifactName", "UID"} : Plain(r[f])
    => /\ hit.asked.prefix = hit.cached.prefix
       /\ [Asked EXCEPT !.ContinuationToken = Cached.ContinuationToken] = Cached

\* Labels are of the same hashes in the same order; the signer each is asked of,
\* SignerID, is not in the key and may differ (cache.go:36-44).
LabelsHitIsOwn ==
    /\ Hit("LabelsGet")
    /\ \A r \in {Asked, Cached} : \A i \in DOMAIN r.Request : Named(r.Request[i].Hash)
    => /\ hit.asked.prefix = hit.cached.prefix
       /\ [i \in DOMAIN Asked.Request |-> Asked.Request[i].Hash]
          = [i \in DOMAIN Cached.Request |-> Cached.Request[i].Hash]

=============================================================================
