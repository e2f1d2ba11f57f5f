---------------------------- MODULE MCCacheKeys -----------------------------
(***************************************************************************)
(* An instance of CacheKeys for TLC.                                       *)
(***************************************************************************)
EXTENDS CacheKeys

A == <<"a">>
B == <<"b">>
Zero == <<"0">>
Two == <<"a", "b">>  \* a text with a line break

\* Up to two hashes, one of which reads as a number; every field takes two values.
ArtifactsGets ==
    [Hashes : {<<>>, <<A>>, <<B>>, <<A, B>>, <<B, A>>, <<A, Zero>>, <<Two>>},
     Verify : BOOLEAN, ProveSinceTx : {0, 1}, UID : {A, B}, SignerID : {A, B}]

Search ==
    [Hash |-> A, SignerID |-> A, AType |-> "Direct", Type |-> "Artifact", Limit |-> 0,
     Desc |-> FALSE, StartTS |-> 0, EndTS |-> 0, AttachName |-> A, ArtifactName |-> A,
     UID |-> A, ContinuationToken |-> A]

Others ==
    [Hash |-> B, SignerID |-> B, AType |-> "Base", Type |-> "History", Limit |-> 1,
     Desc |-> TRUE, StartTS |-> 1, EndTS |-> 1, AttachName |-> B, ArtifactName |-> Two,
     UID |-> B, ContinuationToken |-> B]

\* Searches that differ from one another in up to four fields.
Searches ==
    {[f \in DOMAIN Search |-> IF f \in fs THEN Others[f] ELSE Search[f]] :
        fs \in UNION {{{f, g} : f \in DOMAIN Search} : g \in DOMAIN Search} \cup {{}}}

LabelsGets ==
    {[Request |-> [i \in DOMAIN hs |-> [Hash |-> hs[i], SignerID |-> s]]] :
        hs \in {<<>>, <<A>>, <<B>>, <<A, B>>, <<Two>>, << <<"">> >>}, s \in {A, B}}

AllRequests ==
    [ArtifactsGet |-> ArtifactsGets, Search |-> Searches, LabelsGet |-> LabelsGets]

OnePrefix == {<<A>>, <<B>>}

=============================================================================
