------------------------------- MODULE LcApi -------------------------------
(***************************************************************************)
(* The operations of the client: the RPC each makes, and the phases it goes *)
(* through around it.                                                      *)
(***************************************************************************)
EXTENDS LcService

\* The operations a caller has through the interface of the client.
LcClientIf ==
    {"VCNSetArtifacts", "VCNSearchArtifacts", "VCNGetArtifacts", "VCNGetClientSignature",
     "Health", "CurrentState", "Feats", "SetFile", "GetFile", "VCNLabelsSet",
     "VCNLabelsUpdate", "VCNLabelsGet", "VCNGetAttachment", "Set", "VerifiedSet", "Get",
     "GetAt", "VerifiedGet", "VerifiedGetSince", "VerifiedGetAt", "GetAll", "SetAll",
     "SetMulti", "ExecAll", "Scan", "ZScan", "History", "ZScanExt", "HistoryExt",
     "VerifiedGetExt", "VerifiedGetExtSince", "VerifiedGetExtAt", "VerifiedGetExtAtMulti",
     "StreamSet", "StreamGet", "StreamVerifiedSet", "StreamVerifiedGet", "StreamScan",
     "StreamZScan", "StreamHistory", "StreamExecAll"}

-----------------------------------------------------------------------------
(* Operations that make their RPC and nothing else.                        *)

Primitives ==
    [Set |-> "Set", Get |-> "Get", GetAt |-> "Get", ExecAll |-> "ExecAll", GetAll |-> "GetAll",
     SetAll |-> "Set", SetMulti |-> "SetMulti", VCNSetArtifacts |-> "VCNSetArtifacts",
     VCNSearchArtifacts |-> "VCNSearchArtifacts"]

\* ZAddAt is a method of the client that its interface lacks.
Scanners ==
    [Scan |-> "Scan", ZScan |-> "ZScan", History |-> "History", ZAddAt |-> "ZAdd",
     ZScanExt |-> "ZScanExt", HistoryExt |-> "HistoryExt", Health |-> "Health",
     CurrentState |-> "CurrentState", Feats |-> "Feats"]

\* A file is read before the RPC, or written after it.
Files == [SetFile |-> "Set", GetFile |-> "Get"]

Labels ==
    [VCNLabelsSet |-> "VCNLabelsSet", VCNLabelsUpdate |-> "VCNLabelsUpdate",
     VCNLabelsGet |-> "VCNLabelsGet", VCNGetAttachment |-> "VCNGetAttachment"]

ClientSignature == [VCNGetClientSignature |-> "VCNGetClientSignature"]

\* VCNGetArtifacts without verification.
ArtifactsUnverified == [VCNGetArtifacts |-> "VCNGetArtifacts"]

StreamOps ==
    [StreamSet |-> "StreamSet", StreamGet |-> "StreamGet", StreamScan |-> "StreamScan",
     StreamZScan |-> "StreamZScan", StreamHistory |-> "StreamHistory",
     StreamExecAll |-> "StreamExecAll"]

Direct == Primitives @@ Scanners @@ Files @@ Labels @@ ClientSignature
          @@ ArtifactsUnverified @@ StreamOps

-----------------------------------------------------------------------------
(* Operations that verify.                                                 *)

\* Those that keep the new state before they check its signature.
KeepFirst ==
    [VerifiedGet |-> "VerifiableGet", VerifiedGetAt |-> "VerifiableGet",
     VerifiedGetSince |-> "VerifiableGet", VerifiedGetExt |-> "VerifiableGetExt",
     VerifiedGetExtSince |-> "VerifiableGetExt", VerifiedGetExtAt |-> "VerifiableGetExt",
     VerifiedGetExtAtMulti |-> "VerifiableGetExtMulti",
     VCNGetArtifactsVerified |-> "VCNGetArtifacts"]

\* Those that check it before.
CheckFirst ==
    [VerifiedSet |-> "VerifiableSet", StreamVerifiedSet |-> "StreamVerifiableSet",
     StreamVerifiedGet |-> "StreamVerifiableGet"]

RpcOf == Direct @@ KeepFirst @@ CheckFirst

\* What an operation does, in order: take the lock of the cache and defer its
\* release, get the trusted state, make the RPC, keep the new state, look for a
\* key and check the new state with it.  (A multi read does the last three for
\* each of its items.)
Phases(op) ==
    IF op \in DOMAIN Direct THEN <<"rpc">>
    ELSE IF op \in DOMAIN KeepFirst
         THEN <<"lock", "acquire", "defer", "state", "rpc", "keep", "key", "check">>
         ELSE <<"lock", "acquire", "defer", "state", "rpc", "key", "check", "keep">>

\* An operation of the interface makes an RPC there is a stub for.
ASSUME OperationsHaveStubs ==
    /\ LcClientIf \subseteq DOMAIN RpcOf
    /\ \A op \in DOMAIN RpcOf : RpcOf[op] \in Methods

=============================================================================
