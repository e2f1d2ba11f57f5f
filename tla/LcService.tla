----------------------------- MODULE LcService -----------------------------
(***************************************************************************)
(* The protocol between client and server, from the generated code: which  *)
(* path and messages each stub sends, which handler the service descriptor *)
(* gives for a path, what it decodes and which method of the server it     *)
(* runs.  Connection takes every RPC through it; Streams takes from it     *)
(* which side of a stream sends many messages.                             *)
(***************************************************************************)
EXTENDS Naturals, Sequences, TLC

\* The client's interface.
Methods ==
    {"VCNSetArtifacts", "VCNSearchArtifacts", "VCNGetArtifacts", "VCNLabelsGet",
     "VCNLabelsSet", "VCNLabelsUpdate", "VCNGetAttachment", "VCNGetClientSignature",
     "CurrentState", "Health", "ReportTamper", "Feats", "Set", "SetMulti", "Get",
     "VerifiableSet", "VerifiableGet", "GetAll", "ExecAll", "Scan", "History",
     "ZAdd", "VerifiableZAdd", "ZScan", "SendData", "VerifiableGetExt",
     "VerifiableGetExtMulti", "ZScanExt", "HistoryExt", "StreamGet", "StreamSet",
     "StreamVerifiableGet", "StreamVerifiableSet", "StreamScan", "StreamZScan",
     "StreamHistory", "StreamExecAll"}

-----------------------------------------------------------------------------
(* Stubs.  A unary stub invokes a path with a message of one type and      *)
(* returns one of another, or the error.                                   *)

Invoke(path, in, out) == [path |-> path, in |-> in, out |-> out]

VCNStubs ==
    [VCNSetArtifacts    |-> Invoke("VCNSetArtifacts", "VCNArtifactsRequest", "VCNArtifactsResponse"),
     VCNSearchArtifacts |-> Invoke("VCNSearchArtifacts", "VCNSearchRequest", "EntryList"),
     VCNGetArtifacts    |-> Invoke("VCNGetArtifacts", "VCNArtifactsGetRequest", "EntryList"),
     VCNLabelsGet       |-> Invoke("VCNLabelsGet", "VCNLabelsGetRequest", "VCNLabelsGetResponse"),
     VCNLabelsSet       |-> Invoke("VCNLabelsSet", "VCNLabelsSetRequest", "VCNLabelsSetResponse"),
     VCNLabelsUpdate    |-> Invoke("VCNLabelsUpdate", "VCNLabelsUpdateRequest", "VCNLabelsUpdateResponse"),
     VCNGetAttachment   |-> Invoke("VCNGetAttachment", "VCNGetAttachmentRequest", "VCNGetAttachmentResponse"),
     VCNGetClientSignature |->
         Invoke("VCNGetClientSignature", "VCNGetClientSignatureRequest", "VCNGetClientSignatureResponse")]

StateStubs ==
    [CurrentState |-> Invoke("CurrentState", "Empty", "ImmutableState"),
     Health       |-> Invoke("Health", "Empty", "HealthResponse"),
     ReportTamper |-> Invoke("ReportTamper", "ReportOptions", "Empty"),
     Feats        |-> Invoke("Feats", "Empty", "Features")]

KeyStubs ==
    [Set           |-> Invoke("Set", "SetRequest", "TxHeader"),
     SetMulti      |-> Invoke("SetMulti", "SetMultiRequest", "SetMultiResponse"),
     Get           |-> Invoke("Get", "KeyRequest", "Entry"),
     VerifiableSet |-> Invoke("VerifiableSet", "VerifiableSetRequest", "VerifiableTx"),
     VerifiableGet |-> Invoke("VerifiableGet", "VerifiableGetRequest", "VerifiableEntry"),
     GetAll        |-> Invoke("GetAll", "KeyListRequest", "Entries"),
     ExecAll       |-> Invoke("ExecAll", "ExecAllRequest", "TxHeader")]

ScanStubs ==
    [Scan           |-> Invoke("Scan", "ScanRequest", "Entries"),
     History        |-> Invoke("History", "HistoryRequest", "Entries"),
     ZAdd           |-> Invoke("ZAdd", "ZAddRequest", "TxHeader"),
     VerifiableZAdd |-> Invoke("VerifiableZAdd", "VerifiableZAddRequest", "VerifiableTx"),
     ZScan          |-> Invoke("ZScan", "ZScanRequest", "ZEntries")]

ExtStubs ==
    [VerifiableGetExt      |-> Invoke("VerifiableGetExt", "VerifiableGetRequest", "VerifiableItemExt"),
     VerifiableGetExtMulti |-> Invoke("VerifiableGetExtMulti", "VerifiableGetExtMultiRequest",
                                      "VerifiableGetExtMultiResponse"),
     ZScanExt              |-> Invoke("ZScanExt", "ZScanRequest", "ZItemExtList"),
     HistoryExt            |-> Invoke("HistoryExt", "HistoryRequest", "ItemExtList")]

UnaryStubs == VCNStubs @@ StateStubs @@ KeyStubs @@ ScanStubs @@ ExtStubs

\* A stream stub opens a stream with a descriptor of the service (counted from
\* 1 here).  Then, by its kind: it sends its request and closes its side, and
\* the caller receives ("server"); the caller sends, and CloseAndRecv closes and
\* receives one answer ("client"); or the caller does both ("both").
NewStream(desc, path, kind, in, out) ==
    [desc |-> desc, path |-> path, kind |-> kind, in |-> in, out |-> out]

DataStub == [SendData |-> NewStream(1, "SendData", "both", "Data", "Response")]

KeyStreamStubs ==
    [StreamGet           |-> NewStream(2, "streamGet", "server", "KeyRequest", "Chunk"),
     StreamSet           |-> NewStream(3, "streamSet", "client", "Chunk", "TxHeader"),
     StreamVerifiableGet |-> NewStream(4, "streamVerifiableGet", "server", "VerifiableGetRequest", "Chunk"),
     StreamVerifiableSet |-> NewStream(5, "streamVerifiableSet", "client", "Chunk", "VerifiableTx")]

ListStreamStubs ==
    [StreamScan    |-> NewStream(6, "streamScan", "server", "ScanRequest", "Chunk"),
     StreamZScan   |-> NewStream(7, "streamZScan", "server", "ZScanRequest", "Chunk"),
     StreamHistory |-> NewStream(8, "streamHistory", "server", "HistoryRequest", "Chunk"),
     StreamExecAll |-> NewStream(9, "streamExecAll", "client", "Chunk", "TxHeader")]

StreamStubs == DataStub @@ KeyStreamStubs @@ ListStreamStubs

Stubs == UnaryStubs @@ StreamStubs

-----------------------------------------------------------------------------
(* The server's side.                                                      *)

\* The interface a server implements, and the embedded default, which
\* refuses every method.
LcServiceServer == Methods
UnimplementedLcServiceServer == [m \in LcServiceServer |-> "Unimplemented"]

\* What a registered server does for a method: its own implementation, if it
\* has one, else the default.
RegisterLcServiceServer(own) ==
    [m \in LcServiceServer |-> IF m \in own THEN m ELSE UnimplementedLcServiceServer[m]]

\* A handler decodes one message (a stream of the client's is handed over as
\* it is, with the type that is received from it) and runs a method, with an
\* interceptor around it or not.
Handle(in, runs) == [in |-> in, runs |-> runs]

VCNHandlers ==
    [VCNSetArtifacts       |-> Handle("VCNArtifactsRequest", "VCNSetArtifacts"),
     VCNSearchArtifacts    |-> Handle("VCNSearchRequest", "VCNSearchArtifacts"),
     VCNGetArtifacts       |-> Handle("VCNArtifactsGetRequest", "VCNGetArtifacts"),
     VCNLabelsGet          |-> Handle("VCNLabelsGetRequest", "VCNLabelsGet"),
     VCNLabelsSet          |-> Handle("VCNLabelsSetRequest", "VCNLabelsSet"),
     VCNLabelsUpdate       |-> Handle("VCNLabelsUpdateRequest", "VCNLabelsUpdate"),
     VCNGetAttachment      |-> Handle("VCNGetAttachmentRequest", "VCNGetAttachment"),
     VCNGetClientSignature |-> Handle("VCNGetClientSignatureRequest", "VCNGetClientSignature")]

StateHandlers ==
    [CurrentState |-> Handle("Empty", "CurrentState"), Health |-> Handle("Empty", "Health"),
     ReportTamper |-> Handle("ReportOptions", "ReportTamper"), Feats |-> Handle("Empty", "Feats")]

KeyHandlers ==
    [Set           |-> Handle("SetRequest", "Set"),
     SetMulti      |-> Handle("SetMultiRequest", "SetMulti"),
     Get           |-> Handle("KeyRequest", "Get"),
     VerifiableSet |-> Handle("VerifiableSetRequest", "VerifiableSet"),
     VerifiableGet |-> Handle("VerifiableGetRequest", "VerifiableGet"),
     GetAll        |-> Handle("KeyListRequest", "GetAll"),
     ExecAll       |-> Handle("ExecAllRequest", "ExecAll")]

ScanHandlers ==
    [Scan           |-> Handle("ScanRequest", "Scan"),
     History        |-> Handle("HistoryRequest", "History"),
     ZAdd           |-> Handle("ZAddRequest", "ZAdd"),
     VerifiableZAdd |-> Handle("VerifiableZAddRequest", "VerifiableZAdd"),
     ZScan          |-> Handle("ZScanRequest", "ZScan")]

DataHandler == [SendData |-> Handle("Data", "SendData")]

ExtHandlers ==
    [VerifiableGetExt      |-> Handle("VerifiableGetRequest", "VerifiableGetExt"),
     VerifiableGetExtMulti |-> Handle("VerifiableGetExtMultiRequest", "VerifiableGetExtMulti"),
     ZScanExt              |-> Handle("ZScanRequest", "ZScanExt"),
     HistoryExt            |-> Handle("HistoryRequest", "HistoryExt")]

KeyStreamHandlers ==
    [StreamGet           |-> Handle("KeyRequest", "StreamGet"),
     StreamSet           |-> Handle("Chunk", "StreamSet"),
     StreamVerifiableGet |-> Handle("VerifiableGetRequest", "StreamVerifiableGet"),
     StreamVerifiableSet |-> Handle("Chunk", "StreamVerifiableSet")]

ListStreamHandlers ==
    [StreamScan    |-> Handle("ScanRequest", "StreamScan"),
     StreamZScan   |-> Handle("ZScanRequest", "StreamZScan"),
     StreamHistory |-> Handle("HistoryRequest", "StreamHistory"),
     StreamExecAll |-> Handle("Chunk", "StreamExecAll")]

Handlers == VCNHandlers @@ StateHandlers @@ KeyHandlers @@ ScanHandlers
            @@ DataHandler @@ ExtHandlers @@ KeyStreamHandlers @@ ListStreamHandlers

\* The descriptor: unary paths are the names of their handlers; stream paths
\* have a lower-case name, a handler and the sides that send many messages.
MethodDescs ==
    [path \in {"VCNSetArtifacts", "VCNSearchArtifacts", "VCNGetArtifacts", "VCNLabelsGet",
               "VCNLabelsSet", "VCNLabelsUpdate", "VCNGetAttachment", "VCNGetClientSignature",
               "CurrentState", "Health", "ReportTamper", "Feats", "Set", "SetMulti", "Get",
               "VerifiableSet", "VerifiableGet", "GetAll", "ExecAll", "Scan", "History",
               "ZAdd", "VerifiableZAdd", "ZScan", "VerifiableGetExt",
               "VerifiableGetExtMulti", "ZScanExt", "HistoryExt"} |-> path]

Desc(path, handler, sends) == [path |-> path, handler |-> handler, sends |-> sends]

StreamDescs ==
    <<Desc("SendData", "SendData", {"server", "client"}),
      Desc("streamGet", "StreamGet", {"server"}),
      Desc("streamSet", "StreamSet", {"client"}),
      Desc("streamVerifiableGet", "StreamVerifiableGet", {"server"}),
      Desc("streamVerifiableSet", "StreamVerifiableSet", {"client"}),
      Desc("streamScan", "StreamScan", {"server"}),
      Desc("streamZScan", "StreamZScan", {"server"}),
      Desc("streamHistory", "StreamHistory", {"server"}),
      Desc("streamExecAll", "StreamExecAll", {"client"})>>

-----------------------------------------------------------------------------
(* The way of an RPC.                                                      *)

\* The handler that serves a path.
HandlerOf(path) ==
    Handlers[IF path \in DOMAIN MethodDescs THEN MethodDescs[path]
             ELSE (CHOOSE d \in {StreamDescs[i] : i \in DOMAIN StreamDescs} : d.path = path).handler]

\* What a server with these methods of its own does for a stub's RPC.
Answering(own, stub) == RegisterLcServiceServer(own)[HandlerOf(Stubs[stub].path).runs]

\* Every stub of the interface reaches the method of its own name with the
\* message it sends, and opens its stream with the descriptor of its path.
ASSUME StubsReachTheirMethods ==
    /\ DOMAIN Stubs = Methods
    /\ \A m \in Methods : LET h == HandlerOf(Stubs[m].path)
                          IN  h.runs = m /\ h.in = Stubs[m].in
    /\ \A m \in DOMAIN StreamStubs :
          LET stub == StreamStubs[m]
              desc == StreamDescs[stub.desc]
          IN  /\ desc.path = stub.path
              /\ desc.sends = IF stub.kind = "both" THEN {"server", "client"} ELSE {stub.kind}

=============================================================================
