---------------------------- MODULE MCConnection ----------------------------
(***************************************************************************)
(* Instances of Connection for TLC.                                        *)
(***************************************************************************)
EXTENDS Connection

CONSTANTS t1, t2

\* A client with key, credentials and retries; one around a connection of the
\* caller's; one with dial options of the caller's.
AllSetters ==
    {<<ApiKey, MetadataPairs, RetryOptions(2), ServerSigningPubKey>>,
     <<ClientConn, ServiceClient, StateService, ApiKey>>,
     <<DialOptions, MetadataPairs, RetryOptions(0)>>}

\* A client that dials its connection, with all interceptors.
DialledSetters == {<<ApiKey>>}

\* One thread verifies, the other opens a stream.
SomeOps == (t1 :> {"VerifiedGet"}) @@ (t2 :> {"StreamScan"})

\* A thread that calls every kind of operation.
AllOps == (t1 :> {"CurrentState", "VerifiedGet", "StreamVerifiedSet", "StreamScan"})

=============================================================================
