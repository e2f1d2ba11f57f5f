----------------------------- MODULE MCStreams ------------------------------
(***************************************************************************)
(* Instances of Streams for TLC.                                           *)
(***************************************************************************)
EXTENDS Streams

Whole(k) == [j \in 1..k |-> [size |-> 2, has |-> 2]]

\* Nothing, one entry and two; writes with a message short of its size, too.
AllInputs ==
    [o \in StreamCallOps |->
        LET two == Whole(2 * Parts(o))
        IN  {<<>>, Whole(Parts(o)), two}
            \cup IF o \in Gets THEN {}
                 ELSE IF StreamStubs[RpcOf[o]].kind = "server" THEN {}
                 ELSE {[two EXCEPT ![j].has = h] : j \in {1, 2 * Parts(o)}, h \in {0, 1}}]

\* Two whole entries.
WholeInputs == [o \in StreamCallOps |-> {Whole(2 * Parts(o))}]

=============================================================================
