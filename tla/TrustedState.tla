---------------------------- MODULE TrustedState ----------------------------
(***************************************************************************)
(* What the verified operations of the client promise, whatever the number *)
(* of processes that share a cache directory and whatever the server       *)
(* answers: for each API key there is one trusted history.  It is adopted  *)
(* once, only ever extended, and every result that is returned as verified *)
(* is an entry of a transaction on the same branch as that history.        *)
(***************************************************************************)
EXTENDS ImmuLedger

CONSTANTS ApiKeys,  \* the ledgers, one per API key
          None      \* no history trusted yet

VARIABLES trusted,   \* trusted[k]: the history ledger k is trusted to start with
          verified   \* verified[k]: the results returned as verified, each an
                     \* entry and the header of the transaction it is proven in

vars == <<trusted, verified>>

\* Of two histories, one continues the other.
SameBranch(h1, h2) == IsPrefix(h1, h2) \/ IsPrefix(h2, h1)

Init ==
    /\ trusted = [k \in ApiKeys |-> None]
    /\ verified = [k \in ApiKeys |-> {}]

\* First contact: the client takes the server's word for its history.
Adopt(k) ==
    /\ trusted[k] = None
    /\ trusted'[k] \in History
    /\ UNCHANGED verified

\* Later contact: the trusted history grows or stays, and the results of
\* one verified operation are accepted against it.
Advance(k) ==
    /\ trusted[k] # None
    /\ trusted'[k] \in History
    /\ IsPrefix(trusted[k], trusted'[k])
    /\ verified[k] \subseteq verified'[k]
    /\ \A r \in verified'[k] \ verified[k] :
         r.spec \in Eh(r.header) /\ SameBranch(r.header, trusted[k])
    /\ \A j \in ApiKeys \ {k} : verified'[j] = verified[j]

Next ==
    \E k \in ApiKeys :
        /\ Adopt(k) \/ Advance(k)
        /\ \A j \in ApiKeys \ {k} : trusted'[j] = trusted[j]

Spec == Init /\ [][Next]_vars

=============================================================================
