-------------------------------- MODULE MCStore --------------------------------
(* Instances of Store for TLC. *)
EXTENDS Store, TLC

CONSTANTS t1, t2

\* One worker fills what the other changes and looks up.
MCBudget == t1 :> 2 @@ t2 :> 1

\* Every verb; the batches name a key another verb names too.
MCCalls == {[verb |-> "put", keys |-> <<1>>], [verb |-> "get", keys |-> <<1>>],
            [verb |-> "del", keys |-> <<1>>], [verb |-> "mput", keys |-> <<1, 2>>],
            [verb |-> "mget", keys |-> <<1, 2>>], [verb |-> "mdel", keys |-> <<2, 1>>]}
=============================================================================
