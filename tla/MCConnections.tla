--------------------------- MODULE MCConnections ----------------------------
(***************************************************************************)
(* Connections with every command between two clients, and with commands   *)
(* that wait and wake between three, of which none waits again before it   *)
(* was resumed.                                                            *)
(***************************************************************************)
EXTENDS Connections

MCSettings ==
  {[maxclients |-> 2, maxcommands |-> 3, waitsWoken |-> TRUE,
    kinds |-> {"ping", "bad", "quit", "blpop", "push", "subscribe", "unsubscribe", "psubscribe",
               "punsubscribe", "publish", "kill"}],
   [maxclients |-> 3, maxcommands |-> 4, waitsWoken |-> FALSE, kinds |-> {"blpop", "push"}]}

Alike == Permutations(Connections)
=============================================================================
