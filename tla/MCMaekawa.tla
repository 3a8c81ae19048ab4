----------------------------- MODULE MCMaekawa -----------------------------
(***************************************************************************)
(* Instances of Maekawa for TLC.                                           *)
(***************************************************************************)
EXTENDS Maekawa

\* The quorums of config_clients.txt, for three clients instead of five: client
\* i's quorum is a run of consecutive clients that starts at i, long enough for
\* every two runs to meet.
Ring == [i \in Clients |-> {(i + k) % N : k \in 0 .. N \div 2}]

\* Quorums that all meet in the last client, which therefore has three requests
\* to choose from and, having the highest id, goes last among equal numbers; it
\* needs every lock.
Hub == [i \in Clients |-> IF i = N - 1 THEN Clients ELSE {i, N - 1}]

\* Each client has one command for the file; the last one has two.
One == [i \in Clients |-> 1]
LastTwice == [One EXCEPT ![N - 1] = 2]

=============================================================================
