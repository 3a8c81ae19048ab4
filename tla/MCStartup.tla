------------------------------ MODULE MCStartup ------------------------------
(***************************************************************************)
(* Instances of Startup for TLC.                                           *)
(***************************************************************************)
EXTENDS Startup, TLC

\* The clients connect in the order of their ids, or the last one to the others.
SomeOrders == {[c \in Clients |-> c], [c \in Clients |-> (c + 1) % 3]}

\* The memory is clean, or memset() cleared the first entry only.
Memories == {[c \in Clients |-> None],
             [c \in Clients |-> IF c = 0 THEN None ELSE Garbage]}

=============================================================================
