---------------------------- MODULE AbstractMutex ----------------------------
(***************************************************************************)
(* What the interface CriticalSectionAlgStrategy promises to a Client for  *)
(* one file: request_resource() blocks until the client may access the     *)
(* file, enter_critical_section() runs the access, release_resource()      *)
(* gives the file up, and no two clients access the file at a time.        *)
(*                                                                         *)
(* Neither strategy of the program keeps that promise unconditionally: each*)
(* has steps that read shared state under the mutex, drop the mutex and act*)
(* on what they read.  The variable tainted records that such a step has   *)
(* acted on a stale reading.  The promise holds until then, and nothing is *)
(* promised afterwards.                                                    *)
(***************************************************************************)
CONSTANT Clients

VARIABLES
  phase,    \* phase[c]: what client c is doing with the file
  tainted   \* a stale reading has been acted on

vars == <<phase, tainted>>

Phases == {"idle", "waiting", "using"}

Init ==
  /\ phase = [c \in Clients |-> "idle"]
  /\ tainted = FALSE

Free == \A c \in Clients : phase[c] # "using"

Request(c) ==
  /\ phase[c] = "idle"
  /\ phase' = [phase EXCEPT ![c] = "waiting"]
  /\ UNCHANGED tainted

Enter(c) ==
  /\ phase[c] = "waiting"
  /\ Free \/ tainted
  /\ phase' = [phase EXCEPT ![c] = "using"]
  /\ UNCHANGED tainted

Release(c) ==
  /\ phase[c] = "using"
  /\ phase' = [phase EXCEPT ![c] = "idle"]
  /\ UNCHANGED tainted

Taint ==
  /\ tainted' = TRUE
  /\ UNCHANGED phase

Next ==
  \/ \E c \in Clients : Request(c) \/ Enter(c) \/ Release(c)
  \/ Taint

Spec == Init /\ [][Next]_vars

=============================================================================
