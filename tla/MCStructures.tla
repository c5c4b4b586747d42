---------------------------- MODULE MCStructures ----------------------------
(***************************************************************************)
(* The lock-free stack with its elimination array, the list with a mutex   *)
(* in every node, the hash table, the spin lock and the channels, for one  *)
(* run of TLC: a behaviour is one of these, chosen at its start.           *)
(***************************************************************************)
EXTENDS EliminationStack, FineLocking, Channels, TLC

CONSTANTS t1, t2, t3

MCThreads == {t1, t2, t3}
MCSymmetry == Permutations(MCThreads)

VARIABLE subject

subjectVars == <<subject, allVars, llVars, ltVars, slVars, chVars>>

MCInit ==
  /\ subject \in {"stack", "list", "table", "lock", "channel"}
  /\ EInit /\ LlInit /\ LtInit /\ SlInit /\ ChInit
  /\ subject # "table" => hash = [k \in Keys |-> CHOOSE b \in Buckets : TRUE]
  /\ subject # "channel" => kind = "csp"

MCNext ==
  \/ subject = "stack" /\ ENext /\ UNCHANGED <<subject, llVars, ltVars, slVars, chVars>>
  \/ subject = "list" /\ LlNext /\ UNCHANGED <<subject, allVars, ltVars, slVars, chVars>>
  \/ subject = "table" /\ LtNext /\ UNCHANGED <<subject, allVars, llVars, slVars, chVars>>
  \/ subject = "lock" /\ SlNext /\ UNCHANGED <<subject, allVars, llVars, ltVars, chVars>>
  \/ subject = "channel" /\ ChNext /\ UNCHANGED <<subject, allVars, llVars, ltVars, slVars>>

MCSpec == MCInit /\ [][MCNext]_subjectVars

=============================================================================
