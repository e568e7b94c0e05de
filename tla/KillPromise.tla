----------------------------- MODULE KillPromise ----------------------------
(***************************************************************************)
(* What a scoped kill promises, whatever the platform: it is all or         *)
(* nothing, and it cleans up.  The comment on execute_freeze_kill           *)
(* (src/src/tree/execute.rs 348-357) states it as the safety contract.      *)
(*                                                                         *)
(* The kill first holds processes.  Then it either condemns a set of them,  *)
(* and every one of that set gets the terminating signal or is passed over  *)
(* (gone, or the system refuses), or it refuses, signals nobody, and        *)
(* releases what it held.  No condemned process is released before its turn. *)
(***************************************************************************)
CONSTANTS Proc

VARIABLES phase, held, condemned, signalled

vars == <<phase, held, condemned, signalled>>

Phases == {"gathering", "delivering", "refusing", "killed", "refused"}

Init == phase = "gathering" /\ held = {} /\ condemned = {} /\ signalled = {}

Hold(p) == /\ phase = "gathering"
           /\ held' = held \cup {p}
           /\ UNCHANGED <<phase, condemned, signalled>>

Refuse == /\ phase = "gathering"
          /\ phase' = "refusing"
          /\ UNCHANGED <<held, condemned, signalled>>

Condemn == /\ phase = "gathering"
           /\ phase' = "delivering"
           /\ condemned' \in SUBSET Proc
           /\ UNCHANGED <<held, signalled>>

Signal(p) == /\ phase = "delivering" /\ p \in condemned
             /\ condemned' = condemned \ {p}
             /\ signalled' = signalled \cup {p}
             /\ UNCHANGED <<phase, held>>

PassOver(p) == /\ phase = "delivering" /\ p \in condemned
               /\ condemned' = condemned \ {p}
               /\ UNCHANGED <<phase, held, signalled>>

Release(p) == /\ phase \in {"refusing", "delivering"} /\ p \in held
              /\ p \notin condemned
              /\ held' = held \ {p}
              /\ UNCHANGED <<phase, condemned, signalled>>

Conclude == /\ condemned = {}
            /\ \/ phase = "delivering" /\ phase' = "killed"
               \/ phase = "refusing" /\ phase' = "refused"
            /\ UNCHANGED <<held, condemned, signalled>>

Next == \/ \E p \in Proc : Hold(p) \/ Signal(p) \/ PassOver(p) \/ Release(p)
        \/ Refuse \/ Condemn \/ Conclude
Spec == Init /\ [][Next]_vars
=============================================================================
