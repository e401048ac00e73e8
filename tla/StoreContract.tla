---------------------------- MODULE StoreContract ----------------------------
(***************************************************************************)
(* What one store of a response body promises the cache: it ends with      *)
(* nothing, with an on-memory object or with one committed file, and the   *)
(* temporary file it may have used does not outlive it.  These are the     *)
(* steps a put task of module CacheStore takes in the cache directory.     *)
(***************************************************************************)
VARIABLES
  phase,   \* "spool", "spill", or the outcome: "none", "memory", "file"
  temp     \* the temporary file: "absent", "present" or "stuck"

vars == <<phase, temp>>

Init == phase = "spool" /\ temp = "absent"

GiveUp   == phase = "spool" /\ phase' = "none" /\ UNCHANGED temp
InMemory == phase = "spool" /\ phase' = "memory" /\ UNCHANGED temp
Create   == phase = "spool" /\ phase' = "spill" /\ temp' = "present"
Commit   == phase = "spill" /\ phase' = "file" /\ temp' = "absent"

\* The temporary file is removed, or cannot be.
Abort == phase = "spill" /\ phase' = "none" /\ temp' \in {"absent", "stuck"}

\* A temporary file that could be created and not written.
CreateAndAbort ==
  phase = "spool" /\ phase' = "none" /\ temp' \in {"absent", "stuck"}

Next == GiveUp \/ InMemory \/ Create \/ Commit \/ Abort \/ CreateAndAbort

Spec == Init /\ [][Next]_vars
=============================================================================
