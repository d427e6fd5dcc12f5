---------------------------- MODULE ContentStore ----------------------------
(***************************************************************************)
(* What a content-addressed directory promises to whoever mounts a file    *)
(* from it by digest: an entry appears whole, in one step, and is never    *)
(* changed or replaced; one that has been made durable survives a power    *)
(* failure.  A damaged entry stays as it is until an operator removes it.  *)
(***************************************************************************)
CONSTANTS Artifact,   \* the digests the lock names
          Damaged     \* those whose entry does not have its digest at first

VARIABLES entry,      \* entry[a]: "absent", "whole" or "bad"
          durable     \* artifacts whose directory entry is on the disk

csvars == <<entry, durable>>

Init == /\ entry = [a \in Artifact |-> IF a \in Damaged THEN "bad" ELSE "absent"]
        /\ durable = Damaged

Put(a) == /\ entry[a] = "absent"
          /\ entry' = [entry EXCEPT ![a] = "whole"]
          /\ UNCHANGED durable

Keep == /\ durable' = {a \in Artifact : entry[a] # "absent"}
        /\ UNCHANGED entry

Lose(lost) == /\ lost \cap durable = {}
              /\ entry' = [a \in Artifact |-> IF a \in lost THEN "absent" ELSE entry[a]]
              /\ durable' = {a \in Artifact : entry'[a] # "absent"}

Remove(a) == /\ entry[a] = "bad"
             /\ entry' = [entry EXCEPT ![a] = "absent"]
             /\ durable' = durable \ {a}

Next == \/ \E a \in Artifact : Put(a) \/ Remove(a)
        \/ Keep
        \/ \E lost \in SUBSET Artifact : Lose(lost)

Spec == Init /\ [][Next]_csvars
=============================================================================
