---------------------------- MODULE ProcessLife ----------------------------
(***************************************************************************)
(* What the process table promises to programs, without a scheduler,       *)
(* signals or sleeping: slots are born by fork, die by exit and are given  *)
(* back when their parent collects them; the children of a dead process    *)
(* belong to Root.  Module Process implements this.                        *)
(***************************************************************************)
CONSTANTS
    Slots,      \* the process table
    Root,       \* the slot of init, in Slots
    NoParent    \* no slot

VARIABLES
    life,       \* "free", "live" or "zombie"
    parent      \* the slot that may collect the process

Init ==
    /\ life = [p \in Slots |-> IF p = Root THEN "live" ELSE "free"]
    /\ parent = [p \in Slots |-> NoParent]

Fork(p, c) ==
    /\ life[p] = "live" /\ life[c] = "free"
    /\ life' = [life EXCEPT ![c] = "live"]
    /\ parent' = [parent EXCEPT ![c] = p]

Exit(p) ==
    /\ p # Root /\ life[p] = "live"
    /\ life' = [life EXCEPT ![p] = "zombie"]
    /\ parent' = [c \in Slots |-> IF parent[c] = p THEN Root ELSE parent[c]]

Reap(p, c) ==
    /\ life[p] = "live" /\ life[c] = "zombie" /\ parent[c] = p
    /\ life' = [life EXCEPT ![c] = "free"]
    /\ parent' = [parent EXCEPT ![c] = NoParent]

Next == \E p, c \in Slots : Fork(p, c) \/ Exit(p) \/ Reap(p, c)

Spec == Init /\ [][Next]_<<life, parent>>
=============================================================================
