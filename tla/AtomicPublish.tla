--------------------------- MODULE AtomicPublish ---------------------------
(***************************************************************************)
(* What the path APIs and the command line tool's own output code promise, *)
(* without temporary files, buffers or disks: an output path goes from     *)
(* absent to one complete file in a single step, is never replaced, and a  *)
(* call that reported success keeps its output even across a loss of       *)
(* power.  Only a "backend_failure" may leave an output behind             *)
(* (docs/SECURITY_MODEL.md, "File Output Safety").                         *)
(***************************************************************************)
CONSTANTS Op, Output, Foreign, NoFile, None

VARIABLES
    visible,    \* what a reader finds at each output path: one call's complete file,
                \* a foreign file or nothing
    outcome     \* what each call has reported

Errors == {"invalid_input", "invalid_packet", "authentication_failed", "backend_failure"}

Init ==
    /\ visible = [o \in Output |-> NoFile]
    /\ outcome = [p \in Op |-> None]

Published(p) == \E o \in Output : visible[o] = p

Publish(p, o) ==
    /\ outcome[p] = None
    /\ ~Published(p)
    /\ visible[o] = NoFile
    /\ visible' = [visible EXCEPT ![o] = p]
    /\ \/ outcome' = outcome
       \/ outcome' = [outcome EXCEPT ![p] = "ok"]

Acknowledge(p) ==
    /\ outcome[p] = None
    /\ Published(p)
    /\ \E r \in {"ok", "backend_failure"} : outcome' = [outcome EXCEPT ![p] = r]
    /\ UNCHANGED visible

Refuse(p) ==
    /\ outcome[p] = None
    /\ ~Published(p)
    /\ \E e \in Errors : outcome' = [outcome EXCEPT ![p] = e]
    /\ UNCHANGED visible

ForeignCreate(o) ==
    /\ visible[o] = NoFile
    /\ visible' = [visible EXCEPT ![o] = Foreign]
    /\ UNCHANGED outcome

\* A power loss takes outputs away, never one whose call reported success.
Lose ==
    /\ \E kept \in SUBSET Output :
          /\ \A p \in Op, o \in Output : outcome[p] = "ok" /\ visible[o] = p => o \in kept
          /\ visible' = [o \in Output |-> IF o \in kept THEN visible[o] ELSE NoFile]
    /\ UNCHANGED outcome

Next ==
    \/ \E p \in Op : Acknowledge(p) \/ Refuse(p) \/ \E o \in Output : Publish(p, o)
    \/ \E o \in Output : ForeignCreate(o)
    \/ Lose

Spec == Init /\ [][Next]_<<visible, outcome>>
=============================================================================
