--------------------------- MODULE ProjectChildren ---------------------------
(***************************************************************************)
(* What the project fence promises its callers: projects and the timecards *)
(* and tasks that belong to them behave as if a child joined its project,  *)
(* and an empty project were deleted, in one indivisible step.  MongoDB    *)
(* without transactions gives no such step; ProjectChildFence builds it    *)
(* out of single-document updates and is shown to implement this module.   *)
(***************************************************************************)
CONSTANTS
    Projects,    \* project ids
    Children,    \* timecard and task ids
    None         \* a child that is not stored

VARIABLES
    alive,       \* the projects that are stored
    childOf      \* childOf[c]: the projectId field of child c, or None

vars == <<alive, childOf>>

TypeOK == /\ alive \subseteq Projects
          /\ childOf \in [Children -> Projects \union {None}]

Empty(p) == \A c \in Children : childOf[c] # p

Init == /\ alive = Projects
        /\ childOf \in [Children -> Projects \union {None}]

\* A child is created in, or moved into, a stored project.
Join(c, p) == /\ p \in alive
              /\ childOf' = [childOf EXCEPT ![c] = p]
              /\ UNCHANGED alive

\* A timecard or a task is deleted.
Leave(c) == /\ childOf' = [childOf EXCEPT ![c] = None]
            /\ UNCHANGED alive

\* The owner deletes a project that has no timecards and no tasks.
DeleteEmpty(p) == /\ p \in alive
                  /\ Empty(p)
                  /\ alive' = alive \ {p}
                  /\ UNCHANGED childOf

Next == \/ \E c \in Children, p \in Projects : Join(c, p)
        \/ \E c \in Children : Leave(c)
        \/ \E p \in Projects : DeleteEmpty(p)

Spec == Init /\ [][Next]_vars

\* No timecard or task is left behind without its project: the promise of
\* docs/api-v2.md that "a concurrent project delete cannot orphan data".
NoOrphan == \A c \in Children : childOf[c] # None => childOf[c] \in alive
==============================================================================
