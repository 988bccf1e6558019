--------------------------- MODULE MigratedEntries ---------------------------
(***************************************************************************)
(* What the timecard date migration promises to the owners of time         *)
(* entries: a run converts only the dates it froze, in the revision it     *)
(* froze them; it takes back only a conversion of what it froze, and only  *)
(* while nobody has changed the entry since (a conversion that a user made *)
(* to the same dates meanwhile is taken for the run's); and a run can be   *)
(* cancelled only when none of its conversions is in force, after which it *)
(* changes nothing any more.  DateMigration builds this out of leases,     *)
(* journals and compare-and-swap updates and is shown to implement it.     *)
(***************************************************************************)
EXTENDS Naturals

CONSTANTS
    Runs,         \* migration runs
    Timecards,    \* time entries
    None          \* no revision frozen; no run

VARIABLES
    entry,        \* entry[t]: its date fields, their revision, and whose conversion they are
    frozen,       \* frozen[r][t]: the revision of the legacy dates run r froze, or None
    cancelled     \* the runs that were cancelled

vars == <<entry, frozen, cancelled>>

Values == {"legacy", "canonical", "edited", "absent"}

Entry == [value: Values, revision: Nat, by: Runs \union {None}]

Init == /\ entry \in [Timecards -> [value: Values, revision: {0}, by: {None}]]
        /\ frozen = [r \in Runs |-> [t \in Timecards |-> None]]
        /\ cancelled = {}

\* A user edits, converts or deletes an entry.
UserEdit(t) == /\ entry[t].value # "absent"
               /\ \E v \in Values : entry' = [entry EXCEPT ![t] =
                      [value |-> v, revision |-> @.revision + 1, by |-> None]]
               /\ UNCHANGED <<frozen, cancelled>>

\* A run notes the entries that still have legacy dates, once.
Freeze(r) == /\ r \notin cancelled
             /\ \A t \in Timecards : frozen[r][t] = None
             /\ frozen' = [frozen EXCEPT ![r] = [t \in Timecards |->
                    IF entry[t].value = "legacy" THEN entry[t].revision ELSE None]]
             /\ UNCHANGED <<entry, cancelled>>

Convert(r, t) == /\ r \notin cancelled
                 /\ entry[t].value = "legacy" /\ entry[t].revision = frozen[r][t]
                 /\ entry' = [entry EXCEPT ![t] =
                        [value |-> "canonical", revision |-> @.revision + 1, by |-> r]]
                 /\ UNCHANGED <<frozen, cancelled>>

\* The dates a restore replaces are those a conversion leaves, one revision after the
\* frozen ones.  Whose conversion it was does not matter: a run adopts the same one made
\* by somebody else, and may take it back.  No other dates a user chose are lost.
Restore(r, t) == /\ r \notin cancelled
                 /\ frozen[r][t] # None
                 /\ entry[t].value = "canonical" /\ entry[t].revision = frozen[r][t] + 1
                 /\ entry' = [entry EXCEPT ![t] =
                        [value |-> "legacy", revision |-> @.revision + 1, by |-> None]]
                 /\ UNCHANGED <<frozen, cancelled>>

Cancel(r) == /\ \A t \in Timecards : entry[t].by # r
             /\ cancelled' = cancelled \union {r}
             /\ UNCHANGED <<entry, frozen>>

Next == \/ \E t \in Timecards : UserEdit(t)
        \/ \E r \in Runs : Freeze(r) \/ Cancel(r)
        \/ \E r \in Runs, t \in Timecards : Convert(r, t) \/ Restore(r, t)

Spec == Init /\ [][Next]_vars
==============================================================================
