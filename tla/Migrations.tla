------------------------------ MODULE Migrations ------------------------------
(***************************************************************************)
(* runMigrations: at every start, each migration above the highest version *)
(* recorded is executed and then recorded.  Neither failure stops the      *)
(* start, and the process may die in between.                              *)
(***************************************************************************)
EXTENDS FiniteSetsExt, Integers

CONSTANTS
    Last,     \* number of migrations, 5
    Needs     \* Needs[v]: the migrations without which v fails

ASSUME MigrationAssumption ==
    /\ Last \in Nat
    /\ Needs \in [1..Last -> SUBSET (1..Last)]
    /\ \A v \in 1..Last : Needs[v] \subseteq 1..(v - 1)

VARIABLES
    applied,     \* migrations whose statements took effect
    recorded,    \* versions in handoff_migrations
    boot,        \* where the start stands
    failed       \* those that failed once though nothing stood in their way

migrationVars == <<applied, recorded, boot, failed>>

Down == [pc |-> "down", version |-> 0]

MigrationTypeOK ==
    /\ applied \subseteq 1..Last
    /\ recorded \subseteq 1..Last
    /\ boot \in [pc : {"down", "execute", "record"}, version : 0..(Last + 1)]
    /\ failed \subseteq 1..Last

MigrationInit ==
    /\ applied = {}
    /\ recorded = {}
    /\ boot = Down
    /\ failed = {}

Current == Max(recorded \cup {0})

Boot ==
    /\ boot = Down
    /\ boot' = [pc |-> "execute", version |-> Current + 1]
    /\ UNCHANGED <<applied, recorded, failed>>

RecordFirst ==
    /\ boot.pc = "execute"
    /\ boot.version <= Last
    /\ recorded' = recorded \cup {boot.version}
    /\ \/ applied' = applied \cup {boot.version} /\ boot' = [boot EXCEPT !.pc = "record"]
       \/ UNCHANGED applied /\ boot' = Down
    /\ UNCHANGED failed

\* One that was applied before changes nothing: it says IF NOT EXISTS, or it
\* fails, which is taken for that.
Execute ==
    /\ boot.pc = "execute"
    /\ boot.version <= Last
    /\ \/ /\ Needs[boot.version] \subseteq applied
          /\ applied' = applied \cup {boot.version}
          /\ UNCHANGED failed
       \/ /\ ~(Needs[boot.version] \subseteq applied)
          /\ UNCHANGED <<applied, failed>>
       \/ /\ failed' = failed \cup {boot.version}
          /\ UNCHANGED applied
    /\ boot' = [boot EXCEPT !.pc = "record"]
    /\ UNCHANGED recorded

\* Whether or not the migration or the INSERT succeeded, the next follows.
Record ==
    /\ boot.pc = "record"
    /\ recorded' \in {recorded, recorded \cup {boot.version}}
    /\ boot' = [pc |-> "execute", version |-> boot.version + 1]
    /\ UNCHANGED <<applied, failed>>

\* The process dies or is stopped.
Die ==
    /\ boot # Down
    /\ boot' = Down
    /\ UNCHANGED <<applied, recorded, failed>>

MigrationNext == Boot \/ Execute \/ Record \/ Die

MigrationSpec == MigrationInit /\ [][MigrationNext]_migrationVars

-----------------------------------------------------------------------------
\* A program that has started has its whole schema, wherever earlier starts
\* died and whichever versions failed to be recorded, as long as no migration
\* failed for a reason other than that it was applied (db.go:152-165).
StartedSchemaIsComplete ==
    boot.pc = "execute" /\ boot.version > Last /\ failed = {} => applied = 1..Last
=============================================================================
