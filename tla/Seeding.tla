------------------------------ MODULE Seeding ------------------------------
(***************************************************************************)
(* apps/blog/prisma/seed.ts and apps/ecommerce/prisma/seed.ts, started by  *)
(* hand: skip when one table has rows, else insert every table in one      *)
(* transaction.  The rows come from a fixed seed, so two seeders insert    *)
(* the same keys: the second waits for the first and is then refused.      *)
(***************************************************************************)
EXTENDS Integers, Sequences

CONSTANT Seeders

(* The order of the inserts, the table that is counted, the foreign keys.  *)
Tables ==
    [blog |-> <<"Author", "Tag", "Post", "PostTag", "Comment">>,
     ecommerce |-> <<"Category", "Customer", "Product", "Order", "OrderItem", "Review">>]

Counted == [blog |-> "Post", ecommerce |-> "Product"]

Parents ==
    [Post |-> {"Author"}, PostTag |-> {"Post", "Tag"}, Comment |-> {"Post"},
     Product |-> {"Category"}, Order |-> {"Customer"},
     OrderItem |-> {"Order", "Product"}, Review |-> {"Product", "Customer"}]

VARIABLES
    app,
    stored,     \* tables with committed rows
    phase,      \* of a seeder
    inserted    \* how many tables its open transaction has inserted

seedVars == <<app, stored, phase, inserted>>

Table(i) == Tables[app][i]
AllTables == {Table(i) : i \in 1..Len(Tables[app])}
ParentsOf(t) == IF t \in DOMAIN Parents THEN Parents[t] ELSE {}

SeedInit ==
    /\ app \in DOMAIN Tables
    /\ stored = {}
    /\ phase = [p \in Seeders |-> "idle"]
    /\ inserted = [p \in Seeders |-> 0]

To(p, next) == phase[p] # next /\ phase' = [phase EXCEPT ![p] = next]

CountRowsFirst(p) ==
    /\ phase[p] = "idle"
    /\ To(p, IF Counted[app] \in stored THEN "skipped" ELSE "inserting")
    /\ UNCHANGED <<app, stored, inserted>>

NextTable(p) == inserted[p] + 1
Inserting(p) == phase[p] = "inserting" /\ inserted[p] < Len(Tables[app])

(* The unique keys of a row another open transaction inserted: it waits.   *)
Waits(p) == \E q \in Seeders \ {p} : inserted[q] >= NextTable(p)

Refused(p) ==
    \/ Table(NextTable(p)) \in stored
    \/ ~ParentsOf(Table(NextTable(p))) \subseteq stored \union {Table(i) : i \in 1..inserted[p]}

(* One statement after the other instead of prisma.$transaction.           *)
Insert_Autocommit(p) ==
    /\ Inserting(p)
    /\ ~Waits(p) /\ ~Refused(p)
    /\ inserted' = [inserted EXCEPT ![p] = NextTable(p)]
    /\ stored' = stored \union {Table(NextTable(p))}
    /\ UNCHANGED <<app, phase>>

Insert(p) ==
    /\ Inserting(p)
    /\ ~Waits(p) /\ ~Refused(p)
    /\ inserted' = [inserted EXCEPT ![p] = NextTable(p)]
    /\ UNCHANGED <<app, stored, phase>>

Rollback(p) ==
    /\ To(p, "failed")
    /\ inserted' = [inserted EXCEPT ![p] = 0]
    /\ UNCHANGED <<app, stored>>

Refuse(p) == Inserting(p) /\ ~Waits(p) /\ Refused(p) /\ Rollback(p)

(* The process is killed or loses the database.                            *)
Interrupted(p) == phase[p] = "inserting" /\ Rollback(p)

Commit(p) ==
    /\ phase[p] = "inserting" /\ inserted[p] = Len(Tables[app])
    /\ stored' = stored \union {Table(i) : i \in 1..inserted[p]}
    /\ inserted' = [inserted EXCEPT ![p] = 0]
    /\ To(p, "seeded")
    /\ UNCHANGED app

(* It is run again.                                                        *)
Rerun(p) ==
    /\ phase[p] \in {"seeded", "skipped", "failed"}
    /\ To(p, "idle")
    /\ UNCHANGED <<app, stored, inserted>>

SeedNext ==
    \E p \in Seeders :
       \/ CountRowsFirst(p) \/ Insert(p) \/ Refuse(p)
       \/ Interrupted(p) \/ Commit(p) \/ Rerun(p)

SeedSpec == SeedInit /\ [][SeedNext]_seedVars

-----------------------------------------------------------------------------

(* One counted table stands for all: a seeder that skips, however the runs *)
(* before it ended and whoever runs beside it, finds the data complete;    *)
(* and there is never a part of it.                                        *)
SkippedMeansComplete ==
    /\ \A p \in Seeders : phase[p] = "skipped" => stored = AllTables
    /\ stored # {} => stored = AllTables
=============================================================================
