------------------------------ MODULE Migrations ------------------------------
(***************************************************************************)
(* A database that is upgraded and downgraded with alembic while the       *)
(* program stores rows in it.                                              *)
(*                                                                         *)
(* alembic/env.py runs all the revisions of one command in one             *)
(* transaction: a statement that fails takes the whole command back.       *)
(***************************************************************************)
EXTENDS Revisions, Naturals, SequencesExt, TLC

CONSTANT
    Written   \* tables the program of this commit stores rows in

VARIABLES
    revision,   \* alembic_version, 0 before the first upgrade
    db          \* tables, enum types, the tables with rows, and the columns
                \* that are null in some of those rows

vars == <<revision, db>>

-----------------------------------------------------------------------------
(* Statements *)

Columns(shape) == shape.required \cup shape.nullable

Users(d, type) ==
    {t \in DOMAIN d.tables : \E c \in DOMAIN d.tables[t].typed : d.tables[t].typed[c] = type}

\* What PostgreSQL refuses.  A unique constraint is never refused: the rows were
\* stored while it was there.
Possible(d, s) ==
    CASE s.op = "create table" ->
           s.table \notin DOMAIN d.tables /\ DOMAIN s.types \cap DOMAIN d.types = {}
      [] s.op = "drop tables" -> s.tables \subseteq DOMAIN d.tables
      [] s.op = "drop types" -> \A type \in s.types : Users(d, type) = {}
      [] s.op = "add labels" -> s.type \in DOMAIN d.types
      [] s.op = "add column" ->
           /\ s.table \in DOMAIN d.tables
           /\ s.column \notin Columns(d.tables[s.table])
           /\ s.required /\ ~s.filled => s.table \notin d.rows
      [] s.op = "require" -> <<s.table, s.column>> \notin d.nulls
      [] OTHER -> s.table \in DOMAIN d.tables

Without(f, keys) == [k \in DOMAIN f \ keys |-> f[k]]

Reshaped(shape, s) ==
    CASE s.op = "add column" ->
           IF s.required THEN [shape EXCEPT !.required = @ \cup {s.column}]
                         ELSE [shape EXCEPT !.nullable = @ \cup {s.column}]
      [] s.op = "require" -> [shape EXCEPT !.required = @ \cup {s.column},
                                           !.nullable = @ \ {s.column}]
      [] s.op = "drop column" -> [shape EXCEPT !.required = @ \ {s.column},
                                               !.nullable = @ \ {s.column}]
      [] s.op = "add unique" -> [shape EXCEPT !.unique = @ \cup {s.columns}]
      [] s.op = "drop unique" -> [shape EXCEPT !.unique = @ \ {s.columns}]
      [] s.op = "fill" -> shape

Nulls(d, s) ==
    CASE s.op = "add column" /\ s.table \in d.rows /\ ~s.filled ->
           d.nulls \cup {<<s.table, s.column>>}
      [] s.op \in {"fill", "drop column"} -> d.nulls \ {<<s.table, s.column>>}
      [] OTHER -> d.nulls

Effect(d, s) ==
    CASE s.op = "create table" -> [d EXCEPT !.tables = (s.table :> s.shape) @@ @,
                                            !.types = s.types @@ @]
      [] s.op = "drop tables" -> [d EXCEPT !.tables = Without(@, s.tables),
                                           !.rows = @ \ s.tables,
                                           !.nulls = {n \in @ : n[1] \notin s.tables}]
      [] s.op = "drop types" -> [d EXCEPT !.types = Without(@, s.types)]
      [] s.op = "add labels" -> [d EXCEPT !.types[s.type] = @ \cup s.labels]
      [] s.op = "insert" -> [d EXCEPT !.rows = @ \cup {s.table}]
      [] OTHER -> [d EXCEPT !.tables[s.table] = Reshaped(@, s), !.nulls = Nulls(d, s)]

Execute(d, s) ==
    IF d.failed \/ ~Possible(d, s) THEN [d EXCEPT !.failed = TRUE] ELSE Effect(d, s)

Executed(d, statements) == FoldLeft(Execute, d, statements)

-----------------------------------------------------------------------------
(* Commands *)

Upgraded(target) == Executed(db, FlattenSeq(SubSeq(Upgrades, revision + 1, target)))

Downgraded(target) ==
    Executed(db, FlattenSeq(Reverse(SubSeq(Downgrades, target + 1, revision))))

\* begin_transaction: all of the command, or none of it.
Committed(d, target) ==
    /\ ~d.failed
    /\ db' = d
    /\ revision' = target

Upgrade(target) == revision < target /\ Committed(Upgraded(target), target)

Downgrade(target) == target < revision /\ Committed(Downgraded(target), target)

AsDeclared(d) == d.tables = DeclaredTables /\ d.types = DeclaredTypes

\* Every statement of the ORM names every column of its table, so the program
\* works on a database that is as it declares it and on no other.
StoreRow(t) ==
    /\ AsDeclared(db)
    /\ t \notin db.rows
    /\ db' = [db EXCEPT !.rows = @ \cup {t}]
    /\ UNCHANGED revision

Init ==
    /\ revision = 0
    /\ db = [tables |-> [t \in {} |-> Untyped], types |-> NoTypes, rows |-> {},
             nulls |-> {}, failed |-> FALSE]

Next ==
    \/ \E target \in 1 .. Latest : Upgrade(target)
    \/ \E target \in 0 .. Latest - 1 : Downgrade(target)
    \/ \E t \in Written : StoreRow(t)

Spec == Init /\ [][Next]_vars

-----------------------------------------------------------------------------
\* A database that has its first two revisions, whatever upgrades, downgrades
\* and rows brought it where it is, is taken by "alembic upgrade head" to what
\* db/models.py declares: no statement of the way up trips over what a way down
\* left behind or over a stored row.  So is a database nothing was ever done to.
\* (Below revision 2 the types 0001 and 0002 leave behind are in the way, which
\* the comment in 0011 says.)
ReachesModels ==
    revision >= 2 \/ DOMAIN db.types = {} =>
        LET upgraded == Upgraded(Latest) IN ~upgraded.failed /\ AsDeclared(upgraded)
===============================================================================
