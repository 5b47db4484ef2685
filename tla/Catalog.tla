------------------------------ MODULE Catalog ------------------------------
(***************************************************************************)
(* The part of a PostgreSQL catalogue the migrations and the models speak  *)
(* of.  A schema is a set of facts, each a tuple whose first field is its  *)
(* kind and whose second is the table it belongs to, so that a statement   *)
(* of DDL adds facts or removes those about a table or a column.  Left     *)
(* out: types and lengths, and the secondary indexes that are not unique,  *)
(* which change no answer.  This is the database, modelled from how        *)
(* alembic/ and app/models/ use it.                                        *)
(***************************************************************************)
EXTENDS Integers, FiniteSets, Sequences

Required(t, names) == {<<"column", t, c, "not null">> : c \in names}
Optional(t, names) == {<<"column", t, c, "null">> : c \in names}

\* DEFAULT clauses kept by the server; `pairs` holds <<column, value>>.
Defaults(t, pairs) == {<<"default", t, p[1], p[2]>> : p \in pairs}

\* FOREIGN KEY clauses with one ON DELETE rule; `pairs` holds <<column, table>>.
References(t, rule, pairs) == {<<"reference", t, p[1], p[2], rule>> : p \in pairs}

Unique(t, columns) == {<<"unique", t, columns, "always">>}
UniqueWhere(t, columns, condition) == {<<"unique", t, columns, condition>>}

\* The two shapes of CHECK this schema has: a list of words, and a range.
OneOf(t, c, words) == {<<"words", t, c, words>>}
Between(t, c, least, most) == {<<"range", t, c, least, most>>}

\* One policy per table, enabled together with row-level security.
Policy(t) == {<<"policy", t>>}

\* PARTITION OF t: a table in its own right, which inherits t's columns and constraints.
Partition(t, p, width) == {<<"partition", p, t, width>>}

Table(t, key) == {<<"table", t>>, <<"primary", t, key>>}

----------------------------------------------------------------------------
(* Readings of a schema. *)

Kind(schema, k) == {f \in schema : f[1] = k}
Tables(schema) == {f[2] : f \in Kind(schema, "table")}
PartitionsOf(schema, t) == {f[2] : f \in {g \in Kind(schema, "partition") : g[3] = t}}
Guarded(schema) == {f[2] : f \in Kind(schema, "policy")}

\* Whether fact f is about column c of table t, alone or in a key.
Mentions(f, t, c) ==
    /\ f[2] = t
    /\ \/ f[1] \in {"column", "default", "reference", "words", "range", "width"} /\ f[3] = c
       \/ f[1] \in {"primary", "unique"} /\ c \in f[3]

\* The tables a DELETE on t removes rows from: t, and what references it with CASCADE.
Reached(schema, t) ==
    LET step[S \in SUBSET Tables(schema)] ==
          LET wider == S \cup {f[2] : f \in {g \in Kind(schema, "reference") :
                                                g[4] \in S /\ g[5] = "CASCADE"}}
          IN  IF wider = S THEN S ELSE step[wider]
    IN  step[{t}]

----------------------------------------------------------------------------
(* Statements. *)

\* DROP TABLE takes the partitions, the constraints and the policies with it.
DropTable(schema, t) ==
    LET gone == {t} \cup PartitionsOf(schema, t)
    IN  {f \in schema : f[2] \notin gone}

\* Without CASCADE the statement fails while another table still references t.
Droppable(schema, t) ==
    ~ \E f \in Kind(schema, "reference") : f[4] = t /\ f[2] # t

\* DROP COLUMN takes the constraints that mention the column with it.
DropColumn(schema, t, c) == {f \in schema : ~Mentions(f, t, c)}

\* DROP CONSTRAINT of the check a column has.
DropCheck(schema, t, c) ==
    {f \in schema : ~(f[1] \in {"words", "range"} /\ f[2] = t /\ f[3] = c)}

DropPolicy(schema, t) == schema \ Policy(t)

\* Locks: a statement that changes a table holds it exclusively until the transaction ends,
\* and so does dropping a foreign key with the table it points to; creating a foreign key
\* stops the writers of that table and lets its readers (the checks of other keys) pass.
Exclusive(before, after) ==
    {f[2] : f \in (before \ after) \cup (after \ before)}
      \cup {f[4] : f \in Kind(before \ after, "reference")}
Shared(before, after) == {f[4] : f \in Kind(after \ before, "reference")}
=============================================================================
