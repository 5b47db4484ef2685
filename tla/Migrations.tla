----------------------------- MODULE Migrations -----------------------------
(***************************************************************************)
(* `alembic upgrade` and `alembic downgrade` against a database in use.    *)
(* All the revisions of one command run in one transaction, statement by   *)
(* statement, while the release in service goes on writing to whatever is  *)
(* not locked; a failure or a lost process rolls all of it back.  Most     *)
(* revisions read no row and are one step; 0008, which replaces a table,   *)
(* and the way down through 0004, which narrows a check, are several, with *)
(* writers between them.                                                   *)
(***************************************************************************)
EXTENDS Revisions

CONSTANTS
    Targets,     \* the revisions a command may name
    Rows         \* the rows the release in service may write, [table, id, value]

VARIABLES
    schema,      \* the committed catalogue
    revision,    \* the committed alembic_version
    rows,        \* the committed rows
    job,         \* the migration under way, or Idle
    outcome,     \* how the last one ended, and what was written under it
    owed,        \* ghost: what was written and never deleted, dropped tables apart
    exposed      \* ghost: the rows written or deleted inside a committed window

vars == <<schema, revision, rows, job, outcome, owed, exposed>>

RowTables == {"document", "document_chunk", "message"}

ASSUME MigrationsAssumption ==
    /\ Targets \subseteq 0..HeadRevision
    /\ \A r \in Rows :
         r = [table |-> r.table, id |-> r.id, value |-> r.value] /\ r.table \in RowTables

Idle == [stage |-> "idle", exclusive |-> {}, shared |-> {}]

RowsOf(t) == {r \in rows : r.table = t}
Name(r) == <<r.table, r.id>>

\* What the columns of a row's table let it hold: a width, or a word of the list.
Accepts(s, r) ==
    /\ r.table \in Tables(s)
    /\ \A f \in s : f[1] = "width" /\ f[2] = r.table => f[4] = r.value
    /\ \A f \in s :
         /\ f[1] = "words" /\ f[2] = r.table
         /\ f[3] \in {"file_type", "role"}
         => r.value \in f[4]

\* What the transaction sees: its own version of the tables it has rewritten.
Seen(t) == IF t \in DOMAIN job.view THEN job.view[t] ELSE RowsOf(t)

Init ==
    /\ schema = {} /\ revision = 0 /\ rows = {} /\ job = Idle
    /\ outcome = [end |-> "none", overlap |-> {}]
    /\ owed = {} /\ exposed = {}

----------------------------------------------------------------------------
(* The release in service.  Its statements wait for the locks the          *)
(* migration holds: an insert also for those of the tables its foreign     *)
(* keys point to.                                                          *)

Unlocked(t) == t \notin job.exclusive \cup job.shared
KeysReadable(t) ==
    \A f \in Kind(schema, "reference") : f[2] = t => f[4] \notin job.exclusive

\* A write between two statements that trust each other: what the ghosts remember.
InWindow(t) ==
    \/ job.stage = "reclassified" /\ t = "document"
    \/ job.stage \in {"counted", "checked", "staged"} /\ t = "document_chunk"
Overlapping(r) ==
    IF InWindow(r.table) THEN [job EXCEPT !.overlap = @ \cup {Name(r)}] ELSE job

Write(r) ==
    /\ Accepts(schema, r)
    /\ \A other \in rows : Name(other) # Name(r)
    /\ Unlocked(r.table) /\ KeysReadable(r.table)
    /\ rows' = rows \cup {r}
    /\ owed' = {o \in owed : Name(o) # Name(r)} \cup {r}
    /\ exposed' = exposed \ {Name(r)}
    /\ job' = Overlapping(r)
    /\ UNCHANGED <<schema, revision, outcome>>

\* An ingestion that replaces its document's chunks deletes the old ones.
Delete(r) ==
    /\ r.table = "document_chunk"
    /\ Unlocked(r.table)
    /\ rows' = rows \ {r}
    /\ owed' = {o \in owed : Name(o) # Name(r)}
    /\ job' = Overlapping(r)
    /\ UNCHANGED <<schema, revision, outcome, exposed>>

----------------------------------------------------------------------------
(* The migration: env.py opens one transaction and runs every revision     *)
(* between the committed one and the target in it.                         *)

Start(target) ==
    /\ job = Idle
    /\ target # revision
    /\ job' = [direction |-> IF target > revision THEN "up" ELSE "down", target |-> target,
               at |-> revision, stage |-> "ready", schema |-> schema, exclusive |-> {},
               shared |-> {}, view |-> <<>>, count |-> 0, carry |-> {}, overlap |-> {}]
    /\ outcome' = [end |-> "none", overlap |-> {}]
    /\ UNCHANGED <<schema, revision, rows, owed, exposed>>

Running(stage) == job # Idle /\ job.stage = stage /\ job.at # job.target

\* The revision being applied.
Current == IF job.direction = "up" THEN job.at + 1 ELSE job.at

\* The revision is done: its schema, the locks its statements took, the tables it rewrote.
Applied(after, rewritten) ==
    [job EXCEPT !.at = IF job.direction = "up" THEN @ + 1 ELSE @ - 1,
                !.stage = "ready", !.schema = after, !.count = 0, !.carry = {},
                !.exclusive = @ \cup Exclusive(job.schema, after),
                !.shared = @ \cup Shared(job.schema, after),
                !.view = [t \in DOMAIN rewritten \cup DOMAIN job.view |->
                            IF t \in DOMAIN rewritten THEN rewritten[t] ELSE job.view[t]]]

\* An exception: everything goes back, and no other session saw any of it.
Abort(cause) ==
    /\ job' = Idle
    /\ outcome' = [end |-> cause, overlap |-> job.overlap]
    /\ UNCHANGED <<schema, revision, rows, owed, exposed>>

StepTo(next) == job' = next /\ UNCHANGED <<schema, revision, rows, outcome, owed, exposed>>

\* ADD CONSTRAINT reads the whole table and refuses a row the new check does not allow.
Validated(after, rewritten) ==
    IF \A t \in DOMAIN rewritten : \A r \in rewritten[t] : Accepts(after, r)
    THEN StepTo(Applied(after, rewritten))
    ELSE Abort("constraint")

HasRowStatements ==
    \/ Current = 8
    \/ job.direction = "down" /\ Current \in {2, 4, 9}

Revise ==
    /\ Running("ready")
    /\ ~HasRowStatements
    /\ StepTo(Applied(IF job.direction = "up" THEN Upgrade(Current, job.schema)
                      ELSE Downgrade(Current, job.schema), <<>>))

\* 0002 down: the drops, in an order that must leave nothing pointing at a dropped table.
DropEverything ==
    /\ Running("ready") /\ job.direction = "down" /\ Current = 2
    /\ IF DropsInOrder(job.schema)
       THEN StepTo(Applied(Downgrade(2, job.schema), [t \in RowTables |-> {}]))
       ELSE Abort("still referenced")

\* 0009 down: dropping the index locks the table, so nothing is written before the swap.
\* Mutant: the narrower check is added to the rows as they are.
StaffStays(r) == r

StaffToAssistant(r) == [r EXCEPT !.value = IF @ = "staff" THEN "assistant" ELSE @]
DropStaffRole ==
    /\ Running("ready") /\ job.direction = "down" /\ Current = 9
    /\ LET after == Downgrade(9, job.schema)
       IN  Validated(after, [t \in {"message"} |-> {StaffToAssistant(r) : r \in Seen(t)}])

\* 0004 down: the update takes the rows it finds, the swap locks the table.
MdxToMd(r) == [r EXCEPT !.value = IF @ = "mdx" THEN "md" ELSE @]
ReclassifyMdx ==
    /\ Running("ready") /\ job.direction = "down" /\ Current = 4
    /\ StepTo([job EXCEPT !.stage = "reclassified", !.carry = Seen("document")])
NarrowFileTypes ==
    /\ Running("reclassified")
    /\ LET after == Downgrade(4, job.schema)
           table == {MdxToMd(r) : r \in job.carry} \cup (Seen("document") \ job.carry)
       IN  Validated(after, [t \in {"document"} |-> table])

----------------------------------------------------------------------------
(* 0008, both ways: count, stage, drop, create, copy back.  Only the drop  *)
(* locks the table.                                                        *)

\* Mutant: one chunk is not worth staging.
CarriesSeveral(count) == count > 1

Carries(count) == count > 0

CountChunks ==
    /\ Running("ready") /\ Current = 8
    /\ StepTo([job EXCEPT !.stage = "counted", !.count = Cardinality(Seen("document_chunk"))])

\* Down: a width the old table cannot hold stops everything.
CheckWidths ==
    /\ Running("counted") /\ job.direction = "down" /\ Carries(job.count)
    /\ IF \E r \in Seen("document_chunk") : r.value # LegacyDimension
       THEN Abort("width")
       ELSE StepTo([job EXCEPT !.stage = "checked"])

StageChunks ==
    /\ Running(IF job.direction = "up" THEN "counted" ELSE "checked") /\ Carries(job.count)
    /\ StepTo([job EXCEPT !.stage = "staged", !.carry = Seen("document_chunk")])

\* The drop, and with the table locked the rest: a staged row of another width fails the
\* cast down, and only the way up counts what it has put back.
ReplaceChunks ==
    /\ \/ Running("counted") /\ ~Carries(job.count)
       \/ Running("staged")
    /\ LET after == IF job.direction = "up" THEN Upgrade(8, job.schema)
                    ELSE Downgrade(8, job.schema)
       IN  IF job.direction = "up" /\ Cardinality(job.carry) # job.count THEN Abort("mismatch")
           ELSE IF \E r \in job.carry : ~Accepts(after, r) THEN Abort("cast")
           ELSE StepTo([Applied(after, [t \in {"document_chunk"} |-> job.carry]) EXCEPT
                          !.exclusive = @ \cup {"document_chunk", "document", "chatbot",
                                                "organization"}])

----------------------------------------------------------------------------

Commit ==
    /\ job # Idle /\ job.at = job.target
    /\ schema' = job.schema
    /\ revision' = job.at
    /\ rows' = UNION {Seen(t) : t \in RowTables}
    /\ owed' = {o \in owed : o.table \in Tables(job.schema)}
    /\ exposed' = {x \in exposed \cup job.overlap : x[1] \in Tables(job.schema)}
    /\ outcome' = [end |-> "committed", overlap |-> job.overlap]
    /\ job' = Idle

\* The container is stopped, or the connection is lost.
Crash == job # Idle /\ Abort("crashed")

Migrate ==
    \/ \E target \in Targets : Start(target)
    \/ Revise \/ DropEverything \/ DropStaffRole \/ ReclassifyMdx \/ NarrowFileTypes
    \/ CountChunks \/ CheckWidths \/ StageChunks \/ ReplaceChunks
    \/ Commit \/ Crash

Next ==
    \/ \E r \in Rows : Write(r)
    \/ \E r \in rows : Delete(r)
    \/ Migrate

Spec == Init /\ [][Next]_vars

----------------------------------------------------------------------------
(* Properties. *)

\* The schema each revision stands for: what the upgrades make of an empty database.
SchemaAt ==
    LET s1 == Up1({})    s2 == Up2(s1)    s3 == Up3(s2)    s4 == Up4(s3)    s5 == Up5(s4)
        s6 == Up6(s5)    s7 == Up7(s6)    s8 == Up8(s7)    s9 == Up9(s8)    s10 == Up10(s9)
        s11 == Up11(s10) s12 == Up12(s11) s13 == Up13(s12) s14 == Up14(s13) s15 == Up15(s14)
    IN  <<{}, s1, s2, s3, s4, s5, s6, s7, s8, s9, s10, s11, s12, s13, s14, s15>>

\* A downgrade returns exactly the schema the upgrade found, whatever sequence of commands,
\* refusals and crashes led there (0013: "restored on the way back down so a downgrade returns
\* the schema it found"): the committed catalogue is a function of alembic_version, the
\* extensions 0001 leaves behind apart.  CI upgrades an empty database and never goes down.
SchemaOfRevision ==
    job = Idle => schema \ Extensions = SchemaAt[revision + 1] \ Extensions

Model == INSTANCE Models

\* env.py hides from the comparison what no model can describe.
IncludeObject(f) == f[1] \notin {"extension", "hnsw", "partition", "policy"}

\* At the last revision the database is what app/models declares, the ON DELETE rules and the
\* CHECK constraints included, and the tables with a policy are TENANT_SCOPED_TABLES with
\* their partitions.
HeadIsModels ==
    job = Idle /\ revision = HeadRevision =>
        /\ {f \in schema : IncludeObject(f)} = Model!Metadata
        /\ Guarded(schema) =
             UNION {{t} \cup PartitionsOf(schema, t) : t \in Model!TENANT_SCOPED_TABLES}

\* From 0003 on no committed schema has a table, or a partition, that holds an organisation's
\* rows without a policy: not the staging table of 0008 either, which the message of its
\* error says is left in place.
TenantTablesGuarded ==
    job = Idle /\ revision >= 3 =>
        \A t \in Tables(schema) :
            t # "organization" => {t} \cup PartitionsOf(schema, t) \subseteq Guarded(schema)

\* What a deletion takes with it, at every revision: an organisation or a chatbot everything
\* that is theirs, a document its chunks, a conversation its messages and tickets but no
\* note about the visitor, and a colleague nothing.
DeletionReach ==
    job = Idle /\ revision >= 2 =>
        LET owners(c) == {f[2] : f \in {g \in Kind(schema, "column") : g[3] = c}}
        IN  /\ Reached(schema, "organization") = Tables(schema)
            /\ Reached(schema, "chatbot") = {"chatbot"} \cup owners("chatbot_id")
            /\ Reached(schema, "document") = {"document", "document_chunk"}
            /\ Reached(schema, "conversation") = {"conversation"} \cup owners("conversation_id")
            /\ Reached(schema, "app_user") = {"app_user"}

\* 0008 calls losing rows unacceptable ("no reason to write a migration that loses rows").
\* A committed row is lost, or a deleted one comes back, only if it was written or deleted
\* between the statements of a migration that committed, while the release in service was
\* still up; and the value of a row changes only as 0004 and 0009 say on the way down.
Same(o, r) ==
    /\ Name(o) = Name(r)
    /\ \/ o.value = r.value
       \/ <<o.value, r.value>> \in {<<"mdx", "md">>, <<"staff", "assistant">>}
LossOnlyInTheWindow ==
    /\ \A o \in owed : Name(o) \in exposed \/ \E r \in rows : Same(o, r)
    /\ \A r \in rows : Name(r) \in exposed \/ \E o \in owed : Same(o, r)

\* Fails.  The same without the window (0008: "no reason to write a migration that loses rows").
NothingLost == \A o \in owed : \E r \in rows : Same(o, r)

\* A command fails for a cause: somebody wrote under it, or a chunk has a width the old table
\* cannot hold.  With the writers stopped no migration contradicts its own checks, up or down.
FailsForACause ==
    /\ outcome.end # "still referenced"
    /\ outcome.end \in {"mismatch", "cast", "constraint"} => outcome.overlap # {}

----------------------------------------------------------------------------
(***************************************************************************)
(* What makes the last two inductive.  Of a schema no more is needed than  *)
(* this: which of the tables with rows are there and what they accept,     *)
(* that none of them is a partition, and that what references another      *)
(* table is dropped before it.                                             *)
(***************************************************************************)

\* The tables of later revisions that reference others.
LaterTables(n) ==
    {p[2] : p \in {q \in {<<5, "invitation">>, <<7, "chatbot_ai_config">>, <<9, "ticket">>,
                          <<12, "memory_entry">>, <<14, "chatbot_usage_period">>} : q[1] <= n}}

DroppedBefore(t, u) ==
    \E i, j \in 1..Len(DropOrder) : i < j /\ t = DropOrder[i] /\ u = DropOrder[j]

FileTypes(n) == IF n < 4 THEN {"pdf", "docx", "md", "txt"} ELSE {"pdf", "docx", "md", "mdx", "txt"}
Roles(n) == IF n < 9 THEN {"user", "assistant"} ELSE {"user", "assistant", "staff"}

SchemaInv(s, n) ==
    /\ n < 2 => Tables(s) \cap RowTables = {}
    /\ n >= 2 =>
         /\ RowTables \subseteq Tables(s)
         /\ OneOf("document", "file_type", FileTypes(n)) \subseteq s
         /\ OneOf("message", "role", Roles(n)) \subseteq s
    /\ \A f \in s :
         /\ f[1] = "partition" => f[2] \notin RowTables
         /\ f[1] = "reference" => f[2] \in LaterTables(n) \/ DroppedBefore(f[2], f[4])
         /\ f[1] = "width" => f[2] \notin {"document", "message"}
         /\ f[1] = "words" /\ f[2] \in {"document", "message"} /\ f[3] \in {"file_type", "role"} =>
               \/ f \in OneOf("document", "file_type", FileTypes(n))
               \/ f \in OneOf("message", "role", Roles(n))

\* A set of rows of one table.
RowsInv(R, t) ==
    /\ IsFiniteSet(R)
    /\ \A r \in R : r = [table |-> t, id |-> r.id, value |-> r.value]
    /\ \A r, q \in R : Name(r) = Name(q) => r = q

\* Between the rows before and the rows after no other is lost or comes back.
Faithful(before, after, names) ==
    /\ \A o \in before : Name(o) \in names \/ \E r \in after : Same(o, r)
    /\ \A r \in after : Name(r) \in names \/ \E o \in before : Same(o, r)

\* What the transaction sees is what is committed, but for what it has rewritten itself, and
\* that is locked or gone.
ViewInv ==
    /\ DOMAIN job.view \subseteq RowTables
    /\ \A f \in schema \cup job.schema : f[2] \notin job.exclusive => f \in schema \cap job.schema
    /\ \A t \in RowTables :
         /\ RowsInv(Seen(t), t)
         /\ \A r \in Seen(t) : Accepts(job.schema, r)
         /\ IF t \in Tables(job.schema)
            THEN /\ t \in DOMAIN job.view => t \in job.exclusive
                 /\ Faithful(RowsOf(t), Seen(t), job.overlap)
            ELSE /\ t \in Tables(schema) => t \in DOMAIN job.view /\ job.direction = "down"
                 /\ t \in DOMAIN job.view => job.view[t] = {} /\ job.direction = "down"

\* What 0008 has counted, checked and staged, and what 0004 is reclassifying, is what is there
\* but for what has been written since.
StageInv ==
    LET chunks == Seen("document_chunk")
        at8 == Current = 8 /\ job.at # job.target
    IN  /\ job.stage = "ready" => job.carry = {} /\ job.count = 0
        /\ job.stage \in {"counted", "checked", "staged"} =>
             /\ at8
             /\ job.overlap = {} => job.count = Cardinality(chunks)
        /\ job.stage \in {"counted", "checked"} =>
             /\ job.carry = {}
             /\ ~Carries(job.count) => Faithful(chunks, {}, job.overlap)
        /\ job.stage \in {"checked", "staged"} /\ job.direction = "down" /\ job.overlap = {} =>
             \A r \in chunks : r.value = LegacyDimension
        /\ job.stage = "staged" =>
             /\ RowsInv(job.carry, "document_chunk")
             /\ Faithful(chunks, job.carry, job.overlap)
             /\ job.overlap = {} => job.carry = chunks
        /\ job.stage = "reclassified" =>
             /\ job.direction = "down" /\ job.at = 4 /\ job.at # job.target
             /\ job.carry \subseteq Seen("document")
             /\ job.overlap = {} => job.carry = Seen("document")

JobInv ==
    /\ job = [direction |-> job.direction, target |-> job.target, at |-> job.at,
              stage |-> job.stage, schema |-> job.schema, exclusive |-> job.exclusive,
              shared |-> job.shared, view |-> job.view, count |-> job.count,
              carry |-> job.carry, overlap |-> job.overlap]
    /\ job.direction \in {"up", "down"} /\ job.target \in 0..HeadRevision /\ job.at \in 0..HeadRevision
    /\ job.stage \in {"ready", "counted", "checked", "staged", "reclassified"}
    /\ job.count \in Nat
    /\ IF job.direction = "up" THEN job.at <= job.target ELSE job.target <= job.at
    /\ SchemaInv(job.schema, job.at)
    /\ ViewInv
    /\ StageInv

MigrationsInv ==
    /\ revision \in 0..HeadRevision
    /\ SchemaInv(schema, revision)
    /\ \A t \in RowTables : RowsInv(RowsOf(t), t)
    /\ \A r \in rows : r.table \in RowTables /\ Accepts(schema, r)
    /\ \A o \in owed : o.table \in RowTables
    /\ LossOnlyInTheWindow
    /\ FailsForACause
    /\ job = Idle \/ JobInv
=============================================================================
