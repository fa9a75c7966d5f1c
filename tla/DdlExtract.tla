------------------------------ MODULE DdlExtract ------------------------------
(***************************************************************************)
(* The DDL extraction job: python -m sdfb_beam.ddl.cli reads one BigQuery  *)
(* table's metadata and overwrites one _ddl.json, which every launch loads *)
(* as its TableSchema.                                                     *)
(*                                                                         *)
(* The columns of a table, nested ones included, are a function on the     *)
(* paths of their names; order, descriptions, partitioning, clustering and *)
(* storage figures are left out.  The table may be altered at any time.    *)
(* An extraction is a CLI process and the Beam job it waits for: with the  *)
(* DirectRunner both live in one process and the file is on its disk, with *)
(* the DataflowRunner the job runs on without the CLI, its bundle is       *)
(* retried, and the file is an object that appears when it is closed.      *)
(***************************************************************************)
EXTENDS Integers, Sequences, FiniteSets

CONSTANTS
  Tables,          \* what the table may look like in BigQuery
  Extractions,     \* extraction ids, in the order they are started
  MaxVersion,      \* how often the table may be altered
  Runners,         \* whether extractions are local: TRUE for DirectRunner
  NoLine,          \* a description without a "PRIMARY KEY:" line
  NoFile, Torn     \* no _ddl.json yet; one that was created and not written

VARIABLES
  local,      \* the runner of these extractions
  bq_table,   \* the table now: [version, def]
  ddl_file,   \* what output_path holds
  extraction  \* per id, the CLI, its exit code, the job and what get_table gave

ddlVars == <<local, bq_table, ddl_file, extraction>>

-----------------------------------------------------------------------------
(* BigQuery's side of a table.                                             *)
BQMode == {"REQUIRED", "NULLABLE", "REPEATED"}

BQType == {"STRING", "BYTES", "INTEGER", "INT64", "FLOAT", "FLOAT64", "NUMERIC", "BIGNUMERIC",
           "BOOLEAN", "BOOL", "DATE", "DATETIME", "TIME", "TIMESTAMP", "JSON", "RECORD",
           "STRUCT", "GEOGRAPHY"}

StructTypes == {"RECORD", "STRUCT"}

\* What may follow a type: STRING(n), NUMERIC(p, s), DEFAULT e.
Attributes == {"max_length", "precision", "scale", "default_value_expression"}

Parent(p) == SubSeq(p, 1, Len(p) - 1)
Children(cols, p) == {q \in DOMAIN cols : Len(q) > 1 /\ Parent(q) = p}
TopLevel(cols) == {p[1] : p \in {q \in DOMAIN cols : Len(q) = 1}}

\* Nested columns belong to a RECORD, and a RECORD has some.  A constraint
\* names columns; the words of a description are anybody's.
BqColumns(cols) ==
  \A p \in DOMAIN cols :
    /\ Len(p) > 1 => Parent(p) \in DOMAIN cols /\ cols[Parent(p)].type \in StructTypes
    /\ cols[p].type \in StructTypes => Children(cols, p) # {}

ASSUME TablesAssumption ==
  \A t \in Tables : BqColumns(t.cols) /\ t.constraint \subseteq TopLevel(t.cols)

ASSUME ExtractionAssumption ==
  Extractions \subseteq Nat /\ MaxVersion \in Nat /\ Runners \subseteq BOOLEAN

-----------------------------------------------------------------------------
(* extract_ddl_metadata                                                    *)
ConstraintAttributesNoScale == {"max_length", "precision"}

ConstraintAttributes == {"max_length", "precision", "scale"}

FieldToDict(f) ==
  [type |-> f.type,
   mode |-> f.mode,
   attrs |-> [a \in DOMAIN f.attrs \cap ConstraintAttributes |-> f.attrs[a]]]

\* The paths the recursion visits: only under a RECORD or STRUCT.
VisitedFlat(cols) == {p \in DOMAIN cols : Len(p) = 1}

Visited(cols) == {p \in DOMAIN cols : Len(p) > 1 => cols[Parent(p)].type \in StructTypes}

\* table_constraints first, then the words of the description's line.
PrimaryKeysUnion(t) == t.constraint \cup (IF t.described = NoLine THEN {} ELSE t.described)

PrimaryKeys(t) ==
  IF t.constraint # {} THEN t.constraint
  ELSE IF t.described # NoLine THEN t.described ELSE {}

\* The JSON document; "of" is history, the table it was taken from.
Document(t) ==
  [schema |-> [p \in Visited(t.def.cols) |-> FieldToDict(t.def.cols[p])],
   primary_keys |-> PrimaryKeys(t.def),
   of |-> t]

-----------------------------------------------------------------------------
(* TableSchema.model_validate, and the way back to a BigQuery schema.      *)
FieldLoads(cols, p) ==
  /\ cols[p].type \in BQType
  /\ cols[p].mode \in BQMode
  /\ Children(cols, p) # {} <=> cols[p].type \in StructTypes

Loads(d) ==
  /\ \A p \in DOMAIN d.schema : FieldLoads(d.schema, p)
  /\ d.primary_keys \subseteq TopLevel(d.schema)

IsDocument(f) == f \notin {NoFile, Torn}

Versions == [version : 0..MaxVersion, def : Tables]

ASSUME FilesAssumption ==
  NoFile # Torn /\ NoFile \notin Versions /\ \A t \in Versions : IsDocument(Document(t))

DeriveBqSchema(d) ==
  [p \in DOMAIN d.schema |->
     [type |-> d.schema[p].type,
      mode |-> d.schema[p].mode,
      attrs |-> d.schema[p].attrs]]

-----------------------------------------------------------------------------
IdleExtraction == [cli |-> "idle", code |-> 0, job |-> "none", meta |-> NoFile]

DdlInit ==
  /\ local \in Runners
  /\ bq_table \in [version : {0}, def : Tables]
  /\ ddl_file = NoFile
  /\ extraction = [e \in Extractions |-> IdleExtraction]

\* The owner of the table changes it.
AlterTable ==
  /\ bq_table.version < MaxVersion
  /\ \E t \in Tables : bq_table' = [version |-> bq_table.version + 1, def |-> t]
  /\ UNCHANGED <<local, ddl_file, extraction>>

\* An operator starts main() when the CLI of the previous extraction is back.
StartExtraction(e, skip_connection_test) ==
  /\ extraction[e].cli = "idle"
  /\ \A x \in Extractions : x < e => extraction[x].cli = "ended"
  /\ extraction' = [extraction EXCEPT
       ![e].cli = IF skip_connection_test THEN "waiting" ELSE "connect",
       ![e].job = IF skip_connection_test THEN "extract" ELSE "none"]
  /\ UNCHANGED <<local, bq_table, ddl_file>>

TestConnection(e, ok) ==
  /\ extraction[e].cli = "connect"
  /\ extraction' = IF ok
       THEN [extraction EXCEPT ![e].cli = "waiting", ![e].job = "extract"]
       ELSE [extraction EXCEPT ![e].cli = "ended", ![e].code = 1]
  /\ UNCHANGED <<local, bq_table, ddl_file>>

\* get_table answers; the partition count that follows is best-effort.
GetTable(e) ==
  /\ extraction[e].job = "extract"
  /\ extraction' = [extraction EXCEPT ![e].job = "got", ![e].meta = bq_table]
  /\ UNCHANGED <<local, bq_table, ddl_file>>

\* FileSystems.create truncates a local file at once.
CreateFile(e) ==
  /\ extraction[e].job = "got"
  /\ extraction' = [extraction EXCEPT ![e].job = "writing"]
  /\ ddl_file' = IF local THEN Torn ELSE ddl_file
  /\ UNCHANGED <<local, bq_table>>

CloseFileUnserialized(e) ==
  /\ extraction[e].job = "writing"
  /\ extraction' = [extraction EXCEPT ![e].job = "done"]
  /\ ddl_file' = extraction[e].meta
  /\ UNCHANGED <<local, bq_table>>

CloseFile(e) ==
  /\ extraction[e].job = "writing"
  /\ extraction' = [extraction EXCEPT ![e].job = "done"]
  /\ ddl_file' = Document(extraction[e].meta)
  /\ UNCHANGED <<local, bq_table>>

Working(e) == extraction[e].job \in {"extract", "got", "writing"}

\* get_table (after its own retries), the open or the write raises.
JobFails(e) ==
  /\ Working(e)
  /\ extraction' = [extraction EXCEPT ![e].job = "failed"]
  /\ UNCHANGED <<local, bq_table, ddl_file>>

\* Dataflow runs a failed bundle again from its table reference.
RetryBundle(e) ==
  /\ Working(e)
  /\ ~ local
  /\ extraction' = [extraction EXCEPT ![e].job = "extract"]
  /\ UNCHANGED <<local, bq_table, ddl_file>>

\* Leaving the with block waits for the job.
PipelineReturnsEarly(e) ==
  /\ extraction[e].cli = "waiting"
  /\ extraction' = [extraction EXCEPT
       ![e].cli = "ended", ![e].code = IF extraction[e].job = "failed" THEN 1 ELSE 0]
  /\ UNCHANGED <<local, bq_table, ddl_file>>

PipelineReturns(e) ==
  /\ extraction[e].cli = "waiting"
  /\ extraction[e].job \in {"done", "failed"}
  /\ extraction' = [extraction EXCEPT
       ![e].cli = "ended", ![e].code = IF extraction[e].job = "failed" THEN 1 ELSE 0]
  /\ UNCHANGED <<local, bq_table, ddl_file>>

\* Ctrl+C.  A local job dies with the process; a remote one is not cancelled.
Interrupt(e) ==
  /\ extraction[e].cli = "waiting"
  /\ extraction' = [extraction EXCEPT
       ![e].cli = "ended", ![e].code = 130,
       ![e].job = IF local /\ Working(e) THEN "failed" ELSE @]
  /\ UNCHANGED <<local, bq_table, ddl_file>>

Extract(e) ==
  \/ \E b \in BOOLEAN : StartExtraction(e, b) \/ TestConnection(e, b)
  \/ GetTable(e) \/ CreateFile(e) \/ CloseFile(e)
  \/ JobFails(e) \/ RetryBundle(e) \/ PipelineReturns(e) \/ Interrupt(e)

DdlNext == AlterTable \/ \E e \in Extractions : Extract(e)

DdlSpec == DdlInit /\ [][DdlNext]_ddlVars

-----------------------------------------------------------------------------
DdlTypeOK ==
  /\ local \in BOOLEAN
  /\ bq_table \in Versions
  /\ ddl_file \in {NoFile, Torn} \cup {Document(t) : t \in Versions}
  /\ extraction \in [Extractions -> [cli : {"idle", "connect", "waiting", "ended"},
                                     code : {0, 1, 130},
                                     job : {"none", "extract", "got", "writing", "done", "failed"},
                                     meta : Versions \cup {NoFile}]]

\* The columns of a table, as test_round_trip.py projects them.
CanonicalAttributes == {"max_length", "precision", "scale"}

Canonical(cols) ==
  [p \in DOMAIN cols |->
     [type |-> cols[p].type,
      mode |-> cols[p].mode,
      attrs |-> [a \in DOMAIN cols[p].attrs \cap CanonicalAttributes |-> cols[p].attrs[a]]]]

\* The way BigQuery -> _ddl.json -> TableSchema -> BigQuery schema keeps every
\* column, at any depth, with its type, mode, length, precision and scale, and
\* keeps no more: a default_value_expression, which FieldSchema and
\* derive_bq_field know, is lost in _field_to_dict.
ContractMirrorsTable ==
  IsDocument(ddl_file) => DeriveBqSchema(ddl_file) = Canonical(ddl_file.of.def.cols)

\* Which tables the extractor's "directly consumable" holds for: a supported
\* type everywhere, and no description that names a key that is no column
\* while the table has no constraint of its own.
Consumable(t) ==
  /\ \A p \in DOMAIN t.cols : t.cols[p].type \in BQType /\ t.cols[p].mode \in BQMode
  /\ t.constraint # {} \/ t.described = NoLine \/ t.described \subseteq TopLevel(t.cols)

ConsumableTablesLoad ==
  IsDocument(ddl_file) => (Loads(ddl_file) <=> Consumable(ddl_file.of.def))

\* main() returned 0: the file was written, and it is at least as new as what
\* that extraction read -- unless a later local extraction has truncated it, or
\* the remote job of an earlier, interrupted one has overwritten it.
ExitZeroKeepsContract ==
  \A e \in Extractions :
    extraction[e].cli = "ended" /\ extraction[e].code = 0 =>
      \/ /\ IsDocument(ddl_file)
         /\ ddl_file.of.version >= extraction[e].meta.version
      \/ \E x \in Extractions :
           IF local THEN x > e /\ extraction[x].job \in {"writing", "failed"}
                    ELSE x < e /\ extraction[x].code = 130
==============================================================================
