-------------------------- MODULE DdlExtract_proofs ---------------------------
(* The extraction job for any tables, any number of extractions and versions. *)
EXTENDS DdlExtract, TLAPS

\* What one alteration, one extraction step or a stutter may do.
DdlStep == [DdlNext]_ddlVars

USE ExtractionAssumption, FilesAssumption

-----------------------------------------------------------------------------
(* The documents.                                                           *)

\* Every column of a BigQuery table is visited.
LEMMA AllVisited ==
  ASSUME NEW t \in Tables
  PROVE  Visited(t.cols) = DOMAIN t.cols
BY TablesAssumption DEF Visited, BqColumns

\* The way there and back of ContractMirrorsTable, for one table.
LEMMA RoundTrip ==
  ASSUME NEW t \in Versions
  PROVE  DeriveBqSchema(Document(t)) = Canonical(t.def.cols)
<1>1. t.def \in Tables
  BY DEF Versions
<1>2. Visited(t.def.cols) = DOMAIN t.def.cols
  BY <1>1, AllVisited
<1> DEFINE cols == t.def.cols
           doc == [p \in DOMAIN cols |-> FieldToDict(cols[p])]
<1>3. Document(t).schema = doc
  BY <1>2 DEF Document
<1>4. DOMAIN doc = DOMAIN cols /\ \A p \in DOMAIN cols : doc[p] = FieldToDict(cols[p])
  OBVIOUS
<1>5. ASSUME NEW p \in DOMAIN cols
      PROVE  [type |-> doc[p].type, mode |-> doc[p].mode, attrs |-> doc[p].attrs] =
             [type |-> cols[p].type, mode |-> cols[p].mode,
              attrs |-> [a \in DOMAIN cols[p].attrs \cap CanonicalAttributes |-> cols[p].attrs[a]]]
  BY <1>4 DEF FieldToDict, ConstraintAttributes, CanonicalAttributes
<1> HIDE DEF doc
<1> QED
  BY <1>3, <1>4, <1>5 DEF DeriveBqSchema, Canonical

\* A document loads exactly when its table is consumable.
LEMMA LoadsIffConsumable ==
  ASSUME NEW t \in Versions
  PROVE  Loads(Document(t)) <=> Consumable(t.def)
<1>1. t.def \in Tables
  BY DEF Versions
<1> DEFINE cols == t.def.cols
           doc == Document(t).schema
<1>2. doc = [p \in DOMAIN cols |-> FieldToDict(cols[p])]
  BY <1>1, AllVisited DEF Document
<1>3. DOMAIN doc = DOMAIN cols
  BY <1>2
<1>4. \A p \in DOMAIN cols : doc[p].type = cols[p].type /\ doc[p].mode = cols[p].mode
  BY <1>2 DEF FieldToDict
<1>5. BqColumns(cols) /\ t.def.constraint \subseteq TopLevel(cols)
  BY <1>1, TablesAssumption
<1>6. ASSUME NEW p \in DOMAIN cols
      PROVE  Children(doc, p) # {} <=> doc[p].type \in StructTypes
  <2>1. Children(doc, p) = Children(cols, p)
    BY <1>3 DEF Children
  <2>2. \A q \in Children(cols, p) : cols[p].type \in StructTypes
    BY <1>5 DEF Children, BqColumns
  <2> QED
    BY <1>4, <1>5, <2>1, <2>2 DEF BqColumns
<1>7. TopLevel(doc) = TopLevel(cols)
  BY <1>3 DEF TopLevel
<1>8. (\A p \in DOMAIN doc : FieldLoads(doc, p)) <=>
      \A p \in DOMAIN cols : cols[p].type \in BQType /\ cols[p].mode \in BQMode
  <2> HIDE DEF doc, cols
  <2> QED BY <1>3, <1>4, <1>6 DEF FieldLoads
<1>9. Document(t).primary_keys = PrimaryKeys(t.def)
  BY DEF Document
<1>10. PrimaryKeys(t.def) \subseteq TopLevel(cols) <=>
       \/ t.def.constraint # {}
       \/ t.def.described = NoLine
       \/ t.def.described \subseteq TopLevel(cols)
  BY <1>5 DEF PrimaryKeys
<1> QED
  BY <1>7, <1>8, <1>9, <1>10 DEF Loads, Consumable

-----------------------------------------------------------------------------
(* The extractions.                                                         *)

HasMeta(e) == extraction[e].job \in {"got", "writing", "done"}

Kept(e) ==
  \/ IsDocument(ddl_file) /\ ddl_file.of.version >= extraction[e].meta.version
  \/ \E x \in Extractions :
       IF local THEN x > e /\ extraction[x].job \in {"writing", "failed"}
                ELSE x < e /\ extraction[x].code = 130

\* Extractions are started one after the other, and what an ended one may still
\* be doing; a later one reads later; no other's file replaces a kept one.
DdlInv ==
  /\ DdlTypeOK
  /\ \A x, y \in Extractions :
       y < x /\ extraction[x].cli # "idle" => extraction[y].cli = "ended"
  /\ \A e \in Extractions :
       /\ extraction[e].cli \in {"idle", "connect"} =>
            extraction[e].job = "none" /\ extraction[e].code = 0
       /\ extraction[e].cli = "waiting" => extraction[e].code = 0
       /\ extraction[e].cli = "ended" /\ Working(e) => extraction[e].code = 130 /\ ~ local
       /\ extraction[e].cli = "ended" /\ extraction[e].code = 0 => extraction[e].job = "done"
  /\ \A e \in Extractions : HasMeta(e) =>
       extraction[e].meta \in Versions /\ extraction[e].meta.version <= bq_table.version
  /\ \A x, y \in Extractions :
       /\ y < x /\ HasMeta(x)
       /\ extraction[y].job = "done" /\ extraction[y].code # 130
       => extraction[x].meta.version >= extraction[y].meta.version
  /\ ~ local => ddl_file # Torn
  /\ \A e \in Extractions : extraction[e].job = "done" /\ extraction[e].code # 130 => Kept(e)

ExtractionType ==
  [cli : {"idle", "connect", "waiting", "ended"}, code : {0, 1, 130},
   job : {"none", "extract", "got", "writing", "done", "failed"}, meta : Versions \cup {NoFile}]

LEMMA DdlInitial == DdlInit => DdlInv
<1> SUFFICES ASSUME DdlInit PROVE DdlInv
  OBVIOUS
<1>1. \A e \in Extractions : extraction[e] = IdleExtraction
  BY DEF DdlInit
<1>2. IdleExtraction \in ExtractionType
  BY DEF IdleExtraction, ExtractionType
<1>3. extraction \in [Extractions -> ExtractionType]
  BY <1>2 DEF DdlInit
<1>4. DdlTypeOK
  BY <1>3 DEF DdlInit, DdlTypeOK, ExtractionType, Versions
<1> QED
  BY <1>1, <1>4 DEF DdlInv, DdlInit, IdleExtraction, HasMeta, Working

\* Steps. What the step of extraction e leaves of the others and makes of its own.

LEMMA StartExtractionKeeps ==
  ASSUME DdlInv, NEW e \in Extractions, NEW b \in BOOLEAN, StartExtraction(e, b)
  PROVE  DdlInv'
<1> DEFINE old == extraction[e]
           new == extraction'[e]
<1>1. extraction \in [Extractions -> ExtractionType] /\ bq_table \in Versions /\ local \in BOOLEAN
  BY DEF DdlInv, DdlTypeOK, ExtractionType
<1>2. new.cli \in {"connect", "waiting"} /\ new.code = 0 /\ new.meta = old.meta
        /\ new.job = (IF new.cli = "waiting" THEN "extract" ELSE "none")
  <2>1. old \in ExtractionType /\ old.cli = "idle" /\ old.code = 0
    BY <1>1 DEF StartExtraction, DdlInv
  <2>2. CASE b
    <3>1. new = [old EXCEPT !.cli = "waiting", !.job = "extract"]
      BY <1>1, <2>2 DEF StartExtraction
    <3> HIDE DEF new, old
    <3> QED
      BY <2>1, <3>1 DEF ExtractionType
  <2>3. CASE ~ b
    <3>1. new = [old EXCEPT !.cli = "connect", !.job = "none"]
      BY <1>1, <2>3 DEF StartExtraction
    <3> HIDE DEF new, old
    <3> QED
      BY <2>1, <3>1 DEF ExtractionType
  <2> QED
    BY <2>2, <2>3
<1>3. \A x \in Extractions : x # e => extraction'[x] = extraction[x]
  BY <1>1 DEF StartExtraction
<1>6. extraction' \in [Extractions -> ExtractionType]
  <2>1. old \in ExtractionType
    BY <1>1
  <2>2. [old EXCEPT !.cli = IF b THEN "waiting" ELSE "connect",
                       !.job = IF b THEN "extract" ELSE "none"] \in ExtractionType
    BY <1>1, <2>1 DEF ExtractionType
  <2>3. extraction' = [extraction EXCEPT ![e] = [old EXCEPT !.cli = IF b THEN "waiting" ELSE "connect",
                       !.job = IF b THEN "extract" ELSE "none"]]
    BY DEF StartExtraction
  <2> QED
    BY <1>1, <2>2, <2>3
<1>7. DdlTypeOK'
  BY <1>6 DEF DdlInv, DdlTypeOK, ExtractionType, StartExtraction
<1>8. \A x, y \in Extractions :
        y < x /\ extraction'[x].cli # "idle" => extraction'[y].cli = "ended"
  <2>1. \A x, y \in Extractions :
          y < x /\ extraction[x].cli # "idle" => extraction[y].cli = "ended"
    BY DEF DdlInv
  <2>2. /\ old.cli = "idle" => \A y \in Extractions : y < e => extraction[y].cli = "ended"
        /\ old.cli = "ended" => new.cli = "ended"
        /\ old.cli = "idle" \/ old.cli # "idle"
    BY <1>2 DEF StartExtraction, DdlInv, Working
  <2>3. \A x \in Extractions : x # e => extraction'[x].cli = extraction[x].cli
    BY <1>3
  <2> HIDE DEF old, new
  <2>4. old = extraction[e] /\ new = extraction'[e]
    BY DEF old, new
  <2> QED
    BY <2>1, <2>2, <2>3, <2>4, ExtractionAssumption
<1>9. ASSUME NEW x \in Extractions
      PROVE  /\ extraction'[x].cli \in {"idle", "connect"} =>
                  extraction'[x].job = "none" /\ extraction'[x].code = 0
             /\ extraction'[x].cli = "waiting" => extraction'[x].code = 0
             /\ extraction'[x].cli = "ended" /\ Working(x)' => extraction'[x].code = 130 /\ ~ local'
             /\ extraction'[x].cli = "ended" /\ extraction'[x].code = 0 => extraction'[x].job = "done"
  BY <1>1, <1>2, <1>3 DEF DdlInv, StartExtraction, Working, ExtractionType
<1>10. \A x \in Extractions : HasMeta(x)' =>
         extraction'[x].meta \in Versions /\ extraction'[x].meta.version <= bq_table'.version
  BY <1>1, <1>2, <1>3 DEF DdlInv, StartExtraction, HasMeta, Working, Versions
<1>11. \A x, y \in Extractions :
         /\ y < x /\ HasMeta(x)'
         /\ extraction'[y].job = "done" /\ extraction'[y].code # 130
         => extraction'[x].meta.version >= extraction'[y].meta.version
  BY <1>1, <1>2, <1>3 DEF DdlInv, StartExtraction, HasMeta, Working, Versions
<1>12. ~ local' => ddl_file' # Torn
  BY <1>1 DEF DdlInv, StartExtraction
<1>13. ASSUME NEW x \in Extractions, extraction'[x].job = "done", extraction'[x].code # 130
       PROVE  Kept(x)'
  BY <1>1, <1>2, <1>3, <1>13 DEF DdlInv, Kept, StartExtraction, HasMeta, Working, Versions
<1> QED
  BY <1>7, <1>8, <1>9, <1>10, <1>11, <1>12, <1>13 DEF DdlInv

LEMMA TestConnectionKeeps ==
  ASSUME DdlInv, NEW e \in Extractions, NEW b \in BOOLEAN, TestConnection(e, b)
  PROVE  DdlInv'
<1> DEFINE old == extraction[e]
           new == extraction'[e]
<1>1. extraction \in [Extractions -> ExtractionType] /\ bq_table \in Versions /\ local \in BOOLEAN
  BY DEF DdlInv, DdlTypeOK, ExtractionType
<1>2. new.meta = old.meta
        /\ \/ new.cli = "waiting" /\ new.job = "extract" /\ new.code = 0
           \/ new.cli = "ended" /\ new.job = "none" /\ new.code = 1
  <2>1. old \in ExtractionType /\ old.cli = "connect" /\ old.job = "none" /\ old.code = 0
    BY <1>1 DEF TestConnection, DdlInv
  <2>2. CASE b
    <3>1. new = [old EXCEPT !.cli = "waiting", !.job = "extract"]
      BY <1>1, <2>2 DEF TestConnection
    <3> HIDE DEF new, old
    <3> QED
      BY <2>1, <3>1 DEF ExtractionType
  <2>3. CASE ~ b
    <3>1. new = [old EXCEPT !.cli = "ended", !.code = 1]
      BY <1>1, <2>3 DEF TestConnection
    <3> HIDE DEF new, old
    <3> QED
      BY <2>1, <3>1 DEF ExtractionType
  <2> QED
    BY <2>2, <2>3
<1>3. \A x \in Extractions : x # e => extraction'[x] = extraction[x]
  BY <1>1 DEF TestConnection
<1>6. extraction' \in [Extractions -> ExtractionType]
  <2>1. old \in ExtractionType
    BY <1>1
  <2>2. (IF b THEN [old EXCEPT !.cli = "waiting", !.job = "extract"]
             ELSE [old EXCEPT !.cli = "ended", !.code = 1]) \in ExtractionType
    BY <1>1, <2>1 DEF ExtractionType
  <2>3. extraction' = [extraction EXCEPT ![e] = (IF b THEN [old EXCEPT !.cli = "waiting", !.job = "extract"]
             ELSE [old EXCEPT !.cli = "ended", !.code = 1])]
    BY DEF TestConnection
  <2> QED
    BY <1>1, <2>2, <2>3
<1>7. DdlTypeOK'
  BY <1>6 DEF DdlInv, DdlTypeOK, ExtractionType, TestConnection
<1>8. \A x, y \in Extractions :
        y < x /\ extraction'[x].cli # "idle" => extraction'[y].cli = "ended"
  <2>1. \A x, y \in Extractions :
          y < x /\ extraction[x].cli # "idle" => extraction[y].cli = "ended"
    BY DEF DdlInv
  <2>2. /\ old.cli = "idle" => \A y \in Extractions : y < e => extraction[y].cli = "ended"
        /\ old.cli = "ended" => new.cli = "ended"
        /\ old.cli = "idle" \/ old.cli # "idle"
    BY <1>2 DEF TestConnection, DdlInv, Working
  <2>3. \A x \in Extractions : x # e => extraction'[x].cli = extraction[x].cli
    BY <1>3
  <2> HIDE DEF old, new
  <2>4. old = extraction[e] /\ new = extraction'[e]
    BY DEF old, new
  <2> QED
    BY <2>1, <2>2, <2>3, <2>4, ExtractionAssumption
<1>9. ASSUME NEW x \in Extractions
      PROVE  /\ extraction'[x].cli \in {"idle", "connect"} =>
                  extraction'[x].job = "none" /\ extraction'[x].code = 0
             /\ extraction'[x].cli = "waiting" => extraction'[x].code = 0
             /\ extraction'[x].cli = "ended" /\ Working(x)' => extraction'[x].code = 130 /\ ~ local'
             /\ extraction'[x].cli = "ended" /\ extraction'[x].code = 0 => extraction'[x].job = "done"
  BY <1>1, <1>2, <1>3 DEF DdlInv, TestConnection, Working, ExtractionType
<1>10. \A x \in Extractions : HasMeta(x)' =>
         extraction'[x].meta \in Versions /\ extraction'[x].meta.version <= bq_table'.version
  BY <1>1, <1>2, <1>3 DEF DdlInv, TestConnection, HasMeta, Working, Versions
<1>11. \A x, y \in Extractions :
         /\ y < x /\ HasMeta(x)'
         /\ extraction'[y].job = "done" /\ extraction'[y].code # 130
         => extraction'[x].meta.version >= extraction'[y].meta.version
  BY <1>1, <1>2, <1>3 DEF DdlInv, TestConnection, HasMeta, Working, Versions
<1>12. ~ local' => ddl_file' # Torn
  BY <1>1 DEF DdlInv, TestConnection
<1>13. ASSUME NEW x \in Extractions, extraction'[x].job = "done", extraction'[x].code # 130
       PROVE  Kept(x)'
  BY <1>1, <1>2, <1>3, <1>13 DEF DdlInv, Kept, TestConnection, HasMeta, Working, Versions
<1> QED
  BY <1>7, <1>8, <1>9, <1>10, <1>11, <1>12, <1>13 DEF DdlInv

LEMMA GetTableKeeps ==
  ASSUME DdlInv, NEW e \in Extractions, GetTable(e)
  PROVE  DdlInv'
<1> DEFINE old == extraction[e]
           new == extraction'[e]
<1>1. extraction \in [Extractions -> ExtractionType] /\ bq_table \in Versions /\ local \in BOOLEAN
  BY DEF DdlInv, DdlTypeOK, ExtractionType
<1>2. new.cli = old.cli /\ new.code = old.code /\ new.job = "got" /\ new.meta = bq_table
  BY <1>1 DEF GetTable, ExtractionType
<1>3. \A x \in Extractions : x # e => extraction'[x] = extraction[x]
  BY <1>1 DEF GetTable
<1>6. extraction' \in [Extractions -> ExtractionType]
  <2>1. old \in ExtractionType
    BY <1>1
  <2>2. [old EXCEPT !.job = "got", !.meta = bq_table] \in ExtractionType
    BY <1>1, <2>1 DEF ExtractionType
  <2>3. extraction' = [extraction EXCEPT ![e] = [old EXCEPT !.job = "got", !.meta = bq_table]]
    BY DEF GetTable
  <2> QED
    BY <1>1, <2>2, <2>3
<1>7. DdlTypeOK'
  BY <1>6 DEF DdlInv, DdlTypeOK, ExtractionType, GetTable
<1>8. \A x, y \in Extractions :
        y < x /\ extraction'[x].cli # "idle" => extraction'[y].cli = "ended"
  <2>1. \A x, y \in Extractions :
          y < x /\ extraction[x].cli # "idle" => extraction[y].cli = "ended"
    BY DEF DdlInv
  <2>2. /\ old.cli = "idle" => \A y \in Extractions : y < e => extraction[y].cli = "ended"
        /\ old.cli = "ended" => new.cli = "ended"
        /\ old.cli = "idle" \/ old.cli # "idle"
    BY <1>2 DEF GetTable, DdlInv, Working
  <2>3. \A x \in Extractions : x # e => extraction'[x].cli = extraction[x].cli
    BY <1>3
  <2> HIDE DEF old, new
  <2>4. old = extraction[e] /\ new = extraction'[e]
    BY DEF old, new
  <2> QED
    BY <2>1, <2>2, <2>3, <2>4, ExtractionAssumption
<1>9. ASSUME NEW x \in Extractions
      PROVE  /\ extraction'[x].cli \in {"idle", "connect"} =>
                  extraction'[x].job = "none" /\ extraction'[x].code = 0
             /\ extraction'[x].cli = "waiting" => extraction'[x].code = 0
             /\ extraction'[x].cli = "ended" /\ Working(x)' => extraction'[x].code = 130 /\ ~ local'
             /\ extraction'[x].cli = "ended" /\ extraction'[x].code = 0 => extraction'[x].job = "done"
  BY <1>1, <1>2, <1>3 DEF DdlInv, GetTable, Working, ExtractionType
<1>10. \A x \in Extractions : HasMeta(x)' =>
         extraction'[x].meta \in Versions /\ extraction'[x].meta.version <= bq_table'.version
  BY <1>1, <1>2, <1>3 DEF DdlInv, GetTable, HasMeta, Working, Versions
<1>11. \A x, y \in Extractions :
         /\ y < x /\ HasMeta(x)'
         /\ extraction'[y].job = "done" /\ extraction'[y].code # 130
         => extraction'[x].meta.version >= extraction'[y].meta.version
  BY <1>1, <1>2, <1>3 DEF DdlInv, GetTable, HasMeta, Working, Versions
<1>12. ~ local' => ddl_file' # Torn
  BY <1>1 DEF DdlInv, GetTable
<1>13. ASSUME NEW x \in Extractions, extraction'[x].job = "done", extraction'[x].code # 130
       PROVE  Kept(x)'
  BY <1>1, <1>2, <1>3, <1>13 DEF DdlInv, Kept, GetTable, HasMeta, Working, Versions
<1> QED
  BY <1>7, <1>8, <1>9, <1>10, <1>11, <1>12, <1>13 DEF DdlInv

LEMMA CreateFileKeeps ==
  ASSUME DdlInv, NEW e \in Extractions, CreateFile(e)
  PROVE  DdlInv'
<1> DEFINE old == extraction[e]
           new == extraction'[e]
<1>1. extraction \in [Extractions -> ExtractionType] /\ bq_table \in Versions /\ local \in BOOLEAN
  BY DEF DdlInv, DdlTypeOK, ExtractionType
<1>2. new.cli = old.cli /\ new.code = old.code /\ new.job = "writing" /\ new.meta = old.meta
  BY <1>1 DEF CreateFile, ExtractionType
<1>3. \A x \in Extractions : x # e => extraction'[x] = extraction[x]
  BY <1>1 DEF CreateFile
<1>6. extraction' \in [Extractions -> ExtractionType]
  <2>1. old \in ExtractionType
    BY <1>1
  <2>2. [old EXCEPT !.job = "writing"] \in ExtractionType
    BY <1>1, <2>1 DEF ExtractionType
  <2>3. extraction' = [extraction EXCEPT ![e] = [old EXCEPT !.job = "writing"]]
    BY DEF CreateFile
  <2> QED
    BY <1>1, <2>2, <2>3
<1>7. DdlTypeOK'
  BY <1>6 DEF DdlInv, DdlTypeOK, ExtractionType, CreateFile
<1>8. \A x, y \in Extractions :
        y < x /\ extraction'[x].cli # "idle" => extraction'[y].cli = "ended"
  <2>1. \A x, y \in Extractions :
          y < x /\ extraction[x].cli # "idle" => extraction[y].cli = "ended"
    BY DEF DdlInv
  <2>2. /\ old.cli = "idle" => \A y \in Extractions : y < e => extraction[y].cli = "ended"
        /\ old.cli = "ended" => new.cli = "ended"
        /\ old.cli = "idle" \/ old.cli # "idle"
    BY <1>2 DEF CreateFile, DdlInv, Working
  <2>3. \A x \in Extractions : x # e => extraction'[x].cli = extraction[x].cli
    BY <1>3
  <2> HIDE DEF old, new
  <2>4. old = extraction[e] /\ new = extraction'[e]
    BY DEF old, new
  <2> QED
    BY <2>1, <2>2, <2>3, <2>4, ExtractionAssumption
<1>9. ASSUME NEW x \in Extractions
      PROVE  /\ extraction'[x].cli \in {"idle", "connect"} =>
                  extraction'[x].job = "none" /\ extraction'[x].code = 0
             /\ extraction'[x].cli = "waiting" => extraction'[x].code = 0
             /\ extraction'[x].cli = "ended" /\ Working(x)' => extraction'[x].code = 130 /\ ~ local'
             /\ extraction'[x].cli = "ended" /\ extraction'[x].code = 0 => extraction'[x].job = "done"
  BY <1>1, <1>2, <1>3 DEF DdlInv, CreateFile, Working, ExtractionType
<1>10. \A x \in Extractions : HasMeta(x)' =>
         extraction'[x].meta \in Versions /\ extraction'[x].meta.version <= bq_table'.version
  BY <1>1, <1>2, <1>3 DEF DdlInv, CreateFile, HasMeta, Working, Versions
<1>11. \A x, y \in Extractions :
         /\ y < x /\ HasMeta(x)'
         /\ extraction'[y].job = "done" /\ extraction'[y].code # 130
         => extraction'[x].meta.version >= extraction'[y].meta.version
  BY <1>1, <1>2, <1>3 DEF DdlInv, CreateFile, HasMeta, Working, Versions
<1>12. ~ local' => ddl_file' # Torn
  BY <1>1 DEF DdlInv, CreateFile
<1>13. ASSUME NEW x \in Extractions, extraction'[x].job = "done", extraction'[x].code # 130
       PROVE  Kept(x)'
  BY <1>1, <1>2, <1>3, <1>13 DEF DdlInv, Kept, CreateFile, HasMeta, Working, Versions
<1> QED
  BY <1>7, <1>8, <1>9, <1>10, <1>11, <1>12, <1>13 DEF DdlInv

LEMMA CloseFileKeeps ==
  ASSUME DdlInv, NEW e \in Extractions, CloseFile(e)
  PROVE  DdlInv'
<1> DEFINE old == extraction[e]
           new == extraction'[e]
<1>1. extraction \in [Extractions -> ExtractionType] /\ bq_table \in Versions /\ local \in BOOLEAN
  BY DEF DdlInv, DdlTypeOK, ExtractionType
<1>2. new.cli = old.cli /\ new.code = old.code /\ new.job = "done" /\ new.meta = old.meta
  BY <1>1 DEF CloseFile, ExtractionType
<1>3. \A x \in Extractions : x # e => extraction'[x] = extraction[x]
  BY <1>1 DEF CloseFile
<1>4. extraction[e].meta \in Versions /\ ddl_file' = Document(extraction[e].meta)
  BY DEF DdlInv, HasMeta, CloseFile
<1>5. IsDocument(ddl_file') /\ ddl_file'.of = extraction[e].meta /\ ddl_file' # Torn
  BY <1>4 DEF Document, IsDocument
<1>6. extraction' \in [Extractions -> ExtractionType]
  <2>1. old \in ExtractionType
    BY <1>1
  <2>2. [old EXCEPT !.job = "done"] \in ExtractionType
    BY <1>1, <2>1 DEF ExtractionType
  <2>3. extraction' = [extraction EXCEPT ![e] = [old EXCEPT !.job = "done"]]
    BY DEF CloseFile
  <2> QED
    BY <1>1, <2>2, <2>3
<1>7. DdlTypeOK'
  BY <1>4, <1>6 DEF DdlInv, DdlTypeOK, ExtractionType, CloseFile
<1>8. \A x, y \in Extractions :
        y < x /\ extraction'[x].cli # "idle" => extraction'[y].cli = "ended"
  <2>1. \A x, y \in Extractions :
          y < x /\ extraction[x].cli # "idle" => extraction[y].cli = "ended"
    BY DEF DdlInv
  <2>2. /\ old.cli = "idle" => \A y \in Extractions : y < e => extraction[y].cli = "ended"
        /\ old.cli = "ended" => new.cli = "ended"
        /\ old.cli = "idle" \/ old.cli # "idle"
    BY <1>2 DEF CloseFile, DdlInv, Working
  <2>3. \A x \in Extractions : x # e => extraction'[x].cli = extraction[x].cli
    BY <1>3
  <2> HIDE DEF old, new
  <2>4. old = extraction[e] /\ new = extraction'[e]
    BY DEF old, new
  <2> QED
    BY <2>1, <2>2, <2>3, <2>4, ExtractionAssumption
<1>9. ASSUME NEW x \in Extractions
      PROVE  /\ extraction'[x].cli \in {"idle", "connect"} =>
                  extraction'[x].job = "none" /\ extraction'[x].code = 0
             /\ extraction'[x].cli = "waiting" => extraction'[x].code = 0
             /\ extraction'[x].cli = "ended" /\ Working(x)' => extraction'[x].code = 130 /\ ~ local'
             /\ extraction'[x].cli = "ended" /\ extraction'[x].code = 0 => extraction'[x].job = "done"
  BY <1>1, <1>2, <1>3 DEF DdlInv, CloseFile, Working, ExtractionType
<1>10. \A x \in Extractions : HasMeta(x)' =>
         extraction'[x].meta \in Versions /\ extraction'[x].meta.version <= bq_table'.version
  BY <1>1, <1>2, <1>3 DEF DdlInv, CloseFile, HasMeta, Working, Versions
<1>11. \A x, y \in Extractions :
         /\ y < x /\ HasMeta(x)'
         /\ extraction'[y].job = "done" /\ extraction'[y].code # 130
         => extraction'[x].meta.version >= extraction'[y].meta.version
  BY <1>1, <1>2, <1>3 DEF DdlInv, CloseFile, HasMeta, Working, Versions
<1>12. ~ local' => ddl_file' # Torn
  BY <1>5 DEF DdlInv, CloseFile
<1>13. ASSUME NEW x \in Extractions, extraction'[x].job = "done", extraction'[x].code # 130
       PROVE  Kept(x)'
  BY <1>1, <1>2, <1>3, <1>5, <1>13 DEF DdlInv, Kept, CloseFile, HasMeta, Working, Versions
<1> QED
  BY <1>7, <1>8, <1>9, <1>10, <1>11, <1>12, <1>13 DEF DdlInv

LEMMA JobFailsKeeps ==
  ASSUME DdlInv, NEW e \in Extractions, JobFails(e)
  PROVE  DdlInv'
<1> DEFINE old == extraction[e]
           new == extraction'[e]
<1>1. extraction \in [Extractions -> ExtractionType] /\ bq_table \in Versions /\ local \in BOOLEAN
  BY DEF DdlInv, DdlTypeOK, ExtractionType
<1>2. new.cli = old.cli /\ new.code = old.code /\ new.job = "failed" /\ new.meta = old.meta
  BY <1>1 DEF JobFails, ExtractionType
<1>3. \A x \in Extractions : x # e => extraction'[x] = extraction[x]
  BY <1>1 DEF JobFails
<1>6. extraction' \in [Extractions -> ExtractionType]
  <2>1. old \in ExtractionType
    BY <1>1
  <2>2. [old EXCEPT !.job = "failed"] \in ExtractionType
    BY <1>1, <2>1 DEF ExtractionType
  <2>3. extraction' = [extraction EXCEPT ![e] = [old EXCEPT !.job = "failed"]]
    BY DEF JobFails
  <2> QED
    BY <1>1, <2>2, <2>3
<1>7. DdlTypeOK'
  BY <1>6 DEF DdlInv, DdlTypeOK, ExtractionType, JobFails
<1>8. \A x, y \in Extractions :
        y < x /\ extraction'[x].cli # "idle" => extraction'[y].cli = "ended"
  <2>1. \A x, y \in Extractions :
          y < x /\ extraction[x].cli # "idle" => extraction[y].cli = "ended"
    BY DEF DdlInv
  <2>2. /\ old.cli = "idle" => \A y \in Extractions : y < e => extraction[y].cli = "ended"
        /\ old.cli = "ended" => new.cli = "ended"
        /\ old.cli = "idle" \/ old.cli # "idle"
    BY <1>2 DEF JobFails, DdlInv, Working
  <2>3. \A x \in Extractions : x # e => extraction'[x].cli = extraction[x].cli
    BY <1>3
  <2> HIDE DEF old, new
  <2>4. old = extraction[e] /\ new = extraction'[e]
    BY DEF old, new
  <2> QED
    BY <2>1, <2>2, <2>3, <2>4, ExtractionAssumption
<1>9. ASSUME NEW x \in Extractions
      PROVE  /\ extraction'[x].cli \in {"idle", "connect"} =>
                  extraction'[x].job = "none" /\ extraction'[x].code = 0
             /\ extraction'[x].cli = "waiting" => extraction'[x].code = 0
             /\ extraction'[x].cli = "ended" /\ Working(x)' => extraction'[x].code = 130 /\ ~ local'
             /\ extraction'[x].cli = "ended" /\ extraction'[x].code = 0 => extraction'[x].job = "done"
  BY <1>1, <1>2, <1>3 DEF DdlInv, JobFails, Working, ExtractionType
<1>10. \A x \in Extractions : HasMeta(x)' =>
         extraction'[x].meta \in Versions /\ extraction'[x].meta.version <= bq_table'.version
  BY <1>1, <1>2, <1>3 DEF DdlInv, JobFails, HasMeta, Working, Versions
<1>11. \A x, y \in Extractions :
         /\ y < x /\ HasMeta(x)'
         /\ extraction'[y].job = "done" /\ extraction'[y].code # 130
         => extraction'[x].meta.version >= extraction'[y].meta.version
  BY <1>1, <1>2, <1>3 DEF DdlInv, JobFails, HasMeta, Working, Versions
<1>12. ~ local' => ddl_file' # Torn
  BY <1>1 DEF DdlInv, JobFails
<1>13. ASSUME NEW x \in Extractions, extraction'[x].job = "done", extraction'[x].code # 130
       PROVE  Kept(x)'
  BY <1>1, <1>2, <1>3, <1>13 DEF DdlInv, Kept, JobFails, HasMeta, Working, Versions
<1> QED
  BY <1>7, <1>8, <1>9, <1>10, <1>11, <1>12, <1>13 DEF DdlInv

LEMMA RetryBundleKeeps ==
  ASSUME DdlInv, NEW e \in Extractions, RetryBundle(e)
  PROVE  DdlInv'
<1> DEFINE old == extraction[e]
           new == extraction'[e]
<1>1. extraction \in [Extractions -> ExtractionType] /\ bq_table \in Versions /\ local \in BOOLEAN
  BY DEF DdlInv, DdlTypeOK, ExtractionType
<1>2. new.cli = old.cli /\ new.code = old.code /\ new.job = "extract" /\ new.meta = old.meta
  BY <1>1 DEF RetryBundle, ExtractionType
<1>3. \A x \in Extractions : x # e => extraction'[x] = extraction[x]
  BY <1>1 DEF RetryBundle
<1>6. extraction' \in [Extractions -> ExtractionType]
  <2>1. old \in ExtractionType
    BY <1>1
  <2>2. [old EXCEPT !.job = "extract"] \in ExtractionType
    BY <1>1, <2>1 DEF ExtractionType
  <2>3. extraction' = [extraction EXCEPT ![e] = [old EXCEPT !.job = "extract"]]
    BY DEF RetryBundle
  <2> QED
    BY <1>1, <2>2, <2>3
<1>7. DdlTypeOK'
  BY <1>6 DEF DdlInv, DdlTypeOK, ExtractionType, RetryBundle
<1>8. \A x, y \in Extractions :
        y < x /\ extraction'[x].cli # "idle" => extraction'[y].cli = "ended"
  <2>1. \A x, y \in Extractions :
          y < x /\ extraction[x].cli # "idle" => extraction[y].cli = "ended"
    BY DEF DdlInv
  <2>2. /\ old.cli = "idle" => \A y \in Extractions : y < e => extraction[y].cli = "ended"
        /\ old.cli = "ended" => new.cli = "ended"
        /\ old.cli = "idle" \/ old.cli # "idle"
    BY <1>2 DEF RetryBundle, DdlInv, Working
  <2>3. \A x \in Extractions : x # e => extraction'[x].cli = extraction[x].cli
    BY <1>3
  <2> HIDE DEF old, new
  <2>4. old = extraction[e] /\ new = extraction'[e]
    BY DEF old, new
  <2> QED
    BY <2>1, <2>2, <2>3, <2>4, ExtractionAssumption
<1>9. ASSUME NEW x \in Extractions
      PROVE  /\ extraction'[x].cli \in {"idle", "connect"} =>
                  extraction'[x].job = "none" /\ extraction'[x].code = 0
             /\ extraction'[x].cli = "waiting" => extraction'[x].code = 0
             /\ extraction'[x].cli = "ended" /\ Working(x)' => extraction'[x].code = 130 /\ ~ local'
             /\ extraction'[x].cli = "ended" /\ extraction'[x].code = 0 => extraction'[x].job = "done"
  BY <1>1, <1>2, <1>3 DEF DdlInv, RetryBundle, Working, ExtractionType
<1>10. \A x \in Extractions : HasMeta(x)' =>
         extraction'[x].meta \in Versions /\ extraction'[x].meta.version <= bq_table'.version
  BY <1>1, <1>2, <1>3 DEF DdlInv, RetryBundle, HasMeta, Working, Versions
<1>11. \A x, y \in Extractions :
         /\ y < x /\ HasMeta(x)'
         /\ extraction'[y].job = "done" /\ extraction'[y].code # 130
         => extraction'[x].meta.version >= extraction'[y].meta.version
  BY <1>1, <1>2, <1>3 DEF DdlInv, RetryBundle, HasMeta, Working, Versions
<1>12. ~ local' => ddl_file' # Torn
  BY <1>1 DEF DdlInv, RetryBundle
<1>13. ASSUME NEW x \in Extractions, extraction'[x].job = "done", extraction'[x].code # 130
       PROVE  Kept(x)'
  BY <1>1, <1>2, <1>3, <1>13 DEF DdlInv, Kept, RetryBundle, HasMeta, Working, Versions
<1> QED
  BY <1>7, <1>8, <1>9, <1>10, <1>11, <1>12, <1>13 DEF DdlInv

LEMMA PipelineReturnsKeeps ==
  ASSUME DdlInv, NEW e \in Extractions, PipelineReturns(e)
  PROVE  DdlInv'
<1> DEFINE old == extraction[e]
           new == extraction'[e]
<1>1. extraction \in [Extractions -> ExtractionType] /\ bq_table \in Versions /\ local \in BOOLEAN
  BY DEF DdlInv, DdlTypeOK, ExtractionType
<1>2. new.cli = "ended" /\ new.job = old.job /\ new.meta = old.meta
        /\ new.code = (IF old.job = "failed" THEN 1 ELSE 0)
  BY <1>1 DEF PipelineReturns, ExtractionType
<1>3. \A x \in Extractions : x # e => extraction'[x] = extraction[x]
  BY <1>1 DEF PipelineReturns
<1>6. extraction' \in [Extractions -> ExtractionType]
  <2>1. old \in ExtractionType
    BY <1>1
  <2>2. [old EXCEPT !.cli = "ended", !.code = IF old.job = "failed" THEN 1 ELSE 0] \in ExtractionType
    BY <1>1, <2>1 DEF ExtractionType
  <2>3. extraction' = [extraction EXCEPT ![e] = [old EXCEPT !.cli = "ended", !.code = IF old.job = "failed" THEN 1 ELSE 0]]
    BY DEF PipelineReturns
  <2> QED
    BY <1>1, <2>2, <2>3
<1>7. DdlTypeOK'
  BY <1>6 DEF DdlInv, DdlTypeOK, ExtractionType, PipelineReturns
<1>8. \A x, y \in Extractions :
        y < x /\ extraction'[x].cli # "idle" => extraction'[y].cli = "ended"
  <2>1. \A x, y \in Extractions :
          y < x /\ extraction[x].cli # "idle" => extraction[y].cli = "ended"
    BY DEF DdlInv
  <2>2. /\ old.cli = "idle" => \A y \in Extractions : y < e => extraction[y].cli = "ended"
        /\ old.cli = "ended" => new.cli = "ended"
        /\ old.cli = "idle" \/ old.cli # "idle"
    BY <1>2 DEF PipelineReturns, DdlInv, Working
  <2>3. \A x \in Extractions : x # e => extraction'[x].cli = extraction[x].cli
    BY <1>3
  <2> HIDE DEF old, new
  <2>4. old = extraction[e] /\ new = extraction'[e]
    BY DEF old, new
  <2> QED
    BY <2>1, <2>2, <2>3, <2>4, ExtractionAssumption
<1>9. ASSUME NEW x \in Extractions
      PROVE  /\ extraction'[x].cli \in {"idle", "connect"} =>
                  extraction'[x].job = "none" /\ extraction'[x].code = 0
             /\ extraction'[x].cli = "waiting" => extraction'[x].code = 0
             /\ extraction'[x].cli = "ended" /\ Working(x)' => extraction'[x].code = 130 /\ ~ local'
             /\ extraction'[x].cli = "ended" /\ extraction'[x].code = 0 => extraction'[x].job = "done"
  BY <1>1, <1>2, <1>3 DEF DdlInv, PipelineReturns, Working, ExtractionType
<1>10. \A x \in Extractions : HasMeta(x)' =>
         extraction'[x].meta \in Versions /\ extraction'[x].meta.version <= bq_table'.version
  BY <1>1, <1>2, <1>3 DEF DdlInv, PipelineReturns, HasMeta, Working, Versions
<1>11. \A x, y \in Extractions :
         /\ y < x /\ HasMeta(x)'
         /\ extraction'[y].job = "done" /\ extraction'[y].code # 130
         => extraction'[x].meta.version >= extraction'[y].meta.version
  BY <1>1, <1>2, <1>3 DEF DdlInv, PipelineReturns, HasMeta, Working, Versions
<1>12. ~ local' => ddl_file' # Torn
  BY <1>1 DEF DdlInv, PipelineReturns
<1>13. ASSUME NEW x \in Extractions, extraction'[x].job = "done", extraction'[x].code # 130
       PROVE  Kept(x)'
  BY <1>1, <1>2, <1>3, <1>13 DEF DdlInv, Kept, PipelineReturns, HasMeta, Working, Versions
<1> QED
  BY <1>7, <1>8, <1>9, <1>10, <1>11, <1>12, <1>13 DEF DdlInv

LEMMA InterruptKeeps ==
  ASSUME DdlInv, NEW e \in Extractions, Interrupt(e)
  PROVE  DdlInv'
<1> DEFINE old == extraction[e]
           new == extraction'[e]
<1>1. extraction \in [Extractions -> ExtractionType] /\ bq_table \in Versions /\ local \in BOOLEAN
  BY DEF DdlInv, DdlTypeOK, ExtractionType
<1>2. new.cli = "ended" /\ new.code = 130 /\ new.meta = old.meta
        /\ new.job = (IF local /\ Working(e) THEN "failed" ELSE old.job)
  BY <1>1 DEF Interrupt, ExtractionType
<1>3. \A x \in Extractions : x # e => extraction'[x] = extraction[x]
  BY <1>1 DEF Interrupt
<1>6. extraction' \in [Extractions -> ExtractionType]
  <2>1. old \in ExtractionType
    BY <1>1
  <2>2. [old EXCEPT !.cli = "ended", !.code = 130,
                       !.job = IF local /\ Working(e) THEN "failed" ELSE old.job] \in ExtractionType
    <3>1. (IF local /\ Working(e) THEN "failed" ELSE old.job) \in
            {"none", "extract", "got", "writing", "done", "failed"}
      BY <2>1 DEF ExtractionType
    <3> QED
      BY <2>1, <3>1 DEF ExtractionType
  <2>3. extraction' = [extraction EXCEPT ![e] = [old EXCEPT !.cli = "ended", !.code = 130,
                       !.job = IF local /\ Working(e) THEN "failed" ELSE old.job]]
    BY DEF Interrupt
  <2> QED
    BY <1>1, <2>2, <2>3
<1>7. DdlTypeOK'
  BY <1>6 DEF DdlInv, DdlTypeOK, ExtractionType, Interrupt
<1>8. \A x, y \in Extractions :
        y < x /\ extraction'[x].cli # "idle" => extraction'[y].cli = "ended"
  <2>1. \A x, y \in Extractions :
          y < x /\ extraction[x].cli # "idle" => extraction[y].cli = "ended"
    BY DEF DdlInv
  <2>2. /\ old.cli = "idle" => \A y \in Extractions : y < e => extraction[y].cli = "ended"
        /\ old.cli = "ended" => new.cli = "ended"
        /\ old.cli = "idle" \/ old.cli # "idle"
    BY <1>2 DEF Interrupt, DdlInv, Working
  <2>3. \A x \in Extractions : x # e => extraction'[x].cli = extraction[x].cli
    BY <1>3
  <2> HIDE DEF old, new
  <2>4. old = extraction[e] /\ new = extraction'[e]
    BY DEF old, new
  <2> QED
    BY <2>1, <2>2, <2>3, <2>4, ExtractionAssumption
<1>9. ASSUME NEW x \in Extractions
      PROVE  /\ extraction'[x].cli \in {"idle", "connect"} =>
                  extraction'[x].job = "none" /\ extraction'[x].code = 0
             /\ extraction'[x].cli = "waiting" => extraction'[x].code = 0
             /\ extraction'[x].cli = "ended" /\ Working(x)' => extraction'[x].code = 130 /\ ~ local'
             /\ extraction'[x].cli = "ended" /\ extraction'[x].code = 0 => extraction'[x].job = "done"
  BY <1>1, <1>2, <1>3 DEF DdlInv, Interrupt, Working, ExtractionType
<1>10. \A x \in Extractions : HasMeta(x)' =>
         extraction'[x].meta \in Versions /\ extraction'[x].meta.version <= bq_table'.version
  BY <1>1, <1>2, <1>3 DEF DdlInv, Interrupt, HasMeta, Working, Versions
<1>11. \A x, y \in Extractions :
         /\ y < x /\ HasMeta(x)'
         /\ extraction'[y].job = "done" /\ extraction'[y].code # 130
         => extraction'[x].meta.version >= extraction'[y].meta.version
  BY <1>1, <1>2, <1>3 DEF DdlInv, Interrupt, HasMeta, Working, Versions
<1>12. ~ local' => ddl_file' # Torn
  BY <1>1 DEF DdlInv, Interrupt
<1>13. ASSUME NEW x \in Extractions, extraction'[x].job = "done", extraction'[x].code # 130
       PROVE  Kept(x)'
  BY <1>1, <1>2, <1>3, <1>13 DEF DdlInv, Kept, Interrupt, HasMeta, Working, Versions
<1> QED
  BY <1>7, <1>8, <1>9, <1>10, <1>11, <1>12, <1>13 DEF DdlInv

LEMMA AlterTableKeeps ==
  ASSUME DdlInv, AlterTable
  PROVE  DdlInv'
<1>1. bq_table \in Versions /\ bq_table' \in Versions /\ bq_table'.version > bq_table.version
  BY DEF DdlInv, DdlTypeOK, AlterTable, Versions
<1>2. extraction' = extraction /\ local' = local /\ ddl_file' = ddl_file
  BY DEF AlterTable
<1>3. DdlTypeOK'
  BY <1>1, <1>2 DEF DdlInv, DdlTypeOK
<1>4. \A e \in Extractions : HasMeta(e)' =>
        extraction'[e].meta \in Versions /\ extraction'[e].meta.version <= bq_table'.version
  BY <1>1, <1>2 DEF DdlInv, HasMeta, Versions
<1> QED
  BY <1>2, <1>3, <1>4 DEF DdlInv, HasMeta, Working, Kept

\* Every step of the module, and of a module that leaves these variables alone.
LEMMA DdlInductive ==
  ASSUME DdlInv, DdlStep
  PROVE  DdlInv'
<1>1. CASE AlterTable
  BY <1>1, AlterTableKeeps
<1>2. CASE \E e \in Extractions : Extract(e)
  <2>1. PICK e \in Extractions : Extract(e)
    BY <1>2
  <2> QED
    BY <2>1, StartExtractionKeeps, TestConnectionKeeps, GetTableKeeps, CreateFileKeeps,
       CloseFileKeeps, JobFailsKeeps, RetryBundleKeeps, PipelineReturnsKeeps, InterruptKeeps
       DEF Extract
<1>3. CASE UNCHANGED ddlVars
  BY <1>3 DEF DdlInv, DdlTypeOK, HasMeta, Working, Kept, ddlVars
<1> QED
  BY <1>1, <1>2, <1>3 DEF DdlStep, DdlNext

LEMMA DdlInvImplies ==
  DdlInv => DdlTypeOK /\ ContractMirrorsTable /\ ConsumableTablesLoad /\ ExitZeroKeepsContract
<1> SUFFICES ASSUME DdlInv
             PROVE  ContractMirrorsTable /\ ConsumableTablesLoad /\ ExitZeroKeepsContract
  BY DEF DdlInv
<1>1. \A t \in Versions : Document(t).of = t
  BY DEF Document
<1>2. IsDocument(ddl_file) => \E t \in Versions : ddl_file = Document(t) /\ ddl_file.of = t
  BY <1>1 DEF DdlInv, DdlTypeOK, IsDocument
<1>3. ContractMirrorsTable
  BY <1>2, RoundTrip DEF ContractMirrorsTable
<1>4. ConsumableTablesLoad
  BY <1>2, LoadsIffConsumable DEF ConsumableTablesLoad
<1>5. ExitZeroKeepsContract
  BY DEF DdlInv, ExitZeroKeepsContract, Kept
<1> QED
  BY <1>3, <1>4, <1>5

\* The extractor and its CLI keep their types, for every set of tables and
\* extractions.
THEOREM DdlTypeCorrect == DdlSpec => []DdlTypeOK
<1>1. DdlInv /\ [DdlNext]_ddlVars => DdlInv'
  BY DdlInductive DEF DdlStep
<1> QED
  BY <1>1, DdlInitial, DdlInvImplies, PTL DEF DdlSpec

\* Whatever ddl_file holds mirrors the table it was taken from: extractor.py's
\* recursion, the contract and derive_bq_ddl.py lose defaults and nothing else.
THEOREM ContractsMirror == DdlSpec => []ContractMirrorsTable
<1>1. DdlInv /\ [DdlNext]_ddlVars => DdlInv'
  BY DdlInductive DEF DdlStep
<1> QED
  BY <1>1, DdlInitial, DdlInvImplies, PTL DEF DdlSpec

\* TableSchema takes a document of the extractor exactly for a consumable table.
THEOREM ConsumableLoads == DdlSpec => []ConsumableTablesLoad
<1>1. DdlInv /\ [DdlNext]_ddlVars => DdlInv'
  BY DdlInductive DEF DdlStep
<1> QED
  BY <1>1, DdlInitial, DdlInvImplies, PTL DEF DdlSpec

\* The exit code of ddl/cli.py is a promise about the file.
THEOREM ExitZeroKept == DdlSpec => []ExitZeroKeepsContract
<1>1. DdlInv /\ [DdlNext]_ddlVars => DdlInv'
  BY DdlInductive DEF DdlStep
<1> QED
  BY <1>1, DdlInitial, DdlInvImplies, PTL DEF DdlSpec
==============================================================================
