---------------------------- MODULE MCDdlExtract -----------------------------
(* Tables that differ in every way the extraction can tell apart.          *)
EXTENDS DdlExtract

MCField(type, mode) == [type |-> type, mode |-> mode, attrs |-> <<>>]

MCColumn == [p \in {<<"id">>, <<"v">>} |->
  IF p = <<"id">> THEN MCField("STRING", "REQUIRED")
  ELSE [type |-> "NUMERIC", mode |-> "NULLABLE",
        attrs |-> [a \in {"precision", "scale"} |-> 2]]]

MCNested == [p \in {<<"id">>, <<"r">>, <<"r", "s">>, <<"r", "s", "v">>} |->
  IF p = <<"id">> THEN MCField("INT64", "NULLABLE")
  ELSE IF p = <<"r", "s", "v">>
    THEN [type |-> "STRING", mode |-> "NULLABLE",
          attrs |-> [a \in {"max_length", "default_value_expression"} |-> 3]]
  ELSE MCField(IF p = <<"r">> THEN "RECORD" ELSE "STRUCT", "REPEATED")]

MCUnsupported == [p \in {<<"id">>} |-> MCField("RANGE", "NULLABLE")]

MCTables ==
  {[cols |-> MCColumn, constraint |-> {"id"}, described |-> {"v", "gone"}],
   [cols |-> MCColumn, constraint |-> {}, described |-> {"gone"}],
   [cols |-> MCNested, constraint |-> {}, described |-> {"id"}],
   [cols |-> MCUnsupported, constraint |-> {}, described |-> NoLine]}
==============================================================================
