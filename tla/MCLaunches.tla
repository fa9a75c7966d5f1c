----------------------------- MODULE MCLaunches ------------------------------
EXTENDS Launches

MCField(type) == [type |-> type, mode |-> "NULLABLE", attrs |-> <<>>]

MCTables ==
  {[cols |-> [p \in {<<"id">>} |-> MCField(type)], constraint |-> {}, described |-> NoLine] :
     type \in {"INT64", "RANGE"}}

\* The first is cut to a dash that is lost, and is then the second.
MCRunIds == {<<"a", ":", "+", "1">>, <<"A", ":">>}

MCDagRuns == MCRunIds

MCOption(client, sink, direct, job_name) ==
  [client |-> client, sink |-> sink, direct |-> direct, job_name |-> job_name]

\* The second names its job as the shorter run_id does.
MCCliOptions ==
  {MCOption("vllm", TRUE, FALSE, Unnamed), MCOption("fake", TRUE, FALSE, <<"s", "d", "f", "b", "-", "a">>),
   MCOption("vllm", FALSE, TRUE, Unnamed)}

MCLower == [c \in {"a", "A", "1", ":", "+"} |-> IF c = "A" THEN "a" ELSE c]

MCFile(form, ratio) == [form |-> form, ratio |-> ratio]

\* A ratio beyond Scale stands for every file that does not resolve.
MCThresholdFiles ==
  {MCFile("no_key", <<>>)} \cup {MCFile("ratio", [e \in {"prd"} |-> n]) : n \in {1, 3}}
==============================================================================
