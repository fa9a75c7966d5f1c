------------------------------- MODULE Launches -------------------------------
(***************************************************************************)
(* Launches of the pipeline, by the Composer DAG and by operators at a     *)
(* shell, beside the extractions that overwrite the contract they load.    *)
(*                                                                         *)
(* A launch is one main() of cli/run_pipeline.py and the job it submits;   *)
(* what that job does to rows is ModeAPipeline's subject, here it is the   *)
(* share of BLOCKER failures it meets, its validation_runs row and its     *)
(* gate.  Airflow starts one DAG run at a time and its task waits for the  *)
(* job to be running, not for its end; a finished run may be cleared, and  *)
(* is then launched again under its run_id.  Launches have slots: one that *)
(* has ended, and that no DAG run points to, is forgotten with its row     *)
(* when its slot is taken again, so that a behaviour has any number.       *)
(***************************************************************************)
EXTENDS DdlExtract

CONSTANTS
  MaxLaunches,     \* launches at a time (bounds the run)
  RunIds, DagRuns, \* run ids, as sequences of characters; those of DAG runs
  CliOptions,      \* what else an operator passes: [client, sink, direct, job_name]
  Envs, DagEnv,    \* environments; the one the DAG was built for
  ThresholdFiles,  \* what thresholds.yml may hold
  Scale,           \* ratios count from 0 to Scale
  MaxJobName,      \* 63
  Letters, Digits, \* what a job name is made of
  Lower            \* lower case, on the characters of run ids

VARIABLES
  thresholds_file,  \* what --thresholds_uri holds
  launch,           \* per launch, its options, main()'s locals and its job
  dag_run,          \* per DAG run, its state and the launch of its task
  validation_runs   \* the appended rows

launchVars == <<thresholds_file, launch, dag_run, validation_runs>>
vars == <<ddlVars, launchVars>>

LaunchIds == 1..MaxLaunches
Prefix == <<"s", "d", "f", "b">>

ASSUME BoundsAssumption == MaxLaunches \in Nat /\ Scale \in Nat /\ MaxJobName \in Nat

ASSUME NamesAssumption ==
  /\ MaxJobName >= Len(Prefix)
  /\ \A i \in DOMAIN Prefix : Prefix[i] \in Letters
  /\ RunIds \subseteq Seq(DOMAIN Lower)
  /\ "-" \notin Letters \cup Digits

\* The job names that operators give; the last is that none is given.
Unnamed == <<>>
JobNames == {o.job_name : o \in CliOptions} \cup {Unnamed}

ASSUME RunsAssumption ==
  /\ DagRuns \subseteq RunIds /\ DagEnv \in Envs
  /\ CliOptions \subseteq
       [client : {"vllm", "fake"}, sink : BOOLEAN, direct : BOOLEAN, job_name : JobNames]

ASSUME ThresholdsAssumption ==
  \A f \in ThresholdFiles :
    f.form \in {"unreadable", "empty", "no_key", "ratio"} /\ DOMAIN f.ratio \subseteq Envs

-----------------------------------------------------------------------------
(* Thresholds.from_mapping: a missing key is a ratio of 0, a missing        *)
(* environment, an empty file and a ratio outside [0, 1] raise.             *)
ResolvesUnchecked(f, env) ==
  \/ f.form = "no_key"
  \/ f.form = "ratio" /\ env \in DOMAIN f.ratio

Resolves(f, env) ==
  \/ f.form = "no_key"
  \/ f.form = "ratio" /\ env \in DOMAIN f.ratio /\ f.ratio[env] \in 0..Scale

FromMapping(f, env) == IF f.form = "ratio" THEN f.ratio[env] ELSE 0

ResolveThresholdsStrict(f, env) == IF Resolves(f, env) THEN FromMapping(f, env) ELSE 0

ResolveThresholds(f, env) == IF Resolves(f, env) THEN FromMapping(f, env) ELSE Scale

(* sanitize_job_name: lower case, runs of other characters become one dash  *)
(* between what they separate, the result is cut and loses a last dash.     *)
KeptAt(run_id) ==
  LET legal == {i \in DOMAIN run_id : Lower[run_id[i]] \in Letters \cup Digits}
  IN {i \in DOMAIN run_id : i \in legal \/ (i - 1 \in legal /\ \E j \in legal : j > i)}

Nth(S, k) == CHOOSE i \in S : Cardinality({j \in S : j <= i}) = k

Slug(run_id) ==
  [k \in 1..Cardinality(KeptAt(run_id)) |->
     LET c == Lower[run_id[Nth(KeptAt(run_id), k)]]
     IN IF c \in Letters \cup Digits THEN c ELSE "-"]

Rstrip(s) ==
  SubSeq(s, 1, CHOOSE n \in DOMAIN s : s[n] # "-" /\ \A i \in DOMAIN s : i > n => s[i] = "-")

CutTo(s, n) == SubSeq(s, 1, IF Len(s) < n THEN Len(s) ELSE n)

SanitizeJobNameUnstripped(run_id) ==
  CutTo(IF Slug(run_id) = <<>> THEN Prefix ELSE Prefix \o <<"-">> \o Slug(run_id), MaxJobName)

SanitizeJobName(run_id) ==
  Rstrip(CutTo(IF Slug(run_id) = <<>> THEN Prefix ELSE Prefix \o <<"-">> \o Slug(run_id),
               MaxJobName))

\* A job name that no other job has: the DirectRunner's absence of one, and
\* the DAG's jobName, to which Airflow's operator appends a fresh suffix.
Unshared == <<>>

\* configure_pipeline_options: a --job_name that was given stays.
JobNameFresh(via, o, run_id) == Unshared

JobName(via, o, run_id) ==
  IF via = "dag" \/ o.direct THEN Unshared
  ELSE IF o.job_name # Unnamed THEN o.job_name
  ELSE SanitizeJobName(run_id)

-----------------------------------------------------------------------------
Free ==
  [via |-> "cli", run |-> <<>>, env |-> DagEnv, client |-> "fake", sink |-> FALSE,
   direct |-> FALSE, job_name |-> Unnamed, name |-> Unshared, pc |-> "free", contract |-> NoFile, limit |-> 0,
   observed |-> 0, done |-> {}]

Init ==
  /\ DdlInit
  /\ thresholds_file \in ThresholdFiles
  /\ launch = [l \in LaunchIds |-> Free]
  /\ dag_run = [r \in DagRuns |-> [state |-> "none", launch |-> 0]]
  /\ validation_runs = {}

Ended == {"succeeded", "failed", "aborted"}

Unused ==
  {l \in LaunchIds : launch[l].pc \in {"free"} \cup Ended /\ \A r \in DagRuns : dag_run[r].launch # l}

Queued == {r \in DagRuns : dag_run[r].state = "queued"}

\* A bound: there is a slot for every queued run.
Room == Cardinality(Unused) >= Cardinality(Queued)

\* Options are parsed and the runner's are set.  "mlx" differs from "vllm" in
\* nothing that is looked at here.
Started(via, r, env, o) ==
  [Free EXCEPT !.via = via, !.run = r, !.env = env, !.client = o.client, !.sink = o.sink,
               !.direct = o.direct, !.job_name = o.job_name, !.name = JobName(via, o, r),
               !.pc = "options"]

Start(l, via, r, env, o) ==
  /\ l \in Unused /\ \A m \in Unused : l <= m
  /\ launch' = [launch EXCEPT ![l] = Started(via, r, env, o)]
  /\ validation_runs' = {row \in validation_runs : row.launch # l}
  /\ UNCHANGED thresholds_file

DagOptions == [client : {"vllm", "fake"}, sink : {TRUE}, direct : {FALSE}, job_name : {Unnamed}]

\* An operator calls main() with any arguments.
StartCli(l) ==
  /\ \E r \in RunIds, env \in Envs, o \in CliOptions : Start(l, "cli", r, env, o)
  /\ UNCHANGED dag_run
  /\ Room'

\* The one scheduled run, a manual trigger, or a clear of a finished run.
QueueRun(r) ==
  /\ dag_run[r].state \in {"none", "success", "failed"}
  /\ dag_run' = [dag_run EXCEPT ![r] = [state |-> "queued", launch |-> 0]]
  /\ UNCHANGED <<thresholds_file, launch, validation_runs>>
  /\ Room'

\* The scheduler starts a run's task: max_active_runs=1.
StartDagRunAtOnce(r, l) ==
  /\ dag_run[r].state = "queued"
  /\ dag_run' = [dag_run EXCEPT ![r] = [state |-> "running", launch |-> l]]
  /\ \E o \in DagOptions : Start(l, "dag", r, DagEnv, o)

StartDagRun(r, l) ==
  /\ dag_run[r].state = "queued"
  /\ \A x \in DagRuns : dag_run[x].state # "running"
  /\ dag_run' = [dag_run EXCEPT ![r] = [state |-> "running", launch |-> l]]
  /\ \E o \in DagOptions : Start(l, "dag", r, DagEnv, o)

To(l, pc) == launch' = [launch EXCEPT ![l].pc = pc]

\* main() raises, or the job ends: what they held goes with them.
Gone(l, pc) ==
  launch' = [launch EXCEPT ![l] =
    [Free EXCEPT !.via = launch[l].via, !.run = launch[l].run, !.pc = pc]]

LoadDdlUnvalidated(l) ==
  /\ launch[l].pc = "options"
  /\ IF IsDocument(ddl_file)
       THEN launch' = [launch EXCEPT ![l].pc = "schema", ![l].contract = ddl_file]
       ELSE Gone(l, "aborted")
  /\ UNCHANGED <<thresholds_file, dag_run, validation_runs>>

LoadDdl(l) ==
  /\ launch[l].pc = "options"
  /\ IF IsDocument(ddl_file) /\ Loads(ddl_file)
       THEN launch' = [launch EXCEPT ![l].pc = "schema", ![l].contract = ddl_file]
       ELSE Gone(l, "aborted")
  /\ UNCHANGED <<thresholds_file, dag_run, validation_runs>>

\* One query, which may fail.
LoadReferenceRows(l) ==
  /\ launch[l].pc = "schema"
  /\ To(l, "rows") \/ Gone(l, "aborted")
  /\ UNCHANGED <<thresholds_file, dag_run, validation_runs>>

SetThresholds(l) ==
  /\ launch[l].pc = "rows"
  /\ launch' = [launch EXCEPT
       ![l].pc = "wired", ![l].limit = ResolveThresholds(thresholds_file, launch[l].env)]
  /\ UNCHANGED <<thresholds_file, dag_run, validation_runs>>

\* Leaving the with block submits the graph; Dataflow refuses a name that an
\* active job has.  What share of rows the job will find failing is open, and
\* without a validation_runs sink not computed.
Submit(l) ==
  /\ launch[l].pc = "wired"
  /\ IF /\ launch[l].name # Unshared
        /\ \E m \in LaunchIds : launch[m].pc = "running" /\ launch[m].name = launch[l].name
       THEN Gone(l, "aborted")
       ELSE \E share \in IF launch[l].sink THEN 0..Scale ELSE {0} :
              launch' = [launch EXCEPT ![l].pc = "running", ![l].observed = share]
  /\ UNCHANGED <<thresholds_file, dag_run, validation_runs>>

-----------------------------------------------------------------------------
(* The job.                                                                 *)
FailOnBlocker(l) == launch[l].client # "fake"

\* The row and the gate are wired with a validation_runs sink only.
Stages(l) ==
  IF launch[l].sink THEN {"row"} \cup (IF FailOnBlocker(l) THEN {"gate"} ELSE {}) ELSE {}

Ready(l, stage) == launch[l].pc = "running" /\ stage \in Stages(l) \ launch[l].done

Status(l) == IF launch[l].observed > launch[l].limit THEN "FAILED_BLOCKER" ELSE "PASSED"

WriteValidationRun(l) ==
  /\ Ready(l, "row")
  /\ validation_runs' = validation_runs \cup
       {[launch |-> l, run_id |-> launch[l].run, blocker_failure_ratio |-> launch[l].limit,
         status |-> Status(l)]}
  /\ launch' = [launch EXCEPT ![l].done = @ \cup {"row"}]
  /\ UNCHANGED <<thresholds_file, dag_run>>

BlockerGate(l) ==
  /\ Ready(l, "gate")
  /\ IF Status(l) = "FAILED_BLOCKER"
       THEN Gone(l, "failed")
       ELSE launch' = [launch EXCEPT ![l].done = @ \cup {"gate"}]
  /\ UNCHANGED <<thresholds_file, dag_run, validation_runs>>

JobSucceeds(l) ==
  /\ launch[l].pc = "running"
  /\ Stages(l) \subseteq launch[l].done
  /\ launch' = [launch EXCEPT ![l] =
       [@ EXCEPT !.pc = "succeeded", !.name = Unshared, !.contract = NoFile, !.done = {}]]
  /\ UNCHANGED <<thresholds_file, dag_run, validation_runs>>

\* A worker's last retry, a load, or somebody's cancel.
JobBreaks(l) ==
  /\ launch[l].pc = "running"
  /\ Gone(l, "failed")
  /\ UNCHANGED <<thresholds_file, dag_run, validation_runs>>

-----------------------------------------------------------------------------
\* The operator polls the job it started: wait_until_finished=False.
TaskEndsUnpolled(r) ==
  /\ dag_run[r].state = "running"
  /\ dag_run' = [dag_run EXCEPT ![r].state = "success"]
  /\ UNCHANGED <<thresholds_file, launch, validation_runs>>

TaskEndsWithJob(r) ==
  /\ dag_run[r].state = "running"
  /\ LET job == launch[dag_run[r].launch].pc
     IN \/ job = "succeeded" /\ dag_run' = [dag_run EXCEPT ![r].state = "success"]
        \/ job \in {"aborted", "failed"} /\ dag_run' = [dag_run EXCEPT ![r].state = "failed"]
  /\ UNCHANGED <<thresholds_file, launch, validation_runs>>

TaskEnds(r) ==
  /\ dag_run[r].state = "running"
  /\ LET job == launch[dag_run[r].launch].pc
     IN \/ /\ job \in {"running", "succeeded"}
           /\ dag_run' = [dag_run EXCEPT ![r].state = "success"]
        \/ /\ job \in {"aborted", "failed"}
           /\ dag_run' = [dag_run EXCEPT ![r].state = "failed"]
  /\ UNCHANGED <<thresholds_file, launch, validation_runs>>

Main(l) ==
  LoadDdl(l) \/ LoadReferenceRows(l) \/ SetThresholds(l) \/ Submit(l)

Job(l) == WriteValidationRun(l) \/ BlockerGate(l) \/ JobSucceeds(l) \/ JobBreaks(l)

LaunchNext ==
  \/ \E l \in LaunchIds : StartCli(l) \/ Main(l) \/ Job(l)
  \/ \E r \in DagRuns : QueueRun(r) \/ TaskEnds(r) \/ \E l \in LaunchIds : StartDagRun(r, l)

Next == (DdlNext /\ UNCHANGED launchVars) \/ (LaunchNext /\ UNCHANGED ddlVars)

\* main() is plain code with a timeout in every call; Airflow polls a task,
\* and starts one of the queued runs, whichever, when none is active.  Jobs,
\* operators and extractions owe nothing.
Fairness ==
  /\ \A l \in LaunchIds : WF_vars(Main(l) /\ UNCHANGED ddlVars)
  /\ \A r \in DagRuns : WF_vars(TaskEnds(r) /\ UNCHANGED ddlVars)
  /\ WF_vars((\E r \in DagRuns, l \in LaunchIds : StartDagRun(r, l)) /\ UNCHANGED ddlVars)

Spec == Init /\ [][Next]_vars /\ Fairness

-----------------------------------------------------------------------------
DirectNames == {SanitizeJobName(r) : r \in RunIds} \cup JobNames \cup {Unshared}

TypeOK ==
  /\ thresholds_file \in ThresholdFiles
  /\ launch \in [LaunchIds ->
       [via : {"dag", "cli"}, run : RunIds \cup {<<>>}, env : Envs, client : {"vllm", "fake"},
        sink : BOOLEAN, direct : BOOLEAN, job_name : JobNames, name : DirectNames,
        pc : {"free", "options", "schema", "rows", "wired", "running", "succeeded", "failed", "aborted"},
        contract : {NoFile} \cup {Document(t) : t \in Versions}, limit : 0..Scale,
        observed : 0..Scale, done : SUBSET {"row", "gate"}]]
  /\ dag_run \in [DagRuns -> [state : {"none", "queued", "running", "success", "failed"},
                              launch : 0..MaxLaunches]]
  /\ validation_runs \subseteq
       [launch : LaunchIds, run_id : RunIds \cup {<<>>}, blocker_failure_ratio : 0..Scale,
        status : {"PASSED", "FAILED_BLOCKER"}]

\* A run that succeeded although too many of its rows failed can be told from
\* its row: the row is there, under its run_id; it says FAILED_BLOCKER with the
\* limit of the file, and the client was fake; or it shows the permissive limit
\* that main() took because the file did not resolve.
SuccessIsExplained ==
  \A l \in LaunchIds : launch[l].pc = "succeeded" /\ launch[l].sink =>
    \E row \in validation_runs :
      /\ row.launch = l /\ row.run_id = launch[l].run
      /\ IF Resolves(thresholds_file, launch[l].env)
           THEN LET limit == FromMapping(thresholds_file, launch[l].env)
                IN /\ row.blocker_failure_ratio = limit
                   /\ launch[l].observed > limit =>
                        row.status = "FAILED_BLOCKER" /\ launch[l].client = "fake"
           ELSE row.blocker_failure_ratio = Scale

\* The job name made from a run_id is a lock on it: two direct Dataflow jobs of
\* one run_id never append at the same time, unless an operator named one of
\* them with --job_name, which is kept and locks nothing but itself.
NamedByMain(l) == launch[l].via = "cli" /\ ~ launch[l].direct /\ launch[l].job_name = Unnamed

DirectJobsSerial ==
  \A l, m \in LaunchIds :
    /\ launch[l].pc = "running" /\ NamedByMain(l)
    /\ launch[m].pc = "running" /\ NamedByMain(m)
    /\ launch[l].run = launch[m].run
    => l = m

\* Of the DAG's launches one at a time is in main(); their jobs may overlap,
\* those of one cleared run too.
Submitting(l) == launch[l].pc \in {"options", "schema", "rows", "wired"}

DagLaunchersSerial ==
  \A l, m \in LaunchIds :
    Submitting(l) /\ launch[l].via = "dag" /\ Submitting(m) /\ launch[m].via = "dag" => l = m

\* A green DAG run means that a job of its own was running under its run_id;
\* it does not mean that the job succeeded.
GreenRunWasLaunched ==
  \A r \in DagRuns : dag_run[r].state = "success" =>
    LET l == dag_run[r].launch
    IN /\ l \in LaunchIds /\ launch[l].run = r
       /\ launch[l].pc \in {"running", "succeeded", "failed"}

\* No launch gets past load_ddl() on a torn file, on a contract of a table it
\* could not write, or on one that dropped a nested column.
JobsHaveContracts ==
  \A l \in LaunchIds : launch[l].pc \in {"schema", "rows", "wired", "running"} =>
    /\ Consumable(launch[l].contract.of.def)
    /\ DeriveBqSchema(launch[l].contract) = Canonical(launch[l].contract.of.def.cols)

\* What Dataflow takes for a job name; what main() makes of a run_id is one,
\* whatever characters the run_id has and wherever it is cut.
Legal(name) ==
  /\ Len(name) \in 1..MaxJobName
  /\ name[1] \in Letters
  /\ name[Len(name)] \in Letters \cup Digits
  /\ \A i \in DOMAIN name : name[i] \in Letters \cup Digits \cup {"-"}

JobNamesLegal ==
  \A l \in LaunchIds :
    /\ launch[l].pc \in {"options", "schema", "rows", "wired", "running"}
    /\ NamedByMain(l)
    => Legal(launch[l].name)

\* A queued DAG run ends, whatever becomes of the job that the run before it
\* started, unless others are queued ahead of it again and again: which of the
\* queued runs goes first is the scheduler's choice.
QueuedRunsEnd ==
  \A r \in DagRuns :
    \/ []<><<\E x \in DagRuns \ {r} : QueueRun(x)>>_vars
    \/ dag_run[r].state = "queued" ~> dag_run[r].state \in {"success", "failed"}
==============================================================================
