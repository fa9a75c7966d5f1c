--------------------------- MODULE Launches_proofs ----------------------------
(* Launches, for any run ids, threshold files, options and number of launches. *)
EXTENDS Launches, DdlExtract_proofs, FiniteSetTheorems, WellFoundedInduction,
        SequenceTheorems

USE BoundsAssumption

-----------------------------------------------------------------------------
(* Job names.                                                               *)

Characters == Letters \cup Digits \cup {"-"}

\* A non-empty set of positions of a sequence has a last one.
LEMMA LastPosition ==
  ASSUME NEW n \in Nat, NEW S \in SUBSET (1..n), S # {}
  PROVE  \E k \in S : \A i \in S : i <= k
<1> DEFINE R == OpToRel(<, Nat)
           D == {n - i : i \in S}
<1>1. D \subseteq Nat /\ D # {}
  <2>1. \A i \in S : n - i \in Nat
    OBVIOUS
  <2> QED BY <2>1
<1>2. IsWellFoundedOn(R, Nat)
  BY NatLessThanWellFounded
<1>3. \A y, d \in Nat : y < d => <<y, d>> \in R
  BY DEF R, OpToRel
<1> HIDE DEF R
<1>4. PICK d \in D : \A y \in D : ~ (<<y, d>> \in R)
  BY <1>1, <1>2, WFMin
<1>5. PICK k \in S : d = n - k
  OBVIOUS
<1>6. ASSUME NEW i \in S PROVE i <= k
  <2>1. n - i \in D /\ n - i \in Nat /\ d \in Nat
    BY <1>1
  <2>2. ~ (n - i < n - k)
    BY <1>3, <1>4, <1>5, <2>1
  <2> QED BY <2>2
<1> QED
  BY <1>6

LEMMA SlugType == ASSUME NEW r \in RunIds PROVE Slug(r) \in Seq(Characters)
<1>1. r \in Seq(DOMAIN Lower)
  BY NamesAssumption
<1>2. KeptAt(r) \subseteq 1..Len(r)
  BY <1>1 DEF KeptAt
<1>3. Cardinality(KeptAt(r)) \in Nat
  <2>1. Len(r) \in Nat /\ 1 \in Int /\ Len(r) \in Int
    BY <1>1
  <2>2. IsFiniteSet(1..Len(r))
    BY <2>1, FS_Interval
  <2>3. IsFiniteSet(KeptAt(r))
    BY <1>2, <2>2, FS_Subset
  <2> QED BY <2>3, FS_CardinalityType
<1> QED
  BY <1>3 DEF Slug, Characters

\* A sequence that does not start with a dash keeps its start when it loses the
\* dashes at its end.
LEMMA RstripLegal ==
  ASSUME NEW s \in Seq(Characters), Len(s) \in 1..MaxJobName, s[1] \in Letters
  PROVE  Legal(Rstrip(s))
<1> DEFINE S == {n \in DOMAIN s : s[n] # "-"}
<1>1. Len(s) \in Nat /\ DOMAIN s = 1..Len(s)
  OBVIOUS
<1>2. S \in SUBSET (1..Len(s)) /\ 1 \in S
  BY <1>1, NamesAssumption
<1>3. \E k \in S : \A i \in S : i <= k
  BY <1>1, <1>2, LastPosition
<1> DEFINE n == CHOOSE n \in DOMAIN s : s[n] # "-" /\ \A i \in DOMAIN s : i > n => s[i] = "-"
<1>4. n \in DOMAIN s /\ s[n] # "-"
  <2>1. \E k \in DOMAIN s : s[k] # "-" /\ \A i \in DOMAIN s : i > k => s[i] = "-"
    BY <1>1, <1>3
  <2> QED BY <2>1
<1>5. Rstrip(s) = SubSeq(s, 1, n)
  BY DEF Rstrip
<1> HIDE DEF n
<1>6. /\ Len(Rstrip(s)) = n /\ n \in 1..Len(s)
      /\ \A i \in 1..n : Rstrip(s)[i] = s[i] /\ s[i] \in Characters
      /\ DOMAIN Rstrip(s) = 1..n
  BY <1>1, <1>4, <1>5
<1> QED
  BY <1>1, <1>4, <1>6 DEF Legal, Characters

LEMMA JobNameLegal == ASSUME NEW r \in RunIds PROVE Legal(SanitizeJobName(r))
<1> DEFINE whole == IF Slug(r) = <<>> THEN Prefix ELSE Prefix \o <<"-">> \o Slug(r)
           cut == CutTo(whole, MaxJobName)
<1>1. Prefix \in Seq(Characters) /\ Len(Prefix) = 4 /\ Prefix[1] \in Letters
  BY NamesAssumption DEF Prefix, Characters
<1>2. <<"-">> \in Seq(Characters)
  BY DEF Characters
<1>3. whole \in Seq(Characters) /\ Len(whole) >= 4 /\ whole[1] = Prefix[1]
  <2>1. CASE Slug(r) = <<>>
    <3>1. whole = Prefix
      BY <2>1
    <3>2. Len(Prefix) >= 4
      BY <1>1
    <3> QED
      BY <1>1, <3>1, <3>2, Zenon
  <2>2. CASE Slug(r) # <<>>
    <3>1. Slug(r) \in Seq(Characters)
      BY SlugType
    <3> DEFINE head == Prefix \o <<"-">>
               tail == Slug(r)
    <3>2. whole = head \o tail
      BY <2>2
    <3>3. Len(<<"-">>) = 1
      OBVIOUS
    <3>4. /\ head \in Seq(Characters) /\ Len(head) = Len(Prefix) + Len(<<"-">>)
          /\ \A i \in 1..Len(Prefix) + Len(<<"-">>) :
               head[i] = IF i <= Len(Prefix) THEN Prefix[i] ELSE <<"-">>[i - Len(Prefix)]
      BY <1>1, <1>2, ConcatProperties, Zenon
    <3>5. 1 \in 1..Len(Prefix) + Len(<<"-">>) /\ 1 <= Len(Prefix)
      BY <1>1, <3>3
    <3>6. head \in Seq(Characters) /\ Len(head) = 5 /\ head[1] = Prefix[1]
      <4>1. head[1] = Prefix[1]
        BY <3>4, <3>5, Zenon
      <4> QED BY <1>1, <3>3, <3>4, <4>1
    <3> HIDE DEF head, tail, whole
    <3>7. tail \in Seq(Characters)
      BY <3>1 DEF tail
    <3>8. /\ head \o tail \in Seq(Characters) /\ Len(head \o tail) = Len(head) + Len(tail)
          /\ \A i \in 1..Len(head) + Len(tail) :
               (head \o tail)[i] = IF i <= Len(head) THEN head[i] ELSE tail[i - Len(head)]
      BY <3>6, <3>7, ConcatProperties, Zenon
    <3>9. Len(tail) \in Nat
      BY <3>7
    <3>10. 1 \in 1..Len(head) + Len(tail) /\ 1 <= Len(head) /\ Len(head) + Len(tail) >= 4
      BY <3>6, <3>9
    <3>11. (head \o tail)[1] = Prefix[1]
      BY <3>6, <3>8, <3>10, Zenon
    <3> QED
      BY <3>2, <3>8, <3>10, <3>11, Zenon
  <2> QED BY <2>1, <2>2
<1> HIDE DEF whole
<1>4. cut \in Seq(Characters) /\ Len(cut) \in 1..MaxJobName /\ cut[1] \in Letters
  BY <1>1, <1>3, NamesAssumption DEF CutTo
<1> HIDE DEF cut
<1>5. SanitizeJobName(r) = Rstrip(cut)
  BY DEF SanitizeJobName, cut, whole
<1> QED
  BY <1>4, <1>5, RstripLegal

\* No name that is made from a run_id is the one that nobody else can have.
LEMMA SharedNames == ASSUME NEW r \in RunIds PROVE SanitizeJobName(r) # Unshared
<1>1. Len(SanitizeJobName(r)) \in 1..MaxJobName
  BY JobNameLegal DEF Legal
<1>2. Len(Unshared) = 0
  BY DEF Unshared
<1> QED
  BY <1>1, <1>2

-----------------------------------------------------------------------------
(* The invariant.                                                           *)
Documents == {Document(t) : t \in Versions}

LaunchType ==
  [via : {"dag", "cli"}, run : RunIds \cup {<<>>}, env : Envs, client : {"vllm", "fake"},
   sink : BOOLEAN, direct : BOOLEAN, job_name : JobNames, name : DirectNames,
   pc : {"free", "options", "schema", "rows", "wired", "running", "succeeded", "failed", "aborted"},
   contract : {NoFile} \cup Documents, limit : 0..Scale,
   observed : 0..Scale, done : SUBSET {"row", "gate"}]

RunType == [state : {"none", "queued", "running", "success", "failed"}, launch : 0..MaxLaunches]

HasRow(l) ==
  \E row \in validation_runs :
    /\ row.launch = l /\ row.run_id = launch[l].run
    /\ row.blocker_failure_ratio = launch[l].limit
    /\ row.status = Status(l)

Alive(l) == launch[l].pc \in {"options", "schema", "rows", "wired", "running"}

\* One launch: its name and run_id stay, its contract is the one that loaded,
\* its limit is what the file resolved to, and a stage that is done is done.
LaunchInv(l) ==
  /\ Alive(l) => launch[l].run \in RunIds
  /\ Alive(l) /\ NamedByMain(l) =>
       launch[l].name = SanitizeJobName(launch[l].run)
  /\ launch[l].pc \in {"schema", "rows", "wired", "running"} =>
       launch[l].contract \in Documents /\ Loads(launch[l].contract)
  /\ launch[l].pc \in {"options", "schema", "rows", "wired"} => launch[l].done = {}
  /\ launch[l].pc \in {"wired", "running", "succeeded"} =>
       launch[l].limit = ResolveThresholds(thresholds_file, launch[l].env)
  /\ launch[l].pc = "running" /\ "row" \in launch[l].done => HasRow(l)
  /\ launch[l].pc = "running" /\ "gate" \in launch[l].done =>
       ~ (launch[l].observed > launch[l].limit)
  /\ launch[l].pc = "succeeded" /\ launch[l].sink =>
       HasRow(l) /\ (launch[l].client = "fake" \/ ~ (launch[l].observed > launch[l].limit))

Submitted == {"running", "succeeded", "failed"}

\* One DAG run: its task's launch is its own, and has left main() when it is green.
RunInv(r) ==
  /\ dag_run[r].state \in {"running", "success", "failed"} =>
       /\ dag_run[r].launch \in LaunchIds
       /\ launch[dag_run[r].launch].run = r
       /\ launch[dag_run[r].launch].pc # "free"
  /\ dag_run[r].state = "success" => launch[dag_run[r].launch].pc \in Submitted

\* Who is in main() for the DAG is the launch of the one run that is running.
Serial ==
  /\ \A l \in LaunchIds : Submitting(l) /\ launch[l].via = "dag" =>
       \E r \in DagRuns : dag_run[r] = [state |-> "running", launch |-> l]
  /\ \A r, x \in DagRuns : dag_run[r].state = "running" /\ dag_run[x].state = "running" => r = x

NamesUnique ==
  \A l, m \in LaunchIds :
    /\ launch[l].pc = "running" /\ launch[m].pc = "running"
    /\ launch[l].name = launch[m].name /\ launch[l].name # Unshared
    => l = m

LInv ==
  /\ DdlInv
  /\ TypeOK
  /\ \A l \in LaunchIds : LaunchInv(l)
  /\ \A r \in DagRuns : RunInv(r)
  /\ Serial
  /\ NamesUnique

LEMMA Types ==
  ASSUME TypeOK
  PROVE  /\ launch \in [LaunchIds -> LaunchType] /\ dag_run \in [DagRuns -> RunType]
         /\ thresholds_file \in ThresholdFiles
BY DEF TypeOK, LaunchType, RunType, Documents

LEMMA FreeType == Free \in LaunchType
BY RunsAssumption DEF Free, LaunchType, DirectNames, JobNames

LEMMA Initial == Init => LInv
<1> SUFFICES ASSUME Init PROVE LInv
  OBVIOUS
<1>1. DdlInv
  BY DdlInitial DEF Init
<1>2. \A l \in LaunchIds : launch[l] = Free
  BY DEF Init
<1>3. \A r \in DagRuns : dag_run[r] = [state |-> "none", launch |-> 0]
  BY DEF Init
<1>4. launch \in [LaunchIds -> LaunchType]
  BY FreeType DEF Init
<1>5. [state |-> "none", launch |-> 0] \in RunType
  BY DEF RunType
<1>6. dag_run \in [DagRuns -> RunType]
  BY <1>5 DEF Init
<1>7. TypeOK
  BY <1>4, <1>6 DEF Init, TypeOK, LaunchType, RunType, Documents
<1>8. Free.pc = "free"
  BY DEF Free
<1> QED
  BY <1>1, <1>2, <1>3, <1>7, <1>8
     DEF LInv, LaunchInv, RunInv, Serial, NamesUnique, Alive, Submitting

-----------------------------------------------------------------------------
(* Steps.                                                                   *)

\* What one launch does in main() and in its job: it changes itself, keeps its
\* origin, does not come back, and appends to validation_runs only.
Moves(l) ==
  /\ launch' \in [LaunchIds -> LaunchType]
  /\ \A m \in LaunchIds : m # l => launch'[m] = launch[m]
  /\ launch'[l].via = launch[l].via /\ launch'[l].run = launch[l].run
  /\ launch[l].pc # "free" /\ launch'[l].pc # "free"
  /\ Submitting(l)' => Submitting(l)
  /\ launch[l].pc \in Submitted => launch'[l].pc \in Submitted
  /\ launch'[l].pc = "running" =>
       \/ launch[l].pc = "running" /\ launch'[l].name = launch[l].name
       \/ launch'[l].name = Unshared
       \/ \A m \in LaunchIds : launch[m].pc = "running" => launch[m].name # launch'[l].name
  /\ thresholds_file' = thresholds_file /\ dag_run' = dag_run
  /\ validation_runs \subseteq validation_runs'
  /\ validation_runs' \subseteq
       [launch : LaunchIds, run_id : RunIds \cup {<<>>}, blocker_failure_ratio : 0..Scale,
        status : {"PASSED", "FAILED_BLOCKER"}]

\* The others' invariants do not notice.
LEMMA OthersKeep ==
  ASSUME LInv, NEW m \in LaunchIds, launch'[m] = launch[m],
         thresholds_file' = thresholds_file,
         \A row \in validation_runs : row.launch = m => row \in validation_runs'
  PROVE  LaunchInv(m)'
<1>1. LaunchInv(m)
  BY DEF LInv
<1>2. HasRow(m) => HasRow(m)'
  BY DEF HasRow, Status
<1> QED
  BY <1>1, <1>2 DEF LaunchInv, Alive, NamedByMain

LEMMA MovesKeep ==
  ASSUME LInv, NEW l \in LaunchIds, Moves(l), LaunchInv(l)', UNCHANGED ddlVars
  PROVE  LInv'
<1>1. DdlInv'
  BY DdlInductive DEF LInv, DdlStep
<1>2. TypeOK'
  BY DEF LInv, TypeOK, Moves, LaunchType, Documents
<1>3. ASSUME NEW m \in LaunchIds PROVE LaunchInv(m)'
  BY OthersKeep DEF Moves
<1>4. ASSUME NEW r \in DagRuns PROVE RunInv(r)'
  <2>1. RunInv(r) /\ dag_run'[r] = dag_run[r]
    BY DEF LInv, Moves
  <2> QED
    BY <2>1 DEF RunInv, Moves
<1>5. Serial'
  BY DEF LInv, Serial, Moves, Submitting
<1>6. NamesUnique'
  BY DEF LInv, NamesUnique, Moves
<1> QED
  BY <1>1, <1>2, <1>3, <1>4, <1>5, <1>6 DEF LInv

\* A launch becomes "new", and nothing else changes but rows that are appended.
LEMMA BecomesMoves ==
  ASSUME LInv, NEW l \in LaunchIds, NEW new \in LaunchType,
         launch' = [launch EXCEPT ![l] = new],
         UNCHANGED <<thresholds_file, dag_run>>,
         validation_runs \subseteq validation_runs',
         validation_runs' \subseteq
           [launch : LaunchIds, run_id : RunIds \cup {<<>>}, blocker_failure_ratio : 0..Scale,
            status : {"PASSED", "FAILED_BLOCKER"}],
         new.via = launch[l].via, new.run = launch[l].run,
         launch[l].pc # "free", new.pc # "free",
         new.pc \in {"options", "schema", "rows", "wired"} =>
           launch[l].pc \in {"options", "schema", "rows", "wired"},
         launch[l].pc \in Submitted => new.pc \in Submitted,
         new.pc = "running" =>
           \/ launch[l].pc = "running" /\ new.name = launch[l].name
           \/ new.name = Unshared
           \/ \A m \in LaunchIds : launch[m].pc = "running" => launch[m].name # new.name
  PROVE  Moves(l) /\ launch'[l] = new
<1>1. launch \in [LaunchIds -> LaunchType]
  BY Types DEF LInv
<1>2. launch'[l] = new /\ launch' \in [LaunchIds -> LaunchType]
  BY <1>1
<1>3. \A m \in LaunchIds : m # l => launch'[m] = launch[m]
  BY <1>1
<1> QED
  BY <1>2, <1>3 DEF Moves, Submitting

\* Giving up, in main() or in the job, loses what the launch held.
LEMMA GoneKeeps ==
  ASSUME LInv, NEW l \in LaunchIds, NEW pc \in {"failed", "aborted"}, Gone(l, pc),
         launch[l].pc # "free", launch[l].pc \in Submitted => pc = "failed",
         UNCHANGED <<thresholds_file, dag_run, validation_runs, ddlVars>>
  PROVE  LInv'
<1> DEFINE new == [Free EXCEPT !.via = launch[l].via, !.run = launch[l].run, !.pc = pc]
<1>1. launch \in [LaunchIds -> LaunchType] /\ launch[l] \in LaunchType
  BY Types DEF LInv
<1>2. new \in LaunchType /\ new.via = launch[l].via /\ new.run = launch[l].run /\ new.pc = pc
  BY <1>1, FreeType DEF LaunchType, Free
<1>3. launch' = [launch EXCEPT ![l] = new]
  BY DEF Gone
<1> HIDE DEF new
<1>4. Moves(l) /\ launch'[l] = new
  BY <1>2, <1>3, BecomesMoves DEF LInv, TypeOK, Submitted
<1>5. LaunchInv(l)'
  BY <1>2, <1>4 DEF LaunchInv, Alive, NamedByMain
<1> QED
  BY <1>4, <1>5, MovesKeep

LEMMA LoadDdlKeeps ==
  ASSUME LInv, NEW l \in LaunchIds, LoadDdl(l), UNCHANGED ddlVars
  PROVE  LInv'
<1>1. CASE IsDocument(ddl_file) /\ Loads(ddl_file)
  <2> DEFINE new == [launch[l] EXCEPT !.pc = "schema", !.contract = ddl_file]
  <2>1. launch \in [LaunchIds -> LaunchType] /\ launch[l] \in LaunchType
    BY Types DEF LInv
  <2>2. ddl_file \in Documents
    BY <1>1 DEF LInv, DdlInv, DdlTypeOK, IsDocument, Documents
  <2>3. new \in LaunchType
    BY <2>1, <2>2 DEF LaunchType
  <2>4. /\ new.via = launch[l].via /\ new.run = launch[l].run /\ new.pc = "schema"
        /\ new.contract = ddl_file /\ new.name = launch[l].name /\ new.done = launch[l].done
        /\ new.direct = launch[l].direct /\ new.job_name = launch[l].job_name
    BY <2>1 DEF LaunchType
  <2>5. launch' = [launch EXCEPT ![l] = new]
    BY <1>1, <2>1 DEF LoadDdl
  <2> HIDE DEF new
  <2>6. launch[l].pc = "options" /\ LaunchInv(l)
    BY DEF LoadDdl, LInv
  <2>7. Moves(l) /\ launch'[l] = new
    BY <2>3, <2>4, <2>5, <2>6, BecomesMoves DEF LInv, TypeOK, Submitted, LoadDdl
  <2>8. LaunchInv(l)'
    BY <1>1, <2>2, <2>4, <2>6, <2>7 DEF LaunchInv, Alive, NamedByMain
  <2> QED
    BY <2>7, <2>8, MovesKeep
<1>2. CASE ~ (IsDocument(ddl_file) /\ Loads(ddl_file))
  BY <1>2, GoneKeeps DEF LoadDdl, Submitted
<1> QED
  BY <1>1, <1>2

LEMMA LoadReferenceRowsKeeps ==
  ASSUME LInv, NEW l \in LaunchIds, LoadReferenceRows(l), UNCHANGED ddlVars
  PROVE  LInv'
<1>1. CASE To(l, "rows")
  <2> DEFINE new == [launch[l] EXCEPT !.pc = "rows"]
  <2>1. launch \in [LaunchIds -> LaunchType] /\ launch[l] \in LaunchType
    BY Types DEF LInv
  <2>2. new \in LaunchType
    BY <2>1 DEF LaunchType
  <2>3. /\ new.via = launch[l].via /\ new.run = launch[l].run /\ new.pc = "rows"
        /\ new.contract = launch[l].contract /\ new.name = launch[l].name
        /\ new.done = launch[l].done /\ new.direct = launch[l].direct /\ new.job_name = launch[l].job_name
    BY <2>1 DEF LaunchType
  <2>4. launch' = [launch EXCEPT ![l] = new]
    BY <1>1, <2>1 DEF To
  <2> HIDE DEF new
  <2>5. launch[l].pc = "schema" /\ LaunchInv(l)
    BY DEF LoadReferenceRows, LInv
  <2>6. Moves(l) /\ launch'[l] = new
    BY <2>2, <2>3, <2>4, <2>5, BecomesMoves DEF LInv, TypeOK, Submitted, LoadReferenceRows
  <2>7. LaunchInv(l)'
    BY <2>3, <2>5, <2>6 DEF LaunchInv, Alive, NamedByMain
  <2> QED
    BY <2>6, <2>7, MovesKeep
<1>2. CASE Gone(l, "aborted")
  BY <1>2, GoneKeeps DEF LoadReferenceRows, Submitted
<1> QED
  BY <1>1, <1>2 DEF LoadReferenceRows

LEMMA LimitType ==
  ASSUME NEW f \in ThresholdFiles, NEW env
  PROVE  ResolveThresholds(f, env) \in 0..Scale
BY DEF ResolveThresholds, Resolves, FromMapping

LEMMA SetThresholdsKeeps ==
  ASSUME LInv, NEW l \in LaunchIds, SetThresholds(l), UNCHANGED ddlVars
  PROVE  LInv'
<1> DEFINE limit == ResolveThresholds(thresholds_file, launch[l].env)
           new == [launch[l] EXCEPT !.pc = "wired", !.limit = limit]
<1>1. launch \in [LaunchIds -> LaunchType] /\ launch[l] \in LaunchType
  BY Types DEF LInv
<1>2. limit \in 0..Scale
  BY Types, LimitType DEF LInv
<1>3. launch' = [launch EXCEPT ![l] = new]
  BY <1>1 DEF SetThresholds
<1>4. limit = ResolveThresholds(thresholds_file, launch[l].env)
  OBVIOUS
<1> HIDE DEF limit
<1>5. new \in LaunchType
  BY <1>1, <1>2 DEF LaunchType
<1>6. /\ new.via = launch[l].via /\ new.run = launch[l].run /\ new.pc = "wired"
      /\ new.contract = launch[l].contract /\ new.name = launch[l].name
      /\ new.done = launch[l].done /\ new.direct = launch[l].direct /\ new.job_name = launch[l].job_name
      /\ new.limit = limit /\ new.env = launch[l].env
  BY <1>1 DEF LaunchType
<1> HIDE DEF new
<1>7. launch[l].pc = "rows" /\ LaunchInv(l) /\ thresholds_file' = thresholds_file
  BY DEF SetThresholds, LInv
<1>8. Moves(l) /\ launch'[l] = new
  BY <1>3, <1>5, <1>6, <1>7, BecomesMoves DEF LInv, TypeOK, Submitted, SetThresholds
<1>9. LaunchInv(l)'
  BY <1>4, <1>6, <1>7, <1>8 DEF LaunchInv, Alive, NamedByMain
<1> QED
  BY <1>8, <1>9, MovesKeep

LEMMA SubmitKeeps ==
  ASSUME LInv, NEW l \in LaunchIds, Submit(l), UNCHANGED ddlVars
  PROVE  LInv'
<1> DEFINE Refused == /\ launch[l].name # Unshared
                      /\ \E m \in LaunchIds :
                           launch[m].pc = "running" /\ launch[m].name = launch[l].name
<1>1. CASE Refused
  BY <1>1, GoneKeeps DEF Submit, Submitted
<1>2. CASE ~ Refused
  <2>1. PICK share \in 0..Scale :
          launch' = [launch EXCEPT ![l].pc = "running", ![l].observed = share]
    <3>1. PICK share \in IF launch[l].sink THEN 0..Scale ELSE {0} :
            launch' = [launch EXCEPT ![l].pc = "running", ![l].observed = share]
      BY <1>2 DEF Submit
    <3>2. share \in 0..Scale
      OBVIOUS
    <3> QED BY <3>1, <3>2
  <2> DEFINE new == [launch[l] EXCEPT !.pc = "running", !.observed = share]
  <2>2. launch \in [LaunchIds -> LaunchType] /\ launch[l] \in LaunchType
    BY Types DEF LInv
  <2>3. new \in LaunchType
    BY <2>2 DEF LaunchType
  <2>4. /\ new.via = launch[l].via /\ new.run = launch[l].run /\ new.pc = "running"
        /\ new.contract = launch[l].contract /\ new.name = launch[l].name
        /\ new.done = launch[l].done /\ new.direct = launch[l].direct /\ new.job_name = launch[l].job_name
        /\ new.limit = launch[l].limit /\ new.env = launch[l].env
    BY <2>2 DEF LaunchType
  <2>5. launch' = [launch EXCEPT ![l] = new]
    BY <2>1, <2>2
  <2> HIDE DEF new
  <2>6. launch[l].pc = "wired" /\ LaunchInv(l) /\ thresholds_file' = thresholds_file
    BY DEF Submit, LInv
  <2>7. \/ new.name = Unshared
        \/ \A m \in LaunchIds : launch[m].pc = "running" => launch[m].name # new.name
    BY <1>2, <2>4
  <2>8. Moves(l) /\ launch'[l] = new
    BY <2>3, <2>4, <2>5, <2>6, <2>7, BecomesMoves DEF LInv, TypeOK, Submitted, Submit
  <2>9. LaunchInv(l)'
    BY <2>4, <2>6, <2>8 DEF LaunchInv, Alive, NamedByMain
  <2> QED
    BY <2>8, <2>9, MovesKeep
<1> QED
  BY <1>1, <1>2

LEMMA WriteValidationRunKeeps ==
  ASSUME LInv, NEW l \in LaunchIds, WriteValidationRun(l), UNCHANGED ddlVars
  PROVE  LInv'
<1> DEFINE row == [launch |-> l, run_id |-> launch[l].run,
                   blocker_failure_ratio |-> launch[l].limit, status |-> Status(l)]
           new == [launch[l] EXCEPT !.done = @ \cup {"row"}]
<1>1. launch \in [LaunchIds -> LaunchType] /\ launch[l] \in LaunchType
  BY Types DEF LInv
<1>2. new \in LaunchType
  BY <1>1 DEF LaunchType
<1>3. /\ new.via = launch[l].via /\ new.run = launch[l].run /\ new.pc = launch[l].pc
      /\ new.contract = launch[l].contract /\ new.name = launch[l].name
      /\ new.direct = launch[l].direct /\ new.job_name = launch[l].job_name
        /\ new.limit = launch[l].limit
      /\ new.env = launch[l].env /\ new.observed = launch[l].observed
      /\ new.done = launch[l].done \cup {"row"}
  BY <1>1 DEF LaunchType
<1>4. launch' = [launch EXCEPT ![l] = new]
  BY <1>1 DEF WriteValidationRun
<1>5. row \in [launch : LaunchIds, run_id : RunIds \cup {<<>>}, blocker_failure_ratio : 0..Scale,
               status : {"PASSED", "FAILED_BLOCKER"}]
  BY <1>1 DEF LaunchType, Status
<1>6. validation_runs' = validation_runs \cup {row}
  BY DEF WriteValidationRun
<1>7. row.launch = l /\ row.run_id = launch[l].run
      /\ row.blocker_failure_ratio = launch[l].limit /\ row.status = Status(l)
  OBVIOUS
<1> HIDE DEF new, row
<1>8. launch[l].pc = "running" /\ LaunchInv(l) /\ thresholds_file' = thresholds_file
  BY DEF WriteValidationRun, Ready, LInv
<1>9. /\ validation_runs \subseteq validation_runs'
      /\ validation_runs' \subseteq
           [launch : LaunchIds, run_id : RunIds \cup {<<>>}, blocker_failure_ratio : 0..Scale,
            status : {"PASSED", "FAILED_BLOCKER"}]
  BY <1>5, <1>6 DEF LInv, TypeOK
<1>10. dag_run' = dag_run /\ thresholds_file' = thresholds_file
  BY DEF WriteValidationRun
<1>11. Moves(l) /\ launch'[l] = new
  BY <1>2, <1>3, <1>4, <1>8, <1>9, <1>10, BecomesMoves
<1>12. HasRow(l)'
  BY <1>3, <1>6, <1>7, <1>11 DEF HasRow, Status
<1>13. LaunchInv(l)'
  BY <1>3, <1>8, <1>11, <1>12 DEF LaunchInv, Alive, NamedByMain
<1> QED
  BY <1>11, <1>13, MovesKeep

LEMMA BlockerGateKeeps ==
  ASSUME LInv, NEW l \in LaunchIds, BlockerGate(l), UNCHANGED ddlVars
  PROVE  LInv'
<1>1. CASE Status(l) = "FAILED_BLOCKER"
  BY <1>1, GoneKeeps DEF BlockerGate, Ready
<1>2. CASE Status(l) # "FAILED_BLOCKER"
  <2> DEFINE new == [launch[l] EXCEPT !.done = @ \cup {"gate"}]
  <2>1. launch \in [LaunchIds -> LaunchType] /\ launch[l] \in LaunchType
    BY Types DEF LInv
  <2>2. new \in LaunchType
    BY <2>1 DEF LaunchType
  <2>3. /\ new.via = launch[l].via /\ new.run = launch[l].run /\ new.pc = launch[l].pc
        /\ new.contract = launch[l].contract /\ new.name = launch[l].name
        /\ new.direct = launch[l].direct /\ new.job_name = launch[l].job_name
        /\ new.limit = launch[l].limit
        /\ new.env = launch[l].env /\ new.observed = launch[l].observed
        /\ new.done = launch[l].done \cup {"gate"}
    BY <2>1 DEF LaunchType
  <2>4. launch' = [launch EXCEPT ![l] = new]
    BY <1>2, <2>1 DEF BlockerGate
  <2> HIDE DEF new
  <2>5. launch[l].pc = "running" /\ LaunchInv(l) /\ thresholds_file' = thresholds_file
    BY DEF BlockerGate, Ready, LInv
  <2>6. Moves(l) /\ launch'[l] = new
    BY <2>2, <2>3, <2>4, <2>5, BecomesMoves DEF LInv, TypeOK, Submitted, BlockerGate
  <2>7. HasRow(l) => HasRow(l)'
    BY <2>3, <2>6 DEF HasRow, Status, BlockerGate
  <2>8. ~ (launch[l].observed > launch[l].limit)
    BY <1>2 DEF Status
  <2>9. LaunchInv(l)'
    BY <2>3, <2>5, <2>6, <2>7, <2>8 DEF LaunchInv, Alive, NamedByMain
  <2> QED
    BY <2>6, <2>9, MovesKeep
<1> QED
  BY <1>1, <1>2

LEMMA JobSucceedsKeeps ==
  ASSUME LInv, NEW l \in LaunchIds, JobSucceeds(l), UNCHANGED ddlVars
  PROVE  LInv'
<1> DEFINE new == [launch[l] EXCEPT
             !.pc = "succeeded", !.name = Unshared, !.contract = NoFile, !.done = {}]
<1>1. launch \in [LaunchIds -> LaunchType] /\ launch[l] \in LaunchType
  BY Types DEF LInv
<1>2. new \in LaunchType
  BY <1>1 DEF LaunchType, DirectNames
<1>3. /\ new.via = launch[l].via /\ new.run = launch[l].run /\ new.pc = "succeeded"
      /\ new.limit = launch[l].limit /\ new.env = launch[l].env
      /\ new.observed = launch[l].observed /\ new.sink = launch[l].sink
      /\ new.client = launch[l].client
  BY <1>1 DEF LaunchType
<1>4. launch' = [launch EXCEPT ![l] = new]
  BY <1>1 DEF JobSucceeds
<1> HIDE DEF new
<1>5. launch[l].pc = "running" /\ LaunchInv(l) /\ thresholds_file' = thresholds_file
  BY DEF JobSucceeds, LInv
<1>6. Moves(l) /\ launch'[l] = new
  BY <1>2, <1>3, <1>4, <1>5, BecomesMoves DEF LInv, TypeOK, Submitted, JobSucceeds
<1>7. HasRow(l) => HasRow(l)'
  BY <1>3, <1>6 DEF HasRow, Status, JobSucceeds
<1>8. launch[l].sink => "row" \in launch[l].done
  BY DEF JobSucceeds, Stages
<1>9. launch[l].sink /\ launch[l].client # "fake" => "gate" \in launch[l].done
  BY DEF JobSucceeds, Stages, FailOnBlocker
<1>10. LaunchInv(l)'
  BY <1>3, <1>5, <1>6, <1>7, <1>8, <1>9 DEF LaunchInv, Alive, NamedByMain
<1> QED
  BY <1>6, <1>10, MovesKeep

LEMMA JobBreaksKeeps ==
  ASSUME LInv, NEW l \in LaunchIds, JobBreaks(l), UNCHANGED ddlVars
  PROVE  LInv'
BY GoneKeeps DEF JobBreaks

\* What an operator or the DAG passes.
Options == [client : {"vllm", "fake"}, sink : BOOLEAN, direct : BOOLEAN, job_name : JobNames]

LEMMA StartedType ==
  ASSUME NEW via \in {"dag", "cli"}, NEW r \in RunIds, NEW env \in Envs, NEW o \in Options
  PROVE  LET new == Started(via, r, env, o)
         IN /\ new \in LaunchType
            /\ new.via = via /\ new.run = r /\ new.pc = "options" /\ new.done = {}
            /\ new.direct = o.direct /\ new.job_name = o.job_name /\ new.name = JobName(via, o, r)
<1>1. JobName(via, o, r) \in DirectNames
  BY DEF JobName, DirectNames, Options
<1> QED
  BY <1>1, FreeType DEF Started, Free, LaunchType, Options

\* A launch that starts is in nobody's slot.
LEMMA StartKeeps ==
  ASSUME LInv, NEW l \in LaunchIds,
         NEW via \in {"dag", "cli"}, NEW r \in RunIds, NEW env \in Envs, NEW o \in Options,
         Start(l, via, r, env, o), UNCHANGED ddlVars
  PROVE  /\ DdlInv'
         /\ launch' \in [LaunchIds -> LaunchType]
         /\ launch'[l].via = via /\ launch'[l].run = r /\ launch'[l].pc = "options"
         /\ \A m \in LaunchIds : m # l => launch'[m] = launch[m]
         /\ \A m \in LaunchIds : LaunchInv(m)'
         /\ NamesUnique'
         /\ thresholds_file' = thresholds_file /\ validation_runs' \subseteq validation_runs
         /\ \A x \in DagRuns : dag_run[x].launch # l
<1> DEFINE new == Started(via, r, env, o)
<1>1. /\ new \in LaunchType
      /\ new.via = via /\ new.run = r /\ new.pc = "options" /\ new.done = {}
      /\ new.direct = o.direct /\ new.job_name = o.job_name /\ new.name = JobName(via, o, r)
  BY StartedType
<1>2. launch \in [LaunchIds -> LaunchType]
  BY Types DEF LInv
<1>3. /\ launch' = [launch EXCEPT ![l] = new]
      /\ validation_runs' = {row \in validation_runs : row.launch # l}
      /\ thresholds_file' = thresholds_file
      /\ \A x \in DagRuns : dag_run[x].launch # l
  BY DEF Start, Unused
<1> HIDE DEF new
<1>4. launch' \in [LaunchIds -> LaunchType] /\ launch'[l] = new
  BY <1>1, <1>2, <1>3
<1>5. \A m \in LaunchIds : m # l => launch'[m] = launch[m]
  BY <1>2, <1>3
<1>6. DdlInv'
  BY DdlInductive DEF LInv, DdlStep
<1>7. LaunchInv(l)'
  BY <1>1, <1>4 DEF LaunchInv, Alive, NamedByMain, JobName
<1>8. ASSUME NEW m \in LaunchIds PROVE LaunchInv(m)'
  <2>1. CASE m = l
    BY <1>7, <2>1
  <2>2. CASE m # l
    <3>1. \A row \in validation_runs : row.launch = m => row \in validation_runs'
      BY <1>3, <2>2
    <3> QED BY <1>3, <1>5, <2>2, <3>1, OthersKeep
  <2> QED BY <2>1, <2>2
<1>9. NamesUnique'
  BY <1>1, <1>4, <1>5 DEF LInv, NamesUnique
<1>10. validation_runs' \subseteq validation_runs
  BY <1>3
<1> QED
  BY <1>1, <1>3, <1>4, <1>5, <1>6, <1>8, <1>9, <1>10

LEMMA StartCliKeeps ==
  ASSUME LInv, NEW l \in LaunchIds, StartCli(l), UNCHANGED ddlVars
  PROVE  LInv'
<1>1. PICK r \in RunIds, env \in Envs, o \in CliOptions : Start(l, "cli", r, env, o)
  BY DEF StartCli
<1>2. dag_run' = dag_run
  BY DEF StartCli
<1>3. o \in Options
  BY RunsAssumption DEF Options
<1>4. /\ DdlInv'
      /\ launch' \in [LaunchIds -> LaunchType]
      /\ launch'[l].via = "cli"
      /\ \A m \in LaunchIds : m # l => launch'[m] = launch[m]
      /\ \A m \in LaunchIds : LaunchInv(m)'
      /\ NamesUnique'
      /\ thresholds_file' = thresholds_file /\ validation_runs' \subseteq validation_runs
      /\ \A x \in DagRuns : dag_run[x].launch # l
  BY <1>1, <1>3, StartKeeps
<1>5. TypeOK'
  BY <1>2, <1>4 DEF LInv, TypeOK, LaunchType, Documents
<1>6. ASSUME NEW x \in DagRuns PROVE RunInv(x)'
  <2>1. RunInv(x)
    BY DEF LInv
  <2> QED
    BY <1>2, <1>4, <2>1 DEF RunInv, Submitted
<1>7. Serial'
  BY <1>2, <1>4 DEF LInv, Serial, Submitting
<1> QED
  BY <1>4, <1>5, <1>6, <1>7 DEF LInv

LEMMA StartDagRunKeeps ==
  ASSUME LInv, NEW r \in DagRuns, NEW l \in LaunchIds, StartDagRun(r, l), UNCHANGED ddlVars
  PROVE  LInv'
<1>1. PICK o \in DagOptions : Start(l, "dag", r, DagEnv, o)
  BY DEF StartDagRun
<1>2. /\ \A x \in DagRuns : dag_run[x].state # "running"
      /\ dag_run' = [dag_run EXCEPT ![r] = [state |-> "running", launch |-> l]]
  BY DEF StartDagRun
<1>3. o \in Options
  BY DEF DagOptions, Options, JobNames
<1>4. /\ DdlInv'
      /\ launch' \in [LaunchIds -> LaunchType]
      /\ launch'[l].via = "dag" /\ launch'[l].run = r /\ launch'[l].pc = "options"
      /\ \A m \in LaunchIds : m # l => launch'[m] = launch[m]
      /\ \A m \in LaunchIds : LaunchInv(m)'
      /\ NamesUnique'
      /\ thresholds_file' = thresholds_file /\ validation_runs' \subseteq validation_runs
      /\ \A x \in DagRuns : dag_run[x].launch # l
  BY <1>1, <1>3, StartKeeps, RunsAssumption
<1>5. dag_run \in [DagRuns -> RunType] /\ [state |-> "running", launch |-> l] \in RunType
  BY Types DEF LInv, RunType, LaunchIds
<1>6. /\ dag_run' \in [DagRuns -> RunType]
      /\ dag_run'[r] = [state |-> "running", launch |-> l]
      /\ \A x \in DagRuns : x # r => dag_run'[x] = dag_run[x]
  BY <1>2, <1>5
<1>7. TypeOK'
  BY <1>4, <1>6 DEF LInv, TypeOK, LaunchType, RunType, Documents
<1>8. ASSUME NEW x \in DagRuns PROVE RunInv(x)'
  <2>1. RunInv(x)
    BY DEF LInv
  <2> QED
    BY <1>4, <1>6, <2>1 DEF RunInv, Submitted
<1>9. Serial'
  <2>1. ASSUME NEW m \in LaunchIds, m # l PROVE ~ (Submitting(m)' /\ launch'[m].via = "dag")
    <3>1. launch'[m] = launch[m]
      BY <1>4, <2>1
    <3>2. ASSUME Submitting(m), launch[m].via = "dag" PROVE FALSE
      <4>1. PICK x \in DagRuns : dag_run[x] = [state |-> "running", launch |-> m]
        BY <3>2 DEF LInv, Serial
      <4>2. dag_run[x].state = "running"
        BY <4>1
      <4> QED BY <1>2, <4>2
    <3> QED BY <3>1, <3>2 DEF Submitting
  <2>2. \A x, y \in DagRuns :
          dag_run'[x].state = "running" /\ dag_run'[y].state = "running" => x = y
    BY <1>2, <1>6
  <2> QED
    BY <1>6, <2>1, <2>2 DEF Serial
<1> QED
  BY <1>4, <1>7, <1>8, <1>9 DEF LInv

\* Only a DAG run changes: the launches do not notice.
LEMMA RunChangeKeeps ==
  ASSUME LInv, NEW r \in DagRuns, NEW new \in RunType, new.state # "running",
         dag_run' = [dag_run EXCEPT ![r] = new],
         UNCHANGED <<thresholds_file, launch, validation_runs, ddlVars>>,
         RunInv(r)',
         dag_run[r].state = "running" => ~ Submitting(dag_run[r].launch)
  PROVE  LInv'
<1>1. dag_run \in [DagRuns -> RunType]
  BY Types DEF LInv
<1>4. /\ dag_run' \in [DagRuns -> RunType] /\ dag_run'[r] = new
      /\ \A x \in DagRuns : x # r => dag_run'[x] = dag_run[x]
  BY <1>1
<1>5. DdlInv'
  BY DdlInductive DEF LInv, DdlStep
<1>6. TypeOK'
  BY <1>4 DEF LInv, TypeOK, RunType
<1>7. ASSUME NEW m \in LaunchIds PROVE LaunchInv(m)'
  BY OthersKeep
<1>8. ASSUME NEW x \in DagRuns PROVE RunInv(x)'
  <2>1. CASE x = r
    BY <2>1
  <2>2. CASE x # r
    BY <1>4, <2>2 DEF LInv, RunInv
  <2> QED BY <2>1, <2>2
<1>9. Serial'
  <2>1. \A x, y \in DagRuns :
          dag_run'[x].state = "running" /\ dag_run'[y].state = "running" => x = y
    BY <1>4 DEF LInv, Serial
  <2>2. ASSUME NEW m \in LaunchIds, Submitting(m), launch[m].via = "dag"
        PROVE  \E x \in DagRuns : dag_run'[x] = [state |-> "running", launch |-> m]
    <3>1. PICK x \in DagRuns : dag_run[x] = [state |-> "running", launch |-> m]
      BY <2>2 DEF LInv, Serial
    <3>2. x # r
      BY <2>2, <3>1
    <3> QED BY <1>4, <3>1, <3>2
  <2>3. \A m \in LaunchIds : Submitting(m)' = Submitting(m) /\ launch'[m].via = launch[m].via
    BY DEF Submitting
  <2> QED
    BY <2>1, <2>2, <2>3 DEF Serial
<1>10. NamesUnique'
  BY DEF LInv, NamesUnique
<1> QED
  BY <1>5, <1>6, <1>7, <1>8, <1>9, <1>10 DEF LInv

LEMMA QueueRunKeeps ==
  ASSUME LInv, NEW r \in DagRuns, QueueRun(r), UNCHANGED ddlVars
  PROVE  LInv'
<1> DEFINE new == [state |-> "queued", launch |-> 0]
<1>1. dag_run \in [DagRuns -> RunType] /\ new \in RunType /\ new.state = "queued"
  BY Types DEF LInv, RunType
<1>2. /\ dag_run' = [dag_run EXCEPT ![r] = new] /\ dag_run[r].state # "running"
      /\ UNCHANGED <<thresholds_file, launch, validation_runs>>
  BY DEF QueueRun
<1>3. dag_run'[r] = new
  BY <1>1, <1>2
<1>4. RunInv(r)'
  BY <1>1, <1>3 DEF RunInv
<1> HIDE DEF new
<1> QED
  BY <1>1, <1>2, <1>4, RunChangeKeeps

LEMMA TaskEndsKeeps ==
  ASSUME LInv, NEW r \in DagRuns, TaskEnds(r), UNCHANGED ddlVars
  PROVE  LInv'
<1> DEFINE job == launch[dag_run[r].launch].pc
<1>1. dag_run \in [DagRuns -> RunType] /\ RunInv(r) /\ dag_run[r].state = "running"
  BY Types DEF LInv, TaskEnds
<1>2. PICK state \in {"success", "failed"} :
        /\ dag_run' = [dag_run EXCEPT ![r].state = state]
        /\ state = "success" => job \in Submitted
        /\ job \in {"running", "succeeded", "aborted", "failed"}
  BY DEF TaskEnds, Submitted
<1> DEFINE new == [dag_run[r] EXCEPT !.state = state]
<1>3. new \in RunType /\ new.state = state /\ new.launch = dag_run[r].launch
  BY <1>1 DEF RunType
<1>4. dag_run' = [dag_run EXCEPT ![r] = new] /\ UNCHANGED <<thresholds_file, launch, validation_runs>>
  BY <1>1, <1>2 DEF TaskEnds
<1> HIDE DEF new
<1>5. dag_run'[r] = new
  BY <1>1, <1>4
<1>6. RunInv(r)'
  BY <1>1, <1>2, <1>3, <1>4, <1>5 DEF RunInv
<1>7. ~ Submitting(dag_run[r].launch)
  BY <1>2 DEF Submitting
<1> QED
  BY <1>3, <1>4, <1>6, <1>7, RunChangeKeeps

\* Extractions leave the launches alone, and stuttering everything.
LEMMA LaunchVarsUnchanged ==
  ASSUME LInv, DdlStep, UNCHANGED launchVars
  PROVE  LInv'
<1>1. DdlInv'
  BY DdlInductive DEF LInv
<1>2. ASSUME NEW m \in LaunchIds PROVE LaunchInv(m)'
  BY OthersKeep DEF launchVars
<1> QED
  BY <1>1, <1>2
     DEF LInv, TypeOK, RunInv, Serial, NamesUnique, Submitting, Submitted, launchVars

LEMMA Inductive == LInv /\ [Next]_vars => LInv'
<1> SUFFICES ASSUME LInv, [Next]_vars PROVE LInv'
  OBVIOUS
<1>1. CASE DdlNext /\ UNCHANGED launchVars
  BY <1>1, LaunchVarsUnchanged DEF DdlStep
<1>2. ASSUME LaunchNext, UNCHANGED ddlVars PROVE LInv'
  <2>1. ASSUME NEW l \in LaunchIds, StartCli(l) PROVE LInv'
    BY <1>2, <2>1, StartCliKeeps
  <2>2. ASSUME NEW l \in LaunchIds, Main(l) PROVE LInv'
    BY <1>2, <2>2, LoadDdlKeeps, LoadReferenceRowsKeeps, SetThresholdsKeeps, SubmitKeeps DEF Main
  <2>3. ASSUME NEW l \in LaunchIds, Job(l) PROVE LInv'
    BY <1>2, <2>3, WriteValidationRunKeeps, BlockerGateKeeps, JobSucceedsKeeps, JobBreaksKeeps
       DEF Job
  <2>4. ASSUME NEW r \in DagRuns, QueueRun(r) PROVE LInv'
    BY <1>2, <2>4, QueueRunKeeps
  <2>5. ASSUME NEW r \in DagRuns, TaskEnds(r) PROVE LInv'
    BY <1>2, <2>5, TaskEndsKeeps
  <2>6. ASSUME NEW r \in DagRuns, NEW l \in LaunchIds, StartDagRun(r, l) PROVE LInv'
    BY <1>2, <2>6, StartDagRunKeeps
  <2> QED
    BY <1>2, <2>1, <2>2, <2>3, <2>4, <2>5, <2>6 DEF LaunchNext
<1>3. CASE UNCHANGED vars
  BY <1>3, LaunchVarsUnchanged DEF DdlStep, vars, launchVars
<1> QED
  BY <1>1, <1>2, <1>3 DEF Next

-----------------------------------------------------------------------------
(* The properties.                                                          *)

LEMMA Explained == LInv => SuccessIsExplained
<1> SUFFICES ASSUME LInv, NEW l \in LaunchIds, launch[l].pc = "succeeded", launch[l].sink
             PROVE  \E row \in validation_runs :
                      /\ row.launch = l /\ row.run_id = launch[l].run
                      /\ IF Resolves(thresholds_file, launch[l].env)
                           THEN LET limit == FromMapping(thresholds_file, launch[l].env)
                                IN /\ row.blocker_failure_ratio = limit
                                   /\ launch[l].observed > limit =>
                                        row.status = "FAILED_BLOCKER" /\ launch[l].client = "fake"
                           ELSE row.blocker_failure_ratio = Scale
  BY DEF SuccessIsExplained
<1>1. /\ HasRow(l)
      /\ launch[l].client = "fake" \/ ~ (launch[l].observed > launch[l].limit)
      /\ launch[l].limit = ResolveThresholds(thresholds_file, launch[l].env)
  BY DEF LInv, LaunchInv
<1>2. PICK row \in validation_runs :
        /\ row.launch = l /\ row.run_id = launch[l].run
        /\ row.blocker_failure_ratio = launch[l].limit
        /\ row.status = Status(l)
  BY <1>1 DEF HasRow
<1>3. CASE Resolves(thresholds_file, launch[l].env)
  <2>1. launch[l].limit = FromMapping(thresholds_file, launch[l].env)
    BY <1>1, <1>3 DEF ResolveThresholds
  <2> QED
    BY <1>1, <1>2, <1>3, <2>1 DEF Status
<1>4. CASE ~ Resolves(thresholds_file, launch[l].env)
  BY <1>1, <1>2, <1>4 DEF ResolveThresholds
<1> QED
  BY <1>3, <1>4

LEMMA NamesLock == LInv => DirectJobsSerial
<1> SUFFICES ASSUME LInv, NEW l \in LaunchIds, NEW m \in LaunchIds,
                    launch[l].pc = "running", NamedByMain(l),
                    launch[m].pc = "running", NamedByMain(m),
                    launch[l].run = launch[m].run
             PROVE  l = m
  BY DEF DirectJobsSerial
<1>1. launch[l].run \in RunIds
  BY DEF LInv, LaunchInv, Alive
<1>2. launch[l].name = SanitizeJobName(launch[l].run) /\ launch[m].name = launch[l].name
  BY DEF LInv, LaunchInv, Alive
<1>3. launch[l].name # Unshared
  BY <1>1, <1>2, SharedNames
<1> QED
  BY <1>2, <1>3 DEF LInv, NamesUnique

LEMMA OneLauncher == LInv => DagLaunchersSerial
<1> SUFFICES ASSUME LInv, NEW l \in LaunchIds, NEW m \in LaunchIds,
                    Submitting(l), launch[l].via = "dag", Submitting(m), launch[m].via = "dag"
             PROVE  l = m
  BY DEF DagLaunchersSerial
<1>1. PICK r \in DagRuns : dag_run[r] = [state |-> "running", launch |-> l]
  BY DEF LInv, Serial
<1>2. PICK x \in DagRuns : dag_run[x] = [state |-> "running", launch |-> m]
  BY DEF LInv, Serial
<1>3. dag_run[r].state = "running" /\ dag_run[x].state = "running"
  BY <1>1, <1>2
<1>4. r = x
  BY <1>3 DEF LInv, Serial
<1>5. dag_run[r].launch = l /\ dag_run[x].launch = m
  BY <1>1, <1>2
<1> QED
  BY <1>4, <1>5

LEMMA ContractsLoaded == LInv => JobsHaveContracts
<1> SUFFICES ASSUME LInv, NEW l \in LaunchIds,
                    launch[l].pc \in {"schema", "rows", "wired", "running"}
             PROVE  /\ Consumable(launch[l].contract.of.def)
                    /\ DeriveBqSchema(launch[l].contract) =
                         Canonical(launch[l].contract.of.def.cols)
  BY DEF JobsHaveContracts
<1>1. launch[l].contract \in Documents /\ Loads(launch[l].contract)
  BY DEF LInv, LaunchInv
<1>2. PICK t \in Versions : launch[l].contract = Document(t)
  BY <1>1 DEF Documents
<1>3. Document(t).of = t
  BY DEF Document
<1> QED
  BY <1>1, <1>2, <1>3, RoundTrip, LoadsIffConsumable

LEMMA NamesAreLegal == LInv => JobNamesLegal
BY JobNameLegal DEF LInv, LaunchInv, Alive, JobNamesLegal

LEMMA GreenRuns == LInv => GreenRunWasLaunched
BY DEF LInv, RunInv, Submitted, GreenRunWasLaunched

\* The launches keep their types, whatever run ids, threshold files, options
\* and number of launches there are.
THEOREM LaunchTypeCorrect == Spec => []TypeOK
<1>1. LInv => TypeOK
  BY DEF LInv
<1> QED
  BY <1>1, Initial, Inductive, PTL DEF Spec

\* resolve_thresholds' fallback and fail_on_blocker never let a job with too
\* many failures succeed without the row that says so.
THEOREM SuccessExplained == Spec => []SuccessIsExplained
BY Initial, Inductive, Explained, PTL DEF Spec

\* sanitize_job_name and Dataflow's refusal of an active name serialize the
\* direct jobs of a run_id that no operator named, whatever names the operators
\* give to others.
THEOREM DirectSerial == Spec => []DirectJobsSerial
BY Initial, Inductive, NamesLock, PTL DEF Spec

\* max_active_runs=1 and a task that waits for a running job serialize main().
THEOREM DagSerial == Spec => []DagLaunchersSerial
BY Initial, Inductive, OneLauncher, PTL DEF Spec

\* The DAG's task ends green only after a job of its run was accepted.
THEOREM GreenLaunched == Spec => []GreenRunWasLaunched
BY Initial, Inductive, GreenRuns, PTL DEF Spec

\* What load_ddl accepted is a whole contract of a table that can be written,
\* whenever extractions overwrote the file.
THEOREM LaunchContracts == Spec => []JobsHaveContracts
BY Initial, Inductive, ContractsLoaded, PTL DEF Spec

\* sanitize_job_name gives a legal name for every run_id and every cut.
THEOREM LegalNames == Spec => []JobNamesLegal
BY Initial, Inductive, NamesAreLegal, PTL DEF Spec
==============================================================================
