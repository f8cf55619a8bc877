-------------------------------- MODULE Sandbox --------------------------------
(***************************************************************************)
(* What a remediation establishes: the container scripts and their staged  *)
(* output, the triage and inspection read back from it, the model's        *)
(* answers, and the propose-verify-repair loop of one candidate.           *)
(*                                                                         *)
(* There is no state here: TriageEnds, InspectEnds and Proposed are the    *)
(* sets of results those procedures can return, over every way a container *)
(* can run and every kind of answer a model can give.                      *)
(*                                                                         *)
(* A definition directly above the one it is a slip of is that             *)
(* definition's mutant: nothing else uses it.                              *)
(***************************************************************************)
EXTENDS Integers, Sequences, FiniteSets, SequencesExt

CONSTANTS
  MaxRepairs   \* Runner.MaxRepairs, as configured

ASSUME RepairsAssumption == MaxRepairs \in Int

-----------------------------------------------------------------------------
(* A container: its script is a sequence of stages, and a run of it is the *)
(* stages that ended, and how the container ended after them.              *)

Repositories == [setup : BOOLEAN, build : BOOLEAN, test : BOOLEAN]

stageIf(declared, stage) == IF declared THEN <<stage>> ELSE <<>>

BuildScript(repo) ==
  <<"clone", "harness", "diff">> \o stageIf(repo.setup, "setup")
    \o stageIf(repo.build, "build") \o stageIf(repo.test, "test")
TriageScript  == <<"clone", "commit", "commit_log", "files", "source", "listing">>
InspectScript == <<"clone", "tree", "sources">>

\* The service's own commands may leave their last line unfinished; the write of
\* the files, a loop that ends in echo, either reports zero or leaves the script.
\* It looks only whether each file is there: a file that was there before and could
\* not be replaced, on a full disk, is taken to be written here as it is there.
Ended(stage) ==
  [exit : IF stage \in {"harness", "tree"} THEN {0} ELSE {0, 1},
   newline : IF stage \in {"setup", "build", "test", "sources"} THEN BOOLEAN ELSE {TRUE}]
Aborts == {"harness", "commit", "tree"}   \* `|| exit` at these stages or before them
Endings(script, n) ==
  IF n = Len(script) THEN {"finished"}
  ELSE {"killed", "killed in marker"} \cup (IF script[n + 1] \in Aborts THEN {"aborted"} ELSE {})

Executions(script) ==
  LET ended[n \in 0..Len(script)] ==
        IF n = 0 THEN {<<>>}
        ELSE {Append(s, e) : s \in ended[n - 1], e \in Ended(script[n])}
  IN UNION {{[stages |-> s, ending |-> x] : s \in ended[n], x \in Endings(script, n)} : n \in 0..Len(script)}

Line(kind, stage, code) == [kind |-> kind, stage |-> stage, code |-> code]
Text == Line("text", "none", 0)
\* An unfinished last line swallows the end marker that follows it.
Printed(stage, e) ==
  <<Line("begin", stage, 0)>>
    \o (IF e.newline THEN <<Text, Line("end", stage, e.exit)>> ELSE <<Text>>)
Unmarked == -1
Output(script, ex) ==
  LET n == Len(ex.stages)
  IN FoldLeft(LAMBDA out, k : out \o Printed(script[k], ex.stages[k]), <<>>, [k \in 1..n |-> k])
       \o (IF ex.ending = "finished" THEN <<>>
           ELSE <<Line("begin", script[n + 1], 0), Text>>
                  \o (IF ex.ending = "killed in marker" THEN <<Line("end", script[n + 1], Unmarked)>> ELSE <<>>))

\* A marker without a code reads as zero.
splitEnd(line) == IF line.code = Unmarked THEN 0 ELSE line.code

Skipped == [ran |-> FALSE, exit |-> 0]
Stages  == {"clone", "harness", "diff", "setup", "build", "test", "commit", "commit_log",
            "files", "source", "listing", "tree", "sources"}

ParseSections(output) ==
  FoldLeft(LAMBDA p, line :
             CASE line.kind = "begin" -> [p EXCEPT !.current = line.stage]
               [] line.kind = "end" ->
                    [current  |-> "none",
                     sections |-> IF line.stage # p.current THEN p.sections
                                  ELSE [p.sections EXCEPT ![line.stage] = [ran |-> TRUE, exit |-> splitEnd(line)]]]
               [] OTHER -> p,
           [current |-> "none", sections |-> [s \in Stages |-> Skipped]], output).sections

PassedUnrun(section) == section.exit = 0
Passed(section) == section.ran /\ section.exit = 0

\* What the stage really did: it came to its end, with this status.
Really(script, ex, stage, exit) ==
  \E k \in DOMAIN ex.stages : script[k] = stage /\ (ex.stages[k].exit = 0) = (exit = 0)

-----------------------------------------------------------------------------
(* The gate.                                                               *)

\* A JSON block counts when it parses and names a status; else the prose decides.
TriageAnswers == [block : {"absent", "garbled", "confirmed", "present", "fixed", "not_present", "unclear", "other"},
                  prose : {"not_present", "confirmed", "neither"}]
triageFromProse(answer) == IF answer.prose = "neither" THEN "inconclusive" ELSE answer.prose
normaliseTriage(raw) ==
  CASE raw \in {"confirmed", "present"} -> "confirmed"
    [] raw \in {"not_present", "fixed"} -> "not_present"
    [] raw = "unclear" -> "inconclusive"
    [] OTHER -> "unstated"
parseTriage(answer) ==
  LET status == normaliseTriage(answer.block)
  IN IF status = "unstated" THEN triageFromProse(answer) ELSE status

\* The results of Judge: with no commit in the checkout no model is asked.
Judge(sections) ==
  IF ~ Passed(sections["commit"]) THEN {"commit_missing"}
  ELSE {parseTriage(answer) : answer \in TriageAnswers} \cup {"error"}

\* The mapping and Runner.triage, when the verdict names a commit and when it does not.
Gathered ==
  {"error"} \cup UNION {LET sections == ParseSections(Output(TriageScript, ex))
                        IN IF Passed(sections["clone"]) THEN Judge(sections) ELSE {"error"}
                        : ex \in Executions(TriageScript)}
TriageEnds(sha) == IF sha THEN Gathered ELSE {"commit_missing", "error"}
ShouldRemediate(triage) == triage \in {"confirmed", "inconclusive"}

\* A file of the inspection comes back missing, too large, whole, or, when it
\* does not end in a newline, not at all: the end marker is on its last line.
Files == [exists : BOOLEAN, large : BOOLEAN, newline : BOOLEAN, listed : BOOLEAN]
ParseSources(file) ==
  CASE ~ file.exists -> "missing"
    [] file.exists /\ file.large -> "too large"
    [] file.exists /\ ~ file.large /\ file.newline -> "whole"
    [] OTHER -> "unseen"
readable(file) == ParseSources(file) = "whole"

InspectEnds ==
  {"error"} \cup UNION {LET sections == ParseSections(Output(InspectScript, ex))
                        IN IF ~ Passed(sections["clone"]) \/ ~ sections["sources"].ran THEN {"error"}
                           ELSE {IF readable(file) THEN "read" ELSE "error" : file \in Files}
                        : ex \in Executions(InspectScript)}

-----------------------------------------------------------------------------
(* What a model proposes: the files it would write, here one.              *)

\* path: where the file lies; closed: the block was terminated; standIn: a line that
\* stands for the rest of the file, which counts only as a comment.
Answers == [writes : BOOLEAN, closed : BOOLEAN, path : {"inside", "absolute", "above"}, delimiter : BOOLEAN,
            shrunk : BOOLEAN, standIn : {"none", "comment", "code"}, file : Files]

ParseProposal(answer)  == answer.writes => answer.closed
repoPath(answer)       == answer.path = "inside"
validateEdits(answer)  == answer.writes => repoPath(answer) /\ ~ answer.delimiter
standInLine(answer)    == answer.standIn = "comment"

\* seen: how the prompt showed the file; a path it did not show must not exist
\* in the listing.
checkWholeFiles(answer, seen) ==
  answer.writes =>
    /\ seen # "too large"
    /\ seen = "whole" => ~ answer.shrunk /\ ~ standInLine(answer)
    /\ seen = "unseen" => ~ (answer.file.exists /\ answer.file.listed)

Accepted(seen) ==
  {a \in Answers : ParseProposal(a) /\ validateEdits(a) /\ checkWholeFiles(a, IF seen = "as found" THEN ParseSources(a.file) ELSE seen)}

\* An edit that replaces contents the model was never shown.
Blind(answer) == answer.writes /\ answer.file.exists /\ ParseSources(answer.file) # "whole"

-----------------------------------------------------------------------------
(* What a container proved.                                                *)

verificationFrom(sections, timedOut) ==
  [applied  |-> Passed(sections["harness"]),
   buildRan |-> sections["build"].ran, built  |-> Passed(sections["build"]),
   testRan  |-> sections["test"].ran,  tested |-> Passed(sections["test"]),
   timedOut |-> timedOut]

Strength(v) ==
  CASE ~ v.applied -> 0
    [] v.applied /\ v.testRan /\ v.tested -> 3
    [] v.applied /\ ~ (v.testRan /\ v.tested) /\ v.buildRan /\ v.built -> 2
    [] OTHER -> 1

Satisfied(v, repo) ==
  /\ v.applied
  /\ repo.test => v.testRan /\ v.tested
  /\ ~ repo.test /\ repo.build => v.buildRan /\ v.built

\* The build or the tests said no.
Rejected(v)    == (v.buildRan /\ ~ v.built) \/ (v.testRan /\ ~ v.tested)
NeedsRepair(v) == v.applied /\ ~ v.timedOut /\ Rejected(v)

repairBudget == IF MaxRepairs > 0 THEN MaxRepairs ELSE IF MaxRepairs < 0 THEN 0 ELSE 1

\* Every run of the build script, and whether all it claims really happened; a
\* container killed inside an end marker is beyond what can be told.
Verifications(repo) ==
  LET script == BuildScript(repo)
      claimed(ex, sections, timedOut) ==
        LET v == verificationFrom(sections, timedOut)
        IN [cloned |-> Passed(sections["clone"]), v |-> v, diffed |-> sections["diff"].ran,
            honest |-> \/ ex.ending = "killed in marker"
                       \/ /\ v.applied => Really(script, ex, "harness", 0)
                          /\ v.buildRan => Really(script, ex, "build", IF v.built THEN 0 ELSE 1)
                          /\ v.testRan => Really(script, ex, "test", IF v.tested THEN 0 ELSE 1)
                          /\ v.built => v.buildRan
                          /\ v.tested => v.testRan]
  IN UNION {LET sections == ParseSections(Output(script, ex))
            IN {claimed(ex, sections, timedOut) :
                  timedOut \in IF ex.ending \in {"finished", "aborted"} THEN {FALSE} ELSE BOOLEAN}
            : ex \in Executions(script)}

-----------------------------------------------------------------------------
(* One candidate.                                                          *)

\* verified: its verification is of the files it holds; rejected: it names a failed
\* build or failed tests.
Candidate == [failed : BOOLEAN, usable : BOOLEAN, strength : 0..3, rejected : BOOLEAN,
              verified : BOOLEAN, honest : BOOLEAN, blind : {"no", "unlisted", "listed"}]
Refused == [failed |-> TRUE, usable |-> FALSE, strength |-> 0, rejected |-> FALSE,
            verified |-> TRUE, honest |-> TRUE, blind |-> "no"]

Whole(answer) == IF ~ Blind(answer) THEN "no" ELSE IF answer.file.listed THEN "listed" ELSE "unlisted"

\* The container did not run, or could not clone: the files are the new ones, the
\* verification is what was there.
Unrun(c, blind) == [c EXCEPT !.failed = TRUE, !.usable = FALSE, !.verified = c.strength = 0, !.blind = blind]

\* One pass of the loop with an accepted answer, over the candidate c so far.
Verify(c, blind, run) ==
  IF ~ run.cloned THEN {Unrun(c, blind)}
  ELSE {[failed |-> run.v.applied /\ ~ changed, usable |-> run.v.applied /\ changed,
         strength |-> Strength(run.v), rejected |-> Rejected(run.v), verified |-> TRUE,
         honest |-> run.honest, blind |-> blind]
        : changed \in IF run.diffed THEN BOOLEAN ELSE {FALSE}}

\* A repair shows the model only its own last files.
Repaired(blind) == {blind} \cup {Whole(a) : a \in {x \in Accepted("unseen") : x.writes}}

\* Runner.candidate: a candidate shown its own failure keeps what the last round
\* proved, until the next container has run; whatever ends the repair, it stands.
candidate(repo) ==
  LET containers == Verifications(repo)
      attempt(c, blind, n) ==
        {[c |-> Unrun(c, blind), again |-> FALSE]}
          \cup UNION {{[c |-> r, again |-> r.usable /\ n < repairBudget /\ NeedsRepair(run.v) /\ ~ Satisfied(run.v, repo)]
                       : r \in Verify(c, blind, run)} : run \in containers}
      pass[n \in 0..repairBudget] ==
        IF n = 0
        THEN UNION {attempt(Refused, blind, 0) : blind \in {Whole(a) : a \in {x \in Accepted("as found") : x.writes}}}
        ELSE UNION {UNION {attempt(r.c, blind, n) : blind \in Repaired(r.c.blind)} : r \in {x \in pass[n - 1] : x.again}}
  IN {Refused} \cup UNION {{r.c : r \in pass[n]} : n \in 0..repairBudget}

Proposed == UNION {candidate(repo) : repo \in Repositories}

\* Best first: what can be used, then what was proved.
Better(a, b) == (a.usable /\ ~ b.usable) \/ (a.usable = b.usable /\ a.strength > b.strength)
=============================================================================
