------------------------------- MODULE Action --------------------------------
(* The GitHub action: install, which puts prk on the runner, and inject,     *)
(* which reads the secrets of an environment with it and hands them to the   *)
(* later steps of the job (action/*.mjs). The registry's latest tag may move *)
(* at any time; either step may be killed between two of its effects.        *)
(*                                                                           *)
(* A value is a sequence of lines; a line is a model of its text: "a", "b",  *)
(* "blank", or one of the delimiters that may be drawn. Not modelled: the    *)
(* texts, the exit codes' hints, the version as an output of the job.        *)
EXTENDS Naturals, Sequences, FiniteSets, SequencesExt

CONSTANTS Version,     \* The published versions of the CLI.
          Admits,      \* Of each range of versions, those in it.
          Tags,        \* The registry's tags but latest.
          Sound,       \* Versions that carry provenance, as do their dependencies.
          Inputs,      \* What the workflow may pass.
          Environment, \* What prk may read: a function from keys to values.
          Delimiters,  \* What may be drawn as a delimiter, in one draw.
          MaxAttempts  \* Draws before giving up (8 in the code).

VARIABLES inputs,    \* The inputs of this job.
          latest,    \* The version the latest tag names.
          step,      \* Where the job stands.
          staged,    \* The version in the staging directory.
          installed, \* The version on the PATH.
          secrets,   \* What prk read.
          masks,     \* The payloads registered with the runner.
          warned,    \* What the log warns of.
          draws,     \* Delimiters drawn.
          envFile, outFile \* The two files the runner reads, line by line.

vars == <<inputs, latest, step, staged, installed, secrets, masks, warned, draws,
          envFile, outFile>>

None == "no version"

-----------------------------------------------------------------------------
(* The inputs.                                                               *)

(* TRUE, FALSE, or a refusal: an unknown word is not taken for either.       *)
ParseBoolean(raw, fallback) ==
    CASE raw = "" -> <<fallback>>
      [] raw \in {"true", "1", "yes", "on"} -> <<TRUE>>
      [] raw \in {"false", "0", "no", "off"} -> <<FALSE>>
      [] OTHER -> <<>>

ReadInputs(raw) ==
    IF \/ raw.url # "https" \/ ~raw.token \/ ~raw.project
       \/ raw.prefix = "not a name"
       \/ raw.exportTo \notin {"env", "outputs"}
       \/ ParseBoolean(raw.mask, TRUE) = <<>>
    THEN <<>>
    ELSE <<[raw EXCEPT !.mask = ParseBoolean(raw.mask, TRUE)[1]]>>

Refused == ReadInputs(inputs) = <<>>
Read == ReadInputs(inputs)[1]

(* The CLI's version: the one asked for, by itself, a range or a tag; or the *)
(* one the action's own tag names; or the latest. A path or URL is refused.  *)
ResolveVersionSpec ==
    CASE Read.version \in Version \union DOMAIN Admits \union Tags \union {"latest"} -> Read.version
      [] Read.version # "" -> "refused"
      [] Read.actionRef \in Version -> Read.actionRef
      [] OTHER -> "latest"

-----------------------------------------------------------------------------
(* What is injected.                                                         *)

Keys == <<"A", "B", "BAD-NAME", "PATH">>

IsValidEnvName(prefix, key) == key # "BAD-NAME" /\ prefix # "TOO_LONG_"
IsUnsafeName(prefix, key) == prefix = "GITHUB_" \/ (prefix = "" /\ key = "PATH")

Selected == IF Read.allowlist = {} THEN DOMAIN secrets ELSE Read.allowlist

Missing == Selected \ DOMAIN secrets

Skipped == {key \in Selected \ Missing :
                \/ ~IsValidEnvName(Read.prefix, key)
                \/ ~Read.allowUnsafe /\ IsUnsafeName(Read.prefix, key)}

(* In the order of their names.                                              *)
Entries == SelectSeq(Keys, LAMBDA key : key \in (Selected \ Missing) \ Skipped)

Blank(text) == \A k \in DOMAIN text : text[k] = "blank"

(* The whole value and each of its lines; nothing of blanks.                 *)
MaskPayloads(text) ==
    IF Blank(text) THEN {}
    ELSE {text} \union {<<text[k]>> : k \in {l \in DOMAIN text : text[l] # "blank"}}

Payloads == UNION {MaskPayloads(secrets[Entries[k]]) : k \in DOMAIN Entries}

(* A key's assignment: a line with the name and the delimiter, the lines of  *)
(* the text, the delimiter.                                                  *)
Lines(text) == [k \in DOMAIN text |-> <<text[k]>>]
RenderAssignment(name, text, delimiter) ==
    <<<<name, delimiter>>>> \o Lines(text) \o <<<<delimiter>>>>

RenderBlock(delimiter) ==
    FlattenSeq([k \in DOMAIN Entries |->
        RenderAssignment(Entries[k], secrets[Entries[k]], delimiter)])

(* The names and values as one line of JSON.                                 *)
Document == <<"document">>

FitDelimiter(delimiter) ==
    \A k \in DOMAIN Entries : ~Contains(secrets[Entries[k]], delimiter)

-----------------------------------------------------------------------------
Init ==
    /\ inputs \in Inputs
    /\ latest \in Version
    /\ step = "start"
    /\ staged = None /\ installed = None
    /\ secrets = << >> /\ masks = {} /\ warned = {} /\ draws = 0
    /\ envFile = <<>> /\ outFile = <<>>

job == <<staged, installed, secrets, masks, warned, draws, envFile, outFile>>
Goes(next) == step' = next /\ UNCHANGED <<inputs, latest>>

(* The tag moves.                                                            *)
MoveTag ==
    /\ step \in {"start", "staged", "verified"}
    /\ \E v \in Version \ {latest} : latest' = v
    /\ UNCHANGED <<inputs, step, job>>

(* Any error ends the step, and the job with it; so does a cancellation.     *)
Fail ==
    /\ step \notin {"done", "failed"}
    /\ Goes("failed") /\ UNCHANGED job

(* What npm may take a spec for: of a range, the newest version that has     *)
(* been published by then; of another tag, whatever it names by then.        *)
Resolves(spec) ==
    CASE spec = "latest" -> {latest}
      [] spec \in DOMAIN Admits -> Admits[spec]
      [] spec \in Tags -> Version
      [] OTHER -> {spec}

Stage ==
    /\ step = "start" /\ ~Refused /\ ResolveVersionSpec # "refused"
    /\ staged' \in Resolves(ResolveVersionSpec)
    /\ Goes("staged")
    /\ UNCHANGED <<installed, secrets, masks, warned, draws, envFile, outFile>>

(* npm's report on what is staged: an error, what it could not verify, what  *)
(* it verified.                                                              *)
Report(version) ==
    {[error |-> TRUE, unverified |-> FALSE, verified |-> {}],
     [error |-> FALSE, unverified |-> version \notin Sound,
      verified |-> IF version \in Sound THEN {version} ELSE {}],
     [error |-> FALSE, unverified |-> FALSE,
      verified |-> IF version \in Sound THEN {version} ELSE {}]}

VerifiedVersion(report) ==
    IF report.error \/ report.unverified THEN {} ELSE report.verified

(* The version that verified takes the place of the one asked for.           *)
Verify ==
    /\ step = "staged"
    /\ \E report \in Report(staged) : VerifiedVersion(report) = {staged}
    /\ Goes("verified") /\ UNCHANGED job

(* The mistake of installing what was asked for.                             *)
InstallSpec ==
    /\ step = "verified"
    /\ installed' \in Resolves(ResolveVersionSpec)
    /\ Goes("installed")
    /\ UNCHANGED <<staged, secrets, masks, warned, draws, envFile, outFile>>

Install ==
    /\ step = "verified"
    /\ installed' = staged
    /\ Goes("installed")
    /\ UNCHANGED <<staged, secrets, masks, warned, draws, envFile, outFile>>

(* prk's environment: the inputs over the job's, an empty directory for its  *)
(* settings.                                                                 *)
CliEnvironment(base) == [base EXCEPT !.url = Read.url, !.profile = "", !.profiles = {}]

(* Which server prk then asks: none if two are named at once.                *)
ServerOf(env) ==
    CASE env.profile # "" /\ env.url # "" -> "refused"
      [] env.url # "" -> env.url
      [] env.profiles # {} -> CHOOSE p \in env.profiles : TRUE
      [] OTHER -> "refused"

RunPrk ==
    /\ step = "installed"
    /\ \E base \in [url : {"", "http"}, profile : {"", "p"}, profiles : {{}, {"p"}}] :
           ServerOf(CliEnvironment(base)) = Read.url
    /\ secrets' \in Environment
    /\ Goes("read")
    /\ UNCHANGED <<staged, installed, masks, warned, draws, envFile, outFile>>

(* The plan: refused if a key that is asked for is not there.                *)
PlanInjection ==
    /\ step = "read" /\ Missing = {}
    /\ warned' = Skipped \union (IF Read.mask THEN {} ELSE {"masking is disabled"})
    /\ Goes("planned")
    /\ UNCHANGED <<staged, installed, secrets, masks, draws, envFile, outFile>>

Mask ==
    /\ step = "planned" /\ Read.mask
    /\ \E payload \in Payloads \ masks : masks' = masks \union {payload}
    /\ UNCHANGED <<inputs, latest, step, staged, installed, secrets, warned, draws,
                   envFile, outFile>>

MaskingIsDone == Read.mask => Payloads \subseteq masks

(* A draw that does not fit is drawn again.                                  *)
Redraw ==
    /\ step = "planned" /\ MaskingIsDone /\ draws + 1 < MaxAttempts
    /\ \E d \in Delimiters : ~FitDelimiter(d)
    /\ draws' = draws + 1
    /\ UNCHANGED <<inputs, latest, step, staged, installed, secrets, masks, warned,
                   envFile, outFile>>

Write ==
    /\ step = "planned" /\ MaskingIsDone
    /\ \E d \in {e \in Delimiters : FitDelimiter(e)} :
           IF Read.exportTo = "env" THEN envFile' = RenderBlock(d) /\ UNCHANGED outFile
           ELSE /\ outFile' = RenderAssignment("secrets", Document, d)
                /\ UNCHANGED envFile
    /\ Goes("written")
    /\ UNCHANGED <<staged, installed, secrets, masks, warned, draws>>

(* The names, one to a line; one empty line if there are none.               *)
NamesText == IF Entries = <<>> THEN <<"blank">> ELSE Entries

WriteNames ==
    /\ step = "written"
    /\ \E d \in Delimiters : outFile' = outFile \o RenderAssignment("keys", NamesText, d)
    /\ Goes("done")
    /\ UNCHANGED <<staged, installed, secrets, masks, warned, draws, envFile>>

Next ==
    \/ MoveTag \/ Fail
    \/ Stage \/ Verify \/ Install
    \/ RunPrk \/ PlanInjection \/ Mask \/ Redraw \/ Write \/ WriteNames

Spec == Init /\ [][Next]_vars

-----------------------------------------------------------------------------
(* The prk on the runner is a version whose provenance was verified, as is   *)
(* that of what it depends on, wherever the tag has moved; and the one asked *)
(* for, or one of the range asked for, if the workflow asks for one.         *)
OnlyVerifiedVersionsRun ==
    installed # None =>
        /\ installed \in Sound
        /\ ResolveVersionSpec \in Version => installed = ResolveVersionSpec
        /\ ResolveVersionSpec \in DOMAIN Admits => installed \in Admits[ResolveVersionSpec]

(* The runner's reading of a file: an assignment goes on to the next line    *)
(* that is its delimiter.                                                    *)
RECURSIVE RunnerReads(_)
RunnerReads(lines) ==
    LET ends == {l \in 2..Len(lines) : lines[l] = <<lines[1][2]>>}
        end == CHOOSE l \in ends : \A m \in ends : l <= m
    IN  IF lines = <<>> THEN <<>>
        ELSE IF Len(lines[1]) # 2 \/ ends = {} THEN <<"malformed">>
        ELSE <<[name |-> lines[1][1], text |-> SubSeq(lines, 2, end - 1)]>>
             \o RunnerReads(SubSeq(lines, end + 1, Len(lines)))

(* What the later steps are given is what was planned, every value line by   *)
(* line, whatever the values hold; and at the end the names.                 *)
FilesReadBackAsPlanned ==
    /\ envFile # <<>> =>
           RunnerReads(envFile) = [k \in DOMAIN Entries |->
               [name |-> Entries[k], text |-> Lines(secrets[Entries[k]])]]
    /\ step = "done" => Last(RunnerReads(outFile)) = [name |-> "keys", text |-> Lines(NamesText)]

(* Before a value is written anywhere, each line a later step might print of *)
(* it is masked, unless the workflow turned masking off in so many words,    *)
(* which the log says. A step that ends has injected every key it was asked  *)
(* for, or warned of it.                                                     *)
NothingIsWrittenUnmasked ==
    /\ envFile # <<>> \/ outFile # <<>> =>
           \/ inputs.mask \in {"false", "0", "no", "off"} /\ "masking is disabled" \in warned
           \/ \A k \in DOMAIN Entries : \A l \in DOMAIN secrets[Entries[k]] :
                  secrets[Entries[k]][l] # "blank" => <<secrets[Entries[k]][l]>> \in masks
    /\ step = "done" => Selected = Range(Entries) \union (warned \ {"masking is disabled"})
=============================================================================
