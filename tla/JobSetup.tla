------------------------------ MODULE JobSetup ------------------------------
(***************************************************************************)
(* What becomes of the data of one job in a docker container, from the     *)
(* task and the file to the log: prepareVariables and readConfig of        *)
(* internal/pipeline, Unmarshal, and Run of internal/job with Build,       *)
(* SetupMaskWriter, getImage, getDockerAuthConfig, Prepare and LogMask.    *)
(* Every text is a sequence of atoms.  What is left out here, errors of    *)
(* requests and cancellations apart from a failing pull, is in Pipeline    *)
(* and Job.                                                                *)
(***************************************************************************)
EXTENDS ConfigFile, Environment, Masker, Images

CONSTANTS
    AuthsOf  \* the texts that are credentials: for each registry one

VARIABLES
    given,   \* the record of task, file, runnerAuths, tags, leader and output
    phase,   \* where the job stands
    config,  \* process.config
    accepted, \* did Unmarshal return no error?
    raw,     \* the names Unmarshal has not decoded yet
    job,     \* the job of its loop
    parsed,  \* the configuration it will return
    auths,   \* the lists of contextPullAuth
    vars,    \* process.env
    image,   \* the expanded reference
    tags,    \* the tags of the images docker has
    sent,    \* the credentials the last pull was tried with
    said,    \* what has been written to the log
    held,    \* the incomplete line in the lineflushwriter
    shown    \* what the masker has passed on

decoding == <<raw, job, parsed>>
pull == <<image, tags, sent>>
log == <<said, held, shown>>
all == <<given, phase, config, accepted, decoding, auths, vars, pull, log>>

AuthKey == "DOCKER_AUTH_CONFIG"
JobName == "build"

(* the initial state of a job that is given a scenario *)
Start(scenario) ==
    /\ given = scenario
    /\ phase = "prepare"
    /\ config = Empty /\ accepted = FALSE
    /\ raw = {} /\ job = NoJob /\ parsed = Empty
    /\ auths = [runner |-> given.runnerAuths, env |-> <<>>,
                pipeline |-> <<>>, job |-> <<>>]
    /\ vars = <<>> /\ image = <<>> /\ tags = given.tags /\ sent = "unsent"
    /\ said = <<>> /\ held = <<>> /\ shown = <<>>

-----------------------------------------------------------------------------
(* The pipeline.                                                           *)

(* what Find makes of DOCKER_AUTH_CONFIG in the variables of the file *)
FoundIn(variables) ==
    LET i == Find(variables, AuthKey)
    IN IF i = 0 THEN {} ELSE {variables[i][2]}

Decodes(texts) == texts \subseteq DOMAIN AuthsOf

Decoded(texts) == IF texts = {} THEN <<>> ELSE AuthsOf[CHOOSE t \in texts : TRUE]

InEnv(task) ==
    IF AuthKey \in DOMAIN task.env THEN {task.env[AuthKey]} ELSE {}

(* prepareVariables, at a time when config is still empty *)
PrepareVariables ==
    /\ phase = "prepare"
    /\ LET file == FoundIn(config.variables)
           env == InEnv(given.task)
       IN IF Decodes(file \cup env)
          THEN /\ auths' = [auths EXCEPT !.pipeline = Decoded(file),
                                         !.env = Decoded(env)]
               /\ phase' = "parse"
          ELSE phase' = "failed" /\ UNCHANGED auths
    /\ UNCHANGED <<given, config, accepted, decoding, vars, pull, log>>

-----------------------------------------------------------------------------
(* Unmarshal, by the first job.                                            *)

(* Its locals are gone.  An error ends the first job, but not the jobs that *)
(* have waited for the file.                                               *)
Return(result, ok) ==
    /\ config' = result /\ accepted' = ok
    /\ phase' = IF ok \/ ~given.leader THEN "lookup" ELSE "failed"
    /\ raw' = {} /\ job' = NoJob /\ parsed' = Empty

(* The document, its image and its stages. *)
ReadHeading ==
    /\ phase = "parse"
    /\ LET root == given.file
       IN \/ ~ImageFits(root) /\ Return(Empty, FALSE)
          \/ /\ ImageFits(root) /\ ~StagesFit(root)
             /\ Return(Heading(root), FALSE)
          \/ /\ ImageFits(root) /\ StagesFit(root)
             /\ raw' = JobNames(root)
             /\ parsed' = Heading(root)
             /\ phase' = "decode"
             /\ UNCHANGED <<job, config, accepted>>
    /\ UNCHANGED <<given, auths, vars, pull, log>>

(* mutant: the job of the loop is declared before it *)
DecodeJobHoisted ==
    /\ phase = "decode"
    /\ \E name \in raw :
          LET node == Field(given.file, name)
          IN \/ /\ DecodeResult(node) = "ok"
                /\ job' = DecodeOver(job, node)
                /\ parsed' = WithJob(parsed, name, job')
                /\ raw' = raw \ {name}
                /\ UNCHANGED <<phase, config, accepted>>
             \/ DecodeResult(node) = "failed" /\ Return(parsed, FALSE)
             \/ /\ DecodeResult(node) = "panicked"
                /\ phase' = "failed"
                /\ raw' = {} /\ job' = NoJob /\ parsed' = Empty
                /\ UNCHANGED <<config, accepted>>
    /\ UNCHANGED <<given, auths, vars, pull, log>>

(* Go's map gives the names in any order.  The job of the loop is a new one *)
(* each time.  The first error ends the loop with what it has so far; a     *)
(* panic ends the first job and leaves process.config as it is.             *)
DecodeJob ==
    /\ phase = "decode"
    /\ \E name \in raw :
          LET node == Field(given.file, name)
          IN \/ /\ DecodeResult(node) = "ok"
                /\ job' = DecodeOver(NoJob, node)
                /\ parsed' = WithJob(parsed, name, job')
                /\ raw' = raw \ {name}
                /\ UNCHANGED <<phase, config, accepted>>
             \/ DecodeResult(node) = "failed" /\ Return(parsed, FALSE)
             \/ /\ DecodeResult(node) = "panicked"
                /\ phase' = "failed"
                /\ raw' = {} /\ job' = NoJob /\ parsed' = Empty
                /\ UNCHANGED <<config, accepted>>
    /\ UNCHANGED <<given, auths, vars, pull, log>>

(* the variables of the pipeline, at the very end *)
DecodeVariables ==
    /\ phase = "decode" /\ raw = {}
    /\ LET node == Field(given.file, "variables")
       IN \/ IsMapSlice(node)
             /\ Return([parsed EXCEPT !.variables = MapSlice(node)], TRUE)
          \/ ~IsMapSlice(node) /\ Return(parsed, FALSE)
    /\ UNCHANGED <<given, auths, vars, pull, log>>

-----------------------------------------------------------------------------
(* The job.                                                                *)

ConfigJob == config.jobs[JobName]

(* the lookup, the environment and the mask writer *)
Lookup ==
    /\ phase = "lookup"
    /\ IF JobName \in DOMAIN config.jobs
       THEN /\ vars' \in Build(given.task, config.variables,
                               ConfigJob.variables)
            /\ phase' = "image"
       ELSE phase' = "failed" /\ UNCHANGED vars
    /\ UNCHANGED <<given, config, accepted, decoding, auths, pull, log>>

(* expandEnv does not ask the operating system *)
ExpandEnv(text) ==
    ExpandBy(text, [name \in Names |-> IF name \in DOMAIN vars
                                       THEN vars[name] ELSE <<>>])

(* getImage and getDockerAuthConfig *)
ChooseImage ==
    /\ phase = "image"
    /\ image' = ExpandEnv(ImageOf(ConfigJob, config))
    /\ LET found == FoundIn(ConfigJob.variables)
       IN IF Decodes(found)
          THEN /\ auths' = [auths EXCEPT !.job = Decoded(found)]
               /\ phase' = "prepareImage"
          ELSE phase' = "failed" /\ UNCHANGED auths
    /\ UNCHANGED <<given, config, accepted, decoding, vars, tags, sent, log>>

(* Prepare before the pull *)
FindImage ==
    /\ phase = "prepareImage"
    /\ phase' = IF HasImage(tags, Tag(image)) THEN "commands" ELSE "pull"
    /\ UNCHANGED <<given, config, accepted, decoding, auths, vars, pull, log>>

(* contextPullAuth.List *)
AuthLists == <<auths.runner, auths.env, auths.pipeline, auths.job>>

Chosen == ChooseAuth(AuthLists, Registry(image))

(* PullImage *)
PullImage ==
    /\ phase = "pull"
    /\ IF Encodes(Chosen)
       THEN /\ sent' = Chosen
            /\ \/ tags' = tags \cup {Normalized(Tag(image))}
                  /\ phase' = "findAgain"
               \/ phase' = "failed" /\ UNCHANGED tags
       ELSE phase' = "failed" /\ UNCHANGED <<sent, tags>>
    /\ UNCHANGED <<given, config, accepted, decoding, auths, vars, image, log>>

(* Prepare after the pull *)
FindAgain ==
    /\ phase = "findAgain"
    /\ phase' = IF HasImage(tags, Tag(image)) THEN "commands" ELSE "failed"
    /\ UNCHANGED <<given, config, accepted, decoding, auths, vars, pull, log>>

(* The commands print a text that may refer to their environment, in       *)
(* portions of any size.                                                   *)
Output == ExpandEnv(given.output)

(* mutant: every portion goes to the masker at once *)
LogMaskUnheld ==
    /\ phase = "commands" /\ Len(said) < Len(Output)
    /\ \E n \in Len(said) + 1 .. Len(Output) :
          LET portion == SubSeq(Output, Len(said) + 1, n)
          IN /\ said' = said \o portion
             /\ shown' = shown \o Mask(Secrets(vars, given.task.mask), portion)
    /\ UNCHANGED <<given, phase, config, accepted, decoding, auths, vars, pull,
                   held>>

(* LogMask: only complete lines get to the masker *)
LogMask ==
    /\ phase = "commands" /\ Len(said) < Len(Output)
    /\ \E n \in Len(said) + 1 .. Len(Output) :
          LET portion == SubSeq(Output, Len(said) + 1, n)
              text == held \o portion
          IN /\ said' = said \o portion
             /\ held' = Rest(text)
             /\ shown' = shown \o Mask(Secrets(vars, given.task.mask),
                                       Complete(text))
    /\ UNCHANGED <<given, phase, config, accepted, decoding, auths, vars, pull>>

(* the mask writer completes the last line *)
Close ==
    /\ phase = "commands" /\ Len(said) = Len(Output)
    /\ phase' = "closed" /\ held' = <<>>
    /\ shown' = IF held = <<>> THEN shown
                ELSE shown \o Mask(Secrets(vars, given.task.mask),
                                   held \o <<NL>>)
    /\ UNCHANGED <<given, config, accepted, decoding, auths, vars, pull, said>>

Next ==
    \/ PrepareVariables \/ ReadHeading \/ DecodeJob \/ DecodeVariables
    \/ Lookup \/ ChooseImage \/ FindImage \/ PullImage \/ FindAgain
    \/ LogMask \/ Close

-----------------------------------------------------------------------------
(* Properties.                                                             *)

(* the file Unmarshal ought to accept *)
WellFormed(root) ==
    /\ ImageFits(root) /\ StagesFit(root)
    /\ \A name \in JobNames(root) : DecodeResult(Field(root, name)) = "ok"
    /\ IsMapSlice(Field(root, "variables"))

(* a job as its own node says, whatever was decoded before it *)
Written(node) ==
    [variables |-> MapSlice(Field(node, "variables")),
     image |-> Field(node, "image").text]

(* Wherever the loop over the jobs has ended and whatever its order was, a *)
(* job of process.config is one of the file, could be decoded, and has     *)
(* nothing from another job.  A file is accepted exactly if it is well     *)
(* formed, and then as a whole.  Only the jobs that waited go on with a    *)
(* partial configuration, and it has no variables of the pipeline.         *)
JobsAsWritten ==
    LET file == given.file
    IN /\ \A name \in DOMAIN config.jobs :
              /\ name \in JobNames(file)
              /\ DecodeResult(Field(file, name)) = "ok"
              /\ config.jobs[name] = Written(Field(file, name))
       /\ accepted =>
              /\ WellFormed(file)
              /\ DOMAIN config.jobs = JobNames(file)
              /\ config.image = Field(file, "image").text
              /\ config.variables = MapSlice(Field(file, "variables"))
       /\ ~accepted => config.variables = <<>>
       /\ ~accepted /\ phase \notin {"prepare", "parse", "decode"} =>
              \/ ~WellFormed(file) /\ (phase # "failed" => ~given.leader)
              \/ phase = "failed" /\ ~Decodes(InEnv(given.task))

(* the pairs of the file, in the order of their precedence *)
FilePairs == config.variables \o ConfigJob.variables

(* the last pair that sets a name, 0 if there is none *)
LastOf(pairs, name) == SelectLastInSeq(pairs, LAMBDA pair : pair[1] = name)

(* the index of the pair that decides on a name, 0 if it is not the file   *)
Deciding(name) == LastOf(FilePairs, name)

(* names in a text that nobody sets at or behind a position *)
Settled(i, text) ==
    \A k \in DOMAIN text : text[k] \in Names =>
        Deciding(text[k]) < i /\ text[k] \notin SpecialNames

(* A variable has the value of the innermost layer that sets it, job over  *)
(* pipeline over task, and the references in it have theirs, unless they   *)
(* are set again later; none of them can set a name of SpecialNames.      *)
LayersInOrder ==
    vars # <<>> =>
        /\ \A name \in SpecialNames : vars[name] = Special[name]
        /\ \A name \in DOMAIN vars \ SpecialNames :
               LET i == Deciding(name)
                   text == FilePairs[i][2]
               IN /\ i # 0 /\ Settled(i, text) => vars[name] = Expand(vars, text)
                  /\ i = 0 /\ name \notin DOMAIN given.task.env =>
                         vars[name] = Builtin(given.task)[name]
                  /\ i = 0 /\ name \in DOMAIN given.task.env =>
                         \/ vars[name] = Expand(vars, given.task.env[name])
                         \/ ToSet(given.task.env[name]) \cap Names # {}

(* Whatever the portions are it is written in: the log shows no secret     *)
(* whole, nothing of a secret that no other one runs into from the left,   *)
(* and everything that is not part of a secret.                            *)
SecretsMasked ==
    Hides(Secrets(vars, given.task.mask),
          SubSeq(Append(said, NL), 1, Len(shown)), shown)

Offered(texts, registry) ==
    {AuthsOf[t][registry] :
        t \in {u \in texts \cap DOMAIN AuthsOf : registry \in DOMAIN AuthsOf[u]}}

TextsFor(variables) ==
    {pair[2] : pair \in {p \in ToSet(variables) : p[1] = AuthKey}}

InFile == TextsFor(config.variables) \cup TextsFor(ConfigJob.variables)

(* The image a container is created from is the one that was found or      *)
(* pulled.  A registry gets credentials that are meant for it, and those   *)
(* of the runner only when the task has none.                              *)
PulledAsMeant ==
    /\ phase = "commands" => Normalized(image) \in tags
    /\ sent # "unsent" =>
           LET registry == Registry(image)
               ofRunner == IF registry \in DOMAIN given.runnerAuths
                           THEN {given.runnerAuths[registry]} ELSE {}
               ofTask == Offered(InEnv(given.task), registry)
               ofFile == Offered(InFile, registry)
           IN \/ sent \in ofTask \cup ofFile
              \/ ofTask = {} /\ sent \in ofRunner
              \/ ofTask \cup ofRunner = {} /\ sent = "none"

(* Credentials that the file has for the registry, at either level, are    *)
(* used.                                                                   *)
AuthSpecified ==
    sent # "unsent" /\ Offered(InFile, Registry(image)) # {} =>
        sent \in Offered(InFile, Registry(image))
=============================================================================
