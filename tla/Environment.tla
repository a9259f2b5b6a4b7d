---------------------------- MODULE Environment ----------------------------
(***************************************************************************)
(* Builder.build of internal/env/env.go.  A text is a sequence of atoms; a *)
(* name in it is a reference $name, every other atom a piece of text.      *)
(***************************************************************************)
EXTENDS SequencesExt

CONSTANTS
    Names,   \* the variables that texts refer to
    OsEnv    \* the environment of the runner's own process

ASSUME EnvironmentAssumption ==
    \A name \in DOMAIN OsEnv : OsEnv[name] \in Seq(STRING)

Value(vars, name) ==
    CASE name \in DOMAIN vars -> vars[name]
      [] name \notin DOMAIN vars /\ name \in DOMAIN OsEnv -> OsEnv[name]
      [] OTHER -> <<>>

(* os.Expand: what a reference stands for is not expanded again *)
ExpandBy(text, value) ==
    FlattenSeq([i \in DOMAIN text |->
                   IF text[i] \in Names THEN value[text[i]] ELSE <<text[i]>>])

Expand(vars, text) == ExpandBy(text, [name \in Names |-> Value(vars, name)])

(* vars[key] = os.Expand(value, expand) *)
SetVar(vars, pair) ==
    [name \in {pair[1]} \cup DOMAIN vars |->
        IF name = pair[1] THEN Expand(vars, pair[2]) ELSE vars[name]]

SetVars(vars, pairs) == FoldLeft(SetVar, vars, pairs)

(* "CI" stands for all variables that are set in any case.                 *)
BuiltinNames(task) ==
    {"CI"}
    \cup (CASE task.ref = "BRANCH" -> {"CI_BRANCH"}
            [] task.ref = "TAG" -> {"CI_TAG"}
            [] OTHER -> {})
    \cup (IF task.longHash THEN {"CI_COMMIT_SHORT_HASH"} ELSE {})
    \cup (IF task.pullRequest THEN {"CI_PULL_REQUEST_ID"} ELSE {})

Builtin(task) == [name \in BuiltinNames(task) |-> <<"builtin">>]

(* set last, whatever the user has set them to *)
SpecialNames == {"GIT_SSH_COMMAND", "CI_SSH_KNOWN_HOSTS_FILE"}
Special == [name \in SpecialNames |-> <<"special">>]

WithSpecial(vars) ==
    [name \in SpecialNames \cup DOMAIN vars |->
        IF name \in SpecialNames THEN Special[name] ELSE vars[name]]

(* task.Env is a map: a sequence of its pairs is any order of them *)
Orders(map) == SetToSeqs({<<name, map[name]>> : name \in DOMAIN map})

(* mutant: the variables of the job come before those of the pipeline *)
BuildJobFirst(task, pipelineVars, jobVars) ==
    {WithSpecial(SetVars(Builtin(task), order \o jobVars \o pipelineVars)) :
        order \in Orders(task.env)}

Build(task, pipelineVars, jobVars) ==
    {WithSpecial(SetVars(Builtin(task), order \o pipelineVars \o jobVars)) :
        order \in Orders(task.env)}
=============================================================================
