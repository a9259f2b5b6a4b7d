----------------------------- MODULE MCJobSetup -----------------------------
(***************************************************************************)
(* Scenarios of JobSetup: one family for each part of the setup, in which  *)
(* that part gets every input of some small set.                           *)
(***************************************************************************)
EXTENDS JobSetup

MCNames == {"A", "B"}
MCOsEnv == [name \in {"B"} |-> <<"o">>]
MCDefaultImage == <<"alpine", ":", "latest">>

Auths1 == <<"reg">> :> "first"
Auths2 == <<"reg">> :> "second"
Auths3 == <<"other">> :> "third"
Auths4 == (<<"reg">> :> "broken") @@ (<<"Hub">> :> "fourth")
MCAuthsOf ==
    (<<"json1">> :> Auths1) @@ (<<"json2">> :> Auths2)
    @@ (<<"json3">> :> Auths3) @@ (<<"json4">> :> Auths4)

Task == [env |-> <<>>, mask |-> {}, ref |-> "BRANCH", longHash |-> TRUE,
         pullRequest |-> FALSE]

Variables(pairs) ==
    <<"variables", Mapping([i \in DOMAIN pairs |->
                               <<pairs[i][1], Scalar(pairs[i][2])>>])>>

File(fields, jobFields) ==
    Mapping(<<<<"stages", List(<<Scalar(<<"s">>)>>)>>,
              <<JobName, Mapping(jobFields)>>>> \o fields)

Plain ==
    [task |-> Task, file |-> File(<<>>, <<>>), runnerAuths |-> <<>>,
     tags |-> {MCDefaultImage}, leader |-> TRUE, output |-> <<>>]

-----------------------------------------------------------------------------
(* Files of up to four names, well-formed and not.                         *)

SomeJobs ==
    {Null, Scalar(<<"x">>), List(<<Null>>), Mapping(<<>>),
     Mapping(<<<<"image", Scalar(<<"i">>)>>>>),
     Mapping(<<<<"image", List(<<Null>>)>>>>),
     Mapping(<<<<"image", Null>>, <<"image", Null>>>>),
     Mapping(<<<<"variables", Scalar(<<"x">>)>>>>),
     Mapping(<<Variables(<<<<"A", <<"a">>>>, <<"A", <<"b">>>>>>)>>),
     Mapping(<<<<"variables", List(<<Null>>)>>>>),
     Mapping(<<<<"commands", Mapping(<<<<"x", Null>>>>)>>>>)}

SomeNodes == {Null, Scalar(<<"x">>), List(<<Null>>), Mapping(<<>>)}

SomeVariables ==
    SomeNodes \cup {Mapping(<<<<"A", Null>>>>),
                    Mapping(<<<<"A", List(<<Null>>)>>>>),
                    Mapping(<<<<"variables", List(<<Null>>)>>>>)}

StartWithFile(file) ==
    \E leader \in BOOLEAN :
        Start([Plain EXCEPT !.file = file, !.leader = leader])

ParseInit ==
    \/ \E node \in SomeNodes : StartWithFile(node)
    \/ \E node, other \in SomeNodes, name \in {"stages", "image", JobName} :
           StartWithFile(Mapping(<<<<name, node>>, <<JobName, Mapping(<<>>)>>,
                                   <<"image", other>>>>))
    \/ \E one, two \in SomeJobs, three \in SomeVariables :
           StartWithFile(Mapping(<<<<"stages", Null>>, <<JobName, one>>,
                                   <<"test", two>>, <<"variables", three>>>>))

-----------------------------------------------------------------------------
(* Variables that refer to each other, in every layer.                     *)

Texts == {<<"a">>, <<"A">>, <<"B">>, <<"B", "b">>}
Pairs == {"A", "B", "GIT_SSH_COMMAND"} \X {<<"a">>, <<"A">>, <<"B", "b">>}
SomePairs == BoundedSeq(Pairs, 1) \cup {<<p, q>> : p, q \in {"A", "B"} \X Texts}

TaskEnvs ==
    {<<>>, "A" :> <<"t">>} \cup [{"A", "B"} -> {<<"t">>, <<"A">>, <<"B">>}]

EnvInit ==
    \E ref \in {"TAG", "OTHER"}, env \in TaskEnvs,
       pipelineVars \in BoundedSeq(Pairs, 1), jobVars \in SomePairs :
        Start([Plain EXCEPT
                  !.task.env = env, !.task.ref = ref,
                  !.task.longHash = (ref = "TAG"),
                  !.task.pullRequest = (ref = "TAG"),
                  !.file = File(<<Variables(pipelineVars)>>,
                                <<Variables(jobVars)>>)])

-----------------------------------------------------------------------------
(* Secrets that overlap, contain each other, or have several lines, and    *)
(* every text of up to four characters and of the secrets themselves.      *)

Values ==
    {<<"a">>, <<"a", "b">>, <<"b", "a">>, <<"a", "b", "a">>,
     <<"a", NL, "b", "b">>, <<Space, "b", NL, NL>>}

MaskInit ==
    \E one, two \in Values, mask \in {{"A", "unset"}, {"A", "B"}},
       output \in BoundedSeq({"a", "b", NL}, 4)
                  \cup {<<"A", "B">>, <<"B", "A", NL>>} :
        Start([Plain EXCEPT
                  !.task.env = ("A" :> one) @@ ("B" :> two),
                  !.task.mask = mask, !.output = output])

-----------------------------------------------------------------------------
(* References with and without registry, port, tag and variables, and      *)
(* credentials at every level.                                             *)

SomeImages ==
    {<<>>, <<"A">>, <<"alpine">>, <<"alpine", ":", "3">>, <<"reg", "/", "x">>,
     <<"reg", ":", "5000", "/", "x">>}

SomeAuths == {<<>>} \cup {<<<<AuthKey, <<json>>>>>> : json \in {"json1", "json3"}}
JobAuths ==
    SomeAuths \cup {<<<<"A", <<"a">>>>, <<AuthKey, <<json>>>>>> :
                       json \in {"json2", "json4", "malformed"}}

ImageInit ==
    \E env \in {"A" :> <<"reg", "/", "x">>, AuthKey :> <<"json2">>,
                AuthKey :> <<"malformed">>},
       runner \in {<<>>, Auths1, Auths4},
       some \in {{}, {<<"alpine", ":", "3">>},
                 {<<"reg", "/", "x", ":", "latest">>}},
       pipelineVars \in SomeAuths, jobVars \in JobAuths,
       general \in {<<>>, <<"reg", "/", "x">>}, own \in SomeImages :
        Start([Plain EXCEPT
                  !.task.env = env, !.runnerAuths = runner, !.tags = some,
                  !.file = File(<<Variables(pipelineVars),
                                  <<"image", Scalar(general)>>>>,
                                <<Variables(jobVars),
                                  <<"image", Scalar(own)>>>>)])

Spec == (ParseInit \/ EnvInit \/ MaskInit \/ ImageInit) /\ [][Next]_all

-----------------------------------------------------------------------------
(* Credentials for the registry in the file, at both levels.               *)

AuthInit ==
    \E jobVars \in {<<>>, <<<<"A", <<"a">>>>>>} :
        Start([Plain EXCEPT
                  !.file = File(<<Variables(<<<<AuthKey, <<"json1">>>>>>)>>,
                                <<Variables(<<<<AuthKey, <<"json2">>>>>>
                                            \o jobVars),
                                  <<"image", Scalar(<<"reg", "/", "x">>)>>>>)])

AuthSpec == AuthInit /\ [][Next]_all
=============================================================================
