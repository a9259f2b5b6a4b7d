------------------------------- MODULE Images -------------------------------
(***************************************************************************)
(* The image of a job and the credentials to pull it with: getImage of     *)
(* internal/job/process.go, and Prepare, PullImage and getImageByTag of    *)
(* the docker executor.  The reference of an image is a sequence of atoms, *)
(* ":" and "/" among them; what comes before the first "/" is a registry.  *)
(***************************************************************************)
EXTENDS SequencesExt

CONSTANTS
    Hub,          \* the registry of references without one
    DefaultImage, \* DEFAULT_CONTAINER_JOB_IMAGE
    BrokenAuths   \* credentials whose auth field is not base64

ASSUME ImagesAssumption == DefaultImage \in Seq(STRING)

Latest == <<":", "latest">>

(* getImage, before it is expanded *)
ImageOf(configJob, configPipeline) ==
    CASE configJob.image # <<>> -> configJob.image
      [] configJob.image = <<>> /\ configPipeline.image # <<>> ->
             configPipeline.image
      [] OTHER -> DefaultImage

(* mutant: the tag is left to docker *)
TagUndefaulted(image) == image

(* Prepare: the tag is latest unless there is a ":", of a port or of a     *)
(* digest for instance *)
Tag(image) == IF Contains(image, ":") THEN image ELSE image \o Latest

(* the same in package docker_reference, and in docker itself *)
Normalized(image) ==
    LET slash == SelectLastInSeq(image, LAMBDA atom : atom = "/")
    IN IF \E i \in slash + 1 .. Len(image) : image[i] = ":"
       THEN image ELSE image \o Latest

Registry(image) ==
    LET slash == SelectInSeq(image, LAMBDA atom : atom = "/")
    IN IF slash = 0 THEN <<Hub>> ELSE SubSeq(image, 1, slash - 1)

(* getImageByTag among the tags of the images docker has *)
HasImage(tags, query) ==
    \E tag \in tags :
        tag = query \/ (~Contains(query, ":") /\ IsPrefix(query \o <<":">>, tag))

(* mutant: the first list that knows the registry wins *)
ChooseAuthFirst(lists, registry) ==
    LET i == SelectInSeq(lists, LAMBDA auths : registry \in DOMAIN auths)
    IN IF i = 0 THEN "none" ELSE lists[i][registry]

(* The callback of PullImage: the last list that knows the registry wins.  *)
ChooseAuth(lists, registry) ==
    LET i == SelectLastInSeq(lists, LAMBDA auths : registry \in DOMAIN auths)
    IN IF i = 0 THEN "none" ELSE lists[i][registry]

(* encodeAuth *)
Encodes(auth) == auth \notin BrokenAuths
=============================================================================
