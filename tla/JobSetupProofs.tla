--------------------------- MODULE JobSetupProofs ---------------------------
(***************************************************************************)
(* Proofs about module JobSetup: for every file, every environment, all    *)
(* credentials, images and secrets, and every text a job prints.           *)
(***************************************************************************)
EXTENDS JobSetup, MaskerProofs, FiniteSetTheorems

-----------------------------------------------------------------------------
(* The jobs of a file.                                                     *)

LEMMA NothingFound == FoundIn(<<>>) = {}
<1> DEFINE found == {i \in 2 .. 0 : <<>>[i][1] = AuthKey}
<1>1. found = {}
  OBVIOUS
<1>2. Find(<<>>, AuthKey) = IF found # {} THEN Max(found) ELSE 0
  BY DEF Find, SelectLastInSubSeq
<1> QED
  BY <1>1, <1>2 DEF FoundIn

(* A configuration has jobs of the file only, each as its node says.       *)
AsWritten(result) ==
    \A name \in DOMAIN result.jobs :
        /\ name \in JobNames(given.file)
        /\ DecodeResult(Field(given.file, name)) = "ok"
        /\ result.jobs[name] = Written(Field(given.file, name))

(* A job that had nothing before has what its node says. *)
LEMMA DecodedAsWritten ==
    ASSUME NEW node
    PROVE  DecodeOver(NoJob, node) = Written(node)
<1>1. MapSlice(Null) = <<>> /\ Null.text = <<>>
  <2>1. Null.items = <<>> /\ DOMAIN <<>> = {}
    BY DEF Null, Scalar
  <2> QED
    BY <2>1 DEF MapSlice, Null, Scalar
<1>2. "variables" \notin NamesIn(node) => Field(node, "variables") = Null
  BY DEF NamesIn, Field
<1>3. CASE "variables" \in NamesIn(node)
  BY <1>1, <1>3 DEF DecodeOver, NoJob, Written
<1>4. CASE "variables" \notin NamesIn(node)
  BY <1>1, <1>2, <1>4 DEF DecodeOver, NoJob, Written
<1> QED
  BY <1>3, <1>4

(* What the loop over the jobs has done so far: parsed has some of them as *)
(* they are written, and the others are left.                              *)
LoopInv ==
    /\ ImageFits(given.file) /\ StagesFit(given.file)
    /\ parsed = [image |-> Field(given.file, "image").text,
                 jobs |-> parsed.jobs, variables |-> <<>>]
    /\ AsWritten(parsed)
    /\ JobNames(given.file) = raw \cup DOMAIN parsed.jobs

ConfigInv ==
    /\ AsWritten(config)
    /\ phase \in {"prepare", "parse", "decode"} =>
           config = Empty /\ accepted = FALSE
    /\ phase = "decode" => LoopInv
    /\ accepted =>
           /\ WellFormed(given.file)
           /\ DOMAIN config.jobs = JobNames(given.file)
           /\ config.image = Field(given.file, "image").text
           /\ config.variables = MapSlice(Field(given.file, "variables"))
    /\ ~accepted => config.variables = <<>>
    /\ ~accepted /\ phase \notin {"prepare", "parse", "decode"} =>
           \/ ~WellFormed(given.file) /\ (phase # "failed" => ~given.leader)
           \/ phase = "failed" /\ ~Decodes(InEnv(given.task))

LEMMA HeadingKeepsConfig ==
    ASSUME ConfigInv, ReadHeading
    PROVE  ConfigInv'
<1> DEFINE root == given.file
<1>1. given' = given /\ phase = "parse" /\ config = Empty /\ accepted = FALSE
  BY DEF ReadHeading, ConfigInv
<1>2. /\ AsWritten(Empty)' /\ AsWritten(Heading(root))'
      /\ Empty.variables = <<>> /\ Heading(root).variables = <<>>
  BY DEF AsWritten, Empty, Heading
<1>3. CASE ~ImageFits(root)
  <2>1. Return(Empty, FALSE) /\ ~WellFormed(root)
    BY <1>3 DEF ReadHeading, WellFormed
  <2> QED
    BY <1>1, <1>2, <2>1 DEF Return, ConfigInv, AsWritten
<1>4. CASE ImageFits(root) /\ ~StagesFit(root)
  <2>1. Return(Heading(root), FALSE) /\ ~WellFormed(root)
    BY <1>4 DEF ReadHeading, WellFormed
  <2> QED
    BY <1>1, <1>2, <2>1 DEF Return, ConfigInv, AsWritten
<1>5. CASE ImageFits(root) /\ StagesFit(root)
  <2>1. /\ raw' = JobNames(root) /\ parsed' = Heading(root)
        /\ phase' = "decode" /\ UNCHANGED <<config, accepted>>
    BY <1>5 DEF ReadHeading
  <2>2. LoopInv'
    <3>1. parsed' = [image |-> Field(root, "image").text, jobs |-> <<>>,
                     variables |-> <<>>]
      BY <2>1 DEF Heading, Empty
    <3>2. AsWritten(parsed)'
      <4>1. parsed'.jobs = <<>> /\ DOMAIN <<>> = {}
        BY <3>1
      <4> QED
        BY <4>1 DEF AsWritten
    <3>3. JobNames(root) = raw' \cup DOMAIN parsed'.jobs
      BY <2>1, <3>1
    <3> HIDE DEF root
    <3>4. parsed' = [image |-> Field(root, "image").text,
                     jobs |-> parsed'.jobs, variables |-> <<>>]
      BY <3>1
    <3> QED
      BY <1>1, <1>5, <3>2, <3>3, <3>4 DEF LoopInv, root
  <2> QED
    BY <1>1, <1>2, <2>1, <2>2 DEF ConfigInv, AsWritten
<1> QED
  BY <1>3, <1>4, <1>5

LEMMA JobKeepsConfig ==
    ASSUME ConfigInv, DecodeJob
    PROVE  ConfigInv'
<1> DEFINE root == given.file
<1>1. /\ given' = given /\ phase = "decode" /\ LoopInv
      /\ config = Empty /\ accepted = FALSE /\ AsWritten(config)
  BY DEF DecodeJob, ConfigInv
<1> DEFINE node(name) == Field(root, name)
<1>2. PICK name \in raw :
          \/ /\ DecodeResult(node(name)) = "ok"
             /\ job' = DecodeOver(NoJob, node(name))
             /\ parsed' = WithJob(parsed, name, job')
             /\ raw' = raw \ {name}
             /\ UNCHANGED <<phase, config, accepted>>
          \/ DecodeResult(node(name)) = "failed" /\ Return(parsed, FALSE)
          \/ /\ DecodeResult(node(name)) = "panicked"
             /\ phase' = "failed" /\ UNCHANGED <<config, accepted>>
  BY DEF DecodeJob
<1>3. name \in JobNames(root)
  BY <1>1 DEF LoopInv
<1>4. CASE /\ DecodeResult(node(name)) = "ok"
           /\ job' = DecodeOver(NoJob, node(name))
           /\ parsed' = WithJob(parsed, name, job')
           /\ raw' = raw \ {name}
           /\ UNCHANGED <<phase, config, accepted>>
  <2>1. job' = Written(node(name))
    BY <1>4, DecodedAsWritten
  <2> DEFINE jobs == [other \in DOMAIN parsed.jobs \cup {name} |->
                         IF other = name THEN job' ELSE parsed.jobs[other]]
             text == Field(root, "image").text
             before == parsed.jobs
  <2>2. parsed' = [image |-> text, jobs |-> jobs, variables |-> <<>>]
    <3>1. parsed' = [parsed EXCEPT !.jobs = jobs]
      BY <1>4 DEF WithJob
    <3>2. parsed = [image |-> text, jobs |-> before, variables |-> <<>>]
      BY <1>1 DEF LoopInv
    <3> HIDE DEF jobs, text, before
    <3> QED
      BY <3>1, <3>2
  <2>3. \A other \in DOMAIN jobs :
            /\ other \in JobNames(root)
            /\ DecodeResult(node(other)) = "ok"
            /\ jobs[other] = Written(node(other))
    BY <1>1, <1>3, <1>4, <2>1 DEF LoopInv, AsWritten
  <2>4. JobNames(root) = (raw \ {name}) \cup DOMAIN jobs
    BY <1>1 DEF LoopInv
  <2> HIDE DEF jobs
  <2>5. LoopInv'
    BY <1>1, <1>4, <2>2, <2>3, <2>4 DEF LoopInv, AsWritten
  <2> QED
    BY <1>1, <1>4, <2>5 DEF ConfigInv, AsWritten
<1>5. CASE DecodeResult(node(name)) = "failed" /\ Return(parsed, FALSE)
  <2>1. ~WellFormed(root)
    BY <1>3, <1>5 DEF WellFormed
  <2>2. AsWritten(parsed) /\ parsed.variables = <<>>
    BY <1>1 DEF LoopInv
  <2> QED
    BY <1>1, <1>5, <2>1, <2>2 DEF Return, ConfigInv, AsWritten
<1>6. CASE /\ DecodeResult(node(name)) = "panicked"
           /\ phase' = "failed" /\ UNCHANGED <<config, accepted>>
  <2>1. ~WellFormed(root)
    BY <1>3, <1>6 DEF WellFormed
  <2> QED
    BY <1>1, <1>6, <2>1 DEF ConfigInv, AsWritten, Empty
<1> QED
  BY <1>2, <1>4, <1>5, <1>6

LEMMA VariablesKeepConfig ==
    ASSUME ConfigInv, DecodeVariables
    PROVE  ConfigInv'
<1> DEFINE root == given.file
           node == Field(root, "variables")
           result == [parsed EXCEPT !.variables = MapSlice(node)]
<1>1. given' = given /\ phase = "decode" /\ LoopInv /\ raw = {}
  BY DEF DecodeVariables, ConfigInv
<1>2. CASE IsMapSlice(node)
  <2>1. Return(result, TRUE)
    BY <1>2 DEF DecodeVariables
  <2>2. /\ result.jobs = parsed.jobs /\ result.variables = MapSlice(node)
        /\ result.image = Field(root, "image").text
    <3> DEFINE text == Field(root, "image").text
               jobs == parsed.jobs
               pairs == MapSlice(node)
    <3>1. /\ parsed = [image |-> text, jobs |-> jobs, variables |-> <<>>]
          /\ result = [parsed EXCEPT !.variables = pairs]
      BY <1>1 DEF LoopInv
    <3> HIDE DEF text, jobs, pairs, result
    <3>2. result = [image |-> text, jobs |-> jobs, variables |-> pairs]
      BY <3>1
    <3>3. result.jobs = jobs /\ result.variables = pairs /\ result.image = text
      BY <3>2
    <3> QED
      BY <3>3 DEF text, jobs, pairs
  <2>3. DOMAIN parsed.jobs = JobNames(root)
    BY <1>1 DEF LoopInv
  <2>4. WellFormed(root)
    BY <1>1, <1>2, <2>3 DEF LoopInv, AsWritten, WellFormed
  <2> HIDE DEF result, node
  <2>5. AsWritten(result)
    BY <1>1, <2>2 DEF LoopInv, AsWritten
  <2> QED
    BY <1>1, <2>1, <2>2, <2>3, <2>4, <2>5 DEF Return, ConfigInv, AsWritten, node
<1>3. CASE ~IsMapSlice(node)
  <2>1. Return(parsed, FALSE) /\ ~WellFormed(root)
    BY <1>3 DEF DecodeVariables, WellFormed
  <2>2. AsWritten(parsed) /\ parsed.variables = <<>>
    BY <1>1 DEF LoopInv
  <2> QED
    BY <1>1, <2>1, <2>2 DEF Return, ConfigInv, AsWritten
<1> QED
  BY <1>2, <1>3

(* Whatever the file is, in whatever order Go walks its jobs and wherever  *)
(* that ends: a job of process.config is one of the file and as its node   *)
(* says, exactly the files that are well formed are accepted, and then as  *)
(* a whole, and only jobs that waited go on with part of an ill one:       *)
(* Unmarshal of internal/config, readConfig of internal/pipeline.          *)
THEOREM JobsAreAsWritten ==
    ASSUME NEW scenario
    PROVE  Start(scenario) /\ [][Next]_all => []JobsAsWritten
<1>1. Start(scenario) => ConfigInv
  BY DEF Start, ConfigInv, AsWritten, Empty
<1>2. ConfigInv /\ [Next]_all => ConfigInv'
  <2> SUFFICES ASSUME ConfigInv, [Next]_all PROVE ConfigInv'
    OBVIOUS
  <2>1. CASE PrepareVariables
    <3>1. /\ UNCHANGED <<given, config, accepted>> /\ phase = "prepare"
          /\ \/ phase' = "parse"
             \/ phase' = "failed" /\ ~Decodes(InEnv(given.task))
      <4>1. config = Empty
        BY <2>1 DEF PrepareVariables, ConfigInv
      <4>2. FoundIn(config.variables) = {}
        BY <4>1, NothingFound DEF Empty
      <4> QED
        BY <2>1, <4>2 DEF PrepareVariables
    <3> QED
      BY <3>1 DEF ConfigInv, AsWritten
  <2>2. CASE ReadHeading
    BY <2>2, HeadingKeepsConfig
  <2>3. CASE DecodeJob
    BY <2>3, JobKeepsConfig
  <2>4. CASE DecodeVariables
    BY <2>4, VariablesKeepConfig
  <2>5. CASE \/ Lookup \/ ChooseImage \/ FindImage \/ PullImage \/ FindAgain
             \/ LogMask \/ Close
    <3>1. /\ UNCHANGED <<given, config, accepted>>
          /\ phase \notin {"prepare", "parse", "decode", "failed"}
          /\ phase' \notin {"prepare", "parse", "decode"}
      BY <2>5 DEF Lookup, ChooseImage, FindImage, PullImage, FindAgain,
                  LogMask, Close
    <3> QED
      BY <3>1 DEF ConfigInv, AsWritten
  <2>6. CASE UNCHANGED all
    BY <2>6 DEF all, decoding, ConfigInv, LoopInv, AsWritten
  <2> QED
    BY <2>1, <2>2, <2>3, <2>4, <2>5, <2>6 DEF Next
<1>3. ConfigInv => JobsAsWritten
  BY DEF ConfigInv, AsWritten, JobsAsWritten
<1> QED
  BY <1>1, <1>2, <1>3, PTL

-----------------------------------------------------------------------------
(* Documents.                                                              *)

(* A set of nodes that has all nodes its members are made of.              *)
NodesFit(nodes) ==
    /\ Null \in nodes
    /\ \A node \in nodes :
           /\ node.text \in Text
           /\ \/ node.kind = "scalar" /\ node.items = <<>>
              \/ node.kind = "sequence" /\ node.items \in Seq(nodes)
              \/ node.kind = "mapping" /\ node.items \in Seq(STRING \X nodes)

TextPairs == Seq(STRING \X Text)

ConfigFits(result) ==
    /\ result.image \in Text
    /\ result.variables \in TextPairs
    /\ \A name \in DOMAIN result.jobs :
           /\ result.jobs[name].image \in Text
           /\ result.jobs[name].variables \in TextPairs

LEMMA NoText == <<>> \in Text /\ <<>> \in TextPairs /\ Len(<<>>) = 0
BY EmptySeq DEF Text, TextPairs

LEMMA FieldFits ==
    ASSUME NEW nodes, NodesFit(nodes), NEW node \in nodes, NEW name,
           node.kind = "mapping" \/ node.items = <<>>
    PROVE  Field(node, name) \in nodes
<1>1. CASE \E pair \in ToSet(node.items) : pair[1] = name
  <2>1. PICK pair \in ToSet(node.items) :
            Field(node, name) = pair[2]
    BY <1>1 DEF Field
  <2>2. PICK i \in DOMAIN node.items : pair = node.items[i]
    BY DEF ToSet
  <2>3. node.items \in Seq(STRING \X nodes)
    <3>1. node.items # <<>>
      BY <2>2
    <3> QED
      BY <3>1 DEF NodesFit
  <2>4. node.items[i] \in STRING \X nodes
    BY <2>2, <2>3, LenProperties, ElementOfSeq
  <2> QED
    BY <2>1, <2>2, <2>4
<1>2. CASE ~\E pair \in ToSet(node.items) : pair[1] = name
  BY <1>2 DEF Field, NodesFit
<1> QED
  BY <1>1, <1>2

LEMMA MapSliceFits ==
    ASSUME NEW nodes, NodesFit(nodes), NEW node \in nodes, IsMapSlice(node)
    PROVE  MapSlice(node) \in TextPairs
<1> DEFINE items == node.items
           pairs == [i \in DOMAIN items |-> <<items[i][1], items[i][2].text>>]
<1>1. CASE items = <<>>
  <2>1. DOMAIN items = 1 .. 0 /\ 1 .. 0 = {}
    BY <1>1
  <2>2. pairs = <<>>
    BY <2>1
  <2> QED
    BY <2>2, NoText DEF MapSlice
<1>2. CASE items # <<>>
  <2>1. items \in Seq(STRING \X nodes)
    BY <1>2 DEF IsMapSlice, NodesFit
  <2>2. Len(items) \in Nat /\ DOMAIN items = 1 .. Len(items)
    BY <2>1, LenProperties
  <2>3. \A i \in 1 .. Len(items) : items[i] \in STRING \X nodes
    BY <2>1, ElementOfSeq
  <2>4. \A i \in 1 .. Len(items) :
            <<items[i][1], items[i][2].text>> \in STRING \X Text
    BY <2>3 DEF NodesFit
  <2> HIDE DEF items
  <2>5. [i \in 1 .. Len(items) |-> <<items[i][1], items[i][2].text>>]
            \in Seq(STRING \X Text)
    BY <2>2, <2>4, IsASeq
  <2> QED
    BY <2>2, <2>5 DEF MapSlice, TextPairs, items
<1> QED
  BY <1>1, <1>2

LEMMA WrittenFits ==
    ASSUME NEW nodes, NodesFit(nodes), NEW node \in nodes,
           DecodeResult(node) = "ok"
    PROVE  /\ Written(node).image \in Text
           /\ Written(node).variables \in TextPairs
<1>1. node.kind = "mapping" \/ node.items = <<>>
  BY DEF DecodeResult, UniqueNames, Null, Scalar
<1>2. \A name : Field(node, name) \in nodes
  BY <1>1, FieldFits
<1>3. IsMapSlice(Field(node, "variables"))
  <2>1. CASE UniqueNames(node)
    <3> SUFFICES ASSUME ~IsMapSlice(Field(node, "variables")) PROVE FALSE
      OBVIOUS
    <3>1. DecodeResult(node) = "panicked"
      BY <2>1 DEF DecodeResult
    <3> QED
      BY <3>1
  <2>2. CASE ~UniqueNames(node)
    <3>1. node = Null
      BY <2>2 DEF DecodeResult
    <3>2. ToSet(node.items) = {}
      BY <3>1 DEF Null, Scalar, ToSet
    <3>3. Field(node, "variables") = Null
      BY <3>2 DEF Field
    <3> QED
      BY <3>3 DEF IsMapSlice, Null, Scalar
  <2> QED
    BY <2>1, <2>2
<1>4. MapSlice(Field(node, "variables")) \in TextPairs
  BY <1>2, <1>3, MapSliceFits
<1>5. Field(node, "image").text \in Text
  BY <1>2 DEF NodesFit
<1> QED
  BY <1>4, <1>5 DEF Written

LEMMA FieldsOfFileFit ==
    ASSUME NEW nodes, NodesFit(nodes), NEW root \in nodes, ImageFits(root)
    PROVE  \A name : Field(root, name) \in nodes
<1>1. root.kind = "mapping" \/ root.items = <<>>
  BY DEF ImageFits, UniqueNames, Null, Scalar
<1> QED
  BY <1>1, FieldFits

LEMMA HeadingFits ==
    ASSUME NEW nodes, NodesFit(nodes), NEW root \in nodes, ImageFits(root)
    PROVE  ConfigFits(Heading(root))
<1>1. Field(root, "image").text \in Text
  BY FieldsOfFileFit DEF NodesFit
<1> QED
  BY <1>1, NoText DEF ConfigFits, Heading, Empty

LEMMA WithJobFits ==
    ASSUME NEW nodes, NodesFit(nodes), NEW node \in nodes,
           DecodeResult(node) = "ok", NEW result, ConfigFits(result), NEW name,
           result = [image |-> result.image, jobs |-> result.jobs,
                     variables |-> result.variables]
    PROVE  ConfigFits(WithJob(result, name, DecodeOver(NoJob, node)))
<1> DEFINE new == Written(node)
           jobs == [other \in DOMAIN result.jobs \cup {name} |->
                       IF other = name THEN new ELSE result.jobs[other]]
           extended == WithJob(result, name, new)
<1>1. /\ extended.jobs = jobs /\ extended.image = result.image
      /\ extended.variables = result.variables
  BY DEF WithJob
<1>2. new.image \in Text /\ new.variables \in TextPairs
  BY WrittenFits
<1> HIDE DEF new
<1>3. \A other \in DOMAIN jobs :
          jobs[other].image \in Text /\ jobs[other].variables \in TextPairs
  BY <1>2 DEF ConfigFits
<1> HIDE DEF jobs, extended
<1>4. ConfigFits(extended)
  BY <1>1, <1>3 DEF ConfigFits
<1> QED
  BY <1>4, DecodedAsWritten DEF extended, new

-----------------------------------------------------------------------------
(* The environment.                                                        *)

(* Upward induction, the good numbers being a set. *)
LEMMA UpTo ==
    ASSUME NEW n \in Nat, NEW T, 0 \in T,
           \A i \in 1 .. n : i - 1 \in T => i \in T
    PROVE  0 .. n \subseteq T
<1> DEFINE Bad == (0 .. n) \ T
<1>1. Bad = {}
  <2> SUFFICES ASSUME Bad # {} PROVE FALSE
    OBVIOUS
  <2>1. PICK i \in Bad : \A j \in Bad : i <= j
    <3>1. Bad \subseteq Nat
      OBVIOUS
    <3> QED
      BY <3>1, LeastOf
  <2>2. i \in 1 .. n /\ i - 1 \in 0 .. n /\ ~(i <= i - 1)
    BY <2>1
  <2> QED
    BY <2>1, <2>2
<1> QED
  BY <1>1

LEMMA FlattenFits ==
    ASSUME NEW seqs \in Seq(Text)
    PROVE  FlattenSeq(seqs) \in Text
<1> DEFINE n == Len(seqs)
           Rule(f, i) == IF i = 1 THEN seqs[i] ELSE f[i - 1] \o seqs[i]
           Good(k) == \E f : f = [i \in 1 .. k |-> Rule(f, i)]
           flatten == CHOOSE f : f = [i \in 1 .. n |-> Rule(f, i)]
<1>1. n \in Nat /\ \A i \in 1 .. n : seqs[i] \in Text
  BY LenProperties, ElementOfSeq
<1>2. CASE n = 0
  <2>1. seqs = <<>>
    BY <1>2, EmptySeq
  <2> QED
    BY <2>1, NoText DEF FlattenSeq
<1>3. CASE n # 0
  <2>1. Good(0)
    <3>1. [i \in 1 .. 0 |-> Rule(<<>>, i)] = <<>>
      OBVIOUS
    <3> QED
      BY <3>1
  <2>2. ASSUME NEW k \in 1 .. n, Good(k - 1)
        PROVE  Good(k)
    <3>1. PICK f : f = [i \in 1 .. k - 1 |-> Rule(f, i)]
      BY <2>2
    <3> DEFINE g == [i \in 1 .. k |-> Rule(f, i)]
    <3>2. \A i \in 1 .. k - 1 : g[i] = f[i]
      <4>1. \A i \in 1 .. k - 1 : i \in 1 .. k
        BY <1>1
      <4> HIDE DEF Rule
      <4> QED
        BY <3>1, <4>1
    <3>3. \A i \in 1 .. k : Rule(g, i) = Rule(f, i)
      <4> HIDE DEF g
      <4>1. \A i \in 1 .. k : i # 1 => i - 1 \in 1 .. k - 1
        BY <1>1
      <4>2. \A i \in 1 .. k : i # 1 => g[i - 1] = f[i - 1]
        BY <3>2, <4>1
      <4> QED
        BY <4>2
    <3>4. g = [i \in 1 .. k |-> Rule(g, i)]
      <4> HIDE DEF Rule
      <4> QED
        BY <3>3
    <3> QED
      BY <3>4
  <2> DEFINE T == {k \in 0 .. n : Good(k)}
  <2>3. 0 .. n \subseteq T
    <3> HIDE DEF Good
    <3>1. 0 \in T
      BY <1>1, <2>1
    <3>2. \A k \in 1 .. n : k - 1 \in T => k \in T
      BY <1>1, <2>2
    <3> HIDE DEF T, n
    <3> QED
      BY <1>1, <3>1, <3>2, UpTo
  <2>4. Good(n)
    <3> HIDE DEF Good
    <3> QED
      BY <1>1, <2>3
  <2>5. flatten = [i \in 1 .. n |-> Rule(flatten, i)]
    BY <2>4
  <2>6. FlattenSeq(seqs) = flatten[n]
    BY <1>3 DEF FlattenSeq
  <2> HIDE DEF flatten
  <2>7. \A i \in 1 .. n : flatten[i] = Rule(flatten, i)
    BY <2>5
  <2> DEFINE U == {i \in 0 .. n : i = 0 \/ flatten[i] \in Text}
  <2>8. \A i \in 1 .. n : i - 1 \in U => i \in U
    <3> SUFFICES ASSUME NEW i \in 1 .. n, i - 1 \in U
                 PROVE  flatten[i] \in Text
      BY <1>1
    <3>1. CASE i = 1
      BY <1>1, <2>7, <3>1
    <3>2. CASE i # 1
      <4>1. flatten[i - 1] \in Text /\ seqs[i] \in Text
        BY <1>1, <3>2
      <4>2. flatten[i] = flatten[i - 1] \o seqs[i]
        BY <2>7, <3>2
      <4> QED
        BY <4>1, <4>2, ConcatProperties DEF Text
    <3> QED
      BY <3>1, <3>2
  <2>9. n \in U
    <3>1. 0 \in U
      BY <1>1
    <3> HIDE DEF U, n
    <3>2. 0 .. n \subseteq U
      BY <1>1, <2>8, <3>1, UpTo
    <3> QED
      BY <1>1, <3>2
  <2> QED
    BY <1>3, <2>6, <2>9
<1> QED
  BY <1>2, <1>3

LEMMA ExpandByFits ==
    ASSUME NEW text \in Text, NEW value, \A name \in Names : value[name] \in Text
    PROVE  ExpandBy(text, value) \in Text
<1> DEFINE n == Len(text)
           piece(i) == IF text[i] \in Names THEN value[text[i]] ELSE <<text[i]>>
<1>1. n \in Nat /\ DOMAIN text = 1 .. n /\ \A i \in 1 .. n : text[i] \in Atoms
  BY LenProperties, ElementOfSeq DEF Text
<1>2. \A i \in 1 .. n : piece(i) \in Text
  <2> SUFFICES ASSUME NEW i \in 1 .. n PROVE piece(i) \in Text
    OBVIOUS
  <2>1. <<text[i]>> \in Text
    <3>1. text[i] \in Atoms
      BY <1>1
    <3> QED
      BY <3>1 DEF Text
  <2> QED
    BY <2>1
<1> HIDE DEF piece, n
<1>3. [i \in 1 .. n |-> piece(i)] \in Seq(Text)
  BY <1>1, <1>2, IsASeq
<1>4. ExpandBy(text, value) = FlattenSeq([i \in 1 .. n |-> piece(i)])
  BY <1>1 DEF ExpandBy, piece
<1> QED
  BY <1>3, <1>4, FlattenFits

(* the variables of an environment *)
VarsFit(env) == \A name \in DOMAIN env : env[name] \in Text

LEMMA ExpandFits ==
    ASSUME NEW env, VarsFit(env), NEW text \in Text
    PROVE  Expand(env, text) \in Text
<1> DEFINE value == [name \in Names |-> Value(env, name)]
<1>1. \A name \in Names : value[name] \in Text
  <2> SUFFICES ASSUME NEW name \in Names PROVE Value(env, name) \in Text
    OBVIOUS
  <2>1. CASE name \in DOMAIN env
    BY <2>1 DEF Value, VarsFit
  <2>2. CASE name \notin DOMAIN env /\ name \in DOMAIN OsEnv
    <3>1. OsEnv[name] \in Seq(STRING)
      BY <2>2, EnvironmentAssumption
    <3>2. STRING \subseteq Atoms
      BY DEF Atoms
    <3>3. OsEnv[name] \in Text
      BY <3>1, <3>2, SeqMonotonic DEF Text
    <3> QED
      BY <2>2, <3>3 DEF Value
  <2>3. CASE name \notin DOMAIN env /\ name \notin DOMAIN OsEnv
    BY <2>3, NoText DEF Value
  <2> QED
    BY <2>1, <2>2, <2>3
<1> HIDE DEF value
<1>2. ExpandBy(text, value) \in Text
  BY <1>1, ExpandByFits
<1> QED
  BY <1>2 DEF Expand, value

LEMMA SetVarIs ==
    ASSUME NEW env, NEW pair
    PROVE  /\ DOMAIN SetVar(env, pair) = {pair[1]} \cup DOMAIN env
           /\ SetVar(env, pair)[pair[1]] = Expand(env, pair[2])
           /\ \A name \in DOMAIN env \ {pair[1]} :
                  SetVar(env, pair)[name] = env[name]
<1> DEFINE value == Expand(env, pair[2])
<1>1. SetVar(env, pair) = [name \in {pair[1]} \cup DOMAIN env |->
                              IF name = pair[1] THEN value ELSE env[name]]
  BY DEF SetVar
<1> HIDE DEF value
<1> QED
  BY <1>1 DEF value

(* The environments in between, the variables being set one by one. *)
IsSetting(env, pairs, after) ==
    /\ after[0] = env
    /\ \A k \in 1 .. Len(pairs) : after[k] = SetVar(after[k - 1], pairs[k])

LEMMA SetVarsSteps ==
    ASSUME NEW env, NEW S, NEW pairs \in Seq(S)
    PROVE  \E after : /\ IsSetting(env, pairs, after)
                      /\ SetVars(env, pairs) = after[Len(pairs)]
<1> DEFINE n == Len(pairs)
           Rule(f, s) == IF s = {} THEN env
                         ELSE SetVar(f[s \ {Max(s)}], pairs[Max(s)])
           Good(k) == \E f : f = [s \in SUBSET (1 .. k) |-> Rule(f, s)]
           iter == CHOOSE f : f = [s \in SUBSET (1 .. n) |-> Rule(f, s)]
<1>1. n \in Nat /\ DOMAIN pairs = 1 .. n
  BY LenProperties
<1>2. ASSUME NEW k \in Nat, NEW s \in SUBSET (1 .. k), s # {}
      PROVE  /\ Max(s) \in 1 .. k /\ s \ {Max(s)} \in SUBSET (1 .. k - 1)
             /\ k >= 1
  <2>1. s \subseteq 0 .. k
    OBVIOUS
  <2>2. Max(s) \in s /\ \A y \in s : y <= Max(s)
    BY <1>2, <2>1, MinMax
  <2> HIDE DEF Max
  <2> DEFINE m == Max(s)
  <2>3. m \in s /\ \A y \in s : y <= m
    BY <2>2
  <2> HIDE DEF m
  <2>4. \A y \in s \ {m} : y \in 1 .. k - 1
    BY <2>3
  <2>5. m \in 1 .. k /\ k >= 1
    BY <2>3
  <2> QED
    BY <2>4, <2>5 DEF m
<1>3. Good(0)
  <2>1. SUBSET (1 .. 0) = {{}}
    OBVIOUS
  <2> DEFINE f == [s \in {{}} |-> env]
  <2>2. \A s \in SUBSET (1 .. 0) : Rule(f, s) = env
    BY <2>1
  <2>3. f = [s \in SUBSET (1 .. 0) |-> Rule(f, s)]
    BY <2>1, <2>2
  <2> QED
    BY <2>3
<1>4. ASSUME NEW k \in 1 .. n, Good(k - 1)
      PROVE  Good(k)
  <2>1. PICK f : f = [s \in SUBSET (1 .. k - 1) |-> Rule(f, s)]
    BY <1>4
  <2> DEFINE g == [s \in SUBSET (1 .. k) |-> Rule(f, s)]
  <2>2. SUBSET (1 .. k - 1) \subseteq SUBSET (1 .. k)
    OBVIOUS
  <2>3. \A s \in SUBSET (1 .. k - 1) : g[s] = f[s]
    <3> HIDE DEF Rule
    <3> QED
      BY <2>1, <2>2
  <2>4. \A s \in SUBSET (1 .. k) : Rule(g, s) = Rule(f, s)
    <3> SUFFICES ASSUME NEW s \in SUBSET (1 .. k), s # {}
                 PROVE  g[s \ {Max(s)}] = f[s \ {Max(s)}]
      OBVIOUS
    <3>1. s \ {Max(s)} \in SUBSET (1 .. k - 1)
      BY <1>2
    <3> HIDE DEF g
    <3> QED
      BY <2>3, <3>1
  <2>5. g = [s \in SUBSET (1 .. k) |-> Rule(g, s)]
    <3> HIDE DEF Rule
    <3> QED
      BY <2>4
  <2> QED
    BY <2>5
<1>5. Good(n)
  <2> DEFINE T == {k \in 0 .. n : Good(k)}
  <2> HIDE DEF Good
  <2>1. 0 \in T
    BY <1>1, <1>3
  <2>2. \A k \in 1 .. n : k - 1 \in T => k \in T
    BY <1>1, <1>4
  <2> HIDE DEF n
  <2>3. 0 .. n \subseteq T
    <3> HIDE DEF T
    <3> QED
      BY <1>1, <2>1, <2>2, UpTo
  <2> QED
    BY <1>1, <2>3
<1>6. iter = [s \in SUBSET (1 .. n) |-> Rule(iter, s)]
  BY <1>5
<1>7. SetVars(env, pairs) = iter[1 .. n]
  BY <1>1 DEF SetVars, FoldLeft, MapThenFoldSet
<1> HIDE DEF iter
<1> DEFINE after == [k \in 0 .. n |-> iter[1 .. k]]
<1>8. \A s \in SUBSET (1 .. n) : iter[s] = Rule(iter, s)
  <2> HIDE DEF Rule
  <2> QED
    BY <1>6
<1>9. after[0] = env
  <2>1. 1 .. 0 = {} /\ {} \in SUBSET (1 .. n) /\ 0 \in 0 .. n
    BY <1>1
  <2> QED
    BY <1>8, <2>1
<1>10. ASSUME NEW k \in 1 .. n
       PROVE  after[k] = SetVar(after[k - 1], pairs[k])
  <2> DEFINE s == 1 .. k
  <2>1. /\ s \in SUBSET (1 .. n) /\ s # {} /\ s \subseteq 0 .. k /\ k \in s
        /\ k \in 0 .. n /\ k - 1 \in 0 .. n
    <3>1. n \in Nat /\ k \in 1 .. n
      BY <1>1
    <3> HIDE DEF n
    <3>2. k \in s /\ s \subseteq 1 .. n /\ s \subseteq 0 .. k
      BY <3>1
    <3>3. k \in 0 .. n /\ k - 1 \in 0 .. n
      BY <3>1
    <3> HIDE DEF s
    <3> QED
      BY <3>2, <3>3
  <2>2. Max(s) \in s /\ \A y \in s : y <= Max(s)
    <3>1. k \in Nat
      BY <1>1
    <3> HIDE DEF s
    <3> QED
      BY <2>1, <3>1, MinMax
  <2>3. Max(s) = k
    <3> DEFINE m == Max(s)
    <3>1. m \in s /\ \A y \in s : y <= m
      BY <2>2
    <3> HIDE DEF m
    <3>2. m = k
      BY <2>1, <3>1
    <3> QED
      BY <3>2 DEF m
  <2>4. s \ {k} = 1 .. k - 1
    OBVIOUS
  <2>5. iter[s] = SetVar(iter[1 .. k - 1], pairs[k])
    <3> HIDE DEF Max, s
    <3> QED
      BY <1>8, <2>1, <2>3, <2>4
  <2> QED
    BY <2>1, <2>5
<1>11. SetVars(env, pairs) = after[n]
  BY <1>1, <1>7
<1> HIDE DEF after
<1> QED
  BY <1>9, <1>10, <1>11 DEF IsSetting

LEMMA SetVarsFit ==
    ASSUME NEW env, VarsFit(env), NEW pairs \in TextPairs
    PROVE  VarsFit(SetVars(env, pairs))
<1> DEFINE n == Len(pairs)
<1>1. n \in Nat /\ \A k \in 1 .. n : pairs[k] \in STRING \X Text
  BY LenProperties, ElementOfSeq DEF TextPairs
<1>2. PICK after : /\ IsSetting(env, pairs, after)
                   /\ SetVars(env, pairs) = after[n]
  BY SetVarsSteps DEF TextPairs
<1> DEFINE T == {k \in 0 .. n : VarsFit(after[k])}
<1>3. 0 \in T
  BY <1>1, <1>2 DEF IsSetting
<1>4. \A k \in 1 .. n : k - 1 \in T => k \in T
  <2> SUFFICES ASSUME NEW k \in 1 .. n, VarsFit(after[k - 1])
               PROVE  VarsFit(after[k])
    BY <1>1
  <2>1. after[k] = SetVar(after[k - 1], pairs[k])
    BY <1>2 DEF IsSetting
  <2>2. pairs[k][2] \in Text
    BY <1>1
  <2>3. Expand(after[k - 1], pairs[k][2]) \in Text
    BY <2>2, ExpandFits
  <2> DEFINE prior == after[k - 1]
             pair == pairs[k]
  <2>4. /\ DOMAIN SetVar(prior, pair) = {pair[1]} \cup DOMAIN prior
        /\ SetVar(prior, pair)[pair[1]] = Expand(prior, pair[2])
        /\ \A name \in DOMAIN prior \ {pair[1]} :
               SetVar(prior, pair)[name] = prior[name]
    BY SetVarIs
  <2> QED
    BY <2>1, <2>3, <2>4 DEF VarsFit
<1> HIDE DEF T, n
<1>5. 0 .. n \subseteq T
  BY <1>1, <1>3, <1>4, UpTo
<1>6. n \in T
  BY <1>1, <1>5
<1> QED
  BY <1>2, <1>6 DEF T, n

(* After the pair at a position a name keeps the value it has. *)
Kept(pairs, after, low, name) ==
    LET final == after[Len(pairs)]
    IN /\ name \in DOMAIN final <=> name \in DOMAIN after[low]
       /\ name \in DOMAIN final => final[name] = after[low][name]

LEMMA KeptUnset ==
    ASSUME NEW env, NEW S, NEW pairs \in Seq(S), NEW after,
           IsSetting(env, pairs, after), NEW low \in 0 .. Len(pairs), NEW name,
           \A j \in low + 1 .. Len(pairs) : pairs[j][1] # name
    PROVE  Kept(pairs, after, low, name)
<1> DEFINE n == Len(pairs)
           Same(k) == /\ name \in DOMAIN after[k] <=> name \in DOMAIN after[low]
                      /\ name \in DOMAIN after[k] =>
                             after[k][name] = after[low][name]
           T == {k \in 0 .. n : k >= low => Same(k)}
<1>1. n \in Nat
  BY LenProperties
<1>2. 0 \in T
  <2>1. 0 >= low => low = 0
    BY <1>1
  <2>2. Same(low)
    OBVIOUS
  <2> HIDE DEF Same
  <2> QED
    BY <1>1, <2>1, <2>2
<1>3. ASSUME NEW k \in 1 .. n, k - 1 \in T
      PROVE  k \in T
  <2>1. CASE k <= low
    <3>1. k >= low => k = low
      BY <1>1, <2>1
    <3>2. Same(low)
      OBVIOUS
    <3> HIDE DEF Same
    <3> QED
      BY <1>1, <3>1, <3>2
  <2>2. CASE k > low
    <3>1. Same(k - 1) /\ k \in low + 1 .. n
      <4>1. k - 1 >= low /\ k \in low + 1 .. n
        BY <1>1, <2>2
      <4> HIDE DEF Same
      <4> QED
        BY <1>3, <4>1
    <3>2. after[k] = SetVar(after[k - 1], pairs[k]) /\ pairs[k][1] # name
      BY <3>1 DEF IsSetting
    <3>3. /\ name \in DOMAIN after[k] <=> name \in DOMAIN after[k - 1]
          /\ name \in DOMAIN after[k - 1] =>
                 after[k][name] = after[k - 1][name]
      <4> DEFINE prior == after[k - 1]
                 pair == pairs[k]
      <4>1. /\ DOMAIN SetVar(prior, pair) = {pair[1]} \cup DOMAIN prior
            /\ \A other \in DOMAIN prior \ {pair[1]} :
                   SetVar(prior, pair)[other] = prior[other]
        BY SetVarIs
      <4> QED
        BY <3>2, <4>1
    <3>4. Same(k)
      BY <3>1, <3>3
    <3> HIDE DEF Same
    <3> QED
      BY <1>1, <3>4
  <2> QED
    BY <1>1, <2>1, <2>2
<1>4. n \in T
  <2>1. 0 .. n \subseteq T
    <3>1. \A k \in 1 .. n : k - 1 \in T => k \in T
      BY <1>3
    <3> HIDE DEF T, n
    <3> QED
      BY <1>1, <1>2, <3>1, UpTo
  <2> HIDE DEF T
  <2> QED
    BY <1>1, <2>1
<1>5. n >= low
  BY <1>1
<1> QED
  BY <1>4, <1>5 DEF Kept

(* The pair at a position has given its name the value it has. *)
SetBy(pairs, after, l) ==
    after[Len(pairs)][pairs[l][1]] = Expand(after[l - 1], pairs[l][2])

(* The last pair that sets a name gives it its value. *)
LEMMA LastPairSets ==
    ASSUME NEW env, NEW S, NEW pairs \in Seq(S), NEW after,
           IsSetting(env, pairs, after), NEW l \in 1 .. Len(pairs),
           \A j \in l + 1 .. Len(pairs) : pairs[j][1] # pairs[l][1]
    PROVE  SetBy(pairs, after, l)
<1>1. Len(pairs) \in Nat
  BY LenProperties
<1>2. l \in 0 .. Len(pairs)
  BY <1>1
<1>3. after[l] = SetVar(after[l - 1], pairs[l])
  BY DEF IsSetting
<1>4. /\ pairs[l][1] \in DOMAIN after[l]
      /\ after[l][pairs[l][1]] = Expand(after[l - 1], pairs[l][2])
  <2> DEFINE prior == after[l - 1]
             pair == pairs[l]
  <2>1. /\ DOMAIN SetVar(prior, pair) = {pair[1]} \cup DOMAIN prior
        /\ SetVar(prior, pair)[pair[1]] = Expand(prior, pair[2])
    BY SetVarIs
  <2> QED
    BY <1>3, <2>1
<1> DEFINE name == pairs[l][1]
           final == after[Len(pairs)]
<1> HIDE DEF name
<1>5. \A j \in l + 1 .. Len(pairs) : pairs[j][1] # name
  BY DEF name
<1>6. Kept(pairs, after, l, name)
  BY <1>2, <1>5, KeptUnset
<1>7. /\ name \in DOMAIN final <=> name \in DOMAIN after[l]
      /\ name \in DOMAIN final => final[name] = after[l][name]
  BY <1>6 DEF Kept
<1> QED
  BY <1>4, <1>7 DEF name, SetBy

LEMMA LastOfIs ==
    ASSUME NEW S, NEW pairs \in Seq(S), NEW name
    PROVE  /\ LastOf(pairs, name) \in 0 .. Len(pairs)
           /\ LastOf(pairs, name) # 0 => pairs[LastOf(pairs, name)][1] = name
           /\ \A j \in LastOf(pairs, name) + 1 .. Len(pairs) : pairs[j][1] # name
<1> DEFINE n == Len(pairs)
           found == {i \in 1 .. n : pairs[i][1] = name}
           last == LastOf(pairs, name)
<1>1. n \in Nat
  BY LenProperties
<1>2. last = IF found # {} THEN Max(found) ELSE 0
  BY DEF LastOf, SelectLastInSeq
<1> HIDE DEF last
<1>3. found # {} => Max(found) \in found /\ \A y \in found : y <= Max(found)
  <2>1. found \subseteq 0 .. n
    BY <1>1
  <2> QED
    BY <1>1, <2>1, MinMax
<1>4. last \in 0 .. n /\ (last # 0 => pairs[last][1] = name)
  BY <1>1, <1>2, <1>3
<1>5. ASSUME NEW j \in last + 1 .. n PROVE pairs[j][1] # name
  <2> SUFFICES ASSUME pairs[j][1] = name PROVE FALSE
    OBVIOUS
  <2>1. j \in found
    BY <1>1, <1>4
  <2>2. j <= last
    BY <1>2, <1>3, <2>1
  <2> QED
    BY <1>1, <1>4, <2>2
<1> QED
  BY <1>4, <1>5 DEF last

(* What a text is expanded to depends on the names in it only. *)
LEMMA ExpandSame ==
    ASSUME NEW env, NEW other, NEW text,
           \A k \in DOMAIN text : text[k] \in Names =>
               Value(env, text[k]) = Value(other, text[k])
    PROVE  Expand(env, text) = Expand(other, text)
<1> DEFINE piece(e, k) ==
               IF text[k] \in Names
               THEN [name \in Names |-> Value(e, name)][text[k]]
               ELSE <<text[k]>>
<1>1. \A k \in DOMAIN text : piece(env, k) = piece(other, k)
  <2> HIDE DEF Value
  <2> QED
    OBVIOUS
<1> HIDE DEF piece
<1>2. [k \in DOMAIN text |-> piece(env, k)]
          = [k \in DOMAIN text |-> piece(other, k)]
  BY <1>1
<1> QED
  BY <1>2 DEF Expand, ExpandBy, piece

(* the variables of a task *)
TaskFits(task) ==
    /\ IsFiniteSet(DOMAIN task.env) /\ DOMAIN task.env \subseteq STRING
    /\ VarsFit(task.env)

(* An order of the variables of a task has each of them once. *)
LEMMA OrderFits ==
    ASSUME NEW map, IsFiniteSet(DOMAIN map), DOMAIN map \subseteq STRING,
           VarsFit(map), NEW order \in Orders(map)
    PROVE  /\ order \in TextPairs
           /\ \A j \in 1 .. Len(order) :
                  order[j][1] \in DOMAIN map /\ order[j][2] = map[order[j][1]]
           /\ \A j, k \in 1 .. Len(order) :
                  order[j][1] = order[k][1] => j = k
           /\ \A name \in DOMAIN map :
                  \E j \in 1 .. Len(order) : order[j] = <<name, map[name]>>
<1> DEFINE pair(name) == <<name, map[name]>>
           S == {pair(name) : name \in DOMAIN map}
           n == Cardinality(S)
<1>1. IsFiniteSet(S) /\ n \in Nat
  <2> DEFINE f == [name \in DOMAIN map |-> pair(name)]
  <2>1. f \in Surjection(DOMAIN map, S)
    BY DEF Surjection
  <2>2. IsFiniteSet(S)
    BY <2>1, FS_Surjection
  <2> QED
    BY <2>2, FS_CardinalityType
<1>2. /\ order \in [1 .. n -> S]
      /\ \A j, k \in 1 .. n : j # k => order[j] # order[k]
  BY DEF Orders, SetToSeqs
<1>3. S \subseteq STRING \X Text
  BY DEF VarsFit
<1> HIDE DEF S, n
<1>4. order \in Seq(S) /\ Len(order) = n
  <2>1. order = [j \in 1 .. n |-> order[j]] /\ \A j \in 1 .. n : order[j] \in S
    BY <1>2
  <2>2. [j \in 1 .. n |-> order[j]] \in Seq(S)
    BY <1>1, <2>1, IsASeq
  <2>3. order \in Seq(S)
    BY <2>1, <2>2
  <2>4. DOMAIN order = 1 .. n /\ DOMAIN order = 1 .. Len(order)
        /\ Len(order) \in Nat
    BY <1>2, <2>3, LenProperties
  <2>5. Len(order) = n
    BY <1>1, <2>4
  <2> QED
    BY <2>3, <2>5
<1>5. order \in TextPairs
  BY <1>3, <1>4, SeqMonotonic DEF TextPairs
<1>6. \A j \in 1 .. n : /\ order[j][1] \in DOMAIN map
                        /\ order[j][2] = map[order[j][1]]
                        /\ order[j] = pair(order[j][1])
  BY <1>2 DEF S
<1>7. \A j, k \in 1 .. n : order[j][1] = order[k][1] => j = k
  BY <1>2, <1>6
<1>8. ASSUME NEW name \in DOMAIN map
      PROVE  \E j \in 1 .. n : order[j] = <<name, map[name]>>
  <2>1. order \in Injection(1 .. n, S)
    BY <1>2 DEF Injection, IsInjective
  <2>2. Cardinality(1 .. n) = n
    BY <1>1, FS_Interval
  <2>3. order \in Surjection(1 .. n, S)
    BY <1>1, <2>1, <2>2, FS_Injection DEF n
  <2>4. pair(name) \in S
    BY DEF S
  <2> QED
    BY <2>3, <2>4 DEF Surjection
<1> QED
  BY <1>4, <1>5, <1>6, <1>7, <1>8

(* what LayersInOrder demands of an environment *)
Layered(env, task, pairs) ==
    /\ \A name \in SpecialNames : env[name] = Special[name]
    /\ \A name \in DOMAIN env \ SpecialNames :
           LET i == LastOf(pairs, name)
               text == pairs[i][2]
           IN /\ /\ i # 0
                 /\ \A k \in DOMAIN text : text[k] \in Names =>
                        /\ LastOf(pairs, text[k]) < i
                        /\ text[k] \notin SpecialNames
                 => env[name] = Expand(env, text)
              /\ i = 0 /\ name \notin DOMAIN task.env =>
                     env[name] = Builtin(task)[name]
              /\ i = 0 /\ name \in DOMAIN task.env =>
                     \/ env[name] = Expand(env, task.env[name])
                     \/ ToSet(task.env[name]) \cap Names # {}

LEMMA BuildIsLayered ==
    ASSUME NEW task, TaskFits(task), NEW pipelineVars \in TextPairs,
           NEW jobVars \in TextPairs,
           NEW env \in Build(task, pipelineVars, jobVars)
    PROVE  VarsFit(env) /\ Layered(env, task, pipelineVars \o jobVars)
<1>1. PICK order \in Orders(task.env) :
          env = WithSpecial(SetVars(Builtin(task),
                                    order \o pipelineVars \o jobVars))
  BY DEF Build
<1> DEFINE ofFile == pipelineVars \o jobVars
           pairs == order \o ofFile
           m == Len(order)
           q == Len(ofFile)
           n == Len(pairs)
<1>2. /\ order \in TextPairs
      /\ \A j \in 1 .. Len(order) :
             /\ order[j][1] \in DOMAIN task.env
             /\ order[j][2] = task.env[order[j][1]]
      /\ \A j, k \in 1 .. Len(order) : order[j][1] = order[k][1] => j = k
      /\ \A name \in DOMAIN task.env :
             \E j \in 1 .. Len(order) : order[j] = <<name, task.env[name]>>
  BY OrderFits DEF TaskFits
<1>3. ofFile \in TextPairs
  BY ConcatProperties DEF TextPairs
<1>4. order \o pipelineVars \o jobVars = pairs
  BY <1>2, ConcatAssociative DEF TextPairs
<1>5. env = WithSpecial(SetVars(Builtin(task), pairs))
  BY <1>1, <1>4
<1> HIDE DEF ofFile
<1>6. /\ m \in Nat /\ q \in Nat /\ n = m + q /\ pairs \in TextPairs
      /\ \A j \in 1 .. n : pairs[j] = IF j <= m THEN order[j] ELSE ofFile[j - m]
  <2>1. m \in Nat /\ q \in Nat
    BY <1>2, <1>3, LenProperties DEF TextPairs
  <2>2. /\ pairs \in TextPairs /\ n = m + q
        /\ \A j \in 1 .. m + q :
               pairs[j] = IF j <= m THEN order[j] ELSE ofFile[j - m]
    BY <1>2, <1>3, ConcatProperties DEF TextPairs
  <2> HIDE DEF pairs
  <2> QED
    BY <2>1, <2>2
<1>7. VarsFit(Builtin(task))
  <2>1. <<"builtin">> \in Text
    BY DEF Text, Atoms
  <2> QED
    BY <2>1 DEF VarsFit, Builtin
<1>8. VarsFit(SetVars(Builtin(task), pairs))
  BY <1>6, <1>7, SetVarsFit
<1>9. VarsFit(env)
  <2>1. <<"special">> \in Text
    BY DEF Text, Atoms
  <2> QED
    BY <1>5, <1>8, <2>1 DEF VarsFit, WithSpecial, Special
<1>10. PICK after : /\ IsSetting(Builtin(task), pairs, after)
                    /\ SetVars(Builtin(task), pairs) = after[n]
  BY <1>6, SetVarsSteps DEF TextPairs
<1> DEFINE final == after[n]
<1>11. /\ DOMAIN env = SpecialNames \cup DOMAIN final
       /\ \A name \in SpecialNames : env[name] = Special[name]
       /\ \A name \in DOMAIN env \ SpecialNames :
              name \in DOMAIN final /\ env[name] = final[name]
  BY <1>5, <1>10 DEF WithSpecial
<1> HIDE DEF pairs, m, q, n
<1>12. ASSUME NEW low \in 0 .. n, NEW name,
              \A j \in low + 1 .. n : pairs[j][1] # name
       PROVE  /\ name \in DOMAIN final <=> name \in DOMAIN after[low]
              /\ name \in DOMAIN final => final[name] = after[low][name]
  <2>1. Kept(pairs, after, low, name)
    BY <1>6, <1>10, <1>12, KeptUnset DEF n, TextPairs
  <2> QED
    BY <2>1 DEF Kept, n
<1>13. ASSUME NEW l \in 1 .. n, \A j \in l + 1 .. n : pairs[j][1] # pairs[l][1]
       PROVE  final[pairs[l][1]] = Expand(after[l - 1], pairs[l][2])
  <2>1. n = Len(pairs) /\ pairs \in Seq(STRING \X Text)
    BY <1>6 DEF n, TextPairs
  <2>2. \A j \in l + 1 .. Len(pairs) : pairs[j][1] # pairs[l][1]
    BY <1>13, <2>1
  <2>3. l \in 1 .. Len(pairs) /\ IsSetting(Builtin(task), pairs, after)
    BY <1>10, <2>1
  <2>4. SetBy(pairs, after, l)
    BY <2>1, <2>2, <2>3, LastPairSets
  <2> QED
    BY <2>1, <2>4 DEF SetBy
<1> HIDE DEF final
<1>14. ASSUME NEW name
       PROVE  /\ LastOf(ofFile, name) \in 0 .. q
              /\ LastOf(ofFile, name) # 0 =>
                     ofFile[LastOf(ofFile, name)][1] = name
              /\ \A j \in m + LastOf(ofFile, name) + 1 .. n : pairs[j][1] # name
  <2> DEFINE i == LastOf(ofFile, name)
  <2>1. /\ i \in 0 .. q
        /\ i # 0 => ofFile[i][1] = name
        /\ \A j \in i + 1 .. q : ofFile[j][1] # name
    BY <1>3, LastOfIs DEF q, TextPairs
  <2> HIDE DEF i
  <2>2. ASSUME NEW j \in m + i + 1 .. n
        PROVE  pairs[j][1] # name
    <3>1. j \in 1 .. n /\ ~(j <= m) /\ j - m \in i + 1 .. q
      BY <1>6, <2>1
    <3>2. pairs[j] = ofFile[j - m]
      BY <1>6, <3>1
    <3> QED
      BY <2>1, <3>1, <3>2
  <2> QED
    BY <2>1, <2>2 DEF i
<1>15. ASSUME NEW name \in DOMAIN env \ SpecialNames,
              LastOf(ofFile, name) # 0,
              NEW text, text = ofFile[LastOf(ofFile, name)][2],
              \A k \in DOMAIN text : text[k] \in Names =>
                  /\ LastOf(ofFile, text[k]) < LastOf(ofFile, name)
                  /\ text[k] \notin SpecialNames
       PROVE  env[name] = Expand(env, text)
  <2> DEFINE i == LastOf(ofFile, name)
             l == m + i
  <2>1. /\ i \in 0 .. q /\ i # 0 /\ ofFile[i][1] = name
        /\ \A j \in l + 1 .. n : pairs[j][1] # name
    BY <1>14, <1>15
  <2> HIDE DEF i
  <2>2. l \in 1 .. n /\ ~(l <= m) /\ l - m = i /\ l - 1 \in 0 .. n
        /\ (l - 1) + 1 = l
    BY <1>6, <2>1
  <2> HIDE DEF l
  <2>3. pairs[l] = ofFile[i]
    BY <1>6, <2>2
  <2>4. final[name] = Expand(after[l - 1], text)
    BY <1>13, <1>15, <2>1, <2>2, <2>3 DEF i
  <2>5. ASSUME NEW k \in DOMAIN text, text[k] \in Names
        PROVE  Value(after[l - 1], text[k]) = Value(env, text[k])
    <3> DEFINE b == text[k]
    <3>1. LastOf(ofFile, b) < i /\ b \notin SpecialNames
      BY <1>15, <2>5 DEF i
    <3>2. /\ LastOf(ofFile, b) \in 0 .. q
          /\ \A j \in m + LastOf(ofFile, b) + 1 .. n : pairs[j][1] # b
      BY <1>14
    <3> HIDE DEF b
    <3>3. \A j \in (l - 1) + 1 .. n : pairs[j][1] # b
      <4>1. \A j \in (l - 1) + 1 .. n : j \in m + LastOf(ofFile, b) + 1 .. n
        BY <1>6, <2>1, <2>2, <3>1, <3>2
      <4> QED
        BY <3>2, <4>1
    <3>4. /\ b \in DOMAIN final <=> b \in DOMAIN after[l - 1]
          /\ b \in DOMAIN final => final[b] = after[l - 1][b]
      BY <1>12, <2>2, <3>3
    <3>5. /\ b \in DOMAIN env <=> b \in DOMAIN final
          /\ b \in DOMAIN env => env[b] = final[b]
      BY <1>11, <3>1
    <3>6. Value(after[l - 1], b) = Value(env, b)
      <4>1. CASE b \in DOMAIN env
        BY <3>4, <3>5, <4>1 DEF Value
      <4>2. CASE b \notin DOMAIN env
        BY <3>4, <3>5, <4>2 DEF Value
      <4> QED
        BY <4>1, <4>2
    <3> QED
      BY <3>6 DEF b
  <2>6. Expand(after[l - 1], text) = Expand(env, text)
    BY <2>5, ExpandSame
  <2> QED
    BY <1>11, <2>4, <2>6
<1>16. ASSUME NEW name \in DOMAIN env \ SpecialNames,
              LastOf(ofFile, name) = 0, name \notin DOMAIN task.env
       PROVE  env[name] = Builtin(task)[name]
  <2>1. ASSUME NEW j \in 0 + 1 .. n
        PROVE  pairs[j][1] # name
    <3>1. CASE j <= m
      <4>1. j \in 1 .. Len(order) /\ pairs[j] = order[j]
        BY <1>6, <3>1 DEF m
      <4> QED
        BY <1>2, <1>16, <4>1
    <3>2. CASE ~(j <= m)
      <4>1. j \in m + LastOf(ofFile, name) + 1 .. n
        BY <1>6, <1>16, <3>2
      <4> QED
        BY <1>14, <4>1
    <3> QED
      BY <3>1, <3>2
  <2>2. 0 \in 0 .. n
    BY <1>6
  <2>3. final[name] = after[0][name]
    BY <1>11, <1>12, <2>1, <2>2
  <2> QED
    BY <1>10, <1>11, <2>3 DEF IsSetting
<1>17. ASSUME NEW name \in DOMAIN env \ SpecialNames,
              LastOf(ofFile, name) = 0, name \in DOMAIN task.env,
              ToSet(task.env[name]) \cap Names = {}
       PROVE  env[name] = Expand(env, task.env[name])
  <2> DEFINE text == task.env[name]
  <2>1. PICK l \in 1 .. m : order[l] = <<name, text>>
    BY <1>2, <1>17 DEF m
  <2>2. l \in 1 .. n /\ l <= m /\ pairs[l] = <<name, text>>
    BY <1>6, <2>1
  <2>3. ASSUME NEW j \in l + 1 .. n
        PROVE  pairs[j][1] # name
    <3>1. CASE j <= m
      <4>1. j \in 1 .. m /\ j \in 1 .. n /\ j # l
        BY <1>6, <2>2, <3>1
      <4>2. pairs[j] = order[j]
        BY <1>6, <3>1, <4>1
      <4>3. order[l][1] = name
        BY <2>1
      <4>4. j \in 1 .. Len(order) /\ l \in 1 .. Len(order)
        BY <2>1, <4>1 DEF m
      <4>5. order[j][1] # order[l][1]
        BY <1>2, <4>1, <4>4
      <4> QED
        BY <4>2, <4>3, <4>5
    <3>2. CASE ~(j <= m)
      <4>1. j \in m + LastOf(ofFile, name) + 1 .. n
        BY <1>6, <1>17, <2>2, <3>2
      <4> QED
        BY <1>14, <4>1
    <3> QED
      BY <3>1, <3>2
  <2> HIDE DEF text
  <2>4. final[name] = Expand(after[l - 1], text)
    BY <1>13, <2>2, <2>3
  <2>5. \A k \in DOMAIN text : text[k] \notin Names
    BY <1>17 DEF ToSet, text
  <2>6. Expand(after[l - 1], text) = Expand(env, text)
    BY <2>5, ExpandSame
  <2> QED
    BY <1>11, <2>4, <2>6 DEF text
<1>18. Layered(env, task, ofFile)
  BY <1>11, <1>15, <1>16, <1>17 DEF Layered
<1> QED
  BY <1>9, <1>18 DEF ofFile

-----------------------------------------------------------------------------
(* Images.                                                                 *)

LEMMA LatestFits == Latest \in Text /\ Len(Latest) = 2 /\ Latest[1] = ":"
                    /\ Latest[2] = "latest"
BY DEF Latest, Text, Atoms

(* the position of the last "/" *)
LEMMA SlashIs ==
    ASSUME NEW ref \in Text
    PROVE  LET slash == SelectLastInSeq(ref, LAMBDA atom : atom = "/")
           IN /\ slash \in 0 .. Len(ref)
              /\ slash # 0 => ref[slash] = "/"
              /\ \A i \in slash + 1 .. Len(ref) : ref[i] # "/"
<1> DEFINE n == Len(ref)
           found == {i \in 1 .. n : ref[i] = "/"}
           slash == SelectLastInSeq(ref, LAMBDA atom : atom = "/")
<1>1. n \in Nat
  BY LenProperties DEF Text
<1>2. slash = IF found # {} THEN Max(found) ELSE 0
  BY DEF SelectLastInSeq
<1> HIDE DEF slash
<1>3. found # {} => Max(found) \in found /\ \A y \in found : y <= Max(found)
  <2>1. found \subseteq 0 .. n
    BY <1>1
  <2> QED
    BY <1>1, <2>1, MinMax
<1>4. slash \in 0 .. n /\ (slash # 0 => ref[slash] = "/")
  BY <1>1, <1>2, <1>3
<1>5. ASSUME NEW i \in slash + 1 .. n PROVE ref[i] # "/"
  <2> SUFFICES ASSUME ref[i] = "/" PROVE FALSE
    OBVIOUS
  <2>1. i \in found
    BY <1>1, <1>4
  <2>2. i <= slash
    BY <1>2, <1>3, <2>1
  <2> QED
    BY <1>1, <1>4, <2>2
<1> QED
  BY <1>4, <1>5 DEF slash

LEMMA WithLatest ==
    ASSUME NEW ref \in Text
    PROVE  /\ ref \o Latest \in Text /\ Len(ref \o Latest) = Len(ref) + 2
           /\ \A i \in 1 .. Len(ref) : (ref \o Latest)[i] = ref[i]
           /\ (ref \o Latest)[Len(ref) + 1] = ":"
           /\ (ref \o Latest)[Len(ref) + 2] = "latest"
<1>1. Len(ref) \in Nat
  BY LenProperties DEF Text
<1>2. /\ ref \o Latest \in Text /\ Len(ref \o Latest) = Len(ref) + 2
      /\ \A i \in 1 .. Len(ref) + 2 :
             (ref \o Latest)[i] = IF i <= Len(ref) THEN ref[i]
                                  ELSE Latest[i - Len(ref)]
  <2>1. /\ ref \o Latest \in Seq(Atoms)
        /\ Len(ref \o Latest) = Len(ref) + Len(Latest)
        /\ \A i \in 1 .. Len(ref) + Len(Latest) :
               (ref \o Latest)[i] = IF i <= Len(ref) THEN ref[i]
                                    ELSE Latest[i - Len(ref)]
    BY LatestFits, ConcatProperties DEF Text
  <2> QED
    BY <2>1, LatestFits DEF Text
<1>3. Len(ref) + 1 \in 1 .. Len(ref) + 2 /\ ~(Len(ref) + 1 <= Len(ref))
      /\ Len(ref) + 2 \in 1 .. Len(ref) + 2 /\ ~(Len(ref) + 2 <= Len(ref))
      /\ Len(ref) + 1 - Len(ref) = 1 /\ Len(ref) + 2 - Len(ref) = 2
  BY <1>1
<1>4. \A i \in 1 .. Len(ref) : i \in 1 .. Len(ref) + 2 /\ i <= Len(ref)
  BY <1>1
<1> QED
  BY <1>2, <1>3, <1>4, LatestFits

(* Nothing is left to be normalized in what Normalized returns. *)
LEMMA NormalizedIsNormal ==
    ASSUME NEW ref \in Text
    PROVE  /\ Normalized(ref) \in Text
           /\ Normalized(Normalized(ref)) = Normalized(ref)
<1> DEFINE slash(t) == SelectLastInSeq(t, LAMBDA atom : atom = "/")
           tagged(t) == \E i \in slash(t) + 1 .. Len(t) : t[i] = ":"
           full == ref \o Latest
           n == Len(ref)
<1>0. \A t : Normalized(t) = IF tagged(t) THEN t ELSE t \o Latest
  BY DEF Normalized
<1>1. n \in Nat
  BY LenProperties DEF Text
<1>2. CASE tagged(ref)
  BY <1>0, <1>2
<1>3. CASE ~tagged(ref)
  <2>1. Normalized(ref) = full
    BY <1>0, <1>3
  <2>2. /\ full \in Text /\ Len(full) = n + 2
        /\ full[n + 1] = ":" /\ full[n + 2] = "latest"
    BY WithLatest
  <2>3. slash(full) \in 0 .. n + 2 /\ (slash(full) # 0 => full[slash(full)] = "/")
    <3> HIDE DEF full
    <3> QED
      BY <2>2, SlashIs
  <2> HIDE DEF full, n
  <2> DEFINE s == slash(full)
  <2> HIDE DEF s
  <2>4. s \in 0 .. n + 2 /\ s # n + 1 /\ s # n + 2
    <3>1. s \in 0 .. n + 2 /\ (s # 0 => full[s] = "/")
      BY <2>3 DEF s
    <3>2. n + 1 # 0 /\ n + 2 # 0
      BY <1>1
    <3> QED
      BY <2>2, <3>1, <3>2
  <2>5. n + 1 \in s + 1 .. n + 2
    BY <1>1, <2>4
  <2>6. tagged(full)
    BY <2>2, <2>5 DEF s
  <2>7. Normalized(full) = full
    BY <1>0, <2>6
  <2> QED
    BY <2>1, <2>2, <2>7
<1> QED
  BY <1>2, <1>3

(* What getImageByTag finds among normalized tags is the image docker      *)
(* means.                                                                  *)
LEMMA FoundIsMeant ==
    ASSUME NEW ref \in Text, NEW some,
           \A tag \in some : Normalized(tag) = tag, HasImage(some, Tag(ref))
    PROVE  Normalized(ref) \in some
<1>1. Len(ref) \in Nat
  BY LenProperties DEF Text
<1>2. Contains(Tag(ref), ":")
  <2>1. CASE Contains(ref, ":")
    BY <2>1 DEF Tag
  <2>2. CASE ~Contains(ref, ":")
    <3>1. Tag(ref) = ref \o Latest
      BY <2>2 DEF Tag
    <3>2. Len(ref) + 1 \in 1 .. Len(ref) + 2
      BY <1>1
    <3> QED
      BY <3>1, <3>2, WithLatest DEF Contains
  <2> QED
    BY <2>1, <2>2
<1>3. Tag(ref) \in some
  BY <1>2 DEF HasImage
<1>4. CASE Contains(ref, ":")
  BY <1>3, <1>4 DEF Tag
<1>5. CASE ~Contains(ref, ":")
  <2> DEFINE slash == SelectLastInSeq(ref, LAMBDA atom : atom = "/")
  <2>1. slash \in 0 .. Len(ref)
    BY SlashIs
  <2>2. Normalized(ref) = IF \E i \in slash + 1 .. Len(ref) : ref[i] = ":"
                          THEN ref ELSE ref \o Latest
    BY DEF Normalized
  <2> HIDE DEF slash
  <2>3. \A i \in slash + 1 .. Len(ref) : ref[i] # ":"
    <3>1. \A i \in slash + 1 .. Len(ref) : i \in 1 .. Len(ref)
      BY <1>1, <2>1
    <3> QED
      BY <1>5, <3>1 DEF Contains
  <2> QED
    BY <1>3, <1>5, <2>2, <2>3 DEF Tag
<1> QED
  BY <1>4, <1>5

LEMMA TagFits ==
    ASSUME NEW ref \in Text
    PROVE  Tag(ref) \in Text
BY WithLatest DEF Tag

-----------------------------------------------------------------------------
(* Credentials.                                                            *)

(* Find may miss a pair, but what it finds is there. *)
LEMMA FoundIsThere ==
    ASSUME NEW variables \in TextPairs
    PROVE  /\ FoundIn(variables) \subseteq TextsFor(variables)
           /\ FoundIn(variables) = {} \/ \E text : FoundIn(variables) = {text}
<1> DEFINE n == Len(variables)
           found == {i \in 2 .. n : variables[i][1] = AuthKey}
           i == Find(variables, AuthKey)
<1>1. n \in Nat /\ DOMAIN variables = 1 .. n
  BY LenProperties DEF TextPairs
<1>2. i = IF found # {} THEN Max(found) ELSE 0
  BY DEF Find, SelectLastInSubSeq
<1> HIDE DEF i
<1>3. found # {} => Max(found) \in found
  <2>1. found \subseteq 0 .. n
    BY <1>1
  <2> QED
    BY <1>1, <2>1, MinMax
<1>4. i # 0 => i \in 1 .. n /\ variables[i][1] = AuthKey
  BY <1>1, <1>2, <1>3
<1>5. FoundIn(variables) = IF i = 0 THEN {} ELSE {variables[i][2]}
  BY DEF FoundIn, i
<1>6. i # 0 => variables[i][2] \in TextsFor(variables)
  <2>1. i # 0 => variables[i] \in ToSet(variables) /\ variables[i][1] = AuthKey
    BY <1>1, <1>4 DEF ToSet
  <2> QED
    BY <2>1 DEF TextsFor
<1> QED
  BY <1>5, <1>6

LEMMA DecodedIsOffered ==
    ASSUME NEW texts, texts = {} \/ \E text : texts = {text}, Decodes(texts),
           NEW registry
    PROVE  IF registry \in DOMAIN Decoded(texts)
           THEN Decoded(texts)[registry] \in Offered(texts, registry)
           ELSE Offered(texts, registry) = {}
<1>1. CASE texts = {}
  BY <1>1 DEF Decoded, Offered
<1>2. CASE texts # {}
  <2>1. PICK text : texts = {text}
    BY <1>2
  <2>2. Decoded(texts) = AuthsOf[text] /\ text \in DOMAIN AuthsOf
    BY <2>1 DEF Decoded, Decodes
  <2>3. CASE registry \in DOMAIN AuthsOf[text]
    BY <2>1, <2>2, <2>3 DEF Offered
  <2>4. CASE registry \notin DOMAIN AuthsOf[text]
    BY <2>1, <2>2, <2>4 DEF Offered
  <2> QED
    BY <2>2, <2>3, <2>4
<1> QED
  BY <1>1, <1>2

(* the last of four lists wins *)
LEMMA LastListWins ==
    ASSUME NEW a, NEW b, NEW c, NEW d, NEW registry
    PROVE  ChooseAuth(<<a, b, c, d>>, registry) =
               IF registry \in DOMAIN d THEN d[registry]
               ELSE IF registry \in DOMAIN c THEN c[registry]
               ELSE IF registry \in DOMAIN b THEN b[registry]
               ELSE IF registry \in DOMAIN a THEN a[registry] ELSE "none"
<1> DEFINE lists == <<a, b, c, d>>
           found == {k \in 1 .. 4 : registry \in DOMAIN lists[k]}
           i == IF found # {} THEN Max(found) ELSE 0
<1>1. Len(lists) = 4 /\ lists[1] = a /\ lists[2] = b /\ lists[3] = c
      /\ lists[4] = d
  OBVIOUS
<1>2. ChooseAuth(lists, registry) = IF i = 0 THEN "none" ELSE lists[i][registry]
  BY <1>1 DEF ChooseAuth, SelectLastInSeq
<1> HIDE DEF lists
<1>3. found # {} => Max(found) \in found /\ \A y \in found : y <= Max(found)
  <2>1. found \subseteq 0 .. 4 /\ 4 \in Nat
    OBVIOUS
  <2> QED
    BY <2>1, MinMax
<1>4. i \in 0 .. 4 /\ (i # 0 => registry \in DOMAIN lists[i])
      /\ \A k \in 1 .. 4 : registry \in DOMAIN lists[k] => k <= i
  <2> DEFINE m == Max(found)
  <2>1. found # {} => m \in found /\ \A y \in found : y <= m
    BY <1>3
  <2>2. i = IF found # {} THEN m ELSE 0
    OBVIOUS
  <2> HIDE DEF m, i
  <2>3. CASE found = {}
    BY <2>2, <2>3
  <2>4. CASE found # {}
    BY <2>1, <2>2, <2>4
  <2> QED
    BY <2>3, <2>4
<1> HIDE DEF i
<1>5. /\ registry \in DOMAIN d => 4 <= i
      /\ registry \in DOMAIN c => 3 <= i
      /\ registry \in DOMAIN b => 2 <= i
      /\ registry \in DOMAIN a => 1 <= i
  BY <1>1, <1>4
<1>6. /\ i = 4 => registry \in DOMAIN d
      /\ i = 3 => registry \in DOMAIN c
      /\ i = 2 => registry \in DOMAIN b
      /\ i = 1 => registry \in DOMAIN a
  BY <1>1, <1>4
<1>7. i = 0 \/ i = 1 \/ i = 2 \/ i = 3 \/ i = 4
  BY <1>4
<1>8. ChooseAuth(lists, registry) =
          IF registry \in DOMAIN d THEN d[registry]
          ELSE IF registry \in DOMAIN c THEN c[registry]
          ELSE IF registry \in DOMAIN b THEN b[registry]
          ELSE IF registry \in DOMAIN a THEN a[registry] ELSE "none"
  <2>1. CASE i = 0
    BY <1>2, <1>5, <2>1
  <2>2. CASE i = 1
    BY <1>1, <1>2, <1>5, <1>6, <2>2
  <2>3. CASE i = 2
    BY <1>1, <1>2, <1>5, <1>6, <2>3
  <2>4. CASE i = 3
    BY <1>1, <1>2, <1>5, <1>6, <2>4
  <2>5. CASE i = 4
    BY <1>1, <1>2, <1>6, <2>5
  <2> QED
    BY <1>7, <2>1, <2>2, <2>3, <2>4, <2>5
<1> QED
  BY <1>8 DEF lists

-----------------------------------------------------------------------------
(* The environment of a job.                                               *)

(* A scenario the setup may meet: a file of any nodes, a task with any     *)
(* environment, any text to print, and docker's images with their tags,    *)
(* which docker normalizes.                                                *)
ScenarioFits(scenario, nodes) ==
    /\ scenario.file \in nodes
    /\ TaskFits(scenario.task)
    /\ scenario.output \in Text
    /\ \A tag \in scenario.tags : Normalized(tag) = tag

VarsBuilt ==
    /\ JobName \in DOMAIN config.jobs
    /\ vars \in Build(given.task, config.variables, ConfigJob.variables)

(* The environment is built once, from the configuration the job is left   *)
(* with.                                                                   *)
SetupInv(nodes) ==
    /\ ScenarioFits(given, nodes)
    /\ ConfigFits(config)
    /\ phase = "prepare" => config = Empty
    /\ phase = "decode" =>
           /\ ImageFits(given.file) /\ ConfigFits(parsed)
           /\ parsed = [image |-> parsed.image, jobs |-> parsed.jobs,
                        variables |-> parsed.variables]
    /\ phase \in {"prepare", "parse", "decode", "lookup"} => vars = <<>>
    /\ \/ phase \in {"image", "prepareImage", "pull", "findAgain", "commands",
                     "closed"}
       \/ vars # <<>>
       => VarsBuilt

LEMMA UnmarshalFits ==
    ASSUME NEW nodes, NodesFit(nodes), SetupInv(nodes),
           ReadHeading \/ DecodeJob \/ DecodeVariables
    PROVE  /\ ConfigFits(config')
           /\ phase' = "decode" =>
                  /\ ImageFits(given.file) /\ ConfigFits(parsed')
                  /\ parsed' = [image |-> parsed'.image, jobs |-> parsed'.jobs,
                                variables |-> parsed'.variables]
<1> DEFINE root == given.file
<1>1. root \in nodes /\ ConfigFits(config) /\ ConfigFits(Empty)
  BY NoText DEF SetupInv, ScenarioFits, ConfigFits, Empty
<1>2. CASE ReadHeading
  <2>1. CASE ~ImageFits(root)
    BY <1>1, <1>2, <2>1 DEF ReadHeading, Return
  <2>2. CASE ImageFits(root)
    <3>1. ConfigFits(Heading(root))
      BY <1>1, <2>2, HeadingFits
    <3>2. \/ config' = Heading(root) /\ phase' # "decode"
          \/ config' = config /\ parsed' = Heading(root)
      BY <1>2, <2>2 DEF ReadHeading, Return
    <3>3. Heading(root) = [image |-> Heading(root).image,
                           jobs |-> Heading(root).jobs,
                           variables |-> Heading(root).variables]
      BY DEF Heading, Empty
    <3> QED
      BY <1>1, <2>2, <3>1, <3>2, <3>3
  <2> QED
    BY <2>1, <2>2
<1>3. CASE DecodeJob \/ DecodeVariables
  <2>1. /\ phase = "decode" /\ ImageFits(root) /\ ConfigFits(parsed)
        /\ parsed = [image |-> parsed.image, jobs |-> parsed.jobs,
                     variables |-> parsed.variables]
    BY <1>3 DEF DecodeJob, DecodeVariables, SetupInv
  <2>2. \A name : Field(root, name) \in nodes
    BY <1>1, <2>1, FieldsOfFileFit
  <2>3. CASE config' \in {config, parsed} /\ phase' # "decode"
    BY <1>1, <2>1, <2>3
  <2>4. CASE DecodeJob /\ ~(config' \in {config, parsed} /\ phase' # "decode")
    <3>1. PICK name \in raw :
              /\ DecodeResult(Field(root, name)) = "ok"
              /\ parsed' = WithJob(parsed, name,
                                   DecodeOver(NoJob, Field(root, name)))
              /\ config' = config
      BY <2>4 DEF DecodeJob, Return
    <3>2. ConfigFits(parsed')
      BY <2>1, <2>2, <3>1, WithJobFits
    <3>3. parsed' = [image |-> parsed'.image, jobs |-> parsed'.jobs,
                     variables |-> parsed'.variables]
      BY <2>1, <3>1 DEF WithJob
    <3> QED
      BY <1>1, <2>1, <3>1, <3>2, <3>3
  <2>5. CASE DecodeVariables /\ ~(config' \in {config, parsed} /\ phase' # "decode")
    <3> DEFINE pairs == MapSlice(Field(root, "variables"))
    <3>1. /\ IsMapSlice(Field(root, "variables")) /\ phase' # "decode"
          /\ config' = [parsed EXCEPT !.variables = pairs]
      BY <2>5 DEF DecodeVariables, Return
    <3>2. pairs \in TextPairs
      BY <2>2, <3>1, MapSliceFits
    <3> HIDE DEF pairs
    <3>3. /\ config'.image = parsed.image /\ config'.jobs = parsed.jobs
          /\ config'.variables = pairs
      BY <2>1, <3>1
    <3> QED
      BY <2>1, <3>1, <3>2, <3>3 DEF ConfigFits
  <2> QED
    BY <1>3, <2>3, <2>4, <2>5
<1> QED
  BY <1>2, <1>3

THEOREM SetupIsSound ==
    ASSUME NEW nodes, NodesFit(nodes),
           NEW scenario, ScenarioFits(scenario, nodes)
    PROVE  Start(scenario) /\ [][Next]_all => []SetupInv(nodes)
<1>1. Start(scenario) => SetupInv(nodes)
  <2>1. ConfigFits(Empty)
    BY NoText DEF ConfigFits, Empty
  <2> QED
    BY <2>1 DEF Start, SetupInv
<1>2. SetupInv(nodes) /\ [Next]_all => SetupInv(nodes)'
  <2> SUFFICES ASSUME SetupInv(nodes), [Next]_all PROVE SetupInv(nodes)'
    OBVIOUS
  <2> USE DEF SetupInv
  <2>1. CASE PrepareVariables
    <3>1. /\ UNCHANGED <<given, config, vars>> /\ phase = "prepare"
          /\ phase' \in {"parse", "failed"}
      BY <2>1 DEF PrepareVariables
    <3> QED
      BY <3>1 DEF VarsBuilt
  <2>2. CASE ReadHeading \/ DecodeJob \/ DecodeVariables
    <3>1. /\ UNCHANGED <<given, vars>> /\ phase \in {"parse", "decode"}
          /\ phase' \in {"decode", "lookup", "failed"}
      BY <2>2 DEF ReadHeading, DecodeJob, DecodeVariables, Return
    <3>2. /\ ConfigFits(config')
          /\ phase' = "decode" =>
                 /\ ImageFits(given.file) /\ ConfigFits(parsed')
                 /\ parsed' = [image |-> parsed'.image, jobs |-> parsed'.jobs,
                               variables |-> parsed'.variables]
      BY <2>2, UnmarshalFits
    <3> QED
      BY <3>1, <3>2
  <2>3. CASE Lookup
    <3>1. UNCHANGED <<given, config>> /\ phase = "lookup"
      BY <2>3 DEF Lookup
    <3>2. CASE JobName \in DOMAIN config.jobs
      <4>1. /\ vars' \in Build(given.task, config.variables,
                               ConfigJob.variables)
            /\ phase' = "image"
        BY <2>3, <3>2 DEF Lookup
      <4> QED
        BY <3>1, <3>2, <4>1 DEF VarsBuilt, ConfigJob
    <3>3. CASE JobName \notin DOMAIN config.jobs
      <4>1. phase' = "failed" /\ vars' = vars
        BY <2>3, <3>3 DEF Lookup
      <4> QED
        BY <3>1, <4>1
    <3> QED
      BY <3>2, <3>3
  <2>4. CASE \/ ChooseImage \/ FindImage \/ PullImage \/ FindAgain \/ LogMask
             \/ Close \/ UNCHANGED all
    <3>1. /\ UNCHANGED <<given, config, vars>>
          /\ \/ phase' = phase /\ parsed' = parsed
             \/ /\ phase \in {"image", "prepareImage", "pull", "findAgain",
                              "commands"}
                /\ phase' \notin {"prepare", "parse", "decode", "lookup"}
      BY <2>4 DEF ChooseImage, FindImage, PullImage, FindAgain, LogMask, Close,
                  all, decoding
    <3> QED
      BY <3>1 DEF VarsBuilt, ConfigJob
  <2> QED
    BY <2>1, <2>2, <2>3, <2>4 DEF Next
<1> QED
  BY <1>1, <1>2, PTL

LEMMA BuiltIsLayered ==
    ASSUME NEW nodes, SetupInv(nodes), VarsBuilt
    PROVE  VarsFit(vars) /\ Layered(vars, given.task, FilePairs)
<1>1. /\ TaskFits(given.task) /\ config.variables \in TextPairs
      /\ ConfigJob.variables \in TextPairs
  BY DEF SetupInv, ScenarioFits, ConfigFits, VarsBuilt, ConfigJob
<1> QED
  BY <1>1, BuildIsLayered DEF VarsBuilt, FilePairs

LEMMA VarsAreTexts ==
    ASSUME NEW nodes, SetupInv(nodes)
    PROVE  VarsFit(vars)
<1>1. CASE vars = <<>>
  BY <1>1 DEF VarsFit
<1>2. CASE vars # <<>>
  BY <1>2, BuiltIsLayered DEF SetupInv
<1> QED
  BY <1>1, <1>2

(* Whatever the layers and their number, and in whatever order Go walks    *)
(* the map of the task: a variable has the value of the innermost layer    *)
(* that sets it, with its references resolved, and the names that are set  *)
(* last are not for the user to set: Builder.build of internal/env.        *)
THEOREM LayersAreInOrder ==
    ASSUME NEW nodes, NodesFit(nodes),
           NEW scenario, ScenarioFits(scenario, nodes)
    PROVE  Start(scenario) /\ [][Next]_all => []LayersInOrder
<1>1. SetupInv(nodes) => LayersInOrder
  <2> SUFFICES ASSUME SetupInv(nodes), vars # <<>> PROVE LayersInOrder
    BY DEF LayersInOrder
  <2>1. Layered(vars, given.task, FilePairs)
    BY BuiltIsLayered DEF SetupInv
  <2> QED
    BY <2>1 DEF Layered, LayersInOrder, Settled, Deciding
<1>2. Start(scenario) /\ [][Next]_all => []SetupInv(nodes)
  BY SetupIsSound
<1> QED
  BY <1>1, <1>2, PTL

-----------------------------------------------------------------------------
(* The log.                                                                *)

InSecrets == Secrets(vars, given.task.mask)

(* What the masker has passed on belongs to whole lines; the rest of what  *)
(* has been written is held back.                                          *)
LogInv ==
    /\ phase \notin {"commands", "closed"} =>
           said = <<>> /\ held = <<>> /\ shown = <<>>
    /\ phase = "commands" =>
           /\ held \in Text /\ shown \in Text
           /\ \E lines \in Text :
                  /\ said = lines \o held
                  /\ lines = <<>> \/ lines[Len(lines)] = NL
                  /\ Hides(InSecrets, lines, shown)
    /\ phase = "closed" => SecretsMasked

LEMMA NothingToHide ==
    ASSUME NEW secrets
    PROVE  Hides(secrets, <<>>, <<>>)
BY DEF Hides, Spans

(* a portion of the output is written *)
LEMMA LogMaskKeepsLines ==
    ASSUME NEW nodes, SetupInv(nodes), LogInv, LogMask
    PROVE  LogInv'
<1> DEFINE secrets == InSecrets
<1>1. VarsFit(vars)
  BY VarsAreTexts
<1>2. /\ secrets \subseteq Text \ {<<>>}
      /\ \A s \in secrets : \A k \in 1 .. Len(s) : s[k] # NL
  BY <1>1, SecretsFit DEF VarsFit, InSecrets
<1>3. phase = "commands" /\ phase' = phase /\ InSecrets' = secrets
  BY DEF LogMask, InSecrets
<1>4. PICK lines \in Text :
          /\ said = lines \o held
          /\ lines = <<>> \/ lines[Len(lines)] = NL
          /\ Hides(secrets, lines, shown)
  BY <1>3 DEF LogInv
<1>5. held \in Text /\ shown \in Text
  BY <1>3 DEF LogInv
<1>6. Output \in Text
  <2> DEFINE value == [name \in Names |-> IF name \in DOMAIN vars
                                          THEN vars[name] ELSE <<>>]
  <2>1. \A name \in Names : value[name] \in Text
    BY <1>1, NoText DEF VarsFit
  <2>2. given.output \in Text
    BY DEF SetupInv, ScenarioFits
  <2> HIDE DEF value
  <2>3. ExpandBy(given.output, value) \in Text
    BY <2>1, <2>2, ExpandByFits
  <2> QED
    BY <2>3 DEF Output, ExpandEnv, value
<1>7. PICK n \in Len(said) + 1 .. Len(Output) :
          LET portion == SubSeq(Output, Len(said) + 1, n)
              text == held \o portion
          IN /\ said' = said \o portion
             /\ held' = Rest(text)
             /\ shown' = shown \o Mask(secrets, Complete(text))
  BY DEF LogMask, InSecrets
<1> HIDE DEF secrets
<1> DEFINE portion == SubSeq(Output, Len(said) + 1, n)
           text == held \o portion
           whole == Complete(text)
<1>8. /\ said' = said \o portion /\ held' = Rest(text)
      /\ shown' = shown \o Mask(secrets, whole)
  BY <1>7
<1>9. portion \in Text
  <2>1. said \in Text
    BY <1>4, <1>5, ConcatProperties DEF Text
  <2>2. Len(said) \in Nat /\ Len(Output) \in Nat
    BY <1>6, <2>1, LenProperties DEF Text
  <2>3. \A i \in 1 .. Len(Output) : Output[i] \in Atoms
    BY <1>6, ElementOfSeq DEF Text
  <2>4. /\ Len(said) + 1 \in Int /\ n \in Int
        /\ \A i \in Len(said) + 1 .. n : Output[i] \in Atoms
    BY <2>2, <2>3
  <2> QED
    BY <2>4, SubSeqProperties DEF Text
<1> HIDE DEF portion
<1>10. text \in Text
  BY <1>5, <1>9, ConcatProperties DEF Text
<1> HIDE DEF text
<1>11. /\ whole \in Text /\ Rest(text) \in Text /\ whole \o Rest(text) = text
       /\ whole = <<>> \/ whole[Len(whole)] = NL
  BY <1>10, CompleteAndRest
<1> HIDE DEF whole
<1>12. Mask(secrets, whole) \in Text /\ Hides(secrets, whole, Mask(secrets, whole))
  BY <1>2, <1>11, MaskHides
<1>13. Hides(secrets, lines \o whole, shown \o Mask(secrets, whole))
  BY <1>2, <1>4, <1>5, <1>11, <1>12, HidesConcat
<1>14. said' = (lines \o whole) \o held'
  <2>1. said' = (lines \o held) \o portion
    BY <1>4, <1>8
  <2>2. (lines \o held) \o portion = lines \o text
    BY <1>5, <1>9, ConcatAssociative DEF Text, text
  <2>3. (lines \o whole) \o Rest(text) = lines \o (whole \o Rest(text))
    <3> DEFINE rest == Rest(text)
    <3>1. /\ lines \in Seq(Atoms) /\ whole \in Seq(Atoms)
          /\ rest \in Seq(Atoms)
      BY <1>11 DEF Text
    <3> HIDE DEF rest
    <3>2. (lines \o whole) \o rest = lines \o (whole \o rest)
      BY <3>1, ConcatAssociative
    <3> QED
      BY <3>2 DEF rest
  <2> QED
    BY <1>8, <1>11, <2>1, <2>2, <2>3
<1>15. lines \o whole \in Text /\ shown' \in Text /\ held' \in Text
  BY <1>5, <1>8, <1>11, <1>12, ConcatProperties DEF Text
<1>16. \/ lines \o whole = <<>>
       \/ (lines \o whole)[Len(lines \o whole)] = NL
  <2> DEFINE both == lines \o whole
  <2>1. /\ Len(both) = Len(lines) + Len(whole)
        /\ \A i \in 1 .. Len(lines) + Len(whole) :
               both[i] = IF i <= Len(lines) THEN lines[i]
                         ELSE whole[i - Len(lines)]
    BY <1>11, ConcatProperties DEF Text
  <2>2. CASE whole = <<>>
    <3>1. both = lines
      BY <2>2, ConcatEmptySeq DEF Text
    <3> QED
      BY <1>4, <3>1
  <2>3. CASE whole # <<>>
    <3>1. Len(lines) \in Nat /\ Len(whole) \in Nat \ {0}
      BY <1>11, <2>3, LenProperties, EmptySeq DEF Text
    <3> DEFINE k == Len(lines) + Len(whole)
    <3>2. k \in 1 .. k /\ ~(k <= Len(lines)) /\ k - Len(lines) = Len(whole)
      BY <3>1
    <3> HIDE DEF both
    <3>3. both[Len(both)] = whole[Len(whole)]
      BY <2>1, <3>2
    <3> QED
      BY <1>11, <2>3, <3>3 DEF both
  <2> QED
    BY <2>2, <2>3
<1>17. \E more \in Text :
           /\ said' = more \o held'
           /\ more = <<>> \/ more[Len(more)] = NL
           /\ Hides(secrets, more, shown')
  BY <1>8, <1>13, <1>14, <1>15, <1>16
<1> QED
  BY <1>3, <1>15, <1>17 DEF LogInv

(* what is cut off is the line break that Close adds *)
LEMMA WithoutBreak ==
    ASSUME NEW text \in Text
    PROVE  /\ SubSeq(Append(text, NL), 1, Len(text)) = text
           /\ SubSeq(Append(text, NL), 1, Len(text) + 1) = text \o <<NL>>
<1>1. NL \in Atoms /\ Len(text) \in Nat
  BY LenProperties DEF Atoms, Text
<1>2. /\ Append(text, NL) = text \o <<NL>> /\ Append(text, NL) \in Text
      /\ Len(Append(text, NL)) = Len(text) + 1
  BY <1>1, AppendProperties, AppendIsConcat DEF Text
<1>3. SubSeq(Append(text, NL), 1, Len(text) + 1) = text \o <<NL>>
  BY <1>2, SubSeqFull DEF Text
<1>4. SubSeq(Append(text, NL), 1, Len(text)) = text
  <2> DEFINE t == Append(text, NL)
             s == SubSeq(t, 1, Len(text))
  <2>1. \A i \in 1 .. Len(text) : t[i] = text[i] /\ t[i] \in Atoms
    BY <1>1, AppendProperties, ElementOfSeq DEF Text
  <2> HIDE DEF t
  <2>2. /\ s \in Seq(Atoms)
        /\ Len(s) = IF 1 <= Len(text) THEN Len(text) - 1 + 1 ELSE 0
        /\ \A i \in 1 .. Len(text) - 1 + 1 : s[i] = t[1 + i - 1]
    BY <1>1, <2>1, SubSeqProperties
  <2> HIDE DEF s
  <2>3. Len(s) = Len(text) /\ \A i \in 1 .. Len(text) : s[i] = text[i]
    <3>1. Len(s) = Len(text)
      BY <1>1, <2>2
    <3>2. \A i \in 1 .. Len(text) : i \in 1 .. Len(text) - 1 + 1 /\ 1 + i - 1 = i
      BY <1>1
    <3> QED
      BY <2>1, <2>2, <3>1, <3>2
  <2>4. s = text
    BY <2>2, <2>3, SeqEqual DEF Text
  <2> QED
    BY <2>4 DEF s, t
<1> QED
  BY <1>3, <1>4

(* the rest is masked with the line break it has got *)
LEMMA CloseMasksRest ==
    ASSUME NEW nodes, SetupInv(nodes), LogInv, Close
    PROVE  LogInv'
<1> DEFINE secrets == InSecrets
<1>1. /\ secrets \subseteq Text \ {<<>>}
      /\ \A s \in secrets : \A k \in 1 .. Len(s) : s[k] # NL
  BY VarsAreTexts, SecretsFit DEF VarsFit, InSecrets
<1>2. /\ phase = "commands" /\ phase' = "closed" /\ InSecrets' = secrets
      /\ said' = said
      /\ shown' = IF held = <<>> THEN shown
                  ELSE shown \o Mask(secrets, held \o <<NL>>)
  BY DEF Close, InSecrets
<1>3. PICK lines \in Text :
          /\ said = lines \o held
          /\ lines = <<>> \/ lines[Len(lines)] = NL
          /\ Hides(secrets, lines, shown)
  BY <1>2 DEF LogInv
<1>4. held \in Text /\ shown \in Text /\ said \in Text
  BY <1>2, <1>3, ConcatProperties DEF LogInv, Text
<1> HIDE DEF secrets
<1>5. Hides(secrets, SubSeq(Append(said, NL), 1, Len(shown')), shown')
  <2>1. CASE held = <<>>
    <3>1. said = lines
      BY <1>3, <2>1, ConcatEmptySeq DEF Text
    <3>2. Len(shown) = Len(said)
      BY <1>3, <3>1 DEF Hides
    <3> QED
      BY <1>2, <1>3, <1>4, <2>1, <3>1, <3>2, WithoutBreak
  <2>2. CASE held # <<>>
    <3> DEFINE rest == held \o <<NL>>
    <3>1. rest \in Text
      <4>1. <<NL>> \in Text
        BY DEF Text, Atoms
      <4> QED
        BY <1>4, <4>1, ConcatProperties DEF Text
    <3> HIDE DEF rest
    <3>2. Mask(secrets, rest) \in Text /\ Hides(secrets, rest, Mask(secrets, rest))
      BY <1>1, <3>1, MaskHides
    <3>3. Hides(secrets, lines \o rest, shown \o Mask(secrets, rest))
      BY <1>1, <1>3, <1>4, <3>1, <3>2, HidesConcat
    <3>4. shown' = shown \o Mask(secrets, rest)
      BY <1>2, <2>2 DEF rest
    <3>5. lines \o rest = said \o <<NL>>
      <4>1. <<NL>> \in Text
        BY DEF Text, Atoms
      <4> QED
        BY <1>3, <1>4, <4>1, ConcatAssociative DEF Text, rest
    <3>6. Len(shown') = Len(said) + 1
      <4>1. Len(shown') = Len(said \o <<NL>>)
        BY <3>3, <3>4, <3>5 DEF Hides
      <4>2. <<NL>> \in Text /\ Len(<<NL>>) = 1
        BY DEF Text, Atoms
      <4>3. Len(said \o <<NL>>) = Len(said) + Len(<<NL>>)
        BY <1>4, <4>2, ConcatProperties DEF Text
      <4> QED
        BY <4>1, <4>2, <4>3
    <3>7. SubSeq(Append(said, NL), 1, Len(said) + 1) = said \o <<NL>>
      BY <1>4, WithoutBreak
    <3> QED
      BY <3>3, <3>4, <3>5, <3>6, <3>7
  <2> QED
    BY <2>1, <2>2
<1>6. SecretsMasked'
  BY <1>2, <1>5 DEF SecretsMasked, InSecrets
<1> QED
  BY <1>2, <1>6 DEF LogInv

LEMMA LogShowsNoSecret ==
    ASSUME LogInv
    PROVE  SecretsMasked
<1>1. CASE phase \notin {"commands", "closed"}
  <2>1. SubSeq(Append(<<>>, NL), 1, Len(<<>>)) = <<>>
    BY NoText, WithoutBreak
  <2> QED
    BY <1>1, <2>1, NothingToHide DEF LogInv, SecretsMasked
<1>2. CASE phase = "commands"
  <2>1. PICK lines \in Text :
            /\ said = lines \o held
            /\ Hides(InSecrets, lines, shown)
    BY <1>2 DEF LogInv
  <2>2. held \in Text
    BY <1>2 DEF LogInv
  <2> DEFINE t == Append(said, NL)
             n == Len(lines)
             s == SubSeq(t, 1, n)
  <2>3. /\ said \in Text /\ n \in Nat /\ Len(said) = n + Len(held)
        /\ Len(held) \in Nat
        /\ \A i \in 1 .. n : said[i] = lines[i]
    <3>1. n \in Nat /\ Len(held) \in Nat
      BY <2>2, LenProperties DEF Text
    <3>2. /\ said \in Text /\ Len(said) = n + Len(held)
          /\ \A i \in 1 .. n + Len(held) :
                 said[i] = IF i <= n THEN lines[i] ELSE held[i - n]
      BY <2>1, <2>2, ConcatProperties DEF Text
    <3>3. \A i \in 1 .. n : i \in 1 .. n + Len(held) /\ i <= n
      BY <3>1
    <3> QED
      BY <3>1, <3>2, <3>3
  <2>4. \A i \in 1 .. n : t[i] = lines[i] /\ t[i] \in Atoms
    <3>1. NL \in Atoms
      BY DEF Atoms
    <3>2. \A i \in 1 .. Len(said) : t[i] = said[i]
      BY <2>3, <3>1, AppendProperties DEF Text
    <3>3. \A i \in 1 .. n : lines[i] \in Atoms
      BY ElementOfSeq DEF Text
    <3>4. \A i \in 1 .. n : i \in 1 .. Len(said)
      BY <2>3
    <3> QED
      BY <2>3, <3>2, <3>3, <3>4
  <2> HIDE DEF t, n
  <2>5. /\ s \in Seq(Atoms)
        /\ Len(s) = IF 1 <= n THEN n - 1 + 1 ELSE 0
        /\ \A i \in 1 .. n - 1 + 1 : s[i] = t[1 + i - 1]
    BY <2>3, <2>4, SubSeqProperties
  <2> HIDE DEF s
  <2>6. Len(s) = n /\ \A i \in 1 .. n : i \in 1 .. n - 1 + 1 /\ 1 + i - 1 = i
    BY <2>3, <2>5
  <2>7. s = lines
    <3>1. Len(s) = Len(lines) /\ \A i \in 1 .. Len(s) : s[i] = lines[i]
      BY <2>4, <2>5, <2>6 DEF n
    <3> QED
      BY <2>5, <3>1, SeqEqual DEF Text
  <2>8. Len(shown) = n
    BY <2>1 DEF Hides, n
  <2> QED
    BY <2>1, <2>7, <2>8 DEF SecretsMasked, InSecrets, s, t
<1>3. CASE phase = "closed"
  BY <1>3 DEF LogInv
<1> QED
  BY <1>1, <1>2, <1>3

(* Whatever the secrets, the text and the portions it is written in: no    *)
(* secret is shown whole, of a secret that no other one runs into nothing  *)
(* is shown, and nothing but secrets is hidden: internal/masker behind the *)
(* lineflushwriter of SetupMaskWriter.                                     *)
THEOREM SecretsAreMasked ==
    ASSUME NEW nodes, NodesFit(nodes),
           NEW scenario, ScenarioFits(scenario, nodes)
    PROVE  Start(scenario) /\ [][Next]_all => []SecretsMasked
<1>1. Start(scenario) => LogInv
  BY DEF Start, LogInv
<1>2. SetupInv(nodes) /\ LogInv /\ [Next]_all => LogInv'
  <2> SUFFICES ASSUME SetupInv(nodes), LogInv, [Next]_all PROVE LogInv'
    OBVIOUS
  <2>1. CASE \/ PrepareVariables \/ ReadHeading \/ DecodeJob
             \/ DecodeVariables \/ Lookup \/ ChooseImage \/ PullImage
    <3>1. /\ UNCHANGED log /\ phase \notin {"commands", "closed"}
          /\ phase' \notin {"commands", "closed"}
      BY <2>1 DEF PrepareVariables, ReadHeading, DecodeJob, DecodeVariables,
                  Return, Lookup, ChooseImage, PullImage
    <3> QED
      BY <3>1 DEF LogInv, log
  <2>2. CASE FindImage \/ FindAgain
    <3>1. /\ UNCHANGED <<log, vars, given>>
          /\ phase \notin {"commands", "closed"} /\ phase' # "closed"
      BY <2>2 DEF FindImage, FindAgain
    <3>2. /\ said' = <<>> \o held' /\ held' = <<>> /\ shown' = <<>>
          /\ said' = <<>>
      BY <3>1, NoText, ConcatEmptySeq DEF LogInv, log, Text
    <3>3. /\ <<>> \in Text
          /\ Hides(InSecrets', <<>>, shown')
      BY <3>2, NoText, NothingToHide
    <3> QED
      BY <3>1, <3>2, <3>3 DEF LogInv
  <2>3. CASE LogMask
    BY <2>3, LogMaskKeepsLines
  <2>4. CASE Close
    BY <2>4, CloseMasksRest
  <2>5. CASE UNCHANGED all
    BY <2>5 DEF all, log, LogInv, InSecrets, SecretsMasked
  <2> QED
    BY <2>1, <2>2, <2>3, <2>4, <2>5 DEF Next
<1>3. LogInv => SecretsMasked
  BY LogShowsNoSecret
<1>4. Start(scenario) /\ [][Next]_all => []SetupInv(nodes)
  BY SetupIsSound
<1> QED
  BY <1>1, <1>2, <1>3, <1>4, PTL

-----------------------------------------------------------------------------
(* The image.                                                              *)

(* the credentials of a pull, as PulledAsMeant has them *)
SentAsMeant ==
    LET registry == Registry(image)
        ofRunner == IF registry \in DOMAIN given.runnerAuths
                    THEN {given.runnerAuths[registry]} ELSE {}
        ofTask == Offered(InEnv(given.task), registry)
        ofFile == Offered(InFile, registry)
    IN \/ sent \in ofTask \cup ofFile
       \/ ofTask = {} /\ sent \in ofRunner
       \/ ofTask \cup ofRunner = {} /\ sent = "none"

(* Each list has the credentials of its source, and docker's images stay   *)
(* normalized.                                                             *)
PullInv ==
    /\ image \in Text
    /\ \A tag \in tags : Normalized(tag) = tag
    /\ phase = "commands" => Normalized(image) \in tags
    /\ auths = [runner |-> given.runnerAuths, env |-> auths.env,
                pipeline |-> <<>>, job |-> auths.job]
    /\ phase \notin {"prepare", "failed"} =>
           /\ Decodes(InEnv(given.task))
           /\ auths.env = Decoded(InEnv(given.task))
    /\ phase \in {"prepareImage", "pull", "findAgain", "commands", "closed"} =>
           /\ Decodes(FoundIn(ConfigJob.variables))
           /\ auths.job = Decoded(FoundIn(ConfigJob.variables))
    /\ phase \notin {"findAgain", "commands", "closed", "failed"} =>
           sent = "unsent"
    /\ sent # "unsent" => SentAsMeant

LEMMA PrepareKeepsAuths ==
    ASSUME NEW nodes, SetupInv(nodes), PullInv, PrepareVariables
    PROVE  PullInv'
<1>1. /\ phase = "prepare" /\ config = Empty
      /\ UNCHANGED <<given, config, image, tags, sent>>
  BY DEF PrepareVariables, SetupInv, pull
<1>2. sent = "unsent" /\ sent' = "unsent"
  BY <1>1 DEF PullInv
<1>3. FoundIn(config.variables) = {}
  BY <1>1, NothingFound DEF Empty
<1>4. /\ FoundIn(config.variables) \cup InEnv(given.task) = InEnv(given.task)
      /\ Decoded(FoundIn(config.variables)) = <<>>
  BY <1>3 DEF Decoded
<1>5. CASE Decodes(InEnv(given.task))
  <2>1. /\ auths' = [auths EXCEPT !.pipeline = <<>>,
                                  !.env = Decoded(InEnv(given.task))]
        /\ phase' = "parse"
    BY <1>4, <1>5 DEF PrepareVariables
  <2>2. auths' = [runner |-> given.runnerAuths,
                  env |-> Decoded(InEnv(given.task)),
                  pipeline |-> <<>>, job |-> auths.job]
    <3> DEFINE found == Decoded(InEnv(given.task))
               others == auths.job
               before == auths.env
    <3>1. auths = [runner |-> given.runnerAuths, env |-> before,
                   pipeline |-> <<>>, job |-> others]
      BY DEF PullInv
    <3>2. auths' = [auths EXCEPT !.pipeline = <<>>, !.env = found]
      BY <2>1
    <3> HIDE DEF found, others, before
    <3>3. auths' = [runner |-> given.runnerAuths, env |-> found,
                    pipeline |-> <<>>, job |-> others]
      BY <3>1, <3>2
    <3> QED
      BY <3>3 DEF found, others
  <2> QED
    BY <1>1, <1>2, <1>5, <2>1, <2>2 DEF PullInv
<1>6. CASE ~Decodes(InEnv(given.task))
  <2>1. auths' = auths /\ phase' = "failed"
    BY <1>4, <1>6 DEF PrepareVariables
  <2> QED
    BY <1>1, <1>2, <2>1 DEF PullInv
<1> QED
  BY <1>5, <1>6

LEMMA ChoiceKeepsAuths ==
    ASSUME NEW nodes, SetupInv(nodes), PullInv, ChooseImage
    PROVE  PullInv'
<1>1. /\ phase = "image" /\ UNCHANGED <<given, config, vars, tags, sent>>
      /\ image' = ExpandEnv(ImageOf(ConfigJob, config))
  BY DEF ChooseImage
<1>2. sent = "unsent" /\ sent' = "unsent"
  BY <1>1 DEF PullInv
<1>3. ImageOf(ConfigJob, config) \in Text
  <2>1. ConfigJob.image \in Text /\ config.image \in Text
    BY <1>1 DEF SetupInv, ConfigFits, VarsBuilt, ConfigJob
  <2>2. DefaultImage \in Text
    <3>1. STRING \subseteq Atoms
      BY DEF Atoms
    <3> QED
      BY <3>1, ImagesAssumption, SeqMonotonic DEF Text
  <2> QED
    BY <2>1, <2>2 DEF ImageOf
<1>4. image' \in Text
  <2> DEFINE value == [name \in Names |-> IF name \in DOMAIN vars
                                          THEN vars[name] ELSE <<>>]
  <2>1. \A name \in Names : value[name] \in Text
    BY VarsAreTexts, NoText DEF VarsFit
  <2> HIDE DEF value
  <2>2. ExpandBy(ImageOf(ConfigJob, config), value) \in Text
    BY <1>3, <2>1, ExpandByFits
  <2> QED
    BY <1>1, <2>2 DEF ExpandEnv, value
<1>5. /\ Decodes(InEnv(given.task)) /\ auths.env = Decoded(InEnv(given.task))
      /\ ConfigJob' = ConfigJob
  BY <1>1 DEF PullInv, ConfigJob
<1> DEFINE found == FoundIn(ConfigJob.variables)
<1>6. CASE Decodes(found)
  <2>1. /\ auths' = [auths EXCEPT !.job = Decoded(found)]
        /\ phase' = "prepareImage"
    BY <1>6 DEF ChooseImage
  <2>2. auths' = [runner |-> given.runnerAuths, env |-> auths.env,
                  pipeline |-> <<>>, job |-> Decoded(found)]
    BY <2>1 DEF PullInv
  <2> HIDE DEF found
  <2>3. FoundIn(ConfigJob.variables)' = found
    BY <1>5 DEF found
  <2> QED
    BY <1>1, <1>2, <1>4, <1>5, <1>6, <2>1, <2>2, <2>3 DEF PullInv
<1>7. CASE ~Decodes(found)
  <2>1. auths' = auths /\ phase' = "failed"
    BY <1>7 DEF ChooseImage
  <2> QED
    BY <1>1, <1>2, <1>4, <2>1 DEF PullInv
<1> QED
  BY <1>6, <1>7

(* The last list that knows the registry wins: of the file, of the task or *)
(* of the runner.                                                          *)
LEMMA ChosenAsMeant ==
    ASSUME NEW nodes, SetupInv(nodes), PullInv, phase = "pull", sent' = Chosen,
           UNCHANGED <<given, config, image>>
    PROVE  SentAsMeant'
<1> DEFINE registry == Registry(image)
           inEnv == InEnv(given.task)
           inJob == FoundIn(ConfigJob.variables)
           runner == given.runnerAuths
<1>1. /\ Decodes(inEnv) /\ auths.env = Decoded(inEnv)
      /\ Decodes(inJob) /\ auths.job = Decoded(inJob)
      /\ auths.runner = runner /\ auths.pipeline = <<>>
  BY DEF PullInv
<1>2. IF registry \in DOMAIN Decoded(inEnv)
      THEN Decoded(inEnv)[registry] \in Offered(inEnv, registry)
      ELSE Offered(inEnv, registry) = {}
  <2>1. inEnv = {} \/ \E text : inEnv = {text}
    BY DEF InEnv
  <2> QED
    BY <1>1, <2>1, DecodedIsOffered
<1>3. ConfigJob.variables \in TextPairs
  BY DEF SetupInv, ConfigFits, VarsBuilt, ConfigJob
<1>4. registry \in DOMAIN Decoded(inJob) =>
          Decoded(inJob)[registry] \in Offered(InFile, registry)
  <2> SUFFICES ASSUME registry \in DOMAIN Decoded(inJob)
               PROVE  Decoded(inJob)[registry] \in Offered(InFile, registry)
    OBVIOUS
  <2>1. /\ inJob = {} \/ \E text : inJob = {text}
        /\ inJob \subseteq InFile
    BY <1>3, FoundIsThere DEF InFile
  <2>2. Decoded(inJob)[registry] \in Offered(inJob, registry)
    BY <1>1, <2>1, DecodedIsOffered
  <2> QED
    BY <2>1, <2>2 DEF Offered
<1>5. Chosen = IF registry \in DOMAIN Decoded(inJob)
               THEN Decoded(inJob)[registry]
               ELSE IF registry \in DOMAIN Decoded(inEnv)
               THEN Decoded(inEnv)[registry]
               ELSE IF registry \in DOMAIN runner THEN runner[registry]
               ELSE "none"
  <2>1. Chosen = ChooseAuth(<<runner, Decoded(inEnv), <<>>, Decoded(inJob)>>,
                            registry)
    BY <1>1 DEF Chosen, AuthLists
  <2>2. registry \notin DOMAIN <<>>
    OBVIOUS
  <2> HIDE DEF registry, inEnv, inJob, runner
  <2> QED
    BY <2>1, <2>2, LastListWins
<1>6. LET ofRunner == IF registry \in DOMAIN runner
                      THEN {runner[registry]} ELSE {}
          ofTask == Offered(inEnv, registry)
          ofFile == Offered(InFile, registry)
      IN \/ Chosen \in ofTask \cup ofFile
         \/ ofTask = {} /\ Chosen \in ofRunner
         \/ ofTask \cup ofRunner = {} /\ Chosen = "none"
  <2> HIDE DEF registry, inEnv, inJob, runner
  <2>1. CASE registry \in DOMAIN Decoded(inJob)
    BY <1>4, <1>5, <2>1
  <2>2. CASE registry \notin DOMAIN Decoded(inJob)
             /\ registry \in DOMAIN Decoded(inEnv)
    BY <1>2, <1>5, <2>2
  <2>3. CASE registry \notin DOMAIN Decoded(inJob)
             /\ registry \notin DOMAIN Decoded(inEnv)
    BY <1>2, <1>5, <2>3
  <2> QED
    BY <2>1, <2>2, <2>3
<1>7. InFile' = InFile
  BY DEF InFile, ConfigJob
<1> QED
  BY <1>6, <1>7 DEF SentAsMeant

LEMMA PullKeepsImages ==
    ASSUME NEW nodes, SetupInv(nodes), PullInv, PullImage
    PROVE  PullInv'
<1>1. /\ phase = "pull" /\ UNCHANGED <<given, config, auths, vars, image>>
      /\ phase' \in {"findAgain", "failed"}
      /\ tags' = tags \/ tags' = tags \cup {Normalized(Tag(image))}
      /\ \/ sent' = Chosen
         \/ sent' = sent /\ sent = "unsent"
  BY DEF PullImage, PullInv
<1>2. \A tag \in tags' : Normalized(tag) = tag
  <2>1. Normalized(Normalized(Tag(image))) = Normalized(Tag(image))
    BY TagFits, NormalizedIsNormal DEF PullInv
  <2> QED
    BY <1>1, <2>1 DEF PullInv
<1>3. sent' # "unsent" => SentAsMeant'
  BY <1>1, ChosenAsMeant
<1>4. ConfigJob' = ConfigJob
  BY <1>1 DEF ConfigJob
<1> QED
  BY <1>1, <1>2, <1>3, <1>4 DEF PullInv

LEMMA FindKeepsImages ==
    ASSUME PullInv, FindImage \/ FindAgain
    PROVE  PullInv'
<1>1. /\ UNCHANGED <<given, config, auths, image, tags, sent>>
      /\ \/ phase = "prepareImage" /\ phase' \in {"commands", "pull"}
         \/ phase = "findAgain" /\ phase' \in {"commands", "failed"}
      /\ phase' = "commands" => HasImage(tags, Tag(image))
  BY DEF FindImage, FindAgain, pull
<1>2. phase' = "commands" => Normalized(image) \in tags
  BY <1>1, FoundIsMeant DEF PullInv
<1>3. ConfigJob' = ConfigJob /\ SentAsMeant' = SentAsMeant
  BY <1>1 DEF ConfigJob, SentAsMeant, InFile
<1> QED
  BY <1>1, <1>2, <1>3 DEF PullInv

(* Whatever the image is called and wherever there are credentials: a      *)
(* container is created from the image that is meant, and a registry gets  *)
(* credentials that are meant for it, those of the runner only when the    *)
(* task has none: Prepare, PullImage and getDockerAuthConfig.              *)
THEOREM ImagesArePulledAsMeant ==
    ASSUME NEW nodes, NodesFit(nodes),
           NEW scenario, ScenarioFits(scenario, nodes)
    PROVE  Start(scenario) /\ [][Next]_all => []PulledAsMeant
<1>1. Start(scenario) => PullInv
  BY NoText DEF Start, PullInv, ScenarioFits
<1>2. SetupInv(nodes) /\ PullInv /\ [Next]_all => PullInv'
  <2> SUFFICES ASSUME SetupInv(nodes), PullInv, [Next]_all PROVE PullInv'
    OBVIOUS
  <2>1. CASE PrepareVariables
    BY <2>1, PrepareKeepsAuths
  <2>2. CASE ReadHeading \/ DecodeJob \/ DecodeVariables \/ Lookup
    <3>1. /\ UNCHANGED <<given, auths, image, tags, sent>>
          /\ \/ /\ phase \in {"parse", "decode"}
                /\ phase' \in {"decode", "lookup", "failed"}
             \/ phase = "lookup" /\ phase' \in {"image", "failed"}
      BY <2>2 DEF ReadHeading, DecodeJob, DecodeVariables, Return, Lookup, pull
    <3>2. sent' = "unsent"
      BY <3>1 DEF PullInv
    <3> QED
      BY <3>1, <3>2 DEF PullInv
  <2>3. CASE ChooseImage
    BY <2>3, ChoiceKeepsAuths
  <2>4. CASE FindImage \/ FindAgain
    BY <2>4, FindKeepsImages
  <2>5. CASE PullImage
    BY <2>5, PullKeepsImages
  <2>6. CASE LogMask \/ Close \/ UNCHANGED all
    <3>1. /\ UNCHANGED <<given, config, auths, image, tags, sent>>
          /\ phase' \in {phase, "closed"}
          /\ phase' # phase => phase = "commands"
      <4>1. CASE LogMask
        BY <4>1 DEF LogMask, pull
      <4>2. CASE Close
        BY <4>2 DEF Close, pull
      <4>3. CASE UNCHANGED all
        BY <4>3 DEF all, pull
      <4> QED
        BY <2>6, <4>1, <4>2, <4>3
    <3>2. ConfigJob' = ConfigJob /\ SentAsMeant' = SentAsMeant
      BY <3>1 DEF ConfigJob, SentAsMeant, InFile
    <3> QED
      BY <3>1, <3>2 DEF PullInv
  <2> QED
    BY <2>1, <2>2, <2>3, <2>4, <2>5, <2>6 DEF Next
<1>3. PullInv => PulledAsMeant
  BY DEF PullInv, SentAsMeant, PulledAsMeant
<1>4. Start(scenario) /\ [][Next]_all => []SetupInv(nodes)
  BY SetupIsSound
<1> QED
  BY <1>1, <1>2, <1>3, <1>4, PTL
=============================================================================
