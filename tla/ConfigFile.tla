----------------------------- MODULE ConfigFile -----------------------------
(***************************************************************************)
(* Unmarshal of internal/config/config.go and internal/mapslice.  A node   *)
(* of the yaml document is a scalar with a text, a sequence of nodes or a  *)
(* mapping, a sequence of pairs of a name and a node; a scalar without     *)
(* text is null.  A text is a sequence of atoms.  Of the fields of a job   *)
(* only variables and image have a value here.  Nil Variables are <<>>:    *)
(* nobody tells them from empty ones.                                      *)
(***************************************************************************)
EXTENDS SequencesExt

Scalar(text) == [kind |-> "scalar", text |-> text, items |-> <<>>]
List(nodes) == [kind |-> "sequence", text |-> <<>>, items |-> nodes]
Mapping(pairs) == [kind |-> "mapping", text |-> <<>>, items |-> pairs]
Null == Scalar(<<>>)

NamesIn(node) == {pair[1] : pair \in ToSet(node.items)}

(* yaml refuses a mapping that has a name twice *)
UniqueNames(node) ==
    node.kind = "mapping" /\ IsInjective([i \in DOMAIN node.items |->
                                              node.items[i][1]])

(* the node under a name of such a mapping *)
Field(node, name) ==
    IF \E pair \in ToSet(node.items) : pair[1] = name
    THEN (CHOOSE pair \in ToSet(node.items) : pair[1] = name)[2]
    ELSE Null

(* mapslice.New, which allows a name to come twice *)
IsMapSlice(node) ==
    \/ node.items = <<>>
    \/ /\ node.kind = "mapping"
       /\ \A pair \in ToSet(node.items) : pair[2].kind = "scalar"

MapSlice(node) ==
    [i \in DOMAIN node.items |-> <<node.items[i][1], node.items[i][2].text>>]

(* MapSlice.Find: the loop runs while i > 0, the first pair has index 0.   *)
Find(pairs, key) ==
    SelectLastInSubSeq(pairs, 2, Len(pairs), LAMBDA pair : pair[1] = key)

-----------------------------------------------------------------------------
(* A job.                                                                  *)

IsText(node) == node.kind = "scalar"
IsTexts(node) ==
    \/ node = Null
    \/ node.kind = "sequence" /\ \A item \in ToSet(node.items) : IsText(item)

FieldsFit(node) ==
    /\ \A name \in {"stage", "shell", "image"} : IsText(Field(node, name))
    /\ IsTexts(Field(node, "commands"))

(* UnmarshalYAML dereferences what New returns along with an error, and    *)
(* node.Decode lets the panic pass; other errors are collected.            *)
DecodeResult(node) ==
    IF UniqueNames(node) /\ ~IsMapSlice(Field(node, "variables"))
    THEN "panicked"
    ELSE IF node = Null \/ (UniqueNames(node) /\ FieldsFit(node))
         THEN "ok" ELSE "failed"

(* a field that is there overwrites what the job had before, unless it is  *)
(* null; yaml leaves all others alone                                      *)
DecodeOver(job, node) ==
    [variables |-> IF "variables" \in NamesIn(node)
                   THEN MapSlice(Field(node, "variables")) ELSE job.variables,
     image |-> IF Field(node, "image") = Null
               THEN job.image ELSE Field(node, "image").text]

NoJob == [variables |-> <<>>, image |-> <<>>]

-----------------------------------------------------------------------------
(* The file.                                                               *)

Empty == [image |-> <<>>, jobs |-> <<>>, variables |-> <<>>]

(* the document is a mapping, or null, and names a text as its image *)
ImageFits(root) ==
    (root = Null \/ UniqueNames(root)) /\ IsText(Field(root, "image"))

StagesFit(root) == "stages" \in NamesIn(root) /\ IsTexts(Field(root, "stages"))

(* what the configuration has before its jobs are decoded *)
Heading(root) == [Empty EXCEPT !.image = Field(root, "image").text]

WithJob(config, name, job) ==
    [config EXCEPT !.jobs = [other \in DOMAIN @ \cup {name} |->
                                IF other = name THEN job ELSE @[other]]]

(* every name that is left is a job, "variables" included *)
JobNames(root) == NamesIn(root) \ {"image", "stages"}
=============================================================================
