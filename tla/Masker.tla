------------------------------- MODULE Masker -------------------------------
(***************************************************************************)
(* internal/masker/masker.go: hides the secrets of a job in its log.  A    *)
(* text is a sequence of characters.                                       *)
(***************************************************************************)
EXTENDS SequencesExt

NL == "\n"
Space == " "
Star == "*"

(* the lines of a text that are not empty *)
Lines(text) ==
    {SubSeq(text, p[1], p[2]) : p \in
        {q \in (1 .. Len(text)) \X (1 .. Len(text)) :
            /\ q[1] <= q[2]
            /\ q[1] = 1 \/ text[q[1] - 1] = NL
            /\ q[2] = Len(text) \/ text[q[2] + 1] = NL
            /\ \A k \in q[1] .. q[2] : text[k] # NL}}

TrimSpace(line) ==
    LET solid == {i \in DOMAIN line : line[i] # Space}
    IN IF solid = {} THEN <<>> ELSE SubSeq(line, Min(solid), Max(solid))

(* each line of the value of each variable to be masked *)
Secrets(vars, masked) ==
    {TrimSpace(line) :
        line \in UNION {Lines(vars[name]) : name \in masked \cap DOMAIN vars}}
    \ {<<>>}

(* mutant: the shortest secrets come first *)
BeforeAscending(s, t) == Len(s) <= Len(t)

(* sort.Slice: secrets of one length may come in any order, which is the   *)
(* same to Replace *)
Before(s, t) == Len(s) >= Len(t)

(* the secrets that begin at position i of a text *)
At(secrets, text, i) ==
    {s \in secrets : i + Len(s) - 1 <= Len(text)
                     /\ SubSeq(text, i, i + Len(s) - 1) = s}

(* the one that is replaced *)
First(secrets, text, i) ==
    CHOOSE s \in At(secrets, text, i) :
        \A t \in At(secrets, text, i) : Before(s, t)

Stars(secret) == [k \in 1 .. Len(secret) |-> Star]

(* strings.Replacer: at each position the first secret that matches is     *)
(* replaced, and the search goes on behind it.                             *)
Mask(secrets, text) ==
    LET from[i \in 1 .. Len(text) + 1] ==
            IF i > Len(text) THEN <<>>
            ELSE IF At(secrets, text, i) = {} THEN <<text[i]>> \o from[i + 1]
            ELSE LET first == First(secrets, text, i)
                 IN Stars(first) \o from[i + Len(first)]
    IN from[1]

(* lineflushwriter: what may be passed on to the masker, up to the last    *)
(* line break                                                              *)
Complete(text) ==
    SubSeq(text, 1, SelectLastInSeq(text, LAMBDA char : char = NL))

Rest(text) == SubSeq(text, Len(Complete(text)) + 1, Len(text))

-----------------------------------------------------------------------------
(* What a masked text is to be.                                            *)

(* the places of the secrets in a text *)
Spans(secrets, text) ==
    {p \in (DOMAIN text) \X (DOMAIN text) :
        SubSeq(text, p[1], p[2]) \in secrets}

(* Nothing is hidden but parts of secrets.  Of every secret the beginning  *)
(* is hidden, and all of it unless another one runs into it from the left. *)
Hides(secrets, text, shown) ==
    /\ Len(shown) = Len(text)
    /\ \A i \in DOMAIN text :
           \/ shown[i] = text[i]
           \/ shown[i] = Star
              /\ \E p \in Spans(secrets, text) : i \in p[1] .. p[2]
    /\ \A p \in Spans(secrets, text) :
           /\ shown[p[1]] = Star
           /\ \/ \A i \in p[1] .. p[2] : shown[i] = Star
              \/ \E q \in Spans(secrets, text) : q[1] < p[1] /\ p[1] <= q[2]
=============================================================================
