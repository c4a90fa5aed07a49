----------------------------- MODULE MathAnswer -----------------------------
(***************************************************************************)
(* How a response is graded: extraction and normalisation of answers and   *)
(* MathVerifierReward.score() (reward/math_verifier.py), with the ground   *)
(* truth as the dataset prepares it (dataset/math_dataset.py).  A text is  *)
(* a sequence of tokens, each a piece of text the code tells apart.  A     *)
(* response grows token by token and may be cut off anywhere               *)
(* (max_tokens); every prefix is graded.                                   *)
(***************************************************************************)
EXTENDS Integers, Sequences, FiniteSets, FiniteSetsExt

CONSTANTS
    MaxLength,   \* bound: the tokens of a response
    Alphabet     \* bound: the tokens used

Box == "boxed{"
Marker == "####"
NewLine == "nl"
Digits == {"0", "1"}
Whitespace == {" ", NewLine}
Tokens == Digits \cup Whitespace \cup {Box, Marker, "{", "}", ".", ",", "-", "$", "X", "x"}

ASSUME MathAssumption ==
    /\ MaxLength \in Nat
    /\ Alphabet \subseteq Tokens

VARIABLE response

None == <<"None">>     \* Python's None, told apart from the text ""

-----------------------------------------------------------------------------
(* Pieces of text *)

RunEnd(s, i, set) == Max({k \in i - 1 .. Len(s) : \A j \in i .. k : s[j] \in set})
Without(s, set) == SelectSeq(s, LAMBDA t : t \notin set)
Outside(s, set) == {i \in DOMAIN s : s[i] \notin set}
RightStrip(s, set) == SubSeq(s, 1, Max({0} \cup Outside(s, set)))
LeftStrip(s, set) == SubSeq(s, Min({Len(s) + 1} \cup Outside(s, set)), Len(s))
Strip(s, set) == LeftStrip(RightStrip(s, set), set)

-----------------------------------------------------------------------------
(* Extraction *)

Depth(token) == CASE token \in {"{", Box} -> 1 [] token = "}" -> -1 [] OTHER -> 0

\* The text from position `first` to the brace that closes the one before it, by
\* walking the brace depth; None if there is none.
Closed(s, first) ==
    LET end[i \in first .. Len(s) + 1, depth \in 0 .. Len(s) + 1] ==
            IF depth = 0 THEN i
            ELSE IF i > Len(s) THEN 0 ELSE end[i + 1, depth + Depth(s[i])]
    IN IF end[first, 1] = 0 THEN None ELSE SubSeq(s, first, end[first, 1] - 2)

FirstBoxed(s) ==
    LET boxes == {i \in DOMAIN s : s[i] = Box}
    IN IF boxes = {} THEN None ELSE Closed(s, Min(boxes) + 1)

\* extract_boxed(): the last marker; unbalanced braces are no match.
ExtractBoxed(s) ==
    LET boxes == {i \in DOMAIN s : s[i] = Box}
    IN IF boxes = {} THEN None ELSE Closed(s, Max(boxes) + 1)

\* extract_gsm8k_answer(): the last match of ####\s*(.+?)\s*$, stripped.  The
\* blanks after the marker may reach over line ends; the answer ends with its
\* line.  A marker with nothing but blanks after it gives "".
ExtractMarked(s) ==
    LET last[i \in 1 .. Len(s) + 1] ==
            LET markers == {p \in i .. Len(s) : s[p] = Marker}
                start == RunEnd(s, Min(markers) + 1, Whitespace) + 1
                end == RunEnd(s, start, Tokens \ {NewLine})
            IN IF markers = {} THEN None
               ELSE IF start > Len(s)
                    THEN IF \E j \in Min(markers) .. Len(s) : s[j] = " " THEN << >> ELSE None
               ELSE IF last[end + 1] # None THEN last[end + 1]
               ELSE RightStrip(SubSeq(s, start, end), Whitespace)
    IN last[1]

\* extract_last_number(): the last match of -?\d[\d,]*\.?\d*.
NumberEnd(s, i) ==
    LET first == IF s[i] = "-" THEN i + 1 ELSE i
        whole == RunEnd(s, first, Digits \cup {","})
    IN IF first > Len(s) \/ s[first] \notin Digits THEN 0
       ELSE IF whole < Len(s) /\ s[whole + 1] = "." THEN RunEnd(s, whole + 2, Digits) ELSE whole

ExtractNumber(s) ==
    LET last[i \in 1 .. Len(s) + 1] ==
            IF i > Len(s) THEN None
            ELSE LET end == NumberEnd(s, i)
                     later == last[IF end = 0 THEN i + 1 ELSE end + 1]
                 IN IF end # 0 /\ later = None THEN SubSeq(s, i, end) ELSE later
    IN last[1]

\* extract_answer(): the first extractor that finds something.
ExtractAnswer(s) ==
    LET boxed == ExtractBoxed(s)
        marked == ExtractMarked(s)
    IN IF boxed # None THEN boxed ELSE IF marked # None THEN marked ELSE ExtractNumber(s)

-----------------------------------------------------------------------------
(* Normalisation and score *)

\* -?\d+\.\d*
IsDecimal(s) ==
    LET unsigned == IF s # << >> /\ Head(s) = "-" THEN Tail(s) ELSE s
    IN \E k \in 2 .. Len(unsigned) :
         /\ unsigned[k] = "."
         /\ \A j \in DOMAIN unsigned \ {k} : unsigned[j] \in Digits

Lower(s) == [i \in DOMAIN s |-> IF s[i] = "X" THEN "x" ELSE s[i]]

Bare(s) == Lower(Without(Strip(Strip(Strip(s, Whitespace), {"$"}), Whitespace), {",", " "}))

StripsAnyZeros(s) == RightStrip(RightStrip(Bare(s), {"0"}), {"."})

\* normalize_answer()
Normalize(s) ==
    IF IsDecimal(Bare(s)) THEN RightStrip(RightStrip(Bare(s), {"0"}), {"."}) ELSE Bare(s)

\* _gsm8k_examples() and _math_examples(): what goes into the metadata.
GroundTruth(solution) == Normalize(ExtractAnswer(solution))

ComparesRaw(text, truth) ==
    IF ExtractAnswer(text) = None THEN "no_answer"
    ELSE IF ExtractAnswer(text) = Normalize(truth) THEN "correct" ELSE "incorrect"

\* score(): the ground truth is normalised once more.
Score(text, truth) ==
    LET predicted == ExtractAnswer(text) IN
    IF predicted = None THEN "no_answer"
    ELSE IF Normalize(predicted) = Normalize(truth) THEN "correct" ELSE "incorrect"

-----------------------------------------------------------------------------
Init == response = << >>

\* The policy samples one more token.
Emit(token) ==
    /\ Len(response) < MaxLength
    /\ response' = Append(response, token)

\* A stop token, or max_tokens.
Ends == UNCHANGED response

Next == Ends \/ \E token \in Alphabet : Emit(token)

Spec == Init /\ [][Next]_response

-----------------------------------------------------------------------------
Balanced(s) ==
    LET Open(k) == Cardinality({i \in 1 .. k : s[i] = "{"})
        Shut(k) == Cardinality({i \in 1 .. k : s[i] = "}"})
    IN Open(Len(s)) = Shut(Len(s)) /\ \A k \in DOMAIN s : Open(k) >= Shut(k)

(* "LAST boxed expression in the response wins": a response with a boxed   *)
(* expression of balanced braces and no box after it is graded on just     *)
(* that expression, whatever else it says before or after, other answer    *)
(* markers and stray braces included (math_verifier.py:17-20, 40-43).      *)
LastBoxWins ==
    \A i, j \in DOMAIN response :
        LET content == SubSeq(response, i + 1, j - 1) IN
        (/\ i < j
         /\ response[i] = Box /\ response[j] = "}"
         /\ \A k \in i + 1 .. Len(response) : response[k] # Box
         /\ Balanced(content))
            => ExtractAnswer(response) = content

\* The value of a numeral, in units of 10 to the power -MaxLength.
Value(n) ==
    LET negative == Head(n) = "-"
        u == IF negative THEN Tail(n) ELSE n
        point == IF \E k \in DOMAIN u : u[k] = "." THEN CHOOSE k \in DOMAIN u : u[k] = "." ELSE Len(u) + 1
        sum[i \in 0 .. Len(u)] ==
            IF i = 0 THEN 0
            ELSE sum[i - 1] + IF u[i] # "1" THEN 0
                              ELSE 10 ^ (MaxLength + point - i - IF i < point THEN 1 ELSE 0)
    IN IF negative THEN -sum[Len(u)] ELSE sum[Len(u)]

\* A decimal numeral without leading zeros; zero has no sign.
Numeral(n) ==
    LET u == IF n # << >> /\ Head(n) = "-" THEN Tail(n) ELSE n IN
    /\ u # << >>
    /\ \A i \in DOMAIN u : u[i] \in Digits \cup {"."}
    /\ u[1] \in Digits
    /\ Len(u) > 1 /\ u[1] = "0" => u[2] = "."
    /\ Cardinality({i \in DOMAIN u : u[i] = "."}) <= 1
    /\ u # n => Value(n) # 0

Numerals == UNION {{n \in [1 .. k -> {"0", "1", ".", "-"}] : Numeral(n)} : k \in 1 .. 4}

\* The ways to write a numeral: commas and spaces inside, and spaces and one run
\* of $ signs on each side.
Spells(s, i, j) ==
    /\ i <= j
    /\ {s[i], s[j]} \cap {",", " "} = {}
    /\ Numeral(Without(SubSeq(s, i, j), {",", " "}))
    /\ \A k \in DOMAIN s \ (i .. j) : s[k] \in {" ", "$"}
    /\ \A k, l \in DOMAIN s \ (i .. j) :
         (s[k] = "$" /\ s[l] = "$" /\ (l < i <=> k < i)) => \A m \in k .. l : s[m] = "$"

(* Two spellings of a number agree exactly when the numbers are equal: the *)
(* normalisation neither separates 3.50 from 3.5 or 1,000 from 1000, nor   *)
(* takes 10 for 1 (normalize_answer's docstring, math_verifier.py:70-78).  *)
SpellingsAgree ==
    \A i, j \in DOMAIN response :
        Spells(response, i, j) =>
            \A n \in Numerals :
                (Normalize(response) = Normalize(n))
                    <=> (Value(Without(SubSeq(response, i, j), {",", " "})) = Value(n))

(* A response that says what the dataset's solution says is graded         *)
(* correct, whichever way the answer is found, unless the normalised       *)
(* answer still begins or ends with a $ or a line end, uncovered when a    *)
(* comma or a blank beside it was removed: then the second normalisation   *)
(* of the ground truth strips what the one of the response does not        *)
(* (math_dataset.py:8-12, math_verifier.py:105-111).                       *)
SolutionIsCorrect ==
    LET truth == GroundTruth(response) IN
    (/\ ExtractAnswer(response) # None
     /\ \A i \in {1, Len(truth)} \cap DOMAIN truth : truth[i] \notin {"$", NewLine})
        => Score(response, truth) = "correct"
=============================================================================
