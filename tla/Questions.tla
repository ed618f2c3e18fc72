-------------------------------- MODULE Questions --------------------------------
(***************************************************************************)
(* AskQuestion and its host side.  The tool normalises what the model asks *)
(* and suspends the run; the host extracts the request with validators of  *)
(* its own, validates the response against it and resumes the run.         *)
(* A field that may be missing is a set with at most one value.  A number  *)
(* counts sixths; a text is its length; "x" and "y" are values no option   *)
(* has, "long" one beyond max_answer_chars.                                *)
(***************************************************************************)
EXTENDS Integers, Sequences, FiniteSets

CONSTANTS Numbers,       \* bounds, steps, defaults and answers the model and the host use
          MaxAnswerChars \* max_answer_chars

ASSUME QuestionsAssumption == Numbers \subseteq Int /\ MaxAnswerChars \in Nat \ {0}

VARIABLE interview \* the call: what was asked, what was suspended on, what was answered

Unit == 6
Optional(S) == {{}} \cup {{v} : v \in S}
The(field) == CHOOSE v \in field : TRUE
OrElse(field, default) == IF field = {} THEN default ELSE The(field)
Has(field, P(_)) == \A v \in field : P(v) \* vacuous when the field is missing

OptionLists == {<<"a">>, <<"a", "a">>, <<"a", "b">>}
Values == {"a", "b", "x", "y", "long"}
Distinct(s) == \A i, j \in DOMAIN s : s[i] = s[j] => i = j
OptionsOf(q) == {q.options[i] : i \in DOMAIN q.options}
Selections == UNION {[1..n -> Values \ {"long"}] : n \in 0..3}
ShortSelections == {s \in Selections : Len(s) <= 2}

-----------------------------------------------------------------------------
(* _contract.py                                                            *)
AbsOf(n) == IF n < 0 THEN -n ELSE n
GcdOf(a, b) == CHOOSE d \in 1..(AbsOf(a) + AbsOf(b)) :
                   a % d = 0 /\ b % d = 0 /\ \A e \in 1..(AbsOf(a) + AbsOf(b)) : a % e = 0 /\ b % e = 0 => e <= d
LcmOf(a, b) == (a * b) \div GcdOf(a, b)
DenominatorOf(n) == Unit \div GcdOf(n, Unit)
FloorOf(n, d) == n \div d
CeilingOf(n, d) == -((-n) \div d)

is_step_aligned(value, step, origin) == (value - origin) % step = 0
RoundDown(n, d) == FloorOf(n, d) \* mutation: the lower bound is rounded down
RoundUp(n, d) == CeilingOf(n, d)

integer_answer_exists(minimum, maximum, step) ==
    IF step = {}
    THEN \A low \in minimum, high \in maximum : RoundUp(low, Unit) <= FloorOf(high, Unit)
    ELSE LET origin == OrElse(minimum, 0)
             denominator == LcmOf(DenominatorOf(origin), DenominatorOf(The(step)))
             origin_units == (origin * denominator) \div Unit
             stride_units == (The(step) * denominator) \div Unit
             divisor == GcdOf(stride_units, denominator)
             modulus == denominator \div divisor
             inverse == CHOOSE i \in 0..(modulus - 1) : ((stride_units \div divisor) * i) % modulus = 1 % modulus
             first == IF modulus = 1 THEN 0 ELSE (((-origin_units) \div divisor) * inverse) % modulus
         IN  /\ origin_units % divisor = 0
             /\ \A low \in minimum, high \in maximum : \* low is the origin, step 0
                    LET upper == FloorOf(high - low, The(step))
                    IN  0 <= upper /\ first + CeilingOf(-first, modulus) * modulus <= upper

-----------------------------------------------------------------------------
(* What a model may ask, by kind.                                          *)
Counts == Optional(-1..3)
Raw(kind) ==
    CASE kind = "confirm" -> [kind : {kind}, default : Optional(BOOLEAN)]
      [] kind = "single_choice" ->
             [kind : {kind}, options : OptionLists, allow_custom : BOOLEAN, default : Optional(Values)]
      [] kind = "multiple_choice" ->
             [kind : {kind}, options : OptionLists, allow_custom : BOOLEAN, min : Counts, max : Counts,
              default : Optional(ShortSelections)]
      [] kind = "text" -> [kind : {kind}, min : Counts, max : Counts, default : Optional(0..3)]
      [] kind \in {"number", "scale"} ->
             [kind : {kind}, minimum : Optional(Numbers), maximum : Optional(Numbers),
              step : Optional(Numbers), integer_only : IF kind = "number" THEN BOOLEAN ELSE {FALSE},
              default : Optional(Numbers)]
      [] kind = "date" -> \* 0 is no date
             [kind : {kind}, minimum : Optional(0..2), maximum : Optional(0..2), default : Optional(0..2)]
      [] OTHER ->
             [kind : {kind}, options : OptionLists, min : Counts, max : Counts, default : Optional(ShortSelections)]
Kinds == {"confirm", "single_choice", "multiple_choice", "text", "number", "date", "scale", "ranking"}

-----------------------------------------------------------------------------
(* normalize_questions: the tool.                                          *)
Chosen(value, options, allow_custom) == value \in options \/ (allow_custom /\ value # "long")
Customs(s, options) == Cardinality({i \in DOMAIN s : s[i] \notin options})
WithCounts(raw, required, most) ==
    [raw EXCEPT !.min = {OrElse(@, IF required THEN 1 ELSE 0)}, !.max = {OrElse(@, most)}]
CountsFit(q, most) ==
    The(q.min) >= 0 /\ The(q.max) >= 1 /\ The(q.max) <= most /\ The(q.min) <= The(q.max)
Counted(q, n) == The(q.min) <= n /\ n <= The(q.max)

Capacity(q) == Len(q.options) + (IF q.kind = "multiple_choice" /\ q.allow_custom THEN 1 ELSE 0)

Normalized(raw, required) ==
    CASE raw.kind \in {"multiple_choice", "ranking"} -> WithCounts(raw, required, Capacity(raw))
      [] raw.kind = "text" -> WithCounts(raw, required, MaxAnswerChars)
      [] raw.kind = "scale" -> [raw EXCEPT !.step = {OrElse(@, Unit)}]
      [] OTHER -> raw

OptionsAccepted(q) == Len(q.options) >= 2 /\ Distinct(q.options)
SelectionAccepted(q, s) ==
    /\ Distinct(s) /\ Counted(q, Len(s))
    /\ IF q.kind = "ranking" THEN Customs(s, OptionsOf(q)) = 0
       ELSE Customs(s, OptionsOf(q)) <= 1 /\ \A i \in DOMAIN s : Chosen(s[i], OptionsOf(q), q.allow_custom)
Positive(n) == n > 0
Within(q, v) == (\A m \in q.minimum : m <= v) /\ (\A m \in q.maximum : v <= m)
OnStep(q, v) == \A s \in q.step : is_step_aligned(v, s, OrElse(q.minimum, 0))
NumberFits(q, v) == Within(q, v) /\ OnStep(q, v) /\ (q.integer_only => v % Unit = 0)

NormalizeAccepts(q) == \* q is normalised
    CASE q.kind = "confirm" -> TRUE
      [] q.kind = "single_choice" ->
             OptionsAccepted(q) /\ Has(q.default, LAMBDA v : Chosen(v, OptionsOf(q), q.allow_custom))
      [] q.kind \in {"multiple_choice", "ranking"} ->
             OptionsAccepted(q) /\ CountsFit(q, Capacity(q)) /\ Has(q.default, LAMBDA s : SelectionAccepted(q, s))
      [] q.kind = "text" ->
             CountsFit(q, MaxAnswerChars) /\ Has(q.default, LAMBDA n : n <= MaxAnswerChars /\ Counted(q, n))
      [] q.kind = "date" ->
             /\ 0 \notin q.minimum \cup q.maximum \cup q.default
             /\ \A low \in q.minimum, high \in q.maximum : low <= high
             /\ Has(q.default, LAMBDA v : Within(q, v))
      [] q.kind = "scale" ->
             /\ q.minimum # {} /\ q.maximum # {} /\ The(q.minimum) < The(q.maximum)
             /\ Has(q.step, Positive) /\ Has(q.default, LAMBDA v : NumberFits(q, v))
      [] OTHER ->
             /\ \A low \in q.minimum, high \in q.maximum : low <= high
             /\ Has(q.step, Positive)
             /\ q.integer_only => integer_answer_exists(q.minimum, q.maximum, q.step)
             /\ Has(q.default, LAMBDA v : NumberFits(q, v))

-----------------------------------------------------------------------------
(* extract_question_request and validate_question_response: the host.      *)
WithoutCustom(q) == Len(q.options) \* mutation: the host forgets the custom value
Available(q) == Capacity(q)

AnswerAccepted(q, answer) ==
    CASE q.kind = "confirm" -> answer \in BOOLEAN
      [] q.kind = "single_choice" -> Chosen(answer, OptionsOf(q), q.allow_custom)
      [] q.kind \in {"multiple_choice", "ranking"} -> SelectionAccepted(q, answer)
      [] q.kind = "text" -> Counted(q, answer) /\ answer <= MaxAnswerChars
      [] q.kind = "date" -> answer # 0 /\ Within(q, answer)
      [] OTHER -> NumberFits(q, answer)

HostAccepts(q) ==
    /\ CASE q.kind \in {"single_choice", "multiple_choice", "ranking"} -> OptionsAccepted(q) [] OTHER -> TRUE
    /\ CASE q.kind \in {"multiple_choice", "ranking"} -> CountsFit(q, Available(q))
         [] q.kind = "text" -> CountsFit(q, MaxAnswerChars)
         [] q.kind = "date" -> /\ 0 \notin q.minimum \cup q.maximum
                               /\ \A low \in q.minimum, high \in q.maximum : low <= high
         [] q.kind \in {"number", "scale"} ->
                /\ \A low \in q.minimum, high \in q.maximum : IF q.kind = "scale" THEN low < high ELSE low <= high
                /\ q.kind = "scale" => q.minimum # {} /\ q.maximum # {}
                /\ Has(q.step, Positive)
                /\ q.integer_only => integer_answer_exists(q.minimum, q.maximum, q.step)
         [] OTHER -> TRUE
    /\ Has(q.default, LAMBDA v : AnswerAccepted(q, v))

-----------------------------------------------------------------------------
(* The call.                                                               *)
Nothing == [kind |-> "none"]
QuestionsInit ==
    \E kind \in Kinds, required, alone \in BOOLEAN :
        interview = [stage |-> "asking", kind |-> kind, required |-> required, alone |-> alone, asked |-> Nothing,
                     waiting |-> Nothing, response |-> "none"]

Ask ==
    /\ interview.stage = "asking"
    /\ \E raw \in Raw(interview.kind) :
           LET q == Normalized(raw, interview.required) IN
           interview' = IF NormalizeAccepts(q)
                        THEN [interview EXCEPT !.stage = "waiting", !.asked = raw, !.waiting = q]
                        ELSE [interview EXCEPT !.stage = "invalid_question"]

(* If a number is an answer at all, one of these is: steps and whole       *)
(* numbers repeat every Unit steps.                                        *)
NumbersNear(q) ==
    LET step == OrElse(q.step, 1)
    IN  IF q.minimum # {} THEN {The(q.minimum) + k * step : k \in 0..(Unit - 1)}
        ELSE {OrElse(q.maximum, 0) - k : k \in 0..(Unit * step - 1)}

AnswersTo(q) ==
    CASE q.kind = "confirm" -> BOOLEAN
      [] q.kind = "single_choice" -> Values
      [] q.kind \in {"multiple_choice", "ranking"} -> Selections
      [] q.kind = "text" -> 0..MaxAnswerChars
      [] q.kind = "date" -> 0..3
      [] OTHER -> NumbersNear(q)

Answerable(q) == \E answer \in AnswersTo(q) : AnswerAccepted(q, answer)

Extracts == \* the waiting outcome ends its batch alone and is what the arguments normalise to
    /\ interview.alone
    /\ Normalized(interview.asked, interview.required) = interview.waiting
    /\ NormalizeAccepts(interview.waiting) /\ HostAccepts(interview.waiting)

(* A response that is refused leaves the run as it was.                    *)
RespondAnswered ==
    /\ interview.stage = "waiting" /\ Extracts
    /\ interview.required => Answerable(interview.waiting) \* or else it may be left out
    /\ interview' = [interview EXCEPT !.stage = "resumed", !.response = "answered"]

RespondCancelled ==
    /\ interview.stage = "waiting" /\ Extracts
    /\ interview' = [interview EXCEPT !.stage = "resumed", !.response = "cancelled"]

QuestionsNext == Ask \/ RespondAnswered \/ RespondCancelled

QuestionsSpec == QuestionsInit /\ [][QuestionsNext]_interview

-----------------------------------------------------------------------------
(* Properties.                                                             *)

(* What the tool suspended a run on, the host's own validators accept,     *)
(* down to its default: no suspended run is stuck because the two sides    *)
(* read the question differently.                                          *)
WaitingQuestionsExtract == (interview.stage = "waiting" /\ interview.alone) => Extracts

(* A run never waits for a question the user cannot answer: what the tool  *)
(* accepted the host's own validators accept too, its default is a valid   *)
(* answer, and at least one answer is valid, also for whole numbers on a   *)
(* step that starts between them.                                          *)
WaitingQuestionsHaveAnswers ==
    /\ WaitingQuestionsExtract
    /\ (interview.stage = "waiting" /\ interview.alone) => Answerable(interview.waiting)
=============================================================================
