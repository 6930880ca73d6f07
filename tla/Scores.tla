-------------------------------- MODULE Scores --------------------------------
(***************************************************************************)
(* What a completion is worth: to the rewards it is trained with           *)
(* (lab/library/rewards) and to the evals it is measured with              *)
(* (lab/support.py). A completion is a sequence of marks: the tags         *)
(* "reason", "think" (the end of the reasoning), "open" and "close" of     *)
(* solution, digits, words, "nl" for a line break, "eos", "box" for        *)
(* \boxed, braces.                                                         *)
(***************************************************************************)
EXTENDS Integers, SequencesExt, FiniteSetsExt

CONSTANTS
  Vocabularies,   \* sets of marks; a completion is written in one of them
  Answer,         \* the reference
  MaxMarks        \* bound on the completion

VARIABLES
  vocabulary,
  completion

vars == <<vocabulary, completion>>

-----------------------------------------------------------------------------
(* Text.                                                                   *)

Digit == [mark \in {"7", "8"} |-> IF mark = "7" THEN 7 ELSE 8]

Where(text, marks) == {i \in DOMAIN text : text[i] \in marks}

\* str.strip.
strip(text) ==
  LET kept == DOMAIN text \ Where(text, {"nl"})
  IN IF kept = {} THEN <<>> ELSE SubSeq(text, Min(kept), Max(kept))

\* float: <<>> if it raises.
Float(text) ==
  LET number == strip(text)
  IN IF number = <<>> \/ Where(number, DOMAIN Digit) # DOMAIN number THEN <<>>
     ELSE <<FoldLeft(LAMBDA sum, mark : 10 * sum + Digit[mark], 0, number)>>

\* The digits that follow one another, from the first of them.
Digits(text, from) == SubSeq(text, from, Max({i \in from..Len(text) : \A j \in from..i : text[j] \in DOMAIN Digit}))

\* re.findall(open(.*?)close): the contents, one after another.
Marked(text, open, close) ==
  LET step(s, mark) ==
        IF ~s.inside THEN [s EXCEPT !.inside = mark = open, !.content = <<>>]
        ELSE IF mark = close THEN [s EXCEPT !.inside = FALSE, !.found = Append(@, s.content)]
        ELSE [s EXCEPT !.content = Append(@, mark)]
  IN FoldLeft(step, [inside |-> FALSE, content |-> <<>>, found |-> <<>>], text).found

-----------------------------------------------------------------------------
(* lab/support.py.                                                         *)

\* White space, maybe the eos token, and the end of a line, which $ is to MULTILINE.
AtLineEnd(text, i) ==
  \E j \in i..Len(text) :
    /\ \A k \in i + 1..j : text[k] \in {"nl", "eos"}
    /\ Cardinality({k \in i + 1..j : text[k] = "eos"}) <= 1
    /\ j = Len(text) \/ text[j + 1] = "nl"

\* solution_pattern, searched for: what it captures is as far to the left and as short as can be.
solution(text) ==
  LET ends(b) == {c \in Where(text, {"close"}) : c > b + 1 /\ AtLineEnd(text, c)}
      begins(a) == {b \in Where(text, {"open"}) : b > a /\ ends(b) # {}}
      thoughts == {a \in Where(text, {"think"}) : begins(a) # {}}
  IN IF thoughts = {} THEN <<>>
     ELSE LET b == Min(begins(Min(thoughts))) IN <<SubSeq(text, b + 1, Min(ends(b)) - 1)>>

\* The last number, as it stands.
last_number(text) ==
  LET starts == {i \in Where(text, DOMAIN Digit) : i = 1 \/ text[i - 1] \notin DOMAIN Digit}
  IN IF starts = {} THEN <<>> ELSE <<Digits(text, Max(starts))>>

\* Faulty: up to the first brace that closes.
FirstBrace(text, from) == {i \in from..Len(text) : text[i] = "}"}
\* Where the braces that have opened are closed.
Closing(text, from) ==
  {i \in from..Len(text) : Cardinality({j \in from..i : text[j] = "{"}) = Cardinality({j \in from..i : text[j] = "}"})}

boxed(text) ==
  LET boxes == Where(text, {"box"})
      braces == {i \in Where(text, {"{"}) : i > Max(boxes)}
  IN IF boxes = {} \/ braces = {} \/ Closing(text, Min(braces)) = {} THEN <<>>
     ELSE <<strip(SubSeq(text, Min(braces) + 1, Min(Closing(text, Min(braces))) - 1))>>

\* extract_answer; "auto" goes on when there is none, or an empty one.
extract_answer(kind, text) ==
  LET blocks == Marked(text, "open", "close")
      tagged == IF blocks = <<>> THEN <<>> ELSE <<strip(Last(blocks))>>
  IN CASE kind = "none" -> <<text>>
       [] kind = "solution-tags" -> tagged
       [] kind = "boxed" -> boxed(text)
       [] kind = "last-number" -> last_number(text)
       [] kind = "auto" -> IF tagged \notin {<<>>, <<<<>>>>} THEN tagged
                           ELSE IF boxed(text) \notin {<<>>, <<<<>>>>} THEN boxed(text)
                           ELSE last_number(text)

\* normalize: white space is one space, and none at the ends.
normalize(text) ==
  LET s == strip(text)
      kept == SelectSeq([i \in DOMAIN s |-> i], LAMBDA i : i = 1 \/ s[i] # "nl" \/ s[i - 1] # "nl")
  IN [i \in DOMAIN kept |-> s[kept[i]]]

\* normalize_math: without the braces around it.
normalize_math(text) ==
  LET s == strip(text)
  IN IF s # <<>> /\ Head(s) = "{" /\ Last(s) = "}" THEN SubSeq(s, 2, Len(s) - 1) ELSE s

same_number(a, b) == Float(a) # <<>> /\ Float(a) = Float(b)

\* item_score, of a prediction if there is one.
item_score(metric, prediction, reference) ==
  /\ prediction # <<>>
  /\ CASE metric = "exact" -> normalize(prediction[1]) = normalize(reference)
       [] metric = "number" -> same_number(prediction[1], reference)
       [] metric = "math" -> normalize_math(prediction[1]) = normalize_math(reference) \/ same_number(prediction[1], reference)

\* Faulty: a mark that differs always counts.
CostAlways(x, y) == 1
\* What it costs to have y where x should be.
Cost(x, y) == IF x = y THEN 0 ELSE 1

\* edit_distance, a row after another.
edit_distance(a, b) ==
  LET row(previous, x) ==
        FoldLeft(LAMBDA current, j : Append(current, Min({previous[j + 1] + 1, current[j] + 1, previous[j] + Cost(x, b[j])})),
                 <<previous[1] + 1>>, [j \in DOMAIN b |-> j])
  IN Last(FoldLeft(row, [j \in 1..Len(b) + 1 |-> j - 1], a))

-----------------------------------------------------------------------------
(* lab/library/rewards.                                                    *)

\* tags-format exact.
match_format_exactly(text) == solution(text) # <<>>

\* format-approx: how many of the tags are there once.
match_format_approximately(text) == Quantify({"think", "open", "close"}, LAMBDA tag : Cardinality(Where(text, {tag})) = 1)

\* Faulty: white space counts.
SameText(guess, truth) == guess = truth
Stripped(guess, truth) == strip(guess) = strip(truth)

\* answer-match.
check_answer(text) ==
  IF solution(text) = <<>> THEN "no_answer"
  ELSE LET guess == solution(text)[1]
           g == Float(guess)
           t == Float(Answer)
       IN IF guess = Answer THEN "exact"
          ELSE IF Stripped(guess, Answer) THEN "stripped"
          ELSE IF g = <<>> \/ t \in {<<>>, <<0>>} THEN "unparseable"
          ELSE IF 9 * t[1] <= 10 * g[1] /\ 10 * g[1] <= 11 * t[1] THEN "within_10pct"
          ELSE IF 8 * t[1] <= 10 * g[1] /\ 10 * g[1] <= 12 * t[1] THEN "within_20pct"
          ELSE "wrong"

\* number-match: the first number after the first tag.
check_numbers(text) ==
  LET opens == Where(text, {"open"})
      after == {i \in Where(text, DOMAIN Digit) : i > Min(opens)}
  IN IF opens = {} \/ after = {} THEN "no_number"
     ELSE IF Float(Answer) = <<>> THEN "unparseable"
     ELSE IF Float(Digits(text, Min(after))) = Float(Answer) THEN "correct"
     ELSE "incorrect"

\* tags-answer: the one answer, in one line.
correctness(text) ==
  LET blocks == Marked(text, "open", "close")
  IN Len(blocks) = 1 /\ SelectSeq(blocks[1], LAMBDA mark : mark # "nl") = Answer

\* tags-format: one block of reasoning, one answer.
formatting(text) ==
  (IF Len(Marked(text, "reason", "think")) = 1 THEN 1 ELSE 0) + (IF Len(Marked(text, "open", "close")) = 1 THEN 1 ELSE 0)

-----------------------------------------------------------------------------

Init == vocabulary \in Vocabularies /\ completion = <<>>

\* The model generates, mark by mark.
Generate ==
  /\ Len(completion) < MaxMarks
  /\ \E mark \in vocabulary : completion' = Append(completion, mark)
  /\ UNCHANGED vocabulary

Next == Generate

Spec == Init /\ [][Next]_vars

-----------------------------------------------------------------------------
(* Properties.                                                             *)

\* support.py:338: the rewards and the evals agree on what the model's answer is. Where the
\* tags are used once each and in order, what one reward pays for as the right answer every
\* other one and every eval takes for the right answer, and what none pays for no eval does.
PaidIsRight ==
  match_format_approximately(completion) = 3 /\ match_format_exactly(completion) =>
    LET right == check_answer(completion) \in {"exact", "stripped"}
    IN /\ right = correctness(completion)
       /\ right = item_score("exact", extract_answer("solution-tags", completion), Answer)
       /\ right => /\ check_numbers(completion) = "correct"
                   /\ \A metric \in {"exact", "number", "math"} : item_score(metric, extract_answer("auto", completion), Answer)
                   /\ ("reason" \in ToSet(completion) => formatting(completion) >= 1)

\* An alignment of two texts: places of one beside places of the other, in order.
Alignments(a, b) ==
  {m \in SUBSET ((DOMAIN a) \X (DOMAIN b)) : \A p, q \in m : p # q => (p[1] < q[1] /\ p[2] < q[2]) \/ (q[1] < p[1] /\ q[2] < p[2])}

\* support.py:263: the errors counted are the least with which one text becomes the other.
ErrorsLeast ==
  LET heard == SubSeq(completion, 1, Min({3, Len(completion)}))
      said == <<"7", "8", "7">>
  IN edit_distance(heard, said) =
       Min({Len(heard) + 3 - 2 * Cardinality(m) + Cardinality({p \in m : heard[p[1]] # said[p[2]]}) : m \in Alignments(heard, said)})

\* support.py:305: the answer in a box is what its own braces hold, all of it, and of the last box.
BoxedWhole ==
  LET found == boxed(completion)
      level(text) == FoldLeft(LAMBDA n, mark : IF mark = "{" THEN n + 1 ELSE IF mark = "}" THEN n - 1 ELSE n, 0, text)
  IN found # <<>> =>
       \E i \in DOMAIN completion, j \in DOMAIN completion :
         /\ i < j /\ completion[i] = "{" /\ completion[j] = "}" /\ found[1] = strip(SubSeq(completion, i + 1, j - 1))
         /\ \A k \in i + 1..j - 1 : level(SubSeq(completion, i + 1, k)) >= 0
         /\ level(found[1]) = 0
         /\ \E b \in 1..i - 1 : completion[b] = "box" /\ \A k \in b + 1..Len(completion) : completion[k] # "box" /\ (k < i => completion[k] # "{")
=============================================================================
