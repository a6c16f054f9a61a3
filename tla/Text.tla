-------------------------------- MODULE Text --------------------------------
(***************************************************************************)
(* What the bot does with text: the HTML of a problem becomes the Markdown *)
(* of an embed, the fences of a solution get a language, and a file of     *)
(* credentials becomes a map.                                              *)
(*                                                                         *)
(* A text is a sequence of tokens.  A character that the code looks for is *)
(* a token; so is a word, the name of a tag or of an entity, which the     *)
(* code compares as a whole.                                               *)
(***************************************************************************)
EXTENDS Naturals, SequencesExt

CONSTANTS
  Pages,       \* problems: sequences of Marks
  Posts,       \* solutions: sequences of Strokes
  Files,       \* credentials: sequences of lines, a sequence of tokens each
  Slug         \* languageSlug

\* Three ticks in a row are the stroke fence, a backslash before an n, an r or a t
\* the stroke newline, return or tab: every solution is written in one way.
Written(post) ==
  /\ \A i \in 1 .. Len(post) - 1 :
       /\ ~ (post[i] = "\\" /\ post[i + 1] \in {"n", "r", "t"})
       /\ ~ (post[i] = "tick" /\ post[i + 1] = "fence")
  /\ \A i \in 1 .. Len(post) - 2 :
       ~ (post[i] = "tick" /\ post[i + 1] = "tick" /\ post[i + 2] = "tick")

ASSUME TextAssumption ==
  /\ Pages \subseteq Seq(STRING)
  /\ Posts \subseteq Seq(STRING) /\ \A post \in Posts : Written(post)
  /\ Files \subseteq Seq(Seq(STRING))
  /\ Slug \in Seq(STRING)

VARIABLES
  kind,     \* what the text is
  input,
  output,   \* what the code makes of it, once it is read
  read
vars == <<kind, input, output, read>>

-----------------------------------------------------------------------------
(* TextReplace.cpp *)

\* A text is read from left to right: at i the code puts put[i] and goes on at
\* next[i].  What comes out from i on.
Scan(text, next, put) ==
  LET out[i \in 1 .. Len(text) + 1] ==
        IF i > Len(text) THEN <<>> ELSE put[i] \o out[next[i]]
  IN out

\* What is replaced begins at an i with end[i] # 0 and ends there.
Replace(text, end, with) ==
  Scan(text,
       [i \in DOMAIN text |-> IF end[i] = 0 THEN i + 1 ELSE end[i] + 1],
       [i \in DOMAIN text |-> IF end[i] = 0 THEN <<text[i]>> ELSE with[i]])[1]

\* std::regex_replace: a match that begins at i ends at end[i], 0 if none does.
regex_replace(text, end, with) ==
  Replace(text, end, [i \in DOMAIN text |-> with])

\* A pattern without operators.
Literal(text, word) ==
  [i \in DOMAIN text |->
     LET last == i + Len(word) - 1
     IN IF last <= Len(text) /\ SubSeq(text, i, last) = word THEN last ELSE 0]

\* Where the next c at or after i stands, 0 if there is none.
Find(text, c, i) ==
  LET places == {j \in i .. Len(text) : text[j] = c}
  IN IF places = {} THEN 0 ELSE CHOOSE j \in places : \A k \in places : j <= k

\* <[^>]*>
Tag(text) ==
  [i \in DOMAIN text |-> IF text[i] = "<" THEN Find(text, ">", i) ELSE 0]

Backticks == <<"tick", "tick", "tick">>

htmlToMarkdown(html) ==
  LET Replaced(out, word, with) == regex_replace(out, Literal(out, word), with)
      code == Replaced(html, <<"<", "code", ">">>, <<"tick">>)
      uncode == Replaced(code, <<"<", "/code", ">">>, <<"tick">>)
      pre == Replaced(uncode, <<"<", "pre", ">">>, Backticks)
      unpre == Replaced(pre, <<"<", "/pre", ">">>, Backticks)
  IN regex_replace(unpre, Tag(unpre), <<>>)

Word == {"x", "lt", "n", "r", "t", "cpp"}       \* tokens that begin with a \w

\* ```(?!\w)
Bare(text) ==
  [i \in DOMAIN text |->
     IF i + 3 <= Len(text) /\ text[i + 3] \in Word
       THEN 0 ELSE Literal(text, Backticks)[i]]

\* A backslash and a letter are a control character, in whatever word they stand.
Unescape(text, letter, char) ==
  regex_replace(text, Literal(text, <<"\\", letter>>), <<char>>)

\* Mutant of removeNewLines: only new lines are made.
removeNewLines_lines(text, languageSlug) ==
  LET out == Unescape(text, "n", "newline")
  IN regex_replace(out, Bare(out), Backticks \o languageSlug)

removeNewLines(text, languageSlug) ==
  LET lines == Unescape(text, "n", "newline")
      returns == Unescape(lines, "r", "return")
      out == Unescape(returns, "t", "tab")
  IN regex_replace(out, Bare(out), Backticks \o languageSlug)

\* The character of an entity.
Entities ==
  [name \in {"lt", "gt", "amp", "quot", "#39", "nbsp"} |->
     CASE name = "lt"   -> "<"
       [] name = "gt"   -> ">"
       [] name = "amp"  -> "&"
       [] name = "quot" -> "quote"
       [] name = "#39"  -> "apostrophe"
       [] name = "nbsp" -> " "]

\* Mutant of htmlDecoder: what was decoded is decoded again.
htmlDecoder_twice(text) ==
  LET Pass(out, name) ==
        regex_replace(out, Literal(out, <<"&", name, ";">>), <<Entities[name]>>)
  IN FoldLeft(Pass, text, <<"amp", "lt", "gt", "quot", "#39", "nbsp">>)

\* From an ampersand to the next semicolon there may be an entity.
htmlDecoder(text) ==
  LET sec == [i \in DOMAIN text |-> IF text[i] = "&" THEN Find(text, ";", i) ELSE 0]
      end == [i \in DOMAIN text |->
                IF sec[i] = i + 2 /\ text[i + 1] \in DOMAIN Entities THEN sec[i] ELSE 0]
  IN Replace(text, end, [i \in DOMAIN text |-> <<Entities[text[i + 1]]>>])

-----------------------------------------------------------------------------
(* ReadAuthFile.cpp *)

\* Mutant of Split: the last equals sign.
Split_last(line) ==
  LET p == CHOOSE j \in DOMAIN line :
             line[j] = "=" /\ \A k \in j + 1 .. Len(line) : line[k] # "="
  IN <<SubSeq(line, 1, p - 1), SubSeq(line, p + 1, Len(line))>>

\* What stands before the first equals sign, and after it.
Split(line) ==
  LET p == Find(line, "=", 1)
  IN <<SubSeq(line, 1, p - 1), SubSeq(line, p + 1, Len(line))>>

\* config[key] = value
Assign(config, key, value) ==
  [k \in DOMAIN config \cup {key} |-> IF k = key THEN value ELSE config[k]]

\* What a line does to the map.
After(config, line) ==
  IF Find(line, "=", 1) = 0 THEN config
  ELSE Assign(config, Split(line)[1], Split(line)[2])

readAuthFile(file) ==
  LET config[i \in 0 .. Len(file)] ==
        IF i = 0 THEN <<>> ELSE After(config[i - 1], file[i])
  IN config[Len(file)]

-----------------------------------------------------------------------------
(* Who calls them. *)

\* A problem is written in marks: its characters and its tags.
Tags == {"code", "/code", "pre", "/pre", "p"}
Html(mark) ==
  CASE mark \in Tags        -> <<"<", mark, ">">>
    [] mark = "img"         -> <<"<", "img", "x", ">">>
    [] mark = "<"           -> <<"&", "lt", ";">>
    [] mark = ">"           -> <<"&", "gt", ";">>
    [] mark = "&"           -> <<"&", "amp", ";">>
    [] mark = "quote"       -> <<"&", "quot", ";">>
    [] mark = "apostrophe"  -> <<"&", "#39", ";">>
    [] mark = " "           -> <<"&", "nbsp", ";">>
    [] OTHER                -> <<mark>>

\* A solution is written in strokes: a control character is a backslash and its
\* letter.
Typed(stroke) ==
  CASE stroke = "newline" -> <<"\\", "n">>
    [] stroke = "return"  -> <<"\\", "r">>
    [] stroke = "tab"     -> <<"\\", "t">>
    [] stroke = "fence"   -> Backticks
    [] OTHER              -> <<stroke>>

Init ==
  /\ \/ kind = "description" /\ input \in Pages
     \/ kind = "solution" /\ input \in Posts
     \/ kind = "credentials" /\ input \in Files
  /\ output = <<>>
  /\ read = FALSE

Describe ==
  /\ kind = "description" /\ ~read
  /\ output' = htmlDecoder(htmlToMarkdown(
                FlattenSeq([i \in DOMAIN input |-> Html(input[i])])))
  /\ read' = TRUE
  /\ UNCHANGED <<kind, input>>

Show ==
  /\ kind = "solution" /\ ~read
  /\ output' = removeNewLines(
                FlattenSeq([i \in DOMAIN input |-> Typed(input[i])]), Slug)
  /\ read' = TRUE
  /\ UNCHANGED <<kind, input>>

Read ==
  /\ kind = "credentials" /\ ~read
  /\ output' = readAuthFile(input)
  /\ read' = TRUE
  /\ UNCHANGED <<kind, input>>

Next == Describe \/ Show \/ Read
Spec == Init /\ [][Next]_vars

-----------------------------------------------------------------------------
(* Properties. *)

Markdown(mark) ==
  CASE mark \in {"code", "/code"} -> <<"tick">>
    [] mark \in {"pre", "/pre"}   -> Backticks
    [] mark \in {"p", "img"}      -> <<>>
    [] OTHER                      -> <<mark>>

\* A description shows the characters of the problem, the six that have an entity
\* as they are meant (an escaped "&lt;" is shown as that, an escaped tag as text),
\* code between backticks, and no tag.  Tags have no attributes, but for images.
ShowsTheProblem ==
  read /\ kind = "description" =>
    output = FlattenSeq([i \in DOMAIN input |-> Markdown(input[i])])

\* A fence with a language.
Tagged(post, k) == k < Len(post) /\ post[k + 1] \in Word

Shown(post, k) ==
  IF post[k] # "fence" THEN <<post[k]>>
  ELSE IF Tagged(post, k) THEN Backticks
  ELSE Backticks \o Slug

\* A solution shows the control character of every backslash before an n, an r or
\* a t, those of a word such as \times too: the code cannot tell them from a new
\* line that LeetCode escaped.  A fence gets the language unless a word follows it,
\* once the control characters are made.  Nothing else changes.
ShowsTheSolution ==
  read /\ kind = "solution" =>
    output = FlattenSeq([k \in DOMAIN input |-> Shown(input, k)])

\* The line gives the key a value.
Of(key, line) == IsPrefix(key \o <<"=">>, line) /\ ~Contains(key, "=")

\* A key has the rest of the last line that begins with it and an equals sign,
\* whatever equals signs follow; other lines say nothing.
KeepsTheCredentials ==
  read /\ kind = "credentials" =>
    /\ \A key \in DOMAIN output : \E i \in DOMAIN input :
         /\ Of(key, input[i])
         /\ input[i] = key \o <<"=">> \o output[key]
         /\ \A j \in i + 1 .. Len(input) : ~Of(key, input[j])
    /\ \A i \in DOMAIN input : Contains(input[i], "=") =>
         \E key \in DOMAIN output : Of(key, input[i])
=============================================================================
