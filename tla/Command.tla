------------------------------- MODULE Command -------------------------------
(***************************************************************************)
(* What the client makes of a request before it starts anything: the       *)
(* program and its arguments, the time it gets and the line of the journal *)
(* (client/executor.go, commanddetail.go).  A text is a sequence of        *)
(* characters, and a time a number of units in a machine integer.          *)
(***************************************************************************)
EXTENDS Integers, SequencesExt

CONSTANTS Character,     \* of a text
          Overflow,      \* the first number too large for a time.Duration: 2^63 there
          Second,        \* units in a second
          DefaultLimit,  \* defaultCommandTimeout
          MaxLimit,      \* maxCommandTimeout
          MaxLine        \* maxLoggedDetailRunes

Space == " "   Single == "'"   Double == "\""   Backslash == "\\"
Newline == "\n"   Escape == "escape"   \* a control character
Bare == "bare"

ASSUME CommandAssumption ==
  /\ {Overflow, Second, DefaultLimit, MaxLimit, MaxLine} \subseteq Nat \ {0}
  /\ DefaultLimit <= MaxLimit /\ MaxLimit < Overflow
  /\ {Space, Single, Double, Backslash, Newline, Escape} \subseteq Character /\ Bare \notin Character

-----------------------------------------------------------------------------
(* splitArgv                                                               *)

\* Faulty variant, which the properties must reject: within quotes, nothing is escaped.
EscapesBare(text, i, mode) == text[i] = Backslash /\ i < Len(text) /\ mode = Bare

\* The escapes inside double quotes are those of a double quote and of a backslash.
Escapes(text, i, mode) ==
  /\ text[i] = Backslash /\ i < Len(text)
  /\ mode = Bare \/ (mode = Double /\ text[i + 1] \in {Double, Backslash})

\* cur is the argument being read, if there is one (has): it may be empty, between quotes.
Take(s, c) == [s EXCEPT !.cur = Append(@, c), !.has = TRUE, !.skip = FALSE]
Flush(s) == IF s.has THEN [s EXCEPT !.args = Append(@, s.cur), !.cur = <<>>, !.has = FALSE] ELSE s

AtFirst == [args |-> <<>>, cur |-> <<>>, has |-> FALSE, mode |-> Bare, skip |-> FALSE]
Reads(text, i, s) ==
  LET c == text[i] IN
  IF s.skip THEN Take(s, c)
  ELSE IF Escapes(text, i, s.mode) THEN [s EXCEPT !.skip = TRUE]
  ELSE CASE s.mode = c                              -> [s EXCEPT !.mode = Bare]
         [] s.mode = Bare /\ c \in {Single, Double} -> [s EXCEPT !.mode = c, !.has = TRUE]
         [] s.mode = Bare /\ c = Space              -> Flush(s)
         [] OTHER                                   -> Take(s, c)
Scan(text) ==
  LET after[i \in 0..Len(text)] == IF i = 0 THEN AtFirst ELSE Reads(text, i, after[i - 1])
  IN after[Len(text)]

\* An unclosed quote is an error, and no argument an empty command: neither is started.
Refused == <<>>
SplitArgv(text) == LET s == Scan(text) IN IF s.mode # Bare THEN Refused ELSE Flush(s).args

(* How a caller writes an argument down, as a shell would have it          *)
Each(word, Special) == FlattenSeq([i \in DOMAIN word |->
                         IF word[i] \in Special THEN <<Backslash, word[i]>> ELSE <<word[i]>>])
Style == {Bare, Single, Double}
Quotable(word, style) == CASE style = Bare   -> word # <<>>
                           [] style = Single -> Single \notin ToSet(word)
                           [] style = Double -> TRUE
Quote(word, style) ==
  CASE style = Bare   -> Each(word, {Space, Single, Double, Backslash})
    [] style = Single -> <<Single>> \o word \o <<Single>>
    [] style = Double -> <<Double>> \o Each(word, {Double, Backslash}) \o <<Double>>
QuoteAll(words, styles) ==
  FlattenSeq([i \in DOMAIN words |-> IF i = 1 THEN Quote(words[i], styles[i])
                                    ELSE <<Space>> \o Quote(words[i], styles[i])])
Quotes(text, words, styles) ==
  /\ words \in Seq(Seq(Character)) /\ styles \in [DOMAIN words -> Style]
  /\ \A i \in DOMAIN words : Quotable(words[i], styles[i])
  /\ text = QuoteAll(words, styles)

-----------------------------------------------------------------------------
(* resolveShell and buildShellArgv, on Linux                               *)

Candidates(override) == CASE override \in {"", "auto"} -> {"bash"}
                          [] override \in {"powershell", "pwsh", "bash", "sh"} -> {override}
                          [] OTHER -> {}
BuildShellArgv(bin, text) ==
  IF bin \in {"powershell", "pwsh"} THEN <<bin, "-NoProfile", "-NonInteractive", "-Command", <<"UTF-8">> \o text>>
                                    ELSE <<bin, "-c", text>>

-----------------------------------------------------------------------------
(* The time limits                                                         *)

Wrap(n) == LET m == n % (2 * Overflow) IN IF m < Overflow THEN m ELSE m - 2 * Overflow

\* Faulty variant, which the properties must reject: no maximum.
UncappedTimeout(t) == IF t <= 0 THEN DefaultLimit ELSE Wrap(t * Second)

\* time.Duration(p.Timeout) * time.Second, then the comparison with the maximum
ClientTimeout(t) ==
  IF t <= 0 THEN DefaultLimit
  ELSE LET limit == Wrap(t * Second) IN IF limit > MaxLimit THEN MaxLimit ELSE limit

\* The relay rounds the harness's half seconds up, for the client and for itself.
Ceil(halves) == (halves + 1) \div 2
Grace == 5
RelayWait(halves) == Ceil(halves) + Grace

-----------------------------------------------------------------------------
(* sanitizeLogLine                                                         *)

LineBreakMarker == <<Space, Backslash, "n", Space>>
TruncateRunes(line, limit) ==
  IF limit <= 0 \/ Len(line) <= limit THEN line ELSE Append(SubSeq(line, 1, limit), "cut")

\* Faulty variant, which the properties must reject: a line break is a space like another.
GapOfSpaces(s) == IF s.break \/ s.space THEN <<Space>> ELSE <<>>

\* What comes between two characters that are kept
Gap(s) == IF s.break THEN LineBreakMarker ELSE IF s.space THEN <<Space>> ELSE <<>>

Copies(s, c) ==
  CASE c = Newline -> [s EXCEPT !.break = s.line # <<>>]
    [] c = Space   -> [s EXCEPT !.space = s.line # <<>>]
    [] c = Escape  -> s
    [] OTHER       -> [line |-> Append(s.line \o Gap(s), c), break |-> FALSE, space |-> FALSE]
Copied(text) ==
  LET after[i \in 0..Len(text)] ==
        IF i = 0 THEN [line |-> <<>>, break |-> FALSE, space |-> FALSE] ELSE Copies(after[i - 1], text[i])
  IN after[Len(text)].line
SanitizeLogLine(text) == TruncateRunes(Copied(text), MaxLine)

\* The line of a run_shell or run_command: the command, or what stands for an empty one;
\* parameters that cannot be decoded, and those of an unknown tool, as they came.
DescribeCommand(r) ==
  LET line == SanitizeLogLine(r.text) IN
  [tool   |-> r.tool,
   line   |-> IF line = <<>> /\ r.tool # "unknown" /\ ~r.malformed THEN <<"(commande vide)">> ELSE line,
   extras |-> IF r.tool = "unknown" \/ r.malformed THEN {}
              ELSE {e \in {<<"shell", r.shell>>, <<"timeout", Ceil(r.halves)>>} :
                     IF e[1] = "shell" THEN r.shell # "" /\ r.tool = "run_shell" ELSE r.halves > 0}]
=============================================================================
