----------------------------- MODULE MCProcess -----------------------------
(* Process.tla on small instances. *)
EXTENDS Process

AllChars == {"a", "b", Space, Single, Double, Backslash, Newline, Escape}
Chars == {"a", Space, Single, Double, Backslash}
Words == BoundedSeq(Chars, 2)
Plain == [tool |-> "run_shell", text |-> <<"a">>, meant |-> Refused, styles |-> <<>>, shell |-> "", halves |-> 0, malformed |-> FALSE]
Line(text) == [Plain EXCEPT !.tool = "run_command", !.text = text]

\* One argument, or two, in every mixture of quotes; every text of three characters.
Quoted == {<<w, s>> \in Words \X Style : Quotable(w, s)}
Short == {q \in Quoted : Len(q[1]) <= 1}
Meant(words, styles) == [Line(QuoteAll(words, styles)) EXCEPT !.meant = words, !.styles = styles]
Commands ==
  {Meant(<<q[1]>>, <<q[2]>>) : q \in Quoted}
  \cup {Meant(<<q[1], r[1]>>, <<q[2], r[2]>>) : q \in Quoted, r \in Short}
  \cup {Line(text) : text \in BoundedSeq(Chars, 3)}

Scripts ==
  {[Plain EXCEPT !.text = text] : text \in BoundedSeq({"a", "b", Space, Newline, Escape}, 4)}
  \cup {[Plain EXCEPT !.shell = shell] : shell \in {"auto", "bash", "sh", "pwsh", "fish"}}
  \cup {[Plain EXCEPT !.halves = halves] : halves \in 1..70}
  \cup {[Plain EXCEPT !.malformed = TRUE], [Plain EXCEPT !.tool = "unknown"]}

\* stdout spells one character of two bytes; stderr one of one byte, then none.
Bytes == [s \in Stream |-> IF s = "stdout" THEN {<<1, 2>>} ELSE {<<1, 1>>}]

AllRequests == Commands \cup Scripts
=============================================================================
