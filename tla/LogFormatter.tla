---------------------------- MODULE LogFormatter ----------------------------
(***************************************************************************)
(* LogFormatter::init() of sylar/log.cc: a pattern, a sequence of          *)
(* characters, becomes a list of items, or an error.                       *)
(***************************************************************************)
EXTENDS Integers, Sequences, SequencesExt

(* The characters that s_format_items knows.                                 *)
ItemNames == {"m", "p", "r", "c", "t", "n", "d", "f", "l", "T", "F", "N"}

(* The scan: the items found, the plain text since the last one, the date    *)
(* format (one for the whole pattern), and what the next character is:       *)
(* "text", "item" after a %, "brace" after %d, "date" inside its braces.     *)
ScanStart == [items |-> <<>>, tmp |-> <<>>, dateformat |-> <<>>, mode |-> "text"]

Flushed(s) == IF s.tmp = <<>> THEN s
              ELSE [s EXCEPT !.items = Append(@, <<"text", s.tmp>>), !.tmp = <<>>]

ScanText(s, c) ==
    IF c = "%" THEN [Flushed(s) EXCEPT !.mode = "item"]
    ELSE [s EXCEPT !.tmp = Append(@, c), !.mode = "text"]

Scan(s, c) ==
    CASE s.mode = "text"  -> ScanText(s, c)
      [] s.mode = "item"  -> [s EXCEPT !.items = Append(@, <<"item", c>>),
                                       !.mode = IF c = "d" THEN "brace" ELSE "text"]
      [] s.mode = "brace" -> IF c = "{" THEN [s EXCEPT !.mode = "date"]
                             ELSE ScanText(s, c)
      [] s.mode = "date"  -> IF c = "}" THEN [s EXCEPT !.mode = "text"]
                             ELSE [s EXCEPT !.dateformat = Append(@, c)]

(* A brace that is not closed is an error.  After a %d that ends the pattern *)
(* the byte behind the terminating zero is taken for the closing brace:      *)
(* beyond says whether it happens to be one.                                 *)
LogFormatterOf(pattern, beyond) ==
    LET s == Flushed(FoldLeft(Scan, ScanStart, pattern))
    IN  [pattern |-> pattern,
         m_error |-> \/ s.mode = "date"
                     \/ s.mode = "brace" /\ ~beyond
                     \/ \E i \in 1 .. Len(s.items) :
                            s.items[i][1] = "item" /\ s.items[i][2] \notin ItemNames]
=============================================================================
