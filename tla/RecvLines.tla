------------------------------ MODULE RecvLines ------------------------------
(***************************************************************************)
(* How modules::connection cuts lines out of the bytes it receives, which  *)
(* come in chunks that end anywhere.  A byte is "x" for one of a line's    *)
(* text, a blank " ", "\r" or "\n".                                        *)
(***************************************************************************)
EXTENDS Naturals, Sequences, SequencesExt, FiniteSetsExt

Bytes  == {"x", " ", "\r", "\n"}
Blanks == {" ", "\r", "\n"}

\* The first position from p on whose byte is in S, 0 if there is none.
FirstOf(buf, S, p) ==
    LET found == {k \in p .. Len(buf) : buf[k] \in S}
    IN IF found = {} THEN 0 ELSE Min(found)

\* The loop of recv() over recv_buffer: the lines it emits, and what it leaves
\* in the buffer.
Cut(buf) ==
    LET from[p \in 1 .. Len(buf) + 1] ==
            LET line_begin == FirstOf(buf, Bytes \ Blanks, p)
                newline    == FirstOf(buf, {"\n"}, line_begin)
                line_end   == IF buf[newline - 1] = "\r" THEN newline - 1 ELSE newline
            IN IF line_begin = 0 THEN [lines |-> <<>>, rest |-> <<>>]
               ELSE IF newline = 0
               THEN [lines |-> <<>>, rest |-> SubSeq(buf, line_begin, Len(buf))]
               ELSE [from[line_end] EXCEPT
                       !.lines = <<SubSeq(buf, line_begin, line_end - 1)>> \o @]
    IN from[1]

----------------------------------------------------------------------------
(* What the lines of a stream are, seen as a whole                         *)

\* Where the line that goes up to position n begins: at the first byte of text
\* after the last line break, 0 if there is none.
LineBegin(stream, n) ==
    LET text == {k \in 1 .. n - 1 : /\ stream[k] \notin Blanks
                                    /\ \A j \in k .. n - 1 : stream[j] # "\n"}
    IN IF text = {} THEN 0 ELSE Min(text)

\* The line that the line break at position n ends, without a "\r" before it.
Line(stream, n) ==
    SubSeq(stream, LineBegin(stream, n), IF stream[n - 1] = "\r" THEN n - 2 ELSE n - 1)

\* Every line break ends a line, if there is text since the last one.
Lines(stream) ==
    LET upto[n \in 0 .. Len(stream)] ==
            IF n = 0 THEN <<>>
            ELSE IF stream[n] = "\n" /\ LineBegin(stream, n) # 0
            THEN Append(upto[n - 1], Line(stream, n))
            ELSE upto[n - 1]
    IN upto[Len(stream)]
===============================================================================
