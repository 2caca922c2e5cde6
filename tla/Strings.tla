--------------------------------- MODULE Strings ---------------------------------
(***************************************************************************)
(* Text as a sequence of symbols, and the functions of Rust's str the code *)
(* is written with.  A symbol is a character, or a run of characters that  *)
(* no operation of the module at hand takes apart.                         *)
(***************************************************************************)
EXTENDS Naturals, Sequences, SequencesExt

Whitespace == {" ", "tab", "newline"}

\* split on one character: "" has one piece, the empty one.
Split(s, c) ==
  FoldLeft(LAMBDA ws, x : IF x = c THEN Append(ws, <<>>) ELSE [ws EXCEPT ![Len(ws)] = Append(@, x)],
           <<<<>>>>, s)

\* split_whitespace
Words(s) ==
  SelectSeq(FoldLeft(LAMBDA ws, x : IF x \in Whitespace THEN Append(ws, <<>>)
                                    ELSE [ws EXCEPT ![Len(ws)] = Append(@, x)], <<<<>>>>, s),
            LAMBDA w : w # <<>>)

\* join: the separator goes before every piece but the first.
Join(ws, sep) ==
  FlattenSeq([i \in DOMAIN ws |-> IF i = 1 THEN ws[i] ELSE sep \o ws[i]])

\* trim
Trim(s) ==
  LET kept == {i \in DOMAIN s : s[i] \notin Whitespace}
  IN IF kept = {} THEN <<>> ELSE SubSeq(s, Min(kept), Max(kept))

\* find: the first index at or after `from` where w occurs in s, or 0.
FindFrom(s, w, from) ==
  LET at == {i \in from .. Len(s) - Len(w) + 1 : SubSeq(s, i, i + Len(w) - 1) = w}
  IN IF at = {} THEN 0 ELSE Min(at)
Find(s, w) == FindFrom(s, w, 1)

\* split_once: what stands before and after the first c, if there is one.
Before(s, c) == IF c \in ToSet(s) THEN SubSeq(s, 1, Find(s, <<c>>) - 1) ELSE s
After(s, c) == IF c \in ToSet(s) THEN SubSeq(s, Find(s, <<c>>) + 1, Len(s)) ELSE <<>>

\* replace: every occurrence, from the left.
Replace(s, old, new) ==
  LET step(done, i) ==
        IF i < done.next THEN done
        ELSE IF i + Len(old) - 1 <= Len(s) /\ SubSeq(s, i, i + Len(old) - 1) = old
             THEN [text |-> done.text \o new, next |-> i + Len(old)]
             ELSE [text |-> Append(done.text, s[i]), next |-> i + 1]
  IN FoldLeft(step, [text |-> <<>>, next |-> 1], [i \in DOMAIN s |-> i]).text

=================================================================================
