------------------------------ MODULE ChainedLog ------------------------------
(***************************************************************************)
(* The hash-chained files of SciAgent (policy log, approval audit, enterprise *)
(* trail): one line per event, each with the hash of the line before it.      *)
(*                                                                         *)
(* A hash stands for what it covers, so a line holds its body and the bodies   *)
(* its writer had read; its sequence number is how many those were.  A line is  *)
(*   "whole"    with its newline;                                            *)
(*   "unended"  all but the newline: it still parses;                        *)
(*   "torn"     cut short, with no newline;                                  *)
(*   "garbled"  two writes on one line.                                      *)
(***************************************************************************)
EXTENDS Integers, Sequences

Line(after, body, state) == [after |-> after, body |-> body, state |-> state]

Bodies(log) == [i \in DOMAIN log |-> log[i].body]

Parses(line) == line.state \in {"whole", "unended"}

(* A line follows the ones before it: sequence number and previous hash agree.    *)
Follows(log, i) == log[i].after = SubSeq(Bodies(log), 1, i - 1)

(* load: one bad line, gap or broken link, and nothing is read at all.            *)
Readable(log) == \A i \in DOMAIN log : Parses(log[i]) /\ Follows(log, i)

(* An append lands on the last line when that one has no newline.                *)
Appended(log, line) ==
  LET n == Len(log) IN
  IF n > 0 /\ log[n].state \in {"unended", "torn"}
  THEN [log EXCEPT ![n].state = IF line.state = "whole" THEN "garbled" ELSE "torn"]
  ELSE Append(log, line)

Written(log, after, body) == Appended(log, Line(after, body, "whole"))

(* What a write that was cut may leave.                                        *)
CutShort(log, after, body, cuts) ==
  {log} \cup {Appended(log, Line(after, body, how)) : how \in cuts}
=============================================================================
