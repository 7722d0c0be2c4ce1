------------------------------- MODULE LogFile -------------------------------
(***************************************************************************)
(* logging/LogFile.cc: lines go through a stdio buffer into a file, and    *)
(* into a new file when the old one is full or the day changes.  A module  *)
(* without variables: the LogFile is its caller's, who calls it from one   *)
(* thread and without the mutex (threadSafe = false).                      *)
(*                                                                         *)
(* files[i] is what the i-th File object has passed on to the kernel; the  *)
(* last is file_.  Two that are made in the same second append to a file   *)
(* of the same name.  Lines have the same length; the disk is never full.  *)
(***************************************************************************)
EXTENDS Integers, Sequences, SequencesExt

CONSTANT RollSize   \* rollSize_, in lines

ASSUME RollAssumption == RollSize \in Nat

\* What the constructor leaves.
Opened == [files |-> << << >> >>, stdio |-> << >>]

WrittenLines(f) == Len(Last(f.files)) + Len(f.stdio)

\* The lines of stdio's buffer, as far as the k-th, are passed on.
PassOn(f, k) ==
  [files |-> Front(f.files) \o << Last(f.files) \o SubSeq(f.stdio, 1, k) >>,
   stdio |-> SubSeq(f.stdio, k + 1, Len(f.stdio))]

Flush(f) == PassOn(f, Len(f.stdio))

\* rollFile(): the old File is closed after the new one was opened.
RollFile(f) == [Flush(f) EXCEPT !.files = Append(@, << >>)]

\* File::append(): stdio passes on as much as it likes.
Written(f, lines) ==
  LET g == [f EXCEPT !.stdio = @ \o lines]
  IN {PassOn(g, k) : k \in 0..Len(g.stdio)}

\* append(): what may become of f, as it is full or not, the day is over, the
\* flush interval is over, or neither.
AppendLines(f, lines) ==
  UNION {IF WrittenLines(g) > RollSize THEN {RollFile(g)}
         ELSE {RollFile(g), Flush(g), g} : g \in Written(f, lines)}

Content(f) == FlattenSeq(f.files) \o f.stdio
=============================================================================
