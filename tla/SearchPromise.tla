----------------------------- MODULE SearchPromise -----------------------------
(* What a search session promises its client: one answer to each line, and a    *)
(* true one.  How the range is divided, which kernel runs and what is kept on   *)
(* the device between lines is not the client's concern.                        *)
EXTENDS Integers

CONSTANTS
  Lines,            \* the lines a client may write
  Match(_, _),      \* an offset's address has the line's pattern
  ClearMatch(_, _), \* the same, for an offset no kernel may overlook
  NobodyAsked, NothingTold, Failed

VARIABLES asked, told

Range(r) == r.start..(r.start + r.count - 1)

\* An answer is true of a line: the offset matches and none before it is overlooked,
\* or there is none to overlook in the whole range.
True(r, answer) ==
  \/ /\ answer.kind = "found" /\ answer.offset \in Range(r) /\ Match(r, answer.offset)
     /\ \A o \in Range(r) : o < answer.offset => ~ClearMatch(r, o)
  \/ /\ answer.kind = "none"
     /\ \A o \in Range(r) : ~ClearMatch(r, o)

Init == asked = NobodyAsked /\ told = NothingTold

Ask ==
  /\ asked = NobodyAsked /\ told = NothingTold
  /\ asked' \in Lines /\ UNCHANGED told

Tell ==
  /\ asked # NobodyAsked /\ told = NothingTold
  /\ told' = Failed \/ True(asked, told')
  /\ asked' = NobodyAsked

Hear == told # NothingTold /\ told' = NothingTold /\ UNCHANGED asked

\* The process is stopped or dies, with or without what it had said.
Drop == asked' = NobodyAsked /\ told' \in {told, NothingTold}

Next == Ask \/ Tell \/ Hear \/ Drop
Spec == Init /\ [][Next]_<<asked, told>>
================================================================================
