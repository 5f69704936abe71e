---------------------------- MODULE ReplayWindow ----------------------------
(***************************************************************************)
(* The inbound replay window of a secure session: the type replayWindow    *)
(* and its method check (session/session.go), as operators on a record.    *)
(*                                                                         *)
(* The uint32 bitmap is the set of the positions of its one-bits.          *)
(* WindowSize stands for the three 32s of the code, which are the same     *)
(* number there: the constant MessageCounterWindowSize, the width of the   *)
(* bitmap and the literal of the test "shift >= 32".                       *)
(*                                                                         *)
(* No subtraction of the code underflows: c - w.max is taken only when     *)
(* c > w.max and w.max - c only when c < w.max, so naturals are enough.    *)
(***************************************************************************)
EXTENDS Integers

CONSTANT WindowSize  \* MessageCounterWindowSize, 32 in the code

ASSUME WindowSizeAssumption == WindowSize \in Nat \ {0}

\* The positions of the bitmap.
Bit == 0 .. WindowSize - 1

\* The zero value of the struct: max = 0 means "no counter accepted yet".
EmptyWindow == [max |-> 0, bitmap |-> {}]

\* bitmap << n on a word of WindowSize bits.
ShiftLeft(bitmap, n) == {b + n : b \in bitmap} \cap Bit

\* Mutant: the window is one counter too short.
ShortAccepts(w, c) ==
    \/ w.max = 0
    \/ c > w.max
    \/ /\ c < w.max
       /\ w.max - c < WindowSize
       /\ w.max - c - 1 \notin w.bitmap

\* Mutant: a counter behind max is not looked up.
AcceptsLate(w, c) ==
    \/ w.max = 0
    \/ c > w.max
    \/ c < w.max /\ w.max - c <= WindowSize

\* The switch of check: does it return a commit closure, or
\* ErrReplayedMessageCounter?
Accepts(w, c) ==
    \/ w.max = 0
    \/ c > w.max
    \/ /\ c < w.max
       /\ w.max - c <= WindowSize
       /\ w.max - c - 1 \notin w.bitmap

\* The effect of the closure check returns, for a counter it accepts.
Commit(w, c) ==
    IF w.max = 0 THEN [w EXCEPT !.max = c]
    ELSE IF c > w.max
         THEN LET shift == c - w.max
              IN  [max    |-> c,
                   bitmap |-> IF shift >= WindowSize
                              THEN {}
                              ELSE ShiftLeft(w.bitmap, shift) \cup {shift - 1}]
         ELSE [w EXCEPT !.bitmap = @ \cup {w.max - c - 1}]

-----------------------------------------------------------------------------
\* w is what the counters of the set acc leave behind:
\*  - max is 0 before the first of them and the greatest of them after;
\*  - bit i set => counter max - 1 - i is in acc, as the comment on the field
\*    bitmap says;
\*  - the converse for every position but the last: a counter of acc less than
\*    WindowSize behind max has its bit set.
Describes(w, acc) ==
    /\ w.max = 0 => acc = {} /\ w.bitmap = {}
    /\ w.max # 0 => w.max \in acc
    /\ \A c \in acc : c <= w.max
    /\ \A i \in w.bitmap : w.max - 1 - i \in acc
    /\ \A c \in acc :
           c < w.max /\ w.max - c < WindowSize => w.max - c - 1 \in w.bitmap
=============================================================================
