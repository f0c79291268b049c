------------------------------ MODULE Wildcard ------------------------------
(***************************************************************************)
(* matchesWildcard of RemoteControlServer.cpp: which of the ids of the     *)
(* data manager a "get" with a "*" enumerates.  The loop with one point of *)
(* return, the last star, is compared with what matching means.            *)
(***************************************************************************)
EXTENDS Naturals, Sequences, SequencesExt

CONSTANTS
    Chars,      \* the characters of ids; with a star among them ReturnsMatch fails,
                \* as SameCharacter comes before AtStar: "*" does not match "*a"
    Star,       \* the character "*"
    MaxValue,   \* bound: length of an id
    MaxPattern  \* bound: length of a pattern

LengthsAssumption == MaxValue \in Nat /\ MaxPattern \in Nat

VARIABLES
    value, pattern,
    valueIndex, patternIndex,
    starIndex, starValueIndex,
    pc          \* "match", "trail" (the stars at the end), "true" or "false"

\* The indices count from 1: starIndex = 0 stands for -1.
vars == <<value, pattern, valueIndex, patternIndex, starIndex, starValueIndex, pc>>

\* HeaderReceived asks only for patterns with a star.
Init == /\ value \in BoundedSeq(Chars, MaxValue)
        /\ pattern \in BoundedSeq(Chars \cup {Star}, MaxPattern)
        /\ Star \in ToSet(pattern)
        /\ valueIndex = 1 /\ patternIndex = 1
        /\ starIndex = 0 /\ starValueIndex = 1
        /\ pc = "match"

Looping == pc = "match" /\ valueIndex <= Len(value)
SameCharacter == /\ patternIndex <= Len(pattern)
                 /\ pattern[patternIndex] = value[valueIndex]
AtStar == patternIndex <= Len(pattern) /\ pattern[patternIndex] = Star

Advance == /\ Looping
           /\ SameCharacter
           /\ patternIndex' = patternIndex + 1
           /\ valueIndex' = valueIndex + 1
           /\ UNCHANGED <<value, pattern, starIndex, starValueIndex, pc>>

NoteStar == /\ Looping
            /\ ~SameCharacter /\ AtStar
            /\ starIndex' = patternIndex
            /\ patternIndex' = patternIndex + 1
            /\ starValueIndex' = valueIndex
            /\ UNCHANGED <<value, pattern, valueIndex, pc>>

\* The star does not take one more character.
MutBacktrack == /\ Looping
                /\ ~SameCharacter /\ ~AtStar /\ starIndex > 0
                /\ patternIndex' = starIndex + 1
                /\ valueIndex' = starValueIndex
                /\ UNCHANGED <<value, pattern, starIndex, starValueIndex, pc>>

Backtrack == /\ Looping
             /\ ~SameCharacter /\ ~AtStar /\ starIndex > 0
             /\ patternIndex' = starIndex + 1
             /\ starValueIndex' = starValueIndex + 1
             /\ valueIndex' = starValueIndex + 1
             /\ UNCHANGED <<value, pattern, starIndex, pc>>

Fail == /\ Looping
        /\ ~SameCharacter /\ ~AtStar /\ starIndex = 0
        /\ pc' = "false"
        /\ UNCHANGED <<value, pattern, valueIndex, patternIndex, starIndex,
                       starValueIndex>>

EndOfValue == /\ pc = "match" /\ valueIndex > Len(value)
              /\ pc' = "trail"
              /\ UNCHANGED <<value, pattern, valueIndex, patternIndex, starIndex,
                             starValueIndex>>

SkipStar == /\ pc = "trail" /\ AtStar
            /\ patternIndex' = patternIndex + 1
            /\ UNCHANGED <<value, pattern, valueIndex, starIndex, starValueIndex, pc>>

Return == /\ pc = "trail" /\ ~AtStar
          /\ pc' = IF patternIndex > Len(pattern) THEN "true" ELSE "false"
          /\ UNCHANGED <<value, pattern, valueIndex, patternIndex, starIndex,
                         starValueIndex>>

Next == \/ Advance \/ NoteStar \/ Backtrack \/ Fail
        \/ EndOfValue \/ SkipStar \/ Return

\* The function runs to its end.
Spec == Init /\ [][Next]_vars /\ WF_vars(Next)

-----------------------------------------------------------------------------
(* Properties.                                                             *)

Returned == pc \in {"true", "false"}

\* Matches[i, j]: what follows position i of the value matches what follows
\* position j of the pattern; a star stands for any number of characters.
Matches ==
    LET f[i \in 1..Len(value) + 1, j \in 1..Len(pattern) + 1] ==
            IF j > Len(pattern) THEN i > Len(value)
            ELSE IF pattern[j] = Star THEN f[i, j + 1] \/ (i <= Len(value) /\ f[i + 1, j])
            ELSE i <= Len(value) /\ value[i] = pattern[j] /\ f[i + 1, j + 1]
    IN  f

\* "`*` matches zero or more characters" (docs/modernization/
\* MATLAB_REMOTE_CONNECTOR.md:86): the function returns true for exactly the
\* ids the pattern matches, although it goes back to the last star only.
ReturnsMatch == Returned => (pc = "true" <=> Matches[1, 1])

\* The function returns.
Terminates == <>Returned
=============================================================================
