-------------------------------- MODULE Glob --------------------------------
(***************************************************************************)
(* The glob matcher of patterns, exemptions and selectors                  *)
(* (internal/config/glob.go).  A name is a sequence of segments, a segment *)
(* a sequence of characters; a pattern is made of the same characters,     *)
(* some of which are special.                                              *)
(***************************************************************************)
EXTENDS Naturals, Sequences, FiniteSets, SequencesExt

CONSTANT Alphabet   \* the characters (bytes), in their order

ASSUME AlphabetAssumption == Alphabet \in Seq(STRING) /\ IsInjective(Alphabet)

Chars == ToSet(Alphabet)
Segments == Seq(Chars)
Byte(c) == CHOOSE i \in DOMAIN Alphabet : Alphabet[i] = c
From(s, i) == SubSeq(s, i, Len(s))

-----------------------------------------------------------------------------
(* matchClass *)

Negates(c) == c \in {"^", "!"}

\* The position of the bracket that closes the class at the head of p, or 0.  A
\* bracket right after the opening (and the negation) is a member of the class.
ClassEnd_AnyBracket(p) ==                                                \* mutant
    LET ends == {i \in 2 .. Len(p) : p[i] = "]"} IN
    IF ends = {} THEN 0 ELSE CHOOSE i \in ends : \A j \in ends : i <= j
ClassEnd(p) ==
    LET first == IF Len(p) > 1 /\ Negates(p[2]) THEN 3 ELSE 2
        ends  == {i \in first + 1 .. Len(p) : p[i] = "]"}
    IN  IF ends = {} THEN 0 ELSE CHOOSE i \in ends : \A j \in ends : i <= j

\* The loop over a class: ranges x-y and single characters.
InClass[class \in Segments] == [c \in Chars |->
    /\ class # <<>>
    /\ IF Len(class) >= 3 /\ class[2] = "-"
       THEN \/ Byte(class[1]) <= Byte(c) /\ Byte(c) <= Byte(class[3])
            \/ InClass[From(class, 4)][c]
       ELSE c = class[1] \/ InClass[Tail(class)][c]]

MatchClass(p, s) ==
    LET end == ClassEnd(p)
        neg == Negates(p[2])
    IN  /\ end # 0 /\ s # <<>>
        /\ neg # InClass[SubSeq(p, IF neg THEN 3 ELSE 2, end - 1)][Head(s)]

-----------------------------------------------------------------------------
(* matchSegment and matchSegments *)

MatchSegment[p \in Segments] == [s \in Segments |->
    IF p = <<>> THEN s = <<>>
    ELSE CASE Head(p) = "*" ->
                  Tail(p) = <<>> \/ \E i \in 1 .. Len(s) + 1 : MatchSegment[Tail(p)][From(s, i)]
           [] Head(p) = "?" ->
                  s # <<>> /\ MatchSegment[Tail(p)][Tail(s)]
           [] Head(p) = "[" ->
                  MatchClass(p, s) /\ MatchSegment[From(p, ClassEnd(p) + 1)][Tail(s)]
           [] Head(p) = "\\" ->
                  /\ Len(p) >= 2 /\ s # <<>> /\ Head(s) = p[2]
                  /\ MatchSegment[From(p, 3)][Tail(s)]
           [] OTHER ->
                  s # <<>> /\ Head(s) = Head(p) /\ MatchSegment[Tail(p)][Tail(s)]]

MatchGlob[pat \in Seq(Segments)] == [name \in Seq(Segments) |->
    IF pat = <<>> THEN name = <<>>
    ELSE IF Head(pat) = <<"*", "*">>
    THEN Tail(pat) = <<>> \/ \E i \in 1 .. Len(name) + 1 : MatchGlob[Tail(pat)][From(name, i)]
    ELSE name # <<>> /\ MatchSegment[Head(pat)][Head(name)] /\ MatchGlob[Tail(pat)][Tail(name)]]

MatchAny(patterns, name) == \E pat \in patterns : MatchGlob[pat][name]
=============================================================================
