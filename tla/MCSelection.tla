----------------------------- MODULE MCSelection -----------------------------
(* A tree of four directories and five files for TLC. *)
EXTENDS Selection

Characters == <<"!", "*", "-", ".", "?", "[", "\\", "]", "^", "a", "b", "x", "y">>

a == <<"a">>
b == <<"b">>
x == <<"x">>
y == <<"y">>
star == <<"*">>
deep == <<"*", "*">>

TreeDirs == <<<<>>, <<a>>, <<a, b>>, <<b>>>>
TreeFiles == <<<<a, b, x>>, <<a, b, y>>, <<a, x>>, <<b, x>>, <<x>>>>

SomeRoots == {<<<<>>>>, <<<<a>>, <<>>>>, <<<<>>, <<a, b>>>>, <<<<a, b>>, <<a>>>>, <<<<b>>, <<a>>>>}
SomeMarkers == SUBSET ToSet(TreeDirs)

\* Stars, classes, negations, ranges, escapes and malformed segments, alone and
\* below "**".
Zoo == {<<deep, p>> : p \in {
           x, star, <<"?">>, <<"*", "b">>, <<"a", "*">>, <<"*", "a", "*">>, <<"?", "*", "?">>,
           <<"*", "*", "b">>, <<"[", "a", "b", "]">>, <<"[", "!", "a", "]">>,
           <<"[", "a", "-", "x", "]", "*">>, <<"[", "*", "-", "-", "x", "-", "y", "]", "*">>,
           <<"[", "]", "]", "*">>, <<"[", "^", "]", "b", "]", "y">>,
           <<"*", "[", "b", "-", "y", "]">>, <<"\\", "*", "*">>, <<"a", "\\">>, <<"[", "a">>,
           <<"[", "!", "]">>}}
       \cup {<<deep, a, deep>>, <<a, deep, b>>, <<deep, deep, x>>, <<star, star>>}
SomeNames == UNION {[1 .. n -> {a, x, <<"]", "b">>, <<"a", "a", "b">>, <<"*">>, <<"x", "y">>}] : n \in 1 .. 2}
             \cup {<<a, b, x>>, <<a, a, b>>, <<b, a, b>>}

Setting(include, exclude, tests, all) ==
    [include |-> include, exclude |-> exclude, tests |-> tests, all |-> all, largest |-> all]
SomeSettings == {
    Setting({<<deep>>}, {}, <<<<b, deep>>, <<deep, y>>>>, FALSE),
    Setting({<<deep, x>>}, {<<b, deep>>}, <<<<b, deep>>, <<deep>>>>, TRUE),
    Setting({<<star>>, <<b, y>>}, {<<a, x>>}, <<<<y>>>>, TRUE),
    Setting(Zoo, {}, <<>>, FALSE)}

Line(exempt, package, file) == [exempt |-> exempt, package |-> package, file |-> file]
SomeLines == {
    Line({}, <<>>, <<>>),
    Line({<<a, deep>>}, <<>>, <<>>),
    Line({<<a, b>>, <<y>>}, <<>>, <<deep, x>>),
    Line({<<b>>}, <<a, deep>>, <<>>),
    Line({}, <<>>, <<a, star, star>>),
    Line({<<deep>>}, <<>>, <<star, x>>)}

Entry(p, f) == [package |-> p, file |-> f]
SomeRecordings == {{}, {Entry(<<a>>, <<x>>), Entry(<<a, b>>, <<y>>)}, {Entry(<<<<".">>>>, <<x>>)}}
==============================================================================
