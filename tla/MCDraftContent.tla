---------------------------- MODULE MCDraftContent ----------------------------
(* Texts with no, one and two line breaks, in either form, with short lines   *)
(* and with a long one, with a wide character that a cut can split; one with  *)
(* an HTML alternative, one with two attachments; requests that name one      *)
(* field each, or an attachment that is not staged.                           *)
EXTENDS DraftContent

CONSTANTS s1, s2, f1, f2, f3

Plain(subject) == [subject |-> subject, padded |-> FALSE]

MCSubjects == {s1, s2}
MCFiles == {f1, f2, f3}
MCStaged == {f1, f2}

TwoLines == <<"x", "lf", "wide">>
ThreeLines == <<"x", "lf", "lf", "wide", "wide">>
WithCr == <<"x", "cr", "lf", "wide", "wide", "cr", "x">>

MCContents == {
    [head |-> Plain(s1), body |-> TwoLines, html |-> ThreeLines, files |-> {}],
    [head |-> Plain(s1), body |-> ThreeLines, html |-> None, files |-> {f1, f2}],
    [head |-> Plain(s1), body |-> WithCr, html |-> <<>>, files |-> {f1}],
    [head |-> [subject |-> s1, padded |-> TRUE], body |-> <<"x">>, html |-> None, files |-> {}]}

\* For the run body_lost: a body of two short lines, divided by a LF.
MCShortLines == {[head |-> Plain(s1), body |-> <<"x", "lf", "x">>, html |-> None, files |-> {}]}

Nothing == [head |-> Keep, body |-> Keep, html |-> Keep, files |-> Keep]

MCRequests == {
    [Nothing EXCEPT !.head = Plain(s2)],
    [Nothing EXCEPT !.head = [subject |-> s2, padded |-> TRUE]],
    [Nothing EXCEPT !.body = ThreeLines],
    [Nothing EXCEPT !.html = TwoLines],
    [Nothing EXCEPT !.files = {f2}],
    [Nothing EXCEPT !.files = {f3}]}

MCForeignTexts == {<<>>, <<"wide", "cr", "lf", "wide">>, <<"x", "lf">>}
=============================================================================
