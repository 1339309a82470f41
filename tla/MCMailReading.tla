--------------------------- MODULE MCMailReading ---------------------------
(* Folders of up to six messages: three that refer to each other in a circle, *)
(* one with the Message-ID of another, two that answer a message that is not  *)
(* there, one without a Message-ID.                                           *)
EXTENDS MailReading

CONSTANTS a, b, c, d, lost

MCIds == {a, b, c, d, lost}

Headed(id, refs) == [id |-> id, refs |-> refs]

MCHeader ==
    <<Headed(a, {c}), Headed(b, {a}), Headed(a, {d}),
      Headed(c, {b, lost}), Headed(d, {lost}), Headed(NoId, {a})>>
=============================================================================
