----------------------------- MODULE MCMailMove -----------------------------
(* Two messages, so that an EXPUNGE can hit the wrong one; three requests, *)
(* so that a move can be repeated and another one follow.                  *)
EXTENDS MailMove, TLC

CONSTANTS m1, m2

TwoMails == {m1, m2}

Symmetry == Permutations(TwoMails)
=============================================================================
