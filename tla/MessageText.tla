------------------------------ MODULE MessageText ------------------------------
(***************************************************************************)
(* The texts of messages: what EmailMessage.set_content, the wire format   *)
(* and _text_part_hash of draft_writer.py make of their line breaks, where *)
(* a text is cut to a number of bytes, and the bounded reading of          *)
(* mailparse.py.                                                           *)
(*                                                                         *)
(* A text is a sequence of characters.  Of the characters only the line    *)
(* breaks and the size in UTF-8 matter: an ordinary one takes one byte, a  *)
(* wide one two, and the replacement character, which stands for a         *)
(* character cut in half, three.                                           *)
(***************************************************************************)
EXTENDS Integers, Sequences, SequencesExt

Chars == {"x", "wide", "cr", "lf", "?"}

Text == Seq(Chars)

SizeOf(char) ==
    CASE char = "wide" -> 2
      [] char = "?"    -> 3
      [] OTHER         -> 1

\* len(text.encode("utf-8"))
Size(text) == FoldLeft(LAMBDA sum, char : sum + SizeOf(char), 0, text)

-----------------------------------------------------------------------------
(* Line breaks *)

\* Every CR LF, and then every CR, becomes a LF.
Lf(text) ==
    FlattenSeq([i \in DOMAIN text |->
        CASE text[i] = "cr" -> <<"lf">>
          [] text[i] = "lf" /\ i > 1 /\ text[i - 1] = "cr" -> <<>>
          [] OTHER -> <<text[i]>>])

\* The payload set_content stores: lines, each of which ends with a LF.
Lines(text) ==
    LET normal == Lf(text)
    IN  IF normal # <<>> /\ Last(normal) = "lf" THEN normal ELSE Append(normal, "lf")

\* The form of a text part that is not base64 on the wire and on the server.
Crlf(text) ==
    FlattenSeq([i \in DOMAIN text |->
        IF text[i] = "lf" THEN <<"cr", "lf">> ELSE <<text[i]>>])

-----------------------------------------------------------------------------
(* Cutting *)

\* The longest prefix of at most n bytes: bytes[:n].decode(errors="ignore").
Fitting(text, n) ==
    SubSeq(text, 1, Max({i \in 0..Len(text) : Size(SubSeq(text, 1, i)) <= n}))

\* bytes[:n].decode(errors="replace")
Cut(text, n) ==
    LET whole == Fitting(text, n)
    IN  IF whole # text /\ Size(whole) < n THEN Append(whole, "?") ELSE whole

\* A text without the trace of a character cut in half.
Whole(text) == IF text # <<>> /\ Last(text) = "?" THEN Front(text) ELSE text

-----------------------------------------------------------------------------
(* _bounded_text: the bodies of a message in at most max bytes *)

\* The bodies as they are, one per line.
Joined(bodies) ==
    FlattenSeq([i \in DOMAIN bodies |-> (IF i = 1 THEN <<>> ELSE <<"lf">>) \o bodies[i]])

NothingRead(max) == [left |-> max, text |-> <<>>, truncated |-> FALSE]

\* One round of the loop, for the body with index i; no round after left is 0.
ReadBody(bodies, read, i) ==
    LET separator == IF i = 1 THEN <<>> ELSE <<"lf">>
        body == bodies[i]
        room == read.left - Size(separator)
        left == IF Size(body) > room THEN 0 ELSE room - Size(body)
    IN  IF read.left = 0 THEN read
        ELSE [left |-> left,
              text |-> read.text \o separator \o Cut(body, room),
              truncated |-> \/ read.truncated
                            \/ Size(body) > room
                            \/ left = 0 /\ i < Len(bodies)]

ReadBodies(bodies, max) ==
    FoldLeft(LAMBDA read, i : ReadBody(bodies, read, i), NothingRead(max),
             [i \in DOMAIN bodies |-> i])

\* Mutant of BoundedText: without the last check, when a character was cut.
BoundedOnce(bodies, max) ==
    LET read == ReadBodies(bodies, max)
    IN  [text |-> read.text, truncated |-> read.truncated]

\* The replacement character may be larger than what it replaces.
BoundedText(bodies, max) ==
    LET read == ReadBodies(bodies, max)
    IN  [text |-> Fitting(read.text, max),
         truncated |-> read.truncated \/ Size(read.text) > max]
=============================================================================
