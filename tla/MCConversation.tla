---------------------------- MODULE MCConversation ----------------------------
(***************************************************************************)
(* An instance of Conversation: every provider and two functions; system   *)
(* and user messages as strings and as arrays, with images; and a stream   *)
(* of two pieces of text and three tool calls, so that calls interleave    *)
(* and blocks of text lie in between.                                      *)
(***************************************************************************)
EXTENDS Conversation

MCCalled == [i \in Indices |-> IF i = 1 THEN "g" ELSE "f"]

Word(n) == TextOf(<<0, 0, n>>)
Inline  == [type |-> "inline", what |-> <<0, 0, 8>>]
Remote  == [type |-> "remote", what |-> <<0, 0, 9>>]

Plainly == <<Message("system", FALSE, <<Word(1)>>), Message("system", FALSE, <<Word(2)>>),
             Message("user", FALSE, <<Word(3)>>)>>
InParts == <<Message("system", TRUE, <<Word(1)>>),
             Message("user", TRUE, <<Word(2), Remote, Inline, Word(3)>>)>>

Opening(ms, tools, choice, stream) ==
  [messages |-> ms, tools |-> tools, choice |-> choice, stream |-> stream]

MCChats ==
  {Opening(Plainly, TRUE, choice, FALSE) : choice \in {"auto", "none", "required"}}
    \cup {Opening(InParts, FALSE, "auto", FALSE), Opening(Plainly, TRUE, "auto", TRUE)}

\* A system prompt given as an array of parts.
ArrayChats == {Opening(InParts, TRUE, "auto", FALSE)}
=============================================================================
