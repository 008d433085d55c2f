----------------------------- MODULE MCMessages -----------------------------
(* Messages on a small instance.  Who is written what: two names, one of     *)
(* them what coins are called, a room with a coin and one without, and a way *)
(* to and fro.  What a text becomes: texts of up to five pieces.  Who hears  *)
(* does not depend on how the text is set, nor the other way round, so the   *)
(* initial state chooses which is watched, and the other part rests: the run *)
(* has the states of both, not the product.                                  *)
EXTENDS Talk, Terminal, TLC

CONSTANTS ann, coin, hall, yard, coins

MCExits == {<<hall, yard>>, <<yard, hall>>}
MCThingName == [t \in Things |-> coin]
MCLying == [r \in Rooms |-> IF r = hall THEN <<coins>> ELSE <<>>]

Bold == <<"~", "b", "0", "0">>
Reset == <<"~", "r", "e", "s">>
Pieces == {<<"x">>, <<" ">>, <<Eol>>, <<"~">>, Bold, Reset}

MCChar == {"x", " ", "~", "b", "0", "r", "e", "s", "n", "t", "q", "%", Esc, Eol}
MCTexts == {FlattenSeq(pieces) : pieces \in SeqOf(Pieces, 5)}
MCLists == {<<<<"x">>, <<"x">>, <<"x">>>>, <<<<"x", "x">>, <<"x">>, Bold>>,
            <<<<"x">>, <<"x", "x", "x", "x">>>>}
MCPrompts == {<<"%", "r", "%", "%", "%", "t", "%", "n", "x", "%">>, <<"%", "n", "%", "q", " ", "%", "t">>}
MCExpansion == [c \in {"n", "r", "t"} |->
                   CASE c = "n" -> <<Eol>> [] c = "r" -> <<"x", " ", "x">>
                     [] c = "t" -> Bold \o <<"x">> \o Reset]

VARIABLE watched
messages == <<talkVars, vars, watched>>

Talking == watched = "talk" /\ TalkNext /\ UNCHANGED <<vars, watched>>
Texting == watched = "texts" /\ Next /\ UNCHANGED <<talkVars, watched>>
OfTexts(A) == watched = "texts" /\ A /\ UNCHANGED <<talkVars, watched>>

MessagesInit == TalkInit /\ Init /\ watched \in {"talk", "texts"}

MessagesSpec ==
    /\ MessagesInit
    /\ [][Talking \/ Texting]_messages
    /\ WF_messages(OfTexts(Turn)) /\ WF_messages(OfTexts(EndText)) /\ WF_messages(OfTexts(Flush))
=============================================================================
