------------------------------ MODULE Terminal ------------------------------
(***************************************************************************)
(* What becomes of a text on its way to a client: ClientSocket parses the  *)
(* colours and breaks the lines, Player::Prompt fills in the prompt, lists *)
(* are set in columns, and the config command changes how.  formatWidth()  *)
(* is a loop over the text with two counters, one action per turn.         *)
(*                                                                         *)
(* A text is a sequence of characters.  A letter stands for any that is    *)
(* printed, a whole ANSI sequence is the one character Esc, END is Eol.    *)
(* What happens to the text in the buffer is in ClientSocket.              *)
(***************************************************************************)
EXTENDS Vectors, SequencesExt

CONSTANTS
    Esc, Eol, Space,
    Char,          \* the characters there are, those three among them
    Texts,         \* what commands write
    Lists,         \* what they write in columns
    Prompts,       \* what a player may have made his prompt
    Expansion,     \* what a character after % in a prompt stands for
    FormattingSpace,
    DefaultWidth, Widths, Floor

ASSUME TerminalAssumption ==
    /\ DefaultWidth \in Nat \ {0} /\ Widths \subseteq Nat \ {0}
    /\ FormattingSpace \in Nat \ {0} /\ Floor \in Nat
    /\ {Esc, Eol, Space} \subseteq Char
    /\ Eol # Space /\ Esc # Space /\ Esc # Eol
    /\ Texts \subseteq Seq(Char) /\ Prompts \subseteq Seq(Char) /\ Lists \subseteq Seq(Seq(Char))
    /\ \A c \in DOMAIN Expansion : Expansion[c] \in Seq(Char)

VARIABLES
    blind,     \* ClientSocket::mColorblind
    width,     \* Connection::mResolutionX
    pc,        \* "idle", "formatting", "sent", or "lost" in a loop without end
    said,      \* history: the text as it was given to Write
    text,      \* the text with its colours parsed
    idx, count, start, out,   \* of formatWidth(), counted from one but for count
    listed     \* history: the list that is sent, in a sequence of at most one

vars == <<blind, width, pc, said, text, idx, count, start, out, listed>>

Init ==
    /\ blind = FALSE /\ width = DefaultWidth
    /\ pc = "idle"
    /\ said = <<>> /\ text = <<>> /\ out = <<>>
    /\ idx = 1 /\ count = 0 /\ start = 1
    /\ listed = <<>>

-----------------------------------------------------------------------------
(* Colours *)

CharAt(t, i) == IF i \in DOMAIN t THEN t[i] ELSE ""
Attributes == {"0", "n", "b", "d", "u", "f"}
Resets == {"s", "v", "x"}

\* mistaken: the client's eyes are asked first
TokenBlindFirst(t, i, colorblind) ==
    IF colorblind THEN [text |-> <<>>, skip |-> 3]
    ELSE IF CharAt(t, i + 1) = "~" THEN [text |-> <<"~">>, skip |-> 1]
    ELSE [text |-> <<Esc>>, skip |-> 3]

\* what the token at i puts out, and how many characters it has besides the tilde
Token(t, i, colorblind) ==
    LET attribute == CharAt(t, i + 1)
        special == attribute = "r" /\ CharAt(t, i + 2) = "e" /\ CharAt(t, i + 3) \in Resets
    IN  IF attribute = "~" THEN [text |-> <<"~">>, skip |-> 1]
        ELSE IF ~colorblind /\ (attribute \in Attributes \/ special)
        THEN [text |-> <<Esc>>, skip |-> 3]
        ELSE [text |-> <<>>, skip |-> 3]

Parsed(t, colorblind) ==
    LET Step(sofar, i) ==
            IF sofar.skip > 0 THEN [sofar EXCEPT !.skip = @ - 1]
            ELSE IF t[i] # "~" THEN [sofar EXCEPT !.text = Append(@, t[i])]
            ELSE LET token == Token(t, i, colorblind)
                 IN  [text |-> sofar.text \o token.text, skip |-> token.skip]
    IN  FoldLeft(Step, [text |-> <<>>, skip |-> 0], [i \in DOMAIN t |-> i]).text

\* a text that is too short for a token is left as it is
ParseColor(t, colorblind) == IF Len(t) < 4 THEN t ELSE Parsed(t, colorblind)

-----------------------------------------------------------------------------
(* Texts.  Without a space they are not formatted. *)

Say(t) ==
    LET parsed == ParseColor(t, blind)
    IN  /\ pc = "idle"
        /\ said' = t /\ text' = parsed
        /\ IF Contains(parsed, Space)
           THEN pc' = "formatting" /\ UNCHANGED <<start, out>>
           ELSE pc' = "sent" /\ start' = Len(parsed) + 1 /\ out' = parsed
        /\ UNCHANGED <<blind, width, idx, count, listed>>

Write == pc = "idle" /\ \E t \in Texts : Say(t)

\* "%%" is a percent sign; the sign before an unknown letter is dropped, and
\* before any if the room of the player is not found
Expanded(p, found) ==
    LET Step(sofar, i) ==
            LET next == CharAt(p, i + 1)
            IN  IF sofar.skip THEN [sofar EXCEPT !.skip = FALSE]
                ELSE IF p[i] # "%" THEN [sofar EXCEPT !.text = Append(@, p[i])]
                ELSE IF next = "%" THEN [text |-> Append(sofar.text, "%"), skip |-> TRUE]
                ELSE IF found /\ next \in DOMAIN Expansion
                THEN [text |-> sofar.text \o Expansion[next], skip |-> TRUE]
                ELSE sofar
    IN  FoldLeft(Step, [text |-> <<>>, skip |-> FALSE], [i \in DOMAIN p |-> i]).text

Prompt == \E p \in Prompts, found \in BOOLEAN : Say(<<Eol>> \o Expanded(p, found))

\* mistaken: the count runs on over an end of line
NewlineCountsOn ==
    /\ text[idx] = Eol
    /\ count' = count + 1
    /\ UNCHANGED <<pc, start, out, listed>>

Newline ==
    /\ text[idx] = Eol
    /\ count' = 1
    /\ UNCHANGED <<pc, start, out, listed>>

\* mistaken: one character more fits
PastMargin == count > width
AtMargin == count = width

\* a sequence is one character wide, and the margin is not looked at
Color ==
    /\ text[idx] = Esc
    /\ count' = count + 1
    /\ UNCHANGED <<pc, start, out, listed>>

Character ==
    /\ text[idx] \notin {Eol, Esc} /\ ~AtMargin
    /\ count' = count + 1
    /\ UNCHANGED <<pc, start, out, listed>>

LastSpace(s) == text[s] = Space /\ \A j \in s + 1 .. idx : text[j] # Space

\* mistaken: the character after the space goes too
BreakTooFar ==
    /\ text[idx] \notin {Eol, Esc} /\ AtMargin
    /\ \E s \in start .. idx :
          /\ LastSpace(s)
          /\ out' = out \o SubSeq(text, start, s - 1) \o <<Eol>>
          /\ start' = s + 2 /\ idx' = s + 2
    /\ count' = 1
    /\ UNCHANGED <<pc, listed>>

Break ==
    /\ text[idx] \notin {Eol, Esc} /\ AtMargin
    /\ \E s \in start .. idx :
          /\ LastSpace(s)
          /\ out' = out \o SubSeq(text, start, s - 1) \o <<Eol>>
          /\ start' = s + 1 /\ idx' = s + 1
    /\ count' = 1
    /\ UNCHANGED <<pc, listed>>

\* there is no space in this line: what is before the text is read, or the
\* last break is found again, and again
WalksBackTooFar ==
    /\ text[idx] \notin {Eol, Esc} /\ AtMargin
    /\ \A s \in start .. idx : text[s] # Space
    /\ pc' = "lost"
    /\ UNCHANGED <<count, start, out, listed>>

Turn ==
    /\ pc = "formatting" /\ idx <= Len(text)
    /\ \/ Break
       \/ idx' = idx + 1 /\ (Newline \/ Color \/ Character)
       \/ idx' = idx /\ WalksBackTooFar
    /\ UNCHANGED <<blind, width, said, text>>

EndText ==
    /\ pc = "formatting" /\ idx > Len(text)
    /\ pc' = "sent"
    /\ out' = out \o SubSeq(text, start, Len(text)) /\ start' = Len(text) + 1
    /\ UNCHANGED <<blind, width, said, text, idx, count, listed>>

-----------------------------------------------------------------------------
(* Lists *)

\* a token is one wide
StringLength(t) ==
    FoldLeft(LAMBDA sofar, c : IF sofar.skip > 0 THEN [sofar EXCEPT !.skip = @ - 1]
                               ELSE [len |-> sofar.len + 1, skip |-> IF c = "~" THEN 3 ELSE 0],
             [len |-> 0, skip |-> 0], t).len

Padded(t, n) == IF Len(t) < n THEN t \o [i \in 1 .. n - Len(t) |-> Space] ELSE t

ColumnWidth(list) == Max({StringLength(list[i]) : i \in DOMAIN list} \cup {0}) + FormattingSpace
Columns(list, wide) == wide \div ColumnWidth(list)

\* with no column at all the line never ends
InColumns(list, wide) ==
    LET Ends(i) == Columns(list, wide) # 0 /\ i % Columns(list, wide) = 0
        Cell(i) == Padded(list[i], ColumnWidth(list)) \o IF Ends(i) THEN <<Eol>> ELSE <<>>
    IN  FoldLeft(LAMBDA sofar, i : sofar \o Cell(i), <<>>, [i \in DOMAIN list |-> i])

WriteList ==
    /\ pc = "idle" /\ pc' = "sent"
    /\ \E list \in Lists :
          /\ text' = InColumns(list, width) /\ said' = text' /\ out' = text' /\ start' = Len(text') + 1
          /\ listed' = <<list>>
    /\ UNCHANGED <<blind, width, idx, count>>

-----------------------------------------------------------------------------
(* Settings, and the end of Connection::Write *)

Flush ==
    /\ pc = "sent" /\ pc' = "idle"
    /\ said' = <<>> /\ text' = <<>> /\ out' = <<>> /\ idx' = 1 /\ count' = 0 /\ start' = 1
    /\ listed' = <<>>
    /\ UNCHANGED <<blind, width>>

ConfigColor ==
    /\ pc = "idle" /\ blind' = ~blind
    /\ UNCHANGED <<width, pc, said, text, idx, count, start, out, listed>>

ConfigResolution ==
    /\ pc = "idle" /\ width' \in {x \in Widths : x >= Floor}
    /\ UNCHANGED <<blind, pc, said, text, idx, count, start, out, listed>>

Next ==
    \/ Write \/ Prompt \/ WriteList
    \/ Turn \/ EndText \/ Flush
    \/ ConfigColor \/ ConfigResolution

\* the process thread stays in a call until it returns
Spec == Init /\ [][Next]_vars /\ WF_vars(Turn) /\ WF_vars(EndText) /\ WF_vars(Flush)

-----------------------------------------------------------------------------
(* What holds *)

\* Breaking lines loses nothing, repeats nothing and moves nothing: what is
\* put out is the text so far, with some of its spaces now ends of lines.
OnlySpacesBecomeEnds ==
    /\ Len(out) = start - 1 /\ start <= Len(text) + 1
    /\ \A i \in DOMAIN out : out[i] = text[i] \/ (text[i] = Space /\ out[i] = Eol)

\* in every stretch of a line's length there is a space or an end
WordsFit == \A i \in 1 .. Len(text) - width + 1 :
                \E j \in i .. i + width - 1 : text[j] \in {Space, Eol}

PlainText == WordsFit /\ Esc \notin Elements(text)
PlainList(list) == Columns(list, width) # 0 /\ \A i \in DOMAIN list : ~Contains(list[i], "~")

\* Without colours no line is wider than the client's screen, however the
\* breaks and the ends the text has itself fall together, if its words are not;
\* nor is a line of a list, if one column is not.
PlainLinesFit ==
    pc = "sent" /\ (listed = <<>> => PlainText) /\ (\A k \in DOMAIN listed : PlainList(listed[k])) =>
        \A i \in 1 .. Len(out) - width : \E j \in i .. i + width : out[j] = Eol

\* What formatWidth says of itself (client_socket.cpp:526-532): it "will skip
\* over and not count color sequences", and returns a string "not exceeding
\* clients specified width in printable characters".  The code counts a
\* sequence as one character and does not look at the margin there: behind one
\* that is just at the margin, the line goes on.
LinesFit ==
    pc = "sent" /\ listed = <<>> /\ WordsFit =>
        LET printed == Without(out, Esc)
        IN  \A i \in 1 .. Len(printed) - width : \E j \in i .. i + width : printed[j] = Eol

\* Clients that see colours and clients that do not read the same letters,
\* whatever tildes are in a text, if it brings no ANSI sequences of its own.
AllReadTheSame ==
    pc = "sent" /\ Esc \notin Elements(said) =>
        Without(ParseColor(said, FALSE), Esc) = ParseColor(said, TRUE)

\* A text is sent at last if its words fit the line: the walk back to a space
\* never goes behind the line's beginning, where it would go on for ever.
Sent == (pc = "formatting" /\ WordsFit) ~> pc = "sent"
=============================================================================
