-------------------------------- MODULE Mime --------------------------------
(***************************************************************************)
(* Mail on the wire (plugins/email/src/mime.rs): how a body and a header   *)
(* are written, and how a message is read back.  In between, a relay may   *)
(* strip white space from the end of any line.  A text is a sequence of    *)
(* bytes of few kinds: "D" prints and is a hex digit, "u" is outside ASCII *)
(* (in a header, a character of two bytes); CR LF is one symbol.  A        *)
(* message that is read is the list of its parts in document order.        *)
(***************************************************************************)
EXTENDS Naturals, Sequences, SequencesExt, FiniteSets

CONSTANTS
    Texts, Subjects, Trees,  \* what is written; the parts of what is read
    Plain,      \* longest line that travels as it is (78)
    Width,      \* columns of an encoded line before its soft break (75)
    Word,       \* source bytes of one encoded word (45)
    Fold,       \* columns of a header line (78)
    Limit,      \* longest token of a header (997)
    MaxDepth, MaxParts

VARIABLES text, subject, tree,  \* the message
          wire,                 \* body, encoding and subject as they travel
          read,                 \* what the reader makes of them
          stage                 \* "new", "sent", "relayed", "read" or "refused"
mimeVars == <<text, subject, tree, wire, read, stage>>

Break == "\r\n"
Escape == [b \in {"=", " ", "u"} |-> CASE b = "=" -> <<"=", "3", "D">>
                                       [] b = " " -> <<"=", "2", "0">>
                                       [] b = "u" -> <<"=", "C", "3">>]
Lines(s, nl) ==     \* split at nl, always one line at least
    FoldLeft(LAMBDA ls, b : IF b = nl THEN Append(ls, << >>)
                            ELSE [ls EXCEPT ![Len(ls)] = Append(@, b)], << << >> >>, s)
Joined(ls, sep) == FoldLeft(LAMBDA s, l : s \o sep \o l, Head(ls), Tail(ls))
Ends(line, b) == line # << >> /\ Last(line) = b

(* is_seven_bit, crlf *)
IsSevenBit(t) == \A i \in DOMAIN Lines(t, "\n") :
    LET line == Lines(t, "\n")[i]
    IN  Len(line) <= Plain /\ ~Ends(line, " ") /\ ~Contains(line, "u")
Crlf(t) == Joined(Lines(t, "\n"), <<Break>>)

(* encode_line: what is escaped, and the soft break before what does not fit. *)
EscapedNotLast(line, i) == line[i] \in {"=", "u"}
Escaped(line, i) == line[i] \in {"=", "u"} \/ (line[i] = " " /\ i = Len(line))
EncodeLine(line) ==
    FoldLeft(LAMBDA acc, i :
                LET piece == IF Escaped(line, i) THEN Escape[line[i]] ELSE <<line[i]>>
                IN  IF acc.column + Len(piece) > Width
                    THEN [out |-> acc.out \o <<"=", Break>> \o piece, column |-> Len(piece)]
                    ELSE [out |-> acc.out \o piece, column |-> acc.column + Len(piece)],
             [out |-> << >>, column |-> 0], [i \in DOMAIN line |-> i]).out
QuotedPrintable(t) ==
    Joined([i \in DOMAIN Lines(t, "\n") |-> EncodeLine(Lines(t, "\n")[i])], <<Break>>)
Terminated(b) == IF Ends(b, Break) THEN b ELSE Append(b, Break)
Body(t) == Terminated(IF IsSevenBit(t) THEN Crlf(t) ELSE QuotedPrintable(t))

(* decode_quoted_printable *)
Unescape(pair) == CASE pair = <<"3", "D">> -> "=" [] pair = <<"2", "0">> -> " "
                    [] pair = <<"C", "3">> -> "u" [] OTHER -> "?"
DecodeQuotedPrintable(s) ==
    FoldLeft(LAMBDA acc, i :
                IF i < acc.next THEN acc
                ELSE IF s[i] # "=" THEN [acc EXCEPT !.out = Append(@, s[i])]
                ELSE IF i < Len(s) /\ s[i + 1] = Break THEN [acc EXCEPT !.next = i + 2]
                ELSE IF i + 1 < Len(s)
                THEN [out |-> Append(acc.out, Unescape(SubSeq(s, i + 1, i + 2))), next |-> i + 3]
                ELSE [acc EXCEPT !.out = Append(@, "=")],
             [out |-> << >>, next |-> 1], [i \in DOMAIN s |-> i]).out

(* encode_header: encoded words of whole characters, joined by spaces.        *)
Bytes(c) == IF c = "u" THEN 2 ELSE 1
Size(s) == FoldLeft(LAMBDA n, c : n + Bytes(c), 0, s)
EncodeWord(chunk) == <<"=?">> \o chunk \o <<"?=">>
EncodeHeader(v) ==
    LET value == SelectSeq(v, LAMBDA c : c # "\n")
        done == FoldLeft(LAMBDA acc, c :
                    IF Size(acc.chunk) + Bytes(c) > Word
                    THEN [words |-> Append(acc.words, EncodeWord(acc.chunk)), chunk |-> <<c>>]
                    ELSE [acc EXCEPT !.chunk = Append(@, c)],
                 [words |-> << >>, chunk |-> << >>], value)
    IN  IF ~Contains(value, "u") THEN value
        ELSE Joined(Append(done.words, EncodeWord(done.chunk)), <<" ">>)

(* fold, at spaces; parse_headers unfolds a line after its leading space.     *)
RECURSIVE Trim(_)
Trim(v) == IF v = << >> THEN v
           ELSE IF Head(v) = " " THEN Trim(Tail(v))
           ELSE IF Last(v) = " " THEN Trim(Front(v)) ELSE v
FoldHeader(v) ==
    FoldLeft(LAMBDA acc, token :
                IF acc.column + 1 + Len(token) > Fold /\ acc.column > 0
                THEN [out |-> acc.out \o <<Break, " ">> \o token, column |-> 1 + Len(token)]
                ELSE [out |-> acc.out \o <<" ">> \o token, column |-> acc.column + 1 + Len(token)],
             [out |-> << >>, column |-> 0], Lines(Trim(v), " ")).out
TooLong(v) == \E i \in DOMAIN Lines(Trim(v), " ") : Len(Lines(Trim(v), " ")[i]) > Limit
ParseHeaders(h) ==
    LET ls == Lines(h, Break)
    IN  Joined([i \in DOMAIN ls |-> Trim(ls[i])], <<" ">>)

(* decode_words: white space between two encoded words is not text.           *)
DecodeWords(v) ==
    LET done == FoldLeft(LAMBDA acc, c :
            CASE c = "=?" -> [acc EXCEPT !.word = TRUE, !.gap = << >>,
                                         !.out = IF acc.after THEN @ ELSE @ \o acc.gap]
              [] c = "?=" -> [acc EXCEPT !.word = FALSE, !.after = TRUE]
              [] c = " " /\ ~acc.word -> [acc EXCEPT !.gap = Append(@, c)]
              [] OTHER -> [acc EXCEPT !.out = IF acc.word THEN Append(@, c) ELSE Append(@ \o acc.gap, c),
                                      !.gap = << >>, !.after = acc.after /\ acc.word],
          [out |-> << >>, gap |-> << >>, word |-> FALSE, after |-> FALSE], v)
    IN  done.out \o done.gap

(* walk, over the parts [kind, depth, text] in document order: the text, and  *)
(* the attachments.                                                           *)
Visit(acc, part) ==
    IF part.depth > MaxDepth \/ acc.budget = 0 THEN acc
    ELSE LET a == [acc EXCEPT !.budget = @ - 1]
         IN  CASE part.kind = "multipart" -> a
               [] part.kind = "file" -> [a EXCEPT !.files = @ + 1]
               [] part.kind = "html" -> IF a.text # << >> THEN a
                                        ELSE [a EXCEPT !.text = part.text, !.html = TRUE]
               [] part.kind = "plain" -> IF a.text # << >> /\ ~a.html THEN a
                                         ELSE [a EXCEPT !.text = part.text, !.html = FALSE]
Walk(parts) == FoldLeft(Visit, [budget |-> MaxParts, text |-> << >>, html |-> FALSE, files |-> 0], parts)

------------------------------------------------------------------------------
Nothing == [text |-> << >>, subject |-> << >>, parts |-> Walk(<< >>)]
Init ==
    /\ stage = "new" /\ read = Nothing
    /\ wire = [seven |-> TRUE, body |-> << >>, subject |-> << >>]
    /\ \/ text \in Texts /\ subject = << >> /\ tree = << >>
       \/ text = << >> /\ subject \in Subjects /\ tree = << >>
       \/ text = << >> /\ subject = << >> /\ tree \in Trees

(* write *)
Write ==
    /\ stage = "new" /\ ~TooLong(EncodeHeader(subject)) /\ stage' = "sent"
    /\ wire' = [seven |-> IsSevenBit(text), body |-> Body(text), subject |-> FoldHeader(EncodeHeader(subject))]
    /\ UNCHANGED <<text, subject, tree, read>>

WriteError ==
    /\ stage = "new" /\ TooLong(EncodeHeader(subject)) /\ stage' = "refused"
    /\ UNCHANGED <<text, subject, tree, wire, read>>

(* A relay strips the white space at the end of a line.                       *)
Stripped(s) ==
    LET strip(line) == IF Ends(line, " ") THEN Front(line) ELSE line
    IN  Joined([i \in DOMAIN Lines(s, Break) |-> strip(Lines(s, Break)[i])], <<Break>>)
Relay ==
    /\ stage = "sent" /\ stage' = "relayed"
    /\ wire' = [wire EXCEPT !.body = Stripped(@)]
    /\ UNCHANGED <<text, subject, tree, read>>

(* parse *)
Parse ==
    /\ stage \in {"sent", "relayed"} /\ stage' = "read"
    /\ read' = [text |-> IF wire.seven THEN wire.body ELSE DecodeQuotedPrintable(wire.body),
                subject |-> DecodeWords(ParseHeaders(wire.subject)), parts |-> Walk(tree)]
    /\ UNCHANGED <<text, subject, tree, wire>>

Next == Write \/ WriteError \/ Relay \/ Parse
Spec == Init /\ [][Next]_mimeVars

------------------------------------------------------------------------------
(* What is written is what is read, whatever a relay strips: the body with    *)
(* its line ends normalised and closed, the subject up to runs of spaces.  No *)
(* line exceeds its limit.  Of the parts visited, the first plain one with a  *)
(* text is the message, wherever the HTML is.                                 *)
Squeezed(s) == FoldLeft(LAMBDA t, c : IF c = " " /\ (t = << >> \/ Ends(t, " ")) THEN t ELSE Append(t, c),
                        << >>, s)
Visited == SelectSeq([i \in DOMAIN tree |-> [part |-> tree[i], at |-> i]],
             LAMBDA p : p.part.depth <= MaxDepth
                        /\ Cardinality({j \in 1..p.at : tree[j].depth <= MaxDepth}) <= MaxParts)
ReadAsWritten ==
    /\ stage \notin {"new", "refused"} => \A i \in DOMAIN Lines(wire.body, Break) :
         Len(Lines(wire.body, Break)[i]) <= IF wire.seven THEN Plain ELSE Width + 1
    /\ stage = "read" =>
         /\ read.text = Terminated(Crlf(text))
         /\ Trim(Squeezed(read.subject)) = Trim(Squeezed(SelectSeq(subject, LAMBDA c : c # "\n")))
         /\ LET texts == SelectSeq(Visited, LAMBDA p : p.part.kind = "plain" /\ p.part.text # << >>)
            IN  texts # << >> => read.parts.text = texts[1].part.text
==============================================================================
