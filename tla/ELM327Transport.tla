---------------------------- MODULE ELM327Transport ----------------------------
(***************************************************************************)
(* The parsers of ELM327Transport (src/boundary/ELM327Transport.cpp), on   *)
(* the text of one notification.  Text is upper case, as adapters print    *)
(* it.  An answer is a sequence of bytes; <<>> stands for nullopt.         *)
(***************************************************************************)
EXTENDS Integers, Sequences

LOCAL Seqs == INSTANCE SequencesExt
LOCAL Sets == INSTANCE FiniteSetsExt

Chars(text) == [i \in 1..Len(text) |-> SubSeq(text, i, i)]
Hex == Chars("0123456789ABCDEF")
IsHexDigit(c) == \E i \in DOMAIN Hex : Hex[i] = c
HexValue(digits) ==
    Seqs!FoldLeft(LAMBDA v, c : 16 * v + (CHOOSE i \in DOMAIN Hex : Hex[i] = c) - 1, 0, digits)

\* Where a word begins in a text, and the text from position i on.
Finds(text, word) ==
    {i \in 1..(Len(text) - Len(word) + 1) : SubSeq(text, i, i + Len(word) - 1) = word}
From(text, i) == SubSeq(text, i, Len(text))

ErrorMessages == {"NO DATA", "ERROR", "STOPPED", "UNABLE TO CONNECT", "BUFFER FULL"}
InfoMessages == <<"SEARCHING", "BUSINIT", "OK">>     \* in one of the possible orders
IsErrorMessage(text) == \E word \in ErrorMessages : Finds(text, word) # {}

ExtractPrompt(text) ==
    IF Finds(text, ">") = {} THEN text ELSE SubSeq(text, 1, Sets!Min(Finds(text, ">")) - 1)

(* What follows an informational word and its punctuation.  The words are  *)
(* tried one by one, in the order of an unordered_set, each where it is    *)
(* found first; a word counts when it begins before the place that the     *)
(* ones before it have led to.                                             *)
AfterInfo(text) ==
    LET blank == {".", ":", " ", "\r", "\n"}
        Skip(i) == Sets!Min({j \in i..(Len(text) + 1) :
                             j > Len(text) \/ SubSeq(text, j, j) \notin blank})
        Try(start, w) ==
            IF Finds(text, w) # {} /\ (start = 0 \/ Sets!Min(Finds(text, w)) < start)
            THEN Skip(Sets!Min(Finds(text, w)) + Len(w)) ELSE start
        start == Seqs!FoldLeft(Try, 0, InfoMessages)
    IN IF start = 0 THEN text ELSE From(text, start)

(* Digits accumulate; any other character takes the complete pairs as      *)
(* bytes, and keeps an odd digit for what follows; ':' drops the digits.   *)
Flush(a) ==
    LET pairs == Len(a.digits) \div 2 IN
    [bytes |-> a.bytes \o [i \in 1..pairs |-> HexValue(SubSeq(a.digits, 2 * i - 1, 2 * i))],
     digits |-> SubSeq(a.digits, 2 * pairs + 1, Len(a.digits))]
TakeChar(a, c) ==
    IF IsHexDigit(c) THEN [a EXCEPT !.digits = Append(@, c)]
    ELSE IF c = ":" THEN [a EXCEPT !.digits = <<>>]
    ELSE Flush(a)

ParseOBD2Response(text) ==
    LET cleaned == AfterInfo(ExtractPrompt(text))
        read == Flush(Seqs!FoldLeft(TakeChar, [bytes |-> <<>>, digits |-> <<>>], Chars(cleaned)))
    IN IF IsErrorMessage(cleaned) \/ read.digits # <<>> THEN <<>> ELSE read.bytes

\* The maximal runs of hex digits of a line.
Tokens(text) ==
    LET Take(a, c) ==
            IF IsHexDigit(c)
            THEN [open |-> TRUE,
                  all |-> IF a.open THEN [a.all EXCEPT ![Len(a.all)] = Append(@, c)]
                                    ELSE Append(a.all, <<c>>)]
            ELSE [a EXCEPT !.open = FALSE]
    IN Seqs!FoldLeft(Take, [open |-> FALSE, all |-> <<>>], Chars(text)).all

\* Faulty variant: the number of data bytes is not checked.
AnyLengthCANFrame(text) ==
    LET tokens == Tokens(text)
    IN IF Len(tokens) < 3 \/ Finds(text, ":") # {} THEN <<>>
       ELSE LET id == HexValue(tokens[1]) % 65536
            IN <<id % 256, id \div 256>> \o
               [i \in 1..8 |-> HexValue(tokens[Sets!Min({i + 1, Len(tokens)})]) % 256]

(* An identifier and eight data bytes, after a type prefix 600..6FF or     *)
(* not.  The identifier is cut to 16 bits, low byte first, as              *)
(* invokeDataCallback lays the frame out.  The messages that the code      *)
(* compares the line with have too few tokens to pass anyway.              *)
ParseCANFrame(text) ==
    LET tokens == Tokens(text)
        start == IF Len(tokens) = 10 THEN 2 ELSE 1
        id == HexValue(tokens[start]) % 65536
        data == SubSeq(tokens, start + 1, Len(tokens))
    IN IF /\ Finds(text, ":") = {}
          /\ Len(tokens) \in {9, 10}
          /\ Len(tokens) = 10 => HexValue(tokens[1]) \in 1536..1791
          /\ \A i \in DOMAIN data : Len(data[i]) = 2
       THEN <<id % 256, id \div 256>> \o [i \in 1..8 |-> HexValue(data[i])]
       ELSE <<>>
=============================================================================
