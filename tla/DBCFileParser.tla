----------------------------- MODULE DBCFileParser -----------------------------
(***************************************************************************)
(* DBCFileParser (src/domain/DBCFileParser.cpp).  A line is a record: its  *)
(* kind ("BO", "SG", "VAL" or "other"), and what the text of the line      *)
(* gives.  A signal line is well formed, malformed (a delimiter or number  *)
(* is missing, so that it is skipped), or has a scale that std::stod does  *)
(* not take, so that an exception ends the parsing with an empty result.   *)
(***************************************************************************)
LOCAL INSTANCE Integers
LOCAL INSTANCE Sequences
LOCAL INSTANCE SequencesExt
LOCAL INSTANCE FiniteSetsExt
LOCAL INSTANCE Functions

NoSignals == <<>>         \* an empty signalsByCanId

(* An identifier that 16 bits cannot hold leaves the current message as it *)
(* is: the signals that follow go to the message before.                   *)
ParseMessage(p, line) == IF line.id \in 0..65535 THEN [p EXCEPT !.canId = line.id] ELSE p

ParseSignal(p, line) ==
    IF p.canId = 0 \/ line.form = "malformed" THEN p
    ELSE IF line.form = "throws" THEN [p EXCEPT !.failed = TRUE]
    ELSE [p EXCEPT !.signals = Append(@, [canId |-> p.canId, definition |-> line.definition])]

ParseValues(p, line) ==
    IF line.id \in 0..65535 /\ line.values # <<>>
    THEN [p EXCEPT !.valueTables = Append(@, line)] ELSE p

ParseLine(p, line) ==
    CASE p.failed -> p
      [] ~p.failed /\ line.kind = "BO" -> ParseMessage(p, line)
      [] ~p.failed /\ line.kind = "SG" -> ParseSignal(p, line)
      [] ~p.failed /\ line.kind = "VAL" -> ParseValues(p, line)
      [] OTHER -> p

\* A value table goes to the first signal of that name in that message; the last table counts.
ApplyValues(signals, table) ==
    LET of == {i \in DOMAIN signals : /\ signals[i].canId = table.id
                                      /\ signals[i].definition.name = table.name}
    IN IF of = {} THEN signals
       ELSE [signals EXCEPT ![Min(of)].definition.valueTable = table.values]

BuildResult(signals, valueTables) ==
    LET all == FoldLeft(ApplyValues, signals, valueTables)
        OfMessage(id) == SelectSeq(all, LAMBDA s : s.canId = id)
    IN [id \in {all[i].canId : i \in DOMAIN all} |->
           [i \in DOMAIN OfMessage(id) |-> OfMessage(id)[i].definition]]

ParseString(content) ==
    LET p == FoldLeft(ParseLine, [canId |-> 0, signals |-> <<>>, valueTables |-> <<>>,
                                  failed |-> FALSE], content)
    IN IF p.failed THEN NoSignals ELSE BuildResult(p.signals, p.valueTables)

\* A file that cannot be opened gives an empty result.
ParseFile(readable, content) == IF readable THEN ParseString(content) ELSE NoSignals
=============================================================================
