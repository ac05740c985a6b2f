------------------------------ MODULE SignalFanout ------------------------------
(***************************************************************************)
(* What EventDispatcher promises, without its list, its copies and its     *)
(* threads: a signal is owed to the consumers that are registered when it  *)
(* is dispatched, to no other, and is delivered to each of them once.      *)
(***************************************************************************)
EXTENDS Naturals

CONSTANT Empty      \* tokens of consumers registered with an empty function

VARIABLES
    members,        \* the tokens of the registered consumers
    tokens,         \* how many tokens have been given out
    signals,        \* how many signals have been dispatched
    owed,           \* pairs <<signal, token>> still to be served
    heard           \* pairs <<signal, token>> for which the consumer was called

vars == <<members, tokens, signals, owed, heard>>

Init ==
    /\ members = {}
    /\ tokens = 0
    /\ signals = 0
    /\ owed = {}
    /\ heard = {}

\* A token is never given out twice.
Register ==
    /\ tokens' = tokens + 1
    /\ members' = members \cup {tokens'}
    /\ UNCHANGED <<signals, owed, heard>>

Leave ==
    /\ \E k \in members : members' = members \ {k}
    /\ UNCHANGED <<tokens, signals, owed, heard>>

LeaveAll ==
    /\ members' = {}
    /\ UNCHANGED <<tokens, signals, owed, heard>>

Publish ==
    /\ signals' = signals + 1
    /\ owed' = owed \cup {<<signals', k>> : k \in members}
    /\ UNCHANGED <<members, tokens, heard>>

Serve ==
    /\ \E p \in owed :
          /\ p \notin heard
          /\ owed' = owed \ {p}
          /\ heard' = IF p[2] \in Empty THEN heard ELSE heard \cup {p}
    /\ UNCHANGED <<members, tokens, signals>>

Next == Register \/ Leave \/ LeaveAll \/ Publish \/ Serve

Spec == Init /\ [][Next]_vars
=============================================================================
