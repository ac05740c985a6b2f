---------------------------- MODULE EventDispatcher ----------------------------
(***************************************************************************)
(* EventDispatcher (src/domain/EventDispatcher.cpp): threads that register *)
(* and unregister consumers, clear the list and dispatch signals.  What is *)
(* done under consumersMutex_ is one step.  dispatch copies the callbacks  *)
(* of the active consumers under the mutex and calls them without it, one  *)
(* after the other: meanwhile anything may happen to the list, and the     *)
(* callback may itself call the dispatcher.  Here the copy keeps the       *)
(* inactive entries, flags included, and the loop passes over them.        *)
(***************************************************************************)
EXTENDS Naturals, Sequences

CONSTANTS
    Threads,
    Empty,          \* tokens of consumers registered with an empty function
    MaxTokens,      \* bound on the registrations
    MaxSignals,     \* bound on the signals dispatched
    MaxDepth        \* bound on the dispatches nested in callbacks

ASSUME DispatcherAssumption ==
    /\ Empty \subseteq Nat
    /\ MaxTokens \in Nat
    /\ MaxSignals \in Nat
    /\ MaxDepth \in Nat

VARIABLES
    consumers,      \* consumers_: the token and the flag of each
    nextToken,      \* nextToken_
    calls,          \* each thread's dispatches, the innermost last
    signals,        \* signals dispatched so far
    heard           \* <<signal, token>> of the callbacks made

vars == <<consumers, nextToken, calls, signals, heard>>

Consumer == [token : Nat, active : BOOLEAN]

\* A dispatch: its signal, the copied entries not passed yet, and whether a callback is running.
Frame == [signal : Nat, rest : Seq(Consumer), inside : BOOLEAN]

Init ==
    /\ consumers = <<>>
    /\ nextToken = 1
    /\ calls = [t \in Threads |-> <<>>]
    /\ signals = 0
    /\ heard = {}

Top(t) == calls[t][Len(calls[t])]

\* A thread calls the dispatcher from its own code or from a consumer's.
MayCall(t) == calls[t] # <<>> => Top(t).inside

\* Faulty variant: the counter is not advanced.
TokenTwice(t) ==
    /\ MayCall(t)
    /\ nextToken <= MaxTokens
    /\ consumers' = Append(consumers, [token |-> nextToken, active |-> TRUE])
    /\ UNCHANGED <<nextToken, calls, signals, heard>>

RegisterConsumer(t) ==
    /\ MayCall(t)
    /\ nextToken <= MaxTokens
    /\ consumers' = Append(consumers, [token |-> nextToken, active |-> TRUE])
    /\ nextToken' = nextToken + 1
    /\ UNCHANGED <<calls, signals, heard>>

\* Tokens are unique, so the first match is the only one; its entry stays in the list.
UnregisterConsumer(t, k) ==
    /\ MayCall(t)
    /\ consumers' = [i \in DOMAIN consumers |->
                        IF consumers[i].token = k
                        THEN [token |-> k, active |-> FALSE]
                        ELSE consumers[i]]
    /\ UNCHANGED <<nextToken, calls, signals, heard>>

Clear(t) ==
    /\ MayCall(t)
    /\ consumers' = <<>>
    /\ UNCHANGED <<nextToken, calls, signals, heard>>

Dispatch(t) ==
    /\ MayCall(t)
    /\ signals < MaxSignals
    /\ Len(calls[t]) < MaxDepth
    /\ signals' = signals + 1
    /\ calls' = [calls EXCEPT ![t] =
                    Append(@, [signal |-> signals', rest |-> consumers, inside |-> FALSE])]
    /\ UNCHANGED <<consumers, nextToken, heard>>

\* Is the innermost dispatch of t between two callbacks?
Between(t) == calls[t] # <<>> /\ ~Top(t).inside

\* Faulty variant: the flag is not looked at.
CallsAnyway(c) == c.token \notin Empty

\* Is the entry called?  One that was inactive in the copy is not, nor is an empty function.
Calls(c) == c.active /\ c.token \notin Empty

\* Faulty variant: the loop does not get past an empty function.
StayAtEmpty(t) ==
    /\ Between(t)
    /\ Top(t).rest # <<>>
    /\ LET c == Head(Top(t).rest) IN
         /\ heard' = IF Calls(c) THEN heard \cup {<<Top(t).signal, c.token>>} ELSE heard
         /\ calls' = [calls EXCEPT ![t][Len(calls[t])] =
                         [signal |-> @.signal,
                          rest |-> IF c.token \in Empty THEN @.rest ELSE Tail(@.rest),
                          inside |-> Calls(c)]]
    /\ UNCHANGED <<consumers, nextToken, signals>>

CallConsumer(t) ==
    /\ Between(t)
    /\ Top(t).rest # <<>>
    /\ LET c == Head(Top(t).rest) IN
         /\ heard' = IF Calls(c) THEN heard \cup {<<Top(t).signal, c.token>>} ELSE heard
         /\ calls' = [calls EXCEPT ![t][Len(calls[t])] =
                         [signal |-> @.signal, rest |-> Tail(@.rest), inside |-> Calls(c)]]
    /\ UNCHANGED <<consumers, nextToken, signals>>

ConsumerReturns(t) ==
    /\ calls[t] # <<>> /\ Top(t).inside
    /\ calls' = [calls EXCEPT ![t][Len(calls[t])] =
                    [signal |-> @.signal, rest |-> @.rest, inside |-> FALSE]]
    /\ UNCHANGED <<consumers, nextToken, signals, heard>>

DispatchReturns(t) ==
    /\ Between(t)
    /\ Top(t).rest = <<>>
    /\ calls' = [calls EXCEPT ![t] = SubSeq(@, 1, Len(@) - 1)]
    /\ UNCHANGED <<consumers, nextToken, signals, heard>>

DispatchGoesOn(t) == CallConsumer(t) \/ ConsumerReturns(t) \/ DispatchReturns(t)

Next ==
    \E t \in Threads :
        \/ RegisterConsumer(t)
        \/ \E k \in 0..nextToken : UnregisterConsumer(t, k)
        \/ Clear(t)
        \/ Dispatch(t)
        \/ DispatchGoesOn(t)

\* A thread that dispatches is not suspended for good, and consumers return.
Fairness == \A t \in Threads : WF_vars(DispatchGoesOn(t))

Spec == Init /\ [][Next]_vars /\ Fairness

-----------------------------------------------------------------------------
(* Properties.                                                             *)

\* Types; a token names at most one entry and is below nextToken_, and every
\* dispatch but the innermost of a thread is inside a consumer's callback.
TypeOK ==
    /\ consumers \in Seq(Consumer)
    /\ nextToken \in Nat \ {0}
    /\ calls \in [Threads -> Seq(Frame)]
    /\ signals \in Nat
    /\ heard \subseteq Nat \X Nat
    /\ \A i, j \in DOMAIN consumers :
          /\ consumers[i].token \in 1..(nextToken - 1)
          /\ i # j => consumers[i].token # consumers[j].token

Members == {consumers[i].token : i \in {j \in DOMAIN consumers : consumers[j].active}}

\* What the dispatches in progress still have to call.
Owes(f, p) == f.signal = p[1] /\ \E j \in DOMAIN f.rest : f.rest[j].active /\ f.rest[j].token = p[2]

Owed == {p \in (1..signals) \X (1..(nextToken - 1)) :
            \E t \in Threads : \E i \in DOMAIN calls[t] : Owes(calls[t][i], p)}

Fanout == INSTANCE SignalFanout
            WITH members <- Members, tokens <- nextToken - 1, owed <- Owed

\* Whatever the threads and the callbacks do meanwhile, a signal reaches the
\* consumers that were registered when it was dispatched, each of them once, and
\* nobody else: EventDispatcher.h says "Multiple consumer support (one-to-many)".
FansOut == Fanout!Spec

\* Every dispatch calls all it copied and returns, also when its consumers
\* unregister each other, clear the list or dispatch in turn.
DispatchEnds == \A t \in Threads : calls[t] # <<>> ~> calls[t] = <<>>
=============================================================================
