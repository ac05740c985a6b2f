----------------------------- MODULE AnswerDelivery -----------------------------
(***************************************************************************)
(* What an ELM327 transport promises its subscriber                        *)
(* (include/vehicle-sim/ble/ITransport.h:64-78, OBD2Transport.h:14-24):    *)
(* the adapter's bytes are cut at its prompts, and each answer goes,       *)
(* whole, without its terminators and in order, to whoever is subscribed   *)
(* when its turn comes.  No buffer, no mutex, no chunks.                   *)
(***************************************************************************)
EXTENDS Naturals, Sequences

CONSTANTS
    Stream,   \* what the adapter sends, token by token
    Prompt,   \* the token '>'
    CR        \* the token '\r'

VARIABLES
    subscribed,   \* is there a callback?
    taken,        \* how many tokens of the stream have been dealt with
    delivered     \* the responses given to the callback

vars == <<subscribed, taken, delivered>>

Init ==
    /\ subscribed = FALSE
    /\ taken = 0
    /\ delivered = <<>>

Subscribe(on) ==
    /\ subscribed' = on
    /\ UNCHANGED <<taken, delivered>>

\* The next answer ends at the prompt p and its text at n.
AnswerEnds(p, n) ==
    /\ Stream[p] = Prompt
    /\ \A i \in (taken + 1)..(p - 1) : Stream[i] # Prompt
    /\ n > taken => Stream[n] # CR
    /\ \A i \in (n + 1)..(p - 1) : Stream[i] = CR

\* It is delivered, or dropped for want of text or of a subscriber.
Take ==
    \E p \in (taken + 1)..Len(Stream) : \E n \in taken..(p - 1) :
        /\ AnswerEnds(p, n)
        /\ taken' = p
        /\ delivered' = IF subscribed /\ n > taken
                          THEN Append(delivered, SubSeq(Stream, taken + 1, n))
                          ELSE delivered
        /\ UNCHANGED subscribed

Next == (\E on \in BOOLEAN : Subscribe(on)) \/ Take

Spec == Init /\ [][Next]_vars
=============================================================================
