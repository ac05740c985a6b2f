------------------------- MODULE EventDispatcherProofs -------------------------
(***************************************************************************)
(* EventDispatcher, proved for any number of threads, registrations,       *)
(* signals and nested dispatches: its type invariant, and that it          *)
(* implements SignalFanout.                                                *)
(***************************************************************************)
EXTENDS EventDispatcher, TLAPS

(* The inductive invariant.  The copy in a frame holds each token once,    *)
(* two frames never carry the same signal, and what a frame still holds    *)
(* has not been heard.                                                     *)
FrameOK(f, s, n) ==
    /\ f.signal \in 1..s
    /\ \A j \in DOMAIN f.rest :
          /\ f.rest[j].token \in 1..(n - 1)
          /\ \A k \in DOMAIN f.rest : j # k => f.rest[j].token # f.rest[k].token

FramesOK == \A t \in Threads : \A i \in DOMAIN calls[t] : FrameOK(calls[t][i], signals, nextToken)

OneFrame ==
    \A t, u \in Threads : \A i \in DOMAIN calls[t], j \in DOMAIN calls[u] :
        calls[t][i].signal = calls[u][j].signal => t = u /\ i = j

HeardOnce ==
    /\ \A p \in heard : p[1] \in 1..signals
    /\ \A t \in Threads : \A i \in DOMAIN calls[t] : \A j \in DOMAIN calls[t][i].rest :
          <<calls[t][i].signal, calls[t][i].rest[j].token>> \notin heard

Inv == TypeOK /\ FramesOK /\ OneFrame /\ HeardOnce

\* The innermost frame of a thread that dispatches.
LEMMA TopIsFrame ==
    ASSUME TypeOK, NEW t \in Threads, calls[t] # <<>>
    PROVE  /\ Len(calls[t]) \in DOMAIN calls[t]
           /\ calls[t] \in Seq(Frame)
           /\ Top(t) \in Frame
           /\ DOMAIN calls[t] = 1..Len(calls[t])
           /\ Len(calls[t]) \in Nat
<1>1. calls[t] \in Seq(Frame)
  BY DEF TypeOK
<1>2. Len(calls[t]) \in Nat /\ Len(calls[t]) # 0
  BY <1>1
<1>. QED
  BY <1>1, <1>2 DEF Top

\* Registering, unregistering and clearing touch the list only.
LEMMA ListSteps ==
    ASSUME Inv, NEW t \in Threads,
           \/ RegisterConsumer(t)
           \/ \E k \in 0..nextToken : UnregisterConsumer(t, k)
           \/ Clear(t)
    PROVE  Inv'
<1>1. /\ nextToken \in Nat \ {0}
      /\ nextToken' \in Nat \ {0}
      /\ nextToken <= nextToken'
      /\ UNCHANGED <<calls, signals, heard>>
  BY DEF Inv, TypeOK, RegisterConsumer, UnregisterConsumer, Clear
<1>2. /\ consumers' \in Seq(Consumer)
      /\ \A i, j \in DOMAIN consumers' :
            /\ consumers'[i].token \in 1..(nextToken' - 1)
            /\ i # j => consumers'[i].token # consumers'[j].token
  <2>1. CASE RegisterConsumer(t)
    <3>1. [token |-> nextToken, active |-> TRUE] \in Consumer
      BY DEF Inv, TypeOK, Consumer
    <3>. QED
      BY <2>1, <3>1 DEF Inv, TypeOK, RegisterConsumer
  <2>2. ASSUME NEW k \in 0..nextToken, UnregisterConsumer(t, k)
        PROVE  <1>2!1 /\ <1>2!2
    <3>1. [token |-> k, active |-> FALSE] \in Consumer
      BY <1>1 DEF Consumer
    <3>2. /\ DOMAIN consumers' = DOMAIN consumers
          /\ Len(consumers) \in Nat
          /\ DOMAIN consumers = 1..Len(consumers)
          /\ \A i \in DOMAIN consumers : consumers'[i] \in Consumer
          /\ \A i \in DOMAIN consumers : consumers'[i].token = consumers[i].token
      BY <2>2, <3>1 DEF Inv, TypeOK, UnregisterConsumer
    <3>3. consumers' = [i \in 1..Len(consumers) |-> consumers'[i]]
      BY <2>2, <3>2 DEF UnregisterConsumer
    <3>4. consumers' \in Seq(Consumer)
      BY <3>2, <3>3
    <3>5. UNCHANGED nextToken
      BY <2>2 DEF UnregisterConsumer
    <3>6. \A i, j \in DOMAIN consumers' :
            /\ consumers'[i].token \in 1..(nextToken' - 1)
            /\ i # j => consumers'[i].token # consumers'[j].token
      BY <3>2, <3>5 DEF Inv, TypeOK
    <3>. QED
      BY <3>4, <3>6
  <2>3. CASE Clear(t)
    BY <2>3 DEF Clear
  <2>. QED
    BY <2>1, <2>2, <2>3
<1>3. TypeOK'
  BY <1>1, <1>2 DEF Inv, TypeOK
<1>4. FramesOK'
  <2>1. \A s \in Threads : \A i \in DOMAIN calls[s] : FrameOK(calls[s][i], signals, nextToken')
    BY <1>1 DEF Inv, FramesOK, FrameOK
  <2>. QED
    BY <1>1, <2>1 DEF FramesOK
<1>5. OneFrame' /\ HeardOnce'
  BY <1>1 DEF Inv, OneFrame, HeardOnce
<1>. QED
  BY <1>3, <1>4, <1>5 DEF Inv

\* Dispatching adds a frame with the next signal and the list.
LEMMA DispatchStep ==
    ASSUME Inv, NEW t \in Threads, Dispatch(t)
    PROVE  Inv'
<1> DEFINE g == [signal |-> signals + 1, rest |-> consumers, inside |-> FALSE]
           n == Len(calls[t])
<1>1. /\ calls \in [Threads -> Seq(Frame)] /\ calls[t] \in Seq(Frame)
      /\ n \in Nat /\ signals \in Nat
      /\ signals' = signals + 1
      /\ UNCHANGED <<consumers, nextToken, heard>>
  BY DEF Inv, TypeOK, Dispatch
<1>2. g \in Frame
  BY <1>1 DEF Inv, TypeOK, Frame
<1>3. calls' = [calls EXCEPT ![t] = Append(calls[t], g)]
  BY <1>1 DEF Dispatch
<1> HIDE DEF g
<1>4. calls' \in [Threads -> Seq(Frame)]
  BY <1>1, <1>2, <1>3
<1>5. /\ \A u \in Threads \ {t} : calls'[u] = calls[u]
      /\ DOMAIN calls[t] = 1..n /\ DOMAIN calls'[t] = 1..(n + 1)
      /\ \A i \in 1..n : calls'[t][i] = calls[t][i]
      /\ calls'[t][n + 1] = g
  BY <1>1, <1>2, <1>3
<1>6. \A u \in Threads : \A i \in DOMAIN calls'[u] :
         \/ u = t /\ i = n + 1 /\ calls'[u][i] = g
         \/ i \in DOMAIN calls[u] /\ calls'[u][i] = calls[u][i]
  BY <1>1, <1>5
<1>7. g.signal = signals + 1 /\ g.rest = consumers
  BY DEF g
<1>8. TypeOK'
  BY <1>1, <1>4 DEF Inv, TypeOK
<1>9. FramesOK'
  <2>1. FrameOK(g, signals + 1, nextToken)
    BY <1>1, <1>7 DEF Inv, TypeOK, FrameOK
  <2>2. \A u \in Threads : \A i \in DOMAIN calls[u] :
           FrameOK(calls[u][i], signals + 1, nextToken)
    BY <1>1 DEF Inv, FramesOK, FrameOK
  <2>3. \A u \in Threads : \A i \in DOMAIN calls'[u] :
           FrameOK(calls'[u][i], signals + 1, nextToken)
    BY <1>6, <2>1, <2>2
  <2>. QED
    BY <1>1, <2>3 DEF FramesOK
<1>10. \A u \in Threads : \A i \in DOMAIN calls[u] :
          calls[u][i].signal \in 1..signals
  BY DEF Inv, FramesOK, FrameOK
<1>11. OneFrame'
  <2>1. ASSUME NEW u \in Threads, NEW v \in Threads,
               NEW i \in DOMAIN calls'[u], NEW j \in DOMAIN calls'[v],
               calls'[u][i].signal = calls'[v][j].signal
        PROVE  u = v /\ i = j
    <3>1. CASE u = t /\ i = n + 1 /\ calls'[u][i] = g
      BY <1>1, <1>6, <1>7, <1>10, <2>1, <3>1
    <3>2. CASE v = t /\ j = n + 1 /\ calls'[v][j] = g
      BY <1>1, <1>6, <1>7, <1>10, <2>1, <3>2
    <3>3. CASE /\ i \in DOMAIN calls[u] /\ calls'[u][i] = calls[u][i]
               /\ j \in DOMAIN calls[v] /\ calls'[v][j] = calls[v][j]
      BY <2>1, <3>3 DEF Inv, OneFrame
    <3>. QED
      BY <1>6, <3>1, <3>2, <3>3
  <2>. QED
    BY <2>1 DEF OneFrame
<1>12. HeardOnce'
  <2>1. \A p \in heard : p[1] \in 1..signals
    BY DEF Inv, HeardOnce
  <2>2. ASSUME NEW u \in Threads, NEW i \in DOMAIN calls'[u], NEW j \in DOMAIN calls'[u][i].rest
        PROVE  <<calls'[u][i].signal, calls'[u][i].rest[j].token>> \notin heard
    <3>1. CASE calls'[u][i] = g
      BY <1>1, <1>7, <2>1, <3>1
    <3>2. CASE i \in DOMAIN calls[u] /\ calls'[u][i] = calls[u][i]
      BY <2>2, <3>2 DEF Inv, HeardOnce
    <3>. QED
      BY <1>6, <3>1, <3>2
  <2>. QED
    BY <1>1, <2>1, <2>2 DEF HeardOnce
<1>. QED
  BY <1>8, <1>9, <1>11, <1>12 DEF Inv

(* The other steps leave every frame, or take it away, or take the first   *)
(* entry off its copy; at most the pair w is heard, and no copy holds it   *)
(* afterwards.                                                             *)
Shifted(old, new, w) ==
    /\ new.signal = old.signal
    /\ \E d \in {0, 1} : \A j \in DOMAIN new.rest :
          /\ j + d \in DOMAIN old.rest
          /\ new.rest[j] = old.rest[j + d]
          /\ <<new.signal, new.rest[j].token>> # w

LEMMA ShiftedOK ==
    ASSUME NEW old, NEW new, NEW w, NEW s, NEW n,
           FrameOK(old, s, n), Shifted(old, new, w), DOMAIN new.rest \subseteq Nat
    PROVE  FrameOK(new, s, n)
<1>1. PICK d \in {0, 1} : \A j \in DOMAIN new.rest :
         j + d \in DOMAIN old.rest /\ new.rest[j] = old.rest[j + d]
  BY DEF Shifted
<1>2. new.signal \in 1..s
  BY DEF FrameOK, Shifted
<1>3. \A j \in DOMAIN new.rest : new.rest[j].token \in 1..(n - 1)
  BY <1>1 DEF FrameOK
<1>4. \A j, k \in DOMAIN new.rest : j # k => j + d # k + d
  OBVIOUS
<1>5. \A j, k \in DOMAIN new.rest : j # k => new.rest[j].token # new.rest[k].token
  BY <1>1, <1>4 DEF FrameOK
<1>. QED
  BY <1>2, <1>3, <1>5 DEF FrameOK

LEMMA ShrinkingStep ==
    ASSUME Inv, NEW w \in Nat \X Nat,
           UNCHANGED <<consumers, nextToken, signals>>,
           calls' \in [Threads -> Seq(Frame)],
           \A p \in heard' : p \in heard \/ (p = w /\ w[1] \in 1..signals),
           \A u \in Threads : \A i \in DOMAIN calls'[u] :
               i \in DOMAIN calls[u] /\ Shifted(calls[u][i], calls'[u][i], w)
    PROVE  Inv'
<1>1. TypeOK'
  BY DEF Inv, TypeOK
<1>2. FramesOK'
  <2>1. ASSUME NEW u \in Threads, NEW i \in DOMAIN calls'[u]
        PROVE  FrameOK(calls'[u][i], signals, nextToken)
    <3>1. FrameOK(calls[u][i], signals, nextToken) /\ Shifted(calls[u][i], calls'[u][i], w)
      BY <2>1 DEF Inv, FramesOK
    <3>2. calls'[u] \in Seq(Frame)
      OBVIOUS
    <3>3. calls'[u][i] \in Frame
      BY <2>1, <3>2
    <3>4. DOMAIN calls'[u][i].rest \subseteq Nat
      BY <3>3 DEF Frame
    <3>. QED
      BY <3>1, <3>4, ShiftedOK
  <2>. QED
    BY <2>1 DEF FramesOK
<1>3. OneFrame'
  BY SMTT(30) DEF Inv, OneFrame, Shifted
<1>4. HeardOnce'
  <2>1. \A p \in heard' : p[1] \in 1..signals
    BY DEF Inv, HeardOnce
  <2>2. ASSUME NEW u \in Threads, NEW i \in DOMAIN calls'[u], NEW j \in DOMAIN calls'[u][i].rest
        PROVE  <<calls'[u][i].signal, calls'[u][i].rest[j].token>> \notin heard'
    <3>1. <<calls'[u][i].signal, calls'[u][i].rest[j].token>> # w
      BY <2>2 DEF Shifted
    <3>2. PICK d \in {0, 1} : /\ j + d \in DOMAIN calls[u][i].rest
                              /\ calls'[u][i].rest[j] = calls[u][i].rest[j + d]
      BY <2>2 DEF Shifted
    <3>3. calls'[u][i].signal = calls[u][i].signal /\ i \in DOMAIN calls[u]
      BY <2>2 DEF Shifted
    <3>4. <<calls[u][i].signal, calls[u][i].rest[j + d].token>> \notin heard
      BY <3>2, <3>3 DEF Inv, HeardOnce
    <3>5. <<calls'[u][i].signal, calls'[u][i].rest[j].token>> \notin heard
      BY <3>2, <3>3, <3>4
    <3>. QED
      BY <3>1, <3>5
  <2>. QED
    BY <2>1, <2>2 DEF HeardOnce
<1>. QED
  BY <1>1, <1>2, <1>3, <1>4 DEF Inv

\* What CallConsumer does to the innermost frame of its thread.
LEMMA CallFacts ==
    ASSUME Inv, NEW t \in Threads, CallConsumer(t)
    PROVE  LET n == Len(calls[t])
               f == calls[t][n]
               c == Head(f.rest)
           IN /\ calls[t] # <<>> /\ n \in DOMAIN calls[t]
              /\ f \in Frame /\ f.rest # <<>>
              /\ c = f.rest[1] /\ c \in Consumer /\ 1 \in DOMAIN f.rest
              /\ calls' \in [Threads -> Seq(Frame)]
              /\ \A u \in Threads : DOMAIN calls'[u] = DOMAIN calls[u]
              /\ \A u \in Threads : \A i \in DOMAIN calls[u] :
                    ~(u = t /\ i = n) => calls'[u][i] = calls[u][i]
              /\ calls'[t][n].signal = f.signal
              /\ calls'[t][n].rest = Tail(f.rest)
              /\ heard' = IF Calls(c) THEN heard \cup {<<f.signal, c.token>>} ELSE heard
              /\ UNCHANGED <<consumers, nextToken, signals>>
<1> DEFINE n == Len(calls[t])
           f == calls[t][n]
           c == Head(f.rest)
           h == [signal |-> f.signal, rest |-> Tail(f.rest), inside |-> Calls(c)]
<1>1. /\ calls[t] # <<>> /\ f.rest # <<>>
      /\ calls' = [calls EXCEPT ![t][n] =
                      [signal |-> @.signal, rest |-> Tail(@.rest), inside |-> Calls(c)]]
      /\ heard' = IF Calls(c) THEN heard \cup {<<f.signal, c.token>>} ELSE heard
      /\ UNCHANGED <<consumers, nextToken, signals>>
  BY DEF CallConsumer, Between, Top
<1>2. /\ n \in DOMAIN calls[t] /\ calls[t] \in Seq(Frame) /\ f \in Frame
      /\ DOMAIN calls[t] = 1..n /\ n \in Nat
      /\ calls \in [Threads -> Seq(Frame)]
  BY <1>1, TopIsFrame DEF Top, Inv, TypeOK
<1>3. f.signal \in Nat /\ f.rest \in Seq(Consumer)
  BY <1>2 DEF Frame
<1>4. c = f.rest[1] /\ c \in Consumer /\ 1 \in DOMAIN f.rest /\ Tail(f.rest) \in Seq(Consumer)
  BY <1>1, <1>3
<1>5. Calls(c) \in BOOLEAN
  BY DEF Calls
<1>6. h \in Frame
  BY <1>3, <1>4, <1>5 DEF Frame
<1>7. calls' = [calls EXCEPT ![t] = [calls[t] EXCEPT ![n] = h]]
  BY <1>1, <1>2
<1>8. h.signal = f.signal /\ h.rest = Tail(f.rest)
  OBVIOUS
<1> HIDE DEF h
<1>9. [calls[t] EXCEPT ![n] = h] \in Seq(Frame)
  BY <1>2, <1>6
<1>10. /\ calls' \in [Threads -> Seq(Frame)]
       /\ \A u \in Threads : DOMAIN calls'[u] = DOMAIN calls[u]
       /\ \A u \in Threads : \A i \in DOMAIN calls[u] :
             ~(u = t /\ i = n) => calls'[u][i] = calls[u][i]
       /\ calls'[t][n] = h
  BY <1>2, <1>7, <1>9
<1>. QED
  BY <1>1, <1>2, <1>4, <1>8, <1>10

\* Passing over or calling the first entry: it leaves its copy, and no other copy
\* holds the same pair.
LEMMA CallStep ==
    ASSUME Inv, NEW t \in Threads, CallConsumer(t)
    PROVE  Inv'
<1> DEFINE n == Len(calls[t])
           f == calls[t][n]
           c == Head(f.rest)
           w == <<f.signal, c.token>>
<1>1. /\ n \in DOMAIN calls[t] /\ f \in Frame
      /\ c = f.rest[1] /\ c \in Consumer /\ 1 \in DOMAIN f.rest
      /\ calls' \in [Threads -> Seq(Frame)]
      /\ \A u \in Threads : DOMAIN calls'[u] = DOMAIN calls[u]
      /\ \A u \in Threads : \A i \in DOMAIN calls[u] :
            ~(u = t /\ i = n) => calls'[u][i] = calls[u][i]
      /\ calls'[t][n].signal = f.signal
      /\ calls'[t][n].rest = Tail(f.rest)
      /\ heard' = IF Calls(c) THEN heard \cup {w} ELSE heard
      /\ UNCHANGED <<consumers, nextToken, signals>>
  BY CallFacts
<1>2. /\ f.rest \in Seq(Consumer) /\ f.signal \in Nat /\ w \in Nat \X Nat
      /\ f.signal \in 1..signals /\ FrameOK(f, signals, nextToken)
  BY <1>1 DEF Frame, Consumer, Inv, FramesOK, FrameOK
<1>3. \A p \in heard' : p \in heard \/ (p = w /\ w[1] \in 1..signals)
  BY <1>1, <1>2
<1>4. Shifted(f, calls'[t][n], w)
  <2>1. \A j \in DOMAIN Tail(f.rest) :
           j \in Nat \ {0} /\ j + 1 \in DOMAIN f.rest /\ Tail(f.rest)[j] = f.rest[j + 1]
    BY <1>1, <1>2
  <2>2. \A j \in DOMAIN Tail(f.rest) : Tail(f.rest)[j].token # c.token
    BY <1>1, <1>2, <2>1, SMTT(30) DEF FrameOK
  <2>. QED
    BY <1>1, <2>1, <2>2 DEF Shifted
<1>5. ASSUME NEW u \in Threads, NEW i \in DOMAIN calls'[u], ~(u = t /\ i = n)
      PROVE  Shifted(calls[u][i], calls'[u][i], w)
  <2>1. i \in DOMAIN calls[u] /\ calls'[u][i] = calls[u][i] /\ calls[u] \in Seq(Frame)
    BY <1>1, <1>5 DEF Inv, TypeOK
  <2>2. calls[u][i].signal # f.signal
    BY <1>1, <1>5, <2>1 DEF Inv, OneFrame
  <2>3. calls[u][i] \in Frame
    BY <2>1
  <2>4. calls[u][i].rest \in Seq(Consumer)
    BY <2>3 DEF Frame
  <2>5. \A j \in DOMAIN calls[u][i].rest : j + 0 = j
    BY <2>4
  <2>. QED
    BY <2>1, <2>2, <2>5 DEF Shifted
<1>6. \A u \in Threads : \A i \in DOMAIN calls'[u] :
         i \in DOMAIN calls[u] /\ Shifted(calls[u][i], calls'[u][i], w)
  BY <1>1, <1>4, <1>5
<1> HIDE DEF n, f, c, w
<1>. QED
  BY <1>1, <1>2, <1>3, <1>6, ShrinkingStep

\* What a return does: the frames that stay keep their signal and what they hold,
\* and a frame that goes holds nothing.
LEMMA ReturnFacts ==
    ASSUME Inv, NEW t \in Threads, ConsumerReturns(t) \/ DispatchReturns(t)
    PROVE  /\ calls' \in [Threads -> Seq(Frame)]
           /\ \A u \in Threads : \A i \in DOMAIN calls'[u] :
                 /\ i \in DOMAIN calls[u]
                 /\ calls'[u][i].signal = calls[u][i].signal
                 /\ calls'[u][i].rest = calls[u][i].rest
           /\ \A u \in Threads : \A i \in DOMAIN calls[u] :
                 calls[u][i].rest # <<>> => i \in DOMAIN calls'[u]
           /\ UNCHANGED <<consumers, nextToken, signals, heard>>
<1> DEFINE n == Len(calls[t])
           f == calls[t][n]
<1>1. /\ n \in DOMAIN calls[t] /\ calls[t] \in Seq(Frame) /\ f \in Frame
      /\ DOMAIN calls[t] = 1..n /\ n \in Nat \ {0}
      /\ calls \in [Threads -> Seq(Frame)]
  BY TopIsFrame DEF Top, Inv, TypeOK, ConsumerReturns, DispatchReturns, Between
<1>2. CASE ConsumerReturns(t)
  <2> DEFINE h == [signal |-> f.signal, rest |-> f.rest, inside |-> FALSE]
  <2>1. h \in Frame /\ h.signal = f.signal /\ h.rest = f.rest
    BY <1>1 DEF Frame
  <2>2. calls' = [calls EXCEPT ![t] = [calls[t] EXCEPT ![n] = h]]
    BY <1>1, <1>2 DEF ConsumerReturns
  <2> HIDE DEF h
  <2>3. [calls[t] EXCEPT ![n] = h] \in Seq(Frame)
    BY <1>1, <2>1
  <2>4. /\ calls' \in [Threads -> Seq(Frame)]
        /\ \A u \in Threads : DOMAIN calls'[u] = DOMAIN calls[u]
        /\ \A u \in Threads : \A i \in DOMAIN calls[u] :
              ~(u = t /\ i = n) => calls'[u][i] = calls[u][i]
        /\ calls'[t][n] = h
    BY <1>1, <2>2, <2>3
  <2>. QED
    BY <1>2, <2>1, <2>4 DEF ConsumerReturns
<1>3. CASE DispatchReturns(t)
  <2> DEFINE s == SubSeq(calls[t], 1, n - 1)
  <2>1. calls' = [calls EXCEPT ![t] = s] /\ f.rest = <<>>
    BY <1>3 DEF DispatchReturns, Top
  <2>2. /\ s \in Seq(Frame) /\ DOMAIN s = 1..(n - 1)
        /\ \A i \in 1..(n - 1) : s[i] = calls[t][i]
    BY <1>1
  <2> HIDE DEF s
  <2>3. /\ calls' \in [Threads -> Seq(Frame)]
        /\ calls'[t] = s
        /\ \A u \in Threads \ {t} : calls'[u] = calls[u]
    BY <1>1, <2>1, <2>2
  <2>4. ASSUME NEW u \in Threads, NEW i \in DOMAIN calls'[u]
        PROVE  i \in DOMAIN calls[u] /\ calls'[u][i] = calls[u][i]
    <3>1. CASE u = t
      BY <1>1, <2>2, <2>3, <2>4, <3>1
    <3>2. CASE u # t
      BY <2>3, <2>4, <3>2
    <3>. QED
      BY <3>1, <3>2
  <2>5. ASSUME NEW u \in Threads, NEW i \in DOMAIN calls[u], calls[u][i].rest # <<>>
        PROVE  i \in DOMAIN calls'[u]
    BY <1>1, <2>1, <2>2, <2>3, <2>5
  <2>6. UNCHANGED <<consumers, nextToken, signals, heard>>
    BY <1>3 DEF DispatchReturns
  <2>. QED
    BY <2>3, <2>4, <2>5, <2>6
<1>. QED
  BY <1>2, <1>3

LEMMA ReturnStep ==
    ASSUME Inv, NEW t \in Threads, ConsumerReturns(t) \/ DispatchReturns(t)
    PROVE  Inv'
<1> DEFINE w == <<0, 0>>
<1>1. /\ calls' \in [Threads -> Seq(Frame)]
      /\ \A u \in Threads : \A i \in DOMAIN calls'[u] :
            /\ i \in DOMAIN calls[u]
            /\ calls'[u][i].signal = calls[u][i].signal
            /\ calls'[u][i].rest = calls[u][i].rest
      /\ UNCHANGED <<consumers, nextToken, signals, heard>>
  BY ReturnFacts
<1>2. ASSUME NEW u \in Threads, NEW i \in DOMAIN calls'[u]
      PROVE  i \in DOMAIN calls[u] /\ Shifted(calls[u][i], calls'[u][i], w)
  <2>1. i \in DOMAIN calls[u] /\ FrameOK(calls[u][i], signals, nextToken) /\ signals \in Nat
    BY <1>1, <1>2 DEF Inv, FramesOK, TypeOK
  <2>2. calls[u][i] \in Frame
    BY <2>1 DEF Inv, TypeOK
  <2>3. calls[u][i].rest \in Seq(Consumer)
    BY <2>2 DEF Frame
  <2>4. \A j \in DOMAIN calls[u][i].rest : j + 0 = j
    BY <2>3
  <2>5. calls[u][i].signal # 0
    BY <2>1 DEF FrameOK
  <2>. QED
    BY <1>1, <1>2, <2>1, <2>4, <2>5 DEF Shifted
<1>3. w \in Nat \X Nat
  OBVIOUS
<1>4. \A p \in heard' : p \in heard \/ (p = w /\ w[1] \in 1..signals)
  BY <1>1
<1> HIDE DEF w
<1>. QED
  BY <1>1, <1>2, <1>3, <1>4, ShrinkingStep

LEMMA InvInit == Init => Inv
  BY DispatcherAssumption DEF Init, Inv, TypeOK, FramesOK, OneFrame, HeardOnce

LEMMA InvNext == Inv /\ [Next]_vars => Inv'
<1> SUFFICES ASSUME Inv, [Next]_vars PROVE Inv'
  OBVIOUS
<1>1. ASSUME NEW t \in Threads, RegisterConsumer(t)  PROVE Inv'
  BY <1>1, ListSteps
<1>2. ASSUME NEW t \in Threads, \E k \in 0..nextToken : UnregisterConsumer(t, k)  PROVE Inv'
  BY <1>2, ListSteps
<1>3. ASSUME NEW t \in Threads, Clear(t)  PROVE Inv'
  BY <1>3, ListSteps
<1>4. ASSUME NEW t \in Threads, Dispatch(t)  PROVE Inv'
  BY <1>4, DispatchStep
<1>5. ASSUME NEW t \in Threads, DispatchGoesOn(t)  PROVE Inv'
  BY <1>5, CallStep, ReturnStep DEF DispatchGoesOn
<1>6. CASE UNCHANGED vars
  BY <1>6 DEF vars, Inv, TypeOK, FramesOK, OneFrame, HeardOnce
<1>. QED
  BY <1>1, <1>2, <1>3, <1>4, <1>5, <1>6 DEF Next

\* The inductive invariant holds of every execution.
LEMMA InvHolds == Spec => []Inv
  BY InvInit, InvNext, PTL DEF Spec

\* For any number of threads, registrations and nested dispatches the state has its
\* types and a token names at most one consumer of consumers_.
THEOREM TypesAndTokens == Spec => []TypeOK
<1>1. Inv => TypeOK
  BY DEF Inv
<1>. QED
  BY <1>1, InvHolds, PTL

-----------------------------------------------------------------------------
(* The refinement.                                                         *)

\* A pair is owed when some frame holds it.
LEMMA OwedFacts ==
    ASSUME TypeOK, FramesOK
    PROVE  \A p \in Nat \X Nat :
              p \in Owed <=> \E t \in Threads : \E i \in DOMAIN calls[t] : Owes(calls[t][i], p)
<1>1. ASSUME NEW p \in Nat \X Nat, NEW t \in Threads, NEW i \in DOMAIN calls[t],
             Owes(calls[t][i], p)
      PROVE  p \in (1..signals) \X (1..(nextToken - 1))
  BY <1>1 DEF Owes, FramesOK, FrameOK
<1>. QED
  BY <1>1 DEF Owed, TypeOK

LEMMA OwedAfter ==
    ASSUME (TypeOK /\ FramesOK)'
    PROVE  \A p \in Nat \X Nat :
              p \in Owed' <=> \E t \in Threads : \E i \in DOMAIN calls'[t] : Owes(calls'[t][i], p)
<1>1. ASSUME NEW p \in Nat \X Nat, NEW t \in Threads, NEW i \in DOMAIN calls'[t],
             Owes(calls'[t][i], p)
      PROVE  p \in (1..signals') \X (1..(nextToken' - 1))
  BY <1>1 DEF Owes, FramesOK, FrameOK
<1>. QED
  BY <1>1 DEF Owed, TypeOK, Owes

\* A step that leaves every copy as it is, or takes away empty ones, leaves what is owed.
LEMMA SameCopies ==
    ASSUME Inv, Inv',
           \A u \in Threads : \A i \in DOMAIN calls'[u] :
              /\ i \in DOMAIN calls[u]
              /\ calls'[u][i].signal = calls[u][i].signal
              /\ calls'[u][i].rest = calls[u][i].rest,
           \A u \in Threads : \A i \in DOMAIN calls[u] :
              calls[u][i].rest # <<>> => i \in DOMAIN calls'[u]
    PROVE  Owed' = Owed
<1>1. \A p \in Nat \X Nat :
         p \in Owed <=> \E t \in Threads : \E i \in DOMAIN calls[t] : Owes(calls[t][i], p)
  BY OwedFacts DEF Inv
<1>2. \A p \in Nat \X Nat :
         p \in Owed' <=> \E t \in Threads : \E i \in DOMAIN calls'[t] : Owes(calls'[t][i], p)
  BY OwedAfter DEF Inv
<1>3. \A p \in Nat \X Nat, t \in Threads : \A i \in DOMAIN calls'[t] :
         i \in DOMAIN calls[t] /\ (Owes(calls'[t][i], p) <=> Owes(calls[t][i], p))
  BY DEF Owes
<1>4. \A p \in Nat \X Nat, t \in Threads : \A i \in DOMAIN calls[t] :
         Owes(calls[t][i], p) => i \in DOMAIN calls'[t]
  BY DEF Owes
<1>5. \A p \in Nat \X Nat : p \in Owed' <=> p \in Owed
  BY <1>1, <1>2, <1>3, <1>4
<1>6. Owed \subseteq Nat \X Nat /\ Owed' \subseteq Nat \X Nat
  BY DEF Owed, Inv, TypeOK
<1>. QED
  BY <1>5, <1>6

\* The list's operations are the members'.
LEMMA ListRefines ==
    ASSUME Inv, Inv', NEW t \in Threads,
           \/ RegisterConsumer(t)
           \/ \E k \in 0..nextToken : UnregisterConsumer(t, k)
           \/ Clear(t)
    PROVE  [Fanout!Next]_(Fanout!vars)
<1>1. UNCHANGED <<calls, signals, heard>>
  BY DEF RegisterConsumer, UnregisterConsumer, Clear
<1>2. Owed' = Owed
  BY <1>1, SameCopies
<1>3. consumers \in Seq(Consumer) /\ nextToken \in Nat \ {0}
  BY DEF Inv, TypeOK
<1>4. CASE RegisterConsumer(t)
  <2>1. /\ consumers' = Append(consumers, [token |-> nextToken, active |-> TRUE])
        /\ nextToken' = nextToken + 1
    BY <1>4 DEF RegisterConsumer
  <2> DEFINE g == [token |-> nextToken, active |-> TRUE]
  <2>2. g \in Consumer /\ g.token = nextToken /\ g.active
    BY <1>3 DEF Consumer
  <2> HIDE DEF g
  <2>3. /\ DOMAIN consumers = 1..Len(consumers) /\ Len(consumers) \in Nat
        /\ DOMAIN consumers' = 1..(Len(consumers) + 1)
        /\ \A i \in DOMAIN consumers : consumers'[i] = consumers[i]
        /\ consumers'[Len(consumers) + 1] = g
    BY <1>3, <2>1, <2>2 DEF g
  <2>4. Members' = Members \cup {nextToken}
    BY <2>2, <2>3 DEF Members
  <2>5. nextToken' - 1 = nextToken - 1 + 1 /\ nextToken' - 1 = nextToken
    BY <1>3, <2>1
  <2>6. Fanout!Register
    BY <1>1, <1>2, <2>4, <2>5 DEF Fanout!Register
  <2>. QED
    BY <2>6 DEF Fanout!Next
<1>5. ASSUME NEW k \in 0..nextToken, UnregisterConsumer(t, k)
      PROVE  [Fanout!Next]_(Fanout!vars)
  <2>1. /\ DOMAIN consumers' = DOMAIN consumers
        /\ \A i \in DOMAIN consumers :
              /\ consumers'[i].token = consumers[i].token
              /\ consumers'[i].active <=> consumers[i].active /\ consumers[i].token # k
        /\ nextToken' = nextToken
    BY <1>3, <1>5 DEF UnregisterConsumer, Consumer
  <2>2. Members' = Members \ {k}
    BY <2>1 DEF Members
  <2>3. CASE k \in Members
    <3>1. Fanout!Leave
      BY <1>1, <1>2, <2>1, <2>2, <2>3 DEF Fanout!Leave
    <3>. QED
      BY <3>1 DEF Fanout!Next
  <2>4. CASE k \notin Members
    BY <1>1, <1>2, <2>1, <2>2, <2>4 DEF Fanout!vars
  <2>. QED
    BY <2>3, <2>4
<1>6. CASE Clear(t)
  <2>1. Members' = {} /\ nextToken' = nextToken
    BY <1>6 DEF Clear, Members
  <2>2. Fanout!LeaveAll
    BY <1>1, <1>2, <2>1 DEF Fanout!LeaveAll
  <2>. QED
    BY <2>2 DEF Fanout!Next
<1>. QED
  BY <1>4, <1>5, <1>6

\* Dispatching owes the new signal to the members.
LEMMA DispatchRefines ==
    ASSUME Inv, Inv', NEW t \in Threads, Dispatch(t)
    PROVE  Fanout!Publish
<1> DEFINE g == [signal |-> signals + 1, rest |-> consumers, inside |-> FALSE]
           n == Len(calls[t])
<1>1. /\ calls \in [Threads -> Seq(Frame)] /\ calls[t] \in Seq(Frame)
      /\ n \in Nat /\ signals \in Nat
      /\ consumers \in Seq(Consumer)
      /\ signals' = signals + 1
      /\ UNCHANGED <<consumers, nextToken, heard>>
      /\ calls' = [calls EXCEPT ![t] = Append(calls[t], g)]
  BY DEF Inv, TypeOK, Dispatch
<1>2. g \in Frame /\ g.signal = signals + 1 /\ g.rest = consumers
  BY <1>1 DEF Frame
<1> HIDE DEF g
<1>3. /\ \A u \in Threads \ {t} : calls'[u] = calls[u]
      /\ DOMAIN calls[t] = 1..n /\ DOMAIN calls'[t] = 1..(n + 1)
      /\ \A i \in 1..n : calls'[t][i] = calls[t][i]
      /\ calls'[t][n + 1] = g
  BY <1>1, <1>2
<1>4. \A p \in Nat \X Nat :
         (\E u \in Threads : \E i \in DOMAIN calls'[u] : Owes(calls'[u][i], p))
         <=> \/ \E u \in Threads : \E i \in DOMAIN calls[u] : Owes(calls[u][i], p)
             \/ Owes(g, p)
  <2>1. ASSUME NEW p \in Nat \X Nat, NEW u \in Threads, NEW i \in DOMAIN calls'[u],
               Owes(calls'[u][i], p)
        PROVE  (i \in DOMAIN calls[u] /\ Owes(calls[u][i], p)) \/ Owes(g, p)
    BY <1>1, <1>3, <2>1
  <2>2. ASSUME NEW p \in Nat \X Nat, NEW u \in Threads, NEW i \in DOMAIN calls[u],
               Owes(calls[u][i], p)
        PROVE  i \in DOMAIN calls'[u] /\ Owes(calls'[u][i], p)
    BY <1>1, <1>3, <2>2
  <2>3. n + 1 \in DOMAIN calls'[t]
    BY <1>1, <1>3
  <2>. QED
    BY <1>3, <2>1, <2>2, <2>3
<1>5. \A p \in Nat \X Nat : Owes(g, p) <=> p[1] = signals' /\ p[2] \in Members
  BY <1>1, <1>2 DEF Owes, Members
<1>6. \A p \in Nat \X Nat :
         p \in Owed <=> \E u \in Threads : \E i \in DOMAIN calls[u] : Owes(calls[u][i], p)
  BY OwedFacts DEF Inv
<1>7. \A p \in Nat \X Nat :
         p \in Owed' <=> \E u \in Threads : \E i \in DOMAIN calls'[u] : Owes(calls'[u][i], p)
  BY OwedAfter DEF Inv
<1>8. Members \subseteq Nat
  BY DEF Members, Inv, TypeOK, Consumer
<1>9. \A p \in Nat \X Nat :
         p \in Owed' <=> p \in Owed \cup {<<signals', k>> : k \in Members}
  BY <1>1, <1>4, <1>5, <1>6, <1>7, <1>8, SMTT(30)
<1>10. Owed' \subseteq Nat \X Nat /\ Owed \cup {<<signals', k>> : k \in Members} \subseteq Nat \X Nat
  BY <1>1, <1>8 DEF Owed, Inv, TypeOK
<1>11. Owed' = Owed \cup {<<signals', k>> : k \in Members}
  BY <1>9, <1>10
<1>12. Members' = Members
  BY <1>1 DEF Members
<1>. QED
  BY <1>1, <1>11, <1>12 DEF Fanout!Publish

\* The tail of a list is the list, one place on.
LEMMA TailFacts ==
    ASSUME NEW s \in Seq(Consumer), s # <<>>
    PROVE  /\ \A j \in DOMAIN Tail(s) : j \in Nat \ {0} /\ j + 1 \in DOMAIN s /\ Tail(s)[j] = s[j + 1]
           /\ \A j \in DOMAIN s : j # 1 => j - 1 \in DOMAIN Tail(s) /\ s[j] = Tail(s)[j - 1]
<1>1. /\ DOMAIN s = 1..Len(s) /\ Len(s) \in Nat \ {0}
      /\ DOMAIN Tail(s) = 1..(Len(s) - 1)
      /\ \A j \in 1..(Len(s) - 1) : Tail(s)[j] = s[j + 1]
  OBVIOUS
<1>2. ASSUME NEW j \in DOMAIN s, j # 1
      PROVE  j - 1 \in DOMAIN Tail(s) /\ s[j] = Tail(s)[j - 1]
  <2>1. j - 1 \in 1..(Len(s) - 1) /\ (j - 1) + 1 = j
    BY <1>1, <1>2
  <2>. QED
    BY <1>1, <2>1
<1>. QED
  BY <1>1, <1>2

\* Passing over the first entry of the innermost copy: an active one is served, an
\* inactive one was never owed.
LEMMA CallRefines ==
    ASSUME Inv, Inv', NEW t \in Threads, CallConsumer(t)
    PROVE  [Fanout!Next]_(Fanout!vars)
<1> DEFINE n == Len(calls[t])
           f == calls[t][n]
           c == Head(f.rest)
           w == <<f.signal, c.token>>
           g == calls'[t][n]
<1>1. /\ n \in DOMAIN calls[t] /\ f \in Frame
      /\ c = f.rest[1] /\ c \in Consumer /\ 1 \in DOMAIN f.rest /\ f.rest # <<>>
      /\ \A u \in Threads : DOMAIN calls'[u] = DOMAIN calls[u]
      /\ \A u \in Threads : \A i \in DOMAIN calls[u] :
            ~(u = t /\ i = n) => calls'[u][i] = calls[u][i]
      /\ g.signal = f.signal
      /\ g.rest = Tail(f.rest)
      /\ heard' = IF Calls(c) THEN heard \cup {w} ELSE heard
      /\ UNCHANGED <<consumers, nextToken, signals>>
  BY CallFacts
<1>2. /\ f.rest \in Seq(Consumer) /\ w \in Nat \X Nat
      /\ FrameOK(f, signals, nextToken)
  BY <1>1 DEF Frame, Consumer, Inv, FramesOK, FrameOK
<1>3. \A p \in Nat \X Nat : Owes(g, p) <=> Owes(f, p) /\ p # w
  <2>1. /\ \A j \in DOMAIN g.rest : j \in Nat \ {0} /\ j + 1 \in DOMAIN f.rest /\ g.rest[j] = f.rest[j + 1]
        /\ \A j \in DOMAIN f.rest : j # 1 => j - 1 \in DOMAIN g.rest /\ f.rest[j] = g.rest[j - 1]
    <3> HIDE DEF f, g
    <3>1. f.rest \in Seq(Consumer) /\ f.rest # <<>> /\ g.rest = Tail(f.rest)
      BY <1>1, <1>2
    <3> HIDE DEF c, w
    <3>. QED
      BY <3>1, TailFacts, Zenon
  <2>2. \A j \in DOMAIN f.rest : j # 1 => f.rest[j].token # c.token
    BY <1>1, <1>2 DEF FrameOK
  <2>3. \A j \in DOMAIN g.rest : j + 1 # 1 /\ g.rest[j].token # c.token
    BY <2>1, <2>2
  <2>4. ASSUME NEW p \in Nat \X Nat, Owes(g, p)
        PROVE  Owes(f, p) /\ p # w
    BY <1>1, <2>1, <2>3, <2>4 DEF Owes
  <2>5. ASSUME NEW p \in Nat \X Nat, Owes(f, p), p # w
        PROVE  Owes(g, p)
    <3>1. PICK j \in DOMAIN f.rest : f.rest[j].active /\ f.rest[j].token = p[2]
      BY <2>5 DEF Owes
    <3>2. p[1] = f.signal /\ p = <<p[1], p[2]>>
      BY <2>5 DEF Owes
    <3>3. j # 1
      BY <1>1, <2>5, <3>1, <3>2
    <3>4. j - 1 \in DOMAIN g.rest /\ g.rest[j - 1] = f.rest[j]
      BY <2>1, <3>3
    <3> HIDE DEF f, g
    <3>. QED
      BY <1>1, <3>1, <3>2, <3>4 DEF Owes
  <2>. QED
    BY <2>4, <2>5
<1>4. \A u \in Threads : \A i \in DOMAIN calls[u] :
         ~(u = t /\ i = n) => ~Owes(calls[u][i], w)
  BY <1>1 DEF Inv, OneFrame, Owes
<1>5. \A p \in Nat \X Nat :
         p \in Owed <=> \E u \in Threads : \E i \in DOMAIN calls[u] : Owes(calls[u][i], p)
  BY OwedFacts DEF Inv
<1>6. \A p \in Nat \X Nat :
         p \in Owed' <=> \E u \in Threads : \E i \in DOMAIN calls'[u] : Owes(calls'[u][i], p)
  BY OwedAfter DEF Inv
<1>7. \A p \in Nat \X Nat, u \in Threads : \A i \in DOMAIN calls[u] :
         Owes(calls'[u][i], p) <=> Owes(calls[u][i], p) /\ p # w
  <2>1. ASSUME NEW p \in Nat \X Nat, NEW u \in Threads, NEW i \in DOMAIN calls[u]
        PROVE  Owes(calls'[u][i], p) <=> Owes(calls[u][i], p) /\ p # w
    <3>1. CASE u = t /\ i = n
      BY <1>3, <2>1, <3>1
    <3>2. CASE ~(u = t /\ i = n)
      BY <1>1, <1>4, <2>1, <3>2
    <3>. QED
      BY <3>1, <3>2
  <2>. QED
    BY <2>1
<1> HIDE DEF g
<1>8. \A p \in Nat \X Nat : p \in Owed' <=> p \in Owed /\ p # w
  BY <1>1, <1>5, <1>6, <1>7
<1>9. Owed \subseteq Nat \X Nat /\ Owed' \subseteq Nat \X Nat
  BY SMTT(30) DEF Owed, Inv, TypeOK
<1>10. Owed' = Owed \ {w}
  BY <1>8, <1>9
<1>11. Members' = Members
  BY <1>1 DEF Members
<1>12. CASE c.active
  <2>1. Owes(f, w)
    BY <1>1, <1>12 DEF Owes
  <2>2. w \in Owed
    BY <1>1, <1>2, <1>5, <2>1
  <2>3. w \notin heard
    BY <1>1, SMTT(30) DEF Inv, HeardOnce
  <2>4. heard' = IF w[2] \in Empty THEN heard ELSE heard \cup {w}
    BY <1>1, <1>12 DEF Calls
  <2> HIDE DEF w
  <2>5. Fanout!Serve
    BY <1>1, <1>10, <1>11, <2>2, <2>3, <2>4 DEF Fanout!Serve
  <2>. QED
    BY <2>5 DEF Fanout!Next
<1>13. CASE ~c.active
  <2>1. ~Owes(f, w)
    <3>1. \A j \in DOMAIN f.rest : f.rest[j].token = c.token => j = 1
      BY <1>1, <1>2 DEF FrameOK
    <3>. QED
      BY <1>1, <1>13, <3>1 DEF Owes
  <2>2. \A u \in Threads : \A i \in DOMAIN calls[u] : ~Owes(calls[u][i], w)
    BY <1>4, <2>1
  <2>3. w \notin Owed
    BY <1>2, <1>5, <2>2
  <2>4. Owed' = Owed
    BY <1>10, <2>3
  <2>5. heard' = heard
    BY <1>1, <1>13 DEF Calls
  <2>. QED
    BY <1>1, <1>11, <2>4, <2>5 DEF Fanout!vars
<1>. QED
  BY <1>12, <1>13

LEMMA ReturnRefines ==
    ASSUME Inv, Inv', NEW t \in Threads, ConsumerReturns(t) \/ DispatchReturns(t)
    PROVE  UNCHANGED Fanout!vars
<1>1. Owed' = Owed
  BY ReturnFacts, SameCopies
<1>2. UNCHANGED <<consumers, nextToken, signals, heard>>
  BY ReturnFacts
<1>. QED
  BY <1>1, <1>2 DEF Fanout!vars, Members

LEMMA InitRefines == Init => Fanout!Init
<1> SUFFICES ASSUME Init PROVE Fanout!Init
  OBVIOUS
<1>1. Members = {} /\ Owed = {}
  BY DEF Init, Members, Owed
<1>. QED
  BY <1>1 DEF Init, Fanout!Init

LEMMA NextRefines == Inv /\ Inv' /\ [Next]_vars => [Fanout!Next]_(Fanout!vars)
<1> SUFFICES ASSUME Inv, Inv', [Next]_vars PROVE [Fanout!Next]_(Fanout!vars)
  OBVIOUS
<1>1. ASSUME NEW t \in Threads,
             \/ RegisterConsumer(t)
             \/ \E k \in 0..nextToken : UnregisterConsumer(t, k)
             \/ Clear(t)
      PROVE  [Fanout!Next]_(Fanout!vars)
  BY <1>1, ListRefines
<1>2. ASSUME NEW t \in Threads, Dispatch(t)  PROVE [Fanout!Next]_(Fanout!vars)
  BY <1>2, DispatchRefines DEF Fanout!Next
<1>3. ASSUME NEW t \in Threads, DispatchGoesOn(t)  PROVE [Fanout!Next]_(Fanout!vars)
  BY <1>3, CallRefines, ReturnRefines DEF DispatchGoesOn
<1>4. CASE UNCHANGED vars
  BY <1>4 DEF vars, Fanout!vars, Members, Owed
<1>. QED
  BY <1>1, <1>2, <1>3, <1>4 DEF Next

\* For any number of threads, registrations and nested dispatches, the consumers
\* called for a signal are those registered when it was dispatched, each once.
THEOREM FansOutHolds == Spec => FansOut
<1>1. Inv /\ Inv' /\ [Next]_vars => [Fanout!Next]_(Fanout!vars)
  BY NextRefines
<1>2. Spec => Fanout!Init /\ [][Fanout!Next]_(Fanout!vars)
  BY <1>1, InitRefines, InvHolds, PTL DEF Spec
<1>. QED
  BY <1>2 DEF FansOut, Fanout!Spec
=============================================================================
