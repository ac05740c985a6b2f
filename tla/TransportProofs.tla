---------------------------- MODULE TransportProofs ----------------------------
(***************************************************************************)
(* Proofs about Transport, for every number of application threads, every  *)
(* stream, every chunking and every choice of calls: its types, the order  *)
(* of what it delivers, and, as long as nobody disconnects, that the three *)
(* mutexes, the chunks and the buffer come to AnswerDelivery, an in-order  *)
(* delivery of whole answers.                                              *)
(***************************************************************************)
EXTENDS Transport, SequenceTheorems, TLAPS

(* What the platform's thread has cut out has no prompt, and has text when *)
(* it is to be forwarded.                                                  *)
ResponseCut ==
    /\ \A i \in DOMAIN response : response[i] # Prompt
    /\ ble = "forward" => \E i \in DOMAIN response : response[i] # CR

TypeInv == TypeOK /\ ResponseCut

LEMMA TypeStutter ==
    ASSUME TypeInv, UNCHANGED vars
    PROVE  TypeInv'
  BY DEF TypeInv, TypeOK, ResponseCut, IsText, vars

(* A call only moves its thread.                                           *)
LEMMA GoesTypes ==
    ASSUME TypeInv, NEW t \in Threads, NEW from, NEW to \in CallStates, Goes(t, from, to)
    PROVE  at' \in [Threads -> CallStates]
  BY DEF TypeInv, TypeOK, Goes

LEMMA CallTypes ==
    ASSUME TypeInv, NEW t \in Threads, Call(t) \/ CallStep(t)
    PROVE  TypeInv'
  <1> USE DEF TypeInv, TypeOK, ResponseCut, IsText, platform, processing
  <1>1. CASE Call(t)
    <2>1. PICK c \in Operations : at' = [at EXCEPT ![t] = c]
      BY <1>1, TransportAssumption DEF Call
    <2>2. left' \in [Threads -> 0..MaxCalls]
      BY <1>1, TransportAssumption DEF Call
    <2> QED
      BY <1>1, <2>1, <2>2 DEF Call, CallStates
  <1>2. ASSUME CallStep(t) PROVE at' \in [Threads -> CallStates]
    BY <1>2, GoesTypes
       DEF CallStep, Connect, Disconnect, ClearBuffer, ClearCallback, IsConnectedOrSend,
           ReadData, SubscribeToNotifications, Unsubscribe, CallStates, Operations
  <1>3. CASE Connect(t)
    <2>1. Len(Stream) \in Nat
      BY TransportAssumption, LenProperties
    <2>2. connected' \in BOOLEAN /\ link' \in BOOLEAN /\ sent' \in 0..Len(Stream)
      <3>1. CASE UNCHANGED <<connected, platform>>
        BY <3>1
      <3>2. CASE connected' = FALSE /\ link' = FALSE /\ UNCHANGED sent
        BY <3>2
      <3>3. CASE connected' = TRUE /\ link' = TRUE /\ \E n \in sent..Len(Stream) : sent' = n
        BY <2>1, <3>3
      <3> QED
        BY <1>3, <3>1, <3>2, <3>3 DEF Connect
    <2> QED
      BY <1>2, <1>3, <2>2 DEF CallStep, Connect, Goes
  <1>4. CASE Disconnect(t) BY <1>2, <1>4 DEF CallStep, Disconnect, Goes
  <1>5. CASE ClearBuffer(t) BY <1>2, <1>5, EmptySeq DEF CallStep, ClearBuffer, Goes
  <1>6. CASE ClearCallback(t) BY <1>2, <1>6 DEF CallStep, ClearCallback, Goes
  <1>7. CASE IsConnectedOrSend(t) BY <1>2, <1>7 DEF CallStep, IsConnectedOrSend, Goes
  <1>8. CASE ReadData(t) BY <1>2, <1>8 DEF CallStep, ReadData, Goes
  <1>9. CASE SubscribeToNotifications(t)
    BY <1>2, <1>9 DEF CallStep, SubscribeToNotifications, Goes
  <1>10. CASE Unsubscribe(t) BY <1>2, <1>10 DEF CallStep, Unsubscribe, Goes
  <1> QED
    BY <1>1, <1>3, <1>4, <1>5, <1>6, <1>7, <1>8, <1>9, <1>10 DEF CallStep

(* What a notification, a section of extractCleanResponses and the         *)
(* callback leave behind.                                                  *)
LEMMA BleTypes ==
    ASSUME TypeInv, ReceiveData \/ Process
    PROVE  TypeInv'
  <1> USE DEF TypeInv, TypeOK, ResponseCut, IsText, BleGoes, BleStates
  <1>1. CASE ReceiveData
    <2>1. PICK n \in ChunkSizes : /\ sent + n <= Len(Stream)
                                  /\ incoming' = SubSeq(Stream, sent + 1, sent + n)
                                  /\ sent' = sent + n
      BY <1>1 DEF ReceiveData
    <2>2. Stream \in Seq(Tokens) /\ n \in Nat
      BY TransportAssumption
    <2>3. incoming' \in Seq(Tokens) /\ sent' \in 0..Len(Stream)
      BY <2>1, <2>2, SubSeqProperties, LenProperties
    <2> QED
      BY <1>1, <2>3 DEF ReceiveData
  <1>2. CASE Insert
    <2>1. receive_buffer' \in Seq(Tokens) /\ incoming' \in Seq(Tokens)
      BY <1>2, ConcatProperties, EmptySeq DEF Insert
    <2> QED
      BY <1>2, <2>1 DEF Insert
  <1>3. CASE EnterExtract BY <1>3 DEF EnterExtract
  <1>4. CASE NoPromptYet BY <1>4 DEF NoPromptYet
  <1>5. CASE CutResponse
    <2>1. PICK p \in DOMAIN receive_buffer : IsFirstPrompt(p) /\ Cut(p, p + 1, HasText(p))
      BY <1>5 DEF CutResponse
    <2>2. p \in 1..Len(receive_buffer)
      BY LenProperties
    <2> DEFINE before == SubSeq(receive_buffer, 1, p - 1)
    <2>3. /\ receive_buffer' \in Seq(Tokens)
          /\ before \in Seq(Tokens) /\ Len(before) = p - 1
          /\ \A i \in 1..(p - 1) : before[i] = receive_buffer[i]
      BY <2>1, <2>2, SubSeqProperties, LenProperties, Z3T(30) DEF Cut
    <2>4. DOMAIN before = 1..(p - 1)
      BY <2>2, <2>3, LenProperties
    <2> HIDE DEF before
    <2>5. CASE HasText(p)
      <3>1. response' = before /\ ble' = "forward"
        BY <2>1, <2>5 DEF Cut, before
      <3>2. ResponseCut'
        BY <2>1, <2>3, <2>4, <2>5, <3>1 DEF IsFirstPrompt, HasText
      <3> QED
        BY <2>1, <2>3, <3>1, <3>2 DEF Cut
    <2>6. CASE ~HasText(p)
      BY <2>1, <2>3, <2>6 DEF Cut
    <2> QED
      BY <2>5, <2>6
  <1>6. CASE ForwardResponse
    <2>1. PICK n \in 0..Len(response) :
            /\ EndsText(response, n)
            /\ \/ /\ notification_callback /\ BleGoes("forward", "inCallback")
                  /\ delivered' = Append(delivered, SubSeq(response, 1, n))
               \/ ~notification_callback /\ BleGoes("forward", "scan") /\ UNCHANGED delivered
      BY <1>6 DEF ForwardResponse
    <2> DEFINE text == SubSeq(response, 1, n)
    <2>2. /\ text \in Seq(Tokens) /\ Len(text) = n
          /\ \A i \in 1..n : text[i] = response[i]
      BY <2>1, SubSeqProperties, LenProperties
    <2>3. n > 0
      BY <1>6, <2>1, LenProperties DEF EndsText, ForwardResponse
    <2>4. DOMAIN text = 1..n
      BY <2>2, LenProperties
    <2> HIDE DEF text
    <2>5. IsText(text)
      <3>1. text # <<>>
        BY <2>2, <2>3, EmptySeq
      <3>2. text[Len(text)] # CR
        BY <2>1, <2>2, <2>3 DEF EndsText
      <3>3. \A i \in 1..n : response[i] # Prompt
        BY <2>1, LenProperties
      <3>4. \A i \in DOMAIN text : text[i] # Prompt
        BY <2>2, <2>4, <3>3
      <3> QED
        BY <3>1, <3>2, <3>4
    <2>6. delivered' \in Seq(Seq(Tokens)) /\ \A i \in DOMAIN delivered' : IsText(delivered'[i])
      <3>1. CASE delivered' = Append(delivered, text)
        <4>1. /\ delivered' \in Seq(Seq(Tokens))
              /\ Len(delivered') = Len(delivered) + 1
              /\ \A i \in 1..Len(delivered) : delivered'[i] = delivered[i]
              /\ delivered'[Len(delivered) + 1] = text
          BY <2>2, <3>1, AppendProperties
        <4>2. DOMAIN delivered' = 1..(Len(delivered) + 1) /\ DOMAIN delivered = 1..Len(delivered)
              /\ Len(delivered) \in Nat
          BY <4>1, LenProperties
        <4>3. \A i \in 1..(Len(delivered) + 1) : i \in 1..Len(delivered) \/ i = Len(delivered) + 1
          BY <4>2
        <4>4. \A i \in 1..Len(delivered) : IsText(delivered[i])
          BY <4>2
        <4> HIDE DEF IsText
        <4>5. \A i \in 1..(Len(delivered) + 1) : IsText(delivered'[i])
          BY <2>5, <4>1, <4>3, <4>4
        <4> QED
          BY <4>1, <4>2, <4>5
      <3>2. CASE UNCHANGED delivered
        BY <3>2
      <3> QED
        BY <2>1, <3>1, <3>2 DEF text
    <2> QED
      BY <1>6, <2>1, <2>6, EmptySeq DEF ForwardResponse
  <1>7. CASE CallbackReturns BY <1>7 DEF CallbackReturns
  <1> QED
    BY <1>1, <1>2, <1>3, <1>4, <1>5, <1>6, <1>7 DEF Process

LEMMA TypeStep == TypeInv /\ [Next]_vars => TypeInv'
  <1> SUFFICES ASSUME TypeInv, [Next]_vars PROVE TypeInv'
    OBVIOUS
  <1>1. CASE \E t \in Threads : Call(t) \/ CallStep(t)
    BY <1>1, CallTypes
  <1>2. CASE ReceiveData \/ Process
    BY <1>2, BleTypes
  <1>3. CASE LoseLink
    BY <1>3 DEF LoseLink, TypeInv, TypeOK, ResponseCut, IsText, processing
  <1>4. CASE UNCHANGED vars
    BY <1>4, TypeStutter
  <1> QED
    BY <1>1, <1>2, <1>3, <1>4 DEF Next

LEMMA InitTypes == Init => TypeInv
  <1> SUFFICES ASSUME Init PROVE TypeInv
    OBVIOUS
  <1>1. \A S : <<>> \in Seq(S)
    BY EmptySeq
  <1>2. DOMAIN <<>> = {}
    OBVIOUS
  <1>3. Len(Stream) \in Nat /\ MaxCalls \in Nat
    BY TransportAssumption, LenProperties
  <1>4. at \in [Threads -> CallStates] /\ left \in [Threads -> 0..MaxCalls]
    BY <1>3 DEF Init, CallStates
  <1>5. delivered \in Seq(Seq(Tokens)) /\ \A i \in DOMAIN delivered : IsText(delivered[i])
    BY <1>1, <1>2 DEF Init
  <1>6. ResponseCut
    BY <1>2 DEF Init, ResponseCut
  <1>7. /\ receive_buffer \in Seq(Tokens) /\ incoming \in Seq(Tokens)
        /\ response \in Seq(Tokens)
    BY <1>1 DEF Init
  <1>8. connected \in BOOLEAN /\ notification_callback \in BOOLEAN /\ link \in BOOLEAN
        /\ mute \in BOOLEAN
    BY DEF Init
  <1>9. sent \in 0..Len(Stream) /\ ble \in BleStates
    BY <1>3 DEF Init, BleStates
  <1> QED
    BY <1>4, <1>5, <1>6, <1>7, <1>8, <1>9 DEF TypeInv, TypeOK

LEMMA TypeAlways == Spec => []TypeInv
  <1> QED
    BY InitTypes, TypeStep, PTL DEF Spec

(* Every variable keeps its type, and every response that reaches the      *)
(* callback has text, no prompt and no carriage return at its end.         *)
THEOREM TransportTypeCorrect == Spec => []TypeOK
  <1>1. TypeInv => TypeOK
    BY DEF TypeInv
  <1> QED
    BY <1>1, TypeAlways, PTL

-----------------------------------------------------------------------------
(* The callback runs only while it is set: clearing or replacing it waits  *)
(* for callback_mutex_, which forwardResponse holds over the call.         *)
RunsWhileSet == ble = "inCallback" => notification_callback

LEMMA RunsWhileSetStep ==
    ASSUME RunsWhileSet, [Next]_vars
    PROVE  RunsWhileSet'
  <1> USE DEF RunsWhileSet, platform, processing
  <1>1. ASSUME NEW t \in Threads, Call(t) \/ CallStep(t) PROVE RunsWhileSet'
    <2>1. BLE \in Threads
      BY DEF Threads
    <2>2. CASE ClearCallback(t) \/ Unsubscribe(t) \/ SubscribeToNotifications(t)
      BY <2>1, <2>2
         DEF ClearCallback, Unsubscribe, SubscribeToNotifications, Goes, CallbackFree,
             HoldsCallback
    <2>3. CASE Call(t) \/ Connect(t) \/ Disconnect(t) \/ ClearBuffer(t)
               \/ IsConnectedOrSend(t) \/ ReadData(t)
      BY <2>3 DEF Call, Connect, Disconnect, ClearBuffer, IsConnectedOrSend, ReadData, Goes
    <2> QED
      BY <1>1, <2>2, <2>3 DEF CallStep
  <1>2. CASE ReceiveData \/ Process
    BY <1>2 DEF ReceiveData, Process, Insert, EnterExtract, NoPromptYet, CutResponse, Cut,
                ForwardResponse, CallbackReturns, BleGoes
  <1>3. CASE LoseLink BY <1>3 DEF LoseLink
  <1>4. CASE UNCHANGED vars BY <1>4 DEF vars
  <1> QED
    BY <1>1, <1>2, <1>3, <1>4 DEF Next

(* Where the callers may count on silence, no callback is set, and no call *)
(* that could set one is under way.                                        *)
MuteMeansCleared == mute => ~notification_callback /\ ~Subscribing

LEMMA MuteStep ==
    ASSUME TypeOK, MuteMeansCleared, [Next]_vars
    PROVE  MuteMeansCleared'
  <1> USE DEF MuteMeansCleared, Subscribing, platform, processing
  <1>1. ASSUME NEW t \in Threads, Call(t) PROVE MuteMeansCleared'
    BY <1>1 DEF Call, TypeOK
  <1>2. ASSUME NEW t \in Threads, ClearCallback(t) \/ Unsubscribe(t) PROVE MuteMeansCleared'
    BY <1>2 DEF ClearCallback, Unsubscribe, Goes, TypeOK
  <1>3. ASSUME NEW t \in Threads, SubscribeToNotifications(t) PROVE MuteMeansCleared'
    BY <1>3 DEF SubscribeToNotifications, Goes, Silencing
  <1>4. ASSUME NEW t \in Threads,
               \/ Connect(t) \/ Disconnect(t) \/ ClearBuffer(t)
               \/ IsConnectedOrSend(t) \/ ReadData(t)
        PROVE  MuteMeansCleared'
    BY <1>4 DEF Connect, Disconnect, ClearBuffer, IsConnectedOrSend, ReadData, Goes, Silencing,
                TypeOK
  <1>5. CASE ReceiveData \/ Process \/ LoseLink \/ UNCHANGED vars
    <2>1. UNCHANGED <<notification_callback, at, mute>>
      BY <1>5 DEF ReceiveData, Process, Insert, EnterExtract, NoPromptYet, CutResponse, Cut,
                  ForwardResponse, CallbackReturns, BleGoes, LoseLink, vars
    <2> QED
      BY <2>1
  <1> QED
    BY <1>1, <1>2, <1>3, <1>4, <1>5 DEF Next, CallStep

(* Once unsubscribe, or a disconnect that had a connection to end, has     *)
(* returned, the callback does not run until somebody subscribes, whatever *)
(* chunks are still on their way.                                          *)
THEOREM CallbackIsSilenced == Spec => []Silence
  <1>1. Init => RunsWhileSet /\ MuteMeansCleared
    BY DEF Init, RunsWhileSet, MuteMeansCleared, Subscribing
  <1>2. RunsWhileSet /\ [Next]_vars => RunsWhileSet'
    BY RunsWhileSetStep
  <1>3. TypeOK /\ MuteMeansCleared /\ [Next]_vars => MuteMeansCleared'
    BY MuteStep
  <1>4. RunsWhileSet /\ MuteMeansCleared => Silence
    BY DEF RunsWhileSet, MuteMeansCleared, Silence
  <1> QED
    BY <1>1, <1>2, <1>3, <1>4, TransportTypeCorrect, PTL DEF Spec

-----------------------------------------------------------------------------
(* The n elements of s that follow its first m.                            *)
LEMMA SliceProperties ==
    ASSUME NEW S, NEW s \in Seq(S), NEW m \in Nat, NEW n \in Nat, m + n <= Len(s)
    PROVE  /\ SubSeq(s, m + 1, m + n) \in Seq(S)
           /\ Len(SubSeq(s, m + 1, m + n)) = n
           /\ \A i \in 1..n : SubSeq(s, m + 1, m + n)[i] = s[m + i]
  <1>1. \A i \in (m + 1)..(m + n) : s[i] \in S
    BY LenProperties
  <1>2. m + 1 \in Int /\ m + n \in Int
    OBVIOUS
  <1> DEFINE slice == SubSeq(s, m + 1, m + n)
  <1>3. /\ slice \in Seq(S)
        /\ Len(slice) = IF m + 1 <= m + n THEN (m + n) - (m + 1) + 1 ELSE 0
        /\ \A i \in 1..((m + n) - (m + 1) + 1) : slice[i] = s[(m + 1) + i - 1]
    BY <1>1, <1>2, SubSeqProperties
  <1> HIDE DEF slice
  <1>4. (m + n) - (m + 1) + 1 = n
    OBVIOUS
  <1>5. Len(slice) = n
    BY <1>3, <1>4
  <1>6. \A i \in 1..n : (m + 1) + i - 1 = m + i
    OBVIOUS
  <1>7. \A i \in 1..n : slice[i] = s[m + i]
    BY <1>3, <1>4, <1>6
  <1> QED
    BY <1>3, <1>5, <1>7 DEF slice

(* The order of what is delivered.  The stream's texts are numbered.       *)
IsWord(token) == token \notin {Prompt, CR}

Numbered ==
    \A i, j \in DOMAIN Stream :
        i < j /\ IsWord(Stream[i]) /\ IsWord(Stream[j]) => Stream[i] < Stream[j]

Elements(s) == {s[i] : i \in DOMAIN s}
Below(A, B) == \A a \in A, b \in B : IsWord(a) /\ IsWord(b) => a < b
Ascending(s) ==
    \A i, j \in DOMAIN s : i < j /\ IsWord(s[i]) /\ IsWord(s[j]) => s[i] < s[j]

(* What the adapter has still to send, and what comes after a response,    *)
(* after the buffer and after what has been delivered.                     *)
Coming == {Stream[i] : i \in (sent + 1)..Len(Stream)}
AfterBuffer == Elements(incoming) \cup Coming
AfterResponse == Elements(receive_buffer) \cup AfterBuffer
AfterDelivered == Elements(response) \cup AfterResponse

(* Chunk, buffer and response may have gaps, where a link was lost, but    *)
(* each token in them comes after all that is in those ahead of them.      *)
PartsInOrder ==
    /\ Ascending(incoming) /\ Below(Elements(incoming), Coming)
    /\ Ascending(receive_buffer) /\ Below(Elements(receive_buffer), AfterBuffer)
    /\ Ascending(response) /\ Below(Elements(response), AfterResponse)

DeliveredInOrder ==
    /\ \A i \in DOMAIN delivered :
         Ascending(delivered[i]) /\ Below(Elements(delivered[i]), AfterDelivered)
    /\ \A i, j \in DOMAIN delivered :
         i < j => Below(Elements(delivered[i]), Elements(delivered[j]))

OrderInv == TypeInv /\ PartsInOrder /\ DeliveredInOrder

LEMMA BelowShrinks ==
    ASSUME NEW A, NEW B, NEW C, NEW D, Below(A, B), C \subseteq A, D \subseteq B
    PROVE  Below(C, D)
  BY DEF Below

(* A part of a sequence is ordered as the sequence is.                     *)
LEMMA SliceInOrder ==
    ASSUME NEW S, NEW s \in Seq(S), NEW first \in Nat, NEW last \in Nat,
           0 < first, first <= last + 1, last <= Len(s)
    PROVE  /\ SubSeq(s, first, last) \in Seq(S)
           /\ DOMAIN SubSeq(s, first, last) = 1..(last - first + 1)
           /\ \A i \in DOMAIN SubSeq(s, first, last) :
                 /\ i + first - 1 \in DOMAIN s
                 /\ SubSeq(s, first, last)[i] = s[i + first - 1]
           /\ Elements(SubSeq(s, first, last)) \subseteq Elements(s)
           /\ Ascending(s) => Ascending(SubSeq(s, first, last))
  <1> DEFINE slice == SubSeq(s, first, last)
             m == first - 1
             n == last - first + 1
  <1>1. m \in Nat /\ n \in Nat /\ m + 1 = first /\ m + n = last /\ Len(s) \in Nat
    BY LenProperties
  <1> HIDE DEF m, n
  <1>2. slice = SubSeq(s, m + 1, m + n) /\ m + n <= Len(s)
    BY <1>1
  <1> HIDE DEF slice
  <1>3. /\ slice \in Seq(S) /\ Len(slice) = n
        /\ \A i \in 1..n : slice[i] = s[m + i]
    BY <1>1, <1>2, SliceProperties
  <1>4. DOMAIN slice = 1..n /\ DOMAIN s = 1..Len(s)
    BY <1>3, LenProperties
  <1>5. \A i \in 1..n : m + i \in DOMAIN s /\ m + i = i + first - 1
    BY <1>1, <1>2, <1>4
  <1>6. \A i \in DOMAIN slice : i + first - 1 \in DOMAIN s /\ slice[i] = s[i + first - 1]
    BY <1>3, <1>4, <1>5
  <1>7. Elements(slice) \subseteq Elements(s)
    BY <1>6 DEF Elements
  <1>8. ASSUME Ascending(s) PROVE Ascending(slice)
    <2>1. \A i, j \in DOMAIN slice : i < j => i + first - 1 < j + first - 1
      BY <1>4
    <2> QED
      BY <1>6, <1>8, <2>1 DEF Ascending
  <1> QED
    BY <1>3, <1>4, <1>6, <1>7, <1>8 DEF n, slice

LEMMA NothingIsInOrder ==
    Ascending(<<>>) /\ Elements(<<>>) = {} /\ \A A : Below({}, A)
  BY DEF Ascending, Elements, Below

(* Two sequences, one after the other.                                     *)
LEMMA JoinInOrder ==
    ASSUME NEW S, NEW s \in Seq(S), NEW t \in Seq(S), Ascending(s), Ascending(t),
           Below(Elements(s), Elements(t))
    PROVE  Ascending(s \o t) /\ Elements(s \o t) = Elements(s) \cup Elements(t)
  <1> DEFINE joined == s \o t
  <1>1. /\ Len(s) \in Nat /\ Len(t) \in Nat /\ DOMAIN s = 1..Len(s) /\ DOMAIN t = 1..Len(t)
        /\ DOMAIN joined = 1..(Len(s) + Len(t))
    BY ConcatProperties, LenProperties
  <1>2. \A i \in 1..(Len(s) + Len(t)) :
            joined[i] = IF i <= Len(s) THEN s[i] ELSE t[i - Len(s)]
    BY ConcatProperties
  <1> HIDE DEF joined
  <1>3. \A i \in 1..(Len(s) + Len(t)) :
            \/ i \in DOMAIN s /\ joined[i] = s[i]
            \/ i > Len(s) /\ i - Len(s) \in DOMAIN t /\ joined[i] = t[i - Len(s)]
    BY <1>1, <1>2
  <1>4. /\ \A i \in DOMAIN s : i \in DOMAIN joined /\ joined[i] = s[i]
        /\ \A i \in DOMAIN t : Len(s) + i \in DOMAIN joined /\ joined[Len(s) + i] = t[i]
    BY <1>1, <1>2
  <1>5. Elements(joined) = Elements(s) \cup Elements(t)
    BY <1>1, <1>3, <1>4 DEF Elements
  <1>6. Ascending(joined)
    <2> SUFFICES ASSUME NEW i \in 1..(Len(s) + Len(t)), NEW j \in 1..(Len(s) + Len(t)),
                        i < j, IsWord(joined[i]), IsWord(joined[j])
                 PROVE  joined[i] < joined[j]
      BY <1>1 DEF Ascending
    <2>1. CASE j \in DOMAIN s /\ joined[j] = s[j]
      <3>1. i \in DOMAIN s /\ joined[i] = s[i]
        BY <1>1, <1>4, <2>1
      <3> QED
        BY <2>1, <3>1 DEF Ascending
    <2>2. CASE j > Len(s) /\ j - Len(s) \in DOMAIN t /\ joined[j] = t[j - Len(s)]
      <3>1. CASE i \in DOMAIN s /\ joined[i] = s[i]
        BY <2>2, <3>1 DEF Below, Elements
      <3>2. CASE i > Len(s) /\ i - Len(s) \in DOMAIN t /\ joined[i] = t[i - Len(s)]
        <4>1. i - Len(s) < j - Len(s)
          BY <1>1
        <4> QED
          BY <2>2, <3>2, <4>1 DEF Ascending
      <3> QED
        BY <1>3, <3>1, <3>2
    <2> QED
      BY <1>3, <2>1, <2>2
  <1> QED
    BY <1>5, <1>6 DEF joined

(* Nothing moves, except that more of the stream may be past: a new link   *)
(* starts at the next answer.                                              *)
LEMMA OrderStutter ==
    ASSUME OrderInv, UNCHANGED <<incoming, response, delivered>>,
           receive_buffer' = receive_buffer \/ receive_buffer' = <<>>,
           Coming' \subseteq Coming
    PROVE  PartsInOrder' /\ DeliveredInOrder'
  <1>1. /\ Ascending(receive_buffer) => Ascending(receive_buffer')
        /\ Elements(receive_buffer') \subseteq Elements(receive_buffer)
    BY NothingIsInOrder
  <1>2. /\ AfterBuffer' \subseteq AfterBuffer /\ AfterResponse' \subseteq AfterResponse
        /\ AfterDelivered' \subseteq AfterDelivered
    BY <1>1 DEF AfterBuffer, AfterResponse, AfterDelivered
  <1>3. PartsInOrder'
    BY <1>1, <1>2, BelowShrinks DEF OrderInv, PartsInOrder
  <1>4. DeliveredInOrder'
    BY <1>2, BelowShrinks DEF OrderInv, DeliveredInOrder
  <1> QED
    BY <1>3, <1>4

LEMMA SentStays ==
    ASSUME TypeInv, NEW n \in sent..Len(Stream), sent' = n
    PROVE  Coming' \subseteq Coming
  <1>1. Len(Stream) \in Nat /\ sent \in 0..Len(Stream)
    BY TransportAssumption, LenProperties DEF TypeInv, TypeOK
  <1>2. (n + 1)..Len(Stream) \subseteq (sent + 1)..Len(Stream)
    BY <1>1
  <1>3. Coming' = {Stream[i] : i \in (n + 1)..Len(Stream)}
    BY DEF Coming
  <1> QED
    BY <1>2, <1>3 DEF Coming

LEMMA OrderCalls ==
    ASSUME OrderInv, NEW t \in Threads, Call(t) \/ CallStep(t)
    PROVE  PartsInOrder' /\ DeliveredInOrder'
  <1> USE DEF platform, processing
  <1>1. sent \in 0..Len(Stream) /\ Len(Stream) \in Nat
    BY TransportAssumption, LenProperties DEF OrderInv, TypeInv, TypeOK
  <1>2. CASE Connect(t)
    <2>1. sent' \in sent..Len(Stream)
      BY <1>1, <1>2 DEF Connect
    <2>2. UNCHANGED <<incoming, response, delivered, receive_buffer>>
      BY <1>2 DEF Connect, Goes
    <2> QED
      BY <2>1, <2>2, SentStays, OrderStutter DEF OrderInv
  <1>3. CASE Call(t) \/ (CallStep(t) /\ ~Connect(t))
    <2>1. UNCHANGED <<incoming, response, delivered, sent>>
      BY <1>3 DEF Call, CallStep, Disconnect, ClearBuffer, ClearCallback, IsConnectedOrSend,
                  ReadData, SubscribeToNotifications, Unsubscribe, Goes
    <2>2. receive_buffer' = receive_buffer \/ receive_buffer' = <<>>
      BY <1>3 DEF Call, CallStep, Disconnect, ClearBuffer, ClearCallback, IsConnectedOrSend,
                  ReadData, SubscribeToNotifications, Unsubscribe
    <2>3. Coming' = Coming
      BY <2>1 DEF Coming
    <2> QED
      BY <2>1, <2>2, <2>3, OrderStutter
  <1> QED
    BY <1>2, <1>3 DEF CallStep

(* A chunk is what comes next of the stream.                               *)
LEMMA OrderReceive ==
    ASSUME Numbered, OrderInv, ReceiveData
    PROVE  PartsInOrder' /\ DeliveredInOrder'
  <1>1. PICK n \in ChunkSizes : /\ sent + n <= Len(Stream)
                                /\ incoming' = SubSeq(Stream, sent + 1, sent + n)
                                /\ sent' = sent + n
    BY DEF ReceiveData
  <1>2. /\ Stream \in Seq(Tokens) /\ n \in Nat /\ sent \in Nat /\ Len(Stream) \in Nat
        /\ DOMAIN Stream = 1..Len(Stream)
    BY TransportAssumption, LenProperties DEF OrderInv, TypeInv, TypeOK
  <1> DEFINE chunk == SubSeq(Stream, sent + 1, sent + n)
  <1>3. /\ DOMAIN chunk = 1..n
        /\ \A i \in 1..n : sent + i \in DOMAIN Stream /\ chunk[i] = Stream[sent + i]
        /\ Ascending(Stream) => Ascending(chunk)
    <2>1. /\ DOMAIN chunk = 1..((sent + n) - (sent + 1) + 1)
          /\ \A i \in DOMAIN chunk : /\ i + (sent + 1) - 1 \in DOMAIN Stream
                                    /\ chunk[i] = Stream[i + (sent + 1) - 1]
          /\ Ascending(Stream) => Ascending(chunk)
      <3>1. /\ sent + 1 \in Nat /\ sent + n \in Nat /\ 0 < sent + 1
            /\ sent + 1 <= (sent + n) + 1 /\ sent + n <= Len(Stream)
        BY <1>1, <1>2
      <3> QED
        BY <1>2, <3>1, SliceInOrder
    <2>2. /\ (sent + n) - (sent + 1) + 1 = n
          /\ \A i \in 1..n : i + (sent + 1) - 1 = sent + i
      BY <1>2
    <2> QED
      BY <2>1, <2>2
  <1> HIDE DEF chunk
  <1>4. incoming' = chunk /\ Ascending(incoming')
    BY <1>1, <1>3 DEF Numbered, Ascending, chunk
  <1>5. Elements(incoming') \subseteq Coming
    <2>1. \A i \in 1..n : sent + i \in (sent + 1)..Len(Stream)
      BY <1>1, <1>2
    <2> QED
      BY <1>3, <1>4, <2>1 DEF Elements, Coming
  <1>6. Coming' \subseteq Coming
    BY <1>1, <1>2 DEF Coming
  <1>7. Below(Elements(incoming'), Coming')
    <2>1. Coming' = {Stream[j] : j \in (sent + n + 1)..Len(Stream)}
      BY <1>1 DEF Coming
    <2>2. ASSUME NEW i \in 1..n, NEW j \in (sent + n + 1)..Len(Stream),
                 IsWord(Stream[sent + i]), IsWord(Stream[j])
          PROVE  Stream[sent + i] < Stream[j]
      <3>1. sent + i < j /\ sent + i \in DOMAIN Stream /\ j \in DOMAIN Stream
        BY <1>1, <1>2
      <3> QED
        BY <2>2, <3>1 DEF Numbered
    <2>3. Elements(incoming') = {Stream[sent + i] : i \in 1..n}
      BY <1>3, <1>4 DEF Elements
    <2> QED
      BY <2>1, <2>2, <2>3 DEF Below
  <1>8. UNCHANGED <<receive_buffer, response, delivered>>
    BY DEF ReceiveData
  <1>9. /\ AfterBuffer' \subseteq AfterBuffer /\ AfterResponse' \subseteq AfterResponse
        /\ AfterDelivered' \subseteq AfterDelivered
    BY <1>5, <1>6, <1>8 DEF AfterBuffer, AfterResponse, AfterDelivered
  <1>10. PartsInOrder'
    BY <1>4, <1>7, <1>8, <1>9, BelowShrinks DEF OrderInv, PartsInOrder
  <1>11. DeliveredInOrder'
    BY <1>8, <1>9, BelowShrinks DEF OrderInv, DeliveredInOrder
  <1> QED
    BY <1>10, <1>11

LEMMA OrderInsert ==
    ASSUME OrderInv, Insert
    PROVE  PartsInOrder' /\ DeliveredInOrder'
  <1>1. /\ receive_buffer' = receive_buffer \o incoming /\ incoming' = <<>>
        /\ UNCHANGED <<response, sent, delivered>>
    BY DEF Insert
  <1>2. receive_buffer \in Seq(Tokens) /\ incoming \in Seq(Tokens)
    BY DEF OrderInv, TypeInv, TypeOK
  <1>3. Below(Elements(receive_buffer), Elements(incoming))
    BY BelowShrinks DEF OrderInv, PartsInOrder, AfterBuffer
  <1>4. /\ Ascending(receive_buffer')
        /\ Elements(receive_buffer') = Elements(receive_buffer) \cup Elements(incoming)
    BY <1>1, <1>2, <1>3, JoinInOrder DEF OrderInv, PartsInOrder
  <1>5. Elements(incoming') = {} /\ Ascending(incoming') /\ Coming' = Coming
    BY <1>1, NothingIsInOrder DEF Coming
  <1>6. /\ AfterBuffer' = Coming /\ AfterResponse' = AfterResponse
        /\ AfterDelivered' = AfterDelivered
    BY <1>1, <1>4, <1>5 DEF AfterBuffer, AfterResponse, AfterDelivered
  <1>7. Below(Elements(receive_buffer'), Coming)
    BY <1>4 DEF OrderInv, PartsInOrder, AfterBuffer, Below
  <1>8. PartsInOrder'
    BY <1>1, <1>4, <1>5, <1>6, <1>7, NothingIsInOrder DEF OrderInv, PartsInOrder
  <1>9. DeliveredInOrder'
    BY <1>1, <1>6 DEF OrderInv, DeliveredInOrder
  <1> QED
    BY <1>8, <1>9

(* What is cut out of the buffer comes before what stays in it.            *)
LEMMA OrderCut ==
    ASSUME OrderInv, CutResponse
    PROVE  PartsInOrder' /\ DeliveredInOrder'
  <1>1. PICK p \in DOMAIN receive_buffer : IsFirstPrompt(p) /\ Cut(p, p + 1, HasText(p))
    BY DEF CutResponse
  <1> DEFINE buffer == receive_buffer
             before == SubSeq(buffer, 1, p - 1)
             after == SubSeq(buffer, p + 1, Len(buffer))
  <1>2. buffer \in Seq(Tokens) /\ Len(buffer) \in Nat /\ DOMAIN buffer = 1..Len(buffer)
    BY LenProperties DEF OrderInv, TypeInv, TypeOK
  <1>3. p \in Nat /\ p - 1 \in Nat /\ Len(buffer) - p \in Nat /\ p <= Len(buffer)
    BY <1>2
  <1>4. /\ receive_buffer' = after /\ (HasText(p) => response' = before)
        /\ (~HasText(p) => response' = response)
        /\ UNCHANGED <<incoming, sent, delivered>>
    BY <1>1 DEF Cut
  <1>5. /\ DOMAIN before = 1..(p - 1)
        /\ \A i \in 1..(p - 1) : i \in DOMAIN buffer /\ before[i] = buffer[i]
        /\ Elements(before) \subseteq Elements(buffer)
        /\ Ascending(buffer) => Ascending(before)
    <2>1. /\ DOMAIN before = 1..((p - 1) - 1 + 1)
          /\ \A i \in DOMAIN before : /\ i + 1 - 1 \in DOMAIN buffer
                                     /\ before[i] = buffer[i + 1 - 1]
          /\ Elements(before) \subseteq Elements(buffer)
          /\ Ascending(buffer) => Ascending(before)
      <3>1. 1 \in Nat /\ 0 < 1 /\ 1 <= (p - 1) + 1 /\ p - 1 <= Len(buffer)
        BY <1>2, <1>3
      <3> QED
        BY <1>2, <1>3, <3>1, SliceInOrder
    <2> QED
      BY <1>3, <2>1
  <1>6. /\ DOMAIN after = 1..(Len(buffer) - p)
        /\ \A i \in 1..(Len(buffer) - p) : p + i \in DOMAIN buffer /\ after[i] = buffer[p + i]
        /\ Elements(after) \subseteq Elements(buffer)
        /\ Ascending(buffer) => Ascending(after)
    <2>1. /\ DOMAIN after = 1..(Len(buffer) - (p + 1) + 1)
          /\ \A i \in DOMAIN after : /\ i + (p + 1) - 1 \in DOMAIN buffer
                                    /\ after[i] = buffer[i + (p + 1) - 1]
          /\ Elements(after) \subseteq Elements(buffer)
          /\ Ascending(buffer) => Ascending(after)
      <3>1. p + 1 \in Nat /\ 0 < p + 1 /\ p + 1 <= Len(buffer) + 1 /\ Len(buffer) <= Len(buffer)
        BY <1>2, <1>3
      <3> QED
        BY <1>2, <3>1, SliceInOrder
    <2>2. /\ Len(buffer) - (p + 1) + 1 = Len(buffer) - p
          /\ \A i \in 1..(Len(buffer) - p) : i + (p + 1) - 1 = p + i
      BY <1>2, <1>3
    <2> QED
      BY <2>1, <2>2
  <1> HIDE DEF before, after
  <1>7. Ascending(buffer) /\ Below(Elements(buffer), AfterBuffer)
    BY DEF OrderInv, PartsInOrder
  <1>8. Below(Elements(before), Elements(after))
    <2>1. ASSUME NEW i \in 1..(p - 1), NEW j \in 1..(Len(buffer) - p),
                 IsWord(before[i]), IsWord(after[j])
          PROVE  before[i] < after[j]
      <3>1. before[i] = buffer[i] /\ after[j] = buffer[p + j] /\ i < p + j
        BY <1>3, <1>5, <1>6
      <3>2. i \in DOMAIN buffer /\ p + j \in DOMAIN buffer
        BY <1>2, <1>3
      <3> QED
        BY <1>7, <2>1, <3>1, <3>2 DEF Ascending
    <2> QED
      BY <1>5, <1>6, <2>1 DEF Below, Elements
  <1>9. /\ AfterBuffer' = AfterBuffer /\ Coming' = Coming
        /\ AfterResponse' = Elements(after) \cup AfterBuffer
    BY <1>4 DEF AfterBuffer, AfterResponse, Coming
  <1>10. Ascending(response') /\ Below(Elements(response'), AfterResponse')
    <2>1. CASE HasText(p)
      <3>1. Below(Elements(before), AfterBuffer)
        BY <1>5, <1>7, BelowShrinks
      <3>2. Below(Elements(before), AfterResponse')
        BY <1>8, <1>9, <3>1 DEF Below
      <3> QED
        BY <1>4, <1>5, <1>7, <2>1, <3>2
    <2>2. CASE ~HasText(p)
      <3>1. AfterResponse' \subseteq AfterResponse
        BY <1>6, <1>9 DEF AfterResponse
      <3> QED
        BY <1>4, <2>2, <3>1, BelowShrinks DEF OrderInv, PartsInOrder
    <2> QED
      BY <2>1, <2>2
  <1>11. PartsInOrder'
    BY <1>4, <1>6, <1>7, <1>9, <1>10, BelowShrinks DEF OrderInv, PartsInOrder
  <1>12. AfterDelivered' \subseteq AfterDelivered
    BY <1>4, <1>5, <1>6, <1>9 DEF AfterDelivered, AfterResponse
  <1>13. DeliveredInOrder'
    BY <1>4, <1>12, BelowShrinks DEF OrderInv, DeliveredInOrder
  <1> QED
    BY <1>11, <1>13

LEMMA OrderForward ==
    ASSUME OrderInv, ForwardResponse
    PROVE  PartsInOrder' /\ DeliveredInOrder'
  <1>1. /\ response' = <<>> /\ UNCHANGED <<receive_buffer, incoming, sent>>
        /\ \E n \in 0..Len(response) :
              \/ delivered' = Append(delivered, SubSeq(response, 1, n))
              \/ UNCHANGED delivered
    BY DEF ForwardResponse
  <1>2. /\ response \in Seq(Tokens) /\ Len(response) \in Nat /\ delivered \in Seq(Seq(Tokens))
    BY LenProperties DEF OrderInv, TypeInv, TypeOK
  <1>3. /\ AfterBuffer' = AfterBuffer /\ AfterResponse' = AfterResponse /\ Coming' = Coming
        /\ AfterDelivered' = AfterResponse /\ AfterResponse \subseteq AfterDelivered
    BY <1>1, NothingIsInOrder DEF AfterBuffer, AfterResponse, AfterDelivered, Coming
  <1>4. PartsInOrder'
    BY <1>1, <1>3, NothingIsInOrder DEF OrderInv, PartsInOrder
  <1>5. \A i \in DOMAIN delivered :
            Ascending(delivered[i]) /\ Below(Elements(delivered[i]), AfterResponse)
    BY <1>3, BelowShrinks DEF OrderInv, DeliveredInOrder
  <1>6. CASE UNCHANGED delivered
    BY <1>3, <1>4, <1>5, <1>6 DEF OrderInv, DeliveredInOrder
  <1>7. ASSUME NEW n \in 0..Len(response),
               delivered' = Append(delivered, SubSeq(response, 1, n))
        PROVE  DeliveredInOrder'
    <2> DEFINE text == SubSeq(response, 1, n)
    <2>1. n \in Nat /\ 1 \in Nat /\ 0 < 1 /\ 1 <= n + 1 /\ n <= Len(response)
      BY <1>2
    <2>2. text \in Seq(Tokens) /\ Elements(text) \subseteq Elements(response) /\ Ascending(text)
      BY <1>2, <2>1, SliceInOrder DEF OrderInv, PartsInOrder
    <2>3. delivered' = Append(delivered, text)
      BY <1>7, <2>1
    <2> HIDE DEF text
    <2>4. /\ Len(delivered) \in Nat /\ DOMAIN delivered = 1..Len(delivered)
          /\ DOMAIN (delivered') = 1..(Len(delivered) + 1)
          /\ \A i \in 1..Len(delivered) : delivered'[i] = delivered[i]
          /\ delivered'[Len(delivered) + 1] = text
      BY <1>2, <2>2, <2>3, AppendProperties, LenProperties
    <2>5. Below(Elements(text), AfterResponse)
      BY <2>2, BelowShrinks DEF OrderInv, PartsInOrder
    <2>6. \A i \in DOMAIN delivered : Below(Elements(delivered[i]), Elements(text))
      <3>1. Elements(text) \subseteq AfterDelivered
        BY <2>2 DEF AfterDelivered
      <3> QED
        BY <3>1, BelowShrinks DEF OrderInv, DeliveredInOrder
    <2>7. \A i \in 1..(Len(delivered) + 1) : i \in 1..Len(delivered) \/ i = Len(delivered) + 1
      BY <2>4
    <2>8. \A i \in DOMAIN delivered' :
              Ascending(delivered'[i]) /\ Below(Elements(delivered'[i]), AfterResponse)
      BY <1>5, <2>2, <2>4, <2>5, <2>7
    <2>9. ASSUME NEW i \in DOMAIN delivered', NEW j \in DOMAIN delivered', i < j
          PROVE  Below(Elements(delivered'[i]), Elements(delivered'[j]))
      <3>1. i \in 1..Len(delivered)
        BY <2>4, <2>9
      <3>2. CASE j = Len(delivered) + 1
        BY <2>4, <2>6, <3>1, <3>2
      <3>3. CASE j \in 1..Len(delivered)
        BY <2>4, <2>9, <3>1, <3>3 DEF OrderInv, DeliveredInOrder
      <3> QED
        BY <2>4, <2>7, <3>2, <3>3
    <2> QED
      BY <1>3, <2>8, <2>9 DEF DeliveredInOrder
  <1> QED
    BY <1>1, <1>4, <1>6, <1>7

LEMMA OrderStep == Numbered /\ OrderInv /\ [Next]_vars => OrderInv'
  <1> SUFFICES ASSUME Numbered, OrderInv, [Next]_vars
               PROVE  PartsInOrder' /\ DeliveredInOrder'
    BY TypeStep DEF OrderInv
  <1>1. CASE \E t \in Threads : Call(t) \/ CallStep(t)
    BY <1>1, OrderCalls
  <1>2. CASE ReceiveData BY <1>2, OrderReceive
  <1>3. CASE Insert BY <1>3, OrderInsert
  <1>4. CASE CutResponse BY <1>4, OrderCut
  <1>5. CASE ForwardResponse BY <1>5, OrderForward
  <1>6. CASE EnterExtract \/ NoPromptYet \/ CallbackReturns \/ LoseLink \/ UNCHANGED vars
    <2>1. UNCHANGED <<receive_buffer, incoming, response, delivered, sent>>
      BY <1>6 DEF EnterExtract, NoPromptYet, CallbackReturns, LoseLink, vars, processing, platform
    <2>2. Coming' = Coming
      BY <2>1 DEF Coming
    <2> QED
      BY <2>1, <2>2, OrderStutter
  <1> QED
    BY <1>1, <1>2, <1>3, <1>4, <1>5, <1>6 DEF Next, Process

(* Whatever is lost, disconnected and connected again, and whatever the    *)
(* chunks: the callback gets the adapter's tokens in the order they were   *)
(* sent and none of them twice.                                            *)
THEOREM TransportNeverRepeats ==
    ASSUME Numbered
    PROVE  Spec => []NoRepeat
  <1>1. Init => OrderInv
    <2> SUFFICES ASSUME Init PROVE PartsInOrder /\ DeliveredInOrder
      BY InitTypes DEF OrderInv
    <2>1. PartsInOrder
      BY NothingIsInOrder DEF Init, PartsInOrder
    <2>2. DOMAIN delivered = {}
      BY DEF Init
    <2> QED
      BY <2>1, <2>2 DEF DeliveredInOrder
  <1>2. OrderInv => NoRepeat
    <2> SUFFICES ASSUME OrderInv,
                        NEW i \in DOMAIN delivered, NEW j \in DOMAIN delivered,
                        NEW k \in DOMAIN delivered[i], NEW m \in DOMAIN delivered[j],
                        i < j \/ (i = j /\ k < m),
                        CR \notin {delivered[i][k], delivered[j][m]}
                 PROVE  delivered[i][k] < delivered[j][m]
      BY DEF NoRepeat
    <2>1. IsWord(delivered[i][k]) /\ IsWord(delivered[j][m])
      BY DEF OrderInv, TypeInv, TypeOK, IsText, IsWord
    <2>2. CASE i < j
      BY <2>1, <2>2 DEF OrderInv, DeliveredInOrder, Below, Elements
    <2>3. CASE i = j /\ k < m
      BY <2>1, <2>3 DEF OrderInv, DeliveredInOrder, Ascending
    <2> QED
      BY <2>2, <2>3
  <1> QED
    BY <1>1, <1>2, OrderStep, PTL DEF Spec

-----------------------------------------------------------------------------
(* How much of the stream is in the response that waits to be forwarded.   *)
held == IF ble = "forward" THEN Len(response) + 1 ELSE 0

(* Without disconnects nothing clears the buffer, and the adapter speaks   *)
(* only to a connected program.                                            *)
Undisturbed ==
    /\ \A t \in Threads : at[t] \notin {"disconnect", "clearBuffer", "clearCallback"}
    /\ link => connected
    /\ ~connected => sent = 0

(* The response, the buffer and the chunk are, in this order, the part of  *)
(* the stream between what has been dealt with and what has been sent.     *)
InOrder ==
    /\ ble # "insert" => incoming = <<>>
    /\ ble # "forward" => response = <<>>
    /\ taken \in Nat
    /\ \A i \in 1..Len(response) : Stream[taken + i] = response[i]
    /\ ble = "forward" => Stream[taken + held] = Prompt
    /\ \A i \in 1..Len(receive_buffer) : Stream[taken + held + i] = receive_buffer[i]
    /\ \A i \in 1..Len(incoming) :
         Stream[taken + held + Len(receive_buffer) + i] = incoming[i]

RefInv == TypeInv /\ Undisturbed /\ InOrder

NoDisconnect == "disconnect" \notin Calls \cup CallbackCalls

(* What the types say of the lengths.                                      *)
LEMMA Lengths ==
    ASSUME TypeInv
    PROVE  /\ Len(Stream) \in Nat /\ sent \in 0..Len(Stream)
           /\ Len(incoming) \in Nat /\ Len(receive_buffer) \in Nat /\ Len(response) \in Nat
           /\ held \in Nat
  BY TransportAssumption, LenProperties DEF TypeInv, TypeOK, held

(* A thread's calls leave the stream's parts alone; connect starts a       *)
(* conversation only when nothing has been sent.                           *)
LEMMA CallsRefine ==
    ASSUME NoDisconnect, RefInv, NEW t \in Threads, Call(t) \/ CallStep(t)
    PROVE  /\ Undisturbed' /\ InOrder'
           /\ [Promise!Next]_(Promise!vars)
  <1> USE DEF RefInv, platform, processing
  <1>1. at[t] \notin {"disconnect", "clearBuffer", "clearCallback"}
    BY DEF Undisturbed
  <1>2. at \in [Threads -> CallStates]
    BY DEF TypeInv, TypeOK
  <1>3. \A u \in Threads : at'[u] \notin {"disconnect", "clearBuffer", "clearCallback"}
    <2>1. CASE Call(t)
      BY <1>2, <2>1, TransportAssumption DEF Call, Undisturbed, NoDisconnect, Operations
    <2>2. CASE CallStep(t)
      BY <1>1, <1>2, <2>2
         DEF Undisturbed, CallStep, Connect, Disconnect, ClearBuffer, ClearCallback,
             IsConnectedOrSend, ReadData, SubscribeToNotifications, Unsubscribe, Goes
    <2> QED
      BY <2>1, <2>2
  <1>4. /\ UNCHANGED <<receive_buffer, processing, sent>>
        /\ link' => connected'
        /\ ~connected' => sent' = 0
    <2>1. CASE Connect(t)
      <3>1. UNCHANGED <<receive_buffer, processing>>
        BY <2>1 DEF Connect, Goes
      <3>2. CASE UNCHANGED <<connected, platform>>
        BY <3>1, <3>2 DEF Undisturbed
      <3>3. CASE ~connected /\ connected' = FALSE /\ link' = FALSE /\ UNCHANGED sent
        BY <3>1, <3>3 DEF Undisturbed
      <3>4. CASE /\ ~connected /\ connected' = TRUE /\ link' = TRUE
                 /\ \E n \in sent..Len(Stream) : FreshStart(n) /\ sent' = n
        <4>1. PICK n \in 0..Len(Stream) : FreshStart(n) /\ sent' = n
          BY <3>4 DEF Undisturbed
        <4>2. sent = 0 /\ 0 \in AnswerStarts
          BY <3>4 DEF Undisturbed, AnswerStarts
        <4>3. n = 0
          BY <4>1, <4>2, Lengths DEF FreshStart
        <4> QED
          BY <3>1, <3>4, <4>1, <4>2, <4>3
      <3> QED
        BY <2>1, <3>2, <3>3, <3>4 DEF Connect
    <2>2. CASE Call(t) BY <2>2 DEF Call, Undisturbed
    <2>3. CASE IsConnectedOrSend(t) BY <2>3 DEF IsConnectedOrSend, Goes, Undisturbed
    <2>4. CASE ReadData(t) BY <2>4 DEF ReadData, Goes, Undisturbed
    <2>5. CASE SubscribeToNotifications(t)
      BY <2>5 DEF SubscribeToNotifications, Goes, Undisturbed
    <2>6. CASE Unsubscribe(t) BY <2>6 DEF Unsubscribe, Goes, Undisturbed
    <2>7. ~(Disconnect(t) \/ ClearBuffer(t) \/ ClearCallback(t))
      BY <1>1 DEF Disconnect, ClearBuffer, ClearCallback, Goes
    <2> QED
      BY <2>1, <2>2, <2>3, <2>4, <2>5, <2>6, <2>7 DEF CallStep
  <1>5. Undisturbed'
    BY <1>3, <1>4 DEF Undisturbed
  <1>6. taken' = taken /\ held' = held
    BY <1>4 DEF taken, held
  <1>7. InOrder'
    BY <1>4, <1>6 DEF InOrder
  <1>8. notification_callback' \in BOOLEAN
    BY CallTypes DEF TypeInv, TypeOK
  <1>9. Promise!Subscribe(notification_callback')
    BY <1>4, <1>6 DEF Promise!Subscribe
  <1> QED
    BY <1>5, <1>7, <1>8, <1>9 DEF Promise!Next

(* A chunk goes to the end.                                                *)
LEMMA ChunksRefine ==
    ASSUME RefInv, ReceiveData \/ Insert
    PROVE  InOrder' /\ UNCHANGED <<taken, delivered>>
  <1> USE DEF RefInv
  <1>0. /\ Len(Stream) \in Nat /\ sent \in 0..Len(Stream)
        /\ Len(incoming) \in Nat /\ Len(receive_buffer) \in Nat /\ Len(response) \in Nat
        /\ held \in Nat
    BY Lengths
  <1> USE <1>0
  <1>1. CASE ReceiveData
    <2>1. PICK n \in ChunkSizes : /\ sent + n <= Len(Stream)
                                  /\ incoming' = SubSeq(Stream, sent + 1, sent + n)
                                  /\ sent' = sent + n
      BY <1>1 DEF ReceiveData
    <2>2. n \in Nat /\ Stream \in Seq(Tokens)
      BY TransportAssumption
    <2>3. /\ Len(incoming') = n
          /\ \A i \in 1..n : incoming'[i] = Stream[sent + i]
      BY <2>1, <2>2, SliceProperties
    <2>4. /\ ble = "idle" /\ ble' = "insert"
          /\ UNCHANGED <<receive_buffer, response, delivered>>
      BY <1>1 DEF ReceiveData, BleGoes
    <2>5. incoming = <<>> /\ Len(incoming) = 0
      BY <2>4, EmptySeq DEF InOrder
    <2>6. held' = 0 /\ held = 0
      BY <2>4 DEF held
    <2>7. taken' = taken /\ taken = sent - Len(receive_buffer)
      BY <2>1, <2>2, <2>3, <2>4, <2>5 DEF taken
    <2>8. \A i \in 1..Len(incoming') :
            Stream[taken' + held' + Len(receive_buffer') + i] = incoming'[i]
      BY <2>2, <2>3, <2>4, <2>6, <2>7
    <2> QED
      BY <2>4, <2>6, <2>7, <2>8 DEF InOrder
  <1>2. CASE Insert
    <2>1. receive_buffer \in Seq(Tokens) /\ incoming \in Seq(Tokens)
      BY DEF TypeInv, TypeOK
    <2>2. /\ ble = "insert" /\ ble' = "extract"
          /\ receive_buffer' = receive_buffer \o incoming /\ incoming' = <<>>
          /\ UNCHANGED <<response, sent, delivered>>
      BY <1>2 DEF Insert, BleGoes
    <2>3. /\ Len(receive_buffer') = Len(receive_buffer) + Len(incoming)
          /\ \A i \in 1..(Len(receive_buffer) + Len(incoming)) :
               receive_buffer'[i] = IF i <= Len(receive_buffer) THEN receive_buffer[i]
                                    ELSE incoming[i - Len(receive_buffer)]
      BY <2>1, <2>2, ConcatProperties
    <2>4. Len(incoming') = 0
      BY <2>2, EmptySeq
    <2>5. held' = 0 /\ held = 0
      BY <2>2 DEF held
    <2>6. taken' = taken
      BY <2>2, <2>3, <2>4 DEF taken
    <2>7. \A i \in 1..Len(receive_buffer') : Stream[taken' + held' + i] = receive_buffer'[i]
      <3> SUFFICES ASSUME NEW i \in 1..(Len(receive_buffer) + Len(incoming))
                   PROVE  Stream[taken + i] = receive_buffer'[i]
        BY <2>3, <2>5, <2>6 DEF InOrder
      <3>1. CASE i <= Len(receive_buffer)
        <4>1. i \in 1..Len(receive_buffer) /\ receive_buffer'[i] = receive_buffer[i]
          BY <2>3, <3>1
        <4>2. Stream[taken + held + i] = receive_buffer[i]
          BY <4>1 DEF InOrder
        <4>3. taken + held + i = taken + i
          BY <2>5 DEF InOrder
        <4> QED
          BY <4>1, <4>2, <4>3
      <3>2. CASE i > Len(receive_buffer)
        <4> DEFINE k == i - Len(receive_buffer)
        <4>1. k \in 1..Len(incoming) /\ receive_buffer'[i] = incoming[k]
          BY <2>3, <3>2
        <4>2. Stream[taken + held + Len(receive_buffer) + k] = incoming[k]
          BY <4>1 DEF InOrder
        <4>3. taken + held + Len(receive_buffer) + k = taken + i
          BY <2>5 DEF InOrder
        <4> QED
          BY <4>1, <4>2, <4>3
      <3> QED
        BY <3>1, <3>2
    <2> QED
      BY <2>2, <2>4, <2>6, <2>7 DEF InOrder
  <1> QED
    BY <1>1, <1>2

(* Cutting a response out of the buffer only moves its beginning to the    *)
(* response; when it has no text, the answer is dealt with.                *)
LEMMA CutRefines ==
    ASSUME RefInv, CutResponse
    PROVE  InOrder' /\ [Promise!Next]_(Promise!vars)
  <1> USE DEF RefInv
  <1>0. /\ Len(Stream) \in Nat /\ sent \in 0..Len(Stream)
        /\ Len(incoming) \in Nat /\ Len(receive_buffer) \in Nat /\ Len(response) \in Nat
        /\ held \in Nat
    BY Lengths
  <1>1. PICK p \in DOMAIN receive_buffer : IsFirstPrompt(p) /\ Cut(p, p + 1, HasText(p))
    BY DEF CutResponse
  <1>2. receive_buffer \in Seq(Tokens)
    BY DEF TypeInv, TypeOK
  <1>3. p \in 1..Len(receive_buffer) /\ p \in Nat /\ p - 1 \in Nat
    BY <1>0, <1>2, LenProperties
  <1>4. /\ ble = "scan" /\ response = <<>> /\ incoming = <<>>
        /\ UNCHANGED <<incoming, sent, delivered, notification_callback>>
    BY <1>1 DEF Cut, BleGoes, InOrder
  <1>5. Len(response) = 0 /\ Len(incoming) = 0 /\ held = 0
    BY <1>4, EmptySeq DEF held
  <1>6. taken \in Nat /\ taken = sent - Len(receive_buffer)
    BY <1>0, <1>4, <1>5 DEF InOrder, taken
  <1>7. \A i \in 1..Len(receive_buffer) : Stream[taken + i] = receive_buffer[i]
    <2>1. \A i \in 1..Len(receive_buffer) : Stream[taken + held + i] = receive_buffer[i]
      BY DEF InOrder
    <2>2. \A i \in 1..Len(receive_buffer) : taken + held + i = taken + i
      BY <1>5, <1>6
    <2> QED
      BY <2>1, <2>2
  <1>8. /\ receive_buffer' \in Seq(Tokens)
        /\ Len(receive_buffer') = Len(receive_buffer) - p
        /\ \A i \in 1..(Len(receive_buffer) - p) : receive_buffer'[i] = receive_buffer[p + i]
    <2>1. receive_buffer' = SubSeq(receive_buffer, p + 1, p + (Len(receive_buffer) - p))
      <3>1. p + (Len(receive_buffer) - p) = Len(receive_buffer)
        BY <1>0, <1>3
      <3>2. receive_buffer' = SubSeq(receive_buffer, p + 1, Len(receive_buffer))
        BY <1>1 DEF Cut
      <3> QED
        BY <3>1, <3>2
    <2>2. Len(receive_buffer) - p \in Nat /\ p + (Len(receive_buffer) - p) <= Len(receive_buffer)
      BY <1>0, <1>3
    <2> QED
      BY <1>2, <1>3, <2>1, <2>2, SliceProperties
  <1>9. \A i \in 1..(Len(receive_buffer) - p) : Stream[taken + p + i] = receive_buffer'[i]
    <2> SUFFICES ASSUME NEW i \in 1..(Len(receive_buffer) - p)
                 PROVE  Stream[taken + p + i] = receive_buffer'[i]
      OBVIOUS
    <2>1. p + i \in 1..Len(receive_buffer) /\ taken + (p + i) = taken + p + i
      BY <1>0, <1>3, <1>6
    <2> QED
      BY <1>7, <1>8, <2>1
  <1>10. CASE HasText(p)
    <2>1. ble' = "forward" /\ response' = SubSeq(receive_buffer, 1, p - 1)
      BY <1>1, <1>10 DEF Cut, BleGoes
    <2>2. /\ Len(response') = p - 1
          /\ \A i \in 1..(p - 1) : response'[i] = receive_buffer[i]
      <3>1. response' = SubSeq(receive_buffer, 0 + 1, 0 + (p - 1)) /\ 0 + (p - 1) <= Len(receive_buffer)
        BY <1>0, <1>3, <2>1
      <3>2. \A i \in 1..(p - 1) : 0 + i = i
        BY <1>3
      <3> QED
        BY <1>2, <1>3, <3>1, <3>2, SliceProperties
    <2>3. held' = p
      BY <1>3, <2>1, <2>2 DEF held
    <2>4. taken' = taken
      BY <1>0, <1>3, <1>4, <1>5, <1>6, <1>8, <2>3 DEF taken, held
    <2>5. \A i \in 1..Len(response') : Stream[taken' + i] = response'[i]
      BY <1>0, <1>3, <1>7, <2>2, <2>4
    <2>6. Stream[taken' + held'] = Prompt
      BY <1>1, <1>3, <1>7, <2>3, <2>4 DEF IsFirstPrompt
    <2>7. \A i \in 1..Len(receive_buffer') : Stream[taken' + held' + i] = receive_buffer'[i]
      BY <1>8, <1>9, <2>3, <2>4
    <2>8. InOrder'
      BY <1>4, <1>5, <1>6, <2>1, <2>4, <2>5, <2>6, <2>7, SMTT(30) DEF InOrder
    <2> QED
      BY <1>4, <2>4, <2>8 DEF Promise!vars
  <1>11. CASE ~HasText(p)
    <2>1. ble' = "scan" /\ response' = response
      BY <1>1, <1>11 DEF Cut, BleGoes
    <2>2. held' = 0
      BY <2>1 DEF held
    <2>3. taken' = taken + p
      BY <1>0, <1>3, <1>4, <1>5, <1>6, <1>8, <2>2 DEF taken, held
    <2>4. \A i \in 1..Len(receive_buffer') : Stream[taken' + held' + i] = receive_buffer'[i]
      <3>1. \A i \in 1..Len(receive_buffer') : taken' + held' + i = taken + p + i
        BY <1>3, <1>6, <2>2, <2>3
      <3> QED
        BY <1>8, <1>9, <3>1
    <2>5. InOrder'
      BY <1>3, <1>4, <1>5, <1>6, <2>1, <2>3, <2>4 DEF InOrder
    <2>6. taken + p \in (taken + 1)..Len(Stream) /\ taken \in taken..(taken + p - 1)
      BY <1>0, <1>3, <1>6
    <2>7. Stream[taken + p] = Prompt
      BY <1>1, <1>3, <1>7 DEF IsFirstPrompt
    <2>8. \A i \in (taken + 1)..(taken + p - 1) : Stream[i] # Prompt /\ Stream[i] = CR
      <3> SUFFICES ASSUME NEW i \in (taken + 1)..(taken + p - 1)
                   PROVE  Stream[i] # Prompt /\ Stream[i] = CR
        OBVIOUS
      <3> DEFINE k == i - taken
      <3>1. k \in 1..(p - 1) /\ k \in 1..Len(receive_buffer) /\ taken + k = i
        BY <1>0, <1>3, <1>6
      <3> HIDE DEF k
      <3>2. receive_buffer[k] # Prompt /\ receive_buffer[k] = CR
        BY <1>1, <1>11, <3>1 DEF IsFirstPrompt, HasText
      <3> QED
        BY <1>7, <3>1, <3>2
    <2>9. Promise!AnswerEnds(taken + p, taken)
      BY <1>6, <2>7, <2>8 DEF Promise!AnswerEnds
    <2>10. ~(taken > taken)
      BY <1>6
    <2>11. Promise!Take
      BY <1>4, <2>3, <2>6, <2>9, <2>10 DEF Promise!Take
    <2> QED
      BY <2>5, <2>11 DEF Promise!Next
  <1> QED
    BY <1>10, <1>11

(* Forwarding deals with the answer: the callback gets its text, or it is  *)
(* dropped because there is no callback.                                   *)
LEMMA ForwardRefines ==
    ASSUME RefInv, ForwardResponse
    PROVE  InOrder' /\ Promise!Take
  <1> USE DEF RefInv
  <1>0. /\ Len(Stream) \in Nat /\ sent \in 0..Len(Stream)
        /\ Len(incoming) \in Nat /\ Len(receive_buffer) \in Nat /\ Len(response) \in Nat
    BY Lengths
  <1>1. PICK n \in 0..Len(response) :
          /\ EndsText(response, n)
          /\ \/ /\ notification_callback /\ BleGoes("forward", "inCallback")
                /\ delivered' = Append(delivered, SubSeq(response, 1, n))
             \/ ~notification_callback /\ BleGoes("forward", "scan") /\ UNCHANGED delivered
    BY DEF ForwardResponse
  <1>2. /\ ble = "forward" /\ ble' \in {"inCallback", "scan"}
        /\ notification_callback' = notification_callback
        /\ response' = <<>> /\ incoming = <<>> /\ incoming' = <<>>
        /\ UNCHANGED <<receive_buffer, sent>>
    BY <1>1 DEF ForwardResponse, BleGoes, InOrder
  <1>3. held = Len(response) + 1 /\ held' = 0
    BY <1>2 DEF held
  <1>4. Len(incoming) = 0 /\ Len(incoming') = 0 /\ Len(response') = 0
    BY <1>2, EmptySeq
  <1>5. taken \in Nat /\ held \in Nat /\ taken = sent - Len(receive_buffer) - held
    BY <1>0, <1>2, <1>3, <1>4 DEF InOrder, taken
  <1>6. taken' = taken + held
    BY <1>0, <1>2, <1>3, <1>4, <1>5 DEF taken, held
  <1>7. InOrder'
    <2>1. \A i \in 1..Len(receive_buffer) : Stream[taken + held + i] = receive_buffer[i]
      BY DEF InOrder
    <2>2. \A i \in 1..Len(receive_buffer) : taken' + held' + i = taken + held + i
      BY <1>0, <1>3, <1>5, <1>6
    <2>3. \A i \in 1..Len(receive_buffer') : Stream[taken' + held' + i] = receive_buffer'[i]
      BY <1>2, <2>1, <2>2
    <2> QED
      BY <1>0, <1>2, <1>3, <1>4, <1>5, <1>6, <2>3 DEF InOrder
  <1>8. n \in Nat /\ n <= Len(response) /\ taken + held - 1 = taken + Len(response)
    BY <1>0, <1>3, <1>5
  <1>9. \A i \in 1..Len(response) : /\ Stream[taken + i] = response[i]
                                    /\ response[i] # Prompt
    <2>1. response \in Seq(Tokens)
      BY DEF TypeInv, TypeOK
    <2>2. \A i \in 1..Len(response) : response[i] # Prompt
      BY <2>1, LenProperties DEF TypeInv, ResponseCut
    <2> QED
      BY <2>2 DEF InOrder
  <1>10. n > 0
    <2>1. response \in Seq(Tokens)
      BY DEF TypeInv, TypeOK
    <2>2. PICK i \in 1..Len(response) : response[i] # CR
      BY <1>2, <2>1, LenProperties DEF TypeInv, ResponseCut
    <2> QED
      BY <1>0, <1>1, <1>8, <2>2 DEF EndsText
  <1>11. /\ taken + held \in (taken + 1)..Len(Stream)
         /\ taken + n \in taken..(taken + held - 1)
         /\ taken + n > taken
    BY <1>0, <1>3, <1>5, <1>8, <1>10
  <1>12. Promise!AnswerEnds(taken + held, taken + n)
    <2>1. Stream[taken + held] = Prompt
      BY <1>2 DEF InOrder
    <2>2. ASSUME NEW i \in (taken + 1)..(taken + held - 1)
          PROVE  Stream[i] # Prompt /\ (i > taken + n => Stream[i] = CR)
      <3> DEFINE k == i - taken
      <3>1. k \in 1..Len(response) /\ taken + k = i /\ (i > taken + n => k \in (n + 1)..Len(response))
        BY <1>0, <1>3, <1>5, <1>8
      <3> HIDE DEF k
      <3> QED
        BY <1>1, <1>9, <3>1 DEF EndsText
    <2>3. Stream[taken + n] # CR
      BY <1>1, <1>8, <1>9, <1>10 DEF EndsText
    <2>4. \A i \in ((taken + n) + 1)..((taken + held) - 1) :
            i \in (taken + 1)..(taken + held - 1) /\ i > taken + n
      BY <1>0, <1>3, <1>5, <1>8
    <2>5. \A i \in (taken + 1)..((taken + held) - 1) : Stream[i] # Prompt
      BY <1>5, <2>2
    <2>6. \A i \in ((taken + n) + 1)..((taken + held) - 1) : Stream[i] = CR
      BY <1>5, <1>8, <2>2, <2>4
    <2> QED
      BY <2>1, <2>3, <2>5, <2>6 DEF Promise!AnswerEnds
  <1>13. SubSeq(response, 1, n) = SubSeq(Stream, taken + 1, taken + n)
    <2>1. response \in Seq(Tokens) /\ Stream \in Seq(Tokens)
      BY TransportAssumption DEF TypeInv, TypeOK
    <2> DEFINE text == SubSeq(response, 0 + 1, 0 + n)
               slice == SubSeq(Stream, taken + 1, taken + n)
    <2>2. /\ text \in Seq(Tokens) /\ Len(text) = n
          /\ \A i \in 1..n : text[i] = response[0 + i]
      BY <1>8, <2>1, SliceProperties
    <2>3. /\ slice \in Seq(Tokens) /\ Len(slice) = n
          /\ \A i \in 1..n : slice[i] = Stream[taken + i]
      <3>1. taken + n <= Len(Stream)
        BY <1>0, <1>5, <1>8, <1>11
      <3>2. Stream \in Seq(Tokens) /\ taken \in Nat /\ n \in Nat
        BY <1>5, <1>8, <2>1
      <3> QED
        BY <3>1, <3>2, SliceProperties
    <2>4. \A i \in 1..n : i \in 1..Len(response) /\ 0 + i = i
      BY <1>0, <1>8
    <2> HIDE DEF text, slice
    <2>5. text = slice
      BY <1>9, <2>2, <2>3, <2>4, SeqEqual
    <2>6. 0 + 1 = 1 /\ 0 + n = n
      BY <1>8
    <2> QED
      BY <2>5, <2>6 DEF text, slice
  <1>14. delivered' = IF notification_callback /\ taken + n > taken
                        THEN Append(delivered, SubSeq(Stream, taken + 1, taken + n))
                        ELSE delivered
    BY <1>1, <1>11, <1>13
  <1>15. Promise!Take
    <2> DEFINE p == taken + held
               m == taken + n
    <2>1. p \in (taken + 1)..Len(Stream) /\ m \in taken..(p - 1)
      BY <1>0, <1>5, <1>8, <1>11
    <2>2. /\ Promise!AnswerEnds(p, m)
          /\ taken' = p
          /\ delivered' = IF notification_callback /\ m > taken
                            THEN Append(delivered, SubSeq(Stream, taken + 1, m)) ELSE delivered
          /\ UNCHANGED notification_callback
      BY <1>2, <1>6, <1>12, <1>14
    <2> HIDE DEF p, m
    <2> QED
      BY <2>1, <2>2, Zenon DEF Promise!Take
  <1> QED
    BY <1>7, <1>15

(* The other steps of the platform's thread move neither bytes nor         *)
(* answers.                                                                *)
LEMMA OthersRefine ==
    ASSUME RefInv, EnterExtract \/ NoPromptYet \/ CallbackReturns \/ LoseLink \/ UNCHANGED vars
    PROVE  InOrder' /\ UNCHANGED <<taken, delivered, notification_callback>>
  <1> USE DEF RefInv, processing
  <1>1. /\ UNCHANGED <<receive_buffer, incoming, response, sent, delivered, notification_callback>>
        /\ \/ ble' = ble
           \/ ble \in {"extract", "scan", "inCallback"} /\ ble' \in {"scan", "idle"}
    BY DEF EnterExtract, NoPromptYet, CallbackReturns, LoseLink, BleGoes, vars
  <1>2. held' = held /\ taken' = taken
    BY <1>1 DEF held, taken
  <1> QED
    BY <1>1, <1>2 DEF InOrder

LEMMA UndisturbedByBle ==
    ASSUME RefInv, ReceiveData \/ Process \/ LoseLink \/ UNCHANGED vars
    PROVE  Undisturbed'
  <1> USE DEF RefInv, Undisturbed, BleGoes
  <1>1. CASE ReceiveData BY <1>1 DEF ReceiveData
  <1>2. CASE Process
    BY <1>2 DEF Process, Insert, EnterExtract, NoPromptYet, CutResponse, Cut, ForwardResponse,
                CallbackReturns
  <1>3. CASE LoseLink BY <1>3 DEF LoseLink
  <1>4. CASE UNCHANGED vars BY <1>4 DEF vars
  <1> QED
    BY <1>1, <1>2, <1>3, <1>4

LEMMA RefStep ==
    ASSUME NoDisconnect
    PROVE  RefInv /\ [Next]_vars => RefInv' /\ [Promise!Next]_(Promise!vars)
  <1> SUFFICES ASSUME RefInv, [Next]_vars
               PROVE  RefInv' /\ [Promise!Next]_(Promise!vars)
    OBVIOUS
  <1>1. TypeInv'
    BY TypeStep DEF RefInv
  <1>2. CASE \E t \in Threads : Call(t) \/ CallStep(t)
    BY <1>1, <1>2, CallsRefine DEF RefInv
  <1>3. CASE ReceiveData \/ Insert
    <2>1. notification_callback' = notification_callback
      BY <1>3 DEF ReceiveData, Insert, BleGoes
    <2>2. Undisturbed'
      BY <1>3, UndisturbedByBle DEF Process
    <2> QED
      BY <1>1, <1>3, <2>1, <2>2, ChunksRefine DEF RefInv, Promise!vars
  <1>4. CASE CutResponse
    BY <1>1, <1>4, CutRefines, UndisturbedByBle DEF RefInv, Process
  <1>5. CASE ForwardResponse
    BY <1>1, <1>5, ForwardRefines, UndisturbedByBle DEF RefInv, Process, Promise!Next
  <1>6. CASE EnterExtract \/ NoPromptYet \/ CallbackReturns \/ LoseLink \/ UNCHANGED vars
    <2>1. Undisturbed'
      BY <1>6, UndisturbedByBle DEF Process
    <2> QED
      BY <1>1, <1>6, <2>1, OthersRefine DEF RefInv, Promise!vars
  <1> QED
    BY <1>2, <1>3, <1>4, <1>5, <1>6 DEF Next, Process

(* Every behaviour of the transport in which nobody disconnects is one of  *)
(* AnswerDelivery: under any interleaving of the threads the subscriber    *)
(* gets the adapter's answers whole and in order, none twice, and misses   *)
(* only those whose turn came while there was no callback.                 *)
THEOREM TransportDelivers ==
    ASSUME NoDisconnect
    PROVE  Spec => DeliversAnswers
  <1>1. Init => RefInv /\ Promise!Init
    <2> SUFFICES ASSUME Init PROVE RefInv /\ Promise!Init
      OBVIOUS
    <2>1. TypeInv
      BY InitTypes
    <2>2. \A t \in Threads : at[t] = "idle"
      BY DEF Init
    <2>3. Len(<<>>) = 0
      BY EmptySeq
    <2>4. taken = 0 /\ held = 0
      <3>1. Len(incoming) = 0 /\ Len(receive_buffer) = 0 /\ sent = 0 /\ ble # "forward"
        BY <2>3 DEF Init
      <3>2. held = 0
        BY <3>1 DEF held
      <3>3. taken = sent - Len(incoming) - Len(receive_buffer) - held
        BY DEF taken, held
      <3> QED
        BY <3>1, <3>2, <3>3
    <2>5. Undisturbed
      BY <2>2 DEF Init, Undisturbed
    <2>6. InOrder
      BY <2>3, <2>4 DEF Init, InOrder
    <2> QED
      BY <2>1, <2>4, <2>5, <2>6 DEF Init, RefInv, Promise!Init
  <1>2. RefInv /\ [Next]_vars => RefInv' /\ [Promise!Next]_(Promise!vars)
    BY RefStep
  <1> QED
    BY <1>1, <1>2, PTL DEF Spec, DeliversAnswers, Promise!Spec
=============================================================================
