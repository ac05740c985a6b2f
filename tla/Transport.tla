------------------------------- MODULE Transport -------------------------------
(***************************************************************************)
(* OBD2Transport (src/ble/OBD2Transport.cpp) at the level of its three     *)
(* mutexes: application threads that call it, and the platform's thread    *)
(* that hands it bytes and runs the subscriber's callback with the buffer  *)
(* and callback mutexes held.  TeslaBLETransport has the same calls and    *)
(* locks; only what it cuts out of the buffer differs.                     *)
(*                                                                         *)
(* A section under one mutex is one step.  Where a section takes a second  *)
(* mutex there is a location in between, and who owns a mutex is read off  *)
(* the locations.  A mutex is not recursive: its owner blocks on it too.   *)
(***************************************************************************)
EXTENDS Naturals, Sequences, FiniteSets

CONSTANTS
    Apps,            \* the application's threads
    BLE,             \* the thread on which the platform delivers data
    Calls,           \* what the application calls
    CallbackCalls,   \* what its callback calls
    MaxCalls,        \* bound on the calls of one thread
    Stream,          \* what the adapter sends, token by token
    Prompt, CR,      \* its terminators
    ChunkSizes,      \* how many tokens one notification may carry
    Lossy            \* may the link go by itself?

Threads == Apps \cup {BLE}

Operations == {"connect", "disconnect", "isConnected", "send",
               "readData", "subscribe", "unsubscribe"}

Tokens == {Stream[i] : i \in DOMAIN Stream}

ASSUME TransportAssumption ==
    /\ Stream \in Seq(Tokens)
    /\ BLE \notin Apps
    /\ Calls \subseteq Operations
    /\ CallbackCalls \subseteq Operations
    /\ MaxCalls \in Nat
    /\ Prompt # CR
    /\ ChunkSizes \subseteq Nat \ {0}

VARIABLES
    connected,              \* connected_
    receive_buffer,         \* receive_buffer_
    notification_callback,  \* is notification_callback_ set?
    at,                     \* each thread's place in a call of the transport
    ble,                    \* the platform thread's place in processIncomingData
    incoming,               \* the chunk it was given
    response,               \* the response it has cut out, with its terminators
    link,                   \* the platform's connection
    sent,                   \* tokens of the stream the adapter has sent
    delivered,              \* the responses the callback was called with
    left,                   \* calls each thread may still make
    mute                    \* history: may the callers count on silence?

vars == <<connected, receive_buffer, notification_callback, at, ble, incoming,
          response, link, sent, delivered, left, mute>>

platform == <<link, sent>>
processing == <<ble, incoming, response, delivered>>

CallStates == Operations \cup {"idle", "clearBuffer", "clearCallback", "readExtract"}
BleStates == {"idle", "insert", "extract", "scan", "forward", "inCallback"}

-----------------------------------------------------------------------------
(* Who owns a mutex.                                                       *)

HoldsState(t) == at[t] \in {"clearBuffer", "clearCallback"}

HoldsBuffer(t) ==
    \/ at[t] = "readExtract"
    \/ t = BLE /\ ble \in {"scan", "forward", "inCallback"}

\* Faulty variant: the callback is copied and called without the mutex.
CallsUnlocked(t) == FALSE

HoldsCallback(t) == t = BLE /\ ble = "inCallback"

StateFree == \A t \in Threads : ~HoldsState(t)
BufferFree == \A t \in Threads : ~HoldsBuffer(t)
CallbackFree == \A t \in Threads : ~HoldsCallback(t)

-----------------------------------------------------------------------------
(* The calls.  The callback may call too, on the platform's thread.        *)

Init ==
    /\ connected = FALSE
    /\ receive_buffer = <<>>
    /\ notification_callback = FALSE
    /\ at = [t \in Threads |-> "idle"]
    /\ ble = "idle"
    /\ incoming = <<>>
    /\ response = <<>>
    /\ link = FALSE
    /\ sent = 0
    /\ delivered = <<>>
    /\ left = [t \in Threads |-> MaxCalls]
    /\ mute = TRUE

Call(t) ==
    /\ at[t] = "idle" /\ left[t] > 0
    /\ t = BLE => ble = "inCallback"
    /\ \E c \in IF t = BLE THEN CallbackCalls ELSE Calls : at' = [at EXCEPT ![t] = c]
    /\ left' = [left EXCEPT ![t] = @ - 1]
    /\ mute' = (mute /\ at'[t] # "subscribe")
    /\ UNCHANGED <<connected, receive_buffer, notification_callback, platform, processing>>

\* A call of subscribeToNotifications is under way.
Subscribing == \E t \in Threads : at[t] = "subscribe"

\* From here unsubscribe returns, and a disconnect that had a connection to end.
Silencing == {"unsubscribe", "clearCallback"}

Goes(t, from, to) ==
    /\ at[t] = from
    /\ at' = [at EXCEPT ![t] = to]
    /\ mute' = (mute \/ (from \in Silencing /\ ~Subscribing))
    /\ UNCHANGED <<processing, left>>

\* A new link starts a new conversation: an answer cut by a loss is not resumed.
AnswerStarts == {0, Len(Stream)} \cup {i \in DOMAIN Stream : Stream[i] = Prompt}
FreshStart(n) == n \in AnswerStarts /\ \A m \in sent..(n - 1) : m \notin AnswerStarts

Connect(t) ==
    /\ StateFree
    /\ Goes(t, "connect", "idle")
    /\ \/ connected /\ UNCHANGED <<connected, platform>>
       \/ ~connected /\ connected' = FALSE /\ link' = FALSE /\ UNCHANGED sent
       \/ /\ ~connected /\ connected' = TRUE /\ link' = TRUE
          /\ \E n \in sent..Len(Stream) : FreshStart(n) /\ sent' = n
    /\ UNCHANGED <<receive_buffer, notification_callback>>

Disconnect(t) ==
    /\ StateFree
    /\ \/ ~connected /\ Goes(t, "disconnect", "idle") /\ UNCHANGED <<connected, link>>
       \/ connected /\ Goes(t, "disconnect", "clearBuffer") /\ connected' = FALSE /\ link' = FALSE
    /\ UNCHANGED <<receive_buffer, notification_callback, sent>>

ClearBuffer(t) ==
    /\ BufferFree
    /\ Goes(t, "clearBuffer", "clearCallback")
    /\ receive_buffer' = <<>>
    /\ UNCHANGED <<connected, notification_callback, platform>>

ClearCallback(t) ==
    /\ CallbackFree
    /\ Goes(t, "clearCallback", "idle")
    /\ notification_callback' = FALSE
    /\ UNCHANGED <<connected, receive_buffer, platform>>

\* They read connected_ and ask or tell the platform.
IsConnectedOrSend(t) ==
    /\ StateFree
    /\ Goes(t, "isConnected", "idle") \/ Goes(t, "send", "idle")
    /\ UNCHANGED <<connected, receive_buffer, notification_callback, platform>>

\* With bytes in the buffer it goes on to extractCleanResponses, which locks
\* the mutex it holds: nothing after that is reached.
ReadData(t) ==
    /\ BufferFree
    /\ Goes(t, "readData", IF receive_buffer = <<>> THEN "idle" ELSE "readExtract")
    /\ UNCHANGED <<connected, receive_buffer, notification_callback, platform>>

SubscribeToNotifications(t) ==
    /\ CallbackFree
    /\ Goes(t, "subscribe", "idle")
    /\ notification_callback' = TRUE
    /\ UNCHANGED <<connected, receive_buffer, platform>>

Unsubscribe(t) ==
    /\ CallbackFree
    /\ Goes(t, "unsubscribe", "idle")
    /\ notification_callback' = FALSE
    /\ UNCHANGED <<connected, receive_buffer, platform>>

CallStep(t) ==
    \/ Connect(t) \/ Disconnect(t) \/ ClearBuffer(t) \/ ClearCallback(t)
    \/ IsConnectedOrSend(t) \/ ReadData(t)
    \/ SubscribeToNotifications(t) \/ Unsubscribe(t)

-----------------------------------------------------------------------------
(* The platform's thread: processIncomingData and what it calls.           *)

BleGoes(from, to) ==
    /\ ble = from
    /\ ble' = to
    /\ UNCHANGED <<connected, notification_callback, at, link, left, mute>>

ReceiveData ==
    /\ link
    /\ BleGoes("idle", "insert")
    /\ \E n \in ChunkSizes :
         /\ sent + n <= Len(Stream)
         /\ incoming' = SubSeq(Stream, sent + 1, sent + n)
         /\ sent' = sent + n
    /\ UNCHANGED <<receive_buffer, response, delivered>>

Insert ==
    /\ BufferFree
    /\ BleGoes("insert", "extract")
    /\ receive_buffer' = receive_buffer \o incoming
    /\ incoming' = <<>>
    /\ UNCHANGED <<response, sent, delivered>>

EnterExtract ==
    /\ BufferFree
    /\ BleGoes("extract", "scan")
    /\ UNCHANGED <<receive_buffer, incoming, response, sent, delivered>>

HasPrompt == \E i \in DOMAIN receive_buffer : receive_buffer[i] = Prompt

NoPromptYet ==
    /\ ~HasPrompt
    /\ BleGoes("scan", "idle")
    /\ UNCHANGED <<receive_buffer, incoming, response, sent, delivered>>

IsFirstPrompt(p) ==
    receive_buffer[p] = Prompt /\ \A i \in 1..(p - 1) : receive_buffer[i] # Prompt

\* Up to n is what remains of s without the carriage returns at its end.
EndsText(s, n) == (n > 0 => s[n] # CR) /\ \A i \in (n + 1)..Len(s) : s[i] = CR

\* The buffer is cut at p and goes on at next.
Cut(p, next, forwards) ==
    /\ receive_buffer' = SubSeq(receive_buffer, next, Len(receive_buffer))
    /\ \/ forwards /\ BleGoes("scan", "forward") /\ response' = SubSeq(receive_buffer, 1, p - 1)
       \/ ~forwards /\ BleGoes("scan", "scan") /\ UNCHANGED response
    /\ UNCHANGED <<incoming, sent, delivered>>

HasText(p) == \E i \in 1..(p - 1) : receive_buffer[i] # CR

\* Faulty variant: an answer without text is forwarded too.
CutEmptyToo ==
    \E p \in DOMAIN receive_buffer : IsFirstPrompt(p) /\ Cut(p, p + 1, TRUE)

\* Faulty variant: the prompt is left in the buffer.
CutBeforePrompt ==
    \E p \in DOMAIN receive_buffer : IsFirstPrompt(p) /\ Cut(p, p, HasText(p))

\* Faulty variant: an answer without text is not removed.
CutWithText ==
    \E p \in DOMAIN receive_buffer :
        IsFirstPrompt(p) /\ Cut(p, IF HasText(p) THEN p + 1 ELSE 1, HasText(p))

\* Faulty variant: an answer with text is not removed.
CutWithoutErase ==
    \E p \in DOMAIN receive_buffer :
        IsFirstPrompt(p) /\ Cut(p, IF HasText(p) THEN 1 ELSE p + 1, HasText(p))

CutResponse ==
    \E p \in DOMAIN receive_buffer : IsFirstPrompt(p) /\ Cut(p, p + 1, HasText(p))

ForwardResponse ==
    /\ CallbackFree
    /\ \E n \in 0..Len(response) :
         /\ EndsText(response, n)
         /\ \/ /\ notification_callback /\ BleGoes("forward", "inCallback")
               /\ delivered' = Append(delivered, SubSeq(response, 1, n))
            \/ ~notification_callback /\ BleGoes("forward", "scan") /\ UNCHANGED delivered
    /\ response' = <<>>
    /\ UNCHANGED <<receive_buffer, incoming, sent>>

CallbackReturns ==
    /\ at[BLE] = "idle"
    /\ BleGoes("inCallback", "scan")
    /\ UNCHANGED <<receive_buffer, incoming, response, sent, delivered>>

Process ==
    \/ Insert \/ EnterExtract \/ NoPromptYet \/ CutResponse
    \/ ForwardResponse \/ CallbackReturns

LoseLink ==
    /\ Lossy /\ link
    /\ link' = FALSE
    /\ UNCHANGED <<connected, receive_buffer, notification_callback, at, processing, sent, left, mute>>

Next ==
    \/ \E t \in Threads : Call(t) \/ CallStep(t)
    \/ ReceiveData \/ Process \/ LoseLink

(* Every thread is scheduled, and the callback returns.  No mutex is fair, *)
(* and nothing is assumed of the adapter and the link.                     *)
Fairness == WF_vars(Process) /\ \A t \in Threads : WF_vars(CallStep(t))

Spec == Init /\ [][Next]_vars /\ Fairness

-----------------------------------------------------------------------------
IsText(s) ==
    s # <<>> /\ s[Len(s)] # CR /\ \A i \in DOMAIN s : s[i] # Prompt

(* Every variable has its type, and what the callback gets is never empty, *)
(* has no prompt and does not end in a carriage return                     *)
(* (OBD2Transport.cpp:114-135).                                            *)
TypeOK ==
    /\ connected \in BOOLEAN /\ notification_callback \in BOOLEAN /\ link \in BOOLEAN
    /\ mute \in BOOLEAN
    /\ receive_buffer \in Seq(Tokens) /\ incoming \in Seq(Tokens) /\ response \in Seq(Tokens)
    /\ at \in [Threads -> CallStates] /\ ble \in BleStates
    /\ sent \in 0..Len(Stream)
    /\ left \in [Threads -> 0..MaxCalls]
    /\ delivered \in Seq(Seq(Tokens))
    /\ \A i \in DOMAIN delivered : IsText(delivered[i])

(* Once unsubscribe has returned, or a disconnect that had a connection to *)
(* end, the callback neither runs nor starts again until somebody calls    *)
(* subscribeToNotifications: whatever chunk is still on its way, the       *)
(* callback is called under callback_mutex_ and cleared under it           *)
(* (OBD2Transport.cpp:46-49, 85-95, 139-145).  A disconnect that finds     *)
(* connected_ false returns early (34-36) and clears nothing: it counts as *)
(* no call here.                                                           *)
Silence == mute => ble # "inCallback"

(* With losses, disconnects and new links the callback still gets the      *)
(* adapter's tokens in the order they were sent, and none twice            *)
(* (OBD2Transport.cpp:97-137).  Where the stream's texts are numbered.     *)
NoRepeat ==
    \A i, j \in DOMAIN delivered :
        \A k \in DOMAIN delivered[i], m \in DOMAIN delivered[j] :
            (i < j \/ (i = j /\ k < m)) /\ CR \notin {delivered[i][k], delivered[j][m]}
                => delivered[i][k] < delivered[j][m]

(* Every call returns and every chunk is processed: no cycle of threads    *)
(* waits for each other's mutexes (ITransport.h:20).                       *)
NothingHangs ==
    /\ \A t \in Threads : at[t] # "idle" ~> at[t] = "idle"
    /\ ble # "idle" ~> ble = "idle"

(* Without disconnects the mutexes, the chunks and the buffer come to what *)
(* AnswerDelivery promises.  An answer is dealt with when forwardResponse  *)
(* has the callback mutex, or when it is found empty.                      *)
taken ==
    sent - Len(incoming) - Len(receive_buffer)
         - (IF ble = "forward" THEN Len(response) + 1 ELSE 0)

Promise == INSTANCE AnswerDelivery WITH subscribed <- notification_callback
DeliversAnswers == Promise!Spec
=============================================================================
