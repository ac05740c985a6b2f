---------------------- MODULE DBCTranslationServiceProofs ----------------------
(***************************************************************************)
(* Proofs about DBCTranslationService for any registry, files, messages    *)
(* and number of callers.                                                  *)
(***************************************************************************)
EXTENDS DBCTranslationService, SequenceTheorems, TLAPS

\* A translator is a record, and the service has made it itself, or none.
TranslatorOK ==
    /\ translator = [kind |-> translator.kind, vehicle |-> translator.vehicle,
                     last |-> translator.last, frames |-> translator.frames]
    /\ IsService => translator.kind \in {"none", "dbc", "obd2"}

ReportsInv == TranslatorOK /\ ReportsAgree

LEMMA ReportsInit == Init => ReportsInv
  <1> SUFFICES ASSUME Init
               PROVE  ReportsInv
    OBVIOUS
  <1>1. CASE translator = None
    BY <1>1 DEF Init, None, Translator, ReportsInv, TranslatorOK, ReportsAgree, IsService
  <1>2. CASE translator \in Own
    <2>1. PICK kind : translator = Translator(kind, "own")
      BY <1>2, Zenon DEF Own, Create
    <2> QED
      BY <2>1 DEF Translator, ReportsInv, TranslatorOK, ReportsAgree, IsService
  <1> QED
    BY <1>1, <1>2 DEF Init

\* A successful load writes all reports at once.
LEMMA LoadedOK ==
    ASSUME NEW id, NEW kind, NEW p, Loaded(id, kind, p),
           \/ kind = "dbc" /\ p = "CAN" /\ id \in DOMAIN Registry
           \/ kind = "obd2" /\ p = "OBD2"
    PROVE  ReportsInv'
  <1>1. translator' = [kind |-> kind, vehicle |-> id, last |-> [f \in Fields |-> 0],
                       frames |-> NoFrames]
    BY DEF Loaded, Translator
  <1>2. protocol' = p /\ vehicleId' = id /\ loaded' = TRUE
    BY Zenon DEF Loaded
  <1> QED
    BY <1>1, <1>2 DEF ReportsInv, TranslatorOK, ReportsAgree, IsService

\* Translating changes what the translator remembers and nothing that is reported.
LEMMA SameReports ==
    ASSUME ReportsInv, UNCHANGED <<protocol, vehicleId, loaded>>,
           translator' = [kind |-> translator.kind, vehicle |-> translator.vehicle,
                          last |-> translator'.last, frames |-> translator'.frames]
    PROVE  ReportsInv'
  <1>1. translator'.kind = translator.kind /\ translator'.vehicle = translator.vehicle
    OBVIOUS
  <1>2. TranslatorOK'
    BY <1>1 DEF ReportsInv, TranslatorOK, IsService
  <1>3. ReportsAgree'
    BY <1>1, Zenon DEF ReportsInv, ReportsAgree, IsService
  <1> QED
    BY <1>2, <1>3 DEF ReportsInv

LEMMA ReportsNext == ReportsInv /\ [Next]_vars => ReportsInv'
  <1> SUFFICES ASSUME ReportsInv, [Next]_vars
               PROVE  ReportsInv'
    OBVIOUS
  <1>1. ASSUME NEW id \in Vehicles, NEW p \in {"CAN", "OBD2", "Simulation"}, NEW text \in Contents,
               LoadVehicle(id, p, text)
        PROVE  ReportsInv'
    <2>1. CASE LoadCAN(id, text)
      <3>1. CASE Loaded(id, "dbc", "CAN")
        BY <2>1, <3>1, LoadedOK DEF LoadCAN
      <3>2. CASE UNCHANGED <<translator, protocol, vehicleId, loaded>>
        BY <3>2, SameReports DEF ReportsInv, TranslatorOK
      <3> QED
        BY <2>1, <3>1, <3>2, Zenon DEF LoadCAN
    <2>2. CASE LoadUnknown(id)
      BY <2>2, SameReports DEF LoadUnknown, ReportsInv, TranslatorOK
    <2>3. CASE Loaded(id, "obd2", "OBD2")
      BY <2>3, LoadedOK
    <2> QED
      BY <1>1, <2>1, <2>2, <2>3, Zenon DEF LoadVehicle
  <1>2. ASSUME NEW raw, ProcessRefused(raw)
        PROVE  ReportsInv'
    BY <1>2, SameReports DEF ProcessRefused, ReportsInv, TranslatorOK
  <1>3. ASSUME NEW raw, ProcessFrame(raw)
        PROVE  ReportsInv'
    <2>1. PICK last : translator' = [translator EXCEPT !.last = last]
      BY <1>3, Zenon DEF ProcessFrame, Translate
    <2>2. UNCHANGED <<protocol, vehicleId, loaded>>
      BY <1>3, Zenon DEF ProcessFrame
    <2> QED
      BY <2>1, <2>2, SameReports DEF ReportsInv, TranslatorOK
  <1>4. ASSUME NEW c, NEW raw, StoreFrame(c, raw)
        PROVE  ReportsInv'
    <2>1. PICK frames : translator' = [translator EXCEPT !.frames = frames]
      BY <1>4, Zenon DEF StoreFrame, Accumulate
    <2>2. UNCHANGED <<protocol, vehicleId, loaded>>
      BY <1>4, Zenon DEF StoreFrame
    <2> QED
      BY <2>1, <2>2, SameReports DEF ReportsInv, TranslatorOK
  <1>5. ASSUME NEW c, BuildSignal(c)
        PROVE  ReportsInv'
    BY <1>5, SameReports DEF BuildSignal, ReportsInv, TranslatorOK
  <1>6. CASE UNCHANGED vars
    BY <1>6, SameReports DEF vars, ReportsInv, TranslatorOK
  <1> QED
    BY <1>1, <1>2, <1>3, <1>4, <1>5, <1>6, Zenon DEF Next

\* ReportsAgree whatever is loaded, in whatever order and with whatever success.
THEOREM ReportsAreTrue == Spec => []ReportsAgree
  <1>1. ReportsInv => ReportsAgree
    BY DEF ReportsInv
  <1> QED
    BY <1>1, ReportsInit, ReportsNext, PTL DEF Spec

-----------------------------------------------------------------------------
\* What has been fed is a sequence; of what does not matter.
FedOK == fed \in Seq({fed[i] : i \in DOMAIN fed})

TypeInv == TranslatorOK /\ FedOK /\ TypeOK

LEMMA NothingFed ==
    ASSUME fed' = <<>>
    PROVE  FedOK' /\ Len(fed') <= MaxFed /\ DOMAIN fed' = {}
  <1>1. <<>> \in Seq({}) /\ Len(<<>>) = 0 /\ DOMAIN <<>> = {}
    BY EmptySeq
  <1>2. fed' = <<>> /\ {fed'[i] : i \in DOMAIN fed'} = {}
    BY <1>1
  <1> QED
    BY <1>1, <1>2, ServiceAssumption DEF FedOK

\* One more frame or answer.
LEMMA FedGrows ==
    ASSUME FedOK, NEW raw, Len(fed) < MaxFed, fed' = Append(fed, raw)
    PROVE  /\ FedOK' /\ Len(fed') <= MaxFed
           /\ Len(fed) \in Nat /\ DOMAIN fed = 1..Len(fed) /\ DOMAIN (fed') = 1..(Len(fed) + 1)
           /\ \A i \in DOMAIN fed : fed'[i] = fed[i]
           /\ fed'[Len(fed) + 1] = raw
           /\ {ExtractCANId(fed'[i]) : i \in DOMAIN fed'} =
                 {ExtractCANId(fed[i]) : i \in DOMAIN fed} \cup {ExtractCANId(raw)}
  <1> DEFINE S == {fed[i] : i \in DOMAIN fed}
             T == S \cup {raw}
  <1>1. fed \in Seq(T) /\ raw \in T
    BY DEF FedOK
  <1> HIDE DEF S, T
  <1>2. /\ fed' \in Seq(T) /\ Len(fed') = Len(fed) + 1 /\ Len(fed) \in Nat
        /\ \A i \in 1..Len(fed) : fed'[i] = fed[i]
        /\ fed'[Len(fed) + 1] = raw
    BY <1>1, AppendProperties, LenProperties
  <1>3. DOMAIN fed = 1..Len(fed) /\ DOMAIN (fed') = 1..(Len(fed) + 1)
    BY <1>1, <1>2, LenProperties
  <1>4. \A i \in 1..(Len(fed) + 1) : i \in 1..Len(fed) \/ i = Len(fed) + 1
    BY <1>2
  <1>5. {fed'[i] : i \in DOMAIN (fed')} = T
    <2>1. T = {fed[i] : i \in DOMAIN fed} \cup {raw}
      BY DEF S, T
    <2> QED
      BY <2>1, <1>2, <1>3, <1>4
  <1>6. FedOK'
    BY <1>2, <1>5 DEF FedOK
  <1>7. {ExtractCANId(fed'[i]) : i \in DOMAIN (fed')} =
            {ExtractCANId(fed[i]) : i \in DOMAIN fed} \cup {ExtractCANId(raw)}
    BY <1>2, <1>3, <1>4
  <1>8. Len(fed') <= MaxFed
    BY <1>2, ServiceAssumption
  <1> QED
    BY <1>2, <1>3, <1>6, <1>7, <1>8

\* The frame that is stored is now the newest of its message, and the other frames still
\* are of theirs.
LEMMA NewestStored ==
    ASSUME FedOK, KeepsNewest, NEW raw, Len(fed) < MaxFed, fed' = Append(fed, raw),
           DOMAIN translator'.frames = DOMAIN translator.frames \cup {ExtractCANId(raw)},
           translator'.frames[ExtractCANId(raw)] = CANData(raw),
           \A id \in DOMAIN translator.frames \ {ExtractCANId(raw)} :
               translator'.frames[id] = translator.frames[id]
    PROVE  KeepsNewest'
  <1> DEFINE n == Len(fed) + 1
  <1>1. /\ DOMAIN fed = 1..Len(fed) /\ DOMAIN (fed') = 1..n /\ Len(fed) \in Nat
        /\ \A i \in DOMAIN fed : fed'[i] = fed[i]
        /\ fed'[n] = raw
    BY FedGrows
  <1> SUFFICES ASSUME NEW id \in DOMAIN translator'.frames
               PROVE  \E i \in DOMAIN (fed') :
                         /\ ExtractCANId(fed'[i]) = id
                         /\ \A j \in DOMAIN (fed') : j > i => ExtractCANId(fed'[j]) # id
                         /\ translator'.frames[id] = CANData(fed'[i])
    BY DEF KeepsNewest
  <1>2. CASE id = ExtractCANId(raw)
    <2>1. n \in DOMAIN (fed') /\ \A j \in DOMAIN (fed') : ~(j > n)
      BY <1>1
    <2> QED
      BY <1>1, <1>2, <2>1
  <1>3. CASE id # ExtractCANId(raw)
    <2>1. id \in DOMAIN translator.frames /\ translator'.frames[id] = translator.frames[id]
      BY <1>3
    <2>2. PICK i \in DOMAIN fed :
             /\ ExtractCANId(fed[i]) = id
             /\ \A j \in DOMAIN fed : j > i => ExtractCANId(fed[j]) # id
             /\ translator.frames[id] = CANData(fed[i])
      BY <2>1 DEF KeepsNewest
    <2>3. i \in DOMAIN (fed') /\ fed'[i] = fed[i]
      BY <1>1
    <2>4. \A j \in DOMAIN (fed') : j > i => ExtractCANId(fed'[j]) # id
      <3> SUFFICES ASSUME NEW j \in DOMAIN (fed'), j > i
                   PROVE  ExtractCANId(fed'[j]) # id
        OBVIOUS
      <3>1. j \in DOMAIN fed \/ j = n
        BY <1>1
      <3> QED
        BY <1>1, <1>3, <2>2, <3>1
    <2> QED
      BY <2>1, <2>2, <2>3, <2>4
  <1> QED
    BY <1>2, <1>3

\* A new translator has nothing of an earlier vehicle.
LEMMA LoadedTypes ==
    ASSUME NEW id, NEW kind \in {"dbc", "obd2"}, NEW p \in {"CAN", "OBD2"},
           Loaded(id, kind, p), Quiescent, UNCHANGED calls
    PROVE  TypeInv'
  <1>1. translator' = [kind |-> kind, vehicle |-> id, last |-> [f \in Fields |-> 0], frames |-> <<>>]
    BY DEF Loaded, Translator, NoFrames
  <1>2. TranslatorOK'
    BY <1>1 DEF TranslatorOK, IsService
  <1>3. fed' = <<>> /\ protocol' = p /\ Quiescent'
    BY DEF Loaded, Quiescent
  <1>4. DOMAIN translator'.frames = {}
    BY <1>1, EmptySeq
  <1>5. FedOK' /\ Len(fed') <= MaxFed /\ {ExtractCANId(fed'[i]) : i \in DOMAIN (fed')} = {}
    BY <1>3, NothingFed
  <1>6. TypeOK'
    BY <1>3, <1>4, <1>5 DEF TypeOK, KeepsNewest
  <1> QED
    BY <1>2, <1>5, <1>6 DEF TypeInv

LEMMA TypesStay ==
    ASSUME TypeInv, UNCHANGED <<protocol, translator, fed>>, Quiescent => Quiescent'
    PROVE  TypeInv'
  BY DEF TypeInv, TypeOK, KeepsNewest, TranslatorOK, FedOK, IsService

LEMMA TypesInit == Init => TypeInv
  <1> SUFFICES ASSUME Init
               PROVE  TypeInv
    OBVIOUS
  <1>1. TranslatorOK
    BY ReportsInit DEF ReportsInv
  <1>2. translator.frames = <<>>
    <2>1. PICK kind, vehicle : translator = Translator(kind, vehicle)
      BY Zenon DEF Init, None, Own, Create
    <2> QED
      BY <2>1 DEF Translator, NoFrames
  <1>3. fed = <<>> /\ protocol = "Simulation" /\ Quiescent
    BY DEF Init, Quiescent
  <1>4. <<>> \in Seq({}) /\ Len(<<>>) = 0 /\ DOMAIN <<>> = {}
    BY EmptySeq
  <1>5. {fed[i] : i \in DOMAIN fed} = {} /\ {ExtractCANId(fed[i]) : i \in DOMAIN fed} = {}
    BY <1>3, <1>4
  <1>6. FedOK /\ TypeOK
    BY <1>2, <1>3, <1>4, <1>5, ServiceAssumption DEF FedOK, TypeOK, KeepsNewest
  <1> QED
    BY <1>1, <1>6 DEF TypeInv

LEMMA TypesNext == TypeInv /\ [Next]_vars => TypeInv'
  <1> SUFFICES ASSUME TypeInv, [Next]_vars
               PROVE  TypeInv'
    OBVIOUS
  <1>1. ASSUME NEW id \in Vehicles, NEW p \in {"CAN", "OBD2", "Simulation"}, NEW text \in Contents,
               LoadVehicle(id, p, text)
        PROVE  TypeInv'
    <2>1. Quiescent /\ UNCHANGED calls
      BY <1>1, Zenon DEF LoadVehicle
    <2>2. CASE \E kind \in {"dbc", "obd2"}, q \in {"CAN", "OBD2"} : Loaded(id, kind, q)
      BY <2>1, <2>2, LoadedTypes
    <2>3. CASE UNCHANGED <<translator, protocol, fed>>
      <3>1. Quiescent'
        BY <2>1, Zenon DEF Quiescent
      <3> QED
        BY <2>3, <3>1, TypesStay
    <2> QED
      BY <1>1, <2>2, <2>3 DEF LoadVehicle, LoadCAN, LoadUnknown
  <1>2. ASSUME NEW raw, ProcessRefused(raw)
        PROVE  TypeInv'
    BY <1>2, TypesStay DEF ProcessRefused, Quiescent
  <1>3. ASSUME NEW raw, ProcessFrame(raw)
        PROVE  TypeInv'
    <2>1. PICK last : translator' = [translator EXCEPT !.last = last]
      BY <1>3, Zenon DEF ProcessFrame, Translate
    <2>2. /\ translator.kind # "dbc" /\ Len(fed) < MaxFed /\ fed' = Append(fed, raw)
          /\ UNCHANGED <<protocol, calls>>
      BY <1>3, Zenon DEF ProcessFrame
    <2>3. /\ translator'.kind = translator.kind /\ translator'.vehicle = translator.vehicle
          /\ translator'.frames = translator.frames /\ TranslatorOK'
      BY <2>1 DEF TypeInv, TranslatorOK, IsService
    <2>4. FedOK' /\ Len(fed') <= MaxFed
      BY <2>2, FedGrows DEF TypeInv
    <2>5. TypeOK'
      <3>1. DOMAIN translator.frames = {} /\ DOMAIN translator'.frames = {}
        BY <2>2, <2>3 DEF TypeInv, TypeOK
      <3>2. KeepsNewest'
        BY <3>1 DEF KeepsNewest
      <3> QED
        BY <2>2, <2>3, <2>4, <3>1, <3>2 DEF TypeInv, TypeOK, Quiescent
    <2> QED
      BY <2>3, <2>4, <2>5 DEF TypeInv
  <1>4. ASSUME NEW c \in Callers, NEW raw, StoreFrame(c, raw)
        PROVE  TypeInv'
    <2>1. /\ translator.kind = "dbc" /\ Len(fed) < MaxFed /\ fed' = Append(fed, raw)
          /\ UNCHANGED protocol
      BY <1>4, Zenon DEF StoreFrame
    <2>2. PICK frames : /\ translator' = [translator EXCEPT !.frames = frames]
                        /\ DOMAIN frames = DOMAIN translator.frames \cup {ExtractCANId(raw)}
                        /\ frames[ExtractCANId(raw)] = CANData(raw)
                        /\ \A id \in DOMAIN translator.frames \ {ExtractCANId(raw)} :
                              frames[id] = translator.frames[id]
      <3> DEFINE frames(t) == [id \in DOMAIN t.frames \cup {ExtractCANId(raw)} |->
                                  IF id = ExtractCANId(raw) THEN CANData(raw) ELSE t.frames[id]]
      <3>1. translator' = [translator EXCEPT !.frames = frames(translator)]
        BY <1>4, Zenon DEF StoreFrame, Accumulate
      <3>2. /\ DOMAIN frames(translator) = DOMAIN translator.frames \cup {ExtractCANId(raw)}
            /\ frames(translator)[ExtractCANId(raw)] = CANData(raw)
            /\ \A id \in DOMAIN translator.frames \ {ExtractCANId(raw)} :
                  frames(translator)[id] = translator.frames[id]
        OBVIOUS
      <3> QED
        BY <3>1, <3>2, Zenon
    <2>3. /\ translator'.kind = translator.kind /\ translator'.vehicle = translator.vehicle
          /\ translator'.frames = frames
          /\ TranslatorOK'
      BY <2>2 DEF TypeInv, TranslatorOK, IsService
    <2>4. DOMAIN translator'.frames = DOMAIN translator.frames \cup {ExtractCANId(raw)}
      BY <2>2, <2>3
    <2>5. /\ FedOK' /\ Len(fed') <= MaxFed
          /\ {ExtractCANId(fed'[i]) : i \in DOMAIN (fed')} =
                {ExtractCANId(fed[i]) : i \in DOMAIN fed} \cup {ExtractCANId(raw)}
      BY <2>1, FedGrows DEF TypeInv
    <2>6. KeepsNewest'
      BY <2>1, <2>2, <2>3, <2>4, NewestStored DEF TypeInv, TypeOK
    <2>7. TypeOK'
      BY <2>1, <2>3, <2>4, <2>5, <2>6 DEF TypeInv, TypeOK
    <2> QED
      BY <2>3, <2>5, <2>7 DEF TypeInv
  <1>5. ASSUME NEW c \in Callers, BuildSignal(c)
        PROVE  TypeInv'
    <2>1. UNCHANGED <<protocol, translator, fed>> /\ calls' = [calls EXCEPT ![c] = <<>>]
      BY <1>5, Zenon DEF BuildSignal
    <2>2. Quiescent => Quiescent'
      BY <2>1 DEF Quiescent
    <2> QED
      BY <2>1, <2>2, TypesStay
  <1>6. CASE UNCHANGED vars
    BY <1>6, TypesStay DEF vars, Quiescent
  <1> QED
    BY <1>1, <1>2, <1>3, <1>4, <1>5, <1>6, Zenon DEF Next

(* Whatever is loaded, fed and translated by whichever threads: the        *)
(* translator in use has the newest frame of each message it was fed with, *)
(* and of no other, and a translation is under way only in a DBC           *)
(* translator.                                                             *)
THEOREM FramesAreItsOwn == Spec => []TypeOK
  <1>1. TypeInv => TypeOK
    BY DEF TypeInv
  <1> QED
    BY <1>1, TypesInit, TypesNext, PTL DEF Spec
=============================================================================
