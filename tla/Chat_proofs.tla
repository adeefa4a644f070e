----------------------------- MODULE Chat_proofs -----------------------------
(***************************************************************************)
(* Proofs about Chat for any number of connections, servers, messages,     *)
(* conversations and requests for one.                                     *)
(***************************************************************************)
EXTENDS Chat, FiniteSetTheorems, TLAPS

\* The inductive invariant.  With no lapse the last write settles isOnline: while
\* the user is away somebody is about to say so, while there it is said or about to
\* be, and a write under way that says the opposite would be a lapse.
WritesAgree ==
    \/ lapse
    \/ /\ Connected = {} /\ (isOnline \/ Setting("online") # {}) => Leaving
       /\ Connected # {} => isOnline \/ Setting("online") # {}
       /\ Setting("offline") # {} => Connected = {} /\ Setting("online") = {}

\* A message about to be emitted has a socket to reach, or its history says why not.
EmissionReaches ==
    /\ \A m \in Messages : msg[m] = "ready" => m \in reached \cup excused \/ Connected # {}
    /\ MissedOnlyInWindow

IInv == TypeOK /\ WritesAgree /\ EmissionReaches

-----------------------------------------------------------------------------
LEMMA IdleCall == Idle \in CallType /\ Idle.op = "idle"
  BY DEF Idle, Call, CallType

LEMMA InitIInv == Init => IInv
<1> SUFFICES ASSUME Init PROVE IInv
  OBVIOUS
<1>1. TypeOK
  <2>1. isOnline \in BOOLEAN /\ lapse \in BOOLEAN /\ home \in [Sockets -> Servers]
    BY DEF Init
  <2> QED
    BY <2>1, IdleCall DEF Init, TypeOK
<1>2. WritesAgree /\ EmissionReaches
  BY DEF Init, WritesAgree, EmissionReaches, MissedOnlyInWindow, Connected, Setting, Leaving
<1> QED
  BY <1>1, <1>2 DEF IInv

LEMMA PresenceFrame ==
    ASSUME WritesAgree, UNCHANGED presence
    PROVE  WritesAgree'
  BY DEF WritesAgree, presence, Connected, Setting, Leaving, Pausing

LEMMA DeliveryFrame ==
    ASSUME EmissionReaches, UNCHANGED <<msg, reached>>, excused \subseteq excused',
           \A m \in Messages : msg[m] = "ready" /\ Connected # {} => Connected' # {} \/ m \in excused'
    PROVE  EmissionReaches'
  BY DEF EmissionReaches, MissedOnlyInWindow

-----------------------------------------------------------------------------
LEMMA ConnectIInv ==
    ASSUME IInv, NEW s \in Sockets, NEW v \in Servers, HandleConnection(s, v)
    PROVE  IInv'
<1>1. /\ TypeOK /\ WritesAgree /\ EmissionReaches
      /\ sock[s] = "out" /\ setting[s] = {}
      /\ sock' = [sock EXCEPT ![s] = "in"] /\ home' = [home EXCEPT ![s] = v]
      /\ UNCHANGED <<isOnline, delivery, conversations>>
  BY DEF IInv, HandleConnection
<1>2. Connected' = Connected \cup {s} /\ Room(v) \subseteq Connected
  BY <1>1 DEF TypeOK, Connected, Room
<1>3. CASE Room(v) = {}
  <2>1. setting' = [setting EXCEPT ![s] = {"online"}] /\ lapse' = (Setting("offline") # {})
    BY <1>3 DEF HandleConnection
  <2>2. Setting("offline")' = Setting("offline") /\ s \in Setting("online")'
    BY <1>1, <2>1 DEF TypeOK, Setting
  <2>3. lapse' \in BOOLEAN
    BY <2>1
  <2>4. TypeOK'
    BY <1>1, <2>1, <2>3 DEF TypeOK, delivery, conversations
  <2>5. WritesAgree'
    BY <1>2, <2>1, <2>2 DEF WritesAgree
  <2> QED
    BY <1>1, <1>2, <2>4, <2>5, DeliveryFrame DEF IInv, delivery
<1>4. CASE Room(v) # {}
  <2>1. UNCHANGED <<setting, lapse>>
    BY <1>4 DEF HandleConnection
  <2>2. \A w : Setting(w)' = Setting(w)
    BY <2>1 DEF Setting
  <2>3. TypeOK'
    BY <1>1, <2>1 DEF TypeOK, delivery, conversations
  <2>4. WritesAgree'
    BY <1>1, <1>2, <1>4, <2>1, <2>2 DEF WritesAgree
  <2> QED
    BY <1>1, <1>2, <2>3, <2>4, DeliveryFrame DEF IInv, delivery
<1> QED
  BY <1>3, <1>4

LEMMA SetUserOnlineIInv ==
    ASSUME IInv, NEW s \in Sockets, SetUserOnline(s)
    PROVE  IInv'
<1>1. /\ TypeOK /\ WritesAgree /\ EmissionReaches
      /\ s \in Setting("online") /\ isOnline' = TRUE
      /\ setting' = [setting EXCEPT ![s] = @ \ {"online"}]
      /\ UNCHANGED <<sock, home, lapse, delivery, conversations>>
  BY DEF IInv, SetUserOnline, Setting
<1>2. Connected' = Connected /\ Pausing' = Pausing /\ Setting("offline")' = Setting("offline")
      /\ Setting("online")' \subseteq Setting("online")
  BY <1>1 DEF TypeOK, Connected, Pausing, Setting
<1>3. isOnline' \in BOOLEAN
  BY <1>1
<1>4. TypeOK'
  BY <1>1, <1>3 DEF TypeOK, delivery, conversations
<1>5. WritesAgree'
  BY <1>1, <1>2 DEF WritesAgree, Leaving
<1> QED
  BY <1>1, <1>2, <1>4, <1>5, DeliveryFrame DEF IInv, delivery

LEMMA SetUserOfflineIInv ==
    ASSUME IInv, NEW s \in Sockets, SetUserOffline(s)
    PROVE  IInv'
<1>1. /\ TypeOK /\ WritesAgree /\ EmissionReaches
      /\ s \in Setting("offline") /\ isOnline' = FALSE
      /\ setting' = [setting EXCEPT ![s] = @ \ {"offline"}]
      /\ UNCHANGED <<sock, home, lapse, delivery, conversations>>
  BY DEF IInv, SetUserOffline, Setting
<1>2. Connected' = Connected /\ Pausing' = Pausing /\ Setting("online")' = Setting("online")
      /\ Setting("offline")' \subseteq Setting("offline")
  BY <1>1 DEF TypeOK, Connected, Pausing, Setting
<1>3. isOnline' \in BOOLEAN
  BY <1>1
<1>4. TypeOK'
  BY <1>1, <1>3 DEF TypeOK, delivery, conversations
<1>5. WritesAgree'
  BY <1>1, <1>2 DEF WritesAgree, Leaving
<1> QED
  BY <1>1, <1>2, <1>4, <1>5, DeliveryFrame DEF IInv, delivery

LEMMA DisconnectIInv ==
    ASSUME IInv, NEW s \in Sockets, Disconnect(s)
    PROVE  IInv'
<1>1. /\ TypeOK /\ WritesAgree /\ EmissionReaches
      /\ sock' = [sock EXCEPT ![s] = "pausing"]
      /\ excused' = excused \cup Interrupted({s})
      /\ UNCHANGED <<isOnline, home, setting, lapse, msg, reached, conversations>>
      /\ sock[s] = "in"
  BY DEF IInv, Disconnect
<1>2. Connected' = Connected \ {s} /\ s \in Pausing' /\ \A w : Setting(w)' = Setting(w)
      /\ s \in Connected
  BY <1>1 DEF TypeOK, Connected, Pausing, Setting
<1>3. excused' \subseteq Messages
  BY <1>1 DEF TypeOK, Interrupted
<1>4. TypeOK'
  BY <1>1, <1>3 DEF TypeOK, conversations
<1>5. WritesAgree'
  BY <1>1, <1>2 DEF WritesAgree, Leaving
<1>6. \A m \in Messages : msg[m] = "ready" => Connected' # {} \/ m \in excused'
  BY <1>1, <1>2 DEF Interrupted
<1> QED
  BY <1>1, <1>4, <1>5, <1>6, DeliveryFrame DEF IInv

LEMMA HandleDisconnectIInv ==
    ASSUME IInv, NEW s \in Sockets, HandleDisconnect(s)
    PROVE  IInv'
<1>1. /\ TypeOK /\ WritesAgree /\ EmissionReaches
      /\ sock[s] = "pausing" /\ sock' = [sock EXCEPT ![s] = "out"]
      /\ UNCHANGED <<isOnline, home, delivery, conversations>>
  BY DEF IInv, HandleDisconnect
<1>2. Connected' = Connected /\ Room(home[s]) \subseteq Connected
  BY <1>1 DEF TypeOK, Connected, Room
<1>3. CASE Room(home[s]) = {}
  <2>1. /\ setting' = [setting EXCEPT ![s] = @ \cup {"offline"}]
        /\ lapse' = (Setting("online") # {} \/ Connected # {})
    BY <1>3 DEF HandleDisconnect
  <2>2. Setting("online")' = Setting("online") /\ s \in Setting("offline")'
    BY <1>1, <2>1 DEF TypeOK, Setting
  <2>3. lapse' \in BOOLEAN
    BY <2>1
  <2>4. TypeOK'
    BY <1>1, <2>1, <2>3 DEF TypeOK, delivery, conversations
  <2>5. WritesAgree'
    BY <1>2, <2>1, <2>2 DEF WritesAgree, Leaving
  <2> QED
    BY <1>1, <1>2, <2>4, <2>5, DeliveryFrame DEF IInv, delivery
<1>4. CASE Room(home[s]) # {}
  <2>1. UNCHANGED <<setting, lapse>>
    BY <1>4 DEF HandleDisconnect
  <2>2. \A w : Setting(w)' = Setting(w)
    BY <2>1 DEF Setting
  <2>3. TypeOK'
    BY <1>1, <2>1 DEF TypeOK, delivery, conversations
  <2>4. WritesAgree'
    BY <1>1, <1>2, <1>4, <2>1, <2>2 DEF WritesAgree
  <2> QED
    BY <1>1, <1>2, <2>3, <2>4, DeliveryFrame DEF IInv, delivery
<1> QED
  BY <1>3, <1>4

\* What fails is a lapse.
LEMMA LapseIInv ==
    ASSUME IInv,
           \/ \E s \in Sockets : SetUserOnlineFails(s) \/ SetUserOfflineFails(s)
           \/ \E v \in Servers : Crash(v)
    PROVE  IInv'
<1>1. TypeOK /\ EmissionReaches
  BY DEF IInv
<1>2. /\ lapse' = TRUE /\ excused \subseteq excused' /\ excused' \subseteq Messages
      /\ UNCHANGED <<isOnline, home, msg, reached, conversations>>
      /\ \A m \in Messages : msg[m] = "ready" /\ Connected # {} => Connected' # {} \/ m \in excused'
      /\ sock' \in [Sockets -> {"out", "in", "pausing"}]
      /\ setting' \in [Sockets -> SUBSET {"online", "offline"}]
  <2> DEFINE Goal ==
        /\ lapse' = TRUE /\ excused \subseteq excused' /\ excused' \subseteq Messages
        /\ UNCHANGED <<isOnline, home, msg, reached, conversations>>
        /\ \A m \in Messages : msg[m] = "ready" /\ Connected # {} => Connected' # {} \/ m \in excused'
        /\ sock' \in [Sockets -> {"out", "in", "pausing"}]
        /\ setting' \in [Sockets -> SUBSET {"online", "offline"}]
  <2>1. ASSUME NEW s \in Sockets, SetUserOnlineFails(s) PROVE Goal
    <3>1. Connected \ {s} \subseteq Connected'
      BY <1>1, <2>1 DEF TypeOK, SetUserOnlineFails, Connected
    <3>2. /\ sock' \in [Sockets -> {"out", "in", "pausing"}]
          /\ setting' \in [Sockets -> SUBSET {"online", "offline"}]
          /\ excused' \subseteq Messages
      BY <1>1, <2>1 DEF TypeOK, SetUserOnlineFails, Interrupted
    <3> QED
      BY <2>1, <3>1, <3>2 DEF SetUserOnlineFails, Interrupted
  <2>2. ASSUME NEW s \in Sockets, SetUserOfflineFails(s) PROVE Goal
    BY <1>1, <2>2 DEF TypeOK, SetUserOfflineFails, Connected, delivery
  <2>3. ASSUME NEW v \in Servers, Crash(v) PROVE Goal
    <3> DEFINE mine == {s \in Sockets : home[s] = v}
    <3>1. /\ sock' = [s \in Sockets |-> IF s \in mine THEN "out" ELSE sock[s]]
          /\ setting' = [s \in Sockets |-> IF s \in mine THEN {} ELSE setting[s]]
          /\ excused' = excused \cup Interrupted(mine) /\ lapse' = TRUE
          /\ UNCHANGED <<isOnline, home, msg, reached, conversations>>
      BY <2>3 DEF Crash
    <3>2. /\ sock' \in [Sockets -> {"out", "in", "pausing"}]
          /\ setting' \in [Sockets -> SUBSET {"online", "offline"}]
          /\ excused' \subseteq Messages
      BY <1>1, <3>1 DEF TypeOK, Interrupted
    <3>3. Connected \ mine \subseteq Connected'
      BY <3>1 DEF Connected
    <3> HIDE DEF mine
    <3> QED
      BY <3>1, <3>2, <3>3 DEF Interrupted
  <2> QED
    BY <2>1, <2>2, <2>3
<1>3. TypeOK'
  BY <1>1, <1>2 DEF TypeOK, conversations
<1>4. WritesAgree'
  BY <1>2 DEF WritesAgree
<1> QED
  BY <1>1, <1>2, <1>3, <1>4, DeliveryFrame DEF IInv

LEMMA MessageIInv ==
    ASSUME IInv, NEW m \in Messages,
           \/ SendMessage(m) \/ SendMessageReadPresence(m)
           \/ CreateNotification(m) \/ EmitNewMessage(m) \/ SendMessageDies(m)
    PROVE  IInv'
<1>1. TypeOK /\ WritesAgree /\ EmissionReaches
  BY DEF IInv
<1>2. UNCHANGED <<presence, conversations>> /\ Connected' = Connected
  BY DEF SendMessage, SendMessageReadPresence, CreateNotification, EmitNewMessage,
         SendMessageDies, presence, Connected
<1>3. /\ msg' \in [Messages -> {"none", "created", "offline", "ready", "sent", "dead"}]
      /\ reached' \subseteq Messages /\ excused' \subseteq Messages
  BY <1>1 DEF TypeOK, SendMessage, SendMessageReadPresence, CreateNotification, EmitNewMessage,
              SendMessageDies
<1>4. TypeOK'
  BY <1>1, <1>2, <1>3 DEF TypeOK, presence, conversations
<1>5. WritesAgree'
  BY <1>1, <1>2, PresenceFrame
<1>6. EmissionReaches'
  <2> USE DEF EmissionReaches, MissedOnlyInWindow
  <2>1. CASE SendMessage(m) \/ SendMessageDies(m)
    BY <1>1, <1>2, <2>1 DEF TypeOK, SendMessage, SendMessageDies
  <2>2. CASE SendMessageReadPresence(m)
    <3>1. isOnline /\ Connected = {} => lapse \/ Leaving
      BY <1>1 DEF WritesAgree
    <3> QED
      BY <1>1, <1>2, <2>2, <3>1 DEF TypeOK, SendMessageReadPresence
  <2>3. CASE CreateNotification(m)
    BY <1>1, <1>2, <2>3 DEF TypeOK, CreateNotification
  <2>4. CASE EmitNewMessage(m)
    BY <1>1, <1>2, <2>4 DEF TypeOK, EmitNewMessage
  <2> QED
    BY <2>1, <2>2, <2>3, <2>4
<1> QED
  BY <1>4, <1>5, <1>6 DEF IInv

-----------------------------------------------------------------------------
ConversationStep(k) ==
    \/ \E j \in Jobs : CreateConversationFindAny(k, j)
    \/ CreateConversationUpdate(k)
    \/ CreateConversationFindDirect(k) \/ CreateConversationFails(k)
    \/ \E c \in Rows : CreateConversationForJob(k, c) \/ CreateConversationDirect(k, c)

\* What a step does to the direct conversations and to the requests for one.
DirectStays == Direct' \subseteq Direct /\ Asking' \subseteq Asking
DirectAsked == Direct = {} /\ Direct' = {}
DirectAdded ==
    \E k \in Slots, c \in Rows :
       k \in Asking /\ Asking' = Asking \ {k} /\ c \notin Direct /\ Direct' = Direct \cup {c}

LEMMA ConversationStepTypes ==
    ASSUME TypeOK, NEW k \in Slots, ConversationStep(k)
    PROVE  /\ UNCHANGED <<presence, delivery>>
           /\ row' \in [Rows -> {"NONE", "DIRECT"} \cup Jobs]
           /\ call' \in [Slots -> CallType]
           /\ DirectStays \/ DirectAsked \/ DirectAdded
<1> DEFINE Goal == /\ UNCHANGED <<presence, delivery>>
                   /\ row' \in [Rows -> {"NONE", "DIRECT"} \cup Jobs]
                   /\ call' \in [Slots -> CallType]
                   /\ DirectStays \/ DirectAsked \/ DirectAdded
<1> USE IdleCall, ConstantsAssumption
<1>1. ASSUME NEW j \in Jobs, NEW found \in SUBSET Rows, Begin(k, Call("job", j, found)),
             UNCHANGED row, UNCHANGED <<presence, delivery>>
      PROVE  Goal
  <2>1. Call("job", j, found) \in CallType /\ Call("job", j, found).op = "job"
    BY DEF Call, CallType
  <2>2. call' = [call EXCEPT ![k] = Call("job", j, found)] /\ call[k] = Idle
    BY <1>1 DEF Begin
  <2>3. call' \in [Slots -> CallType] /\ Asking' = Asking
    BY <2>1, <2>2 DEF TypeOK, Asking
  <2>4. row' \in [Rows -> {"NONE", "DIRECT"} \cup Jobs] /\ Direct' = Direct
    BY <1>1 DEF TypeOK, Direct
  <2> QED
    BY <1>1, <2>3, <2>4 DEF DirectStays
<1>2. ASSUME NEW j \in Jobs, CreateConversationFindAny(k, j) PROVE Goal
  <2>1. UNCHANGED <<presence, delivery>> /\ UNCHANGED row
    BY <1>2 DEF CreateConversationFindAny
  <2>2. \E found \in SUBSET Rows : Begin(k, Call("job", j, found))
    BY <1>2 DEF CreateConversationFindAny
  <2> QED
    BY <1>1, <2>1, <2>2
<1>3. ASSUME NEW c \in Rows, row' = [row EXCEPT ![c] = call[k].job],
             Finish(k), UNCHANGED <<presence, delivery>>
      PROVE  Goal
  <2>1. call[k].job \in Jobs \cup {"NONE"}
    BY DEF TypeOK, CallType
  <2>2. row' \in [Rows -> {"NONE", "DIRECT"} \cup Jobs] /\ Direct' \subseteq Direct
    BY <1>3, <2>1 DEF TypeOK, Direct
  <2>3. call' \in [Slots -> CallType] /\ Asking' \subseteq Asking
    BY <1>3 DEF TypeOK, Asking, Finish
  <2> QED
    BY <1>3, <2>2, <2>3 DEF DirectStays
<1>4. ASSUME CreateConversationUpdate(k) PROVE Goal
  <2>1. PICK c \in call[k].found : row' = [row EXCEPT ![c] = call[k].job]
    BY <1>4 DEF CreateConversationUpdate
  <2>2. c \in Rows
    BY <2>1 DEF TypeOK, CallType
  <2> QED
    BY <1>3, <1>4, <2>1, <2>2 DEF CreateConversationUpdate
<1>5. ASSUME NEW c \in Rows, CreateConversationForJob(k, c) PROVE Goal
  BY <1>3, <1>5 DEF CreateConversationForJob
<1>6. ASSUME CreateConversationFindDirect(k) PROVE Goal
  <2>1. Call("direct", "NONE", {}) \in CallType
    BY DEF Call, CallType
  <2>2. call' \in [Slots -> CallType] /\ row' = row /\ Direct = {}
    BY <1>6, <2>1 DEF TypeOK, CreateConversationFindDirect, Begin
  <2>3. Direct' = {}
    BY <2>2 DEF Direct
  <2> QED
    BY <1>6, <2>2, <2>3 DEF TypeOK, CreateConversationFindDirect, DirectAsked
<1>7. ASSUME NEW c \in Rows, CreateConversationDirect(k, c) PROVE Goal
  <2>1. /\ row[c] = "NONE" /\ row' = [row EXCEPT ![c] = "DIRECT"]
        /\ call[k].op = "direct" /\ call' = [call EXCEPT ![k] = Idle]
        /\ UNCHANGED <<presence, delivery>>
    BY <1>7 DEF CreateConversationDirect, Finish
  <2>2. row' \in [Rows -> {"NONE", "DIRECT"} \cup Jobs] /\ c \notin Direct /\ Direct' = Direct \cup {c}
    BY <2>1 DEF TypeOK, Direct
  <2>3. call' \in [Slots -> CallType] /\ k \in Asking /\ Asking' = Asking \ {k}
    BY <2>1 DEF TypeOK, Asking
  <2> QED
    BY <2>1, <2>2, <2>3 DEF DirectAdded
<1>8. ASSUME CreateConversationFails(k) PROVE Goal
  <2>1. call' = [call EXCEPT ![k] = Idle] /\ row' = row
    BY <1>8 DEF CreateConversationFails, Finish
  <2>2. call' \in [Slots -> CallType] /\ Asking' \subseteq Asking /\ Direct' = Direct
    BY <2>1 DEF TypeOK, Asking, Direct
  <2> QED
    BY <1>8, <2>1, <2>2 DEF TypeOK, CreateConversationFails, DirectStays
<1> HIDE DEF Goal
<1>9. Goal
  BY <1>2, <1>4, <1>5, <1>6, <1>7, <1>8 DEF ConversationStep
<1> QED
  BY <1>9 DEF Goal

LEMMA NextIInv == IInv /\ [Next]_vars => IInv'
<1> SUFFICES ASSUME IInv, [Next]_vars PROVE IInv'
  OBVIOUS
<1>1. ASSUME NEW s \in Sockets,
             \/ \E v \in Servers : HandleConnection(s, v)
             \/ SetUserOnline(s) \/ Disconnect(s) \/ HandleDisconnect(s) \/ SetUserOffline(s)
      PROVE  IInv'
  BY <1>1, ConnectIInv, SetUserOnlineIInv, DisconnectIInv, HandleDisconnectIInv, SetUserOfflineIInv
<1>2. ASSUME NEW s \in Sockets, SetUserOnlineFails(s) \/ SetUserOfflineFails(s) PROVE IInv'
  BY <1>2, LapseIInv
<1>3. ASSUME NEW v \in Servers, Crash(v) PROVE IInv'
  BY <1>3, LapseIInv
<1>4. ASSUME NEW m \in Messages,
             \/ SendMessage(m) \/ SendMessageReadPresence(m)
             \/ CreateNotification(m) \/ EmitNewMessage(m) \/ SendMessageDies(m)
      PROVE  IInv'
  BY <1>4, MessageIInv
<1>5. ASSUME NEW k \in Slots, ConversationStep(k) PROVE IInv'
  <2>1. UNCHANGED <<presence, delivery>> /\ Connected' = Connected
        /\ row' \in [Rows -> {"NONE", "DIRECT"} \cup Jobs] /\ call' \in [Slots -> CallType]
    BY <1>5, ConversationStepTypes DEF IInv, presence, Connected
  <2>2. TypeOK' /\ WritesAgree'
    BY <2>1, PresenceFrame DEF IInv, TypeOK, presence, delivery
  <2>3. EmissionReaches'
    BY <2>1, DeliveryFrame DEF IInv, delivery
  <2> QED
    BY <2>2, <2>3 DEF IInv
<1>6. CASE UNCHANGED vars
  <2>1. UNCHANGED presence /\ UNCHANGED delivery /\ UNCHANGED conversations /\ Connected' = Connected
    BY <1>6 DEF vars, presence, delivery, conversations, Connected
  <2>2. TypeOK' /\ WritesAgree'
    BY <2>1, PresenceFrame DEF IInv, TypeOK, presence, delivery, conversations
  <2>3. EmissionReaches'
    BY <2>1, DeliveryFrame DEF IInv, delivery
  <2> QED
    BY <2>2, <2>3 DEF IInv
<1>7. CASE Next
  BY <1>1, <1>2, <1>3, <1>4, <1>5, <1>7 DEF Next, ConversationStep
<1> QED
  BY <1>6, <1>7

LEMMA SpecIInv == Spec => []IInv
  BY InitIInv, NextIInv, PTL DEF Spec

-----------------------------------------------------------------------------
LEMMA Finite ==
    ASSUME TypeOK
    PROVE  /\ IsFiniteSet(Direct) /\ IsFiniteSet(Asking)
           /\ Cardinality(Direct) \in Nat /\ Cardinality(Asking) \in Nat
           /\ Cardinality(Asking) <= Cardinality(Slots) /\ Cardinality(Slots) \in Nat
<1>1. Direct \subseteq Rows /\ Asking \subseteq Slots
  BY DEF Direct, Asking
<1> QED
  BY <1>1, ConstantsAssumption, FS_Subset, FS_CardinalityType

LEMMA InitDirect == Init => DirectOvershoot
<1> SUFFICES ASSUME Init PROVE DirectOvershoot
  OBVIOUS
<1>1. Direct = {} /\ Asking = {}
  BY IdleCall DEF Init, Direct, Asking
<1>2. Cardinality({}) = 0 /\ Cardinality(Slots) \in Nat
  BY FS_EmptySet, FS_CardinalityType, ConstantsAssumption
<1> QED
  BY <1>1, <1>2 DEF DirectOvershoot

LEMMA NextDirect == IInv /\ IInv' /\ DirectOvershoot /\ [Next]_vars => DirectOvershoot'
<1> SUFFICES ASSUME IInv, IInv', DirectOvershoot, [Next]_vars PROVE DirectOvershoot'
  OBVIOUS
<1>1. TypeOK /\ TypeOK'
  BY DEF IInv
<1>2. IsFiniteSet(Direct) /\ IsFiniteSet(Asking)
  BY <1>1, Finite
<1>3. /\ Cardinality(Direct) \in Nat /\ Cardinality(Asking) \in Nat /\ Cardinality(Slots) \in Nat
      /\ Cardinality(Direct') \in Nat /\ Cardinality(Asking') \in Nat
      /\ Cardinality(Asking') <= Cardinality(Slots)
  <2>1. Direct' \subseteq Rows /\ Asking' \subseteq Slots
    BY DEF Direct, Asking
  <2>2. /\ Cardinality(Direct') \in Nat /\ Cardinality(Asking') \in Nat
        /\ Cardinality(Asking') <= Cardinality(Slots)
    BY <2>1, ConstantsAssumption, FS_Subset, FS_CardinalityType
  <2> QED
    BY <1>1, <2>2, Finite
<1>4. DirectStays \/ DirectAsked \/ DirectAdded
  <2>1. ASSUME NEW k \in Slots, ConversationStep(k) PROVE DirectStays \/ DirectAsked \/ DirectAdded
    BY <1>1, <2>1, ConversationStepTypes
  <2>2. ASSUME UNCHANGED conversations PROVE DirectStays
    BY <2>2 DEF DirectStays, Direct, Asking, conversations
  <2>3. ASSUME NEW s \in Sockets,
               \/ \E v \in Servers : HandleConnection(s, v)
               \/ SetUserOnline(s) \/ SetUserOnlineFails(s)
               \/ Disconnect(s) \/ HandleDisconnect(s)
               \/ SetUserOffline(s) \/ SetUserOfflineFails(s)
        PROVE  UNCHANGED conversations
    BY <2>3 DEF HandleConnection, SetUserOnline, SetUserOnlineFails, Disconnect, HandleDisconnect,
                SetUserOffline, SetUserOfflineFails
  <2>4. ASSUME NEW v \in Servers, Crash(v) PROVE UNCHANGED conversations
    BY <2>4 DEF Crash
  <2>5. ASSUME NEW m \in Messages,
               \/ SendMessage(m) \/ SendMessageReadPresence(m)
               \/ CreateNotification(m) \/ EmitNewMessage(m) \/ SendMessageDies(m)
        PROVE  UNCHANGED conversations
    BY <2>5 DEF SendMessage, SendMessageReadPresence, CreateNotification, EmitNewMessage, SendMessageDies
  <2>6. UNCHANGED vars => UNCHANGED conversations
    BY DEF vars, conversations
  <2> QED
    BY <2>1, <2>2, <2>3, <2>4, <2>5, <2>6 DEF Next, ConversationStep
<1>5. CASE DirectStays
  <2>1. Cardinality(Direct') <= Cardinality(Direct) /\ Cardinality(Asking') <= Cardinality(Asking)
    BY <1>2, <1>5, FS_Subset DEF DirectStays
  <2> QED
    BY <1>3, <2>1 DEF DirectOvershoot
<1>6. CASE DirectAsked
  <2>1. Cardinality(Direct') = 0
    BY <1>6, FS_EmptySet DEF DirectAsked
  <2> QED
    BY <1>3, <2>1 DEF DirectOvershoot
<1>7. CASE DirectAdded
  <2>1. PICK k \in Slots, c \in Rows :
           k \in Asking /\ Asking' = Asking \ {k} /\ c \notin Direct /\ Direct' = Direct \cup {c}
    BY <1>7 DEF DirectAdded
  <2>2. Cardinality(Direct \cup {c}) = Cardinality(Direct) + 1
    BY <1>2, <2>1, FS_AddElement
  <2>3. Cardinality(Asking \ {k}) = Cardinality(Asking) - 1
    BY <1>2, <2>1, FS_RemoveElement
  <2>4. Cardinality(Direct') = Cardinality(Direct) + 1
    BY <2>1, <2>2
  <2>5. Cardinality(Asking') = Cardinality(Asking) - 1
    BY <2>1, <2>3
  <2> QED
    BY <1>3, <2>4, <2>5 DEF DirectOvershoot
<1> QED
  BY <1>4, <1>5, <1>6, <1>7

\* Columns, connections, messages and requests keep their types.
THEOREM TypeIsCorrect == Spec => []TypeOK
<1>1. IInv => TypeOK
  BY DEF IInv
<1> QED
  BY <1>1, SpecIInv, PTL

\* isOnline is wrong only in the windows PresenceFollows names, and a message that was
\* sent is missed only by a user in such a window.
THEOREM AwayUsersAreTold == Spec => []AwayIsTold
<1>1. IInv => PresenceFollows
  BY DEF IInv, WritesAgree, PresenceFollows
<1>2. IInv => AwayIsTold
  BY <1>1 DEF IInv, EmissionReaches, AwayIsTold
<1> QED
  BY <1>2, SpecIInv, PTL

\* The two have no more direct conversations than requests run at once.
THEOREM DirectIsBounded == Spec => []DirectOvershoot
<1> QED
  BY SpecIInv, InitDirect, NextDirect, PTL DEF Spec
=============================================================================
