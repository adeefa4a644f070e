-------------------------------- MODULE Chat --------------------------------
(***************************************************************************)
(* The chat of one customer and one trader: their conversations, the       *)
(* messages one of them gets, and the presence of the one that gets them.  *)
(* chat.gateway.ts, chat.service.ts, conversation.service.ts; the part of  *)
(* socket.service.ts and notification.service.ts that sendMessage uses.    *)
(*                                                                         *)
(* Every server counts the sockets of the user's room that are its own,    *)
(* and writes User.isOnline when the first comes and the last has gone.    *)
(* Messages are emitted to the room on every server (redis-io.adapter.ts). *)
(* A socket stands for one connection; it is used again once its handlers  *)
(* have ended.  To verify the token and to join a room is no I/O, so       *)
(* handleConnection counts before another event is handled.                *)
(*                                                                         *)
(* Typing, read marks, userOnline and userOffline events, the copy of a    *)
(* message that the sender's client relays, moderation, wording and caches *)
(* are left out.                                                           *)
(***************************************************************************)
EXTENDS Naturals, FiniteSets

CONSTANTS
    Sockets,    \* connections of the user
    Servers,    \* processes of the backend
    Messages,   \* messages to the user
    Jobs,       \* jobs the two have a chat about
    Rows,       \* Conversation rows of the two
    Slots       \* requests for a conversation at the same time

ASSUME ConstantsAssumption ==
    /\ IsFiniteSet(Rows) /\ IsFiniteSet(Slots)
    /\ Jobs \cap {"NONE", "DIRECT"} = {}

VARIABLES
    isOnline,   \* User.isOnline
    sock,       \* the state of each connection
    home,       \* the server it was made to
    setting,    \* the writes of isOnline its handlers have under way
    msg,        \* how far sendMessage is with each message
    row,        \* the conversations: none, direct, or the job they are about
    call,       \* the requests for a conversation
    lapse,      \* history: the last write of isOnline overlapped an opposite one, was
                \* lost, or ignored another server
    reached,    \* history: messages the user was told of
    excused     \* history: messages sent in a window

presence == <<isOnline, sock, home, setting, lapse>>
delivery == <<msg, reached, excused>>
conversations == <<row, call>>
vars == <<isOnline, sock, home, setting, msg, row, call, lapse, reached, excused>>

Connected == {s \in Sockets : sock[s] = "in"}
Pausing == {s \in Sockets : sock[s] = "pausing"}
Setting(w) == {s \in Sockets : w \in setting[s]}

CallType == [op : {"idle", "direct", "job"}, job : Jobs \cup {"NONE"}, found : SUBSET Rows]
Call(op, job, found) == [op |-> op, job |-> job, found |-> found]
Idle == Call("idle", "NONE", {})
Asking == {k \in Slots : call[k].op = "direct"}
Direct == {c \in Rows : row[c] = "DIRECT"}

-----------------------------------------------------------------------------
Init ==
    /\ isOnline = FALSE /\ lapse = FALSE
    /\ sock = [s \in Sockets |-> "out"]
    /\ home \in {h \in [Sockets -> Servers] : \A s, t \in Sockets : h[s] = h[t]}
    /\ setting = [s \in Sockets |-> {}]
    /\ msg = [m \in Messages |-> "none"]
    /\ reached = {} /\ excused = {}
    /\ row = [c \in Rows |-> "NONE"]
    /\ call = [k \in Slots |-> Idle]

(***************************************************************************)
(* Presence.                                                               *)
(***************************************************************************)
\* The user's room as server v knows it.
Room(v) == {s \in Connected : home[s] = v}

\* handleConnection: the socket joins, and the first one of this server sets the
\* user online.
HandleConnection(s, v) ==
    /\ sock[s] = "out" /\ setting[s] = {}
    /\ sock' = [sock EXCEPT ![s] = "in"]
    /\ home' = [home EXCEPT ![s] = v]
    /\ IF Room(v) = {}
       THEN /\ setting' = [setting EXCEPT ![s] = {"online"}]
            /\ lapse' = (Setting("offline") # {})
       ELSE UNCHANGED <<setting, lapse>>
    /\ UNCHANGED <<isOnline, delivery, conversations>>

SetUserOnline(s) ==
    /\ "online" \in setting[s]
    /\ isOnline' = TRUE
    /\ setting' = [setting EXCEPT ![s] = @ \ {"online"}]
    /\ UNCHANGED <<sock, home, lapse, delivery, conversations>>

\* Messages on their way to a user who has just left.
Interrupted(left) == IF Connected \subseteq left THEN {m \in Messages : msg[m] = "ready"} ELSE {}

\* The write fails, and the socket is disconnected.
SetUserOnlineFails(s) ==
    /\ "online" \in setting[s]
    /\ setting' = [setting EXCEPT ![s] = @ \ {"online"}]
    /\ sock' = [sock EXCEPT ![s] = IF @ = "in" THEN "pausing" ELSE @]
    /\ lapse' = TRUE
    /\ excused' = excused \cup Interrupted({s})
    /\ UNCHANGED <<isOnline, home, msg, reached, conversations>>

\* The socket is out of the room at once, and handleDisconnect waits 300 ms.
Disconnect(s) ==
    /\ sock[s] = "in"
    /\ sock' = [sock EXCEPT ![s] = "pausing"]
    /\ excused' = excused \cup Interrupted({s})
    /\ UNCHANGED <<isOnline, home, setting, lapse, msg, reached, conversations>>

\* Mutant: the user goes offline with any of the sockets.
HandleDisconnectAny(s) ==
    /\ sock[s] = "pausing"
    /\ sock' = [sock EXCEPT ![s] = "out"]
    /\ setting' = [setting EXCEPT ![s] = @ \cup {"offline"}]
    /\ lapse' = (Setting("online") # {} \/ \E t \in Connected : home[t] # home[s])
    /\ UNCHANGED <<isOnline, home, delivery, conversations>>

\* Mutant: the socket that has gone is still counted.
HandleDisconnectNever(s) ==
    /\ sock[s] = "pausing"
    /\ sock' = [sock EXCEPT ![s] = "out"]
    /\ UNCHANGED <<isOnline, home, setting, lapse, delivery, conversations>>

\* Then the user is set offline if this server has no other socket.
HandleDisconnect(s) ==
    /\ sock[s] = "pausing"
    /\ sock' = [sock EXCEPT ![s] = "out"]
    /\ IF Room(home[s]) = {}
       THEN /\ setting' = [setting EXCEPT ![s] = @ \cup {"offline"}]
            /\ lapse' = (Setting("online") # {} \/ Connected # {})
       ELSE UNCHANGED <<setting, lapse>>
    /\ UNCHANGED <<isOnline, home, delivery, conversations>>

SetUserOffline(s) ==
    /\ "offline" \in setting[s]
    /\ isOnline' = FALSE
    /\ setting' = [setting EXCEPT ![s] = @ \ {"offline"}]
    /\ UNCHANGED <<sock, home, lapse, delivery, conversations>>

SetUserOfflineFails(s) ==
    /\ "offline" \in setting[s]
    /\ setting' = [setting EXCEPT ![s] = @ \ {"offline"}]
    /\ lapse' = TRUE
    /\ UNCHANGED <<isOnline, sock, home, delivery, conversations>>

\* Nothing sets the user offline when the server starts again.
Crash(v) ==
    LET mine == {s \in Sockets : home[s] = v}
    IN  /\ \E s \in mine : sock[s] # "out" \/ setting[s] # {}
        /\ sock' = [s \in Sockets |-> IF s \in mine THEN "out" ELSE sock[s]]
        /\ setting' = [s \in Sockets |-> IF s \in mine THEN {} ELSE setting[s]]
        /\ lapse' = TRUE
        /\ excused' = excused \cup Interrupted(mine)
        /\ UNCHANGED <<isOnline, home, msg, reached, conversations>>

(***************************************************************************)
(* Messages.                                                               *)
(***************************************************************************)
\* The row is created in a conversation of the two, whichever.
SendMessage(m) ==
    /\ msg[m] = "none" /\ \E c \in Rows : row[c] # "NONE"
    /\ msg' = [msg EXCEPT ![m] = "created"]
    /\ UNCHANGED <<presence, reached, excused, conversations>>

\* Nobody is there, and a handler is about to say so.
Leaving == Connected = {} /\ Pausing \cup Setting("offline") # {}

SendMessageReadPresence(m) ==
    /\ msg[m] = "created"
    /\ msg' = [msg EXCEPT ![m] = IF isOnline THEN "ready" ELSE "offline"]
    /\ excused' = IF isOnline /\ (lapse \/ Leaving) THEN excused \cup {m} ELSE excused
    /\ UNCHANGED <<presence, reached, conversations>>

\* A notification is stored for later; if that fails, nobody hears of it.
CreateNotification(m) ==
    /\ msg[m] = "offline"
    /\ msg' = [msg EXCEPT ![m] = "ready"]
    /\ \/ reached' = reached \cup {m} /\ UNCHANGED excused
       \/ excused' = excused \cup {m} /\ UNCHANGED reached
    /\ UNCHANGED <<presence, conversations>>

EmitNewMessage(m) ==
    /\ msg[m] = "ready"
    /\ msg' = [msg EXCEPT ![m] = "sent"]
    /\ reached' = IF Connected = {} THEN reached ELSE reached \cup {m}
    /\ UNCHANGED <<presence, excused, conversations>>

\* The request ends after the message was stored: the scan of its text or the look at
\* the receiver fails, or the server dies.
SendMessageDies(m) ==
    /\ msg[m] \in {"created", "offline", "ready"}
    /\ msg' = [msg EXCEPT ![m] = "dead"]
    /\ UNCHANGED <<presence, reached, excused, conversations>>

(***************************************************************************)
(* Conversations.  createTraderConversation does the same.                 *)
(***************************************************************************)
Begin(k, r) == call[k] = Idle /\ call' = [call EXCEPT ![k] = r]
Finish(k) == call' = [call EXCEPT ![k] = Idle]

\* About a job: any conversation of the two is found; it is returned if it is about
\* that job.
CreateConversationFindAny(k, j) ==
    /\ LET rows == {c \in Rows : row[c] # "NONE"}
       IN  \/ rows = {} /\ Begin(k, Call("job", j, {}))
           \/ \E c \in rows : row[c] # j /\ Begin(k, Call("job", j, {c}))
    /\ UNCHANGED <<presence, delivery, row>>

\* The key (customerId, traderId, type, jobId) refuses a second row for the job.
JobIsFree(j, c) == \A d \in Rows \ {c} : row[d] # j

\* What was found is about this job from now on, whatever it is about by now.
CreateConversationUpdate(k) ==
    /\ call[k].op = "job"
    /\ \E c \in call[k].found :
         /\ JobIsFree(call[k].job, c)
         /\ row' = [row EXCEPT ![c] = call[k].job]
    /\ Finish(k)
    /\ UNCHANGED <<presence, delivery>>

\* Mutant: the type is given, but no job.
CreateConversationForNoJob(k, c) ==
    /\ call[k].op = "job" /\ call[k].found = {}
    /\ row[c] = "NONE" /\ JobIsFree(call[k].job, c)
    /\ row' = [row EXCEPT ![c] = "JOB"]
    /\ Finish(k)
    /\ UNCHANGED <<presence, delivery>>

CreateConversationForJob(k, c) ==
    /\ call[k].op = "job" /\ call[k].found = {}
    /\ row[c] = "NONE" /\ JobIsFree(call[k].job, c)
    /\ row' = [row EXCEPT ![c] = call[k].job]
    /\ Finish(k)
    /\ UNCHANGED <<presence, delivery>>

\* Mutant: no look at what is there.
CreateConversationFindDirectNot(k) ==
    /\ Begin(k, Call("direct", "NONE", {}))
    /\ UNCHANGED <<presence, delivery, row>>

\* About nothing: a direct conversation is returned if there is one.
CreateConversationFindDirect(k) ==
    /\ Direct = {}
    /\ Begin(k, Call("direct", "NONE", {}))
    /\ UNCHANGED <<presence, delivery, row>>

\* jobId is null, and no two nulls are the same to the key.
CreateConversationDirect(k, c) ==
    /\ call[k].op = "direct"
    /\ row[c] = "NONE"
    /\ row' = [row EXCEPT ![c] = "DIRECT"]
    /\ Finish(k)
    /\ UNCHANGED <<presence, delivery>>

\* The key refuses the row, or the server dies.
CreateConversationFails(k) ==
    /\ call[k] # Idle
    /\ Finish(k)
    /\ UNCHANGED <<presence, delivery, row>>

-----------------------------------------------------------------------------
Next ==
    \/ \E s \in Sockets :
         \/ \E v \in Servers : HandleConnection(s, v)
         \/ SetUserOnline(s) \/ SetUserOnlineFails(s)
         \/ Disconnect(s) \/ HandleDisconnect(s)
         \/ SetUserOffline(s) \/ SetUserOfflineFails(s)
    \/ \E v \in Servers : Crash(v)
    \/ \E m \in Messages :
         \/ SendMessage(m) \/ SendMessageReadPresence(m)
         \/ CreateNotification(m) \/ EmitNewMessage(m) \/ SendMessageDies(m)
    \/ \E k \in Slots :
         \/ \E j \in Jobs : CreateConversationFindAny(k, j)
         \/ CreateConversationUpdate(k)
         \/ CreateConversationFindDirect(k) \/ CreateConversationFails(k)
         \/ \E c \in Rows : CreateConversationForJob(k, c) \/ CreateConversationDirect(k, c)

Spec == Init /\ [][Next]_vars

-----------------------------------------------------------------------------
\* Types of the row, of the connections, of messages and of conversations.
TypeOK ==
    /\ isOnline \in BOOLEAN /\ lapse \in BOOLEAN
    /\ sock \in [Sockets -> {"out", "in", "pausing"}]
    /\ home \in [Sockets -> Servers]
    /\ setting \in [Sockets -> SUBSET {"online", "offline"}]
    /\ msg \in [Messages -> {"none", "created", "offline", "ready", "sent", "dead"}]
    /\ reached \subseteq Messages /\ excused \subseteq Messages
    /\ row \in [Rows -> {"NONE", "DIRECT"} \cup Jobs]
    /\ call \in [Slots -> CallType]

\* isOnline is TRUE for somebody who is not there only for the 300 ms and the write
\* after them, and FALSE for somebody who is there only until the write of the first
\* socket is done: but for writes that overlapped, were lost, or took no notice of a
\* socket at another server.
PresenceFollows ==
    lapse \/ IF Connected = {} THEN isOnline => Leaving
                               ELSE isOnline \/ Setting("online") # {}

\* A message that was sent was seen by a socket or is in a notification, unless the
\* presence sendMessage decided on was from such a window, the last socket left before
\* the emission, or the notification failed.
MissedOnlyInWindow == \A m \in Messages : msg[m] = "sent" => m \in reached \cup excused

\* What users may rely on when they are away.
AwayIsTold == PresenceFollows /\ MissedOnlyInWindow

\* The two have no more direct conversations than requests run at the same time.
DirectOvershoot == Cardinality(Direct) + Cardinality(Asking) <= Cardinality(Slots)
=============================================================================
