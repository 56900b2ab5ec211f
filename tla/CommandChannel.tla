----------------------------- MODULE CommandChannel -----------------------------
(***************************************************************************)
(* The owner's slash commands: Telegram's update queue, the getUpdates     *)
(* poll of CommandListener on its daemon thread (notify/telegram.py), and  *)
(* the process around it, which may be killed and started again.           *)
(*                                                                         *)
(* Updates are numbered in the order they are sent.  The server keeps an   *)
(* update until a request asks for a higher number; the listener's offset  *)
(* lives in memory and is 0 after every start.                             *)
(***************************************************************************)
EXTENDS Integers, Sequences

CONSTANTS
  Batch,       \* updates one answer may hold (100 at Telegram)
  ChatFilter,  \* TELEGRAM_CHAT_ID is set: allowed_chat_id
  BotFilter,   \* BOT_USERNAME is set: bot_username
  Traffic,     \* the kinds of update that are written
  MaxUpdates,  \* bound: updates sent
  MaxRestarts  \* bound: kills of the process

Update == [ours : BOOLEAN,                          \* from the allowed chat
           command : BOOLEAN,                       \* the text starts with "/"
           to : {"nobody", "us", "another"}]        \* /stop, /stop@us, /stop@another

ASSUME ParameterAssumption ==
  /\ Traffic \subseteq Update
  /\ Batch \in Nat \ {0} /\ MaxUpdates \in Nat /\ MaxRestarts \in Nat
  /\ ChatFilter \in BOOLEAN /\ BotFilter \in BOOLEAN

VARIABLES
  inbox,     \* every update sent, by number
  kept,      \* the oldest update the server has not forgotten
  running,   \* the process is up
  offset,    \* CommandListener._offset
  pending,   \* the answer being dispatched: the numbers still to come
  restarts,  \* bound: kills so far
  obeyed,    \* history: numbers handed to on_command in this life, in order
  ever       \* history: numbers handed to on_command in any life

vars == <<inbox, kept, running, offset, pending, restarts, obeyed, ever>>

\* The filters of _poll_once.
Honoured(u) ==
  /\ ChatFilter => u.ours
  /\ u.command
  /\ BotFilter => u.to # "another"

Init ==
  /\ inbox = <<>> /\ kept = 1
  /\ running = TRUE /\ offset = 0 /\ pending = <<>>
  /\ restarts = 0 /\ obeyed = <<>> /\ ever = {}

\* Somebody writes in the chat, or in another one the bot can read.
Write ==
  /\ Len(inbox) < MaxUpdates
  /\ \E u \in Traffic : inbox' = Append(inbox, u)
  /\ UNCHANGED <<kept, running, offset, pending, restarts, obeyed, ever>>

-----------------------------------------------------------------------------
(* getUpdates.                                                              *)

Later(a, b) == IF a >= b THEN a ELSE b
Earlier(a, b) == IF a <= b THEN a ELSE b

\* What the server forgets when it is asked from number `from` on.
Forget(from) == Later(kept, from)

\* What it answers: at most Batch of the updates it still keeps.
Answer(from) ==
  [i \in 1..Earlier(Batch, Len(inbox) - from + 1) |-> from + i - 1]

\* _poll_once: the request reaches the server, and so does the answer us.
Poll ==
  /\ running /\ pending = <<>>
  /\ kept' = Forget(offset)
  /\ pending' = IF kept' > Len(inbox) THEN <<>> ELSE Answer(kept')
  /\ UNCHANGED <<inbox, running, offset, restarts, obeyed, ever>>

\* The answer is lost, late or not a 200: the poll returns and will be tried
\* again.  The server has seen the offset all the same.
PollUnanswered ==
  /\ running /\ pending = <<>>
  /\ kept' = Forget(offset)
  /\ UNCHANGED <<inbox, running, offset, pending, restarts, obeyed, ever>>

\* Seeded defects: not advanced; advanced twice; advanced after the filters.
NextOffset_Stays(id) == offset
NextOffset_Past(id) == id + 2
NextOffset_OwnOnly(id) == IF Honoured(inbox[id]) THEN id + 1 ELSE offset
NextOffset(id) == id + 1

\* One round of the loop over the updates.  An exception of the handler is
\* swallowed: the command counts as obeyed.
Dispatch ==
  /\ running /\ pending # <<>>
  /\ LET id == Head(pending) IN
       /\ offset' = NextOffset(id)
       /\ IF Honoured(inbox[id])
            THEN obeyed' = Append(obeyed, id) /\ ever' = ever \union {id}
            ELSE UNCHANGED <<obeyed, ever>>
  /\ pending' = Tail(pending)
  /\ UNCHANGED <<inbox, kept, running, restarts>>

\* A kill, or the end of the process: the listener is a daemon thread.
Kill ==
  /\ running /\ restarts < MaxRestarts
  /\ running' = FALSE /\ restarts' = restarts + 1
  /\ offset' = 0 /\ pending' = <<>> /\ obeyed' = <<>>
  /\ UNCHANGED <<inbox, kept, ever>>

Start ==
  /\ ~running
  /\ running' = TRUE
  /\ UNCHANGED <<inbox, kept, offset, pending, restarts, obeyed, ever>>

Next == Write \/ Poll \/ PollUnanswered \/ Dispatch \/ Kill \/ Start
Spec == Init /\ [][Next]_vars

\* The loop never ends: it polls again 2 s after a failure, and a request is
\* answered again and again.  The container starts the process again.
FairSpec == Spec /\ SF_vars(Poll) /\ WF_vars(Dispatch) /\ WF_vars(Start)

-----------------------------------------------------------------------------
(* Properties.                                                              *)

\* Every variable has its type.
TypeOK ==
  /\ inbox \in Seq(Traffic) /\ Len(inbox) <= MaxUpdates
  /\ kept \in 1..Len(inbox) + 1
  /\ running \in BOOLEAN
  /\ offset \in 0..Len(inbox) + 1
  /\ pending \in Seq(1..Len(inbox)) /\ Len(pending) <= Batch
  /\ restarts \in 0..MaxRestarts
  /\ obeyed \in Seq(1..Len(inbox)) /\ ever \subseteq 1..Len(inbox)

\* The offset confirms an update before its answer is known, and the process
\* may be killed anywhere between the answer and the last handler: a command
\* of the owner the server has forgotten was obeyed all the same.
NoCommandLost ==
  \A id \in DOMAIN inbox : (id < kept /\ Honoured(inbox[id])) => id \in ever

\* Within the life of a process commands are obeyed in the order they were
\* sent and none twice, however often requests are repeated.
ObeyedInOrder ==
  \A i, j \in DOMAIN obeyed : i < j => obeyed[i] < obeyed[j]

\* A /stop of the owner is obeyed in the end, over failing requests and kills.
EveryCommandObeyed ==
  \A id \in 1..MaxUpdates :
    (id <= Len(inbox) /\ Honoured(inbox[id])) ~> (id \in ever)
=============================================================================
