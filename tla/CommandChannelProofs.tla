-------------------------- MODULE CommandChannelProofs --------------------------
(***************************************************************************)
(* Theorems about CommandChannel, for every batch size, every traffic and  *)
(* any number of kills: the listener loses no command of the owner, and    *)
(* obeys them in order and once within the life of a process.              *)
(***************************************************************************)
EXTENDS CommandChannel, TLAPS

USE ParameterAssumption

\* The number the listener has got to: the head of the answer it dispatches,
\* or what the next request will ask for.
Due == IF pending # <<>> THEN pending[1] ELSE Later(kept, offset)

\* The answer is a run of consecutive numbers that starts at or after the
\* oldest update kept; every command before it was obeyed; what this life
\* obeyed lies below the offset.
Progress ==
  /\ \A i \in DOMAIN pending : pending[i] = pending[1] + i - 1
  /\ pending # <<>> => pending[1] >= kept
  /\ offset <= Due
  /\ \A id \in 1..Len(inbox) : id < Due /\ Honoured(inbox[id]) => id \in ever
  /\ \A i \in DOMAIN obeyed : obeyed[i] < offset

IInv == TypeOK /\ Progress /\ ObeyedInOrder

LEMMA InitIInv == Init => IInv
BY DEF Init, IInv, TypeOK, Progress, Due, Later, ObeyedInOrder

LEMMA WriteStep == IInv /\ Write => IInv'
<1> SUFFICES ASSUME IInv, Write PROVE IInv'
  OBVIOUS
<1> PICK u \in Traffic : inbox' = Append(inbox, u)
  BY DEF Write
<1>1. /\ Len(inbox') = Len(inbox) + 1 /\ inbox' \in Seq(Traffic)
      /\ \A i \in 1..Len(inbox) : inbox'[i] = inbox[i]
  BY DEF IInv, TypeOK
<1>2. TypeOK'
  BY <1>1 DEF IInv, TypeOK, Write
<1>3. Due' = Due /\ Due <= Len(inbox) + 1
  BY DEF Write, Due, Later, IInv, TypeOK
<1>4. Progress'
  <2>1. \A id \in 1..Len(inbox') : id < Due' /\ Honoured(inbox'[id]) => id \in ever'
    BY <1>1, <1>3 DEF IInv, Progress, Write, TypeOK, Due, Later
  <2> QED
    BY <2>1, <1>3 DEF IInv, Progress, Write
<1>5. ObeyedInOrder'
  BY DEF IInv, ObeyedInOrder, Write
<1> QED
  BY <1>2, <1>4, <1>5 DEF IInv

LEMMA PollStep == IInv /\ Poll => IInv'
<1> SUFFICES ASSUME IInv, Poll PROVE IInv'
  OBVIOUS
<1> USE DEF Forget, Answer, Later, Earlier
<1>1. /\ kept' = Due /\ kept' \in 1..Len(inbox) + 1 /\ kept' >= kept /\ offset <= kept'
  BY DEF IInv, TypeOK, Progress, Poll, Due
<1>2. CASE kept' > Len(inbox)
  <2>1. pending' = <<>>
    BY <1>2 DEF Poll
  <2>2. TypeOK'
    BY <1>1, <2>1 DEF IInv, TypeOK, Poll
  <2>3. Due' = Due
    BY <1>1, <2>1 DEF Due, Poll
  <2>4. Progress'
    BY <2>1, <2>3 DEF IInv, Progress, Poll, TypeOK
  <2> QED
    BY <2>2, <2>4 DEF IInv, ObeyedInOrder, Poll
<1>3. CASE ~(kept' > Len(inbox))
  <2> DEFINE n == Earlier(Batch, Len(inbox) - kept' + 1)
  <2>1. /\ n \in 1..Batch /\ kept' + n - 1 <= Len(inbox)
        /\ pending' = [i \in 1..n |-> kept' + i - 1]
    <3>1. Len(inbox) \in Nat
      BY DEF IInv, TypeOK
    <3>2. pending' = [i \in 1..n |-> kept' + i - 1]
      BY <1>3 DEF Poll
    <3>3. n \in 1..Batch /\ kept' + n - 1 <= Len(inbox)
      BY <1>1, <1>3, <3>1
    <3> QED
      BY <3>2, <3>3
  <2> HIDE DEF n
  <2>2. /\ pending' \in Seq(1..Len(inbox)) /\ Len(pending') = n /\ pending' # <<>>
        /\ DOMAIN pending' = 1..n /\ pending'[1] = kept'
        /\ \A i \in 1..n : pending'[i] = kept' + i - 1
    BY <2>1, <1>1
  <2>3. TypeOK'
    BY <1>1, <2>1, <2>2 DEF IInv, TypeOK, Poll
  <2>4. Due' = Due
    BY <1>1, <2>2 DEF Due
  <2>5. Progress'
    BY <1>1, <2>2, <2>4 DEF IInv, Progress, Poll, TypeOK
  <2> QED
    BY <2>3, <2>5 DEF IInv, ObeyedInOrder, Poll
<1> QED
  BY <1>2, <1>3

LEMMA PollUnansweredStep == IInv /\ PollUnanswered => IInv'
<1> SUFFICES ASSUME IInv, PollUnanswered PROVE IInv'
  OBVIOUS
<1>1. /\ kept' = Due /\ kept' \in 1..Len(inbox) + 1 /\ offset <= kept' /\ Due' = Due
  BY DEF IInv, TypeOK, PollUnanswered, Forget, Later, Due
<1>2. TypeOK'
  BY <1>1 DEF IInv, TypeOK, PollUnanswered
<1>3. Progress'
  BY <1>1 DEF IInv, Progress, PollUnanswered
<1> QED
  BY <1>2, <1>3 DEF IInv, ObeyedInOrder, PollUnanswered

LEMMA DispatchStep == IInv /\ Dispatch => IInv'
<1> SUFFICES ASSUME IInv, Dispatch PROVE IInv'
  OBVIOUS
<1> DEFINE id == pending[1]
<1>1. /\ pending # <<>> /\ Len(pending) \in 1..Batch /\ id \in 1..Len(inbox)
      /\ id = Due /\ id >= kept /\ offset <= id
  <2>1. pending # <<>>
    BY DEF Dispatch
  <2>2. pending \in Seq(1..Len(inbox)) /\ Len(pending) <= Batch
    BY DEF IInv, TypeOK
  <2>3. Len(pending) \in Nat /\ Len(pending) # 0 /\ id \in 1..Len(inbox)
    BY <2>1, <2>2
  <2>4. id = Due
    BY <2>1 DEF Due
  <2>5. id >= kept /\ offset <= id
    BY <2>1, <2>4 DEF IInv, TypeOK, Progress
  <2> QED
    BY <2>1, <2>2, <2>3, <2>4, <2>5
<1>2. /\ offset' = id + 1 /\ pending' = Tail(pending)
      /\ Honoured(inbox[id]) => obeyed' = Append(obeyed, id) /\ ever' = ever \union {id}
      /\ ~Honoured(inbox[id]) => obeyed' = obeyed /\ ever' = ever
      /\ UNCHANGED <<inbox, kept, running, restarts>>
  BY <1>1 DEF Dispatch, NextOffset
<1>3. /\ Len(pending') = Len(pending) - 1 /\ pending' \in Seq(1..Len(inbox))
      /\ DOMAIN pending' = 1..Len(pending) - 1
      /\ \A i \in 1..Len(pending) - 1 : pending'[i] = id + i
  <2>1. pending \in Seq(1..Len(inbox)) /\ Len(pending) \in Nat \ {0}
    BY <1>1 DEF IInv, TypeOK
  <2>2. /\ Tail(pending) \in Seq(1..Len(inbox)) /\ Len(Tail(pending)) = Len(pending) - 1
        /\ DOMAIN Tail(pending) = 1..Len(pending) - 1
        /\ \A i \in 1..Len(pending) - 1 : Tail(pending)[i] = pending[i + 1]
    BY <1>1, <2>1
  <2>3. \A i \in 1..Len(pending) - 1 : pending[i + 1] = id + i
    <3>1. DOMAIN pending = 1..Len(pending)
      BY <2>1
    <3>2. \A i \in 1..Len(pending) : pending[i] = id + i - 1
      BY <3>1 DEF IInv, Progress
    <3> HIDE DEF id
    <3> QED
      BY <3>2, <2>1, <1>1
  <2> QED
    BY <1>2, <2>2, <2>3
<1>4. Due' = id + 1
  <2>1. kept \in Nat
    BY DEF IInv, TypeOK
  <2>2. CASE pending' = <<>>
    BY <1>1, <1>2, <2>1, <2>2 DEF Due, Later
  <2>3. CASE pending' # <<>>
    <3>1. Len(pending') # 0 /\ Len(pending) - 1 \in Nat
      <4>1. pending' \in Seq(1..Len(inbox)) /\ Len(pending') = Len(pending) - 1
        BY <1>3
      <4>2. Len(pending') # 0 /\ Len(pending') \in Nat
        BY <2>3, <4>1
      <4> QED
        BY <4>1, <4>2
    <3>2. 1 \in 1..Len(pending) - 1
      BY <1>3, <3>1
    <3> HIDE DEF id
    <3>3. pending'[1] = id + 1
      BY <1>3, <3>2
    <3> QED
      BY <2>3, <3>3 DEF Due
  <2> QED
    BY <2>2, <2>3
<1> HIDE DEF id
<1>5. /\ obeyed' \in Seq(1..Len(inbox)) /\ ever' \subseteq 1..Len(inbox)
  <2>1. CASE Honoured(inbox[id])
    <3>1. obeyed \in Seq(1..Len(inbox)) /\ ever \subseteq 1..Len(inbox)
      BY DEF IInv, TypeOK
    <3>2. obeyed' = Append(obeyed, id) /\ ever' = ever \union {id}
      BY <2>1, <1>2
    <3>3. Append(obeyed, id) \in Seq(1..Len(inbox))
      BY <3>1, <1>1
    <3> QED
      BY <3>1, <3>2, <3>3, <1>1
  <2>2. CASE ~Honoured(inbox[id])
    BY <2>2, <1>2 DEF IInv, TypeOK
  <2> QED
    BY <2>1, <2>2
<1>6. TypeOK'
  <2>1. offset' \in 0..Len(inbox) + 1 /\ Len(pending') <= Batch
    BY <1>1, <1>2, <1>3
  <2>2. inbox' = inbox /\ kept' = kept /\ running' = running /\ restarts' = restarts
    BY <1>2
  <2>3. /\ inbox \in Seq(Traffic) /\ Len(inbox) <= MaxUpdates /\ kept \in 1..Len(inbox) + 1
        /\ running \in BOOLEAN /\ restarts \in 0..MaxRestarts
    BY DEF IInv, TypeOK
  <2> QED
    BY <2>1, <2>2, <2>3, <1>3, <1>5 DEF TypeOK
<1>7. \A j \in 1..Len(inbox') : j < Due' /\ Honoured(inbox'[j]) => j \in ever'
  BY <1>1, <1>2, <1>4 DEF IInv, Progress
<1>8. (\A i \in DOMAIN obeyed' : obeyed'[i] < offset') /\ ObeyedInOrder'
  <2>1. CASE Honoured(inbox[id])
    <3>1. /\ obeyed' = Append(obeyed, id) /\ obeyed \in Seq(1..Len(inbox))
          /\ \A i \in 1..Len(obeyed) : obeyed[i] < id
      <4>1. obeyed' = Append(obeyed, id)
        BY <2>1, <1>2
      <4>2. obeyed \in Seq(1..Len(inbox))
        BY DEF IInv, TypeOK
      <4>3. DOMAIN obeyed = 1..Len(obeyed)
        BY <4>2
      <4>4. \A i \in DOMAIN obeyed : obeyed[i] < id
        <5>1. \A i \in DOMAIN obeyed : obeyed[i] < offset
          BY DEF IInv, Progress
        <5>2. \A i \in DOMAIN obeyed : obeyed[i] \in Nat
          BY <4>2
        <5>3. offset \in Nat /\ id \in Nat
          BY <1>1 DEF IInv, TypeOK
        <5> HIDE DEF id
        <5> QED
          BY <1>1, <5>1, <5>2, <5>3
      <4> QED
        BY <4>1, <4>2, <4>3, <4>4
    <3>2. /\ DOMAIN obeyed' = 1..Len(obeyed) + 1 /\ DOMAIN obeyed = 1..Len(obeyed)
          /\ obeyed'[Len(obeyed) + 1] = id
          /\ \A i \in 1..Len(obeyed) : obeyed'[i] = obeyed[i]
      BY <3>1, <1>1
    <3>3. \A i, j \in 1..Len(obeyed) : i < j => obeyed[i] < obeyed[j]
      BY <3>2 DEF IInv, ObeyedInOrder
    <3>4. Len(obeyed) \in Nat /\ id \in Nat /\ \A i \in 1..Len(obeyed) : obeyed[i] \in Nat
      BY <3>1, <1>1
    <3>5. \A i \in DOMAIN obeyed' : obeyed'[i] < offset'
      <4>1. offset' = id + 1
        BY <1>2
      <4>2. \A i \in 1..Len(obeyed) + 1 : i \in 1..Len(obeyed) \/ i = Len(obeyed) + 1
        BY <3>4
      <4>3. \A i \in 1..Len(obeyed) : obeyed'[i] < id + 1
        BY <3>1, <3>2, <3>4
      <4>4. obeyed'[Len(obeyed) + 1] < id + 1
        BY <3>2, <3>4
      <4> QED
        BY <4>1, <4>2, <4>3, <4>4, <3>2
    <3>6. ObeyedInOrder'
      BY <3>1, <3>2, <3>3, <3>4 DEF ObeyedInOrder
    <3> QED
      BY <3>5, <3>6
  <2>2. CASE ~Honoured(inbox[id])
    BY <2>2, <1>1, <1>2 DEF IInv, Progress, ObeyedInOrder, TypeOK
  <2> QED
    BY <2>1, <2>2
<1>9. Progress'
  <2>1. \A i \in DOMAIN pending' : pending'[i] = pending'[1] + i - 1
    BY <1>1, <1>3
  <2>2. pending' # <<>> => pending'[1] >= kept'
    <3>1. ASSUME pending' # <<>> PROVE pending'[1] = id + 1
      <4>1. Len(pending') # 0
        BY <3>1, <1>3
      <4> QED
        BY <4>1, <1>1, <1>3
    <3>2. kept \in Int
      BY DEF IInv, TypeOK
    <3> QED
      BY <3>1, <3>2, <1>1, <1>2
  <2> QED
    BY <1>1, <1>2, <1>4, <1>7, <1>8, <2>1, <2>2 DEF Progress
<1> QED
  BY <1>6, <1>8, <1>9 DEF IInv

LEMMA KillStep == IInv /\ Kill => IInv'
<1> SUFFICES ASSUME IInv, Kill PROVE IInv'
  OBVIOUS
<1>1. TypeOK'
  <2>1. /\ <<>> \in Seq(1..Len(inbox)) /\ Len(<<>>) = 0 /\ Len(inbox) \in Nat
    BY DEF IInv, TypeOK
  <2>2. restarts' \in 0..MaxRestarts
    BY DEF IInv, TypeOK, Kill
  <2>3. /\ inbox \in Seq(Traffic) /\ Len(inbox) <= MaxUpdates /\ kept \in 1..Len(inbox) + 1
        /\ ever \subseteq 1..Len(inbox)
    BY DEF IInv, TypeOK
  <2>4. /\ inbox' = inbox /\ kept' = kept /\ ever' = ever /\ running' = FALSE
        /\ offset' = 0 /\ pending' = <<>> /\ obeyed' = <<>>
    BY DEF Kill
  <2>5. 0 \in 0..Len(inbox) + 1 /\ 0 <= Batch
    BY <2>1
  <2> QED
    BY <2>1, <2>2, <2>3, <2>4, <2>5 DEF TypeOK
<1>2. Due' = kept /\ kept <= Due
  BY DEF IInv, TypeOK, Progress, Kill, Due, Later
<1>3. Progress'
  BY <1>2 DEF IInv, TypeOK, Progress, Kill, Due, Later
<1> QED
  BY <1>1, <1>3 DEF IInv, ObeyedInOrder, Kill

LEMMA NextIInv == IInv /\ [Next]_vars => IInv'
<1> SUFFICES ASSUME IInv, [Next]_vars PROVE IInv'
  OBVIOUS
<1>1. CASE Write BY <1>1, WriteStep
<1>2. CASE Poll BY <1>2, PollStep
<1>3. CASE PollUnanswered BY <1>3, PollUnansweredStep
<1>4. CASE Dispatch BY <1>4, DispatchStep
<1>5. CASE Kill BY <1>5, KillStep
<1>6. CASE Start
  BY <1>6 DEF Start, IInv, TypeOK, Progress, Due, ObeyedInOrder
<1>7. CASE UNCHANGED vars
  BY <1>7 DEF vars, IInv, TypeOK, Progress, Due, ObeyedInOrder
<1> QED
  BY <1>1, <1>2, <1>3, <1>4, <1>5, <1>6, <1>7 DEF Next

LEMMA ChannelInvariant == Spec => []IInv
BY InitIInv, NextIInv, PTL DEF Spec

\* Every variable of the channel has its type, in every life of the process.
THEOREM ChannelTypeCorrect == Spec => []TypeOK
BY ChannelInvariant, PTL DEF IInv

\* A command the server has forgotten was obeyed: the offset that confirms an
\* update is sent only after the loop of _poll_once has dispatched it.
THEOREM CommandsNotLost == Spec => []NoCommandLost
<1>1. ASSUME IInv, NEW id \in DOMAIN inbox, id < kept, Honoured(inbox[id])
      PROVE  id \in ever
  <2>1. /\ DOMAIN inbox = 1..Len(inbox) /\ Len(inbox) \in Nat /\ kept \in 1..Len(inbox) + 1
        /\ pending \in Seq(1..Len(inbox)) /\ offset \in 0..Len(inbox) + 1
    BY <1>1 DEF IInv, TypeOK
  <2>2. CASE pending = <<>>
    BY <1>1, <2>1, <2>2 DEF IInv, Progress, Due, Later
  <2>3. CASE pending # <<>>
    <3>1. pending[1] \in 1..Len(inbox) /\ kept <= pending[1]
      BY <1>1, <2>1, <2>3 DEF IInv, Progress
    <3>2. id < Due
      BY <1>1, <2>1, <2>3, <3>1 DEF Due
    <3> QED
      BY <1>1, <2>1, <3>2 DEF IInv, Progress
  <2> QED
    BY <2>2, <2>3
<1>2. IInv => NoCommandLost
  BY <1>1 DEF NoCommandLost
<1> QED
  BY <1>2, ChannelInvariant, PTL

\* Within a life _poll_once hands the commands to the engine in the order
\* they were sent and none of them twice.
THEOREM CommandsInOrder == Spec => []ObeyedInOrder
BY ChannelInvariant, PTL DEF IInv
=============================================================================
