-------------------------- MODULE StdChannelProof --------------------------
(***************************************************************************)
(* The channel is a bounded queue that serves blocked senders in the order *)
(* of their calls, for every number of threads, slots and messages.        *)
(*                                                                         *)
(* While the receiver lives every slot is a free permit, a permit in the   *)
(* hand of a thread, or a message in the buffer; so a thread that pushes   *)
(* finds room.  Nobody waits while a permit is free; so a thread that is   *)
(* given one at its call has nobody to overtake.                           *)
(***************************************************************************)
EXTENDS TLAPS, FiniteSetTheorems, StdChannel

InHand == {t \in Threads : doing[t] \in {"assigned", "holding"}}

\* Every slot is accounted for.
SlotsAreAccounted ==
  /\ IsFiniteSet(InHand)
  /\ receiver # None => permits + Cardinality(InHand) + Len(buffer) = Slots

\* The buffer is what was accepted and not received.
BufferIsAhead ==
  receiver # None =>
    /\ Len(accepted) = Len(received) + Len(buffer)
    /\ \A i \in 1..Len(buffer) : accepted[Len(received) + i] = buffer[i]

\* The queue holds the threads that wait, in the order of their calls, and
\* nobody while there is a permit.
QueueIsOrdered ==
  receiver # None =>
    /\ \A i \in 1..Len(waiting) : doing[waiting[i]] = "waiting"
    /\ \A t \in Threads : doing[t] = "waiting" => \E i \in 1..Len(waiting) : waiting[i] = t
    /\ \A i, j \in 1..Len(waiting) : i < j => hand[waiting[i]] < hand[waiting[j]]
    /\ permits > 0 => waiting = <<>>

\* Messages on their way are new, and differ.
MessagesAreNew ==
  /\ \A t \in Threads : doing[t] \in Sending =>
       /\ hand[t] \in Numbers /\ hand[t] < next
       /\ \A u \in Threads : doing[u] \in Sending /\ u # t => hand[u] # hand[t]
       /\ \A i \in 1..Len(accepted) : accepted[i] # hand[t]
  /\ \A i \in 1..Len(accepted) : accepted[i] < next

\* A thread that sends holds a Sender.
SendersHold ==
  /\ \A t \in Threads : doing[t] \in Sending => t \in holders
  /\ ended => holders = {}

Inv ==
  /\ ChTypeOK
  /\ SlotsAreAccounted
  /\ BufferIsAhead
  /\ QueueIsOrdered
  /\ MessagesAreNew
  /\ SendersHold
  /\ NobodyJumpsTheQueue

----------------------------------------------------------------------------
\* There is at least one slot.
LEMMA SlotsType == Slots \in Nat \ {0}
BY ChannelAssumption DEF Slots

\* A new channel has all its permits and nobody in it.
LEMMA InitEstablishesInv == ASSUME ChInit PROVE Inv
<1>1. ChTypeOK
  <2>1. <<>> \in Seq(Threads) /\ <<>> \in Seq(Numbers)
    OBVIOUS
  <2>2. /\ doing \in [Threads -> {"free", "receiving"} \cup Sending]
        /\ hand \in [Threads -> 0..MaxMessages]
        /\ next \in 1..(MaxMessages + 1)
    BY ChannelAssumption DEF ChInit
  <2> QED BY <2>1, <2>2, ChannelAssumption, SlotsType DEF ChInit, ChTypeOK
<1>2. InHand = {}
  BY DEF ChInit, InHand
<1>3. SlotsAreAccounted
  BY <1>2, FS_EmptySet, SlotsType DEF ChInit, SlotsAreAccounted
<1>4. BufferIsAhead /\ QueueIsOrdered /\ MessagesAreNew /\ SendersHold /\ NobodyJumpsTheQueue
  BY DEF ChInit, BufferIsAhead, QueueIsOrdered, MessagesAreNew, SendersHold,
         NobodyJumpsTheQueue, Sending
<1> QED BY <1>1, <1>3, <1>4 DEF Inv

\* The message of a new call is later than every other.
LEMMA CallsAreNumbered ==
  ASSUME Inv, NEW t \in Threads, NEW where \in {"waiting", "holding"},
         Begin(t, where), accepted' = accepted
  PROVE  MessagesAreNew'
<1> USE DEF Begin
<1>1. /\ next \in Nat /\ next' = next + 1 /\ next \in Numbers
      /\ doing'[t] = where /\ hand'[t] = next
      /\ \A u \in Threads : u # t => hand'[u] = hand[u] /\ doing'[u] = doing[u]
  BY ChannelAssumption DEF Inv, ChTypeOK, Numbers
<1>2. \A u \in Threads : doing[u] \in Sending => hand[u] \in Numbers /\ hand[u] < next
  BY DEF Inv, MessagesAreNew
<1>3. \A i \in 1..Len(accepted) : accepted[i] < next /\ accepted[i] \in Numbers
  BY DEF Inv, MessagesAreNew, ChTypeOK
<1>4. \A i \in 1..Len(accepted') : accepted'[i] < next'
  BY <1>1, <1>3 DEF Numbers
<1> SUFFICES ASSUME NEW u \in Threads, doing'[u] \in Sending
             PROVE  /\ hand'[u] \in Numbers /\ hand'[u] < next'
                    /\ \A v \in Threads : doing'[v] \in Sending /\ v # u => hand'[v] # hand'[u]
                    /\ \A i \in 1..Len(accepted') : accepted'[i] # hand'[u]
  BY <1>4 DEF MessagesAreNew
<1>5. CASE u = t
  BY <1>1, <1>2, <1>3, <1>5 DEF Numbers
<1>6. CASE u # t
  <2>1. hand'[u] = hand[u] /\ doing[u] \in Sending
    BY <1>1, <1>6
  <2>2. \A v \in Threads : doing'[v] \in Sending /\ v # u => hand'[v] # hand'[u]
    BY <1>1, <1>2, <2>1 DEF Inv, MessagesAreNew, Numbers
  <2> QED BY <1>1, <1>2, <2>1, <2>2 DEF Inv, MessagesAreNew, Numbers
<1> QED BY <1>5, <1>6

\* Taking a permit at the call moves it into the hand of the thread.
LEMMA AcquireKeepsInv == ASSUME Inv, NEW t \in Threads, Acquire(t) PROVE Inv'
<1> USE DEF Acquire, Begin
<1>1. ChTypeOK'
  BY ChannelAssumption DEF Inv, ChTypeOK, Sending, Numbers
<1>2. InHand' = InHand \cup {t} /\ t \notin InHand
  BY DEF Inv, ChTypeOK, InHand
<1>3. SlotsAreAccounted'
  <2>1. IsFiniteSet(InHand) /\ Cardinality(InHand) \in Nat
    BY FS_CardinalityType DEF Inv, SlotsAreAccounted
  <2>2. IsFiniteSet(InHand') /\ Cardinality(InHand') = Cardinality(InHand) + 1
    BY <1>2, <2>1, FS_AddElement
  <2>3. /\ permits \in Nat /\ permits' = permits - 1 /\ Len(buffer) \in Nat
        /\ buffer' = buffer /\ receiver' = receiver
    BY DEF Inv, ChTypeOK
  <2>4. receiver # None => permits + Cardinality(InHand) + Len(buffer) = Slots
    BY DEF Inv, SlotsAreAccounted
  <2> QED BY <2>1, <2>2, <2>3, <2>4, SlotsType DEF SlotsAreAccounted
<1>4. BufferIsAhead'
  BY DEF Inv, BufferIsAhead
<1>5. waiting = <<>> /\ \A u \in Threads : doing[u] # "waiting"
  BY DEF Inv, QueueIsOrdered
<1>6. QueueIsOrdered' /\ NobodyJumpsTheQueue'
  BY <1>5 DEF Inv, ChTypeOK, QueueIsOrdered, NobodyJumpsTheQueue
<1>7. MessagesAreNew'
  BY CallsAreNumbered
<1>8. SendersHold'
  BY DEF Inv, ChTypeOK, SendersHold, Sending
<1> QED BY <1>1, <1>3, <1>4, <1>6, <1>7, <1>8 DEF Inv

\* A thread that queues has called after everybody else.
LEMMA EnqueueKeepsInv == ASSUME Inv, NEW t \in Threads, Enqueue(t) PROVE Inv'
<1> USE DEF Enqueue, Begin
<1>1. ChTypeOK'
  BY ChannelAssumption DEF Inv, ChTypeOK, Sending, Numbers
<1>2. InHand' = InHand
  BY DEF Inv, ChTypeOK, InHand
<1>3. SlotsAreAccounted' /\ BufferIsAhead'
  BY <1>2 DEF Inv, SlotsAreAccounted, BufferIsAhead
<1>4. MessagesAreNew'
  BY CallsAreNumbered
<1>5. SendersHold'
  BY DEF Inv, ChTypeOK, SendersHold, Sending
<1>6. \A u \in Threads : u # t => hand'[u] = hand[u] /\ doing'[u] = doing[u]
  BY DEF Inv, ChTypeOK
<1>7. \A u \in Threads : doing[u] \in Sending => hand[u] < next /\ hand[u] \in Numbers
  BY DEF Inv, MessagesAreNew
<1>8. NobodyJumpsTheQueue'
  BY <1>6, <1>7 DEF Inv, ChTypeOK, NobodyJumpsTheQueue, Sending, Numbers
<1>9. QueueIsOrdered'
  <2>1. /\ waiting \in Seq(Threads) /\ waiting' = Append(waiting, t)
        /\ Len(waiting') = Len(waiting) + 1 /\ waiting'[Len(waiting) + 1] = t
        /\ \A i \in 1..Len(waiting) : waiting'[i] = waiting[i] /\ waiting[i] \in Threads
    BY DEF Inv, ChTypeOK
  <2>2. \A i \in 1..Len(waiting) : doing[waiting[i]] = "waiting" /\ waiting[i] # t
    BY DEF Inv, QueueIsOrdered
  <2>3. doing'[t] = "waiting" /\ hand'[t] = next
    BY DEF Inv, ChTypeOK
  <2>4. \A i \in 1..Len(waiting') : doing'[waiting'[i]] = "waiting"
    BY <1>6, <2>1, <2>2, <2>3
  <2>5. \A u \in Threads : doing'[u] = "waiting" => \E i \in 1..Len(waiting') : waiting'[i] = u
    <3> SUFFICES ASSUME NEW u \in Threads, doing'[u] = "waiting"
                 PROVE  \E i \in 1..Len(waiting') : waiting'[i] = u
      OBVIOUS
    <3>1. CASE u = t
      BY <2>1, <3>1
    <3>2. CASE u # t
      <4>1. PICK i \in 1..Len(waiting) : waiting[i] = u
        BY <1>6, <3>2 DEF Inv, QueueIsOrdered
      <4> QED BY <2>1, <4>1
    <3> QED BY <3>1, <3>2
  <2>6. \A i, j \in 1..Len(waiting') : i < j => hand'[waiting'[i]] < hand'[waiting'[j]]
    <3> SUFFICES ASSUME NEW i \in 1..Len(waiting'), NEW j \in 1..Len(waiting'), i < j
                 PROVE  hand'[waiting'[i]] < hand'[waiting'[j]]
      OBVIOUS
    <3>1. i \in 1..Len(waiting) /\ hand'[waiting'[i]] = hand[waiting[i]]
      BY <1>6, <2>1, <2>2
    <3>2. CASE j = Len(waiting) + 1
      BY <1>7, <2>1, <2>2, <2>3, <3>1, <3>2 DEF Sending
    <3>3. CASE j # Len(waiting) + 1
      <4>1. j \in 1..Len(waiting) /\ hand'[waiting'[j]] = hand[waiting[j]]
        BY <1>6, <2>1, <2>2, <3>3
      <4> QED BY <3>1, <4>1 DEF Inv, QueueIsOrdered
    <3> QED BY <3>2, <3>3
  <2>7. ~(permits' > 0)
    BY DEF Inv, ChTypeOK
  <2> QED BY <2>4, <2>5, <2>6, <2>7 DEF QueueIsOrdered
<1> QED BY <1>1, <1>3, <1>4, <1>5, <1>8, <1>9 DEF Inv

\* No new message comes on its way.
LEMMA MessagesStayNew ==
  ASSUME Inv, accepted' = accepted, hand' = hand, next' = next,
         \A u \in Threads : doing'[u] \in Sending => doing[u] \in Sending
  PROVE  MessagesAreNew'
BY DEF Inv, MessagesAreNew

\* Waking up changes neither what a thread holds nor its place.
LEMMA WakeKeepsInv == ASSUME Inv, NEW t \in Threads, Wake(t) PROVE Inv'
<1> USE DEF Wake
<1>1. ChTypeOK'
  BY DEF Inv, ChTypeOK, Sending
<1>2. InHand' = InHand
  BY DEF Inv, ChTypeOK, InHand
<1>3. SlotsAreAccounted' /\ BufferIsAhead'
  BY <1>2 DEF Inv, SlotsAreAccounted, BufferIsAhead
<1>4. /\ doing[t] = "assigned" /\ doing'[t] = "holding"
      /\ \A u \in Threads : u # t => doing'[u] = doing[u]
  BY DEF Inv, ChTypeOK
<1>5. MessagesAreNew'
  BY <1>4, MessagesStayNew DEF Sending
<1>6. SendersHold'
  BY <1>4 DEF Inv, SendersHold, Sending
<1>7. QueueIsOrdered'
  BY <1>4 DEF Inv, QueueIsOrdered
<1>8. NobodyJumpsTheQueue'
  BY <1>4 DEF Inv, NobodyJumpsTheQueue
<1> QED BY <1>1, <1>3, <1>5, <1>6, <1>7, <1>8 DEF Inv

\* Steps on a closed channel, or of a thread that does not send.
LEMMA LeavingKeepsInv ==
  ASSUME Inv, NEW t \in Threads,
         doing' = [doing EXCEPT ![t] = "free"],
         doing[t] \in {"free", "receiving"} \/ (doing[t] \in Sending /\ receiver = None),
         ended' \in {ended, holders = {}} /\ ended' \in BOOLEAN,
         UNCHANGED <<holders, receiver, permits, waiting, buffer, hand, next, accepted, received>>
  PROVE  Inv'
<1>1. ChTypeOK'
  BY DEF Inv, ChTypeOK
<1>2. /\ doing'[t] = "free"
      /\ \A u \in Threads : u # t => doing'[u] = doing[u]
  BY DEF Inv, ChTypeOK
<1>3. SlotsAreAccounted'
  <2>1. InHand' \in SUBSET InHand
    BY <1>2 DEF InHand
  <2>2. IsFiniteSet(InHand')
    BY <2>1, FS_Subset DEF Inv, SlotsAreAccounted
  <2>3. CASE receiver = None
    BY <2>2, <2>3 DEF SlotsAreAccounted
  <2>4. CASE doing[t] \in {"free", "receiving"}
    <3>1. InHand' = InHand
      BY <1>2, <2>4 DEF InHand
    <3> QED BY <3>1 DEF Inv, SlotsAreAccounted
  <2> QED BY <2>3, <2>4
<1>4. BufferIsAhead'
  BY DEF Inv, BufferIsAhead
<1>5. MessagesAreNew'
  BY <1>2, MessagesStayNew DEF Sending
<1>6. SendersHold'
  BY <1>2 DEF Inv, SendersHold, Sending
<1>7. QueueIsOrdered' /\ NobodyJumpsTheQueue'
  <2>1. CASE receiver = None
    BY <2>1 DEF QueueIsOrdered, NobodyJumpsTheQueue
  <2>2. CASE doing[t] \in {"free", "receiving"}
    <3>1. /\ \A u \in Threads : doing'[u] = "waiting" <=> doing[u] = "waiting"
          /\ \A u \in Threads : doing'[u] \in {"assigned", "holding"} =>
                                doing[u] \in {"assigned", "holding"}
      BY <1>2, <2>2
    <3>2. \A i \in 1..Len(waiting) : waiting[i] \in Threads
      BY DEF Inv, ChTypeOK
    <3> QED BY <3>1, <3>2 DEF Inv, QueueIsOrdered, NobodyJumpsTheQueue
  <2> QED BY <2>1, <2>2
<1> QED BY <1>1, <1>3, <1>4, <1>5, <1>6, <1>7 DEF Inv

\* Only a thread on a closed channel is refused.
LEMMA RefuseKeepsInv == ASSUME Inv, NEW t \in Threads, Refuse(t) PROVE Inv'
BY LeavingKeepsInv DEF Refuse, Queued, Sending, Inv, ChTypeOK

\* The end is told when nobody holds a Sender.
LEMMA TakeEndKeepsInv == ASSUME Inv, NEW t \in Threads, TakeEnd(t) PROVE Inv'
<1>1. ended' = (holders = {})
  BY DEF TakeEnd
<1> QED BY <1>1, LeavingKeepsInv DEF TakeEnd

\* A call of recv that has to wait.
LEMMA RecvBeginKeepsInv == ASSUME Inv, NEW t \in Threads, RecvBegin(t) PROVE Inv'
<1> USE DEF RecvBegin
<1>1. ChTypeOK'
  BY DEF Inv, ChTypeOK
<1>2. /\ \A u \in Threads : doing'[u] \in Sending \/ doing[u] \in Sending =>
                            doing'[u] = doing[u]
      /\ \A i \in 1..Len(waiting) : waiting[i] \in Threads
  BY DEF Inv, ChTypeOK, Sending
<1>3. InHand' = InHand
  BY <1>2 DEF InHand, Sending
<1>4. SlotsAreAccounted' /\ BufferIsAhead'
  BY <1>3 DEF Inv, SlotsAreAccounted, BufferIsAhead
<1>5. MessagesAreNew'
  BY <1>2, MessagesStayNew
<1>6. SendersHold'
  BY <1>2 DEF Inv, SendersHold
<1>7. QueueIsOrdered' /\ NobodyJumpsTheQueue'
  BY <1>2 DEF Inv, QueueIsOrdered, NobodyJumpsTheQueue, Sending
<1> QED BY <1>1, <1>4, <1>5, <1>6, <1>7 DEF Inv

\* Handles move and multiply between threads outside of a call.
LEMMA EntrustKeepsInv ==
  ASSUME Inv, NEW t \in Threads, NEW u \in Threads, NEW tx \in BOOLEAN, NEW rx \in BOOLEAN,
         Entrust(t, u, tx, rx)
  PROVE  Inv'
<1> USE DEF Entrust
<1>1. ChTypeOK'
  BY DEF Inv, ChTypeOK
<1>2. InHand' = InHand
  BY DEF InHand
<1>3. receiver' # None => receiver # None
  BY ChannelAssumption
<1>4. SlotsAreAccounted' /\ BufferIsAhead' /\ QueueIsOrdered' /\ NobodyJumpsTheQueue'
  BY <1>2, <1>3 DEF Inv, SlotsAreAccounted, BufferIsAhead, QueueIsOrdered, NobodyJumpsTheQueue
<1>5. MessagesAreNew'
  BY MessagesStayNew
<1>6. SendersHold'
  BY DEF Inv, SendersHold
<1> QED BY <1>1, <1>4, <1>5, <1>6 DEF Inv

\* A thread outside of a call drops what it holds.
LEMMA DropKeepsInv ==
  ASSUME Inv, NEW t \in Threads, NEW tx \in BOOLEAN, NEW rx \in BOOLEAN,
         doing[t] = "free", Drop(t, tx, rx)
  PROVE  Inv'
<1> USE DEF Drop
<1>1. ChTypeOK'
  <2>1. <<>> \in Seq(Threads) /\ <<>> \in Seq(Numbers)
    OBVIOUS
  <2>2. receiver' \in Threads \cup {None} /\ permits' \in Nat
    <3>1. CASE rx /\ receiver = t
      BY <3>1
    <3>2. CASE ~(rx /\ receiver = t)
      BY <3>2 DEF Inv, ChTypeOK
    <3> QED BY <3>1, <3>2
  <2>3. waiting' \in Seq(Threads) /\ buffer' \in Seq(Numbers)
    BY <2>1 DEF Inv, ChTypeOK
  <2>4. holders' \subseteq Threads
    BY DEF Inv, ChTypeOK
  <2> QED BY <2>2, <2>3, <2>4 DEF Inv, ChTypeOK
<1>2. InHand' = InHand
  BY DEF InHand
<1>3. receiver' # None => receiver # None /\ UNCHANGED <<receiver, buffer, waiting, permits>>
  OBVIOUS
<1>4. SlotsAreAccounted' /\ BufferIsAhead' /\ QueueIsOrdered' /\ NobodyJumpsTheQueue'
  BY <1>2, <1>3 DEF Inv, SlotsAreAccounted, BufferIsAhead, QueueIsOrdered, NobodyJumpsTheQueue
<1>5. MessagesAreNew'
  BY MessagesStayNew
<1>6. SendersHold'
  BY DEF Inv, SendersHold, Sending
<1> QED BY <1>1, <1>4, <1>5, <1>6 DEF Inv

\* The pushed message comes last of those accepted, and finds a slot that was
\* in the hand of its sender.
LEMMA PushKeepsInv == ASSUME Inv, NEW t \in Threads, Push(t) PROVE Inv'
<1>1. CASE receiver = None
  <2>1. ended' = ended /\ ended \in BOOLEAN /\ doing[t] \in Sending
    BY DEF Push, Sending, Inv, ChTypeOK
  <2>2. /\ doing' = [doing EXCEPT ![t] = "free"]
        /\ UNCHANGED <<holders, receiver, permits, waiting, buffer, hand, next, accepted, received>>
    BY <1>1 DEF Push
  <2> QED BY <1>1, <2>1, <2>2, LeavingKeepsInv
<1>2. CASE receiver # None
  <2> USE <1>2
  <2>0. /\ doing[t] = "holding" /\ doing' = [doing EXCEPT ![t] = "free"]
        /\ buffer' = Append(buffer, hand[t]) /\ accepted' = Append(accepted, hand[t])
        /\ UNCHANGED <<holders, receiver, permits, waiting, hand, next, received, ended>>
    BY DEF Push
  <2>1. ChTypeOK /\ hand[t] \in Numbers
    BY <2>0 DEF Inv, MessagesAreNew, Sending
  <2>2. ChTypeOK'
    <3>1. buffer' \in Seq(Numbers) /\ accepted' \in Seq(Numbers)
      <4>1. buffer \in Seq(Numbers) /\ accepted \in Seq(Numbers)
        BY <2>1 DEF ChTypeOK
      <4> QED BY <2>0, <2>1, <4>1
    <3>2. doing' \in [Threads -> {"free", "receiving"} \cup Sending]
      BY <2>0, <2>1 DEF ChTypeOK
    <3> QED BY <2>0, <2>1, <3>1, <3>2 DEF ChTypeOK
  <2>3. /\ doing[t] = "holding" /\ doing'[t] = "free"
        /\ \A u \in Threads : u # t => doing'[u] = doing[u]
    BY <2>0, <2>1 DEF ChTypeOK
  <2>4. /\ buffer \in Seq(Numbers) /\ accepted \in Seq(Numbers) /\ received \in Seq(Numbers)
        /\ Len(buffer') = Len(buffer) + 1 /\ Len(accepted') = Len(accepted) + 1
        /\ buffer'[Len(buffer) + 1] = hand[t] /\ accepted'[Len(accepted) + 1] = hand[t]
        /\ \A i \in 1..Len(buffer) : buffer'[i] = buffer[i]
        /\ \A i \in 1..Len(accepted) : accepted'[i] = accepted[i]
    BY <2>0, <2>1 DEF ChTypeOK
  <2>5. SlotsAreAccounted'
    <3>1. InHand' = InHand \ {t} /\ t \in InHand
      BY <2>3 DEF InHand
    <3>2. IsFiniteSet(InHand) /\ Cardinality(InHand) \in Nat
      BY FS_CardinalityType DEF Inv, SlotsAreAccounted
    <3>3. IsFiniteSet(InHand') /\ Cardinality(InHand') = Cardinality(InHand) - 1
      BY <3>1, <3>2, FS_RemoveElement
    <3>4. permits \in Nat /\ permits' = permits /\ Len(buffer) \in Nat /\ receiver' = receiver
      BY <2>0, <2>1 DEF ChTypeOK
    <3>5. permits + Cardinality(InHand) + Len(buffer) = Slots
      BY DEF Inv, SlotsAreAccounted
    <3>6. Len(buffer') = Len(buffer) + 1
      BY <2>4
    <3>7. permits' + Cardinality(InHand') + Len(buffer') = Slots
      BY <3>2, <3>3, <3>4, <3>5, <3>6
    <3> QED BY <3>3, <3>7 DEF SlotsAreAccounted
  <2>6. BufferIsAhead'
    <3>1. /\ Len(accepted) = Len(received) + Len(buffer)
          /\ \A i \in 1..Len(buffer) : accepted[Len(received) + i] = buffer[i]
      BY DEF Inv, BufferIsAhead
    <3>2. Len(received) \in Nat /\ Len(buffer) \in Nat /\ received' = received
      BY <2>0, <2>4
    <3>3. \A i \in 1..Len(buffer') : accepted'[Len(received) + i] = buffer'[i]
      <4> TAKE i \in 1..Len(buffer')
      <4>1. CASE i \in 1..Len(buffer)
        <5>1. Len(received) + i \in 1..Len(accepted)
          BY <3>1, <3>2, <4>1
        <5> QED BY <2>4, <3>1, <4>1, <5>1
      <4>2. CASE i = Len(buffer) + 1
        BY <2>4, <3>1, <3>2, <4>2
      <4> QED BY <2>4, <3>2, <4>1, <4>2
    <3> QED BY <2>0, <2>4, <3>1, <3>2, <3>3 DEF BufferIsAhead
  <2>7. MessagesAreNew'
    <3>1. hand[t] < next /\ \A u \in Threads : doing[u] \in Sending /\ u # t => hand[u] # hand[t]
      BY <2>3 DEF Inv, MessagesAreNew, Sending
    <3>2. \A u \in Threads : doing'[u] \in Sending => doing[u] \in Sending /\ u # t
      BY <2>3 DEF Sending
    <3>3. \A i \in 1..Len(accepted') : accepted'[i] = hand[t] \/ \E j \in 1..Len(accepted) : accepted'[i] = accepted[j]
      BY <2>4
    <3> QED BY <2>0, <3>1, <3>2, <3>3 DEF Inv, MessagesAreNew
  <2>8. SendersHold'
    BY <2>0, <2>3 DEF Inv, SendersHold, Sending
  <2>9. QueueIsOrdered'
    <3>1. \A i \in 1..Len(waiting) : waiting[i] \in Threads
      BY <2>1 DEF ChTypeOK
    <3> QED BY <2>0, <2>3, <3>1 DEF Inv, QueueIsOrdered
  <2>10. NobodyJumpsTheQueue'
    BY <2>0, <2>3 DEF Inv, NobodyJumpsTheQueue
  <2> QED BY <2>2, <2>5, <2>6, <2>7, <2>8, <2>9, <2>10 DEF Inv
<1> QED BY <1>1, <1>2

\* The permit of a message that is taken goes to the first thread queued.
LEMMA TakeKeepsInv == ASSUME Inv, NEW t \in Threads, Take(t) PROVE Inv'
<1>0. /\ receiver = t /\ receiver # None /\ doing[t] \in {"free", "receiving"}
      /\ buffer # <<>> /\ buffer' = Tail(buffer)
      /\ received' = Append(received, Head(buffer))
      /\ UNCHANGED <<holders, receiver, hand, next, accepted, ended>>
  BY ChannelAssumption DEF Take
<1>1. ChTypeOK /\ BufferIsAhead /\ SlotsAreAccounted
  BY DEF Inv
<1>2. /\ buffer \in Seq(Numbers) /\ received \in Seq(Numbers) /\ Len(buffer) \in Nat \ {0}
      /\ Head(buffer) \in Numbers /\ Tail(buffer) \in Seq(Numbers)
      /\ Len(buffer') = Len(buffer) - 1 /\ Head(buffer) = buffer[1]
      /\ \A i \in 1..Len(buffer') : buffer'[i] = buffer[i + 1]
  BY <1>0, <1>1 DEF ChTypeOK
<1>3. received' \in Seq(Numbers) /\ Len(received') = Len(received) + 1 /\ Len(received) \in Nat
  BY <1>0, <1>2
<1>4. BufferIsAhead'
  <2>1. /\ Len(accepted) = Len(received) + Len(buffer)
        /\ \A i \in 1..Len(buffer) : accepted[Len(received) + i] = buffer[i]
    BY <1>0, <1>1 DEF BufferIsAhead
  <2>2. ASSUME NEW i \in 1..Len(buffer')
        PROVE  accepted[Len(received') + i] = buffer'[i]
    <3>1. i + 1 \in 1..Len(buffer) /\ Len(received') + i = Len(received) + (i + 1)
      BY <1>2, <1>3
    <3> QED BY <1>2, <2>1, <3>1
  <2> QED BY <1>0, <1>2, <1>3, <2>1, <2>2 DEF BufferIsAhead
<1>5. IsFiniteSet(InHand) /\ Cardinality(InHand) \in Nat /\ permits \in Nat
      /\ permits + Cardinality(InHand) + Len(buffer) = Slots
  BY <1>0, <1>1, FS_CardinalityType DEF SlotsAreAccounted, ChTypeOK
<1>6. CASE waiting = <<>>
  <2>1. /\ permits' = permits + 1 /\ waiting' = waiting
        /\ doing' = [doing EXCEPT ![t] = "free"]
    BY <1>6 DEF Take
  <2>2. doing'[t] = "free" /\ \A u \in Threads : u # t => doing'[u] = doing[u]
    BY <1>1, <2>1 DEF ChTypeOK
  <2>3. ChTypeOK'
    BY <1>0, <1>1, <1>2, <1>3, <1>5, <2>1 DEF ChTypeOK
  <2>4. InHand' = InHand
    BY <1>0, <2>2 DEF InHand
  <2>5. SlotsAreAccounted'
    BY <1>2, <1>5, <2>1, <2>4, SlotsType DEF SlotsAreAccounted
  <2>6. \A u \in Threads : doing[u] # "waiting" /\ doing'[u] # "waiting"
    BY <1>0, <1>6, <2>2 DEF Inv, QueueIsOrdered
  <2>7. QueueIsOrdered' /\ NobodyJumpsTheQueue'
    BY <1>6, <2>1, <2>6 DEF QueueIsOrdered, NobodyJumpsTheQueue
  <2>8. MessagesAreNew'
    BY <1>0, <2>2, MessagesStayNew DEF Sending
  <2>9. SendersHold'
    BY <1>0, <2>2 DEF Inv, SendersHold, Sending
  <2> QED BY <1>4, <2>3, <2>5, <2>7, <2>8, <2>9 DEF Inv
<1>7. CASE waiting # <<>>
  <2> DEFINE first == Head(waiting)
  <2>1. /\ permits' = permits /\ waiting' = Tail(waiting)
        /\ doing' = [doing EXCEPT ![t] = "free", ![first] = "assigned"]
    BY <1>7 DEF Take
  <2>2. /\ waiting \in Seq(Threads) /\ first \in Threads /\ first = waiting[1]
        /\ Tail(waiting) \in Seq(Threads) /\ Len(waiting) \in Nat \ {0}
        /\ Len(waiting') = Len(waiting) - 1
        /\ \A i \in 1..Len(waiting') : waiting'[i] = waiting[i + 1] /\ waiting'[i] \in Threads
    BY <1>1, <1>7, <2>1 DEF ChTypeOK
  <2>3. /\ \A i \in 1..Len(waiting) : doing[waiting[i]] = "waiting"
        /\ \A u \in Threads : doing[u] = "waiting" => \E i \in 1..Len(waiting) : waiting[i] = u
        /\ \A i, j \in 1..Len(waiting) : i < j => hand[waiting[i]] < hand[waiting[j]]
        /\ permits = 0
    BY <1>0, <1>5, <1>7 DEF Inv, QueueIsOrdered
  <2>4. doing[first] = "waiting" /\ first # t
    BY <1>0, <2>2, <2>3
  <2> HIDE DEF first
  <2>5. /\ doing'[t] = "free" /\ doing'[first] = "assigned"
        /\ \A u \in Threads : u \notin {t, first} => doing'[u] = doing[u]
    BY <1>1, <2>1, <2>2, <2>4 DEF ChTypeOK
  <2>6. ChTypeOK'
    <3>1. doing' \in [Threads -> {"free", "receiving"} \cup Sending]
      BY <1>1, <2>1 DEF ChTypeOK, Sending
    <3> QED BY <1>0, <1>1, <1>2, <1>3, <2>1, <2>2, <3>1 DEF ChTypeOK
  <2>7. SlotsAreAccounted'
    <3>1. InHand' = InHand \cup {first} /\ first \notin InHand
      BY <1>0, <2>2, <2>4, <2>5 DEF InHand
    <3>2. IsFiniteSet(InHand') /\ Cardinality(InHand') = Cardinality(InHand) + 1
      BY <1>5, <3>1, FS_AddElement
    <3> QED BY <1>2, <1>5, <2>1, <3>2, SlotsType DEF SlotsAreAccounted
  <2>8. ASSUME NEW i \in 1..Len(waiting')
        PROVE  /\ i + 1 \in 1..Len(waiting) /\ waiting'[i] = waiting[i + 1]
               /\ waiting[i + 1] \in Threads
               /\ hand[first] < hand[waiting[i + 1]] /\ waiting[i + 1] \notin {t, first}
    <3>1. /\ i + 1 \in 1..Len(waiting) /\ 1 \in 1..Len(waiting) /\ 1 < i + 1
          /\ waiting'[i] = waiting[i + 1] /\ waiting[i + 1] \in Threads
      BY <2>2
    <3>2. hand[first] < hand[waiting[i + 1]] /\ doing[waiting[i + 1]] = "waiting"
      BY <2>2, <2>3, <3>1
    <3>3. hand[first] \in Int
      BY <1>1, <2>2 DEF ChTypeOK
    <3> QED BY <1>0, <3>1, <3>2, <3>3
  <2>9. QueueIsOrdered'
    <3>1. \A i \in 1..Len(waiting') : doing'[waiting'[i]] = "waiting"
      BY <2>3, <2>5, <2>8
    <3>2. ASSUME NEW u \in Threads, doing'[u] = "waiting"
          PROVE  \E i \in 1..Len(waiting') : waiting'[i] = u
      <4>1. u # first /\ doing[u] = "waiting"
        BY <2>5, <3>2
      <4>2. PICK j \in 1..Len(waiting) : waiting[j] = u
        BY <2>3, <4>1
      <4>3. j # 1 /\ j - 1 \in 1..Len(waiting')
        BY <2>2, <4>1, <4>2
      <4>4. waiting'[j - 1] = u
        BY <2>2, <4>2, <4>3
      <4> QED BY <4>3, <4>4
    <3>3. ASSUME NEW i \in 1..Len(waiting'), NEW j \in 1..Len(waiting'), i < j
          PROVE  hand'[waiting'[i]] < hand'[waiting'[j]]
      <4>1. i + 1 \in 1..Len(waiting) /\ j + 1 \in 1..Len(waiting) /\ i + 1 < j + 1
        BY <2>2, <3>3
      <4>2. hand[waiting[i + 1]] < hand[waiting[j + 1]]
        BY <2>3, <4>1
      <4>3. waiting'[i] = waiting[i + 1] /\ waiting'[j] = waiting[j + 1]
        BY <2>2
      <4> QED BY <1>0, <4>2, <4>3
    <3>4. ~(permits' > 0)
      BY <2>1, <2>3
    <3> QED BY <3>1, <3>2, <3>3, <3>4 DEF QueueIsOrdered
  <2>10. NobodyJumpsTheQueue'
    <3> SUFFICES ASSUME NEW u \in Threads, NEW v \in Threads,
                        doing'[u] = "waiting", doing'[v] \in {"assigned", "holding"}
                 PROVE  hand[v] < hand[u]
      BY <1>0 DEF NobodyJumpsTheQueue
    <3>1. u \notin {t, first} /\ doing[u] = "waiting"
      BY <2>5
    <3>2. CASE v = first
      <4>1. PICK i \in 1..Len(waiting') : waiting'[i] = u
        BY <1>0, <2>9 DEF QueueIsOrdered
      <4> QED BY <2>8, <3>2, <4>1
    <3>3. CASE v # first
      BY <1>0, <2>5, <3>1, <3>3 DEF Inv, NobodyJumpsTheQueue
    <3> QED BY <3>2, <3>3
  <2>11. \A u \in Threads : doing'[u] \in Sending => doing[u] \in Sending
    BY <2>4, <2>5 DEF Sending
  <2>12. MessagesAreNew'
    BY <1>0, <2>11, MessagesStayNew
  <2>13. SendersHold'
    BY <1>0, <2>11 DEF Inv, SendersHold
  <2> QED BY <1>4, <2>6, <2>7, <2>9, <2>10, <2>12, <2>13 DEF Inv
<1> QED BY <1>6, <1>7

----------------------------------------------------------------------------
\* Every step of the program and of the runtime keeps the invariant.
LEMMA StepKeepsInv == ASSUME Inv, [ChNext]_chVars PROVE Inv'
<1>1. CASE UNCHANGED chVars
  BY <1>1 DEF chVars, Inv, ChTypeOK, InHand, SlotsAreAccounted, BufferIsAhead, QueueIsOrdered,
              MessagesAreNew, SendersHold, NobodyJumpsTheQueue
<1>2. CASE HandOver
  <2>1. ASSUME NEW t \in Threads, NEW u \in Threads, NEW tx \in BOOLEAN, NEW rx \in BOOLEAN,
               Entrust(t, u, tx, rx)
        PROVE  Inv'
    BY <2>1, EntrustKeepsInv
  <2>2. ASSUME NEW t \in Threads, doing[t] = "free", Drop(t, TRUE, TRUE) PROVE Inv'
    BY <2>2, DropKeepsInv
  <2> QED BY <1>2, <2>1, <2>2 DEF HandOver
<1>3. ASSUME NEW t \in Threads, Call(t) PROVE Inv'
  <2>1. CASE DropSender(t) \/ DropReceiver(t)
    BY <1>3, <2>1, DropKeepsInv DEF Call, DropSender, DropReceiver
  <2> QED BY <1>3, <2>1, AcquireKeepsInv, EnqueueKeepsInv, RecvBeginKeepsInv, TakeKeepsInv,
             TakeEndKeepsInv DEF Call
<1>4. ASSUME NEW t \in Threads, Proceed(t) PROVE Inv'
  BY <1>4, WakeKeepsInv, RefuseKeepsInv, PushKeepsInv, TakeKeepsInv, TakeEndKeepsInv DEF Proceed
<1> QED BY <1>1, <1>2, <1>3, <1>4 DEF ChNext

\* The invariant holds in every state of every behaviour.
LEMMA InvHolds == ChSpec => []Inv
BY InitEstablishesInv, StepKeepsInv, PTL DEF ChSpec

\* Handles, permits, queue and buffer keep their types.
THEOREM ChannelTypeOK == ChSpec => []ChTypeOK
<1>1. Inv => ChTypeOK
  BY DEF Inv
<1> QED BY <1>1, InvHolds, PTL

\* The semaphore of the channel serves a blocked send before every later one.
THEOREM CallersAreServedInOrder == ChSpec => []NobodyJumpsTheQueue
<1>1. Inv => NobodyJumpsTheQueue
  BY DEF Inv
<1> QED BY <1>1, InvHolds, PTL

\* Whoever pushes holds one of the slots, so that there is room for it.
LEMMA PushAccepts == ASSUME Inv, NEW t \in Threads, Push(t), receiver # None PROVE Fifo!Accept
<1>1. /\ receiver # None /\ receiver' = receiver /\ received' = received
      /\ accepted' = Append(accepted, hand[t])
      /\ doing[t] = "holding"
  BY DEF Push
<1>2. /\ hand[t] \in Numbers
      /\ \A i \in 1..Len(accepted) : accepted[i] # hand[t]
  BY <1>1 DEF Inv, MessagesAreNew, Sending
<1>3. Len(accepted) - Len(received) < Slots
  <2>1. /\ permits \in Nat /\ Len(buffer) \in Nat /\ Len(received) \in Nat
        /\ Len(accepted) = Len(received) + Len(buffer)
    BY <1>1 DEF Inv, ChTypeOK, BufferIsAhead
  <2>2. IsFiniteSet(InHand) /\ InHand # {}
    BY <1>1 DEF Inv, SlotsAreAccounted, InHand
  <2>3. Cardinality(InHand) \in Nat /\ Cardinality(InHand) # 0
    BY <2>2, FS_CardinalityType, FS_EmptySet
  <2>4. permits + Cardinality(InHand) + Len(buffer) = Slots
    BY <1>1 DEF Inv, SlotsAreAccounted
  <2> QED BY <2>1, <2>3, <2>4, SlotsType
<1> QED BY <1>1, <1>2, <1>3 DEF Fifo!Accept

\* What is taken from the buffer is the first message not yet delivered.
LEMMA TakeDelivers == ASSUME Inv, NEW t \in Threads, Take(t) PROVE Fifo!Deliver
<1>1. /\ receiver # None /\ receiver' = receiver /\ accepted' = accepted
      /\ received' = Append(received, Head(buffer))
      /\ buffer # <<>>
  BY ChannelAssumption DEF Take
<1>2. /\ buffer \in Seq(Numbers) /\ received \in Seq(Numbers)
      /\ Len(accepted) = Len(received) + Len(buffer)
      /\ \A i \in 1..Len(buffer) : accepted[Len(received) + i] = buffer[i]
  BY <1>1 DEF Inv, ChTypeOK, BufferIsAhead
<1>3. Len(buffer) \in Nat \ {0} /\ Len(received) \in Nat /\ Head(buffer) = buffer[1]
  BY <1>1, <1>2
<1>4. Head(buffer) = accepted[Len(received) + 1] /\ Len(received) < Len(accepted)
  BY <1>2, <1>3
<1> QED BY <1>1, <1>4 DEF Fifo!Deliver

\* Every other step is one of the queue closing, or none of its.
LEMMA StepImplementsFifo == ASSUME Inv, [ChNext]_chVars PROVE [Fifo!Next]_Fifo!vars
<1>1. ASSUME UNCHANGED <<accepted, received>>, receiver # None, receiver' = None
      PROVE  Fifo!Close
  BY <1>1 DEF Fifo!Close
<1>2. ASSUME UNCHANGED <<accepted, received>>, (receiver' # None) = (receiver # None)
      PROVE  UNCHANGED Fifo!vars
  BY <1>2 DEF Fifo!vars
<1>3. CASE UNCHANGED chVars
  BY <1>2, <1>3 DEF chVars
<1>4. CASE HandOver
  <2>1. ASSUME NEW t \in Threads, NEW u \in Threads, NEW tx \in BOOLEAN, NEW rx \in BOOLEAN,
               Entrust(t, u, tx, rx)
        PROVE  UNCHANGED Fifo!vars
    BY <1>2, <2>1, ChannelAssumption DEF Entrust
  <2>2. ASSUME NEW t \in Threads, Drop(t, TRUE, TRUE) PROVE [Fifo!Next]_Fifo!vars
    BY <1>1, <1>2, <2>2, ChannelAssumption DEF Drop, Fifo!Next
  <2> QED BY <1>4, <2>1, <2>2 DEF HandOver
<1>5. ASSUME NEW t \in Threads, Call(t) \/ Proceed(t) PROVE [Fifo!Next]_Fifo!vars
  <2>1. CASE Acquire(t) \/ Enqueue(t) \/ RecvBegin(t) \/ TakeEnd(t) \/ Wake(t) \/ Refuse(t)
    BY <1>2, <2>1 DEF Acquire, Enqueue, RecvBegin, TakeEnd, Wake, Refuse
  <2>2. CASE DropSender(t) \/ DropReceiver(t)
    BY <1>1, <1>2, <2>2, ChannelAssumption DEF DropSender, DropReceiver, Drop, Fifo!Next
  <2>3. CASE Take(t)
    BY <2>3, TakeDelivers DEF Fifo!Next
  <2>4. CASE Push(t)
    <3>1. CASE receiver = None
      BY <1>2, <2>4, <3>1 DEF Push
    <3> QED BY <2>4, <3>1, PushAccepts DEF Fifo!Next
  <2> QED BY <1>5, <2>1, <2>2, <2>3, <2>4 DEF Call, Proceed
<1> QED BY <1>3, <1>4, <1>5 DEF ChNext

\* A channel of any capacity, shared by any number of threads, is the bounded
\* queue of FifoQueue: nothing is lost, doubled, reordered or over the bound.
THEOREM ChannelImplementsFifo == ChSpec => ImplementsFifo
<1>1. ChInit => Fifo!Init
  BY ChannelAssumption DEF ChInit, Fifo!Init
<1> QED BY <1>1, InvHolds, StepImplementsFifo, PTL DEF ChSpec, ImplementsFifo, Fifo!Spec

\* Nobody holds a Sender once the end was told, so nobody is in a call of send
\* and none can begin one.
LEMMA StepKeepsEnd ==
  ASSUME Inv, [ChNext]_chVars, ended
  PROVE  ended' /\ accepted' = accepted /\ holders' = {}
<1>1. holders = {} /\ \A t \in Threads : doing[t] # "holding"
  BY DEF Inv, SendersHold, Sending
<1>2. CASE UNCHANGED chVars
  BY <1>1, <1>2 DEF chVars
<1>3. ASSUME NEW t \in Threads, NEW u \in Threads, NEW tx \in BOOLEAN, NEW rx \in BOOLEAN,
             Entrust(t, u, tx, rx)
      PROVE  ended' /\ accepted' = accepted /\ holders' = {}
  BY <1>1, <1>3 DEF Entrust
<1>4. ASSUME NEW t \in Threads, NEW tx \in BOOLEAN, NEW rx \in BOOLEAN, Drop(t, tx, rx)
      PROVE  ended' /\ accepted' = accepted /\ holders' = {}
  BY <1>1, <1>4 DEF Drop
<1>5. ASSUME NEW t \in Threads, Call(t)
      PROVE  ended' /\ accepted' = accepted /\ holders' = {}
  <2>1. ~Acquire(t) /\ ~Enqueue(t)
    BY <1>1 DEF Acquire, Enqueue, Begin
  <2>2. CASE DropSender(t) \/ DropReceiver(t)
    BY <1>4, <2>2 DEF DropSender, DropReceiver
  <2>3. CASE RecvBegin(t) \/ Take(t) \/ TakeEnd(t)
    BY <1>1, <2>3 DEF RecvBegin, Take, TakeEnd
  <2> QED BY <1>5, <2>1, <2>2, <2>3 DEF Call
<1>6. ASSUME NEW t \in Threads, Proceed(t)
      PROVE  ended' /\ accepted' = accepted /\ holders' = {}
  <2>1. ~Push(t)
    BY <1>1 DEF Push
  <2>2. CASE Wake(t) \/ Refuse(t) \/ Take(t) \/ TakeEnd(t)
    BY <1>1, <2>2 DEF Wake, Refuse, Take, TakeEnd
  <2> QED BY <1>6, <2>1, <2>2 DEF Proceed
<1> QED BY <1>2, <1>3, <1>4, <1>5, <1>6 DEF ChNext, HandOver

\* A receiver that was told that every sender is gone was told the truth.
THEOREM TheEndIsFinal == ChSpec => EndIsFinal
<1>1. Inv /\ [ChNext]_chVars => [ended => ended' /\ accepted' = accepted /\ holders' = {}]_chVars
  BY StepKeepsEnd
<1> QED BY <1>1, InvHolds, PTL DEF ChSpec, EndIsFinal
=============================================================================
