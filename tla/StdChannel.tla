----------------------------- MODULE StdChannel -----------------------------
(***************************************************************************)
(* Bounded channels of the standard library:                               *)
(* crates/cobrust-stdlib/src/sync.rs over tokio::sync::mpsc.               *)
(*                                                                         *)
(* A channel is a list of buffered messages and a semaphore with one       *)
(* permit per free slot.  A sender takes a permit, or queues for one in    *)
(* the order of the calls, and only then pushes its message; the receiver  *)
(* gives the permit of every message it takes to the first thread queued.  *)
(* Taking the permit and pushing are two steps: other threads run between. *)
(*                                                                         *)
(* The threads are any program: each may send, receive, clone its Sender   *)
(* into another thread, move the Receiver there, and drop what it holds.   *)
(* Calls that return an error at once (Full, Closed, Empty) change nothing *)
(* and are not steps.                                                      *)
(***************************************************************************)
EXTENDS Integers, Sequences, FiniteSets

CONSTANTS
  Threads,      \* OS threads that may hold an end of the channel
  First,        \* the thread that calls channel()
  Capacity,     \* the argument of channel()
  MaxMessages,  \* bound: calls of send and try_send
  None

ASSUME ChannelAssumption ==
  /\ First \in Threads
  /\ Capacity \in Nat /\ MaxMessages \in Nat
  /\ None \notin Threads

VARIABLES
  holders,   \* threads that hold a Sender, as one or more clones
  receiver,  \* the thread that holds the Receiver, or None once it is dropped
  permits,   \* free permits of the semaphore
  waiting,   \* threads queued for a permit, in order
  buffer,    \* messages pushed and not yet taken
  doing,     \* doing[t]: where thread t is in its call, "free" outside of one
  hand,      \* hand[t]: the message t is sending; messages are numbered by call
  next,      \* number of the next call of send
  accepted,  \* history: messages pushed while the receiver lived, in order
  received,  \* history: messages taken, in order
  ended      \* has the receiver been told that every sender is gone?

chVars == <<holders, receiver, permits, waiting, buffer, doing, hand, next,
            accepted, received, ended>>

\* capacity.max(1): a rendezvous is approximated by one slot.
Slots == IF Capacity = 0 THEN 1 ELSE Capacity

Numbers == 1..MaxMessages
Queued == {"waiting", "assigned"}
Sending == {"waiting", "assigned", "holding"}

ChTypeOK ==
  /\ holders \subseteq Threads
  /\ receiver \in Threads \cup {None}
  /\ permits \in Nat
  /\ waiting \in Seq(Threads)
  /\ buffer \in Seq(Numbers)
  /\ doing \in [Threads -> {"free", "receiving"} \cup Sending]
  /\ hand \in [Threads -> 0..MaxMessages]
  /\ next \in 1..(MaxMessages + 1)
  /\ accepted \in Seq(Numbers)
  /\ received \in Seq(Numbers)
  /\ ended \in BOOLEAN

ChInit ==
  /\ holders = {First} /\ receiver = First
  /\ permits = Slots
  /\ waiting = <<>> /\ buffer = <<>>
  /\ doing = [t \in Threads |-> "free"]
  /\ hand = [t \in Threads |-> 0]
  /\ next = 1
  /\ accepted = <<>> /\ received = <<>>
  /\ ended = FALSE

----------------------------------------------------------------------------
(* Handles *)

\* A closure handed to another thread captures a clone of the Sender, the
\* Receiver itself, both or neither.
Entrust(t, u, tx, rx) ==
  /\ tx => t \in holders
  /\ rx => receiver = t
  /\ holders' = IF tx THEN holders \cup {u} ELSE holders
  /\ receiver' = IF rx THEN u ELSE receiver
  /\ UNCHANGED <<permits, waiting, buffer, doing, hand, next, accepted, received, ended>>

\* Dropping the Receiver closes the semaphore and empties the buffer.
Drop(t, tx, rx) ==
  /\ holders' = IF tx THEN holders \ {t} ELSE holders
  /\ IF rx /\ receiver = t
       THEN receiver' = None /\ buffer' = <<>> /\ waiting' = <<>> /\ permits' = 0
       ELSE UNCHANGED <<receiver, buffer, waiting, permits>>
  /\ UNCHANGED <<doing, hand, next, accepted, received, ended>>

DropSender(t) == t \in holders /\ Drop(t, TRUE, FALSE)
DropReceiver(t) == receiver = t /\ Drop(t, FALSE, TRUE)

----------------------------------------------------------------------------
(* Sender *)

Begin(t, where) ==
  /\ doing[t] = "free" /\ t \in holders /\ receiver # None
  /\ next <= MaxMessages
  /\ next' = next + 1
  /\ hand' = [hand EXCEPT ![t] = next]
  /\ doing' = [doing EXCEPT ![t] = where]

\* Mutant of Acquire: the permit is looked at and not taken.
AcquireUncounted(t) ==
  /\ permits > 0
  /\ Begin(t, "holding")
  /\ UNCHANGED <<holders, receiver, permits, waiting, buffer, accepted, received, ended>>

\* Mutant of Acquire: the permit is taken without a look.
AcquireUnseen(t) ==
  /\ Begin(t, "holding")
  /\ permits' = permits - 1
  /\ UNCHANGED <<holders, receiver, waiting, buffer, accepted, received, ended>>

\* send and try_send with a permit to be had.
Acquire(t) ==
  /\ permits > 0
  /\ Begin(t, "holding")
  /\ permits' = permits - 1
  /\ UNCHANGED <<holders, receiver, waiting, buffer, accepted, received, ended>>

\* send without one.
Enqueue(t) ==
  /\ permits = 0
  /\ Begin(t, "waiting")
  /\ waiting' = Append(waiting, t)
  /\ UNCHANGED <<holders, receiver, permits, buffer, accepted, received, ended>>

\* A thread that was given a permit wakes up, possibly to a closed channel.
Wake(t) ==
  /\ doing[t] = "assigned" /\ receiver # None
  /\ doing' = [doing EXCEPT ![t] = "holding"]
  /\ UNCHANGED <<holders, receiver, permits, waiting, buffer, hand, next, accepted, received, ended>>

\* Mutant of Refuse: only a thread still in the queue learns of the close.
RefuseWaitingOnly(t) ==
  /\ doing[t] = "waiting" /\ receiver = None
  /\ doing' = [doing EXCEPT ![t] = "free"]
  /\ UNCHANGED <<holders, receiver, permits, waiting, buffer, hand, next, accepted, received, ended>>

\* send returns Err(SendError(value)).
Refuse(t) ==
  /\ doing[t] \in Queued /\ receiver = None
  /\ doing' = [doing EXCEPT ![t] = "free"]
  /\ UNCHANGED <<holders, receiver, permits, waiting, buffer, hand, next, accepted, received, ended>>

\* send returns Ok.  A message pushed after the receiver is gone is lost.
Push(t) ==
  /\ doing[t] = "holding"
  /\ doing' = [doing EXCEPT ![t] = "free"]
  /\ IF receiver # None
       THEN /\ buffer' = Append(buffer, hand[t])
            /\ accepted' = Append(accepted, hand[t])
       ELSE UNCHANGED <<buffer, accepted>>
  /\ UNCHANGED <<holders, receiver, permits, waiting, hand, next, received, ended>>

----------------------------------------------------------------------------
(* Receiver *)

RecvBegin(t) ==
  /\ receiver = t /\ doing[t] = "free"
  /\ doing' = [doing EXCEPT ![t] = "receiving"]
  /\ UNCHANGED <<holders, receiver, permits, waiting, buffer, hand, next, accepted, received, ended>>

\* Mutant of Take: the permit goes to the last thread that queued.
TakeServesLast(t) ==
  /\ receiver = t /\ doing[t] \in {"free", "receiving"} /\ buffer # <<>>
  /\ buffer' = Tail(buffer)
  /\ received' = Append(received, Head(buffer))
  /\ IF waiting = <<>>
       THEN /\ permits' = permits + 1
            /\ doing' = [doing EXCEPT ![t] = "free"]
            /\ UNCHANGED waiting
       ELSE /\ doing' = [doing EXCEPT ![t] = "free", ![waiting[Len(waiting)]] = "assigned"]
            /\ waiting' = SubSeq(waiting, 1, Len(waiting) - 1)
            /\ UNCHANGED permits
  /\ UNCHANGED <<holders, receiver, hand, next, accepted, ended>>

\* recv (once blocked) and try_recv with a message to be had.
Take(t) ==
  /\ receiver = t /\ doing[t] \in {"free", "receiving"} /\ buffer # <<>>
  /\ buffer' = Tail(buffer)
  /\ received' = Append(received, Head(buffer))
  /\ IF waiting = <<>>
       THEN /\ permits' = permits + 1
            /\ doing' = [doing EXCEPT ![t] = "free"]
            /\ UNCHANGED waiting
       ELSE /\ doing' = [doing EXCEPT ![t] = "free", ![Head(waiting)] = "assigned"]
            /\ waiting' = Tail(waiting)
            /\ UNCHANGED permits
  /\ UNCHANGED <<holders, receiver, hand, next, accepted, ended>>

\* Mutant of TakeEnd: an empty buffer is taken for the end.
TakeEndWhenEmpty(t) ==
  /\ receiver = t /\ doing[t] \in {"free", "receiving"} /\ buffer = <<>>
  /\ ended' = TRUE
  /\ doing' = [doing EXCEPT ![t] = "free"]
  /\ UNCHANGED <<holders, receiver, permits, waiting, buffer, hand, next, accepted, received>>

\* recv returns None, try_recv Disconnected.
TakeEnd(t) ==
  /\ receiver = t /\ doing[t] \in {"free", "receiving"} /\ buffer = <<>>
  /\ holders = {}
  /\ ended' = TRUE
  /\ doing' = [doing EXCEPT ![t] = "free"]
  /\ UNCHANGED <<holders, receiver, permits, waiting, buffer, hand, next, accepted, received>>

----------------------------------------------------------------------------
\* What a thread outside of a call may decide to do, alone.
Call(t) ==
  /\ doing[t] = "free"
  /\ Acquire(t) \/ Enqueue(t) \/ RecvBegin(t) \/ Take(t) \/ TakeEnd(t)
     \/ DropSender(t) \/ DropReceiver(t)

\* What happens to a thread that is in one.
Proceed(t) ==
  /\ doing[t] # "free"
  /\ Wake(t) \/ Refuse(t) \/ Push(t) \/ Take(t) \/ TakeEnd(t)

\* A closure ends, or starts, with the handles it captured.
HandOver ==
  \/ \E t, u \in Threads, tx, rx \in BOOLEAN :
       t # u /\ doing[t] = "free" /\ Entrust(t, u, tx, rx)
  \/ \E t \in Threads : doing[t] = "free" /\ Drop(t, TRUE, TRUE)

ChNext == HandOver \/ \E t \in Threads : Call(t) \/ Proceed(t)

\* The program is free to make no further call; a thread inside a call is
\* woken when what it waits for has come.
ChSpec == ChInit /\ [][ChNext]_chVars /\ \A t \in Threads : WF_chVars(Proceed(t))

----------------------------------------------------------------------------
(* What the channel promises *)

Fifo == INSTANCE FifoQueue WITH open <- receiver # None

\* The channel is a bounded queue: a message is delivered once, in the order
\* of acceptance, and no more than the slots are ever ahead of the receiver.
ImplementsFifo == Fifo!Spec

\* A thread that found no slot is served before every later call: nobody who
\* has a permit called after somebody who still waits for one.
NobodyJumpsTheQueue ==
  receiver # None =>
    \A t, u \in Threads :
      doing[t] = "waiting" /\ doing[u] \in {"assigned", "holding"} => hand[u] < hand[t]

\* When the receiver is told that every sender is gone, nothing is under way,
\* and nothing arrives ever after.
EndIsFinal == [][ended => ended' /\ accepted' = accepted /\ holders' = {}]_chVars

\* No call sleeps through what it waits for: a blocked send returns once the
\* receiver is dropped, a blocked recv once the last sender is.
NobodySleepsForever ==
  \A t \in Threads :
    /\ (doing[t] \in Sending /\ receiver = None) ~> (doing[t] = "free")
    /\ (doing[t] = "receiving" /\ holders = {}) ~> (doing[t] = "free")
=============================================================================
