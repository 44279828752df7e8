--------------------------- MODULE OfflineWatchProofs ---------------------------
(***************************************************************************)
(* OfflineWatch for any finite number of nodes, any capacity of the queue  *)
(* and any number of attempts.                                             *)
(*                                                                         *)
(* WatchInv: the events reach the receiver in the order in which they were *)
(* emitted, and the queue's count of unfinished tasks, which the shutdown  *)
(* waits for, is exact.  What it adds is that every number that is waiting *)
(* or was told has been given out (NumbersAreOld), so that a new event is  *)
(* younger than all of them.                                               *)
(*                                                                         *)
(* CacheInv: the scanner's cache is what was announced.  The lemmas about  *)
(* the last event of a node in a sequence say what becomes of it when      *)
(* events are appended, pushed out at the front or taken.                  *)
(***************************************************************************)
EXTENDS OfflineWatch, FiniteSetTheorems, SequenceTheorems, TLAPS

\* EmissionOrder, with what the worker holds and what is queued told apart.
InOrder ==
    /\ \A i, j \in DOMAIN queue : i < j => queue[i].no < queue[j].no
    /\ \A i \in DOMAIN flight, j \in DOMAIN queue : flight[i].no < queue[j].no
    /\ \A i \in DOMAIN queue : queue[i].no > newest
    /\ \A i \in DOMAIN flight : flight[i].no >= newest

NumbersAreOld ==
    /\ newest <= emitted
    /\ \A i \in DOMAIN queue : queue[i].no <= emitted
    /\ \A i \in DOMAIN flight : flight[i].no <= emitted

WatchInv == WatchTypeOK /\ JoinIsExact /\ InOrder /\ NumbersAreOld

\* The queue is empty and no event has a number yet.
LEMMA InitWatchInv == WatchInit => WatchInv
<1> SUFFICES ASSUME WatchInit PROVE WatchInv
  OBVIOUS
<1> USE WebhookAssumption, WatchAssumption
<1>1. /\ queue = <<>> /\ flight = <<>> /\ Len(queue) = 0 /\ Len(flight) = 0
      /\ queue \in Seq(Event) /\ flight \in Seq(Event)
      /\ attempts \in 0..(MaxAttempts - 1) /\ steps \in 0..MaxSteps
  BY DEF WatchInit, WebhookInit
<1>2. WatchTypeOK
  BY <1>1 DEF WatchInit, WebhookInit, WatchTypeOK, WebhookTypeOK
<1>3. JoinIsExact /\ InOrder /\ NumbersAreOld
  BY <1>1 DEF WatchInit, WebhookInit, JoinIsExact, InOrder, NumbersAreOld
<1>4. QED
  BY <1>2, <1>3 DEF WatchInv

\* The worker holds one event at most, so the two ways to state the order agree.
LEMMA OrderFollows == WatchInv => EmissionOrder
<1> SUFFICES ASSUME WatchInv PROVE EmissionOrder
  OBVIOUS
<1>1. flight \in Seq(Event) /\ queue \in Seq(Event) /\ Len(flight) <= 1
  BY DEF WatchInv, WatchTypeOK, WebhookTypeOK
<1>2. /\ Pending \in Seq(Event) /\ Len(Pending) = Len(flight) + Len(queue)
      /\ \A i \in 1..(Len(flight) + Len(queue)) :
            Pending[i] = IF i <= Len(flight) THEN flight[i] ELSE queue[i - Len(flight)]
  BY <1>1, ConcatProperties DEF Pending
<1>3. ASSUME NEW i \in DOMAIN Pending, NEW j \in DOMAIN Pending, i < j
      PROVE  Pending[i].no < Pending[j].no
  <2>1. /\ Len(flight) \in Nat /\ Len(queue) \in Nat
        /\ i \in 1..(Len(flight) + Len(queue)) /\ j \in 1..(Len(flight) + Len(queue))
        /\ DOMAIN flight = 1..Len(flight) /\ DOMAIN queue = 1..Len(queue)
    BY <1>1, <1>2
  <2>2. ~(j <= Len(flight)) /\ j - Len(flight) \in DOMAIN queue
    BY <1>1, <1>3, <2>1
  <2>3. Pending[j] = queue[j - Len(flight)]
    BY <1>2, <2>1, <2>2
  <2>4. CASE i <= Len(flight)
    <3>1. i \in DOMAIN flight /\ Pending[i] = flight[i]
      BY <1>2, <2>1, <2>4
    <3>2. QED
      BY <3>1, <2>2, <2>3 DEF WatchInv, InOrder
  <2>5. CASE ~(i <= Len(flight))
    <3>1. /\ i - Len(flight) \in DOMAIN queue /\ i - Len(flight) < j - Len(flight)
      BY <1>3, <2>1, <2>5
    <3>2. Pending[i] = queue[i - Len(flight)]
      BY <1>2, <2>1, <2>5
    <3>3. QED
      BY <3>1, <3>2, <2>2, <2>3 DEF WatchInv, InOrder
  <2>6. QED
    BY <2>4, <2>5
<1>4. QED
  BY <1>3 DEF EmissionOrder, WatchInv, InOrder

--------------------------------------------------------------------------------
(* emit. *)

Items == [node: Nodes \cup {NoNode}, offline: BOOLEAN]

\* SubSeq from x + 1 on leaves out the first x elements.
LEMMA SuffixProperties ==
  ASSUME NEW S, NEW s \in Seq(S), NEW x \in Nat, x <= Len(s)
  PROVE  /\ SubSeq(s, x + 1, Len(s)) \in Seq(S)
         /\ Len(SubSeq(s, x + 1, Len(s))) = Len(s) - x
         /\ \A i \in 1..(Len(s) - x) : SubSeq(s, x + 1, Len(s))[i] = s[x + i]
<1> DEFINE kept == SubSeq(s, x + 1, Len(s))
<1>1. /\ x + 1 \in Int /\ Len(s) \in Nat
      /\ \A i \in (x + 1)..Len(s) : s[i] \in S
  OBVIOUS
<1>2. /\ kept \in Seq(S)
      /\ Len(kept) = IF x + 1 <= Len(s) THEN Len(s) - (x + 1) + 1 ELSE 0
      /\ \A i \in 1..(Len(s) - (x + 1) + 1) : kept[i] = s[x + 1 + i - 1]
  BY <1>1, SubSeqProperties
<1> HIDE DEF kept
<1>3. Len(kept) = Len(s) - x
  BY <1>1, <1>2
<1>4. \A i \in 1..(Len(s) - x) : kept[i] = s[x + i]
  <2> SUFFICES ASSUME NEW i \in 1..(Len(s) - x) PROVE kept[i] = s[x + i]
    OBVIOUS
  <2>1. i \in 1..(Len(s) - (x + 1) + 1) /\ x + 1 + i - 1 = x + i
    BY <1>1
  <2>2. kept[i] = s[x + 1 + i - 1]
    BY <1>2, <2>1
  <2>3. QED
    BY <2>1, <2>2
<1>5. QED
  BY <1>2, <1>3, <1>4 DEF kept

\* New events get the numbers that follow, and the queue keeps the latest ones.
LEMMA EnqueueKeeps ==
  ASSUME WatchInv, NEW news \in Seq(Items), Enqueue(news),
         UNCHANGED <<flight, newest>>
  PROVE  /\ queue' \in Seq(Event) /\ Len(queue') <= Capacity
         /\ emitted' \in Nat /\ unfinished' \in Nat /\ stale' \subseteq Nodes
         /\ JoinIsExact' /\ InOrder' /\ NumbersAreOld'
<1> DEFINE fresh == Numbered(news)
           all == queue \o fresh
           x == Excess(all)
<1>1. /\ queue \in Seq(Event) /\ Len(queue) \in Nat /\ Len(queue) <= Capacity
      /\ DOMAIN queue = 1..Len(queue)
      /\ flight \in Seq(Event) /\ Len(flight) \in Nat
      /\ emitted \in Nat /\ newest \in Nat /\ unfinished \in Nat /\ stale \subseteq Nodes
      /\ unfinished = Len(queue) + Len(flight)
  BY DEF WatchInv, WatchTypeOK, WebhookTypeOK, JoinIsExact
<1>1a. /\ \A i \in DOMAIN queue : queue[i].no \in Nat /\ queue[i].no <= emitted
       /\ \A i \in DOMAIN flight : flight[i].no \in Nat /\ flight[i].no <= emitted
  <2>1. /\ \A i \in DOMAIN queue : queue[i] \in Event
        /\ \A i \in DOMAIN flight : flight[i] \in Event
    BY <1>1
  <2>2. QED
    BY <2>1 DEF WatchInv, NumbersAreOld, Event
<1>2. /\ fresh \in Seq(Event) /\ Len(fresh) = Len(news) /\ Len(news) \in Nat
      /\ \A i \in 1..Len(news) : fresh[i].no = emitted + i
  <2>1. Len(news) \in Nat /\ DOMAIN news = 1..Len(news)
        /\ \A i \in 1..Len(news) : news[i] \in Items
    OBVIOUS
  <2>2. fresh = [i \in 1..Len(news) |-> [node |-> news[i].node, offline |-> news[i].offline,
                                         no |-> emitted + i]]
    BY <2>1 DEF Numbered
  <2>3. \A i \in 1..Len(news) :
          [node |-> news[i].node, offline |-> news[i].offline, no |-> emitted + i] \in Event
    BY <2>1, <1>1 DEF Items, Event
  <2> HIDE DEF fresh
  <2>4. QED
    BY <2>1, <2>2, <2>3
<1> HIDE DEF fresh
<1>3. /\ all \in Seq(Event) /\ Len(all) = Len(queue) + Len(news)
      /\ \A i \in 1..(Len(queue) + Len(news)) :
            all[i] = IF i <= Len(queue) THEN queue[i] ELSE fresh[i - Len(queue)]
  <2>1. /\ queue \o fresh \in Seq(Event) /\ Len(queue \o fresh) = Len(queue) + Len(fresh)
        /\ \A i \in 1..(Len(queue) + Len(fresh)) :
              (queue \o fresh)[i] = IF i <= Len(queue) THEN queue[i] ELSE fresh[i - Len(queue)]
    BY <1>1, <1>2, ConcatProperties
  <2>2. QED
    BY <1>2, <2>1
<1>4. /\ queue' = SubSeq(all, x + 1, Len(all))
      /\ unfinished' = unfinished + Len(news) - x
      /\ emitted' = emitted + Len(news)
      /\ stale' \subseteq Nodes
  BY <1>1 DEF Enqueue, Concerned, fresh
<1> HIDE DEF all
<1>5. /\ x \in Nat /\ x <= Len(all) /\ Len(all) - x <= Capacity
      /\ x <= Len(news)
  BY <1>1, <1>2, <1>3, WebhookAssumption DEF Excess
<1> HIDE DEF x
<1>6. /\ queue' \in Seq(Event) /\ Len(queue') = Len(all) - x
      /\ \A i \in 1..(Len(all) - x) : queue'[i] = all[x + i]
  BY <1>3, <1>4, <1>5, SuffixProperties
<1>7. DOMAIN queue' = 1..Len(queue') /\ Len(queue') \in Nat
  BY <1>6
\* Every event of all is older than the ones behind it.
<1>8. \A i, j \in 1..Len(all) : i < j => all[i].no < all[j].no
  <2> SUFFICES ASSUME NEW i \in 1..Len(all), NEW j \in 1..Len(all), i < j
               PROVE  all[i].no < all[j].no
    OBVIOUS
  <2>1. i \in Nat /\ j \in Nat /\ i \in 1..(Len(queue) + Len(news))
        /\ j \in 1..(Len(queue) + Len(news))
    BY <1>1, <1>2, <1>3
  <2>2. CASE j <= Len(queue)
    <3>1. i \in DOMAIN queue /\ j \in DOMAIN queue /\ i <= Len(queue)
      BY <1>1, <2>1, <2>2
    <3>2. all[i] = queue[i] /\ all[j] = queue[j]
      BY <1>3, <2>1, <2>2, <3>1
    <3>3. QED
      BY <3>1, <3>2 DEF WatchInv, InOrder
  <2>3. CASE ~(j <= Len(queue))
    <3>1. j - Len(queue) \in 1..Len(news)
      BY <1>1, <1>2, <2>1, <2>3
    <3>2. all[j].no = emitted + (j - Len(queue))
      BY <3>1, <1>2, <1>3, <2>1, <2>3
    <3>3. CASE i <= Len(queue)
      <4>1. i \in DOMAIN queue /\ all[i] = queue[i]
        BY <1>1, <1>3, <2>1, <3>3
      <4>2. queue[i].no <= emitted /\ queue[i].no \in Nat
        BY <4>1, <1>1a
      <4>3. QED
        BY <4>1, <4>2, <3>1, <3>2, <1>1, <1>2
    <3>4. CASE ~(i <= Len(queue))
      <4>1. i - Len(queue) \in 1..Len(news)
        BY <1>1, <1>2, <2>1, <3>4
      <4>2. all[i].no = emitted + (i - Len(queue))
        BY <4>1, <1>2, <1>3, <2>1, <3>4
      <4>3. QED
        BY <3>2, <4>2, <1>1, <2>1
    <3>5. QED
      BY <3>3, <3>4
  <2>4. QED
    BY <2>2, <2>3
<1>9. \A i \in 1..Len(all) :
        /\ all[i].no > newest /\ all[i].no <= emitted'
        /\ \A k \in DOMAIN flight : flight[k].no < all[i].no
  <2> SUFFICES ASSUME NEW i \in 1..Len(all)
               PROVE  /\ all[i].no > newest /\ all[i].no <= emitted'
                      /\ \A k \in DOMAIN flight : flight[k].no < all[i].no
    OBVIOUS
  <2>1. i \in Nat /\ i \in 1..(Len(queue) + Len(news)) /\ newest <= emitted
    BY <1>1, <1>2, <1>3 DEF WatchInv, NumbersAreOld
  <2>2. CASE i <= Len(queue)
    <3>1. i \in DOMAIN queue /\ all[i] = queue[i]
      BY <1>1, <1>3, <2>1, <2>2
    <3>2. queue[i].no <= emitted /\ queue[i].no \in Nat
      BY <3>1, <1>1a
    <3>3. queue[i].no <= emitted'
      <4>1. emitted \in Nat /\ Len(news) \in Nat /\ emitted' = emitted + Len(news)
        BY <1>1, <1>2, <1>4
      <4>2. QED
        BY <3>2, <4>1
    <3>4. QED
      BY <3>1, <3>3 DEF WatchInv, InOrder
  <2>3. CASE ~(i <= Len(queue))
    <3>1. i - Len(queue) \in 1..Len(news)
      BY <1>1, <1>2, <2>1, <2>3
    <3>2. all[i].no = emitted + (i - Len(queue))
      BY <3>1, <1>2, <1>3, <2>1, <2>3
    <3>3. all[i].no \in Nat /\ all[i].no > emitted /\ all[i].no <= emitted'
      <4>1. DEFINE d == i - Len(queue)
      <4>2. d \in Nat /\ d >= 1 /\ d <= Len(news) /\ all[i].no = emitted + d
        BY <3>1, <3>2, <1>2
      <4>3. emitted \in Nat /\ Len(news) \in Nat /\ emitted' = emitted + Len(news)
        BY <1>1, <1>2, <1>4
      <4> HIDE DEF d
      <4>4. QED
        BY <4>2, <4>3
    <3>4. \A k \in DOMAIN flight : flight[k].no <= emitted /\ flight[k].no \in Nat
      BY <1>1a
    <3>5. newest \in Nat /\ emitted \in Nat
      BY <1>1
    <3>6. all[i].no > newest
      BY <3>3, <3>5, <2>1
    <3>7. \A k \in DOMAIN flight : flight[k].no < all[i].no
      BY <3>3, <3>4, <3>5
    <3>8. QED
      BY <3>3, <3>6, <3>7
  <2>4. QED
    BY <2>2, <2>3
<1>10. \A i \in 1..Len(queue') : x + i \in 1..Len(all) /\ queue'[i] = all[x + i]
  BY <1>5, <1>6, <1>7
<1>11. JoinIsExact'
  <2>1. Len(queue') = Len(queue) + Len(news) - x
    <3>1. Len(queue') = Len(all) - x /\ Len(all) = Len(queue) + Len(news)
      BY <1>3, <1>6, Zenon
    <3>2. Len(queue') \in Nat /\ Len(queue) \in Nat /\ Len(news) \in Nat /\ x \in Nat
      BY <1>1, <1>2, <1>5, <1>7
    <3>3. QED
      BY <3>1, <3>2
  <2>2. unfinished' = Len(queue') + Len(flight)
    BY <2>1, <1>1, <1>2, <1>4, <1>5
  <2>3. QED
    BY <2>2 DEF JoinIsExact
<1>12. InOrder'
  <2>1. \A i, j \in DOMAIN queue' : i < j => queue'[i].no < queue'[j].no
    <3> SUFFICES ASSUME NEW i \in 1..Len(queue'), NEW j \in 1..Len(queue'), i < j
                 PROVE  queue'[i].no < queue'[j].no
      BY <1>7
    <3>1. x + i < x + j
      BY <1>5, <1>7
    <3>2. QED
      BY <3>1, <1>8, <1>10
  <2>2. /\ \A i \in DOMAIN queue' : queue'[i].no > newest
        /\ \A k \in DOMAIN flight, i \in DOMAIN queue' : flight[k].no < queue'[i].no
    BY <1>7, <1>9, <1>10
  <2>3. \A k \in DOMAIN flight : flight[k].no >= newest
    BY DEF WatchInv, InOrder
  <2>4. QED
    BY <2>1, <2>2, <2>3 DEF InOrder
<1>13. NumbersAreOld'
  <2>1. newest <= emitted' /\ \A i \in DOMAIN flight : flight[i].no <= emitted'
    <3>1. \A i \in DOMAIN flight : flight[i].no <= emitted /\ flight[i].no \in Nat
      BY <1>1a
    <3>2. /\ newest <= emitted /\ newest \in Nat /\ emitted \in Nat
          /\ Len(news) \in Nat /\ emitted' = emitted + Len(news)
      BY <1>1, <1>2, <1>4 DEF WatchInv, NumbersAreOld
    <3>3. emitted <= emitted' /\ emitted' \in Nat
      BY <3>2
    <3>4. QED
      BY <3>1, <3>2, <3>3
  <2>2. QED
    BY <2>1, <1>7, <1>9, <1>10 DEF NumbersAreOld
<1>14. queue' \in Seq(Event) /\ Len(queue') <= Capacity /\ stale' \subseteq Nodes
  BY <1>4, <1>5, <1>6
<1>15. emitted' \in Nat
  BY <1>1, <1>2, <1>4
<1>16. unfinished' \in Nat
  BY <1>1, <1>2, <1>4, <1>5
<1>17. QED
  BY <1>11, <1>12, <1>13, <1>14, <1>15, <1>16
--------------------------------------------------------------------------------
(* The worker. *)

\* queue.get moves the oldest event into flight and counts nothing as done.
LEMMA TakeKeeps ==
  ASSUME WatchInv, Take, UNCHANGED <<nodeVars, scanVars, steps>>
  PROVE  WatchInv'
<1>1. /\ queue \in Seq(Event) /\ queue # <<>> /\ flight = <<>>
      /\ flight' = <<Head(queue)>> /\ queue' = Tail(queue) /\ attempts' = 0
      /\ unfinished = Len(queue) + Len(flight) /\ Len(queue) <= Capacity
      /\ UNCHANGED <<listed, phase, unfinished, emitted, newest, told, stale, enabled, seen,
                     cache, firstTick, steps>>
  BY DEF Take, WatchInv, WatchTypeOK, WebhookTypeOK, JoinIsExact, receiverVars, nodeVars,
         scanVars
<1>2. /\ Head(queue) \in Event /\ queue' \in Seq(Event) /\ Len(queue') = Len(queue) - 1
      /\ \A i \in 1..Len(queue') : queue'[i] = queue[i + 1]
  BY <1>1, HeadTailProperties
<1>3. /\ Head(queue) = queue[1] /\ 1 \in DOMAIN queue
      /\ Len(queue) \in Nat /\ Len(queue') \in Nat
      /\ DOMAIN queue = 1..Len(queue) /\ DOMAIN queue' = 1..Len(queue')
  BY <1>1, <1>2
<1>4. /\ flight' \in Seq(Event) /\ Len(flight') = 1 /\ DOMAIN flight' = {1}
      /\ flight'[1] = queue[1] /\ Len(flight) = 0
  BY <1>1, <1>2, <1>3
<1>5. \A i \in DOMAIN queue' : i + 1 \in DOMAIN queue /\ 1 < i + 1 /\ queue'[i] = queue[i + 1]
  BY <1>2, <1>3
<1>6. WatchTypeOK'
  <2>1. attempts' \in 0..(MaxAttempts - 1)
    BY <1>1, WebhookAssumption
  <2>2. Len(queue') <= Capacity
    BY <1>1, <1>2, <1>3, WebhookAssumption
  <2>3. QED
    BY <2>1, <2>2, <1>1, <1>2, <1>4 DEF WatchInv, WatchTypeOK, WebhookTypeOK
<1>7. JoinIsExact'
  BY <1>1, <1>2, <1>3, <1>4 DEF JoinIsExact
<1>8. InOrder'
  <2>1. \A i, j \in DOMAIN queue' : i < j => queue'[i].no < queue'[j].no
    <3> SUFFICES ASSUME NEW i \in DOMAIN queue', NEW j \in DOMAIN queue', i < j
                 PROVE  queue'[i].no < queue'[j].no
      OBVIOUS
    <3>1. i + 1 < j + 1
      BY <1>3
    <3>2. QED
      BY <3>1, <1>5 DEF WatchInv, InOrder
  <2>2. \A i \in DOMAIN flight', j \in DOMAIN queue' : flight'[i].no < queue'[j].no
    BY <1>3, <1>4, <1>5 DEF WatchInv, InOrder
  <2>3. \A i \in DOMAIN queue' : queue'[i].no > newest
    BY <1>5 DEF WatchInv, InOrder
  <2>4. \A i \in DOMAIN flight' : flight'[i].no >= newest
    <3>1. queue[1].no \in Nat /\ newest \in Nat /\ queue[1].no > newest
      BY <1>2, <1>3 DEF WatchInv, WatchTypeOK, WebhookTypeOK, InOrder, Event
    <3>2. QED
      BY <3>1, <1>4
  <2>5. QED
    BY <2>1, <2>2, <2>3, <2>4, <1>1 DEF InOrder
<1>9. NumbersAreOld'
  BY <1>1, <1>3, <1>4, <1>5 DEF WatchInv, NumbersAreOld
<1>10. QED
  BY <1>6, <1>7, <1>8, <1>9 DEF WatchInv

\* What an attempt changes: the receiver may have seen the event, and the worker keeps
\* it or lets it go.
Attempted ==
    /\ flight # <<>>
    /\ newest' = newest \/ newest' = flight[1].no
    /\ told' \subseteq Nodes /\ stale' \subseteq Nodes
    /\ attempts' \in 0..(MaxAttempts - 1)
    /\ \/ flight' = flight /\ unfinished' = unfinished
       \/ flight' = <<>> /\ unfinished' = unfinished - 1
    /\ UNCHANGED <<listed, phase, queue, emitted, enabled, seen, cache, firstTick, steps>>

\* A step of the worker at the event in flight keeps the order and the count.
LEMMA AttemptedKeeps == ASSUME WatchInv, Attempted PROVE WatchInv'
<1>1. /\ flight \in Seq(Event) /\ flight # <<>> /\ newest \in Nat
      /\ emitted \in Nat /\ queue \in Seq(Event)
  BY DEF WatchInv, WatchTypeOK, WebhookTypeOK, Attempted
<1>1a. unfinished = Len(queue) + Len(flight)
  BY DEF WatchInv, JoinIsExact
<1>1b. Len(flight) <= 1
  BY DEF WatchInv, WatchTypeOK, WebhookTypeOK
<1>2. Len(flight) = 1 /\ DOMAIN flight = {1} /\ flight[1] \in Event /\ Len(queue) \in Nat
  <2>1. Len(flight) \in Nat /\ Len(flight) # 0
    BY <1>1, EmptySeq
  <2>2. Len(flight) = 1
    <3> DEFINE l == Len(flight)
    <3>1. l \in Nat /\ l # 0 /\ l <= 1
      BY <2>1, <1>1b
    <3> HIDE DEF l
    <3>2. l = 1
      BY <3>1
    <3>3. QED
      BY <3>2 DEF l
  <2>3. DOMAIN flight = 1..1 /\ flight[1] \in Event
    BY <2>2, <1>1
  <2>4. Len(queue) \in Nat
    BY <1>1
  <2>5. QED
    BY <2>2, <2>3, <2>4
<1>3. flight[1].no \in Nat
  BY <1>2 DEF Event
<1>4. \/ flight' = flight /\ unfinished' = unfinished
      \/ flight' = <<>> /\ Len(flight') = 0 /\ unfinished' = Len(queue)
  BY <1>1a, <1>2 DEF Attempted
<1>5. /\ newest' \in Nat /\ flight' \in Seq(Event) /\ Len(flight') <= 1
      /\ unfinished' \in Nat
  <2>1. newest' \in Nat
    BY <1>1, <1>3 DEF Attempted
  <2>2. unfinished' \in Nat
    BY <1>1a, <1>2, <1>4
  <2>3. flight' \in Seq(Event) /\ Len(flight') <= 1
    <3>1. CASE flight' = flight
      BY <3>1, <1>1, <1>1b
    <3>2. CASE flight' = <<>> /\ Len(flight') = 0
      BY <3>2
    <3>3. QED
      BY <3>1, <3>2, <1>4
  <2>4. QED
    BY <2>1, <2>2, <2>3
<1>6. WatchTypeOK'
  BY <1>5 DEF WatchInv, WatchTypeOK, WebhookTypeOK, Attempted
<1>7. JoinIsExact'
  <2>1. queue' = queue
    BY DEF Attempted
  <2>2. unfinished' = Len(queue) + Len(flight')
    <3>1. CASE flight' = flight /\ unfinished' = unfinished
      BY <3>1, <1>1a
    <3>2. CASE Len(flight') = 0 /\ unfinished' = Len(queue)
      BY <3>2, <1>2
    <3>3. QED
      BY <3>1, <3>2, <1>4
  <2>3. QED
    BY <2>1, <2>2 DEF JoinIsExact
<1>8. InOrder'
  <2>1. \A i \in DOMAIN queue : queue[i].no > newest'
    BY <1>2 DEF WatchInv, InOrder, Attempted
  <2>2. \A i \in DOMAIN flight' : flight'[i].no >= newest'
    <3>1. flight[1].no >= newest' /\ (flight' = flight \/ flight' = <<>>)
      BY <1>2, <1>3, <1>4 DEF WatchInv, InOrder, Attempted
    <3>2. QED
      BY <3>1, <1>2
  <2>3. \A i \in DOMAIN flight', j \in DOMAIN queue : flight'[i].no < queue[j].no
    BY <1>2, <1>4 DEF WatchInv, InOrder
  <2>4. QED
    BY <2>1, <2>2, <2>3 DEF WatchInv, InOrder, Attempted
<1>9. NumbersAreOld'
  <2>1. newest' <= emitted
    BY <1>2 DEF WatchInv, NumbersAreOld, Attempted
  <2>2. \A i \in DOMAIN flight' : flight'[i].no <= emitted
    BY <1>2, <1>4 DEF WatchInv, NumbersAreOld
  <2>3. QED
    BY <2>1, <2>2 DEF WatchInv, NumbersAreOld, Attempted
<1>10. QED
  BY <1>6, <1>7, <1>8, <1>9 DEF WatchInv

\* A delivery, a retry and giving up are such steps.
LEMMA WorkerSteps ==
  ASSUME WatchInv, Delivered \/ Attempt, UNCHANGED <<nodeVars, scanVars, steps>>
  PROVE  Attempted
<1>1. /\ told \subseteq Nodes /\ stale \subseteq Nodes
      /\ attempts \in 0..(MaxAttempts - 1) /\ flight # <<>>
  BY DEF WatchInv, WatchTypeOK, WebhookTypeOK, Delivered, Reaches, Attempt
<1>2. Told(flight[1]) \subseteq Nodes
  BY <1>1 DEF Told
<1>3. CASE Delivered
  BY <1>1, <1>2, <1>3, WebhookAssumption
  DEF Delivered, Reaches, Done, Attempted, nodeVars, scanVars
<1>4. CASE Attempt
  <2>1. newest' = newest \/ newest' = flight[1].no
    BY <1>4 DEF Attempt, Reaches, receiverVars
  <2>2. told' \subseteq Nodes
    BY <1>1, <1>2, <1>4 DEF Attempt, Reaches, receiverVars
  <2>3. CASE Retried
    <3>1. attempts' \in 0..(MaxAttempts - 1)
      BY <1>1, <2>3, WebhookAssumption DEF Retried
    <3>2. QED
      BY <3>1, <2>1, <2>2, <2>3, <1>1, <1>4 DEF Attempt, Retried, Attempted, nodeVars, scanVars
  <2>4. CASE GivenUp
    <3>1. attempts' \in 0..(MaxAttempts - 1) /\ stale' \subseteq Nodes
      BY <1>1, <2>4, WebhookAssumption DEF GivenUp, Done, Concerned
    <3>2. QED
      BY <3>1, <2>1, <2>2, <2>4, <1>1, <1>4
      DEF Attempt, GivenUp, Done, Attempted, nodeVars, scanVars
  <2>5. QED
    BY <2>3, <2>4, <1>4 DEF Attempt
<1>5. QED
  BY <1>3, <1>4
--------------------------------------------------------------------------------
(* The steps that empty the queue, and those that leave it alone. *)

\* aclose and a crash empty the queue and the count together.
LEMMA DroppedKeeps ==
  ASSUME WatchInv, Dropped, UNCHANGED <<nodeVars, scanVars>>, steps' \in 0..MaxSteps
  PROVE  WatchInv'
<1>1. /\ queue' = <<>> /\ flight' = <<>> /\ attempts' = 0 /\ unfinished' = 0
      /\ phase' = "down"
      /\ UNCHANGED <<listed, emitted, newest, told, enabled, seen, cache, firstTick>>
  BY DEF Dropped, receiverVars, nodeVars, scanVars
<1>2. stale' \subseteq Nodes
  BY DEF Dropped, Concerned, WatchInv, WatchTypeOK, WebhookTypeOK
<1>3. /\ queue' \in Seq(Event) /\ flight' \in Seq(Event)
      /\ Len(queue') = 0 /\ Len(flight') = 0
      /\ DOMAIN queue' = {} /\ DOMAIN flight' = {}
  BY <1>1
<1>4. attempts' \in 0..(MaxAttempts - 1) /\ 0 <= Capacity
  BY <1>1, WebhookAssumption
<1>5. WatchTypeOK'
  BY <1>1, <1>2, <1>3, <1>4 DEF WatchInv, WatchTypeOK, WebhookTypeOK
<1>6. JoinIsExact'
  BY <1>1, <1>3 DEF JoinIsExact
<1>7. InOrder' /\ NumbersAreOld'
  BY <1>1, <1>3 DEF WatchInv, InOrder, NumbersAreOld
<1>8. QED
  BY <1>5, <1>6, <1>7 DEF WatchInv

Aside ==
    /\ UNCHANGED <<queue, flight, attempts, unfinished, emitted, newest, told>>
    /\ listed' \subseteq NodeKinds
    /\ phase' \in {"up", "draining", "grace", "down"}
    /\ stale' \subseteq Nodes /\ enabled' \subseteq Nodes /\ cache' \subseteq Nodes
    /\ seen' \in [Nodes -> {"never", "recent", "old"}]
    /\ firstTick' \in BOOLEAN
    /\ steps' \in 0..MaxSteps

\* A step that leaves queue, flight and numbers alone keeps the invariant.
LEMMA AsideKeeps == ASSUME WatchInv, Aside PROVE WatchInv'
<1>1. WatchTypeOK'
  BY DEF WatchInv, WatchTypeOK, WebhookTypeOK, Aside
<1>2. JoinIsExact' /\ InOrder' /\ NumbersAreOld'
  BY DEF WatchInv, JoinIsExact, InOrder, NumbersAreOld, Aside
<1>3. QED
  BY <1>1, <1>2 DEF WatchInv

\* A step from outside stays within the bound on them.
LEMMA OutsideStep == ASSUME WatchInv, Outside PROVE steps' \in 0..MaxSteps
<1>1. steps \in 0..MaxSteps
  BY DEF WatchInv, WatchTypeOK
<1>2. QED
  BY <1>1, WatchAssumption DEF Outside

\* What happens to the nodes, the end of the drain and a start are such steps.
LEMMA AsideSteps ==
  ASSUME WatchInv,
         \/ \E n \in Nodes : SetEnabled(n) \/ Heartbeat(n) \/ FallsSilent(n)
         \/ DrainTimesOut /\ UNCHANGED <<nodeVars, scanVars, steps>>
         \/ Outside /\ Close /\ UNCHANGED <<nodeVars, scanVars>>
         \/ Start
         \/ UNCHANGED watchVars
  PROVE  Aside
<1> USE DEF queueVars, receiverVars, hookVars, nodeVars, scanVars, Aside
<1>1. /\ phase \in {"up", "draining", "grace", "down"} /\ listed \subseteq NodeKinds
      /\ stale \subseteq Nodes /\ told \subseteq Nodes
      /\ enabled \subseteq Nodes /\ cache \subseteq Nodes
      /\ seen \in [Nodes -> {"never", "recent", "old"}]
      /\ firstTick \in BOOLEAN /\ steps \in 0..MaxSteps
  BY DEF WatchInv, WatchTypeOK, WebhookTypeOK
<1>2. CASE \E n \in Nodes : SetEnabled(n) \/ Heartbeat(n) \/ FallsSilent(n)
  <2>1. PICK n \in Nodes : SetEnabled(n) \/ Heartbeat(n) \/ FallsSilent(n)
    BY <1>2
  <2>2. steps' \in 0..MaxSteps
    BY <2>1, OutsideStep DEF SetEnabled, Heartbeat, FallsSilent
  <2>3. seen' \in [Nodes -> {"never", "recent", "old"}]
    BY <1>1, <2>1 DEF SetEnabled, Heartbeat, FallsSilent
  <2>4. enabled' \subseteq Nodes
    BY <1>1, <2>1 DEF SetEnabled, Heartbeat, FallsSilent
  <2>5. QED
    BY <1>1, <2>1, <2>2, <2>3, <2>4 DEF SetEnabled, Heartbeat, FallsSilent
<1>3. CASE DrainTimesOut /\ UNCHANGED <<nodeVars, scanVars, steps>>
  BY <1>1, <1>3 DEF DrainTimesOut
<1>4. CASE Outside /\ Close /\ UNCHANGED <<nodeVars, scanVars>>
  <2>1. steps' \in 0..MaxSteps
    BY <1>4, OutsideStep
  <2>2. QED
    BY <1>1, <1>4, <2>1 DEF Close
<1>5. CASE Start
  BY <1>1, <1>5 DEF Start
<1>6. CASE UNCHANGED watchVars
  BY <1>1, <1>6 DEF watchVars
<1>7. QED
  BY <1>2, <1>3, <1>4, <1>5, <1>6

--------------------------------------------------------------------------------
(* The scanner's tick, and the other events. *)

\* SetToSeq reaches every element of the set, and each only once.
LEMMA SetToSeqExact ==
  ASSUME NEW S, IsFiniteSet(S)
  PROVE  /\ SetToSeq(S) \in Seq(S)
         /\ \A e \in S : \E i \in DOMAIN SetToSeq(S) : SetToSeq(S)[i] = e
         /\ \A i, j \in DOMAIN SetToSeq(S) : SetToSeq(S)[i] = SetToSeq(S)[j] => i = j
<1> DEFINE c == Cardinality(S)
           s == SetToSeq(S)
<1>1. c \in Nat /\ ExistsBijection(1..c, S)
  BY FS_CardinalityType
<1>2. \E f \in [1..c -> S] : IsInjective(f)
  BY <1>1 DEF ExistsBijection, Bijection, Injection
<1>3. s \in [1..c -> S] /\ IsInjective(s)
  BY <1>2 DEF SetToSeq
<1> HIDE DEF s
<1>4. s \in Injection(1..c, S)
  BY <1>3 DEF Injection, IsInjective
<1>5. IsFiniteSet(1..c) /\ Cardinality(1..c) = c
  BY <1>1, FS_Interval
<1>6. s \in Surjection(1..c, S)
  BY <1>4, <1>5, FS_Injection
<1>7. \A e \in S : \E i \in 1..c : s[i] = e
  BY <1>6 DEF Surjection
<1>8. QED
  BY <1>1, <1>3, <1>7 DEF s, IsInjective

\* A set of nodes gives rise to one event for each of them.
LEMMA EventsOfSet ==
  ASSUME NEW S, IsFiniteSet(S), S \subseteq Nodes, NEW v \in BOOLEAN, NEW n
  PROVE  /\ EventsOf(S, v) \in Seq(Items)
         /\ About(EventsOf(S, v), n) # {} <=> n \in S
         /\ About(EventsOf(S, v), n) # {} => (LastOffline(EventsOf(S, v), n) <=> v = TRUE)
<1> DEFINE news == EventsOf(S, v)
           s == SetToSeq(S)
<1>1. /\ s \in Seq(S) /\ DOMAIN s = 1..Len(s) /\ Len(s) \in Nat
      /\ \A e \in S : \E i \in DOMAIN s : s[i] = e
      /\ \A i, j \in DOMAIN s : s[i] = s[j] => i = j
      /\ \A i \in DOMAIN s : s[i] \in S
  BY SetToSeqExact
<1>2. /\ DOMAIN news = DOMAIN s
      /\ \A i \in DOMAIN s : news[i] = [node |-> s[i], offline |-> v]
  BY DEF EventsOf
<1>2a. \A i \in DOMAIN news : news[i].node = s[i] /\ news[i].offline = v
  BY <1>2
<1> HIDE DEF s, news
<1>3. \A i \in DOMAIN s : news[i] \in Items
  BY <1>1, <1>2 DEF Items
<1>4. news \in Seq(Items)
  <2>1. news \in [1..Len(s) -> Items]
    BY <1>1, <1>2, <1>3 DEF s, news, EventsOf
  <2>2. QED
    BY <2>1, <1>1
<1>5a. About(news, n) = {i \in DOMAIN s : s[i] = n}
  <2>1. About(news, n) = {i \in DOMAIN news : news[i].node = n}
    BY DEF About
  <2>2. \A i : i \in About(news, n) <=> i \in DOMAIN s /\ s[i] = n
    BY <2>1, <1>2, <1>2a, Zenon
  <2>3. QED
    BY <2>2
<1>5. About(news, n) # {} <=> n \in S
  <2>1. ASSUME n \in S PROVE About(news, n) # {}
    <3>1. PICK i \in DOMAIN s : s[i] = n
      BY <1>1, <2>1
    <3>2. QED
      BY <1>5a, <3>1
  <2>2. ASSUME About(news, n) # {} PROVE n \in S
    <3>1. PICK i \in DOMAIN s : s[i] = n
      BY <1>5a, <2>2
    <3>2. QED
      BY <1>1, <3>1
  <2>3. QED
    BY <2>1, <2>2
<1>6. ASSUME About(news, n) # {} PROVE LastOffline(news, n) <=> v = TRUE
  <2>1. PICK i \in DOMAIN s : s[i] = n
    BY <1>5a, <1>6
  <2>2. i \in About(news, n) /\ i <= i
    <3>1. i \in Nat
      BY <1>1, <2>1
    <3>2. QED
      BY <1>5a, <2>1, <3>1
  <2>3. \A j \in About(news, n) : j = i /\ news[j].offline = v
    BY <1>1, <1>5a, <1>2, <1>2a, <2>1, Zenon
  <2>4. LastOffline(news, n)
          <=> \E k \in About(news, n) : news[k].offline /\ \A j \in About(news, n) : j <= k
    BY DEF LastOffline
  <2>5. QED
    BY <2>2, <2>3, <2>4, Zenon
<1>7. QED
  BY <1>4, <1>5, <1>6 DEF news

\* What a tick has to tell is about registered nodes.
LEMMA NewsTyped == ASSUME WatchInv PROVE News \in Seq(Items)
<1> DEFINE offs == Listed("node.offline", Offline \ cache)
           ons == Listed("node.online", Recovered)
<1>1. offs \subseteq Nodes /\ ons \subseteq Nodes
  BY DEF Listed, Offline, Recovered, WatchInv, WatchTypeOK
<1>2. News = EventsOf(offs, TRUE) \o EventsOf(ons, FALSE)
  BY DEF News
<1> HIDE DEF offs, ons
<1>3. IsFiniteSet(offs) /\ IsFiniteSet(ons)
  BY <1>1, WatchAssumption, FS_Subset
<1>4. EventsOf(offs, TRUE) \in Seq(Items) /\ EventsOf(ons, FALSE) \in Seq(Items)
  BY <1>1, <1>3, EventsOfSet
<1>5. QED
  BY <1>2, <1>4, ConcatProperties

\* emit keeps the invariant whatever is emitted.
LEMMA EmitKeeps ==
  ASSUME WatchInv, NEW news \in Seq(Items), Enqueue(news),
         UNCHANGED <<listed, phase, flight, attempts, receiverVars, nodeVars>>,
         cache' \subseteq Nodes, firstTick' \in BOOLEAN, steps' \in 0..MaxSteps
  PROVE  WatchInv'
<1> USE DEF receiverVars, nodeVars
<1>1. /\ queue' \in Seq(Event) /\ Len(queue') <= Capacity
      /\ emitted' \in Nat /\ unfinished' \in Nat /\ stale' \subseteq Nodes
      /\ JoinIsExact' /\ InOrder' /\ NumbersAreOld'
  BY EnqueueKeeps
<1>2. WatchTypeOK'
  BY <1>1 DEF WatchInv, WatchTypeOK, WebhookTypeOK
<1>3. QED
  BY <1>1, <1>2 DEF WatchInv

\* A tick of the scanner emits its news and takes the offline nodes for its cache.
LEMMA TickKeeps == ASSUME WatchInv, Tick PROVE WatchInv'
<1>1. /\ UNCHANGED <<listed, phase, flight, attempts, receiverVars, nodeVars, steps>>
      /\ cache' = Offline /\ firstTick' = FALSE
  BY DEF Tick
<1>2. Offline \subseteq Nodes /\ steps \in 0..MaxSteps
  BY DEF Offline, WatchInv, WatchTypeOK
<1>3. CASE Enqueue(News)
  BY <1>1, <1>2, <1>3, NewsTyped, EmitKeeps
<1>4. CASE /\ stale' = stale \cup Listed("node.offline", Offline)
           /\ UNCHANGED <<queue, unfinished, emitted>>
  <2>1. Aside
    BY <1>1, <1>2, <1>4
    DEF Listed, Aside, WatchInv, WatchTypeOK, WebhookTypeOK, receiverVars, nodeVars
  <2>2. QED
    BY <2>1, AsideKeeps
<1>5. QED
  BY <1>3, <1>4 DEF Tick

\* So does an event of another handler, with no cache.
LEMMA EmitOtherKeeps == ASSUME WatchInv, EmitOther PROVE WatchInv'
<1> DEFINE news == <<[node |-> NoNode, offline |-> FALSE]>>
<1>1. news \in Seq(Items)
  BY DEF Items
<1>2. /\ UNCHANGED <<listed, phase, flight, attempts, receiverVars, nodeVars, scanVars>>
      /\ Enqueue(news)
  BY DEF EmitOther
<1>3. cache' \subseteq Nodes /\ firstTick' \in BOOLEAN
  BY <1>2 DEF scanVars, WatchInv, WatchTypeOK
<1>4. steps' \in 0..MaxSteps
  BY OutsideStep DEF EmitOther
<1> HIDE DEF news
<1>5. QED
  BY <1>1, <1>2, <1>3, <1>4, EmitKeeps

\* Every step of the scanner, the emitter and the nodes keeps the invariant.
LEMMA StepWatchInv == WatchInv /\ [Next]_watchVars => WatchInv'
<1> SUFFICES ASSUME WatchInv, [Next]_watchVars PROVE WatchInv'
  OBVIOUS
<1>1. CASE Take /\ UNCHANGED <<nodeVars, scanVars, steps>>
  BY <1>1, TakeKeeps
<1>2. CASE (Delivered \/ Attempt) /\ UNCHANGED <<nodeVars, scanVars, steps>>
  BY <1>2, WorkerSteps, AttemptedKeeps
<1>3. CASE (Drained \/ GraceTimesOut) /\ UNCHANGED <<nodeVars, scanVars, steps>>
  <2>1. Dropped /\ steps' \in 0..MaxSteps
    BY <1>3 DEF Drained, GraceTimesOut, WatchInv, WatchTypeOK
  <2>2. QED
    BY <1>3, <2>1, DroppedKeeps
<1>4. CASE Outside /\ Crash /\ UNCHANGED <<nodeVars, scanVars>>
  BY <1>4, OutsideStep, DroppedKeeps DEF Crash
<1>5. CASE Tick
  BY <1>5, TickKeeps
<1>6. CASE EmitOther
  BY <1>6, EmitOtherKeeps
<1>7. CASE \/ \E n \in Nodes : SetEnabled(n) \/ Heartbeat(n) \/ FallsSilent(n)
           \/ DrainTimesOut /\ UNCHANGED <<nodeVars, scanVars, steps>>
           \/ Outside /\ Close /\ UNCHANGED <<nodeVars, scanVars>>
           \/ Start
           \/ UNCHANGED watchVars
  BY <1>7, AsideSteps, AsideKeeps
<1>8. QED
  BY <1>1, <1>2, <1>3, <1>4, <1>5, <1>6, <1>7 DEF Next, Worker, Shutdown, Stop

--------------------------------------------------------------------------------
(* What was announced of a node, and what is about to be.                      *)

\* The last event of a node in two sequences is its last in the second, if it has any.
LEMMA AboutConcat ==
  ASSUME NEW S, NEW s \in Seq(S), NEW t \in Seq(S), NEW n
  PROVE  /\ About(s \o t, n) = {} <=> About(s, n) = {} /\ About(t, n) = {}
         /\ About(t, n) # {} => (LastOffline(s \o t, n) <=> LastOffline(t, n))
         /\ About(t, n) = {} => (LastOffline(s \o t, n) <=> LastOffline(s, n))
<1> DEFINE c == s \o t
           k == Len(s)
<1>1. /\ c \in Seq(S) /\ Len(c) = Len(s) + Len(t)
      /\ \A i \in 1..(Len(s) + Len(t)) : c[i] = IF i <= Len(s) THEN s[i] ELSE t[i - Len(s)]
  BY ConcatProperties
<1>2. /\ DOMAIN s = 1..k /\ DOMAIN t = 1..Len(t) /\ DOMAIN c = 1..(k + Len(t))
      /\ k \in Nat /\ Len(t) \in Nat
  BY <1>1
<1>3. \A i \in DOMAIN s : i \in DOMAIN c /\ c[i] = s[i]
  BY <1>1, <1>2
<1>4. \A i \in DOMAIN t : k + i \in DOMAIN c /\ c[k + i] = t[i]
  <2> SUFFICES ASSUME NEW i \in DOMAIN t PROVE k + i \in DOMAIN c /\ c[k + i] = t[i]
    OBVIOUS
  <2>1. k + i \in 1..(k + Len(t)) /\ ~(k + i <= k) /\ (k + i) - k = i
    BY <1>2
  <2>2. c[k + i] = t[(k + i) - k]
    BY <2>1, <1>1
  <2>3. QED
    BY <2>1, <2>2, <1>2
<1>5. \A i \in DOMAIN c : i \in DOMAIN s \/ (i - k \in DOMAIN t /\ k + (i - k) = i)
  BY <1>2
<1> HIDE DEF c, k
<1>6. \A i \in DOMAIN c : i \in About(c, n) <=> i \in About(s, n) \/ i - k \in About(t, n)
  <2> SUFFICES ASSUME NEW i \in DOMAIN c
               PROVE  i \in About(c, n) <=> i \in About(s, n) \/ i - k \in About(t, n)
    OBVIOUS
  <2>1. CASE i \in DOMAIN s
    <3>1. i - k \notin DOMAIN t
      BY <1>2, <2>1
    <3>2. QED
      BY <1>3, <2>1, <3>1 DEF About
  <2>2. CASE i \notin DOMAIN s
    <3>1. i - k \in DOMAIN t /\ c[i] = t[i - k]
      BY <1>4, <1>5, <2>2
    <3>2. QED
      BY <2>2, <3>1 DEF About
  <2>3. QED
    BY <2>1, <2>2
<1>7. \A i \in About(t, n) : k + i \in About(c, n) /\ c[k + i] = t[i] /\ i \in 1..Len(t)
  BY <1>2, <1>4 DEF About
<1>8. \A i \in About(s, n) : i \in About(c, n) /\ c[i] = s[i] /\ i \in 1..k
  BY <1>2, <1>3 DEF About
<1>9. About(c, n) = {} <=> About(s, n) = {} /\ About(t, n) = {}
  <2>1. About(c, n) \subseteq DOMAIN c
    BY DEF About
  <2>2. QED
    BY <2>1, <1>6, <1>7, <1>8
<1>10. About(c, n) \subseteq 1..(k + Len(t))
  BY <1>2 DEF About
<1>11. ASSUME About(t, n) # {} PROVE LastOffline(c, n) <=> LastOffline(t, n)
  <2>1. ASSUME LastOffline(t, n) PROVE LastOffline(c, n)
    <3>1. PICK i \in About(t, n) : t[i].offline /\ \A j \in About(t, n) : j <= i
      BY <2>1 DEF LastOffline
    <3>2. k + i \in About(c, n) /\ c[k + i].offline /\ i \in 1..Len(t)
      BY <1>7, <3>1
    <3>3. ASSUME NEW j \in About(c, n) PROVE j <= k + i
      <4>1. j \in 1..(k + Len(t)) /\ (j \in About(s, n) \/ j - k \in About(t, n))
        BY <1>2, <1>6, <1>10
      <4>2. j <= k \/ j - k <= i
        BY <4>1, <3>1, <1>2, <1>8
      <4>3. QED
        BY <4>1, <4>2, <3>2, <1>2
    <3>4. QED
      BY <3>2, <3>3 DEF LastOffline
  <2>2. ASSUME LastOffline(c, n) PROVE LastOffline(t, n)
    <3>1. PICK i \in About(c, n) : c[i].offline /\ \A j \in About(c, n) : j <= i
      BY <2>2 DEF LastOffline
    <3>2. PICK l \in About(t, n) : TRUE
      BY <1>11
    <3>3. i \in 1..(k + Len(t)) /\ l \in 1..Len(t) /\ k + l <= i
      BY <3>1, <3>2, <1>7, <1>10
    <3>4. i \notin About(s, n)
      <4>1. ~(i <= k)
        BY <3>3, <1>2
      <4>2. QED
        BY <4>1, <1>2, <1>8
    <3>5. i - k \in About(t, n) /\ k + (i - k) = i
      BY <3>1, <3>3, <3>4, <1>2, <1>6
    <3>6. t[i - k].offline
      BY <3>1, <3>5, <1>7
    <3>7. ASSUME NEW j \in About(t, n) PROVE j <= i - k
      <4>1. k + j <= i /\ j \in 1..Len(t)
        BY <3>1, <1>7
      <4>2. QED
        BY <4>1, <3>3, <1>2
    <3>8. QED
      BY <3>5, <3>6, <3>7 DEF LastOffline
  <2>3. QED
    BY <2>1, <2>2
<1>12. ASSUME About(t, n) = {} PROVE LastOffline(c, n) <=> LastOffline(s, n)
  <2>1. About(c, n) = About(s, n)
    BY <1>2, <1>6, <1>8, <1>10, <1>12
  <2>2. QED
    BY <2>1, <1>8 DEF LastOffline
<1>13. QED
  BY <1>9, <1>11, <1>12 DEF c
\* The last event of a node in a suffix, if it has one there, is its last in the whole.
LEMMA AboutSuffix ==
  ASSUME NEW S, NEW s \in Seq(S), NEW k \in Seq(S), NEW x \in Nat, x <= Len(s),
         Len(k) = Len(s) - x, \A i \in 1..(Len(s) - x) : k[i] = s[x + i], NEW n
  PROVE  /\ About(k, n) # {} => About(s, n) # {} /\ (LastOffline(k, n) <=> LastOffline(s, n))
<1>1. /\ Len(s) \in Nat /\ DOMAIN s = 1..Len(s) /\ Len(s) - x \in Nat
      /\ DOMAIN k = 1..(Len(s) - x)
  BY LenProperties
<1>2. \A i \in About(k, n) :
        /\ i \in 1..(Len(s) - x)
        /\ x + i \in About(s, n) /\ s[x + i] = k[i]
  <2> SUFFICES ASSUME NEW i \in About(k, n)
               PROVE  /\ i \in 1..(Len(s) - x)
                      /\ x + i \in About(s, n) /\ s[x + i] = k[i]
    OBVIOUS
  <2>1. i \in 1..(Len(s) - x) /\ k[i].node = n
    BY <1>1 DEF About
  <2>2. x + i \in 1..Len(s) /\ s[x + i] = k[i]
    BY <1>1, <2>1
  <2>3. QED
    BY <1>1, <2>1, <2>2 DEF About
<1>3. \A j \in About(s, n) :
        /\ j \in 1..Len(s)
        /\ j > x => j - x \in About(k, n) /\ k[j - x] = s[j]
  <2> SUFFICES ASSUME NEW j \in About(s, n)
               PROVE  /\ j \in 1..Len(s)
                      /\ j > x => j - x \in About(k, n) /\ k[j - x] = s[j]
    OBVIOUS
  <2>1. j \in 1..Len(s) /\ s[j].node = n
    BY <1>1 DEF About
  <2>2. ASSUME j > x PROVE j - x \in 1..(Len(s) - x) /\ x + (j - x) = j
    BY <1>1, <2>1, <2>2
  <2>3. ASSUME j > x PROVE j - x \in About(k, n) /\ k[j - x] = s[j]
    <3>1. k[j - x] = s[j] /\ j - x \in DOMAIN k
      BY <1>1, <2>2, <2>3
    <3>2. QED
      BY <2>1, <3>1 DEF About
  <2>4. QED
    BY <2>1, <2>3
<1>4. SUFFICES ASSUME About(k, n) # {}
               PROVE  About(s, n) # {} /\ (LastOffline(k, n) <=> LastOffline(s, n))
  OBVIOUS
<1>5. PICK l \in About(k, n) : TRUE
  BY <1>4
<1>6. ASSUME LastOffline(k, n) PROVE LastOffline(s, n)
  <2>1. PICK i \in About(k, n) : k[i].offline /\ \A j \in About(k, n) : j <= i
    BY <1>6 DEF LastOffline
  <2>2. x + i \in About(s, n) /\ s[x + i].offline
    BY <1>2, <2>1
  <2>3. ASSUME NEW j \in About(s, n) PROVE j <= x + i
    <3>1. j \in Nat /\ i \in Nat
      BY <1>1, <1>2, <1>3
    <3>2. CASE j > x
      <4>1. j - x <= i
        BY <1>3, <2>1, <3>2
      <4>2. QED
        BY <3>1, <4>1
    <3>3. QED
      BY <3>1, <3>2
  <2>4. QED
    BY <2>2, <2>3 DEF LastOffline
<1>7. ASSUME LastOffline(s, n) PROVE LastOffline(k, n)
  <2>1. PICK i \in About(s, n) : s[i].offline /\ \A j \in About(s, n) : j <= i
    BY <1>7 DEF LastOffline
  <2>2. x + l <= i /\ l \in 1..(Len(s) - x) /\ i \in 1..Len(s)
    BY <1>2, <1>3, <1>5, <2>1
  <2>3. i > x
    BY <1>1, <2>2
  <2>4. i - x \in About(k, n) /\ k[i - x].offline
    BY <1>3, <2>1, <2>3
  <2>5. ASSUME NEW j \in About(k, n) PROVE j <= i - x
    <3>1. x + j <= i /\ j \in 1..(Len(s) - x)
      BY <1>2, <2>1
    <3>2. QED
      BY <1>1, <2>2, <3>1
  <2>6. QED
    BY <2>4, <2>5 DEF LastOffline
<1>8. QED
  BY <1>2, <1>5, <1>6, <1>7

\* Concerned names the nodes that have an event.
LEMMA ConcernedAbout ==
  ASSUME NEW s, NEW n \in Nodes
  PROVE  n \in Concerned(s) <=> About(s, n) # {}
<1>1. \A i : i \in About(s, n) <=> i \in DOMAIN s /\ s[i].node = n
  BY DEF About
<1>2. QED
  BY <1>1 DEF Concerned

\* What the scanner emits: one event for each node whose state is not the cached one, if
\* that is listed.
LEMMA NewsAbout ==
  ASSUME WatchInv, NEW n \in Nodes
  PROVE  /\ About(News, n) # {} <=> \/ "node.offline" \in listed /\ n \in Offline \ cache
                                    \/ "node.online" \in listed /\ n \in cache \ Offline
         /\ About(News, n) # {} => (LastOffline(News, n) <=> n \in Offline)
<1> DEFINE offs == Listed("node.offline", Offline \ cache)
           ons == Listed("node.online", Recovered)
           off == EventsOf(offs, TRUE)
           on == EventsOf(ons, FALSE)
<1>1. /\ offs \subseteq Nodes /\ ons \subseteq Nodes
      /\ n \in offs <=> "node.offline" \in listed /\ n \in Offline \ cache
      /\ n \in ons <=> "node.online" \in listed /\ n \in cache \ Offline
  BY DEF Listed, Offline, Recovered, WatchInv, WatchTypeOK
<1>2. News = off \o on
  BY DEF News
<1> HIDE DEF offs, ons
<1>3. IsFiniteSet(offs) /\ IsFiniteSet(ons)
  BY <1>1, WatchAssumption, FS_Subset
<1>4. /\ off \in Seq(Items)
      /\ About(off, n) # {} <=> n \in offs
      /\ About(off, n) # {} => LastOffline(off, n)
  BY <1>1, <1>3, EventsOfSet
<1>5. /\ on \in Seq(Items)
      /\ About(on, n) # {} <=> n \in ons
      /\ About(on, n) # {} => ~LastOffline(on, n)
  BY <1>1, <1>3, EventsOfSet
<1> HIDE DEF off, on
<1>6. /\ About(News, n) = {} <=> About(off, n) = {} /\ About(on, n) = {}
      /\ About(on, n) # {} => (LastOffline(News, n) <=> LastOffline(on, n))
      /\ About(on, n) = {} => (LastOffline(News, n) <=> LastOffline(off, n))
  BY <1>2, <1>4, <1>5, AboutConcat
<1>7. About(News, n) # {} <=> n \in offs \/ n \in ons
  BY <1>4, <1>5, <1>6
<1>8. ASSUME About(News, n) # {} PROVE LastOffline(News, n) <=> n \in Offline
  <2>1. CASE n \in ons
    BY <1>1, <1>5, <1>6, <2>1
  <2>2. CASE n \notin ons
    BY <1>1, <1>4, <1>5, <1>6, <1>7, <1>8, <2>2
  <2>3. QED
    BY <2>1, <2>2
<1>9. QED
  BY <1>1, <1>7, <1>8

--------------------------------------------------------------------------------
(* CacheIsTold: the cache is what was announced, of every node that is not     *)
(* stale, as far as the events are listed.                                     *)

\* What CacheIsTold needs to be inductive: the first tick of a process finds no cache
\* yet, and a stopped emitter has nothing pending.
CacheInv ==
    /\ CacheIsTold
    /\ firstTick => cache = {}
    /\ phase = "down" => queue = <<>> /\ flight = <<>>

\* Nothing is pending, told or cached.
LEMMA InitCacheInv == WatchInit => CacheInv
<1> SUFFICES ASSUME WatchInit PROVE CacheInv
  OBVIOUS
<1>1. queue = <<>> /\ flight = <<>> /\ told = {} /\ cache = {}
  BY DEF WatchInit, WebhookInit
<1>2. \A n \in Nodes : About(Pending, n) = {}
  BY <1>1 DEF About, Pending
<1>3. QED
  BY <1>1, <1>2 DEF CacheInv, CacheIsTold, Announced

\* The last event of a node is queued, or else in the worker's hands.
LEMMA AnnouncedSplits ==
  ASSUME WatchInv, NEW n \in Nodes
  PROVE  Announced(n) <=> IF About(queue, n) # {} THEN LastOffline(queue, n)
                          ELSE IF About(flight, n) # {} THEN LastOffline(flight, n)
                          ELSE n \in told
<1>1. queue \in Seq(Event) /\ flight \in Seq(Event)
  BY DEF WatchInv, WatchTypeOK, WebhookTypeOK
<1>2. QED
  BY <1>1, AboutConcat DEF Announced, Pending

\* The worker holds one event at most: what it tells of a node is its last event.
LEMMA FlightTells ==
  ASSUME WatchInv, flight # <<>>, NEW n \in Nodes
  PROVE  /\ About(flight, n) # {} <=> flight[1].node = n
         /\ flight[1].node = n => (LastOffline(flight, n) <=> flight[1].offline)
<1>1. flight \in Seq(Event) /\ Len(flight) <= 1 /\ Len(flight) \in Nat
  BY DEF WatchInv, WatchTypeOK, WebhookTypeOK
<1>2. Len(flight) = 1
  <2> DEFINE l == Len(flight)
  <2>1. l \in Nat /\ l # 0 /\ l <= 1
    BY <1>1, EmptySeq
  <2> HIDE DEF l
  <2>2. l = 1
    BY <2>1
  <2>3. QED
    BY <2>2 DEF l
<1>3. DOMAIN flight = {1}
  BY <1>1, <1>2
<1>4. \A i : i \in About(flight, n) <=> i = 1 /\ flight[1].node = n
  BY <1>3 DEF About
<1>5. QED
  BY <1>4 DEF LastOffline

\* emit puts the last word on the nodes its events are about, and on no other.
LEMMA EnqueueTells ==
  ASSUME WatchInv, WatchInv', NEW news \in Seq(Items), Enqueue(news),
         UNCHANGED <<flight, told>>, NEW n \in Nodes, n \notin stale'
  PROVE  /\ About(news, n) # {} => (Announced(n)' <=> LastOffline(news, n))
         /\ About(news, n) = {} => (Announced(n)' <=> Announced(n)) /\ n \notin stale
<1> DEFINE fresh == Numbered(news)
           all == queue \o fresh
           x == Excess(all)
<1>1. /\ queue \in Seq(Event) /\ emitted \in Nat
      /\ queue' \in Seq(Event) /\ flight' = flight /\ told' = told
  BY DEF WatchInv, WatchTypeOK, WebhookTypeOK
<1>2. /\ fresh \in Seq(Event)
      /\ DOMAIN fresh = DOMAIN news /\ DOMAIN news \subseteq Nat
      /\ \A i \in DOMAIN news : fresh[i].node = news[i].node /\ fresh[i].offline = news[i].offline
  <2>1. Len(news) \in Nat /\ DOMAIN news = 1..Len(news)
        /\ \A i \in 1..Len(news) : news[i] \in Items
    OBVIOUS
  <2>2. fresh = [i \in 1..Len(news) |-> [node |-> news[i].node, offline |-> news[i].offline,
                                         no |-> emitted + i]]
    BY <2>1 DEF Numbered
  <2>3. \A i \in 1..Len(news) :
          [node |-> news[i].node, offline |-> news[i].offline, no |-> emitted + i] \in Event
    BY <2>1, <1>1 DEF Items, Event
  <2> HIDE DEF fresh
  <2>4. QED
    BY <2>1, <2>2, <2>3
<1> HIDE DEF fresh
<1>3. About(fresh, n) = About(news, n) /\ (LastOffline(fresh, n) <=> LastOffline(news, n))
  <2>1. About(fresh, n) = About(news, n)
    BY <1>2 DEF About
  <2>2. \A i \in About(news, n) : i \in DOMAIN news
    BY DEF About
  <2>3. QED
    BY <1>2, <2>1, <2>2 DEF LastOffline
<1>4. /\ all \in Seq(Event)
      /\ About(all, n) = {} <=> About(queue, n) = {} /\ About(fresh, n) = {}
      /\ About(fresh, n) # {} => (LastOffline(all, n) <=> LastOffline(fresh, n))
      /\ About(fresh, n) = {} => (LastOffline(all, n) <=> LastOffline(queue, n))
  BY <1>1, <1>2, ConcatProperties, AboutConcat
<1>5. /\ queue' = SubSeq(all, x + 1, Len(all))
      /\ stale' = (stale \cup (Concerned(all) \ Concerned(queue')))
                      \ (Concerned(news) \cap Concerned(queue'))
  BY DEF Enqueue, fresh
<1> HIDE DEF all
<1>6. x \in Nat /\ x <= Len(all) /\ Len(all) \in Nat
  <2>1. Len(all) \in Nat
    BY <1>4
  <2>2. QED
    BY <2>1, WebhookAssumption DEF Excess
<1> HIDE DEF x
<1>7. Len(queue') = Len(all) - x /\ \A i \in 1..(Len(all) - x) : queue'[i] = all[x + i]
  BY <1>4, <1>5, <1>6, SuffixProperties
<1>8. About(queue', n) # {} => About(all, n) # {} /\ (LastOffline(queue', n) <=> LastOffline(all, n))
  BY <1>1, <1>4, <1>6, <1>7, AboutSuffix
<1>9. /\ n \in Concerned(all) <=> About(all, n) # {}
      /\ n \in Concerned(queue') <=> About(queue', n) # {}
      /\ n \in Concerned(news) <=> About(news, n) # {}
  BY ConcernedAbout
<1>10. Announced(n)' <=> IF About(queue', n) # {} THEN LastOffline(queue', n)
                         ELSE IF About(flight, n) # {} THEN LastOffline(flight, n)
                         ELSE n \in told
  <2>1. flight \in Seq(Event)
    BY DEF WatchInv, WatchTypeOK, WebhookTypeOK
  <2>2. Announced(n)' <=> IF About(flight \o queue', n) = {} THEN n \in told
                          ELSE LastOffline(flight \o queue', n)
    BY <1>1 DEF Announced, Pending
  <2>3. /\ About(flight \o queue', n) = {} <=> About(flight, n) = {} /\ About(queue', n) = {}
        /\ About(queue', n) # {} => (LastOffline(flight \o queue', n) <=> LastOffline(queue', n))
        /\ About(queue', n) = {} => (LastOffline(flight \o queue', n) <=> LastOffline(flight, n))
    BY <1>1, <2>1, AboutConcat
  <2>4. QED
    BY <2>2, <2>3
<1>11. CASE About(queue', n) # {}
  BY <1>3, <1>4, <1>5, <1>8, <1>9, <1>10, <1>11, AnnouncedSplits
<1>12. CASE About(queue', n) = {}
  <2>1. n \notin stale /\ About(all, n) = {}
    BY <1>5, <1>9, <1>12
  <2>2. QED
    BY <1>3, <1>4, <1>10, <1>12, <2>1, AnnouncedSplits
<1>13. QED
  BY <1>11, <1>12

\* What CacheIsTold says of one node.
Agrees(n) ==
    /\ "node.offline" \in listed /\ n \in cache => Announced(n)
    /\ "node.online" \in listed /\ Announced(n) => n \in cache

\* A step after which the same is pending, told, cached and stale as before.
SameTold == UNCHANGED <<listed, queue, flight, told, cache, stale>>

LEMMA SameToldKeeps ==
  ASSUME CacheInv, SameTold, phase' # "down" \/ phase' = phase, firstTick' = firstTick
  PROVE  CacheInv'
BY DEF CacheInv, SameTold, CacheIsTold, Announced, Pending

\* The worker takes the oldest event: it stays ahead of the others.
LEMMA TakeTells ==
  ASSUME WatchInv, CacheInv, Take, UNCHANGED <<nodeVars, scanVars, steps>>
  PROVE  CacheInv'
<1>1. /\ queue \in Seq(Event) /\ queue # <<>> /\ flight = <<>>
      /\ flight' = <<Head(queue)>> /\ queue' = Tail(queue) /\ phase # "down"
      /\ UNCHANGED <<listed, phase, told, stale, cache, firstTick>>
  BY DEF Take, Working, WatchInv, WatchTypeOK, WebhookTypeOK, receiverVars, scanVars
<1>2. <<Head(queue)>> \o Tail(queue) = queue
  BY <1>1
<1>3. Pending = queue /\ Pending' = queue
  BY <1>1, <1>2, ConcatEmptySeq DEF Pending
<1>4. QED
  BY <1>1, <1>3 DEF CacheInv, CacheIsTold, Announced

\* A post that reaches the receiver tells it what was announced; one that is given up
\* makes the node stale, unless a later event of it is queued.
LEMMA WorkerTells ==
  ASSUME WatchInv, WatchInv', CacheInv, Delivered \/ Attempt,
         UNCHANGED <<nodeVars, scanVars, steps>>
  PROVE  CacheInv'
<1>1. /\ phase' = phase /\ queue' = queue /\ phase # "down" /\ flight # <<>>
      /\ UNCHANGED <<listed, cache, firstTick>>
      /\ stale \subseteq stale'
      /\ told' = told \/ told' = Told(flight[1])
      /\ queue \in Seq(Event) /\ flight \in Seq(Event) /\ flight' \in Seq(Event)
  BY DEF Delivered, Attempt, Reaches, Done, Retried, GivenUp, Working, receiverVars, scanVars,
         WatchInv, WatchTypeOK, WebhookTypeOK
<1>2. SUFFICES ASSUME NEW n \in Nodes, n \notin stale' PROVE Announced(n)' <=> Announced(n)
  BY <1>1 DEF CacheInv, CacheIsTold
<1>3. Announced(n)' <=> IF About(queue, n) # {} THEN LastOffline(queue, n)
                        ELSE IF About(flight', n) # {} THEN LastOffline(flight', n)
                        ELSE n \in told'
  <2>1. About(flight' \o queue, n) = {} <=> About(flight', n) = {} /\ About(queue, n) = {}
    BY <1>1, AboutConcat
  <2>2. QED
    BY <1>1, <2>1, AboutConcat DEF Announced, Pending
<1>4. CASE About(queue, n) # {}
  BY <1>3, <1>4, AnnouncedSplits
<1>5. CASE About(queue, n) = {} /\ flight' = flight
  <2>1. CASE About(flight, n) # {}
    BY <1>3, <1>5, <2>1, AnnouncedSplits
  <2>2. CASE About(flight, n) = {}
    <3>1. n \in told' <=> n \in told
      BY <1>1, <2>2, FlightTells DEF Told
    <3>2. QED
      BY <1>3, <1>5, <2>2, <3>1, AnnouncedSplits
  <2>3. QED
    BY <2>1, <2>2
<1>6. CASE About(queue, n) = {} /\ flight' = <<>>
  <2>1. About(flight', n) = {}
    BY <1>6 DEF About
  <2>2. CASE flight[1].node # n
    <3>1. n \in told' <=> n \in told
      BY <1>1, <2>2 DEF Told
    <3>2. QED
      BY <1>1, <1>3, <1>6, <2>1, <2>2, <3>1, AnnouncedSplits, FlightTells
  <2>3. CASE flight[1].node = n
    <3>1. ~GivenUp
      <4>1. n \in Concerned(flight) /\ n \notin Concerned(queue)
        BY <1>1, <1>6, <2>3, FlightTells, ConcernedAbout
      <4>2. QED
        BY <1>2, <4>1 DEF GivenUp
    <3>2. ~Retried
      BY <1>1, <1>6 DEF Retried
    <3>3. Delivered
      BY <3>1, <3>2 DEF Attempt
    <3>4. n \in told' <=> flight[1].offline
      BY <2>3, <3>3 DEF Delivered, Reaches, Told
    <3>5. QED
      BY <1>1, <1>3, <1>6, <2>1, <2>3, <3>4, AnnouncedSplits, FlightTells
  <2>4. QED
    BY <2>2, <2>3
<1>7. flight' = flight \/ flight' = <<>>
  BY DEF Delivered, Attempt, Done, Retried, GivenUp
<1>8. QED
  BY <1>4, <1>5, <1>6, <1>7

\* Whatever is dropped makes its nodes stale.
LEMMA DroppedTells ==
  ASSUME WatchInv, CacheInv, Dropped, UNCHANGED <<nodeVars, scanVars>>
  PROVE  CacheInv'
<1>1. /\ queue' = <<>> /\ flight' = <<>> /\ stale' = stale \cup Concerned(Pending)
      /\ UNCHANGED <<listed, told, cache, firstTick>>
  BY DEF Dropped, Pending, receiverVars, scanVars
<1>2. ASSUME NEW n \in Nodes, n \notin stale' PROVE Agrees(n)'
  <2>1. n \notin stale /\ About(Pending, n) = {}
    BY <1>1, <1>2, ConcernedAbout
  <2>2. About(Pending, n)' = {}
    BY <1>1 DEF About, Pending
  <2>3. Announced(n)' <=> Announced(n)
    BY <1>1, <2>1, <2>2 DEF Announced
  <2>4. QED
    BY <1>1, <2>1, <2>3 DEF CacheInv, CacheIsTold, Agrees
<1>3. QED
  BY <1>1, <1>2 DEF CacheInv, CacheIsTold, Agrees

\* A tick announces the difference to the cache, the first one nothing.
LEMMA TickTells ==
  ASSUME WatchInv, WatchInv', CacheInv, Tick
  PROVE  CacheInv'
<1>1. /\ phase = "up" /\ cache' = Offline /\ firstTick' = FALSE
      /\ UNCHANGED <<listed, phase, flight, told>>
  BY DEF Tick, receiverVars
<1>2. SUFFICES ASSUME NEW n \in Nodes, n \notin stale'
               PROVE  /\ "node.offline" \in listed /\ n \in Offline => Announced(n)'
                      /\ "node.online" \in listed /\ Announced(n)' => n \in Offline
  BY <1>1 DEF CacheInv, CacheIsTold
<1>3. CASE Enqueue(News)
  <2>1. Enqueue(News) /\ News \in Seq(Items)
    BY <1>3, NewsTyped
  <2>2. /\ About(News, n) # {} => (Announced(n)' <=> LastOffline(News, n))
        /\ About(News, n) = {} => (Announced(n)' <=> Announced(n)) /\ n \notin stale
    BY <1>1, <1>2, <2>1, EnqueueTells
  <2>3. CASE About(News, n) # {}
    BY <2>2, <2>3, NewsAbout
  <2>4. CASE About(News, n) = {}
    <3>1. (Announced(n)' <=> Announced(n)) /\ n \notin stale
      BY <2>2, <2>4
    <3>2. Agrees(n)
      BY <3>1 DEF CacheInv, CacheIsTold, Agrees
    <3>3. /\ "node.offline" \in listed /\ n \in Offline => n \in cache
          /\ "node.online" \in listed /\ n \in cache => n \in Offline
      <4>1. ~(\/ "node.offline" \in listed /\ n \in Offline \ cache
              \/ "node.online" \in listed /\ n \in cache \ Offline)
        BY <2>4, NewsAbout, Zenon
      <4>2. QED
        BY <4>1
    <3>4. QED
      BY <3>1, <3>2, <3>3 DEF Agrees
  <2>5. QED
    BY <2>3, <2>4
<1>4. CASE /\ firstTick /\ stale' = stale \cup Listed("node.offline", Offline)
           /\ UNCHANGED <<queue, unfinished, emitted>>
  <2>1. n \notin stale /\ n \notin cache /\ ("node.offline" \in listed => n \notin Offline)
    BY <1>2, <1>4 DEF CacheInv, Listed
  <2>2. Announced(n)' <=> Announced(n)
    BY <1>1, <1>4 DEF Announced, Pending
  <2>3. QED
    BY <2>1, <2>2 DEF CacheInv, CacheIsTold
<1>5. QED
  BY <1>3, <1>4 DEF Tick

\* An event of another handler pushes news out, but tells nothing of a node itself.
LEMMA EmitOtherTells ==
  ASSUME WatchInv, WatchInv', CacheInv, EmitOther
  PROVE  CacheInv'
<1> DEFINE news == <<[node |-> NoNode, offline |-> FALSE]>>
<1>1. news \in Seq(Items) /\ \A n \in Nodes : About(news, n) = {}
  BY WebhookAssumption DEF Items, About
<1>2. /\ Enqueue(news) /\ phase = "up"
      /\ UNCHANGED <<listed, phase, flight, told, cache, firstTick>>
  BY DEF EmitOther, receiverVars, scanVars
<1> HIDE DEF news
<1>3. ASSUME NEW n \in Nodes, n \notin stale' PROVE Agrees(n)'
  <2>1. (Announced(n)' <=> Announced(n)) /\ n \notin stale
    BY <1>1, <1>2, <1>3, EnqueueTells
  <2>2. QED
    BY <1>2, <2>1 DEF CacheInv, CacheIsTold, Agrees
<1>4. QED
  BY <1>2, <1>3 DEF CacheInv, CacheIsTold, Agrees

\* A new process has no cache, and what was told before is stale.
LEMMA StartTells == ASSUME WatchInv, CacheInv, Start PROVE CacheInv'
<1>1. /\ queue' = <<>> /\ flight' = <<>> /\ told' = told /\ stale' = stale \cup told
      /\ cache' = {} /\ phase' = "up"
  BY DEF Start, CacheInv, queueVars, receiverVars
<1>2. \A n \in Nodes : About(Pending, n)' = {}
  BY <1>1 DEF About, Pending
<1>3. QED
  BY <1>1, <1>2 DEF CacheInv, CacheIsTold, Announced

\* Every step of the scanner, the emitter and the nodes keeps what was announced and
\* the cache together.
LEMMA StepCacheInv == WatchInv /\ WatchInv' /\ CacheInv /\ [Next]_watchVars => CacheInv'
<1> SUFFICES ASSUME WatchInv, WatchInv', CacheInv, [Next]_watchVars PROVE CacheInv'
  OBVIOUS
<1>1. CASE Take /\ UNCHANGED <<nodeVars, scanVars, steps>>
  BY <1>1, TakeTells
<1>2. CASE (Delivered \/ Attempt) /\ UNCHANGED <<nodeVars, scanVars, steps>>
  BY <1>2, WorkerTells
<1>3. CASE \/ (Drained \/ GraceTimesOut) /\ UNCHANGED <<nodeVars, scanVars, steps>>
           \/ Outside /\ Crash /\ UNCHANGED <<nodeVars, scanVars>>
  BY <1>3, DroppedTells DEF Drained, GraceTimesOut, Crash
<1>4. CASE Tick
  BY <1>4, TickTells
<1>5. CASE EmitOther
  BY <1>5, EmitOtherTells
<1>6. CASE Start
  BY <1>6, StartTells
<1>7. CASE \/ \E n \in Nodes : SetEnabled(n) \/ Heartbeat(n) \/ FallsSilent(n)
           \/ DrainTimesOut /\ UNCHANGED <<nodeVars, scanVars, steps>>
           \/ Outside /\ Close /\ UNCHANGED <<nodeVars, scanVars>>
           \/ UNCHANGED watchVars
  <2>1. SameTold /\ (phase' # "down" \/ phase' = phase) /\ firstTick' = firstTick
    BY <1>7 DEF SameTold, SetEnabled, Heartbeat, FallsSilent, DrainTimesOut, Close, watchVars,
                hookVars, queueVars, receiverVars, nodeVars, scanVars
  <2>2. QED
    BY <2>1, SameToldKeeps
<1>8. QED
  BY <1>1, <1>2, <1>3, <1>4, <1>5, <1>6, <1>7 DEF Next, Worker, Shutdown, Stop

--------------------------------------------------------------------------------
\* The queue never exceeds its capacity and the worker never makes more attempts than
\* there are delays for, whatever is emitted, retried or shut down.
THEOREM WatchTypeCorrect == Spec => []WatchTypeOK
<1>1. WatchInv => WatchTypeOK
  BY DEF WatchInv
<1>2. QED
  BY <1>1, InitWatchInv, StepWatchInv, PTL DEF Spec

\* The receiver sees the events in the order of emit, for any capacity, and although the
\* queue drops its oldest event to take a new one.
THEOREM EmissionOrderHolds == Spec => []EmissionOrder
<1>1. QED
  BY OrderFollows, InitWatchInv, StepWatchInv, PTL DEF Spec

\* Every task_done of emit, which drops events, and of the worker matches one put:
\* join counts what is queued or in the worker's hands.
THEOREM JoinIsExactHolds == Spec => []JoinIsExact
<1>1. WatchInv => JoinIsExact
  BY DEF WatchInv
<1>2. QED
  BY <1>1, InitWatchInv, StepWatchInv, PTL DEF Spec

\* When join returns, aclose cancels a worker that has nothing left to do.
THEOREM ClosedIsDeliveredHolds == Spec => ClosedIsDelivered
<1>1. WatchInv /\ [Next]_watchVars => [Drained => stale' = stale]_hookVars
  <2> SUFFICES ASSUME WatchInv, Drained PROVE stale' = stale
    OBVIOUS
  <2> DEFINE q == Len(queue)
             f == Len(flight)
  <2>1. /\ queue \in Seq(Event) /\ flight \in Seq(Event)
        /\ unfinished = q + f /\ unfinished = 0
    BY DEF Drained, Joined, WatchInv, WatchTypeOK, WebhookTypeOK, JoinIsExact
  <2>2. q \in Nat /\ f \in Nat
    BY <2>1
  <2>3. q = 0 /\ f = 0
    <3> HIDE DEF q, f
    <3> QED
      BY <2>1, <2>2
  <2>4. queue = <<>> /\ flight = <<>>
    BY <2>1, <2>3, EmptySeq
  <2>5. Concerned(flight \o queue) = {}
    BY <2>4 DEF Concerned
  <2>6. QED
    BY <2>5 DEF Drained, Dropped
<1>2. QED
  BY <1>1, InitWatchInv, StepWatchInv, PTL DEF Spec, ClosedIsDelivered

\* Of every node whose news was not lost, the scanner's cache is what was announced, or is
\* about to be, as far as webhook_events lists the events: _refresh_status_gauges compares
\* with the right state, although it emits into a queue that drops events and a worker
\* that gives them up.
THEOREM CacheIsToldHolds == Spec => []CacheIsTold
<1>1. CacheInv => CacheIsTold
  BY DEF CacheInv
<1>2. QED
  BY <1>1, InitWatchInv, StepWatchInv, InitCacheInv, StepCacheInv, PTL DEF Spec

================================================================================
