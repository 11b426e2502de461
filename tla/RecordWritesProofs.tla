-------------------------- MODULE RecordWritesProofs -------------------------
(***************************************************************************)
(* Proofs about ChangeFeed and RecordWrites, for any keys, listener        *)
(* threads, requests and number of changes: their types, and that the      *)
(* document of a key agrees with its row, for the feed alone unless a      *)
(* change of the key is on its way or lost, and beside requests once its   *)
(* writers are done, unless they met or one died.                          *)
(*                                                                         *)
(* Accounted is not inductive: that a write makes the document agree       *)
(* depends on what the thread read, and on nothing newer being queued for  *)
(* it.  So the invariant says of every thread that the last notification   *)
(* it holds for a key tells what has become of the row (QueueRight), that  *)
(* what it is about to write is right unless a newer notification waits    *)
(* behind it (WriteRight), and that a thread that does not listen holds    *)
(* nothing (OffQuiet).                                                     *)
(*                                                                         *)
(* Of the requests it says that two of one key are known as contended      *)
(* (Alone), that a request carries the row's version while it has the key  *)
(* for itself (RowKnown), and that only a removal leaves a key unsettled   *)
(* (WritesSettled).  A write can repair a key that drifted; nothing of it  *)
(* is then on its way that could undo that (DriftedQuiet, NoDocNoBody).    *)
(***************************************************************************)
EXTENDS RecordWrites, SequenceTheorems, TLAPS

(* Notification i is the last one of its key in s. *)
LastOfKey(s, i) == \A j \in 1..Len(s) : j > i => s[j].key # s[i].key

QueueRight ==
  \A l \in Threads : \A i \in 1..Len(feed[l]) :
    LastOfKey(feed[l], i) /\ feed[l][i].key \notin drifted =>
      (feed[l][i].op = "DELETE" <=> remote[feed[l][i].key] = 0)

Writes(b) == IF b.op = "DELETE" THEN 0 ELSE b.row

WriteRight ==
  \A l \in Threads : busy[l] # Idle =>
    \/ Queued(l, busy[l].key)
    \/ busy[l].key \in drifted
    \/ /\ Writes(busy[l]) = remote[busy[l].key]
       /\ busy[l].op = "DELETE" <=> remote[busy[l].key] = 0

OffQuiet == \A l \in Threads \ on : feed[l] = <<>> /\ busy[l] = Idle

(* What holds of the threads, whoever else writes documents                *)
Held == QueueRight /\ WriteRight /\ OffQuiet
FeedInv == FeedTypeOK /\ Held

(* Accounted, key by key; no step of the feed makes it false of one.       *)
Settled(k) == Agree(k) \/ Pending(k) \/ k \in drifted
KeepsSettled == \A k \in Keys : Settled(k) => Settled(k)'

Inv == Held /\ Accounted
IInv == FeedTypeOK /\ Inv

-----------------------------------------------------------------------------
(* Queues. *)

(* What a notification sent does to the queue of a session.                *)
LEMMA Appended ==
  ASSUME NEW s \in Seq(Notification), NEW n \in Notification
  PROVE  /\ Append(s, n) \in Seq(Notification)
         /\ Len(Append(s, n)) = Len(s) + 1 /\ Len(s) \in Nat
         /\ \A i \in 1..Len(s) : Append(s, n)[i] = s[i]
         /\ Append(s, n)[Len(s) + 1] = n
  OBVIOUS

(* What taking the first notification does to it.                          *)
LEMMA Taken ==
  ASSUME NEW s \in Seq(Notification), s # <<>>
  PROVE  /\ Head(s) \in Notification /\ Head(s) = s[1]
         /\ Tail(s) \in Seq(Notification)
         /\ Len(Tail(s)) = Len(s) - 1 /\ Len(s) \in Nat \ {0}
         /\ \A i \in 1..Len(Tail(s)) : Tail(s)[i] = s[i + 1]
  BY HeadTailProperties, EmptySeq

(* Sending a notification keeps the queues well typed.                     *)
LEMMA NotifyType ==
  ASSUME FeedTypeOK, NEW op \in Op, NEW k \in Keys, Notify(op, k)
  PROVE  feed' \in [Threads -> Seq(Notification)]
  <1> DEFINE n == [op |-> op, key |-> k]
  <1>1. n \in Notification
    BY DEF Notification
  <1> HIDE DEF n
  <1>2. \A l \in Threads : Append(feed[l], n) \in Seq(Notification)
    BY <1>1, Appended DEF FeedTypeOK
  <1>3. feed' = [l \in Threads |-> IF l \in on THEN Append(feed[l], n) ELSE feed[l]]
    BY DEF Notify, n
  <1>4. QED
    BY <1>2, <1>3 DEF FeedTypeOK

-----------------------------------------------------------------------------
(* Types. *)

(* A change of the remote table keeps the types.                           *)
LEMMA TypeRemote == FeedTypeOK /\ RemoteChange => FeedTypeOK'
  <1> SUFFICES ASSUME FeedTypeOK, RemoteChange PROVE FeedTypeOK'
    OBVIOUS
  <1>1. /\ docs' = docs /\ body' = body /\ on' = on /\ busy' = busy
    BY DEF RemoteChange, docVars
  <1>2. ASSUME NEW op \in Op, NEW k \in Keys, Put(op, k)
        PROVE  FeedTypeOK'
    <2>1. clock' \in Version /\ remote' \in [Keys -> Version] /\ drifted' \in SUBSET Keys
      BY <1>2, FeedAssumption DEF Put, FeedTypeOK, Version, Heard
    <2>2. QED
      BY <1>1, <1>2, <2>1, NotifyType DEF Put, FeedTypeOK
  <1>3. ASSUME NEW k \in Keys, Delete(k)
        PROVE  FeedTypeOK'
    <2>1. clock' \in Version /\ remote' \in [Keys -> Version] /\ drifted' \in SUBSET Keys
      BY <1>3, FeedAssumption DEF Delete, FeedTypeOK, Version, Heard
    <2>2. QED
      BY <1>1, <1>3, <2>1, NotifyType DEF Delete, FeedTypeOK, Op
  <1>4. ASSUME NEW k \in Keys, NEW m \in Keys, Rekey(k, m)
        PROVE  FeedTypeOK'
    <2>1. clock' \in Version /\ remote' \in [Keys -> Version] /\ drifted' \in SUBSET Keys
      BY <1>4, FeedAssumption DEF Rekey, FeedTypeOK, Version, Heard
    <2>2. QED
      BY <1>1, <1>4, <2>1, NotifyType DEF Rekey, FeedTypeOK, Op
  <1>5. QED
    BY <1>2, <1>3, <1>4 DEF RemoteChange, Insert, Update, Op

(* So does a thread that takes a notification or writes its document.      *)
LEMMA TypeHandles ==
  ASSUME FeedTypeOK, NEW l \in Threads, Handles(l)
  PROVE  FeedTypeOK'
  <1>1. CASE ListenerTakes(l)
    <2> DEFINE h == Head(feed[l])
               b == [op |-> h.op, key |-> h.key,
                     row |-> IF h.op = "DELETE" THEN 0 ELSE remote[h.key]]
    <2>1. h \in Notification /\ Tail(feed[l]) \in Seq(Notification)
      BY <1>1, Taken DEF ListenerTakes, FeedTypeOK
    <2>2. h.op \in Op /\ h.key \in Keys /\ 0 \in Version
      BY <2>1, FeedAssumption DEF Notification, Version
    <2>3. b \in Handling
      BY <2>2 DEF Handling, FeedTypeOK
    <2>4. busy' = [busy EXCEPT ![l] = b] /\ feed' = [feed EXCEPT ![l] = Tail(feed[l])]
      BY <1>1 DEF ListenerTakes, FeedTypeOK
    <2> HIDE DEF b
    <2>5. QED
      BY <1>1, <2>1, <2>3, <2>4 DEF ListenerTakes, FeedTypeOK, rowVars, docVars
  <1>2. CASE ListenerWrites(l)
    <2>1. busy[l] \in Handling /\ 0 \in Version
      BY <1>2, FeedAssumption DEF ListenerWrites, FeedTypeOK, Version
    <2>2. busy[l].key \in Keys /\ busy[l].row \in Version
      BY <2>1 DEF Handling
    <2>3. docs' \in SUBSET Keys /\ body' \in [Keys -> Version]
      BY <1>2, <2>1, <2>2 DEF ListenerWrites, Upsert, DeleteDoc, FeedTypeOK
    <2>4. QED
      BY <1>2, <2>3 DEF ListenerWrites, FeedTypeOK, rowVars
  <1>3. QED
    BY <1>1, <1>2 DEF Handles

LEMMA TypeInit == FeedInit => FeedTypeOK
  <1> SUFFICES ASSUME FeedInit PROVE FeedTypeOK
    OBVIOUS
  <1>1. 0 \in Version /\ 1 \in Version
    BY FeedAssumption DEF FeedInit, Version
  <1>2. remote \in [Keys -> Version] /\ body \in [Keys -> Version] /\ clock \in Version
    BY <1>1 DEF FeedInit
  <1>3. <<>> \in Seq(Notification)
    BY EmptySeq
  <1>4. QED
    BY <1>2, <1>3 DEF FeedInit, FeedTypeOK, Live

LEMMA TypeNext == FeedTypeOK /\ [FeedNext]_feedVars => FeedTypeOK'
  <1> SUFFICES ASSUME FeedTypeOK, [FeedNext]_feedVars PROVE FeedTypeOK'
    OBVIOUS
  <1>1. CASE RemoteChange
    BY <1>1, TypeRemote
  <1>2. ASSUME NEW l \in Threads, Handles(l) PROVE FeedTypeOK'
    BY <1>2, TypeHandles
  <1>3. ASSUME NEW l \in Threads, ListenerStops(l) PROVE FeedTypeOK'
    <2>1. <<>> \in Seq(Notification)
      BY EmptySeq
    <2>2. QED
      BY <1>3, <2>1 DEF ListenerStops, FeedTypeOK, rowVars, docVars
  <1>4. ASSUME NEW l \in Threads, ListenerStarts(l) PROVE FeedTypeOK'
    BY <1>4 DEF ListenerStarts, FeedTypeOK, rowVars, docVars
  <1>5. CASE UNCHANGED feedVars
    BY <1>5 DEF feedVars, FeedTypeOK
  <1>6. QED
    BY <1>1, <1>2, <1>3, <1>4, <1>5 DEF FeedNext

(* The types hold in every reachable state.                                *)
THEOREM TypeCorrect == FeedSpec => []FeedTypeOK
  BY TypeInit, TypeNext, PTL DEF FeedSpec

-----------------------------------------------------------------------------
(* The invariant. *)

(* Where the queues stand after a notification: nothing changes for a      *)
(* session that does not listen, the others have it as their last one.     *)
LEMMA Notified ==
  ASSUME FeedInv, NEW op \in Op, NEW k \in Keys, Notify(op, k), NEW l \in Threads
  PROVE  /\ l \notin on => Len(feed'[l]) = 0
         /\ l \in on =>
              /\ Len(feed[l]) \in Nat /\ Len(feed'[l]) = Len(feed[l]) + 1
              /\ \A i \in 1..Len(feed[l]) : feed'[l][i] = feed[l][i]
              /\ feed'[l][Len(feed[l]) + 1].key = k
              /\ feed'[l][Len(feed[l]) + 1].op = op
  <1> DEFINE n == [op |-> op, key |-> k]
  <1>1. n \in Notification /\ n.key = k /\ n.op = op
    BY DEF Notification
  <1>2. feed' = [m \in Threads |-> IF m \in on THEN Append(feed[m], n) ELSE feed[m]]
    BY DEF Notify
  <1> HIDE DEF n
  <1>3. l \notin on => feed'[l] = <<>>
    BY <1>2 DEF FeedInv, Held, OffQuiet
  <1>4. l \in on => feed'[l] = Append(feed[l], n)
    BY <1>2
  <1>5. feed[l] \in Seq(Notification)
    BY DEF FeedInv, FeedTypeOK
  <1>6. QED
    BY <1>1, <1>3, <1>4, <1>5, Appended, EmptySeq

(* A change of the row of k, notified as op; drifted may gain keys, and    *)
(* lose k if somebody listens.                                             *)
LEMMA InvChange ==
  ASSUME FeedInv, FeedTypeOK', NEW op \in Op, NEW k \in Keys, Notify(op, k),
         remote'[k] = 0 <=> op = "DELETE",
         \A m \in Keys \ {k} : m \notin drifted' => m \notin drifted /\ remote'[m] = remote[m],
         k \notin drifted' => on # {},
         docs' = docs, body' = body, on' = on, busy' = busy
  PROVE  Held' /\ KeepsSettled
  <1>1. QueueRight'
    <2> SUFFICES ASSUME NEW l \in Threads, NEW i \in 1..Len(feed'[l]),
                        LastOfKey(feed'[l], i), feed'[l][i].key \notin drifted'
                 PROVE  feed'[l][i].op = "DELETE" <=> remote'[feed'[l][i].key] = 0
      BY DEF QueueRight
    <2>1. l \in on
      BY Notified
    <2>2. CASE i = Len(feed[l]) + 1
      BY <2>1, <2>2, Notified
    <2>3. CASE i # Len(feed[l]) + 1
      <3>1. i \in 1..Len(feed[l]) /\ feed'[l][i] = feed[l][i]
        BY <2>1, <2>3, Notified
      <3>2. feed[l][i].key \in Keys
        <4>1. feed[l] \in Seq(Notification)
          BY DEF FeedInv, FeedTypeOK
        <4>2. feed[l][i] \in Notification
          BY <3>1, <4>1, ElementOfSeq
        <4>3. QED
          BY <4>2 DEF Notification
      <3>3. feed[l][i].key # k
        BY <2>1, <3>1, Notified DEF LastOfKey
      <3>4. LastOfKey(feed[l], i)
        BY <2>1, <3>1, Notified DEF LastOfKey
      <3>5. QED
        BY <3>1, <3>2, <3>3, <3>4 DEF FeedInv, Held, QueueRight
    <2>4. QED
      BY <2>2, <2>3
  <1>2. \A l \in Threads, m \in Keys : Queued(l, m) => Queued(l, m)'
    <2> SUFFICES ASSUME NEW l \in Threads, NEW m \in Keys, Queued(l, m)
                 PROVE  Queued(l, m)'
      OBVIOUS
    <2>1. PICK i \in 1..Len(feed[l]) : feed[l][i].key = m
      BY DEF Queued
    <2>2. l \in on
      BY <2>1, EmptySeq DEF FeedInv, Held, OffQuiet
    <2>3. i \in 1..Len(feed'[l]) /\ feed'[l][i].key = m
      BY <2>1, <2>2, Notified
    <2>4. QED
      BY <2>3 DEF Queued
  <1>3. \A l \in on : Queued(l, k)'
    <2> SUFFICES ASSUME NEW l \in on PROVE Queued(l, k)'
      OBVIOUS
    <2>1. l \in Threads
      BY DEF FeedInv, FeedTypeOK
    <2>2. Len(feed[l]) + 1 \in 1..Len(feed'[l]) /\ feed'[l][Len(feed[l]) + 1].key = k
      BY <2>1, Notified
    <2>3. QED
      BY <2>2 DEF Queued
  <1>4. WriteRight'
    <2> SUFFICES ASSUME NEW l \in Threads, busy[l] # Idle
                 PROVE  \/ Queued(l, busy[l].key)'
                        \/ busy[l].key \in drifted'
                        \/ /\ Writes(busy[l]) = remote'[busy[l].key]
                           /\ busy[l].op = "DELETE" <=> remote'[busy[l].key] = 0
      BY DEF WriteRight, Queued
    <2>1. l \in on /\ busy[l].key \in Keys
      BY DEF FeedInv, Held, OffQuiet, FeedTypeOK, Handling
    <2>2. CASE busy[l].key = k
      BY <2>1, <2>2, <1>3
    <2>3. CASE busy[l].key # k
      BY <2>1, <2>3, <1>2 DEF FeedInv, Held, WriteRight
    <2>4. QED
      BY <2>2, <2>3
  <1>5. OffQuiet'
    <2> SUFFICES ASSUME NEW l \in Threads \ on PROVE feed'[l] = <<>> /\ busy[l] = Idle
      BY DEF OffQuiet
    <2>1. feed'[l] = feed[l]
      BY DEF Notify
    <2>2. QED
      BY <2>1 DEF FeedInv, Held, OffQuiet
  <1>6. KeepsSettled
    <2> SUFFICES ASSUME NEW m \in Keys, Settled(m), m \notin drifted' PROVE Agree(m)' \/ Pending(m)'
      BY DEF KeepsSettled, Settled
    <2>1. CASE m = k
      <3>1. PICK l \in on : Queued(l, k)'
        BY <2>1, <1>3
      <3>2. l \in Threads
        BY DEF FeedInv, FeedTypeOK
      <3>3. QED
        BY <2>1, <3>1, <3>2 DEF Pending, PendingIn
    <2>2. CASE m # k /\ Agree(m)
      <3>1. remote'[m] = remote[m]
        BY <2>2
      <3>2. QED
        BY <2>2, <3>1 DEF Agree, Live
    <2>3. CASE m # k /\ Pending(m)
      BY <2>3, <1>2 DEF Pending, PendingIn
    <2>4. m \notin drifted \/ m = k
      OBVIOUS
    <2>5. QED
      BY <2>1, <2>2, <2>3, <2>4 DEF Settled
  <1>7. QED
    BY <1>1, <1>4, <1>5, <1>6 DEF Held

(* Every change of the remote table keeps the invariant.                   *)
LEMMA InvRemote ==
  ASSUME FeedInv, FeedTypeOK', RemoteChange
  PROVE  Held' /\ KeepsSettled
  <1>1. docs' = docs /\ body' = body /\ on' = on /\ busy' = busy
    BY DEF RemoteChange, docVars
  <1>2. \A op \in Op \ {"DELETE"}, k \in Keys : Put(op, k) => Held' /\ KeepsSettled
    <2> SUFFICES ASSUME NEW op \in Op \ {"DELETE"}, NEW k \in Keys, Put(op, k) PROVE Held' /\ KeepsSettled
      OBVIOUS
    <2>1. clock + 1 # 0 /\ remote' = [remote EXCEPT ![k] = clock + 1] /\ Notify(op, k)
      BY FeedAssumption DEF Put, FeedInv, FeedTypeOK, Version
    <2>2. /\ remote'[k] # 0
          /\ \A m \in Keys \ {k} : remote'[m] = remote[m]
      BY <2>1 DEF FeedInv, FeedTypeOK
    <2>3. /\ \A m \in Keys \ {k} : m \notin drifted' => m \notin drifted
          /\ k \notin drifted' => on # {}
      BY DEF Put, Heard
    <2>4. QED
      BY <1>1, <2>1, <2>2, <2>3, InvChange
  <1>3. \A k \in Keys : Delete(k) => Held' /\ KeepsSettled
    <2> SUFFICES ASSUME NEW k \in Keys, Delete(k) PROVE Held' /\ KeepsSettled
      OBVIOUS
    <2>1. /\ remote'[k] = 0 /\ Notify("DELETE", k)
          /\ \A m \in Keys \ {k} : remote'[m] = remote[m]
      BY DEF Delete, FeedInv, FeedTypeOK
    <2>2. /\ \A m \in Keys \ {k} : m \notin drifted' => m \notin drifted
          /\ k \notin drifted' => on # {}
      BY DEF Delete, Heard
    <2>3. QED
      BY <1>1, <2>1, <2>2, InvChange DEF Op
  <1>4. \A k, m \in Keys : Rekey(k, m) => Held' /\ KeepsSettled
    <2> SUFFICES ASSUME NEW k \in Keys, NEW m \in Keys, Rekey(k, m) PROVE Held' /\ KeepsSettled
      OBVIOUS
    <2>1. clock + 1 # 0 /\ k # m
      BY FeedAssumption DEF Rekey, FeedInv, FeedTypeOK, Version
    <2>2. /\ remote'[m] # 0 /\ Notify("UPDATE", m)
          /\ \A x \in Keys \ {k, m} : remote'[x] = remote[x]
      BY <2>1 DEF Rekey, FeedInv, FeedTypeOK
    <2>3. /\ \A x \in Keys \ {m} : x \notin drifted' => x \notin drifted /\ x # k
          /\ m \notin drifted' => on # {}
      BY DEF Rekey, Heard
    <2>4. \A x \in Keys \ {m} : x \notin drifted' => x \notin drifted /\ remote'[x] = remote[x]
      BY <2>2, <2>3
    <2>5. QED
      BY <1>1, <2>2, <2>3, <2>4, InvChange DEF Op
  <1>5. QED
    BY <1>2, <1>3, <1>4 DEF RemoteChange, Insert, Update, Op

(* A thread that takes a notification: what was queued for a key is queued *)
(* still, or is what the thread has begun to handle.                       *)
LEMMA InvTakes ==
  ASSUME FeedInv, NEW l \in Threads, ListenerTakes(l)
  PROVE  Held' /\ KeepsSettled
  <1>0. PICK h, b : /\ h = Head(feed[l])
                    /\ b = [op |-> h.op, key |-> h.key,
                            row |-> IF h.op = "DELETE" THEN 0 ELSE remote[h.key]]
    OBVIOUS
  <1>1. /\ feed[l] \in Seq(Notification) /\ feed[l] # <<>> /\ busy[l] = Idle
        /\ remote' = remote /\ docs' = docs /\ body' = body /\ on' = on /\ drifted' = drifted
    BY DEF ListenerTakes, FeedInv, FeedTypeOK, rowVars, docVars
  <1>2. /\ h = feed[l][1] /\ h.op \in Op /\ h.key \in Keys
        /\ Len(feed[l]) \in Nat \ {0} /\ Len(Tail(feed[l])) = Len(feed[l]) - 1
        /\ \A i \in 1..Len(Tail(feed[l])) : Tail(feed[l])[i] = feed[l][i + 1]
    <2>1. h \in Notification
      BY <1>0, <1>1, Taken
    <2>2. QED
      BY <1>0, <1>1, <2>1, Taken DEF Notification
  <1>3. /\ b.op = h.op /\ b.key = h.key
        /\ Writes(b) = IF h.op = "DELETE" THEN 0 ELSE remote[h.key]
    BY <1>0 DEF Writes
  <1>4. /\ feed'[l] = Tail(feed[l]) /\ busy'[l] = b
        /\ \A m \in Threads \ {l} : feed'[m] = feed[m] /\ busy'[m] = busy[m]
    BY <1>0 DEF ListenerTakes, FeedInv, FeedTypeOK
  <1>5. b # Idle
    BY <1>2, <1>3 DEF Op, Idle
  <1>6. QueueRight'
    <2> SUFFICES ASSUME NEW m \in Threads, NEW i \in 1..Len(feed'[m]),
                        LastOfKey(feed'[m], i), feed'[m][i].key \notin drifted
                 PROVE  feed'[m][i].op = "DELETE" <=> remote[feed'[m][i].key] = 0
      BY <1>1 DEF QueueRight
    <2>1. CASE m # l
      BY <1>4, <2>1 DEF FeedInv, Held, QueueRight
    <2>2. CASE m = l
      <3>1. i + 1 \in 1..Len(feed[l]) /\ feed'[m][i] = feed[l][i + 1]
        <4>1. i \in 1..Len(Tail(feed[l])) /\ feed'[m][i] = Tail(feed[l])[i]
          BY <1>4, <2>2
        <4>2. QED
          BY <1>2, <4>1
      <3>2. LastOfKey(feed[l], i + 1)
        <4> SUFFICES ASSUME NEW j \in 1..Len(feed[l]), j > i + 1
                     PROVE  feed[l][j].key # feed[l][i + 1].key
          BY DEF LastOfKey
        <4>1. j - 1 \in 1..Len(feed'[l]) /\ j - 1 > i /\ feed'[l][j - 1] = feed[l][j]
          BY <1>2, <1>4
        <4>2. QED
          BY <2>2, <3>1, <4>1 DEF LastOfKey
      <3>3. QED
        BY <3>1, <3>2 DEF FeedInv, Held, QueueRight
    <2>3. QED
      BY <2>1, <2>2
  <1>7. \A k \in Keys : Queued(l, k) => Queued(l, k)' \/ h.key = k
    <2> SUFFICES ASSUME NEW k \in Keys, Queued(l, k), h.key # k PROVE Queued(l, k)'
      OBVIOUS
    <2>1. PICK i \in 1..Len(feed[l]) : feed[l][i].key = k
      BY DEF Queued
    <2>2. i - 1 \in 1..Len(feed'[l]) /\ feed'[l][i - 1] = feed[l][i]
      BY <1>2, <1>4, <2>1
    <2>3. QED
      BY <2>1, <2>2 DEF Queued
  <1>8. WriteRight'
    <2> SUFFICES ASSUME NEW m \in Threads, busy'[m] # Idle
                 PROVE  \/ Queued(m, busy[m].key)'
                        \/ busy'[m].key \in drifted
                        \/ /\ Writes(busy'[m]) = remote[busy'[m].key]
                           /\ busy'[m].op = "DELETE" <=> remote[busy'[m].key] = 0
      BY <1>1 DEF WriteRight, Queued
    <2>1. CASE m # l
      BY <1>4, <2>1 DEF FeedInv, Held, WriteRight, Queued
    <2>2. CASE m = l /\ ~ Queued(l, h.key)' /\ h.key \notin drifted
      <3>1. LastOfKey(feed[l], 1)
        <4> SUFFICES ASSUME NEW j \in 1..Len(feed[l]), j > 1
                     PROVE  feed[l][j].key # feed[l][1].key
          BY DEF LastOfKey
        <4>1. j - 1 \in 1..Len(feed'[l]) /\ feed'[l][j - 1] = feed[l][j]
          BY <1>2, <1>4
        <4>2. QED
          BY <1>2, <2>2, <4>1 DEF Queued
      <3>2. 1 \in 1..Len(feed[l])
        BY <1>2
      <3>3. h.op = "DELETE" <=> remote[h.key] = 0
        BY <1>2, <2>2, <3>1, <3>2 DEF FeedInv, Held, QueueRight
      <3>4. QED
        BY <1>3, <1>4, <2>2, <3>3
    <2>3. CASE m = l /\ (Queued(l, h.key)' \/ h.key \in drifted)
      BY <1>3, <1>4, <2>3 DEF Queued
    <2>4. QED
      BY <2>1, <2>2, <2>3
  <1>9. OffQuiet'
    <2>1. l \in on
      BY <1>1 DEF FeedInv, Held, OffQuiet
    <2>2. QED
      BY <1>1, <1>4, <2>1 DEF FeedInv, Held, OffQuiet
  <1>10. KeepsSettled
    <2> SUFFICES ASSUME NEW k \in Keys, Settled(k), k \notin drifted PROVE Agree(k)' \/ Pending(k)'
      BY <1>1 DEF KeepsSettled, Settled
    <2>1. CASE Agree(k)
      BY <1>1, <2>1 DEF Agree, Live
    <2>2. CASE Pending(k)
      <3>1. PICK m \in Threads : PendingIn(m, k)
        BY <2>2 DEF Pending
      <3>2. PendingIn(m, k)'
        <4>1. CASE m # l
          BY <1>4, <3>1, <4>1 DEF PendingIn, Queued
        <4>2. CASE m = l
          <5>1. Queued(l, k)
            BY <1>1, <3>1, <4>2 DEF PendingIn
          <5>2. Queued(l, k)' \/ b.key = k
            BY <1>3, <1>7, <5>1
          <5>3. QED
            BY <1>4, <1>5, <4>2, <5>2 DEF PendingIn
        <4>3. QED
          BY <4>1, <4>2
      <3>3. QED
        BY <3>2 DEF Pending
    <2>3. QED
      BY <2>1, <2>2 DEF Settled
  <1>11. QED
    BY <1>6, <1>8, <1>9, <1>10 DEF Held

(* A thread that writes a document: it agrees with the row, unless a newer *)
(* notification of the key is queued behind, or one was lost.              *)
LEMMA InvWrites ==
  ASSUME FeedInv, NEW l \in Threads, ListenerWrites(l)
  PROVE  Held' /\ KeepsSettled
  <1> DEFINE b == busy[l]
  <1>1. /\ b # Idle /\ b \in Handling
        /\ remote' = remote /\ on' = on /\ feed' = feed /\ drifted' = drifted
    BY DEF ListenerWrites, FeedInv, FeedTypeOK, rowVars
  <1>2. b.key \in Keys /\ busy'[l] = Idle /\ \A m \in Threads \ {l} : busy'[m] = busy[m]
    BY <1>1 DEF ListenerWrites, FeedInv, FeedTypeOK, Handling
  <1>3. \A k \in Keys \ {b.key} : (k \in docs' <=> k \in docs) /\ body'[k] = body[k]
    BY DEF ListenerWrites, Upsert, DeleteDoc, FeedInv, FeedTypeOK
  <1>4. QueueRight'
    BY <1>1 DEF FeedInv, Held, QueueRight
  <1>5. WriteRight'
    BY <1>1, <1>2 DEF FeedInv, Held, WriteRight, Queued
  <1>6. OffQuiet'
    BY <1>1, <1>2 DEF FeedInv, Held, OffQuiet
  <1>7. KeepsSettled
    <2> SUFFICES ASSUME NEW k \in Keys, Settled(k), k \notin drifted PROVE Agree(k)' \/ Pending(k)'
      BY <1>1 DEF KeepsSettled, Settled
    <2>1. CASE k # b.key
      <3>1. CASE Agree(k)
        BY <1>1, <1>3, <2>1, <3>1 DEF Agree, Live
      <3>2. CASE Pending(k)
        BY <1>1, <1>2, <2>1, <3>2 DEF Pending, PendingIn, Queued
      <3>3. QED
        BY <3>1, <3>2 DEF Settled
    <2>2. CASE k = b.key /\ Queued(l, k)
      BY <1>1, <2>2 DEF Pending, PendingIn, Queued
    <2>3. CASE k = b.key /\ ~ Queued(l, k)
      <3>1. Writes(b) = remote[k] /\ (b.op = "DELETE" <=> remote[k] = 0)
        BY <1>1, <2>3 DEF FeedInv, Held, WriteRight
      <3>2. CASE b.op = "DELETE"
        <4>1. k \notin docs' /\ body'[k] = 0
          BY <2>3, <3>2 DEF ListenerWrites, DeleteDoc, FeedInv, FeedTypeOK
        <4>2. QED
          BY <1>1, <3>1, <3>2, <4>1 DEF Agree, Live
      <3>3. CASE b.op # "DELETE"
        <4>1. b.row = remote[k] /\ remote[k] # 0
          BY <3>1, <3>3 DEF Writes
        <4>2. k \in docs' /\ body'[k] = b.row
          BY <2>3, <3>3, <4>1 DEF ListenerWrites, Upsert, FeedInv, FeedTypeOK
        <4>3. QED
          BY <1>1, <4>1, <4>2 DEF Agree, Live
      <3>4. QED
        BY <3>2, <3>3
    <2>4. QED
      BY <2>1, <2>2, <2>3
  <1>8. QED
    BY <1>4, <1>5, <1>6, <1>7 DEF Held

(* A thread that stops: what only it held counts as lost.                  *)
LEMMA InvStops ==
  ASSUME FeedInv, NEW l \in Threads, ListenerStops(l)
  PROVE  Held' /\ KeepsSettled
  <1>1. /\ remote' = remote /\ docs' = docs /\ body' = body /\ on' = on \ {l}
        /\ drifted \subseteq drifted'
    BY DEF ListenerStops, rowVars, docVars
  <1>2. /\ feed'[l] = <<>> /\ busy'[l] = Idle /\ Len(<<>>) = 0
        /\ \A m \in Threads \ {l} : feed'[m] = feed[m] /\ busy'[m] = busy[m]
    BY EmptySeq DEF ListenerStops, FeedInv, FeedTypeOK
  <1>3. QueueRight'
    <2> SUFFICES ASSUME NEW m \in Threads, NEW i \in 1..Len(feed'[m]),
                        LastOfKey(feed'[m], i), feed'[m][i].key \notin drifted'
                 PROVE  feed'[m][i].op = "DELETE" <=> remote[feed'[m][i].key] = 0
      BY <1>1 DEF QueueRight
    <2>1. m # l
      BY <1>2
    <2>2. QED
      BY <1>1, <1>2, <2>1 DEF FeedInv, Held, QueueRight
  <1>4. WriteRight'
    BY <1>1, <1>2 DEF FeedInv, Held, WriteRight, Queued
  <1>5. OffQuiet'
    BY <1>1, <1>2 DEF FeedInv, Held, OffQuiet
  <1>6. KeepsSettled
    <2> SUFFICES ASSUME NEW k \in Keys, Settled(k), k \notin drifted' PROVE Agree(k)' \/ Pending(k)'
      BY DEF KeepsSettled, Settled
    <2>1. CASE Agree(k)
      BY <1>1, <2>1 DEF Agree, Live
    <2>2. CASE Pending(k)
      <3>1. PICK m \in Threads \ {l} : PendingIn(m, k)
        BY <2>2 DEF ListenerStops, Pending
      <3>2. PendingIn(m, k)'
        BY <1>2, <3>1 DEF PendingIn, Queued
      <3>3. QED
        BY <3>2 DEF Pending
    <2>3. QED
      BY <1>1, <2>1, <2>2 DEF Settled
  <1>7. QED
    BY <1>3, <1>4, <1>5, <1>6 DEF Held

(* Whatever it changes, a state function of the feed keeps the invariant   *)
(* when only more threads listen.                                          *)
LEMMA InvStarts ==
  ASSUME FeedInv, remote' = remote, docs' = docs, body' = body, feed' = feed, busy' = busy,
         drifted' = drifted, on \subseteq on'
  PROVE  Held' /\ KeepsSettled
  BY DEF FeedInv, Held, QueueRight, WriteRight, OffQuiet, KeepsSettled,
         Settled, Queued, Pending, PendingIn, Agree, Live

(* A step of the feed keeps what holds of the threads, and forgets no key. *)
LEMMA InvNext == FeedInv /\ FeedTypeOK' /\ [FeedNext]_feedVars => Held' /\ KeepsSettled
  <1> SUFFICES ASSUME FeedInv, FeedTypeOK', [FeedNext]_feedVars PROVE Held' /\ KeepsSettled
    OBVIOUS
  <1>1. CASE RemoteChange
    BY <1>1, InvRemote
  <1>2. ASSUME NEW l \in Threads, ListenerTakes(l) PROVE Held' /\ KeepsSettled
    BY <1>2, InvTakes
  <1>3. ASSUME NEW l \in Threads, ListenerWrites(l) PROVE Held' /\ KeepsSettled
    BY <1>3, InvWrites
  <1>4. ASSUME NEW l \in Threads, ListenerStops(l) PROVE Held' /\ KeepsSettled
    BY <1>4, InvStops
  <1>5. ASSUME NEW l \in Threads, ListenerStarts(l) PROVE Held' /\ KeepsSettled
    BY <1>5, InvStarts DEF ListenerStarts, rowVars, docVars
  <1>6. CASE UNCHANGED feedVars
    BY <1>6, InvStarts DEF feedVars
  <1>7. QED
    BY <1>1, <1>2, <1>3, <1>4, <1>5, <1>6 DEF FeedNext, Handles

LEMMA InvInit == FeedInit => Inv
  <1> SUFFICES ASSUME FeedInit PROVE Inv
    OBVIOUS
  <1>1. \A l \in Threads : feed[l] = <<>> /\ busy[l] = Idle
    BY DEF FeedInit
  <1>2. QueueRight
    BY <1>1, EmptySeq DEF QueueRight
  <1>3. WriteRight /\ OffQuiet
    BY <1>1 DEF WriteRight, OffQuiet
  <1>4. Accounted
    BY DEF FeedInit, Accounted, Agree, Live
  <1>5. QED
    BY <1>2, <1>3, <1>4 DEF Inv, Held

(* The inductive invariant, of which Accounted is a part. *)
THEOREM Invariant == FeedSpec => []IInv
  <1>1. FeedInit => Inv
    BY InvInit
  <1>2. IInv /\ FeedTypeOK' /\ [FeedNext]_feedVars => Inv'
    BY InvNext DEF IInv, Inv, FeedInv, Accounted, Settled, KeepsSettled
  <1>3. QED
    BY <1>1, <1>2, TypeCorrect, PTL DEF FeedSpec, IInv

(* However many threads there are and however they come and go, a document *)
(* that does not agree with its row has a change on its way or a lost one. *)
THEOREM EveryChangeAccounted == FeedSpec => []Accounted
  <1>1. IInv => Accounted
    BY DEF IInv, Inv
  <1>2. QED
    BY <1>1, Invariant, PTL

-----------------------------------------------------------------------------
(* Requests                                                                *)
InProgress(r) == request[r].pc # "none"

DriftedQuiet == \A k \in drifted \cap Live : ~ Pending(k)
NoDocNoBody == \A k \in Keys \ docs : body[k] = 0

Alone ==
  \A r, s \in Requests :
    r # s /\ InProgress(r) /\ InProgress(s) /\ request[r].key = request[s].key =>
      request[r].key \in contended

RowKnown ==
  \A r \in Requests : InProgress(r) /\ request[r].pc # "remove" =>
    /\ request[r].key \in contended \/ request[r].row = remote[request[r].key]
    /\ request[r].pc # "patch" => request[r].row # 0

Removing(k) == \E r \in Requests : request[r].pc = "remove" /\ request[r].key = k
WritesSettled == \A k \in Keys : Settled(k) \/ k \in contended \/ (k \in Live /\ Removing(k))

FeedPart == Held /\ DriftedQuiet /\ NoDocNoBody
RequestPart == Alone /\ RowKnown
WInv == WriteTypeOK /\ FeedPart /\ RequestPart /\ WritesSettled

-----------------------------------------------------------------------------
LEMMA LeftFields ==
  /\ NoRequest.pc = "none"
  /\ \A q \in Left : /\ q.pc \in {"upsert", "refresh", "patch", "remove"} /\ q.key \in Keys
                     /\ q # NoRequest
                     /\ q.pc # "remove" => q.row \in Version
                     /\ q.pc = "patch" => q.from \in Version
<1>1. NoRequest.pc = "none"
  BY DEF NoRequest
<1>2. \A q \in Left : /\ q.pc \in {"upsert", "refresh", "patch", "remove"} /\ q.key \in Keys
                      /\ q.pc # "remove" => q.row \in Version
                      /\ q.pc = "patch" => q.from \in Version
  BY DEF Left
<1>3. QED
  BY <1>1, <1>2

LEMMA RequestTypes ==
  ASSUME WriteTypeOK, NEW r \in Requests
  PROVE  /\ InProgress(r) <=> request[r] # NoRequest
         /\ InProgress(r) => request[r] \in Left
BY LeftFields DEF WriteTypeOK, InProgress

LEMMA WritingMeans ==
  ASSUME WriteTypeOK, NEW k
  PROVE  /\ Writing(k) <=> \E r \in Requests : InProgress(r) /\ request[r].key = k
         /\ Removing(k) => Writing(k)
BY RequestTypes DEF Writing, Removing, InProgress

(* A request that begins: another of its key makes the key contended.      *)
LEMMA Begun ==
  ASSUME WriteTypeOK, Alone, NEW r \in Requests, NEW left \in Left, Begin(r, left)
  PROVE  /\ request' \in [Requests -> Left \cup {NoRequest}] /\ contended' \in SUBSET Keys
         /\ request'[r] = left /\ ~ InProgress(r)
         /\ \A s \in Requests \ {r} : request'[s] = request[s]
         /\ contended \subseteq contended'
         /\ \A s \in Requests : InProgress(s) /\ request[s].key = left.key => left.key \in contended'
         /\ Alone'
         /\ \A m : Removing(m) => Removing(m)'
<1>1. /\ request[r] = NoRequest /\ request' = [request EXCEPT ![r] = left]
      /\ contended' = IF Writing(left.key) THEN contended \cup {left.key} ELSE contended
      /\ request \in [Requests -> Left \cup {NoRequest}] /\ contended \in SUBSET Keys
  BY DEF Begin, WriteTypeOK
<1>2. /\ request' \in [Requests -> Left \cup {NoRequest}] /\ request'[r] = left
      /\ \A s \in Requests \ {r} : request'[s] = request[s]
  BY <1>1
<1>3. left.key \in Keys /\ left.pc # "none"
  BY LeftFields
<1>4. contended' \in SUBSET Keys /\ contended \subseteq contended'
  BY <1>1, <1>3
<1>5. ~ InProgress(r)
  BY <1>1, LeftFields DEF InProgress
<1>6. \A s \in Requests : InProgress(s) /\ request[s].key = left.key => left.key \in contended'
  BY <1>1, WritingMeans
<1>7. Alone'
  BY <1>2, <1>4, <1>6 DEF Alone, InProgress
<1>8. \A m : Removing(m) => Removing(m)'
  BY <1>2, <1>5 DEF Removing, InProgress
<1>9. QED
  BY <1>2, <1>4, <1>5, <1>6, <1>7, <1>8

(* A request that ends                                                     *)
LEMMA Ended ==
  ASSUME WriteTypeOK, Alone, NEW r \in Requests, End(r), contended \subseteq contended'
  PROVE  /\ request' \in [Requests -> Left \cup {NoRequest}]
         /\ ~ InProgress(r)'
         /\ \A s \in Requests \ {r} : request'[s] = request[s]
         /\ Alone'
         /\ \A m : Removing(m) /\ m # request[r].key => Removing(m)'
<1>1. /\ request' = [request EXCEPT ![r] = NoRequest]
      /\ request \in [Requests -> Left \cup {NoRequest}]
  BY DEF End, WriteTypeOK
<1>2. /\ request' \in [Requests -> Left \cup {NoRequest}] /\ request'[r] = NoRequest
      /\ \A s \in Requests \ {r} : request'[s] = request[s]
  BY <1>1
<1>3. ~ InProgress(r)'
  BY <1>2, LeftFields DEF InProgress
<1>4. Alone'
  BY <1>2, <1>3 DEF Alone, InProgress
<1>5. \A m : Removing(m) /\ m # request[r].key => Removing(m)'
  BY <1>2 DEF Removing
<1>6. QED
  BY <1>2, <1>3, <1>4, <1>5

-----------------------------------------------------------------------------
(* The feed beside the requests                                            *)

(* A change of a row is on its way, or drifted.                            *)
LEMMA Told ==
  ASSUME FeedInv, NEW op \in Op, NEW k \in Keys, Notify(op, k), drifted' = Heard(k)
  PROVE  Pending(k)' \/ k \in drifted'
<1>1. CASE on = {}
  BY <1>1 DEF Heard
<1>2. ASSUME NEW l \in on PROVE Pending(k)'
  <2>1. l \in Threads
    BY DEF FeedInv, FeedTypeOK
  <2>2. Len(feed[l]) + 1 \in 1..Len(feed'[l]) /\ feed'[l][Len(feed[l]) + 1].key = k
    BY <2>1, Notified
  <2>3. QED
    BY <2>1, <2>2 DEF Pending, PendingIn, Queued
<1>3. QED
  BY <1>1, <1>2

(* A key drifts when nobody listens, or with what was on its way, or its   *)
(* row is gone.                                                            *)
LEMMA DriftsQuietly ==
  ASSUME FeedInv, DriftedQuiet, FeedTypeOK', [FeedNext]_feedVars
  PROVE  DriftedQuiet'
<1>1. ASSUME NEW op \in Op, NEW k \in Keys, Notify(op, k), UNCHANGED <<on, busy>>,
             k \in drifted' => on = {} \/ k \notin Live',
             \A m \in Keys \ {k} : m \in drifted' /\ m \in Live' => m \in drifted /\ m \in Live
      PROVE  DriftedQuiet'
  <2> SUFFICES ASSUME NEW m \in drifted' \cap Live' PROVE ~ Pending(m)'
    BY DEF DriftedQuiet
  <2>1. m \in Keys
    BY DEF Live
  <2>2. CASE m = k
    <3>1. on = {}
      BY <1>1, <2>2
    <3>2. \A l \in Threads : busy'[l] = Idle /\ Len(feed'[l]) = 0
      BY <1>1, <3>1, Notified DEF FeedInv, Held, OffQuiet
    <3>3. QED
      BY <3>2 DEF Pending, PendingIn, Queued
  <2>3. CASE m # k
    <3>1. ~ Pending(m)
      BY <1>1, <2>1, <2>3 DEF DriftedQuiet
    <3>2. \A l \in Threads : Queued(l, m)' => Queued(l, m)
      <4> SUFFICES ASSUME NEW l \in Threads, NEW i \in 1..Len(feed'[l]), feed'[l][i].key = m
                   PROVE  Queued(l, m)
        BY DEF Queued
      <4>1. l \in on
        BY <1>1, Notified
      <4>2. i \in 1..Len(feed[l]) /\ feed'[l][i] = feed[l][i]
        BY <1>1, <2>3, <4>1, Notified
      <4>3. QED
        BY <4>2 DEF Queued
    <3>3. QED
      BY <1>1, <3>1, <3>2 DEF Pending, PendingIn
  <2>4. QED
    BY <2>2, <2>3
<1>2. CASE RemoteChange
  <2>1. UNCHANGED <<on, busy>>
    BY <1>2 DEF RemoteChange
  <2>2. ASSUME NEW op \in Op, NEW k \in Keys, Put(op, k) PROVE DriftedQuiet'
    <3>1. /\ Notify(op, k) /\ drifted' = Heard(k)
          /\ \A m \in Keys \ {k} : remote'[m] = remote[m]
      BY <2>2 DEF Put, FeedInv, FeedTypeOK
    <3>2. QED
      BY <1>1, <2>1, <3>1 DEF Heard, Live, FeedInv, FeedTypeOK
  <2>3. ASSUME NEW k \in Keys, Delete(k) PROVE DriftedQuiet'
    <3>1. /\ Notify("DELETE", k) /\ drifted' = Heard(k)
          /\ \A m \in Keys \ {k} : remote'[m] = remote[m]
      BY <2>3 DEF Delete, FeedInv, FeedTypeOK
    <3>2. QED
      BY <1>1, <2>1, <3>1 DEF Heard, Live, FeedInv, FeedTypeOK, Op
  <2>4. ASSUME NEW k \in Keys, NEW m \in Keys, Rekey(k, m) PROVE DriftedQuiet'
    <3>1. /\ Notify("UPDATE", m) /\ drifted' = Heard(m) \cup {k} /\ k # m
          /\ remote'[k] = 0 /\ \A x \in Keys \ {k, m} : remote'[x] = remote[x]
      BY <2>4 DEF Rekey, FeedInv, FeedTypeOK, Live
    <3>2. QED
      BY <1>1, <2>1, <3>1 DEF Heard, Live, FeedInv, FeedTypeOK, Op
  <2>5. QED
    BY <1>2, <2>2, <2>3, <2>4 DEF RemoteChange, Insert, Update, Op
<1>3. ASSUME NEW l \in Threads, ListenerTakes(l) PROVE DriftedQuiet'
  <2>1. /\ UNCHANGED <<remote, drifted>> /\ feed[l] \in Seq(Notification) /\ feed[l] # <<>>
        /\ feed'[l] = Tail(feed[l]) /\ busy'[l].key = Head(feed[l]).key
        /\ \A m \in Threads \ {l} : feed'[m] = feed[m] /\ busy'[m] = busy[m]
    BY <1>3 DEF ListenerTakes, FeedInv, FeedTypeOK, rowVars
  <2>2. \A k : PendingIn(l, k)' => PendingIn(l, k)
    <3>1. ASSUME NEW k, Queued(l, k)' PROVE Queued(l, k)
      <4>1. PICK i \in 1..Len(Tail(feed[l])) : Tail(feed[l])[i].key = k
        BY <2>1, <3>1 DEF Queued
      <4>2. i + 1 \in 1..Len(feed[l]) /\ Tail(feed[l])[i] = feed[l][i + 1]
        BY <2>1, Taken
      <4>3. QED
        BY <4>1, <4>2 DEF Queued
    <3>2. Queued(l, Head(feed[l]).key)
      <4>1. 1 \in 1..Len(feed[l]) /\ Head(feed[l]) = feed[l][1]
        BY <2>1, Taken
      <4>2. QED
        BY <4>1 DEF Queued
    <3>3. QED
      BY <2>1, <3>1, <3>2 DEF PendingIn
  <2>3. \A k : \A m \in Threads \ {l} : PendingIn(m, k)' => PendingIn(m, k)
    BY <2>1 DEF PendingIn, Queued
  <2>4. \A k : Pending(k)' => Pending(k)
    BY <2>2, <2>3 DEF Pending
  <2>5. QED
    BY <2>1, <2>4 DEF DriftedQuiet, Live
<1>4. ASSUME NEW l \in Threads, ListenerWrites(l) PROVE DriftedQuiet'
  <2>1. /\ UNCHANGED <<remote, feed, drifted>> /\ busy'[l] = Idle
        /\ \A m \in Threads \ {l} : busy'[m] = busy[m]
    BY <1>4 DEF ListenerWrites, FeedInv, FeedTypeOK, rowVars
  <2>2. QED
    BY <2>1 DEF DriftedQuiet, Live, Pending, PendingIn, Queued
<1>5. ASSUME NEW l \in Threads, ListenerStops(l) PROVE DriftedQuiet'
  <2>1. /\ UNCHANGED remote /\ feed'[l] = <<>> /\ busy'[l] = Idle /\ Len(<<>>) = 0
        /\ \A m \in Threads \ {l} : feed'[m] = feed[m] /\ busy'[m] = busy[m]
        /\ drifted' = drifted \cup {k \in Keys : PendingIn(l, k)
                                      /\ \A m \in Threads \ {l} : ~ PendingIn(m, k)}
    BY <1>5, EmptySeq DEF ListenerStops, FeedInv, FeedTypeOK, rowVars
  <2>2. \A k : ~ PendingIn(l, k)'
    BY <2>1 DEF PendingIn, Queued
  <2>3. \A k : \A m \in Threads \ {l} : PendingIn(m, k)' => PendingIn(m, k)
    BY <2>1 DEF PendingIn, Queued
  <2>4. QED
    BY <2>1, <2>2, <2>3 DEF DriftedQuiet, Live, Pending
<1>6. ASSUME NEW l \in Threads, ListenerStarts(l) PROVE DriftedQuiet'
  BY <1>6 DEF ListenerStarts, rowVars, docVars, DriftedQuiet, Live, Pending, PendingIn, Queued
<1>7. CASE UNCHANGED feedVars
  BY <1>7 DEF feedVars, DriftedQuiet, Live, Pending, PendingIn, Queued
<1>8. QED
  BY <1>2, <1>3, <1>4, <1>5, <1>6, <1>7 DEF FeedNext, Handles

LEMMA BodiesGo ==
  ASSUME FeedTypeOK, NoDocNoBody, [FeedNext]_feedVars
  PROVE  NoDocNoBody'
<1>1. ASSUME NEW l \in Threads, ListenerWrites(l) PROVE NoDocNoBody'
  BY <1>1 DEF ListenerWrites, DeleteDoc, Upsert, NoDocNoBody, FeedTypeOK
<1>2. CASE UNCHANGED docVars
  BY <1>2 DEF docVars, NoDocNoBody
<1>3. QED
  BY <1>1, <1>2 DEF FeedNext, Handles, RemoteChange, ListenerTakes, ListenerStops, ListenerStarts,
                    feedVars, docVars

LEMMA FeedPartKeeps ==
  ASSUME FeedTypeOK, FeedPart, [FeedNext]_feedVars
  PROVE  FeedTypeOK' /\ FeedPart' /\ KeepsSettled
<1>1. FeedTypeOK'
  BY TypeNext
<1>2. Held' /\ KeepsSettled
  BY <1>1, InvNext DEF FeedInv, FeedPart
<1>3. QED
  BY <1>1, <1>2, DriftsQuietly, BodiesGo DEF FeedPart, FeedInv
-----------------------------------------------------------------------------
(* The requests                                                            *)

(* A request begins without a change of the row it is about.               *)
LEMMA BeginsKeeps ==
  ASSUME WInv, NEW r \in Requests, NEW left \in Left, Begin(r, left), UNCHANGED feedVars,
         /\ left.pc # "remove" => left.row = remote[left.key]
         /\ left.pc \in {"upsert", "refresh"} => left.row # 0
  PROVE  WInv'
<1>1. WriteTypeOK'
  BY Begun DEF WInv, RequestPart, WriteTypeOK, FeedTypeOK, feedVars
<1>2. FeedPart' /\ KeepsSettled
  BY FeedPartKeeps DEF WInv, WriteTypeOK
<1>3. RowKnown'
  BY Begun, LeftFields DEF WInv, RequestPart, RowKnown, InProgress, feedVars
<1>4. WritesSettled'
  BY <1>2, Begun DEF WInv, RequestPart, WritesSettled, KeepsSettled, Live, feedVars
<1>5. QED
  BY <1>1, <1>2, <1>3, <1>4, Begun DEF WInv, RequestPart

(* AddRecord and UpdateRecord: the row is written first.                   *)
LEMMA PutBegins ==
  ASSUME WInv, NEW r \in Requests, NEW op \in Op, NEW k \in Keys,
         (op = "INSERT" /\ Insert(k)) \/ (op = "UPDATE" /\ Update(k)),
         UNCHANGED <<docVars, on, busy>>,
         NEW left, left \in Left, Begin(r, left),
         left.key = k /\ left.pc \in {"upsert", "patch"} /\ left.row = clock'
  PROVE  WInv'
<1>1. FeedNext /\ Put(op, k)
  BY DEF FeedNext, RemoteChange, Insert, Update
<1>2. FeedTypeOK' /\ FeedPart' /\ KeepsSettled
  BY <1>1, FeedPartKeeps DEF WInv, WriteTypeOK
<1>3. WriteTypeOK'
  BY <1>2, Begun DEF WInv, RequestPart, WriteTypeOK
<1>4. /\ remote'[k] = clock' /\ clock' # 0 /\ Notify(op, k) /\ drifted' = Heard(k)
      /\ \A m \in Keys \ {k} : remote'[m] = remote[m]
  BY <1>1, FeedAssumption DEF Put, WInv, WriteTypeOK, FeedTypeOK, Version
<1>5. RowKnown'
  <2> SUFFICES ASSUME NEW s \in Requests, InProgress(s)', request'[s].pc # "remove"
               PROVE  /\ request'[s].key \in contended' \/ request'[s].row = remote'[request'[s].key]
                      /\ request'[s].pc # "patch" => request'[s].row # 0
    BY DEF RowKnown
  <2>1. CASE s = r
    BY <1>4, <2>1, Begun DEF WInv, RequestPart
  <2>2. CASE s # r
    <3>1. request'[s] = request[s] /\ InProgress(s) /\ request[s].key \in Keys
      BY <2>2, Begun, RequestTypes, LeftFields DEF WInv, RequestPart, InProgress
    <3>2. CASE request[s].key = k
      BY <3>1, <3>2, Begun DEF WInv, RequestPart, RowKnown
    <3>3. CASE request[s].key # k
      BY <1>4, <3>1, <3>3, Begun DEF WInv, RequestPart, RowKnown
    <3>4. QED
      BY <3>2, <3>3
  <2>3. QED
    BY <2>1, <2>2
<1>6. WritesSettled'
  <2> SUFFICES ASSUME NEW m \in Keys PROVE (Settled(m) \/ m \in contended \/ (m \in Live /\ Removing(m)))'
    BY DEF WritesSettled
  <2>1. CASE m = k
    BY <1>4, <2>1, Told DEF Settled, WInv, WriteTypeOK, FeedPart, FeedInv
  <2>2. CASE m # k
    <3>1. m \in Live => m \in Live'
      BY <1>4, <2>2 DEF Live
    <3>2. QED
      BY <1>2, <3>1, Begun DEF KeepsSettled, WInv, RequestPart, WritesSettled
  <2>3. QED
    BY <2>1, <2>2
<1>7. QED
  BY <1>2, <1>3, <1>5, <1>6, Begun DEF WInv, RequestPart

LEMMA DeleteBegins ==
  ASSUME WInv, NEW r \in Requests, NEW k \in Keys, DeleteRecord(r, k)
  PROVE  WInv'
<1> DEFINE left == [pc |-> "remove", key |-> k]
<1>1. left \in Left /\ left.pc = "remove" /\ left.key = k
  BY DEF Left
<1>2. Begin(r, left) /\ UNCHANGED <<remote, clock, on, feed, busy, drifted>> /\ DeleteDoc(k)
  BY DEF DeleteRecord, rowVars
<1> HIDE DEF left
<1>3. /\ docs' = docs \ {k} /\ body'[k] = 0 /\ body' \in [Keys -> Version]
      /\ \A m \in Keys \ {k} : body'[m] = body[m]
  <2>1. 0 \in Version
    BY FeedAssumption DEF Version
  <2>2. QED
    BY <1>2, <2>1 DEF DeleteDoc, WInv, WriteTypeOK, FeedTypeOK
<1>4. WriteTypeOK'
  BY <1>1, <1>2, <1>3, Begun DEF WInv, RequestPart, WriteTypeOK, FeedTypeOK
<1>5. FeedPart'
  <2>1. Held'
    BY <1>2 DEF WInv, FeedPart, Held, QueueRight, WriteRight, OffQuiet, Queued
  <2>2. DriftedQuiet'
    BY <1>2 DEF WInv, FeedPart, DriftedQuiet, Live, Pending, PendingIn, Queued
  <2>3. NoDocNoBody'
    BY <1>3 DEF WInv, FeedPart, NoDocNoBody
  <2>4. QED
    BY <2>1, <2>2, <2>3 DEF FeedPart
<1>6. RowKnown'
  BY <1>1, <1>2, Begun DEF WInv, RequestPart, RowKnown, InProgress
<1>7. WritesSettled'
  <2> SUFFICES ASSUME NEW m \in Keys PROVE (Settled(m) \/ m \in contended \/ (m \in Live /\ Removing(m)))'
    BY DEF WritesSettled
  <2>1. CASE m = k /\ k \in Live
    BY <1>1, <1>2, <2>1, Begun DEF WInv, RequestPart, Removing, Live
  <2>2. CASE m = k /\ k \notin Live
    BY <1>2, <1>3, <2>2 DEF Settled, Agree, Live
  <2>3. CASE m # k
    <3>1. Settled(m) => Settled(m)'
      BY <1>2, <1>3, <2>3 DEF Settled, Agree, Pending, PendingIn, Queued, Live
    <3>2. QED
      BY <1>1, <1>2, <3>1, Begun DEF WInv, RequestPart, WritesSettled, Live
  <2>4. QED
    BY <2>1, <2>2, <2>3
<1>8. QED
  BY <1>1, <1>2, <1>4, <1>5, <1>6, <1>7, Begun DEF WInv, RequestPart

LEMMA StartsKeep ==
  ASSUME WInv, NEW r \in Requests, Starts(r)
  PROVE  WInv'
<1>0. 0 \in Version /\ clock' = clock' /\ "INSERT" \in Op /\ "UPDATE" \in Op
  BY FeedAssumption DEF Version, Op
<1>1. ASSUME NEW k \in Keys, AddRecord(r, k) \/ UpdateRecord(r, k) PROVE WInv'
  <2>1. clock' \in Version /\ remote[k] \in Version
    BY <1>1, FeedAssumption DEF AddRecord, UpdateRecord, Insert, Update, Put, WInv, WriteTypeOK,
       FeedTypeOK, Version
  <2>2. CASE AddRecord(r, k)
    <3> DEFINE left == [pc |-> "upsert", key |-> k, row |-> clock']
    <3>1. left \in Left /\ left.key = k /\ left.pc = "upsert" /\ left.row = clock'
      BY <2>1 DEF Left
    <3>2. Insert(k) /\ UNCHANGED <<docVars, on, busy>> /\ Begin(r, left)
      BY <2>2 DEF AddRecord
    <3> HIDE DEF left
    <3>3. QED
      BY <1>0, <3>1, <3>2, PutBegins
  <2>3. CASE UpdateRecord(r, k)
    <3> DEFINE left == [pc |-> "patch", key |-> k, from |-> remote[k], row |-> clock']
    <3>1. left \in Left /\ left.key = k /\ left.pc = "patch" /\ left.row = clock'
      BY <2>1 DEF Left
    <3>2. Update(k) /\ UNCHANGED <<docVars, on, busy>> /\ Begin(r, left)
      BY <2>3 DEF UpdateRecord
    <3> HIDE DEF left
    <3>3. QED
      BY <1>0, <3>1, <3>2, PutBegins
  <2>4. QED
    BY <1>1, <2>2, <2>3
<1>2. ASSUME NEW k \in Keys, UpdateGoneRecord(r, k) PROVE WInv'
  <2> DEFINE left == [pc |-> "patch", key |-> k, from |-> 0, row |-> 0]
  <2>1. left \in Left /\ left.key = k /\ left.pc = "patch" /\ left.row = 0
    BY <1>0 DEF Left
  <2>2. remote[k] = 0 /\ UNCHANGED feedVars /\ Begin(r, left)
    BY <1>2 DEF UpdateGoneRecord, Live
  <2> HIDE DEF left
  <2>3. QED
    BY <2>1, <2>2, BeginsKeeps
<1>3. ASSUME NEW k \in Keys, SyncRecord(r, k) PROVE WInv'
  <2> DEFINE left == [pc |-> "refresh", key |-> k, row |-> remote[k]]
  <2>1. remote[k] \in Version
    BY DEF WInv, WriteTypeOK, FeedTypeOK
  <2>2. left \in Left /\ left.key = k /\ left.pc = "refresh" /\ left.row = remote[k]
    BY <2>1 DEF Left
  <2>3. remote[k] # 0 /\ UNCHANGED feedVars /\ Begin(r, left)
    BY <1>3 DEF SyncRecord, Live
  <2> HIDE DEF left
  <2>4. QED
    BY <2>2, <2>3, BeginsKeeps
<1>4. QED
  BY <1>1, <1>2, <1>3, DeleteBegins DEF Starts
-----------------------------------------------------------------------------
(* What a write makes of the document: of another key nothing, and of its  *)
(* own, if it agreed with the row and the version written is the row's,    *)
(* one that agrees.                                                        *)
LEMMA Written ==
  ASSUME WInv, NEW r \in Requests, WriteDocument(r)
  PROVE  LET q == request[r]  k == q.key IN
         /\ q \in Left /\ q.pc # "remove" /\ InProgress(r)
         /\ docs' \in SUBSET Keys /\ body' \in [Keys -> Version] /\ docs \subseteq docs'
         /\ docs' \subseteq docs \cup {k}
         /\ NoDocNoBody'
         /\ \A m \in Keys \ {k} : (m \in docs' <=> m \in docs) /\ body'[m] = body[m]
         /\ (Agree(k) /\ q.row = remote[k] /\ (q.pc # "patch" => q.row # 0)) =>
              (k \in docs' <=> k \in Live) /\ body'[k] = remote[k]
<1> DEFINE q == request[r]
           k == q.key
<1>1. q.pc \in {"upsert", "refresh", "patch"}
  BY DEF WriteDocument
<1>2. InProgress(r) /\ q \in Left
  BY <1>1, RequestTypes DEF WInv, InProgress
<1>3. k \in Keys /\ q.row \in Version /\ (q.pc = "patch" => q.from \in Version)
  BY <1>1, <1>2, LeftFields
<1>4. body \in [Keys -> Version] /\ docs \in SUBSET Keys /\ NoDocNoBody
  BY DEF WInv, WriteTypeOK, FeedTypeOK, FeedPart
<1>5. CASE q.pc # "patch" /\ Upsert(k, q.row)
  <2>1. /\ docs' = docs \cup {k} /\ body' = [body EXCEPT ![k] = IF q.row = 0 THEN body[k] ELSE q.row]
    BY <1>5 DEF Upsert
  <2>2. /\ docs' \in SUBSET Keys /\ body' \in [Keys -> Version] /\ k \in docs'
        /\ \A m \in Keys \ {k} : (m \in docs' <=> m \in docs) /\ body'[m] = body[m]
        /\ q.row # 0 => body'[k] = q.row
    BY <1>3, <1>4, <2>1
  <2>3. NoDocNoBody'
    BY <1>4, <2>1, <2>2 DEF NoDocNoBody
  <2>4. q.row = remote[k] /\ q.row # 0 =>
          (k \in docs' <=> k \in Live) /\ body'[k] = remote[k]
    BY <1>3, <2>2 DEF Live
  <2>5. QED
    BY <1>1, <1>2, <1>5, <2>1, <2>2, <2>3, <2>4
<1>6. CASE q.pc = "patch" /\ k \in docs /\ Patch(k, q.from, q.row)
  <2>1. PICK b \in Patched(body[k], q.from, q.row) : body' = [body EXCEPT ![k] = b]
    BY <1>6 DEF Patch
  <2>2. b \in Version /\ (body[k] = q.row => b = q.row)
    <3>1. 0 \in Version /\ body[k] \in Version
      BY <1>3, <1>4, FeedAssumption DEF Version
    <3>2. QED
      BY <1>3, <2>1, <3>1 DEF Patched
  <2>3. /\ docs' = docs /\ body' \in [Keys -> Version] /\ body'[k] = b
        /\ \A m \in Keys \ {k} : body'[m] = body[m]
    BY <1>3, <1>4, <1>6, <2>1, <2>2 DEF Patch
  <2>4. NoDocNoBody'
    BY <1>4, <1>6, <2>3 DEF NoDocNoBody
  <2>5. QED
    BY <1>1, <1>2, <1>4, <2>2, <2>3, <2>4 DEF Agree
<1>7. CASE UNCHANGED docVars
  BY <1>1, <1>2, <1>4, <1>7 DEF docVars, NoDocNoBody, Agree
<1>8. (q.pc # "patch" /\ Upsert(k, q.row))
        \/ (q.pc = "patch" /\ k \in docs /\ Patch(k, q.from, q.row)) \/ UNCHANGED docVars
  BY DEF WriteDocument
<1>9. QED
  BY <1>5, <1>6, <1>7, <1>8
LEMMA WriteKeeps ==
  ASSUME WInv, NEW r \in Requests, WriteDocument(r)
  PROVE  WInv'
<1> DEFINE q == request[r]
           k == q.key
<1>1. /\ q \in Left /\ q.pc # "remove" /\ InProgress(r)
      /\ docs' \in SUBSET Keys /\ body' \in [Keys -> Version]
      /\ NoDocNoBody'
      /\ \A m \in Keys \ {k} : (m \in docs' <=> m \in docs) /\ body'[m] = body[m]
      /\ (Agree(k) /\ q.row = remote[k] /\ (q.pc # "patch" => q.row # 0)) =>
           (k \in docs' <=> k \in Live) /\ body'[k] = remote[k]
  BY Written
<1>2. /\ UNCHANGED <<remote, clock, on, feed, busy, contended>> /\ End(r)
      /\ drifted' = {m \in drifted : m # k \/ m \notin Live \/ body'[m] # remote[m]}
  BY DEF WriteDocument, rowVars
<1>3. /\ request' \in [Requests -> Left \cup {NoRequest}] /\ ~ InProgress(r)'
      /\ \A s \in Requests \ {r} : request'[s] = request[s]
      /\ Alone' /\ \A m : Removing(m) /\ m # k => Removing(m)'
  BY <1>2, Ended DEF WInv, RequestPart
<1>4. k \in Keys
  BY <1>1, LeftFields
<1>5. WriteTypeOK'
  BY <1>1, <1>2, <1>3 DEF WInv, WriteTypeOK, FeedTypeOK
<1>6. ASSUME NEW m \in drifted, m \notin drifted'
      PROVE  m = k /\ m \in Live /\ body'[m] = remote[m] /\ ~ Pending(m)
  BY <1>2, <1>6 DEF WInv, FeedPart, DriftedQuiet
<1>7. Held'
  <2>1. QueueRight'
    <3> SUFFICES ASSUME NEW l \in Threads, NEW i \in 1..Len(feed[l]),
                        LastOfKey(feed[l], i), feed[l][i].key \notin drifted'
                 PROVE  feed[l][i].op = "DELETE" <=> remote[feed[l][i].key] = 0
      BY <1>2 DEF QueueRight
    <3>1. Pending(feed[l][i].key)
      BY DEF Pending, PendingIn, Queued
    <3>2. feed[l][i].key \notin drifted
      BY <1>6, <3>1
    <3>3. QED
      BY <3>2 DEF WInv, FeedPart, Held, QueueRight
  <2>2. WriteRight'
    <3> SUFFICES ASSUME NEW l \in Threads, busy[l] # Idle
                 PROVE  \/ Queued(l, busy[l].key)
                        \/ busy[l].key \in drifted'
                        \/ /\ Writes(busy[l]) = remote[busy[l].key]
                           /\ busy[l].op = "DELETE" <=> remote[busy[l].key] = 0
      BY <1>2 DEF WriteRight, Queued
    <3>1. Pending(busy[l].key)
      BY DEF Pending, PendingIn
    <3>2. busy[l].key \in drifted => busy[l].key \in drifted'
      BY <1>6, <3>1
    <3>3. QED
      BY <3>2 DEF WInv, FeedPart, Held, WriteRight
  <2>3. OffQuiet'
    BY <1>2 DEF WInv, FeedPart, Held, OffQuiet
  <2>4. QED
    BY <2>1, <2>2, <2>3 DEF Held
<1>8. DriftedQuiet'
  BY <1>2 DEF WInv, FeedPart, DriftedQuiet, Live, Pending, PendingIn, Queued
<1>9. RowKnown'
  BY <1>2, <1>3 DEF WInv, RequestPart, RowKnown, InProgress
<1>10. WritesSettled'
  <2> SUFFICES ASSUME NEW m \in Keys, m \notin contended
               PROVE  (Settled(m) \/ (m \in Live /\ Removing(m)))'
    BY <1>2 DEF WritesSettled
  <2>1. Settled(m) \/ (m \in Live /\ Removing(m))
    BY DEF WInv, WritesSettled
  <2>2. Pending(m) => Pending(m)'
    BY <1>2 DEF Pending, PendingIn, Queued
  <2>3. CASE m # k
    <3>1. Agree(m) => Agree(m)'
      BY <1>1, <1>2, <2>3 DEF Agree, Live
    <3>2. m \in drifted => m \in drifted'
      BY <1>6, <2>3
    <3>3. QED
      BY <1>2, <1>3, <2>1, <2>2, <2>3, <3>1, <3>2 DEF Settled, Live
  <2>4. CASE m = k
    <3>1. q.row = remote[k] /\ (q.pc # "patch" => q.row # 0)
      BY <1>1, <2>4 DEF WInv, RequestPart, RowKnown
    <3>2. ~ Removing(k)
      <4> SUFFICES ASSUME NEW s \in Requests, request[s].pc = "remove", request[s].key = k PROVE FALSE
        BY DEF Removing
      <4>1. s # r /\ InProgress(s)
        BY <1>1 DEF InProgress
      <4>2. QED
        BY <1>1, <2>4, <4>1 DEF WInv, RequestPart, Alone
    <3>3. CASE Agree(k)
      BY <1>1, <1>2, <2>4, <3>1, <3>3 DEF Settled, Agree, Live
    <3>4. CASE k \in drifted
      <4>1. CASE k \in drifted'
        BY <2>4, <4>1 DEF Settled
      <4>2. CASE k \notin drifted'
        <5>1. k \in Live /\ body'[k] = remote[k]
          BY <1>6, <3>4, <4>2
        <5>2. k \in docs'
          BY <1>1, <1>4, <5>1 DEF NoDocNoBody, Live
        <5>3. QED
          BY <1>2, <2>4, <5>1, <5>2 DEF Settled, Agree, Live
      <4>3. QED
        BY <4>1, <4>2
    <3>5. QED
      BY <2>1, <2>2, <2>4, <3>2, <3>3, <3>4 DEF Settled
  <2>5. QED
    BY <2>3, <2>4
<1>11. QED
  BY <1>1, <1>3, <1>5, <1>7, <1>8, <1>9, <1>10 DEF WInv, FeedPart, RequestPart

LEMMA RemoveRowKeeps ==
  ASSUME WInv, NEW r \in Requests, RemoveRow(r)
  PROVE  WInv'
<1> DEFINE k == request[r].key
<1>1. /\ request[r].pc = "remove" /\ InProgress(r) /\ UNCHANGED <<docVars, on, busy, contended>>
      /\ End(r)
  BY DEF RemoveRow, InProgress
<1>2. k \in Keys
  BY <1>1, RequestTypes, LeftFields DEF WInv
<1>3. Delete(k) \/ (k \notin Live /\ UNCHANGED <<rowVars, feed, drifted>>)
  BY DEF RemoveRow
<1>4. FeedNext \/ UNCHANGED feedVars
  BY <1>1, <1>2, <1>3 DEF FeedNext, RemoteChange, feedVars, rowVars, docVars
<1>5. FeedTypeOK' /\ FeedPart' /\ KeepsSettled
  BY <1>4, FeedPartKeeps DEF WInv, WriteTypeOK
<1>6. /\ request' \in [Requests -> Left \cup {NoRequest}] /\ ~ InProgress(r)'
      /\ \A s \in Requests \ {r} : request'[s] = request[s]
      /\ Alone' /\ \A m : Removing(m) /\ m # k => Removing(m)'
  BY <1>1, Ended DEF WInv, RequestPart
<1>7. \A m \in Keys \ {k} : remote'[m] = remote[m]
  BY <1>3 DEF Delete, rowVars, WInv, WriteTypeOK, FeedTypeOK
<1>8. RowKnown'
  <2> SUFFICES ASSUME NEW s \in Requests \ {r}, InProgress(s), request[s].pc # "remove"
               PROVE  /\ request[s].key \in contended \/ request[s].row = remote'[request[s].key]
                      /\ request[s].pc # "patch" => request[s].row # 0
    BY <1>1, <1>6 DEF RowKnown, InProgress
  <2>1. request[s].key \in Keys
    BY RequestTypes, LeftFields DEF WInv
  <2>2. CASE request[s].key = k
    BY <1>1, <2>2 DEF WInv, RequestPart, RowKnown, Alone
  <2>3. CASE request[s].key # k
    BY <1>7, <2>1, <2>3 DEF WInv, RequestPart, RowKnown
  <2>4. QED
    BY <2>2, <2>3
<1>9. WritesSettled'
  <2> SUFFICES ASSUME NEW m \in Keys, m \notin contended
               PROVE  (Settled(m) \/ (m \in Live /\ Removing(m)))'
    BY <1>1 DEF WritesSettled
  <2>1. Settled(m) \/ (m \in Live /\ Removing(m))
    BY DEF WInv, WritesSettled
  <2>2. CASE m # k
    BY <1>5, <1>6, <1>7, <2>1, <2>2 DEF KeepsSettled, Live
  <2>3. CASE m = k /\ Delete(k)
    <3>1. Notify("DELETE", k) /\ drifted' = Heard(k) /\ "DELETE" \in Op
      BY <2>3 DEF Delete, Op
    <3>2. QED
      BY <1>2, <2>3, <3>1, Told DEF Settled, WInv, WriteTypeOK, FeedPart, FeedInv
  <2>4. CASE m = k /\ k \notin Live
    BY <1>5, <2>1, <2>4 DEF KeepsSettled
  <2>5. QED
    BY <1>3, <2>2, <2>3, <2>4
<1>10. QED
  BY <1>1, <1>5, <1>6, <1>8, <1>9 DEF WInv, RequestPart, WriteTypeOK

LEMMA DyingKeeps ==
  ASSUME WInv, NEW r \in Requests, RequestDies(r)
  PROVE  WInv'
<1> DEFINE k == request[r].key
<1>1. /\ InProgress(r) /\ End(r) /\ contended' = contended \cup {k} /\ UNCHANGED feedVars
  BY RequestTypes DEF RequestDies, WInv
<1>2. k \in Keys
  BY <1>1, RequestTypes, LeftFields DEF WInv
<1>3. FeedTypeOK' /\ FeedPart' /\ KeepsSettled
  BY <1>1, FeedPartKeeps DEF WInv, WriteTypeOK
<1>4. /\ request' \in [Requests -> Left \cup {NoRequest}] /\ ~ InProgress(r)'
      /\ \A s \in Requests \ {r} : request'[s] = request[s]
      /\ Alone' /\ \A m : Removing(m) /\ m # k => Removing(m)'
  BY <1>1, Ended DEF WInv, RequestPart
<1>5. RowKnown'
  BY <1>1, <1>4 DEF WInv, RequestPart, RowKnown, InProgress, feedVars
<1>6. WritesSettled'
  BY <1>1, <1>3, <1>4 DEF WInv, WritesSettled, KeepsSettled, Live, feedVars
<1>7. QED
  BY <1>1, <1>2, <1>3, <1>4, <1>5, <1>6 DEF WInv, RequestPart, WriteTypeOK

(* The listener and the other clients of the table                         *)
LEMMA FeedStepKeeps ==
  ASSUME WInv, FeedStep
  PROVE  WInv'
<1>1. /\ FeedNext /\ UNCHANGED request
      /\ contended' = contended \cup {k \in Keys : Writing(k) /\ remote'[k] # remote[k]}
  BY DEF FeedStep
<1>2. FeedTypeOK' /\ FeedPart' /\ KeepsSettled
  BY <1>1, FeedPartKeeps DEF WInv, WriteTypeOK
<1>3. RowKnown'
  <2> SUFFICES ASSUME NEW s \in Requests, InProgress(s), request[s].pc # "remove"
               PROVE  /\ request[s].key \in contended' \/ request[s].row = remote'[request[s].key]
                      /\ request[s].pc # "patch" => request[s].row # 0
    BY <1>1 DEF RowKnown, InProgress
  <2>1. request[s].key \in Keys /\ Writing(request[s].key)
    BY RequestTypes, LeftFields, WritingMeans DEF WInv
  <2>2. QED
    BY <1>1, <2>1 DEF WInv, RequestPart, RowKnown
<1>4. Alone'
  BY <1>1 DEF WInv, RequestPart, Alone, InProgress
<1>5. WritesSettled'
  <2> SUFFICES ASSUME NEW m \in Keys, m \notin contended'
               PROVE  (Settled(m) \/ (m \in Live /\ Removing(m)))'
    BY DEF WritesSettled
  <2>1. CASE Settled(m)
    BY <1>2, <2>1 DEF KeepsSettled
  <2>2. CASE m \in Live /\ Removing(m)
    <3>1. Writing(m)
      BY <2>2, WritingMeans DEF WInv
    <3>2. remote'[m] = remote[m]
      BY <1>1, <3>1
    <3>3. QED
      BY <1>1, <2>2, <3>2 DEF Live, Removing
  <2>3. QED
    BY <1>1, <2>1, <2>2 DEF WInv, WritesSettled
<1>6. QED
  BY <1>1, <1>2, <1>3, <1>4, <1>5 DEF WInv, RequestPart, WriteTypeOK

-----------------------------------------------------------------------------
LEMMA WriteInitInv == WriteInit => WInv
<1> SUFFICES ASSUME WriteInit PROVE WInv
  OBVIOUS
<1>1. /\ FeedTypeOK /\ Inv /\ drifted = {} /\ docs = Live /\ body = remote /\ contended = {}
      /\ \A r \in Requests : request[r] = NoRequest
      /\ request \in [Requests -> {NoRequest}]
  BY TypeInit, InvInit DEF WriteInit, FeedInit
<1>2. WriteTypeOK
  BY <1>1 DEF WriteTypeOK
<1>3. FeedPart
  BY <1>1 DEF FeedPart, Inv, DriftedQuiet, NoDocNoBody, Live
<1>4. RequestPart
  BY <1>1, LeftFields DEF RequestPart, Alone, RowKnown, InProgress
<1>5. WritesSettled
  BY <1>1 DEF WritesSettled, Settled, Agree
<1>6. QED
  BY <1>2, <1>3, <1>4, <1>5 DEF WInv

LEMMA WriteNextKeeps == WInv /\ [WriteNext]_writeVars => WInv'
<1> SUFFICES ASSUME WInv, [WriteNext]_writeVars PROVE WInv'
  OBVIOUS
<1>1. CASE UNCHANGED writeVars
  <2>1. UNCHANGED feedVars /\ UNCHANGED <<request, contended>>
    BY <1>1 DEF writeVars, feedVars
  <2>2. FeedTypeOK' /\ FeedPart' /\ KeepsSettled
    BY <2>1, FeedPartKeeps DEF WInv, WriteTypeOK
  <2>3. RequestPart'
    BY <2>1 DEF WInv, RequestPart, Alone, RowKnown, InProgress, feedVars
  <2>4. WritesSettled'
    BY <2>1, <2>2 DEF WInv, WritesSettled, KeepsSettled, Live, Removing, feedVars
  <2>5. QED
    BY <2>1, <2>2, <2>3, <2>4 DEF WInv, WriteTypeOK
<1>2. QED
  BY <1>1, FeedStepKeeps, StartsKeep, WriteKeeps, RemoveRowKeeps, DyingKeeps DEF WriteNext

(* The types hold in every reachable state, whatever the requests are at.  *)
THEOREM WriteTypeCorrect == WriteSpec => []WriteTypeOK
<1>1. WInv => WriteTypeOK
  BY DEF WInv
<1>2. QED
  BY <1>1, WriteInitInv, WriteNextKeeps, PTL DEF WriteSpec

(* However many requests and listener threads write the document of a row, *)
(* in any order, it agrees with the row once they are done, unless two     *)
(* writers changed the row at a time, a request died or a change was lost. *)
THEOREM EveryWriteAccounted == WriteSpec => []WritesAccounted
<1>1. WInv => WritesAccounted
  <2> SUFFICES ASSUME WInv, NEW k \in Keys
               PROVE  Agree(k) \/ Pending(k) \/ Writing(k) \/ k \in drifted \/ k \in contended
    BY DEF WritesAccounted
  <2>1. Removing(k) => Writing(k)
    BY WritingMeans DEF WInv
  <2>2. QED
    BY <2>1 DEF WInv, WritesSettled, Settled
<1>2. QED
  BY <1>1, WriteInitInv, WriteNextKeeps, PTL DEF WriteSpec
=============================================================================
