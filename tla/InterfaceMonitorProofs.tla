----------------------- MODULE InterfaceMonitorProofs -----------------------
(***************************************************************************)
(* Proofs about InterfaceMonitor, for any interfaces, addresses and size   *)
(* of the socket's buffer.                                                 *)
(*                                                                         *)
(* An address that should be served is still owed or has its entry: it is  *)
(* owed by the dump, by a queued error (which starts another dump), or by  *)
(* a queued notification that no later one takes back.  An address that is *)
(* gone is dealt with already or has its removal queued behind everything  *)
(* that could bring it back.                                               *)
(***************************************************************************)
EXTENDS InterfaceMonitor, FiniteSetTheorems, TLAPS

Messages ==
    [type : {"new", "del"}, addr : Addrs, label : Names, flags : Statuses]
        \cup [type : {"done", "error"}]

IMTypeOK ==
    /\ name \in [Indexes -> Names \cup {Gone}]
    /\ status \in [Addrs -> Statuses]
    /\ queue \in Seq(Messages) /\ Len(queue) <= MaxQueue
    /\ dump \subseteq Addrs
    /\ dumping \in BOOLEAN /\ overrun \in BOOLEAN /\ alive \in BOOLEAN
    /\ entry \in [Addrs -> Names \cup {Absent, Null}]
    /\ running \in [Addrs -> BOOLEAN]

\* Names are unique, only renaming changes them, a deleted interface has no
\* addresses, and the history has the deprecated ones.
NameInv ==
    /\ \A i, j \in Indexes : name[i] = name[j] => i = j \/ name[i] = Gone
    /\ \A i \in Indexes : i \notin renamed => name[i] = FirstName[i]
    /\ \A a \in Addrs : name[IndexOf[a]] = Gone => status[a] = "absent"
    /\ \A a \in Addrs : status[a] = "deprecated" => a \in deprecated

Of(m, t, a) == m.type = t /\ m.addr = a

\* Messages about an interface that was not renamed carry its name.
LabelInv ==
    \A k \in 1..Len(queue), t \in {"new", "del"}, a \in Addrs :
        Of(queue[k], t, a) /\ IndexOf[a] \notin renamed => queue[k].label = FirstName[IndexOf[a]]

\* So does the server of its address.
EntryInv ==
    \A a \in Addrs : IndexOf[a] \notin renamed =>
        /\ entry[a] \in {Absent, Null, FirstName[IndexOf[a]]}
        /\ running[a] =>
            /\ entry[a] = FirstName[IndexOf[a]]
            /\ entry[a] \in Allowed
            /\ IndexOf[a] \in Multicast

\* A message after which the address is served, if its name is n.
Announces(m, a, n) == Of(m, "new", a) /\ m.flags = "preferred" /\ (a \notin V6 => m.label = n)

NoDel(q, a) == \A j \in 1..Len(q) : ~Of(q[j], "del", a)

\* Such a message is queued, and no removal after it.
Owed(q, a, n) ==
    \E i \in 1..Len(q) :
        Announces(q[i], a, n) /\ \A j \in 1..Len(q) : j > i => ~Of(q[j], "del", a)

Errors(q) == \E i \in 1..Len(q) : q[i].type = "error"

MissInv ==
    \A a \in Addrs :
        alive /\ ~overrun /\ Usable(a) /\ ~(a \in V6 /\ IndexOf[a] \in renamed) =>
            \/ dumping /\ a \in dump
            \/ Errors(queue)
            \/ Owed(queue, a, name[IndexOf[a]])
            \/ entry[a] # Absent /\ NoDel(queue, a)

\* A message that is not skipped.
Read(m, t, a) == Of(m, t, a) /\ ~Skipped(m)

\* A removal of the address is queued.
Removes(q, a) == \E j \in 1..Len(q) : Read(q[j], "del", a)

\* A removal is queued behind every announcement of the address.
TakenBack(q, a) ==
    \A i \in 1..Len(q) :
        Read(q[i], "new", a) => \E j \in 1..Len(q) : j > i /\ Read(q[j], "del", a)

GhostInv ==
    \A a \in Addrs :
        /\ alive /\ ~overrun
        /\ IndexOf[a] \notin renamed /\ a \notin deprecated
        /\ status[a] \in {"absent", "tentative"}
        => TakenBack(queue, a) /\ (running[a] => Removes(queue, a))

\* The inductive invariant.
IMInd == IMTypeOK /\ NameInv /\ LabelInv /\ EntryInv /\ MissInv /\ GhostInv

-----------------------------------------------------------------------------
(* Queues *)

\* r is q with more messages at the end.
Extends(r, q) ==
    /\ Len(q) \in Nat /\ Len(r) \in Nat /\ Len(q) <= Len(r)
    /\ \A k \in 1..Len(q) : r[k] = q[k]

More(r, q) == Len(q) + 1..Len(r)

\* What is queued stays queued when messages are added.
LEMMA ExtendedQueue ==
    ASSUME NEW q, NEW r, Extends(r, q), NEW a, NEW n
    PROVE  /\ Errors(q) => Errors(r)
           /\ Removes(q, a) => Removes(r, a)
           /\ (\A k \in More(r, q) : ~Of(r[k], "del", a)) =>
                /\ NoDel(q, a) => NoDel(r, a)
                /\ Owed(q, a, n) => Owed(r, a, n)
                /\ (\E k \in More(r, q) : Announces(r[k], a, n)) => Owed(r, a, n)
           /\ (\A k \in More(r, q) : ~Read(r[k], "new", a)) => (TakenBack(q, a) => TakenBack(r, a))
<1>1. /\ Len(q) \in Nat /\ Len(r) \in Nat /\ Len(q) <= Len(r)
      /\ \A k \in 1..Len(q) : k \in 1..Len(r) /\ r[k] = q[k]
      /\ \A k \in 1..Len(r) : k \in 1..Len(q) \/ k \in More(r, q)
      /\ \A k \in More(r, q) : k \in 1..Len(r)
      /\ \A k \in More(r, q), i \in 1..Len(q) : k > i /\ ~(i > k)
  BY DEF Extends, More
<1>2. Errors(q) => Errors(r)
  BY <1>1 DEF Errors
<1>3. Removes(q, a) => Removes(r, a)
  BY <1>1 DEF Removes
<1>4. ASSUME \A k \in More(r, q) : ~Of(r[k], "del", a)
      PROVE  NoDel(q, a) => NoDel(r, a)
  BY <1>1, <1>4 DEF NoDel
<1>5. ASSUME \A k \in More(r, q) : ~Of(r[k], "del", a), Owed(q, a, n)
      PROVE  Owed(r, a, n)
  <2>1. PICK i \in 1..Len(q) :
            Announces(q[i], a, n) /\ \A j \in 1..Len(q) : j > i => ~Of(q[j], "del", a)
    BY <1>5 DEF Owed
  <2>2. i \in 1..Len(r) /\ r[i] = q[i]
    BY <1>1
  <2>3. ASSUME NEW j \in 1..Len(r), j > i PROVE ~Of(r[j], "del", a)
    BY <1>1, <1>5, <2>1, <2>3
  <2> QED
    BY <2>1, <2>2, <2>3 DEF Owed
<1>6. ASSUME \A k \in More(r, q) : ~Of(r[k], "del", a), \E k \in More(r, q) : Announces(r[k], a, n)
      PROVE  Owed(r, a, n)
  <2>1. PICK i \in More(r, q) : Announces(r[i], a, n)
    BY <1>6
  <2>2. i \in 1..Len(r)
    BY <1>1
  <2>3. ASSUME NEW j \in 1..Len(r), j > i PROVE ~Of(r[j], "del", a)
    BY <1>1, <1>6, <2>3
  <2> QED
    BY <2>1, <2>2, <2>3 DEF Owed
<1>7. ASSUME \A k \in More(r, q) : ~Read(r[k], "new", a), TakenBack(q, a)
      PROVE  TakenBack(r, a)
  <2> SUFFICES ASSUME NEW i \in 1..Len(r), Read(r[i], "new", a)
               PROVE  \E j \in 1..Len(r) : j > i /\ Read(r[j], "del", a)
    BY DEF TakenBack
  <2>1. i \in 1..Len(q) /\ Read(q[i], "new", a)
    BY <1>1, <1>7
  <2>2. PICK j \in 1..Len(q) : j > i /\ Read(q[j], "del", a)
    BY <2>1, <1>7 DEF TakenBack
  <2> QED
    BY <2>2, <1>1
<1> QED
  BY <1>2, <1>3, <1>4, <1>5, <1>6, <1>7

\* What is queued, and is not the first message, is queued when that is read.
LEMMA ReadQueue ==
    ASSUME NEW q \in Seq(Messages), q # <<>>, NEW a, NEW n
    PROVE  /\ Errors(q) => Errors(Tail(q)) \/ Head(q).type = "error"
           /\ Removes(q, a) => Removes(Tail(q), a) \/ Read(Head(q), "del", a)
           /\ NoDel(q, a) => NoDel(Tail(q), a)
           /\ Owed(q, a, n) =>
                Owed(Tail(q), a, n) \/ (Announces(Head(q), a, n) /\ NoDel(Tail(q), a))
           /\ TakenBack(q, a) =>
                TakenBack(Tail(q), a) /\ (Read(Head(q), "new", a) => Removes(Tail(q), a))
<1> DEFINE r == Tail(q)
<1>0. Len(q) \in Nat /\ Len(q) >= 1 /\ Len(r) = Len(q) - 1 /\ Head(q) = q[1]
  OBVIOUS
<1>a. \A k \in 1..Len(r) : r[k] = q[k + 1]
  OBVIOUS
<1> HIDE DEF r
<1>1. /\ 1 \in 1..Len(q)
      /\ \A k \in 1..Len(r) : k + 1 \in 1..Len(q) /\ r[k] = q[k + 1] /\ k + 1 > 1
      /\ \A k \in 1..Len(q) : k = 1 \/ (k - 1 \in 1..Len(r) /\ q[k] = r[k - 1] /\ k > 1)
      /\ \A i, k \in 1..Len(q) : i - 1 > k - 1 <=> i > k
      /\ \A i, k \in 1..Len(r) : i + 1 > k + 1 <=> i > k
      /\ \A i \in 1..Len(r), k \in 1..Len(q) : i + 1 > k <=> i > k - 1
      /\ \A i \in 1..Len(r), k \in 1..Len(q) : k > i + 1 <=> k - 1 > i
  BY <1>0, <1>a
<1>2. Errors(q) => Errors(r) \/ Head(q).type = "error"
  BY <1>0, <1>1 DEF Errors
<1>3. Removes(q, a) => Removes(r, a) \/ Read(Head(q), "del", a)
  BY <1>0, <1>1 DEF Removes
<1>4. NoDel(q, a) => NoDel(r, a)
  BY <1>1 DEF NoDel
<1>5. ASSUME Owed(q, a, n)
      PROVE  Owed(r, a, n) \/ (Announces(Head(q), a, n) /\ NoDel(r, a))
  <2>1. PICK i \in 1..Len(q) :
            Announces(q[i], a, n) /\ \A j \in 1..Len(q) : j > i => ~Of(q[j], "del", a)
    BY <1>5 DEF Owed
  <2>2. CASE i = 1
    BY <2>1, <2>2, <1>0, <1>1 DEF NoDel
  <2>3. CASE i # 1
    <3>1. i - 1 \in 1..Len(r) /\ r[i - 1] = q[i]
      BY <2>3, <1>1
    <3>2. ASSUME NEW j \in 1..Len(r), j > i - 1 PROVE ~Of(r[j], "del", a)
      BY <2>1, <3>2, <1>1
    <3> QED
      BY <2>1, <3>1, <3>2 DEF Owed
  <2> QED
    BY <2>2, <2>3
<1>6. ASSUME TakenBack(q, a)
      PROVE  TakenBack(r, a) /\ (Read(Head(q), "new", a) => Removes(r, a))
  <2>1. ASSUME Read(Head(q), "new", a) PROVE Removes(r, a)
    <3>1. PICK j \in 1..Len(q) : j > 1 /\ Read(q[j], "del", a)
      BY <2>1, <1>0, <1>1, <1>6 DEF TakenBack
    <3> QED
      BY <3>1, <1>1 DEF Removes
  <2>2. ASSUME NEW i \in 1..Len(r), Read(r[i], "new", a)
        PROVE  \E j \in 1..Len(r) : j > i /\ Read(r[j], "del", a)
    <3>1. i + 1 \in 1..Len(q) /\ q[i + 1] = r[i]
      BY <1>1
    <3>2. PICK j \in 1..Len(q) : j > i + 1 /\ Read(q[j], "del", a)
      BY <3>1, <2>2, <1>6 DEF TakenBack
    <3>3. j # 1 /\ j - 1 > i
      BY <3>2, <1>0, <1>1
    <3> QED
      BY <3>2, <3>3, <1>1
  <2> QED
    BY <2>1, <2>2 DEF TakenBack
<1> QED
  BY <1>2, <1>3, <1>4, <1>5, <1>6 DEF r

-----------------------------------------------------------------------------
(* The kernel's steps *)

\* A message about an address is in the set of messages.
LEMMA MsgType ==
    ASSUME NEW t \in {"new", "del"}, NEW a \in Addrs, NEW n \in Names, NEW f \in Statuses
    PROVE  /\ Msg(t, a, n, f) \in Messages
           /\ \A u, b : Of(Msg(t, a, n, f), u, b) <=> u = t /\ b = a
           /\ Msg(t, a, n, f).label = n /\ Msg(t, a, n, f).flags = f
BY DEF Msg, Messages, Of

\* Queueing a message: a longer queue with the message last, or an overrun.
LEMMA NotifyStep ==
    ASSUME IMTypeOK, NEW m \in Messages, Notify(m)
    PROVE  /\ queue' \in Seq(Messages) /\ Len(queue') <= MaxQueue
           /\ overrun' \in BOOLEAN /\ (~overrun' => ~overrun)
           /\ Extends(queue', queue)
           /\ \A k \in More(queue', queue) : queue'[k] = m
           /\ ~overrun' => Len(queue') = Len(queue) + 1 /\ Len(queue') \in More(queue', queue)
<1>0. MaxQueue \in Nat /\ queue \in Seq(Messages) /\ Len(queue) \in Nat /\ Len(queue) <= MaxQueue
      /\ overrun \in BOOLEAN
  BY MonitorAssumption DEF IMTypeOK
<1>1. CASE Len(queue) < MaxQueue
  <2>1. queue' = Append(queue, m) /\ overrun' = overrun
    BY <1>1 DEF Notify
  <2>2. queue' \in Seq(Messages) /\ Len(queue') = Len(queue) + 1
    BY <2>1, <1>0
  <2>3. (\A k \in 1..Len(queue) : queue'[k] = queue[k]) /\ queue'[Len(queue) + 1] = m
    BY <2>1, <1>0
  <2> QED
    BY <1>0, <1>1, <2>1, <2>2, <2>3 DEF Extends, More
<1>2. CASE ~(Len(queue) < MaxQueue)
  BY <1>0, <1>2 DEF Notify, Extends, More
<1> QED
  BY <1>1, <1>2

\* What happens to an address keeps the invariant, if the message about it says
\* that it is there when it is, and that it is gone when it was there.
LEMMA AddrStep ==
    ASSUME IMInd, NEW a \in Addrs, NEW t \in {"new", "del"}, NEW f \in Statuses, NEW g \in Statuses,
           Changes(a, f), Notify(Msg(t, a, name[IndexOf[a]], g)),
           deprecated \subseteq deprecated', f = "deprecated" => a \in deprecated',
           f = "preferred" => t = "new" /\ g = "preferred",
           f \in {"absent", "tentative"} =>
               \/ status[a] = "deprecated"
               \/ status[a] \in {"absent", "tentative"} /\ (t = "del" \/ g \in {"tentative", "deprecated"})
               \/ t = "del" /\ g = "preferred"
    PROVE  IMInd'
<1> DEFINE n == name[IndexOf[a]]
           m == Msg(t, a, n, g)
<1>0. /\ alive /\ n # Gone
      /\ status' = [status EXCEPT ![a] = f]
      /\ UNCHANGED <<name, dump, dumping, renamed, entry, running, alive>>
  BY DEF Changes, manager
<1>t. IMTypeOK
  BY DEF IMInd
<1>i. IndexOf \in [Addrs -> Indexes]
  BY MonitorAssumption
<1>n. n \in Names
  BY <1>0, <1>t, <1>i DEF IMTypeOK
<1> HIDE DEF n
<1>m. /\ m \in Messages
      /\ \A u, b : Of(m, u, b) <=> u = t /\ b = a
      /\ m.label = n /\ m.flags = g
  BY <1>n, MsgType
<1>q. Notify(m)
  BY DEF n
<1> HIDE DEF m
<1>e. /\ queue' \in Seq(Messages) /\ Len(queue') <= MaxQueue
      /\ overrun' \in BOOLEAN /\ (~overrun' => ~overrun)
      /\ Extends(queue', queue)
      /\ \A k \in More(queue', queue) : queue'[k] = m
      /\ ~overrun' => Len(queue') = Len(queue) + 1 /\ Len(queue') \in More(queue', queue)
  BY <1>m, <1>q, <1>t, NotifyStep
<1>s. status'[a] = f /\ \A b \in Addrs : b # a => status'[b] = status[b]
  BY <1>0, <1>t DEF IMTypeOK
<1>1. IMTypeOK'
  BY <1>0, <1>t, <1>e DEF IMTypeOK
<1>2. NameInv'
  <2>1. \A b \in Addrs : name'[IndexOf[b]] = Gone => status'[b] = "absent"
    BY <1>0, <1>s DEF IMInd, NameInv, n
  <2>2. \A b \in Addrs : status'[b] = "deprecated" => b \in deprecated'
    BY <1>0, <1>s DEF IMInd, NameInv
  <2> QED
    BY <1>0, <2>1, <2>2 DEF IMInd, NameInv
<1>3. LabelInv'
  <2> SUFFICES ASSUME NEW k \in 1..Len(queue'), NEW u \in {"new", "del"}, NEW b \in Addrs,
                      Of(queue'[k], u, b), IndexOf[b] \notin renamed'
               PROVE  queue'[k].label = FirstName[IndexOf[b]]
    BY DEF LabelInv, Of
  <2>1. CASE k \in 1..Len(queue)
    BY <2>1, <1>0, <1>e DEF Extends, IMInd, LabelInv
  <2>2. CASE k \in More(queue', queue)
    <3>1. b = a /\ queue'[k].label = n
      BY <2>2, <1>e, <1>m
    <3> QED
      BY <3>1, <1>0, <1>i DEF IMInd, NameInv, n
  <2> QED
    BY <2>1, <2>2, <1>e DEF Extends, More
<1>4. EntryInv'
  BY <1>0 DEF IMInd, EntryInv
<1>5. MissInv'
  <2> SUFFICES ASSUME NEW b \in Addrs, alive', ~overrun', Usable(b)', ~(b \in V6 /\ IndexOf[b] \in renamed')
               PROVE  \/ dumping' /\ b \in dump'
                      \/ Errors(queue')
                      \/ Owed(queue', b, name'[IndexOf[b]])
                      \/ entry'[b] # Absent /\ NoDel(queue', b)
    BY DEF MissInv, Errors, Owed, NoDel, Announces, Of
  <2>1. CASE b = a
    <3>1. t = "new" /\ g = "preferred"
      BY <2>1, <1>s DEF Usable
    <3>2. \A k \in More(queue', queue) : ~Of(queue'[k], "del", a)
      BY <3>1, <1>e, <1>m
    <3>3. Announces(m, a, n)
      BY <3>1, <1>m DEF Announces
    <3>4. Owed(queue', a, n)
      BY <3>2, <3>3, <1>e, ExtendedQueue
    <3> QED
      BY <2>1, <3>4, <1>0 DEF n
  <2>2. CASE b # a
    <3>1. Usable(b) /\ ~(b \in V6 /\ IndexOf[b] \in renamed) /\ alive /\ ~overrun
      BY <2>2, <1>0, <1>s, <1>e DEF Usable
    <3>2. \/ dumping /\ b \in dump
          \/ Errors(queue)
          \/ Owed(queue, b, name[IndexOf[b]])
          \/ entry[b] # Absent /\ NoDel(queue, b)
      BY <3>1 DEF IMInd, MissInv
    <3>3. \A k \in More(queue', queue) : ~Of(queue'[k], "del", b)
      BY <2>2, <1>e, <1>m
    <3> QED
      BY <3>2, <3>3, <1>0, <1>e, ExtendedQueue
  <2> QED
    BY <2>1, <2>2
<1>6. GhostInv'
  <2> SUFFICES ASSUME NEW b \in Addrs, alive', ~overrun', IndexOf[b] \notin renamed',
                      b \notin deprecated', status'[b] \in {"absent", "tentative"}
               PROVE  TakenBack(queue', b) /\ (running'[b] => Removes(queue', b))
    BY DEF GhostInv, TakenBack, Removes, Read, Of, Skipped
  <2>0. b \notin deprecated /\ IndexOf[b] \notin renamed /\ alive /\ ~overrun
    BY <1>0, <1>e
  <2>1. CASE status[b] \in {"absent", "tentative"} /\ (b = a => t = "del" \/ g \in {"tentative", "deprecated"})
    <3>1. TakenBack(queue, b) /\ (running[b] => Removes(queue, b))
      BY <2>0, <2>1 DEF IMInd, GhostInv
    <3>2. \A k \in More(queue', queue) : ~Read(queue'[k], "new", b)
      BY <2>1, <1>e, <1>m DEF Read, Skipped
    <3> QED
      BY <3>1, <3>2, <1>0, <1>e, ExtendedQueue
  <2>2. CASE b = a /\ t = "del" /\ g = "preferred"
    <3>1. Read(queue'[Len(queue')], "del", b)
      BY <2>2, <2>0, <1>e, <1>m DEF Read, Skipped
    <3>2. Removes(queue', b)
      BY <3>1, <1>e DEF Removes, Extends, More
    <3>3. ASSUME NEW i \in 1..Len(queue'), Read(queue'[i], "new", b)
          PROVE  Len(queue') \in 1..Len(queue') /\ Len(queue') > i
      <4>1. i # Len(queue')
        BY <3>1, <3>3 DEF Read, Of
      <4> QED
        BY <4>1, <1>e
    <3> QED
      BY <3>1, <3>2, <3>3 DEF TakenBack
  <2>3. status[b] = "deprecated" => b \in deprecated
    BY DEF IMInd, NameInv
  <2> QED
    BY <2>0, <2>1, <2>2, <2>3, <1>s
<1> QED
  BY <1>1, <1>2, <1>3, <1>4, <1>5, <1>6 DEF IMInd

\* The four things that happen to an address.
LEMMA AddrSteps ==
    ASSUME IMInd, NEW a \in Addrs,
           AddrAdded(a) \/ AddrReady(a) \/ AddrDeprecated(a) \/ AddrRemoved(a)
    PROVE  IMInd'
<1>t. status[a] \in Statuses
  BY DEF IMInd, IMTypeOK
<1>s. {"absent", "tentative", "preferred", "deprecated"} \subseteq Statuses
  BY DEF Statuses
<1>1. CASE AddrAdded(a)
  <2> DEFINE f == IF a \in V6 THEN "tentative" ELSE "preferred"
  <2>1. /\ status[a] = "absent" /\ Changes(a, f)
        /\ Notify(Msg("new", a, name[IndexOf[a]], f)) /\ deprecated' = deprecated
    BY <1>1 DEF AddrAdded
  <2>2. f \in Statuses /\ f \in {"tentative", "preferred"}
    BY <1>s
  <2> HIDE DEF f
  <2> QED
    BY <2>1, <2>2, AddrStep
<1>2. CASE AddrReady(a)
  BY <1>2, <1>s, AddrStep DEF AddrReady
<1>3. CASE AddrDeprecated(a)
  BY <1>3, <1>s, AddrStep DEF AddrDeprecated
<1>4. CASE AddrRemoved(a)
  <2>1. /\ Changes(a, "absent") /\ Notify(Msg("del", a, name[IndexOf[a]], status[a]))
        /\ deprecated' = deprecated /\ status[a] \in {"tentative", "preferred", "deprecated"}
    BY <1>4, <1>t DEF AddrRemoved, Statuses
  <2> QED
    BY <2>1, <1>s, <1>t, AddrStep
<1> QED
  BY <1>1, <1>2, <1>3, <1>4

\* Queueing several messages: all of them, or an overrun.
LEMMA NotifyAllStep ==
    ASSUME IMTypeOK, NEW ms \in Seq(Messages), NotifyAll(ms)
    PROVE  /\ queue' \in Seq(Messages) /\ Len(queue') <= MaxQueue
           /\ overrun' \in BOOLEAN /\ (~overrun' => ~overrun)
           /\ Extends(queue', queue)
           /\ \A k \in More(queue', queue) : \E j \in 1..Len(ms) : queue'[k] = ms[j]
           /\ ~overrun' => \A j \in 1..Len(ms) : \E k \in More(queue', queue) : queue'[k] = ms[j]
<1> DEFINE room == MaxQueue - Len(queue)
<1>0. MaxQueue \in Nat /\ queue \in Seq(Messages) /\ Len(queue) \in Nat /\ Len(queue) <= MaxQueue
      /\ overrun \in BOOLEAN /\ Len(ms) \in Nat /\ room \in Nat
  BY MonitorAssumption DEF IMTypeOK
<1>c. ASSUME NEW xs \in Seq(Messages), queue' = queue \o xs
      PROVE  /\ queue' \in Seq(Messages) /\ Len(queue') = Len(queue) + Len(xs)
             /\ Extends(queue', queue)
             /\ \A k \in More(queue', queue) : k - Len(queue) \in 1..Len(xs) /\ queue'[k] = xs[k - Len(queue)]
             /\ \A j \in 1..Len(xs) : Len(queue) + j \in More(queue', queue) /\ queue'[Len(queue) + j] = xs[j]
  <2>1. queue' \in Seq(Messages) /\ Len(queue') = Len(queue) + Len(xs) /\ Len(xs) \in Nat
    BY <1>0, <1>c
  <2>2. \A k \in 1..Len(queue) : queue'[k] = queue[k]
    BY <1>0, <1>c
  <2>3. ASSUME NEW k \in More(queue', queue)
        PROVE  k - Len(queue) \in 1..Len(xs) /\ queue'[k] = xs[k - Len(queue)]
    <3>1. k \in Len(queue) + 1..Len(queue) + Len(xs)
      BY <2>1 DEF More
    <3> QED
      BY <3>1, <1>0, <1>c, <2>1
  <2>4. \A j \in 1..Len(xs) : Len(queue) + j \in More(queue', queue) /\ (Len(queue) + j) - Len(queue) = j
    BY <1>0, <2>1 DEF More
  <2> QED
    BY <1>0, <2>1, <2>2, <2>3, <2>4 DEF Extends
<1>1. CASE Len(ms) <= room
  <2>1. queue' = queue \o ms /\ overrun' = overrun
    BY <1>1 DEF NotifyAll
  <2>2. Len(queue') <= MaxQueue
    BY <1>0, <1>1, <1>c, <2>1
  <2> QED
    BY <1>0, <1>c, <2>1, <2>2
<1>2. CASE ~(Len(ms) <= room)
  <2> DEFINE xs == SubSeq(ms, 1, room)
  <2>1. queue' = queue \o xs /\ overrun' = TRUE
    BY <1>2 DEF NotifyAll
  <2>2. xs \in Seq(Messages) /\ Len(xs) = room /\ \A j \in 1..room : xs[j] = ms[j]
    BY <1>0, <1>2
  <2>3. 1..room \subseteq 1..Len(ms)
    BY <1>0, <1>2
  <2> HIDE DEF xs
  <2>4. Len(queue') <= MaxQueue
    BY <1>0, <1>c, <2>1, <2>2
  <2>5. /\ queue' \in Seq(Messages) /\ Extends(queue', queue)
        /\ \A k \in More(queue', queue) : k - Len(queue) \in 1..room /\ queue'[k] = xs[k - Len(queue)]
    BY <1>c, <2>1, <2>2
  <2>6. \A k \in More(queue', queue) : \E j \in 1..Len(ms) : queue'[k] = ms[j]
    <3> HIDE DEF room
    <3> QED
      BY <2>2, <2>3, <2>5
  <2> QED
    BY <2>1, <2>4, <2>5, <2>6
<1> QED
  BY <1>1, <1>2

\* Renaming an interface: its IPv4 addresses are owed under the new name.
LEMMA RenamedStep ==
    ASSUME IMInd, NEW i \in Indexes, NEW n \in Names, Renamed(i, n)
    PROVE  IMInd'
<1> DEFINE V4 == {a \in Addrs \ V6 : IndexOf[a] = i /\ status[a] # "absent"}
           C == Cardinality(V4)
<1>t. IMTypeOK
  BY DEF IMInd
<1>a. /\ IndexOf \in [Addrs -> Indexes] /\ IsFiniteSet(Addrs) /\ Gone \notin Names
  BY MonitorAssumption
<1>0. /\ alive /\ name[i] # Gone /\ \A j \in Indexes : name[j] # n
      /\ name' = [name EXCEPT ![i] = n]
      /\ renamed' = renamed \cup {i}
      /\ UNCHANGED <<status, dump, dumping, deprecated, entry, running, alive>>
  BY DEF Renamed, manager
<1>c. C \in Nat
  <2>1. V4 \subseteq Addrs
    OBVIOUS
  <2> HIDE DEF V4
  <2> QED
    BY <2>1, <1>a, FS_Subset, FS_CardinalityType
<1>1. PICK s \in Listings(V4) :
        NotifyAll([k \in 1..C |-> Msg("new", s[k], n, status[s[k]])])
  BY DEF Renamed
<1> DEFINE ms == [k \in 1..C |-> Msg("new", s[k], n, status[s[k]])]
<1>2. s \in [1..C -> V4] /\ \A x \in V4 : \E k \in 1..C : s[k] = x
  BY DEF Listings
<1>3. \A x \in V4 : x \in Addrs /\ x \notin V6 /\ IndexOf[x] = i /\ status[x] \in Statuses
  BY <1>t DEF IMTypeOK
<1>4. \A x \in Addrs : x \notin V6 /\ IndexOf[x] = i /\ status[x] # "absent" => x \in V4
  OBVIOUS
<1> HIDE DEF V4, C
<1>5. ASSUME NEW k \in 1..C
      PROVE  /\ ms[k] \in Messages
             /\ \A u, b : Of(ms[k], u, b) <=> u = "new" /\ b = s[k]
             /\ ms[k].label = n /\ ms[k].flags = status[s[k]]
  <2>1. ms[k] = Msg("new", s[k], n, status[s[k]]) /\ s[k] \in V4
    BY <1>2
  <2> HIDE DEF ms
  <2> QED
    BY <2>1, <1>3, MsgType
<1>6. ms \in Seq(Messages) /\ Len(ms) = C
  <2>1. ms \in [1..C -> Messages]
    BY <1>5
  <2> HIDE DEF ms
  <2> QED
    BY <2>1, <1>c
<1>7. NotifyAll(ms)
  BY <1>1
<1> HIDE DEF ms
<1>e. /\ queue' \in Seq(Messages) /\ Len(queue') <= MaxQueue
      /\ overrun' \in BOOLEAN /\ (~overrun' => ~overrun)
      /\ Extends(queue', queue)
      /\ \A k \in More(queue', queue) : \E j \in 1..C : queue'[k] = ms[j]
      /\ ~overrun' => \A j \in 1..C : \E k \in More(queue', queue) : queue'[k] = ms[j]
  BY <1>6, <1>7, <1>t, NotifyAllStep
<1>f. \A k \in More(queue', queue) : \A u, b :
          Of(queue'[k], u, b) => u = "new" /\ b \in Addrs /\ IndexOf[b] = i
  <2> SUFFICES ASSUME NEW k \in More(queue', queue), NEW u, NEW b, Of(queue'[k], u, b)
               PROVE  u = "new" /\ b \in Addrs /\ IndexOf[b] = i
    OBVIOUS
  <2>1. PICK j \in 1..C : queue'[k] = ms[j]
    BY <1>e
  <2>2. u = "new" /\ b = s[j]
    BY <2>1, <1>5
  <2>3. s[j] \in V4
    BY <1>2
  <2> QED
    BY <2>2, <2>3, <1>3
<1>n. name'[i] = n /\ \A j \in Indexes : j # i => name'[j] = name[j]
  BY <1>0, <1>t DEF IMTypeOK
<1>11. IMTypeOK'
  BY <1>0, <1>t, <1>e DEF IMTypeOK
<1>12. NameInv'
  <2>1. \A j, k \in Indexes : name'[j] = name'[k] => j = k \/ name'[j] = Gone
    BY <1>0, <1>n DEF IMInd, NameInv
  <2>2. \A j \in Indexes : j \notin renamed' => name'[j] = FirstName[j]
    BY <1>0, <1>n DEF IMInd, NameInv
  <2>3. \A a \in Addrs : name'[IndexOf[a]] = Gone => status'[a] = "absent"
    BY <1>0, <1>n, <1>a DEF IMInd, NameInv
  <2> QED
    BY <2>1, <2>2, <2>3, <1>0 DEF IMInd, NameInv
<1>13. LabelInv'
  <2> SUFFICES ASSUME NEW k \in 1..Len(queue'), NEW u \in {"new", "del"}, NEW b \in Addrs,
                      Of(queue'[k], u, b), IndexOf[b] \notin renamed'
               PROVE  queue'[k].label = FirstName[IndexOf[b]]
    BY DEF LabelInv, Of
  <2>1. CASE k \in 1..Len(queue)
    BY <2>1, <1>0, <1>e DEF Extends, IMInd, LabelInv
  <2>2. CASE k \in More(queue', queue)
    BY <2>2, <1>f, <1>0
  <2> QED
    BY <2>1, <2>2, <1>e DEF Extends, More
<1>14. EntryInv'
  BY <1>0 DEF IMInd, EntryInv
<1>15. MissInv'
  <2> SUFFICES ASSUME NEW b \in Addrs, alive', ~overrun', Usable(b)', ~(b \in V6 /\ IndexOf[b] \in renamed')
               PROVE  \/ dumping' /\ b \in dump'
                      \/ Errors(queue')
                      \/ Owed(queue', b, name'[IndexOf[b]])
                      \/ entry'[b] # Absent /\ NoDel(queue', b)
    BY DEF MissInv, Errors, Owed, NoDel, Announces, Of
  <2>0. \A k \in More(queue', queue) : ~Of(queue'[k], "del", b)
    BY <1>f
  <2>1. CASE IndexOf[b] = i
    <3>1. b \in V4 /\ status[b] = "preferred"
      BY <2>1, <1>0, <1>4 DEF Usable
    <3>2. PICK j \in 1..C : s[j] = b
      BY <3>1, <1>2
    <3>3. PICK k \in More(queue', queue) : queue'[k] = ms[j]
      BY <1>e
    <3>4. Announces(queue'[k], b, n)
      BY <3>1, <3>2, <3>3, <1>5 DEF Announces
    <3>5. Owed(queue', b, n)
      BY <2>0, <3>4, <1>e, ExtendedQueue
    <3> QED
      BY <2>1, <3>5, <1>n
  <2>2. CASE IndexOf[b] # i
    <3>1. name'[IndexOf[b]] = name[IndexOf[b]]
      BY <2>2, <1>n, <1>a
    <3>2. Usable(b) /\ ~(b \in V6 /\ IndexOf[b] \in renamed) /\ alive /\ ~overrun
      BY <2>2, <3>1, <1>0, <1>e DEF Usable
    <3>3. \/ dumping /\ b \in dump
          \/ Errors(queue)
          \/ Owed(queue, b, name[IndexOf[b]])
          \/ entry[b] # Absent /\ NoDel(queue, b)
      BY <3>2 DEF IMInd, MissInv
    <3> QED
      BY <2>0, <3>1, <3>3, <1>0, <1>e, ExtendedQueue
  <2> QED
    BY <2>1, <2>2
<1>16. GhostInv'
  <2> SUFFICES ASSUME NEW b \in Addrs, alive', ~overrun', IndexOf[b] \notin renamed',
                      b \notin deprecated', status'[b] \in {"absent", "tentative"}
               PROVE  TakenBack(queue', b) /\ (running'[b] => Removes(queue', b))
    BY DEF GhostInv, TakenBack, Removes, Read, Of, Skipped
  <2>1. TakenBack(queue, b) /\ (running[b] => Removes(queue, b))
    BY <1>0, <1>e DEF IMInd, GhostInv
  <2>2. \A k \in More(queue', queue) : ~Read(queue'[k], "new", b)
    BY <1>0, <1>f DEF Read
  <2> QED
    BY <2>1, <2>2, <1>0, <1>e, ExtendedQueue
<1> QED
  BY <1>11, <1>12, <1>13, <1>14, <1>15, <1>16 DEF IMInd

\* Deleting an interface: it has no addresses.
LEMMA DeletedStep ==
    ASSUME IMInd, NEW i \in Indexes, Deleted(i)
    PROVE  IMInd'
<1>0. /\ \A a \in Addrs : IndexOf[a] = i => status[a] = "absent"
      /\ name' = [name EXCEPT ![i] = Gone]
      /\ renamed' = renamed \cup {i}
      /\ UNCHANGED <<status, queue, overrun, dump, dumping, deprecated, entry, running, alive>>
  BY DEF Deleted, manager
<1>a. IndexOf \in [Addrs -> Indexes]
  BY MonitorAssumption
<1>n. name'[i] = Gone /\ \A j \in Indexes : j # i => name'[j] = name[j]
  BY <1>0 DEF IMInd, IMTypeOK
<1>1. IMTypeOK'
  BY <1>0 DEF IMInd, IMTypeOK
<1>2. NameInv'
  <2>1. \A j, k \in Indexes : name'[j] = name'[k] => j = k \/ name'[j] = Gone
    BY <1>n DEF IMInd, NameInv
  <2>2. \A j \in Indexes : j \notin renamed' => name'[j] = FirstName[j]
    BY <1>0, <1>n DEF IMInd, NameInv
  <2>3. \A a \in Addrs : name'[IndexOf[a]] = Gone => status'[a] = "absent"
    BY <1>0, <1>n, <1>a DEF IMInd, NameInv
  <2> QED
    BY <2>1, <2>2, <2>3, <1>0 DEF IMInd, NameInv
<1>3. LabelInv'
  BY <1>0 DEF IMInd, LabelInv, Of
<1>4. EntryInv'
  BY <1>0 DEF IMInd, EntryInv
<1>5. MissInv'
  <2> SUFFICES ASSUME NEW b \in Addrs, alive', ~overrun', Usable(b)', ~(b \in V6 /\ IndexOf[b] \in renamed')
               PROVE  \/ dumping' /\ b \in dump'
                      \/ Errors(queue')
                      \/ Owed(queue', b, name'[IndexOf[b]])
                      \/ entry'[b] # Absent /\ NoDel(queue', b)
    BY DEF MissInv, Errors, Owed, NoDel, Announces, Of
  <2>1. IndexOf[b] # i
    BY <1>0 DEF Usable
  <2>2. name'[IndexOf[b]] = name[IndexOf[b]]
    BY <2>1, <1>n, <1>a
  <2> QED
    BY <2>1, <2>2, <1>0 DEF Usable, IMInd, MissInv
<1>6. GhostInv'
  BY <1>0 DEF IMInd, GhostInv, TakenBack, Removes, Read, Of, Skipped
<1> QED
  BY <1>1, <1>2, <1>3, <1>4, <1>5, <1>6 DEF IMInd

\* The dump goes on or ends.
LEMMA DumpsStep ==
    ASSUME IMInd, Dumps
    PROVE  IMInd'
<1>t. IMTypeOK
  BY DEF IMInd
<1>a. IndexOf \in [Addrs -> Indexes] /\ MaxQueue \in Nat /\ Gone \notin Names
  BY MonitorAssumption
<1>0. /\ dumping /\ Len(queue) < MaxQueue
      /\ UNCHANGED <<name, status, overrun, deprecated, renamed, entry, running, alive>>
  BY DEF Dumps, manager
<1>q. queue \in Seq(Messages) /\ Len(queue) \in Nat
  BY <1>t DEF IMTypeOK
<1>x. ASSUME NEW m \in Messages, queue' = Append(queue, m)
      PROVE  /\ queue' \in Seq(Messages) /\ Len(queue') <= MaxQueue
             /\ Extends(queue', queue)
             /\ Len(queue') \in More(queue', queue)
             /\ \A k \in More(queue', queue) : queue'[k] = m
  <2>1. queue' \in Seq(Messages) /\ Len(queue') = Len(queue) + 1
    BY <1>x, <1>q
  <2>2. (\A k \in 1..Len(queue) : queue'[k] = queue[k]) /\ queue'[Len(queue) + 1] = m
    BY <1>x, <1>q
  <2> QED
    BY <1>0, <1>a, <1>q, <2>1, <2>2 DEF Extends, More
<1>l. ASSUME /\ queue' \in Seq(Messages) /\ Len(queue') <= MaxQueue
             /\ dump' \subseteq Addrs /\ dumping' \in BOOLEAN
             /\ Extends(queue', queue),
             \A k \in More(queue', queue), u \in {"new", "del"}, b \in Addrs :
                Of(queue'[k], u, b) =>
                    /\ u = "new" /\ queue'[k].label = name[IndexOf[b]]
                    /\ queue'[k].flags = status[b] /\ status[b] # "absent",
             \A b \in Addrs : status[b] = "preferred" /\ b \in dump /\ ~(dumping' /\ b \in dump') =>
                Owed(queue', b, name[IndexOf[b]])
      PROVE  IMInd'
  <2>1. IMTypeOK'
    BY <1>0, <1>t, <1>l DEF IMTypeOK
  <2>2. NameInv'
    BY <1>0 DEF IMInd, NameInv
  <2>3. LabelInv'
    <3> SUFFICES ASSUME NEW k \in 1..Len(queue'), NEW u \in {"new", "del"}, NEW b \in Addrs,
                        Of(queue'[k], u, b), IndexOf[b] \notin renamed'
                 PROVE  queue'[k].label = FirstName[IndexOf[b]]
      BY DEF LabelInv, Of
    <3>1. CASE k \in 1..Len(queue)
      BY <3>1, <1>0, <1>l DEF Extends, IMInd, LabelInv
    <3>2. CASE k \in More(queue', queue)
      BY <3>2, <1>0, <1>a, <1>l DEF IMInd, NameInv
    <3> QED
      BY <3>1, <3>2, <1>l DEF Extends, More
  <2>4. EntryInv'
    BY <1>0 DEF IMInd, EntryInv
  <2>5. MissInv'
    <3> SUFFICES ASSUME NEW b \in Addrs, alive', ~overrun', Usable(b)', ~(b \in V6 /\ IndexOf[b] \in renamed')
                 PROVE  \/ dumping' /\ b \in dump'
                        \/ Errors(queue')
                        \/ Owed(queue', b, name'[IndexOf[b]])
                        \/ entry'[b] # Absent /\ NoDel(queue', b)
      BY DEF MissInv, Errors, Owed, NoDel, Announces, Of
    <3>1. Usable(b) /\ alive /\ ~overrun /\ ~(b \in V6 /\ IndexOf[b] \in renamed)
      BY <1>0 DEF Usable
    <3>2. \/ dumping /\ b \in dump
          \/ Errors(queue)
          \/ Owed(queue, b, name[IndexOf[b]])
          \/ entry[b] # Absent /\ NoDel(queue, b)
      BY <3>1 DEF IMInd, MissInv
    <3>3. \A k \in More(queue', queue) : ~Of(queue'[k], "del", b)
      BY <1>l
    <3>4. CASE dumping /\ b \in dump
      BY <3>4, <3>1, <1>0, <1>l DEF Usable
    <3>5. CASE ~(dumping /\ b \in dump)
      BY <3>2, <3>3, <3>5, <1>0, <1>l, ExtendedQueue
    <3> QED
      BY <3>4, <3>5
  <2>6. GhostInv'
    <3> SUFFICES ASSUME NEW b \in Addrs, alive', ~overrun', IndexOf[b] \notin renamed',
                        b \notin deprecated', status'[b] \in {"absent", "tentative"}
                 PROVE  TakenBack(queue', b) /\ (running'[b] => Removes(queue', b))
      BY DEF GhostInv, TakenBack, Removes, Read, Of, Skipped
    <3>1. TakenBack(queue, b) /\ (running[b] => Removes(queue, b))
      BY <1>0 DEF IMInd, GhostInv
    <3>2. ASSUME NEW k \in More(queue', queue) PROVE ~Read(queue'[k], "new", b)
      <4>1. Of(queue'[k], "new", b) => queue'[k].flags = status[b] /\ status[b] # "absent"
        BY <1>l
      <4> QED
        BY <4>1, <1>0 DEF Read, Skipped
    <3> QED
      BY <3>1, <3>2, <1>0, <1>l, ExtendedQueue
  <2> QED
    BY <2>1, <2>2, <2>3, <2>4, <2>5, <2>6 DEF IMInd
<1>1. ASSUME NEW a \in dump, dump' = dump \ {a}, dumping' = dumping,
             queue' = IF status[a] = "absent" THEN queue
                      ELSE Append(queue, Msg("new", a, name[IndexOf[a]], status[a]))
      PROVE  IMInd'
  <2>1. a \in Addrs /\ dump' \subseteq Addrs /\ dumping' \in BOOLEAN /\ status[a] \in Statuses
    BY <1>1, <1>t DEF IMTypeOK
  <2>2. CASE status[a] = "absent"
    <3>1. queue' = queue /\ Extends(queue', queue) /\ More(queue', queue) = {}
      BY <2>2, <1>1, <1>q DEF Extends, More
    <3>2. \A b \in Addrs : status[b] = "preferred" /\ b \in dump => dumping' /\ b \in dump'
      BY <2>2, <1>0, <1>1
    <3>3. queue' \in Seq(Messages) /\ Len(queue') <= MaxQueue
      BY <3>1, <1>t DEF IMTypeOK
    <3> QED
      BY <3>1, <3>2, <3>3, <2>1, <1>l
  <2>3. CASE status[a] # "absent"
    <3> DEFINE n == name[IndexOf[a]]
               m == Msg("new", a, n, status[a])
    <3>1. n \in Names
      BY <2>1, <2>3, <1>a, <1>t DEF IMInd, NameInv, IMTypeOK
    <3> HIDE DEF n
    <3>2. /\ m \in Messages
          /\ \A u, b : Of(m, u, b) <=> u = "new" /\ b = a
          /\ m.label = n /\ m.flags = status[a]
      BY <3>1, <2>1, MsgType
    <3>3. queue' = Append(queue, m)
      BY <2>3, <1>1 DEF n
    <3> HIDE DEF m
    <3>4. /\ queue' \in Seq(Messages) /\ Len(queue') <= MaxQueue
          /\ Extends(queue', queue)
          /\ Len(queue') \in More(queue', queue)
          /\ \A k \in More(queue', queue) : queue'[k] = m
      BY <3>2, <3>3, <1>x
    <3>5. \A k \in More(queue', queue), u \in {"new", "del"}, b \in Addrs :
            Of(queue'[k], u, b) =>
                /\ u = "new" /\ queue'[k].label = name[IndexOf[b]]
                /\ queue'[k].flags = status[b] /\ status[b] # "absent"
      BY <3>2, <3>4, <2>3 DEF n
    <3>6. ASSUME NEW b \in Addrs, status[b] = "preferred", b \in dump, ~(dumping' /\ b \in dump')
          PROVE  Owed(queue', b, name[IndexOf[b]])
      <4>1. b = a
        BY <3>6, <1>0, <1>1
      <4>2. Announces(m, a, n)
        BY <4>1, <3>2, <3>6 DEF Announces
      <4>3. \A k \in More(queue', queue) : ~Of(queue'[k], "del", a)
        BY <3>2, <3>4
      <4>4. Owed(queue', a, n)
        BY <4>2, <4>3, <3>4, ExtendedQueue
      <4> QED
        BY <4>1, <4>4 DEF n
    <3> QED
      BY <3>4, <3>5, <3>6, <2>1, <1>l
  <2> QED
    BY <2>2, <2>3
<1>2. ASSUME dump = {}, dumping' = FALSE, queue' = Append(queue, [type |-> "done"]), dump' = dump
      PROVE  IMInd'
  <2> DEFINE m == [type |-> "done"]
  <2>1. m \in Messages /\ m.type = "done"
    BY DEF Messages
  <2> HIDE DEF m
  <2>2. /\ queue' \in Seq(Messages) /\ Len(queue') <= MaxQueue
        /\ Extends(queue', queue)
        /\ \A k \in More(queue', queue) : queue'[k] = m
    BY <2>1, <1>2, <1>x DEF m
  <2>3. \A k \in More(queue', queue), u \in {"new", "del"}, b \in Addrs : ~Of(queue'[k], u, b)
    BY <2>1, <2>2 DEF Of
  <2> QED
    BY <1>2, <2>2, <2>3, <1>l
<1> QED
  BY <1>1, <1>2 DEF Dumps

-----------------------------------------------------------------------------
(* The monitor's steps *)

\* Names depend on the kernel only.
LEMMA NamesKept ==
    ASSUME NameInv, UNCHANGED <<name, status, deprecated, renamed>>
    PROVE  NameInv'
BY DEF NameInv

\* Labels stay right when messages are read and errors queued.
LEMMA LabelsKept ==
    ASSUME LabelInv, renamed' = renamed,
           \A k \in 1..Len(queue') :
               \/ \E j \in 1..Len(queue) : queue'[k] = queue[j]
               \/ queue'[k].type = "error"
    PROVE  LabelInv'
<1> SUFFICES ASSUME NEW k \in 1..Len(queue'), NEW u \in {"new", "del"}, NEW b \in Addrs,
                    Of(queue'[k], u, b), IndexOf[b] \notin renamed'
             PROVE  queue'[k].label = FirstName[IndexOf[b]]
  BY DEF LabelInv, Of
<1>1. PICK j \in 1..Len(queue) : queue'[k] = queue[j]
  BY DEF Of
<1> QED
  BY <1>1 DEF LabelInv

\* What the monitor reads: the message, and what remains of the queue.
LEMMA ReceivesFacts ==
    ASSUME IMTypeOK, NEW t \in {"new", "del", "done", "error"}, Receives({t})
    PROVE  /\ alive /\ ~overrun /\ queue # <<>> /\ queue \in Seq(Messages)
           /\ Head(queue) \in Messages /\ Head(queue).type = t
           /\ Len(queue) >= 1 /\ Head(queue) = queue[1] /\ 1 \in 1..Len(queue)
           /\ Tail(queue) \in Seq(Messages) /\ Len(Tail(queue)) \in Nat
           /\ Len(Tail(queue)) + 1 <= MaxQueue /\ Len(Tail(queue)) <= MaxQueue
           /\ \A k \in 1..Len(Tail(queue)) : k + 1 \in 1..Len(queue) /\ Tail(queue)[k] = queue[k + 1]
           /\ t \in {"new", "del"} =>
                Head(queue) \in [type : {"new", "del"}, addr : Addrs, label : Names, flags : Statuses]
<1>0. MaxQueue \in Nat /\ queue \in Seq(Messages) /\ Len(queue) <= MaxQueue
  BY MonitorAssumption DEF IMTypeOK
<1>1. alive /\ ~overrun /\ queue # <<>> /\ Head(queue).type = t
  BY DEF Receives
<1>2. Len(queue) \in Nat /\ Len(queue) >= 1 /\ Head(queue) = queue[1] /\ 1 \in 1..Len(queue)
  BY <1>0, <1>1
<1>3. Head(queue) \in Messages
  BY <1>0, <1>2
<1>4. Tail(queue) \in Seq(Messages) /\ Len(Tail(queue)) = Len(queue) - 1
  BY <1>0, <1>1
<1>5. \A k \in 1..Len(Tail(queue)) : k + 1 \in 1..Len(queue) /\ Tail(queue)[k] = queue[k + 1]
  BY <1>0, <1>1, <1>2
<1>6. Len(Tail(queue)) + 1 <= MaxQueue /\ Len(Tail(queue)) <= MaxQueue /\ Len(Tail(queue)) \in Nat
  BY <1>0, <1>2, <1>4
<1>7. t \in {"new", "del"} =>
          Head(queue) \in [type : {"new", "del"}, addr : Addrs, label : Names, flags : Statuses]
  BY <1>1, <1>3 DEF Messages
<1> QED
  BY <1>0, <1>1, <1>2, <1>3, <1>4, <1>5, <1>6, <1>7

\* addAddress: the address has an entry, with the name if its server runs.
LEMMA AddAddressFacts ==
    ASSUME IMTypeOK, NEW a \in Addrs, NEW n \in Names, AddAddress(a, n)
    PROVE  /\ entry' \in [Addrs -> Names \cup {Absent, Null}] /\ running' \in [Addrs -> BOOLEAN]
           /\ entry'[a] \in {n, Null} /\ (running'[a] => entry'[a] = n)
           /\ \A b \in Addrs : b # a => entry'[b] = entry[b] /\ (running'[b] <=> running[b])
<1>t. entry \in [Addrs -> Names \cup {Absent, Null}] /\ running \in [Addrs -> BOOLEAN]
  BY DEF IMTypeOK
<1>1. CASE entry[a] = n /\ running[a]
  BY <1>1, <1>t DEF AddAddress, manager
<1>2. CASE ~(entry[a] = n /\ running[a])
  <2>1. PICK created \in BOOLEAN :
            /\ entry' = [entry EXCEPT ![a] = IF created THEN n ELSE Null]
            /\ running' = [running EXCEPT ![a] = created]
    BY <1>2 DEF AddAddress
  <2>2. CASE created
    BY <2>1, <2>2, <1>t
  <2>3. CASE ~created
    BY <2>1, <2>3, <1>t
  <2> QED
    BY <2>2, <2>3
<1> QED
  BY <1>1, <1>2

\* removeAddress: the entry goes if it has the name.
LEMMA RemoveAddressFacts ==
    ASSUME IMTypeOK, NEW a \in Addrs, NEW n, RemoveAddress(a, n)
    PROVE  /\ entry' \in [Addrs -> Names \cup {Absent, Null}] /\ running' \in [Addrs -> BOOLEAN]
           /\ entry'[a] \in {entry[a], Absent}
           /\ running'[a] => running[a] /\ entry'[a] = entry[a] /\ entry[a] # n
           /\ \A b \in Addrs : b # a => entry'[b] = entry[b] /\ (running'[b] <=> running[b])
<1>t. entry \in [Addrs -> Names \cup {Absent, Null}] /\ running \in [Addrs -> BOOLEAN]
  BY DEF IMTypeOK
<1>1. CASE entry[a] \in {n, Null}
  BY <1>1, <1>t DEF RemoveAddress
<1>2. CASE entry[a] \notin {n, Null}
  BY <1>2, <1>t DEF RemoveAddress, manager
<1> QED
  BY <1>1, <1>2

\* A message about an interface that was not renamed is read under its name.
LEMMA ReadName ==
    ASSUME IMInd, NEW t \in {"new", "del"}, Receives({t}), IndexOf[Head(queue).addr] \notin renamed
    PROVE  InterfaceName(Head(queue)) = FirstName[IndexOf[Head(queue).addr]]
<1> DEFINE m == Head(queue)
<1>1. /\ m \in [type : {"new", "del"}, addr : Addrs, label : Names, flags : Statuses]
      /\ m.type = t /\ m = queue[1] /\ 1 \in 1..Len(queue)
  BY ReceivesFacts DEF IMInd
<1> HIDE DEF m
<1>2. m.addr \in Addrs /\ IndexOf[m.addr] \in Indexes /\ IndexOf[m.addr] \notin renamed
  BY <1>1, MonitorAssumption DEF m
<1>3. m.label = FirstName[IndexOf[m.addr]]
  BY <1>1, <1>2 DEF IMInd, LabelInv, Of
<1>4. name[IndexOf[m.addr]] = FirstName[IndexOf[m.addr]]
  BY <1>2 DEF IMInd, NameInv
<1> QED
  BY <1>3, <1>4 DEF InterfaceName, m

\* Reading that an address is there.
LEMMA ReceiveNewStep ==
    ASSUME IMInd, ReceiveNew
    PROVE  IMInd'
<1> DEFINE m == Head(queue)
           n == InterfaceName(m)
           adds == Considered(m) /\ HasFlags(m)
<1>t. IMTypeOK
  BY DEF IMInd
<1>a. /\ FirstName \in [Indexes -> Names] /\ IndexOf \in [Addrs -> Indexes]
      /\ Gone \notin Names /\ Absent \notin Names /\ Null \notin Names /\ Multicast \subseteq Indexes
  BY MonitorAssumption
<1>0. /\ Receives({"new"}) /\ queue' = Tail(queue)
      /\ IF adds THEN AddAddress(m.addr, n) ELSE UNCHANGED <<entry, running>>
      /\ UNCHANGED <<name, status, dump, dumping, deprecated, renamed, overrun, alive>>
  BY DEF ReceiveNew, kvars, manager
<1>q. /\ alive /\ ~overrun /\ queue # <<>> /\ queue \in Seq(Messages)
      /\ m \in [type : {"new", "del"}, addr : Addrs, label : Names, flags : Statuses]
      /\ m.type = "new" /\ m = queue[1] /\ 1 \in 1..Len(queue)
      /\ queue' \in Seq(Messages) /\ Len(queue') <= MaxQueue
      /\ \A k \in 1..Len(queue') : k + 1 \in 1..Len(queue) /\ queue'[k] = queue[k + 1]
  BY <1>0, <1>t, ReceivesFacts
<1>b. m.addr \in Addrs /\ IndexOf[m.addr] \in Indexes
  BY <1>q, <1>a
<1>f. IndexOf[m.addr] \notin renamed => n = FirstName[IndexOf[m.addr]]
  BY <1>0, ReadName
<1>c. adds => n \in Names /\ n \in Allowed
  <2>1. n \in Names \cup {Gone}
    BY <1>b, <1>q, <1>t DEF InterfaceName, IMTypeOK
  <2> HIDE DEF n
  <2> QED
    BY <2>1 DEF Considered, n
<1>g. ASSUME adds, IndexOf[m.addr] \notin renamed PROVE IndexOf[m.addr] \in Multicast
  <2>1. PICK i \in Multicast : name[i] = n
    BY <1>g DEF HasFlags
  <2>2. name[IndexOf[m.addr]] = n /\ n # Gone /\ i \in Indexes
    BY <1>a, <1>b, <1>c, <1>f, <1>g DEF IMInd, NameInv
  <2> HIDE DEF n, adds, m
  <2> QED
    BY <2>1, <2>2, <1>b DEF IMInd, NameInv
<1>d. /\ entry' \in [Addrs -> Names \cup {Absent, Null}] /\ running' \in [Addrs -> BOOLEAN]
      /\ adds => entry'[m.addr] \in {n, Null} /\ (running'[m.addr] => entry'[m.addr] = n)
      /\ \A b \in Addrs : ~(adds /\ b = m.addr) => entry'[b] = entry[b] /\ (running'[b] <=> running[b])
  <2>1. CASE adds
    <3>1. AddAddress(m.addr, n) /\ n \in Names
      BY <2>1, <1>0, <1>c
    <3> HIDE DEF adds, n, m
    <3> QED
      BY <2>1, <3>1, <1>b, <1>t, AddAddressFacts
  <2>2. CASE ~adds
    <3>1. entry' = entry /\ running' = running
      BY <2>2, <1>0
    <3> HIDE DEF adds, n, m
    <3> QED
      BY <2>2, <3>1, <1>t DEF IMTypeOK
  <2> QED
    BY <2>1, <2>2
<1>1. IMTypeOK'
  BY <1>0, <1>t, <1>q, <1>d DEF IMTypeOK
<1>2. NameInv'
  BY <1>0, NamesKept DEF IMInd
<1>3. LabelInv'
  BY <1>0, <1>q, LabelsKept DEF IMInd
<1>4. EntryInv'
  <2> SUFFICES ASSUME NEW b \in Addrs, IndexOf[b] \notin renamed
               PROVE  /\ entry'[b] \in {Absent, Null, FirstName[IndexOf[b]]}
                      /\ running'[b] =>
                          /\ entry'[b] = FirstName[IndexOf[b]]
                          /\ entry'[b] \in Allowed
                          /\ IndexOf[b] \in Multicast
    BY <1>0 DEF EntryInv
  <2>1. CASE adds /\ b = m.addr
    <3> HIDE DEF adds, n, m
    <3> QED
      BY <2>1, <1>c, <1>d, <1>f, <1>g
  <2>2. CASE ~(adds /\ b = m.addr)
    <3>1. entry'[b] = entry[b] /\ (running'[b] <=> running[b])
      BY <2>2, <1>d
    <3> HIDE DEF adds, n, m
    <3> QED
      BY <3>1 DEF IMInd, EntryInv
  <2> QED
    BY <2>1, <2>2
<1>5. MissInv'
  <2> SUFFICES ASSUME NEW b \in Addrs, alive', ~overrun', Usable(b)', ~(b \in V6 /\ IndexOf[b] \in renamed')
               PROVE  \/ dumping' /\ b \in dump'
                      \/ Errors(queue')
                      \/ Owed(queue', b, name'[IndexOf[b]])
                      \/ entry'[b] # Absent /\ NoDel(queue', b)
    BY DEF MissInv, Errors, Owed, NoDel, Announces, Of
  <2> HIDE DEF adds
  <2>1. Usable(b) /\ ~(b \in V6 /\ IndexOf[b] \in renamed)
    BY <1>0 DEF Usable
  <2>2. \/ dumping /\ b \in dump
        \/ Errors(queue)
        \/ Owed(queue, b, name[IndexOf[b]])
        \/ entry[b] # Absent /\ NoDel(queue, b)
    BY <2>1, <1>q DEF IMInd, MissInv
  <2>3. entry[b] # Absent => entry'[b] # Absent
    <3> HIDE DEF n, m
    <3> QED
      BY <1>a, <1>c, <1>d, EntryAssumption
  <2>4. ASSUME Announces(m, b, name[IndexOf[b]]) PROVE entry'[b] # Absent
    <3>1. m.addr = b /\ ~Skipped(m) /\ n = name[IndexOf[b]]
      BY <2>4 DEF Announces, Of, Skipped, InterfaceName
    <3>2. n \in Allowed /\ IndexOf[b] \in Multicast /\ n # Gone
      BY <2>1, <3>1, <1>a, MonitorAssumption DEF Usable
    <3>3. adds
      BY <3>1, <3>2 DEF adds, Considered, HasFlags
    <3> HIDE DEF n, m
    <3> QED
      BY <3>1, <3>3, <1>a, <1>c, <1>d, EntryAssumption
  <2>5. m.type # "error"
    BY <1>q
  <2>6. /\ Errors(queue) => Errors(queue')
        /\ NoDel(queue, b) => NoDel(queue', b)
        /\ Owed(queue, b, name[IndexOf[b]]) =>
             Owed(queue', b, name[IndexOf[b]]) \/ (Announces(m, b, name[IndexOf[b]]) /\ NoDel(queue', b))
    <3> DEFINE nb == name[IndexOf[b]]
    <3> HIDE DEF nb
    <3>1. /\ Errors(queue) => Errors(Tail(queue)) \/ m.type = "error"
          /\ NoDel(queue, b) => NoDel(Tail(queue), b)
          /\ Owed(queue, b, nb) => Owed(Tail(queue), b, nb) \/ (Announces(m, b, nb) /\ NoDel(Tail(queue), b))
      BY <1>q, ReadQueue
    <3> QED
      BY <3>1, <2>5, <1>0 DEF nb
  <2> QED
    BY <2>2, <2>3, <2>4, <2>6, <1>0
<1>6. GhostInv'
  <2> SUFFICES ASSUME NEW b \in Addrs, alive', ~overrun', IndexOf[b] \notin renamed',
                      b \notin deprecated', status'[b] \in {"absent", "tentative"}
               PROVE  TakenBack(queue', b) /\ (running'[b] => Removes(queue', b))
    BY DEF GhostInv, TakenBack, Removes, Read, Of, Skipped
  <2> HIDE DEF adds
  <2>1. TakenBack(queue, b) /\ (running[b] => Removes(queue, b))
    BY <1>0, <1>q DEF IMInd, GhostInv
  <2>2. /\ TakenBack(queue', b) /\ (Read(m, "new", b) => Removes(queue', b))
        /\ Removes(queue, b) => Removes(queue', b) \/ Read(m, "del", b)
    BY <2>1, <1>0, <1>q, ReadQueue
  <2>3. ~Read(m, "del", b)
    BY <1>q DEF Read, Of
  <2>4. CASE adds /\ b = m.addr
    <3>1. Read(m, "new", b)
      BY <2>4, <1>q DEF adds, Read, Of, Considered
    <3> QED
      BY <3>1, <2>2
  <2>5. CASE ~(adds /\ b = m.addr)
    BY <2>5, <2>1, <2>2, <2>3, <1>d
  <2> QED
    BY <2>4, <2>5
<1> QED
  BY <1>1, <1>2, <1>3, <1>4, <1>5, <1>6 DEF IMInd

\* Reading that an address is gone.
LEMMA ReceiveDelStep ==
    ASSUME IMInd, ReceiveDel
    PROVE  IMInd'
<1> DEFINE m == Head(queue)
           n == InterfaceName(m)
<1>t. IMTypeOK
  BY DEF IMInd
<1>a. FirstName \in [Indexes -> Names] /\ IndexOf \in [Addrs -> Indexes] /\ Gone \notin Names
  BY MonitorAssumption
<1>0. /\ Receives({"del"}) /\ queue' = Tail(queue)
      /\ IF Considered(m) THEN RemoveAddress(m.addr, n) ELSE UNCHANGED <<entry, running>>
      /\ UNCHANGED <<name, status, dump, dumping, deprecated, renamed, overrun, alive>>
  BY DEF ReceiveDel, kvars, manager
<1>q. /\ alive /\ ~overrun /\ queue # <<>> /\ queue \in Seq(Messages)
      /\ m \in [type : {"new", "del"}, addr : Addrs, label : Names, flags : Statuses]
      /\ m.type = "del" /\ m = queue[1] /\ 1 \in 1..Len(queue)
      /\ queue' \in Seq(Messages) /\ Len(queue') <= MaxQueue
      /\ \A k \in 1..Len(queue') : k + 1 \in 1..Len(queue) /\ queue'[k] = queue[k + 1]
  BY <1>0, <1>t, ReceivesFacts
<1>b. m.addr \in Addrs /\ IndexOf[m.addr] \in Indexes
  BY <1>q, <1>a
<1>f. IndexOf[m.addr] \notin renamed => n = FirstName[IndexOf[m.addr]]
  BY <1>0, ReadName
<1>d. /\ entry' \in [Addrs -> Names \cup {Absent, Null}] /\ running' \in [Addrs -> BOOLEAN]
      /\ \A b \in Addrs : entry'[b] \in {entry[b], Absent}
      /\ \A b \in Addrs : running'[b] => running[b] /\ entry'[b] = entry[b]
      /\ \A b \in Addrs : b # m.addr => entry'[b] = entry[b]
      /\ Considered(m) /\ running'[m.addr] => entry[m.addr] # n
  <2>1. CASE Considered(m)
    <3>1. RemoveAddress(m.addr, n)
      BY <2>1, <1>0
    <3> HIDE DEF n, m
    <3> QED
      BY <3>1, <1>b, <1>t, RemoveAddressFacts
  <2>2. CASE ~Considered(m)
    <3>1. entry' = entry /\ running' = running
      BY <2>2, <1>0
    <3> HIDE DEF n, m
    <3> QED
      BY <2>2, <3>1, <1>t DEF IMTypeOK
  <2> QED
    BY <2>1, <2>2
<1>1. IMTypeOK'
  BY <1>0, <1>t, <1>q, <1>d DEF IMTypeOK
<1>2. NameInv'
  BY <1>0, NamesKept DEF IMInd
<1>3. LabelInv'
  BY <1>0, <1>q, LabelsKept DEF IMInd
<1>4. EntryInv'
  BY <1>0, <1>d DEF IMInd, EntryInv
<1>5. MissInv'
  <2> SUFFICES ASSUME NEW b \in Addrs, alive', ~overrun', Usable(b)', ~(b \in V6 /\ IndexOf[b] \in renamed')
               PROVE  \/ dumping' /\ b \in dump'
                      \/ Errors(queue')
                      \/ Owed(queue', b, name'[IndexOf[b]])
                      \/ entry'[b] # Absent /\ NoDel(queue', b)
    BY DEF MissInv, Errors, Owed, NoDel, Announces, Of
  <2>1. Usable(b) /\ ~(b \in V6 /\ IndexOf[b] \in renamed)
    BY <1>0 DEF Usable
  <2>2. \/ dumping /\ b \in dump
        \/ Errors(queue)
        \/ Owed(queue, b, name[IndexOf[b]])
        \/ entry[b] # Absent /\ NoDel(queue, b)
    BY <2>1, <1>q DEF IMInd, MissInv
  <2>3. NoDel(queue, b) => b # m.addr
    BY <1>q DEF NoDel, Of
  <2> DEFINE nb == name[IndexOf[b]]
  <2> HIDE DEF nb
  <2>4. /\ Errors(queue) => Errors(queue')
        /\ NoDel(queue, b) => NoDel(queue', b)
        /\ Owed(queue, b, nb) => Owed(queue', b, nb)
    <3>1. /\ Errors(queue) => Errors(Tail(queue)) \/ m.type = "error"
          /\ NoDel(queue, b) => NoDel(Tail(queue), b)
          /\ Owed(queue, b, nb) => Owed(Tail(queue), b, nb) \/ (Announces(m, b, nb) /\ NoDel(Tail(queue), b))
      BY <1>q, ReadQueue
    <3>2. m.type # "error" /\ ~Announces(m, b, nb)
      BY <1>q DEF Announces, Of
    <3> QED
      BY <3>1, <3>2, <1>0
  <2> QED
    BY <2>2, <2>3, <2>4, <1>0, <1>d DEF nb
<1>6. GhostInv'
  <2> SUFFICES ASSUME NEW b \in Addrs, alive', ~overrun', IndexOf[b] \notin renamed',
                      b \notin deprecated', status'[b] \in {"absent", "tentative"}
               PROVE  TakenBack(queue', b) /\ (running'[b] => Removes(queue', b))
    BY DEF GhostInv, TakenBack, Removes, Read, Of, Skipped
  <2>1. TakenBack(queue, b) /\ (running[b] => Removes(queue, b))
    BY <1>0, <1>q DEF IMInd, GhostInv
  <2>2. /\ TakenBack(queue', b)
        /\ Removes(queue, b) => Removes(queue', b) \/ Read(m, "del", b)
    BY <2>1, <1>0, <1>q, ReadQueue
  <2>3. ASSUME Read(m, "del", b), running'[b] PROVE FALSE
    <3>1. m.addr = b /\ ~Skipped(m) /\ running[b] /\ IndexOf[b] \notin renamed
      BY <2>3, <1>0, <1>d DEF Read, Of
    <3>2. n = FirstName[IndexOf[b]]
      BY <3>1, <1>f
    <3>3. entry[b] = n /\ n \in Allowed
      BY <3>1, <3>2 DEF IMInd, EntryInv
    <3>4. n # Gone
      BY <3>1, <3>2, <1>a, <1>b
    <3>5. Considered(m)
      BY <3>1, <3>3, <3>4 DEF Considered
    <3> QED
      BY <2>3, <3>1, <3>3, <3>5, <1>d
  <2> QED
    BY <2>1, <2>2, <2>3, <1>d
<1> QED
  BY <1>1, <1>2, <1>3, <1>4, <1>5, <1>6 DEF IMInd

\* Reading the end of a dump.
LEMMA ReceiveDoneStep ==
    ASSUME IMInd, ReceiveDone
    PROVE  IMInd'
<1> DEFINE m == Head(queue)
<1>t. IMTypeOK
  BY DEF IMInd
<1>0. /\ Receives({"done"}) /\ queue' = Tail(queue)
      /\ UNCHANGED <<name, status, dump, dumping, deprecated, renamed, overrun, alive, entry, running>>
  BY DEF ReceiveDone, kvars, manager
<1>q. /\ alive /\ ~overrun /\ queue # <<>> /\ queue \in Seq(Messages) /\ m.type = "done"
      /\ queue' \in Seq(Messages) /\ Len(queue') <= MaxQueue
      /\ \A k \in 1..Len(queue') : k + 1 \in 1..Len(queue) /\ queue'[k] = queue[k + 1]
  BY <1>0, <1>t, ReceivesFacts
<1> HIDE DEF m
<1>1. IMTypeOK'
  BY <1>0, <1>t, <1>q DEF IMTypeOK
<1>2. NameInv'
  BY <1>0, NamesKept DEF IMInd
<1>3. LabelInv'
  BY <1>0, <1>q, LabelsKept DEF IMInd
<1>4. EntryInv'
  BY <1>0 DEF IMInd, EntryInv
<1>5. MissInv'
  <2> SUFFICES ASSUME NEW b \in Addrs, alive', ~overrun', Usable(b)', ~(b \in V6 /\ IndexOf[b] \in renamed')
               PROVE  \/ dumping' /\ b \in dump'
                      \/ Errors(queue')
                      \/ Owed(queue', b, name'[IndexOf[b]])
                      \/ entry'[b] # Absent /\ NoDel(queue', b)
    BY DEF MissInv, Errors, Owed, NoDel, Announces, Of
  <2>1. Usable(b) /\ ~(b \in V6 /\ IndexOf[b] \in renamed)
    BY <1>0 DEF Usable
  <2>2. \/ dumping /\ b \in dump
        \/ Errors(queue)
        \/ Owed(queue, b, name[IndexOf[b]])
        \/ entry[b] # Absent /\ NoDel(queue, b)
    BY <2>1, <1>q DEF IMInd, MissInv
  <2> DEFINE nb == name[IndexOf[b]]
  <2> HIDE DEF nb
  <2>3. /\ Errors(queue) => Errors(Tail(queue)) \/ m.type = "error"
        /\ NoDel(queue, b) => NoDel(Tail(queue), b)
        /\ Owed(queue, b, nb) => Owed(Tail(queue), b, nb) \/ (Announces(m, b, nb) /\ NoDel(Tail(queue), b))
    BY <1>q, ReadQueue DEF m
  <2>4. m.type # "error" /\ ~Announces(m, b, nb)
    BY <1>q DEF Announces, Of
  <2> QED
    BY <2>2, <2>3, <2>4, <1>0 DEF nb
<1>6. GhostInv'
  <2> SUFFICES ASSUME NEW b \in Addrs, alive', ~overrun', IndexOf[b] \notin renamed',
                      b \notin deprecated', status'[b] \in {"absent", "tentative"}
               PROVE  TakenBack(queue', b) /\ (running'[b] => Removes(queue', b))
    BY DEF GhostInv, TakenBack, Removes, Read, Of, Skipped
  <2>1. TakenBack(queue, b) /\ (running[b] => Removes(queue, b))
    BY <1>0, <1>q DEF IMInd, GhostInv
  <2>2. TakenBack(queue', b) /\ (Removes(queue, b) => Removes(queue', b) \/ Read(m, "del", b))
    BY <2>1, <1>0, <1>q, ReadQueue DEF m
  <2>3. ~Read(m, "del", b)
    BY <1>q DEF Read, Of
  <2> QED
    BY <2>1, <2>2, <2>3, <1>0
<1> QED
  BY <1>1, <1>2, <1>3, <1>4, <1>5, <1>6 DEF IMInd

\* Asking for everything again, after an error or a truncated message: the
\* dump that starts, or the error that says that one is under way, owes all.
LEMMA RequestAllStep ==
    ASSUME IMInd, NEW t \in {"new", "error"}, Receives({t}), RequestAll(Tail(queue)),
           UNCHANGED <<name, status, deprecated, renamed, overrun, manager, alive>>
    PROVE  IMInd'
<1> DEFINE m == Head(queue)
           q == Tail(queue)
<1>t. IMTypeOK
  BY DEF IMInd
<1>0. UNCHANGED <<name, status, deprecated, renamed, overrun, alive, entry, running>>
  BY DEF manager
<1>q. /\ alive /\ ~overrun /\ queue # <<>> /\ queue \in Seq(Messages) /\ m.type = t
      /\ q \in Seq(Messages) /\ Len(q) \in Nat /\ Len(q) + 1 <= MaxQueue /\ Len(q) <= MaxQueue
      /\ \A k \in 1..Len(q) : k + 1 \in 1..Len(queue) /\ q[k] = queue[k + 1]
  BY <1>t, ReceivesFacts
<1> HIDE DEF m, q
<1>e. /\ queue' \in Seq(Messages) /\ Len(queue') <= MaxQueue
      /\ dump' \subseteq Addrs /\ dumping' \in BOOLEAN
      /\ Extends(queue', q)
      /\ \A k \in More(queue', q) : queue'[k].type = "error"
      /\ Errors(queue') \/ (dumping' /\ dump' = Addrs)
  <2>1. CASE dumping
    <3> DEFINE e == [type |-> "error"]
    <3>0. e \in Messages /\ e.type = "error"
      BY DEF Messages
    <3>1. queue' = Append(q, e) /\ dump' = dump /\ dumping' = dumping
      BY <2>1 DEF RequestAll, q
    <3> HIDE DEF e
    <3>2. queue' \in Seq(Messages) /\ Len(queue') = Len(q) + 1
      BY <3>0, <3>1, <1>q
    <3>3. (\A k \in 1..Len(q) : queue'[k] = q[k]) /\ queue'[Len(q) + 1] = e
      BY <3>0, <3>1, <1>q
    <3>4. Extends(queue', q) /\ More(queue', q) = {Len(q) + 1}
      BY <3>2, <3>3, <1>q DEF Extends, More
    <3>5. Errors(queue')
      BY <3>0, <3>2, <3>3, <1>q DEF Errors
    <3>6. Len(queue') <= MaxQueue
      BY <3>2, <1>q
    <3> QED
      BY <3>0, <3>1, <3>2, <3>3, <3>4, <3>5, <3>6, <1>t DEF IMTypeOK
  <2>2. CASE ~dumping
    <3>1. queue' = q /\ dump' = Addrs /\ dumping' = TRUE
      BY <2>2 DEF RequestAll, q
    <3>2. Extends(q, q) /\ More(q, q) = {}
      BY <1>q DEF Extends, More
    <3> QED
      BY <3>1, <3>2, <1>q
  <2> QED
    BY <2>1, <2>2
<1>1. IMTypeOK'
  BY <1>0, <1>t, <1>e DEF IMTypeOK
<1>2. NameInv'
  BY <1>0, NamesKept DEF IMInd
<1>3. LabelInv'
  <2>1. \A k \in 1..Len(queue') : k \in 1..Len(q) \/ k \in More(queue', q)
    BY <1>e DEF Extends, More
  <2>2. \A k \in 1..Len(q) : queue'[k] = queue[k + 1] /\ k + 1 \in 1..Len(queue)
    BY <1>e, <1>q DEF Extends
  <2> QED
    BY <2>1, <2>2, <1>0, <1>e, LabelsKept DEF IMInd
<1>4. EntryInv'
  BY <1>0 DEF IMInd, EntryInv
<1>5. MissInv'
  <2> SUFFICES ASSUME NEW b \in Addrs, alive', ~overrun', Usable(b)', ~(b \in V6 /\ IndexOf[b] \in renamed')
               PROVE  \/ dumping' /\ b \in dump'
                      \/ Errors(queue')
                      \/ Owed(queue', b, name'[IndexOf[b]])
                      \/ entry'[b] # Absent /\ NoDel(queue', b)
    BY DEF MissInv, Errors, Owed, NoDel, Announces, Of
  <2> QED
    BY <1>e
<1>6. GhostInv'
  <2> SUFFICES ASSUME NEW b \in Addrs, alive', ~overrun', IndexOf[b] \notin renamed',
                      b \notin deprecated', status'[b] \in {"absent", "tentative"}
               PROVE  TakenBack(queue', b) /\ (running'[b] => Removes(queue', b))
    BY DEF GhostInv, TakenBack, Removes, Read, Of, Skipped
  <2>1. TakenBack(queue, b) /\ (running[b] => Removes(queue, b))
    BY <1>0, <1>q DEF IMInd, GhostInv
  <2>2. TakenBack(q, b) /\ (Removes(queue, b) => Removes(q, b) \/ Read(m, "del", b))
    BY <2>1, <1>q, ReadQueue DEF m, q
  <2>3. ~Read(m, "del", b)
    BY <1>q DEF Read, Of
  <2>4. \A k \in More(queue', q) : ~Read(queue'[k], "new", b)
    BY <1>e DEF Read, Of
  <2>5. TakenBack(queue', b) /\ (Removes(q, b) => Removes(queue', b))
    BY <2>2, <2>4, <1>e, ExtendedQueue
  <2> QED
    BY <2>1, <2>2, <2>3, <2>5, <1>0
<1> QED
  BY <1>1, <1>2, <1>3, <1>4, <1>5, <1>6 DEF IMInd

\* A server that fails keeps its entry.
LEMMA ServerFailsStep ==
    ASSUME IMInd, NEW a \in Addrs, ServerFails(a)
    PROVE  IMInd'
<1>0. /\ running' = [running EXCEPT ![a] = FALSE]
      /\ UNCHANGED <<name, status, dump, dumping, deprecated, renamed, queue, overrun, alive, entry>>
  BY DEF ServerFails, Fails, kvars
<1>1. running' \in [Addrs -> BOOLEAN] /\ \A b \in Addrs : running'[b] => running[b]
  BY <1>0 DEF IMInd, IMTypeOK
<1>2. IMTypeOK' /\ NameInv'
  BY <1>0, <1>1, NamesKept DEF IMInd, IMTypeOK
<1>3. LabelInv'
  BY <1>0 DEF IMInd, LabelInv, Of
<1>4. EntryInv'
  BY <1>0, <1>1 DEF IMInd, EntryInv
<1>5. MissInv'
  <2> SUFFICES ASSUME NEW b \in Addrs, alive', ~overrun', Usable(b)', ~(b \in V6 /\ IndexOf[b] \in renamed')
               PROVE  \/ dumping' /\ b \in dump'
                      \/ Errors(queue')
                      \/ Owed(queue', b, name'[IndexOf[b]])
                      \/ entry'[b] # Absent /\ NoDel(queue', b)
    BY DEF MissInv, Errors, Owed, NoDel, Announces, Of
  <2> QED
    BY <1>0 DEF IMInd, MissInv, Usable
<1>6. GhostInv'
  <2> SUFFICES ASSUME NEW b \in Addrs, alive', ~overrun', IndexOf[b] \notin renamed',
                      b \notin deprecated', status'[b] \in {"absent", "tentative"}
               PROVE  TakenBack(queue', b) /\ (running'[b] => Removes(queue', b))
    BY DEF GhostInv, TakenBack, Removes, Read, Of, Skipped
  <2> QED
    BY <1>0, <1>1 DEF IMInd, GhostInv
<1> QED
  BY <1>2, <1>3, <1>4, <1>5, <1>6 DEF IMInd

\* Nothing is promised once the process has ended, or when nothing happens.
LEMMA IdleStep ==
    ASSUME IMInd, ReceiveFails \/ UNCHANGED imvars
    PROVE  IMInd'
<1>0. /\ alive' \in BOOLEAN /\ (alive' => alive)
      /\ UNCHANGED <<name, status, dump, dumping, deprecated, renamed, queue, overrun, entry, running>>
  <2>1. CASE ReceiveFails
    BY <2>1 DEF ReceiveFails, kvars, manager
  <2>2. CASE UNCHANGED imvars
    <3>1. alive \in BOOLEAN
      BY DEF IMInd, IMTypeOK
    <3> QED
      BY <2>2, <3>1 DEF imvars, kvars, manager
  <2> QED
    BY <2>1, <2>2
<1>1. IMTypeOK' /\ NameInv'
  BY <1>0, NamesKept DEF IMInd, IMTypeOK
<1>2. LabelInv' /\ EntryInv'
  BY <1>0 DEF IMInd, LabelInv, EntryInv, Of
<1>3. MissInv'
  <2> SUFFICES ASSUME NEW b \in Addrs, alive', ~overrun', Usable(b)', ~(b \in V6 /\ IndexOf[b] \in renamed')
               PROVE  \/ dumping' /\ b \in dump'
                      \/ Errors(queue')
                      \/ Owed(queue', b, name'[IndexOf[b]])
                      \/ entry'[b] # Absent /\ NoDel(queue', b)
    BY DEF MissInv, Errors, Owed, NoDel, Announces, Of
  <2> QED
    BY <1>0 DEF IMInd, MissInv, Usable
<1>4. GhostInv'
  <2> SUFFICES ASSUME NEW b \in Addrs, alive', ~overrun', IndexOf[b] \notin renamed',
                      b \notin deprecated', status'[b] \in {"absent", "tentative"}
               PROVE  TakenBack(queue', b) /\ (running'[b] => Removes(queue', b))
    BY DEF GhostInv, TakenBack, Removes, Read, Of, Skipped
  <2> QED
    BY <1>0 DEF IMInd, GhostInv
<1> QED
  BY <1>1, <1>2, <1>3, <1>4 DEF IMInd

-----------------------------------------------------------------------------
\* The invariant holds when start() has asked for everything.
LEMMA IMInitInd == IMInit => IMInd
<1> SUFFICES ASSUME IMInit PROVE IMInd
  OBVIOUS
<1>0. /\ name = FirstName /\ status \in [Addrs -> {"absent", "preferred"}]
      /\ queue = <<>> /\ overrun = FALSE /\ dump = Addrs /\ dumping = TRUE
      /\ entry = [a \in Addrs |-> Absent] /\ running = [a \in Addrs |-> FALSE]
      /\ alive = TRUE /\ deprecated = {} /\ renamed = {}
  BY DEF IMInit, MapInit
<1>l. queue \in Seq(Messages) /\ Len(queue) = 0
  BY <1>0
<1>1. IMTypeOK
  <2>1. name \in [Indexes -> Names \cup {Gone}] /\ Len(queue) <= MaxQueue
    BY <1>0, <1>l, MonitorAssumption
  <2>2. status \in [Addrs -> Statuses]
    BY <1>0 DEF Statuses
  <2>3. entry \in [Addrs -> Names \cup {Absent, Null}] /\ running \in [Addrs -> BOOLEAN]
    BY <1>0
  <2> QED
    BY <1>0, <1>l, <2>1, <2>2, <2>3 DEF IMTypeOK
<1>2. NameInv
  BY <1>0, MonitorAssumption DEF NameInv
<1>3. LabelInv /\ EntryInv
  BY <1>0, <1>l DEF LabelInv, EntryInv
<1>4. MissInv
  BY <1>0 DEF MissInv
<1>5. GhostInv
  BY <1>0, <1>l DEF GhostInv, TakenBack
<1> QED
  BY <1>1, <1>2, <1>3, <1>4, <1>5 DEF IMInd

\* Every step of the kernel, the monitor and the servers keeps it.
LEMMA IMStepInd == IMInd /\ [IMNext]_imvars => IMInd'
<1> SUFFICES ASSUME IMInd, [IMNext]_imvars PROVE IMInd'
  OBVIOUS
<1>1. CASE UNCHANGED imvars \/ ReceiveFails
  BY <1>1, IdleStep
<1>2. ASSUME NEW a \in Addrs,
             AddrAdded(a) \/ AddrReady(a) \/ AddrDeprecated(a) \/ AddrRemoved(a) \/ ServerFails(a)
      PROVE  IMInd'
  BY <1>2, AddrSteps, ServerFailsStep
<1>3. ASSUME NEW i \in Indexes, Deleted(i) \/ \E n \in Names : Renamed(i, n)
      PROVE  IMInd'
  BY <1>3, DeletedStep, RenamedStep
<1>4. CASE Dumps
  BY <1>4, DumpsStep
<1>5. CASE ReceiveNew \/ ReceiveDel \/ ReceiveDone
  BY <1>5, ReceiveNewStep, ReceiveDelStep, ReceiveDoneStep
<1>6. CASE ReceiveError
  BY <1>6, RequestAllStep DEF ReceiveError
<1>7. CASE ReceiveTruncated
  BY <1>7, RequestAllStep DEF ReceiveTruncated
<1> QED
  BY <1>1, <1>2, <1>3, <1>4, <1>5, <1>6, <1>7 DEF IMNext

\* The invariant holds always.
THEOREM IMIndAlways == IMSpec => []IMInd
BY IMInitInd, IMStepInd, PTL DEF IMSpec

\* Whatever the kernel does and however the dump, its errors and truncated
\* reads fall between the notifications (handleRead, parseBuffer): when all is
\* read, no address that should be served was missed.
THEOREM NoMissedAddressAlways == IMSpec => []NoMissedAddress
<1>1. IMInd => NoMissedAddress
  <2> SUFFICES ASSUME IMInd, Quiet, NEW a \in Addrs, Usable(a), ~(a \in V6 /\ IndexOf[a] \in renamed)
               PROVE  entry[a] # Absent
    BY DEF NoMissedAddress
  <2>1. alive /\ Len(queue) = 0 /\ ~dumping /\ ~overrun
    BY DEF Quiet
  <2>2. ~Errors(queue) /\ ~Owed(queue, a, name[IndexOf[a]])
    BY <2>1 DEF Errors, Owed
  <2> QED
    BY <2>1, <2>2 DEF IMInd, MissInv
<1> QED
  BY <1>1, IMIndAlways, PTL

\* And no address that is gone is served, unless it was deprecated or its
\* interface renamed; no other interface than the selected ones ever is
\* (handleDetected, removeAddress).
THEOREM GhostsExplainedAlways == IMSpec => []GhostsExplained
<1>1. IMInd => GhostsExplained
  <2> SUFFICES ASSUME IMInd, NEW a \in Addrs, running[a], IndexOf[a] \notin renamed
               PROVE  /\ IndexOf[a] \in Multicast /\ entry[a] \in Allowed
                      /\ Quiet /\ status[a] = "absent" => a \in deprecated
    BY DEF GhostsExplained
  <2>1. IndexOf[a] \in Multicast /\ entry[a] \in Allowed
    BY DEF IMInd, EntryInv
  <2>2. ASSUME Quiet, status[a] = "absent", a \notin deprecated PROVE FALSE
    <3>1. alive /\ Len(queue) = 0 /\ ~overrun
      BY <2>2 DEF Quiet
    <3>2. Removes(queue, a)
      BY <2>2, <3>1 DEF IMInd, GhostInv
    <3> QED
      BY <3>1, <3>2 DEF Removes
  <2> QED
    BY <2>1, <2>2
<1> QED
  BY <1>1, IMIndAlways, PTL
=============================================================================
