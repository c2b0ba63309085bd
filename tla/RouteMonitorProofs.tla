------------------------- MODULE RouteMonitorProofs -------------------------
(***************************************************************************)
(* Proofs about RouteMonitor, for any interfaces, names, addresses, and    *)
(* sizes of the socket's buffer and the monitor's.                         *)
(*                                                                         *)
(* The monitor follows the kernel through what is in the socket and in its *)
(* own buffer.  The invariant says that, for every address of which no     *)
(* notification was dropped, the last message about it in these tells      *)
(* whether it exists, and that the map does where there is no message.     *)
(* That the table, too, is such a sequence of messages is a fact about     *)
(* FlattenSeq, and the only one that needs induction.                      *)
(***************************************************************************)
EXTENDS RouteMonitor, FiniteSetTheorems, SequenceTheorems, WellFoundedInduction, TLAPS

InterfaceType == {NoInterface} \cup [index : Indexes, name : Names]

\* What a message of the socket says.
Notifications ==
    {m \in [type : {"new", "del"}, addr : Addrs, iface : [index : Indexes, name : Names]] :
        m.iface.index = IndexOf[m.addr]}
    \cup {Message(t, Absent, NoInterface) : t \in {"info", "announce"}}

\* What a message of the table says.
TableEntries ==
    {Message("info", Absent, [index |-> i, name |-> n]) : i \in Indexes, n \in Names}
    \cup {Message("new", a, NoInterface) : a \in Addrs}

RMTypeOK ==
    /\ name \in [Indexes -> Names \cup {Gone}]
    /\ present \subseteq Addrs /\ lost \subseteq Addrs /\ renamed \subseteq Indexes
    /\ queue \in Seq(Notifications)
    /\ pc \in {"size", "copy", "load", "parse", "wait", "failed", "stopped"}
    /\ pc = "load" => buf \in Seq(TableEntries)
    /\ pc # "load" => buf \in Seq(Notifications)
    /\ pc \notin {"load", "parse"} => buf = <<>>
    /\ known \subseteq [index : Indexes, usable : BOOLEAN]
    /\ last \in InterfaceType
    /\ running \in [Addrs -> BOOLEAN]
    /\ entry = [a \in Addrs |-> entry[a]]

\* Names are unique, only renaming changes them, and an interface with an
\* address has one.
NameInv ==
    /\ \A i, j \in Indexes : name[i] = name[j] => i = j \/ name[i] = Gone
    /\ \A i \in Indexes : i \notin renamed => name[i] = FirstName[i]
    /\ \A a \in present : name[IndexOf[a]] # Gone

\* The name that r has is that of its interface, unless that was renamed.
Named(r) == r.index \in Indexes \ renamed => r.name = FirstName[r.index]

LabelInv ==
    /\ \A k \in 1..Len(queue) : Named(queue[k].iface)
    /\ \A k \in 1..Len(buf) : Named(buf[k].iface)
    /\ Named(last)

\* Verdicts are right.
KnownInv == \A v \in known : v.index \notin renamed => (v.usable <=> v.index \in Multicast)

IsInfo(m) == m.type = "info"

\* The interface before an address of b is its own; before the first
\* interface of b this is l.
InPlace(b, l) ==
    \A k \in 1..Len(b) : b[k].type = "new" =>
        \/ l.index = IndexOf[b[k].addr] /\ \A j \in 1 .. k - 1 : ~IsInfo(b[j])
        \/ \E j \in 1 .. k - 1 :
              /\ IsInfo(b[j]) /\ b[j].iface.index = IndexOf[b[k].addr]
              /\ \A h \in j + 1 .. k - 1 : ~IsInfo(b[h])

PlaceInv == pc = "load" => InPlace(buf, last)

\* An address that is served is so on its own interface.
ServedInv ==
    \A a \in Addrs : running[a] /\ IndexOf[a] \notin renamed =>
        /\ entry[a] = [index |-> IndexOf[a], name |-> FirstName[IndexOf[a]]]
        /\ FirstName[IndexOf[a]] \in Allowed /\ IndexOf[a] \in Multicast

Of(m, a) == m.type \in {"new", "del"} /\ m.addr = a
About(q, a) == \E k \in 1..Len(q) : Of(q[k], a)

\* The last message about a says whether it exists.
EndsAs(q, a, t) ==
    \E k \in 1..Len(q) : /\ Of(q[k], a) /\ q[k].type = t
                         /\ \A j \in 1..Len(q) : j > k => ~Of(q[j], a)
Now(a) == IF a \in present THEN "new" ELSE "del"

QueueInv == \A a \in Addrs \ lost : About(queue, a) => EndsAs(queue, a, Now(a))

BufInv ==
    pc \in {"load", "parse", "wait"} =>
        \A a \in Addrs \ lost : ~About(queue, a) /\ About(buf, a) => EndsAs(buf, a, Now(a))

\* Where there is no message, the map says so.
MapInv ==
    /\ pc \in {"size", "copy"} => \A a \in Addrs : entry[a] = Absent /\ ~running[a]
    /\ pc \in {"load", "parse", "wait"} =>
        \A a \in Addrs \ lost :
            ~About(queue, a) /\ ~About(buf, a) /\ IndexOf[a] \notin renamed =>
                /\ Usable(a) => entry[a] # Absent
                /\ a \notin present => ~running[a]

\* The inductive invariant.
RMInd ==
    /\ RMTypeOK /\ NameInv /\ LabelInv /\ KnownInv /\ PlaceInv
    /\ ServedInv /\ QueueInv /\ BufInv /\ MapInv
-----------------------------------------------------------------------------
(* Messages *)

\* What is known of a message of the socket.
LEMMA NotificationFacts ==
    ASSUME NEW m \in Notifications
    PROVE  /\ m.type \in {"new", "del", "info", "announce"}
           /\ m.iface \in InterfaceType
           /\ m.type \in {"new", "del"} => /\ m.addr \in Addrs
                                           /\ m.iface # NoInterface /\ m.iface.index = IndexOf[m.addr]
           /\ m.type \in {"info", "announce"} => m.iface = NoInterface
<1>1. IndexOf \in [Addrs -> Indexes] /\ Gone \notin Names
  BY RouteAssumption
<1>2. CASE m \in [type : {"new", "del"}, addr : Addrs, iface : [index : Indexes, name : Names]]
              /\ m.iface.index = IndexOf[m.addr]
  <2>1. m.iface \in [index : Indexes, name : Names] /\ m.type \in {"new", "del"} /\ m.addr \in Addrs
    BY <1>2
  <2>2. m.iface.name \in Names /\ NoInterface.name = Gone
    BY <2>1 DEF NoInterface
  <2> QED
    BY <2>1, <2>2, <1>1, <1>2 DEF InterfaceType
<1>3. CASE \E t \in {"info", "announce"} : m = Message(t, Absent, NoInterface)
  BY <1>3 DEF Message, InterfaceType
<1> QED
  BY <1>2, <1>3 DEF Notifications

\* What is known of a message of the table.
LEMMA EntryFacts ==
    ASSUME NEW m \in TableEntries
    PROVE  /\ m.type \in {"info", "new"}
           /\ m.iface \in InterfaceType
           /\ m.type = "info" => m.iface # NoInterface
           /\ m.type = "new" => m.addr \in Addrs /\ m.iface = NoInterface
<1>1. Gone \notin Names
  BY RouteAssumption
<1>2. CASE \E i \in Indexes, n \in Names : m = Message("info", Absent, [index |-> i, name |-> n])
  <2>1. PICK i \in Indexes, n \in Names : m = Message("info", Absent, [index |-> i, name |-> n])
    BY <1>2
  <2>2. m.type = "info" /\ m.iface = [index |-> i, name |-> n]
    BY <2>1 DEF Message
  <2>3. m.iface.name = n /\ NoInterface.name = Gone
    BY <2>2 DEF NoInterface
  <2>4. m.iface \in [index : Indexes, name : Names]
    BY <2>2
  <2> QED
    BY <2>2, <2>3, <2>4, <1>1 DEF InterfaceType
<1>3. CASE \E a \in Addrs : m = Message("new", a, NoInterface)
  BY <1>3 DEF Message, InterfaceType
<1> QED
  BY <1>2, <1>3 DEF TableEntries

\* r is s and then t.
Joined(r, s, t) ==
    /\ Len(s) \in Nat /\ Len(t) \in Nat /\ Len(r) = Len(s) + Len(t)
    /\ \A k \in 1..Len(s) : r[k] = s[k]
    /\ \A k \in 1..Len(t) : r[k + Len(s)] = t[k]

\* What is said about an address in two sequences of messages, together: the
\* later one counts.
LEMMA JoinedMessages ==
    ASSUME NEW r, NEW s, NEW t, Joined(r, s, t), NEW a, NEW u
    PROVE  /\ About(r, a) <=> About(s, a) \/ About(t, a)
           /\ About(t, a) => (EndsAs(r, a, u) <=> EndsAs(t, a, u))
           /\ ~About(t, a) => (EndsAs(r, a, u) <=> EndsAs(s, a, u))
<1> DEFINE n == Len(s)
<1>0. n \in Nat /\ Len(t) \in Nat /\ Len(r) = n + Len(t)
  BY DEF Joined
<1>1. /\ \A k \in 1..n : r[k] = s[k] /\ k \in 1..Len(r)
      /\ \A k \in 1..Len(t) : r[k + n] = t[k] /\ k + n \in 1..Len(r)
      /\ \A k \in 1..Len(r) : k \in 1..n \/ (k - n \in 1..Len(t) /\ r[k] = t[k - n] /\ (k - n) + n = k)
  BY <1>0 DEF Joined
<1>a. /\ \A k \in 1..Len(t), j \in 1..n : k + n > j /\ ~(j > k + n)
      /\ \A k, j \in 1..Len(t) : j + n > k + n <=> j > k
      /\ \A k \in 1..Len(t), j \in 1..Len(r) : j > k + n <=> j - n > k
      /\ \A k \in 1..Len(r), j \in 1..Len(t) : j + n > k <=> j > k - n
      /\ \A k, j \in 1..Len(r) : j > k <=> j - n > k - n
  BY <1>0
<1> HIDE DEF n
<1>2. About(r, a) <=> About(s, a) \/ About(t, a)
  <2>1. ASSUME About(r, a) PROVE About(s, a) \/ About(t, a)
    BY <2>1, <1>1 DEF About, n
  <2>2. ASSUME About(s, a) PROVE About(r, a)
    BY <2>2, <1>1 DEF About, n
  <2>3. ASSUME About(t, a) PROVE About(r, a)
    BY <2>3, <1>1 DEF About
  <2> QED
    BY <2>1, <2>2, <2>3
<1>3. ASSUME EndsAs(t, a, u) PROVE EndsAs(r, a, u)
  <2>1. PICK k \in 1..Len(t) : /\ Of(t[k], a) /\ t[k].type = u
                               /\ \A j \in 1..Len(t) : j > k => ~Of(t[j], a)
    BY <1>3 DEF EndsAs
  <2>2. k + n \in 1..Len(r) /\ r[k + n] = t[k]
    BY <1>1
  <2>3. ASSUME NEW j \in 1..Len(r), j > k + n PROVE ~Of(r[j], a)
    BY <2>1, <2>3, <1>1, <1>a
  <2> QED
    BY <2>1, <2>2, <2>3 DEF EndsAs
<1>4. ASSUME EndsAs(r, a, u), About(t, a) PROVE EndsAs(t, a, u)
  <2>1. PICK k \in 1..Len(r) : /\ Of(r[k], a) /\ r[k].type = u
                               /\ \A j \in 1..Len(r) : j > k => ~Of(r[j], a)
    BY <1>4 DEF EndsAs
  <2>2. PICK h \in 1..Len(t) : Of(t[h], a)
    BY <1>4 DEF About
  <2>3. k \notin 1..n
    BY <2>1, <2>2, <1>1, <1>a
  <2>4. k - n \in 1..Len(t) /\ r[k] = t[k - n]
    BY <2>3, <1>1, <1>a
  <2>5. ASSUME NEW j \in 1..Len(t), j > k - n PROVE ~Of(t[j], a)
    BY <2>1, <2>5, <1>1, <1>a
  <2> QED
    BY <2>1, <2>4, <2>5 DEF EndsAs
<1>5. ASSUME EndsAs(s, a, u), ~About(t, a) PROVE EndsAs(r, a, u)
  <2>1. PICK k \in 1..n : /\ Of(s[k], a) /\ s[k].type = u
                          /\ \A j \in 1..n : j > k => ~Of(s[j], a)
    BY <1>5 DEF EndsAs, n
  <2>2. ASSUME NEW j \in 1..Len(r), j > k PROVE ~Of(r[j], a)
    BY <2>1, <2>2, <1>1, <1>a, <1>5 DEF About
  <2> QED
    BY <2>1, <2>2, <1>1 DEF EndsAs
<1>6. ASSUME EndsAs(r, a, u), ~About(t, a) PROVE EndsAs(s, a, u)
  <2>1. PICK k \in 1..Len(r) : /\ Of(r[k], a) /\ r[k].type = u
                               /\ \A j \in 1..Len(r) : j > k => ~Of(r[j], a)
    BY <1>6 DEF EndsAs
  <2>2. k \in 1..n
    BY <2>1, <1>1, <1>a, <1>6 DEF About
  <2>3. \A j \in 1..n : j > k => ~Of(s[j], a)
    BY <2>1, <1>1, <1>a
  <2> QED
    BY <2>1, <2>2, <2>3, <1>1 DEF EndsAs, n
<1> QED
  BY <1>2, <1>3, <1>4, <1>5, <1>6

\* One message.
LEMMA OneMessage ==
    ASSUME NEW m, NEW a, NEW u
    PROVE  /\ Len(<<m>>) = 1 /\ <<m>>[1] = m
           /\ About(<<m>>, a) <=> Of(m, a)
           /\ EndsAs(<<m>>, a, u) <=> Of(m, a) /\ m.type = u
<1>1. Len(<<m>>) = 1 /\ <<m>>[1] = m
  OBVIOUS
<1>2. \A k : k \in 1..Len(<<m>>) <=> k = 1
  BY <1>1
<1> QED
  BY <1>1, <1>2 DEF About, EndsAs

\* None.
LEMMA NoMessage ==
    ASSUME NEW a
    PROVE  Len(<<>>) = 0 /\ ~About(<<>>, a)
BY DEF About

\* The addresses of two tables, one after the other, are in place.
LEMMA JoinedPlaces ==
    ASSUME NEW r, NEW s, NEW t, Joined(r, s, t), NEW l,
           InPlace(s, l), InPlace(t, NoInterface),
           \A k \in 1..Len(t) : t[k].type = "new" => t[k].addr \in Addrs
    PROVE  InPlace(r, l)
<1> DEFINE n == Len(s)
<1>0. n \in Nat /\ Len(t) \in Nat /\ Len(r) = n + Len(t)
  BY DEF Joined
<1>1. /\ \A k \in 1..n : r[k] = s[k] /\ k \in 1..Len(r)
      /\ \A k \in 1..Len(t) : r[k + n] = t[k] /\ k + n \in 1..Len(r)
      /\ \A k \in 1..Len(r) : k \in 1..n \/ (k - n \in 1..Len(t) /\ r[k] = t[k - n] /\ (k - n) + n = k)
      /\ \A k \in 1..n : \A j \in 1 .. k - 1 : j \in 1..n
      /\ \A k \in 1..n : \A j \in 1 .. k - 1 : \A h \in j + 1 .. k - 1 : h \in 1..n
  BY <1>0 DEF Joined
<1>2. \A a \in Addrs : NoInterface.index # IndexOf[a]
  BY RouteAssumption DEF NoInterface, Indexes
<1> HIDE DEF n
<1> SUFFICES ASSUME NEW k \in 1..Len(r), r[k].type = "new"
             PROVE  \/ l.index = IndexOf[r[k].addr] /\ \A j \in 1 .. k - 1 : ~IsInfo(r[j])
                    \/ \E j \in 1 .. k - 1 :
                          /\ IsInfo(r[j]) /\ r[j].iface.index = IndexOf[r[k].addr]
                          /\ \A h \in j + 1 .. k - 1 : ~IsInfo(r[h])
  BY DEF InPlace
<1>3. CASE k \in 1..n
  <2>1. \/ l.index = IndexOf[s[k].addr] /\ \A j \in 1 .. k - 1 : ~IsInfo(s[j])
        \/ \E j \in 1 .. k - 1 :
              /\ IsInfo(s[j]) /\ s[j].iface.index = IndexOf[s[k].addr]
              /\ \A h \in j + 1 .. k - 1 : ~IsInfo(s[h])
    BY <1>1, <1>3 DEF InPlace, n
  <2>2. CASE l.index = IndexOf[s[k].addr] /\ \A j \in 1 .. k - 1 : ~IsInfo(s[j])
    BY <2>2, <1>1, <1>3
  <2>3. CASE \E j \in 1 .. k - 1 :
              /\ IsInfo(s[j]) /\ s[j].iface.index = IndexOf[s[k].addr]
              /\ \A h \in j + 1 .. k - 1 : ~IsInfo(s[h])
    BY <2>3, <1>1, <1>3
  <2> QED
    BY <2>1, <2>2, <2>3
<1>4. CASE k \notin 1..n
  <2>1. k - n \in 1..Len(t) /\ r[k] = t[k - n]
    BY <1>1, <1>4
  <2>2. t[k - n].addr \in Addrs
    BY <2>1
  <2>3. PICK j \in 1 .. (k - n) - 1 :
              /\ IsInfo(t[j]) /\ t[j].iface.index = IndexOf[t[k - n].addr]
              /\ \A h \in j + 1 .. (k - n) - 1 : ~IsInfo(t[h])
    BY <2>1, <2>2, <1>2 DEF InPlace
  <2>4. j \in 1..Len(t) /\ j + n \in 1 .. k - 1 /\ r[j + n] = t[j]
    BY <2>1, <1>0, <1>1
  <2>5. ASSUME NEW h \in (j + n) + 1 .. k - 1 PROVE ~IsInfo(r[h])
    <3>1. h - n \in j + 1 .. (k - n) - 1 /\ h - n \in 1..Len(t) /\ (h - n) + n = h
      BY <2>1, <2>4, <1>0
    <3>2. r[h] = t[h - n]
      BY <3>1, <1>1
    <3> QED
      BY <3>1, <3>2, <2>3
  <2> QED
    BY <2>1, <2>3, <2>4, <2>5
<1> QED
  BY <1>3, <1>4

\* After the first message of a table, the interface before an address is the
\* one of that message if it is an interface; if it is an address, its
\* interface is l.
LEMMA FirstPlace ==
    ASSUME NEW r, NEW m, NEW t, Joined(r, <<m>>, t), NEW l, InPlace(r, l)
    PROVE  /\ IsInfo(m) => InPlace(t, m.iface)
           /\ ~IsInfo(m) => InPlace(t, l)
           /\ m.type = "new" => l.index = IndexOf[m.addr]
<1>0. Len(<<m>>) = 1 /\ Len(t) \in Nat /\ Len(r) = 1 + Len(t) /\ r[1] = m /\ \A k \in 1..Len(t) : r[k + 1] = t[k]
  <2>1. Len(<<m>>) = 1 /\ <<m>>[1] = m
    OBVIOUS
  <2> QED
    BY <2>1 DEF Joined
<1>1. /\ \A k \in 1..Len(t) : r[k + 1] = t[k] /\ k + 1 \in 1..Len(r) /\ 1 \in 1 .. (k + 1) - 1
      /\ \A k \in 1..Len(t) : \A j \in 1 .. (k + 1) - 1 : j = 1 \/ (j - 1 \in 1 .. k - 1 /\ r[j] = t[j - 1])
      /\ \A k \in 1..Len(t) : \A j \in 1 .. k - 1 : j + 1 \in 1 .. (k + 1) - 1 /\ r[j + 1] = t[j]
      /\ \A k \in 1..Len(t) : \A j \in 1 .. (k + 1) - 1 : \A h \in (j - 1) + 1 .. k - 1 :
            j # 1 => h + 1 \in j + 1 .. (k + 1) - 1 /\ r[h + 1] = t[h]
      /\ \A k \in 1..Len(t) : \A h \in 1 .. k - 1 : h + 1 \in 1 + 1 .. (k + 1) - 1 /\ r[h + 1] = t[h]
  BY <1>0
<1>2. ASSUME NEW k \in 1..Len(t), t[k].type = "new"
      PROVE  \/ l.index = IndexOf[t[k].addr] /\ ~IsInfo(m) /\ \A j \in 1 .. k - 1 : ~IsInfo(t[j])
             \/ m.iface.index = IndexOf[t[k].addr] /\ IsInfo(m) /\ \A j \in 1 .. k - 1 : ~IsInfo(t[j])
             \/ \E j \in 1 .. k - 1 :
                   /\ IsInfo(t[j]) /\ t[j].iface.index = IndexOf[t[k].addr]
                   /\ \A h \in j + 1 .. k - 1 : ~IsInfo(t[h])
  <2>1. \/ l.index = IndexOf[t[k].addr] /\ \A j \in 1 .. (k + 1) - 1 : ~IsInfo(r[j])
        \/ \E j \in 1 .. (k + 1) - 1 :
              /\ IsInfo(r[j]) /\ r[j].iface.index = IndexOf[t[k].addr]
              /\ \A h \in j + 1 .. (k + 1) - 1 : ~IsInfo(r[h])
    BY <1>1, <1>2 DEF InPlace
  <2>2. CASE l.index = IndexOf[t[k].addr] /\ \A j \in 1 .. (k + 1) - 1 : ~IsInfo(r[j])
    BY <2>2, <1>0, <1>1
  <2>3. CASE \E j \in 1 .. (k + 1) - 1 :
              /\ IsInfo(r[j]) /\ r[j].iface.index = IndexOf[t[k].addr]
              /\ \A h \in j + 1 .. (k + 1) - 1 : ~IsInfo(r[h])
    <3>1. PICK j \in 1 .. (k + 1) - 1 :
              /\ IsInfo(r[j]) /\ r[j].iface.index = IndexOf[t[k].addr]
              /\ \A h \in j + 1 .. (k + 1) - 1 : ~IsInfo(r[h])
      BY <2>3
    <3>2. CASE j = 1
      BY <3>1, <3>2, <1>0, <1>1
    <3>3. CASE j # 1
      <4>1. j - 1 \in 1 .. k - 1 /\ r[j] = t[j - 1]
        BY <3>3, <1>1
      <4>2. \A h \in (j - 1) + 1 .. k - 1 : ~IsInfo(t[h])
        BY <3>1, <3>3, <1>1
      <4> QED
        BY <3>1, <4>1, <4>2
    <3> QED
      BY <3>2, <3>3
  <2> QED
    BY <2>1, <2>2, <2>3
<1>3. IsInfo(m) => InPlace(t, m.iface)
  BY <1>2 DEF InPlace
<1>4. ~IsInfo(m) => InPlace(t, l)
  BY <1>2 DEF InPlace
<1>5. m.type = "new" => l.index = IndexOf[m.addr]
  <2>1. 1 \in 1..Len(r) /\ ~ \E j : j \in 1 .. 1 - 1
    BY <1>0
  <2> QED
    BY <1>0, <2>1 DEF InPlace
<1> QED
  BY <1>3, <1>4, <1>5

-----------------------------------------------------------------------------
(* The table.  The numbers for which a formula holds are a set, so that       *)
(* induction is a fact about sets of numbers.                                 *)

LEMMA LeastNat ==
    ASSUME NEW T, T \subseteq Nat, T # {}
    PROVE  \E x \in T : \A y \in T : x <= y
<1>1. IsWellFoundedOn(OpToRel(<,Nat), Nat)
  BY NatLessThanWellFounded
<1>2. PICK x \in T : \A y \in T : ~ (<<y, x>> \in OpToRel(<,Nat))
  BY <1>1, WFMin
<1>3. \A z, y \in Nat : y < z => <<y, z>> \in OpToRel(<,Nat)
  BY DEF OpToRel
<1>4. ASSUME NEW y \in T PROVE x <= y
  <2>1. x \in Nat /\ y \in Nat
    OBVIOUS
  <2>2. ~(y < x)
    BY <1>2, <1>3, <2>1
  <2> QED
    BY <2>1, <2>2
<1> QED
  BY <1>4

LEMMA AllNat ==
    ASSUME NEW T, T \subseteq Nat, 0 \in T, \A n \in T : n + 1 \in T
    PROVE  T = Nat
<1> SUFFICES ASSUME Nat \ T # {} PROVE FALSE
  OBVIOUS
<1>1. PICK x \in Nat \ T : \A y \in Nat \ T : x <= y
  BY LeastNat
<1>2. x # 0 /\ x - 1 \in Nat /\ x - 1 \in T
  BY <1>1
<1> QED
  BY <1>2

\* The recursive function in FlattenSeq exists, so that it has its values.
LEMMA Flattened ==
    ASSUME NEW S, NEW seqs \in Seq(Seq(S)), Len(seqs) # 0
    PROVE  \E f : /\ f[1] = seqs[1]
                  /\ \A i \in 2..Len(seqs) : f[i] = f[i - 1] \o seqs[i]
                  /\ FlattenSeq(seqs) = f[Len(seqs)]
<1> DEFINE F(f, n) == f = [i \in 1..n |-> IF i = 1 THEN seqs[i] ELSE f[i - 1] \o seqs[i]]
           Ok(n) == \E f : F(f, n)
           T == {n \in Nat : Ok(n)}
<1>1. Ok(0)
  <2>1. F([i \in 1..0 |-> 0], 0)
    OBVIOUS
  <2> QED
    BY <2>1
<1>2. ASSUME NEW n \in Nat, Ok(n) PROVE Ok(n + 1)
  <2>1. PICK f : F(f, n)
    BY <1>2
  <2>2. \A j \in 1..n : f[j] = IF j = 1 THEN seqs[j] ELSE f[j - 1] \o seqs[j]
    BY <2>1
  <2> DEFINE g == [i \in 1 .. n + 1 |->
                     IF i = 1 THEN seqs[i] ELSE IF i <= n THEN f[i] ELSE f[n] \o seqs[i]]
  <2>3. \A j \in 1 .. n + 1 : g[j] = IF j = 1 THEN seqs[j] ELSE IF j <= n THEN f[j] ELSE f[n] \o seqs[j]
    OBVIOUS
  <2>4. g = [i \in 1 .. n + 1 |-> g[i]]
    OBVIOUS
  <2> HIDE DEF g
  <2>5. ASSUME NEW i \in 1 .. n + 1
        PROVE  g[i] = IF i = 1 THEN seqs[i] ELSE g[i - 1] \o seqs[i]
    <3>1. CASE i = 1
      BY <3>1, <2>3
    <3>2. CASE i # 1
      <4>1. i - 1 \in 1..n /\ i - 1 \in 1 .. n + 1 /\ i - 1 <= n
        BY <3>2
      <4>2. g[i - 1] = f[i - 1]
        BY <4>1, <2>2, <2>3
      <4>3. CASE i <= n
        <5>1. i \in 1..n
          BY <4>3
        <5>2. g[i] = f[i]
          BY <5>1, <3>2, <2>3
        <5> QED
          BY <5>1, <5>2, <4>2, <3>2, <2>2
      <4>4. CASE ~(i <= n)
        <5>1. i - 1 = n
          BY <4>4
        <5> QED
          BY <5>1, <4>2, <4>4, <3>2, <2>3
      <4> QED
        BY <4>3, <4>4
    <3> QED
      BY <3>1, <3>2
  <2>6. F(g, n + 1)
    BY <2>4, <2>5
  <2> QED
    BY <2>6
<1>3. Len(seqs) \in Nat
  OBVIOUS
<1>4. Ok(Len(seqs))
  <2> HIDE DEF Ok
  <2>1. T \subseteq Nat /\ 0 \in T
    BY <1>1
  <2>2. \A n \in T : n + 1 \in T
    BY <1>2
  <2> HIDE DEF T
  <2>3. Len(seqs) \in T
    BY <2>1, <2>2, <1>3, AllNat
  <2> QED
    BY <2>3 DEF T
<1> DEFINE h == CHOOSE f : F(f, Len(seqs))
<1>5. F(h, Len(seqs))
  BY <1>4
<1>6. FlattenSeq(seqs) = h[Len(seqs)]
  BY DEF FlattenSeq
<1>7. \A i \in 1..Len(seqs) : h[i] = IF i = 1 THEN seqs[i] ELSE h[i - 1] \o seqs[i]
  BY <1>5
<1> HIDE DEF h
<1>8. h[1] = seqs[1]
  <2>1. 1 \in 1..Len(seqs)
    BY <1>3
  <2> QED
    BY <2>1, <1>7
<1>9. ASSUME NEW i \in 2..Len(seqs) PROVE h[i] = h[i - 1] \o seqs[i]
  <2>1. i \in 1..Len(seqs) /\ i # 1
    BY <1>3
  <2> QED
    BY <2>1, <1>7
<1> QED
  BY <1>6, <1>8, <1>9

\* SetToSeq lists a finite set, each element once.
LEMMA Listed ==
    ASSUME NEW S, IsFiniteSet(S)
    PROVE  /\ SetToSeq(S) \in Seq(S)
           /\ \A x \in S : \E k \in 1..Len(SetToSeq(S)) : SetToSeq(S)[k] = x
           /\ \A j, k \in 1..Len(SetToSeq(S)) : SetToSeq(S)[j] = SetToSeq(S)[k] => j = k
<1> DEFINE n == Cardinality(S)
           f == SetToSeq(S)
<1>1. n \in Nat /\ ExistsBijection(1..n, S)
  BY FS_CardinalityType
<1>2. \E g \in [1..n -> S] : IsInjective(g)
  BY <1>1 DEF ExistsBijection, Bijection, Injection, IsInjective
<1>3. f \in [1..n -> S] /\ IsInjective(f)
  BY <1>2 DEF SetToSeq
<1> HIDE DEF f
<1>4. f \in Injection(1..n, S)
  BY <1>3 DEF Injection, IsInjective
<1>5. f \in Surjection(1..n, S)
  <2>1. Cardinality(1..n) = n
    BY <1>1, FS_Interval
  <2> QED
    BY <2>1, <1>4, FS_Injection
<1>6. f \in Seq(S) /\ Len(f) = n
  BY <1>1, <1>3
<1>7. \A x \in S : \E k \in 1..Len(f) : f[k] = x
  BY <1>5, <1>6 DEF Surjection
<1>8. \A j, k \in 1..Len(f) : f[j] = f[k] => j = k
  BY <1>3, <1>6 DEF IsInjective
<1> QED
  BY <1>6, <1>7, <1>8 DEF f

\* q is the part of the table for the interfaces in I.
Lists(q, I) ==
    /\ q \in Seq(TableEntries)
    /\ InPlace(q, NoInterface)
    /\ \A k \in 1..Len(q) : Named(q[k].iface)
    /\ \A a \in Addrs : /\ About(q, a) <=> a \in present /\ IndexOf[a] \in I
                        /\ About(q, a) => EndsAs(q, a, "new")

\* The part for one interface.
LEMMA ListOfLists ==
    ASSUME RMTypeOK, NameInv, NEW i \in Indexes
    PROVE  Lists(ListOf(i), {i})
<1>0. /\ IndexOf \in [Addrs -> Indexes] /\ IsFiniteSet(Addrs) /\ Gone \notin Names
      /\ name[i] \in Names \cup {Gone} /\ present \subseteq Addrs
      /\ \A a \in present : name[IndexOf[a]] # Gone
  BY RouteAssumption DEF RMTypeOK, NameInv
<1>1. CASE name[i] = Gone
  <2>1. ListOf(i) = <<>>
    BY <1>1 DEF ListOf
  <2>2. <<>> \in Seq(TableEntries) /\ Len(<<>>) = 0
    OBVIOUS
  <2>3. \A a \in Addrs : ~About(<<>>, a)
    BY NoMessage
  <2>4. \A k : k \notin 1..Len(<<>>)
    BY <2>2
  <2> QED
    BY <2>1, <2>2, <2>3, <2>4, <1>0, <1>1 DEF Lists, InPlace
<1>2. CASE name[i] # Gone
  <2> DEFINE S == {a \in present : IndexOf[a] = i}
             own == SetToSeq(S)
             t == [k \in DOMAIN own |-> Message("new", own[k], NoInterface)]
             m == Message("info", Absent, Interface(i))
             q == <<m>> \o t
  <2>1. ListOf(i) = q
    BY <1>2 DEF ListOf
  <2>2. IsFiniteSet(S)
    BY <1>0, FS_Subset
  <2>3. /\ own \in Seq(S)
        /\ \A x \in S : \E k \in 1..Len(own) : own[k] = x
        /\ \A j, k \in 1..Len(own) : own[j] = own[k] => j = k
    BY <2>2, Listed
  <2> HIDE DEF own
  <2>4. /\ Len(own) \in Nat /\ DOMAIN own = 1..Len(own)
        /\ \A k \in 1..Len(own) : own[k] \in S
    BY <2>3
  <2>5. /\ t \in Seq(TableEntries) /\ Len(t) = Len(own)
        /\ \A k \in 1..Len(own) : t[k] = Message("new", own[k], NoInterface)
    <3>1. \A k \in 1..Len(own) : Message("new", own[k], NoInterface) \in TableEntries
      BY <2>4, <1>0 DEF TableEntries
    <3> QED
      BY <3>1, <2>4
  <2> HIDE DEF t
  <2>6. /\ m \in TableEntries /\ m.type = "info" /\ m.iface = Interface(i)
        /\ m.iface.index = i /\ m.iface.name = name[i]
    <3>1. name[i] \in Names
      BY <1>0, <1>2
    <3> QED
      BY <3>1 DEF TableEntries, Message, Interface
  <2> HIDE DEF m
  <2>7. /\ <<m>> \in Seq(TableEntries) /\ Len(<<m>>) = 1 /\ <<m>>[1] = m
    BY <2>6
  <2>8. /\ q \in Seq(TableEntries) /\ Len(q) = 1 + Len(own) /\ q[1] = m
        /\ \A k \in 1..Len(own) : q[k + 1] = t[k]
        /\ Joined(q, <<m>>, t)
    <3>1. q \in Seq(TableEntries) /\ Len(q) = 1 + Len(own)
      BY <2>4, <2>5, <2>7
    <3>2. q[1] = m
      BY <2>4, <2>5, <2>7
    <3>3. \A k \in 1..Len(own) : q[k + 1] = t[k]
      BY <2>4, <2>5, <2>7
    <3> QED
      BY <3>1, <3>2, <3>3, <2>4, <2>5, <2>7 DEF Joined
  <2> HIDE DEF q
  <2>9. \A k \in 1..Len(own) : t[k].type = "new" /\ t[k].addr = own[k] /\ t[k].iface = NoInterface
    <3>1. \A x, y, z : Message(x, y, z).type = x /\ Message(x, y, z).addr = y /\ Message(x, y, z).iface = z
      BY DEF Message
    <3> QED
      BY <3>1, <2>5
  <2>10. InPlace(q, NoInterface)
    <3> SUFFICES ASSUME NEW k \in 1..Len(q), q[k].type = "new"
                 PROVE  \E j \in 1 .. k - 1 :
                            /\ IsInfo(q[j]) /\ q[j].iface.index = IndexOf[q[k].addr]
                            /\ \A h \in j + 1 .. k - 1 : ~IsInfo(q[h])
      BY DEF InPlace
    <3>1. k # 1
      BY <2>6, <2>8
    <3>2. /\ 1 \in 1 .. k - 1 /\ k - 1 \in 1..Len(own) /\ (k - 1) + 1 = k
          /\ \A h \in 1 + 1 .. k - 1 : h - 1 \in 1..Len(own) /\ (h - 1) + 1 = h
      BY <3>1, <2>4, <2>8
    <3>3. q[k].addr = own[k - 1] /\ own[k - 1] \in S
      BY <3>2, <2>4, <2>8, <2>9
    <3>4. \A h \in 1 + 1 .. k - 1 : ~IsInfo(q[h])
      BY <3>2, <2>8, <2>9 DEF IsInfo
    <3> QED
      BY <3>2, <3>3, <3>4, <2>6, <2>8 DEF IsInfo
  <2>11. ASSUME NEW k \in 1..Len(q) PROVE Named(q[k].iface)
    <3>1. CASE k = 1
      BY <3>1, <2>6, <2>8 DEF Named, NameInv
    <3>2. CASE k # 1
      <4>1. k - 1 \in 1..Len(own) /\ (k - 1) + 1 = k
        BY <3>2, <2>4, <2>8
      <4>2. q[k].iface = NoInterface
        BY <4>1, <2>8, <2>9
      <4> QED
        BY <4>2, RouteAssumption DEF Named, NoInterface, Indexes
    <3> QED
      BY <3>1, <3>2
  <2>12. ASSUME NEW a \in Addrs
         PROVE  /\ About(q, a) <=> a \in present /\ IndexOf[a] \in {i}
                /\ About(q, a) => EndsAs(q, a, "new")
    <3>1. \A k \in 1..Len(own) : Of(t[k], a) <=> own[k] = a
      BY <2>9 DEF Of
    <3>2. About(t, a) <=> a \in S
      BY <3>1, <2>3, <2>4, <2>5 DEF About
    <3>3. ASSUME About(t, a) PROVE EndsAs(t, a, "new")
      <4>1. PICK k \in 1..Len(own) : own[k] = a
        BY <3>1, <3>3, <2>5 DEF About
      <4>2. \A j \in 1..Len(t) : j > k => ~Of(t[j], a)
        BY <4>1, <3>1, <2>3, <2>4, <2>5
      <4> QED
        BY <4>1, <4>2, <3>1, <2>5, <2>9 DEF EndsAs
    <3>4. ~About(<<m>>, a)
      BY <2>6, OneMessage DEF Of
    <3> QED
      BY <3>2, <3>3, <3>4, <2>8, JoinedMessages
  <2> QED
    BY <2>1, <2>8, <2>10, <2>11, <2>12 DEF Lists
<1> QED
  BY <1>1, <1>2

\* The parts for some interfaces and for others are the part for all of them.
LEMMA JoinedLists ==
    ASSUME NEW s, NEW t, NEW I, NEW J, Lists(s, I), Lists(t, J)
    PROVE  Lists(s \o t, I \cup J)
<1> DEFINE r == s \o t
<1>1. s \in Seq(TableEntries) /\ t \in Seq(TableEntries)
  BY DEF Lists
<1>2. /\ r \in Seq(TableEntries) /\ Len(r) = Len(s) + Len(t) /\ Len(s) \in Nat /\ Len(t) \in Nat
      /\ \A k \in 1 .. Len(s) + Len(t) : r[k] = IF k <= Len(s) THEN s[k] ELSE t[k - Len(s)]
  BY <1>1, ConcatProperties
<1> HIDE DEF r
<1>3. \A k \in 1..Len(s) : r[k] = s[k]
  BY <1>2
<1>4. ASSUME NEW k \in 1..Len(t) PROVE r[k + Len(s)] = t[k]
  <2>1. k + Len(s) \in 1 .. Len(s) + Len(t) /\ ~(k + Len(s) <= Len(s)) /\ (k + Len(s)) - Len(s) = k
    BY <1>2
  <2> QED
    BY <2>1, <1>2
<1>5. Joined(r, s, t)
  BY <1>2, <1>3, <1>4 DEF Joined
<1>6. InPlace(r, NoInterface)
  <2>1. \A k \in 1..Len(t) : t[k].type = "new" => t[k].addr \in Addrs
    BY <1>1, EntryFacts
  <2> QED
    BY <2>1, <1>5, JoinedPlaces DEF Lists
<1>7. ASSUME NEW k \in 1..Len(r) PROVE Named(r[k].iface)
  <2>1. CASE k <= Len(s)
    <3>1. k \in 1..Len(s)
      BY <2>1, <1>2
    <3> QED
      BY <3>1, <1>3 DEF Lists
  <2>2. CASE ~(k <= Len(s))
    <3>1. k - Len(s) \in 1..Len(t) /\ r[k] = t[k - Len(s)]
      BY <2>2, <1>2
    <3> QED
      BY <3>1 DEF Lists
  <2> QED
    BY <2>1, <2>2
<1>8. ASSUME NEW a \in Addrs
      PROVE  /\ About(r, a) <=> a \in present /\ IndexOf[a] \in I \cup J
             /\ About(r, a) => EndsAs(r, a, "new")
  <2>1. /\ About(s, a) <=> a \in present /\ IndexOf[a] \in I
        /\ About(s, a) => EndsAs(s, a, "new")
        /\ About(t, a) <=> a \in present /\ IndexOf[a] \in J
        /\ About(t, a) => EndsAs(t, a, "new")
    BY DEF Lists
  <2> QED
    BY <2>1, <1>5, JoinedMessages
<1> QED
  BY <1>2, <1>6, <1>7, <1>8 DEF Lists, r

\* The table has each address that exists once, behind its own interface.
LEMMA TableLists ==
    ASSUME RMTypeOK, NameInv
    PROVE  Lists(List, Indexes)
<1> DEFINE seqs == [i \in Indexes |-> ListOf(i)]
<1>0. Interfaces \in Nat /\ IndexOf \in [Addrs -> Indexes]
  BY RouteAssumption
<1>1. \A i \in Indexes : Lists(ListOf(i), {i})
  BY ListOfLists
<1>2. \A i \in Indexes : ListOf(i) \in Seq(TableEntries)
  BY <1>1 DEF Lists
<1>3. /\ seqs \in Seq(Seq(TableEntries)) /\ Len(seqs) = Interfaces
      /\ \A i \in Indexes : seqs[i] = ListOf(i)
  BY <1>0, <1>2 DEF Indexes
<1>4. List = FlattenSeq(seqs)
  BY DEF List
<1> HIDE DEF seqs
<1>5. CASE Interfaces = 0
  <2>1. List = seqs
    BY <1>3, <1>4, <1>5 DEF FlattenSeq
  <2>2. seqs = <<>> /\ <<>> \in Seq(TableEntries) /\ Len(<<>>) = 0
    BY <1>3, <1>5
  <2>3. \A k : k \notin 1..Len(<<>>) /\ k \notin Indexes
    BY <2>2, <1>5 DEF Indexes
  <2>4. \A a \in Addrs : ~About(<<>>, a)
    BY NoMessage
  <2> QED
    BY <2>1, <2>2, <2>3, <2>4 DEF Lists, InPlace
<1>6. CASE Interfaces # 0
  <2>1. PICK f : /\ f[1] = seqs[1]
                 /\ \A i \in 2..Len(seqs) : f[i] = f[i - 1] \o seqs[i]
                 /\ FlattenSeq(seqs) = f[Len(seqs)]
    BY <1>3, <1>6, Flattened
  <2> DEFINE P(n) == n + 1 <= Interfaces => Lists(f[n + 1], 1 .. n + 1)
             T == {n \in Nat : P(n)}
  <2>2. P(0)
    <3>1. 1 \in Indexes /\ 0 + 1 = 1 /\ 1..1 = {1}
      BY <1>0, <1>6 DEF Indexes
    <3> QED
      BY <3>1, <2>1, <1>1, <1>3
  <2>3. ASSUME NEW n \in Nat, P(n) PROVE P(n + 1)
    <3> SUFFICES ASSUME (n + 1) + 1 <= Interfaces
                 PROVE  Lists(f[(n + 1) + 1], 1 .. (n + 1) + 1)
      OBVIOUS
    <3> DEFINE k == (n + 1) + 1
    <3>1. /\ k \in 2..Len(seqs) /\ k \in Indexes /\ k - 1 = n + 1 /\ n + 1 <= Interfaces
          /\ 1..k = (1 .. n + 1) \cup {k}
      BY <1>0, <1>3 DEF Indexes
    <3> HIDE DEF k
    <3>2. f[k] = f[n + 1] \o ListOf(k)
      BY <3>1, <2>1, <1>3
    <3>3. Lists(f[n + 1], 1 .. n + 1)
      BY <3>1, <2>3
    <3>4. Lists(f[n + 1] \o ListOf(k), (1 .. n + 1) \cup {k})
      BY <3>1, <3>3, <1>1, JoinedLists
    <3>5. Lists(f[k], 1..k)
      BY <3>1, <3>2, <3>4
    <3> QED
      BY <3>5 DEF k
  <2> HIDE DEF P
  <2>4. T \subseteq Nat /\ 0 \in T
    BY <2>2
  <2>5. \A n \in T : n + 1 \in T
    BY <2>3
  <2> HIDE DEF T
  <2>6. Interfaces - 1 \in T
    <3>1. Interfaces - 1 \in Nat
      BY <1>0, <1>6
    <3> QED
      BY <3>1, <2>4, <2>5, AllNat
  <2>7. P(Interfaces - 1)
    BY <2>6 DEF T
  <2>8. (Interfaces - 1) + 1 = Interfaces
    BY <1>0
  <2>9. Lists(f[Interfaces], 1..Interfaces)
    <3>1. (Interfaces - 1) + 1 <= Interfaces => Lists(f[(Interfaces - 1) + 1], 1 .. (Interfaces - 1) + 1)
      BY <2>7 DEF P
    <3>2. Interfaces <= Interfaces
      BY <1>0
    <3> QED
      BY <3>1, <3>2, <2>8
  <2> QED
    BY <2>1, <2>9, <1>3, <1>4 DEF Indexes
<1> QED
  BY <1>5, <1>6

-----------------------------------------------------------------------------
(* The kernel's steps *)

\* Queueing a message: it is last in the queue, or its address is in lost.
LEMMA NotifyStep ==
    ASSUME RMTypeOK, NEW m \in Notifications, Notify(m)
    PROVE  /\ queue' \in Seq(Notifications) /\ lost' \subseteq Addrs
           /\ \/ Joined(queue', queue, <<m>>) /\ lost' = lost \ {m.addr}
              \/ queue' = queue /\ lost' = lost \cup ({m.addr} \cap Addrs)
<1>0. queue \in Seq(Notifications) /\ Len(queue) \in Nat /\ lost \subseteq Addrs
  BY DEF RMTypeOK
<1>1. CASE Len(queue) < MaxQueue
  <2>1. queue' = Append(queue, m) /\ lost' = lost \ {m.addr}
    BY <1>1 DEF Notify
  <2>2. queue' \in Seq(Notifications) /\ Len(queue') = Len(queue) + 1
    BY <2>1, <1>0
  <2>3. (\A k \in 1..Len(queue) : queue'[k] = queue[k]) /\ queue'[1 + Len(queue)] = m
    BY <2>1, <1>0
  <2>4. Len(<<m>>) = 1 /\ <<m>>[1] = m
    OBVIOUS
  <2>5. Joined(queue', queue, <<m>>)
    BY <1>0, <2>2, <2>3, <2>4 DEF Joined
  <2> QED
    BY <1>0, <2>1, <2>2, <2>5
<1>2. CASE ~(Len(queue) < MaxQueue)
  BY <1>0, <1>2 DEF Notify
<1> QED
  BY <1>1, <1>2

\* What the queue says after a message was added, or dropped.
LEMMA NotifiedQueue ==
    ASSUME RMTypeOK, NEW m \in Notifications, Notify(m), NEW b \in Addrs, b \notin lost'
    PROVE  /\ Of(m, b) => About(queue', b) /\ EndsAs(queue', b, m.type)
           /\ ~Of(m, b) => /\ b \notin lost \/ (b = m.addr /\ Joined(queue', queue, <<m>>))
                           /\ About(queue', b) <=> About(queue, b)
                           /\ \A u : EndsAs(queue', b, u) <=> EndsAs(queue, b, u)
<1>1. \/ Joined(queue', queue, <<m>>) /\ lost' = lost \ {m.addr}
      \/ queue' = queue /\ lost' = lost \cup ({m.addr} \cap Addrs)
  BY NotifyStep
<1>2. \A u : /\ About(<<m>>, b) <=> Of(m, b)
             /\ EndsAs(<<m>>, b, u) <=> Of(m, b) /\ m.type = u
  BY OneMessage
<1>3. CASE Joined(queue', queue, <<m>>) /\ lost' = lost \ {m.addr}
  <2>1. \A u : /\ About(queue', b) <=> About(queue, b) \/ About(<<m>>, b)
               /\ About(<<m>>, b) => (EndsAs(queue', b, u) <=> EndsAs(<<m>>, b, u))
               /\ ~About(<<m>>, b) => (EndsAs(queue', b, u) <=> EndsAs(queue, b, u))
    BY <1>3, JoinedMessages
  <2> QED
    BY <2>1, <1>2, <1>3
<1>4. CASE queue' = queue /\ lost' = lost \cup ({m.addr} \cap Addrs)
  BY <1>4 DEF Of
<1> QED
  BY <1>1, <1>3, <1>4

\* Messages stay named.
LEMMA NotifiedLabels ==
    ASSUME RMTypeOK, LabelInv, NEW m \in Notifications, Notify(m), UNCHANGED <<buf, last>>,
           renamed \subseteq renamed',
           m.iface.index \in Indexes \ renamed' => m.iface.name = FirstName[m.iface.index]
    PROVE  LabelInv'
<1>1. \A r : Named(r) => (r.index \in Indexes \ renamed' => r.name = FirstName[r.index])
  BY DEF Named
<1>2. ASSUME NEW k \in 1..Len(queue')
      PROVE  queue'[k].iface.index \in Indexes \ renamed' => queue'[k].iface.name = FirstName[queue'[k].iface.index]
  <2>1. queue \in Seq(Notifications) /\ Len(queue) \in Nat
    BY DEF RMTypeOK
  <2>2. \/ Joined(queue', queue, <<m>>)
        \/ queue' = queue
    BY NotifyStep
  <2>3. CASE queue' = queue
    BY <2>3, <1>1 DEF LabelInv
  <2>4. CASE Joined(queue', queue, <<m>>)
    <3>1. Len(<<m>>) = 1 /\ <<m>>[1] = m
      OBVIOUS
    <3>2. Len(queue') = Len(queue) + 1 /\ queue'[1 + Len(queue)] = m
          /\ \A j \in 1..Len(queue) : queue'[j] = queue[j]
      BY <3>1, <2>1, <2>4 DEF Joined
    <3>3. CASE k \in 1..Len(queue)
      BY <3>2, <3>3, <1>1 DEF LabelInv
    <3>4. CASE k \notin 1..Len(queue)
      <4>1. k = 1 + Len(queue)
        BY <3>2, <3>4, <2>1
      <4> QED
        BY <4>1, <3>2
    <3> QED
      BY <3>3, <3>4
  <2> QED
    BY <2>2, <2>3, <2>4
<1>3. (\A k \in 1..Len(buf) : Named(buf[k].iface)) /\ Named(last)
  BY DEF LabelInv
<1> QED
  BY <1>1, <1>2, <1>3 DEF LabelInv, Named

\* An address comes or goes, and its message says so.
LEMMA AddrStep ==
    ASSUME RMInd, NEW a \in Addrs, NEW t \in {"new", "del"},
           name[IndexOf[a]] # Gone,
           present' = IF t = "new" THEN present \cup {a} ELSE present \ {a},
           Notify(Message(t, a, Interface(IndexOf[a]))),
           UNCHANGED <<name, renamed, pc, table, manager>>
    PROVE  RMInd'
<1> DEFINE m == Message(t, a, Interface(IndexOf[a]))
<1>0. /\ UNCHANGED <<name, renamed, pc, want, buf, half, known, last, entry, running>>
  BY DEF table, manager
<1>t. /\ RMTypeOK /\ NameInv /\ LabelInv /\ KnownInv /\ PlaceInv
      /\ ServedInv /\ QueueInv /\ BufInv /\ MapInv
  BY DEF RMInd
<1>i. IndexOf[a] \in Indexes /\ IndexOf \in [Addrs -> Indexes] /\ name[IndexOf[a]] \in Names
  BY RouteAssumption, <1>t DEF RMTypeOK
<1>m. /\ m.type = t /\ m.addr = a /\ m.iface = Interface(IndexOf[a])
      /\ m.iface.index = IndexOf[a] /\ m.iface.name = name[IndexOf[a]]
      /\ m \in Notifications
  BY <1>i DEF Message, Interface, Notifications
<1>n. Notify(m)
  OBVIOUS
<1> HIDE DEF m
<1>o. \A b : Of(m, b) <=> b = a
  BY <1>m DEF Of
<1>q. /\ queue' \in Seq(Notifications) /\ lost' \subseteq Addrs
      /\ \/ Joined(queue', queue, <<m>>) /\ lost' = lost \ {a}
         \/ queue' = queue /\ lost' = lost \cup ({a} \cap Addrs)
  BY <1>m, <1>n, <1>t, NotifyStep
<1>b. ASSUME NEW b \in Addrs, b \notin lost', b # a
      PROVE  /\ b \notin lost /\ Now(b)' = Now(b) /\ (b \in present' <=> b \in present)
             /\ (About(queue, b)' <=> About(queue, b))
             /\ \A u : EndsAs(queue', b, u) <=> EndsAs(queue, b, u)
  <2>1. b \notin lost /\ (b \in present' <=> b \in present)
    BY <1>b, <1>q
  <2>2. /\ About(queue', b) <=> About(queue, b)
        /\ \A u : EndsAs(queue', b, u) <=> EndsAs(queue, b, u)
    BY <1>b, <1>o, <1>m, <1>n, <1>t, NotifiedQueue
  <2>3. About(queue, b)' <=> About(queue', b)
    BY DEF About, Of
  <2> QED
    BY <2>1, <2>2, <2>3 DEF Now
<1>a. ASSUME a \notin lost'
      PROVE  About(queue, a)' /\ EndsAs(queue', a, t) /\ Now(a)' = t
  <2>1. About(queue', a) /\ EndsAs(queue', a, t)
    BY <1>a, <1>o, <1>m, <1>n, <1>t, NotifiedQueue
  <2>2. About(queue, a)' <=> About(queue', a)
    BY DEF About, Of
  <2>3. Now(a)' = t
    BY DEF Now
  <2> QED
    BY <2>1, <2>2, <2>3
<1>1. RMTypeOK'
  <2>1. present' \subseteq Addrs
    BY <1>t DEF RMTypeOK
  <2> QED
    BY <2>1, <1>0, <1>q, <1>t DEF RMTypeOK
<1>2. NameInv'
  <2>1. \A b \in present' : name[IndexOf[b]] # Gone
    BY <1>t DEF NameInv
  <2> QED
    BY <2>1, <1>0, <1>t DEF NameInv
<1>3. LabelInv'
  <2>1. m.iface.index \in Indexes \ renamed' => m.iface.name = FirstName[m.iface.index]
    BY <1>0, <1>m, <1>t DEF NameInv
  <2> QED
    BY <2>1, <1>0, <1>m, <1>n, <1>t, NotifiedLabels
<1>4. KnownInv' /\ PlaceInv' /\ ServedInv'
  BY <1>0, <1>t DEF KnownInv, PlaceInv, InPlace, ServedInv, IsInfo
<1>5. QueueInv'
  <2> SUFFICES ASSUME NEW b \in Addrs, b \notin lost', About(queue, b)'
               PROVE  EndsAs(queue', b, Now(b)')
    BY DEF QueueInv, EndsAs, About, Of
  <2>1. CASE b = a
    BY <2>1, <1>a
  <2>2. CASE b # a
    BY <2>2, <1>b, <1>t DEF QueueInv
  <2> QED
    BY <2>1, <2>2
<1>6. BufInv'
  <2> SUFFICES ASSUME pc' \in {"load", "parse", "wait"}, NEW b \in Addrs, b \notin lost',
                      ~About(queue, b)', About(buf, b)
               PROVE  EndsAs(buf, b, Now(b)')
    BY <1>0 DEF BufInv, EndsAs, About, Of
  <2>1. b # a
    BY <1>a
  <2> QED
    BY <2>1, <1>0, <1>b, <1>t DEF BufInv
<1>7. MapInv'
  <2>1. pc' \in {"size", "copy"} => \A b \in Addrs : entry'[b] = Absent /\ ~running'[b]
    BY <1>0, <1>t DEF MapInv
  <2>2. ASSUME pc' \in {"load", "parse", "wait"}, NEW b \in Addrs, b \notin lost',
               ~About(queue, b)', ~About(buf, b)', IndexOf[b] \notin renamed'
        PROVE  (Usable(b)' => entry'[b] # Absent) /\ (b \notin present' => ~running'[b])
    <3>1. b # a
      BY <2>2, <1>a
    <3>2. ~About(queue, b) /\ ~About(buf, b) /\ b \notin lost
      BY <3>1, <2>2, <1>0, <1>b DEF About, Of
    <3>3. Usable(b)' <=> Usable(b)
      BY <3>1, <2>2, <1>0, <1>b DEF Usable
    <3> QED
      BY <3>1, <3>2, <3>3, <2>2, <1>0, <1>b, <1>t DEF MapInv
  <2> QED
    BY <2>1, <2>2 DEF MapInv
<1> QED
  BY <1>1, <1>2, <1>3, <1>4, <1>5, <1>6, <1>7 DEF RMInd

\* An interface gets another name, or goes away: what is announced names no address.
LEMMA NameStep ==
    ASSUME RMInd, NEW i \in Indexes, NEW n \in Names \cup {Gone}, NEW t \in {"info", "announce"},
           n # Gone => \A j \in Indexes : name[j] # n,
           n = Gone => \A a \in present : IndexOf[a] # i,
           name' = [name EXCEPT ![i] = n], renamed' = renamed \cup {i},
           Notify(Message(t, Absent, NoInterface)),
           UNCHANGED <<present, pc, table, manager>>
    PROVE  RMInd'
<1> DEFINE m == Message(t, Absent, NoInterface)
<1>0. /\ UNCHANGED <<present, pc, want, buf, half, known, last, entry, running>>
  BY DEF table, manager
<1>t. /\ RMTypeOK /\ NameInv /\ LabelInv /\ KnownInv /\ PlaceInv
      /\ ServedInv /\ QueueInv /\ BufInv /\ MapInv
  BY DEF RMInd
<1>i. IndexOf \in [Addrs -> Indexes] /\ Absent \notin Addrs /\ Interfaces \in Nat
  BY RouteAssumption
<1>m. /\ m.type = t /\ m.addr = Absent /\ m.iface = NoInterface /\ m \in Notifications
  BY DEF Message, Notifications
<1>n. Notify(m)
  OBVIOUS
<1> HIDE DEF m
<1>o. \A b : ~Of(m, b)
  BY <1>m DEF Of
<1>q. queue' \in Seq(Notifications) /\ lost' = lost
  <2>1. lost \subseteq Addrs
    BY <1>t DEF RMTypeOK
  <2>2. lost \ {m.addr} = lost /\ lost \cup ({m.addr} \cap Addrs) = lost
    BY <2>1, <1>i, <1>m
  <2> QED
    BY <2>2, <1>m, <1>n, <1>t, NotifyStep
<1>b. ASSUME NEW b \in Addrs, b \notin lost
      PROVE  /\ About(queue, b)' <=> About(queue, b)
             /\ \A u : EndsAs(queue', b, u) <=> EndsAs(queue, b, u)
  <2>1. /\ About(queue', b) <=> About(queue, b)
        /\ \A u : EndsAs(queue', b, u) <=> EndsAs(queue, b, u)
    BY <1>b, <1>q, <1>o, <1>m, <1>n, <1>t, NotifiedQueue
  <2>2. About(queue, b)' <=> About(queue', b)
    BY DEF About, Of
  <2> QED
    BY <2>1, <2>2
<1>c. /\ \A j \in Indexes : name'[j] = IF j = i THEN n ELSE name[j]
      /\ name' \in [Indexes -> Names \cup {Gone}]
  BY <1>t DEF RMTypeOK
<1>d. \A b : Now(b)' = Now(b)
  BY <1>0 DEF Now
<1>1. RMTypeOK'
  <2>1. renamed' \subseteq Indexes
    BY <1>t DEF RMTypeOK
  <2> QED
    BY <2>1, <1>0, <1>c, <1>q, <1>t DEF RMTypeOK
<1>2. NameInv'
  <2>1. \A j, k \in Indexes : name'[j] = name'[k] => j = k \/ name'[j] = Gone
    BY <1>c, <1>t DEF NameInv
  <2>2. \A j \in Indexes : j \notin renamed' => name'[j] = FirstName[j]
    BY <1>c, <1>t DEF NameInv
  <2>3. \A a \in present' : name'[IndexOf[a]] # Gone
    <3>1. present \subseteq Addrs
      BY <1>t DEF RMTypeOK
    <3> QED
      BY <3>1, <1>0, <1>c, <1>i, <1>t DEF NameInv
  <2> QED
    BY <2>1, <2>2, <2>3 DEF NameInv
<1>3. LabelInv'
  <2>1. m.iface.index \in Indexes \ renamed' => m.iface.name = FirstName[m.iface.index]
    BY <1>i, <1>m DEF NoInterface, Indexes
  <2> QED
    BY <2>1, <1>0, <1>m, <1>n, <1>t, NotifiedLabels
<1>4. KnownInv' /\ PlaceInv' /\ ServedInv'
  BY <1>0, <1>t DEF KnownInv, PlaceInv, InPlace, ServedInv, IsInfo
<1>5. QueueInv'
  <2> SUFFICES ASSUME NEW b \in Addrs, b \notin lost', About(queue, b)'
               PROVE  EndsAs(queue', b, Now(b)')
    BY DEF QueueInv, EndsAs, About, Of
  <2> QED
    BY <1>b, <1>d, <1>q, <1>t DEF QueueInv
<1>6. BufInv'
  <2> SUFFICES ASSUME pc' \in {"load", "parse", "wait"}, NEW b \in Addrs, b \notin lost',
                      ~About(queue, b)', About(buf, b)
               PROVE  EndsAs(buf, b, Now(b)')
    BY <1>0 DEF BufInv, EndsAs, About, Of
  <2> QED
    BY <1>0, <1>b, <1>d, <1>q, <1>t DEF BufInv
<1>7. MapInv'
  <2>1. pc' \in {"size", "copy"} => \A b \in Addrs : entry'[b] = Absent /\ ~running'[b]
    BY <1>0, <1>t DEF MapInv
  <2>2. ASSUME pc' \in {"load", "parse", "wait"}, NEW b \in Addrs, b \notin lost',
               ~About(queue, b)', ~About(buf, b)', IndexOf[b] \notin renamed'
        PROVE  (Usable(b)' => entry'[b] # Absent) /\ (b \notin present' => ~running'[b])
    <3>1. ~About(queue, b) /\ ~About(buf, b) /\ b \notin lost
      BY <2>2, <1>0, <1>b, <1>q DEF About, Of
    <3>2. Usable(b)' <=> Usable(b)
      BY <2>2, <1>0, <1>c, <1>i DEF Usable
    <3> QED
      BY <3>1, <3>2, <2>2, <1>0, <1>t DEF MapInv
  <2> QED
    BY <2>1, <2>2 DEF MapInv
<1> QED
  BY <1>1, <1>2, <1>3, <1>4, <1>5, <1>6, <1>7 DEF RMInd

\* What the kernel does.
LEMMA KernelSteps ==
    ASSUME RMInd,
           \/ \E a \in Addrs : AddrAdded(a) \/ AddrRemoved(a)
           \/ \E i \in Indexes : Deleted(i) \/ \E n \in Names : Renamed(i, n)
    PROVE  RMInd'
<1>1. ASSUME NEW a \in Addrs, AddrAdded(a) PROVE RMInd'
  BY <1>1, AddrStep DEF AddrAdded
<1>2. ASSUME NEW a \in Addrs, AddrRemoved(a) PROVE RMInd'
  <2>1. name[IndexOf[a]] # Gone
    BY <1>2 DEF AddrRemoved, RMInd, NameInv
  <2>2. present' = IF "del" = "new" THEN present \cup {a} ELSE present \ {a}
    BY <1>2 DEF AddrRemoved
  <2> QED
    BY <1>2, <2>1, <2>2, AddrStep DEF AddrRemoved
<1>3. ASSUME NEW i \in Indexes, Deleted(i) PROVE RMInd'
  BY <1>3, NameStep DEF Deleted
<1>4. ASSUME NEW i \in Indexes, NEW n \in Names, Renamed(i, n) PROVE RMInd'
  <2>1. n # Gone
    BY RouteAssumption
  <2> QED
    BY <1>4, <2>1, NameStep DEF Renamed
<1> QED
  BY <1>1, <1>2, <1>3, <1>4

-----------------------------------------------------------------------------
(* loadInitial, read, and what ends the monitor *)

\* The table is copied.
LEMMA CopyStep ==
    ASSUME RMInd, SysctlCopy
    PROVE  RMInd'
<1>0. /\ pc = "copy" /\ pc' = "load" /\ buf' = List
      /\ UNCHANGED <<name, present, queue, lost, renamed, known, last, entry, running>>
  BY DEF SysctlCopy, kernel, manager
<1>t. /\ RMTypeOK /\ NameInv /\ LabelInv /\ KnownInv /\ PlaceInv
      /\ ServedInv /\ QueueInv /\ BufInv /\ MapInv
  BY DEF RMInd
<1>1. Lists(List, Indexes)
  BY <1>t, TableLists
<1>2. IndexOf \in [Addrs -> Indexes] /\ Interfaces \in Nat
  BY RouteAssumption
<1> DEFINE q == List
<1>3. /\ q \in Seq(TableEntries) /\ InPlace(q, NoInterface) /\ (\A k \in 1..Len(q) : Named(q[k].iface))
      /\ \A a \in Addrs : (About(q, a) <=> a \in present) /\ (About(q, a) => EndsAs(q, a, "new"))
  BY <1>1, <1>2 DEF Lists
<1>4. buf' = q
  BY <1>0
<1> HIDE DEF q
<1>5. RMTypeOK'
  BY <1>0, <1>3, <1>4, <1>t DEF RMTypeOK
<1>6. NameInv' /\ KnownInv' /\ ServedInv' /\ QueueInv'
  BY <1>0, <1>t DEF NameInv, KnownInv, ServedInv, QueueInv, About, Of, EndsAs, Now
<1>7. LabelInv'
  BY <1>0, <1>3, <1>4, <1>t DEF LabelInv, Named
<1>8. PlaceInv'
  <2>1. \A k \in 1..Len(q) : q[k].type = "new" => q[k].addr \in Addrs
    BY <1>3, EntryFacts
  <2>2. \A a \in Addrs : NoInterface.index # IndexOf[a]
    BY <1>2 DEF NoInterface, Indexes
  <2>3. \A k \in 1..Len(q) : q[k].type = "new" =>
            \E j \in 1 .. k - 1 : /\ IsInfo(q[j]) /\ q[j].iface.index = IndexOf[q[k].addr]
                                  /\ \A h \in j + 1 .. k - 1 : ~IsInfo(q[h])
    BY <2>1, <2>2, <1>3 DEF InPlace
  <2> QED
    BY <2>3, <1>0, <1>4 DEF PlaceInv, InPlace, IsInfo
<1>9. BufInv'
  <2> SUFFICES ASSUME NEW a \in Addrs, About(q, a) PROVE EndsAs(q, a, Now(a))
    BY <1>0, <1>4 DEF BufInv, About, Of, EndsAs, Now
  <2> QED
    BY <1>3 DEF Now
<1>10. MapInv'
  <2>1. \A a \in Addrs : ~running[a]
    BY <1>0, <1>t DEF MapInv
  <2>2. ASSUME NEW a \in Addrs, ~About(buf, a)' PROVE a \notin present
    <3>1. ~About(q, a)
      BY <2>2, <1>4 DEF About, Of
    <3> QED
      BY <3>1, <1>3
  <2> QED
    BY <2>1, <2>2, <1>0 DEF MapInv, Usable
<1> QED
  BY <1>5, <1>6, <1>7, <1>8, <1>9, <1>10 DEF RMInd

\* A read: the first messages of the queue go to the buffer.
LEMMA ReadStep ==
    ASSUME RMInd, Read
    PROVE  RMInd'
<1>0. /\ pc = "wait" /\ pc' = "parse"
      /\ UNCHANGED <<name, present, lost, renamed, want, known, last, entry, running>>
  BY DEF Read, manager
<1>t. /\ RMTypeOK /\ NameInv /\ LabelInv /\ KnownInv /\ PlaceInv
      /\ ServedInv /\ QueueInv /\ BufInv /\ MapInv
  BY DEF RMInd
<1>1. queue \in Seq(Notifications) /\ Len(queue) \in Nat /\ buf = <<>>
  BY <1>0, <1>t DEF RMTypeOK
<1>2. PICK n \in 0..Len(queue) : buf' = SubSeq(queue, 1, n) /\ queue' = SubSeq(queue, n + 1, Len(queue))
  BY DEF Read
<1>3. /\ buf' \in Seq(Notifications) /\ Len(buf') = n
      /\ \A k \in 1..n : buf'[k] = queue[k]
  BY <1>1, <1>2
<1>4. /\ queue' \in Seq(Notifications) /\ Len(queue') = Len(queue) - n
      /\ \A k \in 1..Len(queue') : queue'[k] = queue[k + n]
  BY <1>1, <1>2
<1>5. Joined(queue, buf', queue')
  BY <1>1, <1>3, <1>4 DEF Joined
<1>6. ASSUME NEW a
      PROVE  /\ (About(queue, a)' <=> About(queue', a)) /\ (About(buf, a)' <=> About(buf', a))
             /\ Now(a)' = Now(a)
             /\ About(queue, a) <=> About(buf', a) \/ About(queue', a)
             /\ \A u : /\ About(queue', a) => (EndsAs(queue, a, u) <=> EndsAs(queue', a, u))
                       /\ ~About(queue', a) => (EndsAs(queue, a, u) <=> EndsAs(buf', a, u))
  <2>1. (About(queue, a)' <=> About(queue', a)) /\ (About(buf, a)' <=> About(buf', a)) /\ Now(a)' = Now(a)
    BY <1>0 DEF About, Of, Now
  <2>2. /\ About(queue, a) <=> About(buf', a) \/ About(queue', a)
        /\ \A u : /\ About(queue', a) => (EndsAs(queue, a, u) <=> EndsAs(queue', a, u))
                  /\ ~About(queue', a) => (EndsAs(queue, a, u) <=> EndsAs(buf', a, u))
    BY <1>5, JoinedMessages
  <2> QED
    BY <2>1, <2>2
<1>7. RMTypeOK'
  BY <1>0, <1>3, <1>4, <1>t DEF RMTypeOK
<1>8. NameInv' /\ KnownInv' /\ ServedInv' /\ PlaceInv'
  BY <1>0, <1>t DEF NameInv, KnownInv, ServedInv, PlaceInv
<1>9. LabelInv'
  <2>1. \A k \in 1..Len(queue) : Named(queue[k].iface)
    BY <1>t DEF LabelInv
  <2>2. \A k \in 1..Len(buf') : Named(buf'[k].iface)
    BY <2>1, <1>1, <1>3
  <2>3. ASSUME NEW k \in 1..Len(queue') PROVE Named(queue'[k].iface)
    <3>1. k + n \in 1..Len(queue)
      BY <1>1, <1>4
    <3> QED
      BY <3>1, <2>1, <1>4
  <2> QED
    BY <2>2, <2>3, <1>0, <1>t DEF LabelInv, Named
<1>10. QueueInv'
  <2> SUFFICES ASSUME NEW a \in Addrs, a \notin lost, About(queue', a) PROVE EndsAs(queue', a, Now(a))
    BY <1>0 DEF QueueInv, About, Of, EndsAs, Now
  <2> QED
    BY <1>6, <1>t DEF QueueInv
<1>11. BufInv'
  <2> SUFFICES ASSUME NEW a \in Addrs, a \notin lost, ~About(queue', a), About(buf', a)
               PROVE  EndsAs(buf', a, Now(a))
    BY <1>0 DEF BufInv, About, Of, EndsAs, Now
  <2> QED
    BY <1>6, <1>t DEF QueueInv
<1>12. MapInv'
  <2> SUFFICES ASSUME NEW a \in Addrs, a \notin lost, ~About(queue', a), ~About(buf', a),
                      IndexOf[a] \notin renamed
               PROVE  (Usable(a) => entry[a] # Absent) /\ (a \notin present => ~running[a])
    BY <1>0 DEF MapInv, About, Of, Usable
  <2>1. ~About(queue, a) /\ ~About(buf, a)
    BY <1>1, <1>6, NoMessage
  <2> QED
    BY <2>1, <1>0, <1>t DEF MapInv
<1> QED
  BY <1>7, <1>8, <1>9, <1>10, <1>11, <1>12 DEF RMInd

\* Steps that change neither messages nor the map, but for servers that stop.
LEMMA OtherSteps ==
    ASSUME RMInd,
           \/ SysctlSize \/ SysctlFails \/ ParseEnds \/ ReadFails \/ Stops
           \/ \E a \in Addrs : ServerFails(a)
    PROVE  RMInd'
<1>t. /\ RMTypeOK /\ NameInv /\ LabelInv /\ KnownInv /\ PlaceInv
      /\ ServedInv /\ QueueInv /\ BufInv /\ MapInv
  BY DEF RMInd
<1>1. /\ UNCHANGED <<name, present, queue, lost, renamed, buf, entry>>
      /\ \/ known' = known /\ last' = last
         \/ known' = {} /\ last' = NoInterface
      /\ \/ running' = running
         \/ pc \notin {"size", "copy"} /\ \E a \in Addrs : running' = [running EXCEPT ![a] = FALSE]
      /\ \/ pc' = pc /\ pc \notin {"load", "parse"}
         \/ pc = "size" /\ pc' = "copy"
         \/ pc \in {"load", "parse"} /\ pc' = "wait" /\ buf = <<>>
         \/ pc \notin {"load", "parse"} /\ pc' \in {"failed", "stopped"}
  <2>1. CASE SysctlSize
    BY <2>1 DEF SysctlSize, kernel, manager
  <2>2. CASE SysctlFails
    BY <2>2 DEF SysctlFails, kernel, table, manager
  <2>3. CASE ParseEnds
    BY <2>3 DEF ParseEnds, kernel, manager
  <2>4. CASE ReadFails
    BY <2>4 DEF ReadFails, kernel, table, manager
  <2>5. CASE Stops
    BY <2>5 DEF Stops, kernel, table, manager
  <2>6. ASSUME NEW a \in Addrs, ServerFails(a)
        PROVE  /\ UNCHANGED <<name, present, queue, lost, renamed, buf, entry, known, last>>
               /\ running' = [running EXCEPT ![a] = FALSE]
               /\ pc = "wait" /\ pc' = pc
    BY <2>6 DEF ServerFails, Fails, kernel, table
  <2> QED
    BY <2>1, <2>2, <2>3, <2>4, <2>5, <2>6
<1>r. running' \in [Addrs -> BOOLEAN] /\ \A a \in Addrs : running'[a] => running[a]
  <2>1. running \in [Addrs -> BOOLEAN]
    BY <1>t DEF RMTypeOK
  <2>2. CASE running' = running
    BY <2>1, <2>2
  <2>3. ASSUME NEW a \in Addrs, running' = [running EXCEPT ![a] = FALSE]
        PROVE  running' \in [Addrs -> BOOLEAN] /\ \A b \in Addrs : running'[b] => running[b]
    BY <2>1, <2>3
  <2> QED
    BY <2>2, <2>3, <1>1
<1>p. /\ pc' # "load"
      /\ pc' \in {"size", "copy"} => pc \in {"size", "copy"}
      /\ pc' \in {"load", "parse", "wait"} => pc \in {"load", "parse", "wait"}
      /\ pc' \in {"size", "copy", "load", "parse", "wait", "failed", "stopped"}
      /\ buf' \in Seq(Notifications) /\ (pc' \notin {"load", "parse"} => buf' = <<>>)
  <2>1. <<>> \in Seq(Notifications)
    OBVIOUS
  <2> QED
    BY <2>1, <1>1, <1>t DEF RMTypeOK
<1>2. RMTypeOK'
  <2>1. known' \subseteq [index : Indexes, usable : BOOLEAN] /\ last' \in InterfaceType
    BY <1>1, <1>t DEF RMTypeOK, InterfaceType
  <2> QED
    BY <2>1, <1>1, <1>p, <1>r, <1>t DEF RMTypeOK
<1>3. NameInv' /\ KnownInv' /\ QueueInv' /\ PlaceInv'
  BY <1>1, <1>p, <1>t DEF NameInv, KnownInv, QueueInv, PlaceInv, About, Of, EndsAs, Now
<1>4. LabelInv'
  <2>1. Named(NoInterface)
    BY RouteAssumption DEF Named, NoInterface, Indexes
  <2> QED
    BY <2>1, <1>1, <1>t DEF LabelInv, Named
<1>5. ServedInv'
  BY <1>1, <1>r, <1>t DEF ServedInv
<1>6. BufInv'
  BY <1>1, <1>p, <1>t DEF BufInv, About, Of, EndsAs, Now
<1>7. MapInv'
  BY <1>1, <1>p, <1>r, <1>t DEF MapInv, About, Of, Usable
<1> QED
  BY <1>2, <1>3, <1>4, <1>5, <1>6, <1>7 DEF RMInd

-----------------------------------------------------------------------------
(* parseTable *)

\* The first message, and the interface it is about: that of its address,
\* under its name.
LEMMA ParsedMessage ==
    ASSUME RMInd, NEW types, Parsing(types), UNCHANGED <<pc, kernel>>
    PROVE  LET m == Head(buf) i == Whose(m) IN
           /\ m.type \in types /\ Joined(buf, <<m>>, buf')
           /\ pc \in {"load", "parse"}
           /\ pc = "load" => buf' \in Seq(TableEntries)
           /\ pc # "load" => buf' \in Seq(Notifications)
           /\ i \in InterfaceType /\ Named(i)
           /\ \A k \in 1..Len(buf') : Named(buf'[k].iface)
           /\ m.type \in {"new", "del"} => m.addr \in Addrs /\ i.index = IndexOf[m.addr]
           /\ pc = "load" => m.type \in {"info", "new"} /\ InPlace(buf', i)
<1> DEFINE m == Head(buf)
           i == Whose(m)
<1>t. /\ RMTypeOK /\ LabelInv /\ PlaceInv
  BY DEF RMInd
<1>0. pc \in {"load", "parse"} /\ buf # <<>> /\ m.type \in types /\ buf' = Tail(buf)
  BY DEF Parsing
<1>1. ASSUME NEW S, buf \in Seq(S)
      PROVE  /\ m \in S /\ m = buf[1] /\ buf' \in Seq(S)
             /\ Len(buf) \in Nat /\ Len(buf) = Len(buf') + 1 /\ Len(buf') \in Nat
             /\ \A k \in 1..Len(buf') : buf'[k] = buf[k + 1]
  BY <1>0, <1>1
<1>2. /\ pc = "load" => m \in TableEntries /\ buf' \in Seq(TableEntries)
      /\ pc # "load" => m \in Notifications /\ buf' \in Seq(Notifications)
      /\ m = buf[1] /\ Len(buf) \in Nat /\ Len(buf) = Len(buf') + 1 /\ Len(buf') \in Nat
      /\ \A k \in 1..Len(buf') : buf'[k] = buf[k + 1]
  <2>1. CASE pc = "load"
    BY <2>1, <1>1, <1>t DEF RMTypeOK
  <2>2. CASE pc # "load"
    BY <2>2, <1>1, <1>t DEF RMTypeOK
  <2> QED
    BY <2>1, <2>2
<1> HIDE DEF m
<1>3. Joined(buf, <<m>>, buf')
  <2>1. Len(<<m>>) = 1 /\ <<m>>[1] = m
    OBVIOUS
  <2> QED
    BY <2>1, <1>2 DEF Joined
<1>4. /\ Named(m.iface) /\ Named(last)
      /\ \A k \in 1..Len(buf') : Named(buf'[k].iface)
  <2>1. 1 \in 1..Len(buf) /\ \A k \in 1..Len(buf') : k + 1 \in 1..Len(buf)
    BY <1>2
  <2> QED
    BY <2>1, <1>2, <1>t DEF LabelInv
<1>5. i = IF m.iface = NoInterface /\ pc = "load" THEN last ELSE m.iface
  BY DEF Whose
<1> HIDE DEF i
<1>6. CASE pc = "load"
  <2>1. /\ m.type \in {"info", "new"} /\ m.iface \in InterfaceType
        /\ m.type = "info" => m.iface # NoInterface
        /\ m.type = "new" => m.addr \in Addrs /\ m.iface = NoInterface
    BY <1>2, <1>6, EntryFacts
  <2>2. /\ IsInfo(m) => InPlace(buf', m.iface)
        /\ ~IsInfo(m) => InPlace(buf', last)
        /\ m.type = "new" => last.index = IndexOf[m.addr]
    BY <1>3, <1>6, <1>t, FirstPlace DEF PlaceInv
  <2>3. i \in InterfaceType /\ Named(i)
    BY <2>1, <1>4, <1>5, <1>t DEF RMTypeOK
  <2>4. InPlace(buf', i)
    <3>1. CASE m.type = "info"
      BY <3>1, <2>1, <2>2, <1>5 DEF IsInfo
    <3>2. CASE m.type = "new"
      BY <3>2, <2>1, <2>2, <1>5, <1>6 DEF IsInfo
    <3> QED
      BY <3>1, <3>2, <2>1
  <2>5. m.type \in {"new", "del"} => m.addr \in Addrs /\ i.index = IndexOf[m.addr]
    BY <2>1, <2>2, <1>5, <1>6
  <2> QED
    BY <2>1, <2>3, <2>4, <2>5, <1>0, <1>2, <1>3, <1>4, <1>6 DEF m, i
<1>7. CASE pc # "load"
  <2>1. i = m.iface
    BY <1>5, <1>7
  <2>2. /\ m.iface \in InterfaceType
        /\ m.type \in {"new", "del"} => m.addr \in Addrs /\ m.iface.index = IndexOf[m.addr]
    BY <1>2, <1>7, NotificationFacts
  <2> QED
    BY <2>1, <2>2, <1>0, <1>2, <1>3, <1>4, <1>7 DEF m, i
<1> QED
  BY <1>6, <1>7

\* What a message leaves to say when it has been parsed, and what of the
\* invariant does not depend on what the message did.
LEMMA ParsedRest ==
    ASSUME RMInd, NEW types, Parsing(types), UNCHANGED <<pc, kernel>>, Remembers(Head(buf)) \/ (last' = last /\ pc # "load")
    PROVE  /\ NameInv' /\ LabelInv' /\ PlaceInv' /\ QueueInv' /\ BufInv' /\ last' \in InterfaceType
           /\ \A a \in Addrs : a \notin lost /\ ~About(queue, a) /\ ~About(buf', a) =>
                 \/ ~Of(Head(buf), a) /\ ~About(buf, a)
                 \/ Of(Head(buf), a) /\ Head(buf).type = Now(a)
<1> DEFINE m == Head(buf)
           i == Whose(m)
<1>t. /\ RMTypeOK /\ NameInv /\ LabelInv /\ PlaceInv /\ QueueInv /\ BufInv
  BY DEF RMInd
<1>0. UNCHANGED <<pc, name, present, queue, lost, renamed>>
  BY DEF kernel
<1>1. /\ Joined(buf, <<m>>, buf') /\ pc \in {"load", "parse"}
      /\ i \in InterfaceType /\ Named(i)
      /\ \A k \in 1..Len(buf') : Named(buf'[k].iface)
      /\ pc = "load" => InPlace(buf', i)
  BY ParsedMessage
<1>2. /\ pc = "load" => last' = i
      /\ pc # "load" => last' = last
  BY DEF Remembers
<1> HIDE DEF m, i
<1>3. \A a, u :
        /\ About(<<m>>, a) <=> Of(m, a)
        /\ EndsAs(<<m>>, a, u) <=> Of(m, a) /\ m.type = u
        /\ About(buf, a) <=> About(<<m>>, a) \/ About(buf', a)
        /\ About(buf', a) => (EndsAs(buf, a, u) <=> EndsAs(buf', a, u))
        /\ ~About(buf', a) => (EndsAs(buf, a, u) <=> EndsAs(<<m>>, a, u))
  BY <1>1, OneMessage, JoinedMessages
<1>4. NameInv' /\ QueueInv'
  BY <1>0, <1>t DEF NameInv, QueueInv, About, Of, EndsAs, Now
<1>5. last' \in InterfaceType /\ Named(last')
  BY <1>1, <1>2, <1>t DEF RMTypeOK, LabelInv
<1>6. LabelInv'
  BY <1>0, <1>1, <1>5, <1>t DEF LabelInv, Named
<1>7. PlaceInv'
  BY <1>0, <1>1, <1>2 DEF PlaceInv, InPlace, IsInfo
<1>8. BufInv'
  <2> SUFFICES ASSUME NEW a \in Addrs, a \notin lost, ~About(queue, a), About(buf', a)
               PROVE  EndsAs(buf', a, Now(a))
    BY <1>0 DEF BufInv, About, Of, EndsAs, Now
  <2> QED
    BY <1>1, <1>3, <1>t DEF BufInv
<1>9. ASSUME NEW a \in Addrs, a \notin lost, ~About(queue, a), ~About(buf', a)
      PROVE  \/ ~Of(m, a) /\ ~About(buf, a)
             \/ Of(m, a) /\ m.type = Now(a)
  <2>1. CASE ~Of(m, a)
    BY <2>1, <1>3, <1>9
  <2>2. CASE Of(m, a)
    <3>1. EndsAs(buf, a, Now(a))
      BY <2>2, <1>1, <1>3, <1>9, <1>t DEF BufInv
    <3> QED
      BY <3>1, <2>2, <1>3, <1>9
  <2> QED
    BY <2>1, <2>2
<1> QED
  BY <1>4, <1>5, <1>6, <1>7, <1>8, <1>9 DEF m

\* A selected interface is one of the kernel's; if it was not renamed, it has the
\* name it is selected by.
LEMMA SelectedInterface ==
    ASSUME RMInd, NEW i \in InterfaceType, Named(i), Selected(i)
    PROVE  /\ i.index \in Indexes /\ i.name \in Allowed /\ i # Absent
           /\ i.index \notin renamed => /\ i = [index |-> i.index, name |-> FirstName[i.index]]
                                        /\ name[i.index] = i.name
<1>1. i \in [index : Indexes, name : Names] /\ i.name \in Allowed
  BY DEF Selected, InterfaceType
<1>2. i.index \in Indexes /\ i.name \in Names /\ i = [index |-> i.index, name |-> i.name]
  BY <1>1
<1>3. i # Absent
  BY <1>2, RouteAssumption
<1>4. ASSUME i.index \notin renamed PROVE i.name = FirstName[i.index] /\ name[i.index] = FirstName[i.index]
  BY <1>2, <1>4 DEF Named, RMInd, NameInv
<1> QED
  BY <1>1, <1>2, <1>3, <1>4

\* A verdict is a record with a Boolean.
LEMMA VerdictFields ==
    ASSUME NEW x \in Indexes, NEW j
    PROVE  LET w == [index |-> x, usable |-> j \in Multicast] IN
           w \in [index : Indexes, usable : BOOLEAN] /\ w.index = x /\ (w.usable <=> j \in Multicast)
<1> DEFINE b == j \in Multicast
           w == [index |-> x, usable |-> b]
<1>1. b \in BOOLEAN
  OBVIOUS
<1> HIDE DEF b
<1>2. w \in [index : Indexes, usable : BOOLEAN] /\ w.index = x /\ w.usable = b
  BY <1>1
<1> HIDE DEF w
<1>3. w.usable <=> j \in Multicast
  BY <1>2, Zenon DEF b
<1> QED
  BY <1>2, <1>3 DEF w, b

\* After asking, there is a right verdict about the interface.
LEMMA AskedVerdict ==
    ASSUME RMInd, NEW i \in InterfaceType, Named(i), Selected(i)
    PROVE  /\ Asked(i) \subseteq [index : Indexes, usable : BOOLEAN]
           /\ \A v \in Asked(i) : v.index \notin renamed => (v.usable <=> v.index \in Multicast)
           /\ i.index \notin renamed => \E v \in Asked(i) : v.index = i.index
<1>0. /\ known \subseteq [index : Indexes, usable : BOOLEAN]
      /\ \A v \in known : v.index \notin renamed => (v.usable <=> v.index \in Multicast)
      /\ \A j, k \in Indexes : name[j] = name[k] => j = k \/ name[j] = Gone
  BY DEF RMInd, RMTypeOK, KnownInv, NameInv
<1>1. /\ i.index \in Indexes /\ i.name \in Allowed
      /\ i.index \notin renamed => name[i.index] = i.name
  BY SelectedInterface
<1>2. i.name # Gone
  BY <1>1, RouteAssumption
<1>3. CASE \E v \in known : v.index = i.index
  BY <1>0, <1>3 DEF Asked
<1>4. CASE ~ \E v \in known : v.index = i.index
  <2> DEFINE V == {[index |-> i.index, usable |-> j \in Multicast] : j \in {k \in Indexes : name[k] = i.name}}
  <2>1. Asked(i) = known \cup V
    BY <1>4 DEF Asked
  <2>2. ASSUME NEW v \in V
        PROVE  /\ v \in [index : Indexes, usable : BOOLEAN]
               /\ v.index \notin renamed => (v.usable <=> v.index \in Multicast)
    <3>1. PICK j \in Indexes : name[j] = i.name /\ v = [index |-> i.index, usable |-> j \in Multicast]
      OBVIOUS
    <3>2. v.index = i.index /\ (v.usable <=> j \in Multicast) /\ v \in [index : Indexes, usable : BOOLEAN]
      BY <3>1, <1>1, VerdictFields
    <3>3. i.index \notin renamed => j = i.index
      BY <3>1, <1>0, <1>1, <1>2
    <3> QED
      BY <3>2, <3>3
  <2>3. ASSUME i.index \notin renamed PROVE \E v \in V : v.index = i.index
    <3>1. [index |-> i.index, usable |-> i.index \in Multicast] \in V
      BY <2>3, <1>1
    <3> QED
      BY <3>1
  <2> HIDE DEF V
  <2> QED
    BY <2>1, <2>2, <2>3, <1>0
<1> QED
  BY <1>3, <1>4

\* The parts of the invariant about what parseTable changes.
LEMMA ParsedInd ==
    ASSUME RMInd, NEW types, Parsing(types), UNCHANGED <<pc, kernel>>,
           Remembers(Head(buf)) \/ (last' = last /\ pc # "load"),
           known' \subseteq [index : Indexes, usable : BOOLEAN], KnownInv',
           running' \in [Addrs -> BOOLEAN], entry' = [a \in Addrs |-> entry'[a]], ServedInv',
           \A a \in Addrs : ~Of(Head(buf), a) => entry'[a] = entry[a] /\ running'[a] = running[a],
           \A a \in Addrs : Of(Head(buf), a) /\ Head(buf).type = Now(a) /\ IndexOf[a] \notin renamed =>
              (Usable(a) => entry'[a] # Absent) /\ (a \notin present => ~running'[a])
    PROVE  RMInd'
<1>0. UNCHANGED <<pc, name, present, queue, lost, renamed>>
  BY DEF kernel
<1>1. /\ NameInv' /\ LabelInv' /\ PlaceInv' /\ QueueInv' /\ BufInv' /\ last' \in InterfaceType
      /\ \A a \in Addrs : a \notin lost /\ ~About(queue, a) /\ ~About(buf', a) =>
            \/ ~Of(Head(buf), a) /\ ~About(buf, a)
            \/ Of(Head(buf), a) /\ Head(buf).type = Now(a)
  BY ParsedRest
<1>2. RMTypeOK'
  <2>1. /\ pc \in {"load", "parse"}
        /\ pc = "load" => buf' \in Seq(TableEntries)
        /\ pc # "load" => buf' \in Seq(Notifications)
    BY ParsedMessage
  <2> QED
    BY <2>1, <1>0, <1>1 DEF RMInd, RMTypeOK
<1>3. MapInv'
  <2>1. pc \in {"load", "parse"}
    BY DEF Parsing
  <2> SUFFICES ASSUME NEW a \in Addrs, a \notin lost, ~About(queue, a), ~About(buf', a),
                      IndexOf[a] \notin renamed
               PROVE  (Usable(a) => entry'[a] # Absent) /\ (a \notin present => ~running'[a])
    BY <2>1, <1>0 DEF MapInv, About, Of, Usable
  <2>2. CASE ~Of(Head(buf), a)
    BY <2>1, <2>2, <1>1 DEF RMInd, MapInv
  <2>3. CASE Of(Head(buf), a)
    BY <2>3, <1>1
  <2> QED
    BY <2>2, <2>3
<1> QED
  BY <1>1, <1>2, <1>3 DEF RMInd

\* A message that the map does not change by.
LEMMA QuietParse ==
    ASSUME RMInd, ParseInfo \/ ParseOther
    PROVE  RMInd'
<1>t. /\ RMTypeOK /\ KnownInv /\ ServedInv
  BY DEF RMInd
<1> DEFINE m == Head(buf)
           i == Whose(m)
<1>1. CASE ParseInfo
  <2>0. /\ Parsing({"info"}) /\ UNCHANGED <<pc, kernel>> /\ Remembers(m)
        /\ known' = IF ~Selected(i) THEN known
                    ELSE {v \in known : v.index # i.index}
                           \cup {[index |-> i.index, usable |-> i.index \in Multicast]}
        /\ entry' = entry /\ running' = running /\ renamed' = renamed
    BY <1>1 DEF ParseInfo, manager, kernel
  <2>1. m.type \in {"info"} /\ i \in InterfaceType /\ Named(i)
    BY <2>0, ParsedMessage
  <2> HIDE DEF i, m
  <2>2. /\ known' \subseteq [index : Indexes, usable : BOOLEAN]
        /\ \A v \in known' : v.index \notin renamed => (v.usable <=> v.index \in Multicast)
    <3>1. CASE ~Selected(i)
      BY <3>1, <2>0, <1>t DEF RMTypeOK, KnownInv
    <3>2. CASE Selected(i)
      <4>1. i.index \in Indexes
        BY <3>2, <2>1, SelectedInterface
      <4> DEFINE w == [index |-> i.index, usable |-> i.index \in Multicast]
      <4>2. w \in [index : Indexes, usable : BOOLEAN] /\ w.index = i.index /\ (w.usable <=> i.index \in Multicast)
        BY <4>1, VerdictFields
      <4>3. \A v \in known' : v \in known \/ v = w
        BY <3>2, <2>0
      <4> HIDE DEF w
      <4> QED
        BY <4>2, <4>3, <1>t DEF RMTypeOK, KnownInv
    <3> QED
      BY <3>1, <3>2
  <2>3. KnownInv' /\ ServedInv'
    BY <2>0, <2>2, <1>t DEF KnownInv, ServedInv
  <2>4. \A a : ~Of(m, a)
    BY <2>1 DEF Of
  <2>5. entry' = [a \in Addrs |-> entry'[a]] /\ running' \in [Addrs -> BOOLEAN]
    BY <2>0, <1>t DEF RMTypeOK
  <2> QED
    BY <2>0, <2>2, <2>3, <2>4, <2>5, ParsedInd DEF m
<1>2. CASE ParseOther
  <2>0. /\ Parsing({"announce"}) /\ UNCHANGED <<pc, kernel>>
        /\ UNCHANGED <<entry, running, renamed, known, last>>
    BY <1>2 DEF ParseOther, manager, kernel
  <2>1. m.type \in {"announce"} /\ pc # "load"
    BY <2>0, ParsedMessage
  <2>2. \A a : ~Of(m, a)
    BY <2>1 DEF Of
  <2>3. KnownInv' /\ ServedInv'
    BY <2>0, <1>t DEF KnownInv, ServedInv
  <2>4. /\ entry' = [a \in Addrs |-> entry'[a]] /\ running' \in [Addrs -> BOOLEAN]
        /\ known' \subseteq [index : Indexes, usable : BOOLEAN]
    BY <2>0, <1>t DEF RMTypeOK
  <2> QED
    BY <2>0, <2>1, <2>2, <2>3, <2>4, ParsedInd
<1> QED
  BY <1>1, <1>2

\* An address to add.
LEMMA NewParse ==
    ASSUME RMInd, ParseNew
    PROVE  RMInd'
<1>t. /\ RMTypeOK /\ NameInv /\ KnownInv /\ ServedInv
  BY DEF RMInd
<1> DEFINE m == Head(buf)
           i == Whose(m)
           a == m.addr
           Adds == Selected(i) /\ [index |-> i.index, usable |-> TRUE] \in known'
<1>0. /\ Parsing({"new"}) /\ UNCHANGED <<pc, kernel>> /\ Remembers(m)
      /\ known' = IF Selected(i) THEN Asked(i) ELSE known
      /\ IF Adds THEN AddAddress(a, i) ELSE UNCHANGED manager
      /\ UNCHANGED <<name, present, renamed>>
  BY DEF ParseNew, kernel
<1>1. /\ m.type = "new" /\ a \in Addrs /\ i \in InterfaceType /\ Named(i) /\ i.index = IndexOf[a]
  BY <1>0, ParsedMessage
<1> HIDE DEF m, i
<1>2. /\ known' \subseteq [index : Indexes, usable : BOOLEAN]
      /\ \A v \in known' : v.index \notin renamed => (v.usable <=> v.index \in Multicast)
      /\ Selected(i) /\ i.index \notin renamed => \E v \in known' : v.index = i.index
  <2>1. CASE Selected(i)
    BY <2>1, <1>0, <1>1, AskedVerdict
  <2>2. CASE ~Selected(i)
    BY <2>2, <1>0, <1>t DEF RMTypeOK, KnownInv
  <2> QED
    BY <2>1, <2>2
<1>3. KnownInv'
  BY <1>0, <1>2 DEF KnownInv
<1>4. \A b : Of(m, b) <=> b = a
  BY <1>1 DEF Of
<1>5. CASE Adds
  <2>1. /\ i.index \in Indexes /\ i.name \in Allowed /\ i # Absent
        /\ IndexOf[a] \notin renamed => i = [index |-> IndexOf[a], name |-> FirstName[IndexOf[a]]]
    BY <1>1, <1>5, SelectedInterface
  <2>2. IndexOf[a] \notin renamed => FirstName[IndexOf[a]] \in Allowed /\ IndexOf[a] \in Multicast
    <3>1. ASSUME IndexOf[a] \notin renamed PROVE FirstName[IndexOf[a]] \in Allowed
      <4>1. i.name = FirstName[IndexOf[a]]
        BY <3>1, <2>1
      <4> QED
        BY <4>1, <2>1
    <3>2. ASSUME IndexOf[a] \notin renamed PROVE IndexOf[a] \in Multicast
      <4> DEFINE v == [index |-> i.index, usable |-> TRUE]
      <4>1. v \in known' /\ v.index = IndexOf[a] /\ v.usable
        BY <1>1, <1>5
      <4> HIDE DEF v
      <4> QED
        BY <4>1, <3>2, <1>2
    <3> QED
      BY <3>1, <3>2
  <2>3. AddAddress(a, i)
    BY <1>0, <1>5
  <2>4. /\ running' \in [Addrs -> BOOLEAN] /\ entry' = [b \in Addrs |-> entry'[b]]
        /\ \A b \in Addrs : b # a => entry'[b] = entry[b] /\ running'[b] = running[b]
        /\ entry'[a] \in {i, Null} /\ (running'[a] => entry'[a] = i)
    <3>1. running \in [Addrs -> BOOLEAN] /\ entry = [b \in Addrs |-> entry[b]]
      BY <1>t DEF RMTypeOK
    <3>2. CASE entry[a] = i /\ running[a]
      BY <3>1, <3>2, <2>3, <1>1 DEF AddAddress, manager
    <3>3. CASE ~(entry[a] = i /\ running[a])
      <4>1. PICK created \in BOOLEAN :
                /\ entry' = [entry EXCEPT ![a] = IF created THEN i ELSE Null]
                /\ running' = [running EXCEPT ![a] = created]
        BY <3>3, <2>3 DEF AddAddress
      <4>2. running' \in [Addrs -> BOOLEAN] /\ running'[a] = created
            /\ \A b \in Addrs : b # a => running'[b] = running[b]
        BY <4>1, <3>1, <1>1
      <4>3. entry' = [b \in Addrs |-> entry'[b]] /\ \A b \in Addrs : b # a => entry'[b] = entry[b]
        BY <4>1, <3>1
      <4>4. entry'[a] = IF created THEN i ELSE Null
        BY <4>1, <3>1, <1>1
      <4> QED
        BY <4>2, <4>3, <4>4
    <3> QED
      BY <3>2, <3>3
  <2>5. ServedInv'
    <3> SUFFICES ASSUME NEW b \in Addrs, running'[b], IndexOf[b] \notin renamed
                 PROVE  /\ entry'[b] = [index |-> IndexOf[b], name |-> FirstName[IndexOf[b]]]
                        /\ FirstName[IndexOf[b]] \in Allowed /\ IndexOf[b] \in Multicast
      BY <1>0 DEF ServedInv
    <3>1. CASE b = a
      BY <3>1, <2>1, <2>2, <2>4
    <3>2. CASE b # a
      BY <3>2, <2>4, <1>t DEF ServedInv
    <3> QED
      BY <3>1, <3>2
  <2>6. entry'[a] # Absent
    BY <2>1, <2>4, EntryAssumption
  <2>7. "new" = Now(a) => a \in present
    BY DEF Now
  <2> QED
    BY <2>4, <2>5, <2>6, <2>7, <1>0, <1>1, <1>2, <1>3, <1>4, ParsedInd DEF m
<1>6. CASE ~Adds
  <2>1. entry' = entry /\ running' = running
    BY <1>0, <1>6 DEF manager
  <2>2. running' \in [Addrs -> BOOLEAN] /\ entry' = [b \in Addrs |-> entry'[b]]
    BY <2>1, <1>t DEF RMTypeOK
  <2>3. ServedInv'
    BY <2>1, <1>0, <1>t DEF ServedInv
  <2>4. IndexOf[a] \notin renamed => ~Usable(a)
    <3> SUFFICES ASSUME IndexOf[a] \notin renamed, Usable(a) PROVE Adds
      BY <1>6
    <3>1. name[IndexOf[a]] \in Allowed /\ IndexOf[a] \in Multicast /\ IndexOf[a] \in Indexes
      BY <1>1, RouteAssumption DEF Usable
    <3>2. i.name = name[IndexOf[a]]
      BY <3>1, <1>1, <1>t DEF Named, NameInv
    <3>3. Selected(i)
      <4>1. NoInterface.name \notin Allowed
        BY RouteAssumption DEF NoInterface
      <4> QED
        BY <4>1, <3>1, <3>2 DEF Selected
    <3>4. PICK v \in known' : v.index = i.index
      BY <3>3, <1>1, <1>2
    <3>5. v.usable /\ v \in [index : Indexes, usable : BOOLEAN]
      BY <3>1, <3>4, <1>1, <1>2
    <3>6. v = [index |-> i.index, usable |-> TRUE]
      BY <3>4, <3>5
    <3> QED
      BY <3>3, <3>4, <3>6
  <2>5. "new" = Now(a) => a \in present
    BY DEF Now
  <2> QED
    BY <2>1, <2>2, <2>3, <2>4, <2>5, <1>0, <1>1, <1>2, <1>3, <1>4, ParsedInd DEF m
<1> QED
  BY <1>5, <1>6

\* An address to remove.
LEMMA DelParse ==
    ASSUME RMInd, ParseDel
    PROVE  RMInd'
<1>t. /\ RMTypeOK /\ NameInv /\ KnownInv /\ ServedInv
  BY DEF RMInd
<1> DEFINE m == Head(buf)
           i == Whose(m)
           a == m.addr
<1>0. /\ Parsing({"del"}) /\ UNCHANGED <<pc, kernel>> /\ Remembers(m)
      /\ known' = IF Selected(i) THEN Asked(i) ELSE known
      /\ IF Selected(i) THEN RemoveAddress(a, i) ELSE UNCHANGED manager
      /\ UNCHANGED <<name, present, renamed>>
  BY DEF ParseDel, kernel
<1>1. /\ m.type = "del" /\ a \in Addrs /\ i \in InterfaceType /\ Named(i) /\ i.index = IndexOf[a]
  BY <1>0, ParsedMessage
<1> HIDE DEF m, i
<1>2. /\ known' \subseteq [index : Indexes, usable : BOOLEAN]
      /\ \A v \in known' : v.index \notin renamed => (v.usable <=> v.index \in Multicast)
  <2>1. CASE Selected(i)
    BY <2>1, <1>0, <1>1, AskedVerdict
  <2>2. CASE ~Selected(i)
    BY <2>2, <1>0, <1>t DEF RMTypeOK, KnownInv
  <2> QED
    BY <2>1, <2>2
<1>3. KnownInv'
  BY <1>0, <1>2 DEF KnownInv
<1>4. \A b : Of(m, b) <=> b = a
  BY <1>1 DEF Of
<1>5. running \in [Addrs -> BOOLEAN] /\ entry = [b \in Addrs |-> entry[b]]
  BY <1>t DEF RMTypeOK
<1>6. \/ entry' = entry /\ running' = running
      \/ entry' = [entry EXCEPT ![a] = Absent] /\ running' = [running EXCEPT ![a] = FALSE]
  BY <1>0 DEF RemoveAddress, manager
<1>7. /\ running' \in [Addrs -> BOOLEAN] /\ entry' = [b \in Addrs |-> entry'[b]]
      /\ \A b \in Addrs : b # a => entry'[b] = entry[b] /\ running'[b] = running[b]
      /\ running'[a] => entry'[a] = entry[a] /\ running[a]
  <2>1. CASE entry' = entry /\ running' = running
    BY <2>1, <1>5
  <2>2. CASE entry' = [entry EXCEPT ![a] = Absent] /\ running' = [running EXCEPT ![a] = FALSE]
    BY <2>2, <1>1, <1>5
  <2> QED
    BY <2>1, <2>2, <1>6
<1>8. ServedInv'
  BY <1>0, <1>7, <1>t DEF ServedInv
<1>9. ASSUME IndexOf[a] \notin renamed PROVE ~running'[a]
  <2> SUFFICES ASSUME running[a] PROVE ~running'[a]
    BY <1>7
  <2>1. entry[a] = [index |-> IndexOf[a], name |-> FirstName[IndexOf[a]]] /\ FirstName[IndexOf[a]] \in Allowed
    BY <1>1, <1>9, <1>t DEF ServedInv
  <2>2. IndexOf[a] \in Indexes
    BY <1>1, RouteAssumption
  <2>3. i.name = FirstName[IndexOf[a]]
    BY <2>2, <1>1, <1>9 DEF Named
  <2>4. NoInterface.name \notin Allowed
    BY RouteAssumption DEF NoInterface
  <2>5. Selected(i)
    BY <2>1, <2>3, <2>4 DEF Selected
  <2>6. i = entry[a]
    <3>1. i \in [index : Indexes, name : Names]
      BY <2>5, <1>1 DEF Selected, InterfaceType
    <3> QED
      BY <3>1, <2>1, <2>3, <1>1
  <2>7. running' = [running EXCEPT ![a] = FALSE]
    BY <2>5, <2>6, <1>0 DEF RemoveAddress
  <2> QED
    BY <2>7, <1>1, <1>5
<1>10. "del" = Now(a) => ~Usable(a)
  BY DEF Now, Usable
<1> QED
  BY <1>0, <1>1, <1>2, <1>3, <1>4, <1>7, <1>8, <1>9, <1>10, ParsedInd DEF m

-----------------------------------------------------------------------------
(* The theorems *)

\* At the start the queue is empty, the map too, and no interface was renamed.
LEMMA RMInitInd ==
    ASSUME RInit0
    PROVE  RMInd
<1>0. /\ name = FirstName /\ present \subseteq Addrs /\ queue = <<>> /\ pc = "size" /\ buf = <<>>
      /\ known = {} /\ last = NoInterface /\ lost = {} /\ renamed = {}
      /\ entry = [a \in Addrs |-> Absent] /\ running = [a \in Addrs |-> FALSE]
  BY DEF RInit0, MapInit
<1>1. /\ FirstName \in [Indexes -> Names] /\ Gone \notin Names
      /\ (\A i, j \in Indexes : FirstName[i] = FirstName[j] => i = j)
      /\ IndexOf \in [Addrs -> Indexes] /\ Interfaces \in Nat
  BY RouteAssumption
<1>2. <<>> \in Seq(Notifications) /\ Len(<<>>) = 0
  OBVIOUS
<1>3. \A k : k \notin 1..Len(<<>>)
  BY <1>2
<1>4. RMTypeOK
  BY <1>0, <1>1, <1>2 DEF RMTypeOK, InterfaceType
<1>5. NameInv
  BY <1>0, <1>1 DEF NameInv
<1>6. LabelInv
  <2>1. Named(NoInterface)
    BY <1>1 DEF Named, NoInterface, Indexes
  <2> QED
    BY <2>1, <1>0, <1>3 DEF LabelInv
<1>7. KnownInv /\ PlaceInv /\ ServedInv /\ BufInv
  BY <1>0 DEF KnownInv, PlaceInv, ServedInv, BufInv
<1>8. QueueInv
  BY <1>0, NoMessage DEF QueueInv
<1>9. MapInv
  BY <1>0 DEF MapInv
<1> QED
  BY <1>4, <1>5, <1>6, <1>7, <1>8, <1>9 DEF RMInd

\* Every step keeps the invariant.
LEMMA RMStep ==
    ASSUME RMInd, [RMNext]_rvars
    PROVE  RMInd'
<1>1. CASE \/ \E a \in Addrs : AddrAdded(a) \/ AddrRemoved(a)
           \/ \E i \in Indexes : Deleted(i) \/ \E n \in Names : Renamed(i, n)
  BY <1>1, KernelSteps
<1>2. CASE \/ SysctlSize \/ SysctlFails \/ ParseEnds \/ ReadFails \/ Stops
           \/ \E a \in Addrs : ServerFails(a)
  BY <1>2, OtherSteps
<1>3. CASE SysctlCopy
  BY <1>3, CopyStep
<1>4. CASE Read
  BY <1>4, ReadStep
<1>5. CASE ParseInfo \/ ParseOther
  BY <1>5, QuietParse
<1>6. CASE ParseNew
  BY <1>6, NewParse
<1>7. CASE ParseDel
  BY <1>7, DelParse
<1>8. CASE SysctlNoMem \/ UNCHANGED rvars
  <2>1. UNCHANGED <<name, present, queue, lost, renamed, pc, want, buf, half, known, last, entry, running>>
    BY <1>8 DEF SysctlNoMem, rvars, kernel, table, manager
  <2>2. /\ RMTypeOK' /\ NameInv' /\ LabelInv' /\ KnownInv' /\ PlaceInv' /\ ServedInv'
    BY <2>1 DEF RMInd, RMTypeOK, NameInv, LabelInv, Named, KnownInv, PlaceInv, InPlace, IsInfo, ServedInv
  <2>3. QueueInv' /\ BufInv' /\ MapInv'
    BY <2>1 DEF RMInd, QueueInv, BufInv, MapInv, About, Of, EndsAs, Now, Usable
  <2> QED
    BY <2>2, <2>3 DEF RMInd
<1> QED
  BY <1>1, <1>2, <1>3, <1>4, <1>5, <1>6, <1>7, <1>8 DEF RMNext, RMonitor

\* What is queued and what is in the buffer tells the state of every address of
\* which nothing was dropped; the map tells that of the others.
THEOREM RMIndAlways == RMSpec => []RMInd
<1>1. RInit0 => RMInd
  BY RMInitInd
<1>2. RMInd /\ [RMNext]_rvars => RMInd'
  BY RMStep
<1> QED
  BY <1>1, <1>2, PTL DEF RMSpec

\* The table and the notifications that were queued while it was copied miss
\* no address.
THEOREM TableMissesNoneAlways == RMSpec => []TableMissesNone
<1>1. RMInd => TableMissesNone
  <2> SUFFICES ASSUME RMInd, Quiet, NEW a \in Addrs, Usable(a), a \notin lost, IndexOf[a] \notin renamed
               PROVE  entry[a] # Absent
    BY DEF TableMissesNone
  <2>1. pc = "wait" /\ queue = <<>> /\ buf = <<>>
    BY DEF Quiet, RMInd, RMTypeOK
  <2>2. ~About(queue, a) /\ ~About(buf, a)
    BY <2>1, NoMessage
  <2> QED
    BY <2>1, <2>2 DEF RMInd, MapInv
<1> QED
  BY <1>1, RMIndAlways, PTL

\* An old notification brings no address back for good.
THEOREM TableLeavesNoGhostsAlways == RMSpec => []TableLeavesNoGhosts
<1>1. RMInd => TableLeavesNoGhosts
  <2> SUFFICES ASSUME RMInd, Quiet, NEW a \in Addrs, a \notin present, a \notin lost, IndexOf[a] \notin renamed
               PROVE  ~running[a]
    BY DEF TableLeavesNoGhosts
  <2>1. pc = "wait" /\ queue = <<>> /\ buf = <<>>
    BY DEF Quiet, RMInd, RMTypeOK
  <2>2. ~About(queue, a) /\ ~About(buf, a)
    BY <2>1, NoMessage
  <2> QED
    BY <2>1, <2>2 DEF RMInd, MapInv
<1> QED
  BY <1>1, RMIndAlways, PTL

\* An address is served on its own interface, which is selected and can do
\* multicast.
THEOREM ServedOnItsInterfaceAlways == RMSpec => []ServedOnItsInterface
<1>1. RMInd => ServedOnItsInterface
  <2> SUFFICES ASSUME RMInd, NEW a \in Addrs, running[a], IndexOf[a] \notin renamed
               PROVE  /\ entry[a] = Interface(IndexOf[a])
                      /\ name[IndexOf[a]] \in Allowed /\ IndexOf[a] \in Multicast
    BY DEF ServedOnItsInterface
  <2>1. name[IndexOf[a]] = FirstName[IndexOf[a]]
    BY RouteAssumption DEF RMInd, NameInv
  <2> QED
    BY <2>1 DEF RMInd, ServedInv, Interface
<1> QED
  BY <1>1, RMIndAlways, PTL
=============================================================================
