-------------------------- MODULE EventStreamProofs --------------------------
(***************************************************************************)
(* Proofs about EventStream, for any payloads, of any lines whatever, and  *)
(* any number of heartbeats: Inv is inductive, and EventsIntact is a part  *)
(* of it.                                                                  *)
(*                                                                         *)
(* The argument is one about the lines on their way.  Read to their end,   *)
(* they make the browser dispatch just the events that are still expected, *)
(* and leave none half read.  Buffers that pass lines on change nothing in *)
(* that; what the handler writes is a block of lines that completes its    *)
(* own events, one as a rule, or, as a heartbeat, none; a lost connection  *)
(* cuts lines off at the end, which leaves the events before them whole;   *)
(* and reading a line takes it off at the front.                           *)
(***************************************************************************)
EXTENDS EventStream, TLAPS, SequenceTheorems

-----------------------------------------------------------------------------
(* Reading                                                                 *)

\* A line turns an event under construction into another.
LEMMA AfterType ==
  ASSUME NEW x \in Event, NEW l \in Line
  PROVE  After(x, l) \in Event
<1>1. CASE l.field = "event"
  BY <1>1 DEF After, Event, Line
<1>2. CASE l.field = "data"
  <2>1. Append(x.data, l.value) \in Seq(Value)
    BY DEF Event, Line
  <2>2. After(x, l) = [x EXCEPT !.data = Append(@, l.value)]
    BY <1>2 DEF After
  <2> QED BY <2>1, <2>2 DEF Event
<1>3. CASE l.field = "empty"
  BY <1>3 DEF After, NoEvent, Event, Value
<1>4. CASE l.field \notin {"event", "data", "empty"}
  BY <1>4 DEF After
<1> QED BY <1>1, <1>2, <1>3, <1>4

\* Nothing is read.
LEMMA ReadNothing ==
  ASSUME NEW events, NEW x \in Event, NEW m \in Nat
  PROVE  Reads(<< >>, events, x, m, x, m)
<1> DEFINE e == [j \in 0..Len(<< >>) |-> x]
           n == [j \in 0..Len(<< >>) |-> m]
<1>1. /\ e \in [0..Len(<< >>) -> Event] /\ n \in [0..Len(<< >>) -> Nat]
      /\ e[0] = x /\ n[0] = m /\ e[Len(<< >>)] = x /\ n[Len(<< >>)] = m
      /\ 1..Len(<< >>) = {}
  OBVIOUS
<1> HIDE DEF e, n
<1> QED BY <1>1, Zenon DEF Reads, IsRun

\* One line is read.
LEMMA ReadLine ==
  ASSUME NEW events, NEW x \in Event, NEW m \in Nat, NEW l \in Line, NEW k \in Nat,
         k = IF Completes(x, l) THEN m + 1 ELSE m,
         Completes(x, l) => k <= Len(events) /\ x = events[k]
  PROVE  Reads(<<l>>, events, x, m, After(x, l), k)
<1> DEFINE q == <<l>>
           e == [j \in 0..Len(q) |-> IF j = 0 THEN x ELSE After(x, l)]
           n == [j \in 0..Len(q) |-> IF j = 0 THEN m ELSE k]
<1>1. Len(q) = 1 /\ q[1] = l
  OBVIOUS
<1>2. /\ e \in [0..Len(q) -> Event] /\ n \in [0..Len(q) -> Nat]
      /\ e[0] = x /\ n[0] = m /\ e[Len(q)] = After(x, l) /\ n[Len(q)] = k
  BY <1>1, AfterType
<1>3. e[1] = After(x, l) /\ n[1] = k /\ 1..Len(q) = {1} /\ 1 - 1 = 0
  BY <1>1
<1> HIDE DEF q, e, n
<1>4. ASSUME NEW j \in 1..Len(q)
      PROVE  /\ e[j] = After(e[j - 1], q[j])
             /\ n[j] = IF Completes(e[j - 1], q[j]) THEN n[j - 1] + 1 ELSE n[j - 1]
             /\ Completes(e[j - 1], q[j]) => n[j] <= Len(events) /\ e[j - 1] = events[n[j]]
  <2>1. j = 1
    BY <1>3
  <2> QED BY <1>1, <1>2, <1>3, <2>1
<1>5. Reads(q, events, x, m, After(x, l), k)
  BY <1>2, <1>4, Zenon DEF Reads, IsRun
<1> QED BY <1>5 DEF q

\* What is read in two parts is read.
LEMMA ReadBoth ==
  ASSUME NEW q \in Seq(Line), NEW r \in Seq(Line), NEW events,
         NEW x, NEW m, NEW y, NEW k, NEW z, NEW l,
         Reads(q, events, x, m, y, k), Reads(r, events, y, k, z, l)
  PROVE  Reads(q \o r, events, x, m, z, l)
<1> DEFINE Step(e, n, s, j) ==
             /\ e[j] = After(e[j - 1], s[j])
             /\ n[j] = IF Completes(e[j - 1], s[j]) THEN n[j - 1] + 1 ELSE n[j - 1]
             /\ Completes(e[j - 1], s[j]) =>
                   n[j] <= Len(events) /\ e[j - 1] = events[n[j]]
<1>1. PICK e1 \in [0..Len(q) -> Event], n1 \in [0..Len(q) -> Nat] :
        /\ e1[0] = x /\ n1[0] = m /\ e1[Len(q)] = y /\ n1[Len(q)] = k
        /\ \A j \in 1..Len(q) : Step(e1, n1, q, j)
  BY Zenon DEF Reads, IsRun
<1>2. PICK e2 \in [0..Len(r) -> Event], n2 \in [0..Len(r) -> Nat] :
        /\ e2[0] = y /\ n2[0] = k /\ e2[Len(r)] = z /\ n2[Len(r)] = l
        /\ \A j \in 1..Len(r) : Step(e2, n2, r, j)
  BY Zenon DEF Reads, IsRun
<1> DEFINE s == q \o r
           e == [j \in 0..Len(s) |-> IF j <= Len(q) THEN e1[j] ELSE e2[j - Len(q)]]
           n == [j \in 0..Len(s) |-> IF j <= Len(q) THEN n1[j] ELSE n2[j - Len(q)]]
<1>3. /\ s \in Seq(Line) /\ Len(s) = Len(q) + Len(r) /\ Len(q) \in Nat /\ Len(r) \in Nat
      /\ \A j \in 1..Len(q) : s[j] = q[j]
      /\ \A j \in 1..Len(r) : s[Len(q) + j] = r[j]
  OBVIOUS
<1> HIDE DEF s
<1>4. /\ e \in [0..Len(s) -> Event] /\ n \in [0..Len(s) -> Nat]
      /\ e[0] = x /\ n[0] = m
  BY <1>1, <1>2, <1>3
<1>5. ASSUME NEW j \in 0..Len(r)
      PROVE  e[Len(q) + j] = e2[j] /\ n[Len(q) + j] = n2[j]
  <2>1. Len(q) + j \in 0..Len(s) /\ (Len(q) + j) - Len(q) = j
    BY <1>3
  <2>2. CASE j = 0
    BY <1>1, <1>2, <1>3, <2>1, <2>2
  <2>3. CASE j > 0
    <3>1. ~(Len(q) + j <= Len(q))
      BY <1>3, <2>3
    <3> QED BY <2>1, <3>1
  <2> QED BY <2>2, <2>3
<1>6. \A j \in 0..Len(q) : e[j] = e1[j] /\ n[j] = n1[j]
  BY <1>3
<1>7. e[Len(s)] = z /\ n[Len(s)] = l
  <2>1. Len(r) \in 0..Len(r)
    BY <1>3
  <2> HIDE DEF e, n
  <2> QED BY <1>2, <1>3, <1>5, <2>1
<1> HIDE DEF e, n
<1>8. ASSUME NEW j \in 1..Len(s)
      PROVE  Step(e, n, s, j)
  <2>1. CASE j <= Len(q)
    <3>1. j \in 1..Len(q) /\ j \in 0..Len(q) /\ j - 1 \in 0..Len(q) /\ s[j] = q[j]
      BY <1>3, <2>1
    <3>2. e[j] = e1[j] /\ n[j] = n1[j] /\ e[j - 1] = e1[j - 1] /\ n[j - 1] = n1[j - 1]
      BY <1>6, <3>1
    <3> QED BY <1>1, <3>1, <3>2
  <2>2. CASE j > Len(q)
    <3> DEFINE i == j - Len(q)
    <3>1. i \in 1..Len(r) /\ i \in 0..Len(r) /\ i - 1 \in 0..Len(r) /\ s[j] = r[i]
      <4>1. i \in 1..Len(r) /\ j = Len(q) + i
        BY <1>3, <2>2
      <4> QED BY <1>3, <4>1
    <3>2. j = Len(q) + i /\ j - 1 = Len(q) + (i - 1)
      BY <1>3
    <3> HIDE DEF i
    <3>3. e[j] = e2[i] /\ n[j] = n2[i] /\ e[j - 1] = e2[i - 1] /\ n[j - 1] = n2[i - 1]
      BY <1>5, <3>1, <3>2
    <3> QED BY <1>2, <3>1, <3>3
  <2> QED BY <1>3, <2>1, <2>2
<1>9. Reads(s, events, x, m, z, l)
  BY <1>4, <1>7, <1>8, Zenon DEF Reads, IsRun
<1> QED BY <1>9 DEF s

\* What is cut off at the end changes nothing before it.
LEMMA ReadPrefix ==
  ASSUME NEW q \in Seq(Line), NEW c \in 0..Len(q), NEW events, NEW x, NEW m, NEW y, NEW k,
         Reads(q, events, x, m, y, k)
  PROVE  \E z \in Event, l \in Nat : Reads(SubSeq(q, 1, c), events, x, m, z, l)
<1> DEFINE Step(e, n, t, j) ==
             /\ e[j] = After(e[j - 1], t[j])
             /\ n[j] = IF Completes(e[j - 1], t[j]) THEN n[j - 1] + 1 ELSE n[j - 1]
             /\ Completes(e[j - 1], t[j]) =>
                   n[j] <= Len(events) /\ e[j - 1] = events[n[j]]
<1>1. PICK e1 \in [0..Len(q) -> Event], n1 \in [0..Len(q) -> Nat] :
        /\ e1[0] = x /\ n1[0] = m
        /\ \A j \in 1..Len(q) : Step(e1, n1, q, j)
  BY Zenon DEF Reads, IsRun
<1> DEFINE s == SubSeq(q, 1, c)
           e == [j \in 0..c |-> e1[j]]
           n == [j \in 0..c |-> n1[j]]
<1>2. Len(s) = c /\ c \in Nat /\ Len(q) \in Nat /\ \A j \in 1..c : s[j] = q[j]
  OBVIOUS
<1> HIDE DEF s
<1>3. /\ e \in [0..Len(s) -> Event] /\ n \in [0..Len(s) -> Nat]
      /\ e[0] = x /\ n[0] = m /\ e[Len(s)] \in Event /\ n[Len(s)] \in Nat
  <2>1. Len(s) = c /\ c \in 0..c /\ 0 \in 0..c /\ 0..c \subseteq 0..Len(q)
    BY <1>2
  <2>2. e \in [0..c -> Event] /\ n \in [0..c -> Nat] /\ e[0] = e1[0] /\ n[0] = n1[0]
    BY <1>1, <2>1
  <2> HIDE DEF e, n
  <2> QED BY <1>1, <2>1, <2>2
<1>4. \A j \in 0..c : e[j] = e1[j] /\ n[j] = n1[j]
  OBVIOUS
<1> HIDE DEF e, n
<1>5. ASSUME NEW j \in 1..Len(s)
      PROVE  Step(e, n, s, j)
  <2>1. j \in 1..Len(q) /\ j \in 0..c /\ j - 1 \in 0..c /\ s[j] = q[j]
    BY <1>2
  <2>2. e[j] = e1[j] /\ n[j] = n1[j] /\ e[j - 1] = e1[j - 1] /\ n[j - 1] = n1[j - 1]
    BY <1>4, <2>1
  <2> QED BY <1>1, <2>1, <2>2
<1>6. Reads(s, events, x, m, e[Len(s)], n[Len(s)])
  BY <1>3, <1>5, Zenon DEF Reads, IsRun
<1> QED BY <1>3, <1>6 DEF s

\* The first line is read, and the others after it.
LEMMA ReadFirst ==
  ASSUME NEW q \in Seq(Line), q # << >>, NEW events, NEW x \in Event, NEW m \in Nat,
         NEW y, NEW k, Reads(q, events, x, m, y, k),
         NEW l, l = IF Completes(x, Head(q)) THEN m + 1 ELSE m
  PROVE  /\ Reads(Tail(q), events, After(x, Head(q)), l, y, k)
         /\ Completes(x, Head(q)) => l <= Len(events) /\ x = events[l]
<1> DEFINE Step(e, n, t, j) ==
             /\ e[j] = After(e[j - 1], t[j])
             /\ n[j] = IF Completes(e[j - 1], t[j]) THEN n[j - 1] + 1 ELSE n[j - 1]
             /\ Completes(e[j - 1], t[j]) =>
                   n[j] <= Len(events) /\ e[j - 1] = events[n[j]]
<1>1. PICK e1 \in [0..Len(q) -> Event], n1 \in [0..Len(q) -> Nat] :
        /\ e1[0] = x /\ n1[0] = m /\ e1[Len(q)] = y /\ n1[Len(q)] = k
        /\ \A j \in 1..Len(q) : Step(e1, n1, q, j)
  BY Zenon DEF Reads, IsRun
<1> DEFINE s == Tail(q)
           e == [j \in 0..Len(s) |-> e1[j + 1]]
           n == [j \in 0..Len(s) |-> n1[j + 1]]
<1>2. /\ s \in Seq(Line) /\ Len(q) = Len(s) + 1 /\ Len(s) \in Nat /\ Head(q) = q[1]
      /\ \A j \in 1..Len(s) : s[j] = q[j + 1]
  OBVIOUS
<1>3. /\ e1[1] = After(x, Head(q)) /\ n1[1] = l
      /\ Completes(x, Head(q)) => l <= Len(events) /\ x = events[l]
  <2>1. Step(e1, n1, q, 1) /\ 1 - 1 = 0
    BY <1>1, <1>2
  <2> QED BY <1>1, <1>2, <2>1
<1> HIDE DEF s
<1>4. /\ e \in [0..Len(s) -> Event] /\ n \in [0..Len(s) -> Nat]
      /\ e[0] = e1[1] /\ n[0] = n1[1] /\ e[Len(s)] = y /\ n[Len(s)] = k
  BY <1>1, <1>2
<1>5. \A j \in 0..Len(s) : e[j] = e1[j + 1] /\ n[j] = n1[j + 1]
  OBVIOUS
<1> HIDE DEF e, n
<1>6. ASSUME NEW j \in 1..Len(s)
      PROVE  Step(e, n, s, j)
  <2>1. /\ j + 1 \in 1..Len(q) /\ j \in 0..Len(s) /\ j - 1 \in 0..Len(s) /\ s[j] = q[j + 1]
        /\ (j - 1) + 1 = j /\ (j + 1) - 1 = j
    BY <1>2
  <2>2. e[j] = e1[j + 1] /\ n[j] = n1[j + 1] /\ e[j - 1] = e1[j] /\ n[j - 1] = n1[j]
    BY <1>5, <2>1
  <2> QED BY <1>1, <2>1, <2>2
<1>7. e[0] = After(x, Head(q)) /\ n[0] = l
  BY <1>3, <1>4
<1>8. Reads(s, events, After(x, Head(q)), l, y, k)
  BY <1>4, <1>6, <1>7, Zenon DEF Reads, IsRun
<1> QED BY <1>3, <1>8 DEF s

\* More may be expected than is read.
LEMMA ReadMore ==
  ASSUME NEW q, NEW events, NEW more, NEW x, NEW m, NEW y, NEW k,
         Reads(q, events, x, m, y, k), Len(events) \in Nat, Len(more) \in Nat,
         Len(events) <= Len(more),
         \A j \in 1..Len(events) : more[j] = events[j]
  PROVE  Reads(q, more, x, m, y, k)
<1> DEFINE Step(e, n, t, j) ==
             /\ e[j] = After(e[j - 1], q[j])
             /\ n[j] = IF Completes(e[j - 1], q[j]) THEN n[j - 1] + 1 ELSE n[j - 1]
             /\ Completes(e[j - 1], q[j]) => n[j] <= Len(t) /\ e[j - 1] = t[n[j]]
<1>1. PICK e \in [0..Len(q) -> Event], n \in [0..Len(q) -> Nat] :
        /\ e[0] = x /\ n[0] = m /\ e[Len(q)] = y /\ n[Len(q)] = k
        /\ \A j \in 1..Len(q) : Step(e, n, events, j)
  BY Zenon DEF Reads, IsRun
<1>2. ASSUME NEW j \in 1..Len(q)
      PROVE  Step(e, n, more, j)
  <2>1. CASE Completes(e[j - 1], q[j])
    <3>1. n[j] = n[j - 1] + 1 /\ n[j] <= Len(events) /\ e[j - 1] = events[n[j]]
      BY <1>1, <2>1
    <3>2. j - 1 \in 0..Len(q) /\ n[j - 1] \in Nat
      BY <1>1
    <3>3. n[j] \in 1..Len(events)
      BY <3>1, <3>2
    <3> QED BY <1>1, <2>1, <3>1, <3>3
  <2>2. CASE ~Completes(e[j - 1], q[j])
    BY <1>1, <2>2
  <2> QED BY <2>1, <2>2
<1> QED BY <1>1, <1>2, Zenon DEF Reads, IsRun

-----------------------------------------------------------------------------
(* What the handler writes                                                 *)

\* The two events that a browser begins with.
LEMMA EventTypes ==
  /\ NoEvent \in Event /\ NoEvent.data = << >>
  /\ Blank \in Line /\ Blank.field = "empty"
  /\ \A x : After(x, Blank) = NoEvent
BY DEF NoEvent, Event, Value, Blank, Field, Line, After

\* Two lines are one and another.
LEMMA TwoLines ==
  ASSUME NEW a \in Line, NEW b \in Line
  PROVE  <<a, b>> \in Seq(Line) /\ <<a>> \o <<b>> = <<a, b>>
<1>1. <<a, b>> \in Seq(Line) /\ <<a>> \in Seq(Line) /\ <<b>> \in Seq(Line)
  OBVIOUS
<1> DEFINE s == <<a>> \o <<b>>
           t == <<a, b>>
<1>2. /\ s \in Seq(Line) /\ Len(s) = 2 /\ s[1] = a /\ s[2] = b
      /\ t \in Seq(Line) /\ Len(t) = 2 /\ t[1] = a /\ t[2] = b
  BY <1>1
<1> HIDE DEF s, t
<1>3. \A i \in 1..Len(s) : s[i] = t[i]
  BY <1>2
<1>4. s = t
  BY <1>2, <1>3, SeqEqual
<1> QED BY <1>1, <1>4 DEF s, t

\* A type and data are a sequence of lines, the last of them empty.
LEMMA LinesType ==
  ASSUME NEW e, e.type \in Text, e.data \in Text
  PROVE  /\ Lines(e) \in Seq(Line) /\ Lines(e) # << >>
         /\ Lines(e)[Len(Lines(e))] = Blank
<1> DEFINE q == ((<<Field("event", e.type.head)>> \o e.type.tail)
                    \o <<Field("data", e.data.head)>>) \o e.data.tail
<1>1. /\ Field("event", e.type.head) \in Line /\ e.type.tail \in Seq(Line)
      /\ Field("data", e.data.head) \in Line /\ e.data.tail \in Seq(Line)
  BY DEF Text, Field, Line
<1>2. q \in Seq(Line)
  BY <1>1
<1>3. Lines(e) = q \o <<Blank>>
  BY Zenon DEF Lines
<1> HIDE DEF q
<1>4. /\ q \o <<Blank>> \in Seq(Line) /\ Len(q \o <<Blank>>) = Len(q) + 1
      /\ (q \o <<Blank>>)[Len(q) + 1] = Blank /\ q \o <<Blank>> # << >>
  BY <1>2, EventTypes
<1> QED BY <1>3, <1>4

\* Split returns texts.
LEMMA SplitType ==
  ASSUME NEW p \in Payload
  PROVE  Split(p).type \in Text /\ Split(p).data \in Text
<1>1. OneLine("message") \in Text
  BY DEF OneLine, Text, Value
<1> QED BY <1>1, EventStreamAssumption DEF Split

\* Type and data on one line are one event to a browser that has none half read.
LEMMA ReadOneLine ==
  ASSUME NEW e, e.type \in Text, e.data \in Text, e.type.tail = << >>, e.data.tail = << >>,
         NEW m \in Nat, NEW events, m + 1 <= Len(events),
         events[m + 1] = [type |-> e.type.head, data |-> <<e.data.head>>]
  PROVE  Reads(Lines(e), events, NoEvent, m, NoEvent, m + 1)
<1> DEFINE a == Field("event", e.type.head)
           b == Field("data", e.data.head)
           y == [type |-> e.type.head, data |-> << >>]
           x == [type |-> e.type.head, data |-> <<e.data.head>>]
<1>1. a \in Line /\ b \in Line /\ a.field = "event" /\ b.field = "data"
  BY DEF Field, Line, Text
<1>2. y \in Event /\ x \in Event /\ x.data # << >>
  BY DEF Event, Text
<1>3. After(NoEvent, a) = y /\ After(y, b) = x
  BY DEF After, NoEvent, Field
<1>4. ~Completes(NoEvent, a) /\ ~Completes(y, b)
  BY <1>1 DEF Completes
<1>5. Completes(x, Blank) /\ After(x, Blank) = NoEvent /\ x = events[m + 1]
  BY <1>2, EventTypes DEF Completes
<1>6. Lines(e) = (((<<a>> \o << >>) \o <<b>>) \o << >>) \o <<Blank>>
  BY Zenon DEF Lines
<1> HIDE DEF a, b, x, y
<1>7. /\ <<a>> \in Seq(Line) /\ <<b>> \in Seq(Line) /\ <<Blank>> \in Seq(Line)
      /\ <<a>> \o <<b>> \in Seq(Line)
      /\ <<a>> \o << >> = <<a>> /\ (<<a>> \o <<b>>) \o << >> = <<a>> \o <<b>>
  BY <1>1, EventTypes
<1>8. Reads(<<a>>, events, NoEvent, m, y, m)
  BY <1>1, <1>3, <1>4, EventTypes, ReadLine
<1>9. Reads(<<b>>, events, y, m, x, m)
  BY <1>1, <1>2, <1>3, <1>4, ReadLine
<1>10. Reads(<<Blank>>, events, x, m, NoEvent, m + 1)
  BY <1>2, <1>5, EventTypes, ReadLine, SMTT(30)
<1>11. Reads(<<a>> \o <<b>>, events, NoEvent, m, x, m)
  BY <1>7, <1>8, <1>9, ReadBoth
<1>12. Reads((<<a>> \o <<b>>) \o <<Blank>>, events, NoEvent, m, NoEvent, m + 1)
  BY <1>7, <1>10, <1>11, ReadBoth
<1>13. Lines(e) = (<<a>> \o <<b>>) \o <<Blank>>
  BY <1>6, <1>7
<1> QED BY <1>12, <1>13

\* What lines say alone they say after other events, too.
LEMMA ReadBehind ==
  ASSUME NEW q \in Seq(Line), NEW events \in Seq(Event), NEW before \in Seq(Event),
         NEW e \in [0..Len(q) -> Event], NEW n \in [0..Len(q) -> Nat],
         e[0] = NoEvent, n[0] = 0, IsRun(q, events, e, n)
  PROVE  Reads(q, before \o events, NoEvent, Len(before),
               e[Len(q)], Len(before) + n[Len(q)])
<1> DEFINE all == before \o events
           k == [j \in 0..Len(q) |-> Len(before) + n[j]]
<1>1. /\ Len(q) \in Nat /\ Len(before) \in Nat /\ Len(events) \in Nat
      /\ Len(all) = Len(before) + Len(events)
      /\ \A i \in 1..Len(events) : all[Len(before) + i] = events[i]
  OBVIOUS
<1> HIDE DEF all
<1>2. k \in [0..Len(q) -> Nat] /\ \A j \in 0..Len(q) : k[j] = Len(before) + n[j]
  BY <1>1
<1> HIDE DEF k
<1>3. ASSUME NEW j \in 1..Len(q)
      PROVE  /\ e[j] = After(e[j - 1], q[j])
             /\ k[j] = IF Completes(e[j - 1], q[j]) THEN k[j - 1] + 1 ELSE k[j - 1]
             /\ Completes(e[j - 1], q[j]) => k[j] <= Len(all) /\ e[j - 1] = all[k[j]]
  <2>1. /\ e[j] = After(e[j - 1], q[j])
        /\ n[j] = IF Completes(e[j - 1], q[j]) THEN n[j - 1] + 1 ELSE n[j - 1]
        /\ Completes(e[j - 1], q[j]) => n[j] <= Len(events) /\ e[j - 1] = events[n[j]]
    BY DEF IsRun
  <2>2. /\ j \in 0..Len(q) /\ j - 1 \in 0..Len(q)
        /\ n[j] \in Nat /\ n[j - 1] \in Nat
        /\ k[j] = Len(before) + n[j] /\ k[j - 1] = Len(before) + n[j - 1]
    <3>1. j \in 0..Len(q) /\ j - 1 \in 0..Len(q)
      BY <1>1
    <3>2. n[j] \in Nat /\ n[j - 1] \in Nat
      BY <3>1
    <3> QED BY <1>2, <3>1, <3>2
  <2>3. CASE Completes(e[j - 1], q[j])
    <3>1. n[j] = n[j - 1] + 1 /\ n[j] <= Len(events) /\ e[j - 1] = events[n[j]]
      BY <2>1, <2>3
    <3>2. n[j] \in 1..Len(events)
      BY <1>1, <2>2, <3>1
    <3>3. all[k[j]] = events[n[j]]
      BY <1>1, <2>2, <3>2
    <3>4. k[j] = k[j - 1] + 1 /\ k[j] <= Len(all)
      BY <1>1, <2>2, <3>1
    <3> QED BY <2>1, <2>3, <3>1, <3>3, <3>4
  <2>4. CASE ~Completes(e[j - 1], q[j])
    <3>1. n[j] = n[j - 1]
      BY <2>1, <2>4
    <3> QED BY <2>1, <2>2, <2>4, <3>1
  <2> QED BY <2>3, <2>4
<1>4. /\ k[0] = Len(before) /\ k[Len(q)] = Len(before) + n[Len(q)]
  BY <1>1, <1>2
<1>5. Reads(q, all, NoEvent, Len(before), e[Len(q)], Len(before) + n[Len(q)])
  BY <1>2, <1>3, <1>4, Zenon DEF Reads, IsRun
<1> QED BY <1>5 DEF all

\* The lines of a payload, whatever its bytes, are its events to a browser that
\* has none half read, and leave none half read.
LEMMA ReadPayload ==
  ASSUME NEW p \in Payload, NEW before \in Seq(Event)
  PROVE  /\ EventsOf(p) \in Seq(Event) /\ Lines(Split(p)) \in Seq(Line)
         /\ Reads(Lines(Split(p)), before \o EventsOf(p), NoEvent, Len(before),
                  NoEvent, Len(before) + Len(EventsOf(p)))
<1> DEFINE s == Split(p)
           q == Lines(s)
<1>1. s.type \in Text /\ s.data \in Text
  BY SplitType
<1>2. q \in Seq(Line) /\ q # << >> /\ q[Len(q)] = Blank
  BY <1>1, LinesType
<1>3. CASE s.type.tail = << >> /\ s.data.tail = << >>
  <2> DEFINE event == [type |-> s.type.head, data |-> <<s.data.head>>]
  <2>1. event \in Event
    BY <1>1 DEF Text, Event
  <2>2. EventsOf(p) = <<event>>
    BY <1>3, Zenon DEF EventsOf, Events
  <2> HIDE DEF event
  <2>3. /\ <<event>> \in Seq(Event) /\ Len(<<event>>) = 1 /\ Len(before) \in Nat
        /\ Len(before \o <<event>>) = Len(before) + 1
        /\ (before \o <<event>>)[Len(before) + 1] = event
    BY <2>1
  <2>4. Reads(q, before \o <<event>>, NoEvent, Len(before), NoEvent, Len(before) + 1)
    <3> DEFINE events == before \o <<event>>
    <3>1. /\ Len(before) \in Nat /\ Len(before) + 1 <= Len(events)
          /\ events[Len(before) + 1] = [type |-> s.type.head, data |-> <<s.data.head>>]
      BY <2>3 DEF event
    <3> HIDE DEF s, events
    <3>2. Reads(Lines(s), events, NoEvent, Len(before), NoEvent, Len(before) + 1)
      BY <1>1, <1>3, <3>1, ReadOneLine
    <3> QED BY <3>2 DEF events
  <2> QED BY <1>2, <2>2, <2>3, <2>4
<1>4. CASE ~(s.type.tail = << >> /\ s.data.tail = << >>)
  <2> DEFINE r == Reading[p]
  <2>1. /\ r.events \in Seq(Event)
        /\ r.event \in [0..Len(q) -> Event]
        /\ r.count \in [0..Len(q) -> Nat]
        /\ r.event[0] = NoEvent /\ r.count[0] = 0
        /\ r.count[Len(q)] = Len(r.events)
        /\ IsRun(q, r.events, r.event, r.count)
    BY ReadingAssumption
  <2>2. EventsOf(p) = r.events
    BY <1>4, Zenon DEF EventsOf, Events
  <2> HIDE DEF s, q, r
  <2>3. r.event[Len(q)] = NoEvent
    <3>1. Len(q) \in 1..Len(q)
      BY <1>2
    <3>2. r.event[Len(q)] = After(r.event[Len(q) - 1], q[Len(q)])
      BY <2>1, <3>1, Zenon DEF IsRun
    <3> QED BY <1>2, <3>2, EventTypes
  <2>4. Reads(q, before \o r.events, NoEvent, Len(before),
              r.event[Len(q)], Len(before) + r.count[Len(q)])
    BY <1>2, <2>1, ReadBehind
  <2>5. q \in Seq(Line)
    BY <1>2
  <2> QED BY <2>1, <2>2, <2>3, <2>4, <2>5 DEF q, s
<1> QED BY <1>3, <1>4

\* A heartbeat is none.
LEMMA ReadKeepAlive ==
  ASSUME NEW m \in Nat, NEW events
  PROVE  LET q == <<Field("comment", "keepalive"), Blank>> IN
         q \in Seq(Line) /\ Reads(q, events, NoEvent, m, NoEvent, m)
<1> DEFINE a == Field("comment", "keepalive")
<1>1. a \in Line /\ a.field = "comment"
  BY DEF Field, Line, Value
<1> HIDE DEF a
<1>2. After(NoEvent, a) = NoEvent /\ ~Completes(NoEvent, a) /\ ~Completes(NoEvent, Blank)
  BY <1>1, EventTypes DEF After, Completes
<1>3. Reads(<<a>>, events, NoEvent, m, NoEvent, m)
  BY <1>1, <1>2, EventTypes, ReadLine
<1>4. Reads(<<Blank>>, events, NoEvent, m, NoEvent, m)
  BY <1>2, EventTypes, ReadLine
<1>5. /\ <<a>> \in Seq(Line) /\ <<Blank>> \in Seq(Line) /\ <<a, Blank>> \in Seq(Line)
      /\ <<a>> \o <<Blank>> = <<a, Blank>>
  BY <1>1, EventTypes, TwoLines
<1>6. Reads(<<a>> \o <<Blank>>, events, NoEvent, m, NoEvent, m)
  BY <1>3, <1>4, <1>5, ReadBoth
<1> QED BY <1>5, <1>6 DEF a

-----------------------------------------------------------------------------
(* What the browser ought to dispatch                                      *)

\* A prefix agrees wherever it is defined.
LEMMA PrefixIs ==
  ASSUME NEW S, NEW s \in Seq(S), NEW t \in Seq(S)
  PROVE  IsPrefix(s, t) <=> Len(s) <= Len(t) /\ \A i \in 1..Len(s) : s[i] = t[i]
<1>1. SubSeq(s, 1, Len(s)) = s
  BY SubSeqFull
<1>2. ASSUME Len(s) <= Len(t)
      PROVE  /\ SubSeq(t, 1, Len(s)) \in Seq(S) /\ Len(SubSeq(t, 1, Len(s))) = Len(s)
             /\ \A i \in 1..Len(s) : SubSeq(t, 1, Len(s))[i] = t[i]
  BY <1>2
<1>3. ASSUME Len(s) <= Len(t), \A i \in 1..Len(s) : s[i] = t[i]
      PROVE  s = SubSeq(t, 1, Len(s))
  BY <1>2, <1>3, SeqEqual
<1> QED BY <1>1, <1>2, <1>3 DEF IsPrefix

\* More is expected after what was.
LEMMA ExpectedGrows ==
  ASSUME TypeOK, NEW more \in Seq(Event), expected' = expected \o more
  PROVE  /\ expected \in Seq(Event) /\ expected' \in Seq(Event)
         /\ Len(expected) \in Nat /\ Len(expected') \in Nat
         /\ Len(expected) <= Len(expected')
         /\ \A i \in 1..Len(expected) : expected'[i] = expected[i]
<1>1. expected \in Seq(Event)
  BY DEF TypeOK
<1> DEFINE s == expected \o more
<1>2. /\ s \in Seq(Event) /\ Len(s) \in Nat /\ Len(expected) \in Nat
      /\ Len(expected) <= Len(s) /\ \A i \in 1..Len(expected) : s[i] = expected[i]
  BY <1>1
<1> QED BY <1>1, <1>2

\* What was dispatched stays as it ought to be while more is expected.
LEMMA IntactKept ==
  ASSUME TypeOK, EventsIntact, dispatched' = dispatched,
         NEW more \in Seq(Event), expected' = expected \o more
  PROVE  EventsIntact'
<1>1. /\ expected \in Seq(Event) /\ expected' \in Seq(Event)
      /\ Len(expected) \in Nat /\ Len(expected') \in Nat /\ Len(expected) <= Len(expected')
      /\ \A i \in 1..Len(expected) : expected'[i] = expected[i]
      /\ dispatched \in Seq(Event) /\ dispatched' \in Seq(Event)
  BY ExpectedGrows DEF TypeOK
<1>2. Len(dispatched) <= Len(expected) /\ \A i \in 1..Len(dispatched) : dispatched[i] = expected[i]
  BY <1>1, PrefixIs DEF EventsIntact
<1>3. Len(dispatched) <= Len(expected') /\ \A i \in 1..Len(dispatched) : dispatched[i] = expected'[i]
  BY <1>1, <1>2
<1>4. IsPrefix(dispatched', expected')
  BY <1>1, <1>3, PrefixIs
<1> QED BY <1>4 DEF EventsIntact

\* Lines that are only passed on are read all the same.
LEMMA PassOn ==
  ASSUME Inv, UNCHANGED <<expected, broken, parser, dispatched>>, Pending' = Pending
  PROVE  EventsIntact' /\ PendingExpected'
<1>1. EventsIntact'
  BY DEF Inv, EventsIntact
<1>2. PICK y \in Event, k \in Nat :
        /\ Reads(Pending, expected, parser, Len(dispatched), y, k)
        /\ ~broken => y = NoEvent /\ k = Len(expected)
  BY Zenon DEF Inv, PendingExpected
<1>3. Reads(Pending', expected', parser', Len(dispatched'), y, k)
  BY <1>2
<1>4. ~broken' => y = NoEvent /\ k = Len(expected')
  BY <1>2
<1> QED BY <1>1, <1>3, <1>4, Zenon DEF PendingExpected

\* A block of lines that the handler writes is read after what is on its way.
LEMMA PutBehind ==
  ASSUME Inv, TypeOK', frame = << >>, UNCHANGED <<buffer, wire, broken, parser, dispatched>>,
         NEW more \in Seq(Event), expected' = expected \o more,
         broken \/ Reads(frame', expected', NoEvent, Len(expected), NoEvent, Len(expected'))
  PROVE  EventsIntact' /\ PendingExpected'
<1>1. EventsIntact'
  BY IntactKept DEF Inv
<1>2. PICK y \in Event, k \in Nat :
        /\ Reads(Pending, expected, parser, Len(dispatched), y, k)
        /\ ~broken => y = NoEvent /\ k = Len(expected)
  BY Zenon DEF Inv, PendingExpected
<1>3. Reads(Pending, expected', parser, Len(dispatched), y, k)
  BY <1>2, ExpectedGrows, ReadMore DEF Inv
<1>4. CASE broken
  <2>1. Pending' = Pending
    BY <1>4 DEF Pending
  <2>2. Reads(Pending', expected', parser', Len(dispatched'), y, k) /\ broken'
    BY <1>3, <1>4, <2>1
  <2> QED BY <1>1, <2>2, Zenon DEF PendingExpected
<1>5. CASE ~broken
  <2>1. /\ Pending \in Seq(Line) /\ frame' \in Seq(Line) /\ Pending' = Pending \o frame'
    <3>1. /\ wire \in Seq(Line) /\ buffer \in Seq(Line) /\ wire \o buffer \in Seq(Line)
          /\ frame' \in Seq(Line)
      BY DEF Inv, TypeOK
    <3>2. (wire \o buffer) \o << >> = wire \o buffer
      BY <3>1
    <3> QED BY <1>5, <3>1, <3>2 DEF Pending
  <2>2. Reads(Pending \o frame', expected', parser, Len(dispatched), NoEvent, Len(expected'))
    <3>1. Reads(Pending, expected', parser, Len(dispatched), NoEvent, Len(expected))
      BY <1>2, <1>3, <1>5
    <3> QED BY <1>5, <2>1, <3>1, ReadBoth
  <2>3. Len(expected') \in Nat
    BY DEF TypeOK
  <2> QED BY <1>1, <2>1, <2>2, <2>3, EventTypes, Zenon DEF PendingExpected
<1> QED BY <1>4, <1>5

\* Lines are put one behind the other in any grouping.
LEMMA Associative ==
  ASSUME NEW q \in Seq(Line), NEW r \in Seq(Line), NEW s \in Seq(Line)
  PROVE  (q \o r) \o s = q \o (r \o s)
<1> DEFINE a == (q \o r) \o s
           b == q \o (r \o s)
<1>1. /\ a \in Seq(Line) /\ b \in Seq(Line) /\ Len(a) = Len(b)
      /\ \A i \in 1..Len(a) : a[i] = b[i]
  OBVIOUS
<1> HIDE DEF a, b
<1>2. a = b
  BY <1>1, SeqEqual
<1> QED BY <1>2 DEF a, b

-----------------------------------------------------------------------------
(* One lemma per action                                                    *)

\* "ready" is the first event.
LEMMA HeadersStep ==
  ASSUME Inv, Headers
  PROVE  Inv'
<1> DEFINE ready == [type |-> "ready", data |-> <<"connected">>]
           block == [type |-> OneLine("ready"), data |-> OneLine("connected")]
<1>1. expected = << >> /\ frame = << >>
  BY DEF Inv, OneWriter, Headers
<1>2. ready \in Event /\ block.type \in Text /\ block.data \in Text
  BY DEF Event, Text, Value, OneLine
<1>3. /\ block.type.tail = << >> /\ block.data.tail = << >>
      /\ ready = [type |-> block.type.head, data |-> <<block.data.head>>]
  BY DEF OneLine
<1>4. expected' = <<ready>> /\ frame' = Lines(block)
  BY DEF Headers
<1> HIDE DEF ready, block
<1>5. /\ <<ready>> \in Seq(Event) /\ << >> \o <<ready>> = <<ready>>
      /\ Len(<<ready>>) = 1 /\ <<ready>>[1] = ready
  BY <1>2
<1>6. frame' \in Seq(Line)
  BY <1>2, <1>4, LinesType
<1>7. Reads(Lines(block), <<ready>>, NoEvent, 0, NoEvent, 0 + 1)
  <2>1. 0 \in Nat /\ 0 + 1 <= Len(<<ready>>) /\ <<ready>>[0 + 1] = ready
    BY <1>5
  <2> QED BY <1>2, <1>3, <2>1, ReadOneLine
<1>8. TypeOK'
  BY <1>4, <1>5, <1>6 DEF Inv, TypeOK, Headers, browser
<1>9. OneWriter'
  BY DEF OneWriter, Headers
<1>10. EventsIntact' /\ PendingExpected'
  <2>1. Len(expected) = 0 /\ Len(expected') = 0 + 1
    BY <1>1, <1>4, <1>5
  <2>2. Reads(frame', expected', NoEvent, Len(expected), NoEvent, Len(expected'))
    BY <1>4, <1>7, <2>1
  <2>3. expected' = expected \o <<ready>> /\ <<ready>> \in Seq(Event)
    BY <1>1, <1>4, <1>5
  <2> QED BY <1>1, <1>8, <2>2, <2>3, PutBehind DEF Headers, browser
<1> QED BY <1>8, <1>9, <1>10 DEF Inv

\* A payload is its events.
LEMMA TakeStep ==
  ASSUME Inv, Take
  PROVE  Inv'
<1> DEFINE h == Head(local)
<1>1. /\ h \in Payload /\ frame = << >> /\ expected \in Seq(Event)
      /\ Append(taken, h) \in Seq(Payload) /\ Tail(local) \in Seq(Payload)
  BY DEF Inv, OneWriter, TypeOK, Take
<1>2. frame' = Lines(Split(h)) /\ expected' = expected \o EventsOf(h)
  BY DEF Take
<1>3. taken' \in Seq(Payload) /\ local' \in Seq(Payload)
  BY <1>1 DEF Take
<1> HIDE DEF h
<1>4. /\ EventsOf(h) \in Seq(Event) /\ frame' \in Seq(Line)
      /\ Reads(frame', expected', NoEvent, Len(expected),
               NoEvent, Len(expected) + Len(EventsOf(h)))
  BY <1>1, <1>2, ReadPayload
<1>5. expected' \in Seq(Event) /\ Len(expected') = Len(expected) + Len(EventsOf(h))
  BY <1>1, <1>2, <1>4
<1>6. TypeOK'
  BY <1>3, <1>4, <1>5 DEF Inv, TypeOK, Take, browser
<1>7. OneWriter'
  BY DEF OneWriter, Take
<1>8. EventsIntact' /\ PendingExpected'
  BY <1>1, <1>2, <1>4, <1>5, <1>6, PutBehind DEF Take, browser
<1> QED BY <1>6, <1>7, <1>8 DEF Inv

\* A heartbeat is no event, and written between two.
LEMMA KeepAliveStep ==
  ASSUME Inv, KeepAlive
  PROVE  Inv'
<1>1. frame = << >> /\ expected' = expected /\ expected \in Seq(Event)
  BY DEF Inv, OneWriter, TypeOK, KeepAlive, source
<1>2. /\ << >> \in Seq(Event) /\ expected \o << >> = expected /\ Len(expected) \in Nat
  BY <1>1
<1>3. /\ frame' \in Seq(Line)
      /\ Reads(frame', expected', NoEvent, Len(expected), NoEvent, Len(expected'))
  BY <1>1, <1>2, ReadKeepAlive DEF KeepAlive
<1>4. TypeOK'
  <2>1. beats' \in 0..MaxKeepAlive
    BY EventStreamAssumption DEF Inv, TypeOK, KeepAlive
  <2> QED BY <1>3, <2>1 DEF Inv, TypeOK, KeepAlive, source, browser
<1>5. OneWriter'
  BY DEF OneWriter, KeepAlive
<1>6. EventsIntact' /\ PendingExpected'
  <2>1. expected' = expected \o << >> /\ << >> \in Seq(Event)
    BY <1>1, <1>2
  <2> QED BY <1>1, <1>3, <1>4, <2>1, PutBehind DEF KeepAlive, browser
<1> QED BY <1>4, <1>5, <1>6 DEF Inv

\* Write passes lines on to the response, and the connection's buffers to the
\* browser.
LEMMA WriteStep ==
  ASSUME Inv, Write
  PROVE  Inv'
<1>1. PICK n \in 1..Len(frame) :
        /\ buffer' = buffer \o SubSeq(frame, 1, n)
        /\ frame' = SubSeq(frame, n + 1, Len(frame))
        /\ pc' = IF n = Len(frame) THEN "flushing" ELSE pc
  BY DEF Write
<1>2. frame \in Seq(Line) /\ buffer \in Seq(Line) /\ wire \in Seq(Line) /\ Len(frame) \in Nat
  BY DEF Inv, TypeOK
<1>3. SubSeq(frame, 1, n) \in Seq(Line) /\ SubSeq(frame, n + 1, Len(frame)) \in Seq(Line)
  BY <1>2
<1>4. SubSeq(frame, 1, n) \o SubSeq(frame, n + 1, Len(frame)) = frame
  <2>1. SubSeq(frame, 1, Len(frame)) = frame
    BY <1>2, SubSeqFull
  <2>2. SubSeq(frame, 1, n) \o SubSeq(frame, n + 1, Len(frame)) = SubSeq(frame, 1, Len(frame))
    BY <1>2, ConcatAdjacentSubSeq
  <2> QED BY <2>1, <2>2
<1>5. TypeOK'
  <2>1. buffer' \in Seq(Line) /\ frame' \in Seq(Line)
    BY <1>1, <1>2, <1>3
  <2>2. pc' \in {pc, "flushing"}
    BY <1>1
  <2> QED BY <2>1, <2>2 DEF Inv, TypeOK, Write, source, browser
<1>6. OneWriter'
  <2>1. n = Len(frame) => frame' = << >>
    BY <1>1, <1>2
  <2> QED BY <1>1, <2>1 DEF OneWriter, Write, source
<1>7. Pending' = Pending
  <2> DEFINE a == SubSeq(frame, 1, n)
             b == SubSeq(frame, n + 1, Len(frame))
  <2>1. /\ a \in Seq(Line) /\ b \in Seq(Line) /\ a \o b = frame
        /\ buffer' = buffer \o a /\ frame' = b
    BY <1>1, <1>3, <1>4
  <2> HIDE DEF a, b
  <2>2. wire \o (buffer \o a) = (wire \o buffer) \o a
    BY <1>2, <2>1, Associative
  <2>3. ((wire \o buffer) \o a) \o b = (wire \o buffer) \o (a \o b)
    <3>1. wire \o buffer \in Seq(Line)
      BY <1>2
    <3> QED BY <2>1, <3>1, Associative
  <2> QED BY <2>1, <2>2, <2>3 DEF Pending, Write
<1>8. EventsIntact' /\ PendingExpected'
  BY <1>7, PassOn DEF Write, source, browser
<1> QED BY <1>5, <1>6, <1>8 DEF Inv

\* Only lines that would not reach the browser are dropped.
LEMMA WriteFailStep ==
  ASSUME Inv, WriteFail
  PROVE  Inv'
<1>1. TypeOK'
  BY DEF Inv, TypeOK, WriteFail, source, browser
<1>2. OneWriter'
  BY DEF OneWriter, WriteFail
<1>3. Pending' = Pending
  BY DEF Pending, WriteFail
<1>4. EventsIntact' /\ PendingExpected'
  BY <1>3, PassOn DEF WriteFail, source, browser
<1> QED BY <1>1, <1>2, <1>4 DEF Inv

\* Flush passes on what is in the buffer of the response.
LEMMA FlushStep ==
  ASSUME Inv, Flush
  PROVE  Inv'
<1>1. frame = << >> /\ frame' = << >> /\ buffer \in Seq(Line) /\ wire \in Seq(Line)
  BY DEF Inv, TypeOK, OneWriter, Flush
<1>2. wire' \in Seq(Line) /\ buffer' \in Seq(Line) /\ buffer' = << >>
  BY <1>1 DEF Flush
<1>3. TypeOK'
  BY <1>2 DEF Inv, TypeOK, Flush, source, browser
<1>4. OneWriter'
  BY <1>1 DEF OneWriter, Flush
<1>5. Pending' = Pending
  <2>1. ((wire \o buffer) \o << >>) \o << >> = wire \o buffer /\ (wire \o buffer) \o << >> = wire \o buffer
    BY <1>1
  <2> QED BY <1>1, <2>1 DEF Pending, Flush
<1>6. EventsIntact' /\ PendingExpected'
  BY <1>5, PassOn DEF Flush, source, browser
<1> QED BY <1>3, <1>4, <1>6 DEF Inv

\* Spill passes on the first line of the buffer.
LEMMA SpillStep ==
  ASSUME Inv, Spill
  PROVE  Inv'
<1>1. buffer \in Seq(Line) /\ wire \in Seq(Line) /\ frame \in Seq(Line) /\ buffer # << >>
  BY DEF Inv, TypeOK, Spill
<1>2. Head(buffer) \in Line /\ wire' \in Seq(Line) /\ buffer' \in Seq(Line)
  BY <1>1 DEF Spill
<1>3. TypeOK'
  BY <1>2 DEF Inv, TypeOK, Spill, source, browser
<1>4. OneWriter'
  BY DEF Inv, OneWriter, Spill, source
<1>5. Pending' = Pending
  <2>1. wire' = wire \o <<Head(buffer)>>
    BY <1>1, <1>2, AppendIsConcat DEF Spill
  <2>2. wire' \o buffer' = wire \o (<<Head(buffer)>> \o Tail(buffer))
    BY <1>1, <1>2, <2>1, ConcatAssociative DEF Spill
  <2>3. <<Head(buffer)>> \o Tail(buffer) = buffer
    <3> DEFINE s == <<Head(buffer)>> \o Tail(buffer)
    <3>1. s \in Seq(Line) /\ Len(s) = Len(buffer) /\ \A i \in 1..Len(s) : s[i] = buffer[i]
      BY <1>1, <1>2
    <3> HIDE DEF s
    <3>2. s = buffer
      BY <1>1, <3>1, SeqEqual
    <3> QED BY <3>2 DEF s
  <2> QED BY <2>2, <2>3 DEF Pending, Spill
<1>6. EventsIntact' /\ PendingExpected'
  BY <1>5, PassOn DEF Spill, source, browser
<1> QED BY <1>3, <1>4, <1>6 DEF Inv

\* The end of the handler and the calls of the store touch no line.
LEMMA QuietStep ==
  ASSUME Inv, Return \/ StoreClose \/ \E p \in Payload : Offer(p)
  PROVE  Inv'
<1>1. TypeOK'
  <2>1. local' \in Seq(Payload)
    <3>1. local \in Seq(Payload) /\ \A p \in Payload : Append(local, p) \in Seq(Payload)
      BY DEF Inv, TypeOK
    <3> QED BY <3>1, Zenon DEF Return, StoreClose, Offer, source
  <2> QED BY <2>1 DEF Inv, TypeOK, Return, StoreClose, Offer, source, stream, browser
<1>2. OneWriter'
  <2>1. frame \in Seq(Line) /\ (frame # << >> => pc \in {"ready", "writing"})
    BY DEF Inv, OneWriter, TypeOK
  <2> QED BY <2>1 DEF Inv, OneWriter, Return, StoreClose, Offer, source, stream
<1>3. Pending' = Pending
  BY DEF Pending, Return, StoreClose, Offer, stream
<1>4. EventsIntact' /\ PendingExpected'
  BY <1>3, PassOn DEF Return, StoreClose, Offer, source, stream, browser
<1> QED BY <1>1, <1>2, <1>4 DEF Inv

\* A lost connection cuts lines off at the end.
LEMMA BreakStep ==
  ASSUME Inv, Break
  PROVE  Inv'
<1>1. PICK c \in 0..Len(wire) : wire' = SubSeq(wire, 1, c)
  BY DEF Break
<1>2. wire \in Seq(Line) /\ buffer \in Seq(Line) /\ frame \in Seq(Line) /\ wire' \in Seq(Line)
  <2>1. wire \in Seq(Line) /\ buffer \in Seq(Line) /\ frame \in Seq(Line)
    BY DEF Inv, TypeOK
  <2> QED BY <1>1, <2>1
<1>3. TypeOK'
  BY <1>2 DEF Inv, TypeOK, Break, source, browser
<1>4. OneWriter'
  BY DEF Inv, OneWriter, Break, source
<1>5. EventsIntact'
  BY DEF Inv, EventsIntact, Break, source, browser
<1>6. PICK y \in Event, k \in Nat : Reads(Pending, expected, parser, Len(dispatched), y, k)
  BY Zenon DEF Inv, PendingExpected
<1>7. /\ Pending \in Seq(Line) /\ c \in 0..Len(Pending) /\ SubSeq(Pending, 1, c) = wire'
  <2> DEFINE r == buffer \o frame
  <2>1. /\ r \in Seq(Line) /\ Pending = wire \o r
    BY <1>2, ConcatAssociative DEF Pending, Break
  <2> HIDE DEF r
  <2>2. wire \o r \in Seq(Line) /\ Len(wire \o r) = Len(wire) + Len(r)
    BY <1>2, <2>1
  <2>3. SubSeq(wire \o r, 1, c) = SubSeq(wire, 1, c)
    BY <1>2, <2>1, SubSeqOfConcat1
  <2> QED BY <1>1, <1>2, <2>1, <2>2, <2>3
<1>8. PICK z \in Event, l \in Nat : Reads(wire', expected, parser, Len(dispatched), z, l)
  BY <1>6, <1>7, ReadPrefix
<1>9. Pending' = wire' /\ expected' = expected /\ parser' = parser /\ dispatched' = dispatched /\ broken'
  BY DEF Pending, Break, source, browser
<1>10. PendingExpected'
  BY <1>8, <1>9, Zenon DEF PendingExpected
<1> QED BY <1>3, <1>4, <1>5, <1>10 DEF Inv

\* The browser reads the first line that is on its way.
LEMMA ParseStep ==
  ASSUME Inv, Parse
  PROVE  Inv'
<1> DEFINE h == Head(wire)
           l == IF Completes(parser, h) THEN Len(dispatched) + 1 ELSE Len(dispatched)
<1>1. /\ wire \in Seq(Line) /\ buffer \in Seq(Line) /\ frame \in Seq(Line) /\ wire # << >>
      /\ h \in Line /\ wire' = Tail(wire) /\ wire' \in Seq(Line)
      /\ parser \in Event /\ dispatched \in Seq(Event)
  BY DEF Inv, TypeOK, Parse
<1>2. parser' \in Event /\ parser' = After(parser, h)
  BY <1>1, AfterType DEF Parse
<1>3. dispatched' \in Seq(Event) /\ Len(dispatched') = l /\ Len(dispatched) \in Nat
  BY <1>1 DEF Parse
<1>4. TypeOK'
  BY <1>1, <1>2, <1>3 DEF Inv, TypeOK, Parse, source
<1>5. OneWriter'
  BY DEF Inv, OneWriter, Parse, source
<1>6. PICK y \in Event, k \in Nat :
        /\ Reads(Pending, expected, parser, Len(dispatched), y, k)
        /\ ~broken => y = NoEvent /\ k = Len(expected)
  BY Zenon DEF Inv, PendingExpected
<1>7. /\ Pending \in Seq(Line) /\ Pending # << >> /\ Head(Pending) = h /\ Tail(Pending) = Pending'
  <2>1. CASE broken
    BY <1>1, <2>1 DEF Pending, Parse
  <2>2. CASE ~broken
    <3> DEFINE r == buffer \o frame
    <3>1. r \in Seq(Line) /\ Pending = wire \o r /\ Pending' = wire' \o r
      <4>1. (wire \o buffer) \o frame = wire \o r /\ (wire' \o buffer) \o frame = wire' \o r
        <5>1. (wire \o buffer) \o frame = wire \o r
          BY <1>1, Associative, Zenon
        <5>2. (wire' \o buffer) \o frame = wire' \o r
          BY <1>1, Associative, Zenon
        <5> QED BY <5>1, <5>2
      <4>2. r \in Seq(Line)
        BY <1>1
      <4> HIDE DEF r
      <4> QED BY <2>2, <4>1, <4>2 DEF Pending, Parse
    <3> HIDE DEF r
    <3>2. /\ wire \o r \in Seq(Line) /\ wire \o r # << >> /\ Head(wire \o r) = Head(wire)
          /\ Tail(wire \o r) = Tail(wire) \o r
      <4>1. /\ wire \o r \in Seq(Line) /\ Len(wire \o r) = Len(wire) + Len(r) /\ Len(wire) > 0
            /\ Len(r) \in Nat /\ (wire \o r)[1] = wire[1]
        BY <1>1, <3>1
      <4>2. Tail(wire \o r) = Tail(wire) \o r
        <5> DEFINE s == Tail(wire \o r)
                   t == Tail(wire) \o r
        <5>1. /\ s \in Seq(Line) /\ t \in Seq(Line) /\ Len(s) = Len(t)
              /\ \A i \in 1..Len(s) : s[i] = t[i]
          BY <1>1, <3>1, <4>1
        <5> HIDE DEF s, t
        <5>2. s = t
          BY <5>1, SeqEqual
        <5> QED BY <5>2 DEF s, t
      <4> QED BY <1>1, <4>1, <4>2
    <3> QED BY <1>1, <3>1, <3>2
  <2> QED BY <2>1, <2>2
<1> HIDE DEF h
<1>8. /\ Reads(Pending', expected, parser', Len(dispatched'), y, k)
      /\ Completes(parser, h) => l <= Len(expected) /\ parser = expected[l]
  <2>1. l = IF Completes(parser, Head(Pending)) THEN Len(dispatched) + 1 ELSE Len(dispatched)
    BY <1>7
  <2> HIDE DEF l
  <2>2. /\ Reads(Tail(Pending), expected, After(parser, Head(Pending)), l, y, k)
        /\ Completes(parser, Head(Pending)) => l <= Len(expected) /\ parser = expected[l]
    <3>1. /\ Pending \in Seq(Line) /\ Pending # << >> /\ parser \in Event
          /\ Len(dispatched) \in Nat /\ Reads(Pending, expected, parser, Len(dispatched), y, k)
      BY <1>1, <1>3, <1>6, <1>7
    <3> QED BY <2>1, <3>1, ReadFirst, SMTT(30)
  <2> QED BY <1>2, <1>3, <1>7, <2>2
<1>9. expected' = expected /\ broken' = broken
  BY DEF Parse, source
<1>10. PendingExpected'
  BY <1>6, <1>8, <1>9, Zenon DEF PendingExpected
<1>11. EventsIntact'
  <2>1. expected \in Seq(Event) /\ Len(expected) \in Nat
    BY DEF Inv, TypeOK
  <2>2. Len(dispatched) <= Len(expected) /\ \A i \in 1..Len(dispatched) : dispatched[i] = expected[i]
    BY <1>1, <2>1, PrefixIs DEF Inv, EventsIntact
  <2>3. Len(dispatched') <= Len(expected) /\ \A i \in 1..Len(dispatched') : dispatched'[i] = expected[i]
    <3>1. CASE Completes(parser, h)
      <4>1. dispatched' = Append(dispatched, parser)
        BY <3>1 DEF Parse, h
      <4>2. /\ Len(dispatched') = Len(dispatched) + 1 /\ dispatched'[Len(dispatched) + 1] = parser
            /\ \A i \in 1..Len(dispatched) : dispatched'[i] = dispatched[i]
        BY <1>1, <4>1
      <4>3. Len(dispatched) + 1 <= Len(expected) /\ parser = expected[Len(dispatched) + 1]
        BY <1>8, <3>1
      <4> QED BY <1>3, <2>2, <4>2, <4>3
    <3>2. CASE ~Completes(parser, h)
      <4>1. dispatched' = dispatched
        BY <3>2 DEF Parse, h
      <4> QED BY <2>2, <4>1
    <3> QED BY <3>1, <3>2
  <2>4. IsPrefix(dispatched', expected)
    BY <1>3, <2>1, <2>3, PrefixIs
  <2> QED BY <1>9, <2>4 DEF EventsIntact
<1> QED BY <1>4, <1>5, <1>10, <1>11 DEF Inv

-----------------------------------------------------------------------------
(* The invariant and what follows from it                                  *)

\* Inv survives every step.
LEMMA NextStep ==
  ASSUME Inv, [Next]_vars
  PROVE  Inv'
<1>1. CASE Handler
  BY <1>1, HeadersStep, TakeStep, WriteStep, WriteFailStep, FlushStep, QuietStep DEF Handler
<1>2. CASE KeepAlive \/ Spill \/ Break \/ Parse
  BY <1>2, KeepAliveStep, SpillStep, BreakStep, ParseStep
<1>3. CASE StoreClose \/ \E p \in Payload : Offer(p)
  BY <1>3, QuietStep
<1>4. CASE UNCHANGED vars
  <2>1. TypeOK' /\ OneWriter'
    BY <1>4 DEF Inv, TypeOK, OneWriter, vars, source, stream, browser
  <2>2. Pending' = Pending
    BY <1>4 DEF Pending, vars, stream
  <2>3. EventsIntact' /\ PendingExpected'
    BY <1>4, <2>2, PassOn DEF vars, source, stream, browser
  <2> QED BY <2>1, <2>3 DEF Inv
<1> QED BY <1>1, <1>2, <1>3, <1>4 DEF Next

\* Nothing is on its way at first.
LEMMA InitInv == Init => Inv
<1> SUFFICES ASSUME Init PROVE Inv
  OBVIOUS
<1>1. TypeOK
  <2>1. NoEvent \in Event /\ 0 \in 0..MaxKeepAlive
    BY EventStreamAssumption, EventTypes
  <2>2. << >> \in Seq(Payload) /\ << >> \in Seq(Line) /\ << >> \in Seq(Event)
    OBVIOUS
  <2> QED BY <2>1, <2>2, Zenon DEF Init, TypeOK
<1>2. OneWriter
  BY DEF Init, OneWriter
<1>3. EventsIntact
  <2>1. dispatched \in Seq(Event) /\ expected \in Seq(Event) /\ Len(dispatched) = 0
        /\ Len(expected) = 0
    BY <1>1 DEF Init, TypeOK
  <2>2. Len(dispatched) <= Len(expected) /\ \A i \in 1..Len(dispatched) : dispatched[i] = expected[i]
    BY <2>1
  <2> QED BY <2>1, <2>2, PrefixIs DEF EventsIntact
<1>4. PendingExpected
  <2>1. Pending = << >> /\ parser = NoEvent /\ Len(dispatched) = 0 /\ Len(expected) = 0
    BY DEF Init, Pending
  <2>2. Reads(Pending, expected, parser, Len(dispatched), NoEvent, 0)
    BY <2>1, EventTypes, ReadNothing
  <2> QED BY <2>1, <2>2, EventTypes, Zenon DEF PendingExpected
<1> QED BY <1>1, <1>2, <1>3, <1>4 DEF Inv

\* Inv holds in every reachable state: the lines on their way are those of the
\* events that are still expected.
THEOREM Invariance == Spec => []Inv
<1>1. Inv /\ [Next]_vars => Inv'
  BY NextStep
<1> QED BY <1>1, InitInv, PTL DEF Spec

\* The browser dispatches "ready" and the events of the channel, each once, whole,
\* in order and under its own type, whatever heartbeats lie between them and
\* wherever the connection breaks.
THEOREM StreamIntact == Spec => []EventsIntact
<1>1. Inv => EventsIntact
  BY DEF Inv
<1> QED BY <1>1, Invariance, PTL
=============================================================================
