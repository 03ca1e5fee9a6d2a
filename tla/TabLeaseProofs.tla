--------------------------- MODULE TabLeaseProofs ---------------------------
(***************************************************************************)
(* Proofs about TabLease, for any tabs, any threads, any length of a       *)
(* browser_do and of a batch, and any number of documents.                 *)
(***************************************************************************)
EXTENDS TabLease, SequenceTheorems, TLAPS

\* Stacks that a thread with a call can have.
Stack(s) == s \in Seq(Frame) /\ s # <<>> /\ StackInv(s)

In1(p, P) == IF p \in P THEN 1 ELSE 0

Waiting == {"run", "rank", "busy", "end", "unmark"}

LEMMA Points ==
    ASSUME NEW P \in {Holding, Marked}
    PROVE  /\ Waiting \cup {"enter", "acted"} \subseteq P
           /\ {"target", "lock", "created", "return"} \cap P = {}
           /\ P \subseteq Pcs /\ Waiting \subseteq Pcs
BY DEF Holding, Marked, Waiting, Pcs

LEMMA Lengths ==
    ASSUME NEW s, Stack(s)
    PROVE  Len(s) \in Nat /\ Len(s) >= 1 /\ Head(s) = s[1] /\ s \in Seq(Frame) /\ s # <<>> /\ 1 \in 1..Len(s)
           /\ (Len(s) = 1 \/ Len(s) > 1)
<1>1. s \in Seq(Frame) /\ s # <<>>
  BY DEF Stack
<1>2. Len(s) \in Nat /\ Len(s) >= 1 /\ Head(s) = s[1]
  BY <1>1
<1>3. 1 \in 1..Len(s)
  BY <1>2
<1>4. \A n \in Nat: n >= 1 => n = 1 \/ n > 1
  OBVIOUS
<1> QED
  BY <1>1, <1>2, <1>3, <1>4

LEMMA Frames ==
    ASSUME NEW s, Stack(s), NEW i \in 1..Len(s)
    PROVE  s[i] \in Frame /\ s[i].f \in Tools /\ s[i].pc \in Pcs
<1>1. s[i] \in Frame
  BY Lengths
<1> QED
  BY <1>1 DEF Frame

LEMMA StackFacts ==
    ASSUME NEW s, Stack(s)
    PROVE  /\ Len(s) \in Nat /\ Len(s) >= 1 /\ s[1] \in Frame /\ s[1].f \in Tools /\ s[1].pc \in Pcs
           /\ \A i \in 2..Len(s): \/ s[i].pc \in Waiting
                                  \/ s[i].pc \in {"target", "return"} /\ i = Len(s)
           /\ \A i \in 2..Len(s): s[i - 1].f \in Callees(s[i].f)
           /\ s[1].pc \in {"created", "return"} => Len(s) = 1
<1>1. Len(s) \in Nat /\ Len(s) >= 1 /\ s[1] \in Frame /\ s[1].f \in Tools /\ s[1].pc \in Pcs
  BY Lengths, Frames
<1>2. \A i \in 2..Len(s): /\ s[i].pc \in Waiting \/ (s[i].pc \in {"target", "return"} /\ i = Len(s))
                          /\ s[i - 1].f \in Callees(s[i].f)
  BY <1>1 DEF Stack, StackInv, Waiting
<1>3. s[1].pc \in {"created", "return"} => Len(s) = 1
  BY Lengths DEF Stack, StackInv
<1> QED
  BY <1>1, <1>2, <1>3

\* No more than four tools are nested.
LEMMA Depth ==
    ASSUME NEW s, Stack(s)
    PROVE  Len(s) <= 4
<1> SUFFICES ASSUME Len(s) >= 5 PROVE FALSE
  BY StackFacts
<1>1. /\ s[1].f \in Callees(s[2].f) /\ s[2].f \in Callees(s[3].f)
      /\ s[3].f \in Callees(s[4].f) /\ s[4].f \in Callees(s[5].f)
  <2>1. /\ s[2 - 1].f \in Callees(s[2].f) /\ s[3 - 1].f \in Callees(s[3].f)
        /\ s[4 - 1].f \in Callees(s[4].f) /\ s[5 - 1].f \in Callees(s[5].f)
    BY StackFacts
  <2> QED
    BY <2>1
<1>2. s[2].f \in {"do", "act", "find", "open"}
  BY <1>1 DEF Callees
<1>3. s[3].f \in {"do", "act"}
  BY <1>1, <1>2 DEF Callees
<1>4. s[4].f = "do"
  BY <1>1, <1>3 DEF Callees
<1> QED
  BY <1>1, <1>4 DEF Callees

\* Who is above whom, where browser_find is on the stack.
LEMMA Finders ==
    ASSUME NEW s, Stack(s), NEW i \in 1..Len(s), s[i].f = "find"
    PROVE  i = 1 \/ (i = 2 /\ s[1].f = "observe")
<1>1. \A j \in 2..Len(s): s[j - 1].f \in Callees(s[j].f)
  BY StackFacts
<1>2. CASE i = 2
  <2>1. s[2 - 1].f \in Callees(s[2].f)
    BY <1>1, <1>2, StackFacts
  <2> QED
    BY <1>2, <2>1 DEF Callees
<1>3. CASE i > 2
  <2>1. s[i - 1].f \in Callees(s[i].f) /\ s[(i - 1) - 1].f \in Callees(s[i - 1].f)
    BY <1>1, <1>3, StackFacts
  <2> QED
    BY <2>1 DEF Callees
<1> QED
  BY <1>2, <1>3, StackFacts

\* What Count counts: all tools, without the one on top and the one that is first, where they are not in P.
Bottom(s) == IF Len(s) > 1 /\ s[Len(s)].pc \in {"target", "return"} THEN 1 ELSE 0

LEMMA NothingCounts == \A P: Count(<<>>, P) = 0 /\ StackInv(<<>>)
BY DEF Count, StackInv

LEMMA CountOf ==
    ASSUME NEW s, Stack(s), NEW P
    PROVE  /\ Count(s, P) = Len(s) - 1 + In1(s[1].pc, P) - Bottom(s)
           /\ In1(s[1].pc, P) \in {0, 1} /\ Bottom(s) \in {0, 1}
<1>1. Len(s) \in Nat /\ s # <<>>
  BY Lengths
<1>2. CASE s[1].pc \in P /\ Len(s) > 1 /\ s[Len(s)].pc \in {"target", "return"}
  BY <1>1, <1>2 DEF Count, In1, Bottom
<1>3. CASE s[1].pc \notin P /\ Len(s) > 1 /\ s[Len(s)].pc \in {"target", "return"}
  BY <1>1, <1>3 DEF Count, In1, Bottom
<1>4. CASE s[1].pc \in P /\ ~(Len(s) > 1 /\ s[Len(s)].pc \in {"target", "return"})
  BY <1>1, <1>4 DEF Count, In1, Bottom
<1>5. CASE s[1].pc \notin P /\ ~(Len(s) > 1 /\ s[Len(s)].pc \in {"target", "return"})
  BY <1>1, <1>5 DEF Count, In1, Bottom
<1> QED
  BY <1>2, <1>3, <1>4, <1>5

\* The tool on top goes on at p.
GoesOn(s, p) == [s EXCEPT ![1] = [s[1] EXCEPT !.pc = p]]

LEMMA TopGoesOn ==
    ASSUME NEW s, Stack(s), NEW p \in Pcs, p \in {"created", "return"} => Len(s) = 1
    PROVE  /\ Stack(GoesOn(s, p)) /\ Len(GoesOn(s, p)) = Len(s)
           /\ GoesOn(s, p)[1].f = s[1].f /\ GoesOn(s, p)[1].pc = p
           /\ \A i \in 2..Len(s): GoesOn(s, p)[i] = s[i]
           /\ \A P \in {Holding, Marked}: Count(GoesOn(s, p), P) = Count(s, P) - In1(s[1].pc, P) + In1(p, P)
<1> DEFINE q == GoesOn(s, p)
           r == [s[1] EXCEPT !.pc = p]
<1>1. r \in Frame /\ r.pc = p /\ r.f = s[1].f
  BY StackFacts DEF Frame
<1> HIDE DEF r
<1>2. q \in Seq(Frame) /\ Len(q) = Len(s) /\ q[1] = r /\ \A i \in 2..Len(s): q[i] = s[i]
  BY <1>1, StackFacts DEF Stack, r, GoesOn
<1> HIDE DEF q
<1>3. q # <<>>
  BY <1>2, StackFacts
<1>4. StackInv(q)
  <2> SUFFICES ASSUME NEW i \in 1..Len(q)
               PROVE  /\ q[i].pc \in {"created", "return"} => i = Len(q)
                      /\ i > 1 => /\ q[i - 1].f \in Callees(q[i].f)
                                  /\ \/ q[i].pc \in {"run", "rank", "busy", "end", "unmark"}
                                     \/ q[i].pc \in {"target", "return"} /\ i = Len(q)
    BY DEF StackInv
  <2>1. CASE i = 1
    BY <1>1, <1>2, <2>1, StackFacts
  <2>2. CASE i > 1
    <3>1. i \in 2..Len(s) /\ i \in 1..Len(s) /\ q[i] = s[i] /\ q[i - 1].f = s[i - 1].f
      BY <1>1, <1>2, <2>2, StackFacts
    <3> QED
      BY <1>2, <2>2, <3>1 DEF Stack, StackInv
  <2> QED
    BY <2>1, <2>2, <1>2, StackFacts
<1>5. ASSUME NEW P \in {Holding, Marked}
      PROVE  Count(q, P) = Count(s, P) - In1(s[1].pc, P) + In1(p, P)
  <2>1. Len(s) > 1 => q[Len(q)] = s[Len(s)]
    BY <1>2, StackFacts
  <2>2. Stack(q) /\ Bottom(q) = Bottom(s)
    BY <1>2, <1>3, <1>4, <2>1 DEF Bottom, Stack
  <2>3. /\ Count(q, P) = Len(q) - 1 + In1(q[1].pc, P) - Bottom(q) /\ In1(q[1].pc, P) \in {0, 1}
        /\ Count(s, P) = Len(s) - 1 + In1(s[1].pc, P) - Bottom(s) /\ In1(s[1].pc, P) \in {0, 1}
        /\ Bottom(s) \in {0, 1}
    BY <2>2, CountOf
  <2> QED
    BY <1>1, <1>2, <2>2, <2>3, StackFacts
<1>6. Stack(q)
  BY <1>2, <1>3, <1>4 DEF Stack
<1> QED
  BY <1>1, <1>2, <1>5, <1>6 DEF q

\* Where it goes on, p, when it is at a point that has the lease or at one that has not yet.
Waits(s, p) ==
    \/ p \in Waiting /\ s[1].pc \in {"run", "busy", "acted", "end"}
    \/ p \in {"target", "return"} /\ s[1].pc = "created"

\* q is s with f called and the tool below it waiting at p.
Pushed(q, s, f, p) ==
    /\ q \in Seq(Frame) /\ Len(q) = Len(s) + 1
    /\ q[1].f = f /\ q[1].pc = "target" /\ q[2].f = s[1].f /\ q[2].pc = p
    /\ \A i \in 3..(Len(s) + 1): q[i] = s[i - 1]

LEMMA CallCounts ==
    ASSUME NEW s, Stack(s), NEW f \in Callees(s[1].f), NEW p, Waits(s, p), NEW q, Pushed(q, s, f, p)
    PROVE  Stack(q) /\ \A P \in {Holding, Marked}: Count(q, P) = Count(s, P)
<1> DEFINE a == q[1]
           b == q[2]
<1>1. a.f = f /\ a.pc = "target"
  BY DEF Pushed
<1>2. b.f = s[1].f /\ b.pc = p
  BY DEF Pushed
<1>6. /\ q \in Seq(Frame) /\ Len(q) = Len(s) + 1 /\ q[1] = a /\ q[2] = b
      /\ \A i \in 3..(Len(s) + 1): q[i] = s[i - 1]
  BY DEF Pushed
<1> HIDE DEF a, b
<1>7. q # <<>>
  BY <1>6, StackFacts
<1>8. StackInv(q)
  <2> SUFFICES ASSUME NEW i \in 1..Len(q)
               PROVE  /\ q[i].pc \in {"created", "return"} => i = Len(q)
                      /\ i > 1 => /\ q[i - 1].f \in Callees(q[i].f)
                                  /\ \/ q[i].pc \in {"run", "rank", "busy", "end", "unmark"}
                                     \/ q[i].pc \in {"target", "return"} /\ i = Len(q)
    BY DEF StackInv
  <2>1. CASE i = 1
    BY <1>1, <1>6, <2>1
  <2>2. CASE i = 2
    BY <1>1, <1>2, <1>6, <2>2, StackFacts DEF Waiting, Waits
  <2>3. CASE i > 2
    <3>1. q[i] = s[i - 1] /\ i - 1 \in 1..Len(s) /\ i - 1 > 1
      BY <1>6, <2>3, StackFacts
    <3>3. q[i - 1].f = s[(i - 1) - 1].f
      <4>1. CASE i = 3
        <5>1. q[2].f = s[1].f
          BY <1>2, <1>6
        <5> QED
          BY <4>1, <5>1
      <4>2. CASE i > 3
        BY <1>6, <2>3, <4>2, StackFacts
      <4> QED
        BY <2>3, <4>1, <4>2, <1>6, StackFacts
    <3>2. i = Len(q) <=> i - 1 = Len(s)
      BY <1>6, StackFacts
    <3> QED
      BY <3>1, <3>2, <3>3 DEF Stack, StackInv
  <2> QED
    BY <2>1, <2>2, <2>3
<1>9. ASSUME NEW P \in {Holding, Marked} PROVE Count(q, P) = Count(s, P)
  <2>1. s[1].pc \in P <=> s[1].pc # "created"
    BY Points, StackFacts DEF Waiting, Waits
  <2>2. a.pc \notin P
    BY <1>1, Points
  <2>3. Stack(q)
    BY <1>6, <1>7, <1>8 DEF Stack
  <2>4. /\ Count(q, P) = Len(q) - 1 + In1(q[1].pc, P) - Bottom(q)
        /\ Count(s, P) = Len(s) - 1 + In1(s[1].pc, P) - Bottom(s)
    BY <2>3, CountOf
  <2>5. In1(q[1].pc, P) = 0 /\ In1(s[1].pc, P) = IF s[1].pc = "created" THEN 0 ELSE 1
    BY <1>6, <2>1, <2>2 DEF In1
  <2>6. CASE Len(s) = 1
    <3>1. Bottom(s) = 0 /\ Bottom(q) = IF p \in {"target", "return"} THEN 1 ELSE 0
      BY <1>2, <1>6, <2>6 DEF Bottom
    <3>2. Len(q) = 2 /\ (p \in {"target", "return"} <=> s[1].pc = "created")
      BY <1>6, <2>6 DEF Waiting, Waits
    <3> QED
      BY <2>4, <2>5, <2>6, <3>1, <3>2
  <2>7. CASE Len(s) > 1
    <3>1. Len(q) \in 3..(Len(s) + 1) /\ Len(q) = Len(s) + 1 /\ s[1].pc # "created"
      BY <1>6, <2>7, StackFacts
    <3>2. Bottom(q) = Bottom(s)
      <4>1. q[Len(q)] = s[(Len(s) + 1) - 1] /\ (Len(s) + 1) - 1 = Len(s) /\ Len(q) > 1
        BY <1>6, <3>1, <2>7, Lengths
      <4> QED
        BY <2>7, <4>1 DEF Bottom
    <3>3. Bottom(s) \in {0, 1}
      BY DEF Bottom
    <3>4. Len(s) \in Nat
      BY Lengths
    <3> QED
      BY <2>4, <2>5, <3>1, <3>2, <3>3, <3>4
  <2> QED
    BY <2>6, <2>7, Lengths, Zenon
<1> QED
  BY <1>6, <1>7, <1>8, <1>9 DEF Stack

LEMMA Concatenated ==
    ASSUME NEW a \in Frame, NEW b \in Frame, NEW v \in Seq(Frame)
    PROVE  /\ <<a, b>> \o v \in Seq(Frame) /\ Len(<<a, b>> \o v) = 2 + Len(v)
           /\ (<<a, b>> \o v)[1] = a /\ (<<a, b>> \o v)[2] = b
           /\ \A i \in 3..(2 + Len(v)): (<<a, b>> \o v)[i] = v[i - 2]
<1>1. <<a, b>> \in Seq(Frame) /\ Len(<<a, b>>) = 2 /\ <<a, b>>[1] = a /\ <<a, b>>[2] = b /\ Len(v) \in Nat
  OBVIOUS
<1>2. /\ <<a, b>> \o v \in Seq(Frame) /\ Len(<<a, b>> \o v) = 2 + Len(v)
      /\ \A i \in 1..2 + Len(v): (<<a, b>> \o v)[i] = IF i <= 2 THEN <<a, b>>[i] ELSE v[i - 2]
  BY <1>1, ConcatProperties
<1>3. (<<a, b>> \o v)[1] = a /\ (<<a, b>> \o v)[2] = b
  BY <1>1, <1>2
<1> QED
  BY <1>1, <1>2, <1>3

\* The tool on top calls another one.
LEMMA TopCalls ==
    ASSUME NEW s, Stack(s), NEW f \in Callees(s[1].f), NEW p, Waits(s, p)
    PROVE  \E q: /\ q = <<[f |-> f, pc |-> "target"], [s[1] EXCEPT !.pc = p]>> \o Tail(s)
                 /\ Stack(q) /\ Pushed(q, s, f, p)
                 /\ \A P \in {Holding, Marked}: Count(q, P) = Count(s, P)
<1> DEFINE a == [f |-> f, pc |-> "target"]
           b == [s[1] EXCEPT !.pc = p]
           q == <<a, b>> \o Tail(s)
<1>1. a \in Frame /\ a.f = f /\ a.pc = "target"
  BY StackFacts DEF Frame, Pcs, Callees, Tools
<1>2. b \in Frame /\ b.f = s[1].f /\ b.pc = p
  BY StackFacts DEF Frame, Pcs, Waiting, Waits
<1>3. q = <<[f |-> f, pc |-> "target"], [s[1] EXCEPT !.pc = p]>> \o Tail(s)
  OBVIOUS
<1> HIDE DEF a, b
<1>4. Tail(s) \in Seq(Frame) /\ Len(Tail(s)) = Len(s) - 1 /\ \A i \in 1..(Len(s) - 1): Tail(s)[i] = s[i + 1]
  BY Lengths, HeadTailProperties
<1>5. /\ q \in Seq(Frame) /\ Len(q) = 2 + Len(Tail(s)) /\ q[1] = a /\ q[2] = b
      /\ \A i \in 3..(2 + Len(Tail(s))): q[i] = Tail(s)[i - 2]
  BY <1>1, <1>2, <1>4, Concatenated
<1> HIDE DEF q
<1>6. /\ Len(q) = Len(s) + 1
      /\ \A i \in 3..(Len(s) + 1): q[i] = s[i - 1]
  <2>1. Len(q) = Len(s) + 1 /\ Len(s) \in Nat
    BY <1>4, <1>5, Lengths
  <2>2. ASSUME NEW i \in 3..(Len(s) + 1) PROVE q[i] = s[i - 1]
    <3>1. i - 2 \in 1..(Len(s) - 1) /\ i \in 3..(2 + Len(Tail(s))) /\ (i - 2) + 1 = i - 1
      BY <2>1, <1>4
    <3> QED
      BY <3>1, <1>4, <1>5
  <2> QED
    BY <2>1, <2>2
<1>7. Pushed(q, s, f, p)
  BY <1>1, <1>2, <1>5, <1>6 DEF Pushed
<1>8. Stack(q) /\ \A P \in {Holding, Marked}: Count(q, P) = Count(s, P)
  BY <1>7, CallCounts
<1> QED
  BY <1>3, <1>7, <1>8

LEMMA TailCounts ==
    ASSUME NEW s, Stack(s),
           NEW q, q \in Seq(Frame), Len(q) = Len(s) - 1, \A i \in 1..Len(q): q[i] = s[i + 1]
    PROVE  /\ StackInv(q)
           /\ \A P \in {Holding, Marked}: Count(q, P) = Count(s, P) - In1(s[1].pc, P)
<1>1. q \in Seq(Frame) /\ Len(q) = Len(s) - 1 /\ \A i \in 1..Len(q): q[i] = s[i + 1]
  OBVIOUS
<1>2. q = <<>> <=> Len(s) = 1
  BY <1>1, StackFacts
<1>3. StackInv(q)
  <2> SUFFICES ASSUME NEW i \in 1..Len(q)
               PROVE  /\ q[i].pc \in {"created", "return"} => i = Len(q)
                      /\ i > 1 => /\ q[i - 1].f \in Callees(q[i].f)
                                  /\ \/ q[i].pc \in {"run", "rank", "busy", "end", "unmark"}
                                     \/ q[i].pc \in {"target", "return"} /\ i = Len(q)
    BY DEF StackInv
  <2>1. q[i] = s[i + 1] /\ i + 1 \in 1..Len(s) /\ i + 1 > 1 /\ (i = Len(q) <=> i + 1 = Len(s))
    BY <1>1, StackFacts
  <2>2. i > 1 => q[i - 1] = s[(i + 1) - 1]
    BY <1>1, StackFacts
  <2> QED
    BY <2>1, <2>2 DEF Stack, StackInv
<1>4. ASSUME NEW P \in {Holding, Marked}
      PROVE  Count(q, P) = Count(s, P) - In1(s[1].pc, P)
  <2>1. Count(s, P) = Len(s) - 1 + In1(s[1].pc, P) - Bottom(s)
    BY CountOf
  <2>2. In1(s[1].pc, P) \in {0, 1} /\ Bottom(s) \in {0, 1}
    BY CountOf
  <2>3. CASE Len(s) = 1
    <3>1. Count(q, P) = 0
      <4>1. q = <<>>
        BY <1>2, <2>3
      <4> QED
        BY <4>1, NothingCounts
    <3>4. Bottom(s) = 0
      BY <2>3 DEF Bottom
    <3> QED
      BY <2>1, <2>2, <2>3, <3>1, <3>4
  <2>4. CASE Len(s) > 1
    <3>1. Stack(q) /\ q[1] = s[2] /\ q[Len(q)] = s[Len(s)] /\ 2 \in 2..Len(s)
      BY <1>1, <1>2, <1>3, <2>4, StackFacts DEF Stack
    <3>2. Count(q, P) = Len(q) - 1 + In1(q[1].pc, P) - Bottom(q)
      BY <3>1, CountOf
    <3>3. CASE Len(s) > 2
      <4>1. s[2].pc \in P
        BY <3>1, <3>3, StackFacts, Points
      <4>2. In1(q[1].pc, P) = 1 /\ Bottom(q) = Bottom(s)
        BY <1>1, <2>4, <3>1, <3>3, <4>1, StackFacts DEF In1, Bottom
      <4>3. Len(q) = Len(s) - 1 /\ Len(s) \in Nat
        BY <1>1, Lengths
      <4> QED
        BY <2>1, <2>2, <3>2, <4>2, <4>3
    <3>4. CASE Len(s) = 2
      <4>1. s[2].pc \in P <=> s[2].pc \notin {"target", "return"}
        BY <3>1, <3>4, StackFacts, Points DEF Waiting
      <4>2. Bottom(q) = 0 /\ In1(q[1].pc, P) = 1 - Bottom(s)
        BY <1>1, <3>1, <3>4, <4>1 DEF In1, Bottom
      <4>3. Len(q) = 1 /\ Len(s) = 2
        BY <1>1, <3>4
      <4> QED
        BY <2>1, <2>2, <3>2, <4>2, <4>3
    <3> QED
      BY <2>4, <3>3, <3>4, StackFacts
  <2> QED
    BY <2>3, <2>4, StackFacts
<1> QED
  BY <1>3, <1>4

\* The tool on top is left.
LEMMA TopLeft ==
    ASSUME NEW s, Stack(s)
    PROVE  /\ Tail(s) \in Seq(Frame) /\ Len(Tail(s)) = Len(s) - 1 /\ StackInv(Tail(s))
           /\ \A i \in 1..Len(Tail(s)): Tail(s)[i] = s[i + 1]
           /\ \A P \in {Holding, Marked}: Count(Tail(s), P) = Count(s, P) - In1(s[1].pc, P)
<1>1. /\ Tail(s) \in Seq(Frame) /\ Len(Tail(s)) = Len(s) - 1
      /\ \A i \in 1..Len(Tail(s)): Tail(s)[i] = s[i + 1]
  BY Lengths, HeadTailProperties
<1> QED
  BY <1>1, TailCounts

-----------------------------------------------------------------------------
(* Locks and entries.                                                      *)

LEMMA CountRange ==
    ASSUME NEW s, Stack(s), NEW P
    PROVE  Count(s, P) \in 0..4
<1>1. /\ Count(s, P) = Len(s) - 1 + In1(s[1].pc, P) - Bottom(s)
      /\ In1(s[1].pc, P) \in {0, 1} /\ Bottom(s) \in {0, 1}
  BY CountOf
<1>2. Len(s) \in Nat /\ Len(s) >= 1 /\ Len(s) <= 4
  BY Lengths, Depth
<1>3. Bottom(s) = 1 => Len(s) > 1
  BY DEF Bottom
<1> QED
  BY <1>1, <1>2, <1>3

\* Who has an entry holds the lock.
LEMMA MarkedHolds ==
    ASSUME NEW s, Stack(s)
    PROVE  Count(s, Marked) <= Count(s, Holding)
<1>1. /\ Count(s, Marked) = Len(s) - 1 + In1(s[1].pc, Marked) - Bottom(s)
      /\ Count(s, Holding) = Len(s) - 1 + In1(s[1].pc, Holding) - Bottom(s)
      /\ Bottom(s) \in {0, 1}
  BY CountOf
<1>2. In1(s[1].pc, Marked) <= In1(s[1].pc, Holding)
  BY DEF In1, Marked
<1>3. In1(s[1].pc, Marked) \in {0, 1} /\ In1(s[1].pc, Holding) \in {0, 1} /\ Len(s) \in Nat
  BY Lengths DEF In1
<1> QED
  BY <1>1, <1>2, <1>3

\* A step that leaves a thread as deep in its tab as it was.
LEMMA CountedKept ==
    ASSUME NEW m, NEW th, NEW t \in Threads, NEW n, NEW P, Counted(m, th, P),
           th \in [Threads -> ThreadState],
           Count(n.stack, P) = Count(th[t].stack, P),
           n.tab = th[t].tab \/ ~(Count(n.stack, P) > 0)
    PROVE  Counted(m, [th EXCEPT ![t] = n], P)
<1> DEFINE h == [th EXCEPT ![t] = n]
<1>1. h[t] = n /\ \A u \in Threads \ {t}: h[u] = th[u]
  OBVIOUS
<1> HIDE DEF h
<1>2. Counted(m, h, P)
  <2> SUFFICES ASSUME NEW x \in Tabs
               PROVE  /\ m[x].by = NoThread => m[x] = Free
                      /\ \A u \in Threads:
                            IF h[u].tab = x /\ Count(h[u].stack, P) > 0
                            THEN m[x] = [by |-> u, n |-> Count(h[u].stack, P)]
                            ELSE m[x].by # u
    BY DEF Counted
  <2>1. ASSUME NEW u \in Threads
        PROVE  IF th[u].tab = x /\ Count(th[u].stack, P) > 0
               THEN m[x] = [by |-> u, n |-> Count(th[u].stack, P)]
               ELSE m[x].by # u
    BY DEF Counted
  <2>2. ASSUME NEW u \in Threads
        PROVE  IF h[u].tab = x /\ Count(h[u].stack, P) > 0
               THEN m[x] = [by |-> u, n |-> Count(h[u].stack, P)]
               ELSE m[x].by # u
    <3>1. h[u].tab = x /\ Count(h[u].stack, P) > 0 <=> th[u].tab = x /\ Count(th[u].stack, P) > 0
      BY <1>1
    <3>2. Count(h[u].stack, P) = Count(th[u].stack, P)
      BY <1>1
    <3> QED
      BY <2>1, <3>1, <3>2
  <2> QED
    BY <2>2 DEF Counted
<1> QED
  BY <1>2 DEF h

EntryFor(t, c) == IF c > 0 THEN [by |-> t, n |-> c] ELSE Free

\* A step that makes the entry of a thread in its tab say how deep it is now.
LEMMA CountedSet ==
    ASSUME NEW m, NEW th, NEW t \in Threads, NEW n, NEW P, Counted(m, th, P),
           th \in [Threads -> ThreadState],
           NEW x \in Tabs, th[t].tab = x, m[x].by \in {t, NoThread},
           n.tab = x \/ ~(Count(n.stack, P) > 0),
           NEW m2, m2[x] = EntryFor(t, Count(n.stack, P)), \A y \in Tabs \ {x}: m2[y] = m[y]
    PROVE  Counted(m2, [th EXCEPT ![t] = n], P)
<1> DEFINE h == [th EXCEPT ![t] = n]
           e == EntryFor(t, Count(n.stack, P))
<1>1. h[t] = n /\ \A u \in Threads \ {t}: h[u] = th[u]
  OBVIOUS
<1> HIDE DEF h
<1>2. Free.by = NoThread /\ t # NoThread
  BY NoThreadAssumption DEF Free
<1>3. /\ e.by = (IF Count(n.stack, P) > 0 THEN t ELSE NoThread)
      /\ e = (IF Count(n.stack, P) > 0 THEN [by |-> t, n |-> Count(n.stack, P)] ELSE Free)
      /\ m2[x] = e
  BY <1>2 DEF EntryFor
<1> HIDE DEF e
<1>4. ASSUME NEW u \in Threads \ {t} PROVE ~(th[u].tab = x /\ Count(th[u].stack, P) > 0)
  <2>1. CASE th[u].tab = x /\ Count(th[u].stack, P) > 0
    <3>1. m[x] = [by |-> u, n |-> Count(th[u].stack, P)]
      BY <2>1 DEF Counted
    <3>2. m[x].by = u
      BY <3>1
    <3> QED
      BY <3>2, NoThreadAssumption
  <2> QED
    BY <2>1
<1>5. ASSUME NEW y \in Tabs \ {x}
      PROVE  /\ m2[y].by = NoThread => m2[y] = Free
             /\ \A u \in Threads:
                   IF h[u].tab = y /\ Count(h[u].stack, P) > 0
                   THEN m2[y] = [by |-> u, n |-> Count(h[u].stack, P)]
                   ELSE m2[y].by # u
  <2>1. m2[y] = m[y]
    OBVIOUS
  <2>2. ASSUME NEW u \in Threads
        PROVE  IF th[u].tab = y /\ Count(th[u].stack, P) > 0
               THEN m[y] = [by |-> u, n |-> Count(th[u].stack, P)]
               ELSE m[y].by # u
    BY DEF Counted
  <2>3. ASSUME NEW u \in Threads
        PROVE  IF h[u].tab = y /\ Count(h[u].stack, P) > 0
               THEN m2[y] = [by |-> u, n |-> Count(h[u].stack, P)]
               ELSE m2[y].by # u
    <3>1. CASE u = t
      <4>1. ~(h[t].tab = y /\ Count(h[t].stack, P) > 0) /\ ~(th[t].tab = y)
        BY <1>1
      <4> QED
        BY <2>1, <2>2, <3>1, <4>1
    <3>2. CASE u # t
      BY <1>1, <2>1, <2>2, <3>2
    <3> QED
      BY <3>1, <3>2
  <2> QED
    BY <2>1, <2>3 DEF Counted
<1>6. /\ m2[x].by = NoThread => m2[x] = Free
      /\ \A u \in Threads:
            IF h[u].tab = x /\ Count(h[u].stack, P) > 0
            THEN m2[x] = [by |-> u, n |-> Count(h[u].stack, P)]
            ELSE m2[x].by # u
  BY <1>1, <1>2, <1>3, <1>4, NoThreadAssumption
<1>7. Counted(m2, h, P)
  BY <1>5, <1>6 DEF Counted
<1> QED
  BY <1>7 DEF h

-----------------------------------------------------------------------------
(* The steps of one thread.                                                *)

Entries == [Tabs -> [by: Threads \cup {NoThread}, n: 0..4]]

LEMMA Holds ==
    ASSUME LeaseInv
    PROVE  /\ tab \in [Tabs -> TabState] /\ lock \in Entries /\ lease \in Entries
           /\ thr \in [Threads -> ThreadState]
           /\ \A t \in Threads: thr[t] \in ThreadState /\ CallInv(t) /\ (Busy(t) => ElementInv(t))
           /\ \A x \in Tabs: tab[x].open => tab[x].doc > 0
           /\ Counted(lock, thr, Holding) /\ Counted(lease, thr, Marked)
BY DEF LeaseInv, TypeOK, Entries

LEMMA HasStack ==
    ASSUME LeaseInv, NEW t \in Threads, Busy(t)
    PROVE  /\ Stack(thr[t].stack) /\ Top(t) = thr[t].stack[1] /\ thr[t].tab \in Tabs /\ Page(t).doc > 0
           /\ Page(t) \in TabState /\ ElementInv(t) /\ CallInv(t)
<1>1. thr[t].stack \in Seq(Frame)
  BY Holds DEF ThreadState
<1>2. Stack(thr[t].stack)
  BY <1>1, Holds DEF Stack, CallInv, Busy
<1> QED
  BY <1>2, Lengths, Holds DEF CallInv, Busy, Top, Page

\* Documents are only added.
Grows ==
    /\ tab' \in [Tabs -> TabState]
    /\ \A x \in Tabs: tab[x].doc <= tab'[x].doc /\ (tab'[x].open => tab'[x].doc > 0)

LEMMA SameTabs ==
    ASSUME LeaseInv, UNCHANGED tab
    PROVE  Grows
<1>1. \A x \in Tabs: tab[x].doc \in Nat
  BY Holds, BoundsAssumption DEF TabState
<1> QED
  BY <1>1, Holds DEF Grows

\* What is said of a thread stays true while other threads and the tabs go on.
LEMMA OthersKeep ==
    ASSUME LeaseInv, NEW u \in Threads, thr'[u] = thr[u], Grows
    PROVE  CallInv(u)' /\ (Busy(u)' => ElementInv(u)')
<1>1. Busy(u)' <=> Busy(u)
  BY DEF Busy
<1>2. CASE ~Busy(u)
  BY <1>1, <1>2, Holds DEF CallInv, Busy, Top, At
<1>3. CASE Busy(u)
  <2>1. thr[u].tab \in Tabs /\ Page(u).doc > 0 /\ CallInv(u) /\ ElementInv(u)
    BY <1>3, HasStack
  <2>2. /\ tab[thr[u].tab].doc <= tab'[thr[u].tab].doc
        /\ tab[thr[u].tab].doc \in Nat /\ tab'[thr[u].tab].doc \in Nat
        /\ thr[u].given \in Nat /\ thr[u].els \subseteq Nat /\ thr[u].saw \in Nat
    BY <2>1, Holds, BoundsAssumption DEF Grows, TabState, ThreadState
  <2>3. CallInv(u)'
    BY <1>1, <2>1, <2>2 DEF CallInv, Page, Busy, Top, At
  <2>4. \A d \in thr[u].els \cup ({thr[u].saw} \ {0}): thr[u].given <= d /\ d <= tab[thr[u].tab].doc
    BY <2>1 DEF ElementInv, Page
  <2>5. /\ thr[u].given <= tab'[thr[u].tab].doc
        /\ \A d \in thr[u].els \cup ({thr[u].saw} \ {0}): thr[u].given <= d /\ d <= tab'[thr[u].tab].doc
    BY <2>1, <2>2, <2>4 DEF ElementInv, Page
  <2>6. ElementInv(u)'
    BY <2>1, <2>5 DEF ElementInv, Page, In, At, Within, Finding, Busy, Top
  <2> QED
    BY <2>3, <2>6
<1> QED
  BY <1>2, <1>3

LEMMA ThreadSteps ==
    ASSUME LeaseInv, NEW t \in Threads, NEW n \in ThreadState, thr' = [thr EXCEPT ![t] = n],
           Grows, lock' \in Entries, lease' \in Entries,
           Counted(lock', thr', Holding), Counted(lease', thr', Marked),
           CallInv(t)', Busy(t)' => ElementInv(t)'
    PROVE  LeaseInv'
<1>1. thr' \in [Threads -> ThreadState]
  BY Holds
<1>2. \A u \in Threads \ {t}: thr'[u] = thr[u]
  BY Holds
<1>3. \A u \in Threads: CallInv(u)' /\ (Busy(u)' => ElementInv(u)')
  BY <1>2, OthersKeep
<1>4. TypeOK'
  BY <1>1 DEF TypeOK, Entries, Grows
<1>5. NothingKept'
  <2> SUFFICES ASSUME NEW x \in Tabs, lock'[x].by # NoThread
               PROVE  thr'[lock'[x].by].stack # <<>> /\ thr'[lock'[x].by].tab = x
    BY DEF NothingKept, Busy
  <2>1. PICK u \in Threads: u = lock'[x].by
    BY DEF Entries
  <2>2. thr'[u].tab = x /\ Count(thr'[u].stack, Holding) > 0
    <3>1. IF thr'[u].tab = x /\ Count(thr'[u].stack, Holding) > 0
          THEN lock'[x] = [by |-> u, n |-> Count(thr'[u].stack, Holding)]
          ELSE lock'[x].by # u
      BY DEF Counted
    <3> QED
      BY <2>1, <3>1
  <2>3. thr'[u].stack # <<>>
    <3>1. CASE thr'[u].stack = <<>>
      BY <2>2, <3>1, NothingCounts
    <3> QED
      BY <3>1
  <2> QED
    BY <2>1, <2>2, <2>3
<1> QED
  BY <1>3, <1>4, <1>5 DEF LeaseInv, Grows

LEMMA QuietSteps ==
    ASSUME LeaseInv, NEW t \in Threads, NEW n \in ThreadState, thr' = [thr EXCEPT ![t] = n],
           Grows, UNCHANGED <<lock, lease>>,
           \A P \in {Holding, Marked}: Count(n.stack, P) = Count(thr[t].stack, P),
           n.tab = thr[t].tab \/ \A P \in {Holding, Marked}: Count(n.stack, P) = 0,
           CallInv(t)', Busy(t)' => ElementInv(t)'
    PROVE  LeaseInv'
<1>1. Counted(lock, thr', Holding)
  <2>1. n.tab = thr[t].tab \/ ~(Count(n.stack, Holding) > 0)
    OBVIOUS
  <2> QED
    BY <2>1, CountedKept, Holds
<1>2. Counted(lease, thr', Marked)
  <2>1. n.tab = thr[t].tab \/ ~(Count(n.stack, Marked) > 0)
    OBVIOUS
  <2> QED
    BY <2>1, CountedKept, Holds
<1> QED
  BY <1>1, <1>2, Holds, ThreadSteps

-----------------------------------------------------------------------------
(* What a step of its own makes of a thread.                               *)

Looking == {"target", "lock", "mark", "enter", "run", "rank"}

Looks(s) == \E i \in 1..(Len(s) - 1): s[i].f = "find" /\ s[i].pc \in Looking

LEMMA CallAfter ==
    ASSUME LeaseInv, NEW t \in Threads, Busy(t), NEW n \in ThreadState, thr'[t] = n, Grows,
           Stack(n.stack), n.tab = thr[t].tab,
           n.raised => n.stack[1].pc \in {"unmark", "release"},
           n.ran => n.raised \/ n.stack[1].pc = "acted", n.stack[1].pc # "created"
    PROVE  CallInv(t)'
<1>1. Busy(t)' /\ Top(t)' = n.stack[1]
  BY Lengths DEF Busy, Top
<1>2. thr[t].tab \in Tabs /\ tab'[thr[t].tab].doc > 0
  <2>1. thr[t].tab \in Tabs /\ tab[thr[t].tab].doc > 0 /\ tab[thr[t].tab].doc <= tab'[thr[t].tab].doc
    BY HasStack DEF Page, Grows
  <2>2. tab[thr[t].tab].doc \in Nat /\ tab'[thr[t].tab].doc \in Nat
    BY <2>1, Holds, BoundsAssumption DEF Grows, TabState
  <2> QED
    BY <2>1, <2>2
<1> QED
  BY <1>1, <1>2 DEF CallInv, Stack, Page, At

\* What is known of the elements of a call.
LEMMA Elements ==
    ASSUME LeaseInv, NEW t \in Threads, Busy(t), Grows
    PROVE  /\ thr[t].tab \in Tabs /\ tab'[thr[t].tab].doc \in Nat /\ tab[thr[t].tab].doc \in Nat
           /\ tab[thr[t].tab].doc > 0 /\ tab[thr[t].tab].doc <= MaxDocs
           /\ tab[thr[t].tab].doc <= tab'[thr[t].tab].doc
           /\ thr[t].given \in Nat /\ thr[t].els \subseteq Nat /\ thr[t].saw \in Nat /\ thr[t].queries \in Nat
           /\ thr[t].given <= tab[thr[t].tab].doc /\ thr[t].given <= tab'[thr[t].tab].doc
           /\ \A d \in thr[t].els: /\ thr[t].given <= d /\ d <= tab[thr[t].tab].doc
                                   /\ d <= tab'[thr[t].tab].doc
           /\ thr[t].saw # 0 => /\ thr[t].given <= thr[t].saw /\ thr[t].saw <= tab[thr[t].tab].doc
                                /\ thr[t].saw <= tab'[thr[t].tab].doc
           /\ thr[t].given = 0 /\ thr[t].queries = 0 => thr[t].els = {}
<1>1. /\ thr[t].tab \in Tabs /\ tab[thr[t].tab].doc <= tab'[thr[t].tab].doc
      /\ tab[thr[t].tab].doc > 0 /\ ElementInv(t)
  BY HasStack DEF Grows, Page
<1>2. /\ tab[thr[t].tab].doc \in 0..MaxDocs /\ tab'[thr[t].tab].doc \in 0..MaxDocs /\ MaxDocs \in Nat
      /\ thr[t].given \in 0..MaxDocs /\ thr[t].els \subseteq 1..MaxDocs /\ thr[t].saw \in 0..MaxDocs
      /\ thr[t].queries \in 0..MaxQueries /\ MaxQueries \in Nat
  BY <1>1, Holds, BoundsAssumption DEF Grows, TabState, ThreadState
<1>3. /\ thr[t].given <= tab[thr[t].tab].doc
      /\ \A d \in thr[t].els: thr[t].given <= d /\ d <= tab[thr[t].tab].doc
      /\ thr[t].saw # 0 => thr[t].given <= thr[t].saw /\ thr[t].saw <= tab[thr[t].tab].doc
      /\ thr[t].given = 0 /\ thr[t].queries = 0 => thr[t].els = {}
  BY <1>1 DEF ElementInv, Page
<1>4. /\ tab[thr[t].tab].doc \in Nat /\ tab'[thr[t].tab].doc \in Nat /\ tab[thr[t].tab].doc <= MaxDocs
      /\ thr[t].given \in Nat /\ thr[t].els \subseteq Nat /\ thr[t].saw \in Nat /\ thr[t].queries \in Nat
  BY <1>2
<1>5. thr[t].given <= tab'[thr[t].tab].doc
  BY <1>1, <1>3, <1>4
<1>6. ASSUME NEW d \in thr[t].els PROVE d <= tab'[thr[t].tab].doc
  BY <1>1, <1>3, <1>4
<1>7. thr[t].saw # 0 => thr[t].saw <= tab'[thr[t].tab].doc
  BY <1>1, <1>3, <1>4
<1> QED
  BY <1>1, <1>3, <1>4, <1>5, <1>6, <1>7

LEMMA ElementsHold ==
    ASSUME NEW t \in Threads, NEW n \in ThreadState, thr'[t] = n, Stack(n.stack),
           n.given <= tab'[n.tab].doc,
           \A d \in n.els \cup ({n.saw} \ {0}): n.given <= d /\ d <= tab'[n.tab].doc,
           n.given = 0 /\ n.queries = 0 => n.els = {},
           n.given = 0 /\ n.queries = 1 => n.els \subseteq (IF Looks(n.stack) THEN {} ELSE {n.inferred}),
           Looks(n.stack) => n.queries > 0,
           n.stack[1].f = "find" /\ n.stack[1].pc = "rank" => n.saw # 0,
           Len(n.stack) > 1 /\ n.stack[2].f = "find" /\ n.stack[1].pc \in {"unmark", "release"} =>
              n.raised \/ n.saw # 0
    PROVE  ElementInv(t)'
<1>1. Busy(t)' /\ Top(t)' = n.stack[1]
  BY Lengths DEF Busy, Top
<1>2. Finding(t)' <=> Looks(n.stack)
  BY DEF Finding, Looks, Looking
<1> QED
  BY <1>1, <1>2 DEF ElementInv, Page, In, At, Within

LEMMA ElementsAfter ==
    ASSUME LeaseInv, NEW t \in Threads, Busy(t), NEW n \in ThreadState, thr'[t] = n, Grows,
           Stack(n.stack), n.tab = thr[t].tab,
           n.els = thr[t].els, n.saw = thr[t].saw, n.given = thr[t].given,
           n.inferred = thr[t].inferred, n.queries = thr[t].queries,
           Looks(n.stack) => Looks(thr[t].stack),
           n.stack[1].f = "find" /\ n.stack[1].pc = "rank" => n.saw # 0,
           Len(n.stack) > 1 /\ n.stack[2].f = "find" /\ n.stack[1].pc \in {"unmark", "release"} =>
              n.raised \/ n.saw # 0
    PROVE  ElementInv(t)'
<1>3. ElementInv(t)
  BY HasStack
<1>4. /\ n.given <= tab'[n.tab].doc
      /\ \A d \in n.els \cup ({n.saw} \ {0}): n.given <= d /\ d <= tab'[n.tab].doc
  BY Elements
<1>5. n.given = 0 /\ n.queries = 0 => n.els = {}
  BY <1>3 DEF ElementInv
<1>6. n.given = 0 /\ n.queries = 1 => n.els \subseteq (IF Looks(n.stack) THEN {} ELSE {n.inferred})
  BY <1>3 DEF ElementInv, Finding, Looks, Looking
<1>7. Looks(n.stack) => n.queries > 0
  BY <1>3 DEF ElementInv, Finding, Looks, Looking
<1> QED
  BY <1>4, <1>5, <1>6, <1>7, ElementsHold

\* The tool on top goes on to p, where b says whether it raises.
Moved(t, p, b) ==
    [thr[t] EXCEPT !.stack = GoesOn(thr[t].stack, p), !.raised = b]

LEMMA MovedStack ==
    ASSUME LeaseInv, NEW t \in Threads, Busy(t), NEW p \in Pcs \ {"created"},
           p = "return" => Len(thr[t].stack) = 1,
           NEW q, q = GoesOn(thr[t].stack, p)
    PROVE  /\ Stack(q) /\ Len(q) = Len(thr[t].stack) /\ q[1].f = Top(t).f /\ q[1].pc = p
           /\ \A i \in 2..Len(q): q[i] = thr[t].stack[i]
           /\ \A P \in {Holding, Marked}:
                 Count(q, P) = Count(thr[t].stack, P) - In1(Top(t).pc, P) + In1(p, P)
           /\ (p \in Looking /\ Top(t).f = "find" => Top(t).pc \in Looking) => (Looks(q) => Looks(thr[t].stack))
<1> DEFINE s == thr[t].stack
<1>1. Stack(s) /\ Top(t) = s[1]
  BY HasStack
<1> HIDE DEF s
<1>2. q = GoesOn(s, p) /\ (p \in {"created", "return"} => Len(s) = 1)
  BY DEF s
<1>3. /\ Stack(q) /\ Len(q) = Len(s) /\ q[1].f = s[1].f /\ q[1].pc = p
      /\ \A i \in 2..Len(s): q[i] = s[i]
      /\ \A P \in {Holding, Marked}: Count(q, P) = Count(s, P) - In1(s[1].pc, P) + In1(p, P)
  BY <1>1, <1>2, TopGoesOn
<1>4. ASSUME p \in Looking /\ s[1].f = "find" => s[1].pc \in Looking, Looks(q) PROVE Looks(s)
  <2>1. PICK i \in 1..(Len(s) - 1): q[i].f = "find" /\ q[i].pc \in Looking
    BY <1>3, <1>4 DEF Looks
  <2>2. s[i].f = "find" /\ s[i].pc \in Looking
    <3>1. CASE i = 1
      BY <1>3, <1>4, <2>1, <3>1
    <3>2. CASE i # 1
      <4>1. i \in 2..Len(s)
        BY <3>2, <1>1, Lengths
      <4> QED
        BY <1>3, <2>1, <4>1
    <3> QED
      BY <3>1, <3>2
  <2> QED
    BY <2>2 DEF Looks
<1> QED
  BY <1>1, <1>3, <1>4 DEF s

LEMMA Moves ==
    ASSUME LeaseInv, NEW t \in Threads, Busy(t), NEW p \in Pcs \ {"rank", "created"}, NEW b \in BOOLEAN,
           p = "return" => Len(thr[t].stack) = 1,
           b => p \in {"unmark", "release"},
           thr[t].ran => b \/ p = "acted",
           p \in Looking /\ Top(t).f = "find" => Top(t).pc \in Looking,
           p \in {"unmark", "release"} /\ Within(t, "find") => b \/ thr[t].saw # 0,
           NEW n, n = Moved(t, p, b)
    PROVE  /\ n \in ThreadState /\ n.tab = thr[t].tab /\ Stack(n.stack)
           /\ \A P \in {Holding, Marked}:
                 Count(n.stack, P) = Count(thr[t].stack, P) - In1(Top(t).pc, P) + In1(p, P)
           /\ thr' = [thr EXCEPT ![t] = n] /\ Grows => CallInv(t)' /\ ElementInv(t)'
<1> DEFINE q == GoesOn(thr[t].stack, p)
<1>1. n = [thr[t] EXCEPT !.stack = q, !.raised = b]
  BY DEF Moved
<1>2. /\ Stack(q) /\ Len(q) = Len(thr[t].stack) /\ q[1].f = Top(t).f /\ q[1].pc = p
      /\ \A i \in 2..Len(q): q[i] = thr[t].stack[i]
      /\ \A P \in {Holding, Marked}: Count(q, P) = Count(thr[t].stack, P) - In1(Top(t).pc, P) + In1(p, P)
      /\ Looks(q) => Looks(thr[t].stack)
  BY MovedStack
<1> HIDE DEF q
<1>3. thr[t] \in ThreadState
  BY Holds
<1>4. q \in Seq(Frame)
  BY <1>2 DEF Stack
<1>5. /\ n \in ThreadState /\ n.tab = thr[t].tab /\ n.stack = q /\ n.raised = b /\ n.ran = thr[t].ran
      /\ n.els = thr[t].els /\ n.saw = thr[t].saw /\ n.given = thr[t].given
      /\ n.inferred = thr[t].inferred /\ n.queries = thr[t].queries
  BY <1>1, <1>3, <1>4 DEF ThreadState
<1>6. ASSUME thr' = [thr EXCEPT ![t] = n], Grows PROVE CallInv(t)' /\ ElementInv(t)'
  <2>1. thr'[t] = n
    BY <1>6, Holds
  <2>2. CallInv(t)'
    BY <1>2, <1>5, <1>6, <2>1, CallAfter
  <2>3. Len(q) > 1 => q[2] = thr[t].stack[2]
    BY <1>2, Lengths
  <2>4. Len(q) > 1 /\ q[2].f = "find" /\ q[1].pc \in {"unmark", "release"} => n.raised \/ n.saw # 0
    BY <1>2, <1>5, <2>3 DEF Within
  <2>5. ElementInv(t)'
    BY <1>2, <1>5, <1>6, <2>1, <2>4, ElementsAfter
  <2> QED
    BY <2>2, <2>5
<1> QED
  BY <1>2, <1>5, <1>6

LEMMA GotoMoves ==
    ASSUME LeaseInv, NEW t \in Threads, NEW p, Goto(t, p)
    PROVE  thr' = [thr EXCEPT ![t] = Moved(t, p, thr[t].raised)]
<1>1. thr' = [thr EXCEPT ![t] = [thr[t] EXCEPT !.stack = GoesOn(thr[t].stack, p)]]
  BY DEF Goto, GoesOn
<1>2. ASSUME NEW r \in ThreadState, NEW q
      PROVE  [r EXCEPT !.stack = q] = [r EXCEPT !.stack = q, !.raised = r.raised]
  BY DEF ThreadState
<1>3. thr[t] \in ThreadState
  BY Holds
<1> QED
  BY <1>1, <1>2, <1>3 DEF Moved

LEMMA RaiseMoves ==
    ASSUME LeaseInv, NEW t \in Threads, Raise(t)
    PROVE  thr' = [thr EXCEPT ![t] = Moved(t, "unmark", TRUE)]
BY DEF Raise, Moved, GoesOn

\* What a thread that has not raised may do.
LEMMA NotRaised ==
    ASSUME LeaseInv, NEW t \in Threads, Busy(t), Top(t).pc \notin {"unmark", "release"}
    PROVE  thr[t].raised = FALSE /\ (Top(t).pc # "acted" => thr[t].ran = FALSE)
<1>1. CallInv(t) /\ thr[t].raised \in BOOLEAN /\ thr[t].ran \in BOOLEAN
  BY Holds DEF ThreadState
<1> QED
  BY <1>1 DEF CallInv

\* The tool on top goes on inside its lease, or before it.
LEMMA GotoKeeps ==
    ASSUME LeaseInv, NEW t \in Threads, Busy(t), NEW p \in Pcs \ {"rank", "created", "release"}, Goto(t, p), Grows,
           UNCHANGED <<lock, lease>>, Top(t).pc \notin {"unmark", "release"},
           p = "return" => Len(thr[t].stack) = 1,
           Top(t).pc = "acted" => p = "acted",
           p \in Looking /\ Top(t).f = "find" => Top(t).pc \in Looking,
           p = "unmark" => Top(t).f # "observe",
           \A P \in {Holding, Marked}: Top(t).pc \in P <=> p \in P
    PROVE  LeaseInv'
<1> DEFINE n == Moved(t, p, thr[t].raised)
<1>1. thr' = [thr EXCEPT ![t] = n]
  BY GotoMoves
<1>2. thr[t].raised = FALSE /\ (Top(t).pc # "acted" => thr[t].ran = FALSE)
  BY NotRaised
<1>3. p = "unmark" => ~Within(t, "find")
  <2>1. ASSUME Within(t, "find") PROVE Top(t).f = "observe"
    <3>1. Stack(thr[t].stack) /\ Top(t) = thr[t].stack[1]
      BY HasStack
    <3>2. 2 \in 1..Len(thr[t].stack) /\ thr[t].stack[2].f = "find"
      BY <2>1, <3>1, Lengths DEF Within
    <3> QED
      BY <3>1, <3>2, Finders
  <2> QED
    BY <2>1
<1>4. /\ n \in ThreadState /\ n.tab = thr[t].tab
      /\ \A P \in {Holding, Marked}:
            Count(n.stack, P) = Count(thr[t].stack, P) - In1(Top(t).pc, P) + In1(p, P)
      /\ CallInv(t)' /\ ElementInv(t)'
  BY <1>1, <1>2, <1>3, Moves
<1> HIDE DEF n
<1>5. ASSUME NEW P \in {Holding, Marked} PROVE Count(n.stack, P) = Count(thr[t].stack, P)
  <2>1. In1(Top(t).pc, P) = In1(p, P) /\ In1(p, P) \in {0, 1}
    BY DEF In1
  <2>2. Count(thr[t].stack, P) \in 0..4
    BY HasStack, CountRange
  <2> QED
    BY <1>4, <2>1, <2>2
<1> QED
  BY <1>1, <1>4, <1>5, QuietSteps

\* It raises inside its lease.
LEMMA RaiseKeeps ==
    ASSUME LeaseInv, NEW t \in Threads, Busy(t), Raise(t), Grows, UNCHANGED <<lock, lease>>,
           Top(t).pc \in {"enter", "run", "busy", "acted"}
    PROVE  LeaseInv'
<1> DEFINE n == Moved(t, "unmark", TRUE)
<1>1. thr' = [thr EXCEPT ![t] = n]
  BY RaiseMoves
<1>2. "unmark" \in Pcs \ {"rank", "created"} /\ "unmark" \notin Looking
  BY DEF Pcs, Looking
<1>3. /\ n \in ThreadState /\ n.tab = thr[t].tab
      /\ \A P \in {Holding, Marked}:
            Count(n.stack, P) = Count(thr[t].stack, P) - In1(Top(t).pc, P) + In1("unmark", P)
      /\ CallInv(t)' /\ ElementInv(t)'
  BY <1>1, <1>2, Moves
<1> HIDE DEF n
<1>4. ASSUME NEW P \in {Holding, Marked} PROVE Count(n.stack, P) = Count(thr[t].stack, P)
  <2>1. In1(Top(t).pc, P) = 1 /\ In1("unmark", P) = 1
    BY Points DEF In1, Waiting
  <2>2. Count(thr[t].stack, P) \in 0..4
    BY HasStack, CountRange
  <2> QED
    BY <1>3, <2>1, <2>2
<1> QED
  BY <1>1, <1>3, <1>4, QuietSteps

-----------------------------------------------------------------------------
(* The lease.                                                              *)

\* The entry of a thread's own tab, when it is not another thread's.
LEMMA OwnEntry ==
    ASSUME LeaseInv, NEW t \in Threads, NEW P \in {Holding, Marked}, NEW x \in Tabs, thr[t].tab = x, Busy(t),
           NEW m \in Entries, Counted(m, thr, P), m[x].by \in {t, NoThread}
    PROVE  /\ m[x].n = Count(thr[t].stack, P)
           /\ m[x].by = (IF Count(thr[t].stack, P) > 0 THEN t ELSE NoThread)
<1>1. Count(thr[t].stack, P) \in 0..4
  BY HasStack, CountRange
<1>2. /\ m[x].by = NoThread => m[x] = Free
      /\ IF Count(thr[t].stack, P) > 0
         THEN m[x] = [by |-> t, n |-> Count(thr[t].stack, P)]
         ELSE m[x].by # t
  BY DEF Counted
<1>3. t # NoThread
  BY NoThreadAssumption
<1>4. CASE Count(thr[t].stack, P) > 0
  BY <1>2, <1>4
<1>5. CASE ~(Count(thr[t].stack, P) > 0)
  <2>1. m[x] = Free
    BY <1>2, <1>5
  <2>2. Free.n = 0 /\ Free.by = NoThread
    BY DEF Free
  <2> QED
    BY <1>1, <1>5, <2>1, <2>2
<1> QED
  BY <1>4, <1>5

\* A tool that has the lease is counted.
LEMMA TopHolds ==
    ASSUME LeaseInv, NEW t \in Threads, Busy(t), NEW P \in {Holding, Marked}, Top(t).pc \in P
    PROVE  Count(thr[t].stack, P) > 0
<1> DEFINE s == thr[t].stack
<1>1. Stack(s) /\ Top(t) = s[1]
  BY HasStack
<1> HIDE DEF s
<1>2. Count(s, P) = Len(s) - 1 + In1(s[1].pc, P) - Bottom(s) /\ Bottom(s) \in {0, 1}
  BY <1>1, CountOf
<1>3. In1(s[1].pc, P) = 1
  BY <1>1 DEF In1
<1>4. Len(s) \in Nat /\ Len(s) >= 1 /\ (Bottom(s) = 1 => Len(s) > 1)
  BY <1>1, Lengths DEF Bottom
<1>5. Count(s, P) > 0
  BY <1>2, <1>3, <1>4
<1> QED
  BY <1>5 DEF s

\* Who holds the lock of its tab finds no entry there but its own.
LEMMA HolderOwns ==
    ASSUME LeaseInv, NEW t \in Threads, Busy(t), Top(t).pc \in Holding
    PROVE  /\ lock[thr[t].tab] = [by |-> t, n |-> Count(thr[t].stack, Holding)]
           /\ lease[thr[t].tab].by \in {t, NoThread}
<1>1. Count(thr[t].stack, Holding) > 0 /\ thr[t].tab \in Tabs
  BY TopHolds, HasStack
<1>2. PICK x \in Tabs: x = thr[t].tab
  BY <1>1
<1>3. lock[x] = [by |-> t, n |-> Count(thr[t].stack, Holding)]
  BY <1>1, <1>2, Holds DEF Counted
<1>4. ASSUME NEW u \in Threads, lease[x].by = u PROVE u = t
  <2>1. thr[u].tab = x /\ Count(thr[u].stack, Marked) > 0
    BY <1>4, Holds DEF Counted
  <2>2. Busy(u)
    <3>1. CASE thr[u].stack = <<>>
      BY <2>1, <3>1, NothingCounts
    <3> QED
      BY <3>1 DEF Busy
  <2>3. Count(thr[u].stack, Marked) <= Count(thr[u].stack, Holding)
    BY <2>2, HasStack, MarkedHolds
  <2>4. Count(thr[u].stack, Marked) \in 0..4 /\ Count(thr[u].stack, Holding) \in 0..4
    BY <2>2, HasStack, CountRange
  <2>5. Count(thr[u].stack, Holding) > 0
    BY <2>1, <2>3, <2>4
  <2>6. lock[x] = [by |-> u, n |-> Count(thr[u].stack, Holding)]
    BY <2>1, <2>5, Holds DEF Counted
  <2>7. lock[x].by = u /\ lock[x].by = t
    BY <1>3, <2>6
  <2> QED
    BY <2>7
<1>5. lease[x].by \in Threads \cup {NoThread}
  BY Holds DEF Entries
<1> QED
  BY <1>2, <1>3, <1>4, <1>5

\* A step that writes into the entry of its tab how deep its thread is.
LEMMA EntrySet ==
    ASSUME LeaseInv, NEW t \in Threads, Busy(t), NEW n \in ThreadState, NEW x \in Tabs, thr[t].tab = x,
           NEW P \in {Holding, Marked}, Count(n.stack, P) \in 0..4, n.tab = x \/ ~(Count(n.stack, P) > 0),
           NEW m \in Entries, Counted(m, thr, P), m[x].by \in {t, NoThread}
    PROVE  /\ [m EXCEPT ![x] = EntryFor(t, Count(n.stack, P))] \in Entries
           /\ Counted([m EXCEPT ![x] = EntryFor(t, Count(n.stack, P))], [thr EXCEPT ![t] = n], P)
<1> DEFINE e == EntryFor(t, Count(n.stack, P))
           m2 == [m EXCEPT ![x] = e]
<1>1. m2[x] = e /\ \A y \in Tabs \ {x}: m2[y] = m[y]
  BY DEF Entries
<1>2. e \in [by: Threads \cup {NoThread}, n: 0..4]
  <2>1. Free \in [by: Threads \cup {NoThread}, n: 0..4]
    BY DEF Free
  <2> QED
    BY <2>1 DEF EntryFor
<1>3. m2 \in Entries
  BY <1>2 DEF Entries
<1>4. thr \in [Threads -> ThreadState]
  BY Holds
<1> HIDE DEF m2
<1>5. Counted(m2, [thr EXCEPT ![t] = n], P)
  BY <1>1, <1>4, CountedSet
<1> QED
  BY <1>3, <1>5 DEF m2

LEMMA AcquireKeeps1 ==
    ASSUME LeaseInv, NEW t \in Threads, Acquire(t), lock[thr[t].tab].by \in {NoThread, t}
    PROVE  LeaseInv'
<1>1. /\ Busy(t) /\ Top(t).pc = "lock" /\ Goto(t, "mark") /\ UNCHANGED <<tab, lease>> /\ Grows
      /\ lock' = [lock EXCEPT ![thr[t].tab] = [by |-> t, n |-> @.n + 1]]
  BY SameTabs DEF Acquire, At
<1>2. PICK x \in Tabs: x = thr[t].tab
  BY <1>1, HasStack
<1> DEFINE n == Moved(t, "mark", thr[t].raised)
<1>3. thr' = [thr EXCEPT ![t] = n]
  BY <1>1, GotoMoves
<1>4. /\ n \in ThreadState /\ n.tab = x /\ Stack(n.stack)
      /\ \A P \in {Holding, Marked}:
            Count(n.stack, P) = Count(thr[t].stack, P) - In1("lock", P) + In1("mark", P)
      /\ CallInv(t)' /\ ElementInv(t)'
  <2>1. /\ "mark" \in Pcs \ {"rank", "created"} /\ "lock" \in Looking
        /\ "mark" \notin {"return", "unmark", "release"}
    BY DEF Pcs, Looking
  <2>2. thr[t].raised = FALSE /\ thr[t].ran = FALSE
    BY <1>1, NotRaised
  <2>3. Top(t).pc \in Looking
    BY <1>1, <2>1
  <2>4. /\ n \in ThreadState /\ n.tab = thr[t].tab /\ Stack(n.stack)
        /\ \A P \in {Holding, Marked}:
              Count(n.stack, P) = Count(thr[t].stack, P) - In1(Top(t).pc, P) + In1("mark", P)
        /\ CallInv(t)' /\ ElementInv(t)'
    BY <1>1, <1>3, <2>1, <2>2, <2>3, Moves
  <2> HIDE DEF n
  <2> QED
    BY <1>1, <1>2, <2>4
<1> HIDE DEF n
<1>5. /\ In1("lock", Holding) = 0 /\ In1("mark", Holding) = 1
      /\ In1("lock", Marked) = 0 /\ In1("mark", Marked) = 0
  BY DEF In1, Holding, Marked
<1>6. Count(thr[t].stack, Holding) \in 0..4 /\ Count(thr[t].stack, Marked) \in 0..4
  BY <1>1, HasStack, CountRange
<1>7. /\ Count(n.stack, Holding) = Count(thr[t].stack, Holding) + 1
      /\ Count(n.stack, Marked) = Count(thr[t].stack, Marked)
      /\ Count(n.stack, Holding) \in 0..4
  BY <1>4, <1>5, <1>6, CountRange
<1>8. lock[x].n = Count(thr[t].stack, Holding)
  BY <1>1, <1>2, Holds, OwnEntry
<1>9. lock' \in Entries /\ Counted(lock', thr', Holding)
  <2> DEFINE e == EntryFor(t, Count(n.stack, Holding))
  <2>1. Count(n.stack, Holding) > 0
    BY <1>6, <1>7
  <2>2. lock' = [lock EXCEPT ![x] = e]
    BY <1>1, <1>2, <1>7, <1>8, <2>1 DEF EntryFor
  <2> QED
    <3>1. lock \in Entries /\ Counted(lock, thr, Holding) /\ lock[x].by \in {t, NoThread}
      BY <1>2, Holds
    <3>2. [lock EXCEPT ![x] = e] \in Entries /\ Counted([lock EXCEPT ![x] = e], [thr EXCEPT ![t] = n], Holding)
      BY <1>1, <1>2, <1>4, <1>7, <3>1, EntrySet
    <3> QED
      BY <1>3, <2>2, <3>2
<1>10. lease' \in Entries /\ Counted(lease', thr', Marked)
  BY <1>1, <1>2, <1>3, <1>4, <1>7, Holds, CountedKept
<1> QED
  BY <1>1, <1>3, <1>4, <1>9, <1>10, ThreadSteps

LEMMA MarkKeeps ==
    ASSUME LeaseInv, NEW t \in Threads, Mark(t)
    PROVE  LeaseInv'
<1>1. /\ Busy(t) /\ Top(t).pc = "mark" /\ Goto(t, "enter") /\ UNCHANGED <<tab, lock>> /\ Grows
      /\ lease' = [lease EXCEPT ![thr[t].tab] = [by |-> t, n |-> IF @.by = t THEN @.n + 1 ELSE 1]]
  BY SameTabs DEF Mark, At
<1>2. PICK x \in Tabs: x = thr[t].tab
  BY <1>1, HasStack
<1> DEFINE n == Moved(t, "enter", thr[t].raised)
<1>3. thr' = [thr EXCEPT ![t] = n]
  BY <1>1, GotoMoves
<1>4. /\ n \in ThreadState /\ n.tab = x /\ Stack(n.stack)
      /\ \A P \in {Holding, Marked}:
            Count(n.stack, P) = Count(thr[t].stack, P) - In1("mark", P) + In1("enter", P)
      /\ CallInv(t)' /\ ElementInv(t)'
  <2>1. /\ "enter" \in Pcs \ {"rank", "created"} /\ "mark" \in Looking
        /\ "enter" \notin {"return", "unmark", "release"}
    BY DEF Pcs, Looking
  <2>2. thr[t].raised = FALSE /\ thr[t].ran = FALSE
    BY <1>1, NotRaised
  <2>3. Top(t).pc \in Looking
    BY <1>1, <2>1
  <2>4. /\ n \in ThreadState /\ n.tab = thr[t].tab /\ Stack(n.stack)
        /\ \A P \in {Holding, Marked}:
              Count(n.stack, P) = Count(thr[t].stack, P) - In1(Top(t).pc, P) + In1("enter", P)
        /\ CallInv(t)' /\ ElementInv(t)'
    BY <1>1, <1>3, <2>1, <2>2, <2>3, Moves
  <2> HIDE DEF n
  <2> QED
    BY <1>1, <1>2, <2>4
<1> HIDE DEF n
<1>5. /\ In1("mark", Holding) = 1 /\ In1("enter", Holding) = 1 /\ "mark" \in Holding
      /\ In1("mark", Marked) = 0 /\ In1("enter", Marked) = 1
  BY DEF In1, Holding, Marked
<1>6. Count(thr[t].stack, Holding) \in 0..4 /\ Count(thr[t].stack, Marked) \in 0..4
  BY <1>1, HasStack, CountRange
<1>7. /\ Count(n.stack, Holding) = Count(thr[t].stack, Holding)
      /\ Count(n.stack, Marked) = Count(thr[t].stack, Marked) + 1
      /\ Count(n.stack, Marked) \in 0..4
  BY <1>4, <1>5, <1>6, CountRange
<1>8. lease[x].by \in {t, NoThread}
  BY <1>1, <1>2, <1>5, HolderOwns
<1>9. /\ lease[x].n = Count(thr[t].stack, Marked)
      /\ lease[x].by = (IF Count(thr[t].stack, Marked) > 0 THEN t ELSE NoThread)
  BY <1>1, <1>2, <1>8, Holds, OwnEntry
<1>10. lease' \in Entries /\ Counted(lease', thr', Marked)
  <2> DEFINE e == EntryFor(t, Count(n.stack, Marked))
  <2>1. Count(n.stack, Marked) > 0
    BY <1>6, <1>7
  <2>2. (IF lease[x].by = t THEN lease[x].n + 1 ELSE 1) = Count(n.stack, Marked)
    BY <1>6, <1>7, <1>9, NoThreadAssumption
  <2>3. lease' = [lease EXCEPT ![x] = e]
    BY <1>1, <1>2, <2>1, <2>2 DEF EntryFor
  <2> QED
    <3>1. lease \in Entries /\ Counted(lease, thr, Marked)
      BY Holds
    <3>2. [lease EXCEPT ![x] = e] \in Entries /\ Counted([lease EXCEPT ![x] = e], [thr EXCEPT ![t] = n], Marked)
      BY <1>1, <1>2, <1>4, <1>7, <1>8, <3>1, EntrySet
    <3> QED
      BY <1>3, <2>3, <3>2
<1>11. lock' \in Entries /\ Counted(lock', thr', Holding)
  BY <1>1, <1>2, <1>3, <1>4, <1>7, Holds, CountedKept
<1> QED
  BY <1>1, <1>3, <1>4, <1>10, <1>11, ThreadSteps

LEMMA UnmarkKeeps ==
    ASSUME LeaseInv, NEW t \in Threads, Unmark(t)
    PROVE  LeaseInv'
<1>1. /\ Busy(t) /\ Top(t).pc = "unmark" /\ Goto(t, "release") /\ UNCHANGED <<tab, lock>> /\ Grows
      /\ lease' = [lease EXCEPT ![thr[t].tab] = IF @.by # t THEN @
                                                ELSE IF @.n > 1 THEN [by |-> t, n |-> @.n - 1]
                                                ELSE Free]
  BY SameTabs DEF Unmark, At
<1>2. PICK x \in Tabs: x = thr[t].tab
  BY <1>1, HasStack
<1> DEFINE n == Moved(t, "release", thr[t].raised)
<1>3. thr' = [thr EXCEPT ![t] = n]
  BY <1>1, GotoMoves
<1>4. /\ n \in ThreadState /\ n.tab = x /\ Stack(n.stack)
      /\ \A P \in {Holding, Marked}:
            Count(n.stack, P) = Count(thr[t].stack, P) - In1("unmark", P) + In1("release", P)
      /\ CallInv(t)' /\ ElementInv(t)'
  <2>1. "release" \in Pcs \ {"rank", "created"} /\ "release" # "return" /\ "release" \notin Looking
    BY DEF Pcs, Looking
  <2>2. thr[t].raised \in BOOLEAN /\ (thr[t].ran => thr[t].raised)
    BY <1>1, Holds DEF ThreadState, CallInv
  <2>3. Within(t, "find") => thr[t].raised \/ thr[t].saw # 0
    BY <1>1, HasStack DEF ElementInv
  <2>4. /\ n \in ThreadState /\ n.tab = thr[t].tab /\ Stack(n.stack)
        /\ \A P \in {Holding, Marked}:
              Count(n.stack, P) = Count(thr[t].stack, P) - In1(Top(t).pc, P) + In1("release", P)
        /\ CallInv(t)' /\ ElementInv(t)'
    BY <1>1, <1>3, <2>1, <2>2, <2>3, Moves
  <2> HIDE DEF n
  <2> QED
    BY <1>1, <1>2, <2>4
<1> HIDE DEF n
<1>5. /\ In1("unmark", Holding) = 1 /\ In1("release", Holding) = 1 /\ "unmark" \in Holding
      /\ In1("unmark", Marked) = 1 /\ In1("release", Marked) = 0 /\ "unmark" \in Marked
  BY DEF In1, Holding, Marked
<1>6. Count(thr[t].stack, Holding) \in 0..4 /\ Count(thr[t].stack, Marked) \in 0..4
  BY <1>1, HasStack, CountRange
<1>7. /\ Count(n.stack, Holding) = Count(thr[t].stack, Holding)
      /\ Count(n.stack, Marked) = Count(thr[t].stack, Marked) - 1
      /\ Count(n.stack, Marked) \in 0..4
  BY <1>4, <1>5, <1>6, CountRange
<1>8. lease[x].by \in {t, NoThread} /\ Count(thr[t].stack, Marked) > 0
  BY <1>1, <1>2, <1>5, HolderOwns, TopHolds
<1>9. lease[x] = [by |-> t, n |-> Count(thr[t].stack, Marked)]
  BY <1>2, <1>8, Holds DEF Counted
<1>10. lease' \in Entries /\ Counted(lease', thr', Marked)
  <2> DEFINE e == EntryFor(t, Count(n.stack, Marked))
  <2>1. (IF lease[x].n > 1 THEN [by |-> t, n |-> lease[x].n - 1] ELSE Free) = e
    <3>1. CASE Count(n.stack, Marked) > 0
      <4>1. lease[x].n > 1 /\ [by |-> t, n |-> lease[x].n - 1] = [by |-> t, n |-> Count(n.stack, Marked)]
        BY <1>6, <1>7, <1>9, <3>1
      <4> QED
        BY <3>1, <4>1 DEF EntryFor
    <3>2. CASE ~(Count(n.stack, Marked) > 0)
      <4>1. ~(lease[x].n > 1)
        BY <1>6, <1>7, <1>9, <3>2
      <4> QED
        BY <3>2, <4>1 DEF EntryFor
    <3> QED
      BY <3>1, <3>2
  <2>2. lease[x].by = t
    BY <1>9
  <2> HIDE DEF e
  <2>3. lease' = [lease EXCEPT ![x] = e]
    <3>1. lease' = [lease EXCEPT ![x] = IF lease[x].by # t THEN lease[x]
                                        ELSE IF lease[x].n > 1 THEN [by |-> t, n |-> lease[x].n - 1]
                                        ELSE Free]
      BY <1>1, <1>2
    <3>2. (IF lease[x].by # t THEN lease[x]
           ELSE IF lease[x].n > 1 THEN [by |-> t, n |-> lease[x].n - 1] ELSE Free) = e
      BY <2>1, <2>2
    <3> QED
      BY <3>1, <3>2
  <2> USE DEF e
  <2>4. lease \in Entries /\ Counted(lease, thr, Marked)
    BY Holds
  <2>5. [lease EXCEPT ![x] = e] \in Entries /\ Counted([lease EXCEPT ![x] = e], [thr EXCEPT ![t] = n], Marked)
    BY <1>1, <1>2, <1>4, <1>7, <1>8, <2>4, EntrySet
  <2> QED
    BY <1>3, <2>3, <2>5
<1>11. lock' \in Entries /\ Counted(lock', thr', Holding)
  BY <1>1, <1>2, <1>3, <1>4, <1>7, Holds, CountedKept
<1> QED
  BY <1>1, <1>3, <1>4, <1>10, <1>11, ThreadSteps

-----------------------------------------------------------------------------
(* The end of a tool.                                                      *)

LEMMA IdleThread ==
    /\ Idle \in ThreadState /\ Idle.stack = <<>> /\ Idle.tab = NoTab /\ Idle.raised = FALSE /\ Idle.ran = FALSE
    /\ Idle.els = {} /\ Idle.saw = 0 /\ Idle.given = 0 /\ Idle.inferred = 0 /\ Idle.queries = 0
    /\ Idle.acts = 0 /\ Idle.own = FALSE
BY BoundsAssumption DEF Idle, ThreadState

LEMMA IdleKeeps ==
    ASSUME NEW t \in Threads, thr'[t] = Idle
    PROVE  CallInv(t)' /\ ~Busy(t)'
<1>1. ~Busy(t)'
  BY IdleThread DEF Busy
<1> QED
  BY <1>1, IdleThread, NothingCounts DEF CallInv, Busy, At

\* A tool that cannot have the lease is left, or one that has given it back.
LEMMA Leaves ==
    ASSUME LeaseInv, NEW t \in Threads, Busy(t), NEW r \in BOOLEAN,
           \/ r /\ Top(t).pc \in {"target", "lock"}
           \/ r = thr[t].raised /\ Top(t).pc \in {"release", "return"},
           NEW n, n = Left(t, r)
    PROVE  /\ n \in ThreadState
           /\ \A P \in {Holding, Marked}: Count(n.stack, P) = Count(thr[t].stack, P) - In1(Top(t).pc, P)
           /\ n.tab = thr[t].tab \/ \A P \in {Holding, Marked}: Count(n.stack, P) = 0
           /\ thr' = [thr EXCEPT ![t] = n] /\ Grows => CallInv(t)' /\ (Busy(t)' => ElementInv(t)')
<1> DEFINE s == thr[t].stack
           rest == Tail(s)
<1>1. Stack(s) /\ Top(t) = s[1] /\ thr[t] \in ThreadState /\ thr[t].tab \in Tabs
  BY HasStack, Holds
<1>2. /\ rest \in Seq(Frame) /\ Len(rest) = Len(s) - 1 /\ StackInv(rest)
      /\ \A i \in 1..Len(rest): rest[i] = s[i + 1]
      /\ \A P \in {Holding, Marked}: Count(rest, P) = Count(s, P) - In1(s[1].pc, P)
  BY <1>1, TopLeft
<1>3. n = IF rest = <<>> \/ (r /\ rest[1].pc \in {"target", "return"}) THEN Idle
          ELSE [thr[t] EXCEPT !.stack = IF r THEN GoesOn(rest, "unmark") ELSE rest, !.raised = r]
  BY DEF Left, GoesOn
<1> HIDE DEF rest
<1>4. rest # <<>> => Stack(rest)
  BY <1>2 DEF Stack
<1>5. CASE rest = <<>>
  <2>1. n = Idle
    BY <1>3, <1>5
  <2>2. \A P \in {Holding, Marked}: Count(n.stack, P) = 0 /\ Count(rest, P) = 0
    BY <2>1, <1>5, IdleThread, NothingCounts
  <2>3. \A P \in {Holding, Marked}: Count(n.stack, P) = Count(s, P) - In1(Top(t).pc, P)
    BY <1>1, <1>2, <2>2
  <2>4. thr' = [thr EXCEPT ![t] = n] => CallInv(t)' /\ ~Busy(t)'
    BY <2>1, Holds, IdleKeeps
  <2> QED
    BY <2>1, <2>2, <2>3, <2>4, IdleThread
<1>6. CASE rest # <<>> /\ r /\ rest[1].pc \in {"target", "return"}
  <2>1. n = Idle
    BY <1>3, <1>6
  <2>2. \A P \in {Holding, Marked}: Count(n.stack, P) = 0
    BY <2>1, IdleThread, NothingCounts
  <2>3. Len(rest) = 1
    <3>1. rest[1] = s[2] /\ 2 \in 2..Len(s) /\ Len(s) \in Nat
      BY <1>1, <1>2, <1>4, <1>6, Lengths
    <3>2. Len(s) = 2
      <4>1. s[2].pc \in Waiting \/ (s[2].pc \in {"target", "return"} /\ 2 = Len(s))
        BY <1>1, <3>1, StackFacts
      <4> QED
        BY <1>6, <3>1, <4>1 DEF Waiting
    <3> QED
      BY <1>2, <3>2
  <2>4. ASSUME NEW P \in {Holding, Marked} PROVE Count(rest, P) = 0
    <3>1. rest[1].pc \notin P
      BY <1>6, Points
    <3>2. In1(rest[1].pc, P) = 0 /\ Bottom(rest) = 0
      BY <2>3, <3>1 DEF In1, Bottom
    <3>3. Count(rest, P) = Len(rest) - 1 + In1(rest[1].pc, P) - Bottom(rest)
      BY <1>4, <1>6, CountOf
    <3> QED
      BY <2>3, <3>2, <3>3
  <2>5. \A P \in {Holding, Marked}: Count(n.stack, P) = Count(s, P) - In1(Top(t).pc, P)
    BY <1>1, <1>2, <2>2, <2>4
  <2>6. thr' = [thr EXCEPT ![t] = n] => CallInv(t)' /\ ~Busy(t)'
    BY <2>1, Holds, IdleKeeps
  <2> QED
    BY <2>1, <2>2, <2>5, <2>6, IdleThread
<1>7. CASE rest # <<>> /\ ~(r /\ rest[1].pc \in {"target", "return"})
  <2> DEFINE q == IF r THEN GoesOn(rest, "unmark") ELSE rest
  <2>1. n = [thr[t] EXCEPT !.stack = q, !.raised = r]
    BY <1>3, <1>7
  <2>2. Stack(rest) /\ Len(rest) >= 1 /\ Len(rest) \in Nat /\ rest[1] = s[1 + 1] /\ Len(s) > 1
        /\ Len(s) \in Nat
    BY <1>1, <1>2, <1>4, <1>7, Lengths
  <2>3. r => rest[1].pc \in Waiting
    <3>1. 2 \in 2..Len(s)
      BY <2>2
    <3> QED
      BY <1>1, <1>7, <2>2, <3>1, StackFacts
  <2>4. "unmark" \in Pcs /\ "unmark" \notin {"created", "return"} /\ "unmark" \notin Looking
    BY DEF Pcs, Looking
  <2>5. /\ Stack(q) /\ Len(q) = Len(rest) /\ \A i \in 2..Len(rest): q[i] = rest[i]
        /\ r => q[1].pc = "unmark" /\ q[1].f = rest[1].f
        /\ ~r => q = rest
    BY <2>2, <2>4, TopGoesOn
  <2>6. ASSUME NEW P \in {Holding, Marked} PROVE Count(q, P) = Count(s, P) - In1(Top(t).pc, P)
    <3>1. CASE ~r
      BY <1>1, <1>2, <2>5, <3>1
    <3>2. CASE r
      <4>1. In1(rest[1].pc, P) = 1 /\ In1("unmark", P) = 1
        BY <2>3, <3>2, Points DEF In1, Waiting
      <4>2. Count(q, P) = Count(rest, P) - In1(rest[1].pc, P) + In1("unmark", P)
        BY <2>2, <2>4, <3>2, TopGoesOn
      <4>3. Count(rest, P) \in 0..4
        BY <2>2, CountRange
      <4> QED
        BY <1>1, <1>2, <4>1, <4>2, <4>3
    <3> QED
      BY <3>1, <3>2
  <2> HIDE DEF q
  <2>7. q \in Seq(Frame)
    BY <2>5 DEF Stack
  <2>8. /\ n \in ThreadState /\ n.tab = thr[t].tab /\ n.stack = q /\ n.raised = r /\ n.ran = thr[t].ran
        /\ n.els = thr[t].els /\ n.saw = thr[t].saw /\ n.given = thr[t].given
        /\ n.inferred = thr[t].inferred /\ n.queries = thr[t].queries
    BY <1>1, <2>1, <2>7 DEF ThreadState
  <2>9. Looks(q) => Looks(s)
    <3> SUFFICES ASSUME Looks(q) PROVE Looks(s)
      OBVIOUS
    <3>1. PICK i \in 1..(Len(rest) - 1): q[i].f = "find" /\ q[i].pc \in Looking
      BY <2>5 DEF Looks
    <3>2. rest[i].f = "find" /\ rest[i].pc \in Looking
      <4>1. CASE i = 1
        BY <2>4, <2>5, <3>1, <4>1
      <4>2. CASE i # 1
        <5>1. i \in 2..Len(rest)
          BY <2>2, <4>2
        <5> QED
          BY <2>5, <3>1, <5>1
      <4> QED
        BY <4>1, <4>2
    <3>3. i + 1 \in 1..(Len(s) - 1) /\ rest[i] = s[i + 1]
      BY <1>2, <2>2
    <3> QED
      BY <3>2, <3>3 DEF Looks
  <2>10. ASSUME ~r PROVE thr[t].raised = FALSE /\ thr[t].ran = FALSE /\ Top(t).pc = "release"
    <3>1. thr[t].raised = FALSE /\ Top(t).pc \in {"release", "return"}
      BY <2>10
    <3>2. Top(t).pc = "release"
      <4>1. CASE Top(t).pc = "return"
        <5>1. Len(s) = 1
          BY <1>1, <4>1, StackFacts
        <5> QED
          BY <2>2, <5>1
      <4> QED
        BY <3>1, <4>1
    <3>3. thr[t].ran \in BOOLEAN /\ CallInv(t)
      BY <1>1, Holds DEF ThreadState
    <3> QED
      BY <3>1, <3>2, <3>3 DEF CallInv
  <2>11. n.raised => q[1].pc \in {"unmark", "release"}
    BY <2>5, <2>8
  <2>12. n.ran => n.raised \/ q[1].pc = "acted"
    BY <2>8, <2>10
  <2>16. q[1].pc # "created"
    <3>1. 2 \in 2..Len(s)
      BY <2>2
    <3>2. s[2].pc # "created"
      BY <1>1, <3>1, StackFacts DEF Waiting
    <3> QED
      BY <2>2, <2>5, <3>2
  <2>13. q[1].f = "find" /\ q[1].pc = "rank" => n.saw # 0
    <3> SUFFICES ASSUME q[1].f = "find", q[1].pc = "rank" PROVE thr[t].saw # 0
      BY <2>8
    <3>1. ~r /\ s[2].f = "find"
      BY <2>2, <2>5
    <3>2. Within(t, "find")
      BY <2>2, <3>1 DEF Within
    <3>3. thr[t].raised \/ thr[t].saw # 0
      BY <2>10, <3>1, <3>2, HasStack DEF ElementInv
    <3> QED
      BY <2>10, <3>1, <3>3
  <2>14. ~(Len(q) > 1 /\ q[2].f = "find")
    <3> SUFFICES ASSUME Len(q) > 1, q[2].f = "find" PROVE FALSE
      OBVIOUS
    <3>1. 2 \in 2..Len(rest) /\ 3 \in 1..Len(s) /\ rest[2] = s[2 + 1]
      BY <1>2, <2>2, <2>5
    <3>2. s[3].f = "find"
      BY <2>5, <3>1
    <3> QED
      BY <1>1, <3>1, <3>2, Finders
  <2>15. ASSUME thr' = [thr EXCEPT ![t] = n], Grows PROVE CallInv(t)' /\ ElementInv(t)'
    <3>1. thr'[t] = n
      BY <2>15, Holds
    <3>2. CallInv(t)'
      BY <2>5, <2>8, <2>11, <2>12, <2>15, <2>16, <3>1, CallAfter
    <3>3. ElementInv(t)'
      BY <2>5, <2>8, <2>9, <2>13, <2>14, <2>15, <3>1, ElementsAfter
    <3> QED
      BY <3>2, <3>3
  <2> QED
    BY <2>6, <2>8, <2>15
<1> QED
  BY <1>5, <1>6, <1>7

\* A tool that has no lease is left.
LEMMA LeaveKeeps ==
    ASSUME LeaseInv, NEW t \in Threads, Busy(t), UNCHANGED <<tab, lock, lease>>, NEW r \in BOOLEAN,
           \/ r /\ Top(t).pc \in {"target", "lock"}
           \/ r = thr[t].raised /\ Top(t).pc = "return",
           thr' = [thr EXCEPT ![t] = Left(t, r)]
    PROVE  LeaseInv'
<1> DEFINE n == Left(t, r)
<1>1. /\ n \in ThreadState
      /\ \A P \in {Holding, Marked}: Count(n.stack, P) = Count(thr[t].stack, P) - In1(Top(t).pc, P)
      /\ n.tab = thr[t].tab \/ \A P \in {Holding, Marked}: Count(n.stack, P) = 0
      /\ CallInv(t)' /\ (Busy(t)' => ElementInv(t)')
  BY SameTabs, Leaves
<1> HIDE DEF n
<1>2. ASSUME NEW P \in {Holding, Marked} PROVE Count(n.stack, P) = Count(thr[t].stack, P)
  <2>1. In1(Top(t).pc, P) = 0
    BY Points DEF In1
  <2>2. Count(thr[t].stack, P) \in 0..4
    BY HasStack, CountRange
  <2> QED
    BY <1>1, <2>1, <2>2
<1> QED
  BY <1>1, <1>2, SameTabs, QuietSteps DEF n

LEMMA TargetKeeps ==
    ASSUME LeaseInv, NEW t \in Threads, Target(t)
    PROVE  LeaseInv'
<1>1. Busy(t) /\ Top(t).pc = "target" /\ UNCHANGED <<tab, lock, lease>> /\ Grows
  BY SameTabs DEF Target, At
<1>2. CASE Page(t).open
  <2>1. Goto(t, "lock")
    BY <1>2 DEF Target
  <2>2. "lock" \in Pcs \ {"rank", "created", "release"} /\ "target" \in Looking
        /\ "lock" \notin {"return", "unmark", "acted"}
    BY DEF Pcs, Looking
  <2>3. \A P \in {Holding, Marked}: Top(t).pc \in P <=> "lock" \in P
    BY <1>1, Points
  <2> QED
    BY <1>1, <2>1, <2>2, <2>3, GotoKeeps
<1>3. CASE ~Page(t).open
  <2>1. thr' = [thr EXCEPT ![t] = Left(t, TRUE)]
    BY <1>3 DEF Target, Refuse
  <2> QED
    BY <1>1, <2>1, LeaveKeeps
<1> QED
  BY <1>2, <1>3

LEMMA AcquireKeeps ==
    ASSUME LeaseInv, NEW t \in Threads, Acquire(t)
    PROVE  LeaseInv'
<1>1. CASE lock[thr[t].tab].by \in {NoThread, t}
  BY <1>1, AcquireKeeps1
<1>2. CASE lock[thr[t].tab].by \notin {NoThread, t}
  <2>1. Busy(t) /\ Top(t).pc = "lock" /\ UNCHANGED <<tab, lock, lease>>
        /\ thr' = [thr EXCEPT ![t] = Left(t, TRUE)]
    BY <1>2 DEF Acquire, At, Refuse
  <2> QED
    BY <2>1, LeaveKeeps
<1> QED
  BY <1>1, <1>2

LEMMA ReturnKeeps ==
    ASSUME LeaseInv, NEW t \in Threads, Return(t)
    PROVE  LeaseInv'
<1>1. /\ Busy(t) /\ Top(t).pc = "return" /\ UNCHANGED <<tab, lock, lease>>
      /\ thr' = [thr EXCEPT ![t] = Left(t, thr[t].raised)] /\ thr[t].raised \in BOOLEAN
  BY Holds DEF Return, At, Leave, ThreadState
<1> QED
  BY <1>1, LeaveKeeps

LEMMA ReleaseKeeps ==
    ASSUME LeaseInv, NEW t \in Threads, Release(t)
    PROVE  LeaseInv'
<1>1. /\ Busy(t) /\ Top(t).pc = "release" /\ UNCHANGED <<tab, lease>> /\ Grows
      /\ lock' = [lock EXCEPT ![thr[t].tab] = IF @.n = 1 THEN Free ELSE [by |-> t, n |-> @.n - 1]]
  BY SameTabs DEF Release, At
<1>2. PICK x \in Tabs: x = thr[t].tab
  BY <1>1, HasStack
<1> DEFINE n == Left(t, thr[t].raised)
<1>3. thr' = [thr EXCEPT ![t] = n]
  BY DEF Release, Leave
<1>4. /\ n \in ThreadState
      /\ \A P \in {Holding, Marked}: Count(n.stack, P) = Count(thr[t].stack, P) - In1("release", P)
      /\ n.tab = x \/ \A P \in {Holding, Marked}: Count(n.stack, P) = 0
      /\ CallInv(t)' /\ (Busy(t)' => ElementInv(t)')
  <2>1. thr[t].raised \in BOOLEAN
    BY Holds DEF ThreadState
  <2>2. /\ n \in ThreadState
        /\ \A P \in {Holding, Marked}: Count(n.stack, P) = Count(thr[t].stack, P) - In1(Top(t).pc, P)
        /\ n.tab = thr[t].tab \/ \A P \in {Holding, Marked}: Count(n.stack, P) = 0
        /\ CallInv(t)' /\ (Busy(t)' => ElementInv(t)')
    BY <1>1, <1>3, <2>1, Leaves
  <2> HIDE DEF n
  <2> QED
    BY <1>1, <1>2, <2>2
<1> HIDE DEF n
<1>5. In1("release", Holding) = 1 /\ In1("release", Marked) = 0 /\ "release" \in Holding
  BY DEF In1, Holding, Marked
<1>6. Count(thr[t].stack, Holding) \in 0..4 /\ Count(thr[t].stack, Marked) \in 0..4
  BY <1>1, HasStack, CountRange
<1>7. Count(thr[t].stack, Holding) > 0 /\ lock[x] = [by |-> t, n |-> Count(thr[t].stack, Holding)]
  BY <1>1, <1>2, <1>5, HolderOwns, TopHolds
<1>8. /\ Count(n.stack, Holding) = Count(thr[t].stack, Holding) - 1
      /\ Count(n.stack, Marked) = Count(thr[t].stack, Marked)
      /\ Count(n.stack, Holding) \in 0..4
      /\ n.tab = x \/ (~(Count(n.stack, Holding) > 0) /\ ~(Count(n.stack, Marked) > 0))
  BY <1>4, <1>5, <1>6, <1>7
<1>9. lock' \in Entries /\ Counted(lock', thr', Holding)
  <2> DEFINE e == EntryFor(t, Count(n.stack, Holding))
  <2>1. (IF lock[x].n = 1 THEN Free ELSE [by |-> t, n |-> lock[x].n - 1]) = e
    <3>1. lock[x].n = Count(thr[t].stack, Holding)
      BY <1>7
    <3>2. CASE Count(n.stack, Holding) > 0
      BY <1>6, <1>8, <3>1, <3>2 DEF EntryFor
    <3>3. CASE ~(Count(n.stack, Holding) > 0)
      BY <1>6, <1>8, <3>1, <3>3 DEF EntryFor
    <3> QED
      BY <3>2, <3>3
  <2> HIDE DEF e
  <2>2. lock' = [lock EXCEPT ![x] = e]
    <3>1. lock' = [lock EXCEPT ![x] = IF lock[x].n = 1 THEN Free ELSE [by |-> t, n |-> lock[x].n - 1]]
      BY <1>1, <1>2
    <3> QED
      BY <2>1, <3>1
  <2> USE DEF e
  <2>3. lock \in Entries /\ Counted(lock, thr, Holding) /\ lock[x].by \in {t, NoThread}
    BY <1>7, Holds
  <2>4. [lock EXCEPT ![x] = e] \in Entries /\ Counted([lock EXCEPT ![x] = e], [thr EXCEPT ![t] = n], Holding)
    BY <1>1, <1>2, <1>4, <1>8, <2>3, EntrySet
  <2> QED
    BY <1>3, <2>2, <2>4
<1>10. lease' \in Entries /\ Counted(lease', thr', Marked)
  <2>1. Counted(lease, [thr EXCEPT ![t] = n], Marked)
    BY <1>2, <1>8, Holds, CountedKept
  <2> QED
    BY <1>1, <1>3, <2>1, Holds
<1> QED
  BY <1>1, <1>3, <1>4, <1>9, <1>10, ThreadSteps

-----------------------------------------------------------------------------
(* The tools.                                                              *)

LEMMA EnterKeeps ==
    ASSUME LeaseInv, NEW t \in Threads, Enter(t)
    PROVE  LeaseInv'
<1>1. Busy(t) /\ Top(t).pc = "enter" /\ UNCHANGED <<tab, lock, lease>> /\ Grows
  BY SameTabs DEF Enter, At
<1>2. CASE Page(t).open
  <2>1. Goto(t, "run")
    BY <1>2 DEF Enter
  <2>2. "run" \in Pcs \ {"rank", "created", "release"} /\ "enter" \in Looking
        /\ "run" \notin {"return", "unmark", "acted"}
    BY DEF Pcs, Looking
  <2>3. \A P \in {Holding, Marked}: Top(t).pc \in P <=> "run" \in P
    BY <1>1, Points DEF Waiting
  <2> QED
    BY <1>1, <2>1, <2>2, <2>3, GotoKeeps
<1>3. CASE ~Page(t).open
  BY <1>1, <1>3, RaiseKeeps DEF Enter
<1> QED
  BY <1>2, <1>3

\* What the tools do to a tab.
LEMMA Observing ==
    ASSUME LeaseInv, NEW x \in Tabs, Observed(x)
    PROVE  Grows /\ tab'[x].doc = tab[x].doc
<1> DEFINE p == [tab[x] EXCEPT !.seen = TRUE]
<1>1. tab' = [tab EXCEPT ![x] = p]
  BY DEF Observed
<1>2. tab[x] \in TabState /\ \A y \in Tabs: tab[y].doc \in Nat
  BY Holds, BoundsAssumption DEF TabState
<1>3. p \in TabState /\ p.doc = tab[x].doc /\ p.open = tab[x].open
  BY <1>2 DEF TabState
<1> HIDE DEF p
<1>4. tab'[x] = p /\ \A y \in Tabs \ {x}: tab'[y] = tab[y]
  BY <1>1, Holds
<1>5. tab' \in [Tabs -> TabState]
  BY <1>1, <1>3, Holds
<1> QED
  BY <1>2, <1>3, <1>4, <1>5, Holds DEF Grows

LEMMA Navigating ==
    ASSUME LeaseInv, NEW x \in Tabs, tab[x].doc < MaxDocs,
           tab' = [tab EXCEPT ![x].doc = @ + 1, ![x].seen = FALSE]
    PROVE  Grows
<1> DEFINE p == [tab[x] EXCEPT !.doc = @ + 1, !.seen = FALSE]
<1>1. tab' = [tab EXCEPT ![x] = p]
  OBVIOUS
<1>2. tab[x] \in TabState /\ \A y \in Tabs: tab[y].doc \in Nat
  BY Holds, BoundsAssumption DEF TabState
<1>3. p \in TabState /\ p.doc = tab[x].doc + 1
  <2>1. tab[x].doc \in 0..MaxDocs /\ MaxDocs \in Nat
    BY <1>2, BoundsAssumption DEF TabState
  <2>2. tab[x].doc + 1 \in 0..MaxDocs
    BY <2>1
  <2> QED
    BY <1>2, <2>2 DEF TabState
<1> HIDE DEF p
<1>4. tab'[x] = p /\ \A y \in Tabs \ {x}: tab'[y] = tab[y]
  BY <1>1, Holds
<1>5. tab' \in [Tabs -> TabState]
  BY <1>1, <1>3, Holds
<1> QED
  BY <1>2, <1>3, <1>4, <1>5, Holds DEF Grows

LEMMA Closing ==
    ASSUME LeaseInv, NEW x \in Tabs, tab' = [tab EXCEPT ![x].open = FALSE]
    PROVE  Grows
<1> DEFINE p == [tab[x] EXCEPT !.open = FALSE]
<1>1. tab' = [tab EXCEPT ![x] = p]
  OBVIOUS
<1>2. tab[x] \in TabState /\ \A y \in Tabs: tab[y].doc \in Nat
  BY Holds, BoundsAssumption DEF TabState
<1>3. p \in TabState /\ p.doc = tab[x].doc /\ p.open = FALSE
  BY <1>2 DEF TabState
<1> HIDE DEF p
<1>4. tab'[x] = p /\ \A y \in Tabs \ {x}: tab'[y] = tab[y]
  BY <1>1, Holds
<1>5. tab' \in [Tabs -> TabState]
  BY <1>1, <1>3, Holds
<1> QED
  BY <1>2, <1>3, <1>4, <1>5, Holds DEF Grows

LEMMA FailsKeeps ==
    ASSUME LeaseInv, NEW t \in Threads, Fails(t)
    PROVE  LeaseInv'
<1>1. Busy(t) /\ Top(t).pc \in {"run", "busy", "acted"} /\ Raise(t) /\ UNCHANGED <<lock, lease>>
  BY DEF Fails
<1>2. Grows
  BY <1>1, SameTabs, Observing, HasStack DEF Fails
<1> QED
  BY <1>1, <1>2, RaiseKeeps

\* The tool on top goes on to another point inside its lease, or before it.
LEMMA GotoSteps ==
    ASSUME LeaseInv, NEW t \in Threads, Busy(t), Grows, UNCHANGED <<lock, lease>>,
           \/ Top(t).f = "act" /\ Top(t).pc = "run" /\ Goto(t, "acted")
           \/ Top(t).f # "observe" /\ Top(t).pc = "run" /\ Goto(t, "unmark")
           \/ Top(t).f = "do" /\ Top(t).pc = "run" /\ Goto(t, "busy")
           \/ Top(t).f = "do" /\ Top(t).pc = "busy" /\ Goto(t, "end")
           \/ Top(t).f = "do" /\ Top(t).pc = "end" /\ Goto(t, "unmark")
           \/ Top(t).f = "do" /\ Top(t).pc = "created" /\ Goto(t, "target")
           \/ Top(t).pc = "created" /\ Goto(t, "return")
    PROVE  LeaseInv'
<1>1. \A P \in {Holding, Marked}: /\ {"run", "acted", "unmark", "busy", "end"} \subseteq P
                                  /\ {"target", "created", "return"} \cap P = {}
  BY Points DEF Waiting
<1>2. Top(t).pc = "created" => Len(thr[t].stack) = 1
  BY HasStack, StackFacts
<1>3. CASE Top(t).f = "act" /\ Top(t).pc = "run" /\ Goto(t, "acted")
  <2>1. "acted" \in Pcs \ {"rank", "created", "release"} /\ "acted" \notin {"return", "unmark"} /\ "acted" \notin Looking
    BY DEF Pcs, Looking
  <2> QED
    BY <1>1, <1>3, <2>1, GotoKeeps
<1>4. CASE Top(t).pc \in {"run", "end"} /\ Top(t).f # "observe" /\ Goto(t, "unmark")
  <2>1. "unmark" \in Pcs \ {"rank", "created", "release"} /\ "unmark" # "return" /\ "unmark" \notin Looking
    BY DEF Pcs, Looking
  <2> QED
    BY <1>1, <1>4, <2>1, GotoKeeps
<1>5. CASE Top(t).f = "do" /\ Top(t).pc = "run" /\ Goto(t, "busy")
  <2>1. "busy" \in Pcs \ {"rank", "created", "release"} /\ "busy" \notin {"return", "unmark"} /\ "busy" \notin Looking
    BY DEF Pcs, Looking
  <2> QED
    BY <1>1, <1>5, <2>1, GotoKeeps
<1>6. CASE Top(t).f = "do" /\ Top(t).pc = "busy" /\ Goto(t, "end")
  <2>1. "end" \in Pcs \ {"rank", "created", "release"} /\ "end" \notin {"return", "unmark"} /\ "end" \notin Looking
    BY DEF Pcs, Looking
  <2> QED
    BY <1>1, <1>6, <2>1, GotoKeeps
<1>7. CASE Top(t).f = "do" /\ Top(t).pc = "created" /\ Goto(t, "target")
  <2>1. "target" \in Pcs \ {"rank", "created", "release"} /\ "target" \notin {"return", "unmark"}
    BY DEF Pcs
  <2> QED
    BY <1>1, <1>7, <2>1, GotoKeeps
<1>8. CASE Top(t).pc = "created" /\ Goto(t, "return")
  <2>1. "return" \in Pcs \ {"rank", "created", "release"} /\ "return" # "unmark" /\ "return" \notin Looking
    BY DEF Pcs, Looking
  <2> QED
    BY <1>1, <1>2, <1>8, <2>1, GotoKeeps
<1> QED
  BY <1>3, <1>4, <1>5, <1>6, <1>7, <1>8

\* The tool on top calls f and waits at p.
CalledStack(t, f, p) == <<[f |-> f, pc |-> "target"], [thr[t].stack[1] EXCEPT !.pc = p]>> \o Tail(thr[t].stack)

LEMMA CallStack ==
    ASSUME LeaseInv, NEW t \in Threads, Busy(t), NEW f \in Callees(Top(t).f), NEW p, Waits(thr[t].stack, p)
    PROVE  /\ Stack(CalledStack(t, f, p)) /\ CalledStack(t, f, p) \in Seq(Frame)
           /\ CalledStack(t, f, p)[1].f = f /\ CalledStack(t, f, p)[1].pc = "target"
           /\ \A P \in {Holding, Marked}: Count(CalledStack(t, f, p), P) = Count(thr[t].stack, P)
           /\ f # "find" /\ (Top(t).f = "find" => Top(t).pc \in Looking) =>
                 (Looks(CalledStack(t, f, p)) => Looks(thr[t].stack))
           /\ Len(CalledStack(t, f, p)) = Len(thr[t].stack) + 1
<1> DEFINE s == thr[t].stack
           q == CalledStack(t, f, p)
<1>1. Stack(s) /\ Top(t) = s[1]
  BY HasStack
<1>2. q = <<[f |-> f, pc |-> "target"], [s[1] EXCEPT !.pc = p]>> \o Tail(s)
  BY DEF CalledStack
<1>3. Waits(s, p) /\ f \in Callees(s[1].f)
  BY <1>1
<1> HIDE DEF s, q
<1>4. PICK c: /\ c = <<[f |-> f, pc |-> "target"], [s[1] EXCEPT !.pc = p]>> \o Tail(s)
              /\ Stack(c) /\ Pushed(c, s, f, p)
              /\ \A P \in {Holding, Marked}: Count(c, P) = Count(s, P)
  BY <1>1, <1>3, TopCalls
<1>5. Stack(q) /\ Pushed(q, s, f, p) /\ \A P \in {Holding, Marked}: Count(q, P) = Count(s, P)
  BY <1>2, <1>4
<1>6. ASSUME f # "find", s[1].f = "find" => s[1].pc \in Looking, Looks(q) PROVE Looks(s)
  <2>1. Len(q) = Len(s) + 1 /\ Len(s) \in Nat /\ Len(s) >= 1
    BY <1>1, <1>5, Lengths DEF Pushed
  <2>2. PICK i \in 1..(Len(q) - 1): q[i].f = "find" /\ q[i].pc \in Looking
    BY <1>6 DEF Looks
  <2>3. CASE i = 1
    BY <1>5, <1>6, <2>2, <2>3 DEF Pushed
  <2>4. CASE i = 2
    <3>1. s[1].f = "find" /\ 1 \in 1..(Len(s) - 1)
      BY <1>5, <2>1, <2>2, <2>4 DEF Pushed
    <3> QED
      BY <1>6, <3>1 DEF Looks
  <2>5. CASE i > 2
    <3>1. i \in 3..(Len(s) + 1) /\ i - 1 \in 1..(Len(s) - 1)
      BY <2>1, <2>5
    <3>2. q[i] = s[i - 1]
      BY <1>5, <3>1 DEF Pushed
    <3> QED
      BY <2>2, <3>1, <3>2 DEF Looks
  <2> QED
    BY <2>3, <2>4, <2>5
<1> QED
  BY <1>1, <1>5, <1>6 DEF Pushed, s, q

\* A tool is called.
LEMMA CallsKeep ==
    ASSUME LeaseInv, NEW t \in Threads, Busy(t), NEW f \in Callees(Top(t).f), NEW p, Waits(thr[t].stack, p),
           NEW n \in ThreadState, thr' = [thr EXCEPT ![t] = n],
           n.stack = CalledStack(t, f, p), n.tab = thr[t].tab, n.raised = FALSE, n.ran = FALSE,
           Grows, UNCHANGED <<lock, lease>>, ElementInv(t)'
    PROVE  LeaseInv'
<1> DEFINE q == CalledStack(t, f, p)
<1>1. /\ Stack(q) /\ q[1].f = f /\ q[1].pc = "target"
      /\ \A P \in {Holding, Marked}: Count(q, P) = Count(thr[t].stack, P)
      /\ f # "find" /\ (Top(t).f = "find" => Top(t).pc \in Looking) => (Looks(q) => Looks(thr[t].stack))
  BY CallStack
<1>2. n.stack = q
  OBVIOUS
<1> HIDE DEF q
<1>3. thr'[t] = n
  BY Holds
<1>4. CallInv(t)'
  BY <1>1, <1>2, <1>3, CallAfter
<1> QED
  BY <1>1, <1>2, <1>4, QuietSteps

\* Nothing else is done.
Carries(n, t) ==
    /\ n.tab = thr[t].tab /\ n.els = thr[t].els /\ n.saw = thr[t].saw /\ n.given = thr[t].given
    /\ n.inferred = thr[t].inferred /\ n.queries = thr[t].queries
    /\ n.raised = FALSE /\ n.ran = FALSE

\* CallTool, as it is used by tools that have not raised.
LEMMA CalledThread ==
    ASSUME LeaseInv, NEW t \in Threads, Busy(t), NEW f \in Callees(Top(t).f), NEW p, Waits(thr[t].stack, p)
    PROVE  /\ CallTool(t, f, p) \in ThreadState /\ CallTool(t, f, p).stack = CalledStack(t, f, p)
           /\ CallTool(t, f, p).tab = thr[t].tab /\ CallTool(t, f, p).saw = thr[t].saw
           /\ CallTool(t, f, p).raised = FALSE /\ CallTool(t, f, p).acts = thr[t].acts
           /\ Top(t).pc # "acted" => Carries(CallTool(t, f, p), t)
<1> DEFINE q == CalledStack(t, f, p)
           n == CallTool(t, f, p)
<1>1. n = [thr[t] EXCEPT !.stack = q]
  BY DEF CallTool, CalledStack
<1>2. q \in Seq(Frame)
  BY CallStack
<1>3. thr[t].raised = FALSE /\ (Top(t).pc # "acted" => thr[t].ran = FALSE)
  <2>1. Top(t).pc \notin {"unmark", "release"}
    BY HasStack DEF Waits
  <2> QED
    BY <2>1, NotRaised
<1>4. thr[t] \in ThreadState
  BY Holds
<1> HIDE DEF q, n
<1>5. /\ n \in ThreadState /\ n.stack = q
      /\ n.tab = thr[t].tab /\ n.els = thr[t].els
      /\ n.saw = thr[t].saw /\ n.given = thr[t].given
      /\ n.inferred = thr[t].inferred /\ n.queries = thr[t].queries
      /\ n.raised = thr[t].raised /\ n.acts = thr[t].acts
      /\ n.ran = thr[t].ran
  BY <1>1, <1>2, <1>4 DEF ThreadState
<1>6. Top(t).pc # "acted" => Carries(n, t)
  BY <1>3, <1>5 DEF Carries
<1> QED
  BY <1>3, <1>5, <1>6 DEF q, n

LEMMA CalledKeeps ==
    ASSUME LeaseInv, NEW t \in Threads, Busy(t), NEW f \in Callees(Top(t).f), NEW p, Waits(thr[t].stack, p),
           f # "find", Top(t).f = "find" => Top(t).pc \in Looking, Grows, UNCHANGED <<lock, lease>>,
           NEW n \in ThreadState, thr' = [thr EXCEPT ![t] = n],
           n.stack = CalledStack(t, f, p), Carries(n, t)
    PROVE  LeaseInv'
<1>1. /\ Stack(n.stack) /\ n.stack[1].pc = "target"
      /\ Looks(n.stack) => Looks(thr[t].stack)
      /\ \A P \in {Holding, Marked}: Count(n.stack, P) = Count(thr[t].stack, P)
  BY CallStack
<1>2. ElementInv(t)'
  <2>1. thr'[t] = n
    BY Holds
  <2>2. n.stack[1].pc \notin {"rank", "unmark", "release"}
    BY <1>1
  <2> QED
    BY <1>1, <2>1, <2>2, ElementsAfter DEF Carries
<1>3. n.tab = thr[t].tab /\ n.raised = FALSE /\ n.ran = FALSE
  BY DEF Carries
<1>4. CallInv(t)'
  <2>1. thr'[t] = n
    BY Holds
  <2> QED
    BY <1>1, <1>3, <2>1, CallAfter
<1> QED
  BY <1>1, <1>2, <1>3, <1>4, QuietSteps

LEMMA CallToolKeeps ==
    ASSUME LeaseInv, NEW t \in Threads, Busy(t), NEW f \in Callees(Top(t).f), NEW p, Waits(thr[t].stack, p),
           f # "find", Top(t).f = "find" => Top(t).pc \in Looking, Top(t).pc # "acted",
           thr' = [thr EXCEPT ![t] = CallTool(t, f, p)], Grows, UNCHANGED <<lock, lease>>
    PROVE  LeaseInv'
<1> DEFINE n == CallTool(t, f, p)
<1>1. n \in ThreadState /\ n.stack = CalledStack(t, f, p) /\ Carries(n, t)
  BY CalledThread
<1>2. thr' = [thr EXCEPT ![t] = n]
  OBVIOUS
<1> HIDE DEF n
<1> QED
  BY <1>1, <1>2, CalledKeeps

\* Which tools call which.
LEMMA Calling ==
    /\ {"act", "open", "activate", "observe", "close"} \subseteq Callees("do")
    /\ {"find", "observe"} \subseteq Callees("act") /\ "observe" \in Callees("find")
    /\ "activate" \in Callees("open")
BY DEF Callees

LEMMA CreatedKeeps ==
    ASSUME LeaseInv, NEW t \in Threads, NEW b \in BOOLEAN, Created(t, b)
    PROVE  LeaseInv'
<1> DEFINE next == IF Top(t).f = "do" THEN "target" ELSE "return"
<1>1. Busy(t) /\ Top(t).pc = "created" /\ UNCHANGED <<lock, lease>> /\ Grows
  BY SameTabs DEF Created, At
<1>2. CASE b
  <2>1. thr' = [thr EXCEPT ![t] = CallTool(t, "activate", next)]
    BY <1>2 DEF Created
  <2>2. Top(t).f \in {"do", "open"}
    BY <1>1, HasStack DEF CallInv, At
  <2>3. Waits(thr[t].stack, next) /\ "activate" \in Callees(Top(t).f) /\ Top(t).f # "find"
    BY <1>1, <2>2, HasStack, Calling DEF Waits
  <2> HIDE DEF next
  <2> QED
    BY <1>1, <2>1, <2>3, CallToolKeeps
<1>3. CASE ~b
  <2>1. Goto(t, next)
    BY <1>3 DEF Created
  <2> QED
    BY <1>1, <2>1, GotoSteps
<1> QED
  BY <1>2, <1>3

LEMMA FindRunsKeeps ==
    ASSUME LeaseInv, NEW t \in Threads, FindRuns(t)
    PROVE  LeaseInv'
<1>1. /\ Busy(t) /\ Top(t).f = "find" /\ Top(t).pc = "run" /\ UNCHANGED <<lock, lease>> /\ Grows
      /\ thr' = [thr EXCEPT ![t] = CallTool(t, "observe", "rank")]
  BY SameTabs DEF FindRuns, At, In
<1>2. Waits(thr[t].stack, "rank") /\ "observe" \in Callees(Top(t).f) /\ "run" \in Looking
  BY <1>1, HasStack, Calling DEF Waits, Waiting, Looking
<1> QED
  BY <1>1, <1>2, CallToolKeeps

LEMMA OpenRunsKeeps ==
    ASSUME LeaseInv, NEW t \in Threads, NEW b \in BOOLEAN, OpenRuns(t, b)
    PROVE  LeaseInv'
<1>1. Busy(t) /\ Top(t).f = "open" /\ Top(t).pc = "run" /\ UNCHANGED <<lock, lease>>
  BY DEF OpenRuns, At, In
<1>2. Grows
  BY <1>1, SameTabs, Navigating, HasStack DEF OpenRuns, MayNavigate
<1>3. CASE b
  <2>1. thr' = [thr EXCEPT ![t] = CallTool(t, "activate", "unmark")]
    BY <1>3 DEF OpenRuns
  <2>2. Waits(thr[t].stack, "unmark") /\ "activate" \in Callees(Top(t).f)
    BY <1>1, HasStack, Calling DEF Waits, Waiting
  <2> QED
    BY <1>1, <1>2, <2>1, <2>2, CallToolKeeps
<1>4. CASE ~b
  BY <1>1, <1>2, <1>4, GotoSteps DEF OpenRuns
<1> QED
  BY <1>3, <1>4

LEMMA DoOpensKeeps ==
    ASSUME LeaseInv, NEW t \in Threads, DoOpens(t)
    PROVE  LeaseInv'
<1>1. Busy(t) /\ Top(t).f = "do" /\ Top(t).pc = "run" /\ UNCHANGED <<lock, lease>> /\ Grows
  BY SameTabs DEF DoOpens, At, In
<1>2. CASE Goto(t, "busy")
  BY <1>1, <1>2, GotoSteps
<1>3. CASE thr' = [thr EXCEPT ![t] = CallTool(t, "open", "busy")]
  <2>1. Waits(thr[t].stack, "busy") /\ "open" \in Callees(Top(t).f)
    BY <1>1, HasStack, Calling DEF Waits, Waiting
  <2> QED
    BY <1>1, <1>3, <2>1, CallToolKeeps
<1> QED
  BY <1>2, <1>3 DEF DoOpens

LEMMA DoObservesKeeps ==
    ASSUME LeaseInv, NEW t \in Threads, DoObserves(t)
    PROVE  LeaseInv'
<1>1. Busy(t) /\ Top(t).f = "do" /\ Top(t).pc = "busy" /\ UNCHANGED <<lock, lease>> /\ Grows
  BY SameTabs DEF DoObserves, At, In
<1>2. CASE Goto(t, "end")
  BY <1>1, <1>2, GotoSteps
<1>3. CASE thr' = [thr EXCEPT ![t] = CallTool(t, "observe", "end")]
  <2>1. Waits(thr[t].stack, "end") /\ "observe" \in Callees(Top(t).f)
    BY <1>1, HasStack, Calling DEF Waits, Waiting
  <2> QED
    BY <1>1, <1>3, <2>1, CallToolKeeps
<1> QED
  BY <1>2, <1>3 DEF DoObserves

LEMMA ActivateRunsKeeps ==
    ASSUME LeaseInv, NEW t \in Threads, ActivateRuns(t)
    PROVE  LeaseInv'
<1>1. /\ Busy(t) /\ Top(t).f = "activate" /\ Top(t).pc = "run" /\ Goto(t, "unmark")
      /\ UNCHANGED <<lock, lease>> /\ Grows
  BY SameTabs DEF ActivateRuns, At, In
<1> QED
  BY <1>1, GotoSteps

LEMMA CloseRunsKeeps ==
    ASSUME LeaseInv, NEW t \in Threads, CloseRuns(t)
    PROVE  LeaseInv'
<1>1. Busy(t) /\ Top(t).f = "close" /\ Top(t).pc = "run" /\ Goto(t, "unmark") /\ UNCHANGED <<lock, lease>>
  BY DEF CloseRuns, At, In
<1>2. Grows
  BY <1>1, Closing, HasStack DEF CloseRuns
<1> QED
  BY <1>1, <1>2, GotoSteps

LEMMA ActStaleKeeps ==
    ASSUME LeaseInv, NEW t \in Threads, ActStale(t)
    PROVE  LeaseInv'
<1>1. /\ Busy(t) /\ Top(t).f = "act" /\ Top(t).pc = "run" /\ Goto(t, "acted")
      /\ UNCHANGED <<lock, lease>> /\ Grows
  BY SameTabs DEF ActStale, At, In
<1> QED
  BY <1>1, GotoSteps

LEMMA DoActsKeeps ==
    ASSUME LeaseInv, NEW t \in Threads, DoActs(t)
    PROVE  LeaseInv'
<1>0. PICK b \in BOOLEAN:
         thr' = [thr EXCEPT ![t] = [CallTool(t, "act", "busy") EXCEPT !.acts = @ + 1, !.bare = b]]
  BY DEF DoActs
<1>1. /\ Busy(t) /\ Top(t).f = "do" /\ Top(t).pc = "busy" /\ UNCHANGED <<lock, lease>> /\ Grows
      /\ thr' = [thr EXCEPT ![t] = [CallTool(t, "act", "busy") EXCEPT !.acts = @ + 1, !.bare = b]]
  BY <1>0, SameTabs DEF DoActs, At, In
<1>2. Waits(thr[t].stack, "busy") /\ "act" \in Callees(Top(t).f)
  BY <1>1, HasStack, Calling DEF Waits, Waiting
<1> DEFINE m == CallTool(t, "act", "busy")
           n == [m EXCEPT !.acts = @ + 1, !.bare = b]
<1>3. /\ m \in ThreadState /\ m.stack = CalledStack(t, "act", "busy") /\ Carries(m, t)
      /\ m.acts = thr[t].acts
  BY <1>1, <1>2, CalledThread
<1>4. thr' = [thr EXCEPT ![t] = n]
  BY <1>1
<1> HIDE DEF m
<1>5. n \in ThreadState /\ n.stack = m.stack /\ Carries(n, t)
  <2>1. m.acts + 1 \in 0..MaxActions
    <3>1. thr[t].acts < MaxActions /\ thr[t].acts \in 0..MaxActions /\ MaxActions \in Nat
      BY Holds, BoundsAssumption DEF DoActs, ThreadState
    <3> QED
      BY <1>3, <3>1
  <2>2. /\ n \in ThreadState /\ n.stack = m.stack /\ n.tab = m.tab /\ n.els = m.els /\ n.saw = m.saw
        /\ n.given = m.given /\ n.inferred = m.inferred /\ n.queries = m.queries
        /\ n.raised = m.raised /\ n.ran = m.ran
    BY <1>3, <2>1 DEF ThreadState
  <2> HIDE DEF n
  <2> QED
    BY <1>3, <2>2 DEF Carries
<1> HIDE DEF n
<1> QED
  BY <1>1, <1>2, <1>3, <1>4, <1>5, CalledKeeps

LEMMA DoEndsKeeps ==
    ASSUME LeaseInv, NEW t \in Threads, DoEnds(t)
    PROVE  LeaseInv'
<1>1. Busy(t) /\ Top(t).f = "do" /\ Top(t).pc = "end" /\ UNCHANGED <<lock, lease>> /\ Grows
  BY SameTabs DEF DoEnds, At, In
<1>2. CASE Goto(t, "unmark")
  BY <1>1, <1>2, GotoSteps
<1>3. CASE thr' = [thr EXCEPT ![t] = CallTool(t, "close", "unmark")]
  <2>1. Waits(thr[t].stack, "unmark") /\ "close" \in Callees(Top(t).f)
    BY <1>1, HasStack, Calling DEF Waits, Waiting
  <2> QED
    BY <1>1, <1>3, <2>1, CallToolKeeps
<1> QED
  BY <1>2, <1>3 DEF DoEnds

LEMMA ActResolvesKeeps ==
    ASSUME LeaseInv, NEW t \in Threads, ActResolves(t)
    PROVE  LeaseInv'
<1>1. /\ Busy(t) /\ Top(t).f = "act" /\ Top(t).pc = "run" /\ UNCHANGED <<lock, lease>> /\ Grows
      /\ thr' = [thr EXCEPT ![t] = [CallTool(t, "find", "run") EXCEPT !.queries = @ + 1]]
  BY SameTabs DEF ActResolves, At, In
<1>2. Waits(thr[t].stack, "run") /\ "find" \in Callees(Top(t).f)
  BY <1>1, HasStack, Calling DEF Waits, Waiting
<1> DEFINE m == CallTool(t, "find", "run")
           n == [m EXCEPT !.queries = @ + 1]
<1>3. m \in ThreadState /\ m.stack = CalledStack(t, "find", "run") /\ Carries(m, t)
  BY <1>1, <1>2, CalledThread
<1>4. thr' = [thr EXCEPT ![t] = n]
  BY <1>1
<1> HIDE DEF m
<1>5. /\ n \in ThreadState /\ n.stack = CalledStack(t, "find", "run") /\ n.tab = thr[t].tab
      /\ n.els = thr[t].els /\ n.saw = thr[t].saw /\ n.given = thr[t].given
      /\ n.queries = thr[t].queries + 1 /\ n.raised = FALSE /\ n.ran = FALSE
  <2>1. m.queries + 1 \in 0..MaxQueries
    <3>1. thr[t].queries < MaxQueries /\ thr[t].queries \in 0..MaxQueries /\ MaxQueries \in Nat
      BY Holds, BoundsAssumption DEF ActResolves, ThreadState
    <3> QED
      BY <1>3, <3>1 DEF Carries
  <2>2. /\ n \in ThreadState /\ n.stack = m.stack /\ n.tab = m.tab /\ n.els = m.els /\ n.saw = m.saw
        /\ n.given = m.given /\ n.queries = m.queries + 1
        /\ n.raised = m.raised /\ n.ran = m.ran
    BY <1>3, <2>1 DEF ThreadState
  <2> HIDE DEF n
  <2> QED
    BY <1>3, <2>2 DEF Carries
<1> HIDE DEF n
<1>6. Stack(n.stack) /\ n.stack[1].pc = "target"
  BY <1>1, <1>2, <1>5, CallStack
<1>7. ElementInv(t)'
  <2>1. thr'[t] = n
    BY <1>4, Holds
  <2>2. n.stack[1].pc \notin {"rank", "unmark", "release"}
    BY <1>6
  <2>3. /\ n.given <= tab'[n.tab].doc
        /\ \A d \in n.els \cup ({n.saw} \ {0}): n.given <= d /\ d <= tab'[n.tab].doc
    BY <1>1, <1>5, Elements
  <2>4. /\ n.queries # 0 /\ n.queries > 0
        /\ n.given = 0 /\ n.queries = 1 => n.els = {}
    BY <1>1, <1>5, Elements
  <2> QED
    BY <1>5, <1>6, <2>1, <2>2, <2>3, <2>4, ElementsHold
<1> QED
  BY <1>1, <1>2, <1>4, <1>5, <1>7, CallsKeep

\* A tool that is not called by browser_find is at its own end.
LEMMA NotUnderFind ==
    ASSUME LeaseInv, NEW t \in Threads, Busy(t), Top(t).f # "observe"
    PROVE  ~Within(t, "find") /\ ~(Len(thr[t].stack) > 1 /\ thr[t].stack[2].f = "find")
<1>1. Stack(thr[t].stack) /\ Top(t) = thr[t].stack[1]
  BY HasStack
<1>2. ASSUME Len(thr[t].stack) > 1, thr[t].stack[2].f = "find" PROVE FALSE
  <2>1. 2 \in 1..Len(thr[t].stack)
    BY <1>1, <1>2, Lengths
  <2> QED
    BY <1>1, <1>2, <2>1, Finders
<1> QED
  BY <1>2 DEF Within

\* The tool on top goes on to p, which has the lease as where it comes from has, and changes more.
LEMMA TurnsKeep ==
    ASSUME LeaseInv, NEW t \in Threads, Busy(t), NEW p \in {"unmark", "acted"},
           Top(t).pc \in {"run", "acted", "rank"}, Grows, UNCHANGED <<lock, lease>>,
           NEW n \in ThreadState, thr' = [thr EXCEPT ![t] = n],
           n.stack = GoesOn(thr[t].stack, p), n.tab = thr[t].tab, n.raised = FALSE,
           n.ran => p = "acted", ElementInv(t)'
    PROVE  LeaseInv'
<1>1. p \in Pcs \ {"created"} /\ p # "return"
  BY DEF Pcs
<1>2. /\ Stack(n.stack) /\ n.stack[1].pc = p
      /\ \A P \in {Holding, Marked}: Count(n.stack, P) = Count(thr[t].stack, P) - In1(Top(t).pc, P) + In1(p, P)
  BY <1>1, MovedStack
<1>3. CallInv(t)'
  <2>1. thr'[t] = n
    BY Holds
  <2> QED
    BY <1>2, <2>1, CallAfter
<1>4. ASSUME NEW P \in {Holding, Marked} PROVE Count(n.stack, P) = Count(thr[t].stack, P)
  <2>1. In1(Top(t).pc, P) = 1 /\ In1(p, P) = 1
    BY Points DEF In1, Waiting
  <2>2. Count(thr[t].stack, P) \in 0..4
    BY HasStack, CountRange
  <2> QED
    BY <1>2, <2>1, <2>2
<1> QED
  BY <1>3, <1>4, QuietSteps

LEMMA ActRunsKeeps ==
    ASSUME LeaseInv, NEW t \in Threads, ActRuns(t)
    PROVE  LeaseInv'
<1>1. /\ Busy(t) /\ Top(t).f = "act" /\ Top(t).pc = "run" /\ UNCHANGED <<lock, lease>>
      /\ MayNavigate(thr[t].tab)
      /\ thr' = [thr EXCEPT ![t].stack[1].pc = "acted", ![t].ran = TRUE]
  BY DEF ActRuns, ActPage, At, In
<1>2. Grows
  BY <1>1, SameTabs, Navigating, HasStack DEF MayNavigate
<1> DEFINE q == GoesOn(thr[t].stack, "acted")
           n == [thr[t] EXCEPT !.stack = q, !.ran = TRUE]
<1>3. thr' = [thr EXCEPT ![t] = n]
  BY <1>1 DEF GoesOn
<1>4. /\ Stack(q) /\ q[1].pc = "acted" /\ Len(q) = Len(thr[t].stack)
      /\ \A i \in 2..Len(q): q[i] = thr[t].stack[i]
      /\ Looks(q) => Looks(thr[t].stack)
  <2>1. "acted" \in Pcs \ {"created"} /\ "acted" # "return" /\ "acted" \notin Looking
    BY DEF Pcs, Looking
  <2> QED
    BY <1>1, <2>1, MovedStack
<1>5. /\ n \in ThreadState /\ n.stack = q /\ n.tab = thr[t].tab /\ n.els = thr[t].els
      /\ n.saw = thr[t].saw /\ n.given = thr[t].given /\ n.inferred = thr[t].inferred
      /\ n.queries = thr[t].queries /\ n.raised = thr[t].raised
  <2>1. thr[t] \in ThreadState /\ q \in Seq(Frame)
    BY <1>4, Holds DEF Stack
  <2> HIDE DEF q
  <2> QED
    BY <2>1 DEF ThreadState
<1>6. n.raised = FALSE
  BY <1>1, <1>5, NotRaised
<1> HIDE DEF n, q
<1>7. ElementInv(t)'
  <2>1. thr'[t] = n
    BY <1>3, Holds
  <2>2. n.stack[1].pc \notin {"rank", "unmark", "release"}
    BY <1>4, <1>5
  <2> QED
    BY <1>1, <1>2, <1>4, <1>5, <2>1, <2>2, ElementsAfter
<1> QED
  BY <1>1, <1>2, <1>3, <1>5, <1>6, <1>7, TurnsKeep DEF q

LEMMA NoFind ==
    ASSUME LeaseInv, NEW t \in Threads, Busy(t), Top(t).f \notin {"observe", "find"}
    PROVE  ~Looks(thr[t].stack)
<1>1. Stack(thr[t].stack) /\ Top(t) = thr[t].stack[1]
  BY HasStack
<1>2. ASSUME NEW i \in 1..(Len(thr[t].stack) - 1), thr[t].stack[i].f = "find" PROVE FALSE
  <2>1. i \in 1..Len(thr[t].stack)
    BY <1>1, Lengths
  <2> QED
    BY <1>1, <1>2, <2>1, Finders
<1> QED
  BY <1>2 DEF Looks

\* The end of a batch.
Cleared(n, m) ==
    /\ n.stack = m.stack /\ n.tab = m.tab /\ n.raised = m.raised /\ n.saw = m.saw
    /\ n.els = {} /\ n.given = 0 /\ n.inferred = 0 /\ n.ran = FALSE /\ n.queries = 0

LEMMA Clears ==
    ASSUME NEW m \in ThreadState
    PROVE  \E n \in ThreadState:
              /\ n = [m EXCEPT !.els = {}, !.bare = FALSE, !.given = 0, !.inferred = 0,
               !.ran = FALSE, !.queries = 0]
              /\ Cleared(n, m)
<1> DEFINE n == [m EXCEPT !.els = {}, !.bare = FALSE, !.given = 0, !.inferred = 0,
               !.ran = FALSE, !.queries = 0]
<1>1. 0 \in 0..MaxDocs /\ 0 \in 0..MaxQueries /\ {} \in SUBSET (1..MaxDocs) /\ FALSE \in BOOLEAN
  BY BoundsAssumption
<1>2. n \in ThreadState
  BY <1>1 DEF ThreadState
<1>3. Cleared(n, m)
  BY DEF ThreadState, Cleared
<1> HIDE DEF n
<1>4. n = [m EXCEPT !.els = {}, !.bare = FALSE, !.given = 0, !.inferred = 0,
               !.ran = FALSE, !.queries = 0]
  BY DEF n
<1> QED
  BY <1>2, <1>3, <1>4

LEMMA ClearedElements ==
    ASSUME LeaseInv, NEW t \in Threads, Busy(t), Grows, NEW n \in ThreadState, thr'[t] = n,
           NEW m \in ThreadState, Cleared(n, m), m.tab = thr[t].tab, m.saw = thr[t].saw,
           Stack(m.stack), ~Looks(m.stack), m.stack[1].pc # "rank",
           m.stack[1].pc = "unmark" => ~(Len(m.stack) > 1 /\ m.stack[2].f = "find"),
           m.stack[1].pc \in {"target", "unmark"}
    PROVE  ElementInv(t)'
<1>1. /\ n.given <= tab'[n.tab].doc
      /\ \A d \in n.els \cup ({n.saw} \ {0}): n.given <= d /\ d <= tab'[n.tab].doc
  <2>1. n.given = 0 /\ n.els = {} /\ n.saw = thr[t].saw /\ n.tab = thr[t].tab
    BY DEF Cleared
  <2> QED
    BY <2>1, Elements
<1>2. /\ n.stack = m.stack /\ n.queries = 0 /\ n.els = {}
  BY DEF Cleared
<1> QED
  BY <1>1, <1>2, ElementsHold

LEMMA ActEndsKeeps ==
    ASSUME LeaseInv, NEW t \in Threads, NEW b \in BOOLEAN, ActEnds(t, b)
    PROVE  LeaseInv'
<1>1. Busy(t) /\ Top(t).f = "act" /\ Top(t).pc = "acted" /\ UNCHANGED <<lock, lease>> /\ Grows
  BY SameTabs DEF ActEnds, At, In
<1>2. thr[t].raised = FALSE /\ thr[t] \in ThreadState
  BY <1>1, NotRaised, Holds
<1>3. CASE b /\ ~Within(t, "do")
  <2> DEFINE m == CallTool(t, "observe", "unmark")
  <2>1. thr' = [thr EXCEPT ![t] = [m EXCEPT !.els = {}, !.bare = FALSE, !.given = 0, !.inferred = 0,
                                            !.ran = FALSE, !.queries = 0]]
    BY <1>3 DEF ActEnds
  <2>2. Waits(thr[t].stack, "unmark") /\ "observe" \in Callees(Top(t).f)
    BY <1>1, HasStack, Calling DEF Waits, Waiting
  <2>3. /\ m \in ThreadState /\ m.stack = CalledStack(t, "observe", "unmark") /\ m.raised = FALSE
        /\ m.tab = thr[t].tab /\ m.saw = thr[t].saw
    BY <1>1, <2>2, CalledThread
  <2> HIDE DEF m
  <2>4. PICK n \in ThreadState: thr' = [thr EXCEPT ![t] = n] /\ Cleared(n, m)
    BY <2>1, <2>3, Clears
  <2>5. Stack(m.stack) /\ m.stack[1].pc = "target" /\ ~Looks(m.stack)
    BY <1>1, <2>2, <2>3, CallStack, NoFind
  <2>6. thr'[t] = n
    BY <2>4, Holds
  <2>7. ElementInv(t)'
    BY <1>1, <2>3, <2>4, <2>5, <2>6, ClearedElements
  <2>8. n.stack = CalledStack(t, "observe", "unmark") /\ n.tab = thr[t].tab /\ n.raised = FALSE /\ n.ran = FALSE
    BY <2>3, <2>4 DEF Cleared
  <2> QED
    BY <1>1, <2>2, <2>4, <2>7, <2>8, CallsKeep
<1>4. CASE ~(b /\ ~Within(t, "do"))
  <2> DEFINE q == GoesOn(thr[t].stack, "unmark")
             m == [thr[t] EXCEPT !.stack = q]
  <2>1. thr' = [thr EXCEPT ![t] = [m EXCEPT !.els = {}, !.bare = FALSE, !.given = 0, !.inferred = 0,
                                            !.ran = FALSE, !.queries = 0]]
    <3>1. [thr[t] EXCEPT !.stack[1].pc = "unmark"] = m
      BY DEF GoesOn
    <3> QED
      BY <1>4, <3>1 DEF ActEnds
  <2>2. /\ Stack(q) /\ Len(q) = Len(thr[t].stack) /\ q[1].pc = "unmark"
        /\ \A i \in 2..Len(q): q[i] = thr[t].stack[i]
        /\ Looks(q) => Looks(thr[t].stack)
    <3>1. "unmark" \in Pcs \ {"created"} /\ "unmark" # "return" /\ "unmark" \notin Looking
      BY DEF Pcs, Looking
    <3> QED
      BY <1>1, <3>1, MovedStack
  <2>3. /\ m \in ThreadState /\ m.stack = q /\ m.raised = FALSE
        /\ m.tab = thr[t].tab /\ m.saw = thr[t].saw
    <3>1. q \in Seq(Frame)
      BY <2>2 DEF Stack
    <3> HIDE DEF q
    <3> QED
      BY <1>2, <3>1 DEF ThreadState
  <2> HIDE DEF m
  <2>4. PICK n \in ThreadState: thr' = [thr EXCEPT ![t] = n] /\ Cleared(n, m)
    BY <2>1, <2>3, Clears
  <2>5. /\ ~Looks(q) /\ ~(Len(q) > 1 /\ q[2].f = "find")
    <3>1. ~(Len(thr[t].stack) > 1 /\ thr[t].stack[2].f = "find") /\ ~Looks(thr[t].stack)
      BY <1>1, NotUnderFind, NoFind
    <3>2. Len(q) > 1 => q[2] = thr[t].stack[2]
      BY <2>2, Lengths
    <3> QED
      BY <2>2, <3>1, <3>2
  <2> HIDE DEF q
  <2>6. thr'[t] = n
    BY <2>4, Holds
  <2>7. ElementInv(t)'
    BY <1>1, <2>2, <2>3, <2>4, <2>5, <2>6, ClearedElements
  <2>8. n.stack = q /\ n.tab = thr[t].tab /\ n.raised = FALSE /\ n.ran = FALSE
    BY <2>3, <2>4 DEF Cleared
  <2> QED
    BY <1>1, <2>4, <2>7, <2>8, TurnsKeep DEF q
<1> QED
  BY <1>3, <1>4

LEMMA ObserveRunsKeeps ==
    ASSUME LeaseInv, NEW t \in Threads, ObserveRuns(t)
    PROVE  LeaseInv'
<1> DEFINE d == IF Within(t, "find") THEN Page(t).doc ELSE thr[t].saw
           q == GoesOn(thr[t].stack, "unmark")
           n == [thr[t] EXCEPT !.stack = q, !.saw = d]
<1>1. /\ Busy(t) /\ Top(t).f = "observe" /\ Top(t).pc = "run" /\ UNCHANGED <<lock, lease>>
      /\ Observed(thr[t].tab)
      /\ thr' = [thr EXCEPT ![t].stack[1].pc = "unmark", ![t].saw = d]
  BY DEF ObserveRuns, At, In
<1>2. Grows
  BY <1>1, Observing, HasStack
<1>3. thr' = [thr EXCEPT ![t] = n]
  BY <1>1 DEF GoesOn
<1>4. /\ Stack(q) /\ q[1].pc = "unmark" /\ Len(q) = Len(thr[t].stack)
      /\ \A i \in 2..Len(q): q[i] = thr[t].stack[i]
      /\ Looks(q) => Looks(thr[t].stack)
  <2>1. "unmark" \in Pcs \ {"created"} /\ "unmark" # "return" /\ "unmark" \notin Looking
    BY DEF Pcs, Looking
  <2> QED
    BY <1>1, <2>1, MovedStack
<1>5. /\ d \in 0..MaxDocs /\ (d # 0 => thr[t].given <= d /\ d <= tab'[thr[t].tab].doc)
      /\ Within(t, "find") => d # 0
  <2>1. CASE Within(t, "find")
    <3>1. d = tab[thr[t].tab].doc
      BY <2>1 DEF Page
    <3> HIDE DEF d
    <3>2. d \in Nat /\ d <= MaxDocs /\ d > 0 /\ MaxDocs \in Nat
      BY <1>1, <1>2, <3>1, Elements, BoundsAssumption
    <3> QED
      BY <1>1, <1>2, <3>1, <3>2, Elements
  <2>2. CASE ~Within(t, "find")
    <3>1. d = thr[t].saw
      BY <2>2
    <3> HIDE DEF d
    <3>2. thr[t].saw \in 0..MaxDocs
      BY Holds DEF ThreadState
    <3> QED
      BY <1>1, <1>2, <2>2, <3>1, <3>2, Elements
  <2> QED
    BY <2>1, <2>2
<1> HIDE DEF d
<1>6. /\ n \in ThreadState /\ n.stack = q /\ n.tab = thr[t].tab /\ n.els = thr[t].els
      /\ n.saw = d /\ n.given = thr[t].given /\ n.inferred = thr[t].inferred
      /\ n.queries = thr[t].queries /\ n.raised = thr[t].raised /\ n.ran = thr[t].ran
  <2>1. thr[t] \in ThreadState /\ q \in Seq(Frame)
    BY <1>4, Holds DEF Stack
  <2> HIDE DEF q
  <2> QED
    BY <1>5, <2>1 DEF ThreadState
<1>7. n.raised = FALSE /\ n.ran = FALSE
  BY <1>1, <1>6, NotRaised
<1> HIDE DEF n, q
<1>8. ElementInv(t)'
  <2>1. thr'[t] = n
    BY <1>3, Holds
  <2>2. /\ n.given <= tab'[n.tab].doc
        /\ \A e \in n.els \cup ({n.saw} \ {0}): n.given <= e /\ e <= tab'[n.tab].doc
    BY <1>1, <1>2, <1>5, <1>6, Elements
  <2>3. /\ thr[t].given = 0 /\ thr[t].queries = 0 => thr[t].els = {}
        /\ thr[t].given = 0 /\ thr[t].queries = 1 =>
              thr[t].els \subseteq (IF Looks(thr[t].stack) THEN {} ELSE {thr[t].inferred})
        /\ Looks(thr[t].stack) => thr[t].queries > 0
    BY <1>1, HasStack DEF ElementInv, Finding, Looks, Looking
  <2>4. /\ n.given = 0 /\ n.queries = 0 => n.els = {}
        /\ n.given = 0 /\ n.queries = 1 => n.els \subseteq (IF Looks(n.stack) THEN {} ELSE {n.inferred})
        /\ Looks(n.stack) => n.queries > 0
    BY <1>4, <1>6, <2>3
  <2>5. Len(n.stack) > 1 /\ n.stack[2].f = "find" => n.saw # 0
    <3>1. Len(n.stack) > 1 => n.stack[2] = thr[t].stack[2]
      BY <1>4, <1>6, Lengths
    <3> QED
      BY <1>4, <1>5, <1>6, <3>1 DEF Within
  <2> QED
    BY <1>4, <1>6, <2>1, <2>2, <2>4, <2>5, ElementsHold
<1> QED
  BY <1>1, <1>2, <1>3, <1>6, <1>7, <1>8, TurnsKeep DEF q

\* A browser_find that a batch has called is on top of browser_act, and no other is on the stack.
LEMMA Ranking ==
    ASSUME LeaseInv, NEW t \in Threads, Busy(t), Top(t).f = "find"
    PROVE  /\ Within(t, "act") <=> Len(thr[t].stack) > 1
           /\ ~(Len(thr[t].stack) > 1 /\ thr[t].stack[2].f = "find")
           /\ \A i \in 1..Len(thr[t].stack): thr[t].stack[i].f = "find" => i = 1
           /\ Looks(thr[t].stack) => Len(thr[t].stack) > 1
           /\ Len(thr[t].stack) > 1 /\ Top(t).pc \in Looking => Looks(thr[t].stack)
<1>1. Stack(thr[t].stack) /\ Top(t) = thr[t].stack[1]
  BY HasStack
<1>2. ASSUME Len(thr[t].stack) > 1 PROVE thr[t].stack[2].f = "act"
  <2>1. 2 \in 2..Len(thr[t].stack)
    BY <1>1, <1>2, Lengths
  <2>2. thr[t].stack[2 - 1].f \in Callees(thr[t].stack[2].f)
    BY <1>1, <2>1, StackFacts
  <2> QED
    BY <1>1, <2>2 DEF Callees
<1>3. ASSUME NEW i \in 1..Len(thr[t].stack), thr[t].stack[i].f = "find" PROVE i = 1
  BY <1>1, <1>3, Finders
<1>4. Len(thr[t].stack) \in Nat /\ Len(thr[t].stack) >= 1
  BY <1>1, Lengths
<1>5. Looks(thr[t].stack) => Len(thr[t].stack) > 1
  BY <1>4 DEF Looks
<1>6. Len(thr[t].stack) > 1 /\ Top(t).pc \in Looking => Looks(thr[t].stack)
  <2>1. Len(thr[t].stack) > 1 => 1 \in 1..(Len(thr[t].stack) - 1)
    BY <1>4
  <2> QED
    BY <1>1, <2>1 DEF Looks
<1> QED
  BY <1>2, <1>3, <1>5, <1>6 DEF Within

LEMMA FindRanksKeeps ==
    ASSUME LeaseInv, NEW t \in Threads, FindRanks(t)
    PROVE  LeaseInv'
<1> DEFINE e == IF Within(t, "act") THEN thr[t].els \cup {thr[t].saw} ELSE thr[t].els
           g == IF Within(t, "act") THEN thr[t].saw ELSE thr[t].inferred
           q == GoesOn(thr[t].stack, "unmark")
           n == [thr[t] EXCEPT !.stack = q, !.saw = 0, !.els = e, !.inferred = g]
<1>1. /\ Busy(t) /\ Top(t).f = "find" /\ Top(t).pc = "rank" /\ UNCHANGED <<lock, lease>> /\ Grows
      /\ thr' = [thr EXCEPT ![t].stack[1].pc = "unmark", ![t].saw = 0, ![t].els = e, ![t].inferred = g]
  BY SameTabs DEF FindRanks, At, In
<1>2. thr' = [thr EXCEPT ![t] = n]
  BY <1>1 DEF GoesOn
<1>3. /\ Stack(q) /\ q[1].pc = "unmark" /\ q[1].f = "find" /\ Len(q) = Len(thr[t].stack)
      /\ \A i \in 2..Len(q): q[i] = thr[t].stack[i]
  <2>1. "unmark" \in Pcs \ {"created"} /\ "unmark" # "return" /\ "unmark" \notin Looking
    BY DEF Pcs, Looking
  <2> QED
    BY <1>1, <2>1, MovedStack
<1>4. thr[t] \in ThreadState /\ thr[t].saw # 0 /\ ElementInv(t)
  BY <1>1, Holds, HasStack DEF ElementInv, In, At
<1>5. e \in SUBSET (1..MaxDocs) /\ g \in 0..MaxDocs /\ e \subseteq thr[t].els \cup {thr[t].saw}
      /\ e \subseteq Nat
  <2>1. thr[t].saw \in 0..MaxDocs /\ thr[t].els \in SUBSET (1..MaxDocs) /\ thr[t].inferred \in 0..MaxDocs
        /\ MaxDocs \in Nat
    BY <1>4, BoundsAssumption DEF ThreadState
  <2>2. thr[t].saw \in 1..MaxDocs
    BY <1>4, <2>1
  <2> QED
    BY <2>1, <2>2
<1>6. ~Looks(q) /\ ~(Len(q) > 1 /\ q[2].f = "find")
  <2>1. \A i \in 1..Len(q): q[i].f = "find" => i = 1
    <3> SUFFICES ASSUME NEW i \in 1..Len(q), q[i].f = "find" PROVE i = 1
      OBVIOUS
    <3>1. CASE i \in 2..Len(q)
      BY <1>1, <1>3, <3>1, Ranking
    <3> QED
      BY <1>3, <3>1, Lengths
  <2>2. Len(q) \in Nat
    BY <1>3, Lengths
  <2> QED
    BY <1>3, <2>1, <2>2 DEF Looks, Looking
<1>7. /\ thr[t].given = 0 /\ thr[t].queries = 0 => e = {}
      /\ thr[t].given = 0 /\ thr[t].queries = 1 => e \subseteq {g}
  <2>1. /\ thr[t].given = 0 /\ thr[t].queries = 0 => thr[t].els = {}
        /\ thr[t].given = 0 /\ thr[t].queries = 1 =>
              thr[t].els \subseteq (IF Looks(thr[t].stack) THEN {} ELSE {thr[t].inferred})
        /\ Looks(thr[t].stack) => thr[t].queries > 0
    BY <1>4 DEF ElementInv, Finding, Looks, Looking
  <2>2. CASE Within(t, "act")
    <3>1. Looks(thr[t].stack)
      BY <1>1, <2>2, Ranking DEF Looking
    <3>2. thr[t].queries # 0
      BY <2>1, <3>1
    <3> QED
      BY <2>1, <2>2, <3>1, <3>2
  <2>3. CASE ~Within(t, "act")
    <3>1. ~Looks(thr[t].stack)
      BY <1>1, <2>3, Ranking
    <3> QED
      BY <2>1, <2>3, <3>1
  <2> QED
    BY <2>2, <2>3
<1> HIDE DEF e, g
<1>8. /\ n \in ThreadState /\ n.stack = q /\ n.tab = thr[t].tab /\ n.els = e
      /\ n.saw = 0 /\ n.given = thr[t].given /\ n.inferred = g
      /\ n.queries = thr[t].queries /\ n.raised = thr[t].raised /\ n.ran = thr[t].ran
  <2>1. q \in Seq(Frame) /\ 0 \in 0..MaxDocs
    BY <1>3, BoundsAssumption DEF Stack
  <2> HIDE DEF q
  <2> QED
    BY <1>4, <1>5, <2>1 DEF ThreadState
<1>9. n.raised = FALSE /\ n.ran = FALSE
  BY <1>1, <1>8, NotRaised
<1> HIDE DEF n, q
<1>10. ElementInv(t)'
  <2>1. thr'[t] = n
    BY <1>2, Holds
  <2>2. /\ n.given <= tab'[n.tab].doc
        /\ \A d \in n.els \cup ({n.saw} \ {0}): n.given <= d /\ d <= tab'[n.tab].doc
    BY <1>1, <1>4, <1>5, <1>8, Elements
  <2> QED
    BY <1>3, <1>6, <1>7, <1>8, <2>1, <2>2, ElementsHold
<1> QED
  BY <1>1, <1>2, <1>8, <1>9, <1>10, TurnsKeep DEF q

-----------------------------------------------------------------------------
(* Clients, and those who use the browser beside them.                     *)

\* A stack of one tool, which has no lease.
One(f, p) == <<[f |-> f, pc |-> p]>>

LEMMA OneTool ==
    ASSUME NEW f \in Tools, NEW p \in {"target", "created"}
    PROVE  /\ Stack(One(f, p)) /\ One(f, p)[1].f = f /\ One(f, p)[1].pc = p /\ Len(One(f, p)) = 1
           /\ ~Looks(One(f, p)) /\ \A P \in {Holding, Marked}: Count(One(f, p), P) = 0
<1> DEFINE q == One(f, p)
<1>1. [f |-> f, pc |-> p] \in Frame
  BY DEF Frame, Pcs
<1>2. q \in Seq(Frame) /\ q # <<>> /\ Len(q) = 1 /\ q[1] = [f |-> f, pc |-> p]
  BY <1>1 DEF One
<1> HIDE DEF q
<1>3. q[1].f = f /\ q[1].pc = p
  BY <1>2
<1>4. StackInv(q)
  BY <1>2 DEF StackInv
<1>5. ~Looks(q)
  BY <1>2 DEF Looks
<1>6. ASSUME NEW P \in {Holding, Marked} PROVE Count(q, P) = 0
  <2>1. p \notin P
    BY Points
  <2> QED
    BY <1>2, <1>3, <2>1 DEF Count
<1> QED
  BY <1>2, <1>3, <1>4, <1>5, <1>6 DEF Stack, q

\* A thread begins a call.
LEMMA BeginsKeep ==
    ASSUME LeaseInv, NEW t \in Threads, ~Busy(t), NEW f \in Tools, NEW p \in {"target", "created"},
           p = "created" => f \in {"do", "open"}, Grows, UNCHANGED <<lock, lease>>,
           NEW n \in ThreadState, thr' = [thr EXCEPT ![t] = n], n.stack = One(f, p),
           n.raised = FALSE, n.ran = FALSE, n.saw = 0, n.tab \in Tabs, tab'[n.tab].doc > 0,
           n.els \subseteq {n.given}, n.given \in 0..tab'[n.tab].doc, n.given = 0 => n.els = {}
    PROVE  LeaseInv'
<1>1. /\ Stack(n.stack) /\ n.stack[1].f = f /\ n.stack[1].pc = p /\ Len(n.stack) = 1 /\ ~Looks(n.stack)
      /\ \A P \in {Holding, Marked}: Count(n.stack, P) = 0
  BY OneTool
<1>2. thr'[t] = n
  BY Holds
<1>3. CallInv(t)'
  <2>1. Busy(t)' /\ Top(t)' = n.stack[1]
    BY <1>1, <1>2, Lengths DEF Busy, Top
  <2> QED
    BY <1>1, <1>2, <2>1 DEF CallInv, Page, At, Stack
<1>4. ElementInv(t)'
  <2>1. tab'[n.tab].doc \in Nat
    BY BoundsAssumption DEF Grows, TabState
  <2>2. /\ n.given <= tab'[n.tab].doc
        /\ \A d \in n.els \cup ({n.saw} \ {0}): n.given <= d /\ d <= tab'[n.tab].doc
    BY <2>1
  <2> QED
    BY <1>1, <1>2, <2>2, ElementsHold
<1>5. \A P \in {Holding, Marked}: Count(thr[t].stack, P) = 0
  BY NothingCounts DEF Busy
<1> QED
  BY <1>1, <1>3, <1>4, <1>5, QuietSteps

LEMMA CallKeeps ==
    ASSUME LeaseInv, NEW t \in Threads, NEW f \in Tools, NEW x \in Tabs, Call(t, f, x)
    PROVE  LeaseInv'
<1>0. PICK b \in BOOLEAN:
         thr' = [thr EXCEPT ![t] = [Idle EXCEPT !.tab = x, !.bare = b, !.stack = One(f, "target")]]
  BY DEF Call, One
<1> DEFINE n == [Idle EXCEPT !.tab = x, !.bare = b, !.stack = One(f, "target")]
<1>1. /\ ~Busy(t) /\ tab[x].doc > 0 /\ thr' = [thr EXCEPT ![t] = n]
      /\ UNCHANGED <<lock, lease>> /\ Grows /\ UNCHANGED tab
  BY <1>0, SameTabs DEF Call
<1>2. One(f, "target") \in Seq(Frame)
  BY OneTool DEF Stack
<1>3. /\ n \in ThreadState /\ n.stack = One(f, "target") /\ n.tab = x /\ n.raised = FALSE /\ n.ran = FALSE
      /\ n.saw = 0 /\ n.els = {} /\ n.given = 0
  BY <1>2, IdleThread DEF ThreadState
<1> HIDE DEF n
<1>4. tab'[n.tab].doc > 0 /\ n.given \in 0..tab'[n.tab].doc /\ n.els \subseteq {n.given}
  <2>1. tab'[x].doc \in Nat
    BY <1>1, BoundsAssumption DEF Grows, TabState
  <2> QED
    BY <1>1, <1>3, <2>1
<1> QED
  BY <1>1, <1>3, <1>4, BeginsKeep

LEMMA CallObservedKeeps ==
    ASSUME LeaseInv, NEW t \in Threads, NEW x \in Tabs, NEW d \in 1..MaxDocs, CallObserved(t, x, d)
    PROVE  LeaseInv'
<1> DEFINE n == [Idle EXCEPT !.tab = x, !.els = {d}, !.given = d, !.stack = One("act", "target")]
<1>1. /\ ~Busy(t) /\ d \in 1..tab[x].doc /\ thr' = [thr EXCEPT ![t] = n]
      /\ UNCHANGED <<lock, lease>> /\ Grows /\ UNCHANGED tab
  BY SameTabs DEF CallObserved, One
<1>2. One("act", "target") \in Seq(Frame) /\ "act" \in Tools
  BY OneTool DEF Stack, Tools
<1>3. /\ n \in ThreadState /\ n.stack = One("act", "target") /\ n.tab = x /\ n.raised = FALSE /\ n.ran = FALSE
      /\ n.saw = 0 /\ n.els = {d} /\ n.given = d
  <2>1. d \in 0..MaxDocs /\ {d} \in SUBSET (1..MaxDocs)
    BY BoundsAssumption
  <2> QED
    BY <1>2, <2>1, IdleThread DEF ThreadState
<1> HIDE DEF n
<1>4. tab'[n.tab].doc > 0 /\ n.given \in 0..tab'[n.tab].doc /\ n.els \subseteq {n.given} /\ n.given # 0
  <2>1. tab'[x].doc \in Nat /\ tab'[x].doc = tab[x].doc
    BY <1>1, BoundsAssumption DEF Grows, TabState
  <2> QED
    BY <1>1, <1>3, <2>1
<1> QED
  BY <1>1, <1>2, <1>3, <1>4, BeginsKeep

LEMMA CallNewKeeps ==
    ASSUME LeaseInv, NEW t \in Threads, NEW f \in Tools, NEW x \in Tabs, CallNew(t, f, x)
    PROVE  LeaseInv'
<1> DEFINE n == [Idle EXCEPT !.tab = x, !.own = TRUE, !.stack = One(f, "created")]
           p == [tab[x] EXCEPT !.open = TRUE, !.doc = 1]
<1>1. /\ ~Busy(t) /\ f \in {"do", "open"} /\ tab[x].doc = 0 /\ thr' = [thr EXCEPT ![t] = n]
      /\ UNCHANGED <<lock, lease>> /\ tab' = [tab EXCEPT ![x] = p]
  BY DEF CallNew, One
<1>2. One(f, "created") \in Seq(Frame)
  BY OneTool DEF Stack
<1>3. /\ n \in ThreadState /\ n.stack = One(f, "created") /\ n.tab = x /\ n.raised = FALSE /\ n.ran = FALSE
      /\ n.saw = 0 /\ n.els = {} /\ n.given = 0
  BY <1>2, IdleThread DEF ThreadState
<1> HIDE DEF n
<1>4. p \in TabState /\ p.doc = 1
  <2>1. tab[x] \in TabState /\ 1 \in 0..MaxDocs
    BY Holds, BoundsAssumption
  <2> QED
    BY <2>1 DEF TabState
<1> HIDE DEF p
<1>5. Grows /\ tab'[x].doc = 1
  <2>1. tab'[x] = p /\ \A y \in Tabs \ {x}: tab'[y] = tab[y]
    BY <1>1, Holds
  <2>2. tab' \in [Tabs -> TabState]
    BY <1>1, <1>4, Holds
  <2>3. \A y \in Tabs: tab[y].doc \in Nat
    BY Holds, BoundsAssumption DEF TabState
  <2> QED
    BY <1>1, <1>4, <2>1, <2>2, <2>3, Holds DEF Grows
<1>6. tab'[n.tab].doc > 0 /\ n.given \in 0..tab'[n.tab].doc /\ n.els \subseteq {n.given}
  BY <1>3, <1>5
<1> QED
  BY <1>1, <1>3, <1>5, <1>6, BeginsKeep

\* Nothing happens to a thread.
LEMMA TabsKeep ==
    ASSUME LeaseInv, Grows, UNCHANGED <<lock, lease, thr>>
    PROVE  LeaseInv'
<1>1. \A t \in Threads: CallInv(t)' /\ (Busy(t)' => ElementInv(t)')
  BY OthersKeep
<1>2. TypeOK'
  BY DEF LeaseInv, TypeOK, Grows
<1>3. NothingKept'
  BY DEF LeaseInv, NothingKept, Busy
<1>4. Counted(lock, thr, Holding)' /\ Counted(lease, thr, Marked)'
  BY Holds DEF Counted
<1> QED
  BY <1>1, <1>2, <1>3, <1>4 DEF LeaseInv, Grows

LEMMA BesideKeeps ==
    ASSUME LeaseInv, NEW x \in Tabs, Navigates(x) \/ UserCloses(x)
    PROVE  LeaseInv'
<1>1. UNCHANGED <<lock, lease, thr>>
  BY DEF Navigates, UserCloses
<1>2. CASE Navigates(x)
  <2>1. Grows
    BY <1>2, Navigating DEF Navigates
  <2> QED
    BY <1>1, <2>1, TabsKeep
<1>3. CASE UserCloses(x)
  <2>1. Grows
    BY <1>3, Closing DEF UserCloses
  <2> QED
    BY <1>1, <2>1, TabsKeep
<1> QED
  BY <1>2, <1>3

-----------------------------------------------------------------------------
LEMMA InitHolds == Init => LeaseInv
<1> SUFFICES ASSUME Init PROVE LeaseInv
  OBVIOUS
<1>1. PICK first \in Tabs:
         tab = [x \in Tabs |-> IF x = first THEN [open |-> TRUE, doc |-> 1, seen |-> FALSE]
                               ELSE [open |-> FALSE, doc |-> 0, seen |-> FALSE]]
  BY DEF Init
<1>2. tab \in [Tabs -> TabState] /\ \A x \in Tabs: tab[x].open => tab[x].doc > 0
  <2>1. 0 \in 0..MaxDocs /\ 1 \in 0..MaxDocs
    BY BoundsAssumption
  <2> QED
    BY <1>1, <2>1 DEF TabState
<1>3. /\ lock = [x \in Tabs |-> Free] /\ lease = [x \in Tabs |-> Free]
      /\ thr = [t \in Threads |-> Idle]
  BY DEF Init
<1>4. Free \in [by: Threads \cup {NoThread}, n: 0..4] /\ Free.by = NoThread
  BY DEF Free
<1>5. TypeOK
  BY <1>2, <1>3, <1>4, IdleThread DEF TypeOK
<1>6. NothingKept
  BY <1>3, <1>4 DEF NothingKept
<1>7. Counted(lock, thr, Holding) /\ Counted(lease, thr, Marked)
  <2>1. ASSUME NEW m, m = [x \in Tabs |-> Free], NEW P PROVE Counted(m, thr, P)
    <3>1. \A t \in Threads: ~(Count(thr[t].stack, P) > 0)
      BY <1>3, IdleThread, NothingCounts
    <3> QED
      BY <1>4, <2>1, <3>1, NoThreadAssumption DEF Counted
  <2> QED
    BY <1>3, <2>1
<1>8. ASSUME NEW t \in Threads PROVE CallInv(t) /\ ~Busy(t)
  <2>1. thr[t] = Idle
    BY <1>3
  <2>2. ~Busy(t)
    BY <2>1, IdleThread DEF Busy
  <2> QED
    BY <2>1, <2>2, IdleThread, NothingCounts DEF CallInv, At
<1> QED
  BY <1>2, <1>5, <1>6, <1>7, <1>8 DEF LeaseInv

LEMMA ThreadKeeps ==
    ASSUME LeaseInv, NEW t \in Threads, Step(t)
    PROVE  LeaseInv'
<1>1. CASE Target(t) \/ Acquire(t) \/ Mark(t) \/ Enter(t) \/ Unmark(t) \/ Release(t)
  BY <1>1, TargetKeeps, AcquireKeeps, MarkKeeps, EnterKeeps, UnmarkKeeps, ReleaseKeeps
<1>2. CASE \E b \in BOOLEAN: Created(t, b) \/ ActEnds(t, b) \/ OpenRuns(t, b)
  BY <1>2, CreatedKeeps, ActEndsKeeps, OpenRunsKeeps
<1>3. CASE Return(t) \/ Fails(t)
  BY <1>3, ReturnKeeps, FailsKeeps
<1>4. CASE ObserveRuns(t) \/ FindRuns(t) \/ FindRanks(t) \/ ActResolves(t) \/ ActRuns(t)
  BY <1>4, ObserveRunsKeeps, FindRunsKeeps, FindRanksKeeps, ActResolvesKeeps, ActRunsKeeps
<1>5. CASE ActStale(t) \/ ActivateRuns(t) \/ CloseRuns(t)
  BY <1>5, ActStaleKeeps, ActivateRunsKeeps, CloseRunsKeeps
<1>6. CASE DoOpens(t) \/ DoActs(t) \/ DoObserves(t) \/ DoEnds(t)
  BY <1>6, DoOpensKeeps, DoActsKeeps, DoObservesKeeps, DoEndsKeeps
<1> QED
  BY <1>1, <1>2, <1>3, <1>4, <1>5, <1>6 DEF Step

LEMMA StepKeeps == LeaseInv /\ [Next]_vars => LeaseInv'
<1> SUFFICES ASSUME LeaseInv, [Next]_vars PROVE LeaseInv'
  OBVIOUS
<1>1. ASSUME NEW t \in Threads, Step(t) PROVE LeaseInv'
  BY <1>1, ThreadKeeps
<1>2. ASSUME NEW t \in Threads, NEW f \in Tools, NEW x \in Tabs, CallNew(t, f, x) \/ Call(t, f, x)
      PROVE  LeaseInv'
  BY <1>2, CallNewKeeps, CallKeeps
<1>3. ASSUME NEW t \in Threads, NEW x \in Tabs, NEW d \in 1..MaxDocs, CallObserved(t, x, d)
      PROVE  LeaseInv'
  BY <1>3, CallObservedKeeps
<1>4. ASSUME NEW x \in Tabs, Navigates(x) \/ UserCloses(x) PROVE LeaseInv'
  BY <1>4, BesideKeeps
<1>5. CASE UNCHANGED vars
  <2>1. UNCHANGED <<tab, lock, lease, thr>>
    BY <1>5 DEF vars
  <2> QED
    BY <2>1, SameTabs, TabsKeep
<1> QED
  BY <1>1, <1>2, <1>3, <1>4, <1>5 DEF Next

\* Whatever is called, refused and fails, each lock and each entry counts the tools of the one
\* thread that is inside that lease, only a thread at work has one, and that of its own tab
\* (_tab_lease, _lease_mark); and the elements of a batch are of documents from the one that was
\* given to the one there is.
THEOREM Invariance == Spec => []LeaseInv
<1>1. Init => LeaseInv
  BY InitHolds
<1>2. LeaseInv /\ [Next]_vars => LeaseInv'
  BY StepKeeps
<1> QED
  BY <1>1, <1>2, PTL DEF Spec

\* Who is inside a lease is counted in it.
LEMMA InsideCounts ==
    ASSUME LeaseInv, NEW t \in Threads, Inside(t), NEW P \in {Holding, Marked}
    PROVE  Busy(t) /\ thr[t].tab \in Tabs /\ Count(thr[t].stack, P) > 0
<1> DEFINE s == thr[t].stack
<1>1. PICK i \in 1..Len(s): s[i].pc \in {"run", "rank", "acted", "busy", "end"}
  BY DEF Inside
<1>2. Busy(t)
  <2>1. CASE thr[t].stack = <<>>
    <3>1. Len(s) = 0
      BY <2>1
    <3> QED
      BY <1>1, <3>1
  <2> QED
    BY <2>1 DEF Busy
<1>3. Stack(s) /\ thr[t].tab \in Tabs
  BY <1>2, HasStack
<1> HIDE DEF s
<1>4. Count(s, P) = Len(s) - 1 + In1(s[1].pc, P) - Bottom(s) /\ In1(s[1].pc, P) \in {0, 1} /\ Bottom(s) \in {0, 1}
  BY <1>3, CountOf
<1>5. Len(s) \in Nat /\ Len(s) >= 1
  BY <1>3, Lengths
<1>6. Bottom(s) = 1 => Len(s) > 1 /\ i # Len(s)
  BY <1>1, <1>5 DEF Bottom
<1>7. i = 1 => In1(s[1].pc, P) = 1
  <2>1. s[i].pc \in P
    BY <1>1, Points DEF Waiting
  <2> QED
    BY <2>1 DEF In1
<1>8. Count(s, P) > 0
  <2>1. CASE i = 1
    BY <2>1, <1>4, <1>5, <1>6, <1>7
  <2>2. CASE i # 1
    BY <1>1, <2>2, <1>4, <1>5, <1>6
  <2> QED
    BY <2>1, <2>2
<1> QED
  BY <1>2, <1>3, <1>8 DEF s

\* Two callers are never at work on the same tab.
THEOREM OneAtWork == Spec => []Exclusive
<1>1. LeaseInv => Exclusive
  <2> SUFFICES ASSUME LeaseInv, NEW t \in Threads, NEW u \in Threads, Inside(t), Inside(u),
                      thr[t].tab = thr[u].tab
               PROVE  t = u
    BY DEF Exclusive
  <2>1. "mark" \in Holding /\ Holding \in {Holding, Marked}
    BY DEF Holding
  <2>2. /\ thr[t].tab \in Tabs /\ Count(thr[t].stack, Holding) > 0
        /\ thr[u].tab \in Tabs /\ Count(thr[u].stack, Holding) > 0
    BY <2>1, InsideCounts
  <2>3. PICK x \in Tabs: x = thr[t].tab
    BY <2>2
  <2>4. /\ lock[x] = [by |-> t, n |-> Count(thr[t].stack, Holding)]
        /\ lock[x] = [by |-> u, n |-> Count(thr[u].stack, Holding)]
    BY <2>2, <2>3, Holds DEF Counted
  <2>5. lock[x].by = t /\ lock[x].by = u
    BY <2>4
  <2> QED
    BY <2>5
<1> QED
  BY <1>1, Invariance, PTL

\* browser_list_tabs reports a tab busy while a caller works on it, and the caller it names has the
\* lock (_lease_mark, _tab_lease).
THEOREM BusyIsUsed == Spec => []BusyWhileUsed
<1>1. LeaseInv => BusyWhileUsed
  <2> SUFFICES ASSUME LeaseInv PROVE BusyWhileUsed
    OBVIOUS
  <2>1. ASSUME NEW t \in Threads, Inside(t) PROVE lease[thr[t].tab].by = t
    <3>1. thr[t].tab \in Tabs /\ Count(thr[t].stack, Marked) > 0
      BY <2>1, InsideCounts
    <3>2. lease[thr[t].tab] = [by |-> t, n |-> Count(thr[t].stack, Marked)]
      BY <3>1, Holds DEF Counted
    <3> QED
      BY <3>2
  <2>2. ASSUME NEW x \in Tabs, lease[x].by # NoThread PROVE lease[x].by = lock[x].by
    <3>1. PICK u \in Threads: u = lease[x].by
      BY <2>2, Holds DEF Entries
    <3>2. thr[u].tab = x /\ Count(thr[u].stack, Marked) > 0
      BY <3>1, Holds DEF Counted
    <3>3. Busy(u)
      <4>1. CASE thr[u].stack = <<>>
        BY <3>2, <4>1, NothingCounts
      <4> QED
        BY <4>1 DEF Busy
    <3>4. Count(thr[u].stack, Marked) <= Count(thr[u].stack, Holding)
      BY <3>3, HasStack, MarkedHolds
    <3>5. Count(thr[u].stack, Marked) \in 0..4 /\ Count(thr[u].stack, Holding) \in 0..4
      BY <3>3, HasStack, CountRange
    <3>6. Count(thr[u].stack, Holding) > 0
      BY <3>2, <3>4, <3>5
    <3>7. lock[x] = [by |-> u, n |-> Count(thr[u].stack, Holding)]
      BY <3>2, <3>6, Holds DEF Counted
    <3> QED
      BY <3>1, <3>7
  <2> QED
    BY <2>1, <2>2 DEF BusyWhileUsed
<1> QED
  BY <1>1, Invariance, PTL

-----------------------------------------------------------------------------
(* What a batch acts on.                                                   *)

\* A thread is moved by itself only.
LEMMA OwnSteps ==
    ASSUME LeaseInv, NEW u \in Threads, Step(u), NEW t \in Threads \ {u}
    PROVE  thr'[t] = thr[t]
<1>1. thr \in [Threads -> ThreadState]
  BY Holds
<1>2. CASE Target(u) \/ Acquire(u) \/ Mark(u) \/ Enter(u) \/ Unmark(u) \/ Release(u) \/ Return(u) \/ Fails(u)
  BY <1>1, <1>2 DEF Target, Acquire, Mark, Enter, Unmark, Release, Return, Fails, Goto, Leave, Refuse, Raise
<1>3. CASE \E b \in BOOLEAN: Created(u, b) \/ ActEnds(u, b) \/ OpenRuns(u, b)
  BY <1>1, <1>3 DEF Created, ActEnds, OpenRuns, Goto
<1>4. CASE ObserveRuns(u) \/ FindRuns(u) \/ FindRanks(u) \/ ActResolves(u) \/ ActRuns(u)
  BY <1>1, <1>4 DEF ObserveRuns, FindRuns, FindRanks, ActResolves, ActRuns, ActPage
<1>5. CASE ActStale(u) \/ ActivateRuns(u) \/ CloseRuns(u)
  BY <1>1, <1>5 DEF ActStale, ActivateRuns, CloseRuns, Goto
<1>6. CASE DoOpens(u) \/ DoActs(u) \/ DoObserves(u) \/ DoEnds(u)
  BY <1>1, <1>6 DEF DoOpens, DoActs, DoObserves, DoEnds, Goto
<1> QED
  BY <1>2, <1>3, <1>4, <1>5, <1>6 DEF Step

LEMMA MovedRan ==
    ASSUME NEW t \in Threads, thr[t] \in ThreadState, NEW p, NEW b
    PROVE  Moved(t, p, b).ran = thr[t].ran
BY DEF Moved, ThreadState

\* Only ActRuns has a page run a batch.
LEMMA OnlyActRuns ==
    ASSUME LeaseInv, [Next]_vars, NEW t \in Threads, In(t, "act", "run"), thr'[t].ran
    PROVE  ActRuns(t)
<1>1. Busy(t) /\ Top(t).f = "act" /\ Top(t).pc = "run"
  BY DEF In, At
<1>2. thr[t].ran = FALSE /\ thr \in [Threads -> ThreadState] /\ thr[t] \in ThreadState
  BY <1>1, NotRaised, Holds
<1>3. ASSUME NEW u \in Threads, Step(u) PROVE ActRuns(t)
  <2>1. CASE u # t
    BY <1>2, <1>3, <2>1, OwnSteps
  <2>2. CASE u = t
    <3>1. \/ Fails(t) \/ ActResolves(t) \/ ActRuns(t) \/ ActStale(t)
      BY <1>1, <1>3, <2>2
         DEF Step, Target, Acquire, Mark, Enter, Unmark, Release, Created, ActEnds, OpenRuns, Return,
             ObserveRuns, FindRuns, FindRanks, ActivateRuns, CloseRuns, DoOpens, DoActs, DoObserves,
             DoEnds, In, At
    <3>2. CASE Fails(t)
      <4>1. thr' = [thr EXCEPT ![t] = Moved(t, "unmark", TRUE)]
        BY <3>2, RaiseMoves DEF Fails
      <4>2. Moved(t, "unmark", TRUE).ran = FALSE
        BY <1>2, MovedRan
      <4> QED
        BY <1>2, <4>1, <4>2
    <3>3. CASE ActStale(t)
      <4>1. thr' = [thr EXCEPT ![t] = Moved(t, "acted", thr[t].raised)]
        BY <3>3, GotoMoves DEF ActStale
      <4>2. Moved(t, "acted", thr[t].raised).ran = FALSE
        BY <1>2, MovedRan
      <4> QED
        BY <1>2, <4>1, <4>2
    <3>4. CASE ActResolves(t)
      <4> DEFINE m == CallTool(t, "find", "run")
      <4>1. Carries(m, t) /\ m \in ThreadState
        <5>1. Waits(thr[t].stack, "run") /\ "find" \in Callees(Top(t).f)
          BY <1>1, HasStack, Calling DEF Waits, Waiting
        <5> QED
          BY <1>1, <5>1, CalledThread
      <4>2. thr' = [thr EXCEPT ![t] = [m EXCEPT !.queries = @ + 1]]
        BY <3>4 DEF ActResolves
      <4> HIDE DEF m
      <4>3. [m EXCEPT !.queries = @ + 1].ran = FALSE
        BY <4>1 DEF ThreadState, Carries
      <4> QED
        BY <1>2, <4>2, <4>3
    <3> QED
      BY <3>1, <3>2, <3>3, <3>4
  <2> QED
    BY <2>1, <2>2
<1>4. ASSUME NEW u \in Threads, ~Busy(u), NEW n, thr' = [thr EXCEPT ![u] = n] PROVE ActRuns(t)
  <2>1. u # t
    BY <1>1, <1>4
  <2> QED
    BY <1>2, <1>4, <2>1
<1>5. ASSUME NEW u \in Threads, NEW f \in Tools, NEW x \in Tabs, CallNew(u, f, x) \/ Call(u, f, x)
      PROVE  ActRuns(t)
  BY <1>4, <1>5 DEF CallNew, Call
<1>6. ASSUME NEW u \in Threads, NEW x \in Tabs, NEW d \in 1..MaxDocs, CallObserved(u, x, d)
      PROVE  ActRuns(t)
  BY <1>4, <1>6 DEF CallObserved
<1>7. CASE UNCHANGED thr
  BY <1>2, <1>7
<1> QED
  BY <1>3, <1>5, <1>6, <1>7 DEF Next, Navigates, UserCloses, vars

\* browser_act does not act on an element of another document than the one it was found in.
THEOREM ActsOnItsDocument == Spec => ElementsOfThisDocument
<1>1. ASSUME LeaseInv, [Next]_vars, NEW t \in Threads, In(t, "act", "run"), thr'[t].ran,
             thr[t].given # 0 \/ thr[t].queries <= 1, NEW d \in thr[t].els
      PROVE  d = Page(t).doc
  <2>1. Expected(t) \in {0, Page(t).doc}
    BY <1>1, OnlyActRuns DEF ActRuns, Fits
  <2>2. Busy(t) /\ ElementInv(t) /\ Page(t).doc > 0 /\ Page(t).doc \in Nat
    BY <1>1, HasStack, BoundsAssumption DEF In, At, TabState
  <2>3. /\ thr[t].given <= d /\ d <= Page(t).doc
        /\ thr[t].given = 0 /\ thr[t].queries = 0 => thr[t].els = {}
        /\ thr[t].given = 0 /\ thr[t].queries = 1 =>
              thr[t].els \subseteq (IF Finding(t) THEN {} ELSE {thr[t].inferred})
    BY <2>2 DEF ElementInv
  <2>4. /\ thr[t].given \in Nat /\ thr[t].queries \in Nat /\ d \in Nat /\ d # 0
    BY Holds, <1>1, BoundsAssumption DEF ThreadState
  <2>5. CASE thr[t].given # 0
    BY <2>1, <2>2, <2>3, <2>4, <2>5 DEF Expected
  <2>6. CASE thr[t].given = 0
    <3>1. thr[t].queries = 1
      BY <1>1, <2>3, <2>4, <2>6
    <3>2. d = thr[t].inferred
      BY <2>3, <2>6, <3>1
    <3> QED
      BY <2>1, <2>4, <2>6, <3>2 DEF Expected
  <2> QED
    BY <2>5, <2>6
<1>2. LeaseInv /\ [Next]_vars =>
         [\A t \in Threads:
             In(t, "act", "run") /\ thr'[t].ran /\ (thr[t].given # 0 \/ thr[t].queries <= 1) =>
                \A d \in thr[t].els: d = Page(t).doc]_vars
  BY <1>1
<1> QED
  BY <1>2, Invariance, PTL DEF Spec, ElementsOfThisDocument

=============================================================================
