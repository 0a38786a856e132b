------------------------------ MODULE ServeProofs ------------------------------
(***************************************************************************)
(* Serve, for every set of clients and sessions and every limit: the types,*)
(* the links between clients and sessions, the count and the order of      *)
(* answers, and at the end the pauses.  The invariant is stated for a      *)
(* world, as the handlers pass worlds on, so each function of the code has *)
(* its lemma.                                                              *)
(***************************************************************************)
EXTENDS Serve, SequenceTheorems, TLAPS

Worlds == [conn : [Conns -> Clients], ses : [Sessions -> Relayed],
           tracked : SUBSET (Conns \cup (Sessions \X {"to", "from"})), report : BOOLEAN]

\* A connection and a session point at each other or not at all, and a
\* connection that is not open has no session.
Linked(w) ==
  /\ \A c \in Conns, s \in Sessions :
       w.ses[s].conn = c <=> IsOpen(w, c) /\ w.conn[c].ses = s
  /\ \A c \in Conns : ~IsOpen(w, c) => w.conn[c].ses = None

\* what the child owes, and what the relay owes its client
Owing(x)   == x.fromChild \o x.toChild
Pending(x) == x.detached \o Owing(x)

Counted(x) ==
  /\ x.open = Len(Owing(x))
  /\ x.quitPending => /\ x.quitWait \in 1..Len(Owing(x))
                      /\ Owing(x)[x.quitWait].kind = "quit"

Ordered(x) ==
  /\ x.given + Len(Pending(x)) = x.next
  /\ \A i \in 1..Len(Pending(x)) : Pending(x)[i].n = x.given + i - 1

\* A session record: a client has nothing in the buffer, so that an answer that
\* goes to the client is the oldest one.
Kept(x) ==
  /\ x.st = "free" => x.conn = None /\ x.toChild = << >> /\ x.fromChild = << >>
  /\ x.st = "live" => Counted(x) /\ Ordered(x)
  /\ x.conn # None => x.detached = << >>
  /\ Len(x.detached) <= MaxDetached

Held(w) ==
  /\ \A c \in Conns : IsOpen(w, c) => c \in w.tracked
  /\ \A s \in Sessions : /\ w.ses[s].st = "live" => Pipes(s) \subseteq w.tracked
                         /\ s \in InTable(w) => <<s, "from">> \in w.tracked

Good(w) ==
  /\ w \in Worlds /\ Linked(w) /\ Held(w)
  /\ \A s \in Sessions : Kept(w.ses[s])

IInv ==
  /\ Good(World)
  /\ rx \in Conns \cup {None} /\ lines \in 0..MaxLines /\ up \in BOOLEAN

(***************************************************************************)
(* Sequences.                                                              *)
(***************************************************************************)
LEMMA AppendedLater ==
  ASSUME NEW S, NEW f \in Seq(S), NEW t \in Seq(S), NEW e \in S
  PROVE  f \o Append(t, e) = Append(f \o t, e)
<1>1. /\ f \o t \in Seq(S) /\ Len(f \o t) = Len(f) + Len(t)
      /\ Append(t, e) \in Seq(S) /\ Len(Append(t, e)) = Len(t) + 1
      /\ f \o Append(t, e) \in Seq(S)
      /\ Len(f \o Append(t, e)) = Len(f) + Len(t) + 1
      /\ Append(f \o t, e) \in Seq(S)
      /\ Len(Append(f \o t, e)) = Len(f) + Len(t) + 1
  BY ConcatProperties, AppendProperties, LenProperties
<1>2. ASSUME NEW i \in 1..(Len(f) + Len(t) + 1)
      PROVE  (f \o Append(t, e))[i] = Append(f \o t, e)[i]
  <2>1. Len(f) \in Nat /\ Len(t) \in Nat
    BY LenProperties
  <2>2. (f \o Append(t, e))[i] = IF i <= Len(f) THEN f[i] ELSE Append(t, e)[i - Len(f)]
    <3> DEFINE u == Append(t, e)
    <3>1. u \in Seq(S) /\ Len(u) = Len(t) + 1
      BY <1>1
    <3> HIDE DEF u
    <3>2. (f \o u)[i] = IF i <= Len(f) THEN f[i] ELSE u[i - Len(f)]
      BY <2>1, <3>1, ConcatProperties
    <3> QED  BY <3>2 DEF u
  <2>3. CASE i <= Len(f)
    BY <1>1, <2>1, <2>2, <2>3, ConcatProperties, AppendProperties
  <2>4. CASE i > Len(f) /\ i <= Len(f) + Len(t)
    <3>1. Append(t, e)[i - Len(f)] = t[i - Len(f)]
      BY <2>1, <2>4, AppendProperties
    <3>2. Append(f \o t, e)[i] = (f \o t)[i]
      BY <1>1, <2>1, <2>4, AppendProperties
    <3>3. (f \o t)[i] = t[i - Len(f)]
      BY <2>1, <2>4, ConcatProperties
    <3> QED  BY <2>1, <2>2, <2>4, <3>1, <3>2, <3>3
  <2>5. CASE i = Len(f) + Len(t) + 1
    <3>1. Append(t, e)[i - Len(f)] = e
      BY <2>1, <2>5, AppendProperties
    <3>2. Append(f \o t, e)[i] = e
      BY <1>1, <2>1, <2>5, AppendProperties
    <3> QED  BY <2>1, <2>2, <2>5, <3>1, <3>2
  <2> QED  BY <2>1, <2>3, <2>4, <2>5
<1> QED  BY <1>1, <1>2, SeqEqual

LEMMA Answered ==
  ASSUME NEW S, NEW f \in Seq(S), NEW t \in Seq(S), t # << >>
  PROVE  Append(f, Head(t)) \o Tail(t) = f \o t
<1>1. /\ Head(t) \in S /\ Tail(t) \in Seq(S) /\ Len(Tail(t)) = Len(t) - 1
      /\ Len(t) \in Nat \ {0} /\ Len(f) \in Nat
      /\ \A i \in 1..(Len(t) - 1) : Tail(t)[i] = t[i + 1]
      /\ Head(t) = t[1]
  BY HeadTailProperties, LenProperties, EmptySeq
<1>2. /\ Append(f, Head(t)) \in Seq(S) /\ Len(Append(f, Head(t))) = Len(f) + 1
      /\ \A i \in 1..(Len(f) + 1) :
           Append(f, Head(t))[i] = IF i <= Len(f) THEN f[i] ELSE Head(t)
  BY <1>1, AppendProperties
<1>3. /\ Append(f, Head(t)) \o Tail(t) \in Seq(S)
      /\ Len(Append(f, Head(t)) \o Tail(t)) = Len(f) + Len(t)
      /\ f \o t \in Seq(S) /\ Len(f \o t) = Len(f) + Len(t)
  BY <1>1, <1>2, ConcatProperties
<1>4. ASSUME NEW i \in 1..(Len(f) + Len(t))
      PROVE  (Append(f, Head(t)) \o Tail(t))[i] = (f \o t)[i]
  BY <1>1, <1>2, ConcatProperties
<1> QED  BY <1>3, <1>4, SeqEqual

LEMMA Taken ==
  ASSUME NEW S, NEW f \in Seq(S), NEW t \in Seq(S), f # << >>
  PROVE  /\ Tail(f) \o t \in Seq(S)
         /\ Len(Tail(f) \o t) = Len(f \o t) - 1
         /\ \A i \in 1..(Len(f \o t) - 1) : (Tail(f) \o t)[i] = (f \o t)[i + 1]
         /\ (f \o t)[1] = Head(f)
<1>1. /\ Tail(f) \in Seq(S) /\ Len(Tail(f)) = Len(f) - 1
      /\ Len(f) \in Nat \ {0} /\ Len(t) \in Nat
      /\ \A i \in 1..(Len(f) - 1) : Tail(f)[i] = f[i + 1]
      /\ Head(f) = f[1]
  BY HeadTailProperties, LenProperties, EmptySeq
<1> QED  BY <1>1, ConcatProperties

(***************************************************************************)
(* Session records.                                                        *)
(***************************************************************************)
\* two records that owe the same, to the same kind of client
Alike(x, y) ==
  /\ y.st = x.st /\ y.open = x.open /\ y.next = x.next /\ y.given = x.given
  /\ y.quitPending = x.quitPending /\ y.quitWait = x.quitWait
  /\ y.toChild = x.toChild /\ y.fromChild = x.fromChild /\ y.detached = x.detached

LEMMA KeptAlike ==
  ASSUME NEW x, NEW y, Kept(x), Alike(x, y),
         y.st = "free" => y.conn = None, y.conn # None => x.conn # None
  PROVE  Kept(y)
BY DEF Kept, Alike, Counted, Ordered, Pending, Owing

LEMMA SequencesOf ==
  ASSUME NEW x \in Relayed
  PROVE  /\ Owing(x) \in Seq(Answers) /\ Pending(x) \in Seq(Answers)
         /\ Len(Owing(x)) \in Nat /\ Len(x.detached) \in Nat
         /\ Len(Pending(x)) = Len(x.detached) + Len(Owing(x))
<1>1. x.fromChild \in Seq(Answers) /\ x.toChild \in Seq(Answers) /\ x.detached \in Seq(Answers)
  BY DEF Relayed
<1>2. Owing(x) \in Seq(Answers)
  BY <1>1, ConcatProperties DEF Owing
<1> QED  BY <1>1, <1>2, ConcatProperties, LenProperties DEF Pending

\* A request that is forwarded, or a hello for a new client, is one more.
LEMMA KeptAsked ==
  ASSUME NEW x \in Relayed, NEW y \in Relayed, NEW a \in Answers, a.n = x.next,
         Kept(x), x.st = "live", y.st = "live", x.conn # None, y.conn = x.conn,
         y.open = x.open + 1, y.next = x.next + 1, y.given = x.given,
         y.toChild = Append(x.toChild, a),
         y.fromChild = x.fromChild, y.detached = x.detached,
         \/ y.quitPending = x.quitPending /\ y.quitWait = x.quitWait
         \/ a.kind = "quit" /\ y.quitWait = x.open + 1
  PROVE  Kept(y)
<1> DEFINE o == Owing(x)
           p == Pending(x)
<1>1. /\ x.fromChild \in Seq(Answers) /\ x.toChild \in Seq(Answers)
      /\ x.detached = << >>
  BY DEF Answers, Relayed, Kept
<1>2. /\ o \in Seq(Answers) /\ p \in Seq(Answers) /\ Len(o) \in Nat
      /\ x.open = Len(o) /\ p = o /\ x.given + Len(o) = x.next
      /\ \A i \in 1..Len(o) : o[i].n = x.given + i - 1
      /\ x.next \in Nat /\ x.given \in Nat
      /\ x.quitPending => x.quitWait \in 1..Len(o) /\ o[x.quitWait].kind = "quit"
  <2>1. o \in Seq(Answers) /\ p \in Seq(Answers) /\ Len(o) \in Nat
    BY SequencesOf
  <2>2. p = o
    BY <1>1, <2>1, ConcatEmptySeq DEF Pending
  <2>3. Counted(x) /\ Ordered(x)
    BY DEF Kept
  <2>4. x.next \in Nat /\ x.given \in Nat
    BY DEF Relayed
  <2>5. x.given + Len(o) = x.next /\ \A i \in 1..Len(o) : o[i].n = x.given + i - 1
    BY <2>2, <2>3 DEF Ordered
  <2>6. /\ x.open = Len(o)
        /\ x.quitPending => x.quitWait \in 1..Len(o) /\ o[x.quitWait].kind = "quit"
    BY <2>3 DEF Counted
  <2> QED  BY <2>1, <2>2, <2>4, <2>5, <2>6
<1>3. Owing(y) = Append(o, a)
  <2>1. \A f, t \in Seq(Answers) : f \o Append(t, a) = Append(f \o t, a)
    BY AppendedLater
  <2>2. x.fromChild \o Append(x.toChild, a) = Append(x.fromChild \o x.toChild, a)
    BY <1>1, <2>1, Zenon
  <2> QED  BY <2>2 DEF Owing
<1>4. Pending(y) = Append(o, a)
  <2>1. Append(o, a) \in Seq(Answers)
    BY <1>1, <1>2, AppendProperties
  <2> QED  BY <1>1, <1>3, <2>1, ConcatEmptySeq DEF Pending
<1> DEFINE q == Append(o, a)
<1>5. /\ Len(q) = Len(o) + 1 /\ \A i \in 1..Len(o) : q[i] = o[i]
      /\ q[Len(o) + 1] = a
  BY <1>1, <1>2, AppendProperties
<1> HIDE DEF o, p, q
<1>7. Counted(y)
  <2>1. y.open = Len(Owing(y))
    BY <1>2, <1>3, <1>5 DEF q
  <2>2. ASSUME y.quitPending
        PROVE  y.quitWait \in 1..Len(q) /\ q[y.quitWait].kind = "quit"
    <3>1. CASE y.quitPending = x.quitPending /\ y.quitWait = x.quitWait
      BY <1>2, <1>5, <2>2, <3>1
    <3>2. CASE a.kind = "quit" /\ y.quitWait = x.open + 1
      BY <1>2, <1>5, <3>2
    <3> QED  BY <3>1, <3>2
  <2>3. Owing(y) = q
    BY <1>3 DEF q
  <2>4. y.open = Len(q)
    BY <2>1, <2>3
  <2> QED  BY <2>2, <2>3, <2>4 DEF Counted
<1>8. Ordered(y)
  <2>1. ASSUME NEW i \in 1..(Len(o) + 1)
        PROVE  q[i].n = y.given + i - 1
    <3> DEFINE m == Len(o)
               g == x.given
    <3>1. /\ m \in Nat /\ g \in Nat /\ y.given = g /\ a.n = g + m
          /\ \A j \in 1..m : q[j] = o[j] /\ o[j].n = g + j - 1
          /\ q[m + 1] = a
      BY <1>2, <1>5
    <3> HIDE DEF m, g
    <3>2. i \in 1..(m + 1)
      BY DEF m
    <3>3. CASE i \in 1..m
      BY <3>1, <3>3
    <3>4. CASE i = m + 1
      <4>1. q[i].n = g + m /\ i - 1 = m
        BY <3>1, <3>4
      <4> QED  BY <3>1, <4>1
    <3> QED  BY <3>1, <3>2, <3>3, <3>4
  <2>2. Pending(y) = q
    BY <1>4 DEF q
  <2>3. y.given + Len(q) = y.next
    BY <1>2, <1>5
  <2> QED  BY <1>2, <1>5, <2>1, <2>2, <2>3 DEF Ordered
<1>9. Len(y.detached) <= MaxDetached /\ y.detached = << >>
  BY <1>1 DEF Kept
<1> QED  BY <1>7, <1>8, <1>9 DEF Kept

\* An attach hands the whole buffer over.
LEMMA KeptEmptied ==
  ASSUME NEW x \in Relayed, NEW y \in Relayed, Kept(x), x.st = "live", y.st = "live",
         y.open = x.open, y.next = x.next, y.given = x.given + Len(x.detached),
         y.quitPending = x.quitPending, y.quitWait = x.quitWait,
         y.toChild = x.toChild, y.fromChild = x.fromChild, y.detached = << >>
  PROVE  Kept(y)
<1> DEFINE d == x.detached
           o == Owing(x)
<1>1. /\ d \in Seq(Answers) /\ o \in Seq(Answers) /\ Len(d) \in Nat /\ Len(o) \in Nat
      /\ x.given \in Nat /\ x.next \in Nat /\ MaxDetached \in Nat
  BY SequencesOf, ServeAssumption DEF Relayed
<1>2. Owing(y) = o /\ Pending(y) = o
  <2>1. Owing(y) = o
    BY DEF Owing
  <2> QED  BY <1>1, <2>1, ConcatEmptySeq DEF Pending
<1>3. Counted(y)
  BY <1>2 DEF Counted, Kept
<1>4. /\ x.given + Len(d) + Len(o) = x.next
      /\ \A i \in 1..(Len(d) + Len(o)) : (d \o o)[i].n = x.given + i - 1
  <2>1. Len(d \o o) = Len(d) + Len(o)
    BY <1>1, ConcatProperties
  <2> QED  BY <1>1, <2>1 DEF Kept, Ordered, Pending
<1>5. ASSUME NEW i \in 1..Len(o)
      PROVE  o[i].n = x.given + Len(d) + i - 1
  <2> HIDE DEF d, o
  <2>1. Len(d) + i \in 1..(Len(d) + Len(o))
    BY <1>1
  <2>2. (d \o o)[Len(d) + i] = o[i]
    <3>1. \A j \in 1..(Len(d) + Len(o)) :
            (d \o o)[j] = IF j <= Len(d) THEN d[j] ELSE o[j - Len(d)]
      BY <1>1, ConcatProperties
    <3> QED  BY <1>1, <2>1, <3>1
  <2>3. (d \o o)[Len(d) + i].n = x.given + (Len(d) + i) - 1
    BY <1>4, <2>1
  <2> QED  BY <1>1, <2>2, <2>3
<1>6. Ordered(y)
  BY <1>1, <1>2, <1>4, <1>5 DEF Ordered
<1>7. Len(y.detached) <= MaxDetached
  BY <1>1, EmptySeq
<1> QED  BY <1>3, <1>6, <1>7 DEF Kept

\* An answer of the child changes its place only.
LEMMA KeptAnswered ==
  ASSUME NEW x \in Relayed, NEW y \in Relayed, Kept(x), x.toChild # << >>,
         y.st = x.st, y.open = x.open, y.next = x.next, y.given = x.given, y.conn = x.conn,
         y.quitPending = x.quitPending, y.quitWait = x.quitWait, y.detached = x.detached,
         y.toChild = Tail(x.toChild), y.fromChild = Append(x.fromChild, Head(x.toChild))
  PROVE  Kept(y)
<1>1. x.fromChild \in Seq(Answers) /\ x.toChild \in Seq(Answers)
  BY DEF Relayed
<1>2. Owing(y) = Owing(x)
  <2>1. \A f, t \in Seq(Answers) : t # << >> => Append(f, Head(t)) \o Tail(t) = f \o t
    BY Answered
  <2>2. Append(x.fromChild, Head(x.toChild)) \o Tail(x.toChild) = x.fromChild \o x.toChild
    BY <1>1, <2>1, Zenon
  <2> QED  BY <2>2 DEF Owing
<1>3. Pending(y) = Pending(x)
  BY <1>2 DEF Pending
<1> QED  BY <1>2, <1>3 DEF Kept, Counted, Ordered

\* what is left when the oldest answer has been read
LEMMA CountedDown ==
  ASSUME NEW x \in Relayed, NEW y \in Relayed, Kept(x), x.st = "live",
         x.fromChild # << >>, y.fromChild = Tail(x.fromChild), y.toChild = x.toChild,
         y.open = IF x.open > 0 THEN x.open - 1 ELSE 0,
         y.quitPending => /\ x.quitPending /\ ~(x.quitWait <= 1)
                          /\ y.quitWait = x.quitWait - 1
  PROVE  /\ Counted(y) /\ Len(Owing(x)) \in Nat \ {0}
         /\ Owing(y) \in Seq(Answers) /\ Len(Owing(y)) = Len(Owing(x)) - 1
         /\ \A i \in 1..(Len(Owing(x)) - 1) : Owing(y)[i] = Owing(x)[i + 1]
         /\ Owing(x)[1] = Head(x.fromChild)
         /\ Owing(y) = Tail(Owing(x)) /\ Owing(x) # << >>
<1> DEFINE o == Owing(x)
           r == Owing(y)
<1>1. /\ x.fromChild \in Seq(Answers) /\ x.toChild \in Seq(Answers)
      /\ x.open \in Nat /\ x.quitWait \in Nat
  BY DEF Relayed
<1>2. /\ r \in Seq(Answers) /\ Len(r) = Len(o) - 1
      /\ \A i \in 1..(Len(o) - 1) : r[i] = o[i + 1]
      /\ o[1] = Head(x.fromChild)
  <2>1. \A f, t \in Seq(Answers) : f # << >> =>
          /\ Tail(f) \o t \in Seq(Answers) /\ Len(Tail(f) \o t) = Len(f \o t) - 1
          /\ \A i \in 1..(Len(f \o t) - 1) : (Tail(f) \o t)[i] = (f \o t)[i + 1]
          /\ (f \o t)[1] = Head(f)
    BY Taken
  <2> DEFINE f == x.fromChild
             t == x.toChild
  <2>2. f \in Seq(Answers) /\ t \in Seq(Answers) /\ f # << >>
    BY <1>1
  <2>3. r = Tail(f) \o t /\ o = f \o t
    BY DEF Owing
  <2> HIDE DEF o, r, f, t
  <2>4. /\ Tail(f) \o t \in Seq(Answers) /\ Len(Tail(f) \o t) = Len(f \o t) - 1
        /\ \A i \in 1..(Len(f \o t) - 1) : (Tail(f) \o t)[i] = (f \o t)[i + 1]
        /\ (f \o t)[1] = Head(f)
    BY <2>1, <2>2, Zenon
  <2> QED  BY <2>3, <2>4, Zenon DEF f
<1>3. Len(o) \in Nat \ {0}
  <2>1. Len(o) \in Nat /\ Len(r) \in Nat
    BY <1>2, SequencesOf, LenProperties
  <2> QED  BY <1>2, <2>1
<1>4. /\ x.open = Len(o)
      /\ x.quitPending => x.quitWait \in 1..Len(o) /\ o[x.quitWait].kind = "quit"
  BY DEF Kept, Counted
<1> HIDE DEF o, r
<1>5. y.open = Len(r)
  BY <1>1, <1>2, <1>3, <1>4
<1>6. ASSUME y.quitPending
      PROVE  y.quitWait \in 1..Len(r) /\ r[y.quitWait].kind = "quit"
  <2>1. /\ x.quitWait \in 1..Len(o) /\ o[x.quitWait].kind = "quit"
        /\ x.quitWait > 1 /\ y.quitWait = x.quitWait - 1
    BY <1>1, <1>4, <1>6
  <2> QED  BY <1>2, <1>3, <2>1
<1>7. Counted(y)
  BY <1>5, <1>6 DEF Counted, r
<1>8. r = Tail(o) /\ o # << >>
  <2>1. o \in Seq(Answers)
    BY SequencesOf DEF o
  <2>2. o # << >>
    BY <1>3, EmptySeq
  <2>3. /\ Tail(o) \in Seq(Answers) /\ Len(Tail(o)) = Len(o) - 1
        /\ \A i \in 1..Len(Tail(o)) : Tail(o)[i] = o[i + 1]
    BY <2>1, <2>2, HeadTailProperties
  <2>4. Len(r) = Len(Tail(o)) /\ \A i \in 1..Len(r) : r[i] = Tail(o)[i]
    BY <1>2, <1>3, <2>3
  <2> QED  BY <1>2, <2>2, <2>3, <2>4, SeqEqual
<1> QED  BY <1>2, <1>3, <1>7, <1>8 DEF o, r

\* The oldest answer goes to the client, which has nothing in the buffer.
LEMMA KeptSent ==
  ASSUME NEW x \in Relayed, NEW y \in Relayed, Kept(x), x.st = "live", y.st = "live",
         x.fromChild # << >>, y.fromChild = Tail(x.fromChild), y.toChild = x.toChild,
         y.open = IF x.open > 0 THEN x.open - 1 ELSE 0,
         y.quitPending => /\ x.quitPending /\ ~(x.quitWait <= 1)
                          /\ y.quitWait = x.quitWait - 1,
         x.conn # None, y.detached = x.detached, y.next = x.next,
         y.given = Head(x.fromChild).n + 1
  PROVE  Kept(y)
<1> DEFINE o == Owing(x)
           r == Owing(y)
<1>1. /\ Counted(y) /\ Len(o) \in Nat \ {0} /\ o \in Seq(Answers)
      /\ r \in Seq(Answers) /\ Len(r) = Len(o) - 1
      /\ \A i \in 1..(Len(o) - 1) : r[i] = o[i + 1]
      /\ o[1] = Head(x.fromChild)
  BY CountedDown, SequencesOf
<1>2. x.detached = << >> /\ y.detached = << >> /\ x.given \in Nat /\ x.next \in Nat
  BY DEF Kept, Relayed
<1>3. Pending(x) = o /\ Pending(y) = r
  BY <1>1, <1>2, ConcatEmptySeq DEF Pending
<1>4. x.given + Len(o) = x.next /\ \A i \in 1..Len(o) : o[i].n = x.given + i - 1
  BY <1>3 DEF Kept, Ordered
<1> HIDE DEF o, r
<1>5. y.given = x.given + 1
  BY <1>1, <1>2, <1>4
<1>6. ASSUME NEW i \in 1..Len(r)
      PROVE  r[i].n = y.given + i - 1
  <2>1. i \in 1..(Len(o) - 1) /\ Len(o) \in Nat
    BY <1>1
  <2>2. r[i] = o[i + 1]
    BY <1>1, <2>1
  <2>3. i + 1 \in 1..Len(o)
    BY <2>1
  <2>4. o[i + 1].n = x.given + (i + 1) - 1
    BY <1>4, <2>3
  <2> QED  BY <1>2, <1>5, <2>1, <2>2, <2>4
<1>7. y.given + Len(r) = y.next
  BY <1>1, <1>2, <1>4, <1>5
<1>8. Ordered(y)
  BY <1>3, <1>6, <1>7 DEF Ordered
<1> QED  BY <1>1, <1>2, <1>8 DEF Kept

\* Without a client it goes to the end of the buffer, which loses its oldest
\* answer when it is full.
LEMMA KeptBuffered ==
  ASSUME NEW x \in Relayed, NEW y \in Relayed, Kept(x), x.st = "live", y.st = "live",
         x.fromChild # << >>, y.fromChild = Tail(x.fromChild), y.toChild = x.toChild,
         y.open = IF x.open > 0 THEN x.open - 1 ELSE 0,
         y.quitPending => /\ x.quitPending /\ ~(x.quitWait <= 1)
                          /\ y.quitWait = x.quitWait - 1,
         y.conn = None, y.next = x.next, NEW full \in BOOLEAN,
         full <=> Len(x.detached) >= MaxDetached,
         y.detached = IF full THEN Tail(Append(x.detached, Head(x.fromChild)))
                      ELSE Append(x.detached, Head(x.fromChild)),
         y.given = IF full THEN x.given + 1 ELSE x.given
  PROVE  Kept(y)
<1> DEFINE d == x.detached
           e == Append(d, Head(x.fromChild))
           o == Owing(x)
           r == Owing(y)
           p == Pending(x)
<1>1. /\ Counted(y) /\ o \in Seq(Answers) /\ r \in Seq(Answers)
      /\ r = Tail(o) /\ o # << >> /\ o[1] = Head(x.fromChild)
  BY CountedDown, SequencesOf
<1>2. /\ d \in Seq(Answers) /\ Len(d) \in Nat /\ x.given \in Nat /\ x.next \in Nat
      /\ MaxDetached \in Nat /\ p \in Seq(Answers) /\ Len(p) \in Nat
      /\ Len(d) <= MaxDetached
  BY SequencesOf, LenProperties, ServeAssumption DEF Relayed, Kept
<1>3. x.given + Len(p) = x.next /\ \A i \in 1..Len(p) : p[i].n = x.given + i - 1
  BY DEF Kept, Ordered
<1>4. /\ Head(o) = Head(x.fromChild) /\ Head(o) \in Answers
      /\ e \in Seq(Answers) /\ Len(e) = Len(d) + 1 /\ e # << >>
  <2>1. Head(o) = o[1] /\ Head(o) \in Answers
    BY <1>1, HeadTailProperties
  <2>2. Head(o) = Head(x.fromChild)
    BY <1>1, <2>1
  <2> DEFINE a == Head(x.fromChild)
  <2>3. a \in Answers
    BY <2>1, <2>2
  <2> HIDE DEF a, d
  <2>4. /\ Append(d, a) \in Seq(Answers) /\ Len(Append(d, a)) = Len(d) + 1
        /\ Append(d, a) # << >>
    BY <1>2, <2>3, AppendProperties
  <2> QED  BY <2>1, <2>2, <2>4 DEF a
<1>5. e \o r = p
  <2>1. \A f, t \in Seq(Answers) : t # << >> => Append(f, Head(t)) \o Tail(t) = f \o t
    BY Answered
  <2>2. Append(d, Head(o)) \o Tail(o) = d \o o
    <3> HIDE DEF d, o
    <3> QED  BY <1>1, <1>2, <2>1, Zenon
  <2> QED  BY <1>1, <1>4, <2>2 DEF Pending
<1> HIDE DEF d, e, o, r, p
<1>6. CASE ~full
  <2>1. y.detached = e /\ y.given = x.given
    BY <1>6 DEF e, d
  <2>2. Pending(y) = p
    BY <1>5, <2>1 DEF Pending, r
  <2>3. Ordered(y)
    BY <1>3, <2>1, <2>2 DEF Ordered
  <2>4. Len(y.detached) <= MaxDetached
    BY <1>2, <1>4, <1>6, <2>1 DEF d
  <2> QED  BY <1>1, <2>3, <2>4 DEF Kept
<1>7. CASE full
  <2>1. y.detached = Tail(e) /\ y.given = x.given + 1
    BY <1>7 DEF e, d
  <2>2. /\ Len(Tail(e) \o r) = Len(e \o r) - 1
        /\ \A i \in 1..(Len(e \o r) - 1) : (Tail(e) \o r)[i] = (e \o r)[i + 1]
        /\ Tail(e) \o r \in Seq(Answers)
    BY <1>1, <1>4, Taken
  <2>3. Pending(y) = Tail(e) \o r
    BY <2>1 DEF Pending, r
  <2> DEFINE q == Tail(e) \o r
  <2>4. Len(q) = Len(p) - 1 /\ \A i \in 1..(Len(p) - 1) : q[i] = p[i + 1]
    BY <1>5, <2>2
  <2> HIDE DEF q
  <2>5. ASSUME NEW i \in 1..Len(q)
        PROVE  q[i].n = y.given + i - 1
    <3>1. i \in 1..(Len(p) - 1) /\ Len(p) \in Nat
      BY <1>2, <2>4
    <3>2. q[i] = p[i + 1] /\ i + 1 \in 1..Len(p)
      BY <2>4, <3>1
    <3>3. p[i + 1].n = x.given + (i + 1) - 1
      BY <1>3, <3>2
    <3> QED  BY <1>2, <2>1, <3>1, <3>2, <3>3
  <2>6. y.given + Len(q) = y.next
    BY <1>2, <1>3, <2>1, <2>4
  <2>7. Ordered(y)
    BY <2>3, <2>5, <2>6 DEF Ordered, q
  <2>8. Len(y.detached) <= MaxDetached
    <3>1. Len(Tail(e)) = Len(e) - 1
      BY <1>4, HeadTailProperties
    <3>2. Len(y.detached) = Len(Tail(e))
      BY <2>1, Zenon
    <3>3. Len(e) = Len(d) + 1
      BY <1>4
    <3> HIDE DEF e
    <3> QED  BY <1>2, <3>1, <3>2, <3>3
  <2> QED  BY <1>1, <2>7, <2>8 DEF Kept
<1> QED  BY <1>6, <1>7

(***************************************************************************)
(* Worlds.                                                                 *)
(***************************************************************************)
LEMMA Fields ==
  ASSUME NEW w \in Worlds
  PROVE  /\ w.conn \in [Conns -> Clients] /\ w.ses \in [Sessions -> Relayed]
         /\ w.tracked \subseteq Conns \cup (Sessions \X {"to", "from"})
         /\ w.report \in BOOLEAN
         /\ \A c \in Conns : w.conn[c] \in Clients
         /\ \A s \in Sessions : w.ses[s] \in Relayed
  BY DEF Worlds

\* v differs from w in what the read and write handlers of its connections do
SameLinks(w, v) ==
  /\ v \in Worlds /\ v.ses = w.ses /\ v.tracked = w.tracked
  /\ \A c \in Conns : /\ IsOpen(v, c) <=> IsOpen(w, c)
                      /\ v.conn[c].ses = w.conn[c].ses

LEMMA GoodSameLinks ==
  ASSUME NEW w, NEW v, Good(w), SameLinks(w, v)
  PROVE  Good(v)
  BY DEF Good, SameLinks, Linked, Held, InTable

LEMMA PutConn ==
  ASSUME NEW w \in Worlds, NEW c \in Conns, NEW r \in Clients
  PROVE  LET v == [w EXCEPT !.conn[c] = r]
         IN  /\ v \in Worlds /\ v.conn[c] = r
             /\ \A d \in Conns \ {c} : v.conn[d] = w.conn[d]
             /\ v.ses = w.ses /\ v.tracked = w.tracked /\ v.report = w.report
  BY DEF Worlds

LEMMA PutSes ==
  ASSUME NEW w \in Worlds, NEW s \in Sessions, NEW x \in Relayed
  PROVE  LET v == [w EXCEPT !.ses[s] = x]
         IN  /\ v \in Worlds /\ v.ses[s] = x
             /\ \A t \in Sessions \ {s} : v.ses[t] = w.ses[t]
             /\ v.conn = w.conn /\ v.tracked = w.tracked /\ v.report = w.report
  BY DEF Worlds

LEMMA LinksPut ==
  ASSUME NEW w \in Worlds, NEW c \in Conns, NEW r \in Clients,
         r.ses = w.conn[c].ses,
         r.st \in {"open", "draining"} <=> w.conn[c].st \in {"open", "draining"}
  PROVE  SameLinks(w, [w EXCEPT !.conn[c] = r])
  BY PutConn DEF SameLinks, IsOpen

LEMMA ReadStateLinks ==
  ASSUME NEW w \in Worlds, NEW c \in Conns
  PROVE  SameLinks(w, UpdateReadState(w, c))
<1> DEFINE p == [w.conn[c] EXCEPT !.paused = TRUE]
           r == [w.conn[c] EXCEPT !.paused = FALSE, !.reading = TRUE]
<1>1. SameLinks(w, w)
  BY DEF SameLinks
<1>2. SameLinks(w, [w EXCEPT !.conn[c] = p])
  <2>1. p \in Clients /\ p.st = w.conn[c].st /\ p.ses = w.conn[c].ses
    <3>1. w.conn[c] \in Clients
      BY Fields
    <3> QED  BY <3>1 DEF Clients
  <2> HIDE DEF p, r
  <2> QED  BY <2>1, LinksPut
<1>3. SameLinks(w, [w EXCEPT !.conn[c] = r])
  <2>1. r \in Clients /\ r.st = w.conn[c].st /\ r.ses = w.conn[c].ses
    <3>1. w.conn[c] \in Clients
      BY Fields
    <3> QED  BY <3>1 DEF Clients
  <2> HIDE DEF p, r
  <2> QED  BY <2>1, LinksPut
<1> QED  BY <1>1, <1>2, <1>3 DEF UpdateReadState

LEMMA SendLinks ==
  ASSUME NEW w \in Worlds, NEW c \in Conns, NEW k \in Nat
  PROVE  SameLinks(w, Send(w, c, k))
<1> DEFINE t == IF w.conn[c].out = 0 THEN WriteTimeout ELSE w.conn[c].timer
           q == [w.conn[c] EXCEPT !.out = w.conn[c].out + k, !.timer = t]
           v == [w EXCEPT !.conn[c] = q]
<1>1. q \in Clients /\ q.st = w.conn[c].st /\ q.ses = w.conn[c].ses
  <2>1. t \in BOOLEAN /\ w.conn[c] \in Clients /\ w.conn[c].out + k \in Nat
    BY Fields, ServeAssumption DEF Clients
  <2> HIDE DEF t
  <2> QED  BY <2>1 DEF Clients
<1>2. SameLinks(w, v)
  <2> HIDE DEF q
  <2> QED  BY <1>1, LinksPut
<1>3. SameLinks(v, UpdateReadState(v, c))
  <2>1. v \in Worlds
    BY <1>2 DEF SameLinks
  <2> HIDE DEF v
  <2> QED  BY <2>1, ReadStateLinks
<1>4. SameLinks(w, UpdateReadState(v, c))
  BY <1>2, <1>3 DEF SameLinks
<1>5. Send(w, c, k) = w \/ Send(w, c, k) = UpdateReadState(v, c)
  BY DEF Send
<1>6. SameLinks(w, w)
  BY DEF SameLinks
<1> QED  BY <1>4, <1>5, <1>6

\* A session record that another one replaces, with the same client.
LEMMA GoodPut ==
  ASSUME NEW w, NEW v, Good(w), NEW s \in Sessions, NEW x \in Relayed, Kept(x),
         x.conn = w.ses[s].conn, v \in Worlds, v.conn = w.conn, v.ses[s] = x,
         \A t \in Sessions \ {s} : v.ses[t] = w.ses[t], Held(v)
  PROVE  Good(v)
<1>1. \A t \in Sessions : v.ses[t].conn = w.ses[t].conn
  OBVIOUS
<1>2. \A t \in Sessions : Kept(v.ses[t])
  BY DEF Good
<1>3. Linked(v)
  BY <1>1 DEF Good, Linked, IsOpen
<1> QED  BY <1>2, <1>3 DEF Good

\* The same with the state, and so the descriptors, of the session unchanged.
LEMMA GoodPutHere ==
  ASSUME NEW w, Good(w), NEW s \in Sessions, NEW x \in Relayed, Kept(x),
         x.conn = w.ses[s].conn, x.st = w.ses[s].st
  PROVE  Good([w EXCEPT !.ses[s] = x])
<1> DEFINE v == [w EXCEPT !.ses[s] = x]
<1>1. w \in Worlds
  BY DEF Good
<1>2. /\ v \in Worlds /\ v.conn = w.conn /\ v.tracked = w.tracked /\ v.ses[s] = x
      /\ \A t \in Sessions \ {s} : v.ses[t] = w.ses[t]
  BY <1>1, PutSes
<1> HIDE DEF v
<1>3. \A t \in Sessions : v.ses[t].st = w.ses[t].st
  BY <1>2
<1>4. Held(v)
  BY <1>2, <1>3 DEF Good, Held, InTable, IsOpen
<1> QED  BY <1>2, <1>4, GoodPut DEF v

LEMMA LogWriteGood ==
  ASSUME NEW w, Good(w), NEW s \in Sessions
  PROVE  Good(LogWrite(w, s))
<1> DEFINE x == [w.ses[s] EXCEPT !.logOk = FALSE]
           u == [w EXCEPT !.ses[s] = x]
           v == [w EXCEPT !.ses[s].logOk = FALSE, !.report = TRUE]
<1>1. w \in Worlds /\ w.ses[s] \in Relayed
  BY Fields DEF Good
<1>2. x \in Relayed /\ Alike(w.ses[s], x) /\ x.conn = w.ses[s].conn
  BY <1>1 DEF Relayed, Alike
<1>3. Kept(x)
  <2>1. Kept(w.ses[s])
    BY DEF Good
  <2> HIDE DEF x
  <2> QED  BY <1>2, <2>1, KeptAlike DEF Kept, Alike
<1>4. Good(u)
  <2> HIDE DEF x
  <2> QED  BY <1>2, <1>3, GoodPutHere DEF Alike
<1>5. v \in Worlds /\ v.conn = u.conn /\ v.ses = u.ses /\ v.tracked = u.tracked
  BY <1>1, <1>2 DEF Worlds
<1>6. Good(v)
  <2> HIDE DEF u, v
  <2> QED  BY <1>4, <1>5 DEF Good, Linked, Held, InTable, IsOpen
<1> QED  BY <1>6 DEF LogWrite

LEMMA CloseGood ==
  ASSUME NEW w, Good(w), NEW c \in Conns
  PROVE  Good(Close(w, c))
<1> DEFINE r == [NewConn EXCEPT !.st = "closed"]
           s == w.conn[c].ses
           v == [w EXCEPT !.conn[c] = r, !.tracked = @ \ {c}]
           x == [w.ses[s] EXCEPT !.conn = None]
           u == [v EXCEPT !.ses[s].conn = IF @ = c THEN None ELSE @]
<1>1. w \in Worlds /\ s \in Sessions \cup {None}
  BY Fields DEF Good, Clients
<1>2. CASE ~IsOpen(w, c)
  <2>1. Close(w, c) = w
    BY <1>2 DEF Close
  <2> QED  BY <2>1
<1>3. r \in Clients /\ r.st = "closed" /\ r.ses = None
  BY DEF Clients, NewConn
<1>4. /\ v \in Worlds /\ v.ses = w.ses /\ v.tracked = w.tracked \ {c} /\ v.conn[c] = r
      /\ \A d \in Conns \ {c} : v.conn[d] = w.conn[d]
  <2> HIDE DEF r
  <2> QED  BY <1>1, <1>3 DEF Worlds
<1>5. ~IsOpen(v, c) /\ \A d \in Conns \ {c} : IsOpen(v, d) <=> IsOpen(w, d)
  <2> HIDE DEF r, v
  <2> QED  BY <1>3, <1>4 DEF IsOpen
<1>6. \A d \in Conns, t \in Sessions : d # <<t, "to">> /\ d # <<t, "from">>
  BY ServeAssumption
<1>7. ASSUME NEW y \in Worlds, y.conn = v.conn, y.tracked = v.tracked,
             \A t \in Sessions : y.ses[t].st = w.ses[t].st
      PROVE  Held(y)
  <2> HIDE DEF v
  <2>1. ASSUME NEW d \in Conns, IsOpen(y, d)  PROVE d \in y.tracked
    <3>1. d # c /\ IsOpen(w, d)
      BY <1>5, <1>7, <2>1 DEF IsOpen
    <3> QED  BY <1>4, <1>7, <3>1 DEF Good, Held
  <2>2. ASSUME NEW t \in Sessions
        PROVE  /\ y.ses[t].st = "live" => Pipes(t) \subseteq y.tracked
               /\ t \in InTable(y) => <<t, "from">> \in y.tracked
    <3>1. Pipes(t) \subseteq w.tracked => Pipes(t) \subseteq y.tracked
      BY <1>4, <1>6, <1>7 DEF Pipes
    <3>2. <<t, "from">> \in w.tracked => <<t, "from">> \in y.tracked
      BY <1>4, <1>6, <1>7
    <3> QED  BY <1>7, <3>1, <3>2 DEF Good, Held, InTable
  <2> QED  BY <2>1, <2>2 DEF Held
<1>8. CASE IsOpen(w, c) /\ s = None
  <2>1. Close(w, c) = v
    BY <1>8 DEF Close
  <2>2. Held(v)
    <3> HIDE DEF v
    <3> QED  BY <1>4, <1>7
  <2>3. Linked(v)
    <3> HIDE DEF v
    <3>1. \A t \in Sessions : w.ses[t].conn # c
      BY <1>8, ServeAssumption DEF Good, Linked
    <3>2. \A d \in Conns : ~IsOpen(v, d) => v.conn[d].ses = None
      BY <1>3, <1>4, <1>5 DEF Good, Linked
    <3>3. \A d \in Conns, t \in Sessions :
            v.ses[t].conn = d <=> IsOpen(v, d) /\ v.conn[d].ses = t
      BY <1>4, <1>5, <3>1 DEF Good, Linked
    <3> QED  BY <3>2, <3>3 DEF Linked
  <2> HIDE DEF v
  <2> QED  BY <1>4, <2>1, <2>2, <2>3 DEF Good
<1>9. CASE IsOpen(w, c) /\ s # None
  <2>1. s \in Sessions /\ w.ses[s].conn = c /\ v.ses[s].conn = c
    BY <1>1, <1>4, <1>9 DEF Good, Linked
  <2>2. x \in Relayed /\ Alike(w.ses[s], x) /\ x.conn = None
    <3>1. w.ses[s] \in Relayed
      BY <1>1, <2>1, Fields
    <3> HIDE DEF s
    <3> QED  BY <3>1 DEF Relayed, Alike
  <2>3. Kept(x)
    <3>1. Kept(w.ses[s])
      BY <2>1 DEF Good
    <3> HIDE DEF x
    <3> QED  BY <2>2, <3>1, KeptAlike
  <2>4. /\ u \in Worlds /\ u.conn = v.conn /\ u.tracked = v.tracked /\ u.ses[s] = x
        /\ \A t \in Sessions \ {s} : u.ses[t] = w.ses[t]
    <3>1. u = [v EXCEPT !.ses[s] = x]
      BY <1>4, <2>1 DEF Worlds
    <3> HIDE DEF u, v, x
    <3> QED  BY <1>4, <2>1, <2>2, <3>1, PutSes
  <2>5. Held(u)
    <3>1. x.st = w.ses[s].st
      BY <2>2 DEF Alike
    <3> HIDE DEF u, v, x
    <3> QED  BY <1>7, <2>4, <3>1
  <2>6. Linked(u)
    <3> HIDE DEF u, v, x
    <3>1. ASSUME NEW d \in Conns, NEW t \in Sessions
          PROVE  u.ses[t].conn = d <=> IsOpen(u, d) /\ u.conn[d].ses = t
      <4>1. IsOpen(u, d) <=> d # c /\ IsOpen(w, d)
        BY <1>5, <2>4 DEF IsOpen
      <4>2. CASE t = s
        BY <1>4, <2>1, <2>2, <2>4, <4>1, <4>2, ServeAssumption DEF Good, Linked
      <4>3. CASE t # s
        BY <1>4, <2>1, <2>4, <4>1, <4>3 DEF Good, Linked
      <4> QED  BY <4>2, <4>3
    <3>2. ASSUME NEW d \in Conns, ~IsOpen(u, d)  PROVE u.conn[d].ses = None
      <4>1. CASE d = c
        BY <1>3, <1>4, <2>4, <4>1
      <4>2. CASE d # c
        BY <1>4, <1>5, <2>4, <3>2, <4>2 DEF Good, Linked, IsOpen
      <4> QED  BY <4>1, <4>2
    <3> QED  BY <3>1, <3>2 DEF Linked
  <2>7. Good(u)
    <3> HIDE DEF u, v, x
    <3> QED  BY <2>3, <2>4, <2>5, <2>6 DEF Good
  <2>8. Close(w, c) = LogWrite(u, s)
    BY <1>9 DEF Close
  <2> HIDE DEF u
  <2> QED  BY <2>1, <2>7, <2>8, LogWriteGood
<1> QED  BY <1>2, <1>8, <1>9

LEMMA CloseAfterFlushGood ==
  ASSUME NEW w, Good(w), NEW c \in Conns
  PROVE  Good(CloseAfterFlush(w, c))
<1> DEFINE r == [w.conn[c] EXCEPT !.st = "draining"]
           v == [w EXCEPT !.conn[c].st = "draining"]
<1>1. ASSUME IsOpen(w, c)
      PROVE  Good(v)
  <2>1. w \in Worlds /\ w.conn[c] \in Clients
    BY Fields DEF Good
  <2>2. /\ r \in Clients /\ r.ses = w.conn[c].ses
        /\ r.st \in {"open", "draining"} /\ w.conn[c].st \in {"open", "draining"}
    BY <1>1, <2>1 DEF Clients, IsOpen
  <2>3. v = [w EXCEPT !.conn[c] = r]
    BY <2>1 DEF Worlds
  <2> HIDE DEF r, v
  <2>4. SameLinks(w, v)
    BY <2>1, <2>2, <2>3, LinksPut
  <2> QED  BY <2>4, GoodSameLinks
<1>2. Good(Close(w, c))
  BY CloseGood
<1> HIDE DEF v
<1> QED  BY <1>1, <1>2 DEF CloseAfterFlush, v

LEMMA SendGood ==
  ASSUME NEW w, Good(w), NEW c \in Conns, NEW k \in Nat
  PROVE  Good(Send(w, c, k))
  BY SendLinks, GoodSameLinks DEF Good

LEMMA RefuseGood ==
  ASSUME NEW w, Good(w), NEW c \in Conns
  PROVE  Good(Refuse(w, c))
<1>1. Good(Send(w, c, 1))
  BY SendGood
<1> QED  BY <1>1, CloseAfterFlushGood DEF Refuse

\* A session that ends keeps its client, and no promise about answers.
LEMMA KeptEnding ==
  ASSUME NEW w, Good(w), NEW s \in Sessions, NEW x \in Relayed,
         x.st \in {"ending", "gone"}, x.conn = w.ses[s].conn,
         x.detached \in {<< >>, w.ses[s].detached}
  PROVE  Kept(x)
<1>1. Kept(w.ses[s])
  BY DEF Good
<1>2. Len(<< >>) <= MaxDetached
  BY EmptySeq, ServeAssumption
<1> QED  BY <1>1, <1>2 DEF Kept

LEMMA EndSessionGood ==
  ASSUME NEW w, Good(w), NEW s \in Sessions, w.ses[s].st # "free"
  PROVE  Good(EndSession(w, s))
<1> DEFINE x == [w.ses[s] EXCEPT !.st = "ending", !.endTimer = TRUE]
           v == [w EXCEPT !.ses[s] = x, !.tracked = @ \ {<<s, "to">>}]
<1>1. w \in Worlds /\ w.ses[s] \in Relayed
  BY Fields DEF Good
<1>2. CASE Ended(w, s)
  BY <1>2 DEF EndSession
<1>3. CASE ~Ended(w, s)
  <2>1. /\ x \in Relayed /\ x.st = "ending" /\ x.conn = w.ses[s].conn
        /\ x.detached = w.ses[s].detached
    BY <1>1 DEF Relayed
  <2>2. Kept(x)
    <3> HIDE DEF x
    <3> QED  BY <2>1, KeptEnding
  <2>3. /\ v \in Worlds /\ v.conn = w.conn /\ v.ses[s] = x
        /\ v.tracked = w.tracked \ {<<s, "to">>}
        /\ \A t \in Sessions \ {s} : v.ses[t] = w.ses[t]
    <3> HIDE DEF x
    <3> QED  BY <1>1, <2>1 DEF Worlds
  <2> HIDE DEF v, x
  <2>4. w.ses[s].st = "live"
    BY <1>1, <1>3 DEF Relayed, Ended
  <2> QED
    <3>1. Held(v)
      <4>1. \A c \in Conns : IsOpen(v, c) => c \in v.tracked
        BY <2>3, ServeAssumption DEF Good, Held, IsOpen
      <4>2. ASSUME NEW t \in Sessions \ {s}
            PROVE  /\ v.ses[t].st = "live" => Pipes(t) \subseteq v.tracked
                   /\ t \in InTable(v) => <<t, "from">> \in v.tracked
        BY <2>3 DEF Good, Held, InTable, Pipes
      <4>3. v.ses[s].st # "live" /\ <<s, "from">> \in v.tracked
        BY <2>1, <2>3, <2>4 DEF Good, Held, Pipes
      <4> QED  BY <4>1, <4>2, <4>3 DEF Held
    <3>2. Good(v)
      BY <2>1, <2>2, <2>3, <3>1, GoodPut
    <3>3. Good(IF v.ses[s].conn = None THEN v ELSE Refuse(v, v.ses[s].conn))
      <4>1. v.ses[s].conn \in Conns \cup {None}
        BY <2>3, Fields DEF Relayed
      <4> QED  BY <3>2, <4>1, RefuseGood
    <3> QED  BY <1>3, <3>3 DEF EndSession, v, x
<1> QED  BY <1>2, <1>3

LEMMA ShutdownGood ==
  ASSUME NEW w, Good(w), NEW s \in Sessions
  PROVE  Good(Shutdown(w, s))
<1> DEFINE x == [w.ses[s] EXCEPT !.st = "gone"]
           v == [w EXCEPT !.ses[s].st = "gone"]
           u == IF v.ses[s].conn = None THEN v ELSE CloseAfterFlush(v, v.ses[s].conn)
           y == [NewSession EXCEPT !.st = "gone", !.conn = u.ses[s].conn,
                                   !.open = u.ses[s].open, !.logOk = u.ses[s].logOk]
           z == [u EXCEPT !.ses[s] = y, !.tracked = @ \ Pipes(s)]
<1>1. w \in Worlds /\ w.ses[s] \in Relayed
  BY Fields DEF Good
<1>2. Good(v)
  <2>1. /\ x \in Relayed /\ x.st = "gone" /\ x.conn = w.ses[s].conn
        /\ x.detached = w.ses[s].detached
    BY <1>1 DEF Relayed
  <2>2. v = [w EXCEPT !.ses[s] = x]
    BY <1>1 DEF Worlds
  <2> HIDE DEF v, x
  <2>3. Kept(x)
    BY <2>1, KeptEnding
  <2>4. /\ v \in Worlds /\ v.conn = w.conn /\ v.tracked = w.tracked /\ v.ses[s] = x
        /\ \A t \in Sessions \ {s} : v.ses[t] = w.ses[t]
    BY <1>1, <2>1, <2>2, PutSes
  <2>5. Held(v)
    BY <2>1, <2>4 DEF Good, Held, InTable, IsOpen
  <2> QED  BY <2>1, <2>3, <2>4, <2>5, GoodPut
<1>3. Good(u)
  <2> HIDE DEF v
  <2>1. v.ses[s].conn \in Conns \cup {None}
    BY <1>2, Fields DEF Good, Relayed
  <2> QED  BY <1>2, <2>1, CloseAfterFlushGood
<1> HIDE DEF u
<1>4. u \in Worlds /\ u.ses[s] \in Relayed
  BY <1>3, Fields DEF Good
<1>5. /\ y \in Relayed /\ y.st = "gone" /\ y.conn = u.ses[s].conn /\ y.detached = << >>
  <2> DEFINE n == u.ses[s].conn
             o == u.ses[s].open
             l == u.ses[s].logOk
             t == [NewSession EXCEPT !.st = "gone", !.conn = n, !.open = o, !.logOk = l]
  <2>1. << >> \in Seq(Answers)
    BY EmptySeq
  <2>2. n \in Conns \cup {None} /\ o \in Nat /\ l \in BOOLEAN
    BY <1>4 DEF Relayed
  <2>3. y = t
    OBVIOUS
  <2> HIDE DEF n, o, l, y
  <2>4. /\ t \in Relayed /\ t.st = "gone" /\ t.conn = n /\ t.detached = << >>
    BY <2>1, <2>2 DEF Relayed, NewSession
  <2> HIDE DEF t
  <2> QED  BY <2>3, <2>4 DEF n
<1> HIDE DEF y
<1>6. Kept(y)
  BY <1>3, <1>5, KeptEnding
<1>7. /\ z \in Worlds /\ z.conn = u.conn /\ z.ses[s] = y /\ z.tracked = u.tracked \ Pipes(s)
      /\ \A t \in Sessions \ {s} : z.ses[t] = u.ses[t]
  BY <1>4, <1>5 DEF Worlds
<1> HIDE DEF z
<1>8. Held(z)
  <2>1. \A c \in Conns : IsOpen(z, c) => c \in z.tracked
    BY <1>3, <1>7, ServeAssumption DEF Good, Held, IsOpen, Pipes
  <2>2. ASSUME NEW t \in Sessions \ {s}
        PROVE  /\ z.ses[t].st = "live" => Pipes(t) \subseteq z.tracked
               /\ t \in InTable(z) => <<t, "from">> \in z.tracked
    BY <1>3, <1>7 DEF Good, Held, InTable, Pipes
  <2>3. z.ses[s].st # "live" /\ s \notin InTable(z)
    BY <1>5, <1>7 DEF InTable
  <2> QED  BY <2>1, <2>2, <2>3 DEF Held
<1>9. Good(z)
  BY <1>3, <1>5, <1>6, <1>7, <1>8, GoodPut
<1>10. Shutdown(w, s) = IF w.ses[s].st = "gone" THEN w ELSE z
  BY DEF Shutdown, z, y, u
<1> QED  BY <1>9, <1>10

\* A client that has none takes a session that has none.
LEMMA AttachGood ==
  ASSUME NEW w, Good(w), NEW s \in Sessions, NEW c \in Conns,
         w.ses[s].st = "live", w.ses[s].conn = None,
         IsOpen(w, c), w.conn[c].ses = None
  PROVE  LET v == Attach(w, s, c)
         IN  Good(v) /\ v.ses[s].st = "live" /\ v.ses[s].conn = c
<1> DEFINE x == w.ses[s]
           k == Len(x.detached)
           y == [x EXCEPT !.conn = c, !.idle = FALSE, !.detached = << >>, !.given = x.given + k]
           r == [w.conn[c] EXCEPT !.ses = s]
           u == [w EXCEPT !.conn[c].ses = s, !.ses[s] = y]
<1>1. /\ w \in Worlds /\ x \in Relayed /\ w.conn[c] \in Clients /\ Kept(x)
      /\ k \in Nat
  BY Fields, SequencesOf DEF Good
<1>2. << >> \in Seq(Answers)
  BY EmptySeq
<1>3. /\ y \in Relayed /\ y.st = "live" /\ y.conn = c /\ y.open = x.open /\ y.next = x.next
      /\ y.given = x.given + k /\ y.quitPending = x.quitPending /\ y.quitWait = x.quitWait
      /\ y.toChild = x.toChild /\ y.fromChild = x.fromChild /\ y.detached = << >>
  <2>1. x.given + k \in Nat
    BY <1>1 DEF Relayed
  <2> HIDE DEF x, k
  <2> QED  BY <1>1, <1>2, <2>1 DEF Relayed, x
<1>4. r \in Clients /\ r.ses = s /\ r.st = w.conn[c].st
  BY <1>1 DEF Clients
<1>5. /\ u \in Worlds /\ u.tracked = w.tracked /\ u.ses[s] = y /\ u.conn[c] = r
      /\ \A t \in Sessions \ {s} : u.ses[t] = w.ses[t]
      /\ \A d \in Conns \ {c} : u.conn[d] = w.conn[d]
  <2> HIDE DEF y
  <2> QED  BY <1>1, <1>3, <1>4 DEF Worlds
<1>6. Kept(y)
  <2> HIDE DEF y
  <2> QED  BY <1>1, <1>3, KeptEmptied
<1> HIDE DEF u, r, y
<1>7. \A d \in Conns : IsOpen(u, d) <=> IsOpen(w, d)
  BY <1>4, <1>5 DEF IsOpen
<1>8. Held(u)
  BY <1>3, <1>5, <1>7 DEF Good, Held, InTable, Pipes
<1>9. Linked(u)
  <2>1. ASSUME NEW d \in Conns, NEW t \in Sessions
        PROVE  u.ses[t].conn = d <=> IsOpen(u, d) /\ u.conn[d].ses = t
    <3>1. w.ses[t].conn = d <=> IsOpen(w, d) /\ w.conn[d].ses = t
      BY DEF Good, Linked
    <3>2. CASE t = s /\ d = c
      BY <1>3, <1>4, <1>5, <1>7, <3>2
    <3>3. CASE t = s /\ d # c
      BY <1>3, <1>5, <1>7, <3>1, <3>3, ServeAssumption
    <3>4. CASE t # s /\ d = c
      BY <1>4, <1>5, <1>7, <3>1, <3>4, ServeAssumption
    <3>5. CASE t # s /\ d # c
      BY <1>5, <1>7, <3>1, <3>5
    <3> QED  BY <3>2, <3>3, <3>4, <3>5
  <2>2. \A d \in Conns : ~IsOpen(u, d) => u.conn[d].ses = None
    BY <1>5, <1>7 DEF Good, Linked
  <2> QED  BY <2>1, <2>2 DEF Linked
<1>10. Good(u)
  BY <1>5, <1>6, <1>8, <1>9 DEF Good
<1>11. Attach(w, s, c) = Send(u, c, k)
  BY DEF Attach, u, y
<1>12. SameLinks(u, Send(u, c, k))
  BY <1>1, <1>5, SendLinks
<1> QED  BY <1>3, <1>5, <1>10, <1>11, <1>12, GoodSameLinks DEF SameLinks

\* A request is counted and goes to the child in one step: v is the world
\* between the two.
LEMMA AskGood ==
  ASSUME NEW w, Good(w), NEW s \in Sessions, w.ses[s].st = "live", w.ses[s].conn # None,
         NEW kind \in {"hello", "eval", "quit"}, NEW x \in Relayed,
         x.st = "live", x.conn = w.ses[s].conn, x.next = w.ses[s].next,
         x.given = w.ses[s].given, x.open = w.ses[s].open + 1,
         x.toChild = w.ses[s].toChild, x.fromChild = w.ses[s].fromChild,
         x.detached = w.ses[s].detached,
         \/ x.quitPending = w.ses[s].quitPending /\ x.quitWait = w.ses[s].quitWait
         \/ kind = "quit" /\ x.quitWait = w.ses[s].open + 1,
         NEW v \in Worlds, v.ses[s] = x, v.conn = w.conn, v.tracked = w.tracked,
         \A t \in Sessions \ {s} : v.ses[t] = w.ses[t]
  PROVE  Good(SendToChild(v, s, kind))
<1> DEFINE a == [n |-> x.next, kind |-> kind]
           q == Append(x.toChild, a)
           m == x.next + 1
           y == [x EXCEPT !.toChild = q, !.next = m]
           z == [v EXCEPT !.ses[s] = y]
<1>1. a \in Answers /\ a.n = w.ses[s].next /\ a.kind = kind
  BY DEF Relayed, Answers
<1>2. /\ w \in Worlds /\ w.ses[s] \in Relayed /\ Kept(w.ses[s])
      /\ x.toChild \in Seq(Answers) /\ x.next \in Nat
  BY Fields DEF Good, Relayed
<1> HIDE DEF a
<1>3. Append(x.toChild, a) \in Seq(Answers)
  BY <1>1, <1>2, AppendProperties
<1>4. /\ y \in Relayed /\ y.st = x.st /\ y.conn = x.conn /\ y.next = x.next + 1
      /\ y.given = x.given /\ y.open = x.open /\ y.toChild = Append(x.toChild, a)
      /\ y.fromChild = x.fromChild /\ y.detached = x.detached
      /\ y.quitPending = x.quitPending /\ y.quitWait = x.quitWait
  <2>1. q \in Seq(Answers) /\ m \in Nat
    BY <1>2, <1>3
  <2> HIDE DEF q, m
  <2>2. /\ y \in Relayed /\ y.st = x.st /\ y.conn = x.conn /\ y.next = m
        /\ y.given = x.given /\ y.open = x.open /\ y.toChild = q
        /\ y.fromChild = x.fromChild /\ y.detached = x.detached
        /\ y.quitPending = x.quitPending /\ y.quitWait = x.quitWait
    BY <2>1 DEF Relayed
  <2> HIDE DEF y
  <2> QED  BY <2>2 DEF q, m
<1> HIDE DEF y
<1>5. Kept(y)
  <2> DEFINE b == w.ses[s]
  <2>1. /\ b \in Relayed /\ a.n = b.next /\ Kept(b) /\ b.st = "live" /\ y.st = "live"
        /\ b.conn # None /\ y.conn = b.conn /\ y.open = b.open + 1
        /\ y.next = b.next + 1 /\ y.given = b.given
        /\ y.fromChild = b.fromChild /\ y.detached = b.detached
    BY <1>1, <1>2, <1>4
  <2>2. y.toChild = Append(b.toChild, a)
    BY <1>4, Zenon
  <2>3. \/ y.quitPending = b.quitPending /\ y.quitWait = b.quitWait
        \/ a.kind = "quit" /\ y.quitWait = b.open + 1
    BY <1>1, <1>4
  <2> HIDE DEF b
  <2> QED  BY <1>1, <1>4, <2>1, <2>2, <2>3, KeptAsked
<1>6. /\ z \in Worlds /\ z.conn = w.conn /\ z.tracked = w.tracked /\ z.ses[s] = y
      /\ \A t \in Sessions \ {s} : z.ses[t] = w.ses[t]
  <2>1. /\ z \in Worlds /\ z.ses[s] = y /\ z.conn = v.conn /\ z.tracked = v.tracked
        /\ \A t \in Sessions \ {s} : z.ses[t] = v.ses[t]
    BY <1>4, PutSes
  <2> HIDE DEF z
  <2> QED  BY <2>1
<1> HIDE DEF z
<1>7. Held(z)
  <2>1. \A t \in Sessions : z.ses[t].st = w.ses[t].st
    BY <1>4, <1>6
  <2> QED  BY <1>6, <2>1 DEF Good, Held, InTable, IsOpen
<1>8. Good(z)
  BY <1>4, <1>5, <1>6, <1>7, GoodPut
<1>9. SendToChild(v, s, kind) = z
  <2>1. ~Ended(v, s)
    BY DEF Ended
  <2> QED  BY <2>1 DEF SendToChild, z, y, a, q, m
<1> QED  BY <1>8, <1>9

\* A request of a client of the session, a quit among them.
LEMMA ForwardGood ==
  ASSUME NEW w, Good(w), NEW c \in Conns, NEW s \in Sessions,
         w.ses[s].st = "live", w.ses[s].conn = c
  PROVE  Good(Forward(w, c, s, "eval")) /\ Good(Quit(w, c, s))
<1> DEFINE x == w.ses[s]
<1>1. w \in Worlds /\ x \in Relayed /\ c # None
  BY Fields, ServeAssumption DEF Good
<1>2. ASSUME NEW v, Good(v)
      PROVE  Good(UpdateReadState(v, c))
  BY <1>2, ReadStateLinks, GoodSameLinks DEF Good
<1>3. Good(Forward(w, c, s, "eval"))
  <2> DEFINE m == x.open + 1
             y == [x EXCEPT !.open = m]
             v == [w EXCEPT !.ses[s].open = @ + 1]
  <2>1. /\ y \in Relayed /\ y.st = x.st /\ y.conn = x.conn /\ y.next = x.next
        /\ y.given = x.given /\ y.open = x.open + 1 /\ y.toChild = x.toChild
        /\ y.fromChild = x.fromChild /\ y.detached = x.detached
        /\ y.quitPending = x.quitPending /\ y.quitWait = x.quitWait
    <3>1. m \in Nat
      BY <1>1 DEF Relayed
    <3> HIDE DEF x, m
    <3>2. /\ y \in Relayed /\ y.st = x.st /\ y.conn = x.conn /\ y.next = x.next
          /\ y.given = x.given /\ y.open = m /\ y.toChild = x.toChild
          /\ y.fromChild = x.fromChild /\ y.detached = x.detached
          /\ y.quitPending = x.quitPending /\ y.quitWait = x.quitWait
      BY <1>1, <3>1 DEF Relayed
    <3> HIDE DEF y
    <3> QED  BY <3>2 DEF m
  <2>2. v = [w EXCEPT !.ses[s] = y]
    BY <1>1 DEF Worlds
  <2> HIDE DEF y, v
  <2>3. /\ v \in Worlds /\ v.ses[s] = y /\ v.conn = w.conn /\ v.tracked = w.tracked
        /\ \A t \in Sessions \ {s} : v.ses[t] = w.ses[t]
    BY <1>1, <2>1, <2>2, PutSes
  <2>4. Good(SendToChild(v, s, "eval"))
    BY <1>1, <2>1, <2>3, AskGood
  <2> QED  BY <1>2, <2>4 DEF Forward, v
<1>4. Good(Quit(w, c, s))
  <2> DEFINE m == x.open + 1
             q == [x EXCEPT !.quitPending = TRUE, !.quitWait = m]
             u == [w EXCEPT !.ses[s] = q]
             y == [q EXCEPT !.open = m]
             v == [u EXCEPT !.ses[s].open = @ + 1]
  <2>0. m \in Nat
    BY <1>1 DEF Relayed
  <2>1. q \in Relayed /\ q.open = x.open
    <3> HIDE DEF x, m
    <3> QED  BY <1>1, <2>0 DEF Relayed
  <2>2. /\ y \in Relayed /\ y.st = x.st /\ y.conn = x.conn /\ y.next = x.next
        /\ y.given = x.given /\ y.open = x.open + 1 /\ y.toChild = x.toChild
        /\ y.fromChild = x.fromChild /\ y.detached = x.detached
        /\ y.quitWait = x.open + 1
    <3> HIDE DEF x, m
    <3>1. /\ y \in Relayed /\ y.st = x.st /\ y.conn = x.conn /\ y.next = x.next
          /\ y.given = x.given /\ y.open = m /\ y.toChild = x.toChild
          /\ y.fromChild = x.fromChild /\ y.detached = x.detached
          /\ y.quitWait = m
      BY <1>1, <2>0 DEF Relayed
    <3> HIDE DEF y
    <3> QED  BY <3>1 DEF m
  <2>3. /\ u \in Worlds /\ u.ses[s] = q /\ u.conn = w.conn /\ u.tracked = w.tracked
        /\ \A t \in Sessions \ {s} : u.ses[t] = w.ses[t]
    <3> HIDE DEF q
    <3> QED  BY <1>1, <2>1, PutSes
  <2>4. v = [u EXCEPT !.ses[s] = y]
    <3>1. m = u.ses[s].open + 1
      BY <2>1, <2>3
    <3> HIDE DEF u, q, m
    <3> QED  BY <2>1, <2>3, <3>1 DEF Worlds
  <2> HIDE DEF q, u, v, y
  <2>5. /\ v \in Worlds /\ v.ses[s] = y /\ v.conn = w.conn /\ v.tracked = w.tracked
        /\ \A t \in Sessions \ {s} : v.ses[t] = w.ses[t]
    BY <2>2, <2>3, <2>4, PutSes
  <2>6. Good(SendToChild(v, s, "quit"))
    BY <1>1, <2>2, <2>5, AskGood
  <2> QED  BY <1>2, <2>6 DEF Quit, Forward, v, u, q, m
<1> QED  BY <1>3, <1>4

LEMMA HandleAttachGood ==
  ASSUME NEW w, Good(w), NEW c \in Conns, NEW s \in Sessions,
         IsOpen(w, c), w.conn[c].ses = None
  PROVE  Good(HandleAttach(w, c, s))
<1>1. CASE s \notin InTable(w) \/ Ended(w, s) \/ w.ses[s].conn # None
  BY <1>1, RefuseGood DEF HandleAttach
<1>2. CASE ~(s \notin InTable(w) \/ Ended(w, s) \/ w.ses[s].conn # None)
  <2> DEFINE u == Attach(w, s, c)
             x == u.ses[s]
             m == x.open + 1
             y == [x EXCEPT !.open = m]
             v == [u EXCEPT !.ses[s].open = @ + 1]
  <2>1. w.ses[s].st = "live" /\ w.ses[s].conn = None
    BY <1>2 DEF InTable, Ended
  <2>2. Good(u) /\ x.st = "live" /\ x.conn = c
    BY <2>1, AttachGood
  <2> HIDE DEF u
  <2>3. u \in Worlds /\ x \in Relayed /\ c # None
    BY <2>2, Fields, ServeAssumption DEF Good
  <2>4. m \in Nat
    BY <2>3 DEF Relayed
  <2>5. /\ y \in Relayed /\ y.st = x.st /\ y.conn = x.conn /\ y.next = x.next
        /\ y.given = x.given /\ y.open = m /\ y.toChild = x.toChild
        /\ y.fromChild = x.fromChild /\ y.detached = x.detached
        /\ y.quitPending = x.quitPending /\ y.quitWait = x.quitWait
    <3> HIDE DEF x, m
    <3> QED  BY <2>3, <2>4 DEF Relayed
  <2>6. v = [u EXCEPT !.ses[s] = y]
    BY <2>3 DEF Worlds
  <2> HIDE DEF v, y
  <2>7. /\ v \in Worlds /\ v.ses[s] = y /\ v.conn = u.conn /\ v.tracked = u.tracked
        /\ \A t \in Sessions \ {s} : v.ses[t] = u.ses[t]
    BY <2>3, <2>5, <2>6, PutSes
  <2>8. Good(SendToChild(v, s, "hello"))
    BY <2>2, <2>3, <2>5, <2>7, AskGood
  <2> QED  BY <1>2, <2>8 DEF HandleAttach, v, u
<1> QED  BY <1>1, <1>2

LEMMA NewStartedGood ==
  ASSUME NEW w, Good(w), NEW c \in Conns, NEW s \in Sessions, w.ses[s].st = "free",
         IsOpen(w, c), w.conn[c].ses = None
  PROVE  Good(NewStarted(w, c, s))
<1> DEFINE a == [n |-> 0, kind |-> "hello"]
           q == <<a>>
           y == [NewSession EXCEPT
                !.st = "live", !.conn = c, !.open = 1, !.child = "running",
                !.toChild = q, !.next = 1, !.logOpen = TRUE, !.logOk = TRUE]
           r == [w.conn[c] EXCEPT !.ses = s]
           u == [w EXCEPT !.ses[s] = y, !.conn[c].ses = s, !.tracked = @ \cup Pipes(s)]
<1>1. /\ w \in Worlds /\ w.conn[c] \in Clients /\ w.ses[s].conn = None
  BY Fields DEF Good, Kept
<1>2. a \in Answers /\ a.n = 0
  BY DEF Answers
<1> HIDE DEF a
<1>3. q \in Seq(Answers) /\ Len(q) = 1 /\ q[1] = a /\ << >> \in Seq(Answers)
  BY <1>2, EmptySeq
<1> HIDE DEF q
<1>4. /\ y \in Relayed /\ y.st = "live" /\ y.conn = c /\ y.open = 1 /\ y.toChild = q
      /\ y.fromChild = << >> /\ y.detached = << >> /\ y.next = 1 /\ y.given = 0
      /\ ~y.quitPending
  BY <1>3 DEF Relayed, NewSession
<1> HIDE DEF y
<1>5. Owing(y) = q /\ Pending(y) = q
  <2>1. Owing(y) = q
    BY <1>3, <1>4, ConcatEmptySeq DEF Owing
  <2> QED  BY <1>3, <1>4, <2>1, ConcatEmptySeq DEF Pending
<1>6. Kept(y)
  <2>1. Counted(y)
    BY <1>3, <1>4, <1>5 DEF Counted
  <2>2. Ordered(y)
    <3>1. y.given + Len(q) = y.next
      BY <1>3, <1>4
    <3>2. ASSUME NEW i \in 1..Len(q)
          PROVE  q[i].n = y.given + i - 1
      <4>1. i = 1
        BY <1>3
      <4>2. q[i].n = 0
        BY <1>2, <1>3, <4>1
      <4> QED  BY <1>4, <4>1, <4>2
    <3> QED  BY <1>5, <3>1, <3>2 DEF Ordered
  <2>3. Len(y.detached) <= MaxDetached
    BY <1>4, EmptySeq, ServeAssumption
  <2> QED  BY <1>4, <2>1, <2>2, <2>3 DEF Kept
<1>7. r \in Clients /\ r.ses = s /\ r.st = w.conn[c].st
  BY <1>1 DEF Clients
<1>8. /\ u \in Worlds /\ u.tracked = w.tracked \cup Pipes(s) /\ u.ses[s] = y /\ u.conn[c] = r
      /\ \A t \in Sessions \ {s} : u.ses[t] = w.ses[t]
      /\ \A d \in Conns \ {c} : u.conn[d] = w.conn[d]
  <2>1. Pipes(s) \subseteq Sessions \X {"to", "from"}
    BY DEF Pipes
  <2> QED  BY <1>1, <1>4, <1>7, <2>1 DEF Worlds
<1>9. NewStarted(w, c, s) = u
  BY DEF NewStarted, y, q, a
<1> HIDE DEF u, r
<1>10. \A d \in Conns : IsOpen(u, d) <=> IsOpen(w, d)
  BY <1>7, <1>8 DEF IsOpen
<1>11. Held(u)
  <2>1. \A d \in Conns : IsOpen(u, d) => d \in u.tracked
    BY <1>8, <1>10 DEF Good, Held
  <2>2. Pipes(s) \subseteq u.tracked /\ <<s, "from">> \in u.tracked
    BY <1>8 DEF Pipes
  <2>3. \A t \in Sessions \ {s} :
           /\ u.ses[t].st = "live" => Pipes(t) \subseteq u.tracked
           /\ t \in InTable(u) => <<t, "from">> \in u.tracked
    BY <1>8 DEF Good, Held, InTable
  <2> QED  BY <2>1, <2>2, <2>3 DEF Held
<1>12. Linked(u)
  <2>1. ASSUME NEW d \in Conns, NEW t \in Sessions
        PROVE  u.ses[t].conn = d <=> IsOpen(u, d) /\ u.conn[d].ses = t
    <3>1. w.ses[t].conn = d <=> IsOpen(w, d) /\ w.conn[d].ses = t
      BY DEF Good, Linked
    <3>2. CASE t = s /\ d = c
      BY <1>4, <1>7, <1>8, <1>10, <3>2
    <3>3. CASE t = s /\ d # c
      BY <1>1, <1>4, <1>8, <1>10, <3>1, <3>3, ServeAssumption
    <3>4. CASE t # s /\ d = c
      BY <1>7, <1>8, <1>10, <3>1, <3>4, ServeAssumption
    <3>5. CASE t # s /\ d # c
      BY <1>8, <1>10, <3>1, <3>5
    <3> QED  BY <3>2, <3>3, <3>4, <3>5
  <2>2. \A d \in Conns : ~IsOpen(u, d) => u.conn[d].ses = None
    BY <1>8, <1>10 DEF Good, Linked
  <2> QED  BY <2>1, <2>2 DEF Linked
<1> QED  BY <1>6, <1>8, <1>9, <1>11, <1>12 DEF Good

LEMMA HandleRequestGood ==
  ASSUME NEW w, Good(w), NEW c \in Conns, NEW kind,
         IsOpen(w, c), w.conn[c].ses # None
  PROVE  Good(HandleRequest(w, c, kind))
<1> DEFINE s == w.conn[c].ses
           x == [w.ses[s] EXCEPT !.idle = FALSE]
           v == [w EXCEPT !.ses[s].idle = FALSE]
<1>1. w \in Worlds /\ s \in Sessions
  BY Fields DEF Good, Clients
<1>2. w.ses[s] \in Relayed /\ w.ses[s].conn = c /\ Kept(w.ses[s]) /\ c # None
  BY <1>1, Fields, ServeAssumption DEF Good, Linked
<1> HIDE DEF s
<1>3. /\ x \in Relayed /\ Alike(w.ses[s], x) /\ x.conn = c
  BY <1>2 DEF Relayed, Alike
<1>4. v = [w EXCEPT !.ses[s] = x]
  BY <1>1 DEF Worlds
<1> HIDE DEF x, v
<1>5. Kept(x)
  BY <1>2, <1>3, KeptAlike DEF Kept, Alike
<1>6. Good(v)
  BY <1>1, <1>2, <1>3, <1>4, <1>5, GoodPutHere DEF Alike
<1>7. v.ses[s] = x
  BY <1>1, <1>3, <1>4, PutSes
<1>8. CASE Ended(w, s)
  BY <1>8, CloseGood DEF HandleRequest, s
<1>9. CASE ~Ended(w, s)
  <2>1. v.ses[s].st = "live" /\ v.ses[s].conn = c
    BY <1>2, <1>3, <1>7, <1>9 DEF Kept, Ended, Relayed, Alike
  <2>2. Good(Quit(v, c, s)) /\ Good(Forward(v, c, s, "eval")) /\ Good(EndSession(v, s))
    BY <1>1, <1>6, <2>1, ForwardGood, EndSessionGood
  <2>3. HandleRequest(w, c, kind) \in
          {Quit(v, c, s), Forward(v, c, s, "eval"), EndSession(v, s)}
    BY <1>9 DEF HandleRequest, v, s
  <2> QED  BY <2>2, <2>3
<1> QED  BY <1>8, <1>9

LEMMA HandleLineGood ==
  ASSUME NEW w, Good(w), NEW c \in Conns, NEW kind \in LineKinds,
         NEW v \in HandleLine(w, c, kind)
  PROVE  Good(v)
<1>1. CASE w.conn[c].st # "open"
  BY <1>1 DEF HandleLine
<1>2. CASE w.conn[c].st = "open" /\ w.conn[c].ses # None
  BY <1>2, HandleRequestGood DEF HandleLine, IsOpen
<1>3. CASE w.conn[c].st = "open" /\ w.conn[c].ses = None
  <2>1. IsOpen(w, c)
    BY <1>3 DEF IsOpen
  <2>2. CASE kind = "new"
    <3>1. v \in HandleNew(w, c)
      BY <1>3, <2>2, ServeAssumption DEF HandleLine
    <3>2. \/ v = Refuse(w, c)
          \/ \E s \in Sessions : w.ses[s].st = "free" /\ v = NewStarted(w, c, s)
      BY <3>1 DEF HandleNew
    <3> QED  BY <1>3, <2>1, <3>2, RefuseGood, NewStartedGood
  <2>3. CASE kind \in Sessions
    <3>1. v = HandleAttach(w, c, kind)
      BY <1>3, <2>3, ServeAssumption DEF HandleLine
    <3> QED  BY <1>3, <2>1, <2>3, <3>1, HandleAttachGood
  <2>4. CASE kind # "new" /\ kind \notin Sessions
    <3>1. v = Refuse(w, c)
      BY <1>3, <2>4 DEF HandleLine
    <3> QED  BY <3>1, RefuseGood
  <2> QED  BY <2>2, <2>3, <2>4
<1> QED  BY <1>1, <1>2, <1>3

LEMMA HandleTooLongGood ==
  ASSUME NEW w, Good(w), NEW c \in Conns
  PROVE  Good(HandleTooLong(w, c))
<1> DEFINE v == IF w.conn[c].ses = None THEN w ELSE LogWrite(w, w.conn[c].ses)
<1>1. w.conn[c].ses \in Sessions \cup {None}
  BY Fields DEF Good, Clients
<1>2. Good(v)
  BY <1>1, LogWriteGood
<1> HIDE DEF v
<1>3. Good(Send(v, c, 1))
  BY <1>2, SendGood
<1> QED  BY <1>3 DEF HandleTooLong, v

(***************************************************************************)
(* What the actions are built from: the end of a handler, and an answer.   *)
(***************************************************************************)
LEMMA BecomesGood ==
  ASSUME NEW w, Good(w), NEW r \in Conns \cup {None}, Becomes(w, r)
  PROVE  Good(World)' /\ rx' = r
<1> DEFINE Lost(c) == Unreferenced(w, c, r)
           n == [NewConn EXCEPT !.st = "lost"]
           L == {c \in Conns : Lost(c)}
           v == [conn |-> conn', ses |-> ses', tracked |-> tracked', report |-> report']
<1>1. w \in Worlds /\ n \in Clients /\ n.st = "lost" /\ n.ses = None
  BY DEF Good, Clients, NewConn
<1> HIDE DEF n
<1>2. /\ v.conn = [c \in Conns |-> IF Lost(c) THEN n ELSE w.conn[c]]
      /\ v.ses = [s \in Sessions |-> IF w.ses[s].conn \in L
                                     THEN [w.ses[s] EXCEPT !.conn = None] ELSE w.ses[s]]
      /\ v.tracked = w.tracked /\ v.report = w.report /\ rx' = r
  BY DEF Becomes, n
<1>3. \A c \in L : IsOpen(w, c)
  BY DEF Unreferenced
<1> HIDE DEF L, v
<1>4. /\ L \subseteq Conns
      /\ \A c \in Conns : v.conn[c] = IF c \in L THEN n ELSE w.conn[c]
  BY <1>2 DEF L
<1>5. ASSUME NEW s \in Sessions
      PROVE  /\ v.ses[s] \in Relayed /\ Alike(w.ses[s], v.ses[s])
             /\ v.ses[s].conn = IF w.ses[s].conn \in L THEN None ELSE w.ses[s].conn
  <2> DEFINE x == w.ses[s]
             y == [x EXCEPT !.conn = None]
  <2>1. x \in Relayed
    BY <1>1, Fields
  <2>2. v.ses[s] = IF x.conn \in L THEN y ELSE x
    BY <1>2
  <2> HIDE DEF x
  <2>3. y \in Relayed /\ Alike(x, y) /\ y.conn = None /\ Alike(x, x)
    BY <2>1 DEF Relayed, Alike
  <2> HIDE DEF y
  <2> QED  BY <2>1, <2>2, <2>3 DEF x
<1>6. v \in Worlds
  <2>1. v.conn \in [Conns -> Clients] /\ v.ses \in [Sessions -> Relayed]
    <3>1. \A c \in Conns : (IF Lost(c) THEN n ELSE w.conn[c]) \in Clients
      BY <1>1, Fields
    <3>2. v.conn \in [Conns -> Clients]
      BY <1>2, <3>1
    <3>3. v.ses \in [Sessions -> Relayed]
      BY <1>2, <1>5
    <3> QED  BY <3>2, <3>3
  <2>2. v.tracked = w.tracked /\ v.report = w.report
    BY <1>2
  <2>3. /\ w.tracked \in SUBSET (Conns \cup (Sessions \X {"to", "from"}))
        /\ w.report \in BOOLEAN
    BY <1>1 DEF Worlds
  <2>4. v = [conn |-> v.conn, ses |-> v.ses, tracked |-> v.tracked, report |-> v.report]
    BY DEF v
  <2> QED  BY <2>1, <2>2, <2>3, <2>4 DEF Worlds
<1>7. \A c \in Conns : IsOpen(v, c) <=> IsOpen(w, c) /\ c \notin L
  BY <1>1, <1>4 DEF IsOpen
<1>8. Linked(v)
  <2>1. ASSUME NEW c \in Conns, NEW s \in Sessions
        PROVE  v.ses[s].conn = c <=> IsOpen(v, c) /\ v.conn[c].ses = s
    <3>1. w.ses[s].conn = c <=> IsOpen(w, c) /\ w.conn[c].ses = s
      BY DEF Good, Linked
    <3> QED  BY <1>4, <1>5, <1>7, <3>1, ServeAssumption
  <2>2. \A c \in Conns : ~IsOpen(v, c) => v.conn[c].ses = None
    BY <1>1, <1>4, <1>7 DEF Good, Linked
  <2> QED  BY <2>1, <2>2 DEF Linked
<1>9. Held(v)
  <2>1. \A s \in Sessions : v.ses[s].st = w.ses[s].st
    BY <1>5 DEF Alike
  <2> QED  BY <1>2, <1>7, <2>1 DEF Good, Held, InTable
<1>10. \A s \in Sessions : Kept(v.ses[s])
  <2>1. ASSUME NEW s \in Sessions  PROVE Kept(v.ses[s])
    <3>1. Kept(w.ses[s])
      BY DEF Good
    <3>2. /\ v.ses[s].st = "free" => v.ses[s].conn = None
          /\ v.ses[s].conn # None => w.ses[s].conn # None
      BY <1>5, <3>1 DEF Kept, Alike
    <3> QED  BY <1>5, <3>1, <3>2, KeptAlike
  <2> QED  BY <2>1
<1>11. Good(v)
  BY <1>6, <1>8, <1>9, <1>10 DEF Good
<1>12. World' = v
  BY DEF World, v
<1>13. Good(World') /\ rx' = r
  BY <1>2, <1>11, <1>12
<1> QED  BY <1>13 DEF Good, Linked, Held, InTable, IsOpen, Worlds

\* The oldest answer is read: it is dropped once the session has ended.
LEMMA AnswerGood ==
  ASSUME NEW w, Good(w), NEW s \in Sessions, w.ses[s].fromChild # << >>
  PROVE  LET v == [w EXCEPT !.ses[s].fromChild = Tail(@)]
         IN  Good(IF Ended(w, s) THEN v ELSE Deliver(v, s, Head(w.ses[s].fromChild)))
<1> DEFINE x == w.ses[s]
           a == Head(x.fromChild)
           f == Tail(x.fromChild)
           z == [x EXCEPT !.fromChild = f]
           v == [w EXCEPT !.ses[s].fromChild = Tail(@)]
<1>1. /\ w \in Worlds /\ x \in Relayed /\ Kept(x) /\ Linked(w)
      /\ x.st \in {"live", "ending", "gone"}
  <2>1. w \in Worlds /\ x \in Relayed /\ Kept(x) /\ Linked(w)
    BY Fields DEF Good
  <2>2. x.st # "free"
    BY <2>1 DEF Kept
  <2> QED  BY <2>1, <2>2 DEF Relayed
<1>2. a \in Answers /\ f \in Seq(Answers)
  BY <1>1, HeadTailProperties DEF Relayed
<1> HIDE DEF a, f
<1>3. /\ z \in Relayed /\ z.fromChild = f /\ z.st = x.st /\ z.conn = x.conn
      /\ z.open = x.open /\ z.next = x.next /\ z.given = x.given
      /\ z.quitPending = x.quitPending /\ z.quitWait = x.quitWait
      /\ z.toChild = x.toChild /\ z.detached = x.detached
  <2> HIDE DEF x
  <2> QED  BY <1>1, <1>2 DEF Relayed
<1>4. v = [w EXCEPT !.ses[s] = z]
  BY <1>1 DEF Worlds, f
<1> HIDE DEF v, z
<1>5. /\ v \in Worlds /\ v.ses[s] = z /\ v.conn = w.conn /\ v.tracked = w.tracked
      /\ \A t \in Sessions \ {s} : v.ses[t] = w.ses[t]
  BY <1>1, <1>3, <1>4, PutSes
\* every record that replaces the session's, with its client and its state
<1>6. ASSUME NEW y \in Relayed, y.st = x.st, y.conn = x.conn, Kept(y)
      PROVE  Good([v EXCEPT !.ses[s] = y])
  <2> DEFINE u == [v EXCEPT !.ses[s] = y]
  <2>1. /\ u \in Worlds /\ u.ses[s] = y /\ u.conn = w.conn /\ u.tracked = w.tracked
        /\ \A t \in Sessions \ {s} : u.ses[t] = w.ses[t]
    BY <1>5, PutSes
  <2> HIDE DEF u
  <2>2. \A t \in Sessions : u.ses[t].st = w.ses[t].st
    BY <1>6, <2>1
  <2>3. Held(u)
    BY <2>1, <2>2 DEF Good, Held, InTable, IsOpen
  <2> QED  BY <1>6, <2>1, <2>3, GoodPut DEF u
<1>7. CASE Ended(w, s)
  <2>1. z.st \in {"ending", "gone"}
    BY <1>3, <1>7 DEF Ended
  <2>2. Kept(z)
    BY <1>3, <2>1, KeptEnding
  <2>3. Good(v)
    BY <1>3, <1>4, <2>2, GoodPutHere
  <2> QED  BY <1>7, <2>3 DEF v
<1>8. CASE ~Ended(w, s)
  <2> DEFINE closes == z.quitPending /\ z.quitWait <= 1
             full == Len(z.detached) >= MaxDetached
             o == IF z.open > 0 THEN z.open - 1 ELSE 0
             k == IF z.quitPending /\ z.quitWait > 0 THEN z.quitWait - 1 ELSE z.quitWait
             p == z.quitPending /\ ~closes
             y == [z EXCEPT !.open = o, !.quitWait = k, !.quitPending = p,
                            !.idle = FALSE, !.silent = FALSE]
             g == a.n + 1
             b == Append(z.detached, a)
             e == IF full THEN Tail(b) ELSE b
             h == IF full THEN z.given + 1 ELSE z.given
             yc == [y EXCEPT !.given = g]
             yb == [y EXCEPT !.detached = e, !.given = h]
             u == Send([v EXCEPT !.ses[s] = yc], z.conn, 1)
  <2>1. x.st = "live"
    BY <1>1, <1>8 DEF Ended
  <2>2. /\ o \in Nat /\ k \in Nat /\ p \in BOOLEAN /\ g \in Nat /\ h \in Nat
        /\ full \in BOOLEAN
    <3>1. /\ z.open \in Nat /\ z.quitWait \in Nat /\ z.quitPending \in BOOLEAN
          /\ z.given \in Nat /\ a.n \in Nat
      BY <1>2, <1>3 DEF Relayed, Answers
    <3>2. o \in Nat /\ k \in Nat /\ g \in Nat /\ h \in Nat
      BY <3>1
    <3>3. p \in BOOLEAN /\ full \in BOOLEAN
      <4> HIDE DEF closes
      <4> QED  BY <3>1
    <3> QED  BY <3>2, <3>3
  <2>3. b \in Seq(Answers) /\ e \in Seq(Answers)
    <3>0. z.detached \in Seq(Answers)
      BY <1>3 DEF Relayed
    <3>1. b \in Seq(Answers) /\ b # << >>
      <4> HIDE DEF z
      <4> QED  BY <1>2, <3>0, AppendProperties DEF b
    <3> HIDE DEF b
    <3>2. Tail(b) \in Seq(Answers)
      BY <3>1, HeadTailProperties
    <3> QED  BY <3>1, <3>2
  <2>4. p => /\ x.quitPending /\ ~(x.quitWait <= 1) /\ k = x.quitWait - 1
    BY <1>1, <1>3 DEF Relayed
  <2>5. Deliver(v, s, a) =
          IF z.conn # None THEN IF closes THEN CloseAfterFlush(u, z.conn) ELSE u
          ELSE [v EXCEPT !.ses[s] = yb]
    BY <1>5 DEF Deliver
  <2>6. o = (IF x.open > 0 THEN x.open - 1 ELSE 0)
    BY <1>3
  <2>7. /\ full <=> Len(x.detached) >= MaxDetached
        /\ e = IF full THEN Tail(Append(x.detached, a)) ELSE Append(x.detached, a)
        /\ h = IF full THEN x.given + 1 ELSE x.given
    BY <1>3
  <2> HIDE DEF o, k, p, g, h, e, closes, full, b
  <2>8. /\ yc \in Relayed /\ yc.st = z.st /\ yc.conn = z.conn /\ yc.open = o
        /\ yc.next = z.next /\ yc.given = g /\ yc.quitPending = p /\ yc.quitWait = k
        /\ yc.toChild = z.toChild /\ yc.fromChild = z.fromChild
        /\ yc.detached = z.detached
    BY <1>3, <2>2 DEF Relayed
  <2>9. /\ yb \in Relayed /\ yb.st = z.st /\ yb.conn = z.conn /\ yb.open = o
        /\ yb.next = z.next /\ yb.given = h /\ yb.quitPending = p /\ yb.quitWait = k
        /\ yb.toChild = z.toChild /\ yb.fromChild = z.fromChild /\ yb.detached = e
    BY <1>3, <2>2, <2>3 DEF Relayed
  <2> HIDE DEF yc, yb, u, y
  <2>10. CASE z.conn # None
    <3>1. Kept(yc)
      <4> HIDE DEF x
      <4>1. yc.fromChild = Tail(x.fromChild) /\ yc.given = Head(x.fromChild).n + 1
        BY <1>3, <2>8 DEF f, g, a
      <4>2. /\ yc.st = "live" /\ yc.toChild = x.toChild /\ x.conn # None
            /\ yc.detached = x.detached /\ yc.next = x.next
            /\ yc.open = IF x.open > 0 THEN x.open - 1 ELSE 0
            /\ yc.quitPending => /\ x.quitPending /\ ~(x.quitWait <= 1)
                                 /\ yc.quitWait = x.quitWait - 1
        BY <1>3, <2>1, <2>4, <2>6, <2>8, <2>10
      <4>3. x.fromChild # << >>
        BY DEF x
      <4> QED  BY <1>1, <2>1, <2>8, <4>1, <4>2, <4>3, KeptSent
    <3>2. Good([v EXCEPT !.ses[s] = yc])
      BY <1>3, <1>6, <2>8, <3>1
    <3>3. z.conn \in Conns
      BY <1>3, <2>10 DEF Relayed
    <3>4. Good(u)
      BY <3>2, <3>3, SendGood DEF u
    <3>5. Good(Deliver(v, s, a))
      BY <2>5, <2>10, <3>3, <3>4, CloseAfterFlushGood
    <3> QED  BY <1>8, <3>5 DEF v, a
  <2>11. CASE z.conn = None
    <3>1. Kept(yb)
      <4> HIDE DEF x
      <4>1. /\ yb.fromChild = Tail(x.fromChild)
            /\ yb.detached = IF full THEN Tail(Append(x.detached, Head(x.fromChild)))
                             ELSE Append(x.detached, Head(x.fromChild))
        BY <1>3, <2>7, <2>9 DEF f, a
      <4>2. /\ yb.st = "live" /\ yb.toChild = x.toChild /\ yb.conn = None
            /\ yb.next = x.next /\ yb.given = IF full THEN x.given + 1 ELSE x.given
            /\ yb.open = IF x.open > 0 THEN x.open - 1 ELSE 0
            /\ yb.quitPending => /\ x.quitPending /\ ~(x.quitWait <= 1)
                                 /\ yb.quitWait = x.quitWait - 1
        BY <1>3, <2>1, <2>4, <2>6, <2>7, <2>9, <2>11
      <4>3. x.fromChild # << >>
        BY DEF x
      <4> QED  BY <1>1, <2>1, <2>2, <2>7, <2>9, <4>1, <4>2, <4>3, KeptBuffered
    <3>2. Good([v EXCEPT !.ses[s] = yb])
      BY <1>3, <1>6, <2>9, <3>1
    <3>3. Good(Deliver(v, s, a))
      BY <2>5, <2>11, <3>2
    <3> QED  BY <1>8, <3>3 DEF v, a
  <2> QED  BY <2>10, <2>11
<1> QED  BY <1>7, <1>8

(***************************************************************************)
(* The actions.                                                            *)
(***************************************************************************)
LEMMA Carried ==
  ASSUME Good(World'), rx' \in Conns \cup {None}, lines' \in 0..MaxLines, up' \in BOOLEAN
  PROVE  IInv'
BY DEF IInv, Good, Linked, Held, InTable, IsOpen, Worlds

LEMMA HandlerGood ==
  ASSUME IInv, NEW w, Good(w), NEW r \in Conns \cup {None}, Becomes(w, r),
         lines' \in 0..MaxLines, up' \in BOOLEAN
  PROVE  IInv'
<1>1. Good(World)' /\ rx' = r
  BY BecomesGood
<1> QED  BY <1>1 DEF IInv

LEMMA RelayGood ==
  ASSUME IInv, NEW s \in Sessions, NEW w, Good(w), Relay(s, w)
  PROVE  IInv'
<1>1. lines' \in 0..MaxLines /\ up' \in BOOLEAN /\ Becomes(w, None)
  BY DEF Relay, IInv
<1> QED  BY <1>1, HandlerGood

LEMMA ShutdownStep ==
  ASSUME IInv, NEW s \in Sessions, Relay(s, Shutdown(World, s))
  PROVE  IInv'
<1>1. Good(Shutdown(World, s))
  BY ShutdownGood DEF IInv
<1> QED  BY <1>1, RelayGood

LEMMA LineOfGood ==
  ASSUME IInv, NEW w, Good(w), NEW c \in Conns, LineOf(w, c)
  PROVE  IInv'
<1>1. lines' \in 0..MaxLines /\ up' \in BOOLEAN
  BY ServeAssumption DEF LineOf, IInv
<1>2. \/ \E kind \in LineKinds : \E v \in HandleLine(w, c, kind) : Becomes(v, c)
      \/ Becomes(HandleTooLong(w, c), c)
  BY DEF LineOf
<1>3. CASE \E kind \in LineKinds : \E v \in HandleLine(w, c, kind) : Becomes(v, c)
  <2>1. PICK kind \in LineKinds : \E v \in HandleLine(w, c, kind) : Becomes(v, c)
    BY <1>3
  <2>2. PICK v \in HandleLine(w, c, kind) : Becomes(v, c)
    BY <2>1
  <2>3. Good(v)
    BY HandleLineGood
  <2> QED  BY <1>1, <2>2, <2>3, HandlerGood
<1>4. CASE Becomes(HandleTooLong(w, c), c)
  <2>1. Good(HandleTooLong(w, c))
    BY HandleTooLongGood
  <2> QED  BY <1>1, <1>4, <2>1, HandlerGood
<1> QED  BY <1>2, <1>3, <1>4

\* the reading flag of a connection has no part in the invariant
LEMMA ReadingGood ==
  ASSUME Good(World), NEW c \in Conns, NEW b \in BOOLEAN
  PROVE  Good([World EXCEPT !.conn[c].reading = b])
<1> DEFINE r == [World.conn[c] EXCEPT !.reading = b]
           v == [World EXCEPT !.conn[c].reading = b]
<1>1. World \in Worlds /\ World.conn[c] \in Clients
  BY Fields DEF Good
<1>2. r \in Clients /\ r.ses = World.conn[c].ses /\ r.st = World.conn[c].st
  BY <1>1 DEF Clients
<1>3. v = [World EXCEPT !.conn[c] = r]
  BY <1>1 DEF Worlds
<1> HIDE DEF r, v
<1>4. SameLinks(World, v)
  BY <1>1, <1>2, <1>3, LinksPut
<1> QED  BY <1>4, GoodSameLinks DEF v

LEMMA AcceptGood ==
  ASSUME IInv, NEW c \in Conns, Accept(c)
  PROVE  IInv'
<1> DEFINE r == [conn[c] EXCEPT !.st = "open", !.reading = TRUE]
           w == [World EXCEPT !.conn[c] = r, !.tracked = @ \cup {c}]
<1>1. /\ World \in Worlds /\ Linked(World) /\ Held(World) /\ conn[c] \in Clients
      /\ World.conn[c] = conn[c] /\ \A s \in Sessions : Kept(World.ses[s])
      /\ World.ses = ses /\ World.tracked = tracked
  <2>1. World.conn = conn
    BY DEF World
  <2> QED  BY <2>1, Fields DEF IInv, Good, World
<1>2. ~IsOpen(World, c) /\ conn[c].ses = None
  BY <1>1 DEF Accept, IsOpen, Linked
<1>3. r \in Clients /\ r.ses = None /\ r.st = "open"
  BY <1>1, <1>2 DEF Clients
<1> HIDE DEF r
<1>4. /\ w \in Worlds /\ w.ses = World.ses /\ w.tracked = World.tracked \cup {c}
      /\ w.conn[c] = r /\ \A d \in Conns \ {c} : w.conn[d] = World.conn[d]
  BY <1>1, <1>3 DEF Worlds
<1>5. Accept(c) => Becomes(w, None) /\ UNCHANGED <<lines, up>>
  BY DEF Accept, r
<1> HIDE DEF w
<1>6. \A d \in Conns \ {c} : IsOpen(w, d) <=> IsOpen(World, d)
  BY <1>4 DEF IsOpen
<1>7. Linked(w)
  <2>1. ASSUME NEW d \in Conns, NEW s \in Sessions
        PROVE  w.ses[s].conn = d <=> IsOpen(w, d) /\ w.conn[d].ses = s
    <3>1. CASE d = c
      BY <1>1, <1>2, <1>3, <1>4, <3>1, ServeAssumption DEF Linked
    <3>2. CASE d # c
      BY <1>1, <1>4, <1>6, <3>2 DEF Linked
    <3> QED  BY <3>1, <3>2
  <2>2. \A d \in Conns : ~IsOpen(w, d) => w.conn[d].ses = None
    BY <1>1, <1>3, <1>4, <1>6 DEF Linked
  <2> QED  BY <2>1, <2>2 DEF Linked
<1>8. Held(w)
  BY <1>1, <1>4, <1>6 DEF Held, InTable
<1>9. Good(w)
  BY <1>1, <1>4, <1>7, <1>8 DEF Good
<1>10. lines' \in 0..MaxLines /\ up' \in BOOLEAN
  BY <1>5 DEF IInv
<1> QED  BY <1>5, <1>9, <1>10, HandlerGood

LEMMA WriteDoneGood ==
  ASSUME IInv, NEW c \in Conns, WriteDone(c)
  PROVE  IInv'
<1> DEFINE k == conn[c].out - 1
           r == [conn[c] EXCEPT !.out = k]
           w == [World EXCEPT !.conn[c].out = k]
           t == IF k > 0 THEN WriteTimeout ELSE w.conn[c].timer
           q == [r EXCEPT !.timer = t]
           v == [w EXCEPT !.conn[c].timer = IF k > 0 THEN WriteTimeout ELSE @]
           u == IF k = 0 /\ conn[c].st = "draining" THEN Close(w, c)
                ELSE UpdateReadState(v, c)
<1>1. /\ World \in Worlds /\ conn[c] \in Clients /\ World.conn[c] = conn[c]
      /\ Good(World)
  <2>1. World.conn = conn
    BY DEF World
  <2> QED  BY <2>1, Fields DEF IInv, Good
<1>2. k \in Nat
  BY <1>1 DEF WriteDone, Clients
<1>3. Becomes(u, None) /\ UNCHANGED <<lines, up>>
  BY DEF WriteDone
<1> HIDE DEF u, k
<1>4. /\ r \in Clients /\ r.ses = World.conn[c].ses /\ r.st = World.conn[c].st
      /\ r.timer = conn[c].timer
  BY <1>1, <1>2 DEF Clients
<1>5. w = [World EXCEPT !.conn[c] = r]
  BY <1>1 DEF Worlds
<1> HIDE DEF w, r
<1>6. SameLinks(World, w) /\ w.conn[c] = r
  BY <1>1, <1>4, <1>5, LinksPut, PutConn
<1>7. w \in Worlds /\ t \in BOOLEAN
  BY <1>4, <1>6, ServeAssumption DEF SameLinks, Clients
<1>8. q \in Clients /\ q.ses = w.conn[c].ses /\ q.st = w.conn[c].st
  <2> HIDE DEF t
  <2> QED  BY <1>4, <1>6, <1>7 DEF Clients
<1>9. v = [w EXCEPT !.conn[c] = q]
  BY <1>6, <1>7 DEF Worlds
<1> HIDE DEF v, q, t
<1>10. SameLinks(w, v) /\ v \in Worlds
  BY <1>7, <1>8, <1>9, LinksPut, PutConn
<1>11. Good(w) /\ Good(v)
  BY <1>1, <1>6, <1>10, GoodSameLinks
<1>12. Good(Close(w, c)) /\ Good(UpdateReadState(v, c))
  BY <1>10, <1>11, CloseGood, ReadStateLinks, GoodSameLinks
<1>13. Good(u)
  BY <1>12 DEF u
<1>14. lines' \in 0..MaxLines /\ up' \in BOOLEAN
  BY <1>3 DEF IInv
<1> QED  BY <1>3, <1>13, <1>14, HandlerGood

LEMMA ChildIsGood ==
  ASSUME IInv, NEW s \in Sessions, NEW x \in Relayed, Kept(x),
         x.conn = ses[s].conn, x.st = ses[s].st, ChildIs(s, x)
  PROVE  IInv'
<1> DEFINE v == [World EXCEPT !.ses[s] = x]
<1>1. World.ses = ses /\ Good(World)
  BY DEF World, IInv
<1>2. Good(v)
  BY <1>1, GoodPutHere
<1>3. World' = v
  BY DEF ChildIs, World
<1>4. rx' \in Conns \cup {None} /\ lines' \in 0..MaxLines /\ up' \in BOOLEAN
  BY DEF ChildIs, IInv
<1> HIDE DEF v
<1>5. Good(World')
  BY <1>2, <1>3
<1> QED  BY <1>4, <1>5, Carried

LEMMA ChildGood ==
  ASSUME IInv, NEW s \in Sessions, ChildAnswers(s) \/ ChildExits(s) \/ TimePasses(s)
  PROVE  IInv'
<1> DEFINE x == ses[s]
<1>1. x \in Relayed /\ Kept(x)
  BY Fields DEF IInv, Good, World
<1>2. CASE ChildAnswers(s)
  <2> DEFINE t == Tail(x.toChild)
             f == Append(x.fromChild, Head(x.toChild))
             y == [x EXCEPT !.toChild = t, !.fromChild = f]
  <2>1. x.toChild # << >> /\ ChildIs(s, y)
    BY <1>2 DEF ChildAnswers
  <2>2. t \in Seq(Answers) /\ f \in Seq(Answers)
    <3>1. /\ x.toChild \in Seq(Answers) /\ x.fromChild \in Seq(Answers)
          /\ Head(x.toChild) \in Answers /\ t \in Seq(Answers)
      BY <1>1, <2>1, HeadTailProperties DEF Relayed
    <3> QED  BY <3>1, AppendProperties
  <2> HIDE DEF t, f, x
  <2>3. /\ y \in Relayed /\ y.st = x.st /\ y.conn = x.conn /\ y.open = x.open
        /\ y.next = x.next /\ y.given = x.given /\ y.quitPending = x.quitPending
        /\ y.quitWait = x.quitWait /\ y.detached = x.detached
        /\ y.toChild = t /\ y.fromChild = f
    BY <1>1, <2>2 DEF Relayed
  <2> HIDE DEF y
  <2>4. y.toChild = Tail(x.toChild) /\ y.fromChild = Append(x.fromChild, Head(x.toChild))
    BY <2>3 DEF t, f
  <2>5. Kept(y)
    BY <1>1, <2>1, <2>3, <2>4, KeptAnswered
  <2> QED  BY <2>1, <2>3, <2>5, ChildIsGood DEF x
\* a record that differs in what the child and the clock do
<1>3. ASSUME NEW y \in Relayed, Alike(x, y), y.conn = x.conn, ChildIs(s, y)
      PROVE  IInv'
  <2>1. Kept(y)
    BY <1>1, <1>3, KeptAlike DEF Kept, Alike
  <2> QED  BY <1>3, <2>1, ChildIsGood DEF Alike
<1>4. CASE ChildExits(s)
  <2> DEFINE y == [x EXCEPT !.child = "exited"]
  <2>1. ChildIs(s, y)
    BY <1>4 DEF ChildExits
  <2> HIDE DEF x
  <2>2. y \in Relayed /\ Alike(x, y) /\ y.conn = x.conn
    BY <1>1 DEF Relayed, Alike
  <2> QED  BY <1>3, <2>1, <2>2
<1>5. CASE TimePasses(s)
  <2>1. PICK i \in {x.idle, TRUE} : ChildIs(s, [x EXCEPT !.silent = TRUE, !.idle = i])
    BY <1>5 DEF TimePasses
  <2> HIDE DEF x
  <2> DEFINE y == [x EXCEPT !.silent = TRUE, !.idle = i]
  <2>2. i \in BOOLEAN
    BY <1>1 DEF Relayed
  <2>3. y \in Relayed /\ Alike(x, y) /\ y.conn = x.conn
    BY <1>1, <2>2 DEF Relayed, Alike
  <2> QED  BY <1>3, <2>1, <2>3
<1> QED  BY <1>2, <1>4, <1>5

LEMMA ConnectionGood ==
  ASSUME IInv, NEW c \in Conns,
         \/ Accept(c) \/ OnRead(c) \/ NextLine(c) \/ EndChunk(c)
         \/ ConnectionFails(c) \/ Deadline(c) \/ WriteDone(c)
  PROVE  IInv'
<1>1. Good(World)
  BY DEF IInv
<1>2. CASE OnRead(c)
  <2>1. Good([World EXCEPT !.conn[c].reading = FALSE])
    BY <1>1, ReadingGood
  <2> QED  BY <1>2, <2>1, LineOfGood DEF OnRead
<1>3. CASE NextLine(c)
  BY <1>1, <1>3, LineOfGood DEF NextLine
<1>4. CASE EndChunk(c)
  <2> DEFINE w == IF conn[c].st = "open" /\ ~conn[c].paused
                  THEN [World EXCEPT !.conn[c].reading = TRUE] ELSE World
  <2>1. Becomes(w, None) /\ lines' \in 0..MaxLines /\ up' \in BOOLEAN
    BY <1>4 DEF EndChunk, IInv
  <2>2. Good(w)
    BY <1>1, ReadingGood
  <2> HIDE DEF w
  <2> QED  BY <2>1, <2>2, HandlerGood
<1>5. CASE ConnectionFails(c) \/ Deadline(c)
  <2>1. Becomes(Close(World, c), None) /\ lines' \in 0..MaxLines /\ up' \in BOOLEAN
    BY <1>5 DEF ConnectionFails, Deadline, IInv
  <2> QED  BY <1>1, <2>1, CloseGood, HandlerGood
<1> QED  BY <1>2, <1>3, <1>4, <1>5, AcceptGood, WriteDoneGood

LEMMA SessionGood ==
  ASSUME IInv, NEW s \in Sessions,
         \/ ChildAnswers(s) \/ ChildExits(s) \/ ReadAnswer(s)
         \/ ChildGone(s) \/ PipeError(s) \/ EndTimer(s)
         \/ TimePasses(s) \/ CheckIdle(s) \/ EndOfRun(s)
  PROVE  IInv'
<1>1. CASE ReadAnswer(s)
  <2> DEFINE w == [World EXCEPT !.ses[s].fromChild = Tail(@)]
             v == IF Ended(World, s) THEN w
                  ELSE Deliver(w, s, Head(World.ses[s].fromChild))
  <2>1. World.ses = ses /\ Good(World)
    BY DEF World, IInv
  <2>2. World.ses[s].fromChild # << >> /\ Relay(s, v)
    BY <1>1, <2>1 DEF ReadAnswer
  <2>3. Good(v)
    BY <2>1, <2>2, AnswerGood
  <2> HIDE DEF v
  <2> QED  BY <2>2, <2>3, RelayGood
<1>2. CASE ChildGone(s) \/ PipeError(s) \/ EndTimer(s) \/ CheckIdle(s) \/ EndOfRun(s)
  BY <1>2, ShutdownStep DEF ChildGone, PipeError, EndTimer, CheckIdle, EndOfRun
<1> QED  BY <1>1, <1>2, ChildGood

LEMMA StartGood == Init => IInv
<1> SUFFICES ASSUME Init  PROVE IInv
  OBVIOUS
<1>1. << >> \in Seq(Answers) /\ Len(<< >>) = 0
  BY EmptySeq
<1>2. /\ NewConn \in Clients /\ NewConn.st = "unborn" /\ NewConn.ses = None
      /\ NewSession \in Relayed /\ NewSession.st = "free" /\ NewSession.conn = None
      /\ NewSession.toChild = << >> /\ NewSession.fromChild = << >>
      /\ NewSession.detached = << >>
  BY <1>1 DEF NewConn, NewSession, Clients, Relayed
<1> HIDE DEF NewConn, NewSession
<1>3. /\ \A c \in Conns : World.conn[c] = NewConn
      /\ \A s \in Sessions : World.ses[s] = NewSession
      /\ World \in Worlds
  BY <1>2 DEF Init, World, Worlds
<1>4. Kept(NewSession)
  BY <1>1, <1>2, ServeAssumption DEF Kept
<1>5. Linked(World) /\ Held(World)
  BY <1>2, <1>3, ServeAssumption DEF Linked, Held, IsOpen, InTable
<1> QED  BY <1>3, <1>4, <1>5, ServeAssumption DEF Good, IInv, Init

LEMMA StepGood == IInv /\ [Next]_vars => IInv'
<1> SUFFICES ASSUME IInv, [Next]_vars  PROVE IInv'
  OBVIOUS
<1>1. ASSUME UNCHANGED <<conn, ses, tracked, report, rx, lines>>, up' \in BOOLEAN
      PROVE  IInv'
  <2>1. World' = World
    BY <1>1 DEF World
  <2> QED  BY <1>1, <2>1, Carried DEF IInv
<1>2. CASE Stop
  BY <1>1, <1>2 DEF Stop
<1>3. CASE UNCHANGED vars
  BY <1>1, <1>3 DEF vars, IInv
<1>4. CASE Stopped
  BY <1>3, <1>4 DEF Stopped
<1> QED  BY <1>2, <1>3, <1>4, ConnectionGood, SessionGood DEF Next

LEMMA InvariantHolds == Spec => []IInv
BY StartGood, StepGood, PTL DEF Spec

(***************************************************************************)
(* What follows from the invariant.                                        *)
(***************************************************************************)
LEMMA WorldIs == World.conn = conn /\ World.ses = ses /\ World.tracked = tracked
BY DEF World

\* Clients, sessions and their buffers keep their types, and no buffer of a
\* session exceeds serve_detached_limit (deliver).
THEOREM TypesHold == Spec => []TypeOK
<1>1. IInv => TypeOK
  BY WorldIs DEF IInv, TypeOK, Good, Kept, Worlds, World
<1> QED  BY <1>1, InvariantHolds, PTL

\* A connection and a session point at each other or not at all, whatever the
\* order of closes, ends, attaches and losses (handle_attach, close, detach).
THEOREM OneClientHolds == Spec => []OneClient
<1>1. IInv => OneClient
  BY WorldIs DEF IInv, OneClient, Good, Linked
<1> QED  BY <1>1, InvariantHolds, PTL

\* open_requests is the number of answers under way and quit_wait the place of
\* the answer to a quit, for any number of clients and requests (handle_request,
\* handle_attach, deliver).
THEOREM CountsHold == Spec => []CountsExact
<1>1. ASSUME IInv  PROVE CountsExact
  <2>1. ASSUME NEW s \in Sessions, Live(s)
        PROVE  /\ ses[s].open = Len(Owed(s))
               /\ ses[s].quitPending => /\ ses[s].quitWait \in DOMAIN Owed(s)
                                        /\ Owed(s)[ses[s].quitWait].kind = "quit"
    <3> DEFINE o == Owed(s)
    <3>1. ses[s] \in Relayed /\ Kept(ses[s]) /\ o = Owing(ses[s])
      BY <1>1, WorldIs, Fields DEF IInv, Good, Owed, Owing
    <3>2. o \in Seq(Answers)
      BY <3>1, SequencesOf
    <3>3. DOMAIN o = 1..Len(o)
      <4> HIDE DEF o
      <4> QED  BY <3>2, LenProperties
    <3>4. Counted(ses[s])
      BY <2>1, <3>1 DEF Kept, Live
    <3> HIDE DEF o
    <3>5. /\ ses[s].open = Len(o)
          /\ ses[s].quitPending => /\ ses[s].quitWait \in DOMAIN o
                                   /\ o[ses[s].quitWait].kind = "quit"
      BY <3>1, <3>3, <3>4 DEF Counted
    <3> QED  BY <3>5 DEF o
  <2> QED  BY <2>1 DEF CountsExact, OpenRequestsExact, QuitWaitExact
<1> QED  BY <1>1, InvariantHolds, PTL

\* Every answer reaches a client or the buffer once and in the order of the
\* requests, across any number of detaches and attaches (deliver, attach).
THEOREM OrderHolds == Spec => []AnswersInOrder
<1>1. ASSUME IInv  PROVE AnswersInOrder
  <2>1. ASSUME NEW s \in Sessions, Live(s)
        PROVE  LET a == ses[s].detached \o Owed(s)
               IN  /\ ses[s].given + Len(a) = ses[s].next
                   /\ \A i \in DOMAIN a : a[i].n = ses[s].given + i - 1
    <3> DEFINE a == ses[s].detached \o Owed(s)
    <3>1. ses[s] \in Relayed /\ Kept(ses[s]) /\ a = Pending(ses[s])
      BY <1>1, WorldIs, Fields DEF IInv, Good, Owed, Owing, Pending
    <3>2. a \in Seq(Answers)
      BY <3>1, SequencesOf
    <3> HIDE DEF a
    <3>3. DOMAIN a = 1..Len(a)
      BY <3>2, LenProperties
    <3>4. Ordered(ses[s])
      BY <2>1, <3>1 DEF Kept, Live
    <3>5. /\ ses[s].given + Len(a) = ses[s].next
          /\ \A i \in DOMAIN a : a[i].n = ses[s].given + i - 1
      BY <3>1, <3>3, <3>4 DEF Ordered
    <3> QED  BY <3>5 DEF a
  <2> QED  BY <2>1 DEF AnswersInOrder
<1> QED  BY <1>1, InvariantHolds, PTL

\* Every descriptor the server holds open is on the list a forked child closes
\* (track_fd, untrack_fd and every close).
THEOREM InheritsHold == Spec => []ChildInheritsNothing
<1>1. IInv => ChildInheritsNothing
  BY WorldIs DEF IInv, ChildInheritsNothing, Good, Held, Live
<1> QED  BY <1>1, InvariantHolds, PTL
-------------------------------------------------------------------------------
(***************************************************************************)
(* Pauses.  A paused client has no room, and a client that is not read     *)
(* from is paused, but for the one whose chunk is handled.  Eases says     *)
(* that a function of the code leaves no client worse off.                 *)
(***************************************************************************)
Flows(w, r) ==
  \A d \in Conns :
    /\ w.conn[d].st = "unborn" => ~w.conn[d].paused
    /\ w.conn[d].st = "open" =>
         /\ w.conn[d].paused => Congested(w, d)
         /\ d # r => w.conn[d].reading \/ w.conn[d].paused

FlowInv == Flows(World, rx) /\ (~up => rx = None)
Eases(w, v) ==
  \A d \in Conns :
    /\ v.conn[d].st = "unborn" => v.conn[d] = w.conn[d]
    /\ v.conn[d].st = "open" =>
         /\ w.conn[d].st = "open"
         /\ (w.conn[d].paused => Congested(w, d)) => (v.conn[d].paused => Congested(v, d))
         /\ w.conn[d].reading \/ w.conn[d].paused => v.conn[d].reading \/ v.conn[d].paused

LEMMA EasesFlows ==
  ASSUME NEW w, NEW v, NEW r, Flows(w, r), Eases(w, v)
  PROVE  Flows(v, r)
BY DEF Flows, Eases

LEMMA EasesOn ==
  ASSUME NEW w, NEW u, NEW v, Eases(w, u), Eases(u, v)
  PROVE  Eases(w, v)
BY DEF Eases

\* What leaves a connection alone, closes it or gives it its session, and
\* makes no room, eases.
Spares(w, v, d) ==
  LET s == w.conn[d].ses
      x == v.conn[d]
      y == w.conn[d]
  IN  \/ x.st \notin {"open", "unborn"}
      \/ /\ x = y
         /\ x.st = "open" /\ s # None /\ w.ses[s].open >= MaxOpen => v.ses[s].open >= MaxOpen
      \/ /\ x.st = y.st /\ y.st = "open" /\ s = None
         /\ x.out = y.out /\ x.paused = y.paused /\ x.reading = y.reading

LEMMA SparesEases ==
  ASSUME NEW w, NEW v, \A d \in Conns : Spares(w, v, d)
  PROVE  Eases(w, v)
<1> SUFFICES ASSUME NEW d \in Conns, v.conn[d].st \in {"open", "unborn"}
             PROVE  /\ v.conn[d].st = "unborn" => v.conn[d] = w.conn[d]
                    /\ v.conn[d].st = "open" =>
                         /\ w.conn[d].st = "open"
                         /\ Congested(w, d) => Congested(v, d)
                         /\ v.conn[d].paused = w.conn[d].paused
                         /\ v.conn[d].reading = w.conn[d].reading
  BY DEF Eases
<1>1. Spares(w, v, d)
  OBVIOUS
<1> QED  BY <1>1 DEF Spares, Congested

\* the sessions keep their counts
LEMMA SparesAll ==
  ASSUME NEW w, NEW v,
         \A d \in Conns : v.conn[d] = w.conn[d] \/ v.conn[d].st \in {"draining", "closed"},
         \A t \in Sessions : v.ses[t].open = w.ses[t].open, w \in Worlds
  PROVE  Eases(w, v)
<1>1. \A d \in Conns : w.conn[d].ses # None => w.conn[d].ses \in Sessions
  BY Fields DEF Clients
<1> QED  BY <1>1, SparesEases DEF Spares

\* update_read_state settles a connection, and touches no other one.
LEMMA ReadStateIs ==
  ASSUME NEW v \in Worlds, NEW c \in Conns
  PROVE  LET u == UpdateReadState(v, c)
         IN  /\ u \in Worlds /\ u.ses = v.ses
             /\ \A d \in Conns \ {c} : u.conn[d] = v.conn[d]
             /\ u.conn[c].st = v.conn[c].st
             /\ ~IsOpen(v, c) => u.conn[c] = v.conn[c]
             /\ IsOpen(v, c) => (u.conn[c].paused => Congested(u, c))
             /\ v.conn[c].reading \/ v.conn[c].paused => u.conn[c].reading \/ u.conn[c].paused
<1> DEFINE p == [v.conn[c] EXCEPT !.paused = TRUE]
           r == [v.conn[c] EXCEPT !.paused = FALSE, !.reading = TRUE]
           y == [v EXCEPT !.conn[c] = p]
           z == [v EXCEPT !.conn[c] = r]
<1>1. v.conn[c] \in Clients
  BY Fields
<1>2. /\ p \in Clients /\ p.st = v.conn[c].st /\ p.ses = v.conn[c].ses /\ p.out = v.conn[c].out
      /\ p.paused = TRUE /\ p.reading = v.conn[c].reading
  BY <1>1 DEF Clients
<1>3. /\ r \in Clients /\ r.st = v.conn[c].st /\ r.ses = v.conn[c].ses /\ r.out = v.conn[c].out
      /\ r.paused = FALSE /\ r.reading = TRUE
  BY <1>1 DEF Clients
<1>4. y = [v EXCEPT !.conn[c].paused = TRUE]
  BY <1>1 DEF Worlds
<1>5. UpdateReadState(v, c) = IF ~IsOpen(v, c) THEN v
                              ELSE IF Congested(v, c) THEN y
                              ELSE IF v.conn[c].paused THEN z ELSE v
  BY <1>4 DEF UpdateReadState
<1> HIDE DEF p, r
<1>6. /\ y \in Worlds /\ y.conn[c] = p /\ y.ses = v.ses
      /\ \A d \in Conns \ {c} : y.conn[d] = v.conn[d]
  BY <1>2, PutConn
<1>7. /\ z \in Worlds /\ z.conn[c] = r /\ z.ses = v.ses
      /\ \A d \in Conns \ {c} : z.conn[d] = v.conn[d]
  BY <1>3, PutConn
<1> HIDE DEF y, z
<1>8. CASE ~IsOpen(v, c)
  BY <1>5, <1>8
<1>9. CASE IsOpen(v, c) /\ Congested(v, c)
  <2>1. Congested(y, c)
    BY <1>2, <1>6, <1>9 DEF Congested
  <2> QED  BY <1>2, <1>5, <1>6, <1>9, <2>1
<1>10. CASE IsOpen(v, c) /\ ~Congested(v, c) /\ v.conn[c].paused
  BY <1>3, <1>5, <1>7, <1>10
<1>11. CASE IsOpen(v, c) /\ ~Congested(v, c) /\ ~v.conn[c].paused
  BY <1>5, <1>11
<1> QED  BY <1>8, <1>9, <1>10, <1>11

\* Whatever becomes of the room of a connection, update_read_state follows it.
LEMMA ReadStateEases ==
  ASSUME NEW w \in Worlds, NEW v \in Worlds, NEW c \in Conns, IsOpen(w, c),
         v.conn[c].st = w.conn[c].st,
         w.conn[c].reading \/ w.conn[c].paused => v.conn[c].reading \/ v.conn[c].paused,
         \A d \in Conns \ {c} : Spares(w, v, d)
  PROVE  Eases(w, UpdateReadState(v, c))
<1> DEFINE u == UpdateReadState(v, c)
<1>1. /\ u \in Worlds /\ u.ses = v.ses
      /\ \A d \in Conns \ {c} : u.conn[d] = v.conn[d]
      /\ u.conn[c].st = v.conn[c].st
      /\ u.conn[c].paused => Congested(u, c)
      /\ v.conn[c].reading \/ v.conn[c].paused => u.conn[c].reading \/ u.conn[c].paused
  <2>1. IsOpen(v, c)
    BY DEF IsOpen
  <2> QED  BY <2>1, ReadStateIs
<1> HIDE DEF u
<1>2. \A d \in Conns \ {c} : Spares(w, u, d)
  BY <1>1 DEF Spares
<1> SUFFICES ASSUME NEW d \in Conns, u.conn[d].st \in {"open", "unborn"}
             PROVE  /\ u.conn[d].st = "unborn" => u.conn[d] = w.conn[d]
                    /\ u.conn[d].st = "open" =>
                         /\ w.conn[d].st = "open"
                         /\ (w.conn[d].paused => Congested(w, d))
                              => (u.conn[d].paused => Congested(u, d))
                         /\ w.conn[d].reading \/ w.conn[d].paused
                              => u.conn[d].reading \/ u.conn[d].paused
  BY DEF Eases, u
<1>3. CASE d = c
  BY <1>1, <1>3 DEF IsOpen
<1>4. CASE d # c
  <2>1. Spares(w, u, d)
    BY <1>2, <1>4
  <2> QED  BY <2>1 DEF Spares, Congested
<1> QED  BY <1>3, <1>4

LEMMA SendEases ==
  ASSUME NEW w \in Worlds, NEW c \in Conns, NEW k \in Nat
  PROVE  Eases(w, Send(w, c, k)) /\ Send(w, c, k) \in Worlds
<1> DEFINE t == IF w.conn[c].out = 0 THEN WriteTimeout ELSE w.conn[c].timer
           q == [w.conn[c] EXCEPT !.out = w.conn[c].out + k, !.timer = t]
           v == [w EXCEPT !.conn[c] = q]
<1>1. /\ q \in Clients /\ q.st = w.conn[c].st /\ q.ses = w.conn[c].ses
      /\ q.paused = w.conn[c].paused /\ q.reading = w.conn[c].reading
  <2>1. t \in BOOLEAN /\ w.conn[c] \in Clients /\ w.conn[c].out + k \in Nat
    BY Fields, ServeAssumption DEF Clients
  <2> HIDE DEF t
  <2> QED  BY <2>1 DEF Clients
<1>2. Send(w, c, k) = IF ~IsOpen(w, c) \/ k = 0 THEN w ELSE UpdateReadState(v, c)
  BY DEF Send
<1> HIDE DEF q
<1>3. /\ v \in Worlds /\ v.conn[c] = q /\ v.ses = w.ses
      /\ \A d \in Conns \ {c} : v.conn[d] = w.conn[d]
  BY <1>1, PutConn
<1> HIDE DEF v
<1>4. \A d \in Conns \ {c} : Spares(w, v, d)
  BY <1>3 DEF Spares
<1>5. IsOpen(w, c) => Eases(w, UpdateReadState(v, c))
  BY <1>1, <1>3, <1>4, ReadStateEases
<1>6. Eases(w, w)
  BY DEF Eases
<1>7. UpdateReadState(v, c) \in Worlds
  BY <1>3, ReadStateIs
<1> QED  BY <1>2, <1>5, <1>6, <1>7

\* a session record that another one replaces, with the same count
LEMMA PutEases ==
  ASSUME NEW w \in Worlds, NEW v, NEW s \in Sessions, NEW x \in Relayed,
         v.conn = w.conn, v.ses[s] = x, \A t \in Sessions \ {s} : v.ses[t] = w.ses[t],
         x.open = w.ses[s].open
  PROVE  Eases(w, v)
BY SparesAll

LEMMA LogWriteEases ==
  ASSUME NEW w \in Worlds, NEW s \in Sessions
  PROVE  LET v == LogWrite(w, s)
         IN  /\ v \in Worlds /\ v.conn = w.conn /\ Eases(w, v)
             /\ \A t \in Sessions : v.ses[t].open = w.ses[t].open
<1> DEFINE x == [w.ses[s] EXCEPT !.logOk = FALSE]
           v == [w EXCEPT !.ses[s].logOk = FALSE, !.report = TRUE]
<1>1. x \in Relayed /\ x.open = w.ses[s].open
  <2>1. w.ses[s] \in Relayed
    BY Fields
  <2> QED  BY <2>1 DEF Relayed
<1>2. /\ v \in Worlds /\ v.conn = w.conn /\ v.ses[s] = x
      /\ \A t \in Sessions \ {s} : v.ses[t] = w.ses[t]
  BY <1>1 DEF Worlds
<1> HIDE DEF v, x
<1>3. \A t \in Sessions : v.ses[t].open = w.ses[t].open
  BY <1>1, <1>2
<1>4. Eases(w, v) /\ Eases(w, w)
  BY <1>1, <1>2, PutEases DEF Eases
<1> QED  BY <1>2, <1>3, <1>4 DEF LogWrite, v

LEMMA CloseIs ==
  ASSUME NEW w \in Worlds, NEW c \in Conns
  PROVE  LET v == Close(w, c)
         IN  /\ v \in Worlds /\ Eases(w, v)
             /\ IsOpen(w, c) => v.conn[c].st = "closed"
             /\ \A d \in Conns \ {c} : v.conn[d] = w.conn[d]
             /\ \A t \in Sessions : v.ses[t].open = w.ses[t].open
<1> DEFINE r == [NewConn EXCEPT !.st = "closed"]
           s == w.conn[c].ses
           v == [w EXCEPT !.conn[c] = r, !.tracked = @ \ {c}]
           n == IF v.ses[s].conn = c THEN None ELSE v.ses[s].conn
           x == [v.ses[s] EXCEPT !.conn = n]
           u == [v EXCEPT !.ses[s].conn = IF @ = c THEN None ELSE @]
<1>1. s \in Sessions \cup {None}
  BY Fields DEF Clients
<1>2. r \in Clients /\ r.st = "closed"
  BY DEF Clients, NewConn
<1>3. /\ v \in Worlds /\ v.ses = w.ses /\ v.conn[c] = r
      /\ \A d \in Conns \ {c} : v.conn[d] = w.conn[d]
  <2> HIDE DEF r
  <2> QED  BY <1>2 DEF Worlds
<1> HIDE DEF r, v, s
<1>4. ASSUME s \in Sessions
      PROVE  /\ u \in Worlds /\ u.conn = v.conn
             /\ \A t \in Sessions : u.ses[t].open = w.ses[t].open
  <2>1. v.ses[s] \in Relayed
    BY <1>3, <1>4, Fields
  <2>2. n \in Conns \cup {None}
    BY <2>1 DEF Relayed
  <2>3. u = [v EXCEPT !.ses[s] = x]
    BY <1>3, <1>4 DEF Worlds
  <2> HIDE DEF n, u
  <2>4. x \in Relayed /\ x.open = v.ses[s].open
    BY <2>1, <2>2 DEF Relayed
  <2> HIDE DEF x
  <2>5. /\ u \in Worlds /\ u.ses[s] = x /\ \A t \in Sessions \ {s} : u.ses[t] = v.ses[t]
        /\ u.conn = v.conn
    BY <1>3, <1>4, <2>3, <2>4, PutSes
  <2> QED  BY <1>3, <2>4, <2>5
<1>5. Close(w, c) = IF ~IsOpen(w, c) THEN w ELSE IF s = None THEN v ELSE LogWrite(u, s)
  BY DEF Close, s, v, r
<1> HIDE DEF u
<1>6. ASSUME s \in Sessions
      PROVE  /\ LogWrite(u, s) \in Worlds /\ LogWrite(u, s).conn = v.conn
             /\ \A t \in Sessions : LogWrite(u, s).ses[t].open = w.ses[t].open
  BY <1>4, <1>6, LogWriteEases
<1> DEFINE z == Close(w, c)
<1>7. /\ z \in Worlds
      /\ IsOpen(w, c) => z.conn[c].st = "closed"
      /\ \A d \in Conns \ {c} : z.conn[d] = w.conn[d]
      /\ \A t \in Sessions : z.ses[t].open = w.ses[t].open
      /\ ~IsOpen(w, c) => z = w
  <2>1. CASE ~IsOpen(w, c)
    BY <1>5, <2>1
  <2>2. CASE IsOpen(w, c) /\ s = None
    BY <1>2, <1>3, <1>5, <2>2
  <2>3. CASE IsOpen(w, c) /\ s # None
    <3> HIDE DEF z
    <3>1. z = LogWrite(u, s) /\ s \in Sessions
      BY <1>1, <1>5, <2>3 DEF z
    <3>2. z.conn = v.conn
      BY <1>6, <3>1
    <3> QED  BY <1>2, <1>3, <1>6, <2>3, <3>1, <3>2
  <2> QED  BY <2>1, <2>2, <2>3
<1> HIDE DEF z
<1>8. \A d \in Conns : z.conn[d] = w.conn[d] \/ z.conn[d].st \in {"draining", "closed"}
  BY <1>7
<1>9. Eases(w, z)
  BY <1>7, <1>8, SparesAll
<1> QED  BY <1>7, <1>9 DEF z

LEMMA CloseAfterFlushIs ==
  ASSUME NEW w \in Worlds, NEW c \in Conns
  PROVE  LET v == CloseAfterFlush(w, c)
         IN  /\ v \in Worlds /\ Eases(w, v)
             /\ \A t \in Sessions : v.ses[t].open = w.ses[t].open
<1> DEFINE r == [w.conn[c] EXCEPT !.st = "draining"]
           v == [w EXCEPT !.conn[c].st = "draining"]
<1>1. w.conn[c] \in Clients
  BY Fields
<1>2. r \in Clients /\ r.st = "draining"
  BY <1>1 DEF Clients
<1>3. v = [w EXCEPT !.conn[c] = r]
  BY DEF Worlds
<1> HIDE DEF r, v
<1>4. /\ v \in Worlds /\ v.conn[c] = r /\ v.ses = w.ses
      /\ \A d \in Conns \ {c} : v.conn[d] = w.conn[d]
  BY <1>2, <1>3, PutConn
<1>5. \A d \in Conns : v.conn[d] = w.conn[d] \/ v.conn[d].st \in {"draining", "closed"}
  BY <1>2, <1>4
<1>6. Eases(w, v)
  BY <1>4, <1>5, SparesAll
<1>7. Eases(w, w)
  BY DEF Eases
<1>8. CloseAfterFlush(w, c) = IF ~IsOpen(w, c) THEN w
                              ELSE IF w.conn[c].out = 0 THEN Close(w, c) ELSE v
  BY DEF CloseAfterFlush, v
<1>9. /\ Close(w, c) \in Worlds /\ Eases(w, Close(w, c))
      /\ \A t \in Sessions : Close(w, c).ses[t].open = w.ses[t].open
  BY CloseIs
<1> QED  BY <1>4, <1>6, <1>7, <1>8, <1>9

LEMMA RefuseEases ==
  ASSUME NEW w \in Worlds, NEW c \in Conns
  PROVE  Eases(w, Refuse(w, c))
<1> DEFINE v == Send(w, c, 1)
<1>1. v \in Worlds /\ Eases(w, v)
  BY SendEases
<1> HIDE DEF v
<1>2. Eases(v, CloseAfterFlush(v, c))
  BY <1>1, CloseAfterFlushIs
<1>3. Eases(w, CloseAfterFlush(v, c))
  BY <1>1, <1>2, EasesOn
<1> QED  BY <1>3 DEF Refuse, v

LEMMA EndSessionEases ==
  ASSUME NEW w \in Worlds, NEW s \in Sessions
  PROVE  Eases(w, EndSession(w, s))
<1> DEFINE x == [w.ses[s] EXCEPT !.st = "ending", !.endTimer = TRUE]
           v == [w EXCEPT !.ses[s] = x, !.tracked = @ \ {<<s, "to">>}]
<1>1. x \in Relayed /\ x.open = w.ses[s].open
  <2>1. w.ses[s] \in Relayed
    BY Fields
  <2> QED  BY <2>1 DEF Relayed
<1>2. EndSession(w, s) = IF Ended(w, s) THEN w
                         ELSE IF v.ses[s].conn = None THEN v ELSE Refuse(v, v.ses[s].conn)
  BY DEF EndSession
<1> HIDE DEF x
<1>3. /\ v \in Worlds /\ v.conn = w.conn /\ v.ses[s] = x
      /\ \A t \in Sessions \ {s} : v.ses[t] = w.ses[t]
  BY <1>1 DEF Worlds
<1> HIDE DEF v
<1>4. Eases(w, v) /\ Eases(w, w)
  BY <1>1, <1>3, PutEases DEF Eases
<1>5. v.ses[s].conn # None => v.ses[s].conn \in Conns
  BY <1>1, <1>3 DEF Relayed
<1>6. v.ses[s].conn # None => Eases(w, Refuse(v, v.ses[s].conn))
  <2> SUFFICES ASSUME v.ses[s].conn # None  PROVE Eases(w, Refuse(v, v.ses[s].conn))
    OBVIOUS
  <2>1. Eases(v, Refuse(v, v.ses[s].conn))
    BY <1>3, <1>5, RefuseEases
  <2> QED  BY <1>4, <2>1, EasesOn
<1> QED  BY <1>2, <1>4, <1>6

LEMMA ShutdownEases ==
  ASSUME NEW w \in Worlds, NEW s \in Sessions
  PROVE  Eases(w, Shutdown(w, s)) /\ Shutdown(w, s) \in Worlds
<1> DEFINE x == [w.ses[s] EXCEPT !.st = "gone"]
           v == [w EXCEPT !.ses[s].st = "gone"]
           u == IF v.ses[s].conn = None THEN v ELSE CloseAfterFlush(v, v.ses[s].conn)
           y == [NewSession EXCEPT !.st = "gone", !.conn = u.ses[s].conn,
                                   !.open = u.ses[s].open, !.logOk = u.ses[s].logOk]
           z == [u EXCEPT !.ses[s] = y, !.tracked = @ \ Pipes(s)]
<1>1. Shutdown(w, s) = IF w.ses[s].st = "gone" THEN w ELSE z
  BY DEF Shutdown
<1>2. x \in Relayed /\ x.open = w.ses[s].open
  <2>1. w.ses[s] \in Relayed
    BY Fields
  <2> QED  BY <2>1 DEF Relayed
<1>3. v = [w EXCEPT !.ses[s] = x]
  BY DEF Worlds
<1> HIDE DEF x, v
<1>4. /\ v \in Worlds /\ v.conn = w.conn /\ v.ses[s] = x
      /\ \A t \in Sessions \ {s} : v.ses[t] = w.ses[t]
  BY <1>2, <1>3, PutSes
<1>5. Eases(w, v) /\ Eases(w, w)
  BY <1>2, <1>4, PutEases DEF Eases
<1>6. u \in Worlds /\ Eases(v, u)
  <2>1. v.ses[s].conn # None => v.ses[s].conn \in Conns
    BY <1>2, <1>4 DEF Relayed
  <2>2. v.ses[s].conn # None =>
          /\ CloseAfterFlush(v, v.ses[s].conn) \in Worlds
          /\ Eases(v, CloseAfterFlush(v, v.ses[s].conn))
    BY <1>4, <2>1, CloseAfterFlushIs
  <2>3. Eases(v, v)
    BY DEF Eases
  <2> QED  BY <1>4, <2>2, <2>3
<1> HIDE DEF u
<1>7. y \in Relayed /\ y.open = u.ses[s].open
  <2> DEFINE n == u.ses[s].conn
             o == u.ses[s].open
             l == u.ses[s].logOk
             t == [NewSession EXCEPT !.st = "gone", !.conn = n, !.open = o, !.logOk = l]
  <2>1. << >> \in Seq(Answers)
    BY EmptySeq
  <2>2. n \in Conns \cup {None} /\ o \in Nat /\ l \in BOOLEAN
    <3>1. u.ses[s] \in Relayed
      BY <1>6, Fields
    <3> QED  BY <3>1 DEF Relayed
  <2>3. y = t
    OBVIOUS
  <2> HIDE DEF n, o, l, y
  <2>4. t \in Relayed /\ t.open = o
    BY <2>1, <2>2 DEF Relayed, NewSession
  <2> HIDE DEF t
  <2> QED  BY <2>3, <2>4 DEF o
<1> HIDE DEF y
<1>8. /\ z \in Worlds /\ z.conn = u.conn /\ z.ses[s] = y
      /\ \A t \in Sessions \ {s} : z.ses[t] = u.ses[t]
  BY <1>6, <1>7 DEF Worlds
<1> HIDE DEF z
<1>9. Eases(u, z)
  BY <1>6, <1>7, <1>8, PutEases
<1>10. Eases(w, z)
  <2>1. Eases(w, u)
    BY <1>5, <1>6, EasesOn
  <2> QED  BY <1>9, <2>1, EasesOn
<1> QED  BY <1>1, <1>5, <1>8, <1>10

LEMMA SendToChildIs ==
  ASSUME NEW w \in Worlds, NEW s \in Sessions, NEW kind \in {"hello", "eval", "quit"}
  PROVE  LET v == SendToChild(w, s, kind)
         IN  /\ v \in Worlds /\ v.conn = w.conn
             /\ \A t \in Sessions : v.ses[t].open = w.ses[t].open
<1> DEFINE x == w.ses[s]
           a == [n |-> x.next, kind |-> kind]
           q == Append(x.toChild, a)
           m == x.next + 1
           y == [x EXCEPT !.toChild = q, !.next = m]
           v == [w EXCEPT !.ses[s] = y]
<1>1. x \in Relayed
  BY Fields
<1>2. SendToChild(w, s, kind) = IF Ended(w, s) THEN w ELSE v
  BY DEF SendToChild
<1>3. q \in Seq(Answers) /\ m \in Nat
  <2>1. x.toChild \in Seq(Answers) /\ x.next \in Nat /\ a \in Answers
    BY <1>1 DEF Relayed, Answers
  <2> HIDE DEF a, x
  <2> QED  BY <2>1, AppendProperties
<1> HIDE DEF q, m
<1>4. y \in Relayed /\ y.open = x.open
  <2> HIDE DEF x
  <2> QED  BY <1>1, <1>3 DEF Relayed
<1> HIDE DEF y
<1>5. /\ v \in Worlds /\ v.conn = w.conn /\ v.ses[s] = y
      /\ \A t \in Sessions \ {s} : v.ses[t] = w.ses[t]
  BY <1>4, PutSes
<1> HIDE DEF v
<1> QED  BY <1>2, <1>4, <1>5

\* a session record with a larger count
LEMMA GrowsEases ==
  ASSUME NEW w \in Worlds, NEW v \in Worlds, v.conn = w.conn,
         \A t \in Sessions : v.ses[t].open >= w.ses[t].open
  PROVE  Eases(w, v)
<1> SUFFICES ASSUME NEW d \in Conns  PROVE Spares(w, v, d)
  BY SparesEases
<1> DEFINE s == w.conn[d].ses
<1>1. s # None => s \in Sessions
  BY Fields DEF Clients
<1>2. s # None /\ w.ses[s].open >= MaxOpen => v.ses[s].open >= MaxOpen
  <2> SUFFICES ASSUME s \in Sessions  PROVE w.ses[s].open >= MaxOpen => v.ses[s].open >= MaxOpen
    BY <1>1
  <2>1. w.ses[s] \in Relayed /\ v.ses[s] \in Relayed
    BY Fields
  <2>2. w.ses[s].open \in Nat /\ v.ses[s].open \in Nat /\ MaxOpen \in Nat
    BY <2>1, ServeAssumption DEF Relayed
  <2>3. v.ses[s].open >= w.ses[s].open
    OBVIOUS
  <2> QED  BY <2>2, <2>3
<1> HIDE DEF s
<1> QED  BY <1>2 DEF Spares, s

LEMMA ForwardEases ==
  ASSUME NEW w \in Worlds, NEW s \in Sessions, NEW c \in Conns,
         NEW kind \in {"hello", "eval", "quit"}
  PROVE  Eases(w, Forward(w, c, s, kind))
<1> DEFINE o == w.ses[s].open + 1
           x == [w.ses[s] EXCEPT !.open = o]
           u == [w EXCEPT !.ses[s].open = @ + 1]
           v == SendToChild(u, s, kind)
<1>1. w.ses[s] \in Relayed /\ w.ses[s].open \in Nat
  BY Fields DEF Relayed
<1>2. u = [w EXCEPT !.ses[s] = x]
  BY DEF Worlds
<1>3. o \in Nat /\ o >= w.ses[s].open
  BY <1>1
<1> HIDE DEF o
<1>4. x \in Relayed /\ x.open = o
  BY <1>1, <1>3 DEF Relayed
<1> HIDE DEF x, u
<1>5. /\ u \in Worlds /\ u.conn = w.conn /\ u.ses[s] = x
      /\ \A t \in Sessions \ {s} : u.ses[t] = w.ses[t]
  BY <1>2, <1>4, PutSes
<1>6. /\ v \in Worlds /\ v.conn = u.conn
      /\ \A t \in Sessions : v.ses[t].open = u.ses[t].open
  BY <1>5, SendToChildIs
<1> HIDE DEF v
<1>7. \A t \in Sessions : v.ses[t].open >= w.ses[t].open
  <2> SUFFICES ASSUME NEW t \in Sessions  PROVE v.ses[t].open >= w.ses[t].open
    OBVIOUS
  <2>1. w.ses[t].open \in Nat
    BY Fields DEF Relayed
  <2> QED  BY <1>3, <1>4, <1>5, <1>6, <2>1
<1>8. Eases(w, v)
  BY <1>5, <1>6, <1>7, GrowsEases
<1>9. Eases(v, UpdateReadState(v, c))
  <2>1. CASE IsOpen(v, c)
    <3>1. \A d \in Conns \ {c} : Spares(v, v, d)
      BY DEF Spares
    <3> QED  BY <1>6, <2>1, <3>1, ReadStateEases
  <2>2. CASE ~IsOpen(v, c)
    BY <2>2 DEF UpdateReadState, Eases
  <2> QED  BY <2>1, <2>2
<1>10. Eases(w, UpdateReadState(v, c))
  BY <1>8, <1>9, EasesOn
<1> QED  BY <1>10 DEF Forward, v, u

LEMMA QuitEases ==
  ASSUME NEW w \in Worlds, NEW s \in Sessions, NEW c \in Conns
  PROVE  Eases(w, Quit(w, c, s))
<1> DEFINE x == w.ses[s]
           o == x.open + 1
           y == [x EXCEPT !.quitPending = TRUE, !.quitWait = o]
           v == [w EXCEPT !.ses[s] = y]
<1>1. x \in Relayed /\ o \in Nat
  BY Fields DEF Relayed
<1>2. Quit(w, c, s) = Forward(v, c, s, "quit")
  BY DEF Quit
<1> HIDE DEF o
<1>3. y \in Relayed /\ y.open = x.open
  <2> HIDE DEF x
  <2> QED  BY <1>1 DEF Relayed
<1> HIDE DEF y
<1>4. /\ v \in Worlds /\ v.conn = w.conn /\ v.ses[s] = y
      /\ \A t \in Sessions \ {s} : v.ses[t] = w.ses[t]
  BY <1>3, PutSes
<1> HIDE DEF v
<1>5. Eases(w, v)
  BY <1>3, <1>4, PutEases
<1>6. Eases(v, Forward(v, c, s, "quit"))
  BY <1>4, ForwardEases
<1> QED  BY <1>2, <1>5, <1>6, EasesOn

LEMMA HandleRequestEases ==
  ASSUME NEW w \in Worlds, NEW c \in Conns, NEW kind, w.conn[c].ses # None
  PROVE  Eases(w, HandleRequest(w, c, kind))
<1> DEFINE s == w.conn[c].ses
           x == [w.ses[s] EXCEPT !.idle = FALSE]
           v == [w EXCEPT !.ses[s].idle = FALSE]
<1>1. s \in Sessions
  BY Fields DEF Clients
<1>2. HandleRequest(w, c, kind) \in
        {Close(w, c), Quit(v, c, s), EndSession(v, s), Forward(v, c, s, "eval")}
  BY DEF HandleRequest
<1> HIDE DEF s
<1>3. x \in Relayed /\ x.open = w.ses[s].open
  <2>1. w.ses[s] \in Relayed
    BY <1>1, Fields
  <2> QED  BY <2>1 DEF Relayed
<1>4. v = [w EXCEPT !.ses[s] = x]
  BY <1>1 DEF Worlds
<1> HIDE DEF x, v
<1>5. /\ v \in Worlds /\ v.conn = w.conn /\ v.ses[s] = x
      /\ \A t \in Sessions \ {s} : v.ses[t] = w.ses[t]
  BY <1>1, <1>3, <1>4, PutSes
<1>6. Eases(w, v)
  BY <1>1, <1>3, <1>5, PutEases
<1>7. /\ Eases(v, Quit(v, c, s)) /\ Eases(v, EndSession(v, s))
      /\ Eases(v, Forward(v, c, s, "eval")) /\ Eases(w, Close(w, c))
  BY <1>1, <1>5, QuitEases, EndSessionEases, ForwardEases, CloseIs
<1>8. /\ Eases(w, Quit(v, c, s)) /\ Eases(w, EndSession(v, s))
      /\ Eases(w, Forward(v, c, s, "eval"))
  BY <1>6, <1>7, EasesOn
<1> QED  BY <1>2, <1>7, <1>8

LEMMA HandleAttachEases ==
  ASSUME NEW w \in Worlds, NEW c \in Conns, NEW s \in Sessions,
         w.conn[c].st = "open", w.conn[c].ses = None
  PROVE  Eases(w, HandleAttach(w, c, s))
<1> DEFINE x == w.ses[s]
           k == Len(x.detached)
           g == x.given + k
           y == [x EXCEPT !.conn = c, !.idle = FALSE, !.detached = << >>, !.given = g]
           r == [w.conn[c] EXCEPT !.ses = s]
           u == [w EXCEPT !.conn[c].ses = s, !.ses[s] = y]
           a == Attach(w, s, c)
           o == a.ses[s].open + 1
           z == [a.ses[s] EXCEPT !.open = o]
           v == [a EXCEPT !.ses[s].open = @ + 1]
<1>1. x \in Relayed /\ w.conn[c] \in Clients
  BY Fields
<1>2. k \in Nat /\ g \in Nat /\ << >> \in Seq(Answers)
  <2>1. x.detached \in Seq(Answers) /\ x.given \in Nat
    BY <1>1 DEF Relayed
  <2> HIDE DEF x
  <2> QED  BY <2>1, LenProperties, EmptySeq
<1>3. a = Send(u, c, k)
  BY DEF Attach
<1> HIDE DEF k, g, a
<1>4. y \in Relayed /\ y.open = x.open
  <2> HIDE DEF x
  <2> QED  BY <1>1, <1>2 DEF Relayed
<1>5. /\ r \in Clients /\ r.st = w.conn[c].st /\ r.out = w.conn[c].out
      /\ r.paused = w.conn[c].paused /\ r.reading = w.conn[c].reading
  BY <1>1 DEF Clients
<1> HIDE DEF y
<1>6. /\ u \in Worlds /\ u.ses[s] = y /\ u.conn[c] = r
      /\ \A t \in Sessions \ {s} : u.ses[t] = w.ses[t]
      /\ \A d \in Conns \ {c} : u.conn[d] = w.conn[d]
  BY <1>1, <1>4, <1>5 DEF Worlds
<1> HIDE DEF u, r
<1>7. Eases(w, u)
  <2>1. \A t \in Sessions : u.ses[t].open = w.ses[t].open
    BY <1>4, <1>6
  <2>2. \A d \in Conns : w.conn[d].ses # None => w.conn[d].ses \in Sessions
    BY Fields DEF Clients
  <2>3. \A d \in Conns : Spares(w, u, d)
    BY <1>5, <1>6, <2>1, <2>2 DEF Spares
  <2> QED  BY <2>3, SparesEases
<1>8. a \in Worlds /\ Eases(u, a)
  BY <1>2, <1>3, <1>6, SendEases
<1>9. a.ses[s] \in Relayed
  BY <1>8, Fields
<1>10. o \in Nat /\ o >= a.ses[s].open
  BY <1>9 DEF Relayed
<1>11. v = [a EXCEPT !.ses[s] = z]
  BY <1>8 DEF Worlds
<1> HIDE DEF o
<1>12. z \in Relayed /\ z.open = o
  BY <1>9, <1>10 DEF Relayed
<1> HIDE DEF z, v
<1>13. /\ v \in Worlds /\ v.conn = a.conn /\ v.ses[s] = z
       /\ \A t \in Sessions \ {s} : v.ses[t] = a.ses[t]
  BY <1>8, <1>11, <1>12, PutSes
<1> DEFINE e == SendToChild(v, s, "hello")
<1>14. /\ e \in Worlds /\ e.conn = v.conn
       /\ \A t \in Sessions : e.ses[t].open = v.ses[t].open
  BY <1>13, SendToChildIs
<1> HIDE DEF e
<1>15. Eases(a, e)
  <2>1. \A t \in Sessions : e.ses[t].open >= a.ses[t].open
    <3> SUFFICES ASSUME NEW t \in Sessions  PROVE e.ses[t].open >= a.ses[t].open
      OBVIOUS
    <3>1. a.ses[t].open \in Nat
      BY <1>8, Fields DEF Relayed
    <3> QED  BY <1>10, <1>12, <1>13, <1>14, <3>1
  <2> QED  BY <1>8, <1>13, <1>14, <2>1, GrowsEases
<1>16. Eases(w, e)
  <2>1. Eases(w, a)
    BY <1>7, <1>8, EasesOn
  <2> QED  BY <1>15, <2>1, EasesOn
<1>17. Eases(w, Refuse(w, c))
  BY RefuseEases
<1>18. HandleAttach(w, c, s) \in {Refuse(w, c), e}
  BY DEF HandleAttach, e, v, a
<1> QED  BY <1>16, <1>17, <1>18

LEMMA NewStartedEases ==
  ASSUME NEW w, Good(w), NEW c \in Conns, NEW s \in Sessions, w.ses[s].st = "free",
         w.conn[c].st = "open", w.conn[c].ses = None
  PROVE  Eases(w, NewStarted(w, c, s))
<1> DEFINE q == <<[n |-> 0, kind |-> "hello"]>>
           y == [NewSession EXCEPT
                !.st = "live", !.conn = c, !.open = 1, !.child = "running",
                !.toChild = q, !.next = 1, !.logOpen = TRUE, !.logOk = TRUE]
           r == [w.conn[c] EXCEPT !.ses = s]
           u == [w EXCEPT !.ses[s] = y, !.conn[c].ses = s, !.tracked = @ \cup Pipes(s)]
<1>1. w \in Worlds /\ w.conn[c] \in Clients /\ w.ses[s].conn = None
  BY Fields DEF Good, Kept
<1>2. NewStarted(w, c, s) = u
  BY DEF NewStarted
<1>3. /\ r.st = w.conn[c].st /\ r.out = w.conn[c].out
      /\ r.paused = w.conn[c].paused /\ r.reading = w.conn[c].reading
  BY <1>1 DEF Clients
<1> HIDE DEF y
<1>4. /\ u.conn[c] = r
      /\ \A t \in Sessions \ {s} : u.ses[t] = w.ses[t]
      /\ \A d \in Conns \ {c} : u.conn[d] = w.conn[d]
  BY <1>1 DEF Worlds
<1> HIDE DEF u, r
<1>5. \A d \in Conns : w.conn[d].ses # None => w.conn[d].ses \in Sessions
  BY <1>1, Fields DEF Clients
<1>6. \A d \in Conns \ {c} : w.conn[d].st = "open" => w.conn[d].ses # s
  BY <1>1, ServeAssumption DEF Good, Linked, IsOpen
<1>7. \A d \in Conns \ {c} : Spares(w, u, d)
  BY <1>4, <1>5, <1>6 DEF Spares
<1>8. Spares(w, u, c)
  BY <1>3, <1>4 DEF Spares
<1> QED  BY <1>2, <1>7, <1>8, SparesEases

LEMMA HandleLineEases ==
  ASSUME NEW w, Good(w), NEW c \in Conns, NEW kind \in LineKinds,
         NEW v \in HandleLine(w, c, kind)
  PROVE  Eases(w, v)
<1>0. w \in Worlds
  BY DEF Good
<1>1. CASE w.conn[c].st # "open"
  BY <1>1 DEF HandleLine, Eases
<1>2. CASE w.conn[c].st = "open" /\ w.conn[c].ses # None
  BY <1>0, <1>2, HandleRequestEases DEF HandleLine
<1>3. CASE w.conn[c].st = "open" /\ w.conn[c].ses = None
  <2>1. CASE kind = "new"
    <3>1. v \in HandleNew(w, c)
      BY <1>3, <2>1, ServeAssumption DEF HandleLine
    <3>2. \/ v = Refuse(w, c)
          \/ \E s \in Sessions : w.ses[s].st = "free" /\ v = NewStarted(w, c, s)
      BY <3>1 DEF HandleNew
    <3> QED  BY <1>0, <1>3, <3>2, RefuseEases, NewStartedEases
  <2>2. CASE kind \in Sessions
    <3>1. v = HandleAttach(w, c, kind)
      BY <1>3, <2>2, ServeAssumption DEF HandleLine
    <3> QED  BY <1>0, <1>3, <2>2, <3>1, HandleAttachEases
  <2>3. CASE kind # "new" /\ kind \notin Sessions
    <3>1. v = Refuse(w, c)
      BY <1>3, <2>3 DEF HandleLine
    <3> QED  BY <1>0, <3>1, RefuseEases
  <2> QED  BY <2>1, <2>2, <2>3
<1> QED  BY <1>1, <1>2, <1>3

LEMMA HandleTooLongEases ==
  ASSUME NEW w \in Worlds, NEW c \in Conns
  PROVE  Eases(w, HandleTooLong(w, c))
<1> DEFINE v == IF w.conn[c].ses = None THEN w ELSE LogWrite(w, w.conn[c].ses)
<1>1. w.conn[c].ses # None => w.conn[c].ses \in Sessions
  BY Fields DEF Clients
<1>2. v \in Worlds /\ Eases(w, v)
  BY <1>1, LogWriteEases DEF Eases
<1> HIDE DEF v
<1>3. Eases(v, Send(v, c, 1))
  BY <1>2, SendEases
<1>4. Eases(w, Send(v, c, 1))
  BY <1>2, <1>3, EasesOn
<1> QED  BY <1>4 DEF HandleTooLong, v

\* An answer makes room in its session, and its client is told of it.
LEMMA AnswerEases ==
  ASSUME NEW w, Good(w), NEW s \in Sessions, w.ses[s].fromChild # << >>
  PROVE  LET v == [w EXCEPT !.ses[s].fromChild = Tail(@)]
         IN  Eases(w, IF Ended(w, s) THEN v ELSE Deliver(v, s, Head(w.ses[s].fromChild)))
<1> DEFINE x == w.ses[s]
           a == Head(x.fromChild)
           f == Tail(x.fromChild)
           z == [x EXCEPT !.fromChild = f]
           v == [w EXCEPT !.ses[s].fromChild = Tail(@)]
<1>1. w \in Worlds /\ x \in Relayed
  BY Fields DEF Good
<1>2. a \in Answers /\ f \in Seq(Answers)
  BY <1>1, HeadTailProperties DEF Relayed
<1>3. v = [w EXCEPT !.ses[s] = z]
  BY <1>1 DEF Worlds
<1> HIDE DEF a, f
<1>4. /\ z \in Relayed /\ z.open = x.open /\ z.conn = x.conn
  <2> HIDE DEF x
  <2> QED  BY <1>1, <1>2 DEF Relayed
<1> HIDE DEF v, z
<1>5. /\ v \in Worlds /\ v.ses[s] = z /\ v.conn = w.conn
      /\ \A t \in Sessions \ {s} : v.ses[t] = w.ses[t]
  BY <1>1, <1>3, <1>4, PutSes
<1>6. Eases(w, v)
  BY <1>1, <1>4, <1>5, PutEases
<1>7. \A d \in Conns : w.conn[d].ses # None => w.conn[d].ses \in Sessions
  BY <1>1, Fields DEF Clients
\* a session record with a smaller count: its client is the one it may stall
<1>8. ASSUME NEW y \in Relayed, NEW d \in Conns, d # x.conn
      PROVE  Spares(w, [v EXCEPT !.ses[s] = y], d)
  <2> DEFINE u == [v EXCEPT !.ses[s] = y]
  <2>1. /\ u.conn = w.conn /\ \A t \in Sessions \ {s} : u.ses[t] = w.ses[t]
    BY <1>5, PutSes
  <2> HIDE DEF u
  <2>2. w.conn[d].st = "open" => w.conn[d].ses # s
    BY <1>8 DEF Good, Linked, IsOpen
  <2>3. Spares(w, u, d)
    BY <1>7, <2>1, <2>2 DEF Spares
  <2> QED  BY <2>3 DEF u
<1>9. CASE ~Ended(w, s)
  <2> DEFINE closes == z.quitPending /\ z.quitWait <= 1
             full == Len(z.detached) >= MaxDetached
             o == IF z.open > 0 THEN z.open - 1 ELSE 0
             k == IF z.quitPending /\ z.quitWait > 0 THEN z.quitWait - 1 ELSE z.quitWait
             p == z.quitPending /\ ~closes
             y == [z EXCEPT !.open = o, !.quitWait = k, !.quitPending = p,
                            !.idle = FALSE, !.silent = FALSE]
             g == a.n + 1
             b == Append(z.detached, a)
             e == IF full THEN Tail(b) ELSE b
             h == IF full THEN z.given + 1 ELSE z.given
             yc == [y EXCEPT !.given = g]
             yb == [y EXCEPT !.detached = e, !.given = h]
             m == [v EXCEPT !.ses[s] = yc]
             u == Send(m, z.conn, 1)
  <2>1. Deliver(v, s, a) =
          IF z.conn # None THEN IF closes THEN CloseAfterFlush(u, z.conn) ELSE u
          ELSE [v EXCEPT !.ses[s] = yb]
    BY <1>5 DEF Deliver
  <2>2. /\ o \in Nat /\ k \in Nat /\ p \in BOOLEAN /\ g \in Nat /\ h \in Nat
    <3>1. /\ z.open \in Nat /\ z.quitWait \in Nat /\ z.quitPending \in BOOLEAN
          /\ z.given \in Nat /\ a.n \in Nat
      BY <1>2, <1>4 DEF Relayed, Answers
    <3>2. o \in Nat /\ k \in Nat /\ g \in Nat /\ h \in Nat
      BY <3>1
    <3>3. p \in BOOLEAN
      <4> HIDE DEF closes
      <4> QED  BY <3>1
    <3> QED  BY <3>2, <3>3
  <2>3. e \in Seq(Answers)
    <3>0. z.detached \in Seq(Answers)
      BY <1>4 DEF Relayed
    <3>1. b \in Seq(Answers) /\ b # << >>
      BY <1>2, <3>0, AppendProperties
    <3> HIDE DEF b
    <3>2. Tail(b) \in Seq(Answers)
      BY <3>1, HeadTailProperties
    <3> QED  BY <3>1, <3>2
  <2> HIDE DEF o, k, p, g, h, e, closes, full, b
  <2>4. yc \in Relayed /\ yb \in Relayed
    BY <1>4, <2>2, <2>3 DEF Relayed
  <2> HIDE DEF yc, yb, u, y
  <2>5. CASE z.conn = None
    <3>1. \A d \in Conns : Spares(w, [v EXCEPT !.ses[s] = yb], d)
      BY <1>4, <1>8, <2>4, <2>5, ServeAssumption
    <3>2. Eases(w, [v EXCEPT !.ses[s] = yb])
      BY <3>1, SparesEases
    <3> QED  BY <1>9, <2>1, <2>5, <3>2 DEF v, a
  <2>6. CASE z.conn # None
    <3> DEFINE c == z.conn
               t == IF m.conn[c].out = 0 THEN WriteTimeout ELSE m.conn[c].timer
               q == [m.conn[c] EXCEPT !.out = m.conn[c].out + 1, !.timer = t]
               n == [m EXCEPT !.conn[c] = q]
    <3>1. c \in Conns
      BY <1>4, <2>6 DEF Relayed
    <3>2. IsOpen(w, c) /\ w.conn[c].ses = s
      BY <1>4, <3>1 DEF Good, Linked
    <3>3. m \in Worlds /\ m.conn = w.conn /\ \A d \in Conns \ {c} : Spares(w, m, d)
      BY <1>4, <1>5, <1>8, <2>4, PutSes
    <3> HIDE DEF m
    <3>4. u = UpdateReadState(n, c)
      <4>1. IsOpen(m, c)
        BY <3>2, <3>3 DEF IsOpen
      <4> QED  BY <4>1 DEF Send, u
    <3>5. /\ q \in Clients /\ q.st = w.conn[c].st
          /\ q.paused = w.conn[c].paused /\ q.reading = w.conn[c].reading
      <4>1. t \in BOOLEAN /\ m.conn[c] \in Clients /\ m.conn[c].out + 1 \in Nat
        BY <3>1, <3>3, Fields, ServeAssumption DEF Clients
      <4> HIDE DEF t
      <4> QED  BY <3>3, <4>1 DEF Clients
    <3> HIDE DEF q, c
    <3>6. /\ n \in Worlds /\ n.conn[c] = q /\ n.ses = m.ses
          /\ \A d \in Conns \ {c} : n.conn[d] = m.conn[d]
      BY <3>1, <3>3, <3>5, PutConn
    <3> HIDE DEF n
    <3>7. \A d \in Conns \ {c} : Spares(w, n, d)
      BY <3>3, <3>6 DEF Spares
    <3>8. Eases(w, u) /\ u \in Worlds
      BY <1>1, <3>1, <3>2, <3>4, <3>5, <3>6, <3>7, ReadStateEases, ReadStateIs
    <3>9. Eases(u, CloseAfterFlush(u, c))
      BY <3>1, <3>8, CloseAfterFlushIs
    <3>10. Eases(w, CloseAfterFlush(u, c))
      BY <3>8, <3>9, EasesOn
    <3>11. Deliver(v, s, a) \in {u, CloseAfterFlush(u, c)}
      BY <2>1, <2>6 DEF c
    <3> QED  BY <1>9, <3>8, <3>10, <3>11 DEF v, a
  <2> QED  BY <2>5, <2>6
<1> QED  BY <1>6, <1>9 DEF v
-------------------------------------------------------------------------------
(***************************************************************************)
(* The steps, and the pauses.                                              *)
(***************************************************************************)
LEMMA BecomesFlows ==
  ASSUME NEW w \in Worlds, NEW r, Flows(w, r), Becomes(w, r)
  PROVE  Flows(World', rx') /\ rx' = r
<1> DEFINE n == [NewConn EXCEPT !.st = "lost"]
           L == {d \in Conns : Unreferenced(w, d, r)}
<1>1. n.st = "lost"
  BY DEF NewConn
<1>2. /\ \A d \in Conns : conn'[d] = IF d \in L THEN n ELSE w.conn[d]
      /\ rx' = r /\ World'.conn = conn' /\ World'.ses = ses'
  BY DEF Becomes, World
<1>3. \A t \in Sessions : ses'[t].open = w.ses[t].open
  <2> SUFFICES ASSUME NEW t \in Sessions  PROVE ses'[t].open = w.ses[t].open
    OBVIOUS
  <2>1. w.ses[t] \in Relayed
    BY Fields
  <2>2. ses'[t] \in {w.ses[t], [w.ses[t] EXCEPT !.conn = None]}
    BY DEF Becomes
  <2> QED  BY <2>1, <2>2 DEF Relayed
<1>4. \A d \in Conns : w.conn[d].ses # None => w.conn[d].ses \in Sessions
  BY Fields DEF Clients
<1> HIDE DEF n, L
<1> DEFINE v == World'
<1>5. \A d \in Conns : v.conn[d] = w.conn[d] \/ v.conn[d].st = "lost"
  BY <1>1, <1>2
<1>6. \A t \in Sessions : v.ses[t].open = w.ses[t].open
  BY <1>2, <1>3
<1> HIDE DEF v
<1>7. \A d \in Conns : Spares(w, v, d)
  BY <1>4, <1>5, <1>6 DEF Spares
<1>8. Flows(v, r)
  BY <1>7, SparesEases, EasesFlows
<1> QED  BY <1>2, <1>8 DEF v

LEMMA FlowCarried ==
  ASSUME Flows(World', rx'), ~up' => rx' = None
  PROVE  FlowInv'
BY DEF FlowInv, Flows, Congested

LEMMA HandlerFlows ==
  ASSUME NEW w \in Worlds, NEW r, Flows(w, r), Becomes(w, r), ~up' => r = None
  PROVE  FlowInv'
<1>1. Flows(World', rx') /\ rx' = r
  BY BecomesFlows
<1> QED  BY <1>1, FlowCarried

LEMMA LineOfFlows ==
  ASSUME NEW w, Good(w), NEW c \in Conns, Flows(w, c), up, LineOf(w, c)
  PROVE  FlowInv'
<1>1. up' /\ w \in Worlds
  BY DEF LineOf, Good
<1>2. ASSUME NEW v, Good(v), Eases(w, v), Becomes(v, c)
      PROVE  FlowInv'
  <2>1. Flows(v, c)
    BY <1>2, EasesFlows
  <2> QED  BY <1>1, <1>2, <2>1, HandlerFlows DEF Good
<1>3. CASE \E kind \in LineKinds : \E v \in HandleLine(w, c, kind) : Becomes(v, c)
  <2>1. PICK kind \in LineKinds : \E v \in HandleLine(w, c, kind) : Becomes(v, c)
    BY <1>3
  <2>2. PICK v \in HandleLine(w, c, kind) : Becomes(v, c)
    BY <2>1
  <2>3. Good(v) /\ Eases(w, v)
    BY HandleLineGood, HandleLineEases
  <2> QED  BY <1>2, <2>2, <2>3
<1>4. CASE Becomes(HandleTooLong(w, c), c)
  <2>1. Good(HandleTooLong(w, c)) /\ Eases(w, HandleTooLong(w, c))
    BY <1>1, HandleTooLongGood, HandleTooLongEases
  <2> QED  BY <1>2, <1>4, <2>1
<1> QED  BY <1>3, <1>4 DEF LineOf

\* the end of every other handler, which runs with no chunk open
LEMMA EasesStep ==
  ASSUME Good(World), Flows(World, None), NEW v \in Worlds, Eases(World, v), Becomes(v, None)
  PROVE  FlowInv'
<1>1. Flows(v, None)
  BY EasesFlows
<1> QED  BY <1>1, HandlerFlows

\* the reading flag of one connection
LEMMA PutReading ==
  ASSUME Good(World), NEW c \in Conns, NEW b \in BOOLEAN
  PROVE  LET v == [World EXCEPT !.conn[c].reading = b]
         IN  /\ v \in Worlds /\ v.ses = ses /\ v.conn[c].reading = b
             /\ v.conn[c].st = conn[c].st /\ v.conn[c].paused = conn[c].paused
             /\ v.conn[c].out = conn[c].out /\ v.conn[c].ses = conn[c].ses
             /\ \A d \in Conns \ {c} : v.conn[d] = conn[d]
<1> DEFINE r == [World.conn[c] EXCEPT !.reading = b]
           v == [World EXCEPT !.conn[c].reading = b]
<1>1. World \in Worlds /\ World.conn[c] \in Clients /\ World.conn = conn /\ World.ses = ses
  BY Fields, WorldIs DEF Good
<1>2. /\ r \in Clients /\ r.ses = World.conn[c].ses /\ r.st = World.conn[c].st
      /\ r.out = World.conn[c].out /\ r.paused = World.conn[c].paused /\ r.reading = b
  BY <1>1 DEF Clients
<1>3. v = [World EXCEPT !.conn[c] = r]
  BY <1>1 DEF Worlds
<1> HIDE DEF r, v
<1>4. /\ v \in Worlds /\ v.conn[c] = r /\ v.ses = World.ses
      /\ \A d \in Conns \ {c} : v.conn[d] = World.conn[d]
  BY <1>1, <1>2, <1>3, PutConn
<1> QED  BY <1>1, <1>2, <1>4 DEF v

LEMMA ReadFlows ==
  ASSUME IInv, FlowInv, NEW c \in Conns, OnRead(c) \/ NextLine(c) \/ EndChunk(c)
  PROVE  FlowInv'
<1>1. Good(World) /\ Flows(World, rx) /\ World.conn = conn /\ World.ses = ses /\ c # None
  BY WorldIs, ServeAssumption DEF IInv, FlowInv
<1>2. CASE OnRead(c)
  <2> DEFINE w == [World EXCEPT !.conn[c].reading = FALSE]
  <2>1. up /\ rx = None /\ LineOf(w, c)
    BY <1>2 DEF OnRead, Handler
  <2>2. Good(w)
    BY <1>1, ReadingGood
  <2>3. /\ w.ses = ses /\ w.conn[c].st = conn[c].st /\ w.conn[c].paused = conn[c].paused
        /\ w.conn[c].out = conn[c].out /\ w.conn[c].ses = conn[c].ses
        /\ \A d \in Conns \ {c} : w.conn[d] = conn[d]
    BY <1>1, PutReading
  <2> HIDE DEF w
  <2>4. \A d \in Conns : Congested(w, d) <=> Congested(World, d)
    BY <1>1, <2>3 DEF Congested
  <2>5. Flows(w, c)
    BY <1>1, <2>1, <2>3, <2>4, ServeAssumption DEF Flows
  <2> QED  BY <2>1, <2>2, <2>5, LineOfFlows
<1>3. CASE NextLine(c)
  BY <1>1, <1>3, LineOfFlows DEF NextLine
<1>4. CASE EndChunk(c)
  <2> DEFINE w == [World EXCEPT !.conn[c].reading = TRUE]
  <2>1. /\ up' /\ rx = c
        /\ Becomes(IF conn[c].st = "open" /\ ~conn[c].paused THEN w ELSE World, None)
    BY <1>4 DEF EndChunk
  <2>2. /\ w \in Worlds /\ w.ses = ses /\ w.conn[c].reading = TRUE
        /\ w.conn[c].st = conn[c].st /\ w.conn[c].paused = conn[c].paused
        /\ w.conn[c].out = conn[c].out /\ w.conn[c].ses = conn[c].ses
        /\ \A d \in Conns \ {c} : w.conn[d] = conn[d]
    BY <1>1, PutReading
  <2> HIDE DEF w
  <2>3. CASE conn[c].st = "open" /\ ~conn[c].paused
    <3>1. \A d \in Conns : Congested(w, d) <=> Congested(World, d)
      BY <1>1, <2>2 DEF Congested
    <3>2. Flows(w, None)
      BY <1>1, <2>1, <2>2, <2>3, <3>1, ServeAssumption DEF Flows
    <3> QED  BY <2>1, <2>2, <2>3, <3>2, HandlerFlows
  <2>4. CASE ~(conn[c].st = "open" /\ ~conn[c].paused)
    <3>1. Flows(World, None)
      BY <1>1, <2>1, <2>4, ServeAssumption DEF Flows
    <3> QED  BY <1>1, <2>1, <2>4, <3>1, HandlerFlows DEF Good
  <2> QED  BY <2>3, <2>4
<1> QED  BY <1>2, <1>3, <1>4

LEMMA AcceptFlows ==
  ASSUME IInv, FlowInv, NEW c \in Conns, Accept(c)
  PROVE  FlowInv'
<1> DEFINE r == [conn[c] EXCEPT !.st = "open", !.reading = TRUE]
           w == [World EXCEPT !.conn[c] = r, !.tracked = @ \cup {c}]
<1>1. /\ World \in Worlds /\ conn[c] \in Clients /\ World.conn = conn /\ World.ses = ses
      /\ Flows(World, None) /\ conn[c].st = "unborn" /\ up' /\ Becomes(w, None)
  <2>1. World \in Worlds /\ World.conn = conn /\ World.ses = ses /\ Flows(World, rx)
    BY WorldIs DEF IInv, FlowInv, Good
  <2>2. conn[c] \in Clients
    BY <2>1, Fields
  <2> QED  BY <2>1, <2>2 DEF Accept, Handler
<1>2. ~conn[c].paused
  BY <1>1 DEF Flows
<1>3. r \in Clients /\ r.st = "open" /\ r.reading = TRUE /\ r.paused = conn[c].paused
  BY <1>1 DEF Clients
<1> HIDE DEF r
<1>4. /\ w \in Worlds /\ w.ses = World.ses
      /\ w.conn[c] = r /\ \A d \in Conns \ {c} : w.conn[d] = World.conn[d]
  BY <1>1, <1>3 DEF Worlds
<1> HIDE DEF w
<1>5. \A d \in Conns \ {c} : Congested(w, d) <=> Congested(World, d)
  BY <1>4 DEF Congested
<1>6. Flows(w, None)
  BY <1>1, <1>2, <1>3, <1>4, <1>5 DEF Flows
<1> QED  BY <1>1, <1>4, <1>6, HandlerFlows

LEMMA WriteDoneFlows ==
  ASSUME IInv, FlowInv, NEW c \in Conns, WriteDone(c)
  PROVE  FlowInv'
<1> DEFINE k == conn[c].out - 1
           r == [conn[c] EXCEPT !.out = k]
           w == [World EXCEPT !.conn[c].out = k]
           t == IF k > 0 THEN WriteTimeout ELSE w.conn[c].timer
           q == [r EXCEPT !.timer = t]
           v == [w EXCEPT !.conn[c].timer = IF k > 0 THEN WriteTimeout ELSE @]
           u == IF k = 0 /\ conn[c].st = "draining" THEN Close(w, c)
                ELSE UpdateReadState(v, c)
<1>1. /\ World \in Worlds /\ conn[c] \in Clients /\ World.conn = conn /\ World.ses = ses
      /\ Good(World) /\ Flows(World, None)
  <2>1. /\ World \in Worlds /\ World.conn = conn /\ World.ses = ses /\ Flows(World, rx)
        /\ Good(World)
    BY WorldIs DEF IInv, FlowInv, Good
  <2>2. conn[c] \in Clients
    BY <2>1, Fields
  <2> QED  BY <2>1, <2>2 DEF WriteDone, Handler
<1>2. k \in Nat
  BY <1>1 DEF WriteDone, Clients
<1>3. Becomes(u, None)
  BY DEF WriteDone
<1> HIDE DEF u, k
<1>4. /\ r \in Clients /\ r.st = conn[c].st /\ r.timer = conn[c].timer
      /\ r.paused = conn[c].paused /\ r.reading = conn[c].reading
  BY <1>1, <1>2 DEF Clients
<1>5. w = [World EXCEPT !.conn[c] = r]
  BY <1>1 DEF Worlds
<1> HIDE DEF w, r
<1>6. /\ w \in Worlds /\ w.conn[c] = r /\ w.ses = ses
      /\ \A d \in Conns \ {c} : w.conn[d] = conn[d]
  BY <1>1, <1>4, <1>5, PutConn
<1>7. t \in BOOLEAN
  BY <1>4, <1>6, ServeAssumption DEF Clients
<1>8. /\ q \in Clients /\ q.st = conn[c].st
      /\ q.paused = conn[c].paused /\ q.reading = conn[c].reading
  <2> HIDE DEF t
  <2> QED  BY <1>4, <1>7 DEF Clients
<1>9. v = [w EXCEPT !.conn[c] = q]
  BY <1>6 DEF Worlds
<1> HIDE DEF v, q, t
<1>10. /\ v \in Worlds /\ v.conn[c] = q /\ v.ses = ses
       /\ \A d \in Conns \ {c} : v.conn[d] = conn[d]
  BY <1>6, <1>8, <1>9, PutConn
<1>11. CASE IsOpen(World, c) /\ ~(k = 0 /\ conn[c].st = "draining")
  <2>1. \A d \in Conns \ {c} : Spares(World, v, d)
    BY <1>1, <1>10 DEF Spares
  <2>2. Eases(World, UpdateReadState(v, c)) /\ UpdateReadState(v, c) \in Worlds
    BY <1>1, <1>8, <1>10, <1>11, <2>1, ReadStateEases, ReadStateIs
  <2> QED  BY <1>1, <1>3, <1>11, <2>2, EasesStep DEF u
<1>12. CASE k = 0 /\ conn[c].st = "draining"
  <2> DEFINE z == Close(w, c)
  <2>1. IsOpen(w, c)
    BY <1>4, <1>6, <1>12 DEF IsOpen
  <2>2. /\ z \in Worlds /\ z.conn[c].st = "closed"
        /\ \A d \in Conns \ {c} : z.conn[d] = w.conn[d]
        /\ \A e \in Sessions : z.ses[e].open = w.ses[e].open
    BY <1>6, <2>1, CloseIs
  <2> HIDE DEF z
  <2>3. /\ \A d \in Conns : z.conn[d] = World.conn[d] \/ z.conn[d].st \in {"draining", "closed"}
        /\ \A e \in Sessions : z.ses[e].open = World.ses[e].open
    BY <1>1, <1>6, <2>2
  <2>4. Eases(World, z)
    BY <1>1, <2>3, SparesAll
  <2> QED  BY <1>1, <1>3, <1>12, <2>2, <2>4, EasesStep DEF u, z
<1>13. CASE ~IsOpen(World, c)
  <2>1. ~IsOpen(v, c)
    BY <1>1, <1>8, <1>10, <1>13 DEF IsOpen
  <2>2. u = v
    BY <1>13, <2>1, <1>1 DEF u, UpdateReadState, IsOpen
  <2>3. \A d \in Conns \ {c} : Congested(v, d) <=> Congested(World, d)
    BY <1>1, <1>10 DEF Congested
  <2>4. Flows(v, None)
    BY <1>1, <1>8, <1>10, <2>1, <2>3 DEF Flows, IsOpen
  <2>5. up'
    BY DEF WriteDone, Handler
  <2> QED  BY <1>3, <1>10, <2>2, <2>4, <2>5, HandlerFlows
<1> QED  BY <1>11, <1>12, <1>13

LEMMA ConnectionFlows ==
  ASSUME IInv, FlowInv, NEW c \in Conns,
         \/ Accept(c) \/ OnRead(c) \/ NextLine(c) \/ EndChunk(c)
         \/ ConnectionFails(c) \/ Deadline(c) \/ WriteDone(c)
  PROVE  FlowInv'
<1>1. CASE ConnectionFails(c) \/ Deadline(c)
  <2>1. Becomes(Close(World, c), None) /\ rx = None
    BY <1>1 DEF ConnectionFails, Deadline, Handler
  <2>2. Close(World, c) \in Worlds /\ Eases(World, Close(World, c))
    BY CloseIs DEF IInv, Good
  <2> QED  BY <2>1, <2>2, EasesStep DEF IInv, FlowInv
<1> QED  BY <1>1, AcceptFlows, ReadFlows, WriteDoneFlows

LEMMA ChildIsFlows ==
  ASSUME IInv, FlowInv, NEW s \in Sessions, NEW x \in Relayed, x.open = ses[s].open,
         ChildIs(s, x)
  PROVE  FlowInv'
<1> DEFINE v == [World EXCEPT !.ses[s] = x]
<1>1. World.ses = ses /\ World \in Worlds /\ Flows(World, rx)
  BY WorldIs DEF IInv, FlowInv, Good
<1>2. World' = v
  BY DEF ChildIs, World
<1>3. /\ v.conn = World.conn /\ v.ses[s] = x
      /\ \A t \in Sessions \ {s} : v.ses[t] = World.ses[t]
  BY <1>1, PutSes
<1> HIDE DEF v
<1>4. Eases(World, v)
  BY <1>1, <1>3, PutEases
<1>5. Flows(World', rx')
  <2>1. Flows(v, rx)
    BY <1>1, <1>4, EasesFlows
  <2>2. rx' = rx
    BY DEF ChildIs
  <2> QED  BY <1>2, <2>1, <2>2
<1>6. ~up' => rx' = None
  BY DEF ChildIs, FlowInv
<1> QED  BY <1>5, <1>6, FlowCarried

LEMMA SessionFlows ==
  ASSUME IInv, FlowInv, NEW s \in Sessions,
         \/ ChildAnswers(s) \/ ChildExits(s) \/ ReadAnswer(s)
         \/ ChildGone(s) \/ PipeError(s) \/ EndTimer(s)
         \/ TimePasses(s) \/ CheckIdle(s) \/ EndOfRun(s)
  PROVE  FlowInv'
<1> DEFINE x == ses[s]
<1>1. x \in Relayed /\ Good(World) /\ World.ses = ses /\ Flows(World, rx)
  BY WorldIs, Fields DEF IInv, Good, FlowInv
<1>2. CASE ReadAnswer(s)
  <2> DEFINE w == [World EXCEPT !.ses[s].fromChild = Tail(@)]
             v == IF Ended(World, s) THEN w
                  ELSE Deliver(w, s, Head(World.ses[s].fromChild))
  <2>1. World.ses[s].fromChild # << >> /\ Becomes(v, None) /\ rx = None
    BY <1>1, <1>2 DEF ReadAnswer, Relay, Handler
  <2>2. Good(v) /\ Eases(World, v)
    BY <1>1, <2>1, AnswerGood, AnswerEases
  <2> HIDE DEF v
  <2>3. v \in Worlds
    BY <2>2 DEF Good
  <2> QED  BY <1>1, <2>1, <2>2, <2>3, EasesStep
<1>3. CASE ChildGone(s) \/ PipeError(s) \/ EndTimer(s) \/ CheckIdle(s) \/ EndOfRun(s)
  <2>1. Becomes(Shutdown(World, s), None) /\ rx = None
    BY <1>3 DEF ChildGone, PipeError, EndTimer, CheckIdle, EndOfRun, Relay, Handler, FlowInv
  <2>2. Shutdown(World, s) \in Worlds /\ Eases(World, Shutdown(World, s))
    BY <1>1, ShutdownEases DEF Good
  <2> QED  BY <1>1, <2>1, <2>2, EasesStep
<1>4. CASE ChildAnswers(s)
  <2> DEFINE t == Tail(x.toChild)
             f == Append(x.fromChild, Head(x.toChild))
             y == [x EXCEPT !.toChild = t, !.fromChild = f]
  <2>1. x.toChild # << >> /\ ChildIs(s, y)
    BY <1>4 DEF ChildAnswers
  <2>2. t \in Seq(Answers) /\ f \in Seq(Answers)
    <3>1. /\ x.toChild \in Seq(Answers) /\ x.fromChild \in Seq(Answers)
          /\ Head(x.toChild) \in Answers /\ t \in Seq(Answers)
      BY <1>1, <2>1, HeadTailProperties DEF Relayed
    <3> QED  BY <3>1, AppendProperties
  <2> HIDE DEF t, f, x
  <2>3. y \in Relayed /\ y.open = x.open
    BY <1>1, <2>2 DEF Relayed
  <2> HIDE DEF y
  <2> QED  BY <2>1, <2>3, ChildIsFlows DEF x
<1>5. CASE ChildExits(s)
  <2> DEFINE y == [x EXCEPT !.child = "exited"]
  <2>1. ChildIs(s, y)
    BY <1>5 DEF ChildExits
  <2> HIDE DEF x
  <2>2. y \in Relayed /\ y.open = x.open
    BY <1>1 DEF Relayed
  <2> HIDE DEF y
  <2> QED  BY <2>1, <2>2, ChildIsFlows DEF x
<1>6. CASE TimePasses(s)
  <2>1. PICK i \in {x.idle, TRUE} : ChildIs(s, [x EXCEPT !.silent = TRUE, !.idle = i])
    BY <1>6 DEF TimePasses
  <2> DEFINE y == [x EXCEPT !.silent = TRUE, !.idle = i]
  <2> HIDE DEF x
  <2>2. i \in BOOLEAN
    BY <1>1 DEF Relayed
  <2>3. y \in Relayed /\ y.open = x.open
    BY <1>1, <2>2 DEF Relayed
  <2>4. ChildIs(s, y)
    BY <2>1
  <2> HIDE DEF y
  <2> QED  BY <2>3, <2>4, ChildIsFlows DEF x
<1> QED  BY <1>2, <1>3, <1>4, <1>5, <1>6

LEMMA StartFlows == Init => FlowInv
<1> SUFFICES ASSUME Init  PROVE FlowInv
  OBVIOUS
<1>1. NewConn.st = "unborn" /\ ~NewConn.paused
  BY DEF NewConn
<1> HIDE DEF NewConn
<1>2. \A c \in Conns : World.conn[c] = NewConn
  BY DEF Init, World
<1> QED  BY <1>1, <1>2 DEF FlowInv, Flows, Init

LEMMA StepFlows == IInv /\ FlowInv /\ [Next]_vars => FlowInv'
<1> SUFFICES ASSUME IInv, FlowInv, [Next]_vars  PROVE FlowInv'
  OBVIOUS
<1>1. ASSUME UNCHANGED <<conn, ses, tracked, report, rx>>, up' = up \/ rx = None
      PROVE  FlowInv'
  <2>1. World' = World /\ rx' = rx
    BY <1>1 DEF World
  <2>2. Flows(World', rx')
    BY <2>1 DEF FlowInv
  <2> QED  BY <1>1, <2>2, FlowCarried DEF FlowInv
<1>2. CASE Stop
  BY <1>1, <1>2 DEF Stop, Handler
<1>3. CASE UNCHANGED vars \/ Stopped
  BY <1>1, <1>3 DEF vars, Stopped
<1> QED  BY <1>2, <1>3, ConnectionFlows, SessionFlows DEF Next

\* A client is read from, except while its output or its session has no room,
\* for any number of clients, sessions and answers (on_read, deliver,
\* update_read_state).
THEOREM NeverStalledHolds == Spec => []NeverStalled
<1>1. FlowInv => NeverStalled
  BY WorldIs DEF FlowInv, Flows, NeverStalled
<1>2. Spec => []FlowInv
  BY InvariantHolds, StartFlows, StepFlows, PTL DEF Spec
<1> QED  BY <1>1, <1>2, PTL
===============================================================================
