--------------------------- MODULE AuditLogProofs ---------------------------
(***************************************************************************)
(* That what is read back from the files is the end of what was written,   *)
(* for any retention, any size of the files and any number of handlers,    *)
(* records and rotations that stop half-way, and that the sink implements  *)
(* the trail of AuditLedger. The files are read by a recursive function,   *)
(* so the first part says what reading makes of a file that is moved,      *)
(* dropped or extended: each fact goes up from one file to the next, and   *)
(* a claim that held of some file and not of the next would have a least   *)
(* counterexample (Least, UpTo). The invariant then counts the holes that  *)
(* rotations leave among the numbered files (FewHoles) and says where each *)
(* record can be (Trail, Shown, Calls).                                    *)
(***************************************************************************)
EXTENDS AuditLog, FiniteSetTheorems, WellFoundedInduction, SequenceTheorems, TLAPS

Files == [0..Retention -> Seq(Line)]

\* Every numbered file is empty or full.
Full(F) == \A i \in 1..Retention : F[i] # <<>> => Len(F[i]) = MaxLines

\* The empty ones among the numbered files up to n.
Holes(F, n) == Cardinality({i \in 1..n : F[i] = <<>>})

\* Lines s are the end of lines w.
EndOf(s, w) ==
    /\ Len(s) <= Len(w)
    /\ \A k \in 1..Len(s) : s[k] = w[Len(w) - Len(s) + k]

\* What a handler between the locks has found and left.
Rotation ==
    /\ ~up => \A t \in Thread : pc[t] = "idle"
    /\ Full(files)
    /\ \A t \in Thread :
           /\ pc[t] \in {"oldest", "shift"} => Len(files[0]) = MaxLines
           /\ pc[t] = "shift" => call[t].index < Retention /\ files[call[t].index + 1] = <<>>
           /\ pc[t] = "line" => Len(files[0]) < MaxLines

\* A rotation has emptied a file above j and not yet filled it.
Moving(j) == \E t \in Thread : pc[t] = "shift" /\ call[t].index < j

\* The holes up to file j that are accounted for: one for every rotation that
\* stopped, and the one that moves.
Owed(j) == IF Moving(j) THEN interrupted + 1 ELSE interrupted

\* File j is not empty, or it is the last one and lines are gone.
Reached(j) == files[j] # <<>> \/ (j = Retention /\ Len(Loaded) < Len(written))

\* There are no others below such a file.
FewHoles == \A j \in 1..Retention : Reached(j) => Holes(files, j) <= Owed(j)

\* Record r was written, and is there unless a fragment has spoilt it.
OnDisk(r) == \E k \in DOMAIN written : written[k] = r \/ (torn /\ written[k] = Junk)

\* What was written: records that were given out, each once, and fragments.
Trail ==
    /\ \A k \in DOMAIN written :
           /\ written[k] \in Record => written[k] \in issued
           /\ written[k] \notin Record => torn
    /\ \A j, k \in DOMAIN written : written[j] \in Record /\ written[j] = written[k] => j = k

\* What is shown or acknowledged was written before.
Shown ==
    /\ \A k \in DOMAIN memory : memory[k] \in issued /\ OnDisk(memory[k])
    /\ \A j, k \in DOMAIN memory : memory[j] = memory[k] => j = k
    /\ \A r \in answered : OnDisk(r)

\* Every handler has a record of its own, which is nowhere before it is written.
Calls ==
    /\ \A t \in Thread :
           pc[t] # "idle" =>
               /\ call[t].record \in issued
               /\ \A k \in DOMAIN memory : memory[k] # call[t].record
               /\ pc[t] \in {"lock", "oldest", "shift", "line"} =>
                      \A k \in DOMAIN written : written[k] # call[t].record
               /\ pc[t] \in {"mode", "note"} => OnDisk(call[t].record)
    /\ \A t, u \in Thread : pc[t] # "idle" /\ pc[u] # "idle" /\ t # u =>
           call[t].record # call[u].record

IInv ==
    /\ TypeOK
    /\ Rotation
    /\ EndOf(Loaded, written)
    /\ FewHoles
    /\ Trail
    /\ Shown
    /\ Calls

-----------------------------------------------------------------------------
(* Reading a history back, for any contents F of its files.                *)

\* A set of naturals that is not empty has a least element: the one form of
\* induction used here, for the file where a claim would fail first.
LEMMA Least ==
    ASSUME NEW T, T \subseteq Nat, T # {}
    PROVE  \E n \in T : \A m \in T : n <= m
<1>1. PICK n \in T : \A m \in T : ~(<<m, n>> \in OpToRel(<, Nat))
  BY NatLessThanWellFounded, WFMin
<1>2. \A m \in T : ~(m < n)
  BY <1>1 DEF OpToRel
<1>3. QED
  BY <1>2

\* \o by a name that no backend expands.
Cat(a, b) == a \o b

LEMMA CatIsSeq ==
    ASSUME NEW a \in Seq(Line), NEW b \in Seq(Line)
    PROVE  /\ Cat(a, b) \in Seq(Line)
           /\ Len(Cat(a, b)) = Len(a) + Len(b)
           /\ \A i \in 1..(Len(a) + Len(b)) :
                  Cat(a, b)[i] = IF i <= Len(a) THEN a[i] ELSE b[i - Len(a)]
BY ConcatProperties, Zenon DEF Cat

LEMMA CatEmpty ==
    ASSUME NEW a \in Seq(Line)
    PROVE  Cat(a, <<>>) = a /\ Cat(<<>>, a) = a
BY ConcatEmptySeq, Zenon DEF Cat

\* The one function that reads files 0 .. n of F.
ReadsUpTo(F, n, r) == r = [i \in 0..n |-> IF i = 0 THEN F[0] ELSE Cat(F[i], r[i - 1])]
Read(F) == CHOOSE r : ReadsUpTo(F, Retention, r)

LEMMA ReadingIsRead == Reading = Read(files)
BY DEF Reading, Read, ReadsUpTo, Cat

LEMMA ReadExists ==
    ASSUME NEW F, NEW n \in Nat
    PROVE  \E r : ReadsUpTo(F, n, r)
<1> DEFINE T == {m \in Nat : ~ \E r : ReadsUpTo(F, m, r)}
<1> SUFFICES ASSUME T # {} PROVE FALSE
  OBVIOUS
<1>1. PICK m \in T : \A k \in T : m <= k
  <2> HIDE DEF T
  <2>1. T \subseteq Nat
    BY DEF T
  <2>2. QED
    BY <2>1, Least
<1>2. m # 0
  <2>1. ReadsUpTo(F, 0, [i \in 0..0 |-> F[0]])
    BY DEF ReadsUpTo
  <2>2. QED
    BY <2>1
<1>3. m - 1 \in Nat /\ ~(m <= m - 1)
  BY <1>2
<1>4. PICK r : ReadsUpTo(F, m - 1, r)
  BY <1>1, <1>3
<1> DEFINE q == [i \in 0..m |-> IF i <= m - 1 THEN r[i] ELSE Cat(F[m], r[m - 1])]
<1>5. \A i \in 0..(m - 1) : r[i] = IF i = 0 THEN F[0] ELSE Cat(F[i], r[i - 1])
  BY <1>4 DEF ReadsUpTo
<1>6. \A i \in 0..m : q[i] = IF i = 0 THEN F[0] ELSE Cat(F[i], q[i - 1])
  <2> SUFFICES ASSUME NEW i \in 0..m
               PROVE  q[i] = IF i = 0 THEN F[0] ELSE Cat(F[i], q[i - 1])
    OBVIOUS
  <2>1. CASE i = m
    BY <1>2, <1>3, <2>1
  <2>2. CASE i \in 0..(m - 1)
    BY <1>3, <1>5, <2>2
  <2>3. QED
    BY <1>3, <2>1, <2>2
<1>7. ReadsUpTo(F, m, q)
  <2>1. q = [i \in 0..m |-> q[i]]
    OBVIOUS
  <2> HIDE DEF q
  <2>2. QED
    BY <1>6, <2>1 DEF ReadsUpTo
<1>8. QED
  BY <1>7

LEMMA ReadStep ==
    ASSUME AuditAssumption, NEW F
    PROVE  /\ Read(F)[0] = F[0]
           /\ \A i \in 1..Retention : Read(F)[i] = Cat(F[i], Read(F)[i - 1])
<1>1. Retention \in Nat
  BY DEF AuditAssumption
<1>2. ReadsUpTo(F, Retention, Read(F))
  BY <1>1, ReadExists DEF Read
<1>3. ASSUME NEW r, ReadsUpTo(F, Retention, r)
      PROVE  \A i \in 0..Retention : r[i] = IF i = 0 THEN F[0] ELSE Cat(F[i], r[i - 1])
  BY <1>3 DEF ReadsUpTo
<1>4. \A i \in 0..Retention : Read(F)[i] = IF i = 0 THEN F[0] ELSE Cat(F[i], Read(F)[i - 1])
  BY <1>2, <1>3
<1>5. QED
  BY <1>1, <1>4

\* A claim C on the first files that goes up to the next one holds of them all.
LEMMA UpTo ==
    ASSUME NEW a \in Nat, NEW b \in Nat, NEW C, a \in C,
           \A i \in a..b : i \in C /\ i + 1 <= b => i + 1 \in C
    PROVE  \A i \in a..b : i \in C
<1> DEFINE T == {i \in a..b : i \notin C}
<1> SUFFICES ASSUME T # {} PROVE FALSE
  OBVIOUS
<1>1. PICK m \in T : \A k \in T : m <= k
  <2>1. T \subseteq Nat
    OBVIOUS
  <2> HIDE DEF T
  <2>2. QED
    BY <2>1, Least
<1>2. m - 1 \in a..b /\ ~(m <= m - 1) /\ m - 1 + 1 = m
  BY <1>1
<1>3. QED
  BY <1>1, <1>2

LEMMA ReadIsSeq ==
    ASSUME AuditAssumption, NEW F \in Files
    PROVE  \A i \in 0..Retention : Read(F)[i] \in Seq(Line)
<1> DEFINE C == {i \in 0..Retention : Read(F)[i] \in Seq(Line)}
<1>1. Retention \in Nat /\ 0 \in Nat
  BY DEF AuditAssumption
<1>2. 0 \in C
  <2>1. 0 \in 0..Retention
    BY <1>1
  <2>2. Read(F)[0] = F[0] /\ F[0] \in Seq(Line)
    BY <2>1, ReadStep DEF Files
  <2>3. QED
    BY <2>1, <2>2
<1>3. ASSUME NEW i \in 0..Retention, i \in C, i + 1 <= Retention PROVE i + 1 \in C
  <2>1. i + 1 \in 1..Retention /\ i + 1 \in 0..Retention /\ i + 1 - 1 = i
    BY <1>1, <1>3
  <2>2. F[i + 1] \in Seq(Line) /\ Read(F)[i] \in Seq(Line)
    BY <1>3, <2>1 DEF Files
  <2>3. Read(F)[i + 1] = Cat(F[i + 1], Read(F)[i])
    BY <1>1, <2>1, ReadStep
  <2>4. QED
    BY <1>1, <2>1, <2>2, <2>3, CatIsSeq
<1> HIDE DEF C
<1>4. \A i \in 0..Retention : i \in C
  BY <1>1, <1>2, <1>3, UpTo
<1>5. QED
  BY <1>4 DEF C

\* Two histories that agree from file m on are read alike from there on.
LEMMA ReadAlike ==
    ASSUME AuditAssumption, NEW F \in Files, NEW G \in Files,
           NEW m \in 0..Retention, NEW n \in m..Retention,
           Read(F)[m] = Read(G)[m], \A i \in (m + 1)..n : F[i] = G[i]
    PROVE  Read(F)[n] = Read(G)[n]
<1> DEFINE C == {i \in 0..Retention : Read(F)[i] = Read(G)[i]}
<1>1. Retention \in Nat /\ m \in Nat /\ n \in Nat
  BY DEF AuditAssumption
<1>2. m \in C
  OBVIOUS
<1>3. ASSUME NEW i \in m..n, i \in C, i + 1 <= n PROVE i + 1 \in C
  <2>1. i + 1 \in 1..Retention /\ i + 1 \in (m + 1)..n /\ i + 1 - 1 = i
    BY <1>1, <1>3
  <2>2. Read(F)[i + 1] = Cat(F[i + 1], Read(F)[i]) /\ Read(G)[i + 1] = Cat(G[i + 1], Read(G)[i])
    BY <1>1, <2>1, ReadStep
  <2>3. QED
    BY <1>1, <1>3, <2>1, <2>2
<1> HIDE DEF C
<1>4. \A i \in m..n : i \in C
  BY <1>1, <1>2, <1>3, UpTo
<1>5. QED
  BY <1>1, <1>4 DEF C

\* A file that is moved into an empty place above it is read at the same place.
LEMMA ReadMoved ==
    ASSUME AuditAssumption, NEW F \in Files, NEW m \in 0..(Retention - 1), F[m + 1] = <<>>,
           NEW G \in Files, G[m + 1] = F[m], G[m] = <<>>,
           \A i \in 0..Retention : i # m /\ i # m + 1 => G[i] = F[i]
    PROVE  Read(G)[Retention] = Read(F)[Retention]
<1>1. /\ Retention \in Nat \ {0} /\ m \in 0..Retention /\ m + 1 \in 1..Retention
      /\ m + 1 - 1 = m
  BY DEF AuditAssumption
<1>2. <<>> \in Seq(Line) /\ F[m] \in Seq(Line)
  BY <1>1 DEF Files
<1>4. /\ Read(F)[m + 1] = Cat(<<>>, Read(F)[m])
      /\ Read(G)[m + 1] = Cat(F[m], Read(G)[m])
      /\ Read(F)[m] \in Seq(Line)
  BY <1>1, ReadStep, ReadIsSeq
<1>5. Read(F)[m + 1] = Read(F)[m]
  BY <1>4, CatEmpty
<1>6. Read(G)[m + 1] = Read(F)[m]
  <2>1. CASE m = 0
    <3>1. Read(F)[m] = F[m] /\ Read(G)[m] = <<>>
      BY <1>1, <2>1, ReadStep
    <3>2. QED
      BY <1>2, <1>4, <3>1, CatEmpty
  <2>2. CASE m # 0
    <3>1. m \in 1..Retention /\ m - 1 \in 0..Retention /\ m - 1 \in 0..(m - 1) /\ 0 \in 0..Retention
      BY <1>1, <2>2
    <3>2. Read(F)[0] = Read(G)[0]
      BY <1>1, <3>1, <2>2, ReadStep
    <3>3. \A i \in 1..(m - 1) : F[i] = G[i]
      BY <1>1
    <3>4. Read(F)[m - 1] = Read(G)[m - 1]
      BY <1>1, <3>1, <3>2, <3>3, ReadAlike
    <3>5. Read(F)[m] = Cat(F[m], Read(F)[m - 1]) /\ Read(G)[m] = Cat(<<>>, Read(G)[m - 1])
      BY <1>1, <3>1, ReadStep
    <3>6. Read(G)[m - 1] \in Seq(Line)
      BY <1>1, <3>1, ReadIsSeq
    <3>7. QED
      BY <1>4, <3>4, <3>5, <3>6, CatEmpty
  <2>3. QED
    BY <2>1, <2>2
<1>7. Retention \in (m + 1)..Retention /\ \A i \in (m + 2)..Retention : G[i] = F[i]
  BY <1>1
<1>8. QED
  BY <1>1, <1>5, <1>6, <1>7, ReadAlike

\* The oldest file is what is read first.
LEMMA ReadDropped ==
    ASSUME AuditAssumption, NEW F \in Files, NEW G \in Files,
           G[Retention] = <<>>, \A i \in 0..(Retention - 1) : G[i] = F[i]
    PROVE  Read(F)[Retention] = Cat(F[Retention], Read(G)[Retention])
<1>1. /\ Retention \in 1..Retention /\ Retention - 1 \in 0..Retention
      /\ Retention - 1 \in 0..(Retention - 1) /\ 0 \in 0..Retention
      /\ 0 \in 0..(Retention - 1) /\ \A i \in 1..(Retention - 1) : i \in 0..(Retention - 1)
  BY DEF AuditAssumption
<1>2. Read(F)[0] = Read(G)[0]
  BY <1>1, ReadStep
<1>3. Read(F)[Retention - 1] = Read(G)[Retention - 1]
  <2>1. \A i \in (0 + 1)..(Retention - 1) : F[i] = G[i]
    BY <1>1
  <2>2. QED
    BY <1>1, <1>2, <2>1, ReadAlike
<1>4. /\ Read(F)[Retention] = Cat(F[Retention], Read(F)[Retention - 1])
      /\ Read(G)[Retention] = Cat(<<>>, Read(G)[Retention - 1])
  BY <1>1, ReadStep
<1>5. Read(G)[Retention - 1] \in Seq(Line)
  BY <1>1, ReadIsSeq
<1>6. QED
  BY <1>3, <1>4, <1>5, CatEmpty

\* The last line of lines s becomes x.
Mended(s, x) == [s EXCEPT ![Len(s)] = x]

LEMMA MendedIsSeq ==
    ASSUME NEW s \in Seq(Line), s # <<>>, NEW x \in Line
    PROVE  /\ Mended(s, x) \in Seq(Line) /\ Mended(s, x) # <<>>
           /\ Len(Mended(s, x)) = Len(s) /\ Len(s) \in Nat \ {0}
           /\ \A i \in 1..Len(s) : Mended(s, x)[i] = IF i = Len(s) THEN x ELSE s[i]
<1>1. Len(s) \in Nat \ {0} /\ Len(s) \in 1..Len(s)
  OBVIOUS
<1>2. QED
  BY <1>1, ExceptSeq DEF Mended

LEMMA CatAppend ==
    ASSUME NEW a \in Seq(Line), NEW b \in Seq(Line), NEW x \in Line
    PROVE  Cat(a, Append(b, x)) = Append(Cat(a, b), x)
<1> DEFINE e == Append(b, x)
           f == Cat(a, b)
           c == Cat(a, e)
           d == Append(f, x)
           n == Len(a) + Len(b)
<1>1. /\ e \in Seq(Line) /\ Len(e) = Len(b) + 1 /\ e[Len(b) + 1] = x
      /\ \A i \in 1..Len(b) : e[i] = b[i]
      /\ Len(a) \in Nat /\ Len(b) \in Nat
  OBVIOUS
<1>2. /\ f \in Seq(Line) /\ Len(f) = n
      /\ \A i \in 1..n : f[i] = IF i <= Len(a) THEN a[i] ELSE b[i - Len(a)]
  BY CatIsSeq
<1> HIDE DEF e, f
<1>3. /\ c \in Seq(Line) /\ Len(c) = Len(a) + Len(e)
      /\ \A i \in 1..(Len(a) + Len(e)) :
             c[i] = IF i <= Len(a) THEN a[i] ELSE e[i - Len(a)]
  BY <1>1, CatIsSeq
<1>4. /\ d \in Seq(Line) /\ Len(d) = Len(f) + 1 /\ d[Len(f) + 1] = x
      /\ \A i \in 1..Len(f) : d[i] = f[i]
  BY <1>2
<1> HIDE DEF c, d
<1>5. Len(c) = n + 1 /\ Len(d) = n + 1
  BY <1>1, <1>2, <1>3, <1>4
<1>6. ASSUME NEW i \in 1..(n + 1) PROVE c[i] = d[i]
  <2>1. CASE i <= Len(a)
    <3>1. i \in 1..n /\ i \in 1..(Len(a) + Len(e))
      BY <1>1, <2>1
    <3>2. c[i] = a[i] /\ f[i] = a[i]
      BY <1>2, <1>3, <2>1, <3>1
    <3>3. QED
      BY <1>2, <1>4, <3>1, <3>2
  <2>2. CASE i \in (Len(a) + 1)..n
    <3>1. i - Len(a) \in 1..Len(b) /\ i \in 1..n /\ ~(i <= Len(a))
      BY <1>1, <2>2
    <3>2. c[i] = e[i - Len(a)] /\ d[i] = b[i - Len(a)]
      BY <1>1, <1>2, <1>3, <1>4, <3>1
    <3>3. QED
      BY <1>1, <3>1, <3>2
  <2>3. CASE i = n + 1
    <3>1. i - Len(a) = Len(b) + 1 /\ ~(i <= Len(a)) /\ i \in 1..(Len(a) + Len(e))
      BY <1>1, <2>3
    <3>2. c[i] = e[Len(b) + 1] /\ d[i] = x
      BY <1>2, <1>3, <1>4, <2>3, <3>1
    <3>3. QED
      BY <1>1, <3>2
  <2>4. i <= Len(a) \/ i \in (Len(a) + 1)..n \/ i = n + 1
    <3>1. n \in Nat /\ Len(a) \in Nat
      BY <1>1
    <3> HIDE DEF n
    <3>2. QED
      BY <3>1
  <2>5. QED
    BY <2>1, <2>2, <2>3, <2>4
<1>7. c = d
  BY <1>3, <1>4, <1>5, <1>6, SeqEqual
<1>8. QED
  BY <1>7 DEF c, d, e, f

LEMMA CatMended ==
    ASSUME NEW a \in Seq(Line), NEW b \in Seq(Line), b # <<>>, NEW x \in Line
    PROVE  /\ Cat(a, b) # <<>> /\ Cat(a, b)[Len(Cat(a, b))] = b[Len(b)]
           /\ Cat(a, Mended(b, x)) = Mended(Cat(a, b), x)
<1> DEFINE e == Mended(b, x)
           f == Cat(a, b)
           c == Cat(a, e)
           d == Mended(f, x)
           n == Len(a) + Len(b)
<1>1. /\ e \in Seq(Line) /\ Len(e) = Len(b)
      /\ \A i \in 1..Len(b) : e[i] = IF i = Len(b) THEN x ELSE b[i]
      /\ Len(a) \in Nat /\ Len(b) \in Nat \ {0}
  <2>1. Len(a) \in Nat
    OBVIOUS
  <2>2. QED
    BY <2>1, MendedIsSeq
<1>2. /\ f \in Seq(Line) /\ Len(f) = n
      /\ \A i \in 1..n : f[i] = IF i <= Len(a) THEN a[i] ELSE b[i - Len(a)]
  BY CatIsSeq
<1> HIDE DEF e, f
<1>3. f # <<>>
  BY <1>1, <1>2
<1>4. f[n] = b[Len(b)]
  <2>1. n \in 1..n /\ ~(n <= Len(a)) /\ n - Len(a) = Len(b)
    BY <1>1
  <2>2. QED
    BY <1>2, <2>1
<1>5. /\ c \in Seq(Line) /\ Len(c) = Len(a) + Len(e)
      /\ \A i \in 1..(Len(a) + Len(e)) :
             c[i] = IF i <= Len(a) THEN a[i] ELSE e[i - Len(a)]
  BY <1>1, CatIsSeq
<1>6. /\ d \in Seq(Line) /\ Len(d) = Len(f)
      /\ \A i \in 1..Len(f) : d[i] = IF i = Len(f) THEN x ELSE f[i]
  BY <1>2, <1>3, MendedIsSeq
<1> HIDE DEF c, d
<1>7. ASSUME NEW i \in 1..n PROVE c[i] = d[i]
  <2>1. CASE i <= Len(a)
    <3>1. i # n /\ c[i] = a[i] /\ f[i] = a[i]
      BY <1>1, <1>2, <1>5, <2>1
    <3>2. QED
      BY <1>2, <1>6, <3>1
  <2>2. CASE ~(i <= Len(a))
    <3>1. i - Len(a) \in 1..Len(b) /\ (i - Len(a) = Len(b) <=> i = n)
      BY <1>1, <2>2
    <3>2. c[i] = e[i - Len(a)] /\ f[i] = b[i - Len(a)]
      BY <1>1, <1>2, <1>5, <2>2
    <3>3. QED
      BY <1>1, <1>2, <1>6, <3>1, <3>2
  <2>3. QED
    BY <2>1, <2>2
<1>8. c = d
  BY <1>1, <1>2, <1>5, <1>6, <1>7, SeqEqual
<1>9. QED
  BY <1>2, <1>3, <1>4, <1>8 DEF c, d, e, f

\* What is written to the file at 0 is read at the end.
LEMMA ReadAppended ==
    ASSUME AuditAssumption, NEW F \in Files, NEW G \in Files, NEW x \in Line,
           G[0] = Append(F[0], x), \A i \in 1..Retention : G[i] = F[i]
    PROVE  Read(G)[Retention] = Append(Read(F)[Retention], x)
<1> DEFINE C == {i \in 0..Retention : Read(G)[i] = Append(Read(F)[i], x)}
<1>1. Retention \in Nat /\ 0 \in Nat
  BY DEF AuditAssumption
<1>2. 0 \in C
  BY <1>1, ReadStep
<1>3. ASSUME NEW i \in 0..Retention, i \in C, i + 1 <= Retention PROVE i + 1 \in C
  <2>1. i + 1 \in 1..Retention /\ i + 1 \in 0..Retention /\ i + 1 - 1 = i
    BY <1>1, <1>3
  <2>2. F[i + 1] \in Seq(Line) /\ Read(F)[i] \in Seq(Line)
    BY <1>1, <2>1, ReadIsSeq DEF Files
  <2>3. Read(G)[i + 1] = Cat(F[i + 1], Append(Read(F)[i], x))
    <3>1. Read(G)[i] = Append(Read(F)[i], x)
      BY <1>3
    <3>2. Read(G)[i + 1] = Cat(G[i + 1], Read(G)[i + 1 - 1])
      BY <1>1, <2>1, ReadStep
    <3>3. G[i + 1] = F[i + 1]
      BY <2>1
    <3>4. QED
      BY <2>1, <3>1, <3>2, <3>3
  <2>4. Read(F)[i + 1] = Cat(F[i + 1], Read(F)[i])
    <3>1. Read(F)[i + 1] = Cat(F[i + 1], Read(F)[i + 1 - 1])
      BY <1>1, <2>1, ReadStep
    <3>2. QED
      BY <2>1, <3>1
  <2>5. Cat(F[i + 1], Append(Read(F)[i], x)) = Append(Cat(F[i + 1], Read(F)[i]), x)
    BY <2>2, CatAppend
  <2>6. Read(G)[i + 1] = Append(Read(F)[i + 1], x)
    BY <2>3, <2>4, <2>5
  <2>7. QED
    BY <2>1, <2>6
<1> HIDE DEF C
<1>4. \A i \in 0..Retention : i \in C
  BY <1>1, <1>2, <1>3, UpTo
<1>5. QED
  BY <1>1, <1>4 DEF C

LEMMA ReadMended ==
    ASSUME AuditAssumption, NEW F \in Files, NEW G \in Files, NEW x \in Line,
           F[0] # <<>>, G[0] = Mended(F[0], x), \A i \in 1..Retention : G[i] = F[i]
    PROVE  /\ Read(F)[Retention] # <<>>
           /\ Read(F)[Retention][Len(Read(F)[Retention])] = F[0][Len(F[0])]
           /\ Read(G)[Retention] = Mended(Read(F)[Retention], x)
<1> DEFINE Ends(i) == /\ Read(F)[i] # <<>>
                      /\ Read(F)[i][Len(Read(F)[i])] = F[0][Len(F[0])]
                      /\ Read(G)[i] = Mended(Read(F)[i], x)
           C == {i \in 0..Retention : Ends(i)}
<1>1. Retention \in Nat /\ 0 \in Nat
  BY DEF AuditAssumption
<1>2. 0 \in C
  BY <1>1, ReadStep
<1>3. ASSUME NEW i \in 0..Retention, i \in C, i + 1 <= Retention PROVE i + 1 \in C
  <2>1. i + 1 \in 1..Retention /\ i + 1 \in 0..Retention /\ i + 1 - 1 = i
    BY <1>1, <1>3
  <2>2. F[i + 1] \in Seq(Line) /\ Read(F)[i] \in Seq(Line)
    BY <1>1, <2>1, ReadIsSeq DEF Files
  <2>3. Ends(i)
    BY <1>3
  <2>4. Read(G)[i + 1] = Cat(F[i + 1], Mended(Read(F)[i], x))
    <3>1. Read(G)[i + 1] = Cat(G[i + 1], Read(G)[i + 1 - 1]) /\ G[i + 1] = F[i + 1]
      BY <1>1, <2>1, ReadStep
    <3>2. QED
      BY <2>1, <2>3, <3>1
  <2>5. Read(F)[i + 1] = Cat(F[i + 1], Read(F)[i])
    BY <1>1, <2>1, ReadStep
  <2>6. Ends(i + 1)
    BY <2>2, <2>3, <2>4, <2>5, CatMended
  <2>7. QED
    BY <2>1, <2>6
<1> HIDE DEF C
<1>4. \A i \in 0..Retention : i \in C
  BY <1>1, <1>2, <1>3, UpTo
<1>5. QED
  BY <1>1, <1>4 DEF C

LEMMA HolesStep ==
    ASSUME NEW F, NEW n \in Nat
    PROVE  /\ Holes(F, n) \in Nat
           /\ Holes(F, 0) = 0
           /\ F[n + 1] = <<>> => Holes(F, n + 1) = Holes(F, n) + 1
           /\ F[n + 1] # <<>> => Holes(F, n + 1) = Holes(F, n)
<1> DEFINE S(k) == {i \in 1..k : F[i] = <<>>}
<1>1. IsFiniteSet(S(n))
  <2>1. IsFiniteSet(1..n)
    BY FS_Interval
  <2>2. S(n) \in SUBSET (1..n)
    OBVIOUS
  <2>3. QED
    BY <2>1, <2>2, FS_Subset
<1>2. S(0) = {} /\ n + 1 \notin S(n)
  OBVIOUS
<1>3. S(n + 1) = IF F[n + 1] = <<>> THEN S(n) \cup {n + 1} ELSE S(n)
  <2>1. \A i : i \in 1..(n + 1) <=> i \in 1..n \/ i = n + 1
    OBVIOUS
  <2>2. QED
    BY <2>1
<1> HIDE DEF S
<1>4. Cardinality(S(n)) \in Nat
  BY <1>1, FS_CardinalityType
<1>5. Cardinality(S(0)) = 0
  BY <1>2, FS_EmptySet
<1>6. F[n + 1] = <<>> => Cardinality(S(n + 1)) = Cardinality(S(n)) + 1
  BY <1>1, <1>2, <1>3, FS_AddElement
<1>7. F[n + 1] # <<>> => Cardinality(S(n + 1)) = Cardinality(S(n))
  BY <1>3
<1>8. QED
  BY <1>4, <1>5, <1>6, <1>7 DEF Holes, S

\* Histories that agree above file m differ in holes by what they do up to m.
LEMMA HolesAlike ==
    ASSUME NEW F, NEW G, NEW m \in Nat, NEW n \in Nat, m <= n,
           \A i \in (m + 1)..n : F[i] = <<>> <=> G[i] = <<>>
    PROVE  Holes(F, n) - Holes(G, n) = Holes(F, m) - Holes(G, m)
<1> DEFINE d == Holes(F, m) - Holes(G, m)
           C == {i \in Nat : Holes(F, i) - Holes(G, i) = d}
<1>1. m \in C
  OBVIOUS
<1>2. ASSUME NEW i \in m..n, i \in C, i + 1 <= n PROVE i + 1 \in C
  <2>1. i \in Nat /\ i + 1 \in Nat /\ i + 1 \in (m + 1)..n
    BY <1>2
  <2>2. F[i + 1] = <<>> <=> G[i + 1] = <<>>
    BY <2>1
  <2> HIDE DEF d
  <2>3. Holes(F, i) - Holes(G, i) = d
    BY <1>2
  <2>4. Holes(F, i + 1) - Holes(G, i + 1) = Holes(F, i) - Holes(G, i)
    <3>1. /\ Holes(F, i) \in Nat
          /\ F[i + 1] = <<>> => Holes(F, i + 1) = Holes(F, i) + 1
          /\ F[i + 1] # <<>> => Holes(F, i + 1) = Holes(F, i)
      BY <2>1, HolesStep
    <3>2. /\ Holes(G, i) \in Nat
          /\ G[i + 1] = <<>> => Holes(G, i + 1) = Holes(G, i) + 1
          /\ G[i + 1] # <<>> => Holes(G, i + 1) = Holes(G, i)
      BY <2>1, HolesStep
    <3>3. QED
      BY <2>2, <3>1, <3>2
  <2>5. QED
    BY <2>1, <2>3, <2>4
<1> HIDE DEF C
<1>3. \A i \in m..n : i \in C
  BY <1>1, <1>2, UpTo
<1>4. QED
  BY <1>3 DEF C

\* The lines of k full files.
Lines(k) == k * MaxLines

LEMMA LinesStep ==
    ASSUME AuditAssumption, NEW k \in Nat
    PROVE  Lines(0) = 0 /\ Lines(k) \in Nat /\ Lines(k + 1) = Lines(k) + MaxLines
<1>1. MaxLines \in Nat
  BY DEF AuditAssumption
<1>2. k * MaxLines \in Nat /\ 0 * MaxLines = 0
  BY <1>1
<1>3. (k + 1) * MaxLines = k * MaxLines + MaxLines
  BY <1>1
<1>4. QED
  BY <1>2, <1>3 DEF Lines

\* What is read, and the holes, make up for all the numbered files.
LEMMA ReadLength ==
    ASSUME AuditAssumption, NEW F \in Files, Full(F)
    PROVE  /\ Len(Read(F)[Retention]) \in Nat
           /\ Len(Read(F)[Retention]) + Lines(Holes(F, Retention)) =
                  Len(F[0]) + Lines(Retention)
<1> DEFINE L(i) == Len(Read(F)[i])
           H(i) == Lines(Holes(F, i))
           f0 == Len(F[0])
           C == {i \in 0..Retention : L(i) + H(i) = f0 + Lines(i)}
<1>1. Retention \in Nat /\ MaxLines \in Nat /\ 0 \in Nat
  BY DEF AuditAssumption
<1>2. \A i \in 0..Retention : Read(F)[i] \in Seq(Line)
  BY ReadIsSeq
<1>3. F[0] \in Seq(Line) /\ f0 \in Nat
  <2>1. F[0] \in Seq(Line)
    BY <1>1 DEF Files
  <2>2. QED
    BY <2>1
<1>4. L(0) = f0 /\ H(0) = 0 /\ Lines(0) = 0
  <2>1. Read(F)[0] = F[0]
    BY <1>1, ReadStep
  <2>2. Holes(F, 0) = 0 /\ Lines(0) = 0
    BY <1>1, HolesStep, LinesStep
  <2>3. QED
    BY <2>1, <2>2
<1>5. ASSUME NEW i \in 0..Retention, i + 1 <= Retention
      PROVE  /\ L(i) \in Nat /\ H(i) \in Nat
             /\ Lines(i) \in Nat /\ Lines(i + 1) = Lines(i) + MaxLines
             /\ \/ L(i + 1) = L(i) /\ H(i + 1) = H(i) + MaxLines
                \/ L(i + 1) = MaxLines + L(i) /\ H(i + 1) = H(i)
  <2>1. i + 1 \in 1..Retention /\ i + 1 \in 0..Retention /\ i + 1 - 1 = i /\ i \in Nat
    BY <1>1, <1>5
  <2>2. F[i + 1] \in Seq(Line) /\ Read(F)[i] \in Seq(Line)
    BY <1>1, <1>2, <2>1 DEF Files
  <2>3. Len(F[i + 1]) \in Nat /\ L(i) \in Nat
    BY <2>2
  <2>4. L(i + 1) = Len(F[i + 1]) + L(i)
    <3>1. Read(F)[i + 1] = Cat(F[i + 1], Read(F)[i + 1 - 1])
      BY <1>1, <2>1, ReadStep
    <3>2. Len(Cat(F[i + 1], Read(F)[i])) = Len(F[i + 1]) + Len(Read(F)[i])
      BY <2>2, CatIsSeq
    <3>3. QED
      BY <2>1, <3>1, <3>2
  <2>5. /\ Holes(F, i) \in Nat
        /\ F[i + 1] = <<>> => Holes(F, i + 1) = Holes(F, i) + 1
        /\ F[i + 1] # <<>> => Holes(F, i + 1) = Holes(F, i)
    BY <2>1, HolesStep
  <2>6. Lines(i) \in Nat /\ Lines(i + 1) = Lines(i) + MaxLines
    BY <2>1, LinesStep
  <2>7. /\ H(i) \in Nat
        /\ Lines(Holes(F, i) + 1) = H(i) + MaxLines
    BY <2>5, LinesStep
  <2>8. CASE F[i + 1] = <<>>
    <3>1. Len(F[i + 1]) = 0 /\ H(i + 1) = H(i) + MaxLines
      BY <2>5, <2>7, <2>8
    <3> HIDE DEF L, H
    <3>2. L(i + 1) = L(i)
      BY <2>3, <2>4, <3>1
    <3>3. QED
      BY <2>3, <2>6, <2>7, <3>1, <3>2
  <2>9. CASE F[i + 1] # <<>>
    <3>1. Len(F[i + 1]) = MaxLines /\ H(i + 1) = H(i)
      BY <2>1, <2>5, <2>9 DEF Full
    <3> HIDE DEF L, H
    <3>2. QED
      BY <2>3, <2>4, <2>6, <2>7, <3>1
  <2>10. QED
    BY <2>8, <2>9
<1> HIDE DEF L, H, f0
<1>6. 0 \in C
  BY <1>1, <1>3, <1>4
<1>7. ASSUME NEW i \in 0..Retention, i \in C, i + 1 <= Retention PROVE i + 1 \in C
  <2>1. L(i) + H(i) = f0 + Lines(i) /\ i + 1 \in 0..Retention
    BY <1>1, <1>7
  <2>2. L(i) \in Nat /\ H(i) \in Nat /\ Lines(i) \in Nat /\ Lines(i + 1) = Lines(i) + MaxLines
    BY <1>5, <1>7
  <2>3. L(i + 1) + H(i + 1) = f0 + Lines(i + 1)
    <3>1. CASE L(i + 1) = L(i) /\ H(i + 1) = H(i) + MaxLines
      <4>1. L(i) + (H(i) + MaxLines) = (L(i) + H(i)) + MaxLines
        BY <1>1, <2>2
      <4>2. f0 + (Lines(i) + MaxLines) = (f0 + Lines(i)) + MaxLines
        BY <1>1, <1>3, <2>2
      <4>3. QED
        BY <2>1, <2>2, <3>1, <4>1, <4>2
    <3>2. CASE L(i + 1) = MaxLines + L(i) /\ H(i + 1) = H(i)
      <4>1. (MaxLines + L(i)) + H(i) = (L(i) + H(i)) + MaxLines
        BY <1>1, <2>2
      <4>2. f0 + (Lines(i) + MaxLines) = (f0 + Lines(i)) + MaxLines
        BY <1>1, <1>3, <2>2
      <4>3. QED
        BY <2>1, <2>2, <3>2, <4>1, <4>2
    <3>3. QED
      BY <1>5, <1>7, <3>1, <3>2
  <2>4. QED
    BY <2>1, <2>3
<1> HIDE DEF C
<1>8. \A i \in 0..Retention : i \in C
  BY <1>1, <1>6, <1>7, UpTo
<1>9. L(Retention) + H(Retention) = f0 + Lines(Retention)
  BY <1>1, <1>8 DEF C
<1>10. L(Retention) \in Nat
  BY <1>1, <1>2 DEF L
<1>11. QED
  BY <1>9, <1>10 DEF L, H, f0

-----------------------------------------------------------------------------
(* What the steps do to the files and to what is read from them.           *)

LEMMA LoadedIsRead ==
    Loaded = Read(files)[Retention] /\ Loaded' = Read(files')[Retention]
BY DEF Loaded, Reading, Read, ReadsUpTo, Cat

LEMMA LoadedIsSeq ==
    ASSUME AuditAssumption, files \in Files
    PROVE  Loaded \in Seq(Line)
<1>1. Retention \in 0..Retention
  BY DEF AuditAssumption
<1>2. QED
  BY <1>1, ReadIsSeq, LoadedIsRead

LEMMA LineIsTyped == Torn \in Line /\ Junk \in Line /\ Record \subseteq Line
BY DEF Line

\* What is left of a concatenation without its first part.
LEMMA CatTail ==
    ASSUME NEW a \in Seq(Line), NEW b \in Seq(Line)
    PROVE  b = SubSeq(Cat(a, b), Len(a) + 1, Len(Cat(a, b)))
<1> DEFINE f == Cat(a, b)
           c == SubSeq(f, Len(a) + 1, Len(f))
<1>1. Len(a) \in Nat /\ Len(b) \in Nat
  OBVIOUS
<1>2. /\ f \in Seq(Line) /\ Len(f) = Len(a) + Len(b)
      /\ \A i \in 1..(Len(a) + Len(b)) : f[i] = IF i <= Len(a) THEN a[i] ELSE b[i - Len(a)]
  BY CatIsSeq
<1> HIDE DEF f
<1>3. \A i \in (Len(a) + 1)..Len(f) : f[i] \in Line
  BY <1>1, <1>2
<1>4. /\ c \in Seq(Line)
      /\ Len(c) = IF Len(a) + 1 <= Len(f) THEN Len(f) - (Len(a) + 1) + 1 ELSE 0
      /\ \A i \in 1..(Len(f) - (Len(a) + 1) + 1) : c[i] = f[Len(a) + 1 + i - 1]
  BY <1>1, <1>2, <1>3, SubSeqProperties
<1> HIDE DEF c
<1>5. Len(c) = Len(b)
  BY <1>1, <1>2, <1>4
<1>6. ASSUME NEW i \in 1..Len(b) PROVE b[i] = c[i]
  <2>1. /\ Len(a) + 1 + i - 1 = Len(a) + i /\ Len(a) + i \in 1..(Len(a) + Len(b))
        /\ ~(Len(a) + i <= Len(a)) /\ Len(a) + i - Len(a) = i
        /\ Len(f) - (Len(a) + 1) + 1 = Len(b)
    BY <1>1, <1>2
  <2>2. f[Len(a) + i] = b[i]
    BY <1>2, <2>1
  <2>3. c[i] = f[Len(a) + 1 + i - 1]
    BY <1>4, <2>1
  <2>4. QED
    BY <2>1, <2>2, <2>3
<1>7. b = c
  BY <1>4, <1>5, <1>6, SeqEqual
<1>8. QED
  BY <1>7 DEF c, f

\* The two ways of a line x that is written, into the sink's file and into the
\* ghost alike.
Written(x) == IF x = Torn THEN Torn ELSE Junk
Writes(x) ==
    /\ files' = [files EXCEPT ![0] = Behind(@, x)]
    /\ written' = Behind(written, x)

LEMMA BehindIsSeq ==
    ASSUME NEW s \in Seq(Line), Glued => s # <<>>, NEW x \in Record \cup {Torn}
    PROVE  /\ Behind(s, x) = IF Glued THEN Mended(s, Written(x)) ELSE Append(s, x)
           /\ Behind(s, x) \in Seq(Line)
           /\ Len(Behind(s, x)) = IF Glued THEN Len(s) ELSE Len(s) + 1
<1>1. Behind(s, x) = IF Glued THEN Mended(s, Written(x)) ELSE Append(s, x)
  BY DEF Behind, Mended, Written
<1>2. x \in Line /\ Written(x) \in Line
  BY DEF Line, Written
<1>3. CASE Glued
  BY <1>1, <1>2, <1>3, MendedIsSeq
<1>4. CASE ~Glued
  BY <1>1, <1>2, <1>4
<1>5. QED
  BY <1>1, <1>3, <1>4

LEMMA WriteStep ==
    ASSUME AuditAssumption, TypeOK, EndOf(Loaded, written), NEW x \in Record \cup {Torn},
           Writes(x)
    PROVE  /\ files' \in Files /\ \A i \in 1..Retention : files'[i] = files[i]
           /\ Len(files'[0]) <= Len(files[0]) + 1
           /\ files'[0] # <<>>
           /\ written' \in Seq(Line)
           /\ \/ /\ ~Glued
                 /\ Loaded' = Append(Loaded, x)
                 /\ written' = Append(written, x)
              \/ /\ Glued
                 /\ Loaded # <<>> /\ Loaded[Len(Loaded)] = Torn
                 /\ written # <<>> /\ written[Len(written)] = Torn
                 /\ Loaded' = Mended(Loaded, Written(x))
                 /\ written' = Mended(written, Written(x))
<1>1. Retention \in Nat /\ 0 \in 0..Retention /\ \A i \in 1..Retention : i \in 0..Retention /\ i # 0
  BY DEF AuditAssumption
<1>2. files \in Files /\ files[0] \in Seq(Line) /\ written \in Seq(Line) /\ x \in Line
      /\ Written(x) \in Line
  BY <1>1 DEF TypeOK, Files, Line, Written
<1>3. /\ Behind(files[0], x) = IF Glued THEN Mended(files[0], Written(x))
                               ELSE Append(files[0], x)
      /\ Behind(files[0], x) \in Seq(Line)
      /\ Len(Behind(files[0], x)) = IF Glued THEN Len(files[0]) ELSE Len(files[0]) + 1
  BY <1>2, BehindIsSeq DEF Glued
<1>4. files'[0] = Behind(files[0], x) /\ \A i \in 1..Retention : files'[i] = files[i]
  BY <1>1, <1>2 DEF Writes, Files
<1>5. files' \in Files
  BY <1>1, <1>2, <1>3 DEF Writes, Files
<1>6. Len(files'[0]) <= Len(files[0]) + 1 /\ files'[0] # <<>>
  <2>1. Len(files[0]) \in Nat /\ (Glued => files[0] # <<>>)
    BY <1>2 DEF Glued
  <2>2. Len(Behind(files[0], x)) \in {Len(files[0]), Len(files[0]) + 1}
        /\ Len(Behind(files[0], x)) # 0
    BY <1>2, <1>3, <2>1
  <2>3. QED
    BY <1>3, <1>4, <2>1, <2>2
<1>7. CASE ~Glued
  <2>1. Loaded' = Append(Loaded, x)
    BY <1>2, <1>3, <1>4, <1>5, <1>7, ReadAppended, LoadedIsRead
  <2>2. written' = Append(written, x)
    BY <1>7 DEF Writes, Behind
  <2>3. QED
    BY <1>2, <1>4, <1>5, <1>6, <1>7, <2>1, <2>2
<1>8. CASE Glued
  <2>1. /\ Loaded # <<>> /\ Loaded[Len(Loaded)] = files[0][Len(files[0])]
        /\ Loaded' = Mended(Loaded, Written(x))
    BY <1>2, <1>3, <1>4, <1>5, <1>8, ReadMended, LoadedIsRead DEF Glued
  <2>2. written # <<>> /\ written[Len(written)] = Loaded[Len(Loaded)]
    <3>1. Loaded \in Seq(Line)
      BY <1>2, LoadedIsSeq
    <3>2. Len(Loaded) \in Nat \ {0} /\ Len(written) \in Nat
      BY <1>2, <2>1, <3>1
    <3>3. Len(Loaded) \in 1..Len(Loaded) /\ Len(written) - Len(Loaded) + Len(Loaded) = Len(written)
      BY <3>2
    <3>4. Len(written) # 0
      BY <3>2 DEF EndOf
    <3>5. QED
      BY <3>3, <3>4 DEF EndOf
  <2>3. written' = Mended(written, Written(x)) /\ written' \in Seq(Line)
    BY <1>2, <1>8, <2>2, MendedIsSeq DEF Writes, Behind, Mended, Written
  <2>4. QED
    BY <1>4, <1>5, <1>6, <1>8, <2>1, <2>2, <2>3 DEF Glued
<1>9. QED
  BY <1>7, <1>8

LEMMA EndAppend ==
    ASSUME NEW v \in Seq(Line), NEW w \in Seq(Line), EndOf(v, w), NEW x \in Line
    PROVE  EndOf(Append(v, x), Append(w, x))
<1> DEFINE p == Append(v, x)
           q == Append(w, x)
<1>1. /\ Len(v) \in Nat /\ Len(p) = Len(v) + 1 /\ p[Len(v) + 1] = x
      /\ \A k \in 1..Len(v) : p[k] = v[k]
  OBVIOUS
<1>2. /\ Len(w) \in Nat /\ Len(q) = Len(w) + 1 /\ q[Len(w) + 1] = x
      /\ \A k \in 1..Len(w) : q[k] = w[k]
  OBVIOUS
<1> HIDE DEF p, q
<1>3. ASSUME NEW k \in 1..Len(p) PROVE p[k] = q[Len(q) - Len(p) + k]
  <2>1. CASE k = Len(v) + 1
    <3>1. Len(q) - Len(p) + k = Len(w) + 1
      BY <1>1, <1>2, <2>1
    <3>2. QED
      BY <1>1, <1>2, <2>1, <3>1
  <2>2. CASE k \in 1..Len(v)
    <3>1. /\ Len(q) - Len(p) + k = Len(w) - Len(v) + k
          /\ Len(w) - Len(v) + k \in 1..Len(w)
      BY <1>1, <1>2, <2>2 DEF EndOf
    <3>2. p[k] = v[k] /\ v[k] = w[Len(w) - Len(v) + k]
      BY <1>1, <2>2 DEF EndOf
    <3>3. QED
      BY <1>2, <3>1, <3>2
  <2>3. QED
    BY <1>1, <2>1, <2>2
<1>4. Len(p) <= Len(q)
  BY <1>1, <1>2 DEF EndOf
<1>5. QED
  BY <1>3, <1>4 DEF EndOf, p, q

LEMMA EndMended ==
    ASSUME NEW v \in Seq(Line), NEW w \in Seq(Line), EndOf(v, w), v # <<>>, w # <<>>,
           NEW x \in Line
    PROVE  EndOf(Mended(v, x), Mended(w, x))
<1> DEFINE p == Mended(v, x)
           q == Mended(w, x)
<1>1. /\ Len(v) \in Nat \ {0} /\ Len(p) = Len(v)
      /\ \A k \in 1..Len(v) : p[k] = IF k = Len(v) THEN x ELSE v[k]
  BY MendedIsSeq
<1>2. /\ Len(w) \in Nat \ {0} /\ Len(q) = Len(w)
      /\ \A k \in 1..Len(w) : q[k] = IF k = Len(w) THEN x ELSE w[k]
  BY MendedIsSeq
<1> HIDE DEF p, q
<1>3. ASSUME NEW k \in 1..Len(v) PROVE p[k] = q[Len(w) - Len(v) + k]
  <2>1. /\ Len(w) - Len(v) + k \in 1..Len(w)
        /\ Len(w) - Len(v) + k = Len(w) <=> k = Len(v)
    <3>1. Len(v) <= Len(w) /\ Len(v) \in Nat /\ Len(w) \in Nat
      BY <1>1, <1>2 DEF EndOf
    <3>2. QED
      BY <3>1
  <2>2. v[k] = w[Len(w) - Len(v) + k]
    BY DEF EndOf
  <2>3. p[k] = IF k = Len(v) THEN x ELSE v[k]
    BY <1>1
  <2>4. q[Len(w) - Len(v) + k] = IF k = Len(v) THEN x ELSE w[Len(w) - Len(v) + k]
    BY <1>2, <2>1
  <2>5. QED
    BY <2>2, <2>3, <2>4
<1>4. QED
  BY <1>1, <1>2, <1>3 DEF EndOf, p, q

LEMMA EndCut ==
    ASSUME NEW v \in Seq(Line), NEW w \in Seq(Line), EndOf(v, w), NEW n \in 0..Len(v)
    PROVE  /\ EndOf(SubSeq(v, n + 1, Len(v)), w)
           /\ Len(SubSeq(v, n + 1, Len(v))) = Len(v) - n
<1> DEFINE p == SubSeq(v, n + 1, Len(v))
<1>1. Len(v) \in Nat /\ Len(w) \in Nat
  OBVIOUS
<1>2. /\ Len(p) = IF n + 1 <= Len(v) THEN Len(v) - (n + 1) + 1 ELSE 0
      /\ \A k \in 1..(Len(v) - (n + 1) + 1) : p[k] = v[n + 1 + k - 1]
  <2>1. \A k \in (n + 1)..Len(v) : v[k] \in Line
    BY <1>1
  <2>2. QED
    BY <1>1, <2>1, SubSeqProperties
<1> HIDE DEF p
<1>3. Len(p) = Len(v) - n
  BY <1>1, <1>2
<1>4. ASSUME NEW k \in 1..Len(p) PROVE p[k] = w[Len(w) - Len(p) + k]
  <2>1. /\ k \in 1..(Len(v) - (n + 1) + 1) /\ n + 1 + k - 1 = n + k
        /\ n + k \in 1..Len(v) /\ Len(w) - Len(v) + (n + k) = Len(w) - Len(p) + k
    BY <1>1, <1>3
  <2>2. p[k] = v[n + 1 + k - 1]
    BY <1>2, <2>1
  <2>3. v[n + k] = w[Len(w) - Len(v) + (n + k)]
    BY <2>1 DEF EndOf
  <2>4. QED
    BY <2>1, <2>2, <2>3
<1>5. Len(p) <= Len(w)
  BY <1>1, <1>3 DEF EndOf
<1>6. EndOf(p, w)
  BY <1>4, <1>5 DEF EndOf
<1>7. QED
  BY <1>3, <1>6 DEF p

LEMMA EndIsSubSeq ==
    ASSUME NEW v \in Seq(Line), NEW w \in Seq(Line), EndOf(v, w)
    PROVE  v = SubSeq(w, Len(w) - Len(v) + 1, Len(w))
<1> DEFINE n == Len(w) - Len(v)
           p == SubSeq(w, n + 1, Len(w))
<1>1. Len(v) \in Nat /\ Len(w) \in Nat /\ n \in Nat /\ n + Len(v) = Len(w)
  <2>1. Len(v) \in Nat /\ Len(w) \in Nat /\ Len(v) <= Len(w)
    BY DEF EndOf
  <2>2. QED
    BY <2>1
<1>2. \A k \in 1..Len(v) : v[k] = w[n + k]
  BY DEF EndOf
<1> HIDE DEF n
<1>3. /\ p \in Seq(Line)
      /\ Len(p) = IF n + 1 <= Len(w) THEN Len(w) - (n + 1) + 1 ELSE 0
      /\ \A k \in 1..(Len(w) - (n + 1) + 1) : p[k] = w[n + 1 + k - 1]
  <2>1. \A k \in (n + 1)..Len(w) : w[k] \in Line
    BY <1>1
  <2>2. QED
    BY <1>1, <2>1, SubSeqProperties
<1> HIDE DEF p
<1>4. Len(p) = Len(v)
  BY <1>1, <1>3
<1>5. ASSUME NEW k \in 1..Len(v) PROVE v[k] = p[k]
  <2>1. k \in 1..(Len(w) - (n + 1) + 1) /\ n + 1 + k - 1 = n + k
    BY <1>1
  <2>2. p[k] = w[n + 1 + k - 1]
    BY <1>3, <2>1
  <2>3. QED
    BY <1>2, <2>1, <2>2
<1>6. v = p
  BY <1>3, <1>4, <1>5, SeqEqual
<1>7. QED
  BY <1>6 DEF p, n

\* A file that is dropped takes its lines from the beginning of what is read.
LEMMA DropStep ==
    ASSUME AuditAssumption, TypeOK, NEW t \in Thread, DropOldest(t)
    PROVE  /\ files' \in Files
           /\ files'[Retention] = <<>>
           /\ \A i \in 0..(Retention - 1) : files'[i] = files[i]
           /\ \E n \in 0..Len(Loaded) :
                  /\ Loaded' = SubSeq(Loaded, n + 1, Len(Loaded))
                  /\ files[Retention] = <<>> => Loaded' = Loaded
                  /\ files[Retention] # <<>> => n > 0
<1>1. Retention \in Nat /\ Retention \in 0..Retention /\ <<>> \in Seq(Line)
      /\ \A i \in 0..(Retention - 1) : i \in 0..Retention /\ i # Retention
  BY DEF AuditAssumption
<1>2. files \in Files
  BY DEF TypeOK, Files
<1>3. /\ files' \in Files /\ files'[Retention] = <<>>
      /\ \A i \in 0..(Retention - 1) : files'[i] = files[i]
  BY <1>1, <1>2 DEF DropOldest, Files
<1>4. /\ Loaded = Cat(files[Retention], Loaded')
      /\ files[Retention] \in Seq(Line) /\ Loaded' \in Seq(Line)
  <2>1. Read(files)[Retention] = Cat(files[Retention], Read(files')[Retention])
    BY <1>2, <1>3, ReadDropped
  <2>2. Read(files')[Retention] \in Seq(Line) /\ files[Retention] \in Seq(Line)
    BY <1>1, <1>2, <1>3, ReadIsSeq DEF Files
  <2>3. QED
    BY <2>1, <2>2, LoadedIsRead
<1>5. Len(Loaded) = Len(files[Retention]) + Len(Loaded')
  BY <1>4, CatIsSeq
<1>6. Loaded' = SubSeq(Loaded, Len(files[Retention]) + 1, Len(Loaded))
  BY <1>4, CatTail
<1>7. files[Retention] = <<>> => Loaded' = Loaded
  BY <1>4, CatEmpty
<1>8. /\ Len(files[Retention]) \in 0..Len(Loaded)
      /\ files[Retention] # <<>> => Len(files[Retention]) > 0
  <2>1. Len(files[Retention]) \in Nat /\ Len(Loaded') \in Nat
    BY <1>4
  <2>2. files[Retention] # <<>> => Len(files[Retention]) # 0
    BY <1>4
  <2>3. QED
    BY <1>5, <2>1, <2>2
<1>9. QED
  BY <1>3, <1>6, <1>7, <1>8

\* A file that is moved is read as before.
LEMMA ShiftStep ==
    ASSUME AuditAssumption, TypeOK, Rotation, NEW t \in Thread, Shift(t)
    PROVE  LET i == call[t].index IN
           /\ i \in 0..(Retention - 1)
           /\ files[i + 1] = <<>>
           /\ files' \in Files
           /\ files'[i + 1] = files[i] /\ files'[i] = <<>>
           /\ \A j \in 0..Retention : j # i /\ j # i + 1 => files'[j] = files[j]
           /\ Loaded' = Loaded
<1> DEFINE i == call[t].index
<1>1. pc[t] = "shift" /\ files[i + 1] = <<>> /\ i < Retention /\ i \in 0..Retention
  BY DEF Shift, Go, Rotation, TypeOK
<1>2. files' = IF files[i] = <<>> THEN files
               ELSE [files EXCEPT ![i + 1] = files[i], ![i] = <<>>]
  BY DEF Shift, NextToMove
<1> HIDE DEF i
<1>3. Retention \in Nat /\ i \in 0..(Retention - 1) /\ i + 1 \in 0..Retention /\ i # i + 1
  BY <1>1 DEF AuditAssumption
<1>4. files \in Files /\ files[i] \in Seq(Line) /\ <<>> \in Seq(Line)
  BY <1>1 DEF TypeOK, Files
<1>5. CASE files[i] = <<>>
  <2>1. files' = files
    BY <1>2, <1>5
  <2>2. QED
    BY <1>1, <1>3, <1>4, <1>5, <2>1, LoadedIsRead DEF i
<1>6. CASE files[i] # <<>>
  <2> DEFINE G == [files EXCEPT ![i + 1] = files[i]]
  <2>1. G \in Files /\ G[i + 1] = files[i] /\ \A j \in 0..Retention : j # i + 1 => G[j] = files[j]
    BY <1>1, <1>3, <1>4 DEF Files
  <2>2. files' = [G EXCEPT ![i] = <<>>]
    BY <1>2, <1>6
  <2> HIDE DEF G
  <2>3. /\ files' \in Files /\ files'[i] = <<>>
        /\ \A j \in 0..Retention : j # i => files'[j] = G[j]
    BY <1>1, <1>4, <2>1, <2>2 DEF Files
  <2>4. /\ files'[i + 1] = files[i]
        /\ \A j \in 0..Retention : j # i /\ j # i + 1 => files'[j] = files[j]
    BY <1>3, <2>1, <2>3
  <2>5. Read(files')[Retention] = Read(files)[Retention]
    BY <1>1, <1>3, <1>4, <2>3, <2>4, ReadMoved
  <2>6. QED
    BY <1>1, <1>3, <2>3, <2>4, <2>5, LoadedIsRead DEF i
<1>7. QED
  BY <1>5, <1>6
-----------------------------------------------------------------------------
(* The invariant, step by step.                                            *)

\* The files, and what was written to them, are left alone.
Quiet == UNCHANGED <<files, written>>

LEMMA QuietIsRead == Quiet => Loaded' = Loaded
BY LoadedIsRead DEF Quiet

\* Handler t is at the step that writes, and writes its record or a fragment.
WritesAt(t, x) ==
    /\ pc[t] = "line"
    /\ x \in {call[t].record, Torn}
    /\ Writes(x)
    /\ torn' = (torn \/ x = Torn)

\* At most one handler is between the locks.
Inside == {"oldest", "shift", "line", "mode"}

LEMMA OneInside ==
    ASSUME TypeOK, NEW t \in Thread, pc[t] \in Inside
    PROVE  lock = t /\ \A u \in Thread : u # t => pc[u] \notin Inside
BY DEF TypeOK, Inside

\* Which steps write, and what.
LEMMA WhoWrites ==
    ASSUME AuditAssumption, IInv, [Next]_vars
    PROVE  \/ Quiet
           \/ \E t \in Thread : DropOldest(t)
           \/ \E t \in Thread : Shift(t)
           \/ \E t \in Thread, x \in Record \cup {Torn} : WritesAt(t, x)
<1>1. ASSUME NEW t \in Thread, pc[t] # "idle"
      PROVE  call[t].record \in Record /\ call[t].record # Torn
  BY <1>1 DEF IInv, Calls, TypeOK, AuditAssumption
<1>2. torn \in BOOLEAN
  BY DEF IInv, TypeOK
<1>3. ASSUME NEW t \in Thread, Step(t)
      PROVE  \/ Quiet \/ DropOldest(t) \/ Shift(t)
             \/ \E x \in Record \cup {Torn} : WritesAt(t, x)
  <2>1. CASE WriteLine(t)
    <3>1. pc[t] = "line" /\ Writes(call[t].record) /\ torn' = torn
      BY <2>1 DEF WriteLine, Writes, Go
    <3>2. WritesAt(t, call[t].record)
      BY <1>1, <1>2, <3>1 DEF WritesAt
    <3>3. QED
      BY <1>1, <3>1, <3>2
  <2>2. CASE WriteTears(t)
    <3>1. pc[t] = "line" /\ Writes(Torn) /\ torn' = TRUE
      BY <2>2 DEF WriteTears, Writes
    <3>2. WritesAt(t, Torn)
      BY <1>2, <3>1 DEF WritesAt
    <3>3. QED
      BY <3>2
  <2>3. CASE Acquire(t) \/ RotateFails(t) \/ WriteFails(t) \/ SetMode(t) \/ ModeFails(t) \/ Note(t)
    BY <2>3 DEF Acquire, RotateFails, WriteFails, SetMode, ModeFails, Note, Quiet, ghosts
  <2>4. QED
    BY <1>3, <2>1, <2>2, <2>3 DEF Step
<1>4. ASSUME NEW t \in Thread, NEW r \in Record, Start(t, r) PROVE Quiet
  BY <1>4 DEF Start, Quiet
<1>5. CASE Crash
  <2>1. CASE UNCHANGED <<files, written, torn>>
    BY <2>1 DEF Quiet
  <2>2. ASSUME NEW t \in Thread, pc[t] = "line",
               files' = [files EXCEPT ![0] = Behind(@, Torn)],
               written' = Behind(written, Torn), torn' = TRUE
        PROVE  \E x \in Record \cup {Torn} : WritesAt(t, x)
    <3>1. WritesAt(t, Torn)
      BY <1>2, <2>2 DEF WritesAt, Writes
    <3>2. QED
      BY <3>1
  <2>3. QED
    BY <1>5, <2>1, <2>2 DEF Crash
<1>6. CASE Boot
  BY <1>6 DEF Boot, Quiet, ghosts
<1>7. CASE UNCHANGED vars
  BY <1>7 DEF vars, Quiet, ghosts
<1>8. QED
  BY <1>3, <1>4, <1>5, <1>6, <1>7 DEF Next

\* A step of the sink is a step of the trail, or is not seen on it.
LEMMA TrailStep ==
    ASSUME AuditAssumption, IInv, [Next]_vars
    PROVE  EndOf(Loaded, written)' /\ [Ledger!Next]_Loaded
<1>1. /\ files \in Files /\ Loaded \in Seq(Line) /\ written \in Seq(Line)
      /\ EndOf(Loaded, written)
  BY LoadedIsSeq DEF IInv, TypeOK, Files
<1>2. CASE Quiet
  BY <1>1, <1>2, QuietIsRead DEF Quiet, EndOf
<1>3. ASSUME NEW t \in Thread, DropOldest(t) PROVE EndOf(Loaded, written)' /\ [Ledger!Next]_Loaded
  <2>1. written' = written
    BY <1>3 DEF DropOldest, ghosts
  <2>2. PICK n \in 0..Len(Loaded) :
            /\ Loaded' = SubSeq(Loaded, n + 1, Len(Loaded))
            /\ files[Retention] = <<>> => Loaded' = Loaded
            /\ files[Retention] # <<>> => n > 0
    BY <1>3, DropStep DEF IInv
  <2>3. EndOf(Loaded, written)'
    <3>1. EndOf(Loaded', written)
      BY <1>1, <2>2, EndCut
    <3>2. QED
      BY <2>1, <3>1 DEF EndOf
  <2>4. CASE files[Retention] = <<>>
    BY <2>2, <2>3, <2>4
  <2>5. CASE files[Retention] # <<>>
    <3>1. n \in 1..Len(Loaded)
      BY <2>2, <2>5
    <3>2. Ledger!Forget(n)
      BY <2>2 DEF Ledger!Forget
    <3>3. QED
      BY <2>3, <3>1, <3>2 DEF Ledger!Next
  <2>6. QED
    BY <2>4, <2>5
<1>4. ASSUME NEW t \in Thread, Shift(t) PROVE EndOf(Loaded, written)' /\ [Ledger!Next]_Loaded
  <2>1. Loaded' = Loaded
    BY <1>4, ShiftStep DEF IInv
  <2>2. written' = written
    BY <1>4 DEF Shift, ghosts
  <2>3. QED
    BY <1>1, <2>1, <2>2 DEF EndOf
<1>5. ASSUME NEW t \in Thread, NEW x \in Record \cup {Torn}, WritesAt(t, x)
      PROVE  EndOf(Loaded, written)' /\ [Ledger!Next]_Loaded
  <2>1. x \in Line /\ Written(x) \in Line
    BY DEF Line, Written
  <2>2. \/ /\ Loaded' = Append(Loaded, x)
           /\ written' = Append(written, x)
        \/ /\ Loaded # <<>> /\ Loaded[Len(Loaded)] = Torn
           /\ written # <<>>
           /\ Loaded' = Mended(Loaded, Written(x))
           /\ written' = Mended(written, Written(x))
    BY <1>5, WriteStep DEF IInv, WritesAt
  <2>3. CASE Loaded' = Append(Loaded, x) /\ written' = Append(written, x)
    <3>1. EndOf(Loaded', written')
      BY <1>1, <2>1, <2>3, EndAppend
    <3>2. Ledger!Add(x)
      BY <2>3 DEF Ledger!Add
    <3>3. QED
      BY <3>1, <3>2 DEF Ledger!Next, EndOf
  <2>4. CASE /\ Loaded # <<>> /\ Loaded[Len(Loaded)] = Torn
             /\ written # <<>>
             /\ Loaded' = Mended(Loaded, Written(x))
             /\ written' = Mended(written, Written(x))
    <3>1. EndOf(Loaded', written')
      BY <1>1, <2>1, <2>4, EndMended
    <3>2. CASE x = Torn
      <4>1. Mended(Loaded, Torn) = Loaded
        BY <1>1, <2>4 DEF Mended
      <4>2. QED
        BY <2>4, <3>1, <3>2, <4>1 DEF Written, EndOf
    <3>3. CASE x # Torn
      <4>1. Ledger!Spoil
        BY <2>4, <3>3 DEF Ledger!Spoil, Written, Mended
      <4>2. QED
        BY <3>1, <4>1 DEF Ledger!Next, EndOf
    <3>4. QED
      BY <3>2, <3>3
  <2>5. QED
    BY <2>2, <2>3, <2>4
<1>6. QED
  BY <1>2, <1>3, <1>4, <1>5, WhoWrites
LEMMA FilesTyped ==
    ASSUME AuditAssumption, TypeOK, Rotation
    PROVE  /\ Retention \in Nat \ {0} /\ MaxLines \in Nat \ {0} /\ 0 \in 0..Retention
           /\ files \in Files /\ \A i \in 0..Retention : Len(files[i]) \in 0..MaxLines
           /\ \A i \in 1..Retention : i \in 0..Retention
<1>1. Retention \in Nat \ {0} /\ MaxLines \in Nat \ {0} /\ 0 \in 0..Retention
  BY DEF AuditAssumption
<1>2. files \in Files
  BY DEF TypeOK, Files
<1>3. ASSUME NEW i \in 0..Retention PROVE Len(files[i]) \in 0..MaxLines
  <2>1. files[i] \in Seq(Line) /\ Len(files[i]) <= MaxLines
    BY DEF TypeOK
  <2>2. Len(files[i]) \in Nat
    BY <2>1
  <2>3. QED
    BY <1>1, <2>1, <2>2
<1>4. QED
  BY <1>1, <1>2, <1>3

\* What TypeOK and Rotation say of the files.
Sized ==
    /\ files \in Files
    /\ \A i \in 0..Retention : Len(files[i]) <= MaxLines
    /\ Full(files)

LEMMA SizedStep ==
    ASSUME AuditAssumption, IInv, [Next]_vars
    PROVE  Sized' /\ written' \in Seq(Line)
<1>1. /\ Retention \in Nat \ {0} /\ MaxLines \in Nat \ {0} /\ 0 \in 0..Retention
      /\ files \in Files /\ \A i \in 0..Retention : Len(files[i]) \in 0..MaxLines
      /\ \A i \in 1..Retention : i \in 0..Retention
      /\ Full(files) /\ written \in Seq(Line)
  BY FilesTyped DEF IInv, TypeOK, Rotation
<1>2. CASE Quiet
  BY <1>1, <1>2 DEF Quiet, Sized, Full
<1>3. ASSUME NEW t \in Thread, DropOldest(t) PROVE Sized' /\ written' \in Seq(Line)
  <2>1. /\ files' \in Files /\ files'[Retention] = <<>>
        /\ \A i \in 0..(Retention - 1) : files'[i] = files[i]
    BY <1>3, DropStep DEF IInv
  <2>2. \A i \in 0..Retention : files'[i] = files[i] \/ (files'[i] = <<>> /\ Len(files'[i]) = 0)
    <3> SUFFICES ASSUME NEW i \in 0..Retention, i \notin 0..(Retention - 1)
                 PROVE  files'[i] = <<>> /\ Len(files'[i]) = 0
      BY <2>1
    <3>1. i = Retention
      BY <1>1
    <3>2. QED
      BY <2>1, <3>1
  <2>3. written' = written
    BY <1>3 DEF DropOldest, ghosts
  <2>4. \A i \in 0..Retention : Len(files'[i]) <= MaxLines
    BY <1>1, <2>2
  <2>5. Full(files')
    BY <1>1, <2>2 DEF Full
  <2>6. QED
    BY <1>1, <2>1, <2>3, <2>4, <2>5 DEF Sized, Full
<1>4. ASSUME NEW t \in Thread, Shift(t) PROVE Sized' /\ written' \in Seq(Line)
  <2> DEFINE i == call[t].index
  <2>1. /\ i \in 0..(Retention - 1) /\ files' \in Files
        /\ files'[i + 1] = files[i] /\ files'[i] = <<>>
        /\ \A j \in 0..Retention : j # i /\ j # i + 1 => files'[j] = files[j]
    BY <1>4, ShiftStep DEF IInv
  <2>2. pc[t] = "shift"
    BY <1>4 DEF Shift, Go
  <2>3. Len(files[0]) = MaxLines /\ written' = written
    BY <1>4, <2>2 DEF IInv, Rotation, Shift, ghosts
  <2> HIDE DEF i
  <2>4. i \in 0..Retention /\ (i # 0 => i \in 1..Retention)
    BY <1>1, <2>1
  <2>5. Len(files[i]) \in 0..MaxLines /\ (files[i] # <<>> => Len(files[i]) = MaxLines)
    BY <1>1, <2>3, <2>4 DEF Full
  <2>6. ASSUME NEW j \in 0..Retention
        PROVE  Len(files'[j]) <= MaxLines /\ (j # 0 /\ files'[j] # <<>> => Len(files'[j]) = MaxLines)
    <3>1. CASE j = i + 1
      BY <1>1, <2>1, <2>5, <3>1
    <3>2. CASE j = i
      <4>1. Len(files'[j]) = 0
        BY <2>1, <3>2
      <4>2. QED
        BY <1>1, <2>1, <3>2, <4>1
    <3>3. CASE j # i /\ j # i + 1
      BY <1>1, <2>1, <3>3 DEF Full
    <3>4. QED
      BY <3>1, <3>2, <3>3
  <2>7. QED
    BY <1>1, <2>1, <2>3, <2>6 DEF Sized, Full
<1>5. ASSUME NEW t \in Thread, NEW x \in Record \cup {Torn}, WritesAt(t, x)
      PROVE  Sized' /\ written' \in Seq(Line)
  <2>1. /\ files' \in Files /\ \A i \in 1..Retention : files'[i] = files[i]
        /\ Len(files'[0]) <= Len(files[0]) + 1 /\ written' \in Seq(Line)
    BY <1>5, WriteStep DEF IInv, WritesAt
  <2>2. Len(files[0]) < MaxLines
    BY <1>5 DEF IInv, Rotation, WritesAt
  <2>3. Len(files'[0]) \in Nat /\ Len(files[0]) \in Nat
    <3>1. files'[0] \in Seq(Line) /\ files[0] \in Seq(Line)
      BY <1>1, <2>1 DEF Files
    <3>2. QED
      BY <3>1
  <2>4. Len(files'[0]) <= MaxLines
    BY <1>1, <2>1, <2>2, <2>3
  <2>5. ASSUME NEW i \in 0..Retention PROVE Len(files'[i]) <= MaxLines
    <3>1. i = 0 \/ i \in 1..Retention
      BY <1>1
    <3>2. CASE i \in 1..Retention
      BY <1>1, <2>1, <3>2
    <3>3. QED
      BY <2>4, <3>1, <3>2
  <2>6. Full(files')
    BY <1>1, <2>1 DEF Full
  <2>7. QED
    BY <2>1, <2>5, <2>6 DEF Sized, Full
<1>6. QED
  BY <1>2, <1>3, <1>4, <1>5, WhoWrites

\* The types; one handler at a time stays between the locks.
LEMMA TypesStep ==
    ASSUME AuditAssumption, IInv, [Next]_vars
    PROVE  TypeOK'
<1>1. /\ files' \in Files /\ \A i \in 0..Retention : Len(files'[i]) <= MaxLines
      /\ written' \in Seq(Line)
  BY SizedStep DEF Sized
<1> DEFINE Handlers ==
             /\ lock' \in Thread \cup {None}
             /\ pc' \in [Thread -> {"idle", "lock", "oldest", "shift", "line", "mode", "note"}]
             /\ \A t \in Thread : lock' = t <=> pc'[t] \in Inside
             /\ call' \in [Thread -> [record : Record \cup {None}, index : 0..Retention]]
           Data ==
             /\ up' \in BOOLEAN /\ memory' \in Seq(Record)
             /\ issued' \subseteq Record /\ answered' \subseteq issued'
             /\ interrupted' \in 0..MaxInterrupts /\ torn' \in BOOLEAN
<1>2. /\ lock \in Thread \cup {None} /\ None \notin Thread
      /\ pc \in [Thread -> {"idle", "lock", "oldest", "shift", "line", "mode", "note"}]
      /\ \A t \in Thread : lock = t <=> pc[t] \in Inside
      /\ call \in [Thread -> [record : Record \cup {None}, index : 0..Retention]]
  BY DEF IInv, TypeOK, Inside, AuditAssumption
<1>3. /\ up \in BOOLEAN /\ memory \in Seq(Record) /\ issued \subseteq Record
      /\ answered \subseteq issued /\ interrupted \in 0..MaxInterrupts /\ torn \in BOOLEAN
  BY DEF IInv, TypeOK
<1>4. MaxInterrupts \in Nat /\ Retention \in Nat \ {0} /\ Retention - 1 \in 0..Retention /\ 0 \in 0..Retention
  BY DEF AuditAssumption
<1>5. NoCall \in [record : Record \cup {None}, index : 0..Retention]
  BY <1>4 DEF NoCall
<1>6. ASSUME NEW t \in Thread, NEW q \in {"idle", "lock", "oldest", "shift", "line", "mode", "note"},
             pc' = [pc EXCEPT ![t] = q],
             \/ q \in Inside /\ pc[t] \in Inside /\ lock' = lock
             \/ q \in Inside /\ lock = None /\ lock' = t
             \/ q \notin Inside /\ lock' = IF lock = t THEN None ELSE lock
      PROVE  /\ lock' \in Thread \cup {None}
             /\ pc' \in [Thread -> {"idle", "lock", "oldest", "shift", "line", "mode", "note"}]
             /\ \A u \in Thread : lock' = u <=> pc'[u] \in Inside
  <2>1. pc' \in [Thread -> {"idle", "lock", "oldest", "shift", "line", "mode", "note"}]
    BY <1>2, <1>6
  <2>2. pc'[t] = q /\ \A u \in Thread : u # t => pc'[u] = pc[u]
    BY <1>2, <1>6
  <2>3. CASE q \in Inside /\ pc[t] \in Inside /\ lock' = lock
    BY <1>2, <2>1, <2>2, <2>3
  <2>4. CASE q \in Inside /\ lock = None /\ lock' = t
    BY <1>2, <2>1, <2>2, <2>4
  <2>5. CASE q \notin Inside /\ lock' = IF lock = t THEN None ELSE lock
    BY <1>2, <2>1, <2>2, <2>5
  <2>6. QED
    BY <1>6, <2>3, <2>4, <2>5
<1>7. ASSUME NEW t \in Thread, Leave(t) PROVE Handlers
  <2>1. call' \in [Thread -> [record : Record \cup {None}, index : 0..Retention]]
    BY <1>2, <1>5, <1>7 DEF Leave
  <2>2. QED
    BY <1>6, <1>7, <2>1 DEF Leave, Inside
<1>8. ASSUME NEW t \in Thread, Step(t) PROVE Handlers
  <2>1. CASE Acquire(t)
    BY <1>2, <1>6, <2>1 DEF Acquire, Go, Inside
  <2>2. CASE DropOldest(t)
    <3>1. call' \in [Thread -> [record : Record \cup {None}, index : 0..Retention]]
      BY <1>2, <1>4, <2>2 DEF DropOldest
    <3>2. QED
      BY <1>6, <2>2, <3>1 DEF DropOldest, Go, Inside
  <2>3. CASE Shift(t)
    <3>1. call[t].index = 0 \/ call[t].index - 1 \in 0..Retention
      BY <1>2, <1>4
    <3>2. call' \in [Thread -> [record : Record \cup {None}, index : 0..Retention]]
      <4>1. call' = [call EXCEPT ![t].index = IF call[t].index = 0 THEN 0 ELSE call[t].index - 1]
        BY <1>2, <2>3 DEF Shift
      <4>2. (IF call[t].index = 0 THEN 0 ELSE call[t].index - 1) \in 0..Retention
        BY <1>4, <3>1
      <4> DEFINE j == IF call[t].index = 0 THEN 0 ELSE call[t].index - 1
      <4> HIDE DEF j
      <4>3. QED
        BY <1>2, <4>1, <4>2 DEF j
    <3>3. QED
      BY <1>6, <2>3, <3>2 DEF Shift, Go, Inside
  <2>4. CASE WriteLine(t)
    BY <1>2, <1>6, <2>4 DEF WriteLine, Go, Inside
  <2>5. CASE SetMode(t)
    <3>1. lock = t
      BY <1>2, <2>5 DEF SetMode, Go, Inside
    <3>2. QED
      BY <1>2, <1>6, <2>5, <3>1 DEF SetMode, Go, Inside, ghosts
  <2>6. CASE RotateFails(t) \/ WriteFails(t) \/ WriteTears(t) \/ ModeFails(t) \/ Note(t)
    BY <1>7, <2>6 DEF RotateFails, WriteFails, WriteTears, ModeFails, Note
  <2>7. QED
    BY <1>8, <2>1, <2>2, <2>3, <2>4, <2>5, <2>6 DEF Step
<1>9. ASSUME NEW t \in Thread, NEW r \in Record, Start(t, r) PROVE Handlers
  <2>1. call' \in [Thread -> [record : Record \cup {None}, index : 0..Retention]]
    BY <1>2, <1>9 DEF Start
  <2>2. pc' = [pc EXCEPT ![t] = "lock"] /\ lock' = lock /\ pc[t] = "idle"
    BY <1>9 DEF Start, Go
  <2>3. lock # t
    BY <1>2, <2>2 DEF Inside
  <2>4. QED
    BY <1>6, <2>1, <2>2, <2>3 DEF Inside
<1>10. ASSUME Crash PROVE Handlers /\ Data
  <2>1. /\ lock' = None /\ pc' = [t \in Thread |-> "idle"] /\ call' = [t \in Thread |-> NoCall]
    BY <1>10 DEF Crash
  <2>2. Handlers
    BY <1>2, <1>5, <2>1 DEF Inside
  <2>3. /\ up' = FALSE /\ memory' = <<>> /\ issued' = issued /\ answered' = answered
        /\ torn' \in {torn, TRUE}
    BY <1>10 DEF Crash
  <2>7. <<>> \in Seq(Record) /\ torn' \in BOOLEAN
    <3>1. torn' \in BOOLEAN
      BY <1>3, <2>3, Zenon
    <3>2. QED
      BY <3>1
  <2>4. interrupted' \in 0..MaxInterrupts
    <3>1. /\ Rotating => interrupted < MaxInterrupts
          /\ interrupted' = IF Rotating THEN interrupted + 1 ELSE interrupted
      BY <1>10 DEF Crash
    <3>2. QED
      BY <1>3, <1>4, <3>1
  <2>5. Data
    BY <1>3, <2>3, <2>4, <2>7
  <2>6. QED
    BY <2>2, <2>5
<1>11. ASSUME NEW t \in Thread, Step(t) PROVE Data
  <2>1. CASE Note(t)
    <3>1. pc[t] = "note" /\ memory' = Append(memory, call[t].record)
          /\ answered' = answered \cup {call[t].record}
          /\ UNCHANGED <<up, issued, interrupted, torn>>
      BY <2>1 DEF Note
    <3>2. call[t].record \in issued
      BY <3>1 DEF IInv, Calls
    <3>3. QED
      BY <1>3, <3>1, <3>2
  <2>2. CASE RotateFails(t)
    <3>1. interrupted' \in 0..MaxInterrupts
      BY <1>3, <1>4, <2>2 DEF RotateFails
    <3>2. QED
      BY <1>3, <2>2, <3>1 DEF RotateFails
  <2>3. CASE WriteTears(t)
    BY <1>3, <2>3 DEF WriteTears
  <2>4. CASE \/ Acquire(t) \/ DropOldest(t) \/ Shift(t) \/ WriteLine(t) \/ WriteFails(t)
             \/ SetMode(t) \/ ModeFails(t)
    BY <1>3, <2>4 DEF Acquire, DropOldest, Shift, WriteLine, WriteFails, SetMode, ModeFails, ghosts
  <2>5. QED
    BY <1>11, <2>1, <2>2, <2>3, <2>4 DEF Step
<1>12. ASSUME NEW t \in Thread, NEW r \in Record, Start(t, r) PROVE Data
  BY <1>3, <1>12 DEF Start
<1>13. CASE Boot
  <2>1. memory' = Loaded /\ Loaded \in Seq(Line) /\ \A k \in DOMAIN Loaded : Loaded[k] \in Record
    BY <1>13, LoadedIsSeq DEF Boot, Loadable, IInv, TypeOK, Files
  <2>2. memory' \in Seq(Record)
    BY <2>1
  <2>3. Handlers /\ Data
    BY <1>2, <1>3, <1>13, <2>2 DEF Boot, handler, ghosts
  <2>4. QED
    BY <1>1, <2>3 DEF TypeOK, Files, Inside
<1>14. CASE UNCHANGED vars
  <2>1. Handlers /\ Data
    BY <1>2, <1>3, <1>14 DEF vars, handler, ghosts
  <2>2. QED
    BY <1>1, <2>1 DEF TypeOK, Files, Inside
<1>15. Handlers /\ Data => TypeOK'
  BY <1>1 DEF TypeOK, Files, Inside
<1> HIDE DEF Handlers, Data
<1>16. QED
  BY <1>8, <1>9, <1>10, <1>11, <1>12, <1>13, <1>14, <1>15 DEF Next

\* What Rotation says of handler t.
Ready(t) ==
    /\ pc[t] \in {"oldest", "shift"} => Len(files[0]) = MaxLines
    /\ pc[t] = "shift" => call[t].index < Retention /\ files[call[t].index + 1] = <<>>
    /\ pc[t] = "line" => Len(files[0]) < MaxLines

LEMMA RotationStep ==
    ASSUME AuditAssumption, IInv, [Next]_vars
    PROVE  Rotation'
<1>1. /\ Retention \in Nat \ {0} /\ MaxLines \in Nat \ {0} /\ 0 \in 0..Retention
      /\ files \in Files /\ Len(files[0]) \in 0..MaxLines
      /\ \A i \in 1..Retention : i \in 0..Retention
  BY FilesTyped DEF IInv
<1>2. /\ pc \in [Thread -> {"idle", "lock", "oldest", "shift", "line", "mode", "note"}]
      /\ call \in [Thread -> [record : Record \cup {None}, index : 0..Retention]]
      /\ \A t \in Thread : lock = t <=> pc[t] \in Inside
      /\ None \notin Thread
  BY DEF IInv, TypeOK, Inside, AuditAssumption
<1>3. \A t \in Thread : Ready(t)
  BY DEF IInv, Rotation, Ready
<1>4. ASSUME ~up PROVE \A t \in Thread : pc[t] = "idle"
  BY <1>4 DEF IInv, Rotation
<1>5. Full(files)'
  BY SizedStep DEF Sized
<1>6. ASSUME NEW t \in Thread, pc[t] # "idle", up' = up
      PROVE  up'
  BY <1>4, <1>6
\* A step of handler t: the others are not between the locks.
<1>7. ASSUME NEW t \in Thread, pc[t] \in Inside,
             NEW q, pc' = [pc EXCEPT ![t] = q]
      PROVE  pc'[t] = q /\ \A u \in Thread : u # t => pc'[u] \notin Inside
  <2>1. \A u \in Thread : u # t => pc[u] \notin Inside
    BY <1>7, OneInside DEF IInv
  <2>2. QED
    BY <1>2, <1>7, <2>1
<1>8. ASSUME NEW t \in Thread, NEW q, q \notin {"oldest", "shift", "line"},
             pc' = [pc EXCEPT ![t] = q], UNCHANGED <<files, call>>
      PROVE  \A u \in Thread : Ready(u)'
  <2>1. \A u \in Thread : pc'[u] = pc[u] \/ pc'[u] \notin {"oldest", "shift", "line"}
    BY <1>2, <1>8
  <2>2. QED
    BY <1>3, <1>8, <2>1 DEF Ready
<1>9. ASSUME NEW t \in Thread, pc[t] \in Inside,
             NEW q, q \notin {"oldest", "shift", "line"}, pc' = [pc EXCEPT ![t] = q]
      PROVE  \A u \in Thread : Ready(u)'
  <2>1. \A u \in Thread : pc'[u] \notin {"oldest", "shift", "line"}
    BY <1>7, <1>9 DEF Inside
  <2>2. QED
    BY <2>1 DEF Ready
<1>10. ASSUME NEW t \in Thread, Step(t)
       PROVE  (\A u \in Thread : Ready(u)') /\ up' = up /\ pc[t] # "idle"
  <2>1. CASE Acquire(t)
    <3> DEFINE q == IF Len(files[0]) + 1 > MaxLines THEN "oldest" ELSE "line"
    <3>1. /\ pc[t] = "lock" /\ pc' = [pc EXCEPT ![t] = q] /\ lock = None
          /\ UNCHANGED <<up, files, call>>
      BY <2>1 DEF Acquire, Go
    <3>2. /\ q = "oldest" => Len(files[0]) = MaxLines
          /\ q = "line" => Len(files[0]) < MaxLines
          /\ q \in {"oldest", "line"}
      BY <1>1
    <3> HIDE DEF q
    <3>3. pc'[t] = q /\ \A u \in Thread : u # t => pc'[u] = pc[u]
      BY <1>2, <3>1
    <3>4. \A u \in Thread : Ready(u)'
      BY <1>3, <3>1, <3>2, <3>3 DEF Ready
    <3>5. QED
      BY <3>1, <3>4
  <2>2. CASE DropOldest(t)
    <3>1. /\ pc[t] = "oldest" /\ pc' = [pc EXCEPT ![t] = "shift"] /\ up' = up
          /\ call'[t].index = Retention - 1
      BY <1>2, <2>2 DEF DropOldest, Go
    <3>2. files'[0] = files[0] /\ files'[Retention] = <<>>
      <4>1. 0 \in 0..(Retention - 1)
        BY <1>1
      <4>2. QED
        BY <2>2, <4>1, DropStep DEF IInv
    <3>3. pc'[t] = "shift" /\ \A u \in Thread : u # t => pc'[u] \notin Inside
      BY <1>7, <3>1 DEF Inside
    <3>4. Retention - 1 < Retention /\ Retention - 1 + 1 = Retention
      BY <1>1
    <3>5. Len(files[0]) = MaxLines
      BY <1>3, <3>1 DEF Ready
    <3>6. \A u \in Thread : Ready(u)'
      BY <3>1, <3>2, <3>3, <3>4, <3>5 DEF Ready, Inside
    <3>7. QED
      BY <3>1, <3>6
  <2>3. CASE Shift(t)
    <3> DEFINE i == call[t].index
    <3>1. /\ pc[t] = "shift" /\ up' = up
          /\ pc' = [pc EXCEPT ![t] = IF call[t].index = 0 THEN "line" ELSE "shift"]
      BY <2>3 DEF Shift, Go
    <3>2. call'[t].index = IF i = 0 THEN 0 ELSE i - 1
      BY <1>2, <2>3 DEF Shift
    <3>3. /\ i \in 0..(Retention - 1) /\ files'[i] = <<>>
          /\ \A j \in 0..Retention : j # i /\ j # i + 1 => files'[j] = files[j]
      BY <2>3, ShiftStep DEF IInv
    <3>4. /\ pc'[t] = IF i = 0 THEN "line" ELSE "shift"
          /\ \A u \in Thread : u # t => pc'[u] \notin Inside
      BY <1>7, <3>1 DEF Inside
    <3>5. Len(files[0]) = MaxLines
      BY <1>3, <3>1 DEF Ready
    <3> HIDE DEF i
    <3>6. CASE i = 0
      <4>1. Len(files'[0]) < MaxLines
        BY <1>1, <3>3, <3>6
      <4>2. pc'[t] = "line"
        BY <3>4, <3>6
      <4>3. \A u \in Thread : Ready(u)'
        BY <3>4, <4>1, <4>2 DEF Ready, Inside
      <4>4. QED
        BY <3>1, <4>3
    <3>7. CASE i # 0
      <4>1. /\ files'[0] = files[0] /\ call'[t].index = i - 1
            /\ i - 1 + 1 = i /\ i - 1 < Retention
        BY <1>1, <3>2, <3>3, <3>7
      <4>2. pc'[t] = "shift"
        BY <3>4, <3>7
      <4>3. \A u \in Thread : Ready(u)'
        BY <3>3, <3>4, <3>5, <4>1, <4>2 DEF Ready, Inside
      <4>4. QED
        BY <3>1, <4>3
    <3>8. QED
      BY <3>6, <3>7
  <2>4. CASE Note(t)
    <3>1. pc[t] = "note" /\ pc' = [pc EXCEPT ![t] = "idle"] /\ up' = up /\ files' = files
          /\ call' = [call EXCEPT ![t] = NoCall]
      BY <2>4 DEF Note, Leave
    <3>2. \A u \in Thread : u # t => pc'[u] = pc[u] /\ call'[u] = call[u]
      BY <1>2, <3>1
    <3>3. pc'[t] = "idle"
      BY <1>2, <3>1
    <3>4. \A u \in Thread : Ready(u)'
      BY <1>3, <3>1, <3>2, <3>3 DEF Ready
    <3>5. QED
      BY <3>1, <3>4
  <2>5. CASE RotateFails(t) \/ WriteFails(t) \/ WriteTears(t) \/ ModeFails(t)
    <3>1. pc[t] \in Inside /\ pc' = [pc EXCEPT ![t] = "idle"] /\ up' = up
      BY <2>5 DEF RotateFails, WriteFails, WriteTears, ModeFails, Leave, Inside
    <3>2. pc[t] # "idle"
      BY <3>1 DEF Inside
    <3>3. QED
      BY <1>9, <3>1, <3>2
  <2>6. CASE WriteLine(t)
    <3>1. pc[t] = "line" /\ pc' = [pc EXCEPT ![t] = "mode"] /\ up' = up
      BY <2>6 DEF WriteLine, Go
    <3>2. QED
      BY <1>9, <3>1 DEF Inside
  <2>7. CASE SetMode(t)
    <3>1. pc[t] = "mode" /\ pc' = [pc EXCEPT ![t] = "note"] /\ up' = up
      BY <2>7 DEF SetMode, Go
    <3>2. QED
      BY <1>9, <3>1 DEF Inside
  <2>8. QED
    BY <1>10, <2>1, <2>2, <2>3, <2>4, <2>5, <2>6, <2>7 DEF Step
<1>11. ASSUME NEW t \in Thread, NEW r \in Record, Start(t, r)
       PROVE  (\A u \in Thread : Ready(u)') /\ up'
  <2>1. up /\ up' = up /\ pc' = [pc EXCEPT ![t] = "lock"] /\ files' = files
        /\ call' = [call EXCEPT ![t].record = r]
    BY <1>11 DEF Start, Go
  <2>2. \A u \in Thread : u # t => pc'[u] = pc[u] /\ call'[u] = call[u]
    BY <1>2, <2>1
  <2>3. pc'[t] = "lock"
    BY <1>2, <2>1
  <2>4. \A u \in Thread : Ready(u)'
    BY <1>3, <2>1, <2>2, <2>3 DEF Ready
  <2>5. QED
    BY <2>1, <2>4
<1>12. CASE Crash
  <2>1. \A t \in Thread : pc'[t] = "idle"
    BY <1>12 DEF Crash
  <2>2. QED
    BY <1>5, <2>1 DEF Rotation
<1>13. CASE Boot
  BY <1>3, <1>5, <1>13 DEF Boot, handler, Rotation, Ready
<1>14. CASE UNCHANGED vars
  BY <1>3, <1>4, <1>5, <1>14 DEF vars, handler, Rotation, Ready
<1>15. (\A u \in Thread : Ready(u)') /\ up' => Rotation'
  BY <1>5 DEF Rotation, Ready
<1>16. ASSUME NEW t \in Thread, Step(t) PROVE Rotation'
  BY <1>6, <1>10, <1>15, <1>16
<1>17. QED
  BY <1>11, <1>12, <1>13, <1>14, <1>15, <1>16 DEF Next

LEMMA HolesOfFiles ==
    ASSUME AuditAssumption, NEW F, NEW n \in 0..Retention
    PROVE  Holes(F, n) \in Nat
BY HolesStep DEF AuditAssumption

\* Histories that agree on files 1 .. n have the same holes there.
LEMMA HolesSame ==
    ASSUME AuditAssumption, NEW F, NEW G, NEW n \in 0..Retention, \A i \in 1..n : F[i] = G[i]
    PROVE  Holes(F, n) = Holes(G, n)
<1>1. 0 \in Nat /\ n \in Nat /\ 0 <= n
  BY DEF AuditAssumption
<1>2. \A i \in (0 + 1)..n : F[i] = <<>> <=> G[i] = <<>>
  OBVIOUS
<1>3. Holes(F, n) - Holes(G, n) = Holes(F, 0) - Holes(G, 0)
  BY <1>1, <1>2, HolesAlike
<1>4. Holes(F, 0) = 0 /\ Holes(G, 0) = 0 /\ Holes(F, n) \in Nat /\ Holes(G, n) \in Nat
  BY <1>1, HolesStep
<1>5. QED
  BY <1>3, <1>4

\* A rotation that gives up, or is stopped, owes its hole from then on.
LEMMA OwedStep ==
    ASSUME AuditAssumption, IInv, [Next]_vars, NEW j \in 1..Retention,
           \A t \in Thread : ~Shift(t)
    PROVE  Owed(j) <= Owed(j)'
<1>1. /\ pc \in [Thread -> {"idle", "lock", "oldest", "shift", "line", "mode", "note"}]
      /\ call \in [Thread -> [record : Record \cup {None}, index : 0..Retention]]
      /\ interrupted \in Nat
  BY DEF IInv, TypeOK, AuditAssumption
<1>2. ASSUME interrupted' = interrupted,
             \A t \in Thread : pc[t] = "shift" => pc'[t] = "shift" /\ call'[t].index = call[t].index
      PROVE  Owed(j) <= Owed(j)'
  <2>1. Moving(j) => Moving(j)'
    BY <1>2 DEF Moving
  <2>2. QED
    BY <1>1, <1>2, <2>1 DEF Owed
<1>3. ASSUME interrupted' = interrupted + 1 PROVE Owed(j) <= Owed(j)'
  BY <1>1, <1>3 DEF Owed
<1>4. ASSUME NEW t \in Thread, NEW q, pc[t] # "shift", pc' = [pc EXCEPT ![t] = q],
             \A u \in Thread : u # t => call'[u].index = call[u].index, interrupted' = interrupted
      PROVE  Owed(j) <= Owed(j)'
  <2>1. \A u \in Thread : pc[u] = "shift" => pc'[u] = "shift" /\ call'[u].index = call[u].index
    BY <1>1, <1>4
  <2>2. QED
    BY <1>2, <1>4, <2>1
<1>5. ASSUME NEW t \in Thread, Step(t) PROVE Owed(j) <= Owed(j)'
  <2>1. CASE RotateFails(t)
    BY <1>3, <2>1 DEF RotateFails
  <2>2. CASE Acquire(t)
    BY <1>4, <2>2 DEF Acquire, Go, ghosts
  <2>3. CASE WriteLine(t)
    BY <1>4, <2>3 DEF WriteLine, Go
  <2>4. CASE SetMode(t)
    BY <1>4, <2>4 DEF SetMode, Go, ghosts
  <2>5. CASE WriteFails(t) \/ WriteTears(t) \/ ModeFails(t) \/ Note(t)
    <3>1. /\ pc[t] # "shift" /\ pc' = [pc EXCEPT ![t] = "idle"]
          /\ call' = [call EXCEPT ![t] = NoCall] /\ interrupted' = interrupted
      BY <2>5 DEF WriteFails, WriteTears, ModeFails, Note, Leave, ghosts
    <3>2. \A u \in Thread : u # t => call'[u].index = call[u].index
      BY <1>1, <3>1
    <3>3. QED
      BY <1>4, <3>1, <3>2
  <2>6. CASE DropOldest(t)
    <3>1. /\ pc[t] # "shift" /\ pc' = [pc EXCEPT ![t] = "shift"]
          /\ call' = [call EXCEPT ![t].index = Retention - 1] /\ interrupted' = interrupted
      BY <2>6 DEF DropOldest, Go, ghosts
    <3>2. \A u \in Thread : u # t => call'[u].index = call[u].index
      BY <1>1, <3>1
    <3>3. QED
      BY <1>4, <3>1, <3>2
  <2>7. QED
    BY <1>5, <2>1, <2>2, <2>3, <2>4, <2>5, <2>6 DEF Step
<1>6. ASSUME NEW t \in Thread, NEW r \in Record, Start(t, r) PROVE Owed(j) <= Owed(j)'
  <2>1. /\ pc[t] # "shift" /\ pc' = [pc EXCEPT ![t] = "lock"]
        /\ call' = [call EXCEPT ![t].record = r] /\ interrupted' = interrupted
    BY <1>6 DEF Start, Go
  <2>2. \A u \in Thread : u # t => call'[u].index = call[u].index
    BY <1>1, <2>1
  <2>3. QED
    BY <1>4, <2>1, <2>2
<1>7. CASE Crash
  <2>1. CASE Rotating
    BY <1>3, <1>7, <2>1 DEF Crash
  <2>2. CASE ~Rotating
    <3>1. interrupted' = interrupted /\ \A t \in Thread : pc[t] # "shift"
      BY <1>7, <2>2 DEF Crash, Rotating
    <3>2. QED
      BY <1>2, <3>1
  <2>3. QED
    BY <2>1, <2>2
<1>8. CASE Boot \/ UNCHANGED vars
  BY <1>2, <1>8 DEF Boot, vars, handler, ghosts
<1>9. QED
  BY <1>5, <1>6, <1>7, <1>8 DEF Next

\* Steps that leave the numbered files alone, and forget nothing.
LEMMA HolesStay ==
    ASSUME AuditAssumption, IInv, [Next]_vars, \A i \in 1..Retention : files'[i] = files[i],
           Len(Loaded') < Len(written') => Len(Loaded) < Len(written),
           \A t \in Thread : ~Shift(t)
    PROVE  FewHoles'
<1> SUFFICES ASSUME NEW j \in 1..Retention, Reached(j)'
             PROVE  Holes(files', j) <= Owed(j)'
  BY DEF FewHoles
<1>1. Retention \in Nat /\ j \in 0..Retention /\ \A i \in 1..j : i \in 1..Retention
  BY DEF AuditAssumption
<1>2. Holes(files', j) = Holes(files, j) /\ Holes(files, j) \in Nat
  BY <1>1, HolesSame, HolesOfFiles
<1>3. Reached(j)
  BY DEF Reached
<1>4. Holes(files, j) <= Owed(j)
  BY <1>3 DEF IInv, FewHoles
<1>5. Owed(j) <= Owed(j)'
  BY OwedStep
<1>6. Owed(j) \in Int /\ Owed(j)' \in Int
  <2>1. interrupted \in Int /\ interrupted' \in Int
    BY TypesStep DEF IInv, TypeOK, AuditAssumption
  <2>2. QED
    BY <2>1 DEF Owed
<1>7. QED
  BY <1>2, <1>4, <1>5, <1>6

LEMMA HolesDropped ==
    ASSUME AuditAssumption, IInv, [Next]_vars, NEW t \in Thread, DropOldest(t)
    PROVE  FewHoles'
<1>1. /\ Retention \in Nat \ {0} /\ interrupted \in Nat
      /\ pc \in [Thread -> {"idle", "lock", "oldest", "shift", "line", "mode", "note"}]
      /\ call \in [Thread -> [record : Record \cup {None}, index : 0..Retention]]
  BY DEF IInv, TypeOK, AuditAssumption
<1>2. /\ pc[t] = "oldest" /\ pc' = [pc EXCEPT ![t] = "shift"]
      /\ call' = [call EXCEPT ![t].index = Retention - 1]
      /\ interrupted' = interrupted /\ written' = written
  BY DEF DropOldest, Go, ghosts
<1>3. /\ files'[Retention] = <<>>
      /\ \A i \in 0..(Retention - 1) : files'[i] = files[i]
      /\ files[Retention] = <<>> => Loaded' = Loaded
  BY DropStep DEF IInv
<1>4. \A u \in Thread : pc[u] # "shift"
  BY <1>2, OneInside DEF IInv, Inside
<1>5. ASSUME NEW j PROVE Owed(j) = interrupted
  BY <1>4 DEF Owed, Moving
<1>6. Owed(Retention)' = interrupted + 1
  <2>1. pc'[t] = "shift" /\ call'[t].index < Retention
    BY <1>1, <1>2
  <2>2. QED
    BY <1>2, <2>1 DEF Owed, Moving
<1>7. ASSUME NEW j \in 1..Retention PROVE interrupted <= Owed(j)'
  BY <1>1, <1>2 DEF Owed
<1>8. ASSUME NEW j \in 1..Retention, Reached(j)'
      PROVE  Holes(files', j) <= Owed(j)'
  <2>1. CASE j # Retention
    <3>1. /\ j \in 0..(Retention - 1) /\ j \in 0..Retention
          /\ \A i \in 1..j : i \in 0..(Retention - 1)
      BY <1>1, <2>1
    <3>2. Holes(files', j) = Holes(files, j) /\ Holes(files, j) \in Nat
      BY <1>3, <3>1, HolesSame, HolesOfFiles
    <3>3. Reached(j)
      BY <1>3, <1>8, <2>1, <3>1 DEF Reached
    <3>4. Holes(files, j) <= interrupted
      BY <1>5, <3>3 DEF IInv, FewHoles
    <3>5. Owed(j)' \in {interrupted, interrupted + 1}
      BY <1>2 DEF Owed
    <3>6. QED
      BY <1>1, <3>2, <3>4, <3>5
  <2>2. CASE j = Retention
    <3> DEFINE m == Retention - 1
    <3>1. m \in Nat /\ m \in 0..Retention /\ m + 1 = Retention /\ \A i \in 1..m : i \in 0..(Retention - 1)
      BY <1>1
    <3> HIDE DEF m
    <3>2. Holes(files', m) = Holes(files, m) /\ Holes(files, m) \in Nat
      BY <1>3, <3>1, HolesSame, HolesOfFiles
    <3>3. Holes(files', Retention) = Holes(files, m) + 1
      BY <1>3, <3>1, <3>2, HolesStep
    <3>4. CASE files[Retention] # <<>>
      <4>1. Holes(files, Retention) = Holes(files, m)
        BY <3>1, <3>4, HolesStep
      <4>2. Holes(files, Retention) <= interrupted
        BY <1>5, <2>2, <3>4 DEF IInv, FewHoles, Reached
      <4>3. QED
        BY <1>1, <1>6, <2>2, <3>2, <3>3, <4>1, <4>2
    <3>5. CASE files[Retention] = <<>>
      <4>1. Holes(files, Retention) = Holes(files, m) + 1
        BY <3>1, <3>5, HolesStep
      <4>2. Reached(j)
        BY <1>2, <1>3, <1>8, <2>2, <3>5 DEF Reached
      <4>3. Holes(files, Retention) <= interrupted
        BY <1>5, <2>2, <4>2 DEF IInv, FewHoles
      <4>4. QED
        BY <1>1, <1>6, <2>2, <3>2, <3>3, <4>1, <4>3
    <3>6. QED
      BY <3>4, <3>5
  <2>3. QED
    BY <2>1, <2>2
<1>9. QED
  BY <1>8 DEF FewHoles

\* The hole goes down by one file when one is moved up; the sink's file fills
\* the last one.
LEMMA HolesMoved ==
    ASSUME AuditAssumption, NEW F, NEW G, NEW i \in 0..(Retention - 1), NEW j \in 1..Retention,
           F[i + 1] = <<>>, G[i + 1] = F[i], G[i] = <<>>, F[0] # <<>>,
           \A k \in 0..Retention : k # i /\ k # i + 1 => G[k] = F[k]
    PROVE  /\ j < i => Holes(G, j) = Holes(F, j)
           /\ j > i /\ i # 0 => Holes(G, j) = Holes(F, j)
           /\ j > i /\ i = 0 => Holes(G, j) = Holes(F, j) - 1
<1>1. /\ Retention \in Nat \ {0} /\ i \in Nat /\ i + 1 \in Nat /\ j \in Nat
      /\ j \in 0..Retention /\ i \in 0..Retention
  BY DEF AuditAssumption
<1>2. Holes(F, j) \in Nat /\ Holes(G, j) \in Nat
  BY <1>1, HolesOfFiles
<1>3. ASSUME j < i PROVE Holes(G, j) = Holes(F, j)
  <2>1. \A k \in 1..j : k \in 0..Retention /\ k # i /\ k # i + 1
    BY <1>1, <1>3
  <2>2. QED
    BY <1>1, <2>1, HolesSame
<1>4. ASSUME j > i PROVE Holes(G, j) - Holes(F, j) = Holes(G, i + 1) - Holes(F, i + 1)
  <2>1. \A k \in ((i + 1) + 1)..j : k \in 0..Retention /\ k # i /\ k # i + 1
    BY <1>1
  <2>2. \A k \in ((i + 1) + 1)..j : G[k] = <<>> <=> F[k] = <<>>
    BY <2>1
  <2>3. i + 1 <= j
    BY <1>1, <1>4
  <2>4. QED
    BY <1>1, <2>2, <2>3, HolesAlike
<1>5. ASSUME i = 0 PROVE Holes(G, i + 1) - Holes(F, i + 1) = 0 - 1
  <2>1. Holes(G, 0) = 0 /\ Holes(F, 0) = 0 /\ 0 + 1 = 1
    BY HolesStep
  <2>2. F[0 + 1] = <<>> /\ G[0 + 1] # <<>>
    BY <1>5
  <2>3. Holes(G, 0 + 1) = 0 /\ Holes(F, 0 + 1) = 1
    BY <2>1, <2>2, HolesStep
  <2>4. QED
    BY <1>5, <2>3
<1>6. ASSUME i # 0 PROVE Holes(G, i + 1) = Holes(F, i + 1) /\ Holes(F, i + 1) \in Nat
  <2> DEFINE m == i - 1
  <2>1. m \in Nat /\ m \in 0..Retention /\ m + 1 = i
        /\ \A k \in 1..m : k \in 0..Retention /\ k # i /\ k # i + 1
    BY <1>1, <1>6
  <2> HIDE DEF m
  <2>2. Holes(G, m) = Holes(F, m) /\ Holes(F, m) \in Nat
    BY <2>1, HolesSame, HolesOfFiles
  <2>3. /\ Holes(G, i) = Holes(F, m) + 1
        /\ F[i] = <<>> => Holes(F, i) = Holes(F, m) + 1
        /\ F[i] # <<>> => Holes(F, i) = Holes(F, m)
    BY <2>1, <2>2, HolesStep
  <2>4. /\ Holes(F, i) \in Nat /\ Holes(G, i) \in Nat
        /\ Holes(F, i + 1) = Holes(F, i) + 1
        /\ F[i] = <<>> => Holes(G, i + 1) = Holes(G, i) + 1
        /\ F[i] # <<>> => Holes(G, i + 1) = Holes(G, i)
    BY <1>1, HolesStep
  <2>5. QED
    BY <2>2, <2>3, <2>4
<1>7. QED
  BY <1>2, <1>3, <1>4, <1>5, <1>6

LEMMA HolesShifted ==
    ASSUME AuditAssumption, IInv, [Next]_vars, NEW t \in Thread, Shift(t)
    PROVE  FewHoles'
<1> DEFINE i == call[t].index
<1>1. /\ Retention \in Nat \ {0} /\ interrupted \in Nat
      /\ pc \in [Thread -> {"idle", "lock", "oldest", "shift", "line", "mode", "note"}]
      /\ call \in [Thread -> [record : Record \cup {None}, index : 0..Retention]]
  BY DEF IInv, TypeOK, AuditAssumption
<1>2. /\ pc[t] = "shift"
      /\ pc' = [pc EXCEPT ![t] = IF i = 0 THEN "line" ELSE "shift"]
      /\ call' = [call EXCEPT ![t].index = IF @ = 0 THEN 0 ELSE @ - 1]
      /\ interrupted' = interrupted /\ written' = written
  BY DEF Shift, Go, ghosts
<1>3. /\ i \in 0..(Retention - 1) /\ files[i + 1] = <<>>
      /\ files'[i + 1] = files[i] /\ files'[i] = <<>>
      /\ \A j \in 0..Retention : j # i /\ j # i + 1 => files'[j] = files[j]
      /\ Loaded' = Loaded
  BY ShiftStep DEF IInv
<1>4. \A u \in Thread : u # t => pc[u] # "shift"
  BY <1>2, OneInside DEF IInv, Inside
<1>5. files[0] # <<>>
  <2>1. Len(files[0]) = MaxLines /\ MaxLines # 0
    BY <1>2 DEF IInv, Rotation, AuditAssumption
  <2>2. QED
    BY <2>1
<1>6. call'[t].index = IF i = 0 THEN 0 ELSE i - 1
  BY <1>1, <1>2
<1>7. ASSUME NEW j \in 1..Retention
      PROVE  /\ Owed(j) = IF i < j THEN interrupted + 1 ELSE interrupted
             /\ i = 0 => Owed(j)' = interrupted
             /\ i # 0 => Owed(j)' = IF i - 1 < j THEN interrupted + 1 ELSE interrupted
  <2>1. Moving(j) <=> i < j
    BY <1>2, <1>4 DEF Moving
  <2>2. \A u \in Thread : pc'[u] = "shift" <=> u = t /\ i # 0
    BY <1>1, <1>2, <1>4
  <2>3. Moving(j)' <=> i # 0 /\ call'[t].index < j
    BY <2>2 DEF Moving
  <2> HIDE DEF i
  <2>4. QED
    BY <1>2, <1>6, <2>1, <2>3 DEF Owed
<1>8. ASSUME NEW j \in 1..Retention, Reached(j)
      PROVE  Holes(files, j) <= Owed(j)
  BY <1>8 DEF IInv, FewHoles
<1> HIDE DEF i
<1>9. ASSUME NEW j \in 1..Retention, Reached(j)'
      PROVE  Holes(files', j) <= Owed(j)'
  <2>1. Retention \in Nat /\ i \in Nat /\ j \in Nat /\ j \in 0..Retention
    BY <1>1, <1>3
  <2>2. Holes(files, j) \in Nat /\ Holes(files', j) \in Nat
    BY <2>1, HolesOfFiles
  <2>3. /\ j < i => Holes(files', j) = Holes(files, j)
        /\ j > i /\ i # 0 => Holes(files', j) = Holes(files, j)
        /\ j > i /\ i = 0 => Holes(files', j) = Holes(files, j) - 1
    BY <1>3, <1>5, HolesMoved
  <2>4. j # i
    BY <1>1, <1>3, <1>9 DEF Reached
  <2>5. ASSUME j # i + 1 PROVE Reached(j)
    BY <1>2, <1>3, <1>9, <2>1, <2>4, <2>5 DEF Reached
  <2>6. CASE Reached(j)
    <3>1. Holes(files, j) <= Owed(j)
      BY <1>8, <2>6
    <3>2. CASE j < i
      BY <1>1, <1>7, <2>1, <2>2, <2>3, <3>1, <3>2
    <3>3. CASE j > i
      BY <1>1, <1>7, <2>1, <2>2, <2>3, <3>1, <3>3
    <3>4. QED
      BY <2>1, <2>4, <3>2, <3>3
  <2>7. CASE j = i + 1 /\ ~Reached(j)
    <3>1. files[i] # <<>>
      BY <1>2, <1>3, <1>9, <2>7 DEF Reached
    <3>2. CASE i = 0
      <4>1. Holes(files, 0) = 0 /\ Holes(files, 0 + 1) = 1
        BY <1>3, <3>2, HolesStep
      <4>2. QED
        BY <1>1, <1>7, <2>2, <2>3, <2>7, <3>2, <4>1
    <3>3. CASE i # 0
      <4>1. i \in 1..Retention /\ i \in 0..Retention
        BY <1>1, <1>3, <3>3
      <4>2. Reached(i)
        BY <3>1 DEF Reached
      <4>3. Holes(files, i) <= interrupted
        BY <1>7, <1>8, <2>1, <4>1, <4>2
      <4>4. Holes(files, j) = Holes(files, i) + 1 /\ Holes(files, i) \in Nat
        BY <1>3, <2>1, <2>7, HolesStep
      <4>5. Holes(files', j) = Holes(files, j) /\ Owed(j)' = interrupted + 1
        BY <1>7, <2>1, <2>3, <2>7, <3>3
      <4>6. QED
        BY <1>1, <2>2, <4>3, <4>4, <4>5
    <3>4. QED
      BY <3>2, <3>3
  <2>8. QED
    BY <2>5, <2>6, <2>7
<1>10. QED
  BY <1>9 DEF FewHoles

LEMMA FewHolesStep ==
    ASSUME AuditAssumption, IInv, [Next]_vars
    PROVE  FewHoles'
<1>1. CASE \E t \in Thread : DropOldest(t)
  BY <1>1, HolesDropped
<1>2. CASE \E t \in Thread : Shift(t)
  BY <1>2, HolesShifted
<1>3. CASE Quiet /\ \A t \in Thread : ~Shift(t)
  <2>1. Loaded' = Loaded /\ files' = files /\ written' = written
    BY <1>3, QuietIsRead DEF Quiet
  <2>2. QED
    BY <1>3, <2>1, HolesStay
<1>4. ASSUME NEW t \in Thread, NEW x \in Record \cup {Torn}, WritesAt(t, x) PROVE FewHoles'
  <2>1. \A u \in Thread : ~Shift(u)
    <3>1. \A u \in Thread : pc[u] # "shift"
      BY <1>4, OneInside DEF IInv, Inside, WritesAt
    <3>2. QED
      BY <3>1 DEF Shift, Go
  <2>2. Loaded \in Seq(Line) /\ written \in Seq(Line) /\ x \in Line /\ Written(x) \in Line
    BY LoadedIsSeq DEF IInv, TypeOK, Files, Line, Written
  <2>3. /\ \A i \in 1..Retention : files'[i] = files[i]
        /\ \/ /\ Loaded' = Append(Loaded, x)
              /\ written' = Append(written, x)
           \/ /\ Loaded # <<>> /\ written # <<>>
              /\ Loaded' = Mended(Loaded, Written(x))
              /\ written' = Mended(written, Written(x))
    BY <1>4, WriteStep DEF IInv, WritesAt
  <2>4. /\ Len(Loaded) \in Nat /\ Len(written) \in Nat
        /\ \/ Len(Loaded') = Len(Loaded) + 1 /\ Len(written') = Len(written) + 1
           \/ Len(Loaded') = Len(Loaded) /\ Len(written') = Len(written)
    <3>1. CASE Loaded' = Append(Loaded, x) /\ written' = Append(written, x)
      BY <2>2, <3>1
    <3>2. CASE /\ Loaded # <<>> /\ written # <<>>
               /\ Loaded' = Mended(Loaded, Written(x))
               /\ written' = Mended(written, Written(x))
      <4>1. Len(Mended(Loaded, Written(x))) = Len(Loaded)
        BY <2>2, <3>2, MendedIsSeq
      <4>2. Len(Mended(written, Written(x))) = Len(written)
        BY <2>2, <3>2, MendedIsSeq
      <4>3. Len(Loaded) \in Nat /\ Len(written) \in Nat
        BY <2>2
      <4>4. QED
        BY <3>2, <4>1, <4>2, <4>3
    <3>3. QED
      BY <2>3, <3>1, <3>2
  <2>5. Len(Loaded') < Len(written') => Len(Loaded) < Len(written)
    BY <2>4
  <2>6. QED
    BY <2>1, <2>3, <2>5, HolesStay
<1>5. QED
  BY <1>1, <1>2, <1>3, <1>4, WhoWrites
\* A line that is written spoils none but a fragment.
LEMMA WroteStep ==
    ASSUME AuditAssumption, IInv, [Next]_vars,
           NEW t \in Thread, NEW x \in Record \cup {Torn}, WritesAt(t, x)
    PROVE  /\ torn => torn'
           /\ x = Torn => torn'
           /\ written \in Seq(Line) /\ written' \in Seq(Line)
           /\ \A k \in DOMAIN written :
                  /\ k \in DOMAIN written'
                  /\ written[k] # Torn => written'[k] = written[k]
           /\ \A k \in DOMAIN written' :
                  \/ k \in DOMAIN written /\ written[k] = written'[k]
                  \/ written'[k] = x /\ k \notin DOMAIN written
                  \/ written'[k] \in {Torn, Junk} /\ torn
           /\ \/ \E k \in DOMAIN written' : written'[k] = x
              \/ \E k \in DOMAIN written' : written'[k] = Junk /\ torn
              \/ x = Torn
<1>1. /\ written \in Seq(Line) /\ written' \in Seq(Line) /\ Written(x) \in Line /\ x \in Line
      /\ torn' = (torn \/ x = Torn)
  BY SizedStep DEF IInv, TypeOK, WritesAt, Line, Written
<1>2. (torn => torn') /\ (x = Torn => torn')
  BY <1>1
<1>3. \/ written' = Append(written, x)
      \/ /\ written # <<>> /\ written[Len(written)] = Torn
         /\ written' = Mended(written, Written(x))
  BY WriteStep DEF IInv, WritesAt
<1>4. CASE written' = Append(written, x)
  <2>1. /\ DOMAIN written = 1..Len(written) /\ DOMAIN written' = 1..(Len(written) + 1)
        /\ Len(written) \in Nat
        /\ \A k \in 1..Len(written) : written'[k] = written[k]
        /\ written'[Len(written) + 1] = x
    BY <1>1, <1>4
  <2>2. Len(written) + 1 \in DOMAIN written' /\ Len(written) + 1 \notin DOMAIN written
        /\ \A k \in DOMAIN written' : k \in DOMAIN written \/ k = Len(written) + 1
    BY <2>1
  <2>3. \A k \in DOMAIN written : k \in DOMAIN written' /\ written'[k] = written[k]
    BY <2>1
  <2>4. QED
    BY <1>1, <1>2, <2>1, <2>2, <2>3
<1>5. CASE /\ written # <<>> /\ written[Len(written)] = Torn
           /\ written' = Mended(written, Written(x))
  <2>1. /\ Len(Mended(written, Written(x))) = Len(written) /\ Len(written) \in Nat \ {0}
        /\ \A k \in 1..Len(written) :
               Mended(written, Written(x))[k] = IF k = Len(written) THEN Written(x) ELSE written[k]
    BY <1>1, <1>5, MendedIsSeq
  <2>2. /\ DOMAIN written = 1..Len(written) /\ DOMAIN written' = DOMAIN written
        /\ Len(written) \in DOMAIN written /\ written'[Len(written)] = Written(x)
        /\ \A k \in DOMAIN written : k # Len(written) => written'[k] = written[k]
    BY <1>1, <1>5, <2>1
  <2>3. torn
    <3>1. Torn \notin Record
      BY DEF AuditAssumption
    <3>2. QED
      BY <1>5, <2>2, <3>1 DEF IInv, Trail
  <2>4. Written(x) \in {Torn, Junk} /\ (x # Torn => Written(x) = Junk)
    BY DEF Written
  <2>5. QED
    BY <1>1, <1>2, <1>5, <2>2, <2>3, <2>4
<1>6. QED
  BY <1>3, <1>4, <1>5

\* A step that writes leaves records given out, memory and answers alone.
LEMMA WritesOnly ==
    ASSUME AuditAssumption, IInv, [Next]_vars,
           NEW t \in Thread, NEW x \in Record \cup {Torn}, WritesAt(t, x)
    PROVE  x \in Record => x = call[t].record /\ x \in issued /\ \A k \in DOMAIN written : written[k] # x
<1>1. pc[t] = "line" /\ x \in {call[t].record, Torn} /\ Torn \notin Record
  BY DEF WritesAt, AuditAssumption
<1>2. QED
  BY <1>1 DEF IInv, Calls

\* Only a handler that begins adds to the records that were given out.
LEMMA IssuedStep ==
    ASSUME [Next]_vars
    PROVE  issued \subseteq issued'
<1>1. ASSUME NEW t \in Thread, Step(t) PROVE issued' = issued
  BY <1>1 DEF Step, Acquire, DropOldest, Shift, RotateFails, WriteLine, WriteFails, WriteTears,
     SetMode, ModeFails, Note, ghosts
<1>2. ASSUME NEW t \in Thread, NEW r \in Record, Start(t, r) PROVE issued \subseteq issued'
  BY <1>2 DEF Start
<1>3. CASE Crash \/ Boot \/ UNCHANGED vars
  BY <1>3 DEF Crash, Boot, vars, ghosts
<1>4. QED
  BY <1>1, <1>2, <1>3 DEF Next

LEMMA TornStep ==
    ASSUME AuditAssumption, IInv, [Next]_vars
    PROVE  torn => torn'
<1>1. ASSUME NEW t \in Thread, Step(t), torn PROVE torn'
  BY <1>1 DEF Step, Acquire, DropOldest, Shift, RotateFails, WriteLine, WriteFails, WriteTears,
     SetMode, ModeFails, Note, ghosts
<1>2. ASSUME NEW t \in Thread, NEW r \in Record, Start(t, r), torn PROVE torn'
  BY <1>2 DEF Start
<1>3. ASSUME Crash \/ Boot \/ UNCHANGED vars, torn PROVE torn'
  BY <1>3 DEF Crash, Boot, vars, ghosts
<1>4. QED
  BY <1>1, <1>2, <1>3 DEF Next

\* OnDisk after the step.
OnDiskThen(r) == \E k \in DOMAIN written' : written'[k] = r \/ (torn' /\ written'[k] = Junk)

LEMMA TrailIsKept ==
    ASSUME AuditAssumption, IInv, [Next]_vars
    PROVE  Trail' /\ \A r \in Record : OnDisk(r) => OnDiskThen(r)
<1>1. issued \subseteq issued' /\ (torn => torn') /\ Trail
  BY IssuedStep, TornStep DEF IInv
<1>2. Torn \notin Record /\ Junk \notin Record /\ Torn # Junk
  BY DEF AuditAssumption
<1>3. ASSUME written' = written
      PROVE  Trail' /\ \A r \in Record : OnDisk(r) => OnDiskThen(r)
  BY <1>1, <1>3 DEF Trail, OnDisk, OnDiskThen
<1>4. ASSUME NEW t \in Thread, NEW x \in Record \cup {Torn}, WritesAt(t, x)
      PROVE  Trail' /\ \A r \in Record : OnDisk(r) => OnDiskThen(r)
  <2>1. /\ x = Torn => torn'
        /\ \A k \in DOMAIN written :
               /\ k \in DOMAIN written'
               /\ written[k] # Torn => written'[k] = written[k]
        /\ \A k \in DOMAIN written' :
               \/ k \in DOMAIN written /\ written[k] = written'[k]
               \/ written'[k] = x /\ k \notin DOMAIN written
               \/ written'[k] \in {Torn, Junk} /\ torn
    BY <1>4, WroteStep
  <2>2. x \in Record => x \in issued /\ \A k \in DOMAIN written : written[k] # x
    BY <1>4, WritesOnly
  <2>3. ASSUME NEW k \in DOMAIN written'
        PROVE  (written'[k] \in Record => written'[k] \in issued') /\ (written'[k] \notin Record => torn')
    <3>1. CASE k \in DOMAIN written /\ written[k] = written'[k]
      BY <1>1, <3>1 DEF Trail
    <3>2. CASE written'[k] = x
      BY <1>1, <2>1, <2>2, <3>2
    <3>3. CASE written'[k] \in {Torn, Junk} /\ torn
      BY <1>1, <1>2, <3>3
    <3>4. QED
      BY <2>1, <3>1, <3>2, <3>3
  <2>4. \E n : \A k \in DOMAIN written' : k \notin DOMAIN written => k = n
    <3>1. \/ written' = Append(written, x)
          \/ /\ written # <<>> /\ written' = Mended(written, Written(x))
      BY <1>4, WriteStep DEF IInv, WritesAt
    <3>2. written \in Seq(Line) /\ x \in Line
      BY DEF IInv, TypeOK, Line
    <3>3. CASE written' = Append(written, x)
      BY <3>2, <3>3
    <3>4. CASE written' = Mended(written, Written(x))
      BY <3>2, <3>4 DEF Mended
    <3>5. QED
      BY <3>1, <3>3, <3>4
  <2>5. ASSUME NEW j \in DOMAIN written', NEW k \in DOMAIN written',
               written'[j] \in Record, written'[j] = written'[k]
        PROVE  j = k
    <3>1. CASE j \in DOMAIN written /\ k \in DOMAIN written
      <4>1. written[j] = written'[j] /\ written[k] = written'[k]
        BY <1>2, <2>1, <2>5, <3>1
      <4>2. QED
        BY <1>1, <2>5, <3>1, <4>1 DEF Trail
    <3>2. CASE j \notin DOMAIN written /\ k \notin DOMAIN written
      BY <2>4, <3>2
    <3>3. ASSUME NEW a \in DOMAIN written', NEW b \in DOMAIN written',
                 a \in DOMAIN written, b \notin DOMAIN written, written'[a] \in Record,
                 written'[a] = written'[b]
          PROVE  FALSE
      <4>1. written'[b] = x
        BY <1>2, <2>1, <3>3
      <4>2. written[a] = written'[a]
        BY <1>2, <2>1, <3>3
      <4>3. QED
        BY <2>2, <3>3, <4>1, <4>2
    <3>4. QED
      BY <2>5, <3>1, <3>2, <3>3
  <2>6. Trail'
    BY <2>3, <2>5 DEF Trail
  <2>7. ASSUME NEW r \in Record, OnDisk(r) PROVE OnDiskThen(r)
    <3>1. PICK k \in DOMAIN written : written[k] = r \/ (torn /\ written[k] = Junk)
      BY <2>7 DEF OnDisk
    <3>2. k \in DOMAIN written' /\ written'[k] = written[k]
      BY <1>2, <2>1, <2>7, <3>1
    <3>3. QED
      BY <1>1, <3>1, <3>2 DEF OnDiskThen
  <2>8. QED
    BY <2>6, <2>7
<1>5. ASSUME NEW t \in Thread, DropOldest(t) PROVE written' = written
  BY <1>5 DEF DropOldest, ghosts
<1>6. ASSUME NEW t \in Thread, Shift(t) PROVE written' = written
  BY <1>6 DEF Shift, ghosts
<1>7. QED
  BY <1>3, <1>4, <1>5, <1>6, WhoWrites DEF Quiet
\* A record that nobody is about to write stays off the disk.
LEMMA FreshStays ==
    ASSUME AuditAssumption, IInv, [Next]_vars, NEW r \in Record,
           \A k \in DOMAIN written : written[k] # r,
           \A t \in Thread : pc[t] = "line" => call[t].record # r
    PROVE  \A k \in DOMAIN written' : written'[k] # r
<1>1. CASE written' = written
  BY <1>1
<1>2. ASSUME NEW t \in Thread, NEW x \in Record \cup {Torn}, WritesAt(t, x)
      PROVE  \A k \in DOMAIN written' : written'[k] # r
  <2>1. r \notin {Torn, Junk} /\ x # r
    BY <1>2 DEF WritesAt, AuditAssumption
  <2>2. \A k \in DOMAIN written' :
            \/ k \in DOMAIN written /\ written[k] = written'[k]
            \/ written'[k] = x /\ k \notin DOMAIN written
            \/ written'[k] \in {Torn, Junk} /\ torn
    BY <1>2, WroteStep
  <2>3. QED
    BY <2>1, <2>2
<1>3. ASSUME NEW t \in Thread, DropOldest(t) PROVE written' = written
  BY <1>3 DEF DropOldest, ghosts
<1>4. ASSUME NEW t \in Thread, Shift(t) PROVE written' = written
  BY <1>4 DEF Shift, ghosts
<1>5. QED
  BY <1>1, <1>2, <1>3, <1>4, WhoWrites DEF Quiet

Early == {"lock", "oldest", "shift", "line"}

\* What becomes of the handlers' records, and of memory, when t takes a step.
LEMMA HandlerStep ==
    ASSUME AuditAssumption, IInv, NEW t \in Thread, Step(t)
    PROVE  /\ pc[t] # "idle"
           /\ \A u \in Thread :
                  pc'[u] # "idle" => pc[u] # "idle" /\ call'[u].record = call[u].record
           /\ \A u \in Thread :
                  pc'[u] \in Early => pc[u] \in Early /\ (pc[u] = "line" => written' = written)
           /\ \A u \in Thread :
                  pc'[u] \in {"mode", "note"} => pc[u] \in {"mode", "note"} \/ (u = t /\ WriteLine(t))
           /\ issued' = issued
           /\ \/ memory' = memory /\ answered' = answered
              \/ Note(t)
<1>1. /\ pc \in [Thread -> {"idle", "lock", "oldest", "shift", "line", "mode", "note"}]
      /\ call \in [Thread -> [record : Record \cup {None}, index : 0..Retention]]
  BY DEF IInv, TypeOK
<1> DEFINE P(q) ==
        /\ pc[t] # "idle"
        /\ \A u \in Thread :
               pc'[u] # "idle" => pc[u] # "idle" /\ call'[u].record = call[u].record
        /\ \A u \in Thread : u # t => pc'[u] = pc[u]
        /\ pc'[t] = q
<1>2. ASSUME NEW q, pc[t] # "idle", pc' = [pc EXCEPT ![t] = q], call' = call PROVE P(q)
  BY <1>1, <1>2
<1>3. ASSUME pc[t] # "idle", Leave(t) PROVE P("idle")
  BY <1>1, <1>3 DEF Leave
<1>4. ASSUME pc[t] \in Inside PROVE \A u \in Thread : pc[u] = "line" => u = t
  BY <1>4, OneInside DEF IInv, Inside
<1>5. CASE Acquire(t)
  <2>1. PICK q \in {"oldest", "line"} : pc' = [pc EXCEPT ![t] = q]
    BY <1>5 DEF Acquire, Go
  <2>2. pc[t] = "lock" /\ call' = call /\ UNCHANGED <<memory, ghosts>>
    BY <1>5 DEF Acquire, Go
  <2>3. P(q)
    BY <1>2, <2>1, <2>2
  <2>4. QED
    BY <2>1, <2>2, <2>3 DEF Early, ghosts
<1>6. CASE DropOldest(t) \/ Shift(t)
  <2>1. /\ pc[t] \in {"oldest", "shift"}
        /\ \E q \in {"shift", "line"} : pc' = [pc EXCEPT ![t] = q]
        /\ \E i : call' = [call EXCEPT ![t].index = i]
        /\ UNCHANGED <<memory, ghosts>>
    BY <1>1, <1>6 DEF DropOldest, Shift, Go
  <2>2. PICK q \in {"shift", "line"} : pc' = [pc EXCEPT ![t] = q]
    BY <2>1
  <2>3. P(q)
    BY <1>1, <2>1, <2>2
  <2>4. QED
    BY <2>1, <2>2, <2>3 DEF Early, ghosts
<1>7. CASE WriteLine(t)
  <2>1. /\ pc[t] = "line" /\ pc' = [pc EXCEPT ![t] = "mode"] /\ call' = call
        /\ UNCHANGED <<memory, issued, answered>>
    BY <1>7 DEF WriteLine, Go
  <2>2. P("mode")
    BY <1>2, <2>1
  <2>3. QED
    BY <1>4, <1>7, <2>1, <2>2 DEF Early, Inside
<1>8. CASE SetMode(t)
  <2>1. /\ pc[t] = "mode" /\ pc' = [pc EXCEPT ![t] = "note"] /\ call' = call
        /\ UNCHANGED <<memory, ghosts>>
    BY <1>8 DEF SetMode, Go
  <2>2. P("note")
    BY <1>2, <2>1
  <2>3. QED
    BY <2>1, <2>2 DEF Early, ghosts
<1>9. CASE RotateFails(t) \/ WriteFails(t) \/ WriteTears(t) \/ ModeFails(t)
  <2>1. /\ pc[t] \in Inside /\ Leave(t) /\ UNCHANGED <<memory, issued, answered>>
    BY <1>9 DEF RotateFails, WriteFails, WriteTears, ModeFails, Inside, ghosts
  <2>2. P("idle")
    BY <1>3, <2>1 DEF Inside
  <2>3. QED
    BY <1>4, <2>1, <2>2 DEF Early
<1>10. CASE Note(t)
  <2>1. pc[t] = "note" /\ Leave(t) /\ issued' = issued /\ written' = written
    BY <1>10 DEF Note
  <2>2. P("idle")
    BY <1>3, <2>1
  <2>3. QED
    BY <1>10, <2>1, <2>2 DEF Early
<1>11. QED
  BY <1>5, <1>6, <1>7, <1>8, <1>9, <1>10 DEF Step

\* What one handler adds is its own, and was written.
LEMMA NoteStep ==
    ASSUME AuditAssumption, IInv, [Next]_vars, NEW t \in Thread, Note(t)
    PROVE  /\ Shown'
           /\ \A u \in Thread : pc'[u] # "idle" =>
                  \A k \in DOMAIN memory' : memory'[k] # call[u].record
<1> DEFINE r == call[t].record
<1>1. /\ pc[t] = "note" /\ memory' = Append(memory, r) /\ answered' = answered \cup {r}
      /\ issued' = issued /\ pc' = [pc EXCEPT ![t] = "idle"]
  BY DEF Note, Leave
<1>2. /\ r \in issued /\ OnDisk(r) /\ \A k \in DOMAIN memory : memory[k] # r
      /\ \A u \in Thread : u # t /\ pc[u] # "idle" =>
             r # call[u].record /\ \A k \in DOMAIN memory : memory[k] # call[u].record
  BY <1>1 DEF IInv, Calls
<1>3. issued \subseteq Record /\ memory \in Seq(Record) /\ answered \subseteq issued
      /\ pc \in [Thread -> {"idle", "lock", "oldest", "shift", "line", "mode", "note"}]
  BY DEF IInv, TypeOK
<1>4. Shown
  BY DEF IInv
<1>5. \A q \in Record : OnDisk(q) => OnDiskThen(q)
  BY TrailIsKept
<1> HIDE DEF r
<1>6. /\ \A k \in DOMAIN memory : k \in DOMAIN memory' /\ memory'[k] = memory[k]
      /\ \E n : /\ memory'[n] = r
                /\ \A k \in DOMAIN memory' : k \in DOMAIN memory \/ k = n
  <2>1. /\ DOMAIN memory = 1..Len(memory) /\ DOMAIN memory' = 1..(Len(memory) + 1)
        /\ Len(memory) \in Nat /\ memory'[Len(memory) + 1] = r
        /\ \A k \in 1..Len(memory) : memory'[k] = memory[k]
    BY <1>1, <1>2, <1>3
  <2>2. \A k \in 1..(Len(memory) + 1) : k \in 1..Len(memory) \/ k = Len(memory) + 1
    BY <2>1
  <2>3. \A k \in 1..Len(memory) : k \in 1..(Len(memory) + 1)
    BY <2>1
  <2>4. QED
    BY <2>1, <2>2, <2>3
<1>7. \A k \in DOMAIN memory' : memory'[k] = r \/ (k \in DOMAIN memory /\ memory'[k] = memory[k])
  BY <1>6
<1>8. \A k \in DOMAIN memory' : memory'[k] \in issued' /\ OnDiskThen(memory'[k])
  <2> SUFFICES ASSUME NEW k \in DOMAIN memory'
               PROVE  memory'[k] \in issued /\ OnDiskThen(memory'[k])
    BY <1>1
  <2>1. memory'[k] \in issued /\ OnDisk(memory'[k])
    BY <1>2, <1>4, <1>7 DEF Shown
  <2> DEFINE q == memory'[k]
  <2> HIDE DEF q
  <2>2. q \in Record /\ OnDisk(q)
    BY <1>3, <2>1 DEF q
  <2>3. OnDiskThen(q)
    BY <1>5, <2>2
  <2>4. QED
    BY <2>1, <2>3 DEF q
<1>9. \A j, k \in DOMAIN memory' : memory'[j] = memory'[k] => j = k
  BY <1>2, <1>4, <1>6 DEF Shown
<1>10. \A q \in answered' : OnDiskThen(q)
  BY <1>1, <1>2, <1>3, <1>4, <1>5 DEF Shown
<1>11. Shown'
  BY <1>8, <1>9, <1>10 DEF Shown, OnDisk, OnDiskThen
<1>12. \A u \in Thread : pc'[u] # "idle" => u # t /\ pc[u] # "idle"
  BY <1>1, <1>3
<1>13. QED
  BY <1>2, <1>7, <1>11, <1>12

\* What is read when the server starts was written, and comes once.
LEMMA BootStep ==
    ASSUME AuditAssumption, IInv, [Next]_vars, Boot
    PROVE  Shown' /\ \A u \in Thread : pc'[u] = "idle"
<1>1. /\ memory' = Loaded /\ UNCHANGED <<handler, ghosts>> /\ Loadable /\ ~up
  BY DEF Boot
<1>2. \A u \in Thread : pc'[u] = "idle"
  BY <1>1 DEF IInv, Rotation, handler
<1>3. Loaded \in Seq(Line) /\ written \in Seq(Line) /\ EndOf(Loaded, written)
  BY LoadedIsSeq DEF IInv, TypeOK, Files
<1>4. ASSUME NEW k \in DOMAIN Loaded PROVE Loaded[k] \in issued /\ OnDisk(Loaded[k])
  <2>1. /\ Len(Loaded) \in Nat /\ Len(written) \in Nat /\ k \in 1..Len(Loaded)
        /\ DOMAIN written = 1..Len(written) /\ Len(Loaded) <= Len(written)
    BY <1>3, <1>4 DEF EndOf
  <2>2. Len(written) - Len(Loaded) + k \in DOMAIN written
    BY <2>1
  <2>3. Loaded[k] = written[Len(written) - Len(Loaded) + k]
    BY <1>3, <2>1 DEF EndOf
  <2>4. Loaded[k] \in Record
    BY <1>1 DEF Loadable
  <2>5. QED
    BY <2>2, <2>3, <2>4 DEF OnDisk, IInv, Trail
<1>5. Shown
  BY DEF IInv
<1>6. \A j, k \in DOMAIN Loaded : Loaded[j] = Loaded[k] => j = k
  BY <1>1 DEF Loadable
<1> DEFINE l == Loaded
<1> HIDE DEF l
<1>7. /\ memory' = l /\ answered' = answered /\ issued' = issued /\ written' = written /\ torn' = torn
  BY <1>1 DEF ghosts, l
<1>8. /\ \A k \in DOMAIN l : l[k] \in issued /\ OnDisk(l[k])
      /\ \A j, k \in DOMAIN l : l[j] = l[k] => j = k
  BY <1>4, <1>6 DEF l
<1>9. Shown'
  BY <1>5, <1>7, <1>8 DEF Shown, OnDisk, OnDiskThen
<1>10. QED
  BY <1>2, <1>9

LEMMA ShownStep ==
    ASSUME AuditAssumption, IInv, [Next]_vars
    PROVE  Shown'
<1>1. ASSUME memory' = memory, answered' = answered PROVE Shown'
  <2>1. /\ issued \subseteq issued' /\ \A q \in Record : OnDisk(q) => OnDiskThen(q)
        /\ issued \subseteq Record /\ answered \subseteq issued /\ Shown
    BY IssuedStep, TrailIsKept DEF IInv, TypeOK
  <2>2. ASSUME NEW k \in DOMAIN memory PROVE memory[k] \in issued' /\ OnDiskThen(memory[k])
    <3> DEFINE q == memory[k]
    <3>1. q \in issued /\ q \in Record /\ OnDisk(q)
      BY <2>1 DEF Shown
    <3> HIDE DEF q
    <3>2. q \in issued' /\ OnDiskThen(q)
      BY <2>1, <3>1
    <3>3. QED
      BY <1>1, <3>2 DEF q
  <2>3. \A q \in answered : OnDiskThen(q)
    BY <2>1 DEF Shown
  <2>4. QED
    BY <1>1, <2>1, <2>2, <2>3 DEF Shown, OnDisk, OnDiskThen
<1>2. CASE Crash
  <2>1. memory' = <<>> /\ answered' = answered
    BY <1>2 DEF Crash
  <2>2. \A q \in answered : OnDiskThen(q)
    BY TrailIsKept DEF IInv, TypeOK, Shown
  <2>3. DOMAIN memory' = {}
    BY <2>1
  <2>4. QED
    BY <2>1, <2>2, <2>3 DEF Shown, OnDisk, OnDiskThen
<1>3. ASSUME NEW t \in Thread, Step(t) PROVE Shown'
  BY <1>1, <1>3, HandlerStep, NoteStep
<1>4. ASSUME NEW t \in Thread, NEW r \in Record, Start(t, r) PROVE Shown'
  BY <1>1, <1>4 DEF Start
<1>5. CASE Boot
  BY <1>5, BootStep
<1>6. CASE UNCHANGED vars
  BY <1>1, <1>6 DEF vars, ghosts
<1>7. QED
  BY <1>2, <1>3, <1>4, <1>5, <1>6 DEF Next

LEMMA CallsStep ==
    ASSUME AuditAssumption, IInv, [Next]_vars
    PROVE  Calls'
<1>1. /\ issued \subseteq issued' /\ issued \subseteq Record
      /\ \A q \in Record : OnDisk(q) => OnDiskThen(q)
  BY IssuedStep, TrailIsKept DEF IInv, TypeOK
<1>2. /\ \A t \in Thread : pc[t] # "idle" =>
             /\ call[t].record \in issued
             /\ \A k \in DOMAIN memory : memory[k] # call[t].record
             /\ pc[t] \in Early => \A k \in DOMAIN written : written[k] # call[t].record
             /\ pc[t] \in {"mode", "note"} => OnDisk(call[t].record)
      /\ \A t, u \in Thread : pc[t] # "idle" /\ pc[u] # "idle" /\ t # u =>
             call[t].record # call[u].record
  BY DEF IInv, Calls, Early
<1> DEFINE H == /\ \A u \in Thread :
                       pc'[u] # "idle" =>
                           /\ call'[u].record \in issued'
                           /\ \A k \in DOMAIN memory' : memory'[k] # call'[u].record
                           /\ pc'[u] \in Early => \A k \in DOMAIN written' : written'[k] # call'[u].record
                           /\ pc'[u] \in {"mode", "note"} => OnDiskThen(call'[u].record)
                /\ \A t, u \in Thread : pc'[t] # "idle" /\ pc'[u] # "idle" /\ t # u =>
                       call'[t].record # call'[u].record
<1>3. H => Calls'
  BY DEF Calls, Early, OnDisk, OnDiskThen
<1>4. ASSUME \A u \in Thread : pc'[u] = "idle" PROVE H
  BY <1>4 DEF Early
<1>5. ASSUME NEW t \in Thread, Step(t) PROVE H
  <2>1. /\ \A u \in Thread : pc'[u] # "idle" => pc[u] # "idle" /\ call'[u].record = call[u].record
        /\ \A u \in Thread :
               pc'[u] \in Early => pc[u] \in Early /\ (pc[u] = "line" => written' = written)
        /\ \A u \in Thread :
               pc'[u] \in {"mode", "note"} => pc[u] \in {"mode", "note"} \/ (u = t /\ WriteLine(t))
        /\ memory' = memory \/ Note(t)
    BY <1>5, HandlerStep
  <2>2. ASSUME NEW u \in Thread, pc'[u] # "idle"
        PROVE  /\ call'[u].record \in issued'
               /\ \A k \in DOMAIN memory' : memory'[k] # call'[u].record
               /\ pc'[u] \in Early => \A k \in DOMAIN written' : written'[k] # call'[u].record
               /\ pc'[u] \in {"mode", "note"} => OnDiskThen(call'[u].record)
    <3> DEFINE r == call[u].record
    <3>1. pc[u] # "idle" /\ call'[u].record = r /\ r \in issued /\ r \in Record
      BY <1>1, <1>2, <2>1, <2>2
    <3>2. \A k \in DOMAIN memory' : memory'[k] # r
      <4>1. CASE memory' = memory
        BY <1>2, <3>1, <4>1
      <4>2. CASE Note(t)
        BY <2>2, <4>2, NoteStep
      <4>3. QED
        BY <2>1, <4>1, <4>2
    <3>3. ASSUME pc'[u] \in Early PROVE \A k \in DOMAIN written' : written'[k] # r
      <4>1. pc[u] \in Early /\ (pc[u] = "line" => written' = written)
        BY <2>1, <3>3
      <4>2. \A k \in DOMAIN written : written[k] # r
        BY <1>2, <4>1 DEF Early
      <4>3. CASE pc[u] = "line"
        BY <4>1, <4>2, <4>3
      <4>4. CASE pc[u] # "line"
        <5>1. \A v \in Thread : pc[v] = "line" => call[v].record # r
          BY <1>2, <3>1, <4>4
        <5> HIDE DEF r
        <5>2. QED
          BY <3>1, <4>2, <5>1, FreshStays
      <4>5. QED
        BY <4>3, <4>4
    <3>4. ASSUME pc'[u] \in {"mode", "note"} PROVE OnDiskThen(r)
      <4>1. CASE pc[u] \in {"mode", "note"}
        <5>1. OnDisk(r)
          BY <1>2, <4>1
        <5> HIDE DEF r
        <5>2. QED
          BY <1>1, <3>1, <5>1
      <4>2. CASE u = t /\ WriteLine(t)
        <5>1. pc[t] = "line" /\ Writes(r) /\ torn' = torn
          BY <4>2 DEF WriteLine, Writes, Go
        <5>2. torn \in BOOLEAN /\ r # Torn
          BY <3>1 DEF IInv, TypeOK, AuditAssumption
        <5>3. WritesAt(t, r)
          BY <4>2, <5>1, <5>2 DEF WritesAt
        <5> HIDE DEF r
        <5>4. \/ \E k \in DOMAIN written' : written'[k] = r
              \/ \E k \in DOMAIN written' : written'[k] = Junk /\ torn
          BY <3>1, <5>2, <5>3, WroteStep
        <5>5. QED
          BY <5>1, <5>4 DEF OnDiskThen
      <4>3. QED
        BY <2>1, <3>4, <4>1, <4>2
    <3>5. OnDiskThen(r) <=> OnDiskThen(call'[u].record)
      BY <3>1
    <3> HIDE DEF r
    <3>6. QED
      BY <1>1, <3>1, <3>2, <3>3, <3>4, <3>5
  <2>3. \A v, u \in Thread : pc'[v] # "idle" /\ pc'[u] # "idle" /\ v # u =>
            call'[v].record # call'[u].record
    BY <1>2, <2>1
  <2>4. QED
    BY <2>2, <2>3
<1>6. ASSUME NEW t \in Thread, NEW r \in Record, Start(t, r) PROVE H
  <2>1. /\ r \notin issued /\ issued' = issued \cup {r} /\ pc' = [pc EXCEPT ![t] = "lock"]
        /\ call' = [call EXCEPT ![t].record = r]
        /\ UNCHANGED <<memory, written, torn>>
    BY <1>6 DEF Start, Go
  <2>2. /\ pc \in [Thread -> {"idle", "lock", "oldest", "shift", "line", "mode", "note"}]
        /\ call \in [Thread -> [record : Record \cup {None}, index : 0..Retention]]
    BY DEF IInv, TypeOK
  <2>3. /\ pc'[t] = "lock" /\ call'[t].record = r
        /\ \A u \in Thread : u # t => pc'[u] = pc[u] /\ call'[u].record = call[u].record
    BY <2>1, <2>2
  <2>4. \A k \in DOMAIN memory : memory[k] # r
    BY <2>1 DEF IInv, Shown
  <2>5. \A k \in DOMAIN written : written[k] # r
    BY <2>1 DEF IInv, Trail
  <2>6. \A u \in Thread : u # t => OnDisk(call[u].record) = OnDiskThen(call'[u].record)
    BY <2>1, <2>3 DEF OnDisk, OnDiskThen
  <2>7. QED
    BY <1>2, <2>1, <2>3, <2>4, <2>5, <2>6 DEF Early
<1>7. CASE Crash
  <2>1. \A u \in Thread : pc'[u] = "idle"
    BY <1>7 DEF Crash
  <2> HIDE DEF H
  <2>2. QED
    BY <1>3, <1>4, <2>1
<1>8. CASE Boot
  <2>1. \A u \in Thread : pc'[u] = "idle"
    BY <1>8, BootStep
  <2> HIDE DEF H
  <2>2. QED
    BY <1>3, <1>4, <2>1
<1>9. CASE UNCHANGED vars
  BY <1>9 DEF IInv, Calls, OnDisk, OnDiskThen, vars, handler, ghosts
<1> HIDE DEF H
<1>10. QED
  BY <1>3, <1>4, <1>5, <1>6, <1>7, <1>8, <1>9 DEF Next

LEMMA InitLoaded ==
    ASSUME AuditAssumption, Init
    PROVE  Loaded = <<>>
<1> DEFINE C == {i \in 0..Retention : Read(files)[i] = <<>>}
<1>1. Retention \in Nat /\ Retention \in 0..Retention /\ \A i \in 0..Retention : files[i] = <<>>
  BY DEF Init, AuditAssumption
<1>2. 0 \in C
  BY <1>1, ReadStep
<1>3. ASSUME NEW i \in 0..Retention, i \in C, i + 1 <= Retention PROVE i + 1 \in C
  <2>1. i + 1 \in 1..Retention /\ i + 1 \in 0..Retention /\ i + 1 - 1 = i
    BY <1>1, <1>3
  <2>2. Read(files)[i + 1] = Cat(files[i + 1], Read(files)[i + 1 - 1]) /\ files[i + 1] = <<>>
    BY <1>1, <2>1, ReadStep
  <2>3. Cat(<<>>, <<>>) = <<>>
    <3>1. <<>> \in Seq(Line)
      OBVIOUS
    <3>2. QED
      BY <3>1, CatEmpty
  <2>4. QED
    BY <1>3, <2>1, <2>2, <2>3
<1> HIDE DEF C
<1>4. \A i \in 0..Retention : i \in C
  BY <1>1, <1>2, <1>3, UpTo
<1>5. QED
  BY <1>1, <1>4, LoadedIsRead DEF C

LEMMA InitIInv ==
    ASSUME AuditAssumption, Init
    PROVE  IInv
<1>1. /\ Retention \in Nat \ {0} /\ MaxLines \in Nat \ {0} /\ MaxInterrupts \in Nat
      /\ None \notin Thread /\ 0 \in 0..Retention /\ 0 \in 0..MaxInterrupts
  BY DEF AuditAssumption
<1>2. /\ files = [i \in 0..Retention |-> <<>>] /\ files \in Files
      /\ \A i \in 0..Retention : files[i] = <<>> /\ Len(files[i]) = 0
      /\ \A i \in 1..Retention : i \in 0..Retention
  BY <1>1 DEF Init, Files
<1>3. NoCall \in [record : Record \cup {None}, index : 0..Retention]
  BY <1>1 DEF NoCall
<1>4. \A t \in Thread : pc[t] = "idle"
  BY DEF Init
<1>5. TypeOK
  <2>1. lock = None /\ up = TRUE /\ memory = <<>> /\ written = <<>>
        /\ issued = {} /\ answered = {} /\ interrupted = 0 /\ torn = FALSE
        /\ pc = [t \in Thread |-> "idle"] /\ call = [t \in Thread |-> NoCall]
    BY DEF Init
  <2>2. <<>> \in Seq(Record) /\ <<>> \in Seq(Line)
    OBVIOUS
  <2>3. /\ pc \in [Thread -> {"idle", "lock", "oldest", "shift", "line", "mode", "note"}]
        /\ call \in [Thread -> [record : Record \cup {None}, index : 0..Retention]]
        /\ \A t \in Thread : lock = t <=> pc[t] \in {"oldest", "shift", "line", "mode"}
    BY <1>1, <1>3, <2>1
  <2>4. \A i \in 0..Retention : Len(files[i]) <= MaxLines
    BY <1>1, <1>2
  <2>5. QED
    BY <1>1, <1>2, <2>1, <2>2, <2>3, <2>4 DEF TypeOK, Files
<1>6. Rotation
  BY <1>2, <1>4 DEF Rotation, Full
<1>7. Loaded = <<>>
  BY InitLoaded
<1>8. EndOf(Loaded, written)
  BY <1>7 DEF EndOf, Init
<1>9. FewHoles
  BY <1>2, <1>7 DEF FewHoles, Reached, Init
<1>10. Trail /\ Shown /\ Calls
  BY <1>4 DEF Trail, Shown, Calls, OnDisk, Init
<1>11. QED
  BY <1>5, <1>6, <1>8, <1>9, <1>10 DEF IInv

LEMMA NextIInv ==
    ASSUME AuditAssumption, IInv, [Next]_vars
    PROVE  IInv'
<1>1. TypeOK'
  BY TypesStep
<1>2. Rotation'
  BY RotationStep
<1>3. EndOf(Loaded, written)'
  BY TrailStep
<1>4. FewHoles'
  BY FewHolesStep
<1>5. Trail'
  BY TrailIsKept
<1>6. Shown'
  BY ShownStep
<1>7. Calls'
  BY CallsStep
<1>8. QED
  BY <1>1, <1>2, <1>3, <1>4, <1>5, <1>6, <1>7 DEF IInv

-----------------------------------------------------------------------------
(* What the invariant says to a reader.                                    *)

LEMMA LinesAdd ==
    ASSUME AuditAssumption, NEW a \in Nat, NEW b \in Nat
    PROVE  Lines(a + b) = Lines(a) + Lines(b)
<1>1. MaxLines \in Nat
  BY DEF AuditAssumption
<1>2. (a + b) * MaxLines = a * MaxLines + b * MaxLines
  BY <1>1
<1>3. QED
  BY <1>2 DEF Lines

\* Once lines are gone, what is left fills all files but the holes that are owed.
LEMMA EnoughIsLeft ==
    ASSUME AuditAssumption, IInv, Len(Loaded) < Len(written)
    PROVE  Len(Loaded) >= Kept
<1>1. /\ Retention \in Nat \ {0} /\ MaxLines \in Nat \ {0} /\ interrupted \in Nat
      /\ files \in Files /\ Full(files) /\ 0 \in 0..Retention
  BY DEF IInv, TypeOK, Rotation, AuditAssumption, Files
<1> DEFINE h == Holes(files, Retention)
           f0 == Len(files[0])
           n == Len(Loaded)
<1>2. h \in Nat
  BY <1>1, HolesStep
<1>3. f0 \in Nat
  <2>1. files[0] \in Seq(Line)
    BY <1>1 DEF Files
  <2>2. QED
    BY <2>1
<1>4. n \in Nat /\ n + Lines(h) = f0 + Lines(Retention)
  BY <1>1, ReadLength, LoadedIsRead
<1>5. h <= interrupted \/ (h <= interrupted + 1 /\ f0 = MaxLines)
  <2>1. Reached(Retention) /\ Retention \in 1..Retention
    BY <1>1 DEF Reached
  <2>2. h <= Owed(Retention)
    BY <2>1 DEF IInv, FewHoles
  <2>3. Moving(Retention) => f0 = MaxLines
    BY DEF IInv, Rotation, Moving
  <2> HIDE DEF h, f0
  <2>4. QED
    BY <2>2, <2>3 DEF Owed
<1> HIDE DEF h, f0, n
<1>6. CASE interrupted >= Retention
  BY <1>4, <1>6 DEF Kept, n
<1>7. CASE ~(interrupted >= Retention)
  <2> DEFINE a == Retention - interrupted
  <2>1. a \in Nat /\ a + interrupted = Retention
    BY <1>1, <1>7
  <2>2. Kept = Lines(a)
    BY <1>7 DEF Kept, Lines
  <2> HIDE DEF a
  <2>3. Lines(Retention) = Lines(a) + Lines(interrupted) /\ Lines(a) \in Nat /\ Lines(interrupted) \in Nat
    BY <1>1, <2>1, LinesAdd, LinesStep
  <2>4. Lines(h) <= f0 + Lines(interrupted)
    <3>1. CASE h <= interrupted
      <4> DEFINE b == interrupted - h
      <4>1. b \in Nat /\ h + b = interrupted
        BY <1>1, <1>2, <3>1
      <4> HIDE DEF b
      <4>2. Lines(interrupted) = Lines(h) + Lines(b) /\ Lines(h) \in Nat /\ Lines(b) \in Nat
        BY <1>2, <4>1, LinesAdd, LinesStep
      <4>3. QED
        BY <1>3, <4>2
    <3>2. CASE h = interrupted + 1 /\ f0 = MaxLines
      <4>1. Lines(interrupted + 1) = Lines(interrupted) + MaxLines
        BY <1>1, LinesStep
      <4>2. Lines(h) = Lines(interrupted) + f0
        BY <3>2, <4>1
      <4>3. QED
        BY <1>3, <2>3, <4>2
    <3>3. QED
      BY <1>1, <1>2, <1>5, <3>1, <3>2
  <2>5. Lines(h) \in Nat
    BY <1>2, LinesStep
  <2>6. n >= Lines(a)
    BY <1>3, <1>4, <2>3, <2>4, <2>5
  <2>7. QED
    BY <2>2, <2>6 DEF n
<1>8. QED
  BY <1>6, <1>7

LEMMA IInvReads ==
    ASSUME AuditAssumption, IInv
    PROVE  ReadsTheTail
<1>1. Loaded \in Seq(Line) /\ written \in Seq(Line) /\ EndOf(Loaded, written)
  BY LoadedIsSeq DEF IInv, TypeOK, Files
<1>2. Len(Loaded) \in Nat /\ Len(written) \in Nat /\ Len(Loaded) <= Len(written)
  BY <1>1 DEF EndOf
<1>3. Loaded = SubSeq(written, Len(written) - Len(Loaded) + 1, Len(written))
  BY <1>1, EndIsSubSeq
<1>4. Len(written) - Len(Loaded) > 0 => Len(Loaded) >= Kept
  BY <1>2, EnoughIsLeft
<1>5. Len(written) - Len(Loaded) >= 0
  BY <1>2
<1>6. QED
  BY <1>3, <1>4, <1>5 DEF ReadsTheTail

LEMMA IInvAnswered ==
    ASSUME AuditAssumption, IInv
    PROVE  AnsweredIsRead
<1> SUFFICES ASSUME ~torn, NEW r \in answered
             PROVE  \/ \E k \in DOMAIN Loaded : Loaded[k] = r
                    \/ \E k \in DOMAIN written : written[k] = r /\ Len(written) - k >= Kept
  BY DEF AnsweredIsRead
<1>1. Loaded \in Seq(Line) /\ written \in Seq(Line) /\ EndOf(Loaded, written)
  BY LoadedIsSeq DEF IInv, TypeOK, Files
<1>2. PICK k \in DOMAIN written : written[k] = r
  BY DEF IInv, Shown, OnDisk
<1>3. /\ Len(Loaded) \in Nat /\ Len(written) \in Nat /\ Len(Loaded) <= Len(written)
      /\ DOMAIN Loaded = 1..Len(Loaded) /\ k \in 1..Len(written)
  BY <1>1, <1>2 DEF EndOf
<1>4. Kept \in Nat
  <2>1. Retention \in Nat /\ MaxLines \in Nat /\ interrupted \in Nat
    BY DEF IInv, TypeOK, AuditAssumption
  <2>2. CASE interrupted >= Retention
    BY <2>2 DEF Kept
  <2>3. CASE ~(interrupted >= Retention)
    <3> DEFINE a == Retention - interrupted
    <3>1. a \in Nat /\ Kept = Lines(a)
      BY <2>1, <2>3 DEF Kept, Lines
    <3> HIDE DEF a
    <3>2. QED
      BY <3>1, LinesStep
  <2>4. QED
    BY <2>2, <2>3
<1>5. CASE k > Len(written) - Len(Loaded)
  <2> DEFINE j == k - (Len(written) - Len(Loaded))
  <2>1. j \in 1..Len(Loaded) /\ Len(written) - Len(Loaded) + j = k
    BY <1>3, <1>5
  <2> HIDE DEF j
  <2>2. Loaded[j] = written[k]
    BY <1>1, <2>1 DEF EndOf
  <2>3. QED
    BY <1>2, <1>3, <2>1, <2>2
<1>6. CASE k <= Len(written) - Len(Loaded)
  <2>1. Len(Loaded) < Len(written)
    BY <1>3, <1>6
  <2>2. Len(Loaded) >= Kept
    BY <2>1, EnoughIsLeft
  <2>3. Len(written) - k >= Kept
    BY <1>3, <1>4, <1>6, <2>2
  <2>4. QED
    BY <1>2, <2>3
<1>7. QED
  BY <1>3, <1>5, <1>6

LEMMA IInvLoads ==
    ASSUME AuditAssumption, IInv
    PROVE  OnlyTornRefuses
<1> SUFFICES ASSUME ~torn PROVE Loadable
  BY DEF OnlyTornRefuses
<1>1. Loaded \in Seq(Line) /\ written \in Seq(Line) /\ EndOf(Loaded, written)
  BY LoadedIsSeq DEF IInv, TypeOK, Files
<1> DEFINE g == Len(written) - Len(Loaded)
<1>2. /\ Len(Loaded) \in Nat /\ Len(written) \in Nat /\ Len(Loaded) <= Len(written)
      /\ DOMAIN Loaded = 1..Len(Loaded) /\ DOMAIN written = 1..Len(written)
      /\ g \in Nat /\ g + Len(Loaded) = Len(written)
  <2>1. Len(Loaded) \in Nat /\ Len(written) \in Nat /\ Len(Loaded) <= Len(written)
    BY <1>1 DEF EndOf
  <2>2. QED
    BY <1>1, <2>1
<1>3. \A k \in 1..Len(Loaded) : Loaded[k] = written[g + k]
  BY <1>1 DEF EndOf
<1> HIDE DEF g
<1>4. \A k \in 1..Len(Loaded) : g + k \in 1..Len(written)
  BY <1>2
<1>5. /\ \A k \in 1..Len(written) : written[k] \in Record
      /\ \A j, k \in 1..Len(written) : written[j] = written[k] => j = k
  BY <1>2 DEF IInv, Trail
<1>6. ASSUME NEW j \in 1..Len(Loaded), NEW k \in 1..Len(Loaded), Loaded[j] = Loaded[k]
      PROVE  j = k
  <2>1. g + j = g + k
    BY <1>3, <1>4, <1>5, <1>6
  <2>2. QED
    BY <1>2, <2>1
<1>7. QED
  BY <1>2, <1>3, <1>4, <1>5, <1>6 DEF Loadable

LEMMA AlwaysIInv == Spec => []IInv
<1>1. Init => IInv
  BY InitIInv, AuditAssumption
<1>2. IInv /\ [Next]_vars => IInv'
  BY NextIInv, AuditAssumption
<1>3. QED
  BY <1>1, <1>2, PTL DEF Spec

\* The files never hold more than their lines, and one handler at a time is
\* between the locks: control_center/audit.py, JsonlAuditSink.write.
THEOREM TypeCorrect == Spec => []TypeOK
<1>1. IInv => TypeOK
  BY DEF IInv
<1>2. QED
  BY <1>1, AlwaysIInv, PTL

\* What JsonlAuditSink.read returns is the end of what was written, and misses
\* no more of it than the retention allows, wherever rotations have stopped.
THEOREM ReadsTheTailAlways == Spec => []ReadsTheTail
<1>1. IInv => ReadsTheTail
  BY IInvReads, AuditAssumption
<1>2. QED
  BY <1>1, AlwaysIInv, PTL

\* Until a write is torn, a record whose append has returned is read back
\* unless enough others were written after it.
THEOREM AnsweredIsReadAlways == Spec => []AnsweredIsRead
<1>1. IInv => AnsweredIsRead
  BY IInvAnswered, AuditAssumption
<1>2. QED
  BY <1>1, AlwaysIInv, PTL

\* What MetadataAuditLog shows was written before, and is shown once.
THEOREM ShownIsWrittenAlways == Spec => []ShownIsWritten
<1>1. IInv => ShownIsWritten
  BY DEF IInv, Shown, OnDisk, ShownIsWritten
<1>2. QED
  BY <1>1, AlwaysIInv, PTL

\* Only a torn write makes MetadataAuditLog.__init__ refuse the history; no step
\* of a rotation does.
THEOREM OnlyTornRefusesAlways == Spec => []OnlyTornRefuses
<1>1. IInv => OnlyTornRefuses
  BY IInvLoads, AuditAssumption
<1>2. QED
  BY <1>1, AlwaysIInv, PTL

\* The sink implements the trail: whatever the steps of a rotation and the
\* crashes between them, a reader sees lines added at the end, or the oldest
\* ones forgotten.
THEOREM Implements == Spec => ImplementsLedger
<1>1. Init => Ledger!Init
  BY InitLoaded, AuditAssumption DEF Ledger!Init
<1>2. IInv /\ [Next]_vars => [Ledger!Next]_Loaded
  BY TrailStep, AuditAssumption
<1>3. QED
  BY <1>1, <1>2, AlwaysIInv, PTL DEF Spec, ImplementsLedger, Ledger!Spec
=============================================================================
