------------------------- MODULE BackupArchivesProofs -------------------------
(***************************************************************************)
(* What BackupManager says of its backups, for any number of backups,      *)
(* destinations and handlers. A record lies in the dictionary, the file,   *)
(* the calls that work on it and the copies that are about to be stored;   *)
(* Good says of each what a single one must satisfy, relative to facts     *)
(* that only grow. That two backups never share an archive needs to know   *)
(* who has linked it before there is a record with its checksum (Claims).  *)
(***************************************************************************)
EXTENDS BackupArchives, TLAPS

Table  == Record \cup {NoRecord}
Tables == [Backup -> Table]
Jobs   == [backup : Backup \cup {None}, record : Table]
Asking == {"fail", "link", "digest", "check", "extract"}
Kept   == {"save", "swap"}
Steps  == {"idle", "copy"} \cup Asking \cup Kept

\* What a copy c of backup b satisfies, given the ghosts and the archives.
Good(b, c, iss, mat, ba, alt, arc) ==
    /\ c # NoRecord => b \in iss
    /\ c.state \in {"verified", "restore_tested"} => c.verified /\ (ba \/ b \in mat)
    /\ c.verified => c.state \in {"verified", "restore_tested", "blocked"}
    /\ c.restored <=> c.state = "restore_tested"
    /\ c.checksum # None /\ c.label \notin alt => arc[c.label] = c.checksum

Fine(b, c)     == Good(b, c, issued, matched, bare, altered, archive)
FineNext(b, c) == Good(b, c, issued', matched', bare', altered', archive')

\* What is true of the record of a handler at each step.
Doing(step, j) ==
    /\ step = "idle" => j = NoCall
    /\ step # "idle" => j.backup \in Backup /\ j.record \in Record
    /\ step \in {"fail", "link", "digest"} =>
           j.record.state = "prepared" /\ j.record.checksum = None
    /\ step = "check" => j.record.state \in {"prepared", "verified"}
    /\ step = "extract" => j.record.state = "verified"

Goods ==
    /\ provider = "none" => bare
    /\ \A b \in Backup : Fine(b, records[b]) /\ Fine(b, recordFile[b])
    /\ \A t \in Thread :
           /\ Doing(pc[t], call[t])
           /\ pc[t] # "idle" => Fine(call[t].backup, call[t].record)
           /\ pc[t] \in Kept => \A b \in Backup : Fine(b, draft[t][b])

\* Some copy of b says that it lies at the destination l.
At(c, l)    == c.checksum # None /\ c.label = l
Holds(b, l) ==
    \/ At(records[b], l) \/ At(recordFile[b], l)
    \/ \E t \in Thread : call[t].backup = b /\ At(call[t].record, l)
    \/ \E t \in Thread : pc[t] \in Kept /\ At(draft[t][b], l)

\* Handler t has linked the archive at l and has yet to say so.
Linked(t, l) == pc[t] = "digest" /\ call[t].record.label = l

Claims ==
    \A l \in Label \ altered :
        /\ \A a, b \in Backup : Holds(a, l) /\ Holds(b, l) => a = b
        /\ \A t \in Thread : Linked(t, l) =>
               /\ archive[l] # None
               /\ \A b \in Backup : Holds(b, l) => b = call[t].backup
               /\ \A u \in Thread : Linked(u, l) => call[u].backup = call[t].backup

IInv == TypeOK /\ Goods /\ Claims

\* A handler goes to another step with a call j and a copy d of the table.
Moves(t, step, j, d) ==
    /\ pc' = [pc EXCEPT ![t] = step]
    /\ call' = [call EXCEPT ![t] = j]
    /\ draft' = [draft EXCEPT ![t] = d]

\* What it stores is the copy it had.
Stores(t) ==
    /\ records' = records \/ (pc[t] \in Kept /\ records' = draft[t])
    /\ recordFile' = recordFile \/ (pc[t] \in Kept /\ recordFile' = draft[t])

\* The ghosts only grow.
Grows ==
    /\ issued \subseteq issued' /\ issued' \subseteq Backup
    /\ matched \subseteq matched' /\ matched' \subseteq Backup
    /\ altered' = altered /\ bare' = bare /\ provider' = provider
    /\ overlapped' \in BOOLEAN

\* An archive comes to be where there was none.
Links(t, step, j) ==
    IF step = "digest"
    THEN /\ j = call[t]
         /\ archive[j.record.label] = None
         /\ \E c \in Content : archive' = [archive EXCEPT ![j.record.label] = c]
    ELSE archive' = archive

\* The copies it takes along are good, and say of archives what others say, or
\* what it has just linked.
Sound(t, step, j, d) ==
    /\ Doing(step, j)
    /\ step # "idle" => FineNext(j.backup, j.record)
    /\ step \in Kept => \A b \in Backup : FineNext(b, d[b])
    /\ \A l \in Label \ altered :
           /\ step # "idle" /\ At(j.record, l) =>
                  Holds(j.backup, l) \/ (Linked(t, l) /\ j.backup = call[t].backup)
           /\ step \in Kept => \A b \in Backup : At(d[b], l) => Holds(b, l)

Handles(t, step, j, d) ==
    Moves(t, step, j, d) /\ Stores(t) /\ Grows /\ Links(t, step, j) /\ Sound(t, step, j, d)

-----------------------------------------------------------------------------
LEMMA Typed ==
    BackupAssumption => /\ NoRecord \in Table /\ NoRecord \notin Record
                        /\ NoCall \in Jobs
                        /\ NoDraft \in Tables
BY DEF BackupAssumption, NoRecord, NoCall, NoDraft, Record, Table, Tables, Jobs

LEMMA TypesOf ==
    TypeOK <=>
        /\ records \in Tables /\ recordFile \in Tables
        /\ archive \in [Label -> Content \cup {None}]
        /\ provider \in Providers
        /\ pc \in [Thread -> Steps]
        /\ call \in [Thread -> Jobs]
        /\ draft \in [Thread -> Tables]
        /\ issued \subseteq Backup /\ matched \subseteq Backup /\ altered \subseteq Label
        /\ bare \in BOOLEAN /\ overlapped \in BOOLEAN
BY DEF TypeOK, Tables, Table, Steps, Asking, Kept, Jobs

LEMMA TypesOfNext ==
    TypeOK' <=>
        /\ records' \in Tables /\ recordFile' \in Tables
        /\ archive' \in [Label -> Content \cup {None}]
        /\ provider' \in Providers
        /\ pc' \in [Thread -> Steps]
        /\ call' \in [Thread -> Jobs]
        /\ draft' \in [Thread -> Tables]
        /\ issued' \subseteq Backup /\ matched' \subseteq Backup /\ altered' \subseteq Label
        /\ bare' \in BOOLEAN /\ overlapped' \in BOOLEAN
BY DEF TypeOK, Tables, Table, Steps, Asking, Kept, Jobs

LEMMA FineIsStable ==
    ASSUME BackupAssumption, NEW b \in Backup, NEW c \in Table, Fine(b, c),
           issued \subseteq issued', matched \subseteq matched', altered \subseteq altered',
           bare => bare',
           \A l \in Label \ altered' : archive[l] # None => archive'[l] = archive[l]
    PROVE  FineNext(b, c)
BY DEF Fine, FineNext, Good, Table, NoRecord, Record, BackupAssumption

\* A record that says it lies at l has an archive there.
LEMMA HoldsIsThere ==
    ASSUME BackupAssumption, TypeOK, Goods, NEW b \in Backup, NEW l \in Label \ altered,
           Holds(b, l)
    PROVE  archive[l] # None
<1>1. \A c : Fine(b, c) /\ At(c, l) => archive[l] # None
  BY DEF Fine, Good, At
<1>2. ASSUME NEW t \in Thread, call[t].backup = b PROVE Fine(b, call[t].record)
  BY <1>2 DEF Goods, Doing, NoCall, BackupAssumption
<1>3. QED
  BY <1>1, <1>2 DEF Holds, Goods

-----------------------------------------------------------------------------
\* A step of a handler whose copies are sound keeps the invariant.
LEMMA HandlerTypes ==
    ASSUME BackupAssumption, IInv, NEW t \in Thread, NEW step \in Steps, NEW j \in Jobs,
           NEW d \in Tables, Handles(t, step, j, d)
    PROVE  TypeOK'
<1>1. /\ pc \in [Thread -> Steps] /\ call \in [Thread -> Jobs] /\ draft \in [Thread -> Tables]
      /\ records \in Tables /\ recordFile \in Tables /\ provider \in Providers
      /\ archive \in [Label -> Content \cup {None}] /\ altered \subseteq Label /\ bare \in BOOLEAN
  BY TypesOf DEF IInv
<1>2. pc' \in [Thread -> Steps] /\ call' \in [Thread -> Jobs] /\ draft' \in [Thread -> Tables]
  BY <1>1 DEF Handles, Moves
<1>3. records' \in Tables /\ recordFile' \in Tables
  BY <1>1 DEF Handles, Stores
<1>4. archive' \in [Label -> Content \cup {None}]
  BY <1>1 DEF Handles, Links
<1>5. QED
  BY <1>1, <1>2, <1>3, <1>4, TypesOfNext DEF Handles, Grows

LEMMA ArchiveGrows ==
    ASSUME BackupAssumption, IInv, NEW t \in Thread, NEW step \in Steps, NEW j \in Jobs,
           NEW d \in Tables, Handles(t, step, j, d)
    PROVE  \A l \in Label : archive[l] # None => archive'[l] = archive[l]
BY TypesOf DEF IInv, Handles, Links

LEMMA HandlerGoods ==
    ASSUME BackupAssumption, IInv, NEW t \in Thread, NEW step \in Steps, NEW j \in Jobs,
           NEW d \in Tables, Handles(t, step, j, d)
    PROVE  Goods'
<1>1. ASSUME NEW b \in Backup, NEW c \in Table, Fine(b, c) PROVE FineNext(b, c)
  BY <1>1, ArchiveGrows, FineIsStable DEF Handles, Grows
<1>2. /\ pc \in [Thread -> Steps] /\ call \in [Thread -> Jobs] /\ draft \in [Thread -> Tables]
      /\ records \in Tables /\ recordFile \in Tables
  BY TypesOf DEF IInv
<1>3. /\ pc'[t] = step /\ call'[t] = j /\ draft'[t] = d
      /\ \A u \in Thread \ {t} : pc'[u] = pc[u] /\ call'[u] = call[u] /\ draft'[u] = draft[u]
  BY <1>2 DEF Handles, Moves
<1>4. provider' = "none" => bare'
  BY DEF IInv, Goods, Handles, Grows
<1>5. ASSUME NEW b \in Backup PROVE FineNext(b, records'[b]) /\ FineNext(b, recordFile'[b])
  <2>1. records'[b] \in Table /\ recordFile'[b] \in Table
    BY <1>2 DEF Handles, Stores, Tables
  <2>2. Fine(b, records'[b]) /\ Fine(b, recordFile'[b])
    BY DEF IInv, Goods, Handles, Stores
  <2>3. QED
    BY <1>1, <2>1, <2>2
<1>6. ASSUME NEW u \in Thread
      PROVE  /\ Doing(pc'[u], call'[u])
             /\ pc'[u] # "idle" => FineNext(call'[u].backup, call'[u].record)
             /\ pc'[u] \in Kept => \A b \in Backup : FineNext(b, draft'[u][b])
  <2>1. CASE u = t
    BY <1>3, <2>1 DEF Handles, Sound
  <2>2. CASE u # t
    <3>1. Doing(pc[u], call[u])
      BY DEF IInv, Goods
    <3>2. pc[u] # "idle" => FineNext(call[u].backup, call[u].record)
      BY <1>1, <1>2, <3>1 DEF IInv, Goods, Doing, Table
    <3>3. ASSUME pc[u] \in Kept, NEW b \in Backup PROVE FineNext(b, draft[u][b])
      <4>1. draft[u][b] \in Table
        BY <1>2 DEF Tables
      <4>2. Fine(b, draft[u][b])
        BY <3>3 DEF IInv, Goods
      <4>3. QED
        BY <1>1, <4>1, <4>2
    <3>4. QED
      BY <1>3, <2>2, <3>1, <3>2, <3>3
  <2>3. QED
    BY <2>1, <2>2
<1>7. QED
  BY <1>4, <1>5, <1>6 DEF Goods, Fine, FineNext

\* A copy says after the step what one said before, or what was just linked.
LEMMA HoldsGrows ==
    ASSUME BackupAssumption, IInv, NEW t \in Thread, NEW step \in Steps, NEW j \in Jobs,
           NEW d \in Tables, Handles(t, step, j, d), NEW b \in Backup, NEW l \in Label \ altered,
           Holds(b, l)'
    PROVE  Holds(b, l) \/ (Linked(t, l) /\ b = call[t].backup)
<1>1. /\ pc \in [Thread -> Steps] /\ call \in [Thread -> Jobs] /\ draft \in [Thread -> Tables]
  BY TypesOf DEF IInv
<1>2. /\ pc'[t] = step /\ call'[t] = j /\ draft'[t] = d
      /\ \A u \in Thread \ {t} : pc'[u] = pc[u] /\ call'[u] = call[u] /\ draft'[u] = draft[u]
  BY <1>1 DEF Handles, Moves
<1>3. CASE At(records'[b], l) \/ At(recordFile'[b], l)
  BY <1>3 DEF Handles, Stores, Holds, At
<1>4. CASE \E u \in Thread : call'[u].backup = b /\ At(call'[u].record, l)
  <2>1. PICK u \in Thread : call'[u].backup = b /\ At(call'[u].record, l)
    BY <1>4
  <2>2. CASE u = t
    <3>1. step # "idle"
      BY <1>2, <2>1, <2>2 DEF Handles, Sound, Doing, NoCall, BackupAssumption
    <3>2. QED
      BY <1>2, <2>1, <2>2, <3>1 DEF Handles, Sound
  <2>3. CASE u # t
    BY <1>2, <2>1, <2>3 DEF Holds
  <2>4. QED
    BY <2>2, <2>3
<1>5. CASE \E u \in Thread : pc'[u] \in Kept /\ At(draft'[u][b], l)
  <2>1. PICK u \in Thread : pc'[u] \in Kept /\ At(draft'[u][b], l)
    BY <1>5
  <2>2. CASE u = t
    BY <1>2, <2>1, <2>2 DEF Handles, Sound
  <2>3. CASE u # t
    BY <1>2, <2>1, <2>3 DEF Holds
  <2>4. QED
    BY <2>2, <2>3
<1>6. QED
  BY <1>3, <1>4, <1>5 DEF Holds, At

LEMMA HandlerClaims ==
    ASSUME BackupAssumption, IInv, NEW t \in Thread, NEW step \in Steps, NEW j \in Jobs,
           NEW d \in Tables, Handles(t, step, j, d)
    PROVE  Claims'
<1> SUFFICES ASSUME NEW l \in Label \ altered
             PROVE  /\ \A a, b \in Backup : Holds(a, l)' /\ Holds(b, l)' => a = b
                    /\ \A u \in Thread : Linked(u, l)' =>
                           /\ archive'[l] # None
                           /\ \A b \in Backup : Holds(b, l)' => b = call'[u].backup
                           /\ \A v \in Thread : Linked(v, l)' => call'[v].backup = call'[u].backup
  BY DEF Claims, Handles, Grows
<1>1. /\ pc \in [Thread -> Steps] /\ call \in [Thread -> Jobs]
      /\ archive \in [Label -> Content \cup {None}]
  BY TypesOf DEF IInv
<1>2. /\ pc'[t] = step /\ call'[t] = j
      /\ \A u \in Thread \ {t} : pc'[u] = pc[u] /\ call'[u] = call[u]
  BY <1>1 DEF Handles, Moves
<1>3. \A b \in Backup : Holds(b, l)' => Holds(b, l) \/ (Linked(t, l) /\ b = call[t].backup)
  BY HoldsGrows
<1>4. \A a, b \in Backup : Holds(a, l)' /\ Holds(b, l)' => a = b
  BY <1>3 DEF IInv, Claims
<1>5. CASE step # "digest" \/ j.record.label # l
  <2>1. \A u \in Thread : Linked(u, l)' => u # t /\ Linked(u, l) /\ call'[u] = call[u]
    BY <1>2, <1>5 DEF Linked
  <2>2. archive[l] # None => archive'[l] # None
    BY ArchiveGrows
  <2>3. QED
    BY <1>3, <1>4, <2>1, <2>2 DEF IInv, Claims
<1>6. CASE step = "digest" /\ j.record.label = l
  <2>1. archive[l] = None /\ archive'[l] # None
    BY <1>1, <1>6 DEF Handles, Links, BackupAssumption
  <2>2. \A b \in Backup : ~Holds(b, l)
    BY <2>1, HoldsIsThere DEF IInv
  <2>3. \A u \in Thread : ~Linked(u, l)
    BY <2>1 DEF IInv, Claims
  <2>4. \A u \in Thread : Linked(u, l)' => u = t
    BY <1>2, <2>3 DEF Linked
  <2>5. QED
    BY <1>3, <1>4, <2>1, <2>2, <2>3, <2>4
<1>7. QED
  BY <1>5, <1>6

LEMMA HandlerStep ==
    ASSUME BackupAssumption, IInv, NEW t \in Thread, NEW step \in Steps, NEW j \in Jobs,
           NEW d \in Tables, Handles(t, step, j, d)
    PROVE  IInv'
BY HandlerTypes, HandlerGoods, HandlerClaims DEF IInv

\* Steps that change neither the stores nor an archive.
LEMMA QuietStores ==
    ASSUME NEW t \in Thread, NEW step \in Steps \ {"digest"}, NEW j,
           UNCHANGED <<store, archive>>
    PROVE  Stores(t) /\ Links(t, step, j)
BY DEF Stores, Links, store

-----------------------------------------------------------------------------
\* What the manager and the provider make of a record.
LEMMA RecordAnswers ==
    ASSUME NEW r \in Record, NEW ok \in BOOLEAN
    PROVE  /\ AsVerified(r, ok) \in Record
           /\ AsVerified(r, ok).label = r.label /\ AsVerified(r, ok).checksum = r.checksum
           /\ AsVerified(r, ok).state = IF ok THEN "verified" ELSE "blocked"
           /\ AsVerified(r, ok).verified = ok /\ AsVerified(r, ok).restored = r.restored
           /\ AsRestored(r, ok) \in Record
           /\ AsRestored(r, ok).label = r.label /\ AsRestored(r, ok).checksum = r.checksum
           /\ AsRestored(r, ok).state = IF ok THEN "restore_tested" ELSE "blocked"
           /\ AsRestored(r, ok).verified = r.verified /\ AsRestored(r, ok).restored = ok
BY DEF AsVerified, AsRestored, Record

\* The same, where the answer does not depend on an archive.
LEMMA VerifiedBare ==
    ASSUME NEW r \in Record
    PROVE  /\ AsVerified(r, TRUE) \in Record
           /\ AsVerified(r, TRUE).label = r.label /\ AsVerified(r, TRUE).checksum = r.checksum
           /\ AsVerified(r, TRUE).state = "verified"
           /\ AsVerified(r, TRUE).verified <=> TRUE
           /\ AsVerified(r, TRUE).restored <=> r.restored
BY DEF AsVerified, Record

LEMMA NotVerified ==
    ASSUME NEW r \in Record
    PROVE  /\ AsVerified(r, FALSE) \in Record
           /\ AsVerified(r, FALSE).label = r.label /\ AsVerified(r, FALSE).checksum = r.checksum
           /\ AsVerified(r, FALSE).state = "blocked"
           /\ AsVerified(r, FALSE).verified <=> FALSE
           /\ AsVerified(r, FALSE).restored <=> r.restored
BY DEF AsVerified, Record

LEMMA RestoredBare ==
    ASSUME NEW r \in Record
    PROVE  /\ AsRestored(r, TRUE) \in Record
           /\ AsRestored(r, TRUE).label = r.label /\ AsRestored(r, TRUE).checksum = r.checksum
           /\ AsRestored(r, TRUE).state = "restore_tested"
           /\ AsRestored(r, TRUE).verified <=> r.verified
           /\ AsRestored(r, TRUE).restored <=> TRUE
BY DEF AsRestored, Record

LEMMA NotRestored ==
    ASSUME NEW r \in Record
    PROVE  /\ AsRestored(r, FALSE) \in Record
           /\ AsRestored(r, FALSE).label = r.label /\ AsRestored(r, FALSE).checksum = r.checksum
           /\ AsRestored(r, FALSE).state = "blocked"
           /\ AsRestored(r, FALSE).verified <=> r.verified
           /\ AsRestored(r, FALSE).restored <=> FALSE
BY DEF AsRestored, Record

\* A handler takes up a record r of b, which is new or a copy of what is stored.
LEMMA BeginStep ==
    ASSUME BackupAssumption, IInv, NEW t \in Thread, NEW b \in Backup, NEW r \in Record,
           NEW step \in {"fail", "link", "check", "copy"}, Begin(t, step, b, r),
           Doing(step, [backup |-> b, record |-> r]),
           FineNext(b, r),
           r.checksum = None \/ (r.checksum = records[b].checksum /\ r.label = records[b].label),
           issued \subseteq issued', issued' \subseteq Backup,
           UNCHANGED <<store, archive, provider, matched, altered, bare>>
    PROVE  IInv'
<1> DEFINE j == [backup |-> b, record |-> r]
           d == draft[t]
<1>1. j \in Jobs /\ d \in Tables /\ step \in Steps /\ j.backup = b /\ j.record = r
  BY TypesOf DEF IInv, Jobs, Table, Steps, Asking
<1>2. Moves(t, step, j, d)
  BY TypesOf DEF IInv, Begin, Moves
<1>3. Grows
  BY TypesOf DEF IInv, Grows, Begin
<1>4. Stores(t) /\ Links(t, step, j)
  BY DEF Stores, Links, store
<1>5. \A l \in Label \ altered : At(r, l) => Holds(b, l)
  BY DEF At, Holds
<1> HIDE DEF d
<1>6. Sound(t, step, j, d)
  BY <1>1, <1>5 DEF Sound, Kept
<1> HIDE DEF j
<1>7. QED
  BY <1>1, <1>2, <1>3, <1>4, <1>6, HandlerStep DEF Handles

LEMMA StartPrepareStep ==
    ASSUME BackupAssumption, IInv, NEW t \in Thread, NEW b \in Backup, NEW l \in Label,
           StartPrepare(t, b, l)
    PROVE  IInv'
<1> DEFINE r == [NoRecord EXCEPT !.state = "prepared", !.label = l]
<1>1. /\ r \in Record /\ r.state = "prepared" /\ r.checksum = None /\ ~r.verified /\ ~r.restored
  BY DEF NoRecord, Record
<1>2. PICK step \in {"fail", "link", "copy"} : Begin(t, step, b, r)
  BY DEF StartPrepare, Ask
<1>3. /\ issued' = issued \cup {b} /\ issued' \subseteq Backup
      /\ UNCHANGED <<store, archive, provider, matched, altered, bare>>
  BY TypesOf DEF StartPrepare, IInv
<1> HIDE DEF r
<1>4. FineNext(b, r)
  BY <1>1, <1>3 DEF FineNext, Good
<1>5. Doing(step, [backup |-> b, record |-> r])
  BY <1>1, <1>2 DEF Doing
<1>6. QED
  BY <1>1, <1>2, <1>3, <1>4, <1>5, BeginStep

\* Without a provider a call is answered at once, and the server counts as bare.
LEMMA StartCheckStep ==
    ASSUME BackupAssumption, IInv, NEW t \in Thread, NEW b \in Backup,
           StartVerify(t, b) \/ StartRestore(t, b)
    PROVE  IInv'
<1> DEFINE q == records[b]
<1>1. q \in Record /\ Fine(b, q) /\ q.state \in {"prepared", "verified"}
  <2>1. q \in Table /\ Fine(b, q)
    BY TypesOf DEF IInv, Goods, Tables
  <2>2. q.state \in {"prepared", "verified"}
    BY DEF StartVerify, StartRestore, MayVerify, MayRestore
  <2>3. QED
    BY <2>1, <2>2 DEF Table, NoRecord
<1>2. UNCHANGED <<store, archive, provider, history>>
  BY DEF StartVerify, StartRestore
<1>3. UNCHANGED <<store, archive, provider, issued, matched, altered, bare>>
  BY <1>2 DEF history
<1>4. CASE provider # "none"
  <2>1. Begin(t, "check", b, q) \/ Begin(t, "copy", b, q)
    BY <1>4 DEF StartVerify, StartRestore, Ask
  <2>2. FineNext(b, q)
    BY <1>1, <1>3 DEF Fine, FineNext
  <2>3. Doing("check", [backup |-> b, record |-> q]) /\ Doing("copy", [backup |-> b, record |-> q])
    BY <1>1 DEF Doing
  <2> HIDE DEF q
  <2>4. issued' \subseteq Backup /\ issued \subseteq issued'
    BY <1>3, TypesOf DEF IInv
  <2>5. QED
    BY <1>1, <1>3, <2>1, <2>2, <2>3, <2>4, BeginStep DEF q
<1>5. CASE provider = "none"
  <2>1. bare
    BY <1>5 DEF IInv, Goods
  <2>2. issued' \subseteq Backup /\ issued \subseteq issued'
    BY <1>3, TypesOf DEF IInv
  <2>3. CASE q.state = "prepared"
    <3> DEFINE n == AsVerified(q, TRUE)
    <3>1. Begin(t, "copy", b, n)
      BY <1>5, <2>3 DEF StartVerify, StartRestore, Ask, MayVerify, MayRestore
    <3>2. n \in Record /\ n.checksum = q.checksum /\ n.label = q.label
      BY <1>1, VerifiedBare
    <3>3. FineNext(b, n)
      BY <1>1, <1>3, <2>1, <2>3, VerifiedBare, Typed DEF Fine, FineNext, Good
    <3> HIDE DEF n
    <3>4. Doing("copy", [backup |-> b, record |-> n])
      BY <3>2 DEF Doing
    <3>5. QED
      BY <1>3, <2>2, <3>1, <3>2, <3>3, <3>4, BeginStep
  <2>4. CASE q.state = "verified"
    <3> DEFINE n == AsRestored(q, TRUE)
    <3>1. Begin(t, "copy", b, n)
      BY <1>5, <2>4 DEF StartVerify, StartRestore, Ask, MayVerify, MayRestore
    <3>2. n \in Record /\ n.checksum = q.checksum /\ n.label = q.label
      BY <1>1, RestoredBare
    <3>3. FineNext(b, n)
      BY <1>1, <1>3, <2>1, <2>4, RestoredBare, Typed DEF Fine, FineNext, Good
    <3> HIDE DEF n
    <3>4. Doing("copy", [backup |-> b, record |-> n])
      BY <3>2 DEF Doing
    <3>5. QED
      BY <1>3, <2>2, <3>1, <3>2, <3>3, <3>4, BeginStep
  <2>5. QED
    BY <1>1, <2>3, <2>4
<1>6. QED
  BY <1>4, <1>5

-----------------------------------------------------------------------------
LEMMA LinkStep ==
    ASSUME BackupAssumption, IInv, NEW t \in Thread, NEW c \in Content, Link(t, c)
    PROVE  IInv'
<1> DEFINE j == call[t]
           d == draft[t]
<1>1. /\ j \in Jobs /\ d \in Tables /\ Doing("link", j) /\ Fine(j.backup, j.record)
      /\ j.backup \in Backup /\ j.record \in Record
  BY TypesOf DEF IInv, Goods, Doing, Link, Go
<1>2. Moves(t, "digest", j, d)
  BY TypesOf DEF IInv, Link, Go, Moves
<1>3. Stores(t) /\ Grows
  BY TypesOf DEF IInv, Link, Stores, Grows, store, history
<1>4. Links(t, "digest", j)
  BY DEF Links, Link
<1>5. FineNext(j.backup, j.record)
  BY <1>1 DEF Fine, FineNext, Good, Doing, Link, history
<1>6. Sound(t, "digest", j, d)
  BY <1>1, <1>5 DEF Sound, Doing, Kept, At
<1>7. "digest" \in Steps
  BY DEF Steps, Asking
<1> HIDE DEF j, d
<1>8. QED
  BY <1>1, <1>2, <1>3, <1>4, <1>6, <1>7, HandlerStep DEF Handles

\* The provider has answered: the record of the handler becomes n.
LEMMA AnswerStep ==
    ASSUME BackupAssumption, IInv, NEW t \in Thread, NEW step \in {"copy", "extract"},
           NEW n \in Record, pc[t] \in Asking,
           pc' = [pc EXCEPT ![t] = step],
           call' = [call EXCEPT ![t].record = n],
           matched \subseteq matched', matched' \subseteq matched \cup {call[t].backup},
           step = "extract" => n.state = "verified",
           FineNext(call[t].backup, n),
           n.label = call[t].record.label,
           n.checksum = call[t].record.checksum \/ pc[t] = "digest",
           UNCHANGED <<draft, store, archive, provider, issued, altered, bare, overlapped>>
    PROVE  IInv'
<1> DEFINE j == [call[t] EXCEPT !.record = n]
           d == draft[t]
<1>1. call[t] \in Jobs /\ d \in Tables /\ call[t].backup \in Backup
  BY TypesOf DEF IInv, Goods, Doing, Asking
<1>2. j \in Jobs /\ j.backup = call[t].backup /\ j.record = n
  BY <1>1 DEF Jobs, Table
<1>3. Moves(t, step, j, d)
  BY TypesOf DEF IInv, Moves
<1>4. Stores(t) /\ Links(t, step, j)
  BY DEF Stores, Links, store
<1>5. Grows
  BY <1>1, TypesOf DEF IInv, Grows
<1> HIDE DEF j, d
<1>6. Doing(step, j) /\ FineNext(j.backup, j.record)
  BY <1>1, <1>2 DEF Doing
<1>7. ASSUME NEW l \in Label \ altered, At(j.record, l)
      PROVE  Holds(j.backup, l) \/ (Linked(t, l) /\ j.backup = call[t].backup)
  BY <1>2, <1>7 DEF At, Holds, Linked
<1>8. Sound(t, step, j, d)
  BY <1>6, <1>7 DEF Sound, Kept
<1>9. step \in Steps
  BY DEF Steps, Asking
<1>10. QED
  BY <1>1, <1>2, <1>3, <1>4, <1>5, <1>8, <1>9, HandlerStep DEF Handles

\* What a handler at work has.
LEMMA AtWork ==
    ASSUME IInv, NEW t \in Thread, pc[t] # "idle"
    PROVE  /\ call[t] \in Jobs /\ call[t].backup \in Backup /\ call[t].record \in Record
           /\ Fine(call[t].backup, call[t].record) /\ Doing(pc[t], call[t])
BY TypesOf DEF IInv, Goods, Doing

LEMMA DigestStep ==
    ASSUME BackupAssumption, IInv, NEW t \in Thread, Digest(t) PROVE IInv'
<1> DEFINE r == call[t].record
           n == [r EXCEPT !.checksum = archive[r.label]]
<1>1. /\ pc[t] = "digest" /\ pc' = [pc EXCEPT ![t] = "copy"]
      /\ UNCHANGED <<draft, store, archive, provider, history, overlapped>>
  BY DEF Digest, Go
<1>2. /\ call[t] \in Jobs /\ r \in Record /\ Fine(call[t].backup, r) /\ Doing("digest", call[t])
  BY <1>1, AtWork
<1>3. archive[r.label] \in Content \cup {None}
  BY <1>2, TypesOf DEF IInv, Record
<1>4. /\ n \in Record /\ n.label = r.label /\ n.checksum = archive[r.label]
      /\ n.state = r.state /\ n.verified = r.verified /\ n.restored = r.restored
  BY <1>2, <1>3 DEF Record
<1>5. call' = [call EXCEPT ![t].record = n]
  BY <1>2, TypesOf DEF Digest, IInv
<1> HIDE DEF n
<1>6. FineNext(call[t].backup, n)
  BY <1>1, <1>2, <1>4, Typed DEF Fine, FineNext, Good, history, Doing
<1>7. QED
  BY <1>1, <1>4, <1>5, <1>6, AnswerStep DEF history, Asking

LEMMA CheckStep ==
    ASSUME BackupAssumption, IInv, NEW t \in Thread, Check(t) PROVE IInv'
<1> DEFINE b  == call[t].backup
           r  == call[t].record
           ok == Intact(r)
<1>1. /\ pc[t] = "check"
      /\ UNCHANGED <<draft, store, archive, provider, issued, altered, bare, overlapped>>
      /\ matched' = IF ok THEN matched \cup {b} ELSE matched
  BY DEF Check, Go, Intact
<1>2. r \in Record /\ Fine(b, r) /\ r.state \in {"prepared", "verified"}
  BY <1>1, AtWork DEF Doing
<1>3. ok \in BOOLEAN
  BY DEF Intact
<1>4. CASE r.state = "prepared"
  <2> DEFINE n == AsVerified(r, ok)
  <2>1. call' = [call EXCEPT ![t].record = n] /\ pc' = [pc EXCEPT ![t] = "copy"]
    BY <1>4 DEF Check, Go
  <2>2. n \in Record /\ n.label = r.label /\ n.checksum = r.checksum
    BY <1>2, <1>3, RecordAnswers
  <2>3. FineNext(b, n)
    BY <1>1, <1>2, <1>3, <1>4, RecordAnswers, Typed DEF Fine, FineNext, Good
  <2> HIDE DEF n, ok
  <2>4. QED
    BY <1>1, <2>1, <2>2, <2>3, AnswerStep DEF Asking
<1>5. CASE r.state # "prepared" /\ ~ok
  <2> DEFINE n == AsRestored(r, FALSE)
  <2>1. call' = [call EXCEPT ![t].record = n] /\ pc' = [pc EXCEPT ![t] = "copy"]
    BY <1>5 DEF Check, Go
  <2>2. n \in Record /\ n.label = r.label /\ n.checksum = r.checksum
    BY <1>2, NotRestored
  <2>3. FineNext(b, n)
    BY <1>1, <1>2, <1>5, NotRestored, Typed DEF Fine, FineNext, Good
  <2> HIDE DEF n, ok
  <2>4. QED
    BY <1>1, <2>1, <2>2, <2>3, AnswerStep DEF Asking
<1>6. CASE r.state # "prepared" /\ ok
  <2>1. call' = [call EXCEPT ![t].record = r] /\ pc' = [pc EXCEPT ![t] = "extract"]
    BY <1>6 DEF Check, Go
  <2>2. FineNext(b, r)
    BY <1>1, <1>2 DEF Fine, FineNext, Good
  <2> HIDE DEF ok
  <2>3. QED
    BY <1>1, <1>2, <1>6, <2>1, <2>2, AnswerStep DEF Asking
<1>7. QED
  BY <1>4, <1>5, <1>6

LEMMA ExtractStep ==
    ASSUME BackupAssumption, IInv, NEW t \in Thread, Extract(t) PROVE IInv'
<1> DEFINE r == call[t].record
           n == AsRestored(r, TRUE)
<1>1. /\ pc[t] = "extract" /\ pc' = [pc EXCEPT ![t] = "copy"]
      /\ call' = [call EXCEPT ![t].record = n]
      /\ UNCHANGED <<draft, store, archive, provider, history, overlapped>>
  BY DEF Extract, Go
<1>2. r \in Record /\ Fine(call[t].backup, r) /\ r.state = "verified"
  BY <1>1, AtWork DEF Doing
<1>3. n \in Record /\ n.label = r.label /\ n.checksum = r.checksum
  BY <1>2, RestoredBare
<1>4. FineNext(call[t].backup, n)
  BY <1>1, <1>2, RestoredBare, Typed DEF Fine, FineNext, Good, history
<1> HIDE DEF n
<1>5. QED
  BY <1>1, <1>3, <1>4, AnswerStep DEF history, Asking

LEMMA ProviderFailsStep ==
    ASSUME BackupAssumption, IInv, NEW t \in Thread, ProviderFails(t) PROVE IInv'
<1> DEFINE r == call[t].record
<1>1. /\ pc[t] \in Asking /\ pc[t] # "idle"
      /\ pc' = [pc EXCEPT ![t] = "copy"]
      /\ UNCHANGED <<draft, store, archive, provider, history, overlapped>>
  BY DEF ProviderFails, Asking
<1>2. /\ r \in Record /\ Fine(call[t].backup, r)
      /\ r.state \in {"prepared", "verified"} /\ (pc[t] = "extract" => r.state = "verified")
  BY <1>1, AtWork DEF Doing, Asking
<1>3. CASE r.state = "prepared"
  <2> DEFINE n == AsVerified(r, FALSE)
  <2>1. call' = [call EXCEPT ![t].record = n]
    BY <1>2, <1>3 DEF ProviderFails
  <2>2. n \in Record /\ n.label = r.label /\ n.checksum = r.checksum
    BY <1>2, NotVerified
  <2>3. FineNext(call[t].backup, n)
    BY <1>1, <1>2, <1>3, NotVerified, Typed DEF Fine, FineNext, Good, history
  <2> HIDE DEF n
  <2>4. QED
    BY <1>1, <2>1, <2>2, <2>3, AnswerStep DEF history
<1>4. CASE r.state = "verified"
  <2> DEFINE n == AsRestored(r, FALSE)
  <2>1. call' = [call EXCEPT ![t].record = n]
    BY <1>2, <1>4 DEF ProviderFails
  <2>2. n \in Record /\ n.label = r.label /\ n.checksum = r.checksum
    BY <1>2, NotRestored
  <2>3. FineNext(call[t].backup, n)
    BY <1>1, <1>2, <1>4, NotRestored, Typed DEF Fine, FineNext, Good, history
  <2> HIDE DEF n
  <2>4. QED
    BY <1>1, <2>1, <2>2, <2>3, AnswerStep DEF history
<1>5. QED
  BY <1>2, <1>3, <1>4

-----------------------------------------------------------------------------
LEMMA CopyStep ==
    ASSUME BackupAssumption, IInv, NEW t \in Thread, Copy(t) PROVE IInv'
<1> DEFINE j == call[t]
           d == [records EXCEPT ![j.backup] = j.record]
<1>1. pc[t] = "copy" /\ UNCHANGED <<call, store, archive, provider, history, overlapped>>
  BY DEF Copy
<1>2. /\ j \in Jobs /\ j.backup \in Backup /\ j.record \in Record /\ Fine(j.backup, j.record)
  BY <1>1, AtWork
<1>3. d \in Tables
  BY <1>2, TypesOf DEF IInv, Tables, Table
<1>4. /\ d[j.backup] = j.record /\ \A b \in Backup \ {j.backup} : d[b] = records[b]
  BY <1>2, TypesOf DEF IInv, Tables
<1>5. Moves(t, "save", j, d)
  BY TypesOf DEF IInv, Copy, Moves
<1>6. Stores(t) /\ Grows /\ Links(t, "save", j)
  BY <1>1, TypesOf DEF IInv, Stores, Links, Grows, store, history
<1> HIDE DEF d
<1>7. FineNext(j.backup, j.record) /\ \A b \in Backup : FineNext(b, d[b])
  BY <1>1, <1>2, <1>4 DEF IInv, Goods, Fine, FineNext, history
<1>8. \A l \in Label : /\ At(j.record, l) => Holds(j.backup, l)
                       /\ \A b \in Backup : At(d[b], l) => Holds(b, l)
  BY <1>2, <1>4 DEF Holds
<1>9. Sound(t, "save", j, d)
  BY <1>2, <1>7, <1>8 DEF Sound, Doing
<1>10. "save" \in Steps
  BY DEF Steps, Kept
<1> HIDE DEF j
<1>11. QED
  BY <1>2, <1>3, <1>5, <1>6, <1>9, <1>10, HandlerStep DEF Handles

LEMMA SaveStep ==
    ASSUME BackupAssumption, IInv, NEW t \in Thread, Save(t) PROVE IInv'
<1> DEFINE j == call[t]
           d == draft[t]
<1>1. /\ pc[t] = "save" /\ recordFile' = d
      /\ UNCHANGED <<records, call, archive, provider, history, overlapped>>
  BY DEF Save, Go
<1>2. /\ j \in Jobs /\ d \in Tables /\ j.backup \in Backup /\ j.record \in Record
      /\ Fine(j.backup, j.record)
  BY <1>1, AtWork, TypesOf DEF IInv
<1>3. \A b \in Backup : Fine(b, d[b])
  BY <1>1 DEF IInv, Goods, Kept
<1>4. Moves(t, "swap", j, d)
  BY TypesOf DEF IInv, Save, Go, Moves
<1>5. Stores(t) /\ Grows /\ Links(t, "swap", j)
  BY <1>1, TypesOf DEF IInv, Stores, Links, Grows, Kept, history
<1>6. FineNext(j.backup, j.record) /\ \A b \in Backup : FineNext(b, d[b])
  BY <1>1, <1>2, <1>3 DEF Fine, FineNext, history
<1>7. \A l \in Label : /\ At(j.record, l) => Holds(j.backup, l)
                       /\ \A b \in Backup : At(d[b], l) => Holds(b, l)
  BY <1>1 DEF Holds, Kept
<1>8. Sound(t, "swap", j, d)
  BY <1>2, <1>6, <1>7 DEF Sound, Doing
<1>9. "swap" \in Steps
  BY DEF Steps, Kept
<1> HIDE DEF j, d
<1>10. QED
  BY <1>2, <1>4, <1>5, <1>8, <1>9, HandlerStep DEF Handles

\* The call is over; what it had may have been stored.
LEMMA FinishStep ==
    ASSUME BackupAssumption, IInv, NEW t \in Thread, Finish(t), Stores(t),
           UNCHANGED <<archive, provider, history, overlapped>>
    PROVE  IInv'
<1>1. Moves(t, "idle", NoCall, NoDraft)
  BY DEF Finish, Moves
<1>2. Grows /\ Links(t, "idle", NoCall)
  BY TypesOf DEF IInv, Links, Grows, history
<1>3. Sound(t, "idle", NoCall, NoDraft)
  BY DEF Sound, Doing, Kept
<1>4. "idle" \in Steps
  BY DEF Steps
<1>5. QED
  BY <1>1, <1>2, <1>3, <1>4, Typed, HandlerStep DEF Handles

LEMMA EndStep ==
    ASSUME BackupAssumption, IInv, NEW t \in Thread,
           Raise(t) \/ SaveFailsLate(t) \/ Swap(t)
    PROVE  IInv'
<1>1. Finish(t) /\ UNCHANGED <<archive, provider, history, overlapped>>
  BY DEF Raise, SaveFailsLate, Swap
<1>2. Stores(t)
  BY DEF Raise, SaveFailsLate, Swap, Stores, Kept, store
<1>3. QED
  BY <1>1, <1>2, FinishStep

-----------------------------------------------------------------------------
LEMMA RestartStep ==
    ASSUME BackupAssumption, IInv, Restart PROVE IInv'
<1>1. TypeOK'
  BY TypesOf, TypesOfNext, Typed DEF IInv, Restart, Steps
<1>2. \A b \in Backup : FineNext(b, recordFile[b])
  BY TypesOf, FineIsStable DEF IInv, Goods, Restart, Tables
<1>3. Goods'
  BY <1>2 DEF Goods, Restart, Doing, Kept, Fine, FineNext
<1>4. \A b \in Backup, l \in Label : Holds(b, l)' => Holds(b, l)
  BY DEF Restart, Holds, At, Kept, NoCall, NoRecord
<1>5. Claims'
  BY <1>4 DEF IInv, Claims, Restart, Linked
<1>6. QED
  BY <1>1, <1>3, <1>5 DEF IInv

LEMMA AlterStep ==
    ASSUME BackupAssumption, IInv, NEW l \in Label, Alter(l) PROVE IInv'
<1>1. /\ altered' = altered \cup {l}
      /\ UNCHANGED <<store, provider, handler, issued, matched, bare, overlapped>>
      /\ archive' \in [Label -> Content \cup {None}]
      /\ \A k \in Label \ {l} : archive'[k] = archive[k]
  BY TypesOf DEF IInv, Alter
<1>2. UNCHANGED <<records, recordFile, pc, call, draft>>
  BY <1>1 DEF store, handler
<1>3. TypeOK'
  BY <1>1, <1>2, TypesOf, TypesOfNext DEF IInv
<1>4. ASSUME NEW b \in Backup, NEW c \in Table, Fine(b, c) PROVE FineNext(b, c)
  BY <1>1, <1>4, FineIsStable
<1>5. Goods'
  <2>1. \A b \in Backup : FineNext(b, records[b]) /\ FineNext(b, recordFile[b])
    BY <1>4, TypesOf DEF IInv, Goods, Tables
  <2>2. ASSUME NEW t \in Thread
        PROVE  /\ Doing(pc[t], call[t])
               /\ pc[t] # "idle" => FineNext(call[t].backup, call[t].record)
    BY <1>4 DEF IInv, Goods, Doing, Table
  <2>3. ASSUME NEW t \in Thread, pc[t] \in Kept, NEW b \in Backup
        PROVE  FineNext(b, draft[t][b])
    <3>1. draft[t][b] \in Table
      BY TypesOf DEF IInv, Tables
    <3>2. Fine(b, draft[t][b])
      BY <2>3 DEF IInv, Goods
    <3>3. QED
      BY <1>4, <3>1, <3>2
  <2>4. provider' = "none" => bare'
    BY <1>1 DEF IInv, Goods
  <2>5. QED
    BY <1>2, <2>1, <2>2, <2>3, <2>4 DEF Goods, Fine, FineNext
<1>6. Claims'
  BY <1>1, <1>2 DEF IInv, Claims, Holds, Linked
<1>7. QED
  BY <1>3, <1>5, <1>6 DEF IInv

LEMMA InitIInv == BackupAssumption /\ Init => IInv
<1> SUFFICES ASSUME BackupAssumption, Init PROVE IInv
  OBVIOUS
<1>1. TypeOK
  BY TypesOf, Typed DEF Init, Steps
<1>2. Goods
  BY DEF Init, Goods, Doing, Fine, Good, Kept, NoDraft, NoRecord
<1>3. Claims
  BY DEF Init, Claims, Holds, At, Linked, NoDraft, NoRecord, NoCall, Kept
<1>4. QED
  BY <1>1, <1>2, <1>3 DEF IInv

LEMMA NextIInv == BackupAssumption /\ IInv /\ [Next]_vars => IInv'
<1> SUFFICES ASSUME BackupAssumption, IInv, [Next]_vars PROVE IInv'
  OBVIOUS
<1>1. CASE UNCHANGED vars
  BY <1>1 DEF IInv, TypeOK, Goods, Fine, Claims, Holds, Linked, vars, store, handler, history
<1>2. ASSUME NEW t \in Thread,
             \/ \E b \in Backup :
                 \/ \E l \in Label : StartPrepare(t, b, l)
                 \/ StartVerify(t, b)
                 \/ StartRestore(t, b)
             \/ Digest(t) \/ Check(t) \/ Extract(t) \/ ProviderFails(t)
             \/ \E c \in Content : Link(t, c)
             \/ Copy(t) \/ Save(t) \/ Raise(t) \/ SaveFailsLate(t) \/ Swap(t)
      PROVE  IInv'
  BY <1>2, StartPrepareStep, StartCheckStep, LinkStep, DigestStep, CheckStep, ExtractStep,
     ProviderFailsStep, CopyStep, SaveStep, EndStep
<1>3. QED
  BY <1>1, <1>2, RestartStep, AlterStep DEF Next

LEMMA IInvHolds == Spec => []IInv
<1>1. Init => IInv
  BY InitIInv, BackupAssumption
<1>2. IInv /\ [Next]_vars => IInv'
  BY NextIInv, BackupAssumption
<1>3. QED
  BY <1>1, <1>2, PTL DEF Spec

\* Every copy of a backup is good.
LEMMA CopiesAreFine ==
    ASSUME BackupAssumption, IInv, NEW b \in Backup, NEW c \in Copies(b)
    PROVE  Fine(b, c) /\ c \in Table /\ \A l \in Label : At(c, l) => Holds(b, l)
<1>1. CASE c \in {records[b], recordFile[b]}
  BY <1>1, TypesOf DEF IInv, Goods, Tables, Holds
<1>2. CASE \E t \in Thread : call[t].backup = b /\ c = call[t].record
  BY <1>2 DEF IInv, Goods, Doing, NoCall, BackupAssumption, Holds, Table
<1>3. CASE \E t \in Thread : pc[t] \in Kept /\ c = draft[t][b]
  <2>1. PICK t \in Thread : pc[t] \in Kept /\ c = draft[t][b]
    BY <1>3
  <2>2. c \in Table
    BY <2>1, TypesOf DEF IInv, Tables
  <2>3. Fine(b, c)
    BY <2>1 DEF IInv, Goods
  <2>4. QED
    BY <2>1, <2>2, <2>3 DEF Holds
<1>4. QED
  BY <1>1, <1>2, <1>3 DEF Copies, Kept

-----------------------------------------------------------------------------
\* For any number of backups, destinations and handlers the records, the archives
\* and the calls keep their types.
THEOREM TypeCorrect == Spec => []TypeOK
<1>1. IInv => TypeOK
  BY DEF IInv
<1>2. QED
  BY <1>1, IInvHolds, PTL

\* As long as the server always had its provider, no copy of a backup counts as
\* verified unless its archive had the recorded checksum when it was compared.
THEOREM VerifiedIsMatched == Spec => []VerifiedMatched
<1>1. IInv => VerifiedMatched
  BY CopiesAreFine, BackupAssumption DEF VerifiedMatched, Fine, Good
<1>2. QED
  BY <1>1, IInvHolds, PTL

\* In every copy of a backup the two flags agree with its state.
THEOREM FlagsAreTrue == Spec => []FlagsAgree
<1>1. IInv => FlagsAgree
  BY CopiesAreFine, BackupAssumption DEF FlagsAgree, Fine, Good
<1>2. QED
  BY <1>1, IInvHolds, PTL

\* An archive that nobody altered has the checksum of every record made from it.
THEOREM ArchivesAreKept == Spec => []ArchiveIsKept
<1>1. IInv => ArchiveIsKept
  BY CopiesAreFine, BackupAssumption DEF ArchiveIsKept, Fine, Good
<1>2. QED
  BY <1>1, IInvHolds, PTL

\* No two backups have the same unaltered archive, however their preparations
\* interleave.
THEOREM ArchivesAreOwned == Spec => []OneRecordPerArchive
<1>1. IInv => OneRecordPerArchive
  <2> SUFFICES ASSUME IInv, NEW a \in Backup, NEW b \in Backup, NEW c \in Copies(a),
                      NEW d \in Copies(b), c.checksum # None, d.checksum # None,
                      c.label = d.label, c.label \notin altered
               PROVE  a = b
    BY DEF OneRecordPerArchive
  <2>1. c.label \in Label
    BY CopiesAreFine, BackupAssumption DEF Table, Record, NoRecord
  <2>2. Holds(a, c.label) /\ Holds(b, c.label)
    BY <2>1, CopiesAreFine, BackupAssumption DEF At
  <2>3. QED
    BY <2>1, <2>2 DEF IInv, Claims
<1>2. QED
  BY <1>1, IInvHolds, PTL

-----------------------------------------------------------------------------
(***************************************************************************)
(* The promise of BackupLedger. While no two requests have overlapped, at  *)
(* most one handler is at work, what it stores is one step of the ledger   *)
(* from the dictionary, and so is the file (a save may fail after the file *)
(* was replaced, and a restart reads it).                                  *)
(***************************************************************************)

\* A backup goes from one state to another.
Advances(from, to) ==
    \/ from = "absent"   /\ to \in {"prepared", "blocked"}
    \/ from = "prepared" /\ to \in {"verified", "blocked"}
    \/ from = "verified" /\ to \in {"restore_tested", "blocked"}

\* Table B is table A, or A after one backup has advanced.
OneStep(A, B) ==
    \/ B = A
    \/ \E b \in Backup : /\ \A a \in Backup : a # b => B[a] = A[a]
                         /\ Advances(A[b].state, B[b].state)

AtMostOne == \A s, t \in Thread : pc[s] # "idle" /\ pc[t] # "idle" => s = t

\* A handler at a step, with its call j and its copy d, will store nothing but
\* that its backup has advanced.
Works(step, j, d, table, file) ==
    /\ step \in {"fail", "link", "digest"} => table[j.backup].state = "absent"
    /\ step \in {"check", "extract"} => j.record.state = table[j.backup].state
    /\ step \in {"copy"} \cup Kept => Advances(table[j.backup].state, j.record.state)
    /\ step \in Kept => d = [table EXCEPT ![j.backup] = j.record]
    /\ step = "swap" => file = d

Task(t) == Works(pc[t], call[t], draft[t], records, recordFile)

Alone ==
    ~overlapped => AtMostOne /\ OneStep(records, recordFile) /\ \A t \in Thread : Task(t)

\* What a step leaves behind, and what it does to the dictionary.
Keeps == Alone' /\ (~overlapped' => OneStep(records, records'))

\* It is enough to look at the handler that is at work.
LEMMA OneAtWork ==
    ASSUME NEW t \in Thread,
           ~overlapped' => /\ \A s \in Thread \ {t} : pc'[s] = "idle"
                           /\ OneStep(records', recordFile')
                           /\ Works(pc'[t], call'[t], draft'[t], records', recordFile')
                           /\ OneStep(records, records')
    PROVE  Keeps
<1> SUFFICES ASSUME ~overlapped'
             PROVE  /\ AtMostOne' /\ OneStep(records', recordFile')
                    /\ \A s \in Thread : Task(s)'
                    /\ OneStep(records, records')
  BY DEF Keeps, Alone
<1>1. ASSUME NEW s \in Thread PROVE Task(s)'
  <2>1. CASE s = t
    BY <2>1 DEF Task
  <2>2. CASE s # t
    BY <2>2 DEF Task, Works, Kept
  <2>3. QED
    BY <2>1, <2>2
<1>2. AtMostOne'
  BY DEF AtMostOne
<1>3. QED
  BY <1>1, <1>2

\* A handler at work goes on; what it leaves of the store is as it was.
LEMMA GoesOn ==
    ASSUME IInv, Alone, NEW t \in Thread, pc[t] # "idle", overlapped' = overlapped,
           NEW step \in Steps, pc' = [pc EXCEPT ![t] = step],
           NEW j, call' = [call EXCEPT ![t] = j],
           records' = records,
           /\ OneStep(records, recordFile) /\ Task(t)
               => /\ OneStep(records, recordFile')
                  /\ Works(step, j, draft'[t], records, recordFile')
    PROVE  Keeps
<1>1. pc'[t] = step /\ call'[t] = j /\ \A s \in Thread \ {t} : pc'[s] = pc[s]
  BY TypesOf DEF IInv
<1>2. OneStep(records, records')
  BY DEF OneStep
<1>3. ASSUME ~overlapped'
      PROVE  /\ \A s \in Thread \ {t} : pc'[s] = "idle"
             /\ OneStep(records, recordFile')
             /\ Works(step, j, draft'[t], records, recordFile')
  BY <1>1, <1>3 DEF Alone, AtMostOne
<1>4. QED
  BY <1>1, <1>2, <1>3, OneAtWork

\* A request begins: if it does not overlap another, nobody else is at work.
LEMMA BeginsAlone ==
    ASSUME IInv, Alone, NEW t \in Thread, NEW b \in Backup, NEW r \in Record,
           NEW step \in Steps, Begin(t, step, b, r),
           records' = records, recordFile' = recordFile,
           \/ step \in {"fail", "link"} /\ records[b].state = "absent"
           \/ step = "check" /\ r.state = records[b].state
           \/ step = "copy" /\ Advances(records[b].state, r.state)
    PROVE  Keeps
<1> DEFINE j == [backup |-> b, record |-> r]
<1>1. /\ pc'[t] = step /\ call'[t] = j
      /\ \A s \in Thread \ {t} : pc'[s] = pc[s]
      /\ overlapped' = (overlapped \/ \E s \in Thread : pc[s] # "idle")
  BY TypesOf DEF IInv, Begin
<1>2. j.backup = b /\ j.record = r
  OBVIOUS
<1> HIDE DEF j
<1>3. Works(step, j, draft'[t], records, recordFile)
  BY <1>2 DEF Works, Kept
<1>4. OneStep(records, records')
  BY DEF OneStep
<1>5. ASSUME ~overlapped'
      PROVE  (\A s \in Thread \ {t} : pc'[s] = "idle") /\ OneStep(records, recordFile)
  BY <1>1, <1>5 DEF Alone
<1>6. QED
  BY <1>1, <1>3, <1>4, <1>5, OneAtWork

LEMMA StartPrepareAlone ==
    ASSUME BackupAssumption, IInv, Alone, NEW t \in Thread, NEW b \in Backup, NEW l \in Label,
           StartPrepare(t, b, l)
    PROVE  Keeps
<1> DEFINE r == [NoRecord EXCEPT !.state = "prepared", !.label = l]
           step == Ask(IF archive[l] = None THEN "link" ELSE "fail")
<1>1. /\ Begin(t, step, b, r) /\ records' = records /\ recordFile' = recordFile
      /\ b \notin issued
  BY DEF StartPrepare, store
<1>2. step \in {"fail", "link", "copy"} /\ step \in Steps
  BY DEF Ask, Steps, Asking
<1>3. r \in Record /\ r.state = "prepared"
  BY DEF NoRecord, Record
<1>4. records[b] = NoRecord
  BY <1>1 DEF IInv, Goods, Fine, Good
<1>5. records[b].state = "absent"
  BY <1>4 DEF NoRecord
<1>6. Advances(records[b].state, r.state)
  BY <1>3, <1>5 DEF Advances
<1> HIDE DEF r, step
<1>7. QED
  BY <1>1, <1>2, <1>3, <1>5, <1>6, BeginsAlone

LEMMA StartCheckAlone ==
    ASSUME BackupAssumption, IInv, Alone, NEW t \in Thread, NEW b \in Backup,
           StartVerify(t, b) \/ StartRestore(t, b)
    PROVE  Keeps
<1> DEFINE c == records[b]
<1>1. records' = records /\ recordFile' = recordFile
  BY DEF StartVerify, StartRestore, store
<1>2. c.state \in {"prepared", "verified"} /\ c \in Record
  <2>1. c \in Table
    BY TypesOf DEF IInv, Tables
  <2>2. c.state \in {"prepared", "verified"}
    BY DEF StartVerify, StartRestore, MayVerify, MayRestore
  <2>3. QED
    BY <2>1, <2>2 DEF Table, NoRecord
<1>3. provider \in {"none", "filesystem"}
  BY TypesOf DEF IInv, BackupAssumption
<1>4. CASE provider = "filesystem"
  <2>1. Begin(t, "check", b, c)
    BY <1>4 DEF StartVerify, StartRestore, Ask
  <2>2. QED
    BY <1>1, <1>2, <2>1, BeginsAlone DEF Steps, Asking
<1>5. CASE provider = "none" /\ StartVerify(t, b)
  <2> DEFINE n == AsVerified(c, TRUE)
  <2>1. Begin(t, "copy", b, n) /\ c.state = "prepared"
    BY <1>5 DEF StartVerify, MayVerify, Ask
  <2>2. n \in Record /\ n.state = "verified"
    BY <1>2, VerifiedBare
  <2>3. Advances(c.state, n.state)
    BY <2>1, <2>2 DEF Advances
  <2> HIDE DEF n
  <2>4. QED
    BY <1>1, <2>1, <2>2, <2>3, BeginsAlone DEF Steps
<1>6. CASE provider = "none" /\ StartRestore(t, b)
  <2> DEFINE n == AsRestored(c, TRUE)
  <2>1. Begin(t, "copy", b, n) /\ c.state = "verified"
    BY <1>6 DEF StartRestore, MayRestore, Ask
  <2>2. n \in Record /\ n.state = "restore_tested"
    BY <1>2, RestoredBare
  <2>3. Advances(c.state, n.state)
    BY <2>1, <2>2 DEF Advances
  <2> HIDE DEF n
  <2>4. QED
    BY <1>1, <2>1, <2>2, <2>3, BeginsAlone DEF Steps
<1>7. QED
  BY <1>3, <1>4, <1>5, <1>6

\* The provider's steps: the handler knows the state that its backup has.
LEMMA AskingAlone ==
    ASSUME BackupAssumption, IInv, Alone, NEW t \in Thread, pc[t] \in Asking,
           overlapped' = overlapped, records' = records, recordFile' = recordFile,
           NEW step \in Steps, pc' = [pc EXCEPT ![t] = step],
           NEW n \in Record, call' = [call EXCEPT ![t].record = n],
           \/ pc[t] = "link" /\ step = "digest"
           \/ step = "extract" /\ pc[t] = "check" /\ n = call[t].record
           \/ /\ step = "copy"
              /\ pc[t] \in {"fail", "link", "digest"} => n.state \in {"prepared", "blocked"}
              /\ pc[t] \in {"check", "extract"} => Advances(call[t].record.state, n.state)
    PROVE  Keeps
<1> DEFINE b == call[t].backup
           j == [call[t] EXCEPT !.record = n]
<1>1. pc[t] # "idle" /\ call[t] \in Jobs
  BY TypesOf DEF Asking, IInv
<1>2. call' = [call EXCEPT ![t] = j]
  OBVIOUS
<1>3. j.backup = b /\ j.record = n
  BY <1>1 DEF Jobs
<1> HIDE DEF j
<1>4. ASSUME Task(t) PROVE Works(step, j, draft'[t], records, recordFile)
  BY <1>3, <1>4 DEF Task, Works, Kept, Asking, Advances
<1>5. QED
  BY <1>1, <1>2, <1>4, GoesOn

LEMMA LinkAlone ==
    ASSUME BackupAssumption, IInv, Alone, NEW t \in Thread, NEW c \in Content, Link(t, c)
    PROVE  Keeps
<1> DEFINE r == call[t].record
<1>1. /\ pc[t] = "link" /\ pc' = [pc EXCEPT ![t] = "digest"]
      /\ UNCHANGED <<store, call, overlapped>>
  BY DEF Link, Go
<1>2. r \in Record /\ call[t] \in Jobs
  BY <1>1, AtWork
<1>3. call' = [call EXCEPT ![t].record = r]
  BY <1>1, <1>2, TypesOf DEF IInv, Jobs
<1>4. QED
  BY <1>1, <1>2, <1>3, AskingAlone DEF store, Steps, Asking

LEMMA DigestAlone ==
    ASSUME BackupAssumption, IInv, Alone, NEW t \in Thread, Digest(t) PROVE Keeps
<1> DEFINE r == call[t].record
           n == [r EXCEPT !.checksum = archive[r.label]]
<1>1. /\ pc[t] = "digest" /\ pc' = [pc EXCEPT ![t] = "copy"]
      /\ UNCHANGED <<store, overlapped>>
  BY DEF Digest, Go
<1>2. r \in Record /\ Doing("digest", call[t])
  BY <1>1, AtWork
<1>3. archive[r.label] \in Content \cup {None}
  BY <1>2, TypesOf DEF IInv, Record
<1>4. n \in Record /\ n.state = "prepared"
  BY <1>2, <1>3 DEF Record, Doing
<1>5. call' = [call EXCEPT ![t].record = n]
  BY <1>2, TypesOf DEF Digest, IInv
<1> HIDE DEF n
<1>6. QED
  BY <1>1, <1>4, <1>5, AskingAlone DEF store, Steps, Asking

LEMMA CheckAlone ==
    ASSUME BackupAssumption, IInv, Alone, NEW t \in Thread, Check(t) PROVE Keeps
<1> DEFINE r  == call[t].record
           ok == Intact(r)
<1>1. pc[t] = "check" /\ UNCHANGED <<store, overlapped>>
  BY DEF Check, Go
<1>2. r \in Record /\ r.state \in {"prepared", "verified"}
  BY <1>1, AtWork DEF Doing
<1>3. ok \in BOOLEAN
  BY DEF Intact
<1>4. CASE r.state = "prepared"
  <2> DEFINE n == AsVerified(r, ok)
  <2>1. call' = [call EXCEPT ![t].record = n] /\ pc' = [pc EXCEPT ![t] = "copy"]
    BY <1>4 DEF Check, Go
  <2>2. n \in Record /\ Advances(r.state, n.state)
    BY <1>2, <1>3, <1>4, RecordAnswers DEF Advances
  <2> HIDE DEF n, ok
  <2>3. QED
    BY <1>1, <2>1, <2>2, AskingAlone DEF store, Steps, Asking
<1>5. CASE r.state # "prepared" /\ ~ok
  <2> DEFINE n == AsRestored(r, FALSE)
  <2>1. call' = [call EXCEPT ![t].record = n] /\ pc' = [pc EXCEPT ![t] = "copy"]
    BY <1>5 DEF Check, Go
  <2>2. n \in Record /\ Advances(r.state, n.state)
    BY <1>2, <1>5, NotRestored DEF Advances
  <2> HIDE DEF n, ok
  <2>3. QED
    BY <1>1, <2>1, <2>2, AskingAlone DEF store, Steps, Asking
<1>6. CASE r.state # "prepared" /\ ok
  <2>1. call' = [call EXCEPT ![t].record = r] /\ pc' = [pc EXCEPT ![t] = "extract"]
    BY <1>6 DEF Check, Go
  <2> HIDE DEF ok
  <2>2. QED
    BY <1>1, <1>2, <2>1, AskingAlone DEF store, Steps, Asking
<1>7. QED
  BY <1>4, <1>5, <1>6

LEMMA ExtractAlone ==
    ASSUME BackupAssumption, IInv, Alone, NEW t \in Thread, Extract(t) PROVE Keeps
<1> DEFINE r == call[t].record
           n == AsRestored(r, TRUE)
<1>1. /\ pc[t] = "extract" /\ pc' = [pc EXCEPT ![t] = "copy"]
      /\ call' = [call EXCEPT ![t].record = n]
      /\ UNCHANGED <<store, overlapped>>
  BY DEF Extract, Go
<1>2. r \in Record /\ r.state = "verified"
  BY <1>1, AtWork DEF Doing
<1>3. n \in Record /\ Advances(r.state, n.state)
  BY <1>2, RestoredBare DEF Advances
<1> HIDE DEF n
<1>4. QED
  BY <1>1, <1>3, AskingAlone DEF store, Steps, Asking

LEMMA ProviderFailsAlone ==
    ASSUME BackupAssumption, IInv, Alone, NEW t \in Thread, ProviderFails(t) PROVE Keeps
<1> DEFINE r == call[t].record
<1>1. /\ pc[t] \in Asking /\ pc' = [pc EXCEPT ![t] = "copy"]
      /\ UNCHANGED <<store, overlapped>>
  BY DEF ProviderFails, Asking
<1>2. /\ r \in Record /\ r.state \in {"prepared", "verified"}
      /\ pc[t] = "extract" => r.state = "verified"
  BY <1>1, AtWork DEF Doing, Asking
<1>3. CASE r.state = "prepared"
  <2> DEFINE n == AsVerified(r, FALSE)
  <2>1. call' = [call EXCEPT ![t].record = n]
    BY <1>2, <1>3 DEF ProviderFails
  <2>2. n \in Record /\ n.state = "blocked" /\ Advances(r.state, n.state)
    BY <1>2, <1>3, NotVerified DEF Advances
  <2> HIDE DEF n
  <2>3. QED
    BY <1>1, <2>1, <2>2, AskingAlone DEF store, Steps
<1>4. CASE r.state = "verified"
  <2> DEFINE n == AsRestored(r, FALSE)
  <2>1. call' = [call EXCEPT ![t].record = n]
    BY <1>2, <1>4 DEF ProviderFails
  <2>2. n \in Record /\ n.state = "blocked" /\ Advances(r.state, n.state)
    BY <1>2, <1>4, NotRestored DEF Advances
  <2> HIDE DEF n
  <2>3. QED
    BY <1>1, <2>1, <2>2, AskingAlone DEF store, Steps
<1>5. QED
  BY <1>2, <1>3, <1>4

\* The copy of the dictionary, with the new record, and the file made from it.
LEMMA CopyAlone ==
    ASSUME BackupAssumption, IInv, Alone, NEW t \in Thread, Copy(t) PROVE Keeps
<1> DEFINE j == call[t]
           d == [records EXCEPT ![j.backup] = j.record]
<1>1. /\ pc[t] = "copy" /\ pc' = [pc EXCEPT ![t] = "save"]
      /\ UNCHANGED <<store, call, overlapped>>
      /\ draft' = [draft EXCEPT ![t] = d]
  BY DEF Copy
<1>2. draft'[t] = d /\ call' = [call EXCEPT ![t] = j]
  BY <1>1, TypesOf DEF IInv
<1>3. ASSUME Task(t) PROVE Works("save", j, draft'[t], records, recordFile)
  BY <1>1, <1>2, <1>3 DEF Task, Works, Kept
<1>4. records' = records /\ recordFile' = recordFile /\ overlapped' = overlapped
  BY <1>1 DEF store
<1>5. pc[t] # "idle" /\ "save" \in Steps /\ pc' = [pc EXCEPT ![t] = "save"]
  BY <1>1 DEF Steps, Kept
<1> HIDE DEF j, d
<1>6. QED
  BY <1>2, <1>3, <1>4, <1>5, GoesOn

\* A table that a handler is about to store is one step from the dictionary.
LEMMA DraftIsOneStep ==
    ASSUME BackupAssumption, IInv, NEW t \in Thread, pc[t] \in Kept, Task(t)
    PROVE  OneStep(records, draft[t])
<1> DEFINE b == call[t].backup
           r == call[t].record
<1>1. /\ draft[t] = [records EXCEPT ![b] = r]
      /\ Advances(records[b].state, r.state)
  BY DEF Task, Works
<1>2. b \in Backup /\ records \in Tables
  BY AtWork, TypesOf DEF IInv, Kept
<1>3. draft[t][b] = r /\ \A a \in Backup : a # b => draft[t][a] = records[a]
  BY <1>1, <1>2 DEF Tables
<1>4. QED
  BY <1>1, <1>2, <1>3 DEF OneStep

LEMMA SaveAlone ==
    ASSUME BackupAssumption, IInv, Alone, NEW t \in Thread, Save(t) PROVE Keeps
<1>1. /\ pc[t] = "save" /\ pc' = [pc EXCEPT ![t] = "swap"]
      /\ recordFile' = draft[t] /\ UNCHANGED <<records, call, draft, overlapped>>
  BY DEF Save, Go
<1>2. call' = [call EXCEPT ![t] = call[t]]
  BY <1>1, TypesOf DEF IInv
<1>3. ASSUME Task(t)
      PROVE  /\ OneStep(records, recordFile')
             /\ Works("swap", call[t], draft'[t], records, recordFile')
  <2>1. OneStep(records, draft[t])
    BY <1>1, <1>3, DraftIsOneStep DEF Kept
  <2>2. QED
    BY <1>1, <1>3, <2>1 DEF Task, Works, Kept
<1>4. QED
  BY <1>1, <1>2, <1>3, GoesOn DEF Steps, Kept

\* A call that ends, with or without the file.
LEMMA RaiseAlone ==
    ASSUME BackupAssumption, IInv, Alone, NEW t \in Thread, Raise(t) \/ SaveFailsLate(t)
    PROVE  Keeps
<1>1. /\ pc[t] = "save" /\ pc' = [pc EXCEPT ![t] = "idle"]
      /\ recordFile' \in {recordFile, draft[t]} /\ UNCHANGED <<records, overlapped>>
      /\ call' = [call EXCEPT ![t] = NoCall]
  BY DEF Raise, SaveFailsLate, Finish, store
<1>2. Works("idle", NoCall, draft'[t], records, recordFile')
  BY DEF Works, Kept
<1>3. ASSUME OneStep(records, recordFile), Task(t)
      PROVE  OneStep(records, recordFile')
  BY <1>1, <1>3, DraftIsOneStep DEF Kept
<1>4. QED
  BY <1>1, <1>2, <1>3, GoesOn DEF Steps

\* The dictionary becomes what is in the file.
LEMMA SwapAlone ==
    ASSUME BackupAssumption, IInv, Alone, NEW t \in Thread, Swap(t) PROVE Keeps
<1>1. /\ pc[t] = "swap" /\ pc' = [pc EXCEPT ![t] = "idle"]
      /\ records' = draft[t] /\ UNCHANGED <<recordFile, overlapped>>
  BY DEF Swap, Finish
<1>2. pc'[t] = "idle" /\ \A s \in Thread \ {t} : pc'[s] = pc[s]
  BY <1>1, TypesOf DEF IInv
<1>3. Works(pc'[t], call'[t], draft'[t], records', recordFile')
  BY <1>2 DEF Works, Kept
<1>4. ASSUME ~overlapped'
      PROVE  /\ \A s \in Thread \ {t} : pc'[s] = "idle"
             /\ OneStep(records', recordFile') /\ OneStep(records, records')
  <2>1. AtMostOne /\ Task(t)
    BY <1>1, <1>4 DEF Alone
  <2>2. recordFile = draft[t]
    BY <1>1, <2>1 DEF Task, Works
  <2>3. OneStep(records, draft[t])
    BY <1>1, <2>1, DraftIsOneStep DEF Kept
  <2>4. OneStep(records', recordFile')
    BY <1>1, <2>2 DEF OneStep
  <2>5. QED
    BY <1>1, <1>2, <2>1, <2>3, <2>4 DEF AtMostOne
<1>5. QED
  BY <1>3, <1>4, OneAtWork

LEMMA RestartAlone ==
    ASSUME BackupAssumption, IInv, Alone, Restart PROVE Keeps
<1>1. /\ records' = recordFile /\ UNCHANGED <<recordFile, overlapped>>
      /\ \A s \in Thread : pc'[s] = "idle"
  BY DEF Restart
<1>2. OneStep(records', recordFile')
  BY <1>1 DEF OneStep
<1>3. AtMostOne' /\ \A s \in Thread : Task(s)'
  BY <1>1 DEF AtMostOne, Task, Works, Kept
<1>4. ~overlapped' => OneStep(records, records')
  BY <1>1 DEF Alone
<1>5. QED
  BY <1>2, <1>3, <1>4 DEF Keeps, Alone

LEMMA InitAlone == Init => Alone
<1> SUFFICES ASSUME Init PROVE AtMostOne /\ OneStep(records, recordFile)
                               /\ \A t \in Thread : Task(t)
  BY DEF Alone
<1>1. OneStep(records, recordFile)
  BY DEF Init, OneStep
<1>2. QED
  BY <1>1 DEF Init, AtMostOne, Task, Works, Kept

LEMMA NextAlone == BackupAssumption /\ IInv /\ Alone /\ [Next]_vars => Keeps
<1> SUFFICES ASSUME BackupAssumption, IInv, Alone, [Next]_vars PROVE Keeps
  OBVIOUS
<1>1. ASSUME UNCHANGED <<records, recordFile, pc, call, draft, overlapped>> PROVE Keeps
  BY <1>1 DEF Keeps, Alone, AtMostOne, Task, OneStep
<1>2. UNCHANGED vars \/ (\E l \in Label : Alter(l)) => Keeps
  BY <1>1 DEF vars, store, handler, Alter
<1>3. ASSUME NEW t \in Thread,
             \/ \E b \in Backup :
                 \/ \E l \in Label : StartPrepare(t, b, l)
                 \/ StartVerify(t, b)
                 \/ StartRestore(t, b)
             \/ Digest(t) \/ Check(t) \/ Extract(t) \/ ProviderFails(t)
             \/ \E c \in Content : Link(t, c)
             \/ Copy(t) \/ Save(t) \/ Raise(t) \/ SaveFailsLate(t) \/ Swap(t)
      PROVE  Keeps
  BY <1>3, StartPrepareAlone, StartCheckAlone, LinkAlone, DigestAlone, CheckAlone,
     ExtractAlone, ProviderFailsAlone, CopyAlone, SaveAlone, RaiseAlone, SwapAlone
<1>4. QED
  BY <1>2, <1>3, RestartAlone DEF Next

\* A step from a table to the next is a step of the ledger.
LEMMA AdvanceIsLedgers ==
    ASSUME TypeOK, TypeOK', OneStep(records, records')
    PROVE  UNCHANGED records \/ Ledger!Next
<1> SUFFICES ASSUME records' # records PROVE Ledger!Next
  OBVIOUS
<1>1. PICK b \in Backup : /\ \A a \in Backup : a # b => records'[a] = records[a]
                          /\ Advances(records[b].state, records'[b].state)
  BY DEF OneStep
<1> DEFINE A == [a \in Backup |-> records[a].state]
           B == [a \in Backup |-> records'[a].state]
<1>2. A[b] = records[b].state /\ B = [A EXCEPT ![b] = records'[b].state]
  BY <1>1
<1> HIDE DEF A, B
<1>3. \/ A[b] = "absent"   /\ \E s \in {"prepared", "blocked"} : B = [A EXCEPT ![b] = s]
      \/ A[b] = "prepared" /\ \E s \in {"verified", "blocked"} : B = [A EXCEPT ![b] = s]
      \/ A[b] = "verified" /\ \E s \in {"restore_tested", "blocked"} : B = [A EXCEPT ![b] = s]
  BY <1>1, <1>2 DEF Advances
<1>4. QED
  BY <1>3 DEF A, B, Ledger!Next, Ledger!Step, Ledger!Prepare, Ledger!Verify,
              Ledger!RestoreTest, Ledger!Advance

\* As long as its requests do not overlap, the manager is the catalogue that
\* operations and deployments are modelled with, across failures of the provider
\* and of a save, and across restarts: the dictionary changes by one backup that
\* is prepared, verified, restored on trial or blocked, each in its turn.
THEOREM LedgerIsKept == Spec => KeepsLedger
<1> DEFINE Step == ~overlapped' => UNCHANGED records \/ Ledger!Next
<1>1. Init => Alone
  BY InitAlone
<1>2. IInv /\ Alone /\ [Next]_vars => Alone'
  BY NextAlone, BackupAssumption DEF Keeps
<1>3. IInv /\ IInv' /\ Alone /\ [Next]_vars => [Step]_vars
  BY NextAlone, BackupAssumption, AdvanceIsLedgers DEF Keeps, IInv
<1> HIDE DEF Step
<1>4. Spec => [][Step]_vars
  BY <1>1, <1>2, <1>3, IInvHolds, PTL DEF Spec
<1>5. QED
  BY <1>4 DEF Step, KeepsLedger
=============================================================================
