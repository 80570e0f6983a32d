------------------------ MODULE ApprovalStoreProofs ------------------------
(***************************************************************************)
(* Type correctness and the safety of every copy of a record, for any      *)
(* number of requests, threads and processes. For a store that is used by  *)
(* one thread of one process also that acknowledged outcomes last, that    *)
(* get is never stale, and that the store implements ApprovalLedger.       *)
(***************************************************************************)
EXTENDS ApprovalRefinement, TLAPS

LEMMA RecordTypes ==
    /\ Absent \notin Record
    /\ Absent \in Slot
    /\ Nothing \in Table
    /\ NoCall \in Call
<1>1. Absent \notin Record
  BY DEF Absent, Record, Status, Open, Decided
<1>2. Absent \in Slot
  BY DEF Slot
<1>3. Nothing \in Table
  BY <1>2 DEF Nothing, Table
<1>4. NoCall \in Call
  BY DEF NoCall, Call
<1>5. QED
  BY <1>1, <1>2, <1>3, <1>4

LEMMA TextTypes ==
    ASSUME ApprovalAssumption
    PROVE  ActionText \subseteq Text /\ ReasonText \subseteq Text /\ "plain" \in Text
BY DEF ApprovalAssumption, Text

\* A copy made by one of the three writers is a record again.
LEMMA NewRecords ==
    ASSUME ApprovalAssumption, now \in Nat, NEW u \in Requester,
           NEW action \in Text, NEW reason \in Text
    PROVE  /\ PendingRequest(u, action, reason) \in Record
           /\ DeniedRequest(u, action, reason) \in Record
<1>1. now + Ttl \in Nat
  BY DEF ApprovalAssumption
<1>2. PendingRequest(u, action, reason) \in Record
  BY <1>1 DEF PendingRequest, Record, Status, Open, Deciders
<1>3. DeniedRequest(u, action, reason) \in Record
  BY <1>2 DEF DeniedRequest, Record, Status, Decided, Deciders
<1>4. QED
  BY <1>2, <1>3

LEMMA ExpiredRecords ==
    ASSUME NEW rec \in Record
    PROVE  ExpiredCopy(rec) \in Record
BY DEF ExpiredCopy, Record, Status, Open, Deciders, Text

LEMMA DecidedRecords ==
    ASSUME NEW rec \in Record, NEW verdict \in Decided, NEW by \in Approver,
           NEW reason \in Text
    PROVE  DecidedCopy(rec, verdict, by, reason) \in Record
BY DEF DecidedCopy, ApprovalHash, Record, Status, Open, Decided, Deciders, Seals

LEMMA OverrideType ==
    ASSUME NEW base \in Table, NEW upd \in Table, NEW S
    PROVE  Override(base, S, upd) \in Table
BY DEF Override, Table

\* What a call must remember for its write and its acknowledgement to be well
\* formed.
CallOK ==
    \A t \in Thread :
        /\ pc[t] # "idle" => call[t].id \in Request
        /\ pc[t] # "idle" /\ call[t].op \in {"approve", "deny"} => call[t].by \in Approver
        /\ pc[t] # "idle" /\ call[t].op = "create" => born[call[t].id] # Absent

TInv == TypeOK /\ CallOK

LEMMA InitTInv == ApprovalAssumption /\ Init => TInv
BY RecordTypes DEF Init, TInv, TypeOK, CallOK

\* Resetting the locals of a thread keeps their types.
LEMMA FinishType ==
    ASSUME TInv, NEW t \in Thread, Finish(t)
    PROVE  /\ pc' \in [Thread -> {"idle", "scan", "body", "write", "dump", "replace"}]
           /\ call' \in [Thread -> Call]
           /\ touched' \in [Thread -> SUBSET Request]
           /\ next' \in [Thread -> Table]
           /\ old' \in [Thread -> Table]
           /\ image' \in [Thread -> Table]
BY RecordTypes DEF TInv, TypeOK, Finish

LEMMA StepTInv ==
    ASSUME ApprovalAssumption, TInv, [Next]_vars
    PROVE  TInv'
<1> USE ApprovalAssumption, RecordTypes DEF TInv
<1>1. ASSUME NEW t \in Thread, NEW r \in Request, NEW u \in Requester,
             NEW denied \in BOOLEAN, NEW action \in Text, NEW reason \in Text,
             StartCreate(t, r, u, denied, action, reason)
      PROVE  TInv'
  <2> DEFINE rec == IF denied THEN DeniedRequest(u, action, reason)
                              ELSE PendingRequest(u, action, reason)
  <2>1. rec \in Record /\ rec \in Slot /\ rec # Absent
    BY NewRecords DEF TypeOK, Slot
  <2>2. [Nothing EXCEPT ![r] = rec] \in Table
    BY <2>1 DEF Table
  <2>3. [NoCall EXCEPT !.op = "create", !.id = r, !.by = u, !.began = now] \in Call
    BY DEF TypeOK, NoCall, Call
  <2> HIDE DEF rec
  <2>4. /\ born' = [born EXCEPT ![r] = rec]
        /\ next' = [next EXCEPT ![t] = [Nothing EXCEPT ![r] = rec]]
    BY <1>1 DEF StartCreate, rec
  <2>5. TypeOK'
    BY <1>1, <2>1, <2>2, <2>3, <2>4 DEF TypeOK, StartCreate, store, Table
  <2>6. CallOK'
    BY <1>1, <2>1, <2>4 DEF TypeOK, CallOK, StartCreate, NoCall, Table
  <2> QED
    BY <2>5, <2>6
<1>2. ASSUME NEW t \in Thread, NEW r \in Request, NEW u \in Approver \cup {None},
             NEW op \in {"approve", "deny", "get"}, u = None => op = "get",
             StartLookup(t, r, u, op)
      PROVE  TInv'
  BY <1>2 DEF TypeOK, CallOK, StartLookup, NoCall, Call, store, ghosts
<1>3. ASSUME NEW t \in Thread, Scan(t)
      PROVE  TInv'
  <2> DEFINE mem == memory[Home[t]]
             S   == {r \in Request : Stale(mem[r])}
             upd == [r \in Request |-> IF r \in S THEN ExpiredCopy(mem[r]) ELSE Absent]
  <2>1. mem \in Table
    BY DEF ApprovalAssumption, TypeOK
  <2>2. \A r \in S : mem[r] \in Record
    BY <2>1 DEF Stale, Table, Slot, Absent, Open
  <2>3. upd \in Table
    BY <2>1, <2>2, ExpiredRecords DEF Table, Slot
  <2>4. next' = [next EXCEPT ![t] = upd]
    BY <1>3 DEF Scan
  <2> HIDE DEF upd
  <2>5. call' \in [Thread -> Call]
    <3> DEFINE stage == IF S = {} THEN "body" ELSE "refresh"
               c     == [call[t] EXCEPT !.began = now, !.stage = stage]
    <3>1. call' = [call EXCEPT ![t] = c]
      BY <1>3 DEF Scan, TypeOK
    <3>2. stage \in {"refresh", "body"}
      OBVIOUS
    <3> HIDE DEF stage
    <3>3. call[t] \in Call /\ now \in Nat
      BY DEF TypeOK
    <3>4. c \in Call
      BY <3>2, <3>3 DEF Call
    <3> HIDE DEF c
    <3> QED
      BY <3>1, <3>4 DEF TypeOK
  <2>6. /\ touched' \in [Thread -> SUBSET Request]
        /\ pc' \in [Thread -> {"idle", "scan", "body", "write", "dump", "replace"}]
    BY <1>3 DEF TypeOK, Scan
  <2>7. UNCHANGED <<now, up, store, old, image, ghosts>>
    BY <1>3 DEF Scan
  <2>8. TypeOK'
    BY <2>3, <2>4, <2>5, <2>6, <2>7 DEF TypeOK, store, ghosts
  <2>9. CallOK'
    BY <1>3 DEF TypeOK, CallOK, Scan, Call, ghosts
  <2> QED
    BY <2>8, <2>9
<1>4. ASSUME NEW t \in Thread, ScanAborts(t) \/ Get(t) \/ Refuse(t)
      PROVE  TInv'
  BY <1>4, FinishType DEF TypeOK, CallOK, ScanAborts, Get, Refuse, Finish, store, ghosts
<1>5. ASSUME NEW t \in Thread, NEW reason \in Text, Decide(t, reason)
      PROVE  TInv'
  <2> DEFINE r   == call[t].id
             rec == memory[Home[t]][r]
             new == DecidedCopy(rec, Verdict(call[t].op), call[t].by, reason)
  <2>1. r \in Request /\ call[t].by \in Approver
    BY <1>5 DEF Decide, CallOK
  <2>2. rec \in Record
    BY <1>5, <2>1 DEF Decide, MayDecide, ApprovalAssumption, TypeOK, Table, Slot, Absent
  <2>3. new \in Record
    BY <2>1, <2>2, DecidedRecords DEF Verdict, Decided
  <2>4. /\ [Nothing EXCEPT ![r] = new] \in Table
        /\ [Nothing EXCEPT ![r] = rec] \in Table
    BY <2>2, <2>3 DEF Table, Slot
  <2>5. /\ next' = [next EXCEPT ![t] = [Nothing EXCEPT ![r] = new]]
        /\ old' = [old EXCEPT ![t] = [Nothing EXCEPT ![r] = rec]]
    BY <1>5 DEF Decide
  <2>6. /\ touched' \in [Thread -> SUBSET Request]
        /\ pc' \in [Thread -> {"idle", "scan", "body", "write", "dump", "replace"}]
        /\ UNCHANGED <<now, up, store, call, image, ghosts>>
    BY <1>5, <2>1 DEF Decide, TypeOK
  <2> HIDE DEF new, rec, r
  <2>7. TypeOK'
    BY <2>4, <2>5, <2>6 DEF TypeOK, store, ghosts
  <2>8. CallOK'
    BY <1>5 DEF TypeOK, CallOK, Decide, ghosts
  <2> QED
    BY <2>7, <2>8
<1>6. ASSUME NEW t \in Thread, Write(t)
      PROVE  TInv'
  <2>1. /\ Override(memory[Home[t]], touched[t], next[t]) \in Table
        /\ Override(Nothing, touched[t], memory[Home[t]]) \in Table
    BY OverrideType DEF ApprovalAssumption, TypeOK
  <2>2. TypeOK'
    BY <1>6, <2>1 DEF TypeOK, Write, ghosts
  <2>3. CallOK'
    BY <1>6 DEF TypeOK, CallOK, Write, ghosts
  <2> QED
    BY <2>2, <2>3
<1>7. ASSUME NEW t \in Thread, Dump(t)
      PROVE  TInv'
  BY <1>7 DEF ApprovalAssumption, TypeOK, CallOK, Dump, store, ghosts
<1>8. ASSUME NEW t \in Thread, Replace(t)
      PROVE  TInv'
  <2>1. CASE call[t].stage = "refresh"
    <3>1. /\ pc' = [pc EXCEPT ![t] = "body"]
          /\ call' = [call EXCEPT ![t].stage = "body"]
          /\ UNCHANGED acked
      BY <1>8, <2>1 DEF Replace
    <3>2. call' \in [Thread -> Call]
      <4> DEFINE c == [call[t] EXCEPT !.stage = "body"]
      <4>1. call \in [Thread -> Call] /\ call' = [call EXCEPT ![t] = c]
        BY <3>1 DEF TypeOK
      <4>2. c \in Call
        BY <4>1 DEF Call
      <4> HIDE DEF c
      <4>3. QED
        BY <4>1, <4>2
    <3>3. TypeOK'
      BY <1>8, <2>1, <3>1, <3>2 DEF TypeOK, Replace
    <3>4. CallOK'
      BY <1>8, <3>1 DEF TypeOK, CallOK, Replace, Call
    <3> QED
      BY <3>3, <3>4
  <2>2. CASE call[t].stage # "refresh"
    <3> DEFINE r == call[t].id
               s == IF call[t].op = "create" THEN born[r].status ELSE Verdict(call[t].op)
    <3>1. Finish(t) /\ acked' = acked \cup {<<r, s>>}
      BY <1>8, <2>2 DEF Replace
    <3>2. r \in Request
      BY <1>8 DEF Replace, CallOK
    <3>3. s \in Status
      <4>1. CASE call[t].op = "create"
        <5>1. born[r] \in Record
          BY <1>8, <3>2, <4>1 DEF Replace, CallOK, TypeOK, Table, Slot
        <5> QED
          BY <4>1, <5>1 DEF Record
      <4>2. CASE call[t].op # "create"
        BY <4>2 DEF Verdict, Status, Open, Decided
      <4> QED
        BY <4>1, <4>2
    <3> HIDE DEF s
    <3>4. acked' \subseteq Request \X Status
      BY <3>1, <3>2, <3>3 DEF TypeOK
    <3>5. TypeOK'
      BY <1>8, <3>1, <3>4, FinishType DEF TypeOK, Replace
    <3>6. CallOK'
      BY <1>8, <3>1 DEF TypeOK, CallOK, Replace, Finish
    <3> QED
      BY <3>5, <3>6
  <2> QED
    BY <2>1, <2>2
<1>9. ASSUME NEW t \in Thread, PersistFails(t) \/ PersistFailsLate(t)
      PROVE  TInv'
  <2>1. Undo(t) /\ Finish(t)
    BY <1>9 DEF PersistFails, PersistFailsLate, Undo
  <2>2. Override(memory[Home[t]], touched[t], old[t]) \in Table
    BY OverrideType DEF ApprovalAssumption, TypeOK
  <2>3. disk' \in Table
    BY <1>9 DEF PersistFails, PersistFailsLate, TypeOK
  <2>4. TypeOK'
    BY <2>1, <2>2, <2>3, FinishType DEF TypeOK, Undo, ghosts
  <2>5. CallOK'
    BY <2>1 DEF TypeOK, CallOK, Undo, Finish, ghosts
  <2> QED
    BY <2>4, <2>5
<1>10. ASSUME NEW p \in Process, Crash(p)
       PROVE  TInv'
  BY <1>10 DEF TypeOK, CallOK, Crash, ghosts
<1>11. ASSUME NEW p \in Process, Restart(p)
       PROVE  TInv'
  BY <1>11 DEF TypeOK, CallOK, Restart, locals, ghosts
<1>12. CASE Tick
  BY <1>12 DEF TypeOK, CallOK, Tick, store, locals, ghosts
<1>13. CASE UNCHANGED vars
  BY <1>13 DEF TypeOK, CallOK, vars, store, locals, ghosts
<1> QED
  BY TextTypes, <1>1, <1>2, <1>3, <1>4, <1>5, <1>6, <1>7, <1>8, <1>9, <1>10, <1>11, <1>12, <1>13
  DEF Next, Start

\* Every variable keeps its type in every reachable state, for any number of
\* requests, threads and processes.
THEOREM TypeCorrect == Spec => []TypeOK
<1>1. ApprovalAssumption
  BY ApprovalAssumption
<1>2. Init => TInv
  BY <1>1, InitTInv
<1>3. TInv /\ [Next]_vars => TInv'
  BY <1>1, StepTInv
<1>4. TInv => TypeOK
  BY DEF TInv
<1>5. QED
  BY <1>2, <1>3, <1>4, PTL DEF Spec

-----------------------------------------------------------------------------
(***************************************************************************)
(* The inductive invariant. A copy c of a request that was created as b is *)
(* good at time n when it may be loaded again and tells the truth about    *)
(* what happened to b. Every copy is good, wherever it is: the steps only  *)
(* move copies around, and the three writers make good copies of good      *)
(* ones, however old the copy is that they started from.                   *)
(***************************************************************************)
Good(c, b, n) ==
    \/ c = Absent
    \/ /\ b # Absent
       /\ c \in Record
       /\ Consistent(c)
       /\ c.expiresAt = b.expiresAt
       /\ c.status = "approved" => c.decidedBy \in Approver
       /\ c.status = "expired" => b.status = "pending" /\ n >= b.expiresAt
       /\ b.status = "denied" => c = b

GoodBirth(b) ==
    b # Absent => b.status \in {"pending", "denied"} /\ b \in Record /\ Consistent(b)

AllGood ==
    \A r \in Request :
        /\ GoodBirth(born[r])
        /\ Good(disk[r], born[r], now)
        /\ \A p \in Process : Good(memory[p][r], born[r], now)
        /\ \A t \in Thread : /\ Good(next[t][r], born[r], now)
                             /\ Good(old[t][r], born[r], now)
                             /\ Good(image[t][r], born[r], now)

IInv == TInv /\ AllGood

LEMMA AbsentIsGood == ASSUME NEW b, NEW n PROVE Good(Absent, b, n)
BY DEF Good

\* A good copy stays good while time passes and the request exists.
LEMMA GoodIsStable ==
    ASSUME NEW c, NEW b, NEW b2, NEW n \in Nat, NEW n2 \in Nat,
           b # Absent => b2 = b, b \in Slot, n2 >= n, Good(c, b, n)
    PROVE  Good(c, b2, n2)
<1>1. CASE c = Absent
  BY <1>1 DEF Good
<1>2. CASE c # Absent
  <2>1. b # Absent /\ b \in Record /\ b2 = b
    BY <1>2 DEF Good, Slot
  <2>2. b.expiresAt \in Nat
    BY <2>1 DEF Record
  <2>3. n >= b.expiresAt => n2 >= b.expiresAt
    BY <2>2
  <2> QED
    BY <1>2, <2>1, <2>3 DEF Good
<1> QED
  BY <1>1, <1>2

\* _decide turns a good pending copy into a good decided one.
LEMMA DecidedIsGood ==
    ASSUME ApprovalAssumption, NEW rec, NEW b, NEW n, Good(rec, b, n),
           NEW verdict \in Decided, NEW by \in Approver,
           NEW reason \in Text, MayDecide(rec, by)
    PROVE  Good(DecidedCopy(rec, verdict, by, reason), b, n)
<1> DEFINE d == DecidedCopy(rec, verdict, by, reason)
<1>1. /\ rec \in Record /\ b # Absent /\ rec.expiresAt = b.expiresAt
      /\ b.status # "denied" /\ rec.actor # by
  BY DEF Good, MayDecide, Absent
<1>2. d \in Record
  BY <1>1, DecidedRecords
<1>3. /\ d.status = verdict /\ d.decidedBy = by /\ d.actor = rec.actor
      /\ d.expiresAt = rec.expiresAt /\ d.seal = ApprovalHash(d)
  BY <1>1 DEF DecidedCopy, Record, ApprovalHash
<1>4. by # None
  BY DEF ApprovalAssumption
<1> HIDE DEF d
<1>5. Consistent(d)
  BY <1>1, <1>3, <1>4 DEF Consistent, Decided
<1>6. QED
  BY <1>1, <1>2, <1>3, <1>5 DEF Good, Decided, d

\* _refresh_expired turns a good stale copy into a good expired one.
LEMMA ExpiredIsGood ==
    ASSUME ApprovalAssumption, NEW rec, NEW b, Good(rec, b, now), GoodBirth(b), Stale(rec)
    PROVE  Good(ExpiredCopy(rec), b, now)
<1> DEFINE e == ExpiredCopy(rec)
<1>1. rec \in Record /\ b # Absent /\ rec.expiresAt = b.expiresAt
  BY DEF Good, Stale, Open, Absent
<1>2. b.status = "pending" /\ now >= b.expiresAt
  BY <1>1 DEF Good, GoodBirth, Stale, Open, Absent
<1>3. e \in Record
  BY <1>1, ExpiredRecords
<1>4. e.status = "expired" /\ e.decidedBy = "system" /\ e.expiresAt = b.expiresAt
  BY <1>1 DEF ExpiredCopy, Record
<1> HIDE DEF e
<1>5. Consistent(e)
  BY <1>4 DEF Consistent, Decided, ApprovalAssumption
<1>6. QED
  BY <1>1, <1>2, <1>3, <1>4, <1>5 DEF Good, e

\* create_pending and create_denied make a good first copy.
LEMMA FirstIsGood ==
    ASSUME ApprovalAssumption, TypeOK, NEW u \in Requester, NEW denied \in BOOLEAN,
           NEW action \in Text, NEW reason \in Text, NEW n
    PROVE  LET rec == IF denied THEN DeniedRequest(u, action, reason)
                                ELSE PendingRequest(u, action, reason)
           IN  GoodBirth(rec) /\ Good(rec, rec, n)
<1>1. PendingRequest(u, action, reason) \in Record /\ DeniedRequest(u, action, reason) \in Record
  BY NewRecords DEF TypeOK
<1>2. /\ PendingRequest(u, action, reason).status = "pending"
      /\ Consistent(PendingRequest(u, action, reason))
  BY DEF PendingRequest, Consistent, Decided
<1>3. /\ DeniedRequest(u, action, reason).status = "denied"
      /\ DeniedRequest(u, action, reason).decidedBy = "policy"
      /\ DeniedRequest(u, action, reason).seal = None
  BY DEF DeniedRequest, PendingRequest
<1>4. Consistent(DeniedRequest(u, action, reason))
  BY <1>3 DEF Consistent, Decided, ApprovalAssumption
<1>5. QED
  BY <1>1, <1>2, <1>3, <1>4 DEF Good, GoodBirth

\* No step moves the clock back or changes what a request was created with.
LEMMA Monotone ==
    ASSUME ApprovalAssumption, TInv, [Next]_vars, NEW r \in Request
    PROVE  /\ now \in Nat /\ now' \in Nat /\ now' >= now
           /\ born[r] \in Slot
           /\ born[r] # Absent => born'[r] = born[r]
<1>1. now \in Nat /\ born[r] \in Slot
  BY DEF TInv, TypeOK, Table
<1>2. CASE UNCHANGED <<now, born>>
  BY <1>1, <1>2
<1>3. CASE Tick
  BY <1>1, <1>3 DEF Tick, ghosts
<1>4. ASSUME NEW t \in Thread, NEW q \in Request, NEW u \in Requester,
             NEW denied \in BOOLEAN, NEW action \in Text, NEW reason \in Text,
             StartCreate(t, q, u, denied, action, reason)
      PROVE  now' = now /\ (born[r] # Absent => born'[r] = born[r])
  BY <1>4 DEF StartCreate, TInv, TypeOK, Table
<1>5. ASSUME NEW t \in Thread, NEW q \in Request, NEW u, NEW op, StartLookup(t, q, u, op)
      PROVE  UNCHANGED <<now, born>>
  BY <1>5 DEF StartLookup, ghosts
<1>6. ASSUME NEW t \in Thread,
             \/ Scan(t) \/ ScanAborts(t) \/ Get(t) \/ Refuse(t) \/ Write(t)
             \/ (\E why : Decide(t, why))
             \/ Dump(t) \/ Replace(t) \/ PersistFails(t) \/ PersistFailsLate(t)
      PROVE  UNCHANGED <<now, born>>
  BY <1>6 DEF Scan, ScanAborts, Get, Decide, Refuse, Write, Dump, Replace, PersistFails,
     PersistFailsLate, Undo, ghosts
<1>7. ASSUME NEW p \in Process, Crash(p) \/ Restart(p)
      PROVE  UNCHANGED <<now, born>>
  BY <1>7 DEF Crash, Restart, ghosts
<1>8. CASE UNCHANGED vars
  BY <1>1, <1>8 DEF vars, ghosts
<1> QED
  BY TextTypes, <1>1, <1>2, <1>3, <1>4, <1>5, <1>6, <1>7, <1>8 DEF Next, Start

\* Where no writer is at work every copy of the next state is a copy of the
\* present one, or none.
LEMMA MovedIsGood ==
    ASSUME ApprovalAssumption, IInv, [Next]_vars, NEW r \in Request, NEW c,
           \/ c = Absent
           \/ c = disk[r]
           \/ \E p \in Process : c = memory[p][r]
           \/ \E t \in Thread : c \in {next[t][r], old[t][r], image[t][r]}
    PROVE  Good(c, born'[r], now')
<1>1. Good(c, born[r], now)
  BY AbsentIsGood DEF IInv, AllGood
<1>2. QED
  BY <1>1, Monotone, GoodIsStable DEF IInv

LEMMA StepAllGood ==
    ASSUME ApprovalAssumption, IInv, [Next]_vars
    PROVE  AllGood'
<1> USE ApprovalAssumption
<1>1. SUFFICES ASSUME NEW r \in Request
               PROVE  /\ GoodBirth(born'[r])
                      /\ Good(disk'[r], born'[r], now')
                      /\ \A p \in Process : Good(memory'[p][r], born'[r], now')
                      /\ \A t \in Thread : /\ Good(next'[t][r], born'[r], now')
                                           /\ Good(old'[t][r], born'[r], now')
                                           /\ Good(image'[t][r], born'[r], now')
  BY DEF AllGood
<1> DEFINE Goal == /\ GoodBirth(born'[r])
                   /\ Good(disk'[r], born'[r], now')
                   /\ \A p \in Process : Good(memory'[p][r], born'[r], now')
                   /\ \A t \in Thread : /\ Good(next'[t][r], born'[r], now')
                                        /\ Good(old'[t][r], born'[r], now')
                                        /\ Good(image'[t][r], born'[r], now')
           Kept(c) == \/ c = Absent
                      \/ c = disk[r]
                      \/ \E p \in Process : c = memory[p][r]
                      \/ \E t \in Thread : c \in {next[t][r], old[t][r], image[t][r]}
<1>2. /\ GoodBirth(born[r]) /\ TInv /\ TypeOK
      /\ \A t \in Thread : Home[t] \in Process
      /\ Nothing[r] = Absent
  BY DEF IInv, TInv, AllGood, ApprovalAssumption, Nothing
<1>3. \A c : Kept(c) => Good(c, born'[r], now')
  BY MovedIsGood
<1>4. ASSUME GoodBirth(born'[r]), Kept(disk'[r]),
             \A p \in Process : Kept(memory'[p][r]),
             \A t \in Thread : Kept(next'[t][r]) /\ Kept(old'[t][r]) /\ Kept(image'[t][r])
      PROVE  Goal
  BY <1>3, <1>4
<1> HIDE DEF Goal
<1> SUFFICES Goal
  BY DEF Goal
<1>5. ASSUME NEW t \in Thread, NEW q \in Request, NEW u \in Requester,
             NEW denied \in BOOLEAN, NEW action \in Text, NEW reason \in Text,
             StartCreate(t, q, u, denied, action, reason)
      PROVE  Goal
  <2> DEFINE rec == IF denied THEN DeniedRequest(u, action, reason)
                              ELSE PendingRequest(u, action, reason)
  <2>1. GoodBirth(rec) /\ Good(rec, rec, now)
    BY <1>2, FirstIsGood
  <2> HIDE DEF rec
  <2>2. /\ born' = [born EXCEPT ![q] = rec]
        /\ next' = [next EXCEPT ![t] = [Nothing EXCEPT ![q] = rec]]
        /\ UNCHANGED <<now, memory, disk, old, image>>
    BY <1>5 DEF StartCreate, store, rec
  <2>3. GoodBirth(born'[r])
    BY <1>2, <2>1, <2>2 DEF TypeOK, Table
  <2>4. ASSUME NEW x \in Thread
        PROVE  Good(next'[x][r], born'[r], now')
    <3>1. CASE x = t /\ r = q
      BY <1>2, <2>1, <2>2, <3>1 DEF TypeOK, Table, Nothing
    <3>2. CASE x = t /\ r # q
      BY <1>2, <2>2, <3>2, AbsentIsGood DEF TypeOK, Nothing
    <3>3. CASE x # t
      BY <1>2, <1>3, <2>2, <3>3 DEF TypeOK
    <3> QED
      BY <3>1, <3>2, <3>3
  <2>5. QED
    BY <1>3, <2>2, <2>3, <2>4 DEF Goal
<1>6. ASSUME NEW t \in Thread, NEW q \in Request, NEW u, NEW op, StartLookup(t, q, u, op)
      PROVE  Goal
  BY <1>2, <1>4, <1>6 DEF StartLookup, store, ghosts
<1>7. ASSUME NEW t \in Thread, Scan(t)
      PROVE  Goal
  <2> DEFINE rec == memory[Home[t]][r]
  <2>1. /\ next'[t][r] = IF Stale(rec) THEN ExpiredCopy(rec) ELSE Absent
        /\ \A x \in Thread \ {t} : next'[x] = next[x]
        /\ UNCHANGED <<now, memory, disk, old, image, born>>
    BY <1>2, <1>7 DEF Scan, store, ghosts, TypeOK
  <2>2. Good(rec, born[r], now)
    BY <1>2 DEF IInv, AllGood
  <2>3. Good(next'[t][r], born'[r], now')
    BY <1>2, <2>1, <2>2, ExpiredIsGood, AbsentIsGood
  <2>4. QED
    BY <1>2, <1>3, <2>1, <2>3 DEF Goal
<1>8. ASSUME NEW t \in Thread, ScanAborts(t) \/ Get(t) \/ Refuse(t)
      PROVE  Goal
  BY <1>2, <1>4, <1>8 DEF ScanAborts, Get, Refuse, Finish, store, ghosts, TypeOK
<1>9. ASSUME NEW t \in Thread, NEW reason \in Text, Decide(t, reason)
      PROVE  Goal
  <2> DEFINE q   == call[t].id
             rec == memory[Home[t]][q]
             new == DecidedCopy(rec, Verdict(call[t].op), call[t].by, reason)
  <2>1. q \in Request /\ call[t].by \in Approver /\ MayDecide(rec, call[t].by)
    BY <1>2, <1>9 DEF Decide, TInv, CallOK
  <2>2. Good(rec, born[q], now)
    BY <1>2, <2>1 DEF IInv, AllGood
  <2>3. Good(new, born[q], now)
    BY <2>1, <2>2, DecidedIsGood DEF Verdict, Decided
  <2>4. /\ next' = [next EXCEPT ![t] = [Nothing EXCEPT ![q] = new]]
        /\ old' = [old EXCEPT ![t] = [Nothing EXCEPT ![q] = rec]]
        /\ UNCHANGED <<now, memory, disk, image, born>>
    BY <1>9 DEF Decide, store, ghosts
  <2> HIDE DEF new
  <2>5. ASSUME NEW x \in Thread
        PROVE  Good(next'[x][r], born'[r], now') /\ Good(old'[x][r], born'[r], now')
    <3>1. CASE x = t /\ r = q
      BY <1>2, <2>2, <2>3, <2>4, <3>1 DEF TypeOK, Nothing
    <3>2. CASE x = t /\ r # q
      BY <1>2, <2>4, <3>2, AbsentIsGood DEF TypeOK, Nothing
    <3>3. CASE x # t
      BY <1>2, <1>3, <2>4, <3>3 DEF TypeOK
    <3> QED
      BY <3>1, <3>2, <3>3
  <2>6. QED
    BY <1>2, <1>3, <2>4, <2>5 DEF Goal
<1>10. ASSUME NEW t \in Thread, Write(t)
       PROVE  Goal
  <2>1. \A p \in Process : memory'[p][r] \in {memory[p][r], next[t][r]}
    BY <1>2, <1>10 DEF Write, Override, TypeOK
  <2>2. \A x \in Thread : /\ old'[x][r] \in {old[x][r], memory[Home[t]][r], Absent}
                          /\ next'[x][r] \in {next[x][r], Absent}
    BY <1>2, <1>10 DEF Write, Override, TypeOK
  <2>3. UNCHANGED <<now, disk, image, born>>
    BY <1>10 DEF Write, ghosts
  <2>4. QED
    BY <1>2, <1>4, <2>1, <2>2, <2>3
<1>11. ASSUME NEW t \in Thread, Dump(t)
       PROVE  Goal
  BY <1>2, <1>4, <1>11 DEF Dump, store, ghosts, TypeOK
<1>12. ASSUME NEW t \in Thread, Replace(t)
       PROVE  Goal
  <2>1. /\ disk'[r] = image[t][r]
        /\ UNCHANGED <<now, memory, born>>
    BY <1>12 DEF Replace
  <2>2. \A x \in Thread : /\ next'[x][r] \in {next[x][r], Absent}
                          /\ old'[x][r] \in {old[x][r], Absent}
                          /\ image'[x][r] \in {image[x][r], Absent}
    BY <1>2, <1>12 DEF Replace, Finish, TypeOK
  <2>3. QED
    BY <1>2, <1>4, <2>1, <2>2
<1>13. ASSUME NEW t \in Thread, PersistFails(t) \/ PersistFailsLate(t)
       PROVE  Goal
  <2>1. Undo(t) /\ disk'[r] \in {disk[r], image[t][r]}
    BY <1>13 DEF PersistFails, PersistFailsLate
  <2>2. \A p \in Process : memory'[p][r] \in {memory[p][r], old[t][r]}
    BY <1>2, <2>1 DEF Undo, Override, TypeOK
  <2>3. \A x \in Thread : /\ next'[x][r] \in {next[x][r], Absent}
                          /\ old'[x][r] \in {old[x][r], Absent}
                          /\ image'[x][r] \in {image[x][r], Absent}
    BY <1>2, <2>1 DEF Undo, Finish, TypeOK
  <2>4. UNCHANGED <<now, born>>
    BY <2>1 DEF Undo, ghosts
  <2>5. QED
    BY <1>2, <1>4, <2>1, <2>2, <2>3, <2>4
<1>14. ASSUME NEW p \in Process, Crash(p)
       PROVE  Goal
  <2>1. \A x \in Process : memory'[x][r] \in {memory[x][r], Absent}
    BY <1>2, <1>14 DEF Crash, TypeOK
  <2>2. \A x \in Thread : /\ next'[x][r] \in {next[x][r], Absent}
                          /\ old'[x][r] \in {old[x][r], Absent}
                          /\ image'[x][r] \in {image[x][r], Absent}
    BY <1>2, <1>14 DEF Crash, TypeOK
  <2>3. QED
    BY <1>2, <1>4, <1>14, <2>1, <2>2 DEF Crash, ghosts
<1>15. ASSUME NEW p \in Process, Restart(p)
       PROVE  Goal
  <2>1. \A x \in Process : memory'[x][r] \in {memory[x][r], disk[r]}
    BY <1>2, <1>15 DEF Restart, TypeOK
  <2>2. QED
    BY <1>2, <1>4, <1>15, <2>1 DEF Restart, locals, ghosts
<1>16. CASE Tick \/ UNCHANGED vars
  <2>1. UNCHANGED <<memory, disk, next, old, image, born>>
    BY <1>16 DEF Tick, vars, store, locals, ghosts
  <2>2. QED
    BY <1>2, <1>4, <2>1
<1>17. CASE \E t \in Thread : Start(t)
  <2>1. PICK t \in Thread : Start(t)
    BY <1>17
  <2>2. CASE \E q \in Request, u \in Requester, denied \in BOOLEAN,
                action \in Text, reason \in Text : StartCreate(t, q, u, denied, action, reason)
    BY <1>5, <2>2
  <2>3. CASE \E q \in Request : \/ \E u \in Approver, op \in {"approve", "deny"} :
                                    StartLookup(t, q, u, op)
                                \/ StartLookup(t, q, None, "get")
    BY <1>6, <2>3
  <2>4. QED
    BY TextTypes, <2>1, <2>2, <2>3 DEF Start
<1>18. QED
  <2>1. CASE \E t \in Thread : \/ Scan(t) \/ ScanAborts(t) \/ Get(t) \/ Refuse(t)
                              \/ \E reason \in Text : Decide(t, reason)
    BY <1>7, <1>8, <1>9, <2>1
  <2>2. CASE \E t \in Thread : \/ Write(t) \/ Dump(t) \/ Replace(t)
                              \/ PersistFails(t) \/ PersistFailsLate(t)
    BY <1>10, <1>11, <1>12, <1>13, <2>2
  <2>3. CASE \E p \in Process : Crash(p) \/ Restart(p)
    BY <1>14, <1>15, <2>3
  <2>4. QED
    BY <1>16, <1>17, <2>1, <2>2, <2>3 DEF Next

LEMMA InitAllGood == ApprovalAssumption /\ Init => AllGood
<1> SUFFICES ASSUME ApprovalAssumption, Init, NEW r \in Request
             PROVE  /\ GoodBirth(born[r])
                    /\ Good(disk[r], born[r], now)
                    /\ \A p \in Process : Good(memory[p][r], born[r], now)
                    /\ \A t \in Thread : /\ Good(next[t][r], born[r], now)
                                         /\ Good(old[t][r], born[r], now)
                                         /\ Good(image[t][r], born[r], now)
  BY DEF AllGood
<1>1. Nothing[r] = Absent
  BY DEF Nothing
<1>2. disk[r] = Absent /\ born[r] = Absent
  BY <1>1 DEF Init
<1>3. \A p \in Process : memory[p][r] = Absent
  BY <1>1 DEF Init
<1>4. \A t \in Thread : next[t][r] = Absent /\ old[t][r] = Absent /\ image[t][r] = Absent
  BY <1>1 DEF Init
<1>5. GoodBirth(born[r])
  BY <1>2 DEF GoodBirth
<1>6. QED
  BY <1>2, <1>3, <1>4, <1>5, AbsentIsGood

LEMMA InductiveInvariant == Spec => []IInv
<1>1. ApprovalAssumption
  BY ApprovalAssumption
<1>2. Init => IInv
  BY <1>1, InitTInv, InitAllGood DEF IInv
<1>3. IInv /\ [Next]_vars => IInv'
  BY <1>1, StepTInv, StepAllGood DEF IInv
<1>4. QED
  BY <1>2, <1>3, PTL DEF Spec

-----------------------------------------------------------------------------
\* Nobody approves a request of his own, and only users with the permission
\* approve, in every copy of every record, whatever the threads, the failed
\* writes and the restarts do.
THEOREM DutiesAreSeparate == Spec => []SeparationOfDuties
<1>1. IInv => SeparationOfDuties
  <2> SUFFICES ASSUME IInv, NEW r \in Request, NEW c \in Copies(r), c.status = "approved"
               PROVE  c.decidedBy \in Approver /\ c.decidedBy # c.actor
    BY DEF SeparationOfDuties
  <2>1. Good(c, born[r], now) /\ c # Absent
    BY DEF IInv, AllGood, Copies, Absent
  <2>2. QED
    BY <2>1 DEF Good, Consistent
<1>2. QED
  BY <1>1, InductiveInvariant, PTL

\* A denial by the policy is final in every copy.
THEOREM DenialIsFinal == Spec => []PolicyDenialStands
<1>1. IInv => PolicyDenialStands
  BY DEF IInv, AllGood, Good, PolicyDenialStands, Copies
<1>2. QED
  BY <1>1, InductiveInvariant, PTL

\* Nothing is retired before its deadline.
THEOREM ExpiryIsTimely == Spec => []ExpiryIsJustified
<1>1. IInv => ExpiryIsJustified
  BY DEF IInv, AllGood, Good, ExpiryIsJustified, Copies, Absent
<1>2. QED
  BY <1>1, InductiveInvariant, PTL

\* After a crash at any step nothing but odd text keeps the file from loading.
THEOREM OnlyTextKeepsItDown == Spec => []OnlyTextRefuses
<1>1. Consistent(Absent)
  BY DEF Consistent, Absent, Decided
<1>2. IInv => OnlyTextRefuses
  BY <1>1 DEF IInv, AllGood, Good, OnlyTextRefuses, Decodable
<1>3. QED
  BY <1>2, InductiveInvariant, PTL
-----------------------------------------------------------------------------
(***************************************************************************)
(* A store with one thread in one process. Saving the file may fail after  *)
(* the file was replaced, so the file and the memory may differ; but the   *)
(* file is never more than one operation ahead of what the callers know    *)
(* (Base), and the write in hand is one operation, too.                    *)
(***************************************************************************)
Alone(t, p) == Thread = {t} /\ Process = {p}

\* What the store holds for certain, as the callers of its only thread see it.
Base(t, p) ==
    [r \in Request |->
        IF ~up[p] THEN disk[r]
        ELSE IF pc[t] \in {"dump", "replace"} /\ r \in touched[t] THEN old[t][r]
        ELSE memory[p][r]]

Same(A, B, S) == \A r \in Request : r \notin S => B[r] = A[r]

\* Table B is table A, or A after one operation of the store, when requests
\* were created as b and the time is n.
Ahead(A, B, b, n) ==
    \/ Same(A, B, {})
    \/ \E q \in Request :
           /\ Same(A, B, {q})
           /\ A[q] = Absent /\ B[q] = b[q] /\ b[q] # Absent
    \/ \E q \in Request, by \in Approver, verdict \in Decided, why \in Text :
           /\ Same(A, B, {q})
           /\ MayDecide(A[q], by) /\ B[q] = DecidedCopy(A[q], verdict, by, why)
    \/ \E S \in SUBSET Request :
           /\ Same(A, B, S)
           /\ \A r \in S : /\ A[r].status \in Open /\ n >= A[r].expiresAt
                           /\ B[r] = ExpiredCopy(A[r])

\* What the caller of t is told when its call succeeds.
Outcome(t) == IF call[t].op = "create" THEN born[call[t].id].status ELSE Verdict(call[t].op)

\* The write that t is about to do is one operation, and can be undone.
Writing(t, p) ==
    pc[t] = "write" =>
        /\ Ahead(memory[p], Override(memory[p], touched[t], next[t]), born, now)
        /\ call[t].stage = "body" =>
               /\ \A r \in touched[t] : old[t][r] = memory[p][r]
               /\ call[t].id \in touched[t]
               /\ next[t][call[t].id].status = Outcome(t)

\* It is done in memory and not yet saved.
Saving(t, p) ==
    /\ pc[t] \in {"dump", "replace"} =>
           /\ Ahead(Base(t, p), memory[p], born, now)
           /\ call[t].stage = "body" => memory[p][call[t].id].status = Outcome(t)
    /\ pc[t] = "replace" => image[t] = memory[p]

\* A lookup has retired, or is about to retire, what had expired when it began.
Fresh(t, p) ==
    /\ \/ pc[t] = "body"
       \/ pc[t] \in {"dump", "replace"} /\ call[t].stage = "refresh"
       => \A r \in Request : memory[p][r].status \in Open => memory[p][r].expiresAt > call[t].began
    /\ pc[t] = "write" /\ call[t].stage = "refresh" =>
           /\ \A r \in Request :
                  IF r \in touched[t] THEN next[t][r].status = "expired"
                  ELSE memory[p][r].status \in Open => memory[p][r].expiresAt > call[t].began

\* What requests were created with.
Births ==
    \A r \in Request : born[r] # Absent =>
        /\ born[r].expiresAt <= now + Ttl
        /\ born[r].status = "denied" => born[r].decidedBy = "policy"

\* An acknowledged outcome is in the table that cannot be undone.
AckedInBase(t, p) == \A a \in acked : Base(t, p)[a[1]].status \in After(a[2])

SInv(t, p) ==
    /\ ~up[p] => pc[t] = "idle"
    /\ pc[t] \in {"idle", "scan", "body"} => call[t].stage = "body"
    /\ Ahead(Base(t, p), disk, born, now)
    /\ Writing(t, p)
    /\ Saving(t, p)
    /\ Fresh(t, p)
    /\ Births
    /\ AckedInBase(t, p)

\* The three operations.
LEMMA AheadOps ==
    ASSUME NEW A, NEW B, NEW b, NEW n
    PROVE  /\ \A q \in Request :
                 Same(A, B, {q}) /\ A[q] = Absent /\ B[q] = b[q] /\ b[q] # Absent
                 => Ahead(A, B, b, n)
           /\ \A q \in Request, by \in Approver, verdict \in Decided, why \in Text :
                 /\ Same(A, B, {q})
                 /\ MayDecide(A[q], by) /\ B[q] = DecidedCopy(A[q], verdict, by, why)
                 => Ahead(A, B, b, n)
           /\ \A S \in SUBSET Request :
                 /\ Same(A, B, S)
                 /\ \A r \in S : /\ A[r].status \in Open /\ n >= A[r].expiresAt
                                 /\ B[r] = ExpiredCopy(A[r])
                 => Ahead(A, B, b, n)
BY Zenon DEF Ahead

LEMMA AheadStays ==
    ASSUME NEW A \in Table, NEW B, NEW b, NEW b2, NEW n \in Nat, NEW n2 \in Nat, n2 >= n,
           \A q \in Request : b[q] # Absent => b2[q] = b[q],
           Ahead(A, B, b, n)
    PROVE  Ahead(A, B, b2, n2)
<1>1. CASE Same(A, B, {})
  BY <1>1 DEF Ahead
<1>2. ASSUME NEW q \in Request, Same(A, B, {q}), A[q] = Absent, B[q] = b[q], b[q] # Absent
      PROVE  Ahead(A, B, b2, n2)
  <2>1. B[q] = b2[q] /\ b2[q] # Absent
    BY <1>2
  <2>2. QED
    BY <1>2, <2>1 DEF Ahead
<1>3. ASSUME NEW q \in Request, NEW by \in Approver, NEW verdict \in Decided,
             NEW why \in Text, Same(A, B, {q}),
             MayDecide(A[q], by), B[q] = DecidedCopy(A[q], verdict, by, why)
      PROVE  Ahead(A, B, b2, n2)
  BY <1>3 DEF Ahead
<1>4. ASSUME NEW S \in SUBSET Request, Same(A, B, S),
             \A r \in S : /\ A[r].status \in Open /\ n >= A[r].expiresAt
                          /\ B[r] = ExpiredCopy(A[r])
      PROVE  Ahead(A, B, b2, n2)
  <2>1. ASSUME NEW r \in S PROVE n2 >= A[r].expiresAt
    <3>1. A[r] \in Record /\ n >= A[r].expiresAt
      BY <1>4 DEF Table, Slot, Absent, Open
    <3>2. A[r].expiresAt \in Nat
      BY <3>1 DEF Record
    <3>3. QED
      BY <3>1, <3>2
  <2>2. QED
    BY <1>4, <2>1 DEF Ahead
<1>5. QED
  BY <1>1, <1>2, <1>3, <1>4 DEF Ahead

\* One operation goes on from what was acknowledged.
LEMMA AfterStays ==
    ASSUME NEW A \in Table, NEW B, NEW b, NEW n, Ahead(A, B, b, n),
           NEW r \in Request, NEW s \in Status, A[r].status \in After(s)
    PROVE  B[r].status \in After(s)
<1>1. A[r] \in Record
  <2>1. Absent.status = "absent" /\ "absent" \notin After(s)
    BY DEF Absent, After, Status, Open, Decided
  <2>2. QED
    BY <2>1 DEF Table, Slot
<1>2. CASE B[r] = A[r]
  BY <1>2
<1>3. ASSUME NEW by \in Approver, NEW verdict \in Decided, NEW why \in Text,
             MayDecide(A[r], by), B[r] = DecidedCopy(A[r], verdict, by, why)
      PROVE  B[r].status \in After(s)
  <2>1. B[r].status = verdict /\ A[r].status = "pending"
    BY <1>1, <1>3 DEF DecidedCopy, MayDecide, Record
  <2>2. QED
    BY <2>1 DEF After, Status, Open, Decided
<1>4. ASSUME A[r].status \in Open, B[r] = ExpiredCopy(A[r])
      PROVE  B[r].status \in After(s)
  <2>1. B[r].status = "expired"
    BY <1>1, <1>4 DEF ExpiredCopy, Record
  <2>2. QED
    BY <1>4, <2>1 DEF After, Status, Open, Decided
<1>5. A[r] # Absent
  BY <1>1, RecordTypes
<1>6. B[r] = A[r] \/ B[r] # A[r]
  OBVIOUS
<1>7. ASSUME B[r] # A[r]
      PROVE  \/ \E by \in Approver, verdict \in Decided, why \in Text :
                    MayDecide(A[r], by) /\ B[r] = DecidedCopy(A[r], verdict, by, why)
             \/ A[r].status \in Open /\ B[r] = ExpiredCopy(A[r])
  BY <1>5, <1>7 DEF Ahead, Same
<1>8. QED
  BY <1>2, <1>3, <1>4, <1>7

LEMMA BaseType ==
    ASSUME TypeOK, NEW t \in Thread, NEW p \in Process
    PROVE  Base(t, p) \in Table
<1>1. disk \in Table /\ old[t] \in Table /\ memory[p] \in Table
  BY DEF TypeOK
<1>2. QED
  BY <1>1 DEF Base, Table

LEMMA BirthsStep ==
    ASSUME ApprovalAssumption, IInv, Births, [Next]_vars
    PROVE  Births'
<1> SUFFICES ASSUME NEW r \in Request, born'[r] # Absent
             PROVE  /\ born'[r].expiresAt <= now' + Ttl
                    /\ born'[r].status = "denied" => born'[r].decidedBy = "policy"
  BY DEF Births
<1>1. /\ Ttl \in Nat /\ now \in Nat /\ now' \in Nat /\ now' >= now /\ born \in Table
      /\ born[r] # Absent => born'[r] = born[r]
  BY Monotone DEF ApprovalAssumption, IInv, TInv, TypeOK
<1>2. CASE born[r] # Absent
  <2>1. /\ born'[r] = born[r] /\ born[r].expiresAt <= now + Ttl
        /\ born[r].status = "denied" => born[r].decidedBy = "policy"
    BY <1>1, <1>2 DEF Births
  <2>2. born[r].expiresAt \in Nat
    BY <1>1, <1>2 DEF Table, Slot, Record
  <2>3. QED
    BY <1>1, <2>1, <2>2
<1>3. CASE born[r] = Absent
  <2>1. PICK t \in Thread, q \in Request, u \in Requester, denied \in BOOLEAN,
            action \in Text, reason \in Text :
            StartCreate(t, q, u, denied, action, reason)
    <3>1. born' # born
      BY <1>3
    <3>2. ASSUME NEW t \in Thread, NEW q \in Request, NEW u, NEW op, StartLookup(t, q, u, op)
          PROVE  born' = born
      BY <3>2 DEF StartLookup, ghosts
    <3>3. ASSUME NEW t \in Thread,
                 \/ Scan(t) \/ ScanAborts(t) \/ Get(t) \/ Refuse(t) \/ Write(t)
             \/ (\E why : Decide(t, why))
                 \/ Dump(t) \/ Replace(t) \/ PersistFails(t) \/ PersistFailsLate(t)
          PROVE  born' = born
      BY <3>3 DEF Scan, ScanAborts, Get, Decide, Refuse, Write, Dump, Replace, PersistFails,
         PersistFailsLate, Undo, ghosts
    <3>4. ASSUME NEW p \in Process, Crash(p) \/ Restart(p)
          PROVE  born' = born
      BY <3>4 DEF Crash, Restart, ghosts
    <3>5. ASSUME Tick \/ UNCHANGED vars
          PROVE  born' = born
      BY <3>5 DEF Tick, vars, ghosts
    <3>6. QED
      BY TextTypes, <3>1, <3>2, <3>3, <3>4, <3>5 DEF Next, Start
  <2>2. /\ born' = [born EXCEPT ![q] = IF denied THEN DeniedRequest(u, action, reason)
                                                 ELSE PendingRequest(u, action, reason)]
        /\ now' = now
    BY <2>1 DEF StartCreate
  <2>3. r = q /\ born'[q] = IF denied THEN DeniedRequest(u, action, reason)
                                      ELSE PendingRequest(u, action, reason)
    BY <1>1, <1>3, <2>2 DEF Table
  <2>4. /\ PendingRequest(u, action, reason).expiresAt = now + Ttl
        /\ PendingRequest(u, action, reason).status = "pending"
        /\ DeniedRequest(u, action, reason).expiresAt = now + Ttl
        /\ DeniedRequest(u, action, reason).decidedBy = "policy"
    BY DEF PendingRequest, DeniedRequest
  <2>5. now + Ttl <= now + Ttl
    BY <1>1
  <2>6. QED
    BY <2>2, <2>3, <2>4, <2>5
<1>4. QED
  BY <1>2, <1>3

\* A table stays within reach while requests are created and time passes.
LEMMA AheadOn ==
    ASSUME ApprovalAssumption, IInv, [Next]_vars, NEW A \in Table, NEW B, Ahead(A, B, born, now)
    PROVE  Ahead(A, B, born', now')
<1>1. CASE Request = {}
  BY <1>1 DEF Ahead, Same
<1>2. CASE Request # {}
  BY <1>2, Monotone, AheadStays DEF IInv
<1>3. QED
  BY <1>1, <1>2

\* What is certain after a step is one operation ahead of what was.
Moved(t, p) == now' = now /\ Ahead(Base(t, p), Base(t, p)', born, now)

LEMMA AheadSame == \A A, b, n : Ahead(A, A, b, n)
BY DEF Ahead, Same

\* A step that leaves Base and the file alone.
LEMMA BaseStays ==
    ASSUME ApprovalAssumption, IInv, [Next]_vars, NEW t \in Thread, NEW p \in Process,
           SInv(t, p), UNCHANGED <<Base(t, p), disk, acked>>
    PROVE  Ahead(Base(t, p), disk, born, now)' /\ AckedInBase(t, p)'
<1>1. Base(t, p) \in Table
  BY BaseType DEF IInv, TInv
<1>2. Ahead(Base(t, p), disk, born', now')
  BY <1>1, AheadOn DEF SInv
<1>3. QED
  BY <1>2 DEF AckedInBase, SInv

\* A thread that is idle after the step.
LEMMA IdleThen ==
    ASSUME NEW t \in Thread, NEW p \in Process, pc'[t] = "idle", call'[t] = NoCall,
           Ahead(Base(t, p), disk, born, now)', AckedInBase(t, p)', Births'
    PROVE  SInv(t, p)'
BY DEF SInv, Writing, Saving, Fresh, NoCall

LEMMA BaseIs ==
    ASSUME NEW t, NEW p
    PROVE  /\ Base(t, p) = [r \in Request |->
                  IF ~up[p] THEN disk[r]
                  ELSE IF pc[t] \in {"dump", "replace"} /\ r \in touched[t] THEN old[t][r]
                  ELSE memory[p][r]]
           /\ Base(t, p)' = [r \in Request |->
                  IF ~up'[p] THEN disk'[r]
                  ELSE IF pc'[t] \in {"dump", "replace"} /\ r \in touched'[t] THEN old'[t][r]
                  ELSE memory'[p][r]]
BY DEF Base

\* The two forms of an end of a call that was not saved.
LEMMA SEnds ==
    ASSUME ApprovalAssumption, IInv, [Next]_vars, NEW t \in Thread, NEW p \in Process,
           Alone(t, p), SInv(t, p), ScanAborts(t) \/ Get(t) \/ Refuse(t)
    PROVE  SInv(t, p)' /\ Moved(t, p)
<1>1. /\ pc[t] \in {"scan", "body"} /\ pc' = [pc EXCEPT ![t] = "idle"]
      /\ call' = [call EXCEPT ![t] = NoCall]
      /\ UNCHANGED <<now, up, memory, disk, born, acked>>
  BY DEF ScanAborts, Get, Refuse, Finish, store, ghosts
<1>2. pc'[t] = "idle" /\ call'[t] = NoCall
  BY <1>1 DEF IInv, TInv, TypeOK
<1>3. Base(t, p)' = Base(t, p)
  BY <1>1, <1>2, BaseIs
<1>4. Births'
  BY BirthsStep DEF SInv
<1>5. SInv(t, p)'
  BY <1>1, <1>2, <1>3, <1>4, BaseStays, IdleThen
<1>6. Moved(t, p)
  BY <1>1, <1>3, AheadSame DEF Moved
<1>7. QED
  BY <1>5, <1>6

LEMMA SFails ==
    ASSUME ApprovalAssumption, IInv, [Next]_vars, NEW t \in Thread, NEW p \in Process,
           Alone(t, p), SInv(t, p), PersistFails(t) \/ PersistFailsLate(t)
    PROVE  SInv(t, p)' /\ Moved(t, p)
<1>1. Home[t] = p /\ TypeOK /\ memory[p] \in Table
  BY DEF Alone, ApprovalAssumption, IInv, TInv, TypeOK
<1>2. /\ pc[t] \in {"dump", "replace"} /\ pc' = [pc EXCEPT ![t] = "idle"]
      /\ call' = [call EXCEPT ![t] = NoCall]
      /\ memory' = [memory EXCEPT ![p] = Override(memory[p], touched[t], old[t])]
      /\ UNCHANGED <<now, up, born, acked>>
      /\ disk' = disk \/ (pc[t] = "replace" /\ disk' = image[t])
  BY <1>1 DEF PersistFails, PersistFailsLate, Undo, Finish, ghosts
<1>3. pc'[t] = "idle" /\ call'[t] = NoCall
  BY <1>1, <1>2 DEF TypeOK
<1>4. up[p]
  BY <1>2 DEF SInv
<1>5. memory'[p] = Override(memory[p], touched[t], old[t])
  BY <1>1, <1>2 DEF TypeOK
<1>6. Base(t, p)' = Base(t, p)
  BY <1>2, <1>3, <1>4, <1>5, BaseIs DEF Override
<1>7. Base(t, p) \in Table
  BY <1>1, BaseType
<1>8. Ahead(Base(t, p), disk', born, now)
  <2>1. CASE disk' = disk
    BY <2>1 DEF SInv
  <2>2. CASE pc[t] = "replace" /\ disk' = image[t]
    BY <2>2 DEF SInv, Saving
  <2>3. QED
    BY <1>2, <2>1, <2>2
<1>9. AckedInBase(t, p)'
  BY <1>2, <1>6 DEF SInv, AckedInBase
<1>10. Births'
  BY BirthsStep DEF SInv
<1>11. SInv(t, p)'
  BY <1>2, <1>3, <1>6, <1>8, <1>9, <1>10, IdleThen
<1>12. Moved(t, p)
  BY <1>2, <1>6, AheadSame DEF Moved
<1>13. QED
  BY <1>11, <1>12

LEMMA SLookup ==
    ASSUME ApprovalAssumption, IInv, [Next]_vars, NEW t \in Thread, NEW p \in Process,
           Alone(t, p), SInv(t, p), NEW r \in Request, NEW u, NEW op, StartLookup(t, r, u, op)
    PROVE  SInv(t, p)' /\ Moved(t, p)
<1>1. /\ pc[t] = "idle" /\ pc' = [pc EXCEPT ![t] = "scan"] /\ up[Home[t]]
      /\ call' = [call EXCEPT ![t] = [NoCall EXCEPT !.op = op, !.id = r, !.by = u]]
      /\ UNCHANGED <<now, up, memory, disk, born, acked>>
  BY DEF StartLookup, Idle, store, ghosts
<1>2. pc'[t] = "scan" /\ call'[t].stage = "body"
  BY <1>1 DEF IInv, TInv, TypeOK, NoCall
<1>3. Base(t, p)' = Base(t, p)
  BY <1>1, <1>2, BaseIs
<1>4. Births' /\ Home[t] = p
  BY BirthsStep DEF SInv, Alone, ApprovalAssumption
<1>5. Ahead(Base(t, p), disk, born, now)' /\ AckedInBase(t, p)'
  BY <1>1, <1>3, BaseStays
<1>6. SInv(t, p)'
  BY <1>1, <1>2, <1>4, <1>5 DEF SInv, Writing, Saving, Fresh
<1>7. Moved(t, p)
  BY <1>1, <1>3, AheadSame DEF Moved
<1>8. QED
  BY <1>6, <1>7

\* A thread that is about to write.
LEMMA WriteThen ==
    ASSUME NEW t \in Thread, NEW p \in Process, pc'[t] = "write", up'[p], Births',
           Ahead(Base(t, p), disk, born, now)', AckedInBase(t, p)', Writing(t, p)', Fresh(t, p)'
    PROVE  SInv(t, p)'
BY DEF SInv, Saving

LEMMA SCreate ==
    ASSUME ApprovalAssumption, IInv, [Next]_vars, NEW t \in Thread, NEW p \in Process,
           Alone(t, p), SInv(t, p), NEW r \in Request, NEW u \in Requester,
           NEW denied \in BOOLEAN, NEW action \in Text, NEW reason \in Text,
             StartCreate(t, r, u, denied, action, reason)
    PROVE  SInv(t, p)' /\ Moved(t, p)
<1> DEFINE rec == IF denied THEN DeniedRequest(u, action, reason)
                            ELSE PendingRequest(u, action, reason)
<1>1. Home[t] = p /\ TypeOK
  BY DEF Alone, ApprovalAssumption, IInv, TInv
<1>2. /\ pc[t] = "idle" /\ up[p] /\ born[r] = Absent
      /\ born' = [born EXCEPT ![r] = rec]
      /\ pc' = [pc EXCEPT ![t] = "write"]
      /\ call' = [call EXCEPT ![t] = [NoCall EXCEPT !.op = "create", !.id = r,
                                                   !.by = u, !.began = now]]
      /\ touched' = [touched EXCEPT ![t] = {r}]
      /\ next' = [next EXCEPT ![t] = [Nothing EXCEPT ![r] = rec]]
      /\ UNCHANGED <<now, up, memory, disk, old, acked>>
  BY <1>1 DEF StartCreate, Idle, store
<1>3. rec # Absent
  BY <1>1, NewRecords, RecordTypes DEF TypeOK
<1> HIDE DEF rec
<1>4. /\ pc'[t] = "write" /\ call'[t].stage = "body" /\ call'[t].op = "create"
      /\ call'[t].id = r /\ touched'[t] = {r} /\ born'[r] = rec
      /\ next'[t][r] = rec
  BY <1>1, <1>2 DEF TypeOK, Table, NoCall, Nothing
<1>5. memory[p][r] = Absent /\ old[t][r] = Absent
  BY <1>2 DEF IInv, AllGood, Good
<1>6. Base(t, p)' = Base(t, p)
  BY <1>2, <1>4, BaseIs
<1>7. Ahead(Base(t, p), disk, born, now)' /\ AckedInBase(t, p)'
  BY <1>2, <1>6, BaseStays
<1>8. Ahead(memory[p], Override(memory[p], touched'[t], next'[t]), born', now')
  <2> DEFINE over == Override(memory[p], touched'[t], next'[t])
  <2>1. Same(memory[p], over, {r}) /\ over[r] = rec
    BY <1>4 DEF Same, Override
  <2> HIDE DEF over
  <2>2. Ahead(memory[p], over, born', now')
    BY <1>3, <1>4, <1>5, <2>1, AheadOps
  <2>3. QED
    BY <2>2 DEF over
<1>9. Writing(t, p)'
  BY <1>2, <1>4, <1>5, <1>8 DEF Writing, Outcome
<1>10. Fresh(t, p)'
  BY <1>4 DEF Fresh
<1>11. Births'
  BY BirthsStep DEF SInv
<1>12. SInv(t, p)'
  BY <1>2, <1>4, <1>7, <1>9, <1>10, <1>11, WriteThen
<1>13. Moved(t, p)
  BY <1>2, <1>6, AheadSame DEF Moved
<1>14. QED
  BY <1>12, <1>13

LEMMA SScan ==
    ASSUME ApprovalAssumption, IInv, [Next]_vars, NEW t \in Thread, NEW p \in Process,
           Alone(t, p), SInv(t, p), Scan(t)
    PROVE  SInv(t, p)' /\ Moved(t, p)
<1> DEFINE S   == {r \in Request : Stale(memory[p][r])}
           upd == [r \in Request |-> IF r \in S THEN ExpiredCopy(memory[p][r]) ELSE Absent]
<1>1. Home[t] = p /\ TypeOK /\ memory[p] \in Table /\ now \in Nat
  BY DEF Alone, ApprovalAssumption, IInv, TInv, TypeOK
<1>2. /\ pc[t] = "scan"
      /\ call' = [call EXCEPT ![t].began = now,
                              ![t].stage = IF S = {} THEN "body" ELSE "refresh"]
      /\ pc' = [pc EXCEPT ![t] = IF S = {} THEN "body" ELSE "write"]
      /\ touched' = [touched EXCEPT ![t] = S]
      /\ next' = [next EXCEPT ![t] = upd]
      /\ UNCHANGED <<now, up, memory, disk, old, born, acked>>
  BY <1>1 DEF Scan, store, ghosts
<1>3. ASSUME NEW r \in Request
      PROVE  /\ r \notin S /\ memory[p][r].status \in Open => memory[p][r].expiresAt > now
             /\ r \in S => /\ memory[p][r].status \in Open /\ now >= memory[p][r].expiresAt
                           /\ ExpiredCopy(memory[p][r]).status = "expired"
  <2>1. memory[p][r].status \in Open => memory[p][r] \in Record
    BY <1>1 DEF Table, Slot, Absent, Open
  <2>2. memory[p][r] \in Record => memory[p][r].expiresAt \in Nat
    BY DEF Record
  <2>3. memory[p][r] \in Record => ExpiredCopy(memory[p][r]).status = "expired"
    BY DEF Record, ExpiredCopy
  <2>4. QED
    BY <1>1, <2>1, <2>2, <2>3 DEF Stale
<1>4. \A r \in S : upd[r] = ExpiredCopy(memory[p][r])
  OBVIOUS
<1>5. S \in SUBSET Request
  OBVIOUS
<1> HIDE DEF S, upd
<1>6. /\ touched'[t] = S /\ next'[t] = upd /\ call'[t].began = now
      /\ pc'[t] = IF S = {} THEN "body" ELSE "write"
      /\ call'[t].stage = IF S = {} THEN "body" ELSE "refresh"
  <2>1. call[t] \in Call
    BY <1>1 DEF TypeOK
  <2>2. /\ touched'[t] = S /\ next'[t] = upd
        /\ pc'[t] = IF S = {} THEN "body" ELSE "write"
    BY <1>1, <1>2 DEF TypeOK
  <2>3. call'[t] = [call[t] EXCEPT !.began = now,
                                  !.stage = IF S = {} THEN "body" ELSE "refresh"]
    BY <1>1, <1>2 DEF TypeOK
  <2>4. QED
    BY <2>1, <2>2, <2>3 DEF Call
<1>7. up[p]
  BY <1>2 DEF SInv
<1>8. Base(t, p)' = Base(t, p)
  BY <1>2, <1>6, BaseIs
<1>9. Ahead(Base(t, p), disk, born, now)' /\ AckedInBase(t, p)'
  BY <1>2, <1>8, BaseStays
<1>10. Births'
  BY BirthsStep DEF SInv
<1>11. ASSUME S = {}
      PROVE  SInv(t, p)'
  <2>1. pc'[t] = "body" /\ call'[t].stage = "body"
    BY <1>6, <1>11
  <2>2. Fresh(t, p)'
    BY <1>2, <1>3, <1>6, <1>11, <2>1 DEF Fresh
  <2>3. QED
    BY <1>2, <1>7, <1>9, <1>10, <2>1, <2>2 DEF SInv, Writing, Saving
<1>12. ASSUME S # {}
      PROVE  SInv(t, p)'
  <2>1. pc'[t] = "write" /\ call'[t].stage = "refresh"
    BY <1>6, <1>12
  <2>2. Ahead(memory[p], Override(memory[p], S, upd), born, now)
    <3> DEFINE over == Override(memory[p], S, upd)
    <3>1. Same(memory[p], over, S) /\ \A r \in S : over[r] = ExpiredCopy(memory[p][r])
      BY <1>4, <1>5 DEF Same, Override
    <3> HIDE DEF over
    <3>2. \A r \in S : /\ memory[p][r].status \in Open /\ now >= memory[p][r].expiresAt
                       /\ over[r] = ExpiredCopy(memory[p][r])
      BY <1>3, <1>5, <3>1
    <3>3. Ahead(memory[p], over, born, now)
      BY <1>5, <3>1, <3>2, AheadOps
    <3>4. QED
      BY <3>3 DEF over
  <2>3. Writing(t, p)'
    BY <1>2, <1>6, <2>1, <2>2 DEF Writing
  <2>4. Fresh(t, p)'
    BY <1>2, <1>3, <1>4, <1>6, <2>1 DEF Fresh
  <2>5. QED
    BY <1>2, <1>7, <1>9, <1>10, <2>1, <2>3, <2>4, WriteThen
<1>13. SInv(t, p)'
  BY <1>11, <1>12
<1>14. Moved(t, p)
  BY <1>2, <1>8, AheadSame DEF Moved
<1>15. QED
  BY <1>13, <1>14

LEMMA SDecide ==
    ASSUME ApprovalAssumption, IInv, [Next]_vars, NEW t \in Thread, NEW p \in Process,
           Alone(t, p), SInv(t, p), NEW reason \in Text, Decide(t, reason)
    PROVE  SInv(t, p)' /\ Moved(t, p)
<1> DEFINE r   == call[t].id
           rec == memory[p][r]
           new == DecidedCopy(rec, Verdict(call[t].op), call[t].by, reason)
<1>1. Home[t] = p /\ TypeOK /\ memory[p] \in Table
  BY DEF Alone, ApprovalAssumption, IInv, TInv, TypeOK
<1>2. /\ pc[t] = "body" /\ call[t].op \in {"approve", "deny"} /\ MayDecide(rec, call[t].by)
      /\ pc' = [pc EXCEPT ![t] = "write"]
      /\ touched' = [touched EXCEPT ![t] = {r}]
      /\ next' = [next EXCEPT ![t] = [Nothing EXCEPT ![r] = new]]
      /\ old' = [old EXCEPT ![t] = [Nothing EXCEPT ![r] = rec]]
      /\ UNCHANGED <<now, up, memory, disk, call, born, acked>>
  BY <1>1 DEF Decide, store, ghosts
<1>3. /\ r \in Request /\ call[t].by \in Approver /\ Verdict(call[t].op) \in Decided
      /\ call[t].op # "create" /\ call[t].stage = "body" /\ up[p]
  BY <1>2 DEF IInv, TInv, CallOK, Verdict, Decided, SInv
<1>4. new.status = Verdict(call[t].op)
  <2>1. rec \in Record
    BY <1>1, <1>2, <1>3 DEF Table, Slot, Absent, MayDecide
  <2>2. QED
    BY <2>1 DEF DecidedCopy, Record
<1> HIDE DEF new, rec, r
<1>5. /\ pc'[t] = "write" /\ touched'[t] = {r} /\ next'[t][r] = new /\ old'[t][r] = rec
  BY <1>1, <1>2, <1>3 DEF TypeOK, Nothing
<1>6. Base(t, p)' = Base(t, p)
  BY <1>2, <1>5, BaseIs
<1>7. Ahead(Base(t, p), disk, born, now)' /\ AckedInBase(t, p)'
  BY <1>2, <1>6, BaseStays
<1>8. Ahead(memory[p], Override(memory[p], touched'[t], next'[t]), born, now)
  <2> DEFINE over == Override(memory[p], touched'[t], next'[t])
  <2>1. Same(memory[p], over, {r}) /\ over[r] = new
    BY <1>3, <1>5 DEF Same, Override
  <2> HIDE DEF over
  <2>2. /\ MayDecide(memory[p][r], call[t].by)
        /\ over[r] = DecidedCopy(memory[p][r], Verdict(call[t].op), call[t].by, reason)
    BY <1>2, <2>1 DEF rec, new
  <2>3. Ahead(memory[p], over, born, now)
    BY <1>3, <2>1, <2>2, AheadOps
  <2>4. QED
    BY <2>3 DEF over
<1>9. Writing(t, p)'
  <2>1. Outcome(t)' = Verdict(call[t].op)
    BY <1>2, <1>3 DEF Outcome
  <2>2. call'[t] = call[t] /\ call'[t].id = r /\ memory'[p][r] = rec
    BY <1>2 DEF r, rec
  <2>3. QED
    BY <1>2, <1>4, <1>5, <1>8, <2>1, <2>2 DEF Writing
<1>10. Fresh(t, p)'
  BY <1>2, <1>3, <1>5 DEF Fresh
<1>11. Births'
  BY BirthsStep DEF SInv
<1>12. SInv(t, p)'
  BY <1>2, <1>3, <1>5, <1>7, <1>9, <1>10, <1>11, WriteThen
<1>13. Moved(t, p)
  BY <1>2, <1>6, AheadSame DEF Moved
<1>14. QED
  BY <1>12, <1>13

LEMMA SWrite ==
    ASSUME ApprovalAssumption, IInv, [Next]_vars, NEW t \in Thread, NEW p \in Process,
           Alone(t, p), SInv(t, p), Write(t)
    PROVE  SInv(t, p)' /\ Moved(t, p)
<1>1. Home[t] = p /\ TypeOK /\ memory[p] \in Table /\ next[t] \in Table
                  /\ touched[t] \subseteq Request
  BY DEF Alone, ApprovalAssumption, IInv, TInv, TypeOK
<1>2. /\ pc[t] = "write" /\ pc' = [pc EXCEPT ![t] = "dump"]
      /\ old' = [old EXCEPT ![t] = IF call[t].stage = "refresh"
                                    THEN Override(Nothing, touched[t], memory[p])
                                    ELSE @]
      /\ memory' = [memory EXCEPT ![p] = Override(memory[p], touched[t], next[t])]
      /\ UNCHANGED <<now, up, disk, call, touched, born, acked>>
  BY <1>1 DEF Write, ghosts
<1>3. /\ up[p]
      /\ Ahead(memory[p], Override(memory[p], touched[t], next[t]), born, now)
      /\ call[t].stage = "body" =>
               /\ \A r \in touched[t] : old[t][r] = memory[p][r]
               /\ call[t].id \in touched[t]
               /\ next[t][call[t].id].status = Outcome(t)
  BY <1>2 DEF SInv, Writing
<1>4. /\ pc'[t] = "dump" /\ memory'[p] = Override(memory[p], touched[t], next[t])
      /\ old'[t] = IF call[t].stage = "refresh"
                   THEN Override(Nothing, touched[t], memory[p]) ELSE old[t]
  BY <1>1, <1>2 DEF TypeOK
<1>5. \A r \in touched[t] : old'[t][r] = memory[p][r]
  <2>1. call[t].stage \in {"refresh", "body"}
    BY <1>1 DEF TypeOK, Call
  <2>2. QED
    BY <1>1, <1>3, <1>4, <2>1 DEF Override
<1>6. /\ \A r \in Request : r \in touched[t] => memory'[p][r] = next[t][r]
      /\ \A r \in Request : r \notin touched[t] => memory'[p][r] = memory[p][r]
  BY <1>4 DEF Override
<1>7. Base(t, p) = memory[p]
  BY <1>1, <1>2, <1>3, BaseIs DEF Table
<1>8. Base(t, p)' = memory[p]
  <2>1. Base(t, p)' = [r \in Request |-> IF r \in touched[t] THEN old'[t][r] ELSE memory'[p][r]]
    BY <1>2, <1>3, <1>4, BaseIs
  <2>2. \A r \in Request : (IF r \in touched[t] THEN old'[t][r] ELSE memory'[p][r]) = memory[p][r]
    BY <1>5, <1>6
  <2>3. Base(t, p)' = [r \in Request |-> memory[p][r]]
    BY <2>1, <2>2
  <2>4. QED
    BY <1>1, <2>3 DEF Table
<1>9. Ahead(Base(t, p), disk, born, now)' /\ AckedInBase(t, p)'
  BY <1>2, <1>7, <1>8, BaseStays
<1>10. Saving(t, p)'
  <2>1. Ahead(Base(t, p), memory[p], born, now)'
    BY <1>2, <1>3, <1>4, <1>8
  <2>2. call[t].stage = "body" => memory'[p][call[t].id].status = Outcome(t)'
    <3>1. Outcome(t)' = Outcome(t)
      BY <1>2 DEF Outcome
    <3>2. QED
      BY <1>1, <1>3, <1>6, <3>1
  <2>3. QED
    BY <1>2, <1>4, <2>1, <2>2 DEF Saving
<1>11. Fresh(t, p)'
  <2>1. CASE call[t].stage = "refresh"
    <3>1. \A r \in Request :
              IF r \in touched[t] THEN next[t][r].status = "expired"
              ELSE memory[p][r].status \in Open => memory[p][r].expiresAt > call[t].began
      BY <1>2, <2>1 DEF SInv, Fresh
    <3>2. \A r \in Request :
              memory'[p][r].status \in Open => memory'[p][r].expiresAt > call[t].began
      BY <1>6, <3>1 DEF Open
    <3>3. QED
      BY <1>2, <1>4, <3>2 DEF Fresh
  <2>2. CASE call[t].stage # "refresh"
    BY <1>2, <1>4, <2>2 DEF Fresh
  <2>3. QED
    BY <2>1, <2>2
<1>12. Births'
  BY BirthsStep DEF SInv
<1>13. SInv(t, p)'
  BY <1>2, <1>3, <1>4, <1>9, <1>10, <1>11, <1>12 DEF SInv, Writing
<1>14. Moved(t, p)
  BY <1>2, <1>7, <1>8, AheadSame DEF Moved
<1>15. QED
  BY <1>13, <1>14

LEMMA SDump ==
    ASSUME ApprovalAssumption, IInv, [Next]_vars, NEW t \in Thread, NEW p \in Process,
           Alone(t, p), SInv(t, p), Dump(t)
    PROVE  SInv(t, p)' /\ Moved(t, p)
<1>1. Home[t] = p /\ TypeOK
  BY DEF Alone, ApprovalAssumption, IInv, TInv
<1>2. /\ pc[t] = "dump" /\ pc' = [pc EXCEPT ![t] = "replace"]
      /\ image' = [image EXCEPT ![t] = memory[p]]
      /\ UNCHANGED <<now, up, memory, disk, call, touched, old, born, acked>>
  BY <1>1 DEF Dump, store, ghosts
<1>3. pc'[t] = "replace" /\ image'[t] = memory[p]
  BY <1>1, <1>2 DEF TypeOK
<1>4. up[p]
  BY <1>2 DEF SInv
<1>5. Base(t, p)' = Base(t, p)
  BY <1>2, <1>3, BaseIs
<1>6. Ahead(Base(t, p), disk, born, now)' /\ AckedInBase(t, p)'
  BY <1>2, <1>5, BaseStays
<1>7. Saving(t, p)'
  <2>1. Outcome(t)' = Outcome(t)
    BY <1>2 DEF Outcome
  <2>2. /\ Ahead(Base(t, p), memory[p], born, now)
        /\ call[t].stage = "body" => memory[p][call[t].id].status = Outcome(t)
    BY <1>2 DEF SInv, Saving
  <2>3. Ahead(Base(t, p), memory[p], born, now)'
    BY <1>2, <1>5, <2>2
  <2>4. QED
    BY <1>2, <1>3, <2>1, <2>2, <2>3 DEF Saving
<1>8. Fresh(t, p)'
  <2>1. call[t].stage = "refresh" =>
            \A r \in Request : memory[p][r].status \in Open => memory[p][r].expiresAt > call[t].began
    BY <1>2 DEF SInv, Fresh
  <2>2. QED
    BY <1>2, <1>3, <2>1 DEF Fresh
<1>9. Births'
  BY BirthsStep DEF SInv
<1>10. SInv(t, p)'
  BY <1>2, <1>3, <1>4, <1>6, <1>7, <1>8, <1>9 DEF SInv, Writing
<1>11. Moved(t, p)
  BY <1>2, <1>5, AheadSame DEF Moved
<1>12. QED
  BY <1>10, <1>11

LEMMA SReplace ==
    ASSUME ApprovalAssumption, IInv, [Next]_vars, NEW t \in Thread, NEW p \in Process,
           Alone(t, p), SInv(t, p), Replace(t)
    PROVE  SInv(t, p)' /\ Moved(t, p)
<1>1. TypeOK /\ CallOK /\ memory[p] \in Table
  BY DEF Alone, ApprovalAssumption, IInv, TInv, TypeOK
<1>2. /\ pc[t] = "replace" /\ disk' = image[t]
      /\ UNCHANGED <<now, up, memory, born>>
  BY DEF Replace
<1>3. /\ up[p] /\ image[t] = memory[p]
      /\ Ahead(Base(t, p), memory[p], born, now)
      /\ call[t].stage = "body" => memory[p][call[t].id].status = Outcome(t)
  BY <1>2 DEF SInv, Saving
<1>4. ASSUME pc'[t] \in {"idle", "body"}
      PROVE  Base(t, p)' = memory[p] /\ Ahead(Base(t, p), disk, born, now)'
  <2>1. Base(t, p)' = [r \in Request |-> memory[p][r]]
    BY <1>2, <1>3, <1>4, BaseIs
  <2>2. Base(t, p)' = memory[p]
    BY <1>1, <2>1 DEF Table
  <2>3. disk' = memory[p]
    BY <1>2, <1>3
  <2>4. Ahead(memory[p], memory[p], born', now')
    BY DEF Ahead, Same
  <2>5. QED
    BY <2>2, <2>3, <2>4
<1>5. \A a \in acked : memory[p][a[1]].status \in After(a[2])
  <2> SUFFICES ASSUME NEW a \in acked
               PROVE  memory[p][a[1]].status \in After(a[2])
    OBVIOUS
  <2>1. a[1] \in Request /\ a[2] \in Status
    BY <1>1 DEF TypeOK
  <2>2. Base(t, p)[a[1]].status \in After(a[2])
    BY DEF SInv, AckedInBase
  <2>3. Base(t, p) \in Table
    BY <1>1, BaseType
  <2>4. QED
    BY <1>3, <2>1, <2>2, <2>3, AfterStays
<1>6. Births'
  BY BirthsStep DEF SInv
<1>7. ASSUME call[t].stage = "refresh"
      PROVE  SInv(t, p)' /\ pc'[t] \in {"idle", "body"}
  <2>1. /\ pc' = [pc EXCEPT ![t] = "body"]
        /\ call' = [call EXCEPT ![t].stage = "body"]
        /\ UNCHANGED acked
    BY <1>7 DEF Replace
  <2>2. pc'[t] = "body" /\ call'[t].stage = "body" /\ call'[t].began = call[t].began
    BY <1>1, <2>1 DEF TypeOK, Call
  <2>3. AckedInBase(t, p)'
    BY <1>4, <1>5, <2>1, <2>2 DEF AckedInBase
  <2>4. \A r \in Request : memory[p][r].status \in Open => memory[p][r].expiresAt > call[t].began
    BY <1>2, <1>7 DEF SInv, Fresh
  <2>5. Fresh(t, p)'
    BY <1>2, <2>2, <2>4 DEF Fresh
  <2>6. SInv(t, p)'
    BY <1>2, <1>3, <1>4, <1>6, <2>2, <2>3, <2>5 DEF SInv, Writing, Saving
  <2>7. QED
    BY <2>2, <2>6
<1>8. ASSUME call[t].stage # "refresh"
      PROVE  SInv(t, p)' /\ pc'[t] \in {"idle", "body"}
  <2>1. /\ Finish(t)
        /\ acked' = acked \cup {<<call[t].id, Outcome(t)>>}
        /\ call[t].stage = "body"
    BY <1>8 DEF Replace, Outcome
  <2>2. pc'[t] = "idle" /\ call'[t] = NoCall
    BY <1>1, <2>1 DEF Finish, TypeOK
  <2>3. Outcome(t) \in After(Outcome(t))
    <3>1. call[t].op = "create" => born[call[t].id].status \in {"pending", "denied"}
      BY <1>1, <1>2 DEF CallOK, IInv, AllGood, GoodBirth
    <3>2. Outcome(t) \in {"pending", "denied", "approved"}
      BY <3>1 DEF Outcome, Verdict
    <3>3. QED
      BY <3>2 DEF After, Status, Open, Decided
  <2>4. memory[p][call[t].id].status \in After(Outcome(t))
    BY <1>3, <2>1, <2>3
  <2>5. Base(t, p)' = memory[p]
    BY <1>4, <2>2
  <2>6. \A a \in acked' : memory[p][a[1]].status \in After(a[2])
    <3> DEFINE new == <<call[t].id, Outcome(t)>>
    <3>1. memory[p][new[1]].status \in After(new[2])
      BY <2>4
    <3>2. acked' = acked \cup {new}
      BY <2>1
    <3> HIDE DEF new
    <3>3. QED
      BY <1>5, <3>1, <3>2
  <2>7. AckedInBase(t, p)'
    BY <2>5, <2>6 DEF AckedInBase
  <2>8. SInv(t, p)'
    BY <1>4, <1>6, <2>2, <2>7, IdleThen
  <2>9. QED
    BY <2>2, <2>8
<1>9. SInv(t, p)' /\ pc'[t] \in {"idle", "body"}
  BY <1>7, <1>8
<1>10. Moved(t, p)
  BY <1>2, <1>3, <1>4, <1>9 DEF Moved
<1>11. QED
  BY <1>9, <1>10

\* What is certain after a crash, or after the file was loaded, is the file.
LEMMA SFile ==
    ASSUME ApprovalAssumption, IInv, NEW t \in Thread, NEW p \in Process, SInv(t, p)
    PROVE  \A a \in acked : disk[a[1]].status \in After(a[2])
<1> SUFFICES ASSUME NEW a \in acked
             PROVE  disk[a[1]].status \in After(a[2])
  OBVIOUS
<1>1. a[1] \in Request /\ a[2] \in Status /\ Base(t, p) \in Table
  BY BaseType DEF IInv, TInv, TypeOK
<1>2. Base(t, p)[a[1]].status \in After(a[2]) /\ Ahead(Base(t, p), disk, born, now)
  BY DEF SInv, AckedInBase
<1>3. QED
  BY <1>1, <1>2, AfterStays

LEMMA SDown ==
    ASSUME ApprovalAssumption, IInv, [Next]_vars, NEW t \in Thread, NEW p \in Process,
           Alone(t, p), SInv(t, p), Crash(p) \/ Restart(p)
    PROVE  SInv(t, p)' /\ Moved(t, p)
<1>1. TypeOK /\ Home[t] = p /\ disk \in Table
  BY DEF IInv, TInv, TypeOK, Alone, ApprovalAssumption
<1>2. UNCHANGED <<now, disk, born, acked>>
  BY DEF Crash, Restart, ghosts
<1>3. pc'[t] = "idle"
  <2>1. CASE Crash(p)
    BY <1>1, <2>1 DEF Crash
  <2>2. CASE Restart(p)
    BY <2>2 DEF Restart, locals, SInv
  <2>3. QED
    BY <2>1, <2>2
<1>4. call'[t].stage = "body"
  <2>1. CASE Crash(p)
    BY <1>1, <2>1 DEF Crash, NoCall
  <2>2. CASE Restart(p)
    BY <2>2 DEF Restart, locals, SInv
  <2>3. QED
    BY <2>1, <2>2
<1>5. up'[p] => memory'[p] = disk
  BY <1>1 DEF Crash, Restart, TypeOK
<1>6. Base(t, p)' = disk
  <2>1. Base(t, p)' = [r \in Request |-> disk[r]]
    BY <1>2, <1>3, <1>5, BaseIs
  <2>2. QED
    BY <1>1, <2>1 DEF Table
<1>7. Ahead(Base(t, p), disk, born, now)'
  <2>1. Ahead(disk, disk, born', now')
    BY DEF Ahead, Same
  <2>2. QED
    BY <1>2, <1>6, <2>1
<1>8. AckedInBase(t, p)'
  BY <1>2, <1>6, SFile DEF AckedInBase
<1>9. Births'
  BY BirthsStep DEF SInv
<1>10. SInv(t, p)'
  BY <1>3, <1>4, <1>7, <1>8, <1>9 DEF SInv, Writing, Saving, Fresh
<1>11. Moved(t, p)
  BY <1>2, <1>6 DEF Moved, SInv
<1>12. QED
  BY <1>10, <1>11

\* Time passes.
LEMMA STick ==
    ASSUME ApprovalAssumption, IInv, [Next]_vars, NEW t \in Thread, NEW p \in Process,
           SInv(t, p), Tick \/ UNCHANGED vars
    PROVE  SInv(t, p)' /\ Base(t, p)' = Base(t, p)
<1>1. UNCHANGED <<up, memory, disk, pc, call, touched, next, old, image, born, acked>>
  BY DEF Tick, vars, store, locals, ghosts
<1>2. memory[p] \in Table /\ Base(t, p) \in Table
  BY BaseType DEF IInv, TInv, TypeOK
<1>3. Base(t, p)' = Base(t, p)
  BY <1>1, BaseIs
<1>4. Ahead(Base(t, p), disk, born, now)' /\ AckedInBase(t, p)'
  BY <1>1, <1>3, BaseStays
<1>5. Writing(t, p)'
  <2> DEFINE over == Override(memory[p], touched[t], next[t])
  <2>1. Override(memory[p], touched[t], next[t])' = over /\ Outcome(t)' = Outcome(t)
    BY <1>1 DEF Override, Outcome
  <2>2. pc[t] = "write" => Ahead(memory[p], over, born, now)
    BY DEF SInv, Writing
  <2> HIDE DEF over
  <2>3. pc[t] = "write" => Ahead(memory[p], over, born', now')
    BY <1>2, <2>2, AheadOn
  <2>4. pc'[t] = "write" =>
            Ahead(memory[p], Override(memory[p], touched[t], next[t]), born, now)'
    BY <1>1, <2>1, <2>3
  <2>5. pc[t] = "write" /\ call[t].stage = "body" =>
               /\ \A r \in touched[t] : old[t][r] = memory[p][r]
               /\ call[t].id \in touched[t]
               /\ next[t][call[t].id].status = Outcome(t)
    BY DEF SInv, Writing
  <2>6. QED
    BY <1>1, <2>1, <2>4, <2>5 DEF Writing
<1>6. Saving(t, p)'
  <2>1. Outcome(t)' = Outcome(t)
    BY <1>1 DEF Outcome
  <2>2. pc[t] \in {"dump", "replace"} => Ahead(Base(t, p), memory[p], born', now')
    BY <1>2, AheadOn DEF SInv, Saving
  <2>3. /\ pc[t] \in {"dump", "replace"} /\ call[t].stage = "body"
              => memory[p][call[t].id].status = Outcome(t)
        /\ pc[t] = "replace" => image[t] = memory[p]
    BY DEF SInv, Saving
  <2>4. QED
    BY <1>1, <1>3, <2>1, <2>2, <2>3 DEF Saving
<1>7. Fresh(t, p)'
  BY <1>1 DEF SInv, Fresh
<1>8. Births'
  BY BirthsStep DEF SInv
<1>9. QED
  BY <1>1, <1>3, <1>4, <1>5, <1>6, <1>7, <1>8 DEF SInv

LEMMA InitSInv ==
    ASSUME ApprovalAssumption, Init, NEW t \in Thread, NEW p \in Process
    PROVE  SInv(t, p)
<1>1. /\ pc[t] = "idle" /\ call[t].stage = "body" /\ up[p] /\ memory[p] = Nothing
      /\ disk = Nothing /\ born = Nothing /\ acked = {}
  BY DEF Init, NoCall
<1>2. Base(t, p) = disk
  BY <1>1, BaseIs DEF Nothing
<1>3. Ahead(Base(t, p), disk, born, now)
  BY <1>2 DEF Ahead, Same
<1>4. Births /\ AckedInBase(t, p)
  BY <1>1 DEF Births, AckedInBase, Nothing
<1>5. QED
  BY <1>1, <1>3, <1>4 DEF SInv, Writing, Saving, Fresh

LEMMA StepSInv ==
    ASSUME ApprovalAssumption, IInv, [Next]_vars, NEW t \in Thread, NEW p \in Process,
           Alone(t, p), SInv(t, p)
    PROVE  SInv(t, p)' /\ (Moved(t, p) \/ (Tick /\ Base(t, p)' = Base(t, p)))
<1>1. \A x \in Thread : x = t
  BY DEF Alone
<1>2. \A x \in Process : x = p
  BY DEF Alone
<1>3. ASSUME Start(t)
      PROVE  SInv(t, p)' /\ Moved(t, p)
  BY TextTypes, <1>3, SCreate, SLookup DEF Start
<1>4. CASE ScanAborts(t) \/ Get(t) \/ Refuse(t)
  BY <1>4, SEnds
<1>5. CASE PersistFails(t) \/ PersistFailsLate(t)
  BY <1>5, SFails
<1>6. CASE Scan(t)
  BY <1>6, SScan
<1>7. CASE \E reason \in Text : Decide(t, reason)
  BY <1>7, SDecide
<1>8. CASE Write(t)
  BY <1>8, SWrite
<1>9. CASE Dump(t)
  BY <1>9, SDump
<1>10. CASE Replace(t)
  BY <1>10, SReplace
<1>11. CASE Crash(p) \/ Restart(p)
  BY <1>11, SDown
<1>12. CASE Tick \/ UNCHANGED vars
  <2>1. SInv(t, p)' /\ Base(t, p)' = Base(t, p)
    BY <1>12, STick
  <2>2. UNCHANGED vars => Moved(t, p)
    BY <2>1, AheadSame DEF Moved, vars
  <2>3. QED
    BY <1>12, <2>1, <2>2
<1>13. QED
  BY <1>1, <1>2, <1>3, <1>4, <1>5, <1>6, <1>7, <1>8, <1>9, <1>10, <1>11, <1>12 DEF Next

-----------------------------------------------------------------------------
\* The store has one thread in one process (the instance of approval_serial).
Serial == \E t \in Thread, p \in Process : Alone(t, p)

LEMMA SerialInvariant ==
    ASSUME NEW t \in Thread, NEW p \in Process, Alone(t, p)
    PROVE  Spec => [](IInv /\ SInv(t, p))
<1>1. ApprovalAssumption
  BY ApprovalAssumption
<1>2. Init => SInv(t, p)
  BY <1>1, InitSInv
<1>3. IInv /\ SInv(t, p) /\ [Next]_vars => SInv(t, p)'
  BY <1>1, StepSInv
<1>4. QED
  BY <1>2, <1>3, InductiveInvariant, PTL DEF Spec

\* What the only caller of the store was told is in the file, whatever write
\* failed and whenever the process crashed.
THEOREM OutcomesLast == ASSUME Serial PROVE Spec => []AckedIsDurable
<1>1. PICK t \in Thread, p \in Process : Alone(t, p)
  BY DEF Serial
<1>2. IInv /\ SInv(t, p) => AckedIsDurable
  BY ApprovalAssumption, SFile DEF AckedIsDurable
<1>3. Spec => [](IInv /\ SInv(t, p))
  BY <1>1, SerialInvariant
<1>4. QED
  BY <1>2, <1>3, PTL

\* get does not hand out as approved what had expired when it was called.
THEOREM NoneIsStale == ASSUME Serial PROVE Spec => []NoStaleApproval
<1>1. PICK t \in Thread, p \in Process : Alone(t, p)
  BY DEF Serial
<1>2. ASSUME IInv, SInv(t, p)
      PROVE  NoStaleApproval
  <2>1. \A x \in Thread : x = t /\ Home[x] = p
    BY <1>1, ApprovalAssumption DEF Alone, ApprovalAssumption
  <2>2. pc[t] = "body" => call[t].id \in Request
    BY <1>2 DEF IInv, TInv, CallOK
  <2>3. pc[t] = "body" =>
            \A r \in Request : memory[p][r].status \in Open => memory[p][r].expiresAt > call[t].began
    BY <1>2 DEF SInv, Fresh
  <2>4. QED
    BY <2>1, <2>2, <2>3 DEF NoStaleApproval, Open
<1>3. Spec => [](IInv /\ SInv(t, p))
  BY <1>1, SerialInvariant
<1>4. QED
  BY <1>2, <1>3, PTL

-----------------------------------------------------------------------------
(***************************************************************************)
(* The refinement of ApprovalLedger: what is certain is the ledger, a step *)
(* of the store moves it by one operation, and each operation is an action *)
(* of the ledger.                                                          *)
(***************************************************************************)
Book(A) == [r \in Request |-> Entry(A[r])]

LEMMA LedgerIs ==
    ASSUME NEW t \in Thread, NEW p \in Process, Alone(t, p)
    PROVE  LET L == [r \in Request |-> Entry(Settled(TheProcess, r))]
           IN  L = Book(Base(t, p)) /\ L' = Book(Base(t, p)')
<1>1. TheProcess = p
  BY DEF Alone, TheProcess
<1>2. ASSUME NEW r \in Request
      PROVE  Settled(p, r) = Base(t, p)[r]
  <2>1. InFlight(r) <=> pc[t] \in {"dump", "replace"} /\ r \in touched[t]
    BY DEF InFlight, Alone
  <2>2. r \in touched[t] => (CHOOSE x \in Thread : r \in touched[x]) = t
    BY DEF Alone
  <2>3. QED
    BY <2>1, <2>2 DEF Settled, Base
<1>3. ASSUME NEW r \in Request
      PROVE  Settled(p, r)' = Base(t, p)'[r]
  <2>1. InFlight(r)' <=> pc'[t] \in {"dump", "replace"} /\ r \in touched'[t]
    BY DEF InFlight, Alone
  <2>2. r \in touched'[t] => (CHOOSE x \in Thread : r \in touched'[x]) = t
    BY DEF Alone
  <2>3. QED
    BY <2>1, <2>2 DEF Settled, Base
<1>4. /\ \A r \in Request : Entry(Settled(TheProcess, r)) = Entry(Base(t, p)[r])
      /\ \A r \in Request : Entry(Settled(TheProcess, r))' = Entry(Base(t, p)'[r])
  BY <1>1, <1>2, <1>3
<1>5. QED
  BY <1>4 DEF Book

LEMMA EntryChanged ==
    ASSUME NEW a, NEW b, b.actor = a.actor, b.expiresAt = a.expiresAt
    PROVE  Entry(b) = [Entry(a) EXCEPT !.status = b.status, !.decidedBy = b.decidedBy]
<1> DEFINE c == [Entry(a) EXCEPT !.status = b.status]
<1>1. c = [status |-> b.status, actor |-> a.actor,
           expiresAt |-> a.expiresAt, decidedBy |-> a.decidedBy]
  BY DEF Entry
<1>2. [Entry(a) EXCEPT !.status = b.status, !.decidedBy = b.decidedBy] =
      [c EXCEPT !.decidedBy = b.decidedBy]
  OBVIOUS
<1> HIDE DEF c
<1>3. [c EXCEPT !.decidedBy = b.decidedBy] =
      [status |-> b.status, actor |-> a.actor, expiresAt |-> a.expiresAt,
       decidedBy |-> b.decidedBy]
  BY <1>1
<1>4. QED
  BY <1>2, <1>3 DEF Entry

\* A decision and an expiry as the callers see them.
BookDecides(X, Y, q, by, verdict) ==
    /\ X[q].status = "pending" /\ X[q].actor # by
    /\ Y = [X EXCEPT ![q].status = verdict, ![q].decidedBy = by]

LEMMA DecideEntry ==
    ASSUME NEW A, NEW B, NEW q \in Request, NEW by \in Approver, NEW verdict \in Decided,
           NEW why \in Text,
           Same(A, B, {q}), A[q] \in Record, MayDecide(A[q], by),
           B[q] = DecidedCopy(A[q], verdict, by, why)
    PROVE  BookDecides(Book(A), Book(B), q, by, verdict)
<1>1. Book(A)[q].status = "pending" /\ Book(A)[q].actor # by
  BY DEF Book, Entry, MayDecide
<1>2. Entry(B[q]) = [Entry(A[q]) EXCEPT !.status = verdict, !.decidedBy = by]
  <2>1. /\ B[q].status = verdict /\ B[q].decidedBy = by
        /\ B[q].actor = A[q].actor /\ B[q].expiresAt = A[q].expiresAt
    BY DEF DecidedCopy, Record
  <2>2. QED
    BY <2>1, EntryChanged
<1>3. Book(B) = [Book(A) EXCEPT ![q].status = verdict, ![q].decidedBy = by]
  <2> DEFINE f == [Book(A)[q] EXCEPT !.status = verdict, !.decidedBy = by]
  <2>1. Entry(B[q]) = f
    BY <1>2 DEF Book
  <2>2. [Book(A) EXCEPT ![q].status = verdict, ![q].decidedBy = by] = [Book(A) EXCEPT ![q] = f]
    BY DEF Book
  <2> HIDE DEF f
  <2>3. Book(B) = [Book(A) EXCEPT ![q] = f]
    BY <2>1 DEF Book, Same
  <2>4. QED
    BY <2>2, <2>3
<1>4. QED
  BY <1>1, <1>3 DEF BookDecides

Retired(e) == [e EXCEPT !.status = "expired", !.decidedBy = "system"]

LEMMA ExpireEntry ==
    ASSUME NEW a \in Slot, NEW n, a.status \in Open, n >= a.expiresAt
    PROVE  /\ Entry(ExpiredCopy(a)) = Retired(Entry(a))
           /\ Entry(a).status \in {"pending", "approved"} /\ n >= Entry(a).expiresAt
<1> DEFINE b == ExpiredCopy(a)
           c == [Entry(a) EXCEPT !.status = "expired"]
<1>1. a \in Record
  BY DEF Slot, Absent, Open
<1>2. /\ b.status = "expired" /\ b.decidedBy = "system"
      /\ b.actor = a.actor /\ b.expiresAt = a.expiresAt
  BY <1>1 DEF ExpiredCopy, Record
<1>3. c = [status |-> "expired", actor |-> a.actor,
           expiresAt |-> a.expiresAt, decidedBy |-> a.decidedBy]
  BY DEF Entry
<1>4. Retired(Entry(a)) = [c EXCEPT !.decidedBy = "system"]
  BY DEF Retired
<1> HIDE DEF b, c
<1>5. [c EXCEPT !.decidedBy = "system"] =
      [status |-> "expired", actor |-> a.actor, expiresAt |-> a.expiresAt, decidedBy |-> "system"]
  BY <1>3
<1>6. Entry(b) = Retired(Entry(a))
  BY <1>2, <1>4, <1>5 DEF Entry
<1>7. QED
  BY <1>6 DEF b, Entry, Open

\* What is certain moves as the ledger does.
LEMMA LedgerMoves ==
    ASSUME ApprovalAssumption, IInv, Births, NEW t \in Thread, NEW p \in Process,
           Alone(t, p), Moved(t, p)
    PROVE  Ledger!Next \/ UNCHANGED Ledger!vars
<1> DEFINE A == Base(t, p)
           B == Base(t, p)'
           L == [r \in Request |-> Entry(Settled(TheProcess, r))]
           LL == L'
<1>1. L = Book(A) /\ LL = Book(B)
  BY LedgerIs
<1>2. /\ Ahead(A, B, born, now) /\ now' = now
      /\ A \in Table /\ now \in Nat /\ Ttl \in Nat
  BY BaseType DEF Moved, IInv, TInv, TypeOK, ApprovalAssumption
<1>3. B = [r \in Request |-> B[r]]
  BY DEF Base
<1> HIDE DEF A, B
<1>4. CASE Same(A, B, {})
  <2>1. Book(B) = Book(A)
    BY <1>4 DEF Book, Same
  <2>2. UNCHANGED L
    BY <1>1, <2>1
  <2>3. QED
    BY <1>2, <2>2 DEF Ledger!vars
<1>5. ASSUME NEW q \in Request, Same(A, B, {q}), A[q] = Absent, B[q] = born[q],
             born[q] # Absent
      PROVE  Ledger!Next
  <2> DEFINE b == born[q]
             denied == b.status = "denied"
  <2>1. /\ b \in Record /\ b.status \in {"pending", "denied"} /\ Consistent(b)
        /\ b.expiresAt <= now + Ttl /\ (b.status = "denied" => b.decidedBy = "policy")
    BY <1>5 DEF IInv, AllGood, GoodBirth, Births
  <2>2. Book(A)[q] = Ledger!NoEntry /\ Book(B) = [Book(A) EXCEPT ![q] = Entry(b)]
    <3>1. Book(A)[q] = Ledger!NoEntry /\ \A r \in Request : r # q => Book(B)[r] = Book(A)[r]
      <4>1. Book(A)[q] = Ledger!NoEntry
        BY <1>5 DEF Book, Entry, Absent, Ledger!NoEntry
      <4>2. \A r \in Request : r # q => B[r] = A[r]
        BY <1>5 DEF Same
      <4>3. QED
        BY <4>1, <4>2 DEF Book
    <3>2. /\ Book(B) = [r \in Request |-> Book(B)[r]] /\ Book(B)[q] = Entry(b)
          /\ Book(A) = [r \in Request |-> Book(A)[r]]
      BY <1>5 DEF Book
    <3>3. QED
      BY <3>1, <3>2
  <2>3. Entry(b) = [status |-> IF denied THEN "denied" ELSE "pending", actor |-> b.actor,
                    expiresAt |-> b.expiresAt, decidedBy |-> IF denied THEN "policy" ELSE None]
    BY <2>1 DEF Entry, Consistent
  <2>4. b.actor \in Requester /\ b.expiresAt \in 0 .. now + Ttl /\ denied \in BOOLEAN
    BY <1>2, <2>1 DEF Record
  <2> HIDE DEF denied
  <2>5. Ledger!Create(q, b.actor, b.expiresAt, denied)
    BY <1>1, <1>2, <2>1, <2>2, <2>3 DEF Ledger!Create
  <2>6. QED
    BY <2>4, <2>5 DEF Ledger!Next
<1>6. ASSUME NEW q \in Request, NEW by \in Approver, NEW verdict \in Decided,
             NEW why \in Text, Same(A, B, {q}),
             MayDecide(A[q], by), B[q] = DecidedCopy(A[q], verdict, by, why)
      PROVE  Ledger!Next
  <2>1. A[q] \in Record
    BY <1>2, <1>6 DEF Table, Slot, Absent, MayDecide
  <2>2. BookDecides(Book(A), Book(B), q, by, verdict)
    BY <1>6, <2>1, DecideEntry
  <2>3. Ledger!Decide(q, by, verdict)
    BY <1>1, <1>2, <2>2 DEF Ledger!Decide, BookDecides
  <2>4. QED
    BY <2>3 DEF Ledger!Next, Decided
<1>7. ASSUME NEW S \in SUBSET Request, Same(A, B, S),
             \A r \in S : /\ A[r].status \in Open /\ now >= A[r].expiresAt
                          /\ B[r] = ExpiredCopy(A[r])
      PROVE  Ledger!Next
  <2>1. /\ \A r \in S :
              /\ Book(A)[r].status \in {"pending", "approved"}
              /\ now >= Book(A)[r].expiresAt
              /\ Book(B)[r] = Retired(Book(A)[r])
        /\ \A r \in Request : r \notin S => Book(B)[r] = Book(A)[r]
    <3>1. ASSUME NEW r \in S
          PROVE  /\ Entry(A[r]).status \in {"pending", "approved"} /\ now >= Entry(A[r]).expiresAt
                 /\ Entry(B[r]) = Retired(Entry(A[r]))
      <4>1. /\ A[r] \in Slot /\ A[r].status \in Open /\ now >= A[r].expiresAt
            /\ B[r] = ExpiredCopy(A[r])
        BY <1>2, <1>7 DEF Table
      <4>2. QED
        BY <4>1, ExpireEntry
    <3>2. QED
      BY <1>7, <3>1 DEF Book, Same
  <2>2. Book(B) = [r \in Request |-> IF r \in S THEN Retired(Book(A)[r]) ELSE Book(A)[r]]
    <3>1. Book(B) = [r \in Request |-> Book(B)[r]]
      BY DEF Book
    <3>2. QED
      BY <2>1, <3>1
  <2>3. Ledger!Expire(S)
    BY <1>1, <1>2, <2>1, <2>2 DEF Ledger!Expire, Ledger!Overdue, Retired
  <2>4. QED
    BY <2>3 DEF Ledger!Next
<1>8. QED
  BY <1>2, <1>4, <1>5, <1>6, <1>7 DEF Ahead

\* A call of the only thread that fails leaves no trace, one that succeeds is a
\* single step, and a crash can at most complete the call it interrupted.
THEOREM Implements == ASSUME Serial PROVE Spec => ImplementsLedger
<1>1. PICK t \in Thread, p \in Process : Alone(t, p)
  BY DEF Serial
<1>2. Init => Ledger!Init
  <2> SUFFICES ASSUME Init PROVE Ledger!Init
    OBVIOUS
  <2>1. now = 0 /\ Base(t, p) = Nothing
    BY DEF Init, Base, Nothing
  <2>2. [r \in Request |-> Entry(Settled(TheProcess, r))] = [r \in Request |-> Ledger!NoEntry]
    BY <1>1, <2>1, LedgerIs DEF Book, Entry, Nothing, Absent, Ledger!NoEntry
  <2>3. QED
    BY <2>1, <2>2 DEF Ledger!Init
<1>3. IInv /\ SInv(t, p) /\ [Next]_vars => [Ledger!Next]_(Ledger!vars)
  <2> SUFFICES ASSUME IInv, SInv(t, p), [Next]_vars
               PROVE  Ledger!Next \/ UNCHANGED Ledger!vars
    OBVIOUS
  <2>1. Moved(t, p) \/ (Tick /\ Base(t, p)' = Base(t, p))
    BY <1>1, ApprovalAssumption, StepSInv
  <2>2. CASE Moved(t, p)
    BY <1>1, <2>2, ApprovalAssumption, LedgerMoves DEF SInv
  <2>3. CASE Tick /\ Base(t, p)' = Base(t, p)
    BY <1>1, <2>3, LedgerIs DEF Tick, Ledger!Next, Ledger!Tick
  <2>4. QED
    BY <2>1, <2>2, <2>3
<1>4. Spec => [](IInv /\ SInv(t, p))
  BY <1>1, SerialInvariant
<1>5. QED
  BY <1>2, <1>3, <1>4, PTL DEF Spec, ImplementsLedger, Ledger!Spec
=============================================================================
