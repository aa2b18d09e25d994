--------------------------- MODULE PushSyncProofs ---------------------------
(***************************************************************************)
(* SettledFresh for any set of pages, any number of connections and any    *)
(* number of events.                                                       *)
(***************************************************************************)
EXTENDS PushSync, TLAPS

(* What an update of one attempt leaves alone. *)
LEMMA SetFacts ==
    ASSUME attempts \in Seq(Attempt), NEW a \in DOMAIN attempts, NEW r \in Attempt, Set(a, r)
    PROVE  /\ attempts' \in Seq(Attempt)
           /\ Len(attempts') = Len(attempts) /\ DOMAIN attempts' = DOMAIN attempts
           /\ attempts'[a] = r
           /\ \A b \in DOMAIN attempts : b # a => attempts'[b] = attempts[b]
PROOF
  <1>1. attempts' = [attempts EXCEPT ![a] = r]
    BY DEF Set
  <1>. HIDE DEF Attempt
  <1>. QED  BY <1>1

(* What publish does to the log. *)
LEMMA PublishFacts ==
    ASSUME log \in Seq(Event), NEW own \in BOOLEAN, NEW p \in Pages, publish(own, p)
    PROVE  /\ log' \in Seq(Event) /\ Len(log') = Len(log) + 1 /\ Len(log) \in Nat
           /\ \A n \in 1 .. Len(log) : log'[n] = log[n]
           /\ log'[Len(log) + 1].own = own /\ log'[Len(log) + 1].page = p
PROOF
  <1>. DEFINE e == [own |-> own, page |-> p]
  <1>1. e \in Event /\ log' = Append(log, e)
    BY DEF publish, Event
  <1>2. /\ log' \in Seq(Event) /\ Len(log') = Len(log) + 1 /\ Len(log) \in Nat
        /\ \A n \in 1 .. Len(log) : log'[n] = log[n]
        /\ log'[Len(log) + 1] = e
    <2>. HIDE DEF e
    <2>. QED  BY <1>1
  <1>. QED  BY <1>2

(* The log only grows. *)
LEMMA LogGrows ==
    ASSUME TypeOK, [Next]_vars
    PROVE  /\ log' \in Seq(Event)
           /\ Len(log) \in Nat /\ Len(log') \in Nat /\ Len(log) <= Len(log')
           /\ \A n \in 1 .. Len(log) : log'[n] = log[n]
PROOF
  <1>1. log \in Seq(Event) /\ Len(log) \in Nat
    BY DEF TypeOK
  <1>2. CASE log' = log
    BY <1>1, <1>2
  <1>3. CASE \E own \in BOOLEAN, p \in Pages : publish(own, p)
    BY <1>1, <1>3, PublishFacts
  <1>4. ASSUME NEW t \in owed PROVE t.page \in Pages
    BY DEF TypeOK, Task
  <1>. QED
    BY <1>2, <1>3, <1>4
       DEF Next, Connection, Subscriber, Request, Elsewhere, connected, subscribe, ReadSeq,
           attempt_fails, lost, schedule, gap_check, listener, Render, insert, Invalidate,
           Publish, OwnReplay, vars

-----------------------------------------------------------------------------
(* Init establishes the invariant. *)
LEMMA PushInit == Init => PushInv
PROOF
  <1>. SUFFICES ASSUME Init PROVE PushInv
    OBVIOUS
  <1>1. NewAttempt \in Attempt
    BY DEF NewAttempt, Attempt
  <1>2. /\ attempts \in Seq(Attempt) /\ Len(attempts) = 1 /\ DOMAIN attempts = {1}
        /\ attempts[1] = NewAttempt
    <2>. HIDE DEF NewAttempt, Attempt
    <2>. QED  BY <1>1 DEF Init
  <1>3. log \in Seq(Event) /\ Len(log) = 0
    BY DEF Init
  <1>4. TypeOK
    <2>0. client = 0 /\ timer = FALSE
      BY DEF Init
    <2>1. 0 \in Seqs /\ client \in 0 .. Len(attempts) /\ timer \in BOOLEAN
      <3>1. Len(log) = 0 /\ Len(attempts) = 1
        BY <1>2, <1>3
      <3>2. 0 \in Seqs /\ client \in 0 .. Len(attempts)
        BY <2>0, <3>1 DEF Seqs
      <3>3. timer \in BOOLEAN
        BY <2>0, Zenon
      <3>. QED  BY <3>2, <3>3
    <2>2. NewAttempt.pos = 0 /\ NewAttempt.reply = Null
      BY DEF NewAttempt
    <2>3. \A a \in DOMAIN attempts :
              attempts[a].pos \in Seqs /\ attempts[a].reply \in Seqs \cup {Null}
      BY <1>2, <2>1, <2>2
    <2>4. /\ last = Null /\ seen = Null /\ joined = 0 /\ blind = 0
          /\ tier1 = {} /\ renders = {} /\ owed = {}
      BY DEF Init
    <2>. QED  BY <1>2, <1>3, <2>1, <2>3, <2>4, Zenon DEF TypeOK
  <1>5. SeenAgrees /\ AttemptsOK
    BY <1>2 DEF Init, SeenAgrees, AttemptsOK, NewAttempt, Null
  <1>6. HandledFresh /\ OwnPagesOwed
    BY DEF Init, HandledFresh, OwnPagesOwed
  <1>. QED  BY <1>4, <1>5, <1>6 DEF PushInv

(* The counters move only forward, and stay within the log. *)
LEMMA CountersStep ==
    ASSUME TypeOK, [Next]_vars
    PROVE  /\ last' \in Seqs' \cup {Null} /\ last' >= last
           /\ seen' \in Seqs' \cup {Null}
           /\ joined' \in Seqs' /\ blind' \in Seqs'
PROOF
  <1>0. /\ Len(log) \in Nat /\ Len(log') \in Nat /\ Len(log) <= Len(log')
        /\ last \in 0 .. Len(log) \cup {-1} /\ seen \in 0 .. Len(log) \cup {-1}
        /\ joined \in 0 .. Len(log) /\ blind \in 0 .. Len(log)
    BY LogGrows DEF TypeOK, Seqs, Null
  <1>1. CASE UNCHANGED <<last, seen, history>>
    BY <1>0, <1>1 DEF Seqs, Null, history
  <1>2. ASSUME NEW a \in DOMAIN attempts, gap_check(a)
        PROVE  /\ last' \in Seqs' \cup {Null} /\ last' >= last
               /\ seen' \in Seqs' \cup {Null}
               /\ joined' \in Seqs' /\ blind' \in Seqs'
    <2>1. attempts[a].reply \in 0 .. Len(log) /\ log' = log
      BY <1>2 DEF gap_check, TypeOK, Seqs
    <2>. QED  BY <1>0, <1>2, <2>1 DEF gap_check, onGap, Seqs, Null, history
  <1>3. ASSUME NEW a \in DOMAIN attempts, listener(a)
        PROVE  /\ last' \in Seqs' \cup {Null} /\ last' >= last
               /\ seen' \in Seqs' \cup {Null}
               /\ joined' \in Seqs' /\ blind' \in Seqs'
    <2>. DEFINE n == attempts[a].pos + 1
    <2>1. n \in 1 .. Len(log) /\ log' = log
      BY <1>3 DEF listener, TypeOK, Seqs
    <2>2. last' = IF n > last THEN n ELSE last
      BY <1>3 DEF listener
    <2>3. seen' = seen \/ seen' = n
      BY <1>3 DEF listener, on
    <2>4. joined' \in {joined, n - 1} /\ blind' \in {blind, n - 1}
      BY <1>3 DEF listener
    <2>. HIDE DEF n
    <2>. QED  BY <1>0, <2>1, <2>2, <2>3, <2>4 DEF Seqs, Null
  <1>. QED
    BY <1>1, <1>2, <1>3
       DEF Next, Connection, Subscriber, Request, Elsewhere, connected, subscribe, ReadSeq,
           attempt_fails, lost, schedule, Render, insert, Invalidate, Publish, OwnReplay, vars

(* Every attempt stays a record within the log. *)
LEMMA AttemptsTyped ==
    ASSUME TypeOK, [Next]_vars
    PROVE  /\ attempts' \in Seq(Attempt)
           /\ \A a \in DOMAIN attempts' : /\ attempts'[a].pos \in Seqs'
                                          /\ attempts'[a].reply \in Seqs' \cup {Null}
           /\ client' \in 0 .. Len(attempts')
           /\ timer' \in BOOLEAN
PROOF
  <1>. DEFINE Fits(r) == r \in Attempt /\ r.pos \in Seqs' /\ r.reply \in Seqs' \cup {Null}
  <1>0. /\ attempts \in Seq(Attempt) /\ Len(attempts) \in Nat
        /\ DOMAIN attempts = 1 .. Len(attempts)
        /\ client \in 0 .. Len(attempts) /\ timer \in BOOLEAN
    BY DEF TypeOK
  <1>1. Seqs \subseteq Seqs' /\ Len(log) \in Seqs' /\ Seqs' \subseteq Nat
    BY LogGrows DEF Seqs
  <1>2. ASSUME NEW a \in DOMAIN attempts
        PROVE  Fits(attempts[a])
    <2>1. attempts[a] \in Attempt
      BY <1>0
    <2>. QED  BY <1>1, <2>1 DEF TypeOK
  <1>3. ASSUME NEW a \in DOMAIN attempts, NEW r, Fits(r), Set(a, r),
               client' \in {client, a, 0}, timer' \in BOOLEAN
        PROVE  /\ attempts' \in Seq(Attempt)
               /\ \A b \in DOMAIN attempts' : /\ attempts'[b].pos \in Seqs'
                                              /\ attempts'[b].reply \in Seqs' \cup {Null}
               /\ client' \in 0 .. Len(attempts')
               /\ timer' \in BOOLEAN
    <2>1. /\ attempts' \in Seq(Attempt) /\ Len(attempts') = Len(attempts)
          /\ DOMAIN attempts' = DOMAIN attempts /\ attempts'[a] = r
          /\ \A b \in DOMAIN attempts : b # a => attempts'[b] = attempts[b]
      BY <1>0, <1>3, SetFacts
    <2>2. client' \in 0 .. Len(attempts')
      BY <1>0, <1>3, <2>1
    <2>. QED  BY <1>2, <1>3, <2>1, <2>2
  <1>4. CASE UNCHANGED link
    BY <1>0, <1>2, <1>4 DEF link
  <1>5. ASSUME NEW a \in DOMAIN attempts, connected(a)
        PROVE  Fits([attempts[a] EXCEPT !.stage = "subscribe", !.open = TRUE])
    BY <1>2 DEF Attempt
  <1>6. ASSUME NEW a \in DOMAIN attempts, subscribe(a)
        PROVE  Fits([attempts[a] EXCEPT !.stage = "seq", !.pos = Len(log)])
    BY <1>1, <1>2 DEF Attempt
  <1>7. ASSUME NEW a \in DOMAIN attempts, ReadSeq(a)
        PROVE  Fits([attempts[a] EXCEPT !.reply = Len(log)])
    BY <1>1, <1>2 DEF Attempt
  <1>8. ASSUME NEW a \in DOMAIN attempts, attempt_fails(a)
        PROVE  Fits([attempts[a] EXCEPT !.stage = "over", !.open = FALSE, !.reply = Null])
    BY <1>2 DEF Attempt
  <1>9. ASSUME NEW a \in DOMAIN attempts, lost(a)
        PROVE  Fits([attempts[a] EXCEPT !.open = FALSE])
    BY <1>2 DEF Attempt
  <1>10. ASSUME NEW a \in DOMAIN attempts, gap_check(a)
        PROVE  Fits([attempts[a] EXCEPT !.stage = "up", !.reply = Null])
    BY <1>2 DEF Attempt
  <1>11. ASSUME NEW a \in DOMAIN attempts, listener(a)
        PROVE  Fits([attempts[a] EXCEPT !.pos = attempts[a].pos + 1])
    <2>1. attempts[a].pos + 1 \in Seqs'
      BY <1>1, <1>2, <1>11 DEF listener, Seqs
    <2>. QED  BY <1>1, <1>2, <2>1 DEF Attempt
  <1>12. CASE schedule
    <2>1. attempts' = Append(attempts, NewAttempt) /\ client' = client /\ timer' = FALSE
      BY <1>12 DEF schedule
    <2>2. NewAttempt \in Attempt /\ NewAttempt.pos = 0 /\ NewAttempt.reply = Null
      BY DEF NewAttempt, Attempt
    <2>3. 0 \in Seqs'
      BY LogGrows DEF Seqs
    <2>4. /\ attempts' \in Seq(Attempt) /\ Len(attempts') = Len(attempts) + 1
          /\ \A b \in 1 .. Len(attempts) : attempts'[b] = attempts[b]
          /\ attempts'[Len(attempts) + 1] = NewAttempt
          /\ DOMAIN attempts' = 1 .. Len(attempts) + 1
      <3>. HIDE DEF NewAttempt, Attempt
      <3>. QED  BY <1>0, <2>1, <2>2
    <2>5. client' \in 0 .. Len(attempts')
      BY <1>0, <2>1, <2>4
    <2>6. ASSUME NEW b \in DOMAIN attempts'
          PROVE  attempts'[b].pos \in Seqs' /\ attempts'[b].reply \in Seqs' \cup {Null}
      <3>1. b \in DOMAIN attempts \/ b = Len(attempts) + 1
        BY <1>0, <2>4
      <3>. QED  BY <1>0, <1>2, <2>2, <2>3, <2>4, <3>1
    <2>. QED  BY <2>1, <2>4, <2>5, <2>6
  <1>. HIDE DEF Fits
  <1>13. ASSUME NEW a \in DOMAIN attempts, Connection(a) \/ Subscriber(a)
         PROVE  \E r : /\ Fits(r) /\ Set(a, r)
                       /\ client' \in {client, a, 0} /\ timer' \in BOOLEAN
    BY <1>0, <1>5, <1>6, <1>7, <1>8, <1>9, <1>10, <1>11, <1>13
       DEF Connection, Subscriber, connected, subscribe, ReadSeq, attempt_fails, lost,
           gap_check, listener
  <1>14. CASE \E a \in DOMAIN attempts : Connection(a) \/ Subscriber(a)
    BY <1>3, <1>13, <1>14
  <1>. QED
    BY <1>4, <1>12, <1>14
       DEF Next, Request, Elsewhere, Render, insert, Invalidate, Publish, OwnReplay, vars

(* Types. *)
LEMMA PushTypeStep == TypeOK /\ [Next]_vars => TypeOK'
PROOF
  <1>. SUFFICES ASSUME TypeOK, [Next]_vars PROVE TypeOK'
    OBVIOUS
  <1>1. tier1 \subseteq Page /\ renders \subseteq Page /\ owed \subseteq Task /\ Len(log) \in Nat
    BY DEF TypeOK
  <1>2. ASSUME UNCHANGED <<local, owed>>
        PROVE  tier1' \subseteq Page /\ renders' \subseteq Page /\ owed' \subseteq Task
    BY <1>1, <1>2 DEF local
  <1>3. ASSUME NEW a \in DOMAIN attempts, Subscriber(a)
        PROVE  tier1' \subseteq Page /\ renders' \subseteq Page /\ owed' \subseteq Task
    BY <1>1, <1>3 DEF Subscriber, gap_check, onGap, listener, on, clear_local, invalidate, local
  <1>4. ASSUME NEW p \in Pages, Render(p)
        PROVE  tier1' \subseteq Page /\ renders' \subseteq Page /\ owed' \subseteq Task
    BY <1>1, <1>4 DEF Render, Page
  <1>5. ASSUME NEW p \in Pages, Invalidate(p)
        PROVE  tier1' \subseteq Page /\ renders' \subseteq Page /\ owed' \subseteq Task
    BY <1>1, <1>5 DEF Invalidate, invalidate, Task
  <1>6. ASSUME NEW t \in owed, Publish(t)
        PROVE  tier1' \subseteq Page /\ renders' \subseteq Page /\ owed' \subseteq Task
    <2>1. [t EXCEPT !.step = "replay"] \in Task
      BY <1>1 DEF Task
    <2>. QED  BY <1>1, <1>6, <2>1 DEF Publish, local
  <1>7. tier1' \subseteq Page /\ renders' \subseteq Page /\ owed' \subseteq Task
    BY <1>1, <1>2, <1>3, <1>4, <1>5, <1>6
       DEF Next, Connection, Request, Elsewhere, connected, subscribe, ReadSeq, attempt_fails,
           lost, schedule, insert, OwnReplay, invalidate, vars
  <1>. QED
    BY <1>7, LogGrows, CountersStep, AttemptsTyped, Zenon DEF TypeOK

(* The runtime stays behind the adapter. *)
LEMMA SeenStep == TypeOK /\ SeenAgrees /\ [Next]_vars => SeenAgrees'
PROOF
  <1>. SUFFICES ASSUME TypeOK, SeenAgrees, [Next]_vars PROVE seen' <= last'
    BY DEF SeenAgrees
  <1>0. /\ last \in Int /\ last' \in Int /\ last' >= last /\ last >= -1
        /\ seen \in Int /\ seen <= last
    BY LogGrows, CountersStep DEF SeenAgrees, TypeOK, Seqs, Null
  <1>1. CASE seen' = seen
    BY <1>0, <1>1
  <1>2. ASSUME NEW a \in DOMAIN attempts, gap_check(a) PROVE seen' <= last'
    BY <1>0, <1>2 DEF gap_check, onGap, Null
  <1>3. ASSUME NEW a \in DOMAIN attempts, listener(a) PROVE seen' <= last'
    <2>. DEFINE n == attempts[a].pos + 1
    <2>1. n \in Nat
      BY DEF TypeOK, Seqs
    <2>2. last' = IF n > last THEN n ELSE last
      BY <1>3 DEF listener
    <2>3. seen' = seen \/ seen' = n
      BY <1>3 DEF listener, on
    <2>. HIDE DEF n
    <2>. QED  BY <1>0, <2>1, <2>2, <2>3
  <1>. QED
    BY <1>1, <1>2, <1>3
       DEF Next, Connection, Subscriber, Request, Elsewhere, connected, subscribe, ReadSeq,
           attempt_fails, lost, schedule, Render, insert, Invalidate, Publish, OwnReplay, vars

(* What a connection has handed over or counted is in `last`. *)
LEMMA AttemptsStep == TypeOK /\ AttemptsOK /\ [Next]_vars => AttemptsOK'
PROOF
  <1>. DEFINE OK(r, l) ==
                 /\ r.stage \in {"connect", "subscribe"} => r.reply = Null
                 /\ r.stage = "up" => l >= r.pos
                 /\ r.stage = "seq" => l >= r.pos \/ r.reply = Null \/ r.reply >= r.pos
  <1>. SUFFICES ASSUME TypeOK, AttemptsOK, [Next]_vars, NEW b \in DOMAIN attempts'
                PROVE  OK(attempts'[b], last')
    BY DEF AttemptsOK
  <1>0. /\ last \in Int /\ last' \in Int /\ last' >= last /\ Len(log) \in Nat
        /\ attempts \in Seq(Attempt) /\ DOMAIN attempts = 1 .. Len(attempts)
        /\ Len(attempts) \in Nat
    BY LogGrows, CountersStep DEF TypeOK, Seqs, Null
  <1>1. ASSUME NEW a \in DOMAIN attempts
        PROVE  /\ attempts[a] \in Attempt /\ OK(attempts[a], last)
               /\ attempts[a].pos \in 0 .. Len(log)
               /\ attempts[a].reply \in 0 .. Len(log) \cup {-1}
    <2>1. attempts[a] \in Attempt
      BY <1>0
    <2>. QED  BY <2>1 DEF AttemptsOK, TypeOK, Seqs, Null
  <1>2. ASSUME NEW a \in DOMAIN attempts PROVE OK(attempts[a], last')
    BY <1>0, <1>1
  <1>3. ASSUME NEW a \in DOMAIN attempts, NEW r \in Attempt, Set(a, r), OK(r, last')
        PROVE  OK(attempts'[b], last')
    <2>1. /\ DOMAIN attempts' = DOMAIN attempts /\ attempts'[a] = r
          /\ \A c \in DOMAIN attempts : c # a => attempts'[c] = attempts[c]
      BY <1>0, <1>3, SetFacts
    <2>. HIDE DEF OK
    <2>. QED  BY <1>2, <1>3, <2>1
  <1>4. CASE attempts' = attempts
    BY <1>2, <1>4
  <1>5. ASSUME NEW a \in DOMAIN attempts, connected(a) PROVE OK(attempts'[b], last')
    <2>. DEFINE r == [attempts[a] EXCEPT !.stage = "subscribe", !.open = TRUE]
    <2>1. r \in Attempt /\ OK(r, last')
      BY <1>1, <1>5 DEF Attempt, connected
    <2>2. Set(a, r)
      BY <1>5 DEF connected
    <2>. HIDE DEF r, OK
    <2>. QED  BY <1>3, <2>1, <2>2
  <1>6. ASSUME NEW a \in DOMAIN attempts, subscribe(a) PROVE OK(attempts'[b], last')
    <2>. DEFINE r == [attempts[a] EXCEPT !.stage = "seq", !.pos = Len(log)]
    <2>1. r \in Attempt /\ OK(r, last')
      BY <1>0, <1>1, <1>6 DEF Attempt, subscribe
    <2>2. Set(a, r)
      BY <1>6 DEF subscribe
    <2>. HIDE DEF r, OK
    <2>. QED  BY <1>3, <2>1, <2>2
  <1>7. ASSUME NEW a \in DOMAIN attempts, ReadSeq(a) PROVE OK(attempts'[b], last')
    <2>. DEFINE r == [attempts[a] EXCEPT !.reply = Len(log)]
    <2>1. r \in Attempt /\ OK(r, last')
      BY <1>0, <1>1, <1>7 DEF Attempt, ReadSeq
    <2>2. Set(a, r)
      BY <1>7 DEF ReadSeq
    <2>. HIDE DEF r, OK
    <2>. QED  BY <1>3, <2>1, <2>2
  <1>8. ASSUME NEW a \in DOMAIN attempts, attempt_fails(a) PROVE OK(attempts'[b], last')
    <2>. DEFINE r == [attempts[a] EXCEPT !.stage = "over", !.open = FALSE, !.reply = Null]
    <2>1. r \in Attempt /\ OK(r, last')
      BY <1>1 DEF Attempt
    <2>2. Set(a, r)
      BY <1>8 DEF attempt_fails
    <2>. HIDE DEF r, OK
    <2>. QED  BY <1>3, <2>1, <2>2
  <1>9. ASSUME NEW a \in DOMAIN attempts, lost(a) PROVE OK(attempts'[b], last')
    <2>. DEFINE r == [attempts[a] EXCEPT !.open = FALSE]
    <2>0. /\ r \in Attempt /\ r.stage = attempts[a].stage
          /\ r.pos = attempts[a].pos /\ r.reply = attempts[a].reply
      BY <1>1 DEF Attempt
    <2>1. r \in Attempt /\ OK(r, last')
      <3>. HIDE DEF r
      <3>. QED  BY <1>2, <2>0
    <2>2. Set(a, r)
      BY <1>9 DEF lost
    <2>. HIDE DEF r, OK
    <2>. QED  BY <1>3, <2>1, <2>2
  <1>10. ASSUME NEW a \in DOMAIN attempts, gap_check(a) PROVE OK(attempts'[b], last')
    <2>. DEFINE r == [attempts[a] EXCEPT !.stage = "up", !.reply = Null]
    <2>1. r \in Attempt /\ r.stage = "up" /\ r.pos = attempts[a].pos
      BY <1>1 DEF Attempt
    <2>2. last' >= attempts[a].reply
      BY <1>0, <1>1, <1>10 DEF gap_check
    <2>3. last' >= attempts[a].pos
      BY <1>0, <1>1, <1>10, <2>2 DEF gap_check
    <2>4. OK(r, last')
      <3>. HIDE DEF r
      <3>. QED  BY <2>1, <2>3
    <2>5. Set(a, r)
      BY <1>10 DEF gap_check
    <2>. HIDE DEF r, OK
    <2>. QED  BY <1>3, <2>1, <2>4, <2>5
  <1>11. ASSUME NEW a \in DOMAIN attempts, listener(a) PROVE OK(attempts'[b], last')
    <2>. DEFINE n == attempts[a].pos + 1
                r == [attempts[a] EXCEPT !.pos = n]
    <2>1. n \in Nat /\ last' >= n
      BY <1>0, <1>1, <1>11 DEF listener
    <2>2. r \in Attempt /\ r.pos = n /\ r.stage \in {"seq", "up"}
      BY <1>1, <1>11, <2>1 DEF Attempt, listener
    <2>3. OK(r, last')
      <3>. HIDE DEF r
      <3>. QED  BY <2>1, <2>2
    <2>4. Set(a, r)
      BY <1>11 DEF listener
    <2>. HIDE DEF r, OK
    <2>. QED  BY <1>3, <2>2, <2>3, <2>4
  <1>12. CASE schedule
    <2>1. NewAttempt \in Attempt /\ NewAttempt.stage = "connect" /\ NewAttempt.reply = Null
      BY DEF NewAttempt, Attempt
    <2>2. attempts' = Append(attempts, NewAttempt)
      BY <1>12 DEF schedule
    <2>3. (b \in DOMAIN attempts /\ attempts'[b] = attempts[b]) \/ attempts'[b] = NewAttempt
      <3>. HIDE DEF NewAttempt, Attempt
      <3>. QED  BY <1>0, <2>1, <2>2
    <2>. QED  BY <1>2, <2>1, <2>3
  <1>. HIDE DEF OK
  <1>. QED
    BY <1>4, <1>5, <1>6, <1>7, <1>8, <1>9, <1>10, <1>11, <1>12
       DEF Next, Connection, Subscriber, Request, Elsewhere, Render, insert, Invalidate,
           Publish, OwnReplay, vars, link

-----------------------------------------------------------------------------
(* A task is replaced by one of the same page until its replay. *)
LEMMA OwesKept ==
    ASSUME TypeOK, [Next]_vars, NEW p, Owes(p),
           \A t \in owed : OwnReplay(t) => t.page # p
    PROVE  Owes(p)'
PROOF
  <1>1. PICK t \in owed : t.page = p
    BY DEF Owes
  <1>2. CASE t \in owed'
    BY <1>1, <1>2 DEF Owes
  <1>3. ASSUME NEW u \in owed, Publish(u) PROVE Owes(p)'
    <2>1. [u EXCEPT !.step = "replay"].page = u.page
      BY DEF TypeOK, Task
    <2>2. [u EXCEPT !.step = "replay"] \in owed'
      BY <1>3 DEF Publish
    <2>3. t \in owed' \/ t = u
      BY <1>3 DEF Publish
    <2>. QED  BY <1>1, <2>1, <2>2, <2>3 DEF Owes
  <1>4. ASSUME NEW u \in owed, OwnReplay(u) PROVE t \in owed'
    BY <1>1, <1>4 DEF OwnReplay
  <1>. QED
    BY <1>1, <1>2, <1>3, <1>4
       DEF Next, Connection, Subscriber, Request, Elsewhere, connected, subscribe, ReadSeq,
           attempt_fails, lost, schedule, gap_check, listener, Render, insert, Invalidate, vars

(* Pages and renders are old ones that the step's own replay does not      *)
(* cover, or a render that begins now.                                     *)
LEMMA PagesFrom ==
    ASSUME TypeOK, [Next]_vars, NEW e \in tier1' \cup renders'
    PROVE  \/ /\ e \in tier1 \cup renders
              /\ \A t \in owed : OwnReplay(t) => t.page # e.page
           \/ e.at = Len(log) /\ UNCHANGED <<log, last, history>>
PROOF
  <1>1. ASSUME NEW p \in Pages, Render(p), e \notin tier1 \cup renders
        PROVE  e.at = Len(log) /\ UNCHANGED <<log, last, history>>
    BY <1>1 DEF Render
  <1>2. ASSUME NEW t \in owed, OwnReplay(t)
        PROVE  e \in tier1 \cup renders /\ e.page # t.page
    BY <1>2 DEF OwnReplay, invalidate
  <1>3. ASSUME NEW a \in DOMAIN attempts, Subscriber(a) PROVE e \in tier1 \cup renders
    BY <1>3 DEF Subscriber, gap_check, onGap, listener, on, clear_local, invalidate, local
  <1>4. e \in tier1 \cup renders \/ \E p \in Pages : Render(p)
    BY <1>2, <1>3
       DEF Next, Connection, Request, Elsewhere, connected, subscribe, ReadSeq, attempt_fails,
           lost, schedule, insert, Invalidate, invalidate, Publish, vars, local
  <1>. QED  BY <1>1, <1>2, <1>4

(* A page older than an own event is owed a replay. *)
LEMMA OwnStep == TypeOK /\ OwnPagesOwed /\ [Next]_vars => OwnPagesOwed'
PROOF
  <1>. SUFFICES ASSUME TypeOK, OwnPagesOwed, [Next]_vars,
                       NEW e \in tier1' \cup renders', NEW n \in 1 .. Len(log'),
                       log'[n].own, log'[n].page = e.page, e.at < n
                PROVE  Owes(e.page)'
    BY DEF OwnPagesOwed, Outdated
  <1>0. Len(log) \in Nat /\ log \in Seq(Event)
    BY LogGrows DEF TypeOK
  <1>1. CASE e.at = Len(log) /\ UNCHANGED <<log, last, history>>
    BY <1>0, <1>1
  <1>2. CASE e \in tier1 \cup renders /\ \A t \in owed : OwnReplay(t) => t.page # e.page
    <2>1. CASE n \in 1 .. Len(log)
      <3>1. Owes(e.page)
        BY <1>2, <2>1, LogGrows DEF OwnPagesOwed, Outdated
      <3>. QED  BY <1>2, <3>1, OwesKept
    <2>2. CASE n \notin 1 .. Len(log)
      <3>1. log' # log
        BY <2>2
      <3>2. PICK own \in BOOLEAN, p \in Pages :
                publish(own, p) /\ (own => \E t \in owed : t.page = p)
        <4>1. ASSUME NEW t \in owed PROVE t.page \in Pages
          BY DEF TypeOK, Task
        <4>. QED
          BY <3>1, <4>1
             DEF Next, Connection, Subscriber, Request, Elsewhere, connected, subscribe, ReadSeq,
                 attempt_fails, lost, schedule, gap_check, listener, Render, insert, Invalidate,
                 Publish, OwnReplay, vars
      <3>3. n = Len(log) + 1
        BY <1>0, <2>2, <3>2, PublishFacts
      <3>4. own /\ p = e.page
        BY <1>0, <3>2, <3>3, PublishFacts
      <3>5. Owes(e.page)
        BY <3>2, <3>4 DEF Owes
      <3>. QED  BY <1>2, <3>5, OwesKept
    <2>. QED  BY <2>1, <2>2
  <1>. QED  BY <1>1, <1>2, PagesFrom

-----------------------------------------------------------------------------
(* Up to `last`, pages and renders are fresh, owed an own replay, or older *)
(* than an event that was skipped unnoticed.                               *)
LEMMA HandledStep ==
    TypeOK /\ SeenAgrees /\ OwnPagesOwed /\ HandledFresh /\ [Next]_vars => HandledFresh'
PROOF
  <1>. SUFFICES ASSUME TypeOK, SeenAgrees, OwnPagesOwed, HandledFresh, [Next]_vars,
                       NEW e \in tier1' \cup renders', NEW m \in blind' + 1 .. last',
                       log'[m].page = e.page, e.at < m
                PROVE  log'[m].own /\ Owes(e.page)'
    BY DEF HandledFresh, FreshFor, Outdated
  <1>0. /\ Len(log) \in Nat /\ last \in Int /\ last >= -1 /\ last <= Len(log)
        /\ seen \in Int /\ seen <= last /\ blind \in Nat
    BY LogGrows DEF TypeOK, SeenAgrees, Seqs, Null
  <1>1. CASE e.at = Len(log) /\ UNCHANGED <<log, last, history>>
    BY <1>0, <1>1 DEF history
  <1>2. CASE e \in tier1 \cup renders /\ \A t \in owed : OwnReplay(t) => t.page # e.page
    <2>0. SUFFICES /\ m \in 1 .. Len(log)
                   /\ log[m].page = e.page => log[m].own /\ Owes(e.page)
      BY <1>2, LogGrows, OwesKept
    (* An event already handled. *)
    <2>1. ASSUME m \in blind + 1 .. last
          PROVE  /\ m \in 1 .. Len(log)
                 /\ log[m].page = e.page => log[m].own /\ Owes(e.page)
      BY <1>0, <1>2, <2>1 DEF HandledFresh, FreshFor, Outdated
    <2>2. CASE UNCHANGED <<last, history>>
      BY <2>1, <2>2 DEF history
    <2>3. ASSUME NEW a \in DOMAIN attempts, gap_check(a)
          PROVE  m \in blind + 1 .. last
      <3>1. ~onGap
        BY DEF onGap, clear_local
      <3>2. attempts[a].reply \in Int
        BY DEF TypeOK, Seqs, Null
      <3>3. CASE last' = attempts[a].reply /\ blind' = attempts[a].reply
        BY <3>2, <3>3
      <3>4. CASE UNCHANGED <<last, history>>
        BY <3>4 DEF history
      <3>. QED  BY <2>3, <3>1, <3>3, <3>4 DEF gap_check
    <2>4. ASSUME NEW a \in DOMAIN attempts, listener(a)
          PROVE  /\ m \in 1 .. Len(log)
                 /\ log[m].page = e.page => log[m].own /\ Owes(e.page)
      <3>. DEFINE n == attempts[a].pos + 1
                  skips == seen = Null /\ n > last + 1
      <3>1. n \in 1 .. Len(log)
        BY <1>0, <2>4 DEF TypeOK, Seqs, listener
      <3>2. /\ last' = IF n > last THEN n ELSE last
            /\ blind' = IF skips THEN n - 1 ELSE blind
            /\ on(n)
        BY <2>4 DEF listener
      <3>. HIDE DEF n
      <3>3. ~clear_local
        BY DEF clear_local
      (* The runtime replays n, or knows it already. *)
      <3>4. \/ seen # Null /\ n <= seen
            \/ /\ seen = Null \/ n = seen + 1
               /\ log[n].page = e.page => log[n].own
        BY <3>2, <3>3 DEF on, invalidate
      <3>5. m \in blind + 1 .. last \/ m = n
        BY <1>0, <3>1, <3>2, <3>4
      <3>6. CASE m = n
        <4>1. CASE n <= seen
          <5>1. last' = last /\ blind' = blind
            BY <1>0, <3>1, <3>2, <4>1 DEF Null
          <5>. QED  BY <2>1, <5>1
        <4>2. CASE log[n].page = e.page => log[n].own
          BY <1>2, <3>1, <3>6, <4>2 DEF OwnPagesOwed, Outdated
        <4>. QED  BY <3>4, <4>1, <4>2
      <3>. QED  BY <2>1, <3>5, <3>6
    <2>. QED
      BY <2>1, <2>2, <2>3, <2>4
         DEF Next, Connection, Subscriber, Request, Elsewhere, connected, subscribe, ReadSeq,
             attempt_fails, lost, schedule, Render, insert, Invalidate, Publish, OwnReplay, vars,
             history
  <1>. QED  BY <1>1, <1>2, PagesFrom

(* The invariant is inductive. *)
LEMMA PushStep == PushInv /\ [Next]_vars => PushInv'
PROOF
  BY PushTypeStep, SeenStep, AttemptsStep, OwnStep, HandledStep DEF PushInv

(* A subscriber that has caught up keeps no page older than an event,      *)
(* whatever connections were lost or ran in parallel, but for the events   *)
(* the runtime's first event after a gap jumped over.                      *)
THEOREM SettledPagesFresh == Spec => []SettledFresh
PROOF
  <1>1. PushInv => SettledFresh
    <2>. SUFFICES ASSUME PushInv, Settled PROVE last = Len(log)
      BY DEF PushInv, HandledFresh, SettledFresh
    <2>1. PICK a \in DOMAIN attempts : attempts[a].stage = "up" /\ attempts[a].pos = Len(log)
      BY DEF Settled
    <2>2. last >= attempts[a].pos
      BY <2>1 DEF PushInv, AttemptsOK
    <2>3. Len(log) \in Nat /\ last \in Seqs \cup {Null}
      BY DEF PushInv, TypeOK
    <2>. QED  BY <2>1, <2>2, <2>3 DEF Seqs, Null
  <1>. QED  BY PushInit, PushStep, <1>1, PTL DEF Spec

(* Every variable keeps its type; neither the adapter nor the runtime is   *)
(* ahead of the counter.                                                   *)
THEOREM PushTypes == Spec => []TypeOK
PROOF
  <1>1. PushInv => TypeOK
    BY DEF PushInv
  <1>. QED  BY PushInit, PushStep, <1>1, PTL DEF Spec
=============================================================================
