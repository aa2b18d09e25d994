-------------------------- MODULE WorkerPoolProofs --------------------------
(***************************************************************************)
(* Proofs about WorkerPool, for any requests, workers, slots and times.    *)
(***************************************************************************)
EXTENDS WorkerPool, NaturalsInduction, SequenceTheorems, WellFoundedInduction, TLAPS

(* What is taken out of a sequence at one place. *)
LEMMA RemovedAt ==
    ASSUME NEW S, NEW s \in Seq(S), NEW k \in 1..Len(s)
    PROVE  /\ RemoveAt(s, k) \in Seq(S)
           /\ Len(RemoveAt(s, k)) = Len(s) - 1
           /\ \A i \in 1..(Len(s) - 1) : RemoveAt(s, k)[i] = IF i < k THEN s[i] ELSE s[i + 1]
<1>. DEFINE a == SubSeq(s, 1, k - 1)
            b == SubSeq(s, k + 1, Len(s))
<1>1. Len(s) \in Nat /\ k \in Nat
  OBVIOUS
<1>2. a \in Seq(S) /\ Len(a) = k - 1 /\ \A i \in 1..(k - 1) : a[i] = s[i]
  BY <1>1
<1>3. b \in Seq(S) /\ Len(b) = Len(s) - k /\ \A i \in 1..(Len(s) - k) : b[i] = s[k + i]
  BY <1>1
<1>4. RemoveAt(s, k) = a \o b
  BY DEF RemoveAt
<1>. HIDE DEF a, b
<1>5. /\ Len(a \o b) = Len(a) + Len(b) /\ a \o b \in Seq(S)
      /\ \A i \in 1..(Len(a) + Len(b)) :
             (a \o b)[i] = IF i <= Len(a) THEN a[i] ELSE b[i - Len(a)]
  BY <1>2, <1>3, ConcatProperties
<1>6. ASSUME NEW i \in 1..(Len(s) - 1)
      PROVE  RemoveAt(s, k)[i] = IF i < k THEN s[i] ELSE s[i + 1]
  <2>1. RemoveAt(s, k)[i] = IF i <= k - 1 THEN a[i] ELSE b[i - (k - 1)]
    BY <1>1, <1>2, <1>3, <1>4, <1>5
  <2>2. CASE i < k
    BY <1>1, <1>2, <2>1, <2>2
  <2>3. CASE ~(i < k)
    <3>1. i - (k - 1) \in 1..(Len(s) - k) /\ k + (i - (k - 1)) = i + 1
      BY <1>1, <2>3
    <3>. QED  BY <1>1, <1>3, <2>1, <2>3, <3>1
  <2>. QED  BY <2>2, <2>3
<1>. QED  BY <1>1, <1>2, <1>3, <1>4, <1>5, <1>6

(* R is s without its place k. *)
TakenOut(s, k, R) ==
  /\ Len(s) \in Nat /\ Len(R) = Len(s) - 1
  /\ \A i \in 1..(Len(s) - 1) : R[i] = IF i < k THEN s[i] ELSE s[i + 1]

LEMMA TakesOut ==
    ASSUME NEW S, NEW s \in Seq(S), NEW k \in 1..Len(s), NEW R, R = RemoveAt(s, k)
    PROVE  TakenOut(s, k, R)
<1>1. /\ Len(RemoveAt(s, k)) = Len(s) - 1
      /\ \A i \in 1..(Len(s) - 1) : RemoveAt(s, k)[i] = IF i < k THEN s[i] ELSE s[i + 1]
  BY RemovedAt, Zenon
<1>2. Len(s) \in Nat
  OBVIOUS
<1>. QED  BY <1>1, <1>2 DEF TakenOut

LEMMA LeastOf == ASSUME NEW I \in SUBSET Nat, I # {} PROVE Min(I) \in I
<1>. DEFINE R == {ss \in Nat \X Nat : ss[1] < ss[2]}
<1>1. OpToRel(<, Nat) = R
  BY Zenon DEF OpToRel
<1>2. IsWellFoundedOn(R, Nat)
  BY <1>1, NatLessThanWellFounded, Zenon
<1>3. \E n \in I : \A m \in I : ~(<<m, n>> \in R)
  <2>. HIDE DEF R
  <2>. QED  BY <1>2, WFMin
<1>4. PICK n \in I : \A m \in I : ~(<<m, n>> \in R)
  BY <1>3
<1>5. \A m \in I : <<m, n>> \in R <=> m < n
  OBVIOUS
<1>6. ASSUME NEW m \in I PROVE n <= m
  <2>. HIDE DEF R
  <2>1. ~(m < n)
    BY <1>4, <1>5
  <2>. QED  BY <2>1
<1>. QED  BY <1>6 DEF Min

(* RemoveFirst takes one place out, or leaves the sequence as it is. *)
LEMMA RemovedFirst ==
    ASSUME NEW S, NEW s \in Seq(S), NEW e
    PROVE  \/ RemoveFirst(s, e) = s /\ \A i \in 1..Len(s) : s[i] # e
           \/ \E k \in 1..Len(s) : s[k] = e /\ RemoveFirst(s, e) = RemoveAt(s, k)
<1>. DEFINE I == {i \in 1..Len(s) : s[i] = e}
<1>1. CASE I = {}
  BY <1>1 DEF RemoveFirst
<1>2. CASE I # {}
  <2>1. Min(I) \in I
    <3>. I \in SUBSET Nat
      OBVIOUS
    <3>. QED  BY <1>2, LeastOf
  <2>2. SelectInSeq(s, LAMBDA v : v = e) = Min(I)
    BY <1>2 DEF SelectInSeq
  <2>. QED  BY <1>2, <2>1, <2>2 DEF RemoveFirst
<1>. QED  BY <1>1, <1>2

LEMMA RemovedType ==
    ASSUME NEW S, NEW s \in Seq(S), NEW e
    PROVE  RemoveFirst(s, e) \in Seq(S)
  BY RemovedFirst, RemovedAt
-----------------------------------------------------------------------------
(* The inductive invariant. *)
(* The steps of a request, of the call in its name and of the worker's     *)
(* code for it go together: whoever has a claim, or has still to notify    *)
(* after one, knows its slot, code runs for a call only while that is      *)
(* awaited, and a scan stands at a slot of the list.                       *)
Legal(r) ==
  /\ caller[r] \in {"new", "scan", "enable", "again", "parked"} => call[r] = "none"
  /\ caller[r] = "call" => call[r] \in {"dispatch", "await"}
  /\ caller[r] = "deadline" => call[r] = "await"
  /\ call[r] = "none" => slot[r] = None /\ js[r] = "none"
  /\ call[r] = "dispatch" => caller[r] = "call" /\ js[r] = "none"
  /\ call[r] = "await" => js[r] # "none"
  /\ JsActive(r) => call[r] = "await"
  /\ Holds(r) \/ call[r] = "notify" => slot[r] \in Slots

Standing(r) ==
  pos[r] = 1 \/ (caller[r] \in {"scan", "again"} /\ pos[r] \in 1..Len(ScanOrder))

StepsMatch == \A r \in Requests : Legal(r) /\ Standing(r)

(* A claimed slot is not idle, and two claims are of two slots.            *)
Leased ==
  /\ \A r \in Requests : Holds(r) => ~idle[slot[r]]
  /\ \A q, r \in Requests : Holds(q) /\ Holds(r) /\ slot[q] = slot[r] => q = r

(* What a slot's cells carry belongs to a claim that has filled or has     *)
(* still to empty them.                                                    *)
Empty(s) == /\ plan[s] = None /\ jobs_since[s] = None /\ heap_reply[s] = None
            /\ deadline[s] = None /\ deadline_waker[s] = None

CellsHeld ==
  \A s \in Slots :
     Empty(s) \/ \E r \in Requests : call[r] \in {"await", "clear"} /\ slot[r] = s

(* While a call is awaited its slot has the plan the call was sent with,   *)
(* or what plan_claimed made of it; and once its promise has resolved, the *)
(* bytes in the slot, and the body behind a marker, are the call's.        *)
PlanFits(r, p) ==
  CASE kind[r] = "plain" -> p = None
    [] kind[r] = "planned" -> p = None \/ (p.of = r /\ p.is # "fetch")
    [] OTHER -> p # None /\ p.of = r /\ p.is = "fetch"

Answers(r, b) ==
  /\ b # None /\ b.of = r
  /\ b.heap => (IF kind[r] \in {"fetch", "stream"} THEN reply[r] ELSE heap_reply[slot[r]]) = r

Own(r) ==
  call[r] = "await" => /\ PlanFits(r, plan[slot[r]])
                       /\ js[r] = "resolved" => Answers(r, buf[slot[r]])

OwnCells == \A r \in Requests : Own(r)
-----------------------------------------------------------------------------
(* Types.                                                                  *)
LEMMA Removals == ASSUME TypeOK
                  PROVE  \A e : /\ RemoveFirst(waiters, e) \in Seq(Requests)
                                /\ RemoveFirst(entries, e) \in Seq(Workers)
  BY RemovedType DEF TypeOK

(* What a scan tries are slots.                                            *)
LEMMA ScannedSlots == ASSUME TypeOK
                      PROVE  /\ Len(ScanOrder) \in Nat
                             /\ \A i \in 1..Len(ScanOrder) : ScanOrder[i] \in Slots
<1>1. Len(entries) \in Nat /\ SLOT_COUNT \in Nat \ {0}
  BY SizesAssumption DEF TypeOK
<1>2. Len(entries) * SLOT_COUNT \in Nat
  BY <1>1
<1>3. Len(ScanOrder) = Len(entries) * SLOT_COUNT
  BY <1>2 DEF ScanOrder
<1>4. ASSUME NEW i \in 1..Len(ScanOrder) PROVE ScanOrder[i] \in Slots
  <2>1. (i - 1) \div SLOT_COUNT + 1 \in 1..Len(entries) /\ ((i - 1) % SLOT_COUNT) + 1 \in 1..SLOT_COUNT
    BY <1>1, <1>2, <1>3, <1>4
  <2>2. ScanOrder[i] = <<entries[(i - 1) \div SLOT_COUNT + 1], ((i - 1) % SLOT_COUNT) + 1>>
    BY <1>2, <1>3, <1>4 DEF ScanOrder
  <2>. QED  BY <2>1, <2>2 DEF TypeOK, Slots
<1>. QED  BY <1>2, <1>3, <1>4

LEMMA ClaimedIsSlot ==
    ASSUME TypeOK, StepsMatch, NEW r \in Requests, claim(r)
    PROVE  /\ pos[r] \in 1..Len(ScanOrder) /\ ScanOrder[pos[r]] \in Slots
           /\ idle[ScanOrder[pos[r]]]
           /\ idle' = [idle EXCEPT ![ScanOrder[pos[r]]] = FALSE]
           /\ slot' = [slot EXCEPT ![r] = ScanOrder[pos[r]]]
           /\ used' = used \cup {ScanOrder[pos[r]]}
<1>1. pos[r] \in 1..Len(ScanOrder)
  BY ScannedSlots DEF claim, StepsMatch, Standing, TypeOK
<1>2. ScanOrder[pos[r]] \in Slots
  BY <1>1, ScannedSlots
<1>. QED  BY <1>1, <1>2 DEF claim, compare_exchange

LEMMA ClaimTypes ==
    ASSUME TypeOK, StepsMatch, NEW r \in Requests, claim(r)
    PROVE  /\ idle' \in [Slots -> BOOLEAN] /\ used' \subseteq Slots
           /\ slot' \in [Requests -> {None} \cup Slots]
<1>. DEFINE s == ScanOrder[pos[r]]
<1>1. /\ s \in Slots /\ idle' = [idle EXCEPT ![s] = FALSE]
      /\ slot' = [slot EXCEPT ![r] = s] /\ used' = used \cup {s}
  BY ClaimedIsSlot
<1>. HIDE DEF s
<1>2. idle' \in [Slots -> BOOLEAN] /\ used' \subseteq Slots
  BY <1>1 DEF TypeOK
<1>3. slot' \in [Requests -> {None} \cup Slots]
  BY <1>1 DEF TypeOK
<1>. QED  BY <1>2, <1>3

LEMMA PairMin == ASSUME NEW a \in Nat, NEW b \in Nat PROVE Min({a, b}) = IF a <= b THEN a ELSE b
<1>1. CASE a <= b
  BY <1>1 DEF Min
<1>2. CASE ~(a <= b)
  BY <1>2 DEF Min
<1>. QED  BY <1>1, <1>2

LEMMA StreamDeadlines == ASSUME TypeOK, NEW r \in Requests
                         PROVE  stream_deadline(r) \in 0..CALL_TIMEOUT
<1>1. last[r] \in 0..CALL_TIMEOUT /\ total[r] \in Nat
  BY TimesAssumption DEF TypeOK
<1>2. Min({last[r], total[r]}) = IF last[r] <= total[r] THEN last[r] ELSE total[r]
  BY <1>1, PairMin, TimesAssumption
<1>. QED  BY <1>1, <1>2, TimesAssumption DEF stream_deadline

(* tokio's Notify.                                                         *)
NotifyTyped == /\ permit \in BOOLEAN /\ waiters \in Seq(Requests)
               /\ notified \in [Requests -> {"none", "waiting", "woken", "taken"}]

LEMMA NotifyOneTyped ==
    ASSUME NotifyTyped, NEW q \in Seq(Requests),
           NEW n \in [Requests -> {"none", "waiting", "woken", "taken"}], notify_one(q, n)
    PROVE  NotifyTyped'
<1>1. CASE q = <<>>
  BY <1>1 DEF NotifyTyped, notify_one
<1>2. CASE q # <<>>
  <2>1. Head(q) \in Requests /\ Tail(q) \in Seq(Requests)
    BY <1>2
  <2>. QED  BY <1>2, <2>1 DEF NotifyTyped, notify_one
<1>. QED  BY <1>1, <1>2

LEMMA EnableTyped == ASSUME NotifyTyped, NEW r \in Requests, enable(r) PROVE NotifyTyped'
<1>1. Append(waiters, r) \in Seq(Requests)
  BY DEF NotifyTyped
<1>. QED  BY <1>1 DEF NotifyTyped, enable

LEMMA DropTyped ==
    ASSUME NotifyTyped, NEW r \in Requests, drop_notified(r),
           \A e : RemoveFirst(waiters, e) \in Seq(Requests)
    PROVE  NotifyTyped'
<1>. DEFINE n == [notified EXCEPT ![r] = "none"]
<1>1. n \in [Requests -> {"none", "waiting", "woken", "taken"}]
  BY DEF NotifyTyped
<1>2. CASE notified[r] = "woken"
  <2>1. notify_one(RemoveFirst(waiters, r), n)
    BY <1>2 DEF drop_notified
  <2>. HIDE DEF n
  <2>. QED  BY <1>1, <2>1, NotifyOneTyped
<1>3. CASE notified[r] # "woken"
  BY <1>1, <1>3 DEF NotifyTyped, drop_notified
<1>. QED  BY <1>2, <1>3

(* The actions that are more than assignments.                             *)
LEMMA BusyTypes == ASSUME TypeOK, NEW r \in Requests, slot_busy(r)
                   PROVE  pos' \in [Requests -> Nat] /\ caller' \in [Requests -> Callers]
<1>1. pos[r] + 1 \in Nat
  BY DEF TypeOK
<1>2. PICK n \in Nat : pos' = [pos EXCEPT ![r] = n]
  BY <1>1 DEF slot_busy
<1>3. caller' = caller \/ \E c \in Callers : caller' = [caller EXCEPT ![r] = c]
  BY DEF slot_busy, Callers
<1>4. caller' \in [Requests -> Callers]
  BY <1>3 DEF TypeOK
<1>. QED  BY <1>2, <1>4 DEF TypeOK

LEMMA DispatchTypes ==
    ASSUME TypeOK, NEW r \in Requests, dispatch_call(r)
    PROVE  deadline' \in [Slots -> Timers] /\ at' \in [Requests -> 0..CALL_TIMEOUT]
<1>. DEFINE d == IF kind[r] = "stream" THEN stream_deadline(r) ELSE CALL_TIMEOUT
<1>1. d \in 0..CALL_TIMEOUT
  BY StreamDeadlines, TimesAssumption
<1>2. deadline' = [deadline EXCEPT ![slot[r]] = d] /\ at' = [at EXCEPT ![r] = d]
  BY DEF dispatch_call
<1>. HIDE DEF d
<1>. QED  BY <1>1, <1>2 DEF TypeOK, Timers

LEMMA FinishTypes ==
    ASSUME TypeOK, NEW r \in Requests, finish(r)
    PROVE  /\ entries' \in Seq(Workers) /\ mixed' \subseteq Requests
           /\ heap_reply' \in [Slots -> {None} \cup Requests]
           /\ reply' \in [Requests -> {None} \cup Requests]
           /\ plan' \in [Slots -> {None} \cup [of : Requests, is : {"seed", "plan", "fetch"}]]
           /\ call' \in [Requests -> CallSteps]
<1>1. entries' \in Seq(Workers)
  BY Removals DEF finish, TypeOK
<1>2. call' \in [Requests -> CallSteps]
  BY DEF finish, TypeOK, CallSteps
<1>3. CASE js[r] = "resolved"
  <2>1. decode(r)
    BY <1>3 DEF finish
  <2>2. mixed' \subseteq Requests
    BY <2>1 DEF decode, TypeOK
  <2>3. /\ heap_reply' \in [Slots -> {None} \cup Requests]
        /\ reply' \in [Requests -> {None} \cup Requests]
    BY <2>1 DEF decode, TypeOK
  <2>4. plan' = [plan EXCEPT ![slot[r]] = None]
    BY <2>1 DEF decode
  <2>. QED  BY <1>1, <1>2, <2>2, <2>3, <2>4 DEF TypeOK
<1>4. CASE js[r] # "resolved"
  BY <1>1, <1>2, <1>4 DEF finish, TypeOK
<1>. QED  BY <1>3, <1>4

LEMMA PollTypes ==
    ASSUME TypeOK, NEW r \in Requests, poll_call(r)
    PROVE  /\ entries' \in Seq(Workers) /\ mixed' \subseteq Requests
           /\ heap_reply' \in [Slots -> {None} \cup Requests]
           /\ reply' \in [Requests -> {None} \cup Requests]
           /\ plan' \in [Slots -> {None} \cup [of : Requests, is : {"seed", "plan", "fetch"}]]
           /\ call' \in [Requests -> CallSteps]
           /\ caller' \in [Requests -> Callers]
<1>1. caller' \in [Requests -> Callers]
  <2>1. \E c \in Callers : caller' = [caller EXCEPT ![r] = c]
    BY DEF poll_call, answer, Callers
  <2>. QED  BY <2>1 DEF TypeOK
<1>2. CASE finish(r)
  BY <1>1, <1>2, FinishTypes
<1>3. CASE UNCHANGED <<entries, mixed, heap_reply, reply, plan, call>>
  BY <1>1, <1>3 DEF TypeOK
<1>. QED  BY <1>2, <1>3 DEF poll_call

LEMMA PollDeadlineTypes ==
    ASSUME TypeOK, StepsMatch, NEW r \in Requests, poll_deadline(r)
    PROVE  /\ caller' \in [Requests -> Callers] /\ at' \in [Requests -> 0..CALL_TIMEOUT]
           /\ deadline' \in [Slots -> Timers]
           /\ deadline_waker' \in [Slots -> {None} \cup Requests]
           /\ stream' \in [Requests -> {"open", "done", "closed", "failed"}]
           /\ woken' \in [Requests -> BOOLEAN]
<1>. DEFINE moved == CASE kind[r] = "stream" -> stream_deadline(r)
                       [] jobs_since[slot[r]] # None -> jobs_since[slot[r]]
                       [] OTHER -> 0
<1>1. slot[r] \in Slots
  BY DEF poll_deadline, StepsMatch, Legal, Holds
<1>2. moved \in 0..CALL_TIMEOUT
  <2>1. jobs_since[slot[r]] \in {None} \cup (0..CALL_TIMEOUT)
    BY <1>1 DEF TypeOK, Timers
  <2>2. stream_deadline(r) \in 0..CALL_TIMEOUT /\ 0 \in 0..CALL_TIMEOUT
    BY StreamDeadlines, TimesAssumption
  <2>. QED  BY <2>1, <2>2
<1>3. \/ /\ detach(r) /\ UNCHANGED <<at, timer>>
         /\ stream' = [stream EXCEPT ![r] = IF @ = "open" THEN "failed" ELSE @]
      \/ /\ at' = [at EXCEPT ![r] = IF @ = 0 THEN moved ELSE @]
         /\ deadline' = [deadline EXCEPT ![slot[r]] = IF at[r] = 0 THEN moved ELSE @]
         /\ deadline_waker' = [deadline_waker EXCEPT ![slot[r]] = r]
         /\ caller' = [caller EXCEPT ![r] = "call"]
         /\ UNCHANGED <<woken, call, stream>>
  BY DEF poll_deadline
<1>. HIDE DEF moved
<1>4. CASE /\ detach(r) /\ UNCHANGED <<at, timer>>
           /\ stream' = [stream EXCEPT ![r] = IF @ = "open" THEN "failed" ELSE @]
  BY <1>4 DEF TypeOK, detach, answer, timer, Callers
<1>5. CASE /\ at' = [at EXCEPT ![r] = IF @ = 0 THEN moved ELSE @]
           /\ deadline' = [deadline EXCEPT ![slot[r]] = IF at[r] = 0 THEN moved ELSE @]
           /\ deadline_waker' = [deadline_waker EXCEPT ![slot[r]] = r]
           /\ caller' = [caller EXCEPT ![r] = "call"]
           /\ UNCHANGED <<woken, call, stream>>
  BY <1>2, <1>5 DEF TypeOK, Timers, Callers
<1>. QED  BY <1>3, <1>4, <1>5

LEMMA PlanTypes ==
    ASSUME TypeOK, NEW r \in Requests, plan_in_call(r)
    PROVE  /\ plan' \in [Slots -> {None} \cup [of : Requests, is : {"seed", "plan", "fetch"}]]
           /\ jobs_since' \in [Slots -> Timers]
<1>1. slot[r] \in Slots
  BY DEF plan_in_call, Alive, TypeOK
<1>2. jobs_since' = [jobs_since EXCEPT ![slot[r]] = CALL_TIMEOUT] \/ jobs_since' = jobs_since
  BY Zenon DEF plan_in_call
<1>3. jobs_since' \in [Slots -> Timers]
  <2>1. CALL_TIMEOUT \in Timers /\ jobs_since \in [Slots -> Timers]
    BY TimesAssumption DEF TypeOK, Timers
  <2>. QED  BY <1>2, <2>1
<1>4. CASE plan[slot[r]] # None /\ plan' = [plan EXCEPT ![slot[r]].is = "plan"]
  <2>1. plan[slot[r]] \in [of : Requests, is : {"seed", "plan", "fetch"}]
    BY <1>1, <1>4 DEF TypeOK
  <2>2. [plan[slot[r]] EXCEPT !.is = "plan"] \in [of : Requests, is : {"seed", "plan", "fetch"}]
    BY <2>1
  <2>. QED  BY <1>1, <1>3, <1>4, <2>2 DEF TypeOK
<1>5. CASE plan' = [plan EXCEPT ![slot[r]] = IF ClaimedSlot(r) THEN None ELSE @]
  BY <1>3, <1>5 DEF TypeOK
<1>. QED  BY <1>4, <1>5 DEF plan_in_call

LEMMA ResolveTypes ==
    ASSUME TypeOK, NEW r \in Requests, resolve(r)
    PROVE  /\ heap_reply' \in [Slots -> {None} \cup Requests]
           /\ buf' \in [Slots -> {None} \cup [of : Requests, heap : BOOLEAN]]
           /\ reply' \in [Requests -> {None} \cup Requests]
<1>1. heap_reply' \in [Slots -> {None} \cup Requests]
  <2>1. heap_reply' = heap_reply \/ heap_reply' = [heap_reply EXCEPT ![slot[r]] = r]
    BY DEF resolve
  <2>. QED  BY <2>1 DEF TypeOK
<1>2. PICK heap \in BOOLEAN : buf' = [buf EXCEPT ![slot[r]] = [of |-> r, heap |-> heap]]
  BY DEF resolve
<1>3. buf' \in [Slots -> {None} \cup [of : Requests, heap : BOOLEAN]]
  BY <1>2 DEF TypeOK
<1>4. reply' = reply \/ \E o : reply' = [reply EXCEPT ![o] = r]
  BY DEF resolve
<1>5. reply' \in [Requests -> {None} \cup Requests]
  BY <1>4 DEF TypeOK
<1>. QED  BY <1>1, <1>3, <1>5

(* The body found through the slot belongs to a request.                   *)
LEMMA FetchCellOf == ASSUME TypeOK, NEW r \in Requests, Alive(r), FetchCell(r)
                     PROVE  plan[slot[r]].of \in Requests
<1>1. slot[r] \in Slots
  BY DEF TypeOK, Alive
<1>2. plan[slot[r]] \in [of : Requests, is : {"seed", "plan", "fetch"}]
  BY <1>1 DEF TypeOK, FetchCell
<1>. QED  BY <1>2

LEMMA TakeTypes ==
    ASSUME TypeOK, NEW r \in Requests, take_fetch_body(r)
    PROVE  /\ stream' \in [Requests -> {"open", "done", "closed", "failed"}]
           /\ mixed' \subseteq Requests
<1>1. plan[slot[r]].of \in Requests
  BY FetchCellOf DEF take_fetch_body
<1>. QED  BY <1>1 DEF TypeOK, take_fetch_body

LEMMA PullTypes ==
    ASSUME TypeOK, NEW r \in Requests, pull_fetch_body(r)
    PROVE  /\ stream' \in [Requests -> {"open", "done", "closed", "failed"}]
           /\ last' \in [Requests -> 0..CALL_TIMEOUT]
           /\ mixed' \subseteq Requests
<1>. DEFINE o == plan[slot[r]].of
<1>1. o \in Requests
  BY FetchCellOf DEF pull_fetch_body
<1>2. last[o] \in 0..CALL_TIMEOUT
  BY <1>1 DEF TypeOK
<1>3. \E x \in {"open", "done", "closed", "failed"} : stream' = [stream EXCEPT ![o] = x]
  BY DEF pull_fetch_body
<1>4. \E t \in {CALL_TIMEOUT} \cup (last[o]..CALL_TIMEOUT) : last' = [last EXCEPT ![o] = t]
  BY DEF pull_fetch_body
<1>5. mixed' \subseteq mixed \cup {o}
  BY DEF pull_fetch_body
<1>. HIDE DEF o
<1>6. {CALL_TIMEOUT} \cup (last[o]..CALL_TIMEOUT) \subseteq 0..CALL_TIMEOUT
  BY <1>2, TimesAssumption
<1>7. \E t \in 0..CALL_TIMEOUT : last' = [last EXCEPT ![o] = t]
  BY <1>4, <1>6, Zenon
<1>. QED  BY <1>1, <1>3, <1>5, <1>7 DEF TypeOK

LEMMA TypeInit == Init => TypeOK
<1>. SUFFICES ASSUME Init PROVE TypeOK
  OBVIOUS
<1>1. entries \in Seq(Workers)
  BY SizesAssumption DEF Init, Workers
<1>2. /\ jobs_since \in [Slots -> Timers] /\ deadline \in [Slots -> Timers]
      /\ at \in [Requests -> 0..CALL_TIMEOUT] /\ last \in [Requests -> 0..CALL_TIMEOUT]
      /\ total \in [Requests -> 0..STREAM_TOTAL]
  BY TimesAssumption DEF Init, Timers
<1>3. /\ caller \in [Requests -> Callers] /\ call \in [Requests -> CallSteps]
      /\ js \in [Requests -> JsSteps]
  BY DEF Init, Callers, CallSteps, JsSteps
<1>4. /\ plan \in [Slots -> {None} \cup [of : Requests, is : {"seed", "plan", "fetch"}]]
      /\ buf \in [Slots -> {None} \cup [of : Requests, heap : BOOLEAN]]
  BY DEF Init
<1>5. waiters = <<>>
  BY DEF Init
<1>6. waiters \in Seq(Requests)
  BY <1>5
<1>7. permit \in BOOLEAN
  BY DEF Init
<1>8. notified \in [Requests -> {"none", "waiting", "woken", "taken"}]
  BY DEF Init
<1>9. kind \in [Requests -> Kinds]
  BY DEF Init
<1>10. /\ idle \in [Slots -> BOOLEAN] /\ deadline_waker \in [Slots -> {None} \cup Requests]
       /\ heap_reply \in [Slots -> {None} \cup Requests]
  BY DEF Init
<1>11. /\ pos \in [Requests -> Nat] /\ slot \in [Requests -> {None} \cup Slots]
       /\ woken \in [Requests -> BOOLEAN]
  BY DEF Init
<1>12. /\ stream \in [Requests -> {"open", "done", "closed", "failed"}]
       /\ reply \in [Requests -> {None} \cup Requests]
  BY DEF Init
<1>. QED  BY <1>1, <1>2, <1>3, <1>4, <1>6, <1>7, <1>8, <1>9, <1>10, <1>11, <1>12
         DEF Init, TypeOK

LEMMA TypeStep == TypeOK /\ StepsMatch /\ [Next]_vars => TypeOK'
<1>. SUFFICES ASSUME TypeOK, StepsMatch, [Next]_vars PROVE TypeOK'
  OBVIOUS
<1>0. NotifyTyped /\ \A e : RemoveFirst(waiters, e) \in Seq(Requests)
  BY Removals DEF TypeOK, NotifyTyped
<1>1. ASSUME register PROVE TypeOK'
  <2>1. entries' \in Seq(Workers)
    BY <1>1 DEF register, TypeOK
  <2>. QED  BY <1>1, <2>1 DEF register, TypeOK, pool, sweep, timer, cells, notify, body
<1>2. ASSUME NEW r \in Requests, pool_empty(r) PROVE TypeOK'
  <2>1. caller' \in [Requests -> Callers]
    BY <1>2 DEF pool_empty, answer, drop_notified, notify_one, TypeOK, Callers
  <2>2. NotifyTyped'
    BY <1>0, <1>2, DropTyped DEF pool_empty
  <2>. QED  BY <1>2, <2>1, <2>2 DEF pool_empty, answer, drop_notified, notify_one, TypeOK, pool, sweep, timer, cells, notify, body, NotifyTyped
<1>3. ASSUME NEW r \in Requests, claim(r) PROVE TypeOK'
  <2>1. /\ idle' \in [Slots -> BOOLEAN]
      /\ slot' \in [Requests -> {None} \cup Slots]
      /\ used' \subseteq Slots
    BY <1>3, ClaimTypes
  <2>2. pos' \in [Requests -> Nat]
    BY <1>3 DEF claim, compare_exchange, drop_notified, notify_one, TypeOK
  <2>3. caller' \in [Requests -> Callers]
    BY <1>3 DEF claim, compare_exchange, drop_notified, notify_one, TypeOK, Callers
  <2>4. call' \in [Requests -> CallSteps]
    BY <1>3 DEF claim, compare_exchange, drop_notified, notify_one, TypeOK, CallSteps
  <2>5. NotifyTyped'
    BY <1>0, <1>3, DropTyped DEF claim
  <2>. QED  BY <1>3, <2>1, <2>2, <2>3, <2>4, <2>5 DEF claim, compare_exchange, drop_notified, notify_one, TypeOK, pool, sweep, timer, cells, notify, body, NotifyTyped
<1>4. ASSUME NEW r \in Requests, slot_busy(r) PROVE TypeOK'
  <2>1. /\ pos' \in [Requests -> Nat]
      /\ caller' \in [Requests -> Callers]
    BY <1>4, BusyTypes
  <2>. QED  BY <1>4, <2>1 DEF slot_busy, TypeOK, pool, sweep, timer, cells, notify, body
<1>5. ASSUME NEW r \in Requests, enable_notified(r) PROVE TypeOK'
  <2>1. NotifyTyped'
    BY <1>0, <1>5, EnableTyped DEF enable_notified
  <2>2. caller' \in [Requests -> Callers]
    BY <1>5 DEF enable_notified, enable, TypeOK, Callers
  <2>. QED  BY <1>5, <2>1, <2>2 DEF enable_notified, enable, TypeOK, pool, sweep, timer, cells, notify, body, NotifyTyped
<1>6. ASSUME NEW r \in Requests, woken_up(r) PROVE TypeOK'
  <2>1. caller' \in [Requests -> Callers]
    BY <1>6 DEF woken_up, TypeOK, Callers
  <2>2. /\ permit' \in BOOLEAN /\ waiters' \in Seq(Requests)
      /\ notified' \in [Requests -> {"none", "waiting", "woken", "taken"}]
    BY <1>6 DEF woken_up, TypeOK
  <2>. QED  BY <1>6, <2>1, <2>2 DEF woken_up, TypeOK, pool, sweep, timer, cells, notify, body, NotifyTyped
<1>7. ASSUME NEW r \in Requests, give_up(r) PROVE TypeOK'
  <2>1. caller' \in [Requests -> Callers]
    BY <1>7 DEF give_up, answer, drop_notified, notify_one, TypeOK, Callers
  <2>2. NotifyTyped'
    BY <1>0, <1>7, DropTyped DEF give_up
  <2>. QED  BY <1>7, <2>1, <2>2 DEF give_up, answer, drop_notified, notify_one, TypeOK, pool, sweep, timer, cells, notify, body, NotifyTyped
<1>8. ASSUME NEW r \in Requests, arrive(r) PROVE TypeOK'
  <2>1. caller' \in [Requests -> Callers]
    BY <1>8 DEF arrive, TypeOK, Callers
  <2>2. last' \in [Requests -> 0..CALL_TIMEOUT]
    BY <1>8, TimesAssumption DEF arrive, TypeOK
  <2>3. total' \in [Requests -> 0..STREAM_TOTAL]
    BY <1>8, TimesAssumption DEF arrive, TypeOK
  <2>. QED  BY <1>8, <2>1, <2>2, <2>3 DEF arrive, TypeOK, pool, sweep, timer, cells, notify, body
<1>9. ASSUME NEW r \in Requests, dispatch_call(r) PROVE TypeOK'
  <2>1. /\ deadline' \in [Slots -> Timers]
      /\ at' \in [Requests -> 0..CALL_TIMEOUT]
    BY <1>9, DispatchTypes
  <2>2. plan' \in [Slots -> {None} \cup [of : Requests, is : {"seed", "plan", "fetch"}]]
    BY <1>9 DEF dispatch_call, put_plan, TypeOK
  <2>3. call' \in [Requests -> CallSteps]
    BY <1>9 DEF dispatch_call, put_plan, TypeOK, CallSteps
  <2>4. js' \in [Requests -> JsSteps]
    BY <1>9 DEF dispatch_call, put_plan, TypeOK, JsSteps
  <2>5. woken' \in [Requests -> BOOLEAN]
    BY <1>9 DEF dispatch_call, put_plan, TypeOK
  <2>. QED  BY <1>9, <2>1, <2>2, <2>3, <2>4, <2>5 DEF dispatch_call, put_plan, TypeOK, pool, sweep, timer, cells, notify, body
<1>10. ASSUME NEW r \in Requests, serialise_fails(r) PROVE TypeOK'
  <2>1. plan' \in [Slots -> {None} \cup [of : Requests, is : {"seed", "plan", "fetch"}]]
    BY <1>10 DEF serialise_fails, put_plan, answer, TypeOK
  <2>2. call' \in [Requests -> CallSteps]
    BY <1>10 DEF serialise_fails, put_plan, answer, TypeOK, CallSteps
  <2>3. caller' \in [Requests -> Callers]
    BY <1>10 DEF serialise_fails, put_plan, answer, TypeOK, Callers
  <2>. QED  BY <1>10, <2>1, <2>2, <2>3 DEF serialise_fails, put_plan, answer, TypeOK, pool, sweep, timer, cells, notify, body
<1>11. ASSUME NEW r \in Requests, poll_call(r) PROVE TypeOK'
  <2>1. /\ entries' \in Seq(Workers)
      /\ mixed' \subseteq Requests
      /\ heap_reply' \in [Slots -> {None} \cup Requests]
      /\ reply' \in [Requests -> {None} \cup Requests]
      /\ plan' \in [Slots -> {None} \cup [of : Requests, is : {"seed", "plan", "fetch"}]]
      /\ call' \in [Requests -> CallSteps]
      /\ caller' \in [Requests -> Callers]
    BY <1>11, PollTypes
  <2>2. woken' \in [Requests -> BOOLEAN]
    BY <1>11 DEF poll_call, finish, decode, answer, TypeOK
  <2>. QED  BY <1>11, <2>1, <2>2 DEF poll_call, finish, decode, answer, TypeOK, pool, sweep, timer, cells, notify, body
<1>12. ASSUME NEW r \in Requests, poll_deadline(r) PROVE TypeOK'
  <2>1. /\ caller' \in [Requests -> Callers]
      /\ at' \in [Requests -> 0..CALL_TIMEOUT]
      /\ deadline' \in [Slots -> Timers]
      /\ deadline_waker' \in [Slots -> {None} \cup Requests]
      /\ stream' \in [Requests -> {"open", "done", "closed", "failed"}]
      /\ woken' \in [Requests -> BOOLEAN]
    BY <1>12, PollDeadlineTypes
  <2>2. call' \in [Requests -> CallSteps]
    BY <1>12 DEF poll_deadline, detach, answer, TypeOK, CallSteps
  <2>. QED  BY <1>12, <2>1, <2>2 DEF poll_deadline, detach, answer, TypeOK, pool, sweep, timer, cells, notify, body
<1>13. ASSUME NEW r \in Requests, detached_settles(r) PROVE TypeOK'
  <2>1. /\ entries' \in Seq(Workers)
      /\ mixed' \subseteq Requests
      /\ heap_reply' \in [Slots -> {None} \cup Requests]
      /\ reply' \in [Requests -> {None} \cup Requests]
      /\ plan' \in [Slots -> {None} \cup [of : Requests, is : {"seed", "plan", "fetch"}]]
      /\ call' \in [Requests -> CallSteps]
    BY <1>13, FinishTypes DEF detached_settles
  <2>. QED  BY <1>13, <2>1 DEF detached_settles, finish, decode, TypeOK, pool, sweep, timer, cells, notify, body
<1>14. ASSUME NEW r \in Requests, drop_clear(r) PROVE TypeOK'
  <2>1. plan' \in [Slots -> {None} \cup [of : Requests, is : {"seed", "plan", "fetch"}]]
    BY <1>14 DEF drop_clear, TypeOK
  <2>2. heap_reply' \in [Slots -> {None} \cup Requests]
    BY <1>14 DEF drop_clear, TypeOK
  <2>3. jobs_since' \in [Slots -> Timers]
    BY <1>14, TimesAssumption DEF drop_clear, TypeOK, Timers
  <2>4. deadline' \in [Slots -> Timers]
    BY <1>14, TimesAssumption DEF drop_clear, TypeOK, Timers
  <2>5. deadline_waker' \in [Slots -> {None} \cup Requests]
    BY <1>14 DEF drop_clear, TypeOK
  <2>6. at' \in [Requests -> 0..CALL_TIMEOUT]
    BY <1>14, TimesAssumption DEF drop_clear, TypeOK
  <2>7. stream' \in [Requests -> {"open", "done", "closed", "failed"}]
    BY <1>14 DEF drop_clear, TypeOK
  <2>8. last' \in [Requests -> 0..CALL_TIMEOUT]
    BY <1>14, TimesAssumption DEF drop_clear, TypeOK
  <2>9. total' \in [Requests -> 0..STREAM_TOTAL]
    BY <1>14, TimesAssumption DEF drop_clear, TypeOK
  <2>10. reply' \in [Requests -> {None} \cup Requests]
    BY <1>14 DEF drop_clear, TypeOK
  <2>11. buf' \in [Slots -> {None} \cup [of : Requests, heap : BOOLEAN]]
    BY <1>14 DEF drop_clear, TypeOK
  <2>12. call' \in [Requests -> CallSteps]
    BY <1>14 DEF drop_clear, TypeOK, CallSteps
  <2>. QED  BY <1>14, <2>1, <2>2, <2>3, <2>4, <2>5, <2>6, <2>7, <2>8, <2>9, <2>10, <2>11, <2>12 DEF drop_clear, TypeOK, pool, sweep, timer, cells, notify, body
<1>15. ASSUME NEW r \in Requests, drop_free(r) PROVE TypeOK'
  <2>1. idle' \in [Slots -> BOOLEAN]
    BY <1>15 DEF drop_free, TypeOK
  <2>2. call' \in [Requests -> CallSteps]
    BY <1>15 DEF drop_free, TypeOK, CallSteps
  <2>. QED  BY <1>15, <2>1, <2>2 DEF drop_free, TypeOK, pool, sweep, timer, cells, notify, body
<1>16. ASSUME NEW r \in Requests, drop_notify(r) PROVE TypeOK'
  <2>1. NotifyTyped'
    BY <1>0, <1>16, NotifyOneTyped DEF drop_notify, TypeOK
  <2>2. call' \in [Requests -> CallSteps]
    BY <1>16 DEF drop_notify, notify_one, TypeOK, CallSteps
  <2>3. slot' \in [Requests -> {None} \cup Slots]
    BY <1>16 DEF drop_notify, notify_one, TypeOK
  <2>4. js' \in [Requests -> JsSteps]
    BY <1>16 DEF drop_notify, notify_one, TypeOK, JsSteps
  <2>. QED  BY <1>16, <2>1, <2>2, <2>3, <2>4 DEF drop_notify, notify_one, TypeOK, pool, sweep, timer, cells, notify, body, NotifyTyped
<1>17. ASSUME NEW r \in Requests, disconnect(r) PROVE TypeOK'
  <2>1. caller' \in [Requests -> Callers]
    BY <1>17 DEF disconnect, detach, answer, TypeOK, Callers
  <2>2. woken' \in [Requests -> BOOLEAN]
    BY <1>17 DEF disconnect, detach, answer, TypeOK
  <2>3. call' \in [Requests -> CallSteps]
    BY <1>17 DEF disconnect, detach, answer, TypeOK, CallSteps
  <2>. QED  BY <1>17, <2>1, <2>2, <2>3 DEF disconnect, detach, answer, TypeOK, pool, sweep, timer, cells, notify, body
<1>18. ASSUME NEW r \in Requests, plan_in_call(r) PROVE TypeOK'
  <2>1. /\ plan' \in [Slots -> {None} \cup [of : Requests, is : {"seed", "plan", "fetch"}]]
      /\ jobs_since' \in [Slots -> Timers]
    BY <1>18, PlanTypes
  <2>2. buf' \in [Slots -> {None} \cup [of : Requests, heap : BOOLEAN]]
    BY <1>18 DEF plan_in_call, TypeOK
  <2>3. js' \in [Requests -> JsSteps]
    BY <1>18 DEF plan_in_call, TypeOK, JsSteps
  <2>. QED  BY <1>18, <2>1, <2>2, <2>3 DEF plan_in_call, TypeOK, pool, sweep, timer, cells, notify, body
<1>19. ASSUME NEW r \in Requests, resolve(r) PROVE TypeOK'
  <2>1. /\ heap_reply' \in [Slots -> {None} \cup Requests]
      /\ buf' \in [Slots -> {None} \cup [of : Requests, heap : BOOLEAN]]
      /\ reply' \in [Requests -> {None} \cup Requests]
    BY <1>19, ResolveTypes
  <2>2. js' \in [Requests -> JsSteps]
    BY <1>19 DEF resolve, Wake, TypeOK, JsSteps
  <2>3. woken' \in [Requests -> BOOLEAN]
    BY <1>19 DEF resolve, Wake, TypeOK
  <2>. QED  BY <1>19, <2>1, <2>2, <2>3 DEF resolve, Wake, TypeOK, pool, sweep, timer, cells, notify, body
<1>20. ASSUME NEW r \in Requests, abandoned(r) PROVE TypeOK'
  <2>1. js' \in [Requests -> JsSteps]
    BY <1>20 DEF abandoned, Wake, JsActive, TypeOK, JsSteps
  <2>2. woken' \in [Requests -> BOOLEAN]
    BY <1>20 DEF abandoned, Wake, JsActive, TypeOK
  <2>. QED  BY <1>20, <2>1, <2>2 DEF abandoned, Wake, JsActive, TypeOK, pool, sweep, timer, cells, notify, body
<1>21. ASSUME NEW r \in Requests, take_fetch_body(r) PROVE TypeOK'
  <2>1. /\ stream' \in [Requests -> {"open", "done", "closed", "failed"}]
      /\ mixed' \subseteq Requests
    BY <1>21, TakeTypes
  <2>. QED  BY <1>21, <2>1 DEF take_fetch_body, FetchCell, TypeOK, pool, sweep, timer, cells, notify, body
<1>22. ASSUME NEW r \in Requests, pull_fetch_body(r) PROVE TypeOK'
  <2>1. /\ stream' \in [Requests -> {"open", "done", "closed", "failed"}]
      /\ last' \in [Requests -> 0..CALL_TIMEOUT]
      /\ mixed' \subseteq Requests
    BY <1>22, PullTypes
  <2>. QED  BY <1>22, <2>1 DEF pull_fetch_body, FetchCell, TypeOK, pool, sweep, timer, cells, notify, body
<1>23. ASSUME NEW w \in Workers, worker_dies(w) PROVE TypeOK'
  <2>1. dead' \subseteq Workers
    BY <1>23 DEF worker_dies, TypeOK
  <2>. QED  BY <1>23, <2>1 DEF worker_dies, TypeOK, pool, sweep, timer, cells, notify, body
<1>24. ASSUME Tick PROVE TypeOK'
  <2>1. at' \in [Requests -> 0..CALL_TIMEOUT]
    BY <1>24, TimesAssumption DEF Tick, Less, TypeOK
  <2>2. last' \in [Requests -> 0..CALL_TIMEOUT]
    BY <1>24, TimesAssumption DEF Tick, Less, TypeOK
  <2>3. total' \in [Requests -> 0..STREAM_TOTAL]
    BY <1>24, TimesAssumption DEF Tick, Less, TypeOK
  <2>4. deadline' \in [Slots -> Timers]
    BY <1>24, TimesAssumption DEF Tick, Less, TypeOK, Timers
  <2>5. jobs_since' \in [Slots -> Timers]
    BY <1>24, TimesAssumption DEF Tick, Less, TypeOK, Timers
  <2>. QED  BY <1>24, <2>1, <2>2, <2>3, <2>4, <2>5 DEF Tick, Less, TypeOK, pool, sweep, timer, cells, notify, body
<1>25. ASSUME sweep_tick PROVE TypeOK'
  <2>1. sweeping' \subseteq Slots
    BY <1>25 DEF sweep_tick, TypeOK
  <2>. QED  BY <1>25, <2>1 DEF sweep_tick, TypeOK, pool, sweep, timer, cells, notify, body
<1>26. ASSUME NEW s \in Slots, sweep_take(s) PROVE TypeOK'
  <2>1. sweeping' \subseteq Slots
    BY <1>26 DEF sweep_take, TypeOK
  <2>2. due' \subseteq Requests
    BY <1>26 DEF sweep_take, TypeOK
  <2>3. deadline_waker' \in [Slots -> {None} \cup Requests]
    BY <1>26 DEF sweep_take, TypeOK
  <2>. QED  BY <1>26, <2>1, <2>2, <2>3 DEF sweep_take, TypeOK, pool, sweep, timer, cells, notify, body
<1>27. ASSUME sweep_wake PROVE TypeOK'
  <2>1. woken' \in [Requests -> BOOLEAN]
    BY <1>27 DEF sweep_wake, TypeOK
  <2>2. due' \subseteq Requests
    BY <1>27 DEF sweep_wake, TypeOK
  <2>. QED  BY <1>27, <2>1, <2>2 DEF sweep_wake, TypeOK, pool, sweep, timer, cells, notify, body
<1>28. CASE UNCHANGED vars
  BY <1>28 DEF vars, TypeOK, pool, sweep, timer, cells, notify, body
<1>. QED  BY <1>1, <1>2, <1>3, <1>4, <1>5, <1>6, <1>7, <1>8, <1>9, <1>10, <1>11, <1>12, <1>13, <1>14, <1>15, <1>16, <1>17, <1>18, <1>19, <1>20, <1>21, <1>22, <1>23, <1>24, <1>25, <1>26, <1>27, <1>28 DEF Next, Task, Client, Javascript, Sweeper, Finished

(* The steps match.                                                        *)
StepTypes == /\ caller \in [Requests -> Callers] /\ call \in [Requests -> CallSteps]
             /\ js \in [Requests -> JsSteps] /\ slot \in [Requests -> {None} \cup Slots]

LEMMA LegalStep == TypeOK /\ StepsMatch /\ [Next]_vars => (\A q \in Requests : Legal(q))'
<1>. SUFFICES ASSUME TypeOK, StepsMatch, [Next]_vars PROVE (\A q \in Requests : Legal(q))'
  OBVIOUS
<1>0. StepTypes /\ \A q \in Requests : Legal(q)
  BY DEF TypeOK, StepsMatch, StepTypes
<1>1. ASSUME NEW r \in Requests, pool_empty(r) PROVE (\A q \in Requests : Legal(q))'
  BY <1>1, <1>0 DEF pool_empty, answer, drop_notified, notify_one, StepTypes, Legal, Holds, JsActive
<1>2. ASSUME NEW r \in Requests, claim(r) PROVE (\A q \in Requests : Legal(q))'
  BY <1>2, <1>0, ClaimedIsSlot DEF claim, StepTypes, Legal, Holds, JsActive
<1>3. ASSUME NEW r \in Requests, slot_busy(r) PROVE (\A q \in Requests : Legal(q))'
  BY <1>3, <1>0 DEF slot_busy, StepTypes, Legal, Holds, JsActive
<1>4. ASSUME NEW r \in Requests, enable_notified(r) PROVE (\A q \in Requests : Legal(q))'
  BY <1>4, <1>0 DEF enable_notified, enable, StepTypes, Legal, Holds, JsActive
<1>5. ASSUME NEW r \in Requests, woken_up(r) PROVE (\A q \in Requests : Legal(q))'
  BY <1>5, <1>0 DEF woken_up, StepTypes, Legal, Holds, JsActive
<1>6. ASSUME NEW r \in Requests, give_up(r) PROVE (\A q \in Requests : Legal(q))'
  BY <1>6, <1>0 DEF give_up, answer, drop_notified, notify_one, StepTypes, Legal, Holds, JsActive
<1>7. ASSUME NEW r \in Requests, arrive(r) PROVE (\A q \in Requests : Legal(q))'
  BY <1>7, <1>0 DEF arrive, StepTypes, Legal, Holds, JsActive
<1>8. ASSUME NEW r \in Requests, dispatch_call(r) PROVE (\A q \in Requests : Legal(q))'
  BY <1>8, <1>0 DEF dispatch_call, put_plan, StepTypes, Legal, Holds, JsActive
<1>9. ASSUME NEW r \in Requests, serialise_fails(r) PROVE (\A q \in Requests : Legal(q))'
  BY <1>9, <1>0 DEF serialise_fails, put_plan, answer, StepTypes, Legal, Holds, JsActive
<1>10. ASSUME NEW r \in Requests, poll_call(r) PROVE (\A q \in Requests : Legal(q))'
  BY <1>10, <1>0 DEF poll_call, finish, Settled, answer, StepTypes, Legal, Holds, JsActive
<1>11. ASSUME NEW r \in Requests, poll_deadline(r) PROVE (\A q \in Requests : Legal(q))'
  BY <1>11, <1>0 DEF poll_deadline, detach, answer, StepTypes, Legal, Holds, JsActive
<1>12. ASSUME NEW r \in Requests, detached_settles(r) PROVE (\A q \in Requests : Legal(q))'
  BY <1>12, <1>0 DEF detached_settles, finish, Settled, StepTypes, Legal, Holds, JsActive
<1>13. ASSUME NEW r \in Requests, drop_clear(r) PROVE (\A q \in Requests : Legal(q))'
  BY <1>13, <1>0 DEF drop_clear, StepTypes, Legal, Holds, JsActive
<1>14. ASSUME NEW r \in Requests, drop_free(r) PROVE (\A q \in Requests : Legal(q))'
  BY <1>14, <1>0 DEF drop_free, StepTypes, Legal, Holds, JsActive
<1>15. ASSUME NEW r \in Requests, drop_notify(r) PROVE (\A q \in Requests : Legal(q))'
  BY <1>15, <1>0 DEF drop_notify, notify_one, StepTypes, Legal, Holds, JsActive
<1>16. ASSUME NEW r \in Requests, disconnect(r) PROVE (\A q \in Requests : Legal(q))'
  BY <1>16, <1>0 DEF disconnect, detach, answer, StepTypes, Legal, Holds, JsActive
<1>17. ASSUME NEW r \in Requests, plan_in_call(r) PROVE (\A q \in Requests : Legal(q))'
  BY <1>17, <1>0 DEF plan_in_call, StepTypes, Legal, Holds, JsActive
<1>18. ASSUME NEW r \in Requests, resolve(r) PROVE (\A q \in Requests : Legal(q))'
  BY <1>18, <1>0 DEF resolve, Wake, StepTypes, Legal, Holds, JsActive
<1>19. ASSUME NEW r \in Requests, abandoned(r) PROVE (\A q \in Requests : Legal(q))'
  BY <1>19, <1>0 DEF abandoned, Wake, JsActive, StepTypes, Legal, Holds, JsActive
<1>20. ASSUME NEW r \in Requests,
             \/ take_fetch_body(r)
             \/ pull_fetch_body(r)
      PROVE  (\A q \in Requests : Legal(q))'
  <2>1. UNCHANGED <<caller, call, slot, js>>
    BY <1>20 DEF take_fetch_body, pull_fetch_body
  <2>. QED  BY <2>1, <1>0 DEF StepTypes, Legal, Holds, JsActive
<1>21. ASSUME register \/ (\E w \in Workers : worker_dies(w)) \/ Tick \/ sweep_tick \/ (\E s \in Slots : sweep_take(s)) \/ sweep_wake \/ UNCHANGED vars
      PROVE  (\A q \in Requests : Legal(q))'
  <2>1. UNCHANGED <<caller, call, slot, js>>
    BY <1>21 DEF register, worker_dies, Tick, sweep_tick, sweep_take, sweep_wake, vars
  <2>. QED  BY <2>1, <1>0 DEF StepTypes, Legal, Holds, JsActive
<1>. QED  BY <1>1, <1>2, <1>3, <1>4, <1>5, <1>6, <1>7, <1>8, <1>9, <1>10, <1>11, <1>12, <1>13, <1>14, <1>15, <1>16, <1>17, <1>18, <1>19, <1>20, <1>21 DEF Next, Task, Client, Javascript, Sweeper, Finished

LEMMA ScanKept == entries' = entries => ScanOrder' = ScanOrder
  BY DEF ScanOrder

LEMMA ScanEmpty == entries = <<>> => Len(ScanOrder) = 0
<1>. SUFFICES ASSUME entries = <<>> PROVE Len(ScanOrder) = 0
  OBVIOUS
<1>1. Len(entries) * SLOT_COUNT = 0
  BY SizesAssumption
<1>. QED  BY <1>1 DEF ScanOrder

(* A call that removes its worker finds no scan under way.                 *)
LEMMA FinishKeeps == ASSUME NEW r, finish(r) PROVE entries' = entries \/ Unlocked
  BY DEF finish

LEMMA StandingStep == TypeOK /\ StepsMatch /\ [Next]_vars => (\A q \in Requests : Standing(q))'
<1>. SUFFICES ASSUME TypeOK, StepsMatch, [Next]_vars PROVE (\A q \in Requests : Standing(q))'
  OBVIOUS
<1>0. /\ caller \in [Requests -> Callers] /\ pos \in [Requests -> Nat]
      /\ \A q \in Requests : Standing(q)
  BY DEF TypeOK, StepsMatch
<1>1. ASSUME register PROVE (\A q \in Requests : Standing(q))'
  <2>1. ASSUME Unlocked PROVE \A q \in Requests : pos[q] = 1
    BY <1>0, <2>1 DEF Unlocked, Standing
  <2>. QED  BY <1>1, <1>0, <2>1 DEF register, Standing
<1>2. ASSUME NEW r \in Requests, pool_empty(r) PROVE (\A q \in Requests : Standing(q))'
  BY <1>2, <1>0, ScanEmpty, ScanKept DEF pool_empty, answer, Standing, pool
<1>3. ASSUME NEW r \in Requests, claim(r) PROVE (\A q \in Requests : Standing(q))'
  BY <1>3, <1>0, ScanKept DEF claim, compare_exchange, drop_notified, notify_one, Standing, pool
<1>4. ASSUME NEW r \in Requests, slot_busy(r) PROVE (\A q \in Requests : Standing(q))'
  <2>1. \A q \in Requests \ {r} : Standing(q)'
    BY <1>4, <1>0, ScanKept DEF slot_busy, Standing, pool
  <2>2. Standing(r)'
    BY <1>4, <1>0, ScannedSlots, ScanKept DEF slot_busy, Standing, pool
  <2>. QED  BY <2>1, <2>2
<1>5. ASSUME NEW r \in Requests, enable_notified(r) PROVE (\A q \in Requests : Standing(q))'
  BY <1>5, <1>0, ScanKept DEF enable_notified, enable, Standing, pool
<1>6. ASSUME NEW r \in Requests, woken_up(r) PROVE (\A q \in Requests : Standing(q))'
  BY <1>6, <1>0, ScanKept DEF woken_up, Standing, pool
<1>7. ASSUME NEW r \in Requests, give_up(r) PROVE (\A q \in Requests : Standing(q))'
  BY <1>7, <1>0, ScanKept DEF give_up, answer, drop_notified, notify_one, Standing, pool
<1>8. ASSUME NEW r \in Requests, arrive(r) PROVE (\A q \in Requests : Standing(q))'
  BY <1>8, <1>0, ScanKept DEF arrive, Standing, pool
<1>9. ASSUME NEW r \in Requests, serialise_fails(r) PROVE (\A q \in Requests : Standing(q))'
  BY <1>9, <1>0, ScanKept DEF serialise_fails, put_plan, answer, Standing, pool
<1>10. ASSUME NEW r \in Requests, poll_call(r) PROVE (\A q \in Requests : Standing(q))'
  <2>1. ASSUME Unlocked PROVE \A q \in Requests : pos[q] = 1
    BY <1>0, <2>1 DEF Unlocked, Standing
  <2>. QED  BY <1>10, <1>0, <2>1, FinishKeeps, ScanKept DEF poll_call, answer, Standing
<1>11. ASSUME NEW r \in Requests, poll_deadline(r) PROVE (\A q \in Requests : Standing(q))'
  BY <1>11, <1>0, ScanKept DEF poll_deadline, detach, answer, Standing, pool
<1>12. ASSUME NEW r \in Requests, detached_settles(r) PROVE (\A q \in Requests : Standing(q))'
  <2>1. ASSUME Unlocked PROVE \A q \in Requests : pos[q] = 1
    BY <1>0, <2>1 DEF Unlocked, Standing
  <2>. QED  BY <1>12, <1>0, <2>1, FinishKeeps, ScanKept DEF detached_settles, Standing
<1>13. ASSUME NEW r \in Requests, disconnect(r) PROVE (\A q \in Requests : Standing(q))'
  BY <1>13, <1>0, ScanKept DEF disconnect, detach, answer, Standing, pool
<1>14. ASSUME NEW r \in Requests,
             \/ dispatch_call(r)
             \/ drop_clear(r)
             \/ drop_free(r)
             \/ drop_notify(r)
             \/ plan_in_call(r)
             \/ resolve(r)
             \/ abandoned(r)
             \/ take_fetch_body(r)
             \/ pull_fetch_body(r)
      PROVE  (\A q \in Requests : Standing(q))'
  <2>1. UNCHANGED <<caller, pos, entries>>
    BY <1>14 DEF dispatch_call, drop_clear, drop_free, drop_notify, plan_in_call, resolve, abandoned, take_fetch_body, pull_fetch_body, pool
  <2>. QED  BY <2>1, <1>0, ScanKept DEF Standing, pool
<1>15. ASSUME (\E w \in Workers : worker_dies(w)) \/ Tick \/ sweep_tick \/ (\E s \in Slots : sweep_take(s)) \/ sweep_wake \/ UNCHANGED vars
      PROVE  (\A q \in Requests : Standing(q))'
  <2>1. UNCHANGED <<caller, pos, entries>>
    BY <1>15 DEF worker_dies, Tick, sweep_tick, sweep_take, sweep_wake, vars, pool
  <2>. QED  BY <2>1, <1>0, ScanKept DEF Standing, pool
<1>. QED  BY <1>1, <1>2, <1>3, <1>4, <1>5, <1>6, <1>7, <1>8, <1>9, <1>10, <1>11, <1>12, <1>13, <1>14, <1>15 DEF Next, Task, Client, Javascript, Sweeper, Finished

LEMMA StepsInit == Init => StepsMatch
  BY DEF Init, StepsMatch, Legal, Standing, Holds, JsActive

LEMMA StepsStep == TypeOK /\ StepsMatch /\ [Next]_vars => StepsMatch'
  BY LegalStep, StandingStep DEF StepsMatch

(* Leases.                                                                 *)
LEMMA LeasedInit == Init => Leased
  BY DEF Init, Leased, Holds

LEMMA LeasedStep == TypeOK /\ StepsMatch /\ Leased /\ [Next]_vars => Leased'
<1>. SUFFICES ASSUME TypeOK, StepsMatch, Leased, [Next]_vars PROVE Leased'
  OBVIOUS
<1>0. /\ StepTypes /\ idle \in [Slots -> BOOLEAN] /\ Leased
      /\ \A q \in Requests : Legal(q)
  BY DEF TypeOK, StepsMatch, StepTypes
<1>1. ASSUME NEW r \in Requests, claim(r) PROVE Leased'
  <2>. DEFINE s == ScanOrder[pos[r]]
  <2>1. /\ s \in Slots /\ idle[s] /\ idle' = [idle EXCEPT ![s] = FALSE]
        /\ slot' = [slot EXCEPT ![r] = s] /\ call' = [call EXCEPT ![r] = "dispatch"]
    BY <1>1, ClaimedIsSlot DEF claim
  <2>. HIDE DEF s
  <2>. QED  BY <1>0, <2>1 DEF StepTypes, Legal, Holds, Leased
<1>2. ASSUME NEW r \in Requests, dispatch_call(r) PROVE Leased'
  BY <1>2, <1>0 DEF dispatch_call, put_plan, StepTypes, Legal, Holds, Leased
<1>3. ASSUME NEW r \in Requests, serialise_fails(r) PROVE Leased'
  BY <1>3, <1>0 DEF serialise_fails, put_plan, answer, StepTypes, Legal, Holds, Leased
<1>4. ASSUME NEW r \in Requests, poll_call(r) PROVE Leased'
  BY <1>4, <1>0 DEF poll_call, finish, StepTypes, Legal, Holds, Leased
<1>5. ASSUME NEW r \in Requests, poll_deadline(r) PROVE Leased'
  BY <1>5, <1>0 DEF poll_deadline, detach, answer, StepTypes, Legal, Holds, Leased
<1>6. ASSUME NEW r \in Requests, detached_settles(r) PROVE Leased'
  BY <1>6, <1>0 DEF detached_settles, finish, StepTypes, Legal, Holds, Leased
<1>7. ASSUME NEW r \in Requests, drop_clear(r) PROVE Leased'
  BY <1>7, <1>0 DEF drop_clear, StepTypes, Legal, Holds, Leased
<1>8. ASSUME NEW r \in Requests, drop_free(r) PROVE Leased'
  BY <1>8, <1>0 DEF drop_free, StepTypes, Legal, Holds, Leased
<1>9. ASSUME NEW r \in Requests, drop_notify(r) PROVE Leased'
  BY <1>9, <1>0 DEF drop_notify, notify_one, StepTypes, Legal, Holds, Leased
<1>10. ASSUME NEW r \in Requests, disconnect(r) PROVE Leased'
  BY <1>10, <1>0 DEF disconnect, detach, answer, StepTypes, Legal, Holds, Leased
<1>11. ASSUME NEW r \in Requests,
             \/ pool_empty(r)
             \/ slot_busy(r)
             \/ enable_notified(r)
             \/ woken_up(r)
             \/ give_up(r)
             \/ arrive(r)
             \/ plan_in_call(r)
             \/ resolve(r)
             \/ abandoned(r)
             \/ take_fetch_body(r)
             \/ pull_fetch_body(r)
      PROVE  Leased'
  <2>1. UNCHANGED <<idle, slot, call>>
    BY <1>11 DEF pool_empty, slot_busy, enable_notified, woken_up, give_up, arrive, plan_in_call, resolve, abandoned, take_fetch_body, pull_fetch_body
  <2>. QED  BY <2>1, <1>0 DEF StepTypes, Legal, Holds, Leased
<1>12. ASSUME register \/ (\E w \in Workers : worker_dies(w)) \/ Tick \/ sweep_tick \/ (\E s \in Slots : sweep_take(s)) \/ sweep_wake \/ UNCHANGED vars
      PROVE  Leased'
  <2>1. UNCHANGED <<idle, slot, call>>
    BY <1>12 DEF register, worker_dies, Tick, sweep_tick, sweep_take, sweep_wake, vars
  <2>. QED  BY <2>1, <1>0 DEF StepTypes, Legal, Holds, Leased
<1>. QED  BY <1>1, <1>2, <1>3, <1>4, <1>5, <1>6, <1>7, <1>8, <1>9, <1>10, <1>11, <1>12 DEF Next, Task, Client, Javascript, Sweeper, Finished

(* Cells.                                                                  *)
LEMMA CellsInit == Init => CellsHeld
  BY DEF Init, CellsHeld, Empty

CellTypes == /\ plan = [s \in Slots |-> plan[s]] /\ jobs_since = [s \in Slots |-> jobs_since[s]]
             /\ heap_reply = [s \in Slots |-> heap_reply[s]]
             /\ deadline = [s \in Slots |-> deadline[s]]
             /\ deadline_waker = [s \in Slots |-> deadline_waker[s]]

(* A call that is in hand may fill the cells of its own slot.              *)
LEMMA CellsFilled ==
    ASSUME CellsHeld, StepTypes, NEW r \in Requests, call'[r] \in {"await", "clear"}, slot' = slot,
           \A q \in Requests \ {r} : call'[q] = call[q],
           \A t \in Slots \ {slot[r]} : Empty(t) => Empty(t)'
    PROVE  CellsHeld'
<1>. SUFFICES ASSUME NEW t \in Slots, ~Empty(t)'
              PROVE  \E q \in Requests : call'[q] \in {"await", "clear"} /\ slot'[q] = t
  BY DEF CellsHeld
<1>1. CASE t = slot[r]
  BY <1>1
<1>2. CASE t # slot[r]
  <2>1. PICK q \in Requests : call[q] \in {"await", "clear"} /\ slot[q] = t
    BY <1>2 DEF CellsHeld
  <2>. QED  BY <1>2, <2>1
<1>. QED  BY <1>1, <1>2

(* A step that fills no cell and ends no such call.                        *)
LEMMA CellsKept ==
    ASSUME CellsHeld, StepTypes,
           \A q \in Requests : call[q] \in {"await", "clear"}
                             => call'[q] \in {"await", "clear"} /\ slot'[q] = slot[q],
           \A t \in Slots : Empty(t) => Empty(t)'
    PROVE  CellsHeld'
  BY DEF CellsHeld

LEMMA CellsStep == TypeOK /\ StepsMatch /\ Leased /\ CellsHeld /\ [Next]_vars => CellsHeld'
<1>. SUFFICES ASSUME TypeOK, StepsMatch, Leased, CellsHeld, [Next]_vars PROVE CellsHeld'
  OBVIOUS
<1>0. /\ StepTypes /\ CellTypes /\ CellsHeld
      /\ \A q \in Requests : Legal(q)
  BY DEF TypeOK, StepsMatch, StepTypes, CellTypes
<1>1. ASSUME NEW r \in Requests, claim(r) PROVE CellsHeld'
  <2>1. \A q \in Requests : call[q] \in {"await", "clear"}
                          => call'[q] \in {"await", "clear"} /\ slot'[q] = slot[q]
    BY <1>1, <1>0 DEF claim, StepTypes, Legal
  <2>2. \A t \in Slots : Empty(t) => Empty(t)'
    BY <1>1, <1>0 DEF claim, Empty, CellTypes, timer, cells
  <2>. QED  BY <1>0, <2>1, <2>2, CellsKept
<1>2. ASSUME NEW r \in Requests, dispatch_call(r) PROVE CellsHeld'
  <2>1. call'[r] \in {"await", "clear"} /\ slot' = slot
    BY <1>2, <1>0 DEF dispatch_call, put_plan, StepTypes, Legal, JsActive
  <2>2. \A q \in Requests \ {r} : call'[q] = call[q]
    BY <1>2, <1>0 DEF dispatch_call, put_plan, StepTypes
  <2>3. \A t \in Slots \ {slot[r]} : Empty(t) => Empty(t)'
    BY <1>2, <1>0 DEF dispatch_call, put_plan, Empty, CellTypes, timer, cells
  <2>. QED  BY <1>0, <2>1, <2>2, <2>3, CellsFilled
<1>3. ASSUME NEW r \in Requests, serialise_fails(r) PROVE CellsHeld'
  <2>1. call'[r] \in {"await", "clear"} /\ slot' = slot
    BY <1>3, <1>0 DEF serialise_fails, put_plan, StepTypes, Legal, JsActive
  <2>2. \A q \in Requests \ {r} : call'[q] = call[q]
    BY <1>3, <1>0 DEF serialise_fails, put_plan, StepTypes
  <2>3. \A t \in Slots \ {slot[r]} : Empty(t) => Empty(t)'
    BY <1>3, <1>0 DEF serialise_fails, put_plan, Empty, CellTypes, timer, cells
  <2>. QED  BY <1>0, <2>1, <2>2, <2>3, CellsFilled
<1>4. ASSUME NEW r \in Requests, poll_call(r) PROVE CellsHeld'
  <2>1. CASE finish(r)
    <3>1. call' = [call EXCEPT ![r] = "clear"] /\ slot' = slot
      BY <1>4, <2>1 DEF finish, poll_call
    <3>2. plan' = plan \/ plan' = [plan EXCEPT ![slot[r]] = None]
      BY <2>1 DEF finish, decode
    <3>3. heap_reply' = heap_reply \/ heap_reply' = [heap_reply EXCEPT ![slot[r]] = None]
      BY <2>1 DEF finish, decode
    <3>4. UNCHANGED <<jobs_since, deadline, deadline_waker>>
      BY <1>4 DEF poll_call, timer
    <3>5. \A t \in Slots \ {slot[r]} : Empty(t) => Empty(t)'
      BY <1>0, <3>2, <3>3, <3>4 DEF Empty, CellTypes
    <3>6. call'[r] \in {"await", "clear"} /\ \A q \in Requests \ {r} : call'[q] = call[q]
      BY <1>0, <3>1 DEF StepTypes
    <3>. QED  BY <1>0, <3>1, <3>5, <3>6, CellsFilled
  <2>2. CASE UNCHANGED <<plan, heap_reply, call>>
    BY <1>4, <1>0, <2>2 DEF poll_call, CellsHeld, Empty, timer
  <2>. QED  BY <1>4, <2>1, <2>2 DEF poll_call
<1>5. ASSUME NEW r \in Requests, poll_deadline(r) PROVE CellsHeld'
  <2>1. call'[r] \in {"await", "clear"} /\ slot' = slot
    BY <1>5, <1>0 DEF poll_deadline, detach, StepTypes, Legal, JsActive
  <2>2. \A q \in Requests \ {r} : call'[q] = call[q]
    BY <1>5, <1>0 DEF poll_deadline, detach, StepTypes
  <2>3. \A t \in Slots \ {slot[r]} : Empty(t) => Empty(t)'
    BY <1>5, <1>0 DEF poll_deadline, detach, Empty, CellTypes, timer, cells
  <2>. QED  BY <1>0, <2>1, <2>2, <2>3, CellsFilled
<1>6. ASSUME NEW r \in Requests, detached_settles(r) PROVE CellsHeld'
  <2>1. CASE finish(r)
    <3>1. call' = [call EXCEPT ![r] = "clear"] /\ slot' = slot
      BY <1>6, <2>1 DEF finish, detached_settles
    <3>2. plan' = plan \/ plan' = [plan EXCEPT ![slot[r]] = None]
      BY <2>1 DEF finish, decode
    <3>3. heap_reply' = heap_reply \/ heap_reply' = [heap_reply EXCEPT ![slot[r]] = None]
      BY <2>1 DEF finish, decode
    <3>4. UNCHANGED <<jobs_since, deadline, deadline_waker>>
      BY <1>6 DEF detached_settles, timer
    <3>5. \A t \in Slots \ {slot[r]} : Empty(t) => Empty(t)'
      BY <1>0, <3>2, <3>3, <3>4 DEF Empty, CellTypes
    <3>6. call'[r] \in {"await", "clear"} /\ \A q \in Requests \ {r} : call'[q] = call[q]
      BY <1>0, <3>1 DEF StepTypes
    <3>. QED  BY <1>0, <3>1, <3>5, <3>6, CellsFilled
  <2>. QED  BY <1>6, <2>1 DEF detached_settles
<1>7. ASSUME NEW r \in Requests, drop_clear(r) PROVE CellsHeld'
  <2>1. \A t \in Slots : IF t = slot[r] THEN Empty(t)' ELSE Empty(t) => Empty(t)'
    BY <1>7, <1>0 DEF drop_clear, Empty, CellTypes
  <2>2. \A q \in Requests \ {r} : call'[q] = call[q] /\ slot'[q] = slot[q]
    BY <1>7, <1>0 DEF drop_clear, StepTypes
  <2>. QED  BY <1>0, <2>1, <2>2 DEF CellsHeld
<1>8. ASSUME NEW r \in Requests, drop_free(r) PROVE CellsHeld'
  <2>1. \A q \in Requests : call[q] \in {"await", "clear"}
                          => call'[q] \in {"await", "clear"} /\ slot'[q] = slot[q]
    BY <1>8, <1>0 DEF drop_free, StepTypes, Legal
  <2>2. \A t \in Slots : Empty(t) => Empty(t)'
    BY <1>8, <1>0 DEF drop_free, Empty, CellTypes, timer, cells
  <2>. QED  BY <1>0, <2>1, <2>2, CellsKept
<1>9. ASSUME NEW r \in Requests, drop_notify(r) PROVE CellsHeld'
  <2>1. \A q \in Requests : call[q] \in {"await", "clear"}
                          => call'[q] \in {"await", "clear"} /\ slot'[q] = slot[q]
    BY <1>9, <1>0 DEF drop_notify, StepTypes, Legal
  <2>2. \A t \in Slots : Empty(t) => Empty(t)'
    BY <1>9, <1>0 DEF drop_notify, Empty, CellTypes, timer, cells
  <2>. QED  BY <1>0, <2>1, <2>2, CellsKept
<1>10. ASSUME NEW r \in Requests, disconnect(r) PROVE CellsHeld'
  <2>1. \A q \in Requests : call[q] \in {"await", "clear"}
                          => call'[q] \in {"await", "clear"} /\ slot'[q] = slot[q]
    BY <1>10, <1>0 DEF disconnect, detach, StepTypes, Legal
  <2>2. \A t \in Slots : Empty(t) => Empty(t)'
    BY <1>10, <1>0 DEF disconnect, detach, Empty, CellTypes, timer, cells
  <2>. QED  BY <1>0, <2>1, <2>2, CellsKept
<1>11. ASSUME NEW r \in Requests, plan_in_call(r) PROVE CellsHeld'
  <2>1. call'[r] \in {"await", "clear"} /\ slot' = slot
    BY <1>11, <1>0 DEF plan_in_call, StepTypes, Legal, JsActive
  <2>2. \A q \in Requests \ {r} : call'[q] = call[q]
    BY <1>11, <1>0 DEF plan_in_call, StepTypes
  <2>3. \A t \in Slots \ {slot[r]} : Empty(t) => Empty(t)'
    BY <1>11, <1>0 DEF plan_in_call, Empty, CellTypes, timer, cells
  <2>. QED  BY <1>0, <2>1, <2>2, <2>3, CellsFilled
<1>12. ASSUME NEW r \in Requests, resolve(r) PROVE CellsHeld'
  <2>1. call'[r] \in {"await", "clear"} /\ slot' = slot
    BY <1>12, <1>0 DEF resolve, StepTypes, Legal, JsActive
  <2>2. \A q \in Requests \ {r} : call'[q] = call[q]
    BY <1>12, <1>0 DEF resolve, StepTypes
  <2>3. \A t \in Slots \ {slot[r]} : Empty(t) => Empty(t)'
    BY <1>12, <1>0 DEF resolve, Empty, CellTypes, timer, cells
  <2>. QED  BY <1>0, <2>1, <2>2, <2>3, CellsFilled
<1>13. ASSUME Tick PROVE CellsHeld'
  <2>1. \A t \in Slots : Empty(t) => Empty(t)'
    BY <1>13 DEF Tick, Less, Empty
  <2>. QED  BY <1>13, <1>0, <2>1, CellsKept DEF Tick
<1>14. ASSUME NEW s \in Slots, sweep_take(s) PROVE CellsHeld'
  <2>1. \A t \in Slots : Empty(t) => Empty(t)'
    BY <1>14, <1>0 DEF sweep_take, Empty, CellTypes, cells
  <2>. QED  BY <1>14, <1>0, <2>1, CellsKept DEF sweep_take
<1>15. ASSUME NEW r \in Requests,
             \/ pool_empty(r)
             \/ slot_busy(r)
             \/ enable_notified(r)
             \/ woken_up(r)
             \/ give_up(r)
             \/ arrive(r)
             \/ abandoned(r)
             \/ take_fetch_body(r)
             \/ pull_fetch_body(r)
      PROVE  CellsHeld'
  <2>1. UNCHANGED <<plan, jobs_since, heap_reply, deadline, deadline_waker, call, slot>>
    BY <1>15 DEF pool_empty, slot_busy, enable_notified, woken_up, give_up, arrive, abandoned, take_fetch_body, pull_fetch_body, timer, cells
  <2>. QED  BY <2>1, <1>0 DEF StepTypes, CellTypes, CellsHeld, Empty
<1>16. ASSUME register \/ (\E w \in Workers : worker_dies(w)) \/ sweep_tick \/ sweep_wake \/ UNCHANGED vars
      PROVE  CellsHeld'
  <2>1. UNCHANGED <<plan, jobs_since, heap_reply, deadline, deadline_waker, call, slot>>
    BY <1>16 DEF register, worker_dies, sweep_tick, sweep_wake, vars, timer, cells
  <2>. QED  BY <2>1, <1>0 DEF StepTypes, CellTypes, CellsHeld, Empty
<1>. QED  BY <1>1, <1>2, <1>3, <1>4, <1>5, <1>6, <1>7, <1>8, <1>9, <1>10, <1>11, <1>12, <1>13, <1>14, <1>15, <1>16 DEF Next, Task, Client, Javascript, Sweeper, Finished

(* What a call is answered from.                                           *)
LEMMA OwnInit == Init => OwnCells
  BY DEF Init, OwnCells, Own

SlotTypes == /\ plan = [s \in Slots |-> plan[s]] /\ heap_reply = [s \in Slots |-> heap_reply[s]]
             /\ buf = [s \in Slots |-> buf[s]] /\ reply = [r \in Requests |-> reply[r]]

(* The calls a step leaves alone.                                          *)
SameCall(q) == /\ call'[q] = "await"
                    => call[q] = "await" /\ UNCHANGED <<slot[q], js[q], kind[q], reply[q]>>
               /\ call[q] = "await"
                    => UNCHANGED <<plan[slot[q]], heap_reply[slot[q]], buf[slot[q]]>>

LEMMA OwnKept == ASSUME NEW q \in Requests, Own(q), SameCall(q) PROVE Own(q)'
<1>. SUFFICES ASSUME call'[q] = "await"
              PROVE  /\ PlanFits(q, plan[slot[q]])'
                     /\ js'[q] = "resolved" => Answers(q, buf[slot[q]])'
  BY DEF Own
<1>1. /\ call[q] = "await" /\ slot'[q] = slot[q] /\ js'[q] = js[q] /\ kind'[q] = kind[q]
      /\ reply'[q] = reply[q] /\ plan'[slot[q]] = plan[slot[q]] /\ buf'[slot[q]] = buf[slot[q]]
      /\ heap_reply'[slot[q]] = heap_reply[slot[q]]
  BY DEF SameCall
<1>. QED  BY <1>1 DEF Own, PlanFits, Answers

(* The other calls' slots are not the slot of a call that has a claim.     *)
LEMMA OtherSlots ==
    ASSUME StepsMatch, Leased, NEW r \in Requests, Holds(r), NEW q \in Requests \ {r}, call[q] = "await"
    PROVE  slot[r] \in Slots /\ slot[q] \in Slots /\ slot[q] # slot[r]
  BY DEF StepsMatch, Legal, Leased, Holds

(* A call that has just been given its slot finds it empty.                *)
LEMMA ClaimEmpty ==
    ASSUME StepsMatch, Leased, CellsHeld, NEW r \in Requests, call[r] = "dispatch"
    PROVE  Empty(slot[r])
<1>1. slot[r] \in Slots /\ Holds(r)
  BY DEF StepsMatch, Legal, Holds
<1>. QED  BY <1>1 DEF CellsHeld, Leased, Holds

LEMMA FinishOwn ==
    ASSUME TypeOK, StepsMatch, Leased, OwnCells, NEW r \in Requests, call[r] = "await", finish(r),
           UNCHANGED <<slot, js, kind, buf>>
    PROVE  OwnCells'
<1>0. StepTypes /\ SlotTypes
  BY DEF TypeOK, StepTypes, SlotTypes
<1>1. call' = [call EXCEPT ![r] = "clear"]
  BY DEF finish
<1>2. plan' = plan \/ plan' = [plan EXCEPT ![slot[r]] = None]
  BY DEF finish, decode
<1>3. heap_reply' = heap_reply \/ heap_reply' = [heap_reply EXCEPT ![slot[r]] = None]
  BY DEF finish, decode
<1>4. reply' = reply \/ reply' = [reply EXCEPT ![r] = None]
  BY DEF finish, decode
<1>5. ASSUME NEW q \in Requests \ {r} PROVE Own(q)'
  <2>1. SameCall(q)
    BY <1>0, <1>1, <1>2, <1>3, <1>4, OtherSlots DEF SameCall, StepTypes, SlotTypes, Holds
  <2>. QED  BY <2>1, OwnKept DEF OwnCells
<1>6. Own(r)'
  BY <1>0, <1>1 DEF Own, StepTypes
<1>. QED  BY <1>5, <1>6 DEF OwnCells

LEMMA OwnStep == TypeOK /\ StepsMatch /\ Leased /\ CellsHeld /\ OwnCells /\ [Next]_vars => OwnCells'
<1>. SUFFICES ASSUME TypeOK, StepsMatch, Leased, CellsHeld, OwnCells, [Next]_vars PROVE OwnCells'
  OBVIOUS
<1>0. StepTypes /\ SlotTypes /\ \A q \in Requests : kind[q] \in CallKinds
  BY NamesAssumption DEF TypeOK, StepTypes, SlotTypes
<1>1. ASSUME NEW r \in Requests, claim(r) PROVE OwnCells'
  <2>1. ASSUME NEW q \in Requests \ {r} PROVE Own(q)'
    <3>1. SameCall(q)
      BY <1>1, <1>0 DEF claim, SameCall, StepTypes, SlotTypes, StepsMatch, Legal, Holds, JsActive, timer, cells
    <3>. QED  BY <1>0, <3>1, OwnKept DEF OwnCells
  <2>2. Own(r)'
    BY <1>1, <1>0 DEF claim, Own, StepTypes
  <2>. QED  BY <2>1, <2>2 DEF OwnCells
<1>2. ASSUME NEW r \in Requests, dispatch_call(r) PROVE OwnCells'
  <2>1. ASSUME NEW q \in Requests \ {r} PROVE Own(q)'
    <3>1. SameCall(q)
      BY <1>2, <1>0, OtherSlots DEF dispatch_call, put_plan, SameCall, StepTypes, SlotTypes, StepsMatch, Legal, Holds, JsActive, timer, cells
    <3>. QED  BY <1>0, <3>1, OwnKept DEF OwnCells
  <2>a. slot[r] \in Slots /\ plan[slot[r]] = None
    BY <1>2, ClaimEmpty DEF dispatch_call, Empty, StepsMatch, Legal, Holds
  <2>b. plan'[slot[r]] = CASE kind[r] = "plain" -> None
                           [] kind[r] = "planned" -> [of |-> r, is |-> "seed"]
                           [] OTHER -> [of |-> r, is |-> "fetch"]
    BY <1>2, <1>0, <2>a DEF dispatch_call, put_plan, SlotTypes
  <2>2. PlanFits(r, plan'[slot[r]])
    BY <1>0, <2>b, NamesAssumption DEF PlanFits, CallKinds
  <2>3. Own(r)'
    BY <1>2, <1>0, <2>2 DEF dispatch_call, Own, StepTypes, PlanFits
  <2>. QED  BY <2>1, <2>3 DEF OwnCells
<1>3. ASSUME NEW r \in Requests, serialise_fails(r) PROVE OwnCells'
  <2>1. ASSUME NEW q \in Requests \ {r} PROVE Own(q)'
    <3>1. SameCall(q)
      BY <1>3, <1>0, OtherSlots DEF serialise_fails, put_plan, SameCall, StepTypes, SlotTypes, StepsMatch, Legal, Holds, JsActive, timer, cells
    <3>. QED  BY <1>0, <3>1, OwnKept DEF OwnCells
  <2>2. Own(r)'
    BY <1>3, <1>0 DEF serialise_fails, Own, StepTypes
  <2>. QED  BY <2>1, <2>2 DEF OwnCells
<1>4. ASSUME NEW r \in Requests, poll_call(r) PROVE OwnCells'
  <2>1. CASE finish(r)
    BY <1>4, <2>1, FinishOwn DEF poll_call
  <2>2. CASE UNCHANGED <<heap_reply, reply, plan, call>>
    BY <1>4, <2>2 DEF poll_call, OwnCells, Own, PlanFits, Answers
  <2>. QED  BY <1>4, <2>1, <2>2 DEF poll_call
<1>5. ASSUME NEW r \in Requests, poll_deadline(r) PROVE OwnCells'
  <2>1. UNCHANGED <<plan, heap_reply, reply, buf, call, slot, js, kind>>
    BY <1>5 DEF poll_deadline, detach, cells
  <2>. QED  BY <2>1 DEF OwnCells, Own, PlanFits, Answers
<1>6. ASSUME NEW r \in Requests, detached_settles(r) PROVE OwnCells'
  BY <1>6, FinishOwn DEF detached_settles
<1>7. ASSUME NEW r \in Requests, drop_clear(r) PROVE OwnCells'
  <2>1. ASSUME NEW q \in Requests \ {r} PROVE Own(q)'
    <3>1. SameCall(q)
      BY <1>7, <1>0, OtherSlots DEF drop_clear, SameCall, StepTypes, SlotTypes, StepsMatch, Legal, Holds, JsActive, timer, cells
    <3>. QED  BY <1>0, <3>1, OwnKept DEF OwnCells
  <2>2. Own(r)'
    BY <1>7, <1>0 DEF drop_clear, Own, StepTypes
  <2>. QED  BY <2>1, <2>2 DEF OwnCells
<1>8. ASSUME NEW r \in Requests, drop_free(r) PROVE OwnCells'
  <2>1. ASSUME NEW q \in Requests \ {r} PROVE Own(q)'
    <3>1. SameCall(q)
      BY <1>8, <1>0 DEF drop_free, SameCall, StepTypes, SlotTypes, StepsMatch, Legal, Holds, JsActive, timer, cells
    <3>. QED  BY <1>0, <3>1, OwnKept DEF OwnCells
  <2>2. Own(r)'
    BY <1>8, <1>0 DEF drop_free, Own, StepTypes
  <2>. QED  BY <2>1, <2>2 DEF OwnCells
<1>9. ASSUME NEW r \in Requests, drop_notify(r) PROVE OwnCells'
  <2>1. ASSUME NEW q \in Requests \ {r} PROVE Own(q)'
    <3>1. SameCall(q)
      BY <1>9, <1>0 DEF drop_notify, SameCall, StepTypes, SlotTypes, StepsMatch, Legal, Holds, JsActive, timer, cells
    <3>. QED  BY <1>0, <3>1, OwnKept DEF OwnCells
  <2>2. Own(r)'
    BY <1>9, <1>0 DEF drop_notify, Own, StepTypes
  <2>. QED  BY <2>1, <2>2 DEF OwnCells
<1>10. ASSUME NEW r \in Requests, disconnect(r) PROVE OwnCells'
  <2>1. UNCHANGED <<plan, heap_reply, reply, buf, call, slot, js, kind>>
    BY <1>10 DEF disconnect, detach, cells
  <2>. QED  BY <2>1 DEF OwnCells, Own, PlanFits, Answers
<1>11. ASSUME NEW r \in Requests, plan_in_call(r) PROVE OwnCells'
  <2>1. ASSUME NEW q \in Requests \ {r} PROVE Own(q)'
    <3>1. SameCall(q)
      BY <1>11, <1>0, OtherSlots DEF plan_in_call, SameCall, StepTypes, SlotTypes, StepsMatch, Legal, Holds, JsActive, timer, cells
    <3>. QED  BY <1>0, <3>1, OwnKept DEF OwnCells
  <2>2. PlanFits(r, plan[slot[r]])
    BY <1>11 DEF plan_in_call, StepsMatch, Legal, JsActive, OwnCells, Own
  <2>a. slot[r] \in Slots /\ kind[r] = "planned"
    BY <1>11 DEF plan_in_call, StepsMatch, Legal, Holds, JsActive
  <2>b. \/ plan[slot[r]] # None /\ plan'[slot[r]] = [plan[slot[r]] EXCEPT !.is = "plan"]
        \/ plan'[slot[r]] \in {None, plan[slot[r]]}
    BY <1>11, <1>0, <2>a DEF plan_in_call, SlotTypes
  <2>c. plan[slot[r]] # None => plan[slot[r]] \in [of : Requests, is : {"seed", "plan", "fetch"}]
    BY <2>a DEF TypeOK
  <2>d. PlanFits(r, plan'[slot[r]])
    BY <2>2, <2>a, <2>b, <2>c, NamesAssumption DEF PlanFits
  <2>3. PlanFits(r, plan'[slot[r]]) /\ js'[r] = "planned" /\ slot' = slot /\ kind' = kind
    BY <1>11, <1>0, <2>d DEF plan_in_call, StepTypes
  <2>4. Own(r)'
    BY <2>3 DEF Own, PlanFits
  <2>. QED  BY <2>1, <2>4 DEF OwnCells
<1>12. ASSUME NEW r \in Requests, resolve(r) PROVE OwnCells'
  <2>0. call[r] = "await" /\ Holds(r) /\ PlanFits(r, plan[slot[r]]) /\ slot[r] \in Slots
    BY <1>12 DEF resolve, StepsMatch, Legal, Holds, JsActive, OwnCells, Own
  <2>. DEFINE s == slot[r]
              cell == kind[r] \in {"fetch", "stream"}
  <2>a. cell <=> plan[s] # None /\ plan[s].is = "fetch"
    BY <1>0, <2>0, NamesAssumption DEF PlanFits, CallKinds
  <2>b. cell => plan[s].of = r
    BY <2>0 DEF PlanFits
  <2>c. PICK heap \in BOOLEAN :
          /\ reply' = IF heap /\ cell THEN [reply EXCEPT ![r] = r] ELSE reply
          /\ heap_reply' = IF heap /\ ~cell THEN [heap_reply EXCEPT ![s] = r] ELSE heap_reply
          /\ buf' = [buf EXCEPT ![s] = [of |-> r, heap |-> heap]]
    BY <1>12, <2>a, <2>b DEF resolve
  <2>d. UNCHANGED <<plan, call, slot, kind>> /\ js' = [js EXCEPT ![r] = "resolved"]
    BY <1>12 DEF resolve
  <2>1. ASSUME NEW q \in Requests \ {r} PROVE Own(q)'
    <3>1. SameCall(q)
      BY <1>0, <2>0, <2>c, <2>d, OtherSlots DEF SameCall, StepTypes, SlotTypes
    <3>. QED  BY <3>1, OwnKept DEF OwnCells
  <2>2. Answers(r, buf[s])'
    BY <1>0, <2>0, <2>c, <2>d, NamesAssumption DEF Answers, SlotTypes
  <2>3. Own(r)'
    BY <2>0, <2>2, <2>d DEF Own, PlanFits
  <2>. QED  BY <2>1, <2>3 DEF OwnCells
<1>13. ASSUME NEW r \in Requests, abandoned(r) PROVE OwnCells'
  <2>1. ASSUME NEW q \in Requests \ {r} PROVE Own(q)'
    <3>1. SameCall(q)
      BY <1>13, <1>0 DEF abandoned, SameCall, StepTypes, SlotTypes, StepsMatch, Legal, Holds, JsActive, timer, cells
    <3>. QED  BY <1>0, <3>1, OwnKept DEF OwnCells
  <2>2. UNCHANGED <<plan, heap_reply, reply, buf, call, slot, kind>> /\ js'[r] # "resolved"
    BY <1>13, <1>0 DEF abandoned, StepTypes, cells
  <2>3. Own(r)'
    BY <1>0, <2>2 DEF OwnCells, Own, PlanFits
  <2>. QED  BY <2>1, <2>3 DEF OwnCells
<1>14. ASSUME NEW r \in Requests,
             \/ pool_empty(r)
             \/ slot_busy(r)
             \/ enable_notified(r)
             \/ woken_up(r)
             \/ give_up(r)
             \/ arrive(r)
             \/ take_fetch_body(r)
             \/ pull_fetch_body(r)
      PROVE  OwnCells'
  <2>1. UNCHANGED <<plan, heap_reply, reply, buf, call, slot, js, kind>>
    BY <1>14 DEF pool_empty, slot_busy, enable_notified, woken_up, give_up, arrive, take_fetch_body, pull_fetch_body, cells
  <2>. QED  BY <2>1, <1>0 DEF OwnCells, Own, PlanFits, Answers
<1>15. ASSUME register \/ (\E w \in Workers : worker_dies(w)) \/ Tick \/ sweep_tick \/ (\E s \in Slots : sweep_take(s)) \/ sweep_wake \/ UNCHANGED vars
      PROVE  OwnCells'
  <2>1. UNCHANGED <<plan, heap_reply, reply, buf, call, slot, js, kind>>
    BY <1>15 DEF register, worker_dies, Tick, sweep_tick, sweep_take, sweep_wake, vars, cells
  <2>. QED  BY <2>1, <1>0 DEF OwnCells, Own, PlanFits, Answers
<1>. QED  BY <1>1, <1>2, <1>3, <1>4, <1>5, <1>6, <1>7, <1>8, <1>9, <1>10, <1>11, <1>12, <1>13, <1>14, <1>15 DEF Next, Task, Client, Javascript, Sweeper, Finished

-----------------------------------------------------------------------------
PoolInv == TypeOK /\ StepsMatch /\ Leased /\ CellsHeld /\ OwnCells

LEMMA PoolInvInit == Init => PoolInv
  BY TypeInit, StepsInit, LeasedInit, CellsInit, OwnInit DEF PoolInv

LEMMA PoolInvStep == PoolInv /\ [Next]_vars => PoolInv'
  BY TypeStep, StepsStep, LeasedStep, CellsStep, OwnStep DEF PoolInv

THEOREM PoolInvariant == Spec => []PoolInv
  BY PoolInvInit, PoolInvStep, PTL DEF Spec

(* Every variable has its type.                                            *)
THEOREM PoolTypes == Spec => []TypeOK
<1>1. PoolInv => TypeOK
  BY DEF PoolInv
<1>. QED  BY <1>1, PoolInvariant, PTL

(* What RenderClaim::drop leaves behind: a slot that can be claimed carries *)
(* no plan, stamp, heap reply, armed deadline or parked waker of a call.   *)
THEOREM IdleSlotsAreClean == Spec => []IdleSlotClean
<1>1. PoolInv => IdleSlotClean
  <2>. SUFFICES ASSUME PoolInv, NEW s \in Slots, idle[s] PROVE Empty(s)
    BY DEF IdleSlotClean, Empty
  <2>1. \A r \in Requests : call[r] \in {"await", "clear"} => slot[r] # s
    BY DEF PoolInv, Leased, Holds
  <2>. QED  BY <2>1 DEF PoolInv, CellsHeld
<1>. QED  BY <1>1, PoolInvariant, PTL

(* The decode closure: what finish answers from is the call's own.         *)
LEMMA DecodesOwn ==
    ASSUME PoolInv, NEW r \in Requests, call[r] = "await", finish(r)
    PROVE  mixed' = mixed
<1>1. CASE js[r] = "resolved"
  <2>1. PlanFits(r, plan[slot[r]]) /\ Answers(r, buf[slot[r]])
    BY <1>1 DEF PoolInv, OwnCells, Own
  <2>2. plan[slot[r]] # None => plan[slot[r]].of = r
    BY <2>1 DEF PlanFits
  <2>. QED  BY <1>1, <2>1, <2>2 DEF finish, decode, Answers
<1>2. CASE js[r] # "resolved"
  BY <1>2 DEF finish
<1>. QED  BY <1>1, <1>2

LEMMA OwnReplyStep == PoolInv /\ OwnReply /\ [Next]_vars => OwnReply'
<1>. SUFFICES ASSUME PoolInv, OwnReply, [Next]_vars PROVE mixed' = mixed
  BY DEF OwnReply
<1>1. ASSUME NEW r \in Requests, poll_call(r) PROVE mixed' = mixed
  <2>1. CASE finish(r)
    BY <1>1, <2>1, DecodesOwn DEF poll_call
  <2>. QED  BY <1>1, <2>1 DEF poll_call
<1>2. ASSUME NEW r \in Requests, detached_settles(r) PROVE mixed' = mixed
  BY <1>2, DecodesOwn DEF detached_settles
<1>3. ASSUME NEW r \in Requests, take_fetch_body(r) PROVE mixed' = mixed
  <2>1. PlanFits(r, plan[slot[r]])
    BY <1>3 DEF take_fetch_body, PoolInv, StepsMatch, Legal, JsActive, OwnCells, Own
  <2>. QED  BY <1>3, <2>1 DEF take_fetch_body, PlanFits
<1>4. ASSUME NEW r \in Requests, pull_fetch_body(r) PROVE mixed' = mixed
  BY <1>4 DEF pull_fetch_body, TokenMatches
<1>5. ASSUME NEW r \in Requests,
             \/ pool_empty(r)
             \/ claim(r)
             \/ slot_busy(r)
             \/ enable_notified(r)
             \/ woken_up(r)
             \/ give_up(r)
             \/ arrive(r)
             \/ dispatch_call(r)
             \/ serialise_fails(r)
             \/ poll_deadline(r)
             \/ drop_clear(r)
             \/ drop_free(r)
             \/ drop_notify(r)
             \/ disconnect(r)
             \/ plan_in_call(r)
             \/ resolve(r)
             \/ abandoned(r)
      PROVE  mixed' = mixed
  BY <1>5 DEF pool_empty, claim, slot_busy, enable_notified, woken_up, give_up, arrive, dispatch_call, serialise_fails, poll_deadline, drop_clear, drop_free, drop_notify, disconnect, plan_in_call, resolve, abandoned
<1>6. ASSUME register \/ (\E w \in Workers : worker_dies(w)) \/ Sweeper \/ Tick \/ UNCHANGED vars
      PROVE  mixed' = mixed
  BY <1>6 DEF register, worker_dies, Sweeper, sweep_tick, sweep_take, sweep_wake, Tick, vars
<1>. QED  BY <1>1, <1>2, <1>3, <1>4, <1>5, <1>6 DEF Next, Task, Client, Javascript, Finished

(* No call is answered from another call's bytes, heap reply or plan, and  *)
(* no code of another call takes or pulls its body.                        *)
THEOREM RepliesAreOwn == Spec => []OwnReply
<1>1. Init => OwnReply
  BY DEF Init, OwnReply
<1>. QED  BY <1>1, OwnReplyStep, PoolInvariant, PTL DEF Spec

-----------------------------------------------------------------------------
(* The leases SlotLease promises.                                          *)
HolderMeans == \A s \in Slots : /\ Holder(s) \in Requests \cup {None}
                                /\ \A r \in Requests : Holder(s) = r <=> Holds(r) /\ slot[r] = s

LEMMA HolderIs == Leased => HolderMeans
<1>. SUFFICES ASSUME Leased, NEW s \in Slots
              PROVE  /\ Holder(s) \in Requests \cup {None}
                     /\ \A r \in Requests : Holder(s) = r <=> Holds(r) /\ slot[r] = s
  BY DEF HolderMeans
<1>1. CASE \E r \in Requests : Holds(r) /\ slot[r] = s
  <2>1. Holder(s) \in Requests /\ Holds(Holder(s)) /\ slot[Holder(s)] = s
    BY <1>1 DEF Holder
  <2>. QED  BY <2>1 DEF Leased
<1>2. CASE ~ \E r \in Requests : Holds(r) /\ slot[r] = s
  BY <1>2, NamesAssumption DEF Holder
<1>. QED  BY <1>1, <1>2

LEMMA HolderIsNext == Leased' => HolderMeans'
  BY HolderIs, PTL

lease == [s \in Slots |-> Holder(s)]
working == {r \in Requests : JsActive(r)}

(* Who holds which slot is the same after a step.                          *)
SameHolders == \A r \in Requests : /\ Holds(r)' <=> Holds(r)
                                   /\ Holds(r) => slot'[r] = slot[r]

LEMMA LeaseKept == ASSUME Leased, Leased', SameHolders PROVE lease' = lease
<1>. SUFFICES ASSUME NEW s \in Slots PROVE Holder(s)' = Holder(s)
  BY DEF lease
<1>1. HolderMeans /\ HolderMeans'
  BY HolderIs, HolderIsNext
<1>. QED  BY <1>1, NamesAssumption DEF HolderMeans, SameHolders

LEMMA WorkKept == ASSUME \A r \in Requests : JsActive(r)' <=> JsActive(r) PROVE working' = working
  BY DEF working

LEMMA LeaseInit == Init => Lease!Init
<1>. SUFFICES ASSUME Init PROVE Lease!Init
  OBVIOUS
<1>1. \A s \in Slots : Holder(s) = None
  BY DEF Init, Holder, Holds
<1>2. \A r \in Requests : ~JsActive(r)
  BY DEF Init, JsActive
<1>. QED  BY <1>1, <1>2 DEF Lease!Init

LeaseMoves == \/ lease' = lease /\ working' = working
              \/ \E r \in Requests : \/ Lease!Begin(r) \/ Lease!End(r)
                                     \/ \E s \in Slots : Lease!Acquire(r, s) \/ Lease!Release(r, s)

LEMMA LeaseStep == PoolInv /\ PoolInv' /\ [Next]_vars => LeaseMoves
<1>. SUFFICES ASSUME PoolInv, PoolInv', [Next]_vars PROVE LeaseMoves
  OBVIOUS
<1>0. /\ Leased /\ Leased' /\ HolderMeans /\ HolderMeans' /\ StepTypes
      /\ \A r \in Requests : Legal(r)
  BY HolderIs, HolderIsNext DEF PoolInv, TypeOK, StepTypes, StepsMatch
<1>1. ASSUME NEW r \in Requests, claim(r) PROVE LeaseMoves
  <2>1. PICK s \in Slots : /\ idle[s] /\ slot' = [slot EXCEPT ![r] = s]
                           /\ call' = [call EXCEPT ![r] = "dispatch"] /\ js' = js
    BY <1>1, ClaimedIsSlot DEF claim, PoolInv
  <2>2. ~Holds(r)
    BY <1>0, <1>1 DEF claim, Legal, Holds
  <2>3. Holder(s) = None
    BY <1>0, <2>1 DEF HolderMeans, Leased
  <2>4. /\ Holds(r)' /\ slot'[r] = s
        /\ \A q \in Requests \ {r} : (Holds(q)' <=> Holds(q)) /\ slot'[q] = slot[q]
    BY <1>0, <2>1 DEF Holds, StepTypes
  <2>5. Holder(s)' = r
    BY <1>0, <2>1, <2>4 DEF HolderMeans
  <2>6. ASSUME NEW t \in Slots \ {s} PROVE Holder(t)' = Holder(t)
    BY <1>0, <2>1, <2>2, <2>4, NamesAssumption DEF HolderMeans
  <2>7. lease' = [lease EXCEPT ![s] = r]
    BY <2>5, <2>6 DEF lease
  <2>8. working' = working
    BY <2>1 DEF working, JsActive
  <2>9. lease[s] = None /\ ~ \E t \in Slots : lease[t] = r
    BY <1>0, <2>1, <2>2, <2>3 DEF lease, HolderMeans
  <2>10. Lease!Acquire(r, s)
    BY <2>7, <2>8, <2>9 DEF Lease!Acquire, Lease!Leased, lease, working
  <2>. QED  BY <2>1, <2>10 DEF LeaseMoves
<1>2. ASSUME NEW r \in Requests, dispatch_call(r) PROVE LeaseMoves
  <2>1. SameHolders /\ Holds(r) /\ slot[r] \in Slots /\ ~JsActive(r)
    BY <1>0, <1>2 DEF dispatch_call, SameHolders, Holds, StepTypes, Legal, JsActive
  <2>2. lease' = lease
    BY <1>0, <2>1, LeaseKept
  <2>3. CASE js' = [js EXCEPT ![r] = "unqueued"]
    BY <1>0, <2>1, <2>2, <2>3, WorkKept DEF LeaseMoves, JsActive, StepTypes
  <2>4. CASE js' = [js EXCEPT ![r] = "running"]
    <3>1. working' = working \cup {r} /\ r \notin working
      BY <1>0, <2>1, <2>4 DEF working, JsActive, StepTypes
    <3>2. \E s \in Slots : lease[s] = r
      BY <1>0, <2>1 DEF lease, HolderMeans
    <3>3. Lease!Begin(r)
      BY <2>2, <3>1, <3>2 DEF Lease!Begin, Lease!Leased, lease, working
    <3>. QED  BY <3>3 DEF LeaseMoves
  <2>. QED  BY <1>2, <2>3, <2>4 DEF dispatch_call
<1>3. ASSUME NEW r \in Requests, resolve(r) \/ abandoned(r) PROVE LeaseMoves
  <2>1. /\ SameHolders /\ r \in working
        /\ \E x \in {"resolved", "unqueued", "rejected"} : js' = [js EXCEPT ![r] = x]
    BY <1>3 DEF resolve, abandoned, SameHolders, Holds, working, JsActive
  <2>2. lease' = lease
    BY <1>0, <2>1, LeaseKept
  <2>3. working' = working \ {r}
    BY <1>0, <2>1 DEF working, JsActive, StepTypes
  <2>4. Lease!End(r)
    BY <2>1, <2>2, <2>3 DEF Lease!End, lease, working
  <2>. QED  BY <2>4 DEF LeaseMoves
<1>4. ASSUME NEW r \in Requests, drop_free(r) PROVE LeaseMoves
  <2>1. PICK s \in Slots : /\ s = slot[r] /\ Holds(r) /\ ~JsActive(r)
                           /\ slot' = slot /\ js' = js
    BY <1>0, <1>4 DEF drop_free, Holds, Legal
  <2>2. ~Holds(r)' /\ \A q \in Requests \ {r} : Holds(q)' <=> Holds(q)
    BY <1>0, <1>4 DEF drop_free, Holds, StepTypes
  <2>3. Holder(s) = r
    BY <1>0, <2>1 DEF HolderMeans
  <2>4. Holder(s)' = None
    BY <1>0, <2>1, <2>2, <2>3 DEF HolderMeans
  <2>5. ASSUME NEW t \in Slots \ {s} PROVE Holder(t)' = Holder(t)
    BY <1>0, <2>1, <2>2, <2>3, NamesAssumption DEF HolderMeans
  <2>6. lease' = [lease EXCEPT ![s] = None]
    BY <2>4, <2>5 DEF lease
  <2>7. working' = working /\ r \notin working
    BY <2>1 DEF working, JsActive
  <2>8. lease[s] = r
    BY <2>1, <2>3 DEF lease
  <2>9. Lease!Release(r, s)
    BY <2>6, <2>7, <2>8 DEF Lease!Release, lease, working
  <2>. QED  BY <2>1, <2>9 DEF LeaseMoves
<1>5. ASSUME SameHolders, \A q \in Requests : JsActive(q)' <=> JsActive(q) PROVE LeaseMoves
  BY <1>0, <1>5, LeaseKept, WorkKept DEF LeaseMoves
<1>6. ASSUME NEW r \in Requests,
             \/ serialise_fails(r) \/ poll_call(r) \/ detached_settles(r)
             \/ drop_clear(r) \/ drop_notify(r) \/ plan_in_call(r)
      PROVE  SameHolders /\ \A q \in Requests : JsActive(q)' <=> JsActive(q)
  <2>1. CASE serialise_fails(r)
    BY <1>0, <2>1 DEF serialise_fails, SameHolders, Holds, JsActive, StepTypes
  <2>2. CASE poll_call(r)
    BY <1>0, <2>2 DEF poll_call, finish, SameHolders, Holds, JsActive, StepTypes
  <2>3. CASE detached_settles(r)
    BY <1>0, <2>3 DEF detached_settles, finish, SameHolders, Holds, JsActive, StepTypes
  <2>4. CASE drop_clear(r)
    BY <1>0, <2>4 DEF drop_clear, SameHolders, Holds, JsActive, StepTypes
  <2>5. CASE drop_notify(r)
    BY <1>0, <2>5 DEF drop_notify, SameHolders, Holds, JsActive, StepTypes, Legal
  <2>6. CASE plan_in_call(r)
    BY <1>0, <2>6 DEF plan_in_call, SameHolders, Holds, JsActive, StepTypes
  <2>. QED  BY <1>6, <2>1, <2>2, <2>3, <2>4, <2>5, <2>6
<1>7. ASSUME UNCHANGED <<call, slot, js>>
      PROVE  SameHolders /\ \A q \in Requests : JsActive(q)' <=> JsActive(q)
  BY <1>7 DEF SameHolders, Holds, JsActive
<1>8. ASSUME NEW r \in Requests,
             \/ pool_empty(r) \/ slot_busy(r) \/ enable_notified(r) \/ woken_up(r) \/ give_up(r)
             \/ arrive(r) \/ poll_deadline(r) \/ disconnect(r)
             \/ take_fetch_body(r) \/ pull_fetch_body(r)
      PROVE  UNCHANGED <<call, slot, js>>
  BY <1>8 DEF pool_empty, slot_busy, enable_notified, woken_up, give_up, arrive, poll_deadline,
              disconnect, detach, take_fetch_body, pull_fetch_body
<1>9. ASSUME register \/ (\E w \in Workers : worker_dies(w)) \/ Sweeper \/ Tick \/ UNCHANGED vars
      PROVE  UNCHANGED <<call, slot, js>>
  BY <1>9 DEF register, worker_dies, Sweeper, sweep_tick, sweep_take, sweep_wake, Tick, vars
<1>. QED  BY <1>1, <1>2, <1>3, <1>4, <1>5, <1>6, <1>7, <1>8, <1>9
         DEF Next, Task, Client, Javascript, Finished

(* A slot is one call's until its worker is through with it: the pool      *)
(* implements SlotLease.                                                   *)
THEOREM PoolLeasesSlots == Spec => LeasesSlots
<1>1. PoolInv /\ PoolInv' /\ [Next]_vars => [Lease!Next]_<<lease, working>>
  BY LeaseStep DEF LeaseMoves, Lease!Next
<1>2. [Lease!Next]_<<lease, working>>
        => [Lease!Next]_<<[s \in Slots |-> Holder(s)], {r \in Requests : JsActive(r)}>>
  BY DEF lease, working
<1>. QED  BY <1>1, <1>2, LeaseInit, PoolInvariant, PTL DEF Spec, LeasesSlots, Lease!Spec

-----------------------------------------------------------------------------
(* No wake is lost.  Each released slot a waiting request needs has a        *)
(* request, or a wake not yet taken, of its own on the way to it.           *)
(* tokio's queue holds the requests that wait, each once, and nobody waits *)
(* while a permit is stored.                                               *)
Queued(Q, n) ==
  /\ \A r \in Requests : n[r] = "waiting" <=> \E i \in 1..Len(Q) : Q[i] = r
  /\ \A i, j \in 1..Len(Q) : Q[i] = Q[j] => i = j

QueueFits ==
  /\ Queued(waiters, notified)
  /\ permit => waiters = <<>>
  /\ \A r \in Requests : notified[r] # "none" => caller[r] \in {"again", "parked"}

(* A worker leaves the list only when it is dead, so that no slot that was *)
(* claimed comes back with a new worker.                                   *)
UsedKnown ==
  /\ \A s \in used : Registered(s[1]) \/ s[1] \in dead
  /\ \A r \in Requests : js[r] = "unqueued" => slot[r] \in Slots /\ slot[r][1] \in dead

(* Every scan starts at the top of the list and new workers come last, so  *)
(* that the slots that have been claimed are the first ones; a scan passes *)
(* claimed slots only.                                                     *)
ListFits ==
  /\ \A i, j \in 1..Len(entries) : entries[i] = entries[j] => i = j
  /\ \A s \in Slots : idle[s] \/ s \in used
  /\ \A i, j \in 1..Len(ScanOrder) : i < j /\ ScanOrder[j] \in used => ScanOrder[i] \in used
  /\ \A r \in Requests : \A i \in 1..Len(ScanOrder) : i < pos[r] => ScanOrder[i] \in used

(* Ahead(r, s): the scan of r has still to come to slot s.                 *)
Ahead(r, s) == \A i \in 1..Len(ScanOrder) : ScanOrder[i] = s => pos[r] <= i

Usable(s) == s \in used /\ idle[s] /\ Registered(s[1])

(* The released slots that request q, queued, will not find by itself.     *)
Needs(q) == {s \in Slots : Usable(s) /\ (caller[q] = "parked" \/ ~Ahead(q, s))}

(* What can be on its way to a slot: a request that is to notify, to look  *)
(* again or is scanning, and the wake a notified request has not taken.    *)
Tokens == Requests \X {"look", "wake"}

Looks(r, s) == \/ call[r] = "notify" \/ caller[r] = "enable"
               \/ caller[r] \in {"scan", "again"} /\ Ahead(r, s)

Carries(t, s) == \/ t[2] = "look" /\ Looks(t[1], s)
                 \/ t[2] = "wake" /\ notified[t[1]] = "woken"

(* Each slot a waiting request needs has somebody of its own on the way.   *)
Covers(f, N) == /\ \A s \in N : Carries(f[s], s)
                /\ \A s, u \in N : f[s] = f[u] => s = u

Covered(q) == \E f \in [Slots -> Tokens] : Covers(f, Needs(q))

WakesMatch == \A q \in Requests : notified[q] = "waiting" => Covered(q)

LEMMA DivMod ==
    ASSUME NEW n \in Nat \ {0}, NEW a \in Nat, NEW b \in 0..(n - 1)
    PROVE  (a * n + b) \div n = a /\ (a * n + b) % n = b
<1>1. a * n \in Nat /\ a * n + b \in Nat
  OBVIOUS
<1>. DEFINE m == a * n + b
<1>2. m = n * (m \div n) + (m % n) /\ (m % n) \in 0..(n - 1) /\ m \div n \in Nat
  BY <1>1
<1>3. n * (m \div n) + (m % n) = n * a + b
  BY <1>2
<1>4. n * ((m \div n) - a) = b - (m % n)
  BY <1>2, <1>3
<1>5. (m \div n) - a \in Int /\ b - (m % n) \in (1 - n)..(n - 1)
  BY <1>2
<1>6. (m \div n) - a = 0
  <2>1. CASE (m \div n) - a >= 1
    <3>1. n * ((m \div n) - a) >= n
      BY <2>1, <1>5
    <3>. QED  BY <3>1, <1>4, <1>5
  <2>2. CASE (m \div n) - a <= -1
    <3>1. n * ((m \div n) - a) <= -n
      BY <2>2, <1>5
    <3>. QED  BY <3>1, <1>4, <1>5
  <2>. QED  BY <2>1, <2>2, <1>5
<1>. QED  BY <1>1, <1>2, <1>4, <1>6

LEMMA ScanReaches ==
    ASSUME TypeOK, NEW s \in Slots, Registered(s[1])
    PROVE  \E i \in 1..Len(ScanOrder) : ScanOrder[i] = s
<1>1. PICK k \in 1..Len(entries) : entries[k] = s[1]
  <2>1. DOMAIN entries = 1..Len(entries)
    BY DEF TypeOK
  <2>. QED  BY <2>1 DEF Registered
<1>2. s = <<s[1], s[2]>> /\ s[2] \in 1..SLOT_COUNT
  BY DEF Slots
<1>3. k - 1 \in Nat /\ s[2] - 1 \in 0..(SLOT_COUNT - 1) /\ SLOT_COUNT \in Nat \ {0}
      /\ Len(entries) \in Nat
  BY <1>2, SizesAssumption DEF TypeOK
<1>. DEFINE i == (k - 1) * SLOT_COUNT + (s[2] - 1) + 1
<1>4. (k - 1) * SLOT_COUNT \in Nat /\ i \in Nat /\ i - 1 = (k - 1) * SLOT_COUNT + (s[2] - 1)
  BY <1>3
<1>5. (i - 1) \div SLOT_COUNT = k - 1 /\ (i - 1) % SLOT_COUNT = s[2] - 1
  BY <1>3, <1>4, DivMod
<1>6. i \in 1..(Len(entries) * SLOT_COUNT)
  <2>1. Len(entries) * SLOT_COUNT = (k - 1) * SLOT_COUNT + (Len(entries) - (k - 1)) * SLOT_COUNT
    BY <1>3
  <2>2. Len(entries) - (k - 1) >= 1
    BY <1>3
  <2>3. (Len(entries) - (k - 1)) * SLOT_COUNT >= SLOT_COUNT
    BY <1>3, <2>2
  <2>. QED  BY <1>3, <1>4, <2>1, <2>3
<1>. HIDE DEF i
<1>7. (i - 1) \div SLOT_COUNT + 1 = k /\ ((i - 1) % SLOT_COUNT) + 1 = s[2]
  BY <1>2, <1>3, <1>5
<1>8. i \in 1..Len(ScanOrder) /\ ScanOrder[i] = <<entries[k], s[2]>>
  BY <1>3, <1>6, <1>7 DEF ScanOrder
<1>. QED  BY <1>1, <1>2, <1>8

LEMMA ScannedRegistered ==
    ASSUME TypeOK, NEW i \in 1..Len(ScanOrder)
    PROVE  Registered(ScanOrder[i][1])
<1>1. Len(entries) \in Nat /\ SLOT_COUNT \in Nat \ {0} /\ DOMAIN entries = 1..Len(entries)
  BY SizesAssumption DEF TypeOK
<1>2. Len(entries) * SLOT_COUNT \in Nat
  BY <1>1
<1>3. Len(ScanOrder) = Len(entries) * SLOT_COUNT
  BY <1>2 DEF ScanOrder
<1>4. (i - 1) \div SLOT_COUNT + 1 \in 1..Len(entries)
  BY <1>1, <1>2, <1>3
<1>5. ScanOrder[i][1] = entries[(i - 1) \div SLOT_COUNT + 1]
  BY <1>2, <1>3 DEF ScanOrder
<1>. QED  BY <1>1, <1>4, <1>5 DEF Registered

(* The queue of tokio's Notify.                                            *)
NotifyStates == {"none", "waiting", "woken", "taken"}

LEMMA QueuedNext ==
    ASSUME NEW Q \in Seq(Requests), NEW n \in [Requests -> NotifyStates], Queued(Q, n), Q # <<>>
    PROVE  /\ Head(Q) \in Requests /\ n[Head(Q)] = "waiting"
           /\ Queued(Tail(Q), [n EXCEPT ![Head(Q)] = "woken"])
<1>1. Len(Q) \in Nat /\ Len(Q) > 0 /\ Head(Q) = Q[1] /\ Head(Q) \in Requests
  BY EmptySeq
<1>2. n[Head(Q)] = "waiting"
  BY <1>1 DEF Queued
<1>. DEFINE T == Tail(Q)
            m == [n EXCEPT ![Head(Q)] = "woken"]
<1>3. Len(T) = Len(Q) - 1 /\ \A i \in 1..Len(T) : T[i] = Q[i + 1]
  BY <1>1, HeadTailProperties
<1>. HIDE DEF T
<1>4. \A i, j \in 1..Len(T) : T[i] = T[j] => i = j
  BY <1>1, <1>3 DEF Queued
<1>5. ASSUME NEW r \in Requests PROVE m[r] = "waiting" <=> \E i \in 1..Len(T) : T[i] = r
  <2>1. CASE r = Head(Q)
    <3>1. \A i \in 1..Len(T) : T[i] # Q[1]
      BY <1>1, <1>3 DEF Queued
    <3>. QED  BY <1>1, <2>1, <3>1
  <2>2. CASE r # Head(Q)
    <3>1. \A i \in 1..Len(Q) : Q[i] = r => i - 1 \in 1..Len(T) /\ T[i - 1] = r
      BY <1>1, <1>3, <2>2
    <3>2. (\E i \in 1..Len(Q) : Q[i] = r) <=> \E i \in 1..Len(T) : T[i] = r
      BY <1>1, <1>3, <3>1
    <3>. QED  BY <2>2, <3>2 DEF Queued
  <2>. QED  BY <2>1, <2>2
<1>6. Queued(T, m)
  BY <1>4, <1>5 DEF Queued
<1>. QED  BY <1>1, <1>2, <1>6 DEF T

LEMMA QueuedLast ==
    ASSUME NEW Q \in Seq(Requests), NEW n \in [Requests -> NotifyStates], Queued(Q, n),
           NEW r \in Requests, n[r] # "waiting"
    PROVE  Queued(Append(Q, r), [n EXCEPT ![r] = "waiting"])
<1>. DEFINE A == Append(Q, r)
            m == [n EXCEPT ![r] = "waiting"]
<1>1. /\ Len(Q) \in Nat /\ Len(A) = Len(Q) + 1 /\ A[Len(Q) + 1] = r
      /\ \A i \in 1..Len(Q) : A[i] = Q[i] /\ Q[i] # r
  BY AppendProperties DEF Queued
<1>. HIDE DEF A
<1>2. \A i, j \in 1..Len(A) : A[i] = A[j] => i = j
  BY <1>1 DEF Queued
<1>3. ASSUME NEW x \in Requests PROVE m[x] = "waiting" <=> \E i \in 1..Len(A) : A[i] = x
  <2>1. CASE x = r
    BY <1>1, <2>1
  <2>2. CASE x # r
    <3>1. \A i \in 1..Len(A) : A[i] = x => i \in 1..Len(Q)
      BY <1>1, <2>2
    <3>2. (\E i \in 1..Len(Q) : Q[i] = x) <=> \E i \in 1..Len(A) : A[i] = x
      BY <1>1, <3>1
    <3>. QED  BY <2>2, <3>2 DEF Queued
  <2>. QED  BY <2>1, <2>2
<1>4. Queued(A, m)
  BY <1>2, <1>3 DEF Queued
<1>. QED  BY <1>4 DEF A

LEMMA QueuedWithout ==
    ASSUME NEW Q \in Seq(Requests), NEW n \in [Requests -> NotifyStates], Queued(Q, n),
           NEW r \in Requests
    PROVE  Queued(RemoveFirst(Q, r), [n EXCEPT ![r] = "none"])
<1>. DEFINE R == RemoveFirst(Q, r)
            m == [n EXCEPT ![r] = "none"]
<1>1. CASE R = Q /\ \A i \in 1..Len(Q) : Q[i] # r
  BY <1>1 DEF Queued
<1>2. CASE \E k \in 1..Len(Q) : Q[k] = r /\ R = RemoveAt(Q, k)
  <2>1. PICK k \in 1..Len(Q) : Q[k] = r /\ R = RemoveAt(Q, k)
    BY <1>2
  <2>. HIDE DEF R
  <2>2. /\ Len(R) = Len(Q) - 1 /\ Len(Q) \in Nat
        /\ \A i \in 1..(Len(Q) - 1) : R[i] = IF i < k THEN Q[i] ELSE Q[i + 1]
    <3>1. TakenOut(Q, k, R)
      BY <2>1, TakesOut
    <3>. QED  BY <3>1 DEF TakenOut
  <2>3. \A i, j \in 1..Len(R) : R[i] = R[j] => i = j
    BY <2>2 DEF Queued
  <2>4. ASSUME NEW x \in Requests PROVE m[x] = "waiting" <=> \E i \in 1..Len(R) : R[i] = x
    <3>1. CASE x = r
      <4>1. \A i \in 1..Len(R) : R[i] # Q[k]
        BY <2>2 DEF Queued
      <4>. QED  BY <2>1, <3>1, <4>1
    <3>2. CASE x # r
      <4>1. \A i \in 1..Len(Q) : Q[i] = x => \/ i < k /\ R[i] = x
                                             \/ i > k /\ R[i - 1] = x
        BY <2>1, <2>2, <3>2
      <4>2. (\E i \in 1..Len(Q) : Q[i] = x) => \E i \in 1..Len(R) : R[i] = x
        <5>1. ASSUME NEW i \in 1..Len(Q), Q[i] = x PROVE \E j \in 1..Len(R) : R[j] = x
          <6>1. CASE i < k /\ R[i] = x
            BY <2>2, <6>1
          <6>2. CASE i > k /\ R[i - 1] = x
            BY <2>2, <6>2
          <6>. QED  BY <4>1, <5>1, <6>1, <6>2
        <5>. QED  BY <5>1
      <4>3. (\E i \in 1..Len(R) : R[i] = x) => \E i \in 1..Len(Q) : Q[i] = x
        BY <2>2
      <4>. QED  BY <3>2, <4>2, <4>3 DEF Queued
    <3>. QED  BY <3>1, <3>2
  <2>. QED  BY <2>3, <2>4 DEF Queued, R
<1>. QED  BY <1>1, <1>2, RemovedFirst

(* What notify_one does: the longest waiter is woken, or nobody waits.     *)
LEMMA WakesOne ==
    ASSUME NEW Q \in Seq(Requests), NEW n \in [Requests -> NotifyStates], Queued(Q, n),
           permit \in BOOLEAN, permit => Q = <<>>, notify_one(Q, n)
    PROVE  /\ Queued(waiters', notified') /\ (permit' => waiters' = <<>>)
           /\ \/ notified' = n /\ \A q \in Requests : n[q] # "waiting"
              \/ \E h \in Requests : n[h] = "waiting" /\ notified' = [n EXCEPT ![h] = "woken"]
<1>1. CASE Q = <<>>
  <2>1. Len(Q) = 0
    BY <1>1
  <2>. QED  BY <1>1, <2>1 DEF notify_one, Queued
<1>2. CASE Q # <<>>
  <2>1. /\ waiters' = Tail(Q) /\ notified' = [n EXCEPT ![Head(Q)] = "woken"]
        /\ permit' = permit
    BY <1>2 DEF notify_one
  <2>. QED  BY <1>2, <2>1, QueuedNext
<1>. QED  BY <1>1, <1>2

(* What the drop of a Notified does: a wake that was not taken is passed   *)
(* on, if somebody waits.                                                  *)
Passed(r) ==
  \/ /\ notified[r] # "woken" /\ notified' = [notified EXCEPT ![r] = "none"]
  \/ /\ notified[r] = "woken" /\ notified' = [notified EXCEPT ![r] = "none"]
     /\ \A q \in Requests : notified[q] # "waiting"
  \/ /\ notified[r] = "woken"
     /\ \E h \in Requests : /\ notified[h] = "waiting"
                            /\ notified' = [notified EXCEPT ![r] = "none", ![h] = "woken"]

LEMMA Drops ==
    ASSUME TypeOK, QueueFits, NEW r \in Requests, drop_notified(r)
    PROVE  Passed(r) /\ Queued(waiters', notified') /\ (permit' => waiters' = <<>>)
<1>. DEFINE n == [notified EXCEPT ![r] = "none"]
            Q == RemoveFirst(waiters, r)
<1>1. /\ waiters \in Seq(Requests) /\ notified \in [Requests -> NotifyStates]
      /\ n \in [Requests -> NotifyStates] /\ Q \in Seq(Requests) /\ permit \in BOOLEAN
  BY Removals DEF TypeOK, NotifyStates
<1>2. Queued(Q, n)
  BY <1>1, QueuedWithout DEF QueueFits
<1>3. permit => Q = <<>>
  <2>. SUFFICES ASSUME permit PROVE Q = <<>>
    OBVIOUS
  <2>1. waiters = <<>> /\ Len(waiters) = 0
    BY DEF QueueFits
  <2>2. \/ Q = waiters
        \/ \E k \in 1..Len(waiters) : waiters[k] = r /\ Q = RemoveAt(waiters, k)
    BY <1>1, RemovedFirst
  <2>. HIDE DEF Q
  <2>. QED  BY <2>1, <2>2
<1>4. CASE notified[r] = "woken"
  <2>1. notify_one(Q, n)
    BY <1>4 DEF drop_notified
  <2>. HIDE DEF Q
  <2>2. /\ Queued(waiters', notified') /\ (permit' => waiters' = <<>>)
        /\ \/ notified' = n /\ \A q \in Requests : n[q] # "waiting"
           \/ \E h \in Requests : n[h] = "waiting" /\ notified' = [n EXCEPT ![h] = "woken"]
    <3>. HIDE DEF n
    <3>. QED  BY <1>1, <1>2, <1>3, <2>1, WakesOne
  <2>3. CASE notified' = n /\ \A q \in Requests : n[q] # "waiting"
    BY <1>1, <1>4, <2>2, <2>3 DEF Passed
  <2>4. CASE \E h \in Requests : n[h] = "waiting" /\ notified' = [n EXCEPT ![h] = "woken"]
    <3>1. PICK h \in Requests : n[h] = "waiting" /\ notified' = [n EXCEPT ![h] = "woken"]
      BY <2>4
    <3>2. h # r /\ notified[h] = "waiting"
      BY <1>1, <3>1
    <3>3. notified' = [notified EXCEPT ![r] = "none", ![h] = "woken"]
      BY <1>1, <3>1
    <3>. QED  BY <1>4, <2>2, <3>2, <3>3 DEF Passed
  <2>. QED  BY <2>2, <2>3, <2>4
<1>5. CASE notified[r] # "woken"
  <2>1. permit' = permit /\ waiters' = Q /\ notified' = n
    BY <1>5 DEF drop_notified
  <2>. QED  BY <1>2, <1>3, <1>5, <2>1 DEF Passed
<1>. QED  BY <1>4, <1>5

LEMMA QueueInit == Init => QueueFits
<1>. SUFFICES ASSUME Init PROVE QueueFits
  OBVIOUS
<1>1. waiters = <<>> /\ notified = [r \in Requests |-> "none"] /\ permit = FALSE
  BY DEF Init
<1>2. Len(waiters) = 0
  BY <1>1
<1>. QED  BY <1>1, <1>2 DEF QueueFits, Queued

LEMMA QueueStep == TypeOK /\ StepsMatch /\ QueueFits /\ [Next]_vars => QueueFits'
<1>. SUFFICES ASSUME TypeOK, StepsMatch, QueueFits, [Next]_vars PROVE QueueFits'
  OBVIOUS
<1>0. /\ QueueFits /\ permit \in BOOLEAN /\ waiters \in Seq(Requests)
      /\ notified \in [Requests -> NotifyStates] /\ caller \in [Requests -> Callers]
      /\ \A q \in Requests : Legal(q)
  BY DEF TypeOK, StepsMatch, NotifyStates
<1>1. ASSUME NEW r \in Requests, pool_empty(r) PROVE QueueFits'
  <2>1. Passed(r) /\ Queued(waiters', notified') /\ (permit' => waiters' = <<>>)
    BY <1>1, Drops DEF pool_empty
  <2>2. \A q \in Requests \ {r} : caller'[q] = caller[q]
    BY <1>1, <1>0 DEF pool_empty, answer
  <2>3. \A q \in Requests : notified'[q] # "none" => q # r /\ notified[q] # "none"
    BY <1>0, <2>1 DEF Passed
  <2>. QED  BY <1>0, <2>1, <2>2, <2>3 DEF QueueFits
<1>2. ASSUME NEW r \in Requests, claim(r) PROVE QueueFits'
  <2>1. Passed(r) /\ Queued(waiters', notified') /\ (permit' => waiters' = <<>>)
    BY <1>2, Drops DEF claim
  <2>2. \A q \in Requests \ {r} : caller'[q] = caller[q]
    BY <1>2, <1>0 DEF claim, answer
  <2>3. \A q \in Requests : notified'[q] # "none" => q # r /\ notified[q] # "none"
    BY <1>0, <2>1 DEF Passed
  <2>. QED  BY <1>0, <2>1, <2>2, <2>3 DEF QueueFits
<1>3. ASSUME NEW r \in Requests, slot_busy(r) PROVE QueueFits'
  <2>1. UNCHANGED <<permit, waiters, notified>>
    BY <1>3 DEF slot_busy, notify
  <2>2. \A q \in Requests : caller[q] \in {"again", "parked"} => caller'[q] \in {"again", "parked"}
    BY <1>3, <1>0 DEF slot_busy
  <2>. QED  BY <1>0, <2>1, <2>2 DEF QueueFits
<1>4. ASSUME NEW r \in Requests, enable_notified(r) PROVE QueueFits'
  <2>1. notified[r] = "none"
    BY <1>4, <1>0 DEF enable_notified, QueueFits, NotifyStates
  <2>2. CASE permit
    <3>1. waiters' = waiters /\ permit' = FALSE /\ notified' = [notified EXCEPT ![r] = "taken"]
      BY <1>4, <2>2 DEF enable_notified, enable
    <3>2. Queued(waiters', notified')
      BY <1>0, <2>1, <3>1 DEF QueueFits, Queued
    <3>. QED  BY <1>4, <1>0, <3>1, <3>2 DEF QueueFits, enable_notified
  <2>3. CASE ~permit
    <3>1. /\ waiters' = Append(waiters, r) /\ permit' = permit
          /\ notified' = [notified EXCEPT ![r] = "waiting"]
      BY <1>4, <2>3 DEF enable_notified, enable
    <3>2. Queued(waiters', notified')
      BY <1>0, <2>1, <3>1, QueuedLast DEF QueueFits
    <3>. QED  BY <1>4, <1>0, <2>3, <3>1, <3>2 DEF QueueFits, enable_notified
  <2>. QED  BY <2>2, <2>3
<1>5. ASSUME NEW r \in Requests, woken_up(r) PROVE QueueFits'
  <2>1. notified' = [notified EXCEPT ![r] = "none"] /\ waiters' = waiters /\ permit' = permit
    BY <1>5 DEF woken_up
  <2>2. Queued(waiters', notified')
    BY <1>5, <1>0, <2>1 DEF QueueFits, Queued, woken_up
  <2>. QED  BY <1>5, <1>0, <2>1, <2>2 DEF QueueFits, woken_up
<1>6. ASSUME NEW r \in Requests, give_up(r) PROVE QueueFits'
  <2>1. Passed(r) /\ Queued(waiters', notified') /\ (permit' => waiters' = <<>>)
    BY <1>6, Drops DEF give_up
  <2>2. \A q \in Requests \ {r} : caller'[q] = caller[q]
    BY <1>6, <1>0 DEF give_up, answer
  <2>3. \A q \in Requests : notified'[q] # "none" => q # r /\ notified[q] # "none"
    BY <1>0, <2>1 DEF Passed
  <2>. QED  BY <1>0, <2>1, <2>2, <2>3 DEF QueueFits
<1>7. ASSUME NEW r \in Requests, arrive(r) PROVE QueueFits'
  <2>1. UNCHANGED <<permit, waiters, notified>>
    BY <1>7 DEF arrive, notify
  <2>2. \A q \in Requests : caller[q] \in {"again", "parked"} => caller'[q] \in {"again", "parked"}
    BY <1>7, <1>0 DEF arrive
  <2>. QED  BY <1>0, <2>1, <2>2 DEF QueueFits
<1>8. ASSUME NEW r \in Requests, serialise_fails(r) PROVE QueueFits'
  <2>1. UNCHANGED <<permit, waiters, notified>>
    BY <1>8 DEF serialise_fails, notify
  <2>2. \A q \in Requests : caller[q] \in {"again", "parked"} => caller'[q] \in {"again", "parked"}
    BY <1>8, <1>0 DEF serialise_fails, answer
  <2>. QED  BY <1>0, <2>1, <2>2 DEF QueueFits
<1>9. ASSUME NEW r \in Requests, poll_call(r) PROVE QueueFits'
  <2>1. UNCHANGED <<permit, waiters, notified>>
    BY <1>9 DEF poll_call, notify
  <2>2. \A q \in Requests : caller[q] \in {"again", "parked"} => caller'[q] \in {"again", "parked"}
    BY <1>9, <1>0 DEF poll_call, answer, Legal
  <2>. QED  BY <1>0, <2>1, <2>2 DEF QueueFits
<1>10. ASSUME NEW r \in Requests, poll_deadline(r) PROVE QueueFits'
  <2>1. UNCHANGED <<permit, waiters, notified>>
    BY <1>10 DEF poll_deadline, notify
  <2>2. \A q \in Requests : caller[q] \in {"again", "parked"} => caller'[q] \in {"again", "parked"}
    BY <1>10, <1>0 DEF poll_deadline, detach, answer, Legal
  <2>. QED  BY <1>0, <2>1, <2>2 DEF QueueFits
<1>11. ASSUME NEW r \in Requests, drop_notify(r) PROVE QueueFits'
  <2>1. /\ Queued(waiters', notified') /\ (permit' => waiters' = <<>>)
        /\ \/ notified' = notified
           \/ \E h \in Requests : notified[h] = "waiting" /\ notified' = [notified EXCEPT ![h] = "woken"]
    BY <1>11, <1>0, WakesOne DEF drop_notify, QueueFits
  <2>2. caller' = caller
    BY <1>11 DEF drop_notify
  <2>3. \A q \in Requests : notified'[q] # "none" => notified[q] # "none"
    BY <1>0, <2>1
  <2>. QED  BY <1>0, <2>1, <2>2, <2>3 DEF QueueFits
<1>12. ASSUME NEW r \in Requests, disconnect(r) PROVE QueueFits'
  <2>1. UNCHANGED <<permit, waiters, notified>>
    BY <1>12 DEF disconnect, notify
  <2>2. \A q \in Requests : caller[q] \in {"again", "parked"} => caller'[q] \in {"again", "parked"}
    BY <1>12, <1>0 DEF disconnect, detach, answer
  <2>. QED  BY <1>0, <2>1, <2>2 DEF QueueFits
<1>13. ASSUME NEW r \in Requests,
             \/ dispatch_call(r)
             \/ detached_settles(r)
             \/ drop_clear(r)
             \/ drop_free(r)
             \/ plan_in_call(r)
             \/ resolve(r)
             \/ abandoned(r)
             \/ take_fetch_body(r)
             \/ pull_fetch_body(r)
      PROVE  QueueFits'
  <2>1. UNCHANGED <<permit, waiters, notified, caller>>
    BY <1>13 DEF dispatch_call, detached_settles, drop_clear, drop_free, plan_in_call, resolve, abandoned, take_fetch_body, pull_fetch_body, notify
  <2>. QED  BY <2>1, <1>0 DEF QueueFits, Queued
<1>14. ASSUME register \/ (\E w \in Workers : worker_dies(w)) \/ Tick \/ sweep_tick \/ (\E s \in Slots : sweep_take(s)) \/ sweep_wake \/ UNCHANGED vars
      PROVE  QueueFits'
  <2>1. UNCHANGED <<permit, waiters, notified, caller>>
    BY <1>14 DEF register, worker_dies, Tick, sweep_tick, sweep_take, sweep_wake, vars, notify
  <2>. QED  BY <2>1, <1>0 DEF QueueFits, Queued
<1>. QED  BY <1>1, <1>2, <1>3, <1>4, <1>5, <1>6, <1>7, <1>8, <1>9, <1>10, <1>11, <1>12, <1>13, <1>14 DEF Next, Task, Client, Javascript, Sweeper, Finished

LEMMA UsedInit == Init => UsedKnown
  BY DEF Init, UsedKnown

(* Taking a worker out of the list takes no other one out.                 *)
LEMMA OthersStay ==
    ASSUME NEW S, NEW s \in Seq(S), NEW e, NEW i \in 1..Len(s), s[i] # e
    PROVE  \E j \in 1..Len(RemoveFirst(s, e)) : RemoveFirst(s, e)[j] = s[i]
<1>1. CASE RemoveFirst(s, e) = s
  BY <1>1
<1>2. CASE \E k \in 1..Len(s) : s[k] = e /\ RemoveFirst(s, e) = RemoveAt(s, k)
  <2>1. PICK k \in 1..Len(s) : s[k] = e /\ RemoveFirst(s, e) = RemoveAt(s, k)
    BY <1>2
  <2>. DEFINE R == RemoveAt(s, k)
  <2>2. TakenOut(s, k, R)
    BY TakesOut
  <2>. HIDE DEF R
  <2>4. CASE i > k
    <3>1. i - 1 \in 1..Len(R) /\ R[i - 1] = s[i]
      BY <2>2, <2>4 DEF TakenOut
    <3>. QED  BY <2>1, <3>1 DEF R
  <2>5. i # k
    BY <2>1
  <2>6. CASE i < k
    <3>1. i \in 1..Len(R) /\ R[i] = s[i]
      BY <2>2, <2>6 DEF TakenOut
    <3>. QED  BY <2>1, <3>1 DEF R
  <2>. QED  BY <2>4, <2>5, <2>6
<1>. QED  BY <1>1, <1>2, RemovedFirst

LEMMA NoneAppears ==
    ASSUME NEW S, NEW s \in Seq(S), NEW e, NEW j \in 1..Len(RemoveFirst(s, e))
    PROVE  \E i \in 1..Len(s) : s[i] = RemoveFirst(s, e)[j]
<1>1. CASE RemoveFirst(s, e) = s
  BY <1>1
<1>2. CASE \E k \in 1..Len(s) : s[k] = e /\ RemoveFirst(s, e) = RemoveAt(s, k)
  <2>1. PICK k \in 1..Len(s) : s[k] = e /\ RemoveFirst(s, e) = RemoveAt(s, k)
    BY <1>2
  <2>. DEFINE R == RemoveAt(s, k)
  <2>2. R = RemoveFirst(s, e) /\ j \in 1..Len(R)
    BY <2>1
  <2>3. TakenOut(s, k, R)
    BY TakesOut
  <2>. HIDE DEF R
  <2>4. \E i \in 1..Len(s) : s[i] = R[j]
    BY <2>2, <2>3 DEF TakenOut
  <2>. QED  BY <2>2, <2>4
<1>. QED  BY <1>1, <1>2, RemovedFirst

(* Who is in the list after the call of a dead worker has removed it.      *)
LEMMA FinishRemoves ==
    ASSUME TypeOK, NEW r \in Requests, finish(r)
    PROVE  /\ \A w : Registered(w)' => Registered(w)
           /\ \A w : Registered(w) => Registered(w)' \/ (js[r] = "unqueued" /\ w = slot[r][1])
<1>1. CASE entries' = entries
  BY <1>1 DEF Registered
<1>2. CASE js[r] = "unqueued" /\ entries' = RemoveFirst(entries, slot[r][1])
  <2>1. entries \in Seq(Workers) /\ entries' \in Seq(Workers)
    BY <1>2, Removals DEF TypeOK
  <2>2. DOMAIN entries = 1..Len(entries) /\ DOMAIN entries' = 1..Len(entries')
    BY <2>1
  <2>3. ASSUME NEW w, Registered(w)' PROVE Registered(w)
    <3>1. PICK j \in 1..Len(entries') : entries'[j] = w
      BY <2>2, <2>3 DEF Registered
    <3>2. \E i \in 1..Len(entries) : entries[i] = w
      BY <1>2, <2>1, <3>1, NoneAppears
    <3>. QED  BY <2>2, <3>2 DEF Registered
  <2>4. \A w : Registered(w) /\ w # slot[r][1] => Registered(w)'
    BY <1>2, <2>1, <2>2, OthersStay DEF Registered
  <2>. QED  BY <1>2, <2>3, <2>4
<1>. QED  BY <1>1, <1>2 DEF finish

LEMMA UsedStep == TypeOK /\ StepsMatch /\ UsedKnown /\ [Next]_vars => UsedKnown'
<1>. SUFFICES ASSUME TypeOK, StepsMatch, UsedKnown, [Next]_vars PROVE UsedKnown'
  OBVIOUS
<1>0. UsedKnown /\ StepTypes /\ \A q \in Requests : Legal(q)
  BY DEF TypeOK, StepsMatch, StepTypes
<1>1. ASSUME register PROVE UsedKnown'
  <2>1. \A w : Registered(w) => Registered(w)'
    <3>1. PICK w \in Workers : entries' = Append(entries, w)
      BY <1>1 DEF register
    <3>2. /\ DOMAIN entries = 1..Len(entries) /\ DOMAIN entries' = 1..(Len(entries) + 1)
          /\ Len(entries) \in Nat /\ \A i \in 1..Len(entries) : entries'[i] = entries[i]
      BY <3>1, AppendProperties DEF TypeOK
    <3>. QED  BY <3>2 DEF Registered
  <2>. QED  BY <1>1, <1>0, <2>1 DEF register, UsedKnown
<1>2. ASSUME NEW r \in Requests, claim(r) PROVE UsedKnown'
  <2>1. PICK i \in 1..Len(ScanOrder) : used' = used \cup {ScanOrder[i]} /\ slot' = [slot EXCEPT ![r] = ScanOrder[i]]
    BY <1>2, ClaimedIsSlot
  <2>2. Registered(ScanOrder[i][1])
    BY <2>1, ScannedRegistered
  <2>3. js[r] # "unqueued"
    BY <1>2, <1>0 DEF claim, Legal
  <2>. QED  BY <1>2, <1>0, <2>1, <2>2, <2>3 DEF claim, pool, UsedKnown, Registered, StepTypes
<1>3. ASSUME NEW r \in Requests, dispatch_call(r) PROVE UsedKnown'
  <2>1. slot[r] \in Slots
    BY <1>3, <1>0 DEF dispatch_call, Legal, Holds
  <2>. QED  BY <1>3, <1>0, <2>1 DEF dispatch_call, pool, UsedKnown, Registered, StepTypes
<1>4. ASSUME NEW r \in Requests, poll_call(r) PROVE UsedKnown'
  <2>1. dead' = dead /\ used' = used /\ js' = js /\ slot' = slot
    BY <1>4 DEF poll_call
  <2>2. CASE finish(r)
    BY <1>0, <2>1, <2>2, FinishRemoves DEF UsedKnown
  <2>3. CASE entries' = entries
    BY <1>0, <2>1, <2>3 DEF UsedKnown, Registered
  <2>. QED  BY <1>4, <2>2, <2>3 DEF poll_call
<1>5. ASSUME NEW r \in Requests, detached_settles(r) PROVE UsedKnown'
  <2>1. dead' = dead /\ used' = used /\ js' = js /\ slot' = slot
    BY <1>5 DEF detached_settles
  <2>2. CASE finish(r)
    BY <1>0, <2>1, <2>2, FinishRemoves DEF UsedKnown
  <2>. QED  BY <1>5, <2>2 DEF detached_settles
<1>6. ASSUME NEW r \in Requests, drop_notify(r) PROVE UsedKnown'
  BY <1>6, <1>0 DEF drop_notify, pool, UsedKnown, Registered, StepTypes
<1>7. ASSUME NEW r \in Requests, plan_in_call(r) PROVE UsedKnown'
  BY <1>7, <1>0 DEF plan_in_call, pool, UsedKnown, Registered, StepTypes
<1>8. ASSUME NEW r \in Requests, resolve(r) PROVE UsedKnown'
  BY <1>8, <1>0 DEF resolve, pool, UsedKnown, Registered, StepTypes
<1>9. ASSUME NEW r \in Requests, abandoned(r) PROVE UsedKnown'
  <2>1. slot[r] \in Slots
    BY <1>9, <1>0 DEF abandoned, Legal, Holds, JsActive
  <2>. QED  BY <1>9, <1>0, <2>1, NamesAssumption DEF abandoned, Alive, pool, UsedKnown, Registered, StepTypes
<1>10. ASSUME NEW w \in Workers, worker_dies(w) PROVE UsedKnown'
  BY <1>10, <1>0 DEF worker_dies, UsedKnown, Registered
<1>11. ASSUME NEW r \in Requests,
             \/ pool_empty(r)
             \/ slot_busy(r)
             \/ enable_notified(r)
             \/ woken_up(r)
             \/ give_up(r)
             \/ arrive(r)
             \/ serialise_fails(r)
             \/ poll_deadline(r)
             \/ drop_clear(r)
             \/ drop_free(r)
             \/ disconnect(r)
             \/ take_fetch_body(r)
             \/ pull_fetch_body(r)
      PROVE  UsedKnown'
  <2>1. UNCHANGED <<entries, dead, used, slot, js>>
    BY <1>11 DEF pool_empty, slot_busy, enable_notified, woken_up, give_up, arrive, serialise_fails, poll_deadline, drop_clear, drop_free, disconnect, take_fetch_body, pull_fetch_body, pool
  <2>. QED  BY <2>1, <1>0 DEF UsedKnown, Registered
<1>12. ASSUME Tick \/ sweep_tick \/ (\E s \in Slots : sweep_take(s)) \/ sweep_wake \/ UNCHANGED vars
      PROVE  UsedKnown'
  <2>1. UNCHANGED <<entries, dead, used, slot, js>>
    BY <1>12 DEF Tick, sweep_tick, sweep_take, sweep_wake, vars, pool
  <2>. QED  BY <2>1, <1>0 DEF UsedKnown, Registered
<1>. QED  BY <1>1, <1>2, <1>3, <1>4, <1>5, <1>6, <1>7, <1>8, <1>9, <1>10, <1>11, <1>12 DEF Next, Task, Client, Javascript, Sweeper, Finished

LEMMA CoverNone == ASSUME NEW q \in Requests, Needs(q)' = {} PROVE Covered(q)'
<1>1. [s \in Slots |-> <<q, "look">>] \in [Slots -> Tokens]
  BY DEF Tokens
<1>. QED  BY <1>1 DEF Covered, Covers

(* A step that hands one errand over to somebody who had none.             *)
LEMMA CoverMoves ==
    ASSUME NEW q \in Requests, NEW N, NEW f \in [Slots -> Tokens], Covers(f, N),
           Needs(q)' \subseteq N, N \subseteq Slots, NEW t \in Tokens, NEW u \in Tokens,
           \A s \in Needs(q)' : f[s] # t => Carries(f[s], s)',
           \A s \in Needs(q)' : f[s] = t => Carries(u, s)',
           t = u \/ \A s \in Needs(q)' : f[s] # u
    PROVE  Covered(q)'
<1>. DEFINE g == [s \in Slots |-> IF f[s] = t THEN u ELSE f[s]]
<1>1. g \in [Slots -> Tokens]
  OBVIOUS
<1>2. \A s \in Needs(q)' : g[s] = IF f[s] = t THEN u ELSE f[s]
  OBVIOUS
<1>. HIDE DEF g
<1>3. \A s \in Needs(q)' : Carries(g[s], s)'
  BY <1>2
<1>4. \A s, x \in Needs(q)' : g[s] = g[x] => s = x
  BY <1>2 DEF Covers
<1>5. Covers(g, Needs(q))'
  BY <1>3, <1>4 DEF Covers
<1>. QED  BY <1>1, <1>5 DEF Covered

(* A step that takes nobody off the way.                                   *)
LEMMA CoverKept ==
    ASSUME NEW q \in Requests, Covered(q), Needs(q)' \subseteq Needs(q),
           \A r \in Requests : notified[r] = "woken" => notified'[r] = "woken",
           \A r \in Requests, s \in Needs(q)' : Looks(r, s) => Looks(r, s)'
    PROVE  Covered(q)'
<1>1. PICK f \in [Slots -> Tokens] : Covers(f, Needs(q))
  BY DEF Covered
<1>2. \A s \in Needs(q)' : Carries(f[s], s) /\ f[s] \in Tokens
  BY <1>1 DEF Covers, Needs
<1>3. \A s \in Needs(q)' : Carries(f[s], s)'
  BY <1>2 DEF Carries, Tokens
<1>4. Covers(f, Needs(q))'
  BY <1>1, <1>3 DEF Covers
<1>. QED  BY <1>1, <1>4 DEF Covered

LEMMA CoverQuiet ==
    ASSUME NEW q \in Requests, Covered(q), caller[q] \in {"again", "parked"},
           UNCHANGED <<entries, idle, used, pos, notified>>,
           \A r \in Requests :
              /\ caller[r] \in {"scan", "enable", "again", "parked"} => caller'[r] = caller[r]
              /\ call[r] = "notify" => call'[r] = "notify"
    PROVE  Covered(q)'
<1>1. \A r, s : Ahead(r, s)' <=> Ahead(r, s)
  BY ScanKept DEF Ahead
<1>2. \A s : Usable(s)' <=> Usable(s)
  BY DEF Usable, Registered
<1>3. Needs(q)' \subseteq Needs(q)
  BY <1>1, <1>2 DEF Needs
<1>4. \A r \in Requests : \A s : Looks(r, s) => Looks(r, s)'
  BY <1>1 DEF Looks
<1>. QED  BY <1>3, <1>4, CoverKept

(* The list changes only while nobody scans it.                            *)
LEMMA CoverUnlocked ==
    ASSUME NEW q \in Requests, Covered(q), caller[q] \in {"again", "parked"}, Unlocked,
           UNCHANGED <<idle, used, pos, notified>>,
           \A s \in used : Registered(s[1])' => Registered(s[1]),
           \A r \in Requests :
              /\ caller[r] \in {"enable", "parked"} => caller'[r] = caller[r]
              /\ call[r] = "notify" => call'[r] = "notify"
    PROVE  Covered(q)'
<1>1. \A r \in Requests : caller[r] \notin {"scan", "again"}
  BY DEF Unlocked
<1>2. \A s : Usable(s)' => Usable(s)
  BY DEF Usable
<1>3. Needs(q)' \subseteq Needs(q)
  BY <1>1, <1>2 DEF Needs
<1>4. \A r \in Requests : \A s : Looks(r, s) => Looks(r, s)'
  BY <1>1 DEF Looks
<1>. QED  BY <1>3, <1>4, CoverKept

WakeInv ==
  TypeOK /\ StepsMatch /\ Leased /\ QueueFits /\ UsedKnown /\ ListFits /\ WakesMatch

(* The end of an errand: what Passed makes of the wake of r, for the       *)
(* requests that go on waiting.                                            *)
LEMMA PassedOn ==
    ASSUME WakeInv, NEW r \in Requests, NEW q \in Requests, notified'[q] = "waiting", Passed(r)
    PROVE  /\ q # r /\ notified[q] = "waiting"
           /\ \/ /\ notified[r] # "woken"
                 /\ \A x \in Requests : notified[x] = "woken" => notified'[x] = "woken"
              \/ \E h \in Requests \ {r} :
                    /\ notified[h] = "waiting" /\ notified'[h] = "woken"
                    /\ \A x \in Requests \ {r} : notified[x] = "woken" => notified'[x] = "woken"
<1>1. notified \in [Requests -> NotifyStates]
  BY DEF WakeInv, TypeOK, NotifyStates
<1>. QED  BY <1>1 DEF Passed

(* A request that gives up, or leaves with its claim, while q waits.       *)
LEMMA CoverPassed ==
    ASSUME WakeInv, NEW r \in Requests, NEW q \in Requests, notified'[q] = "waiting", Passed(r),
           NEW N, NEW f \in [Slots -> Tokens], Covers(f, N), Needs(q)' \subseteq N, N \subseteq Slots,
           \A s \in N : f[s] # <<r, "look">>,
           \A x \in Requests \ {r}, s \in Needs(q)' : Looks(x, s) => Looks(x, s)'
    PROVE  Covered(q)'
<1>1. \A s \in Needs(q)' : Carries(f[s], s) /\ f[s] \in Tokens /\ f[s] # <<r, "look">>
  BY DEF Covers
<1>2. ASSUME NEW s \in Needs(q)', f[s][2] = "look" PROVE Carries(f[s], s)'
  <2>1. f[s] = <<f[s][1], "look">> /\ f[s][1] \in Requests \ {r} /\ Looks(f[s][1], s)
    BY <1>1, <1>2 DEF Carries, Tokens
  <2>. QED  BY <1>2, <2>1 DEF Carries
<1>3. \A s \in Needs(q)' : f[s][2] # "look" => f[s] = <<f[s][1], "wake">> /\ f[s][1] \in Requests
                                              /\ notified[f[s][1]] = "woken"
  BY <1>1 DEF Carries, Tokens
<1>4. CASE /\ notified[r] # "woken"
           /\ \A x \in Requests : notified[x] = "woken" => notified'[x] = "woken"
  <2>1. \A s \in Needs(q)' : Carries(f[s], s)'
    BY <1>2, <1>3, <1>4 DEF Carries
  <2>2. <<q, "look">> \in Tokens
    BY DEF Tokens
  <2>. QED  BY <2>1, <2>2, CoverMoves
<1>5. CASE \E h \in Requests \ {r} :
             /\ notified[h] = "waiting" /\ notified'[h] = "woken"
             /\ \A x \in Requests \ {r} : notified[x] = "woken" => notified'[x] = "woken"
  <2>1. PICK h \in Requests \ {r} :
             /\ notified[h] = "waiting" /\ notified'[h] = "woken"
             /\ \A x \in Requests \ {r} : notified[x] = "woken" => notified'[x] = "woken"
    BY <1>5
  <2>2. <<r, "wake">> \in Tokens /\ <<h, "wake">> \in Tokens
    BY DEF Tokens
  <2>3. \A s \in Needs(q)' : f[s] # <<h, "wake">>
    BY <1>1, <2>1 DEF Carries
  <2>4. \A s \in Needs(q)' : Carries(<<h, "wake">>, s)'
    BY <2>1 DEF Carries
  <2>5. ASSUME NEW s \in Needs(q)', f[s] # <<r, "wake">> PROVE Carries(f[s], s)'
    <3>1. CASE f[s][2] = "look"
      BY <1>2, <3>1
    <3>2. CASE f[s][2] # "look"
      BY <1>3, <2>1, <2>5, <3>2 DEF Carries
    <3>. QED  BY <3>1, <3>2
  <2>. QED  BY <2>2, <2>3, <2>4, <2>5, CoverMoves
<1>. QED  BY <1>4, <1>5, PassedOn

LEMMA DivParts ==
    ASSUME NEW n \in Nat \ {0}, NEW m \in Nat
    PROVE  m \div n \in Nat /\ m % n \in 0..(n - 1) /\ m = (m \div n) * n + (m % n)
  OBVIOUS

LEMMA DivShift ==
    ASSUME NEW n \in Nat \ {0}, NEW m \in Nat
    PROVE  (m + n) \div n = (m \div n) + 1 /\ (m + n) % n = m % n
<1>. DEFINE a == m \div n
            b == m % n
<1>1. a \in Nat /\ b \in 0..(n - 1) /\ m = a * n + b
  BY DivParts
<1>. HIDE DEF a, b
<1>2. m + n = (a + 1) * n + b /\ a + 1 \in Nat
  BY <1>1
<1>3. (m + n) \div n = a + 1 /\ (m + n) % n = b
  BY <1>1, <1>2, DivMod
<1>. QED  BY <1>3 DEF a, b

LEMMA DivBound ==
    ASSUME NEW n \in Nat \ {0}, NEW m \in Nat, NEW c \in Nat
    PROVE  m \div n < c <=> m < c * n
<1>. DEFINE a == m \div n
            b == m % n
<1>1. a \in Nat /\ b \in 0..(n - 1) /\ m = a * n + b
  BY DivParts
<1>. HIDE DEF a, b
<1>2. CASE a < c
  <2>1. c * n = a * n + (c - a) * n /\ c - a >= 1 /\ c - a \in Nat
    BY <1>1, <1>2
  <2>2. (c - a) * n >= n
    BY <2>1
  <2>3. a * n \in Nat
    BY <1>1
  <2>4. m < c * n
    BY <1>1, <2>1, <2>2, <2>3
  <2>. QED  BY <1>2, <2>4 DEF a
<1>3. CASE a >= c
  <2>1. a * n = c * n + (a - c) * n /\ a - c \in Nat
    BY <1>1, <1>3
  <2>2. (a - c) * n >= 0 /\ c * n \in Nat /\ a * n \in Nat
    BY <2>1, <1>1
  <2>3. ~(m < c * n)
    BY <1>1, <2>1, <2>2
  <2>. QED  BY <1>1, <1>3, <2>3 DEF a
<1>. QED  BY <1>1, <1>2, <1>3

ScanPlaced ==
  /\ Len(ScanOrder) = Len(entries) * SLOT_COUNT
  /\ \A i \in 1..Len(ScanOrder) :
        /\ (i - 1) \div SLOT_COUNT + 1 \in 1..Len(entries)
        /\ ScanOrder[i] = <<entries[(i - 1) \div SLOT_COUNT + 1], ((i - 1) % SLOT_COUNT) + 1>>

LEMMA ScanPlaces == TypeOK => ScanPlaced
<1>. SUFFICES ASSUME TypeOK PROVE ScanPlaced
  OBVIOUS
<1>1. Len(entries) \in Nat /\ SLOT_COUNT \in Nat \ {0}
  BY SizesAssumption DEF TypeOK
<1>2. Len(entries) * SLOT_COUNT \in Nat
  BY <1>1
<1>3. Len(ScanOrder) = Len(entries) * SLOT_COUNT
  BY <1>2 DEF ScanOrder
<1>4. \A i \in 1..Len(ScanOrder) : (i - 1) \div SLOT_COUNT + 1 \in 1..Len(entries)
  BY <1>1, <1>2, <1>3
<1>. QED  BY <1>2, <1>3, <1>4 DEF ScanOrder, ScanPlaced

LEMMA ScanPlacesNext == TypeOK' => ScanPlaced'
  BY ScanPlaces, PTL

(* A scan tries no slot twice.                                             *)
LEMMA ScanOnce ==
    ASSUME TypeOK, \A i, j \in 1..Len(entries) : entries[i] = entries[j] => i = j,
           NEW i \in 1..Len(ScanOrder), NEW j \in 1..Len(ScanOrder), ScanOrder[i] = ScanOrder[j]
    PROVE  i = j
<1>1. Len(ScanOrder) \in Nat /\ SLOT_COUNT \in Nat \ {0}
  BY ScannedSlots, SizesAssumption
<1>2. /\ (i - 1) \div SLOT_COUNT + 1 = (j - 1) \div SLOT_COUNT + 1
      /\ ((i - 1) % SLOT_COUNT) + 1 = ((j - 1) % SLOT_COUNT) + 1
  <2>1. /\ ScanOrder[i] = <<entries[(i - 1) \div SLOT_COUNT + 1], ((i - 1) % SLOT_COUNT) + 1>>
        /\ ScanOrder[j] = <<entries[(j - 1) \div SLOT_COUNT + 1], ((j - 1) % SLOT_COUNT) + 1>>
        /\ (i - 1) \div SLOT_COUNT + 1 \in 1..Len(entries)
        /\ (j - 1) \div SLOT_COUNT + 1 \in 1..Len(entries)
    BY ScanPlaces DEF ScanPlaced
  <2>2. /\ entries[(i - 1) \div SLOT_COUNT + 1] = entries[(j - 1) \div SLOT_COUNT + 1]
        /\ ((i - 1) % SLOT_COUNT) + 1 = ((j - 1) % SLOT_COUNT) + 1
    <3>. DEFINE a == entries[(i - 1) \div SLOT_COUNT + 1]
                b == ((i - 1) % SLOT_COUNT) + 1
                c == entries[(j - 1) \div SLOT_COUNT + 1]
                d == ((j - 1) % SLOT_COUNT) + 1
    <3>1. <<a, b>> = <<c, d>>
      BY <2>1
    <3>. HIDE DEF a, b, c, d
    <3>2. a = c /\ b = d
      BY <3>1
    <3>. QED  BY <3>2 DEF a, b, c, d
  <2>. QED  BY <2>1, <2>2
<1>3. i - 1 \in Nat /\ j - 1 \in Nat
  BY <1>1
<1>4. (i - 1) \div SLOT_COUNT = (j - 1) \div SLOT_COUNT /\ (i - 1) % SLOT_COUNT = (j - 1) % SLOT_COUNT
  <2>1. /\ (i - 1) \div SLOT_COUNT \in Nat /\ (j - 1) \div SLOT_COUNT \in Nat
        /\ (i - 1) % SLOT_COUNT \in 0..(SLOT_COUNT - 1) /\ (j - 1) % SLOT_COUNT \in 0..(SLOT_COUNT - 1)
    BY <1>1, <1>3, DivParts
  <2>. QED  BY <1>1, <1>2, <2>1
<1>5. i - 1 = j - 1
  BY <1>1, <1>3, <1>4, DivParts
<1>. QED  BY <1>1, <1>5

(* A new worker's slots come last; those of a removed one drop out.        *)
LEMMA ScanGrows ==
    ASSUME TypeOK, TypeOK', NEW w, entries' = Append(entries, w)
    PROVE  /\ Len(ScanOrder) <= Len(ScanOrder')
           /\ \A i \in 1..Len(ScanOrder) : ScanOrder'[i] = ScanOrder[i]
           /\ \A i \in 1..Len(ScanOrder') : i > Len(ScanOrder) => ScanOrder'[i][1] = w
<1>1. /\ Len(entries) \in Nat /\ SLOT_COUNT \in Nat \ {0} /\ Len(entries') = Len(entries) + 1
      /\ entries'[Len(entries) + 1] = w
      /\ \A i \in 1..Len(entries) : entries'[i] = entries[i]
  BY SizesAssumption, AppendProperties DEF TypeOK
<1>2. /\ Len(ScanOrder) \in Nat /\ Len(ScanOrder) = Len(entries) * SLOT_COUNT
      /\ Len(ScanOrder') = Len(ScanOrder) + SLOT_COUNT
  <2>1. Len(ScanOrder) = Len(entries) * SLOT_COUNT /\ Len(ScanOrder') = (Len(entries) + 1) * SLOT_COUNT
    BY <1>1, ScanPlaces, ScanPlacesNext DEF ScanPlaced
  <2>. QED  BY <1>1, <2>1
<1>3. ASSUME NEW i \in 1..Len(ScanOrder) PROVE ScanOrder'[i] = ScanOrder[i]
  <2>1. i \in 1..Len(ScanOrder')
    BY <1>1, <1>2
  <2>2. /\ (i - 1) \div SLOT_COUNT + 1 \in 1..Len(entries)
        /\ ScanOrder[i] = <<entries[(i - 1) \div SLOT_COUNT + 1], ((i - 1) % SLOT_COUNT) + 1>>
    BY ScanPlaces DEF ScanPlaced
  <2>3. ScanOrder'[i] = <<entries'[(i - 1) \div SLOT_COUNT + 1], ((i - 1) % SLOT_COUNT) + 1>>
    BY <2>1, ScanPlacesNext DEF ScanPlaced
  <2>. QED  BY <1>1, <2>2, <2>3
<1>4. ASSUME NEW i \in 1..Len(ScanOrder'), i > Len(ScanOrder) PROVE ScanOrder'[i][1] = w
  <2>1. i - 1 \in Nat /\ ~(i - 1 < Len(entries) * SLOT_COUNT)
    BY <1>1, <1>2, <1>4
  <2>2. ~((i - 1) \div SLOT_COUNT < Len(entries))
    BY <1>1, <2>1, DivBound
  <2>3. (i - 1) \div SLOT_COUNT + 1 \in 1..(Len(entries) + 1) /\ (i - 1) \div SLOT_COUNT \in Nat
    BY <1>1, <2>1, ScanPlacesNext, DivParts DEF ScanPlaced
  <2>4. (i - 1) \div SLOT_COUNT + 1 = Len(entries) + 1
    BY <1>1, <2>2, <2>3
  <2>. QED  BY <1>1, <2>4, ScanPlacesNext DEF ScanPlaced
<1>. QED  BY <1>1, <1>2, <1>3, <1>4

LEMMA ScanShrinks ==
    ASSUME TypeOK, TypeOK', NEW k \in 1..Len(entries), entries' = RemoveAt(entries, k),
           NEW i \in 1..Len(ScanOrder')
    PROVE  LET j == IF i <= (k - 1) * SLOT_COUNT THEN i ELSE i + SLOT_COUNT
           IN  j \in 1..Len(ScanOrder) /\ ScanOrder'[i] = ScanOrder[j]
<1>1. /\ Len(entries) \in Nat /\ SLOT_COUNT \in Nat \ {0} /\ Len(entries') = Len(entries) - 1
      /\ \A x \in 1..(Len(entries) - 1) : entries'[x] = IF x < k THEN entries[x] ELSE entries[x + 1]
  <2>1. TakenOut(entries, k, entries')
    BY TakesOut DEF TypeOK
  <2>. QED  BY <2>1, SizesAssumption DEF TakenOut
<1>2. /\ Len(ScanOrder) \in Nat /\ Len(ScanOrder) = Len(ScanOrder') + SLOT_COUNT
      /\ Len(ScanOrder') \in Nat
  <2>1. Len(ScanOrder) = Len(entries) * SLOT_COUNT /\ Len(ScanOrder') = (Len(entries) - 1) * SLOT_COUNT
    BY <1>1, ScanPlaces, ScanPlacesNext DEF ScanPlaced
  <2>2. Len(entries) - 1 \in Nat
    BY <1>1
  <2>. QED  BY <1>1, <2>1, <2>2
<1>. DEFINE d == (i - 1) \div SLOT_COUNT
            b == (i - 1) % SLOT_COUNT
<1>3. /\ i - 1 \in Nat /\ d \in Nat /\ k - 1 \in Nat /\ d + 1 \in 1..(Len(entries) - 1)
      /\ ScanOrder'[i] = <<entries'[d + 1], b + 1>>
  BY <1>1, <1>2, DivParts, ScanPlacesNext DEF ScanPlaced
<1>4. d < k - 1 <=> i - 1 < (k - 1) * SLOT_COUNT
  BY <1>1, <1>3, DivBound
<1>5. (k - 1) * SLOT_COUNT \in Nat
  BY <1>1, <1>3
<1>6. CASE i <= (k - 1) * SLOT_COUNT
  <2>1. d + 1 < k
    BY <1>3, <1>4, <1>5, <1>6
  <2>2. i \in 1..Len(ScanOrder) /\ ScanOrder[i] = <<entries[d + 1], b + 1>>
    BY <1>2, <1>1, ScanPlaces DEF ScanPlaced
  <2>. QED  BY <1>1, <1>3, <1>6, <2>1, <2>2
<1>7. CASE ~(i <= (k - 1) * SLOT_COUNT)
  <2>1. ~(d + 1 < k)
    BY <1>3, <1>4, <1>5, <1>7
  <2>2. i + SLOT_COUNT \in 1..Len(ScanOrder) /\ (i + SLOT_COUNT) - 1 = (i - 1) + SLOT_COUNT
    BY <1>1, <1>2
  <2>3. /\ ((i + SLOT_COUNT) - 1) \div SLOT_COUNT = d + 1
        /\ ((i + SLOT_COUNT) - 1) % SLOT_COUNT = b
    BY <1>1, <1>3, <2>2, DivShift
  <2>4. ScanOrder[i + SLOT_COUNT] = <<entries[d + 1 + 1], b + 1>>
    BY <2>2, <2>3, ScanPlaces DEF ScanPlaced
  <2>. QED  BY <1>1, <1>3, <1>7, <2>1, <2>2, <2>4
<1>. QED  BY <1>6, <1>7

LEMMA ScanSize == TypeOK => Len(ScanOrder) \in Nat
  BY ScannedSlots

LEMMA ScanSizeNext == TypeOK' => Len(ScanOrder') \in Nat
<1>. SUFFICES ASSUME TypeOK' PROVE Len(ScanOrder') \in Nat
  OBVIOUS
<1>1. Len(ScanOrder') = Len(entries') * SLOT_COUNT
  BY ScanPlacesNext DEF ScanPlaced
<1>2. Len(entries') \in Nat /\ SLOT_COUNT \in Nat
  BY SizesAssumption DEF TypeOK
<1>. QED  BY <1>1, <1>2

LEMMA ListInit == Init => ListFits
<1>. SUFFICES ASSUME Init PROVE ListFits
  OBVIOUS
<1>1. PICK n \in 0..WORKERS : entries = [i \in 1..n |-> i]
  BY DEF Init
<1>2. Len(entries) = n /\ \A i \in 1..n : entries[i] = i
  BY <1>1, SizesAssumption
<1>3. used = {} /\ (\A r \in Requests : pos[r] = 1) /\ (\A s \in Slots : idle[s])
  BY DEF Init
<1>4. \A i \in 1..Len(ScanOrder) : ~(i < 1)
  <2>1. TypeOK
    BY TypeInit
  <2>. QED  BY <2>1, ScannedSlots
<1>. QED  BY <1>2, <1>3, <1>4 DEF ListFits

(* A step that leaves the list alone and passes no unclaimed slot.         *)
LEMMA ListKept ==
    ASSUME ListFits, entries' = entries, used' = used,
           \A s \in Slots : idle'[s] \/ ~idle[s],
           \A r \in Requests, i \in 1..Len(ScanOrder) :
              i < pos'[r] => i < pos[r] \/ ScanOrder[i] \in used
    PROVE  ListFits'
<1>1. ScanOrder' = ScanOrder
  BY ScanKept
<1>. QED  BY <1>1 DEF ListFits

LEMMA ListRegister == ASSUME TypeOK, TypeOK', StepsMatch, UsedKnown, ListFits, register PROVE ListFits'
<1>1. PICK w \in Workers : ~Registered(w) /\ w \notin dead /\ entries' = Append(entries, w)
  BY DEF register
<1>2. used' = used /\ idle' = idle /\ \A r \in Requests : pos'[r] = 1
  BY DEF register, Unlocked, StepsMatch, Standing
<1>3. \A s \in used : s[1] # w
  BY <1>1 DEF UsedKnown
<1>4. /\ Len(entries) \in Nat /\ Len(entries') = Len(entries) + 1 /\ entries'[Len(entries) + 1] = w
      /\ \A i \in 1..Len(entries) : entries'[i] = entries[i] /\ entries[i] # w
  BY <1>1, AppendProperties DEF TypeOK, Registered
<1>5. \A i, j \in 1..Len(entries') : entries'[i] = entries'[j] => i = j
  BY <1>4 DEF ListFits
<1>6. /\ Len(ScanOrder) <= Len(ScanOrder')
      /\ \A i \in 1..Len(ScanOrder) : ScanOrder'[i] = ScanOrder[i]
      /\ \A i \in 1..Len(ScanOrder') : i > Len(ScanOrder) => ScanOrder'[i][1] = w
  BY <1>1, ScanGrows
<1>7. Len(ScanOrder) \in Nat /\ Len(ScanOrder') \in Nat
  BY ScanSize, ScanSizeNext
<1>8. ASSUME NEW i \in 1..Len(ScanOrder'), NEW j \in 1..Len(ScanOrder'), i < j, ScanOrder'[j] \in used
      PROVE  ScanOrder'[i] \in used
  <2>1. ~(j > Len(ScanOrder))
    BY <1>3, <1>6, <1>8
  <2>2. i \in 1..Len(ScanOrder) /\ j \in 1..Len(ScanOrder)
    BY <1>7, <1>8, <2>1
  <2>. QED  BY <1>6, <1>8, <2>2 DEF ListFits
<1>9. \A r \in Requests : \A i \in 1..Len(ScanOrder') : ~(i < pos'[r])
  BY <1>2, <1>7
<1>. QED  BY <1>2, <1>5, <1>8, <1>9 DEF ListFits

LEMMA ListFinish ==
    ASSUME TypeOK, TypeOK', StepsMatch, ListFits, NEW r \in Requests, finish(r),
           idle' = idle, used' = used, pos' = pos
    PROVE  ListFits'
<1>1. CASE entries' = entries
  BY <1>1, ListKept
<1>2. CASE Unlocked /\ entries' = RemoveFirst(entries, slot[r][1])
  <2>1. CASE \E k \in 1..Len(entries) : entries' = RemoveAt(entries, k)
    <3>1. PICK k \in 1..Len(entries) : entries' = RemoveAt(entries, k)
      BY <2>1
    <3>2. /\ Len(entries') = Len(entries) - 1 /\ Len(entries) \in Nat
          /\ \A x \in 1..(Len(entries) - 1) : entries'[x] = IF x < k THEN entries[x] ELSE entries[x + 1]
      <4>1. TakenOut(entries, k, entries')
        BY <3>1, TakesOut DEF TypeOK
      <4>. QED  BY <4>1 DEF TakenOut
    <3>3. \A i, j \in 1..Len(entries') : entries'[i] = entries'[j] => i = j
      BY <3>2 DEF ListFits
    <3>4. Len(ScanOrder') \in Nat /\ SLOT_COUNT \in Nat \ {0} /\ (k - 1) * SLOT_COUNT \in Nat
      <4>1. k - 1 \in Nat /\ SLOT_COUNT \in Nat
        BY <3>2, SizesAssumption
      <4>. QED  BY <4>1, ScanSizeNext, SizesAssumption
    <3>5. ASSUME NEW i \in 1..Len(ScanOrder'), NEW j \in 1..Len(ScanOrder'), i < j, ScanOrder'[j] \in used
          PROVE  ScanOrder'[i] \in used
      <4>. DEFINE From(x) == IF x <= (k - 1) * SLOT_COUNT THEN x ELSE x + SLOT_COUNT
      <4>1. /\ From(i) \in 1..Len(ScanOrder) /\ ScanOrder'[i] = ScanOrder[From(i)]
            /\ From(j) \in 1..Len(ScanOrder) /\ ScanOrder'[j] = ScanOrder[From(j)]
        BY <3>1, ScanShrinks
      <4>2. From(i) < From(j)
        BY <3>4, <3>5
      <4>. HIDE DEF From
      <4>. QED  BY <3>5, <4>1, <4>2 DEF ListFits
    <3>6. \A q \in Requests : \A i \in 1..Len(ScanOrder') : ~(i < pos'[q])
      BY <1>2, <3>4 DEF Unlocked, StepsMatch, Standing
    <3>. QED  BY <3>3, <3>5, <3>6 DEF ListFits
  <2>2. CASE entries' = entries
    BY <1>1, <2>2
  <2>. QED  BY <1>2, <2>1, <2>2, RemovedFirst DEF TypeOK
<1>. QED  BY <1>1, <1>2 DEF finish

LEMMA ListStep ==
    TypeOK /\ TypeOK' /\ StepsMatch /\ UsedKnown /\ ListFits /\ [Next]_vars => ListFits'
<1>. SUFFICES ASSUME TypeOK, TypeOK', StepsMatch, UsedKnown, ListFits, [Next]_vars PROVE ListFits'
  OBVIOUS
<1>0. idle \in [Slots -> BOOLEAN] /\ pos \in [Requests -> Nat] /\ slot \in [Requests -> {None} \cup Slots]
  BY DEF TypeOK
<1>1. ASSUME NEW r \in Requests, claim(r) PROVE ListFits'
  <2>. DEFINE s == ScanOrder[pos[r]]
  <2>1. /\ pos[r] \in 1..Len(ScanOrder) /\ s \in Slots
        /\ idle' = [idle EXCEPT ![s] = FALSE] /\ used' = used \cup {s}
    BY <1>1, ClaimedIsSlot
  <2>2. entries' = entries /\ ScanOrder' = ScanOrder /\ pos' = [pos EXCEPT ![r] = 1]
    BY <1>1, ScanKept DEF claim, pool
  <2>3. Len(ScanOrder) \in Nat
    BY ScannedSlots
  <2>4. \A i \in 1..Len(ScanOrder) : ScanOrder[i] = s => i = pos[r]
    BY <2>1, ScanOnce DEF ListFits
  <2>5. \A i \in 1..Len(ScanOrder) : i < pos[r] => ScanOrder[i] \in used
    BY DEF ListFits
  <2>. HIDE DEF s
  <2>6. \A i, j \in 1..Len(ScanOrder) : i < j /\ ScanOrder[j] \in used' => ScanOrder[i] \in used'
    BY <2>1, <2>4, <2>5 DEF ListFits
  <2>7. \A q \in Requests : \A i \in 1..Len(ScanOrder) : i < pos'[q] => ScanOrder[i] \in used'
    BY <1>0, <2>1, <2>2, <2>3 DEF ListFits
  <2>8. \A x \in Slots : idle'[x] \/ x \in used'
    BY <1>0, <2>1 DEF ListFits
  <2>. QED  BY <2>2, <2>6, <2>7, <2>8 DEF ListFits
<1>2. ASSUME NEW r \in Requests, slot_busy(r) PROVE ListFits'
  <2>1. pos[r] \in 1..Len(ScanOrder) /\ Len(ScanOrder) \in Nat /\ ScanOrder[pos[r]] \in Slots
    <3>1. Len(ScanOrder) \in Nat /\ \A i \in 1..Len(ScanOrder) : ScanOrder[i] \in Slots
      BY ScannedSlots
    <3>2. pos[r] \in Nat /\ pos[r] <= Len(ScanOrder) /\ (pos[r] = 1 \/ pos[r] \in 1..Len(ScanOrder))
      BY <1>0, <1>2 DEF slot_busy, StepsMatch, Standing
    <3>3. pos[r] \in 1..Len(ScanOrder)
      BY <3>1, <3>2
    <3>. QED  BY <3>1, <3>3
  <2>2. ScanOrder[pos[r]] \in used
    BY <1>2, <2>1 DEF slot_busy, ListFits
  <2>3. entries' = entries /\ used' = used /\ idle' = idle
    BY <1>2 DEF slot_busy, pool
  <2>4. \A q \in Requests : pos'[q] = pos[q] \/ pos'[q] = 1 \/ (q = r /\ pos'[q] = pos[r] + 1)
    BY <1>2, <1>0 DEF slot_busy
  <2>5. \A q \in Requests, i \in 1..Len(ScanOrder) : i < pos'[q] => i < pos[q] \/ ScanOrder[i] \in used
    BY <1>0, <2>1, <2>2, <2>4
  <2>. QED  BY <2>3, <2>5, ListKept
<1>3. ASSUME NEW r \in Requests, poll_call(r) PROVE ListFits'
  <2>1. idle' = idle /\ used' = used /\ pos' = pos
    BY <1>3 DEF poll_call
  <2>2. finish(r) \/ entries' = entries
    BY <1>3 DEF poll_call
  <2>. QED  BY <2>1, <2>2, ListFinish, ListKept
<1>4. ASSUME NEW r \in Requests, detached_settles(r) PROVE ListFits'
  BY <1>4, ListFinish DEF detached_settles
<1>5. ASSUME NEW r \in Requests, drop_free(r) PROVE ListFits'
  BY <1>5, <1>0, ListKept DEF drop_free, pool
<1>6. ASSUME NEW r \in Requests,
             \/ pool_empty(r) \/ enable_notified(r) \/ woken_up(r) \/ give_up(r) \/ arrive(r)
             \/ serialise_fails(r) \/ poll_deadline(r) \/ dispatch_call(r) \/ drop_clear(r)
             \/ drop_notify(r) \/ disconnect(r)
      PROVE  ListFits'
  <2>1. UNCHANGED <<entries, used, idle, pos>>
    BY <1>6 DEF pool_empty, enable_notified, woken_up, give_up, arrive, serialise_fails,
                poll_deadline, dispatch_call, drop_clear, drop_notify, disconnect, pool
  <2>. QED  BY <2>1, ListKept
<1>7. ASSUME NEW r \in Requests,
             \/ plan_in_call(r) \/ resolve(r) \/ abandoned(r) \/ take_fetch_body(r)
             \/ pull_fetch_body(r)
      PROVE  ListFits'
  <2>1. UNCHANGED <<entries, used, idle, pos>>
    BY <1>7 DEF plan_in_call, resolve, abandoned, take_fetch_body, pull_fetch_body, pool
  <2>. QED  BY <2>1, ListKept
<1>8. ASSUME \/ (\E w \in Workers : worker_dies(w)) \/ Tick \/ sweep_tick
             \/ (\E s \in Slots : sweep_take(s)) \/ sweep_wake \/ UNCHANGED vars
      PROVE  ListFits'
  <2>1. UNCHANGED <<entries, used, idle, pos>>
    BY <1>8 DEF worker_dies, Tick, sweep_tick, sweep_take, sweep_wake, vars, pool
  <2>. QED  BY <2>1, ListKept
<1>9. CASE register
  BY <1>9, ListRegister
<1>. QED  BY <1>1, <1>2, <1>3, <1>4, <1>5, <1>6, <1>7, <1>8, <1>9 DEF Next, Task, Client, Javascript, Sweeper, Finished

(* Who waits, and what that request and the others have in front of them.  *)
WakeTypes == /\ idle \in [Slots -> BOOLEAN] /\ notified \in [Requests -> NotifyStates]
             /\ caller \in [Requests -> Callers] /\ call \in [Requests -> CallSteps]
             /\ pos \in [Requests -> Nat] /\ slot \in [Requests -> {None} \cup Slots]
             /\ Len(ScanOrder) \in Nat
             /\ \A i \in 1..Len(ScanOrder) : ScanOrder[i] \in Slots

LEMMA WakeTyped == WakeInv => WakeTypes /\ \A r \in Requests : Legal(r) /\ Standing(r)
  BY ScannedSlots DEF WakeInv, TypeOK, WakeTypes, StepsMatch, NotifyStates

LEMMA Waits ==
    ASSUME WakeInv, NEW q \in Requests, notified[q] = "waiting"
    PROVE  Covered(q) /\ caller[q] \in {"again", "parked"}
  BY DEF WakeInv, WakesMatch, QueueFits

LEMMA NeedsKept ==
    ASSUME NEW q \in Requests, \A s : Usable(s)' => Usable(s), caller'[q] = caller[q],
           pos'[q] = pos[q], ScanOrder' = ScanOrder
    PROVE  Needs(q)' \subseteq Needs(q)
  BY DEF Needs, Ahead

LEMMA LooksKept ==
    ASSUME NEW x \in Requests, call'[x] = call[x], caller'[x] = caller[x], pos'[x] = pos[x],
           ScanOrder' = ScanOrder, NEW s, Looks(x, s)
    PROVE  Looks(x, s)'
  BY DEF Looks, Ahead

LEMMA WakeEmpty ==
    ASSUME WakeInv, NEW r \in Requests, pool_empty(r), NEW q \in Requests, notified'[q] = "waiting"
    PROVE  Covered(q)'
<1>1. \A w : ~Registered(w)'
  BY DEF pool_empty, pool, Registered
<1>2. Needs(q)' = {}
  BY <1>1 DEF Needs, Usable
<1>. QED  BY <1>2, CoverNone

LEMMA WakeClaim ==
    ASSUME WakeInv, NEW r \in Requests, claim(r), NEW q \in Requests, notified'[q] = "waiting"
    PROVE  Covered(q)'
<1>0. WakeTypes /\ (\A i, j \in 1..Len(ScanOrder) : i < j /\ ScanOrder[j] \in used => ScanOrder[i] \in used)
  BY WakeTyped DEF WakeInv, ListFits
<1>1. PICK s1 \in Slots : /\ pos[r] \in 1..Len(ScanOrder) /\ ScanOrder[pos[r]] = s1 /\ idle[s1]
                          /\ idle' = [idle EXCEPT ![s1] = FALSE] /\ used' = used \cup {s1}
  BY ClaimedIsSlot DEF WakeInv
<1>2. Passed(r)
  BY Drops DEF WakeInv, claim
<1>3. q # r /\ notified[q] = "waiting"
  BY <1>2, PassedOn
<1>4. PICK f0 \in [Slots -> Tokens] : Covers(f0, Needs(q))
  BY <1>3, Waits DEF Covered
<1>5. /\ entries' = entries /\ ScanOrder' = ScanOrder
      /\ \A x \in Requests \ {r} : caller'[x] = caller[x] /\ call'[x] = call[x] /\ pos'[x] = pos[x]
  BY <1>0, ScanKept DEF claim, pool, WakeTypes
<1>6. Needs(q)' \subseteq Needs(q) \ {s1}
  <2>1. \A s \in Slots : Usable(s)' => Usable(s) /\ s # s1
    BY <1>0, <1>1, <1>5 DEF Usable, Registered, WakeTypes
  <2>. QED  BY <1>3, <1>5, <2>1 DEF Needs, Ahead
<1>7. \A x \in Requests \ {r}, s \in Needs(q)' : Looks(x, s) => Looks(x, s)'
  BY <1>5, LooksKept
<1>. DEFINE N == Needs(q) \ {s1}
<1>8. N \subseteq Slots /\ N \subseteq Needs(q)
  BY DEF Needs
<1>9. CASE \A s \in N : f0[s] # <<r, "look">>
  <2>1. Covers(f0, N)
    BY <1>4 DEF Covers
  <2>. HIDE DEF N
  <2>. QED  BY <1>2, <1>6, <1>7, <1>8, <1>9, <2>1, CoverPassed DEF N
<1>10. CASE \E s \in N : f0[s] = <<r, "look">>
  <2>1. PICK s0 \in N : f0[s0] = <<r, "look">>
    BY <1>10
  <2>2. s0 \in Slots /\ s0 # s1 /\ s0 \in Needs(q) /\ Usable(s0) /\ Carries(f0[s0], s0)
    BY <1>4, <2>1 DEF Needs, Covers
  <2>3. Ahead(r, s0)
    <3>1. Looks(r, s0)
      BY <2>1, <2>2 DEF Carries
    <3>2. call[r] # "notify" /\ caller[r] # "enable"
      BY WakeTyped DEF Legal, claim
    <3>. QED  BY <3>1, <3>2 DEF Looks
  <2>4. PICK i0 \in 1..Len(ScanOrder) : ScanOrder[i0] = s0
    BY <2>2, ScanReaches DEF Usable, WakeInv
  <2>5. pos[r] < i0 /\ \A i \in 1..Len(ScanOrder) : ScanOrder[i] = s0 => i = i0
    <3>1. pos[r] <= i0 /\ pos[r] # i0
      BY <1>1, <2>2, <2>3, <2>4 DEF Ahead
    <3>2. \A i \in 1..Len(ScanOrder) : ScanOrder[i] = s0 => i = i0
      BY <2>4, ScanOnce DEF WakeInv, ListFits
    <3>. QED  BY <1>1, <3>1, <3>2
  <2>6. Usable(s1)
    <3>1. s1 \in used
      BY <1>0, <1>1, <2>2, <2>4, <2>5 DEF Usable
    <3>2. Registered(s1[1])
      BY <1>1, ScannedRegistered DEF WakeInv
    <3>. QED  BY <1>1, <3>1, <3>2 DEF Usable
  <2>7. ASSUME NEW x \in Requests, Ahead(x, s1) PROVE Ahead(x, s0)
    <3>1. pos[x] <= pos[r] /\ pos[x] \in Nat
      BY <1>0, <1>1, <2>7 DEF Ahead, WakeTypes
    <3>. QED  BY <1>1, <2>5, <3>1 DEF Ahead
  <2>8. s1 \in Needs(q)
    BY <1>1, <2>2, <2>6, <2>7 DEF Needs
  <2>9. Carries(f0[s1], s1) /\ f0[s1] \in Tokens /\ f0[s1] # f0[s0]
    BY <1>4, <2>2, <2>8 DEF Covers
  <2>10. Carries(f0[s1], s0)
    BY <2>7, <2>9 DEF Carries, Looks, Tokens
  <2>. DEFINE f == [f0 EXCEPT ![s0] = f0[s1]]
  <2>11. f \in [Slots -> Tokens] /\ \A s \in Slots : f[s] = IF s = s0 THEN f0[s1] ELSE f0[s]
    BY <2>2, <2>9
  <2>. HIDE DEF f
  <2>12. \A s \in N : Carries(f[s], s)
    BY <1>4, <1>8, <2>10, <2>11 DEF Covers
  <2>13. \A s, u \in N : f[s] = f[u] => s = u
    BY <1>4, <1>8, <2>2, <2>8, <2>11 DEF Covers
  <2>14. \A s \in N : f[s] # <<r, "look">>
    BY <1>4, <1>8, <2>1, <2>2, <2>9, <2>11 DEF Covers
  <2>15. Covers(f, N)
    BY <2>12, <2>13 DEF Covers
  <2>. HIDE DEF N
  <2>. QED  BY <1>2, <1>6, <1>7, <1>8, <2>11, <2>14, <2>15, CoverPassed DEF N
<1>. QED  BY <1>9, <1>10

LEMMA WakeBusy ==
    ASSUME WakeInv, NEW r \in Requests, slot_busy(r), NEW q \in Requests, notified'[q] = "waiting"
    PROVE  Covered(q)'
<1>0. WakeTypes
  BY WakeTyped
<1>1. /\ notified' = notified /\ entries' = entries /\ ScanOrder' = ScanOrder
      /\ idle' = idle /\ used' = used /\ call' = call
      /\ \A x \in Requests \ {r} : caller'[x] = caller[x] /\ pos'[x] = pos[x]
  BY <1>0, ScanKept DEF slot_busy, pool, notify, WakeTypes
<1>2. Covered(q) /\ caller[q] \in {"again", "parked"}
  BY <1>1, Waits
<1>3. \A s : Usable(s)' <=> Usable(s)
  BY <1>1 DEF Usable, Registered
<1>4. pos[r] \in 1..Len(ScanOrder)
  <2>1. pos[r] \in Nat /\ pos[r] <= Len(ScanOrder) /\ (pos[r] = 1 \/ pos[r] \in 1..Len(ScanOrder))
    BY <1>0, WakeTyped DEF slot_busy, WakeTypes, Standing
  <2>. QED  BY <1>0, <2>1 DEF WakeTypes
<1>5. ~idle[ScanOrder[pos[r]]] /\ caller[r] \in {"scan", "again"}
  BY DEF slot_busy
(* The busy slot is not the one anybody looks for. *)
<1>6. ASSUME NEW s \in Slots, Usable(s), NEW i \in 1..Len(ScanOrder), ScanOrder[i] = s PROVE i # pos[r]
  BY <1>5, <1>6 DEF Usable
<1>7. ASSUME NEW s \in Slots, Usable(s) PROVE \E i \in 1..Len(ScanOrder) : ScanOrder[i] = s
  BY <1>7, ScanReaches DEF Usable, WakeInv
<1>8. CASE pos[r] < Len(ScanOrder)
  <2>1. pos'[r] = pos[r] + 1 /\ caller' = caller
    BY <1>0, <1>8 DEF slot_busy, WakeTypes
  <2>2. \A s \in Slots : Usable(s) => (Ahead(r, s)' <=> Ahead(r, s))
    BY <1>0, <1>1, <1>4, <1>6, <2>1 DEF Ahead
  <2>3. \A x \in Requests, s \in Slots : Usable(s) => (Ahead(x, s)' <=> Ahead(x, s))
    BY <1>1, <2>2 DEF Ahead
  <2>4. Needs(q)' \subseteq Needs(q)
    BY <1>3, <2>1, <2>3 DEF Needs
  <2>5. ASSUME NEW x \in Requests, NEW s \in Needs(q)', Looks(x, s) PROVE Looks(x, s)'
    <3>1. s \in Slots /\ Usable(s)
      BY <1>3, <2>5 DEF Needs
    <3>. QED  BY <1>1, <2>1, <2>3, <2>5, <3>1 DEF Looks
  <2>. QED  BY <1>1, <1>2, <2>4, <2>5, CoverKept
<1>9. CASE ~(pos[r] < Len(ScanOrder))
  <2>1. pos[r] = Len(ScanOrder) /\ caller' = [caller EXCEPT ![r] = IF @ = "scan" THEN "enable" ELSE "parked"]
    BY <1>0, <1>4, <1>9 DEF slot_busy, WakeTypes
  <2>2. \A s \in Slots : Usable(s) => ~Ahead(r, s)
    <3>1. ASSUME NEW s \in Slots, Usable(s), Ahead(r, s) PROVE FALSE
      <4>1. PICK i \in 1..Len(ScanOrder) : ScanOrder[i] = s
        BY <1>7, <3>1
      <4>2. i # pos[r] /\ pos[r] <= i
        BY <1>6, <3>1, <4>1 DEF Ahead
      <4>. QED  BY <1>0, <2>1, <4>2 DEF WakeTypes
    <3>. QED  BY <3>1
  <2>3. Needs(q)' \subseteq Needs(q)
    <3>1. CASE q = r
      BY <1>3, <2>2, <3>1 DEF Needs
    <3>2. CASE q # r
      BY <1>1, <1>3, <3>2 DEF Needs, Ahead
    <3>. QED  BY <3>1, <3>2
  <2>4. ASSUME NEW x \in Requests, NEW s \in Needs(q)', Looks(x, s) PROVE Looks(x, s)'
    <3>1. s \in Slots /\ Usable(s)
      BY <1>3, <2>4 DEF Needs
    <3>2. CASE x = r
      BY <1>1, <1>5, <2>2, <2>4, <3>1, <3>2 DEF Looks
    <3>3. CASE x # r
      BY <1>1, <2>4, <3>3, LooksKept
    <3>. QED  BY <3>2, <3>3
  <2>. QED  BY <1>1, <1>2, <2>3, <2>4, CoverKept
<1>. QED  BY <1>8, <1>9

LEMMA WakeEnable ==
    ASSUME WakeInv, NEW r \in Requests, enable_notified(r), NEW q \in Requests,
           notified'[q] = "waiting"
    PROVE  Covered(q)'
<1>0. WakeTypes /\ pos[r] = 1 /\ notified[r] = "none"
  BY WakeTyped DEF WakeInv, QueueFits, Standing, WakeTypes, NotifyStates, enable_notified
<1>1. /\ entries' = entries /\ ScanOrder' = ScanOrder
      /\ idle' = idle /\ used' = used /\ call' = call /\ pos' = pos
      /\ caller' = [caller EXCEPT ![r] = "again"]
      /\ \A x \in Requests \ {r} : notified'[x] = notified[x]
  BY <1>0, ScanKept DEF enable_notified, enable, pool, WakeTypes
<1>2. \A s : Ahead(r, s)'
  BY <1>0, <1>1 DEF Ahead
<1>3. CASE q = r
  <2>1. Needs(q)' = {}
    BY <1>0, <1>1, <1>2, <1>3 DEF Needs, WakeTypes
  <2>. QED  BY <2>1, CoverNone
<1>4. CASE q # r
  <2>1. Covered(q)
    BY <1>1, <1>4, Waits
  <2>2. Needs(q)' \subseteq Needs(q)
    BY <1>0, <1>1, <1>4, NeedsKept DEF Usable, Registered, WakeTypes
  <2>3. \A x \in Requests, s \in Needs(q)' : Looks(x, s) => Looks(x, s)'
    <3>1. \A s : Looks(r, s)'
      BY <1>0, <1>1, <1>2 DEF Looks, WakeTypes
    <3>2. \A x \in Requests \ {r}, s \in Needs(q)' : Looks(x, s) => Looks(x, s)'
      BY <1>0, <1>1, LooksKept DEF WakeTypes
    <3>. QED  BY <3>1, <3>2
  <2>. QED  BY <1>0, <1>1, <2>1, <2>2, <2>3, CoverKept
<1>. QED  BY <1>3, <1>4

LEMMA WakeWoken ==
    ASSUME WakeInv, NEW r \in Requests, woken_up(r), NEW q \in Requests, notified'[q] = "waiting"
    PROVE  Covered(q)'
<1>0. WakeTypes /\ call[r] = "none" /\ caller[r] = "parked"
  BY WakeTyped DEF Legal, woken_up
<1>1. /\ entries' = entries /\ ScanOrder' = ScanOrder
      /\ idle' = idle /\ used' = used /\ call' = call /\ pos' = pos
      /\ caller' = [caller EXCEPT ![r] = "enable"]
      /\ notified' = [notified EXCEPT ![r] = "none"]
  BY ScanKept DEF woken_up, pool
<1>2. q # r /\ notified[q] = "waiting"
  BY <1>0, <1>1 DEF WakeTypes
<1>3. PICK f \in [Slots -> Tokens] : Covers(f, Needs(q))
  BY <1>2, Waits DEF Covered
<1>4. Needs(q)' \subseteq Needs(q)
  BY <1>0, <1>1, <1>2, NeedsKept DEF Usable, Registered, WakeTypes
<1>5. \A s : ~Looks(r, s) /\ Looks(r, s)'
  BY <1>0, <1>1 DEF Looks, WakeTypes
<1>6. \A x \in Requests \ {r} : \A s : Looks(x, s) => Looks(x, s)'
  BY <1>0, <1>1, LooksKept DEF WakeTypes
<1>7. \A s \in Needs(q)' : Carries(f[s], s) /\ f[s] \in Tokens
  BY <1>3, <1>4 DEF Covers, Needs
<1>8. <<r, "wake">> \in Tokens /\ <<r, "look">> \in Tokens /\ Needs(q) \subseteq Slots
  BY DEF Tokens, Needs
<1>9. \A s \in Needs(q)' : f[s] # <<r, "look">>
  BY <1>5, <1>7 DEF Carries
<1>10. \A s \in Needs(q)' : Carries(<<r, "look">>, s)'
  BY <1>5 DEF Carries
<1>11. ASSUME NEW s \in Needs(q)', f[s] # <<r, "wake">> PROVE Carries(f[s], s)'
  <2>1. f[s] = <<f[s][1], f[s][2]>> /\ f[s][1] \in Requests /\ f[s][2] \in {"look", "wake"}
    BY <1>7 DEF Tokens
  <2>2. f[s][1] # r
    BY <1>9, <1>11, <2>1
  <2>. QED  BY <1>0, <1>1, <1>6, <1>7, <2>1, <2>2 DEF Carries, WakeTypes
<1>. QED  BY <1>3, <1>4, <1>8, <1>9, <1>10, <1>11, CoverMoves

LEMMA WakeGivesUp ==
    ASSUME WakeInv, NEW r \in Requests, give_up(r), NEW q \in Requests, notified'[q] = "waiting"
    PROVE  Covered(q)'
<1>0. WakeTypes /\ call[r] = "none" /\ caller[r] = "parked"
  BY WakeTyped DEF Legal, give_up
<1>1. /\ entries' = entries /\ ScanOrder' = ScanOrder
      /\ idle' = idle /\ used' = used /\ call' = call /\ pos' = pos
      /\ \A x \in Requests \ {r} : caller'[x] = caller[x]
  BY <1>0, ScanKept DEF give_up, answer, pool, WakeTypes
<1>2. Passed(r)
  BY Drops DEF WakeInv, give_up
<1>3. q # r /\ notified[q] = "waiting"
  BY <1>2, PassedOn
<1>4. PICK f \in [Slots -> Tokens] : Covers(f, Needs(q))
  BY <1>3, Waits DEF Covered
<1>5. Needs(q)' \subseteq Needs(q) /\ Needs(q) \subseteq Slots
  <2>1. Needs(q)' \subseteq Needs(q)
    BY <1>0, <1>1, <1>3, NeedsKept DEF Usable, Registered, WakeTypes
  <2>. QED  BY <2>1 DEF Needs
<1>6. \A s \in Needs(q) : f[s] # <<r, "look">>
  BY <1>0, <1>4 DEF Covers, Carries, Looks
<1>7. \A x \in Requests \ {r}, s \in Needs(q)' : Looks(x, s) => Looks(x, s)'
  BY <1>0, <1>1, LooksKept DEF WakeTypes
<1>. QED  BY <1>2, <1>4, <1>5, <1>6, <1>7, CoverPassed

LEMMA WakeFree ==
    ASSUME WakeInv, NEW r \in Requests, drop_free(r), NEW q \in Requests, notified'[q] = "waiting"
    PROVE  Covered(q)'
<1>0. /\ WakeTypes /\ call[r] = "free" /\ slot[r] \in Slots /\ ~idle[slot[r]]
      /\ caller[r] \notin {"scan", "enable", "again", "parked"}
  BY WakeTyped DEF Legal, drop_free, WakeInv, Leased, Holds
<1>1. PICK s1 \in Slots : slot[r] = s1 /\ ~idle[s1] /\ idle' = [idle EXCEPT ![s1] = TRUE]
  BY <1>0 DEF drop_free
<1>2. /\ entries' = entries /\ ScanOrder' = ScanOrder /\ notified' = notified /\ used' = used
      /\ pos' = pos /\ caller' = caller /\ call' = [call EXCEPT ![r] = "notify"]
  BY ScanKept DEF drop_free, pool, notify
<1>3. PICK f0 \in [Slots -> Tokens] : Covers(f0, Needs(q))
  BY <1>2, Waits DEF Covered
<1>4. Needs(q)' \subseteq Needs(q) \cup {s1} /\ s1 \notin Needs(q) /\ Needs(q) \subseteq Slots
  <2>1. \A s \in Slots : Usable(s)' => Usable(s) \/ s = s1
    BY <1>0, <1>1, <1>2 DEF Usable, Registered, WakeTypes
  <2>2. Needs(q)' \subseteq Needs(q) \cup {s1}
    BY <1>2, <2>1 DEF Needs, Ahead
  <2>3. s1 \notin Needs(q) /\ Needs(q) \subseteq Slots
    BY <1>1 DEF Needs, Usable
  <2>. QED  BY <2>2, <2>3
<1>5. \A s : ~Looks(r, s) /\ Looks(r, s)'
  BY <1>0, <1>2 DEF Looks, WakeTypes
<1>6. \A x \in Requests : \A s : Looks(x, s) => Looks(x, s)'
  <2>1. \A x \in Requests \ {r} : \A s : Looks(x, s) => Looks(x, s)'
    BY <1>0, <1>2, LooksKept DEF WakeTypes
  <2>. QED  BY <1>5, <2>1
<1>. DEFINE f == [f0 EXCEPT ![s1] = <<r, "look">>]
<1>7. f \in [Slots -> Tokens] /\ \A s \in Slots : f[s] = IF s = s1 THEN <<r, "look">> ELSE f0[s]
  BY DEF Tokens
<1>. HIDE DEF f
<1>8. \A s \in Needs(q) : f0[s] # <<r, "look">> /\ Carries(f0[s], s) /\ f0[s] \in Tokens
  BY <1>3, <1>4, <1>5 DEF Covers, Carries
<1>9. ASSUME NEW s \in Needs(q)' PROVE Carries(f[s], s)'
  <2>1. CASE s = s1
    BY <1>5, <1>7, <2>1 DEF Carries
  <2>2. CASE s # s1
    <3>1. s \in Needs(q) /\ s \in Slots /\ f[s] = f0[s]
      BY <1>4, <1>7, <1>9, <2>2
    <3>. QED  BY <1>2, <1>6, <1>8, <3>1 DEF Carries, Tokens
  <2>. QED  BY <2>1, <2>2
<1>10. \A s, u \in Needs(q)' : f[s] = f[u] => s = u
  BY <1>3, <1>4, <1>7, <1>8 DEF Covers
<1>11. Covers(f, Needs(q))'
  BY <1>9, <1>10 DEF Covers
<1>. QED  BY <1>7, <1>11 DEF Covered

LEMMA WakeNotify ==
    ASSUME WakeInv, NEW r \in Requests, drop_notify(r), NEW q \in Requests, notified'[q] = "waiting"
    PROVE  Covered(q)'
<1>0. WakeTypes
  BY WakeTyped
<1>1. /\ entries' = entries /\ ScanOrder' = ScanOrder
      /\ idle' = idle /\ used' = used /\ caller' = caller /\ pos' = pos
      /\ \A x \in Requests \ {r} : call'[x] = call[x]
  BY <1>0, ScanKept DEF drop_notify, pool, WakeTypes
<1>2. \/ notified' = notified /\ \A x \in Requests : notified[x] # "waiting"
      \/ \E h \in Requests : notified[h] = "waiting" /\ notified' = [notified EXCEPT ![h] = "woken"]
  BY <1>0, WakesOne DEF drop_notify, WakeInv, QueueFits, TypeOK, WakeTypes
<1>3. PICK h \in Requests : notified[h] = "waiting" /\ notified' = [notified EXCEPT ![h] = "woken"]
  BY <1>2
<1>4. q # h /\ notified[q] = "waiting"
  BY <1>0, <1>3 DEF WakeTypes
<1>5. PICK f \in [Slots -> Tokens] : Covers(f, Needs(q))
  BY <1>4, Waits DEF Covered
<1>6. Needs(q)' \subseteq Needs(q) /\ Needs(q) \subseteq Slots
  <2>1. Needs(q)' \subseteq Needs(q)
    BY <1>1, NeedsKept DEF Usable, Registered
  <2>. QED  BY <2>1 DEF Needs
<1>7. \A x \in Requests \ {r} : \A s : Looks(x, s) => Looks(x, s)'
  BY <1>1, LooksKept
<1>8. \A s \in Needs(q)' : Carries(f[s], s) /\ f[s] \in Tokens
  BY <1>5, <1>6 DEF Covers
<1>9. <<r, "look">> \in Tokens /\ <<h, "wake">> \in Tokens
  BY DEF Tokens
<1>10. \A s \in Needs(q)' : f[s] # <<h, "wake">>
  BY <1>3, <1>8 DEF Carries
<1>11. \A s \in Needs(q)' : Carries(<<h, "wake">>, s)'
  BY <1>0, <1>3 DEF Carries, WakeTypes
<1>12. ASSUME NEW s \in Needs(q)', f[s] # <<r, "look">> PROVE Carries(f[s], s)'
  <2>1. f[s] = <<f[s][1], f[s][2]>> /\ f[s][1] \in Requests /\ f[s][2] \in {"look", "wake"}
    BY <1>8, <1>12 DEF Tokens
  <2>2. CASE f[s][2] = "look"
    <3>1. f[s][1] # r
      BY <1>12, <2>1, <2>2
    <3>. QED  BY <1>7, <1>8, <1>12, <2>1, <2>2, <3>1 DEF Carries
  <2>3. CASE f[s][2] = "wake"
    BY <1>0, <1>3, <1>8, <1>12, <2>1, <2>3 DEF Carries, WakeTypes
  <2>. QED  BY <2>1, <2>2, <2>3
<1>. QED  BY <1>5, <1>6, <1>9, <1>10, <1>11, <1>12, CoverMoves

(* A call that ends removes the worker it could not be handed to, and      *)
(* nobody else's.                                                          *)
LEMMA WakeSettles ==
    ASSUME WakeInv, NEW r \in Requests, poll_call(r) \/ detached_settles(r),
           NEW q \in Requests, notified'[q] = "waiting"
    PROVE  Covered(q)'
<1>0. WakeTypes /\ call[r] = "await" /\ caller[r] \in {"call", "answered"}
  BY WakeTyped DEF poll_call, detached_settles
<1>1. /\ notified' = notified /\ idle' = idle /\ used' = used /\ pos' = pos
      /\ \A x \in Requests \ {r} : caller'[x] = caller[x] /\ call'[x] = call[x]
      /\ finish(r) \/ entries' = entries
  <2>1. CASE poll_call(r)
    BY <1>0, <2>1 DEF poll_call, finish, answer, notify, WakeTypes
  <2>2. CASE detached_settles(r)
    BY <1>0, <2>2 DEF detached_settles, finish, notify, WakeTypes
  <2>. QED  BY <2>1, <2>2
<1>2. Covered(q) /\ caller[q] \in {"again", "parked"}
  BY <1>1, Waits
<1>3. \A x \in Requests :
         /\ caller[x] \in {"scan", "enable", "again", "parked"} => caller'[x] = caller[x]
         /\ call[x] = "notify" => call'[x] = "notify"
  BY <1>0, <1>1
<1>4. CASE entries' = entries
  BY <1>1, <1>2, <1>3, <1>4, CoverQuiet
<1>5. CASE Unlocked /\ finish(r)
  <2>1. \A s \in used : Registered(s[1])' => Registered(s[1])
    BY <1>5, FinishRemoves DEF WakeInv
  <2>. QED  BY <1>1, <1>2, <1>3, <1>5, <2>1, CoverUnlocked
<1>. QED  BY <1>1, <1>4, <1>5, FinishKeeps

LEMMA WakeRegister ==
    ASSUME WakeInv, register, NEW q \in Requests, notified'[q] = "waiting"
    PROVE  Covered(q)'
<1>1. PICK w \in Workers : w \notin dead /\ entries' = Append(entries, w)
  BY DEF register
<1>2. \A v : Registered(v)' => Registered(v) \/ v = w
  <2>1. /\ DOMAIN entries = 1..Len(entries) /\ DOMAIN entries' = 1..(Len(entries) + 1)
        /\ Len(entries) \in Nat /\ entries'[Len(entries) + 1] = w
        /\ \A i \in 1..Len(entries) : entries'[i] = entries[i]
    BY <1>1, AppendProperties DEF WakeInv, TypeOK
  <2>. QED  BY <2>1 DEF Registered
<1>3. \A s \in used : Registered(s[1])' => Registered(s[1])
  BY <1>1, <1>2 DEF WakeInv, UsedKnown
<1>4. Covered(q) /\ caller[q] \in {"again", "parked"}
  BY Waits DEF register, notify
<1>. QED  BY <1>3, <1>4, CoverUnlocked DEF register, notify

LEMMA WakeQuiet ==
    ASSUME WakeInv, UNCHANGED <<entries, idle, used, pos, notified>>,
           NEW q \in Requests, notified'[q] = "waiting",
           \A r \in Requests :
              /\ caller[r] \in {"scan", "enable", "again", "parked"} => caller'[r] = caller[r]
              /\ call[r] = "notify" => call'[r] = "notify"
    PROVE  Covered(q)'
  BY Waits, CoverQuiet

LEMMA WakesInit == Init => WakesMatch
  BY DEF Init, WakesMatch

LEMMA WakesStep == WakeInv /\ [Next]_vars => WakesMatch'
<1>. SUFFICES ASSUME WakeInv, [Next]_vars, NEW q \in Requests, notified'[q] = "waiting"
              PROVE  Covered(q)'
  BY DEF WakesMatch
<1>0. /\ caller \in [Requests -> Callers] /\ call \in [Requests -> CallSteps]
      /\ \A r \in Requests : Legal(r)
  BY WakeTyped DEF WakeTypes
<1>1. ASSUME NEW r \in Requests,
             \/ arrive(r) \/ serialise_fails(r) \/ disconnect(r) \/ poll_deadline(r)
             \/ dispatch_call(r) \/ drop_clear(r)
      PROVE  Covered(q)'
  <2>1. UNCHANGED <<entries, idle, used, pos, notified>>
    BY <1>1 DEF arrive, serialise_fails, disconnect, poll_deadline, dispatch_call, drop_clear,
                pool, notify
  <2>2. /\ \A x \in Requests \ {r} : caller'[x] = caller[x] /\ call'[x] = call[x]
        /\ caller[r] \notin {"scan", "enable", "again", "parked"} /\ call[r] # "notify"
    <3>1. CASE arrive(r)
      BY <1>0, <3>1 DEF arrive, Legal
    <3>2. CASE serialise_fails(r)
      BY <1>0, <3>2 DEF serialise_fails, answer, Legal
    <3>3. CASE disconnect(r)
      BY <1>0, <3>3 DEF disconnect, detach, answer
    <3>4. CASE poll_deadline(r)
      BY <1>0, <3>4 DEF poll_deadline, detach, answer, Legal
    <3>5. CASE dispatch_call(r)
      BY <1>0, <3>5 DEF dispatch_call
    <3>6. CASE drop_clear(r)
      BY <1>0, <3>6 DEF drop_clear, Legal
    <3>. QED  BY <1>1, <3>1, <3>2, <3>3, <3>4, <3>5, <3>6
  <2>. QED  BY <2>1, <2>2, WakeQuiet
<1>2. ASSUME NEW r \in Requests,
             \/ plan_in_call(r) \/ resolve(r) \/ abandoned(r) \/ take_fetch_body(r)
             \/ pull_fetch_body(r)
      PROVE  Covered(q)'
  <2>1. UNCHANGED <<entries, idle, used, pos, notified, caller, call>>
    BY <1>2 DEF plan_in_call, resolve, abandoned, take_fetch_body, pull_fetch_body, pool, notify
  <2>. QED  BY <2>1, WakeQuiet
<1>3. ASSUME \/ (\E w \in Workers : worker_dies(w)) \/ Tick \/ sweep_tick
             \/ (\E s \in Slots : sweep_take(s)) \/ sweep_wake \/ UNCHANGED vars
      PROVE  Covered(q)'
  <2>1. UNCHANGED <<entries, idle, used, pos, notified, caller, call>>
    BY <1>3 DEF worker_dies, Tick, sweep_tick, sweep_take, sweep_wake, vars, pool, notify
  <2>. QED  BY <2>1, WakeQuiet
<1>4. CASE register
  BY <1>4, WakeRegister
<1>5. ASSUME NEW r \in Requests, poll_call(r) \/ detached_settles(r) PROVE Covered(q)'
  BY <1>5, WakeSettles
<1>6. ASSUME NEW r \in Requests,
             \/ pool_empty(r) \/ claim(r) \/ slot_busy(r) \/ enable_notified(r) \/ woken_up(r)
             \/ give_up(r) \/ drop_free(r) \/ drop_notify(r)
      PROVE  Covered(q)'
  BY <1>6, WakeEmpty, WakeClaim, WakeBusy, WakeEnable, WakeWoken, WakeGivesUp, WakeFree, WakeNotify
<1>. QED  BY <1>1, <1>2, <1>3, <1>4, <1>5, <1>6 DEF Next, Task, Client, Javascript, Sweeper, Finished

LEMMA WakeInvInit == Init => WakeInv
  BY TypeInit, StepsInit, LeasedInit, QueueInit, UsedInit, ListInit, WakesInit DEF WakeInv

LEMMA WakeInvStep == WakeInv /\ [Next]_vars => WakeInv'
<1>. SUFFICES ASSUME WakeInv, [Next]_vars PROVE WakeInv'
  OBVIOUS
<1>1. TypeOK /\ StepsMatch /\ Leased /\ QueueFits /\ UsedKnown /\ ListFits
  BY DEF WakeInv
<1>2. TypeOK'
  BY <1>1, TypeStep
<1>3. StepsMatch' /\ Leased' /\ QueueFits' /\ UsedKnown'
  BY <1>1, StepsStep, LeasedStep, QueueStep, UsedStep
<1>4. ListFits'
  BY <1>1, <1>2, ListStep
<1>5. WakesMatch'
  BY WakesStep
<1>. QED  BY <1>2, <1>3, <1>4, <1>5 DEF WakeInv

LEMMA CoveredNotLost == WakeInv => NoLostWakeup
<1>. SUFFICES ASSUME WakeInv, NEW q \in Requests, Unnotified(q), NEW s \in used, idle[s],
                     Registered(s[1])
              PROVE  \E r \in Requests : OnItsWay(r)
  BY DEF NoLostWakeup
<1>1. s \in Slots /\ Usable(s) /\ s \in Needs(q)
  BY DEF WakeInv, TypeOK, Usable, Needs, Unnotified
<1>2. PICK f \in [Slots -> Tokens] : Covers(f, Needs(q))
  BY Waits DEF Unnotified, Covered
<1>3. PICK r \in Requests, t \in {"look", "wake"} : Carries(<<r, t>>, s)
  <2>1. f[s] \in Tokens /\ Carries(f[s], s)
    BY <1>1, <1>2 DEF Covers
  <2>. QED  BY <2>1 DEF Tokens
<1>4. CASE notified[r] = "woken" \/ call[r] = "notify" \/ caller[r] = "enable"
  BY <1>4 DEF OnItsWay
<1>5. CASE caller[r] \in {"scan", "again"} /\ Ahead(r, s)
  <2>1. PICK i \in 1..Len(ScanOrder) : ScanOrder[i] = s
    BY <1>1, ScanReaches DEF WakeInv
  <2>2. i \in pos[r]..Len(ScanOrder)
    BY <1>5, <2>1, WakeTyped DEF Ahead, WakeTypes
  <2>. QED  BY <1>5, <2>1, <2>2 DEF OnItsWay
<1>. QED  BY <1>3, <1>4, <1>5 DEF Carries, Looks

(***************************************************************************)
(* Whatever the order of claims, releases, notifications, late permits,    *)
(* requests that give up with a wake in hand, and workers that come and    *)
(* go: as long as a request is parked on claim_or_wait's Notified with no  *)
(* wake of its own, no released slot of a registered worker is left idle   *)
(* without somebody on the way to it.                                      *)
(***************************************************************************)
THEOREM NoWakeIsLost == Spec => []NoLostWakeup
<1>1. Spec => []WakeInv
  BY WakeInvInit, WakeInvStep, PTL DEF Spec
<1>. QED  BY <1>1, CoveredNotLost, PTL
=============================================================================
