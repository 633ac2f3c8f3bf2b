------------------------ MODULE FundingAdmissionProofs ------------------------
(* Theorems about FundingAdmission, for any requests, jobs, keys and amounts:   *)
(* one row per job, and acceptance only of what the row holds.                  *)
EXTENDS FundingAdmission, FoldTheorems

USE AmountAssumption

\* Each follows from the state before and its own step, except that a row may only fail
\* without changing what a request was accepted for, which needs the rows' types.
IInv == TypeOK /\ OneFundingPerJob /\ AcceptedAsAsked

\* A request is answered.
LEMMA Answered ==
  ASSUME NEW q \in Request, NEW a \in Step, req \in [Request -> Handler], Answer(q, a)
  PROVE  /\ req' \in [Request -> Handler] /\ holder' = Nobody
         /\ req'[q].pc = a /\ req'[q].job = req[q].job /\ req'[q].amount = req[q].amount
         /\ \A p \in Request : p # q => req'[p] = req[p]
BY DEF Answer, Handler

\* Its handler goes on.
LEMMA Proceeds ==
  ASSUME NEW q \in Request, NEW a \in Step \ {"accepted"}, IInv,
         req' = [req EXCEPT ![q].pc = a], UNCHANGED rows
  PROVE  req' \in [Request -> Handler] /\ OneFundingPerJob' /\ AcceptedAsAsked'
<1>1. req' \in [Request -> Handler]
  BY DEF IInv, TypeOK, Handler
<1>2. /\ req'[q].pc = a /\ \A p \in Request : p # q => req'[p] = req[p]
  BY DEF IInv, TypeOK
<1> QED
  BY <1>1, <1>2 DEF IInv, OneFundingPerJob, AcceptedAsAsked

\* A request is refused, or accepted for a row that is there.
LEMMA Settled ==
  ASSUME NEW q \in Request, NEW a \in {"accepted", "refused"}, IInv, Answer(q, a),
         UNCHANGED <<rows, today>>,
         a = "accepted" => RowOf(req[q]) # {} /\ SameAmount(req[q])
  PROVE  IInv'
<1>1. /\ req' \in [Request -> Handler] /\ holder' = Nobody
      /\ req'[q].pc = a /\ req'[q].job = req[q].job /\ req'[q].amount = req[q].amount
      /\ \A p \in Request : p # q => req'[p] = req[p]
  BY Answered DEF IInv, TypeOK, Step
<1>2. a = "accepted" => \E r \in rows : r.job = req[q].job /\ r.amount = req[q].amount
  BY DEF RowOf, SameAmount
<1>3. AcceptedAsAsked'
  BY <1>1, <1>2 DEF IInv, AcceptedAsAsked
<1> QED
  BY <1>1, <1>3 DEF IInv, TypeOK, OneFundingPerJob

LEMMA LookupKeeps ==
  ASSUME IInv, NEW q \in Request, Lookup(q)
  PROVE  IInv'
<1>1. CASE RowOf(req[q]) = {}
  <2>1. req' = [req EXCEPT ![q].pc = "count"] /\ UNCHANGED <<rows, today, holder>>
    BY <1>1 DEF Lookup
  <2>2. "count" \in Step \ {"accepted"}
    BY DEF Step
  <2> QED
    BY <2>1, <2>2, Proceeds DEF IInv, TypeOK
<1>2. CASE RowOf(req[q]) # {}
  BY <1>2, Settled DEF Lookup
<1> QED
  BY <1>1, <1>2

LEMMA CountKeeps ==
  ASSUME IInv, NEW q \in Request, Count(q)
  PROVE  IInv'
<1>1. CASE Answer(q, "refused")
  BY <1>1, Settled DEF Count
<1>2. CASE req' = [req EXCEPT ![q].pc = "insert"] /\ UNCHANGED holder
  <2>1. "insert" \in Step \ {"accepted"}
    BY DEF Step
  <2> QED
    BY <1>2, <2>1, Proceeds DEF Count, IInv, TypeOK
<1> QED
  BY <1>1, <1>2 DEF Count

LEMMA InsertKeeps ==
  ASSUME IInv, NEW q \in Request, Insert(q)
  PROVE  IInv'
<1>1. CASE UNCHANGED rows /\ Answer(q, IF RowOf(req[q]) # {} /\ SameAmount(req[q]) THEN "accepted" ELSE "refused")
  BY <1>1, Settled DEF Insert
<1>2. CASE /\ RowOf(req[q]) = {} /\ rows' = rows \cup {NewRow(req[q])} /\ Answer(q, "accepted")
  <2>1. /\ req' \in [Request -> Handler] /\ holder' = Nobody
        /\ req'[q].job = req[q].job /\ req'[q].amount = req[q].amount
        /\ \A p \in Request : p # q => req'[p] = req[p]
    BY <1>2, Answered DEF IInv, TypeOK, Step
  <2>2. /\ NewRow(req[q]) \in FundingRow
        /\ NewRow(req[q]).job = req[q].job /\ NewRow(req[q]).amount = req[q].amount
    BY DEF IInv, TypeOK, NewRow, FundingRow, Handler
  <2>3. UNCHANGED today
    BY DEF Insert
  <2>4. TypeOK'
    BY <1>2, <2>1, <2>2, <2>3 DEF IInv, TypeOK
  <2>5. OneFundingPerJob'
    BY <1>2, <2>2 DEF IInv, OneFundingPerJob, RowOf
  <2>6. AcceptedAsAsked'
    BY <1>2, <2>1, <2>2 DEF IInv, AcceptedAsAsked
  <2> QED
    BY <2>4, <2>5, <2>6 DEF IInv
<1> QED
  BY <1>1, <1>2 DEF Insert

LEMMA FailKeeps ==
  ASSUME IInv, NEW r \in rows, Fail(r)
  PROVE  IInv'
<1> DEFINE s == [r EXCEPT !.failed = TRUE]
<1>1. s \in FundingRow /\ s.job = r.job /\ s.amount = r.amount
  BY DEF IInv, TypeOK, FundingRow
<1>2. rows' = (rows \ {r}) \cup {s} /\ UNCHANGED <<today, holder, req>>
  BY DEF Fail
<1> HIDE DEF s
<1>3. TypeOK'
  BY <1>1, <1>2 DEF IInv, TypeOK
<1>4. OneFundingPerJob'
  BY <1>1, <1>2 DEF IInv, OneFundingPerJob
<1>5. AcceptedAsAsked'
  BY <1>1, <1>2 DEF IInv, AcceptedAsAsked
<1> QED
  BY <1>3, <1>4, <1>5 DEF IInv

\* The invariant holds of every reachable state.
THEOREM Invariance == Spec => []IInv
<1>1. Init => IInv
  BY DEF Init, IInv, TypeOK, OneFundingPerJob, AcceptedAsAsked, Handler
<1>2. IInv /\ [Next]_vars => IInv'
  <2> SUFFICES ASSUME IInv, [Next]_vars PROVE IInv'
    OBVIOUS
  <2>1. ASSUME NEW q \in Request, Lock(q) PROVE IInv'
    <3>1. "lookup" \in Step \ {"accepted"}
      BY DEF Step
    <3> QED
      BY <2>1, <3>1, Proceeds DEF Lock, IInv, TypeOK
  <2>2. ASSUME NEW q \in Request, Abort(q) PROVE IInv'
    BY <2>2, Settled DEF Abort
  <2>3. CASE Midnight
    BY <2>3 DEF Midnight, IInv, TypeOK, OneFundingPerJob, AcceptedAsAsked
  <2>4. CASE UNCHANGED vars
    BY <2>4 DEF vars, IInv, TypeOK, OneFundingPerJob, AcceptedAsAsked
  <2> QED
    BY <2>1, <2>2, <2>3, <2>4, LookupKeeps, CountKeeps, InsertKeeps, FailKeeps DEF Next
<1> QED
  BY <1>1, <1>2, PTL DEF Spec

\* Every variable keeps its type.
THEOREM TypeCorrect == Spec => []TypeOK
<1>1. IInv => TypeOK
  BY DEF IInv
<1> QED
  BY <1>1, Invariance, PTL

\* A job has one row at most, whatever requests, keys, aborts and failures there are.
THEOREM OneRowPerJob == Spec => []OneFundingPerJob
<1>1. IInv => OneFundingPerJob
  BY DEF IInv
<1> QED
  BY <1>1, Invariance, PTL

\* An accepted request has a row of its own job and amount.
THEOREM AcceptedIsHeld == Spec => []AcceptedAsAsked
<1>1. IInv => AcceptedAsAsked
  BY DEF IInv
<1> QED
  BY <1>1, Invariance, PTL

--------------------------------------------------------------------------------
(* The daily limit.                                                             *)

\* A total of rows is the sum of their amounts.
LEMMA TotalIs ==
  ASSUME NEW T, IsFiniteSet(T), T \subseteq FundingRow
  PROVE  \E f : IsSum(f, [r \in T |-> r.amount], T) /\ Total(T) = f[T]
<1> DEFINE g == [r \in T |-> r.amount]
           Added(f) == [s \in SUBSET T |->
                IF s = {} THEN 0 ELSE LET x == CHOOSE x \in s : TRUE IN x.amount + f[s \ {x}]]
           iter == CHOOSE f : f = Added(f)
           pick == [s \in SUBSET T |-> CHOOSE x \in s : TRUE]
<1>1. Total(T) = iter[T]
  BY DEF Total, MapThenSumSet, MapThenFoldSet
<1>2. g \in [T -> Nat]
  BY DEF FundingRow
<1>3. PICK f \in [SUBSET T -> Nat] : AddingUp(f, g, T)
  <2> HIDE DEF g
  <2> QED
    BY <1>2, AddingUpExists
<1>4. IsSum(f, g, T)
  <2> HIDE DEF g
  <2> QED
    BY <1>2, <1>3, AddingUpIsSum
<1>5. f = Added(f)
  <2>1. ASSUME NEW s \in SUBSET T, s # {} PROVE (CHOOSE x \in s : TRUE) \in T
    BY <2>1
  <2> QED
    BY <1>3, <2>1 DEF AddingUp
<1>6. iter = Added(iter)
  <2> HIDE DEF Added
  <2> QED
    BY <1>5
<1>7. Alike(iter, f, T, pick)
  <2>1. iter[{}] = f[{}]
    BY <1>5, <1>6
  <2>2. \A s \in SUBSET T : s # {} =>
          pick[s] \in s /\ (iter[s \ {pick[s]}] = f[s \ {pick[s]}] => iter[s] = f[s])
    <3> HIDE DEF iter
    <3> QED
      BY <1>5, <1>6
  <2> HIDE DEF iter, pick
  <2> QED
    BY <2>1, <2>2 DEF Alike
<1>8. iter[T] = f[T]
  <2>1. \A s \in SUBSET T : iter[s] = f[s]
    <3> HIDE DEF iter, pick
    <3> QED
      BY <1>7, SameFold
  <2> HIDE DEF iter
  <2> QED
    BY <2>1
<1> QED
  BY <1>1, <1>4, <1>8

LEMMA TotalNat ==
  ASSUME NEW T, IsFiniteSet(T), T \subseteq FundingRow
  PROVE  Total(T) \in Nat
<1>1. PICK f : IsSum(f, [r \in T |-> r.amount], T) /\ Total(T) = f[T]
  BY TotalIs
<1>2. f \in [SUBSET T -> Nat]
  BY <1>1 DEF IsSum
<1> QED
  BY <1>1, <1>2

LEMMA TotalEmpty == Total({}) = 0
BY TotalIs, FS_EmptySet DEF IsSum

\* Rows that no longer count lower the total.
LEMMA TotalGrows ==
  ASSUME NEW U, IsFiniteSet(U), U \subseteq FundingRow, NEW T, T \subseteq U
  PROVE  Total(T) <= Total(U)
<1> DEFINE g == [r \in U |-> r.amount]
           e == [r \in T |-> r.amount]
<1>1. PICK f : IsSum(f, g, U) /\ Total(U) = f[U]
  BY TotalIs
<1>2. IsFiniteSet(T) /\ T \subseteq FundingRow
  BY FS_Subset
<1>3. PICK h : IsSum(h, e, T) /\ Total(T) = h[T]
  BY <1>2, TotalIs
<1>4. g \in [U -> Nat] /\ \A x \in T : e[x] = g[x]
  BY DEF FundingRow
<1> HIDE DEF g, e
<1>5. h[T] = f[T]
  BY <1>1, <1>2, <1>3, <1>4, SameSum
<1>6. f[T] <= f[U]
  BY <1>1, <1>4, SumGrows
<1> QED
  BY <1>1, <1>3, <1>5, <1>6

\* A new row adds its amount.
LEMMA TotalAdds ==
  ASSUME NEW T, IsFiniteSet(T), T \subseteq FundingRow, NEW r \in FundingRow, r \notin T
  PROVE  Total(T \cup {r}) = Total(T) + r.amount
<1> DEFINE U == T \cup {r}
           g == [x \in U |-> x.amount]
           e == [x \in T |-> x.amount]
<1>1. IsFiniteSet(U) /\ U \subseteq FundingRow
  BY FS_AddElement
<1>2. PICK f : IsSum(f, g, U) /\ Total(U) = f[U]
  <2> HIDE DEF U
  <2> QED
    BY <1>1, TotalIs
<1>3. PICK h : IsSum(h, e, T) /\ Total(T) = h[T]
  BY TotalIs
<1>4. U \ {r} = T /\ r \in U /\ T \subseteq U /\ g[r] = r.amount /\ \A x \in T : e[x] = g[x]
  OBVIOUS
<1> HIDE DEF U, g, e
<1>5. f[U] = f[T] + g[r]
  BY <1>2, <1>4 DEF IsSum
<1>6. h[T] = f[T]
  BY <1>2, <1>3, <1>4, SameSum
<1> QED
  BY <1>2, <1>3, <1>4, <1>5, <1>6 DEF U

\* The rows that count towards a day's limit.
Held(d) == {r \in rows : r.day = d /\ ~r.failed}

\* The steps of a handler at which it holds the operator's lock.
Locking == {"lookup", "count", "insert"}

\* The lock makes its holder the only handler between the sum and the insert, so that what
\* the day holds and the amount asked for stay within the limit until it inserts: rows only
\* come to be failed, and a day that begins in between holds nothing, rows being of the past.
LimitInv ==
  /\ IsFiniteSet(rows)
  /\ \A r \in rows : r.day <= today
  /\ \A q \in Request : req[q].pc \in Locking => holder = q
  /\ \A q \in Request : req[q].pc = "insert" => Total(Held(today)) + req[q].amount <= DailyLimit
  /\ \A d \in 0..LastDay : Total(Held(d)) <= DailyLimit

\* What is reserved today is what the day holds.
LEMMA ReservedIsHeld ==
  ASSUME TypeOK, LimitInv
  PROVE  Reserved(today) = Held(today)
<1>1. ASSUME NEW r \in rows PROVE r.day >= today <=> r.day = today
  <2>1. r.day \in Nat /\ today \in Nat /\ r.day <= today
    BY DEF TypeOK, LimitInv, FundingRow
  <2> QED
    BY <2>1
<1> QED
  BY <1>1 DEF Reserved, Held

\* The rows of a day have a total.
LEMMA HeldNat ==
  ASSUME TypeOK, LimitInv, NEW d
  PROVE  Total(Held(d)) \in Nat /\ IsFiniteSet(Held(d)) /\ Held(d) \subseteq FundingRow
<1>1. IsFiniteSet(Held(d)) /\ Held(d) \subseteq FundingRow
  BY FS_Subset DEF TypeOK, LimitInv, Held
<1> QED
  BY <1>1, TotalNat

\* A handler that leaves the rows alone keeps the limit, if it may insert only after it has
\* summed up, and holds the lock where it must.
LEMMA HandlerKeeps ==
  ASSUME IInv, LimitInv, NEW q \in Request, UNCHANGED <<rows, today>>,
         req' \in [Request -> Handler], \A p \in Request : p # q => req'[p] = req[p],
         req'[q].amount = req[q].amount,
         req[q].pc \in Locking \/ holder = Nobody,
         req'[q].pc \in Locking => holder' = q,
         req'[q].pc = "insert" => Total(Held(today)) + req[q].amount <= DailyLimit
  PROVE  LimitInv'
<1>1. \A d : Held(d)' = Held(d)
  BY DEF Held
<1>2. \A d \in 0..LastDay : Total(Held(d))' <= DailyLimit
  BY <1>1 DEF LimitInv
<1>3. ASSUME NEW p \in Request, p # q, req[p].pc \in Locking PROVE FALSE
  BY <1>3, NobodyAssumption DEF LimitInv
<1>4. \A p \in Request : req'[p].pc \in Locking => holder' = p
  BY <1>3
<1>5. \A p \in Request : req'[p].pc = "insert" => Total(Held(today))' + req'[p].amount <= DailyLimit
  BY <1>1, <1>3 DEF LimitInv, Locking
<1> QED
  BY <1>2, <1>4, <1>5 DEF LimitInv

\* A request inserts its row.
LEMMA InsertLimits ==
  ASSUME IInv, LimitInv, NEW q \in Request, Insert(q)
  PROVE  LimitInv'
<1>1. req[q].pc = "insert" /\ req[q].pc \in Locking /\ UNCHANGED today
  BY DEF Insert, Locking
<1>2. CASE UNCHANGED rows /\ Answer(q, IF RowOf(req[q]) # {} /\ SameAmount(req[q]) THEN "accepted" ELSE "refused")
  <2>1. /\ req' \in [Request -> Handler] /\ req'[q].amount = req[q].amount
        /\ req'[q].pc \in {"accepted", "refused"} /\ \A p \in Request : p # q => req'[p] = req[p]
    BY <1>2, Answered DEF IInv, TypeOK, Step
  <2> QED
    BY <1>1, <1>2, <2>1, HandlerKeeps DEF Locking
<1>3. CASE RowOf(req[q]) = {} /\ rows' = rows \cup {NewRow(req[q])} /\ Answer(q, "accepted")
  <2> DEFINE new == NewRow(req[q])
  <2>1. /\ req'[q].pc = "accepted" /\ \A p \in Request : p # q => req'[p] = req[p]
    BY <1>3, Answered DEF IInv, TypeOK, Step
  <2>2. new \in FundingRow /\ new.day = today /\ ~new.failed /\ new.amount = req[q].amount
        /\ new.job = req[q].job
    BY DEF IInv, TypeOK, NewRow, FundingRow, Handler
  <2>3. new \notin rows
    BY <1>3, <2>2 DEF RowOf
  <2> HIDE DEF new
  <2>4. rows' = rows \cup {new}
    BY <1>3 DEF new
  <2>5. IsFiniteSet(rows')
    BY <2>4, FS_AddElement DEF LimitInv
  <2>6. \A r \in rows' : r.day <= today'
    <3>1. today \in Nat
      BY DEF IInv, TypeOK
    <3>2. today <= today
      BY <3>1
    <3> QED
      BY <1>1, <2>2, <2>4, <3>2 DEF LimitInv
  <2>7. \A p \in Request : p # q => req[p].pc \notin Locking
    BY <1>1 DEF LimitInv
  <2>8. \A p \in Request : req'[p].pc \notin Locking
    BY <2>1, <2>7 DEF Locking
  <2>9. ASSUME NEW d \in 0..LastDay PROVE Total(Held(d))' <= DailyLimit
    <3>1. CASE d = today
      <4>1. Held(d)' = Held(d) \cup {new} /\ new \notin Held(d)
        BY <2>2, <2>3, <2>4, <3>1 DEF Held
      <4>2. Total(Held(d) \cup {new}) = Total(Held(d)) + new.amount
        BY <2>2, <4>1, HeldNat, TotalAdds DEF IInv
      <4>3. Total(Held(d)) + new.amount <= DailyLimit
        BY <1>1, <2>2, <3>1 DEF LimitInv
      <4> QED
        BY <4>1, <4>2, <4>3
    <3>2. CASE d # today
      <4>1. Held(d)' = Held(d)
        BY <2>2, <2>4, <3>2 DEF Held
      <4> QED
        BY <4>1 DEF LimitInv
    <3> QED
      BY <3>1, <3>2
  <2> QED
    BY <2>5, <2>6, <2>8, <2>9 DEF LimitInv, Locking
<1> QED
  BY <1>2, <1>3 DEF Insert

\* A row fails.
LEMMA FailLimits ==
  ASSUME IInv, LimitInv, NEW r \in rows, Fail(r)
  PROVE  LimitInv'
<1> DEFINE s == [r EXCEPT !.failed = TRUE]
<1>1. s \in FundingRow /\ s.day = r.day /\ s.failed
  BY DEF IInv, TypeOK, FundingRow
<1>2. rows' = (rows \ {r}) \cup {s} /\ UNCHANGED <<today, holder, req>>
  BY DEF Fail
<1> HIDE DEF s
<1>3. IsFiniteSet(rows')
  BY <1>2, FS_AddElement, FS_Subset, rows \ {r} \subseteq rows DEF LimitInv
<1>4. \A x \in rows' : x.day <= today'
  BY <1>1, <1>2 DEF LimitInv
<1>5. ASSUME NEW d PROVE Total(Held(d))' <= Total(Held(d)) /\ Total(Held(d))' \in Nat
  <2>1. Held(d)' \subseteq Held(d)
    BY <1>1, <1>2 DEF Held
  <2>2. IsFiniteSet(Held(d)) /\ Held(d) \subseteq FundingRow
    BY HeldNat DEF IInv
  <2>3. IsFiniteSet(Held(d)') /\ Held(d)' \subseteq FundingRow
    BY <2>1, <2>2, FS_Subset
  <2> QED
    BY <2>1, <2>2, <2>3, TotalGrows, TotalNat
<1>6. \A d \in 0..LastDay : Total(Held(d))' <= DailyLimit
  <2> SUFFICES ASSUME NEW d \in 0..LastDay PROVE Total(Held(d))' <= DailyLimit
    OBVIOUS
  <2>1. Total(Held(d)) \in Nat /\ Total(Held(d)) <= DailyLimit
    BY HeldNat DEF IInv, LimitInv
  <2> QED
    BY <1>5, <2>1
<1>7. ASSUME NEW q \in Request, req'[q].pc = "insert"
      PROVE  Total(Held(today))' + req'[q].amount <= DailyLimit
  <2>1. Total(Held(today)) + req[q].amount <= DailyLimit
    BY <1>2, <1>7 DEF LimitInv
  <2>2. Total(Held(today))' <= Total(Held(today)) /\ Total(Held(today))' \in Nat
    BY <1>2, <1>5 DEF Held
  <2>3. Total(Held(today)) \in Nat /\ req[q].amount \in Nat /\ req'[q].amount = req[q].amount
    BY <1>2, HeldNat DEF IInv, TypeOK, Handler
  <2> QED
    BY <2>1, <2>2, <2>3
<1> QED
  BY <1>2, <1>3, <1>4, <1>6, <1>7 DEF LimitInv

\* A day begins.
LEMMA MidnightLimits ==
  ASSUME IInv, LimitInv, Midnight
  PROVE  LimitInv'
<1>1. /\ today \in Nat /\ today' = today + 1 /\ today' \in 0..LastDay
      /\ UNCHANGED <<rows, holder, req>>
  BY DEF Midnight, IInv, TypeOK
<1>2. \A r \in rows : r.day \in Nat /\ r.day <= today
  BY DEF IInv, TypeOK, LimitInv, FundingRow
<1>3. \A d : Held(d)' = Held(d)
  BY <1>1 DEF Held
<1>4. Held(today)' = {}
  BY <1>1, <1>2 DEF Held
<1>5. \A q \in Request : req'[q].pc = "insert" => Total(Held(today))' + req'[q].amount <= DailyLimit
  <2> SUFFICES ASSUME NEW q \in Request, req[q].pc = "insert" PROVE req[q].amount <= DailyLimit
                 /\ req[q].amount \in Nat
    BY <1>1, <1>4, TotalEmpty
  <2>1. Total(Held(today)) \in Nat /\ req[q].amount \in Nat
    BY HeldNat DEF IInv, TypeOK, Handler
  <2>2. Total(Held(today)) + req[q].amount <= DailyLimit
    BY DEF LimitInv
  <2> QED
    BY <2>1, <2>2
<1>6. \A r \in rows' : r.day <= today'
  BY <1>1, <1>2
<1>7. \A d \in 0..LastDay : Total(Held(d))' <= DailyLimit
  BY <1>3 DEF LimitInv
<1> QED
  BY <1>1, <1>5, <1>6, <1>7 DEF LimitInv

\* The limit of every day holds, whatever requests race and wherever midnight falls.
THEOREM DailyLimitKept == Spec => []WithinDailyLimit
<1>1. Init => LimitInv
  <2> SUFFICES ASSUME Init PROVE LimitInv
    OBVIOUS
  <2>1. rows = {} /\ \A d : Held(d) = {}
    BY DEF Init, Held
  <2>2. \A q \in Request : req[q].pc = "lock"
    BY DEF Init
  <2>3. \A d \in 0..LastDay : Total(Held(d)) <= DailyLimit
    BY <2>1, TotalEmpty
  <2> QED
    BY <2>1, <2>2, <2>3, FS_EmptySet DEF LimitInv, Locking
<1>2. IInv /\ LimitInv /\ [Next]_vars => LimitInv'
  <2> SUFFICES ASSUME IInv, LimitInv, [Next]_vars PROVE LimitInv'
    OBVIOUS
  <2>1. ASSUME NEW q \in Request, Lock(q) PROVE LimitInv'
    <3>1. /\ req' \in [Request -> Handler] /\ req'[q].pc = "lookup" /\ req'[q].amount = req[q].amount
          /\ \A p \in Request : p # q => req'[p] = req[p]
      BY <2>1 DEF Lock, IInv, TypeOK, Handler, Step
    <3> QED
      BY <2>1, <3>1, HandlerKeeps DEF Lock, Locked
  <2>2. ASSUME NEW q \in Request, NEW a \in {"accepted", "refused"}, Answer(q, a),
               UNCHANGED <<rows, today>>, req[q].pc \in Locking
        PROVE  LimitInv'
    <3>1. /\ req' \in [Request -> Handler] /\ req'[q].pc = a /\ req'[q].amount = req[q].amount
          /\ \A p \in Request : p # q => req'[p] = req[p]
      BY <2>2, Answered DEF IInv, TypeOK, Step
    <3> QED
      BY <2>2, <3>1, HandlerKeeps DEF Locking
  <2>3. ASSUME NEW q \in Request, NEW a \in {"count", "insert"}, req[q].pc \in Locking,
               req' = [req EXCEPT ![q].pc = a], UNCHANGED <<rows, today, holder>>,
               a = "insert" => Total(Held(today)) + req[q].amount <= DailyLimit
        PROVE  LimitInv'
    <3>1. /\ req' \in [Request -> Handler] /\ req'[q].pc = a /\ req'[q].amount = req[q].amount
          /\ \A p \in Request : p # q => req'[p] = req[p]
      BY <2>3 DEF IInv, TypeOK, Handler, Step
    <3>2. holder' = q
      BY <2>3 DEF LimitInv
    <3> QED
      BY <2>3, <3>1, <3>2, HandlerKeeps
  <2>4. ASSUME NEW q \in Request, Lookup(q) PROVE LimitInv'
    <3>1. req[q].pc \in Locking /\ UNCHANGED <<rows, today>>
      BY <2>4 DEF Lookup, Locking
    <3> QED
      BY <2>2, <2>3, <2>4, <3>1 DEF Lookup
  <2>5. ASSUME NEW q \in Request, Count(q) PROVE LimitInv'
    <3>1. req[q].pc \in Locking /\ UNCHANGED <<rows, today>>
      BY <2>5 DEF Count, Locking
    <3>2. Total(Held(today)) \in Nat /\ req[q].amount \in Nat
      BY HeldNat DEF IInv, TypeOK, Handler
    <3>3. Total(Reserved(today)) = Total(Held(today))
      BY ReservedIsHeld DEF IInv
    <3> QED
      BY <2>2, <2>3, <2>5, <3>1, <3>2, <3>3 DEF Count
  <2>6. ASSUME NEW q \in Request, Abort(q) PROVE LimitInv'
    BY <2>2, <2>6 DEF Abort, Locking
  <2>7. CASE UNCHANGED vars
    BY <2>7 DEF vars, LimitInv, Held
  <2> QED
    BY <2>1, <2>4, <2>5, <2>6, <2>7, InsertLimits, FailLimits, MidnightLimits DEF Next
<1>3. LimitInv => WithinDailyLimit
  BY DEF LimitInv, WithinDailyLimit, Held
<1> QED
  BY <1>1, <1>2, <1>3, Invariance, PTL DEF Spec
================================================================================
