------------------------- MODULE TaskExecutor_proofs -------------------------
(***************************************************************************)
(* Proofs about TaskExecutor for every finite graph, acyclic or not unless *)
(* a theorem says so, every assignment of kinds and streams, and with any  *)
(* set of kernels allowed to fail.                                         *)
(***************************************************************************)
EXTENDS TaskExecutor, FiniteSetTheorems, WellFoundedInduction, TLAPS

-----------------------------------------------------------------------------
(* Queues of distinct tasks *)

LEMMA AscendingQueue ==
  ASSUME NEW S \in SUBSET Task, NEW s \in Ascending(S)
  PROVE  /\ s \in Seq(Task)
         /\ Distinct(s)
         /\ \A t \in Task : Holds(s, t) <=> t \in S
<1>1. IsFiniteSet(S) /\ Cardinality(S) \in Nat
  BY TaskAssumption, FS_Subset, FS_CardinalityType
<1>2. s \in [1 .. Cardinality(S) -> S] /\ S \subseteq Nat
  BY TaskAssumption DEF Ascending
<1>3. s \in Seq(Task)
  <2>1. s \in [1 .. Cardinality(S) -> Task]
    BY <1>2
  <2>2. QED
    BY <1>1, <2>1
<1>4. Distinct(s)
  <2> SUFFICES ASSUME NEW i \in DOMAIN s, NEW j \in DOMAIN s, s[i] = s[j]
               PROVE  i = j
    BY DEF Distinct
  <2>1. i \in Nat /\ j \in Nat /\ s[i] \in Nat /\ s[j] \in Nat
    <3>1. i \in 1 .. Cardinality(S) /\ j \in 1 .. Cardinality(S)
      BY <1>2
    <3>2. s[i] \in S /\ s[j] \in S
      BY <1>2, <3>1
    <3>3. S \subseteq Nat
      BY <1>2
    <3>4. s[i] \in Nat /\ s[j] \in Nat
      BY <3>2, <3>3
    <3>5. QED
      BY <1>1, <3>1, <3>4
  <2>2. ~(i < j) /\ ~(j < i)
    BY <2>1 DEF Ascending
  <2>3. QED
    BY <2>1, <2>2
<1>5. \A t \in Task : Holds(s, t) <=> t \in S
  BY <1>2 DEF Ascending, Holds
<1>6. QED
  BY <1>3, <1>4, <1>5

LEMMA ConcatQueue ==
  ASSUME NEW q \in Seq(Task), NEW r \in Seq(Task), Distinct(q), Distinct(r),
         \A t \in Task : ~(Holds(q, t) /\ Holds(r, t))
  PROVE  /\ q \o r \in Seq(Task)
         /\ Distinct(q \o r)
         /\ \A t \in Task : Holds(q \o r, t) <=> Holds(q, t) \/ Holds(r, t)
<1> DEFINE n == Len(q)
<1>1. /\ q \o r \in Seq(Task)
      /\ DOMAIN (q \o r) = 1 .. n + Len(r)
      /\ DOMAIN q = 1 .. n /\ DOMAIN r = 1 .. Len(r)
      /\ n \in Nat /\ Len(r) \in Nat
  OBVIOUS
<1>2. /\ \A i \in 1 .. n : (q \o r)[i] = q[i] /\ q[i] \in Task
      /\ \A i \in 1 .. Len(r) : (q \o r)[n + i] = r[i] /\ r[i] \in Task
  OBVIOUS
<1>3. \A i \in DOMAIN (q \o r) : i \in 1 .. n \/ (i - n \in 1 .. Len(r) /\ i = n + (i - n))
  BY <1>1
<1>4. Distinct(q \o r)
  <2> SUFFICES ASSUME NEW i \in DOMAIN (q \o r), NEW j \in DOMAIN (q \o r),
                      (q \o r)[i] = (q \o r)[j]
               PROVE  i = j
    BY DEF Distinct
  <2>1. CASE i \in 1 .. n /\ j \in 1 .. n
    BY <2>1, <1>1, <1>2 DEF Distinct
  <2>2. CASE i \in 1 .. n /\ j - n \in 1 .. Len(r) /\ j = n + (j - n)
    <3>1. q[i] = r[j - n] /\ q[i] \in Task
      BY <2>2, <1>2
    <3>2. Holds(q, q[i]) /\ Holds(r, q[i])
      BY <2>2, <3>1, <1>1 DEF Holds
    <3>3. QED
      BY <3>1, <3>2
  <2>3. CASE j \in 1 .. n /\ i - n \in 1 .. Len(r) /\ i = n + (i - n)
    <3>1. q[j] = r[i - n] /\ q[j] \in Task
      BY <2>3, <1>2
    <3>2. Holds(q, q[j]) /\ Holds(r, q[j])
      BY <2>3, <3>1, <1>1 DEF Holds
    <3>3. QED
      BY <3>1, <3>2
  <2>4. CASE /\ i - n \in 1 .. Len(r) /\ i = n + (i - n)
             /\ j - n \in 1 .. Len(r) /\ j = n + (j - n)
    <3>1. r[i - n] = r[j - n]
      BY <2>4, <1>2
    <3>2. i - n = j - n
      BY <2>4, <3>1, <1>1 DEF Distinct
    <3>3. QED
      BY <3>2, <1>1
  <2>5. QED
    BY <2>1, <2>2, <2>3, <2>4, <1>3
<1>5. ASSUME NEW t \in Task
      PROVE  Holds(q \o r, t) <=> Holds(q, t) \/ Holds(r, t)
  <2>1. ASSUME Holds(q, t) PROVE Holds(q \o r, t)
    BY <2>1, <1>1, <1>2 DEF Holds
  <2>2. ASSUME Holds(r, t) PROVE Holds(q \o r, t)
    <3>1. PICK i \in 1 .. Len(r) : r[i] = t
      BY <2>2, <1>1 DEF Holds
    <3>2. n + i \in DOMAIN (q \o r) /\ (q \o r)[n + i] = t
      BY <3>1, <1>1, <1>2
    <3>3. QED
      BY <3>2 DEF Holds
  <2>3. ASSUME Holds(q \o r, t) PROVE Holds(q, t) \/ Holds(r, t)
    <3>1. PICK i \in DOMAIN (q \o r) : (q \o r)[i] = t
      BY <2>3 DEF Holds
    <3>2. QED
      BY <3>1, <1>1, <1>2, <1>3 DEF Holds
  <2>4. QED
    BY <2>1, <2>2, <2>3
<1>6. QED
  BY <1>1, <1>4, <1>5

LEMMA TailQueue ==
  ASSUME NEW q \in Seq(Task), q # <<>>, Distinct(q)
  PROVE  /\ Head(q) \in Task /\ Holds(q, Head(q))
         /\ Tail(q) \in Seq(Task)
         /\ Distinct(Tail(q))
         /\ \A t \in Task : Holds(Tail(q), t) <=> Holds(q, t) /\ t # Head(q)
<1>1. /\ Len(q) \in Nat /\ Len(q) >= 1 /\ DOMAIN q = 1 .. Len(q)
      /\ Head(q) = q[1] /\ q[1] \in Task
      /\ Tail(q) \in Seq(Task) /\ DOMAIN Tail(q) = 1 .. Len(q) - 1
      /\ \A i \in 1 .. Len(q) - 1 : Tail(q)[i] = q[i + 1]
  OBVIOUS
<1>2. Holds(q, Head(q))
  BY <1>1 DEF Holds
<1>3. Distinct(Tail(q))
  <2> SUFFICES ASSUME NEW i \in 1 .. Len(q) - 1, NEW j \in 1 .. Len(q) - 1,
                      q[i + 1] = q[j + 1]
               PROVE  i = j
    BY <1>1 DEF Distinct
  <2>1. i + 1 \in DOMAIN q /\ j + 1 \in DOMAIN q
    BY <1>1
  <2>2. i + 1 = j + 1
    BY <2>1 DEF Distinct
  <2>3. QED
    BY <2>2
<1>4. ASSUME NEW t \in Task
      PROVE  Holds(Tail(q), t) <=> Holds(q, t) /\ t # Head(q)
  <2>1. ASSUME Holds(Tail(q), t) PROVE Holds(q, t) /\ t # Head(q)
    <3>1. PICK i \in 1 .. Len(q) - 1 : q[i + 1] = t
      BY <2>1, <1>1 DEF Holds
    <3>2. i + 1 \in DOMAIN q /\ 1 \in DOMAIN q /\ i + 1 # 1
      BY <1>1, <3>1
    <3>3. q[1] # q[i + 1]
      BY <3>2 DEF Distinct
    <3>4. QED
      BY <3>1, <3>2, <3>3, <1>1 DEF Holds
  <2>2. ASSUME Holds(q, t), t # Head(q) PROVE Holds(Tail(q), t)
    <3>1. PICK i \in 1 .. Len(q) : q[i] = t
      BY <2>2, <1>1 DEF Holds
    <3>2. i - 1 \in 1 .. Len(q) - 1 /\ (i - 1) + 1 = i
      BY <3>1, <2>2, <1>1
    <3>3. QED
      BY <3>1, <3>2, <1>1 DEF Holds
  <2>3. QED
    BY <2>1, <2>2
<1>5. QED
  BY <1>1, <1>2, <1>3, <1>4

LEMMA AppendQueue ==
  ASSUME NEW q \in Seq(Task), NEW x \in Task, Distinct(q), ~Holds(q, x)
  PROVE  /\ Append(q, x) \in Seq(Task)
         /\ Distinct(Append(q, x))
         /\ \A t \in Task : Holds(Append(q, x), t) <=> Holds(q, t) \/ t = x
<1>1. /\ Len(q) \in Nat /\ DOMAIN q = 1 .. Len(q)
      /\ Append(q, x) \in Seq(Task) /\ DOMAIN Append(q, x) = 1 .. Len(q) + 1
      /\ \A i \in 1 .. Len(q) : Append(q, x)[i] = q[i] /\ q[i] # x
      /\ Append(q, x)[Len(q) + 1] = x
  BY DEF Holds
<1>2. \A i \in 1 .. Len(q) + 1 : i \in 1 .. Len(q) \/ i = Len(q) + 1
  BY <1>1
<1>3. Distinct(Append(q, x))
  BY <1>1, <1>2 DEF Distinct
<1>4. ASSUME NEW t \in Task
      PROVE  Holds(Append(q, x), t) <=> Holds(q, t) \/ t = x
  <2>1. Len(q) + 1 \in 1 .. Len(q) + 1 /\ \A i \in 1 .. Len(q) : i \in 1 .. Len(q) + 1
    BY <1>1
  <2>2. QED
    BY <1>1, <1>2, <2>1 DEF Holds
<1>5. QED
  BY <1>1, <1>3, <1>4

LEMMA RemoveQueue ==
  ASSUME NEW q \in Seq(Task), NEW k \in 1 .. Len(q), Distinct(q)
  PROVE  /\ q[k] \in Task /\ Holds(q, q[k])
         /\ RemoveAt(q, k) \in Seq(Task)
         /\ Distinct(RemoveAt(q, k))
         /\ \A t \in Task : Holds(RemoveAt(q, k), t) <=> Holds(q, t) /\ t # q[k]
<1> DEFINE a == SubSeq(q, 1, k - 1)
           b == SubSeq(q, k + 1, Len(q))
<1>1. /\ Len(q) \in Nat /\ DOMAIN q = 1 .. Len(q) /\ k \in Nat /\ q[k] \in Task
      /\ a \in Seq(Task) /\ DOMAIN a = 1 .. k - 1
      /\ \A i \in 1 .. k - 1 : a[i] = q[i]
      /\ b \in Seq(Task) /\ DOMAIN b = 1 .. Len(q) - k
      /\ \A i \in 1 .. Len(q) - k : b[i] = q[k + i]
  OBVIOUS
<1>2. \A i \in 1 .. k - 1 : i \in DOMAIN q /\ i < k
  BY <1>1
<1>3. \A i \in 1 .. Len(q) - k : k + i \in DOMAIN q /\ k + i > k
  BY <1>1
<1>4. Distinct(a)
  BY <1>1, <1>2 DEF Distinct
<1>5. Distinct(b)
  <2> SUFFICES ASSUME NEW i \in 1 .. Len(q) - k, NEW j \in 1 .. Len(q) - k,
                      q[k + i] = q[k + j]
               PROVE  i = j
    BY <1>1 DEF Distinct
  <2>1. k + i = k + j
    BY <1>3 DEF Distinct
  <2>2. QED
    BY <2>1, <1>1
<1>6. ASSUME NEW t \in Task, Holds(a, t), Holds(b, t) PROVE FALSE
  <2>1. PICK i \in 1 .. k - 1 : q[i] = t
    BY <1>1, <1>6 DEF Holds
  <2>2. PICK j \in 1 .. Len(q) - k : q[k + j] = t
    BY <1>1, <1>6 DEF Holds
  <2>3. i = k + j
    BY <2>1, <2>2, <1>2, <1>3 DEF Distinct
  <2>4. QED
    BY <2>1, <2>2, <2>3, <1>1
<1>7. /\ a \o b \in Seq(Task) /\ Distinct(a \o b)
      /\ \A t \in Task : Holds(a \o b, t) <=> Holds(a, t) \/ Holds(b, t)
  <2> HIDE DEF a, b
  <2>1. QED
    BY <1>1, <1>4, <1>5, <1>6, ConcatQueue
<1>8. ASSUME NEW t \in Task
      PROVE  Holds(a, t) \/ Holds(b, t) <=> Holds(q, t) /\ t # q[k]
  <2>1. ASSUME Holds(a, t) PROVE Holds(q, t) /\ t # q[k]
    <3>1. PICK i \in 1 .. k - 1 : q[i] = t
      BY <1>1, <2>1 DEF Holds
    <3>2. i \in DOMAIN q /\ i # k
      BY <3>1, <1>2
    <3>3. QED
      BY <3>1, <3>2, <1>1 DEF Holds, Distinct
  <2>2. ASSUME Holds(b, t) PROVE Holds(q, t) /\ t # q[k]
    <3>1. PICK i \in 1 .. Len(q) - k : q[k + i] = t
      BY <1>1, <2>2 DEF Holds
    <3>2. k + i \in DOMAIN q /\ k + i # k
      BY <3>1, <1>3, <1>1
    <3>3. QED
      BY <3>1, <3>2, <1>1 DEF Holds, Distinct
  <2>3. ASSUME Holds(q, t), t # q[k] PROVE Holds(a, t) \/ Holds(b, t)
    <3>1. PICK i \in 1 .. Len(q) : q[i] = t
      BY <2>3, <1>1 DEF Holds
    <3>2. CASE i < k
      <4>1. i \in 1 .. k - 1
        BY <3>2, <1>1
      <4>2. QED
        BY <3>1, <4>1, <1>1 DEF Holds
    <3>3. CASE i > k
      <4>1. i - k \in 1 .. Len(q) - k /\ k + (i - k) = i
        BY <3>3, <1>1
      <4>2. b[i - k] = t
        BY <3>1, <4>1, <1>1
      <4>3. QED
        BY <4>1, <4>2, <1>1 DEF Holds
    <3>4. i # k
      BY <3>1, <2>3
    <3>5. QED
      BY <3>2, <3>3, <3>4, <1>1
  <2>4. QED
    BY <2>1, <2>2, <2>3
<1>9. QED
  <2>1. RemoveAt(q, k) = a \o b
    BY DEF RemoveAt
  <2>2. Holds(q, q[k])
    BY <1>1 DEF Holds
  <2>3. QED
    BY <1>1, <1>7, <1>8, <2>1, <2>2
-----------------------------------------------------------------------------
(* Releasing the dependents of a finished task *)

LEMMA CompleteStep ==
  ASSUME TypeOK, StatusMatchesWork, PendingCountsDeps,
         NEW t \in Task, status[t] \in {"READY", "RUNNING"},
         NEW q \in Seq(Task), Distinct(q),
         \A s \in Task : Holds(q, s) <=> status[s] = "READY" /\ s # t,
         CompleteAndRelease(t, q)
  PROVE  /\ status' \in [Task -> Statuses] /\ pending' \in [Task -> Nat]
         /\ ready' \in Seq(Task) /\ Distinct(ready')
         /\ \A s \in Task : Holds(ready', s) <=> status'[s] = "READY"
         /\ PendingCountsDeps'
         /\ \A s \in Task : status'[s] = "WAITING" <=> pending'[s] > 0
         /\ status'[t] = "COMPLETE"
         /\ \A s \in Task : s # t =>
              \/ status'[s] = status[s]
              \/ status[s] = "WAITING" /\ status'[s] = "READY"
<1> DEFINE Left(s) == {d \in Deps[s] : status[d] # "COMPLETE"}
<1>1. \A s \in Task :
        /\ Deps[s] \subseteq Task /\ Left(s) \subseteq Task
        /\ IsFiniteSet(Left(s)) /\ Cardinality(Left(s)) \in Nat
        /\ pending[s] = Cardinality(Left(s))
  <2> SUFFICES ASSUME NEW s \in Task
               PROVE  /\ Deps[s] \subseteq Task /\ IsFiniteSet(Left(s))
                      /\ Cardinality(Left(s)) \in Nat
                      /\ pending[s] = Cardinality(Left(s))
    OBVIOUS
  <2>1. Deps[s] \subseteq Task
    BY DepsAssumption
  <2>2. IsFiniteSet(Left(s))
    BY <2>1, TaskAssumption, FS_Subset
  <2>3. QED
    BY <2>1, <2>2, FS_CardinalityType DEF PendingCountsDeps
<1>2. pending[t] = 0 /\ t \notin Deps[t]
  <2>1. pending[t] = 0
    <3>1. pending[t] \in Nat
      BY DEF TypeOK
    <3>2. ~(pending[t] > 0)
      BY DEF StatusMatchesWork
    <3>3. QED
      BY <3>1, <3>2
  <2>2. Left(t) = {}
    BY <1>1, <2>1, FS_EmptySet
  <2>3. QED
    BY <2>1, <2>2
<1>3. \A s \in Task : t \in Deps[s] => pending[s] > 0 /\ status[s] = "WAITING" /\ s # t
  <2> SUFFICES ASSUME NEW s \in Task, t \in Deps[s]
               PROVE  pending[s] > 0 /\ status[s] = "WAITING" /\ s # t
    OBVIOUS
  <2>1. t \in Left(s)
    OBVIOUS
  <2>2. Cardinality(Left(s)) # 0
    BY <1>1, <2>1, FS_EmptySet
  <2>3. pending[s] \in Nat /\ pending[s] # 0
    BY <1>1, <2>2
  <2>4. pending[s] > 0
    BY <2>3
  <2>5. status[s] = "WAITING"
    BY <2>4 DEF StatusMatchesWork
  <2>6. QED
    BY <1>2, <2>4, <2>5
<1>4. /\ status' = [s \in Task |-> IF s = t THEN "COMPLETE"
                                   ELSE IF s \in Freed(t) THEN "READY" ELSE status[s]]
      /\ pending' = [s \in Task |-> IF t \in Deps[s] THEN pending[s] - 1 ELSE pending[s]]
      /\ \A s \in Task : s \in Freed(t) <=> t \in Deps[s] /\ pending[s] = 1
      /\ Freed(t) \subseteq Task
  BY DEF CompleteAndRelease, Freed
<1>5. status' \in [Task -> Statuses] /\ pending' \in [Task -> Nat]
  <2>1. status' \in [Task -> Statuses]
    BY <1>4 DEF TypeOK, Statuses
  <2>2. \A s \in Task : pending'[s] \in Nat
    BY <1>3, <1>4 DEF TypeOK
  <2>3. QED
    BY <1>4, <2>1, <2>2
<1>6. /\ status'[t] = "COMPLETE"
      /\ \A s \in Freed(t) : status[s] = "WAITING" /\ status'[s] = "READY" /\ s # t
      /\ \A s \in Task \ Freed(t) : s # t => status'[s] = status[s]
  BY <1>3, <1>4
<1>7. PICK released \in Ascending(Freed(t)) : ready' = q \o released
  BY DEF CompleteAndRelease
<1>8. /\ released \in Seq(Task) /\ Distinct(released)
      /\ \A s \in Task : Holds(released, s) <=> s \in Freed(t)
  BY <1>4, AscendingQueue
<1>9. /\ ready' \in Seq(Task) /\ Distinct(ready')
      /\ \A s \in Task : Holds(ready', s) <=> Holds(q, s) \/ s \in Freed(t)
  <2>1. \A s \in Task : ~(Holds(q, s) /\ Holds(released, s))
    BY <1>6, <1>8
  <2>2. QED
    BY <1>7, <1>8, <2>1, ConcatQueue
<1>10. \A s \in Task : Holds(ready', s) <=> status'[s] = "READY"
  BY <1>4, <1>6, <1>9
<1>11. PendingCountsDeps'
  <2> SUFFICES ASSUME NEW s \in Task
               PROVE  pending'[s] = Cardinality({d \in Deps[s] : status'[d] # "COMPLETE"})
    BY DEF PendingCountsDeps
  <2>1. {d \in Deps[s] : status'[d] # "COMPLETE"} = Left(s) \ {t}
    BY <1>1, <1>4, <1>6
  <2>2. t \in Left(s) <=> t \in Deps[s]
    OBVIOUS
  <2>3. Cardinality(Left(s) \ {t}) =
          IF t \in Left(s) THEN Cardinality(Left(s)) - 1 ELSE Cardinality(Left(s))
    BY <1>1, FS_RemoveElement
  <2>4. pending[s] = Cardinality(Left(s)) /\ pending'[s] = IF t \in Deps[s] THEN pending[s] - 1 ELSE pending[s]
    BY <1>1, <1>4
  <2>5. QED
    BY <2>1, <2>2, <2>3, <2>4
<1>12. \A s \in Task : status'[s] = "WAITING" <=> pending'[s] > 0
  <2> SUFFICES ASSUME NEW s \in Task
               PROVE  status'[s] = "WAITING" <=> pending'[s] > 0
    OBVIOUS
  <2>1. status[s] = "WAITING" <=> pending[s] > 0
    BY DEF StatusMatchesWork
  <2>2. pending[s] \in Nat
    BY DEF TypeOK
  <2>3. CASE s = t
    BY <1>2, <1>4, <2>3
  <2>4. CASE s # t /\ t \in Deps[s]
    BY <1>3, <1>4, <2>1, <2>2, <2>4
  <2>5. CASE s # t /\ t \notin Deps[s]
    BY <1>4, <2>1, <2>5
  <2>6. QED
    BY <2>3, <2>4, <2>5
<1>13. QED
  BY <1>4, <1>5, <1>6, <1>9, <1>10, <1>11, <1>12
-----------------------------------------------------------------------------
(* The inductive invariant *)

LEMMA BuiltState ==
  ASSUME NEW sts, NEW pnd, NEW q \in Ascending(Sources), Built(sts, pnd)
  PROVE  /\ sts \in [Task -> {"READY", "WAITING"}] /\ pnd \in [Task -> Nat]
         /\ q \in Seq(Task) /\ Distinct(q)
         /\ \A t \in Task :
              /\ Holds(q, t) <=> sts[t] = "READY"
              /\ sts[t] = "WAITING" <=> pnd[t] > 0
              /\ pnd[t] = Cardinality({d \in Deps[t] : sts[d] # "COMPLETE"})
<1>1. /\ sts = [t \in Task |-> IF t \in Sources THEN "READY" ELSE "WAITING"]
      /\ pnd = [t \in Task |-> Cardinality(Deps[t])]
  BY DEF Built
<1>2. Sources \in SUBSET Task
  BY DEF Sources
<1>3. /\ q \in Seq(Task) /\ Distinct(q)
      /\ \A t \in Task : Holds(q, t) <=> t \in Sources
  BY <1>2, AscendingQueue
<1>4. ASSUME NEW t \in Task
      PROVE  /\ Cardinality(Deps[t]) \in Nat
             /\ t \in Sources <=> ~(Cardinality(Deps[t]) > 0)
             /\ {d \in Deps[t] : sts[d] # "COMPLETE"} = Deps[t]
  <2>1. Deps[t] \subseteq Task
    BY DepsAssumption
  <2>2. IsFiniteSet(Deps[t])
    BY <2>1, TaskAssumption, FS_Subset
  <2>3. Cardinality(Deps[t]) \in Nat /\ (Cardinality(Deps[t]) = 0 <=> Deps[t] = {})
    BY <2>2, FS_CardinalityType, FS_EmptySet
  <2>4. t \in Sources <=> Deps[t] = {}
    BY DEF Sources
  <2>5. QED
    BY <1>1, <2>1, <2>3, <2>4
<1>5. pnd \in [Task -> Nat]
  BY <1>1, <1>4
<1>6. QED
  BY <1>1, <1>3, <1>4, <1>5

LEMMA InitIInv == Init => IInv
<1> SUFFICES ASSUME Init PROVE IInv
  OBVIOUS
<1>1. /\ status \in [Task -> {"READY", "WAITING"}] /\ pending \in [Task -> Nat]
      /\ ready \in Seq(Task) /\ Distinct(ready)
      /\ \A t \in Task :
           /\ Holds(ready, t) <=> status[t] = "READY"
           /\ status[t] = "WAITING" <=> pending[t] > 0
           /\ pending[t] = Cardinality({d \in Deps[t] : status[d] # "COMPLETE"})
  BY BuiltState DEF Init
<1>2. Distinct(<<>>) /\ \A t : ~Holds(<<>>, t)
  BY DEF Distinct, Holds
<1>3. TypeOK
  BY <1>1 DEF Init, TypeOK, Places, Statuses, Works
<1>4. QueuesMatchStatus
  BY <1>1, <1>2 DEF Init, QueuesMatchStatus
<1>5. StatusMatchesWork
  BY <1>1 DEF Init, StatusMatchesWork
<1>6. PendingCountsDeps /\ CursorInRange
  BY <1>1 DEF Init, PendingCountsDeps, CursorInRange
<1>7. QED
  BY <1>3, <1>4, <1>5, <1>6 DEF IInv

(* The executor touches no queue: only pc and cursor move. *)
LEMMA PlaceStep ==
  ASSUME IInv, UNCHANGED <<status, pending, queues, work, runs>>,
         pc' \in Places, cursor' \in Nat,
         pc' \in {"poll gpu", "poll mpi"} => cursor' >= 1,
         pc' = "drained" => Drained
  PROVE  IInv'
<1>1. /\ status' = status /\ pending' = pending /\ work' = work /\ runs' = runs
      /\ ready' = ready /\ gpu_pending' = gpu_pending /\ mpi_pending' = mpi_pending
  BY DEF queues
<1>2. TypeOK'
  BY <1>1 DEF IInv, TypeOK
<1>3. QueuesMatchStatus'
  BY <1>1 DEF IInv, QueuesMatchStatus
<1>4. StatusMatchesWork' /\ PendingCountsDeps'
  BY <1>1 DEF IInv, StatusMatchesWork, PendingCountsDeps
<1>5. CursorInRange'
  BY <1>1 DEF CursorInRange, Drained
<1>6. QED
  BY <1>2, <1>3, <1>4, <1>5 DEF IInv

LEMMA FirstLaunch == \A n : n = 0 => n + 1 = 1
OBVIOUS

(* A kernel or a transfer is launched; the queues are left to the caller. *)
LEMMA LaunchStep ==
  ASSUME IInv, NEW t \in Task, Kind[t] # "CPU", Launch(t, "in flight"),
         status' = [status EXCEPT ![t] = "RUNNING"], pending' = pending
  PROVE  /\ status' \in [Task -> Statuses] /\ work' \in [Task -> Works] /\ runs' \in [Task -> Nat]
         /\ status[t] = "READY" /\ status'[t] = "RUNNING"
         /\ \A s \in Task : s # t => status'[s] = status[s]
         /\ StatusMatchesWork' /\ PendingCountsDeps'
<1>1. /\ status[t] = "READY"
      /\ work' = [work EXCEPT ![t] = "in flight"]
      /\ runs' = [runs EXCEPT ![t] = runs[t] + 1]
  BY DEF Launch
<1>2. runs' = [runs EXCEPT ![t] = 1] /\ ~(pending[t] > 0)
  <2>1. runs[t] = 0
    BY <1>1 DEF IInv, StatusMatchesWork
  <2>2. runs[t] + 1 = 1
    BY <2>1, FirstLaunch
  <2>3. ~(pending[t] > 0)
    BY <1>1 DEF IInv, StatusMatchesWork
  <2>4. QED
    BY <1>1, <2>2, <2>3
<1>3. status' \in [Task -> Statuses] /\ work' \in [Task -> Works] /\ runs' \in [Task -> Nat]
  <2>1. status \in [Task -> Statuses] /\ work \in [Task -> Works] /\ runs \in [Task -> Nat]
    BY DEF IInv, TypeOK
  <2>2. status' \in [Task -> Statuses]
    BY <2>1 DEF Statuses
  <2>3. work' \in [Task -> Works]
    BY <1>1, <2>1 DEF Works
  <2>4. runs' \in [Task -> Nat]
    BY <1>2, <2>1
  <2>5. QED
    BY <2>2, <2>3, <2>4
<1>4. /\ status'[t] = "RUNNING" /\ work'[t] = "in flight" /\ runs'[t] = 1
      /\ \A s \in Task : s # t =>
           status'[s] = status[s] /\ work'[s] = work[s] /\ runs'[s] = runs[s]
  BY <1>1, <1>2 DEF IInv, TypeOK
<1>5. StatusMatchesWork'
  <2> SUFFICES ASSUME NEW s \in Task
               PROVE  /\ status'[s] = "WAITING" <=> pending'[s] > 0
                      /\ status'[s] \in {"WAITING", "READY"} => runs'[s] = 0 /\ work'[s] = "none"
                      /\ status'[s] = "RUNNING" => runs'[s] = 1 /\ work'[s] # "none" /\ Kind[s] # "CPU"
                      /\ status'[s] = "COMPLETE" => runs'[s] = 1 /\ work'[s] = "finished"
    BY DEF StatusMatchesWork
  <2>1. CASE s = t
    BY <1>2, <1>4, <2>1
  <2>2. CASE s # t
    <3>1. status'[s] = status[s] /\ work'[s] = work[s] /\ runs'[s] = runs[s]
      BY <1>4, <2>2
    <3>2. QED
      BY <3>1 DEF IInv, StatusMatchesWork
  <2>3. QED
    BY <2>1, <2>2
<1>6. PendingCountsDeps'
  <2>1. \A d \in Task : status'[d] # "COMPLETE" <=> status[d] # "COMPLETE"
    BY <1>1, <1>4
  <2>2. \A s \in Task : {d \in Deps[s] : status'[d] # "COMPLETE"} = {d \in Deps[s] : status[d] # "COMPLETE"}
    BY <2>1, DepsAssumption
  <2>3. QED
    BY <2>2 DEF IInv, PendingCountsDeps
<1>7. QED
  BY <1>1, <1>3, <1>4, <1>5, <1>6

LEMMA DispatchGpuStep == IInv /\ DispatchGpu => IInv'
<1> SUFFICES ASSUME IInv, DispatchGpu PROVE IInv'
  OBVIOUS
<1> DEFINE t == Head(ready)
<1>1. /\ t \in Task /\ Holds(ready, t) /\ ready' \in Seq(Task) /\ Distinct(ready')
      /\ \A s \in Task : Holds(ready', s) <=> Holds(ready, s) /\ s # t
  BY TailQueue DEF IInv, TypeOK, QueuesMatchStatus, DispatchGpu
<1>2. /\ pc = "dispatch" /\ Kind[t] = "GPU" /\ Launch(t, "in flight")
      /\ status' = [status EXCEPT ![t] = "RUNNING"]
      /\ gpu_pending' = Append(gpu_pending, t)
      /\ pc' = pc /\ cursor' = cursor /\ pending' = pending /\ mpi_pending' = mpi_pending
  BY DEF DispatchGpu
<1> HIDE DEF t
<1>3. /\ status' \in [Task -> Statuses] /\ work' \in [Task -> Works] /\ runs' \in [Task -> Nat]
      /\ status[t] = "READY" /\ status'[t] = "RUNNING"
      /\ \A s \in Task : s # t => status'[s] = status[s]
      /\ StatusMatchesWork' /\ PendingCountsDeps'
  BY <1>1, <1>2, LaunchStep
<1>4. /\ gpu_pending' \in Seq(Task) /\ Distinct(gpu_pending')
      /\ \A s \in Task : Holds(gpu_pending', s) <=> Holds(gpu_pending, s) \/ s = t
  <2>1. ~Holds(gpu_pending, t)
    BY <1>1, <1>3 DEF IInv, QueuesMatchStatus
  <2>2. QED
    BY <1>1, <1>2, <2>1, AppendQueue DEF IInv, TypeOK, QueuesMatchStatus
<1>5. TypeOK'
  BY <1>1, <1>2, <1>3, <1>4 DEF IInv, TypeOK
<1>6. QueuesMatchStatus'
  BY <1>1, <1>2, <1>3, <1>4 DEF IInv, QueuesMatchStatus
<1>7. CursorInRange'
  BY <1>2 DEF CursorInRange
<1>8. QED
  BY <1>3, <1>5, <1>6, <1>7 DEF IInv

LEMMA DispatchMpiStep == IInv /\ DispatchMpi => IInv'
<1> SUFFICES ASSUME IInv, DispatchMpi PROVE IInv'
  OBVIOUS
<1> DEFINE t == Head(ready)
<1>1. /\ t \in Task /\ Holds(ready, t) /\ ready' \in Seq(Task) /\ Distinct(ready')
      /\ \A s \in Task : Holds(ready', s) <=> Holds(ready, s) /\ s # t
  BY TailQueue DEF IInv, TypeOK, QueuesMatchStatus, DispatchMpi
<1>2. /\ pc = "dispatch" /\ Kind[t] = "MPI" /\ Launch(t, "in flight")
      /\ status' = [status EXCEPT ![t] = "RUNNING"]
      /\ mpi_pending' = Append(mpi_pending, t)
      /\ pc' = pc /\ cursor' = cursor /\ pending' = pending /\ gpu_pending' = gpu_pending
  BY DEF DispatchMpi
<1> HIDE DEF t
<1>3. /\ status' \in [Task -> Statuses] /\ work' \in [Task -> Works] /\ runs' \in [Task -> Nat]
      /\ status[t] = "READY" /\ status'[t] = "RUNNING"
      /\ \A s \in Task : s # t => status'[s] = status[s]
      /\ StatusMatchesWork' /\ PendingCountsDeps'
  BY <1>1, <1>2, LaunchStep
<1>4. /\ mpi_pending' \in Seq(Task) /\ Distinct(mpi_pending')
      /\ \A s \in Task : Holds(mpi_pending', s) <=> Holds(mpi_pending, s) \/ s = t
  <2>1. ~Holds(mpi_pending, t)
    BY <1>1, <1>3 DEF IInv, QueuesMatchStatus
  <2>2. QED
    BY <1>1, <1>2, <2>1, AppendQueue DEF IInv, TypeOK, QueuesMatchStatus
<1>5. TypeOK'
  BY <1>1, <1>2, <1>3, <1>4 DEF IInv, TypeOK
<1>6. QueuesMatchStatus'
  BY <1>1, <1>2, <1>3, <1>4 DEF IInv, QueuesMatchStatus
<1>7. CursorInRange'
  BY <1>2 DEF CursorInRange
<1>8. QED
  BY <1>3, <1>5, <1>6, <1>7 DEF IInv

LEMMA DispatchCpuStep == IInv /\ DispatchCpu => IInv'
<1> SUFFICES ASSUME IInv, DispatchCpu PROVE IInv'
  OBVIOUS
<1> DEFINE t == Head(ready)
<1>1. /\ t \in Task /\ Holds(ready, t) /\ Tail(ready) \in Seq(Task) /\ Distinct(Tail(ready))
      /\ \A s \in Task : Holds(Tail(ready), s) <=> Holds(ready, s) /\ s # t
  BY TailQueue DEF IInv, TypeOK, QueuesMatchStatus, DispatchCpu
<1>2. /\ pc = "dispatch" /\ Kind[t] = "CPU" /\ status[t] = "READY"
      /\ work' = [work EXCEPT ![t] = "finished"]
      /\ runs' = [runs EXCEPT ![t] = runs[t] + 1]
      /\ CompleteAndRelease(t, Tail(ready))
      /\ pc' = pc /\ cursor' = cursor /\ gpu_pending' = gpu_pending /\ mpi_pending' = mpi_pending
  BY DEF DispatchCpu, Launch
<1> HIDE DEF t
<1>3. \A s \in Task : Holds(Tail(ready), s) <=> status[s] = "READY" /\ s # t
  BY <1>1 DEF IInv, QueuesMatchStatus
<1>4. /\ status' \in [Task -> Statuses] /\ pending' \in [Task -> Nat]
      /\ ready' \in Seq(Task) /\ Distinct(ready')
      /\ \A s \in Task : Holds(ready', s) <=> status'[s] = "READY"
      /\ PendingCountsDeps'
      /\ \A s \in Task : status'[s] = "WAITING" <=> pending'[s] > 0
      /\ status'[t] = "COMPLETE"
      /\ \A s \in Task : s # t =>
           \/ status'[s] = status[s]
           \/ status[s] = "WAITING" /\ status'[s] = "READY"
  BY <1>1, <1>2, <1>3, CompleteStep DEF IInv
<1>5. runs' = [runs EXCEPT ![t] = 1]
  <2>1. runs[t] = 0
    BY <1>1, <1>2 DEF IInv, StatusMatchesWork
  <2>2. runs[t] + 1 = 1
    BY <2>1
  <2>3. QED
    BY <1>2, <2>2
<1>6. /\ work' \in [Task -> Works] /\ runs' \in [Task -> Nat]
      /\ work'[t] = "finished" /\ runs'[t] = 1
      /\ \A s \in Task : s # t => work'[s] = work[s] /\ runs'[s] = runs[s]
  <2>1. work \in [Task -> Works] /\ runs \in [Task -> Nat]
    BY DEF IInv, TypeOK
  <2>2. work' \in [Task -> Works]
    BY <1>2, <2>1 DEF Works
  <2>3. runs' \in [Task -> Nat]
    BY <1>5, <2>1
  <2>4. QED
    BY <1>1, <1>2, <1>5, <2>1, <2>2, <2>3
<1>7. TypeOK'
  BY <1>2, <1>4, <1>6 DEF IInv, TypeOK
<1>8. QueuesMatchStatus'
  <2>1. \A s \in Task : /\ status'[s] = "RUNNING" /\ Kind[s] = "GPU" <=> Holds(gpu_pending, s)
                        /\ status'[s] = "RUNNING" /\ Kind[s] = "MPI" <=> Holds(mpi_pending, s)
    BY <1>1, <1>2, <1>4 DEF IInv, QueuesMatchStatus
  <2>2. QED
    BY <1>2, <1>4, <2>1 DEF IInv, QueuesMatchStatus
<1>9. StatusMatchesWork'
  <2> SUFFICES ASSUME NEW s \in Task
               PROVE  /\ status'[s] \in {"WAITING", "READY"} => runs'[s] = 0 /\ work'[s] = "none"
                      /\ status'[s] = "RUNNING" => runs'[s] = 1 /\ work'[s] # "none" /\ Kind[s] # "CPU"
                      /\ status'[s] = "COMPLETE" => runs'[s] = 1 /\ work'[s] = "finished"
    BY <1>4 DEF StatusMatchesWork
  <2>1. CASE s = t
    BY <1>4, <1>6, <2>1
  <2>2. CASE s # t
    BY <1>4, <1>6, <2>2 DEF IInv, StatusMatchesWork
  <2>3. QED
    BY <2>1, <2>2
<1>10. CursorInRange'
  BY <1>2 DEF CursorInRange
<1>11. QED
  BY <1>4, <1>7, <1>8, <1>9, <1>10 DEF IInv

(* A polled kernel or transfer has finished: t leaves the list it is in.   *)
LEMMA PollStep ==
  ASSUME IInv, NEW t \in Task, status[t] = "RUNNING", work[t] = "finished",
         CompleteAndRelease(t, ready), work' = work, runs' = runs
  PROVE  /\ status' \in [Task -> Statuses] /\ pending' \in [Task -> Nat]
         /\ ready' \in Seq(Task) /\ Distinct(ready')
         /\ \A s \in Task : Holds(ready', s) <=> status'[s] = "READY"
         /\ \A s \in Task : status'[s] = "RUNNING" <=> status[s] = "RUNNING" /\ s # t
         /\ StatusMatchesWork' /\ PendingCountsDeps'
<1>1. /\ ready \in Seq(Task) /\ Distinct(ready)
      /\ \A s \in Task : Holds(ready, s) <=> status[s] = "READY" /\ s # t
  BY DEF IInv, TypeOK, QueuesMatchStatus
<1>2. /\ status' \in [Task -> Statuses] /\ pending' \in [Task -> Nat]
      /\ ready' \in Seq(Task) /\ Distinct(ready')
      /\ \A s \in Task : Holds(ready', s) <=> status'[s] = "READY"
      /\ PendingCountsDeps'
      /\ \A s \in Task : status'[s] = "WAITING" <=> pending'[s] > 0
      /\ status'[t] = "COMPLETE"
      /\ \A s \in Task : s # t =>
           \/ status'[s] = status[s]
           \/ status[s] = "WAITING" /\ status'[s] = "READY"
  BY <1>1, CompleteStep DEF IInv
<1>3. StatusMatchesWork'
  <2> SUFFICES ASSUME NEW s \in Task
               PROVE  /\ status'[s] \in {"WAITING", "READY"} => runs'[s] = 0 /\ work'[s] = "none"
                      /\ status'[s] = "RUNNING" => runs'[s] = 1 /\ work'[s] # "none" /\ Kind[s] # "CPU"
                      /\ status'[s] = "COMPLETE" => runs'[s] = 1 /\ work'[s] = "finished"
    BY <1>2 DEF StatusMatchesWork
  <2>1. CASE s = t
    BY <1>2, <2>1 DEF IInv, StatusMatchesWork
  <2>2. CASE s # t
    BY <1>2, <2>2 DEF IInv, StatusMatchesWork
  <2>3. QED
    BY <2>1, <2>2
<1>4. \A s \in Task : status'[s] = "RUNNING" <=> status[s] = "RUNNING" /\ s # t
  BY <1>2
<1>5. QED
  BY <1>2, <1>3, <1>4

LEMMA PollGpuStep == IInv /\ PollGpu => IInv'
<1> SUFFICES ASSUME IInv, PollGpu PROVE IInv'
  OBVIOUS
<1> DEFINE t == gpu_pending[cursor]
<1>1. /\ pc = "poll gpu" /\ cursor \in 1 .. Len(gpu_pending)
      /\ pc' = pc /\ mpi_pending' = mpi_pending /\ work' = work /\ runs' = runs
  <2>1. /\ pc = "poll gpu" /\ cursor <= Len(gpu_pending)
        /\ pc' = pc /\ mpi_pending' = mpi_pending /\ work' = work /\ runs' = runs
    BY DEF PollGpu
  <2>2. cursor \in Nat /\ Len(gpu_pending) \in Nat
    BY DEF IInv, TypeOK
  <2>3. cursor >= 1
    BY <2>1 DEF IInv, CursorInRange
  <2>4. \A m, n \in Nat : m >= 1 /\ m <= n => m \in 1 .. n
    OBVIOUS
  <2>5. QED
    BY <2>1, <2>2, <2>3, <2>4
<1>2. CASE work[t] # "finished"
  <2>1. UNCHANGED <<status, pending, ready, gpu_pending>> /\ cursor' = cursor + 1
    BY <1>2 DEF PollGpu
  <2>2. cursor' \in Nat /\ cursor' >= 1
    <3>1. \A n \in Nat : n + 1 \in Nat /\ n + 1 >= 1
      OBVIOUS
    <3>2. cursor \in Nat
      BY DEF IInv, TypeOK
    <3>3. QED
      BY <2>1, <3>1, <3>2
  <2>3. UNCHANGED <<status, pending, queues, work, runs>> /\ pc' \in Places /\ pc' # "drained"
    BY <1>1, <2>1 DEF queues, Places
  <2>4. QED
    BY <2>2, <2>3, PlaceStep
<1>3. CASE work[t] = "finished"
  <2>1. /\ CompleteAndRelease(t, ready) /\ cursor' = cursor
        /\ gpu_pending' = RemoveAt(gpu_pending, cursor)
    BY <1>3 DEF PollGpu
  <2>2. /\ t \in Task /\ Holds(gpu_pending, t)
        /\ gpu_pending' \in Seq(Task) /\ Distinct(gpu_pending')
        /\ \A s \in Task : Holds(gpu_pending', s) <=> Holds(gpu_pending, s) /\ s # t
    BY <1>1, <2>1, RemoveQueue DEF IInv, TypeOK, QueuesMatchStatus
  <2> HIDE DEF t
  <2>3. status[t] = "RUNNING" /\ Kind[t] = "GPU"
    BY <2>2 DEF IInv, QueuesMatchStatus
  <2>4. /\ status' \in [Task -> Statuses] /\ pending' \in [Task -> Nat]
        /\ ready' \in Seq(Task) /\ Distinct(ready')
        /\ \A s \in Task : Holds(ready', s) <=> status'[s] = "READY"
        /\ \A s \in Task : status'[s] = "RUNNING" <=> status[s] = "RUNNING" /\ s # t
        /\ StatusMatchesWork' /\ PendingCountsDeps'
    BY <1>1, <1>3, <2>1, <2>2, <2>3, PollStep
  <2>5. TypeOK'
    BY <1>1, <2>1, <2>2, <2>4 DEF IInv, TypeOK
  <2>6. QueuesMatchStatus'
    BY <1>1, <2>2, <2>3, <2>4 DEF IInv, QueuesMatchStatus
  <2>7. CursorInRange'
    BY <1>1, <2>1 DEF IInv, CursorInRange
  <2>8. QED
    BY <2>4, <2>5, <2>6, <2>7 DEF IInv
<1>4. QED
  BY <1>2, <1>3

LEMMA PollMpiStep == IInv /\ PollMpi => IInv'
<1> SUFFICES ASSUME IInv, PollMpi PROVE IInv'
  OBVIOUS
<1> DEFINE t == mpi_pending[cursor]
<1>1. /\ pc = "poll mpi" /\ cursor \in 1 .. Len(mpi_pending)
      /\ pc' = pc /\ gpu_pending' = gpu_pending /\ work' = work /\ runs' = runs
  <2>1. /\ pc = "poll mpi" /\ cursor <= Len(mpi_pending)
        /\ pc' = pc /\ gpu_pending' = gpu_pending /\ work' = work /\ runs' = runs
    BY DEF PollMpi
  <2>2. cursor \in Nat /\ Len(mpi_pending) \in Nat
    BY DEF IInv, TypeOK
  <2>3. cursor >= 1
    BY <2>1 DEF IInv, CursorInRange
  <2>4. \A m, n \in Nat : m >= 1 /\ m <= n => m \in 1 .. n
    OBVIOUS
  <2>5. QED
    BY <2>1, <2>2, <2>3, <2>4
<1>2. CASE work[t] # "finished"
  <2>1. UNCHANGED <<status, pending, ready, mpi_pending>> /\ cursor' = cursor + 1
    BY <1>2 DEF PollMpi
  <2>2. cursor' \in Nat /\ cursor' >= 1
    <3>1. \A n \in Nat : n + 1 \in Nat /\ n + 1 >= 1
      OBVIOUS
    <3>2. cursor \in Nat
      BY DEF IInv, TypeOK
    <3>3. QED
      BY <2>1, <3>1, <3>2
  <2>3. UNCHANGED <<status, pending, queues, work, runs>> /\ pc' \in Places /\ pc' # "drained"
    BY <1>1, <2>1 DEF queues, Places
  <2>4. QED
    BY <2>2, <2>3, PlaceStep
<1>3. CASE work[t] = "finished"
  <2>1. /\ CompleteAndRelease(t, ready) /\ cursor' = cursor
        /\ mpi_pending' = RemoveAt(mpi_pending, cursor)
    BY <1>3 DEF PollMpi
  <2>2. /\ t \in Task /\ Holds(mpi_pending, t)
        /\ mpi_pending' \in Seq(Task) /\ Distinct(mpi_pending')
        /\ \A s \in Task : Holds(mpi_pending', s) <=> Holds(mpi_pending, s) /\ s # t
    BY <1>1, <2>1, RemoveQueue DEF IInv, TypeOK, QueuesMatchStatus
  <2> HIDE DEF t
  <2>3. status[t] = "RUNNING" /\ Kind[t] = "MPI"
    BY <2>2 DEF IInv, QueuesMatchStatus
  <2>4. /\ status' \in [Task -> Statuses] /\ pending' \in [Task -> Nat]
        /\ ready' \in Seq(Task) /\ Distinct(ready')
        /\ \A s \in Task : Holds(ready', s) <=> status'[s] = "READY"
        /\ \A s \in Task : status'[s] = "RUNNING" <=> status[s] = "RUNNING" /\ s # t
        /\ StatusMatchesWork' /\ PendingCountsDeps'
    BY <1>1, <1>3, <2>1, <2>2, <2>3, PollStep
  <2>5. TypeOK'
    BY <1>1, <2>1, <2>2, <2>4 DEF IInv, TypeOK
  <2>6. QueuesMatchStatus'
    BY <1>1, <2>2, <2>3, <2>4 DEF IInv, QueuesMatchStatus
  <2>7. CursorInRange'
    BY <1>1, <2>1 DEF IInv, CursorInRange
  <2>8. QED
    BY <2>4, <2>5, <2>6, <2>7 DEF IInv
<1>4. QED
  BY <1>2, <1>3

LEMMA ResetStep == IInv /\ Reset => IInv'
<1> SUFFICES ASSUME IInv, Reset PROVE IInv'
  OBVIOUS
<1>1. /\ status' \in [Task -> {"READY", "WAITING"}] /\ pending' \in [Task -> Nat]
      /\ ready' \in Seq(Task) /\ Distinct(ready')
      /\ \A t \in Task :
           /\ Holds(ready', t) <=> status'[t] = "READY"
           /\ status'[t] = "WAITING" <=> pending'[t] > 0
           /\ pending'[t] = Cardinality({d \in Deps[t] : status'[d] # "COMPLETE"})
  BY BuiltState DEF Reset
<1>2. Distinct(<<>>) /\ \A t : ~Holds(<<>>, t)
  BY DEF Distinct, Holds
<1>3. TypeOK'
  <2>1. work' \in [Task -> Works] /\ runs' \in [Task -> Nat] /\ pc' \in Places
    BY DEF Reset, Works, Places
  <2>2. status' \in [Task -> Statuses]
    BY <1>1 DEF Statuses
  <2>3. cursor' \in Nat /\ gpu_pending' = <<>> /\ mpi_pending' = <<>>
    BY DEF Reset, IInv, TypeOK
  <2>4. QED
    BY <1>1, <2>1, <2>2, <2>3 DEF TypeOK
<1>4. QueuesMatchStatus'
  BY <1>1, <1>2 DEF Reset, QueuesMatchStatus
<1>5. StatusMatchesWork'
  BY <1>1 DEF Reset, StatusMatchesWork
<1>6. PendingCountsDeps' /\ CursorInRange'
  BY <1>1 DEF Reset, PendingCountsDeps, CursorInRange
<1>7. QED
  BY <1>3, <1>4, <1>5, <1>6 DEF IInv

LEMMA DeviceStep ==
  ASSUME IInv, NEW t \in Task, Device(t)
  PROVE  IInv'
<1>1. /\ work[t] = "in flight"
      /\ \/ work' = [work EXCEPT ![t] = "finished"]
         \/ Kind[t] = "GPU" /\ work' = [work EXCEPT ![t] = "failed"]
      /\ UNCHANGED <<pc, cursor, status, pending, queues, runs>>
  BY DEF Device, KernelEnds, TransferEnds
<1>2. /\ work' \in [Task -> Works] /\ work'[t] # "none"
      /\ \A s \in Task : s # t => work'[s] = work[s]
  BY <1>1 DEF IInv, TypeOK, Works
<1>3. status[t] = "RUNNING"
  BY <1>1 DEF IInv, TypeOK, Statuses, StatusMatchesWork
<1>4. TypeOK'
  BY <1>1, <1>2 DEF IInv, TypeOK, queues
<1>5. QueuesMatchStatus'
  BY <1>1 DEF IInv, QueuesMatchStatus, queues
<1>6. StatusMatchesWork'
  BY <1>1, <1>2, <1>3 DEF IInv, StatusMatchesWork
<1>7. PendingCountsDeps' /\ CursorInRange'
  BY <1>1 DEF IInv, PendingCountsDeps, CursorInRange, queues, Drained
<1>8. QED
  BY <1>4, <1>5, <1>6, <1>7 DEF IInv

LEMMA OneIsNat == 0 \in Nat /\ 1 \in Nat /\ 1 >= 1 /\ 1 > 0
  OBVIOUS

LEMMA NextIInv == IInv /\ [Next]_vars => IInv'
<1> SUFFICES ASSUME IInv, [Next]_vars PROVE IInv'
  OBVIOUS
<1>0. cursor \in Nat
  BY DEF IInv, TypeOK
<1>1. CASE Begin
  <2>1. pc' = "loop" /\ cursor' = cursor /\ UNCHANGED <<status, pending, queues, work, runs>>
    BY <1>1 DEF Begin
  <2>2. QED
    BY <1>0, <2>1, PlaceStep DEF Places
<1>2. CASE LoopTest
  <2>1. /\ pc' \in {"dispatch", "drained"} /\ (pc' = "drained" => Drained)
        /\ cursor' = cursor /\ UNCHANGED <<status, pending, queues, work, runs>>
    BY <1>2 DEF LoopTest
  <2>2. QED
    BY <1>0, <2>1, PlaceStep DEF Places
<1>3. CASE EndDispatch
  <2>1. pc' = "poll gpu" /\ cursor' = 1 /\ UNCHANGED <<status, pending, queues, work, runs>>
    BY <1>3 DEF EndDispatch
  <2>2. pc' \in Places
    BY <2>1 DEF Places
  <2>3. cursor' \in Nat /\ cursor' >= 1
    BY <2>1, OneIsNat
  <2>4. pc' # "drained"
    BY <2>1
  <2>5. QED
    BY <2>1, <2>2, <2>3, <2>4, PlaceStep
<1>4. CASE EndPollGpu
  <2>1. pc' = "poll mpi" /\ cursor' = 1 /\ UNCHANGED <<status, pending, queues, work, runs>>
    BY <1>4 DEF EndPollGpu
  <2>2. pc' \in Places
    BY <2>1 DEF Places
  <2>3. cursor' \in Nat /\ cursor' >= 1
    BY <2>1, OneIsNat
  <2>4. pc' # "drained"
    BY <2>1
  <2>5. QED
    BY <2>1, <2>2, <2>3, <2>4, PlaceStep
<1>5. CASE EndPollMpi
  <2>1. pc' = "loop" /\ cursor' = 0 /\ UNCHANGED <<status, pending, queues, work, runs>>
    BY <1>5 DEF EndPollMpi
  <2>2. QED
    BY <2>1, PlaceStep, OneIsNat DEF Places
<1>6. CASE UNCHANGED vars
  <2>1. pc' \in Places /\ cursor' \in Nat /\ UNCHANGED <<status, pending, queues, work, runs>>
    BY <1>6 DEF vars, IInv, TypeOK
  <2>2. /\ pc' \in {"poll gpu", "poll mpi"} => cursor' >= 1
        /\ pc' = "drained" => Drained
    BY <1>6 DEF vars, IInv, CursorInRange
  <2>3. QED
    BY <2>1, <2>2, PlaceStep
<1>7. QED
  BY <1>1, <1>2, <1>3, <1>4, <1>5, <1>6, DispatchGpuStep, DispatchMpiStep,
     DispatchCpuStep, PollGpuStep, PollMpiStep, ResetStep, DeviceStep
     DEF Next, Run

(* In every state of every sweep the queues, the statuses, the counters    *)
(* and the devices agree.                                                  *)
THEOREM Inductive == Spec => []IInv
<1>1. QED
  BY InitIInv, NextIInv, PTL DEF Spec

(* The type invariant of the executor. *)
THEOREM TypeCorrect == Spec => []TypeOK
<1>1. IInv => TypeOK
  BY DEF IInv
<1>2. QED
  BY <1>1, Inductive, PTL
-----------------------------------------------------------------------------
(* What the sweeps rely on *)

(* No task is launched before what it depends on has finished. *)
LEMMA ReadyMeansDepsDone ==
  ASSUME IInv, NEW t \in Task, status[t] # "WAITING", NEW d \in Deps[t]
  PROVE  d \in Task /\ status[d] = "COMPLETE" /\ work[d] = "finished" /\ runs[d] = 1
<1> DEFINE Left == {e \in Deps[t] : status[e] # "COMPLETE"}
<1>1. d \in Task /\ Left \subseteq Task
  BY DepsAssumption
<1>2. IsFiniteSet(Left)
  BY <1>1, TaskAssumption, FS_Subset
<1>3. pending[t] = Cardinality(Left) /\ Cardinality(Left) \in Nat
  BY <1>2, FS_CardinalityType DEF IInv, PendingCountsDeps
<1>4. ~(pending[t] > 0)
  BY DEF IInv, StatusMatchesWork
<1>5. Cardinality(Left) = 0
  BY <1>3, <1>4
<1>6. Left = {}
  BY <1>2, <1>5, FS_EmptySet
<1>7. status[d] = "COMPLETE"
  BY <1>6
<1>8. QED
  BY <1>1, <1>7 DEF IInv, StatusMatchesWork

LEMMA IInvLaunchedAfterDeps == IInv => LaunchedAfterDeps
<1> SUFFICES ASSUME IInv, NEW t \in Task, runs[t] > 0, NEW d \in Deps[t]
             PROVE  work[d] = "finished"
  BY DEF LaunchedAfterDeps
<1>1. status[t] # "WAITING"
  BY DEF IInv, StatusMatchesWork
<1>2. QED
  BY <1>1, ReadyMeansDepsDone

(* In every sweep, whatever the graph and however the devices answer, a    *)
(* body runs only on finished results, even when kernels fail.             *)
THEOREM LaunchOrder == Spec => []LaunchedAfterDeps
<1>1. QED
  BY IInvLaunchedAfterDeps, Inductive, PTL

(* No task is launched twice in a sweep. *)
THEOREM SingleLaunch == Spec => []LaunchedOnce
<1>1. IInv => LaunchedOnce
  <2> SUFFICES ASSUME IInv, NEW t \in Task PROVE runs[t] <= 1
    BY DEF LaunchedOnce
  <2>1. status[t] \in Statuses
    BY DEF IInv, TypeOK
  <2>2. runs[t] = 0 \/ runs[t] = 1
    BY <2>1 DEF IInv, StatusMatchesWork, Statuses
  <2>3. QED
    BY <2>2
<1>2. QED
  BY <1>1, Inductive, PTL

(* The ASSERT at the head of task_t::run never fires. *)
THEOREM LaunchAsserts == Spec => []QueuedTasksAreReady
<1>1. IInv => QueuedTasksAreReady
  <2> SUFFICES ASSUME IInv, NEW i \in DOMAIN ready PROVE status[ready[i]] = "READY"
    BY DEF QueuedTasksAreReady
  <2>1. ready[i] \in Task
    BY DEF IInv, TypeOK
  <2>2. Holds(ready, ready[i])
    BY DEF Holds
  <2>3. QED
    BY <2>1, <2>2 DEF IInv, QueuesMatchStatus
<1>2. QED
  BY <1>1, Inductive, PTL
-----------------------------------------------------------------------------
(* The end of a sweep *)

(* A non-empty set of tasks has one of least depth. *)
LEMMA LeastDepth ==
  ASSUME NEW S \in SUBSET Task, S # {}, NEW depth \in [Task -> Nat]
  PROVE  \E t \in S : \A s \in S : ~(depth[s] < depth[t])
<1> DEFINE D == {depth[t] : t \in S}
<1>1. D \subseteq Nat /\ D # {}
  OBVIOUS
<1>2. PICK n \in D : \A m \in D : ~(<<m, n>> \in OpToRel(<, Nat))
  BY <1>1, NatLessThanWellFounded, WFMin
<1>3. \A m \in D : ~(m < n)
  BY <1>1, <1>2 DEF OpToRel
<1>4. PICK t \in S : depth[t] = n
  BY <1>2
<1>5. QED
  BY <1>3, <1>4

(* With nothing queued and nothing in flight every task has completed: a   *)
(* waiting task of least depth would wait for a task that waits too.       *)
LEMMA DrainedDone ==
  ASSUME Acyclic, IInv, Drained
  PROVE  \A t \in Task : status[t] = "COMPLETE" /\ work[t] = "finished"
<1> DEFINE W == {t \in Task : status[t] = "WAITING"}
<1>1. \A t \in Task : status[t] # "READY" /\ status[t] # "RUNNING"
  <2> TAKE t \in Task
  <2>1. ~Holds(ready, t) /\ ~Holds(gpu_pending, t) /\ ~Holds(mpi_pending, t)
    BY DEF Drained, Holds
  <2>2. Kind[t] \in {"GPU", "MPI", "CPU"}
    BY KindAssumption
  <2>3. QED
    BY <2>1, <2>2 DEF IInv, QueuesMatchStatus, StatusMatchesWork
<1>2. \A t \in Task : status[t] = "COMPLETE" \/ t \in W
  BY <1>1 DEF IInv, TypeOK, Statuses
<1>3. W = {}
  <2> SUFFICES ASSUME W # {} PROVE FALSE
    OBVIOUS
  <2>1. PICK depth \in [Task -> 0 .. Cardinality(Task)] :
          \A t \in Task : \A d \in Deps[t] : depth[d] < depth[t]
    BY DEF Acyclic
  <2>2. depth \in [Task -> Nat]
    BY TaskAssumption, FS_CardinalityType
  <2>3. PICK t \in W : \A s \in W : ~(depth[s] < depth[t])
    BY <2>2, LeastDepth
  <2>4. \A d \in Deps[t] : d \in Task /\ status[d] = "COMPLETE"
    BY <1>2, <2>1, <2>3, DepsAssumption
  <2>5. pending[t] = 0
    <3>1. {d \in Deps[t] : status[d] # "COMPLETE"} = {}
      BY <2>4
    <3>2. QED
      BY <3>1, FS_EmptySet DEF IInv, PendingCountsDeps
  <2>6. QED
    BY <2>5 DEF IInv, StatusMatchesWork
<1>4. QED
  BY <1>2, <1>3 DEF IInv, StatusMatchesWork

(* run() of an acyclic graph returns only when everything has been done.   *)
THEOREM EndOfSweep == Acyclic => (Spec => []DrainedMeansDone)
<1> SUFFICES ASSUME Acyclic PROVE Spec => []DrainedMeansDone
  OBVIOUS
<1>1. IInv => DrainedMeansDone
  BY DrainedDone DEF IInv, CursorInRange, DrainedMeansDone
<1>2. QED
  BY <1>1, Inductive, PTL
-----------------------------------------------------------------------------
(* The executor implements its contract *)

Started  == {t \in Task : runs[t] > 0}
Finished == {t \in Task : work[t] = "finished"}

(* What the head of ready looks like to the contract. *)
LEMMA HeadIsStartable ==
  ASSUME IInv, ready # <<>>
  PROVE  /\ Head(ready) \in Task /\ Head(ready) \notin Started
         /\ work[Head(ready)] = "none" /\ runs[Head(ready)] = 0
         /\ Deps[Head(ready)] \subseteq Finished
<1> DEFINE t == Head(ready)
<1>1. t \in Task /\ Holds(ready, t)
  BY TailQueue DEF IInv, TypeOK, QueuesMatchStatus
<1>2. status[t] = "READY"
  BY <1>1 DEF IInv, QueuesMatchStatus
<1>3. work[t] = "none" /\ runs[t] = 0
  BY <1>1, <1>2 DEF IInv, StatusMatchesWork
<1>4. t \notin Started
  BY <1>3 DEF Started
<1>5. \A d \in Deps[t] : d \in Finished
  BY <1>1, <1>2, ReadyMeansDepsDone DEF Finished
<1>6. QED
  BY <1>1, <1>3, <1>4, <1>5

(* What a launch adds to the contract's state. *)
LEMMA LaunchAdds ==
  ASSUME IInv, NEW t \in Task, NEW w, runs[t] = 0, work[t] = "none", Launch(t, w)
  PROVE  /\ Started' = Started \cup {t}
         /\ w = "in flight" => Finished' = Finished
         /\ w = "finished"  => Finished' = Finished \cup {t}
<1>1. work \in [Task -> Works] /\ runs \in [Task -> Nat]
  BY DEF IInv, TypeOK
<1>2. /\ work' = [work EXCEPT ![t] = w]
      /\ runs' = [runs EXCEPT ![t] = runs[t] + 1]
  BY DEF Launch
<1>3. runs'[t] = 1 /\ \A s \in Task : s # t => runs'[s] = runs[s]
  BY <1>1, <1>2, FirstLaunch
<1>4. work'[t] = w /\ \A s \in Task : s # t => work'[s] = work[s]
  BY <1>1, <1>2
<1>5. Started' = Started \cup {t}
  BY <1>3 DEF Started
<1>6. w = "in flight" => Finished' = Finished
  BY <1>4 DEF Finished
<1>7. w = "finished" => Finished' = Finished \cup {t}
  BY <1>4 DEF Finished
<1>8. QED
  BY <1>5, <1>6, <1>7

LEMMA ContractStep ==
  ASSUME Acyclic, IInv, [Next]_vars
  PROVE  \/ \E t \in Task : Contract!Start(t) \/ Contract!Finish(t) \/ Contract!Execute(t)
         \/ Contract!NewSweep
         \/ Started' = Started /\ Finished' = Finished
<1>1. CASE DispatchGpu \/ DispatchMpi
  <2>1. ready # <<>> /\ Launch(Head(ready), "in flight")
    BY <1>1 DEF DispatchGpu, DispatchMpi
  <2>2. PICK t \in Task :
          /\ t = Head(ready) /\ t \notin Started /\ Deps[t] \subseteq Finished
          /\ work[t] = "none" /\ runs[t] = 0
    BY <2>1, HeadIsStartable
  <2>3. Started' = Started \cup {t} /\ Finished' = Finished
    BY <2>1, <2>2, LaunchAdds
  <2>4. Contract!Start(t)
    BY <2>2, <2>3 DEF Contract!Start, Started, Finished
  <2>5. QED
    BY <2>2, <2>4
<1>2. CASE DispatchCpu
  <2>1. ready # <<>> /\ Launch(Head(ready), "finished")
    BY <1>2 DEF DispatchCpu
  <2>2. PICK t \in Task :
          /\ t = Head(ready) /\ t \notin Started /\ Deps[t] \subseteq Finished
          /\ work[t] = "none" /\ runs[t] = 0
    BY <2>1, HeadIsStartable
  <2>3. Started' = Started \cup {t} /\ Finished' = Finished \cup {t}
    BY <2>1, <2>2, LaunchAdds
  <2>4. Contract!Execute(t)
    BY <2>2, <2>3 DEF Contract!Execute, Started, Finished
  <2>5. QED
    BY <2>2, <2>4
<1>3. CASE Reset
  <2>1. Drained
    BY <1>3 DEF Reset, IInv, CursorInRange
  <2>2. Finished = Task
    BY <2>1, DrainedDone DEF Finished
  <2>3. \A t \in Task : work'[t] = "none" /\ runs'[t] = 0
    BY <1>3 DEF Reset
  <2>4. Started' = {} /\ Finished' = {}
    BY <2>3 DEF Started, Finished
  <2>5. Contract!NewSweep
    BY <2>2, <2>4 DEF Contract!NewSweep, Started, Finished
  <2>6. QED
    BY <2>5
<1>4. ASSUME NEW t \in Task, Device(t)
      PROVE  Contract!Finish(t) \/ (Started' = Started /\ Finished' = Finished)
  <2>1. /\ work[t] = "in flight" /\ runs' = runs
        /\ \/ work' = [work EXCEPT ![t] = "finished"]
           \/ work' = [work EXCEPT ![t] = "failed"]
    BY <1>4 DEF Device, KernelEnds, TransferEnds
  <2>2. work \in [Task -> Works]
    BY DEF IInv, TypeOK
  <2>3. runs[t] = 1
    BY <2>1 DEF IInv, StatusMatchesWork, TypeOK, Statuses
  <2>4. t \in Started /\ t \notin Finished /\ Started' = Started
    <3>1. t \in Started
      BY <2>3, OneIsNat DEF Started
    <3>2. QED
      BY <2>1, <3>1 DEF Started, Finished
  <2>5. CASE work' = [work EXCEPT ![t] = "finished"]
    <3>1. Finished' = Finished \cup {t}
      BY <2>2, <2>5 DEF Finished
    <3>2. Contract!Finish(t)
      BY <2>4, <3>1 DEF Contract!Finish, Started, Finished
    <3>3. QED
      BY <3>2
  <2>6. CASE work' = [work EXCEPT ![t] = "failed"]
    <3>1. Finished' = Finished
      BY <2>1, <2>2, <2>6 DEF Finished
    <3>2. QED
      BY <2>4, <3>1
  <2>7. QED
    BY <2>1, <2>5, <2>6
<1>5. ASSUME work' = work, runs' = runs
      PROVE  Started' = Started /\ Finished' = Finished
  BY <1>5 DEF Started, Finished
<1>6. CASE Begin \/ LoopTest \/ EndDispatch \/ EndPollGpu \/ EndPollMpi
  BY <1>5, <1>6 DEF Begin, LoopTest, EndDispatch, EndPollGpu, EndPollMpi
<1>7. CASE PollGpu \/ PollMpi \/ UNCHANGED vars
  BY <1>5, <1>7 DEF PollGpu, PollMpi, vars
<1>8. QED
  BY <1>1, <1>2, <1>3, <1>4, <1>6, <1>7 DEF Next, Run

(* In every run over an acyclic graph the executor implements TaskGraph:   *)
(* whatever the queues, the polling order and the devices do, every sweep  *)
(* launches each task once, after its dependencies, and the next sweep     *)
(* starts only when all of them have taken effect.                         *)
THEOREM Implements == Acyclic => (Spec => ContractSpec)
<1> SUFFICES ASSUME Acyclic PROVE Spec => ContractSpec
  OBVIOUS
<1>1. Init => Contract!Init
  BY DEF Init, Contract!Init
<1>2. IInv /\ [Next]_vars => [Contract!Next]_(Contract!vars)
  BY ContractStep DEF Contract!Next, Contract!vars, Started, Finished
<1>3. QED
  BY <1>1, <1>2, Inductive, PTL DEF Spec, ContractSpec, Contract!Spec
=============================================================================
