------------------------- MODULE WorkUnitRedisProofs -------------------------
(***************************************************************************)
(* The Redis work-unit queue, for any number of units, workers, hosts,     *)
(* operators, sessions and faults: type correctness, delivery of a unit to *)
(* one place at a time, reachability of the queued units, and credit of a  *)
(* report to the worker that makes it.                                     *)
(***************************************************************************)
EXTENDS WorkUnitRedis, FiniteSetTheorems, SequenceTheorems, TLAPS

-----------------------------------------------------------------------------
(* The inductive invariant                                                 *)

\* Every id that is anywhere is the id of a saved record.
IdsSaved ==
    /\ \A w \in Worker : task[w] <= created
    /\ \A i \in 1 .. Len(pending) : pending[i] <= created
    /\ \A a \in Caller : target[a] <= created

\* A worker holds a unit from its pop to its report, a caller from its load or
\* save to its last command; a dequeue() that goes on has an attempt left.
Busy ==
    /\ \A w \in Worker : task[w] = 0 <=> wpc[w] \in {"idle", "popping"}
    /\ \A w \in Worker : wpc[w] \in {"popping", "popped", "mismatch"} => attempts[w] > 0
    /\ \A a \in Caller : target[a] = 0 <=> apc[a] = "idle"

\* One worker at most holds a unit, and then no list position has it.
HandsExclusive ==
    /\ \A v, w \in Worker : task[v] # 0 /\ task[v] = task[w] => v = w
    /\ \A w \in Worker : \A i \in 1 .. Len(pending) : pending[i] # task[w]

\* The list has no id twice.
ListExclusive ==
    \A i, j \in 1 .. Len(pending) : pending[i] = pending[j] => i = j

\* One caller at most is about to push a unit, and no one else has it yet.
PushExclusive ==
    /\ \A a, b \in Caller :
           apc[a] = "pushing" /\ apc[b] = "pushing" /\ target[a] = target[b] => a = b
    /\ \A a \in Caller : apc[a] = "pushing" =>
           /\ \A w \in Worker : task[w] # target[a]
           /\ \A i \in 1 .. Len(pending) : pending[i] # target[a]

\* What a worker executes is recorded as its own, unless it is over, and so is
\* the record it is about to write back.
ReporterRecorded ==
    \A w \in Worker :
        /\ wpc[w] = "executing" =>
               record[task[w]].node = w \/ Finished(record[task[w]])
        /\ wpc[w] = "reporting" => read[w].node = w

\* QueuedIsReachable, place by place.
QueuedHasPlace ==
    faults = 0 => \A u \in Unit : record[u].status = "queued" =>
        \/ \E w \in Worker : task[w] = u
        \/ \E i \in 1 .. Len(pending) : pending[i] = u
        \/ \E a \in Caller : apc[a] = "pushing" /\ target[a] = u

IInv == /\ TypeOK
        /\ IdsSaved
        /\ Busy
        /\ HandsExclusive
        /\ ListExclusive
        /\ PushExclusive
        /\ ReporterRecorded
        /\ QueuedHasPlace

-----------------------------------------------------------------------------
(* Lists and sets                                                          *)

\* LPUSH: the id comes first and the others move up by one position.
LEMMA Pushed ==
  ASSUME NEW p \in Seq(Unit), NEW u \in Unit
  PROVE  LET q == <<u>> \o p
         IN  /\ q \in Seq(Unit)
             /\ Len(p) \in Nat
             /\ Len(q) = Len(p) + 1
             /\ q[1] = u
             /\ \A i \in 1 .. Len(p) : q[i + 1] = p[i]
             /\ \A i \in 1 .. Len(q) : i # 1 => i - 1 \in 1 .. Len(p) /\ q[i] = p[i - 1]
  OBVIOUS

\* BRPOP: the last position is removed and the others stay.
LEMMA Popped ==
  ASSUME NEW p \in Seq(Unit), p # <<>>
  PROVE  LET q == SubSeq(p, 1, Len(p) - 1)
         IN  /\ q \in Seq(Unit)
             /\ Len(p) \in Nat \ {0} /\ Len(p) \in 1 .. Len(p)
             /\ p[Len(p)] \in Unit
             /\ Len(q) = Len(p) - 1
             /\ \A i \in 1 .. Len(q) : i \in 1 .. Len(p) /\ i # Len(p) /\ q[i] = p[i]
             /\ \A i \in 1 .. Len(p) : i # Len(p) => i \in 1 .. Len(q) /\ q[i] = p[i]
<1> DEFINE q == SubSeq(p, 1, Len(p) - 1)
<1>1. Len(p) \in Nat \ {0} /\ \A i \in 1 .. Len(p) : p[i] \in Unit
  BY EmptySeq, ElementOfSeq
<1>2. PICK n \in Nat : n = Len(p) - 1 /\ n < Len(p)
  <2>1. Len(p) - 1 \in Nat /\ Len(p) - 1 < Len(p)
    BY <1>1
  <2> QED
    BY <2>1
<1>3. /\ q \in Seq(Unit)
      /\ Len(q) = n
      /\ \A i \in 1 .. n : q[i] = p[i]
  <2>1. \A i \in 1 .. n : p[i] \in Unit
    BY <1>1, <1>2
  <2>2. q = SubSeq(p, 1, n)
    BY <1>2
  <2>3. /\ SubSeq(p, 1, n) \in Seq(Unit)
        /\ Len(SubSeq(p, 1, n)) = IF 1 <= n THEN n - 1 + 1 ELSE 0
        /\ \A i \in 1 .. n - 1 + 1 : SubSeq(p, 1, n)[i] = p[1 + i - 1]
    BY <2>1, SubSeqProperties
  <2> HIDE DEF q
  <2> QED
    BY <2>2, <2>3
<1> HIDE DEF q
<1>4. /\ Len(p) \in 1 .. Len(p)
      /\ \A i \in 1 .. Len(q) : i \in 1 .. Len(p) /\ i # Len(p) /\ q[i] = p[i]
      /\ \A i \in 1 .. Len(p) : i # Len(p) => i \in 1 .. Len(q) /\ q[i] = p[i]
  BY <1>1, <1>2, <1>3
<1> QED
  BY <1>1, <1>2, <1>3, <1>4 DEF q

\* A record written back with another status keeps its node.
LEMMA WithStatus ==
  ASSUME NEW r \in Record, NEW st \in {"queued", "assigned"} \cup Terminal
  PROVE  /\ [r EXCEPT !.status = st] \in Record
         /\ [r EXCEPT !.status = st].status = st
         /\ [r EXCEPT !.status = st].node = r.node
  BY DEF Record

\* A list without duplicates is no longer than there are units.
LEMMA ListBounded ==
  ASSUME NEW p \in Seq(Unit),
         \A i, j \in 1 .. Len(p) : p[i] = p[j] => i = j
  PROVE  Len(p) \in 0 .. MaxUnits
<1>1. Len(p) \in Nat /\ p \in [1 .. Len(p) -> Unit]
  OBVIOUS
<1>2. p \in Injection(1 .. Len(p), Unit)
  BY <1>1 DEF Injection, IsInjective
<1>3. IsFiniteSet(Unit) /\ Cardinality(Unit) = MaxUnits
  BY FS_Interval, UnitsAssumption DEF Unit
<1>4. Cardinality(1 .. Len(p)) <= Cardinality(Unit)
  BY <1>2, <1>3, FS_Injection
<1>5. Cardinality(1 .. Len(p)) = Len(p)
  BY <1>1, FS_Interval
<1> QED
  BY <1>1, <1>3, <1>4, <1>5, UnitsAssumption

\* A set with no two different elements has one at most.
LEMMA AtMostOne ==
  ASSUME NEW S, \A x, y \in S : x = y
  PROVE  /\ Cardinality(S) \in 0 .. 1
         /\ S = {} => Cardinality(S) = 0
<1>1. CASE S = {}
  BY <1>1, FS_EmptySet
<1>2. CASE S # {}
  <2>1. PICK x \in S : TRUE
    BY <1>2
  <2>2. S = {x}
    BY <2>1
  <2> QED
    BY <1>2, <2>2, FS_Singleton
<1> QED
  BY <1>1, <1>2

-----------------------------------------------------------------------------
(* Every step preserves the invariant                                      *)

\* The invariant holds of an empty queue with idle callers.
LEMMA InitIInv == Init => IInv
<1> SUFFICES ASSUME Init PROVE IInv
  OBVIOUS
<1>1. pending \in Seq(Unit) /\ Len(pending) = 0
  BY DEF Init
<1>2. TypeOK
  BY <1>1, UnitsAssumption, FaultsAssumption, SessionAssumption DEF Init, TypeOK, Record, Absent
<1>3. IdsSaved /\ Busy
  BY <1>1 DEF Init, IdsSaved, Busy
<1>4. HandsExclusive /\ ListExclusive /\ PushExclusive
  BY <1>1 DEF Init, HandsExclusive, ListExclusive, PushExclusive
<1>5. ReporterRecorded /\ QueuedHasPlace
  BY DEF Init, ReporterRecorded, QueuedHasPlace, Absent
<1> QED
  BY <1>2, <1>3, <1>4, <1>5 DEF IInv

\* Steps that move no id and write no record preserve what is about ids.
LEMMA PlacesKept ==
  ASSUME IInv, UNCHANGED <<created, record, pending, task, target, faults>>,
         \A a \in Caller : apc'[a] = "pushing" <=> apc[a] = "pushing"
  PROVE  /\ IdsSaved' /\ HandsExclusive' /\ ListExclusive' /\ PushExclusive'
         /\ QueuedHasPlace'
<1>1. IdsSaved' /\ HandsExclusive' /\ ListExclusive'
  BY DEF IInv, IdsSaved, HandsExclusive, ListExclusive
<1>2. PushExclusive' /\ QueuedHasPlace'
  BY DEF IInv, PushExclusive, QueuedHasPlace
<1> QED
  BY <1>1, <1>2

\* A worker that puts its unit down for good takes no place of another's.
LEMMA HandEmptied ==
  ASSUME IInv, NEW w \in Worker, UNCHANGED <<created, pending, apc, target>>,
         \A v \in Worker : task'[v] = IF v = w THEN 0 ELSE task[v],
         wpc' = [wpc EXCEPT ![w] = "idle"],
         \A v \in Worker : v # w => attempts'[v] = attempts[v]
  PROVE  IdsSaved' /\ Busy' /\ HandsExclusive' /\ ListExclusive' /\ PushExclusive'
<1>1. /\ created >= 0
      /\ \A i \in 1 .. Len(pending) : pending[i] # 0
      /\ \A a \in Caller : apc[a] = "pushing" => target[a] # 0
  <2>1. \A i \in 1 .. Len(pending) : pending[i] \in Unit
    BY ElementOfSeq DEF IInv, TypeOK
  <2> QED
    BY <2>1 DEF IInv, TypeOK, Busy, Unit
<1>2. IdsSaved'
  BY <1>1 DEF IInv, IdsSaved, TypeOK
<1>3. Busy'
  BY DEF IInv, Busy, TypeOK
<1>4. HandsExclusive' /\ ListExclusive' /\ PushExclusive'
  BY <1>1 DEF IInv, HandsExclusive, ListExclusive, PushExclusive
<1> QED
  BY <1>2, <1>3, <1>4

\* enqueue()'s HSET: the fresh record is in the hands of the caller alone.
LEMMA SaveNewIInv ==
  ASSUME IInv, NEW a \in Caller, NEW s \in Session \cup {AnySession},
         NEW from \in Unit \cup {0}, SaveNew(a, s, from), apc[a] # "pushing"
  PROVE  IInv'
<1>1. PICK u \in Unit : u = created + 1
  BY UnitsAssumption DEF SaveNew, IInv, TypeOK, Unit
<1>2. /\ created' = u /\ created \in Nat /\ created' \in 0 .. MaxUnits /\ u > created
      /\ record' = [record EXCEPT ![u].status = "queued"]
      /\ session' = [session EXCEPT ![u] = s]
      /\ origin' = [origin EXCEPT ![u] = from]
      /\ apc' = [apc EXCEPT ![a] = "pushing"]
      /\ target' = [target EXCEPT ![a] = u]
      /\ UNCHANGED <<pending, wpc, task, attempts, read, faults>>
  BY <1>1, UnitsAssumption DEF SaveNew, workers, IInv, TypeOK, Unit
<1>3. record[u] \in Record /\ [record[u] EXCEPT !.status = "queued"] \in Record
  BY WithStatus DEF IInv, TypeOK
<1>4. record' \in [Unit -> Record] /\ \A v \in Unit : v # u => record'[v] = record[v]
  BY <1>2, <1>3 DEF IInv, TypeOK
<1>5. TypeOK'
  BY <1>2, <1>4 DEF IInv, TypeOK
<1>6. /\ \A w \in Worker : task[w] # u
      /\ \A i \in 1 .. Len(pending) : pending[i] # u
      /\ \A b \in Caller : target[b] # u
  BY <1>2 DEF IInv, IdsSaved
<1>7. IdsSaved'
  <2>1. /\ \A w \in Worker : task[w] \in Nat /\ task[w] <= u
        /\ \A i \in 1 .. Len(pending) : pending[i] \in Nat /\ pending[i] <= u
        /\ \A b \in Caller : target[b] \in Nat /\ target[b] <= u
    <3>1. /\ \A w \in Worker : task[w] \in Nat
          /\ \A i \in 1 .. Len(pending) : pending[i] \in Nat
          /\ \A b \in Caller : target[b] \in Nat
      <4>1. \A v \in Unit \cup {0} : v \in Nat
        BY DEF Unit
      <4>2. \A i \in 1 .. Len(pending) : pending[i] \in Unit
        BY ElementOfSeq DEF IInv, TypeOK
      <4> QED
        BY <4>1, <4>2 DEF IInv, TypeOK
    <3> QED
      BY <1>1, <1>2, <3>1 DEF IInv, IdsSaved
  <2> QED
    BY <1>1, <1>2, <2>1 DEF IdsSaved, IInv, TypeOK
<1>8. Busy'
  BY <1>1, <1>2 DEF IInv, Busy, TypeOK, Unit
<1>9. HandsExclusive' /\ ListExclusive'
  BY <1>2 DEF IInv, HandsExclusive, ListExclusive
<1>10. PushExclusive'
  BY <1>2, <1>6 DEF IInv, PushExclusive, TypeOK
<1>11. ReporterRecorded'
  <2>1. \A w \in Worker : wpc[w] = "executing" => task[w] \in Unit
    BY DEF IInv, TypeOK, Busy
  <2> QED
    BY <1>2, <1>4, <1>6, <2>1 DEF IInv, ReporterRecorded, Finished
<1>12. QueuedHasPlace'
  <2> SUFFICES ASSUME faults = 0, NEW v \in Unit, record'[v].status = "queued"
               PROVE \/ \E w \in Worker : task'[w] = v
                     \/ \E i \in 1 .. Len(pending') : pending'[i] = v
                     \/ \E b \in Caller : apc'[b] = "pushing" /\ target'[b] = v
    BY <1>2 DEF QueuedHasPlace
  <2>1. CASE v = u
    <3>1. apc'[a] = "pushing" /\ target'[a] = v
      BY <1>2, <2>1 DEF IInv, TypeOK
    <3> QED
      BY <3>1
  <2>2. CASE v # u
    <3>1. \A b \in Caller : apc[b] = "pushing" => b # a
      OBVIOUS
    <3> QED
      BY <1>2, <1>4, <2>2, <3>1 DEF IInv, QueuedHasPlace, TypeOK
  <2> QED
    BY <2>1, <2>2
<1> QED
  BY <1>5, <1>7, <1>8, <1>9, <1>10, <1>11, <1>12 DEF IInv

\* The host's HSET.
LEMMA HostSaveIInv ==
  ASSUME IInv, NEW a \in Host, NEW s \in Session, HostSave(a, s)
  PROVE  IInv'
  BY SaveNewIInv DEF HostSave, Caller

\* enqueue()'s LPUSH: the id moves from its caller to the list.
LEMMA PushNewIInv ==
  ASSUME IInv, NEW a \in Caller, PushNew(a)
  PROVE  IInv'
<1>1. PICK u \in Unit : u = target[a]
  BY DEF PushNew, IInv, TypeOK, Busy
<1>2. /\ apc[a] = "pushing" /\ apc' = [apc EXCEPT ![a] = "idle"]
      /\ target' = [target EXCEPT ![a] = 0]
      /\ pending' = <<u>> \o pending /\ pending \in Seq(Unit)
      /\ UNCHANGED <<created, record, session, origin, wpc, task, attempts, read, faults>>
  BY <1>1 DEF PushNew, workers, IInv, TypeOK
<1>3. /\ pending' \in Seq(Unit)
      /\ Len(pending) \in Nat /\ Len(pending') = Len(pending) + 1
      /\ pending'[1] = u
      /\ \A i \in 1 .. Len(pending) : pending'[i + 1] = pending[i]
      /\ \A i \in 1 .. Len(pending') :
             i # 1 => i - 1 \in 1 .. Len(pending) /\ pending'[i] = pending[i - 1]
  BY <1>2, Pushed
<1>4. TypeOK'
  BY <1>2, <1>3 DEF IInv, TypeOK
<1>5. /\ \A w \in Worker : task[w] # u
      /\ \A i \in 1 .. Len(pending) : pending[i] # u
      /\ \A b \in Caller : b # a /\ apc[b] = "pushing" => target[b] # u
      /\ u <= created
  BY <1>1, <1>2 DEF IInv, PushExclusive, IdsSaved
<1>6. \A i \in 1 .. Len(pending') : i = 1 \/ i - 1 \in 1 .. Len(pending)
  BY <1>3
<1>7. IdsSaved'
  <2>1. \A i \in 1 .. Len(pending') : pending'[i] <= created
    BY <1>3, <1>5, <1>6 DEF IInv, IdsSaved
  <2>2. 0 <= created
    BY DEF IInv, TypeOK
  <2> QED
    BY <1>2, <2>1, <2>2 DEF IInv, IdsSaved, TypeOK
<1>8. Busy'
  BY <1>2 DEF IInv, Busy, TypeOK
<1>9. HandsExclusive'
  BY <1>2, <1>3, <1>5 DEF IInv, HandsExclusive
<1>10. ListExclusive'
  <2> SUFFICES ASSUME NEW i \in 1 .. Len(pending'), NEW j \in 1 .. Len(pending'),
                      pending'[i] = pending'[j]
               PROVE i = j
    BY DEF ListExclusive
  <2>1. CASE i = 1 \/ j = 1
    BY <1>3, <1>5, <2>1
  <2>2. CASE i # 1 /\ j # 1
    <3>1. pending[i - 1] = pending[j - 1] /\ i - 1 \in 1 .. Len(pending)
                                          /\ j - 1 \in 1 .. Len(pending)
      BY <1>3, <2>2
    <3>2. i - 1 = j - 1
      BY <3>1 DEF IInv, ListExclusive
    <3> QED
      BY <1>3, <3>2
  <2> QED
    BY <2>1, <2>2
<1>11. PushExclusive'
  BY <1>2, <1>3, <1>5 DEF IInv, PushExclusive, TypeOK
<1>12. ReporterRecorded'
  BY <1>2 DEF IInv, ReporterRecorded, Finished
<1>13. QueuedHasPlace'
  <2> SUFFICES ASSUME faults = 0, NEW v \in Unit, record[v].status = "queued"
               PROVE \/ \E w \in Worker : task'[w] = v
                     \/ \E i \in 1 .. Len(pending') : pending'[i] = v
                     \/ \E b \in Caller : apc'[b] = "pushing" /\ target'[b] = v
    BY <1>2 DEF QueuedHasPlace
  <2>1. CASE v = u
    BY <1>3, <2>1
  <2>2. CASE \E i \in 1 .. Len(pending) : pending[i] = v
    BY <1>3, <2>2
  <2>3. CASE \E w \in Worker : task[w] = v
    BY <1>2, <2>3
  <2>4. CASE v # u /\ \E b \in Caller : apc[b] = "pushing" /\ target[b] = v
    BY <1>1, <1>2, <2>4 DEF IInv, TypeOK
  <2> QED
    BY <2>1, <2>2, <2>3, <2>4 DEF IInv, QueuedHasPlace
<1> QED
  BY <1>4, <1>7, <1>8, <1>9, <1>10, <1>11, <1>12, <1>13 DEF IInv

\* dequeue() begins: LLEN, or one, is how many pops it may make.
LEMMA StartDequeueIInv ==
  ASSUME IInv, NEW w \in Worker, StartDequeue(w)
  PROVE  IInv'
<1>1. PICK n \in 1 .. MaxUnits : n = IF pending = <<>> THEN 1 ELSE Len(pending)
  <2>1. Len(pending) \in 0 .. MaxUnits
    BY ListBounded DEF IInv, TypeOK, ListExclusive
  <2>2. pending # <<>> => Len(pending) # 0
    BY EmptySeq DEF IInv, TypeOK
  <2> QED
    BY <2>1, <2>2, UnitsAssumption
<1>2. /\ wpc[w] = "idle" /\ wpc' = [wpc EXCEPT ![w] = "popping"]
      /\ attempts' = [attempts EXCEPT ![w] = n]
      /\ UNCHANGED <<created, record, pending, session, origin, task, apc, target, read, faults>>
  BY <1>1 DEF StartDequeue, store, callers
<1>3. TypeOK'
  BY <1>2, UnitsAssumption DEF IInv, TypeOK
<1>4. Busy'
  BY <1>2 DEF IInv, Busy, TypeOK
<1>5. ReporterRecorded'
  BY <1>2 DEF IInv, ReporterRecorded, Finished, TypeOK
<1>6. IdsSaved' /\ HandsExclusive' /\ ListExclusive' /\ PushExclusive' /\ QueuedHasPlace'
  BY <1>2, PlacesKept
<1> QED
  BY <1>3, <1>4, <1>5, <1>6 DEF IInv

\* BRPOP: the last id of the list moves to the worker's hand.
LEMMA PopIInv ==
  ASSUME IInv, NEW w \in Worker, Pop(w)
  PROVE  IInv'
<1>1. PICK u \in Unit : u = pending[Len(pending)]
  BY Popped DEF Pop, IInv, TypeOK
<1>2. /\ wpc[w] = "popping" /\ wpc' = [wpc EXCEPT ![w] = "popped"]
      /\ task' = [task EXCEPT ![w] = u] /\ task[w] = 0
      /\ pending # <<>> /\ pending \in Seq(Unit)
      /\ pending' = SubSeq(pending, 1, Len(pending) - 1)
      /\ UNCHANGED <<created, record, session, origin, attempts, apc, target, read, faults>>
  BY <1>1 DEF Pop, callers, IInv, TypeOK, Busy
<1>3. PICK n \in Nat \ {0} : n = Len(pending)
  BY <1>2, EmptySeq
<1>4. /\ pending' \in Seq(Unit)
      /\ Len(pending') = n - 1
      /\ n \in 1 .. Len(pending) /\ pending[n] = u
      /\ \A i \in 1 .. Len(pending') :
             i \in 1 .. Len(pending) /\ i # n /\ pending'[i] = pending[i]
      /\ \A i \in 1 .. Len(pending) :
             i # n => i \in 1 .. Len(pending') /\ pending'[i] = pending[i]
  BY <1>1, <1>2, <1>3, Popped
<1>5. TypeOK'
  BY <1>2, <1>4 DEF IInv, TypeOK
<1>6. /\ \A v \in Worker : task[v] # u
      /\ \A i \in 1 .. Len(pending') : pending'[i] # u
      /\ \A b \in Caller : apc[b] = "pushing" => target[b] # u
      /\ u <= created /\ u # 0
  <2>1. \A v \in Worker : task[v] # u
    BY <1>4 DEF IInv, HandsExclusive
  <2>2. \A i \in 1 .. Len(pending') : pending'[i] # u
    BY <1>4 DEF IInv, ListExclusive
  <2>3. \A b \in Caller : apc[b] = "pushing" => target[b] # u
    BY <1>4 DEF IInv, PushExclusive
  <2>4. u <= created /\ u # 0
    BY <1>4 DEF IInv, IdsSaved, Unit
  <2> QED
    BY <2>1, <2>2, <2>3, <2>4
<1>7. IdsSaved'
  BY <1>2, <1>4, <1>6 DEF IInv, IdsSaved, TypeOK
<1>8. Busy'
  BY <1>2, <1>6 DEF IInv, Busy, TypeOK
<1>9. HandsExclusive'
  <2>1. \A v \in Worker : task'[v] = IF v = w THEN u ELSE task[v]
    BY <1>2 DEF IInv, TypeOK
  <2>2. ASSUME NEW v \in Worker, NEW x \in Worker, task'[v] # 0, task'[v] = task'[x]
        PROVE  v = x
    BY <1>6, <2>1, <2>2 DEF IInv, HandsExclusive
  <2>3. ASSUME NEW v \in Worker, NEW i \in 1 .. Len(pending')
        PROVE  pending'[i] # task'[v]
    <3>1. CASE v = w
      BY <1>6, <2>1, <3>1
    <3>2. CASE v # w
      BY <1>4, <2>1, <3>2 DEF IInv, HandsExclusive
    <3> QED BY <3>1, <3>2
  <2> QED BY <2>2, <2>3 DEF HandsExclusive
<1>10. ListExclusive'
  BY <1>4 DEF IInv, ListExclusive
<1>11. PushExclusive'
  BY <1>2, <1>4, <1>6 DEF IInv, PushExclusive, TypeOK
<1>12. ReporterRecorded'
  BY <1>2 DEF IInv, ReporterRecorded, Finished, TypeOK
<1>13. QueuedHasPlace'
  <2> SUFFICES ASSUME faults = 0, NEW v \in Unit, record[v].status = "queued"
               PROVE \/ \E x \in Worker : task'[x] = v
                     \/ \E i \in 1 .. Len(pending') : pending'[i] = v
                     \/ \E b \in Caller : apc'[b] = "pushing" /\ target'[b] = v
    BY <1>2 DEF QueuedHasPlace
  <2>1. CASE v = u
    BY <1>2, <2>1 DEF IInv, TypeOK
  <2>2. CASE \E x \in Worker : task[x] = v
    <3>1. v # 0
      BY DEF Unit
    <3> QED
      BY <1>2, <2>2, <3>1 DEF IInv, TypeOK
  <2>3. CASE v # u /\ \E i \in 1 .. Len(pending) : pending[i] = v
    BY <1>4, <2>3
  <2>4. CASE \E b \in Caller : apc[b] = "pushing" /\ target[b] = v
    BY <1>2, <2>4
  <2> QED
    BY <2>1, <2>2, <2>3, <2>4 DEF IInv, QueuedHasPlace
<1> QED
  BY <1>5, <1>7, <1>8, <1>9, <1>10, <1>11, <1>12, <1>13 DEF IInv

\* BRPOP finds no id: the call returns None.
LEMMA PopTimeoutIInv ==
  ASSUME IInv, NEW w \in Worker, PopTimeout(w)
  PROVE  IInv'
<1>1. /\ wpc[w] = "popping" /\ wpc' = [wpc EXCEPT ![w] = "idle"]
      /\ attempts' = [attempts EXCEPT ![w] = 0]
      /\ UNCHANGED <<created, record, pending, session, origin, task, apc, target, read, faults>>
  BY DEF PopTimeout, store, callers
<1>2. TypeOK'
  BY <1>1, UnitsAssumption DEF IInv, TypeOK
<1>3. Busy'
  BY <1>1 DEF IInv, Busy, TypeOK
<1>4. ReporterRecorded'
  BY <1>1 DEF IInv, ReporterRecorded, Finished, TypeOK
<1>5. IdsSaved' /\ HandsExclusive' /\ ListExclusive' /\ PushExclusive' /\ QueuedHasPlace'
  BY <1>1, PlacesKept
<1> QED
  BY <1>2, <1>3, <1>4, <1>5 DEF IInv

\* What remains of a dequeue() that puts its unit down: one attempt less.
LEMMA ContinueEffect ==
  ASSUME TypeOK, Busy, NEW w \in Worker, wpc[w] \in {"popped", "mismatch"}, Continue(w)
  PROVE  /\ task' = [task EXCEPT ![w] = 0]
         /\ task' \in [Worker -> Unit \cup {0}]
         /\ attempts' \in [Worker -> 0 .. MaxUnits]
         /\ wpc'[w] \in {"idle", "popping"}
         /\ wpc'[w] = "popping" => attempts'[w] > 0
         /\ \A v \in Worker : v # w => wpc'[v] = wpc[v] /\ attempts'[v] = attempts[v]
         /\ wpc' \in [Worker -> {"idle", "popping", "popped", "mismatch", "saving",
                                 "executing", "reporting"}]
<1>1. PICK n \in 1 .. MaxUnits : n = attempts[w]
  BY UnitsAssumption DEF TypeOK, Busy
<1>2. n - 1 \in 0 .. MaxUnits /\ (n > 1 => n - 1 > 0)
  BY <1>1, UnitsAssumption
<1>3. /\ attempts' = [attempts EXCEPT ![w] = n - 1]
      /\ wpc' = [wpc EXCEPT ![w] = IF n > 1 THEN "popping" ELSE "idle"]
      /\ task' = [task EXCEPT ![w] = 0]
  BY <1>1 DEF Continue
<1>4. task' \in [Worker -> Unit \cup {0}]
  BY <1>3 DEF TypeOK
<1>5. attempts' \in [Worker -> 0 .. MaxUnits] /\ attempts'[w] = n - 1
  BY <1>2, <1>3 DEF TypeOK
<1>6. /\ wpc'[w] = IF n > 1 THEN "popping" ELSE "idle"
      /\ wpc' \in [Worker -> {"idle", "popping", "popped", "mismatch", "saving",
                              "executing", "reporting"}]
  BY <1>3 DEF TypeOK
<1>7. \A v \in Worker : v # w => wpc'[v] = wpc[v] /\ attempts'[v] = attempts[v]
  BY <1>3 DEF TypeOK
<1> QED
  BY <1>2, <1>3, <1>4, <1>5, <1>6, <1>7

\* HGET of the popped unit: it is put down if it is no longer queued.
LEMMA LoadPoppedIInv ==
  ASSUME IInv, NEW w \in Worker, LoadPopped(w)
  PROVE  IInv'
<1>0. wpc[w] = "popped"
  BY DEF LoadPopped
<1>1. PICK u \in Unit : u = task[w]
  BY <1>0 DEF IInv, TypeOK, Busy
<1>2. /\ wpc[w] = "popped"
      /\ UNCHANGED <<created, record, pending, session, origin, apc, target, read, faults>>
  BY DEF LoadPopped, store, callers
<1>3. \/ record[u].status # "queued" /\ Continue(w)
      \/ wpc' = [wpc EXCEPT ![w] = "mismatch"] /\ UNCHANGED <<task, attempts>>
      \/ wpc' = [wpc EXCEPT ![w] = "saving"] /\ UNCHANGED <<task, attempts>>
  BY <1>1 DEF LoadPopped
<1>4. ASSUME record[u].status # "queued", Continue(w)
      PROVE  IInv'
  <2>1. /\ task' = [task EXCEPT ![w] = 0]
        /\ task' \in [Worker -> Unit \cup {0}]
        /\ attempts' \in [Worker -> 0 .. MaxUnits]
        /\ wpc'[w] \in {"idle", "popping"}
        /\ wpc'[w] = "popping" => attempts'[w] > 0
        /\ \A v \in Worker : v # w => wpc'[v] = wpc[v] /\ attempts'[v] = attempts[v]
        /\ wpc' \in [Worker -> {"idle", "popping", "popped", "mismatch", "saving",
                                "executing", "reporting"}]
    BY <1>2, <1>4, ContinueEffect DEF IInv
  <2>2. TypeOK'
    BY <1>2, <2>1 DEF IInv, TypeOK
  <2>3. \A v \in Worker : task'[v] = IF v = w THEN 0 ELSE task[v]
    BY <2>1 DEF IInv, TypeOK
  <2>4. /\ created >= 0
        /\ \A i \in 1 .. Len(pending) : pending[i] # 0
        /\ \A a \in Caller : apc[a] = "pushing" => target[a] # 0
    <3>1. \A i \in 1 .. Len(pending) : pending[i] \in Unit
      BY ElementOfSeq DEF IInv, TypeOK
    <3> QED
      BY <3>1 DEF IInv, TypeOK, Busy, Unit
  <2>5. IdsSaved'
    BY <1>2, <2>3, <2>4 DEF IInv, IdsSaved, TypeOK
  <2>6. Busy'
    BY <1>2, <2>1, <2>3 DEF IInv, Busy
  <2>7. HandsExclusive'
    BY <1>2, <2>3, <2>4 DEF IInv, HandsExclusive
  <2>8. ListExclusive' /\ PushExclusive'
    BY <1>2, <2>3, <2>4 DEF IInv, ListExclusive, PushExclusive
  <2>9. ReporterRecorded'
    BY <1>2, <2>1, <2>3 DEF IInv, ReporterRecorded, Finished
  <2>10. QueuedHasPlace'
    BY <1>1, <1>2, <1>4, <2>3 DEF IInv, QueuedHasPlace
  <2> QED
    BY <2>2, <2>5, <2>6, <2>7, <2>8, <2>9, <2>10 DEF IInv
<1>5. ASSUME NEW label \in {"mismatch", "saving"}, wpc' = [wpc EXCEPT ![w] = label],
             UNCHANGED <<task, attempts>>
      PROVE  IInv'
  <2>1. TypeOK'
    BY <1>2, <1>5 DEF IInv, TypeOK
  <2>2. Busy'
    BY <1>2, <1>5 DEF IInv, Busy, TypeOK
  <2>3. ReporterRecorded'
    BY <1>2, <1>5 DEF IInv, ReporterRecorded, Finished, TypeOK
  <2>4. IdsSaved' /\ HandsExclusive' /\ ListExclusive' /\ PushExclusive' /\ QueuedHasPlace'
    BY <1>2, <1>5, PlacesKept
  <2> QED
    BY <2>1, <2>2, <2>3, <2>4 DEF IInv
<1> QED
  BY <1>3, <1>4, <1>5

\* LPUSH of another session's unit: the id moves from the hand to the list.
LEMMA PushBackIInv ==
  ASSUME IInv, NEW w \in Worker, PushBack(w)
  PROVE  IInv'
<1>1. PICK u \in Unit : u = task[w]
  BY DEF PushBack, IInv, TypeOK, Busy
<1>2. /\ wpc[w] = "mismatch" /\ Continue(w)
      /\ pending' = <<u>> \o pending /\ pending \in Seq(Unit)
      /\ UNCHANGED <<created, record, session, origin, apc, target, read, faults>>
  BY <1>1 DEF PushBack, callers, IInv, TypeOK
<1>3. /\ pending' \in Seq(Unit)
      /\ Len(pending) \in Nat /\ Len(pending') = Len(pending) + 1
      /\ pending'[1] = u
      /\ \A i \in 1 .. Len(pending) : pending'[i + 1] = pending[i]
      /\ \A i \in 1 .. Len(pending') :
             i # 1 => i - 1 \in 1 .. Len(pending) /\ pending'[i] = pending[i - 1]
  BY <1>2, Pushed
<1>4. /\ task' \in [Worker -> Unit \cup {0}]
      /\ attempts' \in [Worker -> 0 .. MaxUnits]
      /\ wpc'[w] \in {"idle", "popping"}
      /\ wpc'[w] = "popping" => attempts'[w] > 0
      /\ \A v \in Worker : v # w => wpc'[v] = wpc[v] /\ attempts'[v] = attempts[v]
      /\ wpc' \in [Worker -> {"idle", "popping", "popped", "mismatch", "saving",
                              "executing", "reporting"}]
      /\ \A v \in Worker : task'[v] = IF v = w THEN 0 ELSE task[v]
  BY <1>2, ContinueEffect DEF IInv, TypeOK
<1>5. TypeOK'
  BY <1>2, <1>3, <1>4 DEF IInv, TypeOK
<1>6. /\ \A v \in Worker : v # w => task[v] # u
      /\ \A i \in 1 .. Len(pending) : pending[i] # u /\ pending[i] # 0
      /\ \A b \in Caller : apc[b] = "pushing" => target[b] # u /\ target[b] # 0
      /\ u <= created /\ u # 0 /\ 0 <= created
  <2>1. \A i \in 1 .. Len(pending) : pending[i] \in Unit
    BY <1>2, ElementOfSeq
  <2>2. u # 0 /\ created \in Nat /\ 0 \notin Unit
    BY UnitsAssumption DEF IInv, TypeOK, Unit
  <2>3. \A v \in Worker : v # w => task[v] # u
    BY <1>1, <2>2 DEF IInv, HandsExclusive
  <2>4. \A i \in 1 .. Len(pending) : pending[i] # u /\ pending[i] # 0
    BY <1>1, <2>1, <2>2 DEF IInv, HandsExclusive
  <2>5. \A b \in Caller : apc[b] = "pushing" => target[b] # u /\ target[b] # 0
    BY <1>1 DEF IInv, PushExclusive, Busy
  <2>6. u <= created
    BY <1>1 DEF IInv, IdsSaved
  <2> QED
    BY <2>2, <2>3, <2>4, <2>5, <2>6
<1>7. \A i \in 1 .. Len(pending') :
          \/ i = 1 /\ pending'[i] = u
          \/ i - 1 \in 1 .. Len(pending) /\ pending'[i] = pending[i - 1]
  BY <1>3
<1>8. IdsSaved'
  BY <1>2, <1>4, <1>6, <1>7 DEF IInv, IdsSaved
<1>9. Busy'
  BY <1>2, <1>4 DEF IInv, Busy
<1>10. HandsExclusive'
  <2>1. \A v \in Worker : task'[v] = IF v = w THEN 0 ELSE task[v]
    BY <1>4
  <2>2. ASSUME NEW v \in Worker, NEW x \in Worker, task'[v] # 0, task'[v] = task'[x]
        PROVE  v = x
    BY <2>1, <2>2 DEF IInv, HandsExclusive
  <2>3. ASSUME NEW v \in Worker, NEW i \in 1 .. Len(pending')
        PROVE  pending'[i] # task'[v]
    <3>1. CASE pending'[i] = u
      BY <1>6, <2>1, <3>1
    <3>2. CASE i - 1 \in 1 .. Len(pending) /\ pending'[i] = pending[i - 1]
      BY <1>6, <2>1, <3>2 DEF IInv, HandsExclusive
    <3> QED BY <1>7, <3>1, <3>2
  <2> QED BY <2>2, <2>3 DEF HandsExclusive
<1>11. ListExclusive'
  <2> SUFFICES ASSUME NEW i \in 1 .. Len(pending'), NEW j \in 1 .. Len(pending'),
                      pending'[i] = pending'[j]
               PROVE i = j
    BY DEF ListExclusive
  <2>1. CASE i = 1 \/ j = 1
    BY <1>3, <1>6, <2>1
  <2>2. CASE i # 1 /\ j # 1
    <3>1. pending[i - 1] = pending[j - 1] /\ i - 1 \in 1 .. Len(pending)
                                          /\ j - 1 \in 1 .. Len(pending)
      BY <1>3, <2>2
    <3>2. i - 1 = j - 1
      BY <3>1 DEF IInv, ListExclusive
    <3> QED
      BY <1>3, <3>2
  <2> QED
    BY <2>1, <2>2
<1>12. PushExclusive'
  <2>1. \A b \in Caller : apc[b] = "pushing" =>
            \A i \in 1 .. Len(pending') : pending'[i] # target[b]
    BY <1>6, <1>7 DEF IInv, PushExclusive
  <2>2. \A b \in Caller : apc[b] = "pushing" => \A v \in Worker : task'[v] # target[b]
    BY <1>4, <1>6 DEF IInv, PushExclusive
  <2>3. apc' = apc /\ target' = target
    BY <1>2
  <2> QED
    BY <2>1, <2>2, <2>3 DEF IInv, PushExclusive
<1>13. ReporterRecorded'
  BY <1>2, <1>4 DEF IInv, ReporterRecorded, Finished
<1>14. QueuedHasPlace'
  <2> SUFFICES ASSUME faults = 0, NEW v \in Unit, record[v].status = "queued"
               PROVE \/ \E x \in Worker : task'[x] = v
                     \/ \E i \in 1 .. Len(pending') : pending'[i] = v
                     \/ \E b \in Caller : apc'[b] = "pushing" /\ target'[b] = v
    BY <1>2 DEF QueuedHasPlace
  <2>1. CASE v = u
    BY <1>3, <2>1
  <2>2. CASE \E i \in 1 .. Len(pending) : pending[i] = v
    BY <1>3, <2>2
  <2>3. CASE v # u /\ \E x \in Worker : task[x] = v
    BY <1>1, <1>4, <2>3
  <2>4. CASE \E b \in Caller : apc[b] = "pushing" /\ target[b] = v
    BY <1>2, <2>4
  <2> QED
    BY <2>1, <2>2, <2>3, <2>4 DEF IInv, QueuedHasPlace
<1> QED
  BY <1>5, <1>8, <1>9, <1>10, <1>11, <1>12, <1>13, <1>14 DEF IInv

\* HSET of the claimed record: the unit in hand is recorded as this worker's.
LEMMA SaveAssignedIInv ==
  ASSUME IInv, NEW w \in Worker, SaveAssigned(w)
  PROVE  IInv'
<1>1. PICK u \in Unit : u = task[w]
  BY DEF SaveAssigned, IInv, TypeOK, Busy
<1>2. /\ wpc[w] = "saving" /\ wpc' = [wpc EXCEPT ![w] = "executing"]
      /\ record' = [record EXCEPT ![u] = [status |-> "assigned", node |-> w]]
      /\ attempts' = [attempts EXCEPT ![w] = 0]
      /\ UNCHANGED <<created, pending, session, origin, task, apc, target, read, faults>>
  BY <1>1 DEF SaveAssigned, callers
<1>3. TypeOK'
  BY <1>2, UnitsAssumption DEF IInv, TypeOK, Record
<1>4. IdsSaved' /\ HandsExclusive' /\ ListExclusive' /\ PushExclusive'
  BY <1>2 DEF IInv, IdsSaved, HandsExclusive, ListExclusive, PushExclusive
<1>5. Busy'
  BY <1>2 DEF IInv, Busy, TypeOK
<1>6. ReporterRecorded'
  <2>1. \A v \in Worker : v # w /\ wpc[v] = "executing" => task[v] # u /\ task[v] \in Unit
    BY <1>1 DEF IInv, HandsExclusive, Busy, TypeOK
  <2>2. record'[u].node = w /\ \A x \in Unit : x # u => record'[x] = record[x]
    BY <1>2 DEF IInv, TypeOK
  <2> QED
    BY <1>1, <1>2, <2>1, <2>2 DEF IInv, ReporterRecorded, Finished, TypeOK
<1>7. QueuedHasPlace'
  BY <1>2 DEF IInv, QueuedHasPlace, TypeOK
<1> QED
  BY <1>3, <1>4, <1>5, <1>6, <1>7 DEF IInv

\* complete() of the worker begins: it reads the unit's record.
LEMMA ReportLoadIInv ==
  ASSUME IInv, NEW w \in Worker, ReportLoad(w)
  PROVE  IInv'
<1>1. PICK u \in Unit : u = task[w]
  BY DEF ReportLoad, IInv, TypeOK, Busy
<1>2. /\ wpc[w] = "executing"
      /\ UNCHANGED <<created, record, pending, session, origin, attempts, apc, target, faults>>
  BY DEF ReportLoad, store, callers
<1>3. ASSUME Finished(record[u]), wpc' = [wpc EXCEPT ![w] = "idle"],
             task' = [task EXCEPT ![w] = 0], UNCHANGED read
      PROVE  IInv'
  <2>1. TypeOK'
    BY <1>2, <1>3 DEF IInv, TypeOK
  <2>2. \A v \in Worker : task'[v] = IF v = w THEN 0 ELSE task[v]
    BY <1>3 DEF IInv, TypeOK
  <2>3. IdsSaved' /\ Busy' /\ HandsExclusive' /\ ListExclusive' /\ PushExclusive'
    BY <1>2, <1>3, <2>2, HandEmptied
  <2>4. ReporterRecorded'
    BY <1>2, <1>3, <2>2 DEF IInv, ReporterRecorded, Finished, TypeOK
  <2>5. record[u].status # "queued"
    BY <1>3 DEF Finished, Terminal
  <2>6. QueuedHasPlace'
    BY <1>1, <1>2, <2>2, <2>5 DEF IInv, QueuedHasPlace
  <2> QED
    BY <2>1, <2>3, <2>4, <2>6 DEF IInv
<1>4. ASSUME ~Finished(record[u]), wpc' = [wpc EXCEPT ![w] = "reporting"],
             read' = [read EXCEPT ![w] = record[u]], UNCHANGED task
      PROVE  IInv'
  <2>1. TypeOK'
    BY <1>2, <1>4 DEF IInv, TypeOK
  <2>2. Busy'
    BY <1>2, <1>4 DEF IInv, Busy, TypeOK
  <2>3. record[u].node = w
    BY <1>1, <1>2, <1>4 DEF IInv, ReporterRecorded
  <2>4. ReporterRecorded'
    BY <1>2, <1>4, <2>3 DEF IInv, ReporterRecorded, Finished, TypeOK
  <2>5. IdsSaved' /\ HandsExclusive' /\ ListExclusive' /\ PushExclusive' /\ QueuedHasPlace'
    BY <1>2, <1>4, PlacesKept
  <2> QED
    BY <2>1, <2>2, <2>4, <2>5 DEF IInv
<1> QED
  BY <1>1, <1>3, <1>4 DEF ReportLoad

\* complete()'s HSET: the unit leaves the worker's hand.
LEMMA ReportSaveIInv ==
  ASSUME IInv, NEW w \in Worker, ReportSave(w)
  PROVE  IInv'
<1>1. PICK u \in Unit : u = task[w]
  BY DEF ReportSave, IInv, TypeOK, Busy
<1>2. PICK st \in {"ok", "failed"} :
          record' = [record EXCEPT ![u] = [read[w] EXCEPT !.status = st]]
  BY <1>1 DEF ReportSave
<1>3. PICK rec \in Record : /\ rec = [read[w] EXCEPT !.status = st]
                            /\ rec.status = st /\ rec.node = w
  <2>1. read[w] \in Record /\ read[w].node = w /\ st \in Terminal
    BY DEF ReportSave, IInv, TypeOK, Terminal, ReporterRecorded
  <2>2. PICK r \in Record : r = read[w]
    BY <2>1
  <2>3. /\ [r EXCEPT !.status = st] \in Record
        /\ [r EXCEPT !.status = st].status = st
        /\ [r EXCEPT !.status = st].node = r.node
    BY <2>1, WithStatus
  <2> QED
    BY <2>1, <2>2, <2>3
<1>4. /\ wpc[w] = "reporting" /\ wpc' = [wpc EXCEPT ![w] = "idle"]
      /\ task' = [task EXCEPT ![w] = 0]
      /\ read' = [read EXCEPT ![w] = Absent]
      /\ record' = [record EXCEPT ![u] = rec]
      /\ UNCHANGED <<created, pending, session, origin, attempts, apc, target, faults>>
  BY <1>2, <1>3 DEF ReportSave, callers
<1>5. TypeOK'
  BY <1>4 DEF IInv, TypeOK, Record, Absent
<1>6. \A v \in Worker : task'[v] = IF v = w THEN 0 ELSE task[v]
  BY <1>4 DEF IInv, TypeOK
<1>7. IdsSaved' /\ Busy' /\ HandsExclusive' /\ ListExclusive' /\ PushExclusive'
  BY <1>4, <1>6, HandEmptied
<1>8. ReporterRecorded'
  <2>1. \A v \in Worker : v # w /\ wpc[v] = "executing" => task[v] # u /\ task[v] \in Unit
    BY <1>1 DEF IInv, HandsExclusive, Busy, TypeOK
  <2>2. \A x \in Unit : x # u => record'[x] = record[x]
    BY <1>4 DEF IInv, TypeOK
  <2> QED
    BY <1>4, <1>6, <2>1, <2>2 DEF IInv, ReporterRecorded, Finished, TypeOK
<1>9. QueuedHasPlace'
  <2>1. \A v \in Unit : record'[v].status = "queued" => v # u /\ record[v].status = "queued"
    BY <1>3, <1>4 DEF IInv, TypeOK
  <2> QED
    BY <1>1, <1>4, <1>6, <2>1 DEF IInv, QueuedHasPlace
<1> QED
  BY <1>5, <1>7, <1>8, <1>9 DEF IInv

\* Steps of callers that are not pushing, before or after, change no place.
LEMMA CallerMoves ==
  ASSUME IInv, NEW a \in Caller, apc[a] # "pushing", NEW label, label # "pushing",
         apc' = [apc EXCEPT ![a] = label],
         \A b \in Caller : b # a => target'[b] = target[b],
         target'[a] \in 0 .. created,
         UNCHANGED <<created, pending, task, faults>>
  PROVE  /\ IdsSaved' /\ HandsExclusive' /\ ListExclusive' /\ PushExclusive'
         /\ (\A u \in Unit : record'[u].status = "queued" => record[u].status = "queued")
                => QueuedHasPlace'
<1>1. \A b \in Caller : /\ apc'[b] = "pushing" <=> apc[b] = "pushing"
                        /\ apc[b] = "pushing" => target'[b] = target[b]
  BY DEF IInv, TypeOK
<1>2. IdsSaved'
  BY DEF IInv, IdsSaved, TypeOK
<1>3. HandsExclusive' /\ ListExclusive'
  BY DEF IInv, HandsExclusive, ListExclusive
<1>4. PushExclusive'
  BY <1>1 DEF IInv, PushExclusive
<1>5. (\A u \in Unit : record'[u].status = "queued" => record[u].status = "queued")
          => QueuedHasPlace'
  BY <1>1 DEF IInv, QueuedHasPlace
<1> QED
  BY <1>2, <1>3, <1>4, <1>5

\* terminate_restart() begins: the operator has read a live unit.
LEMMA RestartLoadIInv ==
  ASSUME IInv, NEW o \in Operator, RestartLoad(o)
  PROVE  IInv'
<1>1. PICK u \in 1 .. created : target' = [target EXCEPT ![o] = u]
  BY DEF RestartLoad
<1>2. /\ apc[o] = "idle" /\ apc' = [apc EXCEPT ![o] = "selected"] /\ o \in Caller
      /\ u \in Unit /\ u # 0 /\ u \in 0 .. created
      /\ UNCHANGED <<created, record, pending, session, origin, wpc, task, attempts, read, faults>>
  <2>1. u \in Unit /\ u # 0 /\ u \in 0 .. created
    BY UnitsAssumption DEF IInv, TypeOK, Unit
  <2> QED
    BY <2>1 DEF RestartLoad, store, workers, Caller
<1>3. TypeOK'
  BY <1>1, <1>2 DEF IInv, TypeOK
<1>4. Busy'
  BY <1>1, <1>2 DEF IInv, Busy, TypeOK
<1>5. ReporterRecorded'
  BY <1>2 DEF IInv, ReporterRecorded, Finished
<1>6. target'[o] = u /\ \A b \in Caller : b # o => target'[b] = target[b]
  BY <1>1, <1>2 DEF IInv, TypeOK
<1>7. IdsSaved' /\ HandsExclusive' /\ ListExclusive' /\ PushExclusive' /\ QueuedHasPlace'
  BY <1>2, <1>6, CallerMoves
<1> QED
  BY <1>3, <1>4, <1>5, <1>7 DEF IInv

\* complete("cancelled") begins: the operator reads the unit again.
LEMMA CancelLoadIInv ==
  ASSUME IInv, NEW o \in Operator, CancelLoad(o)
  PROVE  IInv'
<1>1. /\ apc[o] = "selected" /\ o \in Caller /\ target[o] \in Unit
      /\ target[o] \in 0 .. created /\ target[o] # 0
      /\ UNCHANGED <<created, record, pending, session, origin, wpc, task, attempts,
                     target, faults>>
  BY DEF CancelLoad, store, workers, Caller, IInv, TypeOK, Busy, IdsSaved, Unit
<1>2. PICK label \in {"cancelled", "cancelling"} : apc' = [apc EXCEPT ![o] = label]
  BY DEF CancelLoad
<1>3. read' = read \/ read' = [read EXCEPT ![o] = record[target[o]]]
  BY DEF CancelLoad
<1>4. read' \in [Worker \cup Operator -> Record] /\ \A w \in Worker : read'[w] = read[w]
  BY <1>1, <1>3, ActorAssumption DEF IInv, TypeOK
<1>5. TypeOK'
  BY <1>1, <1>2, <1>4 DEF IInv, TypeOK
<1>6. Busy'
  BY <1>1, <1>2 DEF IInv, Busy, TypeOK
<1>7. ReporterRecorded'
  BY <1>1, <1>4 DEF IInv, ReporterRecorded, Finished
<1>8. IdsSaved' /\ HandsExclusive' /\ ListExclusive' /\ PushExclusive' /\ QueuedHasPlace'
  BY <1>1, <1>2, CallerMoves
<1> QED
  BY <1>5, <1>6, <1>7, <1>8 DEF IInv

\* complete("cancelled")'s HSET: whoever executes the unit executes one that is over.
LEMMA CancelSaveIInv ==
  ASSUME IInv, NEW o \in Operator, CancelSave(o)
  PROVE  IInv'
<1>1. PICK u \in Unit : u = target[o]
  BY DEF CancelSave, IInv, TypeOK, Busy, Caller
<1>2. PICK rec \in Record : /\ rec = [read[o] EXCEPT !.status = "cancelled"]
                            /\ rec.status = "cancelled"
  <2>1. read[o] \in Record /\ "cancelled" \in Terminal
    BY DEF IInv, TypeOK, Terminal
  <2> QED
    BY <2>1, WithStatus
<1>3. /\ apc[o] = "cancelling" /\ apc' = [apc EXCEPT ![o] = "cancelled"] /\ o \in Caller
      /\ record' = [record EXCEPT ![u] = rec]
      /\ read' = [read EXCEPT ![o] = Absent]
      /\ target[o] \in 0 .. created
      /\ UNCHANGED <<created, pending, session, origin, wpc, task, attempts, target, faults>>
  BY <1>1, <1>2 DEF CancelSave, workers, Caller, IInv, IdsSaved, TypeOK, Unit
<1>4. TypeOK'
  BY <1>3 DEF IInv, TypeOK, Record, Absent
<1>5. Busy'
  BY <1>3 DEF IInv, Busy, TypeOK
<1>6. ReporterRecorded'
  <2>1. \A w \in Worker : read'[w] = read[w]
    BY <1>3, ActorAssumption DEF IInv, TypeOK
  <2>2. Finished(rec) /\ record'[u] = rec /\ \A x \in Unit : x # u => record'[x] = record[x]
    BY <1>2, <1>3 DEF Finished, Terminal, IInv, TypeOK
  <2>3. \A w \in Worker : wpc[w] = "executing" => task[w] \in Unit
    BY DEF IInv, Busy, TypeOK
  <2> QED
    BY <1>3, <2>1, <2>2, <2>3 DEF IInv, ReporterRecorded, Finished
<1>7. \A x \in Unit : record'[x].status = "queued" => record[x].status = "queued"
  BY <1>2, <1>3 DEF IInv, TypeOK
<1>8. IdsSaved' /\ HandsExclusive' /\ ListExclusive' /\ PushExclusive' /\ QueuedHasPlace'
  BY <1>3, <1>7, CallerMoves
<1> QED
  BY <1>4, <1>5, <1>6, <1>8 DEF IInv

\* The restart's enqueue() saves the clone.
LEMMA RestartSaveIInv ==
  ASSUME IInv, NEW o \in Operator, RestartSave(o)
  PROVE  IInv'
<1>1. /\ apc[o] = "cancelled" /\ o \in Caller /\ target[o] \in Unit
      /\ SaveNew(o, session[target[o]], target[o])
      /\ session[target[o]] \in Session \cup {AnySession}
  BY DEF RestartSave, IInv, TypeOK, Busy, Caller
<1> QED
  BY <1>1, SaveNewIInv

\* A worker's call is lost or its process dies: what it held is forgotten.
LEMMA WorkerFaultIInv ==
  ASSUME IInv, NEW w \in Worker, WorkerFault(w)
  PROVE  IInv'
<1>1. /\ faults' = faults + 1 /\ faults < MaxFaults
      /\ wpc' = [wpc EXCEPT ![w] = "idle"]
      /\ task' = [task EXCEPT ![w] = 0]
      /\ attempts' = [attempts EXCEPT ![w] = 0]
      /\ read' = [read EXCEPT ![w] = Absent]
      /\ UNCHANGED <<created, record, pending, session, origin, apc, target>>
  BY DEF WorkerFault, store, callers
<1>2. faults' \in 0 .. MaxFaults /\ faults' # 0
  BY <1>1, FaultsAssumption DEF IInv, TypeOK
<1>3. TypeOK'
  BY <1>1, <1>2, UnitsAssumption DEF IInv, TypeOK, Record, Absent
<1>4. \A v \in Worker : /\ task'[v] = IF v = w THEN 0 ELSE task[v]
                        /\ v # w => attempts'[v] = attempts[v]
  BY <1>1 DEF IInv, TypeOK
<1>5. IdsSaved' /\ Busy' /\ HandsExclusive' /\ ListExclusive' /\ PushExclusive'
  BY <1>1, <1>4, HandEmptied
<1>6. ReporterRecorded'
  BY <1>1, <1>4 DEF IInv, ReporterRecorded, Finished, TypeOK
<1>7. QueuedHasPlace'
  BY <1>2 DEF QueuedHasPlace
<1> QED
  BY <1>3, <1>5, <1>6, <1>7 DEF IInv

\* A host's or an operator's call ends between two commands.
LEMMA CallerFaultIInv ==
  ASSUME IInv, NEW a \in Caller, CallerFault(a)
  PROVE  IInv'
<1>1. /\ faults' = faults + 1 /\ faults < MaxFaults
      /\ apc' = [apc EXCEPT ![a] = "idle"]
      /\ target' = [target EXCEPT ![a] = 0]
      /\ read' = [x \in DOMAIN read |-> IF x = a THEN Absent ELSE read[x]]
      /\ UNCHANGED <<created, record, pending, session, origin, wpc, task, attempts>>
  BY DEF CallerFault, store, workers
<1>2. faults' \in 0 .. MaxFaults /\ faults' # 0
  BY <1>1, FaultsAssumption DEF IInv, TypeOK
<1>3. /\ read' \in [Worker \cup Operator -> Record]
      /\ \A w \in Worker : read'[w] = read[w]
  <2>1. DOMAIN read = Worker \cup Operator /\ Absent \in Record
    BY DEF IInv, TypeOK, Record, Absent
  <2>2. \A w \in Worker : w # a
    BY ActorAssumption DEF Caller
  <2> QED
    BY <1>1, <2>1, <2>2 DEF IInv, TypeOK
<1>4. TypeOK'
  BY <1>1, <1>2, <1>3 DEF IInv, TypeOK
<1>5. /\ \A b \in Caller : target'[b] = IF b = a THEN 0 ELSE target[b]
      /\ \A b \in Caller : apc'[b] = IF b = a THEN "idle" ELSE apc[b]
      /\ created >= 0
  BY <1>1 DEF IInv, TypeOK
<1>6. IdsSaved' /\ Busy' /\ HandsExclusive' /\ ListExclusive'
  BY <1>1, <1>5 DEF IInv, IdsSaved, Busy, HandsExclusive, ListExclusive
<1>7. PushExclusive'
  BY <1>1, <1>5 DEF IInv, PushExclusive
<1>8. ReporterRecorded' /\ QueuedHasPlace'
  BY <1>1, <1>2, <1>3 DEF IInv, ReporterRecorded, Finished, QueuedHasPlace
<1> QED
  BY <1>4, <1>6, <1>7, <1>8 DEF IInv

\* Every step of the specification preserves the invariant.
LEMMA StepIInv == IInv /\ [Next]_vars => IInv'
<1> SUFFICES ASSUME IInv, [Next]_vars PROVE IInv'
  OBVIOUS
<1>1. ASSUME NEW a \in Host, NEW s \in Session, HostSave(a, s) PROVE IInv'
  BY <1>1, HostSaveIInv
<1>2. ASSUME NEW a \in Caller, PushNew(a) \/ CallerFault(a) PROVE IInv'
  BY <1>2, PushNewIInv, CallerFaultIInv
<1>3. ASSUME NEW w \in Worker, StartDequeue(w) \/ Pop(w) \/ PopTimeout(w) \/ LoadPopped(w)
      PROVE IInv'
  BY <1>3, StartDequeueIInv, PopIInv, PopTimeoutIInv, LoadPoppedIInv
<1>4. ASSUME NEW w \in Worker, PushBack(w) \/ SaveAssigned(w) \/ ReportLoad(w)
                                           \/ ReportSave(w) \/ WorkerFault(w)
      PROVE IInv'
  BY <1>4, PushBackIInv, SaveAssignedIInv, ReportLoadIInv, ReportSaveIInv, WorkerFaultIInv
<1>5. ASSUME NEW o \in Operator, RestartLoad(o) \/ CancelLoad(o) \/ CancelSave(o)
                                                \/ RestartSave(o)
      PROVE IInv'
  BY <1>5, RestartLoadIInv, CancelLoadIInv, CancelSaveIInv, RestartSaveIInv
<1>6. CASE UNCHANGED vars
  <2>1. UNCHANGED <<created, record, pending, session, origin, wpc, task, attempts,
                    apc, target, read, faults>>
    BY <1>6 DEF vars, store, workers, callers
  <2>2. TypeOK' /\ Busy' /\ ReporterRecorded'
    BY <2>1 DEF IInv, TypeOK, Busy, ReporterRecorded, Finished
  <2> QED
    BY <2>1, <2>2, PlacesKept DEF IInv
<1> QED
  BY <1>1, <1>2, <1>3, <1>4, <1>5, <1>6 DEF Next

-----------------------------------------------------------------------------
(* The theorems                                                            *)

\* The inductive invariant holds of every reachable state.
THEOREM Invariance == Spec => []IInv
  BY InitIInv, StepIInv, PTL DEF Spec

\* Every variable keeps its type: list, hands, targets and copies hold ids and
\* records of the hash, and LLEN never counts more units than were saved.
THEOREM TypeCorrect == Spec => []TypeOK
<1>1. IInv => TypeOK
  BY DEF IInv
<1> QED
  BY <1>1, Invariance, PTL

\* The three places a unit's id can be in exclude one another.
LEMMA OnePlace ==
  ASSUME IInv, NEW u \in Unit
  PROVE  Cardinality(InHand(u)) + Cardinality(InList(u)) + Cardinality(BeingPushed(u)) <= 1
<1>1. u # 0
  BY DEF Unit
<1>2. /\ \A v, w \in InHand(u) : v = w
      /\ \A i, j \in InList(u) : i = j
      /\ \A a, b \in BeingPushed(u) : a = b
  BY <1>1 DEF IInv, HandsExclusive, ListExclusive, PushExclusive, InHand, InList, BeingPushed
<1>3. /\ InHand(u) = {} \/ InList(u) = {}
      /\ InHand(u) = {} \/ BeingPushed(u) = {}
      /\ InList(u) = {} \/ BeingPushed(u) = {}
  BY <1>1 DEF IInv, HandsExclusive, PushExclusive, InHand, InList, BeingPushed
<1>4. /\ Cardinality(InHand(u)) \in 0 .. 1
      /\ InHand(u) = {} => Cardinality(InHand(u)) = 0
  BY <1>2, AtMostOne
<1>5. /\ Cardinality(InList(u)) \in 0 .. 1
      /\ InList(u) = {} => Cardinality(InList(u)) = 0
  BY <1>2, AtMostOne
<1>6. /\ Cardinality(BeingPushed(u)) \in 0 .. 1
      /\ BeingPushed(u) = {} => Cardinality(BeingPushed(u)) = 0
  BY <1>2, AtMostOne
<1> QED
  BY <1>3, <1>4, <1>5, <1>6

\* Pops, push-backs, restarts, crashes and lost calls never put a unit's id in
\* two places: no two workers ever execute the same unit.
THEOREM NeverDeliveredTwice == Spec => []DeliveredOnce
<1>1. IInv => DeliveredOnce
  BY OnePlace DEF DeliveredOnce
<1> QED
  BY <1>1, Invariance, PTL

\* Until a call is lost or a process dies, no queued unit is forgotten: its id
\* is in the list, in a popper's hand or about to be pushed.
THEOREM QueuedStaysReachable == Spec => []QueuedIsReachable
<1>1. IInv => QueuedIsReachable
  <2> SUFFICES ASSUME IInv, faults = 0, NEW u \in Unit, record[u].status = "queued"
               PROVE  InHand(u) \cup InList(u) \cup BeingPushed(u) # {}
    BY DEF QueuedIsReachable
  <2>1. CASE \E w \in Worker : task[w] = u
    BY <2>1 DEF InHand
  <2>2. CASE \E i \in 1 .. Len(pending) : pending[i] = u
    BY <2>2 DEF InList
  <2>3. CASE \E a \in Caller : apc[a] = "pushing" /\ target[a] = u
    BY <2>3 DEF BeingPushed
  <2> QED
    BY <2>1, <2>2, <2>3 DEF IInv, QueuedHasPlace
<1> QED
  BY <1>1, Invariance, PTL

\* Only complete()'s HSET ends a report without a fault, and it writes back a
\* record that is the reporter's.
LEMMA StepCredits ==
  ASSUME IInv, [Next]_vars, NEW w \in Worker,
         wpc[w] = "reporting", faults' = faults, wpc'[w] = "idle"
  PROVE  record'[task[w]].node = w
<1>1. CASE ReportSave(w)
  <2>1. PICK u \in Unit : u = task[w]
    BY DEF IInv, TypeOK, Busy
  <2>2. PICK st \in {"ok", "failed"} :
            record' = [record EXCEPT ![u] = [read[w] EXCEPT !.status = st]]
    BY <1>1, <2>1 DEF ReportSave
  <2>3. PICK r \in Record : r = read[w] /\ r.node = w
    BY DEF IInv, TypeOK, ReporterRecorded
  <2>4. [r EXCEPT !.status = st].node = w
    BY <2>3, WithStatus DEF Terminal
  <2> QED
    BY <2>1, <2>2, <2>3, <2>4 DEF IInv, TypeOK
<1>2. ASSUME NEW v \in Worker, v # w,
             \/ StartDequeue(v) \/ Pop(v) \/ PopTimeout(v) \/ LoadPopped(v) \/ PushBack(v)
             \/ SaveAssigned(v) \/ ReportLoad(v) \/ ReportSave(v) \/ WorkerFault(v)
      PROVE  FALSE
  <2>1. wpc'[w] = wpc[w]
    BY <1>2 DEF IInv, TypeOK, StartDequeue, Pop, PopTimeout, LoadPopped, PushBack, Continue,
                SaveAssigned, ReportLoad, ReportSave, WorkerFault
  <2> QED
    BY <2>1
<1>3. ASSUME \/ StartDequeue(w) \/ Pop(w) \/ PopTimeout(w) \/ LoadPopped(w) \/ PushBack(w)
             \/ SaveAssigned(w) \/ ReportLoad(w)
      PROVE  FALSE
  BY <1>3 DEF StartDequeue, Pop, PopTimeout, LoadPopped, PushBack, SaveAssigned, ReportLoad
<1>4. ~WorkerFault(w)
  BY DEF WorkerFault, IInv, TypeOK
<1>5. ASSUME \/ \E a \in Host, s \in Session : HostSave(a, s)
             \/ \E a \in Caller : PushNew(a) \/ CallerFault(a)
             \/ \E o \in Operator : \/ RestartLoad(o) \/ CancelLoad(o)
                                    \/ CancelSave(o) \/ RestartSave(o)
             \/ UNCHANGED vars
      PROVE  FALSE
  BY <1>5 DEF HostSave, SaveNew, PushNew, CallerFault, RestartLoad, CancelLoad, CancelSave,
              RestartSave, vars, store, workers
<1> QED
  BY <1>1, <1>2, <1>3, <1>4, <1>5 DEF Next

\* A report is recorded in the name of the worker that makes it, whatever other
\* calls wrote to the record between its HGET and its HSET.
THEOREM ReportsAreCredited == Spec => ReportCreditsReporter
<1>1. IInv /\ [Next]_vars =>
          [\A w \in Worker : wpc[w] = "reporting" /\ faults' = faults /\ wpc'[w] = "idle"
                                => record'[task[w]].node = w]_vars
  BY StepCredits
<1> QED
  BY <1>1, Invariance, PTL DEF Spec, ReportCreditsReporter
=============================================================================
