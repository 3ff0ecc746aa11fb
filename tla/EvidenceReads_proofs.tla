------------------------ MODULE EvidenceReads_proofs ------------------------
(***************************************************************************)
(* What an observability tool and the telemetry worker answer, for every   *)
(* payload their sources may send, every limit and every order in which    *)
(* requests end.                                                           *)
(***************************************************************************)
EXTENDS EvidenceReads, TLAPS, FiniteSetTheorems, SequenceTheorems

-----------------------------------------------------------------------------
(* take and filter *)

LEMMA SmallerOf ==
    ASSUME NEW a \in Int, NEW b \in Int
    PROVE  Min({a, b}) \in {a, b} /\ Min({a, b}) = IF a <= b THEN a ELSE b
<1> DEFINE P(x) == \A y \in {a, b} : x <= y
<1>1. \E x \in {a, b} : P(x)
  OBVIOUS
<1>2. Min({a, b}) = CHOOSE x \in {a, b} : P(x)
  BY DEF Min
<1>3. Min({a, b}) \in {a, b} /\ P(Min({a, b}))
  BY <1>1, <1>2, Zenon
<1> QED
  BY <1>3

LEMMA TakeOf ==
    ASSUME NEW S, NEW s \in Seq(S), NEW n \in Nat
    PROVE  /\ Take(s, n) \in Seq(S)
           /\ Len(Take(s, n)) <= Len(s)
           /\ \A i \in DOMAIN Take(s, n) : Take(s, n)[i] = s[i] /\ i \in DOMAIN s
           /\ Len(s) <= Len(Take(s, n)) => Take(s, n) = s
           /\ Len(s) <= n => Take(s, n) = s
<1> DEFINE m == Min({n, Len(s)})
           t == SubSeq(s, 1, m)
<1>1. Len(s) \in Nat
  OBVIOUS
<1>2. m \in Nat /\ m <= Len(s) /\ (Len(s) <= n => m = Len(s))
  BY <1>1, SmallerOf
<1>3. Take(s, n) = t
  BY DEF Take
<1> HIDE DEF m
<1>4. t \in Seq(S) /\ Len(t) = m /\ \A i \in 1..m : t[i] = s[i] /\ i \in 1..Len(s)
  BY <1>1, <1>2
<1>5. m = Len(s) => t = s
  BY SubSeqFull
<1> HIDE DEF t
<1>6. DOMAIN t = 1..m /\ DOMAIN s = 1..Len(s)
  BY <1>4
<1>7. Len(s) <= Len(t) \/ Len(s) <= n => t = s
  BY <1>1, <1>2, <1>4, <1>5
<1> QED
  BY <1>1, <1>2, <1>3, <1>4, <1>6, <1>7

(* How many places there are before each: as many numbers as places, each  *)
(* once.                                                                   *)
Before(places, i) == Cardinality({j \in places : j < i})

LEMMA PlacesAreCounted ==
    ASSUME NEW places, places \subseteq Nat, IsFiniteSet(places)
    PROVE  /\ Cardinality(places) \in Nat
           /\ \A i \in places : Before(places, i) \in 0..(Cardinality(places) - 1)
           /\ \A i, j \in places : Before(places, i) = Before(places, j) => i = j
<1> DEFINE Below(i) == {j \in places : j < i}
<1>1. Cardinality(places) \in Nat
  BY FS_CardinalityType
<1>2. ASSUME NEW i \in places
      PROVE  /\ IsFiniteSet(Below(i))
             /\ Cardinality(Below(i)) \in Nat
             /\ Before(places, i) = Cardinality(Below(i))
  <2>1. Below(i) \in SUBSET places
    OBVIOUS
  <2>2. IsFiniteSet(Below(i))
    BY <2>1, FS_Subset
  <2> QED
    BY <2>2, FS_CardinalityType DEF Before
<1>3. ASSUME NEW i \in places
      PROVE  Cardinality(Below(i)) < Cardinality(places)
  <2>1. Below(i) \in SUBSET places /\ i \notin Below(i)
    OBVIOUS
  <2> HIDE DEF Below
  <2> QED
    BY <1>1, <1>2, <2>1, FS_Subset
<1>4. ASSUME NEW i \in places, NEW j \in places, i < j
      PROVE  Cardinality(Below(i)) < Cardinality(Below(j))
  <2>1. ASSUME NEW m \in places, m < i
        PROVE  m < j
    BY <1>4, <2>1
  <2>2. Below(i) \in SUBSET Below(j)
    BY <2>1
  <2>3. i \in Below(j) /\ i \notin Below(i)
    BY <1>4
  <2> HIDE DEF Below
  <2> QED
    BY <1>2, <2>2, <2>3, FS_Subset
<1>5. ASSUME NEW i \in places, NEW j \in places, Before(places, i) = Before(places, j)
      PROVE  i = j
  <2>1. Cardinality(Below(i)) = Cardinality(Below(j))
    BY <1>2, <1>5
  <2>2. i = j \/ i < j \/ j < i
    OBVIOUS
  <2> HIDE DEF Below
  <2> QED
    BY <1>2, <1>4, <2>1, <2>2
<1> HIDE DEF Below
<1> QED
  BY <1>1, <1>2, <1>3, <1>5

(* A filter keeps what is at its places and nothing else.                  *)
LEMMA KeptOf ==
    ASSUME NEW S, NEW s, NEW places, places \subseteq Nat, IsFiniteSet(places),
           \A i \in places : s[i] \in S
    PROVE  /\ Kept(s, places) \in Seq(S)
           /\ \A n \in DOMAIN Kept(s, places) : \E i \in places : Kept(s, places)[n] = s[i]
           /\ \A i \in places : \E n \in DOMAIN Kept(s, places) : Kept(s, places)[n] = s[i]
           /\ Kept(s, places) = <<>> <=> places = {}
<1> DEFINE k == Cardinality(places)
           before == [i \in places |-> Before(places, i)]
           At(n) == CHOOSE i \in places : Before(places, i) = n - 1
<1>1. k \in Nat
  BY FS_CardinalityType
<1>2. before \in Injection(places, 0..(k - 1))
  <2>1. /\ \A i \in places : before[i] \in 0..(k - 1)
        /\ \A i, j \in places : before[i] = before[j] => i = j
    BY PlacesAreCounted
  <2>2. DOMAIN before = places
    OBVIOUS
  <2> HIDE DEF before, k
  <2> QED
    BY <2>1, <2>2 DEF Injection, IsInjective, before
<1>3. IsFiniteSet(0..(k - 1)) /\ Cardinality(0..(k - 1)) = k
  <2>1. k - 1 \in Int /\ 0 \in Int
    BY <1>1
  <2> HIDE DEF k
  <2> QED
    BY <1>1, <2>1, FS_Interval
<1>4. before \in Surjection(places, 0..(k - 1))
  <2> HIDE DEF before, k
  <2> QED
    BY <1>2, <1>3, FS_Injection DEF k
<1>5. ASSUME NEW n \in 1..k
      PROVE  At(n) \in places /\ Before(places, At(n)) = n - 1
  <2>1. n - 1 \in 0..(k - 1)
    BY <1>1
  <2>2. \E i \in places : before[i] = n - 1
    BY <1>4, <2>1 DEF Surjection
  <2> QED
    BY <2>2
<1>6. ASSUME NEW i \in places
      PROVE  \E n \in 1..k : At(n) = i
  <2>1. before[i] \in 0..(k - 1)
    BY <1>2 DEF Injection
  <2>2. PICK n \in 1..k : n - 1 = before[i]
    <3>1. before[i] + 1 \in 1..k /\ (before[i] + 1) - 1 = before[i]
      BY <1>1, <2>1
    <3> QED
      BY <3>1
  <2>3. Before(places, At(n)) = Before(places, i) /\ At(n) \in places
    BY <1>5, <2>2
  <2>4. At(n) = i
    BY <2>3, PlacesAreCounted
  <2> QED
    BY <2>4
<1>7. Kept(s, places) = [n \in 1..k |-> s[At(n)]]
  BY DEF Kept, Before
<1> HIDE DEF At, before
<1>8. Kept(s, places) \in Seq(S) /\ DOMAIN Kept(s, places) = 1..k
  <2>1. \A n \in 1..k : s[At(n)] \in S
    BY <1>5
  <2> HIDE DEF k
  <2> QED
    BY <1>1, <1>7, <2>1
<1>9. places = {} <=> k = 0
  BY FS_EmptySet
<1>10. Kept(s, places) = <<>> <=> k = 0
  <2>1. Len(Kept(s, places)) = k
    BY <1>1, <1>8
  <2> QED
    BY <1>8, <2>1, EmptySeq
<1> QED
  BY <1>5, <1>6, <1>7, <1>8, <1>9, <1>10

(* The same of a sequence.                                                 *)
LEMMA PlacesAreFinite ==
    ASSUME NEW S, NEW s \in Seq(S), NEW places, places \subseteq DOMAIN s
    PROVE  places \subseteq Nat /\ IsFiniteSet(places)
<1>1. Len(s) \in Nat /\ DOMAIN s = 1..Len(s)
  OBVIOUS
<1>2. IsFiniteSet(1..Len(s))
  <2>1. PICK a \in Int : a = 1
    OBVIOUS
  <2>2. Len(s) \in Int
    BY <1>1
  <2>3. IsFiniteSet(a..Len(s))
    BY <2>2, FS_Interval
  <2> QED
    BY <2>1, <2>3
<1>3. IsFiniteSet(places)
  BY <1>1, <1>2, FS_Subset
<1> QED
  BY <1>1, <1>3

-----------------------------------------------------------------------------
(* What is made of a payload *)

(* Entries that can be read.                                               *)
LEMMA PresentOf ==
    ASSUME NEW S, NEW s \in Seq(S \cup {Null})
    PROVE  /\ Present(s) \in Seq(S)
           /\ \A n \in DOMAIN Present(s) : \E i \in DOMAIN s : s[i] # Null /\ Present(s)[n] = s[i]
           /\ \A i \in DOMAIN s : s[i] # Null => \E n \in DOMAIN Present(s) : Present(s)[n] = s[i]
           /\ Present(s) = <<>> <=> \A i \in DOMAIN s : s[i] = Null
<1> DEFINE places == {i \in DOMAIN s : s[i] # Null}
<1>1. places \subseteq Nat /\ IsFiniteSet(places)
  BY PlacesAreFinite
<1>2. \A i \in places : s[i] \in S
  OBVIOUS
<1>3. Present(s) = Kept(s, places)
  BY DEF Present
<1>4. \A i \in DOMAIN s : s[i] # Null <=> i \in places
  OBVIOUS
<1>5. \A i \in places : i \in DOMAIN s
  OBVIOUS
<1> HIDE DEF places
<1>6. /\ Kept(s, places) \in Seq(S)
      /\ \A n \in DOMAIN Kept(s, places) : \E i \in places : Kept(s, places)[n] = s[i]
      /\ \A i \in places : \E n \in DOMAIN Kept(s, places) : Kept(s, places)[n] = s[i]
      /\ Kept(s, places) = <<>> <=> places = {}
  BY <1>1, <1>2, KeptOf
<1>7. places = {} <=> \A i \in DOMAIN s : ~(i \in places)
  BY <1>5
<1> QED
  BY <1>3, <1>4, <1>5, <1>6, <1>7, Zenon

(* Series with something in them.                                          *)
LEMMA FullOf ==
    ASSUME NEW S, NEW s \in Seq(S)
    PROVE  /\ Full(s) \in Seq(S)
           /\ \A i \in DOMAIN s : s[i] # <<>> => \E n \in DOMAIN Full(s) : Full(s)[n] = s[i]
           /\ Full(s) = <<>> <=> \A i \in DOMAIN s : s[i] = <<>>
<1> DEFINE places == {i \in DOMAIN s : s[i] # <<>>}
<1>1. places \subseteq Nat /\ IsFiniteSet(places)
  BY PlacesAreFinite
<1>2. \A i \in places : s[i] \in S
  OBVIOUS
<1>3. Full(s) = Kept(s, places)
  BY DEF Full
<1>4. \A i \in DOMAIN s : s[i] # <<>> <=> i \in places
  OBVIOUS
<1>5. \A i \in places : i \in DOMAIN s
  OBVIOUS
<1> HIDE DEF places
<1>6. /\ Kept(s, places) \in Seq(S)
      /\ \A n \in DOMAIN Kept(s, places) : \E i \in places : Kept(s, places)[n] = s[i]
      /\ \A i \in places : \E n \in DOMAIN Kept(s, places) : Kept(s, places)[n] = s[i]
      /\ Kept(s, places) = <<>> <=> places = {}
  BY <1>1, <1>2, KeptOf
<1>7. places = {} <=> \A i \in DOMAIN s : ~(i \in places)
  BY <1>5
<1> QED
  BY <1>3, <1>4, <1>5, <1>6, <1>7, Zenon

(* A value that is not null.                                               *)
HasValue(vector) == \E v \in ToSet(Take(vector.samples, MaxSamples)) : v # Null

(* What a vector's samples are read as.                                    *)
ReadOf(vector) == Present(Take(vector.samples, MaxSamples))

LEMMA ReadOfVector ==
    ASSUME NEW vector \in VectorRecord
    PROVE  /\ ReadOf(vector) \in Seq(Int)
           /\ ReadOf(vector) # <<>> <=> HasValue(vector)
           /\ Len(vector.samples) <= MaxSamples =>
                 \A v \in ToSet(vector.samples) \ {Null} :
                    HasValue(vector) /\ v \in ToSet(ReadOf(vector))
<1> DEFINE samples == vector.samples
           few == Take(samples, MaxSamples)
<1>1. samples \in Seq(Int \cup {Null}) /\ MaxSamples \in Nat
  BY LimitAssumption DEF VectorRecord, Sample
<1>2. few \in Seq(Int \cup {Null}) /\ (Len(samples) <= MaxSamples => few = samples)
  BY <1>1, TakeOf
<1> HIDE DEF few, samples
<1>3. /\ Present(few) \in Seq(Int)
      /\ \A i \in DOMAIN few : few[i] # Null => \E n \in DOMAIN Present(few) : Present(few)[n] = few[i]
      /\ Present(few) = <<>> <=> \A i \in DOMAIN few : few[i] = Null
  BY <1>2, PresentOf
<1>4. ReadOf(vector) = Present(few) /\ (HasValue(vector) <=> \E v \in ToSet(few) : v # Null)
  BY DEF ReadOf, HasValue, few, samples
<1>5. ASSUME Len(samples) <= MaxSamples, NEW v \in ToSet(samples) \ {Null}
      PROVE  HasValue(vector) /\ v \in ToSet(Present(few))
  <2>1. v \in ToSet(few) /\ v # Null
    BY <1>2, <1>5
  <2>2. PICK i \in DOMAIN few : few[i] = v
    BY <2>1 DEF ToSet
  <2>3. PICK n \in DOMAIN Present(few) : Present(few)[n] = v
    BY <1>3, <2>1, <2>2
  <2> QED
    BY <1>4, <2>1, <2>3, Zenon DEF ToSet
<1>6. (\E v \in ToSet(few) : v # Null) <=> ~\A i \in DOMAIN few : few[i] = Null
  BY Zenon DEF ToSet
<1> QED
  BY <1>3, <1>4, <1>5, <1>6 DEF samples

(* Whether there is a number, and where it is if nothing is cut            *)
(* (victoriametrics-provider.ts parseMetrics).                             *)
LEMMA ParsedMetrics ==
    ASSUME NEW payload \in Seq(VectorRecord \cup {Null}), ~Lost(payload)
    PROVE  /\ parseMetrics(payload) # Null
           /\ parseMetrics(payload).series # <<>> <=>
                 \E i \in DOMAIN Take(payload, MaxSeries) :
                    payload[i] # Null /\ HasValue(payload[i])
           /\ ~parseMetrics(payload).truncated =>
                 \A s \in ToSet(payload) \ {Null} : \A v \in ToSet(s.samples) \ {Null} :
                    \E t \in ToSet(parseMetrics(payload).series) : v \in ToSet(t)
<1> DEFINE head == Take(payload, MaxSeries)
           few == Present(head)
           read == [i \in DOMAIN few |-> ReadOf(few[i])]
           parsed == parseMetrics(payload)
           cut == \/ Len(payload) > MaxSeries
                  \/ \E i \in DOMAIN few : Len(few[i].samples) > MaxSamples
<1>1. MaxSeries \in Nat /\ MaxSamples \in Nat
  BY LimitAssumption
<1>2. /\ head \in Seq(VectorRecord \cup {Null})
      /\ \A i \in DOMAIN head : head[i] = payload[i] /\ i \in DOMAIN payload
      /\ Len(payload) <= MaxSeries => head = payload
  BY <1>1, TakeOf
<1> HIDE DEF head
<1>3. /\ few \in Seq(VectorRecord)
      /\ \A n \in DOMAIN few : \E i \in DOMAIN head : head[i] # Null /\ few[n] = head[i]
      /\ \A i \in DOMAIN head : head[i] # Null => \E n \in DOMAIN few : few[n] = head[i]
  <2>1. head \in Seq(VectorRecord \cup {Null})
    BY <1>2
  <2> QED
    BY <2>1, PresentOf
<1> HIDE DEF few
<1>4. \A i \in DOMAIN few : few[i] \in VectorRecord /\ read[i] = ReadOf(few[i]) /\ read[i] \in Seq(Int)
  BY <1>3, ReadOfVector
<1>5. read \in Seq(Seq(Int)) /\ DOMAIN read = DOMAIN few
  <2>1. DOMAIN few = 1..Len(few) /\ Len(few) \in Nat
    BY <1>3
  <2> QED
    BY <1>4, <2>1
<1>6. parsed = [series |-> Full(read), truncated |-> cut,
                redactionsApplied |-> \E i \in DOMAIN few : few[i].private,
                admitted |-> \A i \in DOMAIN few : read[i] # <<>> => few[i].admitted]
  BY DEF parseMetrics, few, head, ReadOf
<1> HIDE DEF read
<1>7. /\ Full(read) \in Seq(Seq(Int))
      /\ \A i \in DOMAIN few : read[i] # <<>> => \E n \in DOMAIN Full(read) : Full(read)[n] = read[i]
      /\ Full(read) = <<>> <=> \A i \in DOMAIN few : read[i] = <<>>
  <2>1. /\ Full(read) \in Seq(Seq(Int))
        /\ \A i \in DOMAIN read : read[i] # <<>> => \E n \in DOMAIN Full(read) : Full(read)[n] = read[i]
        /\ Full(read) = <<>> <=> \A i \in DOMAIN read : read[i] = <<>>
    BY <1>5, FullOf, Zenon
  <2> QED
    BY <1>5, <2>1, Zenon
<1>8. parsed.series = Full(read) /\ parsed.truncated = cut
  BY <1>6
<1>9. parsed # Null
  <2> DEFINE redacted == \E i \in DOMAIN few : few[i].private
             legal == \A i \in DOMAIN few : read[i] # <<>> => few[i].admitted
             series == Full(read)
  <2>1. /\ cut \in BOOLEAN /\ redacted \in BOOLEAN /\ legal \in BOOLEAN
        /\ series \in Seq(Seq(Int))
    BY <1>7
  <2>2. parsed = [series |-> series, truncated |-> cut, redactionsApplied |-> redacted,
                  admitted |-> legal]
    BY <1>6
  <2> HIDE DEF parsed, cut, redacted, legal, series
  <2> QED
    BY <2>1, <2>2, NullAssumption
<1>10. Full(read) # <<>> <=> \E i \in DOMAIN head : payload[i] # Null /\ HasValue(payload[i])
  <2>1. Full(read) # <<>> <=> \E n \in DOMAIN few : HasValue(few[n])
    BY <1>4, <1>7, ReadOfVector
  <2>2. (\E n \in DOMAIN few : HasValue(few[n])) <=> \E i \in DOMAIN head : head[i] # Null /\ HasValue(head[i])
    BY <1>3
  <2> QED
    BY <1>2, <2>1, <2>2
<1>11. ASSUME ~cut, NEW s \in ToSet(payload) \ {Null}, NEW v \in ToSet(s.samples) \ {Null}
       PROVE  \E t \in ToSet(Full(read)) : v \in ToSet(t)
  <2>1. head = payload
    BY <1>1, <1>2, <1>11
  <2>2. PICK i \in DOMAIN head : head[i] = s /\ s # Null
    BY <2>1 DEF ToSet
  <2>3. PICK n \in DOMAIN few : few[n] = s
    BY <1>3, <2>2
  <2>4. s \in VectorRecord
    BY <1>4, <2>3
  <2>5. Len(s.samples) <= MaxSamples
    <3>1. ~(Len(s.samples) > MaxSamples)
      BY <1>11, <2>3
    <3>2. Len(s.samples) \in Nat
      BY <2>4 DEF VectorRecord
    <3> QED
      BY <1>1, <3>1, <3>2
  <2>6. HasValue(s) /\ v \in ToSet(ReadOf(s))
    BY <2>4, <2>5, ReadOfVector
  <2>7. read[n] = ReadOf(s) /\ read[n] # <<>>
    BY <1>4, <2>3, <2>4, <2>6, ReadOfVector
  <2>8. PICK m \in DOMAIN Full(read) : Full(read)[m] = ReadOf(s)
    BY <1>7, <2>3, <2>7
  <2> QED
    BY <2>6, <2>8, Zenon DEF ToSet
<1> HIDE DEF parsed, cut
<1>12. ~parsed.truncated =>
         \A s \in ToSet(payload) \ {Null} : \A v \in ToSet(s.samples) \ {Null} :
            \E t \in ToSet(parsed.series) : v \in ToSet(t)
  BY <1>8, <1>11
<1> QED
  BY <1>8, <1>9, <1>10, <1>12 DEF parsed, head

(* With no more alerts than are taken, each that can be read and is wanted *)
(* is in the answer (victoriametrics-provider.ts activeAlerts).            *)
LEMMA AskedAlerts ==
    ASSUME NEW payload \in Seq(AlertRecord \cup {Null}), Len(payload) <= MaxAlerts,
           NEW grafana, NEW services, NEW states,
           NEW i \in DOMAIN payload, payload[i] # Null,
           Wanted(normalizeAlert(payload[i], i, grafana), services, states)
    PROVE  normalizeAlert(payload[i], i, grafana)
             \in ToSet(Asked(normalizeAlerts(payload, grafana), services, states))
<1> DEFINE few == Take(payload, MaxAlerts)
           Norm(j) == normalizeAlert(few[j], j, grafana)
           norms == [j \in DOMAIN few |-> Norm(j)]
           readable == {j \in DOMAIN few : few[j] # Null}
           alerts == normalizeAlerts(payload, grafana)
           wanted == {n \in DOMAIN alerts : Wanted(alerts[n], services, states)}
           S == {Norm(j) : j \in DOMAIN few}
<1>1. few = payload
  BY LimitAssumption, TakeOf
<1>2. readable \subseteq Nat /\ IsFiniteSet(readable)
  BY <1>1, PlacesAreFinite
<1>3. alerts = Kept(norms, readable)
  BY DEF normalizeAlerts
<1>4. \A j \in readable : norms[j] \in S /\ norms[j] = Norm(j)
  OBVIOUS
<1>5. i \in readable
  BY <1>1
<1>6. Norm(i) = normalizeAlert(payload[i], i, grafana)
  BY <1>1
<1> HIDE DEF few, Norm, norms, readable, S
<1>7. /\ Kept(norms, readable) \in Seq(S)
      /\ \A j \in readable : \E n \in DOMAIN Kept(norms, readable) : Kept(norms, readable)[n] = norms[j]
  BY <1>2, <1>4, KeptOf
<1> HIDE DEF alerts
<1>8. alerts \in Seq(S) /\ \E n \in DOMAIN alerts : alerts[n] = Norm(i)
  BY <1>3, <1>4, <1>5, <1>7
<1>9. PICK n \in DOMAIN alerts : alerts[n] = Norm(i)
  BY <1>8
<1>10. wanted \subseteq Nat /\ IsFiniteSet(wanted)
  <2>1. wanted \subseteq DOMAIN alerts
    OBVIOUS
  <2> QED
    BY <1>8, <2>1, PlacesAreFinite
<1>11. n \in wanted
  BY <1>6, <1>9
<1>12. \A m \in wanted : alerts[m] \in S
  BY <1>8
<1>13. Asked(alerts, services, states) = Kept(alerts, wanted)
  BY DEF Asked
<1> HIDE DEF wanted
<1>14. \A m \in wanted : \E k \in DOMAIN Kept(alerts, wanted) : Kept(alerts, wanted)[k] = alerts[m]
  BY <1>10, <1>12, KeptOf
<1>15. PICK k \in DOMAIN Kept(alerts, wanted) : Kept(alerts, wanted)[k] = alerts[n]
  BY <1>11, <1>14
<1> QED
  BY <1>6, <1>9, <1>13, <1>15, Zenon DEF ToSet, alerts

(* Metrics that are not marked as cut hold every sample of the window, and *)
(* none at all without a mark means there was nothing                      *)
(* (telemetry-evidence-provider.ts normalizeMetrics).                      *)
LEMMA MetricEvidence ==
    ASSUME NEW series \in Seq(Seq(Sample)), ~normalizeMetrics(series).truncated
    PROVE  /\ \A s \in ToSet(series) : \A t \in ToSet(s) \cap Window :
                 \E kept \in ToSet(normalizeMetrics(series).items) : t \in ToSet(kept)
           /\ normalizeMetrics(series).items = <<>>
                 /\ ~normalizeMetrics(series).redactionsApplied => series = <<>>
<1> DEFINE limit == Min({QueryLimit, SeriesLimit})
           few == Take(series, limit)
           InTime(samples) ==
               Kept(samples, {j \in DOMAIN samples : samples[j] \in Window})
           kept == [i \in DOMAIN few |-> InTime(Take(few[i], SampleLimit))]
           cut == Len(series) > Len(few) \/ \E i \in DOMAIN few : Len(few[i]) > SampleLimit
           evidence == normalizeMetrics(series)
<1>1. limit \in Nat /\ SampleLimit \in Nat
  BY LimitAssumption, SmallerOf
<1>2. evidence = [available |-> TRUE, items |-> Full(kept), truncated |-> cut,
                  redactionsApplied |-> \E i \in DOMAIN few : kept[i] = <<>>]
  BY DEF normalizeMetrics
<1>3. ~cut
  <2> HIDE DEF cut, kept
  <2>1. evidence.truncated = cut
    BY <1>2
  <2> QED
    BY <2>1
<1> HIDE DEF limit
<1>4. few \in Seq(Seq(Sample)) /\ (Len(series) <= Len(few) => few = series)
  BY <1>1, TakeOf
<1> HIDE DEF few
<1>5. few = series
  <2>1. Len(series) \in Nat /\ Len(few) \in Nat
    BY <1>4
  <2> QED
    BY <1>3, <1>4, <2>1
<1>6. ASSUME NEW i \in DOMAIN series
      PROVE  /\ kept[i] \in Seq(Sample)
             /\ \A t \in ToSet(series[i]) \cap Window : t \in ToSet(kept[i])
  <2> DEFINE samples == series[i]
             places == {j \in DOMAIN samples : samples[j] \in Window}
  <2>1. samples \in Seq(Sample) /\ Len(samples) <= SampleLimit
    <3>1. samples \in Seq(Sample) /\ Len(samples) \in Nat
      OBVIOUS
    <3>2. ~(Len(samples) > SampleLimit)
      BY <1>3, <1>5
    <3> QED
      BY <1>1, <3>1, <3>2
  <2>2. Take(samples, SampleLimit) = samples
    BY <1>1, <2>1, TakeOf
  <2>3. kept[i] = Kept(samples, places)
    BY <1>5, <2>2
  <2>4. places \subseteq Nat /\ IsFiniteSet(places)
    BY <2>1, PlacesAreFinite
  <2>5. \A j \in places : samples[j] \in Sample
    BY <2>1
  <2>6. ASSUME NEW t \in ToSet(samples) \cap Window
        PROVE  \E j \in places : samples[j] = t
    BY DEF ToSet
  <2> HIDE DEF places
  <2>7. /\ Kept(samples, places) \in Seq(Sample)
        /\ \A j \in places : \E n \in DOMAIN Kept(samples, places) : Kept(samples, places)[n] = samples[j]
    BY <2>4, <2>5, KeptOf
  <2> HIDE DEF samples, kept
  <2>8. ASSUME NEW t \in ToSet(samples) \cap Window
        PROVE  t \in ToSet(kept[i])
    <3>1. PICK j \in places : samples[j] = t
      BY <2>6
    <3>2. PICK n \in DOMAIN Kept(samples, places) : Kept(samples, places)[n] = t
      BY <2>7, <3>1
    <3> QED
      BY <2>3, <3>2, Zenon DEF ToSet
  <2> QED
    BY <2>3, <2>7, <2>8 DEF samples
<1>7. kept \in Seq(Seq(Sample)) /\ DOMAIN kept = DOMAIN series
  <2>1. DOMAIN series = 1..Len(series) /\ Len(series) \in Nat
    OBVIOUS
  <2> QED
    BY <1>5, <1>6, <2>1
<1> HIDE DEF kept, cut
<1>8. /\ \A i \in DOMAIN kept : kept[i] # <<>> => \E n \in DOMAIN Full(kept) : Full(kept)[n] = kept[i]
      /\ Full(kept) = <<>> <=> \A i \in DOMAIN kept : kept[i] = <<>>
  BY <1>7, FullOf, ZenonT(60)
<1>9. evidence.items = Full(kept)
      /\ (evidence.redactionsApplied <=> \E i \in DOMAIN series : kept[i] = <<>>)
  BY <1>2, <1>5
<1> HIDE DEF evidence
<1>10. ASSUME NEW s \in ToSet(series), NEW t \in ToSet(s) \cap Window
       PROVE  \E k \in ToSet(evidence.items) : t \in ToSet(k)
  <2>1. PICK i \in DOMAIN series : series[i] = s
    BY DEF ToSet
  <2>2. t \in ToSet(kept[i])
    BY <1>6, <2>1
  <2>3. kept[i] # <<>>
    BY <2>2 DEF ToSet
  <2>4. PICK n \in DOMAIN Full(kept) : Full(kept)[n] = kept[i]
    BY <1>7, <1>8, <2>3
  <2>5. kept[i] \in ToSet(Full(kept))
    BY <2>4, Zenon DEF ToSet
  <2> QED
    BY <1>9, <2>2, <2>5
<1>11. ASSUME evidence.items = <<>>, ~evidence.redactionsApplied
       PROVE  series = <<>>
  <2>1. \A i \in DOMAIN series : FALSE
    BY <1>7, <1>8, <1>9, <1>11
  <2>2. Len(series) = 0
    <3>1. Len(series) \in Nat /\ DOMAIN series = 1..Len(series)
      OBVIOUS
    <3>2. Len(series) # 0 => 1 \in DOMAIN series
      BY <3>1
    <3> QED
      BY <2>1, <3>2
  <2> QED
    BY <2>2, EmptySeq
<1> QED
  BY <1>10, <1>11 DEF evidence

(* The same of spans (telemetry-evidence-provider.ts normalizeTraces).     *)
LEMMA TraceEvidence ==
    ASSUME NEW spans \in Seq(SpanRecord), ~normalizeTraces(spans).truncated
    PROVE  /\ \A s \in ToSet(spans) :
                 s.measured /\ s.at \in Window => s \in ToSet(normalizeTraces(spans).items)
           /\ normalizeTraces(spans).items = <<>>
                 /\ ~normalizeTraces(spans).redactionsApplied => spans = <<>>
<1> DEFINE limit == Min({QueryLimit, SpanLimit})
           few == Take(spans, limit)
           places == {i \in DOMAIN few : few[i].measured /\ few[i].at \in Window \cup {Null}}
           kept == Kept(few, places)
           evidence == normalizeTraces(spans)
<1>1. limit \in Nat
  BY LimitAssumption, SmallerOf
<1>2. evidence = [available |-> TRUE, items |-> kept, truncated |-> Len(spans) > Len(few),
                  redactionsApplied |-> Len(spans) > Len(kept)]
  BY DEF normalizeTraces
<1> HIDE DEF limit
<1>3. few \in Seq(SpanRecord) /\ (Len(spans) <= Len(few) => few = spans)
  BY <1>1, TakeOf
<1>4. few = spans
  <2>1. Len(spans) \in Nat /\ Len(few) \in Nat
    BY <1>3
  <2>2. ~(Len(spans) > Len(few))
    <3> HIDE DEF few, kept
    <3>1. evidence.truncated = (Len(spans) > Len(few))
      BY <1>2
    <3> QED
      BY <3>1
  <2> QED
    BY <1>3, <2>1, <2>2
<1> HIDE DEF few
<1>5. places \subseteq Nat /\ IsFiniteSet(places)
  BY <1>4, PlacesAreFinite
<1>6. \A i \in places : few[i] \in SpanRecord
  BY <1>3
<1>7. ASSUME NEW s \in ToSet(spans), s.measured, s.at \in Window
      PROVE  \E i \in places : few[i] = s
  BY <1>4, <1>7 DEF ToSet
<1> HIDE DEF places
<1>8. /\ Kept(few, places) \in Seq(SpanRecord)
      /\ \A i \in places : \E n \in DOMAIN Kept(few, places) : Kept(few, places)[n] = few[i]
  BY <1>5, <1>6, KeptOf
<1> HIDE DEF kept
<1>9. /\ evidence.items = kept
      /\ evidence.redactionsApplied = (Len(spans) > Len(kept))
  <2>1. evidence.items = kept
    BY <1>2
  <2>2. evidence.redactionsApplied = (Len(spans) > Len(kept))
    BY <1>2
  <2> QED
    BY <2>1, <2>2
<1> HIDE DEF evidence
<1>10. ASSUME NEW s \in ToSet(spans), s.measured, s.at \in Window
       PROVE  s \in ToSet(kept)
  <2>1. PICK i \in places : few[i] = s
    BY <1>7, <1>10
  <2>2. PICK n \in DOMAIN kept : kept[n] = s
    BY <1>8, <2>1 DEF kept
  <2> QED
    BY <2>2, Zenon DEF ToSet
<1>11. ASSUME kept = <<>>, ~(Len(spans) > Len(kept))
       PROVE  spans = <<>>
  <2>1. Len(kept) = 0
    BY <1>11, EmptySeq
  <2>2. Len(spans) \in Nat
    OBVIOUS
  <2>3. Len(spans) = 0
    BY <1>11, <2>1, <2>2
  <2> QED
    BY <2>3, EmptySeq
<1> QED
  BY <1>9, <1>10, <1>11 DEF evidence

-----------------------------------------------------------------------------
(* The call and its requests *)

Settled(l) == legs[l].pc = "settled"

Answered(l) == IF l \in DOMAIN Payloads THEN {Null} \cup Payloads[l] ELSE {Null}

(* Where a call is, the requests it has made, and the flag of its health   *)
(* checks, which says neither less nor more than that one has failed.      *)
ReadInv ==
    /\ pc \in {"idle", "waiting", "ended"}
    /\ pc = "idle" => legs = <<>>
    /\ pc # "idle" => ask \in Asks /\ DOMAIN legs = Sources(ask)
    /\ \A l \in DOMAIN legs : legs[l] \in [pc : {"headers", "body", "settled"}, raw : Answered(l)]
    /\ unavailable \in BOOLEAN
    /\ unavailable <=> \E l \in DOMAIN legs \cap Services(ask) : Settled(l) /\ Lost(legs[l].raw)
    /\ pc = "ended" => \A l \in DOMAIN legs : Settled(l)

LEMMA SourcesKept ==
    ASSUME UNCHANGED <<deployed, ask>>
    PROVE  Sources(ask)' = Sources(ask) /\ Services(ask)' = Services(ask)
<1> QED
  BY DEF Sources, Services, SubjectOf, Rendered

LEMMA StartOfCall ==
    ASSUME Init
    PROVE  ReadInv
<1>1. DOMAIN legs = {}
  BY DEF Init
<1> QED
  BY <1>1 DEF Init, ReadInv

LEMMA AskKeepsReads ==
    ASSUME ReadInv, NEW a \in Asks, Ask(a)
    PROVE  ReadInv'
<1>1. /\ legs' = [l \in Sources(a) |-> [pc |-> "headers", raw |-> Null]]
      /\ pc' = "waiting" /\ ask' = a /\ deployed' = deployed /\ unavailable' = unavailable
  BY DEF Ask
<1>2. ~unavailable
  <2>1. DOMAIN legs = {}
    BY DEF Ask, ReadInv
  <2> QED
    BY <2>1 DEF ReadInv
<1>3. Sources(ask)' = Sources(a)
  BY <1>1 DEF Sources, Services, SubjectOf, Rendered
<1>4. \A l \in DOMAIN legs' : legs'[l] = [pc |-> "headers", raw |-> Null]
  BY <1>1
<1>5. \A l \in DOMAIN legs' : legs'[l] \in [pc : {"headers", "body", "settled"}, raw : Answered(l)]
  BY <1>4 DEF Answered
<1>6. \A l \in DOMAIN legs' : legs'[l].pc # "settled"
  BY <1>4
<1>7. DOMAIN legs' = Sources(ask)'
  BY <1>1, <1>3
<1>8. unavailable' \in BOOLEAN /\ ~unavailable'
  BY <1>1, <1>2 DEF ReadInv
<1> QED
  BY <1>1, <1>5, <1>6, <1>7, <1>8 DEF ReadInv, Settled, Answered

LEMMA HeadersKeepReads ==
    ASSUME ReadInv, NEW l, Headers(l)
    PROVE  ReadInv'
<1>1. /\ l \in DOMAIN legs /\ legs[l].pc = "headers"
      /\ legs' = [legs EXCEPT ![l].pc = "body"]
      /\ UNCHANGED <<deployed, pc, ask, unavailable>>
  BY DEF Headers, InFlight
<1>2. /\ DOMAIN legs' = DOMAIN legs
      /\ \A m \in DOMAIN legs \ {l} : legs'[m] = legs[m]
  BY <1>1
<1>3. legs'[l] = [legs[l] EXCEPT !.pc = "body"]
  BY <1>1
<1>4. legs[l] \in [pc : {"headers", "body", "settled"}, raw : Answered(l)]
  BY <1>1 DEF ReadInv
<1>5. /\ legs'[l] \in [pc : {"headers", "body", "settled"}, raw : Answered(l)]
      /\ legs'[l].pc = "body"
  BY <1>3, <1>4
<1>6. \A m \in DOMAIN legs' :
         legs'[m] \in [pc : {"headers", "body", "settled"}, raw : Answered(m)]
  BY <1>2, <1>5 DEF ReadInv
<1>7. \A m \in DOMAIN legs :
         /\ legs'[m].pc = "settled" <=> legs[m].pc = "settled"
         /\ legs[m].pc = "settled" => legs'[m] = legs[m]
  BY <1>1, <1>2, <1>5
<1>8. pc' # "idle" => DOMAIN legs' = Sources(ask)'
  BY <1>1, <1>2, SourcesKept DEF ReadInv
<1>9. pc # "idle"
  <2>1. pc = "idle" => DOMAIN legs = {}
    BY DEF ReadInv
  <2> QED
    BY <1>1, <2>1
<1>10. unavailable' <=> \E m \in DOMAIN legs' \cap Services(ask)' : legs'[m].pc = "settled" /\ Lost(legs'[m].raw)
  BY <1>1, <1>2, <1>7, SourcesKept DEF ReadInv, Settled
<1> QED
  BY <1>1, <1>2, <1>6, <1>7, <1>8, <1>9, <1>10 DEF ReadInv, Settled, Answered

LEMMA SettleKeepsReads ==
    ASSUME ReadInv, NEW l, NEW raw \in Answered(l), InFlight(l), Settle(l, raw)
    PROVE  ReadInv'
<1>1. /\ l \in DOMAIN legs /\ ~Settled(l)
      /\ legs' = [legs EXCEPT ![l] = [pc |-> "settled", raw |-> raw]]
      /\ UNCHANGED <<deployed, pc, ask>>
  BY DEF Settle, InFlight, Settled
<1>2. /\ DOMAIN legs' = DOMAIN legs
      /\ \A m \in DOMAIN legs \ {l} : legs'[m] = legs[m]
      /\ legs'[l] = [pc |-> "settled", raw |-> raw]
  BY <1>1
<1>3. legs'[l].pc = "settled" /\ legs'[l].raw = raw
  BY <1>2
<1>4. \A m \in DOMAIN legs' :
         legs'[m] \in [pc : {"headers", "body", "settled"}, raw : Answered(m)]
  BY <1>2 DEF ReadInv
<1>5. pc' # "idle" => DOMAIN legs' = Sources(ask)'
  BY <1>1, <1>2, SourcesKept DEF ReadInv
<1>6. pc # "idle"
  <2>1. pc = "idle" => DOMAIN legs = {}
    BY DEF ReadInv
  <2> QED
    BY <1>1, <2>1
<1>7. unavailable' = (unavailable \/ (l \in Services(ask) /\ Lost(raw)))
  BY DEF Settle, Flag
<1>8. unavailable' <=> \E m \in DOMAIN legs' \cap Services(ask)' : legs'[m].pc = "settled" /\ Lost(legs'[m].raw)
  BY <1>1, <1>2, <1>3, <1>7, SourcesKept DEF ReadInv, Settled
<1>9. unavailable' \in BOOLEAN
  BY <1>7
<1>10. pc' = "ended" => \A m \in DOMAIN legs' : legs'[m].pc = "settled"
  BY <1>1, <1>2, <1>3 DEF ReadInv, Settled
<1> QED
  BY <1>1, <1>4, <1>5, <1>6, <1>8, <1>9, <1>10 DEF ReadInv, Settled, Answered

LEMMA ConcludeKeepsReads ==
    ASSUME ReadInv, Conclude
    PROVE  ReadInv'
<1>1. /\ UNCHANGED <<deployed, ask, legs, unavailable>>
      /\ pc' = "ended" /\ pc = "waiting"
      /\ \A l \in DOMAIN legs : Settled(l)
  BY DEF Conclude, InFlight, Settled
<1> QED
  BY <1>1, SourcesKept DEF ReadInv, Settled, Answered

LEMMA StepKeepsReads ==
    ASSUME ReadInv, [Next]_vars
    PROVE  ReadInv'
<1>1. ASSUME NEW a \in Asks, Ask(a)
      PROVE  ReadInv'
  BY <1>1, AskKeepsReads
<1>2. ASSUME NEW l \in Source, Headers(l)
      PROVE  ReadInv'
  BY <1>2, HeadersKeepReads
<1>3. ASSUME NEW l \in Source, Body(l)
      PROVE  ReadInv'
  <2>1. PICK raw \in Payloads[l] : Settle(l, raw)
    BY <1>3 DEF Body
  <2>2. raw \in Answered(l)
    BY DEF Answered, Source
  <2> QED
    BY <1>3, <2>1, <2>2, SettleKeepsReads DEF Body
<1>4. ASSUME NEW l \in Source, Refuse(l) \/ Abort(l)
      PROVE  ReadInv'
  <2>1. Null \in Answered(l)
    BY DEF Answered
  <2> QED
    BY <1>4, <2>1, SettleKeepsReads DEF Refuse, Abort
<1>5. CASE Conclude
  BY <1>5, ConcludeKeepsReads
<1>6. CASE UNCHANGED vars
  BY <1>6, SourcesKept DEF vars, ReadInv, Settled, Answered
<1> QED
  BY <1>1, <1>2, <1>3, <1>4, <1>5, <1>6 DEF Next

(* A call has asked exactly the sources its tool needs, and the flag its   *)
(* health checks share is raised when, and only when, one of them failed.  *)
THEOREM ReadsAreTracked == Spec => []ReadInv
<1>1. Init => ReadInv
  BY StartOfCall
<1>2. ReadInv /\ [Next]_vars => ReadInv'
  BY StepKeepsReads
<1> QED
  BY <1>1, <1>2, PTL DEF Spec

-----------------------------------------------------------------------------
(* What an ended call has *)

LEMMA SourcesAtEnd ==
    ASSUME ReadInv, pc = "ended"
    PROVE  /\ ask \in Asks /\ ask.tool \in Tools
           /\ DOMAIN legs = Sources(ask)
           /\ \A l \in DOMAIN legs : ~Lost(legs[l].raw) => legs[l].raw \in PayloadOf(l)
           /\ unavailable <=> \E l \in Services(ask) : l \in Failing
           /\ \A l : l \in Failing <=> l \in DOMAIN legs /\ Lost(legs[l].raw)
<1>1. ask \in Asks /\ ask.tool \in Tools /\ DOMAIN legs = Sources(ask)
  BY SourceAssumption DEF ReadInv
<1>2. ASSUME NEW l \in DOMAIN legs, ~Lost(legs[l].raw)
      PROVE  legs[l].raw \in PayloadOf(l)
  <2>1. legs[l].raw \in Answered(l)
    BY DEF ReadInv
  <2>2. l \in DOMAIN Payloads /\ legs[l].raw \in Payloads[l]
    BY <1>2, <2>1 DEF Answered, Lost
  <2>3. legs[l].raw # Malformed
    BY <1>2 DEF Lost
  <2> QED
    BY <2>2, <2>3, SourceAssumption
<1>3. \A l : l \in Failing <=> l \in DOMAIN legs /\ Lost(legs[l].raw)
  BY DEF Failing
<1>4. unavailable <=> \E l \in Services(ask) : l \in Failing
  BY <1>3 DEF ReadInv
<1> QED
  BY <1>1, <1>2, <1>3, <1>4

LEMMA HealthIsSaid ==
    ASSUME NEW service, NEW payload \in Seq(VectorRecord \cup {Null}), ~Lost(payload)
    PROVE  HealthOf(service, payload) # "unknown"
             <=> (\E i \in DOMAIN Take(payload, MaxSeries) :
                    /\ payload[i] # Null
                    /\ \E v \in ToSet(Take(payload[i].samples, MaxSamples)) : v # Null)
<1> DEFINE parsed == parseMetrics(payload)
           some == \E i \in DOMAIN Take(payload, MaxSeries) :
                      /\ payload[i] # Null
                      /\ \E v \in ToSet(Take(payload[i].samples, MaxSamples)) : v # Null
<1>1. parsed # Null /\ (parsed.series # <<>> <=> some)
  BY ParsedMetrics DEF HasValue
<1>2. HealthOf(service, payload) =
         IF parsed = Null \/ parsed.series = <<>> THEN "unknown"
         ELSE healthStatus(parsed.series[1][1], HealthRules[service])
  BY DEF HealthOf
<1> HIDE DEF parsed, some
<1>3. healthStatus(parsed.series[1][1], HealthRules[service]) # "unknown"
  BY DEF healthStatus
<1> QED
  BY <1>1, <1>2, <1>3 DEF some

(* Services of a snapshot or an incident.                                  *)
LEMMA TargetsAreSaid ==
    ASSUME ReadInv, pc = "ended", NEW s \in Services(ask)
    PROVE  Targets[s] # "unknown" <=>
             /\ s \in DOMAIN legs \ Failing
             /\ \E i \in DOMAIN Take(legs[s].raw, MaxSeries) :
                  /\ legs[s].raw[i] # Null
                  /\ \E v \in ToSet(Take(legs[s].raw[i].samples, MaxSamples)) : v # Null
<1>1. Targets[s] = HealthOf(s, Raw(s))
  BY DEF Targets
<1>2. CASE s \notin DOMAIN legs \/ Lost(legs[s].raw)
  <2>1. Lost(Raw(s))
    BY <1>2 DEF Raw, Lost
  <2>2. parseMetrics(Raw(s)) = Null
    BY <2>1 DEF parseMetrics
  <2>3. HealthOf(s, Raw(s)) = "unknown"
    BY <2>2 DEF HealthOf
  <2>4. s \notin DOMAIN legs \ Failing
    BY <1>2, SourcesAtEnd
  <2> QED
    BY <1>1, <2>3, <2>4
<1>3. CASE s \in DOMAIN legs /\ ~Lost(legs[s].raw)
  <2> DEFINE payload == legs[s].raw
  <2>1. Raw(s) = payload /\ s \in DOMAIN legs \ Failing
    BY <1>3, SourcesAtEnd DEF Raw
  <2>2. s \notin {"alerts", "query", "image", "status", "logs", "metrics", "traces"}
    BY SourcesAtEnd, SourceAssumption
  <2>3. payload \in PayloadOf(s)
    BY <1>3, SourcesAtEnd
  <2>4. payload \in Seq(VectorRecord \cup {Null}) /\ ~Lost(payload)
    BY <1>3, <2>2, <2>3 DEF PayloadOf
  <2> HIDE DEF payload
  <2>5. Targets[s] # "unknown"
             <=> (\E i \in DOMAIN Take(payload, MaxSeries) :
                    /\ payload[i] # Null
                    /\ \E v \in ToSet(Take(payload[i].samples, MaxSamples)) : v # Null)
    BY <1>1, <2>1, <2>4, HealthIsSaid
  <2> QED
    BY <2>1, <2>5, Zenon DEF payload
<1> QED
  BY <1>2, <1>3

LEMMA FreshnessIsSaid ==
    ASSUME NEW lost \in BOOLEAN
    PROVE  Freshness(lost) = "unknown" <=> lost
<1> QED
  BY DEF Freshness

-----------------------------------------------------------------------------
(* What each tool says of its sources *)

LEMMA SnapshotSilence ==
    ASSUME ReadInv, pc = "ended", Tool = "health_snapshot"
    PROVE  /\ result.freshness = "unknown" <=> Failing # {}
           /\ result.targets = Targets
<1>1. result = healthSnapshot
  BY DEF result
<1>2. result.freshness = Freshness(unavailable) /\ result.targets = Targets
  BY <1>1 DEF healthSnapshot
<1>3. DOMAIN legs \subseteq Services(ask)
  BY SourcesAtEnd DEF Tool, Sources
<1>4. unavailable <=> Failing # {}
  BY <1>3, SourcesAtEnd
<1>5. Freshness(unavailable) = "unknown" <=> unavailable
  BY FreshnessIsSaid DEF ReadInv
<1> QED
  BY <1>2, <1>4, <1>5

LEMMA AlertsAsked ==
    ASSUME ReadInv, pc = "ended", Tool \in {"active_alerts", "incident_context"}
    PROVE  /\ "alerts" \in DOMAIN legs
           /\ Raw("alerts") = legs["alerts"].raw
           /\ Lost(Raw("alerts")) <=> "alerts" \in Failing
           /\ \A l \in DOMAIN legs : l = "alerts" \/ l \in Services(ask)
           /\ Tool = "active_alerts" => DOMAIN legs = {"alerts"}
<1>1. DOMAIN legs = {s \in Services(ask) : Mapped(s)} \cup {"alerts"}
  BY SourcesAtEnd DEF Tool, Sources
<1>2. Raw("alerts") = legs["alerts"].raw
  BY <1>1 DEF Raw
<1>3. Tool = "active_alerts" => Services(ask) = {}
  BY DEF Tool, Services
<1>4. "alerts" \in DOMAIN legs
  BY <1>1
<1> QED
  BY <1>1, <1>2, <1>3, <1>4, SourcesAtEnd

LEMMA AlertsSilence ==
    ASSUME ReadInv, pc = "ended", Tool \in {"active_alerts", "incident_context"},
           NEW services, NEW states
    PROVE  activeAlerts(services, states).freshness = "unknown" <=> "alerts" \in Failing
<1>1. activeAlerts(services, states).freshness = Freshness(Lost(Raw("alerts")))
  BY DEF activeAlerts
<1>2. Freshness(Lost(Raw("alerts"))) = "unknown" <=> Lost(Raw("alerts"))
  BY DEF Freshness
<1> QED
  BY <1>1, <1>2, AlertsAsked

LEMMA QueryAsked ==
    ASSUME ReadInv, pc = "ended", Tool = "query_metrics", ask.template \in Templates
    PROVE  /\ DOMAIN legs = {"query"}
           /\ Raw("query") = legs["query"].raw
           /\ Lost(Raw("query")) <=> "query" \in Failing
           /\ ~Lost(Raw("query")) => Raw("query") \in Seq(VectorRecord \cup {Null})
<1>1. DOMAIN legs = {s \in Services(ask) : Mapped(s)} \cup {"query"}
  BY SourcesAtEnd DEF Tool, Sources
<1>2. Services(ask) = {}
  BY DEF Tool, Services
<1>3. DOMAIN legs = {"query"} /\ Raw("query") = legs["query"].raw
  BY <1>1, <1>2 DEF Raw
<1>4. ~Lost(Raw("query")) => Raw("query") \in Seq(VectorRecord \cup {Null})
  BY <1>3, SourcesAtEnd DEF PayloadOf
<1> QED
  BY <1>3, <1>4, SourcesAtEnd

LEMMA QueryAnswer ==
    ASSUME Tool = "query_metrics", result.code = "content"
    PROVE  LET parsed == parseMetrics(Raw("query"))
           IN /\ ask.template \in Templates
              /\ result.freshness = Freshness(parsed = Null)
              /\ result.truncated = (parsed # Null /\ parsed.truncated)
              /\ result.series = IF parsed = Null THEN <<>> ELSE parsed.series
<1> DEFINE parsed == parseMetrics(Raw("query"))
<1>1. result = queryMetrics
  BY DEF result
<1>2. /\ result = [code |-> "content",
                    freshness |-> Freshness(parsed = Null),
                    truncated |-> parsed # Null /\ parsed.truncated,
                    redactionsApplied |-> parsed # Null /\ parsed.redactionsApplied,
                    series |-> IF parsed = Null THEN <<>> ELSE parsed.series]
      /\ ask.template \in Templates
  <2>1. result # Error("provider_unavailable")
    BY DEF Error
  <2> QED
    BY <1>1, <2>1 DEF queryMetrics
<1> HIDE DEF parsed
<1>3. ask.template \in Templates
  BY <1>2
<1>4. result.freshness = Freshness(parsed = Null)
  BY <1>2
<1>5. result.truncated = (parsed # Null /\ parsed.truncated)
  BY <1>2
<1>6. result.series = IF parsed = Null THEN <<>> ELSE parsed.series
  BY <1>2
<1> QED
  BY <1>3, <1>4, <1>5, <1>6 DEF parsed

LEMMA QueryParses ==
    ASSUME ReadInv, pc = "ended", Tool = "query_metrics", ask.template \in Templates
    PROVE  parseMetrics(Raw("query")) = Null <=> Lost(Raw("query"))
<1>1. CASE Lost(Raw("query"))
  BY <1>1 DEF parseMetrics
<1>2. CASE ~Lost(Raw("query"))
  BY <1>2, QueryAsked, ParsedMetrics
<1> QED
  BY <1>1, <1>2

LEMMA QuerySilence ==
    ASSUME ReadInv, pc = "ended", Tool = "query_metrics", result.code = "content"
    PROVE  result.freshness = "unknown" <=> Failing # {}
<1>1. ask.template \in Templates
  BY QueryAnswer
<1>2. result.freshness = Freshness(parseMetrics(Raw("query")) = Null)
  BY QueryAnswer
<1>3. parseMetrics(Raw("query")) = Null <=> "query" \in Failing
  BY <1>1, QueryAsked, QueryParses
<1>4. Failing # {} <=> "query" \in Failing
  BY <1>1, QueryAsked, SourcesAtEnd
<1>5. Freshness(parseMetrics(Raw("query")) = Null) = "unknown"
         <=> parseMetrics(Raw("query")) = Null
  BY DEF Freshness
<1> QED
  BY <1>2, <1>3, <1>4, <1>5

LEMMA IncidentContextIs ==
    LET lost == unavailable \/ activeAlerts(Null, Null).freshness = "unknown"
    IN /\ incidentContext.freshness = Freshness(lost)
       /\ incidentContext.warnings = {w \in {"provider-unavailable"} : lost}
       /\ incidentContext.targets = Targets
<1> DEFINE found == activeAlerts(Null, Null)
           matching == Kept(found.alerts,
                            {i \in DOMAIN found.alerts : found.alerts[i].alertId = ask.alertId})
           lost == unavailable \/ found.freshness = "unknown"
           subject == IF ask.serviceId = Null /\ matching # <<>> THEN Head(matching).serviceId
                      ELSE SubjectOf(ask)
           warned == {w \in {"provider-unavailable"} : lost}
           fresh == Freshness(lost)
           first == Take(matching, 1)
<1>1. incidentContext =
        [code |-> "content", freshness |-> fresh, warnings |-> warned, subject |-> subject,
         targets |-> Targets, alerts |-> first, image |-> FALSE]
  BY DEF incidentContext
<1> HIDE DEF fresh, warned, subject, first
<1>2. incidentContext.freshness = fresh
  BY <1>1
<1>3. incidentContext.warnings = warned
  BY <1>1
<1>4. incidentContext.targets = Targets
  BY <1>1
<1> QED
  BY <1>2, <1>3, <1>4 DEF fresh, warned

LEMMA IncidentResultIs ==
    ASSUME Tool = "incident_context"
    PROVE  /\ result.freshness = incidentContext.freshness
           /\ result.targets = incidentContext.targets
           /\ "provider-unavailable" \in result.warnings
                <=> "provider-unavailable" \in incidentContext.warnings
<1>1. result = incidentResult
  BY DEF result
<1> DEFINE context == incidentContext
<1>2. \E f, w, s, t, a, c, i :
         context = [code |-> c, freshness |-> f, warnings |-> w, subject |-> s,
                    targets |-> t, alerts |-> a, image |-> i]
  BY DEF incidentContext
<1>3. \/ result = context
      \/ result = [context EXCEPT !.image = TRUE]
      \/ result = [context EXCEPT !.warnings = @ \cup {"visual-unavailable"}]
  BY <1>1 DEF incidentResult
<1> HIDE DEF context
<1>4. /\ result.freshness = context.freshness
      /\ result.targets = context.targets
      /\ result.warnings \in {context.warnings, context.warnings \cup {"visual-unavailable"}}
  BY <1>2, <1>3
<1> QED
  BY <1>4 DEF context

LEMMA IncidentSilence ==
    ASSUME ReadInv, pc = "ended", Tool = "incident_context"
    PROVE  /\ result.freshness = "unknown" <=> Failing # {}
           /\ result.targets = Targets
           /\ Failing # {} <=> "provider-unavailable" \in result.warnings
<1> DEFINE lost == unavailable \/ activeAlerts(Null, Null).freshness = "unknown"
<1>1. activeAlerts(Null, Null).freshness = "unknown" <=> "alerts" \in Failing
  BY AlertsSilence
<1>2. lost <=> Failing # {}
  BY <1>1, AlertsAsked, SourcesAtEnd
<1>3. /\ incidentContext.freshness = Freshness(lost)
      /\ incidentContext.warnings = {w \in {"provider-unavailable"} : lost}
      /\ incidentContext.targets = Targets
  BY IncidentContextIs
<1> HIDE DEF lost
<1>4. incidentContext.freshness = "unknown" <=> lost
  BY <1>3 DEF Freshness
<1>5. "provider-unavailable" \in incidentContext.warnings <=> lost
  BY <1>3
<1> QED
  BY <1>2, <1>3, <1>4, <1>5, IncidentResultIs

LEMMA RenderSilence ==
    ASSUME ReadInv, pc = "ended", Tool = "render", result.code = "content", result.image
    PROVE  Failing = {}
<1>1. result = render
  BY DEF result
<1>2. Services(ask) = {}
  BY DEF Tool, Services
<1>3. DOMAIN legs = IF Rendered(ask) THEN {"image"} ELSE {}
  BY <1>2, SourcesAtEnd DEF Tool, Sources
<1>4. CASE ~ask.listed \/ ~deployed.visuals
  <2>1. DOMAIN legs = {}
    BY <1>3, <1>4 DEF Rendered
  <2> QED
    BY <2>1, SourcesAtEnd
<1>5. CASE ask.listed /\ deployed.visuals
  <2> DEFINE fits == Delivers(Raw("image"))
                       /\ Raw("image") <= IF ask.dashboard THEN DashboardBytes ELSE PanelBytes
  <2>1. result = Visual(fits)
    BY <1>1, <1>5 DEF render
  <2>2. result.image = fits
    BY <2>1 DEF Visual
  <2>3. ~Lost(Raw("image"))
    BY <2>2 DEF Delivers
  <2>4. "image" \in DOMAIN legs /\ ~Lost(legs["image"].raw)
    BY <2>3 DEF Raw, Lost
  <2> QED
    BY <1>3, <2>4, SourcesAtEnd
<1> QED
  BY <1>4, <1>5

-----------------------------------------------------------------------------
(* The worker *)

Parts == {"logs", "metrics", "traces"}

Evidence == [l \in Parts |-> evidenceOf(l)]

LEMMA CollectIs ==
    ASSUME Tool = "collect"
    PROVE  IF ~Threw("logs") /\ ~LogResultParses(Raw("logs")) THEN result.code = "rejected"
           ELSE /\ result.code = "content"
                /\ result.freshness = aggregateFreshness(Evidence)
                /\ result.truncated = (\E l \in Parts : Evidence[l].truncated)
                /\ result.redactionsApplied = (\E l \in Parts : Evidence[l].redactionsApplied)
                /\ result.commitMatch = commitMatch
                /\ result.status = [l \in Parts |-> evidenceStatus(Evidence[l])]
                /\ result.evidence = [l \in Parts |-> Evidence[l].items]
<1> DEFINE threw == {l \in {"status"} \cup DOMAIN Evidence : Threw(l)}
           warned == threw \cup {w \in {"ci-correlation-mismatch"} : commitMatch = "mismatched"}
           fresh == aggregateFreshness(Evidence)
           cut == \E l \in Parts : Evidence[l].truncated
           hidden == \E l \in Parts : Evidence[l].redactionsApplied
           status == [l \in Parts |-> evidenceStatus(Evidence[l])]
           items == [l \in Parts |-> Evidence[l].items]
<1>1. DOMAIN Evidence = Parts
  BY DEF Evidence
<1>2. Evidence = [l \in {"logs", "metrics", "traces"} |-> evidenceOf(l)]
  BY DEF Evidence, Parts
<1>3. result = collect
  BY DEF result
<1>4. CASE ~Threw("logs") /\ ~LogResultParses(Raw("logs"))
  BY <1>3, <1>4 DEF collect, Error
<1>5. CASE ~(~Threw("logs") /\ ~LogResultParses(Raw("logs")))
  <2>1. result = [code |-> "content", freshness |-> fresh, truncated |-> cut,
                  redactionsApplied |-> hidden, commitMatch |-> commitMatch, warnings |-> warned,
                  status |-> status, evidence |-> items]
    BY <1>1, <1>2, <1>3, <1>5 DEF collect
  <2> HIDE DEF warned, fresh, cut, hidden, status, items
  <2>2. result.code = "content" /\ result.freshness = fresh
    BY <2>1
  <2>3. result.truncated = cut
    BY <2>1
  <2>4. result.redactionsApplied = hidden
    BY <2>1
  <2>5. result.commitMatch = commitMatch
    BY <2>1
  <2>6. result.status = status /\ result.evidence = items
    BY <2>1
  <2> QED
    BY <1>5, <2>2, <2>3, <2>4, <2>5, <2>6 DEF fresh, cut, hidden, status, items
<1> QED
  BY <1>4, <1>5

LEMMA CollectAsked ==
    ASSUME ReadInv, pc = "ended", Tool = "collect"
    PROVE  /\ {"status", "logs"} \subseteq DOMAIN legs
           /\ DOMAIN legs \subseteq {"status"} \cup Parts
           /\ \A l \in DOMAIN legs : Raw(l) = legs[l].raw
           /\ \A l \in {"status", "logs"} : Threw(l) <=> l \in Failing
           /\ \A l \in {"metrics", "traces"} : Threw(l) <=> l \notin DOMAIN legs
<1>1. Services(ask) = {}
  BY DEF Tool, Services
<1>2. DOMAIN legs = {"status", "logs"} \cup
                      {k \in {"metrics", "traces"} : Supported(ask.queryIds[k], k)}
  BY <1>1, SourcesAtEnd DEF Tool, Sources
<1>3. \A l \in DOMAIN legs : Raw(l) = legs[l].raw
  BY DEF Raw
<1>4. \A l \in {"status", "logs"} : Threw(l) <=> l \in Failing
  BY <1>2, <1>3, SourcesAtEnd DEF Threw
<1>5. \A l \in {"metrics", "traces"} : Threw(l) <=> l \notin DOMAIN legs
  BY DEF Threw
<1> QED
  BY <1>2, <1>3, <1>4, <1>5 DEF Parts

LEMMA QueriedIsAvailable ==
    ASSUME NEW payload
    PROVE  normalizeMetrics(payload).available /\ normalizeTraces(payload).available
<1>1. \E i, t, r : normalizeMetrics(payload) =
         [available |-> TRUE, items |-> i, truncated |-> t, redactionsApplied |-> r]
  BY DEF normalizeMetrics
<1>2. \E i, t, r : normalizeTraces(payload) =
         [available |-> TRUE, items |-> i, truncated |-> t, redactionsApplied |-> r]
  BY DEF normalizeTraces
<1> QED
  BY <1>1, <1>2

LEMMA EvidenceIs ==
    ASSUME ReadInv, pc = "ended", Tool = "collect", NEW l \in Parts
    PROVE  /\ Evidence[l].available <=> l \in DOMAIN legs \ Failing
           /\ l \in DOMAIN legs \ Failing =>
                /\ l = "logs" => Evidence[l] = fromCILogEvidence(legs[l].raw)
                /\ l = "metrics" => /\ Evidence[l] = normalizeMetrics(legs[l].raw)
                                    /\ legs[l].raw \in Seq(Seq(Sample))
                /\ l = "traces" => /\ Evidence[l] = normalizeTraces(legs[l].raw)
                                   /\ legs[l].raw \in Seq(SpanRecord)
<1>1. Evidence[l] = evidenceOf(l)
  BY DEF Evidence
<1>2. CASE l \notin DOMAIN legs
  <2>1. Threw(l)
    BY <1>2 DEF Threw
  <2>2. Evidence[l] = Unavailable
    BY <1>1, <2>1 DEF evidenceOf, baseUnknown
  <2> QED
    BY <1>2, <2>2 DEF Unavailable
<1>3. CASE l \in Failing
  <2>1. l \in DOMAIN legs /\ Lost(Raw(l))
    BY <1>3, SourcesAtEnd DEF Raw
  <2>2. Evidence[l] = Unavailable
    BY <1>1, <2>1 DEF evidenceOf, baseUnknown, Queried, Threw
  <2> QED
    BY <1>3, <2>2 DEF Unavailable
<1>4. CASE l \in DOMAIN legs \ Failing
  <2>1. ~Lost(legs[l].raw) /\ Raw(l) = legs[l].raw
    BY <1>4, SourcesAtEnd DEF Raw
  <2>2. ~Threw(l)
    BY <1>4, <2>1 DEF Threw
  <2>3. CASE l = "logs"
    <3>1. Evidence[l] = fromCILogEvidence(legs[l].raw)
      BY <1>1, <2>1, <2>2, <2>3 DEF evidenceOf
    <3> QED
      BY <1>4, <2>3, <3>1 DEF fromCILogEvidence
  <2>4. CASE l = "metrics"
    <3>1. Evidence[l] = normalizeMetrics(legs[l].raw)
      BY <1>1, <2>1, <2>2, <2>4 DEF evidenceOf, Queried
    <3>2. legs[l].raw \in Seq(Seq(Sample))
      BY <1>4, <2>1, <2>4, SourcesAtEnd DEF PayloadOf
    <3> QED
      BY <1>4, <2>4, <3>1, <3>2, QueriedIsAvailable
  <2>5. CASE l = "traces"
    <3>1. Evidence[l] = normalizeTraces(legs[l].raw)
      BY <1>1, <2>1, <2>2, <2>5 DEF evidenceOf, Queried
    <3>2. legs[l].raw \in Seq(SpanRecord)
      BY <1>4, <2>1, <2>5, SourcesAtEnd DEF PayloadOf
    <3> QED
      BY <1>4, <2>5, <3>1, <3>2, QueriedIsAvailable
  <2> QED
    BY <2>3, <2>4, <2>5 DEF Parts
<1>5. l \in Failing => l \in DOMAIN legs
  BY SourcesAtEnd
<1> QED
  BY <1>2, <1>3, <1>4, <1>5

LEMMA StatusIsSaid ==
    ASSUME ReadInv, pc = "ended", Tool = "collect", NEW l \in Parts
    PROVE  /\ evidenceStatus(Evidence[l]) = "unavailable" <=> l \notin DOMAIN legs \ Failing
           /\ evidenceStatus(Evidence[l]) = "no-evidence"
                <=> l \in DOMAIN legs \ Failing /\ Evidence[l].items = <<>>
<1>1. Evidence[l].available <=> l \in DOMAIN legs \ Failing
  BY EvidenceIs
<1> QED
  BY <1>1 DEF evidenceStatus

LEMMA CollectSilence ==
    ASSUME ReadInv, pc = "ended", Tool = "collect"
    PROVE  IF result.code = "rejected" THEN legs["logs"].raw.lines > MaxItems
           ELSE /\ \A l \in DOMAIN result.status :
                     result.status[l] = "unavailable" <=> l \in Failing \/ l \notin DOMAIN legs
                /\ result.commitMatch = "unknown" <=> "status" \in Failing
                /\ result.freshness = "fresh" => DOMAIN legs \ {"status"} = DOMAIN result.status
                                                  /\ Failing \subseteq {"status"}
<1>1. CASE ~Threw("logs") /\ ~LogResultParses(Raw("logs"))
  <2>1. result.code = "rejected"
    BY <1>1, CollectIs
  <2>2. "logs" \in DOMAIN legs /\ "logs" \notin Failing /\ Raw("logs") = legs["logs"].raw
    BY <1>1, CollectAsked
  <2>3. legs["logs"].raw \in LogRecord
    BY <2>2, SourcesAtEnd DEF PayloadOf
  <2>4. legs["logs"].raw.lines \in Nat /\ MaxItems \in Nat
    BY <2>3, LimitAssumption DEF LogRecord
  <2>5. legs["logs"].raw.lines > MaxItems
    BY <1>1, <2>2, <2>4 DEF LogResultParses
  <2> QED
    BY <2>1, <2>5
<1>2. CASE ~(~Threw("logs") /\ ~LogResultParses(Raw("logs")))
  <2>1. /\ result.code = "content"
        /\ result.freshness = aggregateFreshness(Evidence)
        /\ result.commitMatch = commitMatch
        /\ result.status = [l \in Parts |-> evidenceStatus(Evidence[l])]
    BY <1>2, CollectIs
  <2>2. \A l \in Parts :
           result.status[l] = "unavailable" <=> l \in Failing \/ l \notin DOMAIN legs
    BY <2>1, StatusIsSaid
  <2>3. commitMatch = "unknown" <=> "status" \in Failing
    BY CollectAsked DEF commitMatch
  <2>4. ASSUME result.freshness = "fresh"
        PROVE  DOMAIN legs \ {"status"} = Parts /\ Failing \subseteq {"status"}
    <3>1. \A l \in Parts : Evidence[l].available
      BY <2>1, <2>4 DEF aggregateFreshness, Evidence
    <3>2. \A l \in Parts : l \in DOMAIN legs \ Failing
      BY <3>1, EvidenceIs
    <3>3. \A l \in Failing : l \in DOMAIN legs
      BY SourcesAtEnd
    <3> QED
      BY <3>2, <3>3, CollectAsked DEF Parts
  <2>5. DOMAIN result.status = Parts
    BY <2>1
  <2> QED
    BY <2>1, <2>2, <2>3, <2>4, <2>5
<1> QED
  BY <1>1, <1>2

LEMMA SilenceAtEnd ==
    ASSUME ReadInv
    PROVE  SilenceIsSaid
<1>1. ASSUME Ended({"health_snapshot", "active_alerts", "query_metrics", "incident_context"}),
             result.code = "content"
      PROVE  result.freshness = "unknown" <=> Failing # {}
  <2>1. CASE Tool = "health_snapshot"
    BY <1>1, <2>1, SnapshotSilence DEF Ended
  <2>2. CASE Tool = "active_alerts"
    <3>1. result = activeAlerts(ask.services, ask.states)
      BY <2>2 DEF result
    <3>2. result.freshness = "unknown" <=> "alerts" \in Failing
      BY <1>1, <2>2, <3>1, AlertsSilence DEF Ended
    <3> QED
      BY <1>1, <2>2, <3>2, AlertsAsked, SourcesAtEnd DEF Ended
  <2>3. CASE Tool = "query_metrics"
    BY <1>1, <2>3, QuerySilence DEF Ended
  <2>4. CASE Tool = "incident_context"
    BY <1>1, <2>4, IncidentSilence DEF Ended
  <2> QED
    BY <1>1, <2>1, <2>2, <2>3, <2>4 DEF Ended
<1>2. ASSUME Ended({"health_snapshot", "incident_context"}), NEW s \in DOMAIN result.targets
      PROVE  result.targets[s] # "unknown" <=>
               /\ s \in DOMAIN legs \ Failing
               /\ \E i \in DOMAIN Take(legs[s].raw, MaxSeries) :
                    /\ legs[s].raw[i] # Null
                    /\ \E v \in ToSet(Take(legs[s].raw[i].samples, MaxSamples)) : v # Null
  <2>1. result.targets = Targets
    BY <1>2, SnapshotSilence, IncidentSilence DEF Ended
  <2>2. s \in Services(ask)
    BY <2>1 DEF Targets
  <2> QED
    BY <1>2, <2>1, <2>2, TargetsAreSaid DEF Ended
<1>3. ASSUME Ended({"incident_context"})
      PROVE  Failing # {} <=> "provider-unavailable" \in result.warnings
  BY <1>3, IncidentSilence DEF Ended
<1>4. ASSUME Ended({"render"}), result.code = "content", result.image
      PROVE  Failing = {}
  BY <1>4, RenderSilence DEF Ended
<1>5. ASSUME Ended({"collect"})
      PROVE  IF result.code = "rejected" THEN legs["logs"].raw.lines > MaxItems
             ELSE /\ \A l \in DOMAIN result.status :
                       result.status[l] = "unavailable" <=> l \in Failing \/ l \notin DOMAIN legs
                  /\ result.commitMatch = "unknown" <=> "status" \in Failing
                  /\ result.freshness = "fresh" => DOMAIN legs \ {"status"} = DOMAIN result.status
                                                    /\ Failing \subseteq {"status"}
  BY <1>5, CollectSilence DEF Ended
<1> QED
  BY <1>1, <1>2, <1>3, <1>4, <1>5 DEF SilenceIsSaid

(* A source that fails is said to have failed, for every set of services,  *)
(* whatever its sources answer, in any order.                              *)
THEOREM SilenceIsAlwaysSaid == Spec => []SilenceIsSaid
<1>1. ReadInv => SilenceIsSaid
  BY SilenceAtEnd
<1> QED
  BY <1>1, ReadsAreTracked, PTL

-----------------------------------------------------------------------------
(* What is left out *)

LEMMA AlertsAreAllThere ==
    ASSUME ReadInv, pc = "ended", Tool = "active_alerts",
           result.freshness = "fresh", ~result.truncated,
           NEW i \in DOMAIN legs["alerts"].raw, legs["alerts"].raw[i] # Null,
           Wanted(normalizeAlert(legs["alerts"].raw[i], i, deployed.grafana),
                  ask.services, ask.states)
    PROVE  normalizeAlert(legs["alerts"].raw[i], i, deployed.grafana) \in ToSet(result.alerts)
<1> DEFINE payload == legs["alerts"].raw
           answer == activeAlerts(ask.services, ask.states)
           alerts == Asked(normalizeAlerts(payload, deployed.grafana), ask.services, ask.states)
<1>1. result = answer
  BY DEF result
<1>2. answer.freshness # "unknown"
  BY <1>1
<1>3. "alerts" \notin Failing
  BY <1>2, AlertsSilence
<1>4. Raw("alerts") = payload /\ ~Lost(payload)
  BY <1>3, AlertsAsked
<1>5. payload \in Seq(AlertRecord \cup {Null})
  BY <1>4, AlertsAsked, SourcesAtEnd DEF PayloadOf
<1>6. answer = [code |-> "content", freshness |-> Freshness(Lost(payload)),
                truncated |-> ~Lost(payload) /\ Len(payload) > MaxAlerts, alerts |-> alerts]
  BY <1>4 DEF activeAlerts
<1> HIDE DEF alerts
<1>7. answer.truncated = (~Lost(payload) /\ Len(payload) > MaxAlerts) /\ answer.alerts = alerts
  BY <1>6
<1>8. Len(payload) <= MaxAlerts
  <2>1. Len(payload) \in Nat /\ MaxAlerts \in Nat
    BY <1>5, LimitAssumption
  <2>2. ~answer.truncated
    BY <1>1
  <2> HIDE DEF answer, payload
  <2>3. ~(Len(payload) > MaxAlerts)
    BY <1>4, <1>7, <2>2
  <2> QED
    BY <2>1, <2>3
<1>9. normalizeAlert(payload[i], i, deployed.grafana) \in ToSet(alerts)
  BY <1>5, <1>8, AskedAlerts DEF alerts
<1> QED
  BY <1>1, <1>7, <1>9

LEMMA NumbersAreAllThere ==
    ASSUME ReadInv, pc = "ended", Tool = "query_metrics",
           result.code = "content", result.freshness = "fresh", ~result.truncated
    PROVE  \A s \in ToSet(legs["query"].raw) \ {Null} : \A v \in ToSet(s.samples) \ {Null} :
              \E t \in ToSet(result.series) : v \in ToSet(t)
<1> DEFINE payload == legs["query"].raw
           parsed == parseMetrics(payload)
<1>1. ask.template \in Templates
  BY QueryAnswer
<1>2. "query" \notin Failing
  BY QuerySilence
<1>3. /\ Raw("query") = payload /\ ~Lost(payload)
      /\ payload \in Seq(VectorRecord \cup {Null})
  BY <1>1, <1>2, QueryAsked
<1>4. /\ parsed # Null
      /\ ~parsed.truncated =>
            \A s \in ToSet(payload) \ {Null} : \A v \in ToSet(s.samples) \ {Null} :
               \E t \in ToSet(parsed.series) : v \in ToSet(t)
  BY <1>3, ParsedMetrics
<1> HIDE DEF parsed
<1>5. /\ result.truncated = (parsed # Null /\ parsed.truncated)
      /\ result.series = IF parsed = Null THEN <<>> ELSE parsed.series
  BY <1>1, <1>3, QueryAnswer DEF parsed
<1> QED
  BY <1>4, <1>5

LEMMA EvidenceIsAllThere ==
    ASSUME ReadInv, pc = "ended", Tool = "collect",
           result.code = "content", ~result.truncated
    PROVE  /\ result.status["metrics"] # "unavailable" =>
                \A s \in ToSet(legs["metrics"].raw) : \A t \in ToSet(s) \cap Window :
                   \E kept \in ToSet(result.evidence["metrics"]) : t \in ToSet(kept)
           /\ result.status["traces"] # "unavailable" =>
                \A s \in ToSet(legs["traces"].raw) :
                   s.measured /\ s.at \in Window => s \in ToSet(result.evidence["traces"])
           /\ \A l \in {"metrics", "traces"} :
                result.status[l] = "no-evidence" /\ ~result.redactionsApplied
                   => legs[l].raw = <<>>
<1>1. /\ result.truncated = (\E l \in Parts : Evidence[l].truncated)
      /\ result.redactionsApplied = (\E l \in Parts : Evidence[l].redactionsApplied)
      /\ result.status = [l \in Parts |-> evidenceStatus(Evidence[l])]
      /\ result.evidence = [l \in Parts |-> Evidence[l].items]
  BY CollectIs
<1>2. "metrics" \in Parts /\ "traces" \in Parts
  BY DEF Parts
<1>3. \A l \in Parts : ~Evidence[l].truncated
  BY <1>1
<1>4. ASSUME ~result.redactionsApplied
      PROVE  \A l \in Parts : ~Evidence[l].redactionsApplied
  BY <1>1, <1>4
<1>5. ASSUME NEW l \in Parts
      PROVE  /\ result.status[l] = evidenceStatus(Evidence[l])
             /\ result.evidence[l] = Evidence[l].items
  BY <1>1
<1>6. ASSUME result.status["metrics"] # "unavailable"
      PROVE  /\ \A s \in ToSet(legs["metrics"].raw) : \A t \in ToSet(s) \cap Window :
                   \E kept \in ToSet(result.evidence["metrics"]) : t \in ToSet(kept)
             /\ result.status["metrics"] = "no-evidence" /\ ~result.redactionsApplied
                   => legs["metrics"].raw = <<>>
  <2> DEFINE series == legs["metrics"].raw
  <2>1. "metrics" \in DOMAIN legs \ Failing
    BY <1>2, <1>5, <1>6, StatusIsSaid
  <2>2. Evidence["metrics"] = normalizeMetrics(series) /\ series \in Seq(Seq(Sample))
    BY <1>2, <2>1, EvidenceIs
  <2>3. ~normalizeMetrics(series).truncated
    BY <1>2, <1>3, <2>2
  <2>4. /\ \A s \in ToSet(series) : \A t \in ToSet(s) \cap Window :
              \E kept \in ToSet(normalizeMetrics(series).items) : t \in ToSet(kept)
        /\ normalizeMetrics(series).items = <<>>
              /\ ~normalizeMetrics(series).redactionsApplied => series = <<>>
    BY <2>2, <2>3, MetricEvidence
  <2>5. result.status["metrics"] = "no-evidence" => Evidence["metrics"].items = <<>>
    BY <1>2, <1>5, StatusIsSaid
  <2>6. result.evidence["metrics"] = Evidence["metrics"].items
    BY <1>2, <1>5
  <2> HIDE DEF series
  <2>7. ~result.redactionsApplied => ~Evidence["metrics"].redactionsApplied
    BY <1>2, <1>4
  <2>8. /\ \A s \in ToSet(series) : \A t \in ToSet(s) \cap Window :
              \E kept \in ToSet(result.evidence["metrics"]) : t \in ToSet(kept)
        /\ result.status["metrics"] = "no-evidence" /\ ~result.redactionsApplied
              => series = <<>>
    BY <2>2, <2>4, <2>5, <2>6, <2>7
  <2> QED
    BY <2>8 DEF series
<1>7. ASSUME result.status["traces"] # "unavailable"
      PROVE  /\ \A s \in ToSet(legs["traces"].raw) :
                   s.measured /\ s.at \in Window => s \in ToSet(result.evidence["traces"])
             /\ result.status["traces"] = "no-evidence" /\ ~result.redactionsApplied
                   => legs["traces"].raw = <<>>
  <2> DEFINE spans == legs["traces"].raw
  <2>1. "traces" \in DOMAIN legs \ Failing
    BY <1>2, <1>5, <1>7, StatusIsSaid
  <2>2. Evidence["traces"] = normalizeTraces(spans) /\ spans \in Seq(SpanRecord)
    BY <1>2, <2>1, EvidenceIs
  <2>3. ~normalizeTraces(spans).truncated
    BY <1>2, <1>3, <2>2
  <2>4. /\ \A s \in ToSet(spans) :
              s.measured /\ s.at \in Window => s \in ToSet(normalizeTraces(spans).items)
        /\ normalizeTraces(spans).items = <<>>
              /\ ~normalizeTraces(spans).redactionsApplied => spans = <<>>
    BY <2>2, <2>3, TraceEvidence
  <2>5. result.status["traces"] = "no-evidence" => Evidence["traces"].items = <<>>
    BY <1>2, <1>5, StatusIsSaid
  <2>6. result.evidence["traces"] = Evidence["traces"].items
    BY <1>2, <1>5
  <2> HIDE DEF spans
  <2>7. ~result.redactionsApplied => ~Evidence["traces"].redactionsApplied
    BY <1>2, <1>4
  <2>8. /\ \A s \in ToSet(spans) :
              s.measured /\ s.at \in Window => s \in ToSet(result.evidence["traces"])
        /\ result.status["traces"] = "no-evidence" /\ ~result.redactionsApplied
              => spans = <<>>
    BY <2>2, <2>4, <2>5, <2>6, <2>7
  <2> QED
    BY <2>8 DEF spans
<1> QED
  BY <1>6, <1>7

LEMMA AllThereAtEnd ==
    ASSUME ReadInv
    PROVE  NothingIsLeftOut
<1>1. ASSUME Ended({"active_alerts"}), result.freshness = "fresh", ~result.truncated
      PROVE  \A i \in DOMAIN legs["alerts"].raw :
                LET raw == legs["alerts"].raw[i]
                IN raw # Null
                     /\ Wanted(normalizeAlert(raw, i, deployed.grafana), ask.services, ask.states)
                   => normalizeAlert(raw, i, deployed.grafana) \in ToSet(result.alerts)
  BY <1>1, AlertsAreAllThere, Zenon DEF Ended
<1>2. ASSUME Ended({"query_metrics"}), result.code = "content", result.freshness = "fresh",
             ~result.truncated
      PROVE  \A s \in ToSet(legs["query"].raw) \ {Null} : \A v \in ToSet(s.samples) \ {Null} :
                \E t \in ToSet(result.series) : v \in ToSet(t)
  BY <1>2, NumbersAreAllThere DEF Ended
<1>3. ASSUME Ended({"collect"}), result.code = "content", ~result.truncated
      PROVE  /\ result.status["metrics"] # "unavailable" =>
                  \A s \in ToSet(legs["metrics"].raw) : \A t \in ToSet(s) \cap Window :
                     \E kept \in ToSet(result.evidence["metrics"]) : t \in ToSet(kept)
             /\ result.status["traces"] # "unavailable" =>
                  \A s \in ToSet(legs["traces"].raw) :
                     s.measured /\ s.at \in Window => s \in ToSet(result.evidence["traces"])
             /\ \A l \in {"metrics", "traces"} :
                  result.status[l] = "no-evidence" /\ ~result.redactionsApplied
                     => legs[l].raw = <<>>
  BY <1>3, EvidenceIsAllThere DEF Ended
<1> QED
  BY <1>1, <1>2, <1>3, Zenon DEF NothingIsLeftOut

(* What a fresh answer that is not marked as cut leaves out is nothing,    *)
(* whatever the limits are.                                                *)
THEOREM NothingIsEverLeftOut == Spec => []NothingIsLeftOut
<1>1. ReadInv => NothingIsLeftOut
  BY AllThereAtEnd
<1> QED
  BY <1>1, ReadsAreTracked, PTL
=============================================================================
