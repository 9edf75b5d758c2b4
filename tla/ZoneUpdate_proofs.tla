------------------------- MODULE ZoneUpdate_proofs -------------------------
(***************************************************************************)
(* Theorems about ZoneUpdate, for any workers, names, addresses and        *)
(* records: types; no record that nobody asked for; and a bound on the     *)
(* records that the device's name may have at one time.                    *)
(***************************************************************************)
EXTENDS ZoneUpdate, TLAPS, FiniteSetTheorems

LEMMA Bounds ==
    /\ IsFiniteSet(Workers) /\ Workers # {} /\ Cardinality(Workers) \in Nat
    /\ MaxId \in Nat /\ MaxId > 0 /\ MaxCalls \in Nat /\ MaxMoves \in Nat
  BY FS_CardinalityType, WorkersAssumption, BoundsAssumption

-----------------------------------------------------------------------------
\* At most one record.
AtMostOne(S) == {{}} \cup {{r} : r \in S}

LEMMA OneCard ==
    ASSUME NEW S, NEW old \in AtMostOne(S)
    PROVE  \/ old = {} /\ Cardinality(old) = 0
           \/ \E r \in S : old = {r} /\ Cardinality(old) = 1
  BY FS_EmptySet, FS_Singleton DEF AtMostOne

LEMMA RowsIn ==
    ASSUME NEW rows \in Rows
    PROVE  Ids(rows) \subseteq RecordIds /\ \A i \in Ids(rows) : rows[i] \in Record
  BY DEF Rows, Ids

LEMMA InRows ==
    /\ << >> \in Rows /\ Ids(<< >>) = {}
    /\ \A i \in RecordIds, r \in Record :
          One(i, r) \in Rows /\ Ids(One(i, r)) = {i} /\ One(i, r)[i] = r
    /\ \A n \in Names, a \in Addrs : Rec(n, a) \in Record
  <1>1. << >> \in [{} -> Record] /\ Ids(<< >>) = {}
    BY DEF Ids
  <1>2. ASSUME NEW i \in RecordIds, NEW r \in Record
        PROVE  One(i, r) \in [{i} -> Record] /\ Ids(One(i, r)) = {i} /\ One(i, r)[i] = r
    BY DEF One, Ids
  <1>3. \A n \in Names, a \in Addrs : Rec(n, a) \in Record
    BY DEF Rec, Record
  <1>4. \A S \in SUBSET RecordIds : [S -> Record] \subseteq Rows
    BY DEF Rows
  <1> QED
    BY <1>1, <1>2, <1>3, <1>4

LEMMA ZoneRows ==
    ASSUME TypeOK
    PROVE  /\ zone \in Rows
           /\ \A i \in Ids(zone), a \in Addrs :
                 LET edited == [zone EXCEPT ![i].dest = a]
                 IN /\ edited \in Rows /\ Ids(edited) = Ids(zone)
                    /\ \A j \in Ids(zone) : /\ edited[j].name = zone[j].name
                                            /\ edited[j].dest = IF j = i THEN a ELSE zone[j].dest
  <1>1. zone \in [Ids(zone) -> Record] /\ Ids(zone) \subseteq RecordIds
    BY DEF TypeOK, IsTable
  <1>2. ASSUME NEW i \in Ids(zone), NEW a \in Addrs
        PROVE  LET edited == [zone EXCEPT ![i].dest = a]
               IN /\ edited \in [Ids(zone) -> Record] /\ Ids(edited) = Ids(zone)
                  /\ \A j \in Ids(zone) : /\ edited[j].name = zone[j].name
                                          /\ edited[j].dest = IF j = i THEN a ELSE zone[j].dest
    <2> DEFINE r == [zone[i] EXCEPT !.dest = a]
    <2>1. r \in Record /\ r.name = zone[i].name /\ r.dest = a
      BY <1>1 DEF Record
    <2>2. [zone EXCEPT ![i].dest = a] = [zone EXCEPT ![i] = r]
      OBVIOUS
    <2> HIDE DEF r
    <2>3. LET edited == [zone EXCEPT ![i] = r]
          IN /\ edited \in [Ids(zone) -> Record] /\ Ids(edited) = Ids(zone)
             /\ \A j \in Ids(zone) : /\ edited[j].name = zone[j].name
                                     /\ edited[j].dest = IF j = i THEN a ELSE zone[j].dest
      BY <1>1, <2>1 DEF Ids
    <2> QED
      BY <2>2, <2>3
  <1> QED
    BY <1>1, <1>2 DEF Rows

\* What the provider makes of a call.
LEMMA AppliedZone ==
    ASSUME TypeOK, NEW rows \in Rows, NEW dropped \in SUBSET RecordIds,
           NEW new \in AtMostOne(Record), Applied(rows, dropped, new)
    PROVE  /\ IsTable(zone', RecordIds, Record)
           /\ nextId' \in 1 .. MaxId + 1
           /\ nextId' = IF new = {} THEN nextId ELSE nextId + 1
           /\ Ids(zone') = ((Ids(zone) \cup Ids(rows)) \ dropped) \cup {nextId : r \in new}
           /\ \A i \in Ids(zone') : \/ i \in Ids(rows) /\ zone'[i] = rows[i]
                                    \/ i \notin Ids(rows) /\ i \in Ids(zone) /\ zone'[i] = zone[i]
                                    \/ i = nextId /\ i \notin Ids(rows) \cup Ids(zone)
                                       /\ zone'[i] \in new
  <1> DEFINE D == ((Ids(zone) \cup Ids(rows)) \ dropped) \cup {nextId : r \in new}
             val(i) == IF i \in Ids(rows) THEN rows[i]
                       ELSE IF i \in Ids(zone) THEN zone[i] ELSE CHOOSE r \in new : TRUE
  <1>1. zone' = [i \in D |-> val(i)]
    BY DEF Applied
  <1>2. new # {} => (CHOOSE r \in new : TRUE) \in new
    OBVIOUS
  <1>3. new \subseteq Record /\ Cardinality(new) = IF new = {} THEN 0 ELSE 1
    BY OneCard DEF AtMostOne
  <1>4. nextId \in 1 .. MaxId + 1 /\ MaxId \in Nat
    BY BoundsAssumption DEF TypeOK
  <1>5. /\ nextId' \in 1 .. MaxId + 1
        /\ nextId' = IF new = {} THEN nextId ELSE nextId + 1
        /\ new # {} => nextId \in RecordIds
    BY <1>3, <1>4 DEF Applied, RecordIds
  <1>6. Ids(zone') = D
    BY <1>1 DEF Ids
  <1>7. ASSUME NEW i \in D
        PROVE  /\ i \in RecordIds /\ zone'[i] \in Record
               /\ \/ i \in Ids(rows) /\ zone'[i] = rows[i]
                  \/ i \notin Ids(rows) /\ i \in Ids(zone) /\ zone'[i] = zone[i]
                  \/ i = nextId /\ i \notin Ids(rows) \cup Ids(zone) /\ zone'[i] \in new
    <2>1. zone'[i] = val(i)
      BY <1>1
    <2>2. CASE i \in Ids(rows)
      BY <2>1, <2>2, RowsIn
    <2>3. CASE i \notin Ids(rows) /\ i \in Ids(zone)
      BY <2>1, <2>3 DEF TypeOK, IsTable
    <2>4. CASE i \notin Ids(rows) \cup Ids(zone)
      <3>1. i = nextId /\ new # {}
        BY <2>4
      <3>2. zone'[i] \in new
        BY <1>2, <2>1, <2>4, <3>1
      <3> QED
        BY <1>3, <1>5, <2>4, <3>1, <3>2
    <2> QED
      BY <2>2, <2>3, <2>4
  <1>8. zone' \in [D -> Record]
    BY <1>1, <1>7
  <1>9. IsTable(zone', RecordIds, Record)
    BY <1>6, <1>7, <1>8 DEF IsTable
  <1> HIDE DEF D
  <1>10. Ids(zone') = ((Ids(zone) \cup Ids(rows)) \ dropped) \cup {nextId : r \in new}
    BY <1>6 DEF D
  <1> QED
    BY <1>5, <1>6, <1>7, <1>9, <1>10

LEMMA TaskFields ==
    ASSUME NEW t \in {Idle} \cup SendTask, t # Idle
    PROVE  /\ t.k \in {"ddns", "web"} /\ t.name \in Names /\ t.rows \in Rows
           /\ t.dropped \in SUBSET RecordIds /\ t.new \in AtMostOne(Record)
  BY DEF SendTask, AtMostOne

\* The message of an updateDnsRecords call.
Message(kind, name, rows, dropped, new) ==
    [k |-> kind, name |-> name, rows |-> rows, dropped |-> dropped, new |-> new]

LEMMA MessageIn ==
    ASSUME NEW kind \in {"ddns", "web"}, NEW name \in Names, NEW rows \in Rows,
           NEW dropped \in SUBSET RecordIds, NEW new \in AtMostOne(Record)
    PROVE  LET t == Message(kind, name, rows, dropped, new)
           IN /\ t \in SendTask /\ t # Idle
              /\ t.rows = rows /\ t.dropped = dropped /\ t.new = new
  BY DEF Message, SendTask, Idle, AtMostOne

\* What a record says.
Pair(r) == <<r.name, r.dest>>

\* What a worker that has read the zone may be about to send.  Every record it
\* has read keeps its name; at most one is changed, flagged or added.
Begun(t) ==
    /\ t \in SendTask
    /\ \A i \in Ids(t.rows) : /\ i \in Ids(zone)
                              /\ t.rows[i].name = zone[i].name
                              /\ t.rows[i] = zone[i] \/ Pair(t.rows[i]) \in asked'
    /\ t.dropped \subseteq Ids(zone)
    /\ \A r \in t.new : Pair(r) \in asked'
    /\ \/ calls' = calls /\ t.dropped = {} /\ (t.new = {} \/ Of(Device) = {})
       \/ calls' = calls + 1 /\ \E i \in Ids(zone) : t.dropped \subseteq {i}
       \/ calls' = calls + 1 /\ t.dropped = {}

\* A worker that reads: what it holds then, and what it leaves alone.
Reading(w) == \E t : /\ task[w] = Idle
                     /\ task' = [task EXCEPT ![w] = t]
                     /\ Begun(t)
                     /\ UNCHANGED <<zone, nextId>>
                     /\ asked \subseteq asked'

LEMMA DdnsReads ==
    ASSUME TypeOK, NEW w \in Workers, DdnsRead(w)
    PROVE  Reading(w)
  <1> DEFINE r == Rec(Device, addr)
             t(rows, new) == Message("ddns", Device, rows, {}, new)
  <1>1. Device \in Names /\ r \in Record /\ r.name = Device /\ r.dest = addr
    BY InRows, DeviceAssumption DEF TypeOK, Rec
  <1>2. asked' = asked \cup {<<Device, addr>>} /\ Pair(r) \in asked'
    BY <1>1 DEF DdnsRead, Pair
  <1>3. ASSUME NEW i \in First(Device), task' = [task EXCEPT ![w] = t(One(i, r), {})]
        PROVE  Reading(w)
    <2> DEFINE m == t(One(i, r), {})
    <2>1. i \in Ids(zone) /\ i \in RecordIds /\ zone[i].name = Device
      BY DEF First, Of, TypeOK, IsTable
    <2>2. One(i, r) \in Rows /\ Ids(One(i, r)) = {i} /\ One(i, r)[i] = r
      BY <1>1, <2>1, InRows
    <2>3. m \in SendTask /\ m.rows = One(i, r) /\ m.dropped = {} /\ m.new = {}
      BY <1>1, <2>2, MessageIn DEF AtMostOne
    <2> HIDE DEF m, r
    <2>4. Begun(m)
      BY <1>1, <1>2, <2>1, <2>2, <2>3 DEF Begun, DdnsRead
    <2> QED
      BY <1>2, <1>3, <2>4 DEF Reading, DdnsRead, m
  <1>4. ASSUME Of(Device) = {}, task' = [task EXCEPT ![w] = t(<< >>, {r})]
        PROVE  Reading(w)
    <2> DEFINE m == t(<< >>, {r})
    <2>1. m \in SendTask /\ m.rows = << >> /\ m.dropped = {} /\ m.new = {r}
      BY <1>1, InRows, MessageIn DEF AtMostOne
    <2> HIDE DEF m, r
    <2>2. Begun(m)
      BY <1>2, <1>4, <2>1, InRows DEF Begun, DdnsRead
    <2> QED
      BY <1>2, <1>4, <2>2 DEF Reading, DdnsRead, m
  <1> QED
    BY <1>3, <1>4 DEF DdnsRead, Send, Message

\* A page whose records are those of the zone, of which one may have another
\* address, and which may add or flag one.
LEMMA PageReads ==
    ASSUME TypeOK, NEW w \in Workers, task[w] = Idle, NEW n \in Names, NEW rows \in Rows,
           NEW dropped \in SUBSET Ids(zone), NEW new \in AtMostOne(Record),
           Send(w, "web", n, rows, dropped, new), calls' = calls + 1,
           UNCHANGED <<zone, nextId>>, asked \subseteq asked',
           Ids(rows) = Ids(zone),
           \A i \in Ids(zone) : /\ rows[i].name = zone[i].name
                                /\ rows[i] = zone[i] \/ Pair(rows[i]) \in asked',
           dropped = {} \/ \E i \in Ids(zone) : dropped = {i},
           \A r \in new : Pair(r) \in asked'
    PROVE  Reading(w)
  <1> DEFINE m == Message("web", n, rows, dropped, new)
  <1>1. dropped \in SUBSET RecordIds
    BY DEF TypeOK, IsTable
  <1>2. m \in SendTask /\ m.rows = rows /\ m.dropped = dropped /\ m.new = new
    BY <1>1, MessageIn
  <1>3. task' = [task EXCEPT ![w] = m]
    BY DEF Send, Message
  <1> HIDE DEF m
  <1>4. Begun(m)
    BY <1>2 DEF Begun
  <1> QED
    BY <1>3, <1>4 DEF Reading

LEMMA WebReads ==
    ASSUME TypeOK, NEW w \in Workers,
           \/ \E n \in Names, a \in Addrs : WebCreate(w, n, a) \/ WebDdns(w, n, a)
           \/ \E id \in RecordIds, a \in Addrs : WebEdit(w, id, a)
           \/ \E id \in RecordIds : WebDelete(w, id)
    PROVE  Reading(w)
  <1>1. zone \in Rows /\ {} \in AtMostOne(Record) /\ {} \in SUBSET Ids(zone)
    BY ZoneRows DEF AtMostOne
  <1>2. ASSUME NEW n \in Names, NEW a \in Addrs
        PROVE  /\ {Rec(n, a)} \in AtMostOne(Record)
               /\ Rec(n, a).name = n /\ Rec(n, a).dest = a
    BY InRows DEF AtMostOne, Rec
  <1>3. ASSUME NEW n \in Names, NEW a \in Addrs, task[w] = Idle, Call,
               asked' = asked \cup {<<n, a>>}, UNCHANGED <<zone, nextId>>,
               Send(w, "web", n, zone, {}, {Rec(n, a)})
        PROVE  Reading(w)
    <2> DEFINE new == {Rec(n, a)}
    <2>1. calls' = calls + 1 /\ \A r \in new : Pair(r) \in asked'
      BY <1>2, <1>3 DEF Pair, Call
    <2>2. new \in AtMostOne(Record) /\ Send(w, "web", n, zone, {}, new)
      BY <1>2, <1>3
    <2>3. asked \subseteq asked' /\ UNCHANGED <<zone, nextId>> /\ task[w] = Idle
      BY <1>3
    <2> HIDE DEF new
    <2> QED
      BY <1>1, <2>1, <2>2, <2>3, PageReads
  <1>4. ASSUME NEW i \in Ids(zone), NEW a \in Addrs, task[w] = Idle, Call,
               asked' = asked \cup {<<zone[i].name, a>>}, UNCHANGED <<zone, nextId>>,
               Send(w, "web", zone[i].name, [zone EXCEPT ![i].dest = a], {}, {})
        PROVE  Reading(w)
    <2> DEFINE rows == [zone EXCEPT ![i].dest = a]
    <2>1. /\ rows \in Rows /\ Ids(rows) = Ids(zone)
          /\ \A j \in Ids(zone) : /\ rows[j].name = zone[j].name
                                  /\ rows[j].dest = IF j = i THEN a ELSE zone[j].dest
      BY ZoneRows
    <2>2. \A j \in Ids(zone) : zone[j] \in Record
      BY DEF TypeOK, IsTable
    <2>3. \A j \in Ids(zone) : j # i => rows[j] = zone[j]
      OBVIOUS
    <2>4. Pair(rows[i]) \in asked' /\ calls' = calls + 1 /\ zone[i].name \in Names
      BY <1>4, <2>1, <2>2 DEF Pair, Call, Record
    <2>5. Send(w, "web", zone[i].name, rows, {}, {})
      BY <1>4
    <2> HIDE DEF rows
    <2>6. \A j \in Ids(zone) : /\ rows[j].name = zone[j].name
                               /\ rows[j] = zone[j] \/ Pair(rows[j]) \in asked'
      BY <2>1, <2>3, <2>4
    <2>7. asked \subseteq asked'
      BY <1>4
    <2> QED
      BY <1>1, <1>4, <2>1, <2>4, <2>5, <2>6, <2>7, PageReads
  <1>5. ASSUME NEW i \in RecordIds, WebDelete(w, i)
        PROVE  Reading(w)
    <2>1. i \in Ids(zone) /\ zone[i].name \in Names /\ calls' = calls + 1
      BY <1>5 DEF WebDelete, Call, TypeOK, IsTable, Record
    <2> QED
      BY <1>1, <1>5, <2>1, PageReads DEF WebDelete
  <1>6. ASSUME NEW n \in Names, NEW a \in Addrs, WebCreate(w, n, a) \/ WebDdns(w, n, a)
        PROVE  Reading(w)
    <2>1. \A i \in First(n) : i \in Ids(zone) /\ zone[i].name = n
      BY DEF First, Of
    <2> QED
      BY <1>3, <1>4, <1>6, <2>1 DEF WebCreate, WebDdns
  <1>7. ASSUME NEW i \in RecordIds, NEW a \in Addrs, WebEdit(w, i, a)
        PROVE  Reading(w)
    BY <1>4, <1>7 DEF WebEdit
  <1> QED
    BY <1>5, <1>6, <1>7

\* What a call does to the zone, and to the requests under way.
Calling(w) == \E rows \in Rows, dropped \in SUBSET RecordIds, new \in AtMostOne(Record) :
    /\ Applied(rows, dropped, new)
    /\ asked \subseteq asked'
    /\ \/ /\ task[w] # Idle
          /\ rows = task[w].rows /\ dropped = task[w].dropped /\ new = task[w].new
          /\ task' = [task EXCEPT ![w] = Idle]
          /\ calls' = calls
       \/ /\ UNCHANGED task
          /\ calls' = calls + 1
          /\ \A i \in Ids(rows) : i < nextId /\ Pair(rows[i]) \in asked'
          /\ \A r \in new : Pair(r) \in asked'
          /\ \/ rows = << >> /\ dropped = {}
             \/ new = {} /\ \E i \in RecordIds : Ids(rows) \cup dropped = {i}

\* A step that changes neither the zone nor what is under way, except that a
\* request may end.
Waiting == /\ UNCHANGED <<zone, nextId>>
           /\ asked \subseteq asked'
           /\ calls' = calls \/ calls' = calls + 1
           /\ UNCHANGED task \/ \E w \in Workers : task' = [task EXCEPT ![w] = Idle]

LEMMA ApiCalls ==
    ASSUME TypeOK, NEW w \in Workers,
           \/ \E n \in Names, a \in Addrs :
                 ApiCreate(w, n, a) \/ \E id \in RecordIds : ApiUpdate(w, id, n, a)
           \/ \E id \in RecordIds : ApiDelete(w, id)
    PROVE  Calling(w) \/ Waiting
  <1>1. /\ {} \in AtMostOne(Record) /\ << >> \in Rows /\ Ids(<< >>) = {}
        /\ {} \in SUBSET RecordIds
    BY InRows DEF AtMostOne
  <1>2. ASSUME NEW n \in Names, NEW a \in Addrs, ApiCreate(w, n, a) PROVE Calling(w) \/ Waiting
    <2> DEFINE new == {Rec(n, a)}
    <2>1. new \in AtMostOne(Record) /\ Pair(Rec(n, a)) = <<n, a>>
      BY InRows DEF AtMostOne, Pair, Rec
    <2>2. /\ \A r \in new : Pair(r) \in asked'
          /\ asked \subseteq asked' /\ calls' = calls + 1 /\ UNCHANGED task
          /\ Applied(<< >>, {}, new) \/ Failed
      BY <1>2, <2>1 DEF ApiCreate, Call
    <2> HIDE DEF new
    <2>3. CASE Applied(<< >>, {}, new)
      <3> DEFINE rows == << >>
      <3>1. \A i \in Ids(rows) : i < nextId /\ Pair(rows[i]) \in asked'
        BY <1>1
      <3> HIDE DEF rows
      <3>2. rows \in Rows /\ Applied(rows, {}, new) /\ rows = << >>
        BY <1>1, <2>3 DEF rows
      <3> QED
        BY <1>1, <2>1, <2>2, <3>1, <3>2 DEF Calling
    <2>4. CASE Failed
      BY <2>2, <2>4 DEF Waiting, Failed
    <2> QED
      BY <2>2, <2>3, <2>4
  <1>3. ASSUME NEW n \in Names, NEW a \in Addrs, NEW id \in RecordIds, ApiUpdate(w, id, n, a)
        PROVE  Calling(w) \/ Waiting
    <2> DEFINE rows == One(id, Rec(n, a))
    <2>1. rows \in Rows /\ Ids(rows) = {id} /\ Pair(rows[id]) = <<n, a>>
      BY InRows DEF Pair, Rec
    <2>2. /\ Pair(rows[id]) \in asked'
          /\ asked \subseteq asked' /\ calls' = calls + 1 /\ UNCHANGED task
          /\ (id < nextId /\ Applied(rows, {}, {})) \/ Failed
      BY <1>3, <2>1 DEF ApiUpdate, Call
    <2> HIDE DEF rows
    <2>3. CASE id < nextId /\ Applied(rows, {}, {})
      BY <1>1, <2>1, <2>2, <2>3 DEF Calling
    <2>4. CASE Failed
      BY <2>2, <2>4 DEF Waiting, Failed
    <2> QED
      BY <2>2, <2>3, <2>4
  <1>4. ASSUME NEW id \in RecordIds, ApiDelete(w, id) PROVE Calling(w) \/ Waiting
    <2>1. /\ asked \subseteq asked' /\ calls' = calls + 1 /\ UNCHANGED task
          /\ Applied(<< >>, {id}, {}) \/ Failed
      BY <1>4 DEF ApiDelete, Call
    <2>2. CASE Applied(<< >>, {id}, {})
      <3> DEFINE rows == << >>
                 dropped == {id}
      <3>1. /\ \A i \in Ids(rows) : i < nextId /\ Pair(rows[i]) \in asked'
            /\ Ids(rows) \cup dropped = {id}
            /\ dropped \in SUBSET RecordIds
        BY <1>1
      <3>2. rows \in Rows /\ Applied(rows, dropped, {})
        BY <1>1, <2>2
      <3> HIDE DEF rows, dropped
      <3> QED
        BY <1>1, <2>1, <3>1, <3>2 DEF Calling
    <2>3. CASE Failed
      BY <2>1, <2>3 DEF Waiting, Failed
    <2> QED
      BY <2>1, <2>2, <2>3
  <1> QED
    BY <1>2, <1>3, <1>4

\* Every step reads, calls or waits.
LEMMA Steps ==
    ASSUME TypeOK, [Next]_vars
    PROVE  (\E w \in Workers : Reading(w) \/ Calling(w)) \/ Waiting
  <1>1. CASE UNCHANGED vars
    BY <1>1 DEF vars, Waiting
  <1>2. ASSUME NEW w \in Workers,
               \/ process_ddns_update(w) \/ ddns_update(w)
               \/ \E kind \in {"ddns", "web"} : Update(w, kind)
               \/ UpdateFails(w)
        PROVE  Reading(w) \/ Calling(w) \/ Waiting
    <2>1. CASE DdnsRead(w)
      BY <2>1, DdnsReads
    <2>2. CASE process_ddns_update(w) /\ ~DdnsRead(w)
      BY <2>2 DEF process_ddns_update, Waiting
    <2>3. CASE \E kind \in {"ddns", "web"} : Update(w, kind)
      <3>1. task[w] \in {Idle} \cup SendTask /\ task[w] # Idle
        BY <2>3 DEF TypeOK, Update, Idle
      <3>2. /\ task[w].rows \in Rows
            /\ task[w].dropped \in SUBSET RecordIds /\ task[w].new \in AtMostOne(Record)
        BY <3>1, TaskFields
      <3> QED
        BY <2>3, <3>1, <3>2 DEF Update, Calling
    <2>4. CASE UpdateFails(w)
      BY <2>4 DEF UpdateFails, Failed, Waiting
    <2> QED
      BY <1>2, <2>1, <2>2, <2>3, <2>4 DEF ddns_update
  <1>3. ASSUME NEW a \in Addrs, Move(a) PROVE Waiting
    BY <1>3 DEF Move, Waiting
  <1> QED
    BY <1>1, <1>2, <1>3, ApiCalls, WebReads DEF Next

-----------------------------------------------------------------------------
LEMMA TypeInit ==
    ASSUME Init
    PROVE  TypeOK
  <1> DEFINE Old == [name : {Device}, dest : Addrs]
  <1>1. PICK a \in Addrs, old \in AtMostOne(Old) :
          /\ zone = [i \in {1 : r \in old} |-> CHOOSE r \in old : TRUE]
          /\ nextId = 1 + Cardinality(old)
          /\ task = [w \in Workers |-> Idle]
          /\ addr = a
          /\ calls = 0
          /\ moves = 0
          /\ asked = {<<r.name, r.dest>> : r \in old}
    BY DEF Init, AtMostOne
  <1>2. /\ MaxId \in Nat /\ MaxId > 0 /\ MaxCalls \in Nat /\ MaxMoves \in Nat
        /\ Device \in Names
    BY Bounds, DeviceAssumption
  <1>3. /\ nextId \in 1 .. MaxId + 1
        /\ old = {} \/ \E r \in Old : old = {r}
    <2>1. /\ Cardinality(old) = 0 \/ Cardinality(old) = 1
          /\ old = {} \/ \E r \in Old : old = {r}
      <3> HIDE DEF Old
      <3> QED
        BY OneCard
    <2>2. MaxId + 1 \in Nat /\ 2 <= MaxId + 1
      BY <1>2
    <2>3. nextId = 1 \/ nextId = 2
      BY <1>1, <2>1
    <2> QED
      BY <1>2, <2>1, <2>2, <2>3
  <1>4. Old \subseteq Record /\ \A r \in Old : r.name \in Names /\ r.dest \in Addrs
    BY <1>2 DEF Record
  <1>5. IsTable(zone, RecordIds, Record)
    <2>1. CASE old = {}
      BY <1>1, <2>1 DEF IsTable, Ids
    <2>2. ASSUME NEW r \in Old, old = {r} PROVE IsTable(zone, RecordIds, Record)
      <3>1. zone = [i \in {1} |-> r] /\ 1 \in RecordIds /\ r \in Record
        BY <1>1, <1>2, <1>4, <2>2 DEF RecordIds
      <3> QED
        BY <3>1 DEF IsTable, Ids
    <2> QED
      BY <1>3, <2>1, <2>2
  <1>6. asked \in SUBSET (Names \X Addrs)
    BY <1>1, <1>3, <1>4
  <1>7. task \in [Workers -> {Idle} \cup SendTask]
    BY <1>1
  <1>8. 0 \in 0 .. MaxCalls /\ 0 \in 0 .. MaxMoves
    BY <1>2
  <1> QED
    BY <1>1, <1>3, <1>5, <1>6, <1>7, <1>8 DEF TypeOK

LEMMA AskedType ==
    ASSUME TypeOK, [Next]_vars
    PROVE  /\ addr' \in Addrs /\ calls' \in 0 .. MaxCalls /\ moves' \in 0 .. MaxMoves
           /\ asked' \in SUBSET (Names \X Addrs)
  <1>1. /\ MaxCalls \in Nat /\ MaxMoves \in Nat /\ Device \in Names
        /\ \A i \in Ids(zone) : i \in RecordIds /\ zone[i].name \in Names
    BY DeviceAssumption, BoundsAssumption DEF TypeOK, IsTable, Record
  <1>2. ASSUME Call PROVE calls' \in 0 .. MaxCalls
    BY <1>1, <1>2 DEF Call, TypeOK
  <1>3. CASE UNCHANGED <<addr, calls, moves, asked>>
    BY <1>3 DEF TypeOK
  <1>4. ASSUME NEW n \in Names, NEW a \in Addrs, Call, asked' = asked \cup {<<n, a>>},
               UNCHANGED <<addr, moves>>
        PROVE  /\ addr' \in Addrs /\ calls' \in 0 .. MaxCalls /\ moves' \in 0 .. MaxMoves
               /\ asked' \in SUBSET (Names \X Addrs)
    BY <1>2, <1>4 DEF TypeOK
  <1>5. ASSUME NEW w \in Workers, NEW id \in RecordIds, ApiDelete(w, id) \/ WebDelete(w, id)
        PROVE  /\ addr' \in Addrs /\ calls' \in 0 .. MaxCalls /\ moves' \in 0 .. MaxMoves
               /\ asked' \in SUBSET (Names \X Addrs)
    BY <1>2, <1>5 DEF ApiDelete, WebDelete, TypeOK
  <1>6. ASSUME NEW w \in Workers, process_ddns_update(w) \/ ddns_update(w)
        PROVE  /\ addr' \in Addrs /\ calls' \in 0 .. MaxCalls /\ moves' \in 0 .. MaxMoves
               /\ asked' \in SUBSET (Names \X Addrs)
    BY <1>1, <1>6 DEF process_ddns_update, ddns_update, DdnsRead, TypeOK
  <1>7. ASSUME NEW a \in Addrs, Move(a)
        PROVE  /\ addr' \in Addrs /\ calls' \in 0 .. MaxCalls /\ moves' \in 0 .. MaxMoves
               /\ asked' \in SUBSET (Names \X Addrs)
    BY <1>1, <1>7 DEF Move, TypeOK
  <1>8. ASSUME NEW w \in Workers,
               \/ \E n \in Names, a \in Addrs :
                    \/ ApiCreate(w, n, a) \/ WebCreate(w, n, a) \/ WebDdns(w, n, a)
                    \/ \E id \in RecordIds : ApiUpdate(w, id, n, a)
               \/ \E id \in RecordIds, a \in Addrs : WebEdit(w, id, a)
        PROVE  \E n \in Names, a \in Addrs : /\ Call /\ asked' = asked \cup {<<n, a>>}
                                             /\ UNCHANGED <<addr, moves>>
    BY <1>1, <1>8 DEF ApiCreate, WebCreate, WebDdns, ApiUpdate, WebEdit
  <1>9. ASSUME NEW w \in Workers,
               \/ \E kind \in {"ddns", "web"} : Update(w, kind)
               \/ UpdateFails(w)
        PROVE  UNCHANGED <<addr, calls, moves, asked>>
    BY <1>9 DEF Update, UpdateFails
  <1> QED
    BY <1>3, <1>4, <1>5, <1>6, <1>7, <1>8, <1>9 DEF Next, vars

LEMMA TypeStep ==
    ASSUME TypeOK, [Next]_vars
    PROVE  TypeOK'
  <1>1. ASSUME NEW w \in Workers, Reading(w)
        PROVE  task' \in [Workers -> {Idle} \cup SendTask] /\ UNCHANGED <<zone, nextId>>
    BY <1>1 DEF Reading, Begun, TypeOK
  <1>2. ASSUME NEW w \in Workers, Calling(w)
        PROVE  /\ task' \in [Workers -> {Idle} \cup SendTask]
               /\ IsTable(zone', RecordIds, Record) /\ nextId' \in 1 .. MaxId + 1
    <2>1. task' \in [Workers -> {Idle} \cup SendTask]
      BY <1>2 DEF Calling, TypeOK
    <2> QED
      BY <1>2, <2>1, AppliedZone DEF Calling
  <1>3. ASSUME Waiting
        PROVE  task' \in [Workers -> {Idle} \cup SendTask] /\ UNCHANGED <<zone, nextId>>
    BY <1>3 DEF Waiting, TypeOK
  <1>4. UNCHANGED <<zone, nextId>> => IsTable(zone', RecordIds, Record) /\ nextId' \in 1 .. MaxId + 1
    BY DEF TypeOK, IsTable, Ids
  <1> QED
    BY <1>1, <1>2, <1>3, <1>4, Steps, AskedType DEF TypeOK

\* Every variable has its type.
THEOREM TypeCorrect == Spec => []TypeOK
  <1>1. Init => TypeOK
    BY TypeInit
  <1>2. TypeOK /\ [Next]_vars => TypeOK'
    BY TypeStep
  <1> QED
    BY <1>1, <1>2, PTL DEF Spec

-----------------------------------------------------------------------------
Pending == {w \in Workers : task[w] # Idle}

\* What the requests under way would write has been asked for.
AskedInv == /\ TypeOK /\ NothingInvented
            /\ \A w \in Pending : /\ \A i \in Ids(task[w].rows) : Pair(task[w].rows[i]) \in asked
                                  /\ \A r \in task[w].new : Pair(r) \in asked

LEMMA AskedInit ==
    ASSUME Init
    PROVE  AskedInv
  <1>1. TypeOK
    BY TypeInit
  <1>2. \A w \in Workers : task[w] = Idle
    BY DEF Init
  <1>3. NothingInvented
    BY DEF Init, NothingInvented, Ids
  <1> QED
    BY <1>1, <1>2, <1>3 DEF AskedInv, Pending

LEMMA AskedStep ==
    ASSUME AskedInv, [Next]_vars
    PROVE  AskedInv'
  <1>1. TypeOK /\ TypeOK'
    BY TypeStep DEF AskedInv
  <1> DEFINE Holds(t, S) == t = Idle \/ /\ \A i \in Ids(t.rows) : Pair(t.rows[i]) \in S
                                        /\ \A r \in t.new : Pair(r) \in S
  <1>2. \A v \in Workers : Holds(task[v], asked)
    BY DEF AskedInv, Pending
  <1>3. \A i \in Ids(zone) : Pair(zone[i]) \in asked
    BY DEF AskedInv, NothingInvented, Pair
  <1>4. SUFFICES /\ \A v \in Workers : Holds(task'[v], asked')
                 /\ \A i \in Ids(zone') : Pair(zone'[i]) \in asked'
    BY <1>1 DEF AskedInv, NothingInvented, Pair, Pending
  <1>5. ASSUME NEW w \in Workers, Reading(w)
        PROVE  /\ \A v \in Workers : Holds(task'[v], asked')
               /\ \A i \in Ids(zone') : Pair(zone'[i]) \in asked'
    <2>1. PICK t : /\ task' = [task EXCEPT ![w] = t]
                   /\ Begun(t)
                   /\ UNCHANGED <<zone, nextId>>
                   /\ asked \subseteq asked'
      BY <1>5 DEF Reading
    <2>2. Holds(t, asked')
      BY <1>3, <2>1 DEF Begun
    <2>3. \A v \in Workers : v # w => task'[v] = task[v]
      BY <1>1, <2>1 DEF TypeOK
    <2>4. task'[w] = t
      BY <1>1, <2>1 DEF TypeOK
    <2>5. \A v \in Workers : Holds(task[v], asked')
      BY <1>2, <2>1
    <2> HIDE DEF Holds
    <2>6. \A v \in Workers : Holds(task'[v], asked')
      BY <2>2, <2>3, <2>4, <2>5
    <2> QED
      BY <1>3, <2>1, <2>6 DEF Ids
  <1>6. ASSUME NEW w \in Workers, Calling(w)
        PROVE  /\ \A v \in Workers : Holds(task'[v], asked')
               /\ \A i \in Ids(zone') : Pair(zone'[i]) \in asked'
    <2>1. PICK rows \in Rows, dropped \in SUBSET RecordIds, new \in AtMostOne(Record) :
             /\ Applied(rows, dropped, new)
             /\ asked \subseteq asked'
             /\ task' = [task EXCEPT ![w] = Idle] \/ UNCHANGED task
             /\ \/ /\ task[w] # Idle
                   /\ rows = task[w].rows /\ new = task[w].new
                \/ /\ \A i \in Ids(rows) : Pair(rows[i]) \in asked'
                   /\ \A r \in new : Pair(r) \in asked'
      BY <1>6 DEF Calling
    <2>2. /\ \A i \in Ids(rows) : Pair(rows[i]) \in asked'
          /\ \A r \in new : Pair(r) \in asked'
      BY <1>2, <2>1
    <2>3. \A i \in Ids(zone') : \/ i \in Ids(rows) /\ zone'[i] = rows[i]
                                \/ i \in Ids(zone) /\ zone'[i] = zone[i]
                                \/ zone'[i] \in new
      BY <1>1, <2>1, AppliedZone
    <2>4. \A v \in Workers : task'[v] = task[v] \/ task'[v] = Idle
      BY <1>1, <2>1 DEF TypeOK
    <2>5. \A i \in Ids(zone') : Pair(zone'[i]) \in asked'
      BY <1>3, <2>1, <2>2, <2>3
    <2>6. \A v \in Workers : Holds(task[v], asked') /\ Holds(Idle, asked')
      BY <1>2, <2>1
    <2> HIDE DEF Holds
    <2>7. \A v \in Workers : Holds(task'[v], asked')
      BY <2>4, <2>6
    <2> QED
      BY <2>5, <2>7
  <1>7. ASSUME Waiting
        PROVE  /\ \A v \in Workers : Holds(task'[v], asked')
               /\ \A i \in Ids(zone') : Pair(zone'[i]) \in asked'
    <2>1. \A v \in Workers : task'[v] = task[v] \/ task'[v] = Idle
      BY <1>1, <1>7 DEF Waiting, TypeOK
    <2>2. asked \subseteq asked' /\ UNCHANGED zone
      BY <1>7 DEF Waiting
    <2>3. \A v \in Workers : Holds(task[v], asked') /\ Holds(Idle, asked')
      BY <1>2, <2>2
    <2> HIDE DEF Holds
    <2>4. \A v \in Workers : Holds(task'[v], asked')
      BY <2>1, <2>3
    <2> QED
      BY <1>3, <2>2, <2>4 DEF Ids
  <1> QED
    BY <1>1, <1>5, <1>6, <1>7, Steps

\* Whatever is lost, repeated or sent back late, an address appears under a
\* name only if a request named both (the find loops of update_dns_record,
\* ddns_update and dns_record_edit).
THEOREM NothingIsInvented == Spec => []NothingInvented
  <1>1. Init => AskedInv
    BY AskedInit
  <1>2. AskedInv /\ [Next]_vars => AskedInv'
    BY AskedStep
  <1>3. AskedInv => NothingInvented
    BY DEF AskedInv
  <1> QED
    BY <1>1, <1>2, <1>3, PTL DEF Spec

-----------------------------------------------------------------------------
\* Every id that is in use, or that a request under way would use, was given
\* out before.
FreshInv == /\ TypeOK
            /\ \A i \in Ids(zone) : i < nextId
            /\ \A w \in Pending : \A i \in Ids(task[w].rows) \cup task[w].dropped : i < nextId

LEMMA FreshInit ==
    ASSUME Init
    PROVE  FreshInv
  <1>1. PICK old \in AtMostOne([name : {Device}, dest : Addrs]) :
          /\ zone = [i \in {1 : r \in old} |-> CHOOSE r \in old : TRUE]
          /\ nextId = 1 + Cardinality(old)
    BY DEF Init, AtMostOne
  <1>2. old = {} \/ nextId = 2
    <2>1. old = {} \/ Cardinality(old) = 1
      BY OneCard
    <2> QED
      BY <1>1, <2>1
  <1>3. \A i \in Ids(zone) : i = 1 /\ old # {}
    BY <1>1 DEF Ids
  <1>4. \A w \in Workers : task[w] = Idle
    BY DEF Init
  <1> QED
    BY <1>2, <1>3, <1>4, TypeInit DEF FreshInv, Pending

\* The tasks after a step.
LEMMA TasksAfter ==
    ASSUME TypeOK, NEW w \in Workers, NEW t, task' = [task EXCEPT ![w] = t]
    PROVE  /\ task'[w] = t
           /\ \A v \in Workers : v # w => task'[v] = task[v]
  BY DEF TypeOK

LEMMA FreshStep ==
    ASSUME FreshInv, [Next]_vars
    PROVE  FreshInv'
  <1>1. TypeOK /\ TypeOK' /\ nextId \in Nat /\ nextId' \in Nat
    <2>1. TypeOK /\ TypeOK'
      BY TypeStep DEF FreshInv
    <2> QED
      BY <2>1, BoundsAssumption DEF TypeOK
  <1> DEFINE Holds(t, n) == t = Idle \/ \A i \in Ids(t.rows) \cup t.dropped : i < n
  <1>2. \A v \in Workers : Holds(task[v], nextId)
    BY DEF FreshInv, Pending
  <1>3. SUFFICES /\ \A v \in Workers : Holds(task'[v], nextId')
                 /\ \A i \in Ids(zone') : i < nextId'
    BY <1>1 DEF FreshInv, Pending
  <1>4. ASSUME NEW w \in Workers, Reading(w)
        PROVE  /\ \A v \in Workers : Holds(task'[v], nextId')
               /\ \A i \in Ids(zone') : i < nextId'
    <2>1. PICK t : /\ task' = [task EXCEPT ![w] = t]
                   /\ Begun(t)
                   /\ UNCHANGED <<zone, nextId>>
      BY <1>4 DEF Reading
    <2>2. Holds(t, nextId) /\ \A v \in Workers : task'[v] = t \/ task'[v] = task[v]
      BY <1>1, <2>1, TasksAfter DEF Begun, FreshInv
    <2> HIDE DEF Holds
    <2>3. \A v \in Workers : Holds(task'[v], nextId)
      BY <1>2, <2>2
    <2> QED
      BY <2>1, <2>3 DEF FreshInv, Ids
  <1>5. ASSUME NEW w \in Workers, Calling(w)
        PROVE  /\ \A v \in Workers : Holds(task'[v], nextId')
               /\ \A i \in Ids(zone') : i < nextId'
    <2>1. PICK rows \in Rows, dropped \in SUBSET RecordIds, new \in AtMostOne(Record) :
             /\ Applied(rows, dropped, new)
             /\ task' = [task EXCEPT ![w] = Idle] \/ UNCHANGED task
             /\ \/ task[w] # Idle /\ rows = task[w].rows
                \/ \A i \in Ids(rows) : i < nextId
      BY <1>5 DEF Calling
    <2>2. \A i \in Ids(rows) : i < nextId
      BY <1>2, <2>1
    <2>3. /\ nextId' = IF new = {} THEN nextId ELSE nextId + 1
          /\ \A i \in Ids(zone') : i \in Ids(rows) \/ i \in Ids(zone) \/ (i = nextId /\ new # {})
          /\ Ids(rows) \subseteq RecordIds /\ Ids(zone) \subseteq RecordIds
      <3>1. /\ nextId' = IF new = {} THEN nextId ELSE nextId + 1
            /\ \A i \in Ids(zone') : i \in Ids(rows) \/ i \in Ids(zone) \/ (i = nextId /\ new # {})
        <4>1. nextId' = IF new = {} THEN nextId ELSE nextId + 1
          BY <1>1, <2>1, AppliedZone
        <4>2. Ids(zone') = ((Ids(zone) \cup Ids(rows)) \ dropped) \cup {nextId : r \in new}
          BY <1>1, <2>1, AppliedZone
        <4> QED
          BY <4>1, <4>2
      <3>2. Ids(rows) \subseteq RecordIds
        BY RowsIn
      <3>3. Ids(zone) \subseteq RecordIds
        BY <1>1 DEF TypeOK, IsTable
      <3> QED
        BY <3>1, <3>2, <3>3
    <2>4. \A v \in Workers : task'[v] = task[v] \/ task'[v] = Idle
      BY <1>1, <2>1, TasksAfter
    <2>5. \A i \in Ids(zone') : i < nextId'
      BY <1>1, <2>2, <2>3 DEF FreshInv, RecordIds
    <2>6. \A v \in Workers : Holds(task[v], nextId')
      <3> SUFFICES ASSUME NEW v \in Workers, task[v] # Idle,
                          NEW i \in Ids(task[v].rows) \cup task[v].dropped
                   PROVE  i < nextId'
        OBVIOUS
      <3>1. i < nextId
        BY <1>2
      <3>2. i \in RecordIds
        BY <1>1, TaskFields, RowsIn DEF TypeOK
      <3> QED
        BY <1>1, <2>3, <3>1, <3>2 DEF RecordIds
    <2>7. Holds(Idle, nextId')
      OBVIOUS
    <2> HIDE DEF Holds
    <2>8. \A v \in Workers : Holds(task'[v], nextId')
      BY <2>4, <2>6, <2>7
    <2> QED
      BY <2>5, <2>8
  <1>6. ASSUME Waiting
        PROVE  /\ \A v \in Workers : Holds(task'[v], nextId')
               /\ \A i \in Ids(zone') : i < nextId'
    <2>1. \A v \in Workers : task'[v] = task[v] \/ task'[v] = Idle
      BY <1>1, <1>6, TasksAfter DEF Waiting
    <2>2. Holds(Idle, nextId) /\ UNCHANGED <<zone, nextId>>
      BY <1>6 DEF Waiting
    <2> HIDE DEF Holds
    <2>3. \A v \in Workers : Holds(task'[v], nextId)
      BY <1>2, <2>1, <2>2
    <2> QED
      BY <2>2, <2>3 DEF FreshInv, Ids
  <1> QED
    BY <1>1, <1>4, <1>5, <1>6, Steps

-----------------------------------------------------------------------------
\* The rows that a message gives the device's name, and another one; whether
\* it adds a record of the device's name.
Listed(t) == {i \in Ids(t.rows) : t.rows[i].name = Device}
Other(t) == {i \in Ids(t.rows) : t.rows[i].name # Device}
Adds(t) == \E r \in t.new : r.name = Device

\* The ids that have the device's name or may get it back; those that do not
\* have it, or may lose it; and the workers about to add a record.
Claimed == Of(Device) \cup UNION {Listed(task[w]) : w \in Pending}
Disturbed == (RecordIds \ Of(Device)) \cup
             UNION {Other(task[w]) \cup task[w].dropped : w \in Pending}
Adders == {w \in Pending : Adds(task[w])}

\* Only other requests disturb an id of the device.  A device that finds no
\* record of its name finds each of the claimed ones disturbed: this is what
\* makes up for the record it adds.
TallyInv ==
    /\ FreshInv
    /\ Cardinality(Claimed) + Cardinality(Adders) <= Cardinality(Workers) + calls
    /\ Cardinality(Claimed \cap Disturbed) <= calls

LEMMA Smaller ==
    ASSUME NEW S, IsFiniteSet(S), NEW T \in SUBSET S
    PROVE  /\ IsFiniteSet(T) /\ Cardinality(T) \in Nat /\ Cardinality(S) \in Nat
           /\ Cardinality(T) <= Cardinality(S)
  BY FS_Subset, FS_CardinalityType

LEMMA OneMore ==
    ASSUME NEW S, IsFiniteSet(S), NEW x, NEW T \in SUBSET (S \cup {x})
    PROVE  /\ Cardinality(T) \in Nat /\ Cardinality(S) \in Nat
           /\ Cardinality(T) <= Cardinality(S) + 1
  <1>1. IsFiniteSet(S \cup {x}) /\ Cardinality(S \cup {x}) <= Cardinality(S) + 1
    <2>1. /\ IsFiniteSet(S \cup {x})
          /\ Cardinality(S \cup {x}) = IF x \in S THEN Cardinality(S) ELSE Cardinality(S) + 1
      BY FS_AddElement
    <2>2. Cardinality(S) \in Nat
      BY FS_CardinalityType
    <2> QED
      BY <2>1, <2>2
  <1> QED
    BY <1>1, Smaller, FS_CardinalityType, FS_Subset

LEMMA OneLess ==
    ASSUME NEW S, IsFiniteSet(S), NEW x \in S, NEW T \in SUBSET (S \ {x})
    PROVE  /\ Cardinality(T) \in Nat /\ Cardinality(S) \in Nat
           /\ Cardinality(T) + 1 <= Cardinality(S)
  <1>1. /\ IsFiniteSet(S \ {x})
        /\ Cardinality(S \ {x}) = IF x \in S THEN Cardinality(S) - 1 ELSE Cardinality(S)
    BY FS_RemoveElement
  <1>2. Cardinality(T) \in Nat /\ Cardinality(S) \in Nat /\ Cardinality(T) <= Cardinality(S \ {x})
    BY <1>1, Smaller, FS_CardinalityType
  <1> QED
    BY <1>1, <1>2

LEMMA TallyInRecords ==
    ASSUME TypeOK
    PROVE  Claimed \subseteq RecordIds
  <1>1. \A w \in Pending : Listed(task[w]) \subseteq RecordIds
    <2> SUFFICES ASSUME NEW w \in Pending PROVE Listed(task[w]) \subseteq RecordIds
      OBVIOUS
    <2>1. task[w] \in {Idle} \cup SendTask /\ task[w] # Idle
      BY DEF Pending, TypeOK
    <2>2. Ids(task[w].rows) \subseteq RecordIds
      BY <2>1, TaskFields, RowsIn
    <2> QED
      BY <2>2 DEF Listed
  <1>2. Of(Device) \subseteq RecordIds
    BY DEF Of, TypeOK, IsTable
  <1> QED
    BY <1>1, <1>2 DEF Claimed

TallySets == /\ IsFiniteSet(Claimed) /\ Claimed \in SUBSET RecordIds
             /\ IsFiniteSet(Adders) /\ Adders \in SUBSET Workers
             /\ IsFiniteSet(Claimed \cap Disturbed)
             /\ calls \in Nat /\ Cardinality(Workers) \in Nat

LEMMA TallyFinite ==
    TypeOK => TallySets
  <1> SUFFICES ASSUME TypeOK PROVE TallySets
    OBVIOUS
  <1>3. Claimed \in SUBSET RecordIds
    BY TallyInRecords
  <1>4. IsFiniteSet(RecordIds)
    BY Bounds, FS_Interval DEF RecordIds
  <1>5. calls \in Nat
    BY BoundsAssumption DEF TypeOK
  <1> QED
    BY <1>3, <1>4, <1>5, Bounds, FS_Subset DEF Adders, Pending, TallySets

\* What every step does to these sets.
TallyEffect ==
    \/ /\ Claimed' \subseteq Claimed /\ Adders' \subseteq Adders
       /\ (Claimed \cap Disturbed)' \subseteq Claimed \cap Disturbed
       /\ calls' >= calls
    \/ /\ Claimed' \subseteq Claimed /\ Claimed \subseteq Disturbed
       /\ (Claimed \cap Disturbed)' \subseteq Claimed \cap Disturbed
       /\ calls' = calls
    \/ /\ calls' = calls + 1
       /\ \/ (\E i : Claimed' \subseteq Claimed \cup {i}) /\ Adders' \subseteq Adders
          \/ Claimed' \subseteq Claimed /\ \E w : Adders' \subseteq Adders \cup {w}
       /\ \E i : (Claimed \cap Disturbed)' \subseteq (Claimed \cap Disturbed) \cup {i}
    \/ /\ \E i : Claimed' \subseteq Claimed \cup {i}
       /\ \E w \in Adders : Adders' \subseteq Adders \ {w}
       /\ (Claimed \cap Disturbed)' \subseteq Claimed \cap Disturbed
       /\ calls' = calls

LEMMA TallyKeeps ==
    ASSUME TallyInv, FreshInv', TallyEffect
    PROVE  TallyInv'
  <1> DEFINE B == Claimed \cap Disturbed
             C == Claimed'
             A == Adders'
             D == (Claimed \cap Disturbed)'
  <1>1. TypeOK /\ TypeOK'
    BY DEF TallyInv, FreshInv
  <1>2. /\ IsFiniteSet(Claimed) /\ IsFiniteSet(Adders) /\ IsFiniteSet(B)
        /\ IsFiniteSet(C) /\ IsFiniteSet(A) /\ IsFiniteSet(D)
        /\ A \in SUBSET Workers /\ IsFiniteSet(Workers)
        /\ calls \in Nat /\ calls' \in Nat /\ Cardinality(Workers) \in Nat
    <2>1. TypeOK' => TallySets'
      BY TallyFinite, PTL
    <2>2. TallySets'
      BY <1>1, <2>1
    <2> QED
      BY <1>1, <2>2, TallyFinite, Bounds DEF TallySets
  <1>3. /\ Cardinality(Claimed) \in Nat /\ Cardinality(Adders) \in Nat /\ Cardinality(B) \in Nat
        /\ Cardinality(C) \in Nat /\ Cardinality(A) \in Nat /\ Cardinality(D) \in Nat
        /\ Cardinality(A) <= Cardinality(Workers)
    BY <1>2, Smaller, FS_CardinalityType
  <1>4. /\ Cardinality(Claimed) + Cardinality(Adders) <= Cardinality(Workers) + calls
        /\ Cardinality(B) <= calls
    BY DEF TallyInv
  <1> SUFFICES /\ Cardinality(C) + Cardinality(A) <= Cardinality(Workers) + calls'
               /\ Cardinality(D) <= calls'
    BY DEF TallyInv
  <1>5. CASE C \subseteq Claimed /\ A \subseteq Adders /\ D \subseteq B /\ calls' >= calls
    <2>1. /\ Cardinality(C) <= Cardinality(Claimed) /\ Cardinality(A) <= Cardinality(Adders)
          /\ Cardinality(D) <= Cardinality(B)
      BY <1>2, <1>5, Smaller
    <2> QED
      BY <1>2, <1>3, <1>4, <1>5, <2>1
  <1>6. CASE C \subseteq Claimed /\ Claimed \subseteq Disturbed /\ D \subseteq B /\ calls' = calls
    <2>1. B = Claimed
      BY <1>6
    <2>2. Cardinality(C) <= Cardinality(Claimed) /\ Cardinality(D) <= Cardinality(B)
      BY <1>2, <1>6, Smaller
    <2> HIDE DEF B, C, D, A
    <2> QED
      BY <1>2, <1>3, <1>4, <1>6, <2>1, <2>2
  <1>7. CASE /\ calls' = calls + 1
             /\ \/ (\E i : C \subseteq Claimed \cup {i}) /\ A \subseteq Adders
                \/ C \subseteq Claimed /\ \E w : A \subseteq Adders \cup {w}
             /\ \E i : D \subseteq B \cup {i}
    <2> HIDE DEF B, C, D, A
    <2>1. Cardinality(D) <= Cardinality(B) + 1
      BY <1>2, <1>7, OneMore
    <2>2. Cardinality(C) + Cardinality(A) <= Cardinality(Claimed) + Cardinality(Adders) + 1
      <3>1. CASE (\E i : C \subseteq Claimed \cup {i}) /\ A \subseteq Adders
        <4>1. Cardinality(C) <= Cardinality(Claimed) + 1
          BY <1>2, <3>1, OneMore
        <4>2. Cardinality(A) <= Cardinality(Adders)
          BY <1>2, <3>1, Smaller
        <4> QED
          BY <1>3, <4>1, <4>2
      <3>2. CASE C \subseteq Claimed /\ \E w : A \subseteq Adders \cup {w}
        <4>1. Cardinality(A) <= Cardinality(Adders) + 1
          BY <1>2, <3>2, OneMore
        <4>2. Cardinality(C) <= Cardinality(Claimed)
          BY <1>2, <3>2, Smaller
        <4> QED
          BY <1>3, <4>1, <4>2
      <3> QED
        BY <1>7, <3>1, <3>2
    <2> QED
      BY <1>2, <1>3, <1>4, <1>7, <2>1, <2>2
  <1>8. CASE /\ \E i : C \subseteq Claimed \cup {i}
             /\ \E w \in Adders : A \subseteq Adders \ {w}
             /\ D \subseteq B
             /\ calls' = calls
    <2> HIDE DEF B, C, D, A
    <2>1. Cardinality(C) <= Cardinality(Claimed) + 1
      BY <1>2, <1>8, OneMore
    <2>2. Cardinality(A) + 1 <= Cardinality(Adders)
      BY <1>2, <1>8, OneLess
    <2>3. Cardinality(D) <= Cardinality(B)
      BY <1>2, <1>8, Smaller
    <2> QED
      BY <1>2, <1>3, <1>4, <1>8, <2>1, <2>2, <2>3
  <1> QED
    BY <1>5, <1>6, <1>7, <1>8 DEF TallyEffect
-----------------------------------------------------------------------------
\* Where the elements of these sets come from when one task changes.
LEMMA TallyAfter ==
    ASSUME TypeOK, NEW w \in Workers, NEW t, task' = [task EXCEPT ![w] = t]
    PROVE  /\ \A i \in Claimed' : \/ i \in Of(Device)'
                                  \/ t # Idle /\ i \in Listed(t)
                                  \/ \E v \in Pending : v # w /\ i \in Listed(task[v])
           /\ \A i \in Disturbed' :
                 \/ i \in RecordIds /\ i \notin Of(Device)'
                 \/ t # Idle /\ i \in Other(t) \cup t.dropped
                 \/ \E v \in Pending : v # w /\ i \in Other(task[v]) \cup task[v].dropped
           /\ \A v \in Adders' : v = w \/ v \in Adders
           /\ w \in Adders' => t # Idle /\ Adds(t)
  <1>1. /\ task'[w] = t
        /\ \A v \in Workers : v # w => task'[v] = task[v]
    BY TasksAfter
  <1>2. \A v \in Pending' : v \in Workers /\ ((v = w /\ t # Idle) \/ (v # w /\ v \in Pending))
    BY <1>1 DEF Pending
  <1>3. \A i \in Claimed' : \/ i \in Of(Device)'
                            \/ t # Idle /\ i \in Listed(t)
                            \/ \E v \in Pending : v # w /\ i \in Listed(task[v])
    BY <1>1, <1>2 DEF Claimed
  <1>4. \A i \in Disturbed' :
           \/ i \in RecordIds /\ i \notin Of(Device)'
           \/ t # Idle /\ i \in Other(t) \cup t.dropped
           \/ \E v \in Pending : v # w /\ i \in Other(task[v]) \cup task[v].dropped
    BY <1>1, <1>2 DEF Disturbed
  <1>5. (\A v \in Adders' : v = w \/ v \in Adders) /\ (w \in Adders' => t # Idle /\ Adds(t))
    BY <1>1, <1>2 DEF Adders
  <1> QED
    BY <1>3, <1>4, <1>5

LEMMA TallyMembers ==
    /\ \A i : i \in Claimed <=> i \in Of(Device) \/ \E v \in Pending : i \in Listed(task[v])
    /\ \A i : i \in Disturbed <=> \/ i \in RecordIds /\ i \notin Of(Device)
                                  \/ \E v \in Pending : i \in Other(task[v]) \cup task[v].dropped
  BY DEF Claimed, Disturbed

LEMMA ReadingEffect ==
    ASSUME TallyInv, NEW w \in Workers, Reading(w)
    PROVE  TallyEffect
  <1>1. TypeOK /\ calls \in Nat
    BY DEF TallyInv, FreshInv, TypeOK
  <1>2. PICK t : /\ task[w] = Idle
                 /\ task' = [task EXCEPT ![w] = t]
                 /\ Begun(t)
                 /\ UNCHANGED <<zone, nextId>>
    BY DEF Reading
  <1>3. /\ Of(Device) \subseteq RecordIds
        /\ Of(Device)' = Of(Device)
        /\ Ids(t.rows) \subseteq RecordIds
    BY <1>1, <1>2, TaskFields, RowsIn DEF Of, Begun, TypeOK, IsTable, Ids
  <1>4. Listed(t) \subseteq Of(Device) /\ Other(t) \subseteq RecordIds \ Of(Device)
    BY <1>2, <1>3 DEF Begun, Listed, Other, Of
  <1>5. Claimed' \subseteq Claimed
    BY <1>1, <1>2, <1>3, <1>4, TallyAfter, TallyMembers
  <1>6. \A i \in Disturbed' : i \in Disturbed \/ i \in t.dropped
    BY <1>1, <1>2, <1>3, <1>4, TallyAfter, TallyMembers
  <1>7. Adders' \subseteq Adders \cup {w} /\ (t.new = {} => Adders' \subseteq Adders)
    BY <1>1, <1>2, TallyAfter DEF Adds
  <1>8. CASE calls' = calls /\ t.dropped = {} /\ t.new = {}
    BY <1>1, <1>5, <1>6, <1>7, <1>8 DEF TallyEffect
  <1>9. CASE calls' = calls /\ t.dropped = {} /\ Of(Device) = {}
    <2>1. Claimed \subseteq Disturbed
      <3>1. Claimed \subseteq RecordIds
        BY <1>1, TallyInRecords
      <3> QED
        BY <1>9, <3>1, TallyMembers
    <2> QED
      BY <1>5, <1>6, <1>9, <2>1 DEF TallyEffect
  <1>10. CASE calls' = calls + 1 /\ \E i : t.dropped \subseteq {i}
    BY <1>5, <1>6, <1>7, <1>10 DEF TallyEffect
  <1> QED
    BY <1>2, <1>8, <1>9, <1>10 DEF Begun
\* A call of the task t leaves the ids alone that it does not name, and gives
\* those it names back what it read.
LEMMA CallingEffect ==
    ASSUME TallyInv, TypeOK', NEW w \in Workers, Calling(w)
    PROVE  TallyEffect
  <1>1. /\ TypeOK /\ calls \in Nat /\ nextId \in Nat /\ FreshInv
        /\ Of(Device) \subseteq RecordIds /\ Of(Device)' \subseteq RecordIds
    BY BoundsAssumption DEF TallyInv, FreshInv, TypeOK, Of, IsTable, RecordIds
  <1>2. PICK rows \in Rows, dropped \in SUBSET RecordIds, new \in AtMostOne(Record) :
          /\ Applied(rows, dropped, new)
          /\ \/ /\ task[w] # Idle
                /\ rows = task[w].rows /\ dropped = task[w].dropped /\ new = task[w].new
                /\ task' = [task EXCEPT ![w] = Idle]
                /\ calls' = calls
             \/ /\ UNCHANGED task
                /\ calls' = calls + 1
                /\ \A i \in Ids(rows) : i < nextId
                /\ \/ rows = << >> /\ dropped = {}
                   \/ new = {} /\ \E i \in RecordIds : Ids(rows) \cup dropped = {i}
    BY DEF Calling
  <1>3. /\ Ids(zone') = ((Ids(zone) \cup Ids(rows)) \ dropped) \cup {nextId : r \in new}
        /\ \A i \in Ids(zone') : \/ i \in Ids(rows) /\ zone'[i] = rows[i]
                                 \/ i \notin Ids(rows) /\ i \in Ids(zone) /\ zone'[i] = zone[i]
                                 \/ i = nextId /\ i \notin Ids(rows) \cup Ids(zone)
                                    /\ zone'[i] \in new
    BY <1>1, <1>2, AppliedZone
  <1>4. /\ \A i : i \in Of(Device) <=> i \in Ids(zone) /\ zone[i].name = Device
        /\ \A i : i \in Of(Device)' <=> i \in Ids(zone') /\ zone'[i].name = Device
    BY DEF Of, Ids
  <1>5. ASSUME task[w] # Idle, task' = [task EXCEPT ![w] = Idle], calls' = calls,
               rows = task[w].rows, dropped = task[w].dropped, new = task[w].new
        PROVE  TallyEffect
    <2>1. PICK m : m = task[w]
      OBVIOUS
    <2>2. /\ w \in Pending
          /\ rows = m.rows /\ dropped = m.dropped /\ new = m.new
      BY <1>5, <2>1 DEF Pending
    <2>3. /\ \A i \in Listed(m) : i \in Claimed
          /\ \A i \in Other(m) \cup dropped : i \in Disturbed
      BY <2>1, <2>2, TallyMembers
    <2>4. \A i \in Of(Device)' : i \in Claimed \/ (i = nextId /\ Adds(m))
      <3> SUFFICES ASSUME NEW i \in Of(Device)' PROVE i \in Claimed \/ (i = nextId /\ Adds(m))
        OBVIOUS
      <3>1. i \in Ids(zone') /\ zone'[i].name = Device
        BY <1>4
      <3>2. CASE i \in Ids(rows) /\ zone'[i] = rows[i]
        BY <2>2, <2>3, <3>1, <3>2 DEF Listed
      <3>3. CASE i \in Ids(zone) /\ zone'[i] = zone[i]
        BY <1>4, <3>1, <3>3, TallyMembers
      <3>4. CASE i = nextId /\ zone'[i] \in new
        BY <2>2, <3>1, <3>4 DEF Adds
      <3> QED
        BY <1>3, <3>1, <3>2, <3>3, <3>4
    <2>5. \A i \in Claimed' : i \in Claimed \/ (i = nextId /\ Adds(m))
      <3>1. \A i \in Claimed' : i \in Of(Device)' \/ \E v \in Pending : i \in Listed(task[v])
        BY <1>1, <1>5, TallyAfter
      <3> QED
        BY <2>4, <3>1, TallyMembers
    <2>6. \A i \in Of(Device) : i \in Of(Device)' \/ i \in Disturbed
      <3> SUFFICES ASSUME NEW i \in Of(Device), i \notin Of(Device)', i \notin Disturbed
                   PROVE  FALSE
        OBVIOUS
      <3>1. i \in Ids(zone) /\ zone[i].name = Device /\ i \notin dropped
        BY <1>4, <2>3
      <3>2. i \in Ids(zone')
        BY <1>3, <3>1
      <3>3. i \in Ids(rows) /\ zone'[i] = rows[i] /\ zone'[i].name # Device
        BY <1>3, <1>4, <3>1, <3>2
      <3> QED
        BY <2>2, <2>3, <3>3 DEF Other
    <2>7. (Claimed \cap Disturbed)' \subseteq Claimed \cap Disturbed
      <3> SUFFICES ASSUME NEW i, i \in Claimed', i \in Disturbed'
                   PROVE  i \in Claimed /\ i \in Disturbed
        OBVIOUS
      <3>1. \/ i \in RecordIds /\ i \notin Of(Device)'
            \/ \E v \in Pending : i \in Other(task[v]) \cup task[v].dropped
        BY <1>1, <1>5, TallyAfter
      <3>2. i \in Of(Device)' \/ \E v \in Pending : i \in Listed(task[v])
        BY <1>1, <1>5, TallyAfter
      <3>3. CASE i \in RecordIds /\ i \notin Of(Device)'
        BY <2>6, <3>2, <3>3, TallyMembers
      <3>4. ASSUME NEW v \in Pending, i \in Other(task[v]) \cup task[v].dropped
            PROVE  i \in Claimed /\ i \in Disturbed
        <4>1. i < nextId
          BY <1>1, <3>4 DEF FreshInv, Other
        <4> QED
          BY <1>1, <2>5, <3>4, <4>1, TallyMembers
      <3> QED
        BY <3>1, <3>3, <3>4
    <2>8. Adders' \subseteq Adders \ {w}
      BY <1>1, <1>5, TallyAfter
    <2>9. CASE Adds(m)
      <3>1. w \in Adders
        BY <2>1, <2>2, <2>9 DEF Adders
      <3> QED
        BY <1>5, <2>5, <2>7, <2>8, <3>1 DEF TallyEffect
    <2>10. CASE ~Adds(m)
      BY <1>1, <1>5, <2>5, <2>7, <2>8, <2>10 DEF TallyEffect
    <2> QED
      BY <2>9, <2>10
  <1>6. ASSUME UNCHANGED task, calls' = calls + 1,
               \/ rows = << >> /\ dropped = {}
               \/ new = {} /\ \E i \in RecordIds : Ids(rows) \cup dropped = {i}
        PROVE  TallyEffect
    <2>1. PICK x : \A i : i # x => (i \in Of(Device)' <=> i \in Of(Device))
      <3>1. CASE rows = << >> /\ dropped = {}
        <4>1. Ids(rows) = {}
          BY <3>1, InRows
        <4>2. \A i : i # nextId => (i \in Of(Device)' <=> i \in Of(Device))
          BY <1>3, <1>4, <3>1, <4>1
        <4> QED
          BY <4>2
      <3>2. ASSUME new = {}, NEW x \in RecordIds, Ids(rows) \cup dropped = {x}
            PROVE  \E y : \A i : i # y => (i \in Of(Device)' <=> i \in Of(Device))
        <4>1. \A i : i # x => i \notin Ids(rows) /\ i \notin dropped
          BY <3>2
        <4>2. \A i : i # x => (i \in Ids(zone') <=> i \in Ids(zone))
          BY <1>3, <3>2, <4>1
        <4>3. \A i : i # x => (i \in Of(Device)' <=> i \in Of(Device))
          BY <1>3, <1>4, <3>2, <4>1, <4>2
        <4> QED
          BY <4>3
      <3> QED
        BY <1>6, <3>1, <3>2
    <2>2. Pending' = Pending /\ Adders' = Adders
      BY <1>6 DEF Pending, Adders
    <2>3. /\ \A i \in Claimed' : i \in Of(Device)' \/ \E v \in Pending : i \in Listed(task[v])
          /\ \A i \in Disturbed' : \/ i \in RecordIds /\ i \notin Of(Device)'
                                   \/ \E v \in Pending : i \in Other(task[v]) \cup task[v].dropped
      BY <1>6, <2>2 DEF Claimed, Disturbed
    <2>4. \A i : i # x => (i \in Claimed' => i \in Claimed) /\ (i \in Disturbed' => i \in Disturbed)
      BY <2>1, <2>3, TallyMembers
    <2>5. Claimed' \subseteq Claimed \cup {x}
      BY <2>4
    <2>6. (Claimed \cap Disturbed)' \subseteq (Claimed \cap Disturbed) \cup {x}
      BY <2>4
    <2> QED
      BY <1>6, <2>2, <2>5, <2>6 DEF TallyEffect
  <1> QED
    BY <1>2, <1>5, <1>6

LEMMA WaitingEffect ==
    ASSUME TallyInv, Waiting
    PROVE  TallyEffect
  <1>1. TypeOK /\ calls \in Nat /\ calls' >= calls /\ Of(Device)' = Of(Device)
    BY DEF TallyInv, FreshInv, TypeOK, Waiting, Of, Ids
  <1>2. CASE UNCHANGED task
    <2>1. Claimed' = Claimed /\ Disturbed' = Disturbed /\ Adders' = Adders
      BY <1>1, <1>2 DEF Claimed, Disturbed, Adders, Pending
    <2> QED
      BY <1>1, <2>1 DEF TallyEffect
  <1>3. ASSUME NEW w \in Workers, task' = [task EXCEPT ![w] = Idle]
        PROVE  TallyEffect
    <2>1. Claimed' \subseteq Claimed /\ Disturbed' \subseteq Disturbed /\ Adders' \subseteq Adders
      BY <1>1, <1>3, TallyAfter, TallyMembers
    <2> QED
      BY <1>1, <2>1 DEF TallyEffect
  <1> QED
    BY <1>2, <1>3 DEF Waiting

LEMMA TallyInit ==
    ASSUME Init
    PROVE  TallyInv
  <1>1. FreshInv /\ calls = 0
    BY FreshInit DEF Init
  <1>2. Pending = {}
    BY DEF Init, Pending
  <1>3. Adders = {} /\ Claimed = Of(Device) /\ Claimed \cap Disturbed = {}
    BY <1>2 DEF Adders, Claimed, Disturbed
  <1>4. Of(Device) \subseteq {1}
    BY DEF Init, Of, Ids
  <1>5. Cardinality(Claimed) <= 1 /\ Cardinality(Claimed) \in Nat
    <2>1. Claimed = {} \/ Claimed = {1}
      BY <1>3, <1>4
    <2> QED
      BY <2>1, FS_EmptySet, FS_Singleton, SMTT(60)
  <1>6. Cardinality(Workers) \in Nat /\ Cardinality(Workers) >= 1
    BY Bounds, FS_EmptySet, FS_CardinalityType
  <1>7. Cardinality(Adders) = 0 /\ Cardinality(Claimed \cap Disturbed) = 0
    BY <1>3, FS_EmptySet
  <1> QED
    BY <1>1, <1>5, <1>6, <1>7 DEF TallyInv

LEMMA TallyStep ==
    ASSUME TallyInv, [Next]_vars
    PROVE  TallyInv'
  <1>1. FreshInv /\ FreshInv' /\ TypeOK /\ TypeOK'
    BY FreshStep DEF TallyInv, FreshInv
  <1>2. TallyEffect
    BY <1>1, Steps, ReadingEffect, CallingEffect, WaitingEffect
  <1> QED
    BY <1>1, <1>2, TallyKeeps

\* Requests of the device that overtake each other, or a stale page sent
\* back, may leave several records of its name; asking again adds none: each
\* worker and each other request accounts for one at most
\* (update_dns_record).
THEOREM DuplicatesAreBounded == Spec => []DuplicatesBounded
  <1>1. Init => TallyInv
    BY TallyInit
  <1>2. TallyInv /\ [Next]_vars => TallyInv'
    BY TallyStep
  <1>3. TallyInv => DuplicatesBounded
    <2> SUFFICES ASSUME TallyInv PROVE DuplicatesBounded
      OBVIOUS
    <2>1. TallySets /\ Of(Device) \subseteq Claimed
      BY TallyFinite DEF TallyInv, FreshInv, Claimed
    <2>2. Cardinality(Of(Device)) <= Cardinality(Claimed) /\ Cardinality(Of(Device)) \in Nat
      BY <2>1, Smaller DEF TallySets
    <2>3. Cardinality(Claimed) \in Nat /\ Cardinality(Adders) \in Nat
      BY <2>1, FS_CardinalityType DEF TallySets
    <2> QED
      BY <2>1, <2>2, <2>3 DEF TallyInv, TallySets, DuplicatesBounded
  <1> QED
    BY <1>1, <1>2, <1>3, PTL DEF Spec

=============================================================================
