----------------------------- MODULE ZoneUpdate -----------------------------
(***************************************************************************)
(* The writers of one DNS zone, which the provider keeps and this program  *)
(* changes through two calls, infoDnsRecords and updateDnsRecords.         *)
(*                                                                         *)
(*  - The token API creates, updates or deletes one record in one call.    *)
(*  - A DDNS request (dyndns2, noip, /api/ddns) reads the records, finds   *)
(*    the one of its name and sends that one record back, or a new one.    *)
(*  - The web pages of a realm read the records, change, add or flag one   *)
(*    and send all of them back.                                           *)
(*                                                                         *)
(* Nothing orders the calls of two requests.  A call may fail before the   *)
(* provider applies it, or its answer may be lost after that; the code     *)
(* treats both as an error and does not retry.  What retries is the        *)
(* device: it keeps asking for its own name with its current address.      *)
(*                                                                         *)
(* A name stands for host name and record type, an address for the         *)
(* destination.  Authorization is the subject of RealmTokens.              *)
(***************************************************************************)
EXTENDS Integers, FiniteSets, Tables

CONSTANTS Workers,   \* worker threads of all gunicorn processes
          Names,     \* host name and type of a record
          Device,    \* the name a DDNS client keeps up to date
          Addrs,     \* destinations
          MaxId,     \* bounds: record ids the provider gives out,
          MaxCalls,  \* requests other than the device's,
          MaxMoves   \* changes of the device's address

ASSUME DeviceAssumption == Device \in Names
ASSUME WorkersAssumption == IsFiniteSet(Workers) /\ Workers # {}
ASSUME BoundsAssumption == MaxId \in Nat \ {0} /\ {MaxCalls, MaxMoves} \subseteq Nat

VARIABLES zone,      \* the provider's records, by id
          nextId,    \* the id of the provider's next record
          task,      \* what each worker has read and is about to send
          addr,      \* the device's current address
          calls,     \* how many other requests there were
          moves,     \* how often the device's address changed
          asked      \* ghost: the <<name, address>> pairs asked for so far

vars == <<zone, nextId, task, addr, calls, moves, asked>>

RecordIds == 1 .. MaxId
Record == [name : Names, dest : Addrs]
Rows == UNION {[S -> Record] : S \in SUBSET RecordIds}

Idle == [k |-> "idle"]

\* send: the records of one updateDnsRecords call; rows have an id, dropped
\* are flagged deleterecord, new has none.  name: what the request is about.
SendTask == [k : {"ddns", "web"}, name : Names, rows : Rows,
             dropped : SUBSET RecordIds, new : {{}} \cup {{r} : r \in Record}]

Send(w, kind, name, rows, dropped, new) ==
    task' = [task EXCEPT ![w] = [k |-> kind, name |-> name, rows |-> rows,
                                 dropped |-> dropped, new |-> new]]

One(id, r) == [i \in {id} |-> r]
Rec(n, a) == [name |-> n, dest |-> a]
Of(n) == {i \in Ids(zone) : zone[i].name = n}

\* The record a search for the name stops at; the provider lists by id.
First(n) == {i \in Of(n) : \A j \in Of(n) : i <= j}

Init == \E a \in Addrs, old \in {{}} \cup {{r} : r \in [name : {Device}, dest : Addrs]} :
          /\ zone = [i \in {1 : r \in old} |-> CHOOSE r \in old : TRUE]
          /\ nextId = 1 + Cardinality(old)
          /\ task = [w \in Workers |-> Idle]
          /\ addr = a
          /\ calls = 0
          /\ moves = 0
          /\ asked = {<<r.name, r.dest>> : r \in old}

(***************************************************************************)
(* The provider.  A record with an id it does not know is either refused   *)
(* with the whole call, or, if it gave out the id before, taken as a       *)
(* record to create under that id.                                         *)
(***************************************************************************)
Applied(rows, dropped, new) ==
    /\ nextId + Cardinality(new) <= MaxId + 1
    /\ zone' = [i \in ((Ids(zone) \cup Ids(rows)) \ dropped)
                        \cup {nextId : r \in new} |->
                  IF i \in Ids(rows) THEN rows[i]
                  ELSE IF i \in Ids(zone) THEN zone[i]
                  ELSE CHOOSE r \in new : TRUE]
    /\ nextId' = nextId + Cardinality(new)

Failed == UNCHANGED <<zone, nextId>>

Call == calls < MaxCalls /\ calls' = calls + 1

-----------------------------------------------------------------------------
\* POST, PUT and DELETE of /api/dns/<domain>/records: one call, no reading.
ApiCreate(w, n, a) ==
    /\ task[w] = Idle
    /\ Call
    /\ asked' = asked \cup {<<n, a>>}
    /\ Applied(<< >>, {}, {Rec(n, a)}) \/ Failed
    /\ UNCHANGED <<task, addr, moves>>

ApiUpdate(w, id, n, a) ==
    /\ task[w] = Idle
    /\ Call
    /\ asked' = asked \cup {<<n, a>>}
    /\ (id < nextId /\ Applied(One(id, Rec(n, a)), {}, {})) \/ Failed
    /\ UNCHANGED <<task, addr, moves>>

ApiDelete(w, id) ==
    /\ task[w] = Idle
    /\ Call
    /\ Applied(<< >>, {id}, {}) \/ Failed
    /\ UNCHANGED <<task, addr, moves, asked>>

-----------------------------------------------------------------------------
\* Mutant: a record of the name is enough, whatever its address.
DdnsRead_AnyAddress(w) ==
    /\ task[w] = Idle
    /\ asked' = asked \cup {<<Device, addr>>}
    /\ Of(Device) = {}
    /\ Send(w, "ddns", Device, << >>, {}, {Rec(Device, addr)})
    /\ UNCHANGED <<zone, nextId, addr, calls, moves>>

\* Mutant: a record without an id of its own is sent with id 0.
DdnsRead_IdZero(w) ==
    /\ task[w] = Idle
    /\ asked' = asked \cup {<<Device, addr>>}
    /\ Of(Device) = {}
    /\ Send(w, "ddns", Device, One(0, Rec(Device, addr)), {}, {})
    /\ UNCHANGED <<zone, nextId, addr, calls, moves>>

\* Mutant: a changed address is sent as a new record.
DdnsRead_Appends(w) ==
    /\ task[w] = Idle
    /\ asked' = asked \cup {<<Device, addr>>}
    /\ Rec(Device, addr) \notin {zone[i] : i \in Of(Device)}
    /\ Send(w, "ddns", Device, << >>, {}, {Rec(Device, addr)})
    /\ UNCHANGED <<zone, nextId, addr, calls, moves>>

\* The device asks for its current address: the records are read, and the
\* first one of the name is sent back with it, or a new one.
DdnsRead(w) ==
    /\ task[w] = Idle
    /\ asked' = asked \cup {<<Device, addr>>}
    /\ \/ \E i \in First(Device) :
             Send(w, "ddns", Device, One(i, Rec(Device, addr)), {}, {})
       \/ /\ Of(Device) = {}
          /\ Send(w, "ddns", Device, << >>, {}, {Rec(Device, addr)})
    /\ UNCHANGED <<zone, nextId, addr, calls, moves>>

\* The device is up to date when the first record of its name says so.
UpToDate == \E i \in First(Device) : zone[i].dest = addr

\* dyndns2 and noip send nothing to the provider when the device is up to
\* date; they answer "nochg".
process_ddns_update(w) ==
    \/ ~UpToDate /\ DdnsRead(w)
    \/ /\ UpToDate
       /\ task[w] = Idle
       /\ asked' = asked \cup {<<Device, addr>>}
       /\ UNCHANGED <<zone, nextId, task, addr, calls, moves>>

\* POST and PUT of /api/ddns/<domain>/<hostname> send the record whatever it
\* holds.
ddns_update(w) == DdnsRead(w)

\* The web pages read all records ...
WebCreate(w, n, a) ==
    /\ task[w] = Idle
    /\ Call
    /\ asked' = asked \cup {<<n, a>>}
    /\ Send(w, "web", n, zone, {}, {Rec(n, a)})
    /\ UNCHANGED <<zone, nextId, addr, moves>>

WebEdit(w, id, a) ==
    /\ task[w] = Idle
    /\ Call
    /\ id \in Ids(zone)
    /\ asked' = asked \cup {<<zone[id].name, a>>}
    /\ Send(w, "web", zone[id].name, [zone EXCEPT ![id].dest = a], {}, {})
    /\ UNCHANGED <<zone, nextId, addr, moves>>

WebDelete(w, id) ==
    /\ task[w] = Idle
    /\ Call
    /\ id \in Ids(zone)
    /\ Send(w, "web", zone[id].name, zone, {id}, {})
    /\ UNCHANGED <<zone, nextId, addr, moves, asked>>

\* Mutant: without a record of the name the first record is taken.
WebDdns_FirstRecord(w, n, a) ==
    /\ task[w] = Idle
    /\ Call
    /\ asked' = asked \cup {<<n, a>>}
    /\ \E i \in Ids(zone) : Send(w, "web", n, [zone EXCEPT ![i].dest = a], {}, {})
    /\ UNCHANGED <<zone, nextId, addr, moves>>

\* ... also "update to my IP", which looks for the name like a DDNS request.
WebDdns(w, n, a) ==
    /\ task[w] = Idle
    /\ Call
    /\ asked' = asked \cup {<<n, a>>}
    /\ \/ \E i \in First(n) : Send(w, "web", n, [zone EXCEPT ![i].dest = a], {}, {})
       \/ Of(n) = {} /\ Send(w, "web", n, zone, {}, {Rec(n, a)})
    /\ UNCHANGED <<zone, nextId, addr, moves>>

\* The call of updateDnsRecords, whether its answer arrives or not ...
Update(w, kind) ==
    /\ task[w].k = kind
    /\ Applied(task[w].rows, task[w].dropped, task[w].new)
    /\ task' = [task EXCEPT ![w] = Idle]
    /\ UNCHANGED <<addr, calls, moves, asked>>

\* ... or fails: a timeout, an error status, a record the provider refuses.
UpdateFails(w) ==
    /\ task[w] # Idle
    /\ Failed
    /\ task' = [task EXCEPT ![w] = Idle]
    /\ UNCHANGED <<addr, calls, moves, asked>>

\* The device gets another address.
Move(a) ==
    /\ moves < MaxMoves
    /\ a # addr
    /\ addr' = a
    /\ moves' = moves + 1
    /\ UNCHANGED <<zone, nextId, task, calls, asked>>

Next == \/ \E w \in Workers :
             \/ \E n \in Names, a \in Addrs :
                  \/ ApiCreate(w, n, a)
                  \/ WebCreate(w, n, a)
                  \/ WebDdns(w, n, a)
                  \/ \E id \in RecordIds : ApiUpdate(w, id, n, a)
             \/ \E id \in RecordIds, a \in Addrs : WebEdit(w, id, a)
             \/ \E id \in RecordIds : ApiDelete(w, id) \/ WebDelete(w, id)
             \/ process_ddns_update(w)
             \/ ddns_update(w)
             \/ \E kind \in {"ddns", "web"} : Update(w, kind)
             \/ UpdateFails(w)
        \/ \E a \in Addrs : Move(a)

Spec == Init /\ [][Next]_vars

\* The device keeps asking while it is not up to date, a request that was
\* begun ends, and the provider does not refuse the device's updates forever.
FairSpec == /\ Spec
            /\ WF_vars(~UpToDate /\ \E w \in Workers : DdnsRead(w))
            /\ \A w \in Workers : WF_vars(UpdateFails(w) \/ Update(w, "web"))
            /\ SF_vars(\E w \in Workers : Update(w, "ddns"))

-----------------------------------------------------------------------------
\* Every variable has its type.
TypeOK == /\ IsTable(zone, RecordIds, Record)
          /\ nextId \in 1 .. MaxId + 1
          /\ task \in [Workers -> {Idle} \cup SendTask]
          /\ addr \in Addrs
          /\ calls \in 0 .. MaxCalls
          /\ moves \in 0 .. MaxMoves
          /\ asked \in SUBSET (Names \X Addrs)

\* Whatever is lost, repeated or sent back late, an address appears under a
\* name only if a request named both (the find loops of update_dns_record,
\* ddns_update and dns_record_edit).
NothingInvented ==
    \A i \in Ids(zone) : <<zone[i].name, zone[i].dest>> \in asked

\* Requests of the device that overtake each other, or a stale page sent
\* back, may leave several records of its name; asking again adds none: each
\* worker and each other request accounts for one at most
\* (update_dns_record).
DuplicatesBounded == Cardinality(Of(Device)) <= Cardinality(Workers) + calls

\* When nobody interferes any more, a device that keeps asking gets its
\* address into the zone for good, whatever was overwritten before
\* (process_ddns_update).
Settles == <>[](\E i \in Of(Device) : zone[i].dest = addr)

=============================================================================
