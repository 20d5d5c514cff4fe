---------------------------- MODULE ProductCache ----------------------------
(***************************************************************************)
(* One product id under concurrent use of CachedProductService: GETs that  *)
(* fill the cache through a singleflight group, and the admin's create,    *)
(* update and delete, which go to the database first and then drop the     *)
(* cache entry.                                                            *)
(*                                                                         *)
(* A row is abstracted to who wrote each of two fields last.  history is   *)
(* the sequence of values the primary has held; every read, also the read  *)
(* with which an update begins, is sent to the replica, which holds one of *)
(* them.  One process is modelled: a singleflight group is local to one.   *)
(* Init, Next and Spec have names of their own because ServerProofs reads  *)
(* this module and SyncOrders side by side.                                *)
(***************************************************************************)
EXTENDS Integers, Sequences

CONSTANTS Readers,   \* GET /products/:id requests, each made once
          Writers,   \* admin requests, each made once
          Op,        \* what each writer does: a field to update, or Ops
          NoRow,     \* no row, in the database; the null marker, in Redis
          Absent,    \* no entry in Redis
          Unknown,   \* nothing read yet
          MaxErrors   \* bound on Redis and database errors

Fields == {"price", "status"}
Ops == Fields \union {"create", "delete"}

ASSUME OpAssumption    == Op \in [Writers -> Ops]
ASSUME ErrorAssumption == MaxErrors \in Nat
ASSUME ValueAssumption == /\ {NoRow, Absent, Unknown} \intersect
                               [Fields -> Writers \union {"before"}] = {}
                          /\ NoRow # Absent /\ NoRow # Unknown /\ Absent # Unknown

VARIABLES
  history,   \* values the row has had on the primary
  applied,   \* which of them the replica holds
  cache,     \* Redis: the entry, Absent, or a row or null marker
  flight,    \* the singleflight call under way, if any
  reader,    \* where each GET is
  writer,    \* where each admin request is
  read,      \* what each update read, and the length of history it stood for
  raced,     \* history: a flight was under way when the row changed, or read
             \* a replica that lagged
  created,   \* history: the row was created after a null marker could be cached
  blind,     \* history: an update saved over a row it had not read
  last,      \* history: who last saved or created each field
  errors

cacheVars == <<history, applied, cache, flight, reader, writer, read,
          raced, created, blind, last, errors>>

dbVars == <<history, applied>>
readerVars == <<flight, reader>>
writerVars == <<writer, read>>
blameVars == <<raced, created, blind, last>>

Rows == [Fields -> Writers \union {"before"}]

Row     == history[Len(history)]
Replica == history[applied]
Idle    == [stage |-> "idle", value |-> Unknown]

NoError  == UNCHANGED errors
Error == errors < MaxErrors /\ errors' = errors + 1

-----------------------------------------------------------------------------
(* GetProductByID *)

\* GET of the entry: a row, or the null marker, is the answer,
Hit(r) ==
  /\ reader[r] = "start" /\ cache # Absent
  /\ reader' = [reader EXCEPT ![r] = "done"]
  /\ UNCHANGED <<dbVars, cache, flight, writerVars, blameVars>> /\ NoError

\* ... a missing entry, or an error of Redis, leads to the database.
Miss(r) ==
  /\ reader[r] = "start"
  /\ reader' = [reader EXCEPT ![r] = "missed"]
  /\ \/ cache = Absent /\ NoError
     \/ cache # Absent /\ Error
  /\ UNCHANGED <<dbVars, cache, flight, writerVars, blameVars>>

\* group.Do: join the call under way or start one.
Join(r) ==
  /\ reader[r] = "missed"
  /\ reader' = [reader EXCEPT ![r] = "waiting"]
  /\ flight' = IF flight = Idle THEN [Idle EXCEPT !.stage = "read"] ELSE flight
  /\ UNCHANGED <<dbVars, cache, writerVars, blameVars>> /\ NoError

\* The call reads the row,
FlightReads ==
  /\ flight.stage = "read"
  /\ flight' = [stage |-> "fill", value |-> Replica]
  /\ raced' = (raced \/ Replica # Row)
  /\ UNCHANGED <<dbVars, cache, reader, writerVars, created, blind, last>>
  /\ NoError

\* Mutant of Land: only one of those who joined the call gets its value.
LandOne ==
  /\ flight' = Idle
  /\ \E r \in Readers : /\ reader[r] = "waiting"
                        /\ reader' = [reader EXCEPT ![r] = "done"]

\* The call ends: everyone who has joined it gets its value or error.
Land ==
  /\ flight' = Idle
  /\ reader' = [r \in Readers |->
                  IF reader[r] = "waiting" THEN "done" ELSE reader[r]]

\* ... or fails to, and nothing is cached;
FlightFails ==
  /\ flight.stage = "read"
  /\ Land
  /\ UNCHANGED <<dbVars, cache, writerVars, blameVars>> /\ Error

\* Mutant of FlightFills: the call ends and answers nobody.
FlightStays ==
  /\ flight.stage = "fill"
  /\ cache' = flight.value
  /\ reader' = reader /\ flight' = Idle
  /\ UNCHANGED <<dbVars, writerVars, blameVars>> /\ NoError

\* ... then sets the entry, to the null marker if there is no row; an error of
\* Redis is ignored.
FlightFills ==
  /\ flight.stage = "fill"
  /\ \/ cache' = flight.value /\ NoError
     \/ UNCHANGED cache /\ Error
  /\ Land
  /\ UNCHANGED <<dbVars, writerVars, blameVars>>

-----------------------------------------------------------------------------
(* CreateProduct, Update, Delete *)

Change(row) == /\ history' = Append(history, row)
               /\ raced' = (raced \/ flight.stage = "fill")

\* The id is new: nobody has had a row under it.  The entry is left alone, be it
\* the null marker of a GET that came too early.
CreateProduct(w) ==
  /\ Op[w] = "create" /\ writer[w] = "start"
  /\ \A i \in DOMAIN history : history[i] = NoRow
  /\ Change([f \in Fields |-> w])
  /\ last' = [f \in Fields |-> w]
  /\ created' = TRUE
  /\ writer' = [writer EXCEPT ![w] = "done"]
  /\ UNCHANGED <<applied, cache, readerVars, read, blind>> /\ NoError

\* Update and Delete begin with a read: no row is an error, nothing changes.
FindProduct(w) ==
  /\ Op[w] # "create" /\ writer[w] = "start"
  /\ writer' = [writer EXCEPT ![w] = IF Replica = NoRow THEN "done" ELSE "write"]
  /\ read' = [read EXCEPT ![w] = [value |-> Replica, at |-> applied]]
  /\ UNCHANGED <<dbVars, cache, readerVars, blameVars>> /\ NoError

\* Mutant of Save: the columns of the request are saved alone.
SaveRequest(w) ==
  /\ Op[w] \in Fields /\ writer[w] = "write"
  /\ Change([f \in Fields |-> IF f = Op[w] THEN w ELSE "before"])
  /\ last' = IF Row = NoRow THEN [read[w].value EXCEPT ![Op[w]] = w]
                            ELSE [last EXCEPT ![Op[w]] = w]
  /\ blind' = (blind \/ read[w].at < Len(history))
  /\ writer' = [writer EXCEPT ![w] = "invalidate"]
  /\ UNCHANGED <<applied, cache, readerVars, read, created>> /\ NoError

\* Save writes every column of the row that was read, with the new field; if the
\* row is gone, it inserts it.
Save(w) ==
  /\ Op[w] \in Fields /\ writer[w] = "write"
  /\ Change([read[w].value EXCEPT ![Op[w]] = w])
  /\ last' = IF Row = NoRow THEN [read[w].value EXCEPT ![Op[w]] = w]
                            ELSE [last EXCEPT ![Op[w]] = w]
  /\ blind' = (blind \/ read[w].at < Len(history))
  /\ writer' = [writer EXCEPT ![w] = "invalidate"]
  /\ UNCHANGED <<applied, cache, readerVars, read, created>> /\ NoError

DeleteRow(w) ==
  /\ Op[w] = "delete" /\ writer[w] = "write"
  /\ Change(NoRow)
  /\ writer' = [writer EXCEPT ![w] = "invalidate"]
  /\ UNCHANGED <<applied, cache, readerVars, read, created, blind, last>> /\ NoError

\* Mutant of Invalidate: there is none.
InvalidateNothing(w) ==
  /\ writer[w] = "invalidate"
  /\ writer' = [writer EXCEPT ![w] = "done"]
  /\ UNCHANGED <<dbVars, cache, readerVars, read, blameVars>> /\ NoError

\* DEL of the entry; an error of Redis is ignored.
Invalidate(w) ==
  /\ writer[w] = "invalidate"
  /\ writer' = [writer EXCEPT ![w] = "done"]
  /\ \/ cache' = Absent /\ NoError
     \/ UNCHANGED cache /\ Error
  /\ UNCHANGED <<dbVars, readerVars, read, blameVars>>

\* Mutant of Expire: the null marker has no TTL.
ExpireRow ==
  /\ cache \notin {Absent, NoRow}
  /\ cache' = Absent
  /\ UNCHANGED <<dbVars, readerVars, writerVars, blameVars>> /\ NoError

\* Every entry has a TTL.
Expire ==
  /\ cache # Absent
  /\ cache' = Absent
  /\ UNCHANGED <<dbVars, readerVars, writerVars, blameVars>> /\ NoError

Replicate ==
  /\ applied < Len(history)
  /\ applied' = applied + 1
  /\ UNCHANGED <<history, cache, readerVars, writerVars, blameVars>> /\ NoError

-----------------------------------------------------------------------------
CacheInit ==
  /\ \E row \in {NoRow, [f \in Fields |-> "before"]} : history = <<row>>
  /\ applied = 1
  /\ cache = Absent
  /\ flight = Idle
  /\ reader = [r \in Readers |-> "start"]
  /\ writer = [w \in Writers |-> "start"]
  /\ read = [w \in Writers |-> [value |-> NoRow, at |-> 0]]
  /\ raced = FALSE /\ created = FALSE /\ blind = FALSE
  /\ last = [f \in Fields |-> "before"]
  /\ errors = 0

Fly == FlightReads \/ FlightFails \/ FlightFills

Get(r) == Hit(r) \/ Miss(r) \/ Join(r)

Write(w) == Save(w) \/ DeleteRow(w) \/ Invalidate(w)

CacheNext == \/ \E r \in Readers : Get(r)
        \/ Fly
        \/ \E w \in Writers : CreateProduct(w) \/ FindProduct(w) \/ Write(w)
        \/ Expire \/ Replicate

CacheSpec == CacheInit /\ [][CacheNext]_cacheVars

\* Requests that have begun run on; entries expire and the replica keeps up.
FairCacheSpec == /\ CacheSpec
            /\ \A r \in Readers : WF_cacheVars(Get(r))
            /\ WF_cacheVars(Fly)
            /\ \A w \in Writers : WF_cacheVars(Write(w))
            /\ WF_cacheVars(Expire) /\ WF_cacheVars(Replicate)

-----------------------------------------------------------------------------
(* Properties *)

Values == Rows \union {NoRow}

CacheTypeOK ==
  /\ history \in Seq(Values)
  /\ applied \in 1..Len(history)
  /\ cache \in Values \union {Absent}
  /\ flight \in [stage : {"idle", "read", "fill"}, value : Values \union {Unknown}]
  /\ reader \in [Readers -> {"start", "missed", "waiting", "done"}]
  /\ writer \in [Writers -> {"start", "write", "invalidate", "done"}]
  /\ read \in [Writers -> [value : Values, at : Nat]]
  /\ \A r \in Readers : reader[r] = "waiting" => flight # Idle
  /\ raced \in BOOLEAN /\ created \in BOOLEAN /\ blind \in BOOLEAN
  /\ last \in Rows
  /\ errors \in 0..MaxErrors

\* The cache serves what the primary holds, unless a writer is about to drop the
\* entry or something cache-aside is not proof against has happened: a fault, a
\* fill overtaken by a write, a lagging replica, a null marker older than its row.
Coherent ==
  \/ cache \in {Absent, Row}
  \/ \E w \in Writers : writer[w] = "invalidate"
  \/ errors > 0 \/ raced \/ created

\* Two updates of different fields both last, and a deleted row stays deleted,
\* unless an update saved a row that had changed since it read it, or read a
\* replica that lagged: Save writes every column and inserts a row that is gone.
UpdatesKept ==
  ~blind => /\ Row # NoRow => Row = last
            /\ \A i, j \in DOMAIN history :
                 i < j /\ history[i] # NoRow /\ history[j] = NoRow => Row = NoRow

\* Whatever was cached wrongly gives way in the end, because every entry expires.
EventuallyFresh == <>[](cache \in {Absent, Row})

\* Everyone who joins a call is answered by it, also when it fails.
EveryGetAnswers == \A r \in Readers : <>(reader[r] = "done")

=============================================================================
