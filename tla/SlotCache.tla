-------------------------------- MODULE SlotCache --------------------------------
(***************************************************************************)
(* The public catalogue behind the booking page: the answers of            *)
(* getPublicProfile and getPublicSlots, kept in Redis for a short time,    *)
(* and the edits of the shop that delete them.                             *)
(*                                                                         *)
(* A handler is a request of the API with its next step: a command to      *)
(* Redis, a read or a commit of the database.  Any failed command opens    *)
(* the circuit, and until it closes again every command is skipped.        *)
(*                                                                         *)
(* Left out: several API processes (one circuit), a SCAN of more than one  *)
(* batch (the keys found are deleted by one command), the passing of time  *)
(* within the life of an entry, and what a profile shows besides services  *)
(* and professionals.                                                      *)
(***************************************************************************)
EXTENDS SlotEngine, FiniteSetsExt

CONSTANTS
  Handler, Service, Pro, Owner, Day,
  Limits,
  NoPro,      \* no professionalId in the request
  NoEntry,    \* no value in Redis
  ProfileKey  \* key of the profile; those of slots are records

ASSUME ShopAssumption == Owner \in Pro /\ AllPros \notin Pro /\ NoPro \notin Pro

Key == {ProfileKey} \cup [svc : Service, day : Day, pro : Pro \cup {NoPro}]

\* Minutes of a day, as the DTOs allow them: a window may end at midnight.
Rule == [pro : Pro \cup {AllPros}, dayOfWeek : Nat, start : 0 .. DAY, end : 0 .. DAY]
Exception == [pro : Pro \cup {AllPros}, day : Int, isAvailable : BOOLEAN,
              start : 0 .. DAY, end : 0 .. DAY]
Row == [pro : Pro, from : Int, to : Int, by : {"other", "page"}, svc : Service]
Shops == [zone : Int, step : Nat \ {0}, buffer : Nat, notice : Nat, advance : Nat,
          deleted : BOOLEAN, services : SUBSET Service, duration : [Service -> Nat \ {0}],
          pros : SUBSET Pro, rules : SUBSET Rule, exceptions : SUBSET Exception,
          booked : SUBSET Row]

\* A page can only ask for what the instance lists.
Browsable(l) ==
  /\ \E S \in SUBSET Service, D \in SUBSET Day, P \in SUBSET (Pro \cup {NoPro}) :
       /\ l.keys = {ProfileKey} \cup [svc : S, day : D, pro : P] /\ D # {} /\ NoPro \in P
       /\ l.shop.services \subseteq S
       /\ l.shop.pros \subseteq P \/ Cardinality(l.shop.pros) <= 1
  /\ l.ops \cap {"createService", "addMember"} = {}

ASSUME KeyAssumption ==
  /\ Day \subseteq Nat /\ IsFiniteSet(Pro)
  /\ ProfileKey \notin [svc : Service, day : Day, pro : Pro \cup {NoPro}]
ASSUME LimitsAssumption ==
  \A l \in Limits :
    /\ l.shop \in Shops /\ \A b \in l.shop.booked : b.by = "other"
    /\ IsFiniteSet(l.shop.exceptions) /\ IsFiniteSet(l.exceptions)
    /\ l.keys \subseteq Key /\ ProfileKey \in l.keys /\ l.keys # {ProfileKey}
    /\ "browse" \in l.ops => Browsable(l)
    /\ l.rules \subseteq Rule /\ l.exceptions \subseteq Exception
    /\ l.durations \subseteq Nat \ {0} /\ l.buffers \subseteq Nat /\ l.zones \subseteq Int
    /\ l.count \in Nat /\ l.clicks \in Nat /\ l.faults \in Nat

VARIABLES
  shop,     \* the database: configuration, services, professionals, appointments
  cache,    \* Redis: the entry of each key
  redisUp, circuit,
  handlers,
  begun,    \* requests of visitors and staff
  faults,
  limits

cacheVars == <<shop, cache, redisUp, circuit, handlers, begun, faults, limits>>

Now == 0

\* What an answer is worth comparing: times, or services and professionals.
Response == (SUBSET Int) \cup [services : SUBSET Service, pros : SUBSET Pro]
\* History: old marks a handler that has read rows an edit has since changed, and
\* the entry such a handler wrote.
Idle == [pc |-> "idle", by |-> "nobody", key |-> ProfileKey, seen |-> NoEntry,
         val |-> NoEntry, todo |-> {}, edit |-> "none", old |-> FALSE]

CacheInit ==
  /\ limits \in Limits
  /\ shop = limits.shop
  /\ cache = [k \in limits.keys |-> NoEntry]
  /\ redisUp = TRUE /\ circuit = "closed"
  /\ handlers = [h \in Handler |-> Idle]
  /\ begun = 0 /\ faults = 0

At(h, l) == handlers[h].pc = l
Goto(h, l) == handlers' = [handlers EXCEPT ![h].pc = l]
Fault(kind) == kind \in limits.faulty /\ faults < limits.faults /\ faults' = faults + 1

\* resolveProfessional: without an id, the owner.
proOf(key) == IF key.pro = NoPro THEN Owner ELSE key.pro

--------------------------------------------------------------------------------
(* RedisCacheService                                                       *)

\* A command: skipped while the circuit is open, and opening it when Redis fails.
Reached == circuit = "closed" /\ redisUp
tripCircuit == circuit' = (IF circuit = "closed" /\ ~redisUp THEN "open" ELSE circuit)

\* The cooldown ends: the next command connects again.
Cooldown ==
  /\ circuit = "open" /\ circuit' = "closed"
  /\ UNCHANGED <<shop, cache, redisUp, handlers, begun, faults, limits>>

getJson(h) ==
  /\ At(h, "get") /\ tripCircuit
  /\ LET entry == IF Reached THEN cache[handlers[h].key] ELSE NoEntry
     IN handlers' = IF entry # NoEntry
                    THEN [handlers EXCEPT ![h].pc = "done", ![h].val = entry.val]
                    ELSE [handlers EXCEPT ![h].pc = "tenant"]
  /\ UNCHANGED <<shop, cache, redisUp, begun, faults, limits>>

Entry(h) == [val |-> handlers[h].val, old |-> handlers[h].old, expires |-> TRUE]

\* Mutant: the entry is set without a time to live.
setJson_NoTtl(h) ==
  /\ At(h, "set") /\ tripCircuit /\ Goto(h, "done")
  /\ cache' = IF Reached
              THEN [cache EXCEPT ![handlers[h].key] = [Entry(h) EXCEPT !.expires = FALSE]]
              ELSE cache
  /\ UNCHANGED <<shop, redisUp, begun, faults, limits>>

setJson(h) ==
  /\ At(h, "set") /\ tripCircuit /\ Goto(h, "done")
  /\ cache' = IF Reached THEN [cache EXCEPT ![handlers[h].key] = Entry(h)] ELSE cache
  /\ UNCHANGED <<shop, redisUp, begun, faults, limits>>

Expire(k) ==
  /\ cache[k] # NoEntry /\ cache[k].expires
  /\ cache' = [cache EXCEPT ![k] = NoEntry]
  /\ UNCHANGED <<shop, redisUp, circuit, handlers, begun, faults, limits>>

\* Redis stops answering; it comes back with or without what it held.
RedisStops ==
  /\ redisUp /\ Fault("redis") /\ redisUp' = FALSE
  /\ UNCHANGED <<shop, cache, circuit, handlers, begun, limits>>
RedisReturns ==
  /\ ~redisUp /\ redisUp' = TRUE
  /\ cache' \in {cache, [k \in limits.keys |-> NoEntry]}
  /\ UNCHANGED <<shop, circuit, handlers, begun, faults, limits>>

\* invalidatePublicProfile, then invalidatePublicSlots: SCAN, then DEL of the keys
\* found.  A failure ends the scan.
delProfile(h) ==
  /\ At(h, "delProfile") /\ tripCircuit /\ Goto(h, "scan")
  /\ cache' = IF Reached /\ ProfileKey \in limits.keys
              THEN [cache EXCEPT ![ProfileKey] = NoEntry] ELSE cache
  /\ UNCHANGED <<shop, redisUp, begun, faults, limits>>

scan(h) ==
  /\ At(h, "scan") /\ tripCircuit
  /\ LET found == {k \in limits.keys \ {ProfileKey} : cache[k] # NoEntry}
     IN handlers' = IF Reached /\ found # {}
                    THEN [handlers EXCEPT ![h].pc = "del", ![h].todo = found]
                    ELSE [handlers EXCEPT ![h].pc = "done"]
  /\ UNCHANGED <<shop, cache, redisUp, begun, faults, limits>>

delByPrefix(h) ==
  /\ At(h, "del") /\ tripCircuit
  /\ cache' = IF Reached
              THEN [k \in limits.keys |-> IF k \in handlers[h].todo THEN NoEntry ELSE cache[k]]
              ELSE cache
  /\ handlers' = [handlers EXCEPT ![h].pc = "done", ![h].todo = {}]
  /\ UNCHANGED <<shop, redisUp, begun, faults, limits>>

--------------------------------------------------------------------------------
(* PublicCatalogService                                                    *)

profileOf(s) == [services |-> s.services, pros |-> s.pros]
\* Not found: a service or a professional that is not active, a deleted tenant.
Serves(s, key) ==
  ~s.deleted /\ (key # ProfileKey => key.svc \in s.services /\ proOf(key) \in s.pros)
TooFar(s, day) == day > toDateKey(Now + s.advance * DAY, s.zone)
settingsOf(s, key) ==
  [zone |-> s.zone, step |-> s.step, buffer |-> s.buffer, notice |-> s.notice,
   duration |-> s.duration[key.svc]]

\* A request: of the booking page, or of another visitor.
Ask(h, key, by) ==
  /\ At(h, "idle") /\ key \in limits.keys
  /\ handlers' = [handlers EXCEPT ![h] = [Idle EXCEPT !.pc = "get", !.key = key, !.by = by]]

\* loadPublicProfile, or the first reads of getPublicSlots.
ReadTenant(h) ==
  LET k == handlers[h].key
      to(l, v, s) == handlers' = [handlers EXCEPT ![h].pc = l, ![h].val = v, ![h].seen = s]
  IN /\ At(h, "tenant")
     /\ IF ~Serves(shop, k) THEN to("failed", NoEntry, NoEntry)
        ELSE IF k = ProfileKey THEN to("set", profileOf(shop), NoEntry)
        ELSE IF TooFar(shop, k.day) THEN to("set", {}, NoEntry)
        ELSE to("compute", NoEntry, settingsOf(shop, k))
     /\ UNCHANGED <<shop, cache, redisUp, circuit, begun, faults, limits>>

Compute(h) ==
  LET k == handlers[h].key  s == handlers[h].seen
  IN /\ At(h, "compute")
     /\ \E times \in computeSlotsFor(s, shop, proOf(k), s.duration, k.day, Now) :
          handlers' = [handlers EXCEPT ![h].pc = "set", ![h].val = times, ![h].seen = NoEntry]
     /\ UNCHANGED <<shop, cache, redisUp, circuit, begun, faults, limits>>

Visit(h, key) ==
  /\ "visit" \in limits.ops /\ begun < limits.count /\ begun' = begun + 1
  /\ Ask(h, key, "visitor")
  /\ UNCHANGED <<shop, cache, redisUp, circuit, faults, limits>>

Leave(h) ==
  /\ handlers[h].pc \in {"done", "failed"} /\ handlers[h].by \in {"visitor", "staff"}
  /\ handlers' = [handlers EXCEPT ![h] = Idle]
  /\ UNCHANGED <<shop, cache, redisUp, circuit, begun, faults, limits>>

--------------------------------------------------------------------------------
(* Edits of the shop: each commits, then deletes what it makes stale.      *)

createRule == {[shop EXCEPT !.rules = @ \cup {r}] : r \in {r \in limits.rules : r.start < r.end}}
deleteRule == {[shop EXCEPT !.rules = @ \ {r}] : r \in shop.rules}
\* A closed day keeps no hours; a special one must have them.
createException ==
  {[shop EXCEPT !.exceptions = @ \cup {e}] :
     e \in {e \in limits.exceptions : e.isAvailable => e.start < e.end}}
deleteException == {[shop EXCEPT !.exceptions = @ \ {e}] : e \in shop.exceptions}
\* A service is new, or shown again by an edit; so is a member.
createService == {[shop EXCEPT !.services = @ \cup {v}] : v \in Service \ shop.services}
addMember == {[shop EXCEPT !.pros = @ \cup {p}] : p \in Pro \ shop.pros}
updateService ==
  {[shop EXCEPT !.duration[v] = d] : v \in shop.services, d \in limits.durations}
removeService == {[shop EXCEPT !.services = @ \ {v}] : v \in shop.services}
updateBooking == {[shop EXCEPT !.buffer = b] : b \in limits.buffers}
updateProfile == {[shop EXCEPT !.zone = z] : z \in limits.zones}
removeMember == {[shop EXCEPT !.pros = @ \ {p}] : p \in shop.pros \ {Owner}}
\* The customer of the page keeps its booking; others cancel theirs.
cancel == {[shop EXCEPT !.booked = @ \ {b}] : b \in {b \in shop.booked : b.by = "other"}}
\* Two edits that delete nothing: a deposit nobody paid, the end of an account.
release == cancel
deleteAccount == {[shop EXCEPT !.deleted = TRUE]}

After(edit) ==
  CASE edit = "createRule" -> createRule
    [] edit = "deleteRule" -> deleteRule
    [] edit = "createException" -> createException
    [] edit = "deleteException" -> deleteException
    [] edit = "createService" -> createService
    [] edit = "addMember" -> addMember
    [] edit = "updateService" -> updateService
    [] edit = "removeService" -> removeService
    [] edit = "updateBooking" -> updateBooking
    [] edit = "updateProfile" -> updateProfile
    [] edit = "removeMember" -> removeMember
    [] edit = "cancel" -> cancel
    [] edit = "release" -> release
    [] edit = "deleteAccount" -> deleteAccount
    [] OTHER -> {}

silent == {"release", "deleteAccount"}

\* Mutant: the settings delete only the profile, whose key they know.
FirstDelete_ProfileOnly(edit) ==
  IF edit \in silent THEN "done"
  ELSE IF edit \in {"createRule", "deleteRule", "createException", "deleteException", "cancel", "book"}
       THEN "scan" ELSE "done"

\* Those that change what the profile shows delete it first.
FirstDelete(edit) ==
  IF edit \in silent THEN "done"
  ELSE IF edit \in {"createService", "updateService", "removeService", "updateBooking",
                    "updateProfile", "addMember", "removeMember"}
       THEN "delProfile" ELSE "scan"

Reading(h) == handlers[h].pc \in {"compute", "set"}
\* A commit makes old whatever has been read.
Committed(h, record) ==
  handlers' = [g \in Handler |-> IF g = h THEN record
                                 ELSE [handlers[g] EXCEPT !.old = @ \/ Reading(g)]]

Edit(h, edit) ==
  /\ edit \in limits.ops /\ begun < limits.count /\ At(h, "idle") /\ ~shop.deleted
  /\ shop' \in After(edit) /\ shop' # shop /\ begun' = begun + 1
  /\ Committed(h, [Idle EXCEPT !.pc = FirstDelete(edit), !.by = "staff", !.edit = edit])
  /\ UNCHANGED <<cache, redisUp, circuit, faults, limits>>

\* The next step of a request that has begun.
Serve(h) ==
  \/ getJson(h) \/ setJson(h) \/ delProfile(h) \/ scan(h) \/ delByPrefix(h)
  \/ ReadTenant(h) \/ Compute(h) \/ Leave(h)

Expires == \E k \in limits.keys : Expire(k)

CacheStep ==
  \/ \E h \in Handler :
       \/ Serve(h)
       \/ \E k \in limits.keys : Visit(h, k)
       \/ \E e \in limits.ops : Edit(h, e)
  \/ Expires \/ Cooldown \/ RedisStops \/ RedisReturns

--------------------------------------------------------------------------------

\* The answers a request would compute now.
Answers(key) ==
  IF key = ProfileKey THEN {profileOf(shop)}
  ELSE IF TooFar(shop, key.day) THEN {{}}
  ELSE computeSlotsFor(settingsOf(shop, key), shop, proOf(key), shop.duration[key.svc], key.day, Now)

Stale(key) ==
  cache[key] # NoEntry /\ (Serves(shop, key) => cache[key].val \notin Answers(key))
================================================================================
