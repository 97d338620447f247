--------------------------- MODULE CaptainPresence ---------------------------
(***************************************************************************)
(* Where the captains are: the GEO set and its metadata in Redis, which    *)
(* setCaptainStatus, captain:location, the disconnect handler and          *)
(* getNearbyCaptains write, and the captain page's watch on the position.  *)
(* Page, socket and status are those of CaptainLink. Commands of the one   *)
(* Redis connection run in the order they are sent.                        *)
(* A time is kept as its age, in units of which MaxAge make two minutes.   *)
(***************************************************************************)
EXTENDS CaptainLink, Sequences, FiniteSets

CONSTANTS
  MaxAge,
  Skews,           \* how old a captain's clock makes a new timestamp look
  MaxReports       \* bound on the positions of a captain handled at one time

ASSUME PresenceAssumption ==
  /\ MaxAge \in Nat \ {0}
  /\ Skews \subseteq {k \in Int : -MaxAge < k /\ k + 3 <= MaxAge}
  /\ MaxReports \in Nat

VARIABLES
  geo, meta,       \* Redis: captain_locations, captain_location_meta
  redisReady,
  resolving,       \* positions received, before the check of the timestamp
  writes,          \* positions checked, before the write to Redis
  search, offered, \* getNearbyCaptains, and what the last call returned
  skew,
  silent           \* history: how long ago a captain was last heard from

places == <<geo, meta>>
moves  == <<resolving, writes>>
finds  == <<search, offered>>
vars == <<linkVars, places, redisReady, moves, finds, skew, silent>>

None == MaxAge + 2
Ages == (-MaxAge .. MaxAge + 1) \cup {None}
Positions == [captain : Captains, age : Ages \ {None}]

(* How far a captain's clock is ahead.                                     *)
Lead(c) == IF skew[c] < 0 THEN -skew[c] ELSE 0

(* Bound: as long ago as that, or never.                                   *)
Unheard(c) == MaxAge + Lead(c) + 1
NoSearch == [step |-> "idle", near |-> {}, stale |-> {}]

TypeOK ==
  /\ LinkType
  /\ geo \subseteq Captains /\ meta \in [Captains -> Ages]
  /\ redisReady \in BOOLEAN
  /\ resolving \subseteq Positions /\ writes \in Seq(Positions)
  /\ search \in [step : {"idle", "meta", "clean"},
                 near : SUBSET Captains, stale : SUBSET Captains]
  /\ offered \subseteq Captains /\ skew \in [Captains -> Skews]
  /\ silent \in [Captains -> Nat]

Init ==
  /\ LinkInit
  /\ geo = {} /\ meta = [c \in Captains |-> None] /\ redisReady = TRUE
  /\ resolving = {} /\ writes = <<>> /\ search = NoSearch /\ offered = {}
  /\ skew \in [Captains -> Skews] /\ silent = [c \in Captains |-> Unheard(c)]

Place(c, age) == geo' = geo \cup {c} /\ meta' = [meta EXCEPT ![c] = age]
Remove(C) == /\ geo' = geo \ C
             /\ meta' = [c \in Captains |-> IF c \in C THEN None ELSE meta[c]]
RemoveIfReady(C) == IF redisReady THEN Remove(C) ELSE UNCHANGED places

(* The captain is at work: the page is online and connected, shows no ride *)
(* and waits for no answer, and the database has the captain AVAILABLE.    *)
Working(c) ==
  /\ online[c] /\ link[c] /\ ~named[c] /\ toggle[c] = "idle"
  /\ available[c]

-----------------------------------------------------------------------------
(* The switch and the socket                                               *)

(* The position that goes with the request, if the page has one, carries   *)
(* the server's time. The two writes are not a transaction: when Redis     *)
(* fails between them, one is made.                                        *)
Register(c) ==
  /\ Registered(c)
  /\ \/ redisReady /\ Place(c, 0)
     \/ UNCHANGED places
     \/ redisReady /\ FaultsAllowed /\ geo' = geo \cup {c} /\ UNCHANGED meta
     \/ redisReady /\ FaultsAllowed /\ meta' = [meta EXCEPT ![c] = 0] /\ UNCHANGED geo
  /\ silent' = [silent EXCEPT ![c] = 0]
  /\ UNCHANGED <<redisReady, moves, finds, skew>>

(* The two removals are no transaction either.                             *)
Unregister(c) ==
  /\ Unregistered(c)
  /\ \/ RemoveIfReady({c})
     \/ FaultsAllowed /\ UNCHANGED places
     \/ redisReady /\ FaultsAllowed /\ geo' = geo \ {c} /\ UNCHANGED meta
     \/ redisReady /\ FaultsAllowed /\ meta' = [meta EXCEPT ![c] = None] /\ UNCHANGED geo
  /\ UNCHANGED <<redisReady, moves, finds, skew, silent>>

(* The disconnect handler: the position goes at once, unawaited.           *)
Notice(c) ==
  /\ Noticed(c)
  /\ RemoveIfReady({c})
  /\ UNCHANGED <<redisReady, moves, finds, skew, silent>>

Page(c) == PageStep(c) /\ UNCHANGED <<places, redisReady, moves, finds, skew, silent>>

-----------------------------------------------------------------------------
(* captain:location                                                        *)

(* The watch on the position. Without Redis the server returns at once; a  *)
(* position that names a ride is dropped when the ride is not the          *)
(* captain's, or not any more.                                             *)
(* Bound: MaxReports while the captain is at work, one otherwise.          *)
Room(c) ==
  Cardinality(resolving) + Len(writes) < IF Working(c) /\ ghosts[c] = 0
                                           THEN MaxReports ELSE 1

Report(c) ==
  /\ online[c] /\ link[c]
  /\ silent' = [silent EXCEPT ![c] = 0]
  /\ \/ /\ redisReady /\ Room(c)
        /\ resolving' = resolving \cup {[captain |-> c, age |-> skew[c]]}
     \/ (~redisReady \/ named[c]) /\ UNCHANGED resolving
  /\ UNCHANGED <<linkVars, places, redisReady, writes, finds, skew>>

(* A position that is not newer than the stored one is dropped.            *)
Check(p) ==
  /\ p \in resolving
  /\ resolving' = resolving \ {p}
  /\ writes' = IF \/ meta[p.captain] # None /\ p.age >= meta[p.captain]
                  \/ ~redisReady
                 THEN writes ELSE Append(writes, p)
  /\ UNCHANGED <<linkVars, places, redisReady, finds, skew, silent>>

Write_MetaOnly ==
  /\ writes # <<>>
  /\ LET p == Head(writes) IN
       IF redisReady THEN meta' = [meta EXCEPT ![p.captain] = p.age] /\ UNCHANGED geo
                     ELSE UNCHANGED places
  /\ writes' = Tail(writes)
  /\ UNCHANGED <<linkVars, redisReady, resolving, finds, skew, silent>>

Write_ServerTime ==
  /\ writes # <<>>
  /\ IF redisReady THEN Place(Head(writes).captain, 0) ELSE UNCHANGED places
  /\ writes' = Tail(writes)
  /\ UNCHANGED <<linkVars, redisReady, resolving, finds, skew, silent>>

Write ==
  /\ writes # <<>>
  /\ LET p == Head(writes) IN
       IF redisReady THEN Place(p.captain, p.age) ELSE UNCHANGED places
  /\ writes' = Tail(writes)
  /\ UNCHANGED <<linkVars, redisReady, resolving, finds, skew, silent>>

-----------------------------------------------------------------------------
(* getNearbyCaptains, of a ride near the captains                          *)

SearchGeo ==
  /\ search.step = "idle" /\ redisReady
  /\ search' = [step |-> IF geo = {} THEN "clean" ELSE "meta", near |-> geo,
                stale |-> {}]
  /\ UNCHANGED <<linkVars, places, redisReady, moves, offered, skew,
                 silent>>

Stale(c) == meta[c] = None \/ meta[c] > MaxAge

SearchMeta_NoAge ==
  /\ search.step = "meta" /\ redisReady
  /\ search' = [search EXCEPT !.step = "clean"]
  /\ UNCHANGED <<linkVars, places, redisReady, moves, offered, skew,
                 silent>>

SearchMeta ==
  /\ search.step = "meta" /\ redisReady
  /\ search' = [search EXCEPT !.step = "clean",
                               !.stale = {c \in search.near : Stale(c)}]
  /\ UNCHANGED <<linkVars, places, redisReady, moves, offered, skew,
                 silent>>

(* Whoever was stale is removed, also one who has reported since; of the   *)
(* others, the AVAILABLE ones are offered the ride. (In production:        *)
(* elsewhere, when nobody near is fresh, every AVAILABLE captain is.)      *)
Fresh == search.near \ search.stale
CleanUp_MetaOnly ==
  /\ search.step = "clean"
  /\ meta' = [c \in Captains |-> IF c \in search.stale THEN None ELSE meta[c]]
  /\ offered' = {c \in Fresh : available[c]}
  /\ search' = NoSearch
  /\ UNCHANGED <<linkVars, geo, redisReady, moves, skew, silent>>

CleanUp ==
  /\ search.step = "clean"
  /\ RemoveIfReady(search.stale)
  /\ offered' = {c \in Fresh : available[c]}
  /\ search' = NoSearch
  /\ UNCHANGED <<linkVars, redisReady, moves, skew, silent>>

(* Without Redis the search throws.                                        *)
SearchThrows ==
  /\ ~redisReady /\ search.step \in {"idle", "meta"}
  /\ offered' = {} /\ search' = NoSearch
  /\ UNCHANGED <<linkVars, places, redisReady, moves, skew, silent>>

-----------------------------------------------------------------------------
(* Redis and time                                                          *)

(* Redis goes, and comes back with its data or without.                    *)
RedisFails ==
  /\ FaultsAllowed
  /\ redisReady' = ~redisReady
  /\ UNCHANGED places \/ Remove(Captains)
  /\ UNCHANGED <<linkVars, moves, finds, skew, silent>>

Older(age) == IF age > MaxAge THEN age ELSE age + 1

(* A unit of time. A handler takes less than one; a page that is online    *)
(* and connected reports at least once in one.                             *)
Tick ==
  /\ \A p \in resolving : p.age = skew[p.captain]
  /\ \A i \in 1 .. Len(writes) : writes[i].age = skew[writes[i].captain]
  /\ \A c \in Captains : online[c] /\ link[c] => silent[c] = 0
  /\ meta' = [c \in Captains |-> Older(meta[c])]
  /\ resolving' = {[p EXCEPT !.age = Older(@)] : p \in resolving}
  /\ writes' = [i \in 1 .. Len(writes) |-> [writes[i] EXCEPT !.age = Older(@)]]
  /\ silent' = [c \in Captains |->
                  IF silent[c] = Unheard(c) THEN silent[c] ELSE silent[c] + 1]
  /\ UNCHANGED <<linkVars, geo, redisReady, finds, skew>>

Search == SearchMeta \/ CleanUp \/ SearchThrows

Next ==
  \/ \E c \in Captains :
       Page(c) \/ Register(c) \/ Unregister(c) \/ Notice(c) \/ Report(c)
  \/ \E p \in resolving : Check(p)
  \/ Write \/ SearchGeo \/ Search \/ RedisFails \/ Tick

(* Requests are answered, the server finds a connection gone by its ping   *)
(* timeout, and time passes. Nobody is bound to search, to report, to      *)
(* touch the switch or to reconnect: a socket gives up after ten attempts. *)
Fairness ==
  /\ \A c \in Captains :
       /\ WF_vars(Register(c)) /\ WF_vars(Unregister(c)) /\ WF_vars(Notice(c))
  /\ \A p \in Positions : WF_vars(Check(p))
  /\ WF_vars(Write) /\ WF_vars(Search) /\ WF_vars(Tick)

Spec == Init /\ [][Next]_vars /\ Fairness

-----------------------------------------------------------------------------
(* Properties                                                              *)

SearchesGoOn == []<>(search.step # "idle")

(* No stored position is younger than its captain's last word, and none    *)
(* under way could make one so, whichever is written last                  *)
(* (socket.ts:177-203): PresentIsHeard rests on this.                      *)
Heard(c, age) == age <= MaxAge => silent[c] <= age + Lead(c)
HeardInv ==
  /\ \A c \in Captains : Heard(c, meta[c])
  /\ \A p \in resolving : Heard(p.captain, p.age)
  /\ \A i \in 1 .. Len(writes) : Heard(writes[i].captain, writes[i].age)

PresenceInv == TypeOK /\ HeardInv

(* A search takes for present only a captain who was heard from in the     *)
(* last two minutes, give or take what the captain's clock is ahead,       *)
(* however late the positions were written, and whichever of them was      *)
(* written last (matching.service.ts:28-56, socket.ts:177-203).            *)
PresentIsHeard ==
  [][search.step = "meta" /\ search'.step = "clean" =>
       \A c \in search'.near \ search'.stale : silent[c] <= MaxAge + Lead(c)]_vars

(* A position loses its metadata in setCaptainStatus only                  *)
(* (captain.service.ts:49-72), whose two writes may fail one by one: the   *)
(* searches, the positions and the disconnects keep the two together.      *)
Torn(c) == c \in geo /\ meta[c] = None
TornBySwitchOnly ==
  [][\A c \in Captains : Torn(c)' => Torn(c) \/ toggle[c] \in {"register", "unregister"}]_vars

(* A captain at work (AVAILABLE, and online: CaptainSwitch says who is not *)
(* both) whose page keeps reporting is found again and again by searches   *)
(* that go on: an older position written last, a clock that is wrong and   *)
(* the unconditional clean-up of stale captains cost a search, never the   *)
(* captain (matching.service.ts:28-64, socket.ts:177-203). The two minutes *)
(* must leave room for three delays: of the handler, of the next report,   *)
(* and of the older position that replaced the newer one.                  *)
FoundAgain ==
  \A c \in Captains :
    SearchesGoOn /\ <>[](redisReady /\ Working(c)) /\ []<>(silent[c] = 0)
      => []<>(c \in offered)

(* A captain who is gone is in the end not offered rides any more, whether *)
(* or not the disconnect handler ran, found Redis, or met a position that  *)
(* was still being written (socket.ts:218-245).                            *)
GoneNotOffered ==
  \A c \in Captains :
    SearchesGoOn /\ <>[](~link[c] /\ toggle[c] = "idle") => <>[](c \notin offered)

(* A position without metadata, which a failure between the two writes of  *)
(* setCaptainStatus leaves (captain.service.ts:49-63), is repaired by the  *)
(* searches that find it.                                                  *)
TornRepaired ==
  \A c \in Captains :
    SearchesGoOn /\ <>[]redisReady => []<>(~Torn(c))
=============================================================================
