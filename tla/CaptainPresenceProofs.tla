------------------------- MODULE CaptainPresenceProofs -------------------------
(***************************************************************************)
(* Proofs about CaptainPresence, for every set of captains, every clock    *)
(* and any number of positions under way, with or without faults: a search *)
(* takes nobody for present who was not heard from, and only the switch    *)
(* tears a position from its metadata.                                     *)
(***************************************************************************)
EXTENDS CaptainPresence, TLAPS

(* A position that has aged is one still, of the same captain.             *)
LEMMA Ageing ==
  ASSUME NEW p \in Positions
  PROVE  /\ [p EXCEPT !.age = Older(@)] \in Positions
         /\ [p EXCEPT !.age = Older(@)].captain = p.captain
         /\ [p EXCEPT !.age = Older(@)].age = Older(p.age)
BY PresenceAssumption DEF Positions, Ages, None, Older

(* Ages and the skews of the clocks are ages again.                       *)
LEMMA AgeType ==
  /\ \A age \in Ages : Older(age) \in Ages
  /\ \A k \in Skews : k \in Ages \ {None}
  /\ 0 \in Ages \ {None}
BY PresenceAssumption DEF Ages, None, Older

(* A captain's silence grows by a unit at most, and only as time passes.   *)
LEMMA SilenceStep ==
  ASSUME TypeOK, [Next]_vars
  PROVE  /\ silent' \in [Captains -> Nat]
         /\ \A c \in Captains : silent'[c] <= silent[c] + 1
         /\ ~Tick => \A c \in Captains : silent'[c] <= silent[c]
<1>0. silent \in [Captains -> Nat]
  BY DEF TypeOK
<1>1. CASE Tick
  <2>1. silent' = [c \in Captains |->
                     IF silent[c] = Unheard(c) THEN silent[c] ELSE silent[c] + 1]
    BY <1>1 DEF Tick
  <2>2. \A c \in Captains : silent'[c] \in Nat /\ silent'[c] <= silent[c] + 1
    BY <1>0, <2>1
  <2> QED BY <1>1, <2>1, <2>2
<1>2. ASSUME NEW d \in Captains, silent' = [silent EXCEPT ![d] = 0]
      PROVE  /\ silent' \in [Captains -> Nat]
             /\ \A c \in Captains : silent'[c] <= silent[c]
  BY <1>0, <1>2
<1>3. \/ Tick \/ UNCHANGED silent
      \/ \E d \in Captains : silent' = [silent EXCEPT ![d] = 0]
  BY DEF Next, Page, Register, Unregister, Notice, Report, Check, Write, SearchGeo, Search,
         SearchMeta, CleanUp, SearchThrows, RedisFails, vars
<1> QED BY <1>0, <1>1, <1>2, <1>3

(* A function on the first n numbers is a sequence of n elements.          *)
LEMMA FunctionIsSeq ==
  ASSUME NEW S, NEW n \in Nat, NEW f \in [1 .. n -> S]
  PROVE  f \in Seq(S) /\ Len(f) = n
OBVIOUS

(* What becomes of the positions checked: one more, one less, or all aged. *)
LEMMA WritesStep ==
  ASSUME TypeOK, [Next]_vars
  PROVE  /\ writes' \in Seq(Positions)
         /\ \/ UNCHANGED writes /\ \A c \in Captains : silent'[c] <= silent[c]
            \/ \E p \in resolving : writes' = Append(writes, p) /\ UNCHANGED silent
            \/ writes # <<>> /\ writes' = Tail(writes) /\ UNCHANGED silent
            \/ /\ Len(writes') = Len(writes)
               /\ \A i \in 1 .. Len(writes) :
                    writes'[i] = [writes[i] EXCEPT !.age = Older(@)]
<1> USE DEF TypeOK
<1>1. CASE Tick
  <2>1. writes' = [i \in 1 .. Len(writes) |-> [writes[i] EXCEPT !.age = Older(@)]]
    BY <1>1 DEF Tick
  <2>2. \A i \in 1 .. Len(writes) : [writes[i] EXCEPT !.age = Older(@)] \in Positions
    BY Ageing
  <2>3. Len(writes) \in Nat /\ writes' \in [1 .. Len(writes) -> Positions]
    BY <2>1, <2>2
  <2>4. writes' \in Seq(Positions) /\ Len(writes') = Len(writes)
    BY <2>3, FunctionIsSeq
  <2> QED BY <2>1, <2>4
<1>2. ASSUME NEW p \in resolving, Check(p)
      PROVE  UNCHANGED silent /\ writes' \in {writes, Append(writes, p)}
  BY <1>2 DEF Check
<1>3. CASE Write
  BY <1>3 DEF Write
<1>4. CASE ~Tick /\ UNCHANGED writes
  BY <1>4, SilenceStep
<1>5. /\ \A p \in resolving : Append(writes, p) \in Seq(Positions)
      /\ writes # <<>> => Tail(writes) \in Seq(Positions)
  OBVIOUS
<1>7. \/ Tick \/ Write \/ UNCHANGED writes \/ \E p \in resolving : Check(p)
  BY DEF Next, Page, Register, Unregister, Notice, Report, SearchGeo, Search, SearchMeta,
         CleanUp, SearchThrows, RedisFails, moves, vars
<1> QED BY <1>1, <1>2, <1>3, <1>4, <1>5, <1>7

(* What becomes of the positions received.                                 *)
LEMMA ResolvingStep ==
  ASSUME TypeOK, [Next]_vars, NEW p \in resolving'
  PROVE  \/ p \in resolving /\ \A c \in Captains : silent'[c] <= silent[c]
         \/ \E c \in Captains : p = [captain |-> c, age |-> skew[c]] /\ silent'[c] = 0
         \/ \E o \in resolving : p = [o EXCEPT !.age = Older(@)]
<1>1. CASE Tick
  BY <1>1 DEF Tick
<1>2. ASSUME NEW c \in Captains, Report(c)
      PROVE  \/ p \in resolving
             \/ p = [captain |-> c, age |-> skew[c]] /\ silent'[c] = 0
  <2>1. p \in resolving \/ p = [captain |-> c, age |-> skew[c]]
    BY <1>2 DEF Report
  <2>2. silent' = [silent EXCEPT ![c] = 0] /\ silent \in [Captains -> Nat]
    BY <1>2 DEF Report, TypeOK
  <2> QED BY <2>1, <2>2
<1>3. ASSUME NEW o \in resolving, Check(o)
      PROVE  p \in resolving
  BY <1>3 DEF Check
<1>4. \/ Tick \/ UNCHANGED resolving
      \/ \E o \in resolving : Check(o)
      \/ \E c \in Captains : Report(c)
  BY DEF Next, Page, Register, Unregister, Notice, Write, SearchGeo, Search, SearchMeta,
         CleanUp, SearchThrows, RedisFails, moves, vars
<1>5. Tick \/ \A c \in Captains : silent'[c] <= silent[c]
  BY SilenceStep
<1> QED BY <1>1, <1>2, <1>3, <1>4, <1>5

(* What becomes of a captain's metadata: kept, gone, or written by the     *)
(* switch or by a position, or aged.                                       *)
LEMMA MetaStep ==
  ASSUME TypeOK, [Next]_vars
  PROVE  /\ meta' \in [Captains -> Ages]
         /\ \A c \in Captains :
              \/ meta'[c] = meta[c] /\ silent'[c] <= silent[c]
              \/ meta'[c] = None
              \/ meta'[c] = 0 /\ silent'[c] = 0
              \/ /\ writes # <<>> /\ UNCHANGED silent
                 /\ meta'[c] = Head(writes).age /\ Head(writes).captain = c
              \/ meta'[c] = Older(meta[c])
<1>0. meta \in [Captains -> Ages] /\ silent \in [Captains -> Nat] /\ 0 \in Ages
      /\ None \in Ages
  BY AgeType DEF TypeOK, Ages
<1>1. CASE Tick
  BY <1>0, <1>1, AgeType DEF Tick
<1>2. CASE Write
  <2>1. writes # <<>> /\ Head(writes) \in Positions /\ UNCHANGED silent
    BY <1>2 DEF Write, TypeOK
  <2>2. UNCHANGED meta \/ meta' = [meta EXCEPT ![Head(writes).captain] = Head(writes).age]
    BY <1>2 DEF Write, Place, places
  <2>3. Head(writes).captain \in Captains /\ Head(writes).age \in Ages
    BY <2>1 DEF Positions
  <2>4. \A c \in Captains : silent'[c] <= silent[c]
    BY <1>0, <2>1
  <2> QED BY <1>0, <2>1, <2>2, <2>3, <2>4
<1>3. ASSUME NEW d \in Captains, Register(d)
      PROVE  /\ meta' \in [Captains -> Ages]
             /\ \A c \in Captains : \/ meta'[c] = meta[c]
                                    \/ meta'[c] = 0 /\ silent'[c] = 0
  <2>1. UNCHANGED meta \/ meta' = [meta EXCEPT ![d] = 0]
    BY <1>3 DEF Register, Place, places
  <2>2. silent' = [silent EXCEPT ![d] = 0]
    BY <1>3 DEF Register
  <2>3. ASSUME meta' = [meta EXCEPT ![d] = 0]
        PROVE  /\ meta' \in [Captains -> Ages]
               /\ \A c \in Captains : c # d => meta'[c] = meta[c]
               /\ meta'[d] = 0 /\ silent'[d] = 0
    BY <1>0, <2>2, <2>3
  <2> QED BY <1>0, <2>1, <2>3
<1>4. ASSUME NEW C, Remove(C)
      PROVE  /\ meta' \in [Captains -> Ages]
             /\ \A c \in Captains : meta'[c] \in {meta[c], None}
  BY <1>0, <1>4 DEF Remove, Ages
<1>5. ASSUME NEW d \in Captains, meta' = [meta EXCEPT ![d] = None]
      PROVE  /\ meta' \in [Captains -> Ages]
             /\ \A c \in Captains : meta'[c] \in {meta[c], None}
  BY <1>0, <1>5
<1>6. \/ Tick \/ Write \/ UNCHANGED meta \/ \E C : Remove(C)
      \/ \E d \in Captains : Register(d) \/ meta' = [meta EXCEPT ![d] = None]
  BY DEF Next, Page, Unregister, Notice, Report, Check, SearchGeo, Search, SearchMeta, CleanUp,
         SearchThrows, RedisFails, RemoveIfReady, places, vars
<1>7. Tick \/ \A c \in Captains : silent'[c] <= silent[c]
  BY SilenceStep
<1> QED BY <1>0, <1>1, <1>2, <1>3, <1>4, <1>5, <1>6, <1>7

-----------------------------------------------------------------------------
(* The types                                                               *)

(* A position that is written is one of a captain.                         *)
LEMMA GeoStep ==
  ASSUME TypeOK, [Next]_vars
  PROVE  geo' \subseteq Captains
<1>0. geo \subseteq Captains
  BY DEF TypeOK
<1>1. CASE Write
  <2>1. writes # <<>> => Head(writes) \in Positions
    BY DEF TypeOK
  <2> QED BY <1>0, <1>1, <2>1 DEF Write, Place, places, Positions
<1>2. \/ Write \/ geo' \subseteq geo \/ \E d \in Captains : geo' = geo \cup {d}
  BY DEF Next, Page, Register, Unregister, Notice, Report, Check, SearchGeo, Search,
         SearchMeta, CleanUp, SearchThrows, RedisFails, Tick, RemoveIfReady, Remove,
         Place, places, vars
<1> QED BY <1>0, <1>1, <1>2

(* The positions received keep their type, and the clocks stand.           *)
LEMMA ReceivedType ==
  ASSUME TypeOK, [Next]_vars
  PROVE  resolving' \subseteq Positions /\ skew' = skew
<1>0. /\ resolving \subseteq Positions
      /\ \A c \in Captains : [captain |-> c, age |-> skew[c]] \in Positions
  BY AgeType DEF TypeOK, Positions
<1>1. \A p \in resolving : [p EXCEPT !.age = Older(@)] \in Positions
  BY <1>0, Ageing
<1>2. ASSUME NEW p \in resolving' PROVE p \in Positions
  BY <1>0, <1>1, ResolvingStep
<1>3. skew' = skew
  BY DEF Next, Page, Register, Unregister, Notice, Report, Check, Write, SearchGeo, Search,
         SearchMeta, CleanUp, SearchThrows, RedisFails, Tick, vars
<1> QED BY <1>2, <1>3

(* So does the search.                                                     *)
LEMMA SearchType ==
  ASSUME TypeOK, [Next]_vars
  PROVE  /\ search' \in [step : {"idle", "meta", "clean"},
                         near : SUBSET Captains, stale : SUBSET Captains]
         /\ offered' \subseteq Captains /\ redisReady' \in BOOLEAN
<1>1. CASE SearchGeo \/ SearchThrows
  BY <1>1 DEF TypeOK, SearchGeo, SearchThrows, NoSearch
<1>2. CASE SearchMeta
  BY <1>2 DEF TypeOK, SearchMeta
<1>3. CASE CleanUp
  BY <1>3 DEF TypeOK, CleanUp, NoSearch, Fresh
<1>4. CASE RedisFails
  BY <1>4 DEF TypeOK, RedisFails, finds
<1>5. CASE UNCHANGED <<search, offered, redisReady>>
  BY <1>5 DEF TypeOK
<1>6. \/ SearchGeo \/ SearchThrows \/ SearchMeta \/ CleanUp \/ RedisFails
      \/ UNCHANGED <<search, offered, redisReady>>
  BY DEF Next, Page, Register, Unregister, Notice, Report, Check, Write, Search, Tick,
         finds, vars
<1> QED BY <1>1, <1>2, <1>3, <1>4, <1>5, <1>6

(* So do the pages, their sockets and the status of the captains.         *)
LEMMA LinkStep ==
  ASSUME LinkType, [LinkNext]_linkVars
  PROVE  LinkType'
<1> USE DEF LinkType
<1>1. ASSUME NEW d \in Captains, WriteStatus(d) PROVE LinkType'
  BY <1>1 DEF WriteStatus, screen, socket
<1>2. ASSUME NEW d \in Captains, Registered(d) PROVE LinkType'
  BY <1>2 DEF Registered, socket
<1>3. ASSUME NEW d \in Captains, Unregistered(d) PROVE LinkType'
  <2>1. /\ online' \in [Captains -> BOOLEAN]
        /\ toggle' \in [Captains -> {"idle", "register", "unregister"}]
        /\ UNCHANGED <<available, named>>
    BY <1>3 DEF Unregistered, socket
  <2>2. CASE UNCHANGED <<link, ghosts>>
    BY <2>1, <2>2
  <2>3. CASE ghosts[d] = 0 /\ Close(d)
    BY <2>1, <2>3 DEF Close
  <2> QED BY <1>3, <2>2, <2>3 DEF Unregistered, socket
<1>4. ASSUME NEW d \in Captains, Connect(d) PROVE LinkType'
  BY <1>4 DEF Connect, screen
<1>5. ASSUME NEW d \in Captains, Drop(d) PROVE LinkType'
  BY <1>5 DEF Drop, Close, screen
<1>6. ASSUME NEW d \in Captains, Noticed(d) PROVE LinkType'
  BY <1>6 DEF Noticed, screen
<1>7. ASSUME NEW d \in Captains, Withdrawn(d) PROVE LinkType'
  BY <1>7 DEF Withdrawn, screen, socket
<1>8. ASSUME NEW d \in Captains, RideShown(d) PROVE LinkType'
  BY <1>8 DEF RideShown, socket
<1>9. ASSUME NEW d \in Captains, Released(d) PROVE LinkType'
  BY <1>9 DEF Released, socket
<1>10. ASSUME NEW d \in Captains, Reloaded(d) PROVE LinkType'
  BY <1>10 DEF Reloaded, Close
<1>11. CASE UNCHANGED linkVars
  BY <1>11 DEF linkVars, screen, socket
<1> QED BY <1>1, <1>2, <1>3, <1>4, <1>5, <1>6, <1>7, <1>8, <1>9, <1>10, <1>11
        DEF LinkNext, PageStep

(* Every step of the positions is one of the page, or leaves the page be.  *)
LEMMA StepOfPage ==
  [Next]_vars => [LinkNext]_linkVars
<1>1. ASSUME NEW c \in Captains, Page(c) \/ Register(c) \/ Unregister(c) \/ Notice(c)
      PROVE  LinkNext
  BY <1>1 DEF Page, Register, Unregister, Notice, LinkNext
<1>2. \/ UNCHANGED linkVars
      \/ \E c \in Captains : Page(c) \/ Register(c) \/ Unregister(c) \/ Notice(c)
      \/ ~[Next]_vars
  BY DEF Next, Report, Check, Write, SearchGeo, Search, SearchMeta, CleanUp, SearchThrows,
         RedisFails, Tick, vars
<1> QED BY <1>1, <1>2

-----------------------------------------------------------------------------
(* What is under way was reported                                          *)

(* Every step keeps the types.                                            *)
LEMMA TypeStep ==
  ASSUME TypeOK, [Next]_vars
  PROVE  TypeOK'
<1>1. LinkType'
  BY LinkStep, StepOfPage DEF TypeOK
<1>2. skew' \in [Captains -> Skews]
  BY ReceivedType DEF TypeOK
<1> QED BY <1>1, <1>2, GeoStep, MetaStep, WritesStep, SilenceStep, ReceivedType, SearchType
        DEF TypeOK

(* A captain's clock is no further ahead than its lead.                    *)
LEMMA LeadIs ==
  ASSUME TypeOK, NEW c \in Captains
  PROVE  skew[c] \in Int /\ Lead(c) \in Nat /\ 0 <= skew[c] + Lead(c)
<1>1. skew[c] \in Skews
  BY DEF TypeOK
<1>2. skew[c] \in Int
  BY <1>1, PresenceAssumption
<1> QED BY <1>2 DEF Lead

(* Heard outlives a step in which the age keeps pace with the silence.     *)
LEMMA HeardStep ==
  ASSUME TypeOK, [Next]_vars, NEW c \in Captains, NEW age \in Ages, Heard(c, age),
         NEW older, \/ older = Older(age)
                    \/ older = age /\ silent'[c] <= silent[c]
  PROVE  older <= MaxAge => silent'[c] <= older + Lead(c)
<1>1. MaxAge \in Int /\ age \in Int
  BY PresenceAssumption DEF Ages, None
<1>2. silent \in [Captains -> Nat] /\ silent' \in [Captains -> Nat]
  BY SilenceStep DEF TypeOK
<1>3. silent[c] \in Int /\ silent'[c] \in Int /\ Lead(c) \in Int
  BY <1>1, <1>2, LeadIs
<1> QED BY <1>1, <1>3, SilenceStep DEF Heard, Older

(* No step makes a position look fresher than its captain's last word.     *)
LEMMA HeardInvStep ==
  ASSUME TypeOK, HeardInv, [Next]_vars
  PROVE  HeardInv'
<1>1. \A c \in Captains : Lead(c)' = Lead(c) /\ Lead(c) \in Nat
  BY LeadIs, ReceivedType DEF Lead
<1>2. \A p \in Positions : p.captain \in Captains /\ p.age \in Ages
  BY DEF Positions
<1>3. ASSUME NEW p \in Positions, Heard(p.captain, p.age),
             \A c \in Captains : silent'[c] <= silent[c]
      PROVE  Heard(p.captain, p.age)'
  BY <1>1, <1>2, <1>3, HeardStep DEF Heard
<1>4. ASSUME NEW p \in Positions, Heard(p.captain, p.age),
             NEW q, q = [p EXCEPT !.age = Older(@)]
      PROVE  q.age <= MaxAge => silent'[q.captain] <= q.age + Lead(q.captain)
  BY <1>2, <1>4, Ageing, HeardStep
<1>5. /\ \A p \in resolving : p \in Positions /\ Heard(p.captain, p.age)
      /\ \A i \in 1 .. Len(writes) :
           writes[i] \in Positions /\ Heard(writes[i].captain, writes[i].age)
  BY DEF TypeOK, HeardInv
<1>6. ASSUME NEW c \in Captains PROVE Heard(c, meta[c])'
  <2>1. meta[c] \in Ages /\ Heard(c, meta[c])
    BY DEF TypeOK, HeardInv
  <2>2. CASE meta'[c] = Older(meta[c]) \/ (meta'[c] = meta[c] /\ silent'[c] <= silent[c])
    BY <1>1, <2>1, <2>2, HeardStep DEF Heard
  <2>3. CASE meta'[c] = None
    BY <2>3, PresenceAssumption DEF Heard, None
  <2>4. CASE meta'[c] = 0 /\ silent'[c] = 0
    BY <1>1, <2>4 DEF Heard
  <2>5. CASE /\ writes # <<>> /\ UNCHANGED silent
             /\ meta'[c] = Head(writes).age /\ Head(writes).captain = c
    <3>1. 1 \in 1 .. Len(writes) /\ Head(writes) = writes[1]
      BY <2>5 DEF TypeOK
    <3>2. Heard(c, Head(writes).age)
      BY <1>5, <2>5, <3>1
    <3> QED BY <1>1, <2>5, <3>2 DEF Heard
  <2> QED BY <2>2, <2>3, <2>4, <2>5, MetaStep
<1>7. ASSUME NEW p \in resolving' PROVE Heard(p.captain, p.age)'
  <2>1. CASE p \in resolving /\ \A c \in Captains : silent'[c] <= silent[c]
    BY <1>3, <1>5, <2>1
  <2>2. ASSUME NEW c \in Captains, p = [captain |-> c, age |-> skew[c]], silent'[c] = 0
        PROVE  Heard(p.captain, p.age)'
    <3>1. 0 <= skew[c] + Lead(c)
      BY LeadIs
    <3> QED BY <1>1, <2>2, <3>1 DEF Heard
  <2>3. ASSUME NEW o \in resolving, p = [o EXCEPT !.age = Older(@)]
        PROVE  Heard(p.captain, p.age)'
    <3>1. p.captain \in Captains
      BY <1>2, <1>5, <2>3, Ageing
    <3> QED BY <1>1, <1>4, <1>5, <2>3, <3>1 DEF Heard
  <2> QED BY <2>1, <2>2, <2>3, ResolvingStep
<1>8. ASSUME NEW i \in 1 .. Len(writes') PROVE Heard(writes[i].captain, writes[i].age)'
  <2>1. CASE UNCHANGED writes /\ \A c \in Captains : silent'[c] <= silent[c]
    BY <1>3, <1>5, <1>8, <2>1 DEF Heard
  <2>2. ASSUME NEW p \in resolving, writes' = Append(writes, p), UNCHANGED silent
        PROVE  Heard(writes[i].captain, writes[i].age)'
    <3>1. writes'[i] = p \/ (i \in 1 .. Len(writes) /\ writes'[i] = writes[i])
      BY <1>8, <2>2 DEF TypeOK
    <3>2. Heard(writes'[i].captain, writes'[i].age) /\ writes'[i].captain \in Captains
      BY <1>2, <1>5, <3>1
    <3> QED BY <1>1, <2>2, <3>2 DEF Heard
  <2>3. CASE writes # <<>> /\ writes' = Tail(writes) /\ UNCHANGED silent
    <3>1. i + 1 \in 1 .. Len(writes) /\ writes'[i] = writes[i + 1]
      BY <1>8, <2>3 DEF TypeOK
    <3>2. Heard(writes'[i].captain, writes'[i].age) /\ writes'[i].captain \in Captains
      BY <1>2, <1>5, <3>1
    <3> QED BY <1>1, <2>3, <3>2 DEF Heard
  <2>4. CASE /\ Len(writes') = Len(writes)
             /\ \A j \in 1 .. Len(writes) :
                  writes'[j] = [writes[j] EXCEPT !.age = Older(@)]
    <3>1. /\ writes[i] \in Positions /\ Heard(writes[i].captain, writes[i].age)
          /\ writes'[i] = [writes[i] EXCEPT !.age = Older(@)]
      BY <1>5, <1>8, <2>4
    <3>2. writes'[i].captain \in Captains
      BY <1>2, <3>1, Ageing
    <3> QED BY <1>1, <1>4, <3>1, <3>2 DEF Heard
  <2> QED BY <2>1, <2>2, <2>3, <2>4, WritesStep
<1> QED BY <1>6, <1>7, <1>8 DEF HeardInv

-----------------------------------------------------------------------------
(* The theorems                                                            *)

(* The invariant holds at the start.                                      *)
LEMMA InitHolds ==
  Init => TypeOK /\ HeardInv
<1> SUFFICES ASSUME Init PROVE TypeOK /\ HeardInv
  OBVIOUS
<1> USE DEF Init
<1>1. None \in Ages /\ ~(None <= MaxAge)
  BY PresenceAssumption DEF Ages, None
<1>2. TypeOK
  <2>1. ASSUME NEW c \in Captains PROVE Unheard(c) \in Nat
    <3>1. skew[c] \in Skews
      OBVIOUS
    <3>2. skew[c] \in Int /\ MaxAge \in Nat
      BY <3>1, PresenceAssumption
    <3>3. Lead(c) \in Nat
      BY <3>2 DEF Lead
    <3> QED BY <3>2, <3>3 DEF Unheard
  <2>2. silent \in [Captains -> Nat]
    BY <2>1
  <2>3. LinkType
    BY DEF LinkInit, LinkType
  <2> QED BY <1>1, <2>2, <2>3 DEF TypeOK, NoSearch
<1>3. HeardInv
  BY <1>1 DEF HeardInv, Heard
<1> QED BY <1>2, <1>3

(* And so always.                                                         *)
LEMMA Invariance ==
  Spec => [](TypeOK /\ HeardInv)
<1>1. TypeOK /\ HeardInv /\ [Next]_vars => (TypeOK /\ HeardInv)'
  BY TypeStep, HeardInvStep
<1> QED BY InitHolds, <1>1, PTL DEF Spec

(* The types, and what is known of every position stored or under way, in  *)
(* whatever order positions are received, checked and written              *)
(* (socket.ts:177-203).                                                    *)
THEOREM PositionsHeard == Spec => []PresenceInv
<1>1. TypeOK /\ HeardInv => PresenceInv
  BY DEF PresenceInv
<1> QED BY Invariance, <1>1, PTL

(* A search never takes a captain for present who was silent for longer    *)
(* than two minutes, but for what their clock is ahead, in whatever order  *)
(* positions are received, checked and written, with any number of them    *)
(* under way (matching.service.ts:28-56, socket.ts:177-203).               *)
THEOREM PresentWasHeard == Spec => PresentIsHeard
<1> DEFINE P == search.step = "meta" /\ search'.step = "clean" =>
                  \A c \in search'.near \ search'.stale : silent[c] <= MaxAge + Lead(c)
<1>1. ASSUME TypeOK, HeardInv, [Next]_vars PROVE [P]_vars
  <2>1. CASE SearchMeta
    <3>1. /\ search' = [search EXCEPT !.step = "clean",
                                       !.stale = {c \in search.near : Stale(c)}]
          /\ search \in [step : {"idle", "meta", "clean"},
                         near : SUBSET Captains, stale : SUBSET Captains]
      BY <1>1, <2>1 DEF SearchMeta, TypeOK
    <3>2. /\ search'.near = search.near /\ search'.near \subseteq Captains
          /\ search'.stale = {c \in search.near : Stale(c)}
      BY <3>1
    <3>3. ASSUME NEW c \in search'.near \ search'.stale
          PROVE  silent[c] <= MaxAge + Lead(c)
      <4>1. c \in Captains /\ meta[c] # None /\ ~(meta[c] > MaxAge)
        BY <3>2, <3>3 DEF Stale
      <4>2. meta[c] \in Int /\ MaxAge \in Int /\ Lead(c) \in Int
        BY <1>1, <4>1, LeadIs, PresenceAssumption DEF TypeOK, Ages, None
      <4>3. silent[c] \in Int
        BY <1>1, <4>1 DEF TypeOK
      <4>4. silent[c] <= meta[c] + Lead(c)
        BY <1>1, <4>1, <4>2 DEF HeardInv, Heard
      <4> QED BY <4>1, <4>2, <4>3, <4>4
    <3> QED BY <3>3
  <2>2. CASE ~SearchMeta
    <3>1. UNCHANGED search \/ search.step # "meta" \/ search' = NoSearch
      BY <1>1, <2>2
         DEF Next, Page, Register, Unregister, Notice, Report, Check, Write, SearchGeo,
             Search, CleanUp, SearchThrows, RedisFails, Tick, finds, vars
    <3> QED BY <3>1 DEF NoSearch
  <2> QED BY <2>1, <2>2
<1>2. TypeOK /\ HeardInv /\ [Next]_vars => [P]_vars
  BY <1>1
<1>3. Spec => [][P]_vars
  BY <1>2, Invariance, PTL DEF Spec
<1> QED BY <1>3 DEF PresentIsHeard

(* Neither a search, nor a late position, nor a disconnect, nor a failure  *)
(* of Redis between any two of their commands tears a position from its    *)
(* metadata: who looks for the cause of a torn one looks at the two writes *)
(* of setCaptainStatus alone (captain.service.ts:49-72).                   *)
THEOREM OnlySwitchTears == Spec => TornBySwitchOnly
<1> DEFINE P == \A c \in Captains :
                  Torn(c)' => Torn(c) \/ toggle[c] \in {"register", "unregister"}
<1>1. ASSUME TypeOK, [Next]_vars PROVE P
  <2> SUFFICES ASSUME NEW c \in Captains, c \in geo', meta'[c] = None,
                      toggle[c] \notin {"register", "unregister"}
               PROVE  c \in geo /\ meta[c] = None
    BY DEF Torn
  <2>0. meta \in [Captains -> Ages]
    BY <1>1 DEF TypeOK
  <2>1. CASE Write
    <3>1. writes # <<>> /\ Head(writes) \in Positions
      BY <1>1, <2>1 DEF Write, TypeOK
    <3>2. Head(writes).captain \in Captains /\ Head(writes).age # None
      BY <3>1 DEF Positions
    <3>3. \/ UNCHANGED <<geo, meta>>
          \/ /\ geo' = geo \cup {Head(writes).captain}
             /\ meta' = [meta EXCEPT ![Head(writes).captain] = Head(writes).age]
      BY <2>1 DEF Write, Place, places
    <3> QED BY <2>0, <3>2, <3>3
  <2>2. CASE Tick
    <3>1. geo' = geo /\ meta'[c] = Older(meta[c]) /\ meta[c] \in Int
      BY <2>0, <2>2, PresenceAssumption DEF Tick, Ages, None
    <3> QED BY <3>1, PresenceAssumption DEF Older, None
  <2>3. ASSUME NEW C, Remove(C) PROVE c \in geo /\ meta[c] = None
    BY <2>3 DEF Remove
  <2>4. ASSUME NEW d \in Captains, Register(d) \/ Unregister(d)
        PROVE  c \in geo /\ meta[c] = None
    <3>1. d # c
      BY <2>4 DEF Register, Unregister, Registered, Unregistered
    <3>2. \/ UNCHANGED <<geo, meta>> \/ Remove({d})
          \/ /\ geo' \subseteq geo \cup {d}
             /\ \E age : meta' = [meta EXCEPT ![d] = age]
          \/ geo' \subseteq geo \cup {d} /\ UNCHANGED meta
          \/ UNCHANGED geo /\ \E age : meta' = [meta EXCEPT ![d] = age]
      BY <2>4 DEF Register, Unregister, Place, RemoveIfReady, places
    <3> QED BY <2>0, <2>3, <3>1, <3>2
  <2>5. \/ Write \/ Tick \/ UNCHANGED <<geo, meta>> \/ \E C : Remove(C)
        \/ \E d \in Captains : Register(d) \/ Unregister(d)
    BY <1>1 DEF Next, Page, Notice, Report, Check, SearchGeo, Search, SearchMeta, CleanUp,
       SearchThrows, RedisFails, RemoveIfReady, places, vars
  <2> QED BY <2>1, <2>2, <2>3, <2>4, <2>5
<1>2. TypeOK /\ HeardInv /\ [Next]_vars => [P]_vars
  BY <1>1
<1>3. Spec => [][P]_vars
  BY <1>2, Invariance, PTL DEF Spec
<1> QED BY <1>3 DEF TornBySwitchOnly
=============================================================================
