--------------------------- MODULE DatabaseProofs ---------------------------
(***************************************************************************)
(* What Database promises, for any number of servers, requests and foreign *)
(* keys.  VersionMeansSchema needs what the statements still to come rely  *)
(* on (Begun): of a server that migrates, every item is in the tables or   *)
(* still ahead of it.  OneUpgrades needs more than that somebody is at     *)
(* work: there is one whom nobody can stop (Leader), since a server is     *)
(* stopped only by another that has just added the same item, and then     *)
(* that other leads.                                                       *)
(***************************************************************************)
EXTENDS Database, SequenceTheorems, TLAPS

Left(s) == {Todo(s)[i] : i \in DOMAIN Todo(s)}

(* Tables that do not exist hold nothing.                                   *)
Fresh == ~created => have = {} /\ version = 0 /\ promoted

(* What a server in the middle of initialize can rely on.                   *)
Begun == \A s \in Servers :
    /\ init[s].at \in {"version", "look", "add", "promote", "record", "done"} => created
    /\ init[s].at \in {"look", "add", "promote"} => ItemNames \subseteq have \cup Left(s)
    /\ At(s, "add") => Todo(s) # <<>>
    /\ init[s].at \in {"record", "done"} => ItemNames \subseteq have
    /\ At(s, "done") => version = CurrentVersion

(* An initialize belongs to a startup or to a request that has the lock.    *)
Owned == \A s \in Servers :
    /\ server[s] = "down" => At(s, "off")
    /\ server[s] # "serving" => \A r \in Requests : request[s][r] = "idle"
    /\ server[s] = "serving" /\ LockFree(s) => At(s, "off")

(* A server that no other can stop.                                         *)
Leader(s) ==
    \/ init[s].at \in {"version", "look", "promote", "record"}
    \/ At(s, "add") /\ Head(Todo(s)) \notin have

Led == ~faults =>
    /\ have # UpTo(version) => \E s \in Servers : Leader(s)
    /\ "role" \in have => promoted \/ \E s \in Servers : At(s, "promote")

IInv == TypeOK /\ Fresh /\ Begun /\ Owned /\ VersionMeansSchema /\ Led

----------------------------------------------------------------------------
(* The items are a sequence of their names that starts with the two of the  *)
(* base schema.                                                             *)
LEMMA ItemSequence ==
    /\ Items \in Seq(ItemNames) /\ Len(Items) \in Nat /\ Len(Items) >= 2
    /\ DOMAIN Items = 1..Len(Items)
    /\ Items[1] = "columns" /\ Items[2] = "role"
    /\ "columns" \in ItemNames /\ "role" \in ItemNames
<1> DEFINE Names == STRING \cup {"columns", "role"}
<1>1. ForeignKeys \in Seq(Names)
  BY DatabaseAssumption
<1>2. /\ Items \in Seq(Names) /\ Len(Items) = 2 + Len(ForeignKeys)
      /\ Items[1] = "columns" /\ Items[2] = "role"
  <2> DEFINE base == <<"columns", "role">>
  <2>1. base \in Seq(Names) /\ Len(base) = 2 /\ base[1] = "columns" /\ base[2] = "role"
    OBVIOUS
  <2>2. Items = base \o ForeignKeys
    BY DEF Items
  <2>3. Len(ForeignKeys) \in Nat
    BY <1>1
  <2> HIDE DEF base
  <2>4. /\ Items \in Seq(Names) /\ Len(Items) = Len(base) + Len(ForeignKeys)
        /\ \A i \in 1..(Len(base) + Len(ForeignKeys)) :
               Items[i] = IF i <= Len(base) THEN base[i] ELSE ForeignKeys[i - Len(base)]
    BY <1>1, <2>1, <2>2, ConcatProperties, Zenon
  <2> QED
    BY <2>1, <2>3, <2>4
<1>3. Len(Items) \in Nat /\ Len(Items) >= 2 /\ DOMAIN Items = 1..Len(Items)
  BY <1>1, <1>2
<1>4. \A i \in 1..Len(Items) : Items[i] \in ItemNames
  BY <1>3 DEF ItemNames
<1>5. Items \in Seq(ItemNames)
  BY <1>2, <1>3, <1>4
<1> QED
  BY <1>2, <1>3, <1>4, <1>5

(* What a version has added, and what is still to be added to it, are all   *)
(* the items.                                                               *)
LEMMA VersionFacts ==
    ASSUME NEW v \in 0..CurrentVersion
    PROVE  /\ UpTo(v) \subseteq ItemNames
           /\ Above(v) \in Seq(ItemNames)
           /\ ItemNames \subseteq UpTo(v) \cup {Above(v)[i] : i \in DOMAIN Above(v)}
           /\ v = 0 => UpTo(v) = {}
           /\ v = CurrentVersion => UpTo(v) = ItemNames
           /\ v = 2 => "role" \notin UpTo(v)
<1> DEFINE n == Len(Items)
           b == Below(v)
<1>1. n \in Nat /\ n >= 2 /\ DOMAIN Items = 1..n /\ Items \in Seq(ItemNames)
  BY ItemSequence
<1>2. b \in 0..n /\ (v = 0 => b = 0) /\ (v = CurrentVersion => b = n) /\ (v = 2 => b = 1)
  BY <1>1 DEF Below, CurrentVersion
<1>3. \A i \in 1..n : Items[i] \in ItemNames
  BY <1>1 DEF ItemNames
<1> HIDE DEF n, b
<1>4. UpTo(v) = {Items[i] : i \in 1..b}
  BY DEF UpTo, b
<1>5. Above(v) = SubSeq(Items, b + 1, n)
  BY DEF Above, b, n
<1>6. n = Len(Items)
  BY DEF n
<1>7. /\ Above(v) \in Seq(ItemNames)
      /\ Len(Above(v)) = n - b
      /\ \A i \in 1..(n - b) : Above(v)[i] = Items[b + i]
  <2>1. b + 1 \in Int /\ n \in Int /\ \A i \in (b + 1)..n : Items[i] \in ItemNames
    BY <1>1, <1>2, <1>3
  <2>2. /\ SubSeq(Items, b + 1, n) \in Seq(ItemNames)
        /\ Len(SubSeq(Items, b + 1, n)) = IF b + 1 <= n THEN n - (b + 1) + 1 ELSE 0
        /\ \A i \in 1..(n - (b + 1) + 1) : SubSeq(Items, b + 1, n)[i] = Items[(b + 1) + i - 1]
    BY <2>1, SubSeqProperties
  <2>3. n - (b + 1) + 1 = n - b /\ \A i \in 1..(n - b) : (b + 1) + i - 1 = b + i
    BY <1>1, <1>2
  <2> QED
    BY <2>2, <2>3, <1>1, <1>2, <1>5
<1>8. UpTo(v) \subseteq ItemNames
  BY <1>2, <1>3, <1>4, <1>1
<1>9. ASSUME NEW x \in ItemNames PROVE x \in UpTo(v) \cup {Above(v)[i] : i \in DOMAIN Above(v)}
  <2>1. PICK i \in 1..n : x = Items[i]
    BY <1>1 DEF ItemNames
  <2>2. CASE i <= b
    BY <2>1, <2>2, <1>1, <1>2, <1>4
  <2>3. CASE i > b
    <3>1. i - b \in 1..(n - b) /\ b + (i - b) = i
      BY <2>3, <1>1, <1>2
    <3>2. DOMAIN Above(v) = 1..(n - b)
      BY <1>1, <1>2, <1>7
    <3> QED
      BY <2>1, <3>1, <3>2, <1>7
  <2> QED
    BY <2>2, <2>3, <1>1, <1>2
<1>10. v = 2 => "role" \notin UpTo(v)
  BY <1>2, <1>4, ItemSequence
<1>11. v = 0 => UpTo(v) = {}
  BY <1>2, <1>4
<1>12. v = CurrentVersion => UpTo(v) = ItemNames
  BY <1>1, <1>2, <1>4 DEF ItemNames
<1> QED
  BY <1>7, <1>8, <1>9, <1>10, <1>11, <1>12

(* What is left after the first of the items is dealt with.                 *)
LEMMA TailLeft ==
    ASSUME NEW S, NEW todo \in Seq(S), todo # <<>>
    PROVE  {todo[i] : i \in DOMAIN todo} \subseteq
               {Head(todo)} \cup {Tail(todo)[i] : i \in DOMAIN Tail(todo)}
<1> SUFFICES ASSUME NEW i \in DOMAIN todo
             PROVE  todo[i] \in {Head(todo)} \cup {Tail(todo)[j] : j \in DOMAIN Tail(todo)}
  OBVIOUS
<1>1. CASE i = 1
  BY <1>1
<1>2. CASE i # 1
  <2>1. i - 1 \in DOMAIN Tail(todo) /\ Tail(todo)[i - 1] = todo[i]
    BY <1>2
  <2> QED
    BY <2>1
<1> QED
  BY <1>1, <1>2

(* Every start of the database has the invariant.                           *)
LEMMA Initially == Init => IInv
<1> SUFFICES ASSUME Init PROVE IInv
  OBVIOUS
<1>1. PICK v \in 0..CurrentVersion :
         version = v /\ created = (v > 0) /\ have = UpTo(v) /\ promoted = (v # 2)
  BY DEF Init
<1>2. /\ UpTo(v) \subseteq ItemNames /\ (v = 0 => UpTo(v) = {})
      /\ (v = 2 => "role" \notin UpTo(v))
  BY VersionFacts
<1>3. \A s \in Servers : init[s] = NoInit /\ server[s] = "down" /\ backend[s] = "none"
                         /\ \A r \in Requests : request[s][r] = "idle"
  BY DEF Init
<1>4. TypeOK
  <2>1. NoInit \in [at : Awaiting \cup {"off", "done"}, todo : Seq(ItemNames)]
    BY DEF NoInit, Awaiting
  <2>2. created \in BOOLEAN /\ promoted \in BOOLEAN
    BY <1>1
  <2>3. version \in 0..CurrentVersion /\ have \subseteq ItemNames
    BY <1>1, <1>2
  <2> QED
    BY <2>1, <2>2, <2>3 DEF Init, TypeOK
<1>5. Fresh
  <2>1. CASE v = 0
    <3>1. v # 2 /\ have = {} /\ version = 0
      BY <2>1, <1>1, <1>2
    <3>2. promoted
      BY <3>1, <1>1, Zenon
    <3> QED
      BY <3>1, <3>2 DEF Fresh
  <2>2. CASE v > 0
    BY <2>2, <1>1 DEF Fresh
  <2> QED
    BY <2>1, <2>2 DEF CurrentVersion
<1>6. Begun /\ Owned
  BY <1>3 DEF Begun, Owned, At, NoInit
<1>7. VersionMeansSchema
  BY <1>1, <1>3 DEF VersionMeansSchema, CurrentVersion
<1>8. Led
  BY <1>1, <1>2 DEF Led
<1> QED
  BY <1>4, <1>5, <1>6, <1>7, <1>8 DEF IInv

(* The next statement of s: what it changes of init.                        *)
LEMMA GotoFacts ==
    ASSUME TypeOK, NEW s \in Servers, NEW step \in Awaiting \cup {"off", "done"},
           NEW todo \in Seq(ItemNames), Goto(s, step, todo)
    PROVE  /\ init' \in [Servers -> [at : Awaiting \cup {"off", "done"}, todo : Seq(ItemNames)]]
           /\ init'[s].at = step /\ init'[s].todo = todo
           /\ \A t \in Servers : t # s => init'[t] = init[t]
BY DEF TypeOK, Goto

(* The end of an initialize: the owners are told, and s does nothing more.  *)
LEMMA ReturnedFacts ==
    ASSUME TypeOK, Owned, NEW s \in Servers, NEW outcome \in Outcomes, Returned(s, outcome)
    PROVE  /\ init' \in [Servers -> [at : Awaiting \cup {"off", "done"}, todo : Seq(ItemNames)]]
           /\ server' \in [Servers -> {"down", "starting", "serving"}]
           /\ request' \in [Servers ->
                  [Requests -> Outcomes \cup {"idle", "waiting", "initializing"}]]
           /\ init'[s].at = "off"
           /\ \A t \in Servers : t # s => init'[t] = init[t]
           /\ Owned'
<1>1. NoInit \in [at : Awaiting \cup {"off", "done"}, todo : Seq(ItemNames)] /\ NoInit.at = "off"
  BY DEF NoInit, Awaiting
<1>2. /\ init' \in [Servers -> [at : Awaiting \cup {"off", "done"}, todo : Seq(ItemNames)]]
      /\ init'[s] = NoInit
      /\ \A t \in Servers : t # s => init'[t] = init[t]
  BY <1>1 DEF Returned, TypeOK
<1>3. /\ server' \in [Servers -> {"down", "starting", "serving"}] /\ server'[s] = "serving"
      /\ \A t \in Servers : t # s => server'[t] = server[t]
  BY DEF Returned, TypeOK
<1>4. /\ request' \in [Servers ->
             [Requests -> Outcomes \cup {"idle", "waiting", "initializing"}]]
      /\ \A t \in Servers : t # s => request'[t] = request[t]
  BY DEF Returned, TypeOK, Answer
<1>5. Owned'
  <2> SUFFICES ASSUME NEW t \in Servers
               PROVE  /\ server'[t] = "down" => At(t, "off")'
                      /\ server'[t] # "serving" => \A r \in Requests : request'[t][r] = "idle"
                      /\ server'[t] = "serving" /\ LockFree(t)' => At(t, "off")'
    BY DEF Owned
  <2>1. CASE t = s
    BY <2>1, <1>1, <1>2, <1>3 DEF At
  <2>2. CASE t # s
    <3>1. init'[t] = init[t] /\ server'[t] = server[t] /\ request'[t] = request[t]
      BY <2>2, <1>2, <1>3, <1>4
    <3> QED
      BY <3>1 DEF Owned, At, LockFree
  <2> QED
    BY <2>1, <2>2
<1> QED
  BY <1>1, <1>2, <1>3, <1>4, <1>5

(* Any statement of an initialize leaves the requests as they are, so they  *)
(* are still those that own one.                                            *)
LEMMA OwnedKept ==
    ASSUME TypeOK, Owned, NEW s \in Servers, init[s].at # "off", UNCHANGED <<server, request>>,
           \A t \in Servers : t # s => init'[t] = init[t]
    PROVE  Owned'
<1> SUFFICES ASSUME NEW t \in Servers
             PROVE  /\ server'[t] = "down" => At(t, "off")'
                    /\ server'[t] # "serving" => \A r \in Requests : request'[t][r] = "idle"
                    /\ server'[t] = "serving" /\ LockFree(t)' => At(t, "off")'
  BY DEF Owned
<1>1. CASE t = s
  BY <1>1 DEF Owned, At, LockFree
<1>2. CASE t # s
  BY <1>2 DEF Owned, At, LockFree
<1> QED
  BY <1>1, <1>2

(* An initialize that raises: only one that leads nothing, or one that a    *)
(* fault has ended.                                                         *)
LEMMA RaiseStep ==
    ASSUME IInv, NEW s \in Servers, Raise(s), ~Leader(s) \/ faults', faults' \in BOOLEAN,
           faults => faults'
    PROVE  IInv'
<1>1. /\ init' \in [Servers -> [at : Awaiting \cup {"off", "done"}, todo : Seq(ItemNames)]]
      /\ server' \in [Servers -> {"down", "starting", "serving"}]
      /\ request' \in [Servers -> [Requests -> Outcomes \cup {"idle", "waiting", "initializing"}]]
      /\ init'[s].at = "off" /\ \A t \in Servers : t # s => init'[t] = init[t]
      /\ Owned'
  BY ReturnedFacts DEF IInv, Raise, Outcomes
<1>2. UNCHANGED <<have, created, version, promoted, backend>>
  BY DEF Raise, tables
<1>3. TypeOK'
  BY <1>1, <1>2 DEF IInv, TypeOK
<1>4. Fresh' /\ VersionMeansSchema'
  BY <1>2 DEF IInv, Fresh, VersionMeansSchema
<1>5. Begun'
  <2> SUFFICES ASSUME NEW t \in Servers PROVE Begun!(t)'
    BY DEF Begun
  <2>1. CASE t = s
    BY <2>1, <1>1 DEF At
  <2>2. CASE t # s
    <3>1. init'[t] = init[t] /\ Left(t)' = Left(t)
      BY <2>2, <1>1 DEF Left, Todo
    <3> QED
      BY <3>1, <1>2 DEF IInv, Begun, At, Todo
  <2> QED
    BY <2>1, <2>2
<1>6. Led'
  <2> SUFFICES ASSUME ~faults' PROVE Led!2'
    BY DEF Led
  <2>1. ~Leader(s) /\ ~faults
    BY DEF IInv, TypeOK
  <2>2. \A t \in Servers : Leader(t) => Leader(t)'
    BY <2>1, <1>1, <1>2 DEF Leader, At, Todo
  <2>3. \A t \in Servers : At(t, "promote") => At(t, "promote")'
    BY <2>1, <1>1 DEF Leader, At
  <2> QED
    BY <2>1, <2>2, <2>3, <1>2 DEF IInv, Led
<1> QED
  BY <1>1, <1>3, <1>4, <1>5, <1>6 DEF IInv

(* A statement of s that is not its last one: the tables only gain, so the  *)
(* others can rely on what they relied on, and s on what it has achieved.   *)
LEMMA MoveStep ==
    ASSUME IInv, NEW s \in Servers, NEW step \in Awaiting \cup {"done"}, NEW todo \in Seq(ItemNames),
           init[s].at # "off", Goto(s, step, todo), UNCHANGED <<server, request, faults>>,
           backend' \in [Servers -> {"none", "made", "open", "ready"}],
           created' \in BOOLEAN, promoted' \in BOOLEAN, version' \in {version, CurrentVersion},
           have \subseteq have', have' \subseteq ItemNames, created => created',
           Fresh', VersionMeansSchema',
           step \in {"version", "look", "add", "promote", "record", "done"} => created',
           step \in {"look", "add", "promote"} =>
               ItemNames \subseteq have' \cup {todo[i] : i \in DOMAIN todo},
           step = "add" => todo # <<>>,
           step \in {"record", "done"} => ItemNames \subseteq have',
           step = "done" => version' = CurrentVersion
    PROVE  TypeOK' /\ Begun' /\ Owned' /\ (Led' => IInv')
<1>1. /\ init' \in [Servers -> [at : Awaiting \cup {"off", "done"}, todo : Seq(ItemNames)]]
      /\ init'[s].at = step /\ init'[s].todo = todo
      /\ \A t \in Servers : t # s => init'[t] = init[t]
  BY GotoFacts DEF IInv
<1>2. TypeOK'
  <2>1. version' \in 0..CurrentVersion
    BY DEF IInv, TypeOK, CurrentVersion
  <2> QED
    BY <1>1, <2>1 DEF IInv, TypeOK
<1>3. Begun'
  <2> SUFFICES ASSUME NEW t \in Servers PROVE Begun!(t)'
    BY DEF Begun
  <2>1. CASE t = s
    BY <2>1, <1>1 DEF At, Left, Todo
  <2>2. CASE t # s
    <3>1. init'[t] = init[t] /\ Left(t)' = Left(t)
      BY <2>2, <1>1 DEF Left, Todo
    <3> QED
      BY <3>1 DEF IInv, Begun, At, Todo
  <2> QED
    BY <2>1, <2>2
<1>4. Owned'
  BY <1>1, OwnedKept DEF IInv
<1> QED
  BY <1>2, <1>3, <1>4 DEF IInv

(* Whoever else leads goes on leading when s moves and no item is added,    *)
(* and so does whoever else promotes.                                       *)
LEMMA OthersLead ==
    ASSUME NEW s \in Servers, NEW t \in Servers, t # s, init'[t] = init[t]
    PROVE  /\ Leader(t) /\ have' = have => Leader(t)'
           /\ At(t, "promote") => At(t, "promote")'
BY DEF Leader, At, Todo

(* A pool changes nothing of the tables.                                    *)
LEMMA ConnectStep == ASSUME IInv, NEW s \in Servers, Connect(s) PROVE IInv'
<1> USE DEF Connect, tables, Becomes
<1>1. /\ <<>> \in Seq(ItemNames) /\ "schema" \in Awaiting
      /\ init[s].at = "connect"
  BY DEF Awaiting, At
<1>2. /\ init'[s].at = "schema" /\ \A t \in Servers : t # s => init'[t] = init[t]
  BY <1>1, GotoFacts DEF IInv
<1>3. backend' \in [Servers -> {"none", "made", "open", "ready"}]
  BY DEF IInv, TypeOK
<1>4. VersionMeansSchema'
  BY DEF IInv, VersionMeansSchema, TypeOK
<1>5. TypeOK' /\ Begun' /\ Owned' /\ (Led' => IInv')
  BY <1>1, <1>3, <1>4, MoveStep DEF IInv, TypeOK, Fresh
<1>6. Led'
  <2>1. ~Leader(s) /\ ~At(s, "promote")
    BY <1>1 DEF Leader, At
  <2>2. \A t \in Servers : (Leader(t) => Leader(t)') /\ (At(t, "promote") => At(t, "promote")')
    BY <2>1, <1>2, OthersLead
  <2> QED
    BY <2>2 DEF IInv, Led
<1> QED
  BY <1>5, <1>6

(* The base schema: a new database has all that versions 2 and 3 add.       *)
LEMMA SchemaStep == ASSUME IInv, NEW s \in Servers, Schema(s) PROVE IInv'
<1>1. /\ <<>> \in Seq(ItemNames) /\ "version" \in Awaiting /\ init[s].at = "schema"
      /\ ~Leader(s) /\ ~At(s, "promote")
  BY DEF Awaiting, At, Schema, Leader
<1>2. CASE created /\ "columns" \notin have
  <2>1. Raise(s) /\ faults' = faults
    BY <1>2 DEF Schema
  <2> QED
    BY <1>1, <2>1, RaiseStep DEF IInv, TypeOK
<1>3. CASE ~(created /\ "columns" \notin have)
  <2>1. /\ created' = TRUE /\ have' = IF created THEN have ELSE {"columns", "role"}
        /\ Goto(s, "version", <<>>) /\ UNCHANGED <<version, promoted, server, backend, request, faults>>
    BY <1>3 DEF Schema
  <2>2. init'[s].at = "version" /\ \A t \in Servers : t # s => init'[t] = init[t]
    BY <1>1, <2>1, GotoFacts DEF IInv
  <2>3. have \subseteq have' /\ have' \subseteq ItemNames
    BY <2>1, ItemSequence DEF IInv, TypeOK, Fresh
  <2>4. Fresh' /\ VersionMeansSchema'
    BY <2>1, <2>3 DEF IInv, Fresh, VersionMeansSchema
  <2>5. TypeOK' /\ Begun' /\ Owned' /\ (Led' => IInv')
    BY <1>1, <2>1, <2>3, <2>4, MoveStep DEF IInv, TypeOK
  <2>6. Led'
    <3>1. Leader(s)'
      BY <2>2 DEF Leader
    <3>2. \A t \in Servers : At(t, "promote") => At(t, "promote")'
      BY <1>1, <2>2, OthersLead
    <3> QED
      BY <2>1, <3>1, <3>2 DEF IInv, Led, Fresh
  <2> QED
    BY <2>5, <2>6
<1> QED
  BY <1>2, <1>3

(* What the version read does not cover is what is left to do.              *)
LEMMA ReadVersionStep == ASSUME IInv, NEW s \in Servers, ReadVersion(s) PROVE IInv'
<1> USE DEF ReadVersion, tables
<1> DEFINE step == AfterVersion(version)
           todo == Above(version)
<1>1. version \in 0..CurrentVersion /\ init[s].at = "version" /\ created
  BY DEF IInv, TypeOK, At, Begun
<1>2. /\ todo \in Seq(ItemNames) /\ (version = CurrentVersion => UpTo(version) = ItemNames)
      /\ ItemNames \subseteq UpTo(version) \cup {todo[i] : i \in DOMAIN todo}
      /\ version = 0 => UpTo(version) = {}
  BY <1>1, VersionFacts
<1>3. UpTo(version) \subseteq have
  BY <1>1, <1>2 DEF IInv, VersionMeansSchema, CurrentVersion
<1>4. /\ step = IF version = CurrentVersion THEN "done" ELSE "look"
      /\ step \in Awaiting \cup {"done"}
  BY DEF AfterVersion, Awaiting
<1> HIDE DEF step, todo
<1>5. Goto(s, step, todo)
  BY DEF step, todo
<1>6. init'[s].at = step /\ \A t \in Servers : t # s => init'[t] = init[t]
  BY <1>2, <1>4, <1>5, GotoFacts DEF IInv
<1>7. TypeOK' /\ Begun' /\ Owned' /\ (Led' => IInv')
  <2>1. Fresh' /\ VersionMeansSchema'
    BY DEF IInv, Fresh, VersionMeansSchema
  <2> QED
    BY <1>1, <1>2, <1>3, <1>4, <1>5, <2>1, MoveStep DEF IInv, TypeOK
<1>8. Led'
  <2>1. \A t \in Servers : At(t, "promote") => At(t, "promote")'
    BY <1>1, <1>6, OthersLead DEF At
  <2>2. CASE version = CurrentVersion
    <3>1. have = UpTo(version)
      BY <2>2, <1>2, <1>3 DEF IInv, TypeOK
    <3> QED
      BY <2>1, <3>1 DEF IInv, Led
  <2>3. CASE version # CurrentVersion
    <3>1. Leader(s)'
      BY <2>3, <1>4, <1>6 DEF Leader
    <3> QED
      BY <2>1, <3>1 DEF IInv, Led
  <2> QED
    BY <2>2, <2>3
<1> QED
  BY <1>7, <1>8

(* The item looked at is passed over because the tables have it.            *)
LEMMA LookStep == ASSUME IInv, NEW s \in Servers, Look(s) PROVE IInv'
<1> USE DEF Look, tables
<1>1. /\ init[s].at = "look" /\ created /\ Todo(s) \in Seq(ItemNames)
      /\ ItemNames \subseteq have \cup Left(s)
  BY DEF IInv, TypeOK, At, Begun, Todo
<1>2. Fresh' /\ VersionMeansSchema'
  BY DEF IInv, Fresh, VersionMeansSchema
<1>3. ASSUME NEW step \in {"look", "add", "record"}, NEW todo \in Seq(ItemNames),
             Goto(s, step, todo), step = "add" => todo # <<>> /\ Head(todo) \notin have,
             step = "record" => ItemNames \subseteq have,
             ItemNames \subseteq have \cup {todo[i] : i \in DOMAIN todo}
      PROVE  IInv'
  <2>1. /\ init'[s].at = step /\ init'[s].todo = todo
        /\ \A t \in Servers : t # s => init'[t] = init[t]
    BY <1>3, GotoFacts DEF IInv, Awaiting
  <2>2. TypeOK' /\ Begun' /\ Owned' /\ (Led' => IInv')
    BY <1>1, <1>2, <1>3, MoveStep DEF IInv, TypeOK, Awaiting
  <2>3. Leader(s)'
    BY <1>3, <2>1 DEF Leader, At, Todo
  <2>4. \A t \in Servers : At(t, "promote") => At(t, "promote")'
    BY <1>1, <2>1, OthersLead DEF At
  <2> QED
    BY <2>2, <2>3, <2>4 DEF IInv, Led
<1>4. CASE Todo(s) = <<>>
  <2>1. Goto(s, "record", <<>>) /\ <<>> \in Seq(ItemNames) /\ Left(s) = {}
    BY <1>4 DEF Left
  <2> QED
    BY <1>1, <2>1, <1>3
<1>5. CASE Todo(s) # <<>> /\ Head(Todo(s)) \in have
  <2>1. Goto(s, "look", Tail(Todo(s))) /\ Tail(Todo(s)) \in Seq(ItemNames)
    BY <1>1, <1>5
  <2>2. ItemNames \subseteq have \cup {Tail(Todo(s))[i] : i \in DOMAIN Tail(Todo(s))}
    BY <1>1, <1>5, TailLeft DEF Left
  <2> QED
    BY <2>1, <2>2, <1>3
<1>6. CASE Todo(s) # <<>> /\ Head(Todo(s)) \notin have
  <2>1. Goto(s, "add", Todo(s))
    BY <1>6
  <2> QED
    BY <1>1, <1>6, <2>1, <1>3 DEF Left
<1> QED
  BY <1>4, <1>5, <1>6

(* Adding an item that another has added meanwhile stops the one who is     *)
(* late; whoever adds it goes on, and promotes if it was the role.          *)
LEMMA AddStep == ASSUME IInv, NEW s \in Servers, Add(s) PROVE IInv'
<1> DEFINE item == Head(Todo(s))
           rest == Tail(Todo(s))
<1>1. /\ init[s].at = "add" /\ created /\ Todo(s) \in Seq(ItemNames) /\ Todo(s) # <<>>
      /\ ItemNames \subseteq have \cup Left(s)
  BY DEF IInv, TypeOK, At, Begun, Todo, Add
<1>2. item \in ItemNames /\ rest \in Seq(ItemNames)
  BY <1>1
<1>3. Left(s) \subseteq {item} \cup {rest[i] : i \in DOMAIN rest}
  BY <1>1, TailLeft DEF Left
<1>4. CASE item \in have
  <2>1. Raise(s) /\ faults' = faults
    BY <1>4 DEF Add
  <2>2. ~Leader(s)
    BY <1>1, <1>4 DEF Leader, At
  <2> QED
    BY <2>1, <2>2, RaiseStep DEF IInv, TypeOK
<1>5. CASE item \notin have
  <2> DEFINE step == AfterAdd(item)
  <2>1. /\ have' = have \cup {item} /\ Goto(s, step, rest)
        /\ UNCHANGED <<created, version, promoted, server, backend, request, faults>>
    BY <1>5 DEF Add
  <2>2. step \in {"look", "promote"} /\ (item = "role" => step = "promote")
    BY DEF AfterAdd
  <2> HIDE DEF item, rest, step
  <2>3. init'[s].at = step /\ \A t \in Servers : t # s => init'[t] = init[t]
    BY <1>2, <2>1, <2>2, GotoFacts DEF IInv, Awaiting
  <2>4. have \subseteq have' /\ have' \subseteq ItemNames
    BY <1>2, <2>1 DEF IInv, TypeOK
  <2>5. Fresh' /\ VersionMeansSchema'
    BY <1>1, <2>1, <2>4 DEF IInv, Fresh, VersionMeansSchema
  <2>6. ItemNames \subseteq have' \cup {rest[i] : i \in DOMAIN rest}
    BY <1>1, <1>3, <2>1
  <2>7. TypeOK' /\ Begun' /\ Owned' /\ (Led' => IInv')
    BY <1>1, <1>2, <2>1, <2>2, <2>4, <2>5, <2>6, MoveStep DEF IInv, TypeOK, Awaiting
  <2>8. Led'
    <3>1. Leader(s)' /\ (item = "role" => At(s, "promote")')
      BY <2>2, <2>3 DEF Leader, At
    <3>2. \A t \in Servers : At(t, "promote") => At(t, "promote")'
      BY <1>1, <2>3, OthersLead DEF At
    <3> QED
      BY <2>1, <3>1, <3>2 DEF IInv, Led
  <2> QED
    BY <2>7, <2>8
<1> QED
  BY <1>4, <1>5

(* Whoever added the role promotes before going on.                         *)
LEMMA PromoteStep == ASSUME IInv, NEW s \in Servers, Promote(s) PROVE IInv'
<1> USE DEF Promote, tables
<1>1. /\ init[s].at = "promote" /\ created /\ Todo(s) \in Seq(ItemNames)
      /\ ItemNames \subseteq have \cup Left(s)
  BY DEF IInv, TypeOK, At, Begun, Todo
<1>2. init'[s].at = "look"
  BY <1>1, GotoFacts DEF IInv, Awaiting
<1>3. Fresh' /\ VersionMeansSchema'
  BY DEF IInv, Fresh, VersionMeansSchema
<1>4. ItemNames \subseteq have' \cup {Todo(s)[i] : i \in DOMAIN Todo(s)}
  BY <1>1 DEF Left
<1>5. TypeOK' /\ Begun' /\ Owned' /\ (Led' => IInv')
  BY <1>1, <1>3, <1>4, MoveStep DEF IInv, TypeOK, Awaiting
<1>6. Led'
  BY <1>2 DEF Led, Leader
<1> QED
  BY <1>5, <1>6

(* The version is recorded when every item is there.                        *)
LEMMA RecordStep == ASSUME IInv, NEW s \in Servers, Record(s) PROVE IInv'
<1> USE DEF Record, tables
<1>1. init[s].at = "record" /\ created /\ ItemNames \subseteq have /\ <<>> \in Seq(ItemNames)
  BY DEF IInv, At, Begun
<1>2. CurrentVersion \in 0..CurrentVersion /\ UpTo(CurrentVersion) = ItemNames
  BY VersionFacts DEF CurrentVersion
<1>3. have = UpTo(CurrentVersion) /\ version' = CurrentVersion
  BY <1>1, <1>2 DEF IInv, TypeOK
<1>4. \A t \in Servers : t # s => init'[t] = init[t]
  BY <1>1, GotoFacts DEF IInv
<1>5. Fresh' /\ VersionMeansSchema'
  BY <1>1, <1>3 DEF IInv, Fresh, VersionMeansSchema
<1>6. TypeOK' /\ Begun' /\ Owned' /\ (Led' => IInv')
  BY <1>1, <1>3, <1>5, MoveStep DEF IInv, TypeOK
<1>7. Led'
  <2>1. \A t \in Servers : At(t, "promote") => At(t, "promote")'
    BY <1>1, <1>4, OthersLead DEF At
  <2>2. have' = UpTo(version)'
    BY <1>3 DEF UpTo, Below
  <2> QED
    BY <2>1, <2>2 DEF IInv, Led
<1> QED
  BY <1>6, <1>7

(* What initialize leaves behind is what every later request relies on.     *)
LEMMA InitializedStep == ASSUME IInv, NEW s \in Servers, Initialized(s) PROVE IInv'
<1> USE DEF Initialized, tables
<1>1. init[s].at = "done" /\ created /\ ItemNames \subseteq have /\ version = CurrentVersion
  BY DEF IInv, At, Begun
<1>2. UpTo(CurrentVersion) = ItemNames
  BY VersionFacts DEF CurrentVersion
<1>3. /\ init' \in [Servers -> [at : Awaiting \cup {"off", "done"}, todo : Seq(ItemNames)]]
      /\ server' \in [Servers -> {"down", "starting", "serving"}]
      /\ request' \in [Servers -> [Requests -> Outcomes \cup {"idle", "waiting", "initializing"}]]
      /\ init'[s].at = "off" /\ \A t \in Servers : t # s => init'[t] = init[t]
      /\ Owned'
  BY ReturnedFacts DEF IInv, Outcomes
<1>4. TypeOK'
  BY <1>3 DEF IInv, TypeOK, Becomes
<1>5. Fresh' /\ VersionMeansSchema'
  BY <1>1, <1>2 DEF IInv, Fresh, VersionMeansSchema, Becomes, TypeOK
<1>6. Begun'
  <2> SUFFICES ASSUME NEW t \in Servers PROVE Begun!(t)'
    BY DEF Begun
  <2>1. CASE t = s
    BY <2>1, <1>3 DEF At
  <2>2. CASE t # s
    <3>1. init'[t] = init[t] /\ Left(t)' = Left(t)
      BY <2>2, <1>3 DEF Left, Todo
    <3> QED
      BY <3>1 DEF IInv, Begun, At, Todo
  <2> QED
    BY <2>1, <2>2
<1>7. Led'
  <2>1. \A t \in Servers : At(t, "promote") => At(t, "promote")'
    BY <1>1, <1>3, OthersLead DEF At
  <2>2. have' = UpTo(version)'
    BY <1>1, <1>2 DEF IInv, TypeOK, UpTo, Below
  <2> QED
    BY <2>1, <2>2 DEF IInv, Led
<1> QED
  BY <1>3, <1>4, <1>5, <1>6, <1>7 DEF IInv

(* An initialize ended by a fault.                                          *)
LEMMA FailStep == ASSUME IInv, NEW s \in Servers, Fail(s) PROVE IInv'
BY RaiseStep DEF Fail

(* s begins an initialize, where there was none: it leads nothing yet.      *)
LEMMA BeginStep ==
    ASSUME IInv, NEW s \in Servers, At(s, "off"), Goto(s, "connect", <<>>), UNCHANGED <<tables, faults>>,
           backend' \in [Servers -> {"none", "made", "open", "ready"}],
           \A t \in Servers : backend'[t] = "ready" => backend[t] = "ready"
    PROVE  /\ init' \in [Servers -> [at : Awaiting \cup {"off", "done"}, todo : Seq(ItemNames)]]
           /\ \A t \in Servers : t # s => init'[t] = init[t]
           /\ Fresh' /\ Begun' /\ VersionMeansSchema' /\ Led'
<1> USE DEF tables
<1>1. /\ init' \in [Servers -> [at : Awaiting \cup {"off", "done"}, todo : Seq(ItemNames)]]
      /\ init'[s].at = "connect" /\ \A t \in Servers : t # s => init'[t] = init[t]
  <2>1. "connect" \in Awaiting /\ <<>> \in Seq(ItemNames)
    BY DEF Awaiting
  <2> QED
    BY <2>1, GotoFacts DEF IInv
<1>2. Fresh' /\ VersionMeansSchema'
  BY DEF IInv, Fresh, VersionMeansSchema
<1>3. Begun'
  <2> SUFFICES ASSUME NEW t \in Servers PROVE Begun!(t)'
    BY DEF Begun
  <2>1. CASE t = s
    BY <2>1, <1>1 DEF At
  <2>2. CASE t # s
    <3>1. init'[t] = init[t] /\ Left(t)' = Left(t)
      BY <2>2, <1>1 DEF Left, Todo
    <3> QED
      BY <3>1 DEF IInv, Begun, At, Todo
  <2> QED
    BY <2>1, <2>2
<1>4. Led'
  <2>1. ~Leader(s) /\ ~At(s, "promote")
    BY DEF Leader, At
  <2>2. \A t \in Servers : (Leader(t) => Leader(t)') /\ (At(t, "promote") => At(t, "promote")')
    BY <2>1, <1>1, OthersLead
  <2> QED
    BY <2>2 DEF IInv, Led
<1> QED
  BY <1>1, <1>2, <1>3, <1>4

(* A server that starts has no initialize under way.                        *)
LEMMA StartStep == ASSUME IInv, NEW s \in Servers, Start(s) PROVE IInv'
<1>1. At(s, "off") /\ \A r \in Requests : request[s][r] = "idle"
  BY DEF IInv, Owned, Start
<1>2. /\ init' \in [Servers -> [at : Awaiting \cup {"off", "done"}, todo : Seq(ItemNames)]]
      /\ \A t \in Servers : t # s => init'[t] = init[t]
      /\ Fresh' /\ Begun' /\ VersionMeansSchema' /\ Led'
  BY <1>1, BeginStep DEF IInv, TypeOK, Start
<1>3. /\ server' \in [Servers -> {"down", "starting", "serving"}] /\ server'[s] = "starting"
      /\ \A t \in Servers : t # s => server'[t] = server[t]
  BY DEF IInv, TypeOK, Start
<1>4. TypeOK'
  BY <1>2, <1>3 DEF IInv, TypeOK, Start, tables
<1>5. Owned'
  <2> SUFFICES ASSUME NEW t \in Servers PROVE Owned!(t)'
    BY DEF Owned
  <2>1. CASE t = s
    BY <2>1, <1>1, <1>3 DEF Start
  <2>2. CASE t # s
    BY <2>2, <1>2, <1>3 DEF IInv, Owned, At, LockFree, Start
  <2> QED
    BY <2>1, <2>2
<1> QED
  BY <1>2, <1>4, <1>5 DEF IInv

(* A server that stops leaves the tables as they are.                       *)
LEMMA StopStep == ASSUME IInv, NEW s \in Servers, Stop(s) PROVE IInv'
<1> USE DEF Stop, tables
<1>1. NoInit \in [at : Awaiting \cup {"off", "done"}, todo : Seq(ItemNames)] /\ NoInit.at = "off"
  BY DEF NoInit, Awaiting
<1>2. /\ init' \in [Servers -> [at : Awaiting \cup {"off", "done"}, todo : Seq(ItemNames)]]
      /\ server' \in [Servers -> {"down", "starting", "serving"}]
      /\ backend' \in [Servers -> {"none", "made", "open", "ready"}]
      /\ init'[s] = NoInit /\ server'[s] = "down" /\ backend'[s] = "none"
      /\ \A t \in Servers : t # s =>
             init'[t] = init[t] /\ server'[t] = server[t] /\ backend'[t] = backend[t]
  BY <1>1 DEF IInv, TypeOK
<1>3. /\ request' \in [Servers -> [Requests -> Outcomes \cup {"idle", "waiting", "initializing"}]]
      /\ \A r \in Requests : request'[s][r] = "idle"
      /\ \A t \in Servers : t # s => request'[t] = request[t]
  BY DEF IInv, TypeOK
<1>4. TypeOK'
  BY <1>2, <1>3 DEF IInv, TypeOK
<1>5. Fresh' /\ VersionMeansSchema' /\ Led'
  BY <1>2 DEF IInv, Fresh, VersionMeansSchema, Led
<1>6. Begun' /\ Owned'
  <2> SUFFICES ASSUME NEW t \in Servers PROVE Begun!(t)' /\ Owned!(t)'
    BY DEF Begun, Owned
  <2>1. CASE t = s
    BY <2>1, <1>1, <1>2, <1>3 DEF At
  <2>2. CASE t # s
    <3>1. /\ init'[t] = init[t] /\ Left(t)' = Left(t)
          /\ server'[t] = server[t] /\ request'[t] = request[t]
      BY <2>2, <1>2, <1>3 DEF Left, Todo
    <3> QED
      BY <3>1 DEF IInv, Begun, Owned, At, Todo, LockFree
  <2> QED
    BY <2>1, <2>2
<1> QED
  BY <1>4, <1>5, <1>6 DEF IInv

(* A request that changes its state without giving or taking the lock.      *)
LEMMA RequestStep ==
    ASSUME IInv, NEW s \in Servers, NEW r \in Requests, NEW to \in Outcomes \cup {"idle", "waiting"},
           server[s] = "serving", request[s][r] # "initializing", SetRequest(s, r, to),
           UNCHANGED <<tables, server, backend, init, faults>>
    PROVE  IInv'
<1> USE DEF tables, SetRequest
<1>1. /\ request' \in [Servers -> [Requests -> Outcomes \cup {"idle", "waiting", "initializing"}]]
      /\ request'[s][r] = to /\ to # "initializing"
      /\ \A q \in Requests : q # r => request'[s][q] = request[s][q]
      /\ \A t \in Servers : t # s => request'[t] = request[t]
  BY DEF IInv, TypeOK, Outcomes
<1>2. TypeOK'
  BY <1>1 DEF IInv, TypeOK
<1>3. Fresh' /\ Begun' /\ VersionMeansSchema' /\ Led'
  <2>1. \A t \in Servers : Leader(t)' = Leader(t) /\ Left(t)' = Left(t)
    BY DEF Leader, Left, At, Todo
  <2> QED
    BY <2>1 DEF IInv, Fresh, Begun, VersionMeansSchema, Led, At, Todo
<1>4. Owned'
  <2> SUFFICES ASSUME NEW t \in Servers PROVE Owned!(t)'
    BY DEF Owned
  <2>1. LockFree(t)' => LockFree(t)
    BY <1>1 DEF LockFree
  <2> QED
    BY <2>1, <1>1 DEF IInv, Owned, At
<1> QED
  BY <1>2, <1>3, <1>4 DEF IInv

(* A request asks for the backend.                                          *)
LEMMA AskStep == ASSUME IInv, NEW s \in Servers, NEW r \in Requests, Ask(s, r) PROVE IInv'
<1>1. backend[s] \in {"none", "made", "open", "ready"}
  BY DEF IInv, TypeOK
<1>2. (IF backend[s] # "none" THEN Got(s) ELSE "waiting") \in Outcomes \cup {"idle", "waiting"}
  BY <1>1 DEF Got, Outcomes
<1> QED
  BY <1>2, RequestStep DEF Ask

(* A request that waits for the lock is cancelled.                          *)
LEMMA CancelStep == ASSUME IInv, NEW s \in Servers, NEW r \in Requests, Cancel(s, r) PROVE IInv'
BY RequestStep DEF Cancel, Outcomes, IInv, Owned

(* The request that takes the lock finds no initialize of this server.      *)
LEMMA AcquireStep == ASSUME IInv, NEW s \in Servers, NEW r \in Requests, Acquire(s, r) PROVE IInv'
<1>1. server[s] = "serving" /\ At(s, "off") /\ request[s][r] # "initializing"
  BY DEF IInv, Owned, Acquire
<1>2. CASE backend[s] # "none"
  <2>1. Got(s) \in Outcomes
    BY <1>2 DEF Got, Outcomes, IInv, TypeOK
  <2> QED
    BY <1>1, <1>2, <2>1, RequestStep DEF Acquire
<1>3. CASE backend[s] = "none"
  <2> USE DEF Acquire, SetRequest, tables
  <2>1. /\ backend' \in [Servers -> {"none", "made", "open", "ready"}]
        /\ \A t \in Servers : backend'[t] = "ready" => backend[t] = "ready"
    BY <1>3 DEF IInv, TypeOK
  <2>2. /\ init' \in [Servers -> [at : Awaiting \cup {"off", "done"}, todo : Seq(ItemNames)]]
        /\ \A t \in Servers : t # s => init'[t] = init[t]
        /\ Fresh' /\ Begun' /\ VersionMeansSchema' /\ Led'
    BY <1>1, <1>3, <2>1, BeginStep
  <2>3. /\ request' \in [Servers ->
               [Requests -> Outcomes \cup {"idle", "waiting", "initializing"}]]
        /\ request'[s][r] = "initializing"
        /\ \A t \in Servers : t # s => request'[t] = request[t]
    <3>1. request' = [request EXCEPT ![s][r] = "initializing"]
      BY <1>3
    <3>2. /\ request \in [Servers ->
                 [Requests -> Outcomes \cup {"idle", "waiting", "initializing"}]]
          /\ "initializing" \in Outcomes \cup {"idle", "waiting", "initializing"}
      BY DEF IInv, TypeOK
    <3> HIDE DEF IInv, Acquire, SetRequest
    <3> QED
      BY <3>1, <3>2
  <2>4. TypeOK'
    BY <2>1, <2>2, <2>3 DEF IInv, TypeOK
  <2>5. Owned'
    <3> SUFFICES ASSUME NEW t \in Servers PROVE Owned!(t)'
      BY DEF Owned
    <3>1. CASE t = s
      BY <3>1, <1>1, <2>3 DEF LockFree
    <3>2. CASE t # s
      BY <3>2, <2>2, <2>3 DEF IInv, Owned, At, LockFree
    <3> QED
      BY <3>1, <3>2
  <2> QED
    BY <2>2, <2>4, <2>5 DEF IInv
<1> QED
  BY <1>2, <1>3

----------------------------------------------------------------------------
(* The invariant is about the variables of the specification only.          *)
LEMMA StutterStep == ASSUME IInv, UNCHANGED vars PROVE IInv'
<1>1. \A t \in Servers : Leader(t)' = Leader(t) /\ Left(t)' = Left(t) /\ LockFree(t)' = LockFree(t)
  BY DEF Leader, Left, At, Todo, LockFree, vars, tables
<1> QED
  BY <1>1 DEF IInv, TypeOK, Fresh, Begun, Owned, VersionMeansSchema, Led, At, Todo, vars, tables

(* Every step keeps the invariant.                                          *)
LEMMA NextStep == IInv /\ [Next]_vars => IInv'
<1> SUFFICES ASSUME IInv, [Next]_vars PROVE IInv'
  OBVIOUS
<1>1. ASSUME NEW s \in Servers, Proceed(s) PROVE IInv'
  BY <1>1, ConnectStep, SchemaStep, ReadVersionStep, LookStep, AddStep, PromoteStep, RecordStep,
     InitializedStep DEF Proceed
<1>2. ASSUME NEW s \in Servers, Fail(s) \/ Start(s) \/ Stop(s) PROVE IInv'
  BY <1>2, FailStep, StartStep, StopStep
<1>3. ASSUME NEW s \in Servers, NEW r \in Requests, Ask(s, r) \/ Acquire(s, r) \/ Cancel(s, r)
      PROVE  IInv'
  BY <1>3, AskStep, AcquireStep, CancelStep
<1> QED
  BY <1>1, <1>2, <1>3, StutterStep DEF Next

(* The invariant holds of every reachable state.                            *)
THEOREM AlwaysInv == Spec => []IInv
BY Initially, NextStep, PTL DEF Spec

(* The values of every variable stay in their sets, in particular the items *)
(* still to be migrated: the migrations never ask for one that is unknown.  *)
THEOREM DatabaseTypeCorrect == Spec => []TypeOK
<1>1. IInv => TypeOK
  BY DEF IInv
<1> QED
  BY <1>1, AlwaysInv, PTL

(* The recorded version is true of the tables: _run_migrations records it   *)
(* only after every item is there, and none is ever taken away.             *)
THEOREM VersionAlwaysTrue == Spec => []VersionMeansSchema
<1>1. IInv => VersionMeansSchema
  BY DEF IInv
<1> QED
  BY <1>1, AlwaysInv, PTL

(* However many servers start together, a migration begun is over or some   *)
(* server is at work on it, unless a statement failed or a server stopped.  *)
THEOREM SomebodyUpgrades == Spec => []OneUpgrades
<1>1. ASSUME NEW s \in Servers, Leader(s) PROVE init[s].at # "off"
  BY <1>1 DEF Leader, At
<1>2. IInv => OneUpgrades
  BY <1>1 DEF IInv, Led, OneUpgrades
<1> QED
  BY <1>2, AlwaysInv, PTL

=============================================================================
