--------------------------- MODULE UserFilesProofs ---------------------------
(***************************************************************************)
(* Proofs about the encrypted files, the rotation of the master key and    *)
(* the migration of UserFiles, for every set of services and every bound   *)
(* on the number of keys.  A step of the server makes several writes and   *)
(* may be cut off at any of them, so the first lemmas say what a sequence  *)
(* of writes, or a part of one, leaves on disk; the invariant is then kept *)
(* by any step whose writes are of the right kind (ServeStep), and the     *)
(* user's calls and the migration's steps only have to be shown such.  A   *)
(* rotation runs beside the server a file at a time: the invariant says at *)
(* each of its stages which keys the files and the server may be left with.*)
(***************************************************************************)
EXTENDS UserFiles, WellFoundedInduction, TLAPS

(* What a file and a key file may hold: only keys that were generated.      *)
Data == SUBSET Entries
FileBlobs == {Absent, Torn} \cup {Plain(data) : data \in Data}
                 \cup {Sealed(key, data) : key \in 1..issued, data \in Data}
KeyBlobs == {Absent, Torn} \cup {KeyFile(key) : key \in 1..issued}

(* A key is cached when the key file is read or written, and the file never *)
(* goes away.                                                               *)
DiskOK ==
    /\ \A f \in Files : disk[f] \in FileBlobs
    /\ \A p \in KeyPaths : disk[p] \in KeyBlobs
    /\ cached # NoKey => disk["master"] # Absent

(* A rotation has a key to replace, and replaces it before it writes files. *)
RotationOK ==
    /\ rot.at # "off" => disk["master"] \notin {Absent, Torn}
    /\ rot.at = "key" => rot.todo = {}
    /\ rot.at = "files" => disk["master"] = KeyFile(issued)

(* A file holds what it owes, and none is overwritten in good order.        *)
DataKept == lost = {} /\ \A f \in Stores : disk[f].data = owed[f]

(* Until the key file is replaced, the server and the files that the        *)
(* rotation has read are under the key that is about to become the backup.  *)
Replacing == rot.at \in {"read", "key"}
Near(key, masterOnly) ==
    disk["master"] = KeyFile(key) \/ (~masterOnly /\ disk["master.bak"] = KeyFile(key))

KeysNear ==
    ~behind =>
        /\ rot.at = "key" => disk["master.bak"] = disk["master"]
        /\ cached # NoKey => Near(cached, Replacing)
        /\ \A f \in Stores : disk[f].form = "sealed" /\ f \notin skipped =>
              Near(disk[f].key, Replacing /\ f \notin rot.todo)

(* When nothing runs beside a rotation and none is cut off, no process has  *)
(* a key but the key file's, every file is under that key or about to be    *)
(* rewritten, and what is about to be written is what the file holds.       *)
InOrder ==
    orderly =>
        /\ cached # NoKey => rot.at = "off" /\ disk["master"] = KeyFile(cached)
        /\ \A f \in Stores : disk[f].form = "sealed" =>
              /\ disk["master"] = KeyFile(disk[f].key) \/ (rot.at = "files" /\ f \in rot.got)
              /\ Replacing => f \in rot.todo \cup rot.got
        /\ \A f \in rot.got : rot.at # "off" => rot.data[f] = disk[f].data

(* While a file is being copied, what can be read of it is a row, is still  *)
(* to be copied, or was stored since the migration read it.                 *)
CopyCovers ==
    mig.at = "copy" =>
        cached # NoKey /\ Load(disk[mig.cur]) \subseteq mig.todo \cup mig.rows \cup mig.late

(* The inductive invariant.                                                 *)
IInv == TypeOK /\ DiskOK /\ RotationOK /\ DataKept /\ KeysNear /\ InOrder /\ CopyCovers

----------------------------------------------------------------------------
(* Writes and stops *)

(* A set of numbers up to n that is not empty has a last one.               *)
LEMMA LastExists ==
    ASSUME NEW n \in Nat, NEW W \in SUBSET (1..n), W # {}
    PROVE  \E i \in W : \A j \in W : j <= i
<1> DEFINE T == {n - i : i \in W}
           R == OpToRel(<, Nat)
<1>1. T \subseteq Nat /\ T # {}
  <2>1. \A i \in W : n - i \in Nat
    OBVIOUS
  <2> QED
    BY <2>1
<1>2. PICK x \in T : \A y \in T : ~(<<y, x>> \in R)
  <2> HIDE DEF T, R
  <2>1. IsWellFoundedOn(R, Nat)
    BY NatLessThanWellFounded DEF R
  <2> QED
    BY <1>1, <2>1, WFMin
<1>3. PICK i \in W : x = n - i
  OBVIOUS
<1>4. ASSUME NEW j \in W PROVE j <= i
  <2>1. n - j \in T /\ n - i \in T
    OBVIOUS
  <2>2. ~(n - j < n - i)
    BY <1>1, <1>2, <1>3, <2>1 DEF OpToRel
  <2> QED
    BY <2>2
<1> QED
  BY <1>4

(* What is on disk after the writes: the blob of the last one to a path.    *)
LEMMA AfterFacts ==
    ASSUME NEW S, NEW d, NEW w \in Seq(S), NEW p \in Paths
    PROVE  \/ After(d, w)[p] = d[p] /\ \A i \in DOMAIN w : w[i].path # p
           \/ \E i \in DOMAIN w : /\ w[i].path = p /\ After(d, w)[p] = w[i].blob
                                  /\ \A j \in DOMAIN w : w[j].path = p => j <= i
<1>1. CASE WritesTo(w, p) = {}
  BY <1>1 DEF After, WritesTo
<1>2. CASE WritesTo(w, p) # {}
  <2>1. WritesTo(w, p) \subseteq 1..Len(w) /\ Len(w) \in Nat
    BY DEF WritesTo
  <2>2. \E i \in WritesTo(w, p) : \A j \in WritesTo(w, p) : j <= i
    BY <1>2, <2>1, LastExists
  <2>3. /\ LastTo(w, p) \in WritesTo(w, p)
        /\ \A j \in WritesTo(w, p) : j <= LastTo(w, p)
    BY <2>2 DEF LastTo
  <2>4. After(d, w)[p] = w[LastTo(w, p)].blob
    BY <1>2 DEF After
  <2> QED
    BY <2>3, <2>4 DEF WritesTo
<1> QED
  BY <1>1, <1>2

(* One write changes its path alone.                                        *)
LEMMA AfterOne ==
    ASSUME NEW d, NEW q, NEW b, NEW p \in Paths
    PROVE  After(d, Write(q, b))[p] = IF p = q THEN b ELSE d[p]
<1> DEFINE w == Write(q, b)
<1>1. w \in Seq({w[1]}) /\ DOMAIN w = {1} /\ w[1].path = q /\ w[1].blob = b
  BY DEF Write
<1> HIDE DEF w
<1>2. After(d, w)[p] = IF p = q THEN b ELSE d[p]
  BY <1>1, AfterFacts
<1> QED
  BY <1>2 DEF w

(* No write changes nothing.                                                *)
LEMMA AfterNone ==
    ASSUME NEW d, NEW p \in Paths
    PROVE  After(d, <<>>)[p] = d[p]
BY DEF After, WritesTo

(* Writes one after the other.                                              *)
LEMMA AfterBoth ==
    ASSUME NEW S, NEW d, NEW u \in Seq(S), NEW v \in Seq(S), NEW p \in Paths
    PROVE  After(d, u \o v)[p] = After(After(d, u), v)[p]
<1> DEFINE w == u \o v
<1>1. /\ w \in Seq(S) /\ Len(w) = Len(u) + Len(v) /\ Len(u) \in Nat /\ Len(v) \in Nat
      /\ \A i \in 1..Len(u) : w[i] = u[i]
      /\ \A i \in 1..Len(v) : w[Len(u) + i] = v[i]
      /\ \A i \in (Len(u) + 1)..Len(w) : w[i] = v[i - Len(u)]
  OBVIOUS
<1>2. DOMAIN w = 1..(Len(u) + Len(v)) /\ DOMAIN u = 1..Len(u) /\ DOMAIN v = 1..Len(v)
  BY <1>1
<1> HIDE DEF w
<1>3. CASE \A i \in DOMAIN v : v[i].path # p
  <2>1. After(After(d, u), v)[p] = After(d, u)[p]
    BY <1>3, AfterFacts
  <2>2. ASSUME NEW i \in DOMAIN w, w[i].path = p PROVE i \in DOMAIN u
    <3>1. CASE i > Len(u)
      <4>1. w[i] = v[i - Len(u)] /\ i - Len(u) \in DOMAIN v
        BY <1>1, <1>2, <3>1
      <4> QED
        BY <1>3, <2>2, <4>1
    <3> QED
      BY <1>1, <1>2, <3>1
  <2>3. CASE \A i \in DOMAIN u : u[i].path # p
    <3>1. \A i \in DOMAIN w : w[i].path # p
      BY <1>1, <1>2, <2>2, <2>3
    <3>2. After(d, w)[p] = d[p]
      <4>1. w \in Seq(S)
        BY <1>1
      <4> QED
        BY <3>1, <4>1, AfterFacts
    <3>3. After(d, u)[p] = d[p]
      BY <2>3, AfterFacts
    <3> QED
      BY <2>1, <3>2, <3>3 DEF w
  <2>4. CASE ~(\A i \in DOMAIN u : u[i].path # p)
    <3>1. PICK i \in DOMAIN u : /\ u[i].path = p /\ After(d, u)[p] = u[i].blob
                                /\ \A j \in DOMAIN u : u[j].path = p => j <= i
      BY <2>4, AfterFacts
    <3>2. i \in DOMAIN w /\ w[i] = u[i]
      BY <1>1, <1>2
    <3>3. PICK k \in DOMAIN w : /\ w[k].path = p /\ After(d, w)[p] = w[k].blob
                                /\ \A j \in DOMAIN w : w[j].path = p => j <= k
      <4>1. w \in Seq(S) /\ ~(\A k \in DOMAIN w : w[k].path # p)
        BY <1>1, <3>1, <3>2
      <4> QED
        BY <4>1, AfterFacts
    <3>4. k \in DOMAIN u /\ w[k] = u[k]
      BY <1>1, <1>2, <2>2, <3>3
    <3>5. k = i
      BY <1>2, <3>1, <3>2, <3>3, <3>4
    <3> QED
      BY <2>1, <3>1, <3>3, <3>4, <3>5 DEF w
  <2> QED
    BY <2>3, <2>4
<1>4. CASE ~(\A i \in DOMAIN v : v[i].path # p)
  <2>1. PICK i \in DOMAIN v : /\ v[i].path = p /\ After(After(d, u), v)[p] = v[i].blob
                              /\ \A j \in DOMAIN v : v[j].path = p => j <= i
    BY <1>4, AfterFacts
  <2>2. Len(u) + i \in DOMAIN w /\ w[Len(u) + i] = v[i]
    BY <1>1, <1>2
  <2>3. PICK k \in DOMAIN w : /\ w[k].path = p /\ After(d, w)[p] = w[k].blob
                              /\ \A j \in DOMAIN w : w[j].path = p => j <= k
    <3>1. w \in Seq(S) /\ ~(\A k \in DOMAIN w : w[k].path # p)
      BY <1>1, <2>1, <2>2
    <3> QED
      BY <3>1, AfterFacts
  <2>4. Len(u) + i <= k
    BY <2>1, <2>2, <2>3
  <2>5. k - Len(u) \in DOMAIN v /\ w[k] = v[k - Len(u)]
    BY <1>1, <1>2, <2>4
  <2>6. k = Len(u) + i
    BY <1>1, <1>2, <2>1, <2>3, <2>4, <2>5
  <2> QED
    BY <2>1, <2>2, <2>3, <2>6 DEF w
<1> QED
  BY <1>3, <1>4

(* What a stop leaves of a path: an empty file, what was there before any   *)
(* write to it, or what one of the writes already made has written.         *)
LEMMA CutFacts ==
    ASSUME NEW S, NEW w \in Seq(S), NEW d, Cut(w, d)
    PROVE  /\ d = [p \in Paths |-> d[p]]
           /\ \E i \in DOMAIN w : \A p \in Paths :
                 \/ d[p] = Torn /\ w[i].path = p
                 \/ d[p] = disk[p] /\ \A j \in 1..(i - 1) : w[j].path # p
                 \/ \E j \in 1..(i - 1) : w[j].path = p /\ d[p] = w[j].blob
<1>1. PICK i \in DOMAIN w :
         LET done == After(disk, SubSeq(w, 1, i - 1))
         IN d \in {done, After(done, Write(w[i].path, Torn))}
  BY DEF Cut
<1> DEFINE u == SubSeq(w, 1, i - 1)
           done == After(disk, u)
<1>2. /\ u \in Seq(S) /\ DOMAIN u = 1..(i - 1)
      /\ \A j \in 1..(i - 1) : u[j] = w[j]
  <2>1. i \in 1..Len(w) /\ Len(w) \in Nat
    OBVIOUS
  <2>2. Len(u) = i - 1
    BY <2>1
  <2> QED
    BY <2>1, <2>2
<1> HIDE DEF u
<1>3. ASSUME NEW p \in Paths
      PROVE  \/ done[p] = disk[p] /\ \A j \in 1..(i - 1) : w[j].path # p
             \/ \E j \in 1..(i - 1) : w[j].path = p /\ done[p] = w[j].blob
  BY <1>2, AfterFacts
<1>4. d = done \/ d = After(done, Write(w[i].path, Torn))
  BY <1>1 DEF u
<1>5. d = [p \in Paths |-> d[p]]
  BY <1>4 DEF After
<1>6. ASSUME NEW p \in Paths
      PROVE  d[p] = done[p] \/ (d[p] = Torn /\ w[i].path = p)
  BY <1>4, AfterOne
<1> QED
  BY <1>3, <1>5, <1>6

----------------------------------------------------------------------------
(* Keys and files *)

(* What is in each kind of file.                                            *)
LEMMA BlobFacts ==
    /\ Absent.form = "none" /\ Absent.data = {} /\ Torn.form = "torn" /\ Torn.data = {}
    /\ \A data : Plain(data).form = "plain" /\ Plain(data).data = data
    /\ \A key, data : /\ Sealed(key, data).form = "sealed"
                      /\ Sealed(key, data).key = key /\ Sealed(key, data).data = data
    /\ \A key : /\ KeyFile(key).form = "key" /\ KeyFile(key).key = key
                /\ KeyFile(key) # Absent /\ KeyFile(key) # Torn
BY DEF Absent, Torn, Plain, Sealed, KeyFile, Blob

(* The kinds of path are kept apart by their names.                         *)
LEMMA PathFacts ==
    /\ "master" \in Paths /\ "master.bak" \in Paths /\ "master" # "master.bak"
    /\ "master" \notin Files /\ "master.bak" \notin Files
    /\ Files \subseteq Paths /\ Stores \subseteq Files /\ "users" \in Files \ Stores
    /\ "credentials" \in Stores /\ "preferences" \in Stores /\ "credentials" # "preferences"
BY DEF Paths, Files, KeyPaths, Stores

(* The key a step works with is the cached one, the key file's, or new when *)
(* there is no key file.                                                    *)
LEMMA KeyFacts ==
    ASSUME TypeOK, DiskOK, KeyUsable
    PROVE  /\ KeyInUse \in 1..MaxKey /\ KeyInUse # NoKey
           /\ \/ /\ disk["master"] # Absent /\ KeyInUse \in 1..issued
                 /\ cached = KeyInUse \/ disk["master"] = KeyFile(KeyInUse)
              \/ disk["master"] = Absent /\ KeyInUse = issued + 1 /\ cached = NoKey
<1>1. disk["master"] \in KeyBlobs /\ issued \in 0..MaxKey /\ cached \in 0..issued
  BY DEF TypeOK, DiskOK, KeyPaths
<1>2. MaxKey \in Nat
  BY FilesAssumption
<1>3. CASE cached # NoKey
  <2>1. KeyInUse = cached /\ disk["master"] # Absent
    BY <1>3 DEF KeyInUse, DiskOK
  <2> QED
    BY <1>1, <1>2, <1>3, <2>1 DEF NoKey
<1>4. CASE cached = NoKey /\ disk["master"] = Absent
  BY <1>1, <1>2, <1>4 DEF KeyInUse, KeyUsable, NoKey
<1>5. CASE cached = NoKey /\ disk["master"] # Absent
  <2>1. KeyInUse = disk["master"].key /\ KeyInUse \in 1..MaxKey
    BY <1>5 DEF KeyInUse, KeyUsable
  <2>2. Torn.key = 0
    BY DEF Torn, Blob
  <2>3. PICK key \in 1..issued : disk["master"] = KeyFile(key)
    BY <1>1, <1>5, <2>1, <2>2 DEF KeyBlobs
  <2>4. KeyInUse = key
    BY <2>1, <2>3, BlobFacts
  <2> QED
    BY <1>1, <1>2, <1>5, <2>3, <2>4 DEF NoKey
<1> QED
  BY <1>3, <1>4, <1>5

(* A key file that is neither missing nor empty holds a generated key.      *)
LEMMA HeldKey ==
    ASSUME DiskOK, disk["master"] \notin {Absent, Torn}
    PROVE  /\ disk["master"].key \in 1..issued /\ disk["master"] = KeyFile(disk["master"].key)
           /\ disk["master"].form = "key"
<1>1. PICK key \in 1..issued : disk["master"] = KeyFile(key)
  BY DEF DiskOK, KeyPaths, KeyBlobs
<1> QED
  BY <1>1, BlobFacts

(* The step cannot open the file, though it holds entries.                  *)
Unread(f) == disk[f].form = "sealed" /\ ~Opens(disk[f], KeyInUse)

(* What is read of a file is what it owes, unless its key is another; then  *)
(* it changes by any save.                                                  *)
LEMMA StoresLoad ==
    ASSUME DiskOK, DataKept, NEW f \in Stores
    PROVE  /\ disk[f].data = owed[f] /\ owed[f] \in Data /\ Load(disk[f]) \in Data
           /\ ~Unread(f) => Load(disk[f]) = owed[f]
           /\ Unread(f) => Load(disk[f]) = {}
           /\ Unread(f) => \A data : Sealed(KeyInUse, data) # disk[f]
<1>1. disk[f] \in FileBlobs /\ disk[f].data = owed[f]
  BY PathFacts DEF DiskOK, DataKept
<1>2. owed[f] \in Data
  BY <1>1, BlobFacts DEF FileBlobs, Data
<1>3. ASSUME ~Unread(f) PROVE Load(disk[f]) = owed[f]
  <2>1. CASE Opens(disk[f], KeyInUse)
    BY <1>1, <2>1 DEF Load
  <2>2. CASE ~Opens(disk[f], KeyInUse)
    <3>1. disk[f].form \notin {"sealed", "plain"}
      BY <1>3, <2>2 DEF Unread, Opens
    <3>2. disk[f] \in {Absent, Torn}
      BY <1>1, <3>1, BlobFacts DEF FileBlobs
    <3> QED
      BY <1>1, <2>2, <3>2, BlobFacts DEF Load
  <2> QED
    BY <2>1, <2>2
<1>4. Unread(f) => Load(disk[f]) = {}
  BY DEF Unread, Load
<1>5. Unread(f) => \A data : Sealed(KeyInUse, data) # disk[f]
  BY BlobFacts DEF Unread, Opens
<1>6. Load(disk[f]) \in Data
  BY <1>2, <1>3, <1>4 DEF Data
<1> QED
  BY <1>1, <1>2, <1>3, <1>4, <1>5, <1>6

(* Reading a file gives entries, whatever it holds.                         *)
LEMMA LoadTypeOK ==
    ASSUME DiskOK, NEW f \in Files
    PROVE  disk[f].data \in Data /\ Load(disk[f]) \in Data
<1>1. disk[f] \in FileBlobs
  BY DEF DiskOK
<1>2. disk[f].data \in Data
  BY <1>1, BlobFacts DEF FileBlobs, Data
<1> QED
  BY <1>2 DEF Load, Data

(* The blobs that each kind of path may hold are blobs.                     *)
LEMMA DiskTypeOK ==
    ASSUME DiskOK', disk' = [p \in Paths |-> disk'[p]], issued' \in 0..MaxKey
    PROVE  disk' \in [Paths -> Blobs]
<1>1. MaxKey \in Nat
  BY FilesAssumption
<1>2. 1..issued' \subseteq 1..MaxKey
  BY <1>1
<1>3. FileBlobs' \subseteq Blobs /\ KeyBlobs' \subseteq Blobs
  BY <1>2 DEF FileBlobs, KeyBlobs, Blobs, Data
<1>4. \A p \in Paths : disk'[p] \in Blobs
  BY <1>3 DEF DiskOK, Paths
<1> QED
  BY <1>4

(* More keys, no fewer blobs.                                               *)
LEMMA BlobsGrow ==
    ASSUME issued \in Nat, issued' \in Nat, issued <= issued'
    PROVE  FileBlobs \subseteq FileBlobs' /\ KeyBlobs \subseteq KeyBlobs'
<1>1. 1..issued \subseteq 1..issued'
  OBVIOUS
<1> QED
  BY <1>1 DEF FileBlobs, KeyBlobs

----------------------------------------------------------------------------
(* Steps of the server *)

(* The writes a step makes after that of a first key: files encrypted with  *)
(* the key in use, one that it can open with what it owes already or will   *)
(* owe after the step.                                                      *)
Within(now) ==
    {r \in [path : Files, blob : {Sealed(KeyInUse, data) : data \in Data}] :
        r.path \in Stores /\ ~Unread(r.path) => r.blob.data \in {owed[r.path], now[r.path]}}

(* The first key comes before all other writes.                             *)
LEMMA FirstKeyFacts ==
    ASSUME NEW now, NEW w \in Seq(Within(now))
    PROVE  LET first == [path |-> "master", blob |-> KeyFile(KeyInUse)]
               all == FirstKey \o w
           IN /\ FirstKey \in Seq({first} \cup Within(now))
              /\ all \in Seq({first} \cup Within(now))
              /\ \/ disk["master"] # Absent /\ \A i \in DOMAIN all : all[i] \in Within(now)
                 \/ /\ disk["master"] = Absent /\ all[1] = first
                    /\ \A i \in DOMAIN all : i # 1 => all[i] \in Within(now)
<1> DEFINE first == [path |-> "master", blob |-> KeyFile(KeyInUse)]
           S == {first} \cup Within(now)
           all == FirstKey \o w
<1>1. w \in Seq(S) /\ \A i \in DOMAIN w : w[i] \in Within(now)
  OBVIOUS
<1>2. CASE disk["master"] = Absent
  <2>1. FirstKey = <<first>>
    BY <1>2 DEF FirstKey, Write
  <2> HIDE DEF first, S
  <2>2. FirstKey \in Seq(S)
    BY <2>1 DEF S
  <2>3. /\ all \in Seq(S) /\ all[1] = first /\ Len(all) = 1 + Len(w) /\ Len(w) \in Nat
        /\ DOMAIN all = 1..Len(all) /\ DOMAIN w = 1..Len(w)
        /\ \A i \in 2..Len(all) : all[i] = w[i - 1]
    BY <1>1, <2>1, <2>2
  <2>4. \A i \in DOMAIN all : i # 1 => all[i] \in Within(now)
    BY <1>1, <2>3
  <2> QED
    BY <1>2, <2>2, <2>3, <2>4 DEF S, first
<1>3. CASE disk["master"] # Absent
  <2>1. FirstKey = <<>> /\ FirstKey \in Seq(S)
    BY <1>3 DEF FirstKey
  <2>2. all = w
    BY <1>1, <2>1
  <2> QED
    BY <1>1, <1>3, <2>1, <2>2
<1> QED
  BY <1>2, <1>3

(* What a path may hold when a step has been carried out or cut off.        *)
Served(d, now) ==
    /\ d = [p \in Paths |-> d[p]]
    /\ \A f \in Files : \/ d[f] = disk[f] \/ d[f] = Torn
                        \/ /\ disk["master"] = Absent => d["master"] = KeyFile(KeyInUse)
                           /\ \E r \in Within(now) : r.path = f /\ d[f] = r.blob
    /\ d["master"] = disk["master"]
          \/ (disk["master"] = Absent /\ d["master"] \in {Torn, KeyFile(KeyInUse)})
    /\ d["master.bak"] = disk["master.bak"]

(* A step that is carried out leaves a key file, and its files as its writes*)
(* have them.                                                               *)
LEMMA ServedWhole ==
    ASSUME NEW now, NEW w \in Seq(Within(now)), NEW d, d = After(disk, FirstKey \o w)
    PROVE  /\ Served(d, now)
           /\ disk["master"] = Absent => d["master"] = KeyFile(KeyInUse)
           /\ \A f \in Files : d[f] = After(disk, w)[f]
<1> DEFINE first == [path |-> "master", blob |-> KeyFile(KeyInUse)]
           S == {first} \cup Within(now)
           all == FirstKey \o w
<1>1. /\ all \in Seq(S) /\ FirstKey \in Seq(S)
      /\ \/ disk["master"] # Absent /\ \A i \in DOMAIN all : all[i] \in Within(now)
         \/ /\ disk["master"] = Absent /\ all[1] = first
            /\ \A i \in DOMAIN all : i # 1 => all[i] \in Within(now)
  BY FirstKeyFacts
<1>2. w \in Seq(S)
  OBVIOUS
<1>3. \A r \in Within(now) : r.path \in Files
  BY DEF Within
<1>4. first.path = "master" /\ first.blob = KeyFile(KeyInUse)
  OBVIOUS
<1> HIDE DEF first, S
<1>5. d = [p \in Paths |-> d[p]]
  BY DEF After
<1>6. ASSUME NEW p \in Paths PROVE d[p] = After(After(disk, FirstKey), w)[p]
  BY <1>1, <1>2, AfterBoth
<1>7. ASSUME NEW p \in Paths, p \notin Files PROVE d[p] = After(disk, FirstKey)[p]
  <2>1. \A i \in DOMAIN w : w[i] \in Within(now)
    OBVIOUS
  <2> QED
    BY <1>2, <1>3, <1>6, <1>7, <2>1, AfterFacts
<1>8. \A p \in Paths : After(disk, FirstKey)[p] =
          IF p = "master" /\ disk["master"] = Absent THEN KeyFile(KeyInUse) ELSE disk[p]
  BY AfterOne, AfterNone DEF FirstKey
<1>9. /\ d["master"] = IF disk["master"] = Absent THEN KeyFile(KeyInUse) ELSE disk["master"]
      /\ d["master.bak"] = disk["master.bak"]
  BY <1>7, <1>8, PathFacts
<1>10. ASSUME NEW f \in Files
       PROVE  /\ d[f] = After(disk, w)[f]
              /\ d[f] = disk[f] \/ \E r \in Within(now) : r.path = f /\ d[f] = r.blob
  <2>1. After(disk, FirstKey)[f] = disk[f] /\ f \in Paths
    BY <1>8, PathFacts
  <2>2. After(After(disk, FirstKey), w)[f] = After(disk, w)[f]
    BY <2>1 DEF After
  <2>3. \A i \in DOMAIN w : w[i] \in Within(now)
    OBVIOUS
  <2>4. After(disk, w)[f] = disk[f]
           \/ \E i \in DOMAIN w : w[i].path = f /\ After(disk, w)[f] = w[i].blob
    BY <1>2, <2>1, AfterFacts
  <2> QED
    BY <1>6, <2>1, <2>2, <2>3, <2>4
<1> QED
  BY <1>5, <1>9, <1>10 DEF Served

(* A step that is cut off has written the first key before any file.        *)
LEMMA ServedCut ==
    ASSUME NEW now, NEW w \in Seq(Within(now)), NEW d, Cut(FirstKey \o w, d)
    PROVE  Served(d, now)
<1> DEFINE first == [path |-> "master", blob |-> KeyFile(KeyInUse)]
           S == {first} \cup Within(now)
           all == FirstKey \o w
<1>1. /\ all \in Seq(S)
      /\ \/ disk["master"] # Absent /\ \A i \in DOMAIN all : all[i] \in Within(now)
         \/ /\ disk["master"] = Absent /\ all[1] = first
            /\ \A i \in DOMAIN all : i # 1 => all[i] \in Within(now)
  BY FirstKeyFacts
<1>2. \A r \in Within(now) : r.path \in Files
  BY DEF Within
<1>3. first.path = "master" /\ first.blob = KeyFile(KeyInUse)
  OBVIOUS
<1> HIDE DEF first, S
<1>4. DOMAIN all = 1..Len(all) /\ Len(all) \in Nat
  BY <1>1
<1>5. Cut(all, d)
  OBVIOUS
<1> HIDE DEF all
<1>6. d = [p \in Paths |-> d[p]]
  BY <1>1, <1>5, CutFacts
<1>7. PICK i \in DOMAIN all : \A p \in Paths :
         \/ d[p] = Torn /\ all[i].path = p
         \/ d[p] = disk[p] /\ \A j \in 1..(i - 1) : all[j].path # p
         \/ \E j \in 1..(i - 1) : all[j].path = p /\ d[p] = all[j].blob
  BY <1>1, <1>5, CutFacts
<1>8. 1..(i - 1) \subseteq DOMAIN all
  BY <1>4
<1>9. CASE disk["master"] # Absent
  <2>1. \A j \in DOMAIN all : all[j] \in Within(now) /\ all[j].path \in Files
    BY <1>1, <1>2, <1>9
  <2>2. d["master"] = disk["master"] /\ d["master.bak"] = disk["master.bak"]
    BY <1>7, <1>8, <2>1, PathFacts
  <2>3. \A f \in Files : \/ d[f] = disk[f] \/ d[f] = Torn
                         \/ \E r \in Within(now) : r.path = f /\ d[f] = r.blob
    BY <1>7, <1>8, <2>1, PathFacts
  <2> QED
    BY <1>6, <1>9, <2>2, <2>3 DEF Served
<1>10. CASE disk["master"] = Absent
  <2>1. /\ all[1].path = "master" /\ all[1].blob = KeyFile(KeyInUse)
        /\ \A j \in DOMAIN all : j # 1 => all[j] \in Within(now) /\ all[j].path \in Files
    BY <1>1, <1>2, <1>3, <1>10
  <2>2. \A j \in DOMAIN all : all[j].path \in Files \cup {"master"}
    BY <2>1
  <2>3. d["master.bak"] = disk["master.bak"]
    BY <1>7, <1>8, <2>2, PathFacts
  <2>4. d["master"] \in {disk["master"], Torn, KeyFile(KeyInUse)}
    BY <1>7, <1>8, <2>1, PathFacts
  <2>5. ASSUME NEW f \in Files, d[f] # disk[f], d[f] # Torn
        PROVE  /\ d["master"] = KeyFile(KeyInUse)
               /\ \E r \in Within(now) : r.path = f /\ d[f] = r.blob
    <3>1. PICK j \in 1..(i - 1) : all[j].path = f /\ d[f] = all[j].blob
      BY <1>7, <2>5, PathFacts
    <3>2. j # 1 /\ j \in DOMAIN all
      BY <1>8, <2>1, <3>1, PathFacts
    <3>3. 1 \in 1..(i - 1) /\ i # 1
      BY <1>4, <3>1, <3>2
    <3>4. all[i].path # "master"
      BY <2>1, <3>3, PathFacts
    <3>5. PICK k \in 1..(i - 1) : all[k].path = "master" /\ d["master"] = all[k].blob
      BY <1>7, <2>1, <3>3, <3>4, PathFacts
    <3>6. k = 1
      BY <1>8, <2>1, <3>5, PathFacts
    <3> QED
      BY <2>1, <3>1, <3>2, <3>5, <3>6
  <2> QED
    BY <1>6, <1>10, <2>3, <2>4, <2>5 DEF Served
<1> QED
  BY <1>9, <1>10

(* Whether it is carried out or cut off, a step of the server leaves disk   *)
(* and keys in order, and every encrypted file near a key file to open it.  *)
LEMMA ServedSafe ==
    ASSUME TypeOK, DiskOK, RotationOK, KeysNear, KeyUsable, NEW now, Served(disk', now),
           issued' = IF KeyInUse > issued THEN KeyInUse ELSE issued,
           \/ cached' = NoKey
           \/ /\ cached' = KeyInUse
              /\ disk["master"] = Absent => disk'["master"] = KeyFile(KeyInUse),
           skipped' = {f \in skipped : disk'[f] = disk[f]},
           UNCHANGED <<rot, behind>>
    PROVE  /\ DiskOK' /\ RotationOK' /\ KeysNear' /\ disk' \in [Paths -> Blobs]
           /\ issued' \in 0..MaxKey /\ cached' \in 0..issued' /\ skipped' \subseteq Stores
<1>1. /\ issued \in 0..MaxKey /\ cached \in 0..issued /\ MaxKey \in Nat /\ skipped \subseteq Stores
  BY FilesAssumption DEF TypeOK
<1>2. /\ KeyInUse \in 1..MaxKey /\ KeyInUse # NoKey
      /\ \/ /\ disk["master"] # Absent /\ KeyInUse \in 1..issued
            /\ cached = KeyInUse \/ disk["master"] = KeyFile(KeyInUse)
         \/ disk["master"] = Absent /\ KeyInUse = issued + 1 /\ cached = NoKey
  BY KeyFacts
<1>3. issued' \in 0..MaxKey /\ issued <= issued' /\ KeyInUse \in 1..issued'
  BY <1>1, <1>2
<1>4. cached' \in 0..issued'
  BY <1>3 DEF NoKey
<1>5. FileBlobs \subseteq FileBlobs' /\ KeyBlobs \subseteq KeyBlobs'
  BY <1>1, <1>3, BlobsGrow
<1>6. ASSUME NEW f \in Files PROVE disk'[f] \in FileBlobs'
  <2>1. disk[f] \in FileBlobs' /\ Torn \in FileBlobs'
    BY <1>5 DEF DiskOK, FileBlobs
  <2>2. ASSUME NEW r \in Within(now) PROVE r.blob \in FileBlobs'
    <3>1. PICK data \in Data : r.blob = Sealed(KeyInUse, data)
      BY DEF Within
    <3> QED
      BY <1>3, <3>1 DEF FileBlobs, Data, Entries
  <2> QED
    BY <2>1, <2>2 DEF Served
<1>7. disk'["master"] \in KeyBlobs' /\ disk'["master.bak"] \in KeyBlobs'
  <2>1. KeyFile(KeyInUse) \in KeyBlobs' /\ Torn \in KeyBlobs'
    BY <1>3 DEF KeyBlobs
  <2> QED
    BY <1>5, <2>1 DEF Served, DiskOK, KeyPaths
<1>8. cached' # NoKey => disk'["master"] # Absent
  BY <1>2, BlobFacts DEF Served
<1>9. DiskOK'
  BY <1>6, <1>7, <1>8 DEF DiskOK, KeyPaths
<1>10. RotationOK'
  <2>1. ASSUME rot.at # "off" PROVE disk'["master"] = disk["master"] /\ issued' = issued
    BY <1>1, <1>2, <2>1 DEF RotationOK, Served
  <2> QED
    BY <2>1 DEF RotationOK
<1>11. disk' \in [Paths -> Blobs]
  BY <1>3, <1>9, DiskTypeOK DEF Served
<1>12. ASSUME ~behind, disk["master"] = Absent => disk'["master"] = KeyFile(KeyInUse)
       PROVE  disk'["master"] = KeyFile(KeyInUse)
                 \/ (~Replacing /\ disk'["master.bak"] = KeyFile(KeyInUse))
  <2>1. CASE disk["master"] # Absent
    <3>1. disk'["master"] = disk["master"] /\ disk'["master.bak"] = disk["master.bak"]
      BY <2>1 DEF Served
    <3>2. Near(KeyInUse, Replacing)
      BY <1>2, <1>12, <2>1 DEF KeysNear, Near
    <3> QED
      BY <3>1, <3>2 DEF Near
  <2> QED
    BY <1>12, <2>1
<1>13. ASSUME NEW f \in Stores, ~behind, disk'[f].form = "sealed", f \notin skipped'
       PROVE  Near(disk[f].key, Replacing /\ f \notin rot.todo)'
  <2>1. f \in Files
    BY PathFacts
  <2>2. CASE disk'[f] = disk[f]
    <3>1. Near(disk[f].key, Replacing /\ f \notin rot.todo)
      BY <1>13, <2>2 DEF KeysNear
    <3>2. disk'["master.bak"] = disk["master.bak"]
      BY DEF Served
    <3>3. \A key : disk["master"] = KeyFile(key) => disk'["master"] = KeyFile(key)
      BY BlobFacts DEF Served
    <3> QED
      BY <2>2, <3>1, <3>2, <3>3 DEF Near, Replacing
  <2>3. CASE /\ disk["master"] = Absent => disk'["master"] = KeyFile(KeyInUse)
             /\ \E r \in Within(now) : r.path = f /\ disk'[f] = r.blob
    <3>1. PICK data \in Data : disk'[f] = Sealed(KeyInUse, data)
      BY <2>3 DEF Within
    <3>2. disk'[f].key = KeyInUse
      BY <3>1, BlobFacts
    <3> QED
      BY <1>12, <1>13, <2>3, <3>2 DEF Near, Replacing
  <2> QED
    BY <1>13, <2>1, <2>2, <2>3, BlobFacts DEF Served
<1>14. ASSUME ~behind, cached' # NoKey PROVE Near(cached, Replacing)'
  BY <1>12, <1>14 DEF Near, Replacing
<1>15. ASSUME ~behind, rot.at = "key" PROVE disk'["master.bak"] = disk'["master"]
  <2>1. disk["master.bak"] = disk["master"] /\ disk["master"] # Absent
    BY <1>15 DEF KeysNear, RotationOK
  <2> QED
    BY <2>1 DEF Served
<1>16. KeysNear'
  BY <1>13, <1>14, <1>15 DEF KeysNear
<1> QED
  BY <1>1, <1>3, <1>4, <1>9, <1>10, <1>11, <1>16

(* In good order and with no rotation under way the server opens every file,*)
(* and leaves them so.                                                      *)
LEMMA ServedInOrder ==
    ASSUME TypeOK, DiskOK, InOrder, KeyUsable, NEW now, Served(disk', now),
           orderly, rot.at = "off",
           \/ cached' = NoKey
           \/ /\ cached' = KeyInUse
              /\ disk["master"] = Absent => disk'["master"] = KeyFile(KeyInUse),
           UNCHANGED rot
    PROVE  InOrder' /\ \A f \in Stores : ~Unread(f)
<1>1. /\ cached # NoKey => disk["master"] = KeyFile(cached)
      /\ \A f \in Stores : disk[f].form = "sealed" => disk["master"] = KeyFile(disk[f].key)
  BY DEF InOrder
<1>2. \/ disk["master"] = KeyFile(KeyInUse)
      \/ disk["master"] = Absent
  BY <1>1, KeyFacts
<1>3. ASSUME NEW f \in Stores PROVE ~Unread(f)
  <2>1. SUFFICES ASSUME disk[f].form = "sealed" PROVE Opens(disk[f], KeyInUse)
    BY DEF Unread
  <2>2. disk["master"] = KeyFile(disk[f].key)
    BY <1>1, <2>1
  <2>3. disk[f].key = KeyInUse
    BY <1>2, <2>2, BlobFacts
  <2> QED
    BY <2>1, <2>3 DEF Opens
<1>4. cached' # NoKey => disk'["master"] = KeyFile(cached')
  BY <1>2, BlobFacts DEF Served
<1>5. ASSUME NEW f \in Stores, disk'[f].form = "sealed"
      PROVE  disk'["master"] = KeyFile(disk'[f].key)
  <2>1. f \in Files
    BY PathFacts
  <2>2. CASE disk'[f] = disk[f]
    <3>1. disk["master"] = KeyFile(disk[f].key)
      BY <1>1, <1>5, <2>2
    <3>2. disk'["master"] = disk["master"]
      BY <3>1, BlobFacts DEF Served
    <3> QED
      BY <2>2, <3>1, <3>2
  <2>3. CASE /\ disk["master"] = Absent => disk'["master"] = KeyFile(KeyInUse)
             /\ \E r \in Within(now) : r.path = f /\ disk'[f] = r.blob
    <3>1. PICK data \in Data : disk'[f] = Sealed(KeyInUse, data)
      BY <2>3 DEF Within
    <3>2. disk'["master"] = KeyFile(KeyInUse)
      BY <1>2, <2>3, BlobFacts DEF Served
    <3> QED
      BY <3>1, <3>2, BlobFacts
  <2> QED
    BY <1>5, <2>1, <2>2, <2>3, BlobFacts DEF Served
<1> QED
  BY <1>3, <1>4, <1>5 DEF InOrder, Replacing

(* What the migration and a rotation keep track of.                         *)
Migration == [at : {"fresh", "pick", "copy", "off"}, cur : Files, left : SUBSET Files,
              todo : SUBSET Entries, rows : SUBSET Entries, late : SUBSET Entries]
Rotation == [at : {"off", "read", "key", "files"}, todo : SUBSET Stores, got : SUBSET Stores,
             data : [Stores -> SUBSET Entries]]

(* A process that starts is at the start of the migration.                  *)
LEMMA FreshTypeOK == Fresh \in Migration /\ Fresh.at = "fresh"
BY DEF Fresh, Migration, Files

(* What the files owe are entries, as what they hold are.                   *)
LEMMA OwedTypeOK ==
    ASSUME DiskOK', DataKept', owed' = [f \in Stores |-> owed'[f]]
    PROVE  owed' \in [Stores -> SUBSET Entries]
<1>1. ASSUME NEW f \in Stores PROVE owed'[f] \in SUBSET Entries
  <2>1. disk'[f] \in FileBlobs' /\ owed'[f] = disk'[f].data
    BY PathFacts DEF DiskOK, DataKept
  <2> QED
    BY <2>1, BlobFacts DEF FileBlobs, Data
<1> QED
  BY <1>1

(* Every file is left by the writes with what it is to owe, or the step     *)
(* overwrites what it cannot open.                                          *)
Settled(w, now) ==
    \A f \in Stores : \/ After(disk, w)[f].data = now[f]
                      \/ Unread(f) /\ After(disk, w)[f] # disk[f]

(* A step of the server keeps the invariant when it saves in every file     *)
(* what it is to owe, and leaves the migration with all it has to copy.     *)
LEMMA ServeStep ==
    ASSUME IInv, NEW now, NEW w \in Seq(Within(now)),
           NEW next \in Migration, Serve(w, now, next), user' \in BOOLEAN,
           Settled(w, now),
           next.at = "copy" =>
               Load(After(disk, w)[next.cur]) \subseteq next.todo \cup next.rows \cup next.late
    PROVE  IInv'
<1> DEFINE Owes(f, data) == IF disk'[f] = Torn \/ Overwrites(f) THEN disk'[f].data ELSE data
<1>1. /\ TypeOK /\ DiskOK /\ RotationOK /\ DataKept /\ KeysNear /\ InOrder /\ KeyUsable
      /\ issued' = IF KeyInUse > issued THEN KeyInUse ELSE issued
      /\ skipped' = {f \in skipped : disk'[f] = disk[f]}
      /\ orderly' = (orderly /\ rot.at = "off")
      /\ lost' = lost \cup {f \in Stores : orderly' /\ Overwrites(f)}
      /\ bak' = bak /\ rot' = rot /\ behind' = behind
  BY DEF IInv, Serve
<1>2. KeyInUse \in 1..MaxKey /\ KeyInUse # NoKey
  BY <1>1, KeyFacts
<1>3. \A f \in Stores : Overwrites(f) <=> Unread(f) /\ disk'[f] # disk[f]
  BY DEF Overwrites, Unread
<1>4. CASE /\ disk' = After(disk, FirstKey \o w) /\ cached' = KeyInUse
           /\ owed' = [f \in Stores |-> Owes(f, now[f])] /\ mig' = next
  <2>1. /\ Served(disk', now)
        /\ disk["master"] = Absent => disk'["master"] = KeyFile(KeyInUse)
        /\ \A f \in Files : disk'[f] = After(disk, w)[f]
    BY <1>4, ServedWhole
  <2>2. /\ DiskOK' /\ RotationOK' /\ KeysNear' /\ disk' \in [Paths -> Blobs]
        /\ issued' \in 0..MaxKey /\ cached' \in 0..issued' /\ skipped' \subseteq Stores
    BY <1>1, <1>4, <2>1, ServedSafe
  <2>3. orderly' => InOrder' /\ \A f \in Stores : ~Unread(f)
    BY <1>1, <1>4, <2>1, ServedInOrder
  <2>4. ASSUME NEW f \in Stores PROVE disk'[f].data = owed'[f]
    <3>1. owed'[f] = Owes(f, now[f]) /\ disk'[f] = After(disk, w)[f]
      BY <1>4, <2>1, PathFacts
    <3> QED
      BY <1>3, <3>1 DEF Settled
  <2>5. DataKept'
    BY <1>1, <1>3, <2>3, <2>4 DEF DataKept
  <2>6. TypeOK'
    BY <1>1, <1>4, <2>2, <2>4, <2>5, OwedTypeOK DEF TypeOK, Migration
  <2>7. KeyInUse' = KeyInUse
    BY <1>2, <1>4 DEF KeyInUse
  <2>8. CopyCovers'
    <3>1. SUFFICES ASSUME next.at = "copy"
                   PROVE  Load(disk[next.cur])' \subseteq next.todo \cup next.rows \cup next.late
      BY <1>2, <1>4 DEF CopyCovers
    <3>2. disk'[next.cur] = After(disk, w)[next.cur]
      BY <2>1 DEF Migration
    <3>3. Load(disk[next.cur])' = Load(After(disk, w)[next.cur])
      BY <2>7, <3>2 DEF Load, Opens
    <3> QED
      BY <3>1, <3>3
  <2>9. InOrder'
    BY <2>3 DEF InOrder
  <2> QED
    BY <2>2, <2>5, <2>6, <2>8, <2>9 DEF IInv
<1>5. CASE /\ Cut(FirstKey \o w, disk') /\ NewProcess
           /\ owed' = [f \in Stores |-> Owes(f, IF disk'[f].data = now[f] THEN now[f] ELSE owed[f])]
  <2>1. cached' = NoKey /\ mig' = Fresh
    BY <1>5 DEF NewProcess
  <2>2. Served(disk', now)
    BY <1>5, ServedCut
  <2>3. /\ DiskOK' /\ RotationOK' /\ KeysNear' /\ disk' \in [Paths -> Blobs]
        /\ issued' \in 0..MaxKey /\ cached' \in 0..issued' /\ skipped' \subseteq Stores
    BY <1>1, <2>1, <2>2, ServedSafe
  <2>4. orderly' => InOrder' /\ \A f \in Stores : ~Unread(f)
    BY <1>1, <2>1, <2>2, ServedInOrder
  <2>5. ASSUME NEW f \in Stores PROVE disk'[f].data = owed'[f]
    <3>1. owed'[f] = Owes(f, IF disk'[f].data = now[f] THEN now[f] ELSE owed[f])
      BY <1>5
    <3>2. CASE disk'[f] = disk[f]
      BY <1>1, <3>1, <3>2 DEF DataKept
    <3>3. CASE \E r \in Within(now) : r.path = f /\ disk'[f] = r.blob
      <4>1. PICK r \in Within(now) : r.path = f /\ disk'[f] = r.blob
        BY <3>3
      <4>2. CASE Unread(f)
        <5>1. \A data : Sealed(KeyInUse, data) # disk[f]
          BY <1>1, <4>2, StoresLoad
        <5>2. disk'[f] # disk[f]
          BY <4>1, <5>1 DEF Within
        <5> QED
          BY <1>3, <3>1, <4>2, <5>2
      <4>3. CASE ~Unread(f)
        <5>1. disk'[f].data \in {owed[f], now[f]}
          BY <4>1, <4>3 DEF Within
        <5> QED
          BY <3>1, <5>1
      <4> QED
        BY <4>2, <4>3
    <3>4. CASE disk'[f] = Torn
      BY <3>1, <3>4
    <3> QED
      BY <2>2, <3>2, <3>3, <3>4, PathFacts DEF Served
  <2>6. DataKept'
    BY <1>1, <1>3, <2>4, <2>5 DEF DataKept
  <2>7. TypeOK'
    BY <1>1, <1>5, <2>1, <2>3, <2>6, OwedTypeOK, FreshTypeOK DEF TypeOK, Migration
  <2>8. CopyCovers'
    BY <2>1, FreshTypeOK DEF CopyCovers
  <2>9. InOrder'
    BY <2>4 DEF InOrder
  <2> QED
    BY <2>3, <2>6, <2>7, <2>8, <2>9 DEF IInv
<1> QED
  <2> HIDE DEF Owes
  <2>1. Serve(w, now, next)
    OBVIOUS
  <2> QED
    BY <1>4, <1>5, <2>1 DEF Serve, Owes

----------------------------------------------------------------------------
(* The calls of the user *)

(* Encrypting a plain file in place changes nothing of what it says, and    *)
(* leaves alone one that cannot be opened.                                  *)
LEMMA ResealFacts ==
    ASSUME DiskOK, DataKept, NEW now, NEW f \in Files, NEW d, d[f] = disk[f]
    PROVE  /\ Reseal(f) \in Seq(Within(now))
           /\ \A p \in Paths \ {f} : After(d, Reseal(f))[p] = d[p]
           /\ After(d, Reseal(f))[f].data = disk[f].data
           /\ Load(After(d, Reseal(f))[f]) = Load(disk[f])
<1>1. f \in Paths /\ disk[f].data \in Data
  BY PathFacts, LoadTypeOK
<1>2. CASE disk[f].form = "plain"
  <2>1. Reseal(f) = Write(f, Sealed(KeyInUse, disk[f].data))
    BY <1>2 DEF Reseal
  <2>2. \A p \in Paths : After(d, Reseal(f))[p] =
            IF p = f THEN Sealed(KeyInUse, disk[f].data) ELSE d[p]
    BY <2>1, AfterOne
  <2>3. Load(Sealed(KeyInUse, disk[f].data)) = Load(disk[f])
    BY <1>2, BlobFacts DEF Load, Opens
  <2>4. f \in Stores => disk[f].data = owed[f]
    BY DEF DataKept
  <2>5. [path |-> f, blob |-> Sealed(KeyInUse, disk[f].data)] \in Within(now)
    BY <1>1, <2>4, BlobFacts DEF Within
  <2>6. Reseal(f) \in Seq(Within(now))
    BY <2>1, <2>5 DEF Write
  <2> QED
    BY <1>1, <2>2, <2>3, <2>6, BlobFacts
<1>3. CASE disk[f].form # "plain"
  <2>1. Reseal(f) = <<>>
    BY <1>3 DEF Reseal
  <2> QED
    BY <1>1, <2>1, AfterNone
<1> QED
  BY <1>2, <1>3

(* The entries are those a store the step can open owes, or is to owe.      *)
Owable(f, data, now) == f \in Stores /\ ~Unread(f) => data \in {owed[f], now[f]}

(* What is saved is what is read next.                                      *)
LEMMA SaveFacts ==
    ASSUME NEW now, NEW f \in Files, NEW data \in Data,
           Owable(f, data, now)
    PROVE  /\ Save(f, data) \in Seq(Within(now))
           /\ \A d : \A p \in Paths \ {f} : After(d, Save(f, data))[p] = d[p]
           /\ \A d : After(d, Save(f, data))[f] = Sealed(KeyInUse, data)
           /\ Load(Sealed(KeyInUse, data)) = data
<1>1. f \in Paths
  BY PathFacts
<1>2. [path |-> f, blob |-> Sealed(KeyInUse, data)] \in Within(now)
  BY BlobFacts DEF Within, Owable
<1>3. Save(f, data) \in Seq(Within(now))
  BY <1>2 DEF Save, Write
<1>4. \A d : \A p \in Paths : After(d, Save(f, data))[p] =
          IF p = f THEN Sealed(KeyInUse, data) ELSE d[p]
  BY AfterOne DEF Save
<1>5. Load(Sealed(KeyInUse, data)) = data
  BY BlobFacts DEF Load, Opens
<1> QED
  BY <1>1, <1>3, <1>4, <1>5


(* What a call makes the files owe.                                         *)
Now(stored, removed) == [f \in Stores |-> (owed[f] \cup stored[f]) \ removed[f]]

(* The migration takes note of what a call adds to the file it is copying.  *)
LEMMA CallStep ==
    ASSUME IInv, NEW stored \in [Stores -> Data], NEW removed \in [Stores -> Data],
           NEW w \in Seq(Within(Now(stored, removed))), Call(w, stored, removed),
           Settled(w, Now(stored, removed)),
           \A f \in Stores : Load(After(disk, w)[f]) \subseteq Load(disk[f]) \cup stored[f],
           After(disk, w)["users"] = disk["users"]
    PROVE  IInv'
<1> DEFINE next == IF mig.at = "copy" /\ mig.cur \in Stores
                   THEN [mig EXCEPT !.late = @ \cup stored[mig.cur]]
                   ELSE mig
           now == Now(stored, removed)
<1>1. mig \in Migration /\ user \in BOOLEAN /\ CopyCovers
  BY DEF IInv, TypeOK, Migration
<1>2. Serve(w, now, next) /\ user' \in BOOLEAN
  BY <1>1 DEF Call, Now
<1>3. w \in Seq(Within(now)) /\ Settled(w, now)
  OBVIOUS
<1> HIDE DEF now
<1>4. CASE mig.at = "copy" /\ mig.cur \in Stores
  <2>1. next = [mig EXCEPT !.late = @ \cup stored[mig.cur]] /\ stored[mig.cur] \in SUBSET Entries
    BY <1>4 DEF Data
  <2>2. /\ next \in Migration /\ next.cur = mig.cur /\ next.todo = mig.todo
        /\ next.rows = mig.rows /\ next.late = mig.late \cup stored[mig.cur]
    BY <1>1, <1>4, <2>1 DEF Migration
  <2>3. Load(After(disk, w)[mig.cur]) \subseteq Load(disk[mig.cur]) \cup stored[mig.cur]
    BY <1>4
  <2>4. Load(disk[mig.cur]) \subseteq mig.todo \cup mig.rows \cup mig.late
    BY <1>1, <1>4 DEF CopyCovers
  <2>5. Load(After(disk, w)[next.cur]) \subseteq next.todo \cup next.rows \cup next.late
    BY <2>2, <2>3, <2>4
  <2> HIDE DEF next
  <2> QED
    BY <1>2, <1>3, <2>2, <2>5, ServeStep
<1>5. CASE ~(mig.at = "copy" /\ mig.cur \in Stores)
  <2>1. next = mig
    BY <1>5
  <2>2. mig.at = "copy" => mig.cur = "users"
    BY <1>1, <1>5 DEF Migration, Files
  <2>3. mig.at = "copy" =>
            Load(After(disk, w)[mig.cur]) \subseteq mig.todo \cup mig.rows \cup mig.late
    BY <1>1, <2>2 DEF CopyCovers
  <2> HIDE DEF next
  <2> QED
    BY <1>1, <1>2, <1>3, <2>1, <2>3, ServeStep
<1> QED
  BY <1>4, <1>5

(* Reading a file leaves every file with what it owes.                      *)
LEMMA ResealSettled ==
    ASSUME DiskOK, DataKept, NEW f \in Files
    PROVE  /\ Reseal(f) \in Seq(Within(owed)) /\ Settled(Reseal(f), owed)
           /\ \A g \in Files : Load(After(disk, Reseal(f))[g]) = Load(disk[g])
           /\ f # "users" => After(disk, Reseal(f))["users"] = disk["users"]
<1>1. /\ Reseal(f) \in Seq(Within(owed))
      /\ \A p \in Paths \ {f} : After(disk, Reseal(f))[p] = disk[p]
      /\ After(disk, Reseal(f))[f].data = disk[f].data
      /\ Load(After(disk, Reseal(f))[f]) = Load(disk[f])
  BY ResealFacts
<1>2. ASSUME NEW g \in Stores PROVE After(disk, Reseal(f))[g].data = owed[g]
  <2>1. disk[g].data = owed[g] /\ g \in Paths
    BY PathFacts DEF DataKept
  <2> QED
    BY <1>1, <2>1
<1>3. ASSUME NEW g \in Files PROVE Load(After(disk, Reseal(f))[g]) = Load(disk[g])
  <2>1. g \in Paths
    BY PathFacts
  <2> QED
    BY <1>1, <2>1
<1> QED
  BY <1>1, <1>2, <1>3, PathFacts DEF Settled

(* Reading a file at most encrypts it in place.                             *)
LEMMA ReadStep ==
    ASSUME IInv, NEW f \in Stores, Read(f)
    PROVE  IInv'
<1>1. DiskOK /\ DataKept /\ f \in Files /\ f # "users" /\ owed \in [Stores -> SUBSET Entries]
  BY PathFacts DEF IInv, TypeOK
<1>2. /\ Reseal(f) \in Seq(Within(owed)) /\ Settled(Reseal(f), owed)
      /\ \A g \in Files : Load(After(disk, Reseal(f))[g]) = Load(disk[g])
      /\ After(disk, Reseal(f))["users"] = disk["users"]
  BY <1>1, ResealSettled
<1>3. Nothing \in [Stores -> Data] /\ \A g \in Stores : Nothing[g] = {}
  BY DEF Nothing, Data
<1>4. Now(Nothing, Nothing) = owed
  BY <1>1, <1>3 DEF Now
<1>5. \A g \in Stores : Load(After(disk, Reseal(f))[g]) \subseteq Load(disk[g]) \cup Nothing[g]
  BY <1>2, PathFacts
<1> QED
  BY <1>2, <1>3, <1>4, <1>5, CallStep DEF Read

(* A file is resealed if need be and saved with other entries.              *)
LEMMA UpdateFacts ==
    ASSUME DiskOK, DataKept, NEW now, NEW f \in Files, NEW data \in Data,
           Owable(f, data, now),
           NEW d, d[f] = disk[f]
    PROVE  /\ Reseal(f) \o Save(f, data) \in Seq(Within(now))
           /\ \A p \in Paths \ {f} : After(d, Reseal(f) \o Save(f, data))[p] = d[p]
           /\ After(d, Reseal(f) \o Save(f, data))[f] = Sealed(KeyInUse, data)
           /\ Load(Sealed(KeyInUse, data)) = data
<1>1. /\ Reseal(f) \in Seq(Within(now))
      /\ \A p \in Paths \ {f} : After(d, Reseal(f))[p] = d[p]
  BY ResealFacts
<1>2. /\ Save(f, data) \in Seq(Within(now))
      /\ \A e : \A p \in Paths \ {f} : After(e, Save(f, data))[p] = e[p]
      /\ \A e : After(e, Save(f, data))[f] = Sealed(KeyInUse, data)
      /\ Load(Sealed(KeyInUse, data)) = data
  BY SaveFacts
<1>3. \A p \in Paths : After(d, Reseal(f) \o Save(f, data))[p]
                           = After(After(d, Reseal(f)), Save(f, data))[p]
  BY <1>1, <1>2, AfterBoth
<1>4. Reseal(f) \o Save(f, data) \in Seq(Within(now))
  BY <1>1, <1>2
<1> QED
  BY <1>1, <1>2, <1>3, <1>4, PathFacts

(* A call that reads one file and saves it with other entries.              *)
LEMMA UpdateStep ==
    ASSUME IInv, NEW f \in Stores, NEW data \in Data,
           NEW stored \in [Stores -> Data], NEW removed \in [Stores -> Data],
           Call(Reseal(f) \o Save(f, data), stored, removed),
           ~Unread(f) => data = (owed[f] \cup stored[f]) \ removed[f],
           \A g \in Stores : g # f => stored[g] = {} /\ removed[g] = {},
           data \subseteq Load(disk[f]) \cup stored[f]
    PROVE  IInv'
<1> DEFINE w == Reseal(f) \o Save(f, data)
           now == Now(stored, removed)
<1>1. DiskOK /\ DataKept /\ f \in Files
  BY PathFacts DEF IInv
<1>2. now[f] = (owed[f] \cup stored[f]) \ removed[f] /\ \A g \in Stores : g # f => now[g] = owed[g]
  BY DEF Now
<1> HIDE DEF now
<1>3. /\ w \in Seq(Within(now))
      /\ \A p \in Paths \ {f} : After(disk, w)[p] = disk[p]
      /\ After(disk, w)[f] = Sealed(KeyInUse, data) /\ Load(Sealed(KeyInUse, data)) = data
  <2>1. Owable(f, data, now)
    BY <1>2 DEF Owable
  <2> QED
    BY <1>1, <2>1, UpdateFacts
<1>4. Call(w, stored, removed)
  OBVIOUS
<1> HIDE DEF w
<1>5. Settled(w, now)
  <2>1. ASSUME NEW g \in Stores, g # f PROVE After(disk, w)[g].data = now[g]
    <3>1. disk[g].data = owed[g] /\ g \in Paths
      BY <1>1, StoresLoad, PathFacts
    <3> QED
      BY <1>2, <1>3, <2>1, <3>1
  <2>2. CASE Unread(f)
    <3>1. Sealed(KeyInUse, data) # disk[f]
      BY <1>1, <2>2, StoresLoad
    <3> QED
      BY <1>3, <2>1, <2>2, <3>1 DEF Settled
  <2>3. CASE ~Unread(f)
    <3>1. After(disk, w)[f].data = now[f]
      BY <1>2, <1>3, <2>3, BlobFacts
    <3> QED
      BY <2>1, <3>1 DEF Settled
  <2> QED
    BY <2>2, <2>3
<1>6. ASSUME NEW g \in Stores
      PROVE  Load(After(disk, w)[g]) \subseteq Load(disk[g]) \cup stored[g]
  <2>1. g \in Paths
    BY PathFacts
  <2> QED
    BY <1>3, <2>1
<1>7. After(disk, w)["users"] = disk["users"]
  BY <1>3, PathFacts
<1> QED
  BY <1>3, <1>4, <1>5, <1>6, <1>7, CallStep DEF now

(* set_service_prefs adds an entry to preferences.json.                     *)
LEMMA SetServicePrefsStep ==
    ASSUME IInv, NEW s \in Services, SetServicePrefs(s)
    PROVE  IInv'
<1> DEFINE f == "preferences"
           data == Load(disk[f]) \cup {s}
           stored == [Nothing EXCEPT ![f] = {s}]
<1>1. DiskOK /\ DataKept /\ f \in Stores
  BY PathFacts DEF IInv
<1>2. /\ Nothing \in [Stores -> Data] /\ stored \in [Stores -> Data] /\ stored[f] = {s}
      /\ Nothing[f] = {} /\ \A g \in Stores : g # f => stored[g] = {} /\ Nothing[g] = {}
  BY <1>1 DEF Nothing, Data, Entries
<1>3. /\ ~Unread(f) => Load(disk[f]) = owed[f]
      /\ Load(disk[f]) \in Data
  BY <1>1, StoresLoad
<1>4. data \in Data
  BY <1>3 DEF Data, Entries
<1>5. Call(Reseal(f) \o Save(f, data), stored, Nothing)
  BY DEF SetServicePrefs
<1> HIDE DEF stored
<1> QED
  BY <1>1, <1>2, <1>3, <1>4, <1>5, UpdateStep

(* remove_credentials takes one away from credentials.json.                 *)
LEMMA RemoveCredentialsStep ==
    ASSUME IInv, NEW s \in Services, RemoveCredentials(s)
    PROVE  IInv'
<1> DEFINE f == "credentials"
           data == Load(disk[f]) \ {s}
           removed == [Nothing EXCEPT ![f] = {s}]
<1>1. DiskOK /\ DataKept /\ f \in Stores
  BY PathFacts DEF IInv
<1>2. /\ Nothing \in [Stores -> Data] /\ removed \in [Stores -> Data] /\ removed[f] = {s}
      /\ Nothing[f] = {} /\ \A g \in Stores : g # f => removed[g] = {} /\ Nothing[g] = {}
  BY <1>1 DEF Nothing, Data, Entries
<1>3. /\ ~Unread(f) => Load(disk[f]) = owed[f]
      /\ Load(disk[f]) \in Data
  BY <1>1, StoresLoad
<1>4. data \in Data
  BY <1>3 DEF Data, Entries
<1>5. Call(Reseal(f) \o Save(f, data), Nothing, removed)
  BY DEF RemoveCredentials
<1> HIDE DEF removed
<1> QED
  BY <1>1, <1>2, <1>3, <1>4, <1>5, UpdateStep

(* set_credentials writes both files, the second only when it lacks the     *)
(* service.                                                                 *)
LEMMA SetCredentialsStep ==
    ASSUME IInv, NEW s \in Services, SetCredentials(s)
    PROVE  IInv'
<1> DEFINE c == "credentials"
           p == "preferences"
           data == Load(disk[c]) \cup {s}
           prefs == Load(disk[p])
           stored == [f \in Stores |-> {s}]
           now == Now(stored, Nothing)
           more == prefs \cup {s}
           enabling == IF s \in prefs THEN <<>> ELSE Save(p, more)
           first == Reseal(c) \o Save(c, data)
           two == first \o Reseal(p)
           w == two \o enabling
           d1 == After(disk, first)
           d2 == After(d1, Reseal(p))
           d3 == After(d2, enabling)
<1>1. /\ DiskOK /\ DataKept
      /\ c \in Stores /\ p \in Stores /\ c \in Files /\ p \in Files /\ c \in Paths /\ p \in Paths
      /\ c # p /\ "users" \in Paths \ {c, p} /\ Stores = {c, p}
  BY PathFacts DEF IInv, Stores
<1>2. /\ stored \in [Stores -> Data] /\ Nothing \in [Stores -> Data]
      /\ \A f \in Stores : stored[f] = {s} /\ Nothing[f] = {}
  BY DEF Nothing, Data, Entries
<1>3. /\ ~Unread(c) => Load(disk[c]) = owed[c]
      /\ Unread(c) => \A x : Sealed(KeyInUse, x) # disk[c]
      /\ ~Unread(p) => Load(disk[p]) = owed[p] /\ disk[p].data = owed[p]
      /\ Unread(p) => Load(disk[p]) = {} /\ \A x : Sealed(KeyInUse, x) # disk[p]
      /\ Load(disk[c]) \in Data /\ Load(disk[p]) \in Data
  BY <1>1, StoresLoad
<1>4. data \in Data /\ more \in Data
  BY <1>3 DEF Data, Entries
<1>5. now[c] = owed[c] \cup {s} /\ now[p] = owed[p] \cup {s}
  BY <1>1, <1>2 DEF Now
<1>6. Call(w, stored, Nothing)
  BY DEF SetCredentials
<1> HIDE DEF now, stored
<1>7. /\ first \in Seq(Within(now))
      /\ \A q \in Paths \ {c} : d1[q] = disk[q]
      /\ d1[c] = Sealed(KeyInUse, data) /\ Load(d1[c]) = data
  <2>1. Owable(c, data, now)
    BY <1>3, <1>5 DEF Owable
  <2>2. ASSUME NEW f \in Files, NEW x \in Data, NEW y,
               Owable(f, x, y)
        PROVE  /\ Reseal(f) \o Save(f, x) \in Seq(Within(y))
               /\ \A q \in Paths \ {f} : After(disk, Reseal(f) \o Save(f, x))[q] = disk[q]
               /\ After(disk, Reseal(f) \o Save(f, x))[f] = Sealed(KeyInUse, x)
               /\ Load(Sealed(KeyInUse, x)) = x
    BY <1>1, <2>2, UpdateFacts
  <2> HIDE DEF data
  <2> QED
    BY <1>1, <1>4, <2>1, <2>2
<1> HIDE DEF first, d1
<1>8. d1[p] = disk[p]
  BY <1>1, <1>7
<1>9. /\ Reseal(p) \in Seq(Within(now))
      /\ \A q \in Paths \ {p} : d2[q] = d1[q]
      /\ d2[p].data = disk[p].data /\ Load(d2[p]) = Load(disk[p])
  BY <1>1, <1>8, ResealFacts
<1>10. two \in Seq(Within(now)) /\ \A q \in Paths : After(disk, two)[q] = d2[q]
  BY <1>7, <1>9, AfterBoth DEF d1
<1> HIDE DEF two, d2
<1>11. /\ enabling \in Seq(Within(now))
       /\ \A q \in Paths \ {p} : d3[q] = d2[q]
       /\ Load(d3[p]) = more
       /\ d3[p].data = now[p] \/ (Unread(p) /\ d3[p] # disk[p])
  <2>1. CASE s \in prefs
    <3>1. enabling = <<>> /\ \A q \in Paths : d3[q] = d2[q]
      BY <2>1, AfterNone
    <3>2. ~Unread(p) /\ owed[p] = prefs
      BY <1>3, <2>1
    <3> QED
      BY <1>1, <1>3, <1>5, <1>9, <2>1, <3>1, <3>2
  <2>2. CASE s \notin prefs
    <3>1. enabling = Save(p, more)
      BY <2>2
    <3>2. ~Unread(p) => more = now[p]
      BY <1>3, <1>5
    <3>3. Owable(p, more, now)
      BY <3>2 DEF Owable
    <3> HIDE DEF more, enabling
    <3>4. /\ Save(p, more) \in Seq(Within(now))
          /\ \A q \in Paths \ {p} : After(d2, Save(p, more))[q] = d2[q]
          /\ After(d2, Save(p, more))[p] = Sealed(KeyInUse, more)
          /\ Load(Sealed(KeyInUse, more)) = more
      <4>1. ASSUME NEW f \in Files, NEW x \in Data, NEW y,
                   Owable(f, x, y)
            PROVE  /\ Save(f, x) \in Seq(Within(y))
                   /\ \A d : \A q \in Paths \ {f} : After(d, Save(f, x))[q] = d[q]
                   /\ \A d : After(d, Save(f, x))[f] = Sealed(KeyInUse, x)
                   /\ Load(Sealed(KeyInUse, x)) = x
        BY <4>1, SaveFacts
      <4> QED
        BY <1>1, <1>4, <3>3, <4>1
    <3>5. Unread(p) => Sealed(KeyInUse, more) # disk[p]
      BY <1>3
    <3>6. Sealed(KeyInUse, more).data = more
      BY BlobFacts
    <3> QED
      BY <3>1, <3>2, <3>4, <3>5, <3>6
  <2> QED
    BY <2>1, <2>2
<1> HIDE DEF enabling
<1>12. w \in Seq(Within(now))
  BY <1>10, <1>11
<1>13. \A q \in Paths : After(disk, w)[q] = d3[q]
  <2>1. \A q \in Paths : After(disk, w)[q] = After(After(disk, two), enabling)[q]
    BY <1>10, <1>11, AfterBoth
  <2>2. \A q \in Paths : After(After(disk, two), enabling)[q] = d3[q]
    BY <1>10 DEF After
  <2> QED
    BY <2>1, <2>2
<1> HIDE DEF w, d3
<1>14. Settled(w, now)
  <2>1. After(disk, w)[c] = Sealed(KeyInUse, data)
    BY <1>1, <1>7, <1>9, <1>11, <1>13
  <2>2. After(disk, w)[c].data = now[c] \/ (Unread(c) /\ After(disk, w)[c] # disk[c])
    <3>1. ~Unread(c) => data = now[c]
      BY <1>3, <1>5
    <3>2. Sealed(KeyInUse, data).data = data
      BY BlobFacts
    <3> QED
      BY <1>3, <2>1, <3>1, <3>2
  <2>3. After(disk, w)[p].data = now[p] \/ (Unread(p) /\ After(disk, w)[p] # disk[p])
    BY <1>1, <1>11, <1>13
  <2> QED
    BY <1>1, <2>2, <2>3 DEF Settled
<1>15. \A f \in Stores : Load(After(disk, w)[f]) \subseteq Load(disk[f]) \cup stored[f]
  <2>1. After(disk, w)[c] = d1[c] /\ After(disk, w)[p] = d3[p]
    BY <1>1, <1>9, <1>11, <1>13
  <2>2. stored[c] = {s} /\ stored[p] = {s}
    BY <1>1, <1>2
  <2> QED
    BY <1>1, <1>7, <1>11, <2>1, <2>2
<1>16. After(disk, w)["users"] = disk["users"]
  BY <1>1, <1>7, <1>9, <1>11, <1>13
<1> QED
  BY <1>2, <1>6, <1>12, <1>14, <1>15, <1>16, CallStep DEF now

----------------------------------------------------------------------------
(* The migration *)

(* A step that touches no file, and at most forgets the key.                *)
LEMMA QuietStep ==
    ASSUME IInv, UNCHANGED <<disk, bak, issued, rot, history>>,
           cached' = cached \/ cached' = NoKey,
           mig' \in Migration, user' \in BOOLEAN, CopyCovers'
    PROVE  IInv'
<1>1. TypeOK /\ DiskOK /\ RotationOK /\ DataKept /\ KeysNear /\ InOrder
  BY DEF IInv
<1>2. /\ disk' = disk /\ bak' = bak /\ issued' = issued /\ rot' = rot /\ owed' = owed
      /\ skipped' = skipped /\ orderly' = orderly /\ lost' = lost /\ behind' = behind
  BY DEF history
<1>3. TypeOK'
  <2>1. cached' \in 0..issued
    BY <1>1 DEF TypeOK, NoKey
  <2> QED
    BY <1>1, <1>2, <2>1 DEF TypeOK, Migration
<1>4. DiskOK' /\ RotationOK' /\ DataKept'
  BY <1>1, <1>2 DEF DiskOK, FileBlobs, KeyBlobs, RotationOK, DataKept
<1>5. KeysNear'
  BY <1>1, <1>2 DEF KeysNear, Near, Replacing
<1>6. InOrder'
  BY <1>1, <1>2 DEF InOrder, Replacing
<1> QED
  BY <1>3, <1>4, <1>5, <1>6 DEF IInv

(* A process that ends leaves the files as they are.                        *)
LEMMA RestartStep ==
    ASSUME IInv, Restart
    PROVE  IInv'
<1>1. mig' \in Migration /\ mig'.at = "fresh"
  BY FreshTypeOK DEF Restart, NewProcess
<1>2. CopyCovers'
  BY <1>1 DEF CopyCovers
<1> QED
  BY <1>1, <1>2, QuietStep DEF Restart, NewProcess, IInv, TypeOK

(* What is to be copied is unaffected by the steps of others, which leave   *)
(* the file as it was, or empty.                                            *)
LEMMA SameCopy ==
    ASSUME CopyCovers, UNCHANGED <<cached, mig>>,
           mig.at = "copy" => disk'[mig.cur] \in {disk[mig.cur], Torn}
    PROVE  CopyCovers'
<1>1. SUFFICES ASSUME mig.at = "copy"
               PROVE  cached # NoKey /\ Load(disk[mig.cur])' \subseteq mig.todo \cup mig.rows \cup mig.late
  BY DEF CopyCovers
<1>2. cached # NoKey /\ Load(disk[mig.cur]) \subseteq mig.todo \cup mig.rows \cup mig.late
  BY <1>1 DEF CopyCovers
<1>3. KeyInUse' = KeyInUse
  BY <1>2 DEF KeyInUse
<1>4. CASE disk'[mig.cur] = disk[mig.cur]
  BY <1>2, <1>3, <1>4 DEF Load, Opens
<1>5. CASE disk'[mig.cur] = Torn
  BY <1>2, <1>3, <1>5, BlobFacts DEF Load, Opens
<1> QED
  BY <1>1, <1>4, <1>5

(* The user's row is no file.                                               *)
LEMMA SignInStep ==
    ASSUME IInv, SignIn
    PROVE  IInv'
<1>1. mig \in Migration /\ mig' = mig /\ CopyCovers
  BY DEF IInv, TypeOK, Migration, SignIn
<1>2. CopyCovers'
  BY <1>1, SameCopy DEF SignIn
<1> QED
  BY <1>1, <1>2, QuietStep DEF SignIn

(* The migration starts with all files before it, or is over.               *)
LEMMA CheckStep ==
    ASSUME IInv, Check
    PROVE  IInv'
<1>1. mig \in Migration /\ user \in BOOLEAN
  BY DEF IInv, TypeOK, Migration
<1>2. Over \in Migration /\ Over.at = "off"
  BY FreshTypeOK DEF Over, Migration
<1>3. mig' \in Migration /\ mig'.at # "copy"
  BY <1>1, <1>2 DEF Check, Move, Migration
<1>4. CopyCovers'
  BY <1>3 DEF CopyCovers
<1> QED
  BY <1>1, <1>3, <1>4, QuietStep DEF Check, Move

(* A file that is done leaves the migration between two files.              *)
LEMMA DoneTypeOK ==
    ASSUME mig \in Migration, NEW f
    PROVE  Done(f) \in Migration /\ Done(f).at = "pick"
<1>1. mig.left \ {f} \in SUBSET Files
  BY DEF Migration
<1> QED
  BY <1>1, FreshTypeOK DEF Done, Migration

(* What is read of a file is all there is to copy.                          *)
LEMMA PickStep ==
    ASSUME IInv, NEW f \in Files, Pick(f)
    PROVE  IInv'
<1>1. /\ mig \in Migration /\ user \in BOOLEAN /\ DiskOK /\ DataKept /\ user' = user
  BY DEF IInv, TypeOK, Migration, Pick
<1>2. CASE Move(Done(f))
  <2>1. mig' \in Migration /\ mig'.at # "copy"
    BY <1>1, <1>2, DoneTypeOK DEF Move
  <2>2. CopyCovers'
    BY <2>1 DEF CopyCovers
  <2> QED
    BY <1>1, <1>2, <2>1, <2>2, QuietStep DEF Move
<1>3. CASE Serve(Reseal(f), owed, [mig EXCEPT !.at = "copy", !.cur = f, !.todo = Load(disk[f])])
  <2> DEFINE next == [mig EXCEPT !.at = "copy", !.cur = f, !.todo = Load(disk[f])]
  <2>1. Load(disk[f]) \in SUBSET Entries
    BY <1>1, LoadTypeOK DEF Data
  <2>2. next \in Migration /\ next.cur = f /\ next.todo = Load(disk[f])
    BY <1>1, <2>1 DEF Migration
  <2>3. Serve(Reseal(f), owed, next)
    BY <1>3
  <2> HIDE DEF next
  <2>4. /\ Reseal(f) \in Seq(Within(owed)) /\ Settled(Reseal(f), owed)
        /\ Load(After(disk, Reseal(f))[f]) = Load(disk[f])
    BY <1>1, ResealSettled
  <2>5. Load(After(disk, Reseal(f))[next.cur]) \subseteq next.todo \cup next.rows \cup next.late
    BY <2>2, <2>4
  <2> QED
    BY <1>1, <2>2, <2>3, <2>4, <2>5, ServeStep
<1> QED
  BY <1>2, <1>3 DEF Pick

(* An entry leaves what is to be copied when it becomes a row.              *)
LEMMA CopyStep ==
    ASSUME IInv, NEW e \in Entries, Copy(e)
    PROVE  IInv'
<1>1. mig \in Migration /\ CopyCovers
  BY DEF IInv, TypeOK, Migration
<1>2. mig' = [mig EXCEPT !.todo = @ \ {e}, !.rows = @ \cup {e}]
      /\ UNCHANGED <<disk, bak, issued, cached, rot, history>> /\ user' = TRUE
  BY DEF Copy, Move
<1>3. /\ mig' \in Migration /\ mig'.at = mig.at /\ mig'.cur = mig.cur
      /\ mig'.todo = mig.todo \ {e} /\ mig'.rows = mig.rows \cup {e} /\ mig'.late = mig.late
  BY <1>1, <1>2 DEF Migration
<1>4. CopyCovers'
  <2>1. Load(disk[mig.cur])' = Load(disk[mig.cur])
    BY <1>2, <1>3 DEF Load, Opens, KeyInUse
  <2> QED
    BY <1>1, <1>2, <1>3, <2>1 DEF CopyCovers
<1> QED
  BY <1>2, <1>3, <1>4, QuietStep

(* A failed row ends the copying of its file.                               *)
LEMMA FailStep ==
    ASSUME IInv, Fail
    PROVE  IInv'
<1>1. mig \in Migration /\ user \in BOOLEAN
  BY DEF IInv, TypeOK, Migration
<1>2. mig' \in Migration /\ mig'.at # "copy"
  BY <1>1, DoneTypeOK DEF Fail, Move
<1>3. CopyCovers'
  BY <1>2 DEF CopyCovers
<1> QED
  BY <1>1, <1>2, <1>3, QuietStep DEF Fail, Move

(* The migration is over when no file is left.                              *)
LEMMA FinishStep ==
    ASSUME IInv, Finish
    PROVE  IInv'
<1>1. user \in BOOLEAN /\ Over \in Migration /\ Over.at = "off"
  BY FreshTypeOK DEF IInv, TypeOK, Over, Migration
<1>2. CopyCovers'
  BY <1>1 DEF CopyCovers, Finish, Move
<1> QED
  BY <1>1, <1>2, QuietStep DEF Finish, Move

(* A file put aside owes nothing any more; in good order none is put aside  *)
(* beside a rotation, for the server has a key.                             *)
LEMMA BackupStep ==
    ASSUME IInv, Backup
    PROVE  IInv'
<1> DEFINE f == mig.cur
<1>1. /\ TypeOK /\ DiskOK /\ RotationOK /\ DataKept /\ KeysNear /\ InOrder /\ CopyCovers
      /\ mig \in Migration /\ f \in Files /\ f \in Paths
      /\ owed \in [Stores -> SUBSET Entries] /\ bak \subseteq Files /\ disk \in [Paths -> Blobs]
  BY PathFacts DEF IInv, TypeOK, Migration
<1>2. /\ UNCHANGED <<issued, cached, user, rot, skipped, lost, orderly, behind>>
      /\ mig' = Done(f) /\ mig.at = "copy"
  BY DEF Backup
<1>3. mig' \in Migration /\ mig'.at = "pick"
  BY <1>1, <1>2, DoneTypeOK
<1>4. CopyCovers'
  BY <1>3 DEF CopyCovers
<1>5. CASE UNCHANGED <<disk, bak, owed>>
  BY <1>1, <1>2, <1>3, <1>4, <1>5, QuietStep DEF history, TypeOK
<1>6. CASE /\ bak' = bak \cup {f}
           /\ disk' = [disk EXCEPT ![f] = Absent]
           /\ owed' = IF f \in Stores THEN [owed EXCEPT ![f] = {}] ELSE owed
  <2>1. disk'["master"] = disk["master"] /\ disk'["master.bak"] = disk["master.bak"]
    BY <1>1, <1>6, PathFacts
  <2>2. \A g \in Files : disk'[g] = IF g = f THEN Absent ELSE disk[g]
    BY <1>1, <1>6, PathFacts
  <2>3. \A g \in Stores : owed'[g] = IF g = f THEN {} ELSE owed[g]
    BY <1>1, <1>6
  <2>4. TypeOK'
    <3>1. Absent \in Blobs
      BY DEF Blobs
    <3>2. disk' \in [Paths -> Blobs] /\ bak' \subseteq Files
      BY <1>1, <1>6, <3>1
    <3>3. owed' \in [Stores -> SUBSET Entries]
      BY <1>1, <1>6
    <3> QED
      BY <1>1, <1>2, <1>3, <3>2, <3>3 DEF TypeOK, Migration
  <2>5. DiskOK'
    <3>1. FileBlobs' = FileBlobs /\ KeyBlobs' = KeyBlobs /\ Absent \in FileBlobs
      BY <1>2 DEF FileBlobs, KeyBlobs
    <3> QED
      BY <1>1, <1>2, <2>1, <2>2, <3>1 DEF DiskOK, KeyPaths
  <2>6. RotationOK' /\ DataKept'
    BY <1>1, <1>2, <2>1, <2>2, <2>3, PathFacts, BlobFacts DEF RotationOK, DataKept
  <2>7. KeysNear'
    <3>1. ASSUME NEW g \in Stores, disk'[g].form = "sealed" PROVE disk'[g] = disk[g]
      BY <2>2, <3>1, PathFacts, BlobFacts
    <3> QED
      BY <1>1, <1>2, <2>1, <3>1 DEF KeysNear, Near, Replacing
  <2>8. InOrder'
    <3>1. SUFFICES ASSUME orderly PROVE InOrder'
      BY <1>2 DEF InOrder
    <3>2. cached # NoKey /\ rot.at = "off" /\ disk["master"] = KeyFile(cached)
      BY <1>1, <1>2, <3>1 DEF CopyCovers, InOrder
    <3>3. ASSUME NEW g \in Stores, disk'[g].form = "sealed"
          PROVE  disk'["master"] = KeyFile(disk'[g].key)
      <4>1. disk'[g] = disk[g]
        BY <2>2, <3>3, PathFacts, BlobFacts
      <4> QED
        BY <1>1, <2>1, <3>1, <3>2, <3>3, <4>1 DEF InOrder
    <3> QED
      BY <1>2, <2>1, <3>2, <3>3 DEF InOrder, Replacing
  <2> QED
    BY <1>4, <2>4, <2>5, <2>6, <2>7, <2>8 DEF IInv
<1> QED
  BY <1>5, <1>6 DEF Backup

----------------------------------------------------------------------------
(* The rotation of the key *)

(* No rotation is one that has nothing to do.                               *)
LEMMA NoRotationTypeOK ==
    /\ NoRotation \in Rotation /\ NoRotation.at = "off" /\ NoRotation.todo = {}
    /\ NoRotation.got = {}
BY DEF NoRotation, Rotation

(* What a step of the rotation has to keep, for the invariant.              *)
LEMMA RotationStep ==
    ASSUME IInv, UNCHANGED <<bak, cached, user>>, disk' = [p \in Paths |-> disk'[p]],
           issued' \in 0..MaxKey, issued <= issued', rot' \in Rotation, mig' \in Migration,
           owed' = [f \in Stores |-> owed'[f]], skipped' \subseteq Stores,
           orderly' \in BOOLEAN, behind' \in BOOLEAN,
           DiskOK', RotationOK', DataKept', KeysNear', InOrder', CopyCovers'
    PROVE  IInv'
<1>1. TypeOK /\ MaxKey \in Nat
  BY FilesAssumption DEF IInv
<1>2. cached' \in 0..issued'
  <2>1. cached \in 0..issued /\ issued \in 0..MaxKey
    BY <1>1 DEF TypeOK
  <2> QED
    BY <1>1, <2>1
<1>3. disk' \in [Paths -> Blobs] /\ owed' \in [Stores -> SUBSET Entries]
  BY DiskTypeOK, OwedTypeOK
<1>4. lost' \subseteq Stores
  BY DEF DataKept
<1>5. TypeOK'
  BY <1>1, <1>2, <1>3, <1>4 DEF TypeOK, Migration, Rotation
<1> QED
  BY <1>5 DEF IInv

(* What the invariant says of the variables a rotation leaves alone.        *)
LEMMA RotationTypes ==
    ASSUME IInv
    PROVE  /\ DiskOK /\ RotationOK /\ DataKept /\ KeysNear /\ InOrder /\ CopyCovers
           /\ disk = [p \in Paths |-> disk[p]] /\ owed = [f \in Stores |-> owed[f]]
           /\ disk \in [Paths -> Blobs] /\ owed \in [Stores -> SUBSET Entries]
           /\ issued \in 0..MaxKey /\ MaxKey \in Nat /\ rot \in Rotation /\ mig \in Migration
           /\ skipped \subseteq Stores /\ orderly \in BOOLEAN /\ behind \in BOOLEAN
BY FilesAssumption DEF IInv, TypeOK, Rotation, Migration

(* A key that may be either key file's is so whatever the rotation does.    *)
LEMMA NearWeakens ==
    ASSUME NEW key, NEW strict \in BOOLEAN, Near(key, strict)
    PROVE  Near(key, FALSE)
BY DEF Near

(* A rotation starts with all files yet to be read.                         *)
LEMMA StartRotationStep ==
    ASSUME IInv, StartRotation
    PROVE  IInv'
<1>1. /\ DiskOK /\ RotationOK /\ DataKept /\ KeysNear /\ InOrder /\ CopyCovers
      /\ disk = [p \in Paths |-> disk[p]] /\ owed = [f \in Stores |-> owed[f]]
      /\ issued \in 0..MaxKey /\ MaxKey \in Nat /\ mig \in Migration
      /\ skipped \subseteq Stores /\ orderly \in BOOLEAN /\ behind \in BOOLEAN
  BY RotationTypes
<1>2. /\ UNCHANGED <<disk, bak, cached, mig, user, owed, skipped, lost>>
      /\ rot.at = "off" /\ disk["master"].form = "key" /\ issued < MaxKey
      /\ issued' = issued + 1 /\ orderly' = (orderly /\ cached = NoKey)
      /\ behind' = (behind \/ cached \notin {NoKey, disk["master"].key})
  BY DEF StartRotation, migration
<1>3. /\ rot' \in Rotation /\ rot'.at = "read" /\ rot'.todo = EncryptedFiles /\ rot'.got = {}
  <2>1. rot' = [NoRotation EXCEPT !.at = "read", !.todo = EncryptedFiles]
    BY DEF StartRotation
  <2>2. EncryptedFiles \in SUBSET Stores
    BY DEF EncryptedFiles
  <2> QED
    BY <2>1, <2>2 DEF NoRotation, Rotation
<1>4. issued' \in 0..MaxKey /\ issued <= issued' /\ orderly' \in BOOLEAN /\ behind' \in BOOLEAN
  BY <1>1, <1>2
<1>5. disk["master"] \notin {Absent, Torn}
  BY <1>2, BlobFacts
<1>6. DiskOK'
  <2>1. FileBlobs \subseteq FileBlobs' /\ KeyBlobs \subseteq KeyBlobs'
    BY <1>1, <1>4, BlobsGrow
  <2> QED
    BY <1>1, <1>2, <2>1 DEF DiskOK
<1>7. RotationOK' /\ DataKept'
  BY <1>1, <1>2, <1>3, <1>5 DEF RotationOK, DataKept
<1>8. \A f \in Stores : disk[f].form = "sealed" => f \in rot'.todo
  BY <1>3, BlobFacts DEF EncryptedFiles
<1>9. KeysNear'
  <2>1. ASSUME ~behind', cached # NoKey PROVE disk["master"] = KeyFile(cached)
    BY <1>1, <1>2, <1>5, <2>1, HeldKey
  <2>2. ASSUME ~behind', NEW f \in Stores, disk[f].form = "sealed", f \notin skipped
        PROVE  Near(disk[f].key, FALSE)
    BY <1>1, <1>2, <2>2, NearWeakens DEF KeysNear, Replacing
  <2> QED
    BY <1>2, <1>3, <1>8, <2>1, <2>2 DEF KeysNear, Near, Replacing
<1>10. InOrder'
  BY <1>1, <1>2, <1>3, <1>8 DEF InOrder, Replacing
<1>11. CopyCovers'
  BY <1>1, <1>2, SameCopy
<1> QED
  BY <1>1, <1>2, <1>3, <1>4, <1>6, <1>7, <1>9, <1>10, <1>11, RotationStep

(* A file that has been read is under the key to be replaced, or reported.  *)
LEMMA ReadFileStep ==
    ASSUME IInv, NEW f \in Stores, ReadFile(f)
    PROVE  IInv'
<1>1. /\ DiskOK /\ RotationOK /\ DataKept /\ KeysNear /\ InOrder /\ CopyCovers
      /\ disk = [p \in Paths |-> disk[p]] /\ owed = [g \in Stores |-> owed[g]]
      /\ issued \in 0..MaxKey /\ MaxKey \in Nat /\ rot \in Rotation /\ mig \in Migration
      /\ skipped \subseteq Stores /\ orderly \in BOOLEAN /\ behind \in BOOLEAN
  BY RotationTypes
<1>2. /\ UNCHANGED <<disk, bak, issued, cached, mig, user, owed, lost, orderly, behind>>
      /\ rot.at = "read" /\ f \in rot.todo
  BY DEF ReadFile, migration
<1>3. issued' \in 0..MaxKey /\ issued <= issued'
  BY <1>1, <1>2
<1>4. disk["master"] \notin {Absent, Torn} /\ disk["master"] = KeyFile(disk["master"].key)
  BY <1>1, <1>2, HeldKey DEF RotationOK
<1>5. DiskOK' /\ DataKept'
  BY <1>1, <1>2 DEF DiskOK, FileBlobs, KeyBlobs, DataKept
<1>6. CopyCovers'
  BY <1>1, <1>2, SameCopy
<1>7. CASE rot' = NoRotation /\ UNCHANGED skipped
  <2>1. rot' \in Rotation /\ rot'.at = "off" /\ rot'.got = {}
    BY <1>7, NoRotationTypeOK
  <2>2. RotationOK'
    BY <2>1 DEF RotationOK
  <2>3. KeysNear'
    BY <1>1, <1>2, <1>7, <2>1 DEF KeysNear, Near, Replacing
  <2>4. InOrder'
    BY <1>1, <1>2, <2>1 DEF InOrder, Replacing
  <2> QED
    BY <1>1, <1>2, <1>3, <1>5, <1>6, <1>7, <2>1, <2>2, <2>3, <2>4, RotationStep
<1>8. CASE /\ Opens(disk[f], disk["master"].key)
           /\ rot' = [rot EXCEPT !.todo = @ \ {f}, !.got = @ \cup {f}, !.data[f] = disk[f].data]
           /\ skipped' = skipped \ {f}
  <2>1. /\ rot' \in Rotation /\ rot'.at = "read" /\ rot'.todo = rot.todo \ {f}
        /\ rot'.got = rot.got \cup {f}
        /\ \A g \in Stores : rot'.data[g] = IF g = f THEN disk[f].data ELSE rot.data[g]
    <3>1. disk[f].data \in SUBSET Entries
      BY <1>1, LoadTypeOK, PathFacts DEF Data
    <3> QED
      BY <1>1, <1>2, <1>8, <3>1 DEF Rotation
  <2>2. RotationOK'
    BY <1>2, <1>4, <2>1 DEF RotationOK
  <2>3. disk[f].form = "sealed" => disk["master"] = KeyFile(disk[f].key)
    BY <1>4, <1>8 DEF Opens
  <2>4. KeysNear'
    BY <1>1, <1>2, <1>8, <2>1, <2>3 DEF KeysNear, Near, Replacing
  <2>5. InOrder'
    <3>1. rot.got \subseteq Stores
      BY <1>1 DEF Rotation
    <3> QED
      BY <1>1, <1>2, <2>1, <3>1 DEF InOrder, Replacing
  <2> QED
    BY <1>1, <1>2, <1>3, <1>5, <1>6, <1>8, <2>1, <2>2, <2>4, <2>5, RotationStep
<1>9. CASE /\ ~Opens(disk[f], disk["master"].key)
           /\ rot' = [rot EXCEPT !.todo = @ \ {f}] /\ skipped' = skipped \cup {f}
  <2>1. /\ rot' \in Rotation /\ rot'.at = "read" /\ rot'.todo = rot.todo \ {f}
        /\ rot'.got = rot.got /\ rot'.data = rot.data
    BY <1>1, <1>2, <1>9 DEF Rotation
  <2>2. RotationOK'
    BY <1>2, <1>4, <2>1 DEF RotationOK
  <2>3. KeysNear'
    BY <1>1, <1>2, <1>9, <2>1 DEF KeysNear, Near, Replacing
  <2>4. ASSUME orderly PROVE disk[f].form # "sealed"
    <3>1. SUFFICES ASSUME disk[f].form = "sealed" PROVE FALSE
      OBVIOUS
    <3>2. disk["master"] = KeyFile(disk[f].key)
      BY <1>1, <1>2, <2>4, <3>1 DEF InOrder
    <3> QED
      BY <1>9, <3>1, <3>2, BlobFacts DEF Opens
  <2>5. InOrder'
    BY <1>1, <1>2, <2>1, <2>4 DEF InOrder, Replacing
  <2> QED
    BY <1>1, <1>2, <1>3, <1>5, <1>6, <1>9, <2>1, <2>2, <2>3, <2>5, RotationStep
<1> QED
  BY <1>7, <1>8, <1>9 DEF ReadFile

(* The key put aside is the one all files read are under.                   *)
LEMMA WriteBackupStep ==
    ASSUME IInv, WriteBackup
    PROVE  IInv'
<1>1. /\ DiskOK /\ RotationOK /\ DataKept /\ KeysNear /\ InOrder /\ CopyCovers
      /\ disk \in [Paths -> Blobs] /\ owed = [g \in Stores |-> owed[g]]
      /\ issued \in 0..MaxKey /\ MaxKey \in Nat /\ rot \in Rotation /\ mig \in Migration
      /\ skipped \subseteq Stores /\ orderly \in BOOLEAN /\ behind \in BOOLEAN
  BY RotationTypes
<1>2. /\ UNCHANGED <<bak, issued, cached, mig, user, owed, skipped, lost, orderly, behind>>
      /\ rot.at = "read" /\ rot.todo = {} /\ rot' = [rot EXCEPT !.at = "key"]
      /\ disk' = [disk EXCEPT !["master.bak"] = KeyFile(disk["master"].key)]
  BY DEF WriteBackup, KeyPutAside, migration, history
<1>3. issued' \in 0..MaxKey /\ issued <= issued'
  BY <1>1, <1>2
<1>4. /\ disk["master"] \notin {Absent, Torn} /\ disk["master"] = KeyFile(disk["master"].key)
  BY <1>1, <1>2, HeldKey DEF RotationOK
<1>5. /\ disk' = [p \in Paths |-> disk'[p]]
      /\ disk'["master.bak"] = disk["master"] /\ disk'["master"] = disk["master"]
      /\ \A g \in Files : disk'[g] = disk[g]
  BY <1>1, <1>2, <1>4, PathFacts
<1>6. /\ rot' \in Rotation /\ rot'.at = "key" /\ rot'.todo = {} /\ rot'.got = rot.got
      /\ rot'.data = rot.data
  BY <1>1, <1>2 DEF Rotation
<1>7. DiskOK'
  BY <1>1, <1>2, <1>5 DEF DiskOK, KeyPaths, FileBlobs, KeyBlobs
<1>8. RotationOK' /\ DataKept'
  BY <1>1, <1>2, <1>4, <1>5, <1>6, PathFacts DEF RotationOK, DataKept
<1>9. KeysNear'
  BY <1>1, <1>2, <1>5, <1>6, PathFacts DEF KeysNear, Near, Replacing
<1>10. InOrder'
  <2>1. rot.got \subseteq Stores
    BY <1>1 DEF Rotation
  <2> QED
    BY <1>1, <1>2, <1>5, <1>6, <2>1, PathFacts DEF InOrder, Replacing
<1>11. CopyCovers'
  <2>1. mig.cur \in Files
    BY <1>1 DEF Migration
  <2> QED
    BY <1>1, <1>2, <1>5, <2>1, SameCopy
<1> QED
  BY <1>1, <1>2, <1>3, <1>5, <1>6, <1>7, <1>8, <1>9, <1>10, <1>11, RotationStep

(* The key file is replaced when what was under it is under its backup.     *)
LEMMA WriteKeyStep ==
    ASSUME IInv, WriteKey
    PROVE  IInv'
<1>1. /\ DiskOK /\ RotationOK /\ DataKept /\ KeysNear /\ InOrder /\ CopyCovers
      /\ disk \in [Paths -> Blobs] /\ owed = [g \in Stores |-> owed[g]]
      /\ issued \in 0..MaxKey /\ MaxKey \in Nat /\ rot \in Rotation /\ mig \in Migration
      /\ skipped \subseteq Stores /\ orderly \in BOOLEAN /\ behind \in BOOLEAN
  BY RotationTypes
<1>2. /\ UNCHANGED <<bak, issued, cached, mig, user, owed, skipped, lost, orderly, behind>>
      /\ rot.at = "key" /\ rot.todo = {}
      /\ disk' = [disk EXCEPT !["master"] = KeyFile(issued)]
      /\ rot' = IF rot.got = {} THEN NoRotation ELSE [rot EXCEPT !.at = "files"]
  BY <1>1 DEF WriteKey, RotationOK, migration, history
<1>3. issued' \in 0..MaxKey /\ issued <= issued'
  BY <1>1, <1>2
<1>4. disk["master"].key \in 1..issued
  BY <1>1, <1>2, HeldKey DEF RotationOK
<1>5. issued \in 1..issued
  BY <1>1, <1>4
<1>6. /\ disk' = [p \in Paths |-> disk'[p]]
      /\ disk'["master.bak"] = disk["master.bak"] /\ disk'["master"] = KeyFile(issued)
      /\ \A g \in Files : disk'[g] = disk[g]
  BY <1>1, <1>2, PathFacts
<1>7. /\ rot' \in Rotation /\ rot'.at \in {"off", "files"} /\ rot'.got = rot.got
      /\ rot'.at = "off" => rot.got = {}
      /\ rot'.at = "files" => rot'.data = rot.data
  <2>1. CASE rot.got = {}
    BY <1>2, <2>1, NoRotationTypeOK
  <2>2. CASE rot.got # {}
    BY <1>1, <1>2, <2>2 DEF Rotation
  <2> QED
    BY <2>1, <2>2
<1>8. DiskOK'
  <2>1. FileBlobs' = FileBlobs /\ KeyBlobs' = KeyBlobs /\ KeyFile(issued) \in KeyBlobs
    BY <1>2, <1>5 DEF FileBlobs, KeyBlobs
  <2> QED
    BY <1>1, <1>2, <1>6, <2>1, BlobFacts DEF DiskOK, KeyPaths
<1>9. RotationOK' /\ DataKept'
  BY <1>1, <1>2, <1>6, <1>7, PathFacts, BlobFacts DEF RotationOK, DataKept
<1>10. KeysNear'
  <2>1. ASSUME ~behind PROVE disk'["master.bak"] = disk["master"]
    BY <1>1, <1>2, <1>6, <2>1 DEF KeysNear
  <2>2. ASSUME ~behind, cached # NoKey PROVE disk["master"] = KeyFile(cached)
    BY <1>1, <1>2, <2>2 DEF KeysNear, Near, Replacing
  <2>3. ASSUME ~behind, NEW g \in Stores, disk[g].form = "sealed", g \notin skipped
        PROVE  disk["master"] = KeyFile(disk[g].key)
    BY <1>1, <1>2, <2>3 DEF KeysNear, Near, Replacing
  <2> QED
    BY <1>2, <1>6, <1>7, <2>1, <2>2, <2>3, PathFacts DEF KeysNear, Near, Replacing
<1>11. InOrder'
  <2>1. SUFFICES ASSUME orderly PROVE InOrder'
    BY <1>2 DEF InOrder
  <2>2. cached = NoKey /\ \A g \in Stores : disk[g].form = "sealed" => g \in rot.got
    BY <1>1, <1>2, <2>1 DEF InOrder, Replacing
  <2>3. \A g \in rot.got : g \in Stores /\ rot.data[g] = disk[g].data
    BY <1>1, <1>2, <2>1 DEF InOrder, Rotation
  <2> QED
    BY <1>2, <1>6, <1>7, <2>2, <2>3, PathFacts DEF InOrder, Replacing
<1>12. CopyCovers'
  <2>1. mig.cur \in Files
    BY <1>1 DEF Migration
  <2> QED
    BY <1>1, <1>2, <1>6, <2>1, SameCopy
<1> QED
  BY <1>1, <1>2, <1>3, <1>6, <1>7, <1>8, <1>9, <1>10, <1>11, <1>12, RotationStep

(* A file is rewritten under the new key, with what was read of it; in good *)
(* order that is what it holds.                                             *)
LEMMA WriteFileStep ==
    ASSUME IInv, NEW f \in Stores, WriteFile(f)
    PROVE  IInv'
<1>1. /\ DiskOK /\ RotationOK /\ DataKept /\ KeysNear /\ InOrder /\ CopyCovers
      /\ disk \in [Paths -> Blobs] /\ owed \in [Stores -> SUBSET Entries]
      /\ issued \in 0..MaxKey /\ MaxKey \in Nat /\ rot \in Rotation /\ mig \in Migration
      /\ skipped \subseteq Stores /\ orderly \in BOOLEAN /\ behind \in BOOLEAN
  BY RotationTypes
<1>2. /\ UNCHANGED <<bak, issued, cached, user, orderly, behind>>
      /\ rot.at = "files" /\ f \in rot.got
      /\ disk' = [disk EXCEPT ![f] = Sealed(issued, rot.data[f])]
      /\ rot' = IF rot.got = {f} THEN NoRotation ELSE [rot EXCEPT !.got = @ \ {f}, !.data[f] = {}]
      /\ owed' = [owed EXCEPT ![f] = rot.data[f]]
      /\ lost' = IF orderly /\ disk[f].data # rot.data[f] THEN lost \cup {f} ELSE lost
      /\ skipped' = skipped \ {f}
      /\ mig' = IF mig.at = "copy" /\ mig.cur = f THEN [mig EXCEPT !.late = @ \cup rot.data[f]]
                ELSE mig
  BY DEF WriteFile
<1>3. issued' \in 0..MaxKey /\ issued <= issued'
  BY <1>1, <1>2
<1>4. disk["master"] = KeyFile(issued) /\ disk["master"].key \in 1..issued
  BY <1>1, <1>2, HeldKey DEF RotationOK
<1>5. issued \in 1..issued /\ rot.data[f] \in SUBSET Entries /\ f \in Files /\ f \in Paths
  BY <1>1, <1>4, PathFacts DEF Rotation
<1>6. /\ disk' = [p \in Paths |-> disk'[p]] /\ owed' = [g \in Stores |-> owed'[g]]
      /\ disk'["master.bak"] = disk["master.bak"] /\ disk'["master"] = disk["master"]
      /\ \A g \in Files : disk'[g] = IF g = f THEN Sealed(issued, rot.data[f]) ELSE disk[g]
      /\ \A g \in Stores : owed'[g] = IF g = f THEN rot.data[f] ELSE owed[g]
  BY <1>1, <1>2, <1>5, PathFacts
<1>7. /\ rot' \in Rotation /\ rot'.at \in {"off", "files"} /\ rot'.got = rot.got \ {f}
      /\ \A g \in Stores : rot'.at = "files" /\ g # f => rot'.data[g] = rot.data[g]
  <2>1. CASE rot.got = {f}
    BY <1>2, <2>1, NoRotationTypeOK
  <2>2. CASE rot.got # {f}
    BY <1>1, <1>2, <2>2 DEF Rotation
  <2> QED
    BY <2>1, <2>2
<1>8. rot'.at = "off" => rot.got \ {f} = {}
  BY <1>7, <1>2 DEF Rotation
<1>9. DiskOK'
  <2>1. FileBlobs' = FileBlobs /\ KeyBlobs' = KeyBlobs /\ Sealed(issued, rot.data[f]) \in FileBlobs
    BY <1>2, <1>5 DEF FileBlobs, KeyBlobs, Data
  <2> QED
    BY <1>1, <1>2, <1>6, <2>1 DEF DiskOK, KeyPaths
<1>10. RotationOK'
  BY <1>2, <1>4, <1>6, <1>7, BlobFacts DEF RotationOK
<1>11. DataKept'
  <2>1. orderly => disk[f].data = rot.data[f]
    BY <1>1, <1>2 DEF InOrder
  <2>2. lost' = lost
    BY <1>2, <2>1
  <2> QED
    BY <1>1, <1>6, <2>2, PathFacts, BlobFacts DEF DataKept
<1>12. KeysNear'
  <2>1. disk'[f].key = issued
    BY <1>5, <1>6, BlobFacts
  <2>2. ASSUME ~behind, NEW g \in Stores, g # f, disk[g].form = "sealed", g \notin skipped
        PROVE  Near(disk[g].key, FALSE)
    BY <1>1, <1>2, <2>2, NearWeakens DEF KeysNear, Replacing
  <2>3. ASSUME ~behind, cached # NoKey PROVE Near(cached, FALSE)
    BY <1>1, <1>2, <2>3 DEF KeysNear, Near, Replacing
  <2>4. ~Replacing' /\ rot'.at # "key"
    BY <1>7 DEF Replacing
  <2>5. \A g \in Stores : g # f => disk'[g] = disk[g] /\ (g \notin skipped' => g \notin skipped)
    BY <1>2, <1>6, PathFacts
  <2> QED
    BY <1>2, <1>4, <1>6, <2>1, <2>2, <2>3, <2>4, <2>5 DEF KeysNear, Near
<1>13. InOrder'
  <2>1. SUFFICES ASSUME orderly PROVE InOrder'
    BY <1>2 DEF InOrder
  <2>2. cached' = NoKey
    BY <1>1, <1>2, <2>1 DEF InOrder
  <2>3. ASSUME NEW g \in Stores, disk'[g].form = "sealed", ~(rot'.at = "files" /\ g \in rot'.got)
        PROVE  disk'["master"] = KeyFile(disk'[g].key)
    <3>1. CASE g = f
      BY <1>4, <1>5, <1>6, <3>1, BlobFacts
    <3>2. CASE g # f
      <4>1. disk'[g] = disk[g] /\ g \notin rot.got
        BY <1>6, <1>7, <1>8, <2>3, <3>2, PathFacts
      <4> QED
        BY <1>1, <1>6, <2>1, <2>3, <4>1 DEF InOrder
    <3> QED
      BY <3>1, <3>2
  <2>4. ASSUME NEW g \in rot'.got, rot'.at # "off" PROVE rot'.data[g] = disk'[g].data
    <3>1. g \in Stores /\ g \in rot.got /\ g # f /\ g \in Files
      BY <1>1, <1>7, PathFacts DEF Rotation
    <3> QED
      BY <1>1, <1>2, <1>6, <1>7, <2>1, <2>4, <3>1 DEF InOrder
  <2>5. ~Replacing'
    BY <1>7 DEF Replacing
  <2> QED
    BY <2>2, <2>3, <2>4, <2>5 DEF InOrder
<1>14. mig' \in Migration /\ CopyCovers'
  <2>1. CASE mig.at = "copy" /\ mig.cur = f
    <3>1. mig' = [mig EXCEPT !.late = @ \cup rot.data[f]]
      BY <1>2, <2>1
    <3>2. /\ mig' \in Migration /\ mig'.cur = f /\ mig'.at = "copy"
          /\ mig'.late = mig.late \cup rot.data[f]
      BY <1>1, <1>5, <2>1, <3>1 DEF Migration
    <3>3. disk'[f].data = rot.data[f] /\ cached' # NoKey
      BY <1>1, <1>2, <1>5, <1>6, <2>1, BlobFacts DEF CopyCovers
    <3>4. Load(disk[f])' \subseteq rot.data[f]
      BY <3>3 DEF Load
    <3> QED
      BY <3>2, <3>3, <3>4 DEF CopyCovers
  <2>2. CASE ~(mig.at = "copy" /\ mig.cur = f)
    <3>1. mig' = mig /\ mig.cur \in Files
      BY <1>1, <1>2, <2>2 DEF Migration
    <3> QED
      BY <1>1, <1>2, <1>6, <2>2, <3>1, SameCopy
  <2> QED
    BY <2>1, <2>2
<1>15. skipped' \subseteq Stores /\ orderly' \in BOOLEAN /\ behind' \in BOOLEAN
  BY <1>1, <1>2
<1> QED
  BY <1>2, <1>3, <1>6, <1>7, <1>9, <1>10, <1>11, <1>12, <1>13, <1>14, <1>15, RotationStep

(* A rotation that is cut off leaves files and key files as they are, or    *)
(* empties the one it is writing, which is no longer or not yet needed.     *)
LEMMA CutRotationStep ==
    ASSUME IInv, CutRotation
    PROVE  IInv'
<1>1. /\ DiskOK /\ RotationOK /\ DataKept /\ KeysNear /\ InOrder /\ CopyCovers
      /\ disk = [q \in Paths |-> disk[q]] /\ owed = [g \in Stores |-> owed[g]]
      /\ disk \in [Paths -> Blobs] /\ owed \in [Stores -> SUBSET Entries]
      /\ issued \in 0..MaxKey /\ MaxKey \in Nat /\ rot \in Rotation /\ mig \in Migration
      /\ skipped \subseteq Stores /\ orderly \in BOOLEAN /\ behind \in BOOLEAN
  BY RotationTypes
<1>2. /\ UNCHANGED <<bak, issued, cached, mig, user, lost, behind>> /\ orderly' = FALSE
      /\ rot.at # "off" /\ rot' = NoRotation
  BY DEF CutRotation, migration
<1>3. /\ issued' \in 0..MaxKey /\ issued <= issued' /\ orderly' \in BOOLEAN /\ behind' \in BOOLEAN
      /\ rot' \in Rotation /\ rot'.at = "off"
  <2>1. rot' \in Rotation /\ rot'.at = "off"
    BY <1>2, NoRotationTypeOK
  <2>2. issued' \in 0..MaxKey /\ issued <= issued'
    BY <1>1, <1>2
  <2> QED
    BY <1>1, <1>2, <2>1, <2>2
<1>4. InOrder' /\ RotationOK' /\ ~Replacing'
  BY <1>2, <1>3 DEF InOrder, RotationOK, Replacing
<1>5. CASE UNCHANGED <<disk, owed, skipped>>
  <2>1. DiskOK' /\ DataKept'
    BY <1>1, <1>2, <1>5 DEF DiskOK, FileBlobs, KeyBlobs, DataKept
  <2>2. KeysNear'
    BY <1>1, <1>2, <1>3, <1>4, <1>5 DEF KeysNear, Near, Replacing
  <2>3. CopyCovers'
    BY <1>1, <1>2, <1>5, SameCopy
  <2> QED
    BY <1>1, <1>2, <1>3, <1>4, <1>5, <2>1, <2>2, <2>3, RotationStep
<1>6. ASSUME NEW p \in NextPaths, disk' = [disk EXCEPT ![p] = Torn],
             owed' = [f \in Stores |-> IF f = p THEN {} ELSE owed[f]],
             skipped' = skipped \ {p}
      PROVE  IInv'
  <2>1. \/ rot.at = "read" /\ rot.todo = {} /\ p = "master.bak"
        \/ rot.at = "key" /\ rot.todo = {} /\ p = "master"
        \/ rot.at = "files" /\ p \in Stores
    BY <1>1, <1>2, <1>6 DEF NextPaths, Rotation, RotationOK
  <2>2. /\ p \in Paths /\ disk' = [q \in Paths |-> disk'[q]]
        /\ \A q \in Paths : disk'[q] = IF q = p THEN Torn ELSE disk[q]
        /\ owed' = [f \in Stores |-> owed'[f]]
        /\ \A f \in Stores : owed'[f] = IF f = p THEN {} ELSE owed[f]
    BY <1>1, <1>6, <2>1, PathFacts
  <2>3. skipped' \subseteq Stores
    BY <1>1, <1>6
  <2>4. DiskOK'
    <3>1. FileBlobs' = FileBlobs /\ KeyBlobs' = KeyBlobs /\ Torn \in FileBlobs /\ Torn \in KeyBlobs
      BY <1>2 DEF FileBlobs, KeyBlobs
    <3>2. Torn # Absent
      BY BlobFacts
    <3> QED
      BY <1>1, <1>2, <2>2, <3>1, <3>2, PathFacts DEF DiskOK, KeyPaths
  <2>5. DataKept'
    BY <1>1, <1>2, <2>2, PathFacts, BlobFacts DEF DataKept
  <2>6. ASSUME NEW key, Near(key, Replacing), ~behind PROVE Near(key, FALSE)'
    <3>1. CASE rot.at = "read" /\ p = "master.bak"
      BY <2>2, <2>6, <3>1, PathFacts DEF Near, Replacing
    <3>2. CASE rot.at = "key" /\ p = "master"
      <4>1. disk["master.bak"] = KeyFile(key)
        BY <1>1, <2>6, <3>2 DEF Near, Replacing, KeysNear
      <4> QED
        BY <2>2, <3>2, <4>1, PathFacts DEF Near
    <3>3. CASE p \in Stores
      BY <2>2, <2>6, <3>3, PathFacts DEF Near
    <3> QED
      BY <2>1, <3>1, <3>2, <3>3
  <2>7. ASSUME ~behind, cached # NoKey PROVE Near(cached, FALSE)'
    BY <1>1, <1>2, <2>6, <2>7 DEF KeysNear
  <2>8. ASSUME ~behind, NEW f \in Stores, disk'[f].form = "sealed", f \notin skipped'
        PROVE  Near(disk[f].key, FALSE)'
    <3>1. f # p /\ disk'[f] = disk[f] /\ f \notin skipped
      BY <1>6, <2>2, <2>8, PathFacts, BlobFacts
    <3>2. Near(disk[f].key, Replacing /\ f \notin rot.todo)
      BY <1>1, <2>8, <3>1 DEF KeysNear
    <3>3. Near(disk[f].key, Replacing)
      BY <2>1, <3>2 DEF Near, Replacing
    <3>4. Near(disk[f].key, FALSE)' <=> \/ disk'["master"] = KeyFile(disk[f].key)
                                        \/ disk'["master.bak"] = KeyFile(disk[f].key)
      BY <3>1 DEF Near
    <3> QED
      BY <2>6, <2>8, <3>3, <3>4 DEF Near
  <2>9. KeysNear'
    BY <1>2, <1>3, <1>4, <2>7, <2>8 DEF KeysNear, Near
  <2>10. CopyCovers'
    <3>1. mig.cur \in Paths
      BY <1>1, PathFacts DEF Migration
    <3> QED
      BY <1>1, <1>2, <2>2, <3>1, SameCopy
  <2> QED
    BY <1>1, <1>2, <1>3, <1>4, <2>2, <2>3, <2>4, <2>5, <2>9, <2>10, RotationStep
<1> QED
  BY <1>5, <1>6 DEF CutRotation

----------------------------------------------------------------------------
(* All steps *)

(* Plain files and no key, or encrypted files with theirs.                  *)
LEMMA InitIInv ==
    ASSUME Init
    PROVE  IInv
<1>1. PICK key \in {NoKey, 1}, owner \in SUBSET {Owner}, entries \in [Stores -> SUBSET Services] :
         LET Kept(data) == IF data = {} THEN Absent
                           ELSE IF key = NoKey THEN Plain(data) ELSE Sealed(key, data)
         IN /\ disk = [p \in Paths |->
                  CASE p \in Stores -> Kept(entries[p])
                    [] p = "users" -> Kept(owner)
                    [] p = "master" /\ key # NoKey -> KeyFile(key)
                    [] OTHER -> Absent]
            /\ issued = key
            /\ owed = entries
  BY DEF Init
<1> DEFINE Kept(data) == IF data = {} THEN Absent
                         ELSE IF key = NoKey THEN Plain(data) ELSE Sealed(key, data)
<1>2. /\ bak = {} /\ cached = NoKey /\ mig = Fresh /\ user = FALSE /\ rot = NoRotation
      /\ lost = {} /\ skipped = {} /\ orderly = TRUE /\ behind = FALSE
      /\ issued = key /\ owed = entries
  BY <1>1 DEF Init
<1>3. issued \in 0..MaxKey /\ issued \in Nat /\ MaxKey \in Nat
  BY <1>2, FilesAssumption DEF NoKey
<1>4. /\ \A f \in Stores : disk[f] = Kept(entries[f])
      /\ disk["users"] = Kept(owner)
      /\ disk["master"] = IF key # NoKey THEN KeyFile(key) ELSE Absent
      /\ disk["master.bak"] = Absent
      /\ disk = [p \in Paths |-> disk[p]]
  BY <1>1, PathFacts DEF Files
<1>5. \A data \in Data : Kept(data) \in FileBlobs
  BY <1>2 DEF FileBlobs, NoKey
<1>6. entries \in [Stores -> Data] /\ owner \in Data
  BY DEF Data, Entries
<1> HIDE DEF Kept
<1>7. \A f \in Files : disk[f] \in FileBlobs
  BY <1>4, <1>5, <1>6 DEF Files
<1>8. DiskOK
  <2>1. disk["master"] \in KeyBlobs /\ disk["master.bak"] \in KeyBlobs
    BY <1>2, <1>4 DEF KeyBlobs, NoKey
  <2> QED
    BY <1>2, <1>7, <2>1 DEF DiskOK, KeyPaths
<1>9. RotationOK /\ ~Replacing /\ rot.at = "off" /\ rot.got = {}
  BY <1>2, NoRotationTypeOK DEF RotationOK, Replacing
<1>10. ASSUME NEW f \in Stores
       PROVE  /\ disk[f].data = owed[f]
              /\ disk[f].form = "sealed" => disk["master"] = KeyFile(disk[f].key)
  <2>1. disk[f] = Kept(entries[f]) /\ owed[f] = entries[f]
    BY <1>2, <1>4
  <2>2. CASE entries[f] = {}
    BY <2>1, <2>2, BlobFacts DEF Kept
  <2>3. CASE entries[f] # {} /\ key = NoKey
    BY <2>1, <2>3, BlobFacts DEF Kept
  <2>4. CASE entries[f] # {} /\ key # NoKey
    <3>1. disk[f] = Sealed(key, entries[f]) /\ disk["master"] = KeyFile(key)
      BY <1>4, <2>1, <2>4 DEF Kept
    <3> QED
      BY <2>1, <3>1, BlobFacts
  <2> QED
    BY <2>2, <2>3, <2>4
<1>11. DataKept /\ KeysNear /\ InOrder
  BY <1>2, <1>9, <1>10 DEF DataKept, KeysNear, Near, InOrder
<1>12. TypeOK
  <2>1. FileBlobs \subseteq Blobs /\ KeyBlobs \subseteq Blobs
    <3>1. 1..issued \subseteq 1..MaxKey
      BY <1>3
    <3> QED
      BY <3>1 DEF FileBlobs, KeyBlobs, Blobs, Data
  <2>2. \A p \in Paths : disk[p] \in Blobs
    BY <1>8, <2>1 DEF DiskOK, Paths
  <2>3. disk \in [Paths -> Blobs]
    BY <1>4, <2>2
  <2>4. cached \in 0..issued
    BY <1>2, <1>3 DEF NoKey
  <2>5. mig \in Migration /\ rot \in Rotation
    BY <1>2, FreshTypeOK, NoRotationTypeOK
  <2>6. owed \in [Stores -> SUBSET Entries]
    BY <1>2, <1>6 DEF Data
  <2>7. user \in BOOLEAN /\ orderly \in BOOLEAN /\ behind \in BOOLEAN
    BY <1>2
  <2> QED
    BY <1>2, <1>3, <2>3, <2>4, <2>5, <2>6, <2>7 DEF TypeOK, Migration, Rotation
<1>13. CopyCovers
  BY <1>2, FreshTypeOK DEF CopyCovers
<1> QED
  BY <1>8, <1>9, <1>11, <1>12, <1>13 DEF IInv

(* Every step keeps the invariant.                                          *)
LEMMA NextIInv ==
    ASSUME IInv, [Next]_vars
    PROVE  IInv'
<1>1. CASE Restart
  BY <1>1, RestartStep
<1>2. CASE StartRotation
  BY <1>2, StartRotationStep
<1>3. ASSUME NEW f \in Stores, ReadFile(f) PROVE IInv'
  BY <1>3, ReadFileStep
<1>4. CASE WriteBackup
  BY <1>4, WriteBackupStep
<1>5. CASE WriteKey
  BY <1>5, WriteKeyStep
<1>6. ASSUME NEW f \in Stores, WriteFile(f) PROVE IInv'
  BY <1>6, WriteFileStep
<1>7. CASE CutRotation
  BY <1>7, CutRotationStep
<1>8. ASSUME NEW f \in Stores, Read(f) PROVE IInv'
  BY <1>8, ReadStep
<1>9. ASSUME NEW s \in Services, SetServicePrefs(s) PROVE IInv'
  BY <1>9, SetServicePrefsStep
<1>10. ASSUME NEW s \in Services, SetCredentials(s) PROVE IInv'
  BY <1>10, SetCredentialsStep
<1>11. ASSUME NEW s \in Services, RemoveCredentials(s) PROVE IInv'
  BY <1>11, RemoveCredentialsStep
<1>12. CASE SignIn
  BY <1>12, SignInStep
<1>13. CASE Check
  BY <1>13, CheckStep
<1>14. ASSUME NEW f \in Files, Pick(f) PROVE IInv'
  BY <1>14, PickStep
<1>15. ASSUME NEW e \in Entries, Copy(e) PROVE IInv'
  BY <1>15, CopyStep
<1>16. CASE Fail
  BY <1>16, FailStep
<1>17. CASE Backup
  BY <1>17, BackupStep
<1>18. CASE Finish
  BY <1>18, FinishStep
<1>19. CASE UNCHANGED vars
  <2>1. /\ UNCHANGED <<disk, bak, issued, rot, history>> /\ cached' = cached
        /\ mig' = mig /\ user' = user
    BY <1>19 DEF vars, migration
  <2>2. mig \in Migration /\ user \in BOOLEAN /\ CopyCovers
    BY DEF IInv, TypeOK, Migration
  <2>3. CopyCovers'
    BY <2>1, <2>2, SameCopy
  <2> QED
    BY <2>1, <2>2, <2>3, QuietStep
<1> QED
  BY <1>1, <1>2, <1>3, <1>4, <1>5, <1>6, <1>7, <1>8, <1>9, <1>10, <1>11, <1>12, <1>13, <1>14,
     <1>15, <1>16, <1>17, <1>18, <1>19 DEF Next

(* The invariant holds in every reachable state.                            *)
LEMMA AlwaysIInv == Spec => []IInv
<1>1. Init => IInv
  BY InitIInv
<1>2. IInv /\ [Next]_vars => IInv'
  BY NextIInv
<1> QED
  BY <1>1, <1>2, PTL DEF Spec

(* Every variable has its type; a key is a number that was generated, and   *)
(* nothing is encrypted with the empty key of a key file cut off.           *)
THEOREM FilesTypeCorrect == Spec => []TypeOK
<1>1. IInv => TypeOK
  BY DEF IInv
<1> QED
  BY <1>1, AlwaysIInv, PTL

(* Wherever rotations and saves are cut off, and whatever a running server  *)
(* saves beside a rotation, an encrypted file that no rotation has reported *)
(* opens with the key file or with its backup: if the server is restarted   *)
(* between two rotations.                                                   *)
THEOREM OneKeyAlwaysAway == Spec => []OneKeyAway
<1>1. ASSUME IInv PROVE OneKeyAway
  <2>1. SUFFICES ASSUME ~behind, NEW f \in Stores, disk[f].form = "sealed", f \notin skipped
                 PROVE  \E p \in KeyPaths : disk[p].form = "key" /\ disk[p].key = disk[f].key
    BY DEF OneKeyAway
  <2>2. \E p \in KeyPaths : disk[p] = KeyFile(disk[f].key)
    BY <1>1, <2>1 DEF IInv, KeysNear, Near, KeyPaths
  <2> QED
    BY <2>2, BlobFacts
<1> QED
  BY <1>1, AlwaysIInv, PTL

(* A file holds what the user has stored in it until a stop cuts a write of *)
(* it, or it is overwritten by who cannot open it or had read it earlier.   *)
(* With the server stopped for every rotation, and none cut off, the latter *)
(* never happens, and the server reads all that is owed, whichever form the *)
(* file was found in and whichever key is cached.                           *)
THEOREM StoredAlwaysRead == Spec => []StoredIsRead
<1>1. ASSUME IInv, orderly, rot.at = "off", NEW f \in Stores PROVE Load(disk[f]) = owed[f]
  <2>1. /\ DiskOK /\ DataKept
        /\ disk[f].form = "sealed" => disk["master"] = KeyFile(disk[f].key)
        /\ cached # NoKey => disk["master"] = KeyFile(cached)
    BY <1>1 DEF IInv, InOrder
  <2>2. ASSUME disk[f].form = "sealed" PROVE KeyInUse = disk[f].key
    BY <2>1, <2>2, BlobFacts DEF KeyInUse
  <2>3. ~Unread(f)
    BY <2>2 DEF Unread, Opens
  <2> QED
    BY <2>1, <2>3, StoresLoad
<1>2. IInv => StoredIsRead
  BY <1>1 DEF IInv, DataKept, StoredIsRead
<1> QED
  BY <1>2, AlwaysIInv, PTL

(* The migration puts a file aside only when every entry of it that can be  *)
(* read is a row, save those stored while it was being copied.              *)
THEOREM CopiedBeforeRenamed == Spec => RenamedMeansCopied
<1>1. ASSUME IInv, [Next]_vars
      PROVE  [\A f \in (bak' \ bak) \cap Stores : Load(disk[f]) \subseteq mig.rows \cup mig.late]_vars
  <2>1. SUFFICES ASSUME NEW f \in (bak' \ bak) \cap Stores
                 PROVE  Load(disk[f]) \subseteq mig.rows \cup mig.late
    OBVIOUS
  <2>2. CASE Backup
    <3>1. f = mig.cur /\ mig.at = "copy" /\ mig.todo = {}
      <4>1. /\ mig.at = "copy" /\ mig.todo = {}
            /\ bak' = bak \cup {mig.cur} \/ bak' = bak
        BY <2>2 DEF Backup, RowsMissing
      <4> QED
        BY <2>1, <4>1
    <3> QED
      BY <1>1, <3>1 DEF IInv, CopyCovers
  <2>3. CASE bak' = bak
    BY <2>1, <2>3
  <2> QED
    BY <1>1, <2>2, <2>3
       DEF Next, vars, Restart, StartRotation, ReadFile, WriteBackup, WriteKey, WriteFile,
           CutRotation, Read, SetServicePrefs, SetCredentials, RemoveCredentials, Call, Serve,
           SignIn, Check, Pick, Move, Copy, Fail, Finish
<1> QED
  BY <1>1, AlwaysIInv, PTL DEF Spec, RenamedMeansCopied
=============================================================================
