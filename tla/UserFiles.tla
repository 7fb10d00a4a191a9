------------------------------ MODULE UserFiles ------------------------------
(***************************************************************************)
(* One user's encrypted files, the master key and the migration of the     *)
(* files to the database: crypto.py with its local-file provider, the      *)
(* stores of token_store.py built on it, and migrate.py, which the server  *)
(* starts in the background (server.py, _init_db_once).                    *)
(*                                                                         *)
(* Two processes write the files: the server, and rotate_key when an       *)
(* operator runs it from a shell.  The server is one event loop, and a     *)
(* store that is not awaited runs as one step; but the process may stop at *)
(* any write of that step, with the file opened for writing and still      *)
(* empty.  So a step is the sequence of the writes it makes, and is carried*)
(* out whole or up to one of them.  The migration awaits the database      *)
(* after every row, and the user's calls come in between.  A rotation      *)
(* reads and writes one file at a time, beside a running server if nobody  *)
(* has stopped it, and may itself be cut off.  Values of entries are left  *)
(* out: a file holds the set of the services it has an entry for.          *)
(***************************************************************************)
EXTENDS Naturals, Sequences

CONSTANTS
    Services,    \* entries of credentials.json and preferences.json
    Owner,       \* the user, and the entry of users.json
    MaxKey       \* bound: how many master keys are ever generated

ASSUME FilesAssumption == Owner \notin Services /\ MaxKey \in Nat \ {0}

Stores == {"credentials", "preferences"}   \* users/<user>/*.json
Files == Stores \cup {"users"}             \* and users.json beside them
KeyPaths == {"master", "master.bak"}
Paths == Files \cup KeyPaths
Entries == Services \cup {Owner}

Blob(form, key, data) == [form |-> form, key |-> key, data |-> data]
Absent == Blob("none", 0, {})
Torn == Blob("torn", 0, {})
Plain(data) == Blob("plain", 0, data)
Sealed(key, data) == Blob("sealed", key, data)
KeyFile(key) == Blob("key", key, {})
NoKey == 0

VARIABLES
    disk,       \* what each path holds
    bak,        \* the files of which there is a .bak (nothing reads one)
    issued,     \* keys 1..issued have been generated
    cached,     \* _cached_master_key and _fernet of the server
    mig,        \* the migration: where it is and what it has in memory
    user,       \* the users table has a row for Owner
    rot,        \* the rotation: where it is and what it has in memory
    owed,       \* history: the entries stored in each file and not removed
                \* since, or since the file was last cut or overwritten
    skipped,    \* history: files a rotation last reported as failed
    orderly,    \* history: no rotation was cut off, none ran beside the server
    lost,       \* history: files that, while this was so, were overwritten by
                \* who could not open them or had read them earlier
    behind      \* history: a rotation began while the server had yet to be
                \* restarted since the one before

migration == <<mig, user>>
history == <<owed, skipped, orderly, lost, behind>>
vars == <<disk, bak, issued, cached, migration, rot, history>>

(* left: the files yet to come; todo: the entries read of cur and not yet   *)
(* copied; rows: those that are rows now (nothing else reads the tables, and*)
(* no file is copied twice); late: history, entries stored in cur meanwhile.*)
Fresh == [at |-> "fresh", cur |-> "users", left |-> {}, todo |-> {}, rows |-> {},
          late |-> {}]
Over == [Fresh EXCEPT !.at = "off"]

(* at: what it does next; todo: the files yet to be read; got: those        *)
(* re-encrypted in memory and yet to be written; data: what was in them.    *)
NoRotation == [at |-> "off", todo |-> {}, got |-> {}, data |-> [f \in Stores |-> {}]]

(* An installation older than the database: files of plain JSON and no key  *)
(* yet, or encrypted files with theirs.                                     *)
Init ==
    /\ \E key \in {NoKey, 1}, owner \in SUBSET {Owner}, entries \in [Stores -> SUBSET Services] :
           LET Kept(data) == IF data = {} THEN Absent
                             ELSE IF key = NoKey THEN Plain(data) ELSE Sealed(key, data)
           IN /\ disk = [p \in Paths |->
                    CASE p \in Stores -> Kept(entries[p])
                      [] p = "users" -> Kept(owner)
                      [] p = "master" /\ key # NoKey -> KeyFile(key)
                      [] OTHER -> Absent]
              /\ issued = key
              /\ owed = entries
    /\ bak = {}
    /\ cached = NoKey
    /\ mig = Fresh
    /\ user = FALSE
    /\ rot = NoRotation
    /\ skipped = {} /\ orderly = TRUE /\ lost = {} /\ behind = FALSE

----------------------------------------------------------------------------
(* Writes and stops *)

Write(path, blob) == <<[path |-> path, blob |-> blob]>>

(* What is on disk after the writes, of which the last to a path counts.    *)
WritesTo(writes, p) == {i \in DOMAIN writes : writes[i].path = p}
LastTo(writes, p) == CHOOSE i \in WritesTo(writes, p) : \A j \in WritesTo(writes, p) : j <= i
After(d, writes) ==
    [p \in Paths |-> IF WritesTo(writes, p) = {} THEN d[p] ELSE writes[LastTo(writes, p)].blob]

(* The process stops at one of the writes, leaving its file as it was or    *)
(* empty.                                                                   *)
Cut(writes, d) ==
    \E i \in DOMAIN writes :
        LET done == After(disk, SubSeq(writes, 1, i - 1))
        IN d \in {done, After(done, Write(writes[i].path, Torn))}

NewProcess == cached' = NoKey /\ mig' = Fresh

Restart ==
    /\ NewProcess
    /\ UNCHANGED <<disk, bak, issued, user, rot, history>>

----------------------------------------------------------------------------
(* crypto.py *)

(* get_master_key: the cached key, the key file's or a new one.             *)
KeyInUse == IF cached # NoKey THEN cached
            ELSE IF disk["master"] = Absent THEN issued + 1 ELSE disk["master"].key

(* Mutant: an empty key file is taken for a key.                            *)
AnyKeyUsable == KeyInUse <= MaxKey

(* Fernet refuses an empty key: every use of one raises.                    *)
KeyUsable == KeyInUse \in 1..MaxKey
FirstKey == IF disk["master"] = Absent THEN Write("master", KeyFile(KeyInUse)) ELSE <<>>

(* load_encrypted: what cannot be opened reads as empty, and plain JSON is  *)
(* encrypted in place.                                                      *)
Opens(blob, key) == blob.form = "plain" \/ (blob.form = "sealed" /\ blob.key = key)
Load(blob) == IF Opens(blob, KeyInUse) THEN blob.data ELSE {}
Reseal(f) == IF disk[f].form = "plain" THEN Write(f, Sealed(KeyInUse, disk[f].data)) ELSE <<>>

(* save_encrypted *)
Save(f, data) == Write(f, Sealed(KeyInUse, data))

(* The step overwrites what it could not read.                              *)
Overwrites(f) ==
    /\ disk[f].form = "sealed" /\ ~Opens(disk[f], KeyInUse)
    /\ disk'[f] # disk[f]

(* A step of the server that makes the writes, or stops in the middle: what *)
(* the files owe after it, and where the migration is.                      *)
Serve(writes, now, next) ==
    LET Owes(f, data) == IF disk'[f] = Torn \/ Overwrites(f) THEN disk'[f].data ELSE data
    IN /\ KeyUsable
       /\ issued' = IF KeyInUse > issued THEN KeyInUse ELSE issued
       /\ \/ /\ disk' = After(disk, FirstKey \o writes)
             /\ cached' = KeyInUse /\ mig' = next
             /\ owed' = [f \in Stores |-> Owes(f, now[f])]
          \/ /\ Cut(FirstKey \o writes, disk')
             /\ NewProcess
             /\ owed' = [f \in Stores |->
                            Owes(f, IF disk'[f].data = now[f] THEN now[f] ELSE owed[f])]
       /\ skipped' = {f \in skipped : disk'[f] = disk[f]}
       /\ orderly' = (orderly /\ rot.at = "off")
       /\ lost' = lost \cup {f \in Stores : orderly' /\ Overwrites(f)}
       /\ UNCHANGED <<bak, rot, behind>>

----------------------------------------------------------------------------
(* rotate_key, run by an operator from a shell, one at a time.  It clears   *)
(* the caches of its own process, which ends: those of the server stay.     *)
(* users.json, the .bak files and the rows are not re-encrypted.            *)

(* Mutant: the files found leave one of the stores out.                     *)
SomeFiles == {f \in {"credentials"} : disk[f] # Absent}

EncryptedFiles == {f \in Stores : disk[f] # Absent}

StartRotation ==
    /\ rot.at = "off"
    /\ disk["master"].form = "key" /\ issued < MaxKey
    /\ rot' = [NoRotation EXCEPT !.at = "read", !.todo = EncryptedFiles]
    /\ issued' = issued + 1
    /\ orderly' = (orderly /\ cached = NoKey)
    /\ behind' = (behind \/ cached \notin {NoKey, disk["master"].key})
    /\ UNCHANGED <<disk, bak, cached, migration, owed, skipped, lost>>

(* What the old key does not open is reported and left alone; a file that   *)
(* has been renamed since it was found raises, and ends the rotation.       *)
ReadFile(f) ==
    /\ rot.at = "read" /\ f \in rot.todo
    /\ IF disk[f] = Absent THEN rot' = NoRotation /\ UNCHANGED skipped
       ELSE IF Opens(disk[f], disk["master"].key)
       THEN /\ rot' = [rot EXCEPT !.todo = @ \ {f}, !.got = @ \cup {f},
                                  !.data[f] = disk[f].data]
            /\ skipped' = skipped \ {f}
       ELSE rot' = [rot EXCEPT !.todo = @ \ {f}] /\ skipped' = skipped \cup {f}
    /\ UNCHANGED <<disk, bak, issued, cached, migration, owed, lost, orderly, behind>>

(* Mutant: it is the new key that is put aside.                             *)
NewKeyTwice == issued

KeyPutAside == disk["master"].key

WriteBackup ==
    /\ rot.at = "read" /\ rot.todo = {}
    /\ disk' = [disk EXCEPT !["master.bak"] = KeyFile(KeyPutAside)]
    /\ rot' = [rot EXCEPT !.at = "key"]
    /\ UNCHANGED <<bak, issued, cached, migration, history>>

WriteKey ==
    /\ rot.at = "key"
    /\ disk' = [disk EXCEPT !["master"] = KeyFile(issued)]
    /\ rot' = IF rot.got = {} THEN NoRotation ELSE [rot EXCEPT !.at = "files"]
    /\ UNCHANGED <<bak, issued, cached, migration, history>>

(* A save made since the file was read is lost.                             *)
WriteFile(f) ==
    /\ rot.at = "files" /\ f \in rot.got
    /\ disk' = [disk EXCEPT ![f] = Sealed(issued, rot.data[f])]
    /\ rot' = IF rot.got = {f} THEN NoRotation
              ELSE [rot EXCEPT !.got = @ \ {f}, !.data[f] = {}]
    /\ owed' = [owed EXCEPT ![f] = rot.data[f]]
    /\ lost' = IF orderly /\ disk[f].data # rot.data[f] THEN lost \cup {f} ELSE lost
    /\ skipped' = skipped \ {f}
    /\ mig' = IF mig.at = "copy" /\ mig.cur = f THEN [mig EXCEPT !.late = @ \cup rot.data[f]]
              ELSE mig
    /\ UNCHANGED <<bak, issued, cached, user, orderly, behind>>

(* The paths the rotation may be about to write.                            *)
NextPaths == CASE rot.at = "read" -> IF rot.todo = {} THEN {"master.bak"} ELSE {}
               [] rot.at = "key" -> {"master"}
               [] rot.at = "files" -> rot.got
               [] OTHER -> {}

(* The operator's process ends between two writes or in one.                *)
CutRotation ==
    /\ rot.at # "off" /\ rot' = NoRotation
    /\ \/ UNCHANGED <<disk, owed, skipped>>
       \/ \E p \in NextPaths :
              /\ disk' = [disk EXCEPT ![p] = Torn]
              /\ owed' = [f \in Stores |-> IF f = p THEN {} ELSE owed[f]]
              /\ skipped' = skipped \ {p}
    /\ orderly' = FALSE
    /\ UNCHANGED <<bak, issued, cached, migration, lost, behind>>

----------------------------------------------------------------------------
(* token_store.py: the user's calls, none of which awaits between loading a *)
(* file and saving it.  Only a user of the database has calls.              *)

(* stored and removed: what the call does to the entries of each file.      *)
Call(writes, stored, removed) ==
    /\ user
    /\ Serve(writes, [f \in Stores |-> (owed[f] \cup stored[f]) \ removed[f]],
             IF mig.at = "copy" /\ mig.cur \in Stores
             THEN [mig EXCEPT !.late = @ \cup stored[mig.cur]] ELSE mig)
    /\ UNCHANGED user

Nothing == [f \in Stores |-> {}]

(* get_credentials, get_service_prefs, list_connected                       *)
Read(f) ==
    /\ disk[f] # Absent
    /\ Call(Reseal(f), Nothing, Nothing)

SetServicePrefs(s) ==
    Call(Reseal("preferences") \o Save("preferences", Load(disk["preferences"]) \cup {s}),
         [Nothing EXCEPT !["preferences"] = {s}], Nothing)

(* set_credentials: the service is enabled when it has no preferences yet.  *)
SetCredentials(s) ==
    LET prefs == Load(disk["preferences"])
        enabling == IF s \in prefs THEN <<>> ELSE Save("preferences", prefs \cup {s})
    IN Call(Reseal("credentials") \o Save("credentials", Load(disk["credentials"]) \cup {s})
                \o Reseal("preferences") \o enabling,
            [f \in Stores |-> {s}], Nothing)

RemoveCredentials(s) ==
    Call(Reseal("credentials") \o Save("credentials", Load(disk["credentials"]) \ {s}),
         Nothing, [Nothing EXCEPT !["credentials"] = {s}])

(* A first sign-in (auth.create_user) makes the row.                  *)
SignIn ==
    /\ ~user /\ user' = TRUE
    /\ UNCHANGED <<disk, bak, issued, cached, mig, rot, history>>

----------------------------------------------------------------------------
(* migrate.py *)

Move(next) ==
    /\ mig' = next
    /\ UNCHANGED <<disk, bak, issued, cached, rot, history>>

(* needs_migration, at every start *)
Check ==
    /\ mig.at = "fresh"
    /\ Move(IF disk["users"] # Absent /\ ~user THEN [mig EXCEPT !.at = "pick", !.left = Files]
            ELSE Over)
    /\ UNCHANGED user

(* users.json comes first, then the user's credentials and preferences.     *)
IsNext(f) == /\ f \in mig.left
             /\ f # "users" => "users" \notin mig.left
             /\ f = "preferences" => "credentials" \notin mig.left
Done(f) == [Fresh EXCEPT !.at = "pick", !.left = mig.left \ {f}]

(* What is read of the file is all that is copied of it.                    *)
Pick(f) ==
    /\ mig.at = "pick" /\ IsNext(f)
    /\ \/ /\ disk[f] = Absent \/ ~KeyUsable
          /\ Move(Done(f))
       \/ /\ disk[f] # Absent
          /\ Serve(Reseal(f), owed, [mig EXCEPT !.at = "copy", !.cur = f, !.todo = Load(disk[f])])
    /\ UNCHANGED user

(* The row of an entry is inserted; a user file's needs the user's.         *)
Copy(e) ==
    /\ mig.at = "copy" /\ e \in mig.todo
    /\ mig.cur = "users" \/ user
    /\ Move([mig EXCEPT !.todo = @ \ {e}, !.rows = @ \cup {e}])
    /\ user' = TRUE

(* A statement fails: the file is reported and left as it is.               *)
Fail ==
    /\ mig.at = "copy" /\ mig.todo # {}
    /\ Move(Done(mig.cur))
    /\ UNCHANGED user

(* Mutant: the file is renamed although a row failed.                       *)
RowsBehind == {}

RowsMissing == mig.todo

(* _backup: the file is renamed, unless there is a .bak of it.              *)
Backup ==
    LET f == mig.cur
    IN /\ mig.at = "copy" /\ RowsMissing = {}
       /\ mig' = Done(f)
       /\ IF f \notin bak
          THEN /\ bak' = bak \cup {f}
               /\ disk' = [disk EXCEPT ![f] = Absent]
               /\ owed' = IF f \in Stores THEN [owed EXCEPT ![f] = {}] ELSE owed
          ELSE UNCHANGED <<disk, bak, owed>>
       /\ UNCHANGED <<issued, cached, user, rot, skipped, lost, orderly, behind>>

Finish ==
    /\ mig.at = "pick" /\ mig.left = {}
    /\ Move(Over)
    /\ UNCHANGED user

----------------------------------------------------------------------------
Next ==
    \/ Restart
    \/ StartRotation \/ WriteBackup \/ WriteKey \/ CutRotation
    \/ \E f \in Stores : ReadFile(f) \/ WriteFile(f)
    \/ \E f \in Stores : Read(f)
    \/ \E s \in Services : SetServicePrefs(s) \/ SetCredentials(s) \/ RemoveCredentials(s)
    \/ SignIn
    \/ Check
    \/ \E f \in Files : Pick(f)
    \/ \E e \in Entries : Copy(e)
    \/ Fail
    \/ Backup
    \/ Finish

Spec == Init /\ [][Next]_vars

----------------------------------------------------------------------------
Blobs == {Absent, Torn} \cup {Plain(data) : data \in SUBSET Entries}
             \cup {Sealed(key, data) : key \in 1..MaxKey, data \in SUBSET Entries}
             \cup {KeyFile(key) : key \in 1..MaxKey}

(* Every variable has its type; nothing is encrypted with an empty key.     *)
TypeOK ==
    /\ disk \in [Paths -> Blobs] /\ bak \subseteq Files
    /\ issued \in 0..MaxKey /\ cached \in 0..issued
    /\ mig \in [at : {"fresh", "pick", "copy", "off"}, cur : Files, left : SUBSET Files,
                todo : SUBSET Entries, rows : SUBSET Entries, late : SUBSET Entries]
    /\ rot \in [at : {"off", "read", "key", "files"}, todo : SUBSET Stores,
                got : SUBSET Stores, data : [Stores -> SUBSET Entries]]
    /\ user \in BOOLEAN /\ orderly \in BOOLEAN /\ behind \in BOOLEAN
    /\ owed \in [Stores -> SUBSET Entries]
    /\ skipped \subseteq Stores /\ lost \subseteq Stores

(* Wherever a rotation is cut off, and whatever the server saves beside it, *)
(* no file needs a key older than the backup but one that a rotation has    *)
(* reported as failed: if the server is restarted between two rotations.    *)
OneKeyAway ==
    ~behind => \A f \in Stores : disk[f].form = "sealed" /\ f \notin skipped =>
                   \E p \in KeyPaths : disk[p].form = "key" /\ disk[p].key = disk[f].key

(* What a user has stored stays in its file until a stop cuts the write of  *)
(* that file, or it is overwritten by a server that cannot open it or by a  *)
(* rotation that has read it earlier.  The latter two never happen, and the *)
(* server reads all there is, if the server is stopped for every rotation   *)
(* and none is cut off, as the runbook has it (deploy/runbook.md, 7.2).     *)
StoredIsRead ==
    /\ \A f \in Stores : disk[f].data = owed[f]
    /\ lost = {}
    /\ orderly /\ rot.at = "off" => \A f \in Stores : Load(disk[f]) = owed[f]

(* The migration puts a file aside only when every entry of it that was     *)
(* readable is a row, save those stored while it was being copied.          *)
RenamedMeansCopied ==
    [][\A f \in (bak' \ bak) \cap Stores : Load(disk[f]) \subseteq mig.rows \cup mig.late]_vars

=============================================================================
